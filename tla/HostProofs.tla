----------------------------- MODULE HostProofs -----------------------------
(***************************************************************************)
(* Proofs about HostSession, for any permissions that may be asked for,    *)
(* any gestures and any number of messages of the viewer.                  *)
(*                                                                         *)
(* Nothing here follows from one thread alone.  What the user consented to *)
(* is in the interface, the command that carries it in a queue, what it    *)
(* allows in the worker, and what is done with it in two other threads;    *)
(* any of three threads may be the first to report the end.  HostInv says  *)
(* how far along the others are, given where one of them is.               *)
(***************************************************************************)
EXTENDS HostSession, SequenceTheorems, FiniteSetTheorems, TLAPS

\* The worker up to the request, up to the start of its threads, while both of
\* them exist, and after it.
EarlyPCs == SetupPCs \cup AwaitPCs
AlonePCs == EarlyPCs \cup {"approval", "grant", "startCapture"}
JointPCs == {"run", "revoke", "stop", "shutdown", "joinCapture", "joinInput"}
OverPCs == {"ending", "ended"}

\* Which threads there are and how far the session is, by where the worker is;
\* a worker that started both threads returns after them.
Staged ==
  /\ wpc \in AlonePCs => cpc = "none"
  /\ wpc \in AlonePCs \cup {"startInput"} => ipc = "none"
  /\ wpc \in EarlyPCs => session.phase = "AwaitingRequest"
  /\ wpc \in {"approval", "grant"} => session.phase = "AwaitingApproval"
  /\ wpc \in {"startCapture", "startInput"} \cup JointPCs => session.phase = "Active"
  /\ session.phase # "Active" => cpc = "none" /\ ipc = "none"
  /\ wpc = "joinCapture" => closed
  /\ wpc = "joinInput" => cpc = "done" /\ closed
  /\ wpc \in OverPCs /\ ipc # "none" => cpc = "done" /\ ipc = "done" /\ closed

\* The question is on its way, on the screen, or answered, and never asked twice;
\* a command that approves is the answer.
Asked ==
  /\ wpc \in EarlyPCs => /\ ~pending /\ consent = "none"
                         /\ out["worker"] # "request" /\ "request" \notin ToSet(events)
  /\ pending \/ consent # "none" =>
        out["worker"] # "request" /\ "request" \notin ToSet(events)
  /\ "request" \in ToSet(events) => out["worker"] # "request"
  /\ consent # "none" => ~pending
  /\ \A command \in ToSet(commands) \cap Approvals : command = consent

\* What the session allows was asked for and consented to.
Consented ==
  /\ wpc = "grant" \/ session.phase = "Active" => consent \in Approvals
  /\ backend => /\ consent = "approveControl" /\ RequestedControl
                /\ session.phase # "AwaitingRequest"
  /\ session.phase = "Active" =>
        /\ session.grant.permissions \subseteq session.request.permissions
        /\ CanControl(session.grant.permissions) => backend
  /\ injected # <<>> => backend

\* The session has counted the inputs that were injected, and the one that is
\* about to be.
Counted ==
  /\ session.phase = "Active" => session.grant.session = 1
  /\ session.phase # "Active" => injected = <<>>
  /\ ipc \in {"none", "loop", "recv", "pong"} => session.next = Len(injected)
  /\ ipc = "inject" =>
        /\ inbox # <<>> /\ Head(inbox) \in InputMessages
        /\ Head(inbox).session = 1 /\ Head(inbox).sequence = Len(injected)
        /\ session.next = Len(injected) + 1

\* PressedInputs is what the backend holds down, until its release was tried.
Remembered ==
  /\ held = pressed \cup stuck
  /\ ipc \in {"none", "stop", "close", "done"} => pressed = {}
  /\ ipc \notin {"stop", "close", "done"} => stuck = {}

\* What each thread may be about to report.
Reports ==
  /\ wpc \in AlonePCs => ~terminal
  /\ wpc \in AwaitPCs \cup {"startInput"} \cup JointPCs \cup {"ended"} => Ready("worker")
  /\ wpc = "approval" => out["worker"] \in {"request", NoEvent}
  /\ wpc \in OverPCs => out["worker"] \in Terminal \cup {NoEvent}
  /\ out["worker"] \in Terminal => wpc \in OverPCs
  /\ out["capture"] \in Terminal \cup {NoEvent} /\ out["input"] \in Terminal \cup {NoEvent}
  /\ cpc # "close" => Ready("capture")
  /\ ipc # "release" => Ready("input")

\* Where the terminal event is: with one thread, last in the channel, or told.
Single ==
  /\ ~terminal => /\ told = 0 /\ ToSet(events) \cap Terminal = {}
                  /\ \A t \in Threads : out[t] \notin Terminal
  /\ \A t \in Threads : out[t] \in Terminal =>
        /\ told = 0 /\ ToSet(events) \cap Terminal = {}
        /\ \A u \in Threads : u # t => Ready(u)
  /\ ToSet(events) \cap Terminal # {} => \A t \in Threads : Ready(t)
  /\ ui = "gone" => events = <<>>
  /\ told # 0 => ui = "gone"
  /\ OneTerminalEvent

\* What the interface has not been told yet.
Waiting(t) == IF Ready(t) THEN 0 ELSE 1
Backlog == Len(events) + Waiting("worker") + Waiting("capture") + Waiting("input")

\* The user can only answer after the interface has taken what came before, so
\* from then on few events are left to come.
Roomy ==
  /\ wpc = "approval" /\ (pending \/ consent # "none") => events = <<>> /\ Ready("worker")
  /\ wpc = "grant" => Backlog <= 1
  /\ session.phase = "Active" => Backlog <= (IF terminal THEN 3 ELSE 2)

HostInv == /\ TypeOK /\ Staged /\ Asked /\ Consented /\ Counted /\ InputsInOrder
           /\ Remembered /\ Reports /\ Single /\ Roomy

-----------------------------------------------------------------------------
(* Sequences as sets *)

\* What is appended to a queue is all that is new in it.
LEMMA ToSetAppend ==
  ASSUME NEW S, NEW s \in Seq(S), NEW e \in S
  PROVE  ToSet(Append(s, e)) = ToSet(s) \cup {e}
<1>1. /\ Len(Append(s, e)) = Len(s) + 1 /\ Append(s, e)[Len(s) + 1] = e
      /\ \A i \in 1..Len(s) : Append(s, e)[i] = s[i]
      /\ Append(s, e) \in Seq(S)
  BY AppendProperties
<1>2. DOMAIN s = 1..Len(s) /\ DOMAIN Append(s, e) = 1..(Len(s) + 1) /\ Len(s) \in Nat
  BY <1>1, LenProperties
<1>3. \A i \in 1..(Len(s) + 1) : i \in 1..Len(s) \/ i = Len(s) + 1
  BY <1>2
<1>4. \A i \in 1..Len(s) : i \in 1..(Len(s) + 1)
  BY <1>2
<1>5. Len(s) + 1 \in 1..(Len(s) + 1)
  BY <1>2
<1> QED
  BY <1>1, <1>2, <1>3, <1>4, <1>5 DEF ToSet

\* What is left of a queue was in it.
LEMMA ToSetTail ==
  ASSUME NEW S, NEW s \in Seq(S), s # <<>>
  PROVE  ToSet(Tail(s)) \subseteq ToSet(s) /\ Head(s) \in ToSet(s)
<1>1. /\ Tail(s) \in Seq(S) /\ Len(Tail(s)) = Len(s) - 1 /\ Head(s) = s[1]
      /\ \A i \in 1..Len(Tail(s)) : Tail(s)[i] = s[i + 1]
  BY HeadTailProperties
<1>2. DOMAIN s = 1..Len(s) /\ DOMAIN Tail(s) = 1..Len(Tail(s)) /\ Len(s) \in Nat
      /\ Len(s) # 0
  BY <1>1, LenProperties, EmptySeq
<1>3. \A i \in 1..Len(Tail(s)) : i + 1 \in 1..Len(s)
  BY <1>1, <1>2
<1>4. 1 \in 1..Len(s)
  BY <1>2
<1> QED
  BY <1>1, <1>2, <1>3, <1>4 DEF ToSet

\* Nothing is in an empty queue.
LEMMA ToSetEmpty == ToSet(<<>>) = {}
  BY EmptySeq DEF ToSet

\* What is in a queue of S is in S.
LEMMA ToSetIn ==
  ASSUME NEW S, NEW s \in Seq(S)
  PROVE  ToSet(s) \subseteq S
  BY ElementOfSeq, LenProperties DEF ToSet

-----------------------------------------------------------------------------
(* Type correctness *)

Flags == /\ running \in BOOLEAN /\ closed \in BOOLEAN /\ lost \in BOOLEAN
         /\ backend \in BOOLEAN /\ pending \in BOOLEAN /\ terminal \in BOOLEAN

\* The threads stay at their program counters.
LEMMA PlacesTyped ==
  ASSUME TypeOK, [Next]_vars
  PROVE  wpc' \in WorkerPCs /\ cpc' \in CapturePCs /\ ipc' \in InputPCs
<1> USE DEF TypeOK, WorkerPCs, SetupPCs, AwaitPCs, CapturePCs, InputPCs
<1>1. CASE UNCHANGED <<wpc, cpc, ipc>>
  BY <1>1
<1>2. CASE WorkerStep \/ AdvanceSetup \/ ReceiveRequest
  BY <1>2 DEF WorkerStep, DrainCommands, PollAgain, FailSetup, ApprovalTimeout, Refuse,
       Approve, SendGrant, StartCapture, StartInput, TakeStop, SendRevoked, LeaveLoop,
       ClearRunning, ShutdownChannel, JoinCapture, JoinInput, WorkerEnds, AdvanceSetup,
       ReceiveRequest, WorkerReturns, Awaiting, NextSetup
<1>3. CASE CaptureStep \/ SendFrame \/ FrameTimeout
  BY <1>3 DEF CaptureStep, SendFrame, FrameTimeout, BeginFrame, NextRecord, FrameCut,
       FailFrame, CaptureFailed, CaptureCloses, CaptureStops
<1>4. CASE InputStep \/ ReceiveTimeout
  BY <1>4 DEF InputStep, ReceiveTimeout, InputLoop, Receive, ReceiveCut, FailReceive,
       Pong, Inject, ReleaseAll, InputStops, InputCloses
<1> QED
  BY <1>1, <1>2, <1>3, <1>4 DEF Next, vars, threads, Deliver, Poll, Answer, PressStop,
     ViewerInput, ViewerOther, LoseConnection

\* The flags stay flags.
LEMMA FlagsTyped ==
  ASSUME Flags, [Next]_vars
  PROVE  Flags'
<1> USE DEF Flags
<1>1. CASE WorkerStep \/ AdvanceSetup \/ ReceiveRequest
  BY <1>1 DEF WorkerStep, DrainCommands, PollAgain, FailSetup, ApprovalTimeout, Refuse,
       Approve, SendGrant, StartCapture, StartInput, TakeStop, SendRevoked, LeaveLoop,
       ClearRunning, ShutdownChannel, JoinCapture, JoinInput, WorkerEnds, AdvanceSetup,
       ReceiveRequest, WorkerReturns, OthersHoldChannel, Emitted, WantsControl, CommandIs,
       RequestedControl, channel, control, interface, eventing
<1>2. CASE CaptureStep \/ SendFrame \/ FrameTimeout
  BY <1>2 DEF CaptureStep, SendFrame, FrameTimeout, BeginFrame, NextRecord, FrameCut,
       FailFrame, CaptureFailed, CaptureCloses, CaptureStops, Emitted, channel, control,
       interface, eventing
<1>3. CASE InputStep \/ ReceiveTimeout
  BY <1>3 DEF InputStep, ReceiveTimeout, InputLoop, Receive, ReceiveCut, FailReceive,
       Pong, Inject, ReleaseAll, InputStops, InputCloses, Emitted, channel, control,
       interface, eventing
<1>4. ASSUME NEW t \in Threads, Deliver(t) PROVE Flags'
  BY <1>4 DEF Deliver, channel, control, interface
<1>5. CASE Poll \/ Answer \/ PressStop \/ ViewerInput \/ ViewerOther \/ LoseConnection
  BY <1>5 DEF Poll, Answer, PressStop, ViewerInput, ViewerOther, LoseConnection, channel,
       control, interface, eventing
<1>6. CASE UNCHANGED vars
  BY <1>6 DEF vars
<1> QED
  BY <1>1, <1>2, <1>3, <1>4, <1>5, <1>6 DEF Next


\* The messages on their way keep their form.
LEMMA InboxTyped ==
  ASSUME TypeOK, Counted, [Next]_vars
  PROVE  inbox' \in Seq(InputMessages \cup OtherMessages) /\ viewer' \in [sent : Nat, next : Nat]
<1> DEFINE M == InputMessages \cup OtherMessages
<1>0. inbox \in Seq(M) /\ viewer \in [sent : Nat, next : Nat]
  BY DEF TypeOK
<1>1. CASE UNCHANGED <<inbox, viewer>>
  BY <1>0, <1>1
<1>2. CASE Receive \/ Inject
  <2> HIDE DEF M
  <2>1. inbox # <<>> => Tail(inbox) \in Seq(M)
    BY <1>0, HeadTailProperties
  <2>2. inbox' \in {inbox, Tail(inbox)} /\ inbox # <<>> /\ UNCHANGED viewer
    BY <1>2 DEF Receive, Inject, Counted, control
  <2> QED
    BY <1>0, <2>1, <2>2 DEF M
<1>3. CASE ViewerInput
  <2>1. PICK event \in Gestures, id \in {1, 2}, skip \in {0, 1} :
           /\ inbox' = Append(inbox, [kind |-> "input", session |-> id, epoch |-> 1,
                                      sequence |-> viewer.next + skip, event |-> event])
           /\ viewer' = [sent |-> viewer.sent + 1, next |-> viewer.next + 1]
    BY <1>3 DEF ViewerInput
  <2>2. [kind |-> "input", session |-> id, epoch |-> 1,
         sequence |-> viewer.next + skip, event |-> event] \in InputMessages
    BY <1>0, GesturesAreEvents DEF InputMessages
  <2> QED
    BY <1>0, <2>1, <2>2, AppendProperties
<1>4. CASE ViewerOther
  <2>1. PICK m \in OtherMessages : inbox' = Append(inbox, m)
    BY <1>4 DEF ViewerOther
  <2>2. viewer' = [viewer EXCEPT !.sent = viewer.sent + 1]
    BY <1>4 DEF ViewerOther
  <2>3. viewer' \in [sent : Nat, next : Nat]
    BY <1>0, <2>2
  <2> QED
    BY <1>0, <2>1, <2>3, AppendProperties
<1> QED
  BY <1>1, <1>2, <1>3, <1>4
  DEF Next, vars, threads, channel, control, interface, eventing, WorkerStep,
      DrainCommands, PollAgain, FailSetup, ApprovalTimeout, Refuse, Approve, SendGrant,
      StartCapture, StartInput, TakeStop, SendRevoked, LeaveLoop, ClearRunning,
      ShutdownChannel, JoinCapture, JoinInput, WorkerEnds, AdvanceSetup, ReceiveRequest,
      CaptureStep, BeginFrame, NextRecord, FrameCut, FailFrame, CaptureFailed,
      CaptureCloses, CaptureStops, SendFrame, FrameTimeout, InputStep, ReceiveTimeout,
      InputLoop, ReceiveCut, FailReceive, Pong, ReleaseAll, InputStops, InputCloses,
      Deliver, Poll, Answer, PressStop, LoseConnection

\* Only these steps touch the session, and each by an operation of SessionRules.
LEMMA SessionMoves ==
  ASSUME [Next]_vars
  PROVE  \/ UNCHANGED session
         \/ ReceiveRequest \/ SendGrant
         \/ Receive /\ session' = Authorized(session) /\ session.next < MaxSequence
  BY DEF Next, vars, threads, channel, control, interface, eventing, WorkerStep,
      DrainCommands, PollAgain, FailSetup, ApprovalTimeout, Refuse, Approve,
      StartCapture, StartInput, TakeStop, SendRevoked, LeaveLoop, ClearRunning,
      ShutdownChannel, JoinCapture, JoinInput, WorkerEnds, AdvanceSetup,
      CaptureStep, BeginFrame, NextRecord, FrameCut, FailFrame, CaptureFailed,
      CaptureCloses, CaptureStops, SendFrame, FrameTimeout, InputStep, ReceiveTimeout,
      InputLoop, Receive, ReceiveCut, FailReceive, Pong, Inject, ReleaseAll, InputStops,
      InputCloses, Deliver, Poll, Answer, PressStop, ViewerInput, ViewerOther,
      LoseConnection, MayAuthorize

\* The session keeps its form, and its counter stays below MaxSequence.
LEMMA SessionTyped ==
  ASSUME TypeOK, [Next]_vars
  PROVE  session' \in Sessions
<1>0. session \in Sessions /\ backend \in BOOLEAN
  BY DEF TypeOK
<1>1. CASE ReceiveRequest
  <2>1. PICK permissions \in RequestSets :
           session' = Registered(session, [id |-> 1, permissions |-> permissions])
    BY <1>1 DEF ReceiveRequest
  <2>2. permissions \in SUBSET Permissions
    BY RequestSetsAreSets
  <2> QED
    BY <1>0, <2>1, <2>2 DEF Sessions, Registered, Phases
<1>2. CASE SendGrant
  <2>1. session' = session \/ session' = Activated(session, Grant)
    BY <1>2 DEF SendGrant
  <2> DEFINE Grants == [request : {0, 1}, session : {0, 1}, epoch : {0, 1},
                        permissions : SUBSET Permissions]
  <2>2. Grant \in Grants
    BY DEF Grant, ViewAndControl, ViewOnly, Permissions
  <2> HIDE DEF Grants
  <2>3. 0 \in 0..MaxSequence
    BY MaxSequenceIsNat
  <2>4. Activated(session, Grant) \in Sessions
    <3> DEFINE Requests == [id : {0, 1}, permissions : SUBSET Permissions]
    <3>1. Sessions = [phase : Phases, request : Requests, grant : Grants,
                      next : 0..MaxSequence]
      BY DEF Sessions, Grants
    <3> HIDE DEF Requests
    <3> QED
      BY <1>0, <2>2, <2>3, <3>1 DEF Activated, Phases
  <2> QED
    BY <1>0, <2>1, <2>4
<1>3. CASE session' = Authorized(session) /\ session.next < MaxSequence
  BY <1>0, <1>3, MaxSequenceIsNat DEF Sessions, Authorized
<1> QED
  BY <1>0, <1>1, <1>2, <1>3, SessionMoves

\* Only the input thread, and nothing before it, changes what is held.
LEMMA HeldMoves ==
  ASSUME [Next]_vars
  PROVE  \/ UNCHANGED <<held, pressed, stuck, injected, ipc>>
         \/ InputStep \/ ReceiveTimeout \/ StartInput
  BY DEF Next, vars, threads, channel, control, interface, eventing, WorkerStep,
      DrainCommands, PollAgain, FailSetup, ApprovalTimeout, Refuse, Approve, SendGrant,
      StartCapture, TakeStop, SendRevoked, LeaveLoop, ClearRunning, ShutdownChannel,
      JoinCapture, JoinInput, WorkerEnds, AdvanceSetup, ReceiveRequest, CaptureStep,
      BeginFrame, NextRecord, FrameCut, FailFrame, CaptureFailed, CaptureCloses,
      CaptureStops, SendFrame, FrameTimeout, Deliver, Poll, Answer, PressStop,
      ViewerInput, ViewerOther, LoseConnection

\* What an input holds down is one of the things that can be held.
LEMMA HeldAfterTyped ==
  ASSUME NEW set \in SUBSET Sources, NEW event
  PROVE  HeldAfter(set, event) \in SUBSET Sources
  BY DEF HeldAfter, Source, Sources, Down, Up

\* An input that is injected is the one that was authorized.
LEMMA InjectIs ==
  ASSUME TypeOK, Counted, Inject
  PROVE  /\ inbox' = Tail(inbox) /\ Head(inbox) \in InputMessages
         /\ \/ /\ backend
               /\ held' = HeldAfter(held, Head(inbox).event)
               /\ pressed' = HeldAfter(pressed, Head(inbox).event)
               /\ injected' = Append(injected, Head(inbox))
               /\ ipc' = "loop"
            \/ ipc' = "release" /\ UNCHANGED <<held, pressed, injected>>
         /\ UNCHANGED stuck
  BY DEF Inject, Counted, Observed

\* What is held, remembered and injected keeps its form.
LEMMA HeldTyped ==
  ASSUME TypeOK, Counted, [Next]_vars
  PROVE  /\ held' \in SUBSET Sources
         /\ pressed' \in SUBSET Sources
         /\ stuck' \in SUBSET Sources
         /\ injected' \in Seq(InputMessages)
<1>0. /\ held \in SUBSET Sources
      /\ pressed \in SUBSET Sources
      /\ stuck \in SUBSET Sources
      /\ injected \in Seq(InputMessages)
  BY DEF TypeOK
<1>1. CASE Inject
  <2>1. Append(injected, Head(inbox)) \in Seq(InputMessages)
    BY <1>0, <1>1, InjectIs, AppendProperties
  <2>2. HeldAfter(held, Head(inbox).event) \in SUBSET Sources
    BY <1>0, HeldAfterTyped
  <2>3. HeldAfter(pressed, Head(inbox).event) \in SUBSET Sources
    BY <1>0, HeldAfterTyped
  <2> QED
    BY <1>0, <1>1, <2>1, <2>2, <2>3, InjectIs
<1>2. CASE UNCHANGED <<held, pressed, stuck, injected>>
  BY <1>0, <1>2
<1>3. CASE ReleaseAll
  BY <1>0, <1>3 DEF ReleaseAll
<1>4. InputStep \/ ReceiveTimeout \/ StartInput =>
         UNCHANGED <<held, pressed, stuck, injected>> \/ Inject \/ ReleaseAll
  BY DEF InputStep, ReceiveTimeout, StartInput, InputLoop, Receive, ReceiveCut,
     FailReceive, Pong, InputStops, InputCloses, control
<1> QED
  BY <1>1, <1>2, <1>3, <1>4, HeldMoves

\* The worker takes commands from the front, the user adds them at the end.
LEMMA CommandMoves ==
  ASSUME [Next]_vars
  PROVE  \/ commands' = commands
         \/ commands' = <<>> /\ wpc \in SetupPCs
         \/ commands' = Tail(commands) /\ commands # <<>>
         \/ PressStop /\ commands' = Append(commands, "stop")
         \/ Answer
  BY DEF Next, vars, threads, channel, control, interface, eventing, WorkerStep,
      DrainCommands, PollAgain, FailSetup, ApprovalTimeout, Refuse, Approve, SendGrant,
      StartCapture, StartInput, TakeStop, SendRevoked, LeaveLoop, ClearRunning,
      ShutdownChannel, JoinCapture, JoinInput, WorkerEnds, AdvanceSetup, ReceiveRequest,
      CaptureStep, BeginFrame, NextRecord, FrameCut, FailFrame, CaptureFailed,
      CaptureCloses, CaptureStops, SendFrame, FrameTimeout, InputStep, ReceiveTimeout,
      InputLoop, Receive, ReceiveCut, FailReceive, Pong, Inject, ReleaseAll, InputStops,
      InputCloses, Deliver, Poll, PressStop, ViewerInput, ViewerOther, LoseConnection,
      CommandIs

\* What the user answers is what was asked for at most.
LEMMA AnswerIs ==
  ASSUME Answer
  PROVE  \E command \in {"deny"} \cup Approvals :
            /\ commands' = Append(commands, command) /\ consent' = command
            /\ command = "approveControl" => RequestedControl
            /\ pending /\ ~pending' /\ UNCHANGED <<ui, events, out, told, terminal>>
  BY DEF Answer, Approvals, eventing

\* The queue holds answers and Stop only.
LEMMA CommandsTyped ==
  ASSUME TypeOK, [Next]_vars
  PROVE  commands' \in Seq(Refusals \cup Approvals)
<1>0. commands \in Seq(Refusals \cup Approvals)
  BY DEF TypeOK
<1>1. CASE Answer
  <2>1. PICK command \in {"deny"} \cup Approvals : commands' = Append(commands, command)
    BY <1>1, AnswerIs
  <2>2. command \in Refusals \cup Approvals
    BY DEF Refusals
  <2> QED
    BY <1>0, <2>1, <2>2, AppendProperties
<1>2. "stop" \in Refusals \cup Approvals
  BY DEF Refusals
<1>3. Append(commands, "stop") \in Seq(Refusals \cup Approvals)
  BY <1>0, <1>2, AppendProperties
<1>4. commands # <<>> => Tail(commands) \in Seq(Refusals \cup Approvals)
  BY <1>0, HeadTailProperties
<1>5. <<>> \in Seq(Refusals \cup Approvals)
  BY EmptySeq
<1> QED
  BY <1>0, <1>1, <1>3, <1>4, <1>5, CommandMoves

\* The interface is there or gone, the user has answered or not.
LEMMA ConsentTyped ==
  ASSUME TypeOK, [Next]_vars
  PROVE  ui' \in {"open", "gone"} /\ consent' \in {"none", "deny"} \cup Approvals
<1>1. CASE UNCHANGED <<ui, consent>>
  BY <1>1 DEF TypeOK
<1>2. CASE Answer
  BY <1>2, AnswerIs DEF TypeOK
<1>3. CASE Poll \/ PressStop
  BY <1>3 DEF Poll, PressStop, TypeOK
<1> QED
  BY <1>1, <1>2, <1>3
  DEF Next, vars, threads, channel, control, interface, eventing, WorkerStep,
      DrainCommands, PollAgain, FailSetup, ApprovalTimeout, Refuse, Approve, SendGrant,
      StartCapture, StartInput, TakeStop, SendRevoked, LeaveLoop, ClearRunning,
      ShutdownChannel, JoinCapture, JoinInput, WorkerEnds, AdvanceSetup, ReceiveRequest,
      CaptureStep, BeginFrame, NextRecord, FrameCut, FailFrame, CaptureFailed,
      CaptureCloses, CaptureStops, SendFrame, FrameTimeout, InputStep, ReceiveTimeout,
      InputLoop, Receive, ReceiveCut, FailReceive, Pong, Inject, ReleaseAll, InputStops,
      InputCloses, Deliver, ViewerInput, ViewerOther, LoseConnection


-----------------------------------------------------------------------------
(* The stages of a session *)

\* Where the threads are, given where one of them is.
LEMMA StagedStep ==
  ASSUME TypeOK, Staged, [Next]_vars
  PROVE  Staged'
<1> USE DEF Staged, AlonePCs, EarlyPCs, JointPCs, OverPCs, SetupPCs, AwaitPCs
<1>1. CASE UNCHANGED <<wpc, cpc, ipc, closed, session>>
  BY <1>1
<1>2. CASE WorkerStep \/ AdvanceSetup
  <2>1. CASE SendGrant
    <3>1. \/ wpc' = "startCapture" /\ session'.phase = "Active"
          \/ wpc' = "ending" /\ session' = session
      BY <2>1 DEF SendGrant, Activated, WorkerReturns, TypeOK, Sessions
    <3> QED
      BY <2>1, <3>1 DEF SendGrant, WorkerReturns
  <2>2. CASE JoinInput \/ StartInput \/ StartCapture
    BY <2>2 DEF JoinInput, StartInput, StartCapture, WorkerReturns, OthersHoldChannel,
         channel, control
  <2>3. CASE DrainCommands \/ FailSetup \/ ApprovalTimeout \/ Refuse \/ Approve
    BY <2>3 DEF DrainCommands, FailSetup, ApprovalTimeout, Refuse, Approve, WorkerReturns,
         Awaiting, control
  <2>4. CASE PollAgain \/ AdvanceSetup
    BY <2>4 DEF PollAgain, AdvanceSetup, Awaiting, NextSetup, channel, control
  <2> QED
    BY <1>2, <2>1, <2>2, <2>3, <2>4 DEF WorkerStep, TakeStop, SendRevoked, LeaveLoop,
         ClearRunning, ShutdownChannel, JoinCapture, WorkerEnds, channel, control
<1>3. CASE ReceiveRequest
  BY <1>3 DEF ReceiveRequest, Registered, TypeOK, Sessions, channel
<1>4. CASE CaptureStep \/ SendFrame \/ FrameTimeout
  BY <1>4 DEF CaptureStep, SendFrame, FrameTimeout, BeginFrame, NextRecord, FrameCut,
       FailFrame, CaptureFailed, CaptureCloses, CaptureStops, channel, control
<1>5. CASE InputStep \/ ReceiveTimeout
  BY <1>5 DEF InputStep, ReceiveTimeout, InputLoop, Receive, ReceiveCut, FailReceive,
       Pong, Inject, ReleaseAll, InputStops, InputCloses, channel, control, Authorized,
       TypeOK, Sessions
<1> QED
  BY <1>1, <1>2, <1>3, <1>4, <1>5 DEF Next, vars, threads, channel, control, Deliver,
     Poll, Answer, PressStop, ViewerInput, ViewerOther, LoseConnection

-----------------------------------------------------------------------------
(* What is pressed *)

\* Whatever is injected is remembered, and what is remembered is released.
LEMMA RememberedStep ==
  ASSUME Staged, Remembered, [Next]_vars
  PROVE  Remembered'
<1>1. CASE UNCHANGED <<held, pressed, stuck, injected, ipc>>
  BY <1>1 DEF Remembered
<1>2. CASE InputStep \/ ReceiveTimeout
  <2>1. CASE ReleaseAll
    BY <2>1 DEF Remembered, ReleaseAll
  <2>2. CASE Inject
    BY <2>2 DEF Remembered, Inject, Observed
  <2>3. CASE Receive
    BY <2>3 DEF Remembered, Receive
  <2>4. CASE InputLoop \/ FailReceive \/ Pong
    BY <2>4 DEF Remembered, InputLoop, FailReceive, Pong, control
  <2>5. CASE InputStops \/ InputCloses
    BY <2>5 DEF Remembered, InputStops, InputCloses, control
  <2> QED
    BY <1>2, <2>1, <2>2, <2>3, <2>4, <2>5 DEF InputStep, ReceiveCut, ReceiveTimeout
<1>3. CASE StartInput
  BY <1>3 DEF Staged, Remembered, StartInput, control
<1> QED
  BY <1>1, <1>2, <1>3, HeldMoves

-----------------------------------------------------------------------------
(* The inputs *)

\* An input that is authorized has the number the session is at.
LEMMA ReceivedInput ==
  ASSUME TypeOK, Receive, ipc' = "inject"
  PROVE  /\ inbox' = inbox /\ inbox # <<>> /\ Head(inbox).kind = "input"
         /\ MayAuthorize(session, Head(inbox)) /\ session' = Authorized(session)
         /\ UNCHANGED injected
  BY DEF Receive

\* The head of a queue stays when more is queued.
LEMMA HeadStays ==
  ASSUME NEW S, NEW s \in Seq(S), s # <<>>, NEW e \in S
  PROVE  Head(Append(s, e)) = Head(s) /\ Append(s, e) # <<>>
<1>1. /\ Append(s, e) \in Seq(S) /\ Len(Append(s, e)) = Len(s) + 1
      /\ \A i \in 1..Len(s) : Append(s, e)[i] = s[i]
  BY AppendProperties
<1>2. Len(s) \in Nat /\ Len(s) # 0 /\ 1 \in 1..Len(s)
  BY LenProperties, EmptySeq
<1>3. Append(s, e) # <<>>
  BY <1>1, <1>2, EmptySeq
<1> QED
  BY <1>1, <1>2, <1>3, HeadTailProperties

\* Nothing but the input thread takes a message from the inbox.
LEMMA InboxMoves ==
  ASSUME TypeOK, [Next]_vars
  PROVE  \/ UNCHANGED inbox
         \/ Receive /\ ipc' # "inject"
         \/ Inject
         \/ /\ \E m \in InputMessages \cup OtherMessages : inbox' = Append(inbox, m)
            /\ UNCHANGED <<ipc, session, injected>>
<1>1. CASE ViewerInput
  <2>1. PICK event \in Gestures, id \in {1, 2}, skip \in {0, 1} :
           inbox' = Append(inbox, [kind |-> "input", session |-> id, epoch |-> 1,
                                   sequence |-> viewer.next + skip, event |-> event])
    BY <1>1 DEF ViewerInput
  <2>2. [kind |-> "input", session |-> id, epoch |-> 1,
         sequence |-> viewer.next + skip, event |-> event] \in InputMessages
    BY GesturesAreEvents DEF InputMessages, TypeOK
  <2> QED
    BY <1>1, <2>1, <2>2 DEF ViewerInput, threads, control
<1>2. CASE ViewerOther
  BY <1>2 DEF ViewerOther, threads, control
<1>3. CASE UNCHANGED inbox \/ Receive \/ Inject
  BY <1>3 DEF Receive
<1> QED
  BY <1>1, <1>2, <1>3
  DEF Next, vars, channel, WorkerStep,
      DrainCommands, PollAgain, FailSetup, ApprovalTimeout, Refuse, Approve, SendGrant,
      StartCapture, StartInput, TakeStop, SendRevoked, LeaveLoop, ClearRunning,
      ShutdownChannel, JoinCapture, JoinInput, WorkerEnds, AdvanceSetup, ReceiveRequest,
      CaptureStep, BeginFrame, NextRecord, FrameCut, FailFrame, CaptureFailed,
      CaptureCloses, CaptureStops, SendFrame, FrameTimeout, InputStep, ReceiveTimeout,
      InputLoop, ReceiveCut, FailReceive, Pong, ReleaseAll, InputStops, InputCloses,
      Deliver, Poll, Answer, PressStop, LoseConnection


\* The session counts what is injected.
LEMMA CountedStep ==
  ASSUME TypeOK, Staged, Counted, [Next]_vars
  PROVE  Counted'
<1>1. CASE UNCHANGED <<ipc, session, injected, inbox>>
  BY <1>1 DEF Counted
<1>2. CASE UNCHANGED <<ipc, session, injected>>
  <2> DEFINE M == InputMessages \cup OtherMessages
  <2>1. UNCHANGED inbox \/ \E m \in M : inbox' = Append(inbox, m)
    BY <1>2, InboxMoves DEF Receive, Inject, Counted
  <2>2. inbox # <<>> => inbox' # <<>> /\ Head(inbox') = Head(inbox)
    <3>1. inbox \in Seq(M)
      BY DEF TypeOK
    <3> HIDE DEF M
    <3> QED
      BY <2>1, <3>1, HeadStays
  <2> QED
    BY <1>2, <2>2 DEF Counted
<1>3. CASE Receive
  <2>1. CASE ipc' = "inject"
    <3>1. Head(inbox) \in InputMessages
      <4>1. Head(inbox) \in InputMessages \cup OtherMessages
        BY <1>3, <2>1, ReceivedInput, HeadTailProperties DEF TypeOK
      <4> QED
        BY <1>3, <2>1, <4>1, ReceivedInput DEF OtherMessages
    <3>2. Head(inbox).session = session.grant.session /\ Head(inbox).sequence = session.next
          /\ session.phase = "Active"
      BY <1>3, <2>1, ReceivedInput DEF MayAuthorize, HasActivePermission
    <3>3. session'.phase = session.phase /\ session'.grant = session.grant
          /\ session'.next = session.next + 1
      BY <1>3, <2>1, ReceivedInput DEF Authorized, TypeOK, Sessions
    <3>4. session.next = Len(injected)
      BY <1>3 DEF Receive, Counted
    <3> QED
      BY <1>3, <2>1, <3>1, <3>2, <3>3, <3>4, ReceivedInput DEF Counted
  <2>2. CASE ipc' # "inject"
    BY <1>3, <2>2 DEF Receive, Counted
  <2> QED
    BY <2>1, <2>2
<1>4. CASE Inject
  <2>1. session' = session
    BY <1>4 DEF Inject
  <2>2. session.phase = "Active"
    BY <1>4 DEF Inject, Staged
  <2>3. injected' = Append(injected, Head(inbox)) => Len(injected') = Len(injected) + 1
    BY <1>4, InjectIs, AppendProperties DEF TypeOK
  <2>4. ipc = "inject"
    BY <1>4 DEF Inject
  <2> QED
    BY <1>4, <2>1, <2>2, <2>3, <2>4, InjectIs DEF Counted
<1>5. CASE ReceiveRequest
  BY <1>5 DEF ReceiveRequest, Registered, Counted, Staged, EarlyPCs, AwaitPCs, TypeOK,
     Sessions
<1>6. CASE SendGrant
  <2>1. ipc = "none" /\ ipc' = "none" /\ injected' = injected
    BY <1>6 DEF SendGrant, Staged, AlonePCs
  <2>2. \/ session' = session
        \/ session'.grant = Grant /\ session'.next = 0 /\ Grant.session = 1
    BY <1>6 DEF SendGrant, Activated, Grant, TypeOK, Sessions
  <2>3. injected = <<>> /\ Len(<<>>) = 0
    BY <1>6, EmptySeq DEF SendGrant, Staged, Counted
  <2> QED
    BY <2>1, <2>2, <2>3 DEF Counted
<1>7. ASSUME UNCHANGED session, ~UNCHANGED <<ipc, session, injected>> PROVE Counted'
  <2>1. CASE InputLoop \/ ReceiveCut \/ ReceiveTimeout \/ Pong \/ ReleaseAll
               \/ InputStops \/ InputCloses
    BY <1>7, <2>1 DEF InputLoop, ReceiveCut, ReceiveTimeout, FailReceive, Pong, ReleaseAll,
       InputStops, InputCloses, channel, control, Counted
  <2>2. CASE StartInput
    <3>1. ipc = "none" /\ injected' = injected
      BY <2>2 DEF StartInput, Staged, control
    <3> QED
      BY <1>7, <2>2, <3>1 DEF StartInput, Counted
  <2> QED
    BY <1>3, <1>4, <1>7, <2>1, <2>2, HeldMoves DEF InputStep
<1> QED
  BY <1>2, <1>3, <1>5, <1>6, <1>7, SessionMoves


\* One more input is the next one.
LEMMA InOrderStep ==
  ASSUME TypeOK, Counted, InputsInOrder, [Next]_vars
  PROVE  InputsInOrder'
<1>1. CASE Inject
  <2>1. CASE injected' = Append(injected, Head(inbox))
    <3>1. /\ Head(inbox) \in InputMessages /\ Head(inbox).session = 1
          /\ Head(inbox).sequence = Len(injected)
      BY <1>1 DEF Inject, Counted
    <3>2. /\ Len(injected') = Len(injected) + 1 /\ Len(injected) \in Nat
          /\ injected'[Len(injected) + 1] = Head(inbox)
          /\ \A i \in 1..Len(injected) : injected'[i] = injected[i]
      BY <2>1, <3>1, AppendProperties, LenProperties DEF TypeOK
    <3>3. \A i \in 1..Len(injected') : i \in 1..Len(injected) \/ i = Len(injected) + 1
      BY <3>2
    <3> QED
      BY <3>1, <3>2, <3>3 DEF InputsInOrder
  <2>2. CASE injected' = injected
    BY <2>2 DEF InputsInOrder
  <2> QED
    BY <1>1, <2>1, <2>2, InjectIs
<1>2. injected' = injected \/ Inject
  <2>1. InputStep \/ ReceiveTimeout \/ StartInput => injected' = injected \/ Inject
    BY DEF InputStep, ReceiveTimeout, StartInput, InputLoop, Receive, ReceiveCut,
       FailReceive, Pong, ReleaseAll, InputStops, InputCloses, control
  <2> QED
    BY <2>1, HeldMoves
<1> QED
  BY <1>1, <1>2 DEF InputsInOrder

-----------------------------------------------------------------------------
(* Consent *)

\* The bounded channel grows by what one thread was about to put there.
LEMMA DeliverIs ==
  ASSUME TypeOK, NEW t \in Threads, Deliver(t)
  PROVE  /\ ~Ready(t) /\ out[t] \in Event
         /\ out' \in [Threads -> Event \cup {NoEvent}]
         /\ out'[t] = NoEvent /\ \A u \in Threads : u # t => out'[u] = out[u]
         /\ UNCHANGED <<terminal, ui, told, pending, consent, commands, wpc, cpc, ipc,
                        session, backend, injected>>
         /\ \/ ui = "gone" /\ events' = events
            \/ /\ ui = "open" /\ Len(events) < EventCapacity
               /\ events' = Append(events, out[t]) /\ events' \in Seq(Event)
               /\ Len(events') = Len(events) + 1
               /\ ToSet(events') = ToSet(events) \cup {out[t]}
<1>1. out \in [Threads -> Event \cup {NoEvent}] /\ events \in Seq(Event)
  BY DEF TypeOK
<1>2. ~Ready(t) /\ out[t] \in Event
  BY <1>1 DEF Deliver, Ready
<1>3. /\ Append(events, out[t]) \in Seq(Event)
      /\ Len(Append(events, out[t])) = Len(events) + 1
      /\ ToSet(Append(events, out[t])) = ToSet(events) \cup {out[t]}
  BY <1>1, <1>2, AppendProperties, ToSetAppend
<1>4. out' = [out EXCEPT ![t] = NoEvent]
  BY DEF Deliver
<1> QED
  BY <1>1, <1>2, <1>3, <1>4 DEF Deliver, threads, control, interface

\* What a step does to the events: nothing, a delivery, what the interface does,
\* or one thread is about to report something.
Unseen == UNCHANGED <<events, ui, told, pending, consent>>
WorkerReports(event) ==
  \/ event \in Terminal /\ wpc' = "ending"
     /\ \/ Ready("worker") /\ wpc \in AlonePCs \cup {"startInput"}
        \/ wpc = "joinInput" /\ ipc = "done"
  \/ event = "status" /\ wpc \in AwaitPCs /\ wpc' \in SetupPCs
  \/ event = "status" /\ Approve /\ wpc' = "grant" /\ Ready("worker")
  \/ event = "request" /\ ReceiveRequest
  \/ event = "active" /\ SendGrant /\ wpc' = "startCapture" /\ Ready("worker")

LEMMA EventMoves ==
  ASSUME [Next]_vars
  PROVE  \/ Unseen /\ UNCHANGED <<out, terminal>>
         \/ \E t \in Threads : Deliver(t)
         \/ Poll \/ Answer \/ PressStop
         \/ Unseen /\ UNCHANGED <<cpc, ipc>>
            /\ \E event \in Event : Emitted("worker", event) /\ WorkerReports(event)
         \/ Unseen /\ CaptureFailed /\ Emitted("capture", "error")
         \/ Unseen /\ UNCHANGED <<wpc, cpc>> /\ ipc \in {"recv", "inject"}
            /\ ipc' = "release" /\ \E event \in Terminal : Emitted("input", event)
<1>1. CASE WorkerStep \/ AdvanceSetup \/ ReceiveRequest
  <2>1. CASE DrainCommands
    BY <2>1 DEF DrainCommands, WorkerReturns, WorkerReports, Unseen, Terminal, Event,
       AlonePCs, EarlyPCs
  <2>2. CASE FailSetup
    BY <2>2 DEF FailSetup, WorkerReturns, WorkerReports, Unseen, Terminal, Event,
       AlonePCs, EarlyPCs, interface
  <2>3. CASE ApprovalTimeout \/ Refuse
    BY <2>3 DEF ApprovalTimeout, Refuse, WorkerReturns, WorkerReports, Unseen, Terminal,
       Event, AlonePCs, interface
  <2>4. CASE Approve
    BY <2>4 DEF Approve, WorkerReturns, WorkerReports, Unseen, Terminal, Event, AlonePCs
  <2>5. CASE SendGrant
    BY <2>5 DEF SendGrant, WorkerReturns, WorkerReports, Unseen, Terminal, Event,
       AlonePCs, interface
  <2>6. CASE StartCapture
    BY <2>6 DEF StartCapture, WorkerReturns, WorkerReports, Unseen, Terminal, Event,
       AlonePCs, interface
  <2>7. CASE StartInput
    BY <2>7 DEF StartInput, WorkerReturns, WorkerReports, Unseen, Terminal, Event,
       AlonePCs, interface
  <2>8. CASE JoinInput
    BY <2>8 DEF JoinInput, WorkerReturns, WorkerReports, Unseen, Terminal, Event, interface
  <2>9. CASE AdvanceSetup
    BY <2>9 DEF AdvanceSetup, NextSetup, WorkerReports, Unseen, Event, AwaitPCs, SetupPCs,
       interface
  <2>10. CASE ReceiveRequest
    BY <2>10 DEF ReceiveRequest, WorkerReports, Unseen, Event, interface
  <2> QED
    BY <1>1, <2>1, <2>2, <2>3, <2>4, <2>5, <2>6, <2>7, <2>8, <2>9, <2>10
    DEF WorkerStep, PollAgain, TakeStop, SendRevoked, LeaveLoop, ClearRunning,
        ShutdownChannel, JoinCapture, WorkerEnds, Unseen, interface, eventing
<1>2. CASE CaptureStep \/ SendFrame \/ FrameTimeout
  BY <1>2 DEF CaptureStep, SendFrame, FrameTimeout, BeginFrame, NextRecord, FrameCut,
     FailFrame, CaptureFailed, CaptureCloses, CaptureStops, Unseen, interface, eventing
<1>3. CASE InputStep \/ ReceiveTimeout
  BY <1>3 DEF InputStep, ReceiveTimeout, InputLoop, Receive, ReceiveCut, FailReceive,
     Pong, Inject, ReleaseAll, InputStops, InputCloses, Unseen, Terminal, interface,
     eventing
<1> QED
  BY <1>1, <1>2, <1>3 DEF Next, vars, ViewerInput, ViewerOther, LoseConnection, Unseen,
     interface, eventing


\* A worker does not go back to an earlier stage.
LEMMA StagesPass ==
  ASSUME [Next]_vars
  PROVE  /\ wpc' \in EarlyPCs => wpc \in EarlyPCs
         /\ wpc' = "approval" => wpc = "approval" \/ ReceiveRequest
         /\ wpc' = "grant" => wpc = "grant" \/ Approve
<1> USE DEF EarlyPCs, SetupPCs, AwaitPCs
<1>1. CASE WorkerStep \/ AdvanceSetup \/ ReceiveRequest
  BY <1>1 DEF WorkerStep, DrainCommands, PollAgain, FailSetup, ApprovalTimeout, Refuse,
       Approve, SendGrant, StartCapture, StartInput, TakeStop, SendRevoked, LeaveLoop,
       ClearRunning, ShutdownChannel, JoinCapture, JoinInput, WorkerEnds, AdvanceSetup,
       WorkerReturns, Awaiting, NextSetup, ReceiveRequest
<1>2. CASE wpc' = wpc
  BY <1>2
<1> QED
  BY <1>1, <1>2 DEF Next, vars, threads, CaptureStep, SendFrame, FrameTimeout, BeginFrame,
     NextRecord, FrameCut, FailFrame, CaptureFailed, CaptureCloses, CaptureStops, InputStep,
     ReceiveTimeout, InputLoop, Receive, ReceiveCut, FailReceive, Pong, Inject, ReleaseAll,
     InputStops, InputCloses, Deliver, Poll, Answer, PressStop, ViewerInput, ViewerOther,
     LoseConnection

\* The user answers once, and a command that approves says what was answered.
LEMMA AnswersStep ==
  ASSUME TypeOK, Asked, [Next]_vars
  PROVE  \A command \in ToSet(commands') \cap Approvals : command = consent'
<1>0. commands \in Seq(Refusals \cup Approvals)
  BY DEF TypeOK
<1>1. CASE Answer
  <2>1. PICK command \in {"deny"} \cup Approvals :
           commands' = Append(commands, command) /\ consent' = command /\ pending
    BY <1>1, AnswerIs
  <2>2. ToSet(commands') = ToSet(commands) \cup {command}
    BY <1>0, <2>1, ToSetAppend DEF Refusals
  <2>3. consent = "none" /\ "none" \notin Approvals
    BY <2>1 DEF Asked, Approvals
  <2> QED
    BY <2>1, <2>2, <2>3 DEF Asked
<1>2. ASSUME ~Answer PROVE consent' = consent
  BY <1>2, EventMoves, DeliverIs DEF Unseen, Poll, PressStop
<1>3. ASSUME PressStop, commands' = Append(commands, "stop")
      PROVE  ToSet(commands') = ToSet(commands) \cup {"stop"}
  BY <1>0, <1>3, ToSetAppend DEF Refusals
<1>4. "stop" \notin Approvals
  BY DEF Approvals
<1>5. commands # <<>> => ToSet(Tail(commands)) \subseteq ToSet(commands)
  BY <1>0, ToSetTail
<1>6. \/ Answer
      \/ PressStop /\ commands' = Append(commands, "stop")
      \/ ToSet(commands') \subseteq ToSet(commands)
  <2>1. CASE commands' = commands
    BY <2>1
  <2>2. CASE commands' = <<>>
    BY <2>2, ToSetEmpty
  <2>3. CASE commands # <<>> /\ commands' = Tail(commands)
    BY <1>5, <2>3
  <2> QED
    BY <2>1, <2>2, <2>3, CommandMoves
<1>7. ASSUME ~Answer, ToSet(commands') \subseteq ToSet(commands) \cup {"stop"}
      PROVE  \A command \in ToSet(commands') \cap Approvals : command = consent'
  BY <1>2, <1>4, <1>7 DEF Asked
<1> QED
  BY <1>1, <1>3, <1>6, <1>7

\* The question is put to the user once.
LEMMA AskedStep ==
  ASSUME TypeOK, Reports, Asked, [Next]_vars
  PROVE  Asked'
<1>0. /\ wpc' \in EarlyPCs => wpc \in EarlyPCs
      /\ \A command \in ToSet(commands') \cap Approvals : command = consent'
  BY StagesPass, AnswersStep
<1>1. CASE Unseen /\ UNCHANGED out
  BY <1>0, <1>1 DEF Asked, Unseen
<1>2. ASSUME NEW t \in Threads, Deliver(t) PROVE Asked'
  <2>1. "request" \in ToSet(events') => "request" \in ToSet(events)
                                        \/ (t = "worker" /\ out[t] = "request")
    BY <1>2, DeliverIs DEF Reports, Threads, Terminal, Ready, NoEvent
  <2> QED
    BY <1>0, <1>2, <2>1, DeliverIs DEF Asked, Threads, NoEvent
<1>3. CASE Poll
  <2>1. events' = <<>> /\ UNCHANGED <<out, consent, wpc>>
        /\ (pending' => "request" \in ToSet(events) \/ pending)
    BY <1>3 DEF Poll, threads
  <2> QED
    BY <1>0, <2>1, ToSetEmpty DEF Asked
<1>4. CASE Answer
  <2>1. wpc' = wpc
    BY <1>4 DEF Answer, threads
  <2> QED
    BY <1>0, <1>4, <2>1, AnswerIs DEF Asked
<1>5. CASE PressStop
  <2>1. wpc' = wpc /\ events' = <<>> /\ ~pending' /\ UNCHANGED <<out, consent>>
    BY <1>5 DEF PressStop, threads
  <2> QED
    BY <1>0, <2>1, ToSetEmpty DEF Asked
<1>6. ASSUME Unseen, NEW event \in Event, Emitted("worker", event), WorkerReports(event)
      PROVE  Asked'
  <2>1. CASE event # "request"
    <3>1. out'["worker"] # "request" \/ out' = out
      BY <1>6, <2>1 DEF Emitted, TypeOK, Threads
    <3> QED
      BY <1>0, <1>6, <2>1, <3>1 DEF Asked, Unseen
  <2>2. CASE event = "request"
    <3>1. ReceiveRequest
      BY <1>6, <2>2 DEF WorkerReports, Terminal
    <3>2. wpc \in EarlyPCs /\ wpc' = "approval"
      BY <3>1 DEF ReceiveRequest, EarlyPCs, AwaitPCs
    <3> QED
      BY <1>0, <1>6, <3>2 DEF Asked, Unseen, EarlyPCs, SetupPCs, AwaitPCs
  <2> QED
    BY <2>1, <2>2
<1>7. ASSUME Unseen, NEW t \in {"capture", "input"}, NEW event \in Terminal,
             Emitted(t, event)
      PROVE  Asked'
  <2>1. out'["worker"] = out["worker"]
    BY <1>7 DEF Emitted, TypeOK, Threads
  <2> QED
    BY <1>0, <1>7, <2>1 DEF Asked, Unseen
<1> QED
  BY <1>1, <1>2, <1>3, <1>4, <1>5, <1>6, <1>7, EventMoves DEF Terminal

\* Who may change what the session allows.
LEMMA BackendMoves ==
  ASSUME [Next]_vars
  PROVE  UNCHANGED backend \/ Approve
  BY DEF Next, vars, control, WorkerStep, DrainCommands, PollAgain, FailSetup,
     ApprovalTimeout, Refuse, SendGrant, StartCapture, StartInput, TakeStop,
     SendRevoked, LeaveLoop, ClearRunning, ShutdownChannel, JoinCapture, JoinInput,
     WorkerEnds, AdvanceSetup, ReceiveRequest, CaptureStep, BeginFrame, NextRecord,
     FrameCut, FailFrame, CaptureFailed, CaptureCloses, CaptureStops, SendFrame,
     FrameTimeout, InputStep, ReceiveTimeout, InputLoop, Receive, ReceiveCut,
     FailReceive, Pong, Inject, ReleaseAll, InputStops, InputCloses, Deliver, Poll,
     Answer, PressStop, ViewerInput, ViewerOther, LoseConnection

\* Nothing is injected without a backend.
LEMMA InjectedMoves ==
  ASSUME TypeOK, Staged, Counted, [Next]_vars
  PROVE  injected' = injected \/ (backend /\ session.phase = "Active")
<1>1. CASE Inject
  <2>1. session.phase = "Active"
    BY <1>1 DEF Inject, Staged
  <2> QED
    BY <1>1, <2>1, InjectIs
<1>2. InputStep \/ ReceiveTimeout \/ StartInput => injected' = injected \/ Inject
  BY DEF InputStep, ReceiveTimeout, StartInput, InputLoop, Receive, ReceiveCut,
     FailReceive, Pong, ReleaseAll, InputStops, InputCloses, control
<1> QED
  BY <1>1, <1>2, HeldMoves

\* What the user allows is what the session then allows.
LEMMA ConsentedStep ==
  ASSUME TypeOK, Staged, Asked, Consented, Counted, [Next]_vars
  PROVE  Consented'
<1>1. ASSUME consent # "none" PROVE consent' = consent
  <2>1. ~Answer
    BY <1>1 DEF Answer, Asked
  <2> QED
    BY <2>1, EventMoves, DeliverIs DEF Unseen, Poll, PressStop
<1>2. \A c \in Approvals : c # "none"
  BY DEF Approvals
<1>3. CASE Approve
  <2>1. Head(commands) \in Approvals /\ commands # <<>> /\ wpc = "approval"
    BY <1>3 DEF Approve, CommandIs
  <2>2. Head(commands) = consent
    BY <2>1, ToSetTail DEF Asked, TypeOK
  <2>3. backend' => consent = "approveControl" /\ RequestedControl
    BY <1>3, <2>2 DEF Approve, WantsControl, CommandIs, Consented, TypeOK
  <2>4. session' = session /\ injected' = injected /\ session.phase = "AwaitingApproval"
        /\ consent' = consent
    BY <1>3 DEF Approve, Staged
  <2>5. injected = <<>>
    BY <2>4 DEF Counted
  <2> QED
    BY <2>1, <2>2, <2>3, <2>4, <2>5 DEF Consented, RequestedControl
<1>4. CASE UNCHANGED <<session, backend>> /\ ~Approve
  <2>1. wpc' = "grant" => wpc = "grant"
    BY <1>4, StagesPass
  <2>2. injected' # injected => backend
    BY InjectedMoves
  <2> QED
    BY <1>1, <1>2, <1>4, <2>1, <2>2 DEF Consented, RequestedControl
<1>5. CASE ReceiveRequest
  <2>1. session.phase = "AwaitingRequest" /\ session'.phase = "AwaitingApproval"
        /\ backend' = backend /\ injected' = injected /\ wpc' = "approval"
    BY <1>5 DEF ReceiveRequest, MayRegister, Registered, TypeOK, Sessions
  <2> QED
    BY <2>1 DEF Consented
<1>6. CASE SendGrant
  <2>1. wpc = "grant" /\ wpc' # "grant" /\ consent' = consent /\ consent \in Approvals
        /\ backend' = backend /\ injected' = injected
    BY <1>6 DEF SendGrant, WorkerReturns, Consented, interface
  <2>2. CASE session' = session
    BY <2>1, <2>2 DEF Consented, RequestedControl
  <2>3. CASE session' # session
    <3>1. session' = Activated(session, Grant) /\ MayActivate(session, Grant)
      BY <1>6, <2>3 DEF SendGrant
    <3>2. /\ session'.phase = "Active" /\ session'.grant = Grant
          /\ session'.request = session.request
          /\ Grant.permissions \subseteq session.request.permissions
          /\ session.phase = "AwaitingApproval"
      BY <3>1 DEF Activated, MayActivate, TypeOK, Sessions
    <3>3. CanControl(Grant.permissions) => backend
      BY DEF CanControl, Grant, ViewOnly
    <3>4. backend => consent = "approveControl" /\ RequestedControl
      BY DEF Consented
    <3> QED
      BY <2>1, <3>2, <3>3, <3>4 DEF Consented, RequestedControl
  <2> QED
    BY <2>2, <2>3
<1>7. CASE Receive /\ session' = Authorized(session)
  <2>1. session'.phase = session.phase /\ session'.grant = session.grant
        /\ session'.request = session.request
    BY <1>7 DEF Authorized, TypeOK, Sessions
  <2>2. UNCHANGED <<backend, injected, wpc, consent>>
    BY <1>7 DEF Receive, interface
  <2> QED
    BY <2>1, <2>2 DEF Consented, RequestedControl
<1>8. backend' = backend \/ Approve
  BY BackendMoves
<1> QED
  BY <1>3, <1>4, <1>5, <1>6, <1>7, <1>8, SessionMoves


\* Capture, injection and the grant follow from consent.
LEMMA ConsentFollows == Staged /\ Consented => ConsentFirst
  BY DEF Staged, Consented, ConsentFirst

-----------------------------------------------------------------------------
(* Reports *)

\* What each thread may be about to report, by where it is.
LEMMA ReportsStep ==
  ASSUME TypeOK, Staged, Reports, [Next]_vars
  PROVE  Reports'
<1> USE DEF Reports, AlonePCs, EarlyPCs, JointPCs, OverPCs, SetupPCs, AwaitPCs
<1>0. out \in [Threads -> Event \cup {NoEvent}] /\ terminal \in BOOLEAN
      /\ Threads = {"worker", "capture", "input"}
  BY DEF TypeOK, Threads
<1>1. ASSUME NEW t \in Threads, Deliver(t) PROVE Reports'
  <2>1. \A u \in Threads : out'[u] = out[u] \/ out'[u] = NoEvent
    BY <1>1, DeliverIs
  <2>2. UNCHANGED <<wpc, cpc, ipc, terminal>>
    BY <1>1, DeliverIs
  <2> QED
    BY <1>0, <2>1, <2>2 DEF Ready, Terminal, NoEvent
<1>2. CASE DrainCommands \/ FailSetup \/ ApprovalTimeout \/ Refuse
  BY <1>0, <1>2 DEF DrainCommands, FailSetup, ApprovalTimeout, Refuse, WorkerReturns,
     Emitted, Awaiting, Ready, Terminal, NoEvent
<1>3. CASE PollAgain \/ AdvanceSetup \/ ReceiveRequest
  BY <1>0, <1>3 DEF PollAgain, AdvanceSetup, ReceiveRequest, Emitted, Awaiting, NextSetup,
     Ready, Terminal, NoEvent, eventing
<1>4. CASE Approve \/ SendGrant
  BY <1>0, <1>4 DEF Approve, SendGrant, WorkerReturns, Emitted, Ready, Terminal, NoEvent
<1>5. CASE StartCapture \/ StartInput
  BY <1>0, <1>5 DEF StartCapture, StartInput, WorkerReturns, Emitted, Ready, Terminal,
     NoEvent, Staged
<1>10. CASE JoinInput
  BY <1>0, <1>10 DEF JoinInput, WorkerReturns, Emitted, Ready, Terminal, NoEvent, Staged
<1>6. CASE TakeStop \/ SendRevoked \/ LeaveLoop \/ ClearRunning \/ ShutdownChannel
           \/ JoinCapture \/ WorkerEnds
  BY <1>6 DEF TakeStop, SendRevoked, LeaveLoop, ClearRunning, ShutdownChannel,
     JoinCapture, WorkerEnds, eventing, Ready
<1>7. CASE CaptureStep \/ SendFrame \/ FrameTimeout
  BY <1>0, <1>7 DEF CaptureStep, SendFrame, FrameTimeout, BeginFrame, NextRecord, FrameCut,
     FailFrame, CaptureFailed, CaptureCloses, CaptureStops, Emitted, Ready, Terminal,
     NoEvent, eventing, Staged
<1>8. CASE InputStep \/ ReceiveTimeout
  BY <1>0, <1>8 DEF InputStep, ReceiveTimeout, InputLoop, Receive, ReceiveCut, FailReceive,
     Pong, Inject, ReleaseAll, InputStops, InputCloses, Emitted, Ready, Terminal,
     NoEvent, eventing, Staged
<1>9. CASE UNCHANGED <<wpc, cpc, ipc, out, terminal>>
  BY <1>9 DEF Ready
<1> QED
  BY <1>1, <1>2, <1>3, <1>4, <1>5, <1>6, <1>7, <1>8, <1>9, <1>10
  DEF Next, WorkerStep, vars, threads, eventing, Poll, Answer, PressStop, ViewerInput,
      ViewerOther, LoseConnection


\* With a thread that can report the end there is nothing else left to report.
LEMMA OthersReady ==
  ASSUME TypeOK, Staged, Reports, Single, ~terminal, NEW t \in Threads,
         t = "worker" \/ (t = "capture" /\ cpc # "none") \/ (t = "input" /\ ipc # "none")
  PROVE  \A u \in Threads : u # t => Ready(u)
<1>1. out["capture"] = NoEvent /\ out["input"] = NoEvent
  BY DEF Reports, Single, Threads
<1>2. cpc # "none" \/ ipc # "none" => out["worker"] = NoEvent
  <2>1. out["worker"] \notin Terminal
    BY DEF Single, Threads
  <2>2. cpc # "none" \/ ipc # "none" =>
          wpc \in {"startInput", "ended"} \cup JointPCs \cup OverPCs
    <3>1. wpc \in WorkerPCs
      BY DEF TypeOK
    <3> QED
      BY <3>1 DEF Staged, WorkerPCs, AlonePCs, EarlyPCs, JointPCs, OverPCs
  <2> QED
    BY <2>1, <2>2 DEF Reports, Ready
<1> QED
  BY <1>1, <1>2 DEF Threads, Ready

\* What is not among the events is at none of their places.
LEMMA NoTerminalPlace ==
  ASSUME TypeOK
  PROVE  /\ ToSet(events) \cap Terminal = {} <=>
              \A i \in 1..Len(events) : events[i] \notin Terminal
         /\ DOMAIN events = 1..Len(events) /\ Len(events) \in Nat
<1>1. DOMAIN events = 1..Len(events) /\ Len(events) \in Nat
  BY LenProperties DEF TypeOK
<1> QED
  BY <1>1 DEF ToSet

\* The end is counted once.
LEMMA EndsCounted ==
  ASSUME TypeOK, OneTerminalEvent
  PROVE  Cardinality({i \in DOMAIN events : events[i] \in Terminal})
           = IF ToSet(events) \cap Terminal = {} THEN 0 ELSE 1
<1> DEFINE ends == {i \in DOMAIN events : events[i] \in Terminal}
<1>1. CASE ToSet(events) \cap Terminal = {}
  <2>1. ends = {}
    BY <1>1, NoTerminalPlace
  <2> QED
    BY <1>1, <2>1, FS_EmptySet
<1>2. CASE ToSet(events) \cap Terminal # {}
  <2>1. ends = {Len(events)}
    BY <1>2, NoTerminalPlace DEF OneTerminalEvent
  <2> QED
    BY <1>2, <2>1, FS_Singleton
<1> QED
  BY <1>1, <1>2

\* The end of a session is in one place only, and the last thing there.
LEMMA SingleStep ==
  ASSUME TypeOK, Staged, Reports, Single, [Next]_vars
  PROVE  Single'
<1>0. /\ out \in [Threads -> Event \cup {NoEvent}] /\ terminal \in BOOLEAN
      /\ NoEvent \notin Terminal /\ events \in Seq(Event) /\ ui \in {"open", "gone"}
      /\ Terminal \subseteq Event
  BY DEF TypeOK, NoEvent, Terminal, Event
<1>1. CASE Unseen /\ UNCHANGED <<out, terminal>>
  BY <1>1 DEF Single, OneTerminalEvent, Unseen, Ready
<1>2. ASSUME NEW t \in Threads, Deliver(t) PROVE Single'
  <2>1. /\ UNCHANGED <<terminal, ui, told>> /\ out'[t] = NoEvent /\ ~Ready(t)
        /\ \A u \in Threads : u # t => out'[u] = out[u]
    BY <1>2, DeliverIs
  <2>2. CASE events' = events
    BY <1>0, <2>1, <2>2 DEF Single, OneTerminalEvent, Ready
  <2>3. CASE events' = Append(events, out[t]) /\ ui = "open"
    <3>1. /\ ToSet(events') = ToSet(events) \cup {out[t]} /\ Len(events') = Len(events) + 1
          /\ Len(events) \in Nat
          /\ events'[Len(events) + 1] = out[t]
          /\ \A i \in 1..Len(events) : events'[i] = events[i]
      BY <1>0, <1>2, <2>3, DeliverIs, ToSetAppend, AppendProperties, LenProperties
    <3>2. ToSet(events) \cap Terminal = {} /\ told = 0
      BY <2>1, <2>3 DEF Single
    <3>3. \A i \in 1..Len(events) : events[i] \notin Terminal
      BY <3>2, NoTerminalPlace
    <3>4. \A i \in 1..Len(events') : i \in 1..Len(events) \/ i = Len(events')
      BY <3>1
    <3>5. OneTerminalEvent'
      BY <2>1, <3>1, <3>2, <3>3, <3>4 DEF OneTerminalEvent
    <3>6. CASE out[t] \in Terminal
      <4>1. \A u \in Threads : out'[u] = NoEvent
        BY <2>1, <3>6 DEF Single, Ready
      <4> QED
        BY <1>0, <2>1, <2>3, <3>1, <3>2, <3>5, <3>6, <4>1 DEF Single, Ready
    <3>7. CASE out[t] \notin Terminal
      <4>1. ToSet(events') \cap Terminal = {}
        BY <3>1, <3>2, <3>7
      <4> QED
        BY <1>0, <2>1, <2>3, <3>2, <3>5, <3>7, <4>1 DEF Single, Ready
    <3> QED
      BY <3>6, <3>7
  <2> QED
    BY <1>2, <2>2, <2>3, DeliverIs
<1>3. CASE Poll
  <2>1. /\ UNCHANGED <<out, terminal>> /\ events' = <<>> /\ told = 0
        /\ (ToSet(events) \cap Terminal # {} => ui' = "gone")
    BY <1>3 DEF Poll, Single
  <2>2. told' = IF ToSet(events) \cap Terminal = {} THEN 0 ELSE 1
    BY <1>3, <2>1, EndsCounted DEF Poll, Single
  <2>3. OneTerminalEvent'
    BY <2>1, <2>2, EmptySeq DEF OneTerminalEvent
  <2>4. ToSet(events') = {}
    BY <2>1, ToSetEmpty
  <2> QED
    BY <1>0, <2>1, <2>2, <2>3, <2>4 DEF Single, Ready
<1>4. CASE Answer
  BY <1>4, AnswerIs DEF Single, OneTerminalEvent, Ready
<1>5. CASE PressStop
  <2>1. UNCHANGED <<out, terminal, told>> /\ events' = <<>> /\ ui' = "gone"
    BY <1>5 DEF PressStop
  <2>2. OneTerminalEvent' /\ ToSet(events') = {}
    BY <2>1, EmptySeq, ToSetEmpty DEF OneTerminalEvent, Single
  <2> QED
    BY <2>1, <2>2 DEF Single, Ready
<1>6. ASSUME Unseen, NEW t \in Threads, NEW event \in Terminal, Emitted(t, event),
             t = "worker" \/ (t = "capture" /\ cpc # "none") \/ (t = "input" /\ ipc # "none")
      PROVE  Single'
  <2>1. CASE terminal
    <3>1. UNCHANGED <<out, terminal>>
      BY <1>0, <1>6, <2>1 DEF Emitted
    <3> QED
      BY <1>1, <1>6, <3>1
  <2>2. CASE ~terminal
    <3>1. \A u \in Threads : u # t => Ready(u)
      BY <1>6, <2>2, OthersReady
    <3>2. terminal' = TRUE /\ out' = [out EXCEPT ![t] = event]
      BY <1>6, <2>2 DEF Emitted
    <3> QED
      BY <1>0, <1>6, <2>2, <3>1, <3>2 DEF Single, OneTerminalEvent, Unseen, Ready
  <2> QED
    BY <2>1, <2>2
<1>7. ASSUME Unseen, NEW event \in Event \ Terminal, Emitted("worker", event),
             WorkerReports(event)
      PROVE  Single'
  <2>1. ~terminal
    BY <1>7 DEF WorkerReports, Reports, AlonePCs, EarlyPCs, Approve, ReceiveRequest,
       SendGrant, AwaitPCs
  <2>2. out' = [out EXCEPT !["worker"] = event] /\ terminal' = terminal
    BY <1>7 DEF Emitted
  <2> QED
    BY <1>0, <1>7, <2>1, <2>2 DEF Single, OneTerminalEvent, Unseen, Ready, Threads
<1> QED
  <2>1. "worker" \in Threads /\ "capture" \in Threads /\ "input" \in Threads
        /\ "error" \in Terminal
    BY DEF Threads, Terminal
  <2>2. CaptureFailed => cpc # "none"
    BY DEF CaptureFailed
  <2> QED
    BY <1>1, <1>2, <1>3, <1>4, <1>5, <1>6, <1>7, <2>1, <2>2, EventMoves


\* The channel holds events, within its capacity, and the interface counts them.
LEMMA EventsTyped ==
  ASSUME TypeOK, Single, [Next]_vars
  PROVE  /\ events' \in Seq(Event) /\ Len(events') <= EventCapacity
         /\ out' \in [Threads -> Event \cup {NoEvent}]
         /\ told' \in Nat
<1>0. /\ events \in Seq(Event) /\ Len(events) <= EventCapacity /\ Len(events) \in Nat
      /\ out \in [Threads -> Event \cup {NoEvent}] /\ told \in Nat
      /\ EventCapacity \in Nat
  BY LenProperties DEF TypeOK, EventCapacity
<1>1. CASE Unseen /\ UNCHANGED out
  BY <1>0, <1>1 DEF Unseen
<1>2. ASSUME NEW t \in Threads, Deliver(t) PROVE
        /\ events' \in Seq(Event) /\ Len(events') <= EventCapacity
        /\ out' \in [Threads -> Event \cup {NoEvent}] /\ told' \in Nat
  <2>1. Len(events) < EventCapacity /\ Len(events') = Len(events) + 1
          => Len(events') <= EventCapacity
    BY <1>0
  <2> QED
    BY <1>0, <1>2, <2>1, DeliverIs
<1>3. CASE Poll \/ PressStop
  <2>1. events' = <<>> /\ out' = out
    BY <1>3 DEF Poll, PressStop
  <2>2. told' \in Nat
    <3>1. CASE Poll
      <4>1. told' = told + IF ToSet(events) \cap Terminal = {} THEN 0 ELSE 1
        BY <3>1, EndsCounted DEF Poll, Single
      <4> QED
        BY <1>0, <4>1
    <3>2. CASE PressStop
      BY <1>0, <3>2 DEF PressStop
    <3> QED
      BY <1>3, <3>1, <3>2
  <2> QED
    BY <1>0, <2>1, <2>2, EmptySeq
<1>4. CASE Answer
  BY <1>0, <1>4, AnswerIs
<1>5. ASSUME Unseen, NEW t \in Threads, NEW event \in Event, Emitted(t, event) PROVE
        /\ events' \in Seq(Event) /\ Len(events') <= EventCapacity
        /\ out' \in [Threads -> Event \cup {NoEvent}] /\ told' \in Nat
  BY <1>0, <1>5 DEF Unseen, Emitted
<1> QED
  <2>1. /\ "worker" \in Threads /\ "capture" \in Threads /\ "input" \in Threads
        /\ "error" \in Event /\ Terminal \subseteq Event
    BY DEF Threads, Event, Terminal
  <2> QED
    BY <1>1, <1>2, <1>3, <1>4, <1>5, <2>1, EventMoves


-----------------------------------------------------------------------------
(* Room for events *)

\* Each thread waits with one event at most.
LEMMA BacklogTyped ==
  ASSUME TypeOK
  PROVE  /\ Len(events) \in Nat /\ Backlog \in Nat
         /\ \A t \in Threads : Waiting(t) \in {0, 1}
<1>1. Len(events) \in Nat
  BY LenProperties DEF TypeOK
<1>2. \A t \in Threads : Waiting(t) \in {0, 1}
  BY DEF Waiting
<1> QED
  BY <1>1, <1>2 DEF Backlog, Threads

\* An event that is delivered waits in the channel instead of with its thread.
LEMMA DeliverKeepsBacklog ==
  ASSUME TypeOK, NEW t \in Threads, Deliver(t)
  PROVE  Backlog' <= Backlog
<1>1. /\ Waiting(t) = 1 /\ Waiting(t)' = 0
      /\ \A u \in Threads : u # t => Waiting(u)' = Waiting(u)
  BY DeliverIs DEF Waiting, Ready
<1>2. Len(events') <= Len(events) + 1 /\ Len(events') \in Nat /\ Len(events) \in Nat
  BY DeliverIs, BacklogTyped
<1> QED
  BY <1>1, <1>2, BacklogTyped DEF Backlog, Threads

\* A report adds one event, and none if it is a second end.
LEMMA ReportAddsOne ==
  ASSUME TypeOK, NEW t \in Threads, NEW event \in Event, Emitted(t, event),
         events' = events
  PROVE  /\ Backlog' <= Backlog + 1
         /\ terminal /\ event \in Terminal => Backlog' = Backlog
<1>0. out \in [Threads -> Event \cup {NoEvent}]
  BY DEF TypeOK
<1>1. out' = out \/ out' = [out EXCEPT ![t] = event]
  BY DEF Emitted
<1>2. \A u \in Threads : u # t => Waiting(u)' = Waiting(u)
  BY <1>0, <1>1 DEF Waiting, Ready
<1>3. Waiting(t)' \in {0, 1}
  BY DEF Waiting
<1>4. Backlog' <= Backlog + 1
  BY <1>2, <1>3, BacklogTyped DEF Backlog, Threads
<1>5. terminal /\ event \in Terminal => out' = out
  BY DEF Emitted
<1>6. out' = out => Backlog' = Backlog
  BY DEF Backlog, Waiting, Ready
<1> QED
  BY <1>4, <1>5, <1>6

\* When the interface has taken the question, all that came before was told.
LEMMA AskedQuiet ==
  ASSUME TypeOK, Staged, Asked, Reports, Single, wpc = "approval", Ready("worker")
  PROVE  \A t \in Threads : Ready(t)
<1>1. cpc = "none" /\ ipc = "none"
  BY DEF Staged, AlonePCs
<1> QED
  BY <1>1 DEF Reports, Threads


\* What is not a report leaves no more to be told than before.
LEMMA BacklogShrinks ==
  ASSUME TypeOK,
         \/ Unseen /\ UNCHANGED <<out, terminal>>
         \/ \E t \in Threads : Deliver(t)
         \/ Poll \/ Answer \/ PressStop
  PROVE  Backlog' <= Backlog /\ terminal' = terminal
<1>1. ASSUME UNCHANGED out, events' = events \/ events' = <<>> PROVE Backlog' <= Backlog
  <2>1. Len(events') <= Len(events) /\ Len(events') \in Nat /\ Len(events) \in Nat
    BY <1>1, BacklogTyped, EmptySeq
  <2>2. \A t \in Threads : Waiting(t)' = Waiting(t)
    BY <1>1 DEF Waiting, Ready
  <2> QED
    BY <2>1, <2>2, BacklogTyped DEF Backlog, Threads
<1>2. CASE Unseen /\ UNCHANGED <<out, terminal>>
  BY <1>1, <1>2 DEF Unseen
<1>3. CASE Poll \/ PressStop
  BY <1>1, <1>3 DEF Poll, PressStop
<1>4. CASE Answer
  BY <1>1, <1>4, AnswerIs
<1>5. ASSUME NEW t \in Threads, Deliver(t) PROVE Backlog' <= Backlog /\ terminal' = terminal
  BY <1>5, DeliverKeepsBacklog, DeliverIs
<1> QED
  BY <1>2, <1>3, <1>4, <1>5

\* The events that came before the answer have been taken.
LEMMA QuietStep ==
  ASSUME TypeOK, Staged, Asked, Reports, Single, Roomy, [Next]_vars,
         wpc' = "approval", pending' \/ consent' # "none"
  PROVE  events' = <<>> /\ Ready("worker")'
<1>1. ~ReceiveRequest
  <2>1. CASE ReceiveRequest
    <3>1. wpc \in EarlyPCs /\ pending' = pending /\ consent' = consent
      BY <2>1 DEF ReceiveRequest, EarlyPCs, AwaitPCs, interface
    <3> QED
      BY <3>1 DEF Asked
  <2> QED
    BY <2>1
<1>2. wpc = "approval" /\ cpc = "none" /\ ipc = "none"
  BY <1>1, StagesPass DEF Staged, AlonePCs
<1>3. pending \/ consent # "none" => events = <<>> /\ Ready("worker")
  BY <1>2 DEF Roomy
<1>4. "request" \in ToSet(events) => Ready("worker")
  BY <1>2 DEF Asked, Reports, Ready
<1>5. Ready("worker") => \A t \in Threads : Ready(t)
  BY <1>2, AskedQuiet
<1>6. CASE Unseen /\ UNCHANGED <<out, terminal>>
  BY <1>3, <1>6 DEF Unseen, Ready
<1>7. ASSUME NEW t \in Threads, Deliver(t) PROVE events' = <<>> /\ Ready("worker")'
  BY <1>3, <1>5, <1>7, DeliverIs
<1>8. CASE Poll \/ PressStop
  BY <1>3, <1>4, <1>8 DEF Poll, PressStop, Ready
<1>9. CASE Answer
  BY <1>3, <1>9, AnswerIs DEF Ready
<1>10. ~(\E event \in Event : WorkerReports(event))
  BY <1>1, <1>2 DEF WorkerReports, SetupPCs, AwaitPCs
<1> QED
  BY <1>2, <1>6, <1>7, <1>8, <1>9, <1>10, EventMoves DEF CaptureFailed

\* Few events are left to come once the user has answered.
LEMMA RoomyStep ==
  ASSUME TypeOK, Staged, Asked, Consented, Reports, Single, Roomy, [Next]_vars
  PROVE  Roomy'
<1>1. wpc' = "approval" /\ (pending' \/ consent' # "none") => events' = <<>> /\ Ready("worker")'
  BY QuietStep
<1> DEFINE Silent == \/ Unseen /\ UNCHANGED <<out, terminal>>
                     \/ \E t \in Threads : Deliver(t)
                     \/ Poll \/ Answer \/ PressStop
<1>2. Silent => Backlog' <= Backlog /\ terminal' = terminal
  BY BacklogShrinks
<1>3. Backlog \in Nat /\ Backlog' \in Nat
  <2>1. Len(events') \in Nat
    BY EventsTyped, LenProperties
  <2>2. Waiting("worker")' \in Nat /\ Waiting("capture")' \in Nat /\ Waiting("input")' \in Nat
    BY DEF Waiting
  <2> QED
    BY <2>1, <2>2, BacklogTyped DEF Backlog
<1>4. ASSUME wpc' = "grant" PROVE Backlog' <= 1
  <2>1. CASE Approve
    <3>1. wpc = "approval" /\ Head(commands) \in Approvals /\ commands # <<>>
      BY <2>1 DEF Approve, CommandIs
    <3>2. consent # "none"
      <4>1. Head(commands) = consent
        BY <3>1, ToSetTail DEF Asked, TypeOK
      <4> QED
        BY <3>1, <4>1 DEF Approvals
    <3>3. events = <<>> /\ \A t \in Threads : Ready(t)
      BY <3>1, <3>2, AskedQuiet DEF Roomy
    <3>4. Backlog = 0
      BY <3>3, EmptySeq DEF Backlog, Waiting, Threads
    <3>5. events' = events /\ (out' = out \/ Emitted("worker", "status"))
      BY <1>4, <2>1 DEF Approve, WorkerReturns
    <3>6. CASE out' = out
      BY <3>3, <3>5, <3>6, EmptySeq DEF Backlog, Waiting, Threads, Ready
    <3>7. CASE Emitted("worker", "status")
      <4>1. "worker" \in Threads /\ "status" \in Event
        BY DEF Threads, Event
      <4> QED
        BY <1>3, <3>4, <3>5, <3>7, <4>1, ReportAddsOne
    <3> QED
      BY <3>5, <3>6, <3>7
  <2>2. CASE ~Approve
    <3>1. wpc = "grant" /\ cpc = "none" /\ ipc = "none"
      BY <1>4, <2>2, StagesPass DEF Staged, AlonePCs
    <3>2. ~(\E event \in Event : WorkerReports(event))
      BY <1>4, <2>2, <3>1 DEF WorkerReports, SetupPCs, AwaitPCs, ReceiveRequest
    <3>3. Silent
      BY <3>1, <3>2, EventMoves DEF CaptureFailed
    <3> QED
      BY <1>2, <1>3, <3>1, <3>3 DEF Roomy
  <2> QED
    BY <2>1, <2>2
<1>5. ASSUME session'.phase = "Active", session.phase = "Active"
      PROVE  Backlog' <= (IF terminal' THEN 3 ELSE 2)
  <2>1. Backlog <= (IF terminal THEN 3 ELSE 2)
    BY <1>5 DEF Roomy
  <2>2. CASE Silent
    BY <1>2, <1>3, <2>1, <2>2
  <2>3. ASSUME NEW t \in Threads, NEW event \in Terminal, Emitted(t, event),
               events' = events
        PROVE  Backlog' <= (IF terminal' THEN 3 ELSE 2)
    <3>1. terminal' = TRUE /\ Terminal \subseteq Event
      BY <2>3 DEF Emitted, Event
    <3> QED
      BY <1>3, <2>1, <2>3, <3>1, ReportAddsOne
  <2>4. ASSUME NEW event \in Event, WorkerReports(event) PROVE event \in Terminal
    BY <1>5, <2>4 DEF WorkerReports, Staged, EarlyPCs, Approve, ReceiveRequest, SendGrant,
       AwaitPCs
  <2>5. "worker" \in Threads /\ "capture" \in Threads /\ "input" \in Threads
        /\ "error" \in Terminal
    BY DEF Threads, Terminal
  <2> QED
    BY <2>2, <2>3, <2>4, <2>5, EventMoves DEF Unseen
<1>6. ASSUME session'.phase = "Active", session.phase # "Active"
      PROVE  Backlog' <= (IF terminal' THEN 3 ELSE 2)
  <2>1. SendGrant
    <3>1. ReceiveRequest => session'.phase = "AwaitingApproval"
      BY DEF ReceiveRequest, Registered, TypeOK, Sessions
    <3>2. session' = Authorized(session) => session'.phase = session.phase
      BY DEF Authorized, TypeOK, Sessions
    <3> QED
      BY <1>6, <3>1, <3>2, SessionMoves
  <2>2. wpc = "grant" /\ Emitted("worker", "active") /\ events' = events
    BY <1>6, <2>1 DEF SendGrant
  <2>3. terminal = FALSE /\ terminal' = terminal
    BY <2>2 DEF Reports, AlonePCs, TypeOK, Emitted, Terminal
  <2>4. "worker" \in Threads /\ "active" \in Event
    BY DEF Threads, Event
  <2> QED
    BY <1>3, <2>2, <2>3, <2>4, ReportAddsOne DEF Roomy
<1> QED
  BY <1>1, <1>4, <1>5, <1>6 DEF Roomy

\* A session that is active has room for what is left to report.
LEMMA RoomFollows == TypeOK /\ Roomy => EventsNeverBlock
<1> SUFFICES ASSUME TypeOK, Roomy, session.phase = "Active", NEW t \in Threads,
                    out[t] # NoEvent
             PROVE  Len(events) < EventCapacity
  BY DEF EventsNeverBlock
<1>1. Waiting(t) = 1
  BY DEF Waiting, Ready
<1>2. Backlog \in Nat /\ Backlog <= 3
  <2>1. Backlog <= 2 \/ Backlog <= 3
    BY DEF Roomy
  <2> QED
    BY <2>1, BacklogTyped
<1> QED
  BY <1>1, <1>2, BacklogTyped DEF Backlog, Threads, EventCapacity


-----------------------------------------------------------------------------
(* The theorems *)

\* Only the capture thread takes the writer lock.
LEMMA WriterTyped ==
  ASSUME TypeOK, [Next]_vars
  PROVE  writer' \in {"none", "capture"}
<1>1. CASE UNCHANGED writer
  BY <1>1 DEF TypeOK
<1>2. CASE CaptureStep \/ SendFrame \/ FrameTimeout
  BY <1>2 DEF TypeOK, CaptureStep, SendFrame, FrameTimeout, BeginFrame, NextRecord,
     FrameCut, FailFrame, CaptureFailed, CaptureCloses, CaptureStops, channel
<1> QED
  BY <1>1, <1>2
  DEF Next, vars, channel, WorkerStep,
      DrainCommands, PollAgain, FailSetup, ApprovalTimeout, Refuse, Approve, SendGrant,
      StartCapture, StartInput, TakeStop, SendRevoked, LeaveLoop, ClearRunning,
      ShutdownChannel, JoinCapture, JoinInput, WorkerEnds, AdvanceSetup, ReceiveRequest,
      InputStep, ReceiveTimeout, InputLoop, Receive, ReceiveCut, FailReceive, Pong,
      Inject, ReleaseAll, InputStops, InputCloses, Deliver, Poll, Answer, PressStop,
      ViewerInput, ViewerOther, LoseConnection

\* Every variable keeps its form.
LEMMA TypeStep ==
  ASSUME TypeOK, Counted, Single, [Next]_vars
  PROVE  TypeOK'
<1>1. Flags'
  <2>1. Flags
    BY DEF TypeOK, Flags
  <2> QED
    BY <2>1, FlagsTyped
<1>2. {running', closed', lost', backend', pending', terminal'} \subseteq BOOLEAN
  BY <1>1 DEF Flags
<1> QED
  BY <1>2, PlacesTyped, WriterTyped, InboxTyped, SessionTyped, HeldTyped, CommandsTyped,
     ConsentTyped, EventsTyped
  DEF TypeOK

\* A session starts with nothing asked, allowed, held or reported.
LEMMA HostInit == Init => HostInv
<1> SUFFICES ASSUME Init PROVE HostInv
  OBVIOUS
<1>0. /\ out = [t \in Threads |-> IF t = "worker" THEN "status" ELSE NoEvent]
      /\ events = <<>> /\ injected = <<>> /\ commands = <<>> /\ inbox = <<>>
      /\ Len(<<>>) = 0 /\ ToSet(<<>>) = {}
  BY EmptySeq, ToSetEmpty DEF Init
<1>1. session = NewSession /\ session.phase = "AwaitingRequest" /\ session.next = 0
      /\ session \in Sessions
  BY MaxSequenceIsNat DEF Init, NewSession, NoRequest, NoGrant, Sessions, Phases, Permissions
<1>2. TypeOK
  <2>1. /\ inbox \in Seq(InputMessages \cup OtherMessages) /\ injected \in Seq(InputMessages)
        /\ commands \in Seq(Refusals \cup Approvals) /\ events \in Seq(Event)
    BY <1>0, EmptySeq
  <2>2. out \in [Threads -> Event \cup {NoEvent}]
    BY <1>0 DEF Event
  <2>3. viewer \in [sent : Nat, next : Nat]
    BY DEF Init
  <2>4. {running, closed, lost, backend, pending, terminal} \subseteq BOOLEAN
    BY DEF Init
  <2>5. Len(events) <= EventCapacity
    BY <1>0 DEF EventCapacity
  <2> QED
    BY <1>1, <2>1, <2>2, <2>3, <2>4, <2>5
    DEF Init, TypeOK, WorkerPCs, SetupPCs, CapturePCs, InputPCs
<1>3. Staged /\ Consented /\ Counted /\ Remembered
  BY <1>0, <1>1 DEF Init, Staged, Consented, Counted, Remembered, AlonePCs, EarlyPCs,
     SetupPCs, JointPCs, OverPCs
<1>4. /\ out["worker"] = "status" /\ out["capture"] = NoEvent /\ out["input"] = NoEvent
      /\ \A t \in Threads : out[t] \notin Terminal
  BY <1>0 DEF Threads, Terminal, NoEvent
<1>5. Asked /\ Reports
  BY <1>0, <1>4 DEF Init, Asked, Reports, AlonePCs, EarlyPCs, SetupPCs, AwaitPCs, JointPCs,
     OverPCs, Ready, Terminal, NoEvent
<1>6. InputsInOrder /\ OneTerminalEvent
  BY <1>0 DEF Init, InputsInOrder, OneTerminalEvent
<1>7. Single
  BY <1>0, <1>4, <1>6 DEF Init, Single
<1>8. Roomy
  BY <1>1 DEF Init, Roomy
<1> QED
  BY <1>2, <1>3, <1>5, <1>6, <1>7, <1>8 DEF HostInv

\* Every step of a thread, of the user, of the viewer and of the network keeps it.
LEMMA HostStep == HostInv /\ [Next]_vars => HostInv'
  BY TypeStep, StagedStep, AskedStep, ConsentedStep, CountedStep, InOrderStep,
     RememberedStep, ReportsStep, SingleStep, RoomyStep
  DEF HostInv

\* The invariant holds of every session.
THEOREM HostHolds == Spec => []HostInv
  BY HostInit, HostStep, PTL DEF Spec

\* Every thread is at one of its program counters, every queue holds what may be
\* sent to it, and the event channel never holds more than its capacity.
THEOREM HostTyped == Spec => []TypeOK
<1>1. HostInv => TypeOK
  BY DEF HostInv
<1> QED
  BY <1>1, HostHolds, PTL

\* The screen is captured, input injected and control granted only after the local
\* user has allowed it, whatever the viewer asked for or sent.
THEOREM ConsentComesFirst == Spec => []ConsentFirst
<1>1. HostInv => ConsentFirst
  BY ConsentFollows DEF HostInv
<1> QED
  BY <1>1, HostHolds, PTL

\* What is injected is the viewer's input from the first on, without a gap or a
\* repetition, whatever numbers and sessions its messages name.
THEOREM InputsStayInOrder == Spec => []InputsInOrder
<1>1. HostInv => InputsInOrder
  BY DEF HostInv
<1> QED
  BY <1>1, HostHolds, PTL

\* However the session ends, the keys and buttons of the viewer are up when the input
\* thread has stopped, and a worker with two threads returns after both.
THEOREM EndIsClean == Spec => []CleanEnd
<1>1. HostInv => CleanEnd
  BY DEF HostInv, Staged, Remembered, CleanEnd, OverPCs
<1> QED
  BY <1>1, HostHolds, PTL

\* Three threads may find the end of a session; the interface hears of it from one,
\* and nothing after it.
THEOREM EndToldOnce == Spec => []OneTerminalEvent
<1>1. HostInv => OneTerminalEvent
  BY DEF HostInv, Single
<1> QED
  BY <1>1, HostHolds, PTL

\* The event channel of an active session has room for whatever its threads still
\* have to report, however long the interface does not poll.
THEOREM EventsHaveRoom == Spec => []EventsNeverBlock
<1>1. HostInv => EventsNeverBlock
  BY RoomFollows DEF HostInv
<1> QED
  BY <1>1, HostHolds, PTL

=============================================================================
