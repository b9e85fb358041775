---------------------------- MODULE HostSession ----------------------------
(***************************************************************************)
(* A host's session in apps/rustview-desktop/src/network.rs: the worker    *)
(* thread (host_worker_inner), the capture thread (spawn_capture_loop),    *)
(* the input thread (spawn_input_loop), the event sink between them and    *)
(* the user interface (EventSink, poll_workers in app.rs), and the viewer  *)
(* at the other end of the encrypted channel.                              *)
(*                                                                         *)
(* The channel is reduced to what the threads see of it: a queue of        *)
(* received messages, the writer lock, whether it is closed, and whether   *)
(* the connection is lost.  Only the records of a frame fill the socket's  *)
(* buffer and block; a Disconnect or a Pong is written in one step.  Every *)
(* timeout may run out at any moment.                                      *)
(***************************************************************************)
EXTENDS SessionRules, Sequences, FiniteSets, SequencesExt

CONSTANTS RequestSets,   \* permission sets a viewer may ask for
          Gestures,      \* input events the viewer's user makes
          MaxMessages,   \* bound: messages the viewer sends after its request
          SpawnMayFail   \* whether the OS may refuse to start the input thread

ASSUME RequestSetsAreSets == RequestSets \subseteq (SUBSET Permissions \ {{}})
ASSUME GesturesAreEvents == Gestures \subseteq InputEvents
ASSUME MaxMessagesIsNat == MaxMessages \in Nat
ASSUME SpawnMayFailIsBoolean == SpawnMayFail \in BOOLEAN

VARIABLES
  wpc,        \* worker thread
  cpc,        \* capture thread
  ipc,        \* input thread
  running,    \* the flag the three threads share
  closed,     \* the channel was shut down, or its last clone dropped
  lost,       \* the connection is gone
  writer,     \* who holds the channel's writer lock
  inbox,      \* messages received and not yet read
  session,    \* SessionState, moved from the worker to the input thread
  backend,    \* a NativeInput exists
  held,       \* keys and buttons the backend holds down
  pressed,    \* PressedInputs of the input thread
  stuck,      \* history: those whose release failed
  injected,   \* inputs injected, in order
  commands,   \* commands from the user interface
  ui,         \* the interface holds the Worker, or has dropped it and with it
              \* the session indicator
  pending,    \* the approval dialog is shown
  consent,    \* what the local user answered
  events,     \* the bounded event channel
  out,        \* the event each thread is about to put there
  terminal,   \* terminal_emitted
  told,       \* terminal events the interface has received
  viewer      \* messages the viewer has sent and its next sequence number

threads == <<wpc, cpc, ipc>>
channel == <<closed, lost, writer, inbox>>
control == <<session, backend, held, pressed, stuck, injected>>
interface == <<commands, ui, pending, consent, told>>
eventing == <<events, out, terminal>>
vars == <<wpc, cpc, ipc, running, closed, lost, writer, inbox, session, backend,
          held, pressed, stuck, injected, commands, ui, pending, consent, events, out,
          terminal, told, viewer>>

Threads == {"worker", "capture", "input"}
SetupPCs == {"register", "pair", "handshake", "request"}
AwaitPCs == {"awaitRegister", "awaitPair", "awaitHandshake", "awaitRequest"}
WorkerPCs == SetupPCs \cup AwaitPCs \cup {"approval", "grant", "startCapture",
               "startInput", "run", "revoke", "stop", "shutdown", "joinCapture",
               "joinInput", "ending", "ended"}
CapturePCs == {"none", "loop", "send", "next", "failed", "close", "done"}
InputPCs == {"none", "loop", "recv", "inject", "pong", "release", "stop", "close", "done"}

Terminal == {"stopped", "error"}
Event == {"status", "request", "active"} \cup Terminal
NoEvent == "none"

\* Capacity of the event channel.
MEventCapacity == 2
EventCapacity == 4

InputMessages == [kind : {"input"}, session : {1, 2}, epoch : {1},
                  sequence : Nat, event : InputEvents]
OtherMessages == [kind : {"ping", "disconnect", "other"}]

Init ==
  /\ wpc = "register" /\ cpc = "none" /\ ipc = "none"
  /\ running = FALSE
  /\ closed = FALSE /\ lost = FALSE /\ writer = "none" /\ inbox = <<>>
  /\ session = NewSession
  /\ backend = FALSE
  /\ held = {} /\ pressed = {} /\ stuck = {} /\ injected = <<>>
  /\ commands = <<>>
  /\ ui = "open" /\ pending = FALSE /\ consent = "none"
  /\ events = <<>>
  /\ out = [t \in Threads |-> IF t = "worker" THEN "status" ELSE NoEvent]
  /\ terminal = FALSE /\ told = 0
  /\ viewer = [sent |-> 0, next |-> 0]

-----------------------------------------------------------------------------
(* EventSink *)

\* Mutant: the flag is read but not taken.
MEmitted(t, event) == out' = [out EXCEPT ![t] = event] /\ UNCHANGED terminal

\* emit decides: only the first terminal event of a worker goes on.
Emitted(t, event) ==
  IF event \in Terminal
  THEN /\ terminal' = TRUE
       /\ out' = IF terminal THEN out ELSE [out EXCEPT ![t] = event]
  ELSE out' = [out EXCEPT ![t] = event] /\ UNCHANGED terminal

Ready(t) == out[t] = NoEvent

\* The blocking send of the bounded channel; it fails at once when the
\* interface has dropped the receiver.
Deliver(t) ==
  /\ out[t] # NoEvent
  /\ \/ /\ ui = "gone"
        /\ UNCHANGED events
     \/ /\ ui = "open"
        /\ Len(events) < EventCapacity
        /\ events' = Append(events, out[t])
  /\ out' = [out EXCEPT ![t] = NoEvent]
  /\ UNCHANGED <<threads, running, channel, control, interface, terminal, viewer>>

-----------------------------------------------------------------------------
(* The worker before approval *)

\* The clones of the channel other threads own.
OthersHoldChannel == cpc \notin {"none", "done"} \/ ipc \notin {"none", "done"}

\* The worker returns: its result is a terminal event, and the channel closes
\* with its last clone.
WorkerReturns(event) ==
  /\ wpc' = "ending"
  /\ closed' = (closed \/ ~OthersHoldChannel)
  /\ Emitted("worker", event)

HungUp == ui = "gone" /\ commands = <<>>
\* Mutant: whatever the user answers is taken for any answer.
MCommandIs(set) == commands # <<>>
CommandIs(set) == commands # <<>> /\ Head(commands) \in set
Refusals == {"stop", "deny"}
Approvals == {"approveView", "approveControl"}

\* poll_cancellable: every queued command is drained first; a refusal, or the
\* loss of the interface, cancels the wait, and anything else is discarded.
\* Then the result is awaited for COMMAND_POLL_INTERVAL: a command that comes
\* in meanwhile is seen only by the next poll, or by whoever reads next.
Cancelled == (\E i \in DOMAIN commands : commands[i] \in Refusals) \/ ui = "gone"

Awaiting == [register |-> "awaitRegister", pair |-> "awaitPair",
             handshake |-> "awaitHandshake", request |-> "awaitRequest"]

DrainCommands ==
  /\ wpc \in SetupPCs /\ Ready("worker")
  /\ commands' = <<>>
  /\ IF Cancelled
     THEN WorkerReturns("stopped")
     ELSE wpc' = Awaiting[wpc] /\ UNCHANGED <<closed, out, terminal>>
  /\ UNCHANGED <<cpc, ipc, running, lost, writer, inbox, control, ui, pending, consent,
                 events, told, viewer>>

PollAgain ==
  /\ \E pc \in SetupPCs : Awaiting[pc] = wpc /\ wpc' = pc
  /\ UNCHANGED <<cpc, ipc, running, channel, control, interface, eventing, viewer>>

\* A timeout, a lost connection, a refusal by the relay or a failed handshake;
\* a viewer that disconnects instead of asking ends the session normally.
FailSetup ==
  /\ wpc \in SetupPCs \cup AwaitPCs /\ Ready("worker")
  /\ \E event \in IF wpc = "awaitRequest" THEN Terminal ELSE {"error"} :
        WorkerReturns(event)
  /\ UNCHANGED <<cpc, ipc, running, lost, writer, inbox, control, interface, events,
                 viewer>>

NextSetup == [awaitRegister |-> "pair", awaitPair |-> "handshake",
              awaitHandshake |-> "request"]

AdvanceSetup ==
  /\ wpc \in DOMAIN NextSetup
  /\ ~lost
  /\ wpc' = NextSetup[wpc]
  /\ IF wpc = "awaitHandshake" THEN UNCHANGED <<out, terminal>>
                                ELSE Emitted("worker", "status")
  /\ UNCHANGED <<cpc, ipc, running, channel, control, interface, events, viewer>>

\* The session request arrives, valid as recv has checked.
ReceiveRequest ==
  /\ wpc = "awaitRequest"
  /\ ~lost
  /\ \E permissions \in RequestSets :
        LET request == [id |-> 1, permissions |-> permissions]
        IN  /\ MayRegister(session, request)
            /\ session' = Registered(session, request)
  /\ wpc' = "approval"
  /\ Emitted("worker", "request")
  /\ UNCHANGED <<cpc, ipc, running, channel, backend, held, pressed, stuck,
                 injected, interface, events, viewer>>

-----------------------------------------------------------------------------
(* Approval, grant and start *)

RequestedControl == CanControl(session.request.permissions)

\* APPROVAL_TIMEOUT; the clock is read before the commands, so an answer that
\* is still queued is lost.  The viewer is sent a Disconnect; a send that fails
\* turns the end into an error.
ApprovalTimeout ==
  /\ wpc = "approval" /\ Ready("worker")
  /\ \E event \in IF lost THEN {"error"} ELSE {"stopped"} : WorkerReturns(event)
  /\ UNCHANGED <<cpc, ipc, running, lost, writer, inbox, control, interface, events,
                 viewer>>

Refuse ==
  /\ wpc = "approval" /\ Ready("worker")
  /\ \/ HungUp /\ UNCHANGED commands
     \/ CommandIs(Refusals) /\ commands' = Tail(commands)
  /\ \E event \in IF lost THEN {"error"} ELSE {"stopped"} : WorkerReturns(event)
  /\ UNCHANGED <<cpc, ipc, running, lost, writer, inbox, control, ui, pending, consent,
                 events, told, viewer>>

\* Mutant: the request is taken for the answer.
MWantsControl == RequestedControl
WantsControl == CommandIs({"approveControl"}) /\ RequestedControl

\* Capture and input are allocated only now.  Without displays the session
\* fails; without an input backend it becomes view-only.
Approve ==
  /\ wpc = "approval" /\ Ready("worker")
  /\ CommandIs(Approvals)
  /\ commands' = Tail(commands)
  /\ \/ /\ WorkerReturns("error")
        /\ UNCHANGED backend
     \/ /\ wpc' = "grant"
        /\ \/ backend' = WantsControl /\ UNCHANGED <<out, terminal>>
           \/ /\ WantsControl
              /\ backend' = FALSE
              /\ Emitted("worker", "status")
        /\ UNCHANGED closed
  /\ UNCHANGED <<cpc, ipc, running, lost, writer, inbox, session, held, pressed,
                 stuck, injected, ui, pending, consent, events, told, viewer>>

Grant == [request |-> 1, session |-> 1, epoch |-> 1,
          permissions |-> IF backend THEN ViewAndControl ELSE ViewOnly]

\* activate, then the grant is sent; either may fail.
SendGrant ==
  /\ wpc = "grant" /\ Ready("worker")
  /\ \/ /\ MayActivate(session, Grant)
        /\ ~lost
        /\ session' = Activated(session, Grant)
        /\ wpc' = "startCapture"
        /\ running' = TRUE
        /\ Emitted("worker", "active")
        /\ UNCHANGED closed
     \/ /\ ~MayActivate(session, Grant) \/ lost
        /\ WorkerReturns("error")
        /\ UNCHANGED <<session, running>>
  /\ UNCHANGED <<cpc, ipc, lost, writer, inbox, backend, held, pressed, stuck,
                 injected, interface, events, viewer>>

StartCapture ==
  /\ wpc = "startCapture" /\ Ready("worker")
  /\ \/ /\ cpc' = "loop"
        /\ wpc' = "startInput"
        /\ UNCHANGED <<closed, out, terminal>>
     \/ /\ SpawnMayFail
        /\ WorkerReturns("error")
        /\ UNCHANGED cpc
  /\ UNCHANGED <<ipc, running, lost, writer, inbox, control, interface, events, viewer>>

\* A thread that cannot be started ends the worker by `?`: the capture thread
\* is neither told nor joined.
StartInput ==
  /\ wpc = "startInput" /\ Ready("worker")
  /\ \/ /\ ipc' = "loop"
        /\ wpc' = "run"
        /\ UNCHANGED <<closed, out, terminal>>
     \/ /\ SpawnMayFail
        /\ WorkerReturns("error")
        /\ UNCHANGED ipc
  /\ UNCHANGED <<cpc, running, lost, writer, inbox, control, interface, events, viewer>>

-----------------------------------------------------------------------------
(* The worker's main loop and its end *)

\* The flag is read before the wait for a command, which may outlast it.
TakeStop ==
  /\ wpc = "run"
  /\ CommandIs(Refusals)
  /\ commands' = Tail(commands)
  /\ wpc' = "revoke"
  /\ UNCHANGED <<cpc, ipc, running, channel, control, ui, pending, consent, told,
                 eventing, viewer>>

\* Disconnect(Revoked): the send waits for the writer lock unless it finds the
\* channel closed; its result is ignored.
SendRevoked ==
  /\ wpc = "revoke"
  /\ closed \/ writer = "none"
  /\ wpc' = "stop"
  /\ UNCHANGED <<cpc, ipc, running, channel, control, interface, eventing, viewer>>

\* The loop also ends when the interface has dropped the Worker or another
\* thread has cleared the flag.
LeaveLoop ==
  /\ wpc = "run"
  /\ ~running \/ HungUp
  /\ wpc' = "stop"
  /\ UNCHANGED <<cpc, ipc, running, channel, control, interface, eventing, viewer>>

\* Mutant: the threads are not told to stop.
MClearRunning ==
  /\ wpc = "stop"
  /\ wpc' = "joinCapture"
  /\ UNCHANGED <<cpc, ipc, running, channel, control, interface, eventing, viewer>>

ClearRunning ==
  /\ wpc = "stop"
  /\ running' = FALSE
  /\ wpc' = "shutdown"
  /\ UNCHANGED <<cpc, ipc, channel, control, interface, eventing, viewer>>

\* Mutant: the channel is left to the peer to close.
MShutdownChannel ==
  /\ wpc = "shutdown"
  /\ wpc' = "joinCapture"
  /\ UNCHANGED <<cpc, ipc, running, channel, control, interface, eventing, viewer>>

ShutdownChannel ==
  /\ wpc = "shutdown"
  /\ closed' = TRUE
  /\ wpc' = "joinCapture"
  /\ UNCHANGED <<cpc, ipc, running, lost, writer, inbox, control, interface, eventing,
                 viewer>>

JoinCapture ==
  /\ wpc = "joinCapture"
  /\ cpc = "done"
  /\ wpc' = "joinInput"
  /\ UNCHANGED <<cpc, ipc, running, channel, control, interface, eventing, viewer>>

\* Mutant: only the capture thread is waited for.
MJoinInput ==
  /\ wpc = "joinInput"
  /\ WorkerReturns("stopped")
  /\ UNCHANGED <<cpc, ipc, running, lost, writer, inbox, control, interface, events,
                 viewer>>

JoinInput ==
  /\ wpc = "joinInput"
  /\ ipc = "done"
  /\ WorkerReturns("stopped")
  /\ UNCHANGED <<cpc, ipc, running, lost, writer, inbox, control, interface, events,
                 viewer>>

\* The closure of spawn_worker returns after its event was delivered; the
\* command receiver is dropped.
WorkerEnds ==
  /\ wpc = "ending" /\ Ready("worker")
  /\ wpc' = "ended"
  /\ UNCHANGED <<cpc, ipc, running, channel, control, interface, eventing, viewer>>

-----------------------------------------------------------------------------
(* The capture thread *)

\* The screen is captured, and the send of the frame's first record takes the
\* writer lock.
BeginFrame ==
  /\ cpc = "loop" /\ running
  /\ \/ /\ writer = "none"
        /\ writer' = "capture"
        /\ cpc' = "send"
     \/ /\ cpc' = "failed"
        /\ UNCHANGED writer
  /\ UNCHANGED <<wpc, ipc, running, closed, lost, inbox, control, interface, eventing,
                 viewer>>

\* Each record takes the lock anew; the flag is not read between them.
NextRecord ==
  /\ cpc = "next"
  /\ writer = "none"
  /\ writer' = "capture"
  /\ cpc' = "send"
  /\ UNCHANGED <<wpc, ipc, running, closed, lost, inbox, control, interface, eventing,
                 viewer>>

SendFrame ==
  /\ cpc = "send"
  /\ ~closed /\ ~lost
  /\ writer' = "none"
  /\ cpc' \in {"next", "loop"}
  /\ UNCHANGED <<wpc, ipc, running, closed, lost, inbox, control, interface, eventing,
                 viewer>>

\* The channel was closed, the connection lost, or the viewer did not read for
\* SESSION_IO_TIMEOUT; a failed write closes the channel.
FailFrame ==
  /\ cpc = "send"
  /\ writer' = "none"
  /\ closed' = TRUE
  /\ cpc' = "failed"
  /\ UNCHANGED <<wpc, ipc, running, lost, inbox, control, interface, eventing, viewer>>

FrameCut == (closed \/ lost) /\ FailFrame
FrameTimeout == ~closed /\ ~lost /\ FailFrame

\* Only the thread that clears the flag reports the error.
CaptureFailed ==
  /\ cpc = "failed"
  /\ cpc' = "close"
  /\ running' = FALSE
  /\ IF running THEN Emitted("capture", "error") ELSE UNCHANGED <<out, terminal>>
  /\ UNCHANGED <<wpc, ipc, channel, control, interface, events, viewer>>

CaptureCloses ==
  /\ cpc = "close" /\ Ready("capture")
  /\ closed' = TRUE
  /\ cpc' = "done"
  /\ UNCHANGED <<wpc, ipc, running, lost, writer, inbox, control, interface, eventing,
                 viewer>>

CaptureStops ==
  /\ cpc = "loop" /\ ~running
  /\ cpc' = "done"
  /\ UNCHANGED <<wpc, ipc, running, channel, control, interface, eventing, viewer>>

-----------------------------------------------------------------------------
(* The input thread *)

InputLoop ==
  /\ ipc = "loop"
  /\ ipc' = IF running THEN "recv" ELSE "release"
  /\ UNCHANGED <<wpc, cpc, running, channel, control, interface, eventing, viewer>>

\* One message; everything but an authorized input and a Ping ends the loop.
Receive ==
  /\ ipc = "recv"
  /\ inbox # <<>>
  /\ ~closed
  /\ LET m == Head(inbox) IN
       \/ /\ m.kind = "input" /\ MayAuthorize(session, m)
          /\ session' = Authorized(session)
          /\ ipc' = "inject"
          /\ UNCHANGED <<out, terminal, inbox>>
       \/ /\ m.kind = "ping"
          /\ ipc' = "pong"
          /\ inbox' = Tail(inbox)
          /\ UNCHANGED <<session, out, terminal>>
       \/ /\ m.kind \in {"disconnect", "other"} \/ (m.kind = "input" /\ ~MayAuthorize(session, m))
          /\ ipc' = "release"
          /\ inbox' = Tail(inbox)
          /\ Emitted("input", IF m.kind = "disconnect" THEN "stopped" ELSE "error")
          /\ UNCHANGED session
  /\ UNCHANGED <<wpc, cpc, running, closed, lost, writer, backend, held, pressed,
                 stuck, injected, interface, events, viewer>>

\* recv shuts the channel down when it fails, so no error is ever reported.
FailReceive ==
  /\ ipc = "recv"
  /\ closed' = TRUE
  /\ ipc' = "release"
  /\ UNCHANGED <<wpc, cpc, running, lost, writer, inbox, control, interface, eventing,
                 viewer>>

ReceiveCut == (closed \/ lost) /\ FailReceive
ReceiveTimeout == ~closed /\ ~lost /\ inbox = <<>> /\ FailReceive

Pong ==
  /\ ipc = "pong"
  /\ closed \/ writer = "none"
  /\ ipc' = IF closed \/ lost THEN "release" ELSE "loop"
  /\ closed' = (closed \/ lost)
  /\ UNCHANGED <<wpc, cpc, running, lost, writer, inbox, control, interface, eventing,
                 viewer>>

\* Mutant: pressed keys are not remembered.
MObserved(set, event) == IF event = "keyDown" THEN set ELSE HeldAfter(set, event)
Observed(set, event) == HeldAfter(set, event)

\* The authorized input is injected, then observed; the message is consumed.
Inject ==
  /\ ipc = "inject"
  /\ inbox' = Tail(inbox)
  /\ LET m == Head(inbox) IN
       \/ /\ backend
          /\ held' = HeldAfter(held, m.event)
          /\ pressed' = Observed(pressed, m.event)
          /\ injected' = Append(injected, m)
          /\ ipc' = "loop"
          /\ UNCHANGED <<out, terminal>>
       \/ /\ Emitted("input", "error")
          /\ ipc' = "release"
          /\ UNCHANGED <<held, pressed, injected>>
  /\ UNCHANGED <<wpc, cpc, running, closed, lost, writer, session, backend, stuck,
                 interface, events, viewer>>

\* release_all tries each key and button once and forgets it, released or not.
ReleaseAll ==
  /\ ipc = "release" /\ Ready("input")
  /\ \E failed \in SUBSET pressed :
        /\ held' = held \ (pressed \ failed)
        /\ stuck' = stuck \cup failed
  /\ pressed' = {}
  /\ ipc' = "stop"
  /\ UNCHANGED <<wpc, cpc, running, channel, session, backend, injected, interface,
                 eventing, viewer>>

InputStops ==
  /\ ipc = "stop"
  /\ running' = FALSE
  /\ ipc' = "close"
  /\ UNCHANGED <<wpc, cpc, channel, control, interface, eventing, viewer>>

InputCloses ==
  /\ ipc = "close"
  /\ closed' = TRUE
  /\ ipc' = "done"
  /\ UNCHANGED <<wpc, cpc, running, lost, writer, inbox, control, interface, eventing,
                 viewer>>

-----------------------------------------------------------------------------
(* The user interface *)

\* poll_workers takes every event; a terminal one drops the Worker.
Poll ==
  /\ ui = "open"
  /\ events # <<>>
  /\ LET seen == ToSet(events)
         over == seen \cap Terminal # {}
     IN  /\ ui' = IF over THEN "gone" ELSE "open"
         /\ pending' = (~over /\ ("request" \in seen \/ (pending /\ "active" \notin seen)))
         /\ told' = told + Cardinality({i \in DOMAIN events : events[i] \in Terminal})
  /\ events' = <<>>
  /\ UNCHANGED <<threads, running, channel, control, commands, consent, out, terminal,
                 viewer>>

\* The dialog offers control only when it was requested.
Answer ==
  /\ ui = "open"
  /\ pending
  /\ \E command \in {"deny", "approveView"}
                      \cup (IF RequestedControl THEN {"approveControl"} ELSE {}) :
        /\ commands' = Append(commands, command)
        /\ consent' = command
  /\ pending' = FALSE
  /\ UNCHANGED <<threads, running, channel, control, ui, told, eventing, viewer>>

\* Reconnect, Retry now, a new password or new relay settings: Stop is sent and
\* the Worker is dropped with its event receiver.
PressStop ==
  /\ ui = "open"
  /\ commands' = Append(commands, "stop")
  /\ ui' = "gone"
  /\ pending' = FALSE
  /\ events' = <<>>
  /\ UNCHANGED <<threads, running, channel, control, consent, told, out, terminal,
                 viewer>>

-----------------------------------------------------------------------------
(* The viewer and the network *)

\* A viewer that may not control the host has one message to try.
Bound == IF RequestedControl THEN MaxMessages ELSE 1
ViewerMay == wpc \notin SetupPCs \cup AwaitPCs /\ viewer.sent < Bound /\ ~closed /\ ~lost

\* The next input of its user, or one that is numbered wrongly or belongs to
\* another session; one that is both is refused no differently.
ViewerInput ==
  /\ ViewerMay
  /\ session.phase = "Active"
  /\ \E event \in Gestures, id \in {1, 2}, skip \in {0, 1} :
        /\ id = 1 \/ skip = 0
        /\ inbox' = Append(inbox, [kind |-> "input", session |-> id, epoch |-> 1,
                                   sequence |-> viewer.next + skip, event |-> event])
        /\ viewer' = [sent |-> viewer.sent + 1, next |-> viewer.next + 1]
  /\ UNCHANGED <<threads, running, closed, lost, writer, control, interface, eventing>>

ViewerOther ==
  /\ ViewerMay
  /\ \E m \in OtherMessages : inbox' = Append(inbox, m)
  /\ viewer' = [viewer EXCEPT !.sent = @ + 1]
  /\ UNCHANGED <<threads, running, closed, lost, writer, control, interface, eventing>>

LoseConnection ==
  /\ ~lost
  /\ lost' = TRUE
  /\ UNCHANGED <<threads, running, closed, writer, inbox, control, interface, eventing,
                 viewer>>

-----------------------------------------------------------------------------
WorkerStep ==
  \/ DrainCommands \/ PollAgain \/ FailSetup \/ ApprovalTimeout \/ Refuse \/ Approve \/ SendGrant
  \/ StartCapture \/ StartInput \/ TakeStop \/ SendRevoked \/ LeaveLoop \/ ClearRunning
  \/ ShutdownChannel \/ JoinCapture \/ JoinInput \/ WorkerEnds
CaptureStep == \/ BeginFrame \/ NextRecord \/ FrameCut \/ CaptureFailed \/ CaptureCloses \/ CaptureStops
InputStep == \/ InputLoop \/ Receive \/ ReceiveCut \/ Pong \/ Inject \/ ReleaseAll
             \/ InputStops \/ InputCloses

Next ==
  \/ WorkerStep \/ AdvanceSetup \/ ReceiveRequest
  \/ CaptureStep \/ SendFrame \/ FrameTimeout
  \/ InputStep \/ ReceiveTimeout
  \/ \E t \in Threads : Deliver(t)
  \/ Poll \/ Answer \/ PressStop
  \/ ViewerInput \/ ViewerOther \/ LoseConnection

Spec == Init /\ [][Next]_vars

\* The host's own threads run, and a write that blocks ends with
\* SESSION_IO_TIMEOUT at the latest; the interface need not poll, the viewer
\* need not read or answer.  The writer lock is free while the capture thread
\* grabs a frame or sleeps out CAPTURE_INTERVAL, so a thread that waits for it
\* gets it if it is freed again and again.
FairSpec ==
  /\ Spec
  /\ WF_vars(WorkerStep) /\ WF_vars(CaptureStep) /\ WF_vars(InputStep)
  /\ SF_vars(SendRevoked) /\ SF_vars(Pong)
  /\ WF_vars(SendFrame \/ FrameTimeout)
  /\ \A t \in Threads : WF_vars(Deliver(t))

-----------------------------------------------------------------------------
(* Properties *)

Sessions == [phase : Phases,
             request : [id : {0, 1}, permissions : SUBSET Permissions],
             grant : [request : {0, 1}, session : {0, 1}, epoch : {0, 1},
                      permissions : SUBSET Permissions],
             next : 0..MaxSequence]

TypeOK ==
  /\ wpc \in WorkerPCs /\ cpc \in CapturePCs /\ ipc \in InputPCs
  /\ {running, closed, lost, backend, pending, terminal} \subseteq BOOLEAN
  /\ writer \in {"none", "capture"}
  /\ inbox \in Seq(InputMessages \cup OtherMessages)
  /\ session \in Sessions
  /\ held \subseteq Sources /\ pressed \subseteq Sources /\ stuck \subseteq Sources
  /\ injected \in Seq(InputMessages)
  /\ commands \in Seq(Refusals \cup Approvals)
  /\ ui \in {"open", "gone"}
  /\ consent \in {"none", "deny"} \cup Approvals
  /\ events \in Seq(Event) /\ Len(events) <= EventCapacity
  /\ out \in [Threads -> Event \cup {NoEvent}]
  /\ told \in Nat
  /\ viewer \in [sent : Nat, next : Nat]

\* "Frame capture does not begin, and input is not applied, before local
\* approval" (docs/ARCHITECTURE.md:187): the screen is captured only after the
\* user allowed this request; an input is injected, or permission to inject is
\* granted, only after the user allowed control and the viewer had asked for it.
ConsentFirst ==
  /\ cpc # "none" => consent \in Approvals
  /\ injected # <<>> => consent = "approveControl" /\ RequestedControl
  /\ session.phase = "Active" =>
        /\ session.grant.permissions \subseteq session.request.permissions
        /\ CanControl(session.grant.permissions) => consent = "approveControl"

\* The injected inputs are the viewer's, from the first, without a gap.
InputsInOrder ==
  \A i \in 1..Len(injected) : injected[i].sequence = i - 1 /\ injected[i].session = 1

\* "Pressed keys and mouse buttons are released when the session closes"
\* (docs/ARCHITECTURE.md:190), however it ends: the release of each was tried,
\* and only those the backend refused to release are left down, which nothing
\* tries again (network.rs:822-835).  And a worker that ended by its main loop
\* leaves nothing behind: both threads are joined, the channel closed.
CleanEnd ==
  /\ ipc \in {"stop", "close", "done"} \/ wpc = "ended" => pressed = {} /\ held = stuck
  /\ wpc \in {"ending", "ended"} /\ ipc # "none" => cpc = "done" /\ ipc = "done" /\ closed

\* The interface is told the end of a session once, whichever threads find it
\* first, and nothing of the session comes after it.
OneTerminalEvent ==
  /\ told <= 1
  /\ \A i \in 1..Len(events) : events[i] \in Terminal => i = Len(events) /\ told = 0

\* A started session never waits for the interface to take its events: the
\* bounded channel always has room, so no report delays the release of pressed
\* keys or the end of the threads.
EventsNeverBlock ==
  session.phase = "Active" => \A t \in Threads :
     out[t] # NoEvent => ui = "gone" \/ Len(events) < EventCapacity

\* A session whose interface is gone, by Stop or because it was told the end,
\* leaves no thread behind and no open channel.  A worker whose input thread
\* could not be started returns without a word to the capture thread: what
\* becomes of that one is the subject of SharingEnds.
DroppedSessionEnds ==
  (ui = "gone") ~> /\ wpc = "ended" /\ ipc \in {"none", "done"}
                   /\ \/ cpc \in {"none", "done"} /\ closed
                      \/ cpc # "none" /\ ipc = "none"

\* "The screen is shared while the session indicator remains active"
\* (README.md:193): no thread captures for a session whose indicator is gone.
SharingEnds == (ui = "gone") ~> cpc \in {"none", "done"}

=============================================================================
