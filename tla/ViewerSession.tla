--------------------------- MODULE ViewerSession ---------------------------
(***************************************************************************)
(* A viewer's session in apps/rustview-desktop/src/network.rs: the worker  *)
(* thread (viewer_worker), the receive thread (spawn_viewer_receive_loop)  *)
(* and the event sink, with the part of the user interface (app.rs) that   *)
(* feeds them inputs, polls their events and stops them, and the host at   *)
(* the other end of the encrypted channel.                                 *)
(*                                                                         *)
(* As in HostSession the channel is what the threads see of it: messages   *)
(* received and sent, whether it is closed, and whether the connection is  *)
(* lost.  A send or a receive that is blocked is one that has not happened *)
(* yet; every timeout may run out at any moment.  Frames are the business  *)
(* of FrameTransport: here they are messages that need no answer.          *)
(***************************************************************************)
EXTENDS SessionRules, Sequences, FiniteSets, SequencesExt

CONSTANTS GrantSets,     \* permission sets a host may grant
          UserFrames,    \* what the user does between two repaints
          MaxInputs,     \* bound: a repaint adds inputs to fewer than so many
          MaxMessages    \* bound: messages of the host after its grant

ASSUME GrantSetsAreSets == GrantSets \subseteq SUBSET Permissions
ASSUME BoundsAreNat == MaxInputs \in Nat /\ MaxMessages \in Nat

VARIABLES
  wpc,        \* worker thread
  rpc,        \* receive thread
  running,    \* the flag the two threads share
  closed,     \* the channel was shut down, or its last clone dropped
  lost,       \* the connection is gone
  inbox,      \* messages received and not yet read
  received,   \* messages the host has sent since its grant
  session,    \* SessionState
  sequence,   \* sequence number of the next input
  sent,       \* inputs sent, in order
  goodbye,    \* Disconnect(Normal) was sent
  commands,   \* commands from the user interface
  asked,      \* request_control
  ui,         \* the interface holds the Worker, or has dropped it
  enabled,    \* control_enabled
  down,       \* remote_keys and remote_buttons, as they were pressed
  modifier,   \* remote_modifiers: shift
  focus,      \* of the window and of the canvas at the last repaint
  made,       \* inputs the interface has queued, in order
  events,     \* the bounded event channel
  out,        \* the event each thread is about to put there
  terminal,   \* terminal_emitted
  told        \* terminal events the interface has received

channel == <<closed, lost, inbox, received>>
control == <<session, sequence, sent, goodbye>>
capture == <<down, modifier, focus, made>>
interface == <<commands, asked, ui, enabled, capture, told>>
eventing == <<events, out, terminal>>
vars == <<wpc, rpc, running, closed, lost, inbox, received, session, sequence, sent,
          goodbye, commands, asked, ui, enabled, down, modifier, focus, made, events, out,
          terminal, told>>

Threads == {"worker", "receiver"}
SetupPCs == {"claim", "handshake", "grant"}
AwaitPCs == {"awaitClaim", "awaitHandshake", "awaitGrant"}
WorkerPCs == SetupPCs \cup AwaitPCs \cup {"connect", "request", "spawn", "run", "poll", "input",
               "keepalive", "ping", "goodbye", "stop", "shutdown", "join", "ending", "ended"}
ReceiverPCs == {"none", "loop", "recv", "pong", "clear", "close", "done"}

Terminal == {"stopped", "error"}
Event == {"status", "active"} \cup Terminal
NoEvent == "none"
EventCapacity == 4

Init ==
  /\ wpc = "connect" /\ rpc = "none"
  /\ running = FALSE
  /\ closed = FALSE /\ lost = FALSE /\ inbox = <<>> /\ received = 0
  /\ session = NewSession /\ sequence = 0 /\ sent = <<>> /\ goodbye = FALSE
  /\ commands = <<>> /\ asked \in BOOLEAN
  /\ ui = "open" /\ enabled = FALSE /\ made = <<>> /\ told = 0
  /\ down = <<>> /\ modifier = FALSE /\ focus = [window |-> TRUE, canvas |-> FALSE]
  /\ events = <<>>
  /\ out = [t \in Threads |-> IF t = "worker" THEN "status" ELSE NoEvent]
  /\ terminal = FALSE

-----------------------------------------------------------------------------
(* EventSink *)

\* Mutant: the flag is read but not taken.
MEmitted(t, event) == out' = [out EXCEPT ![t] = event] /\ UNCHANGED terminal

\* emit decides: only the first terminal event of a worker goes on.
Emitted(t, event) ==
  IF event \in Terminal
  THEN /\ terminal' = TRUE
       /\ out' = IF terminal THEN out ELSE [out EXCEPT ![t] = event]
  ELSE out' = [out EXCEPT ![t] = event] /\ UNCHANGED terminal

Ready(t) == out[t] = NoEvent

\* The blocking send of the bounded channel; it fails at once when the
\* interface has dropped the receiver.
Deliver(t) ==
  /\ out[t] # NoEvent
  /\ \/ /\ ui = "gone"
        /\ UNCHANGED events
     \/ /\ ui = "open"
        /\ Len(events) < EventCapacity
        /\ events' = Append(events, out[t])
  /\ out' = [out EXCEPT ![t] = NoEvent]
  /\ UNCHANGED <<wpc, rpc, running, channel, control, interface, terminal>>

-----------------------------------------------------------------------------
(* The worker up to the grant *)

\* The worker returns: its result is a terminal event, and the channel closes
\* with its last clone, unless the receive thread has one.
WorkerReturns(event) ==
  /\ wpc' = "ending"
  /\ closed' = (closed \/ rpc \in {"none", "done"})
  /\ Emitted("worker", event)

Connect ==
  /\ wpc = "connect" /\ Ready("worker")
  /\ \/ /\ ~lost
        /\ wpc' = "claim"
        /\ UNCHANGED <<closed, out, terminal>>
     \/ WorkerReturns("error")
  /\ UNCHANGED <<rpc, running, lost, inbox, received, control, interface, events>>

\* poll_cancellable: every queued command is drained first; Stop, or the loss
\* of the interface, cancels the wait.  Then the result is awaited for one
\* interval.
Cancelled == "stop" \in ToSet(commands) \/ ui = "gone"

Awaiting == [claim |-> "awaitClaim", handshake |-> "awaitHandshake", grant |-> "awaitGrant"]

DrainCommands ==
  /\ wpc \in SetupPCs /\ Ready("worker")
  /\ commands' = <<>>
  /\ IF Cancelled
     THEN WorkerReturns("stopped")
     ELSE wpc' = Awaiting[wpc] /\ UNCHANGED <<closed, out, terminal>>
  /\ UNCHANGED <<rpc, running, lost, inbox, received, control, asked, ui, enabled,
                 capture, told, events>>

PollAgain ==
  /\ \E pc \in SetupPCs : Awaiting[pc] = wpc /\ wpc' = pc
  /\ UNCHANGED <<rpc, running, channel, control, interface, eventing>>

\* A timeout, a lost connection, an answer of the relay that is not
\* ClaimAccepted or a failed handshake; the host's refusal is a Disconnect.
FailSetup ==
  /\ wpc \in SetupPCs \cup AwaitPCs /\ Ready("worker")
  /\ \E event \in IF wpc = "awaitGrant" THEN Terminal ELSE {"error"} : WorkerReturns(event)
  /\ UNCHANGED <<rpc, running, lost, inbox, received, control, interface, events>>

AdvanceSetup ==
  /\ ~lost
  /\ \/ /\ wpc = "awaitClaim"
        /\ wpc' = "handshake"
        /\ Emitted("worker", "status")
     \/ /\ wpc = "awaitHandshake"
        /\ wpc' = "request"
        /\ UNCHANGED <<out, terminal>>
  /\ UNCHANGED <<rpc, running, channel, control, interface, events>>

Request == [id |-> 1, permissions |-> IF asked THEN ViewAndControl ELSE ViewOnly]

SendRequest ==
  /\ wpc = "request"
  /\ MayRegister(session, Request)
  /\ session' = Registered(session, Request)
  /\ \/ /\ ~lost
        /\ wpc' = "grant"
        /\ Emitted("worker", "status")
        /\ UNCHANGED closed
     \/ WorkerReturns("error")
  /\ UNCHANGED <<rpc, running, lost, inbox, received, sequence, sent, goodbye, interface,
                 events>>

\* A grant that is not for the request, or for more than it, is an error.
ReceiveGrant ==
  /\ wpc = "awaitGrant"
  /\ ~lost
  /\ \E id \in {1, 2}, permissions \in GrantSets :
        LET grant == [request |-> id, session |-> 1, epoch |-> 1, permissions |-> permissions]
        IN  \/ /\ MayActivate(session, grant)
               /\ session' = Activated(session, grant)
               /\ wpc' = "spawn"
               /\ Emitted("worker", "active")
               /\ UNCHANGED closed
            \/ /\ ~MayActivate(session, grant)
               /\ WorkerReturns("error")
               /\ UNCHANGED session
  /\ UNCHANGED <<rpc, running, lost, inbox, received, sequence, sent, goodbye, interface,
                 events>>

SpawnReceiver ==
  /\ wpc = "spawn" /\ Ready("worker")
  /\ \/ /\ rpc' = "loop"
        /\ running' = TRUE
        /\ wpc' = "run"
        /\ UNCHANGED <<closed, out, terminal>>
     \/ /\ WorkerReturns("error")
        /\ UNCHANGED <<rpc, running>>
  /\ UNCHANGED <<lost, inbox, received, control, interface, events>>

-----------------------------------------------------------------------------
(* The worker's main loop *)

Granted == session.grant.permissions
Permitted(event) == RequiredPermission(event) \in Granted

\* A failing send closes the channel, or has found it closed; `?` then returns
\* without a word to the receive thread.
SendFails ==
  /\ closed' = TRUE
  /\ wpc' = "ending"
  /\ Emitted("worker", "error")

CheckRunning ==
  /\ wpc = "run"
  /\ wpc' = IF running THEN "poll" ELSE "stop"
  /\ UNCHANGED <<rpc, running, channel, control, interface, eventing>>

\* recv_timeout: an input that the grant allows stays at the head of the queue
\* until it is sent, as nobody else reads the queue.
TakeCommand ==
  /\ wpc = "poll"
  /\ commands # <<>>
  /\ \/ /\ Head(commands) = "stop"
        /\ wpc' = "goodbye"
        /\ commands' = Tail(commands)
     \/ /\ Head(commands) # "stop" /\ Permitted(Head(commands))
        /\ wpc' = "input"
        /\ UNCHANGED commands
  /\ UNCHANGED <<rpc, running, channel, control, asked, ui, enabled, capture, told,
                 eventing>>

\* Mutant: an input that is not allowed uses up a sequence number.
MDiscardInput ==
  /\ wpc = "poll"
  /\ commands # <<>>
  /\ Head(commands) # "stop" /\ ~Permitted(Head(commands))
  /\ sequence < MaxSequence
  /\ sequence' = sequence + 1
  /\ wpc' = "keepalive"
  /\ commands' = Tail(commands)
  /\ UNCHANGED <<rpc, running, channel, session, sent, goodbye, asked, ui, enabled,
                 capture, told, eventing>>

DiscardInput ==
  /\ wpc = "poll"
  /\ commands # <<>>
  /\ Head(commands) # "stop" /\ ~Permitted(Head(commands))
  /\ wpc' = "keepalive"
  /\ commands' = Tail(commands)
  /\ UNCHANGED <<rpc, running, channel, control, asked, ui, enabled, capture, told,
                 eventing>>

\* Nothing came within COMMAND_POLL_INTERVAL, or nobody is there any more.
PollEnds ==
  /\ wpc = "poll"
  /\ commands = <<>>
  /\ wpc' = IF ui = "gone" THEN "stop" ELSE "keepalive"
  /\ UNCHANGED <<rpc, running, channel, control, interface, eventing>>

Exhausted == sequence = MaxSequence

InputOf(event) == [session |-> session.grant.session, epoch |-> session.grant.epoch,
                   sequence |-> sequence, event |-> event]

\* After the input of the last sequence number the worker returns with the
\* channel open.
SendInput ==
  /\ wpc = "input"
  /\ ~closed /\ ~lost
  /\ sent' = Append(sent, InputOf(Head(commands)))
  /\ commands' = Tail(commands)
  /\ IF Exhausted
     THEN WorkerReturns("error") /\ UNCHANGED sequence
     ELSE /\ sequence' = sequence + 1
          /\ wpc' = "keepalive"
          /\ UNCHANGED <<closed, out, terminal>>
  /\ UNCHANGED <<rpc, running, lost, inbox, received, session, goodbye, asked, ui, enabled,
                 capture, told, events>>

FailInput ==
  /\ wpc = "input"
  /\ SendFails
  /\ UNCHANGED <<rpc, running, lost, inbox, received, control, interface, events>>

\* A Ping is due every KEEPALIVE_INTERVAL.
Keepalive ==
  /\ wpc = "keepalive"
  /\ wpc' \in {"run", "ping"}
  /\ UNCHANGED <<rpc, running, channel, control, interface, eventing>>

SendPing ==
  /\ wpc = "ping"
  /\ ~closed /\ ~lost
  /\ wpc' = "run"
  /\ UNCHANGED <<rpc, running, channel, control, interface, eventing>>

FailPing ==
  /\ wpc = "ping"
  /\ SendFails
  /\ UNCHANGED <<rpc, running, lost, inbox, received, control, interface, events>>

\* The result of the Disconnect is ignored.
SayGoodbye ==
  /\ wpc = "goodbye"
  /\ \/ ~closed /\ ~lost /\ goodbye' = TRUE /\ UNCHANGED closed
     \/ closed' = TRUE /\ UNCHANGED goodbye
  /\ wpc' = "stop"
  /\ UNCHANGED <<rpc, running, lost, inbox, received, session, sequence, sent, interface,
                 eventing>>

ClearRunning ==
  /\ wpc = "stop"
  /\ running' = FALSE
  /\ wpc' = "shutdown"
  /\ UNCHANGED <<rpc, channel, control, interface, eventing>>

\* Mutant: the channel is left to the host to close.
MShutdownChannel ==
  /\ wpc = "shutdown"
  /\ wpc' = "join"
  /\ UNCHANGED <<rpc, running, channel, control, interface, eventing>>

ShutdownChannel ==
  /\ wpc = "shutdown"
  /\ closed' = TRUE
  /\ wpc' = "join"
  /\ UNCHANGED <<rpc, running, lost, inbox, received, control, interface, eventing>>

JoinReceiver ==
  /\ wpc = "join"
  /\ rpc = "done"
  /\ WorkerReturns("stopped")
  /\ UNCHANGED <<rpc, running, lost, inbox, received, control, interface, events>>

\* The closure of spawn_worker returns after its event was delivered.
WorkerEnds ==
  /\ wpc = "ending" /\ Ready("worker")
  /\ wpc' = "ended"
  /\ UNCHANGED <<rpc, running, channel, control, interface, eventing>>

-----------------------------------------------------------------------------
(* The receive thread *)

ReceiverLoop ==
  /\ rpc = "loop"
  /\ rpc' = IF running THEN "recv" ELSE "clear"
  /\ UNCHANGED <<wpc, running, channel, control, interface, eventing>>

Receive ==
  /\ rpc = "recv"
  /\ inbox # <<>>
  /\ ~closed
  /\ inbox' = Tail(inbox)
  /\ CASE Head(inbox) = "frame" -> rpc' = "loop" /\ UNCHANGED <<out, terminal>>
       [] Head(inbox) = "ping" -> rpc' = "pong" /\ UNCHANGED <<out, terminal>>
       [] Head(inbox) = "disconnect" -> rpc' = "clear" /\ Emitted("receiver", "stopped")
       [] Head(inbox) = "bad" -> rpc' = "clear" /\ Emitted("receiver", "error")
  /\ UNCHANGED <<wpc, running, closed, lost, received, control, interface, events>>

\* recv shuts the channel down when it fails, so no error is ever reported.
FailReceive ==
  /\ rpc = "recv"
  /\ closed' = TRUE
  /\ rpc' = "clear"
  /\ UNCHANGED <<wpc, running, lost, inbox, received, control, interface, eventing>>

ReceiveCut == (closed \/ lost) /\ FailReceive
ReceiveTimeout == ~closed /\ ~lost /\ inbox = <<>> /\ FailReceive

SendPong ==
  /\ rpc = "pong"
  /\ ~closed /\ ~lost
  /\ rpc' = "loop"
  /\ UNCHANGED <<wpc, running, channel, control, interface, eventing>>

FailPong ==
  /\ rpc = "pong"
  /\ closed' = TRUE
  /\ rpc' = "clear"
  /\ Emitted("receiver", "error")
  /\ UNCHANGED <<wpc, running, lost, inbox, received, control, interface, events>>

\* Mutant: the worker is not told.
MReceiverStops ==
  /\ rpc = "clear" /\ Ready("receiver")
  /\ rpc' = "close"
  /\ UNCHANGED <<wpc, running, channel, control, interface, eventing>>

\* The end was reported, then the flag is cleared and the channel shut down.
ReceiverStops ==
  /\ rpc = "clear" /\ Ready("receiver")
  /\ running' = FALSE
  /\ rpc' = "close"
  /\ UNCHANGED <<wpc, channel, control, interface, eventing>>

ReceiverCloses ==
  /\ rpc = "close"
  /\ closed' = TRUE
  /\ rpc' = "done"
  /\ UNCHANGED <<wpc, running, lost, inbox, received, control, interface, eventing>>

-----------------------------------------------------------------------------
(* The user interface *)

\* A repaint shows the canvas with what happened since the last one: whether
\* window and canvas have the focus now, pointer movement over the canvas,
\* presses (over it, or with the focus) and releases of the button, scrolling,
\* whether shift is down now, and the key events in their order.
Frames == [window : BOOLEAN, canvas : BOOLEAN, moved : BOOLEAN,
           buttons : SUBSET {"buttonDown", "buttonUp"}, scrolled : BOOLEAN,
           shift : BOOLEAN, keys : Seq({"keyDown", "keyUp"})]
ASSUME UserFramesAreFrames == UserFrames \subseteq Frames

\* The elements of a sequence that are in a set, in their order.
Among(seq, set) ==
  LET among[i \in 0..Len(seq)] ==
        IF i = 0 THEN <<>>
        ELSE IF seq[i] \in set THEN Append(among[i - 1], seq[i]) ELSE among[i - 1]
  IN  among[Len(seq)]

\* track_transition
Tracked(seq, event) ==
  IF event \in Down /\ ~Contains(seq, Source(event)) THEN Append(seq, Source(event))
  ELSE IF event \in Up THEN Among(seq, Sources \ {Source(event)}) ELSE seq
AllTracked(seq, queue) ==
  LET tracked[i \in 0..Len(queue)] ==
        IF i = 0 THEN seq ELSE Tracked(tracked[i - 1], queue[i])
  IN  tracked[Len(queue)]

Queued(condition, event) == IF condition THEN <<event>> ELSE <<>>

\* release_remote_input: keys first, the last one pressed before the others,
\* then buttons.
Releases(held) ==
  LET UpOf(source) == CHOOSE event \in Up : Source(event) = source
      sources == Reverse(Among(held, Sources \ {"button"}))
                 \o Queued(Contains(held, "button"), "button")
  IN  [i \in DOMAIN sources |-> UpOf(sources[i])]

\* The pointer: a release is only passed on when its press was.
PointerInputs(f) ==
  LET pressed == Queued("buttonDown" \in f.buttons, "buttonDown")
      held == Contains(AllTracked(down, pressed), "button")
  IN  Queued(f.moved, "move") \o pressed
      \o Queued("buttonUp" \in f.buttons /\ held, "buttonUp") \o Queued(f.scrolled, "scroll")

Focused(f) == f.window /\ f.canvas
LosesFocus(f) == ~f.window \/ (Focused(focus) /\ ~Focused(f))

\* sync_remote_modifiers: what has changed since the last repaint.
ModifierInputs(f, before) ==
  Queued(f.shift /\ ~before, "shiftDown") \o Queued(~f.shift /\ before, "shiftUp")

\* Mutant: release_remote_input forgets remote_modifiers.
MModifierAfter(f) == IF Focused(f) THEN f.shift ELSE modifier
ModifierAfter(f) == IF Focused(f) THEN f.shift ELSE IF LosesFocus(f) THEN FALSE ELSE modifier

\* capture_remote_input, while control is enabled.
CaptureInput ==
  /\ ui = "open" /\ enabled
  /\ Len(made) < MaxInputs
  /\ \E f \in UserFrames :
        LET pointer == PointerInputs(f)
            released == IF LosesFocus(f) THEN Releases(AllTracked(down, pointer)) ELSE <<>>
            typed == IF Focused(f) THEN ModifierInputs(f, modifier) \o f.keys ELSE <<>>
            inputs == pointer \o released \o typed
        IN  /\ commands' = commands \o inputs
            /\ made' = made \o inputs
            /\ down' = AllTracked(down, inputs)
            /\ modifier' = ModifierAfter(f)
            /\ focus' = [window |-> f.window, canvas |-> f.canvas]
  /\ UNCHANGED <<wpc, rpc, running, channel, control, asked, ui, enabled, told, eventing>>

\* Mutant: Stop overtakes the releases.
MFarewell == <<"stop">> \o Releases(down)
Farewell == Releases(down) \o <<"stop">>

\* stop_viewer: what is held is released, then the Worker is dropped.
StopViewer(queue) ==
  /\ commands' = commands \o queue
  /\ made' = made \o Releases(down)
  /\ ui' = "gone" /\ enabled' = FALSE
  /\ down' = <<>> /\ modifier' = FALSE /\ focus' = [focus EXCEPT !.canvas = FALSE]

PressStop ==
  /\ ui = "open"
  /\ StopViewer(Farewell)
  /\ events' = <<>>
  /\ UNCHANGED <<wpc, rpc, running, channel, control, asked, told, out, terminal>>

\* poll_workers takes every event.
Poll ==
  /\ ui = "open"
  /\ events # <<>>
  /\ events' = <<>>
  /\ told' = told + Cardinality({i \in DOMAIN events : events[i] \in Terminal})
  /\ IF ToSet(events) \cap Terminal # {}
     THEN StopViewer(Releases(down))
     ELSE /\ enabled' = (IF "active" \in ToSet(events) THEN CanControl(Granted) ELSE enabled)
          /\ UNCHANGED <<commands, ui, capture>>
  /\ UNCHANGED <<wpc, rpc, running, channel, control, asked, out, terminal>>

-----------------------------------------------------------------------------
(* The host and the network *)

\* Frames, Pings, a Disconnect, and messages a viewer rejects.
HostSends ==
  /\ session.phase = "Active"
  /\ received < MaxMessages /\ ~closed /\ ~lost
  /\ \E m \in {"frame", "ping", "disconnect", "bad"} : inbox' = Append(inbox, m)
  /\ received' = received + 1
  /\ UNCHANGED <<wpc, rpc, running, closed, lost, control, interface, eventing>>

LoseConnection ==
  /\ ~lost
  /\ lost' = TRUE
  /\ UNCHANGED <<wpc, rpc, running, closed, inbox, received, control, interface, eventing>>

-----------------------------------------------------------------------------
\* What the worker does by itself, timeouts included.
WorkerStep ==
  \/ Connect \/ DrainCommands \/ PollAgain \/ FailSetup \/ SendRequest \/ SpawnReceiver
  \/ CheckRunning \/ TakeCommand \/ DiscardInput \/ PollEnds \/ SendInput \/ FailInput
  \/ Keepalive \/ SendPing \/ FailPing \/ SayGoodbye \/ ClearRunning \/ ShutdownChannel
  \/ JoinReceiver \/ WorkerEnds
ReceiverStep ==
  \/ ReceiverLoop \/ Receive \/ ReceiveCut \/ SendPong \/ FailPong \/ ReceiverStops
  \/ ReceiverCloses

Next ==
  \/ WorkerStep \/ AdvanceSetup \/ ReceiveGrant
  \/ ReceiverStep \/ ReceiveTimeout
  \/ \E t \in Threads : Deliver(t)
  \/ CaptureInput \/ PressStop \/ Poll
  \/ HostSends \/ LoseConnection

Spec == Init /\ [][Next]_vars

\* The viewer's threads run, the interface polls, and the clocks of the setup
\* and of a blocked write run out.  That a read of the session times out is not
\* relied upon, nor that the host sends anything.
FairSpec ==
  /\ Spec
  /\ WF_vars(FailSetup)
  /\ WF_vars(WorkerStep) /\ WF_vars(ReceiverStep) /\ WF_vars(Poll)
  /\ \A t \in Threads : WF_vars(Deliver(t))

-----------------------------------------------------------------------------
(* Properties *)

Sessions == [phase : Phases,
             request : [id : {0, 1}, permissions : SUBSET Permissions],
             grant : [request : {0, 1}, session : {0, 1}, epoch : {0, 1},
                      permissions : SUBSET Permissions],
             next : 0..MaxSequence]

TypeOK ==
  /\ wpc \in WorkerPCs /\ rpc \in ReceiverPCs
  /\ {running, closed, lost, goodbye, asked, enabled, terminal} \subseteq BOOLEAN
  /\ inbox \in Seq({"frame", "ping", "disconnect", "bad"})
  /\ received \in 0..MaxMessages
  /\ session \in Sessions
  /\ sequence \in 0..MaxSequence
  /\ commands \in Seq(InputEvents \cup {"stop"}) /\ made \in Seq(InputEvents)
  /\ ui \in {"open", "gone"} /\ down \in Seq(Sources)
  /\ modifier \in BOOLEAN /\ focus \in [window : BOOLEAN, canvas : BOOLEAN]
  /\ events \in Seq(Event) /\ Len(events) <= EventCapacity
  /\ out \in [Threads -> Event \cup {NoEvent}]
  /\ told \in Nat

SentEvents == [i \in 1..Len(sent) |-> sent[i].event]

\* The host's session would authorize every input it is sent, and the inputs
\* are the user's, in order and none left out, but for those the grant does not
\* allow.  (The host refuses the very last sequence number.)  No grant makes a
\* viewer that asked to look offer control or send inputs.
InputsExact ==
  /\ \A i \in 1..Len(sent) :
        \/ MayAuthorize([session EXCEPT !.next = i - 1], sent[i])
        \/ i - 1 = MaxSequence
  /\ IsPrefix(SentEvents, Among(made, {event \in InputEvents : Permitted(event)}))
  /\ enabled \/ sent # <<>> => asked

\* What inputs hold down at the host.
HeldBy(inputs) ==
  LET heldBy[i \in 0..Len(inputs)] ==
        IF i = 0 THEN {} ELSE HeldAfter(heldBy[i - 1], inputs[i])
  IN  heldBy[Len(inputs)]

\* "Release of synthetic input on disconnect, stop, and viewer focus loss"
\* (docs/ROADMAP.md:70): a viewer that takes its leave has released everything
\* before its Disconnect; a canvas without the focus holds no key and no
\* modifier, a window without it no button either, and the two records of a
\* modifier agree, so that one that is held when the focus returns is sent again.
HeldInputReleased ==
  /\ goodbye => HeldBy(SentEvents) = {}
  /\ ~Focused(focus) => HeldBy(made) \subseteq {"button"}
  /\ ~focus.window => HeldBy(made) = {}
  /\ modifier <=> "shift" \in HeldBy(made)

\* The interface is told the end once, and a worker does not end without
\* telling it.
ReportedOnce ==
  LET reports == {i \in DOMAIN events : events[i] \in Terminal}
      coming == {t \in Threads : out[t] \in Terminal}
  IN  /\ told + Cardinality(reports) + Cardinality(coming) <= 1
      /\ wpc = "ended" /\ ui = "open" => reports # {} \/ coming # {}

\* A viewer that was stopped, or was told the end, leaves no thread behind: not
\* even where `?` returns without telling the receive thread.  Only the worker
\* that returns after the input of the last sequence number leaves its receive
\* thread to the host.
DroppedViewerEnds ==
  (ui = "gone") ~> /\ wpc = "ended"
                   /\ \/ rpc \in {"none", "done"} /\ closed
                      \/ Len(sent) > MaxSequence

\* The interface learns of a lost connection and of the host's Disconnect.
LossIsReported ==
  lost \/ rpc = "clear" ~> ui = "gone"

=============================================================================
