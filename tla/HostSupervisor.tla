--------------------------- MODULE HostSupervisor ---------------------------
(***************************************************************************)
(* How apps/rustview-desktop/src/app.rs keeps this device reachable: it    *)
(* starts a host worker, takes its events, restarts it after an error, the *)
(* end of a session, a new password or a new relay address, and passes the *)
(* user's answer on to it.  A dropped worker runs on until it notices, and *)
(* the relay knows its registration until it notices in turn.              *)
(*                                                                         *)
(* A worker is HostSession reduced to its phases and to the events the     *)
(* supervisor acts on; the relay is Relay reduced to which worker holds    *)
(* which route.  Time is abstract: a retry may come due at any moment.     *)
(***************************************************************************)
EXTENDS Naturals, Sequences, FiniteSets

CONSTANTS Workers,      \* worker threads; the identifier of one that is over
                        \* and forgotten is used again
          NoWorker,
          MaxPresses,   \* bound: times the user restarts the host
          MaxFaults     \* bound: failures of the network, the OS or a worker

ASSUME NoWorkerIsNone == NoWorker \notin Workers
ASSUME BoundsAreNat == MaxPresses \in Nat /\ MaxFaults \in Nat

VARIABLES
  app,       \* what the interface knows of the host
  place,     \* route and relay address the interface offers this device at
  known,     \* device id and password exist
  phase,     \* of each worker
  placeOf,   \* route and relay address each worker was started with
  events,    \* each worker's event channel
  batch,     \* events that poll_workers has taken and not yet handled
  answer,    \* each worker's command channel, as far as Approve and Deny go
  holds,     \* workers whose registration the relay knows
  presses,
  faults

workers == <<phase, placeOf, events, answer, holds>>
vars == <<app, place, known, phase, placeOf, events, batch, answer, holds, presses, faults>>

Phases == {"connecting", "waiting", "pairing", "asking", "active", "ended", "panicked"}
Over == {"ended", "panicked"}
Events == {"waiting", "request", "active", "stopped", "error"}

\* host_worker, host_retry_at (the delay it was set for, in seconds, or 0),
\* host_retry_attempt, pending_peer and host_session_active.
Apps == [worker : Workers \cup {NoWorker}, retry : {0, 1, 2, 4, 8, 16}, attempt : 0..3,
         pending : BOOLEAN, active : BOOLEAN]

-----------------------------------------------------------------------------
(* The functions of RustViewApp, on the interface's state a *)

\* host_retry_delay doubles; more attempts than three make no difference to it.
RetryDelay(attempt) == <<2, 4, 8, 16>>[attempt + 1]
Saturated(attempt) == IF attempt < 3 THEN attempt + 1 ELSE 3

\* Mutant: a request outlives the worker that made it.
MCleared(a) == [a EXCEPT !.worker = NoWorker, !.active = FALSE]
Cleared(a) == [a EXCEPT !.worker = NoWorker, !.pending = FALSE, !.active = FALSE]

\* Mutant: after three errors in a row the host is given up.
MRescheduled(a, afterError) ==
  IF afterError
  THEN [Cleared(a) EXCEPT !.retry = IF a.attempt < 3 THEN RetryDelay(a.attempt) ELSE 0,
                          !.attempt = Saturated(a.attempt)]
  ELSE [Cleared(a) EXCEPT !.retry = 1, !.attempt = 0]
\* schedule_host_restart
Rescheduled(a, afterError) ==
  IF afterError
  THEN [Cleared(a) EXCEPT !.retry = RetryDelay(a.attempt), !.attempt = Saturated(a.attempt)]
  ELSE [Cleared(a) EXCEPT !.retry = 1, !.attempt = 0]

\* Mutant: the end of a session schedules nothing.
MHandled(a, event) ==
  CASE event = "waiting" -> [a EXCEPT !.attempt = 0]
    [] event = "request" -> [a EXCEPT !.pending = TRUE]
    [] event = "active"  -> [a EXCEPT !.pending = FALSE, !.active = TRUE, !.attempt = 0]
    [] event = "stopped" -> Cleared(a)
    [] event = "error"   -> Rescheduled(a, TRUE)

\* poll_workers, for one event
Handled(a, event) ==
  CASE event = "waiting" -> [a EXCEPT !.attempt = 0]
    [] event = "request" -> [a EXCEPT !.pending = TRUE]
    [] event = "active"  -> [a EXCEPT !.pending = FALSE, !.active = TRUE, !.attempt = 0]
    [] event = "stopped" -> Rescheduled(a, FALSE)
    [] event = "error"   -> Rescheduled(a, TRUE)

-----------------------------------------------------------------------------
(* The worker threads *)

Live(w) == phase[w] \notin Over
Dropped(w) == app.worker # w
Credentials(k) == k.id /\ k.password

Becomes(w, next) == phase' = [phase EXCEPT ![w] = next]
\* An event reaches the interface unless it has dropped the receiver.
Emits(w, event) ==
  events' = IF Dropped(w) THEN events ELSE [events EXCEPT ![w] = Append(@, event)]
Ends(w, event) == Becomes(w, "ended") /\ Emits(w, event)

Held(p) == \E w \in holds : placeOf[w] = p

Register(w) ==
  /\ phase[w] = "connecting"
  /\ \/ /\ ~Held(placeOf[w])
        /\ holds' = holds \cup {w}
        /\ Becomes(w, "waiting") /\ Emits(w, "waiting")
     \/ /\ Held(placeOf[w])     \* Busy, also if the holder is this device's last worker
        /\ Ends(w, "error")
        /\ UNCHANGED holds
  /\ UNCHANGED <<app, batch, place, known, placeOf, answer, presses, faults>>

\* A viewer's claim spends the registration.
Match(w) ==
  /\ phase[w] = "waiting" /\ w \in holds
  /\ holds' = holds \ {w}
  /\ Becomes(w, "pairing")
  /\ UNCHANGED <<app, batch, place, known, placeOf, events, answer, presses, faults>>

\* The lifetime of the registration ran out, or the relay lost it.
Expire(w) ==
  /\ phase[w] = "waiting"
  /\ holds' = holds \ {w}
  /\ Ends(w, "error")
  /\ UNCHANGED <<app, batch, place, known, placeOf, answer, presses, faults>>
Lost(w) == w \notin holds /\ Expire(w)

Ask(w) ==
  /\ phase[w] = "pairing"
  /\ Becomes(w, "asking") /\ Emits(w, "request")
  /\ UNCHANGED <<app, batch, place, known, placeOf, answer, holds, presses, faults>>

TakeAnswer(w) ==
  /\ phase[w] = "asking"
  /\ \/ answer[w] = "approve" /\ Becomes(w, "active") /\ Emits(w, "active")
     \/ answer[w] = "deny" /\ Ends(w, "stopped")
  /\ UNCHANGED <<app, batch, place, known, placeOf, answer, holds, presses, faults>>

\* APPROVAL_TIMEOUT
NoAnswer(w) ==
  /\ phase[w] = "asking"
  /\ Ends(w, "stopped")
  /\ UNCHANGED <<app, batch, place, known, placeOf, answer, holds, presses, faults>>

\* Mutant: only a worker that asks its user looks at its command channel.
MCancel(w) ==
  /\ Live(w) /\ Dropped(w)
  /\ phase[w] = "asking" /\ answer[w] = "none"
  /\ Ends(w, "stopped")
  /\ UNCHANGED <<app, batch, place, known, placeOf, answer, holds, presses, faults>>
\* Stop, or the loss of the interface, is read after an answer that came first.
Cancel(w) ==
  /\ Live(w) /\ Dropped(w)
  /\ phase[w] = "asking" => answer[w] = "none"
  /\ Ends(w, "stopped")
  /\ UNCHANGED <<app, batch, place, known, placeOf, answer, holds, presses, faults>>

\* The viewer leaves, or does what ends a handshake or a session.
ViewerEnds(w) ==
  /\ phase[w] \in {"pairing", "active"}
  /\ \E event \in {"stopped", "error"} : Ends(w, event)
  /\ UNCHANGED <<app, batch, place, known, placeOf, answer, holds, presses, faults>>

\* The network or the machine lets the worker down; a worker that panics drops
\* its event channel without a word.
Fail(w) ==
  /\ Live(w) /\ faults < MaxFaults
  /\ faults' = faults + 1
  /\ \/ Ends(w, "error")
     \/ Becomes(w, "panicked") /\ UNCHANGED events
  /\ UNCHANGED <<app, batch, place, known, placeOf, answer, holds, presses>>

-----------------------------------------------------------------------------
(* The relay *)

\* It notices within HOST_LIVENESS_POLL_INTERVAL that a waiting host is gone.
Release(w) ==
  /\ w \in holds /\ ~Live(w)
  /\ holds' = holds \ {w}
  /\ UNCHANGED <<app, batch, place, known, phase, placeOf, events, answer, presses, faults>>

RelayRestarts ==
  /\ faults < MaxFaults
  /\ faults' = faults + 1
  /\ holds' = {}
  /\ UNCHANGED <<app, batch, place, known, phase, placeOf, events, answer, presses>>

-----------------------------------------------------------------------------
(* The interface *)

Free(w) == ~Live(w) /\ Dropped(w) /\ w \notin holds

\* start_host_now, from the state a: without an id and a password nothing is
\* started, and nothing is scheduled; a worker that cannot be started is.
StartHost(a, credentials, at) ==
  LET idle == [Cleared(a) EXCEPT !.retry = 0] IN
  \/ /\ ~Credentials(credentials)
     /\ app' = idle
     /\ UNCHANGED <<workers, faults>>
  \/ /\ Credentials(credentials)
     /\ faults < MaxFaults
     /\ faults' = faults + 1
     /\ app' = Rescheduled(idle, TRUE)
     /\ UNCHANGED workers
  \/ /\ Credentials(credentials)
     /\ \E w \in Workers :
           /\ Free(w)
           /\ app' = [idle EXCEPT !.worker = w]
           /\ phase' = [phase EXCEPT ![w] = "connecting"]
           /\ placeOf' = [placeOf EXCEPT ![w] = at]
           /\ events' = [events EXCEPT ![w] = <<>>]
           /\ answer' = [answer EXCEPT ![w] = "none"]
     /\ UNCHANGED <<holds, faults>>

\* poll_workers: every event of the worker is taken, ...
Poll ==
  /\ batch = <<>>
  /\ app.worker # NoWorker
  /\ events[app.worker] # <<>>
  /\ batch' = events[app.worker]
  /\ events' = [events EXCEPT ![app.worker] = <<>>]
  /\ UNCHANGED <<app, place, known, phase, placeOf, answer, holds, presses, faults>>

\* ... each is handled, ...
HandleEvent ==
  /\ batch # <<>>
  /\ app' = Handled(app, Head(batch))
  /\ batch' = Tail(batch)
  /\ UNCHANGED <<workers, place, known, presses, faults>>

\* ... and without a worker, a retry that is due is made.
Retry ==
  /\ batch = <<>>
  /\ app.worker = NoWorker
  /\ app.retry # 0
  /\ StartHost(app, known, place)
  /\ UNCHANGED <<batch, place, known, presses>>

\* Mutant: the worker is told to stop, but only replaced when it says so.
MRestarted(a) == [a EXCEPT !.pending = FALSE, !.active = FALSE, !.attempt = 0]
\* restart_host_after
Restarted(a) == [Cleared(a) EXCEPT !.retry = 1, !.attempt = 0]

\* Reconnect and Retry now; Save and reconnect, perhaps with a new address.
PressRestart ==
  /\ batch = <<>>
  /\ presses < MaxPresses
  /\ presses' = presses + 1
  /\ app' = Restarted(app)
  /\ place' \in {place, presses'}
  /\ UNCHANGED <<workers, batch, known, faults>>

\* rotate_password: the new route is nobody else's.
PressRotate ==
  /\ batch = <<>>
  /\ presses < MaxPresses
  /\ presses' = presses + 1
  /\ known' = [known EXCEPT !.password = TRUE]
  /\ place' = presses'
  /\ StartHost([app EXCEPT !.attempt = 0], known', place')
  /\ UNCHANGED batch

\* show_incoming_request: the answer goes to whichever worker there is.
Answer ==
  /\ batch = <<>>
  /\ app.pending /\ app.worker # NoWorker
  /\ \E choice \in {"approve", "deny"} : answer' = [answer EXCEPT ![app.worker] = choice]
  /\ app' = [app EXCEPT !.pending = FALSE]
  /\ UNCHANGED <<batch, place, known, phase, placeOf, events, holds, presses, faults>>

-----------------------------------------------------------------------------
\* initialize_local_access: no password is generated without an id; with both,
\* the first worker is started.
Init ==
  /\ known \in {k \in [id : BOOLEAN, password : BOOLEAN] : k.password => k.id}
  /\ LET idle == [worker |-> NoWorker, retry |-> 0, attempt |-> 0,
                  pending |-> FALSE, active |-> FALSE]
     IN  \/ /\ app = IF Credentials(known) THEN Rescheduled(idle, TRUE) ELSE idle
            /\ phase = [w \in Workers |-> "ended"]
         \/ /\ Credentials(known)
            /\ \E first \in Workers :
                  /\ app = [idle EXCEPT !.worker = first]
                  /\ phase = [w \in Workers |-> IF w = first THEN "connecting" ELSE "ended"]
  /\ place = 0
  /\ placeOf = [w \in Workers |-> 0]
  /\ events = [w \in Workers |-> <<>>]
  /\ batch = <<>>
  /\ answer = [w \in Workers |-> "none"]
  /\ holds = {}
  /\ presses = 0 /\ faults = 0

WorkerStep(w) == Register(w) \/ Lost(w) \/ Ask(w) \/ TakeAnswer(w) \/ NoAnswer(w) \/ Cancel(w)

Next ==
  \/ \E w \in Workers : \/ WorkerStep(w) \/ Release(w)
                        \/ Match(w) \/ Expire(w) \/ ViewerEnds(w) \/ Fail(w)
  \/ RelayRestarts
  \/ Poll \/ HandleEvent \/ Retry \/ PressRestart \/ PressRotate \/ Answer

Spec == Init /\ [][Next]_vars

\* The workers' waits all have a timeout, the interface polls thirty times a
\* second, and the relay polls its waiting hosts.  Nothing is assumed of the
\* user, of viewers, or of the lifetime of a registration.
FairSpec ==
  /\ Spec
  /\ \A w \in Workers : WF_vars(WorkerStep(w)) /\ WF_vars(Release(w))
  /\ WF_vars(Poll) /\ WF_vars(HandleEvent) /\ WF_vars(Retry)

-----------------------------------------------------------------------------
(* Properties *)

TypeOK ==
  /\ app \in Apps
  /\ place \in 0..MaxPresses
  /\ known \in [id : BOOLEAN, password : BOOLEAN]
  /\ phase \in [Workers -> Phases]
  /\ placeOf \in [Workers -> 0..MaxPresses]
  /\ events \in [Workers -> Seq(Events)] /\ batch \in Seq(Events)
  /\ answer \in [Workers -> {"none", "approve", "deny"}]
  /\ holds \subseteq Workers
  /\ presses \in 0..MaxPresses /\ faults \in 0..MaxFaults

\* A device that has an id and a password is never given up: there is a worker,
\* or a retry is scheduled, whichever way the last worker ended.
NeverGivenUp == Credentials(known) => app.worker # NoWorker \/ app.retry # 0

\* "Every new request requires separate, explicit local approval"
\* (docs/ARCHITECTURE.md:128): the dialog belongs to the worker that would get
\* the answer, and no worker has an answer to a request it has not made.
AnswersItsRequest ==
  LET asked(w) == phase[w] \in {"asking", "active"} \cup Over
  IN  /\ app.pending => app.worker # NoWorker /\ asked(app.worker)
      /\ \A w \in Workers : answer[w] # "none" => asked(w)

\* The device is offered under the password and at the relay the user is shown,
\* and the indicator of a session is that of the worker in it.
OfferedAsShown ==
  app.worker # NoWorker => /\ placeOf[app.worker] = place
                           /\ app.active => phase[app.worker] \in {"active"} \cup Over

\* "The host registers again with the same ID/password during the same
\* application run" (docs/ARCHITECTURE.md:249): after faults, restarts of the
\* relay and refusals because of its own last registration, the device can be
\* reached again.  A worker that panicked is not replaced until its user asks.
Reachable(w) == \/ phase[w] = "waiting" /\ w \in holds
                \/ phase[w] \in {"pairing", "asking", "active", "panicked"}
HostReturns == []<>(Credentials(known) => app.worker # NoWorker /\ Reachable(app.worker))

\* "Regenerating the password in the UI changes both the route and PSK and
\* restarts host registration" (docs/ARCHITECTURE.md:129): what was registered
\* under the old password or at the old relay is withdrawn.
OldOfferWithdrawn ==
  \A w \in Workers : w \in holds /\ placeOf[w] # place ~> w \notin holds \/ placeOf[w] = place

=============================================================================
