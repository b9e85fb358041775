--------------------------- MODULE SupervisorProofs ---------------------------
(***************************************************************************)
(* Proofs about HostSupervisor, for any number of workers, presses and     *)
(* faults.                                                                 *)
(*                                                                         *)
(* The interface acts on events that are older than the worker's state.    *)
(* EventsInv says what an event that is still to be handled tells about    *)
(* the worker it came from, and that a worker's last word is its last.     *)
(***************************************************************************)
EXTENDS HostSupervisor, TLAPS

Terminal == {"stopped", "error"}
AskedPhases == {"asking", "active"} \cup Over
ActivePhases == {"active"} \cup Over

\* What the events s tell about the worker w they came from.
Told(s, w) ==
  \A i \in 1..Len(s) : /\ s[i] = "request" => phase[w] \in AskedPhases
                       /\ s[i] = "active" => phase[w] \in ActivePhases
                       /\ s[i] \in Terminal => phase[w] \in Over
LastWord(s) == \A i \in 1..Len(s) : s[i] \in Terminal => i = Len(s)

EventsInv ==
  /\ \A w \in Workers : Told(events[w], w) /\ LastWord(events[w])
  /\ LastWord(batch)
  /\ batch # <<>> => app.worker # NoWorker /\ Told(batch, app.worker)

SupervisorInv ==
  TypeOK /\ EventsInv /\ NeverGivenUp /\ AnswersItsRequest /\ OfferedAsShown

-----------------------------------------------------------------------------
(* The functions of the interface keep its shape *)

Timed(a, retry, attempt) == [a EXCEPT !.retry = retry, !.attempt = attempt]
Marked(a, pending, active, attempt) ==
  [a EXCEPT !.pending = pending, !.active = active, !.attempt = attempt]

\* The shape of the interface whose retry was set.
LEMMA TimedType ==
  ASSUME NEW a \in Apps, NEW retry \in {0, 1, 2, 4, 8, 16}, NEW attempt \in 0..3
  PROVE  Timed(a, retry, attempt) \in Apps /\ Timed(a, retry, attempt).retry = retry
<1>1. Timed(a, retry, attempt) \in Apps
  BY DEF Timed, Apps
<1>2. Timed(a, retry, attempt).retry = retry
  BY DEF Timed, Apps
<1> QED
  BY <1>1, <1>2

\* The shape of the interface whose marks were set.
LEMMA MarkedType ==
  ASSUME NEW a \in Apps, NEW pending \in BOOLEAN, NEW active \in BOOLEAN,
         NEW attempt \in 0..3
  PROVE  Marked(a, pending, active, attempt) \in Apps
  BY DEF Marked, Apps

\* The functions of RustViewApp keep the shape of its fields.
LEMMA FunctionTypes ==
  ASSUME NEW a \in Apps, NEW e \in Events
  PROVE  /\ Cleared(a) \in Apps /\ Restarted(a) \in Apps
         /\ [a EXCEPT !.attempt = 0] \in Apps
         /\ Rescheduled(a, TRUE) \in Apps /\ Rescheduled(a, TRUE).retry # 0
         /\ Rescheduled(a, FALSE) \in Apps /\ Rescheduled(a, FALSE).retry # 0
         /\ Handled(a, e) \in Apps
<1>1. Cleared(a) \in Apps
  BY DEF Cleared, Apps
<1>2. Restarted(a) = Timed(Cleared(a), 1, 0) /\ Rescheduled(a, FALSE) = Timed(Cleared(a), 1, 0)
  BY DEF Restarted, Rescheduled, Timed
<1>3. Rescheduled(a, TRUE)
        = Timed(Cleared(a), RetryDelay(a.attempt), Saturated(a.attempt))
  BY DEF Rescheduled, Timed
<1>4. RetryDelay(a.attempt) \in {2, 4, 8, 16} /\ Saturated(a.attempt) \in 0..3
  BY DEF RetryDelay, Saturated, Apps
<1>5. Timed(Cleared(a), 1, 0) \in Apps /\ Timed(Cleared(a), 1, 0).retry = 1
  BY <1>1, TimedType
<1>6. Rescheduled(a, TRUE) \in Apps /\ Rescheduled(a, TRUE).retry # 0
  <2>1. RetryDelay(a.attempt) \in {0, 1, 2, 4, 8, 16} /\ RetryDelay(a.attempt) # 0
    BY <1>4
  <2> DEFINE r == RetryDelay(a.attempt)
             late == Timed(Cleared(a), r, Saturated(a.attempt))
  <2>2. late \in Apps /\ late.retry = r
    BY <1>1, <1>4, <2>1, TimedType
  <2> QED
    BY <1>3, <2>1, <2>2, Zenon
<1>7. [a EXCEPT !.attempt = 0] \in Apps /\ [a EXCEPT !.pending = TRUE] \in Apps
  <2>1. [a EXCEPT !.attempt = 0] \in Apps
    BY DEF Apps
  <2>2. [a EXCEPT !.pending = TRUE] \in Apps
    BY DEF Apps
  <2> QED
    BY <2>1, <2>2
<1>8. Marked(a, FALSE, TRUE, 0) \in Apps
  <2>1. FALSE \in BOOLEAN /\ TRUE \in BOOLEAN /\ 0 \in 0..3
    OBVIOUS
  <2> QED
    BY <2>1, MarkedType, Zenon
<1>9. Handled(a, e) \in Apps
  <2>1. CASE e = "waiting"
    BY <1>7, <2>1 DEF Handled
  <2>2. CASE e = "request"
    BY <1>7, <2>2 DEF Handled
  <2>3. CASE e = "active"
    <3>1. Handled(a, e) = Marked(a, FALSE, TRUE, 0)
      BY <2>3 DEF Handled, Marked
    <3> QED
      BY <1>8, <3>1
  <2>4. CASE e = "stopped"
    BY <1>2, <1>5, <2>4 DEF Handled
  <2>5. CASE e = "error"
    BY <1>6, <2>5 DEF Handled
  <2> QED
    BY <2>1, <2>2, <2>3, <2>4, <2>5 DEF Events
<1>10. Rescheduled(a, FALSE) \in Apps /\ Rescheduled(a, FALSE).retry # 0
  <2>1. 1 # 0
    OBVIOUS
  <2> QED
    BY <1>2, <1>5, <2>1, Zenon
<1>11. Restarted(a) \in Apps
  BY <1>2, <1>5
<1> QED
  BY <1>1, <1>6, <1>7, <1>9, <1>10, <1>11

\* What they do with the worker and what they remember.
LEMMA ClearedResults ==
  ASSUME NEW a \in Apps
  PROVE  /\ Cleared(a).worker = NoWorker /\ ~Cleared(a).pending /\ ~Cleared(a).active
         /\ Restarted(a).worker = NoWorker /\ ~Restarted(a).pending
         /\ ~Restarted(a).active /\ Restarted(a).retry = 1
         /\ Rescheduled(a, TRUE).worker = NoWorker
         /\ ~Rescheduled(a, TRUE).pending /\ ~Rescheduled(a, TRUE).active
         /\ Rescheduled(a, FALSE).worker = NoWorker
         /\ ~Rescheduled(a, FALSE).pending /\ ~Rescheduled(a, FALSE).active
  BY DEF Cleared, Restarted, Rescheduled, Apps

\* An event that is not a worker's last keeps the worker.
LEMMA HandledResults ==
  ASSUME NEW a \in Apps, NEW e \in Events \ Terminal
  PROVE  /\ Handled(a, e).worker = a.worker /\ Handled(a, e).retry = a.retry
         /\ Handled(a, e).pending => a.pending \/ e = "request"
         /\ Handled(a, e).active => a.active \/ e = "active"
<1>1. CASE e = "waiting"
  <2>1. Handled(a, e) = [a EXCEPT !.attempt = 0]
    BY <1>1 DEF Handled
  <2> QED
    BY <2>1 DEF Apps
<1>2. CASE e = "request"
  <2>1. Handled(a, e) = [a EXCEPT !.pending = TRUE]
    BY <1>2 DEF Handled
  <2> QED
    BY <1>2, <2>1 DEF Apps
<1>3. CASE e = "active"
  <2>1. Handled(a, e) = [a EXCEPT !.pending = FALSE, !.active = TRUE, !.attempt = 0]
    BY <1>3 DEF Handled
  <2> QED
    BY <1>3, <2>1 DEF Apps
<1> QED
  BY <1>1, <1>2, <1>3 DEF Events, Terminal

\* The last one schedules the next.
LEMMA HandledLast ==
  ASSUME NEW a \in Apps, NEW e \in Terminal
  PROVE  /\ Handled(a, e).worker = NoWorker /\ Handled(a, e).retry # 0
         /\ ~Handled(a, e).pending /\ ~Handled(a, e).active
<1>0. "waiting" \in Events
  BY DEF Events
<1>1. CASE e = "stopped"
  <2>1. Handled(a, e) = Rescheduled(a, FALSE)
    BY <1>1 DEF Handled
  <2> QED
    BY <1>0, <2>1, FunctionTypes, ClearedResults
<1>2. CASE e = "error"
  <2>1. Handled(a, e) = Rescheduled(a, TRUE)
    BY <1>2 DEF Handled
  <2> QED
    BY <1>0, <2>1, FunctionTypes, ClearedResults
<1> QED
  BY <1>1, <1>2 DEF Terminal

-----------------------------------------------------------------------------
(* The event channels *)

\* An event is appended by a worker that is not over, and is true of the phase
\* it enters.
LEMMA AppendTold ==
  ASSUME NEW s \in Seq(Events), NEW e \in Events,
         \A i \in 1..Len(s) : s[i] \notin Terminal
  PROVE  /\ Append(s, e) \in Seq(Events)
         /\ LastWord(Append(s, e))
         /\ \A i \in 1..Len(Append(s, e)) : Append(s, e)[i] = e \/ \E j \in 1..Len(s) : Append(s, e)[i] = s[j]
<1>1. /\ Append(s, e) \in Seq(Events) /\ Len(Append(s, e)) = Len(s) + 1
      /\ \A i \in 1..Len(s) : Append(s, e)[i] = s[i]
      /\ Append(s, e)[Len(s) + 1] = e
  OBVIOUS
<1>2. \A i \in 1..Len(Append(s, e)) : i \in 1..Len(s) \/ i = Len(s) + 1
  BY <1>1
<1> QED
  BY <1>1, <1>2 DEF LastWord

\* What every step of a worker is to the interface: the worker goes on to the
\* phase next and may say so, or its registration alone changes.
Moves(w, next) ==
  /\ phase[w] \notin Over
  /\ next \in Phases
  /\ phase[w] \in AskedPhases => next \in AskedPhases
  /\ phase[w] \in ActivePhases => next \in ActivePhases
  /\ phase' = [phase EXCEPT ![w] = next]
Says(w, next) ==
  \/ events' = events
  \/ \E e \in Events : /\ e = "request" => next \in AskedPhases
                       /\ e = "active" => next \in ActivePhases
                       /\ e \in Terminal => next \in Over
                       /\ events' = [events EXCEPT ![w] = Append(events[w], e)]
WorkerMove(w) ==
  /\ UNCHANGED <<app, batch, place, known, placeOf, answer, presses>>
  /\ \/ phase' = phase /\ events' = events
     \/ \E next : Moves(w, next) /\ Says(w, next)

\* What workers, viewers and the relay do is one worker's move.
LEMMA WorkerMoves ==
  ASSUME TypeOK, NEW w \in Workers,
         \/ WorkerStep(w) \/ Release(w)
         \/ Match(w) \/ Expire(w) \/ ViewerEnds(w) \/ Fail(w)
  PROVE  WorkerMove(w) /\ holds' \subseteq Workers /\ faults' \in 0..MaxFaults
<1> USE DEF TypeOK, Moves, Says, WorkerMove, AskedPhases, ActivePhases, Over, Phases,
            Terminal, Events
<1>1. CASE Register(w)
  BY <1>1 DEF Register, Ends, Becomes, Emits
<1>2. CASE Ask(w)
  BY <1>2 DEF Ask, Becomes, Emits
<1>3. CASE TakeAnswer(w)
  BY <1>3 DEF TakeAnswer, Ends, Becomes, Emits
<1>4. CASE NoAnswer(w)
  BY <1>4 DEF NoAnswer, Ends, Becomes, Emits
<1>5. CASE Cancel(w)
  BY <1>5 DEF Cancel, Ends, Becomes, Emits, Live
<1>6. CASE Release(w)
  BY <1>6 DEF Release
<1>7. CASE Match(w)
  BY <1>7 DEF Match, Becomes
<1>8. CASE Expire(w)
  BY <1>8 DEF Expire, Ends, Becomes, Emits
<1>9. CASE ViewerEnds(w)
  BY <1>9 DEF ViewerEnds, Ends, Becomes, Emits
<1>10. CASE Fail(w)
  BY <1>10, BoundsAreNat DEF Fail, Ends, Becomes, Emits, Live
<1> QED
  BY <1>1, <1>2, <1>3, <1>4, <1>5, <1>6, <1>7, <1>8, <1>9, <1>10 DEF WorkerStep, Lost

\* A worker's step leaves what its events tell true.
LEMMA MoveKeepsEvents ==
  ASSUME TypeOK, EventsInv, NEW w \in Workers, WorkerMove(w)
  PROVE  EventsInv' /\ events' \in [Workers -> Seq(Events)] /\ phase' \in [Workers -> Phases]
<1>0. /\ app' = app /\ batch' = batch
      /\ events \in [Workers -> Seq(Events)] /\ phase \in [Workers -> Phases]
  BY DEF WorkerMove, TypeOK
<1>1. CASE phase' = phase /\ events' = events
  BY <1>0, <1>1 DEF EventsInv, Told, LastWord
<1>2. ASSUME NEW next, Moves(w, next), Says(w, next)
      PROVE  EventsInv' /\ events' \in [Workers -> Seq(Events)]
             /\ phase' \in [Workers -> Phases]
  <2>1. phase' \in [Workers -> Phases] /\ phase'[w] = next
        /\ \A v \in Workers \ {w} : phase'[v] = phase[v]
    BY <1>0, <1>2 DEF Moves
  <2>2. \A v \in Workers : /\ phase[v] \in AskedPhases => phase'[v] \in AskedPhases
                           /\ phase[v] \in ActivePhases => phase'[v] \in ActivePhases
                           /\ phase[v] \in Over => phase'[v] \in Over
    BY <1>2, <2>1 DEF Moves
  <2>4. ASSUME NEW v \in Workers, events'[v] = events[v]
        PROVE  (Told(events[v], v) /\ LastWord(events[v]))'
    <3>1. Told(events[v], v) /\ LastWord(events[v])
      BY DEF EventsInv
    <3>2. \A i \in 1..Len(events[v]) :
             /\ events[v][i] = "request" => phase'[v] \in AskedPhases
             /\ events[v][i] = "active" => phase'[v] \in ActivePhases
             /\ events[v][i] \in Terminal => phase'[v] \in Over
      BY <2>2, <3>1 DEF Told
    <3> QED
      BY <2>4, <3>1, <3>2 DEF Told, LastWord
  <2>5. batch' # <<>> => app'.worker # NoWorker /\ Told(batch, app.worker)'
    <3> SUFFICES ASSUME batch # <<>> PROVE app.worker # NoWorker /\ Told(batch, app.worker)'
      BY <1>0
    <3>1. app.worker # NoWorker /\ Told(batch, app.worker) /\ app.worker \in Workers
      BY DEF EventsInv, TypeOK, Apps
    <3> QED
      BY <1>0, <2>2, <3>1 DEF Told
  <2>6. CASE events' = events
    <3>1. \A v \in Workers : (Told(events[v], v) /\ LastWord(events[v]))'
      BY <2>4, <2>6
    <3>2. LastWord(batch)'
      BY <1>0 DEF EventsInv, LastWord
    <3> QED
      BY <1>0, <2>1, <2>5, <2>6, <3>1, <3>2 DEF EventsInv
  <2>7. ASSUME NEW e \in Events, e = "request" => next \in AskedPhases,
               e = "active" => next \in ActivePhases, e \in Terminal => next \in Over,
               events' = [events EXCEPT ![w] = Append(events[w], e)]
        PROVE  EventsInv' /\ events' \in [Workers -> Seq(Events)]
    <3>1. \A i \in 1..Len(events[w]) : events[w][i] \notin Terminal
      BY <1>2 DEF Moves, EventsInv, Told
    <3> DEFINE s == Append(events[w], e)
    <3>2. /\ s \in Seq(Events) /\ LastWord(s)
          /\ \A i \in 1..Len(s) : s[i] = e \/ \E j \in 1..Len(events[w]) : s[i] = events[w][j]
      BY <1>0, <3>1, AppendTold
    <3> HIDE DEF s
    <3>3. \A i \in 1..Len(s) : /\ s[i] = "request" => phase'[w] \in AskedPhases
                               /\ s[i] = "active" => phase'[w] \in ActivePhases
                               /\ s[i] \in Terminal => phase'[w] \in Over
      <4>1. \A j \in 1..Len(events[w]) :
               /\ events[w][j] = "request" => phase'[w] \in AskedPhases
               /\ events[w][j] = "active" => phase'[w] \in ActivePhases
               /\ events[w][j] \in Terminal => phase'[w] \in Over
        BY <2>2 DEF EventsInv, Told
      <4> QED
        BY <2>1, <2>7, <3>2, <4>1
    <3>4. events'[w] = s /\ events' \in [Workers -> Seq(Events)]
          /\ \A v \in Workers \ {w} : events'[v] = events[v]
      BY <1>0, <2>7, <3>2 DEF s
    <3>6. \A v \in Workers \ {w} : (Told(events[v], v) /\ LastWord(events[v]))'
      BY <2>4, <3>4
    <3>7. (Told(events[w], w) /\ LastWord(events[w]))'
      BY <3>2, <3>3, <3>4 DEF Told
    <3> QED
      BY <1>0, <2>5, <3>4, <3>6, <3>7 DEF EventsInv
  <2> QED
    BY <1>0, <1>2, <2>1, <2>6, <2>7 DEF Says
<1> QED
  BY <1>0, <1>1, <1>2 DEF WorkerMove

\* A worker's move does not change what the interface knows.
LEMMA MoveKeepsRest ==
  ASSUME TypeOK, NeverGivenUp, AnswersItsRequest, OfferedAsShown,
         NEW w \in Workers, WorkerMove(w)
  PROVE  NeverGivenUp' /\ AnswersItsRequest' /\ OfferedAsShown'
<1>1. /\ app' = app /\ known' = known /\ place' = place /\ placeOf' = placeOf
      /\ answer' = answer
  BY DEF WorkerMove
<1>2. \A v \in Workers : /\ phase[v] \in AskedPhases => phase'[v] \in AskedPhases
                         /\ phase[v] \in ActivePhases => phase'[v] \in ActivePhases
  <2>1. CASE phase' = phase
    BY <2>1
  <2>2. ASSUME NEW next, Moves(w, next)
        PROVE  \A v \in Workers : /\ phase[v] \in AskedPhases => phase'[v] \in AskedPhases
                                  /\ phase[v] \in ActivePhases => phase'[v] \in ActivePhases
    BY <2>2 DEF Moves, TypeOK
  <2> QED
    BY <2>1, <2>2 DEF WorkerMove
<1>3. app.worker # NoWorker => app.worker \in Workers
  BY DEF TypeOK, Apps
<1>4. NeverGivenUp'
  BY <1>1 DEF NeverGivenUp, Credentials
<1>5. AnswersItsRequest'
  BY <1>1, <1>2, <1>3 DEF AnswersItsRequest, AskedPhases
<1>6. OfferedAsShown'
  BY <1>1, <1>2, <1>3 DEF OfferedAsShown, ActivePhases
<1> QED
  BY <1>4, <1>5, <1>6

-----------------------------------------------------------------------------
(* The interface *)

\* Taking the pending events keeps the invariant.
LEMMA PollKeeps ==
  ASSUME SupervisorInv, Poll
  PROVE  SupervisorInv'
<1>1. app.worker \in Workers /\ events[app.worker] \in Seq(Events)
  BY DEF Poll, SupervisorInv, TypeOK, Apps
<1>2. /\ batch' = events[app.worker] /\ events' = [events EXCEPT ![app.worker] = <<>>]
      /\ UNCHANGED <<app, place, known, phase, placeOf, answer, holds, presses, faults>>
  BY DEF Poll
<1>3. TypeOK'
  BY <1>1, <1>2 DEF SupervisorInv, TypeOK
<1>4. \A v \in Workers : events'[v] = <<>> \/ events'[v] = events[v]
  BY <1>1, <1>2 DEF SupervisorInv, TypeOK
<1>5. \A v \in Workers : (Told(events[v], v) /\ LastWord(events[v]))'
  BY <1>2, <1>4 DEF SupervisorInv, EventsInv, Told, LastWord
<1>6. LastWord(batch)' /\ Told(batch, app.worker)' /\ app'.worker # NoWorker
  BY <1>1, <1>2 DEF SupervisorInv, EventsInv, Told, LastWord, Poll
<1>7. EventsInv'
  BY <1>5, <1>6 DEF EventsInv
<1> QED
  BY <1>2, <1>3, <1>7 DEF SupervisorInv, NeverGivenUp, Credentials, AnswersItsRequest,
                          OfferedAsShown

\* Handling one event keeps the invariant.
LEMMA HandleKeeps ==
  ASSUME SupervisorInv, HandleEvent
  PROVE  SupervisorInv'
<1> DEFINE e == Head(batch)
<1>0. TypeOK /\ EventsInv /\ NeverGivenUp /\ AnswersItsRequest /\ OfferedAsShown
  BY DEF SupervisorInv
<1>1. /\ batch # <<>> /\ app' = Handled(app, e) /\ batch' = Tail(batch)
      /\ UNCHANGED <<workers, place, known, presses, faults>>
  BY DEF HandleEvent
<1>2. /\ e = batch[1] /\ e \in Events /\ 1 \in 1..Len(batch)
      /\ batch' \in Seq(Events) /\ Len(batch') = Len(batch) - 1
      /\ \A i \in 1..Len(batch') : batch'[i] = batch[i + 1] /\ i + 1 \in 1..Len(batch)
      /\ Len(batch') = 0 => batch' = <<>>
  BY <1>0, <1>1 DEF TypeOK
<1>3. app \in Apps /\ app.worker \in Workers /\ Told(batch, app.worker) /\ LastWord(batch)
  BY <1>0, <1>1 DEF TypeOK, EventsInv, Apps
<1>4. /\ e = "request" => phase[app.worker] \in AskedPhases
      /\ e = "active" => phase[app.worker] \in ActivePhases
      /\ e \in Terminal => batch' = <<>>
  BY <1>2, <1>3 DEF Told, LastWord
<1> HIDE DEF e
<1>5. app' \in Apps
  BY <1>1, <1>2, <1>3, FunctionTypes
<1>6. TypeOK'
  BY <1>0, <1>1, <1>2, <1>5 DEF TypeOK, workers
<1>7. /\ e \notin Terminal => app'.worker = app.worker /\ app'.retry = app.retry
      /\ e \in Terminal => /\ app'.worker = NoWorker /\ app'.retry # 0
                           /\ ~app'.pending /\ ~app'.active
      /\ app'.pending => app.pending \/ e = "request"
      /\ app'.active => app.active \/ e = "active"
  <2>1. CASE e \notin Terminal
    BY <1>1, <1>2, <1>3, <2>1, HandledResults
  <2>2. CASE e \in Terminal
    BY <1>1, <1>3, <2>2, HandledLast
  <2> QED
    BY <2>1, <2>2
<1>8. EventsInv'
  <2>1. \A v \in Workers : (Told(events[v], v) /\ LastWord(events[v]))'
    BY <1>0, <1>1 DEF EventsInv, Told, LastWord, workers
  <2>2. LastWord(batch)'
    BY <1>2, <1>3 DEF LastWord
  <2>3. batch' # <<>> => app'.worker # NoWorker /\ Told(batch, app.worker)'
    <3> SUFFICES ASSUME batch' # <<>> PROVE app'.worker # NoWorker /\ Told(batch, app.worker)'
      OBVIOUS
    <3>1. app'.worker = app.worker /\ phase' = phase
      BY <1>1, <1>4, <1>7 DEF workers
    <3> QED
      BY <1>2, <1>3, <3>1, NoWorkerIsNone DEF Told
  <2> QED
    BY <2>1, <2>2, <2>3 DEF EventsInv
<1>9. NeverGivenUp'
  BY <1>0, <1>1, <1>7 DEF NeverGivenUp, Credentials
<1>10. AnswersItsRequest'
  <2>1. app'.pending => app'.worker # NoWorker /\ phase'[app'.worker] \in AskedPhases
    BY <1>0, <1>1, <1>3, <1>4, <1>7, NoWorkerIsNone
       DEF AnswersItsRequest, AskedPhases, workers, Terminal
  <2> QED
    BY <1>0, <1>1, <2>1 DEF AnswersItsRequest, AskedPhases, workers
<1>11. OfferedAsShown'
  BY <1>0, <1>1, <1>3, <1>4, <1>7, NoWorkerIsNone
     DEF OfferedAsShown, ActivePhases, workers, Terminal
<1> QED
  BY <1>6, <1>8, <1>9, <1>10, <1>11 DEF SupervisorInv

\* start_host_now, for any state a of the interface and the credentials and the
\* place the device has after the step.
LEMMA StartKeeps ==
  ASSUME SupervisorInv, NEW a \in Apps, batch = <<>>, batch' = batch,
         known' \in [id : BOOLEAN, password : BOOLEAN],
         place' \in 0..MaxPresses, presses' \in 0..MaxPresses,
         StartHost(a, known', place')
  PROVE  SupervisorInv'
<1> DEFINE idle == [Cleared(a) EXCEPT !.retry = 0]
<1>0. TypeOK /\ EventsInv /\ AnswersItsRequest
  BY DEF SupervisorInv
<1>1. idle \in Apps /\ idle.worker = NoWorker /\ ~idle.pending /\ ~idle.active
  <2> DEFINE c == Cleared(a)
  <2>1. c \in Apps /\ c.worker = NoWorker /\ ~c.pending /\ ~c.active
    <3>1. "waiting" \in Events
      BY DEF Events
    <3> QED
      BY <3>1, FunctionTypes, ClearedResults
  <2> HIDE DEF c
  <2>2. [c EXCEPT !.retry = 0] \in Apps
    BY <2>1 DEF Apps
  <2>3. [c EXCEPT !.retry = 0].worker = NoWorker /\ ~[c EXCEPT !.retry = 0].pending
        /\ ~[c EXCEPT !.retry = 0].active
    BY <2>1 DEF Apps
  <2> QED
    BY <2>2, <2>3 DEF c
<1>2. ASSUME app' \in Apps, app'.worker = NoWorker, ~app'.pending,
             UNCHANGED workers, faults' \in 0..MaxFaults,
             Credentials(known') => app'.retry # 0
      PROVE  SupervisorInv'
  <2>1. TypeOK'
    BY <1>0, <1>2 DEF TypeOK, workers
  <2>2. EventsInv'
    BY <1>0, <1>2 DEF EventsInv, Told, LastWord, workers
  <2> QED
    BY <1>0, <1>2, <2>1, <2>2 DEF SupervisorInv, NeverGivenUp, AnswersItsRequest,
                                  OfferedAsShown, workers, Credentials
<1>3. CASE ~Credentials(known') /\ app' = idle /\ UNCHANGED <<workers, faults>>
  BY <1>0, <1>1, <1>2, <1>3 DEF TypeOK
<1>4. CASE faults < MaxFaults /\ faults' = faults + 1 /\ app' = Rescheduled(idle, TRUE)
           /\ UNCHANGED workers
  <2> HIDE DEF idle
  <2>1. app' \in Apps /\ app'.retry # 0 /\ app'.worker = NoWorker /\ ~app'.pending
    <3>1. "waiting" \in Events
      BY DEF Events
    <3> QED
      BY <1>1, <1>4, <3>1, FunctionTypes, ClearedResults
  <2>2. faults' \in 0..MaxFaults
    BY <1>0, <1>4, BoundsAreNat DEF TypeOK
  <2> QED
    BY <1>2, <1>4, <2>1, <2>2
<1>5. ASSUME NEW w \in Workers, Free(w), app' = [idle EXCEPT !.worker = w],
             phase' = [phase EXCEPT ![w] = "connecting"],
             placeOf' = [placeOf EXCEPT ![w] = place'],
             events' = [events EXCEPT ![w] = <<>>],
             answer' = [answer EXCEPT ![w] = "none"],
             UNCHANGED <<holds, faults>>
      PROVE  SupervisorInv'
  <2> HIDE DEF idle
  <2>1. app' \in Apps
    BY <1>1, <1>5 DEF Apps
  <2>2. app'.worker = w /\ ~app'.pending /\ ~app'.active
    BY <1>1, <1>5 DEF Apps
  <2>3. /\ phase' \in [Workers -> Phases] /\ placeOf' \in [Workers -> 0..MaxPresses]
        /\ events' \in [Workers -> Seq(Events)]
        /\ answer' \in [Workers -> {"none", "approve", "deny"}]
        /\ holds' = holds /\ faults' = faults
    BY <1>0, <1>5 DEF TypeOK, Phases
  <2>4. TypeOK'
    BY <1>0, <2>1, <2>3 DEF TypeOK
  <2>5. \A v \in Workers : \/ events'[v] = <<>>
                           \/ events'[v] = events[v] /\ phase'[v] = phase[v]
    BY <1>0, <1>5 DEF TypeOK
  <2>6. \A v \in Workers : (Told(events[v], v) /\ LastWord(events[v]))'
    BY <1>0, <2>5 DEF EventsInv, Told, LastWord
  <2>7. EventsInv'
    BY <1>0, <2>6 DEF EventsInv, LastWord
  <2>8. NeverGivenUp' /\ OfferedAsShown'
    BY <1>0, <1>5, <2>2, NoWorkerIsNone DEF NeverGivenUp, OfferedAsShown, TypeOK
  <2>9. AnswersItsRequest'
    BY <1>0, <1>5, <2>2 DEF AnswersItsRequest, TypeOK
  <2> QED
    BY <2>4, <2>7, <2>8, <2>9 DEF SupervisorInv
<1> QED
  BY <1>3, <1>4, <1>5 DEF StartHost

\* At first the device has no worker, and the interface shows none.
LEMMA SupervisorInvInit == Init => SupervisorInv
<1> SUFFICES ASSUME Init PROVE SupervisorInv
  OBVIOUS
<1> DEFINE idle == [worker |-> NoWorker, retry |-> 0, attempt |-> 0,
                    pending |-> FALSE, active |-> FALSE]
<1>1. idle \in Apps /\ "waiting" \in Events
  BY DEF Apps, Events
<1>2. Rescheduled(idle, TRUE) \in Apps /\ Rescheduled(idle, TRUE).retry # 0
      /\ Rescheduled(idle, TRUE).worker = NoWorker /\ ~Rescheduled(idle, TRUE).pending
      /\ ~Rescheduled(idle, TRUE).active
  BY <1>1, FunctionTypes, ClearedResults
<1>3. \A w \in Workers : /\ [idle EXCEPT !.worker = w] \in Apps
                         /\ [idle EXCEPT !.worker = w].worker = w
                         /\ ~[idle EXCEPT !.worker = w].pending
                         /\ ~[idle EXCEPT !.worker = w].active
  <2>1. ~idle.pending /\ ~idle.active
    OBVIOUS
  <2> HIDE DEF idle
  <2>2. \A w \in Workers : [idle EXCEPT !.worker = w] \in Apps
    BY <1>1 DEF Apps
  <2>3. \A w \in Workers : /\ [idle EXCEPT !.worker = w].worker = w
                           /\ ~[idle EXCEPT !.worker = w].pending
                           /\ ~[idle EXCEPT !.worker = w].active
    BY <1>1, <2>1 DEF Apps
  <2> QED
    BY <2>2, <2>3
<1>4. /\ app \in Apps /\ ~app.pending /\ ~app.active
      /\ Credentials(known) => app.worker # NoWorker \/ app.retry # 0
      /\ phase \in [Workers -> Phases]
  <2>1. CASE /\ app = IF Credentials(known) THEN Rescheduled(idle, TRUE) ELSE idle
             /\ phase = [w \in Workers |-> "ended"]
    <3>1. phase \in [Workers -> Phases]
      BY <2>1 DEF Phases
    <3>2. ~idle.pending /\ ~idle.active
      OBVIOUS
    <3> HIDE DEF idle
    <3> QED
      BY <1>1, <1>2, <2>1, <3>1, <3>2
  <2>2. ASSUME NEW first \in Workers, app = [idle EXCEPT !.worker = first],
               phase = [w \in Workers |-> IF w = first THEN "connecting" ELSE "ended"]
        PROVE  /\ app \in Apps /\ ~app.pending /\ ~app.active
               /\ Credentials(known) => app.worker # NoWorker \/ app.retry # 0
               /\ phase \in [Workers -> Phases]
    <3>1. phase \in [Workers -> Phases]
      BY <2>2 DEF Phases
    <3> HIDE DEF idle
    <3> QED
      BY <1>3, <2>2, <3>1, NoWorkerIsNone
  <2> QED
    BY <2>1, <2>2 DEF Init
<1>5. TypeOK
  <2>1. <<>> \in Seq(Events)
    OBVIOUS
  <2> QED
    BY <1>4, <2>1, BoundsAreNat DEF Init, TypeOK
<1>6. EventsInv
  BY DEF Init, EventsInv, Told, LastWord
<1> QED
  BY <1>4, <1>5, <1>6 DEF Init, SupervisorInv, NeverGivenUp, AnswersItsRequest,
                          OfferedAsShown, TypeOK, Apps

\* Every step keeps the invariant.
LEMMA SupervisorInvStep == SupervisorInv /\ [Next]_vars => SupervisorInv'
<1> SUFFICES ASSUME SupervisorInv, [Next]_vars PROVE SupervisorInv'
  OBVIOUS
<1>0. TypeOK /\ EventsInv /\ NeverGivenUp /\ AnswersItsRequest /\ OfferedAsShown
  BY DEF SupervisorInv
<1>1. ASSUME NEW w \in Workers,
             \/ WorkerStep(w) \/ Release(w)
             \/ Match(w) \/ Expire(w) \/ ViewerEnds(w) \/ Fail(w)
      PROVE  SupervisorInv'
  <2>1. WorkerMove(w) /\ holds' \subseteq Workers /\ faults' \in 0..MaxFaults
    BY <1>0, <1>1, WorkerMoves
  <2>2. EventsInv' /\ events' \in [Workers -> Seq(Events)] /\ phase' \in [Workers -> Phases]
    BY <1>0, <2>1, MoveKeepsEvents
  <2>3. NeverGivenUp' /\ AnswersItsRequest' /\ OfferedAsShown'
    BY <1>0, <2>1, MoveKeepsRest
  <2>4. TypeOK'
    BY <1>0, <2>1, <2>2 DEF TypeOK, WorkerMove
  <2> QED
    BY <2>2, <2>3, <2>4 DEF SupervisorInv
<1>2. CASE RelayRestarts
  <2>1. TypeOK'
    BY <1>0, <1>2, BoundsAreNat DEF RelayRestarts, TypeOK
  <2> QED
    BY <1>0, <1>2, <2>1 DEF RelayRestarts, SupervisorInv, EventsInv, Told, LastWord,
                            NeverGivenUp, Credentials, AnswersItsRequest, OfferedAsShown
<1>3. CASE Poll
  BY <1>3, PollKeeps
<1>4. CASE HandleEvent
  BY <1>4, HandleKeeps
<1>5. CASE Retry
  BY <1>0, <1>5, StartKeeps DEF Retry, TypeOK
<1>6. CASE PressRestart
  <2>1. /\ app' = Restarted(app) /\ batch = <<>> /\ presses' = presses + 1
        /\ presses < MaxPresses /\ place' \in {place, presses'}
        /\ UNCHANGED <<workers, batch, known, faults>>
    BY <1>6 DEF PressRestart
  <2>2. app' \in Apps /\ app'.worker = NoWorker /\ ~app'.pending /\ app'.retry = 1
    <3>1. "waiting" \in Events
      BY DEF Events
    <3> QED
      BY <1>0, <2>1, <3>1, FunctionTypes, ClearedResults DEF TypeOK
  <2>3. TypeOK'
    BY <1>0, <2>1, <2>2, BoundsAreNat DEF TypeOK, workers
  <2>4. EventsInv'
    BY <1>0, <2>1 DEF EventsInv, Told, LastWord, workers
  <2> QED
    BY <1>0, <2>1, <2>2, <2>3, <2>4 DEF SupervisorInv, NeverGivenUp, AnswersItsRequest,
                                        OfferedAsShown, workers
<1>7. CASE PressRotate
  <2>1. presses' \in 0..MaxPresses
    BY <1>0, <1>7, BoundsAreNat DEF PressRotate, TypeOK
  <2>2. [app EXCEPT !.attempt = 0] \in Apps
    <3>1. app \in Apps
      BY <1>0 DEF TypeOK
    <3> QED
      BY <3>1 DEF Apps
  <2>3. known' \in [id : BOOLEAN, password : BOOLEAN]
    BY <1>0, <1>7 DEF PressRotate, TypeOK
  <2>4. place' = presses' /\ batch = <<>> /\ batch' = batch
        /\ StartHost([app EXCEPT !.attempt = 0], known', place')
    BY <1>7 DEF PressRotate
  <2> QED
    BY <2>1, <2>2, <2>3, <2>4, StartKeeps
<1>8. CASE Answer
  <2>1. /\ app.pending /\ app.worker \in Workers
        /\ app' = [app EXCEPT !.pending = FALSE]
        /\ UNCHANGED <<batch, place, known, phase, placeOf, events, holds, presses, faults>>
        /\ \E choice \in {"approve", "deny"} :
              answer' = [answer EXCEPT ![app.worker] = choice]
    BY <1>0, <1>8 DEF Answer, TypeOK, Apps
  <2>2. app' \in Apps /\ app'.worker = app.worker /\ app'.retry = app.retry
        /\ ~app'.pending /\ app'.active = app.active
    BY <1>0, <2>1 DEF TypeOK, Apps
  <2>3. TypeOK'
    BY <1>0, <2>1, <2>2 DEF TypeOK
  <2>4. EventsInv'
    BY <1>0, <2>1, <2>2 DEF EventsInv, Told, LastWord
  <2>5. AnswersItsRequest'
    BY <1>0, <2>1, <2>2 DEF AnswersItsRequest, TypeOK
  <2> QED
    BY <1>0, <2>1, <2>2, <2>3, <2>4, <2>5 DEF SupervisorInv, NeverGivenUp, Credentials,
                                              OfferedAsShown
<1>9. CASE UNCHANGED vars
  BY <1>9 DEF vars, SupervisorInv, TypeOK, EventsInv, Told, LastWord, NeverGivenUp,
              Credentials, AnswersItsRequest, OfferedAsShown
<1> QED
  BY <1>1, <1>2, <1>3, <1>4, <1>5, <1>6, <1>7, <1>8, <1>9 DEF Next

\* The invariant holds in every reachable state.
LEMMA SupervisorInvHolds == Spec => []SupervisorInv
  BY SupervisorInvInit, SupervisorInvStep, PTL DEF Spec

-----------------------------------------------------------------------------
(* The theorems *)

\* The delay of a retry stays one of five values, and every counter in range.
THEOREM SupervisorTyped == Spec => []TypeOK
<1>1. SupervisorInv => TypeOK
  BY DEF SupervisorInv
<1> QED
  BY <1>1, SupervisorInvHolds, PTL

\* Whatever the workers' events, in whatever order they meet the user's presses:
\* the interface never forgets to start the next worker.
THEOREM HostNeverGivenUp == Spec => []NeverGivenUp
<1>1. SupervisorInv => NeverGivenUp
  BY DEF SupervisorInv
<1> QED
  BY <1>1, SupervisorInvHolds, PTL

\* No answer ever reaches a worker that has not asked, for any number of workers
\* that were dropped and still run.
THEOREM AnswersReachTheirRequest == Spec => []AnswersItsRequest
<1>1. SupervisorInv => AnswersItsRequest
  BY DEF SupervisorInv
<1> QED
  BY <1>1, SupervisorInvHolds, PTL

\* The worker in charge always offers the device as the user is shown.
THEOREM OffersAreShown == Spec => []OfferedAsShown
<1>1. SupervisorInv => OfferedAsShown
  BY DEF SupervisorInv
<1> QED
  BY <1>1, SupervisorInvHolds, PTL

===============================================================================
