------------------------------- MODULE Relay -------------------------------
(***************************************************************************)
(* The blind relay of services/rustview-relay/src/main.rs up to the moment *)
(* it copies bytes: one thread per accepted connection, a table of waiting *)
(* hosts under one mutex, and a one-slot channel per waiting host through  *)
(* which a claimant's thread hands its viewer socket, with the connection  *)
(* permit, to the host's thread.                                           *)
(*                                                                         *)
(* Every action is what one thread does between two points at which        *)
(* another thread may be observed: a section under the mutex, a channel    *)
(* operation, or one socket write.  Time is abstract: the TTL, the control *)
(* timeout and the tunnel limits may run out at any moment.  A connection  *)
(* identifier stands for one accepted socket and is used once.             *)
(***************************************************************************)
EXTENDS Naturals, Sequences, FiniteSets

CONSTANTS Conns,           \* accepted connections
          Routes,          \* derived route identifiers
          NoRoute          \* a connection that has named no route yet

ASSUME NoRouteIsNone == NoRoute \notin Routes

VARIABLES
  pc,        \* where the thread that owns the connection is
  route,     \* route named in the request
  regId,     \* registration_id of the connection's thread, 0 before it has one
  nextId,    \* NEXT_REGISTRATION_ID
  waiting,   \* the WaitingHosts table
  sender,    \* hosts whose SyncSender a claimant's thread owns
  slot,      \* the one slot of a host's channel
  viewerOf,  \* the PendingViewer a host's thread has received
  peer,      \* the far end of the connection
  open,      \* connections whose socket or permit has not been dropped
  replies    \* control responses delivered to the far end

table == <<nextId, waiting>>
handoff == <<sender, slot, viewerOf>>
vars == <<pc, route, regId, nextId, waiting, sender, slot, viewerOf, peer,
          open, replies>>

HostPCs == {"register", "insert", "announce", "wait", "expired", "unusable",
            "unannounced", "match", "matchViewer", "tunnel", "leaving"}
ViewerPCs == {"claim", "send", "refuse", "moved"}
PCs == {"absent", "accepted", "request", "done"} \cup HostPCs \cup ViewerPCs

Response == {"Registered", "ClaimAccepted", "Unavailable", "Busy", "Pong",
             "Rejected", "RateLimited"}

\* One entry of the table; its sender leads to the channel of `host`.
Registration == [route : Routes, id : Nat, host : Conns]

\* NEXT_REGISTRATION_ID starts at 1: 0 stands for a thread without one.
FirstId == 1

Init ==
  /\ pc = [c \in Conns |-> "absent"]
  /\ route = [c \in Conns |-> NoRoute]
  /\ regId = [c \in Conns |-> 0]
  /\ nextId = FirstId
  /\ waiting = {}
  /\ sender = [c \in Conns |-> {}]
  /\ slot = [c \in Conns |-> {}]
  /\ viewerOf = [c \in Conns |-> {}]
  /\ peer = [c \in Conns |-> "present"]
  /\ open = {}
  /\ replies = [c \in Conns |-> <<>>]

Goto(c, label) == pc' = [pc EXCEPT ![c] = label]

\* A write reaches a far end that is still there; one whose far end has gone
\* may fail or be swallowed by the kernel.
WriteMayFail(c) == peer[c] = "gone"
Written(c, message) ==
  IF peer[c] = "gone" THEN replies
  ELSE [replies EXCEPT ![c] = Append(@, message)]

\* The sockets in the hands of the thread of c: its own, that of the viewer it
\* has received, and that of a viewer left in its channel.
Owned(c) == {c} \cup slot[c] \cup viewerOf[c]

\* Mutant: the channel outlives the thread that reads it.
MReturnKeepsChannel(c) ==
  LET dropped == {c} \cup viewerOf[c]
  IN  /\ open' = open \ dropped
      /\ pc' = [x \in Conns |-> IF x \in dropped THEN "done" ELSE pc[x]]
      /\ viewerOf' = [viewerOf EXCEPT ![c] = {}]
      /\ UNCHANGED slot

\* Mutant: the thread drops its own socket only.
MReturnForgetsViewer(c) ==
  /\ open' = open \ {c}
  /\ Goto(c, "done")
  /\ slot' = [slot EXCEPT ![c] = {}]
  /\ viewerOf' = [viewerOf EXCEPT ![c] = {}]

\* The thread of c returns: the sockets it owns, their permits and its channel
\* are dropped.  In which order makes no difference to the other threads; the
\* acceptor, which counts permits, is the business of RelayQuota.
Return(c) ==
  /\ open' = open \ Owned(c)
  /\ pc' = [x \in Conns |-> IF x \in Owned(c) THEN "done" ELSE pc[x]]
  /\ slot' = [slot EXCEPT ![c] = {}]
  /\ viewerOf' = [viewerOf EXCEPT ![c] = {}]

-----------------------------------------------------------------------------
(* The acceptor and the first request of a connection. *)

\* The acceptor is one thread: it is done with a connection before the next.
Accept(c) ==
  /\ pc[c] = "absent"
  /\ \A x \in Conns : pc[x] # "accepted"
  /\ open' = open \cup {c}
  /\ Goto(c, "accepted")
  /\ UNCHANGED <<route, regId, table, handoff, peer, replies>>

\* RelayQuota grants a permit, and a thread is started.  (One that cannot be
\* started drops what it was given, as one that reads no request.)
Admit(c) ==
  /\ pc[c] = "accepted"
  /\ Goto(c, "request")
  /\ UNCHANGED <<route, regId, table, handoff, peer, open, replies>>

\* RelayQuota refuses a permit, as there are others, and the answer is
\* RateLimited; or the address cannot be told, and there is none.
TurnAway(c) ==
  /\ pc[c] = "accepted"
  /\ \/ /\ open # {c}
        /\ replies' = Written(c, "RateLimited")
     \/ UNCHANGED replies
  /\ open' = open \ {c}
  /\ Goto(c, "done")
  /\ UNCHANGED <<route, regId, table, handoff, peer>>

\* A valid Register or Claim names a route.
ReadRequest(c) ==
  /\ pc[c] = "request"
  /\ \E r \in Routes, next \in {"register", "claim"} :
        /\ route' = [route EXCEPT ![c] = r]
        /\ Goto(c, next)
  /\ UNCHANGED <<regId, table, handoff, peer, open, replies>>

\* A Ping, an invalid request, or no request within CONTROL_TIMEOUT: the
\* thread answers (or not) and returns.
ReadNoRequest(c) ==
  /\ pc[c] = "request"
  /\ \/ \E message \in {"Pong", "Rejected"} : replies' = Written(c, message)
     \/ UNCHANGED replies
  /\ Return(c)
  /\ UNCHANGED <<route, regId, table, sender, peer>>

-----------------------------------------------------------------------------
(* register_host *)

TakeRegistrationId(c) ==
  /\ pc[c] = "register"
  /\ regId' = [regId EXCEPT ![c] = nextId]
  /\ nextId' = nextId + 1
  /\ Goto(c, "insert")
  /\ UNCHANGED <<route, waiting, handoff, peer, open, replies>>

IsRegistered(r) == \E w \in waiting : w.route = r

\* HashMap::insert: an entry of the same key would be replaced.
Inserted(c) == {w \in waiting : w.route # route[c]}
                 \cup {[route |-> route[c], id |-> regId[c], host |-> c]}

\* Mutant: the table is not asked whether a host waits already.
MInsertUnchecked(c) ==
  /\ pc[c] = "insert"
  /\ waiting' = Inserted(c)
  /\ Goto(c, "announce")
  /\ UNCHANGED <<route, regId, nextId, handoff, peer, open, replies>>

InsertRoute(c) ==
  /\ pc[c] = "insert"
  /\ ~IsRegistered(route[c])
  /\ waiting' = Inserted(c)
  /\ Goto(c, "announce")
  /\ UNCHANGED <<route, regId, nextId, handoff, peer, open, replies>>

RefuseBusy(c) ==
  /\ pc[c] = "insert"
  /\ IsRegistered(route[c])
  /\ replies' = Written(c, "Busy")
  /\ Return(c)
  /\ UNCHANGED <<route, regId, table, sender, peer>>

\* The host may have been told and set_nonblocking fail.
AnnounceRegistered(c) ==
  /\ pc[c] = "announce"
  /\ \/ /\ replies' = Written(c, "Registered")
        /\ \E next \in {"wait", "unannounced"} : Goto(c, next)
     \/ /\ WriteMayFail(c)
        /\ Goto(c, "unannounced")
        /\ UNCHANGED replies
  /\ UNCHANGED <<route, regId, table, handoff, peer, open>>

\* INVITATION_TTL has run out; the loop looks at the clock before the channel.
Expire(c) ==
  /\ pc[c] = "wait"
  /\ Goto(c, "expired")
  /\ UNCHANGED <<route, regId, table, handoff, peer, open, replies>>

\* The sender of c's channel lives in the table or with a claimant.
SenderAlive(c) == \/ \E w \in waiting : w.host = c
                  \/ \E v \in Conns : c \in sender[v]

\* Mutant: end of file on the host's socket is taken for a quiet host.
MPollMissesEof(c) ==
  /\ pc[c] = "wait"
  /\ slot[c] = {}
  /\ SenderAlive(c) => peer[c] = "early"
  /\ Goto(c, "unusable")
  /\ UNCHANGED <<route, regId, table, handoff, peer, open, replies>>

\* recv_timeout ended with an empty channel: either the sender was lost
\* (Disconnected), or the poll interval ran out and waiting_host_is_unusable
\* found the host gone or talking too early.
PollUnusable(c) ==
  /\ pc[c] = "wait"
  /\ slot[c] = {}
  /\ SenderAlive(c) => peer[c] # "present"
  /\ Goto(c, "unusable")
  /\ UNCHANGED <<route, regId, table, handoff, peer, open, replies>>

\* The look at a host that is there fails.
PollFails(c) ==
  /\ pc[c] = "wait"
  /\ slot[c] = {}
  /\ Goto(c, "unusable")
  /\ UNCHANGED <<route, regId, table, handoff, peer, open, replies>>

\* Mutant: the registration is removed by route alone.
MRemovedByRoute(c) == {w \in waiting : w.route # route[c]}

\* Only the registration this thread made: a later host may own the route.
RemovedBy(c) == {w \in waiting : ~(w.route = route[c] /\ w.id = regId[c])}

\* remove_registration; an expired host is then told Unavailable.
RemoveRegistration(c) ==
  /\ pc[c] \in {"expired", "unusable", "unannounced"}
  /\ waiting' = RemovedBy(c)
  /\ replies' = IF pc[c] = "expired" THEN Written(c, "Unavailable") ELSE replies
  /\ Goto(c, "leaving")
  /\ UNCHANGED <<route, regId, nextId, handoff, peer, open>>

ReceiveViewer(c) ==
  /\ pc[c] = "wait"
  /\ slot[c] # {}
  /\ viewerOf' = [viewerOf EXCEPT ![c] = slot[c]]
  /\ slot' = [slot EXCEPT ![c] = {}]
  /\ \E next \in {"match", "leaving"} : Goto(c, next)  \* set_nonblocking may fail
  /\ UNCHANGED <<route, regId, table, sender, peer, open, replies>>

\* Mutant: the viewer is told before the host.
MMatchViewerFirst(c) ==
  /\ pc[c] = "match"
  /\ \E v \in viewerOf[c] : replies' = Written(v, "ClaimAccepted")
  /\ Goto(c, "matchViewer")
  /\ UNCHANGED <<route, regId, table, handoff, peer, open>>

MatchHost(c) ==
  /\ pc[c] = "match"
  /\ \/ /\ replies' = Written(c, "ClaimAccepted")
        /\ Goto(c, "matchViewer")
     \/ /\ WriteMayFail(c)
        /\ \E v \in viewerOf[c] : replies' = Written(v, "Unavailable")
        /\ Goto(c, "leaving")
  /\ UNCHANGED <<route, regId, table, handoff, peer, open>>

MatchViewer(c) ==
  /\ pc[c] = "matchViewer"
  /\ \E v \in viewerOf[c] :
        \/ /\ replies' = Written(v, "ClaimAccepted")
           /\ Goto(c, "tunnel")
        \/ /\ WriteMayFail(v)
           /\ Goto(c, "leaving")
           /\ UNCHANGED replies
  /\ UNCHANGED <<route, regId, table, handoff, peer, open>>

\* Either direction ended, or the idle, write or absolute limit ran out, and
\* shutdown_tunnel ended the other one; both copy threads have been joined.
EndTunnel(c) ==
  /\ pc[c] = "tunnel"
  /\ Goto(c, "leaving")
  /\ UNCHANGED <<route, regId, table, handoff, peer, open, replies>>

Leave(c) ==
  /\ pc[c] = "leaving"
  /\ Return(c)
  /\ UNCHANGED <<route, regId, table, sender, peer, replies>>

-----------------------------------------------------------------------------
(* claim_host *)

\* Mutant: the claim clones the sender and leaves the entry in the table.
MClaimByLookup(v) ==
  /\ pc[v] = "claim"
  /\ \E w \in waiting :
        /\ w.route = route[v]
        /\ sender' = [sender EXCEPT ![v] = {w.host}]
  /\ Goto(v, "send")
  /\ UNCHANGED <<route, regId, table, slot, viewerOf, peer, open, replies>>

\* Mutant: the claim takes whichever host waits.
MClaimAnyRoute(v) ==
  /\ pc[v] = "claim"
  /\ \E w \in waiting :
        /\ sender' = [sender EXCEPT ![v] = {w.host}]
        /\ waiting' = waiting \ {w}
  /\ Goto(v, "send")
  /\ UNCHANGED <<route, regId, nextId, slot, viewerOf, peer, open, replies>>

\* The removal is one section under the mutex: whoever removes the entry owns
\* its sender.
ClaimRoute(v) ==
  /\ pc[v] = "claim"
  /\ \E w \in waiting :
        /\ w.route = route[v]
        /\ sender' = [sender EXCEPT ![v] = {w.host}]
        /\ waiting' = waiting \ {w}
  /\ Goto(v, "send")
  /\ UNCHANGED <<route, regId, nextId, slot, viewerOf, peer, open, replies>>

ClaimMissing(v) ==
  /\ pc[v] = "claim"
  /\ ~IsRegistered(route[v])
  /\ Goto(v, "refuse")
  /\ UNCHANGED <<route, regId, table, handoff, peer, open, replies>>

\* The receiver is dropped when the host's thread returns.
ReceiverAlive(h) == pc[h] # "done"

\* send: the viewer and its permit move into the host's channel, or come back
\* when the receiver is gone.  The sender is dropped either way.
SendViewer(v) ==
  /\ pc[v] = "send"
  /\ \E h \in sender[v] :
        \/ /\ ReceiverAlive(h)
           /\ slot[h] = {}
           /\ slot' = [slot EXCEPT ![h] = {v}]
           /\ Goto(v, "moved")
        \/ /\ ~ReceiverAlive(h)
           /\ Goto(v, "refuse")
           /\ UNCHANGED slot
  /\ sender' = [sender EXCEPT ![v] = {}]
  /\ UNCHANGED <<route, regId, table, viewerOf, peer, open, replies>>

RefuseViewer(v) ==
  /\ pc[v] = "refuse"
  /\ replies' = Written(v, "Unavailable")
  /\ Return(v)
  /\ UNCHANGED <<route, regId, table, sender, peer>>

-----------------------------------------------------------------------------
(* The far ends. *)

HangUp(c) ==
  /\ c \in open
  /\ peer[c] # "gone"
  /\ peer' = [peer EXCEPT ![c] = "gone"]
  /\ UNCHANGED <<pc, route, regId, table, handoff, open, replies>>

\* A host that sends bytes before it was matched.
TalkEarly(c) ==
  /\ pc[c] = "wait"
  /\ peer[c] = "present"
  /\ peer' = [peer EXCEPT ![c] = "early"]
  /\ UNCHANGED <<pc, route, regId, table, handoff, open, replies>>

-----------------------------------------------------------------------------
HostStep(c) ==
  \/ TakeRegistrationId(c) \/ InsertRoute(c) \/ RefuseBusy(c)
  \/ AnnounceRegistered(c) \/ PollUnusable(c)
  \/ RemoveRegistration(c) \/ ReceiveViewer(c) \/ MatchHost(c)
  \/ MatchViewer(c) \/ Leave(c)

ViewerStep(c) == ClaimRoute(c) \/ ClaimMissing(c) \/ SendViewer(c) \/ RefuseViewer(c)

Acceptor(c) == Admit(c) \/ TurnAway(c)

Environment(c) == Accept(c) \/ HangUp(c) \/ TalkEarly(c)

Next == \E c \in Conns :
          \/ ReadRequest(c) \/ ReadNoRequest(c) \/ HostStep(c) \/ ViewerStep(c)
          \/ Acceptor(c)
          \/ Expire(c) \/ PollFails(c) \/ EndTunnel(c) \/ Environment(c)

Spec == Init /\ [][Next]_vars

\* Every thread that can run does: the relay's threads are preemptively
\* scheduled, the mutex sections are short, and the loop of a waiting host
\* polls once a second.  ReadNoRequest is fair because the read of a request
\* has an absolute deadline, the acceptor because its one write has a timeout.
\* Nothing is assumed of the far ends, nor that a TTL or the limit of a tunnel
\* runs out or a poll fails.
ThreadFairness == \A c \in Conns :
                    /\ WF_vars(ReadNoRequest(c))
                    /\ WF_vars(HostStep(c) \/ ViewerStep(c))
                    /\ WF_vars(Acceptor(c))

FairSpec == Spec /\ ThreadFairness

-----------------------------------------------------------------------------
(* Properties *)

TypeOK ==
  /\ pc \in [Conns -> PCs]
  /\ route \in [Conns -> Routes \cup {NoRoute}]
  /\ regId \in [Conns -> Nat]
  /\ nextId \in Nat \ {0}
  /\ waiting \subseteq Registration
  /\ sender \in [Conns -> SUBSET Conns]
  /\ slot \in [Conns -> SUBSET Conns]
  /\ viewerOf \in [Conns -> SUBSET Conns]
  /\ peer \in [Conns -> {"present", "early", "gone"}]
  /\ open \subseteq Conns
  /\ replies \in [Conns -> Seq(Response)]

\* A host that waits can always still be reached: its registration is in the
\* table, or a claimant owns its sender, or its viewer is in the channel.  A
\* thread that removed a registration of another host of the same route, or a
\* registration that replaced one, would leave a host waiting for nobody.
NoOrphanedHost ==
  \A c \in Conns : pc[c] \in {"announce", "wait"} => SenderAlive(c) \/ slot[c] # {}

\* Viewers that a registration of h has been spent on and that are not
\* finished yet.
Claimants(h) == {v \in Conns : h \in sender[v]} \cup slot[h] \cup viewerOf[h]

\* "Each relay Register record is still consumed by one Claim"
\* (docs/ARCHITECTURE.md:127): a host is in the table, or spent on one viewer.
SingleUse ==
  \A h \in Conns :
     /\ Cardinality(Claimants(h)) <= 1
     /\ (\E w \in waiting : w.host = h) => Claimants(h) = {}

\* A viewer is only ever handed to a host that registered the route the viewer
\* named, and to no second host.
SameRoute ==
  \A h1, h2 \in Conns : \A v \in Claimants(h1) :
     /\ route[v] = route[h1]
     /\ v \in Claimants(h2) => h1 = h2

\* What a connection is told: nothing after a refusal, a host is accepted only
\* after it was registered, and a viewer is told it is matched only when the
\* host it is matched with was told first (or is already gone).
ReplyOrder ==
  /\ \A c \in Conns : replies[c] \in
        {<<>>} \cup {<<r>> : r \in Response}
          \cup {<<"Registered", "ClaimAccepted">>, <<"Registered", "Unavailable">>}
  /\ \A h \in Conns : \A v \in viewerOf[h] :
        replies[v] = <<"ClaimAccepted">> =>
           replies[h] = <<"Registered", "ClaimAccepted">> \/ peer[h] = "gone"

\* The relay implements the rendezvous: an offer is a table entry, a claim is
\* unsettled while its viewer travels to the host and is being announced, and
\* a pair is joined while its tunnel runs.
Pair(h, v) == [host |-> h, viewer |-> v, route |-> route[v]]
InTransit(h, v) == \/ h \in sender[v]
                   \/ v \in slot[h]
                   \/ v \in viewerOf[h] /\ pc[h] \in {"match", "matchViewer"}
offersBar == {[host |-> w.host, route |-> w.route] : w \in waiting}
spentBar == {c \in Conns : /\ regId[c] # 0
                           /\ pc[c] # "insert"
                           /\ \A w \in waiting : w.host # c}
claimsBar == {Pair(p[1], p[2]) : p \in {q \in Conns \X Conns : InTransit(q[1], q[2])}}
joinedBar == {Pair(p[1], p[2]) : p \in {q \in Conns \X Conns :
                 pc[q[1]] = "tunnel" /\ q[2] \in viewerOf[q[1]]}}

R == INSTANCE Rendezvous WITH Peers <- Conns, offers <- offersBar,
       spent <- spentBar, claims <- claimsBar, joined <- joinedBar

Rendezvous == R!RSpec

\* A waiting host that hung up stops blocking its route, without the TTL
\* running out (HOST_LIVENESS_POLL_INTERVAL).
HostReleased(c) ==
  (\E w \in waiting : w.host = c) /\ peer[c] = "gone" ~> ~(\E w \in waiting : w.host = c)

\* A viewer that named a route and stays is answered or cut off whatever the others do:
\* the hand-off leaves no viewer behind in a channel nobody reads.
ClaimSettled(v) ==
  pc[v] \in {"claim", "send", "moved"}
     ~> replies[v] # <<>> \/ v \notin open \/ peer[v] = "gone"

\* Every connection is closed and its permit given back, unless it is served: a
\* host that waits, or either side of a tunnel that runs, which only their
\* absolute limits end.  A viewer whose host's thread has gone is not served.
Served(c) ==
  \/ pc[c] \in {"wait", "tunnel"}
  \/ \E h \in Conns : c \in viewerOf[h] /\ pc[h] = "tunnel"
ConnectionEnds(c) == c \in open ~> c \notin open \/ Served(c)

=============================================================================
