---------------------------- MODULE RelayProofs ----------------------------
(***************************************************************************)
(* Proofs about Relay for any number of connections and routes.            *)
(*                                                                         *)
(* The hand-off of a viewer is proved safe from an inductive invariant     *)
(* that says where the one registration of a host is: in the table, with   *)
(* the claimant that removed it, in the host's channel, or in the hands of *)
(* the host's thread -- and nowhere else.                                  *)
(*                                                                         *)
(* From the same invariant, each thread tells its peers in the right order *)
(* (ToldInv), and every step is one of the abstract Rendezvous or unseen   *)
(* by it.                                                                  *)
(***************************************************************************)
EXTENDS Relay, FiniteSetTheorems, SequenceTheorems, TLAPS

-----------------------------------------------------------------------------
(* The inductive invariant *)

\* The host's thread once its registration is in the table, while it gives the
\* registration up, and once its viewer has come.
GivingUpPCs == {"expired", "unusable", "unannounced"}
OfferedPCs == {"announce", "wait"} \cup GivingUpPCs
MatchedPCs == {"match", "matchViewer", "tunnel"}

\* A thread that registers has been told its route.
RoutesNamed ==
  \A c \in Conns : pc[c] \in {"register", "insert"} => route[c] \in Routes

\* Registration ids are handed out once.
IdsUnique ==
  /\ \A c \in Conns : regId[c] < nextId
  /\ \A c, d \in Conns : regId[c] = regId[d] => c = d \/ regId[c] = 0
  /\ \A c \in Conns : pc[c] \in {"insert"} \cup OfferedPCs => regId[c] # 0

\* An entry is its host's own, the host has not left, and its route has no other.
EntriesOwned ==
  /\ \A w \in waiting : /\ pc[w.host] \in OfferedPCs
                        /\ w.route = route[w.host]
                        /\ w.id = regId[w.host]
  /\ \A w1, w2 \in waiting : w1.route = w2.route => w1 = w2

\* A claimant owns the sender of at most one host, a host that can have no
\* other claimant.
SendersExclusive ==
  \A v, h \in Conns : h \in sender[v] =>
     /\ pc[v] = "send"
     /\ route[v] = route[h]
     /\ pc[h] \in OfferedPCs \cup {"leaving", "done"}
     /\ slot[h] = {} /\ viewerOf[h] = {}
     /\ \A w \in waiting : w.host # h
     /\ \A u \in Conns : h \in sender[u] => u = v
     /\ \A g \in sender[v] : g = h

\* A viewer in a host's channel is there alone.
SlotsExclusive ==
  \A h, v \in Conns : v \in slot[h] =>
     /\ pc[v] = "moved"
     /\ route[v] = route[h]
     /\ pc[h] \in OfferedPCs \cup {"leaving"}
     /\ viewerOf[h] = {}
     /\ \A w \in waiting : w.host # h
     /\ \A u \in slot[h] : u = v
     /\ \A g \in Conns : v \in slot[g] => g = h

\* A viewer a host's thread has received belongs to that thread alone.
MatchesExclusive ==
  \A h, v \in Conns : v \in viewerOf[h] =>
     /\ pc[v] = "moved"
     /\ route[v] = route[h]
     /\ pc[h] \in MatchedPCs \cup {"leaving"}
     /\ slot[h] = {}
     /\ \A w \in waiting : w.host # h
     /\ \A u \in viewerOf[h] : u = v
     /\ \A g \in Conns : v \in viewerOf[g] => g = h
     /\ \A g \in Conns : v \notin slot[g]

\* The inductive invariant of the hand-off.
HandoffInv ==
  /\ TypeOK /\ RoutesNamed /\ IdsUnique /\ EntriesOwned
  /\ SendersExclusive /\ SlotsExclusive /\ MatchesExclusive
  /\ NoOrphanedHost

-----------------------------------------------------------------------------
(* Types *)

\* A host that is unusable moves its thread as a look at it that fails does.
LEMMA PollFailing ==
  ASSUME NEW c \in Conns, PollUnusable(c)
  PROVE  PollFails(c)
  BY DEF PollUnusable, PollFails

\* A control response extends the replies by one response.
LEMMA WrittenType ==
  ASSUME TypeOK, NEW c \in Conns, NEW m \in Response
  PROVE  Written(c, m) \in [Conns -> Seq(Response)]
<1>1. replies[c] \in Seq(Response)
  BY DEF TypeOK
<1>2. Append(replies[c], m) \in Seq(Response)
  BY <1>1, SMT
<1> QED
  BY <1>1, <1>2 DEF TypeOK, Written

\* Every step keeps the types and what a registering thread knows.
LEMMA TypeStep ==
  ASSUME TypeOK, RoutesNamed, [Next]_vars
  PROVE  TypeOK' /\ RoutesNamed'
<1>2. TypeOK /\ RoutesNamed /\ [Next]_vars => TypeOK'
  <2> SUFFICES ASSUME TypeOK, RoutesNamed, [Next]_vars PROVE TypeOK'
    OBVIOUS
  <2>0. CASE UNCHANGED vars
    BY <2>0 DEF TypeOK, vars, table, handoff
  <2>1. ASSUME NEW c \in Conns, ReadRequest(c) PROVE TypeOK'
    <3>1. pc' \in [Conns -> PCs]
      BY <2>1 DEF TypeOK, ReadRequest, Goto, PCs, HostPCs, ViewerPCs
    <3> QED
      BY <2>1, <3>1 DEF TypeOK, table, handoff, ReadRequest
  <2>2. ASSUME NEW c \in Conns, ReadNoRequest(c) PROVE TypeOK'
    <3>1. pc' \in [Conns -> PCs]
      BY <2>2 DEF TypeOK, ReadNoRequest, Return, Owned, PCs, HostPCs, ViewerPCs
    <3>2. replies' \in [Conns -> Seq(Response)]
      BY <2>2, WrittenType DEF TypeOK, ReadNoRequest, Response
    <3> QED
      BY <2>2, <3>1, <3>2 DEF TypeOK, table, handoff, ReadNoRequest, Return, Owned
  <2>3. ASSUME NEW c \in Conns, TakeRegistrationId(c) PROVE TypeOK'
    <3>1. pc' \in [Conns -> PCs]
      BY <2>3 DEF TypeOK, TakeRegistrationId, Goto, PCs, HostPCs, ViewerPCs
    <3>2. regId' \in [Conns -> Nat] /\ nextId' \in Nat \ {0}
      BY <2>3 DEF TypeOK, TakeRegistrationId
    <3> QED
      BY <2>3, <3>1, <3>2 DEF TypeOK, table, handoff, TakeRegistrationId
  <2>4. ASSUME NEW c \in Conns, InsertRoute(c) PROVE TypeOK'
    <3>1. pc' \in [Conns -> PCs]
      BY <2>4 DEF TypeOK, InsertRoute, Goto, PCs, HostPCs, ViewerPCs
    <3>2. waiting' \subseteq Registration
      BY <2>4 DEF TypeOK, RoutesNamed, InsertRoute, Inserted, Registration
    <3> QED
      BY <2>4, <3>1, <3>2 DEF TypeOK, table, handoff, InsertRoute
  <2>5. ASSUME NEW c \in Conns, RefuseBusy(c) PROVE TypeOK'
    <3>1. pc' \in [Conns -> PCs]
      BY <2>5 DEF TypeOK, RefuseBusy, Return, Owned, PCs, HostPCs, ViewerPCs
    <3>2. replies' \in [Conns -> Seq(Response)]
      BY <2>5, WrittenType DEF TypeOK, RefuseBusy, Response
    <3> QED
      BY <2>5, <3>1, <3>2 DEF TypeOK, table, handoff, RefuseBusy, Return, Owned
  <2>6. ASSUME NEW c \in Conns, AnnounceRegistered(c) PROVE TypeOK'
    <3>1. pc' \in [Conns -> PCs]
      BY <2>6 DEF TypeOK, AnnounceRegistered, Goto, PCs, HostPCs, ViewerPCs
    <3>2. replies' \in [Conns -> Seq(Response)]
      BY <2>6, WrittenType DEF TypeOK, AnnounceRegistered, Response
    <3> QED
      BY <2>6, <3>1, <3>2 DEF TypeOK, table, handoff, AnnounceRegistered
  <2>7. ASSUME NEW c \in Conns, PollFails(c) PROVE TypeOK'
    <3>1. pc' \in [Conns -> PCs]
      BY <2>7 DEF TypeOK, PollFails, Goto, PCs, HostPCs, ViewerPCs
    <3> QED
      BY <2>7, <3>1 DEF TypeOK, table, handoff, PollFails
  <2>8. ASSUME NEW c \in Conns, RemoveRegistration(c) PROVE TypeOK'
    <3>1. pc' \in [Conns -> PCs]
      BY <2>8 DEF TypeOK, RemoveRegistration, Goto, PCs, HostPCs, ViewerPCs
    <3>2. replies' \in [Conns -> Seq(Response)]
      BY <2>8, WrittenType DEF TypeOK, RemoveRegistration, Response
    <3> QED
      BY <2>8, <3>1, <3>2 DEF TypeOK, table, handoff, RemoveRegistration, RemovedBy
  <2>9. ASSUME NEW c \in Conns, ReceiveViewer(c) PROVE TypeOK'
    <3>1. pc' \in [Conns -> PCs]
      BY <2>9 DEF TypeOK, ReceiveViewer, Goto, PCs, HostPCs, ViewerPCs
    <3> QED
      BY <2>9, <3>1 DEF TypeOK, table, handoff, ReceiveViewer
  <2>10. ASSUME NEW c \in Conns, MatchHost(c) PROVE TypeOK'
    <3>1. pc' \in [Conns -> PCs]
      BY <2>10 DEF TypeOK, MatchHost, Goto, PCs, HostPCs, ViewerPCs
    <3>2. replies' \in [Conns -> Seq(Response)]
      BY <2>10, WrittenType DEF TypeOK, MatchHost, Response
    <3> QED
      BY <2>10, <3>1, <3>2 DEF TypeOK, table, handoff, MatchHost
  <2>11. ASSUME NEW c \in Conns, MatchViewer(c) PROVE TypeOK'
    <3>1. pc' \in [Conns -> PCs]
      BY <2>11 DEF TypeOK, MatchViewer, Goto, PCs, HostPCs, ViewerPCs
    <3>2. replies' \in [Conns -> Seq(Response)]
      <4>1. PICK v \in viewerOf[c] : replies' = Written(v, "ClaimAccepted") \/ replies' = replies
        BY <2>11 DEF MatchViewer
      <4>2. v \in Conns /\ "ClaimAccepted" \in Response
        BY DEF TypeOK, Response
      <4> QED
        BY <4>1, <4>2, WrittenType DEF TypeOK
    <3> QED
      BY <2>11, <3>1, <3>2 DEF TypeOK, table, handoff, MatchViewer
  <2>12. ASSUME NEW c \in Conns, Leave(c) PROVE TypeOK'
    <3>1. pc' \in [Conns -> PCs]
      BY <2>12 DEF TypeOK, Leave, Return, Owned, PCs, HostPCs, ViewerPCs
    <3> QED
      BY <2>12, <3>1 DEF TypeOK, table, handoff, Leave, Return, Owned
  <2>13. ASSUME NEW c \in Conns, ClaimRoute(c) PROVE TypeOK'
    <3>1. pc' \in [Conns -> PCs]
      BY <2>13 DEF TypeOK, ClaimRoute, Goto, PCs, HostPCs, ViewerPCs
    <3>2. sender' \in [Conns -> SUBSET Conns]
      BY <2>13 DEF TypeOK, ClaimRoute, Registration
    <3> QED
      BY <2>13, <3>1, <3>2 DEF TypeOK, table, handoff, ClaimRoute
  <2>14. ASSUME NEW c \in Conns, ClaimMissing(c) PROVE TypeOK'
    <3>1. pc' \in [Conns -> PCs]
      BY <2>14 DEF TypeOK, ClaimMissing, Goto, PCs, HostPCs, ViewerPCs
    <3> QED
      BY <2>14, <3>1 DEF TypeOK, table, handoff, ClaimMissing
  <2>15. ASSUME NEW c \in Conns, SendViewer(c) PROVE TypeOK'
    <3>1. pc' \in [Conns -> PCs]
      BY <2>15 DEF TypeOK, SendViewer, Goto, PCs, HostPCs, ViewerPCs
    <3>2. sender' \in [Conns -> SUBSET Conns]
      BY <2>15 DEF TypeOK, SendViewer
    <3>3. slot' \in [Conns -> SUBSET Conns]
      <4>1. PICK h \in sender[c] : slot' = [slot EXCEPT ![h] = {c}] \/ slot' = slot
        BY <2>15 DEF SendViewer
      <4>2. {c} \in SUBSET Conns /\ slot \in [Conns -> SUBSET Conns]
        BY DEF TypeOK
      <4> QED
        BY <4>1, <4>2
    <3> QED
      BY <2>15, <3>1, <3>2, <3>3 DEF TypeOK, table, handoff, SendViewer
  <2>16. ASSUME NEW c \in Conns, RefuseViewer(c) PROVE TypeOK'
    <3>1. pc' \in [Conns -> PCs]
      BY <2>16 DEF TypeOK, RefuseViewer, Return, Owned, PCs, HostPCs, ViewerPCs
    <3>2. replies' \in [Conns -> Seq(Response)]
      BY <2>16, WrittenType DEF TypeOK, RefuseViewer, Response
    <3> QED
      BY <2>16, <3>1, <3>2 DEF TypeOK, table, handoff, RefuseViewer, Return, Owned
  <2>17. ASSUME NEW c \in Conns, Expire(c) PROVE TypeOK'
    <3>1. pc' \in [Conns -> PCs]
      BY <2>17 DEF TypeOK, Expire, Goto, PCs, HostPCs, ViewerPCs
    <3> QED
      BY <2>17, <3>1 DEF TypeOK, table, handoff, Expire
  <2>18. ASSUME NEW c \in Conns, EndTunnel(c) PROVE TypeOK'
    <3>1. pc' \in [Conns -> PCs]
      BY <2>18 DEF TypeOK, EndTunnel, Goto, PCs, HostPCs, ViewerPCs
    <3> QED
      BY <2>18, <3>1 DEF TypeOK, table, handoff, EndTunnel
  <2>19. ASSUME NEW c \in Conns, Accept(c) PROVE TypeOK'
    <3>1. pc' \in [Conns -> PCs]
      BY <2>19 DEF TypeOK, Accept, Goto, PCs
    <3> QED
      BY <2>19, <3>1 DEF TypeOK, table, handoff, Accept
  <2>22. ASSUME NEW c \in Conns, Admit(c) PROVE TypeOK'
    <3>1. pc' \in [Conns -> PCs]
      BY <2>22 DEF TypeOK, Admit, Goto, PCs
    <3> QED
      BY <2>22, <3>1 DEF TypeOK, table, handoff, Admit
  <2>23. ASSUME NEW c \in Conns, TurnAway(c) PROVE TypeOK'
    <3>1. pc' \in [Conns -> PCs]
      BY <2>23 DEF TypeOK, TurnAway, Goto, PCs
    <3>2. replies' \in [Conns -> Seq(Response)]
      BY <2>23, WrittenType DEF TypeOK, TurnAway, Response
    <3> QED
      BY <2>23, <3>1, <3>2 DEF TypeOK, table, handoff, TurnAway
  <2>20. ASSUME NEW c \in Conns, HangUp(c) PROVE TypeOK'
    <3> QED
      BY <2>20 DEF TypeOK, table, handoff, HangUp
  <2>21. ASSUME NEW c \in Conns, TalkEarly(c) PROVE TypeOK'
    <3> QED
      BY <2>21 DEF TypeOK, table, handoff, TalkEarly
  <2> QED
    BY <2>0, <2>1, <2>2, <2>3, <2>4, <2>5, <2>6, <2>7, <2>8, <2>9, <2>10, <2>11, <2>12,
       <2>13, <2>14, <2>15, <2>16, <2>17, <2>18, <2>19, <2>20, <2>21, <2>22, <2>23,
       PollFailing DEF Next, HostStep, ViewerStep, Acceptor, Environment
<1>3. TypeOK /\ RoutesNamed /\ [Next]_vars => RoutesNamed'
  <2> SUFFICES ASSUME TypeOK, RoutesNamed, [Next]_vars, NEW d \in Conns,
                      pc'[d] \in {"register", "insert"}
               PROVE  route'[d] \in Routes
    BY DEF RoutesNamed
  <2>0. CASE UNCHANGED vars
    BY <2>0 DEF RoutesNamed, vars
  <2>1. ASSUME NEW c \in Conns, ReadRequest(c) PROVE route'[d] \in Routes
    BY <2>1 DEF TypeOK, RoutesNamed, table, handoff, ReadRequest, Goto
  <2>2. ASSUME NEW c \in Conns, ReadNoRequest(c) PROVE route'[d] \in Routes
    BY <2>2 DEF TypeOK, RoutesNamed, table, handoff, ReadNoRequest, Return, Owned
  <2>3. ASSUME NEW c \in Conns, TakeRegistrationId(c) PROVE route'[d] \in Routes
    BY <2>3 DEF TypeOK, RoutesNamed, table, handoff, TakeRegistrationId, Goto
  <2>4. ASSUME NEW c \in Conns, InsertRoute(c) PROVE route'[d] \in Routes
    BY <2>4 DEF TypeOK, RoutesNamed, table, handoff, InsertRoute, Goto
  <2>5. ASSUME NEW c \in Conns, RefuseBusy(c) PROVE route'[d] \in Routes
    BY <2>5 DEF TypeOK, RoutesNamed, table, handoff, RefuseBusy, Return, Owned
  <2>6. ASSUME NEW c \in Conns, AnnounceRegistered(c) PROVE route'[d] \in Routes
    BY <2>6 DEF TypeOK, RoutesNamed, table, handoff, AnnounceRegistered, Goto
  <2>7. ASSUME NEW c \in Conns, PollFails(c) PROVE route'[d] \in Routes
    BY <2>7 DEF TypeOK, RoutesNamed, table, handoff, PollFails, Goto
  <2>8. ASSUME NEW c \in Conns, RemoveRegistration(c) PROVE route'[d] \in Routes
    BY <2>8 DEF TypeOK, RoutesNamed, table, handoff, RemoveRegistration, Goto
  <2>9. ASSUME NEW c \in Conns, ReceiveViewer(c) PROVE route'[d] \in Routes
    BY <2>9 DEF TypeOK, RoutesNamed, table, handoff, ReceiveViewer, Goto
  <2>10. ASSUME NEW c \in Conns, MatchHost(c) PROVE route'[d] \in Routes
    BY <2>10 DEF TypeOK, RoutesNamed, table, handoff, MatchHost, Goto
  <2>11. ASSUME NEW c \in Conns, MatchViewer(c) PROVE route'[d] \in Routes
    BY <2>11 DEF TypeOK, RoutesNamed, table, handoff, MatchViewer, Goto
  <2>12. ASSUME NEW c \in Conns, Leave(c) PROVE route'[d] \in Routes
    BY <2>12 DEF TypeOK, RoutesNamed, table, handoff, Leave, Return, Owned
  <2>13. ASSUME NEW c \in Conns, ClaimRoute(c) PROVE route'[d] \in Routes
    BY <2>13 DEF TypeOK, RoutesNamed, table, handoff, ClaimRoute, Goto
  <2>14. ASSUME NEW c \in Conns, ClaimMissing(c) PROVE route'[d] \in Routes
    BY <2>14 DEF TypeOK, RoutesNamed, table, handoff, ClaimMissing, Goto
  <2>15. ASSUME NEW c \in Conns, SendViewer(c) PROVE route'[d] \in Routes
    BY <2>15 DEF TypeOK, RoutesNamed, table, handoff, SendViewer, Goto
  <2>16. ASSUME NEW c \in Conns, RefuseViewer(c) PROVE route'[d] \in Routes
    BY <2>16 DEF TypeOK, RoutesNamed, table, handoff, RefuseViewer, Return, Owned
  <2>17. ASSUME NEW c \in Conns, Expire(c) PROVE route'[d] \in Routes
    BY <2>17 DEF TypeOK, RoutesNamed, table, handoff, Expire, Goto
  <2>18. ASSUME NEW c \in Conns, EndTunnel(c) PROVE route'[d] \in Routes
    BY <2>18 DEF TypeOK, RoutesNamed, table, handoff, EndTunnel, Goto
  <2>19. ASSUME NEW c \in Conns, Accept(c) \/ Acceptor(c) PROVE route'[d] \in Routes
    BY <2>19 DEF TypeOK, RoutesNamed, table, handoff, Accept, Acceptor, Admit, TurnAway, Goto
  <2>20. ASSUME NEW c \in Conns, HangUp(c) PROVE route'[d] \in Routes
    BY <2>20 DEF TypeOK, RoutesNamed, table, handoff, HangUp
  <2>21. ASSUME NEW c \in Conns, TalkEarly(c) PROVE route'[d] \in Routes
    BY <2>21 DEF TypeOK, RoutesNamed, table, handoff, TalkEarly
  <2> QED
    BY <2>0, <2>1, <2>2, <2>3, <2>4, <2>5, <2>6, <2>7, <2>8, <2>9, <2>10, <2>11, <2>12,
       <2>13, <2>14, <2>15, <2>16, <2>17, <2>18, <2>19, <2>20, <2>21, PollFailing
       DEF Next, HostStep, ViewerStep, Environment
<1> QED
  BY <1>2, <1>3

\* The shapes of the state (TypeOK of Relay) are an invariant: in particular
\* registration ids never reach 0, which stands for "none yet".
THEOREM TypeCorrect == Spec => []TypeOK
<1>1. Init => TypeOK /\ RoutesNamed
  BY DEF Init, TypeOK, RoutesNamed, PCs, FirstId
<1>2. TypeOK /\ RoutesNamed /\ [Next]_vars => (TypeOK /\ RoutesNamed)'
  BY TypeStep
<1> QED
  BY <1>1, <1>2, PTL DEF Spec

-----------------------------------------------------------------------------
(* The hand-off *)

\* The thread of c returns: only it and viewers in its hands are done.
LEMMA ReturnMoves ==
  ASSUME HandoffInv, NEW c \in Conns, Return(c)
  PROVE  /\ \A x \in Conns : \/ pc'[x] = pc[x]
                             \/ pc'[x] = "done" /\ (x = c \/ pc[x] = "moved")
         /\ pc'[c] = "done"
         /\ \A x \in Conns \ {c} : slot'[x] = slot[x]
  BY DEF HandoffInv, TypeOK, Return, Owned, SlotsExclusive, MatchesExclusive

\* The acceptor writes to a far end and moves what is to be a thread, nothing
\* else of the hand-off.
LEMMA AcceptorMoves ==
  ASSUME NEW c \in Conns, Accept(c) \/ Acceptor(c)
  PROVE  /\ pc[c] \in {"absent", "accepted"}
         /\ \E next \in {"accepted", "request", "done"} : pc' = [pc EXCEPT ![c] = next]
         /\ UNCHANGED <<route, regId, nextId, waiting, sender, slot, viewerOf>>
  BY DEF Accept, Acceptor, Admit, TurnAway, Goto, table, handoff

\* AnnounceRegistered writes to a far end and moves its own thread, nothing
\* else of the hand-off.
LEMMA AnnounceRegisteredMoves ==
  ASSUME NEW c \in Conns, AnnounceRegistered(c)
  PROVE  /\ pc[c] = "announce"
         /\ \/ pc' = [pc EXCEPT ![c] = "wait"]
            \/ pc' = [pc EXCEPT ![c] = "unannounced"]
         /\ UNCHANGED <<route, regId, nextId, waiting, sender, slot, viewerOf>>
  BY DEF AnnounceRegistered, Goto, table, handoff

\* MatchHost writes to a far end and moves its own thread, nothing else of the hand-off.
LEMMA MatchHostMoves ==
  ASSUME NEW c \in Conns, MatchHost(c)
  PROVE  /\ pc[c] = "match"
         /\ \/ pc' = [pc EXCEPT ![c] = "matchViewer"]
            \/ pc' = [pc EXCEPT ![c] = "leaving"]
         /\ UNCHANGED <<route, regId, nextId, waiting, sender, slot, viewerOf>>
  BY DEF MatchHost, Goto, table, handoff

\* MatchViewer writes to a far end and moves its own thread, nothing else of
\* the hand-off.
LEMMA MatchViewerMoves ==
  ASSUME NEW c \in Conns, MatchViewer(c)
  PROVE  /\ pc[c] = "matchViewer"
         /\ \/ pc' = [pc EXCEPT ![c] = "tunnel"]
            \/ pc' = [pc EXCEPT ![c] = "leaving"]
         /\ UNCHANGED <<route, regId, nextId, waiting, sender, slot, viewerOf>>
  BY DEF MatchViewer, Goto, table, handoff

\* Every step keeps registration ids unique: only TakeRegistrationId hands one out.
LEMMA IdsUniqueStep ==
  ASSUME HandoffInv, [Next]_vars
  PROVE  IdsUnique'
<1> USE DEF HandoffInv
<1>0. CASE UNCHANGED vars
  BY <1>0 DEF IdsUnique, vars, table, handoff
<1>1. ASSUME NEW c \in Conns, ReadRequest(c) PROVE IdsUnique'
  BY <1>1 DEF IdsUnique, OfferedPCs, GivingUpPCs, TypeOK, table, handoff, ReadRequest,
     Goto
<1>2. ASSUME NEW c \in Conns, ReadNoRequest(c) PROVE IdsUnique'
  BY <1>2 DEF IdsUnique, OfferedPCs, GivingUpPCs, TypeOK, table, handoff, ReadNoRequest,
     Return, Owned
<1>3. ASSUME NEW c \in Conns, TakeRegistrationId(c) PROVE IdsUnique'
  BY <1>3 DEF IdsUnique, OfferedPCs, GivingUpPCs, TypeOK, table, handoff,
     TakeRegistrationId, Goto
<1>4. ASSUME NEW c \in Conns, InsertRoute(c) PROVE IdsUnique'
  BY <1>4 DEF IdsUnique, OfferedPCs, GivingUpPCs, TypeOK, table, handoff, InsertRoute,
     Goto, Inserted, Registration
<1>5. ASSUME NEW c \in Conns, RefuseBusy(c) PROVE IdsUnique'
  BY <1>5 DEF IdsUnique, OfferedPCs, GivingUpPCs, TypeOK, table, handoff, RefuseBusy,
     Return, Owned
<1>6. ASSUME NEW c \in Conns, AnnounceRegistered(c) PROVE IdsUnique'
  BY <1>6 DEF IdsUnique, OfferedPCs, GivingUpPCs, TypeOK, table, handoff,
     AnnounceRegistered, Goto
<1>7. ASSUME NEW c \in Conns, PollFails(c) PROVE IdsUnique'
  BY <1>7 DEF IdsUnique, OfferedPCs, GivingUpPCs, TypeOK, table, handoff, PollFails,
     Goto
<1>8. ASSUME NEW c \in Conns, RemoveRegistration(c) PROVE IdsUnique'
  BY <1>8 DEF IdsUnique, OfferedPCs, GivingUpPCs, TypeOK, table, handoff,
     RemoveRegistration, Goto, RemovedBy
<1>9. ASSUME NEW c \in Conns, ReceiveViewer(c) PROVE IdsUnique'
  BY <1>9 DEF IdsUnique, OfferedPCs, GivingUpPCs, TypeOK, table, handoff, ReceiveViewer,
     Goto
<1>10. ASSUME NEW c \in Conns, MatchHost(c) PROVE IdsUnique'
  BY <1>10 DEF IdsUnique, OfferedPCs, GivingUpPCs, TypeOK, table, handoff, MatchHost,
     Goto
<1>11. ASSUME NEW c \in Conns, MatchViewer(c) PROVE IdsUnique'
  BY <1>11 DEF IdsUnique, OfferedPCs, GivingUpPCs, TypeOK, table, handoff, MatchViewer,
     Goto
<1>12. ASSUME NEW c \in Conns, Leave(c) PROVE IdsUnique'
  BY <1>12 DEF IdsUnique, OfferedPCs, GivingUpPCs, TypeOK, table, handoff, Leave, Return, Owned
<1>13. ASSUME NEW c \in Conns, ClaimRoute(c) PROVE IdsUnique'
  BY <1>13 DEF IdsUnique, OfferedPCs, GivingUpPCs, TypeOK, table, handoff, ClaimRoute,
     Goto
<1>14. ASSUME NEW c \in Conns, ClaimMissing(c) PROVE IdsUnique'
  BY <1>14 DEF IdsUnique, OfferedPCs, GivingUpPCs, TypeOK, table, handoff, ClaimMissing,
     Goto
<1>15. ASSUME NEW c \in Conns, SendViewer(c) PROVE IdsUnique'
  BY <1>15 DEF IdsUnique, OfferedPCs, GivingUpPCs, TypeOK, table, handoff, SendViewer,
     Goto
<1>16. ASSUME NEW c \in Conns, RefuseViewer(c) PROVE IdsUnique'
  BY <1>16 DEF IdsUnique, OfferedPCs, GivingUpPCs, TypeOK, table, handoff, RefuseViewer,
     Return, Owned
<1>17. ASSUME NEW c \in Conns, Expire(c) PROVE IdsUnique'
  BY <1>17 DEF IdsUnique, OfferedPCs, GivingUpPCs, TypeOK, table, handoff, Expire, Goto
<1>18. ASSUME NEW c \in Conns, EndTunnel(c) PROVE IdsUnique'
  BY <1>18 DEF IdsUnique, OfferedPCs, GivingUpPCs, TypeOK, table, handoff, EndTunnel,
     Goto
<1>19. ASSUME NEW c \in Conns, Accept(c) \/ Acceptor(c) PROVE IdsUnique'
  <2>1. UNCHANGED <<regId, nextId>>
    BY <1>19, AcceptorMoves
  <2>2. PICK next \in {"accepted", "request", "done"} : pc' = [pc EXCEPT ![c] = next]
    BY <1>19, AcceptorMoves
  <2> QED
    BY <2>1, <2>2 DEF IdsUnique, OfferedPCs, GivingUpPCs, TypeOK
<1>20. ASSUME NEW c \in Conns, HangUp(c) PROVE IdsUnique'
  BY <1>20 DEF IdsUnique, OfferedPCs, GivingUpPCs, TypeOK, table, handoff, HangUp
<1>21. ASSUME NEW c \in Conns, TalkEarly(c) PROVE IdsUnique'
  BY <1>21 DEF IdsUnique, OfferedPCs, GivingUpPCs, TypeOK, table, handoff, TalkEarly
<1> QED
  BY <1>0, <1>1, <1>2, <1>3, <1>4, <1>5, <1>6, <1>7, <1>8, <1>9, <1>10, <1>11, <1>12,
     <1>13, <1>14, <1>15, <1>16, <1>17, <1>18, <1>19, <1>20, <1>21, PollFailing
     DEF Next, HostStep, ViewerStep, Environment

\* Every step keeps the table owned: only InsertRoute adds an entry, and a host
\* leaves the states in which it may have one only after removing it.
LEMMA EntriesOwnedStep ==
  ASSUME HandoffInv, [Next]_vars
  PROVE  EntriesOwned'
<1> USE DEF HandoffInv
<1>0. CASE UNCHANGED vars
  BY <1>0 DEF EntriesOwned, vars, table, handoff
<1>1. ASSUME NEW c \in Conns, ReadRequest(c) PROVE EntriesOwned'
  BY <1>1 DEF EntriesOwned, OfferedPCs, GivingUpPCs, TypeOK, IdsUnique, RoutesNamed,
     Registration, table, handoff, ReadRequest, Goto
<1>2. ASSUME NEW c \in Conns, ReadNoRequest(c) PROVE EntriesOwned'
  <2>1. /\ UNCHANGED <<route, regId, waiting>>
        /\ pc[c] \notin OfferedPCs
        /\ \A x \in Conns : pc'[x] # pc[x] => x = c \/ pc[x] = "moved"
    BY <1>2, ReturnMoves DEF ReadNoRequest, OfferedPCs, GivingUpPCs, table
  <2> QED
    BY <2>1 DEF EntriesOwned, OfferedPCs, GivingUpPCs, TypeOK, Registration
<1>3. ASSUME NEW c \in Conns, TakeRegistrationId(c) PROVE EntriesOwned'
  BY <1>3 DEF EntriesOwned, OfferedPCs, GivingUpPCs, TypeOK, IdsUnique, RoutesNamed,
     Registration, table, handoff, TakeRegistrationId, Goto
<1>4. ASSUME NEW c \in Conns, InsertRoute(c) PROVE EntriesOwned'
  BY <1>4 DEF EntriesOwned, OfferedPCs, GivingUpPCs, TypeOK, IdsUnique, RoutesNamed,
     Registration, table, handoff, InsertRoute, Goto, Inserted, IsRegistered
<1>5. ASSUME NEW c \in Conns, RefuseBusy(c) PROVE EntriesOwned'
  <2>1. /\ UNCHANGED <<route, regId, waiting>>
        /\ pc[c] \notin OfferedPCs
        /\ \A x \in Conns : pc'[x] # pc[x] => x = c \/ pc[x] = "moved"
    BY <1>5, ReturnMoves DEF RefuseBusy, OfferedPCs, GivingUpPCs, table
  <2> QED
    BY <2>1 DEF EntriesOwned, OfferedPCs, GivingUpPCs, TypeOK, Registration
<1>6. ASSUME NEW c \in Conns, AnnounceRegistered(c) PROVE EntriesOwned'
  <2>1. pc[c] = "announce" /\ UNCHANGED <<route, regId, nextId, waiting, sender, slot, viewerOf>>
    BY <1>6, AnnounceRegisteredMoves
  <2>2. CASE pc' = [pc EXCEPT ![c] = "wait"]
    BY <2>1, <2>2 DEF EntriesOwned, OfferedPCs, GivingUpPCs, TypeOK, Registration
  <2>3. CASE pc' = [pc EXCEPT ![c] = "unannounced"]
    BY <2>1, <2>3 DEF EntriesOwned, OfferedPCs, GivingUpPCs, TypeOK, Registration
  <2> QED
    BY <1>6, <2>2, <2>3, AnnounceRegisteredMoves
<1>7. ASSUME NEW c \in Conns, PollFails(c) PROVE EntriesOwned'
  BY <1>7 DEF EntriesOwned, OfferedPCs, GivingUpPCs, TypeOK, IdsUnique, RoutesNamed,
     Registration, table, handoff, PollFails, Goto
<1>8. ASSUME NEW c \in Conns, RemoveRegistration(c) PROVE EntriesOwned'
  BY <1>8 DEF EntriesOwned, OfferedPCs, GivingUpPCs, TypeOK, IdsUnique, RoutesNamed,
     Registration, table, handoff, RemoveRegistration, Goto, RemovedBy
<1>9. ASSUME NEW c \in Conns, ReceiveViewer(c) PROVE EntriesOwned'
  <2>1. \A w \in waiting : w.host # c
    BY <1>9 DEF ReceiveViewer, SlotsExclusive, TypeOK
  <2> QED
    BY <1>9, <2>1 DEF EntriesOwned, OfferedPCs, GivingUpPCs, TypeOK, Registration,
       ReceiveViewer, Goto, table
<1>10. ASSUME NEW c \in Conns, MatchHost(c) PROVE EntriesOwned'
  <2>1. pc[c] = "match" /\ UNCHANGED <<route, regId, nextId, waiting, sender, slot, viewerOf>>
    BY <1>10, MatchHostMoves
  <2>2. CASE pc' = [pc EXCEPT ![c] = "matchViewer"]
    BY <2>1, <2>2 DEF EntriesOwned, OfferedPCs, GivingUpPCs, TypeOK, Registration
  <2>3. CASE pc' = [pc EXCEPT ![c] = "leaving"]
    BY <2>1, <2>3 DEF EntriesOwned, OfferedPCs, GivingUpPCs, TypeOK, Registration
  <2> QED
    BY <1>10, <2>2, <2>3, MatchHostMoves
<1>11. ASSUME NEW c \in Conns, MatchViewer(c) PROVE EntriesOwned'
  <2>1. pc[c] = "matchViewer" /\ UNCHANGED <<route, regId, nextId, waiting, sender, slot, viewerOf>>
    BY <1>11, MatchViewerMoves
  <2>2. CASE pc' = [pc EXCEPT ![c] = "tunnel"]
    BY <2>1, <2>2 DEF EntriesOwned, OfferedPCs, GivingUpPCs, TypeOK, Registration
  <2>3. CASE pc' = [pc EXCEPT ![c] = "leaving"]
    BY <2>1, <2>3 DEF EntriesOwned, OfferedPCs, GivingUpPCs, TypeOK, Registration
  <2> QED
    BY <1>11, <2>2, <2>3, MatchViewerMoves
<1>12. ASSUME NEW c \in Conns, Leave(c) PROVE EntriesOwned'
  <2>1. /\ UNCHANGED <<route, regId, waiting>>
        /\ pc[c] \notin OfferedPCs
        /\ \A x \in Conns : pc'[x] # pc[x] => x = c \/ pc[x] = "moved"
    BY <1>12, ReturnMoves DEF Leave, OfferedPCs, GivingUpPCs, table
  <2> QED
    BY <2>1 DEF EntriesOwned, OfferedPCs, GivingUpPCs, TypeOK, Registration
<1>13. ASSUME NEW c \in Conns, ClaimRoute(c) PROVE EntriesOwned'
  BY <1>13 DEF EntriesOwned, OfferedPCs, GivingUpPCs, TypeOK, IdsUnique, RoutesNamed,
     Registration, table, handoff, ClaimRoute, Goto
<1>14. ASSUME NEW c \in Conns, ClaimMissing(c) PROVE EntriesOwned'
  BY <1>14 DEF EntriesOwned, OfferedPCs, GivingUpPCs, TypeOK, IdsUnique, RoutesNamed,
     Registration, table, handoff, ClaimMissing, Goto
<1>15. ASSUME NEW c \in Conns, SendViewer(c) PROVE EntriesOwned'
  BY <1>15 DEF EntriesOwned, OfferedPCs, GivingUpPCs, TypeOK, IdsUnique, RoutesNamed,
     Registration, table, handoff, SendViewer, Goto
<1>16. ASSUME NEW c \in Conns, RefuseViewer(c) PROVE EntriesOwned'
  <2>1. /\ UNCHANGED <<route, regId, waiting>>
        /\ pc[c] \notin OfferedPCs
        /\ \A x \in Conns : pc'[x] # pc[x] => x = c \/ pc[x] = "moved"
    BY <1>16, ReturnMoves DEF RefuseViewer, OfferedPCs, GivingUpPCs, table
  <2> QED
    BY <2>1 DEF EntriesOwned, OfferedPCs, GivingUpPCs, TypeOK, Registration
<1>17. ASSUME NEW c \in Conns, Expire(c) PROVE EntriesOwned'
  BY <1>17 DEF EntriesOwned, OfferedPCs, GivingUpPCs, TypeOK, IdsUnique, RoutesNamed,
     Registration, table, handoff, Expire, Goto
<1>18. ASSUME NEW c \in Conns, EndTunnel(c) PROVE EntriesOwned'
  BY <1>18 DEF EntriesOwned, OfferedPCs, GivingUpPCs, TypeOK, IdsUnique, RoutesNamed,
     Registration, table, handoff, EndTunnel, Goto
<1>19. ASSUME NEW c \in Conns, Accept(c) \/ Acceptor(c) PROVE EntriesOwned'
  <2>1. /\ pc[c] \in {"absent", "accepted"}
        /\ UNCHANGED <<route, regId, nextId, waiting, sender, slot, viewerOf>>
    BY <1>19, AcceptorMoves
  <2>2. PICK next \in {"accepted", "request", "done"} : pc' = [pc EXCEPT ![c] = next]
    BY <1>19, AcceptorMoves
  <2> QED
    BY <2>1, <2>2 DEF EntriesOwned, OfferedPCs, GivingUpPCs, TypeOK, Registration
<1>20. ASSUME NEW c \in Conns, HangUp(c) PROVE EntriesOwned'
  BY <1>20 DEF EntriesOwned, OfferedPCs, GivingUpPCs, TypeOK, IdsUnique, RoutesNamed,
     Registration, table, handoff, HangUp
<1>21. ASSUME NEW c \in Conns, TalkEarly(c) PROVE EntriesOwned'
  BY <1>21 DEF EntriesOwned, OfferedPCs, GivingUpPCs, TypeOK, IdsUnique, RoutesNamed,
     Registration, table, handoff, TalkEarly
<1> QED
  BY <1>0, <1>1, <1>2, <1>3, <1>4, <1>5, <1>6, <1>7, <1>8, <1>9, <1>10, <1>11, <1>12,
     <1>13, <1>14, <1>15, <1>16, <1>17, <1>18, <1>19, <1>20, <1>21, PollFailing
     DEF Next, HostStep, ViewerStep, Environment

\* Every step keeps claims exclusive: a claim removes the only entry of its host.
LEMMA SendersExclusiveStep ==
  ASSUME HandoffInv, [Next]_vars
  PROVE  SendersExclusive'
<1> USE DEF HandoffInv
<1>0. CASE UNCHANGED vars
  BY <1>0 DEF SendersExclusive, vars, table, handoff
<1>1. ASSUME NEW c \in Conns, ReadRequest(c) PROVE SendersExclusive'
  BY <1>1 DEF SendersExclusive, OfferedPCs, GivingUpPCs, TypeOK, EntriesOwned,
     SlotsExclusive, MatchesExclusive, table, handoff, ReadRequest, Goto
<1>2. ASSUME NEW c \in Conns, ReadNoRequest(c) PROVE SendersExclusive'
  BY <1>2 DEF SendersExclusive, OfferedPCs, GivingUpPCs, TypeOK, EntriesOwned,
     SlotsExclusive, MatchesExclusive, table, handoff, ReadNoRequest, Return, Owned
<1>3. ASSUME NEW c \in Conns, TakeRegistrationId(c) PROVE SendersExclusive'
  BY <1>3 DEF SendersExclusive, OfferedPCs, GivingUpPCs, TypeOK, EntriesOwned,
     SlotsExclusive, MatchesExclusive, table, handoff, TakeRegistrationId, Goto
<1>4. ASSUME NEW c \in Conns, InsertRoute(c) PROVE SendersExclusive'
  BY <1>4 DEF SendersExclusive, OfferedPCs, GivingUpPCs, TypeOK, EntriesOwned,
     SlotsExclusive, MatchesExclusive, table, handoff, InsertRoute, Goto, Inserted,
     Registration
<1>5. ASSUME NEW c \in Conns, RefuseBusy(c) PROVE SendersExclusive'
  BY <1>5 DEF SendersExclusive, OfferedPCs, GivingUpPCs, TypeOK, EntriesOwned,
     SlotsExclusive, MatchesExclusive, table, handoff, RefuseBusy, Return, Owned
<1>6. ASSUME NEW c \in Conns, AnnounceRegistered(c) PROVE SendersExclusive'
  <2>1. pc[c] = "announce" /\ UNCHANGED <<route, regId, nextId, waiting, sender, slot, viewerOf>>
    BY <1>6, AnnounceRegisteredMoves
  <2>2. CASE pc' = [pc EXCEPT ![c] = "wait"]
    BY <2>1, <2>2 DEF SendersExclusive, OfferedPCs, GivingUpPCs, TypeOK, SlotsExclusive,
       MatchesExclusive, EntriesOwned
  <2>3. CASE pc' = [pc EXCEPT ![c] = "unannounced"]
    BY <2>1, <2>3 DEF SendersExclusive, OfferedPCs, GivingUpPCs, TypeOK, SlotsExclusive,
       MatchesExclusive, EntriesOwned
  <2> QED
    BY <1>6, <2>2, <2>3, AnnounceRegisteredMoves
<1>7. ASSUME NEW c \in Conns, PollFails(c) PROVE SendersExclusive'
  BY <1>7 DEF SendersExclusive, OfferedPCs, GivingUpPCs, TypeOK, EntriesOwned,
     SlotsExclusive, MatchesExclusive, table, handoff, PollFails, Goto
<1>8. ASSUME NEW c \in Conns, RemoveRegistration(c) PROVE SendersExclusive'
  BY <1>8 DEF SendersExclusive, OfferedPCs, GivingUpPCs, TypeOK, EntriesOwned,
     SlotsExclusive, MatchesExclusive, table, handoff, RemoveRegistration, Goto,
     RemovedBy
<1>9. ASSUME NEW c \in Conns, ReceiveViewer(c) PROVE SendersExclusive'
  BY <1>9 DEF SendersExclusive, OfferedPCs, GivingUpPCs, TypeOK, EntriesOwned,
     SlotsExclusive, MatchesExclusive, table, handoff, ReceiveViewer, Goto
<1>10. ASSUME NEW c \in Conns, MatchHost(c) PROVE SendersExclusive'
  <2>1. pc[c] = "match" /\ UNCHANGED <<route, regId, nextId, waiting, sender, slot, viewerOf>>
    BY <1>10, MatchHostMoves
  <2>2. CASE pc' = [pc EXCEPT ![c] = "matchViewer"]
    BY <2>1, <2>2 DEF SendersExclusive, OfferedPCs, GivingUpPCs, TypeOK, SlotsExclusive,
       MatchesExclusive, EntriesOwned
  <2>3. CASE pc' = [pc EXCEPT ![c] = "leaving"]
    BY <2>1, <2>3 DEF SendersExclusive, OfferedPCs, GivingUpPCs, TypeOK, SlotsExclusive,
       MatchesExclusive, EntriesOwned
  <2> QED
    BY <1>10, <2>2, <2>3, MatchHostMoves
<1>11. ASSUME NEW c \in Conns, MatchViewer(c) PROVE SendersExclusive'
  <2>1. pc[c] = "matchViewer" /\ UNCHANGED <<route, regId, nextId, waiting, sender, slot, viewerOf>>
    BY <1>11, MatchViewerMoves
  <2>2. CASE pc' = [pc EXCEPT ![c] = "tunnel"]
    BY <2>1, <2>2 DEF SendersExclusive, OfferedPCs, GivingUpPCs, TypeOK, SlotsExclusive,
       MatchesExclusive, EntriesOwned
  <2>3. CASE pc' = [pc EXCEPT ![c] = "leaving"]
    BY <2>1, <2>3 DEF SendersExclusive, OfferedPCs, GivingUpPCs, TypeOK, SlotsExclusive,
       MatchesExclusive, EntriesOwned
  <2> QED
    BY <1>11, <2>2, <2>3, MatchViewerMoves
<1>12. ASSUME NEW c \in Conns, Leave(c) PROVE SendersExclusive'
  BY <1>12 DEF SendersExclusive, OfferedPCs, GivingUpPCs, TypeOK, EntriesOwned,
     SlotsExclusive, MatchesExclusive, table, handoff, Leave, Return, Owned
<1>13. ASSUME NEW c \in Conns, ClaimRoute(c) PROVE SendersExclusive'
  BY <1>13 DEF SendersExclusive, OfferedPCs, GivingUpPCs, TypeOK, EntriesOwned,
     SlotsExclusive, MatchesExclusive, table, handoff, ClaimRoute, Goto
<1>14. ASSUME NEW c \in Conns, ClaimMissing(c) PROVE SendersExclusive'
  BY <1>14 DEF SendersExclusive, OfferedPCs, GivingUpPCs, TypeOK, EntriesOwned,
     SlotsExclusive, MatchesExclusive, table, handoff, ClaimMissing, Goto
<1>15. ASSUME NEW c \in Conns, SendViewer(c) PROVE SendersExclusive'
  <2>1. PICK h \in sender[c] :
          \/ /\ pc[h] # "done"
             /\ slot' = [slot EXCEPT ![h] = {c}]
             /\ pc' = [pc EXCEPT ![c] = "moved"]
          \/ slot' = slot /\ pc' = [pc EXCEPT ![c] = "refuse"]
    BY <1>15 DEF SendViewer, Goto, ReceiverAlive
  <2>2. /\ h \in Conns /\ pc[c] = "send"
        /\ sender' = [sender EXCEPT ![c] = {}]
        /\ UNCHANGED <<route, waiting, viewerOf>>
    BY <1>15 DEF SendViewer, TypeOK, table
  <2>3. CASE /\ pc[h] # "done"
             /\ slot' = [slot EXCEPT ![h] = {c}]
             /\ pc' = [pc EXCEPT ![c] = "moved"]
    BY <2>2, <2>3 DEF SendersExclusive, OfferedPCs, GivingUpPCs, TypeOK, SlotsExclusive,
       MatchesExclusive, EntriesOwned
  <2>4. CASE slot' = slot /\ pc' = [pc EXCEPT ![c] = "refuse"]
    BY <2>2, <2>4 DEF SendersExclusive, OfferedPCs, GivingUpPCs, TypeOK, SlotsExclusive,
       MatchesExclusive, EntriesOwned
  <2> QED
    BY <2>1, <2>3, <2>4
<1>16. ASSUME NEW c \in Conns, RefuseViewer(c) PROVE SendersExclusive'
  BY <1>16 DEF SendersExclusive, OfferedPCs, GivingUpPCs, TypeOK, EntriesOwned,
     SlotsExclusive, MatchesExclusive, table, handoff, RefuseViewer, Return, Owned
<1>17. ASSUME NEW c \in Conns, Expire(c) PROVE SendersExclusive'
  BY <1>17 DEF SendersExclusive, OfferedPCs, GivingUpPCs, TypeOK, EntriesOwned,
     SlotsExclusive, MatchesExclusive, table, handoff, Expire, Goto
<1>18. ASSUME NEW c \in Conns, EndTunnel(c) PROVE SendersExclusive'
  BY <1>18 DEF SendersExclusive, OfferedPCs, GivingUpPCs, TypeOK, EntriesOwned,
     SlotsExclusive, MatchesExclusive, table, handoff, EndTunnel, Goto
<1>19. ASSUME NEW c \in Conns, Accept(c) \/ Acceptor(c) PROVE SendersExclusive'
  <2>1. /\ pc[c] \in {"absent", "accepted"}
        /\ UNCHANGED <<route, regId, nextId, waiting, sender, slot, viewerOf>>
    BY <1>19, AcceptorMoves
  <2>2. PICK next \in {"accepted", "request", "done"} : pc' = [pc EXCEPT ![c] = next]
    BY <1>19, AcceptorMoves
  <2> QED
    BY <2>1, <2>2 DEF SendersExclusive, OfferedPCs, GivingUpPCs, TypeOK, SlotsExclusive,
       MatchesExclusive, EntriesOwned
<1>20. ASSUME NEW c \in Conns, HangUp(c) PROVE SendersExclusive'
  BY <1>20 DEF SendersExclusive, OfferedPCs, GivingUpPCs, TypeOK, EntriesOwned,
     SlotsExclusive, MatchesExclusive, table, handoff, HangUp
<1>21. ASSUME NEW c \in Conns, TalkEarly(c) PROVE SendersExclusive'
  BY <1>21 DEF SendersExclusive, OfferedPCs, GivingUpPCs, TypeOK, EntriesOwned,
     SlotsExclusive, MatchesExclusive, table, handoff, TalkEarly
<1> QED
  BY <1>0, <1>1, <1>2, <1>3, <1>4, <1>5, <1>6, <1>7, <1>8, <1>9, <1>10, <1>11, <1>12,
     <1>13, <1>14, <1>15, <1>16, <1>17, <1>18, <1>19, <1>20, <1>21, PollFailing
     DEF Next, HostStep, ViewerStep, Environment

\* Every step keeps channels exclusive: the sender that filled one was the last.
LEMMA SlotsExclusiveStep ==
  ASSUME HandoffInv, [Next]_vars
  PROVE  SlotsExclusive'
<1> USE DEF HandoffInv
<1>0. CASE UNCHANGED vars
  BY <1>0 DEF SlotsExclusive, vars, table, handoff
<1>1. ASSUME NEW c \in Conns, ReadRequest(c) PROVE SlotsExclusive'
  BY <1>1 DEF SlotsExclusive, OfferedPCs, GivingUpPCs, TypeOK, EntriesOwned,
     SendersExclusive, MatchesExclusive, table, handoff, ReadRequest, Goto
<1>2. ASSUME NEW c \in Conns, ReadNoRequest(c) PROVE SlotsExclusive'
  BY <1>2 DEF SlotsExclusive, OfferedPCs, GivingUpPCs, TypeOK, EntriesOwned,
     SendersExclusive, MatchesExclusive, table, handoff, ReadNoRequest, Return, Owned
<1>3. ASSUME NEW c \in Conns, TakeRegistrationId(c) PROVE SlotsExclusive'
  BY <1>3 DEF SlotsExclusive, OfferedPCs, GivingUpPCs, TypeOK, EntriesOwned,
     SendersExclusive, MatchesExclusive, table, handoff, TakeRegistrationId, Goto
<1>4. ASSUME NEW c \in Conns, InsertRoute(c) PROVE SlotsExclusive'
  BY <1>4 DEF SlotsExclusive, OfferedPCs, GivingUpPCs, TypeOK, EntriesOwned,
     SendersExclusive, MatchesExclusive, table, handoff, InsertRoute, Goto, Inserted,
     Registration
<1>5. ASSUME NEW c \in Conns, RefuseBusy(c) PROVE SlotsExclusive'
  BY <1>5 DEF SlotsExclusive, OfferedPCs, GivingUpPCs, TypeOK, EntriesOwned,
     SendersExclusive, MatchesExclusive, table, handoff, RefuseBusy, Return, Owned
<1>6. ASSUME NEW c \in Conns, AnnounceRegistered(c) PROVE SlotsExclusive'
  <2>1. pc[c] = "announce" /\ UNCHANGED <<route, regId, nextId, waiting, sender, slot, viewerOf>>
    BY <1>6, AnnounceRegisteredMoves
  <2>2. CASE pc' = [pc EXCEPT ![c] = "wait"]
    BY <2>1, <2>2 DEF SlotsExclusive, OfferedPCs, GivingUpPCs, TypeOK, SendersExclusive,
       MatchesExclusive, EntriesOwned
  <2>3. CASE pc' = [pc EXCEPT ![c] = "unannounced"]
    BY <2>1, <2>3 DEF SlotsExclusive, OfferedPCs, GivingUpPCs, TypeOK, SendersExclusive,
       MatchesExclusive, EntriesOwned
  <2> QED
    BY <1>6, <2>2, <2>3, AnnounceRegisteredMoves
<1>7. ASSUME NEW c \in Conns, PollFails(c) PROVE SlotsExclusive'
  BY <1>7 DEF SlotsExclusive, OfferedPCs, GivingUpPCs, TypeOK, EntriesOwned,
     SendersExclusive, MatchesExclusive, table, handoff, PollFails, Goto
<1>8. ASSUME NEW c \in Conns, RemoveRegistration(c) PROVE SlotsExclusive'
  BY <1>8 DEF SlotsExclusive, OfferedPCs, GivingUpPCs, TypeOK, EntriesOwned,
     SendersExclusive, MatchesExclusive, table, handoff, RemoveRegistration, Goto,
     RemovedBy
<1>9. ASSUME NEW c \in Conns, ReceiveViewer(c) PROVE SlotsExclusive'
  BY <1>9 DEF SlotsExclusive, OfferedPCs, GivingUpPCs, TypeOK, EntriesOwned,
     SendersExclusive, MatchesExclusive, table, handoff, ReceiveViewer, Goto
<1>10. ASSUME NEW c \in Conns, MatchHost(c) PROVE SlotsExclusive'
  <2>1. pc[c] = "match" /\ UNCHANGED <<route, regId, nextId, waiting, sender, slot, viewerOf>>
    BY <1>10, MatchHostMoves
  <2>2. CASE pc' = [pc EXCEPT ![c] = "matchViewer"]
    BY <2>1, <2>2 DEF SlotsExclusive, OfferedPCs, GivingUpPCs, TypeOK, SendersExclusive,
       MatchesExclusive, EntriesOwned
  <2>3. CASE pc' = [pc EXCEPT ![c] = "leaving"]
    BY <2>1, <2>3 DEF SlotsExclusive, OfferedPCs, GivingUpPCs, TypeOK, SendersExclusive,
       MatchesExclusive, EntriesOwned
  <2> QED
    BY <1>10, <2>2, <2>3, MatchHostMoves
<1>11. ASSUME NEW c \in Conns, MatchViewer(c) PROVE SlotsExclusive'
  <2>1. pc[c] = "matchViewer" /\ UNCHANGED <<route, regId, nextId, waiting, sender, slot, viewerOf>>
    BY <1>11, MatchViewerMoves
  <2>2. CASE pc' = [pc EXCEPT ![c] = "tunnel"]
    BY <2>1, <2>2 DEF SlotsExclusive, OfferedPCs, GivingUpPCs, TypeOK, SendersExclusive,
       MatchesExclusive, EntriesOwned
  <2>3. CASE pc' = [pc EXCEPT ![c] = "leaving"]
    BY <2>1, <2>3 DEF SlotsExclusive, OfferedPCs, GivingUpPCs, TypeOK, SendersExclusive,
       MatchesExclusive, EntriesOwned
  <2> QED
    BY <1>11, <2>2, <2>3, MatchViewerMoves
<1>12. ASSUME NEW c \in Conns, Leave(c) PROVE SlotsExclusive'
  BY <1>12 DEF SlotsExclusive, OfferedPCs, GivingUpPCs, TypeOK, EntriesOwned,
     SendersExclusive, MatchesExclusive, table, handoff, Leave, Return, Owned
<1>13. ASSUME NEW c \in Conns, ClaimRoute(c) PROVE SlotsExclusive'
  BY <1>13 DEF SlotsExclusive, OfferedPCs, GivingUpPCs, TypeOK, EntriesOwned,
     SendersExclusive, MatchesExclusive, table, handoff, ClaimRoute, Goto
<1>14. ASSUME NEW c \in Conns, ClaimMissing(c) PROVE SlotsExclusive'
  BY <1>14 DEF SlotsExclusive, OfferedPCs, GivingUpPCs, TypeOK, EntriesOwned,
     SendersExclusive, MatchesExclusive, table, handoff, ClaimMissing, Goto
<1>15. ASSUME NEW c \in Conns, SendViewer(c) PROVE SlotsExclusive'
  <2>1. PICK h \in sender[c] :
          \/ /\ pc[h] # "done"
             /\ slot' = [slot EXCEPT ![h] = {c}]
             /\ pc' = [pc EXCEPT ![c] = "moved"]
          \/ slot' = slot /\ pc' = [pc EXCEPT ![c] = "refuse"]
    BY <1>15 DEF SendViewer, Goto, ReceiverAlive
  <2>2. /\ h \in Conns /\ pc[c] = "send"
        /\ sender' = [sender EXCEPT ![c] = {}]
        /\ UNCHANGED <<route, waiting, viewerOf>>
    BY <1>15 DEF SendViewer, TypeOK, table
  <2>3. CASE /\ pc[h] # "done"
             /\ slot' = [slot EXCEPT ![h] = {c}]
             /\ pc' = [pc EXCEPT ![c] = "moved"]
    BY <2>2, <2>3 DEF SlotsExclusive, OfferedPCs, GivingUpPCs, TypeOK, SendersExclusive,
       MatchesExclusive, EntriesOwned
  <2>4. CASE slot' = slot /\ pc' = [pc EXCEPT ![c] = "refuse"]
    BY <2>2, <2>4 DEF SlotsExclusive, OfferedPCs, GivingUpPCs, TypeOK, SendersExclusive,
       MatchesExclusive, EntriesOwned
  <2> QED
    BY <2>1, <2>3, <2>4
<1>16. ASSUME NEW c \in Conns, RefuseViewer(c) PROVE SlotsExclusive'
  BY <1>16 DEF SlotsExclusive, OfferedPCs, GivingUpPCs, TypeOK, EntriesOwned,
     SendersExclusive, MatchesExclusive, table, handoff, RefuseViewer, Return, Owned
<1>17. ASSUME NEW c \in Conns, Expire(c) PROVE SlotsExclusive'
  BY <1>17 DEF SlotsExclusive, OfferedPCs, GivingUpPCs, TypeOK, EntriesOwned,
     SendersExclusive, MatchesExclusive, table, handoff, Expire, Goto
<1>18. ASSUME NEW c \in Conns, EndTunnel(c) PROVE SlotsExclusive'
  BY <1>18 DEF SlotsExclusive, OfferedPCs, GivingUpPCs, TypeOK, EntriesOwned,
     SendersExclusive, MatchesExclusive, table, handoff, EndTunnel, Goto
<1>19. ASSUME NEW c \in Conns, Accept(c) \/ Acceptor(c) PROVE SlotsExclusive'
  <2>1. /\ pc[c] \in {"absent", "accepted"}
        /\ UNCHANGED <<route, regId, nextId, waiting, sender, slot, viewerOf>>
    BY <1>19, AcceptorMoves
  <2>2. PICK next \in {"accepted", "request", "done"} : pc' = [pc EXCEPT ![c] = next]
    BY <1>19, AcceptorMoves
  <2> QED
    BY <2>1, <2>2 DEF SlotsExclusive, OfferedPCs, GivingUpPCs, TypeOK, SendersExclusive,
       MatchesExclusive, EntriesOwned
<1>20. ASSUME NEW c \in Conns, HangUp(c) PROVE SlotsExclusive'
  BY <1>20 DEF SlotsExclusive, OfferedPCs, GivingUpPCs, TypeOK, EntriesOwned,
     SendersExclusive, MatchesExclusive, table, handoff, HangUp
<1>21. ASSUME NEW c \in Conns, TalkEarly(c) PROVE SlotsExclusive'
  BY <1>21 DEF SlotsExclusive, OfferedPCs, GivingUpPCs, TypeOK, EntriesOwned,
     SendersExclusive, MatchesExclusive, table, handoff, TalkEarly
<1> QED
  BY <1>0, <1>1, <1>2, <1>3, <1>4, <1>5, <1>6, <1>7, <1>8, <1>9, <1>10, <1>11, <1>12,
     <1>13, <1>14, <1>15, <1>16, <1>17, <1>18, <1>19, <1>20, <1>21, PollFailing
     DEF Next, HostStep, ViewerStep, Environment

\* Every step keeps matches exclusive: a host's thread receives once.
LEMMA MatchesExclusiveStep ==
  ASSUME HandoffInv, [Next]_vars
  PROVE  MatchesExclusive'
<1> USE DEF HandoffInv
<1>0. CASE UNCHANGED vars
  BY <1>0 DEF MatchesExclusive, vars, table, handoff
<1>1. ASSUME NEW c \in Conns, ReadRequest(c) PROVE MatchesExclusive'
  BY <1>1 DEF MatchesExclusive, MatchedPCs, TypeOK, EntriesOwned, SendersExclusive,
     SlotsExclusive, table, handoff, ReadRequest, Goto
<1>2. ASSUME NEW c \in Conns, ReadNoRequest(c) PROVE MatchesExclusive'
  BY <1>2 DEF MatchesExclusive, MatchedPCs, TypeOK, EntriesOwned, SendersExclusive,
     SlotsExclusive, table, handoff, ReadNoRequest, Return, Owned
<1>3. ASSUME NEW c \in Conns, TakeRegistrationId(c) PROVE MatchesExclusive'
  BY <1>3 DEF MatchesExclusive, MatchedPCs, TypeOK, EntriesOwned, SendersExclusive,
     SlotsExclusive, table, handoff, TakeRegistrationId, Goto
<1>4. ASSUME NEW c \in Conns, InsertRoute(c) PROVE MatchesExclusive'
  BY <1>4 DEF MatchesExclusive, MatchedPCs, TypeOK, EntriesOwned, SendersExclusive,
     SlotsExclusive, table, handoff, InsertRoute, Goto, Inserted, Registration
<1>5. ASSUME NEW c \in Conns, RefuseBusy(c) PROVE MatchesExclusive'
  BY <1>5 DEF MatchesExclusive, MatchedPCs, TypeOK, EntriesOwned, SendersExclusive,
     SlotsExclusive, table, handoff, RefuseBusy, Return, Owned
<1>6. ASSUME NEW c \in Conns, AnnounceRegistered(c) PROVE MatchesExclusive'
  <2>1. pc[c] = "announce" /\ UNCHANGED <<route, regId, nextId, waiting, sender, slot, viewerOf>>
    BY <1>6, AnnounceRegisteredMoves
  <2>2. CASE pc' = [pc EXCEPT ![c] = "wait"]
    BY <2>1, <2>2 DEF MatchesExclusive, MatchedPCs, TypeOK, SendersExclusive,
       SlotsExclusive, EntriesOwned
  <2>3. CASE pc' = [pc EXCEPT ![c] = "unannounced"]
    BY <2>1, <2>3 DEF MatchesExclusive, MatchedPCs, TypeOK, SendersExclusive,
       SlotsExclusive, EntriesOwned
  <2> QED
    BY <1>6, <2>2, <2>3, AnnounceRegisteredMoves
<1>7. ASSUME NEW c \in Conns, PollFails(c) PROVE MatchesExclusive'
  BY <1>7 DEF MatchesExclusive, MatchedPCs, TypeOK, EntriesOwned, SendersExclusive,
     SlotsExclusive, table, handoff, PollFails, Goto
<1>8. ASSUME NEW c \in Conns, RemoveRegistration(c) PROVE MatchesExclusive'
  BY <1>8 DEF MatchesExclusive, MatchedPCs, TypeOK, EntriesOwned, SendersExclusive,
     SlotsExclusive, table, handoff, RemoveRegistration, Goto, RemovedBy
<1>9. ASSUME NEW c \in Conns, ReceiveViewer(c) PROVE MatchesExclusive'
  BY <1>9 DEF MatchesExclusive, MatchedPCs, TypeOK, EntriesOwned, SendersExclusive,
     SlotsExclusive, table, handoff, ReceiveViewer, Goto
<1>10. ASSUME NEW c \in Conns, MatchHost(c) PROVE MatchesExclusive'
  <2>1. pc[c] = "match" /\ UNCHANGED <<route, regId, nextId, waiting, sender, slot, viewerOf>>
    BY <1>10, MatchHostMoves
  <2>2. CASE pc' = [pc EXCEPT ![c] = "matchViewer"]
    BY <2>1, <2>2 DEF MatchesExclusive, MatchedPCs, TypeOK, SendersExclusive,
       SlotsExclusive, EntriesOwned
  <2>3. CASE pc' = [pc EXCEPT ![c] = "leaving"]
    BY <2>1, <2>3 DEF MatchesExclusive, MatchedPCs, TypeOK, SendersExclusive,
       SlotsExclusive, EntriesOwned
  <2> QED
    BY <1>10, <2>2, <2>3, MatchHostMoves
<1>11. ASSUME NEW c \in Conns, MatchViewer(c) PROVE MatchesExclusive'
  <2>1. pc[c] = "matchViewer" /\ UNCHANGED <<route, regId, nextId, waiting, sender, slot, viewerOf>>
    BY <1>11, MatchViewerMoves
  <2>2. CASE pc' = [pc EXCEPT ![c] = "tunnel"]
    BY <2>1, <2>2 DEF MatchesExclusive, MatchedPCs, TypeOK, SendersExclusive,
       SlotsExclusive, EntriesOwned
  <2>3. CASE pc' = [pc EXCEPT ![c] = "leaving"]
    BY <2>1, <2>3 DEF MatchesExclusive, MatchedPCs, TypeOK, SendersExclusive,
       SlotsExclusive, EntriesOwned
  <2> QED
    BY <1>11, <2>2, <2>3, MatchViewerMoves
<1>12. ASSUME NEW c \in Conns, Leave(c) PROVE MatchesExclusive'
  BY <1>12 DEF MatchesExclusive, MatchedPCs, TypeOK, EntriesOwned, SendersExclusive,
     SlotsExclusive, table, handoff, Leave, Return, Owned
<1>13. ASSUME NEW c \in Conns, ClaimRoute(c) PROVE MatchesExclusive'
  BY <1>13 DEF MatchesExclusive, MatchedPCs, TypeOK, EntriesOwned, SendersExclusive,
     SlotsExclusive, table, handoff, ClaimRoute, Goto
<1>14. ASSUME NEW c \in Conns, ClaimMissing(c) PROVE MatchesExclusive'
  BY <1>14 DEF MatchesExclusive, MatchedPCs, TypeOK, EntriesOwned, SendersExclusive,
     SlotsExclusive, table, handoff, ClaimMissing, Goto
<1>15. ASSUME NEW c \in Conns, SendViewer(c) PROVE MatchesExclusive'
  <2>1. PICK h \in sender[c] :
          \/ /\ pc[h] # "done"
             /\ slot' = [slot EXCEPT ![h] = {c}]
             /\ pc' = [pc EXCEPT ![c] = "moved"]
          \/ slot' = slot /\ pc' = [pc EXCEPT ![c] = "refuse"]
    BY <1>15 DEF SendViewer, Goto, ReceiverAlive
  <2>2. /\ h \in Conns /\ pc[c] = "send"
        /\ sender' = [sender EXCEPT ![c] = {}]
        /\ UNCHANGED <<route, waiting, viewerOf>>
    BY <1>15 DEF SendViewer, TypeOK, table
  <2>3. CASE /\ pc[h] # "done"
             /\ slot' = [slot EXCEPT ![h] = {c}]
             /\ pc' = [pc EXCEPT ![c] = "moved"]
    BY <2>2, <2>3 DEF MatchesExclusive, MatchedPCs, TypeOK, SendersExclusive,
       SlotsExclusive, EntriesOwned
  <2>4. CASE slot' = slot /\ pc' = [pc EXCEPT ![c] = "refuse"]
    BY <2>2, <2>4 DEF MatchesExclusive, MatchedPCs, TypeOK, SendersExclusive,
       SlotsExclusive, EntriesOwned
  <2> QED
    BY <2>1, <2>3, <2>4
<1>16. ASSUME NEW c \in Conns, RefuseViewer(c) PROVE MatchesExclusive'
  BY <1>16 DEF MatchesExclusive, MatchedPCs, TypeOK, EntriesOwned, SendersExclusive,
     SlotsExclusive, table, handoff, RefuseViewer, Return, Owned
<1>17. ASSUME NEW c \in Conns, Expire(c) PROVE MatchesExclusive'
  BY <1>17 DEF MatchesExclusive, MatchedPCs, TypeOK, EntriesOwned, SendersExclusive,
     SlotsExclusive, table, handoff, Expire, Goto
<1>18. ASSUME NEW c \in Conns, EndTunnel(c) PROVE MatchesExclusive'
  BY <1>18 DEF MatchesExclusive, MatchedPCs, TypeOK, EntriesOwned, SendersExclusive,
     SlotsExclusive, table, handoff, EndTunnel, Goto
<1>19. ASSUME NEW c \in Conns, Accept(c) \/ Acceptor(c) PROVE MatchesExclusive'
  <2>1. /\ pc[c] \in {"absent", "accepted"}
        /\ UNCHANGED <<route, regId, nextId, waiting, sender, slot, viewerOf>>
    BY <1>19, AcceptorMoves
  <2>2. PICK next \in {"accepted", "request", "done"} : pc' = [pc EXCEPT ![c] = next]
    BY <1>19, AcceptorMoves
  <2> QED
    BY <2>1, <2>2 DEF MatchesExclusive, MatchedPCs, TypeOK, SendersExclusive,
       SlotsExclusive, EntriesOwned
<1>20. ASSUME NEW c \in Conns, HangUp(c) PROVE MatchesExclusive'
  BY <1>20 DEF MatchesExclusive, MatchedPCs, TypeOK, EntriesOwned, SendersExclusive,
     SlotsExclusive, table, handoff, HangUp
<1>21. ASSUME NEW c \in Conns, TalkEarly(c) PROVE MatchesExclusive'
  BY <1>21 DEF MatchesExclusive, MatchedPCs, TypeOK, EntriesOwned, SendersExclusive,
     SlotsExclusive, table, handoff, TalkEarly
<1> QED
  BY <1>0, <1>1, <1>2, <1>3, <1>4, <1>5, <1>6, <1>7, <1>8, <1>9, <1>10, <1>11, <1>12,
     <1>13, <1>14, <1>15, <1>16, <1>17, <1>18, <1>19, <1>20, <1>21, PollFailing
     DEF Next, HostStep, ViewerStep, Environment

\* Every step keeps a waiting host reachable: its entry becomes its claimant's
\* sender, which becomes a viewer in its channel.
LEMMA NoOrphanedHostStep ==
  ASSUME HandoffInv, [Next]_vars
  PROVE  NoOrphanedHost'
<1> USE DEF HandoffInv
<1>0. CASE UNCHANGED vars
  BY <1>0 DEF NoOrphanedHost, vars, table, handoff, SenderAlive
<1>1. ASSUME NEW c \in Conns, ReadRequest(c) PROVE NoOrphanedHost'
  <2> SUFFICES ASSUME NEW d \in Conns, pc'[d] \in {"announce", "wait"}
               PROVE  SenderAlive(d)' \/ slot'[d] # {}
    BY DEF NoOrphanedHost
  <2>1. pc[d] \in {"announce", "wait"} /\ UNCHANGED <<waiting, sender, slot>>
    BY <1>1 DEF ReadRequest, table, handoff, TypeOK, Goto
  <2> QED
    BY <2>1 DEF NoOrphanedHost, SenderAlive
<1>2. ASSUME NEW c \in Conns, ReadNoRequest(c) PROVE NoOrphanedHost'
  <2> SUFFICES ASSUME NEW d \in Conns, pc'[d] \in {"announce", "wait"}
               PROVE  SenderAlive(d)' \/ slot'[d] # {}
    BY DEF NoOrphanedHost
  <2>1. pc[d] \in {"announce", "wait"} /\ slot'[d] = slot[d] /\ UNCHANGED <<waiting, sender>>
    BY <1>2, ReturnMoves DEF ReadNoRequest, table, TypeOK
  <2> QED
    BY <2>1 DEF NoOrphanedHost, SenderAlive
<1>3. ASSUME NEW c \in Conns, TakeRegistrationId(c) PROVE NoOrphanedHost'
  <2> SUFFICES ASSUME NEW d \in Conns, pc'[d] \in {"announce", "wait"}
               PROVE  SenderAlive(d)' \/ slot'[d] # {}
    BY DEF NoOrphanedHost
  <2>1. pc[d] \in {"announce", "wait"} /\ UNCHANGED <<waiting, sender, slot>>
    BY <1>3 DEF TakeRegistrationId, table, handoff, TypeOK, Goto
  <2> QED
    BY <2>1 DEF NoOrphanedHost, SenderAlive
<1>4. ASSUME NEW c \in Conns, InsertRoute(c) PROVE NoOrphanedHost'
  <2> SUFFICES ASSUME NEW d \in Conns, pc'[d] \in {"announce", "wait"}
               PROVE  SenderAlive(d)' \/ slot'[d] # {}
    BY DEF NoOrphanedHost
  <2>1. CASE d = c
    <3>1. [route |-> route[c], id |-> regId[c], host |-> c] \in waiting'
      BY <1>4 DEF InsertRoute, Inserted
    <3> QED
      BY <2>1, <3>1 DEF SenderAlive
  <2>2. CASE d # c
    <3>1. pc[d] \in {"announce", "wait"} /\ UNCHANGED <<sender, slot>>
      BY <1>4, <2>2 DEF InsertRoute, Goto, handoff, TypeOK
    <3>2. waiting \subseteq waiting'
      BY <1>4 DEF InsertRoute, Inserted, IsRegistered
    <3> QED
      BY <3>1, <3>2 DEF NoOrphanedHost, SenderAlive
  <2> QED
    BY <2>1, <2>2
<1>5. ASSUME NEW c \in Conns, RefuseBusy(c) PROVE NoOrphanedHost'
  <2> SUFFICES ASSUME NEW d \in Conns, pc'[d] \in {"announce", "wait"}
               PROVE  SenderAlive(d)' \/ slot'[d] # {}
    BY DEF NoOrphanedHost
  <2>1. pc[d] \in {"announce", "wait"} /\ slot'[d] = slot[d] /\ UNCHANGED <<waiting, sender>>
    BY <1>5, ReturnMoves DEF RefuseBusy, table, TypeOK
  <2> QED
    BY <2>1 DEF NoOrphanedHost, SenderAlive
<1>6. ASSUME NEW c \in Conns, AnnounceRegistered(c) PROVE NoOrphanedHost'
  <2> SUFFICES ASSUME NEW d \in Conns, pc'[d] \in {"announce", "wait"}
               PROVE  SenderAlive(d)' \/ slot'[d] # {}
    BY DEF NoOrphanedHost
  <2>1. pc[d] \in {"announce", "wait"} /\ UNCHANGED <<waiting, sender, slot>>
    BY <1>6, AnnounceRegisteredMoves DEF TypeOK
  <2> QED
    BY <2>1 DEF NoOrphanedHost, SenderAlive
<1>7. ASSUME NEW c \in Conns, PollFails(c) PROVE NoOrphanedHost'
  <2> SUFFICES ASSUME NEW d \in Conns, pc'[d] \in {"announce", "wait"}
               PROVE  SenderAlive(d)' \/ slot'[d] # {}
    BY DEF NoOrphanedHost
  <2>1. pc[d] \in {"announce", "wait"} /\ UNCHANGED <<waiting, sender, slot>>
    BY <1>7 DEF PollFails, table, handoff, TypeOK, Goto
  <2> QED
    BY <2>1 DEF NoOrphanedHost, SenderAlive
<1>8. ASSUME NEW c \in Conns, RemoveRegistration(c) PROVE NoOrphanedHost'
  <2> SUFFICES ASSUME NEW d \in Conns, pc'[d] \in {"announce", "wait"}
               PROVE  SenderAlive(d)' \/ slot'[d] # {}
    BY DEF NoOrphanedHost
  <2>1. d # c /\ pc[d] \in {"announce", "wait"} /\ UNCHANGED <<sender, slot>>
    BY <1>8 DEF RemoveRegistration, Goto, handoff, TypeOK
  <2>2. \A w \in waiting : w.host = d => w \in waiting'
    BY <1>8, <2>1 DEF RemoveRegistration, RemovedBy, EntriesOwned, IdsUnique,
       OfferedPCs, GivingUpPCs
  <2> QED
    BY <2>1, <2>2 DEF NoOrphanedHost, SenderAlive
<1>9. ASSUME NEW c \in Conns, ReceiveViewer(c) PROVE NoOrphanedHost'
  <2> SUFFICES ASSUME NEW d \in Conns, pc'[d] \in {"announce", "wait"}
               PROVE  SenderAlive(d)' \/ slot'[d] # {}
    BY DEF NoOrphanedHost
  <2>1. d # c /\ pc[d] \in {"announce", "wait"} /\ slot'[d] = slot[d] /\ UNCHANGED <<waiting, sender>>
    BY <1>9 DEF ReceiveViewer, Goto, table, TypeOK
  <2> QED
    BY <2>1 DEF NoOrphanedHost, SenderAlive
<1>10. ASSUME NEW c \in Conns, MatchHost(c) PROVE NoOrphanedHost'
  <2> SUFFICES ASSUME NEW d \in Conns, pc'[d] \in {"announce", "wait"}
               PROVE  SenderAlive(d)' \/ slot'[d] # {}
    BY DEF NoOrphanedHost
  <2>1. pc[d] \in {"announce", "wait"} /\ UNCHANGED <<waiting, sender, slot>>
    BY <1>10, MatchHostMoves DEF TypeOK
  <2> QED
    BY <2>1 DEF NoOrphanedHost, SenderAlive
<1>11. ASSUME NEW c \in Conns, MatchViewer(c) PROVE NoOrphanedHost'
  <2> SUFFICES ASSUME NEW d \in Conns, pc'[d] \in {"announce", "wait"}
               PROVE  SenderAlive(d)' \/ slot'[d] # {}
    BY DEF NoOrphanedHost
  <2>1. pc[d] \in {"announce", "wait"} /\ UNCHANGED <<waiting, sender, slot>>
    BY <1>11, MatchViewerMoves DEF TypeOK
  <2> QED
    BY <2>1 DEF NoOrphanedHost, SenderAlive
<1>12. ASSUME NEW c \in Conns, Leave(c) PROVE NoOrphanedHost'
  <2> SUFFICES ASSUME NEW d \in Conns, pc'[d] \in {"announce", "wait"}
               PROVE  SenderAlive(d)' \/ slot'[d] # {}
    BY DEF NoOrphanedHost
  <2>1. pc[d] \in {"announce", "wait"} /\ slot'[d] = slot[d] /\ UNCHANGED <<waiting, sender>>
    BY <1>12, ReturnMoves DEF Leave, table, TypeOK
  <2> QED
    BY <2>1 DEF NoOrphanedHost, SenderAlive
<1>13. ASSUME NEW c \in Conns, ClaimRoute(c) PROVE NoOrphanedHost'
  <2> SUFFICES ASSUME NEW d \in Conns, pc'[d] \in {"announce", "wait"}
               PROVE  SenderAlive(d)' \/ slot'[d] # {}
    BY DEF NoOrphanedHost
  <2>1. pc[c] = "claim" /\ pc[d] \in {"announce", "wait"} /\ UNCHANGED slot
    BY <1>13 DEF ClaimRoute, Goto, TypeOK
  <2>2. PICK w \in waiting : /\ sender' = [sender EXCEPT ![c] = {w.host}]
                            /\ waiting' = waiting \ {w}
    BY <1>13 DEF ClaimRoute
  <2>3. sender[c] = {} /\ c \in sender'[c] \cup Conns /\ sender'[c] = {w.host}
    BY <2>1, <2>2 DEF SendersExclusive, TypeOK
  <2>4. \A v \in Conns : d \in sender[v] => d \in sender'[v]
    BY <2>2, <2>3 DEF TypeOK
  <2> QED
    BY <2>1, <2>2, <2>3, <2>4 DEF NoOrphanedHost, SenderAlive
<1>14. ASSUME NEW c \in Conns, ClaimMissing(c) PROVE NoOrphanedHost'
  <2> SUFFICES ASSUME NEW d \in Conns, pc'[d] \in {"announce", "wait"}
               PROVE  SenderAlive(d)' \/ slot'[d] # {}
    BY DEF NoOrphanedHost
  <2>1. pc[d] \in {"announce", "wait"} /\ UNCHANGED <<waiting, sender, slot>>
    BY <1>14 DEF ClaimMissing, table, handoff, TypeOK, Goto
  <2> QED
    BY <2>1 DEF NoOrphanedHost, SenderAlive
<1>15. ASSUME NEW c \in Conns, SendViewer(c) PROVE NoOrphanedHost'
  <2> SUFFICES ASSUME NEW d \in Conns, pc'[d] \in {"announce", "wait"}
               PROVE  SenderAlive(d)' \/ slot'[d] # {}
    BY DEF NoOrphanedHost
  <2>1. pc[c] = "send" /\ pc[d] \in {"announce", "wait"} /\ UNCHANGED waiting
    BY <1>15 DEF SendViewer, Goto, TypeOK, table
  <2>2. PICK h \in sender[c] :
          \/ ReceiverAlive(h) /\ slot' = [slot EXCEPT ![h] = {c}]
          \/ ~ReceiverAlive(h) /\ UNCHANGED slot
    BY <1>15 DEF SendViewer
  <2>3. h \in Conns /\ sender[c] = {h} /\ sender' = [sender EXCEPT ![c] = {}]
    BY <1>15 DEF SendViewer, SendersExclusive, TypeOK
  <2>4. CASE d = h
    BY <2>1, <2>2, <2>4 DEF TypeOK, ReceiverAlive
  <2>5. CASE d # h
    <3>1. slot'[d] = slot[d]
      BY <2>2, <2>5 DEF TypeOK
    <3>2. \A v \in Conns : d \in sender[v] => d \in sender'[v]
      BY <2>3, <2>5 DEF TypeOK
    <3> QED
      BY <2>1, <3>1, <3>2 DEF NoOrphanedHost, SenderAlive
  <2> QED
    BY <2>4, <2>5
<1>16. ASSUME NEW c \in Conns, RefuseViewer(c) PROVE NoOrphanedHost'
  <2> SUFFICES ASSUME NEW d \in Conns, pc'[d] \in {"announce", "wait"}
               PROVE  SenderAlive(d)' \/ slot'[d] # {}
    BY DEF NoOrphanedHost
  <2>1. pc[d] \in {"announce", "wait"} /\ slot'[d] = slot[d] /\ UNCHANGED <<waiting, sender>>
    BY <1>16, ReturnMoves DEF RefuseViewer, table, TypeOK
  <2> QED
    BY <2>1 DEF NoOrphanedHost, SenderAlive
<1>17. ASSUME NEW c \in Conns, Expire(c) PROVE NoOrphanedHost'
  <2> SUFFICES ASSUME NEW d \in Conns, pc'[d] \in {"announce", "wait"}
               PROVE  SenderAlive(d)' \/ slot'[d] # {}
    BY DEF NoOrphanedHost
  <2>1. pc[d] \in {"announce", "wait"} /\ UNCHANGED <<waiting, sender, slot>>
    BY <1>17 DEF Expire, table, handoff, TypeOK, Goto
  <2> QED
    BY <2>1 DEF NoOrphanedHost, SenderAlive
<1>18. ASSUME NEW c \in Conns, EndTunnel(c) PROVE NoOrphanedHost'
  <2> SUFFICES ASSUME NEW d \in Conns, pc'[d] \in {"announce", "wait"}
               PROVE  SenderAlive(d)' \/ slot'[d] # {}
    BY DEF NoOrphanedHost
  <2>1. pc[d] \in {"announce", "wait"} /\ UNCHANGED <<waiting, sender, slot>>
    BY <1>18 DEF EndTunnel, table, handoff, TypeOK, Goto
  <2> QED
    BY <2>1 DEF NoOrphanedHost, SenderAlive
<1>19. ASSUME NEW c \in Conns, Accept(c) \/ Acceptor(c) PROVE NoOrphanedHost'
  <2> SUFFICES ASSUME NEW d \in Conns, pc'[d] \in {"announce", "wait"}
               PROVE  SenderAlive(d)' \/ slot'[d] # {}
    BY DEF NoOrphanedHost
  <2>1. pc[d] \in {"announce", "wait"} /\ UNCHANGED <<waiting, sender, slot>>
    BY <1>19, AcceptorMoves DEF TypeOK
  <2> QED
    BY <2>1 DEF NoOrphanedHost, SenderAlive
<1>20. ASSUME NEW c \in Conns, HangUp(c) PROVE NoOrphanedHost'
  <2> SUFFICES ASSUME NEW d \in Conns, pc'[d] \in {"announce", "wait"}
               PROVE  SenderAlive(d)' \/ slot'[d] # {}
    BY DEF NoOrphanedHost
  <2>1. pc[d] \in {"announce", "wait"} /\ UNCHANGED <<waiting, sender, slot>>
    BY <1>20 DEF HangUp, table, handoff, TypeOK
  <2> QED
    BY <2>1 DEF NoOrphanedHost, SenderAlive
<1>21. ASSUME NEW c \in Conns, TalkEarly(c) PROVE NoOrphanedHost'
  <2> SUFFICES ASSUME NEW d \in Conns, pc'[d] \in {"announce", "wait"}
               PROVE  SenderAlive(d)' \/ slot'[d] # {}
    BY DEF NoOrphanedHost
  <2>1. pc[d] \in {"announce", "wait"} /\ UNCHANGED <<waiting, sender, slot>>
    BY <1>21 DEF TalkEarly, table, handoff, TypeOK
  <2> QED
    BY <2>1 DEF NoOrphanedHost, SenderAlive
<1> QED
  BY <1>0, <1>1, <1>2, <1>3, <1>4, <1>5, <1>6, <1>7, <1>8, <1>9, <1>10, <1>11, <1>12,
     <1>13, <1>14, <1>15, <1>16, <1>17, <1>18, <1>19, <1>20, <1>21, PollFailing
     DEF Next, HostStep, ViewerStep, Environment


\* The hand-off invariant holds in every reachable state.
THEOREM HandoffCorrect == Spec => []HandoffInv
<1>1. Init => HandoffInv
  BY DEF Init, HandoffInv, TypeOK, RoutesNamed, IdsUnique, EntriesOwned,
     SendersExclusive,
         SlotsExclusive, MatchesExclusive, NoOrphanedHost, PCs, FirstId, OfferedPCs,
         GivingUpPCs
<1>2. HandoffInv /\ [Next]_vars => HandoffInv'
  <2> SUFFICES ASSUME HandoffInv, [Next]_vars PROVE HandoffInv'
    OBVIOUS
  <2>1. TypeOK' /\ RoutesNamed'
    BY TypeStep DEF HandoffInv
  <2> QED
    BY <2>1, IdsUniqueStep, EntriesOwnedStep, SendersExclusiveStep, SlotsExclusiveStep,
       MatchesExclusiveStep, NoOrphanedHostStep DEF HandoffInv
<1> QED
  BY <1>1, <1>2, PTL DEF Spec

\* A waiting host can always be reached: its registration is in the table, or a
\* claimant owns its sender, or its viewer is in its channel
\* (remove_registration, main.rs:413).
THEOREM HostsReachable == Spec => []NoOrphanedHost
<1>1. HandoffInv => NoOrphanedHost
  BY DEF HandoffInv
<1> QED
  BY <1>1, HandoffCorrect, PTL

\* A set whose members are all equal has at most one.
LEMMA AtMostOne ==
  ASSUME NEW S, \A x, y \in S : x = y
  PROVE  Cardinality(S) <= 1
<1>1. CASE S = {}
  BY <1>1, FS_EmptySet
<1>2. CASE S # {}
  <2>1. PICK x \in S : S = {x}
    BY <1>2
  <2>2. Cardinality({x}) = 1
    BY FS_Singleton
  <2> QED
    BY <2>1, <2>2
<1> QED
  BY <1>1, <1>2

\* Each registration is consumed by at most one claim, whatever the order of
\* claims, expiries and removals (docs/ARCHITECTURE.md:127).
THEOREM RegistrationsSingleUse == Spec => []SingleUse
<1>1. ASSUME HandoffInv PROVE SingleUse
  <2> SUFFICES ASSUME NEW h \in Conns
               PROVE  /\ Cardinality(Claimants(h)) <= 1
                      /\ (\E w \in waiting : w.host = h) => Claimants(h) = {}
    BY DEF SingleUse
  <2> USE <1>1 DEF HandoffInv, TypeOK, Claimants
  <2>1. \A u, v \in Claimants(h) : u = v
    BY DEF SendersExclusive, SlotsExclusive, MatchesExclusive
  <2>2. Cardinality(Claimants(h)) <= 1
    BY ONLY <2>1, AtMostOne
  <2>3. (\E w \in waiting : w.host = h) => Claimants(h) = {}
    BY DEF SendersExclusive, SlotsExclusive, MatchesExclusive
  <2> QED
    BY <2>2, <2>3
<1> QED
  BY <1>1, HandoffCorrect, PTL

\* A viewer only ever reaches a host that registered the route it named, and
\* no second host.
THEOREM RoutesMatch == Spec => []SameRoute
<1>1. ASSUME HandoffInv PROVE SameRoute
  <2> SUFFICES ASSUME NEW h1 \in Conns, NEW h2 \in Conns, NEW v \in Claimants(h1)
               PROVE  /\ route[v] = route[h1]
                      /\ v \in Claimants(h2) => h1 = h2
    BY DEF SameRoute
  <2> USE <1>1 DEF HandoffInv, TypeOK, Claimants
  <2>1. route[v] = route[h1]
    BY DEF SendersExclusive, SlotsExclusive, MatchesExclusive
  <2>2. v \in Claimants(h2) => h1 = h2
    BY DEF SendersExclusive, SlotsExclusive, MatchesExclusive
  <2> QED
    BY <2>1, <2>2
<1> QED
  BY <1>1, HandoffCorrect, PTL

-----------------------------------------------------------------------------

SilentPCs == {"absent", "accepted", "request", "register", "insert", "announce", "claim",
              "send", "refuse"}
RegisteredPCs == {"wait", "expired", "unusable", "match"}
AnnouncingPCs == {"match", "matchViewer"}
AcceptedPCs == {"matchViewer", "tunnel"}

\* Nobody is told anything before it waits as a host, or before the host that
\* has received it as a viewer was told.
SilentUntilTold ==
  /\ \A c \in Conns : pc[c] \in SilentPCs => replies[c] = <<>>
  /\ \A h \in Conns : \A v \in slot[h] : replies[v] = <<>>
  /\ \A h \in Conns : \A v \in viewerOf[h] :
        pc[h] \in AnnouncingPCs => replies[v] = <<>>

\* A host that waits was told so, and a host that is matched was told that.
HostsTold ==
  \A h \in Conns :
     /\ pc[h] \in RegisteredPCs =>
          \/ replies[h] = <<"Registered">>
          \/ replies[h] = <<>> /\ peer[h] = "gone"
     /\ pc[h] \in AcceptedPCs =>
          replies[h] = <<"Registered", "ClaimAccepted">> \/ peer[h] = "gone"

ToldInv == SilentUntilTold /\ HostsTold /\ ReplyOrder

-----------------------------------------------------------------------------
(* Kinds of replies *)

\* A thread goes on without having to say anything, or ends.
MovesOn(x) ==
  \/ pc'[x] \in {pc[x], "done", "leaving", "moved", "unannounced"}
  \/ pc[x] \in SilentPCs /\ pc'[x] \in SilentPCs
  \/ pc[x] \in RegisteredPCs /\ pc'[x] \in RegisteredPCs
  \/ pc[x] \in AcceptedPCs /\ pc'[x] \in AcceptedPCs

\* A viewer comes into a channel from its own thread, and into a host's hands
\* from the channel.
HandedOn ==
  \A h \in Conns :
     /\ \A v \in slot'[h] : v \in slot[h] \/ (v \in Conns /\ pc[v] = "send")
     /\ \A v \in viewerOf'[h] : v \in viewerOf[h] \cup slot[h]
     /\ pc'[h] \in AnnouncingPCs =>
          \A v \in viewerOf'[h] :
             v \in slot[h] \/ (v \in viewerOf[h] /\ pc[h] \in AnnouncingPCs)

\* A step that tells nobody anything.
LEMMA QuietStep ==
  ASSUME ToldInv, UNCHANGED <<replies, peer>>, HandedOn, \A x \in Conns : MovesOn(x)
  PROVE  ToldInv'
<1>1. SilentUntilTold'
  BY DEF ToldInv, SilentUntilTold, HandedOn, MovesOn, SilentPCs, RegisteredPCs, AcceptedPCs
<1>2. HostsTold'
  BY DEF ToldInv, HostsTold, MovesOn, SilentPCs, RegisteredPCs, AcceptedPCs
<1>3. ReplyOrder'
  <2>1. \A h \in Conns : \A v \in viewerOf'[h] :
           v \in viewerOf[h] \/ replies[v] # <<"ClaimAccepted">>
    BY DEF ToldInv, SilentUntilTold, HandedOn
  <2> QED
    BY <2>1 DEF ToldInv, ReplyOrder
<1> QED
  BY <1>1, <1>2, <1>3 DEF ToldInv

\* What a response does to the replies of its connection.
LEMMA Appended ==
  /\ \A r \in Response : Append(<<>>, r) = <<r>>
  /\ \A r \in Response : Append(<<"Registered">>, r) = <<"Registered", r>>
<1>1. ASSUME NEW r \in Response PROVE Append(<<"Registered">>, r) = <<"Registered", r>>
  <2>1. <<"Registered">> \in Seq(Response) /\ <<"Registered", r>> \in Seq(Response)
    BY DEF Response
  <2>2. Append(<<"Registered">>, r) \in Seq(Response)
    BY <2>1
  <2>3. Len(Append(<<"Registered">>, r)) = 2 /\ Len(<<"Registered", r>>) = 2
    BY <2>1
  <2>4. \A i \in 1..2 : Append(<<"Registered">>, r)[i] = <<"Registered", r>>[i]
    BY <2>1
  <2> QED
    BY ONLY <2>1, <2>2, <2>3, <2>4, SeqEqual
<1> QED
  BY <1>1

\* What a write does to the replies.
LEMMA WrittenReplies ==
  ASSUME TypeOK, NEW c \in Conns, NEW m \in Response, replies' = Written(c, m)
  PROVE  /\ \A x \in Conns : x # c => replies'[x] = replies[x]
         /\ peer[c] = "gone" => replies' = replies
         /\ peer[c] # "gone" /\ replies[c] = <<>> => replies'[c] = <<m>>
         /\ peer[c] # "gone" /\ replies[c] = <<"Registered">> => replies'[c] = <<"Registered", m>>
<1>1. peer[c] # "gone" => replies' = [replies EXCEPT ![c] = Append(replies[c], m)]
  BY DEF Written
<1>2. \A x \in Conns : x # c => replies'[x] = replies[x]
  BY <1>1 DEF TypeOK, Written
<1>3. peer[c] # "gone" => replies'[c] = Append(replies[c], m)
  BY <1>1 DEF TypeOK
<1> QED
  BY <1>2, <1>3, Appended DEF Written

\* A connection that is told something by its own thread is in nobody's hands.
LEMMA NotHandedOn ==
  ASSUME HandoffInv, NEW c \in Conns, pc[c] # "moved"
  PROVE  \A h \in Conns : c \notin slot[h] /\ c \notin viewerOf[h]
  BY DEF HandoffInv, TypeOK, SlotsExclusive, MatchesExclusive

\* A step that tells a connection its first and last word.
LEMMA LastWordStep ==
  ASSUME HandoffInv, ToldInv, NEW c \in Conns, NEW m \in Response,
         pc[c] \in SilentPCs \ {"send"}, pc'[c] = "done", replies' = Written(c, m),
         UNCHANGED peer, HandedOn, \A x \in Conns : MovesOn(x)
  PROVE  ToldInv'
<1>1. \A h \in Conns : c \notin slot[h] /\ c \notin viewerOf[h]
  BY NotHandedOn DEF SilentPCs
<1>2. /\ \A x \in Conns : x # c => replies'[x] = replies[x]
      /\ replies[c] = <<>>
      /\ replies'[c] \in {<<>>, <<m>>}
  BY WrittenReplies DEF HandoffInv, ToldInv, SilentUntilTold
<1>3. \A h \in Conns : \A v \in viewerOf[h] \cup slot[h] : replies'[v] = replies[v]
  BY <1>1, <1>2 DEF HandoffInv, TypeOK
<1>4. SilentUntilTold'
  <2>1. \A x \in Conns : pc'[x] \in SilentPCs => replies'[x] = <<>>
    BY <1>2 DEF ToldInv, SilentUntilTold, MovesOn, SilentPCs, RegisteredPCs, AcceptedPCs
  <2>2. \A h \in Conns : \A v \in slot'[h] : replies'[v] = <<>>
    BY <1>2, <1>3 DEF ToldInv, SilentUntilTold, HandedOn, SilentPCs
  <2>3. \A h \in Conns : \A v \in viewerOf'[h] : pc'[h] \in AnnouncingPCs => replies'[v] = <<>>
    BY <1>3 DEF ToldInv, SilentUntilTold, HandedOn
  <2> QED
    BY <2>1, <2>2, <2>3 DEF SilentUntilTold
<1>5. HostsTold'
  BY <1>2 DEF ToldInv, HostsTold, MovesOn, SilentPCs, RegisteredPCs, AcceptedPCs
<1>6. ReplyOrder'
  <2>1. \A x \in Conns : \/ replies'[x] = replies[x]
                           \/ replies'[x] \in {<<>>} \cup {<<r>> : r \in Response}
    BY <1>2
  <2>2. \A h \in Conns : \A v \in viewerOf'[h] :
           /\ v \in viewerOf[h] \/ replies[v] # <<"ClaimAccepted">>
           /\ replies'[v] = replies[v]
    BY <1>3 DEF ToldInv, SilentUntilTold, HandedOn
  <2>3. \A h \in Conns : replies[h] = <<"Registered", "ClaimAccepted">> => replies'[h] = replies[h]
    BY <1>2
  <2> QED
    BY <2>1, <2>2, <2>3 DEF ToldInv, ReplyOrder
<1> QED
  BY <1>4, <1>5, <1>6 DEF ToldInv

-----------------------------------------------------------------------------
(* Every step keeps the order of the replies *)

\* Steps that tell nobody anything.
LEMMA QuietSteps ==
  ASSUME HandoffInv, ToldInv, NEW c \in Conns,
         \/ ReadRequest(c) \/ TakeRegistrationId(c) \/ InsertRoute(c) \/ PollFails(c)
         \/ ReceiveViewer(c) \/ EndTunnel(c) \/ Expire(c) \/ ClaimRoute(c)
         \/ ClaimMissing(c) \/ SendViewer(c) \/ Leave(c) \/ Accept(c) \/ Admit(c)
  PROVE  ToldInv'
<1>0. TypeOK
  BY DEF HandoffInv
<1>1. CASE ReadRequest(c)
  <2>1. UNCHANGED <<replies, peer>> /\ \A x \in Conns : MovesOn(x)
    BY <1>0, <1>1 DEF ReadRequest, Goto, TypeOK, MovesOn,
       SilentPCs, RegisteredPCs, AcceptedPCs
  <2>2. HandedOn
    BY <1>0, <1>1 DEF ReadRequest, Goto, TypeOK, HandedOn, AnnouncingPCs, handoff
  <2> QED
    BY <2>1, <2>2, QuietStep
<1>2. CASE TakeRegistrationId(c)
  <2>1. UNCHANGED <<replies, peer>> /\ \A x \in Conns : MovesOn(x)
    BY <1>0, <1>2 DEF TakeRegistrationId, Goto, TypeOK, MovesOn,
       SilentPCs, RegisteredPCs, AcceptedPCs
  <2>2. HandedOn
    BY <1>0, <1>2 DEF TakeRegistrationId, Goto, TypeOK, HandedOn, AnnouncingPCs, handoff
  <2> QED
    BY <2>1, <2>2, QuietStep
<1>3. CASE InsertRoute(c)
  <2>1. UNCHANGED <<replies, peer>> /\ \A x \in Conns : MovesOn(x)
    BY <1>0, <1>3 DEF InsertRoute, Goto, TypeOK, MovesOn,
       SilentPCs, RegisteredPCs, AcceptedPCs
  <2>2. HandedOn
    BY <1>0, <1>3 DEF InsertRoute, Goto, TypeOK, HandedOn, AnnouncingPCs, handoff
  <2> QED
    BY <2>1, <2>2, QuietStep
<1>4. CASE PollFails(c)
  <2>1. UNCHANGED <<replies, peer>> /\ \A x \in Conns : MovesOn(x)
    BY <1>0, <1>4 DEF PollFails, Goto, TypeOK, MovesOn,
       SilentPCs, RegisteredPCs, AcceptedPCs
  <2>2. HandedOn
    BY <1>0, <1>4 DEF PollFails, Goto, TypeOK, HandedOn, AnnouncingPCs, handoff
  <2> QED
    BY <2>1, <2>2, QuietStep
<1>5. CASE ReceiveViewer(c)
  <2>1. UNCHANGED <<replies, peer>> /\ \A x \in Conns : MovesOn(x)
    BY <1>0, <1>5 DEF ReceiveViewer, Goto, TypeOK, MovesOn,
       SilentPCs, RegisteredPCs, AcceptedPCs
  <2>2. HandedOn
    BY <1>0, <1>5 DEF ReceiveViewer, Goto, TypeOK, HandedOn, AnnouncingPCs, handoff
  <2> QED
    BY <2>1, <2>2, QuietStep
<1>6. CASE EndTunnel(c)
  <2>1. UNCHANGED <<replies, peer>> /\ \A x \in Conns : MovesOn(x)
    BY <1>0, <1>6 DEF EndTunnel, Goto, TypeOK, MovesOn,
       SilentPCs, RegisteredPCs, AcceptedPCs
  <2>2. HandedOn
    BY <1>0, <1>6 DEF EndTunnel, Goto, TypeOK, HandedOn, AnnouncingPCs, handoff
  <2> QED
    BY <2>1, <2>2, QuietStep
<1>7. CASE Expire(c)
  <2>1. UNCHANGED <<replies, peer>> /\ \A x \in Conns : MovesOn(x)
    BY <1>0, <1>7 DEF Expire, Goto, TypeOK, MovesOn,
       SilentPCs, RegisteredPCs, AcceptedPCs
  <2>2. HandedOn
    BY <1>0, <1>7 DEF Expire, Goto, TypeOK, HandedOn, AnnouncingPCs, handoff
  <2> QED
    BY <2>1, <2>2, QuietStep
<1>8. CASE ClaimRoute(c)
  <2>1. UNCHANGED <<replies, peer>> /\ \A x \in Conns : MovesOn(x)
    BY <1>0, <1>8 DEF ClaimRoute, Goto, TypeOK, MovesOn,
       SilentPCs, RegisteredPCs, AcceptedPCs
  <2>2. HandedOn
    BY <1>0, <1>8 DEF ClaimRoute, Goto, TypeOK, HandedOn, AnnouncingPCs, handoff
  <2> QED
    BY <2>1, <2>2, QuietStep
<1>9. CASE ClaimMissing(c)
  <2>1. UNCHANGED <<replies, peer>> /\ \A x \in Conns : MovesOn(x)
    BY <1>0, <1>9 DEF ClaimMissing, Goto, TypeOK, MovesOn,
       SilentPCs, RegisteredPCs, AcceptedPCs
  <2>2. HandedOn
    BY <1>0, <1>9 DEF ClaimMissing, Goto, TypeOK, HandedOn, AnnouncingPCs, handoff
  <2> QED
    BY <2>1, <2>2, QuietStep
<1>10. CASE SendViewer(c)
  <2>1. UNCHANGED <<replies, peer>> /\ \A x \in Conns : MovesOn(x)
    BY <1>0, <1>10 DEF SendViewer, Goto, TypeOK, MovesOn,
       SilentPCs, RegisteredPCs, AcceptedPCs
  <2>2. HandedOn
    <3>1. pc[c] = "send" /\ \A h \in Conns : slot'[h] \in {slot[h], {c}}
      BY <1>0, <1>10 DEF SendViewer, TypeOK
    <3>2. viewerOf' = viewerOf /\ \A h \in Conns : pc'[h] \in AnnouncingPCs => pc'[h] = pc[h]
      BY <1>0, <1>10 DEF SendViewer, Goto, TypeOK, AnnouncingPCs
    <3> QED
      BY <3>1, <3>2 DEF HandedOn
  <2> QED
    BY <2>1, <2>2, QuietStep
<1>11. CASE Leave(c)
  <2>1. UNCHANGED <<replies, peer>> /\ \A x \in Conns : MovesOn(x)
    BY <1>0, <1>11 DEF Leave, Goto, Return, Owned, TypeOK, MovesOn,
       SilentPCs, RegisteredPCs, AcceptedPCs
  <2>2. HandedOn
    BY <1>0, <1>11 DEF Leave, Goto, Return, Owned, TypeOK, HandedOn, AnnouncingPCs, handoff
  <2> QED
    BY <2>1, <2>2, QuietStep
<1>12. CASE Accept(c)
  <2>1. UNCHANGED <<replies, peer>> /\ \A x \in Conns : MovesOn(x)
    BY <1>0, <1>12 DEF Accept, Goto, TypeOK, MovesOn,
       SilentPCs, RegisteredPCs, AcceptedPCs
  <2>2. HandedOn
    BY <1>0, <1>12 DEF Accept, Goto, TypeOK, HandedOn, AnnouncingPCs, handoff
  <2> QED
    BY <2>1, <2>2, QuietStep
<1>13. CASE Admit(c)
  <2>1. UNCHANGED <<replies, peer>> /\ \A x \in Conns : MovesOn(x)
    BY <1>0, <1>13 DEF Admit, Goto, TypeOK, MovesOn,
       SilentPCs, RegisteredPCs, AcceptedPCs
  <2>2. HandedOn
    BY <1>0, <1>13 DEF Admit, Goto, TypeOK, HandedOn, AnnouncingPCs, handoff
  <2> QED
    BY <2>1, <2>2, QuietStep
<1> QED
  BY <1>1, <1>2, <1>3, <1>4, <1>5, <1>6, <1>7, <1>8, <1>9, <1>10, <1>11,
     <1>12, <1>13

\* TurnAway, ReadNoRequest, RefuseBusy and RefuseViewer say one thing at most.
LEMMA LastWordSteps ==
  ASSUME HandoffInv, ToldInv, NEW c \in Conns,
         TurnAway(c) \/ ReadNoRequest(c) \/ RefuseBusy(c) \/ RefuseViewer(c)
  PROVE  ToldInv'
<1>0. TypeOK
  BY DEF HandoffInv
<1>1. CASE TurnAway(c)
  <2>1. UNCHANGED peer /\ pc[c] = "accepted" /\ \A x \in Conns : MovesOn(x)
    BY <1>0, <1>1 DEF TurnAway, Goto, TypeOK, MovesOn,
       SilentPCs, RegisteredPCs, AcceptedPCs
  <2>2. HandedOn
    BY <1>0, <1>1 DEF TurnAway, Goto, TypeOK, HandedOn, AnnouncingPCs, handoff
  <2>3. UNCHANGED replies \/ (pc'[c] = "done" /\ replies' = Written(c, "RateLimited"))
    BY <1>0, <1>1 DEF TurnAway, Goto, TypeOK
  <2> QED
    BY <2>1, <2>2, <2>3, QuietStep, LastWordStep DEF SilentPCs, Response
<1>2. CASE ReadNoRequest(c)
  <2>1. UNCHANGED peer /\ pc[c] = "request" /\ pc'[c] = "done" /\ \A x \in Conns : MovesOn(x)
    BY <1>0, <1>2 DEF ReadNoRequest, Return, Owned, TypeOK, MovesOn
  <2>2. HandedOn
    BY <1>0, <1>2 DEF ReadNoRequest, Return, Owned, TypeOK, HandedOn, AnnouncingPCs
  <2>3. UNCHANGED replies \/ \E m \in {"Pong", "Rejected"} : replies' = Written(c, m)
    BY <1>2 DEF ReadNoRequest
  <2> QED
    BY <2>1, <2>2, <2>3, QuietStep, LastWordStep DEF SilentPCs, Response
<1>3. CASE RefuseBusy(c)
  <2>1. UNCHANGED peer /\ pc[c] = "insert" /\ pc'[c] = "done" /\ \A x \in Conns : MovesOn(x)
    BY <1>0, <1>3 DEF RefuseBusy, Return, Owned, TypeOK, MovesOn
  <2>2. HandedOn
    BY <1>0, <1>3 DEF RefuseBusy, Return, Owned, TypeOK, HandedOn, AnnouncingPCs
  <2>3. replies' = Written(c, "Busy")
    BY <1>3 DEF RefuseBusy
  <2> QED
    BY <2>1, <2>2, <2>3, LastWordStep DEF SilentPCs, Response
<1>4. CASE RefuseViewer(c)
  <2>1. UNCHANGED peer /\ pc[c] = "refuse" /\ pc'[c] = "done" /\ \A x \in Conns : MovesOn(x)
    BY <1>0, <1>4 DEF RefuseViewer, Return, Owned, TypeOK, MovesOn
  <2>2. HandedOn
    BY <1>0, <1>4 DEF RefuseViewer, Return, Owned, TypeOK, HandedOn, AnnouncingPCs
  <2>3. replies' = Written(c, "Unavailable")
    BY <1>4 DEF RefuseViewer
  <2> QED
    BY <2>1, <2>2, <2>3, LastWordStep DEF SilentPCs, Response
<1> QED
  BY <1>1, <1>2, <1>3, <1>4

\* The far end hangs up, or talks too early.
LEMMA PeerSteps ==
  ASSUME ToldInv, NEW c \in Conns, TypeOK, HangUp(c) \/ TalkEarly(c)
  PROVE  ToldInv'
<1>1. UNCHANGED <<pc, slot, viewerOf, replies>>
  BY DEF HangUp, TalkEarly, handoff
<1>2. \A x \in Conns : peer[x] = "gone" => peer'[x] = "gone"
  BY DEF HangUp, TalkEarly, TypeOK
<1> QED
  BY <1>1, <1>2 DEF ToldInv, SilentUntilTold, HostsTold, ReplyOrder

\* The host is told that it is registered, or has gone.
LEMMA AnnounceStep ==
  ASSUME HandoffInv, ToldInv, NEW c \in Conns, AnnounceRegistered(c)
  PROVE  ToldInv'
<1>0. TypeOK /\ replies[c] = <<>>
  BY DEF HandoffInv, ToldInv, SilentUntilTold, AnnounceRegistered, SilentPCs
<1>1. CASE pc'[c] = "unannounced" /\ UNCHANGED replies
  <2>1. UNCHANGED peer /\ \A x \in Conns : MovesOn(x)
    BY <1>0, <1>1 DEF AnnounceRegistered, Goto, TypeOK, MovesOn, SilentPCs
  <2>2. HandedOn
    BY <1>0, <1>1 DEF AnnounceRegistered, Goto, TypeOK, HandedOn, AnnouncingPCs, handoff
  <2> QED
    BY <1>1, <2>1, <2>2, QuietStep
<1>2. ASSUME NEW next \in {"wait", "unannounced"},
             replies' = Written(c, "Registered"), pc' = [pc EXCEPT ![c] = next]
      PROVE  ToldInv'
  <2>1. UNCHANGED <<slot, viewerOf, peer>> /\ pc[c] = "announce"
    BY DEF AnnounceRegistered, handoff
  <2>2. \A h \in Conns : c \notin slot[h] /\ c \notin viewerOf[h]
    BY <2>1, NotHandedOn
  <2>3. /\ \A x \in Conns : x # c => replies'[x] = replies[x]
        /\ \/ replies'[c] = <<>> /\ peer'[c] = "gone"
           \/ replies'[c] = <<"Registered">>
    BY <1>0, <1>2, <2>1, WrittenReplies DEF Response
  <2>4. \A x \in Conns : x # c => pc'[x] = pc[x]
    BY <1>2
  <2>5. pc'[c] = next
    BY <1>0, <1>2 DEF TypeOK
  <2>6. \A h \in Conns : \A v \in slot[h] \cup viewerOf[h] : v \in Conns /\ v # c
    BY <1>0, <2>2 DEF TypeOK
  <2>7. viewerOf[c] = {}
    BY <1>0, <2>1 DEF HandoffInv, MatchesExclusive, MatchedPCs, TypeOK
  <2>8. SilentUntilTold'
    BY <2>1, <2>3, <2>4, <2>5, <2>6 DEF ToldInv, SilentUntilTold, SilentPCs, AnnouncingPCs
  <2>9. HostsTold'
    BY <2>1, <2>3, <2>4, <2>5 DEF ToldInv, HostsTold, RegisteredPCs, AcceptedPCs
  <2>10. ReplyOrder'
    BY <2>1, <2>3, <2>6, <2>7 DEF ToldInv, ReplyOrder, Response
  <2> QED
    BY <2>8, <2>9, <2>10 DEF ToldInv
<1> QED
  BY <1>0, <1>1, <1>2 DEF AnnounceRegistered, Goto, TypeOK

\* A host that expired is told so last.
LEMMA RemoveStep ==
  ASSUME HandoffInv, ToldInv, NEW c \in Conns, RemoveRegistration(c)
  PROVE  ToldInv'
<1>0. TypeOK
  BY DEF HandoffInv
<1>1. /\ UNCHANGED <<slot, viewerOf, peer>>
      /\ pc[c] \in {"expired", "unusable", "unannounced"}
      /\ pc' = [pc EXCEPT ![c] = "leaving"]
  BY DEF RemoveRegistration, handoff, Goto
<1>2. CASE UNCHANGED replies
  <2>1. \A x \in Conns : MovesOn(x)
    BY <1>0, <1>1 DEF TypeOK, MovesOn
  <2>2. HandedOn
    BY <1>0, <1>1 DEF TypeOK, HandedOn, AnnouncingPCs
  <2> QED
    BY <1>1, <1>2, <2>1, <2>2, QuietStep
<1>3. CASE pc[c] = "expired" /\ replies' = Written(c, "Unavailable")
  <2>1. \/ replies[c] = <<"Registered">>
        \/ replies[c] = <<>> /\ peer[c] = "gone"
    BY <1>3 DEF ToldInv, HostsTold, RegisteredPCs
  <2>2. /\ \A x \in Conns : x # c => replies'[x] = replies[x]
        /\ replies'[c] \in {<<>>, <<"Registered">>, <<"Registered", "Unavailable">>}
    BY <1>0, <1>3, <2>1, WrittenReplies DEF Response
  <2>3. \A h \in Conns : \A v \in slot[h] \cup viewerOf[h] : v \in Conns /\ v # c
    BY <1>0, <1>1, NotHandedOn DEF TypeOK
  <2>4. viewerOf[c] = {}
    BY <1>0, <1>1 DEF HandoffInv, MatchesExclusive, MatchedPCs, TypeOK
  <2>5. pc'[c] = "leaving" /\ \A x \in Conns : x # c => pc'[x] = pc[x]
    BY <1>0, <1>1 DEF TypeOK
  <2>6. SilentUntilTold'
    BY <1>1, <2>2, <2>3, <2>5 DEF ToldInv, SilentUntilTold, SilentPCs, AnnouncingPCs
  <2>7. HostsTold'
    BY <1>1, <2>2, <2>5 DEF ToldInv, HostsTold, RegisteredPCs, AcceptedPCs
  <2>8. ReplyOrder'
    BY <1>1, <2>2, <2>3, <2>4 DEF ToldInv, ReplyOrder, Response
  <2> QED
    BY <2>6, <2>7, <2>8 DEF ToldInv
<1> QED
  BY <1>2, <1>3 DEF RemoveRegistration

\* The host is told that a viewer has come; if it has gone, the viewer is told.
LEMMA MatchHostStep ==
  ASSUME HandoffInv, ToldInv, NEW c \in Conns, MatchHost(c)
  PROVE  ToldInv'
<1>0. TypeOK
  BY DEF HandoffInv
<1>1. UNCHANGED <<slot, viewerOf, peer>> /\ pc[c] = "match"
  BY DEF MatchHost, handoff
<1>2. \/ replies[c] = <<"Registered">>
      \/ replies[c] = <<>> /\ peer[c] = "gone"
  BY <1>1 DEF ToldInv, HostsTold, RegisteredPCs
<1>3. \A v \in viewerOf[c] : v \in Conns /\ replies[v] = <<>>
  BY <1>0, <1>1 DEF ToldInv, SilentUntilTold, AnnouncingPCs, TypeOK
<1>4. CASE pc' = [pc EXCEPT ![c] = "matchViewer"] /\ replies' = Written(c, "ClaimAccepted")
  <2>1. /\ \A x \in Conns : x # c => replies'[x] = replies[x]
        /\ \/ replies'[c] = <<"Registered", "ClaimAccepted">>
           \/ replies'[c] = <<>> /\ peer'[c] = "gone"
           \/ replies'[c] = <<"Registered">> /\ peer'[c] = "gone"
    BY <1>0, <1>1, <1>2, <1>4, WrittenReplies DEF Response
  <2>2. \A h \in Conns : \A v \in slot[h] \cup viewerOf[h] : v \in Conns /\ v # c
    BY <1>0, <1>1, NotHandedOn DEF TypeOK
  <2>3. pc'[c] = "matchViewer" /\ \A x \in Conns : x # c => pc'[x] = pc[x]
    BY <1>0, <1>4 DEF TypeOK
  <2>4. SilentUntilTold'
    BY <1>1, <1>3, <2>1, <2>2, <2>3 DEF ToldInv, SilentUntilTold, SilentPCs, AnnouncingPCs
  <2>5. HostsTold'
    BY <1>1, <2>1, <2>3 DEF ToldInv, HostsTold, RegisteredPCs, AcceptedPCs
  <2>6. ReplyOrder'
    BY <1>1, <1>3, <2>1, <2>2 DEF ToldInv, ReplyOrder, Response
  <2> QED
    BY <2>4, <2>5, <2>6 DEF ToldInv
<1>5. ASSUME NEW v \in viewerOf[c], pc' = [pc EXCEPT ![c] = "leaving"],
             replies' = Written(v, "Unavailable")
      PROVE  ToldInv'
  <2>1. /\ \A x \in Conns : x # v => replies'[x] = replies[x]
        /\ replies'[v] \in {<<>>, <<"Unavailable">>}
    BY <1>0, <1>3, <1>5, WrittenReplies DEF Response
  <2>2. pc[v] = "moved" /\ v # c /\ viewerOf[v] = {}
    BY <1>0, <1>1, <1>3, <1>5 DEF HandoffInv, MatchesExclusive, MatchedPCs, TypeOK
  <2>3. \A h \in Conns : /\ v \notin slot[h]
                         /\ v \in viewerOf[h] => h = c
    BY <1>0, <1>3, <1>5 DEF HandoffInv, MatchesExclusive
  <2>4. pc'[c] = "leaving" /\ \A x \in Conns : x # c => pc'[x] = pc[x]
    BY <1>0, <1>5 DEF TypeOK
  <2>5. \A h \in Conns : \A u \in slot[h] \cup viewerOf[h] : u \in Conns
    BY <1>0 DEF TypeOK
  <2>6. SilentUntilTold'
    <3>1. \A x \in Conns : pc'[x] \in SilentPCs => replies'[x] = <<>>
      BY <2>1, <2>2, <2>4 DEF ToldInv, SilentUntilTold, SilentPCs
    <3>2. \A h \in Conns : \A u \in slot'[h] : replies'[u] = <<>>
      BY <1>1, <2>1, <2>3, <2>5 DEF ToldInv, SilentUntilTold
    <3>3. \A h \in Conns : \A u \in viewerOf'[h] : pc'[h] \in AnnouncingPCs => replies'[u] = <<>>
      BY <1>1, <2>1, <2>3, <2>4, <2>5 DEF ToldInv, SilentUntilTold, AnnouncingPCs
    <3> QED
      BY <3>1, <3>2, <3>3 DEF SilentUntilTold
  <2>7. HostsTold'
    BY <1>1, <2>1, <2>2, <2>4 DEF ToldInv, HostsTold, RegisteredPCs, AcceptedPCs
  <2>8. ReplyOrder'
    BY <1>1, <2>1, <2>2, <2>5 DEF ToldInv, ReplyOrder, Response
  <2> QED
    BY <2>6, <2>7, <2>8 DEF ToldInv
<1> QED
  BY <1>4, <1>5 DEF MatchHost, Goto

\* The viewer is told that it is matched, after its host.
LEMMA MatchViewerStep ==
  ASSUME HandoffInv, ToldInv, NEW c \in Conns, MatchViewer(c)
  PROVE  ToldInv'
<1>0. TypeOK
  BY DEF HandoffInv
<1>1. UNCHANGED <<slot, viewerOf, peer>> /\ pc[c] = "matchViewer"
  BY DEF MatchViewer, handoff
<1>2. replies[c] = <<"Registered", "ClaimAccepted">> \/ peer[c] = "gone"
  BY <1>1 DEF ToldInv, HostsTold, AcceptedPCs
<1>3. \A v \in viewerOf[c] : v \in Conns /\ replies[v] = <<>>
  BY <1>0, <1>1 DEF ToldInv, SilentUntilTold, AnnouncingPCs, TypeOK
<1>4. CASE pc' = [pc EXCEPT ![c] = "leaving"] /\ UNCHANGED replies
  <2>1. \A x \in Conns : MovesOn(x)
    BY <1>0, <1>4 DEF TypeOK, MovesOn
  <2>2. HandedOn
    BY <1>0, <1>1, <1>4 DEF TypeOK, HandedOn, AnnouncingPCs
  <2> QED
    BY <1>1, <1>4, <2>1, <2>2, QuietStep
<1>5. ASSUME NEW v \in viewerOf[c], pc' = [pc EXCEPT ![c] = "tunnel"],
             replies' = Written(v, "ClaimAccepted")
      PROVE  ToldInv'
  <2>1. /\ \A x \in Conns : x # v => replies'[x] = replies[x]
        /\ replies'[v] \in {<<>>, <<"ClaimAccepted">>}
    BY <1>0, <1>3, <1>5, WrittenReplies DEF Response
  <2>2. pc[v] = "moved" /\ v # c /\ viewerOf[v] = {}
    BY <1>0, <1>1, <1>3, <1>5 DEF HandoffInv, MatchesExclusive, MatchedPCs, TypeOK
  <2>3. \A h \in Conns : /\ v \notin slot[h]
                         /\ v \in viewerOf[h] => h = c
    BY <1>0, <1>3, <1>5 DEF HandoffInv, MatchesExclusive
  <2>4. pc'[c] = "tunnel" /\ \A x \in Conns : x # c => pc'[x] = pc[x]
    BY <1>0, <1>5 DEF TypeOK
  <2>5. \A h \in Conns : \A u \in slot[h] \cup viewerOf[h] : u \in Conns
    BY <1>0 DEF TypeOK
  <2>6. SilentUntilTold'
    <3>1. \A x \in Conns : pc'[x] \in SilentPCs => replies'[x] = <<>>
      BY <2>1, <2>2, <2>4 DEF ToldInv, SilentUntilTold, SilentPCs
    <3>2. \A h \in Conns : \A u \in slot'[h] : replies'[u] = <<>>
      BY <1>1, <2>1, <2>3, <2>5 DEF ToldInv, SilentUntilTold
    <3>3. \A h \in Conns : \A u \in viewerOf'[h] : pc'[h] \in AnnouncingPCs => replies'[u] = <<>>
      BY <1>1, <2>1, <2>3, <2>4, <2>5 DEF ToldInv, SilentUntilTold, AnnouncingPCs
    <3> QED
      BY <3>1, <3>2, <3>3 DEF SilentUntilTold
  <2>7. HostsTold'
    BY <1>1, <1>2, <2>1, <2>2, <2>4 DEF ToldInv, HostsTold, RegisteredPCs, AcceptedPCs
  <2>8. ReplyOrder'
    <3>1. \A x \in Conns : \/ replies'[x] = replies[x]
                           \/ replies'[x] \in {<<>>} \cup {<<r>> : r \in Response}
      BY <2>1 DEF Response
    <3>2. ASSUME NEW h \in Conns, NEW u \in viewerOf'[h], replies'[u] = <<"ClaimAccepted">>
          PROVE  replies'[h] = <<"Registered", "ClaimAccepted">> \/ peer'[h] = "gone"
      <4>1. CASE u = v
        BY <1>1, <1>2, <2>1, <2>2, <2>3, <3>2, <4>1
      <4>2. CASE u # v
        BY <1>1, <2>1, <2>2, <2>5, <3>2, <4>2 DEF ToldInv, ReplyOrder
      <4> QED
        BY <4>1, <4>2
    <3> QED
      BY <3>1, <3>2 DEF ToldInv, ReplyOrder
  <2> QED
    BY <2>6, <2>7, <2>8 DEF ToldInv
<1> QED
  BY <1>4, <1>5 DEF MatchViewer, Goto

-----------------------------------------------------------------------------
\* Nothing is said after a refusal, and a viewer is told that it is matched only
\* after its host (register_host, main.rs 335-372).
THEOREM RepliesInOrder == Spec => []ReplyOrder
<1>1. Init => ToldInv
  BY DEF Init, ToldInv, SilentUntilTold, HostsTold, ReplyOrder, RegisteredPCs, AcceptedPCs
<1>2. HandoffInv /\ ToldInv /\ [Next]_vars => ToldInv'
  <2> SUFFICES ASSUME HandoffInv, ToldInv, [Next]_vars PROVE ToldInv'
    OBVIOUS
  <2>1. CASE UNCHANGED vars
    BY <2>1 DEF vars, ToldInv, SilentUntilTold, HostsTold, ReplyOrder
  <2>2. ASSUME NEW c \in Conns, HangUp(c) \/ TalkEarly(c) PROVE ToldInv'
    BY <2>2, PeerSteps DEF HandoffInv
  <2> QED
    BY <2>1, <2>2, QuietSteps, LastWordSteps, AnnounceStep, RemoveStep, MatchHostStep,
       MatchViewerStep, PollFailing DEF Next, HostStep, ViewerStep, Acceptor, Environment
<1>3. ToldInv => ReplyOrder
  BY DEF ToldInv
<1> QED
  BY <1>1, <1>2, <1>3, HandoffCorrect, PTL DEF Spec

-----------------------------------------------------------------------------
(* The rendezvous the relay implements, one element at a time *)

Offered(w) == [host |-> w.host, route |-> w.route]
HasOffered(c) == regId[c] # 0 /\ pc[c] # "insert" /\ \A w \in waiting : w.host # c
Together(h, v) == pc[h] = "tunnel" /\ v \in viewerOf[h]

\* The members of the rendezvous' variables.
Bars ==
  /\ \A o : o \in offersBar <=> \E w \in waiting : o = Offered(w)
  /\ \A c : c \in spentBar <=> c \in Conns /\ HasOffered(c)
  /\ \A x : x \in claimsBar <=> \E h, v \in Conns : InTransit(h, v) /\ x = Pair(h, v)
  /\ \A x : x \in joinedBar <=> \E h, v \in Conns : Together(h, v) /\ x = Pair(h, v)

\* The members are those the refinement mapping gives.
LEMMA BarsAre == Bars
<1>1. \A x : x \in claimsBar <=> \E h, v \in Conns : InTransit(h, v) /\ x = Pair(h, v)
  <2>1. ASSUME NEW x, NEW h \in Conns, NEW v \in Conns, InTransit(h, v), x = Pair(h, v)
        PROVE  x \in claimsBar
    <3>1. <<h, v>> \in {q \in Conns \X Conns : InTransit(q[1], q[2])}
      BY <2>1
    <3>2. x = Pair(<<h, v>>[1], <<h, v>>[2])
      BY <2>1
    <3> QED
      BY <3>1, <3>2 DEF claimsBar
  <2>2. ASSUME NEW x \in claimsBar
        PROVE  \E h, v \in Conns : InTransit(h, v) /\ x = Pair(h, v)
    <3>1. PICK q \in Conns \X Conns : InTransit(q[1], q[2]) /\ x = Pair(q[1], q[2])
      BY DEF claimsBar
    <3> QED
      BY <3>1
  <2> QED
    BY <2>1, <2>2
<1>2. \A x : x \in joinedBar <=> \E h, v \in Conns : Together(h, v) /\ x = Pair(h, v)
  <2>1. ASSUME NEW x, NEW h \in Conns, NEW v \in Conns, Together(h, v), x = Pair(h, v)
        PROVE  x \in joinedBar
    <3>1. <<h, v>> \in {q \in Conns \X Conns : pc[q[1]] = "tunnel" /\ q[2] \in viewerOf[q[1]]}
      BY <2>1 DEF Together
    <3>2. x = Pair(<<h, v>>[1], <<h, v>>[2])
      BY <2>1
    <3> QED
      BY <3>1, <3>2 DEF joinedBar
  <2>2. ASSUME NEW x \in joinedBar
        PROVE  \E h, v \in Conns : Together(h, v) /\ x = Pair(h, v)
    <3>1. PICK q \in Conns \X Conns : /\ pc[q[1]] = "tunnel" /\ q[2] \in viewerOf[q[1]]
                                      /\ x = Pair(q[1], q[2])
      BY DEF joinedBar
    <3> QED
      BY <3>1 DEF Together
  <2> QED
    BY <2>1, <2>2
<1> QED
  BY <1>1, <1>2 DEF Bars, offersBar, spentBar, Offered, HasOffered

\* The same after a step.
LEMMA BarsWillBe == Bars'
  BY BarsAre, PTL

\* Who is in transit or joined names the route it did.
RoutesKept ==
  \A h, v \in Conns : InTransit(h, v) \/ Together(h, v) => route'[v] = route[v]

\* The claims are the same if the same viewers are in transit.
LEMMA ClaimsStay ==
  ASSUME \A h, v \in Conns : InTransit(h, v)' <=> InTransit(h, v),
         \A h, v \in Conns : InTransit(h, v) => Pair(h, v)' = Pair(h, v)
  PROVE  claimsBar' = claimsBar
<1>1. \A x : x \in claimsBar' <=> x \in claimsBar
  BY BarsAre, BarsWillBe DEF Bars
<1>2. claimsBar' = {x \in claimsBar : TRUE} /\ claimsBar = {x \in claimsBar : TRUE}
  BY <1>1
<1> QED
  BY <1>2

\* The pairs are the same if the same tunnels run.
LEMMA JoinedStay ==
  ASSUME \A h, v \in Conns : Together(h, v)' <=> Together(h, v),
         \A h, v \in Conns : Together(h, v) => Pair(h, v)' = Pair(h, v)
  PROVE  joinedBar' = joinedBar
<1>1. \A x : x \in joinedBar' <=> x \in joinedBar
  BY BarsAre, BarsWillBe DEF Bars
<1>2. joinedBar' = {x \in joinedBar : TRUE} /\ joinedBar = {x \in joinedBar : TRUE}
  BY <1>1
<1> QED
  BY <1>2

\* A step the rendezvous does not see.
LEMMA UnseenStep ==
  ASSUME waiting' = waiting, RoutesKept,
         \A c \in Conns : HasOffered(c)' <=> HasOffered(c),
         \A h, v \in Conns : /\ InTransit(h, v)' <=> InTransit(h, v)
                             /\ Together(h, v)' <=> Together(h, v)
  PROVE  UNCHANGED <<offersBar, spentBar, claimsBar, joinedBar>>
<1>1. \A h, v \in Conns : InTransit(h, v) \/ Together(h, v) => Pair(h, v)' = Pair(h, v)
  BY DEF RoutesKept, Pair
<1>2. offersBar' = offersBar
  BY DEF offersBar
<1>3. spentBar' = spentBar
  BY BarsAre, BarsWillBe DEF Bars
<1>4. claimsBar' = claimsBar
  BY <1>1, ClaimsStay
<1>5. joinedBar' = joinedBar
  BY <1>1, JoinedStay
<1> QED
  BY <1>2, <1>3, <1>4, <1>5

\* A step that ends what there is between a host and its viewer.
LEMMA SettlingStep ==
  ASSUME NEW g \in Conns, waiting' = waiting, RoutesKept,
         \A c \in Conns : HasOffered(c)' <=> HasOffered(c),
         \A h, v \in Conns : /\ InTransit(h, v)' <=> InTransit(h, v) /\ h # g
                             /\ Together(h, v)' <=> Together(h, v) /\ h # g
  PROVE  R!Settle(g)
<1>1. \A h, v \in Conns : InTransit(h, v) \/ Together(h, v) => Pair(h, v)' = Pair(h, v)
  BY DEF RoutesKept, Pair
<1>0. \A h, v \in Conns : Pair(h, v).host = h
  BY DEF Pair
<1>2. offersBar' = offersBar
  BY DEF offersBar
<1>3. spentBar' = spentBar
  BY BarsAre, BarsWillBe DEF Bars
<1>4. claimsBar' = {x \in claimsBar : x.host # g}
  BY <1>0, <1>1, BarsAre, BarsWillBe DEF Bars
<1>5. joinedBar' = {x \in joinedBar : x.host # g}
  BY <1>0, <1>1, BarsAre, BarsWillBe DEF Bars
<1> QED
  BY <1>2, <1>3, <1>4, <1>5 DEF R!Settle

\* A thread that has not registered has no registration id.
Unnumbered ==
  \A c \in Conns : pc[c] \in {"absent", "accepted", "request", "register"} => regId[c] = 0

\* Only TakeRegistrationId gives a thread an id, and no thread starts again.
LEMMA UnnumberedStep ==
  ASSUME TypeOK, Unnumbered, [Next]_vars
  PROVE  Unnumbered'
<1>1. ASSUME NEW c \in Conns, TakeRegistrationId(c) PROVE Unnumbered'
  BY <1>1 DEF TakeRegistrationId, Goto, TypeOK, Unnumbered
<1>2. ASSUME NEW c \in Conns,
             \/ ReadNoRequest(c) \/ RefuseBusy(c) \/ RefuseViewer(c) \/ Leave(c)
      PROVE  Unnumbered'
  BY <1>2 DEF ReadNoRequest, RefuseBusy, RefuseViewer, Leave, Return, Owned, TypeOK, Unnumbered
<1>3. ASSUME NEW c \in Conns,
             \/ ReadRequest(c) \/ InsertRoute(c) \/ AnnounceRegistered(c) \/ PollFails(c)
             \/ RemoveRegistration(c) \/ ReceiveViewer(c) \/ MatchHost(c) \/ MatchViewer(c)
             \/ ClaimRoute(c) \/ ClaimMissing(c) \/ SendViewer(c) \/ Expire(c)
             \/ EndTunnel(c) \/ Accept(c) \/ Admit(c) \/ TurnAway(c)
      PROVE  Unnumbered'
  <2>1. regId' = regId
    BY <1>3 DEF ReadRequest, InsertRoute, AnnounceRegistered, PollFails, RemoveRegistration,
       ReceiveViewer, MatchHost, MatchViewer, ClaimRoute, ClaimMissing, SendViewer, Expire,
       EndTunnel, Accept, Admit, TurnAway
  <2>2. \A x \in Conns : pc'[x] \in {"absent", "accepted", "request", "register"}
                          => pc[x] \in {"absent", "accepted", "request", "register"}
    BY <1>3 DEF ReadRequest, InsertRoute, AnnounceRegistered, PollFails, RemoveRegistration,
       ReceiveViewer, MatchHost, MatchViewer, ClaimRoute, ClaimMissing, SendViewer, Expire,
       EndTunnel, Accept, Admit, TurnAway, Goto, TypeOK
  <2> QED
    BY <2>1, <2>2 DEF Unnumbered
<1>4. CASE UNCHANGED <<pc, regId>>
  BY <1>4 DEF Unnumbered
<1> QED
  BY <1>1, <1>2, <1>3, <1>4, PollFailing
     DEF Next, HostStep, ViewerStep, Acceptor, Environment, vars, HangUp, TalkEarly

\* Steps the rendezvous does not see.
LEMMA UnseenSteps ==
  ASSUME HandoffInv, Unnumbered, NEW c \in Conns,
         \/ ReadRequest(c) \/ ReadNoRequest(c) \/ TakeRegistrationId(c) \/ AnnounceRegistered(c)
         \/ PollFails(c) \/ Expire(c) \/ ClaimMissing(c) \/ RefuseViewer(c) \/ Accept(c)
         \/ Acceptor(c) \/ HangUp(c) \/ TalkEarly(c)
  PROVE  UNCHANGED <<offersBar, spentBar, claimsBar, joinedBar>>
<1>0. /\ TypeOK
      /\ pc[c] \in {"request", "refuse"} => slot[c] = {} /\ viewerOf[c] = {}
      /\ pc[c] = "request" => \A h \in Conns : ~InTransit(h, c) /\ ~Together(h, c)
      /\ pc[c] = "register" => \A w \in waiting : w.host # c
  <2>1. pc[c] \in {"request", "refuse"} => slot[c] = {} /\ viewerOf[c] = {}
    BY DEF HandoffInv, TypeOK, SlotsExclusive, MatchesExclusive, OfferedPCs, GivingUpPCs,
       MatchedPCs
  <2>2. pc[c] = "request" => \A h \in Conns : ~InTransit(h, c) /\ ~Together(h, c)
    BY DEF HandoffInv, SendersExclusive, SlotsExclusive, MatchesExclusive, InTransit, Together
  <2>3. pc[c] = "register" => \A w \in waiting : w.host # c
    BY DEF HandoffInv, EntriesOwned, OfferedPCs, GivingUpPCs
  <2> QED
    BY <2>1, <2>2, <2>3 DEF HandoffInv
<1>1. CASE ReadRequest(c)
  <2>1. waiting' = waiting /\ RoutesKept
    BY <1>0, <1>1 DEF ReadRequest, Goto, handoff, table, TypeOK, RoutesKept, InTransit, Together
  <2>2. \A d \in Conns : HasOffered(d)' <=> HasOffered(d)
    BY <1>0, <1>1 DEF ReadRequest, Goto, handoff, table, TypeOK, HasOffered
  <2>3. \A h, v \in Conns : /\ InTransit(h, v)' <=> InTransit(h, v)
                            /\ Together(h, v)' <=> Together(h, v)
    BY <1>0, <1>1 DEF ReadRequest, Goto, handoff, table, TypeOK, InTransit, Together
  <2> QED
    BY <2>1, <2>2, <2>3, UnseenStep
<1>2. CASE ReadNoRequest(c)
  <2>1. waiting' = waiting /\ RoutesKept
    BY <1>0, <1>2 DEF ReadNoRequest, Return, Owned, table, TypeOK, RoutesKept, InTransit, Together
  <2>2. \A d \in Conns : HasOffered(d)' <=> HasOffered(d)
    BY <1>0, <1>2 DEF ReadNoRequest, Return, Owned, table, TypeOK, HasOffered
  <2>3. \A h, v \in Conns : /\ InTransit(h, v)' <=> InTransit(h, v)
                            /\ Together(h, v)' <=> Together(h, v)
    BY <1>0, <1>2 DEF ReadNoRequest, Return, Owned, table, TypeOK, InTransit, Together
  <2> QED
    BY <2>1, <2>2, <2>3, UnseenStep
<1>3. CASE TakeRegistrationId(c)
  <2>1. waiting' = waiting /\ RoutesKept
    BY <1>0, <1>3 DEF TakeRegistrationId, Goto, handoff, TypeOK, RoutesKept, InTransit, Together
  <2>2. \A d \in Conns : HasOffered(d)' <=> HasOffered(d)
    BY <1>0, <1>3 DEF TakeRegistrationId, Goto, handoff, TypeOK, HasOffered, Unnumbered
  <2>3. \A h, v \in Conns : /\ InTransit(h, v)' <=> InTransit(h, v)
                            /\ Together(h, v)' <=> Together(h, v)
    BY <1>0, <1>3 DEF TakeRegistrationId, Goto, handoff, TypeOK, InTransit, Together
  <2> QED
    BY <2>1, <2>2, <2>3, UnseenStep
<1>4. CASE AnnounceRegistered(c)
  <2>1. waiting' = waiting /\ RoutesKept
    BY <1>0, <1>4 DEF AnnounceRegistered, Goto, handoff, table, TypeOK, RoutesKept,
       InTransit, Together
  <2>2. \A d \in Conns : HasOffered(d)' <=> HasOffered(d)
    BY <1>0, <1>4 DEF AnnounceRegistered, Goto, handoff, table, TypeOK, HasOffered
  <2>3. \A h, v \in Conns : /\ InTransit(h, v)' <=> InTransit(h, v)
                            /\ Together(h, v)' <=> Together(h, v)
    BY <1>0, <1>4 DEF AnnounceRegistered, Goto, handoff, table, TypeOK, InTransit, Together
  <2> QED
    BY <2>1, <2>2, <2>3, UnseenStep
<1>5. CASE PollFails(c)
  <2>1. waiting' = waiting /\ RoutesKept
    BY <1>0, <1>5 DEF PollFails, Goto, handoff, table, TypeOK, RoutesKept, InTransit, Together
  <2>2. \A d \in Conns : HasOffered(d)' <=> HasOffered(d)
    BY <1>0, <1>5 DEF PollFails, Goto, handoff, table, TypeOK, HasOffered
  <2>3. \A h, v \in Conns : /\ InTransit(h, v)' <=> InTransit(h, v)
                            /\ Together(h, v)' <=> Together(h, v)
    BY <1>0, <1>5 DEF PollFails, Goto, handoff, table, TypeOK, InTransit, Together
  <2> QED
    BY <2>1, <2>2, <2>3, UnseenStep
<1>6. CASE Expire(c)
  <2>1. waiting' = waiting /\ RoutesKept
    BY <1>0, <1>6 DEF Expire, Goto, handoff, table, TypeOK, RoutesKept, InTransit, Together
  <2>2. \A d \in Conns : HasOffered(d)' <=> HasOffered(d)
    BY <1>0, <1>6 DEF Expire, Goto, handoff, table, TypeOK, HasOffered
  <2>3. \A h, v \in Conns : /\ InTransit(h, v)' <=> InTransit(h, v)
                            /\ Together(h, v)' <=> Together(h, v)
    BY <1>0, <1>6 DEF Expire, Goto, handoff, table, TypeOK, InTransit, Together
  <2> QED
    BY <2>1, <2>2, <2>3, UnseenStep
<1>7. CASE ClaimMissing(c)
  <2>1. waiting' = waiting /\ RoutesKept
    BY <1>0, <1>7 DEF ClaimMissing, Goto, handoff, table, TypeOK, RoutesKept, InTransit, Together
  <2>2. \A d \in Conns : HasOffered(d)' <=> HasOffered(d)
    BY <1>0, <1>7 DEF ClaimMissing, Goto, handoff, table, TypeOK, HasOffered
  <2>3. \A h, v \in Conns : /\ InTransit(h, v)' <=> InTransit(h, v)
                            /\ Together(h, v)' <=> Together(h, v)
    BY <1>0, <1>7 DEF ClaimMissing, Goto, handoff, table, TypeOK, InTransit, Together
  <2> QED
    BY <2>1, <2>2, <2>3, UnseenStep
<1>8. CASE RefuseViewer(c)
  <2>1. waiting' = waiting /\ RoutesKept
    BY <1>0, <1>8 DEF RefuseViewer, Return, Owned, table, TypeOK, RoutesKept, InTransit, Together
  <2>2. \A d \in Conns : HasOffered(d)' <=> HasOffered(d)
    BY <1>0, <1>8 DEF RefuseViewer, Return, Owned, table, TypeOK, HasOffered
  <2>3. \A h, v \in Conns : /\ InTransit(h, v)' <=> InTransit(h, v)
                            /\ Together(h, v)' <=> Together(h, v)
    BY <1>0, <1>8 DEF RefuseViewer, Return, Owned, table, TypeOK, InTransit, Together
  <2> QED
    BY <2>1, <2>2, <2>3, UnseenStep
<1>9. CASE Accept(c) \/ Acceptor(c)
  <2>1. PICK next \in {"accepted", "request", "done"} : pc' = [pc EXCEPT ![c] = next]
    BY <1>9, AcceptorMoves
  <2>2. /\ pc[c] \in {"absent", "accepted"}
        /\ UNCHANGED <<route, regId, waiting, sender, slot, viewerOf>>
    BY <1>9, AcceptorMoves
  <2>3. waiting' = waiting /\ RoutesKept
    BY <2>2 DEF RoutesKept
  <2>4. \A d \in Conns : HasOffered(d)' <=> HasOffered(d)
    BY <1>0, <2>1, <2>2 DEF TypeOK, HasOffered
  <2>5. \A h, v \in Conns : /\ InTransit(h, v)' <=> InTransit(h, v)
                            /\ Together(h, v)' <=> Together(h, v)
    BY <1>0, <2>1, <2>2 DEF TypeOK, InTransit, Together
  <2> QED
    BY <2>3, <2>4, <2>5, UnseenStep
<1>10. CASE HangUp(c)
  <2>1. waiting' = waiting /\ RoutesKept
    BY <1>0, <1>10 DEF HangUp, handoff, table, TypeOK, RoutesKept, InTransit, Together
  <2>2. \A d \in Conns : HasOffered(d)' <=> HasOffered(d)
    BY <1>0, <1>10 DEF HangUp, handoff, table, TypeOK, HasOffered
  <2>3. \A h, v \in Conns : /\ InTransit(h, v)' <=> InTransit(h, v)
                            /\ Together(h, v)' <=> Together(h, v)
    BY <1>0, <1>10 DEF HangUp, handoff, table, TypeOK, InTransit, Together
  <2> QED
    BY <2>1, <2>2, <2>3, UnseenStep
<1>11. CASE TalkEarly(c)
  <2>1. waiting' = waiting /\ RoutesKept
    BY <1>0, <1>11 DEF TalkEarly, handoff, table, TypeOK, RoutesKept, InTransit, Together
  <2>2. \A d \in Conns : HasOffered(d)' <=> HasOffered(d)
    BY <1>0, <1>11 DEF TalkEarly, handoff, table, TypeOK, HasOffered
  <2>3. \A h, v \in Conns : /\ InTransit(h, v)' <=> InTransit(h, v)
                            /\ Together(h, v)' <=> Together(h, v)
    BY <1>0, <1>11 DEF TalkEarly, handoff, table, TypeOK, InTransit, Together
  <2> QED
    BY <2>1, <2>2, <2>3, UnseenStep
<1> QED
  BY <1>1, <1>2, <1>3, <1>4, <1>5, <1>6, <1>7, <1>8, <1>9, <1>10, <1>11

\* What a host has while its thread is where c's is.
LEMMA HoldingOf ==
  ASSUME HandoffInv, NEW c \in Conns
  PROVE  /\ pc[c] \in MatchedPCs => slot[c] = {} /\ \A v \in Conns : c \notin sender[v]
         /\ pc[c] \in OfferedPCs => viewerOf[c] = {}
         /\ slot[c] # {} => viewerOf[c] = {} /\ \A v \in Conns : c \notin sender[v]
         /\ viewerOf[c] # {} => slot[c] = {} /\ \A v \in Conns : c \notin sender[v]
         /\ \A v \in Conns : c \in sender[v] =>
              /\ pc[v] = "send" /\ slot[c] = {} /\ viewerOf[c] = {}
              /\ \A u \in Conns : c \in sender[u] => u = v
  BY DEF HandoffInv, TypeOK, SendersExclusive, SlotsExclusive, MatchesExclusive, OfferedPCs,
     GivingUpPCs, MatchedPCs

\* Steps that announce the match, or end what there was.
LEMMA HostSteps ==
  ASSUME HandoffInv, NEW c \in Conns,
         ReceiveViewer(c) \/ MatchHost(c) \/ EndTunnel(c) \/ Leave(c)
  PROVE  UNCHANGED <<offersBar, spentBar, claimsBar, joinedBar>> \/ R!Settle(c)
<1>0. TypeOK
  BY DEF HandoffInv
<1>1. CASE ReceiveViewer(c) /\ pc'[c] = "match"
  <2>1. waiting' = waiting /\ RoutesKept
    BY <1>0, HoldingOf, <1>1 DEF ReceiveViewer, Goto, table, OfferedPCs, TypeOK, RoutesKept
  <2>2. \A d \in Conns : HasOffered(d)' <=> HasOffered(d)
    BY <1>0, HoldingOf, <1>1 DEF ReceiveViewer, Goto, table, OfferedPCs, TypeOK, HasOffered
  <2>3. \A h, v \in Conns : /\ InTransit(h, v)' <=> InTransit(h, v)
                            /\ Together(h, v)' <=> Together(h, v)
    BY <1>0, HoldingOf, <1>1 DEF ReceiveViewer, Goto, table, OfferedPCs, TypeOK, InTransit, Together
  <2> QED
    BY <2>1, <2>2, <2>3, UnseenStep
<1>2. CASE ReceiveViewer(c) /\ pc'[c] = "leaving"
  <2>1. waiting' = waiting /\ RoutesKept
    BY <1>0, HoldingOf, <1>2 DEF ReceiveViewer, Goto, table, OfferedPCs, TypeOK, RoutesKept
  <2>2. \A d \in Conns : HasOffered(d)' <=> HasOffered(d)
    BY <1>0, HoldingOf, <1>2 DEF ReceiveViewer, Goto, table, OfferedPCs, TypeOK, HasOffered
  <2>3. \A h, v \in Conns : /\ InTransit(h, v)' <=> InTransit(h, v) /\ h # c
                            /\ Together(h, v)' <=> Together(h, v) /\ h # c
    BY <1>0, HoldingOf, <1>2 DEF ReceiveViewer, Goto, table, OfferedPCs, TypeOK, InTransit, Together
  <2> QED
    BY <2>1, <2>2, <2>3, SettlingStep
<1>3. CASE MatchHost(c) /\ pc'[c] = "matchViewer"
  <2>1. waiting' = waiting /\ RoutesKept
    BY <1>0, <1>3 DEF MatchHost, Goto, table, handoff, TypeOK, RoutesKept
  <2>2. \A d \in Conns : HasOffered(d)' <=> HasOffered(d)
    BY <1>0, <1>3 DEF MatchHost, Goto, table, handoff, TypeOK, HasOffered
  <2>3. \A h, v \in Conns : /\ InTransit(h, v)' <=> InTransit(h, v)
                            /\ Together(h, v)' <=> Together(h, v)
    BY <1>0, <1>3 DEF MatchHost, Goto, table, handoff, TypeOK, InTransit, Together
  <2> QED
    BY <2>1, <2>2, <2>3, UnseenStep
<1>4. CASE MatchHost(c) /\ pc'[c] = "leaving"
  <2>1. waiting' = waiting /\ RoutesKept
    BY <1>0, HoldingOf, <1>4 DEF MatchHost, Goto, table, handoff, MatchedPCs, TypeOK, RoutesKept
  <2>2. \A d \in Conns : HasOffered(d)' <=> HasOffered(d)
    BY <1>0, HoldingOf, <1>4 DEF MatchHost, Goto, table, handoff, MatchedPCs, TypeOK, HasOffered
  <2>3. \A h, v \in Conns : /\ InTransit(h, v)' <=> InTransit(h, v) /\ h # c
                            /\ Together(h, v)' <=> Together(h, v) /\ h # c
    BY <1>0, HoldingOf, <1>4 DEF MatchHost, Goto, table, handoff, MatchedPCs, TypeOK,
       InTransit, Together
  <2> QED
    BY <2>1, <2>2, <2>3, SettlingStep
<1>5. CASE EndTunnel(c)
  <2>1. waiting' = waiting /\ RoutesKept
    BY <1>0, HoldingOf, <1>5 DEF EndTunnel, Goto, table, handoff, MatchedPCs, TypeOK, RoutesKept
  <2>2. \A d \in Conns : HasOffered(d)' <=> HasOffered(d)
    BY <1>0, HoldingOf, <1>5 DEF EndTunnel, Goto, table, handoff, MatchedPCs, TypeOK, HasOffered
  <2>3. \A h, v \in Conns : /\ InTransit(h, v)' <=> InTransit(h, v) /\ h # c
                            /\ Together(h, v)' <=> Together(h, v) /\ h # c
    BY <1>0, HoldingOf, <1>5 DEF EndTunnel, Goto, table, handoff, MatchedPCs, TypeOK,
       InTransit, Together
  <2> QED
    BY <2>1, <2>2, <2>3, SettlingStep
<1>6. CASE Leave(c) /\ slot[c] = {} /\ viewerOf[c] = {}
  <2>1. waiting' = waiting /\ RoutesKept
    BY <1>0, <1>6 DEF Leave, Return, Owned, table, TypeOK, RoutesKept
  <2>2. \A d \in Conns : HasOffered(d)' <=> HasOffered(d)
    BY <1>0, <1>6 DEF Leave, Return, Owned, table, TypeOK, HasOffered
  <2>3. \A h, v \in Conns : /\ InTransit(h, v)' <=> InTransit(h, v)
                            /\ Together(h, v)' <=> Together(h, v)
    BY <1>0, <1>6 DEF Leave, Return, Owned, table, TypeOK, InTransit, Together
  <2> QED
    BY <2>1, <2>2, <2>3, UnseenStep
<1>7. CASE Leave(c) /\ (slot[c] # {} \/ viewerOf[c] # {})
  <2>1. /\ pc[c] = "leaving" /\ Return(c)
        /\ UNCHANGED <<route, regId, waiting, sender>>
    BY <1>7 DEF Leave, table
  <2>2. \A x \in Conns : \/ pc'[x] = pc[x]
                         \/ pc'[x] = "done" /\ pc[x] \in {"leaving", "moved"}
    BY <2>1, ReturnMoves
  <2>3. /\ slot'[c] = {} /\ viewerOf'[c] = {} /\ \A v \in Conns : c \notin sender[v]
        /\ \A h \in Conns : h # c => slot'[h] = slot[h] /\ viewerOf'[h] = viewerOf[h]
    BY <1>0, <1>7, <2>1, HoldingOf DEF Return, Owned, TypeOK
  <2>4. waiting' = waiting /\ RoutesKept
    BY <2>1 DEF RoutesKept
  <2>5. \A d \in Conns : HasOffered(d)' <=> HasOffered(d)
    BY <2>1, <2>2 DEF HasOffered
  <2>6. \A h, v \in Conns : /\ InTransit(h, v)' <=> InTransit(h, v) /\ h # c
                            /\ Together(h, v)' <=> Together(h, v) /\ h # c
    BY <2>1, <2>2, <2>3 DEF InTransit, Together
  <2> QED
    BY <2>4, <2>5, <2>6, SettlingStep
<1> QED
  BY <1>0, <1>1, <1>2, <1>3, <1>4, <1>5, <1>6, <1>7 DEF ReceiveViewer, MatchHost, Goto, TypeOK

\* The one viewer that was in transit to c is joined, or told nothing more.
LEMMA MatchViewerJoins ==
  ASSUME HandoffInv, NEW c \in Conns, MatchViewer(c)
  PROVE  R!Join(c) \/ R!Settle(c)
<1>0. TypeOK
  BY DEF HandoffInv
<1>1. PICK v \in viewerOf[c] : pc'[c] \in {"tunnel", "leaving"}
  BY <1>0 DEF MatchViewer, Goto, TypeOK
<1>2. /\ v \in Conns /\ slot[c] = {} /\ \A u \in Conns : c \notin sender[u]
      /\ \A u \in viewerOf[c] : u = v
      /\ pc[c] = "matchViewer" /\ \A x \in Conns : x # c => pc'[x] = pc[x]
      /\ UNCHANGED <<route, regId, waiting, sender, slot, viewerOf>>
  BY <1>0, HoldingOf DEF MatchViewer, Goto, table, handoff, TypeOK, HandoffInv, MatchesExclusive
<1>3. \A d \in Conns : HasOffered(d)' <=> HasOffered(d)
  BY <1>1, <1>2 DEF HasOffered
<1>4. CASE pc'[c] = "leaving"
  <2>1. \A h, u \in Conns : /\ InTransit(h, u)' <=> InTransit(h, u) /\ h # c
                            /\ Together(h, u)' <=> Together(h, u) /\ h # c
    BY <1>2, <1>4 DEF InTransit, Together
  <2> QED
    BY <1>2, <1>3, <2>1, SettlingStep DEF RoutesKept
<1>5. CASE pc'[c] = "tunnel"
  <2>1. \A h, u \in Conns : /\ InTransit(h, u)' <=> InTransit(h, u) /\ ~(h = c /\ u = v)
                            /\ Together(h, u)' <=> Together(h, u) \/ (h = c /\ u = v)
    BY <1>2, <1>5 DEF InTransit, Together
  <2>2. InTransit(c, v)
    BY <1>2 DEF InTransit
  <2>3. \A h, u \in Conns : Pair(h, u)' = Pair(h, u)
    BY <1>2 DEF Pair
  <2>4. \A h, u \in Conns : Pair(h, u) = Pair(c, v) <=> h = c /\ u = v
    BY <1>2 DEF Pair
  <2>5. Pair(c, v) \in claimsBar /\ Pair(c, v).host = c
    BY <1>2, <2>2, BarsAre DEF Bars, Pair
  <2>6. claimsBar' = claimsBar \ {Pair(c, v)}
    BY <1>2, <2>1, <2>3, <2>4, BarsAre, BarsWillBe DEF Bars
  <2>7. joinedBar' = joinedBar \cup {Pair(c, v)}
    BY <1>2, <2>1, <2>3, <2>4, BarsAre, BarsWillBe DEF Bars
  <2>8. offersBar' = offersBar /\ spentBar' = spentBar
    BY <1>2, <1>3, BarsAre, BarsWillBe DEF Bars, offersBar
  <2> QED
    BY <2>5, <2>6, <2>7, <2>8 DEF R!Join
<1> QED
  BY <1>1, <1>4, <1>5

\* Only the host whose thread inserts it gets an entry.
LEMMA InsertOffers ==
  ASSUME HandoffInv, NEW c \in Conns, InsertRoute(c)
  PROVE  \E r \in Routes : R!MakeOffer(c, r)
<1>0. TypeOK /\ route[c] \in Routes
  BY DEF HandoffInv, RoutesNamed, InsertRoute
<1>1. /\ pc[c] = "insert" /\ \A w \in waiting : w.route # route[c] /\ w.host # c
      /\ pc'[c] = "announce" /\ \A x \in Conns : x # c => pc'[x] = pc[x]
      /\ UNCHANGED <<route, regId, sender, slot, viewerOf>>
  BY <1>0 DEF InsertRoute, IsRegistered, Goto, handoff, TypeOK, HandoffInv, EntriesOwned,
     OfferedPCs, GivingUpPCs
<1> DEFINE entry == [route |-> route[c], id |-> regId[c], host |-> c]
<1>2. /\ \A w : w \in waiting' <=> w \in waiting \/ w = entry
      /\ entry.host = c /\ Offered(entry) = [host |-> c, route |-> route[c]]
  BY <1>1 DEF InsertRoute, Inserted, Offered
<1> HIDE DEF entry
<1>3. offersBar' = offersBar \cup {[host |-> c, route |-> route[c]]}
  BY <1>2, BarsAre, BarsWillBe DEF Bars
<1>4. spentBar' = spentBar
  <2>1. \A d \in Conns : HasOffered(d)' <=> HasOffered(d)
    BY <1>1, <1>2 DEF HasOffered
  <2> QED
    BY <2>1, BarsAre, BarsWillBe DEF Bars
<1>5. claimsBar' = claimsBar /\ joinedBar' = joinedBar
  <2>1. \A h, v \in Conns : /\ InTransit(h, v)' <=> InTransit(h, v)
                            /\ Together(h, v)' <=> Together(h, v)
                            /\ Pair(h, v)' = Pair(h, v)
    BY <1>1 DEF InTransit, Together, Pair
  <2> QED
    BY <2>1, ClaimsStay, JoinedStay
<1>6. c \notin spentBar /\ \A o \in offersBar : o.host # c /\ o.route # route[c]
  BY <1>1, BarsAre DEF Bars, HasOffered, Offered
<1> QED
  BY <1>0, <1>3, <1>4, <1>5, <1>6 DEF R!MakeOffer

\* A host that finds its route taken had no offer, and will have none.
LEMMA BusyWithdraws ==
  ASSUME HandoffInv, NEW c \in Conns, RefuseBusy(c)
  PROVE  R!Withdraw(c)
<1>0. TypeOK /\ regId[c] # 0
  BY DEF HandoffInv, IdsUnique, RefuseBusy
<1>1. /\ pc[c] = "insert" /\ \A w \in waiting : w.host # c
      /\ slot[c] = {} /\ viewerOf[c] = {}
      /\ \A h \in Conns : c \notin slot[h] /\ c \notin viewerOf[h]
  BY <1>0 DEF RefuseBusy, TypeOK, HandoffInv, EntriesOwned, SlotsExclusive, MatchesExclusive,
     OfferedPCs, GivingUpPCs, MatchedPCs
<1>2. /\ pc'[c] = "done" /\ \A x \in Conns : x # c => pc'[x] = pc[x]
      /\ UNCHANGED <<route, regId, waiting, sender, slot, viewerOf>>
  BY <1>0, <1>1 DEF RefuseBusy, Return, Owned, table, TypeOK
<1>3. offersBar' = {o \in offersBar : o.host # c}
  BY <1>1, <1>2 DEF offersBar
<1>4. c \notin spentBar /\ spentBar' = spentBar \cup {c}
  <2>1. \A d \in Conns : HasOffered(d)' <=> HasOffered(d) \/ d = c
    BY <1>0, <1>1, <1>2 DEF HasOffered
  <2> QED
    BY <1>1, <2>1, BarsAre, BarsWillBe DEF Bars, HasOffered
<1>5. claimsBar' = claimsBar /\ joinedBar' = joinedBar
  <2>1. \A h, v \in Conns : /\ InTransit(h, v)' <=> InTransit(h, v)
                            /\ Together(h, v)' <=> Together(h, v)
                            /\ Pair(h, v)' = Pair(h, v)
    BY <1>1, <1>2 DEF InTransit, Together, Pair
  <2> QED
    BY <2>1, ClaimsStay, JoinedStay
<1> QED
  BY <1>3, <1>4, <1>5 DEF R!Withdraw

\* A host that gives up takes its own entry with it, if a claim has not.
LEMMA RemovalWithdraws ==
  ASSUME HandoffInv, NEW c \in Conns, RemoveRegistration(c)
  PROVE  UNCHANGED <<offersBar, spentBar, claimsBar, joinedBar>> \/ R!Withdraw(c)
<1>0. TypeOK /\ regId[c] # 0
  BY DEF HandoffInv, IdsUnique, RemoveRegistration, OfferedPCs, GivingUpPCs
<1>1. /\ pc[c] \in GivingUpPCs /\ pc'[c] = "leaving" /\ \A x \in Conns : x # c => pc'[x] = pc[x]
      /\ UNCHANGED <<route, regId, sender, slot, viewerOf>>
  BY <1>0 DEF RemoveRegistration, GivingUpPCs, Goto, handoff, TypeOK
<1>2. waiting' = {w \in waiting : w.host # c}
  <2>1. \A w \in waiting : w.route = route[c] /\ w.id = regId[c] <=> w.host = c
    BY <1>0 DEF TypeOK, Registration, HandoffInv, EntriesOwned, IdsUnique
  <2> QED
    BY <2>1 DEF RemoveRegistration, RemovedBy
<1>3. \A h, v \in Conns : /\ InTransit(h, v)' <=> InTransit(h, v)
                          /\ Together(h, v)' <=> Together(h, v)
                          /\ Pair(h, v)' = Pair(h, v)
  BY <1>1 DEF InTransit, Together, Pair, GivingUpPCs
<1>4. claimsBar' = claimsBar /\ joinedBar' = joinedBar
  BY <1>3, ClaimsStay, JoinedStay
<1>5. offersBar' = {o \in offersBar : o.host # c}
  BY <1>2 DEF offersBar
<1>6. spentBar' = spentBar \cup {c}
  <2>1. \A d \in Conns : HasOffered(d)' <=> HasOffered(d) \/ d = c
    BY <1>0, <1>1, <1>2 DEF HasOffered, GivingUpPCs
  <2> QED
    BY <2>1, BarsAre, BarsWillBe DEF Bars
<1>7. CASE c \notin spentBar
  BY <1>4, <1>5, <1>6, <1>7 DEF R!Withdraw
<1>8. CASE c \in spentBar
  <2>1. \A w \in waiting : w.host # c
    BY <1>8, BarsAre DEF Bars, HasOffered
  <2> QED
    BY <1>2, <1>4, <1>6, <1>8, <2>1 DEF offersBar
<1> QED
  BY <1>7, <1>8

\* The claimant takes the one entry of its route out of the table.
LEMMA ClaimClaims ==
  ASSUME HandoffInv, NEW c \in Conns, ClaimRoute(c)
  PROVE  R!ClaimOffer(c)
<1>0. TypeOK
  BY DEF HandoffInv
<1>1. PICK w \in waiting : /\ w.route = route[c]
                           /\ sender' = [sender EXCEPT ![c] = {w.host}]
                           /\ waiting' = waiting \ {w}
  BY DEF ClaimRoute
<1>2. /\ w.host \in Conns /\ pc[w.host] \in OfferedPCs /\ regId[w.host] # 0
      /\ \A x \in waiting : x.host = w.host => x = w
  BY <1>0 DEF TypeOK, Registration, HandoffInv, EntriesOwned, IdsUnique
<1>3. /\ pc[c] = "claim" /\ pc'[c] = "send" /\ \A x \in Conns : x # c => pc'[x] = pc[x]
      /\ UNCHANGED <<route, regId, slot, viewerOf>>
      /\ \A x \in Conns : x # c => sender'[x] = sender[x]
      /\ sender'[c] = {w.host}
  BY <1>0, <1>1 DEF ClaimRoute, Goto, TypeOK
<1>4. \A h \in Conns : h \notin sender[c]
  BY <1>3 DEF HandoffInv, SendersExclusive
<1>5. \A h, v \in Conns : /\ InTransit(h, v)' <=> InTransit(h, v) \/ (h = w.host /\ v = c)
                          /\ Together(h, v)' <=> Together(h, v)
                          /\ Pair(h, v)' = Pair(h, v)
  BY <1>2, <1>3, <1>4 DEF InTransit, Together, Pair
<1>6. joinedBar' = joinedBar
  BY <1>5, JoinedStay
<1>7. claimsBar' = claimsBar \cup {Pair(w.host, c)}
  BY <1>2, <1>5, BarsAre, BarsWillBe DEF Bars
<1>8. spentBar' = spentBar \cup {w.host}
  <2>1. \A d \in Conns : HasOffered(d)' <=> HasOffered(d) \/ d = w.host
    BY <1>1, <1>2, <1>3 DEF HasOffered, OfferedPCs, GivingUpPCs
  <2> QED
    BY <1>2, <2>1, BarsAre, BarsWillBe DEF Bars
<1>9. Offered(w) \in offersBar /\ offersBar' = offersBar \ {Offered(w)}
  <2>1. \A x \in waiting : Offered(x) = Offered(w) <=> x = w
    BY <1>2 DEF Offered
  <2> QED
    BY <1>1, <2>1, BarsAre, BarsWillBe DEF Bars
<1> QED
  <2>1. /\ Offered(w).host = w.host
        /\ Pair(w.host, c) = [host |-> Offered(w).host, viewer |-> c, route |-> Offered(w).route]
    BY <1>1 DEF Offered, Pair
  <2> QED
    BY <1>6, <1>7, <1>8, <1>9, <2>1 DEF R!ClaimOffer

\* The viewer goes on to its host, or comes back from one that has gone.
LEMMA SendStep ==
  ASSUME HandoffInv, NEW c \in Conns, SendViewer(c)
  PROVE  \/ UNCHANGED <<offersBar, spentBar, claimsBar, joinedBar>>
         \/ \E h \in Conns : R!Settle(h)
<1>0. TypeOK
  BY DEF HandoffInv
<1>1. PICK h \in sender[c] :
        \/ slot' = [slot EXCEPT ![h] = {c}]
        \/ ~ReceiverAlive(h) /\ UNCHANGED slot
  BY DEF SendViewer
<1>2. /\ h \in Conns /\ slot[h] = {} /\ viewerOf[h] = {} /\ sender[c] = {h}
      /\ \A u \in Conns : h \in sender[u] => u = c
      /\ pc[h] # "tunnel"
  <2>1. h \in Conns /\ \A g \in sender[c] : g \in Conns
    BY <1>0, <1>1 DEF TypeOK
  <2>2. /\ pc[h] \in OfferedPCs \cup {"leaving", "done"}
        /\ slot[h] = {} /\ viewerOf[h] = {}
        /\ \A u \in Conns : h \in sender[u] => u = c
        /\ \A g \in sender[c] : g = h
    BY <1>1, <2>1 DEF HandoffInv, SendersExclusive
  <2>3. sender[c] = {h}
    BY <1>1, <2>2
  <2> QED
    BY <2>1, <2>2, <2>3 DEF OfferedPCs, GivingUpPCs
<1>3. /\ pc[c] = "send" /\ pc'[c] \in {"moved", "refuse"} /\ sender'[c] = {}
      /\ \A x \in Conns : x # c => pc'[x] = pc[x] /\ sender'[x] = sender[x]
      /\ UNCHANGED <<route, regId, waiting, viewerOf>>
  BY <1>0 DEF SendViewer, Goto, table, TypeOK
<1>4. \A d \in Conns : HasOffered(d)' <=> HasOffered(d)
  BY <1>3 DEF HasOffered
<1>5. CASE slot' = [slot EXCEPT ![h] = {c}]
  <2>1. slot'[h] = {c} /\ \A x \in Conns : x # h => slot'[x] = slot[x]
    BY <1>0, <1>2, <1>5 DEF TypeOK
  <2>2. \A g, v \in Conns : /\ InTransit(g, v)' <=> InTransit(g, v)
                            /\ Together(g, v)' <=> Together(g, v)
    BY <1>2, <1>3, <2>1 DEF InTransit, Together
  <2> QED
    BY <1>3, <1>4, <2>2, UnseenStep DEF RoutesKept
<1>6. CASE UNCHANGED slot
  <2>1. \A g, v \in Conns : /\ InTransit(g, v)' <=> InTransit(g, v) /\ g # h
                            /\ Together(g, v)' <=> Together(g, v) /\ g # h
    BY <1>2, <1>3, <1>6 DEF InTransit, Together
  <2>2. R!Settle(h)
    BY <1>2, <1>3, <1>4, <2>1, SettlingStep DEF RoutesKept
  <2> QED
    BY <1>2, <2>2
<1> QED
  BY <1>1, <1>5, <1>6

-----------------------------------------------------------------------------
\* The relay implements the rendezvous: every step of a thread is a step of it,
\* or one that it does not see.
THEOREM RelayImplementsRendezvous == Spec => Rendezvous
<1>1. Init => R!RInit /\ Unnumbered
  <2>1. ASSUME Init PROVE Unnumbered /\ \A c \in Conns : ~HasOffered(c)
    BY <2>1 DEF Init, Unnumbered, HasOffered
  <2>2. ASSUME Init PROVE \A h, v \in Conns : ~InTransit(h, v) /\ ~Together(h, v)
    BY <2>2 DEF Init, InTransit, Together
  <2>3. ASSUME Init
        PROVE  offersBar = {} /\ spentBar = {} /\ claimsBar = {} /\ joinedBar = {}
    BY <2>1, <2>2, <2>3, BarsAre DEF Bars, Init, offersBar
  <2> QED
    BY <2>1, <2>3 DEF R!RInit
<1>2. HandoffInv /\ Unnumbered /\ [Next]_vars => [R!RNext]_(R!rvars)
  <2> SUFFICES ASSUME HandoffInv, Unnumbered, [Next]_vars PROVE [R!RNext]_(R!rvars)
    OBVIOUS
  <2>1. CASE UNCHANGED vars
    <3>1. UNCHANGED <<offersBar, spentBar, claimsBar, joinedBar>>
      BY <2>1 DEF vars, offersBar, spentBar, claimsBar, joinedBar, InTransit, Pair
    <3> QED
      BY <3>1 DEF R!rvars
  <2>2. ASSUME NEW c \in Conns,
               \/ ReadRequest(c) \/ ReadNoRequest(c) \/ HostStep(c) \/ ViewerStep(c)
               \/ Acceptor(c) \/ Expire(c) \/ PollFails(c) \/ EndTunnel(c) \/ Environment(c)
        PROVE  UNCHANGED <<offersBar, spentBar, claimsBar, joinedBar>> \/ R!RNext
    BY <2>2, UnseenSteps, HostSteps, MatchViewerJoins, InsertOffers, BusyWithdraws,
       RemovalWithdraws, ClaimClaims, SendStep, PollFailing
       DEF HostStep, ViewerStep, Environment, R!RNext
  <2> QED
    BY <2>1, <2>2 DEF Next, R!rvars
<1>3. HandoffInv /\ Unnumbered /\ [Next]_vars => Unnumbered'
  BY UnnumberedStep DEF HandoffInv
<1> QED
  BY <1>1, <1>2, <1>3, HandoffCorrect, PTL DEF Spec, Rendezvous, R!RSpec

=============================================================================
