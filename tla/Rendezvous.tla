----------------------------- MODULE Rendezvous -----------------------------
(***************************************************************************)
(* What the relay promises its clients, with no threads, locks, channels   *)
(* or timers: a host offers itself on a route once; at any time a route    *)
(* has at most one offer; an offer is withdrawn or claimed by one viewer   *)
(* that asked for the route; and a claim is joined or dropped.             *)
(***************************************************************************)
CONSTANTS Peers, Routes

VARIABLES offers,    \* offers that can be claimed
          spent,     \* hosts that have had their one offer
          claims,    \* claims not settled yet
          joined     \* pairs whose streams are connected

rvars == <<offers, spent, claims, joined>>

Offer == [host : Peers, route : Routes]
Claim == [host : Peers, viewer : Peers, route : Routes]

RInit ==
  /\ offers = {}
  /\ spent = {}
  /\ claims = {}
  /\ joined = {}

MakeOffer(h, r) ==
  /\ h \notin spent
  /\ \A o \in offers : o.host # h /\ o.route # r
  /\ offers' = offers \cup {[host |-> h, route |-> r]}
  /\ UNCHANGED <<spent, claims, joined>>

\* The host gives up, before or after its offer was published.
Withdraw(h) ==
  /\ h \notin spent
  /\ offers' = {o \in offers : o.host # h}
  /\ spent' = spent \cup {h}
  /\ UNCHANGED <<claims, joined>>

ClaimOffer(v) ==
  /\ \E o \in offers :
        /\ offers' = offers \ {o}
        /\ spent' = spent \cup {o.host}
        /\ claims' = claims \cup {[host |-> o.host, viewer |-> v, route |-> o.route]}
  /\ UNCHANGED joined

Join(h) ==
  /\ \E c \in claims :
        /\ c.host = h
        /\ claims' = claims \ {c}
        /\ joined' = joined \cup {c}
  /\ UNCHANGED <<offers, spent>>

Settle(h) ==
  /\ claims' = {c \in claims : c.host # h}
  /\ joined' = {c \in joined : c.host # h}
  /\ UNCHANGED <<offers, spent>>

RNext == \E p \in Peers :
           \/ \E r \in Routes : MakeOffer(p, r)
           \/ Withdraw(p) \/ ClaimOffer(p) \/ Join(p) \/ Settle(p)

RSpec == RInit /\ [][RNext]_rvars

=============================================================================
