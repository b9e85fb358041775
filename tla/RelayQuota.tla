---------------------------- MODULE RelayQuota -----------------------------
(***************************************************************************)
(* ConnectionPermit of services/rustview-relay/src/main.rs: an atomic      *)
(* total and a mutex-protected table of connections per source address.    *)
(* The one acceptor thread takes permits; every connection's own thread    *)
(* drops its permit at a time of its choosing.  The two counters are       *)
(* updated one after the other, so every step between them is visible.     *)
(***************************************************************************)
EXTENDS Naturals, FiniteSets

CONSTANTS Sockets,           \* sockets that connect, again and again
          Addresses,         \* source addresses
          AddressOf,         \* the address of a socket
          MaxConnections,    \* MAX_CONNECTIONS
          MaxPerIp           \* MAX_CONNECTIONS_PER_IP

ASSUME SocketsFinite == IsFiniteSet(Sockets)
ASSUME AddressOfType == AddressOf \in [Sockets -> Addresses]
ASSUME LimitsAreNat == MaxConnections \in Nat /\ MaxPerIp \in Nat

VARIABLES
  total,       \* the atomic counter
  perIp,       \* the table; an absent entry is 0
  permit,      \* per socket: none, being taken, held, or half dropped
  acceptor     \* where try_acquire is

vars == <<total, perIp, permit, acceptor>>

PermitStates == {"none", "counted", "refused", "held", "dropping"}

Init ==
  /\ total = 0
  /\ perIp = [a \in Addresses |-> 0]
  /\ permit = [s \in Sockets |-> "none"]
  /\ acceptor = "idle"

\* Mutant: the limit itself is let through.
MCount(s) ==
  /\ acceptor = "idle"
  /\ permit[s] = "none"
  /\ total' = total + 1
  /\ acceptor' = "busy"
  /\ permit' = [permit EXCEPT ![s] =
                  IF total > MaxConnections THEN "refused" ELSE "counted"]
  /\ UNCHANGED perIp

\* fetch_add: the previous value decides.
Count(s) ==
  /\ acceptor = "idle"
  /\ permit[s] = "none"
  /\ total' = total + 1
  /\ acceptor' = "busy"
  /\ permit' = [permit EXCEPT ![s] =
                  IF total >= MaxConnections THEN "refused" ELSE "counted"]
  /\ UNCHANGED perIp

\* Over the total: the count is taken back and the socket is turned away.
TurnAway(s) ==
  /\ permit[s] = "refused"
  /\ total' = total - 1
  /\ acceptor' = "idle"
  /\ permit' = [permit EXCEPT ![s] = "none"]
  /\ UNCHANGED perIp

AtIpLimit(a) == perIp[a] >= MaxPerIp

\* Mutant: the refused connection stays in the total.
MRefuseKeepsTotal(s) ==
  /\ permit[s] = "counted"
  /\ AtIpLimit(AddressOf[s])
  /\ permit' = [permit EXCEPT ![s] = "none"]
  /\ acceptor' = "idle"
  /\ UNCHANGED <<total, perIp>>

\* Over the address's limit: the total is taken back under the table's lock.
RefuseAddress(s) ==
  /\ permit[s] = "counted"
  /\ AtIpLimit(AddressOf[s])
  /\ total' = total - 1
  /\ permit' = [permit EXCEPT ![s] = "none"]
  /\ acceptor' = "idle"
  /\ UNCHANGED perIp

Grant(s) ==
  /\ permit[s] = "counted"
  /\ ~AtIpLimit(AddressOf[s])
  /\ perIp' = [perIp EXCEPT ![AddressOf[s]] = @ + 1]
  /\ permit' = [permit EXCEPT ![s] = "held"]
  /\ acceptor' = "idle"
  /\ UNCHANGED total

\* Drop, first half: the atomic total.
DropTotal(s) ==
  /\ permit[s] = "held"
  /\ total' = total - 1
  /\ permit' = [permit EXCEPT ![s] = "dropping"]
  /\ UNCHANGED <<perIp, acceptor>>

\* Mutant: the whole entry goes when one connection of the address ends.
MReleased(a) == 0
\* saturating_sub; the entry is removed at 0.
Released(a) == IF perIp[a] = 0 THEN 0 ELSE perIp[a] - 1

\* Drop, second half: the table under its lock.
DropAddress(s) ==
  /\ permit[s] = "dropping"
  /\ perIp' = [perIp EXCEPT ![AddressOf[s]] = Released(AddressOf[s])]
  /\ permit' = [permit EXCEPT ![s] = "none"]
  /\ UNCHANGED <<total, acceptor>>

Next == \E s \in Sockets :
          \/ Count(s) \/ TurnAway(s) \/ RefuseAddress(s) \/ Grant(s)
          \/ DropTotal(s) \/ DropAddress(s)

Spec == Init /\ [][Next]_vars

-----------------------------------------------------------------------------
(* Properties *)

InState(states) == {s \in Sockets : permit[s] \in states}
FromAddress(a) == {s \in Sockets : AddressOf[s] = a}

TypeOK ==
  /\ total \in Nat
  /\ perIp \in [Addresses -> Nat]
  /\ permit \in [Sockets -> PermitStates]
  /\ acceptor \in {"idle", "busy"}

\* The counters are exact whatever the order in which concurrent drops update
\* them: no path loses a count or takes one back twice, so a relay that has
\* drained admits as many connections as a fresh one, and no counter is
\* decremented at zero (the debug assertions of Drop).  So the quotas of
\* docs/SECURITY.md:184 hold: the connections that hold a permit never exceed
\* the total, nor those of one address the limit per address.
CountersExact ==
  /\ total = Cardinality(InState({"counted", "refused", "held"}))
  /\ Cardinality(InState({"held"})) <= MaxConnections
  /\ \A a \in Addresses :
        /\ perIp[a] = Cardinality(InState({"held", "dropping"}) \cap FromAddress(a))
        /\ Cardinality(InState({"held"}) \cap FromAddress(a)) <= MaxPerIp

\* A socket is turned away for the total only when the relay really is full, and
\* for its address only when as many connections of it hold their permit, or
\* are still dropping it, as the limit per address allows.
RefusedOnlyWhenFull ==
  [][\A s \in Sockets :
       /\ permit[s] # "refused" /\ permit'[s] = "refused"
            => Cardinality(InState({"held"})) = MaxConnections
       /\ permit[s] = "counted" /\ permit'[s] = "none"
            => Cardinality(InState({"held", "dropping"}) \cap FromAddress(AddressOf[s]))
                 >= MaxPerIp]_vars

=============================================================================
