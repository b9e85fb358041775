---------------------------- MODULE QuotaProofs ----------------------------
(***************************************************************************)
(* Proofs about RelayQuota, and about the tunnel that holds two of its     *)
(* permits, for any sockets, addresses and limits.                         *)
(*                                                                         *)
(* CountersExact is not inductive: that a socket over the limit is turned  *)
(* away follows from its number only because the one acceptor decides on   *)
(* one socket at a time, and from the connections it has counted but not   *)
(* yet granted.  OneAtATime and Reserved say so.                           *)
(***************************************************************************)
EXTENDS RelayTunnel, FiniteSetTheorems, TLAPS

Deciding == InState({"counted", "refused"})

\* The acceptor decides on one socket, and on none while it waits.
OneAtATime ==
  /\ acceptor = "idle" => Deciding = {}
  /\ \A s, t \in Deciding : s = t

\* A socket that was counted within the limit has its place.
Reserved == Cardinality(InState({"counted", "held"})) <= MaxConnections

QuotaInv == TypeOK /\ CountersExact /\ OneAtATime /\ Reserved

-----------------------------------------------------------------------------
(* Counting *)

\* The sockets of A that p has in one of the states S.
Num(p, S, A) == Cardinality({t \in A : p[t] \in S})

\* The sockets are finitely many, so each count is a number.
LEMMA NumIsNat ==
  ASSUME NEW p, NEW S, NEW A \in SUBSET Sockets
  PROVE  IsFiniteSet({t \in A : p[t] \in S}) /\ Num(p, S, A) \in Nat
<1>1. {t \in A : p[t] \in S} \in SUBSET Sockets
  OBVIOUS
<1> QED
  BY <1>1, SocketsFinite, FS_Subset, FS_CardinalityType DEF Num

\* The socket s went to the state x.
Moved(p, q, s, x) ==
  p \in [Sockets -> PermitStates] /\ s \in Sockets /\ q = [p EXCEPT ![s] = x]

\* When one socket changes its state, a number changes by that socket alone.
LEMMA Moves ==
  ASSUME NEW p, NEW q, NEW s, NEW x, Moved(p, q, s, x),
         NEW S, NEW A \in SUBSET Sockets
  PROVE  Num(q, S, A)
           = Num(p, S, A) + (IF s \in A /\ x \in S THEN 1 ELSE 0)
                          - (IF s \in A /\ p[s] \in S THEN 1 ELSE 0)
<1> DEFINE before == {t \in A : p[t] \in S}
           after  == {t \in A : q[t] \in S}
<1>1. IsFiniteSet(before) /\ Cardinality(before) \in Nat
  BY NumIsNat DEF Num
<1> /\ p \in [Sockets -> PermitStates] /\ s \in Sockets
    /\ q = [p EXCEPT ![s] = x]
  BY DEF Moved
<1>0. Num(p, S, A) = Cardinality(before) /\ Num(q, S, A) = Cardinality(after)
  BY DEF Num
<1>2. CASE s \notin A \/ (x \in S <=> p[s] \in S)
  <2>1. after = before
    BY <1>2
  <2> HIDE DEF before, after
  <2>2. Num(q, S, A) = Num(p, S, A)
    BY <1>0, <2>1
  <2> QED
    BY <1>0, <1>1, <1>2, <2>2
<1>3. CASE s \in A /\ x \in S /\ p[s] \notin S
  <2>1. after = before \cup {s} /\ s \notin before
    BY <1>3
  <2> HIDE DEF before, after
  <2>2. Cardinality(before \cup {s}) = Cardinality(before) + 1
    BY <1>1, <2>1, FS_AddElement
  <2>3. Num(q, S, A) = Num(p, S, A) + 1
    BY <1>0, <2>1, <2>2
  <2> QED
    BY <1>0, <1>1, <1>3, <2>3
<1>4. CASE s \in A /\ x \notin S /\ p[s] \in S
  <2>1. after = before \ {s} /\ s \in before
    BY <1>4
  <2> HIDE DEF before, after
  <2>2. Cardinality(before \ {s}) = Cardinality(before) - 1
    BY <1>1, <2>1, FS_RemoveElement
  <2>3. Num(q, S, A) = Num(p, S, A) - 1
    BY <1>0, <2>1, <2>2
  <2> QED
    BY <1>0, <1>1, <1>4, <2>3
<1> QED
  BY <1>2, <1>3, <1>4

\* The number of a part is at most that of the whole.
LEMMA NumOfPart ==
  ASSUME NEW p, NEW S, NEW T, S \subseteq T, NEW A \in SUBSET Sockets
  PROVE  Num(p, S, A) <= Num(p, T, A)
<1> DEFINE part == {t \in A : p[t] \in S}
           whole == {t \in A : p[t] \in T}
<1>1. part \in SUBSET whole /\ IsFiniteSet(whole)
  BY NumIsNat
<1>2. Num(p, S, A) = Cardinality(part) /\ Num(p, T, A) = Cardinality(whole)
  BY DEF Num
<1> HIDE DEF part, whole
<1>3. Cardinality(part) <= Cardinality(whole)
  BY <1>1, FS_Subset
<1> QED
  BY <1>2, <1>3

\* CountersExact and Reserved in these numbers.
Numbers ==
  /\ total = Num(permit, {"counted", "refused", "held"}, Sockets)
  /\ Num(permit, {"held"}, Sockets) <= MaxConnections
  /\ Num(permit, {"counted", "held"}, Sockets) <= MaxConnections
  /\ \A a \in Addresses : /\ perIp[a] = Num(permit, {"held", "dropping"}, FromAddress(a))
                          /\ Num(permit, {"held"}, FromAddress(a)) <= MaxPerIp

\* The counters, told by counting states.
LEMMA NumbersAre == Numbers <=> CountersExact /\ Reserved
<1>1. \A S : InState(S) = {t \in Sockets : permit[t] \in S}
  BY DEF InState
<1>2. \A S, a : InState(S) \cap FromAddress(a) = {t \in FromAddress(a) : permit[t] \in S}
  BY DEF InState, FromAddress
<1> QED
  BY <1>1, <1>2 DEF Numbers, CountersExact, Reserved, Num

\* The same after a step.
LEMMA NumbersWillBe == Numbers' <=> (CountersExact /\ Reserved)'
<1>1. \A S : InState(S)' = {t \in Sockets : permit'[t] \in S}
  BY DEF InState
<1>2. \A S, a : (InState(S) \cap FromAddress(a))' = {t \in FromAddress(a) : permit'[t] \in S}
  BY DEF InState, FromAddress
<1> QED
  BY <1>1, <1>2 DEF Numbers, CountersExact, Reserved, Num, FromAddress

-----------------------------------------------------------------------------
(* The inductive invariant *)

\* What a step of the socket s has to show for Numbers.
LEMMA NumbersMove ==
  ASSUME TypeOK, Numbers, NEW s \in Sockets, NEW x, NEW n,
         permit' = [permit EXCEPT ![s] = x],
         perIp' = [perIp EXCEPT ![AddressOf[s]] = n],
         total' = Num(permit', {"counted", "refused", "held"}, Sockets),
         Num(permit', {"held"}, Sockets) <= MaxConnections,
         Num(permit', {"counted", "held"}, Sockets) <= MaxConnections,
         n = Num(permit', {"held", "dropping"}, FromAddress(AddressOf[s])),
         Num(permit', {"held"}, FromAddress(AddressOf[s])) <= MaxPerIp
  PROVE  Numbers'
<1>1. ASSUME NEW a \in Addresses, a # AddressOf[s], NEW S
      PROVE  Num(permit', S, FromAddress(a)) = Num(permit, S, FromAddress(a))
  <2>1. FromAddress(a) \in SUBSET Sockets /\ s \notin FromAddress(a)
    BY <1>1 DEF FromAddress
  <2>2. permit' \in [Sockets -> PermitStates \cup {x}]
        /\ \A t \in Sockets \ {s} : permit'[t] = permit[t]
    BY DEF TypeOK
  <2>3. {t \in FromAddress(a) : permit'[t] \in S} = {t \in FromAddress(a) : permit[t] \in S}
    BY <2>1, <2>2
  <2> QED
    BY <2>3 DEF Num, FromAddress
<1>2. AddressOf[s] \in Addresses /\ perIp \in [Addresses -> Nat]
  BY AddressOfType DEF TypeOK
<1>3. ASSUME NEW a \in Addresses
      PROVE  /\ perIp'[a] = Num(permit', {"held", "dropping"}, FromAddress(a))
             /\ Num(permit', {"held"}, FromAddress(a)) <= MaxPerIp
  <2>1. CASE a = AddressOf[s]
    BY <1>2, <2>1
  <2>2. CASE a # AddressOf[s]
    BY <1>1, <1>2, <2>2 DEF Numbers
  <2> QED
    BY <2>1, <2>2
<1> QED
  BY <1>3 DEF Numbers

\* Every step of a socket s, whose address is that of the sockets A.
LEMMA SocketStep ==
  ASSUME TypeOK, Numbers, NEW s \in Sockets, NEW A \in SUBSET Sockets,
         A = FromAddress(AddressOf[s]),
         Count(s) \/ TurnAway(s) \/ RefuseAddress(s) \/ Grant(s)
           \/ DropTotal(s) \/ DropAddress(s)
  PROVE  Numbers'
<1> DEFINE live == {"counted", "refused", "held"}
           paid == {"counted", "held"}
           held == {"held"}
           entered == {"held", "dropping"}
<1>1. total \in Nat /\ perIp \in [Addresses -> Nat] /\ permit \in [Sockets -> PermitStates]
  BY DEF TypeOK
<1>2. AddressOf[s] \in Addresses /\ s \in A /\ Sockets \in SUBSET Sockets
  BY AddressOfType DEF FromAddress
<1>3. perIp[AddressOf[s]] = Num(permit, entered, A) /\ Num(permit, held, A) <= MaxPerIp
  BY <1>2 DEF Numbers
<1>4. /\ total = Num(permit, live, Sockets)
      /\ Num(permit, held, Sockets) <= MaxConnections
      /\ Num(permit, paid, Sockets) <= MaxConnections
  BY DEF Numbers
<1>5. /\ Num(permit, live, Sockets) \in Nat /\ Num(permit, paid, Sockets) \in Nat
      /\ Num(permit, held, Sockets) \in Nat /\ Num(permit, held, A) \in Nat
      /\ Num(permit, entered, A) \in Nat
  BY <1>2, NumIsNat
<1>6. /\ Num(permit, paid, Sockets) <= Num(permit, live, Sockets)
      /\ Num(permit', held, Sockets) <= Num(permit', paid, Sockets)
      /\ Num(permit, held, A) <= Num(permit, entered, A)
  <2>1. paid \subseteq live /\ held \subseteq paid /\ held \subseteq entered
    OBVIOUS
  <2> HIDE DEF paid, live, held, entered
  <2> QED
    BY <1>2, <2>1, NumOfPart
<1>7. Num(permit', entered, A) \in Nat
  BY NumIsNat
\* The numbers of a step to the state x, and what it has to show.
<1>8. ASSUME NEW x \in PermitStates, permit' = [permit EXCEPT ![s] = x]
      PROVE  /\ Num(permit', live, Sockets)
                  = Num(permit, live, Sockets) + (IF x \in live THEN 1 ELSE 0)
                                               - (IF permit[s] \in live THEN 1 ELSE 0)
             /\ Num(permit', paid, Sockets)
                  = Num(permit, paid, Sockets) + (IF x \in paid THEN 1 ELSE 0)
                                               - (IF permit[s] \in paid THEN 1 ELSE 0)
             /\ Num(permit', entered, A)
                  = Num(permit, entered, A) + (IF x \in entered THEN 1 ELSE 0)
                                            - (IF permit[s] \in entered THEN 1 ELSE 0)
             /\ Num(permit', held, A)
                  = Num(permit, held, A) + (IF x \in held THEN 1 ELSE 0)
                                         - (IF permit[s] \in held THEN 1 ELSE 0)
  <2> HIDE DEF live, paid, held, entered
  <2>1. ASSUME NEW S, NEW B \in SUBSET Sockets, s \in B
        PROVE  Num(permit', S, B) = Num(permit, S, B) + (IF x \in S THEN 1 ELSE 0)
                                                      - (IF permit[s] \in S THEN 1 ELSE 0)
    <3>1. Moved(permit, permit', s, x)
      BY <1>1, <1>8 DEF Moved
    <3>2. Num(permit', S, B)
            = Num(permit, S, B) + (IF s \in B /\ x \in S THEN 1 ELSE 0)
                                - (IF s \in B /\ permit[s] \in S THEN 1 ELSE 0)
      BY <3>1, Moves
    <3> QED
      BY <2>1, <3>2
  <2> QED
    BY <1>2, <1>8, <2>1
<1>9. ASSUME NEW x \in PermitStates, permit' = [permit EXCEPT ![s] = x],
             perIp' = [perIp EXCEPT ![AddressOf[s]] = Num(permit', entered, A)],
             total' = Num(permit', live, Sockets),
             Num(permit', paid, Sockets) <= MaxConnections,
             Num(permit', held, A) <= MaxPerIp
      PROVE  Numbers'
  <2>1. Num(permit', held, Sockets) <= MaxConnections
    <3>1. Num(permit', held, Sockets) \in Nat /\ Num(permit', paid, Sockets) \in Nat
      BY <1>2, NumIsNat
    <3> HIDE DEF held, paid
    <3> QED
      BY <1>6, <1>9, <3>1, LimitsAreNat
  <2> QED
    BY <1>9, <2>1, NumbersMove
<1>10. CASE Count(s)
  <2>1. acceptor = "idle" /\ permit[s] = "none" /\ total' = total + 1 /\ perIp' = perIp
    BY <1>10 DEF Count
  <2>2. CASE total >= MaxConnections
    <3>1. permit' = [permit EXCEPT ![s] = "refused"]
      BY <1>10, <2>2 DEF Count
    <3>2. /\ Num(permit', live, Sockets) = Num(permit, live, Sockets) + 1
          /\ Num(permit', paid, Sockets) = Num(permit, paid, Sockets)
          /\ Num(permit', entered, A) = Num(permit, entered, A)
          /\ Num(permit', held, A) = Num(permit, held, A)
      BY <1>2, <1>5, <1>8, <2>1, <3>1 DEF PermitStates
    <3> QED
      BY <1>1, <1>2, <1>3, <1>4, <1>9, <2>1, <3>1, <3>2 DEF PermitStates
  <2>3. CASE ~(total >= MaxConnections)
    <3>1. permit' = [permit EXCEPT ![s] = "counted"]
      BY <1>10, <2>3 DEF Count
    <3>2. /\ Num(permit', live, Sockets) = Num(permit, live, Sockets) + 1
          /\ Num(permit', paid, Sockets) = Num(permit, paid, Sockets) + 1
          /\ Num(permit', entered, A) = Num(permit, entered, A)
          /\ Num(permit', held, A) = Num(permit, held, A)
      BY <1>2, <1>5, <1>8, <2>1, <3>1 DEF PermitStates
    <3>3. Num(permit', paid, Sockets) <= MaxConnections
      BY <1>4, <1>5, <1>6, <2>3, <3>2, LimitsAreNat
    <3> QED
      BY <1>1, <1>2, <1>3, <1>4, <1>9, <2>1, <3>1, <3>2, <3>3 DEF PermitStates
  <2> QED
    BY <2>2, <2>3
<1>11. CASE TurnAway(s)
  <2>1. /\ permit[s] = "refused" /\ permit' = [permit EXCEPT ![s] = "none"]
        /\ total' = total - 1 /\ perIp' = perIp
    BY <1>11 DEF TurnAway
  <2>2. /\ Num(permit', live, Sockets) = Num(permit, live, Sockets) - 1
        /\ Num(permit', paid, Sockets) = Num(permit, paid, Sockets)
        /\ Num(permit', entered, A) = Num(permit, entered, A)
        /\ Num(permit', held, A) = Num(permit, held, A)
    BY <1>2, <1>5, <1>8, <2>1 DEF PermitStates
  <2>3. /\ total' = Num(permit', live, Sockets)
        /\ Num(permit', paid, Sockets) <= MaxConnections
        /\ Num(permit', held, A) <= MaxPerIp
    BY <1>3, <1>4, <1>5, <1>6, <2>1, <2>2, LimitsAreNat
  <2>4. perIp' = [perIp EXCEPT ![AddressOf[s]] = Num(permit', entered, A)]
    BY <1>1, <1>2, <1>3, <1>5, <1>7, <2>1, <2>2
  <2> QED
    BY <1>9, <2>1, <2>3, <2>4 DEF PermitStates
<1>12. CASE RefuseAddress(s)
  <2>1. /\ permit[s] = "counted" /\ permit' = [permit EXCEPT ![s] = "none"]
        /\ total' = total - 1 /\ perIp' = perIp
    BY <1>12 DEF RefuseAddress
  <2>2. /\ Num(permit', live, Sockets) = Num(permit, live, Sockets) - 1
        /\ Num(permit', paid, Sockets) = Num(permit, paid, Sockets) - 1
        /\ Num(permit', entered, A) = Num(permit, entered, A)
        /\ Num(permit', held, A) = Num(permit, held, A)
    BY <1>2, <1>5, <1>8, <2>1 DEF PermitStates
  <2>3. /\ total' = Num(permit', live, Sockets)
        /\ Num(permit', paid, Sockets) <= MaxConnections
        /\ Num(permit', held, A) <= MaxPerIp
    BY <1>3, <1>4, <1>5, <1>6, <2>1, <2>2, LimitsAreNat
  <2>4. perIp' = [perIp EXCEPT ![AddressOf[s]] = Num(permit', entered, A)]
    BY <1>1, <1>2, <1>3, <1>5, <1>7, <2>1, <2>2
  <2> QED
    BY <1>9, <2>1, <2>3, <2>4 DEF PermitStates
<1>13. CASE Grant(s)
  <2>1. /\ permit[s] = "counted" /\ permit' = [permit EXCEPT ![s] = "held"]
        /\ total' = total /\ perIp[AddressOf[s]] < MaxPerIp
        /\ perIp' = [perIp EXCEPT ![AddressOf[s]] = perIp[AddressOf[s]] + 1]
    BY <1>1, <1>2, <1>13, LimitsAreNat DEF Grant, AtIpLimit
  <2>2. /\ Num(permit', live, Sockets) = Num(permit, live, Sockets)
        /\ Num(permit', paid, Sockets) = Num(permit, paid, Sockets)
        /\ Num(permit', entered, A) = Num(permit, entered, A) + 1
        /\ Num(permit', held, A) = Num(permit, held, A) + 1
    BY <1>2, <1>5, <1>8, <2>1 DEF PermitStates
  <2>3. /\ total' = Num(permit', live, Sockets)
        /\ Num(permit', paid, Sockets) <= MaxConnections
        /\ Num(permit', held, A) <= MaxPerIp
    BY <1>3, <1>4, <1>5, <1>6, <2>1, <2>2, LimitsAreNat
  <2>4. perIp' = [perIp EXCEPT ![AddressOf[s]] = Num(permit', entered, A)]
    BY <1>1, <1>2, <1>3, <1>5, <1>7, <2>1, <2>2
  <2> QED
    BY <1>9, <2>1, <2>3, <2>4 DEF PermitStates
<1>14. CASE DropTotal(s)
  <2>1. /\ permit[s] = "held" /\ permit' = [permit EXCEPT ![s] = "dropping"]
        /\ total' = total - 1 /\ perIp' = perIp
    BY <1>14 DEF DropTotal
  <2>2. /\ Num(permit', live, Sockets) = Num(permit, live, Sockets) - 1
        /\ Num(permit', paid, Sockets) = Num(permit, paid, Sockets) - 1
        /\ Num(permit', entered, A) = Num(permit, entered, A)
        /\ Num(permit', held, A) = Num(permit, held, A) - 1
    BY <1>2, <1>5, <1>8, <2>1 DEF PermitStates
  <2>3. /\ total' = Num(permit', live, Sockets)
        /\ Num(permit', paid, Sockets) <= MaxConnections
        /\ Num(permit', held, A) <= MaxPerIp
    BY <1>3, <1>4, <1>5, <1>6, <2>1, <2>2, LimitsAreNat
  <2>4. perIp' = [perIp EXCEPT ![AddressOf[s]] = Num(permit', entered, A)]
    BY <1>1, <1>2, <1>3, <1>5, <1>7, <2>1, <2>2
  <2> QED
    BY <1>9, <2>1, <2>3, <2>4 DEF PermitStates
<1>15. CASE DropAddress(s)
  <2>1. /\ permit[s] = "dropping" /\ permit' = [permit EXCEPT ![s] = "none"]
        /\ total' = total
        /\ perIp' = [perIp EXCEPT ![AddressOf[s]] = Released(AddressOf[s])]
    BY <1>15 DEF DropAddress
  <2>2. /\ Num(permit', live, Sockets) = Num(permit, live, Sockets)
        /\ Num(permit', paid, Sockets) = Num(permit, paid, Sockets)
        /\ Num(permit', entered, A) = Num(permit, entered, A) - 1
        /\ Num(permit', held, A) = Num(permit, held, A)
    BY <1>2, <1>5, <1>8, <2>1 DEF PermitStates
  <2>3. /\ total' = Num(permit', live, Sockets)
        /\ Num(permit', paid, Sockets) <= MaxConnections
        /\ Num(permit', held, A) <= MaxPerIp
    BY <1>3, <1>4, <1>5, <1>6, <2>1, <2>2, LimitsAreNat
  <2>4. perIp' = [perIp EXCEPT ![AddressOf[s]] = Num(permit', entered, A)]
    <3> DEFINE n == Num(permit, entered, A)
    <3>1. n \in Nat /\ Num(permit', entered, A) \in Nat /\ Num(permit', entered, A) = n - 1
      BY <1>5, <1>7, <2>2
    <3>2. Released(AddressOf[s]) = IF n = 0 THEN 0 ELSE n - 1
      BY <1>3 DEF Released
    <3> HIDE DEF n
    <3>3. Released(AddressOf[s]) = Num(permit', entered, A)
      BY <3>1, <3>2
    <3> QED
      BY <2>1, <3>3
  <2> QED
    BY <1>9, <2>1, <2>3, <2>4 DEF PermitStates
<1> QED
  BY <1>10, <1>11, <1>12, <1>13, <1>14, <1>15

\* At first nothing is counted.
LEMMA QuotaInvInit == Init => QuotaInv
<1> SUFFICES ASSUME Init PROVE QuotaInv
  OBVIOUS
<1>1. TypeOK
  BY DEF Init, TypeOK, PermitStates
<1>2. OneAtATime
  BY DEF Init, OneAtATime, Deciding, InState
<1>3. \A S, A : A \in SUBSET Sockets /\ "none" \notin S => Num(permit, S, A) = 0
  <2> SUFFICES ASSUME NEW S, NEW A \in SUBSET Sockets, "none" \notin S
               PROVE  Num(permit, S, A) = 0
    OBVIOUS
  <2>1. {t \in A : permit[t] \in S} = {}
    BY DEF Init
  <2> QED
    BY <2>1, FS_EmptySet DEF Num
<1>4. \A a : FromAddress(a) \in SUBSET Sockets
  BY DEF FromAddress
<1>5. Numbers
  BY <1>3, <1>4, LimitsAreNat DEF Init, Numbers
<1> QED
  BY <1>1, <1>2, <1>5, NumbersAre DEF QuotaInv

\* Whoever takes a count back finds the total above zero.
LEMMA TotalIsPaid ==
  ASSUME TypeOK, Numbers
  PROVE  total = 0 => \A s \in Sockets : permit[s] \notin {"counted", "refused", "held"}
<1> DEFINE live == {t \in Sockets : permit[t] \in {"counted", "refused", "held"}}
<1>1. IsFiniteSet(live) /\ total = Cardinality(live)
  BY NumIsNat DEF Numbers, Num
<1>2. total = 0 => live = {}
  <2> HIDE DEF live
  <2> QED
    BY <1>1, FS_EmptySet
<1> QED
  BY <1>2

\* Every step keeps the shape of the state.
LEMMA TypeStep ==
  ASSUME TypeOK, Numbers, [Next]_vars
  PROVE  TypeOK'
<1> SUFFICES ASSUME NEW s \in Sockets,
                    Count(s) \/ TurnAway(s) \/ RefuseAddress(s) \/ Grant(s)
                      \/ DropTotal(s) \/ DropAddress(s)
             PROVE  TypeOK'
  BY DEF Next, vars, TypeOK
<1> USE DEF TypeOK, PermitStates
<1>1. AddressOf[s] \in Addresses
  BY AddressOfType
<1>2. permit[s] \in {"counted", "refused", "held"} => total - 1 \in Nat
  BY TotalIsPaid
<1>3. CASE Count(s)
  BY <1>3 DEF Count
<1>4. CASE TurnAway(s)
  BY <1>2, <1>4 DEF TurnAway
<1>5. CASE RefuseAddress(s)
  BY <1>2, <1>5 DEF RefuseAddress
<1>6. CASE Grant(s)
  BY <1>1, <1>6 DEF Grant
<1>7. CASE DropTotal(s)
  BY <1>2, <1>7 DEF DropTotal
<1>8. CASE DropAddress(s)
  BY <1>1, <1>8 DEF DropAddress, Released
<1> QED
  BY <1>3, <1>4, <1>5, <1>6, <1>7, <1>8

\* The acceptor takes up a socket only when it has decided on the one before.
LEMMA OneAtATimeStep ==
  ASSUME TypeOK, OneAtATime, [Next]_vars
  PROVE  OneAtATime'
<1> SUFFICES ASSUME NEW s \in Sockets,
                    Count(s) \/ TurnAway(s) \/ RefuseAddress(s) \/ Grant(s)
                      \/ DropTotal(s) \/ DropAddress(s)
             PROVE  OneAtATime'
  BY DEF Next, vars, OneAtATime, Deciding, InState
<1> USE DEF TypeOK, PermitStates, OneAtATime, Deciding, InState
<1>1. CASE Count(s)
  BY <1>1 DEF Count
<1>2. CASE TurnAway(s)
  BY <1>2 DEF TurnAway
<1>3. CASE RefuseAddress(s)
  BY <1>3 DEF RefuseAddress
<1>4. CASE Grant(s)
  BY <1>4 DEF Grant
<1>5. CASE DropTotal(s)
  BY <1>5 DEF DropTotal
<1>6. CASE DropAddress(s)
  BY <1>6 DEF DropAddress
<1> QED
  BY <1>1, <1>2, <1>3, <1>4, <1>5, <1>6

\* Every step keeps the invariant.
LEMMA QuotaInvStep == QuotaInv /\ [Next]_vars => QuotaInv'
<1> SUFFICES ASSUME QuotaInv, [Next]_vars PROVE QuotaInv'
  OBVIOUS
<1>1. TypeOK /\ OneAtATime /\ Numbers
  BY NumbersAre DEF QuotaInv
<1>2. TypeOK' /\ OneAtATime'
  BY <1>1, TypeStep, OneAtATimeStep
<1>3. Numbers'
  <2>1. CASE UNCHANGED vars
    BY <1>1, <2>1 DEF vars, Numbers
  <2>2. CASE Next
    <3>1. PICK s \in Sockets : Count(s) \/ TurnAway(s) \/ RefuseAddress(s) \/ Grant(s)
                                 \/ DropTotal(s) \/ DropAddress(s)
      BY <2>2 DEF Next
    <3>2. FromAddress(AddressOf[s]) \in SUBSET Sockets
      BY DEF FromAddress
    <3> QED
      BY <1>1, <3>1, <3>2, SocketStep
  <2> QED
    BY <2>1, <2>2
<1> QED
  BY <1>2, <1>3, NumbersWillBe DEF QuotaInv

\* The invariant holds in every reachable state.
LEMMA QuotaInvHolds == Spec => []QuotaInv
  BY QuotaInvInit, QuotaInvStep, PTL DEF Spec

-----------------------------------------------------------------------------
(* The theorems *)

\* The counters never go below zero (the debug assertions of Drop), whatever
\* the order in which the threads of the connections drop their permits.
THEOREM QuotaTyped == Spec => []TypeOK
<1>1. QuotaInv => TypeOK
  BY DEF QuotaInv
<1> QED
  BY <1>1, QuotaInvHolds, PTL

\* Both counters always agree with the connections that exist, and the quotas
\* of docs/SECURITY.md:184 are kept, for any number of sockets and addresses
\* and any limits.
THEOREM CountersStayExact == Spec => []CountersExact
<1>1. QuotaInv => CountersExact
  BY DEF QuotaInv
<1> QED
  BY <1>1, QuotaInvHolds, PTL

\* The atomic counter that is raised before it is compared refuses no socket
\* while there is room: no refused socket is ever counted against another.  Nor
\* does the table refuse one of an address below its limit, in which a
\* connection counts until it has dropped the second half of its permit.
THEOREM RefusalsAreDue == Spec => RefusedOnlyWhenFull
<1> DEFINE Due == \A s \in Sockets :
      /\ permit[s] # "refused" /\ permit'[s] = "refused"
           => Cardinality(InState({"held"})) = MaxConnections
      /\ permit[s] = "counted" /\ permit'[s] = "none"
           => Cardinality(InState({"held", "dropping"}) \cap FromAddress(AddressOf[s]))
                >= MaxPerIp
<1>1. QuotaInv /\ [Next]_vars => [Due]_vars
  <2> SUFFICES ASSUME QuotaInv, Next, NEW s \in Sockets
               PROVE  /\ permit[s] # "refused" /\ permit'[s] = "refused"
                           => Cardinality(InState({"held"})) = MaxConnections
                      /\ permit[s] = "counted" /\ permit'[s] = "none"
                           => Cardinality(InState({"held", "dropping"})
                                            \cap FromAddress(AddressOf[s])) >= MaxPerIp
    BY DEF vars
  <2>1. PICK r \in Sockets : Count(r) \/ TurnAway(r) \/ RefuseAddress(r) \/ Grant(r)
                               \/ DropTotal(r) \/ DropAddress(r)
    BY DEF Next
  <2>2. ASSUME permit[s] # "refused", permit'[s] = "refused"
        PROVE  Cardinality(InState({"held"})) = MaxConnections
    <3>1. Count(r) /\ total >= MaxConnections
      BY <2>1, <2>2 DEF QuotaInv, TypeOK, Count, TurnAway, RefuseAddress, Grant, DropTotal,
                  DropAddress
    <3>2. Deciding = {}
      BY <3>1 DEF QuotaInv, OneAtATime, Count
    <3>3. InState({"counted", "refused", "held"}) = InState({"held"})
      BY <3>2 DEF Deciding, InState
    <3>4. total = Cardinality(InState({"held"}))
          /\ Cardinality(InState({"held"})) <= MaxConnections
      BY <3>3 DEF QuotaInv, CountersExact
    <3> QED
      BY <3>1, <3>4, LimitsAreNat DEF QuotaInv, TypeOK
  <2>3. ASSUME permit[s] = "counted", permit'[s] = "none"
        PROVE  Cardinality(InState({"held", "dropping"}) \cap FromAddress(AddressOf[s]))
                 >= MaxPerIp
    <3>1. RefuseAddress(s)
      BY <2>1, <2>3 DEF QuotaInv, TypeOK, Count, TurnAway, RefuseAddress, Grant, DropTotal,
                  DropAddress
    <3>2. AddressOf[s] \in Addresses
      BY AddressOfType
    <3> QED
      BY <3>1, <3>2 DEF RefuseAddress, AtIpLimit, QuotaInv, CountersExact
  <2> QED
    BY <2>2, <2>3
<1> QED
  BY <1>1, QuotaInvHolds, PTL DEF RefusedOnlyWhenFull, Spec

\* A tunnel does to the quotas only what connections do: proxy itself takes and
\* drops no permit, and what it holds is dropped once.
THEOREM TunnelKeepsQuota == TunnelSpec => Spec
<1>1. TunnelInit => Init
  BY DEF TunnelInit
<1>2. [TunnelNext]_allVars => [Next]_vars
  BY DEF TunnelNext, allVars, quota, vars, QuotaStep, Next, Open, Join, TimePasses, Read,
         CopyStep, ReadEnds, Write, WriteFails, ShutdownTunnel, HangUp
<1> QED
  BY <1>1, <1>2, PTL DEF TunnelSpec, Spec

\* So the counters are exact while tunnels open, run and end.
THEOREM TunnelCountersExact == TunnelSpec => []CountersExact
  BY TunnelKeepsQuota, CountersStayExact, PTL

=============================================================================
