---------------------------- MODULE ViewerProofs ---------------------------
(***************************************************************************)
(* Proofs about the viewer: ViewerSession, for any grants, any repaints    *)
(* and any number of inputs and messages, and FrameTransport, for any      *)
(* sizes and any number of frames.                                         *)
(*                                                                         *)
(* An input passes through four hands: the interface records what is held  *)
(* when it queues it, the queue carries it, the worker drops or numbers    *)
(* it, and the host applies what arrives.  ViewerInv relates the two ends. *)
(* What a recursive function over a sequence computes is proved by         *)
(* induction in the form the provers can use: a set of numbers, or of      *)
(* sequences, that has the first and with each its successors has all.     *)
(*                                                                         *)
(* A frame passes through the channel in messages.  FrameInv gives each of *)
(* them a place, and says that they lead from what the viewer has put      *)
(* together to what the host has sent.                                     *)
(***************************************************************************)
EXTENDS ViewerSession, FrameTransport, SequenceTheorems, FiniteSetTheorems,
        WellFoundedInduction, TLAPS

-----------------------------------------------------------------------------
(* The inductive invariant *)

\* The worker up to the grant, and after it has returned.
EarlyPCs == {"connect", "request"} \cup SetupPCs \cup AwaitPCs
OverPCs == {"ending", "ended"}

\* What the interface makes of its repaints, and what the worker sends of it.
MadeEvents == InputEvents \ {"keyZero"}
PermittedEvents == {event \in InputEvents : Permitted(event)}

\* The session reaches its phases with the worker.
Phased ==
  /\ wpc \in EarlyPCs => session.phase # "Active"
  /\ wpc \in {"connect", "claim", "awaitClaim", "handshake", "awaitHandshake", "request"}
        => session.phase = "AwaitingRequest"
  /\ wpc \notin EarlyPCs \cup OverPCs => session.phase = "Active"

\* Before the grant there is nothing to send and nobody to send it, and nobody has
\* said that there is one.
Silent == /\ ~enabled /\ made = <<>> /\ sent = <<>> /\ rpc = "none"
          /\ ToSet(commands) \subseteq {"stop"}
Unannounced == "active" \notin ToSet(events) /\ \A t \in Threads : out[t] # "active"
Staged == Phased /\ (session.phase # "Active" => Silent /\ Unannounced)

\* The grant stays within what the viewer asked for.
Granting ==
  /\ session.phase = "AwaitingApproval" => session.request = Request
  /\ session.phase = "Active" => Granted \subseteq Request.permissions
                                 /\ session.grant.session # 0 /\ session.grant.epoch # 0
  /\ enabled => CanControl(Granted)

\* Inputs are numbered as they are sent; the last number ends the worker.
Numbered ==
  /\ sequence = Len(sent) \/ (Len(sent) = MaxSequence + 1 /\ wpc \in OverPCs)
  /\ \A i \in 1..Len(sent) :
        \/ MayAuthorize([session EXCEPT !.next = i - 1], sent[i])
        \/ i - 1 = MaxSequence
  /\ \A i \in 1..Len(sent) : Permitted(sent[i].event)

\* What was made was sent, is queued, or is not allowed; Stop comes last.
Flowing ==
  /\ Among(made, PermittedEvents) = SentEvents \o Among(commands, PermittedEvents)
  /\ wpc = "input" => commands # <<>> /\ Head(commands) \in PermittedEvents
  /\ \A i \in 1..Len(commands) : commands[i] = "stop" => i = Len(commands) /\ ui = "gone"
  /\ goodbye \/ wpc = "goodbye" => commands = <<>> /\ ui = "gone"

\* The interface knows what its inputs hold down, and holds nothing it should not.
Tracking ==
  /\ HeldBy(made) = ToSet(down)
  /\ ui = "gone" => down = <<>> /\ ~enabled
  /\ ~Focused(focus) => ToSet(down) \subseteq {"button"}
  /\ ~focus.window => ToSet(down) = {}
  /\ modifier <=> "shift" \in ToSet(down)

\* Where the terminal event is: with one thread, in the channel once, or told.
Single ==
  /\ wpc \in OverPCs => terminal
  /\ out["worker"] \in Terminal => wpc \in OverPCs
  /\ ~terminal => /\ told = 0 /\ ToSet(events) \cap Terminal = {}
                  /\ \A t \in Threads : out[t] \notin Terminal
  /\ \A t \in Threads : out[t] \in Terminal =>
        /\ told = 0 /\ ToSet(events) \cap Terminal = {}
        /\ \A u \in Threads : u # t => out[u] \notin Terminal
  /\ \A i, k \in 1..Len(events) : events[i] \in Terminal /\ events[k] \in Terminal => i = k
  /\ ToSet(events) \cap Terminal # {} => told = 0
  /\ told \in {0, 1}
  /\ told = 1 => ui = "gone"
  /\ terminal /\ ui = "open" =>
        ToSet(events) \cap Terminal # {} \/ \E t \in Threads : out[t] \in Terminal

\* What is made, queued and sent.
MadeTyped ==
  /\ made \in Seq(MadeEvents) /\ commands \in Seq(MadeEvents \cup {"stop"})
  /\ sent \in Seq([session : {0, 1}, epoch : {0, 1}, sequence : 0..MaxSequence,
                   event : MadeEvents])

ViewerInv == /\ TypeOK /\ MadeTyped /\ Staged /\ Granting /\ Numbered /\ Flowing
             /\ Tracking /\ Single

-----------------------------------------------------------------------------
(* Induction *)

\* A set that has 0 and the successor of each of its numbers has them all.
LEMMA NumberInduction ==
  ASSUME NEW A, 0 \in A, \A n \in Nat : n \in A => n + 1 \in A
  PROVE  Nat \subseteq A
<1> DEFINE T == Nat \ A
<1>1. SUFFICES ASSUME T # {} PROVE FALSE
  BY <1>1
<1>2. PICK x \in T : \A y \in T : ~(<<y, x>> \in OpToRel(<, Nat))
  <2>1. T \subseteq Nat
    OBVIOUS
  <2> HIDE DEF T
  <2> QED
    BY <1>1, <2>1, WFMin, NatLessThanWellFounded
<1>3. x \in Nat /\ x # 0 /\ x \notin A
  OBVIOUS
<1>4. x - 1 \in Nat /\ (x - 1) + 1 = x /\ x - 1 < x
  BY <1>3
<1>5. x - 1 \in T
  BY <1>3, <1>4
<1>6. <<x - 1, x>> \in OpToRel(<, Nat)
  BY <1>3, <1>4 DEF OpToRel
<1> QED
  BY <1>2, <1>5, <1>6

\* A set of sequences that has the empty one, and with each what one more element
\* makes of it, has them all.
LEMMA QueueInduction ==
  ASSUME NEW S, NEW A, <<>> \in A, \A s \in Seq(S), e \in S : s \in A => Append(s, e) \in A
  PROVE  Seq(S) \subseteq A
<1> DEFINE L == {n \in Nat : \A s \in Seq(S) : Len(s) = n => s \in A}
<1>1. 0 \in L
  BY EmptySeq
<1>2. ASSUME NEW n \in Nat, n \in L PROVE n + 1 \in L
  <2>1. SUFFICES ASSUME NEW s \in Seq(S), Len(s) = n + 1 PROVE s \in A
    OBVIOUS
  <2>2. s # <<>>
    BY <2>1, EmptySeq
  <2>3. PICK t \in Seq(S), e \in S : s = Append(t, e)
    BY <2>2, SequenceEmptyOrAppend
  <2>4. Len(t) \in Nat /\ Len(s) = Len(t) + 1
    BY <2>3, AppendProperties, LenProperties
  <2>5. t \in A
    BY <1>2, <2>1, <2>4
  <2> QED
    BY <2>3, <2>5
<1> HIDE DEF L
<1>3. Nat \subseteq L
  BY <1>1, <1>2, NumberInduction
<1> QED
  BY <1>3, LenProperties DEF L

\* Steps that are functions can be taken one after the other.
Repeats(f, T, base, step, n) ==
  f \in [0..n -> T] /\ f[0] = base /\ \A i \in 1..n : f[i] = step[i][f[i - 1]]

\* Functions applied one after the other have such a run.
LEMMA StepsRepeat ==
  ASSUME NEW T, NEW base \in T, NEW n \in Nat, NEW step \in [1..n -> [T -> T]]
  PROVE  \E f : Repeats(f, T, base, step, n)
<1> DEFINE Run(f, k) == f[0] = base /\ \A i \in 1..k : f[i] = step[i][f[i - 1]]
           A == {k \in Nat : k <= n => \E f \in [0..k -> T] : Run(f, k)}
<1>1. 0 \in A
  <2> DEFINE f == [i \in 0..0 |-> base]
  <2>1. f \in [0..0 -> T] /\ Run(f, 0)
    OBVIOUS
  <2> QED
    BY <2>1
<1>2. ASSUME NEW k \in Nat, k \in A PROVE k + 1 \in A
  <2>1. SUFFICES ASSUME k + 1 <= n PROVE \E f \in [0..(k + 1) -> T] : Run(f, k + 1)
    OBVIOUS
  <2>2. PICK g \in [0..k -> T] : Run(g, k)
    BY <1>2, <2>1
  <2> DEFINE last == step[k + 1][g[k]]
             f == [i \in 0..(k + 1) |-> IF i = k + 1 THEN last ELSE g[i]]
  <2>3. last \in T
    BY <2>1, <2>2
  <2>4. f \in [0..(k + 1) -> T] /\ f[0] = base /\ f[k + 1] = last
        /\ \A i \in 0..k : f[i] = g[i]
    BY <2>2, <2>3
  <2>5. \A i \in 1..(k + 1) : i - 1 \in 0..k /\ (i = k + 1 \/ i \in 1..k)
    OBVIOUS
  <2>6. k \in 0..k /\ (k + 1) - 1 = k /\ \A i \in 1..k : i \in 0..k
    OBVIOUS
  <2> HIDE DEF f
  <2>7. \A i \in 1..(k + 1) : f[i] = step[i][f[i - 1]]
    BY <2>2, <2>4, <2>5, <2>6
  <2> QED
    BY <2>4, <2>7
<1> HIDE DEF A
<1>3. n \in A
  BY <1>1, <1>2, NumberInduction
<1> QED
  BY <1>3 DEF A, Repeats

\* Two runs that start alike and go on alike come to the same.
Alike(f, g, n) == f[0] = g[0] /\ \A i \in 1..n : f[i - 1] = g[i - 1] => f[i] = g[i]

\* So they agree at the end.
LEMMA RunsAgree ==
  ASSUME NEW n \in Nat, NEW f, NEW g, Alike(f, g, n)
  PROVE  f[n] = g[n]
<1> USE DEF Alike
<1> DEFINE A == {k \in Nat : k <= n => f[k] = g[k]}
<1>1. 0 \in A
  OBVIOUS
<1>2. ASSUME NEW k \in Nat, k \in A PROVE k + 1 \in A
  <2>1. k + 1 <= n => k + 1 \in 1..n /\ (k + 1) - 1 = k
    OBVIOUS
  <2> QED
    BY <1>2, <2>1
<1> HIDE DEF A
<1>3. n \in A
  BY <1>1, <1>2, NumberInduction
<1> QED
  BY <1>3 DEF A

-----------------------------------------------------------------------------
(* Sequences as sets *)

\* What is appended to a sequence is all that is new in it.
LEMMA ToSetAppend ==
  ASSUME NEW S, NEW s \in Seq(S), NEW e \in S
  PROVE  ToSet(Append(s, e)) = ToSet(s) \cup {e}
<1>1. /\ Len(Append(s, e)) = Len(s) + 1 /\ Append(s, e)[Len(s) + 1] = e
      /\ \A i \in 1..Len(s) : Append(s, e)[i] = s[i]
      /\ Append(s, e) \in Seq(S)
  BY AppendProperties
<1>2. DOMAIN s = 1..Len(s) /\ DOMAIN Append(s, e) = 1..(Len(s) + 1) /\ Len(s) \in Nat
  BY <1>1, LenProperties
<1>3. \A i \in 1..(Len(s) + 1) : i \in 1..Len(s) \/ i = Len(s) + 1
  BY <1>2
<1>4. \A i \in 1..Len(s) : i \in 1..(Len(s) + 1)
  BY <1>2
<1>5. Len(s) + 1 \in 1..(Len(s) + 1)
  BY <1>2
<1> QED
  BY <1>1, <1>2, <1>3, <1>4, <1>5 DEF ToSet

\* Nothing is in an empty sequence, and a sequence with nothing in it is empty.
LEMMA ToSetEmpty ==
  ASSUME NEW S, NEW s \in Seq(S)
  PROVE  ToSet(s) = {} <=> s = <<>>
<1>1. s # <<>> => s[1] \in ToSet(s)
  BY EmptySeq, LenProperties DEF ToSet
<1> QED
  BY <1>1, EmptySeq DEF ToSet

\* A sequence contains what is in it.
LEMMA ContainsIn ==
  ASSUME NEW S, NEW s \in Seq(S), NEW e
  PROVE  Contains(s, e) <=> e \in ToSet(s)
  BY LenProperties DEF Contains, ToSet

\* What is in two sequences is in one of them.
LEMMA ToSetConcat ==
  ASSUME NEW S, NEW s \in Seq(S), NEW t \in Seq(S)
  PROVE  ToSet(s \o t) = ToSet(s) \cup ToSet(t)
<1>1. /\ s \o t \in Seq(S) /\ Len(s \o t) = Len(s) + Len(t)
      /\ \A i \in 1..(Len(s) + Len(t)) :
            (s \o t)[i] = IF i <= Len(s) THEN s[i] ELSE t[i - Len(s)]
  BY ConcatProperties
<1>2. /\ DOMAIN s = 1..Len(s) /\ DOMAIN t = 1..Len(t) /\ DOMAIN (s \o t) = 1..(Len(s) + Len(t))
      /\ Len(s) \in Nat /\ Len(t) \in Nat
  BY <1>1, LenProperties
<1>3. ASSUME NEW x \in ToSet(s \o t) PROVE x \in ToSet(s) \cup ToSet(t)
  <2>1. PICK i \in 1..(Len(s) + Len(t)) : x = (s \o t)[i]
    BY <1>2 DEF ToSet
  <2>2. i \in 1..Len(s) \/ (~(i <= Len(s)) /\ i - Len(s) \in 1..Len(t))
    BY <1>2
  <2> QED
    BY <1>1, <1>2, <2>1, <2>2 DEF ToSet
<1>4. ASSUME NEW i \in 1..Len(s) PROVE s[i] \in ToSet(s \o t)
  <2>1. i \in 1..(Len(s) + Len(t)) /\ i <= Len(s)
    BY <1>2
  <2> QED
    BY <1>1, <1>2, <2>1 DEF ToSet
<1>5. ASSUME NEW i \in 1..Len(t) PROVE t[i] \in ToSet(s \o t)
  <2>1. i + Len(s) \in 1..(Len(s) + Len(t)) /\ ~(i + Len(s) <= Len(s))
        /\ (i + Len(s)) - Len(s) = i
    BY <1>2
  <2> QED
    BY <1>1, <1>2, <2>1 DEF ToSet
<1> QED
  BY <1>2, <1>3, <1>4, <1>5 DEF ToSet

\* A sequence has the same elements the other way round.
LEMMA ReverseHas ==
  ASSUME NEW S, NEW s \in Seq(S)
  PROVE  Reverse(s) \in Seq(S) /\ ToSet(Reverse(s)) = ToSet(s)
<1>1. Len(s) \in Nat /\ DOMAIN s = 1..Len(s) /\ \A i \in 1..Len(s) : s[i] \in S
  BY LenProperties, ElementOfSeq
<1>2. \A i \in 1..Len(s) : (Len(s) - i) + 1 \in 1..Len(s) /\ (Len(s) - ((Len(s) - i) + 1)) + 1 = i
  BY <1>1
<1>3. Reverse(s) \in [1..Len(s) -> S] /\ \A i \in 1..Len(s) : Reverse(s)[i] = s[(Len(s) - i) + 1]
  BY <1>1, <1>2 DEF Reverse
<1>4. Reverse(s) \in Seq(S)
  BY <1>1, <1>3, SeqDef
<1>5. DOMAIN Reverse(s) = 1..Len(s)
  BY <1>3
<1>6. ASSUME NEW i \in 1..Len(s) PROVE Reverse(s)[i] \in ToSet(s) /\ s[i] \in ToSet(Reverse(s))
  <2>1. Reverse(s)[(Len(s) - i) + 1] = s[i]
    BY <1>2, <1>3
  <2> QED
    BY <1>1, <1>2, <1>3, <1>5, <2>1 DEF ToSet
<1> QED
  BY <1>1, <1>4, <1>5, <1>6 DEF ToSet

-----------------------------------------------------------------------------
(* What the recursive functions compute *)

\* A run through a sequence that picks out what is in a set.
Picks(f, S, s, set) ==
  /\ f \in [0..Len(s) -> Seq(S)]
  /\ f[0] = <<>> /\ Among(s, set) = f[Len(s)]
  /\ \A i \in 1..Len(s) : f[i] = IF s[i] \in set THEN Append(f[i - 1], s[i]) ELSE f[i - 1]

\* Among follows such a run.
LEMMA AmongRun ==
  ASSUME NEW S, NEW s \in Seq(S), NEW set
  PROVE  \E f : Picks(f, S, s, set)
<1> DEFINE T == Seq(S)
           n == Len(s)
           next(before, i) == IF s[i] \in set THEN Append(before, s[i]) ELSE before
           step == [i \in 1..n |-> [t \in T |-> next(t, i)]]
<1>1. n \in Nat /\ <<>> \in T /\ \A i \in 1..n : s[i] \in S
  BY LenProperties, EmptySeq, ElementOfSeq
<1>2. \A i \in 1..n, t \in T : next(t, i) \in T
  BY <1>1, AppendProperties
<1> HIDE DEF next, T, n
<1>3. step \in [1..n -> [T -> T]] /\ \A i \in 1..n, t \in T : step[i][t] = next(t, i)
  BY <1>2
<1> HIDE DEF step
<1>4. PICK g : Repeats(g, T, <<>>, step, n)
  BY <1>1, <1>3, StepsRepeat
<1>5. \A i \in 0..n : i = 0 \/ (i \in 1..n /\ i - 1 \in 0..n)
  BY <1>1
<1>6. g = [i \in 0..n |-> IF i = 0 THEN <<>> ELSE next(g[i - 1], i)]
  <2>1. \A i \in 0..n : g[i] = IF i = 0 THEN <<>> ELSE next(g[i - 1], i)
    BY <1>3, <1>4, <1>5 DEF Repeats
  <2> QED
    BY <1>4, <2>1 DEF Repeats
<1> DEFINE f == CHOOSE f : f = [i \in 0..n |-> IF i = 0 THEN <<>> ELSE next(f[i - 1], i)]
<1>7. f = [i \in 0..n |-> IF i = 0 THEN <<>> ELSE next(f[i - 1], i)]
  BY <1>6
<1>8. Among(s, set) = f[n]
  BY DEF Among, next, n
<1> HIDE DEF f
<1>9. f[0] = <<>> /\ \A i \in 1..n : f[i] = next(f[i - 1], i)
  BY <1>1, <1>5, <1>7
<1>10. f \in [0..n -> T]
  <2> DEFINE A == {k \in Nat : k <= n => f[k] \in T}
  <2>1. 0 \in A
    BY <1>1, <1>9
  <2>2. ASSUME NEW k \in Nat, k \in A PROVE k + 1 \in A
    <3>1. k + 1 <= n => k + 1 \in 1..n /\ (k + 1) - 1 = k /\ k <= n
      BY <1>1
    <3> QED
      BY <1>2, <1>9, <2>2, <3>1
  <2> HIDE DEF A
  <2>3. Nat \subseteq A
    BY <2>1, <2>2, NumberInduction
  <2>4. \A k \in 0..n : f[k] \in T
    BY <1>1, <2>3 DEF A
  <2> QED
    BY <1>7, <2>4
<1> QED
  BY <1>8, <1>9, <1>10 DEF T, n, next, Picks

\* Among one element more is what was among the others, and that one if it is in
\* the set.
LEMMA AmongAppend ==
  ASSUME NEW S, NEW s \in Seq(S), NEW e \in S, NEW set
  PROVE  Among(Append(s, e), set)
           = IF e \in set THEN Append(Among(s, set), e) ELSE Among(s, set)
<1> DEFINE n == Len(s)
<1>1. /\ Append(s, e) \in Seq(S) /\ Len(Append(s, e)) = n + 1 /\ n \in Nat
      /\ Append(s, e)[n + 1] = e /\ \A i \in 1..n : Append(s, e)[i] = s[i]
  BY AppendProperties, LenProperties
<1>2. PICK f : Picks(f, S, s, set)
  BY AmongRun
<1>3. PICK g : Picks(g, S, Append(s, e), set)
  BY <1>1, AmongRun
<1>4. \A i \in 1..n : i \in 1..(n + 1)
  BY <1>1
<1>5. Alike(f, g, n)
  BY <1>1, <1>2, <1>3, <1>4 DEF Picks, Alike
<1>6. f[n] = g[n]
  BY <1>1, <1>5, RunsAgree
<1>7. n + 1 \in 1..(n + 1) /\ (n + 1) - 1 = n
  BY <1>1
<1> QED
  BY <1>1, <1>2, <1>3, <1>6, <1>7 DEF Picks

\* There is nothing among nothing.
LEMMA AmongEmpty == \A set : Among(<<>>, set) = <<>>
<1> SUFFICES ASSUME NEW set PROVE Among(<<>>, set) = <<>>
  OBVIOUS
<1>1. <<>> \in Seq({}) /\ Len(<<>>) = 0
  BY EmptySeq
<1>2. PICK f : Picks(f, {}, <<>>, set)
  BY <1>1, AmongRun
<1> QED
  BY <1>1, <1>2 DEF Picks

\* What is among the elements of S is a sequence of them.
LEMMA AmongTyped ==
  ASSUME NEW S, NEW s \in Seq(S), NEW set
  PROVE  Among(s, set) \in Seq(S) /\ ToSet(Among(s, set)) = ToSet(s) \cap set
<1> DEFINE A == {q \in Seq(S) : /\ Among(q, set) \in Seq(S)
                                /\ ToSet(Among(q, set)) = ToSet(q) \cap set}
<1>1. <<>> \in A
  BY AmongEmpty, EmptySeq, ToSetEmpty
<1>2. ASSUME NEW q \in Seq(S), NEW e \in S, q \in A PROVE Append(q, e) \in A
  <2>1. Append(q, e) \in Seq(S) /\ ToSet(Append(q, e)) = ToSet(q) \cup {e}
    BY AppendProperties, ToSetAppend
  <2>2. CASE e \in set
    <3>1. Among(Append(q, e), set) = Append(Among(q, set), e)
      BY <2>2, AmongAppend
    <3>2. /\ Append(Among(q, set), e) \in Seq(S)
          /\ ToSet(Append(Among(q, set), e)) = ToSet(Among(q, set)) \cup {e}
      BY <1>2, AppendProperties, ToSetAppend
    <3> QED
      BY <1>2, <2>1, <2>2, <3>1, <3>2
  <2>3. CASE e \notin set
    <3>1. Among(Append(q, e), set) = Among(q, set)
      BY <2>3, AmongAppend
    <3> QED
      BY <1>2, <2>1, <2>3, <3>1
  <2> QED
    BY <2>2, <2>3
<1> HIDE DEF A
<1>3. Seq(S) \subseteq A
  BY <1>1, <1>2, QueueInduction
<1> QED
  BY <1>3 DEF A

\* More is appended to two sequences when it is appended to the second.
LEMMA ConcatAppend ==
  ASSUME NEW S, NEW s \in Seq(S), NEW t \in Seq(S), NEW e \in S
  PROVE  s \o Append(t, e) = Append(s \o t, e)
<1>1. <<e>> \in Seq(S)
  OBVIOUS
<1>2. Append(t, e) = t \o <<e>> /\ s \o t \in Seq(S)
  BY AppendIsConcat, ConcatProperties
<1>3. Append(s \o t, e) = (s \o t) \o <<e>>
  BY <1>2, AppendIsConcat
<1> QED
  BY <1>1, <1>2, <1>3, ConcatAssociative

\* Among two sequences is what is among the first, then what is among the second.
LEMMA AmongConcat ==
  ASSUME NEW S, NEW s \in Seq(S), NEW t \in Seq(S), NEW set
  PROVE  Among(s \o t, set) = Among(s, set) \o Among(t, set)
<1> DEFINE A == {q \in Seq(S) : Among(s \o q, set) = Among(s, set) \o Among(q, set)}
<1>0. Among(s, set) \in Seq(S)
  BY AmongTyped
<1>1. <<>> \in A
  BY <1>0, AmongEmpty, EmptySeq, ConcatEmptySeq
<1>2. ASSUME NEW q \in Seq(S), NEW e \in S, q \in A PROVE Append(q, e) \in A
  <2>1. s \o Append(q, e) = Append(s \o q, e) /\ s \o q \in Seq(S) /\ Append(q, e) \in Seq(S)
    BY ConcatAppend, ConcatProperties, AppendProperties
  <2>2. Among(q, set) \in Seq(S)
    BY AmongTyped
  <2>3. CASE e \in set
    <3>1. Among(s \o Append(q, e), set) = Append(Among(s \o q, set), e)
      BY <2>1, <2>3, AmongAppend
    <3>2. Among(Append(q, e), set) = Append(Among(q, set), e)
      BY <2>3, AmongAppend
    <3>3. Among(s, set) \o Append(Among(q, set), e) = Append(Among(s, set) \o Among(q, set), e)
      BY <1>0, <2>2, ConcatAppend
    <3> QED
      BY <1>2, <2>1, <3>1, <3>2, <3>3
  <2>4. CASE e \notin set
    <3>1. Among(s \o Append(q, e), set) = Among(s \o q, set)
      BY <2>1, <2>4, AmongAppend
    <3>2. Among(Append(q, e), set) = Among(q, set)
      BY <2>4, AmongAppend
    <3> QED
      BY <1>2, <2>1, <3>1, <3>2
  <2> QED
    BY <2>3, <2>4
<1> HIDE DEF A
<1>3. Seq(S) \subseteq A
  BY <1>1, <1>2, QueueInduction
<1> QED
  BY <1>3 DEF A

\* A queue is its first element and the others.
LEMMA HeadFirst ==
  ASSUME NEW S, NEW s \in Seq(S), s # <<>>
  PROVE  s = <<Head(s)>> \o Tail(s) /\ Head(s) \in S /\ Tail(s) \in Seq(S)
<1>1. /\ Head(s) = s[1] /\ Head(s) \in S /\ Tail(s) \in Seq(S) /\ Len(Tail(s)) = Len(s) - 1
      /\ \A i \in 1..Len(Tail(s)) : Tail(s)[i] = s[i + 1]
  BY HeadTailProperties
<1>2. Len(s) \in Nat /\ Len(s) # 0
  BY EmptySeq
<1>3. <<Head(s)>> \in Seq(S) /\ Len(<<Head(s)>>) = 1 /\ <<Head(s)>>[1] = Head(s)
  BY <1>1
<1>4. /\ <<Head(s)>> \o Tail(s) \in Seq(S) /\ Len(<<Head(s)>> \o Tail(s)) = 1 + Len(Tail(s))
      /\ \A i \in 1..(1 + Len(Tail(s))) : (<<Head(s)>> \o Tail(s))[i] =
            IF i <= 1 THEN <<Head(s)>>[i] ELSE Tail(s)[i - 1]
  BY <1>1, <1>3, ConcatProperties
<1>5. \A i \in 1..Len(s) : i \in 1..(1 + Len(Tail(s)))
                           /\ (i = 1 \/ (~(i <= 1) /\ i - 1 \in 1..Len(Tail(s)) /\ (i - 1) + 1 = i))
  BY <1>1, <1>2
<1>6. \A i \in 1..Len(s) : (<<Head(s)>> \o Tail(s))[i] = s[i]
  BY <1>1, <1>3, <1>4, <1>5
<1>7. Len(<<Head(s)>> \o Tail(s)) = Len(s)
  BY <1>1, <1>2, <1>4
<1>8. <<Head(s)>> \o Tail(s) = s
  BY <1>4, <1>6, <1>7, SeqEqual
<1> QED
  BY <1>1, <1>8

\* What is among a queue starts with its first element, if that is in the set.
LEMMA AmongHead ==
  ASSUME NEW S, NEW s \in Seq(S), s # <<>>, NEW set
  PROVE  Among(s, set) = IF Head(s) \in set THEN <<Head(s)>> \o Among(Tail(s), set)
                                            ELSE Among(Tail(s), set)
<1> DEFINE h == Head(s)
           rest == Tail(s)
           first == <<h>>
<1>1. s = first \o rest /\ h \in S /\ rest \in Seq(S)
  BY HeadFirst
<1> HIDE DEF h, rest
<1>2. first \in Seq(S) /\ first = Append(<<>>, h) /\ <<>> \in Seq(S)
  BY <1>1, EmptySeq
<1> HIDE DEF first
<1>3. Among(first \o rest, set) = Among(first, set) \o Among(rest, set)
  <2>1. first \in Seq(S) /\ rest \in Seq(S)
    BY <1>1, <1>2
  <2> QED
    BY <2>1, AmongConcat
<1>4. Among(first, set) = IF h \in set THEN first ELSE <<>>
  <2>1. Among(Append(<<>>, h), set) = IF h \in set THEN Append(Among(<<>>, set), h)
                                                    ELSE Among(<<>>, set)
    BY <1>1, <1>2, AmongAppend
  <2> QED
    BY <1>2, <2>1, AmongEmpty
<1>5. Among(rest, set) \in Seq(S)
  BY <1>1, AmongTyped
<1>6. Among(s, set) = IF h \in set THEN first \o Among(rest, set) ELSE Among(rest, set)
  BY <1>1, <1>3, <1>4, <1>5, ConcatEmptySeq
<1> QED
  BY <1>6 DEF h, rest, first

\* What is tracked stays a record of sources, and says what is held.
LEMMA TrackedTyped ==
  ASSUME NEW seq \in Seq(Sources), NEW event
  PROVE  /\ Tracked(seq, event) \in Seq(Sources)
         /\ ToSet(Tracked(seq, event)) = HeldAfter(ToSet(seq), event)
<1>1. CASE event \in Down
  <2>1. Source(event) \in Sources /\ (Contains(seq, Source(event)) <=> Source(event) \in ToSet(seq))
    BY <1>1, ContainsIn DEF Source, Sources, Down
  <2>2. CASE Contains(seq, Source(event))
    <3>1. event \notin Up
      BY <1>1 DEF Down, Up
    <3> QED
      BY <1>1, <2>1, <2>2, <3>1 DEF Tracked, HeldAfter
  <2>3. CASE ~Contains(seq, Source(event))
    <3>1. /\ Append(seq, Source(event)) \in Seq(Sources)
          /\ ToSet(Append(seq, Source(event))) = ToSet(seq) \cup {Source(event)}
      BY <2>1, AppendProperties, ToSetAppend
    <3> QED
      BY <1>1, <2>3, <3>1 DEF Tracked, HeldAfter
  <2> QED
    BY <2>2, <2>3
<1>2. CASE event \in Up
  <2>1. event \notin Down
    BY <1>2 DEF Down, Up
  <2>2. /\ Among(seq, Sources \ {Source(event)}) \in Seq(Sources)
        /\ ToSet(Among(seq, Sources \ {Source(event)}))
             = ToSet(seq) \cap (Sources \ {Source(event)})
    BY AmongTyped
  <2>3. ToSet(seq) \subseteq Sources
    BY ElementOfSeq, LenProperties DEF ToSet
  <2> QED
    BY <1>2, <2>1, <2>2, <2>3 DEF Tracked, HeldAfter
<1>3. CASE event \notin Down /\ event \notin Up
  BY <1>3 DEF Tracked, HeldAfter
<1> QED
  BY <1>1, <1>2, <1>3

\* A run through a queue that tracks it.
Tracks(f, seq, queue) ==
  /\ f \in [0..Len(queue) -> Seq(Sources)]
  /\ f[0] = seq /\ AllTracked(seq, queue) = f[Len(queue)]
  /\ \A i \in 1..Len(queue) : f[i] = Tracked(f[i - 1], queue[i])

\* AllTracked follows such a run.
LEMMA TrackedRun ==
  ASSUME NEW S, NEW queue \in Seq(S), NEW seq \in Seq(Sources)
  PROVE  \E f : Tracks(f, seq, queue)
<1> DEFINE T == Seq(Sources)
           n == Len(queue)
           next(before, i) == Tracked(before, queue[i])
           step == [i \in 1..n |-> [t \in T |-> next(t, i)]]
<1>1. n \in Nat /\ seq \in T
  BY LenProperties
<1>2. \A i \in 1..n, t \in T : next(t, i) \in T
  BY TrackedTyped
<1> HIDE DEF next, T, n
<1>3. step \in [1..n -> [T -> T]] /\ \A i \in 1..n, t \in T : step[i][t] = next(t, i)
  BY <1>2
<1> HIDE DEF step
<1>4. PICK g : Repeats(g, T, seq, step, n)
  BY <1>1, <1>3, StepsRepeat
<1>5. \A i \in 0..n : i = 0 \/ (i \in 1..n /\ i - 1 \in 0..n)
  BY <1>1
<1>6. g = [i \in 0..n |-> IF i = 0 THEN seq ELSE next(g[i - 1], i)]
  <2>1. \A i \in 0..n : g[i] = IF i = 0 THEN seq ELSE next(g[i - 1], i)
    BY <1>3, <1>4, <1>5 DEF Repeats
  <2> QED
    BY <1>4, <2>1 DEF Repeats
<1> DEFINE f == CHOOSE f : f = [i \in 0..n |-> IF i = 0 THEN seq ELSE next(f[i - 1], i)]
<1>7. f = [i \in 0..n |-> IF i = 0 THEN seq ELSE next(f[i - 1], i)]
  BY <1>6
<1>8. AllTracked(seq, queue) = f[n]
  BY DEF AllTracked, next, n
<1> HIDE DEF f
<1>9. f[0] = seq /\ \A i \in 1..n : f[i] = next(f[i - 1], i)
  BY <1>1, <1>5, <1>7
<1>10. f \in [0..n -> T]
  <2> DEFINE A == {k \in Nat : k <= n => f[k] \in T}
  <2>1. 0 \in A
    BY <1>1, <1>9
  <2>2. ASSUME NEW k \in Nat, k \in A PROVE k + 1 \in A
    <3>1. k + 1 <= n => k + 1 \in 1..n /\ (k + 1) - 1 = k /\ k <= n
      BY <1>1
    <3> QED
      BY <1>2, <1>9, <2>2, <3>1
  <2> HIDE DEF A
  <2>3. Nat \subseteq A
    BY <2>1, <2>2, NumberInduction
  <2>4. \A k \in 0..n : f[k] \in T
    BY <1>1, <2>3 DEF A
  <2> QED
    BY <1>7, <2>4
<1> QED
  BY <1>8, <1>9, <1>10 DEF T, n, next, Tracks

\* Tracking one input more.
LEMMA TrackedAppend ==
  ASSUME NEW S, NEW queue \in Seq(S), NEW e \in S, NEW seq \in Seq(Sources)
  PROVE  AllTracked(seq, Append(queue, e)) = Tracked(AllTracked(seq, queue), e)
<1> DEFINE n == Len(queue)
<1>1. /\ Append(queue, e) \in Seq(S) /\ Len(Append(queue, e)) = n + 1 /\ n \in Nat
      /\ Append(queue, e)[n + 1] = e /\ \A i \in 1..n : Append(queue, e)[i] = queue[i]
  BY AppendProperties, LenProperties
<1>2. PICK f : Tracks(f, seq, queue)
  BY TrackedRun
<1>3. PICK g : Tracks(g, seq, Append(queue, e))
  BY <1>1, TrackedRun
<1>4. \A i \in 1..n : i \in 1..(n + 1)
  BY <1>1
<1>5. Alike(f, g, n)
  BY <1>1, <1>2, <1>3, <1>4 DEF Tracks, Alike
<1>6. f[n] = g[n]
  BY <1>1, <1>5, RunsAgree
<1>7. n + 1 \in 1..(n + 1) /\ (n + 1) - 1 = n
  BY <1>1
<1> QED
  BY <1>1, <1>2, <1>3, <1>6, <1>7 DEF Tracks

\* Nothing is tracked in an empty queue.
LEMMA TrackedEmpty ==
  ASSUME NEW seq \in Seq(Sources)
  PROVE  AllTracked(seq, <<>>) = seq
<1>1. <<>> \in Seq({}) /\ Len(<<>>) = 0
  BY EmptySeq
<1>2. PICK f : Tracks(f, seq, <<>>)
  BY <1>1, TrackedRun
<1> QED
  BY <1>1, <1>2 DEF Tracks

\* Tracking ends with a record of sources.
LEMMA AllTrackedTyped ==
  ASSUME NEW S, NEW queue \in Seq(S), NEW seq \in Seq(Sources)
  PROVE  AllTracked(seq, queue) \in Seq(Sources)
<1>1. PICK f : Tracks(f, seq, queue)
  BY TrackedRun
<1>2. Len(queue) \in 0..Len(queue)
  BY LenProperties
<1> QED
  BY <1>1, <1>2 DEF Tracks

-----------------------------------------------------------------------------
(* What is held *)

\* Whatever is held, an input changes it to a set of sources.
LEMMA HeldAfterTyped ==
  ASSUME NEW set \in SUBSET Sources, NEW event
  PROVE  HeldAfter(set, event) \in SUBSET Sources
  BY DEF HeldAfter, Source, Sources, Down, Up

\* A run through inputs that presses and releases.
Holds(f, inputs) ==
  /\ f \in [0..Len(inputs) -> SUBSET Sources]
  /\ f[0] = {} /\ HeldBy(inputs) = f[Len(inputs)]
  /\ \A i \in 1..Len(inputs) : f[i] = HeldAfter(f[i - 1], inputs[i])

\* HeldBy follows such a run.
LEMMA HeldRun ==
  ASSUME NEW S, NEW inputs \in Seq(S)
  PROVE  \E f : Holds(f, inputs)
<1> DEFINE T == SUBSET Sources
           n == Len(inputs)
           next(before, i) == HeldAfter(before, inputs[i])
           step == [i \in 1..n |-> [t \in T |-> next(t, i)]]
<1>1. n \in Nat /\ {} \in T
  BY LenProperties
<1>2. \A i \in 1..n, t \in T : next(t, i) \in T
  BY HeldAfterTyped
<1> HIDE DEF next, T, n
<1>3. step \in [1..n -> [T -> T]] /\ \A i \in 1..n, t \in T : step[i][t] = next(t, i)
  BY <1>2
<1> HIDE DEF step
<1>4. PICK g : Repeats(g, T, {}, step, n)
  BY <1>1, <1>3, StepsRepeat
<1>5. \A i \in 0..n : i = 0 \/ (i \in 1..n /\ i - 1 \in 0..n)
  BY <1>1
<1>6. g = [i \in 0..n |-> IF i = 0 THEN {} ELSE next(g[i - 1], i)]
  <2>1. \A i \in 0..n : g[i] = IF i = 0 THEN {} ELSE next(g[i - 1], i)
    BY <1>3, <1>4, <1>5 DEF Repeats
  <2> QED
    BY <1>4, <2>1 DEF Repeats
<1> DEFINE f == CHOOSE f : f = [i \in 0..n |-> IF i = 0 THEN {} ELSE next(f[i - 1], i)]
<1>7. f = [i \in 0..n |-> IF i = 0 THEN {} ELSE next(f[i - 1], i)]
  BY <1>6
<1>8. HeldBy(inputs) = f[n]
  BY DEF HeldBy, next, n
<1> HIDE DEF f
<1>9. f[0] = {} /\ \A i \in 1..n : f[i] = next(f[i - 1], i)
  <2>1. 0 \in 0..n /\ \A i \in 1..n : i \in 0..n /\ i # 0
    BY <1>1
  <2>2. \A i \in 0..n : f[i] = IF i = 0 THEN {} ELSE next(f[i - 1], i)
    BY <1>7, Zenon
  <2> QED
    BY <2>1, <2>2
<1>10. f \in [0..n -> T]
  <2> DEFINE A == {k \in Nat : k <= n => f[k] \in T}
  <2>1. 0 \in A
    BY <1>1, <1>9
  <2>2. ASSUME NEW k \in Nat, k \in A PROVE k + 1 \in A
    <3>1. k + 1 <= n => k + 1 \in 1..n /\ (k + 1) - 1 = k /\ k <= n
      BY <1>1
    <3> QED
      BY <1>2, <1>9, <2>2, <3>1
  <2> HIDE DEF A
  <2>3. Nat \subseteq A
    BY <2>1, <2>2, NumberInduction
  <2>4. \A k \in 0..n : f[k] \in T
    BY <1>1, <2>3 DEF A
  <2> QED
    BY <1>7, <2>4
<1> QED
  BY <1>8, <1>9, <1>10 DEF T, n, next, Holds

\* One input more presses or releases.
LEMMA HeldAppend ==
  ASSUME NEW S, NEW inputs \in Seq(S), NEW e \in S
  PROVE  HeldBy(Append(inputs, e)) = HeldAfter(HeldBy(inputs), e)
<1> DEFINE n == Len(inputs)
<1>1. /\ Append(inputs, e) \in Seq(S) /\ Len(Append(inputs, e)) = n + 1 /\ n \in Nat
      /\ Append(inputs, e)[n + 1] = e /\ \A i \in 1..n : Append(inputs, e)[i] = inputs[i]
  BY AppendProperties, LenProperties
<1>2. PICK f : Holds(f, inputs)
  BY HeldRun
<1>3. PICK g : Holds(g, Append(inputs, e))
  BY <1>1, HeldRun
<1>4. \A i \in 1..n : i \in 1..(n + 1)
  BY <1>1
<1>5. Alike(f, g, n)
  BY <1>1, <1>2, <1>3, <1>4 DEF Holds, Alike
<1>6. f[n] = g[n]
  BY <1>1, <1>5, RunsAgree
<1>7. n + 1 \in 1..(n + 1) /\ (n + 1) - 1 = n
  BY <1>1
<1> QED
  BY <1>1, <1>2, <1>3, <1>6, <1>7 DEF Holds

\* No input holds nothing down.
LEMMA HeldEmpty == HeldBy(<<>>) = {}
<1>1. <<>> \in Seq({}) /\ Len(<<>>) = 0
  BY EmptySeq
<1>2. PICK f : Holds(f, <<>>)
  BY <1>1, HeldRun
<1> QED
  BY <1>1, <1>2 DEF Holds

\* What the interface tracks of further inputs is what they hold down at the host.
LEMMA TrackingHolds ==
  ASSUME NEW S, NEW before \in Seq(S), NEW queue \in Seq(S), NEW seq \in Seq(Sources),
         HeldBy(before) = ToSet(seq)
  PROVE  HeldBy(before \o queue) = ToSet(AllTracked(seq, queue))
<1> DEFINE A == {q \in Seq(S) : HeldBy(before \o q) = ToSet(AllTracked(seq, q))}
<1>1. <<>> \in A
  BY TrackedEmpty, EmptySeq, ConcatEmptySeq
<1>2. ASSUME NEW q \in Seq(S), NEW e \in S, q \in A PROVE Append(q, e) \in A
  <2>1. before \o Append(q, e) = Append(before \o q, e) /\ before \o q \in Seq(S)
        /\ Append(q, e) \in Seq(S)
    BY ConcatAppend, ConcatProperties, AppendProperties
  <2>2. HeldBy(Append(before \o q, e)) = HeldAfter(HeldBy(before \o q), e)
    BY <2>1, HeldAppend
  <2>3. AllTracked(seq, Append(q, e)) = Tracked(AllTracked(seq, q), e)
    BY TrackedAppend
  <2>4. ToSet(Tracked(AllTracked(seq, q), e)) = HeldAfter(ToSet(AllTracked(seq, q)), e)
    BY AllTrackedTyped, TrackedTyped
  <2> QED
    BY <1>2, <2>1, <2>2, <2>3, <2>4
<1> HIDE DEF A
<1>3. Seq(S) \subseteq A
  BY <1>1, <1>2, QueueInduction
<1> QED
  BY <1>3 DEF A

\* Inputs that press and release nothing but X change nothing but X.
LEMMA OthersStay ==
  ASSUME NEW S, NEW before \in Seq(S), NEW P \in SUBSET S, NEW queue \in Seq(P), NEW X,
         \A e \in P \cap (Down \cup Up) : Source(e) \in X
  PROVE  HeldBy(before \o queue) \ X = HeldBy(before) \ X
<1> DEFINE A == {q \in Seq(P) : /\ q \in Seq(S)
                                /\ HeldBy(before \o q) \ X = HeldBy(before) \ X}
<1>1. <<>> \in A
  BY EmptySeq, ConcatEmptySeq
<1>2. ASSUME NEW q \in Seq(P), NEW e \in P, q \in A PROVE Append(q, e) \in A
  <2>1. e \in S /\ q \in Seq(S)
    BY <1>2
  <2>2. before \o Append(q, e) = Append(before \o q, e) /\ before \o q \in Seq(S)
        /\ Append(q, e) \in Seq(S)
    BY <2>1, ConcatAppend, ConcatProperties, AppendProperties
  <2>3. HeldBy(Append(before \o q, e)) = HeldAfter(HeldBy(before \o q), e)
    BY <2>1, <2>2, HeldAppend
  <2>4. HeldAfter(HeldBy(before \o q), e) \ X = HeldBy(before \o q) \ X
    BY DEF HeldAfter
  <2>5. Append(q, e) \in Seq(P)
    BY AppendProperties
  <2> QED
    BY <1>2, <2>2, <2>3, <2>4, <2>5
<1> HIDE DEF A
<1>3. Seq(P) \subseteq A
  BY <1>1, <1>2, QueueInduction
<1> QED
  BY <1>3 DEF A

\* Releases release.
LEMMA UpsRelease ==
  ASSUME NEW S, NEW before \in Seq(S), Up \subseteq S, NEW queue \in Seq(Up)
  PROVE  HeldBy(before \o queue) = HeldBy(before) \ {Source(e) : e \in ToSet(queue)}
<1> DEFINE Gone(q) == {Source(e) : e \in ToSet(q)}
           A == {q \in Seq(Up) : q \in Seq(S) /\ HeldBy(before \o q) = HeldBy(before) \ Gone(q)}
<1>1. <<>> \in A
  BY EmptySeq, ConcatEmptySeq, ToSetEmpty
<1>2. ASSUME NEW q \in Seq(Up), NEW e \in Up, q \in A PROVE Append(q, e) \in A
  <2>1. e \in S /\ q \in Seq(S) /\ e \notin Down
    BY <1>2 DEF Up, Down
  <2>2. before \o Append(q, e) = Append(before \o q, e) /\ before \o q \in Seq(S)
        /\ Append(q, e) \in Seq(S)
    BY <2>1, ConcatAppend, ConcatProperties, AppendProperties
  <2>3. HeldBy(Append(before \o q, e)) = HeldAfter(HeldBy(before \o q), e)
    BY <2>1, <2>2, HeldAppend
  <2>4. HeldAfter(HeldBy(before \o q), e) = HeldBy(before \o q) \ {Source(e)}
    BY <2>1 DEF HeldAfter
  <2>5. Append(q, e) \in Seq(Up) /\ ToSet(Append(q, e)) = ToSet(q) \cup {e}
    BY AppendProperties, ToSetAppend
  <2>6. Gone(Append(q, e)) = Gone(q) \cup {Source(e)}
    BY <2>5
  <2> QED
    BY <1>2, <2>2, <2>3, <2>4, <2>5, <2>6
<1> HIDE DEF A
<1>3. Seq(Up) \subseteq A
  BY <1>1, <1>2, QueueInduction
<1> QED
  BY <1>3 DEF A

\* Where a press may pass, so may its release: what passes holds down no more than all
\* of it would.
LEMMA AmongHolds ==
  ASSUME NEW S, NEW s \in Seq(S), NEW P,
         \A d \in Down, u \in Up : Source(d) = Source(u) /\ d \in P => u \in P
  PROVE  HeldBy(Among(s, P)) \subseteq HeldBy(s)
<1> DEFINE Pressed == {Source(d) : d \in Down \cap P}
           A == {q \in Seq(S) : HeldBy(Among(q, P)) \subseteq HeldBy(q) \cap Pressed}
<1>1. <<>> \in A
  BY EmptySeq, AmongEmpty, HeldEmpty
<1>2. ASSUME NEW q \in Seq(S), NEW e \in S, q \in A PROVE Append(q, e) \in A
  <2>1. Append(q, e) \in Seq(S) /\ Among(q, P) \in Seq(S)
    BY AppendProperties, AmongTyped
  <2>2. HeldBy(Append(q, e)) = HeldAfter(HeldBy(q), e)
    BY HeldAppend
  <2>3. CASE e \in P
    <3>0. Among(Append(q, e), P) = Append(Among(q, P), e)
      BY <2>3, AmongAppend
    <3>1. HeldBy(Append(Among(q, P), e)) = HeldAfter(HeldBy(Among(q, P)), e)
      BY <2>1, HeldAppend
    <3>2. HeldAfter(HeldBy(Among(q, P)), e) \subseteq HeldAfter(HeldBy(q), e) \cap Pressed
      BY <1>2, <2>3 DEF HeldAfter
    <3> QED
      BY <2>1, <2>2, <3>0, <3>1, <3>2
  <2>4. CASE e \notin P
    <3>1. Among(Append(q, e), P) = Among(q, P)
      BY <2>4, AmongAppend
    <3>2. e \in Up => Source(e) \notin Pressed
      BY <2>4
    <3>3. HeldBy(Among(q, P)) \subseteq HeldAfter(HeldBy(q), e)
      BY <1>2, <3>2 DEF HeldAfter
    <3> QED
      BY <1>2, <2>1, <2>2, <3>1, <3>3
  <2> QED
    BY <2>3, <2>4
<1> HIDE DEF A
<1>3. Seq(S) \subseteq A
  BY <1>1, <1>2, QueueInduction
<1> QED
  BY <1>3 DEF A

\* What is queued on a condition is a sequence of one or none.
LEMMA QueuedTyped ==
  ASSUME NEW S, NEW e \in S, NEW condition \in BOOLEAN
  PROVE  /\ Queued(condition, e) \in Seq(S)
         /\ ToSet(Queued(condition, e)) = IF condition THEN {e} ELSE {}
<1>1. <<>> \in Seq(S)
  BY EmptySeq
<1>2. ToSet(<<e>>) = {e} /\ <<e>> \in Seq(S)
  BY DEF ToSet
<1>3. ToSet(<<>>) = {}
  BY <1>1, ToSetEmpty
<1> QED
  BY <1>1, <1>2, <1>3 DEF Queued

\* release_remote_input sends one release, and only one, of each thing that is held.
LEMMA ReleasesAll ==
  ASSUME NEW held \in Seq(Sources)
  PROVE  /\ Releases(held) \in Seq(Up)
         /\ {Source(e) : e \in ToSet(Releases(held))} = ToSet(held)
<1> DEFINE UpOf(source) == CHOOSE event \in Up : Source(event) = source
           keys == Reverse(Among(held, Sources \ {"button"}))
           last == Queued(Contains(held, "button"), "button")
           sources == keys \o last
<1>1. /\ Among(held, Sources \ {"button"}) \in Seq(Sources)
      /\ ToSet(Among(held, Sources \ {"button"})) = ToSet(held) \cap (Sources \ {"button"})
  BY AmongTyped
<1>2. keys \in Seq(Sources) /\ ToSet(keys) = ToSet(held) \cap (Sources \ {"button"})
  BY <1>1, ReverseHas
<1>3. last \in Seq(Sources) /\ ToSet(last) = IF Contains(held, "button") THEN {"button"} ELSE {}
  BY QueuedTyped DEF Sources, Contains
<1>4. Contains(held, "button") <=> "button" \in ToSet(held)
  BY ContainsIn
<1>5. ToSet(held) \subseteq Sources
  BY ElementOfSeq, LenProperties DEF ToSet
<1> HIDE DEF keys, last
<1>6. sources \in Seq(Sources) /\ ToSet(sources) = ToSet(held)
  <2>1. keys \o last \in Seq(Sources) /\ ToSet(keys \o last) = ToSet(keys) \cup ToSet(last)
    BY <1>2, <1>3, ConcatProperties, ToSetConcat
  <2>2. ToSet(keys) \cup ToSet(last) = ToSet(held)
    BY <1>2, <1>3, <1>4, <1>5
  <2> QED
    BY <2>1, <2>2
<1> HIDE DEF sources
<1>7. \A source \in Sources : \E event \in Up : Source(event) = source
  BY DEF Sources, Up, Source
<1>8. \A source \in Sources : UpOf(source) \in Up /\ Source(UpOf(source)) = source
  BY <1>7
<1> HIDE DEF UpOf
<1>9. Len(sources) \in Nat /\ DOMAIN sources = 1..Len(sources)
      /\ \A i \in 1..Len(sources) : sources[i] \in Sources
  BY <1>6, LenProperties, ElementOfSeq
<1>10. Releases(held) = [i \in 1..Len(sources) |-> UpOf(sources[i])]
  BY <1>9 DEF Releases, UpOf, sources, keys, last
<1>11. /\ Releases(held) \in Seq(Up)
       /\ DOMAIN Releases(held) = 1..Len(sources)
       /\ \A i \in 1..Len(sources) : Source(Releases(held)[i]) = sources[i]
  BY <1>8, <1>9, <1>10, SeqDef
<1>12. {Source(e) : e \in ToSet(Releases(held))} = ToSet(sources)
  BY <1>9, <1>11 DEF ToSet
<1> QED
  BY <1>6, <1>11, <1>12

\* After the releases of what is held nothing is.
LEMMA ReleasedAll ==
  ASSUME NEW S, NEW before \in Seq(S), Up \subseteq S, NEW held \in Seq(Sources),
         HeldBy(before) = ToSet(held)
  PROVE  HeldBy(before \o Releases(held)) = {}
<1>1. Releases(held) \in Seq(Up) /\ {Source(e) : e \in ToSet(Releases(held))} = ToSet(held)
  BY ReleasesAll
<1> QED
  BY <1>1, UpsRelease

-----------------------------------------------------------------------------
(* What a repaint makes *)

\* What is among some is among more.
LEMMA Widen ==
  ASSUME NEW S, NEW T, S \subseteq T, NEW s \in Seq(S)
  PROVE  s \in Seq(T)
<1>1. s \in [1..Len(s) -> S] /\ Len(s) \in Nat
  BY LenProperties, SeqDef
<1>2. s \in [1..Len(s) -> T]
  BY <1>1
<1> QED
  BY <1>1, <1>2, SeqDef

PointerEvents == {"move", "buttonDown", "buttonUp", "scroll"}
ShiftEvents == {"shiftDown", "shiftUp"}
KeyEvents == {"keyDown", "keyUp"}

\* The three parts of the inputs of a repaint, and all of them.
Released(f) == IF LosesFocus(f) THEN Releases(AllTracked(down, PointerInputs(f))) ELSE <<>>
Typed(f) == IF Focused(f) THEN ModifierInputs(f, modifier) \o f.keys ELSE <<>>
Inputs(f) == PointerInputs(f) \o Released(f) \o Typed(f)

\* The pointer's inputs.
LEMMA PointerTyped ==
  ASSUME NEW f \in Frames, down \in Seq(Sources)
  PROVE  PointerInputs(f) \in Seq(PointerEvents)
<1> DEFINE P == PointerEvents
           pressed == Queued("buttonDown" \in f.buttons, "buttonDown")
           held == Contains(AllTracked(down, pressed), "button")
           first == Queued(f.moved, "move")
           third == Queued("buttonUp" \in f.buttons /\ held, "buttonUp")
           fourth == Queued(f.scrolled, "scroll")
<1>1. held \in BOOLEAN /\ f.moved \in BOOLEAN /\ f.scrolled \in BOOLEAN
  BY DEF Contains, Frames
<1>2. "move" \in P /\ "buttonDown" \in P /\ "buttonUp" \in P /\ "scroll" \in P
  BY DEF PointerEvents
<1>3. ("buttonDown" \in f.buttons) \in BOOLEAN /\ ("buttonUp" \in f.buttons /\ held) \in BOOLEAN
  OBVIOUS
<1>4. pressed \in Seq(P)
  BY <1>2, <1>3, QueuedTyped
<1>5. first \in Seq(P) /\ fourth \in Seq(P)
  BY <1>1, <1>2, QueuedTyped
<1> HIDE DEF held
<1>6. third \in Seq(P)
  BY <1>2, <1>3, QueuedTyped
<1>7. PointerInputs(f) = first \o pressed \o third \o fourth
  BY DEF PointerInputs, held
<1> HIDE DEF P, pressed, first, third, fourth
<1>8. first \o pressed \in Seq(P)
  BY <1>4, <1>5, ConcatProperties
<1>9. first \o pressed \o third \in Seq(P)
  BY <1>6, <1>8, ConcatProperties
<1>10. first \o pressed \o third \o fourth \in Seq(P)
  BY <1>5, <1>9, ConcatProperties
<1> QED
  BY <1>7, <1>10 DEF P

\* The modifier's input is one press, one release or nothing.
LEMMA ModifierTyped ==
  ASSUME NEW f \in Frames, NEW before \in BOOLEAN
  PROVE  /\ ModifierInputs(f, before) \in Seq(ShiftEvents)
         /\ ModifierInputs(f, before) = IF f.shift = before THEN <<>>
                                        ELSE IF f.shift THEN Append(<<>>, "shiftDown")
                                        ELSE Append(<<>>, "shiftUp")
<1>1. f.shift \in BOOLEAN
  BY DEF Frames
<1>2. <<>> \in Seq(ShiftEvents) /\ "shiftDown" \in ShiftEvents /\ "shiftUp" \in ShiftEvents
  BY EmptySeq DEF ShiftEvents
<1>3. Append(<<>>, "shiftDown") \in Seq(ShiftEvents) /\ Append(<<>>, "shiftUp") \in Seq(ShiftEvents)
  BY <1>2, AppendProperties
<1>4. <<"shiftDown">> = Append(<<>>, "shiftDown") /\ <<"shiftUp">> = Append(<<>>, "shiftUp")
  OBVIOUS
<1>5. <<>> \o <<>> = <<>> /\ \A s \in Seq(ShiftEvents) : s \o <<>> = s /\ <<>> \o s = s
  BY <1>2, ConcatEmptySeq
<1>6. ModifierInputs(f, before) = IF f.shift = before THEN <<>>
                                  ELSE IF f.shift THEN <<"shiftDown">> \o <<>>
                                  ELSE <<>> \o <<"shiftUp">>
  BY <1>1, <1>5 DEF ModifierInputs, Queued
<1> QED
  BY <1>2, <1>3, <1>4, <1>5, <1>6

\* The three parts are inputs the user may make.
LEMMA InputsTyped ==
  ASSUME NEW f \in Frames, down \in Seq(Sources), modifier \in BOOLEAN
  PROVE  /\ PointerInputs(f) \in Seq(MadeEvents)
         /\ Released(f) \in Seq(MadeEvents) /\ Released(f) \in Seq(Up)
         /\ Typed(f) \in Seq(MadeEvents)
         /\ Inputs(f) \in Seq(MadeEvents)
<1> DEFINE M == MadeEvents
<1>1. PointerEvents \subseteq M /\ ShiftEvents \subseteq M /\ KeyEvents \subseteq M /\ Up \subseteq M
  BY DEF PointerEvents, ShiftEvents, KeyEvents, Up, Down, MadeEvents, InputEvents
<1> HIDE DEF M
<1>2. PointerInputs(f) \in Seq(PointerEvents) /\ PointerInputs(f) \in Seq(M)
  BY <1>1, PointerTyped, Widen
<1>3. Released(f) \in Seq(Up) /\ Released(f) \in Seq(M)
  <2>1. AllTracked(down, PointerInputs(f)) \in Seq(Sources)
    BY <1>2, AllTrackedTyped
  <2>2. Released(f) \in Seq(Up)
    BY <2>1, ReleasesAll, EmptySeq DEF Released
  <2> QED
    BY <1>1, <2>2, Widen
<1>4. Typed(f) \in Seq(M)
  <2>1. ModifierInputs(f, modifier) \in Seq(ShiftEvents) /\ f.keys \in Seq(KeyEvents)
    BY ModifierTyped DEF Frames, KeyEvents
  <2>2. ModifierInputs(f, modifier) \in Seq(M) /\ f.keys \in Seq(M)
    BY <1>1, <2>1, Widen
  <2>3. ModifierInputs(f, modifier) \o f.keys \in Seq(M)
    BY <2>2, ConcatProperties
  <2> QED
    BY <2>3, EmptySeq DEF Typed
<1>5. PointerInputs(f) \o Released(f) \in Seq(M)
  BY <1>2, <1>3, ConcatProperties
<1>6. Inputs(f) \in Seq(M)
  BY <1>4, <1>5, ConcatProperties DEF Inputs
<1> QED
  BY <1>2, <1>3, <1>4, <1>6 DEF M

\* What the inputs of a repaint hold down after what was held before.
LEMMA RepaintHolds ==
  ASSUME NEW f \in Frames, down \in Seq(Sources), modifier \in BOOLEAN,
         made \in Seq(MadeEvents), HeldBy(made) = ToSet(down)
  PROVE  /\ HeldBy(made \o Inputs(f)) = ToSet(AllTracked(down, Inputs(f)))
         /\ LosesFocus(f) /\ ~Focused(f) => HeldBy(made \o Inputs(f)) = {}
         /\ ~LosesFocus(f) /\ ~Focused(f) =>
               HeldBy(made \o Inputs(f)) \ {"button"} = ToSet(down) \ {"button"}
         /\ ~LosesFocus(f) /\ Focused(f) =>
               ("shift" \in HeldBy(made \o Inputs(f))
                  <=> IF f.shift = modifier THEN "shift" \in ToSet(down) ELSE f.shift)
<1> DEFINE M == MadeEvents
           pointer == PointerInputs(f)
           first == made \o pointer
           second == first \o Released(f)
           third == second \o Typed(f)
<1>1. /\ pointer \in Seq(M) /\ pointer \in Seq(PointerEvents)
      /\ Released(f) \in Seq(M) /\ Typed(f) \in Seq(M) /\ Inputs(f) \in Seq(M)
  BY InputsTyped, PointerTyped
<1>2. /\ PointerEvents \in SUBSET M /\ KeyEvents \in SUBSET M
      /\ Up \subseteq M /\ "shiftDown" \in M /\ "shiftUp" \in M
  BY DEF PointerEvents, KeyEvents, Up, Down, MadeEvents, InputEvents
<1>3. made \in Seq(M)
  OBVIOUS
<1> HIDE DEF M, pointer
<1>4. first \in Seq(M)
  BY <1>1, <1>3, ConcatProperties
<1> HIDE DEF first
<1>5. second \in Seq(M)
  BY <1>1, <1>4, ConcatProperties
<1>6. made \o Inputs(f) = third
  <2>1. pointer \o Released(f) \in Seq(M)
    BY <1>1, ConcatProperties
  <2>4. \A s, t, u \in Seq(M) : s \o (t \o u) = (s \o t) \o u
    BY ConcatAssociative
  <2>2. made \o ((pointer \o Released(f)) \o Typed(f))
          = (made \o (pointer \o Released(f))) \o Typed(f)
    BY <1>1, <1>3, <2>1, <2>4
  <2>3. made \o (pointer \o Released(f)) = (made \o pointer) \o Released(f)
    BY <1>1, <1>3, <2>4
  <2> QED
    BY <2>2, <2>3 DEF Inputs, pointer, first
<1> HIDE DEF second
<1>7. HeldBy(made \o Inputs(f)) = ToSet(AllTracked(down, Inputs(f)))
  BY <1>1, <1>3, TrackingHolds
<1>8. HeldBy(first) = ToSet(AllTracked(down, pointer))
  BY <1>1, <1>3, TrackingHolds DEF first
<1>9. HeldBy(first) \ {"button"} = ToSet(down) \ {"button"}
  <2>1. \A e \in PointerEvents \cap (Down \cup Up) : Source(e) \in {"button"}
    BY DEF PointerEvents, Down, Up, Source
  <2>2. \A b \in Seq(M), q \in Seq(PointerEvents) :
           HeldBy(b \o q) \ {"button"} = HeldBy(b) \ {"button"}
    <3> DEFINE P == PointerEvents
               X == {"button"}
    <3>1. P \in SUBSET M /\ \A e \in P \cap (Down \cup Up) : Source(e) \in X
      BY <1>2, <2>1
    <3> HIDE DEF P, X
    <3>2. \A b \in Seq(M), q \in Seq(P) : HeldBy(b \o q) \ X = HeldBy(b) \ X
      BY <3>1, OthersStay
    <3> QED
      BY <3>2 DEF P, X
  <2> QED
    BY <1>1, <1>3, <2>2 DEF first
<1>10. HeldBy(second) = IF LosesFocus(f) THEN {} ELSE HeldBy(first)
  <2>1. CASE LosesFocus(f)
    <3>1. AllTracked(down, pointer) \in Seq(Sources)
      BY <1>1, AllTrackedTyped
    <3>2. Released(f) = Releases(AllTracked(down, pointer))
      BY <2>1 DEF Released, pointer
    <3> QED
      BY <1>2, <1>4, <1>8, <2>1, <3>1, <3>2, ReleasedAll DEF second
  <2>2. CASE ~LosesFocus(f)
    <3>1. second = first
      BY <1>4, <2>2, ConcatEmptySeq DEF second, Released
    <3> QED
      BY <2>2, <3>1
  <2> QED
    BY <2>1, <2>2
<1>11. ~Focused(f) => third = second
  BY <1>5, ConcatEmptySeq DEF Typed
<1>12. Focused(f) => ("shift" \in HeldBy(third)
                        <=> IF f.shift = modifier THEN "shift" \in HeldBy(second) ELSE f.shift)
  <2>1. SUFFICES ASSUME Focused(f)
                 PROVE  "shift" \in HeldBy(third)
                          <=> IF f.shift = modifier THEN "shift" \in HeldBy(second) ELSE f.shift
    OBVIOUS
  <2> DEFINE shift == ModifierInputs(f, modifier)
             fourth == second \o shift
  <2>2. f.shift \in BOOLEAN /\ f.keys \in Seq(KeyEvents) /\ shift \in Seq(ShiftEvents)
    BY ModifierTyped DEF Frames, KeyEvents
  <2>3. shift = IF f.shift = modifier THEN <<>>
                ELSE IF f.shift THEN Append(<<>>, "shiftDown") ELSE Append(<<>>, "shiftUp")
    BY ModifierTyped
  <2> HIDE DEF shift
  <2>4. /\ second \o <<>> = second /\ <<>> \in Seq(M)
        /\ second \o Append(<<>>, "shiftDown") = Append(second \o <<>>, "shiftDown")
        /\ second \o Append(<<>>, "shiftUp") = Append(second \o <<>>, "shiftUp")
    BY <1>2, <1>5, ConcatEmptySeq, EmptySeq, ConcatAppend
  <2>5. /\ HeldBy(Append(second, "shiftDown")) = HeldAfter(HeldBy(second), "shiftDown")
        /\ HeldBy(Append(second, "shiftUp")) = HeldAfter(HeldBy(second), "shiftUp")
    BY <1>2, <1>5, HeldAppend
  <2>6. /\ "shift" \in HeldAfter(HeldBy(second), "shiftDown")
        /\ "shift" \notin HeldAfter(HeldBy(second), "shiftUp")
    BY DEF HeldAfter, Down, Up, Source
  <2>7. "shift" \in HeldBy(fourth)
          <=> IF f.shift = modifier THEN "shift" \in HeldBy(second) ELSE f.shift
    <3>1. CASE f.shift = modifier
      BY <2>3, <2>4, <3>1
    <3>2. CASE f.shift # modifier /\ f.shift
      <4>1. fourth = Append(second, "shiftDown")
        BY <2>3, <2>4, <3>2
      <4> HIDE DEF fourth
      <4> QED
        BY <2>5, <2>6, <3>2, <4>1
    <3>3. CASE f.shift # modifier /\ ~f.shift
      <4>1. fourth = Append(second, "shiftUp")
        BY <2>3, <2>4, <3>3
      <4> HIDE DEF fourth
      <4> QED
        BY <2>5, <2>6, <3>3, <4>1
    <3> QED
      BY <2>2, <3>1, <3>2, <3>3
  <2>8. shift \in Seq(M) /\ f.keys \in Seq(M)
    <3>1. ShiftEvents \subseteq M
      BY <1>2 DEF ShiftEvents
    <3> QED
      BY <1>2, <2>2, <3>1, Widen
  <2>9. fourth \in Seq(M)
    BY <1>5, <2>8, ConcatProperties
  <2>10. third = fourth \o f.keys
    <3>2. \A s, t, u \in Seq(M) : s \o (t \o u) = (s \o t) \o u
      BY ConcatAssociative
    <3>1. second \o (shift \o f.keys) = (second \o shift) \o f.keys
      BY <1>5, <2>8, <3>2
    <3> QED
      BY <2>1, <3>1 DEF Typed, shift
  <2> HIDE DEF fourth
  <2>11. HeldBy(fourth \o f.keys) \ {"key"} = HeldBy(fourth) \ {"key"}
    <3>1. \A e \in KeyEvents \cap (Down \cup Up) : Source(e) \in {"key"}
      BY DEF KeyEvents, Source
    <3> DEFINE P == KeyEvents
               X == {"key"}
    <3>2. P \in SUBSET M /\ \A e \in P \cap (Down \cup Up) : Source(e) \in X
      BY <1>2, <3>1
    <3> HIDE DEF P, X
    <3>3. \A b \in Seq(M), q \in Seq(P) : HeldBy(b \o q) \ X = HeldBy(b) \ X
      BY <3>2, OthersStay
    <3> QED
      BY <2>2, <2>9, <3>3 DEF P, X
  <2> QED
    BY <2>7, <2>10, <2>11
<1> HIDE DEF third
<1>13. "shift" \in HeldBy(first) <=> "shift" \in ToSet(down)
  BY <1>9
<1> QED
  BY <1>6, <1>7, <1>9, <1>10, <1>11, <1>12, <1>13

-----------------------------------------------------------------------------
(* Steps that move inputs *)

\* The steps that leave the session, the queue and what is sent alone.
Idle ==
  /\ UNCHANGED <<session, asked, sequence, sent, goodbye, commands, ui, enabled, down,
                 modifier, focus, made>>
  /\ wpc' = wpc \/ wpc' \notin {"input", "goodbye"}
  /\ wpc \in OverPCs => wpc' \in OverPCs

\* The worker's steps that do not.
Working == \/ DrainCommands \/ SendRequest \/ ReceiveGrant \/ TakeCommand \/ DiscardInput
           \/ SendInput \/ SayGoodbye

\* The interface's steps that do not: a repaint, the stop, and a poll that finds no end.
Kept == UNCHANGED <<wpc, session, asked, sequence, sent, goodbye>>
Repainted(f) ==
  /\ ui = "open" /\ enabled /\ UNCHANGED <<ui, enabled>>
  /\ commands' = commands \o Inputs(f) /\ made' = made \o Inputs(f)
  /\ down' = AllTracked(down, Inputs(f)) /\ modifier' = ModifierAfter(f)
  /\ focus' = [window |-> f.window, canvas |-> f.canvas]
Polled ==
  /\ ui = "open" /\ UNCHANGED <<commands, ui, down, modifier, focus, made>>
  /\ enabled' = enabled \/ ("active" \in ToSet(events) /\ enabled' = CanControl(Granted))

\* No other step moves an input.
LEMMA InputMoves ==
  ASSUME [Next]_vars
  PROVE  \/ Idle \/ Working
         \/ Kept /\ \E f \in Frames : Repainted(f)
         \/ Kept /\ ui = "open" /\ (StopViewer(Farewell) \/ StopViewer(Releases(down)))
         \/ Kept /\ Polled
<1> USE DEF OverPCs
<1>1. CASE WorkerStep \/ AdvanceSetup \/ ReceiveGrant
  BY <1>1 DEF WorkerStep, Working, Connect, PollAgain, FailSetup, SpawnReceiver, CheckRunning,
     PollEnds, FailInput, Keepalive, SendPing, FailPing, ClearRunning, ShutdownChannel,
     JoinReceiver, WorkerEnds, AdvanceSetup, WorkerReturns, SendFails, Idle, Awaiting, SetupPCs,
     AwaitPCs, control, interface, capture
<1>2. CASE ReceiverStep \/ ReceiveTimeout \/ HostSends \/ LoseConnection
  BY <1>2 DEF ReceiverStep, ReceiverLoop, Receive, ReceiveCut, FailReceive, ReceiveTimeout,
     SendPong, FailPong, ReceiverStops, ReceiverCloses, HostSends, LoseConnection, Idle,
     control, interface, capture
<1>3. ASSUME NEW t \in Threads, Deliver(t) PROVE Idle
  BY <1>3 DEF Deliver, Idle, control, interface, capture
<1>4. CASE CaptureInput
  <2>1. PICK f \in UserFrames :
          /\ commands' = commands \o Inputs(f) /\ made' = made \o Inputs(f)
          /\ down' = AllTracked(down, Inputs(f)) /\ modifier' = ModifierAfter(f)
          /\ focus' = [window |-> f.window, canvas |-> f.canvas]
    BY <1>4 DEF CaptureInput, Inputs, Released, Typed
  <2>2. f \in Frames
    BY UserFramesAreFrames
  <2> QED
    BY <1>4, <2>1, <2>2 DEF CaptureInput, Kept, Repainted, control
<1>5. CASE PressStop
  BY <1>5 DEF PressStop, Kept, control
<1>6. CASE Poll
  BY <1>6 DEF Poll, Kept, Polled, control, capture
<1>7. CASE UNCHANGED vars
  BY <1>7 DEF vars, Idle
<1> QED
  BY <1>1, <1>2, <1>3, <1>4, <1>5, <1>6, <1>7 DEF Next

\* Up to the grant the session is not active.
LEMMA NotYet ==
  ASSUME Staged, DrainCommands \/ SendRequest \/ ReceiveGrant
  PROVE  session.phase # "Active" /\ wpc \notin OverPCs /\ wpc' \notin {"input", "goodbye"}
<1> USE DEF Staged, Phased, Silent, EarlyPCs, SetupPCs, AwaitPCs, OverPCs, WorkerReturns
<1>1. CASE DrainCommands
  BY <1>1 DEF DrainCommands, Awaiting
<1>2. CASE SendRequest
  BY <1>2 DEF SendRequest
<1>3. CASE ReceiveGrant
  BY <1>3 DEF ReceiveGrant
<1> QED
  BY <1>1, <1>2, <1>3

\* With an open interface no Stop is queued.
LEMMA OpenQueue ==
  ASSUME MadeTyped, Flowing, ui = "open"
  PROVE  commands \in Seq(MadeEvents) /\ ~goodbye /\ wpc # "goodbye"
<1>1. Len(commands) \in Nat /\ commands \in [1..Len(commands) -> MadeEvents \cup {"stop"}]
  BY LenProperties, SeqDef DEF MadeTyped
<1>2. \A i \in 1..Len(commands) : commands[i] \in MadeEvents
  BY <1>1 DEF Flowing
<1>3. commands \in [1..Len(commands) -> MadeEvents]
  BY <1>1, <1>2
<1> QED
  BY <1>1, <1>3, SeqDef DEF Flowing

\* What the stop queues and makes.
LEMMA StopIs ==
  ASSUME TypeOK, MadeTyped, Flowing, ui = "open",
         StopViewer(Farewell) \/ StopViewer(Releases(down))
  PROVE  /\ Releases(down) \in Seq(MadeEvents)
         /\ made' = made \o Releases(down) /\ made' \in Seq(MadeEvents)
         /\ commands \o Releases(down) \in Seq(MadeEvents)
         /\ \/ commands' = commands \o Releases(down)
            \/ commands' = Append(commands \o Releases(down), "stop")
         /\ ui' = "gone" /\ enabled' = FALSE /\ down' = <<>> /\ modifier' = FALSE
<1>1. down \in Seq(Sources) /\ made \in Seq(MadeEvents) /\ commands \in Seq(MadeEvents)
  BY OpenQueue DEF TypeOK, MadeTyped
<1>2. Up \subseteq MadeEvents
  BY DEF Up, MadeEvents, InputEvents
<1>3. Releases(down) \in Seq(MadeEvents)
  BY <1>1, <1>2, ReleasesAll, Widen
<1>4. made \o Releases(down) \in Seq(MadeEvents) /\ commands \o Releases(down) \in Seq(MadeEvents)
  BY <1>1, <1>3, ConcatProperties
<1>5. commands \o Farewell = Append(commands \o Releases(down), "stop")
  <2> DEFINE C == MadeEvents \cup {"stop"}
  <2>1. Releases(down) \in Seq(C) /\ commands \in Seq(C) /\ "stop" \in C
    BY <1>1, <1>3, Widen
  <2> HIDE DEF C
  <2>2. Append(Releases(down), "stop") = Releases(down) \o <<"stop">>
    BY <2>1, AppendIsConcat
  <2> QED
    BY <2>1, <2>2, ConcatAppend DEF Farewell
<1> QED
  BY <1>3, <1>4, <1>5 DEF StopViewer

\* The sent inputs' events, one by one.
LEMMA SentEventsTyped ==
  ASSUME MadeTyped
  PROVE  SentEvents \in Seq(MadeEvents) /\ Len(SentEvents) = Len(sent) /\ Len(sent) \in Nat
<1> DEFINE I == [session : {0, 1}, epoch : {0, 1}, sequence : 0..MaxSequence,
                 event : MadeEvents]
<1>0. sent \in Seq(I) /\ \A input \in I : input.event \in MadeEvents
  BY DEF MadeTyped
<1> HIDE DEF I
<1>1. Len(sent) \in Nat /\ \A i \in 1..Len(sent) : sent[i].event \in MadeEvents
  BY <1>0, LenProperties, ElementOfSeq
<1>2. SentEvents \in [1..Len(sent) -> MadeEvents]
  BY <1>1 DEF SentEvents
<1> QED
  BY <1>1, <1>2, SeqDef, LenProperties

\* What SendInput sends.
LEMMA SendIs ==
  ASSUME TypeOK, MadeTyped, Flowing, SendInput
  PROVE  LET input == InputOf(Head(commands)) IN
         /\ commands # <<>> /\ Head(commands) \in PermittedEvents \cap MadeEvents
         /\ Tail(commands) \in Seq(MadeEvents \cup {"stop"})
         /\ input \in [session : {0, 1}, epoch : {0, 1}, sequence : 0..MaxSequence,
                       event : MadeEvents]
         /\ sent' = Append(sent, input) /\ sent' \in Seq([session : {0, 1}, epoch : {0, 1},
                                             sequence : 0..MaxSequence, event : MadeEvents])
         /\ commands' = Tail(commands) /\ SentEvents' = Append(SentEvents, Head(commands))
<1> DEFINE input == InputOf(Head(commands))
           I == [session : {0, 1}, epoch : {0, 1}, sequence : 0..MaxSequence, event : MadeEvents]
<1>1. commands \in Seq(MadeEvents \cup {"stop"}) /\ sent \in Seq(I)
      /\ session.grant.session \in {0, 1} /\ session.grant.epoch \in {0, 1}
      /\ sequence \in 0..MaxSequence
  BY DEF TypeOK, MadeTyped, Sessions
<1>2. commands # <<>> /\ Head(commands) \in PermittedEvents
  BY DEF SendInput, Flowing
<1>3. Head(commands) \in MadeEvents /\ Tail(commands) \in Seq(MadeEvents \cup {"stop"})
  <2>1. Head(commands) \in MadeEvents \cup {"stop"}
        /\ Tail(commands) \in Seq(MadeEvents \cup {"stop"})
    BY <1>1, <1>2, HeadTailProperties
  <2> QED
    BY <1>2, <2>1 DEF PermittedEvents, InputEvents, Down, Up
<1>4. input \in I /\ input.event = Head(commands) /\ \A any \in I : any.event \in MadeEvents
  BY <1>1, <1>3 DEF InputOf
<1> HIDE DEF input, I
<1>5. sent' = Append(sent, input) /\ commands' = Tail(commands)
  BY DEF SendInput, input
<1>6. /\ sent' \in Seq(I) /\ Len(sent') = Len(sent) + 1 /\ sent'[Len(sent) + 1] = input
      /\ \A i \in 1..Len(sent) : sent'[i] = sent[i]
  BY <1>1, <1>4, <1>5, AppendProperties
<1>7. SentEvents' = Append(SentEvents, Head(commands))
  <2>1. SentEvents \in Seq(MadeEvents) /\ Len(SentEvents) = Len(sent) /\ Len(sent) \in Nat
    BY SentEventsTyped
  <2>2. SentEvents' \in Seq(MadeEvents) /\ Len(SentEvents') = Len(sent')
    <3>1. \A i \in 1..Len(sent') : sent'[i].event \in MadeEvents
      BY <1>4, <1>6, ElementOfSeq
    <3>2. SentEvents' \in [1..Len(sent') -> MadeEvents] /\ Len(sent') \in Nat
      BY <1>6, <2>1, <3>1 DEF SentEvents
    <3> QED
      BY <3>2, SeqDef, LenProperties
  <2>3. /\ Append(SentEvents, Head(commands)) \in Seq(MadeEvents)
        /\ Len(Append(SentEvents, Head(commands))) = Len(sent) + 1
        /\ Append(SentEvents, Head(commands))[Len(sent) + 1] = Head(commands)
        /\ \A i \in 1..Len(sent) : Append(SentEvents, Head(commands))[i] = SentEvents[i]
    BY <1>3, <2>1, AppendProperties
  <2>4. \A i \in 1..(Len(sent) + 1) : SentEvents'[i] = Append(SentEvents, Head(commands))[i]
    <3>1. SUFFICES ASSUME NEW i \in 1..(Len(sent) + 1)
                   PROVE  SentEvents'[i] = Append(SentEvents, Head(commands))[i]
      OBVIOUS
    <3>2. SentEvents'[i] = sent'[i].event
      BY <1>6 DEF SentEvents
    <3>3. CASE i = Len(sent) + 1
      BY <1>4, <1>6, <2>3, <3>2, <3>3
    <3>4. CASE i \in 1..Len(sent)
      <4>1. SentEvents[i] = sent[i].event
        BY <3>4 DEF SentEvents
      <4> QED
        BY <1>6, <2>3, <3>2, <3>4, <4>1
    <3> QED
      BY <2>1, <3>3, <3>4
  <2> QED
    BY <1>6, <2>2, <2>3, <2>4, SeqEqual
<1> QED
  BY <1>2, <1>3, <1>4, <1>5, <1>6, <1>7 DEF input, I

\* The queues keep holding what may be made, queued and sent.
LEMMA MadeStep ==
  ASSUME TypeOK, MadeTyped, Flowing, [Next]_vars
  PROVE  MadeTyped'
<1> DEFINE C == MadeEvents \cup {"stop"}
<1>0. made \in Seq(MadeEvents) /\ commands \in Seq(C) /\ down \in Seq(Sources)
      /\ modifier \in BOOLEAN /\ MadeEvents \subseteq C /\ "stop" \in C
  BY DEF TypeOK, MadeTyped
<1>1. CASE UNCHANGED <<made, commands, sent>>
  BY <1>1 DEF MadeTyped
<1>2. CASE Working
  <2>1. CASE DrainCommands
    <3>1. UNCHANGED <<made, sent>> /\ commands' = <<>>
      BY <2>1 DEF DrainCommands, control, capture
    <3> QED
      BY <3>1, EmptySeq DEF MadeTyped
  <2>2. CASE TakeCommand \/ DiscardInput
    <3>1. UNCHANGED <<made, sent>> /\ commands # <<>> /\ commands' \in {commands, Tail(commands)}
      BY <2>2 DEF TakeCommand, DiscardInput, control, capture
    <3> HIDE DEF C
    <3>2. Tail(commands) \in Seq(C)
      BY <1>0, <3>1, HeadTailProperties
    <3>3. commands' \in Seq(C)
      BY <1>0, <3>1, <3>2
    <3> QED
      BY <3>1, <3>3 DEF MadeTyped, C
  <2>3. CASE SendInput
    <3>1. UNCHANGED made
      BY <2>3 DEF SendInput, capture
    <3> QED
      BY <2>3, <3>1, SendIs DEF MadeTyped
  <2>4. CASE SendRequest \/ ReceiveGrant \/ SayGoodbye
    BY <1>1, <2>4 DEF SendRequest, ReceiveGrant, SayGoodbye, interface, capture
  <2> QED
    BY <1>2, <2>1, <2>2, <2>3, <2>4 DEF Working
<1>3. ASSUME Kept, NEW f \in Frames, Repainted(f) PROVE MadeTyped'
  <2>1. Inputs(f) \in Seq(MadeEvents)
    BY <1>0, InputsTyped
  <2>2. Inputs(f) \in Seq(C)
    BY <1>0, <2>1, Widen
  <2>3. made' \in Seq(MadeEvents) /\ commands' \in Seq(C)
    BY <1>0, <1>3, <2>1, <2>2, ConcatProperties DEF Repainted
  <2> QED
    BY <1>3, <2>3 DEF MadeTyped, Kept
<1>4. CASE Kept /\ ui = "open" /\ (StopViewer(Farewell) \/ StopViewer(Releases(down)))
  <2>1. made' \in Seq(MadeEvents)
    BY <1>4, StopIs
  <2>2. commands \o Releases(down) \in Seq(C)
    BY <1>0, <1>4, StopIs, Widen
  <2> HIDE DEF C
  <2>3. Append(commands \o Releases(down), "stop") \in Seq(C)
    BY <1>0, <2>2, AppendProperties
  <2>4. commands' \in Seq(C)
    BY <1>4, <2>2, <2>3, StopIs
  <2> QED
    BY <1>4, <2>1, <2>4 DEF MadeTyped, Kept, C
<1> QED
  BY <1>1, <1>2, <1>3, <1>4, InputMoves DEF Idle, Kept, Polled

\* Nothing is added among what passes by what does not.
LEMMA StopNotPermitted == "stop" \notin PermittedEvents /\ "stop" \notin MadeEvents
  BY DEF PermittedEvents, MadeEvents, InputEvents, Down, Up

\* With the session what is permitted stays.
LEMMA PermittedStays == UNCHANGED session => PermittedEvents' = PermittedEvents
  BY DEF PermittedEvents, Permitted, Granted

\* What was made is what was sent, what is queued and what may not pass.
LEMMA ConveyedStep ==
  ASSUME TypeOK, MadeTyped, Staged, Flowing, [Next]_vars
  PROVE  Among(made', PermittedEvents') = SentEvents' \o Among(commands', PermittedEvents')
<1> DEFINE M == MadeEvents
           C == M \cup {"stop"}
           P == PermittedEvents
           conveyed == SentEvents
<1>0. /\ made \in Seq(M) /\ commands \in Seq(C) /\ SentEvents \in Seq(M)
      /\ down \in Seq(Sources) /\ modifier \in BOOLEAN
      /\ Among(made, P) = SentEvents \o Among(commands, P)
  BY SentEventsTyped DEF TypeOK, MadeTyped, Flowing
<1>1. M \subseteq C /\ "stop" \in C /\ "stop" \notin P
  BY StopNotPermitted
<1>2. made \in Seq(C) /\ SentEvents \in Seq(C)
  BY <1>0, <1>1, Widen
<1>3. UNCHANGED session => PermittedEvents' = P
  BY PermittedStays
<1>4. UNCHANGED sent => SentEvents' = SentEvents
  BY DEF SentEvents
<1> HIDE DEF C, P
<1>5. ASSUME UNCHANGED <<session, sent, made, commands>>
      PROVE  Among(made', PermittedEvents') = SentEvents' \o Among(commands', PermittedEvents')
  BY <1>0, <1>3, <1>4, <1>5
<1>6. CASE DrainCommands \/ SendRequest \/ ReceiveGrant
  <2>1. /\ made = <<>> /\ SentEvents = <<>> /\ ToSet(commands) \subseteq {"stop"}
        /\ UNCHANGED <<made, sent>> /\ commands' \in {commands, <<>>}
    <3>1. session.phase # "Active"
      BY <1>6, NotYet
    <3>2. made = <<>> /\ sent = <<>> /\ ToSet(commands) \subseteq {"stop"}
      BY <3>1 DEF Staged, Phased, Silent
    <3>3. SentEvents = <<>>
      <4>1. Len(SentEvents) = 0
        BY <3>2, SentEventsTyped, EmptySeq
      <4> QED
        BY <1>0, <4>1, EmptySeq
    <3> QED
      BY <1>6, <3>2, <3>3 DEF DrainCommands, SendRequest, ReceiveGrant, control, interface,
         capture
  <2>2. \A Q : "stop" \notin Q => Among(commands', Q) = <<>>
    <3>1. SUFFICES ASSUME NEW Q, "stop" \notin Q PROVE Among(commands', Q) = <<>>
      OBVIOUS
    <3>2. CASE commands' = <<>>
      BY <3>2, AmongEmpty
    <3>3. CASE commands' = commands
      <4>1. /\ Among(commands, Q) \in Seq(C)
            /\ ToSet(Among(commands, Q)) = ToSet(commands) \cap Q
        BY <1>0, AmongTyped
      <4>2. ToSet(commands) \cap Q = {}
        BY <2>1, <3>1
      <4> QED
        BY <3>3, <4>1, <4>2, ToSetEmpty
    <3> QED
      BY <2>1, <3>2, <3>3
  <2>3. "stop" \notin PermittedEvents'
    BY DEF PermittedEvents, InputEvents, Down, Up
  <2>4. Among(commands', PermittedEvents') = <<>> /\ Among(made', PermittedEvents') = <<>>
    BY <2>1, <2>2, <2>3, AmongEmpty
  <2>5. <<>> \o <<>> = <<>>
    BY EmptySeq, ConcatEmptySeq
  <2> QED
    BY <1>4, <2>1, <2>4, <2>5
<1>7. CASE TakeCommand \/ DiscardInput
  <2>1. UNCHANGED <<session, sent, made>> /\ commands # <<>>
        /\ (commands' = commands \/ (commands' = Tail(commands) /\ Head(commands) \notin P))
    <3>1. Head(commands) \in P => Permitted(Head(commands))
      BY DEF P, PermittedEvents
    <3> QED
      BY <1>1, <1>7, <3>1 DEF TakeCommand, DiscardInput, control, capture
  <2>2. Head(commands) \notin P => Among(commands, P) = Among(Tail(commands), P)
    BY <1>0, <2>1, AmongHead
  <2> QED
    BY <1>0, <1>3, <1>4, <2>1, <2>2
<1>8. CASE SendInput
  <2> DEFINE h == Head(commands)
             rest == Among(Tail(commands), P)
  <2>1. /\ commands # <<>> /\ h \in P /\ h \in M /\ Tail(commands) \in Seq(C)
        /\ commands' = Tail(commands) /\ SentEvents' = Append(SentEvents, h)
        /\ UNCHANGED <<session, made>>
    BY <1>8, SendIs DEF SendInput, capture, C, P
  <2>2. Among(commands, P) = <<h>> \o rest
    BY <1>0, <2>1, AmongHead
  <2>3. rest \in Seq(C)
    BY <2>1, AmongTyped
  <2>4. <<h>> \in Seq(C) /\ Append(SentEvents, h) = SentEvents \o <<h>>
    BY <1>0, <1>1, <2>1, AppendIsConcat
  <2>5. \A s, t, u \in Seq(C) : s \o (t \o u) = (s \o t) \o u
    BY ConcatAssociative
  <2> HIDE DEF rest, h
  <2>6. SentEvents \o (<<h>> \o rest) = (SentEvents \o <<h>>) \o rest
    BY <1>2, <2>3, <2>4, <2>5
  <2>7. Among(made', PermittedEvents') = SentEvents \o (<<h>> \o rest)
    BY <1>0, <1>3, <2>1, <2>2
  <2>8. SentEvents' \o Among(commands', PermittedEvents') = (SentEvents \o <<h>>) \o rest
    BY <1>3, <2>1, <2>4 DEF rest
  <2> QED
    BY <2>6, <2>7, <2>8
<1>9. ASSUME Kept, NEW more \in Seq(M), made' = made \o more,
             commands' = commands \o more \/ commands' = Append(commands \o more, "stop")
      PROVE  Among(made', PermittedEvents') = SentEvents' \o Among(commands', PermittedEvents')
  <2>1. more \in Seq(C)
    BY <1>1, <1>9, Widen
  <2>2. Among(made \o more, P) = Among(made, P) \o Among(more, P)
    BY <1>2, <2>1, AmongConcat
  <2>3. Among(commands \o more, P) = Among(commands, P) \o Among(more, P)
        /\ commands \o more \in Seq(C)
    BY <1>0, <2>1, AmongConcat, ConcatProperties
  <2>4. Among(Append(commands \o more, "stop"), P) = Among(commands \o more, P)
    <3> DEFINE q == commands \o more
    <3>1. q \in Seq(C)
      BY <2>3
    <3> HIDE DEF q
    <3>2. Among(Append(q, "stop"), P) = Among(q, P)
      BY <1>1, <3>1, AmongAppend
    <3> QED
      BY <3>2 DEF q
  <2>5. Among(commands, P) \in Seq(C) /\ Among(more, P) \in Seq(C)
    BY <1>0, <2>1, AmongTyped
  <2>6. \A s, t, u \in Seq(C) : s \o (t \o u) = (s \o t) \o u
    BY ConcatAssociative
  <2>7. UNCHANGED <<session, sent>>
    BY <1>9 DEF Kept
  <2>8. Among(commands', P) = Among(commands, P) \o Among(more, P)
    BY <1>9, <2>3, <2>4
  <2>9. Among(made', P) = (SentEvents \o Among(commands, P)) \o Among(more, P)
    BY <1>0, <1>9, <2>2
  <2>10. SentEvents \o (Among(commands, P) \o Among(more, P))
           = (SentEvents \o Among(commands, P)) \o Among(more, P)
    BY <1>2, <2>5, <2>6
  <2> QED
    BY <1>3, <1>4, <2>7, <2>8, <2>9, <2>10
<1>10. ASSUME Kept, NEW f \in Frames, Repainted(f)
       PROVE  Among(made', PermittedEvents') = SentEvents' \o Among(commands', PermittedEvents')
  <2>1. Inputs(f) \in Seq(M)
    BY <1>0, InputsTyped
  <2> QED
    BY <1>9, <1>10, <2>1 DEF Repainted
<1>11. CASE Kept /\ ui = "open" /\ (StopViewer(Farewell) \/ StopViewer(Releases(down)))
  BY <1>9, <1>11, StopIs
<1>12. CASE SayGoodbye
  BY <1>5, <1>12 DEF SayGoodbye, interface, capture
<1> QED
  BY <1>5, <1>6, <1>7, <1>8, <1>10, <1>11, <1>12, InputMoves DEF Idle, Kept, Polled, Working

\* What is queued behind others leaves the first of them first.
LEMMA FirstStays ==
  ASSUME NEW S, NEW s \in Seq(S), NEW t \in Seq(S), s # <<>>
  PROVE  s \o t # <<>> /\ Head(s \o t) = Head(s)
<1>1. s \o t \in Seq(S) /\ Len(s \o t) = Len(s) + Len(t) /\ (s \o t)[1] = s[1]
  <2>1. 1 \in 1..(Len(s) + Len(t)) /\ 1 <= Len(s)
    BY EmptySeq, LenProperties
  <2> QED
    BY <2>1, ConcatProperties
<1>2. Len(s) \in Nat /\ Len(s) # 0 /\ Len(t) \in Nat
  BY EmptySeq, LenProperties
<1>3. s \o t # <<>>
  BY <1>1, <1>2, EmptySeq
<1> QED
  BY <1>1, <1>3, HeadTailProperties

\* A sequence of user's inputs holds no Stop.
LEMMA NoStop ==
  ASSUME NEW s \in Seq(MadeEvents)
  PROVE  \A i \in 1..Len(s) : s[i] # "stop"
  BY StopNotPermitted, ElementOfSeq

\* Stop is the last command, and a worker that has taken it finds no other.
LEMMA StopLastStep ==
  ASSUME TypeOK, MadeTyped, Staged, Flowing, [Next]_vars
  PROVE  /\ \A i \in 1..Len(commands') : commands'[i] = "stop" => i = Len(commands') /\ ui' = "gone"
         /\ goodbye' \/ wpc' = "goodbye" => commands' = <<>> /\ ui' = "gone"
<1> DEFINE C == MadeEvents \cup {"stop"}
           StopLast(q, at) == \A i \in 1..Len(q) : q[i] = "stop" => i = Len(q) /\ at = "gone"
<1>0. commands \in Seq(C) /\ StopLast(commands, ui) /\ down \in Seq(Sources) /\ modifier \in BOOLEAN
      /\ (goodbye \/ wpc = "goodbye" => commands = <<>> /\ ui = "gone")
  BY DEF TypeOK, MadeTyped, Flowing
<1>1. StopLast(<<>>, ui)
  BY EmptySeq
<1>2. commands # <<>> => StopLast(Tail(commands), ui)
  <2>1. SUFFICES ASSUME commands # <<>>, NEW i \in 1..Len(Tail(commands)),
                        Tail(commands)[i] = "stop"
                 PROVE  i = Len(Tail(commands)) /\ ui = "gone"
    OBVIOUS
  <2>2. /\ Len(Tail(commands)) = Len(commands) - 1 /\ Len(commands) \in Nat
        /\ Tail(commands)[i] = commands[i + 1]
    BY <1>0, <2>1, HeadTailProperties, LenProperties
  <2>3. i + 1 \in 1..Len(commands) /\ commands[i + 1] = "stop"
    BY <2>1, <2>2
  <2>4. i + 1 = Len(commands) /\ ui = "gone"
    BY <1>0, <2>3
  <2> QED
    BY <2>2, <2>4
<1> HIDE DEF C
<1>3. ASSUME UNCHANGED <<commands, ui>>, goodbye' \/ wpc' = "goodbye" => goodbye \/ wpc = "goodbye"
      PROVE  StopLast(commands', ui') /\ (goodbye' \/ wpc' = "goodbye" => commands' = <<>> /\ ui' = "gone")
  BY <1>0, <1>3
<1>4. CASE Working
  <2>1. CASE DrainCommands
    <3>1. commands' = <<>> /\ UNCHANGED <<ui, goodbye>> /\ wpc' # "goodbye"
      BY <2>1, NotYet DEF DrainCommands, control
    <3> QED
      BY <1>0, <1>1, <3>1
  <2>2. CASE SendRequest \/ ReceiveGrant
    <3>1. UNCHANGED <<commands, ui, goodbye>> /\ wpc' # "goodbye"
      BY <2>2, NotYet DEF SendRequest, ReceiveGrant, interface
    <3> QED
      BY <1>3, <3>1
  <2>3. CASE TakeCommand
    <3>1. /\ commands # <<>> /\ UNCHANGED <<ui, goodbye>> /\ wpc # "goodbye"
          /\ \/ commands' = commands /\ wpc' # "goodbye"
             \/ commands' = Tail(commands) /\ Head(commands) = "stop"
      BY <2>3 DEF TakeCommand, control
    <3>2. CASE commands' = commands /\ wpc' # "goodbye"
      BY <1>3, <3>1, <3>2
    <3>3. CASE commands' = Tail(commands) /\ Head(commands) = "stop"
      <4>1. Head(commands) = commands[1] /\ Tail(commands) \in Seq(C)
            /\ Len(Tail(commands)) = Len(commands) - 1
            /\ 1 \in 1..Len(commands) /\ Len(commands) \in Nat
        BY <1>0, <3>1, HeadTailProperties, EmptySeq
      <4>2. Len(commands) = 1 /\ ui = "gone"
        BY <1>0, <3>3, <4>1
      <4>3. commands' = <<>>
        BY <3>3, <4>1, <4>2, EmptySeq
      <4> QED
        BY <1>1, <3>1, <4>2, <4>3
    <3> QED
      BY <3>1, <3>2, <3>3
  <2>4. CASE DiscardInput \/ SendInput
    <3>1. /\ commands # <<>> /\ commands' = Tail(commands) /\ UNCHANGED <<ui, goodbye>>
          /\ wpc' # "goodbye"
      <4>1. SendInput => commands # <<>>
        BY DEF SendInput, Flowing
      <4> QED
        BY <2>4, <4>1 DEF DiscardInput, SendInput, control, WorkerReturns
    <3> QED
      BY <1>0, <1>2, <3>1
  <2>5. CASE SayGoodbye
    <3>1. UNCHANGED <<commands, ui>> /\ wpc = "goodbye"
      BY <2>5 DEF SayGoodbye, interface
    <3> QED
      BY <1>3, <3>1
  <2> QED
    BY <1>4, <2>1, <2>2, <2>3, <2>4, <2>5 DEF Working
<1>5. ASSUME Kept, ui = "open", NEW more \in Seq(MadeEvents), commands' = commands \o more
      PROVE  StopLast(commands', ui') /\ (goodbye' \/ wpc' = "goodbye" => commands' = <<>> /\ ui' = "gone")
  <2>1. commands \in Seq(MadeEvents) /\ ~goodbye /\ wpc # "goodbye"
    BY <1>5, OpenQueue
  <2>2. commands' \in Seq(MadeEvents)
    BY <1>5, <2>1, ConcatProperties
  <2> QED
    BY <1>5, <2>1, <2>2, NoStop DEF Kept
<1>6. ASSUME Kept, NEW f \in Frames, Repainted(f)
      PROVE  StopLast(commands', ui') /\ (goodbye' \/ wpc' = "goodbye" => commands' = <<>> /\ ui' = "gone")
  <2>1. Inputs(f) \in Seq(MadeEvents)
    BY <1>0, InputsTyped
  <2> QED
    BY <1>5, <1>6, <2>1 DEF Repainted
<1>7. CASE Kept /\ ui = "open" /\ (StopViewer(Farewell) \/ StopViewer(Releases(down)))
  <2> DEFINE q == commands \o Releases(down)
  <2>1. /\ Releases(down) \in Seq(MadeEvents) /\ q \in Seq(MadeEvents) /\ ui' = "gone"
        /\ (commands' = q \/ commands' = Append(q, "stop"))
    BY <1>7, StopIs
  <2>2. CASE commands' = q
    BY <1>5, <1>7, <2>1, <2>2
  <2>3. CASE commands' = Append(q, "stop")
    <3> HIDE DEF q
    <3>1. q \in Seq(C) /\ "stop" \in C
      BY <2>1, Widen DEF C
    <3>2. Len(commands') = Len(q) + 1 /\ \A i \in 1..Len(q) : commands'[i] = q[i]
      BY <2>3, <3>1, AppendProperties
    <3>3. \A i \in 1..Len(q) : q[i] # "stop"
      BY <2>1, NoStop
    <3>4. Len(q) \in Nat
      BY <3>1, LenProperties
    <3>5. \A i \in 1..Len(commands') : i \in 1..Len(q) \/ i = Len(commands')
      BY <3>2, <3>4
    <3>6. ~goodbye /\ wpc # "goodbye"
      BY <1>7, OpenQueue
    <3> QED
      BY <1>7, <2>1, <3>2, <3>3, <3>5, <3>6 DEF Kept
  <2> QED
    BY <2>1, <2>2, <2>3
<1>8. CASE Idle
  BY <1>3, <1>8 DEF Idle
<1>9. CASE Kept /\ Polled
  BY <1>3, <1>9 DEF Kept, Polled
<1> QED
  BY <1>4, <1>6, <1>7, <1>8, <1>9, InputMoves

\* The input at hand stays at the head of the queue.
LEMMA HeadStep ==
  ASSUME TypeOK, MadeTyped, Staged, Flowing, [Next]_vars
  PROVE  wpc' = "input" => commands' # <<>> /\ Head(commands') \in PermittedEvents'
<1> DEFINE C == MadeEvents \cup {"stop"}
<1>0. commands \in Seq(C) /\ down \in Seq(Sources) /\ modifier \in BOOLEAN
      /\ (wpc = "input" => commands # <<>> /\ Head(commands) \in PermittedEvents)
      /\ (UNCHANGED session => PermittedEvents' = PermittedEvents)
  BY PermittedStays DEF TypeOK, MadeTyped, Flowing
<1>1. CASE Working
  <2>1. CASE DrainCommands \/ SendRequest \/ ReceiveGrant
    BY <2>1, NotYet
  <2>2. CASE TakeCommand
    <3>1. commands # <<>> => Head(commands) \in C
      BY <1>0, HeadTailProperties
    <3>2. wpc' = "input" => /\ commands # <<>> /\ UNCHANGED <<session, commands>>
                            /\ Head(commands) # "stop" /\ Permitted(Head(commands))
      BY <2>2 DEF TakeCommand, control
    <3> QED
      BY <1>0, <3>1, <3>2 DEF PermittedEvents, MadeEvents
  <2>3. CASE DiscardInput \/ SendInput \/ SayGoodbye
    BY <2>3 DEF DiscardInput, SendInput, SayGoodbye, WorkerReturns
  <2> QED
    BY <1>1, <2>1, <2>2, <2>3 DEF Working
<1>2. ASSUME Kept, NEW more \in Seq(C),
             commands' = commands \o more \/ commands' = Append(commands \o more, "stop")
      PROVE  wpc' = "input" => commands' # <<>> /\ Head(commands') \in PermittedEvents'
  <2>0. "stop" \in C
    OBVIOUS
  <2> HIDE DEF C
  <2>1. SUFFICES ASSUME wpc = "input"
                 PROVE  commands' # <<>> /\ Head(commands') \in PermittedEvents
    BY <1>0, <1>2 DEF Kept
  <2> DEFINE q == commands \o more
  <2>2. q \in Seq(C) /\ q # <<>> /\ Head(q) = Head(commands)
    BY <1>0, <1>2, <2>1, FirstStays, ConcatProperties
  <2> HIDE DEF q
  <2>3. Append(q, "stop") # <<>> /\ Head(Append(q, "stop")) = Head(q)
    <3>1. <<"stop">> \in Seq(C) /\ Append(q, "stop") = q \o <<"stop">>
      BY <2>0, <2>2, AppendIsConcat
    <3> QED
      BY <2>2, <3>1, FirstStays
  <2> QED
    BY <1>0, <1>2, <2>1, <2>2, <2>3 DEF q
<1>3. ASSUME Kept, NEW f \in Frames, Repainted(f)
      PROVE  wpc' = "input" => commands' # <<>> /\ Head(commands') \in PermittedEvents'
  <2>1. Inputs(f) \in Seq(C)
    BY <1>0, InputsTyped, Widen
  <2> QED
    BY <1>2, <1>3, <2>1 DEF Repainted
<1>4. CASE Kept /\ ui = "open" /\ (StopViewer(Farewell) \/ StopViewer(Releases(down)))
  <2>1. Releases(down) \in Seq(C)
    BY <1>4, StopIs, Widen
  <2> QED
    BY <1>2, <1>4, <2>1, StopIs
<1> QED
  BY <1>0, <1>1, <1>3, <1>4, InputMoves DEF Idle, Kept, Polled

\* The flow of inputs is kept.
LEMMA FlowingStep ==
  ASSUME TypeOK, MadeTyped, Staged, Flowing, [Next]_vars
  PROVE  Flowing'
  BY ConveyedStep, StopLastStep, HeadStep DEF Flowing

\* Inputs are numbered as they are sent, and each would be authorized.
LEMMA NumberedStep ==
  ASSUME TypeOK, MadeTyped, Staged, Granting, Numbered, Flowing, [Next]_vars
  PROVE  Numbered'
<1>0. Len(sent) \in Nat /\ MaxSequence \in Nat /\ sequence \in 0..MaxSequence
  BY SentEventsTyped, MaxSequenceIsNat DEF TypeOK
<1>1. ASSUME UNCHANGED <<session, sent, sequence>>, wpc \in OverPCs => wpc' \in OverPCs
      PROVE  Numbered'
  BY <1>1 DEF Numbered, MayAuthorize, HasActivePermission, Permitted, Granted
<1>2. CASE SendRequest \/ ReceiveGrant
  <2>1. sent = <<>> /\ UNCHANGED <<sent, sequence>>
    BY <1>2, NotYet DEF Staged, Phased, Silent, SendRequest, ReceiveGrant
  <2>2. Len(sent) = 0 /\ Len(sent') = 0
    BY <2>1, EmptySeq
  <2>3. sequence' = Len(sent')
    BY <1>0, <2>1, <2>2 DEF Numbered
  <2> QED
    BY <2>2, <2>3 DEF Numbered
<1>3. CASE SendInput
  <2> DEFINE input == InputOf(Head(commands))
             n == Len(sent)
             Fine(k, item) == MayAuthorize([session EXCEPT !.next = k], item) \/ k = MaxSequence
  <2>1. /\ sent' = Append(sent, input) /\ Head(commands) \in PermittedEvents \cap MadeEvents
        /\ UNCHANGED session
    BY <1>3, SendIs DEF SendInput
  <2>2. /\ Len(sent') = n + 1 /\ sent'[n + 1] = input
        /\ \A i \in 1..n : sent'[i] = sent[i]
    <3> DEFINE I == [session : {0, 1}, epoch : {0, 1}, sequence : 0..MaxSequence,
                     event : MadeEvents]
    <3>1. sent \in Seq(I) /\ input \in I
      BY <1>3, SendIs DEF MadeTyped
    <3> HIDE DEF I, input
    <3> QED
      BY <2>1, <3>1, AppendProperties
  <2>3. sequence = n /\ session.phase = "Active" /\ wpc = "input"
    BY <1>3 DEF SendInput, Numbered, Staged, Phased, Silent, EarlyPCs, OverPCs, SetupPCs, AwaitPCs
  <2>4. Fine(n, input) /\ Permitted(input.event)
    <3>1. /\ input.session = session.grant.session /\ input.epoch = session.grant.epoch
          /\ input.sequence = n /\ input.event = Head(commands)
      BY <2>3 DEF InputOf
    <3>2. /\ input.event # "keyZero" /\ RequiredPermission(input.event) \in session.grant.permissions
          /\ session.grant.session # 0 /\ session.grant.epoch # 0
      BY <2>1, <2>3, <3>1 DEF MadeEvents, PermittedEvents, Permitted, Granted, Granting
    <3> DEFINE s == [session EXCEPT !.next = n]
    <3>3. s.phase = "Active" /\ s.grant = session.grant /\ s.next = n
      BY <2>3 DEF TypeOK, Sessions
    <3> HIDE DEF s, input
    <3>4. n < MaxSequence \/ n = MaxSequence
      BY <1>0, <2>3
    <3>5. n < MaxSequence => MayAuthorize(s, input)
      BY <3>1, <3>2, <3>3 DEF MayAuthorize, ValidInput, HasActivePermission
    <3> QED
      BY <3>1, <3>2, <3>4, <3>5 DEF s, Permitted, Granted
  <2>5. \A i \in 1..n : Fine(i - 1, sent[i]) /\ Permitted(sent[i].event)
    BY DEF Numbered
  <2>6. session' = session /\ \A event : Permitted(event)' <=> Permitted(event)
    BY <2>1 DEF Permitted, Granted
  <2> HIDE DEF input, Fine
  <2>7. \A i \in 1..Len(sent') : Fine(i - 1, sent'[i]) /\ Permitted(sent'[i].event)
    <3>1. \A i \in 1..(n + 1) : i \in 1..n \/ (i = n + 1 /\ i - 1 = n)
      BY <1>0
    <3> QED
      BY <2>2, <2>4, <2>5, <3>1
  <2>8. sequence' = Len(sent') \/ (Len(sent') = MaxSequence + 1 /\ wpc' \in OverPCs)
    BY <1>0, <1>3, <2>2, <2>3 DEF SendInput, Exhausted, WorkerReturns, OverPCs
  <2> QED
    BY <2>6, <2>7, <2>8 DEF Numbered, Fine, Permitted, Granted
<1>4. CASE DrainCommands \/ TakeCommand \/ DiscardInput \/ SayGoodbye
  BY <1>1, <1>4 DEF DrainCommands, TakeCommand, DiscardInput, SayGoodbye, control, OverPCs,
     SetupPCs
<1> QED
  BY <1>1, <1>2, <1>3, <1>4, InputMoves DEF Idle, Kept, Polled, Working

\* Control is offered and used within what was asked for.
LEMMA GrantingStep ==
  ASSUME TypeOK, Staged, Granting, [Next]_vars
  PROVE  Granting'
<1>1. ASSUME UNCHANGED <<session, asked>>, enabled' => enabled \/ CanControl(Granted)
      PROVE  Granting'
  BY <1>1 DEF Granting, Granted, Request
<1>2. CASE SendRequest
  <2>1. session' = Registered(session, Request) /\ UNCHANGED <<asked, enabled>> /\ ~enabled
    BY <1>2, NotYet DEF SendRequest, interface, Staged, Phased, Silent
  <2>2. session'.phase = "AwaitingApproval" /\ session'.request = Request
    BY <2>1 DEF Registered, TypeOK, Sessions
  <2> QED
    BY <2>1, <2>2 DEF Granting, Request
<1>3. CASE ReceiveGrant
  <2>0. UNCHANGED <<asked, enabled>> /\ ~enabled
    BY <1>3, NotYet DEF ReceiveGrant, interface, Staged, Phased, Silent
  <2>1. CASE UNCHANGED session
    BY <1>1, <2>0, <2>1
  <2>2. ASSUME NEW grant, MayActivate(session, grant), session' = Activated(session, grant)
        PROVE  Granting'
    <3>1. session.phase = "AwaitingApproval" /\ session.request = Request
          /\ grant.permissions \subseteq Request.permissions
          /\ grant.session # 0 /\ grant.epoch # 0
      BY <2>2 DEF MayActivate, ValidGrant, Granting
    <3>2. session'.phase = "Active" /\ session'.grant = grant
      BY <2>2 DEF Activated, TypeOK, Sessions
    <3> QED
      BY <2>0, <3>1, <3>2 DEF Granting, Granted, Request
  <2> QED
    BY <1>3, <2>1, <2>2 DEF ReceiveGrant
<1>4. CASE DrainCommands \/ TakeCommand \/ DiscardInput \/ SendInput \/ SayGoodbye
  BY <1>1, <1>4 DEF DrainCommands, TakeCommand, DiscardInput, SendInput, SayGoodbye, control,
     interface
<1>5. CASE Kept /\ ui = "open" /\ (StopViewer(Farewell) \/ StopViewer(Releases(down)))
  BY <1>1, <1>5 DEF Kept, StopViewer
<1> QED
  BY <1>1, <1>2, <1>3, <1>4, <1>5, InputMoves DEF Idle, Kept, Polled, Repainted, Working

\* The interface knows what its inputs hold down.
LEMMA TrackingStep ==
  ASSUME TypeOK, MadeTyped, Staged, Flowing, Tracking, [Next]_vars
  PROVE  Tracking'
<1>0. /\ made \in Seq(MadeEvents) /\ down \in Seq(Sources) /\ modifier \in BOOLEAN
      /\ HeldBy(made) = ToSet(down)
  BY DEF TypeOK, MadeTyped, Tracking
<1>1. ASSUME UNCHANGED <<made, down, modifier, focus, ui>>, enabled' => enabled \/ ui = "open"
      PROVE  Tracking'
  BY <1>1 DEF Tracking, Focused, TypeOK
<1>2. CASE Working
  BY <1>1, <1>2 DEF Working, DrainCommands, SendRequest, ReceiveGrant, TakeCommand, DiscardInput,
     SendInput, SayGoodbye, interface, capture
<1>3. ASSUME Kept, NEW f \in Frames, Repainted(f) PROVE Tracking'
  <2>1. /\ HeldBy(made') = ToSet(down')
        /\ LosesFocus(f) /\ ~Focused(f) => ToSet(down') = {}
        /\ ~LosesFocus(f) /\ ~Focused(f) => ToSet(down') \ {"button"} = ToSet(down) \ {"button"}
        /\ ~LosesFocus(f) /\ Focused(f) =>
              ("shift" \in ToSet(down')
                 <=> IF f.shift = modifier THEN "shift" \in ToSet(down) ELSE f.shift)
    BY <1>0, <1>3, RepaintHolds DEF Repainted
  <2>2. focus' = [window |-> f.window, canvas |-> f.canvas] /\ modifier' = ModifierAfter(f)
        /\ ui = "open" /\ ui' = ui
    BY <1>3 DEF Repainted
  <2>3. focus'.window = f.window /\ (Focused(focus') <=> Focused(f))
    BY <2>2 DEF Focused
  <2>4. f.window \in BOOLEAN /\ f.canvas \in BOOLEAN /\ f.shift \in BOOLEAN
    BY DEF Frames
  <2>5. Focused(f) => ~LosesFocus(f)
    BY DEF Focused, LosesFocus
  <2>6. ~LosesFocus(f) /\ ~Focused(f) => f.window /\ ~Focused(focus)
    BY DEF LosesFocus
  <2>7. modifier <=> "shift" \in ToSet(down)
    BY DEF Tracking
  <2>8. ~Focused(focus) => ToSet(down) \subseteq {"button"}
    BY DEF Tracking
  <2>9. CASE Focused(f)
    <3>1. modifier' = f.shift
      BY <2>2, <2>9 DEF ModifierAfter
    <3>2. modifier' <=> "shift" \in ToSet(down')
      BY <1>0, <2>1, <2>4, <2>5, <2>7, <2>9, <3>1
    <3>3. focus'.window
      BY <2>3, <2>9 DEF Focused
    <3> QED
      BY <2>1, <2>2, <2>3, <2>9, <3>2, <3>3 DEF Tracking
  <2>10. CASE ~Focused(f) /\ LosesFocus(f)
    <3>1. modifier' = FALSE /\ ToSet(down') = {}
      BY <2>1, <2>2, <2>10 DEF ModifierAfter
    <3> QED
      BY <2>1, <2>2, <3>1 DEF Tracking
  <2>11. CASE ~Focused(f) /\ ~LosesFocus(f)
    <3>1. modifier' = modifier /\ f.window /\ ~Focused(focus)
      BY <2>2, <2>6, <2>11 DEF ModifierAfter
    <3>2. ToSet(down') \subseteq {"button"} /\ "shift" \notin ToSet(down) /\ "shift" \notin ToSet(down')
      BY <2>1, <2>8, <2>11, <3>1
    <3> QED
      BY <2>1, <2>2, <2>3, <2>7, <3>1, <3>2 DEF Tracking
  <2> QED
    BY <2>9, <2>10, <2>11
<1>4. CASE Kept /\ ui = "open" /\ (StopViewer(Farewell) \/ StopViewer(Releases(down)))
  <2>1. /\ made' = made \o Releases(down) /\ ui' = "gone" /\ enabled' = FALSE
        /\ down' = <<>> /\ modifier' = FALSE
    BY <1>4, StopIs
  <2>2. Up \subseteq MadeEvents
    BY DEF Up, MadeEvents, InputEvents
  <2>3. HeldBy(made') = {}
    BY <1>0, <2>1, <2>2, ReleasedAll
  <2>4. ToSet(down') = {}
    <3>1. <<>> \in Seq(Sources)
      BY EmptySeq
    <3> QED
      BY <2>1, <3>1, ToSetEmpty
  <2> QED
    BY <2>1, <2>3, <2>4 DEF Tracking
<1> QED
  BY <1>1, <1>2, <1>3, <1>4, InputMoves DEF Idle, Kept, Polled

-----------------------------------------------------------------------------
(* Events *)

\* What a step does to the events: nothing, a delivery, what the interface does,
\* or one thread is about to report something.
Unseen == UNCHANGED <<events, ui, told>>
WorkerReports(event) ==
  \/ event \in Terminal /\ wpc \notin OverPCs /\ wpc' = "ending"
  \/ event \in {"status", "active"} /\ wpc \notin OverPCs /\ wpc' \notin OverPCs
     /\ (event = "active" => session'.phase = "Active")

\* Nothing else happens to the events.
LEMMA EventMoves ==
  ASSUME TypeOK, [Next]_vars
  PROVE  \/ Unseen /\ UNCHANGED <<out, terminal>> /\ (wpc' \in OverPCs <=> wpc \in OverPCs)
         \/ \E t \in Threads : Deliver(t)
         \/ Poll \/ PressStop
         \/ Unseen /\ \E event \in Event : Emitted("worker", event) /\ WorkerReports(event)
         \/ Unseen /\ UNCHANGED wpc /\ rpc # "none"
            /\ \E event \in Terminal : Emitted("receiver", event)
<1> USE DEF OverPCs, Terminal, Event
<1>1. CASE WorkerStep \/ AdvanceSetup
  BY <1>1 DEF WorkerStep, Connect, DrainCommands, PollAgain, FailSetup, SendRequest,
     SpawnReceiver, CheckRunning, TakeCommand, DiscardInput, PollEnds, SendInput, FailInput,
     Keepalive, SendPing, FailPing, SayGoodbye, ClearRunning, ShutdownChannel, JoinReceiver,
     WorkerEnds, AdvanceSetup, WorkerReturns, SendFails, WorkerReports, Unseen, Awaiting,
     SetupPCs, AwaitPCs, interface, eventing
<1>2. CASE ReceiveGrant
  <2>1. wpc = "awaitGrant" /\ Unseen
    BY <1>2 DEF ReceiveGrant, Unseen, interface
  <2>2. CASE WorkerReturns("error")
    BY <2>1, <2>2 DEF WorkerReturns, WorkerReports
  <2>3. ASSUME NEW grant, session' = Activated(session, grant), wpc' = "spawn",
               Emitted("worker", "active")
        PROVE  \E event \in Event : Emitted("worker", event) /\ WorkerReports(event)
    <3>1. session'.phase = "Active"
      BY <2>3 DEF Activated, TypeOK, Sessions
    <3> QED
      BY <2>1, <2>3, <3>1 DEF WorkerReports
  <2> QED
    BY <1>2, <2>1, <2>2, <2>3 DEF ReceiveGrant
<1>3. CASE ReceiverStep \/ ReceiveTimeout
  <2>1. CASE Receive
    <3>1. inbox \in Seq({"frame", "ping", "disconnect", "bad"}) /\ inbox # <<>>
      BY <2>1 DEF TypeOK, Receive
    <3>2. Head(inbox) \in {"frame", "ping", "disconnect", "bad"}
      BY <3>1, HeadTailProperties
    <3>3. Unseen /\ UNCHANGED wpc /\ rpc # "none"
      BY <2>1 DEF Receive, Unseen, interface
    <3> QED
      BY <2>1, <3>2, <3>3 DEF Receive
  <2>2. CASE FailPong
    BY <2>2 DEF FailPong, Unseen, interface
  <2>3. CASE ReceiverLoop \/ ReceiveCut \/ ReceiveTimeout \/ SendPong \/ ReceiverStops
             \/ ReceiverCloses
    BY <2>3 DEF ReceiverLoop, ReceiveCut, FailReceive, ReceiveTimeout, SendPong, ReceiverStops,
       ReceiverCloses, Unseen, interface, eventing
  <2> QED
    BY <1>3, <2>1, <2>2, <2>3 DEF ReceiverStep
<1>4. CASE CaptureInput \/ HostSends \/ LoseConnection
  BY <1>4 DEF CaptureInput, HostSends, LoseConnection, Unseen, interface, eventing
<1>5. CASE UNCHANGED vars
  BY <1>5 DEF vars, Unseen
<1> QED
  BY <1>1, <1>2, <1>3, <1>4, <1>5 DEF Next

\* The bounded channel grows by what one thread was about to put there.
LEMMA DeliverIs ==
  ASSUME TypeOK, NEW t \in Threads, Deliver(t)
  PROVE  /\ out[t] \in Event
         /\ out' \in [Threads -> Event \cup {NoEvent}]
         /\ out'[t] = NoEvent /\ \A u \in Threads : u # t => out'[u] = out[u]
         /\ UNCHANGED <<terminal, ui, told, wpc, rpc, session>>
         /\ \/ ui = "gone" /\ events' = events
            \/ /\ ui = "open" /\ Len(events) < EventCapacity
               /\ events' = Append(events, out[t]) /\ events' \in Seq(Event)
               /\ Len(events') = Len(events) + 1
               /\ events'[Len(events) + 1] = out[t]
               /\ \A i \in 1..Len(events) : events'[i] = events[i]
               /\ ToSet(events') = ToSet(events) \cup {out[t]}
<1>1. out \in [Threads -> Event \cup {NoEvent}] /\ events \in Seq(Event)
  BY DEF TypeOK
<1>2. out[t] \in Event
  BY <1>1 DEF Deliver
<1>3. /\ Append(events, out[t]) \in Seq(Event)
      /\ Len(Append(events, out[t])) = Len(events) + 1
      /\ Append(events, out[t])[Len(events) + 1] = out[t]
      /\ \A i \in 1..Len(events) : Append(events, out[t])[i] = events[i]
      /\ ToSet(Append(events, out[t])) = ToSet(events) \cup {out[t]}
  BY <1>1, <1>2, AppendProperties, ToSetAppend
<1>4. out' = [out EXCEPT ![t] = NoEvent]
  BY DEF Deliver
<1>5. UNCHANGED <<terminal, ui, told, wpc, rpc, session>>
  BY DEF Deliver, control, interface
<1>6. out'[t] = NoEvent /\ (\A u \in Threads : u # t => out'[u] = out[u])
      /\ out' \in [Threads -> Event \cup {NoEvent}]
  BY <1>1, <1>4
<1>7. \/ ui = "gone" /\ events' = events
      \/ ui = "open" /\ Len(events) < EventCapacity /\ events' = Append(events, out[t])
  BY DEF Deliver
<1> QED
  BY <1>2, <1>3, <1>5, <1>6, <1>7

\* What is not among the events is at none of their places.
LEMMA EndPlaces ==
  ASSUME TypeOK
  PROVE  /\ ToSet(events) \cap Terminal = {} <=>
              \A i \in 1..Len(events) : events[i] \notin Terminal
         /\ DOMAIN events = 1..Len(events) /\ Len(events) \in Nat
<1>1. DOMAIN events = 1..Len(events) /\ Len(events) \in Nat
  BY LenProperties DEF TypeOK
<1> QED
  BY <1>1 DEF ToSet

\* The end is counted once.
LEMMA EndsCounted ==
  ASSUME TypeOK, Single
  PROVE  Cardinality({i \in DOMAIN events : events[i] \in Terminal})
           = IF ToSet(events) \cap Terminal = {} THEN 0 ELSE 1
<1> DEFINE ends == {i \in DOMAIN events : events[i] \in Terminal}
<1>1. CASE ToSet(events) \cap Terminal = {}
  <2>1. ends = {}
    BY <1>1, EndPlaces
  <2> QED
    BY <1>1, <2>1, FS_EmptySet
<1>2. CASE ToSet(events) \cap Terminal # {}
  <2>1. PICK i \in 1..Len(events) : events[i] \in Terminal
    BY <1>2, EndPlaces
  <2>2. ends = {i}
    BY <2>1, EndPlaces DEF Single
  <2> QED
    BY <1>2, <2>2, FS_Singleton
<1> QED
  BY <1>1, <1>2

\* The end of a session is in one place only.
LEMMA SingleStep ==
  ASSUME TypeOK, Staged, Single, [Next]_vars
  PROVE  Single'
<1>0. /\ out \in [Threads -> Event \cup {NoEvent}] /\ terminal \in BOOLEAN
      /\ NoEvent \notin Terminal /\ events \in Seq(Event) /\ ui \in {"open", "gone"}
      /\ Terminal \subseteq Event /\ told \in {0, 1}
      /\ "worker" \in Threads /\ "receiver" \in Threads
  BY DEF TypeOK, NoEvent, Terminal, Event, Threads, Single
<1>2. ASSUME NEW t \in Threads, Deliver(t) PROVE Single'
  <2>1. /\ UNCHANGED <<terminal, ui, told, wpc>> /\ out'[t] = NoEvent /\ out[t] \in Event
        /\ \A u \in Threads : u # t => out'[u] = out[u]
    BY <1>2, DeliverIs
  <2>2. CASE events' = events /\ ui = "gone"
    BY <1>0, <2>1, <2>2 DEF Single
  <2>3. CASE events' = Append(events, out[t]) /\ ui = "open"
    <3>1. /\ ToSet(events') = ToSet(events) \cup {out[t]} /\ Len(events') = Len(events) + 1
          /\ Len(events) \in Nat
          /\ events'[Len(events) + 1] = out[t]
          /\ \A i \in 1..Len(events) : events'[i] = events[i]
      BY <1>0, <1>2, <2>3, DeliverIs, LenProperties
    <3>2. \A i \in 1..Len(events') : i \in 1..Len(events) \/ i = Len(events) + 1
      BY <3>1
    <3>3. CASE out[t] \in Terminal
      <4>1. told = 0 /\ ToSet(events) \cap Terminal = {} /\ \A u \in Threads : out'[u] \notin Terminal
        BY <1>0, <2>1, <3>3 DEF Single
      <4>2. \A i \in 1..Len(events) : events[i] \notin Terminal
        BY <4>1, EndPlaces
      <4>3. \A i \in 1..Len(events') : events'[i] \in Terminal => i = Len(events) + 1
        BY <3>1, <3>2, <4>2
      <4>4. terminal /\ ToSet(events') \cap Terminal # {}
        BY <2>1, <3>1, <3>3 DEF Single
      <4> QED
        BY <1>0, <2>1, <2>3, <4>1, <4>3, <4>4 DEF Single
    <3>4. CASE out[t] \notin Terminal
      <4>1. ToSet(events') \cap Terminal = ToSet(events) \cap Terminal
        BY <3>1, <3>4
      <4>2. \A u \in Threads : out'[u] \in Terminal <=> out[u] \in Terminal
        BY <1>0, <2>1, <3>4
      <4>3. \A i \in 1..Len(events') : events'[i] \in Terminal =>
                i \in 1..Len(events) /\ events[i] \in Terminal
        BY <3>1, <3>2, <3>4
      <4>4. \A i, k \in 1..Len(events') :
                events'[i] \in Terminal /\ events'[k] \in Terminal => i = k
        BY <4>3 DEF Single
      <4> HIDE DEF Terminal
      <4> QED
        BY <1>0, <2>1, <4>1, <4>2, <4>4 DEF Single
    <3> QED
      BY <3>3, <3>4
  <2> QED
    BY <1>2, <2>2, <2>3, DeliverIs
<1>3. CASE Poll
  <2>1. /\ UNCHANGED <<out, terminal, wpc>> /\ events' = <<>> /\ ui = "open" /\ told = 0
        /\ ui' = IF ToSet(events) \cap Terminal = {} THEN "open" ELSE "gone"
    BY <1>0, <1>3 DEF Poll, StopViewer, Single, control
  <2>2. told' = IF ToSet(events) \cap Terminal = {} THEN 0 ELSE 1
    BY <1>3, <2>1, EndsCounted DEF Poll
  <2>3. ToSet(events') = {} /\ Len(events') = 0
    BY <1>0, <2>1, ToSetEmpty, EmptySeq
  <2>4. CASE ToSet(events) \cap Terminal = {}
    BY <1>0, <2>1, <2>2, <2>3, <2>4 DEF Single
  <2>5. CASE ToSet(events) \cap Terminal # {}
    <3>1. terminal /\ \A u \in Threads : out[u] \notin Terminal
      BY <1>0, <2>5 DEF Single
    <3> QED
      BY <1>0, <2>1, <2>2, <2>3, <2>5, <3>1 DEF Single
  <2> QED
    BY <2>4, <2>5
<1>4. CASE PressStop
  <2>1. UNCHANGED <<out, terminal, told, wpc>> /\ events' = <<>> /\ ui' = "gone"
    BY <1>4 DEF PressStop, StopViewer
  <2>2. ToSet(events') = {} /\ Len(events') = 0
    BY <1>0, <2>1, ToSetEmpty, EmptySeq
  <2> QED
    BY <1>0, <2>1, <2>2 DEF Single
<1>5. ASSUME Unseen, NEW t \in Threads, NEW event \in Terminal, Emitted(t, event),
             t = "worker" => wpc' \in OverPCs,
             t # "worker" => UNCHANGED wpc
      PROVE  Single'
  <2>1. CASE terminal
    <3>1. UNCHANGED <<out, terminal>>
      BY <1>0, <1>5, <2>1 DEF Emitted
    <3> QED
      BY <1>0, <1>5, <2>1, <3>1 DEF Single, Unseen
  <2>2. CASE ~terminal
    <3>1. terminal' = TRUE /\ out' = [out EXCEPT ![t] = event]
      BY <1>5, <2>2 DEF Emitted
    <3>2. out'[t] = event /\ \A u \in Threads : u # t => out'[u] = out[u]
      BY <1>0, <3>1
    <3>3. told = 0 /\ ToSet(events) \cap Terminal = {} /\ \A u \in Threads : out[u] \notin Terminal
      BY <2>2 DEF Single
    <3>4. out'["worker"] \in Terminal => wpc' \in OverPCs
      BY <1>0, <1>5, <3>2, <3>3
    <3> QED
      BY <1>0, <1>5, <2>2, <3>1, <3>2, <3>3, <3>4 DEF Single, Unseen
  <2> QED
    BY <2>1, <2>2
<1>6. ASSUME Unseen, NEW event \in Event, event \in {"status", "active"},
             Emitted("worker", event), wpc \notin OverPCs, wpc' \notin OverPCs
      PROVE  Single'
  <2>1. terminal' = terminal /\ out' = [out EXCEPT !["worker"] = event] /\ event \notin Terminal
    BY <1>6 DEF Emitted, Terminal
  <2>2. \A u \in Threads : out'[u] \in Terminal <=> out[u] \in Terminal
    BY <1>0, <1>6, <2>1 DEF Single
  <2> QED
    BY <1>0, <1>6, <2>1, <2>2 DEF Single, Unseen
<1>7. CASE Unseen /\ UNCHANGED <<out, terminal>> /\ (wpc' \in OverPCs <=> wpc \in OverPCs)
  BY <1>0, <1>7 DEF Single, Unseen
<1> QED
  <2>1. \A event : WorkerReports(event) => (event \in Terminal => wpc' \in OverPCs)
    BY DEF WorkerReports, OverPCs, Terminal
  <2> QED
    BY <1>0, <1>2, <1>3, <1>4, <1>5, <1>6, <1>7, <2>1, EventMoves DEF WorkerReports

-----------------------------------------------------------------------------
(* Before the grant *)

\* How a session gets on.
LEMMA SessionMoves ==
  ASSUME TypeOK, [Next]_vars
  PROVE  \/ UNCHANGED session
         \/ /\ SendRequest /\ session' = Registered(session, Request)
            /\ session.phase = "AwaitingRequest" /\ session'.phase = "AwaitingApproval"
         \/ /\ ReceiveGrant /\ wpc' = "spawn" /\ session'.phase = "Active"
            /\ \E id \in {1, 2}, permissions \in GrantSets :
                  LET grant == [request |-> id, session |-> 1, epoch |-> 1,
                                permissions |-> permissions]
                  IN  MayActivate(session, grant) /\ session' = Activated(session, grant)
<1>1. CASE SendRequest
  BY <1>1 DEF SendRequest, MayRegister, Registered, TypeOK, Sessions
<1>2. CASE ReceiveGrant
  <2>1. ASSUME NEW grant, session' = Activated(session, grant) PROVE session'.phase = "Active"
    BY <2>1 DEF Activated, TypeOK, Sessions
  <2> QED
    BY <1>2, <2>1 DEF ReceiveGrant
<1>3. CASE DrainCommands \/ TakeCommand \/ DiscardInput \/ SendInput \/ SayGoodbye
  BY <1>3 DEF DrainCommands, TakeCommand, DiscardInput, SendInput, SayGoodbye, control
<1> QED
  BY <1>1, <1>2, <1>3, InputMoves DEF Idle, Working, Kept

\* The worker comes to its places with the session.
LEMMA PhasedStep ==
  ASSUME TypeOK, Phased, [Next]_vars
  PROVE  Phased'
<1> USE DEF Phased, EarlyPCs, SetupPCs, AwaitPCs, OverPCs
<1>1. CASE SendRequest
  <2>1. session'.phase = "AwaitingApproval"
    BY <1>1 DEF SendRequest, Registered, TypeOK, Sessions
  <2> QED
    BY <1>1, <2>1 DEF SendRequest, WorkerReturns
<1>2. CASE ReceiveGrant
  <2>1. ASSUME NEW grant, session' = Activated(session, grant) PROVE session'.phase = "Active"
    BY <2>1 DEF Activated, TypeOK, Sessions
  <2> QED
    BY <1>2, <2>1 DEF ReceiveGrant, WorkerReturns
<1>3. CASE Connect \/ DrainCommands \/ PollAgain \/ FailSetup \/ AdvanceSetup
  BY <1>3 DEF Connect, DrainCommands, PollAgain, FailSetup, AdvanceSetup, WorkerReturns, Awaiting,
     control
<1>4. CASE \/ SpawnReceiver \/ CheckRunning \/ TakeCommand \/ DiscardInput \/ PollEnds
           \/ SendInput \/ FailInput \/ Keepalive \/ SendPing \/ FailPing \/ SayGoodbye
           \/ ClearRunning \/ ShutdownChannel \/ JoinReceiver \/ WorkerEnds
  BY <1>4 DEF SpawnReceiver, CheckRunning, TakeCommand, DiscardInput, PollEnds, SendInput,
     FailInput, Keepalive, SendPing, FailPing, SayGoodbye, ClearRunning, ShutdownChannel,
     JoinReceiver, WorkerEnds, WorkerReturns, SendFails, control
<1>5. ASSUME UNCHANGED <<wpc, session>> PROVE Phased'
  BY <1>5
<1>6. CASE ReceiverStep \/ ReceiveTimeout \/ CaptureInput \/ PressStop \/ Poll \/ HostSends
           \/ LoseConnection
  BY <1>5, <1>6 DEF ReceiverStep, ReceiverLoop, Receive, ReceiveCut, FailReceive, ReceiveTimeout,
     SendPong, FailPong, ReceiverStops, ReceiverCloses, CaptureInput, PressStop, Poll, HostSends,
     LoseConnection, control
<1>7. ASSUME NEW t \in Threads, Deliver(t) PROVE Phased'
  BY <1>5, <1>7 DEF Deliver, control
<1> QED
  BY <1>1, <1>2, <1>3, <1>4, <1>5, <1>6, <1>7 DEF Next, WorkerStep, vars

\* Who holds nothing has nothing to release.
LEMMA NothingToRelease ==
  ASSUME TypeOK, Tracking, made = <<>>
  PROVE  down = <<>> /\ Releases(down) = <<>>
<1>1. down \in Seq(Sources)
  BY DEF TypeOK
<1>2. ToSet(down) = {}
  BY HeldEmpty DEF Tracking
<1>3. down = <<>>
  BY <1>1, <1>2, ToSetEmpty
<1>4. Releases(down) \in Seq(Up) /\ {Source(e) : e \in ToSet(Releases(down))} = ToSet(down)
  BY <1>1, ReleasesAll
<1>5. ToSet(Releases(down)) = {}
  BY <1>2, <1>4
<1> QED
  BY <1>3, <1>4, <1>5, ToSetEmpty

\* Before the grant the interface makes nothing and the worker sends nothing.
LEMMA SilentStep ==
  ASSUME TypeOK, MadeTyped, Phased, Silent, Flowing, Tracking, "active" \notin ToSet(events),
         session.phase # "Active", [Next]_vars
  PROVE  Silent'
<1>0. /\ wpc \in EarlyPCs \cup OverPCs /\ ToSet(<<>>) = {}
      /\ commands \in Seq(MadeEvents \cup {"stop"})
  BY EmptySeq, ToSetEmpty DEF Phased, MadeTyped
<1>1. rpc' = "none"
  <2>1. wpc # "spawn"
    BY <1>0 DEF EarlyPCs, OverPCs, SetupPCs, AwaitPCs
  <2>2. UNCHANGED rpc
    BY <2>1 DEF Silent, Next, vars, WorkerStep, Connect, DrainCommands, PollAgain, FailSetup,
       SendRequest, SpawnReceiver, CheckRunning, TakeCommand, DiscardInput, PollEnds, SendInput,
       FailInput, Keepalive, SendPing, FailPing, SayGoodbye, ClearRunning, ShutdownChannel,
       JoinReceiver, WorkerEnds, AdvanceSetup, ReceiveGrant, ReceiverStep, ReceiverLoop,
       Receive, ReceiveCut, FailReceive, ReceiveTimeout, SendPong, FailPong, ReceiverStops,
       ReceiverCloses, Deliver, CaptureInput, PressStop, Poll, HostSends, LoseConnection
  <2> QED
    BY <2>2 DEF Silent
<1>2. ASSUME UNCHANGED <<made, sent>>, ~enabled', commands' \in {commands, <<>>} PROVE Silent'
  BY <1>0, <1>1, <1>2 DEF Silent
<1>3. CASE Working
  <2>1. CASE TakeCommand \/ DiscardInput \/ SendInput \/ SayGoodbye
    BY <1>0, <2>1 DEF TakeCommand, DiscardInput, SendInput, SayGoodbye, EarlyPCs, OverPCs,
       SetupPCs, AwaitPCs
  <2>2. CASE DrainCommands \/ SendRequest \/ ReceiveGrant
    BY <1>2, <2>2 DEF DrainCommands, SendRequest, ReceiveGrant, control, interface, capture,
       Silent
  <2> QED
    BY <1>3, <2>1, <2>2 DEF Working
<1>4. CASE Kept /\ ui = "open" /\ (StopViewer(Farewell) \/ StopViewer(Releases(down)))
  <2>1. Releases(down) = <<>> /\ made' = <<>> \o <<>> /\ ~enabled' /\ UNCHANGED sent
    BY <1>4, NothingToRelease DEF Kept, StopViewer, Silent
  <2>2. commands' = commands \/ commands' = Append(commands, "stop")
    <3>1. commands \o <<>> = commands
      BY <1>0, ConcatEmptySeq
    <3> QED
      BY <1>4, <2>1, <3>1, StopIs
  <2>3. ToSet(commands') \subseteq {"stop"}
    <3> DEFINE C == MadeEvents \cup {"stop"}
    <3>1. commands \in Seq(C) /\ "stop" \in C
      BY <1>0
    <3> HIDE DEF C
    <3>2. ToSet(Append(commands, "stop")) = ToSet(commands) \cup {"stop"}
      BY <3>1, ToSetAppend
    <3> QED
      BY <2>2, <3>2 DEF Silent
  <2>4. made' = <<>>
    BY <2>1, EmptySeq, ConcatEmptySeq
  <2> QED
    BY <1>1, <2>1, <2>3, <2>4 DEF Silent
<1>5. CASE Kept /\ Polled
  BY <1>2, <1>5 DEF Kept, Polled, Silent
<1> QED
  BY <1>2, <1>3, <1>4, <1>5, InputMoves DEF Idle, Repainted, Silent

\* Nobody says that the session is active before it is.
LEMMA UnannouncedStep ==
  ASSUME TypeOK, Unannounced, session'.phase # "Active", [Next]_vars
  PROVE  Unannounced'
<1> USE DEF Unannounced
<1>0. out \in [Threads -> Event \cup {NoEvent}] /\ "worker" \in Threads /\ "receiver" \in Threads
      /\ ToSet(<<>>) = {} /\ "active" \notin Terminal /\ "active" # NoEvent
  BY EmptySeq, ToSetEmpty DEF TypeOK, Threads, Terminal, NoEvent
<1>1. ASSUME NEW t \in Threads, Deliver(t)
      PROVE  Unannounced'
  <2>1. out[t] # "active"
    OBVIOUS
  <2>2. /\ out'[t] = NoEvent /\ \A u \in Threads : u # t => out'[u] = out[u]
        /\ \/ events' = events
           \/ ToSet(events') = ToSet(events) \cup {out[t]}
    BY <1>1, DeliverIs
  <2> QED
    BY <1>0, <2>1, <2>2
<1>2. CASE Poll \/ PressStop
  BY <1>0, <1>2 DEF Poll, PressStop
<1>3. ASSUME Unseen, NEW t \in Threads, NEW event \in Event, Emitted(t, event), event # "active"
      PROVE  Unannounced'
  <2>1. out' = out \/ out' = [out EXCEPT ![t] = event]
    BY <1>3 DEF Emitted
  <2> QED
    BY <1>0, <1>3, <2>1 DEF Unseen
<1>4. \A event : WorkerReports(event) => event # "active"
  BY <1>0 DEF WorkerReports
<1>5. Terminal \subseteq Event
  BY DEF Event
<1> QED
  BY <1>0, <1>1, <1>2, <1>3, <1>4, <1>5, EventMoves DEF Unseen

\* Before the grant there is nothing to send and nobody to send it.
LEMMA StagedStep ==
  ASSUME TypeOK, MadeTyped, Staged, Flowing, Tracking, [Next]_vars
  PROVE  Staged'
<1>1. Phased'
  BY PhasedStep DEF Staged
<1>2. session'.phase # "Active" => session.phase # "Active"
  BY SessionMoves
<1>3. session'.phase # "Active" => Silent'
  BY <1>2, SilentStep DEF Staged, Unannounced
<1>4. session'.phase # "Active" => Unannounced'
  BY <1>2, UnannouncedStep DEF Staged
<1> QED
  BY <1>1, <1>3, <1>4 DEF Staged

-----------------------------------------------------------------------------
(* The form of every variable *)

\* The program counters and the flags.
LEMMA PlacesTyped ==
  ASSUME TypeOK, [Next]_vars
  PROVE  /\ wpc' \in WorkerPCs /\ rpc' \in ReceiverPCs /\ ui' \in {"open", "gone"}
         /\ asked' \in BOOLEAN /\ goodbye' \in BOOLEAN
<1> USE DEF WorkerPCs, ReceiverPCs, SetupPCs, AwaitPCs
<1>0. wpc \in WorkerPCs /\ rpc \in ReceiverPCs /\ ui \in {"open", "gone"} /\ asked \in BOOLEAN
      /\ goodbye \in BOOLEAN
  BY DEF TypeOK
<1>1. CASE WorkerStep \/ AdvanceSetup \/ ReceiveGrant
  <2>1. UNCHANGED <<ui, asked>>
    BY <1>1 DEF WorkerStep, Connect, DrainCommands, PollAgain, FailSetup, SendRequest,
       SpawnReceiver, CheckRunning, TakeCommand, DiscardInput, PollEnds, SendInput, FailInput,
       Keepalive, SendPing, FailPing, SayGoodbye, ClearRunning, ShutdownChannel, JoinReceiver,
       WorkerEnds, AdvanceSetup, ReceiveGrant, interface
  <2>2. rpc' \in ReceiverPCs
    BY <1>0, <1>1 DEF WorkerStep, Connect, DrainCommands, PollAgain, FailSetup, SendRequest,
       SpawnReceiver, CheckRunning, TakeCommand, DiscardInput, PollEnds, SendInput, FailInput,
       Keepalive, SendPing, FailPing, SayGoodbye, ClearRunning, ShutdownChannel, JoinReceiver,
       WorkerEnds, AdvanceSetup, ReceiveGrant
  <2>3. wpc' \in WorkerPCs
    <3>1. CASE Connect \/ PollAgain \/ FailSetup \/ SendRequest \/ AdvanceSetup \/ ReceiveGrant
               \/ SpawnReceiver \/ CheckRunning \/ TakeCommand \/ DiscardInput \/ PollEnds
      BY <3>1 DEF Connect, PollAgain, FailSetup, SendRequest, AdvanceSetup, ReceiveGrant,
         SpawnReceiver, CheckRunning, TakeCommand, DiscardInput, PollEnds, WorkerReturns
    <3>2. CASE DrainCommands
      BY <3>2 DEF DrainCommands, WorkerReturns, Awaiting
    <3>3. CASE SendInput \/ FailInput \/ Keepalive \/ SendPing \/ FailPing \/ SayGoodbye
               \/ ClearRunning \/ ShutdownChannel \/ JoinReceiver \/ WorkerEnds
      BY <3>3 DEF SendInput, FailInput, Keepalive, SendPing, FailPing, SayGoodbye, ClearRunning,
         ShutdownChannel, JoinReceiver, WorkerEnds, WorkerReturns, SendFails
    <3> QED
      BY <1>1, <3>1, <3>2, <3>3 DEF WorkerStep
  <2>4. goodbye' \in BOOLEAN
    BY <1>0, <1>1 DEF WorkerStep, Connect, DrainCommands, PollAgain, FailSetup, SendRequest,
       SpawnReceiver, CheckRunning, TakeCommand, DiscardInput, PollEnds, SendInput, FailInput,
       Keepalive, SendPing, FailPing, SayGoodbye, ClearRunning, ShutdownChannel, JoinReceiver,
       WorkerEnds, AdvanceSetup, ReceiveGrant, control
  <2> QED
    BY <1>0, <2>1, <2>2, <2>3, <2>4
<1>2. CASE ReceiverStep \/ ReceiveTimeout
  <2>1. inbox # <<>> => Head(inbox) \in {"frame", "ping", "disconnect", "bad"}
    <3>1. inbox \in Seq({"frame", "ping", "disconnect", "bad"})
      BY DEF TypeOK
    <3> QED
      BY <3>1, HeadTailProperties
  <2>2. rpc' \in ReceiverPCs
    BY <1>2, <2>1 DEF ReceiverStep, ReceiverLoop, Receive, ReceiveCut, FailReceive,
       ReceiveTimeout, SendPong, FailPong, ReceiverStops, ReceiverCloses
  <2>3. UNCHANGED <<wpc, ui, asked, goodbye>>
    BY <1>2 DEF ReceiverStep, ReceiverLoop, Receive, ReceiveCut, FailReceive, ReceiveTimeout,
       SendPong, FailPong, ReceiverStops, ReceiverCloses, interface, control
  <2> QED
    BY <1>0, <2>2, <2>3
<1>3. CASE CaptureInput \/ PressStop \/ Poll \/ HostSends \/ LoseConnection
  BY <1>0, <1>3 DEF CaptureInput, PressStop, Poll, StopViewer, HostSends, LoseConnection,
     interface, control
<1>4. ASSUME NEW t \in Threads, Deliver(t) PROVE UNCHANGED <<wpc, rpc, ui, asked, goodbye>>
  BY <1>4 DEF Deliver, interface, control
<1>5. CASE UNCHANGED vars
  BY <1>0, <1>5 DEF vars
<1> QED
  BY <1>0, <1>1, <1>2, <1>3, <1>4, <1>5 DEF Next

\* What the threads share.
Flags == running \in BOOLEAN /\ closed \in BOOLEAN /\ lost \in BOOLEAN /\ terminal \in BOOLEAN

\* They stay flags.
LEMMA FlagsTyped ==
  ASSUME TypeOK, Flags, [Next]_vars
  PROVE  Flags'
<1> USE DEF Flags
<1>1. CASE WorkerStep \/ AdvanceSetup
  BY <1>1 DEF WorkerStep, Connect, DrainCommands, PollAgain, FailSetup, SendRequest,
     SpawnReceiver, CheckRunning, TakeCommand, DiscardInput, PollEnds, SendInput, FailInput,
     Keepalive, SendPing, FailPing, SayGoodbye, ClearRunning, ShutdownChannel, JoinReceiver,
     WorkerEnds, AdvanceSetup, WorkerReturns, SendFails, Emitted, channel, eventing
<1>2. CASE ReceiveGrant
  <2>1. running' = running /\ lost' = lost
    BY <1>2 DEF ReceiveGrant
  <2>2. closed' \in {closed, closed \/ rpc \in {"none", "done"}}
    BY <1>2 DEF ReceiveGrant, WorkerReturns
  <2>3. terminal' = terminal \/ terminal' = TRUE
    BY <1>2 DEF ReceiveGrant, WorkerReturns, Emitted
  <2> QED
    BY <2>1, <2>2, <2>3
<1>3. CASE ReceiverStep \/ ReceiveTimeout
  <2>1. CASE Receive
    <3>1. UNCHANGED <<running, closed, lost>>
      BY <2>1 DEF Receive
    <3>2. Head(inbox) \in {"frame", "ping", "disconnect", "bad"}
      <4>1. inbox \in Seq({"frame", "ping", "disconnect", "bad"}) /\ inbox # <<>>
        BY <2>1 DEF TypeOK, Receive
      <4> QED
        BY <4>1, HeadTailProperties
    <3>3. UNCHANGED terminal \/ Emitted("receiver", "stopped") \/ Emitted("receiver", "error")
      BY <2>1, <3>2 DEF Receive
    <3> QED
      BY <3>1, <3>3 DEF Emitted
  <2>2. CASE FailPong
    BY <2>2 DEF FailPong, Emitted
  <2>3. CASE ReceiverLoop \/ ReceiveCut \/ ReceiveTimeout \/ SendPong \/ ReceiverStops
             \/ ReceiverCloses
    BY <2>3 DEF ReceiverLoop, ReceiveCut, FailReceive, ReceiveTimeout, SendPong, ReceiverStops,
       ReceiverCloses, channel, eventing
  <2> QED
    BY <1>3, <2>1, <2>2, <2>3 DEF ReceiverStep
<1>4. ASSUME NEW t \in Threads, Deliver(t) PROVE Flags'
  BY <1>4 DEF Deliver, channel
<1>5. CASE CaptureInput \/ PressStop \/ Poll \/ HostSends \/ LoseConnection
  BY <1>5 DEF CaptureInput, PressStop, Poll, HostSends, LoseConnection, channel, eventing
<1>6. CASE UNCHANGED vars
  BY <1>6 DEF vars
<1> QED
  BY <1>1, <1>2, <1>3, <1>4, <1>5, <1>6 DEF Next

\* The messages of the host, and how many there were.
LEMMA InboxTyped ==
  ASSUME TypeOK, [Next]_vars
  PROVE  inbox' \in Seq({"frame", "ping", "disconnect", "bad"}) /\ received' \in 0..MaxMessages
<1> DEFINE M == {"frame", "ping", "disconnect", "bad"}
<1>0. inbox \in Seq(M) /\ received \in 0..MaxMessages
  BY DEF TypeOK
<1> HIDE DEF M
<1>1. CASE UNCHANGED <<inbox, received>>
  BY <1>0, <1>1 DEF M
<1>2. CASE Receive
  <2>1. inbox # <<>> /\ inbox' = Tail(inbox) /\ UNCHANGED received
    BY <1>2 DEF Receive
  <2>2. Tail(inbox) \in Seq(M)
    BY <1>0, <2>1, HeadTailProperties
  <2> QED
    BY <1>0, <2>1, <2>2 DEF M
<1>3. CASE HostSends
  <2>1. PICK m \in M : inbox' = Append(inbox, m)
    BY <1>3 DEF HostSends, M
  <2>2. Append(inbox, m) \in Seq(M)
    BY <1>0, AppendProperties
  <2>3. received' = received + 1 /\ received < MaxMessages
    BY <1>3 DEF HostSends
  <2>4. received' \in 0..MaxMessages
    BY <1>0, <2>3, BoundsAreNat
  <2> QED
    BY <2>1, <2>2, <2>4 DEF M
<1>4. ASSUME NEW t \in Threads, Deliver(t) PROVE UNCHANGED <<inbox, received>>
  BY <1>4 DEF Deliver, channel
<1>5. CASE WorkerStep \/ AdvanceSetup \/ ReceiveGrant
  BY <1>1, <1>5 DEF WorkerStep, Connect, DrainCommands, PollAgain, FailSetup, SendRequest,
     SpawnReceiver, CheckRunning, TakeCommand, DiscardInput, PollEnds, SendInput, FailInput,
     Keepalive, SendPing, FailPing, SayGoodbye, ClearRunning, ShutdownChannel, JoinReceiver,
     WorkerEnds, AdvanceSetup, ReceiveGrant, channel
<1>6. CASE \/ ReceiverLoop \/ ReceiveCut \/ ReceiveTimeout \/ SendPong \/ FailPong \/ ReceiverStops
           \/ ReceiverCloses \/ CaptureInput \/ PressStop \/ Poll \/ LoseConnection
  BY <1>1, <1>6 DEF ReceiverLoop, ReceiveCut, FailReceive, ReceiveTimeout, SendPong, FailPong,
     ReceiverStops, ReceiverCloses, CaptureInput, PressStop, Poll, LoseConnection, channel
<1>7. CASE UNCHANGED vars
  BY <1>1, <1>7 DEF vars
<1> QED
  BY <1>1, <1>2, <1>3, <1>4, <1>5, <1>6, <1>7 DEF Next, ReceiverStep

\* The session keeps its form.
LEMMA SessionTyped ==
  ASSUME TypeOK, [Next]_vars
  PROVE  session' \in Sessions
<1>0. session \in Sessions /\ asked \in BOOLEAN
  BY DEF TypeOK
<1> DEFINE Requests == [id : {0, 1}, permissions : SUBSET Permissions]
           Grants == [request : {0, 1}, session : {0, 1}, epoch : {0, 1},
                      permissions : SUBSET Permissions]
<1>1. Sessions = [phase : Phases, request : Requests, grant : Grants, next : 0..MaxSequence]
      /\ 0 \in 0..MaxSequence
  BY MaxSequenceIsNat DEF Sessions
<1>2. Request \in Requests
  BY <1>0 DEF Request, ViewAndControl, ViewOnly, Permissions
<1>3. Registered(session, Request) \in Sessions
  <2> HIDE DEF Requests, Grants
  <2> QED
    BY <1>0, <1>1, <1>2 DEF Registered, Phases
<1>4. ASSUME NEW id \in {1, 2}, NEW permissions \in GrantSets, NEW grant,
             grant = [request |-> id, session |-> 1, epoch |-> 1, permissions |-> permissions],
             MayActivate(session, grant)
      PROVE  Activated(session, grant) \in Sessions
  <2>1. grant.request = session.request.id /\ session.request.id \in {0, 1}
    BY <1>0, <1>4 DEF MayActivate, Sessions
  <2>2. permissions \in SUBSET Permissions
    BY GrantSetsAreSets
  <2>3. grant \in Grants
    BY <1>4, <2>1, <2>2
  <2> HIDE DEF Requests, Grants
  <2> QED
    BY <1>0, <1>1, <2>3 DEF Activated, Phases
<1> HIDE DEF Requests, Grants
<1> QED
  BY <1>0, <1>3, <1>4, SessionMoves

\* The number of the next input, while there is one.
LEMMA SequenceTyped ==
  ASSUME TypeOK, [Next]_vars
  PROVE  sequence' \in 0..MaxSequence
<1>0. sequence \in 0..MaxSequence /\ MaxSequence \in Nat
  BY MaxSequenceIsNat DEF TypeOK
<1>1. CASE SendInput
  BY <1>0, <1>1 DEF SendInput, Exhausted
<1>2. CASE DrainCommands \/ SendRequest \/ ReceiveGrant \/ TakeCommand \/ DiscardInput \/ SayGoodbye
  BY <1>0, <1>2 DEF DrainCommands, SendRequest, ReceiveGrant, TakeCommand, DiscardInput,
     SayGoodbye, control
<1> QED
  BY <1>0, <1>1, <1>2, InputMoves DEF Idle, Working, Kept

\* What the interface records of its repaints.
LEMMA CaptureTyped ==
  ASSUME TypeOK, [Next]_vars
  PROVE  /\ enabled' \in BOOLEAN /\ down' \in Seq(Sources) /\ modifier' \in BOOLEAN
         /\ focus' \in [window : BOOLEAN, canvas : BOOLEAN]
<1>0. /\ enabled \in BOOLEAN /\ down \in Seq(Sources) /\ modifier \in BOOLEAN
      /\ focus \in [window : BOOLEAN, canvas : BOOLEAN]
  BY DEF TypeOK
<1>1. CASE UNCHANGED <<enabled, down, modifier, focus>>
  BY <1>0, <1>1
<1>2. CASE Working
  BY <1>1, <1>2 DEF Working, DrainCommands, SendRequest, ReceiveGrant, TakeCommand, DiscardInput,
     SendInput, SayGoodbye, interface, capture
<1>3. ASSUME NEW f \in Frames, Repainted(f)
      PROVE  /\ enabled' \in BOOLEAN /\ down' \in Seq(Sources) /\ modifier' \in BOOLEAN
             /\ focus' \in [window : BOOLEAN, canvas : BOOLEAN]
  <2>1. Inputs(f) \in Seq(MadeEvents)
    BY <1>0, InputsTyped
  <2>2. AllTracked(down, Inputs(f)) \in Seq(Sources)
    BY <1>0, <2>1, AllTrackedTyped
  <2>3. ModifierAfter(f) \in BOOLEAN /\ f.window \in BOOLEAN /\ f.canvas \in BOOLEAN
    BY <1>0 DEF ModifierAfter, Frames
  <2> QED
    BY <1>0, <1>3, <2>2, <2>3 DEF Repainted
<1>4. CASE StopViewer(Farewell) \/ StopViewer(Releases(down))
  <2>1. enabled' = FALSE /\ down' = <<>> /\ modifier' = FALSE
        /\ focus' = [focus EXCEPT !.canvas = FALSE]
    BY <1>4 DEF StopViewer
  <2>2. <<>> \in Seq(Sources)
    BY EmptySeq
  <2> QED
    BY <1>0, <2>1, <2>2
<1>5. CASE Polled
  BY <1>0, <1>5 DEF Polled, CanControl
<1> QED
  BY <1>1, <1>2, <1>3, <1>4, <1>5, InputMoves DEF Idle

\* The event channel keeps within its capacity.
LEMMA EventsTyped ==
  ASSUME TypeOK, Staged, Single, [Next]_vars
  PROVE  /\ events' \in Seq(Event) /\ Len(events') <= EventCapacity
         /\ out' \in [Threads -> Event \cup {NoEvent}]
<1>0. /\ events \in Seq(Event) /\ Len(events) <= EventCapacity /\ Len(events) \in Nat
      /\ out \in [Threads -> Event \cup {NoEvent}] /\ EventCapacity = 4
      /\ "worker" \in Threads /\ "receiver" \in Threads /\ Terminal \subseteq Event
  BY LenProperties DEF TypeOK, EventCapacity, Threads, Event, Terminal
<1>1. ASSUME NEW t \in Threads, Deliver(t) PROVE
        /\ events' \in Seq(Event) /\ Len(events') <= EventCapacity
        /\ out' \in [Threads -> Event \cup {NoEvent}]
  <2>1. Len(events) < EventCapacity /\ Len(events') = Len(events) + 1
          => Len(events') <= EventCapacity
    BY <1>0
  <2> QED
    BY <1>0, <1>1, <2>1, DeliverIs
<1>2. CASE Poll \/ PressStop
  <2>1. events' = <<>> /\ out' = out
    BY <1>2 DEF Poll, PressStop
  <2> QED
    BY <1>0, <2>1, EmptySeq
<1>3. ASSUME Unseen, NEW t \in Threads, NEW event \in Event, Emitted(t, event) PROVE
        /\ events' \in Seq(Event) /\ Len(events') <= EventCapacity
        /\ out' \in [Threads -> Event \cup {NoEvent}]
  BY <1>0, <1>3 DEF Unseen, Emitted
<1>4. CASE Unseen /\ UNCHANGED out
  BY <1>0, <1>4 DEF Unseen
<1> QED
  BY <1>0, <1>1, <1>2, <1>3, <1>4, EventMoves

\* Every variable keeps its form.
LEMMA TypeStep ==
  ASSUME TypeOK, MadeTyped, Staged, Flowing, Single, [Next]_vars
  PROVE  TypeOK'
<1>1. Flags'
  BY FlagsTyped DEF TypeOK, Flags
<1>2. commands' \in Seq(InputEvents \cup {"stop"}) /\ made' \in Seq(InputEvents)
  <2>1. commands' \in Seq(MadeEvents \cup {"stop"}) /\ made' \in Seq(MadeEvents)
    BY MadeStep DEF MadeTyped
  <2>2. MadeEvents \cup {"stop"} \subseteq InputEvents \cup {"stop"} /\ MadeEvents \subseteq InputEvents
    BY DEF MadeEvents
  <2> HIDE DEF MadeEvents
  <2> QED
    BY <2>1, <2>2, Widen
<1>3. told' \in Nat
  BY SingleStep DEF Single
<1>4. {running', closed', lost', goodbye', asked', enabled', terminal'} \subseteq BOOLEAN
  BY <1>1, PlacesTyped, CaptureTyped DEF Flags
<1> QED
  BY <1>2, <1>3, <1>4, PlacesTyped, InboxTyped, SessionTyped, SequenceTyped, CaptureTyped,
     EventsTyped
  DEF TypeOK

-----------------------------------------------------------------------------
(* The theorems *)

\* A session starts with nothing asked of the host, made, queued, sent or told.
LEMMA ViewerInit == Init => ViewerInv
<1> SUFFICES ASSUME Init PROVE ViewerInv
  OBVIOUS
<1>0. /\ out = [t \in Threads |-> IF t = "worker" THEN "status" ELSE NoEvent]
      /\ events = <<>> /\ made = <<>> /\ commands = <<>> /\ sent = <<>> /\ inbox = <<>>
      /\ down = <<>> /\ Len(<<>>) = 0 /\ ToSet(<<>>) = {}
  BY EmptySeq, ToSetEmpty DEF Init
<1>1. session = NewSession /\ session.phase = "AwaitingRequest" /\ session \in Sessions
  BY MaxSequenceIsNat DEF Init, NewSession, NoRequest, NoGrant, Sessions, Phases, Permissions
<1>2. MadeTyped
  BY <1>0, EmptySeq DEF MadeTyped
<1>3. TypeOK
  <2>1. /\ inbox \in Seq({"frame", "ping", "disconnect", "bad"}) /\ made \in Seq(InputEvents)
        /\ commands \in Seq(InputEvents \cup {"stop"}) /\ events \in Seq(Event)
        /\ down \in Seq(Sources)
    BY <1>0, EmptySeq
  <2>2. out \in [Threads -> Event \cup {NoEvent}]
    BY <1>0 DEF Event
  <2>3. {running, closed, lost, goodbye, asked, enabled, terminal} \subseteq BOOLEAN
    BY DEF Init
  <2>4. focus \in [window : BOOLEAN, canvas : BOOLEAN] /\ modifier \in BOOLEAN
    BY DEF Init
  <2>5. Len(events) <= EventCapacity
    BY <1>0 DEF EventCapacity
  <2>6. received \in 0..MaxMessages /\ sequence \in 0..MaxSequence /\ told \in Nat
    BY BoundsAreNat, MaxSequenceIsNat DEF Init
  <2>7. wpc \in WorkerPCs /\ rpc \in ReceiverPCs /\ ui \in {"open", "gone"}
    BY DEF Init, WorkerPCs, ReceiverPCs
  <2> QED
    BY <1>1, <2>1, <2>2, <2>3, <2>4, <2>5, <2>6, <2>7 DEF TypeOK
<1>4. \A t \in Threads : out[t] \notin Terminal /\ out[t] # "active"
  BY <1>0 DEF Threads, Terminal, NoEvent
<1>5. Staged /\ Granting
  BY <1>0, <1>1, <1>4 DEF Init, Staged, Phased, Silent, Unannounced, Granting, EarlyPCs,
     SetupPCs, AwaitPCs, OverPCs
<1>6. SentEvents = <<>>
  <2>1. SentEvents \in Seq(MadeEvents) /\ Len(SentEvents) = 0
    BY <1>0, <1>2, SentEventsTyped
  <2> QED
    BY <2>1, EmptySeq
<1>7. Numbered
  BY <1>0 DEF Init, Numbered
<1>8. Flowing
  <2>1. Among(made, PermittedEvents) = <<>> /\ Among(commands, PermittedEvents) = <<>>
    BY <1>0, AmongEmpty
  <2>2. <<>> \o <<>> = <<>>
    BY EmptySeq, ConcatEmptySeq
  <2>3. Among(made, PermittedEvents) = SentEvents \o Among(commands, PermittedEvents)
    BY <1>6, <2>1, <2>2
  <2> QED
    BY <1>0, <2>3 DEF Init, Flowing
<1>9. Tracking
  <2>1. HeldBy(made) = {}
    BY <1>0, HeldEmpty
  <2> QED
    BY <1>0, <2>1 DEF Init, Tracking, Focused
<1>10. Single
  <2>1. "worker" \in Threads
    BY DEF Threads
  <2> QED
    BY <1>0, <1>4, <2>1 DEF Init, Single, OverPCs
<1> QED
  BY <1>2, <1>3, <1>5, <1>7, <1>8, <1>9, <1>10 DEF ViewerInv

\* Every step of a thread, of the interface, of the host and of the network keeps it.
LEMMA ViewerStep == ViewerInv /\ [Next]_vars => ViewerInv'
  BY TypeStep, MadeStep, StagedStep, GrantingStep, NumberedStep, FlowingStep, TrackingStep,
     SingleStep
  DEF ViewerInv

\* The invariant holds of every session.
THEOREM ViewerHolds == Spec => []ViewerInv
  BY ViewerInit, ViewerStep, PTL DEF Spec

\* Both threads are at one of their program counters, every queue holds what may be
\* put there, and the event channel never holds more than its capacity.
THEOREM ViewerTyped == Spec => []TypeOK
<1>1. ViewerInv => TypeOK
  BY DEF ViewerInv
<1> QED
  BY <1>1, ViewerHolds, PTL

\* What comes first of two sequences is a prefix of both.
LEMMA FirstIsPrefix ==
  ASSUME NEW S, NEW s \in Seq(S), NEW t \in Seq(S)
  PROVE  IsPrefix(s, s \o t)
<1>1. s \o t \in Seq(S) /\ Len(s \o t) = Len(s) + Len(t)
      /\ \A i \in 1..(Len(s) + Len(t)) : (s \o t)[i] = IF i <= Len(s) THEN s[i] ELSE t[i - Len(s)]
  BY ConcatProperties
<1>2. Len(s) \in Nat /\ Len(t) \in Nat
  BY LenProperties
<1>3. \A i \in 1..Len(s) : i \in 1..(Len(s) + Len(t)) /\ i <= Len(s)
  BY <1>2
<1>4. DOMAIN s = 1..Len(s) /\ DOMAIN (s \o t) = 1..(Len(s) + Len(t))
  BY <1>1, LenProperties
<1> QED
  BY <1>1, <1>2, <1>3, <1>4 DEF IsPrefix

\* The inputs that arrive are the user's, in order, as far as the grant allows, each
\* with the number the host expects, and none from a viewer that asked only to look.
LEMMA ExactFollows == ViewerInv => InputsExact
<1> SUFFICES ASSUME ViewerInv PROVE InputsExact
  OBVIOUS
<1> USE DEF ViewerInv
<1>1. \A i \in 1..Len(sent) :
        \/ MayAuthorize([session EXCEPT !.next = i - 1], sent[i])
        \/ i - 1 = MaxSequence
  BY DEF Numbered
<1>2. IsPrefix(SentEvents, Among(made, PermittedEvents))
  <2> DEFINE C == MadeEvents \cup {"stop"}
  <2>1. SentEvents \in Seq(C)
    BY SentEventsTyped, Widen
  <2>2. commands \in Seq(C)
    BY DEF MadeTyped
  <2> HIDE DEF C
  <2>3. Among(commands, PermittedEvents) \in Seq(C)
    BY <2>2, AmongTyped
  <2>4. \A s, t \in Seq(C) : IsPrefix(s, s \o t)
    BY FirstIsPrefix
  <2> QED
    BY <2>1, <2>3, <2>4 DEF Flowing
<1>3. enabled \/ sent # <<>> => asked
  <2>1. CASE enabled
    <3>1. session.phase = "Active" /\ CanControl(Granted)
      BY <2>1 DEF Staged, Phased, Silent, Granting
    <3> QED
      BY <3>1 DEF Granting, CanControl, Request, ViewOnly
  <2>2. CASE sent # <<>>
    <3>1. session.phase = "Active"
      BY <2>2 DEF Staged, Phased, Silent
    <3>2. 1 \in 1..Len(sent)
      <4>1. Len(sent) \in Nat
        BY SentEventsTyped
      <4>2. Len(sent) # 0
        BY <2>2, EmptySeq DEF MadeTyped
      <4> QED
        BY <4>1, <4>2
    <3>3. RequiredPermission(sent[1].event) \in Granted
      BY <3>2 DEF Numbered, Permitted
    <3>4. RequiredPermission(sent[1].event) \in Request.permissions
      BY <3>1, <3>3 DEF Granting
    <3> QED
      BY <3>4 DEF RequiredPermission, Request, ViewOnly
  <2> QED
    BY <2>1, <2>2
<1> QED
  BY <1>1, <1>2, <1>3 DEF InputsExact, PermittedEvents

\* The inputs that arrive at the host are the user's, in order and none left out but
\* for those the grant does not allow, and its session would authorize every one.
THEOREM InputsAreExact == Spec => []InputsExact
  BY ExactFollows, ViewerHolds, PTL

\* What passes the grant is released with what is made: it passes the press and the
\* release of a source alike.
LEMMA ReleasedFollows == ViewerInv => HeldInputReleased
<1> SUFFICES ASSUME ViewerInv PROVE HeldInputReleased
  OBVIOUS
<1>0. TypeOK /\ MadeTyped /\ Flowing /\ Tracking
  BY DEF ViewerInv
<1>1. ASSUME goodbye PROVE HeldBy(SentEvents) = {}
  <2>1. commands = <<>> /\ down = <<>>
    BY <1>0, <1>1 DEF Flowing, Tracking
  <2>2. Among(made, PermittedEvents) = SentEvents
    <3>1. Among(commands, PermittedEvents) = <<>>
      BY <2>1, AmongEmpty
    <3>2. SentEvents \in Seq(MadeEvents)
      BY <1>0, SentEventsTyped
    <3>3. SentEvents \o <<>> = SentEvents
      BY <3>2, ConcatEmptySeq
    <3> QED
      BY <1>0, <3>1, <3>3 DEF Flowing
  <2>3. HeldBy(made) = {}
    <3>1. <<>> \in Seq(Sources)
      BY EmptySeq
    <3>2. ToSet(down) = {}
      BY <2>1, <3>1, ToSetEmpty
    <3> QED
      BY <1>0, <3>2 DEF Tracking
  <2>4. \A d \in Down, u \in Up : Source(d) = Source(u) /\ d \in PermittedEvents
                                  => u \in PermittedEvents
    BY DEF Down, Up, Source, PermittedEvents, InputEvents, Permitted, RequiredPermission
  <2>5. HeldBy(Among(made, PermittedEvents)) \subseteq HeldBy(made)
    BY <1>0, <2>4, AmongHolds DEF MadeTyped
  <2> QED
    BY <2>2, <2>3, <2>5
<1> QED
  BY <1>0, <1>1 DEF Tracking, HeldInputReleased

\* The input of the user is released at the host by the time the viewer says goodbye,
\* and whatever the focus leaves, however the inputs are mixed and the queue is late.
THEOREM HeldIsReleased == Spec => []HeldInputReleased
  BY ReleasedFollows, ViewerHolds, PTL

\* One thread at most is about to report the end.
LEMMA EndsComing ==
  ASSUME Single
  PROVE  Cardinality({t \in Threads : out[t] \in Terminal})
           = IF \A t \in Threads : out[t] \notin Terminal THEN 0 ELSE 1
<1> DEFINE coming == {t \in Threads : out[t] \in Terminal}
<1>1. CASE \A t \in Threads : out[t] \notin Terminal
  <2>1. coming = {}
    BY <1>1
  <2> QED
    BY <1>1, <2>1, FS_EmptySet
<1>2. ASSUME NEW t \in Threads, out[t] \in Terminal PROVE Cardinality(coming) = 1
  <2>1. coming = {t}
    BY <1>2 DEF Single
  <2> QED
    BY <2>1, FS_Singleton
<1> QED
  BY <1>1, <1>2

\* Wherever the end is, it is there alone.
LEMMA OnceFollows == ViewerInv => ReportedOnce
<1> SUFFICES ASSUME ViewerInv PROVE ReportedOnce
  OBVIOUS
<1> DEFINE reports == {i \in DOMAIN events : events[i] \in Terminal}
           coming == {t \in Threads : out[t] \in Terminal}
<1>0. TypeOK /\ Single
  BY DEF ViewerInv
<1>1. Cardinality(reports) = IF ToSet(events) \cap Terminal = {} THEN 0 ELSE 1
  BY <1>0, EndsCounted
<1>2. Cardinality(coming) = IF \A t \in Threads : out[t] \notin Terminal THEN 0 ELSE 1
  BY <1>0, EndsComing
<1>3. ToSet(events) \cap Terminal # {} => reports # {}
  BY <1>0, EndPlaces
<1>4. (\E t \in Threads : out[t] \in Terminal) => coming # {}
  OBVIOUS
<1> HIDE DEF reports, coming
<1>5. told + Cardinality(reports) + Cardinality(coming) <= 1
  <2>1. CASE \E t \in Threads : out[t] \in Terminal
    <3>1. told = 0 /\ ToSet(events) \cap Terminal = {}
      BY <1>0, <2>1 DEF Single
    <3> QED
      BY <1>1, <1>2, <3>1
  <2>2. CASE \A t \in Threads : out[t] \notin Terminal
    <3>1. told \in {0, 1} /\ (ToSet(events) \cap Terminal # {} => told = 0)
      BY <1>0 DEF Single
    <3> QED
      BY <1>1, <1>2, <2>2, <3>1
  <2> QED
    BY <2>1, <2>2
<1>6. wpc = "ended" /\ ui = "open" => reports # {} \/ coming # {}
  BY <1>0, <1>3, <1>4 DEF Single, OverPCs
<1> QED
  BY <1>5, <1>6 DEF ReportedOnce, reports, coming

\* The interface is told the end of a session once, and a worker does not end without
\* telling it, whichever thread finds the end first.
THEOREM EndIsReportedOnce == Spec => []ReportedOnce
  BY OnceFollows, ViewerHolds, PTL

-----------------------------------------------------------------------------
(* Frames on their way *)

\* A message of the two kinds.
FrameMessages ==
  [kind : {"start"}, frame : Nat, total : Nat, count : Nat]
    \cup [kind : {"chunk"}, frame : Nat, index : Nat, length : Nat]

\* Whatever the host sends: a frame is put together from its first chunk on, no
\* longer than announced.
Ordered(frame) == Len(frame.bytes) = frame.next
                  /\ \A k \in 1..Len(frame.bytes) : frame.bytes[k].index = k - 1
Gathered ==
  /\ pending # None => /\ Ordered(pending) /\ pending.next < pending.count
                       /\ Received(pending.bytes) <= pending.total
  /\ \A i \in 1..Len(published) :
        LET frame == published[i]
        IN  Ordered(frame) /\ frame.next = frame.count /\ Received(frame.bytes) = frame.total
  /\ slot # None => published # <<>> /\ slot = published[Len(published)]

\* The frames the capture thread has begun, and their sizes.
Begun == [f \in {f \in Nat : f < Len(captured) \/ (f = Len(captured) /\ sending # None)} |->
            IF f < Len(captured) THEN captured[f + 1] ELSE sending.size]

\* The capture thread has no more chunks to send than its frame has.
Sending ==
  /\ sending # None => sendPc = "run" /\ sending.next <= ChunkCount(sending.size)
  /\ sendPc = "run" => frameId = Len(captured)

\* What send_frame says of a frame of that size.
Says(m, size) ==
  /\ m.kind = "start" => m.total = size /\ m.count = ChunkCount(size)
  /\ m.kind = "chunk" => m.index < ChunkCount(size) /\ m.length = ChunkLength(size, m.index)

\* The place of a message: its frame, and how many messages of it came before.  Next
\* comes the rest of the frame, and then the next one.
Stamp(m) == <<m.frame, IF m.kind = "start" THEN 0 ELSE m.index + 1>>
After(p, size) == IF p[2] = ChunkCount(size) THEN <<p[1] + 1, 0>> ELSE <<p[1], p[2] + 1>>

\* Messages of the frames of these sizes that lead from one place to another.
Chain(queue, sizes, from, to) ==
  LET place(i) == IF i = 0 THEN from
                  ELSE After(Stamp(queue[i]), sizes[queue[i].frame])
  IN  /\ \A i \in 1..Len(queue) :
            /\ queue[i].frame \in DOMAIN sizes
            /\ Says(queue[i], sizes[queue[i].frame])
            /\ Stamp(queue[i]) = place(i - 1)
      /\ place(Len(queue)) = to

\* What is on its way leads from what was received to what was sent.
ToReceive == <<Len(published), IF pending = None THEN 0 ELSE pending.next + 1>>
ToSend == IF sending = None THEN <<Len(captured), 0>>
          ELSE After(<<Len(captured), sending.next>>, sending.size)
Chained == Chain(wire, Begun, ToReceive, ToSend)

\* What was received is what was captured.
Faithful ==
  /\ receivePc = "run"
  /\ pending # None => /\ pending.frame = Len(published) /\ pending.frame \in DOMAIN Begun
                       /\ pending.total = Begun[pending.frame]
                       /\ pending.count = ChunkCount(pending.total)
                       /\ Received(pending.bytes) = pending.next * ChunkSize
  /\ \A i \in 1..Len(published) :
        /\ published[i].frame = i - 1 /\ i - 1 \in DOMAIN Begun
        /\ published[i].total = Begun[i - 1]

\* The interface sees newer and newer frames.
Newer ==
  /\ \A i \in 1..Len(shown) : /\ shown[i].frame < Len(published)
                              /\ slot # None => shown[i].frame < slot.frame
  /\ \A i, k \in 1..Len(shown) : i < k => shown[i].frame < shown[k].frame

\* The state, and the messages on their way, have their types.
WireTyped == FrameTypeOK /\ wire \in Seq(FrameMessages)

FrameInv == /\ WireTyped /\ Gathered
            /\ honest => Sending /\ Chained /\ Faithful /\ Newer

\* A run through the chunks that sums up their lengths.
Sums(f, s) ==
  /\ f \in [0..Len(s) -> Nat]
  /\ f[0] = 0 /\ Received(s) = f[Len(s)]
  /\ \A i \in 1..Len(s) : f[i] = f[i - 1] + s[i].length

\* Received follows such a run.
LEMMA ReceivedRun ==
  ASSUME NEW s \in Seq(Pieces)
  PROVE  \E f : Sums(f, s)
<1> DEFINE n == Len(s)
           next(before, i) == before + s[i].length
           step == [i \in 1..n |-> [t \in Nat |-> next(t, i)]]
<1>1. n \in Nat /\ \A i \in 1..n : s[i].length \in Nat
  <2>1. n \in Nat /\ \A i \in 1..n : s[i] \in Pieces
    BY LenProperties, ElementOfSeq
  <2>2. \A piece \in Pieces : piece.length \in Nat
    BY SizesPositive DEF Pieces
  <2> QED
    BY <2>1, <2>2
<1>2. \A i \in 1..n, t \in Nat : next(t, i) \in Nat
  BY <1>1
<1> HIDE DEF next, n
<1>3. step \in [1..n -> [Nat -> Nat]] /\ \A i \in 1..n, t \in Nat : step[i][t] = next(t, i)
  BY <1>2
<1> HIDE DEF step
<1>4. PICK g : Repeats(g, Nat, 0, step, n)
  BY <1>1, <1>3, StepsRepeat
<1>5. \A i \in 0..n : i = 0 \/ (i \in 1..n /\ i - 1 \in 0..n)
  BY <1>1
<1>6. g = [i \in 0..n |-> IF i = 0 THEN 0 ELSE next(g[i - 1], i)]
  <2>1. \A i \in 0..n : g[i] = IF i = 0 THEN 0 ELSE next(g[i - 1], i)
    BY <1>3, <1>4, <1>5 DEF Repeats
  <2> QED
    BY <1>4, <2>1 DEF Repeats
<1> DEFINE f == CHOOSE f : f = [i \in 0..n |-> IF i = 0 THEN 0 ELSE next(f[i - 1], i)]
<1>7. f = [i \in 0..n |-> IF i = 0 THEN 0 ELSE next(f[i - 1], i)]
  BY <1>6
<1>8. Received(s) = f[n]
  BY DEF Received, next, n
<1> HIDE DEF f
<1>9. f[0] = 0 /\ \A i \in 1..n : f[i] = next(f[i - 1], i)
  BY <1>1, <1>5, <1>7
<1>10. f \in [0..n -> Nat]
  <2> DEFINE A == {k \in Nat : k <= n => f[k] \in Nat}
  <2>1. 0 \in A
    BY <1>1, <1>9
  <2>2. ASSUME NEW k \in Nat, k \in A PROVE k + 1 \in A
    <3>1. k + 1 <= n => k + 1 \in 1..n /\ (k + 1) - 1 = k /\ k <= n
      BY <1>1
    <3>2. k + 1 <= n => f[k + 1] = next(f[k], k + 1) /\ f[k] \in Nat
      BY <1>9, <2>2, <3>1
    <3>3. k + 1 <= n => f[k + 1] \in Nat
      BY <1>2, <3>1, <3>2
    <3> QED
      BY <3>3
  <2> HIDE DEF A
  <2>3. Nat \subseteq A
    BY <2>1, <2>2, NumberInduction
  <2>4. \A k \in 0..n : f[k] \in Nat
    BY <1>1, <2>3 DEF A
  <2> QED
    BY <1>7, <2>4
<1> QED
  BY <1>8, <1>9, <1>10 DEF n, next, Sums

\* One chunk more adds its length.
LEMMA ReceivedAppend ==
  ASSUME NEW s \in Seq(Pieces), NEW e \in Pieces
  PROVE  Received(Append(s, e)) = Received(s) + e.length
<1> DEFINE n == Len(s)
<1>1. /\ Append(s, e) \in Seq(Pieces) /\ Len(Append(s, e)) = n + 1 /\ n \in Nat
      /\ Append(s, e)[n + 1] = e /\ \A i \in 1..n : Append(s, e)[i] = s[i]
  BY AppendProperties, LenProperties
<1>2. PICK f : Sums(f, s)
  BY ReceivedRun
<1>3. PICK g : Sums(g, Append(s, e))
  BY <1>1, ReceivedRun
<1>4. \A i \in 1..n : i \in 1..(n + 1)
  BY <1>1
<1>5. Alike(f, g, n)
  BY <1>1, <1>2, <1>3, <1>4 DEF Sums, Alike
<1>6. f[n] = g[n]
  BY <1>1, <1>5, RunsAgree
<1>7. n + 1 \in 1..(n + 1) /\ (n + 1) - 1 = n
  BY <1>1
<1> QED
  BY <1>1, <1>2, <1>3, <1>6, <1>7 DEF Sums

\* Nothing is received with no chunk, and never less than nothing.
LEMMA ReceivedTyped ==
  Received(<<>>) = 0 /\ \A s \in Seq(Pieces) : Received(s) \in Nat
<1>1. <<>> \in Seq(Pieces) /\ Len(<<>>) = 0
  BY EmptySeq
<1>2. PICK f : Sums(f, <<>>)
  BY <1>1, ReceivedRun
<1>3. ASSUME NEW s \in Seq(Pieces) PROVE Received(s) \in Nat
  <2>1. PICK g : Sums(g, s)
    BY ReceivedRun
  <2>2. Len(s) \in 0..Len(s)
    BY LenProperties
  <2> QED
    BY <2>1, <2>2 DEF Sums
<1> QED
  BY <1>1, <1>2, <1>3 DEF Sums

-----------------------------------------------------------------------------
(* Chunks of a frame *)

\* Fewer chunks are no longer than more.
LEMMA Monotone ==
  ASSUME NEW i \in Nat, NEW k \in Nat, NEW size \in Nat, i <= k
  PROVE  i * size <= k * size /\ i * size \in Nat
<1>1. (k - i) \in Nat /\ (k - i) * size \in Nat
  OBVIOUS
<1>2. k * size = i * size + (k - i) * size
  OBVIOUS
<1>3. i * size \in Nat /\ k * size \in Nat
  OBVIOUS
<1> QED
  BY <1>1, <1>2, <1>3

\* A frame has as many chunks as it takes, and one less does not do; the largest frame
\* has no more than a frame may have.
LEMMA ChunksCover ==
  ASSUME NEW size \in 1..FrameSize
  PROVE  LET count == ChunkCount(size)
         IN  /\ count \in 1..MaxChunks /\ count \in Nat
             /\ count * ChunkSize >= size
             /\ (count - 1) * ChunkSize < size
<1> DEFINE n == size + ChunkSize - 1
           count == n \div ChunkSize
<1>1. ChunkSize \in Nat /\ ChunkSize > 0 /\ FrameSize \in Nat /\ size \in Nat /\ size > 0
  BY SizesPositive
<1>2. n \in Nat /\ n >= ChunkSize
  BY <1>1
<1> HIDE DEF n
<1>3. /\ count \in Int /\ n % ChunkSize \in Int /\ n % ChunkSize >= 0 /\ n % ChunkSize < ChunkSize
      /\ n = (ChunkSize * count) + (n % ChunkSize)
  BY <1>1, <1>2
<1> HIDE DEF count
<1>4. count * ChunkSize = ChunkSize * count /\ (count - 1) * ChunkSize = count * ChunkSize - ChunkSize
  BY <1>1, <1>3
<1>5. count * ChunkSize >= size /\ (count - 1) * ChunkSize < size
  BY <1>1, <1>2, <1>3, <1>4 DEF n
<1>6. count >= 1
  BY <1>1, <1>3, <1>5
<1>7. count <= MaxChunks
  <2>1. SUFFICES ASSUME ~(count <= MaxChunks) PROVE FALSE
    OBVIOUS
  <2>2. MaxChunks \in Nat /\ count - 1 \in Nat /\ MaxChunks <= count - 1
    BY <1>3, <1>6, <2>1, ChunksSuffice
  <2>3. MaxChunks * ChunkSize <= (count - 1) * ChunkSize
    BY <1>1, <2>2, Monotone
  <2>4. FrameSize <= MaxChunks * ChunkSize
    BY <1>1, <2>2, ChunksSuffice
  <2> QED
    BY <1>1, <1>5, <2>2, <2>3, <2>4
<1> QED
  BY <1>3, <1>5, <1>6, <1>7, ChunksSuffice DEF ChunkCount, count, n

\* There are bytes left as long as there are chunks left.
LEMMA ChunksLeft ==
  ASSUME NEW size \in 1..FrameSize, NEW i \in Nat
  PROVE  i * ChunkSize < size <=> i < ChunkCount(size)
<1> DEFINE count == ChunkCount(size)
<1>1. /\ count \in Nat /\ count >= 1 /\ count * ChunkSize >= size
      /\ (count - 1) * ChunkSize < size
  BY ChunksCover
<1>2. ChunkSize \in Nat /\ size \in Nat /\ count - 1 \in Nat
  BY <1>1, SizesPositive
<1> HIDE DEF count
<1>3. CASE i < count
  <2>1. i <= count - 1
    BY <1>1, <1>3
  <2>2. i * ChunkSize <= (count - 1) * ChunkSize /\ i * ChunkSize \in Nat
    BY <1>2, <2>1, Monotone
  <2>3. (count - 1) * ChunkSize \in Int
    BY <1>2
  <2>4. i * ChunkSize < size
    BY <1>1, <1>2, <2>2, <2>3
  <2> QED
    BY <1>3, <2>4 DEF count
<1>4. CASE ~(i < count)
  <2>1. count <= i
    BY <1>1, <1>4
  <2>2. count * ChunkSize <= i * ChunkSize /\ count * ChunkSize \in Nat
    BY <1>1, <1>2, <2>1, Monotone
  <2>3. i * ChunkSize \in Nat
    BY <1>2
  <2>4. ~(i * ChunkSize < size)
    BY <1>1, <1>2, <2>2, <2>3
  <2> QED
    BY <1>4, <2>4 DEF count
<1> QED
  BY <1>3, <1>4

\* Every chunk but the last is full, and the last ends with the frame.
LEMMA ChunkLengths ==
  ASSUME NEW size \in 1..FrameSize, NEW i \in Nat, i < ChunkCount(size)
  PROVE  /\ ChunkLength(size, i) \in 1..ChunkSize
         /\ i * ChunkSize \in Nat
         /\ i + 1 < ChunkCount(size) =>
              /\ i * ChunkSize + ChunkLength(size, i) = (i + 1) * ChunkSize
              /\ (i + 1) * ChunkSize <= size
         /\ i + 1 = ChunkCount(size) => i * ChunkSize + ChunkLength(size, i) = size
<1>1. ChunkSize \in Nat /\ ChunkSize > 0 /\ size \in Nat /\ i + 1 \in Nat
      /\ ChunkCount(size) \in Nat
  BY SizesPositive, ChunksCover
<1>2. i * ChunkSize < size
  BY ChunksLeft
<1>3. i * ChunkSize \in Nat /\ (i + 1) * ChunkSize = i * ChunkSize + ChunkSize
  BY <1>1
<1>4. (i + 1) * ChunkSize < size <=> i + 1 < ChunkCount(size)
  BY <1>1, ChunksLeft
<1>5. i + 1 = ChunkCount(size) => (i + 1) * ChunkSize >= size
  BY ChunksCover
<1> DEFINE gone == i * ChunkSize
           next == (i + 1) * ChunkSize
<1>6. gone \in Nat /\ next = gone + ChunkSize /\ gone < size
  BY <1>2, <1>3
<1>7. ChunkLength(size, i) = IF next <= size THEN ChunkSize ELSE size - gone
  BY DEF ChunkLength
<1> HIDE DEF gone, next
<1>8. ChunkLength(size, i) \in 1..ChunkSize
  BY <1>1, <1>6, <1>7
<1>9. next < size => gone + ChunkLength(size, i) = next /\ next <= size
  BY <1>1, <1>6, <1>7
<1>10. next >= size => gone + ChunkLength(size, i) = size
  BY <1>1, <1>6, <1>7
<1> QED
  BY <1>3, <1>4, <1>5, <1>8, <1>9, <1>10 DEF gone, next

-----------------------------------------------------------------------------
(* Types *)

\* A message is one of the two kinds.
LEMMA KindsOf ==
  ASSUME NEW m \in FrameMessages
  PROVE  /\ m.kind \in {"start", "chunk"} /\ m.frame \in Nat
         /\ m.kind = "start" => m.total \in Nat /\ m.count \in Nat
         /\ m.kind = "chunk" => m.index \in Nat /\ m.length \in Nat
  BY DEF FrameMessages

\* What the host makes is a message.
LEMMA MadeMessages ==
  ASSUME NEW f \in Nat, NEW x \in Nat, NEW y \in Nat
  PROVE  FrameStart(f, x, y) \in FrameMessages /\ FrameChunk(f, x, y) \in FrameMessages
  BY DEF FrameStart, FrameChunk, FrameMessages

\* A frame that is being sent or put together is one.
LEMMA FramesAre ==
  FrameTypeOK => /\ sending # None => sending.size \in 1..FrameSize /\ sending.next \in Nat
                 /\ pending # None => pending \in PendingFrames
                 /\ slot # None => slot \in PendingFrames
  BY DEF FrameTypeOK

\* A chunk that is taken adds one piece to the frame.
LEMMA PushedIs ==
  ASSUME pending \in PendingFrames, NEW m \in FrameMessages, m.kind = "chunk", Valid(m)
  PROVE  /\ Pushed(m) \in PendingFrames
         /\ Pushed(m).frame = pending.frame /\ Pushed(m).total = pending.total
         /\ Pushed(m).count = pending.count /\ Pushed(m).next = pending.next + 1
         /\ Pushed(m).bytes = Append(pending.bytes, [index |-> m.index, length |-> m.length])
         /\ Received(Pushed(m).bytes) = Received(pending.bytes) + m.length
<1> DEFINE piece == [index |-> m.index, length |-> m.length]
<1>1. piece \in Pieces /\ piece.length = m.length
  BY KindsOf DEF Valid, Pieces
<1>2. /\ pending.frame \in Nat /\ pending.total \in 1..FrameSize /\ pending.count \in 1..MaxChunks
      /\ pending.next \in Nat /\ pending.bytes \in Seq(Pieces)
      /\ DOMAIN pending = {"frame", "total", "count", "next", "bytes"}
  BY DEF PendingFrames
<1>3. \A s \in Seq(Pieces), e \in Pieces :
         Append(s, e) \in Seq(Pieces) /\ Received(Append(s, e)) = Received(s) + e.length
  BY AppendProperties, ReceivedAppend
<1>4. Append(pending.bytes, piece) \in Seq(Pieces)
      /\ Received(Append(pending.bytes, piece)) = Received(pending.bytes) + m.length
  BY <1>1, <1>2, <1>3
<1>5. Pushed(m) = [frame |-> pending.frame, total |-> pending.total, count |-> pending.count,
                   next |-> pending.next + 1, bytes |-> Append(pending.bytes, piece)]
  <2>1. \A n \in Nat, b \in Seq(Pieces) :
           [pending EXCEPT !.next = n, !.bytes = b]
             = [frame |-> pending.frame, total |-> pending.total, count |-> pending.count,
                next |-> n, bytes |-> b]
    <3> DEFINE S == Seq(Pieces)
               F == [frame : Nat, total : 1..FrameSize, count : 1..MaxChunks, next : Nat,
                     bytes : S]
    <3>1. pending \in F
      BY DEF PendingFrames
    <3> HIDE DEF S
    <3>2. \A n \in Nat, b \in S :
             [pending EXCEPT !.next = n, !.bytes = b]
               = [[pending EXCEPT !.next = n] EXCEPT !.bytes = b]
      BY <3>1
    <3>3. \A q \in F, b \in S :
             [q EXCEPT !.bytes = b] = [frame |-> q.frame, total |-> q.total, count |-> q.count,
                                       next |-> q.next, bytes |-> b]
      OBVIOUS
    <3>4. \A n \in Nat : LET q == [pending EXCEPT !.next = n]
                         IN  /\ q \in F /\ q.next = n /\ q.frame = pending.frame
                             /\ q.total = pending.total /\ q.count = pending.count
      BY <3>1
    <3> HIDE DEF F
    <3>5. \A n \in Nat, b \in S :
             [pending EXCEPT !.next = n, !.bytes = b]
               = [frame |-> pending.frame, total |-> pending.total, count |-> pending.count,
                  next |-> n, bytes |-> b]
      BY <3>2, <3>3, <3>4
    <3> QED
      BY <3>5 DEF S
  <2>2. Pushed(m) = [pending EXCEPT !.next = pending.next + 1,
                                    !.bytes = Append(pending.bytes, piece)]
    BY DEF Pushed
  <2> QED
    BY <1>2, <1>4, <2>1, <2>2
<1> HIDE DEF piece
<1>6. Pushed(m) \in PendingFrames
  BY <1>2, <1>4, <1>5 DEF PendingFrames
<1> QED
  BY <1>4, <1>5, <1>6 DEF piece

\* A start begins an empty frame.
LEMMA StartedIs ==
  ASSUME NEW m \in FrameMessages, m.kind = "start", Valid(m)
  PROVE  Started(m) \in PendingFrames /\ Started(m) # None /\ Len(Started(m).bytes) = 0
<1>1. <<>> \in Seq(Pieces) /\ Len(<<>>) = 0
  BY EmptySeq
<1>2. m.frame \in Nat /\ m.total \in 1..FrameSize /\ m.count \in 1..MaxChunks
  BY KindsOf DEF Valid
<1>3. Started(m) \in PendingFrames
  BY <1>1, <1>2 DEF Started, PendingFrames
<1> QED
  BY <1>1, <1>3 DEF Started, None

\* No frame is None.
LEMMA FramesExist == None \notin PendingFrames
  BY DEF None, PendingFrames

\* When a message ends the session: a host that follows send_frame sends JPEGs.
Refuses(m) ==
  \/ ~honest \/ ~Valid(m)
  \/ m.kind = "chunk" /\ (~Fits(m) \/ (Complete(Pushed(m)) /\ ~Whole(Pushed(m))))

\* What happens when the first message is received.
Takes(m) ==
  \/ /\ Valid(m) /\ m.kind = "start" /\ pending' = Started(m)
     /\ UNCHANGED <<slot, published, receivePc>>
  \/ /\ Valid(m) /\ m.kind = "chunk" /\ Fits(m) /\ ~Complete(Pushed(m))
     /\ pending' = Pushed(m) /\ UNCHANGED <<slot, published, receivePc>>
  \/ /\ Valid(m) /\ m.kind = "chunk" /\ Fits(m) /\ Complete(Pushed(m)) /\ Whole(Pushed(m))
     /\ Publish(Pushed(m)) /\ pending' = None /\ UNCHANGED receivePc
  \/ Refuses(m) /\ Reject

\* It is taken from the channel.
LEMMA ReceiveTakes ==
  ASSUME wire \in Seq(FrameMessages), ReceiveMessage
  PROVE  /\ wire # <<>> /\ wire[1] \in FrameMessages /\ Takes(wire[1])
         /\ wire' \in Seq(FrameMessages) /\ Len(wire') = Len(wire) - 1 /\ Len(wire) \in Nat \ {0}
         /\ \A i \in 1..Len(wire') : wire'[i] = wire[i + 1]
         /\ UNCHANGED <<hostVars, shown>>
<1>1. wire # <<>> /\ wire' = Tail(wire) /\ Takes(Head(wire)) /\ UNCHANGED <<hostVars, shown>>
  BY DEF ReceiveMessage, Takes, Refuses
<1>2. Head(wire) = wire[1]
  BY <1>1
<1>3. /\ Head(wire) \in FrameMessages /\ Tail(wire) \in Seq(FrameMessages)
      /\ Len(Tail(wire)) = Len(wire) - 1 /\ Len(wire) \in Nat \ {0}
      /\ \A i \in 1..Len(Tail(wire)) : Tail(wire)[i] = wire[i + 1]
  BY <1>1, HeadTailProperties, EmptySeq
<1> QED
  BY <1>1, <1>2, <1>3

\* What is sent comes last.
Adds(m) == wire' = Append(wire, m) /\ Len(wire) < Capacity

LEMMA AddsOne ==
  ASSUME wire \in Seq(FrameMessages), NEW m \in FrameMessages, Adds(m)
  PROVE  /\ wire' \in Seq(FrameMessages) /\ Len(wire') = Len(wire) + 1 /\ Len(wire) \in Nat
         /\ wire'[Len(wire) + 1] = m /\ \A i \in 1..Len(wire) : wire'[i] = wire[i]
  BY AppendProperties, LenProperties DEF Adds

\* The messages of send_frame.
LEMMA BeginIs ==
  ASSUME FrameTypeOK, BeginFrame
  PROVE  /\ honest /\ sendPc = "run" /\ sending = None
         /\ UNCHANGED <<honest, frameId, captured, messages, viewerVars>>
         /\ \/ \E size \in 1..FrameSize :
                 /\ FrameStart(frameId, size, ChunkCount(size)) \in FrameMessages
                 /\ Adds(FrameStart(frameId, size, ChunkCount(size)))
                 /\ sending' = [size |-> size, next |-> 0] /\ UNCHANGED sendPc
            \/ sendPc' = "failed" /\ UNCHANGED <<wire, sending>>
<1>1. ASSUME NEW size \in 1..FrameSize
      PROVE  FrameStart(frameId, size, ChunkCount(size)) \in FrameMessages
  <2>1. frameId \in Nat /\ size \in Nat /\ ChunkCount(size) \in Nat
    BY SizesAreNat, ChunksCover DEF FrameTypeOK
  <2> QED
    BY <2>1, MadeMessages
<1> QED
  BY <1>1 DEF BeginFrame, Sendable, Room, Adds

LEMMA ChunkSentIs ==
  ASSUME FrameTypeOK, SendChunk
  PROVE  LET m == FrameChunk(frameId, sending.next, ChunkLength(sending.size, sending.next))
         IN  /\ sending # None /\ sending.size \in 1..FrameSize /\ sending.next \in Nat
             /\ sending.next < ChunkCount(sending.size)
             /\ m \in FrameMessages /\ Adds(m)
             /\ sending' = [size |-> sending.size, next |-> sending.next + 1]
             /\ UNCHANGED <<honest, frameId, captured, messages, sendPc, viewerVars>>
<1>1. sending # None /\ sending \in [size : 1..FrameSize, next : Nat]
  BY DEF SendChunk, FrameTypeOK
<1>2. sending.size \in 1..FrameSize /\ sending.next \in Nat
  BY <1>1
<1>3. sending.next < ChunkCount(sending.size)
  BY <1>2, ChunksLeft DEF SendChunk
<1>4. frameId \in Nat /\ ChunkLength(sending.size, sending.next) \in Nat
  <2>1. ChunkLength(sending.size, sending.next) \in 1..ChunkSize
    BY <1>2, <1>3, ChunkLengths
  <2> QED
    BY <2>1, SizesAreNat, SizesPositive DEF FrameTypeOK
<1>5. FrameChunk(frameId, sending.next, ChunkLength(sending.size, sending.next)) \in FrameMessages
  BY <1>2, <1>4, MadeMessages
<1>6. sending' = [size |-> sending.size, next |-> sending.next + 1]
  BY <1>1 DEF SendChunk
<1> QED
  BY <1>1, <1>2, <1>3, <1>5, <1>6 DEF SendChunk, Room, Adds

\* What another host sends is a message too.
LEMMA ForgedIs ==
  ASSUME FrameTypeOK, SendAnything
  PROVE  /\ ~honest /\ messages < MaxForged /\ messages' = messages + 1
         /\ \E m \in FrameMessages : Adds(m)
         /\ UNCHANGED <<honest, sending, frameId, captured, sendPc, viewerVars>>
<1>1. PICK f \in {0, 1}, x \in 0..(MaxChunks + 1), y \in 0..(FrameSize + 1) :
         Adds(FrameStart(f, y, x)) \/ Adds(FrameChunk(f, x, y))
  BY DEF SendAnything, Room, Adds
<1>2. f \in Nat /\ x \in Nat /\ y \in Nat
  OBVIOUS
<1> QED
  BY <1>1, <1>2, MadeMessages DEF SendAnything

\* A step keeps the types.
LEMMA FrameTypeStep ==
  ASSUME WireTyped, FrameNext
  PROVE  WireTyped'
<1>1. FrameTypeOK /\ wire \in Seq(FrameMessages)
  BY DEF WireTyped
<1>2. \A s \in Seq(PendingFrames), f \in PendingFrames : Append(s, f) \in Seq(PendingFrames)
  BY AppendProperties
<1>3. Capacity \in Nat /\ MaxForged \in Nat /\ LastFrame \in Nat
  BY FrameBoundsAreNat, SizesAreNat
<1>4. CASE BeginFrame
  <2>1. CASE wire' = wire
    BY <1>1, <1>4, <2>1, BeginIs DEF WireTyped, FrameTypeOK, viewerVars, None
  <2>2. CASE wire' # wire
    <3>1. PICK size \in 1..FrameSize :
            /\ FrameStart(frameId, size, ChunkCount(size)) \in FrameMessages
            /\ Adds(FrameStart(frameId, size, ChunkCount(size)))
            /\ sending' = [size |-> size, next |-> 0] /\ UNCHANGED sendPc
      BY <1>1, <1>4, <2>2, BeginIs
    <3>2. wire' \in Seq(FrameMessages) /\ Len(wire') <= Capacity
      BY <1>1, <1>3, <3>1, AddsOne DEF Adds
    <3>3. sending' \in [size : 1..FrameSize, next : Nat]
      BY <3>1
    <3> QED
      BY <1>1, <1>4, <3>1, <3>2, <3>3, BeginIs DEF WireTyped, FrameTypeOK, viewerVars
  <2> QED
    BY <2>1, <2>2
<1>5. CASE SendChunk
  <2> DEFINE m == FrameChunk(frameId, sending.next, ChunkLength(sending.size, sending.next))
  <2>1. /\ m \in FrameMessages /\ Adds(m) /\ sending.size \in 1..FrameSize /\ sending.next \in Nat
        /\ sending' = [size |-> sending.size, next |-> sending.next + 1]
        /\ UNCHANGED <<honest, frameId, captured, messages, sendPc, viewerVars>>
    BY <1>1, <1>5, ChunkSentIs
  <2> HIDE DEF m
  <2>2. wire' \in Seq(FrameMessages) /\ Len(wire') <= Capacity
    BY <1>1, <1>3, <2>1, AddsOne DEF Adds
  <2>3. sending' \in [size : 1..FrameSize, next : Nat]
    BY <2>1
  <2> QED
    BY <1>1, <2>1, <2>2, <2>3 DEF WireTyped, FrameTypeOK, viewerVars
<1>6. CASE EndFrame
  <2>1. sending.size \in 1..FrameSize
    BY <1>1, <1>6, FramesAre DEF EndFrame
  <2> DEFINE S == 1..FrameSize
  <2> HIDE DEF S
  <2>2. \A s \in Seq(S), x \in S : Append(s, x) \in Seq(S)
    BY AppendProperties
  <2>3. captured' \in Seq(1..FrameSize)
    BY <1>1, <1>6, <2>1, <2>2 DEF EndFrame, FrameTypeOK, S
  <2>4. frameId' \in 0..LastFrame /\ sendPc' \in {"run", "failed"}
    BY <1>1, <1>3, <1>6 DEF EndFrame, FrameTypeOK
  <2> QED
    BY <1>1, <1>6, <2>3, <2>4 DEF EndFrame, WireTyped, FrameTypeOK, viewerVars
<1>7. CASE SendAnything
  <2>1. PICK m \in FrameMessages : Adds(m)
    BY <1>1, <1>7, ForgedIs
  <2>2. wire' \in Seq(FrameMessages) /\ Len(wire') <= Capacity
    BY <1>1, <1>3, <2>1, AddsOne DEF Adds
  <2>3. messages' \in 0..MaxForged
    BY <1>1, <1>3, <1>7, ForgedIs DEF FrameTypeOK
  <2> QED
    BY <1>1, <1>7, <2>2, <2>3, ForgedIs DEF WireTyped, FrameTypeOK, viewerVars
<1>8. CASE ReceiveMessage
  <2> DEFINE m == wire[1]
  <2>1. /\ m \in FrameMessages /\ Takes(m) /\ wire' \in Seq(FrameMessages)
        /\ Len(wire') = Len(wire) - 1 /\ Len(wire) \in Nat /\ UNCHANGED <<hostVars, shown>>
    BY <1>1, <1>8, ReceiveTakes
  <2> HIDE DEF m
  <2>2. Len(wire') <= Capacity
    BY <1>1, <1>3, <2>1 DEF FrameTypeOK
  <2>3. pending' \in {None} \cup PendingFrames /\ slot' \in {None} \cup PendingFrames
        /\ published' \in Seq(PendingFrames) /\ receivePc' \in {"run", "rejected"}
    <3>1. CASE m.kind = "start" /\ Valid(m)
      BY <1>1, <2>1, <3>1, StartedIs DEF Takes, Reject, FrameTypeOK
    <3>2. CASE m.kind = "chunk" /\ Valid(m) /\ Fits(m)
      <4>1. Pushed(m) \in PendingFrames
        BY <1>1, <2>1, <3>2, FramesAre, PushedIs DEF Fits
      <4> QED
        BY <1>1, <1>2, <2>1, <3>2, <4>1 DEF Takes, Reject, Publish, FrameTypeOK
    <3>3. CASE Reject
      BY <1>1, <3>3 DEF Reject, FrameTypeOK
    <3> QED
      BY <2>1, <3>1, <3>2, <3>3 DEF Takes
  <2> QED
    BY <1>1, <2>1, <2>2, <2>3 DEF WireTyped, FrameTypeOK, hostVars
<1>9. CASE Show
  <2>1. shown' \in Seq(PendingFrames)
    BY <1>1, <1>2, <1>9, FramesAre DEF Show, FrameTypeOK
  <2> QED
    BY <1>1, <1>9, <2>1 DEF Show, WireTyped, FrameTypeOK, hostVars
<1> QED
  BY <1>4, <1>5, <1>6, <1>7, <1>8, <1>9 DEF FrameNext

-----------------------------------------------------------------------------
(* Whatever the host sends *)

\* A step of the sender, or of the interface, leaves what is put together alone.
LEMMA AssemblyStays ==
  FrameNext => ReceiveMessage \/ UNCHANGED <<pending, published, receivePc>>
  BY DEF FrameNext, BeginFrame, SendChunk, EndFrame, SendAnything, Show, viewerVars

\* A frame is put together in its order.
LEMMA OrderedStep ==
  ASSUME pending \in PendingFrames, Ordered(pending), NEW m \in FrameMessages,
         m.kind = "chunk", Valid(m), Fits(m)
  PROVE  Ordered(Pushed(m))
<1> DEFINE piece == [index |-> m.index, length |-> m.length]
           s == pending.bytes
           t == Pushed(m).bytes
<1>1. t = Append(s, piece) /\ Pushed(m).next = pending.next + 1
  BY PushedIs
<1>2. s \in Seq(Pieces) /\ piece \in Pieces /\ piece.index = m.index /\ m.index = pending.next
  BY KindsOf DEF PendingFrames, Pieces, Valid, Fits
<1>3. Len(s) = pending.next /\ \A k \in 1..Len(s) : s[k].index = k - 1
  BY DEF Ordered
<1> HIDE DEF piece, s, t
<1>4. /\ Len(t) = Len(s) + 1 /\ t[Len(s) + 1] = piece /\ \A k \in 1..Len(s) : t[k] = s[k]
      /\ Len(s) \in Nat
  BY <1>1, <1>2, AppendProperties, LenProperties
<1>5. \A k \in 1..Len(t) : k \in 1..Len(s) \/ k = Len(s) + 1
  BY <1>4
<1>6. \A k \in 1..Len(t) : t[k].index = k - 1
  <2>1. \A k \in 1..Len(s) : t[k].index = k - 1
    BY <1>3, <1>4
  <2>2. t[Len(s) + 1].index = Len(s) /\ (Len(s) + 1) - 1 = Len(s)
    BY <1>2, <1>3, <1>4
  <2> QED
    BY <1>5, <2>1, <2>2
<1>7. Len(t) = Pushed(m).next
  BY <1>1, <1>3, <1>4
<1> QED
  BY <1>6, <1>7 DEF Ordered, t

\* A published frame is whole.
LEMMA GatheredStep ==
  ASSUME WireTyped, Gathered, FrameNext
  PROVE  Gathered'
<1>1. FrameTypeOK /\ wire \in Seq(FrameMessages)
  BY DEF WireTyped
<1>2. published \in Seq(PendingFrames) /\ Len(published) \in Nat
  BY <1>1, LenProperties DEF FrameTypeOK
<1>3. CASE UNCHANGED <<pending, slot, published>>
  BY <1>3 DEF Gathered, Ordered
<1>4. CASE slot' = None /\ UNCHANGED <<pending, published>>
  BY <1>4 DEF Gathered, Ordered
<1>5. CASE ReceiveMessage
  <2> DEFINE m == wire[1]
  <2>1. m \in FrameMessages /\ Takes(m)
    BY <1>1, <1>5, ReceiveTakes
  <2> HIDE DEF m
  <2>2. CASE Valid(m) /\ m.kind = "start" /\ pending' = Started(m)
             /\ UNCHANGED <<slot, published>>
    <3>1. Len(Started(m).bytes) = 0 /\ Started(m) \in PendingFrames
      BY <2>1, <2>2, StartedIs
    <3>2. /\ Started(m).next = 0 /\ Started(m).count = m.count /\ Started(m).bytes = <<>>
          /\ Started(m).total = m.total
      BY DEF Started
    <3>3. m.count > 0 /\ m.total >= 0
      BY <2>2, ChunksSuffice, SizesPositive DEF Valid
    <3>4. Ordered(pending') /\ pending'.next < pending'.count
          /\ Received(pending'.bytes) <= pending'.total
      BY <2>2, <3>1, <3>2, <3>3, ReceivedTyped DEF Ordered
    <3> QED
      BY <2>2, <3>4 DEF Gathered, Ordered
  <2>3. CASE Valid(m) /\ m.kind = "chunk" /\ Fits(m)
    <3> DEFINE p == Pushed(m)
    <3>1. pending \in PendingFrames /\ pending # None
      BY <1>1, <2>3, FramesAre DEF Fits
    <3>2. /\ p \in PendingFrames /\ p.total = pending.total /\ p.count = pending.count
          /\ p.next = pending.next + 1 /\ Received(p.bytes) = Received(pending.bytes) + m.length
      BY <2>1, <2>3, <3>1, PushedIs
    <3>3. Ordered(pending) /\ pending.next < pending.count
      BY <3>1 DEF Gathered
    <3>4. Ordered(p)
      BY <2>1, <2>3, <3>1, <3>3, OrderedStep
    <3>5. Received(p.bytes) <= p.total
      BY <2>3, <3>2 DEF Fits
    <3>6. pending.next \in Nat /\ pending.count \in Nat
      BY <3>1, ChunksSuffice DEF PendingFrames
    <3>7. CASE ~Complete(p) /\ pending' = p /\ UNCHANGED <<slot, published>>
      <4>1. p.next < p.count
        BY <3>2, <3>3, <3>6, <3>7 DEF Complete
      <4> HIDE DEF p
      <4> QED
        BY <3>4, <3>5, <3>7, <4>1 DEF Gathered, Ordered
    <3>8. CASE Complete(p) /\ Whole(p) /\ Publish(p) /\ pending' = None
      <4> HIDE DEF p
      <4>1. \A s \in Seq(PendingFrames) :
               /\ Len(Append(s, p)) = Len(s) + 1 /\ Append(s, p)[Len(s) + 1] = p
               /\ \A i \in 1..Len(s) : Append(s, p)[i] = s[i]
               /\ Append(s, p) # <<>>
        BY <3>2, AppendProperties
      <4>2. /\ Len(published') = Len(published) + 1 /\ published'[Len(published) + 1] = p
            /\ \A i \in 1..Len(published) : published'[i] = published[i]
            /\ published' # <<>> /\ slot' = p
        BY <1>2, <3>8, <4>1 DEF Publish
      <4>3. p.next = p.count /\ Received(p.bytes) = p.total
        BY <3>8 DEF Complete, Whole
      <4>4. \A i \in 1..Len(published') : i \in 1..Len(published) \/ i = Len(published) + 1
        BY <1>2, <4>2
      <4>5. \A i \in 1..Len(published') :
               /\ Ordered(published'[i]) /\ published'[i].next = published'[i].count
               /\ Received(published'[i].bytes) = published'[i].total
        BY <3>4, <4>2, <4>3, <4>4 DEF Gathered
      <4> QED
        BY <3>8, <4>2, <4>5 DEF Gathered, Ordered
    <3>9. CASE Reject
      BY <1>3, <3>9 DEF Reject
    <3> QED
      BY <2>1, <2>3, <3>7, <3>8, <3>9 DEF Takes
  <2>4. CASE Reject
    BY <1>3, <2>4 DEF Reject
  <2> QED
    BY <2>1, <2>2, <2>3, <2>4 DEF Takes
<1> QED
  BY <1>3, <1>4, <1>5
  DEF FrameNext, BeginFrame, SendChunk, EndFrame, SendAnything, Show, viewerVars

-----------------------------------------------------------------------------
(* A host that follows send_frame *)

\* Frames that were begun have the size of a frame.
LEMMA BegunTyped ==
  ASSUME FrameTypeOK, NEW f \in DOMAIN Begun
  PROVE  f \in Nat /\ Begun[f] \in 1..FrameSize
<1> DEFINE S == 1..FrameSize
<1>1. captured \in Seq(S) /\ (sending # None => sending.size \in S)
  BY FramesAre DEF FrameTypeOK
<1> HIDE DEF S
<1>2. Len(captured) \in Nat /\ \A i \in 1..Len(captured) : captured[i] \in S
  BY <1>1, LenProperties, ElementOfSeq
<1>3. f \in Nat /\ (f < Len(captured) \/ (f = Len(captured) /\ sending # None))
  BY DEF Begun
<1>4. f < Len(captured) => f + 1 \in 1..Len(captured)
  BY <1>2, <1>3
<1>5. Begun[f] = IF f < Len(captured) THEN captured[f + 1] ELSE sending.size
  BY <1>3 DEF Begun
<1>6. Begun[f] \in S
  BY <1>1, <1>2, <1>3, <1>4, <1>5
<1> QED
  BY <1>3, <1>6 DEF S

\* The sizes of some frames are those of others too.
Extends(sizes, others) ==
  DOMAIN sizes \subseteq DOMAIN others /\ \A f \in DOMAIN sizes : others[f] = sizes[f]

\* A frame that was begun stays so, with its size.
LEMMA BegunStays ==
  ASSUME FrameTypeOK, FrameNext
  PROVE  Extends(Begun, Begun')
<1> DEFINE S == 1..FrameSize
<1> USE DEF Extends
<1>1. captured \in Seq(S) /\ (sending # None => sending.size \in S)
  BY FramesAre DEF FrameTypeOK
<1> HIDE DEF S
<1>2. Len(captured) \in Nat
  BY <1>1, LenProperties
<1>3. CASE UNCHANGED <<captured, sending>>
  BY <1>3 DEF Begun
<1>4. CASE UNCHANGED captured /\ sending = None
  BY <1>2, <1>4 DEF Begun
<1>5. CASE SendChunk
  <2>1. captured' = captured /\ sending' # None /\ sending'.size = sending.size /\ sending # None
    BY <1>5, ChunkSentIs DEF None
  <2> QED
    BY <2>1 DEF Begun
<1>6. CASE EndFrame
  <2>1. sending # None /\ sending' = None /\ captured' = Append(captured, sending.size)
    BY <1>6 DEF EndFrame
  <2>2. \A s \in Seq(S), x \in S :
           /\ Len(Append(s, x)) = Len(s) + 1 /\ Append(s, x)[Len(s) + 1] = x
           /\ \A i \in 1..Len(s) : Append(s, x)[i] = s[i]
    BY AppendProperties
  <2>3. /\ Len(captured') = Len(captured) + 1 /\ captured'[Len(captured) + 1] = sending.size
        /\ \A i \in 1..Len(captured) : captured'[i] = captured[i]
    BY <1>1, <2>1, <2>2
  <2>4. \A f \in DOMAIN Begun : f \in Nat /\ (f < Len(captured) \/ f = Len(captured))
                                /\ (f < Len(captured) => f + 1 \in 1..Len(captured))
                                /\ f < Len(captured')
    BY <1>2, <2>3 DEF Begun
  <2> QED
    BY <2>3, <2>4 DEF Begun
<1>7. CASE BeginFrame
  BY <1>4, <1>7 DEF BeginFrame
<1> QED
  BY <1>3, <1>5, <1>6, <1>7 DEF FrameNext, SendAnything, ReceiveMessage, Show, hostVars

\* The capture thread numbers its frames, and ends with the last chunk of one.
LEMMA SendingStep ==
  ASSUME WireTyped, honest, Sending, FrameNext
  PROVE  Sending'
<1>1. FrameTypeOK /\ wire \in Seq(FrameMessages)
  BY DEF WireTyped
<1>2. CASE UNCHANGED hostVars
  BY <1>2 DEF Sending, hostVars
<1>3. CASE BeginFrame
  <2>1. CASE sendPc' = "failed"
    BY <1>1, <1>3, <2>1, BeginIs DEF Sending
  <2>2. CASE sendPc' # "failed"
    <3>1. PICK size \in 1..FrameSize : sending' = [size |-> size, next |-> 0] /\ UNCHANGED sendPc
      BY <1>1, <1>3, <2>2, BeginIs
    <3>2. 0 <= ChunkCount(size)
      BY ChunksCover
    <3> QED
      BY <1>1, <1>3, <3>1, <3>2, BeginIs DEF Sending
  <2> QED
    BY <2>1, <2>2
<1>4. CASE SendChunk
  <2>1. /\ sending.size \in 1..FrameSize /\ sending.next \in Nat
        /\ sending.next < ChunkCount(sending.size) /\ sending # None
        /\ sending' = [size |-> sending.size, next |-> sending.next + 1]
        /\ UNCHANGED <<frameId, captured, sendPc>>
    BY <1>1, <1>4, ChunkSentIs
  <2>2. ChunkCount(sending.size) \in Nat
    BY <2>1, ChunksCover
  <2> QED
    BY <2>1, <2>2 DEF Sending
<1>5. CASE EndFrame
  <2>1. sending.size \in 1..FrameSize /\ sending # None
    BY <1>1, <1>5, FramesAre DEF EndFrame
  <2> DEFINE S == 1..FrameSize
  <2> HIDE DEF S
  <2>2. \A s \in Seq(S), x \in S : Len(Append(s, x)) = Len(s) + 1
    BY AppendProperties
  <2>3. Len(captured') = Len(captured) + 1
    BY <1>1, <1>5, <2>1, <2>2 DEF EndFrame, FrameTypeOK, S
  <2> QED
    BY <1>5, <2>1, <2>3 DEF EndFrame, Sending
<1> QED
  BY <1>2, <1>3, <1>4, <1>5 DEF FrameNext, SendAnything, ReceiveMessage, Show

-----------------------------------------------------------------------------
(* Chains of messages *)

\* A chain holds for more frames.
LEMMA ChainStays ==
  ASSUME NEW queue \in Seq(FrameMessages), NEW sizes, NEW others, NEW from, NEW to,
         Chain(queue, sizes, from, to), Extends(sizes, others)
  PROVE  Chain(queue, others, from, to)
<1>1. Len(queue) \in Nat
  BY LenProperties
<1>2. \A i \in 1..Len(queue) : /\ queue[i].frame \in DOMAIN sizes
                               /\ queue[i].frame \in DOMAIN others
                               /\ others[queue[i].frame] = sizes[queue[i].frame]
  BY DEF Chain, Extends
<1>3. \A i \in 0..Len(queue) : i = 0 \/ i \in 1..Len(queue)
  BY <1>1
<1>4. \A i \in 1..Len(queue) : i - 1 \in 0..Len(queue)
  BY <1>1
<1> QED
  BY <1>1, <1>2, <1>3, <1>4 DEF Chain

\* A message at the place where a chain ends makes it longer.
LEMMA ChainGrows ==
  ASSUME NEW queue \in Seq(FrameMessages), NEW m \in FrameMessages,
         NEW sizes, NEW from, NEW to, Chain(queue, sizes, from, to),
         m.frame \in DOMAIN sizes, Says(m, sizes[m.frame]), Stamp(m) = to
  PROVE  Chain(Append(queue, m), sizes, from, After(Stamp(m), sizes[m.frame]))
<1> DEFINE n == Len(queue)
           q == Append(queue, m)
<1>1. n \in Nat /\ Len(q) = n + 1 /\ q[n + 1] = m /\ \A i \in 1..n : q[i] = queue[i]
  BY AppendProperties, LenProperties
<1> HIDE DEF q, n
<1> DEFINE place(i) == IF i = 0 THEN from ELSE After(Stamp(queue[i]), sizes[queue[i].frame])
           next(i) == IF i = 0 THEN from ELSE After(Stamp(q[i]), sizes[q[i].frame])
<1>2. /\ \A i \in 1..n : /\ queue[i].frame \in DOMAIN sizes
                         /\ Says(queue[i], sizes[queue[i].frame])
                         /\ Stamp(queue[i]) = place(i - 1)
      /\ place(n) = to
  BY DEF Chain, n
<1>3. \A i \in 0..n : i = 0 \/ i \in 1..n
  BY <1>1
<1>4. \A i \in 0..n : next(i) = place(i)
  BY <1>1, <1>3
<1>5. /\ \A i \in 1..(n + 1) : i \in 1..n \/ i = n + 1
      /\ \A i \in 1..n : i - 1 \in 0..n
      /\ n \in 0..n /\ (n + 1) - 1 = n /\ n + 1 # 0
  BY <1>1
<1>6. next(n + 1) = After(Stamp(m), sizes[m.frame])
  BY <1>1, <1>5
<1> HIDE DEF place, next
<1>7. \A i \in 1..(n + 1) : /\ q[i].frame \in DOMAIN sizes /\ Says(q[i], sizes[q[i].frame])
                            /\ Stamp(q[i]) = next(i - 1)
  BY <1>1, <1>2, <1>4, <1>5
<1> QED
  BY <1>1, <1>6, <1>7 DEF Chain, q, next

\* The first message of a chain has the place where it begins, and the others go on
\* from there.
LEMMA ChainShrinks ==
  ASSUME NEW queue \in Seq(FrameMessages), NEW rest \in Seq(FrameMessages),
         Len(queue) \in Nat \ {0}, Len(rest) = Len(queue) - 1,
         \A i \in 1..Len(rest) : rest[i] = queue[i + 1],
         NEW sizes, NEW from, NEW to, Chain(queue, sizes, from, to)
  PROVE  /\ queue[1].frame \in DOMAIN sizes /\ Says(queue[1], sizes[queue[1].frame])
         /\ Stamp(queue[1]) = from
         /\ Chain(rest, sizes, After(Stamp(queue[1]), sizes[queue[1].frame]), to)
<1> DEFINE n == Len(rest)
           place(i) == IF i = 0 THEN from ELSE After(Stamp(queue[i]), sizes[queue[i].frame])
           first == After(Stamp(queue[1]), sizes[queue[1].frame])
           next(i) == IF i = 0 THEN first ELSE After(Stamp(rest[i]), sizes[rest[i].frame])
<1>1. n \in Nat /\ Len(queue) = n + 1
  OBVIOUS
<1>2. /\ \A i \in 1..(n + 1) : /\ queue[i].frame \in DOMAIN sizes
                               /\ Says(queue[i], sizes[queue[i].frame])
                               /\ Stamp(queue[i]) = place(i - 1)
      /\ place(n + 1) = to
  BY <1>1 DEF Chain
<1>3. /\ 1 \in 1..(n + 1) /\ place(0) = from /\ 1 - 1 = 0
  BY <1>1
<1>4. \A i \in 0..n : next(i) = place(i + 1)
  <2>1. \A i \in 0..n : i + 1 # 0 /\ (i = 0 \/ i \in 1..n) /\ 0 + 1 = 1
    BY <1>1
  <2> QED
    BY <2>1
<1>5. \A i \in 1..n : i + 1 \in 1..(n + 1) /\ i - 1 \in 0..n /\ (i - 1) + 1 = (i + 1) - 1
  BY <1>1
<1>6. n \in 0..n
  BY <1>1
<1> HIDE DEF place, next
<1>7. \A i \in 1..n : /\ rest[i].frame \in DOMAIN sizes /\ Says(rest[i], sizes[rest[i].frame])
                      /\ Stamp(rest[i]) = next(i - 1)
  BY <1>2, <1>4, <1>5
<1>8. next(n) = to
  BY <1>2, <1>4, <1>6
<1>9. Chain(rest, sizes, first, to)
  BY <1>7, <1>8 DEF Chain, next
<1> QED
  BY <1>2, <1>3, <1>9

-----------------------------------------------------------------------------
(* What arrives is what was sent *)

\* The message of send_frame that comes next: a start when nothing is pending, the
\* next chunk otherwise; none of them is refused.
Expected(m, size) ==
  \/ /\ m.kind = "start" /\ pending = None /\ pending' = Started(m)
     /\ m.total = size /\ m.count = ChunkCount(size)
     /\ UNCHANGED <<slot, published, receivePc>>
  \/ /\ m.kind = "chunk" /\ Valid(m) /\ pending # None /\ m.index = pending.next
     /\ pending.frame = m.frame /\ pending.total = size /\ pending.count = ChunkCount(size)
     /\ pending.next + 1 < ChunkCount(size) /\ pending' = Pushed(m)
     /\ Received(Pushed(m).bytes) = (pending.next + 1) * ChunkSize
     /\ UNCHANGED <<slot, published, receivePc>>
  \/ /\ m.kind = "chunk" /\ Valid(m) /\ pending # None /\ m.index = pending.next
     /\ pending.frame = m.frame /\ pending.total = size
     /\ pending.next + 1 = ChunkCount(size) /\ pending' = None
     /\ Publish(Pushed(m)) /\ UNCHANGED receivePc

LEMMA HonestTakes ==
  ASSUME WireTyped, honest, Gathered, Chained, Faithful, ReceiveMessage
  PROVE  LET m == wire[1]
         IN  m.frame = Len(published) /\ m.frame \in DOMAIN Begun /\ Expected(m, Begun[m.frame])
<1> DEFINE m == wire[1]
           size == Begun[m.frame]
           count == ChunkCount(size)
<1>1. /\ FrameTypeOK /\ wire \in Seq(FrameMessages) /\ m \in FrameMessages /\ Takes(m)
      /\ wire' \in Seq(FrameMessages) /\ Len(wire') = Len(wire) - 1 /\ Len(wire) \in Nat \ {0}
      /\ \A i \in 1..Len(wire') : wire'[i] = wire[i + 1]
  BY ReceiveTakes DEF WireTyped
<1>2. m.frame \in DOMAIN Begun /\ Says(m, size) /\ Stamp(m) = ToReceive
  BY <1>1, ChainShrinks DEF Chained
<1>3. size \in 1..FrameSize
  BY <1>1, <1>2, BegunTyped
<1>4. count \in 1..MaxChunks /\ count \in Nat
  BY <1>3, ChunksCover
<1> HIDE DEF m, size, count
<1>5. CASE m.kind = "start"
  <2>1. m.frame = Len(published) /\ pending = None
    <3>1. pending # None => pending.next \in Nat
      BY <1>1, FramesAre DEF PendingFrames
    <3> QED
      BY <1>2, <1>5, <3>1 DEF Stamp, ToReceive
  <2>2. m.total = size /\ m.count = count
    BY <1>2, <1>5 DEF Says, count
  <2>3. Valid(m)
    BY <1>3, <1>4, <1>5, <2>2 DEF Valid
  <2>4. pending' = Started(m) /\ UNCHANGED <<slot, published, receivePc>>
    BY <1>1, <1>5, <2>3 DEF Takes, Refuses
  <2> QED
    BY <1>2, <1>5, <2>1, <2>2, <2>4 DEF Expected, m, size, count
<1>6. CASE m.kind = "chunk"
  <2>1. m.index \in Nat /\ m.frame \in Nat
    BY <1>1, <1>6, KindsOf
  <2>2. m.frame = Len(published) /\ pending # None /\ m.index = pending.next
    <3>1. pending # None => pending.next \in Nat
      BY <1>1, FramesAre DEF PendingFrames
    <3> QED
      BY <1>2, <1>6, <2>1, <3>1 DEF Stamp, ToReceive
  <2>3. pending.frame = m.frame /\ pending.total = size /\ pending.count = count
        /\ Received(pending.bytes) = pending.next * ChunkSize
    BY <2>2 DEF Faithful, size, count
  <2>4. m.index < count /\ m.length = ChunkLength(size, m.index)
    BY <1>2, <1>6 DEF Says, count
  <2>5. /\ m.length \in 1..ChunkSize /\ m.index * ChunkSize \in Nat
        /\ m.index + 1 < count => /\ m.index * ChunkSize + m.length = (m.index + 1) * ChunkSize
                                  /\ (m.index + 1) * ChunkSize <= size
        /\ m.index + 1 = count => m.index * ChunkSize + m.length = size
    BY <1>3, <2>1, <2>4, ChunkLengths DEF count
  <2>6. Valid(m)
    BY <1>6, <2>5 DEF Valid
  <2>7. pending \in PendingFrames
    BY <1>1, <2>2, FramesAre
  <2>8. /\ Pushed(m).next = pending.next + 1 /\ Pushed(m).count = count /\ Pushed(m).total = size
        /\ Received(Pushed(m).bytes) = Received(pending.bytes) + m.length
    BY <1>1, <1>6, <2>3, <2>6, <2>7, PushedIs
  <2> DEFINE sum == m.index * ChunkSize
             more == (m.index + 1) * ChunkSize
  <2>9. Received(pending.bytes) = sum /\ sum \in Nat
    BY <2>2, <2>3, <2>5
  <2>10. /\ m.index + 1 < count => sum + m.length = more /\ more <= size
         /\ m.index + 1 = count => sum + m.length = size
    BY <2>5
  <2>11. m.index + 1 < count \/ m.index + 1 = count
    BY <1>4, <2>1, <2>4
  <2> HIDE DEF sum, more
  <2>12. sum + m.length <= size
    BY <1>3, <2>10, <2>11
  <2>13. Fits(m)
    BY <2>2, <2>3, <2>9, <2>12 DEF Fits
  <2>14. CASE m.index + 1 < count
    <3>1. ~Complete(Pushed(m))
      BY <1>4, <2>1, <2>2, <2>8, <2>14 DEF Complete
    <3>2. pending' = Pushed(m) /\ UNCHANGED <<slot, published, receivePc>>
      BY <1>1, <1>6, <2>6, <2>13, <3>1 DEF Takes, Refuses
    <3>3. Received(Pushed(m).bytes) = (pending.next + 1) * ChunkSize
      BY <2>2, <2>8, <2>9, <2>10, <2>14 DEF more
    <3> QED
      BY <1>2, <1>6, <2>2, <2>3, <2>6, <2>14, <3>2, <3>3 DEF Expected, m, size, count
  <2>15. CASE m.index + 1 = count
    <3>1. Complete(Pushed(m)) /\ Whole(Pushed(m))
      BY <2>2, <2>8, <2>9, <2>10, <2>15 DEF Complete, Whole
    <3>2. Publish(Pushed(m)) /\ pending' = None /\ UNCHANGED receivePc
      BY <1>1, <1>6, <2>6, <2>13, <3>1 DEF Takes, Refuses
    <3> QED
      BY <1>2, <1>6, <2>2, <2>3, <2>6, <2>15, <3>2 DEF Expected, m, size, count
  <2> QED
    BY <2>11, <2>14, <2>15
<1> QED
  BY <1>1, <1>5, <1>6, KindsOf

\* What is received next follows what was received.
LEMMA ReceiveGoesOn ==
  ASSUME WireTyped, NEW m \in FrameMessages, NEW size \in 1..FrameSize, Expected(m, size),
         m.frame = Len(published)
  PROVE  ToReceive' = After(Stamp(m), size)
<1>1. /\ FrameTypeOK
      /\ pending # None => pending \in PendingFrames
      /\ ChunkCount(size) \in Nat /\ ChunkCount(size) # 0
  BY FramesAre, ChunksCover DEF WireTyped
<1>2. published \in Seq(PendingFrames) /\ Len(published) \in Nat
  BY <1>1, LenProperties DEF FrameTypeOK
<1>3. CASE m.kind = "start" /\ pending' = Started(m) /\ UNCHANGED published
  <2>1. Started(m).next = 0 /\ Started(m) # None
    BY DEF Started, None
  <2> QED
    BY <1>1, <1>3, <2>1 DEF ToReceive, After, Stamp
<1>4. CASE m.kind = "chunk" /\ Valid(m) /\ pending # None /\ m.index = pending.next
           /\ UNCHANGED published /\ pending.next + 1 < ChunkCount(size) /\ pending' = Pushed(m)
  <2>1. Pushed(m).next = pending.next + 1 /\ Pushed(m) # None /\ pending.next \in Nat
    BY <1>1, <1>4, PushedIs, FramesExist DEF PendingFrames
  <2>2. ToReceive' = <<Len(published), (pending.next + 1) + 1>>
    BY <1>4, <2>1 DEF ToReceive
  <2>3. Stamp(m) = <<Len(published), pending.next + 1>>
    BY <1>4 DEF Stamp
  <2>4. pending.next + 1 # ChunkCount(size)
    BY <1>1, <1>4, <2>1
  <2> QED
    BY <2>2, <2>3, <2>4 DEF After
<1>5. CASE m.kind = "chunk" /\ Valid(m) /\ pending # None /\ m.index = pending.next
           /\ pending.next + 1 = ChunkCount(size) /\ pending' = None /\ Publish(Pushed(m))
  <2>1. Pushed(m) \in PendingFrames
    BY <1>1, <1>5, PushedIs
  <2>2. \A s \in Seq(PendingFrames), p \in PendingFrames : Len(Append(s, p)) = Len(s) + 1
    BY AppendProperties
  <2>3. Len(published') = Len(published) + 1
    BY <1>2, <1>5, <2>1, <2>2 DEF Publish
  <2>4. ToReceive' = <<Len(published) + 1, 0>>
    BY <1>5, <2>3 DEF ToReceive
  <2>5. Stamp(m) = <<Len(published), pending.next + 1>>
    BY <1>5 DEF Stamp
  <2> QED
    BY <1>5, <2>4, <2>5 DEF After
<1> QED
  BY <1>3, <1>4, <1>5 DEF Expected

\* The messages on their way stay a chain.
LEMMA ChainedStep ==
  ASSUME WireTyped, honest, Sending, Gathered, Chained, Faithful, FrameNext
  PROVE  Chained'
<1>1. FrameTypeOK /\ wire \in Seq(FrameMessages)
  BY DEF WireTyped
<1>2. Chain(wire, Begun', ToReceive, ToSend)
  BY <1>1, BegunStays, ChainStays DEF Chained
<1>3. captured \in Seq(1..FrameSize) /\ Len(captured) \in Nat
  <2> DEFINE S == 1..FrameSize
  <2>1. captured \in Seq(S)
    BY <1>1 DEF FrameTypeOK
  <2> HIDE DEF S
  <2>2. Len(captured) \in Nat
    BY <2>1, LenProperties
  <2> QED
    BY <2>1, <2>2 DEF S
<1>4. CASE UNCHANGED <<wire, sending, captured, pending, published>>
  BY <1>2, <1>4 DEF Chained, ToReceive, ToSend
<1>5. ASSUME NEW m \in FrameMessages, Adds(m), UNCHANGED <<pending, published, captured>>,
             sending' # None, m.frame = Len(captured), Says(m, sending'.size),
             Stamp(m) = ToSend, Stamp(m) = <<Len(captured), sending'.next>>
      PROVE  Chained'
  <2>1. m.frame \in DOMAIN (Begun') /\ (Begun')[m.frame] = sending'.size
    BY <1>3, <1>5 DEF Begun
  <2> DEFINE sizes == Begun'
             from == ToReceive
             to == ToSend
  <2> HIDE DEF sizes, from, to
  <2>2. Chain(wire, sizes, from, to) /\ m.frame \in DOMAIN sizes
        /\ Says(m, sizes[m.frame]) /\ Stamp(m) = to
    BY <1>2, <1>5, <2>1 DEF sizes, from, to
  <2>3. Chain(Append(wire, m), sizes, from, After(Stamp(m), sizes[m.frame]))
    BY <1>1, <2>2, ChainGrows
  <2>4. ToReceive' = from /\ wire' = Append(wire, m)
    BY <1>5 DEF ToReceive, from, Adds
  <2>5. ToSend' = After(Stamp(m), sizes[m.frame])
    BY <1>5, <2>1 DEF ToSend, sizes
  <2> QED
    BY <2>3, <2>4, <2>5 DEF Chained, sizes
<1>6. CASE BeginFrame
  <2>1. sending = None /\ UNCHANGED <<captured, pending, published>> /\ frameId = Len(captured)
    BY <1>1, <1>6, BeginIs DEF viewerVars, Sending
  <2>2. CASE UNCHANGED <<wire, sending>>
    BY <1>4, <2>1, <2>2
  <2>3. ASSUME NEW size \in 1..FrameSize,
               FrameStart(frameId, size, ChunkCount(size)) \in FrameMessages,
               Adds(FrameStart(frameId, size, ChunkCount(size))),
               sending' = [size |-> size, next |-> 0]
        PROVE  Chained'
    <3> DEFINE m == FrameStart(frameId, size, ChunkCount(size))
    <3>1. /\ m.kind = "start" /\ m.frame = Len(captured) /\ m.total = size
          /\ m.count = ChunkCount(size)
      BY <2>1 DEF FrameStart
    <3>2. m \in FrameMessages /\ Adds(m)
      BY <2>3
    <3>3. sending' # None /\ sending'.size = size /\ sending'.next = 0
      BY <2>3 DEF None
    <3> HIDE DEF m
    <3>4. Says(m, size) /\ Stamp(m) = <<Len(captured), 0>> /\ Stamp(m) = ToSend
      BY <2>1, <3>1 DEF Says, Stamp, ToSend
    <3> QED
      BY <1>5, <2>1, <3>1, <3>2, <3>3, <3>4
  <2> QED
    BY <1>1, <1>6, <2>2, <2>3, BeginIs
<1>7. CASE SendChunk
  <2> DEFINE m == FrameChunk(frameId, sending.next, ChunkLength(sending.size, sending.next))
  <2>1. /\ sending # None /\ sending.size \in 1..FrameSize /\ sending.next \in Nat
        /\ sending.next < ChunkCount(sending.size) /\ m \in FrameMessages /\ Adds(m)
        /\ sending' = [size |-> sending.size, next |-> sending.next + 1]
        /\ UNCHANGED <<captured, pending, published>> /\ frameId = Len(captured)
    BY <1>1, <1>7, ChunkSentIs DEF viewerVars, Sending
  <2>2. /\ m.kind = "chunk" /\ m.frame = Len(captured) /\ m.index = sending.next
        /\ m.length = ChunkLength(sending.size, sending.next)
    BY <2>1 DEF FrameChunk
  <2> HIDE DEF m
  <2>3. sending' # None /\ sending'.size = sending.size /\ sending'.next = sending.next + 1
    BY <2>1 DEF None
  <2>4. Says(m, sending.size) /\ Stamp(m) = <<Len(captured), sending.next + 1>>
    BY <2>1, <2>2 DEF Says, Stamp
  <2>5. sending.next # ChunkCount(sending.size)
    BY <2>1, ChunksCover
  <2>6. ToSend = <<Len(captured), sending.next + 1>>
    BY <2>1, <2>5 DEF ToSend, After
  <2> QED
    BY <1>5, <2>1, <2>2, <2>3, <2>4, <2>6
<1>8. CASE EndFrame
  <2>1. /\ sending # None /\ sending' = None /\ captured' = Append(captured, sending.size)
        /\ sending.next * ChunkSize >= sending.size
        /\ UNCHANGED <<wire, pending, published>>
    BY <1>8 DEF EndFrame, viewerVars
  <2>2. sending.size \in 1..FrameSize /\ sending.next \in Nat
    BY <1>1, <2>1, FramesAre
  <2>3. sending.next = ChunkCount(sending.size)
    <3>1. ~(sending.next < ChunkCount(sending.size))
      <4>1. ~(sending.next * ChunkSize < sending.size)
        <5> DEFINE sum == sending.next * ChunkSize
        <5>1. sum \in Nat /\ sum >= sending.size
          BY <2>1, <2>2, SizesPositive
        <5> HIDE DEF sum
        <5>2. ~(sum < sending.size)
          BY <2>2, <5>1
        <5> QED
          BY <5>2 DEF sum
      <4> QED
        BY <2>2, <4>1, ChunksLeft
    <3>2. sending.next <= ChunkCount(sending.size) /\ ChunkCount(sending.size) \in Nat
      BY <2>1, <2>2, ChunksCover DEF Sending
    <3> QED
      BY <2>2, <3>1, <3>2
  <2>4. Len(captured') = Len(captured) + 1
    <3> DEFINE S == 1..FrameSize
    <3> HIDE DEF S
    <3>1. \A s \in Seq(S), x \in S : Len(Append(s, x)) = Len(s) + 1
      BY AppendProperties
    <3> QED
      BY <1>3, <2>1, <2>2, <3>1 DEF S
  <2>5. ToSend' = ToSend
    BY <2>1, <2>3, <2>4 DEF ToSend, After
  <2>6. ToReceive' = ToReceive
    BY <2>1 DEF ToReceive
  <2> QED
    BY <1>2, <2>1, <2>5, <2>6 DEF Chained
<1>9. CASE ReceiveMessage
  <2> DEFINE m == wire[1]
             size == Begun[m.frame]
             sizes == Begun
  <2>1. /\ m \in FrameMessages /\ wire' \in Seq(FrameMessages) /\ Len(wire') = Len(wire) - 1
        /\ Len(wire) \in Nat \ {0} /\ \A i \in 1..Len(wire') : wire'[i] = wire[i + 1]
        /\ UNCHANGED hostVars
    BY <1>1, <1>9, ReceiveTakes
  <2>2. m.frame = Len(published) /\ m.frame \in DOMAIN Begun /\ Expected(m, size)
    BY <1>9, HonestTakes
  <2>3. size \in 1..FrameSize
    BY <1>1, <2>2, BegunTyped
  <2>4. Begun' = Begun /\ ToSend' = ToSend
    BY <2>1 DEF Begun, ToSend, hostVars
  <2>5. Chain(wire', sizes, After(Stamp(m), size), ToSend)
    BY <1>1, <2>1, ChainShrinks DEF Chained
  <2> HIDE DEF m, size
  <2>6. ToReceive' = After(Stamp(m), size)
    BY <2>1, <2>2, <2>3, ReceiveGoesOn
  <2> QED
    BY <2>4, <2>5, <2>6 DEF Chained
<1>10. CASE Show
  BY <1>4, <1>10 DEF Show, hostVars
<1> QED
  BY <1>6, <1>7, <1>8, <1>9, <1>10 DEF FrameNext, SendAnything

\* What was put together is what was captured.
LEMMA FaithfulStep ==
  ASSUME WireTyped, honest, Gathered, Chained, Faithful, FrameNext
  PROVE  Faithful'
<1>1. FrameTypeOK /\ wire \in Seq(FrameMessages) /\ Extends(Begun, Begun')
  BY BegunStays DEF WireTyped
<1>2. published \in Seq(PendingFrames) /\ Len(published) \in Nat
  <2>1. published \in Seq(PendingFrames)
    BY <1>1 DEF FrameTypeOK
  <2> QED
    BY <2>1, LenProperties
<1>3. CASE UNCHANGED <<pending, published, receivePc>>
  BY <1>1, <1>3 DEF Faithful, Extends
<1>4. CASE ReceiveMessage
  <2> DEFINE m == wire[1]
             size == Begun[m.frame]
  <2>1. m \in FrameMessages /\ UNCHANGED hostVars
    BY <1>1, <1>4, ReceiveTakes
  <2>2. m.frame = Len(published) /\ m.frame \in DOMAIN Begun /\ Expected(m, size)
    BY <1>4, HonestTakes
  <2>3. Begun' = Begun
    BY <2>1 DEF Begun, hostVars
  <2>4. \A i \in 1..Len(published) : /\ published[i].frame = i - 1 /\ i - 1 \in DOMAIN Begun
                                     /\ published[i].total = Begun[i - 1]
    BY DEF Faithful
  <2>5. pending # None => pending \in PendingFrames /\ pending.next \in Nat
    BY <1>1, FramesAre DEF PendingFrames
  <2>6. size = Begun[m.frame]
    OBVIOUS
  <2> HIDE DEF m, size
  <2>7. CASE /\ m.kind = "start" /\ pending' = Started(m)
             /\ m.total = size /\ m.count = ChunkCount(size) /\ UNCHANGED <<published, receivePc>>
    <3>1. /\ pending'.frame = m.frame /\ pending'.total = m.total /\ pending'.count = m.count
          /\ pending'.next = 0 /\ pending'.bytes = <<>>
      BY <2>7 DEF Started
    <3>2. Received(pending'.bytes) = pending'.next * ChunkSize
      BY <3>1, ReceivedTyped, SizesPositive
    <3> QED
      BY <2>2, <2>3, <2>4, <2>6, <2>7, <3>1, <3>2 DEF Faithful
  <2>8. CASE /\ m.kind = "chunk" /\ Valid(m) /\ pending # None /\ m.index = pending.next
             /\ pending.frame = m.frame /\ pending.total = size /\ pending.count = ChunkCount(size)
             /\ pending' = Pushed(m)
             /\ Received(Pushed(m).bytes) = (pending.next + 1) * ChunkSize
             /\ UNCHANGED <<published, receivePc>>
    <3>1. /\ Pushed(m).frame = pending.frame /\ Pushed(m).total = pending.total
          /\ Pushed(m).count = pending.count /\ Pushed(m).next = pending.next + 1
      BY <2>1, <2>5, <2>8, PushedIs
    <3> QED
      BY <2>2, <2>3, <2>4, <2>6, <2>8, <3>1 DEF Faithful
  <2>9. CASE /\ m.kind = "chunk" /\ Valid(m) /\ pending # None
             /\ pending.frame = m.frame /\ pending.total = size
             /\ pending' = None /\ Publish(Pushed(m)) /\ UNCHANGED receivePc
    <3> DEFINE p == Pushed(m)
    <3>1. p \in PendingFrames /\ p.frame = m.frame /\ p.total = size
      BY <2>1, <2>5, <2>9, PushedIs
    <3> HIDE DEF p
    <3>2. \A s \in Seq(PendingFrames) :
             /\ Len(Append(s, p)) = Len(s) + 1 /\ Append(s, p)[Len(s) + 1] = p
             /\ \A i \in 1..Len(s) : Append(s, p)[i] = s[i]
      BY <3>1, AppendProperties
    <3>3. /\ Len(published') = Len(published) + 1 /\ published'[Len(published) + 1] = p
          /\ \A i \in 1..Len(published) : published'[i] = published[i]
      BY <1>2, <2>9, <3>2 DEF Publish, p
    <3>4. \A i \in 1..Len(published') :
             i \in 1..Len(published) \/ (i = Len(published) + 1 /\ i - 1 = Len(published))
      BY <1>2, <3>3
    <3>5. \A i \in 1..Len(published') : /\ published'[i].frame = i - 1 /\ i - 1 \in DOMAIN Begun
                                        /\ published'[i].total = Begun[i - 1]
      BY <2>2, <2>4, <2>6, <3>1, <3>3, <3>4
    <3> QED
      BY <2>3, <2>9, <3>5 DEF Faithful
  <2> QED
    BY <2>2, <2>7, <2>8, <2>9 DEF Expected
<1> QED
  BY <1>3, <1>4, AssemblyStays

\* The interface is shown newer frames only.
LEMMA NewerStep ==
  ASSUME WireTyped, honest, Gathered, Chained, Faithful, Newer, FrameNext
  PROVE  Newer'
<1>1. FrameTypeOK /\ wire \in Seq(FrameMessages)
  BY DEF WireTyped
<1>2. /\ published \in Seq(PendingFrames) /\ Len(published) \in Nat
      /\ shown \in Seq(PendingFrames) /\ Len(shown) \in Nat
      /\ \A i \in 1..Len(shown) : shown[i] \in PendingFrames
  <2>1. published \in Seq(PendingFrames) /\ shown \in Seq(PendingFrames)
    BY <1>1 DEF FrameTypeOK
  <2> QED
    BY <2>1, LenProperties, ElementOfSeq
<1>3. \A i \in 1..Len(shown) : shown[i].frame \in Nat
  BY <1>2 DEF PendingFrames
<1>4. CASE UNCHANGED <<slot, published, shown>>
  BY <1>4 DEF Newer
<1>5. CASE ReceiveMessage
  <2> DEFINE m == wire[1]
             size == Begun[m.frame]
  <2>1. m \in FrameMessages /\ UNCHANGED shown
    BY <1>1, <1>5, ReceiveTakes
  <2>2. m.frame = Len(published) /\ Expected(m, size)
    BY <1>5, HonestTakes
  <2> HIDE DEF m, size
  <2>3. CASE UNCHANGED <<slot, published>>
    BY <1>4, <2>1, <2>3
  <2>4. CASE /\ m.kind = "chunk" /\ Valid(m) /\ pending # None /\ pending.frame = m.frame
             /\ Publish(Pushed(m))
    <3> DEFINE p == Pushed(m)
    <3>1. p \in PendingFrames /\ p.frame = Len(published)
      BY <1>1, <2>1, <2>2, <2>4, FramesAre, PushedIs
    <3> HIDE DEF p
    <3>2. \A s \in Seq(PendingFrames) : Len(Append(s, p)) = Len(s) + 1
      BY <3>1, AppendProperties
    <3>3. Len(published') = Len(published) + 1 /\ slot' = p
      BY <1>2, <2>4, <3>2 DEF Publish, p
    <3>4. \A i \in 1..Len(shown) : shown[i].frame < Len(published)
      BY DEF Newer
    <3>5. \A i \in 1..Len(shown) : shown[i].frame < Len(published')
      BY <1>2, <1>3, <3>3, <3>4
    <3> QED
      BY <2>1, <3>1, <3>3, <3>4, <3>5 DEF Newer
  <2> QED
    BY <2>2, <2>3, <2>4 DEF Expected
<1>6. CASE Show
  <2>1. slot # None /\ shown' = Append(shown, slot) /\ slot' = None /\ UNCHANGED published
    BY <1>6 DEF Show
  <2>2. slot \in PendingFrames /\ slot.frame \in Nat
    BY <1>1, <2>1, FramesAre DEF PendingFrames
  <2>3. slot.frame = Len(published) - 1
    <3>1. slot = published[Len(published)] /\ published # <<>>
      BY <2>1 DEF Gathered
    <3>2. Len(published) # 0
      BY <1>2, <3>1, EmptySeq
    <3>3. Len(published) \in 1..Len(published)
      BY <1>2, <3>2
    <3> QED
      BY <3>1, <3>3 DEF Faithful
  <2>4. slot.frame < Len(published)
    BY <1>2, <2>3
  <2>5. /\ Len(shown') = Len(shown) + 1 /\ shown'[Len(shown) + 1] = slot
        /\ \A i \in 1..Len(shown) : shown'[i] = shown[i]
    BY <1>2, <2>1, <2>2, AppendProperties
  <2>6. \A i \in 1..Len(shown) : /\ shown[i].frame < Len(published)
                                 /\ shown[i].frame < slot.frame
    BY <2>1 DEF Newer
  <2>7. \A i, k \in 1..Len(shown) : i < k => shown[i].frame < shown[k].frame
    BY DEF Newer
  <2>8. \A i \in 1..Len(shown') : i \in 1..Len(shown) \/ i = Len(shown) + 1
    BY <1>2, <2>5
  <2>9. \A i \in 1..Len(shown) : ~(Len(shown) + 1 < i)
    BY <1>2
  <2>10. \A i, k \in 1..Len(shown') : i < k => shown'[i].frame < shown'[k].frame
    <3>1. SUFFICES ASSUME NEW i \in 1..Len(shown'), NEW k \in 1..Len(shown'), i < k
                   PROVE  shown'[i].frame < shown'[k].frame
      OBVIOUS
    <3>2. i \in 1..Len(shown)
      BY <1>2, <2>5, <3>1
    <3>3. CASE k \in 1..Len(shown)
      BY <2>5, <2>7, <3>1, <3>2, <3>3
    <3>4. CASE k = Len(shown) + 1
      BY <2>5, <2>6, <3>2, <3>4
    <3> QED
      BY <2>8, <3>3, <3>4
  <2>11. \A i \in 1..Len(shown') : shown'[i].frame < Len(published)
    BY <2>4, <2>5, <2>6, <2>8
  <2> QED
    BY <2>1, <2>10, <2>11 DEF Newer
<1> QED
  BY <1>4, <1>5, <1>6
  DEF FrameNext, BeginFrame, SendChunk, EndFrame, SendAnything, viewerVars

-----------------------------------------------------------------------------
(* Frames are put together *)

\* No frame is on its way at first.
LEMMA FramesBegin == FrameInit => FrameInv
<1> SUFFICES ASSUME FrameInit PROVE FrameInv
  OBVIOUS
<1>1. /\ honest \in BOOLEAN /\ sending = None /\ frameId = 0 /\ captured = <<>> /\ wire = <<>>
      /\ messages = 0 /\ pending = None /\ slot = None /\ published = <<>> /\ shown = <<>>
      /\ sendPc = "run" /\ receivePc = "run"
  BY DEF FrameInit
<1>2. \A S : <<>> \in Seq(S) /\ Len(<<>>) = 0
  BY EmptySeq
<1>3. 0 <= Capacity /\ 0 \in 0..MaxForged /\ 0 \in 0..LastFrame
  BY FrameBoundsAreNat, SizesAreNat
<1>4. WireTyped
  BY <1>1, <1>2, <1>3 DEF WireTyped, FrameTypeOK
<1>5. Gathered
  BY <1>1, <1>2 DEF Gathered
<1>6. Sending /\ Faithful /\ Newer
  BY <1>1, <1>2 DEF Sending, Faithful, Newer
<1>7. ToReceive = <<0, 0>> /\ ToSend = <<0, 0>>
  BY <1>1, <1>2 DEF ToReceive, ToSend
<1>8. Chained
  BY <1>1, <1>2, <1>7 DEF Chained, Chain
<1> QED
  BY <1>4, <1>5, <1>6, <1>8 DEF FrameInv

LEMMA FramesStep == FrameInv /\ [FrameNext]_frameVars => FrameInv'
<1> SUFFICES ASSUME FrameInv, [FrameNext]_frameVars PROVE FrameInv'
  OBVIOUS
<1>1. CASE FrameNext
  <2>1. honest' = honest
    BY <1>1 DEF FrameNext, BeginFrame, SendChunk, EndFrame, SendAnything, ReceiveMessage, Show,
                hostVars
  <2>2. WireTyped' /\ Gathered'
    BY <1>1, FrameTypeStep, GatheredStep DEF FrameInv
  <2>3. honest => Sending' /\ Chained' /\ Faithful' /\ Newer'
    BY <1>1, SendingStep, ChainedStep, FaithfulStep, NewerStep DEF FrameInv
  <2> QED
    BY <2>1, <2>2, <2>3 DEF FrameInv
<1>2. CASE UNCHANGED frameVars
  <2>1. /\ Begun' = Begun /\ ToReceive' = ToReceive /\ ToSend' = ToSend
        /\ UNCHANGED <<honest, sending, frameId, captured, wire, messages, pending, slot,
                       published, shown, sendPc, receivePc>>
    BY <1>2 DEF frameVars, Begun, ToReceive, ToSend
  <2>2. WireTyped'
    BY <2>1 DEF FrameInv, WireTyped, FrameTypeOK
  <2>3. Gathered'
    BY <2>1 DEF FrameInv, Gathered, Ordered
  <2>4. honest => Sending' /\ Chained' /\ Faithful' /\ Newer'
    BY <2>1 DEF FrameInv, Sending, Chained, Faithful, Newer
  <2> QED
    BY <2>1, <2>2, <2>3, <2>4 DEF FrameInv
<1> QED
  BY <1>1, <1>2

\* What is put together is a part of one frame, from its first chunk on; and when the
\* host follows send_frame the messages on their way lead from it to what was sent.
THEOREM FramesHold == FrameSpec => []FrameInv
  BY FramesBegin, FramesStep, PTL DEF FrameSpec

\* The channel, the assembler and the slot keep their types.
THEOREM FramesTyped == FrameSpec => []FrameTypeOK
<1>1. FrameInv => FrameTypeOK
  BY DEF FrameInv, WireTyped
<1> QED
  BY <1>1, FramesHold, PTL

\* What send_frame produces of any size, FrameAssembler accepts: the frames put together
\* are those captured, none missing, none twice, and are shown in their order.
LEMMA ArriveFollows == FrameInv => FramesArrive
<1> SUFFICES ASSUME FrameInv, honest
             PROVE  /\ receivePc = "run"
                    /\ \A i \in 1..Len(published) :
                          /\ published[i].frame = i - 1
                          /\ i <= Len(captured) => published[i].total = captured[i]
                    /\ \A i, k \in 1..Len(shown) : i < k => shown[i].frame < shown[k].frame
  BY DEF FramesArrive
<1>1. FrameTypeOK /\ Faithful /\ Newer
  BY DEF FrameInv, WireTyped
<1>2. Len(captured) \in Nat
  <2> DEFINE S == 1..FrameSize
  <2>1. captured \in Seq(S)
    BY <1>1 DEF FrameTypeOK
  <2> HIDE DEF S
  <2> QED
    BY <2>1, LenProperties
<1>3. ASSUME NEW i \in 1..Len(published), i <= Len(captured)
      PROVE  published[i].total = captured[i]
  <2>1. published[i].total = Begun[i - 1] /\ i - 1 \in DOMAIN Begun
    BY <1>1 DEF Faithful
  <2>2. i - 1 \in Nat /\ i - 1 < Len(captured) /\ (i - 1) + 1 = i
    BY <1>2, <1>3
  <2>3. Begun[i - 1] = captured[i]
    BY <2>2 DEF Begun
  <2> QED
    BY <2>1, <2>3
<1> QED
  BY <1>1, <1>3 DEF Faithful, Newer

THEOREM FramesAllArrive == FrameSpec => []FramesArrive
  BY ArriveFollows, FramesHold, PTL

\* Whatever the host sends, FrameAssembler publishes whole frames only, the slot holds
\* the newest, and no more is kept of an unfinished one than was announced.
LEMMA WholeFollows == FrameInv => PublishedWhole
<1> SUFFICES ASSUME FrameInv PROVE PublishedWhole
  OBVIOUS
<1>1. Gathered
  BY DEF FrameInv
<1>2. \A i \in 1..Len(published) :
         /\ Len(published[i].bytes) = published[i].count
         /\ \A k \in 1..Len(published[i].bytes) : published[i].bytes[k].index = k - 1
         /\ Received(published[i].bytes) = published[i].total
  BY <1>1 DEF Gathered, Ordered
<1>3. pending # None => /\ Received(pending.bytes) <= pending.total
                        /\ Len(pending.bytes) < pending.count
  BY <1>1 DEF Gathered, Ordered
<1>4. slot # None => slot = Last(published)
  BY <1>1 DEF Gathered, Last
<1> QED
  BY <1>2, <1>3, <1>4 DEF PublishedWhole

THEOREM FramesAreWhole == FrameSpec => []PublishedWhole
  BY WholeFollows, FramesHold, PTL

=============================================================================
