----------------------------- MODULE CoreProofs -----------------------------
(***************************************************************************)
(* Proofs about the two parts of rustview-core that every session uses:    *)
(* SecureChannel, for any number of sending threads, any last nonce and    *)
(* any disturbance of the records, and SessionState, for any identifiers,  *)
(* epochs, last sequence number and number of inputs.  The modules share   *)
(* nothing; neither does what is proved about them.                        *)
(*                                                                         *)
(* NoNonceReuse needs to know that every nonce below send_nonce has been   *)
(* used, that the one above has been used only by the thread that is still *)
(* writing, and that after a failed write nobody encrypts any more.        *)
(* DeliveredInOrder needs to know that nothing but an encrypted record is  *)
(* ever on the wire, and that the receiver counts what it has delivered.   *)
(*                                                                         *)
(* NoEscalation and InputsExact speak of the session and of its history;   *)
(* what ties them together is SessionInv: which request the session holds  *)
(* in which phase, that it is the one it was asked, and that the sequence  *)
(* number counts the inputs it authorized.                                 *)
(***************************************************************************)
EXTENDS SecureChannel, SessionState, SequenceTheorems, TLAPS

(***************************************************************************)
(*                            The secure channel                           *)
(***************************************************************************)

\* The threads inside the writer lock.
LockedPCs == {"check", "encrypt", "write", "failed"}
WriterExclusive == \A t \in Senders : spc[t] \in LockedPCs => writer = t

\* A thread that writes has encrypted its message, under the current nonce.
WriterEncrypted ==
  \A t \in Senders :
     /\ spc[t] \in {"write", "failed"} => Current(t) \in encrypted
     /\ spc[t] = "write" => sendNonce < MaxNonce

\* The nonce of a failed write is burned: nobody encrypts after it.
Burned == closed["sender"] /\ \A t \in Senders : spc[t] \notin {"encrypt", "write"}

\* Which records exist: all earlier ones, and perhaps one of the current nonce.
NoncesUsed ==
  \A r \in encrypted :
     \/ r.nonce < sendNonce
     \/ r.nonce = sendNonce /\ Burned
     \/ \E t \in Senders : spc[t] \in {"write", "failed"} /\ r = Current(t)

\* The relay disturbs records, and makes none.
WireIsEncrypted == \A i \in 1..Len(wire) : wire[i].record \in encrypted

\* The receiver counts what it delivered, except after its last message.
DeliveredCounted ==
  \/ receiveNonce = Len(delivered)
  \/ closed["receiver"] /\ rpc = "idle"

SendInv == TypeOK /\ WriterExclusive /\ WriterEncrypted /\ NoncesUsed /\ NoNonceReuse
RecvInv == WireIsEncrypted /\ DeliveredCounted /\ DeliveredInOrder

-----------------------------------------------------------------------------
(* Initial states *)

\* Both invariants hold at first: nothing was encrypted or sent.
LEMMA ChannelInit == Init => SendInv /\ RecvInv
<1> SUFFICES ASSUME Init PROVE SendInv /\ RecvInv
  OBVIOUS
<1>1. TypeOK
  <2>1. /\ 0 \in 0..MaxNonce /\ <<>> \in Seq(Frames) /\ <<>> \in Seq(Messages)
        /\ {} \subseteq Records
    BY MaxNonceIsNat
  <2>2. sendNonce \in 0..MaxNonce /\ receiveNonce \in 0..MaxNonce /\ wire \in Seq(Frames)
        /\ delivered \in Seq(Messages) /\ encrypted \subseteq Records
    BY <2>1 DEF Init
  <2>3. spc \in [Senders -> SenderPCs] /\ sent \in [Senders -> Nat]
        /\ closed \in [Endpoints -> BOOLEAN]
    BY DEF Init, SenderPCs
  <2> QED
    BY <2>2, <2>3 DEF Init, TypeOK
<1>2. SendInv
  BY <1>1 DEF Init, SendInv, WriterExclusive, LockedPCs, WriterEncrypted, NoncesUsed,
              NoNonceReuse
<1>3. Len(wire) = 0 /\ Len(delivered) = 0
  BY DEF Init
<1> QED
  BY <1>2, <1>3 DEF Init, RecvInv, WireIsEncrypted, DeliveredCounted, DeliveredInOrder

-----------------------------------------------------------------------------
(* The disturbed wire *)

\* What the relay makes of the wire consists of the records that were on it.
LEMMA DisturbedWire ==
  ASSUME TypeOK, Disturb
  PROVE  /\ wire' \in Seq(Frames)
         /\ \A i \in 1..Len(wire') : \E j \in 1..Len(wire) : wire'[i].record = wire[j].record
<1> DEFINE Kept(w) == /\ w \in Seq(Frames)
                      /\ \A i \in 1..Len(w) : \E j \in 1..Len(wire) : w[i].record = wire[j].record
<1>0. wire \in Seq(Frames) /\ DOMAIN wire = 1..Len(wire) /\ Len(wire) \in Nat
  BY DEF TypeOK
<1>1. PICK i \in DOMAIN wire :
        \/ wire' = SubSeq(wire, 1, i - 1) \o SubSeq(wire, i + 1, Len(wire))
        \/ wire' = SubSeq(wire, 1, i) \o SubSeq(wire, i, Len(wire))
        \/ wire' = [wire EXCEPT ![i].altered = TRUE]
        \/ \E j \in DOMAIN wire :
              wire' = [wire EXCEPT ![i] = wire[j], ![j] = wire[i]]
  BY DEF Disturb
<1>2. ASSUME NEW m \in Int, NEW n \in Int, 1 <= m, n <= Len(wire)
      PROVE  Kept(SubSeq(wire, m, n))
  <2>1. \A k \in m..n : wire[k] \in Frames
    BY <1>0, <1>2
  <2>2. /\ SubSeq(wire, m, n) \in Seq(Frames)
        /\ Len(SubSeq(wire, m, n)) = IF m <= n THEN n - m + 1 ELSE 0
        /\ \A k \in 1..n - m + 1 : SubSeq(wire, m, n)[k] = wire[m + k - 1]
    BY <2>1, SubSeqProperties
  <2>3. \A k \in 1..Len(SubSeq(wire, m, n)) :
          m + k - 1 \in 1..Len(wire) /\ k \in 1..n - m + 1
    BY <1>0, <1>2, <2>2
  <2> QED
    BY <2>2, <2>3
<1>3. ASSUME NEW v, NEW w, Kept(v), Kept(w)
      PROVE  Kept(v \o w)
  <2>1. /\ v \o w \in Seq(Frames)
        /\ Len(v \o w) = Len(v) + Len(w)
        /\ \A k \in 1..Len(v) + Len(w) :
              (v \o w)[k] = IF k <= Len(v) THEN v[k] ELSE w[k - Len(v)]
    BY <1>3, ConcatProperties
  <2>2. ASSUME NEW k \in 1..Len(v \o w)
        PROVE  \E j \in 1..Len(wire) : (v \o w)[k].record = wire[j].record
    <3>1. Len(v) \in Nat /\ Len(w) \in Nat
      BY <1>3
    <3>2. CASE k <= Len(v)
      <4>1. k \in 1..Len(v) /\ (v \o w)[k] = v[k]
        BY <2>1, <3>1, <3>2
      <4> QED
        BY <1>3, <4>1
    <3>3. CASE ~(k <= Len(v))
      <4>1. k - Len(v) \in 1..Len(w) /\ (v \o w)[k] = w[k - Len(v)]
        BY <2>1, <3>1, <3>3
      <4> QED
        BY <1>3, <4>1
    <3> QED
      BY <3>2, <3>3
  <2> QED
    BY <2>1, <2>2
<1> HIDE DEF Kept
<1>4. CASE wire' = SubSeq(wire, 1, i - 1) \o SubSeq(wire, i + 1, Len(wire))
  <2>1. Kept(SubSeq(wire, 1, i - 1)) /\ Kept(SubSeq(wire, i + 1, Len(wire)))
    BY <1>0, <1>2
  <2>2. Kept(SubSeq(wire, 1, i - 1) \o SubSeq(wire, i + 1, Len(wire)))
    BY <1>3, <2>1
  <2>3. Kept(wire')
    BY <1>4, <2>2
  <2> QED
    BY <2>3 DEF Kept
<1>5. CASE wire' = SubSeq(wire, 1, i) \o SubSeq(wire, i, Len(wire))
  <2>1. Kept(SubSeq(wire, 1, i)) /\ Kept(SubSeq(wire, i, Len(wire)))
    BY <1>0, <1>2
  <2>2. Kept(SubSeq(wire, 1, i) \o SubSeq(wire, i, Len(wire)))
    BY <1>3, <2>1
  <2>3. Kept(wire')
    BY <1>5, <2>2
  <2> QED
    BY <2>3 DEF Kept
<1>6. CASE wire' = [wire EXCEPT ![i].altered = TRUE]
  <2>1. wire[i] \in Frames /\ i \in 1..Len(wire)
    BY <1>0
  <2>2. [wire[i] EXCEPT !.altered = TRUE] \in Frames
        /\ [wire[i] EXCEPT !.altered = TRUE].record = wire[i].record
    BY <2>1 DEF Frames
  <2>3. wire' = [wire EXCEPT ![i] = [wire[i] EXCEPT !.altered = TRUE]]
    BY <1>6
  <2>4. wire' \in Seq(Frames) /\ Len(wire') = Len(wire)
        /\ \A j \in 1..Len(wire) : wire'[j].record = wire[j].record
    BY <1>0, <2>1, <2>2, <2>3, ExceptSeq
  <2> QED
    BY <2>4
<1>7. CASE \E j \in DOMAIN wire : wire' = [wire EXCEPT ![i] = wire[j], ![j] = wire[i]]
  <2>1. PICK j \in DOMAIN wire : wire' = [wire EXCEPT ![i] = wire[j], ![j] = wire[i]]
    BY <1>7
  <2>2. i \in 1..Len(wire) /\ j \in 1..Len(wire) /\ wire[i] \in Frames /\ wire[j] \in Frames
    BY <1>0, <2>1
  <2> DEFINE w == [wire EXCEPT ![i] = wire[j]]
  <2>3. w \in Seq(Frames) /\ Len(w) = Len(wire)
        /\ \A k \in 1..Len(wire) : w[k] = IF k = i THEN wire[j] ELSE wire[k]
    BY <1>0, <2>2, ExceptSeq
  <2>4. wire' = [w EXCEPT ![j] = wire[i]]
    BY <2>1
  <2> HIDE DEF w
  <2>5. wire' \in Seq(Frames) /\ Len(wire') = Len(wire)
        /\ \A k \in 1..Len(wire) : wire'[k] = IF k = j THEN wire[i] ELSE w[k]
    BY <2>2, <2>3, <2>4, ExceptSeq
  <2> QED
    BY <2>2, <2>3, <2>5
<1> QED
  BY <1>1, <1>4, <1>5, <1>6, <1>7 DEF Kept

-----------------------------------------------------------------------------
(* Sending *)

\* Every step keeps the shape of the state.
LEMMA ChannelTypeStep ==
  ASSUME TypeOK, WriterEncrypted, [Next]_vars
  PROVE  TypeOK'
<1> USE DEF TypeOK, SenderPCs, sending, receiving, link, Endpoints
<1>1. ASSUME NEW t \in Senders, StartSend(t) PROVE TypeOK'
  BY <1>1 DEF StartSend
<1>2. ASSUME NEW t \in Senders, LockWriter(t) PROVE TypeOK'
  BY <1>2 DEF LockWriter
<1>3. ASSUME NEW t \in Senders, CheckUnderLock(t) PROVE TypeOK'
  BY <1>3 DEF CheckUnderLock, Unlock
<1>4. ASSUME NEW t \in Senders, Encrypt(t) PROVE TypeOK'
  <2>1. Current(t) \in Records
    BY DEF Current, Message, Records, Messages
  <2> QED
    BY <1>4, <2>1 DEF Encrypt, Unlock
<1>5. ASSUME NEW t \in Senders, Write(t) PROVE TypeOK'
  <2>1. Frame(t, TRUE) \in Frames
    BY DEF Frame, Frames, Current, Message, Records, Messages
  <2>2. wire' \in Seq(Frames)
    BY <1>5, <2>1, AppendProperties DEF Write
  <2>3. sendNonce < MaxNonce
    BY <1>5 DEF Write, WriterEncrypted
  <2>4. sendNonce' \in 0..MaxNonce
    BY <1>5, <2>3, MaxNonceIsNat DEF Write
  <2> QED
    BY <1>5, <2>2, <2>4 DEF Write, Unlock
<1>6. ASSUME NEW t \in Senders, WriteCut(t) PROVE TypeOK'
  BY <1>6 DEF WriteCut
<1>7. ASSUME NEW t \in Senders, FailSend(t) PROVE TypeOK'
  BY <1>7 DEF FailSend, Unlock
<1>8. ASSUME NEW t \in Senders, WriteTimeout(t) PROVE TypeOK'
  <2>1. Frame(t, FALSE) \in Frames
    BY DEF Frame, Frames, Current, Message, Records, Messages
  <2>2. wire' \in Seq(Frames)
    BY <1>8, <2>1, AppendProperties DEF WriteTimeout
  <2> QED
    BY <1>8, <2>2 DEF WriteTimeout
<1>9. CASE StartRecv
  BY <1>9 DEF StartRecv
<1>10. CASE Recv
  <2>1. Head(wire) \in Frames /\ Tail(wire) \in Seq(Frames)
    BY <1>10, HeadTailProperties DEF Recv
  <2>2. Head(wire).record.message \in Messages
    BY <2>1 DEF Frames, Records
  <2>3. receiveNonce' \in 0..MaxNonce
    BY <1>10, MaxNonceIsNat DEF Recv, NonceLeft
  <2>4. delivered' \in Seq(Messages)
    <3> DEFINE m == Head(wire).record.message
    <3>1. delivered' = delivered \/ delivered' = Append(delivered, m)
      BY <1>10 DEF Recv
    <3> HIDE DEF m
    <3>2. m \in Messages /\ delivered \in Seq(Messages)
      BY <2>2 DEF m
    <3>3. Append(delivered, m) \in Seq(Messages)
      BY <3>2, AppendProperties
    <3> QED
      BY <3>1, <3>2, <3>3
  <2>5. closed' \in [Endpoints -> BOOLEAN] /\ cut' \in BOOLEAN
    BY <1>10 DEF Recv
  <2> QED
    BY <1>10, <2>1, <2>3, <2>4, <2>5 DEF Recv
<1>11. CASE RecvCut
  BY <1>11 DEF RecvCut, FailRecv
<1>12. CASE RecvTimeout
  BY <1>12 DEF RecvTimeout, FailRecv
<1>13. CASE ShutdownSocket
  BY <1>13 DEF ShutdownSocket
<1>14. CASE Disturb
  <2>1. wire' \in Seq(Frames)
    BY <1>14, DisturbedWire
  <2> QED
    BY <1>14, <2>1 DEF Disturb
<1>15. CASE LoseConnection
  BY <1>15 DEF LoseConnection
<1>16. ASSUME NEW e \in Endpoints, SetClosed(e) PROVE TypeOK'
  BY <1>16 DEF SetClosed
<1>17. CASE UNCHANGED vars
  BY <1>17 DEF vars
<1> QED
  BY <1>1, <1>2, <1>3, <1>4, <1>5, <1>6, <1>7, <1>8, <1>9, <1>10, <1>11,
     <1>12, <1>13, <1>14, <1>15, <1>16, <1>17 DEF Next, SendStep, RecvStep

\* The writer lock is a lock.
LEMMA ExclusiveStep ==
  ASSUME TypeOK, WriterExclusive, [Next]_vars
  PROVE  WriterExclusive'
<1> USE DEF TypeOK, WriterExclusive, LockedPCs, sending
<1>1. ASSUME NEW t \in Senders, StartSend(t) PROVE WriterExclusive'
  BY <1>1 DEF StartSend
<1>2. ASSUME NEW t \in Senders, LockWriter(t) PROVE WriterExclusive'
  BY <1>2, NoSenderIsNone DEF LockWriter
<1>3. ASSUME NEW t \in Senders, CheckUnderLock(t) PROVE WriterExclusive'
  BY <1>3 DEF CheckUnderLock, Unlock
<1>4. ASSUME NEW t \in Senders, Encrypt(t) PROVE WriterExclusive'
  BY <1>4 DEF Encrypt, Unlock, NonceLeft
<1>5. ASSUME NEW t \in Senders, Write(t) PROVE WriterExclusive'
  BY <1>5 DEF Write, Unlock, Frame
<1>6. ASSUME NEW t \in Senders, WriteCut(t) PROVE WriterExclusive'
  BY <1>6 DEF WriteCut
<1>7. ASSUME NEW t \in Senders, FailSend(t) PROVE WriterExclusive'
  BY <1>7 DEF FailSend, Unlock
<1>8. ASSUME NEW t \in Senders, WriteTimeout(t) PROVE WriterExclusive'
  BY <1>8 DEF WriteTimeout, Frame
<1>9. CASE StartRecv
  BY <1>9 DEF StartRecv
<1>10. CASE Recv
  BY <1>10 DEF Recv, NonceLeft, Decrypts
<1>11. CASE RecvCut
  BY <1>11 DEF RecvCut, FailRecv
<1>12. CASE RecvTimeout
  BY <1>12 DEF RecvTimeout, FailRecv
<1>13. CASE ShutdownSocket
  BY <1>13 DEF ShutdownSocket
<1>14. CASE Disturb
  BY <1>14 DEF Disturb
<1>15. CASE LoseConnection
  BY <1>15 DEF LoseConnection
<1>16. ASSUME NEW e \in Endpoints, SetClosed(e) PROVE WriterExclusive'
  BY <1>16 DEF SetClosed
<1>17. CASE UNCHANGED vars
  BY <1>17 DEF vars
<1> QED
  BY <1>1, <1>2, <1>3, <1>4, <1>5, <1>6, <1>7, <1>8, <1>9, <1>10, <1>11,
     <1>12, <1>13, <1>14, <1>15, <1>16, <1>17 DEF Next, SendStep, RecvStep

\* A thread that writes goes on with what it encrypted.
LEMMA EncryptedStep ==
  ASSUME TypeOK, WriterExclusive, WriterEncrypted, [Next]_vars
  PROVE  WriterEncrypted'
<1> USE DEF TypeOK, WriterExclusive, LockedPCs, WriterEncrypted, Current, Message, sending
<1>1. ASSUME NEW t \in Senders, StartSend(t) PROVE WriterEncrypted'
  BY <1>1 DEF StartSend
<1>2. ASSUME NEW t \in Senders, LockWriter(t) PROVE WriterEncrypted'
  BY <1>2 DEF LockWriter
<1>3. ASSUME NEW t \in Senders, CheckUnderLock(t) PROVE WriterEncrypted'
  BY <1>3 DEF CheckUnderLock, Unlock
<1>4. ASSUME NEW t \in Senders, Encrypt(t) PROVE WriterEncrypted'
  BY <1>4 DEF Encrypt, Unlock, NonceLeft
<1>5. ASSUME NEW t \in Senders, Write(t) PROVE WriterEncrypted'
  BY <1>5 DEF Write, Unlock, Frame
<1>6. ASSUME NEW t \in Senders, WriteCut(t) PROVE WriterEncrypted'
  BY <1>6 DEF WriteCut
<1>7. ASSUME NEW t \in Senders, FailSend(t) PROVE WriterEncrypted'
  BY <1>7 DEF FailSend, Unlock
<1>8. ASSUME NEW t \in Senders, WriteTimeout(t) PROVE WriterEncrypted'
  BY <1>8 DEF WriteTimeout, Frame
<1>9. CASE StartRecv
  BY <1>9 DEF StartRecv
<1>10. CASE Recv
  BY <1>10 DEF Recv, NonceLeft, Decrypts
<1>11. CASE RecvCut
  BY <1>11 DEF RecvCut, FailRecv
<1>12. CASE RecvTimeout
  BY <1>12 DEF RecvTimeout, FailRecv
<1>13. CASE ShutdownSocket
  BY <1>13 DEF ShutdownSocket
<1>14. CASE Disturb
  BY <1>14 DEF Disturb
<1>15. CASE LoseConnection
  BY <1>15 DEF LoseConnection
<1>16. ASSUME NEW e \in Endpoints, SetClosed(e) PROVE WriterEncrypted'
  BY <1>16 DEF SetClosed
<1>17. CASE UNCHANGED vars
  BY <1>17 DEF vars
<1> QED
  BY <1>1, <1>2, <1>3, <1>4, <1>5, <1>6, <1>7, <1>8, <1>9, <1>10, <1>11,
     <1>12, <1>13, <1>14, <1>15, <1>16, <1>17 DEF Next, SendStep, RecvStep

\* Nonces are used one after the other, and a burned one is the last.
LEMMA NoncesStep ==
  ASSUME TypeOK, WriterExclusive, WriterEncrypted, NoncesUsed, [Next]_vars
  PROVE  NoncesUsed'
<1> USE DEF TypeOK, WriterExclusive, LockedPCs, WriterEncrypted, NoncesUsed, Burned, Current, Message, sending
<1>1. ASSUME NEW t \in Senders, StartSend(t) PROVE NoncesUsed'
  BY <1>1 DEF StartSend
<1>2. ASSUME NEW t \in Senders, LockWriter(t) PROVE NoncesUsed'
  BY <1>2 DEF LockWriter
<1>3. ASSUME NEW t \in Senders, CheckUnderLock(t) PROVE NoncesUsed'
  BY <1>3 DEF CheckUnderLock, Unlock
<1>4. ASSUME NEW t \in Senders, Encrypt(t) PROVE NoncesUsed'
  BY <1>4 DEF Encrypt, Unlock, NonceLeft
<1>5. ASSUME NEW t \in Senders, Write(t) PROVE NoncesUsed'
  <2> SUFFICES ASSUME NEW r \in encrypted PROVE r.nonce < sendNonce'
    BY <1>5 DEF Write
  <2>1. r.nonce \in Nat /\ sendNonce \in Nat /\ sendNonce' = sendNonce + 1
    BY <1>5, MaxNonceIsNat DEF Write, Records
  <2>2. ASSUME NEW u \in Senders, spc[u] \in {"write", "failed"}, r = Current(u)
        PROVE  r.nonce = sendNonce
    BY <2>2
  <2>3. r.nonce <= sendNonce
    BY <1>5, <2>1, <2>2
  <2> QED
    BY <2>1, <2>3
<1>6. ASSUME NEW t \in Senders, WriteCut(t) PROVE NoncesUsed'
  BY <1>6 DEF WriteCut
<1>7. ASSUME NEW t \in Senders, FailSend(t) PROVE NoncesUsed'
  <2>1. encrypted' = encrypted /\ sendNonce' = sendNonce /\ sent' = sent
        /\ spc[t] = "failed" /\ spc' = [spc EXCEPT ![t] = "idle"]
    BY <1>7 DEF FailSend, Unlock
  <2>2. Burned'
    BY <1>7, <2>1 DEF FailSend, Endpoints
  <2>3. ASSUME NEW r \in encrypted
        PROVE  r.nonce < sendNonce \/ r.nonce = sendNonce
    <3>1. ASSUME NEW u \in Senders, spc[u] \in {"write", "failed"}, r = Current(u)
          PROVE  r.nonce = sendNonce
      BY <3>1
    <3> QED
      BY <3>1
  <2> QED
    BY <2>1, <2>2, <2>3
<1>8. ASSUME NEW t \in Senders, WriteTimeout(t) PROVE NoncesUsed'
  BY <1>8 DEF WriteTimeout, Frame
<1>9. CASE StartRecv
  BY <1>9 DEF StartRecv
<1>10. CASE Recv
  <2>1. closed'["sender"] = closed["sender"] /\ UNCHANGED sending
    BY <1>10 DEF Recv, Endpoints
  <2> QED
    BY <2>1
<1>11. CASE RecvCut
  BY <1>11 DEF RecvCut, FailRecv
<1>12. CASE RecvTimeout
  BY <1>12 DEF RecvTimeout, FailRecv
<1>13. CASE ShutdownSocket
  BY <1>13 DEF ShutdownSocket
<1>14. CASE Disturb
  BY <1>14 DEF Disturb
<1>15. CASE LoseConnection
  BY <1>15 DEF LoseConnection
<1>16. ASSUME NEW e \in Endpoints, SetClosed(e) PROVE NoncesUsed'
  BY <1>16 DEF SetClosed
<1>17. CASE UNCHANGED vars
  BY <1>17 DEF vars
<1> QED
  BY <1>1, <1>2, <1>3, <1>4, <1>5, <1>6, <1>7, <1>8, <1>9, <1>10, <1>11,
     <1>12, <1>13, <1>14, <1>15, <1>16, <1>17 DEF Next, SendStep, RecvStep

\* A record is encrypted under a nonce that no earlier record has.
LEMMA NoReuseStep ==
  ASSUME TypeOK, WriterExclusive, WriterEncrypted, NoncesUsed, NoNonceReuse, [Next]_vars
  PROVE  NoNonceReuse'
<1>1. ASSUME NEW t \in Senders, Encrypt(t), encrypted' # encrypted
      PROVE  NoNonceReuse'
  <2>1. encrypted' = encrypted \cup {Current(t)} /\ Current(t).nonce = sendNonce
        /\ spc[t] = "encrypt"
    BY <1>1 DEF Encrypt, Current
  <2>2. ASSUME NEW r \in encrypted
        PROVE  r.nonce # sendNonce
    <3>1. r.nonce \in Nat /\ sendNonce \in Nat
      BY MaxNonceIsNat DEF TypeOK, Records
    <3>2. ~Burned
      BY <2>1 DEF Burned
    <3>3. \A u \in Senders : spc[u] \notin {"write", "failed"}
      BY <2>1 DEF WriterExclusive, LockedPCs
    <3> QED
      BY <3>1, <3>2, <3>3 DEF NoncesUsed
  <2> QED
    BY <2>1, <2>2 DEF NoNonceReuse
<1>2. CASE encrypted' = encrypted
  BY <1>2 DEF NoNonceReuse
<1>3. encrypted' # encrypted => \E t \in Senders : Encrypt(t)
  BY DEF Next, SendStep, RecvStep, vars, sending, StartSend, LockWriter, CheckUnderLock,
         Write, WriteCut, FailSend, WriteTimeout, StartRecv, Recv, RecvCut, RecvTimeout,
         FailRecv, SetClosed, ShutdownSocket, Disturb, LoseConnection
<1> QED
  BY <1>1, <1>2, <1>3

\* Every step keeps what is known of the sending end.
LEMMA SendInvStep == SendInv /\ [Next]_vars => SendInv'
  BY ChannelTypeStep, ExclusiveStep, EncryptedStep, NoncesStep, NoReuseStep DEF SendInv

\* The invariant of the sending end holds in every reachable state.
LEMMA SendInvHolds == Spec => []SendInv
<1>1. Init => SendInv
  BY ChannelInit
<1> QED
  BY <1>1, SendInvStep, PTL DEF Spec

-----------------------------------------------------------------------------
(* Receiving *)

\* Nothing is ever un-encrypted.
LEMMA EncryptedGrows ==
  ASSUME [Next]_vars
  PROVE  encrypted \subseteq encrypted'
  BY DEF Next, SendStep, RecvStep, vars, sending, StartSend, LockWriter, CheckUnderLock,
         Encrypt, Write, WriteCut, FailSend, WriteTimeout, StartRecv, Recv, RecvCut,
         RecvTimeout, FailRecv, SetClosed, ShutdownSocket, Disturb, LoseConnection

\* What is on the wire was encrypted, or comes from the wire.
LEMMA WireStep ==
  ASSUME TypeOK, WriterEncrypted, WireIsEncrypted, [Next]_vars
  PROVE  WireIsEncrypted'
<1>0. encrypted \subseteq encrypted' /\ wire \in Seq(Frames) /\ Len(wire) \in Nat
  BY EncryptedGrows DEF TypeOK
<1>1. ASSUME NEW t \in Senders, NEW whole \in BOOLEAN, spc[t] = "write",
             wire' = Append(wire, Frame(t, whole))
      PROVE  WireIsEncrypted'
  <2>1. Frame(t, whole) \in Frames /\ Frame(t, whole).record = Current(t)
    BY DEF Frame, Frames, Current, Message, Records, Messages, TypeOK
  <2>2. Current(t) \in encrypted
    BY <1>1 DEF WriterEncrypted
  <2> DEFINE f == Frame(t, whole)
  <2> HIDE DEF f
  <2>3. Len(wire') = Len(wire) + 1 /\ wire'[Len(wire) + 1] = f
        /\ \A i \in 1..Len(wire) : wire'[i] = wire[i]
    BY <1>0, <1>1, <2>1, AppendProperties DEF f
  <2>4. f.record \in encrypted
    BY <2>1, <2>2 DEF f
  <2>5. \A i \in 1..Len(wire') : i \in 1..Len(wire) \/ i = Len(wire) + 1
    BY <1>0, <2>3
  <2> QED
    BY <1>0, <2>3, <2>4, <2>5 DEF WireIsEncrypted
<1>2. CASE Recv
  <2>1. wire' = Tail(wire) /\ wire # <<>>
    BY <1>2 DEF Recv
  <2>2. Len(wire') = Len(wire) - 1 /\ \A i \in 1..Len(wire') : wire'[i] = wire[i + 1]
    BY <1>0, <2>1, HeadTailProperties
  <2>3. \A i \in 1..Len(wire') : i + 1 \in 1..Len(wire)
    BY <1>0, <2>2
  <2> QED
    BY <1>0, <2>2, <2>3 DEF WireIsEncrypted
<1>3. CASE Disturb
  BY <1>0, <1>3, DisturbedWire DEF WireIsEncrypted
<1>4. CASE wire' = wire
  BY <1>0, <1>4 DEF WireIsEncrypted
<1>5. \/ wire' = wire \/ Recv \/ Disturb
      \/ \E t \in Senders, whole \in BOOLEAN :
            spc[t] = "write" /\ wire' = Append(wire, Frame(t, whole))
  BY DEF Next, SendStep, RecvStep, vars, link, StartSend, LockWriter, CheckUnderLock,
         Encrypt, Write, WriteCut, FailSend, WriteTimeout, StartRecv, RecvCut,
         RecvTimeout, FailRecv, SetClosed, ShutdownSocket, LoseConnection
<1> QED
  BY <1>1, <1>2, <1>3, <1>4, <1>5

\* The receiver takes the record of the next nonce, or is done.
LEMMA ReceiveStep ==
  ASSUME TypeOK, WireIsEncrypted, DeliveredCounted, DeliveredInOrder, [Next]_vars
  PROVE  DeliveredCounted' /\ DeliveredInOrder'
<1>0. /\ encrypted \subseteq encrypted'
      /\ delivered \in Seq(Messages) /\ Len(delivered) \in Nat /\ receiveNonce \in Nat
      /\ closed \in [Endpoints -> BOOLEAN]
  BY EncryptedGrows, MaxNonceIsNat DEF TypeOK
<1>1. CASE Recv
  <2>1. rpc = "read" /\ rpc' = "idle" /\ wire # <<>> /\ receiveNonce = Len(delivered)
    BY <1>1 DEF Recv, DeliveredCounted
  <2> DEFINE r == Head(wire).record
  <2>2. r \in encrypted /\ r \in Records
    <3>1. Head(wire) = wire[1] /\ 1 \in 1..Len(wire)
      BY <2>1 DEF TypeOK
    <3> QED
      BY <3>1 DEF WireIsEncrypted, TypeOK
  <2>3. CASE delivered' = delivered /\ receiveNonce' = receiveNonce
    BY <1>0, <2>1, <2>3 DEF DeliveredCounted, DeliveredInOrder
  <2>4. CASE delivered' = delivered /\ closed' = [closed EXCEPT !["receiver"] = TRUE]
    BY <1>0, <2>1, <2>4 DEF DeliveredCounted, DeliveredInOrder, Endpoints
  <2>5. CASE /\ r.nonce = receiveNonce
             /\ receiveNonce' = receiveNonce + 1
             /\ delivered' = Append(delivered, r.message)
    <3>1. r.message \in Messages /\ r = [nonce |-> receiveNonce, message |-> r.message]
      BY <2>2, <2>5 DEF Records
    <3> HIDE DEF r
    <3>2. /\ Len(delivered') = Len(delivered) + 1
          /\ delivered'[Len(delivered) + 1] = r.message
          /\ \A i \in 1..Len(delivered) : delivered'[i] = delivered[i]
      BY <1>0, <2>5, <3>1, AppendProperties
    <3>3. DeliveredCounted'
      BY <2>1, <2>5, <3>2 DEF DeliveredCounted
    <3>4. ASSUME NEW i \in 1..Len(delivered')
          PROVE  [nonce |-> i - 1, message |-> delivered'[i]] \in encrypted'
      <4>1. CASE i \in 1..Len(delivered)
        BY <1>0, <3>2, <4>1 DEF DeliveredInOrder
      <4>2. CASE i = Len(delivered) + 1
        <5>1. i - 1 = receiveNonce /\ delivered'[i] = r.message
          BY <1>0, <2>1, <3>2, <4>2
        <5> QED
          BY <1>0, <2>2, <3>1, <5>1
      <4> QED
        BY <1>0, <3>2, <4>1, <4>2
    <3> QED
      BY <3>3, <3>4 DEF DeliveredInOrder
  <2> QED
    BY <1>1, <2>3, <2>4, <2>5 DEF Recv, Decrypts
<1>2. CASE FailRecv
  BY <1>0, <1>2 DEF FailRecv, DeliveredCounted, DeliveredInOrder, Endpoints
<1>3. CASE /\ delivered' = delivered /\ receiveNonce' = receiveNonce
           /\ closed["receiver"] => closed'["receiver"] /\ rpc' = rpc
  BY <1>0, <1>3 DEF DeliveredCounted, DeliveredInOrder
<1>4. \/ Recv \/ FailRecv
      \/ /\ delivered' = delivered /\ receiveNonce' = receiveNonce
         /\ closed["receiver"] => closed'["receiver"] /\ rpc' = rpc
  BY <1>0 DEF Next, SendStep, RecvStep, vars, receiving, StartSend, LockWriter,
         CheckUnderLock, Encrypt, Write, WriteCut, FailSend, WriteTimeout, StartRecv,
         RecvCut, RecvTimeout, SetClosed, ShutdownSocket, Disturb, LoseConnection,
         Endpoints
<1> QED
  BY <1>1, <1>2, <1>3, <1>4

\* Every step keeps what is known of the receiving end.
LEMMA RecvInvStep == SendInv /\ RecvInv /\ [Next]_vars => RecvInv'
  BY WireStep, ReceiveStep DEF SendInv, RecvInv

-----------------------------------------------------------------------------
(* The theorems *)

\* Both nonce counters stay within their range: neither ever wraps around,
\* for the checked addition refuses the last value.
THEOREM ChannelTyped == Spec => []TypeOK
<1>1. SendInv => TypeOK
  BY DEF SendInv
<1> QED
  BY <1>1, SendInvHolds, PTL

\* No nonce is used twice, for any number of threads, whatever fails and
\* whenever the channel is shut down.
THEOREM NoncesAreFresh == Spec => []NoNonceReuse
<1>1. SendInv => NoNonceReuse
  BY DEF SendInv
<1> QED
  BY <1>1, SendInvHolds, PTL

\* What is delivered was sent, in order and without gaps, whatever the relay
\* drops, repeats, swaps or alters, as often as it likes.
THEOREM DeliveryIsInOrder == Spec => []DeliveredInOrder
<1>1. Init => RecvInv
  BY ChannelInit
<1>2. RecvInv => DeliveredInOrder
  BY DEF RecvInv
<1> QED
  BY <1>1, <1>2, RecvInvStep, SendInvHolds, PTL DEF Spec

(***************************************************************************)
(*                               The session                               *)
(***************************************************************************)

\* The request is kept until the session closes, and nothing is authorized
\* before it is active.
RequestKept ==
  /\ session.phase \in {"AwaitingApproval", "Active"} => session.request = asked
  /\ session.phase \in {"AwaitingRequest", "AwaitingApproval"} => accepted = <<>>

\* An active session counts its inputs, and all of them belong to its grant.
InputsCounted ==
  session.phase = "Active" =>
     /\ session.next = Len(accepted)
     /\ \A i \in 1..Len(accepted) : /\ accepted[i].session = session.grant.session
                                    /\ accepted[i].epoch = session.grant.epoch

SessionInv == SessionTypeOK /\ RequestKept /\ NoEscalation /\ InputsCounted /\ InputsExact

-----------------------------------------------------------------------------
(* Type correctness *)

\* A fresh session has its shape.
LEMMA InitTyped == SessionInit => SessionTypeOK
  BY MaxSequenceIsNat DEF SessionInit, SessionTypeOK, NewSession, Phases

\* Every operation keeps the shape of the session.
LEMMA NextTyped == SessionTypeOK /\ [SessionNext]_sessionVars => SessionTypeOK'
<1> SUFFICES ASSUME SessionTypeOK, [SessionNext]_sessionVars
             PROVE  SessionTypeOK'
    OBVIOUS
<1> USE DEF SessionTypeOK
<1>1. CASE RegisterRequest
  <2> PICK request \in Requests : /\ session' = Registered(session, request)
                                  /\ asked' = request
      BY <1>1 DEF RegisterRequest
  <2> QED
      BY <1>1 DEF RegisterRequest, Registered, Phases
<1>2. CASE Activate
  <2> PICK grant \in Grants : session' = Activated(session, grant)
      BY <1>2 DEF Activate
  <2>1. "Active" \in Phases /\ 0 \in 0..MaxSequence
      BY MaxSequenceIsNat DEF Phases
  <2>2. session' = [session EXCEPT !.grant = grant, !.next = 0, !.phase = "Active"]
      BY DEF Activated
  <2>3. session' \in [phase : Phases, request : Requests \cup {NoRequest},
                      grant : Grants \cup {NoGrant}, next : 0..MaxSequence]
      BY <2>1, <2>2
  <2> QED
      BY <1>2, <2>3 DEF Activate
<1>3. CASE AuthorizeInput
  <2> PICK input \in Inputs : /\ MayAuthorize(session, input)
                              /\ session' = Authorized(session)
                              /\ accepted' = Append(accepted, input)
      BY <1>3 DEF AuthorizeInput
  <2>1. session.next + 1 \in 0..MaxSequence
      BY MaxSequenceIsNat DEF MayAuthorize
  <2>2. session' = [session EXCEPT !.next = session.next + 1]
      BY DEF Authorized
  <2>3. session' \in [phase : Phases, request : Requests \cup {NoRequest},
                      grant : Grants \cup {NoGrant}, next : 0..MaxSequence]
      BY <2>1, <2>2
  <2>4. accepted' \in Seq(Inputs)
      OBVIOUS
  <2> QED
      BY <1>3, <2>3, <2>4 DEF AuthorizeInput
<1>4. CASE Close
      BY <1>4, MaxSequenceIsNat DEF Close, Closed, Phases
<1>5. CASE UNCHANGED sessionVars
      BY <1>5 DEF sessionVars
<1> QED
    BY <1>1, <1>2, <1>3, <1>4, <1>5 DEF SessionNext

\* The state of a session keeps its shape; in particular the sequence number
\* never passes the last one.
THEOREM SessionTyped == SessionSpec => []SessionTypeOK
<1>1. SessionInit => SessionTypeOK
    BY InitTyped
<1>2. SessionTypeOK /\ [SessionNext]_sessionVars => SessionTypeOK'
    BY NextTyped
<1> QED
    BY <1>1, <1>2, PTL DEF SessionSpec

-----------------------------------------------------------------------------
(* The invariant *)

\* A fresh session holds nothing.
LEMMA InitSession == SessionInit => SessionInv
<1> SUFFICES ASSUME SessionInit
             PROVE  SessionInv
    OBVIOUS
<1>1. SessionTypeOK
    BY InitTyped
<1>2. session.phase = "AwaitingRequest" /\ accepted = <<>>
    BY DEF SessionInit, NewSession
<1> QED
    BY <1>1, <1>2 DEF SessionInv, RequestKept, NoEscalation, InputsCounted, InputsExact

\* An accepted request is the one remembered; nothing was authorized yet.
LEMMA RegisterKeeps == SessionInv /\ RegisterRequest => SessionInv'
<1> SUFFICES ASSUME SessionInv, RegisterRequest
             PROVE  SessionInv'
    OBVIOUS
<1>1. SessionTypeOK'
    BY NextTyped DEF SessionInv, SessionNext
<1> PICK request \in Requests : /\ MayRegister(session, request)
                                /\ session' = Registered(session, request)
                                /\ asked' = request
    BY DEF RegisterRequest
<1>2. accepted' = <<>>
    BY DEF SessionInv, RequestKept, MayRegister, RegisterRequest
<1>3. session'.phase = "AwaitingApproval" /\ session'.request = asked'
    BY DEF SessionInv, SessionTypeOK, Registered
<1> QED
    BY <1>1, <1>2, <1>3 DEF SessionInv, RequestKept, NoEscalation, InputsCounted, InputsExact

\* A grant is within the request, and the count starts at 0.
LEMMA ActivateKeeps == SessionInv /\ Activate => SessionInv'
<1> SUFFICES ASSUME SessionInv, Activate
             PROVE  SessionInv'
    OBVIOUS
<1>1. SessionTypeOK'
    BY NextTyped DEF SessionInv, SessionNext
<1> PICK grant \in Grants : /\ MayActivate(session, grant)
                            /\ session' = Activated(session, grant)
    BY DEF Activate
<1>2. session.phase = "AwaitingApproval" /\ accepted' = <<>> /\ asked' = asked
    BY DEF SessionInv, RequestKept, MayActivate, Activate
<1>3. /\ session'.phase = "Active" /\ session'.next = 0
      /\ session'.grant = grant /\ session'.request = session.request
    BY DEF SessionInv, SessionTypeOK, Activated
<1>4. grant.permissions \subseteq asked'.permissions
    BY <1>2 DEF SessionInv, RequestKept, MayActivate
<1> QED
    BY <1>1, <1>2, <1>3, <1>4 DEF SessionInv, RequestKept, NoEscalation, InputsCounted, InputsExact

\* The authorized input is the next one, of the grant, and allowed by it.
LEMMA AuthorizeKeeps == SessionInv /\ AuthorizeInput => SessionInv'
<1> SUFFICES ASSUME SessionInv, AuthorizeInput
             PROVE  SessionInv'
    OBVIOUS
<1>1. SessionTypeOK'
    BY NextTyped DEF SessionInv, SessionNext
<1> PICK input \in Inputs : /\ MayAuthorize(session, input)
                            /\ session' = Authorized(session)
                            /\ accepted' = Append(accepted, input)
    BY DEF AuthorizeInput
<1>2. /\ session.phase = "Active" /\ asked' = asked
      /\ RequiredPermission(input.event) \in session.grant.permissions
      /\ input.session = session.grant.session /\ input.epoch = session.grant.epoch
      /\ input.sequence = session.next
    BY DEF MayAuthorize, HasActivePermission, AuthorizeInput
<1>3. /\ session'.phase = session.phase /\ session'.grant = session.grant
      /\ session'.request = session.request /\ session'.next = session.next + 1
    BY DEF SessionInv, SessionTypeOK, Authorized
<1>4. /\ accepted \in Seq(Inputs)
      /\ Len(accepted') = Len(accepted) + 1
      /\ \A i \in 1..Len(accepted) : accepted'[i] = accepted[i]
      /\ accepted'[Len(accepted) + 1] = input
    BY DEF SessionInv, SessionTypeOK
<1>5. RequestKept'
    BY <1>2, <1>3 DEF SessionInv, RequestKept
<1>6. NoEscalation'
    BY <1>2, <1>3 DEF SessionInv, NoEscalation
<1>7. InputsCounted'
  <2>1. session'.next = Len(accepted')
      BY <1>2, <1>3, <1>4 DEF SessionInv, InputsCounted
  <2>2. ASSUME NEW i \in 1..Len(accepted')
        PROVE  /\ accepted'[i].session = session'.grant.session
               /\ accepted'[i].epoch = session'.grant.epoch
    <3>1. CASE i \in 1..Len(accepted)
        BY <1>2, <1>3, <1>4, <3>1 DEF SessionInv, InputsCounted
    <3>2. CASE i = Len(accepted) + 1
        BY <1>2, <1>3, <1>4, <3>2
    <3> QED
        BY <1>4, <3>1, <3>2
  <2> QED
      BY <2>1, <2>2 DEF InputsCounted
<1>8. InputsExact'
  <2>1. ASSUME NEW i \in 1..Len(accepted')
        PROVE  /\ accepted'[i].sequence = i - 1
               /\ RequiredPermission(accepted'[i].event) \in asked'.permissions
    <3>1. CASE i \in 1..Len(accepted)
        BY <1>2, <1>4, <3>1 DEF SessionInv, InputsExact
    <3>2. CASE i = Len(accepted) + 1
      <4>1. session.next = Len(accepted)
          BY <1>2 DEF SessionInv, InputsCounted
      <4>2. RequiredPermission(input.event) \in asked.permissions
          BY <1>2 DEF SessionInv, NoEscalation
      <4> QED
          BY <1>2, <1>4, <3>2, <4>1, <4>2
    <3> QED
        BY <1>4, <3>1, <3>2
  <2>2. \A i \in 1..Len(accepted') : /\ accepted'[i].session = accepted'[1].session
                                     /\ accepted'[i].epoch = accepted'[1].epoch
    <3>1. 1 \in 1..Len(accepted')
        BY <1>4
    <3> QED
        BY <1>2, <1>3, <1>7, <3>1 DEF InputsCounted
  <2> QED
      BY <2>1, <2>2 DEF InputsExact
<1> QED
    BY <1>1, <1>5, <1>6, <1>7, <1>8 DEF SessionInv

\* A closed session keeps only its history.
LEMMA CloseKeeps == SessionInv /\ Close => SessionInv'
<1> SUFFICES ASSUME SessionInv, Close
             PROVE  SessionInv'
    OBVIOUS
<1>1. SessionTypeOK'
    BY NextTyped DEF SessionInv, SessionNext
<1>2. session'.phase = "Closed" /\ accepted' = accepted /\ asked' = asked
    BY DEF Close, Closed
<1>3. InputsExact'
    BY <1>2 DEF SessionInv, InputsExact
<1> QED
    BY <1>1, <1>2, <1>3 DEF SessionInv, RequestKept, NoEscalation, InputsCounted

\* The invariant is inductive.
THEOREM SessionCorrect == SessionSpec => []SessionInv
<1>1. SessionInit => SessionInv
    BY InitSession
<1>2. SessionInv /\ [SessionNext]_sessionVars => SessionInv'
  <2> SUFFICES ASSUME SessionInv, [SessionNext]_sessionVars
               PROVE  SessionInv'
      OBVIOUS
  <2>1. CASE UNCHANGED sessionVars
      BY <2>1 DEF sessionVars, SessionInv, SessionTypeOK, RequestKept, NoEscalation,
         InputsCounted, InputsExact
  <2> QED
      BY <2>1, RegisterKeeps, ActivateKeeps, AuthorizeKeeps, CloseKeeps DEF SessionNext
<1> QED
    BY <1>1, <1>2, PTL DEF SessionSpec

-----------------------------------------------------------------------------
(* What follows *)

\* A peer cannot raise its own permissions: an active session's grant is within
\* the one request it registered (activate compares them).
THEOREM PermissionsNeverGrow == SessionSpec => []NoEscalation
<1>1. SessionInv => NoEscalation
    BY DEF SessionInv
<1> QED
    BY <1>1, SessionCorrect, PTL

\* The authorized inputs are numbered from 0 without a gap, belong to one
\* session and epoch, and were all allowed (authorize_input).
THEOREM InputsNeverReplayed == SessionSpec => []InputsExact
<1>1. SessionInv => InputsExact
    BY DEF SessionInv
<1> QED
    BY <1>1, SessionCorrect, PTL

\* Nothing reopens a closed session.
THEOREM CloseIsFinal == SessionSpec => ClosedForGood
<1>1. [SessionNext]_sessionVars
        => [session.phase = "Closed" => session'.phase = "Closed" /\ accepted' = accepted]_sessionVars
    BY DEF SessionNext, RegisterRequest, Activate, AuthorizeInput, Close, Closed,
           MayRegister, MayActivate, MayAuthorize, HasActivePermission
<1> QED
    BY <1>1, PTL DEF SessionSpec, ClosedForGood

=============================================================================
