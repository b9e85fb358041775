--------------------------- MODULE SecureChannel ---------------------------
(***************************************************************************)
(* One direction of the encrypted channel of                               *)
(* crates/rustview-core/src/secure.rs: the clones of one endpoint send     *)
(* from several threads under the writer lock, the clones of the other     *)
(* endpoint receive under the reader lock, and anyone may call the         *)
(* lock-free shutdown of either endpoint at any time.  Between them lies   *)
(* the untrusted relay, which may drop, duplicate, swap or alter records.  *)
(* A record stands for its nonce and the message it encrypts; decryption   *)
(* succeeds exactly on an unaltered record of the expected nonce.          *)
(***************************************************************************)
EXTENDS Integers, Sequences, FiniteSets

CONSTANTS Senders,     \* threads that send through a clone of the channel
          NoSender,    \* nobody holds the writer lock
          MaxNonce,    \* u64::MAX
          MaxSends,    \* bound: messages per sending thread
          Capacity,    \* bound: records in flight before a write blocks
          MaxFaults    \* bound: records the relay disturbs

ASSUME NoSenderIsNone == NoSender \notin Senders
ASSUME MaxNonceIsNat == MaxNonce \in Nat
ASSUME BoundsAreNat == MaxSends \in Nat /\ Capacity \in Nat /\ MaxFaults \in Nat

VARIABLES
  spc,           \* where each sending thread is
  sent,          \* messages each thread has tried to send
  writer,        \* holder of the writer lock
  sendNonce,     \* send_nonce of the sending endpoint
  encrypted,     \* every record ever produced under the session key
  wire,          \* records on their way
  rpc,           \* where the receiving thread is
  receiveNonce,  \* receive_nonce of the receiving endpoint
  delivered,     \* messages returned by recv
  closed,        \* the closed flag of each endpoint
  cut,           \* the TCP connection has been shut down
  faults         \* records disturbed so far

sending == <<spc, sent, writer, sendNonce, encrypted>>
receiving == <<rpc, receiveNonce, delivered>>
link == <<wire, faults>>
vars == <<spc, sent, writer, sendNonce, encrypted, wire, rpc, receiveNonce,
          delivered, closed, cut, faults>>

Endpoints == {"sender", "receiver"}
SenderPCs == {"idle", "lock", "check", "encrypt", "write", "failed"}
Messages == [by : Senders, n : Nat]
Records == [nonce : Nat, message : Messages]
Frames == [record : Records, whole : BOOLEAN, altered : BOOLEAN]

Init ==
  /\ spc = [t \in Senders |-> "idle"]
  /\ sent = [t \in Senders |-> 0]
  /\ writer = NoSender
  /\ sendNonce = 0
  /\ encrypted = {}
  /\ wire = <<>>
  /\ rpc = "idle"
  /\ receiveNonce = 0
  /\ delivered = <<>>
  /\ closed = [e \in Endpoints |-> FALSE]
  /\ cut = FALSE
  /\ faults = 0

-----------------------------------------------------------------------------
(* send *)

Message(t) == [by |-> t, n |-> sent[t]]
Current(t) == [nonce |-> sendNonce, message |-> Message(t)]

\* The first is_closed test; validation and encoding follow without the lock.
StartSend(t) ==
  /\ spc[t] = "idle"
  /\ sent[t] < MaxSends
  /\ ~closed["sender"]
  /\ sent' = [sent EXCEPT ![t] = @ + 1]
  /\ spc' = [spc EXCEPT ![t] = "lock"]
  /\ UNCHANGED <<writer, sendNonce, encrypted, receiving, link, closed, cut>>

LockWriter(t) ==
  /\ spc[t] = "lock"
  /\ writer = NoSender
  /\ writer' = t
  /\ spc' = [spc EXCEPT ![t] = "check"]
  /\ UNCHANGED <<sent, sendNonce, encrypted, receiving, link, closed, cut>>

Unlock(t) ==
  /\ writer' = NoSender
  /\ spc' = [spc EXCEPT ![t] = "idle"]

\* Mutant: the test is not repeated under the lock.
MCheckUnderLock(t) ==
  /\ spc[t] = "check"
  /\ spc' = [spc EXCEPT ![t] = "encrypt"]
  /\ UNCHANGED <<sent, writer, sendNonce, encrypted, receiving, link, closed, cut>>

\* The second is_closed test, under the lock.
CheckUnderLock(t) ==
  /\ spc[t] = "check"
  /\ \/ /\ closed["sender"]
        /\ Unlock(t)
     \/ /\ ~closed["sender"]
        /\ spc' = [spc EXCEPT ![t] = "encrypt"]
        /\ UNCHANGED writer
  /\ UNCHANGED <<sent, sendNonce, encrypted, receiving, link, closed, cut>>

\* checked_add: the last nonce is never used and NonceExhausted is returned.
NonceLeft(nonce) == nonce < MaxNonce

Encrypt(t) ==
  /\ spc[t] = "encrypt"
  /\ \/ /\ NonceLeft(sendNonce)
        /\ encrypted' = encrypted \cup {Current(t)}
        /\ spc' = [spc EXCEPT ![t] = "write"]
        /\ UNCHANGED writer
     \/ /\ ~NonceLeft(sendNonce)
        /\ Unlock(t)
        /\ UNCHANGED encrypted
  /\ UNCHANGED <<sent, sendNonce, receiving, link, closed, cut>>

Frame(t, whole) == [record |-> Current(t), whole |-> whole, altered |-> FALSE]

\* write_frame succeeded; the nonce is advanced before the lock is released.
Write(t) ==
  /\ spc[t] = "write"
  /\ ~cut
  /\ Len(wire) < Capacity
  /\ wire' = Append(wire, Frame(t, TRUE))
  /\ sendNonce' = sendNonce + 1
  /\ Unlock(t)
  /\ UNCHANGED <<sent, encrypted, receiving, closed, cut, faults>>

\* write_frame failed: the connection is down, or the write timeout ran out
\* after a part of the frame went out.
WriteCut(t) ==
  /\ spc[t] = "write"
  /\ cut
  /\ spc' = [spc EXCEPT ![t] = "failed"]
  /\ UNCHANGED <<sent, writer, sendNonce, encrypted, receiving, link, closed, cut>>

WriteTimeout(t) ==
  /\ spc[t] = "write"
  /\ ~cut
  /\ Len(wire) = Capacity
  /\ wire' = Append(wire, Frame(t, FALSE))
  /\ spc' = [spc EXCEPT ![t] = "failed"]
  /\ UNCHANGED <<sent, writer, sendNonce, encrypted, receiving, closed, cut, faults>>

\* Mutant: a failed write is reported without shutting the channel down.
MFailSend(t) ==
  /\ spc[t] = "failed"
  /\ Unlock(t)
  /\ UNCHANGED <<sent, sendNonce, encrypted, receiving, link, closed, cut>>

\* The failed write shuts the channel down while the lock is still held: the
\* nonce it used is not stored, and nobody may use it again.
FailSend(t) ==
  /\ spc[t] = "failed"
  /\ closed' = [closed EXCEPT !["sender"] = TRUE]
  /\ cut' = TRUE
  /\ Unlock(t)
  /\ UNCHANGED <<sent, sendNonce, encrypted, receiving, link>>

-----------------------------------------------------------------------------
(* recv *)

StartRecv ==
  /\ rpc = "idle"
  /\ ~closed["receiver"]
  /\ rpc' = "read"
  /\ UNCHANGED <<sending, receiveNonce, delivered, link, closed, cut>>

\* Mutant: any authentic record of the session is accepted.
MDecrypts(frame) == ~frame.altered
Decrypts(frame) == ~frame.altered /\ frame.record.nonce = receiveNonce

\* A whole frame was read.  An exhausted nonce is only reported; a record that
\* does not decrypt, or whose message is not acceptable, closes the channel.
Recv ==
  /\ rpc = "read"
  /\ wire # <<>> /\ Head(wire).whole
  /\ wire' = Tail(wire)
  /\ rpc' = "idle"
  /\ \/ /\ ~NonceLeft(receiveNonce)
        /\ UNCHANGED <<receiveNonce, delivered, closed, cut>>
     \/ /\ NonceLeft(receiveNonce)
        /\ Decrypts(Head(wire))
        /\ receiveNonce' = receiveNonce + 1
        /\ \/ /\ delivered' = Append(delivered, Head(wire).record.message)
              /\ UNCHANGED <<closed, cut>>
           \/ /\ closed' = [closed EXCEPT !["receiver"] = TRUE]
              /\ cut' = TRUE
              /\ UNCHANGED delivered
     \/ /\ NonceLeft(receiveNonce)
        /\ ~Decrypts(Head(wire))
        /\ closed' = [closed EXCEPT !["receiver"] = TRUE]
        /\ cut' = TRUE
        /\ UNCHANGED <<receiveNonce, delivered>>
  /\ UNCHANGED <<sending, faults>>

\* read_frame failed: the connection is down or the read timeout ran out.
FailRecv ==
  /\ rpc = "read"
  /\ closed' = [closed EXCEPT !["receiver"] = TRUE]
  /\ cut' = TRUE
  /\ rpc' = "idle"
  /\ UNCHANGED <<sending, receiveNonce, delivered, link>>

RecvCut == cut /\ FailRecv
RecvTimeout == ~cut /\ FailRecv

-----------------------------------------------------------------------------
(* shutdown: the flag first, then the socket, with no lock. *)

SetClosed(e) ==
  /\ ~closed[e]
  /\ closed' = [closed EXCEPT ![e] = TRUE]
  /\ UNCHANGED <<sending, receiving, link, cut>>

\* Mutant: shutdown waits for the writer.
MShutdownSocket ==
  /\ \E e \in Endpoints : closed[e]
  /\ writer = NoSender
  /\ ~cut
  /\ cut' = TRUE
  /\ UNCHANGED <<sending, receiving, link, closed>>

ShutdownSocket ==
  /\ \E e \in Endpoints : closed[e]
  /\ ~cut
  /\ cut' = TRUE
  /\ UNCHANGED <<sending, receiving, link, closed>>

-----------------------------------------------------------------------------
(* The relay between the endpoints is not trusted with order or content. *)

Disturb ==
  /\ faults < MaxFaults
  /\ faults' = faults + 1
  /\ \E i \in DOMAIN wire :
        \/ wire' = SubSeq(wire, 1, i - 1) \o SubSeq(wire, i + 1, Len(wire))
        \/ wire' = SubSeq(wire, 1, i) \o SubSeq(wire, i, Len(wire))
        \/ wire' = [wire EXCEPT ![i].altered = TRUE]
        \/ \E j \in DOMAIN wire :
              wire' = [wire EXCEPT ![i] = wire[j], ![j] = wire[i]]
  /\ UNCHANGED <<sending, receiving, closed, cut>>

\* The connection is lost, or the relay ends the tunnel.
LoseConnection ==
  /\ ~cut
  /\ cut' = TRUE
  /\ UNCHANGED <<sending, receiving, link, closed>>

-----------------------------------------------------------------------------
SendStep(t) == \/ LockWriter(t) \/ CheckUnderLock(t) \/ Encrypt(t) \/ Write(t)
               \/ WriteCut(t) \/ FailSend(t)
RecvStep == Recv \/ RecvCut

Next ==
  \/ \E t \in Senders : StartSend(t) \/ SendStep(t) \/ WriteTimeout(t)
  \/ StartRecv \/ RecvStep \/ RecvTimeout
  \/ \E e \in Endpoints : SetClosed(e)
  \/ ShutdownSocket
  \/ Disturb \/ LoseConnection

Spec == Init /\ [][Next]_vars

\* Threads inside a call run when they can.  No timeout is relied upon, and the
\* mutex need not be fair: a closed endpoint starts no new sends, so the
\* waiters for the writer lock run out.
FairSpec ==
  /\ Spec
  /\ \A t \in Senders : WF_vars(SendStep(t))
  /\ WF_vars(RecvStep)
  /\ WF_vars(ShutdownSocket)

-----------------------------------------------------------------------------
(* Properties *)

TypeOK ==
  /\ spc \in [Senders -> SenderPCs]
  /\ sent \in [Senders -> Nat]
  /\ writer \in Senders \cup {NoSender}
  /\ sendNonce \in 0..MaxNonce
  /\ encrypted \subseteq Records
  /\ wire \in Seq(Frames)
  /\ rpc \in {"idle", "read"}
  /\ receiveNonce \in 0..MaxNonce
  /\ delivered \in Seq(Messages)
  /\ closed \in [Endpoints -> BOOLEAN]
  /\ cut \in BOOLEAN
  /\ faults \in Nat

\* "Nonce reuse is not allowed" (docs/SECURITY.md:113): no two records of a
\* session are produced under one nonce, also when a write fails half way,
\* other threads wait for the lock, and the counter reaches its last value.
NoNonceReuse ==
  \A r1, r2 \in encrypted : r1.nonce = r2.nonce => r1 = r2

\* What recv returns is what was sent, in the order of the nonces, with no
\* gap and no repetition, whatever the relay does to the records.
DeliveredInOrder ==
  \A i \in 1..Len(delivered) :
     [nonce |-> i - 1, message |-> delivered[i]] \in encrypted

\* "Interrupts blocked reads and prevents future sends/receives on every
\* clone" (secure.rs:269): once an endpoint is closed, no thread stays inside
\* a call, even if the peer never reads and no timeout runs out.
ShutdownInterrupts ==
  /\ \A t \in Senders : (closed["sender"] /\ spc[t] # "idle") ~> spc[t] = "idle"
  /\ (closed["receiver"] /\ rpc # "idle") ~> rpc = "idle"

=============================================================================
