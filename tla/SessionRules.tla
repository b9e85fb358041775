---------------------------- MODULE SessionRules ---------------------------
(***************************************************************************)
(* The rules of crates/rustview-core/src/session.rs and of the messages in *)
(* protocol.rs that they judge, as operators on a session record: which    *)
(* message a session accepts in which phase, and what it becomes.          *)
(* A permission bit mask is the set of its bits; an identifier is abstract *)
(* and 0 stands for the all-zero identifier or epoch.                      *)
(***************************************************************************)
EXTENDS Naturals

CONSTANT MaxSequence   \* u64::MAX, the last input sequence number

ASSUME MaxSequenceIsNat == MaxSequence \in Nat

Permissions == {"view", "pointer", "keyboard", "readClipboard", "writeClipboard"}
ViewOnly == {"view"}
ViewAndControl == {"view", "pointer", "keyboard"}
CanControl(permissions) == "pointer" \in permissions \/ "keyboard" \in permissions

Phases == {"AwaitingRequest", "AwaitingApproval", "Active", "Closed"}

\* InputEvent, as far as the rules and the release of pressed inputs look: one
\* button, one key and one modifier, which is a key with a usage code of its own.
Down == {"buttonDown", "keyDown", "shiftDown"}
Up == {"buttonUp", "keyUp", "shiftUp"}
Sources == {"button", "key", "shift"}
Source(event) ==
  CASE event \in {"buttonDown", "buttonUp"} -> "button"
    [] event \in {"keyDown", "keyUp"} -> "key"
    [] event \in {"shiftDown", "shiftUp"} -> "shift"
InputEvents == {"move", "scroll", "keyZero"} \cup Down \cup Up
RequiredPermission(event) ==
  IF event \in {"move", "scroll", "buttonDown", "buttonUp"} THEN "pointer" ELSE "keyboard"

\* What is held down once the event has happened, when it was set.
HeldAfter(set, event) ==
  IF event \in Down THEN set \cup {Source(event)}
  ELSE IF event \in Up THEN set \ {Source(event)} ELSE set

NoRequest == [id |-> 0, permissions |-> {}]
NoGrant == [request |-> 0, session |-> 0, epoch |-> 0, permissions |-> {}]

NewSession ==
  [phase |-> "AwaitingRequest", request |-> NoRequest, grant |-> NoGrant, next |-> 0]

-----------------------------------------------------------------------------
(* validate *)

ValidRequest(request) == request.id # 0 /\ request.permissions # {}

ValidGrant(grant) ==
  /\ grant.request # 0
  /\ grant.session # 0
  /\ grant.epoch # 0
  /\ "view" \in grant.permissions

ValidInput(input) ==
  /\ input.session # 0
  /\ input.epoch # 0
  /\ input.event # "keyZero"

-----------------------------------------------------------------------------
(* SessionState: what each operation requires, and what it leaves. *)

\* Mutant: a request is taken in any phase.
MMayRegister(s, request) == ValidRequest(request)

MayRegister(s, request) ==
  /\ ValidRequest(request)
  /\ s.phase = "AwaitingRequest"

Registered(s, request) ==
  [s EXCEPT !.request = request, !.phase = "AwaitingApproval"]

\* Mutant: the grant is not compared with what was requested.
MMayActivate(s, grant) ==
  /\ ValidGrant(grant)
  /\ s.phase = "AwaitingApproval"
  /\ grant.request = s.request.id

MayActivate(s, grant) ==
  /\ ValidGrant(grant)
  /\ s.phase = "AwaitingApproval"
  /\ grant.request = s.request.id
  /\ grant.permissions \subseteq s.request.permissions

Activated(s, grant) ==
  [s EXCEPT !.grant = grant, !.next = 0, !.phase = "Active"]

HasActivePermission(s, permission) ==
  /\ s.phase = "Active"
  /\ permission \in s.grant.permissions

\* Mutant: the permission the event needs is not looked up.
MMayAuthorize(s, input) ==
  /\ ValidInput(input)
  /\ s.phase = "Active"
  /\ input.session = s.grant.session
  /\ input.epoch = s.grant.epoch
  /\ input.sequence = s.next
  /\ s.next < MaxSequence

\* Mutant: a gap in the sequence is let through.
MMayAuthorizeGap(s, input) ==
  /\ ValidInput(input)
  /\ HasActivePermission(s, RequiredPermission(input.event))
  /\ input.session = s.grant.session
  /\ input.epoch = s.grant.epoch
  /\ input.sequence >= s.next
  /\ s.next < MaxSequence

\* Mutant: after the last sequence number comes the first again.
MMayAuthorizeWraps(s, input) ==
  /\ ValidInput(input)
  /\ HasActivePermission(s, RequiredPermission(input.event))
  /\ input.session = s.grant.session
  /\ input.epoch = s.grant.epoch
  /\ input.sequence = s.next % (MaxSequence + 1)

\* The input of the last sequence number is refused (InputSequenceExhausted).
MayAuthorize(s, input) ==
  /\ ValidInput(input)
  /\ HasActivePermission(s, RequiredPermission(input.event))
  /\ input.session = s.grant.session
  /\ input.epoch = s.grant.epoch
  /\ input.sequence = s.next
  /\ s.next < MaxSequence

\* Mutant: the expected sequence number does not move.
MAuthorized(s) == s
Authorized(s) == [s EXCEPT !.next = @ + 1]

Closed(s) ==
  [phase |-> "Closed", request |-> NoRequest, grant |-> NoGrant, next |-> 0]

=============================================================================
