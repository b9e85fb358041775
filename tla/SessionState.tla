---------------------------- MODULE SessionState ---------------------------
(***************************************************************************)
(* A SessionState driven through its public operations: observe on any     *)
(* message, in any order, and the direct register_request, activate,       *)
(* authorize_input and close, which observe calls for the same messages.   *)
(* A refused message leaves the session as it was.                         *)
(***************************************************************************)
EXTENDS SessionRules, Sequences

CONSTANTS Ids,         \* identifiers of requests and sessions; 0 is all-zero
          Epochs,      \* grant epochs
          MaxAccepted  \* bound: inputs accepted in one behaviour

ASSUME IdsAreNat == Ids \subseteq Nat /\ Epochs \subseteq Nat /\ MaxAccepted \in Nat

VARIABLES session,   \* the SessionState
          asked,     \* the request the session accepted, for good
          accepted   \* the inputs it authorized, in order

sessionVars == <<session, asked, accepted>>

Requests == [id : Ids, permissions : SUBSET Permissions]
Grants == [request : Ids, session : Ids, epoch : Epochs,
           permissions : SUBSET Permissions]
Inputs == [session : Ids, epoch : Epochs, sequence : 0..MaxSequence,
           event : InputEvents]

SessionInit ==
  /\ session = NewSession
  /\ asked = NoRequest
  /\ accepted = <<>>

RegisterRequest ==
  /\ \E request \in Requests :
        /\ MayRegister(session, request)
        /\ session' = Registered(session, request)
        /\ asked' = request
  /\ UNCHANGED accepted

Activate ==
  /\ \E grant \in Grants :
        /\ MayActivate(session, grant)
        /\ session' = Activated(session, grant)
  /\ UNCHANGED <<asked, accepted>>

AuthorizeInput ==
  /\ Len(accepted) < MaxAccepted
  /\ \E input \in Inputs :
        /\ MayAuthorize(session, input)
        /\ session' = Authorized(session)
        /\ accepted' = Append(accepted, input)
  /\ UNCHANGED asked

\* close, or an observed Disconnect.
Close ==
  /\ session' = Closed(session)
  /\ UNCHANGED <<asked, accepted>>

SessionNext == RegisterRequest \/ Activate \/ AuthorizeInput \/ Close

SessionSpec == SessionInit /\ [][SessionNext]_sessionVars

-----------------------------------------------------------------------------
(* Properties *)

SessionTypeOK ==
  /\ session \in [phase : Phases, request : Requests \cup {NoRequest},
                  grant : Grants \cup {NoGrant}, next : 0..MaxSequence]
  /\ asked \in Requests \cup {NoRequest}
  /\ accepted \in Seq(Inputs)

\* "A remote peer cannot elevate its own permission bitmask"
\* (docs/SECURITY.md:164): an active session never holds a permission that
\* the one request it registered did not name.
NoEscalation ==
  session.phase = "Active" => session.grant.permissions \subseteq asked.permissions

\* Every input that was ever authorized was within the permissions requested,
\* belonged to one session and epoch, and carried the number of inputs
\* authorized before it: none is lost, replayed or reordered.
InputsExact ==
  \A i \in 1..Len(accepted) :
     /\ accepted[i].sequence = i - 1
     /\ RequiredPermission(accepted[i].event) \in asked.permissions
     /\ accepted[i].session = accepted[1].session
     /\ accepted[i].epoch = accepted[1].epoch

\* A closed session stays closed and authorizes nothing: no later request or
\* grant revives it.
ClosedForGood ==
  [][session.phase = "Closed" => session'.phase = "Closed" /\ accepted' = accepted]_sessionVars

=============================================================================
