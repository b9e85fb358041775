---------------------------- MODULE RelayTunnel ----------------------------
(***************************************************************************)
(* One tunnel of the relay among the other connections of RelayQuota:      *)
(* proxy of services/rustview-relay/src/main.rs copies between a host and  *)
(* a viewer, one thread per direction, which share an activity clock and   *)
(* shut both sockets down when they end.  The two permits are dropped when *)
(* proxy has returned.                                                     *)
(*                                                                         *)
(* Bytes are abstract: a thread has read something or nothing.  A peer is  *)
(* gone when it has closed or half-closed its connection, or reset it, and *)
(* the finite rest of what it had sent is read.                            *)
(***************************************************************************)
EXTENDS RelayQuota

CONSTANTS Host, Viewer

ASSUME PeersAreSockets == Host \in Sockets /\ Viewer \in Sockets /\ Host # Viewer

VARIABLES
  tunnel,  \* none yet, open, or over: proxy has returned
  copy,    \* where the thread of each direction is
  shut,    \* the relay has shut both sockets down
  gone,    \* peers that are gone
  quiet,   \* TUNNEL_IDLE_TIMEOUT has passed on the activity clock
  late     \* TUNNEL_MAX_DURATION has passed

quota == <<total, perIp, permit, acceptor>>
clocks == <<quiet, late>>
tunnelVars == <<tunnel, copy, shut, gone, quiet, late>>
allVars == <<quota, tunnelVars>>

Peers == {Host, Viewer}
\* A direction is named by the peer it reads from; it writes to the other.
Other(p) == IF p = Host THEN Viewer ELSE Host
CopyStates == {"none", "read", "write", "shutdown", "done"}

TunnelInit ==
  /\ Init
  /\ tunnel = "none"
  /\ copy = [p \in Peers |-> "none"]
  /\ shut = FALSE
  /\ gone = {}
  /\ quiet = FALSE /\ late = FALSE

Copies(p, from, to) == copy[p] = from /\ copy' = [copy EXCEPT ![p] = to]

\* Both peers know they are matched.  If a socket option cannot be set, a
\* socket cloned or the second thread started, proxy returns at once.
Open ==
  /\ tunnel = "none"
  /\ permit[Host] = "held" /\ permit[Viewer] = "held"
  /\ \/ tunnel' = "open" /\ copy' = [p \in Peers |-> "read"]
     \/ tunnel' = "over" /\ UNCHANGED copy
  /\ UNCHANGED <<quota, shut, gone, clocks>>

\* read returns bytes; the maximum duration was checked before.
Read(p) ==
  /\ Copies(p, "read", "write")
  /\ p \notin gone /\ ~shut /\ ~late
  /\ UNCHANGED <<quota, tunnel, shut, gone, clocks>>

\* read returns 0 or an error, or times out on a quiet tunnel, or the tunnel
\* has lasted too long.
ReadEnds(p) ==
  /\ Copies(p, "read", "shutdown")
  /\ shut \/ p \in gone \/ quiet \/ late
  /\ UNCHANGED <<quota, tunnel, shut, gone, clocks>>

\* write_all returns, and the activity clock starts again.
Write(p) ==
  /\ Copies(p, "write", "read")
  /\ ~shut
  /\ quiet' = FALSE
  /\ UNCHANGED <<quota, tunnel, shut, gone, late>>

\* The other peer is gone, or reads nothing for TUNNEL_WRITE_TIMEOUT.
WriteFails(p) ==
  /\ Copies(p, "write", "shutdown")
  /\ UNCHANGED <<quota, tunnel, shut, gone, clocks>>

\* Mutant: the thread that ends leaves the sockets as they are.
MShutdownTunnel(p) ==
  /\ Copies(p, "shutdown", "done")
  /\ UNCHANGED <<quota, tunnel, shut, gone, clocks>>
ShutdownTunnel(p) ==
  /\ Copies(p, "shutdown", "done")
  /\ shut' = TRUE
  /\ UNCHANGED <<quota, tunnel, gone, clocks>>

\* The host's thread copies from the viewer and then joins the other.
Join ==
  /\ tunnel = "open"
  /\ \A p \in Peers : copy[p] = "done"
  /\ tunnel' = "over"
  /\ UNCHANGED <<quota, copy, shut, gone, clocks>>

HangUp(p) ==
  /\ tunnel = "open" /\ p \notin gone
  /\ gone' = gone \cup {p}
  /\ UNCHANGED <<quota, tunnel, copy, shut, clocks>>

TimePasses ==
  /\ tunnel = "open"
  /\ \/ ~quiet /\ quiet' = TRUE /\ UNCHANGED late
     \/ ~late /\ late' = TRUE /\ UNCHANGED quiet
  /\ UNCHANGED <<quota, tunnel, copy, shut, gone>>

\* The quotas; the permits of an open tunnel stay with the thread in proxy.
QuotaStep ==
  /\ \E s \in Sockets :
        \/ Count(s) \/ TurnAway(s) \/ RefuseAddress(s) \/ Grant(s)
        \/ /\ tunnel = "open" => s \notin Peers
           /\ DropTotal(s) \/ DropAddress(s)
  /\ UNCHANGED tunnelVars

CopyStep(p) == ReadEnds(p) \/ Write(p) \/ WriteFails(p) \/ ShutdownTunnel(p)

TunnelNext ==
  \/ QuotaStep \/ Open \/ Join \/ TimePasses
  \/ \E p \in Peers : Read(p) \/ CopyStep(p) \/ HangUp(p)

TunnelSpec == TunnelInit /\ [][TunnelNext]_allVars

\* Reads return within TUNNEL_READ_POLL_INTERVAL and writes within
\* TUNNEL_WRITE_TIMEOUT.  No peer has to send, read or hang up, and no clock
\* has to run out.
FairTunnelSpec ==
  /\ TunnelSpec
  /\ \A p \in Peers : WF_allVars(CopyStep(p))
  /\ WF_allVars(Join)

-----------------------------------------------------------------------------
(* Properties *)

TunnelTypeOK ==
  /\ TypeOK
  /\ tunnel \in {"none", "open", "over"}
  /\ copy \in [Peers -> CopyStates]
  /\ shut \in BOOLEAN
  /\ gone \subseteq Peers
  /\ quiet \in BOOLEAN /\ late \in BOOLEAN

\* "Idle, handshake, write, and absolute relay-session timeouts are enforced"
\* (docs/SECURITY.md:183): a tunnel that lost a peer, or has lasted too long, or
\* stays quiet, is over before long, both threads joined and both permits free
\* to be dropped, even if the other peer says nothing and reads nothing.
TunnelEnds ==
  tunnel = "open" /\ (gone # {} \/ late \/ quiet)
    ~> tunnel = "over" \/ (gone = {} /\ ~late /\ ~quiet)

=============================================================================
