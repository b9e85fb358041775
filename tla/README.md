# RustView in TLA+

RustView is a remote-desktop program: a *host* shares its screen and may let a
*viewer* control it, and an untrusted *relay* connects the two.  These modules
model the parts of it whose correctness depends on the order in which threads,
messages, timeouts and failures meet.  TLC checks them on small instances and
TLAPS proves the most important safety properties for all instances.

Every definition that models code is translated from the source; `PROJECT.json`
names the lines of each one.  Paths below are relative to the repository.

## 1. Inventory

### Components, their state and operations

| Component | State | Operations | Source |
|---|---|---|---|
| Relay rendezvous | the table of waiting hosts under one mutex, `NEXT_REGISTRATION_ID`, a one-slot channel per waiting host, one thread per connection | accept, register, announce, wait, expire, poll, remove, claim, send, match, tunnel | `services/rustview-relay/src/main.rs` 98-459 |
| Relay quotas | an atomic total, a table of counts per address | `try_acquire`, `Drop` | `main.rs` 45-96 |
| Relay tunnel | two copying threads, the time of the last activity | `proxy`, `copy_with_idle_timeout`, `shutdown_tunnel` | `main.rs` 461-572 |
| Secure channel | writer and reader locks, two nonces, the closed flag, the socket | `send`, `recv`, `set_*_timeout`, `shutdown` | `crates/rustview-core/src/secure.rs`, `framing.rs` |
| Session rules | phase, request, grant, next input sequence number | `register_request`, `activate`, `authorize_input`, `observe`, `close` | `crates/rustview-core/src/session.rs`, `protocol.rs` |
| Host session | worker, capture and input threads, the `running` flag, pressed inputs, commands, events | `host_worker_inner`, `spawn_capture_loop`, `spawn_input_loop`, `EventSink::emit`, `poll_cancellable` | `apps/rustview-desktop/src/network.rs` 67-394, 525-631, 800-910 |
| Viewer session | worker and receive threads, the latest-frame slot, the input sequence number | `viewer_worker`, `spawn_viewer_receive_loop` | `network.rs` 396-523, 633-693 |
| Frame transport | the pending frame of the assembler | `send_frame`, `FrameAssembler`, `publish_frame` | `network.rs` 695-804 |
| Host supervisor | the current worker, retry counter and deadline, the pending request, the session indicator | `start_host_now`, `schedule_host_restart`, `restart_host_after`, `rotate_password`, `poll_workers` | `apps/rustview-desktop/src/app.rs` 129-427 |
| Remote input capture | pressed keys and buttons, modifiers, scroll remainder | `capture_remote_input`, `sync_remote_modifiers`, `release_remote_input` | `app.rs` 1073-1194 |
| Device identity | the directories of its path, a file, its temporary and quarantined siblings, an OS lock | `load_or_create_device_id`, `create_directory_tree_durable` | `apps/rustview-desktop/src/identity.rs` |
| Relay settings | the same directories, an append-only journal, an OS lock | `save_relay_address`, `load_relay_address` | `apps/rustview-desktop/src/settings.rs` |
| Password, device id, invitation | none: pure functions | `generate`, `parse`, `Display` | `device.rs`, `invite.rs` |
| Capture, codec, native input, rendering | operating-system handles | | `media.rs`, `platform.rs`, `app.rs` |

### How they interact

* A host's worker registers with the relay and waits; a viewer's worker claims
  the same route.  The relay's claiming thread moves the viewer's *socket and
  permit* through a channel to the waiting host's thread, which tells both and
  then copies bytes.
* Host and viewer run a Noise handshake through the tunnel and then exchange
  messages on the secure channel, whose clones are used by several threads.
* The host's worker passes its `SessionState` to the input thread; worker,
  capture and input thread share the flag `running`; all of them report to the
  interface through one bounded event channel.
* The interface sends commands to the worker through an unbounded channel, and
  drops the worker (commands' sender, events' receiver) to abandon it.

### What is hard

Hand-off of a socket between threads while either side may give up; two counters
updated one after the other; a shutdown that must interrupt threads holding
locks; a failed write that leaves a nonce used but not stored; commands queued
across phases; three threads that find the end of a session at the same time; a
bounded channel nobody may be reading; threads that cannot be started; processes
that crash between two file operations, or between the creation of a directory and its sync;
a release of a key that fails; workers that live on after they were
replaced, and registrations that outlive them; focus that goes while a key is held.  `PROJECT.json` lists each of these under
`hazards` at the line where it bites, with the properties that cover it or the
reason why none does yet.

### What makes each component correct

* Rendezvous: a registration is spent on at most one viewer of the same route; a
  waiting host can be reached; both ends are told in the right order; nobody hangs; dead
  hosts free their route; every connection that is not served is closed.
* Quotas: limits hold and the counters are exact while drops interleave.
* Channel: no nonce twice; what is received is what was sent, in order; shutdown
  frees every blocked thread.
* Session rules: permissions never exceed the request; inputs are exact and in
  sequence; a closed session stays closed.
* Host session: nothing shared or injected before consent; everything pressed is
  released at the end, as far as the backend lets it; one terminal event; no thread left behind; Stop ends it.
* Viewer session: inputs are the user's, in order, permitted and numbered without
  a gap; what is held is released before leaving; every end is reported once.
* Frame transport: what `send_frame` produces is always accepted; nothing is
  published that is not one whole frame; the newest frame is what is shown.
* Remote input: nothing stays held when the focus or the session goes, and the two
  records of a modifier agree.
* Device identity: one id for ever, never reported before it is durable, never
  overwritten.
* Relay settings: the address last saved is the one the next start uses, whatever
  failed, was killed or lost power in between.
* Host supervisor: a device that has its id and password is reachable again and again;
  what is offered is what its user is shown; the user's answer reaches the request the
  user saw.
* Tunnel: it ends when a peer is gone or it is quiet or too old, with both threads
  joined, before its permits are dropped.

## 2. Plan

In the order of importance; the most important behaviour was modelled first.

| Order | Module | Composes | Status |
|---|---|---|---|
| 1 | `Relay`, abstract `Rendezvous` | threads, table, hand-off, clients | done, refinement checked |
| 2 | `RelayQuota` | acceptor and connection threads | done |
| 3 | `SecureChannel` | senders, receiver, shutdown, the relay as a network | done |
| 4 | `SessionRules`, `SessionState` | | done |
| 5 | `HostSession` (extends `SessionRules`) | worker, capture and input threads, interface, viewer | done |
| 6 | `ViewerSession` (extends `SessionRules`) | worker and receive threads, interface, host | done |
| 7 | `FrameTransport`, `DeviceIdentity` | capture thread and assembler; several launches on one disk | done |
| 8 | `RelayTunnel` (extends `RelayQuota`) | two copying threads, the activity clock, half-open peers, the permits they hold | done |
| 9 | `HostSupervisor` | the interface, several workers of one host, the relay's registrations | done |
| 10 | `RelaySettings` | several instances, the lock, the journal on a disk that loses power | done |
| 10a | `ConfigDirectory`, below `DeviceIdentity` and `RelaySettings` | the path of directories both keep their file in | done |
| 11 | capture of remote input, in `ViewerSession` | the focus, keys, a modifier, a button | done |
| 12 | `RelayProofs`, `QuotaProofs`, `CoreProofs`, `SettingsProofs`, `SupervisorProofs`, `IdentityProofs` | | done: type correctness and safety; `Relay` implements `Rendezvous` |
| 13 | `HostProofs`, `ViewerProofs` | | done: type correctness and every invariant the runs check |

Not planned any more: pure operators for password packing, rejection sampling and dimension
fitting.  They are sequential loops over bits and numbers, the tests of `device.rs` and
`media.rs` exercise them, and no other component depends on more than that they return.

## 3. The modules and the code

**`Relay`.**  One connection is one thread, and `pc` is where it stands:
`handle_connection` (`request`), `register_host` (`register` to `leaving`),
`claim_host` (`claim`, `send`, `refuse`), or finished.  `waiting` is the map of
waiting hosts under its mutex; an action is what happens in one critical section, one
channel operation or one socket write.  The hand-off has three stages, each a
variable of its own because each is owned by another thread: `sender` (the claimant has
taken the registration out of the table), `slot` (viewer and permit are in the
one-slot channel), `viewerOf` (the host's thread has received them).  When a
thread returns (`Return`), what it owns is dropped with it: its sockets, its
channel with a viewer that may be in it, and its sender.  Permits travel with the sockets and
are dropped before or after them (`main.rs:385`, `main.rs:439-449`); no thread but the acceptor
can tell, and `RelayQuota` has each of these steps.  The acceptor holds one accepted socket
without a permit until it starts a thread (`Admit`) or turns the connection away (`TurnAway`).
The far ends may hang up, or talk before they are matched.  `Rendezvous` is what the relay promises: offers, each
spent on at most one claim of the same route, claims that become pairs; `Relay` gives
the refinement mapping.

**`RelayQuota`.**  `try_acquire` and `Drop` with each step visible: the total is an
atomic, the table of addresses is under a mutex, and drops run in the connections'
threads while the one acceptor acquires.

**`RelayTunnel`.**  Extends `RelayQuota` by one tunnel between two of its sockets: `copy` is
where each direction's thread is in `copy_with_idle_timeout`, `gone` the peers that closed,
half-closed or reset, `quiet` and `late` the two clocks.  The threads share the clock and the
sockets; the permits of the two peers may be dropped only when `proxy` has returned.

**`SecureChannel`.**  One direction between two endpoints.  A sender goes through `send`:
look at the closed flag, lock, look again, encrypt, write, store the nonce.  A record is
its nonce and message, a frame a record on the wire that may have been altered or cut
short; the relay drops, repeats, swaps and alters frames.  `cut` says that the socket was
shut down.

**`SessionRules` and `SessionState`.**  The first has the rules as operators on a session
record, used by `HostSession` and `ViewerSession` as the code uses the type; the second
drives a session with any calls in any order.

**`HostSession`.**  `wpc` follows `host_worker_inner` from the connection to the return,
`cpc` the capture loop, `ipc` the input loop.  `EventSink::emit` is two steps, the
decision (`Emitted`) and the blocking send (`Deliver`), because threads can be observed
between them.  `poll_cancellable` is `DrainCommands` and an awaiting state: a command that
arrives while the result is awaited is seen only by the next reader.  The interface is
`Poll`, `Answer` and `PressStop`; it holds the worker or has dropped it.  `ReleaseAll` tries
each release once and any of them may fail; `stuck` remembers which did.

**`ViewerSession`.**  The same for `viewer_worker` and its receive thread.  `CaptureInput` is
one repaint of the canvas, `capture_remote_input` as a whole: the pointer, the release of
everything when the focus goes, the modifiers that changed, the keys, in this order.
`StopViewer` releases what is down and drops the worker.  An input stays at the head of the
queue until it is sent.

**`FrameTransport`.**  The capture thread's chunks, the assembler, the latest-frame slot
and the interface that takes from it; where `honest` is false any frame message comes.

**`ConfigDirectory`.**  `create_directory_tree_durable` step by step: the walk from the
configuration directory outwards to the first directory that exists, the creation of each
missing one and the sync of its entry.  `present` says how many of the components that may be
missing exist, `kept` which entries are synced.  A power failure may take any component whose
entry is not, and takes all below it.  `inherited` is a history variable: it becomes true when a
process goes on below a directory that another one has created and not yet synced, because it
does not sync that entry itself.  `DeviceIdentity` and `RelaySettings` extend the module and run
its steps as their own.

**`DeviceIdentity`.**  `pc` follows one call of `load_or_create_device_id`.  The disk is
what its readers see and the set of states a power failure may leave of it; `fsync` of a
directory reduces that set to the present, `fsync` of a file makes its data survive.  The
steps may fail (`Fail`), and any process may be killed at any point.  `faults` says what may
happen to the machine: a loss of power, or another program that takes no lock.

**`RelaySettings`.**  `pc` follows one start (`load_relay_address_at`) or one save
(`save_relay_address_at`) of each instance.  A start that finds no directory takes the default
without a warning (`FindDirectory`); a save makes the path (`EnsurePath`) and syncs its last
entry once more (`EnsureAgain`), as the code calls `ensure_config_directory` twice.  The journal is the address of its last complete
valid line, its number of lines and whether bytes without an end of line follow; `possible`
is what a power failure may leave of it, as in `DeviceIdentity`.  An append after such bytes
would make one line nobody can parse, which is why `Discard` comes first.

**`HostSupervisor`.**  `app` holds the fields of `RustViewApp` about the host, and the
functions that change them are operators on it (`Cleared`, `Rescheduled`, `Restarted`,
`Handled`, `StartHost`), used by the actions that call them.  `poll_workers` takes a batch of
events and handles them one by one; nothing else of the interface runs in between, which is
why the other actions ask for an empty batch.  A worker is `HostSession` reduced to phases; a
worker's identifier is used again once its thread is over, the interface has dropped it and the
relay has forgotten it.  The relay is `Relay` reduced to the set of workers it waits for.

The `MC` modules give the constants their values.  Definitions whose name starts with
`M` and a capital, next to the definition they vary, are mutants: the bug a property is
there to catch.  `PROJECT.json` names one for every property of every run.

## 4. What is checked

| Run | Question | Bounds |
|---|---|---|
| `relay_safety` | Is every registration spent once, every waiting host reachable, are replies in order? Does the relay implement `Rendezvous`? | 3 connections, 2 routes |
| `relay_live` | Does a dead host free its route, is every claim settled, is every connection closed that is not served? | 3 connections, 1 route |
| `tunnel` | Are both counters exact, and is nobody refused below the limits, while drops interleave and a tunnel holds two permits? Does the tunnel end? | 6 sockets, 2 addresses, 4 in all, 3 each |
| `channel` | Is no nonce used twice, is what is received what was sent, does a shutdown free threads blocked in a call? | 2 threads, 2 sends each, 3 nonces, 2 faults |
| `session_state` | Do permissions stay within the request, inputs in sequence, and closed sessions closed? | 3 ids and epochs, all permission sets, 3 sequence numbers, 4 inputs |
| `host` | Consent, order of inputs, releases, one terminal event, clean ends; do stopped and abandoned sessions end with all their threads? | 2 kinds of requests, 2 messages, threads that may not start, releases that may fail |
| `host_leak` | Does the screen cease to be shared when the indicator goes? (violated) | 1 message, threads that may not start |
| `viewer` | Are inputs exact, is what is held released when the focus or the session goes, are ends reported once and without threads left? | 9 kinds of repaints, inputs of 2 repaints or more, 4 grants, 1 message, 4 sequence numbers |
| `frames` | Is every captured frame accepted, put together and shown? What can a host that sends anything achieve? | sizes 0 to 9 with chunks of 3 and frames of at most 8, ids 0 to 2; any 4 messages |
| `identity` | One id, durable when reported with every directory of its path, never partial, never overwritten | 3 launches, 4 ids, up to 2 missing directories, any number of power failures, or other publishers |
| `settings` | Is the saved address never lost, and used at the next start? | 2 instances, 3 addresses, 3 saves, a journal of at most 2 lines, up to 2 missing directories |
| `supervisor` | Is the host reachable again and again, offered as shown, and answered where asked? Are old registrations withdrawn? | 2 workers, 2 presses, 2 faults |

*Why the bounds are enough.*  The relay's hand-off involves one route's host, the claimant
that has taken its registration, and a third: another claimant that comes too late, or
another host, which is refused or registers while the first is being claimed.  All of them
meet among three connections.  Any of them may also be turned away; for which limit is what
`RelayQuota` looks at.  The liveness of every connection is
checked for one of three, which are interchangeable.  With two senders one holds the
writer lock while the other waits for it, and the nonce counter ends within the run.  A
host session needs a press and a release or a second message, so two messages; its
liveness needs one key held down.  A viewer's repaints are one change each, one with two, and
one with pointer movement; two inputs with the releases and the Disconnect after them reach
the last sequence number and every order of focus, press and release.  Frame sizes lie around every multiple of the chunk size and both
ends of the allowed range.  Three launches let a second recover while a third still waits
for the lock.  With two directories missing there is one whose entry a
walk syncs only if it created it; a third would be one more of the kind.  Two
instances save and start against each other, and the journal fills within the run.  With
two workers one is dropped and still registered while the other is refused as Busy.  Where states are many, what repeats without a new case is bounded:
`MaxMessages`, `MaxForged`, `MaxSends`, `MaxFaults`, `MaxAccepted`, `MaxInputs`,
`MaxSaves`, `MaxPresses`, `Capacity`.  Last values
(`MaxNonce`, `MaxSequence`, `LastFrame`) stand for the largest `u64` and are reached in
`channel`, `session_state`, `viewer` and `frames`; in `session_state` there is room for one more
input than there are numbers, so that one that comes round again would be seen.  `host` does
not reach the last number.  Deadlock is checked in `tunnel` and
`session_state`, and not where the system may stop: connections, sessions and launches end.
What section 5 lists is proved for every value of these bounds.

### Fairness and why the code justifies it

* `Relay`: threads that can run do; reading a request has an absolute deadline; the loop
  of a waiting host polls once a second.  `INVITATION_TTL` and the limits of a tunnel are
  not relied upon: what ends a connection is checked up to a host that waits and a tunnel
  that runs.
* `SecureChannel`: threads inside a call run; no timeout is relied upon.
* `HostSession`: the three threads run.  The writer lock is free again and again while the
  capture thread grabs a frame or sleeps, so a thread that waits for it gets it (strong
  fairness of `SendRevoked` and `Pong`).  A blocked write ends.
  `SESSION_IO_TIMEOUT` bounds each write call, so this holds for a viewer that stops
  reading; one that reads a little just before every timeout can stretch one send.  The
  interface need not poll.
* `ViewerSession`: the threads run, the interface polls, setup and blocked writes time
  out; the host need not send, and no read needs to time out.
* `RelayTunnel`: reads and writes return within their timeouts, and the join follows; no
  peer has to send, read or hang up, and no clock has to run out.
* `HostSupervisor`: every wait of a worker has a timeout, the interface repaints (and polls)
  thirty times a second, the relay polls its waiting hosts once a second.  Nothing is assumed
  of the user, of viewers or of the lifetime of a registration.
* `FrameTransport`: the receive thread runs and the interface takes the frame on each
  repaint; nothing is assumed of the capture thread.

## 5. What is proved

Type correctness is proved, for every value of the constants, of `Relay`, `RelayQuota`,
`SecureChannel`, `SessionState`, `HostSession`, `ViewerSession`, `FrameTransport`,
`DeviceIdentity`, `RelaySettings` and `HostSupervisor`, and no run repeats it.
The assumptions are the named ones of each module: finite sets, distinguished values that
are not members, natural numbers.  The other results:

| Module | Proved | Inductive invariant |
|---|---|---|
| `RelayProofs` | `HostsReachable`, `RegistrationsSingleUse`, `RoutesMatch`, `RepliesInOrder`, `RelayImplementsRendezvous` | `HandoffInv`; `ToldInv`, `Unnumbered` |
| `QuotaProofs` | `CountersStayExact`, `RefusalsAreDue`, `TunnelKeepsQuota`, `TunnelCountersExact` | `QuotaInv` |
| `CoreProofs` | `NoncesAreFresh`, `DeliveryIsInOrder`; `PermissionsNeverGrow`, `InputsNeverReplayed`, `CloseIsFinal` | `SendInv`, `RecvInv`; `SessionInv` |
| `HostProofs` | `ConsentComesFirst`, `InputsStayInOrder`, `EndIsClean`, `EndToldOnce`, `EventsHaveRoom` | `HostInv` |
| `ViewerProofs` | `InputsAreExact`, `HeldIsReleased`, `EndIsReportedOnce`; `FramesAllArrive`, `FramesAreWhole` | `ViewerInv`; `FrameInv` |
| `IdentityProofs` | `IdIsStable`, `IdIsDurable`, `CompleteIdsStay` | `IdentityInv` |
| `SettingsProofs` | `SavedAddressSurvives`, `LaunchRestores` | `SettingsInv` |
| `SupervisorProofs` | `HostNeverGivenUp`, `AnswersReachTheirRequest`, `OffersAreShown` | `SupervisorInv` |

**Relay.**  None of the hand-off properties is inductive.  That a waiting host is reachable
depends on a thread removing only its *own* registration, so on ids being unique; that
depends on the counter being above every id in use.  That a registration is single-use
depends on the three stages of the hand-off excluding each other.  `HandoffInv` is the
conjunction:

* `RoutesNamed`, `IdsUnique`, `EntriesOwned`: what threads in each phase have, ids are
  distinct and below the counter, a table entry has its host's id and route;
* `SendersExclusive`, `SlotsExclusive`, `MatchesExclusive`: a host is in the table, or with
  one claimant, or has one viewer in its channel, or one in its thread's hands, and a
  viewer belongs to one host;
* `TypeOK` and `NoOrphanedHost`.

There is one lemma per conjunct with one step per action, and lemmas that say how far an
action reaches (which threads `Return` and the others move), so that most cases are short.

**Rendezvous.**  Under `HandoffInv` every step is one of the abstract rendezvous or unseen by
it: `InsertRoute` makes an offer, `RefuseBusy` and `RemoveRegistration` withdraw one (the
latter only if no claim has taken the entry), `ClaimRoute` claims it, `MatchViewer` joins,
and whatever ends a host's claim settles it.  The mapping needs `Unnumbered`, that a thread
has an id only from `TakeRegistrationId` on.  `ToldInv` says what each connection was told
at each point of its thread, up to a far end that is gone.

**Quotas.**  Each counter is the number of connections in the phases that count for it, and
a connection moves between phases one at a time (`Moves` counts the difference).  An
acquire has taken an address and not yet the total, or the other way round for a drop, so
`QuotaInv` says also that the acceptor is the only one that acquires (`OneAtATime`) and that
it has reserved at most what was free (`Reserved`).  `RefusalsAreDue` speaks of both refusals:
the one for the total, and the one for an address, which may count permits still being
dropped.  `TunnelKeepsQuota` is a refinement:
every behaviour of the tunnel is one of the quotas, and their theorems hold in it.

**Channel.**  A nonce is not used twice because one thread at a time is between the
encryption and the store (`WriterExclusive`) and whoever fails in between closes the
channel, so that the nonce it burned is met by nobody (`NoncesUsed`).  Deliveries are in
order because a record that decrypts at the receiver's nonce is one that was encrypted at
it (`WireIsEncrypted`), whatever the relay did to the frames.

**Session.**  `SessionInv` ties the session to its history: the request it holds is the one
it was asked, and its sequence number counts the inputs it authorized.  `RoutesMatch` (of
the relay) states what the runs see only through `Rendezvous`: that a viewer reaches hosts of
its own route alone.

**Host session.**  None of its properties belongs to one thread.  `HostInv` relates the
places of the three threads and of the interface to what is in the queues between them:

* `Staged`: which threads exist and how far the session is at each point of the worker; a
  worker that started both threads returns after both have ended, on a closed channel;
* `Asked`: the question is on its way, on the screen or answered, and never asked twice, so
  that a command that approves is the answer to *this* session's question and not one that
  was queued before it;
* `Consented`: what the grant allows, and whether there is an injector at all, comes from the
  request and from that answer;
* `Counted`: the session's sequence number counts what was injected, and is one ahead while
  the input thread holds an authorized input it has not injected yet;
* `Remembered`: `PressedInputs` is what the backend holds down, and once the input thread is
  past its release, however it came there, it is empty and only what failed to be released is
  still down;
* `Reports` and `Single`: which thread may be about to report the end, and that the terminal
  event is with one thread, or last in the channel, or told;
* `Roomy`: the user can only answer after the interface has emptied the channel, so from the
  answer on at most three events are still to come.  Without this step the capacity of the
  channel would not suffice, since nobody has to poll.

Two threads are rarely moved by one action, so most cases follow from a lemma that says
what moves (`EventMoves`, and one lemma per queue).

**Viewer session.**  What the user does reaches the host through four hands: the interface
records what is held when it queues an input, the queue carries it, the worker drops or
numbers it, the host applies it.  `ViewerInv` relates the two ends:

* `Staged` and `Granting`: before the grant nothing is made, sent or announced, and the grant
  stays within what was asked for;
* `Flowing`: what was made, as far as the grant allows it, is what was sent followed by what
  is still queued; an input the worker holds is still at the head of the queue; Stop is the
  last command, and there is none while the interface is open;
* `Numbered`: inputs carry the numbers from 0 on, and the host's session would authorize each
  at its turn;
* `Tracking`: what the interface has recorded is what its inputs hold down, and nothing that
  the focus has left;
* `Single`: the terminal event is with one thread, or in the channel once, or told.

At the Disconnect the queue is empty and the record is, so what was sent is what was made as
far as it is allowed and holds nothing down: the grant allows a press if and only if it allows
the release (`AmongHolds`).  `Among`, `AllTracked` and `HeldBy` are recursive functions of a
sequence.  What they make of one element more (`AmongAppend`, `TrackedAppend`, `HeldAppend`)
and of two sequences one after the other is proved by induction in a form without operator
parameters: a set of numbers, or of sequences, that has the first and with each its successors
has all (`NumberInduction`, `QueueInduction`, from the well-foundedness of `<`).

**Frames.**  That every frame arrives is a statement about the two ends of a channel, and the
messages between them may belong to several frames.  `FrameInv` gives each message a place,
its frame and how many messages of that frame came before (`Stamp`), and says that the
messages on their way lead from the place the assembler has reached to the place the capture
thread has reached (`Chained`).  A message added at one end or taken at the other keeps such a
chain (`ChainGrows`, `ChainShrinks`), so what the assembler reads is what it expects
(`HonestTakes`), and none of the reasons to refuse it applies.  The arithmetic is in
`ChunksCover`, `ChunksLeft` and `ChunkLengths`: how many chunks a size takes, that bytes are
left exactly as long as chunks are, and where each chunk ends; `ChunksSuffice`, the
assumption that the largest frame fits into `MaxChunks` chunks, is used there.  For a host
that does not follow `send_frame`, only `Gathered` holds, and suffices for `FramesAreWhole`.
The lengths received are summed up by a recursive function, so `ReceivedAppend` is proved by
induction like the functions above.

**Identity.**  Every launch acts on what it saw some steps before.  `SeenIsTrue` says that
what it saw is still so: the file it moves away is still the interrupted write, the name it
links is still free, the entry it will report is synced.  `LockExclusive` keeps this true
among RustView's instances, `PathKept` and `DataSynced` through a loss of power: what is above
the component a walk is at is synced, and past the walk all of the path is, as long as nobody
`inherited` a directory.  `ReportedStays` says what became of an id that was reported.

**Settings.**  A loss of power may leave any member of `possible`.  `JournalsCommitted` says
that outside of a save every member still names the committed address, and `Prepared` what
is already true of the disk at each point of a save; both need `LockExclusive`.
`PathKept` is that of the identity, and `CurrentKept` says that a journal with an address in it
lies on a path that is synced.

**Supervisor.**  The interface learns of a worker only from events that may be old.
`EventsInv` says what the events still pending tell about the worker that sent them, and
that a terminal event is its last; so handling them in order leaves the interface with a
worker that is alive, a retry that is due, or a device that has no password.

Every safety property a run checks is proved.  Only model-checked is liveness under fairness:
the prover has no rules for fairness and `ENABLED`.  The library's induction theorems, and with
them the community modules' folds, take operators as parameters, which the installed provers
cannot instantiate; the recursive functions are proved about with the two set-based
inductions above.  No module uses a `RECURSIVE` operator.

## 6. Findings

* **A capture thread without a session** (`host_leak`, `network.rs:368`).  If the input
  thread cannot be started, `?` returns with the capture thread running; the interface is
  told that the session is over and the screen is still shared.

Three more disagreements with what the repository says have no run of their own.  The first two
are stated as exceptions of properties that hold otherwise; the third is about the interface:

* **A directory taken for durable** (`identity.rs:299-332`).  `ensure_config_directory` "Creates
  a configuration directory with durable parent metadata updates" (`identity.rs:49`), and the
  id is to be stable (`identity.rs:32`).  The walk stops at the first directory that exists and
  never syncs that directory's own entry.  A launch that creates an outer directory and is
  killed before line 360, a second launch that makes and syncs what is below and reports an id,
  and a loss of power leave no id: the third launch generates another.  A relay address that
  was saved is lost in the same way, and the next start uses the default without a warning
  (`settings.rs:108-110`).  It takes two missing directories, one of them outside the
  configuration directory itself.  `StableId`, `OwnIdIsDurable`, `SavedSurvives` and
  `RestoredAtLaunch` except a machine where `inherited` is true; without `~inherited` TLC finds
  each of them violated within the bounds of `identity` and `settings`.
* **A release that fails** (`network.rs:822-835`).  "All synthetically pressed keys and buttons
  must be released" (`docs/SECURITY.md:167`, also `docs/ARCHITECTURE.md:190` and
  `docs/ROADMAP.md:83`).  `release_all` ignores the result of each injection and empties its
  record, so a key whose release the backend refuses stays down and nothing tries it again.
  `CleanEnd` says that nothing else does; with `held = {}` in place of `held = stuck` it is
  violated by a press followed by a failing release.  What the input library does with the
  keys it still holds when it is dropped is not part of this repository.
* **No button that ends one session.**  `docs/ROADMAP.md:72` lists a "one-action disconnect on
  the host" as implemented, and `README.md:193-194` says that the host can stop the session at any
  time.  The host's interface has no such button: Stop is sent by reconnecting, by a new
  password and by new relay settings, each of which ends the session and restarts the host.

Observed while reading, and not a disagreement with anything the repository says:

* `SecureChannel::recv` shuts the channel down whenever it fails, so the branches
  `Err(error)` that report "Connection lost" (`network.rs:618`, `network.rs:651`) are never
  taken; a lost connection is reported as the ordinary end of the session.
* `send` returns `NonceExhausted` without shutting the channel down (`secure.rs:178`).
* After the input of the last sequence number the viewer's worker returns with the channel
  open and the receive thread running (`network.rs:498`); that takes 2^64 inputs, and
  `DroppedViewerEnds` excepts it.
* A viewer that asks for the screen and the pointer alone cannot be given control: the
  grant of both pointer and keyboard is refused by `activate`.  RustView's own viewer
  never asks for that.
* Stop waits for a blocked write (`network.rs:379`).  The worker sends
  `Disconnect(Revoked)`, for which it needs the writer lock, before it clears `running` and
  shuts the channel down.  While the capture thread is blocked in a write to a viewer that
  does not read, the input thread goes on until the write times out; `DroppedSessionEnds`
  therefore needs the fairness of `FrameTimeout`.
* An id that another program publishes after the lock was taken is returned
  (`identity.rs:89`) without the directory sync that `identity.rs:126-128` asks for.  RustView's
  own instances hold the lock, so only a program that does not can cause it.
* A worker that panics drops its event sender without a last event (`network.rs:160`).  The
  interface keeps `host_worker` and does not schedule a restart: `NeverGivenUp` holds, and
  `HostReturns` excepts the case.  No panic was found on a path that can be reached.
* When the last frame of a viewer's session and its end are taken in one poll, the frame is
  dropped (`app.rs:406`): the end has removed the worker.  The session is over, and the picture
  with it; `FramesShown` is about sessions that go on.

## 7. What is not modelled

The Noise handshake, key derivation and random generation (decryption is what it accepts);
message encoding, names and coordinate ranges; the text forms of ids, passwords and
invitations; the operating system's capture and input; the drawing of the interface; clocks
(a timeout is an event that may happen at any moment, so nothing is said about how long
something takes); the table of key codes and the arithmetic of scroll and pointer coordinates,
which are data to the capture of input; packaging and scripts.

Left out of modules that model the rest of their component:

* a message too long to encrypt (`secure.rs:183-185`): every message the program sends is
  bounded well below that;
* `start_host_now` with an empty relay address (`app.rs:164-169`): what is loaded or saved has
  been normalized and is not empty;
* the end of an honest session in `FrameTransport` (see section 6);
* other programs that create or remove directories of the configuration path;
* the drop of a permit before or after its socket in `Relay`, which only the acceptor's counters
  see: `RelayQuota` has it.
