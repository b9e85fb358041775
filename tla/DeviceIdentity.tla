--------------------------- MODULE DeviceIdentity ---------------------------
(***************************************************************************)
(* load_or_create_device_id of apps/rustview-desktop/src/identity.rs, run  *)
(* by several processes that may be killed or meet an I/O error after any  *)
(* step, on a machine that may lose power.                                 *)
(*                                                                         *)
(* A directory is what its readers see now, and the set of states a power  *)
(* failure may leave of it, which a sync of the directory reduces to the   *)
(* current one.  A file is complete after a power failure only if its own  *)
(* data was synced.  Temporary and quarantined files have names nobody     *)
(* else uses and are not followed.  The path of the configuration directory*)
(* is that of ConfigDirectory.                                             *)
(***************************************************************************)
EXTENDS ConfigDirectory

CONSTANTS NoProcess,      \* nobody holds the lock
          Ids,            \* ids that may be generated, each once
          FaultSets       \* what may happen to a machine: "power", it may lose
                          \* power; "publish", another program may publish an id
                          \* (both at once may lose an id that was reported)

ASSUME NoProcessIsNone == NoProcess \notin Processes
ASSUME MarksAreNoIds == Ids \cap {"missing", "partial", "corrupt"} = {}
ASSUME OneKindOfFault == FaultSets \subseteq {{}, {"power"}, {"publish"}}

VARIABLES
  faults,     \* what may happen to this machine
  got,        \* the id a process has read or generated
  lock,       \* holder of the OS lock on .device-id.lock
  entry,      \* what the name device-id stands for now
  possible,   \* what it may stand for after a power failure
  synced,     \* ids whose file has synced data
  used,       \* ids generated so far
  returned    \* ids that load_or_create_device_id has returned

disk == <<directories, entry, possible, synced>>
vars == <<faults, pc, got, lock, level, present, kept, inherited, entry, possible, synced,
          used, returned>>

PCs == {"idle", "walk", "create", "syncEntry", "look", "barrier", "lock", "lockSync",
        "inspect", "quarantine", "quarantineSync", "generate", "write", "link", "linkSync",
        "cleanup", "winnerSync", "readWinner"}
Contents == Ids \cup {"missing", "partial", "corrupt"}
NoId == "missing"

Init ==
  /\ faults \in FaultSets
  /\ pc = [p \in Processes |-> "idle"]
  /\ got = [p \in Processes |-> NoId]
  /\ lock = NoProcess
  /\ DirectoriesInit
  /\ entry \in IF DirectoryExists THEN Contents ELSE {"missing"}
  /\ possible = {entry}
  /\ synced = Ids \cap {entry}
  /\ used = Ids \cap {entry}
  /\ returned = {}

Synced == possible' = {entry} /\ UNCHANGED <<directories, entry, synced>>

\* The lock is released when the process drops it, or dies.
Ends(p) ==
  /\ Goto(p, "idle")
  /\ got' = [got EXCEPT ![p] = NoId]
  /\ lock' = IF lock = p THEN NoProcess ELSE lock

Returns(p, id) == Ends(p) /\ returned' = returned \cup {id}

-----------------------------------------------------------------------------
(* The directory, and the path without the lock *)

Start(p) ==
  /\ pc[p] = "idle"
  /\ Goto(p, "walk")
  /\ UNCHANGED <<got, lock, disk, used, returned, faults>>

\* create_directory_tree_durable
EnsureTree(p) ==
  /\ EnsureDirectory(p, "look")
  /\ UNCHANGED <<got, lock, entry, possible, synced, used, returned, faults>>

\* Mutant: an incomplete file is moved away without the lock.
MLook(p) ==
  /\ pc[p] = "look"
  /\ got' = [got EXCEPT ![p] = IF entry \in Ids THEN entry ELSE NoId]
  /\ Goto(p, IF entry \in Ids THEN "barrier"
             ELSE IF entry = "partial" THEN "quarantine" ELSE "lock")
  /\ UNCHANGED <<lock, disk, used, returned, faults>>

Look(p) ==
  /\ pc[p] = "look"
  /\ got' = [got EXCEPT ![p] = IF entry \in Ids THEN entry ELSE NoId]
  /\ Goto(p, IF entry \in Ids THEN "barrier" ELSE "lock")
  /\ UNCHANGED <<lock, disk, used, returned, faults>>

\* The durability barrier of an installation that has its id.
Barrier(p) ==
  /\ pc[p] = "barrier"
  /\ Synced
  /\ Returns(p, got[p])
  /\ UNCHANGED <<used, faults>>

-----------------------------------------------------------------------------
(* Under the lock *)

Acquire(p) ==
  /\ pc[p] = "lock"
  /\ lock = NoProcess
  /\ lock' = p
  /\ Goto(p, "lockSync")
  /\ UNCHANGED <<got, disk, used, returned, faults>>

\* Mutant: the directory of the lock file is not synced.
MSyncLock(p) ==
  /\ pc[p] = "lockSync"
  /\ Goto(p, "inspect")
  /\ UNCHANGED <<got, lock, disk, used, returned, faults>>

\* The sync of the lock's entry is one of the id's entry, too.
SyncLock(p) ==
  /\ pc[p] = "lockSync"
  /\ Synced
  /\ Goto(p, "inspect")
  /\ UNCHANGED <<got, lock, used, returned, faults>>

\* A corrupt file that is not an interrupted write is an error.
Inspect(p) ==
  /\ pc[p] = "inspect"
  /\ \/ /\ entry \in Ids
        /\ Returns(p, entry)
     \/ /\ entry = "missing"
        /\ Goto(p, "generate")
        /\ UNCHANGED <<got, lock, returned>>
     \/ /\ entry = "partial"
        /\ Goto(p, "quarantine")
        /\ UNCHANGED <<got, lock, returned>>
     \/ /\ entry = "corrupt"
        /\ Ends(p)
        /\ UNCHANGED returned
  /\ UNCHANGED <<disk, used, faults>>

\* rename moves whatever has the name by now; a name that is gone is fine.
Quarantine(p) ==
  /\ pc[p] = "quarantine"
  /\ entry' = "missing"
  /\ possible' = possible \cup {"missing"}
  /\ Goto(p, IF entry = "missing" THEN "inspect" ELSE "quarantineSync")
  /\ UNCHANGED <<got, lock, directories, synced, used, returned, faults>>

SyncQuarantine(p) ==
  /\ pc[p] = "quarantineSync"
  /\ Synced
  /\ Goto(p, "inspect")
  /\ UNCHANGED <<got, lock, used, returned, faults>>

\* A new id is written to a temporary file.
Generate(p) ==
  /\ pc[p] = "generate"
  /\ \E id \in Ids \ used :
        /\ got' = [got EXCEPT ![p] = id]
        /\ used' = used \cup {id}
  /\ Goto(p, "write")
  /\ UNCHANGED <<lock, disk, returned, faults>>

\* Mutant: the data of the temporary file is not synced.
MSyncTemporary(p) ==
  /\ pc[p] = "write"
  /\ Goto(p, "link")
  /\ UNCHANGED <<got, lock, disk, used, returned, faults>>

SyncTemporary(p) ==
  /\ pc[p] = "write"
  /\ synced' = synced \cup {got[p]}
  /\ Goto(p, "link")
  /\ UNCHANGED <<got, lock, directories, entry, possible, used, returned, faults>>

\* Mutant: the file is renamed into place.
MLink(p) ==
  /\ pc[p] = "link"
  /\ entry' = got[p]
  /\ possible' = possible \cup {got[p]}
  /\ Goto(p, "linkSync")
  /\ UNCHANGED <<got, lock, directories, synced, used, returned, faults>>

\* hard_link does not replace; somebody else's file is read instead.
Link(p) ==
  /\ pc[p] = "link"
  /\ \/ /\ entry = "missing"
        /\ entry' = got[p]
        /\ possible' = possible \cup {got[p]}
        /\ Goto(p, "linkSync")
     \/ /\ entry # "missing"
        /\ Goto(p, "winnerSync")
        /\ UNCHANGED <<entry, possible>>
  /\ UNCHANGED <<got, lock, directories, synced, used, returned, faults>>

\* Mutant: the name of the published file is not synced.
MSyncLink(p) ==
  /\ pc[p] = "linkSync"
  /\ Goto(p, "cleanup")
  /\ UNCHANGED <<got, lock, disk, used, returned, faults>>

SyncLink(p) ==
  /\ pc[p] = "linkSync"
  /\ Synced
  /\ Goto(p, "cleanup")
  /\ UNCHANGED <<got, lock, used, returned, faults>>

\* The temporary name is removed and the directory synced; a removal that
\* fails is only logged.
Cleanup(p) ==
  /\ pc[p] = "cleanup"
  /\ Synced \/ UNCHANGED disk
  /\ Returns(p, got[p])
  /\ UNCHANGED <<used, faults>>

SyncWinner(p) ==
  /\ pc[p] = "winnerSync"
  /\ Synced
  /\ Goto(p, "readWinner")
  /\ UNCHANGED <<got, lock, used, returned, faults>>

ReadWinner(p) ==
  /\ pc[p] = "readWinner"
  /\ IF entry \in Ids THEN Returns(p, entry) ELSE Ends(p) /\ UNCHANGED returned
  /\ UNCHANGED <<disk, used, faults>>

-----------------------------------------------------------------------------
(* Failures and other programs *)

\* The process is killed, or an operation fails and the error is returned.
Fail(p) ==
  /\ pc[p] # "idle"
  /\ Ends(p)
  /\ Forget(p)
  /\ UNCHANGED <<present, kept, inherited, entry, possible, synced, used, returned, faults>>

\* What a name stands for after a power failure.
Recovered(content) ==
  IF content \in Ids \ synced THEN {"partial", content} ELSE {content}

LosePower ==
  /\ "power" \in faults
  /\ pc' = [p \in Processes |-> "idle"]
  /\ got' = [p \in Processes |-> NoId]
  /\ lock' = NoProcess
  /\ DirectoriesSurvive
  /\ \/ /\ present' = Depth
        /\ \E content \in possible : entry' \in Recovered(content)
     \/ /\ present' < Depth
        /\ entry' = "missing"
  /\ possible' = {entry'}
  /\ UNCHANGED <<synced, used, returned, faults>>

\* A program that does not use the lock publishes a complete file.
Publish ==
  /\ "publish" \in faults
  /\ DirectoryExists
  /\ entry = "missing"
  /\ \E id \in Ids \ used :
        /\ entry' = id
        /\ possible' = possible \cup {id}
        /\ synced' = synced \cup {id}
        /\ used' = used \cup {id}
  /\ UNCHANGED <<pc, got, lock, directories, returned, faults>>

-----------------------------------------------------------------------------
Step(p) ==
  \/ EnsureTree(p) \/ Look(p) \/ Barrier(p)
  \/ Acquire(p) \/ SyncLock(p) \/ Inspect(p) \/ Quarantine(p) \/ SyncQuarantine(p)
  \/ Generate(p) \/ SyncTemporary(p) \/ Link(p) \/ SyncLink(p) \/ Cleanup(p)
  \/ SyncWinner(p) \/ ReadWinner(p)

Next ==
  \/ \E p \in Processes : Start(p) \/ Step(p) \/ Fail(p)
  \/ LosePower \/ Publish

Spec == Init /\ [][Next]_vars

-----------------------------------------------------------------------------
(* Properties *)

TypeOK ==
  /\ faults \in FaultSets
  /\ pc \in [Processes -> PCs]
  /\ got \in [Processes -> Ids \cup {NoId}]
  /\ lock \in Processes \cup {NoProcess}
  /\ DirectoriesTyped
  /\ entry \in Contents
  /\ possible \subseteq Contents
  /\ synced \subseteq Ids /\ used \subseteq Ids /\ returned \subseteq Ids

\* On a machine that loses power, a launch has taken a directory for durable
\* that another launch had created and not yet synced.
Exposed == inherited /\ "power" \in faults

\* "Loads this installation's stable ID" (identity.rs:32): every launch that
\* gets an id gets the same one, whatever was killed or lost between them --
\* except behind an unsynced outer directory, which a power failure takes with
\* the id in it.
StableId == ~Exposed => \A id1, id2 \in returned : id1 = id2

\* An id is reported only when it would survive a power failure: its data, its
\* name and every directory of its path, with the same one exception, whatever
\* was killed or failed before.
\* "Establish the metadata durability barrier before treating its final file as
\* successful" (identity.rs:128) asks as much of an id that another program
\* published; here it is where RustView alone publishes ids.
OwnIdIsDurable ==
  "publish" \notin faults /\ ~inherited =>
    \A id \in returned : possible = {id} /\ id \in synced /\ Levels \subseteq kept

\* A file that is not an interrupted write is never moved or replaced, only
\* lost with an unsynced directory: two launches that recover from one
\* interrupted write do not undo each other.
OnlyPartialsMoved ==
  [][entry' # entry => entry \in {"missing", "partial"} \/ entry' \in possible
                     \/ present' < Depth]_vars

=============================================================================
