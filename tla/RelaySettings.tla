---------------------------- MODULE RelaySettings ----------------------------
(***************************************************************************)
(* The relay address of apps/rustview-desktop/src/settings.rs: a journal   *)
(* of lines in the configuration directory, read when RustView starts and  *)
(* appended to when its user changes the address, by several instances     *)
(* under one file lock.  An instance may be killed or meet an I/O error at *)
(* any step, and the machine may lose power.  The path of the directory is *)
(* that of ConfigDirectory.                                                *)
(*                                                                         *)
(* The journal is what its readers tell apart: the address of its last     *)
(* complete valid line, how many complete lines there are, and whether     *)
(* bytes without an end of line follow them.                               *)
(***************************************************************************)
EXTENDS ConfigDirectory

CONSTANTS NoProcess,   \* nobody holds the lock
          Addresses,   \* valid relay addresses
          Default,     \* DEFAULT_RELAY_ADDRESS
          Nothing,     \* no address was saved
          MaxLines,    \* MAX_SETTINGS_FILE_BYTES, in lines
          MaxSaves     \* bound: saves in a behaviour

ASSUME NoProcessIsNone == NoProcess \notin Processes
ASSUME NamesDiffer == Default \notin Addresses /\ Nothing \notin Addresses
ASSUME MaxLinesIsPositive == MaxLines \in Nat \ {0}
ASSUME MaxSavesIsNat == MaxSaves \in Nat

VARIABLES
  addr,       \* the address it is saving
  relay,      \* relay_address of the running application
  warned,     \* its start reported that a setting was ignored
  lock,       \* holder of the lock of the settings
  file,       \* the journal now
  possible,   \* what it may be after a power failure
  acked,      \* ghost: the address of the last save that succeeded
  attempted,  \* ghost: addresses whose lines were written since, unreported
  saves       \* saves begun

instances == <<pc, addr, relay, warned>>
ghosts == <<acked, attempted>>
vars == <<pc, level, present, kept, inherited, addr, relay, warned, lock, file, possible,
          acked, attempted, saves>>

Loading == {"loadPath", "loadLock", "loadSync", "read"}
Saving == {"walk", "create", "syncEntry", "again", "saveLock", "saveSync", "inspect",
           "discard", "write", "sync", "syncDirectory"}
PCs == {"off", "on"} \cup Loading \cup Saving

Journals == [present : BOOLEAN, latest : Addresses \cup {Nothing},
             lines : 0..MaxLines, torn : BOOLEAN]
Missing == [present |-> FALSE, latest |-> Nothing, lines |-> 0, torn |-> FALSE]
Empty == [Missing EXCEPT !.present = TRUE]

\* A journal that was never written, or one that earlier runs left, perhaps
\* with an interrupted append or a line nobody can read.
Init ==
  /\ pc = [p \in Processes |-> "off"]
  /\ addr \in [Processes -> {Nothing}]
  /\ relay = [p \in Processes |-> Default]
  /\ warned = [p \in Processes |-> FALSE]
  /\ lock = NoProcess
  /\ DirectoriesInit
  /\ file \in {Missing} \cup
        IF ~DirectoryExists THEN {}
        ELSE {Empty} \cup [present : {TRUE}, latest : Addresses \cup {Nothing}, lines : {1},
                           torn : BOOLEAN]
  /\ possible = {file}
  /\ acked = file.latest
  /\ attempted = {}
  /\ saves = 0

Unlock(p) == lock' = IF lock = p THEN NoProcess ELSE lock

\* A sync of the directory keeps the name, one of the journal its contents.
NameSynced == IF file.present THEN possible \ {Missing} ELSE possible
ContentsSynced == (possible \cap {Missing}) \cup {file}

-----------------------------------------------------------------------------
(* The lock, common to both operations *)

\* SettingsLock::acquire waits for the lock.
Acquire(p) ==
  /\ pc[p] \in {"loadLock", "saveLock"}
  /\ lock = NoProcess
  /\ lock' = p
  /\ Goto(p, IF pc[p] = "loadLock" THEN "loadSync" ELSE "saveSync")
  /\ UNCHANGED <<directories, addr, relay, warned, file, possible, ghosts, saves>>

\* The lock file and its directory are synced.
SyncLock(p) ==
  /\ pc[p] \in {"loadSync", "saveSync"}
  /\ possible' = NameSynced
  /\ Goto(p, IF pc[p] = "loadSync" THEN "read" ELSE "inspect")
  /\ UNCHANGED <<directories, addr, relay, warned, lock, file, ghosts, saves>>

-----------------------------------------------------------------------------
(* initial_relay_address *)

\* A valid RUSTVIEW_RELAY decides; an invalid one is reported and ignored.
Launch(p) ==
  /\ pc[p] = "off"
  /\ \/ /\ \E a \in Addresses : relay' = [relay EXCEPT ![p] = a]
        /\ warned' = [warned EXCEPT ![p] = FALSE]
        /\ Goto(p, "on")
     \/ /\ \E invalid \in BOOLEAN : warned' = [warned EXCEPT ![p] = invalid]
        /\ Goto(p, "loadPath")
        /\ UNCHANGED relay
  /\ UNCHANGED <<directories, addr, lock, file, possible, ghosts, saves>>

Oversize(f) == f.lines > MaxLines
Readable(f) == ~Oversize(f) /\ f.latest # Nothing

\* Mutant: an unreadable journal counts as none at all.
MLoaded(p, a, warning) ==
  /\ relay' = [relay EXCEPT ![p] = a]
  /\ Goto(p, "on")
  /\ UNCHANGED warned

\* choose_initial_relay: what could not be read is replaced by the default,
\* with a warning.
Loaded(p, a, warning) ==
  /\ relay' = [relay EXCEPT ![p] = a]
  /\ warned' = [warned EXCEPT ![p] = @ \/ warning]
  /\ Goto(p, "on")

\* load_relay_address_at; where there is no directory, nothing was saved.
FindDirectory(p) ==
  /\ pc[p] = "loadPath"
  /\ IF DirectoryExists THEN Goto(p, "loadLock") /\ UNCHANGED <<relay, warned>>
                        ELSE Loaded(p, Default, FALSE)
  /\ UNCHANGED <<directories, addr, lock, file, possible, ghosts, saves>>

Read(p) ==
  /\ pc[p] = "read"
  /\ IF Readable(file) THEN Loaded(p, file.latest, FALSE)
                       ELSE Loaded(p, Default, file.present)
  /\ Unlock(p)
  /\ UNCHANGED <<directories, addr, file, possible, ghosts, saves>>

-----------------------------------------------------------------------------
(* save_relay_address *)

\* apply_relay_settings with an address that normalizes.
Save(p) ==
  /\ pc[p] = "on"
  /\ saves < MaxSaves
  /\ \E a \in Addresses : addr' = [addr EXCEPT ![p] = a]
  /\ Goto(p, "walk")
  /\ saves' = saves + 1
  /\ UNCHANGED <<directories, relay, warned, lock, file, possible, ghosts>>

\* ensure_config_directory of save_relay_address
EnsurePath(p) ==
  /\ EnsureDirectory(p, "again")
  /\ UNCHANGED <<addr, relay, warned, lock, file, possible, ghosts, saves>>

\* That of save_relay_address_at, which finds the directory.
EnsureAgain(p) ==
  /\ pc[p] = "again"
  /\ kept' = kept \cup {Depth}
  /\ Goto(p, "saveLock")
  /\ UNCHANGED <<level, present, inherited, addr, relay, warned, lock, file, possible,
                 ghosts, saves>>

\* An error is shown; relay_address stays what it was.
SaveFails(p) ==
  /\ Goto(p, "on")
  /\ addr' = [addr EXCEPT ![p] = Nothing]
  /\ Unlock(p)
  /\ UNCHANGED <<relay, warned>>

\* The journal is opened, or created, and read.
Inspect(p) ==
  /\ pc[p] = "inspect"
  /\ IF file.present THEN UNCHANGED <<file, possible>>
                     ELSE file' = Empty /\ possible' = possible \cup {Empty}
  /\ IF Oversize(file) THEN SaveFails(p)
     ELSE /\ Goto(p, IF file.torn THEN "discard" ELSE "write")
          /\ UNCHANGED <<addr, relay, warned, lock>>
  /\ UNCHANGED <<directories, ghosts, saves>>

\* Mutant: an interrupted append stays in front of the new line.
MDiscard(p) ==
  /\ pc[p] = "discard"
  /\ Goto(p, "write")
  /\ UNCHANGED <<directories, addr, relay, warned, lock, file, possible, ghosts, saves>>

Discard(p) ==
  /\ pc[p] = "discard"
  /\ file' = [file EXCEPT !.torn = FALSE]
  /\ possible' = possible \cup {file'}
  /\ Goto(p, "write")
  /\ UNCHANGED <<directories, addr, relay, warned, lock, ghosts, saves>>

Fits(f) == f.lines + 1 <= MaxLines

\* A line written after bytes that have no end of line is one with them, and
\* its length does not fit.
Garbled(f) == [f EXCEPT !.lines = @ + 1, !.torn = FALSE]
Torn(f) == [f EXCEPT !.torn = TRUE]
Appended(f, a) == IF f.torn THEN Garbled(f) ELSE [Garbled(f) EXCEPT !.latest = a]

\* Until it is synced, a power failure may leave all, some or none of the line.
Write(p) ==
  /\ pc[p] = "write"
  /\ Fits(file)
  /\ file' = Appended(file, addr[p])
  /\ possible' = possible \cup {file', Torn(file), Garbled(file)}
  /\ attempted' = attempted \cup {addr[p]}
  /\ Goto(p, "sync")
  /\ UNCHANGED <<directories, addr, relay, warned, lock, acked, saves>>

\* The write stops half way: an error, or the end of the process.
WriteTorn(p) ==
  /\ pc[p] = "write"
  /\ Fits(file)
  /\ file' = Torn(file)
  /\ possible' = possible \cup {file'}
  /\ \/ SaveFails(p)
     \/ /\ Goto(p, "off")
        /\ addr' = [addr EXCEPT ![p] = Nothing]
        /\ Unlock(p)
        /\ UNCHANGED <<relay, warned>>
  /\ UNCHANGED <<directories, ghosts, saves>>

RefuseFull(p) ==
  /\ pc[p] = "write"
  /\ ~Fits(file)
  /\ SaveFails(p)
  /\ UNCHANGED <<directories, file, possible, ghosts, saves>>

Sync(p) ==
  /\ pc[p] = "sync"
  /\ possible' = ContentsSynced
  /\ Goto(p, "syncDirectory")
  /\ UNCHANGED <<directories, addr, relay, warned, lock, file, ghosts, saves>>

\* The save is reported, and the application uses the address.
SyncDirectory(p) ==
  /\ pc[p] = "syncDirectory"
  /\ possible' = NameSynced
  /\ acked' = addr[p] /\ attempted' = {}
  /\ relay' = [relay EXCEPT ![p] = addr[p]]
  /\ addr' = [addr EXCEPT ![p] = Nothing]
  /\ Goto(p, "on")
  /\ Unlock(p)
  /\ UNCHANGED <<directories, warned, file, saves>>

-----------------------------------------------------------------------------
(* Failures *)

\* An operation of the file system fails.
Fail(p) ==
  /\ \/ pc[p] \in Saving /\ SaveFails(p)
     \/ pc[p] \in Loading /\ Loaded(p, Default, TRUE) /\ Unlock(p) /\ UNCHANGED addr
  /\ Forget(p)
  /\ UNCHANGED <<present, kept, inherited, file, possible, ghosts, saves>>

Kill(p) ==
  /\ pc[p] # "off"
  /\ Goto(p, "off")
  /\ addr' = [addr EXCEPT ![p] = Nothing]
  /\ Unlock(p)
  /\ Forget(p)
  /\ UNCHANGED <<present, kept, inherited, relay, warned, file, possible, ghosts, saves>>

LosePower ==
  /\ pc' = [p \in Processes |-> "off"]
  /\ addr' = [p \in Processes |-> Nothing]
  /\ lock' = NoProcess
  /\ DirectoriesSurvive
  /\ file' \in IF present' = Depth THEN possible ELSE {Missing}
  /\ possible' = {file'}
  /\ UNCHANGED <<relay, warned, ghosts, saves>>

-----------------------------------------------------------------------------
Step(p) ==
  \/ Launch(p) \/ FindDirectory(p) \/ Acquire(p) \/ SyncLock(p) \/ Read(p)
  \/ Save(p) \/ EnsurePath(p) \/ EnsureAgain(p) \/ Inspect(p) \/ Discard(p) \/ Write(p) \/ WriteTorn(p) \/ RefuseFull(p)
  \/ Sync(p) \/ SyncDirectory(p)

Next == \/ \E p \in Processes : Step(p) \/ Fail(p) \/ Kill(p)
        \/ LosePower

Spec == Init /\ [][Next]_vars

-----------------------------------------------------------------------------
(* Properties *)

TypeOK ==
  /\ pc \in [Processes -> PCs]
  /\ addr \in [Processes -> Addresses \cup {Nothing}]
  /\ relay \in [Processes -> Addresses \cup {Default}]
  /\ warned \in [Processes -> BOOLEAN]
  /\ lock \in Processes \cup {NoProcess}
  /\ DirectoriesTyped
  /\ file \in Journals
  /\ possible \subseteq Journals
  /\ acked \in Addresses \cup {Nothing} /\ attempted \subseteq Addresses
  /\ saves \in Nat

\* The address a journal gives to the next start.
Setting(f) == IF Readable(f) THEN f.latest ELSE Nothing
Current == attempted \cup {acked}

\* "The preceding complete record remains the committed setting"
\* (settings.rs:135): whatever failed or was killed, the journal gives the
\* address of the last successful save, or one of a later save that wrote its
\* line without reporting it, and so does all that a power failure may leave of
\* it, whose directory it leaves, too -- except when a save took an unsynced
\* outer directory for durable.  A full journal never makes it unreadable.
SavedSurvives ==
  ~inherited => /\ \A f \in possible \cup {file} : Setting(f) \in Current
                /\ acked = Nothing \/ Levels \subseteq kept

\* "The relay address is saved from the desktop UI and restored on the next
\* launch" (README.md:202): a start without RUSTVIEW_RELAY and without a warning
\* uses the saved address, and the default only if none was saved, with the same
\* exception.
RestoredAtLaunch ==
  [][\A p \in Processes :
       ~inherited /\ pc[p] \in Loading /\ pc'[p] = "on" /\ ~warned'[p]
         => \/ relay'[p] \in Current
            \/ relay'[p] = Default /\ acked = Nothing]_vars

=============================================================================
