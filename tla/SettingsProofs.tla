---------------------------- MODULE SettingsProofs ----------------------------
(***************************************************************************)
(* Proofs about RelaySettings, for any number of instances, addresses,     *)
(* saves and failures.                                                     *)
(*                                                                         *)
(* SavedSurvives speaks of the journal between the steps; what makes it    *)
(* inductive is the lock, and what the instance that holds it knows of the *)
(* journal: that it ends with a whole line when it appends, and that only  *)
(* its own line can be the last one when it reports its save.  A save also *)
(* relies on every directory above the journal, which PathKept says were   *)
(* synced on its way there, but for those it took for durable.             *)
(***************************************************************************)
EXTENDS RelaySettings, TLAPS

HoldingPCs == {"loadSync", "read", "saveSync", "inspect", "discard", "write", "sync",
               "syncDirectory"}
LockExclusive == \A p \in Processes : pc[p] \in HoldingPCs => lock = p

\* A save past the walk relies on the whole path, one on the way on what is
\* above it, and so does what was saved.
EnsuredPCs == {"again", "saveLock", "saveSync", "inspect", "discard", "write", "sync",
               "syncDirectory"}
PathKept ==
  /\ kept \subseteq 1..present
  /\ \A p \in Processes :
        /\ pc[p] \in {"create", "syncEntry"} => level[p] \in Levels
        /\ pc[p] = "syncEntry" => level[p] <= present
        /\ pc[p] \in EnsuredPCs => DirectoryExists
        /\ ~inherited => /\ pc[p] \in {"create", "syncEntry"} => 1..(level[p] - 1) \subseteq kept
                         /\ pc[p] \in EnsuredPCs => Levels \subseteq kept
CurrentKept == ~inherited /\ Current # {Nothing} => Levels \subseteq kept

\* A journal that gives the next start the address it should.
Committed(f) ==
  /\ f \in Journals
  /\ ~f.present => f = Missing
  /\ ~inherited => f.latest \in Current
JournalsCommitted == \A f \in possible \cup {file} : Committed(f)

\* What the instance that saves knows of the journal.
Prepared ==
  \A p \in Processes :
     /\ pc[p] \in {"discard", "write", "sync", "syncDirectory"} => file.present
     /\ pc[p] = "write" => ~file.torn
     /\ pc[p] \in {"sync", "syncDirectory"} => file.latest = addr[p]
     /\ pc[p] = "syncDirectory" => \A f \in possible : f = Missing \/ f.latest = addr[p]

\* The address it saves.
Addressed == \A p \in Processes : pc[p] \in Saving => addr[p] \in Addresses

SettingsInv ==
  /\ TypeOK /\ LockExclusive /\ Addressed
  /\ PathKept /\ CurrentKept /\ JournalsCommitted /\ Prepared

-----------------------------------------------------------------------------
(* The operations on journals *)

\* The journals a start may find.
LEMMA JournalsAre ==
  /\ Missing \in Journals /\ Empty \in Journals
  /\ Missing.latest = Nothing /\ Empty.latest = Nothing /\ Empty.present
  /\ ~Missing.present /\ ~Empty.torn
<1>1. Missing \in Journals /\ Empty \in Journals
  <2>1. 0 \in 0..MaxLines
    BY MaxLinesIsPositive
  <2>2. Missing \in Journals
    BY <2>1 DEF Missing, Journals
  <2> QED
    BY <2>2 DEF Empty, Journals
<1>2. /\ Missing.latest = Nothing /\ Empty.latest = Nothing /\ Empty.present
      /\ ~Missing.present /\ ~Empty.torn
  BY DEF Missing, Empty
<1> QED
  BY <1>1, <1>2

\* What a torn append, a truncation and an append do to a journal.
LEMMA JournalChanges ==
  ASSUME NEW f \in Journals, NEW a \in Addresses
  PROVE  /\ Torn(f) \in Journals /\ Torn(f).latest = f.latest
         /\ Torn(f).present = f.present
         /\ [f EXCEPT !.torn = FALSE] \in Journals
         /\ [f EXCEPT !.torn = FALSE].latest = f.latest
         /\ [f EXCEPT !.torn = FALSE].present = f.present
         /\ ~[f EXCEPT !.torn = FALSE].torn
         /\ Fits(f) => /\ Garbled(f) \in Journals /\ Garbled(f).latest = f.latest
                       /\ Garbled(f).present = f.present
                       /\ Appended(f, a) \in Journals
                       /\ Appended(f, a).present = f.present
                       /\ ~f.torn => Appended(f, a).latest = a
                       /\ Appended(f, a).latest \in {f.latest, a}
<1>1. f.lines \in Nat /\ (Fits(f) => f.lines + 1 \in 0..MaxLines)
  BY MaxLinesIsPositive DEF Journals, Fits
<1>2. Torn(f) \in Journals /\ [f EXCEPT !.torn = FALSE] \in Journals
  BY DEF Torn, Journals
<1>3. Fits(f) => Garbled(f) \in Journals /\ Appended(f, a) \in Journals
  BY <1>1 DEF Garbled, Appended, Journals
<1> QED
  BY <1>2, <1>3 DEF Torn, Garbled, Appended, Journals

-----------------------------------------------------------------------------
(* The path *)

\* The walk stays on the path.
LEMMA EnsureTyped ==
  ASSUME TypeOK, PathKept, NEW p \in Processes, EnsureDirectory(p, "again")
  PROVE  DirectoriesTyped'
<1>0. /\ DirectoriesTyped /\ level[p] \in 0..Depth /\ Depth \in Nat /\ present \in 0..Depth
      /\ pc[p] \in {"create", "syncEntry"} => level[p] \in Levels
  BY DepthIsPositive DEF TypeOK, PathKept, DirectoriesTyped
<1>1. CASE Walk(p)
  <2>1. level' \in [Processes -> 0..Depth]
    <3>1. PICK n \in 0..Depth : level' = [level EXCEPT ![p] = n]
      <4>1. CASE level[p] > present /\ level' = [level EXCEPT ![p] = level[p] - 1]
        <5>1. level[p] - 1 \in 0..Depth
          BY <1>0, <4>1
        <5> QED
          BY <4>1, <5>1
      <4>2. CASE level[p] < Depth /\ level' = [level EXCEPT ![p] = level[p] + 1]
        <5>1. level[p] + 1 \in 0..Depth
          BY <1>0, <4>2
        <5> QED
          BY <4>2, <5>1
      <4>3. CASE level' = level
        BY <1>0, <4>3 DEF DirectoriesTyped
      <4> QED
        BY <1>1, <4>1, <4>2, <4>3 DEF Walk
    <3> QED
      BY <1>0, <3>1 DEF DirectoriesTyped
  <2>2. inherited' \in BOOLEAN
    BY <1>0, <1>1, Zenon DEF Walk, Inherits, DirectoriesTyped
  <2> QED
    BY <1>0, <1>1, <2>1, <2>2 DEF Walk, DirectoriesTyped
<1>2. CASE CreateDirectory(p)
  BY <1>0, <1>2 DEF CreateDirectory, DirectoriesTyped, Levels
<1>3. CASE SyncEntry(p, "again")
  <2>1. kept' \subseteq Levels /\ UNCHANGED <<present, inherited>>
    BY <1>0, <1>3 DEF SyncEntry, DirectoriesTyped
  <2>2. level' \in [Processes -> 0..Depth]
    BY <1>0, <1>3 DEF SyncEntry, DirectoriesTyped
  <2> QED
    BY <1>0, <2>1, <2>2 DEF DirectoriesTyped
<1> QED
  BY <1>1, <1>2, <1>3 DEF EnsureDirectory

\* A walk goes on from a component only if those above it were synced, or it is
\* noted.
LEMMA WalkKeepsPath ==
  ASSUME TypeOK, PathKept, NEW p \in Processes, Walk(p)
  PROVE  PathKept'
<1>0. /\ level \in [Processes -> 0..Depth] /\ present \in 0..Depth /\ Depth \in Nat \ {0}
      /\ pc \in [Processes -> PCs] /\ pc[p] = "walk" /\ PathKept
      /\ UNCHANGED <<present, kept>>
  BY DepthIsPositive DEF TypeOK, DirectoriesTyped, Walk
<1>1. CASE UNCHANGED <<pc, inherited>> /\ level' = [level EXCEPT ![p] = level[p] - 1]
  BY <1>0, <1>1 DEF PathKept, DirectoryExists
<1>2. ASSUME NEW l \in Levels, NEW next \in {"create", "syncEntry"},
             level'[p] = l, \A q \in Processes \ {p} : level'[q] = level[q],
             pc' = [pc EXCEPT ![p] = next], next = "syncEntry" => l <= present,
             Inherits(l)
      PROVE  PathKept'
  <2>1. ~inherited' => ~inherited /\ 1..(l - 1) \subseteq kept
    BY <1>2 DEF Inherits
  <2>2. /\ pc'[p] = next
        /\ \A q \in Processes \ {p} : pc'[q] = pc[q]
    BY <1>0, <1>2
  <2>3. next \notin EnsuredPCs
    BY DEF EnsuredPCs
  <2>4. ASSUME NEW q \in Processes
        PROVE  /\ pc'[q] \in {"create", "syncEntry"} => level'[q] \in Levels
               /\ pc'[q] = "syncEntry" => level'[q] <= present'
               /\ pc'[q] \in EnsuredPCs => present' = Depth
               /\ ~inherited' =>
                    /\ pc'[q] \in {"create", "syncEntry"} => 1..(level'[q] - 1) \subseteq kept'
                    /\ pc'[q] \in EnsuredPCs => Levels \subseteq kept'
    <3>1. CASE q = p
      BY <1>0, <1>2, <2>1, <2>2, <2>3, <3>1
    <3>2. CASE q # p
      BY <1>0, <1>2, <2>1, <2>2, <3>2 DEF PathKept, DirectoryExists
    <3> QED
      BY <3>1, <3>2
  <2> QED
    BY <1>0, <2>4 DEF PathKept, Levels, DirectoryExists
<1>3. CASE level[p] < Depth /\ level' = [level EXCEPT ![p] = level[p] + 1]
           /\ Goto(p, "create") /\ Inherits(level[p] + 1)
  <2>1. level[p] + 1 \in Levels
    BY <1>0, <1>3 DEF Levels
  <2>2. level'[p] = level[p] + 1 /\ \A q \in Processes \ {p} : level'[q] = level[q]
    BY <1>0, <1>3
  <2> QED
    BY <1>2, <1>3, <2>1, <2>2 DEF Goto
<1>4. CASE level[p] <= present /\ level[p] = Depth /\ UNCHANGED level
           /\ Goto(p, "syncEntry") /\ Inherits(Depth)
  <2>1. Depth \in Levels
    BY <1>0 DEF Levels
  <2> QED
    BY <1>2, <1>4, <2>1 DEF Goto
<1> QED
  BY <1>1, <1>3, <1>4 DEF Walk

\* A step on the way to the directory leaves all but the path alone, and takes
\* no directory off it.
LEMMA EnsureMoves ==
  ASSUME TypeOK, NEW p \in Processes, EnsurePath(p)
  PROVE  /\ pc[p] \in {"walk", "create", "syncEntry"}
         /\ \E next \in {"walk", "create", "syncEntry", "again"} : pc' = [pc EXCEPT ![p] = next]
         /\ UNCHANGED <<addr, relay, warned, lock, file, possible, acked, attempted, saves>>
         /\ kept \subseteq kept' /\ (inherited => inherited')
<1>1. /\ pc[p] \in {"walk", "create", "syncEntry"}
      /\ \E next \in {"walk", "create", "syncEntry", "again"} : pc' = [pc EXCEPT ![p] = next]
      /\ kept \subseteq kept'
  BY DEF EnsurePath, EnsureDirectory, Walk, CreateDirectory, SyncEntry, Goto, TypeOK
<1>2. UNCHANGED <<addr, relay, warned, lock, file, possible, acked, attempted, saves>>
  BY DEF EnsurePath, ghosts
<1>3. inherited => inherited'
  BY Zenon DEF EnsurePath, EnsureDirectory, Walk, CreateDirectory, SyncEntry, Inherits
<1> QED
  BY <1>1, <1>2, <1>3

-----------------------------------------------------------------------------
(* The invariant *)

\* The lock of the settings is a lock.
LEMMA LockStep ==
  ASSUME TypeOK, LockExclusive, [Next]_vars
  PROVE  LockExclusive'
<1> USE DEF TypeOK, LockExclusive, HoldingPCs, Saving, Loading, PCs
<1>1. ASSUME NEW p \in Processes, Launch(p) PROVE LockExclusive'
  BY <1>1 DEF Launch, Goto, ghosts
<1>2. ASSUME NEW p \in Processes, Acquire(p) PROVE LockExclusive'
  BY <1>2, NoProcessIsNone DEF Acquire, Goto, ghosts
<1>3. ASSUME NEW p \in Processes, SyncLock(p) PROVE LockExclusive'
  BY <1>3 DEF SyncLock, Goto, NameSynced, ghosts
<1>4. ASSUME NEW p \in Processes, Read(p) PROVE LockExclusive'
  BY <1>4 DEF Read, Loaded, Goto, Unlock, ghosts
<1>5. ASSUME NEW p \in Processes, Save(p) PROVE LockExclusive'
  BY <1>5 DEF Save, Goto, ghosts
<1>6. ASSUME NEW p \in Processes, Inspect(p) PROVE LockExclusive'
  BY <1>6 DEF Inspect, SaveFails, Goto, Unlock, Oversize, ghosts
<1>7. ASSUME NEW p \in Processes, Discard(p) PROVE LockExclusive'
  BY <1>7 DEF Discard, Goto, ghosts
<1>8. ASSUME NEW p \in Processes, Write(p) PROVE LockExclusive'
  BY <1>8 DEF Write, Goto
<1>9. ASSUME NEW p \in Processes, WriteTorn(p) PROVE LockExclusive'
  BY <1>9 DEF WriteTorn, SaveFails, Goto, Unlock, ghosts
<1>10. ASSUME NEW p \in Processes, RefuseFull(p) PROVE LockExclusive'
  BY <1>10 DEF RefuseFull, SaveFails, Goto, Unlock, ghosts
<1>11. ASSUME NEW p \in Processes, Sync(p) PROVE LockExclusive'
  BY <1>11 DEF Sync, Goto, ContentsSynced, ghosts
<1>12. ASSUME NEW p \in Processes, SyncDirectory(p) PROVE LockExclusive'
  BY <1>12 DEF SyncDirectory, Goto, Unlock, NameSynced
<1>13. ASSUME NEW p \in Processes, Fail(p) PROVE LockExclusive'
  BY <1>13 DEF Fail, SaveFails, Loaded, Goto, Unlock, ghosts
<1>14. ASSUME NEW p \in Processes, Kill(p) PROVE LockExclusive'
  BY <1>14 DEF Kill, Goto, Unlock, ghosts
<1>17. ASSUME NEW p \in Processes, FindDirectory(p) PROVE LockExclusive'
  BY <1>17 DEF FindDirectory, Loaded, Goto, ghosts
<1>18. ASSUME NEW p \in Processes, EnsurePath(p) PROVE LockExclusive'
  <2>1. PICK next \in {"walk", "create", "syncEntry", "again"} : pc' = [pc EXCEPT ![p] = next]
    BY <1>18, EnsureMoves
  <2>2. UNCHANGED <<addr, relay, warned, lock, file, possible, acked, attempted, saves>>
    BY <1>18, EnsureMoves
  <2>3. pc[p] \in {"walk", "create", "syncEntry"} /\ (inherited => inherited')
    BY <1>18, EnsureMoves
  <2> QED
    BY <2>1, <2>2, <2>3
<1>19. ASSUME NEW p \in Processes, EnsureAgain(p) PROVE LockExclusive'
  BY <1>19 DEF EnsureAgain, Goto, ghosts
<1>15. CASE LosePower
  BY <1>15 DEF LosePower, ghosts
<1>16. CASE UNCHANGED vars
  BY <1>16 DEF vars
<1> QED
  BY <1>1, <1>2, <1>3, <1>4, <1>5, <1>6, <1>7, <1>8, <1>9, <1>10, <1>11,
     <1>12, <1>13, <1>14, <1>15, <1>16, <1>17, <1>18, <1>19 DEF Next, Step

\* Every component of the path is synced before the lock is taken, but for
\* those a walk took for durable.
LEMMA PathStep ==
  ASSUME TypeOK, PathKept, [Next]_vars
  PROVE  PathKept'
<1> USE DEF PathKept, DirectoryExists, TypeOK, DirectoriesTyped, EnsuredPCs, directories, Loading, Saving
<1>1. ASSUME NEW p \in Processes, Launch(p) PROVE PathKept'
  BY <1>1 DEF Launch, Goto, ghosts
<1>2. ASSUME NEW p \in Processes, Acquire(p) PROVE PathKept'
  BY <1>2 DEF Acquire, Goto, ghosts
<1>3. ASSUME NEW p \in Processes, SyncLock(p) PROVE PathKept'
  BY <1>3 DEF SyncLock, Goto, ghosts
<1>4. ASSUME NEW p \in Processes, Read(p) PROVE PathKept'
  BY <1>4 DEF Read, Loaded, Goto, ghosts
<1>5. ASSUME NEW p \in Processes, Save(p) PROVE PathKept'
  BY <1>5 DEF Save, Goto, ghosts
<1>6. ASSUME NEW p \in Processes, Inspect(p) PROVE PathKept'
  BY <1>6 DEF Inspect, SaveFails, Goto, ghosts
<1>7. ASSUME NEW p \in Processes, Discard(p) PROVE PathKept'
  BY <1>7 DEF Discard, Goto, ghosts
<1>8. ASSUME NEW p \in Processes, Write(p) PROVE PathKept'
  BY <1>8 DEF Write, Goto
<1>9. ASSUME NEW p \in Processes, WriteTorn(p) PROVE PathKept'
  BY <1>9 DEF WriteTorn, SaveFails, Goto, ghosts
<1>10. ASSUME NEW p \in Processes, RefuseFull(p) PROVE PathKept'
  BY <1>10 DEF RefuseFull, SaveFails, Goto, ghosts
<1>11. ASSUME NEW p \in Processes, Sync(p) PROVE PathKept'
  BY <1>11 DEF Sync, Goto, ghosts
<1>12. ASSUME NEW p \in Processes, SyncDirectory(p) PROVE PathKept'
  BY <1>12 DEF SyncDirectory, Goto
<1>13. ASSUME NEW p \in Processes, Fail(p) PROVE PathKept'
  BY <1>13, DepthIsPositive DEF Fail, Forget, SaveFails, Loaded, Goto, ghosts
<1>14. ASSUME NEW p \in Processes, Kill(p) PROVE PathKept'
  BY <1>14, DepthIsPositive DEF Kill, Forget, Goto, ghosts
<1>15. CASE LosePower
  BY <1>15, DepthIsPositive DEF LosePower, DirectoriesSurvive
<1>16. CASE UNCHANGED vars
  BY <1>16 DEF vars
<1>17. ASSUME NEW p \in Processes, FindDirectory(p) PROVE PathKept'
  BY <1>17 DEF FindDirectory, Loaded, Goto
<1>18. ASSUME NEW p \in Processes, EnsurePath(p) PROVE PathKept'
  <2>1. CASE Walk(p)
    BY <2>1, WalkKeepsPath
  <2>2. CASE CreateDirectory(p)
    BY <2>2, DepthIsPositive DEF CreateDirectory, Goto, Levels
  <2>3. CASE SyncEntry(p, "again") /\ level[p] = Depth
    BY <2>3, DepthIsPositive DEF SyncEntry, Goto, Levels
  <2>4. CASE SyncEntry(p, "again") /\ level[p] < Depth
    <3>1. /\ level' = [level EXCEPT ![p] = level[p] + 1] /\ pc' = [pc EXCEPT ![p] = "create"]
          /\ kept' = kept \cup {level[p]} /\ UNCHANGED <<present, inherited>>
          /\ pc[p] = "syncEntry"
      BY <2>4 DEF SyncEntry, Goto
    <3>2. level[p] \in Levels /\ level[p] + 1 \in Levels /\ level[p] <= present
      BY <2>4, <3>1, DepthIsPositive DEF Levels
    <3>3. kept' \subseteq 1..present'
      <4>1. kept \subseteq 1..present /\ level[p] \in 1..present
        BY <3>1, <3>2, DepthIsPositive DEF Levels
      <4> QED
        BY <3>1, <4>1
    <3>4. ~inherited => 1..level[p] \subseteq kept'
      <4>1. ~inherited => 1..(level[p] - 1) \subseteq kept
        BY <3>1
      <4> QED
        BY <3>1, <3>2, <4>1 DEF Levels
    <3>5. ASSUME NEW q \in Processes
          PROVE  /\ pc'[q] \in {"create", "syncEntry"} => level'[q] \in Levels
                 /\ pc'[q] = "syncEntry" => level'[q] <= present'
                 /\ pc'[q] \in EnsuredPCs => present' = Depth
                 /\ ~inherited' =>
                      /\ pc'[q] \in {"create", "syncEntry"}
                           => 1..(level'[q] - 1) \subseteq kept'
                      /\ pc'[q] \in EnsuredPCs => Levels \subseteq kept'
      <4>1. CASE q = p
        <5>1. pc'[q] = "create" /\ level'[q] = level[p] + 1
          BY <3>1, <4>1
        <5>2. level'[q] - 1 = level[p]
          BY <3>2, <5>1 DEF Levels
        <5> QED
          BY <3>1, <3>2, <3>4, <5>1, <5>2
      <4>2. CASE q # p
        <5>1. pc'[q] = pc[q] /\ level'[q] = level[q]
          BY <3>1, <4>2
        <5> QED
          BY <3>1, <5>1
      <4> QED
        BY <4>1, <4>2
    <3> QED
      BY <3>3, <3>5
  <2>5. level[p] \in 0..Depth /\ Depth \in Nat
    BY DepthIsPositive
  <2>6. SyncEntry(p, "again") => level[p] = Depth \/ level[p] < Depth
    BY <2>5 DEF SyncEntry
  <2> QED
    BY <1>18, <2>1, <2>2, <2>3, <2>4, <2>6 DEF EnsurePath, EnsureDirectory
<1>19. ASSUME NEW p \in Processes, EnsureAgain(p) PROVE PathKept'
  BY <1>19, DepthIsPositive DEF EnsureAgain, Goto, Levels, DirectoryExists
<1> QED
  BY <1>1, <1>2, <1>3, <1>4, <1>5, <1>6, <1>7, <1>8, <1>9, <1>10, <1>11,
     <1>12, <1>13, <1>14, <1>15, <1>16, <1>17, <1>18, <1>19 DEF Next, Step

\* What was saved keeps its directories.
LEMMA CurrentKeptStep ==
  ASSUME TypeOK, PathKept, CurrentKept, [Next]_vars
  PROVE  CurrentKept'
<1> USE DEF CurrentKept, directories
<1>1. ASSUME NEW p \in Processes, Launch(p) PROVE CurrentKept'
  BY <1>1 DEF Launch, ghosts, Current, Levels
<1>2. ASSUME NEW p \in Processes, Acquire(p) PROVE CurrentKept'
  BY <1>2 DEF Acquire, ghosts, Current, Levels
<1>3. ASSUME NEW p \in Processes, SyncLock(p) PROVE CurrentKept'
  BY <1>3 DEF SyncLock, ghosts, Current, Levels
<1>4. ASSUME NEW p \in Processes, Read(p) PROVE CurrentKept'
  BY <1>4 DEF Read, ghosts, Current, Levels
<1>5. ASSUME NEW p \in Processes, Save(p) PROVE CurrentKept'
  BY <1>5 DEF Save, ghosts, Current, Levels
<1>6. ASSUME NEW p \in Processes, Inspect(p) PROVE CurrentKept'
  BY <1>6 DEF Inspect, ghosts, Current, Levels
<1>7. ASSUME NEW p \in Processes, Discard(p) PROVE CurrentKept'
  BY <1>7 DEF Discard, ghosts, Current, Levels
<1>8. ASSUME NEW p \in Processes, Write(p) PROVE CurrentKept'
  BY <1>8 DEF Write, PathKept, EnsuredPCs, Levels
<1>9. ASSUME NEW p \in Processes, WriteTorn(p) PROVE CurrentKept'
  BY <1>9 DEF WriteTorn, ghosts, Current, Levels
<1>10. ASSUME NEW p \in Processes, RefuseFull(p) PROVE CurrentKept'
  BY <1>10 DEF RefuseFull, ghosts, Current, Levels
<1>11. ASSUME NEW p \in Processes, Sync(p) PROVE CurrentKept'
  BY <1>11 DEF Sync, ghosts, Current, Levels
<1>12. ASSUME NEW p \in Processes, SyncDirectory(p) PROVE CurrentKept'
  BY <1>12 DEF SyncDirectory, PathKept, EnsuredPCs, Levels
<1>13. ASSUME NEW p \in Processes, Fail(p) PROVE CurrentKept'
  BY <1>13 DEF Fail, ghosts, Current, Levels
<1>14. ASSUME NEW p \in Processes, Kill(p) PROVE CurrentKept'
  BY <1>14 DEF Kill, ghosts, Current, Levels
<1>15. CASE LosePower
  BY <1>15, DepthIsPositive
     DEF LosePower, DirectoriesSurvive, PathKept, TypeOK, DirectoriesTyped, ghosts, Current, Levels
<1>16. CASE UNCHANGED vars
  BY <1>16 DEF vars, Current, Levels
<1>17. ASSUME NEW p \in Processes, FindDirectory(p) PROVE CurrentKept'
  BY <1>17 DEF FindDirectory, ghosts, Current, Levels
<1>18. ASSUME NEW p \in Processes, EnsurePath(p) PROVE CurrentKept'
  <2>1. /\ UNCHANGED <<acked, attempted>> /\ kept \subseteq kept'
        /\ (inherited => inherited')
    BY <1>18, EnsureMoves
  <2> QED
    BY <2>1 DEF Current, Levels
<1>19. ASSUME NEW p \in Processes, EnsureAgain(p) PROVE CurrentKept'
  BY <1>19 DEF EnsureAgain, ghosts, Current, Levels
<1> QED
  BY <1>1, <1>2, <1>3, <1>4, <1>5, <1>6, <1>7, <1>8, <1>9, <1>10, <1>11,
     <1>12, <1>13, <1>14, <1>15, <1>16, <1>17, <1>18, <1>19 DEF Next, Step

\* An instance keeps the address it saves.
LEMMA AddressedStep ==
  ASSUME TypeOK, Addressed, [Next]_vars
  PROVE  Addressed'
<1> USE DEF TypeOK, Addressed, Saving, PCs
<1>1. ASSUME NEW p \in Processes, Launch(p) PROVE Addressed'
  BY <1>1 DEF Launch, Goto, ghosts
<1>2. ASSUME NEW p \in Processes, Acquire(p) PROVE Addressed'
  BY <1>2 DEF Acquire, Goto, ghosts
<1>3. ASSUME NEW p \in Processes, SyncLock(p) PROVE Addressed'
  BY <1>3 DEF SyncLock, Goto, NameSynced, ghosts
<1>4. ASSUME NEW p \in Processes, Read(p) PROVE Addressed'
  BY <1>4 DEF Read, Loaded, Goto, Unlock, ghosts
<1>5. ASSUME NEW p \in Processes, Save(p) PROVE Addressed'
  BY <1>5 DEF Save, Goto, ghosts
<1>6. ASSUME NEW p \in Processes, Inspect(p) PROVE Addressed'
  BY <1>6 DEF Inspect, SaveFails, Goto, Unlock, Oversize, ghosts
<1>7. ASSUME NEW p \in Processes, Discard(p) PROVE Addressed'
  BY <1>7 DEF Discard, Goto, ghosts
<1>8. ASSUME NEW p \in Processes, Write(p) PROVE Addressed'
  BY <1>8 DEF Write, Goto
<1>9. ASSUME NEW p \in Processes, WriteTorn(p) PROVE Addressed'
  BY <1>9 DEF WriteTorn, SaveFails, Goto, Unlock, ghosts
<1>10. ASSUME NEW p \in Processes, RefuseFull(p) PROVE Addressed'
  BY <1>10 DEF RefuseFull, SaveFails, Goto, Unlock, ghosts
<1>11. ASSUME NEW p \in Processes, Sync(p) PROVE Addressed'
  BY <1>11 DEF Sync, Goto, ContentsSynced, ghosts
<1>12. ASSUME NEW p \in Processes, SyncDirectory(p) PROVE Addressed'
  BY <1>12 DEF SyncDirectory, Goto, Unlock, NameSynced
<1>13. ASSUME NEW p \in Processes, Fail(p) PROVE Addressed'
  BY <1>13 DEF Fail, SaveFails, Loaded, Goto, Unlock, ghosts
<1>14. ASSUME NEW p \in Processes, Kill(p) PROVE Addressed'
  BY <1>14 DEF Kill, Goto, Unlock, ghosts
<1>17. ASSUME NEW p \in Processes, FindDirectory(p) PROVE Addressed'
  BY <1>17 DEF FindDirectory, Loaded, Goto, ghosts
<1>18. ASSUME NEW p \in Processes, EnsurePath(p) PROVE Addressed'
  <2>1. PICK next \in {"walk", "create", "syncEntry", "again"} : pc' = [pc EXCEPT ![p] = next]
    BY <1>18, EnsureMoves
  <2>2. UNCHANGED <<addr, relay, warned, lock, file, possible, acked, attempted, saves>>
    BY <1>18, EnsureMoves
  <2>3. pc[p] \in {"walk", "create", "syncEntry"} /\ (inherited => inherited')
    BY <1>18, EnsureMoves
  <2> QED
    BY <2>1, <2>2, <2>3
<1>19. ASSUME NEW p \in Processes, EnsureAgain(p) PROVE Addressed'
  BY <1>19 DEF EnsureAgain, Goto, ghosts
<1>15. CASE LosePower
  BY <1>15 DEF LosePower, ghosts
<1>16. CASE UNCHANGED vars
  BY <1>16 DEF vars
<1> QED
  BY <1>1, <1>2, <1>3, <1>4, <1>5, <1>6, <1>7, <1>8, <1>9, <1>10, <1>11,
     <1>12, <1>13, <1>14, <1>15, <1>16, <1>17, <1>18, <1>19 DEF Next, Step

\* No step leaves a journal, or a power failure, with another address.
LEMMA CommittedStep ==
  ASSUME TypeOK, Addressed, PathKept, CurrentKept, JournalsCommitted, Prepared, [Next]_vars
  PROVE  JournalsCommitted'
<1> USE DEF JournalsCommitted, directories
<1>1. ASSUME NEW p \in Processes, Launch(p) PROVE JournalsCommitted'
  BY <1>1 DEF Launch, ghosts, Committed, Current
<1>2. ASSUME NEW p \in Processes, Acquire(p) PROVE JournalsCommitted'
  BY <1>2 DEF Acquire, ghosts, Committed, Current
<1>3. ASSUME NEW p \in Processes, SyncLock(p) PROVE JournalsCommitted'
  BY <1>3 DEF SyncLock, NameSynced, ghosts, Committed, Current
<1>4. ASSUME NEW p \in Processes, Read(p) PROVE JournalsCommitted'
  BY <1>4 DEF Read, ghosts, Committed, Current
<1>5. ASSUME NEW p \in Processes, Save(p) PROVE JournalsCommitted'
  BY <1>5 DEF Save, ghosts, Committed, Current
<1>6. ASSUME NEW p \in Processes, Inspect(p) PROVE JournalsCommitted'
  BY <1>6, JournalsAre DEF Inspect, ghosts, Committed, Current
<1>7. ASSUME NEW p \in Processes, Discard(p) PROVE JournalsCommitted'
  <2>1. Committed(file) /\ file.present
    BY <1>7 DEF Discard, Prepared
  <2>2. file' = [file EXCEPT !.torn = FALSE] /\ possible' = possible \cup {file'}
        /\ Current' = Current /\ UNCHANGED inherited
    BY <1>7 DEF Discard, ghosts, Current
  <2>3. file' \in Journals /\ file'.latest = file.latest /\ file'.present
    <3>1. \E a : a \in Addresses
      BY <1>7 DEF Discard, Addressed, Saving
    <3> QED
      BY <2>1, <2>2, <3>1, JournalChanges DEF Committed
  <2> QED
    BY <2>1, <2>2, <2>3 DEF Committed
<1>8. ASSUME NEW p \in Processes, Write(p) PROVE JournalsCommitted'
  <2>1. Committed(file) /\ file.present /\ ~file.torn /\ addr[p] \in Addresses
    BY <1>8 DEF Write, Prepared, Addressed, Saving
  <2>2. file' = Appended(file, addr[p])
        /\ possible' = possible \cup {file', Torn(file), Garbled(file)}
        /\ Fits(file) /\ Current' = Current \cup {addr[p]} /\ UNCHANGED inherited
    BY <1>8 DEF Write, Current
  <2>3. \A f \in {file', Torn(file), Garbled(file)} :
          f \in Journals /\ f.present /\ f.latest \in {file.latest, addr[p]}
    <3>1. file \in Journals
      BY <2>1 DEF Committed
    <3>2. /\ Torn(file) \in Journals /\ Torn(file).latest = file.latest
          /\ Torn(file).present = file.present
          /\ Garbled(file) \in Journals /\ Garbled(file).latest = file.latest
          /\ Garbled(file).present = file.present
          /\ file' \in Journals /\ file'.present = file.present
          /\ file'.latest \in {file.latest, addr[p]}
      BY <2>1, <2>2, <3>1, JournalChanges
    <3> QED
      BY <2>1, <3>2
  <2>4. \A f \in {file', Torn(file), Garbled(file)} : Committed(f)'
    BY <2>1, <2>2, <2>3 DEF Committed
  <2>5. \A f \in possible : Committed(f)'
    BY <2>2 DEF Committed
  <2> QED
    BY <2>2, <2>4, <2>5
<1>9. ASSUME NEW p \in Processes, WriteTorn(p) PROVE JournalsCommitted'
  <2>1. Committed(file) /\ file.present /\ addr[p] \in Addresses
    BY <1>9 DEF WriteTorn, Prepared, Addressed, Saving
  <2>2. /\ file' = Torn(file) /\ possible' = possible \cup {file'} /\ Current' = Current
        /\ UNCHANGED inherited
    BY <1>9 DEF WriteTorn, ghosts, Current
  <2>3. file' \in Journals /\ file'.present /\ file'.latest = file.latest
    BY <2>1, <2>2, JournalChanges DEF Committed
  <2> QED
    BY <2>1, <2>2, <2>3 DEF Committed
<1>10. ASSUME NEW p \in Processes, RefuseFull(p) PROVE JournalsCommitted'
  BY <1>10 DEF RefuseFull, ghosts, Committed, Current
<1>11. ASSUME NEW p \in Processes, Sync(p) PROVE JournalsCommitted'
  BY <1>11 DEF Sync, ContentsSynced, ghosts, Committed, Current
<1>12. ASSUME NEW p \in Processes, SyncDirectory(p) PROVE JournalsCommitted'
  <2>1. file.present /\ file.latest = addr[p]
        /\ \A f \in possible : f = Missing \/ f.latest = addr[p]
    BY <1>12 DEF SyncDirectory, Prepared
  <2>2. possible' = possible \ {Missing} /\ file' = file /\ Current' = {addr[p]}
    BY <1>12, <2>1 DEF SyncDirectory, NameSynced, Current
  <2> QED
    BY <2>1, <2>2 DEF Committed
<1>13. ASSUME NEW p \in Processes, Fail(p) PROVE JournalsCommitted'
  BY <1>13 DEF Fail, ghosts, Committed, Current
<1>14. ASSUME NEW p \in Processes, Kill(p) PROVE JournalsCommitted'
  BY <1>14 DEF Kill, ghosts, Committed, Current
<1>17. ASSUME NEW p \in Processes, FindDirectory(p) PROVE JournalsCommitted'
  BY <1>17 DEF FindDirectory, ghosts, Committed, Current
<1>18. ASSUME NEW p \in Processes, EnsurePath(p) PROVE JournalsCommitted'
  <2>1. PICK next \in {"walk", "create", "syncEntry", "again"} : pc' = [pc EXCEPT ![p] = next]
    BY <1>18, EnsureMoves
  <2>2. UNCHANGED <<addr, relay, warned, lock, file, possible, acked, attempted, saves>>
    BY <1>18, EnsureMoves
  <2>3. pc[p] \in {"walk", "create", "syncEntry"} /\ (inherited => inherited')
    BY <1>18, EnsureMoves
  <2> QED
    BY <2>2, <2>3 DEF Committed, Current
<1>19. ASSUME NEW p \in Processes, EnsureAgain(p) PROVE JournalsCommitted'
  BY <1>19 DEF EnsureAgain, ghosts, Committed, Current
<1>15. CASE LosePower
  <2>1. possible' = {file'} /\ Current' = Current /\ inherited' = inherited
    BY <1>15 DEF LosePower, DirectoriesSurvive, ghosts, Current
  <2>2. CASE file' \in possible
    BY <2>1, <2>2 DEF Committed
  <2>3. CASE file' \notin possible
    <3>1. file' = Missing /\ present' # Depth
      BY <1>15, <2>3 DEF LosePower
    <3>2. ~(Levels \subseteq kept)
      BY <1>15, <3>1, DepthIsPositive
         DEF LosePower, DirectoriesSurvive, TypeOK, DirectoriesTyped, PathKept, Levels
    <3>3. ~inherited => Current = {Nothing}
      BY <3>2 DEF CurrentKept
    <3> QED
      BY <2>1, <3>1, <3>3, JournalsAre DEF Committed
  <2> QED
    BY <2>2, <2>3
<1>16. CASE UNCHANGED vars
  BY <1>16 DEF vars, Committed, Current
<1> QED
  BY <1>1, <1>2, <1>3, <1>4, <1>5, <1>6, <1>7, <1>8, <1>9, <1>10, <1>11,
     <1>12, <1>13, <1>14, <1>15, <1>16, <1>17, <1>18, <1>19 DEF Next, Step

\* What the instance knows of the journal is so until it unlocks it.
LEMMA PreparedStep ==
  ASSUME TypeOK, LockExclusive, Addressed, JournalsCommitted, Prepared, [Next]_vars
  PROVE  Prepared'
<1> USE DEF TypeOK, LockExclusive, Prepared, HoldingPCs, PCs, Loading, Saving
<1>1. ASSUME NEW p \in Processes, Launch(p) PROVE Prepared'
  BY <1>1 DEF Launch, Goto
<1>2. ASSUME NEW p \in Processes, Acquire(p) PROVE Prepared'
  BY <1>2 DEF Acquire, Goto
<1>3. ASSUME NEW p \in Processes, SyncLock(p) PROVE Prepared'
  BY <1>3 DEF SyncLock, Goto, NameSynced
<1>4. ASSUME NEW p \in Processes, Read(p) PROVE Prepared'
  BY <1>4 DEF Read, Loaded, Goto, Unlock
<1>5. ASSUME NEW p \in Processes, Save(p) PROVE Prepared'
  BY <1>5 DEF Save, Goto
<1>6. ASSUME NEW p \in Processes, Inspect(p) PROVE Prepared'
  BY <1>6, JournalsAre DEF Inspect, SaveFails, Goto, Unlock
<1>7. ASSUME NEW p \in Processes, Discard(p) PROVE Prepared'
  <2>1. file.present /\ file \in Journals /\ addr[p] \in Addresses
    BY <1>7 DEF Discard, JournalsCommitted, Committed, Addressed, Saving
  <2>2. file' = [file EXCEPT !.torn = FALSE]
    BY <1>7 DEF Discard
  <2>3. file'.present /\ ~file'.torn
    BY <2>1, <2>2, JournalChanges
  <2> QED
    BY <1>7, <2>3 DEF Discard, Goto
<1>8. ASSUME NEW p \in Processes, Write(p) PROVE Prepared'
  <2>1. file.present /\ ~file.torn /\ file \in Journals /\ addr[p] \in Addresses
    BY <1>8 DEF Write, JournalsCommitted, Committed, Addressed, Saving
  <2>2. file' = Appended(file, addr[p]) /\ Fits(file)
    BY <1>8 DEF Write, Addressed
  <2>3. file'.present /\ file'.latest = addr[p]
    BY <2>1, <2>2, JournalChanges
  <2> QED
    BY <1>8, <2>3 DEF Write, Goto
<1>9. ASSUME NEW p \in Processes, WriteTorn(p) PROVE Prepared'
  BY <1>9 DEF WriteTorn, SaveFails, Goto, Unlock
<1>10. ASSUME NEW p \in Processes, RefuseFull(p) PROVE Prepared'
  BY <1>10 DEF RefuseFull, SaveFails, Goto
<1>11. ASSUME NEW p \in Processes, Sync(p) PROVE Prepared'
  BY <1>11 DEF Sync, ContentsSynced, Goto
<1>12. ASSUME NEW p \in Processes, SyncDirectory(p) PROVE Prepared'
  BY <1>12 DEF SyncDirectory, NameSynced, Goto
<1>13. ASSUME NEW p \in Processes, Fail(p) PROVE Prepared'
  BY <1>13 DEF Fail, SaveFails, Loaded, Goto
<1>14. ASSUME NEW p \in Processes, Kill(p) PROVE Prepared'
  BY <1>14 DEF Kill, Goto
<1>17. ASSUME NEW p \in Processes, FindDirectory(p) PROVE Prepared'
  BY <1>17 DEF FindDirectory, Loaded, Goto
<1>18. ASSUME NEW p \in Processes, EnsurePath(p) PROVE Prepared'
  <2>1. PICK next \in {"walk", "create", "syncEntry", "again"} : pc' = [pc EXCEPT ![p] = next]
    BY <1>18, EnsureMoves
  <2>2. UNCHANGED <<addr, relay, warned, lock, file, possible, acked, attempted, saves>>
    BY <1>18, EnsureMoves
  <2>3. pc[p] \in {"walk", "create", "syncEntry"} /\ (inherited => inherited')
    BY <1>18, EnsureMoves
  <2> QED
    BY <2>1, <2>2, <2>3
<1>19. ASSUME NEW p \in Processes, EnsureAgain(p) PROVE Prepared'
  BY <1>19 DEF EnsureAgain, Goto
<1>15. CASE LosePower
  BY <1>15 DEF LosePower
<1>16. CASE UNCHANGED vars
  BY <1>16 DEF vars
<1> QED
  BY <1>1, <1>2, <1>3, <1>4, <1>5, <1>6, <1>7, <1>8, <1>9, <1>10, <1>11,
     <1>12, <1>13, <1>14, <1>15, <1>16, <1>17, <1>18, <1>19 DEF Next, Step

\* Every step keeps the shape of the state.
LEMMA SettingsTypeStep ==
  ASSUME TypeOK, Addressed, PathKept, JournalsCommitted', [Next]_vars
  PROVE  TypeOK'
<1>0. file' \in Journals /\ possible' \subseteq Journals
  BY DEF JournalsCommitted, Committed
<1> USE DEF TypeOK, DirectoriesTyped, directories, PCs, Loading, Saving
<1>1. ASSUME NEW p \in Processes, Launch(p) PROVE TypeOK'
  <2>1. warned' \in [Processes -> BOOLEAN] /\ relay' \in [Processes -> Addresses \cup {Default}]
    BY <1>1 DEF Launch
  <2>2. pc' \in [Processes -> PCs]
    BY <1>1 DEF Launch, Goto
  <2> QED
    BY <1>0, <1>1, <2>1, <2>2 DEF Launch, ghosts
<1>2. ASSUME NEW p \in Processes, Acquire(p) PROVE TypeOK'
  BY <1>0, <1>2 DEF Acquire, Goto, ghosts
<1>3. ASSUME NEW p \in Processes, SyncLock(p) PROVE TypeOK'
  BY <1>0, <1>3 DEF SyncLock, Goto, NameSynced, ghosts
<1>4. ASSUME NEW p \in Processes, Read(p) PROVE TypeOK'
  <2>1. Readable(file) => file.latest \in Addresses
    BY DEF Readable, Journals
  <2>2. relay' \in [Processes -> Addresses \cup {Default}] /\ warned' \in [Processes -> BOOLEAN]
    BY <1>0, <1>4, <2>1 DEF Read, Loaded
  <2> QED
    BY <1>0, <1>4, <2>2 DEF Read, Loaded, Goto, Unlock, ghosts
<1>5. ASSUME NEW p \in Processes, Save(p) PROVE TypeOK'
  BY <1>0, <1>5 DEF Save, Goto, ghosts
<1>6. ASSUME NEW p \in Processes, Inspect(p) PROVE TypeOK'
  BY <1>0, <1>6 DEF Inspect, SaveFails, Goto, Unlock, Oversize, ghosts
<1>7. ASSUME NEW p \in Processes, Discard(p) PROVE TypeOK'
  BY <1>0, <1>7 DEF Discard, Goto, ghosts
<1>8. ASSUME NEW p \in Processes, Write(p) PROVE TypeOK'
  <2>1. addr[p] \in Addresses
    BY <1>8 DEF Write, Addressed
  <2>2. pc' \in [Processes -> PCs]
    BY <1>8 DEF Write, Goto
  <2> QED
    BY <1>0, <1>8, <2>1, <2>2 DEF Write
<1>9. ASSUME NEW p \in Processes, WriteTorn(p) PROVE TypeOK'
  BY <1>0, <1>9 DEF WriteTorn, SaveFails, Goto, Unlock, ghosts
<1>10. ASSUME NEW p \in Processes, RefuseFull(p) PROVE TypeOK'
  BY <1>0, <1>10 DEF RefuseFull, SaveFails, Goto, Unlock, ghosts
<1>11. ASSUME NEW p \in Processes, Sync(p) PROVE TypeOK'
  BY <1>0, <1>11 DEF Sync, Goto, ContentsSynced, ghosts
<1>12. ASSUME NEW p \in Processes, SyncDirectory(p) PROVE TypeOK'
  <2>1. addr[p] \in Addresses
    BY <1>12 DEF SyncDirectory, Addressed
  <2>2. addr' \in [Processes -> Addresses \cup {Nothing}]
        /\ relay' \in [Processes -> Addresses \cup {Default}]
        /\ pc' \in [Processes -> PCs]
    BY <1>12, <2>1 DEF SyncDirectory, Goto
  <2> QED
    BY <1>0, <1>12, <2>1, <2>2 DEF SyncDirectory, Unlock
<1>13. ASSUME NEW p \in Processes, Fail(p) PROVE TypeOK'
  <2>1. /\ level' \in [Processes -> 0..Depth]
        /\ UNCHANGED <<present, kept, inherited, file, possible, acked, attempted, saves>>
    BY <1>13, DepthIsPositive DEF Fail, Forget, ghosts
  <2>2. CASE SaveFails(p)
    BY <1>0, <2>1, <2>2 DEF SaveFails, Goto, Unlock
  <2>3. CASE Loaded(p, Default, TRUE) /\ Unlock(p) /\ UNCHANGED addr
    <3>1. warned' \in [Processes -> BOOLEAN]
      BY <2>3 DEF Loaded
    <3> QED
      BY <1>0, <2>1, <2>3, <3>1 DEF Loaded, Goto, Unlock
  <2> QED
    BY <1>13, <2>2, <2>3 DEF Fail
<1>14. ASSUME NEW p \in Processes, Kill(p) PROVE TypeOK'
  BY <1>0, <1>14, DepthIsPositive DEF Kill, Forget, Goto, Unlock, ghosts
<1>17. ASSUME NEW p \in Processes, FindDirectory(p) PROVE TypeOK'
  BY <1>0, <1>17 DEF FindDirectory, Loaded, Goto, ghosts
<1>18. ASSUME NEW p \in Processes, EnsurePath(p) PROVE TypeOK'
  <2>1. PICK next \in {"walk", "create", "syncEntry", "again"} : pc' = [pc EXCEPT ![p] = next]
    BY <1>18, EnsureMoves
  <2>2. UNCHANGED <<addr, relay, warned, lock, file, possible, acked, attempted, saves>>
    BY <1>18, EnsureMoves
  <2>4. DirectoriesTyped'
    BY <1>18, EnsureTyped DEF EnsurePath
  <2> QED
    BY <1>0, <2>1, <2>2, <2>4
<1>19. ASSUME NEW p \in Processes, EnsureAgain(p) PROVE TypeOK'
  BY <1>0, <1>19, DepthIsPositive DEF EnsureAgain, Levels, Goto, ghosts
<1>15. CASE LosePower
  BY <1>0, <1>15, DepthIsPositive DEF LosePower, DirectoriesSurvive, Levels, ghosts
<1>16. CASE UNCHANGED vars
  BY <1>0, <1>16 DEF vars
<1> QED
  BY <1>0, <1>1, <1>2, <1>3, <1>4, <1>5, <1>6, <1>7, <1>8, <1>9, <1>10, <1>11,
     <1>12, <1>13, <1>14, <1>15, <1>16, <1>17, <1>18, <1>19 DEF Next, Step

\* The invariant holds at first: the journal is settled.
LEMMA SettingsInvInit == Init => SettingsInv
<1> SUFFICES ASSUME Init PROVE SettingsInv
  OBVIOUS
<1>1. file \in Journals /\ (~file.present => file = Missing)
  <2>1. 1 \in 0..MaxLines
    BY MaxLinesIsPositive
  <2>2. ASSUME NEW f \in [present : {TRUE}, latest : Addresses \cup {Nothing}, lines : {1},
                          torn : BOOLEAN]
        PROVE  f \in Journals /\ f.present
    BY <2>1, <2>2 DEF Journals
  <2>3. \/ file \in {Missing, Empty}
        \/ file \in [present : {TRUE}, latest : Addresses \cup {Nothing}, lines : {1},
                     torn : BOOLEAN]
    BY DEF Init
  <2> QED
    BY <2>2, <2>3, JournalsAre
<1>5. DirectoriesTyped /\ PathKept
  <2>1. present \in 0..Depth /\ kept = 1..present
    BY DEF Init, DirectoriesInit
  <2>2. kept \subseteq Levels
    BY <2>1, DepthIsPositive DEF Levels
  <2>3. level \in [Processes -> 0..Depth]
    <3>1. Depth \in 0..Depth
      BY DepthIsPositive
    <3> QED
      BY <3>1 DEF Init, DirectoriesInit
  <2>4. inherited \in BOOLEAN
    BY DEF Init, DirectoriesInit
  <2>5. PathKept
    BY <2>1 DEF Init, PathKept, EnsuredPCs
  <2> QED
    BY <2>1, <2>2, <2>3, <2>4, <2>5 DEF DirectoriesTyped
<1>6. CurrentKept
  <2>1. DirectoryExists => kept = Levels
    BY DEF Init, DirectoriesInit, DirectoryExists, Levels
  <2>2. ~DirectoryExists => Current = {Nothing}
    BY JournalsAre DEF Init, Current
  <2> QED
    BY <2>1, <2>2 DEF CurrentKept
<1>2. TypeOK
  <2>1. acked \in Addresses \cup {Nothing}
    BY <1>1 DEF Init, Journals
  <2> QED
    BY <1>1, <1>5, <2>1 DEF Init, TypeOK, PCs
<1>3. JournalsCommitted
  BY <1>1 DEF Init, JournalsCommitted, Committed, Current
<1>4. LockExclusive /\ Addressed /\ Prepared
  BY DEF Init, LockExclusive, HoldingPCs, Addressed, Saving, Prepared
<1> QED
  BY <1>2, <1>3, <1>4, <1>5, <1>6 DEF SettingsInv

\* Every step keeps the invariant.
LEMMA SettingsInvStep == SettingsInv /\ [Next]_vars => SettingsInv'
<1> SUFFICES ASSUME SettingsInv, [Next]_vars PROVE SettingsInv'
  OBVIOUS
<1>1. JournalsCommitted'
  BY CommittedStep DEF SettingsInv
<1> QED
  BY <1>1, LockStep, PathStep, CurrentKeptStep, AddressedStep, PreparedStep, SettingsTypeStep
     DEF SettingsInv

\* The invariant holds in every reachable state.
LEMMA SettingsInvHolds == Spec => []SettingsInv
  BY SettingsInvInit, SettingsInvStep, PTL DEF Spec

-----------------------------------------------------------------------------
(* The theorems *)

\* The journal, and all that a power failure may leave of it, keep their shape
\* and never outgrow the limit of their readers.
THEOREM SettingsTyped == Spec => []TypeOK
<1>1. SettingsInv => TypeOK
  BY DEF SettingsInv
<1> QED
  BY <1>1, SettingsInvHolds, PTL

\* A saved address survives every failure, of any number of instances that
\* save, load, fail and die as they like, for any limit of the journal and any
\* path of its directory -- unless a save took an unsynced directory for durable.
THEOREM SavedAddressSurvives == Spec => []SavedSurvives
<1>1. SettingsInv => SavedSurvives
  <2> SUFFICES ASSUME SettingsInv, ~inherited
               PROVE  /\ \A f \in possible \cup {file} : Setting(f) \in Current
                      /\ acked = Nothing \/ Levels \subseteq kept
    BY DEF SavedSurvives
  <2>1. ASSUME NEW f \in possible \cup {file}
        PROVE  Setting(f) \in Current
    <3>1. f \in Journals /\ f.latest \in Current
      BY DEF SettingsInv, JournalsCommitted, Committed
    <3>2. ~Oversize(f)
      BY <3>1, MaxLinesIsPositive DEF Oversize, Journals
    <3> QED
      BY <3>1, <3>2 DEF Setting, Readable
  <2>2. acked = Nothing \/ Levels \subseteq kept
    BY DEF SettingsInv, CurrentKept, Current
  <2> QED
    BY <2>1, <2>2
<1> QED
  BY <1>1, SettingsInvHolds, PTL

\* A start that warns of nothing uses the saved address, whatever happened
\* before it, with the same exception.
THEOREM LaunchRestores == Spec => RestoredAtLaunch
<1> DEFINE Restored ==
      \A p \in Processes :
         ~inherited /\ pc[p] \in Loading /\ pc'[p] = "on" /\ ~warned'[p]
           => \/ relay'[p] \in Current
              \/ relay'[p] = Default /\ acked = Nothing
<1>1. SettingsInv /\ [Next]_vars => [Restored]_vars
  <2> SUFFICES ASSUME SettingsInv, Next, NEW p \in Processes, ~inherited,
                      pc[p] \in Loading, pc'[p] = "on", ~warned'[p]
               PROVE  \/ relay'[p] \in Current
                      \/ relay'[p] = Default /\ acked = Nothing
    BY DEF vars
  <2> USE DEF SettingsInv, TypeOK
  <2>1. ASSUME NEW q \in Processes, q # p
        PROVE  ~(Step(q) \/ Fail(q) \/ Kill(q))
    BY <2>1, EnsureMoves DEF Step, Launch, FindDirectory, Acquire, SyncLock, Read, Save,
                EnsureAgain, Inspect, Discard, Write, WriteTorn, RefuseFull, Sync, SyncDirectory, Fail, Kill, Loaded, SaveFails,
                Goto, Loading
  <2>2. ~LosePower
    BY DEF LosePower
  <2>3. Step(p) \/ Fail(p) \/ Kill(p)
    BY <2>1, <2>2 DEF Next
  <2>4. Read(p) \/ FindDirectory(p)
    BY <2>3, EnsureMoves DEF Step, Launch, Acquire, SyncLock, Save, EnsureAgain, Inspect,
                Discard, Write, WriteTorn, RefuseFull, Sync, SyncDirectory, Fail, Kill, Loaded,
                SaveFails, Goto, Loading, Saving
  <2>5. Committed(file)
    BY DEF JournalsCommitted
  <2>6. CASE Read(p) /\ Readable(file)
    <3>1. relay'[p] = file.latest
      BY <2>6 DEF Read, Loaded
    <3> QED
      BY <2>5, <3>1 DEF Committed
  <2>7. CASE Read(p) /\ ~Readable(file)
    <3>1. relay'[p] = Default /\ ~file.present
      BY <2>7 DEF Read, Loaded
    <3>2. Nothing \in Current
      BY <2>5, <3>1, JournalsAre DEF Committed
    <3>3. acked = Nothing
      BY <3>2, NamesDiffer DEF Current
    <3> QED
      BY <3>1, <3>3
  <2>8. CASE FindDirectory(p)
    <3>1. relay'[p] = Default /\ ~DirectoryExists
      BY <2>8 DEF FindDirectory, Loaded, Goto, DirectoryExists
    <3>2. ~(Levels \subseteq kept)
      BY <3>1, DepthIsPositive DEF PathKept, DirectoriesTyped, DirectoryExists, Levels
    <3>3. acked = Nothing
      BY <3>2 DEF CurrentKept, Current
    <3> QED
      BY <3>1, <3>3
  <2> QED
    BY <2>4, <2>6, <2>7, <2>8
<1> QED
  BY <1>1, SettingsInvHolds, PTL DEF Spec, RestoredAtLaunch

===============================================================================
