---------------------------- MODULE IdentityProofs ----------------------------
(***************************************************************************)
(* Proofs about DeviceIdentity, for any number of launches, ids and        *)
(* failures.                                                               *)
(*                                                                         *)
(* The name device-id is written by two steps, Quarantine and Link.  Each  *)
(* does what it should only because of what its process saw some steps     *)
(* earlier, and the lock keeps that true; on a machine that loses power it *)
(* must have been durable, too.                                            *)
(***************************************************************************)
EXTENDS DeviceIdentity, TLAPS

LockedPCs == {"lockSync", "inspect", "quarantine", "quarantineSync", "generate", "write",
              "link", "linkSync", "cleanup", "winnerSync", "readWinner"}
LockExclusive == \A p \in Processes : pc[p] \in LockedPCs => lock = p

\* A launch whose walk has ended at a component relies on those above it, and
\* one past the walk on the whole path.
EnsuredPCs == LockedPCs \cup {"look", "barrier", "lock"}
PathKept ==
  /\ kept \subseteq 1..present
  /\ \A p \in Processes :
        /\ pc[p] \in {"create", "syncEntry"} => level[p] \in Levels
        /\ pc[p] = "syncEntry" => level[p] <= present
        /\ ~inherited => /\ pc[p] \in {"create", "syncEntry"} => 1..(level[p] - 1) \subseteq kept
                         /\ pc[p] \in EnsuredPCs => Levels \subseteq kept

\* Every id that is or may become the one on the disk has its data there.
DataSynced ==
  /\ entry \in possible
  /\ possible \cap Ids \subseteq synced
  /\ \A p \in Processes : /\ pc[p] = "write" => got[p] \in Ids
                          /\ pc[p] = "link" => got[p] \in synced

\* RustView alone publishes ids.
Alone == "publish" \notin faults

\* What a launch has seen is still so.
SeenIsTrue ==
  \A p \in Processes :
     /\ pc[p] = "quarantine" => entry = "partial"
     /\ pc[p] \in {"barrier", "linkSync", "cleanup"} => entry = got[p] /\ entry \in Ids
     /\ Alone => /\ pc[p] \notin {"winnerSync", "readWinner"}
                 /\ pc[p] \in {"generate", "write", "link"} => entry = "missing"
                 /\ pc[p] \in {"inspect", "cleanup"} => possible = {entry}

\* An id that was reported is the one on the disk, and stays so unless the path
\* to it is exposed.
ReportedStays ==
  ~Exposed => \A id \in returned : /\ entry = id
                                   /\ Alone => possible = {id}
                                   /\ Alone /\ ~inherited => Levels \subseteq kept

IdentityInv ==
  TypeOK /\ LockExclusive /\ PathKept /\ DataSynced /\ SeenIsTrue /\ ReportedStays

-----------------------------------------------------------------------------
(* Every step keeps the invariant *)

\* Nor does it leave the path.
LEMMA EnsureTyped ==
  ASSUME IdentityInv, NEW p \in Processes, EnsureDirectory(p, "look")
  PROVE  DirectoriesTyped'
<1>0. /\ DirectoriesTyped /\ level[p] \in 0..Depth /\ Depth \in Nat /\ present \in 0..Depth
      /\ pc[p] \in {"create", "syncEntry"} => level[p] \in Levels
  BY DepthIsPositive DEF IdentityInv, TypeOK, PathKept, DirectoriesTyped
<1>1. CASE Walk(p)
  <2>1. level' \in [Processes -> 0..Depth]
    <3>1. PICK n \in 0..Depth : level' = [level EXCEPT ![p] = n]
      <4>1. CASE level[p] > present /\ level' = [level EXCEPT ![p] = level[p] - 1]
        <5>1. level[p] - 1 \in 0..Depth
          BY <1>0, <4>1
        <5> QED
          BY <4>1, <5>1
      <4>2. CASE level[p] < Depth /\ level' = [level EXCEPT ![p] = level[p] + 1]
        <5>1. level[p] + 1 \in 0..Depth
          BY <1>0, <4>2
        <5> QED
          BY <4>2, <5>1
      <4>3. CASE level' = level
        BY <1>0, <4>3 DEF DirectoriesTyped
      <4> QED
        BY <1>1, <4>1, <4>2, <4>3 DEF Walk
    <3> QED
      BY <1>0, <3>1 DEF DirectoriesTyped
  <2>2. inherited' \in BOOLEAN
    BY <1>0, <1>1, Zenon DEF Walk, Inherits, DirectoriesTyped
  <2> QED
    BY <1>0, <1>1, <2>1, <2>2 DEF Walk, DirectoriesTyped
<1>2. CASE CreateDirectory(p)
  BY <1>0, <1>2 DEF CreateDirectory, DirectoriesTyped, Levels
<1>3. CASE SyncEntry(p, "look")
  <2>1. kept' \subseteq Levels /\ UNCHANGED <<present, inherited>>
    BY <1>0, <1>3 DEF SyncEntry, DirectoriesTyped
  <2>2. level' \in [Processes -> 0..Depth]
    BY <1>0, <1>3 DEF SyncEntry, DirectoriesTyped
  <2> QED
    BY <1>0, <2>1, <2>2 DEF DirectoriesTyped
<1> QED
  BY <1>1, <1>2, <1>3 DEF EnsureDirectory

\* A walk goes on from a component only if those above it were synced, or it is
\* noted.
LEMMA WalkKeepsPath ==
  ASSUME IdentityInv, NEW p \in Processes, Walk(p)
  PROVE  PathKept'
<1>0. /\ level \in [Processes -> 0..Depth] /\ present \in 0..Depth /\ Depth \in Nat \ {0}
      /\ pc \in [Processes -> PCs] /\ pc[p] = "walk" /\ PathKept
      /\ UNCHANGED <<present, kept>>
  BY DepthIsPositive DEF IdentityInv, TypeOK, DirectoriesTyped, Walk
<1>1. CASE UNCHANGED <<pc, inherited>> /\ level' = [level EXCEPT ![p] = level[p] - 1]
  BY <1>0, <1>1 DEF PathKept
<1>2. ASSUME NEW l \in Levels, NEW next \in {"create", "syncEntry"},
             level'[p] = l, \A q \in Processes \ {p} : level'[q] = level[q],
             pc' = [pc EXCEPT ![p] = next], next = "syncEntry" => l <= present,
             Inherits(l)
      PROVE  PathKept'
  <2>1. ~inherited' => ~inherited /\ 1..(l - 1) \subseteq kept
    BY <1>2 DEF Inherits
  <2>2. /\ pc'[p] = next
        /\ \A q \in Processes \ {p} : pc'[q] = pc[q]
    BY <1>0, <1>2
  <2>3. next \notin EnsuredPCs
    BY DEF EnsuredPCs, LockedPCs
  <2>4. ASSUME NEW q \in Processes
        PROVE  /\ pc'[q] \in {"create", "syncEntry"} => level'[q] \in Levels
               /\ pc'[q] = "syncEntry" => level'[q] <= present'
               /\ ~inherited' =>
                    /\ pc'[q] \in {"create", "syncEntry"} => 1..(level'[q] - 1) \subseteq kept'
                    /\ pc'[q] \in EnsuredPCs => Levels \subseteq kept'
    <3>1. CASE q = p
      BY <1>0, <1>2, <2>1, <2>2, <2>3, <3>1
    <3>2. CASE q # p
      BY <1>0, <1>2, <2>1, <2>2, <3>2 DEF PathKept
    <3> QED
      BY <3>1, <3>2
  <2> QED
    BY <1>0, <2>4 DEF PathKept, Levels
<1>3. CASE level[p] < Depth /\ level' = [level EXCEPT ![p] = level[p] + 1]
           /\ Goto(p, "create") /\ Inherits(level[p] + 1)
  <2>1. level[p] + 1 \in Levels
    BY <1>0, <1>3 DEF Levels
  <2>2. level'[p] = level[p] + 1 /\ \A q \in Processes \ {p} : level'[q] = level[q]
    BY <1>0, <1>3
  <2> QED
    BY <1>2, <1>3, <2>1, <2>2 DEF Goto
<1>4. CASE level[p] <= present /\ level[p] = Depth /\ UNCHANGED level
           /\ Goto(p, "syncEntry") /\ Inherits(Depth)
  <2>1. Depth \in Levels
    BY <1>0 DEF Levels
  <2> QED
    BY <1>2, <1>4, <2>1 DEF Goto
<1> QED
  BY <1>1, <1>3, <1>4 DEF Walk

\* A step on the way to the directory leaves all but the path alone.
LEMMA EnsureMoves ==
  ASSUME TypeOK, NEW p \in Processes, EnsureTree(p)
  PROVE  /\ pc[p] \in {"walk", "create", "syncEntry"}
         /\ \E next \in {"walk", "create", "syncEntry", "look"} : pc' = [pc EXCEPT ![p] = next]
         /\ UNCHANGED <<faults, got, lock, entry, possible, synced, used, returned>>
  BY DEF EnsureTree, EnsureDirectory, Walk, CreateDirectory, SyncEntry, Goto, TypeOK

\* The shape of the state.
LEMMA IdentityTypeStep ==
  ASSUME IdentityInv, [Next]_vars
  PROVE  TypeOK'
<1> USE DEF IdentityInv, TypeOK, DirectoriesTyped, PCs, Contents, NoId, directories
<1>0. CASE UNCHANGED vars
  BY <1>0 DEF vars, disk
<1>1. ASSUME NEW p \in Processes, Start(p) PROVE TypeOK'
  BY <1>1 DEF Start, Goto, disk
<1>2. ASSUME NEW p \in Processes, EnsureTree(p) PROVE TypeOK'
  <2>1. PICK next \in {"walk", "create", "syncEntry", "look"} : pc' = [pc EXCEPT ![p] = next]
    BY <1>2, EnsureMoves
  <2>2. UNCHANGED <<faults, got, lock, entry, possible, synced, used, returned>>
    BY <1>2, EnsureMoves
  <2>3. DirectoriesTyped'
    BY <1>2, EnsureTyped DEF EnsureTree
  <2> QED
    BY <2>1, <2>2, <2>3
<1>4. ASSUME NEW p \in Processes, Look(p) PROVE TypeOK'
  BY <1>4 DEF Look, Goto, disk
<1>5. ASSUME NEW p \in Processes, Barrier(p) PROVE TypeOK'
  BY <1>5 DEF SeenIsTrue, Barrier, Goto, Returns, Ends, Synced, disk
<1>6. ASSUME NEW p \in Processes, Acquire(p) PROVE TypeOK'
  BY <1>6 DEF Acquire, Goto, disk
<1>7. ASSUME NEW p \in Processes, SyncLock(p) PROVE TypeOK'
  BY <1>7 DEF SyncLock, Goto, Synced, disk
<1>8. ASSUME NEW p \in Processes, Inspect(p) PROVE TypeOK'
  BY <1>8 DEF Inspect, Goto, Returns, Ends, disk
<1>9. ASSUME NEW p \in Processes, Quarantine(p) PROVE TypeOK'
  BY <1>9 DEF Quarantine, Goto, disk
<1>10. ASSUME NEW p \in Processes, SyncQuarantine(p) PROVE TypeOK'
  BY <1>10 DEF SyncQuarantine, Goto, Synced, disk
<1>11. ASSUME NEW p \in Processes, Generate(p) PROVE TypeOK'
  BY <1>11 DEF Generate, Goto, disk
<1>12. ASSUME NEW p \in Processes, SyncTemporary(p) PROVE TypeOK'
  BY <1>12 DEF DataSynced, SyncTemporary, Goto, disk
<1>13. ASSUME NEW p \in Processes, Link(p) PROVE TypeOK'
  BY <1>13 DEF Link, Goto, disk
<1>14. ASSUME NEW p \in Processes, SyncLink(p) PROVE TypeOK'
  BY <1>14 DEF SyncLink, Goto, Synced, disk
<1>15. ASSUME NEW p \in Processes, Cleanup(p) PROVE TypeOK'
  BY <1>15 DEF SeenIsTrue, Cleanup, Goto, Returns, Ends, Synced, disk
<1>16. ASSUME NEW p \in Processes, SyncWinner(p) PROVE TypeOK'
  BY <1>16 DEF SyncWinner, Goto, Synced, disk
<1>17. ASSUME NEW p \in Processes, ReadWinner(p) PROVE TypeOK'
  BY <1>17 DEF ReadWinner, Goto, Returns, Ends, disk
<1>18. ASSUME NEW p \in Processes, Fail(p) PROVE TypeOK'
  BY <1>18, DepthIsPositive DEF Fail, Goto, Ends, Forget
<1>19. ASSUME LosePower PROVE TypeOK'
  BY <1>19, DepthIsPositive DEF LosePower, Recovered, DirectoriesSurvive, Levels
<1>20. ASSUME Publish PROVE TypeOK'
  BY <1>20 DEF Publish
<1> QED
  BY <1>0, <1>1, <1>2, <1>4, <1>5, <1>6, <1>7, <1>8, <1>9, <1>10, <1>11, <1>12, <1>13,
     <1>14, <1>15, <1>16, <1>17, <1>18, <1>19, <1>20 DEF Next, Step

\* The lock is held from Acquire to Ends.
LEMMA LockStep ==
  ASSUME IdentityInv, [Next]_vars
  PROVE  LockExclusive'
<1> USE DEF IdentityInv, LockExclusive, TypeOK, LockedPCs
<1>0. CASE UNCHANGED vars
  BY <1>0 DEF vars, disk
<1>1. ASSUME NEW p \in Processes, Start(p) PROVE LockExclusive'
  BY <1>1 DEF Start, Goto, disk
<1>2. ASSUME NEW p \in Processes, EnsureTree(p) PROVE LockExclusive'
  <2>1. PICK next \in {"walk", "create", "syncEntry", "look"} : pc' = [pc EXCEPT ![p] = next]
    BY <1>2, EnsureMoves
  <2>2. UNCHANGED <<faults, got, lock, entry, possible, synced, used, returned>>
    BY <1>2, EnsureMoves
  <2> QED
    BY <2>1, <2>2
<1>4. ASSUME NEW p \in Processes, Look(p) PROVE LockExclusive'
  BY <1>4 DEF Look, Goto, disk
<1>5. ASSUME NEW p \in Processes, Barrier(p) PROVE LockExclusive'
  BY <1>5 DEF Barrier, Goto, Returns, Ends, Synced, disk
<1>6. ASSUME NEW p \in Processes, Acquire(p) PROVE LockExclusive'
  BY <1>6, NoProcessIsNone DEF Acquire, Goto, disk
<1>7. ASSUME NEW p \in Processes, SyncLock(p) PROVE LockExclusive'
  BY <1>7 DEF SyncLock, Goto, Synced, disk
<1>8. ASSUME NEW p \in Processes, Inspect(p) PROVE LockExclusive'
  BY <1>8 DEF Inspect, Goto, Returns, Ends, disk
<1>9. ASSUME NEW p \in Processes, Quarantine(p) PROVE LockExclusive'
  BY <1>9 DEF Quarantine, Goto, disk
<1>10. ASSUME NEW p \in Processes, SyncQuarantine(p) PROVE LockExclusive'
  BY <1>10 DEF SyncQuarantine, Goto, Synced, disk
<1>11. ASSUME NEW p \in Processes, Generate(p) PROVE LockExclusive'
  BY <1>11 DEF Generate, Goto, disk
<1>12. ASSUME NEW p \in Processes, SyncTemporary(p) PROVE LockExclusive'
  BY <1>12 DEF SyncTemporary, Goto, disk
<1>13. ASSUME NEW p \in Processes, Link(p) PROVE LockExclusive'
  BY <1>13 DEF Link, Goto, disk
<1>14. ASSUME NEW p \in Processes, SyncLink(p) PROVE LockExclusive'
  BY <1>14 DEF SyncLink, Goto, Synced, disk
<1>15. ASSUME NEW p \in Processes, Cleanup(p) PROVE LockExclusive'
  BY <1>15 DEF Cleanup, Goto, Returns, Ends, Synced, disk
<1>16. ASSUME NEW p \in Processes, SyncWinner(p) PROVE LockExclusive'
  BY <1>16 DEF SyncWinner, Goto, Synced, disk
<1>17. ASSUME NEW p \in Processes, ReadWinner(p) PROVE LockExclusive'
  BY <1>17 DEF ReadWinner, Goto, Returns, Ends, disk
<1>18. ASSUME NEW p \in Processes, Fail(p) PROVE LockExclusive'
  BY <1>18 DEF Fail, Goto, Ends
<1>19. ASSUME LosePower PROVE LockExclusive'
  BY <1>19 DEF LosePower, Recovered
<1>20. ASSUME Publish PROVE LockExclusive'
  BY <1>20 DEF Publish
<1> QED
  BY <1>0, <1>1, <1>2, <1>4, <1>5, <1>6, <1>7, <1>8, <1>9, <1>10, <1>11, <1>12, <1>13,
     <1>14, <1>15, <1>16, <1>17, <1>18, <1>19, <1>20 DEF Next, Step

\* Every component of the path is synced before the entry is looked at, but for
\* those a walk took for durable.
LEMMA PathStep ==
  ASSUME IdentityInv, [Next]_vars
  PROVE  PathKept'
<1> USE DEF IdentityInv, PathKept, TypeOK, DirectoriesTyped, LockedPCs, EnsuredPCs, directories
<1>0. CASE UNCHANGED vars
  BY <1>0 DEF vars, disk
<1>1. ASSUME NEW p \in Processes, Start(p) PROVE PathKept'
  BY <1>1 DEF Start, Goto, disk
<1>2. ASSUME NEW p \in Processes, EnsureTree(p) PROVE PathKept'
  <2>1. CASE Walk(p)
    BY <2>1, WalkKeepsPath
  <2>2. CASE CreateDirectory(p)
    BY <2>2, DepthIsPositive DEF CreateDirectory, Goto, Levels
  <2>3. CASE SyncEntry(p, "look") /\ level[p] = Depth
    BY <2>3, DepthIsPositive DEF SyncEntry, Goto, Levels
  <2>4. CASE SyncEntry(p, "look") /\ level[p] < Depth
    <3>1. /\ level' = [level EXCEPT ![p] = level[p] + 1] /\ pc' = [pc EXCEPT ![p] = "create"]
          /\ kept' = kept \cup {level[p]} /\ UNCHANGED <<present, inherited>>
          /\ pc[p] = "syncEntry"
      BY <2>4 DEF SyncEntry, Goto
    <3>2. level[p] \in Levels /\ level[p] + 1 \in Levels /\ level[p] <= present
      BY <2>4, <3>1, DepthIsPositive DEF Levels
    <3>3. kept' \subseteq 1..present'
      <4>1. kept \subseteq 1..present /\ level[p] \in 1..present
        BY <3>1, <3>2, DepthIsPositive DEF Levels
      <4> QED
        BY <3>1, <4>1
    <3>4. ~inherited => 1..level[p] \subseteq kept'
      <4>1. ~inherited => 1..(level[p] - 1) \subseteq kept
        BY <3>1
      <4> QED
        BY <3>1, <3>2, <4>1 DEF Levels
    <3>5. ASSUME NEW q \in Processes
          PROVE  /\ pc'[q] \in {"create", "syncEntry"} => level'[q] \in Levels
                 /\ pc'[q] = "syncEntry" => level'[q] <= present'
                 /\ ~inherited' =>
                      /\ pc'[q] \in {"create", "syncEntry"}
                           => 1..(level'[q] - 1) \subseteq kept'
                      /\ pc'[q] \in EnsuredPCs => Levels \subseteq kept'
      <4>1. CASE q = p
        <5>1. pc'[q] = "create" /\ level'[q] = level[p] + 1
          BY <3>1, <4>1
        <5>2. level'[q] - 1 = level[p]
          BY <3>2, <5>1 DEF Levels
        <5> QED
          BY <3>1, <3>2, <3>4, <5>1, <5>2
      <4>2. CASE q # p
        <5>1. pc'[q] = pc[q] /\ level'[q] = level[q]
          BY <3>1, <4>2
        <5> QED
          BY <3>1, <5>1
      <4> QED
        BY <4>1, <4>2
    <3> QED
      BY <3>3, <3>5
  <2>5. level[p] \in 0..Depth /\ Depth \in Nat
    BY DepthIsPositive
  <2>6. SyncEntry(p, "look") => level[p] = Depth \/ level[p] < Depth
    BY <2>5 DEF SyncEntry
  <2> QED
    BY <1>2, <2>1, <2>2, <2>3, <2>4, <2>6 DEF EnsureTree, EnsureDirectory
<1>4. ASSUME NEW p \in Processes, Look(p) PROVE PathKept'
  BY <1>4 DEF Look, Goto, disk
<1>5. ASSUME NEW p \in Processes, Barrier(p) PROVE PathKept'
  BY <1>5 DEF Barrier, Goto, Returns, Ends, Synced, disk
<1>6. ASSUME NEW p \in Processes, Acquire(p) PROVE PathKept'
  BY <1>6 DEF Acquire, Goto, disk
<1>7. ASSUME NEW p \in Processes, SyncLock(p) PROVE PathKept'
  BY <1>7 DEF SyncLock, Goto, Synced, disk
<1>8. ASSUME NEW p \in Processes, Inspect(p) PROVE PathKept'
  BY <1>8 DEF Inspect, Goto, Returns, Ends, disk
<1>9. ASSUME NEW p \in Processes, Quarantine(p) PROVE PathKept'
  BY <1>9 DEF Quarantine, Goto, disk
<1>10. ASSUME NEW p \in Processes, SyncQuarantine(p) PROVE PathKept'
  BY <1>10 DEF SyncQuarantine, Goto, Synced, disk
<1>11. ASSUME NEW p \in Processes, Generate(p) PROVE PathKept'
  BY <1>11 DEF Generate, Goto, disk
<1>12. ASSUME NEW p \in Processes, SyncTemporary(p) PROVE PathKept'
  BY <1>12 DEF SyncTemporary, Goto, disk
<1>13. ASSUME NEW p \in Processes, Link(p) PROVE PathKept'
  BY <1>13 DEF Link, Goto, disk
<1>14. ASSUME NEW p \in Processes, SyncLink(p) PROVE PathKept'
  BY <1>14 DEF SyncLink, Goto, Synced, disk
<1>15. ASSUME NEW p \in Processes, Cleanup(p) PROVE PathKept'
  BY <1>15 DEF Cleanup, Goto, Returns, Ends, Synced, disk
<1>16. ASSUME NEW p \in Processes, SyncWinner(p) PROVE PathKept'
  BY <1>16 DEF SyncWinner, Goto, Synced, disk
<1>17. ASSUME NEW p \in Processes, ReadWinner(p) PROVE PathKept'
  BY <1>17 DEF ReadWinner, Goto, Returns, Ends, disk
<1>18. ASSUME NEW p \in Processes, Fail(p) PROVE PathKept'
  BY <1>18 DEF Fail, Goto, Ends, Forget
<1>19. ASSUME LosePower PROVE PathKept'
  BY <1>19, DepthIsPositive DEF LosePower, DirectoriesSurvive
<1>20. ASSUME Publish PROVE PathKept'
  BY <1>20 DEF Publish
<1> QED
  BY <1>0, <1>1, <1>2, <1>4, <1>5, <1>6, <1>7, <1>8, <1>9, <1>10, <1>11, <1>12, <1>13,
     <1>14, <1>15, <1>16, <1>17, <1>18, <1>19, <1>20 DEF Next, Step

\* A file gets its name after its data was synced.
LEMMA DataStep ==
  ASSUME IdentityInv, [Next]_vars
  PROVE  DataSynced'
<1> USE DEF IdentityInv, DataSynced, TypeOK, NoId, Contents
<1>0. CASE UNCHANGED vars
  BY <1>0 DEF vars, disk
<1>1. ASSUME NEW p \in Processes, Start(p) PROVE DataSynced'
  BY <1>1 DEF Start, Goto, disk
<1>2. ASSUME NEW p \in Processes, EnsureTree(p) PROVE DataSynced'
  <2>1. PICK next \in {"walk", "create", "syncEntry", "look"} : pc' = [pc EXCEPT ![p] = next]
    BY <1>2, EnsureMoves
  <2>2. UNCHANGED <<faults, got, lock, entry, possible, synced, used, returned>>
    BY <1>2, EnsureMoves
  <2> QED
    BY <2>1, <2>2
<1>4. ASSUME NEW p \in Processes, Look(p) PROVE DataSynced'
  BY <1>4 DEF Look, Goto, disk
<1>5. ASSUME NEW p \in Processes, Barrier(p) PROVE DataSynced'
  BY <1>5 DEF Barrier, Goto, Returns, Ends, Synced, disk
<1>6. ASSUME NEW p \in Processes, Acquire(p) PROVE DataSynced'
  BY <1>6 DEF Acquire, Goto, disk
<1>7. ASSUME NEW p \in Processes, SyncLock(p) PROVE DataSynced'
  BY <1>7 DEF SyncLock, Goto, Synced, disk
<1>8. ASSUME NEW p \in Processes, Inspect(p) PROVE DataSynced'
  BY <1>8 DEF Inspect, Goto, Returns, Ends, disk
<1>9. ASSUME NEW p \in Processes, Quarantine(p) PROVE DataSynced'
  BY <1>9, MarksAreNoIds DEF Quarantine, Goto, disk
<1>10. ASSUME NEW p \in Processes, SyncQuarantine(p) PROVE DataSynced'
  BY <1>10 DEF SyncQuarantine, Goto, Synced, disk
<1>11. ASSUME NEW p \in Processes, Generate(p) PROVE DataSynced'
  BY <1>11 DEF Generate, Goto, disk
<1>12. ASSUME NEW p \in Processes, SyncTemporary(p) PROVE DataSynced'
  BY <1>12 DEF SyncTemporary, Goto, disk
<1>13. ASSUME NEW p \in Processes, Link(p) PROVE DataSynced'
  BY <1>13 DEF Link, Goto, disk
<1>14. ASSUME NEW p \in Processes, SyncLink(p) PROVE DataSynced'
  BY <1>14 DEF SyncLink, Goto, Synced, disk
<1>15. ASSUME NEW p \in Processes, Cleanup(p) PROVE DataSynced'
  BY <1>15 DEF Cleanup, Goto, Returns, Ends, Synced, disk
<1>16. ASSUME NEW p \in Processes, SyncWinner(p) PROVE DataSynced'
  BY <1>16 DEF SyncWinner, Goto, Synced, disk
<1>17. ASSUME NEW p \in Processes, ReadWinner(p) PROVE DataSynced'
  BY <1>17 DEF ReadWinner, Goto, Returns, Ends, disk
<1>18. ASSUME NEW p \in Processes, Fail(p) PROVE DataSynced'
  BY <1>18 DEF Fail, Goto, Ends
<1>19. ASSUME LosePower PROVE DataSynced'
  BY <1>19, MarksAreNoIds DEF LosePower, Recovered
<1>20. ASSUME Publish PROVE DataSynced'
  BY <1>20 DEF Publish
<1> QED
  BY <1>0, <1>1, <1>2, <1>4, <1>5, <1>6, <1>7, <1>8, <1>9, <1>10, <1>11, <1>12, <1>13,
     <1>14, <1>15, <1>16, <1>17, <1>18, <1>19, <1>20 DEF Next, Step

\* What a launch has seen is changed by nobody else.
LEMMA SeenStep ==
  ASSUME IdentityInv, [Next]_vars
  PROVE  SeenIsTrue'
<1> USE DEF IdentityInv, SeenIsTrue, LockExclusive, LockedPCs, TypeOK, Alone, NoId, Contents
<1>0. CASE UNCHANGED vars
  BY <1>0 DEF vars, disk
<1>1. ASSUME NEW p \in Processes, Start(p) PROVE SeenIsTrue'
  BY <1>1 DEF Start, Goto, disk
<1>2. ASSUME NEW p \in Processes, EnsureTree(p) PROVE SeenIsTrue'
  <2>1. PICK next \in {"walk", "create", "syncEntry", "look"} : pc' = [pc EXCEPT ![p] = next]
    BY <1>2, EnsureMoves
  <2>2. UNCHANGED <<faults, got, lock, entry, possible, synced, used, returned>>
    BY <1>2, EnsureMoves
  <2> QED
    BY <2>1, <2>2
<1>4. ASSUME NEW p \in Processes, Look(p) PROVE SeenIsTrue'
  BY <1>4 DEF Look, Goto, disk
<1>5. ASSUME NEW p \in Processes, Barrier(p) PROVE SeenIsTrue'
  BY <1>5 DEF Barrier, Goto, Returns, Ends, Synced, disk
<1>6. ASSUME NEW p \in Processes, Acquire(p) PROVE SeenIsTrue'
  BY <1>6 DEF Acquire, Goto, disk
<1>7. ASSUME NEW p \in Processes, SyncLock(p) PROVE SeenIsTrue'
  BY <1>7 DEF SyncLock, Goto, Synced, disk
<1>8. ASSUME NEW p \in Processes, Inspect(p) PROVE SeenIsTrue'
  BY <1>8 DEF Inspect, Goto, Returns, Ends, disk
<1>9. ASSUME NEW p \in Processes, Quarantine(p) PROVE SeenIsTrue'
  BY <1>9, MarksAreNoIds DEF Quarantine, Goto, disk
<1>10. ASSUME NEW p \in Processes, SyncQuarantine(p) PROVE SeenIsTrue'
  BY <1>10 DEF SyncQuarantine, Goto, Synced, disk
<1>11. ASSUME NEW p \in Processes, Generate(p) PROVE SeenIsTrue'
  BY <1>11 DEF Generate, Goto, disk
<1>12. ASSUME NEW p \in Processes, SyncTemporary(p) PROVE SeenIsTrue'
  BY <1>12 DEF SyncTemporary, Goto, disk
<1>13. ASSUME NEW p \in Processes, Link(p) PROVE SeenIsTrue'
  <2> SUFFICES ASSUME NEW q \in Processes
               PROVE  /\ pc'[q] = "quarantine" => entry' = "partial"
                      /\ pc'[q] \in {"barrier", "linkSync", "cleanup"}
                           => entry' = got'[q] /\ entry' \in Ids
                      /\ Alone' => /\ pc'[q] \notin {"winnerSync", "readWinner"}
                                   /\ pc'[q] \in {"generate", "write", "link"}
                                        => entry' = "missing"
                                   /\ pc'[q] \in {"inspect", "cleanup"}
                                        => possible' = {entry'}
    OBVIOUS
  <2>1. CASE q = p
    BY <1>13, <2>1, MarksAreNoIds DEF Link, Goto, DataSynced
  <2>2. CASE q # p /\ entry = "missing"
    BY <1>13, <2>2, MarksAreNoIds DEF Link, Goto
  <2>3. CASE q # p /\ entry # "missing"
    BY <1>13, <2>3 DEF Link, Goto
  <2> QED
    BY <2>1, <2>2, <2>3
<1>14. ASSUME NEW p \in Processes, SyncLink(p) PROVE SeenIsTrue'
  BY <1>14 DEF SyncLink, Goto, Synced, disk
<1>15. ASSUME NEW p \in Processes, Cleanup(p) PROVE SeenIsTrue'
  BY <1>15 DEF Cleanup, Goto, Returns, Ends, Synced, disk
<1>16. ASSUME NEW p \in Processes, SyncWinner(p) PROVE SeenIsTrue'
  BY <1>16 DEF SyncWinner, Goto, Synced, disk
<1>17. ASSUME NEW p \in Processes, ReadWinner(p) PROVE SeenIsTrue'
  BY <1>17 DEF ReadWinner, Goto, Returns, Ends, disk
<1>18. ASSUME NEW p \in Processes, Fail(p) PROVE SeenIsTrue'
  BY <1>18 DEF Fail, Goto, Ends
<1>19. ASSUME LosePower PROVE SeenIsTrue'
  BY <1>19 DEF LosePower, Recovered
<1>20. ASSUME Publish PROVE SeenIsTrue'
  BY <1>20, MarksAreNoIds DEF Publish
<1> QED
  BY <1>0, <1>1, <1>2, <1>4, <1>5, <1>6, <1>7, <1>8, <1>9, <1>10, <1>11, <1>12, <1>13,
     <1>14, <1>15, <1>16, <1>17, <1>18, <1>19, <1>20 DEF Next, Step

\* The entry of a reported id is not written again.
LEMMA ReportedStep ==
  ASSUME IdentityInv, [Next]_vars
  PROVE  ReportedStays'
<1> USE DEF IdentityInv, ReportedStays, SeenIsTrue, DataSynced, PathKept, LockedPCs, TypeOK,
            DirectoriesTyped, EnsuredPCs, Exposed, Alone, NoId, Contents, directories
<1>0. CASE UNCHANGED vars
  BY <1>0 DEF vars, disk
<1>1. ASSUME NEW p \in Processes, Start(p) PROVE ReportedStays'
  BY <1>1 DEF Start, Goto, disk
<1>2. ASSUME NEW p \in Processes, EnsureTree(p) PROVE ReportedStays'
  <2>1. UNCHANGED <<faults, entry, possible, returned>>
    BY <1>2, EnsureMoves
  <2>2. kept \subseteq kept' /\ (inherited => inherited')
    BY <1>2 DEF EnsureTree, EnsureDirectory, Walk, CreateDirectory, SyncEntry, Inherits
  <2> QED
    BY <2>1, <2>2
<1>4. ASSUME NEW p \in Processes, Look(p) PROVE ReportedStays'
  BY <1>4 DEF Look, Goto, disk
<1>5. ASSUME NEW p \in Processes, Barrier(p) PROVE ReportedStays'
  BY <1>5 DEF Barrier, Goto, Returns, Ends, Synced, disk
<1>6. ASSUME NEW p \in Processes, Acquire(p) PROVE ReportedStays'
  BY <1>6 DEF Acquire, Goto, disk
<1>7. ASSUME NEW p \in Processes, SyncLock(p) PROVE ReportedStays'
  BY <1>7 DEF SyncLock, Goto, Synced, disk
<1>8. ASSUME NEW p \in Processes, Inspect(p) PROVE ReportedStays'
  BY <1>8 DEF Inspect, Goto, Returns, Ends, disk
<1>9. ASSUME NEW p \in Processes, Quarantine(p) PROVE ReportedStays'
  BY <1>9, MarksAreNoIds DEF Quarantine, Goto, disk
<1>10. ASSUME NEW p \in Processes, SyncQuarantine(p) PROVE ReportedStays'
  BY <1>10 DEF SyncQuarantine, Goto, Synced, disk
<1>11. ASSUME NEW p \in Processes, Generate(p) PROVE ReportedStays'
  BY <1>11 DEF Generate, Goto, disk
<1>12. ASSUME NEW p \in Processes, SyncTemporary(p) PROVE ReportedStays'
  BY <1>12 DEF SyncTemporary, Goto, disk
<1>13. ASSUME NEW p \in Processes, Link(p) PROVE ReportedStays'
  BY <1>13, MarksAreNoIds DEF Link, Goto, disk
<1>14. ASSUME NEW p \in Processes, SyncLink(p) PROVE ReportedStays'
  BY <1>14 DEF SyncLink, Goto, Synced, disk
<1>15. ASSUME NEW p \in Processes, Cleanup(p) PROVE ReportedStays'
  BY <1>15 DEF Cleanup, Goto, Returns, Ends, Synced, disk
<1>16. ASSUME NEW p \in Processes, SyncWinner(p) PROVE ReportedStays'
  BY <1>16 DEF SyncWinner, Goto, Synced, disk
<1>17. ASSUME NEW p \in Processes, ReadWinner(p) PROVE ReportedStays'
  BY <1>17 DEF ReadWinner, Goto, Returns, Ends, disk
<1>18. ASSUME NEW p \in Processes, Fail(p) PROVE ReportedStays'
  BY <1>18 DEF Fail, Goto, Ends
<1>19. ASSUME LosePower PROVE ReportedStays'
  <2>1. Alone /\ (~Exposed' => ~inherited)
    BY <1>19, OneKindOfFault DEF LosePower, DirectoriesSurvive
  <2>2. CASE ~Exposed' /\ returned # {}
    <3>1. Levels \subseteq kept /\ \A id \in returned : possible = {id} /\ id \in synced
      BY <2>1, <2>2
    <3>2. present' = Depth /\ kept' = Levels
      BY <1>19, <3>1, DepthIsPositive DEF LosePower, DirectoriesSurvive, Levels
    <3>3. \A id \in returned : entry' = id /\ possible' = {id}
      BY <1>19, <3>1, <3>2, DepthIsPositive DEF LosePower, Recovered
    <3> QED
      BY <1>19, <3>2, <3>3 DEF LosePower
  <2> QED
    BY <1>19, <2>2 DEF LosePower
<1>20. ASSUME Publish PROVE ReportedStays'
  BY <1>20, MarksAreNoIds DEF Publish
<1> QED
  BY <1>0, <1>1, <1>2, <1>4, <1>5, <1>6, <1>7, <1>8, <1>9, <1>10, <1>11, <1>12, <1>13,
     <1>14, <1>15, <1>16, <1>17, <1>18, <1>19, <1>20 DEF Next, Step

\* The invariant holds in every reachable state.
LEMMA IdentityInvHolds == Spec => []IdentityInv
<1>0. Init => DirectoriesTyped
  <2> SUFFICES ASSUME Init PROVE DirectoriesTyped
    OBVIOUS
  <2>1. present \in 0..Depth /\ kept = 1..present
    BY DEF Init, DirectoriesInit
  <2>2. kept \subseteq Levels
    BY <2>1, DepthIsPositive DEF Levels
  <2>3. level \in [Processes -> 0..Depth]
    <3>1. Depth \in 0..Depth
      BY DepthIsPositive
    <3> QED
      BY <3>1 DEF Init, DirectoriesInit
  <2>4. inherited \in BOOLEAN
    BY DEF Init, DirectoriesInit
  <2> QED
    BY <2>1, <2>2, <2>3, <2>4 DEF DirectoriesTyped
<1>1. Init => IdentityInv
  <2> SUFFICES ASSUME Init PROVE IdentityInv
    OBVIOUS
  <2>1. TypeOK
    <3>1. entry \in Contents /\ possible = {entry}
      BY DEF Init, Contents
    <3> QED
      BY <1>0, <3>1 DEF Init, TypeOK, PCs, NoId
  <2>2. PathKept
    BY DEF Init, DirectoriesInit, PathKept, EnsuredPCs, LockedPCs
  <2>3. LockExclusive /\ DataSynced /\ SeenIsTrue
    BY MarksAreNoIds DEF Init, LockExclusive, DataSynced, SeenIsTrue, LockedPCs, NoId
  <2>4. ReportedStays
    BY DEF Init, ReportedStays
  <2> QED
    BY <2>1, <2>2, <2>3, <2>4 DEF IdentityInv
<1>2. IdentityInv /\ [Next]_vars => IdentityInv'
  BY IdentityTypeStep, LockStep, PathStep, DataStep, SeenStep, ReportedStep DEF IdentityInv
<1> QED
  BY <1>1, <1>2, PTL DEF Spec

-----------------------------------------------------------------------------
(* What follows from it *)

\* The shape of the state (TypeOK) is an invariant.
THEOREM IdentityTyped == Spec => []TypeOK
<1>1. IdentityInv => TypeOK
  BY DEF IdentityInv
<1> QED
  BY <1>1, IdentityInvHolds, PTL

\* Every launch that gets an id gets the same one (load_or_create_device_id,
\* identity.rs:32), whatever was killed, failed or lost between them, however
\* long the path -- unless a launch took an unsynced directory for durable.
THEOREM IdIsStable == Spec => []StableId
<1>1. IdentityInv => StableId
  BY DEF IdentityInv, ReportedStays, StableId
<1> QED
  BY <1>1, IdentityInvHolds, PTL

\* An id that RustView generated is reported only when a loss of power leaves
\* it and every directory above it (create_and_publish_device_id,
\* create_directory_tree_durable), with the same exception.
THEOREM IdIsDurable == Spec => []OwnIdIsDurable
<1>1. IdentityInv => OwnIdIsDurable
  BY DEF IdentityInv, TypeOK, ReportedStays, DataSynced, OwnIdIsDurable, Exposed, Alone
<1> QED
  BY <1>1, IdentityInvHolds, PTL

\* No step moves or replaces a file that is not an interrupted write.
THEOREM CompleteIdsStay == Spec => OnlyPartialsMoved
<1>1. IdentityInv /\ [Next]_vars
        => [entry' # entry =>
              entry \in {"missing", "partial"} \/ entry' \in possible \/ present' < Depth]_vars
  <2> SUFFICES ASSUME IdentityInv, [Next]_vars, entry' # entry
               PROVE  entry \in {"missing", "partial"} \/ entry' \in possible \/ present' < Depth
    OBVIOUS
  <2>1. CASE LosePower
    BY <2>1, DepthIsPositive DEF LosePower, Recovered, IdentityInv, DataSynced
  <2>2. CASE Publish
    BY <2>2 DEF Publish
  <2>3. ASSUME NEW p \in Processes, Start(p) \/ Step(p) \/ Fail(p)
        PROVE  entry \in {"missing", "partial"}
    <3>1. Quarantine(p) \/ Link(p)
      BY <2>3 DEF Step, Start, EnsureTree, Look, Barrier, Acquire, SyncLock, Inspect,
         SyncQuarantine, Generate, SyncTemporary, SyncLink, Cleanup, SyncWinner, ReadWinner,
         Fail, Synced, disk
    <3> QED
      BY <3>1 DEF Quarantine, Link, IdentityInv, SeenIsTrue
  <2> QED
    BY <2>1, <2>2, <2>3 DEF Next, vars
<1> QED
  BY <1>1, IdentityInvHolds, PTL DEF Spec, OnlyPartialsMoved

=============================================================================
