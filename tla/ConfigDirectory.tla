-------------------------- MODULE ConfigDirectory --------------------------
(***************************************************************************)
(* create_directory_tree_durable of apps/rustview-desktop/src/identity.rs: *)
(* several processes make the same path of directories at a time, may be   *)
(* killed or meet an I/O error after any step, and the machine may lose    *)
(* power.                                                                  *)
(*                                                                         *)
(* The components of the path that may be missing are numbered from the    *)
(* outermost, 1, to the configuration directory itself, Depth.  Nobody     *)
(* removes one, so those that exist are 1..present.  A power failure takes *)
(* a component whose entry in its parent was not synced, or leaves it; it  *)
(* takes all below it, too.                                                *)
(***************************************************************************)
EXTENDS Naturals, FiniteSets

CONSTANTS Processes,   \* instances of RustView that run at the same time
          Depth        \* components of the path that may be missing

ASSUME DepthIsPositive == Depth \in Nat \ {0}

VARIABLES
  pc,          \* where each process is
  level,       \* the component its walk is at
  present,     \* components that exist
  kept,        \* components whose entries were synced
  inherited    \* history: a walk stopped below a component that was not synced,
               \* and will not sync it

directories == <<level, present, kept, inherited>>

Levels == 1..Depth
Goto(p, label) == pc' = [pc EXCEPT ![p] = label]

DirectoriesInit ==
  /\ level = [p \in Processes |-> Depth]
  /\ present \in 0..Depth
  /\ kept = 1..present
  /\ inherited = FALSE

DirectoryExists == present = Depth

\* What a walk that goes on with component l leaves to others.
Inherits(l) == inherited' = (inherited \/ ~(1..(l - 1) \subseteq kept))

\* metadata of one component, from the configuration directory outwards.  A
\* directory that exists gets its own entry synced; above a missing one, the
\* first that exists is taken for durable.
Walk(p) ==
  /\ pc[p] = "walk"
  /\ \/ /\ level[p] > present
        /\ level' = [level EXCEPT ![p] = @ - 1]
        /\ UNCHANGED <<pc, inherited>>
     \/ /\ level[p] <= present
        /\ level[p] = Depth
        /\ Goto(p, "syncEntry")
        /\ Inherits(Depth)
        /\ UNCHANGED level
     \/ /\ level[p] <= present
        /\ level[p] < Depth
        /\ level' = [level EXCEPT ![p] = @ + 1]
        /\ Goto(p, "create")
        /\ Inherits(level[p] + 1)
  /\ UNCHANGED <<present, kept>>

\* create_dir; another process may have been faster.
CreateDirectory(p) ==
  /\ pc[p] = "create"
  /\ present' = IF present < level[p] THEN level[p] ELSE present
  /\ Goto(p, "syncEntry")
  /\ UNCHANGED <<level, kept, inherited>>

\* Mutant: the entry of a new directory is not synced.
MSyncEntry(p, next) ==
  /\ pc[p] = "syncEntry"
  /\ \/ level[p] = Depth /\ Goto(p, next) /\ UNCHANGED level
     \/ /\ level[p] < Depth
        /\ level' = [level EXCEPT ![p] = @ + 1]
        /\ Goto(p, "create")
  /\ UNCHANGED <<present, kept, inherited>>

\* sync_parent_directory, also when another process created the directory.
SyncEntry(p, next) ==
  /\ pc[p] = "syncEntry"
  /\ kept' = kept \cup {level[p]}
  /\ \/ level[p] = Depth /\ Goto(p, next) /\ UNCHANGED level
     \/ /\ level[p] < Depth
        /\ level' = [level EXCEPT ![p] = @ + 1]
        /\ Goto(p, "create")
  /\ UNCHANGED <<present, inherited>>

\* The whole of it, from "walk" to the label that follows.
EnsureDirectory(p, next) == Walk(p) \/ CreateDirectory(p) \/ SyncEntry(p, next)

\* A process that is gone from the walk.
Forget(p) == level' = [level EXCEPT ![p] = Depth]

\* What a power failure leaves of the path.
DirectoriesSurvive ==
  /\ \E k \in 0..present :
        /\ k = present \/ k + 1 \notin kept
        /\ present' = k
        /\ kept' = 1..k
  /\ level' = [p \in Processes |-> Depth]
  /\ UNCHANGED inherited

DirectoriesTyped ==
  /\ level \in [Processes -> 0..Depth]
  /\ present \in 0..Depth
  /\ kept \subseteq Levels
  /\ inherited \in BOOLEAN

=============================================================================
