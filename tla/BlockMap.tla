------------------------------ MODULE BlockMap ------------------------------
(***************************************************************************)
(* What the block mapping of lwext4 promises its callers: every inode has  *)
(* a partial map from logical to physical blocks; a request extends it by  *)
(* one run of unused blocks behind everything mapped, or changes nothing;  *)
(* a truncation forgets a suffix.  A mapped block never moves, and no      *)
(* block belongs to two inodes or to the metadata.                         *)
(***************************************************************************)
EXTENDS Integers, FiniteSets

CONSTANTS
  Inos,
  Cuttable, \* the inodes that are truncated
  Blocks,   \* the device
  Reserved, \* blocks mkfs keeps for itself
  MaxRun    \* blocks of one request

VARIABLE map \* map[i]: the pairs <<logical block, physical block>> of inode i

Init == map = [i \in Inos |-> {}]

Logical(m) == {p[1] : p \in m}

Physical(m) == {p[2] : p \in m}

\* The map of inode i gains a run of logical blocks behind those it has, stored
\* in a run of blocks that had no use.
Extend(i) ==
  \E old \in {map[i]}, new \in {map'[i]} :
    LET added == new \ old
    IN /\ old \subseteq new
       /\ Cardinality(added) \in 1 .. MaxRun
       /\ \A p \in old, q \in added : p[1] < q[1]
       /\ \A p, q \in added : q[2] - p[2] = q[1] - p[1] /\ (p[1] = q[1] => p = q)
       /\ \E q \in added : Logical(added) = q[1] .. q[1] + Cardinality(added) - 1
       /\ Physical(added) \subseteq Blocks \ Reserved
       /\ \A j \in Inos : Physical(added) \cap Physical(map[j]) = {}
       /\ \A j \in Inos \ {i} : map'[j] = map[j]

\* The map of inode i loses the blocks from some block on.
Forget(i) ==
  \E old \in {map[i]}, new \in {map'[i]} :
    /\ new \subseteq old
    /\ \A p \in new, q \in old \ new : p[1] < q[1]
    /\ \A j \in Inos \ {i} : map'[j] = map[j]

Next ==
  \/ \E i \in Inos : Extend(i)
  \/ \E i \in Cuttable : Forget(i)

Spec == Init /\ [][Next]_map
=============================================================================
