--------------------------- MODULE MCTurboVecStore ---------------------------
(* Three operations on two records of two sources: on one shared adapter    *)
(* instance, or each on the instance that its request built.                *)
EXTENDS TurboVecStore, TLC

CONSTANTS o1, o2, o3, r1, r2, s1, s2, shared

MCOps      == {o1, o2, o3}
TwoOps     == {o1, o2}
MCRecords  == {r1, r2}
MCBatches  == {{r1}, {r1, r2}}
Disjoint   == {{r1}, {r2}}
MCSources  == {s1}
MCSourceOf == [r \in MCRecords |-> IF r = r1 THEN s1 ELSE s2]
OneInstance == [o \in Ops |-> shared]
OwnInstance == [o \in Ops |-> o]
Symmetry == Permutations(MCOps)
=============================================================================
