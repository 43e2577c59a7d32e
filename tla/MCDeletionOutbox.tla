-------------------------- MODULE MCDeletionOutbox --------------------------
(***************************************************************************)
(* Model-checking instance of DeletionOutbox.                              *)
(***************************************************************************)
EXTENDS DeletionOutbox, TLC

CONSTANTS k1, k2, maintenance, handler

OneKey == {k1}
TwoKeys == {k1, k2}

\* k1's task is the older one.
K1First == [k \in Keys |-> IF k = k1 THEN 1 ELSE 2]

BothProcessors == {maintenance, handler}
ProcessorSymmetry == Permutations(BothProcessors)
=============================================================================
