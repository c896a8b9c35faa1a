---------------------------- MODULE MCAsyncTasks ----------------------------
(* Model checking of AsyncTasks: three tasks of two main tasks, and a queue *)
(* for two.                                                                *)
EXTENDS AsyncTasks, TLC

CONSTANTS t1, t2, t3, m1, m2
MCTask == {t1, t2, t3}
MCMain == {m1, m2}
MCMainOf == t1 :> m1 @@ t2 :> m1 @@ t3 :> m2

Symmetry == Permutations(Call)
=============================================================================
