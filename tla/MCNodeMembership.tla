-------------------------- MODULE MCNodeMembership --------------------------
(* Model checking of NodeMembership: the call slots are interchangeable.    *)
EXTENDS NodeMembership, TLC

Symmetry == Permutations(Call)
=============================================================================
