----------------------------- MODULE MCNodeAuth -----------------------------
(* Model checking of NodeAuth: nodes, tokens and call slots are each        *)
(* interchangeable.                                                        *)
EXTENDS NodeAuth, TLC

Symmetry == Permutations(Node) \cup Permutations(Token) \cup Permutations(Call)
=============================================================================
