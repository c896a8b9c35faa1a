--------------------------- MODULE MCNodeDispatch ---------------------------
(* Instances of NodeDispatch for TLC.                                      *)
EXTENDS NodeDispatch, TLC

(* Ids, objects, requests and forwards are interchangeable in safety runs.  *)
Symmetry ==
    Permutations(Node) \cup Permutations(Object)
        \cup Permutations(Request) \cup Permutations(Forward)
=============================================================================
