----------------------------- MODULE MCXenGfxGem -----------------------------
(* Small instances of XenGfxGem for TLC. *)
EXTENDS XenGfxGem, TLC

\* Threads and objects are interchangeable: no property names one of them.
Symmetry == Permutations(Objs) \cup Permutations(Threads)
=============================================================================
