--------------------------- MODULE MCXenGfxDisplay ---------------------------
(* Small instances of XenGfxDisplay for TLC. *)
EXTENDS XenGfxDisplay

CONSTANTS o1, o2, o3

\* The second object has two pages, so that it can be panned.
MCSize == [o \in Objs |-> IF o = o2 THEN 2 ELSE 1]

\* The device refuses the base of the second object when it is panned.
MCMisaligned == {<<o2, 1>>} \cap (Objs \X Pans)
=============================================================================
