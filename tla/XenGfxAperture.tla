---------------------------- MODULE XenGfxAperture ----------------------------
(***************************************************************************)
(* What xengfx_gem.c promises of the aperture to the code that displays    *)
(* from it or maps it: an object is placed in one step and leaves in one,  *)
(* placed objects do not overlap, a pin needs a place, and the unpin that  *)
(* brings the count to zero takes the place away.                          *)
(*                                                                         *)
(* XenGfxGem implements this specification step by step on the hardware,   *)
(* and XenGfxDisplay is built on it.                                       *)
(***************************************************************************)
EXTENDS Integers

CONSTANTS
  Objs,       \* buffer objects
  AperPages,  \* pages of the aperture
  PinMod      \* pin_count wraps here

VARIABLES
  pins,       \* pin_count
  place       \* the aperture pages where an object can be reached, or {}

aperVars == <<pins, place>>

Slots == 0 .. AperPages - 1

Block(s, n) == s .. s + n - 1
Taken       == UNION {place[o] : o \in Objs}

Inc(n) == (n + 1) % PinMod
\* Mutant: the count is signed and goes below 0.
DecSigned(n) == n - 1
Dec(n) == (n + PinMod - 1) % PinMod

ApertureInit ==
  /\ pins = [o \in Objs |-> 0]
  /\ place = [o \in Objs |-> {}]

\* xengfx_gem_object_bind: an object goes into a free block.
Place(o, B) ==
  /\ place[o] = {}
  /\ B # {} /\ B \subseteq Slots \ Taken
  /\ place' = [place EXCEPT ![o] = B]
  /\ UNCHANGED pins

\* xengfx_gem_object_pin, once the object is bound.
Pin(o) ==
  /\ place[o] # {}
  /\ pins' = [pins EXCEPT ![o] = Inc(@)]
  /\ UNCHANGED place

\* xengfx_gem_object_unpin: nothing stops the count from wrapping below 0.
Unpin(o) ==
  /\ pins' = [pins EXCEPT ![o] = Dec(@)]
  /\ place' = IF Dec(pins[o]) = 0 THEN [place EXCEPT ![o] = {}] ELSE place

ApertureNext ==
  \E o \in Objs :
    \/ \E s \in Slots, n \in 1 .. AperPages : Place(o, Block(s, n))
    \/ Pin(o)
    \/ Unpin(o)

ApertureSpec == ApertureInit /\ [][ApertureNext]_aperVars
=============================================================================
