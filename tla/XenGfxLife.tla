------------------------------ MODULE XenGfxLife ------------------------------
(***************************************************************************)
(* What the reference counts of xengfx_gem.c are for: an object lives as   *)
(* long as somebody holds it.  A holder is born with the object or let in  *)
(* by another holder, so nobody gets hold of an object that has none, and  *)
(* only an object without a holder is freed, and freed once.  One path of  *)
(* the code breaks this and is admitted here as what it is, Discard: a     *)
(* creation that finds no handle frees its object twice                    *)
(* (xengfx_gem.c:411-412).  Nobody else has to do with that object.        *)
(*                                                                         *)
(* XenGfxGem implements this specification with a count, a mutex and       *)
(* threads that drop a reference some time after they removed what held it.*)
(***************************************************************************)
CONSTANTS
  Objs,   \* buffer objects
  Users   \* who may hold one: handles, mappings, framebuffers, threads

VARIABLES
  life,   \* "none", "live", "freed" or "corrupt"
  held    \* the holders of each object

lifeVars == <<life, held>>

LifeInit ==
  /\ life = [o \in Objs |-> "none"]
  /\ held = [o \in Objs |-> {}]

\* xengfx_gem_alloc_object: the caller holds what it made.
Create(o, u) ==
  /\ life[o] = "none"
  /\ life' = [life EXCEPT ![o] = "live"]
  /\ held' = [held EXCEPT ![o] = {u}]

\* drm_gem_object_reference: h may hold what somebody holds.
Share(o, h) ==
  /\ held[o] # {} /\ h \notin held[o]
  /\ held' = [held EXCEPT ![o] = @ \cup {h}]
  /\ UNCHANGED life

\* What g held the object for goes away; h will drop g's reference.
HandOver(o, g, h) ==
  /\ g \in held[o] /\ h \notin held[o]
  /\ held' = [held EXCEPT ![o] = (@ \ {g}) \cup {h}]
  /\ UNCHANGED life

\* drm_gem_object_unreference
Drop(o, g) ==
  /\ g \in held[o]
  /\ held' = [held EXCEPT ![o] = @ \ {g}]
  /\ UNCHANGED life

\* xengfx_gem_free_object
Free(o) ==
  /\ life[o] = "live" /\ held[o] = {}
  /\ life' = [life EXCEPT ![o] = "freed"]
  /\ UNCHANGED held

\* xengfx_gem_create without a handle: u, alone with the object, drops its
\* last reference, which frees the object, and then frees it again.
Discard(o, u) ==
  /\ life[o] = "live" /\ held[o] = {u}
  /\ life' = [life EXCEPT ![o] = "corrupt"]
  /\ held' = [held EXCEPT ![o] = {}]

\* Each step changes one object, which the first conjunct finds.
LifeNext ==
  \E o \in Objs :
    /\ life'[o] # life[o] \/ held'[o] # held[o]
    /\ \/ Free(o)
       \/ \E u \in Users : Create(o, u) \/ Share(o, u)
       \/ \E g \in held[o] : Drop(o, g) \/ Discard(o, g) \/ \E h \in Users : HandOver(o, g, h)

LifeSpec == LifeInit /\ [][LifeNext]_lifeVars
=============================================================================
