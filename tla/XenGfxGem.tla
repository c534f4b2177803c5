------------------------------ MODULE XenGfxGem ------------------------------
(***************************************************************************)
(* Buffer objects of the xengfx driver (xengfx_gem.c, and the framebuffer  *)
(* references of xengfx_display.c): their life from creation to release,   *)
(* and their binding into the aperture through the device's GART.          *)
(*                                                                         *)
(* Kernel threads run ioctls, page faults and modesetting calls.  Most of  *)
(* the work is done under dev->struct_mutex, but three actors do not hold  *)
(* it: a thread that creates an object or removes a handle, user code that *)
(* uses the mappings it already has, and the device, which may read a GART *)
(* entry into its translation cache at any moment.  So the binding and the *)
(* unbinding of an object are modelled one hardware-visible step at a      *)
(* time, while work that only the mutex holder can see is one action.      *)
(*                                                                         *)
(* Nothing is assumed here of how the display code balances pin and unpin: *)
(* it may call either for any object that a framebuffer holds.  What holds *)
(* here holds whatever it does.  Pages are taken to be below 4 GB, since   *)
(* xengfx_gem.c:46 cuts their addresses to 32 bits before it shifts them.  *)
(***************************************************************************)
EXTENDS Integers, FiniteSets

CONSTANTS
  Objs,       \* struct xengfx_gem_object addresses, each allocated once
  Threads,    \* kernel threads
  AperPages,  \* dev_priv->aper_size / PAGE_SIZE
  Sizes,      \* object sizes, in pages
  PinMod,     \* pin_count wraps here (2^32 for an unsigned int)
  None,       \* a NULL gart_space, or no object
  NoThread,   \* struct_mutex is free
  EarlyClose, \* a client may close a handle whose creation still runs
  Invalid,    \* a GART entry that is not valid
  Empty       \* the device caches nothing for this GART entry

Tags == {"handle", "vma", "fb"}

ASSUME GemAssumption ==
  /\ AperPages \in Nat \ {0}
  /\ Sizes \subseteq Nat \ {0}
  /\ PinMod \in Nat \ {0, 1}
  /\ EarlyClose \in BOOLEAN
  /\ IsFiniteSet(Threads)
  /\ Threads \cap Tags = {}
  /\ NoThread \notin Threads
  /\ None \notin Int \cup Objs
  /\ Invalid \notin Objs \X Nat
  /\ Empty \notin (Objs \X Nat) \cup {Invalid}

VARIABLES
  heap,     \* "none", "live", "freed" or "corrupt" (freed twice)
  size,     \* gem_object.size, in pages
  refs,     \* gem_object.refcount
  handle,   \* some file has a handle on the object
  vma,      \* the object is mapped in a user address space
  fb,       \* a framebuffer holds the object
  moff,     \* map_list.map: the object has a fake mmap offset
  pins,     \* pin_count
  space,    \* gart_space: first aperture page of the block, or None
  offset,   \* the object's offset, in pages
  pages,    \* the object holds its pages (obj->pages # NULL)
  faulted,  \* obj->faulted
  upte,     \* user PTEs: <<o, k, s>> maps page k of o to aperture page s
  gart,     \* the GART: aperture page -> <<o, k>> or Invalid
  cache,    \* the device's cached translations
  mutex,    \* owner of struct_mutex
  pc,       \* what each thread does next
  job,      \* why: "create", "fault", "pin", "unpin" or "unref"
  obj,      \* the object it works on
  cur       \* its loop index over the object's pages

lifeVars == <<heap, size, refs, handle, vma, fb, moff>>
bindVars == <<pins, space, offset, pages, faulted>>
devVars  == <<gart, cache>>
thrVars  == <<pc, job, obj, cur>>
vars     == <<lifeVars, bindVars, upte, devVars, mutex, thrVars>>

Slots == 0 .. AperPages - 1
Pte   == Objs \X Nat

BindPcs     == {"pages", "write", "flush"}
UnbindPcs   == {"zap", "clear", "uflush", "putpages", "putblock", "uflush2"}
AcquirePcs  == {"space", "finish"} \cup BindPcs
TeardownPcs == {"free", "unpin", "reap"} \cup UnbindPcs
Labels      == {"idle", "handle", "drop", "wait", "unref", "oops"}
                 \cup AcquirePcs \cup TeardownPcs

-----------------------------------------------------------------------------
(* Aperture space: the drm_mm range allocator over [0, aper_size).         *)

Extent(o) == {space[o] + i : i \in 0 .. size[o] - 1}
Used      == UNION {Extent(o) : o \in {p \in Objs : space[p] # None}}

\* drm_mm_search_free finds a hole that is large enough and
\* drm_mm_get_block cuts the block off its start.
HoleStarts(n) ==
  {s \in Slots : /\ s .. s + n - 1 \subseteq Slots \ Used
                 /\ s = 0 \/ s - 1 \in Used}

(* Reference and pin counts.                                               *)

Get(o)       == [refs EXCEPT ![o] = @ + 1]
Put(o)       == [refs EXCEPT ![o] = @ - 1]
LastRef(o)   == refs[o] = 1
\* Mutant: the lookup returns the object without a reference.
LookupNoRef(o) == refs
LookupRef(o) == Get(o)
PinInc(n)    == (n + 1) % PinMod
\* Mutant: the count is not an unsigned int and goes below zero.
PinDecSigned(n) == n - 1
PinDec(n)    == (n + PinMod - 1) % PinMod
\* Mutant: the object is unbound one unpin too early.
LastPinEarly(o) == PinDec(pins[o]) <= 1
LastPin(o)   == PinDec(pins[o]) = 0

(* Writes to the GART, its flush, and the removal of user mappings.        *)

EntryWritten(o, i) == [gart EXCEPT ![offset[o] + i] = <<o, i>>]
EntryCleared(o, i) == [gart EXCEPT ![offset[o] + i] = Invalid]
Flushed            == [s \in Slots |-> Empty]
\* Mutant: unmap_mapping_range is forgotten.
StillMapped(o)     == upte
Unmapped(o)        == {p \in upte : p[1] # o}

(* Threads.                                                                *)

Goto(t, l)    == pc' = [pc EXCEPT ![t] = l]
Unlocked(t)   == IF mutex = t THEN NoThread ELSE mutex
\* Mutant: an error return that forgets mutex_unlock.
LeftLocked(t) == mutex
UnlockedOnError(t) == Unlocked(t)

\* Thread t returns to its caller, with the mutex left as m.
Return(t, m) ==
  /\ mutex' = m
  /\ Goto(t, "idle")
  /\ job' = [job EXCEPT ![t] = "none"]
  /\ obj' = [obj EXCEPT ![t] = None]
  /\ cur' = [cur EXCEPT ![t] = 0]

\* Thread t starts job j on object o at label l.
Start(t, j, o, l) ==
  /\ pc[t] = "idle"
  /\ Goto(t, l)
  /\ job' = [job EXCEPT ![t] = j]
  /\ obj' = [obj EXCEPT ![t] = o]
  /\ UNCHANGED <<cur, mutex>>

\* A BUG_ON fired: the kernel kills the thread where it stands.
Oops(t) ==
  /\ Goto(t, "oops")
  /\ UNCHANGED <<job, obj, cur, mutex, lifeVars, bindVars, upte, devVars>>

\* mode_config.mutex serialises framebuffer and modesetting calls,
\* mmap_sem keeps a mapping in place while a fault on it is handled.
ModesetIdle   == \A u \in Threads : job[u] \notin {"pin", "unpin"}
FaultIdle(o)  == \A u \in Threads : ~ (job[u] = "fault" /\ obj[u] = o)

Init ==
  /\ heap = [o \in Objs |-> "none"]
  /\ size = [o \in Objs |-> 0]
  /\ refs = [o \in Objs |-> 0]
  /\ handle = [o \in Objs |-> FALSE]
  /\ vma = [o \in Objs |-> FALSE]
  /\ fb = [o \in Objs |-> FALSE]
  /\ moff = [o \in Objs |-> FALSE]
  /\ pins = [o \in Objs |-> 0]
  /\ space = [o \in Objs |-> None]
  /\ offset = [o \in Objs |-> 0]
  /\ pages = [o \in Objs |-> FALSE]
  /\ faulted = [o \in Objs |-> FALSE]
  /\ upte = {}
  /\ gart = [s \in Slots |-> Invalid]
  /\ cache = [s \in Slots |-> Empty]
  /\ mutex = NoThread
  /\ pc = [t \in Threads |-> "idle"]
  /\ job = [t \in Threads |-> "none"]
  /\ obj = [t \in Threads |-> None]
  /\ cur = [t \in Threads |-> 0]

-----------------------------------------------------------------------------
(* Creation and handles.                                                   *)

\* xengfx_gem_create up to the handle: the object is born with one
\* reference, held by the creating thread, and no lock is taken.
CreateAlloc(t, o, n) ==
  /\ heap[o] = "none"
  /\ heap' = [heap EXCEPT ![o] = "live"]
  /\ size' = [size EXCEPT ![o] = n]
  /\ refs' = [refs EXCEPT ![o] = 1]
  /\ Start(t, "create", o, "handle")
  /\ UNCHANGED <<handle, vma, fb, moff, bindVars, upte, devVars>>

\* Mutant: the handle does not hold a reference of its own.
CreateHandleNoRef(t) ==
  /\ pc[t] = "handle"
  /\ handle' = [handle EXCEPT ![obj[t]] = TRUE]
  /\ Goto(t, "drop")
  /\ UNCHANGED <<heap, size, refs, vma, fb, moff, bindVars, upte, devVars,
                 mutex, job, obj, cur>>

\* drm_gem_handle_create: from here on other threads can find the object.
CreateHandle(t) ==
  /\ pc[t] = "handle"
  /\ handle' = [handle EXCEPT ![obj[t]] = TRUE]
  /\ refs' = Get(obj[t])
  /\ Goto(t, "drop")
  /\ UNCHANGED <<heap, size, vma, fb, moff, bindVars, upte, devVars,
                 mutex, job, obj, cur>>

\* No handle could be made.  xengfx_gem_object_release frees the object
\* and xengfx_gem_create then passes it to kfree again.
CreateFails(t) ==
  /\ pc[t] = "handle"
  /\ heap' = [heap EXCEPT ![obj[t]] = "corrupt"]
  /\ Return(t, mutex)
  /\ UNCHANGED <<size, refs, handle, vma, fb, moff, bindVars, upte, devVars>>

\* Mutant: the creating thread keeps its reference.
CreateKeeps(t) ==
  /\ pc[t] = "drop"
  /\ Return(t, mutex)
  /\ UNCHANGED <<heap, size, refs, handle, vma, fb, moff, bindVars, upte, devVars>>

\* The creating thread drops its reference, without the mutex.  When it
\* was the last one, drm calls xengfx_gem_free_object from here.
CreateDrop(t) ==
  /\ pc[t] = "drop"
  /\ refs' = Put(obj[t])
  /\ \/ LastRef(obj[t]) /\ Goto(t, "free") /\ UNCHANGED <<mutex, job, obj, cur>>
     \/ ~ LastRef(obj[t]) /\ Return(t, mutex)
  /\ UNCHANGED <<heap, size, handle, vma, fb, moff, bindVars, upte, devVars>>

\* drm_gem_handle_delete: the handle goes first; its reference is dropped
\* once the thread has the mutex (drm_gem_object_unreference_unlocked).
\* A client normally closes a handle after the ioctl has returned it, but
\* handles are small numbers that another of its threads may guess.
CloseHandle(t, o) ==
  /\ handle[o]
  /\ EarlyClose \/ \A u \in Threads : pc[u] = "drop" => obj[u] # o
  /\ handle' = [handle EXCEPT ![o] = FALSE]
  /\ Start(t, "unref", o, "wait")
  /\ UNCHANGED <<heap, size, refs, vma, fb, moff, bindVars, upte, devVars>>

-----------------------------------------------------------------------------
(* User mappings and framebuffers.                                         *)

\* xengfx_gem_map_ioctl when it makes the object's fake offset.  The
\* reference of the lookup is dropped again before the mutex is.
MapIoctl(t, o) ==
  /\ pc[t] = "idle" /\ mutex = NoThread
  /\ handle[o] /\ ~ moff[o]
  /\ size[o] <= AperPages
  /\ moff' = [moff EXCEPT ![o] = TRUE]
  /\ UNCHANGED <<heap, size, refs, handle, vma, fb, bindVars, upte, devVars,
                 mutex, thrVars>>

\* drm_gem_mmap finds the object by its fake offset, under the mutex.
Mmap(t, o) ==
  /\ pc[t] = "idle" /\ mutex = NoThread
  /\ moff[o] /\ ~ vma[o]
  /\ vma' = [vma EXCEPT ![o] = TRUE]
  /\ refs' = Get(o)
  /\ UNCHANGED <<heap, size, handle, fb, moff, bindVars, upte, devVars,
                 mutex, thrVars>>

\* The kernel removes the mapping's PTEs, then drm_gem_vm_close drops the
\* mapping's reference under the mutex.
Munmap(t, o) ==
  /\ vma[o] /\ FaultIdle(o)
  /\ vma' = [vma EXCEPT ![o] = FALSE]
  /\ upte' = {p \in upte : p[1] # o}
  /\ Start(t, "unref", o, "wait")
  /\ UNCHANGED <<heap, size, refs, handle, fb, moff, bindVars, devVars>>

\* xengfx_fb_create: the framebuffer keeps the reference of the lookup.
FbCreate(t, o) ==
  /\ pc[t] = "idle" /\ ModesetIdle
  /\ handle[o] /\ ~ fb[o]
  /\ fb' = [fb EXCEPT ![o] = TRUE]
  /\ refs' = LookupRef(o)
  /\ UNCHANGED <<heap, size, handle, vma, moff, bindVars, upte, devVars,
                 mutex, thrVars>>

\* xengfx_fb_create after the lookup, without memory or an id for the
\* framebuffer: it drops the reference, which by then may be the last one.
FbCreateFails(t, o) ==
  /\ handle[o] /\ ModesetIdle
  /\ refs' = LookupRef(o)
  /\ Start(t, "unref", o, "wait")
  /\ UNCHANGED <<heap, size, handle, vma, fb, moff, bindVars, upte, devVars>>

\* xengfx_fb_create_handle: who knows a framebuffer gets a handle on its
\* object, also when that had none any more.
FbCreateHandle(t, o) ==
  /\ pc[t] = "idle" /\ ModesetIdle
  /\ fb[o] /\ ~ handle[o]
  /\ handle' = [handle EXCEPT ![o] = TRUE]
  /\ refs' = Get(o)
  /\ UNCHANGED <<heap, size, vma, fb, moff, bindVars, upte, devVars,
                 mutex, thrVars>>

\* xengfx_fb_destroy
FbDestroy(t, o) ==
  /\ fb[o] /\ ModesetIdle
  /\ fb' = [fb EXCEPT ![o] = FALSE]
  /\ Start(t, "unref", o, "wait")
  /\ UNCHANGED <<heap, size, refs, handle, vma, moff, bindVars, upte, devVars>>

-----------------------------------------------------------------------------
(* Entering and leaving struct_mutex.                                      *)

\* Mutant: xengfx_gem_fault goes to work without the mutex.
BeginFaultUnlocked(t, o) ==
  /\ vma[o]
  /\ Start(t, "fault", o, IF space[o] = None THEN "space" ELSE "finish")
  /\ UNCHANGED <<lifeVars, bindVars, upte, devVars>>

BeginFault(t, o) ==
  /\ vma[o]
  /\ Start(t, "fault", o, "wait")
  /\ UNCHANGED <<lifeVars, bindVars, upte, devVars>>

BeginPin(t, o) ==
  /\ fb[o] /\ ModesetIdle
  /\ Start(t, "pin", o, "wait")
  /\ UNCHANGED <<lifeVars, bindVars, upte, devVars>>

BeginUnpin(t, o) ==
  /\ fb[o] /\ ModesetIdle
  /\ Start(t, "unpin", o, "wait")
  /\ UNCHANGED <<lifeVars, bindVars, upte, devVars>>

\* Where a thread that has just taken the mutex goes: a pin or a fault
\* binds the object unless it is bound already.
FirstLabel(t) ==
  IF job[t] \in {"pin", "fault"}
    THEN IF space[obj[t]] = None THEN "space" ELSE "finish"
    ELSE job[t]

Lock(t) ==
  /\ pc[t] = "wait" /\ mutex = NoThread
  /\ mutex' = t
  /\ Goto(t, FirstLabel(t))
  /\ UNCHANGED <<job, obj, cur, lifeVars, bindVars, upte, devVars>>

\* mutex_lock_interruptible gave up: the fault is retried later.
FaultInterrupted(t) ==
  /\ pc[t] = "wait" /\ job[t] = "fault"
  /\ Return(t, mutex)
  /\ UNCHANGED <<lifeVars, bindVars, upte, devVars>>

-----------------------------------------------------------------------------
(* xengfx_gem_object_bind                                                  *)

BindSpace(t) ==
  /\ pc[t] = "space"
  /\ size[obj[t]] <= AperPages
  /\ \E s \in HoleStarts(size[obj[t]]) :
       /\ space'  = [space EXCEPT ![obj[t]] = s]
       /\ offset' = [offset EXCEPT ![obj[t]] = s]
  /\ Goto(t, "pages")
  /\ UNCHANGED <<pins, pages, faulted, job, obj, cur, mutex, lifeVars, upte,
                 devVars>>

\* Larger than the aperture, no hole, or no memory for the block.
BindSpaceFails(t) ==
  /\ pc[t] = "space"
  /\ Return(t, Unlocked(t))
  /\ UNCHANGED <<lifeVars, bindVars, upte, devVars>>

BindPages(t) ==
  /\ pc[t] = "pages"
  /\ pages' = [pages EXCEPT ![obj[t]] = TRUE]
  /\ cur' = [cur EXCEPT ![t] = 0]
  /\ Goto(t, "write")
  /\ UNCHANGED <<pins, space, offset, faulted, job, obj, mutex, lifeVars,
                 upte, devVars>>

\* A page could not be read: the pages read so far are released and the
\* block returned.  The object keeps its stale offset.
\*
\* Mutant: gart_space is not reset.
SpaceKept(o) == space
SpaceAfterFailure(o) == [space EXCEPT ![o] = None]

\* Mutant: the error path goes back to look for another block.
BindPagesRetry(t) ==
  /\ pc[t] = "pages"
  /\ space' = SpaceAfterFailure(obj[t])
  /\ Goto(t, "space")
  /\ UNCHANGED <<pins, offset, pages, faulted, job, obj, cur, mutex, lifeVars,
                 upte, devVars>>

BindPagesFails(t) ==
  /\ pc[t] = "pages"
  /\ space' = SpaceAfterFailure(obj[t])
  /\ Return(t, UnlockedOnError(t))
  /\ UNCHANGED <<pins, offset, pages, faulted, lifeVars, upte, devVars>>

BindWrite(t) ==
  /\ pc[t] = "write"
  /\ gart' = EntryWritten(obj[t], cur[t])
  /\ cur' = [cur EXCEPT ![t] = @ + 1]
  /\ Goto(t, IF cur[t] + 1 = size[obj[t]] THEN "flush" ELSE "write")
  /\ UNCHANGED <<cache, job, obj, mutex, lifeVars, bindVars, upte>>

\* Mutant: xengfx_gem_object_bind without its last line.
BindNoFlush(t) ==
  /\ pc[t] = "flush"
  /\ Goto(t, "finish")
  /\ UNCHANGED <<devVars, job, obj, cur, mutex, lifeVars, bindVars, upte>>

BindFlush(t) ==
  /\ pc[t] = "flush"
  /\ cache' = Flushed
  /\ Goto(t, "finish")
  /\ UNCHANGED <<gart, job, obj, cur, mutex, lifeVars, bindVars, upte>>

\* The rest of xengfx_gem_object_pin.
FinishPin(t) ==
  /\ pc[t] = "finish" /\ job[t] = "pin"
  /\ pins' = [pins EXCEPT ![obj[t]] = PinInc(@)]
  /\ Return(t, Unlocked(t))
  /\ UNCHANGED <<space, offset, pages, faulted, lifeVars, upte, devVars>>

\* The rest of xengfx_gem_fault on page k.  vm_insert_pfn may fail, and
\* does when the page is mapped already; the object is marked anyway.
FinishFault(t, k) ==
  LET o == obj[t] IN
  /\ pc[t] = "finish" /\ job[t] = "fault"
  /\ \/ UNCHANGED upte
     \/ /\ \A s \in Slots : <<o, k, s>> \notin upte
        /\ upte' = upte \cup {<<o, k, offset[o] + k>>}
  /\ faulted' = [faulted EXCEPT ![o] = TRUE]
  /\ Return(t, Unlocked(t))
  /\ UNCHANGED <<pins, space, offset, pages, lifeVars, devVars>>

-----------------------------------------------------------------------------
(* xengfx_gem_object_unpin and xengfx_gem_object_unbind                    *)

\* What follows an unpin: its caller's unlock, or the rest of
\* xengfx_gem_free_object.
AfterUnpin(t) ==
  \/ job[t] = "unpin" /\ Return(t, Unlocked(t))
  \/ job[t] # "unpin" /\ Goto(t, "reap") /\ UNCHANGED <<mutex, job, obj, cur>>

UnpinBug(t) ==
  /\ pc[t] = "unpin" /\ mutex = NoThread
  /\ Oops(t)

UnpinKeep(t) ==
  /\ pc[t] = "unpin" /\ mutex # NoThread
  /\ ~ LastPin(obj[t]) \/ space[obj[t]] = None
  /\ pins' = [pins EXCEPT ![obj[t]] = PinDec(@)]
  /\ AfterUnpin(t)
  /\ UNCHANGED <<space, offset, pages, faulted, lifeVars, upte, devVars>>

UnpinLast(t) ==
  /\ pc[t] = "unpin" /\ mutex # NoThread
  /\ LastPin(obj[t]) /\ space[obj[t]] # None
  /\ pins' = [pins EXCEPT ![obj[t]] = PinDec(@)]
  /\ Goto(t, "zap")
  /\ UNCHANGED <<space, offset, pages, faulted, job, obj, cur, mutex,
                 lifeVars, upte, devVars>>

UnbindZap(t) ==
  /\ pc[t] = "zap"
  /\ upte' = IF faulted[obj[t]] THEN Unmapped(obj[t]) ELSE upte
  /\ faulted' = [faulted EXCEPT ![obj[t]] = FALSE]
  /\ cur' = [cur EXCEPT ![t] = 0]
  /\ Goto(t, "clear")
  /\ UNCHANGED <<pins, space, offset, pages, job, obj, mutex, lifeVars,
                 devVars>>

UnbindClear(t) ==
  /\ pc[t] = "clear"
  /\ gart' = EntryCleared(obj[t], cur[t])
  /\ cur' = [cur EXCEPT ![t] = @ + 1]
  /\ Goto(t, IF cur[t] + 1 = size[obj[t]] THEN "uflush" ELSE "clear")
  /\ UNCHANGED <<cache, job, obj, mutex, lifeVars, bindVars, upte>>

\* Mutant: the pages are released before the device forgets them.
UnbindNoFlush(t) ==
  /\ pc[t] = "uflush"
  /\ Goto(t, "putpages")
  /\ UNCHANGED <<devVars, job, obj, cur, mutex, lifeVars, bindVars, upte>>

UnbindFlush(t) ==
  /\ pc[t] = "uflush"
  /\ cache' = Flushed
  /\ Goto(t, "putpages")
  /\ UNCHANGED <<gart, job, obj, cur, mutex, lifeVars, bindVars, upte>>

UnbindPutPages(t) ==
  /\ pc[t] = "putpages"
  /\ pages' = [pages EXCEPT ![obj[t]] = FALSE]
  /\ Goto(t, "putblock")
  /\ UNCHANGED <<pins, space, offset, faulted, job, obj, cur, mutex, lifeVars,
                 upte, devVars>>

UnbindPutBlock(t) ==
  /\ pc[t] = "putblock"
  /\ space'  = [space EXCEPT ![obj[t]] = None]
  /\ offset' = [offset EXCEPT ![obj[t]] = 0]
  /\ Goto(t, "uflush2")
  /\ UNCHANGED <<pins, pages, faulted, job, obj, cur, mutex, lifeVars, upte,
                 devVars>>

UnbindDone(t) ==
  /\ pc[t] = "uflush2"
  /\ cache' = Flushed
  /\ AfterUnpin(t)
  /\ UNCHANGED <<gart, lifeVars, bindVars, upte>>

-----------------------------------------------------------------------------
(* The last reference: xengfx_gem_free_object                              *)

Unref(t) ==
  /\ pc[t] = "unref"
  /\ refs' = Put(obj[t])
  /\ \/ LastRef(obj[t]) /\ Goto(t, "free") /\ UNCHANGED <<mutex, job, obj, cur>>
     \/ ~ LastRef(obj[t]) /\ Return(t, Unlocked(t))
  /\ UNCHANGED <<heap, size, handle, vma, fb, moff, bindVars, upte, devVars>>

FreeBug(t) ==
  /\ pc[t] = "free" /\ mutex = NoThread
  /\ Oops(t)

\* Only a pinned object is unpinned, once; an object that a fault bound
\* has no pin and keeps its place in the aperture.
Free(t) ==
  /\ pc[t] = "free" /\ mutex # NoThread
  /\ Goto(t, IF pins[obj[t]] # 0 THEN "unpin" ELSE "reap")
  /\ UNCHANGED <<job, obj, cur, mutex, lifeVars, bindVars, upte, devVars>>

\* Mutant: the fake offset outlives the object.
OffsetsKept(o) == moff
OffsetsAfterFree(o) == [moff EXCEPT ![o] = FALSE]

Reap(t) ==
  /\ pc[t] = "reap"
  /\ moff' = OffsetsAfterFree(obj[t])
  /\ heap' = [heap EXCEPT ![obj[t]] = IF @ = "live" THEN "freed" ELSE "corrupt"]
  /\ Return(t, Unlocked(t))
  /\ UNCHANGED <<size, refs, handle, vma, fb, bindVars, upte, devVars>>

-----------------------------------------------------------------------------
(* The device reads a GART entry into its translation cache.               *)

DeviceFetch(s) ==
  /\ cache' = [cache EXCEPT ![s] = gart[s]]
  /\ UNCHANGED <<gart, mutex, thrVars, lifeVars, bindVars, upte>>

Request(t) ==
  \E o \in Objs :
    \/ \E n \in Sizes : CreateAlloc(t, o, n)
    \/ CloseHandle(t, o)
    \/ MapIoctl(t, o)
    \/ Mmap(t, o)
    \/ Munmap(t, o)
    \/ FbCreate(t, o)
    \/ FbCreateFails(t, o)
    \/ FbCreateHandle(t, o)
    \/ FbDestroy(t, o)
    \/ BeginFault(t, o)
    \/ BeginPin(t, o)
    \/ BeginUnpin(t, o)

\* Steps of a thread that is past its waits.
Run(t) ==
  \/ CreateHandle(t) \/ CreateFails(t) \/ CreateDrop(t)
  \/ BindSpace(t) \/ BindSpaceFails(t)
  \/ BindPages(t) \/ BindPagesFails(t)
  \/ BindWrite(t) \/ BindFlush(t)
  \/ FinishPin(t) \/ \E o \in Objs : \E k \in 0 .. size[o] - 1 :
                       obj[t] = o /\ FinishFault(t, k)
  \/ UnpinBug(t) \/ UnpinKeep(t) \/ UnpinLast(t)
  \/ UnbindZap(t) \/ UnbindClear(t) \/ UnbindFlush(t)
  \/ UnbindPutPages(t) \/ UnbindPutBlock(t) \/ UnbindDone(t)
  \/ Unref(t) \/ FreeBug(t) \/ Free(t) \/ Reap(t)

Next ==
  \/ \E t \in Threads : Request(t) \/ Lock(t) \/ FaultInterrupted(t) \/ Run(t)
  \/ \E s \in Slots : DeviceFetch(s)

Spec == Init /\ [][Next]_vars

\* A thread that needs no lock, or has it, is scheduled eventually.
FairSpec == Spec /\ \A t \in Threads : WF_vars(Run(t))

-----------------------------------------------------------------------------
(* The aperture as the rest of the driver sees it: an object has its place *)
(* once its last entry is flushed, and until an unpin starts to unbind it. *)

Settled(o) ==
  pages[o] /\ \A t \in Threads : obj[t] = o => pc[t] \notin BindPcs \cup UnbindPcs

Aperture == INSTANCE XenGfxAperture
              WITH place <- [o \in Objs |-> IF Settled(o) THEN Extent(o) ELSE {}]

-----------------------------------------------------------------------------
(* The references as the rest of the kernel sees them.                     *)

\* Who holds a reference on o: its handle, its user mapping, its
\* framebuffer, the thread that creates it until it drops its own
\* reference, and each thread about to drop one.
Holding(t, o) ==
  /\ obj[t] = o
  /\ pc[t] \in {"handle", "drop", "unref"}
       \/ (pc[t] = "wait" /\ job[t] = "unref")
Holders(o) ==
  {t \in Threads : Holding(t, o)}
    \cup {g \in Tags : \/ g = "handle" /\ handle[o]
                       \/ g = "vma" /\ vma[o]
                       \/ g = "fb" /\ fb[o]}

Life == INSTANCE XenGfxLife
          WITH Users <- Threads \cup Tags,
               life  <- heap,
               held  <- [o \in Objs |-> Holders(o)]

-----------------------------------------------------------------------------
(* Properties.                                                             *)

\* Binding and unbinding through the GART, with every interleaving of
\* threads and device, looks to callers like the atomic pins and unpins of
\* XenGfxAperture: blocks never overlap and no pinned object loses its own.
\* For clients that wait for their handles (EarlyClose = FALSE).
ImplementsAperture == Aperture!ApertureSpec

\* The count, the mutex and the threads that drop references late look to
\* callers like XenGfxLife: an object is freed after its last holder has
\* gone, and nobody gets hold of one that nobody holds.  It is freed once,
\* unless its creation found no handle for it: that path frees it twice
\* (xengfx_gem.c:411-412), which XenGfxLife admits as Discard.  For clients
\* that wait for their handles (EarlyClose = FALSE).
ImplementsLife == Life!LifeSpec

LifeType ==
  /\ heap \in [Objs -> {"none", "live", "freed", "corrupt"}]
  /\ size \in [Objs -> Nat]
  /\ refs \in [Objs -> Int]
  /\ handle \in [Objs -> BOOLEAN]
  /\ vma \in [Objs -> BOOLEAN]
  /\ fb \in [Objs -> BOOLEAN]
  /\ moff \in [Objs -> BOOLEAN]

BindType ==
  /\ pins \in [Objs -> 0 .. PinMod - 1]
  /\ space \in [Objs -> Slots \cup {None}]
  /\ offset \in [Objs -> Slots]
  /\ pages \in [Objs -> BOOLEAN]
  /\ faulted \in [Objs -> BOOLEAN]

DeviceType ==
  /\ upte \subseteq Objs \X Nat \X Nat
  /\ gart \in [Slots -> Pte \cup {Invalid}]
  /\ cache \in [Slots -> Pte \cup {Invalid, Empty}]

ThreadType ==
  /\ mutex \in Threads \cup {NoThread}
  /\ pc \in [Threads -> Labels]
  /\ job \in [Threads -> {"none", "create", "fault", "pin", "unpin", "unref"}]
  /\ obj \in [Threads -> Objs \cup {None}]
  /\ cur \in [Threads -> Nat]

\* Every variable has its type: pin_count stays an unsigned int whatever
\* order its callers pin and unpin in, an offset stays in the aperture.
TypeOK == LifeType /\ BindType /\ DeviceType /\ ThreadType

\* The reference count of a live object is the number of its holders, on
\* every interleaving of create, close, mmap, framebuffer and free calls.
RefsAccounted ==
  \A o \in Objs : heap[o] = "live" => refs[o] = Cardinality(Holders(o))

\* No object leaks: one that nobody holds any more is being freed by the
\* thread that dropped the last reference, or by one that BUG_ON stopped.
Freeing(t, o) ==
  /\ obj[t] = o /\ job[t] \in {"create", "unref"}
  /\ pc[t] \in TeardownPcs \cup {"oops"}
NothingLeaks ==
  \A o \in Objs : heap[o] = "live" /\ Holders(o) = {} =>
    \E t \in Threads : Freeing(t, o)

\* An object that nobody holds any more is freed eventually, unless BUG_ON
\* stops the thread that frees it.
ReleasedIsFreed ==
  \A o \in Objs :
    heap[o] = "live" /\ Holders(o) = {} ~>
      heap[o] = "freed" \/ \E t \in Threads : pc[t] = "oops" /\ obj[t] = o

\* Nothing refers to an object that has been freed: no handle, mapping,
\* user PTE, mmap offset, framebuffer or running thread.  For clients that
\* wait for their handles (EarlyClose = FALSE).
NoUseAfterFree ==
  \A o \in Objs : heap[o] # "live" =>
    /\ ~ handle[o] /\ ~ vma[o] /\ ~ fb[o] /\ ~ moff[o]
    /\ \A p \in upte : p[1] # o
    /\ \A t \in Threads : obj[t] # o

\* A user PTE leads to its own page: the aperture page it names has a GART
\* entry for that page of that object, and the device has no other
\* translation cached for it, whatever binds and unbinds around it.  For
\* clients that wait for their handles (EarlyClose = FALSE).
UserPteSound ==
  \A p \in upte :
    /\ vma[p[1]]
    /\ gart[p[3]] = <<p[1], p[2]>>
    /\ cache[p[3]] \in {Empty, <<p[1], p[2]>>}

\* The device never holds a translation, in the GART or cached, to a page
\* that the driver has given back: xengfx_gem_object_put_pages comes after
\* the entries are cleared and flushed.  For clients that wait for their
\* handles (EarlyClose = FALSE).
DeviceSafe ==
  \A s \in Slots : \A o \in Objs : \A k \in 0 .. AperPages - 1 :
    <<o, k>> \in {gart[s], cache[s]} => pages[o]

\* Once an object is bound and until its unbinding starts, each of its
\* pages is visible at its place: no entry is missing and none is stale in
\* the cache of the device, also for an object that was freed while bound.
\* For clients that wait for their handles (EarlyClose = FALSE).
BindingVisible ==
  \A o \in Objs :
    Settled(o) => \A i \in 0 .. size[o] - 1 :
      /\ gart[space[o] + i] = <<o, i>>
      /\ cache[space[o] + i] \in {Empty, <<o, i>>}

\* The assertions of xengfx_gem_object_bind_gart and unbind_gart:
\* BUG_ON(!obj->pages) and BUG_ON(!obj->gart_space) never fire, for clients
\* that wait for their handles (EarlyClose = FALSE).
BindAssertions ==
  \A t \in Threads :
    /\ pc[t] = "write" => pages[obj[t]] /\ space[obj[t]] # None
    /\ pc[t] = "clear" => pages[obj[t]] /\ offset[obj[t]] = space[obj[t]]

\* A pinned object stays where it is: no step takes its pages or its place
\* in the aperture from an object that is pinned before and after it, not
\* even when its callers have unpinned it too often.  For clients that wait
\* for their handles (EarlyClose = FALSE).
PinnedStays ==
  [][\A o \in Objs :
       pages[o] /\ pins[o] # 0 /\ pins'[o] # 0
         => pages'[o] /\ space'[o] = space[o]]_vars

\* Binding, unbinding and freeing are done by the owner of struct_mutex,
\* except by a thread that creates an object and finds its own reference
\* to be the last.
LockDiscipline ==
  \A t \in Threads :
    pc[t] \in AcquirePcs \cup TeardownPcs => mutex = t \/ job[t] = "create"

\* How many steps at most a thread still makes in struct_mutex.
Rest(t) == size[obj[t]] - cur[t]
Work(t) ==
  CASE pc[t] = "finish"   -> 1
    [] pc[t] = "flush"    -> 2
    [] pc[t] = "write"    -> 2 + Rest(t)
    [] pc[t] = "pages"    -> 3 + size[obj[t]]
    [] pc[t] = "space"    -> 4 + size[obj[t]]
    [] pc[t] = "reap"     -> 1
    [] pc[t] = "uflush2"  -> 2
    [] pc[t] = "putblock" -> 3
    [] pc[t] = "putpages" -> 4
    [] pc[t] = "uflush"   -> 5
    [] pc[t] = "clear"    -> 5 + Rest(t)
    [] pc[t] = "zap"      -> 6 + size[obj[t]]
    [] pc[t] = "unpin"    -> 7 + size[obj[t]]
    [] pc[t] = "free"     -> 8 + size[obj[t]]
    [] pc[t] = "unref"    -> 9 + size[obj[t]]
    [] OTHER              -> 0

\* The owner of struct_mutex has work to do in it: no path out of a call
\* leaves it locked.
OwnerWorks ==
  \A t \in Threads : mutex = t =>
    obj[t] \in Objs /\ Work(t) \in 1 .. 9 + size[obj[t]]

\* Each step of the owner brings it closer to the unlock, whatever fails,
\* and no step of another thread or of the device takes it back: nobody
\* has the mutex for more than its size + 9 steps.
OwnerAdvances ==
  [][\A t \in Threads : mutex = t /\ mutex' = t =>
       IF UNCHANGED <<pc[t], cur[t]>> THEN Work(t)' = Work(t)
                                      ELSE Work(t)' < Work(t)]_vars

\* struct_mutex is released on every path out of every call that takes it,
\* error paths included.
MutexReleased == mutex # NoThread ~> mutex = NoThread

\* The assertion of xengfx_gem_free_object and xengfx_gem_object_unpin,
\* BUG_ON(!mutex_is_locked(&dev->struct_mutex)), never fires.
FreedUnderMutex == \A t \in Threads : pc[t] # "oops"

\* What the message of xengfx_gem_free_object says: aperture space is lost
\* when an object is freed that was not properly unpinned, hence only then.
LostOnlyIfPinned ==
  \A o \in Objs : heap[o] = "freed" /\ space[o] # None => pins[o] # 0
=============================================================================
