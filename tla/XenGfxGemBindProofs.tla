------------------------- MODULE XenGfxGemBindProofs -------------------------
(***************************************************************************)
(* Theorems about binding in XenGfxGem, for clients that close no handle   *)
(* whose creation still runs: what the GART, the cache of the device and   *)
(* the user's page tables may say at each step of bind and unbind.         *)
(***************************************************************************)
EXTENDS XenGfxGemLifeProofs

Known == RefsInv /\ LockInv /\ LifeInv

\* The labels at which BindInv says something of a thread.
WorkPcs == {"space", "finish"} \cup BindPcs \cup UnbindPcs

LEMMA WorkLocked == WorkPcs \subseteq Locked /\ Partial \subseteq WorkPcs /\ UnbindPcs \subseteq WorkPcs
BY DEF WorkPcs, Locked, AcquirePcs, TeardownPcs, BindPcs, UnbindPcs, Partial

\* The types that the proofs below use.
LEMMA Types ==
  ASSUME Known
  PROVE  /\ TypeInv /\ ThreadType /\ ThreadsOK /\ LifeType /\ BindType /\ DeviceType
         /\ None \notin Int /\ None \notin Objs /\ NoThread \notin Threads
         /\ Slots \subseteq Int
BY GemAssumption DEF Known, RefsInv, TypeInv, TypeOK, Slots

\* An entry is not one that is missing.
LEMMA NotEmpty ==
  ASSUME NEW o \in Objs, NEW k \in Nat
  PROVE  <<o, k>> # Empty /\ <<o, k>> # Invalid
<1>1. <<o, k>> \in Objs \X Nat
  OBVIOUS
<1> QED BY <1>1, GemAssumption

-----------------------------------------------------------------------------
(* Steps that do not touch the aperture.                                   *)

LEMMA QuietSteps ==
  ASSUME Known, BindInv,
         UNCHANGED <<size, space, offset, pages, gart, cache>>,
         \A o \in Objs : heap'[o] # "none" <=> heap[o] # "none",
         \A u \in Threads : pc'[u] \in WorkPcs => 
           pc'[u] = pc[u] /\ obj'[u] = obj[u] /\ cur'[u] = cur[u],
         \A u \in Threads : pc[u] \in WorkPcs \ {"space", "finish", "uflush2"} =>
           pc'[u] = pc[u] /\ obj'[u] = obj[u],
         \A u \in Threads : pc'[u] \in UnbindPcs => pins'[obj[u]] = pins[obj[u]],
         faulted' = faulted, upte' \subseteq upte, \A p \in upte' : vma'[p[1]]
  PROVE  BindInv'
<1> USE WorkLocked, Types
<1>1. BlocksInv'
  BY DEF BindInv, BlocksInv, In
<1>2. StepsInv'
  <2>1. \A u \in Threads : pc'[u] \notin WorkPcs => pc'[u] \notin {"pages", "putblock", "space",
           "write", "flush", "finish", "zap", "clear", "uflush", "putpages", "uflush2"} \cup UnbindPcs
    BY DEF WorkPcs, BindPcs, UnbindPcs
  <2>2. \A u \in Threads : pc[u] \in {"pages", "putblock"} => pc'[u] = pc[u] /\ obj'[u] = obj[u]
    BY DEF WorkPcs, BindPcs, UnbindPcs
  <2> QED BY <2>1, <2>2 DEF BindInv, StepsInv
<1>3. SlotsInv'
  BY DEF BindInv, SlotsInv, In
<1>4. \A o \in Objs : Visible(o)' => Visible(o)
  BY DEF Visible, Partial, WorkPcs
<1>5. VisibleInv'
  BY <1>4 DEF BindInv, VisibleInv, In, Entry
<1>6. LoopsInv'
  BY DEF BindInv, LoopsInv, In, Entry
<1>7. \A o \in Objs : Visible(o) => Visible(o)'
  BY DEF Visible
<1>8. UpteInv'
  BY <1>7 DEF BindInv, UpteInv, In, DeviceType
<1> QED BY <1>1, <1>2, <1>3, <1>5, <1>6, <1>8 DEF BindInv

LEMMA NextQuiet ==
  ASSUME Known, BindInv, NEW t \in Threads, NEW o \in Objs,
         \/ CloseHandle(t, o) \/ MapIoctl(t, o) \/ Mmap(t, o) \/ Munmap(t, o)
         \/ FbCreate(t, o) \/ FbCreateFails(t, o) \/ FbCreateHandle(t, o) \/ FbDestroy(t, o)
         \/ BeginFault(t, o) \/ BeginPin(t, o)
         \/ BeginUnpin(t, o) \/ FaultInterrupted(t) \/ CreateHandle(t) \/ CreateFails(t)
         \/ CreateDrop(t) \/ Unref(t) \/ Free(t) \/ Reap(t) \/ FreeBug(t) \/ UnpinBug(t)
         \/ BindSpaceFails(t) \/ UnpinKeep(t) \/ FinishPin(t)
  PROVE  BindInv'
<1> USE Types
<1>1. UNCHANGED <<size, space, offset, pages, gart, cache, faulted>>
  BY DEF CloseHandle, MapIoctl, Mmap, Munmap, FbCreate, FbCreateFails, FbCreateHandle,
         FbDestroy, BeginFault, BeginPin,
         BeginUnpin, FaultInterrupted, CreateHandle, CreateFails, CreateDrop, Unref, Free, Reap,
         FreeBug, UnpinBug, BindSpaceFails, UnpinKeep, FinishPin, Oops, lifeVars, bindVars, devVars
<1>2. upte' \subseteq upte /\ \A p \in upte' : vma'[p[1]]
  <2>1. CASE Munmap(t, o)
    BY <2>1 DEF Munmap, LifeType, BindInv, UpteInv, DeviceType
  <2>2. CASE ~ Munmap(t, o)
    <3>1. upte' = upte /\ (vma' = vma \/ vma' = [vma EXCEPT ![o] = TRUE])
      BY <2>2
      DEF CloseHandle, MapIoctl, Mmap, FbCreate, FbCreateFails, FbCreateHandle,
         FbDestroy, BeginFault, BeginPin,
         BeginUnpin, FaultInterrupted, CreateHandle, CreateFails, CreateDrop, Unref, Free, Reap,
         FreeBug, UnpinBug, BindSpaceFails, UnpinKeep, FinishPin, Oops, lifeVars
    <3> QED BY <3>1 DEF LifeType, BindInv, UpteInv, DeviceType
  <2> QED BY <2>1, <2>2
<1>3. \A q \in Objs : heap'[q] # "none" <=> heap[q] # "none"
  <2>1. CASE CreateFails(t) \/ Reap(t)
    <3>1. obj[t] \in Objs /\ heap[obj[t]] = "live"
      BY <2>1 DEF ThreadsOK, CreateFails, Reap, Known, LifeInv
    <3> QED BY <2>1, <3>1 DEF CreateFails, Reap, LifeType
  <2>2. CASE ~ (CreateFails(t) \/ Reap(t))
    BY <2>2
      DEF CloseHandle, MapIoctl, Mmap, Munmap, FbCreate, FbCreateFails, FbCreateHandle,
         FbDestroy, BeginFault, BeginPin,
         BeginUnpin, FaultInterrupted, CreateHandle, CreateDrop, Unref, Free,
         FreeBug, UnpinBug, BindSpaceFails, UnpinKeep, FinishPin, Oops, lifeVars
  <2> QED BY <2>1, <2>2
<1>4. \A u \in Threads \ {t} : pc'[u] = pc[u] /\ obj'[u] = obj[u] /\ cur'[u] = cur[u]
  BY DEF CloseHandle, MapIoctl, Mmap, Munmap, FbCreate, FbCreateFails, FbCreateHandle,
         FbDestroy, BeginFault, BeginPin,
         BeginUnpin, FaultInterrupted, CreateHandle, CreateFails, CreateDrop, Unref, Free, Reap,
         FreeBug, UnpinBug, BindSpaceFails, UnpinKeep, FinishPin, Oops, Start, Return, Goto,
         AfterUnpin, ThreadType, thrVars
<1>5. \/ pc'[t] \notin WorkPcs /\ pc[t] \notin WorkPcs \ {"space", "finish"}
      \/ pc'[t] = pc[t] /\ obj'[t] = obj[t] /\ cur'[t] = cur[t]
  BY DEF CloseHandle, MapIoctl, Mmap, Munmap, FbCreate, FbCreateFails, FbCreateHandle,
         FbDestroy, BeginFault, BeginPin,
         BeginUnpin, FaultInterrupted, CreateHandle, CreateFails, CreateDrop, Unref, Free, Reap,
         FreeBug, UnpinBug, BindSpaceFails, UnpinKeep, FinishPin, Oops, Start, Return, Goto,
         AfterUnpin, ThreadType, thrVars, WorkPcs, BindPcs, UnbindPcs
<1>6. ASSUME NEW u \in Threads, pc'[u] \in UnbindPcs PROVE pins'[obj[u]] = pins[obj[u]]
  <2>1. CASE UnpinKeep(t) \/ FinishPin(t)
    <3>1. mutex = t /\ pc'[t] \notin UnbindPcs
      <4>1. pc[t] \in Locked
        BY <2>1 DEF UnpinKeep, FinishPin, Locked, AcquirePcs, TeardownPcs
      <4> QED BY <2>1, <4>1, Alone DEF UnpinKeep, FinishPin, AfterUnpin, Return, Goto, Known,
                UnbindPcs, ThreadType
    <3>2. u # t /\ pc[u] \in Locked
      BY <1>4, <1>6, <3>1, WorkLocked
    <3> QED BY <3>1, <3>2, Alone DEF Known
  <2>2. CASE ~ (UnpinKeep(t) \/ FinishPin(t))
    BY <2>2
      DEF CloseHandle, MapIoctl, Mmap, Munmap, FbCreate, FbCreateFails, FbCreateHandle,
         FbDestroy, BeginFault, BeginPin,
         BeginUnpin, FaultInterrupted, CreateHandle, CreateFails, CreateDrop, Unref, Free, Reap,
         FreeBug, UnpinBug, BindSpaceFails, Oops, bindVars
  <2> QED BY <2>1, <2>2
<1> QED BY <1>1, <1>2, <1>3, <1>4, <1>5, <1>6, QuietSteps

\* A new object has no block yet.
LEMMA NextCreate ==
  ASSUME Known, BindInv, NEW t \in Threads, NEW o \in Objs, NEW n \in Sizes, CreateAlloc(t, o, n)
  PROVE  BindInv'
<1> USE Types
<1>1. /\ UNCHANGED <<vma, pins, space, offset, pages, faulted, upte, gart, cache, cur>>
      /\ heap[o] = "none" /\ heap' = [heap EXCEPT ![o] = "live"]
      /\ size' = [size EXCEPT ![o] = n]
      /\ pc'[t] = "handle" /\ obj'[t] = o /\ pc[t] = "idle"
      /\ \A u \in Threads \ {t} : pc'[u] = pc[u] /\ obj'[u] = obj[u]
  BY DEF CreateAlloc, Start, Goto, ThreadType, bindVars, devVars
<1>2. space[o] = None /\ n # 0 /\ n \in Nat /\ \A u \in Threads : obj[u] # o
  BY <1>1, GemAssumption DEF BindInv, BlocksInv, Known, RefsInv, NewObjects
<1>3. \A p \in Objs : \A s : In(p, s)' <=> In(p, s)
  BY <1>1, <1>2 DEF In, LifeType
<1>4. BlocksInv'
  <2>1. \A p \in Objs : p # o => size'[p] = size[p] /\ heap'[p] = heap[p]
    BY <1>1 DEF LifeType
  <2>2. size'[o] # 0 /\ space'[o] = None
    BY <1>1, <1>2 DEF LifeType
  <2> QED BY <1>1, <1>2, <1>3, <2>1, <2>2 DEF BindInv, BlocksInv
<1>5. \A u \in Threads : pc'[u] \in WorkPcs \/ pc[u] \in WorkPcs =>
        u # t /\ pc'[u] = pc[u] /\ obj'[u] = obj[u] /\ obj[u] \in Objs /\ size'[obj[u]] = size[obj[u]]
  BY <1>1, <1>2 DEF WorkPcs, BindPcs, UnbindPcs, ThreadsOK, LifeType
<1>6. StepsInv'
  <2>1. \A u \in Threads : pc'[u] \notin WorkPcs => pc'[u] \notin {"pages", "putblock", "space",
           "write", "flush", "finish", "zap", "clear", "uflush", "putpages", "uflush2"} \cup UnbindPcs
    BY DEF WorkPcs, BindPcs, UnbindPcs
  <2>2. \A u \in Threads : pc[u] \in {"pages", "putblock"} => pc'[u] = pc[u] /\ obj'[u] = obj[u]
    BY <1>5 DEF WorkPcs, BindPcs, UnbindPcs
  <2> QED BY <2>1, <2>2, <1>1, <1>5 DEF BindInv, StepsInv
<1>7. SlotsInv'
  BY <1>1, <1>3 DEF BindInv, SlotsInv
<1>8. \A p \in Objs : Visible(p)' <=> Visible(p)
  BY <1>1, <1>5, WorkLocked DEF Visible
<1>9. VisibleInv'
  BY <1>1, <1>3, <1>8 DEF BindInv, VisibleInv, Entry
<1>10. LoopsInv'
  BY <1>1, <1>3, <1>5, WorkLocked DEF BindInv, LoopsInv, Entry
<1>11. UpteInv'
  BY <1>1, <1>3, <1>8 DEF BindInv, UpteInv, DeviceType
<1> QED BY <1>4, <1>6, <1>7, <1>9, <1>10, <1>11 DEF BindInv

\* The owner of the mutex finds an object bound or not, never half bound.
LEMMA NextEnter ==
  ASSUME Known, BindInv, NEW t \in Threads, Lock(t)
  PROVE  BindInv'
<1> USE Types
<1>1. /\ UNCHANGED <<heap, size, vma, pins, space, offset, pages, faulted, upte, gart, cache>>
      /\ UNCHANGED <<cur, obj>> /\ pc[t] = "wait" /\ mutex = NoThread
      /\ pc'[t] = FirstLabel(t) /\ \A u \in Threads \ {t} : pc'[u] = pc[u]
      /\ obj[t] \in Objs
  BY DEF Lock, Goto, ThreadType, ThreadsOK, lifeVars, bindVars, devVars
<1>2. \A u \in Threads : pc[u] \notin Locked
  BY <1>1, Alone DEF Known
<1>3. \A u \in Threads \ {t} : pc'[u] \notin WorkPcs
  BY <1>1, <1>2, WorkLocked
<1>4. /\ pc'[t] = "space" => space[obj[t]] = None
      /\ pc'[t] = "finish" => space[obj[t]] # None
      /\ pc'[t] \in WorkPcs => pc'[t] \in {"space", "finish"}
  BY <1>1 DEF FirstLabel, ThreadsOK, WorkPcs, BindPcs, UnbindPcs
<1>5. \A o \in Objs : pages[o] <=> space[o] # None
  BY <1>2, WorkLocked DEF BindInv, StepsInv, WorkPcs, BindPcs, UnbindPcs, BindType
<1>6. BlocksInv' /\ SlotsInv'
  BY <1>1 DEF BindInv, BlocksInv, SlotsInv, In
<1>7. StepsInv'
  BY <1>1, <1>3, <1>4, <1>5 DEF StepsInv, WorkPcs, BindPcs, UnbindPcs
<1>8. \A o \in Objs : Visible(o)' <=> Visible(o)
  BY <1>1, <1>2, <1>3, <1>4, WorkLocked DEF Visible, Partial
<1>9. VisibleInv' /\ UpteInv'
  BY <1>1, <1>8 DEF BindInv, VisibleInv, UpteInv, In, Entry, DeviceType
<1>10. LoopsInv'
  BY <1>3, <1>4, WorkLocked DEF LoopsInv, Partial
<1> QED BY <1>6, <1>7, <1>9, <1>10 DEF BindInv

\* The device reads an entry at any moment.
LEMMA NextFetch ==
  ASSUME Known, BindInv, NEW z \in Slots, DeviceFetch(z)
  PROVE  BindInv'
<1> USE Types
<1>1. /\ UNCHANGED <<heap, size, vma, pins, space, offset, pages, faulted, upte, gart>>
      /\ UNCHANGED <<cur, obj, pc>> /\ \A s \in Slots : cache'[s] \in {cache[s], gart[s]}
  BY DEF DeviceFetch, DeviceType, lifeVars, bindVars, thrVars
<1>2. BlocksInv' /\ StepsInv' /\ UpteInv'
  BY <1>1 DEF BindInv, BlocksInv, StepsInv, UpteInv, Visible, In
<1>3. SlotsInv'
  BY <1>1 DEF BindInv, SlotsInv, In
<1>4. VisibleInv'
  BY <1>1 DEF BindInv, VisibleInv, Visible, In, Entry
<1>5. LoopsInv'
  BY <1>1 DEF BindInv, LoopsInv, In, Entry
<1> QED BY <1>2, <1>3, <1>4, <1>5 DEF BindInv

-----------------------------------------------------------------------------
(* The steps of bind and unbind.  One thread t is inside, with object      *)
(* obj[t]; every other object is bound with all its entries, or not at all.*)

Inside(t) ==
  /\ obj[t] \in Objs /\ heap[obj[t]] = "live"
  /\ \A u \in Threads \ {t} : pc[u] \notin WorkPcs
  /\ \A o \in Objs : o # obj[t] => (pages[o] <=> space[o] # None)
  /\ pc[t] \notin {"pages", "putblock"} => (pages[obj[t]] <=> space[obj[t]] # None)

LEMMA InsideHolds ==
  ASSUME Known, BindInv, NEW t \in Threads, pc[t] \in Locked
  PROVE  Inside(t)
<1> USE Types
<1>1. \A u \in Threads \ {t} : pc[u] \notin WorkPcs
  BY Alone, WorkLocked DEF Known
<1>2. obj[t] \in Objs /\ heap[obj[t]] = "live"
  BY DEF ThreadsOK, Known, LifeInv, Locked, AcquirePcs, TeardownPcs, BindPcs, UnbindPcs
<1>3. \A u \in Threads : pc[u] \in {"pages", "putblock"} => u = t
  BY <1>1 DEF WorkPcs, BindPcs, UnbindPcs
<1> QED BY <1>1, <1>2, <1>3 DEF Inside, BindInv, StepsInv, BindType

\* Which objects are visible after a step that takes t to label l.
LEMMA VisibleAfter ==
  ASSUME Known, BindInv, NEW t \in Threads, Inside(t), UNCHANGED obj,
         \A u \in Threads \ {t} : pc'[u] = pc[u]
  PROVE  /\ \A o \in Objs : o # obj[t] => (Visible(o) <=> pages[o]) /\ (Visible(o)' <=> pages'[o])
         /\ Visible(obj[t])' <=> pages'[obj[t]] /\ pc'[t] \notin Partial
         /\ Visible(obj[t]) <=> pages[obj[t]] /\ pc[t] \notin Partial
         /\ \A u \in Threads \ {t} : pc'[u] \notin WorkPcs
BY WorkLocked, Types DEF Visible, Inside

LEMMA NextBindSpace ==
  ASSUME Known, BindInv, NEW t \in Threads, BindSpace(t)
  PROVE  BindInv'
<1> USE Types
<1> DEFINE o == obj[t]
<1>a. Inside(t)
  BY InsideHolds DEF BindSpace, Locked, AcquirePcs
<1>1. PICK z \in HoleStarts(size[o]) :
        space' = [space EXCEPT ![o] = z] /\ offset' = [offset EXCEPT ![o] = z]
  BY DEF BindSpace
<1>2. /\ UNCHANGED <<heap, size, vma, pins, pages, faulted, upte, gart, cache, cur, obj>>
      /\ pc[t] = "space" /\ pc'[t] = "pages" /\ \A u \in Threads \ {t} : pc'[u] = pc[u]
  BY DEF BindSpace, Goto, ThreadType, lifeVars, devVars
<1>3. space'[o] = z /\ offset'[o] = z /\ o \in Objs
      /\ \A p \in Objs : p # o => space'[p] = space[p] /\ offset'[p] = offset[p]
  BY <1>1, <1>a DEF BindType, Inside
<1>4. space[o] = None /\ ~ pages[o] /\ size[o] \in Nat /\ size[o] # 0
  BY <1>2, <1>a DEF BindInv, StepsInv, BlocksInv, LifeType, Inside
<1>5. z \in Slots /\ z # None /\ z .. z + size[o] - 1 \subseteq Slots \ Used
  BY <1>1 DEF HoleStarts
<1>6. \A p \in Objs, x \in Slots : In(p, x) => x \in Used
  <2>1. ASSUME NEW p \in Objs, NEW x \in Slots, In(p, x) PROVE x \in Used
    <3>1. space[p] \in Int /\ size[p] \in Nat /\ x \in Int /\ space[p] # None
      BY <2>1 DEF In, BindType, LifeType
    <3>2. x - space[p] \in 0 .. size[p] - 1 /\ x = space[p] + (x - space[p])
      BY <2>1, <3>1 DEF In
    <3>3. x \in Extent(p)
      BY <3>2 DEF Extent
    <3> QED BY <3>1, <3>3 DEF Used
  <2> QED BY <2>1
<1>7. \A p \in Objs : \A x : In(p, x)' <=> IF p = o THEN x \in z .. z + size[o] - 1 ELSE In(p, x)
  BY <1>2, <1>3, <1>5 DEF In
<1>8. BlocksInv'
  <2>1. z + size[o] <= AperPages
    <3>1. z + size[o] - 1 \in Slots
      BY <1>4, <1>5 DEF Slots
    <3> QED BY <3>1, <1>4, <1>5, GemAssumption DEF Slots
  <2>2. ASSUME NEW p \in Objs, NEW q \in Objs, NEW x \in Slots, In(p, x)', In(q, x)'
        PROVE  p = q
    <3>1. CASE p # o /\ q # o
      BY <3>1, <2>2, <1>7 DEF BindInv, BlocksInv
    <3>2. ASSUME NEW r \in Objs, r # o, In(r, x)' PROVE x \notin z .. z + size[o] - 1
      BY <3>2, <1>5, <1>6, <1>7
    <3> QED BY <3>1, <3>2, <2>2, <1>7
  <2>3. heap[o] # "none"
    BY <1>a DEF Inside
  <2> QED BY <2>1, <2>2, <2>3, <1>2, <1>3 DEF BindInv, BlocksInv
<1>b. /\ \A p \in Objs : p # o => (Visible(p) <=> pages[p]) /\ (Visible(p)' <=> pages[p])
      /\ ~ Visible(o)' /\ ~ Visible(o)
      /\ \A u \in Threads \ {t} : pc'[u] \notin WorkPcs
  BY <1>2, <1>4, <1>a, VisibleAfter
<1>9. StepsInv'
  BY <1>2, <1>3, <1>4, <1>5, <1>a, <1>b DEF BindInv, StepsInv, WorkPcs, BindPcs, UnbindPcs, Inside
<1>10. SlotsInv'
  BY <1>2, <1>3, <1>4, <1>7 DEF BindInv, SlotsInv
<1>11. VisibleInv'
  BY <1>2, <1>3, <1>7, <1>b DEF BindInv, VisibleInv, Entry
<1>12. LoopsInv'
  BY <1>2, <1>b, WorkLocked DEF LoopsInv, Partial
<1>13. UpteInv'
  BY <1>2, <1>3, <1>7, <1>b DEF BindInv, UpteInv, DeviceType
<1> QED BY <1>8, <1>9, <1>10, <1>11, <1>12, <1>13 DEF BindInv

\* Steps that move no block.
LEMMA BlocksKept ==
  ASSUME BindInv, UNCHANGED <<heap, size, space, offset>>
  PROVE  BlocksInv' /\ \A p \in Objs : \A x : In(p, x)' <=> In(p, x)
BY DEF BindInv, BlocksInv, In

LEMMA SlotsFlushed ==
  ASSUME BindInv, UNCHANGED <<size, space, pages, gart>>, \A s \in Slots : cache'[s] = Empty
  PROVE  SlotsInv'
<1>1. ASSUME NEW s \in Slots, NEW p \in Objs, NEW k \in Nat, <<p, k>> \in {gart[s], Empty}
      PROVE  pages[p] /\ In(p, s) /\ k = s - space[p]
  <2>1. <<p, k>> = gart[s]
    BY <1>1, NotEmpty
  <2> QED BY <2>1 DEF BindInv, SlotsInv
<1> QED BY <1>1 DEF SlotsInv, In

LEMMA NextBindPages ==
  ASSUME Known, BindInv, NEW t \in Threads, BindPages(t)
  PROVE  BindInv'
<1> USE Types
<1> DEFINE o == obj[t]
<1>a. Inside(t)
  BY InsideHolds DEF BindPages, Locked, AcquirePcs, BindPcs
<1>1. /\ UNCHANGED <<heap, size, vma, pins, space, offset, faulted, upte, gart, cache, obj>>
      /\ pc[t] = "pages" /\ pc'[t] = "write" /\ \A u \in Threads \ {t} : pc'[u] = pc[u]
      /\ cur'[t] = 0 /\ pages'[o] = TRUE /\ \A p \in Objs : p # o => pages'[p] = pages[p]
  BY <1>a DEF BindPages, Goto, ThreadType, BindType, Inside, lifeVars, devVars
<1>2. space[o] # None /\ ~ pages[o] /\ size[o] \in Nat /\ size[o] # 0 /\ o \in Objs
  BY <1>1, <1>a DEF BindInv, StepsInv, BlocksInv, LifeType, Inside
<1>3. BlocksInv' /\ \A p \in Objs : \A x : In(p, x)' <=> In(p, x)
  BY <1>1, BlocksKept
<1>4. /\ \A p \in Objs : (Visible(p) <=> p # o /\ pages[p]) /\ (Visible(p)' <=> p # o /\ pages[p])
      /\ \A u \in Threads \ {t} : pc'[u] \notin WorkPcs
  BY <1>1, <1>2, <1>a, VisibleAfter DEF Partial
<1>5. StepsInv'
  BY <1>1, <1>2, <1>a, <1>4 DEF BindInv, StepsInv, WorkPcs, BindPcs, UnbindPcs, Inside
<1>6. SlotsInv'
  BY <1>1, <1>2, <1>3 DEF BindInv, SlotsInv
<1>7. VisibleInv'
  BY <1>1, <1>3, <1>4 DEF BindInv, VisibleInv, Entry
<1>8. LoopsInv'
  <2>1. space[o] \in Int
    BY <1>2 DEF BindType
  <2>2. ASSUME NEW s \in Slots, In(o, s) PROVE ~ (s - space[o] < 0)
    BY <2>1, <2>2, <1>2 DEF In
  <2> QED BY <1>1, <1>2, <1>3, <1>4, <2>2, WorkLocked DEF LoopsInv
<1>9. UpteInv'
  BY <1>1, <1>3, <1>4 DEF BindInv, UpteInv, DeviceType
<1> QED BY <1>3, <1>5, <1>6, <1>7, <1>8, <1>9 DEF BindInv

\* A block that stays without pages is given back.
LEMMA NextGiveBack ==
  ASSUME Known, BindInv, NEW t \in Threads, BindPagesFails(t) \/ UnbindPutBlock(t)
  PROVE  BindInv'
<1> USE Types
<1> DEFINE o == obj[t]
<1>a. Inside(t)
  BY InsideHolds DEF BindPagesFails, UnbindPutBlock, Locked, AcquirePcs, BindPcs, TeardownPcs,
                     UnbindPcs
<1>1. /\ UNCHANGED <<heap, size, vma, pins, pages, faulted, upte, gart, cache>>
      /\ pc[t] \in {"pages", "putblock"}
      /\ \A u \in Threads \ {t} : pc'[u] = pc[u] /\ obj'[u] = obj[u]
      /\ o \in Objs /\ space'[o] = None
      /\ \A p \in Objs : p # o => space'[p] = space[p] /\ offset'[p] = offset[p]
  BY <1>a DEF BindPagesFails, UnbindPutBlock, SpaceAfterFailure, Return, Goto, ThreadType, BindType,
              Inside, lifeVars, devVars
<1>2. pc'[t] = "idle" \/ (pc'[t] = "uflush2" /\ obj'[t] = o /\ pins[o] = 0)
  BY <1>1, <1>a DEF BindPagesFails, UnbindPutBlock, Return, Goto, ThreadType, BindInv, StepsInv,
                    UnbindPcs
<1>3. ~ pages[o] /\ o # None
  BY <1>1, <1>a DEF BindInv, StepsInv, Inside, BindType
<1>4. \A p \in Objs : \A x : In(p, x)' <=> p # o /\ In(p, x)
  BY <1>1 DEF In
<1>5. BlocksInv'
  BY <1>1, <1>4 DEF BindInv, BlocksInv
<1>6. /\ \A p \in Objs : (Visible(p) <=> pages[p]) /\ (Visible(p)' <=> pages[p])
      /\ \A u \in Threads \ {t} : pc'[u] \notin WorkPcs
  BY <1>1, <1>2, <1>3, <1>a, WorkLocked DEF Visible, Inside, Partial
<1>7. StepsInv'
  BY <1>1, <1>2, <1>3, <1>6, <1>a DEF BindInv, StepsInv, WorkPcs, BindPcs, UnbindPcs, Inside
<1>8. SlotsInv'
  BY <1>1, <1>3, <1>4 DEF BindInv, SlotsInv
<1>9. VisibleInv'
  BY <1>1, <1>4, <1>6 DEF BindInv, VisibleInv, Entry
<1>10. LoopsInv'
  BY <1>2, <1>6, WorkLocked DEF LoopsInv, Partial
<1>11. UpteInv'
  BY <1>1, <1>3, <1>4, <1>6 DEF BindInv, UpteInv, DeviceType
<1> QED BY <1>5, <1>7, <1>8, <1>9, <1>10, <1>11 DEF BindInv

LEMMA NextBindWrite ==
  ASSUME Known, BindInv, NEW t \in Threads, BindWrite(t)
  PROVE  BindInv'
<1> USE Types
<1> DEFINE o == obj[t]
           z == space[o] + cur[t]
<1>a. Inside(t)
  BY InsideHolds DEF BindWrite, Locked, AcquirePcs, BindPcs
<1>1. /\ UNCHANGED <<heap, size, vma, pins, space, offset, pages, faulted, upte, cache, obj>>
      /\ pc[t] = "write" /\ pc'[t] = (IF cur[t] + 1 = size[o] THEN "flush" ELSE "write")
      /\ \A u \in Threads \ {t} : pc'[u] = pc[u]
      /\ cur'[t] = cur[t] + 1 /\ cur[t] \in Nat /\ o \in Objs
  BY <1>a DEF BindWrite, Goto, ThreadType, Inside, lifeVars, bindVars
<1>2. /\ space[o] # None /\ offset[o] = space[o] /\ space[o] \in Slots /\ pages[o]
      /\ size[o] \in Nat /\ cur[t] < size[o] /\ space[o] + size[o] <= AperPages
  BY <1>1, <1>a DEF BindInv, StepsInv, BlocksInv, LifeType, BindType, Inside
<1>3. z \in Slots /\ In(o, z) /\ z - space[o] = cur[t]
  BY <1>1, <1>2, GemAssumption DEF In, Slots
<1>4. gart'[z] = <<o, cur[t]>> /\ \A s \in Slots : s # z => gart'[s] = gart[s]
  BY <1>2, <1>3 DEF BindWrite, EntryWritten, DeviceType
<1>5. BlocksInv' /\ \A p \in Objs : \A x : In(p, x)' <=> In(p, x)
  BY <1>1, BlocksKept
<1>6. /\ \A p \in Objs : (Visible(p) <=> p # o /\ pages[p]) /\ (Visible(p)' <=> p # o /\ pages[p])
      /\ \A u \in Threads \ {t} : pc'[u] \notin WorkPcs
  BY <1>1, <1>a, VisibleAfter DEF Partial
<1>7. \A p \in Objs : p # o => ~ In(p, z)
  BY <1>1, <1>3 DEF BindInv, BlocksInv
<1>8. StepsInv'
  BY <1>1, <1>2, <1>a, <1>6 DEF BindInv, StepsInv, WorkPcs, BindPcs, UnbindPcs, Inside
<1>9. SlotsInv'
  <2>1. ASSUME NEW s \in Slots, NEW p \in Objs, NEW k \in Nat, <<p, k>> \in {gart'[s], cache[s]}
        PROVE  pages[p] /\ In(p, s) /\ k = s - space[p]
    <3>1. CASE <<p, k>> \in {gart[s], cache[s]}
      BY <3>1 DEF BindInv, SlotsInv
    <3>2. CASE s = z /\ <<p, k>> = <<o, cur[t]>>
      BY <3>2, <1>2, <1>3
    <3> QED BY <2>1, <3>1, <3>2, <1>4
  <2> QED BY <2>1, <1>1, <1>5 DEF SlotsInv
<1>10. VisibleInv'
  BY <1>1, <1>4, <1>5, <1>6, <1>7 DEF BindInv, VisibleInv, Entry
<1>11. LoopsInv'
  <2>1. ASSUME NEW s \in Slots, In(o, s), s - space[o] < cur[t] + 1 \/ cur[t] + 1 = size[o]
        PROVE  gart'[s] = <<o, s - space[o]>>
    <3>1. s = z \/ s - space[o] < cur[t]
      BY <2>1, <1>1, <1>2 DEF In, Slots
    <3> QED BY <2>1, <3>1, <1>1, <1>3, <1>4 DEF BindInv, LoopsInv, Entry, Partial
  <2> QED BY <2>1, <1>1, <1>5, <1>6, WorkLocked DEF LoopsInv, Entry
<1>12. UpteInv'
  BY <1>1, <1>5, <1>6 DEF BindInv, UpteInv, DeviceType
<1> QED BY <1>5, <1>8, <1>9, <1>10, <1>11, <1>12 DEF BindInv

LEMMA NextBindFlush ==
  ASSUME Known, BindInv, NEW t \in Threads, BindFlush(t)
  PROVE  BindInv'
<1> USE Types
<1> DEFINE o == obj[t]
<1>a. Inside(t)
  BY InsideHolds DEF BindFlush, Locked, AcquirePcs, BindPcs
<1>1. /\ UNCHANGED <<heap, size, vma, pins, space, offset, pages, faulted, upte, gart, obj>>
      /\ pc[t] = "flush" /\ pc'[t] = "finish" /\ \A u \in Threads \ {t} : pc'[u] = pc[u]
      /\ o \in Objs /\ \A s \in Slots : cache'[s] = Empty
  BY <1>a DEF BindFlush, Flushed, Goto, ThreadType, Inside, lifeVars, bindVars
<1>2. pages[o]
  BY <1>1 DEF BindInv, StepsInv
<1>3. BlocksInv' /\ \A p \in Objs : \A x : In(p, x)' <=> In(p, x)
  BY <1>1, BlocksKept
<1>4. /\ \A p \in Objs : (Visible(p) <=> p # o /\ pages[p]) /\ (Visible(p)' <=> pages[p])
      /\ \A u \in Threads \ {t} : pc'[u] \notin WorkPcs
  BY <1>1, <1>2, <1>a, VisibleAfter DEF Partial
<1>5. StepsInv'
  BY <1>1, <1>2, <1>a, <1>4 DEF BindInv, StepsInv, WorkPcs, BindPcs, UnbindPcs, Inside
<1>6. SlotsInv'
  BY <1>1, SlotsFlushed
<1>7. VisibleInv'
  BY <1>1, <1>3, <1>4 DEF BindInv, VisibleInv, LoopsInv, Entry, Partial
<1>8. LoopsInv'
  BY <1>1, <1>4, WorkLocked DEF LoopsInv, Partial
<1>9. UpteInv'
  BY <1>1, <1>3, <1>4 DEF BindInv, UpteInv, DeviceType
<1> QED BY <1>3, <1>5, <1>6, <1>7, <1>8, <1>9 DEF BindInv

LEMMA NextFinishFault ==
  ASSUME Known, BindInv, NEW t \in Threads, NEW o \in Objs, NEW k \in 0 .. size[o] - 1,
         obj[t] = o, FinishFault(t, k)
  PROVE  BindInv'
<1> USE Types
<1>a. Inside(t)
  BY InsideHolds DEF FinishFault, Locked, AcquirePcs
<1>1. /\ UNCHANGED <<heap, size, vma, pins, space, offset, pages, gart, cache>>
      /\ pc[t] = "finish" /\ pc'[t] = "idle" /\ job[t] = "fault"
      /\ \A u \in Threads \ {t} : pc'[u] = pc[u] /\ obj'[u] = obj[u]
      /\ faulted'[o] = TRUE /\ \A p \in Objs : p # o => faulted'[p] = faulted[p]
      /\ upte' \subseteq upte \cup {<<o, k, offset[o] + k>>}
  BY DEF FinishFault, Return, Goto, ThreadType, BindType, lifeVars, devVars
<1>2. /\ pages[o] /\ space[o] # None /\ offset[o] = space[o] /\ vma[o]
      /\ space[o] \in Slots /\ size[o] \in Nat
  BY <1>1, <1>a DEF BindInv, StepsInv, BlocksInv, LifeType, BindType, Inside, Known, LifeInv
<1>3. BlocksInv' /\ \A p \in Objs : \A x : In(p, x)' <=> In(p, x)
  BY <1>1, BlocksKept
<1>4. /\ \A p \in Objs : (Visible(p) <=> pages[p]) /\ (Visible(p)' <=> pages[p])
      /\ \A u \in Threads \ {t} : pc'[u] \notin WorkPcs
  BY <1>1, <1>a, WorkLocked DEF Visible, Inside, Partial
<1>5. StepsInv'
  BY <1>1, <1>2, <1>a, <1>4 DEF BindInv, StepsInv, WorkPcs, BindPcs, UnbindPcs, Inside
<1>6. SlotsInv' /\ VisibleInv'
  BY <1>1, <1>3, <1>4 DEF BindInv, SlotsInv, VisibleInv, Entry
<1>7. LoopsInv'
  BY <1>1, <1>4, WorkLocked DEF LoopsInv, Partial
<1>8. UpteInv'
  <2>1. ASSUME NEW p \in upte
        PROVE  /\ vma[p[1]] /\ faulted'[p[1]] /\ pages[p[1]] /\ In(p[1], p[3])
               /\ p[2] = p[3] - space[p[1]]
    BY <1>1, <1>4 DEF BindInv, UpteInv, DeviceType
  <2>2. In(o, space[o] + k) /\ k = (space[o] + k) - space[o]
    BY <1>2 DEF In
  <2>3. \A p \in upte' : p \in upte \/ (p[1] = o /\ p[2] = k /\ p[3] = space[o] + k)
    BY <1>1, <1>2
  <2>4. \A p \in upte' : p[1] \in Objs
    BY <2>3 DEF DeviceType
  <2>5. ASSUME NEW p \in upte'
        PROVE  /\ vma[p[1]] /\ faulted'[p[1]] /\ pages[p[1]] /\ In(p[1], p[3])
               /\ p[2] = p[3] - space[p[1]]
    BY <2>1, <2>2, <2>3, <1>1, <1>2
  <2> QED BY <2>4, <2>5, <1>1, <1>3, <1>4 DEF UpteInv
<1> QED BY <1>3, <1>5, <1>6, <1>7, <1>8 DEF BindInv

LEMMA NextUnpinLast ==
  ASSUME Known, BindInv, NEW t \in Threads, UnpinLast(t)
  PROVE  BindInv'
<1> USE Types
<1> DEFINE o == obj[t]
<1>a. Inside(t)
  BY InsideHolds DEF UnpinLast, Locked, TeardownPcs
<1>1. /\ UNCHANGED <<heap, size, vma, space, offset, pages, faulted, upte, gart, cache, obj>>
      /\ pc[t] = "unpin" /\ pc'[t] = "zap" /\ \A u \in Threads \ {t} : pc'[u] = pc[u]
      /\ o \in Objs /\ pins'[o] = 0 /\ space[o] # None
  BY <1>a DEF UnpinLast, LastPin, Goto, ThreadType, BindType, Inside, lifeVars, devVars
<1>2. pages[o]
  BY <1>1, <1>a DEF Inside
<1>3. BlocksInv' /\ \A p \in Objs : \A x : In(p, x)' <=> In(p, x)
  BY <1>1, BlocksKept
<1>4. /\ \A p \in Objs : (Visible(p) <=> pages[p]) /\ (Visible(p)' <=> pages[p])
      /\ \A u \in Threads \ {t} : pc'[u] \notin WorkPcs
  BY <1>1, <1>a, VisibleAfter DEF Partial
<1>5. StepsInv'
  BY <1>1, <1>2, <1>a, <1>4 DEF BindInv, StepsInv, WorkPcs, BindPcs, UnbindPcs, Inside
<1>6. SlotsInv' /\ VisibleInv'
  BY <1>1, <1>3, <1>4 DEF BindInv, SlotsInv, VisibleInv, Entry
<1>7. LoopsInv'
  BY <1>1, <1>4, WorkLocked DEF LoopsInv, Partial
<1>8. UpteInv'
  BY <1>1, <1>3, <1>4 DEF BindInv, UpteInv, DeviceType
<1> QED BY <1>3, <1>5, <1>6, <1>7, <1>8 DEF BindInv

\* The user's page tables forget the object before its entries go.
LEMMA NextUnbindZap ==
  ASSUME Known, BindInv, NEW t \in Threads, UnbindZap(t)
  PROVE  BindInv'
<1> USE Types
<1> DEFINE o == obj[t]
<1>a. Inside(t)
  BY InsideHolds DEF UnbindZap, Locked, TeardownPcs, UnbindPcs
<1>1. /\ UNCHANGED <<heap, size, vma, pins, space, offset, pages, gart, cache, obj>>
      /\ pc[t] = "zap" /\ pc'[t] = "clear" /\ \A u \in Threads \ {t} : pc'[u] = pc[u]
      /\ cur'[t] = 0 /\ o \in Objs
      /\ \A p \in Objs : p # o => faulted'[p] = faulted[p]
      /\ upte' = IF faulted[o] THEN {p \in upte : p[1] # o} ELSE upte
  BY <1>a DEF UnbindZap, Unmapped, Goto, ThreadType, BindType, Inside, lifeVars, devVars
<1>2. /\ pages[o] /\ space[o] # None /\ space[o] \in Int /\ pins[o] = 0
      /\ size[o] \in Nat /\ size[o] # 0
  BY <1>1, <1>a DEF BindInv, StepsInv, BlocksInv, LifeType, BindType, Inside, UnbindPcs, Slots
<1>3. BlocksInv' /\ \A p \in Objs : \A x : In(p, x)' <=> In(p, x)
  BY <1>1, BlocksKept
<1>4. /\ \A p \in Objs : (Visible(p) <=> pages[p]) /\ (Visible(p)' <=> p # o /\ pages[p])
      /\ \A u \in Threads \ {t} : pc'[u] \notin WorkPcs
  BY <1>1, <1>a, VisibleAfter DEF Partial
<1>5. StepsInv'
  BY <1>1, <1>2, <1>a, <1>4 DEF BindInv, StepsInv, WorkPcs, BindPcs, UnbindPcs, Inside
<1>6. SlotsInv' /\ VisibleInv'
  BY <1>1, <1>3, <1>4 DEF BindInv, SlotsInv, VisibleInv, Entry
<1>7. LoopsInv'
  <2>1. ASSUME NEW s \in Slots, In(o, s) PROVE ~ (s - space[o] < 0)
    BY <2>1, <1>2 DEF In
  <2> QED BY <2>1, <1>1, <1>3, <1>4, WorkLocked DEF LoopsInv
<1>8. UpteInv'
  <2>1. \A p \in upte' : p \in upte /\ p[1] # o
    BY <1>1 DEF BindInv, UpteInv
  <2> QED BY <2>1, <1>1, <1>3, <1>4 DEF BindInv, UpteInv, DeviceType
<1> QED BY <1>3, <1>5, <1>6, <1>7, <1>8 DEF BindInv

LEMMA NextUnbindClear ==
  ASSUME Known, BindInv, NEW t \in Threads, UnbindClear(t)
  PROVE  BindInv'
<1> USE Types
<1> DEFINE o == obj[t]
           z == space[o] + cur[t]
<1>a. Inside(t)
  BY InsideHolds DEF UnbindClear, Locked, TeardownPcs, UnbindPcs
<1>1. /\ UNCHANGED <<heap, size, vma, pins, space, offset, pages, faulted, upte, cache, obj>>
      /\ pc[t] = "clear" /\ pc'[t] = (IF cur[t] + 1 = size[o] THEN "uflush" ELSE "clear")
      /\ \A u \in Threads \ {t} : pc'[u] = pc[u]
      /\ cur'[t] = cur[t] + 1 /\ cur[t] \in Nat /\ o \in Objs
  BY <1>a DEF UnbindClear, Goto, ThreadType, Inside, lifeVars, bindVars
<1>2. /\ space[o] # None /\ offset[o] = space[o] /\ space[o] \in Slots /\ pages[o] /\ pins[o] = 0
      /\ size[o] \in Nat /\ cur[t] < size[o] /\ space[o] + size[o] <= AperPages
  BY <1>1, <1>a DEF BindInv, StepsInv, BlocksInv, LifeType, BindType, Inside, UnbindPcs
<1>3. z \in Slots /\ In(o, z) /\ z - space[o] = cur[t]
  BY <1>1, <1>2, GemAssumption DEF In, Slots
<1>4. gart'[z] = Invalid /\ \A s \in Slots : s # z => gart'[s] = gart[s]
  BY <1>2, <1>3 DEF UnbindClear, EntryCleared, DeviceType
<1>5. BlocksInv' /\ \A p \in Objs : \A x : In(p, x)' <=> In(p, x)
  BY <1>1, BlocksKept
<1>6. /\ \A p \in Objs : (Visible(p) <=> p # o /\ pages[p]) /\ (Visible(p)' <=> p # o /\ pages[p])
      /\ \A u \in Threads \ {t} : pc'[u] \notin WorkPcs
  BY <1>1, <1>a, VisibleAfter DEF Partial
<1>7. \A p \in Objs : p # o => ~ In(p, z)
  BY <1>1, <1>3 DEF BindInv, BlocksInv
<1>8. StepsInv'
  BY <1>1, <1>2, <1>a, <1>6 DEF BindInv, StepsInv, WorkPcs, BindPcs, UnbindPcs, Inside
<1>9. SlotsInv'
  <2>1. ASSUME NEW s \in Slots, NEW p \in Objs, NEW k \in Nat, <<p, k>> \in {gart'[s], cache[s]}
        PROVE  pages[p] /\ In(p, s) /\ k = s - space[p]
    <3>1. <<p, k>> \in {gart[s], cache[s]}
      BY <2>1, <1>4, NotEmpty
    <3> QED BY <3>1 DEF BindInv, SlotsInv
  <2> QED BY <2>1, <1>1, <1>5 DEF SlotsInv
<1>10. VisibleInv'
  BY <1>1, <1>4, <1>5, <1>6, <1>7 DEF BindInv, VisibleInv, Entry
<1>11. LoopsInv'
  <2>1. ASSUME NEW s \in Slots, In(o, s), s - space[o] < cur[t] + 1 \/ cur[t] + 1 = size[o]
        PROVE  gart'[s] = Invalid
    <3>1. s = z \/ s - space[o] < cur[t]
      BY <2>1, <1>1, <1>2 DEF In, Slots
    <3> QED BY <2>1, <3>1, <1>1, <1>3, <1>4 DEF BindInv, LoopsInv, Partial
  <2> QED BY <2>1, <1>1, <1>5, <1>6, WorkLocked DEF LoopsInv
<1>12. UpteInv'
  BY <1>1, <1>5, <1>6 DEF BindInv, UpteInv, DeviceType
<1> QED BY <1>5, <1>8, <1>9, <1>10, <1>11, <1>12 DEF BindInv

LEMMA NextUnbindFlush ==
  ASSUME Known, BindInv, NEW t \in Threads, UnbindFlush(t)
  PROVE  BindInv'
<1> USE Types
<1> DEFINE o == obj[t]
<1>a. Inside(t)
  BY InsideHolds DEF UnbindFlush, Locked, TeardownPcs, UnbindPcs
<1>1. /\ UNCHANGED <<heap, size, vma, pins, space, offset, pages, faulted, upte, gart, obj>>
      /\ pc[t] = "uflush" /\ pc'[t] = "putpages" /\ \A u \in Threads \ {t} : pc'[u] = pc[u]
      /\ o \in Objs /\ \A s \in Slots : cache'[s] = Empty
  BY <1>a DEF UnbindFlush, Flushed, Goto, ThreadType, Inside, lifeVars, bindVars
<1>2. pages[o] /\ pins[o] = 0
  BY <1>1 DEF BindInv, StepsInv, UnbindPcs
<1>3. BlocksInv' /\ \A p \in Objs : \A x : In(p, x)' <=> In(p, x)
  BY <1>1, BlocksKept
<1>4. /\ \A p \in Objs : (Visible(p) <=> p # o /\ pages[p]) /\ (Visible(p)' <=> p # o /\ pages[p])
      /\ \A u \in Threads \ {t} : pc'[u] \notin WorkPcs
  BY <1>1, <1>2, <1>a, VisibleAfter DEF Partial
<1>5. StepsInv'
  BY <1>1, <1>2, <1>a, <1>4 DEF BindInv, StepsInv, WorkPcs, BindPcs, UnbindPcs, Inside
<1>6. SlotsInv'
  BY <1>1, SlotsFlushed
<1>7. VisibleInv'
  BY <1>1, <1>3, <1>4 DEF BindInv, VisibleInv, Entry
<1>8. LoopsInv'
  BY <1>1, <1>3, <1>4, WorkLocked DEF BindInv, LoopsInv, Partial
<1>9. UpteInv'
  BY <1>1, <1>3, <1>4 DEF BindInv, UpteInv, DeviceType
<1> QED BY <1>3, <1>5, <1>6, <1>7, <1>8, <1>9 DEF BindInv

\* By then nothing leads to the pages: the entries are cleared, and what the
\* device cached of them since was that they are invalid.
LEMMA NextPutPages ==
  ASSUME Known, BindInv, NEW t \in Threads, UnbindPutPages(t)
  PROVE  BindInv'
<1> USE Types
<1> DEFINE o == obj[t]
<1>a. Inside(t)
  BY InsideHolds DEF UnbindPutPages, Locked, TeardownPcs, UnbindPcs
<1>1. /\ UNCHANGED <<heap, size, vma, pins, space, offset, faulted, upte, gart, cache, obj>>
      /\ pc[t] = "putpages" /\ pc'[t] = "putblock" /\ \A u \in Threads \ {t} : pc'[u] = pc[u]
      /\ o \in Objs /\ ~ pages'[o] /\ \A p \in Objs : p # o => pages'[p] = pages[p]
  BY <1>a DEF UnbindPutPages, Goto, ThreadType, BindType, Inside, lifeVars, devVars
<1>2. pages[o] /\ space[o] # None /\ pins[o] = 0
  BY <1>1, <1>a DEF BindInv, StepsInv, UnbindPcs, Inside
<1>3. BlocksInv' /\ \A p \in Objs : \A x : In(p, x)' <=> In(p, x)
  BY <1>1, BlocksKept
<1>4. /\ \A p \in Objs : (Visible(p) <=> p # o /\ pages[p]) /\ (Visible(p)' <=> p # o /\ pages[p])
      /\ \A u \in Threads \ {t} : pc'[u] \notin WorkPcs
  BY <1>1, <1>2, <1>a, VisibleAfter DEF Partial
<1>5. StepsInv'
  BY <1>1, <1>2, <1>a, <1>4 DEF BindInv, StepsInv, WorkPcs, BindPcs, UnbindPcs, Inside
<1>6. SlotsInv'
  <2>1. ASSUME NEW s \in Slots, NEW p \in Objs, NEW k \in Nat, <<p, k>> \in {gart[s], cache[s]}
        PROVE  p # o /\ pages[p] /\ In(p, s) /\ k = s - space[p]
    <3>1. pages[p] /\ In(p, s) /\ k = s - space[p]
      BY <2>1 DEF BindInv, SlotsInv
    <3>2. In(o, s) => gart[s] = Invalid /\ cache[s] \in {Empty, Invalid}
      BY <1>1 DEF BindInv, LoopsInv, Partial
    <3> QED BY <2>1, <3>1, <3>2, NotEmpty
  <2> QED BY <2>1, <1>1, <1>3 DEF SlotsInv
<1>7. VisibleInv'
  BY <1>1, <1>3, <1>4 DEF BindInv, VisibleInv, Entry
<1>8. LoopsInv'
  BY <1>1, <1>4, WorkLocked DEF LoopsInv, Partial
<1>9. UpteInv'
  BY <1>1, <1>3, <1>4 DEF BindInv, UpteInv, DeviceType
<1> QED BY <1>3, <1>5, <1>6, <1>7, <1>8, <1>9 DEF BindInv

LEMMA NextUnbindDone ==
  ASSUME Known, BindInv, NEW t \in Threads, UnbindDone(t)
  PROVE  BindInv'
<1> USE Types
<1> DEFINE o == obj[t]
<1>a. Inside(t)
  BY InsideHolds DEF UnbindDone, Locked, TeardownPcs, UnbindPcs
<1>1. /\ UNCHANGED <<heap, size, vma, pins, space, offset, pages, faulted, upte, gart>>
      /\ pc[t] = "uflush2" /\ pc'[t] \in {"idle", "reap"}
      /\ \A u \in Threads \ {t} : pc'[u] = pc[u] /\ obj'[u] = obj[u]
      /\ o \in Objs /\ \A s \in Slots : cache'[s] = Empty
  BY <1>a DEF UnbindDone, AfterUnpin, Return, Flushed, Goto, ThreadType, Inside, lifeVars, bindVars
<1>3. BlocksInv' /\ \A p \in Objs : \A x : In(p, x)' <=> In(p, x)
  BY <1>1, BlocksKept
<1>4. /\ \A p \in Objs : (Visible(p) <=> pages[p]) /\ (Visible(p)' <=> pages[p])
      /\ \A u \in Threads \ {t} : pc'[u] \notin WorkPcs
  BY <1>1, <1>a, WorkLocked DEF Visible, Inside, Partial
<1>5. StepsInv'
  BY <1>1, <1>a, <1>4 DEF BindInv, StepsInv, WorkPcs, BindPcs, UnbindPcs, Inside
<1>6. SlotsInv'
  BY <1>1, SlotsFlushed
<1>7. VisibleInv'
  BY <1>1, <1>3, <1>4 DEF BindInv, VisibleInv, Entry
<1>8. LoopsInv'
  BY <1>1, <1>4, WorkLocked DEF LoopsInv, Partial, WorkPcs
<1>9. UpteInv'
  BY <1>1, <1>3, <1>4 DEF BindInv, UpteInv, DeviceType
<1> QED BY <1>3, <1>5, <1>6, <1>7, <1>8, <1>9 DEF BindInv

-----------------------------------------------------------------------------
(* The invariant, and what follows from it.                                *)

\* A thread that takes a step has an object.
LEMMA HasObject ==
  ASSUME Known, NEW t \in Threads, Lock(t) \/ FaultInterrupted(t) \/ Run(t)
  PROVE  obj[t] \in Objs
BY Types
DEF ThreadsOK, Lock, Run, FaultInterrupted, CreateHandle, CreateFails, CreateDrop, BindSpace,
    BindSpaceFails, BindPages, BindPagesFails, BindWrite, BindFlush, FinishPin, FinishFault,
    UnpinBug, UnpinKeep, UnpinLast, UnbindZap, UnbindClear, UnbindFlush, UnbindPutPages,
    UnbindPutBlock, UnbindDone, Unref, FreeBug, Free, Reap

LEMMA NextBind ==
  ASSUME Known, BindInv, [Next]_vars
  PROVE  BindInv'
<1>1. CASE UNCHANGED vars
  <2>1. BlocksInv' /\ StepsInv' /\ SlotsInv'
    BY <1>1 DEF vars, lifeVars, bindVars, devVars, thrVars, BindInv, BlocksInv, StepsInv, SlotsInv, In
  <2>2. VisibleInv' /\ LoopsInv' /\ UpteInv'
    BY <1>1 DEF vars, lifeVars, bindVars, devVars, thrVars, BindInv, VisibleInv, LoopsInv, UpteInv,
                In, Visible, Entry
  <2> QED BY <2>1, <2>2 DEF BindInv
<1>2. ASSUME NEW t \in Threads, NEW o \in Objs,
             \/ CreateHandle(t) \/ CreateFails(t) \/ CreateDrop(t) \/ Unref(t) \/ Free(t)
             \/ Reap(t) \/ FreeBug(t) \/ UnpinBug(t) \/ BindSpaceFails(t) \/ UnpinKeep(t)
             \/ FinishPin(t) \/ FaultInterrupted(t)
      PROVE  BindInv'
  BY <1>2, NextQuiet
<1>4. ASSUME NEW t \in Threads, Request(t) PROVE BindInv'
  BY <1>4, NextCreate, NextQuiet DEF Request
<1>5. ASSUME NEW t \in Threads, Run(t) \/ FaultInterrupted(t) PROVE BindInv'
  <2>1. PICK o \in Objs : o = obj[t]
    BY <1>5, HasObject
  <2> QED
    BY <1>5, <2>1, <1>2, NextBindSpace, NextBindPages, NextGiveBack, NextBindWrite, NextBindFlush,
       NextFinishFault, NextUnpinLast, NextUnbindZap, NextUnbindClear, NextUnbindFlush, NextPutPages,
       NextUnbindDone
    DEF Run
<1> QED BY <1>1, <1>4, <1>5, NextEnter, NextFetch DEF Next

LEMMA BindInvariant ==
  ASSUME EarlyClose = FALSE
  PROVE  Spec => [](Known /\ BindInv)
<1>1. Init => Known
  <2>1. Init => LifeInv
    BY DEF Init, LifeInv, Unknown, TeardownPcs, UnbindPcs
  <2>2. Init => LockInv
    BY DEF Init, LockInv, Locked, AcquirePcs, TeardownPcs, BindPcs, UnbindPcs
  <2>3. Init => RefsInv
    BY InitType, GemAssumption DEF Init, RefsInv, NewObjects, Unknown, RefsAccounted
  <2> QED BY <2>1, <2>2, <2>3 DEF Known
<1>2. Init => BindInv
  <2> SUFFICES ASSUME Init PROVE BindInv
    OBVIOUS
  <2>1. BlocksInv /\ StepsInv /\ UpteInv
    BY DEF Init, BlocksInv, StepsInv, UpteInv, In, UnbindPcs
  <2>2. SlotsInv
    BY NotEmpty DEF Init, SlotsInv
  <2>3. VisibleInv /\ LoopsInv
    BY DEF Init, VisibleInv, LoopsInv, In, Partial
  <2> QED BY <2>1, <2>2, <2>3 DEF BindInv
<1>3. Known /\ BindInv /\ [Next]_vars => (Known /\ BindInv)'
  BY NextLifeType, NextBindType, NextDeviceType, NextThreads, NextNew, NextRefs, NextLock, NextLife,
     NextBind
  DEF Known, RefsInv, TypeInv, TypeOK
<1> QED BY <1>1, <1>2, <1>3, PTL DEF Spec

\* No handle, mapping, page table, framebuffer or running thread refers to an
\* object that xengfx_gem_free_object has freed, when clients wait for their
\* handles.
THEOREM NoUseAfterFreeHolds ==
  ASSUME EarlyClose = FALSE
  PROVE  Spec => []NoUseAfterFree
<1>1. Known /\ BindInv => NoUseAfterFree
  <2> SUFFICES ASSUME Known, BindInv, NEW o \in Objs, heap[o] # "live"
               PROVE  /\ Unknown(o)
                      /\ \A p \in upte : p[1] # o
                      /\ \A t \in Threads : obj[t] # o
    BY DEF NoUseAfterFree, Unknown
  <2> USE Types
  <2>1. Unknown(o)
    BY DEF Known, LifeInv
  <2>2. \A p \in upte : p[1] # o
    BY <2>1 DEF BindInv, UpteInv, Unknown
  <2>3. \A t \in Threads : obj[t] # o
    BY DEF Known, LifeInv, ThreadsOK
  <2> QED BY <2>1, <2>2, <2>3
<1> QED BY <1>1, BindInvariant, PTL

\* A user's page table entry leads to its own page, at every step of any
\* number of threads that bind, unbind and fault, when clients wait for their
\* handles.
THEOREM UserPteSoundHolds ==
  ASSUME EarlyClose = FALSE
  PROVE  Spec => []UserPteSound
<1>1. Known /\ BindInv => UserPteSound
  <2> SUFFICES ASSUME Known, BindInv, NEW p \in upte
               PROVE  /\ vma[p[1]] /\ gart[p[3]] = <<p[1], p[2]>>
                      /\ cache[p[3]] \in {Empty, <<p[1], p[2]>>}
    BY DEF UserPteSound
  <2> USE Types
  <2>1. /\ p[1] \in Objs /\ vma[p[1]] /\ Visible(p[1]) /\ In(p[1], p[3])
        /\ <<p[1], p[2]>> = Entry(p[1], p[3])
    BY DEF BindInv, UpteInv, DeviceType, Entry
  <2>2. p[3] \in Slots
    BY <2>1, GemAssumption DEF BindInv, BlocksInv, In, BindType, LifeType, Slots
  <2> QED BY <2>1, <2>2 DEF BindInv, VisibleInv
<1> QED BY <1>1, BindInvariant, PTL

\* xengfx_gem_object_put_pages gives no page back that the device can reach,
\* when clients wait for their handles.
THEOREM DeviceSafeHolds ==
  ASSUME EarlyClose = FALSE
  PROVE  Spec => []DeviceSafe
<1>1. BindInv => DeviceSafe
  BY GemAssumption DEF BindInv, SlotsInv, DeviceSafe
<1> QED BY <1>1, BindInvariant, PTL

\* A bound object is all there for the device, from the flush that ends its
\* binding to the first step of its unbinding, when clients wait for their
\* handles.
THEOREM BindingVisibleHolds ==
  ASSUME EarlyClose = FALSE
  PROVE  Spec => []BindingVisible
<1>1. Known /\ BindInv => BindingVisible
  <2> SUFFICES ASSUME Known, BindInv, NEW o \in Objs, Settled(o), NEW i \in 0 .. size[o] - 1
               PROVE  /\ gart[space[o] + i] = <<o, i>>
                      /\ cache[space[o] + i] \in {Empty, <<o, i>>}
    BY DEF BindingVisible
  <2> USE Types
  <2>1. Visible(o) /\ space[o] # None
    BY DEF Settled, Visible, Partial, BindPcs, UnbindPcs, BindInv, StepsInv
  <2>2. space[o] \in Slots /\ size[o] \in Nat /\ space[o] + size[o] <= AperPages
    BY <2>1 DEF BindType, LifeType, BindInv, BlocksInv
  <2>3. In(o, space[o] + i) /\ space[o] + i \in Slots /\ (space[o] + i) - space[o] = i
    BY <2>1, <2>2, GemAssumption DEF In, Slots
  <2> QED BY <2>1, <2>3 DEF BindInv, VisibleInv, Entry
<1> QED BY <1>1, BindInvariant, PTL

\* BUG_ON(!obj->pages) and BUG_ON(!obj->gart_space) never fire, when clients
\* wait for their handles.
THEOREM BindAssertionsHold ==
  ASSUME EarlyClose = FALSE
  PROVE  Spec => []BindAssertions
<1>1. Known /\ BindInv => BindAssertions
  <2> SUFFICES ASSUME Known, BindInv, NEW t \in Threads, pc[t] \in {"write", "clear"}
               PROVE  pages[obj[t]] /\ space[obj[t]] # None /\ offset[obj[t]] = space[obj[t]]
    BY DEF BindAssertions
  <2> QED BY Types DEF BindInv, StepsInv, BlocksInv, ThreadsOK
<1> QED BY <1>1, BindInvariant, PTL

\* No step of any thread moves an object that is pinned, however often its
\* callers unpin it, when clients wait for their handles.
THEOREM PinnedStaysHolds ==
  ASSUME EarlyClose = FALSE
  PROVE  Spec => PinnedStays
<1> DEFINE Stays == \A o \in Objs : pages[o] /\ pins[o] # 0 /\ pins'[o] # 0
                      => pages'[o] /\ space'[o] = space[o]
<1>1. Known /\ BindInv /\ [Next]_vars => [Stays]_vars
  <2> SUFFICES ASSUME Known, BindInv, Next, NEW o \in Objs, pages[o], pins[o] # 0
               PROVE  pages'[o] /\ space'[o] = space[o]
    BY DEF vars
  <2> USE Types
  <2>1. \A t \in Threads : pc[t] \in {"space", "pages", "putpages", "putblock"} => obj[t] # o
    BY DEF BindInv, StepsInv, UnbindPcs
  <2>2. ASSUME NEW t \in Threads, \/ BindSpace(t) \/ BindPages(t) \/ BindPagesFails(t)
               \/ UnbindPutPages(t) \/ UnbindPutBlock(t)
        PROVE  pages'[o] /\ space'[o] = space[o]
    BY <2>1, <2>2 DEF BindSpace, BindPages, BindPagesFails, SpaceAfterFailure, UnbindPutPages,
                      UnbindPutBlock, BindType
  <2>3. ASSUME NEW t \in Threads, NEW k, \/ UnpinKeep(t) \/ UnpinLast(t) \/ FinishPin(t)
               \/ FinishFault(t, k) \/ UnbindZap(t)
        PROVE  UNCHANGED <<pages, space>>
    BY <2>3 DEF UnpinKeep, UnpinLast, FinishPin, FinishFault, UnbindZap
  <2> QED BY <2>2, <2>3, BindFrame DEF Next, Request, Run, bindVars
<1> QED BY <1>1, BindInvariant, PTL DEF Spec, PinnedStays

-----------------------------------------------------------------------------
(* The aperture as its users see it.                                       *)

PlaceOf(o) == IF Settled(o) THEN Extent(o) ELSE {}

\* An object has a place when it is bound and nobody is at work on it.
Busy == BindPcs \cup UnbindPcs

LEMMA BlockExtent ==
  ASSUME Known, BindInv, NEW o \in Objs, space[o] # None
  PROVE  /\ Extent(o) = space[o] .. space[o] + size[o] - 1
         /\ Extent(o) # {} /\ Extent(o) \subseteq Slots
         /\ size[o] \in 1 .. AperPages /\ space[o] \in Slots
<1> USE Types
<1>1. /\ space[o] \in Slots /\ space[o] \in Int /\ size[o] \in Nat /\ size[o] # 0
      /\ space[o] + size[o] <= AperPages
  BY DEF BindInv, BlocksInv, BindType, LifeType
<1>2. ASSUME NEW x \in space[o] .. space[o] + size[o] - 1 PROVE x \in Extent(o)
  <2>1. x - space[o] \in 0 .. size[o] - 1 /\ x = space[o] + (x - space[o])
    BY <1>1
  <2> QED BY <2>1 DEF Extent
<1>3. Extent(o) \subseteq space[o] .. space[o] + size[o] - 1
  BY <1>1 DEF Extent
<1>4. space[o] \in space[o] .. space[o] + size[o] - 1
  BY <1>1
<1>5. space[o] .. space[o] + size[o] - 1 \subseteq Slots /\ size[o] \in 1 .. AperPages
  BY <1>1, GemAssumption DEF Slots
<1> QED BY <1>1, <1>2, <1>3, <1>4, <1>5

LEMMA PlacesApart ==
  ASSUME Known, BindInv, NEW o \in Objs, NEW p \in Objs, o # p, space[o] # None
  PROVE  Extent(o) \cap PlaceOf(p) = {}
<1>1. CASE Settled(p)
  <2>1. space[p] # None
    BY <1>1 DEF Settled, BindInv, StepsInv
  <2>2. \A x \in Extent(o) \cap Extent(p) : x \in Slots /\ In(o, x) /\ In(p, x)
    BY <2>1, BlockExtent DEF In
  <2> QED BY <2>2, <1>1 DEF PlaceOf, BindInv, BlocksInv
<1>2. CASE ~ Settled(p)
  BY <1>2 DEF PlaceOf
<1> QED BY <1>1, <1>2

\* Steps that neither complete a binding nor begin an unbinding.
LEMMA PlacesKept ==
  ASSUME Known, BindInv, UNCHANGED <<size, space, pages>>,
         \A u \in Threads : pc'[u] \in Busy => pc[u] \in Busy /\ obj'[u] = obj[u],
         \A u \in Threads : pc[u] \in Busy /\ pages[obj[u]] =>
           pc'[u] \in Busy /\ obj'[u] = obj[u],
         NEW p \in Objs
  PROVE  PlaceOf(p)' = PlaceOf(p)
<1>1. Extent(p)' = Extent(p)
  BY DEF Extent
<1>2. Settled(p)' <=> Settled(p)
  BY DEF Settled, Busy
<1> QED BY <1>1, <1>2 DEF PlaceOf

\* Steps on an object that has no place before nor after.
LEMMA PlacesOfOthers ==
  ASSUME Known, BindInv, NEW t \in Threads,
         pc[t] \in Busy \/ ~ pages[obj[t]], (pc'[t] \in Busy /\ obj'[t] = obj[t]) \/ ~ pages'[obj[t]],
         \A o \in Objs : o # obj[t] =>
           size'[o] = size[o] /\ space'[o] = space[o] /\ pages'[o] = pages[o],
         \A u \in Threads \ {t} : pc'[u] = pc[u] /\ obj'[u] = obj[u],
         pc'[t] \in Busy => obj'[t] = obj[t],
         NEW p \in Objs
  PROVE  PlaceOf(p)' = PlaceOf(p)
<1>1. CASE p = obj[t]
  <2>1. ~ Settled(p) /\ ~ Settled(p)'
    BY <1>1 DEF Settled, Busy
  <2> QED BY <2>1 DEF PlaceOf
<1>2. CASE p # obj[t]
  <2>1. Extent(p)' = Extent(p)
    BY <1>2 DEF Extent
  <2>2. Settled(p)' <=> Settled(p)
    BY <1>2 DEF Settled, Busy
  <2> QED BY <2>1, <2>2 DEF PlaceOf
<1> QED BY <1>1, <1>2

LEMMA NextPlacesKept ==
  ASSUME Known, BindInv, NEW t \in Threads, NEW o \in Objs, NEW k, NEW s \in Slots,
         \/ CloseHandle(t, o) \/ MapIoctl(t, o) \/ Mmap(t, o) \/ Munmap(t, o)
         \/ FbCreate(t, o) \/ FbCreateFails(t, o) \/ FbCreateHandle(t, o) \/ FbDestroy(t, o)
         \/ BeginFault(t, o) \/ BeginPin(t, o)
         \/ BeginUnpin(t, o) \/ FaultInterrupted(t) \/ CreateHandle(t) \/ CreateFails(t)
         \/ CreateDrop(t) \/ Unref(t) \/ Free(t) \/ Reap(t) \/ FreeBug(t) \/ UnpinBug(t)
         \/ BindSpaceFails(t) \/ Lock(t) \/ BindWrite(t) \/ FinishFault(t, k)
         \/ UnbindZap(t) \/ UnbindClear(t) \/ UnbindFlush(t) \/ UnbindDone(t) \/ DeviceFetch(s),
         NEW p \in Objs
  PROVE  PlaceOf(p)' = PlaceOf(p) /\ pins' = pins
<1> USE Types
<1>1. UNCHANGED <<size, space, pages, pins>>
  BY DEF CloseHandle, MapIoctl, Mmap, Munmap, FbCreate, FbCreateFails, FbCreateHandle,
         FbDestroy, BeginFault, BeginPin,
         BeginUnpin, FaultInterrupted, CreateHandle, CreateFails, CreateDrop, Unref, Free, Reap,
         FreeBug, UnpinBug, BindSpaceFails, Oops, lifeVars, bindVars, Lock, BindWrite, FinishFault,
         UnbindZap, UnbindClear, UnbindFlush, UnbindDone, DeviceFetch
<1>2. CASE UNCHANGED thrVars
  BY <1>1, <1>2, PlacesKept DEF thrVars
<1>3. CASE ~ UNCHANGED thrVars
  <2>1. \A u \in Threads \ {t} : pc'[u] = pc[u] /\ obj'[u] = obj[u]
    BY <1>3
    DEF CloseHandle, MapIoctl, Mmap, Munmap, FbCreate, FbCreateFails, FbCreateHandle,
         FbDestroy, BeginFault, BeginPin,
         BeginUnpin, FaultInterrupted, CreateHandle, CreateFails, CreateDrop, Unref, Free, Reap,
         FreeBug, UnpinBug, BindSpaceFails, Oops, Lock, BindWrite, FinishFault,
         UnbindZap, UnbindClear, UnbindFlush, UnbindDone, DeviceFetch, Start, Return, Goto,
         AfterUnpin, ThreadType, thrVars
  <2>2. \/ pc[t] \notin Busy /\ pc'[t] \notin Busy
        \/ pc[t] \in Busy /\ pc'[t] \in Busy /\ obj'[t] = obj[t]
        \/ pc[t] = "uflush2" /\ pc'[t] \notin Busy
    BY <1>3
    DEF CloseHandle, MapIoctl, Mmap, Munmap, FbCreate, FbCreateFails, FbCreateHandle,
         FbDestroy, BeginFault, BeginPin,
         BeginUnpin, FaultInterrupted, CreateHandle, CreateFails, CreateDrop, Unref, Free, Reap,
         FreeBug, UnpinBug, BindSpaceFails, Oops, Lock, BindWrite, FinishFault, FirstLabel,
         UnbindZap, UnbindClear, UnbindFlush, UnbindDone, DeviceFetch, Start, Return, Goto,
         AfterUnpin, ThreadType, ThreadsOK, thrVars, Busy, BindPcs, UnbindPcs
  <2>3. pc[t] = "uflush2" => ~ pages[obj[t]]
    BY DEF BindInv, StepsInv, ThreadsOK
  <2> QED BY <1>1, <2>1, <2>2, <2>3, PlacesKept
<1> QED BY <1>1, <1>2, <1>3

LEMMA NextPlacesOfOthers ==
  ASSUME Known, BindInv, NEW t \in Threads,
         \/ BindSpace(t) \/ BindPages(t) \/ BindPagesFails(t) \/ UnbindPutPages(t)
         \/ UnbindPutBlock(t),
         NEW p \in Objs
  PROVE  PlaceOf(p)' = PlaceOf(p) /\ pins' = pins
<1> USE Types
<1>1. /\ size' = size /\ pins' = pins
      /\ \A o \in Objs : o # obj[t] => space'[o] = space[o] /\ pages'[o] = pages[o]
  BY DEF BindSpace, BindPages, BindPagesFails, SpaceAfterFailure, UnbindPutPages, UnbindPutBlock,
         BindType, lifeVars
<1>2. \A u \in Threads \ {t} : pc'[u] = pc[u] /\ obj'[u] = obj[u]
  BY DEF BindSpace, BindPages, BindPagesFails, UnbindPutPages, UnbindPutBlock, Return, Goto,
         ThreadType
<1>3. pc[t] \in Busy \/ ~ pages[obj[t]]
  BY DEF BindSpace, BindPages, BindPagesFails, UnbindPutPages, UnbindPutBlock, Busy, BindPcs,
         UnbindPcs, BindInv, StepsInv, ThreadsOK
<1>4. CASE BindPagesFails(t)
  <2>1. ~ pages'[obj[t]] /\ pc'[t] = "idle"
    BY <1>4 DEF BindPagesFails, Return, Goto, ThreadType, BindInv, StepsInv
  <2> QED BY <1>1, <1>2, <1>3, <2>1, PlacesOfOthers DEF Busy, BindPcs, UnbindPcs
<1>5. CASE ~ BindPagesFails(t)
  <2>1. pc'[t] \in Busy /\ obj' = obj
    BY <1>5 DEF BindSpace, BindPages, UnbindPutPages, UnbindPutBlock, Goto, ThreadType, Busy,
                BindPcs, UnbindPcs
  <2> QED BY <1>1, <1>2, <1>3, <2>1, PlacesOfOthers
<1> QED BY <1>4, <1>5

LEMMA CreatePlaces ==
  ASSUME Known, BindInv, NEW t \in Threads, NEW o \in Objs, NEW n \in Sizes, CreateAlloc(t, o, n),
         NEW p \in Objs
  PROVE  PlaceOf(p)' = PlaceOf(p) /\ pins' = pins
<1> USE Types
<1>1. /\ UNCHANGED <<space, pages, pins>> /\ heap[o] = "none"
      /\ \A q \in Objs : q # o => size'[q] = size[q]
      /\ pc[t] = "idle" /\ pc'[t] = "handle"
      /\ \A u \in Threads \ {t} : pc'[u] = pc[u] /\ obj'[u] = obj[u]
  BY DEF CreateAlloc, Start, Goto, ThreadType, bindVars, LifeType
<1>2. ~ pages[o]
  BY <1>1 DEF BindInv, BlocksInv, StepsInv
<1>3. Settled(p)' <=> Settled(p)
  BY <1>1 DEF Settled, BindPcs, UnbindPcs
<1>4. p # o => Extent(p)' = Extent(p)
  BY <1>1 DEF Extent
<1> QED BY <1>1, <1>2, <1>3, <1>4 DEF PlaceOf, Settled

\* The last flush of a binding puts the object in its place.
LEMMA FlushPlaces ==
  ASSUME Known, BindInv, NEW t \in Threads, BindFlush(t)
  PROVE  /\ obj[t] \in Objs /\ space[obj[t]] # None /\ pins' = pins /\ PlaceOf(obj[t]) = {}
         /\ \A p \in Objs : PlaceOf(p)' = IF p = obj[t] THEN Extent(p) ELSE PlaceOf(p)
<1> USE Types
<1>1. /\ UNCHANGED <<size, space, pages, pins, obj>> /\ pc[t] = "flush" /\ pc'[t] = "finish"
      /\ \A u \in Threads \ {t} : pc'[u] = pc[u]
  BY DEF BindFlush, Goto, ThreadType, lifeVars, bindVars
<1>2. Inside(t) /\ pages[obj[t]]
  BY <1>1, InsideHolds DEF Locked, AcquirePcs, BindPcs, BindInv, StepsInv
<1>3. obj[t] \in Objs /\ space[obj[t]] # None
  BY <1>1, <1>2 DEF Inside
<1>4. \A p \in Objs : Extent(p)' = Extent(p)
  BY <1>1 DEF Extent
<1>5. ~ Settled(obj[t])
  BY <1>1 DEF Settled, BindPcs
<1>6. \A p \in Objs : Settled(p)' <=> p = obj[t] \/ Settled(p)
  BY <1>1, <1>2 DEF Settled, BindPcs, UnbindPcs, Inside, WorkPcs
<1> QED BY <1>1, <1>3, <1>4, <1>5, <1>6 DEF PlaceOf

LEMMA PinPlaces ==
  ASSUME Known, BindInv, NEW t \in Threads, FinishPin(t)
  PROVE  /\ obj[t] \in Objs /\ space[obj[t]] # None /\ pins' = [pins EXCEPT ![obj[t]] = PinInc(@)]
         /\ PlaceOf(obj[t]) = Extent(obj[t])
         /\ \A p \in Objs : PlaceOf(p)' = PlaceOf(p)
<1> USE Types
<1>1. /\ UNCHANGED <<size, space, pages>> /\ pc[t] = "finish" /\ pc'[t] = "idle"
      /\ \A u \in Threads \ {t} : pc'[u] = pc[u] /\ obj'[u] = obj[u]
      /\ pins' = [pins EXCEPT ![obj[t]] = PinInc(@)]
  BY DEF FinishPin, Return, Goto, ThreadType, lifeVars
<1>2. Inside(t) /\ pages[obj[t]]
  BY <1>1, InsideHolds DEF Locked, AcquirePcs, BindPcs, BindInv, StepsInv
<1>3. obj[t] \in Objs /\ space[obj[t]] # None
  BY <1>1, <1>2 DEF Inside
<1>4. Settled(obj[t])
  BY <1>1, <1>2 DEF Settled, BindPcs, UnbindPcs, Inside, WorkPcs
<1>5. \A p \in Objs : PlaceOf(p)' = PlaceOf(p)
  BY <1>1, PlacesKept DEF Busy, BindPcs, UnbindPcs
<1> QED BY <1>1, <1>3, <1>4, <1>5 DEF PlaceOf

\* An unpin that leaves a count, and one that takes the place away.
LEMMA UnpinPlaces ==
  ASSUME Known, BindInv, NEW t \in Threads, UnpinKeep(t) \/ UnpinLast(t)
  PROVE  /\ obj[t] \in Objs /\ pins' = [pins EXCEPT ![obj[t]] = PinDec(@)]
         /\ \A p \in Objs : PlaceOf(p)' =
              IF p = obj[t] /\ PinDec(pins[p]) = 0 THEN {} ELSE PlaceOf(p)
<1> USE Types
<1>1. /\ UNCHANGED <<size, space, pages>> /\ pc[t] = "unpin"
      /\ \A u \in Threads \ {t} : pc'[u] = pc[u] /\ obj'[u] = obj[u]
      /\ pins' = [pins EXCEPT ![obj[t]] = PinDec(@)]
  BY DEF UnpinKeep, UnpinLast, AfterUnpin, Return, Goto, ThreadType, lifeVars
<1>2. Inside(t)
  BY <1>1, InsideHolds DEF Locked, TeardownPcs
<1>3. obj[t] \in Objs
  BY <1>2 DEF Inside
<1>4. CASE UnpinKeep(t)
  <2>1. pc'[t] \notin Busy /\ (PinDec(pins[obj[t]]) = 0 => space[obj[t]] = None)
    BY <1>4 DEF UnpinKeep, AfterUnpin, LastPin, Return, Goto, ThreadType, Busy, BindPcs, UnbindPcs
  <2>2. \A p \in Objs : PlaceOf(p)' = PlaceOf(p)
    BY <1>1, <2>1, PlacesKept DEF Busy, BindPcs, UnbindPcs
  <2>3. PinDec(pins[obj[t]]) = 0 => PlaceOf(obj[t]) = {}
    BY <2>1, <1>3 DEF PlaceOf, Settled, BindInv, StepsInv
  <2> QED BY <1>1, <1>3, <2>2, <2>3
<1>5. CASE UnpinLast(t)
  <2>1. pc'[t] = "zap" /\ obj' = obj /\ PinDec(pins[obj[t]]) = 0
    BY <1>5 DEF UnpinLast, LastPin, Goto, ThreadType
  <2>2. \A p \in Objs : Extent(p)' = Extent(p)
    BY <1>1 DEF Extent
  <2>3. \A p \in Objs : Settled(p)' <=> p # obj[t] /\ Settled(p)
    BY <1>1, <2>1 DEF Settled, BindPcs, UnbindPcs
  <2> QED BY <1>1, <1>3, <2>1, <2>2, <2>3 DEF PlaceOf
<1> QED BY <1>4, <1>5

Pl == [o \in Objs |-> PlaceOf(o)]

\* Every step is one of the atomic steps of XenGfxAperture, or none.
LEMMA StepMaps ==
  ASSUME Known, BindInv, [Next]_vars
  PROVE  [Aperture!ApertureNext]_(Aperture!aperVars)
<1> USE Types
<1> DEFINE Pm  == [o \in Objs |-> IF Settled(o) THEN Extent(o) ELSE {}]
<1>0. Pm = Pl /\ Pm' = [o \in Objs |-> PlaceOf(o)']
  BY DEF Pl, PlaceOf
<1>1. ASSUME pins' = pins, \A p \in Objs : PlaceOf(p)' = PlaceOf(p)
      PROVE  UNCHANGED Aperture!aperVars
  BY <1>0, <1>1 DEF Aperture!aperVars, Pl
<1>2. ASSUME NEW t \in Threads, BindFlush(t) PROVE Aperture!ApertureNext
  <2>1. /\ obj[t] \in Objs /\ space[obj[t]] # None /\ pins' = pins /\ PlaceOf(obj[t]) = {}
        /\ \A p \in Objs : PlaceOf(p)' = IF p = obj[t] THEN Extent(p) ELSE PlaceOf(p)
    BY <1>2, FlushPlaces
  <2>2. PICK o \in Objs : o = obj[t]
    BY <2>1
  <2>3. Pm' = [Pm EXCEPT ![o] = Extent(o)]
    <3>1. \A p \in Objs : PlaceOf(p)' = IF p = o THEN Extent(o) ELSE PlaceOf(p)
      BY <2>1, <2>2
    <3>2. [p \in Objs |-> PlaceOf(p)'] = [Pl EXCEPT ![o] = Extent(o)]
      BY <3>1 DEF Pl
    <3> QED BY <1>0, <3>2
  <2>4. /\ Extent(o) = space[o] .. space[o] + size[o] - 1
        /\ Extent(o) # {} /\ Extent(o) \subseteq Slots
        /\ size[o] \in 1 .. AperPages /\ space[o] \in Slots
    BY <2>1, <2>2, BlockExtent
  <2>5. Extent(o) \cap UNION {Pm[p] : p \in Objs} = {}
    BY <2>1, <2>2, <1>0, PlacesApart DEF Pl
  <2>6. Aperture!Place(o, Aperture!Block(space[o], size[o]))
    BY <2>1, <2>2, <2>3, <2>4, <2>5, <1>0
    DEF Aperture!Place, Aperture!Block, Aperture!Taken, Aperture!Slots, Slots, Pl
  <2> QED BY <2>4, <2>6 DEF Aperture!ApertureNext, Aperture!Slots, Slots
<1>3. ASSUME NEW t \in Threads, FinishPin(t) PROVE Aperture!ApertureNext
  <2>1. /\ obj[t] \in Objs /\ space[obj[t]] # None /\ pins' = [pins EXCEPT ![obj[t]] = PinInc(@)]
        /\ PlaceOf(obj[t]) = Extent(obj[t])
        /\ \A p \in Objs : PlaceOf(p)' = PlaceOf(p)
    BY <1>3, PinPlaces
  <2>2. Extent(obj[t]) # {}
    BY <2>1, BlockExtent
  <2>3. Aperture!Pin(obj[t])
    BY <2>1, <2>2, <1>0 DEF Aperture!Pin, Aperture!Inc, PinInc, Pl
  <2> QED BY <2>1, <2>3 DEF Aperture!ApertureNext
<1>4. ASSUME NEW t \in Threads, UnpinKeep(t) \/ UnpinLast(t) PROVE Aperture!ApertureNext
  <2>1. /\ obj[t] \in Objs /\ pins' = [pins EXCEPT ![obj[t]] = PinDec(@)]
        /\ \A p \in Objs : PlaceOf(p)' =
             IF p = obj[t] /\ PinDec(pins[p]) = 0 THEN {} ELSE PlaceOf(p)
    BY <1>4, UnpinPlaces
  <2>2. PICK o \in Objs : o = obj[t]
    BY <2>1
  <2>3. Pm' = IF PinDec(pins[o]) = 0 THEN [Pm EXCEPT ![o] = {}] ELSE Pm
    BY <1>0, <2>1, <2>2 DEF Pl
  <2>4. Aperture!Unpin(o)
    BY <2>1, <2>2, <2>3 DEF Aperture!Unpin, Aperture!Dec, PinDec
  <2> QED BY <2>4 DEF Aperture!ApertureNext
<1>5. ASSUME NEW t \in Threads, NEW o \in Objs,
             \/ \E n \in Sizes : CreateAlloc(t, o, n)
             \/ CloseHandle(t, o) \/ MapIoctl(t, o) \/ Mmap(t, o) \/ Munmap(t, o)
             \/ FbCreate(t, o) \/ FbCreateFails(t, o) \/ FbCreateHandle(t, o) \/ FbDestroy(t, o)
             \/ BeginFault(t, o) \/ BeginPin(t, o)
             \/ BeginUnpin(t, o) \/ FaultInterrupted(t) \/ CreateHandle(t) \/ CreateFails(t)
             \/ CreateDrop(t) \/ Unref(t) \/ Free(t) \/ Reap(t) \/ FreeBug(t) \/ UnpinBug(t)
             \/ BindSpaceFails(t) \/ Lock(t) \/ BindWrite(t) \/ (\E k : FinishFault(t, k))
             \/ UnbindZap(t) \/ UnbindClear(t) \/ UnbindFlush(t) \/ UnbindDone(t)
             \/ BindSpace(t) \/ BindPages(t) \/ BindPagesFails(t) \/ UnbindPutPages(t)
             \/ UnbindPutBlock(t)
      PROVE  UNCHANGED Aperture!aperVars
  <2>1. 0 \in Slots
    BY GemAssumption DEF Slots
  <2>2. ASSUME NEW p \in Objs PROVE PlaceOf(p)' = PlaceOf(p) /\ pins' = pins
    BY <1>5, <2>1, NextPlacesKept, NextPlacesOfOthers, CreatePlaces
  <2> QED BY <2>2, <1>1
<1>6. ASSUME NEW s \in Slots, DeviceFetch(s) PROVE UNCHANGED Aperture!aperVars
  <2>1. ASSUME NEW p \in Objs PROVE PlaceOf(p)' = PlaceOf(p)
    BY <1>6 DEF DeviceFetch, lifeVars, bindVars, thrVars, PlaceOf, Settled, Extent
  <2>2. pins' = pins
    BY <1>6 DEF DeviceFetch, bindVars
  <2> QED BY <2>1, <2>2, <1>1
<1>7. CASE UNCHANGED vars
  <2>1. ASSUME NEW p \in Objs PROVE PlaceOf(p)' = PlaceOf(p)
    BY <1>7 DEF vars, lifeVars, bindVars, thrVars, PlaceOf, Settled, Extent
  <2>2. pins' = pins
    BY <1>7 DEF vars, bindVars
  <2> QED BY <2>1, <2>2, <1>1
<1> QED
  BY <1>2, <1>3, <1>4, <1>5, <1>6, <1>7, HasObject DEF Next, Request, Run

\* Binding and unbinding, step by step on the hardware and with every
\* interleaving of threads and device, implements the atomic aperture that
\* the display code relies on, when clients wait for their handles.
THEOREM ImplementsApertureHolds ==
  ASSUME EarlyClose = FALSE
  PROVE  Spec => ImplementsAperture
<1>1. Init => Aperture!ApertureInit
  BY DEF Init, Aperture!ApertureInit, Settled
<1>2. Known /\ BindInv /\ [Next]_vars => [Aperture!ApertureNext]_(Aperture!aperVars)
  BY StepMaps
<1> QED BY <1>1, <1>2, BindInvariant, PTL DEF Spec, ImplementsAperture, Aperture!ApertureSpec
=============================================================================
