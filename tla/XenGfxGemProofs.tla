--------------------------- MODULE XenGfxGemProofs ---------------------------
(***************************************************************************)
(* Theorems about XenGfxGem, for every number of objects, threads and      *)
(* aperture pages: type correctness, the lock discipline and the           *)
(* reference counts.                                                       *)
(***************************************************************************)
EXTENDS XenGfxGemInv, FiniteSetTheorems, TLAPS

-----------------------------------------------------------------------------
(* What the actions leave alone.                                           *)

LEMMA LifeFrame ==
  ASSUME NEW t, NEW o, NEW k, NEW s,
         \/ BeginFault(t, o) \/ BeginPin(t, o) \/ BeginUnpin(t, o)
         \/ Lock(t) \/ FaultInterrupted(t)
         \/ BindSpace(t) \/ BindSpaceFails(t) \/ BindPages(t) \/ BindPagesFails(t)
         \/ BindWrite(t) \/ BindFlush(t) \/ FinishPin(t) \/ FinishFault(t, k)
         \/ UnpinBug(t) \/ UnpinKeep(t) \/ UnpinLast(t)
         \/ UnbindZap(t) \/ UnbindClear(t) \/ UnbindFlush(t)
         \/ UnbindPutPages(t) \/ UnbindPutBlock(t) \/ UnbindDone(t)
         \/ FreeBug(t) \/ Free(t) \/ DeviceFetch(s)
  PROVE  UNCHANGED lifeVars
BY DEF BeginFault, BeginPin, BeginUnpin, Lock, FaultInterrupted, BindSpace, BindSpaceFails,
       BindPages, BindPagesFails, BindWrite, BindFlush, FinishPin, FinishFault, UnpinBug,
       UnpinKeep, UnpinLast, UnbindZap, UnbindClear, UnbindFlush, UnbindPutPages,
       UnbindPutBlock, UnbindDone, FreeBug, Free, DeviceFetch, Oops

LEMMA BindFrame ==
  ASSUME NEW t, NEW o, NEW n, NEW s,
         \/ CreateAlloc(t, o, n) \/ CloseHandle(t, o) \/ MapIoctl(t, o)
         \/ Mmap(t, o) \/ Munmap(t, o) \/ FbCreate(t, o) \/ FbDestroy(t, o)
         \/ FbCreateFails(t, o) \/ FbCreateHandle(t, o)
         \/ BeginFault(t, o) \/ BeginPin(t, o) \/ BeginUnpin(t, o)
         \/ Lock(t) \/ FaultInterrupted(t)
         \/ CreateHandle(t) \/ CreateFails(t) \/ CreateDrop(t)
         \/ BindSpaceFails(t) \/ BindWrite(t) \/ BindFlush(t)
         \/ UnpinBug(t) \/ UnbindClear(t) \/ UnbindFlush(t) \/ UnbindDone(t)
         \/ Unref(t) \/ FreeBug(t) \/ Free(t) \/ Reap(t) \/ DeviceFetch(s)
  PROVE  UNCHANGED bindVars
BY DEF CreateAlloc, CloseHandle, MapIoctl, Mmap, Munmap, FbCreate,
       FbCreateFails, FbCreateHandle, FbDestroy, BeginFault,
       BeginPin, BeginUnpin, Lock, FaultInterrupted, CreateHandle, CreateFails, CreateDrop,
       BindSpaceFails, BindWrite, BindFlush, UnpinBug, UnbindClear, UnbindFlush, UnbindDone,
       Unref, FreeBug, Free, Reap, DeviceFetch, Oops

LEMMA DeviceFrame ==
  ASSUME NEW t, NEW o, NEW n,
         \/ CreateAlloc(t, o, n) \/ CloseHandle(t, o) \/ MapIoctl(t, o)
         \/ Mmap(t, o) \/ FbCreate(t, o) \/ FbDestroy(t, o)
         \/ FbCreateFails(t, o) \/ FbCreateHandle(t, o)
         \/ BeginFault(t, o) \/ BeginPin(t, o) \/ BeginUnpin(t, o)
         \/ Lock(t) \/ FaultInterrupted(t)
         \/ CreateHandle(t) \/ CreateFails(t) \/ CreateDrop(t)
         \/ BindSpace(t) \/ BindSpaceFails(t) \/ BindPages(t) \/ BindPagesFails(t)
         \/ FinishPin(t) \/ UnpinBug(t) \/ UnpinKeep(t) \/ UnpinLast(t)
         \/ UnbindPutPages(t) \/ UnbindPutBlock(t)
         \/ Unref(t) \/ FreeBug(t) \/ Free(t) \/ Reap(t)
  PROVE  UNCHANGED <<upte, gart, cache>>
BY DEF CreateAlloc, CloseHandle, MapIoctl, Mmap, FbCreate,
       FbCreateFails, FbCreateHandle, FbDestroy, BeginFault, BeginPin,
       BeginUnpin, Lock, FaultInterrupted, CreateHandle, CreateFails, CreateDrop, BindSpace,
       BindSpaceFails, BindPages, BindPagesFails, FinishPin, UnpinBug, UnpinKeep, UnpinLast,
       UnbindPutPages, UnbindPutBlock, Unref, FreeBug, Free, Reap, Oops, devVars

-----------------------------------------------------------------------------
(* Type correctness.                                                       *)

LEMMA InitType == Init => TypeInv
<1> SUFFICES ASSUME Init PROVE TypeInv
    OBVIOUS
<1> USE GemAssumption
<1>1. LifeType /\ BindType
  BY DEF Init, LifeType, BindType, Slots
<1>2. DeviceType /\ ThreadType
  BY DEF Init, DeviceType, ThreadType, Slots, Labels
<1>3. ThreadsOK
  BY DEF Init, ThreadsOK, AcquirePcs, BindPcs, UnbindPcs
<1> QED BY <1>1, <1>2, <1>3 DEF TypeInv, TypeOK

\* Counts stay in their types.
LEMMA PutGet ==
  ASSUME LifeType, NEW o \in Objs
  PROVE  Put(o) \in [Objs -> Int] /\ Get(o) \in [Objs -> Int]
<1>1. refs[o] - 1 \in Int /\ refs[o] + 1 \in Int
  BY DEF LifeType
<1> QED BY <1>1 DEF LifeType, Put, Get

LEMMA PinRange ==
  ASSUME NEW n \in 0 .. PinMod - 1
  PROVE  PinInc(n) \in 0 .. PinMod - 1 /\ PinDec(n) \in 0 .. PinMod - 1
BY GemAssumption DEF PinInc, PinDec

LEMMA NextLifeType ==
  ASSUME TypeInv, [Next]_vars
  PROVE  LifeType'
<1> USE GemAssumption DEF TypeInv, TypeOK, LifeType
<1>1. CASE UNCHANGED lifeVars
  BY <1>1 DEF lifeVars
<1>2. ASSUME NEW t \in Threads, NEW o \in Objs, NEW n \in Sizes, CreateAlloc(t, o, n)
      PROVE  LifeType'
  BY <1>2 DEF CreateAlloc
<1>3. ASSUME NEW t \in Threads, NEW o \in Objs, CloseHandle(t, o) \/ FbDestroy(t, o)
      PROVE  LifeType'
  BY <1>3 DEF CloseHandle, FbDestroy
<1>4. ASSUME NEW t \in Threads, NEW o \in Objs, MapIoctl(t, o) \/ Munmap(t, o)
      PROVE  LifeType'
  BY <1>4 DEF MapIoctl, Munmap
<1>5. ASSUME NEW t \in Threads, NEW o \in Objs, \/ Mmap(t, o) \/ FbCreate(t, o)
             \/ FbCreateFails(t, o) \/ FbCreateHandle(t, o)
      PROVE  LifeType'
  <2>1. Get(o) \in [Objs -> Int]
    BY PutGet
  <2> QED BY <1>5, <2>1 DEF Mmap, FbCreate, FbCreateFails, FbCreateHandle, LookupRef
<1>6. ASSUME NEW t \in Threads, CreateHandle(t) \/ CreateFails(t)
      PROVE  LifeType'
  <2>1. obj[t] \in Objs
    BY <1>6 DEF ThreadsOK, CreateHandle, CreateFails
  <2>2. Get(obj[t]) \in [Objs -> Int]
    BY <2>1, PutGet
  <2> QED BY <1>6, <2>2 DEF CreateHandle, CreateFails, Get
<1>7. ASSUME NEW t \in Threads, CreateDrop(t) \/ Unref(t)
      PROVE  LifeType'
  <2>1. obj[t] \in Objs
    BY <1>7 DEF ThreadsOK, CreateDrop, Unref
  <2>2. refs' = Put(obj[t]) /\ UNCHANGED <<heap, size, handle, vma, fb, moff>>
    BY <1>7 DEF CreateDrop, Unref
  <2> QED BY <2>1, <2>2, PutGet
<1>8. ASSUME NEW t \in Threads, Reap(t) PROVE LifeType'
  BY <1>8 DEF Reap, OffsetsAfterFree
<1> QED
  BY <1>1, <1>2, <1>3, <1>4, <1>5, <1>6, <1>7, <1>8, LifeFrame
  DEF Next, Request, Run, vars

LEMMA NextBindType ==
  ASSUME TypeInv, [Next]_vars
  PROVE  BindType'
<1> USE GemAssumption DEF TypeInv, TypeOK, BindType
<1>1. CASE UNCHANGED bindVars
  BY <1>1 DEF bindVars, Slots
<1>2. ASSUME NEW t \in Threads, BindSpace(t) \/ BindPages(t) \/ BindPagesFails(t)
      PROVE  BindType'
  <2>1. CASE BindSpace(t)
    <3>1. PICK r \in HoleStarts(size[obj[t]]) :
            space' = [space EXCEPT ![obj[t]] = r] /\ offset' = [offset EXCEPT ![obj[t]] = r]
      BY <2>1 DEF BindSpace
    <3>2. r \in Slots
      BY DEF HoleStarts
    <3>3. UNCHANGED <<pins, pages, faulted>>
      BY <2>1 DEF BindSpace
    <3> QED BY <3>1, <3>2, <3>3
  <2>2. CASE BindPages(t)
    BY <2>2 DEF BindPages, Slots
  <2>3. CASE BindPagesFails(t)
    BY <2>3 DEF BindPagesFails, SpaceAfterFailure, Slots
  <2> QED BY <1>2, <2>1, <2>2, <2>3
<1>3. ASSUME NEW t \in Threads, NEW k, FinishFault(t, k) PROVE BindType'
  BY <1>3 DEF FinishFault, Slots
<1>4. ASSUME NEW t \in Threads, FinishPin(t) PROVE BindType'
  <2>1. obj[t] \in Objs
    BY <1>4 DEF ThreadsOK, FinishPin
  <2>2. PinInc(pins[obj[t]]) \in 0 .. PinMod - 1
    BY <2>1, PinRange
  <2> QED BY <1>4, <2>2 DEF FinishPin, Slots
<1>5. ASSUME NEW t \in Threads, UnpinKeep(t) \/ UnpinLast(t) PROVE BindType'
  <2>1. obj[t] \in Objs
    BY <1>5 DEF ThreadsOK, UnpinKeep, UnpinLast
  <2>2. PinDec(pins[obj[t]]) \in 0 .. PinMod - 1
    BY <2>1, PinRange
  <2>3. /\ pins' = [pins EXCEPT ![obj[t]] = PinDec(@)]
        /\ UNCHANGED <<space, offset, pages, faulted>>
    BY <1>5 DEF UnpinKeep, UnpinLast
  <2> QED BY <2>2, <2>3 DEF Slots
<1>6. ASSUME NEW t \in Threads, UnbindZap(t) \/ UnbindPutPages(t) PROVE BindType'
  BY <1>6 DEF UnbindZap, UnbindPutPages, Slots
<1>7. ASSUME NEW t \in Threads, UnbindPutBlock(t) PROVE BindType'
  <2>1. 0 \in Slots
    BY DEF Slots
  <2> QED BY <1>7, <2>1 DEF UnbindPutBlock
<1> QED
  BY <1>1, <1>2, <1>3, <1>4, <1>5, <1>6, <1>7, BindFrame
  DEF Next, Request, Run, vars

LEMMA NextDeviceType ==
  ASSUME TypeInv, [Next]_vars
  PROVE  DeviceType'
<1> USE GemAssumption DEF TypeInv, TypeOK, DeviceType
<1>1. CASE UNCHANGED <<upte, gart, cache>>
  BY <1>1 DEF Slots, Pte
<1>2. ASSUME NEW t \in Threads, NEW o \in Objs, Munmap(t, o) PROVE DeviceType'
  BY <1>2 DEF Munmap, devVars, Slots, Pte
<1>3. ASSUME NEW t \in Threads, BindWrite(t) PROVE DeviceType'
  <2>1. obj[t] \in Objs /\ cur[t] \in Nat
    BY <1>3 DEF ThreadsOK, ThreadType, BindWrite
  <2>2. <<obj[t], cur[t]>> \in Pte
    BY <2>1 DEF Pte
  <2> QED BY <1>3, <2>2 DEF BindWrite, EntryWritten
<1>4. ASSUME NEW t \in Threads, UnbindClear(t) PROVE DeviceType'
  BY <1>4 DEF UnbindClear, EntryCleared
<1>5. ASSUME NEW t \in Threads, BindFlush(t) \/ UnbindFlush(t) \/ UnbindDone(t)
      PROVE  DeviceType'
  BY <1>5 DEF BindFlush, UnbindFlush, UnbindDone, Flushed
<1>6. ASSUME NEW t \in Threads, NEW o \in Objs, NEW k \in 0 .. size[o] - 1,
             obj[t] = o, FinishFault(t, k)
      PROVE  DeviceType'
  <2>1. offset[o] + k \in Nat /\ k \in Nat
    BY DEF LifeType, BindType, Slots
  <2>2. UNCHANGED <<gart, cache>> /\ upte' \subseteq upte \cup {<<o, k, offset[o] + k>>}
    BY <1>6 DEF FinishFault, devVars
  <2> QED BY <2>1, <2>2
<1>7. ASSUME NEW t \in Threads, UnbindZap(t) PROVE DeviceType'
  BY <1>7 DEF UnbindZap, Unmapped, devVars
<1>8. ASSUME NEW s \in Slots, DeviceFetch(s) PROVE DeviceType'
  BY <1>8 DEF DeviceFetch
<1> QED
  BY <1>1, <1>2, <1>3, <1>4, <1>5, <1>6, <1>7, <1>8, DeviceFrame
  DEF Next, Request, Run, vars, devVars
\* A thread that returns to its caller is idle again.
LEMMA Returned ==
  ASSUME TypeInv, NEW t \in Threads, NEW m \in Threads \cup {NoThread}, Return(t, m)
  PROVE  ThreadType' /\ ThreadsOK'
BY DEF TypeInv, TypeOK, ThreadType, ThreadsOK, Return, Goto, Labels, AcquirePcs, BindPcs,
       UnbindPcs, TeardownPcs

LEMMA NextThreads ==
  ASSUME TypeInv, [Next]_vars
  PROVE  ThreadType' /\ ThreadsOK'
<1> USE GemAssumption
<1> DEFINE Goal == ThreadType' /\ ThreadsOK'
<1>0. ThreadType /\ ThreadsOK
  BY DEF TypeInv, TypeOK
<1>1. CASE UNCHANGED <<thrVars, mutex>>
  BY <1>1, <1>0 DEF thrVars, ThreadType, ThreadsOK
<1>2. ASSUME NEW t \in Threads, Request(t) PROVE Goal
  <2>1. CASE UNCHANGED <<thrVars, mutex>>
    BY <2>1, <1>1
  <2>2. ASSUME NEW j \in {"create", "unref", "fault", "pin", "unpin"}, NEW p \in Objs,
               NEW l \in {"handle", "wait"}, Start(t, j, p, l), j = "create" <=> l = "handle"
        PROVE  Goal
    BY <2>2, <1>0 DEF Start, Goto, ThreadType, ThreadsOK, Labels, AcquirePcs, BindPcs,
                      TeardownPcs, UnbindPcs
  <2> QED
    BY <1>2, <2>1, <2>2
    DEF Request, CreateAlloc, CloseHandle, MapIoctl, Mmap, Munmap, FbCreate,
        FbCreateFails, FbCreateHandle, FbDestroy,
        BeginFault, BeginPin, BeginUnpin
<1>3. ASSUME NEW t \in Threads, Lock(t) PROVE Goal
  BY <1>3, <1>0 DEF Lock, FirstLabel, Goto, ThreadType, ThreadsOK, Labels, AcquirePcs,
                    BindPcs, TeardownPcs, UnbindPcs
<1>4. ASSUME NEW t \in Threads, NEW k, \/ FaultInterrupted(t) \/ CreateFails(t)
             \/ BindSpaceFails(t) \/ BindPagesFails(t) \/ FinishPin(t) \/ FinishFault(t, k)
             \/ Reap(t)
      PROVE  Goal
  <2>1. Return(t, mutex) \/ Return(t, Unlocked(t))
    BY <1>4 DEF FaultInterrupted, CreateFails, BindSpaceFails, BindPagesFails, FinishPin,
                FinishFault, Reap, UnlockedOnError
  <2>2. mutex \in Threads \cup {NoThread} /\ Unlocked(t) \in Threads \cup {NoThread}
    BY <1>0 DEF ThreadType, Unlocked
  <2> QED BY <2>1, <2>2, Returned
<1> DEFINE Fits(t, l) ==
             /\ pc[t] # "idle"
             /\ l \in Labels \ {"idle"}
             /\ l \in {"handle", "drop"} => job[t] = "create"
             /\ l = "unref" => job[t] = "unref"
             /\ l = "wait" => job[t] \in {"fault", "pin", "unpin", "unref"}
             /\ l \in AcquirePcs => job[t] \in {"fault", "pin"}
             /\ l \in {"free", "reap"} => job[t] \in {"create", "unref"}
             /\ l \in {"unpin"} \cup UnbindPcs => job[t] \in {"create", "unpin", "unref"}
<1>5. ASSUME NEW t \in Threads, NEW l, Fits(t, l), Goto(t, l), UNCHANGED <<mutex, job, obj>>,
             cur' \in [Threads -> Nat]
      PROVE  Goal
  BY <1>5, <1>0 DEF ThreadType, ThreadsOK, Goto
<1>6. ASSUME NEW t \in Threads, \/ CreateHandle(t) \/ BindSpace(t) \/ BindFlush(t)
             \/ UnpinBug(t) \/ UnpinLast(t) \/ UnbindFlush(t) \/ UnbindPutPages(t)
             \/ UnbindPutBlock(t) \/ FreeBug(t) \/ Free(t)
      PROVE  Goal
  <2> DEFINE Next6 == {"drop", "pages", "finish", "oops", "zap", "putpages", "putblock", "uflush2",
                       "unpin", "reap"}
  <2>1. PICK l \in Next6 : Goto(t, l) /\ Fits(t, l)
    BY <1>6, <1>0
    DEF CreateHandle, BindSpace, BindFlush, UnpinBug, UnpinLast, UnbindFlush, UnbindPutPages,
        UnbindPutBlock, FreeBug, Free, Oops, ThreadsOK, Labels, AcquirePcs, BindPcs, TeardownPcs,
        UnbindPcs
  <2>2. UNCHANGED <<mutex, job, obj, cur>>
    BY <1>6
    DEF CreateHandle, BindSpace, BindFlush, UnpinBug, UnpinLast, UnbindFlush, UnbindPutPages,
        UnbindPutBlock, FreeBug, Free, Oops
  <2> QED BY <2>1, <2>2, <1>5, <1>0 DEF ThreadType
<1>7. ASSUME NEW t \in Threads, \/ BindPages(t) \/ BindWrite(t) \/ UnbindZap(t) \/ UnbindClear(t)
      PROVE  Goal
  <2>1. PICK l \in {"write", "flush", "clear", "uflush"} : Goto(t, l) /\ Fits(t, l)
    BY <1>7, <1>0
    DEF BindPages, BindWrite, UnbindZap, UnbindClear, ThreadsOK, Labels, AcquirePcs, BindPcs,
        TeardownPcs, UnbindPcs
  <2>2. UNCHANGED <<mutex, job, obj>> /\ cur' \in [Threads -> Nat]
    BY <1>7, <1>0 DEF BindPages, BindWrite, UnbindZap, UnbindClear, ThreadType
  <2> QED BY <2>1, <2>2, <1>5
<1>8. ASSUME NEW t \in Threads, CreateDrop(t) \/ Unref(t) PROVE Goal
  <2>1. CASE Goto(t, "free") /\ UNCHANGED <<mutex, job, obj, cur>>
    <3>1. Fits(t, "free")
      BY <1>8, <1>0
      DEF CreateDrop, Unref, ThreadsOK, Labels, AcquirePcs, BindPcs, TeardownPcs, UnbindPcs
    <3> QED BY <2>1, <3>1, <1>5, <1>0 DEF ThreadType
  <2>2. CASE Return(t, mutex) \/ Return(t, Unlocked(t))
    BY <2>2, <1>0, Returned DEF ThreadType, Unlocked
  <2> QED BY <1>8, <2>1, <2>2 DEF CreateDrop, Unref
<1>9. ASSUME NEW t \in Threads, UnpinKeep(t) \/ UnbindDone(t) PROVE Goal
  <2>1. CASE job[t] # "unpin" /\ Goto(t, "reap") /\ UNCHANGED <<mutex, job, obj, cur>>
    <3>1. Fits(t, "reap")
      BY <1>9, <1>0, <2>1
      DEF UnpinKeep, UnbindDone, ThreadsOK, Labels, AcquirePcs, BindPcs, TeardownPcs, UnbindPcs
    <3> QED BY <2>1, <3>1, <1>5, <1>0 DEF ThreadType
  <2>2. CASE Return(t, Unlocked(t))
    BY <2>2, <1>0, Returned DEF ThreadType, Unlocked
  <2> QED BY <1>9, <2>1, <2>2 DEF UnpinKeep, UnbindDone, AfterUnpin
<1>10. ASSUME NEW s \in Slots, DeviceFetch(s) PROVE Goal
  BY <1>10, <1>1 DEF DeviceFetch
<1> QED
  BY <1>1, <1>2, <1>3, <1>4, <1>6, <1>7, <1>8, <1>9, <1>10 DEF Next, Run, vars

\* The types are right at every step, whatever the callers of pin and
\* unpin, the clients that close handles and the device do.
THEOREM TypeCorrect == Spec => []TypeOK
<1>1. Init => TypeInv
  BY InitType
<1>2. TypeInv /\ [Next]_vars => TypeInv'
  BY NextLifeType, NextBindType, NextDeviceType, NextThreads DEF TypeInv, TypeOK
<1>3. TypeInv => TypeOK
  BY DEF TypeInv
<1> QED BY <1>1, <1>2, <1>3, PTL DEF Spec

-----------------------------------------------------------------------------
(* Who works on the aperture.                                              *)

LEMMA NextLock ==
  ASSUME TypeInv, LockInv, [Next]_vars
  PROVE  LockInv'
<1> USE GemAssumption
<1>0. ThreadType /\ ThreadsOK
  BY DEF TypeInv, TypeOK
<1>1. CASE UNCHANGED <<thrVars, mutex>>
  BY <1>1 DEF thrVars, LockInv
\* A thread that stays outside, or stays inside, changes nothing for others.
<1>2. ASSUME NEW t \in Threads, NEW l, Goto(t, l), UNCHANGED mutex,
             \A u \in Threads \ {t} : job'[u] = job[u],
             l \in Locked => mutex = t \/ job'[t] = "create"
      PROVE  LockInv'
  BY <1>2, <1>0 DEF LockInv, Goto, ThreadType
\* A thread that returns has the mutex, or leaves it as it is.
<1>3. ASSUME NEW t \in Threads, Return(t, mutex) \/ Return(t, Unlocked(t))
      PROVE  LockInv'
  BY <1>3, <1>0 DEF LockInv, Return, Unlocked, Goto, ThreadType, Locked, AcquirePcs,
                    TeardownPcs, BindPcs, UnbindPcs
<1>4. ASSUME NEW t \in Threads, Request(t) PROVE LockInv'
  <2>1. ASSUME NEW j, NEW p, NEW l \in {"handle", "wait"}, Start(t, j, p, l)
        PROVE  LockInv'
    BY <2>1, <1>2, <1>0 DEF Start, ThreadType, Locked, AcquirePcs, TeardownPcs, BindPcs, UnbindPcs
  <2> QED
    BY <1>4, <1>1, <2>1
    DEF Request, CreateAlloc, CloseHandle, MapIoctl, Mmap, Munmap, FbCreate,
        FbCreateFails, FbCreateHandle, FbDestroy,
        BeginFault, BeginPin, BeginUnpin
<1>5. ASSUME NEW t \in Threads, Lock(t) PROVE LockInv'
  BY <1>5, <1>0 DEF Lock, Goto, LockInv, ThreadType
<1>6. ASSUME NEW t \in Threads, NEW k, \/ FaultInterrupted(t) \/ CreateFails(t)
             \/ BindSpaceFails(t) \/ BindPagesFails(t) \/ FinishPin(t) \/ FinishFault(t, k)
             \/ Reap(t)
      PROVE  LockInv'
  <2>1. Return(t, mutex) \/ Return(t, Unlocked(t))
    BY <1>6 DEF FaultInterrupted, CreateFails, BindSpaceFails, BindPagesFails, FinishPin,
                FinishFault, Reap, UnlockedOnError
  <2> QED BY <2>1, <1>3
<1>7. ASSUME NEW t \in Threads, \/ CreateHandle(t) \/ BindSpace(t) \/ BindPages(t)
             \/ BindWrite(t) \/ BindFlush(t) \/ UnpinBug(t) \/ UnpinLast(t) \/ UnbindZap(t)
             \/ UnbindClear(t) \/ UnbindFlush(t) \/ UnbindPutPages(t) \/ UnbindPutBlock(t)
             \/ FreeBug(t) \/ Free(t)
      PROVE  LockInv'
  <2>1. UNCHANGED <<mutex, job>>
    BY <1>7
    DEF CreateHandle, BindSpace, BindPages, BindWrite, BindFlush, UnpinBug, UnpinLast, UnbindZap,
        UnbindClear, UnbindFlush, UnbindPutPages, UnbindPutBlock, FreeBug, Free, Oops
  <2>2. /\ pc[t] = "handle" \/ pc[t] \in Locked
        /\ \E l : Goto(t, l) /\ (pc[t] = "handle" => l = "drop")
    BY <1>7
    DEF CreateHandle, BindSpace, BindPages, BindWrite, BindFlush, UnpinBug, UnpinLast, UnbindZap,
        UnbindClear, UnbindFlush, UnbindPutPages, UnbindPutBlock, FreeBug, Free, Oops, Locked,
        AcquirePcs, TeardownPcs, BindPcs, UnbindPcs
  <2>3. "drop" \notin Locked
    BY DEF Locked, AcquirePcs, TeardownPcs, BindPcs, UnbindPcs
  <2> QED BY <2>1, <2>2, <2>3, <1>2 DEF LockInv
<1>8. ASSUME NEW t \in Threads, CreateDrop(t) \/ Unref(t) PROVE LockInv'
  <2>1. CASE Goto(t, "free") /\ UNCHANGED <<mutex, job, obj, cur>>
    <3>1. mutex = t \/ job[t] = "create"
      BY <1>8, <1>0 DEF CreateDrop, Unref, LockInv, Locked, ThreadsOK
    <3> QED BY <2>1, <3>1, <1>2
  <2> QED BY <1>8, <2>1, <1>3 DEF CreateDrop, Unref
<1>9. ASSUME NEW t \in Threads, UnpinKeep(t) \/ UnbindDone(t) PROVE LockInv'
  <2>1. CASE job[t] # "unpin" /\ Goto(t, "reap") /\ UNCHANGED <<mutex, job, obj, cur>>
    <3>1. mutex = t \/ job[t] = "create"
      BY <1>9 DEF UnpinKeep, UnbindDone, LockInv, Locked, TeardownPcs, UnbindPcs
    <3> QED BY <2>1, <3>1, <1>2
  <2> QED BY <1>9, <2>1, <1>3 DEF UnpinKeep, UnbindDone, AfterUnpin
<1>10. ASSUME NEW s \in Slots, DeviceFetch(s) PROVE LockInv'
  BY <1>10, <1>1 DEF DeviceFetch
<1> QED
  BY <1>1, <1>4, <1>5, <1>6, <1>7, <1>8, <1>9, <1>10 DEF Next, Run, vars

\* Only the owner of struct_mutex binds, unbinds or frees an object, or a
\* thread that creates it: also when clients close handles early.
THEOREM LockDisciplineHolds == Spec => []LockDiscipline
<1>1. Init => TypeInv /\ LockInv
  BY InitType DEF Init, LockInv, Locked, AcquirePcs, TeardownPcs, BindPcs, UnbindPcs
<1>2. TypeInv /\ LockInv /\ [Next]_vars => (TypeInv /\ LockInv)'
  BY NextLifeType, NextBindType, NextDeviceType, NextThreads, NextLock DEF TypeInv, TypeOK
<1>3. LockInv => LockDiscipline
  BY DEF LockInv, LockDiscipline, Locked
<1> QED BY <1>1, <1>2, <1>3, PTL DEF Spec

-----------------------------------------------------------------------------
(* Reference counts.                                                       *)

\* A thread that goes on, elsewhere than to CreateHandle, with no object
\* or with the object it had.
LEMMA NewKept ==
  ASSUME TypeInv, NewObjects, UNCHANGED <<heap, handle, vma, fb, moff>>,
         NEW t \in Threads, NEW l, l # "handle", Goto(t, l),
         obj' = obj \/ obj' = [obj EXCEPT ![t] = None]
  PROVE  NewObjects'
<1> USE GemAssumption DEF TypeInv, TypeOK, ThreadType
<1>1. \A u \in Threads : obj'[u] \in {obj[u], None}
  OBVIOUS
<1>2. \A u \in Threads : pc'[u] = "handle" => u # t /\ pc[u] = "handle"
  BY DEF Goto
<1>3. \A u \in Threads : u # t => obj'[u] = obj[u]
  OBVIOUS
<1>4. \A u \in Threads : pc[u] = "handle" => obj[u] \in Objs
  BY DEF ThreadsOK
<1>5. None \notin Objs
  BY GemAssumption
<1> QED BY <1>1, <1>2, <1>3, <1>4, <1>5 DEF NewObjects, Unknown

\* A request for an object that a handle, a mapping or a framebuffer holds.
LEMMA NewStarted ==
  ASSUME TypeInv, NewObjects, NEW t \in Threads, NEW o \in Objs, ~ Unknown(o),
         heap' = heap, NEW j, Start(t, j, o, "wait"),
         \A p \in Objs : Unknown(p) => Unknown(p)'
  PROVE  NewObjects'
<1> USE DEF TypeInv, TypeOK, ThreadType
<1>1. /\ obj'[t] = o
      /\ \A u \in Threads : u # t => obj'[u] = obj[u]
      /\ \A u \in Threads : pc'[u] = "handle" => u # t /\ pc[u] = "handle"
  BY DEF Start, Goto
<1>2. \A u \in Threads : pc[u] = "handle" => obj[u] \in Objs /\ obj[u] # o
  BY DEF ThreadsOK, NewObjects
<1> QED BY <1>1, <1>2 DEF NewObjects

LEMMA NextNew ==
  ASSUME TypeInv, NewObjects, [Next]_vars
  PROVE  NewObjects'
<1> USE GemAssumption
<1>0. ThreadType /\ ThreadsOK /\ LifeType
  BY DEF TypeInv, TypeOK
<1>1. CASE UNCHANGED <<heap, handle, vma, fb, moff, pc, obj>>
  BY <1>1 DEF NewObjects, Unknown
<1>2. ASSUME NEW t \in Threads, NEW o \in Objs, NEW n \in Sizes, CreateAlloc(t, o, n)
      PROVE  NewObjects'
  <2>1. /\ heap[o] = "none" /\ heap' = [heap EXCEPT ![o] = "live"]
        /\ UNCHANGED <<handle, vma, fb, moff>>
        /\ pc' = [pc EXCEPT ![t] = "handle"] /\ obj' = [obj EXCEPT ![t] = o]
    BY <1>2 DEF CreateAlloc, Start, Goto
  <2>2. Unknown(o) /\ \A u \in Threads : obj[u] # o
    BY <2>1 DEF NewObjects
  <2>3. \A u \in Threads \ {t} : pc[u] = "handle" => obj[u] \in Objs
    BY <1>0 DEF ThreadsOK
  <2>4. \A u \in Threads : Unknown(obj[u])' <=> Unknown(obj'[u])
    BY <2>1 DEF Unknown
  <2> QED BY <2>1, <2>2, <2>3, <2>4, <1>0 DEF NewObjects, Unknown, ThreadType, LifeType
<1>3. ASSUME NEW t \in Threads, NEW o \in Objs, \/ CloseHandle(t, o) \/ Munmap(t, o)
             \/ FbDestroy(t, o) \/ FbCreateFails(t, o)
             \/ BeginFault(t, o) \/ BeginPin(t, o) \/ BeginUnpin(t, o)
      PROVE  NewObjects'
  <2>1. ~ Unknown(o) /\ heap' = heap /\ \A p \in Objs : Unknown(p) => Unknown(p)'
    BY <1>3, <1>0 DEF CloseHandle, Munmap, FbDestroy, FbCreateFails, BeginFault, BeginPin, BeginUnpin, Unknown,
                      lifeVars, LifeType
  <2>2. \E j : Start(t, j, o, "wait")
    BY <1>3 DEF CloseHandle, Munmap, FbDestroy, FbCreateFails, BeginFault, BeginPin, BeginUnpin
  <2> QED BY <2>1, <2>2, NewStarted
<1>4. ASSUME NEW t \in Threads, NEW o \in Objs,
             MapIoctl(t, o) \/ Mmap(t, o) \/ FbCreate(t, o) \/ FbCreateHandle(t, o)
      PROVE  NewObjects'
  <2>1. ~ Unknown(o) /\ UNCHANGED <<heap, pc, obj>>
    BY <1>4 DEF MapIoctl, Mmap, FbCreate, FbCreateHandle, Unknown, thrVars
  <2>2. \A p \in Objs : p # o => (Unknown(p)' <=> Unknown(p))
    BY <1>4, <1>0 DEF MapIoctl, Mmap, FbCreate, FbCreateHandle, Unknown, LifeType
  <2>3. \A u \in Threads : pc[u] = "handle" => obj[u] \in Objs
    BY <1>0 DEF ThreadsOK
  <2> QED BY <2>1, <2>2, <2>3 DEF NewObjects
<1>5. ASSUME NEW t \in Threads, NEW k, \/ Lock(t) \/ FaultInterrupted(t)
             \/ BindSpace(t) \/ BindSpaceFails(t) \/ BindPages(t) \/ BindPagesFails(t)
             \/ BindWrite(t) \/ BindFlush(t) \/ FinishPin(t) \/ FinishFault(t, k)
             \/ UnpinBug(t) \/ UnpinKeep(t) \/ UnpinLast(t)
             \/ UnbindZap(t) \/ UnbindClear(t) \/ UnbindFlush(t)
             \/ UnbindPutPages(t) \/ UnbindPutBlock(t) \/ UnbindDone(t)
             \/ FreeBug(t) \/ Free(t) \/ CreateDrop(t) \/ Unref(t)
      PROVE  NewObjects'
  <2>1. UNCHANGED <<heap, handle, vma, fb, moff>>
    BY <1>5, LifeFrame DEF lifeVars, CreateDrop, Unref
  <2>2. \E l : l # "handle" /\ Goto(t, l) /\ (obj' = obj \/ obj' = [obj EXCEPT ![t] = None])
    BY <1>5, <1>0
    DEF Lock, FaultInterrupted, BindSpace, BindSpaceFails, BindPages, BindPagesFails, BindWrite,
        BindFlush, FinishPin, FinishFault, UnpinBug, UnpinKeep, UnpinLast, UnbindZap,
        UnbindClear, UnbindFlush, UnbindPutPages, UnbindPutBlock, UnbindDone, FreeBug, Free, Oops,
        CreateDrop, Unref, AfterUnpin, Return, FirstLabel, ThreadsOK
  <2> QED BY <2>1, <2>2, NewKept
<1>6. ASSUME NEW t \in Threads, CreateHandle(t) PROVE NewObjects'
  <2>1. /\ pc[t] = "handle" /\ obj' = obj /\ pc' = [pc EXCEPT ![t] = "drop"]
        /\ handle' = [handle EXCEPT ![obj[t]] = TRUE] /\ UNCHANGED <<heap, vma, fb, moff>>
    BY <1>6 DEF CreateHandle, Goto
  <2>2. obj[t] \in Objs /\ heap[obj[t]] # "none" /\ \A u \in Threads \ {t} : obj[u] # obj[t]
    BY <2>1, <1>0 DEF NewObjects, ThreadsOK
  <2>3. \A p \in Objs : p # obj[t] => (Unknown(p)' <=> Unknown(p))
    BY <2>1, <2>2, <1>0 DEF Unknown, LifeType
  <2>4. \A u \in Threads : pc'[u] = "handle" => u # t /\ pc[u] = "handle" /\ obj[u] \in Objs
    BY <2>1, <1>0 DEF ThreadType, ThreadsOK
  <2> QED BY <2>1, <2>2, <2>3, <2>4 DEF NewObjects
<1>7. ASSUME NEW t \in Threads, CreateFails(t) \/ Reap(t) PROVE NewObjects'
  <2>1. /\ obj[t] \in Objs
        /\ UNCHANGED <<handle, vma, fb>>
        /\ \A p \in Objs : moff'[p] => moff[p]
        /\ \A p \in Objs : heap'[p] = "none" => heap[p] = "none"
    BY <1>7, <1>0 DEF CreateFails, Reap, OffsetsAfterFree, ThreadsOK, LifeType
  <2>2. pc' = [pc EXCEPT ![t] = "idle"] /\ obj' = [obj EXCEPT ![t] = None]
    BY <1>7 DEF CreateFails, Reap, Return, Goto
  <2>3. \A p \in Objs : Unknown(p) => Unknown(p)'
    BY <2>1 DEF Unknown
  <2>4. \A u \in Threads : pc'[u] = "handle" => u # t /\ pc[u] = "handle" /\ obj[u] \in Objs
    BY <2>2, <1>0 DEF ThreadType, ThreadsOK
  <2>5. obj'[t] = None /\ None \notin Objs /\ \A u \in Threads : u # t => obj'[u] = obj[u]
    BY <2>2, <1>0 DEF ThreadType
  <2> QED BY <2>1, <2>3, <2>4, <2>5 DEF NewObjects
<1>8. ASSUME NEW s \in Slots, DeviceFetch(s) PROVE NewObjects'
  BY <1>8, <1>1 DEF DeviceFetch, lifeVars, thrVars
<1> QED
  BY <1>1, <1>2, <1>3, <1>4, <1>5, <1>6, <1>7, <1>8
  DEF Next, Request, Run, vars, lifeVars, thrVars

\* The holders of an object are finitely many, so they can be counted.
LEMMA HoldersFinite ==
  ASSUME NEW o
  PROVE  IsFiniteSet(Holders(o))
<1>1. IsFiniteSet(Threads) /\ IsFiniteSet({"handle"}) /\ IsFiniteSet({"vma"}) /\ IsFiniteSet({"fb"})
  BY GemAssumption, FS_Singleton
<1>2. IsFiniteSet(((Threads \cup {"handle"}) \cup {"vma"}) \cup {"fb"})
  BY <1>1, FS_AddElement
<1>3. Holders(o) \subseteq ((Threads \cup {"handle"}) \cup {"vma"}) \cup {"fb"}
  BY DEF Holders, Tags
<1> QED BY <1>2, <1>3, FS_Subset

\* Adding a holder, and removing one, changes the count by one.
LEMMA CountGained ==
  ASSUME NEW S, NEW x, IsFiniteSet(S), x \notin S
  PROVE  Cardinality(S \cup {x}) = Cardinality(S) + 1
BY FS_AddElement

LEMMA CountLost ==
  ASSUME NEW S, NEW x, IsFiniteSet(S), x \in S
  PROVE  /\ IsFiniteSet(S \ {x})
         /\ Cardinality(S \ {x}) = Cardinality(S) - 1
BY FS_RemoveElement

\* The right to drop a reference passes from one holder to another.
LEMMA CountMoved ==
  ASSUME NEW S, NEW x, NEW y, IsFiniteSet(S), x \in S, y \notin S
  PROVE  Cardinality((S \ {x}) \cup {y}) = Cardinality(S)
<1>1. Cardinality(S) \in Nat
  BY FS_CardinalityType
<1>2. Cardinality((S \ {x}) \cup {y}) = Cardinality(S \ {x}) + 1
  BY CountLost, CountGained
<1> QED BY <1>1, <1>2, CountLost

-----------------------------------------------------------------------------
(* How each operation changes the holders of an object.                    *)

LEMMA AllocHolders ==
  ASSUME TypeInv, NewObjects, NEW t \in Threads, NEW o \in Objs, NEW n \in Sizes,
         CreateAlloc(t, o, n), NEW p \in Objs
  PROVE  Holders(p)' = IF p = o THEN {t} ELSE Holders(p)
<1>0. ThreadType /\ ThreadsOK /\ LifeType
  BY DEF TypeInv, TypeOK
<1>1. /\ pc[t] = "idle" /\ heap[o] = "none"
      /\ pc' = [pc EXCEPT ![t] = "handle"]
      /\ job' = [job EXCEPT ![t] = "create"]
      /\ obj' = [obj EXCEPT ![t] = o]
      /\ UNCHANGED <<handle, vma, fb>>
  BY DEF CreateAlloc, Start, Goto
<1>2. Unknown(o) /\ \A u \in Threads : obj[u] # o
  BY <1>1 DEF NewObjects
<1>3. CASE p = o
  BY <1>1, <1>2, <1>3, <1>0 DEF Holders, Holding, Unknown, ThreadType, Tags
<1>4. CASE p # o
  BY <1>1, <1>4, <1>0 DEF Holders, Holding, ThreadsOK, ThreadType
<1> QED BY <1>3, <1>4

LEMMA HandOverHolders ==
  ASSUME TypeInv, NEW t \in Threads, NEW o \in Objs,
         CloseHandle(t, o) \/ Munmap(t, o) \/ FbDestroy(t, o)
  PROVE  \E g \in Tags :
           /\ g \in Holders(o) /\ t \notin Holders(o)
           /\ \A p \in Objs :
                Holders(p)' = IF p = o THEN (Holders(o) \ {g}) \cup {t} ELSE Holders(p)
<1> USE GemAssumption
<1>0. ThreadType /\ ThreadsOK /\ LifeType /\ None \notin Objs
  BY DEF TypeInv, TypeOK
<1>1. /\ pc[t] = "idle" /\ obj[t] = None
      /\ pc' = [pc EXCEPT ![t] = "wait"]
      /\ job' = [job EXCEPT ![t] = "unref"]
      /\ obj' = [obj EXCEPT ![t] = o]
  BY <1>0 DEF CloseHandle, Munmap, FbDestroy, Start, Goto, ThreadsOK
<1>2. PICK g \in Tags : \/ g = "handle" /\ handle[o] /\ handle' = [handle EXCEPT ![o] = FALSE]
                             /\ UNCHANGED <<vma, fb>>
                        \/ g = "vma" /\ vma[o] /\ vma' = [vma EXCEPT ![o] = FALSE]
                             /\ UNCHANGED <<handle, fb>>
                        \/ g = "fb" /\ fb[o] /\ fb' = [fb EXCEPT ![o] = FALSE]
                             /\ UNCHANGED <<handle, vma>>
  BY DEF CloseHandle, Munmap, FbDestroy, Tags
<1>3. g \in Holders(o) /\ t \notin Holders(o)
  BY <1>1, <1>2, <1>0 DEF Holders, Holding
<1>4. \A u \in Threads : Holding(u, o)' <=> u = t \/ Holding(u, o)
  BY <1>1, <1>0 DEF Holding, ThreadType
<1>5. Holders(o)' = (Holders(o) \ {g}) \cup {t}
  BY <1>2, <1>4, <1>0 DEF Holders, LifeType, Tags
<1>6. ASSUME NEW p \in Objs, p # o PROVE Holders(p)' = Holders(p)
  <2>1. \A u \in Threads : Holding(u, p)' <=> Holding(u, p)
    BY <1>1, <1>6, <1>0 DEF Holding, ThreadType
  <2> QED BY <1>2, <1>6, <2>1, <1>0 DEF Holders, LifeType
<1> QED BY <1>3, <1>5, <1>6

LEMMA ShareHolders ==
  ASSUME TypeInv, NEW t \in Threads, NEW o \in Objs,
         Mmap(t, o) \/ FbCreate(t, o) \/ FbCreateHandle(t, o)
  PROVE  \E g \in Tags :
           /\ g \notin Holders(o)
           /\ \A p \in Objs : Holders(p)' = IF p = o THEN Holders(o) \cup {g} ELSE Holders(p)
<1> USE GemAssumption
<1>0. LifeType
  BY DEF TypeInv, TypeOK
<1>1. PICK g \in Tags : \/ g = "vma" /\ ~ vma[o] /\ vma' = [vma EXCEPT ![o] = TRUE]
                             /\ UNCHANGED <<handle, fb>>
                        \/ g = "fb" /\ ~ fb[o] /\ fb' = [fb EXCEPT ![o] = TRUE]
                             /\ UNCHANGED <<handle, vma>>
                        \/ g = "handle" /\ ~ handle[o] /\ handle' = [handle EXCEPT ![o] = TRUE]
                             /\ UNCHANGED <<vma, fb>>
  BY DEF Mmap, FbCreate, FbCreateHandle, Tags
<1>2. \A u \in Threads, p \in Objs : Holding(u, p)' <=> Holding(u, p)
  BY DEF Mmap, FbCreate, FbCreateHandle, Holding, thrVars
<1>3. g \notin Holders(o) /\ Holders(o)' = Holders(o) \cup {g}
  BY <1>1, <1>2, <1>0 DEF Holders, LifeType, Tags
<1>4. ASSUME NEW p \in Objs, p # o PROVE Holders(p)' = Holders(p)
  BY <1>1, <1>2, <1>4, <1>0 DEF Holders, LifeType
<1> QED BY <1>3, <1>4

\* A creation of a framebuffer that fails has the reference of its lookup.
LEMMA LookupHolders ==
  ASSUME TypeInv, NEW t \in Threads, NEW o \in Objs, FbCreateFails(t, o)
  PROVE  /\ t \notin Holders(o)
         /\ \A p \in Objs : Holders(p)' = IF p = o THEN Holders(o) \cup {t} ELSE Holders(p)
<1> USE GemAssumption
<1>0. ThreadType /\ ThreadsOK /\ None \notin Objs
  BY DEF TypeInv, TypeOK
<1>1. /\ pc[t] = "idle" /\ obj[t] = None
      /\ pc' = [pc EXCEPT ![t] = "wait"]
      /\ job' = [job EXCEPT ![t] = "unref"]
      /\ obj' = [obj EXCEPT ![t] = o]
      /\ UNCHANGED <<handle, vma, fb>>
  BY <1>0 DEF FbCreateFails, Start, Goto, ThreadsOK
<1>2. t \notin Holders(o)
  BY <1>1, <1>0 DEF Holders, Holding, Tags
<1>3. \A u \in Threads, p \in Objs : Holding(u, p)' <=> (u = t /\ p = o) \/ Holding(u, p)
  BY <1>1, <1>0 DEF Holding, ThreadType
<1>4. ASSUME NEW p \in Objs
      PROVE  Holders(p)' = IF p = o THEN Holders(o) \cup {t} ELSE Holders(p)
  BY <1>1, <1>3 DEF Holders, Tags
<1> QED BY <1>2, <1>4

LEMMA HandleHolders ==
  ASSUME TypeInv, NewObjects, NEW t \in Threads, CreateHandle(t)
  PROVE  /\ obj[t] \in Objs /\ t \in Holders(obj[t]) /\ "handle" \notin Holders(obj[t])
         /\ \A p \in Objs :
              Holders(p)' = IF p = obj[t] THEN Holders(p) \cup {"handle"} ELSE Holders(p)
<1> USE GemAssumption
<1>0. ThreadType /\ ThreadsOK /\ LifeType
  BY DEF TypeInv, TypeOK
<1>1. /\ pc[t] = "handle" /\ obj[t] \in Objs /\ UNCHANGED <<vma, fb, job, obj>>
      /\ pc' = [pc EXCEPT ![t] = "drop"]
      /\ handle' = [handle EXCEPT ![obj[t]] = TRUE]
  BY <1>0 DEF CreateHandle, Goto, ThreadsOK
<1>2. ~ handle[obj[t]]
  BY <1>1 DEF NewObjects, Unknown
<1>3. \A u \in Threads, p \in Objs : Holding(u, p)' <=> Holding(u, p)
  BY <1>1, <1>0 DEF Holding, ThreadType
<1>4. ASSUME NEW p \in Objs, p = obj[t]
      PROVE  "handle" \notin Holders(p) /\ Holders(p)' = Holders(p) \cup {"handle"}
  BY <1>1, <1>2, <1>3, <1>4, <1>0 DEF Holders, LifeType, Tags
<1>5. ASSUME NEW p \in Objs, p # obj[t] PROVE Holders(p)' = Holders(p)
  BY <1>1, <1>3, <1>5, <1>0 DEF Holders, LifeType
<1>6. t \in Holders(obj[t])
  BY <1>1 DEF Holders, Holding
<1> QED BY <1>1, <1>4, <1>5, <1>6

LEMMA DropHolders ==
  ASSUME TypeInv, NEW t \in Threads, CreateDrop(t) \/ Unref(t)
  PROVE  /\ obj[t] \in Objs /\ t \in Holders(obj[t])
         /\ \A p \in Objs :
              Holders(p)' = IF p = obj[t] THEN Holders(p) \ {t} ELSE Holders(p)
<1> USE GemAssumption
<1>0. ThreadType /\ ThreadsOK
  BY DEF TypeInv, TypeOK
<1>1. /\ pc[t] \in {"drop", "unref"} /\ obj[t] \in Objs /\ UNCHANGED <<handle, vma, fb>>
      /\ \E l \in {"free", "idle"} : pc' = [pc EXCEPT ![t] = l]
      /\ \A u \in Threads : u # t => job'[u] = job[u] /\ obj'[u] = obj[u]
  BY <1>0 DEF CreateDrop, Unref, Goto, Return, ThreadsOK, ThreadType
<1>2. \A u \in Threads, p \in Objs : Holding(u, p)' <=> u # t /\ Holding(u, p)
  BY <1>1, <1>0 DEF Holding, ThreadType
<1>3. t \in Holders(obj[t])
  BY <1>1 DEF Holders, Holding
<1>4. ASSUME NEW p \in Objs PROVE Holders(p)' = Holders(p) \ {t}
  BY <1>1, <1>2 DEF Holders, Tags
<1>5. ASSUME NEW p \in Objs, p # obj[t] PROVE t \notin Holders(p)
  BY <1>5 DEF Holders, Holding, Tags
<1> QED BY <1>1, <1>3, <1>4, <1>5

LEMMA LastHolders ==
  ASSUME TypeInv, NewObjects, NEW t \in Threads, CreateFails(t) \/ Reap(t), NEW p \in Objs
  PROVE  /\ p # obj[t] => Holders(p)' = Holders(p)
         /\ Reap(t) => Holders(p)' = Holders(p)
         /\ CreateFails(t) /\ p = obj[t] => Holders(p) = {t} /\ Holders(p)' = {}
<1> USE GemAssumption
<1>0. ThreadType /\ ThreadsOK /\ LifeType /\ None \notin Objs
  BY DEF TypeInv, TypeOK
<1>1. /\ obj[t] \in Objs /\ pc[t] \in {"handle", "reap"}
      /\ UNCHANGED <<handle, vma, fb>>
      /\ pc' = [pc EXCEPT ![t] = "idle"] /\ obj' = [obj EXCEPT ![t] = None]
      /\ \A u \in Threads : u # t => job'[u] = job[u] /\ obj'[u] = obj[u]
  BY <1>0 DEF CreateFails, Reap, Goto, Return, ThreadsOK, ThreadType
<1>2. \A u \in Threads : Holding(u, p)' <=> u # t /\ Holding(u, p)
  BY <1>1, <1>0 DEF Holding, ThreadType
<1>3. ASSUME p # obj[t] \/ Reap(t) PROVE Holders(p)' = Holders(p)
  <2>1. ~ Holding(t, p)
    BY <1>3 DEF Holding, Reap
  <2> QED BY <2>1, <1>1, <1>2 DEF Holders
<1>4. ASSUME CreateFails(t), p = obj[t] PROVE Holders(p) = {t} /\ Holders(p)' = {}
  <2>1. pc[t] = "handle"
    BY <1>4 DEF CreateFails
  <2>2. Unknown(p) /\ \A u \in Threads : obj[u] = p => u = t
    BY <2>1, <1>4 DEF NewObjects
  <2> QED BY <2>1, <2>2, <1>1, <1>2, <1>4 DEF Holders, Holding, Unknown, Tags
<1> QED BY <1>3, <1>4

LEMMA RestHolders ==
  ASSUME TypeInv, NEW t \in Threads, NEW o, NEW k,
         \/ BeginFault(t, o) \/ BeginPin(t, o)
         \/ BeginUnpin(t, o) \/ MapIoctl(t, o) \/ Lock(t) \/ FaultInterrupted(t)
         \/ BindSpace(t) \/ BindSpaceFails(t) \/ BindPages(t) \/ BindPagesFails(t)
         \/ BindWrite(t) \/ BindFlush(t) \/ FinishPin(t) \/ FinishFault(t, k)
         \/ UnpinBug(t) \/ UnpinKeep(t) \/ UnpinLast(t)
         \/ UnbindZap(t) \/ UnbindClear(t) \/ UnbindFlush(t)
         \/ UnbindPutPages(t) \/ UnbindPutBlock(t) \/ UnbindDone(t)
         \/ FreeBug(t) \/ Free(t),
         NEW p \in Objs
  PROVE  Holders(p)' = Holders(p)
<1>0. ThreadType /\ ThreadsOK
  BY DEF TypeInv, TypeOK
<1>1. UNCHANGED <<handle, vma, fb>>
  BY LifeFrame DEF lifeVars, MapIoctl
<1>2. \A u \in Threads : u # t => pc'[u] = pc[u] /\ job'[u] = job[u] /\ obj'[u] = obj[u]
  BY <1>0
  DEF BeginFault, BeginPin, BeginUnpin, MapIoctl, Lock, FaultInterrupted, BindSpace,
      BindSpaceFails, BindPages, BindPagesFails, BindWrite, BindFlush, FinishPin, FinishFault,
      UnpinBug, UnpinKeep, UnpinLast, UnbindZap, UnbindClear, UnbindFlush, UnbindPutPages,
      UnbindPutBlock, UnbindDone, FreeBug, Free, Oops, AfterUnpin, Return, Goto, Start, thrVars,
      ThreadType
<1>3. Holding(t, p)' <=> Holding(t, p)
  BY <1>0
  DEF BeginFault, BeginPin, BeginUnpin, MapIoctl, Lock, FaultInterrupted, BindSpace,
      BindSpaceFails, BindPages, BindPagesFails, BindWrite, BindFlush, FinishPin, FinishFault,
      UnpinBug, UnpinKeep, UnpinLast, UnbindZap, UnbindClear, UnbindFlush, UnbindPutPages,
      UnbindPutBlock, UnbindDone, FreeBug, Free, Oops, AfterUnpin, Return, Goto, Start, thrVars,
      Holding, FirstLabel, ThreadsOK, ThreadType
<1> QED BY <1>1, <1>2, <1>3 DEF Holders, Holding

LEMMA NextRefs ==
  ASSUME TypeInv, NewObjects, RefsAccounted, [Next]_vars
  PROVE  RefsAccounted'
<1>0. ThreadType /\ ThreadsOK /\ LifeType
  BY DEF TypeInv, TypeOK
<1> DEFINE Counted(p) == heap'[p] = "live" => refs'[p] = Cardinality(Holders(p)')
<1>a. SUFFICES ASSUME NEW p \in Objs PROVE Counted(p)
  BY DEF RefsAccounted
<1>b. heap[p] = "live" => refs[p] = Cardinality(Holders(p))
  BY DEF RefsAccounted
<1>c. IsFiniteSet(Holders(p)) /\ refs[p] \in Int
  BY HoldersFinite, <1>0 DEF LifeType
<1>1. CASE UNCHANGED vars
  <2>1. Holders(p)' = Holders(p)
    BY <1>1 DEF vars, lifeVars, thrVars, Holders, Holding
  <2> QED BY <1>1, <2>1, <1>b DEF vars, lifeVars
<1>2. ASSUME NEW t \in Threads, NEW o \in Objs, NEW n \in Sizes, CreateAlloc(t, o, n)
      PROVE  Counted(p)
  BY <1>2, <1>b, <1>0, AllocHolders, FS_Singleton DEF CreateAlloc, LifeType
<1>3. ASSUME NEW t \in Threads, NEW o \in Objs,
             CloseHandle(t, o) \/ Munmap(t, o) \/ FbDestroy(t, o)
      PROVE  Counted(p)
  <2>1. UNCHANGED <<heap, refs>>
    BY <1>3 DEF CloseHandle, Munmap, FbDestroy
  <2>2. Cardinality(Holders(p)') = Cardinality(Holders(p))
    BY <1>3, <1>c, HandOverHolders, CountMoved
  <2> QED BY <2>1, <2>2, <1>b
<1>4. ASSUME NEW t \in Threads, NEW o \in Objs, \/ Mmap(t, o) \/ FbCreate(t, o)
             \/ FbCreateFails(t, o) \/ FbCreateHandle(t, o) \/ CreateHandle(t)
      PROVE  Counted(p)
  <2>1. PICK q \in Objs, g \in Tags \cup Threads :
          /\ heap' = heap /\ refs' = [refs EXCEPT ![q] = @ + 1]
          /\ g \notin Holders(q)
          /\ Holders(p)' = IF p = q THEN Holders(q) \cup {g} ELSE Holders(p)
    <3>1. CASE Mmap(t, o) \/ FbCreate(t, o) \/ FbCreateHandle(t, o)
      BY <3>1, ShareHolders DEF Mmap, FbCreate, FbCreateHandle, LookupRef, Get
    <3>2. CASE CreateHandle(t)
      BY <3>2, HandleHolders DEF CreateHandle, Get, Tags
    <3>3. CASE FbCreateFails(t, o)
      BY <3>3, LookupHolders DEF FbCreateFails, LookupRef, Get
    <3> QED BY <1>4, <3>1, <3>2, <3>3
  <2> QED BY <2>1, <1>b, <1>c, <1>0, CountGained DEF LifeType
<1>5. ASSUME NEW t \in Threads, CreateDrop(t) \/ Unref(t) PROVE Counted(p)
  <2>1. heap' = heap /\ refs' = [refs EXCEPT ![obj[t]] = @ - 1]
    BY <1>5 DEF CreateDrop, Unref, Put
  <2> QED BY <2>1, <1>5, <1>b, <1>c, <1>0, DropHolders, CountLost DEF LifeType
<1>6. ASSUME NEW t \in Threads, CreateFails(t) \/ Reap(t) PROVE Counted(p)
  <2>1. /\ refs' = refs /\ heap'[obj[t]] # "live"
        /\ p # obj[t] => heap'[p] = heap[p]
    BY <1>6, <1>0 DEF CreateFails, Reap, ThreadsOK, LifeType
  <2> QED BY <2>1, <1>6, <1>b, LastHolders
<1>7. ASSUME NEW t \in Threads, NEW o, NEW k,
             \/ BeginFault(t, o) \/ BeginPin(t, o)
             \/ BeginUnpin(t, o) \/ MapIoctl(t, o) \/ Lock(t) \/ FaultInterrupted(t)
             \/ BindSpace(t) \/ BindSpaceFails(t) \/ BindPages(t) \/ BindPagesFails(t)
             \/ BindWrite(t) \/ BindFlush(t) \/ FinishPin(t) \/ FinishFault(t, k)
             \/ UnpinBug(t) \/ UnpinKeep(t) \/ UnpinLast(t)
             \/ UnbindZap(t) \/ UnbindClear(t) \/ UnbindFlush(t)
             \/ UnbindPutPages(t) \/ UnbindPutBlock(t) \/ UnbindDone(t)
             \/ FreeBug(t) \/ Free(t)
      PROVE  Counted(p)
  <2>1. UNCHANGED <<heap, refs>>
    BY <1>7, LifeFrame DEF lifeVars, MapIoctl
  <2>2. Holders(p)' = Holders(p)
    BY <1>7, RestHolders
  <2> QED BY <2>1, <2>2, <1>b
<1>8. ASSUME NEW s \in Slots, DeviceFetch(s) PROVE Counted(p)
  <2>1. UNCHANGED <<heap, refs, handle, vma, fb, thrVars>>
    BY <1>8 DEF DeviceFetch, lifeVars
  <2>2. Holders(p)' = Holders(p)
    BY <2>1 DEF Holders, Holding, thrVars
  <2> QED BY <2>1, <2>2, <1>b
<1> QED
  BY <1>1, <1>2, <1>3, <1>4, <1>5, <1>6, <1>7, <1>8 DEF Next, Request, Run

LEMMA InitRefs == Init => RefsInv
BY InitType, GemAssumption DEF Init, RefsInv, NewObjects, Unknown, RefsAccounted

LEMMA NextRefsInv ==
  ASSUME RefsInv, [Next]_vars
  PROVE  RefsInv'
BY NextLifeType, NextBindType, NextDeviceType, NextThreads, NextNew, NextRefs
DEF RefsInv, TypeInv, TypeOK

\* The count of a live object is the number of its holders, on every
\* interleaving of any number of threads, with early closes too: whatever
\* xengfx_gem_free_object frees had no holder left.
THEOREM RefsAccountedHolds == Spec => []RefsAccounted
<1>1. Init => RefsInv
  BY InitRefs
<1>2. RefsInv /\ [Next]_vars => RefsInv'
  BY NextRefsInv
<1>3. RefsInv => RefsAccounted
  BY DEF RefsInv
<1> QED BY <1>1, <1>2, <1>3, PTL DEF Spec

-----------------------------------------------------------------------------
(* Objects without a holder.                                               *)

Acts(t) == Request(t) \/ Lock(t) \/ FaultInterrupted(t) \/ Run(t)

\* A thread does not move another one.
LEMMA OthersStay ==
  ASSUME ThreadType, NEW t \in Threads, Acts(t), NEW u \in Threads, u # t
  PROVE  UNCHANGED <<pc[u], job[u], obj[u], cur[u]>>
BY DEF Acts, Request, Run, CreateAlloc, CloseHandle, Mmap, Munmap, FbCreate,
       FbCreateFails, FbCreateHandle, FbDestroy, CreateHandle,
       BeginFault, BeginPin, BeginUnpin, MapIoctl, Lock, FaultInterrupted, BindSpace,
       BindSpaceFails, BindPages, BindPagesFails, BindWrite, BindFlush, FinishPin, FinishFault,
       UnpinBug, UnpinKeep, UnpinLast, UnbindZap, UnbindClear, UnbindFlush, UnbindPutPages,
       UnbindPutBlock, UnbindDone, FreeBug, Free, Oops, AfterUnpin, Return, Goto, Start, thrVars,
       ThreadType, CreateFails, CreateDrop, Unref, Reap

\* A thread that is freeing an object goes on with it to the end.
LEMMA FreeingGoesOn ==
  ASSUME TypeInv, NEW t \in Threads, Acts(t), NEW p \in Objs, Freeing(t, p), heap'[p] = "live"
  PROVE  Freeing(t, p)'
<1>0. ThreadType /\ ThreadsOK /\ LifeType
  BY DEF TypeInv, TypeOK
<1>1. pc[t] \in TeardownPcs \cup {"oops"} /\ obj[t] = p /\ job[t] \in {"create", "unref"}
  BY DEF Freeing
<1>2. \/ UnpinBug(t) \/ UnpinKeep(t) \/ UnpinLast(t) \/ UnbindZap(t) \/ UnbindClear(t)
      \/ UnbindFlush(t) \/ UnbindPutPages(t) \/ UnbindPutBlock(t) \/ UnbindDone(t)
      \/ FreeBug(t) \/ Free(t) \/ Reap(t)
  BY <1>1
  DEF Acts, Request, Run, CreateAlloc, CloseHandle, Mmap, Munmap, FbCreate,
      FbCreateFails, FbCreateHandle, FbDestroy, CreateHandle,
       BeginFault, BeginPin, BeginUnpin, MapIoctl, Lock, FaultInterrupted, BindSpace,
       BindSpaceFails, BindPages, BindPagesFails, BindWrite, BindFlush, FinishPin, FinishFault,
       Start, CreateFails, CreateDrop, Unref, TeardownPcs, UnbindPcs
<1>3. ~ Reap(t)
  BY <1>0, <1>1 DEF Reap, LifeType
<1>4. /\ \E l \in TeardownPcs \cup {"oops"} : Goto(t, l)
      /\ UNCHANGED <<job, obj>>
  BY <1>1, <1>2, <1>3
  DEF UnpinBug, UnpinKeep, UnpinLast, UnbindZap, UnbindClear, UnbindFlush, UnbindPutPages,
      UnbindPutBlock, UnbindDone, FreeBug, Free, Oops, AfterUnpin, TeardownPcs, UnbindPcs
<1> QED BY <1>0, <1>1, <1>4 DEF Freeing, Goto, ThreadType

\* Only the last drop takes a count to zero, and its thread goes on to free.
LEMMA LastDropFrees ==
  ASSUME TypeInv, [Next]_vars, NEW p \in Objs, heap'[p] = "live", refs'[p] = 0,
         heap[p] = "live" => refs[p] > 0
  PROVE  \E t \in Threads : Freeing(t, p)'
<1>0. ThreadType /\ ThreadsOK /\ LifeType
  BY DEF TypeInv, TypeOK
<1>1. refs'[p] # refs[p] \/ heap[p] # "live"
  OBVIOUS
<1>2. ASSUME NEW t \in Threads, CreateDrop(t) \/ Unref(t), obj[t] = p
      PROVE  Freeing(t, p)'
  <2>1. refs'[p] = refs[p] - 1 /\ refs[p] = 1
    BY <1>2, <1>0 DEF CreateDrop, Unref, Put, LifeType
  <2>2. Goto(t, "free") /\ UNCHANGED <<job, obj>> /\ job[t] \in {"create", "unref"}
    BY <1>2, <2>1, <1>0 DEF CreateDrop, Unref, LastRef, ThreadsOK
  <2> QED BY <2>2, <1>2, <1>0 DEF Freeing, Goto, ThreadType, TeardownPcs
<1>3. ASSUME NEW t \in Threads, CreateDrop(t) \/ Unref(t)
      PROVE  obj[t] = p
  BY <1>1, <1>3, <1>0 DEF CreateDrop, Unref, Put, LifeType
<1>4. ASSUME NEW t \in Threads, NEW o \in Objs, NEW n \in Sizes, CreateAlloc(t, o, n)
      PROVE  FALSE
  BY <1>1, <1>4, <1>0 DEF CreateAlloc, LifeType
<1>5. ASSUME NEW t \in Threads, NEW o \in Objs, \/ CloseHandle(t, o) \/ MapIoctl(t, o)
             \/ Munmap(t, o) \/ FbDestroy(t, o) \/ CreateFails(t) \/ Reap(t)
      PROVE  FALSE
  BY <1>1, <1>5, <1>0 DEF CloseHandle, MapIoctl, Munmap, FbDestroy, CreateFails, Reap, LifeType
<1>6. ASSUME NEW t \in Threads, NEW o \in Objs, \/ Mmap(t, o) \/ FbCreate(t, o)
             \/ FbCreateFails(t, o) \/ FbCreateHandle(t, o) \/ CreateHandle(t)
      PROVE  FALSE
  <2>1. PICK q \in Objs : heap' = heap /\ refs' = [refs EXCEPT ![q] = @ + 1]
    BY <1>6, <1>0
    DEF Mmap, FbCreate, FbCreateFails, FbCreateHandle, CreateHandle, LookupRef, Get, ThreadsOK
  <2>2. refs'[p] >= refs[p]
    BY <2>1, <1>0 DEF LifeType
  <2> QED BY <2>1, <2>2, <1>0 DEF LifeType
<1>7. ~ UNCHANGED <<heap, refs>>
  BY <1>1
<1> QED
  BY <1>2, <1>3, <1>4, <1>5, <1>6, <1>7, LifeFrame
  DEF Next, Request, Run, vars, lifeVars
LEMMA NextLeaks ==
  ASSUME TypeInv, RefsAccounted, RefsAccounted', NothingLeaks, [Next]_vars
  PROVE  NothingLeaks'
<1>0. ThreadType /\ ThreadsOK /\ LifeType
  BY DEF TypeInv, TypeOK
<1> SUFFICES ASSUME NEW p \in Objs, heap'[p] = "live", Holders(p)' = {}
             PROVE  \E t \in Threads : Freeing(t, p)'
  BY DEF NothingLeaks
<1>1. refs'[p] = 0
  BY FS_EmptySet DEF RefsAccounted
<1>2. ASSUME heap[p] = "live" => Holders(p) # {}
      PROVE  \E t \in Threads : Freeing(t, p)'
  <2>1. ASSUME heap[p] = "live" PROVE refs[p] > 0
    <3>1. Cardinality(Holders(p)) \in Nat /\ Cardinality(Holders(p)) # 0
      BY <1>2, <2>1, HoldersFinite, FS_CardinalityType, FS_EmptySet
    <3> QED BY <2>1, <3>1 DEF RefsAccounted
  <2> QED BY <1>1, <2>1, LastDropFrees
<1>3. ASSUME heap[p] = "live", Holders(p) = {}
      PROVE  \E t \in Threads : Freeing(t, p)'
  <2>1. PICK t \in Threads : Freeing(t, p)
    BY <1>3 DEF NothingLeaks
  <2>2. CASE UNCHANGED <<pc[t], job[t], obj[t]>>
    BY <2>1, <2>2 DEF Freeing
  <2>3. CASE Acts(t)
    BY <2>1, <2>3, FreeingGoesOn
  <2>4. ASSUME NEW u \in Threads, u # t, Acts(u)
        PROVE  UNCHANGED <<pc[t], job[t], obj[t]>>
    BY <2>4, <1>0, OthersStay
  <2>5. ASSUME NEW s \in Slots, DeviceFetch(s)
        PROVE  UNCHANGED <<pc[t], job[t], obj[t]>>
    BY <2>5 DEF DeviceFetch, thrVars
  <2> QED BY <2>2, <2>3, <2>4, <2>5 DEF Next, vars, thrVars, Acts
<1> QED BY <1>2, <1>3

\* Whoever drops the last reference frees the object, on every interleaving
\* of creations, closes, mappings and framebuffers: no object is forgotten,
\* except by a thread that BUG_ON stopped on the way.
THEOREM NothingLeaksHolds == Spec => []NothingLeaks
<1>1. Init => RefsInv /\ NothingLeaks
  BY InitRefs DEF Init, NothingLeaks
<1>2. RefsInv /\ [Next]_vars => RefsInv'
  BY NextRefsInv
<1>3. RefsInv /\ RefsInv' /\ NothingLeaks /\ [Next]_vars => NothingLeaks'
  BY NextLeaks DEF RefsInv
<1> QED BY <1>1, <1>2, <1>3, PTL DEF Spec
-----------------------------------------------------------------------------
(* The work of the owner of struct_mutex.                                  *)

\* What a step of t in struct_mutex does to t: it goes on to another label
\* or it returns.
LEMMA InsideGoesOn ==
  ASSUME TypeInv, NEW t \in Threads, Acts(t), pc[t] \in Locked, mutex = t, mutex' = t
  PROVE  /\ UNCHANGED <<job, obj>>
         /\ \/ BindSpace(t) \/ BindPages(t) \/ BindWrite(t) \/ BindFlush(t)
            \/ UnpinKeep(t) \/ UnpinLast(t) \/ UnbindZap(t) \/ UnbindClear(t)
            \/ UnbindFlush(t) \/ UnbindPutPages(t) \/ UnbindPutBlock(t) \/ UnbindDone(t)
            \/ Unref(t) \/ Free(t)
         /\ pc[t] \in {"unpin", "uflush2"} => pc'[t] \in {"reap", "zap"}
         /\ pc[t] = "unref" => pc'[t] = "free"
<1>0. ThreadType /\ ThreadsOK /\ NoThread \notin Threads
  BY GemAssumption DEF TypeInv, TypeOK
<1>1. ~ Request(t) /\ ~ Lock(t) /\ ~ FaultInterrupted(t) /\ ~ CreateHandle(t) /\ ~ CreateFails(t)
      /\ ~ CreateDrop(t)
  BY DEF Request, Lock, FaultInterrupted, CreateHandle, CreateFails, CreateDrop, CreateAlloc, MapIoctl,
         CloseHandle, Mmap, Munmap, FbCreate,
         FbCreateFails, FbCreateHandle, FbDestroy, BeginFault, BeginPin, BeginUnpin, Start,
         Locked, AcquirePcs, TeardownPcs, BindPcs, UnbindPcs
<1>2. ~ Return(t, Unlocked(t))
  BY <1>0 DEF Return, Unlocked
<1>3. ASSUME NEW k
      PROVE  /\ ~ BindSpaceFails(t) /\ ~ BindPagesFails(t) /\ ~ FinishPin(t)
             /\ ~ FinishFault(t, k) /\ ~ Reap(t)
  BY <1>2 DEF BindSpaceFails, BindPagesFails, FinishPin, FinishFault, Reap, UnlockedOnError
<1>4. ~ UnpinBug(t) /\ ~ FreeBug(t)
  BY <1>0 DEF UnpinBug, FreeBug
<1>5. \/ BindSpace(t) \/ BindPages(t) \/ BindWrite(t) \/ BindFlush(t)
      \/ UnpinKeep(t) \/ UnpinLast(t) \/ UnbindZap(t) \/ UnbindClear(t)
      \/ UnbindFlush(t) \/ UnbindPutPages(t) \/ UnbindPutBlock(t) \/ UnbindDone(t)
      \/ Unref(t) \/ Free(t)
  BY <1>1, <1>3, <1>4 DEF Acts, Run
<1> QED
  BY <1>0, <1>2, <1>5
  DEF BindSpace, BindPages, BindWrite, BindFlush, UnpinKeep, UnpinLast, UnbindZap, UnbindClear,
      UnbindFlush, UnbindPutPages, UnbindPutBlock, UnbindDone, Unref, Free, AfterUnpin, Goto,
      ThreadType

\* The loops stay within the object.
LEMMA NextLoops ==
  ASSUME TypeInv, NewObjects, OwnerInv, [Next]_vars
  PROVE  /\ \A o \in Objs : heap'[o] # "none" => size'[o] # 0
         /\ \A t \in Threads : pc[t] # "idle" => size'[obj[t]] = size[obj[t]]
<1>0. ThreadType /\ ThreadsOK /\ LifeType
  BY DEF TypeInv, TypeOK
<1>1. CASE size' = size /\ \A o \in Objs : heap'[o] # "none" => heap[o] # "none"
  BY <1>1 DEF OwnerInv
<1>2. ASSUME NEW t \in Threads, NEW o \in Objs, NEW n \in Sizes, CreateAlloc(t, o, n)
      PROVE  /\ \A p \in Objs : heap'[p] # "none" => size'[p] # 0
             /\ \A u \in Threads : pc[u] # "idle" => size'[obj[u]] = size[obj[u]]
  <2>1. \A u \in Threads : obj[u] # o
    BY <1>2 DEF CreateAlloc, NewObjects
  <2> QED BY <2>1, <1>2, <1>0, GemAssumption DEF CreateAlloc, OwnerInv, LifeType, ThreadsOK
<1>3. ASSUME NEW t \in Threads, NEW o, \/ CloseHandle(t, o) \/ MapIoctl(t, o)
             \/ Mmap(t, o) \/ Munmap(t, o) \/ FbCreate(t, o) \/ FbDestroy(t, o)
             \/ FbCreateFails(t, o) \/ FbCreateHandle(t, o)
             \/ CreateHandle(t) \/ CreateDrop(t) \/ Unref(t) \/ CreateFails(t) \/ Reap(t)
      PROVE  size' = size /\ \A p \in Objs : heap'[p] # "none" => heap[p] # "none"
  <2>1. CreateFails(t) \/ Reap(t) => obj[t] \in Objs /\ heap[obj[t]] # "none"
    BY <1>0 DEF CreateFails, Reap, ThreadsOK, NewObjects
  <2> QED
    BY <2>1, <1>3, <1>0
    DEF CloseHandle, MapIoctl, Mmap, Munmap, FbCreate,
        FbCreateFails, FbCreateHandle, FbDestroy, CreateHandle, CreateDrop, Unref,
        CreateFails, Reap, LifeType
<1> QED BY <1>1, <1>2, <1>3, LifeFrame DEF Next, Request, Run, vars, lifeVars

\* A step of the mutex' owner, seen from itself.
LEMMA OwnerGoesOn ==
  ASSUME RefsInv, OwnerInv, [Next]_vars, NEW t \in Threads, Acts(t), mutex' = t
  PROVE  /\ pc'[t] \in Locked
         /\ mutex = t => Work(t)' < Work(t) /\ ~ UNCHANGED <<pc[t], cur[t]>>
<1> USE GemAssumption
<1>0. /\ ThreadType /\ ThreadsOK /\ LifeType /\ TypeInv /\ NewObjects /\ NoThread \notin Threads
  BY DEF RefsInv, TypeInv, TypeOK
<1>1. CASE mutex # t
  <2>1. Lock(t)
    BY <1>1, <1>0
    DEF Acts, Request, Run, CreateAlloc, CloseHandle, Mmap, Munmap, FbCreate,
        FbCreateFails, FbCreateHandle, FbDestroy, CreateHandle,
       BeginFault, BeginPin, BeginUnpin, MapIoctl, Lock, FaultInterrupted, BindSpace,
       BindSpaceFails, BindPages, BindPagesFails, BindWrite, BindFlush, FinishPin, FinishFault,
       UnpinBug, UnpinKeep, UnpinLast, UnbindZap, UnbindClear, UnbindFlush, UnbindPutPages,
       UnbindPutBlock, UnbindDone, FreeBug, Free, Oops, AfterUnpin, Return, Unlocked, UnlockedOnError,
       Start, CreateFails, CreateDrop, Unref, Reap
  <2> QED
    BY <2>1, <1>1, <1>0 DEF Lock, FirstLabel, Goto, ThreadType, ThreadsOK, Locked, AcquirePcs,
                            TeardownPcs
<1>2. CASE mutex = t
  <2>1. pc[t] \in Locked
    BY <1>2 DEF OwnerInv
  <2>2. /\ UNCHANGED <<job, obj>>
        /\ \/ BindSpace(t) \/ BindPages(t) \/ BindWrite(t) \/ BindFlush(t)
           \/ UnpinKeep(t) \/ UnpinLast(t) \/ UnbindZap(t) \/ UnbindClear(t)
           \/ UnbindFlush(t) \/ UnbindPutPages(t) \/ UnbindPutBlock(t) \/ UnbindDone(t)
           \/ Unref(t) \/ Free(t)
        /\ pc[t] \in {"unpin", "uflush2"} => pc'[t] \in {"reap", "zap"}
        /\ pc[t] = "unref" => pc'[t] = "free"
    BY <1>0, <1>2, <2>1, InsideGoesOn
  <2>3. obj[t] \in Objs /\ pc[t] # "idle"
    BY <2>1, <1>0 DEF ThreadsOK, Locked, AcquirePcs, TeardownPcs, BindPcs, UnbindPcs
  <2>4. PICK n \in Nat : n = size[obj[t]] /\ n = size'[obj'[t]] /\ n # 0
    <3>1. heap[obj[t]] # "none"
      BY <2>3, <1>0 DEF NewObjects
    <3> QED BY <2>2, <2>3, <3>1, <1>0, NextLoops DEF LifeType, OwnerInv
  <2>5. PICK c \in Nat : c = cur[t] /\ (pc[t] \in {"write", "clear"} => c < n)
    <3>1. cur[t] \in Nat
      BY <1>0 DEF ThreadType
    <3>2. pc[t] \in {"write", "clear"} => cur[t] < size[obj[t]]
      BY DEF OwnerInv
    <3> QED BY <2>4, <3>1, <3>2
  <2>6. \/ pc[t] = "space"    /\ pc'[t] = "pages"
        \/ pc[t] = "pages"    /\ pc'[t] = "write" /\ cur'[t] = 0
        \/ pc[t] = "write"    /\ cur'[t] = cur[t] + 1
             /\ pc'[t] = IF cur[t] + 1 = size[obj[t]] THEN "flush" ELSE "write"
        \/ pc[t] = "flush"    /\ pc'[t] = "finish"
        \/ pc[t] = "unpin"    /\ pc'[t] \in {"reap", "zap"}
        \/ pc[t] = "zap"      /\ pc'[t] = "clear" /\ cur'[t] = 0
        \/ pc[t] = "clear"    /\ cur'[t] = cur[t] + 1
             /\ pc'[t] = IF cur[t] + 1 = size[obj[t]] THEN "uflush" ELSE "clear"
        \/ pc[t] = "uflush"   /\ pc'[t] = "putpages"
        \/ pc[t] = "putpages" /\ pc'[t] = "putblock"
        \/ pc[t] = "putblock" /\ pc'[t] = "uflush2"
        \/ pc[t] = "uflush2"  /\ pc'[t] = "reap"
        \/ pc[t] = "unref"    /\ pc'[t] = "free"
        \/ pc[t] = "free"     /\ pc'[t] \in {"unpin", "reap"}
    <3>1. CASE UnpinKeep(t) \/ UnbindDone(t) \/ Unref(t)
      BY <2>2, <3>1, <1>0 DEF UnpinKeep, UnbindDone, Unref, AfterUnpin, Goto, Return, ThreadType
    <3>2. CASE BindWrite(t) \/ UnbindClear(t) \/ BindPages(t) \/ UnbindZap(t)
      BY <3>2, <1>0 DEF BindWrite, UnbindClear, BindPages, UnbindZap, Goto, ThreadType
    <3>3. CASE \/ BindSpace(t) \/ BindFlush(t) \/ UnpinLast(t) \/ UnbindFlush(t)
               \/ UnbindPutPages(t) \/ UnbindPutBlock(t) \/ Free(t)
      BY <3>3, <1>0
      DEF BindSpace, BindFlush, UnpinLast, UnbindFlush, UnbindPutPages, UnbindPutBlock, Free, Goto,
          ThreadType
    <3> QED BY <2>2, <3>1, <3>2, <3>3
  <2>7. \/ pc[t] = "write" /\ cur'[t] = c + 1 /\ (pc'[t] = "write" \/ pc'[t] = "flush")
        \/ pc[t] = "clear" /\ cur'[t] = c + 1 /\ (pc'[t] = "clear" \/ pc'[t] = "uflush")
        \/ pc'[t] # pc[t]
    BY <2>5, <2>6
  <2>8. pc'[t] \in Locked
    BY <2>6 DEF Locked, AcquirePcs, TeardownPcs, BindPcs, UnbindPcs
  <2>9. Work(t)' < Work(t)
    BY <2>4, <2>5, <2>6 DEF Work, Rest
  <2> QED BY <2>5, <2>7, <2>8, <2>9
<1> QED BY <1>1, <1>2

\* A step of anybody else, seen from the owner.
LEMMA OwnerUndisturbed ==
  ASSUME RefsInv, OwnerInv, [Next]_vars, NEW t \in Threads, ~ Acts(t)
  PROVE  /\ UNCHANGED <<pc[t], cur[t], obj[t]>>
         /\ mutex' = t => mutex = t
         /\ pc[t] # "idle" => Work(t)' = Work(t)
<1>0. /\ ThreadType /\ ThreadsOK /\ LifeType /\ TypeInv /\ NewObjects
  BY DEF RefsInv, TypeInv, TypeOK
<1>1. UNCHANGED <<pc[t], cur[t], obj[t]>> /\ (mutex' = t => mutex = t)
  <2>1. CASE UNCHANGED <<thrVars, mutex>>
    BY <2>1 DEF thrVars
  <2>2. ASSUME NEW u \in Threads, u # t, Acts(u)
        PROVE  UNCHANGED <<pc[t], cur[t], obj[t]>> /\ (mutex' = t => mutex = t)
    <3>1. mutex' \in {mutex, u, NoThread}
      BY <2>2
      DEF Acts, Request, Run, CreateAlloc, CloseHandle, Mmap, Munmap, FbCreate,
          FbCreateFails, FbCreateHandle, FbDestroy, CreateHandle,
       BeginFault, BeginPin, BeginUnpin, MapIoctl, Lock, FaultInterrupted, BindSpace,
       BindSpaceFails, BindPages, BindPagesFails, BindWrite, BindFlush, FinishPin, FinishFault,
       UnpinBug, UnpinKeep, UnpinLast, UnbindZap, UnbindClear, UnbindFlush, UnbindPutPages,
       UnbindPutBlock, UnbindDone, FreeBug, Free, Oops, AfterUnpin, Return, Unlocked, UnlockedOnError,
       Start, CreateFails, CreateDrop, Unref, Reap
    <3> QED BY <3>1, <2>2, <1>0, OthersStay, GemAssumption
  <2>3. ASSUME NEW s \in Slots, DeviceFetch(s) PROVE UNCHANGED <<thrVars, mutex>>
    BY <2>3 DEF DeviceFetch
  <2> QED BY <2>1, <2>2, <2>3 DEF Next, vars, Acts
<1>2. ASSUME pc[t] # "idle" PROVE Work(t)' = Work(t)
  <2>1. size'[obj[t]] = size[obj[t]]
    BY <1>0, <1>2, NextLoops
  <2> QED BY <1>1, <2>1 DEF Work, Rest
<1> QED BY <1>1, <1>2

\* A loop index is that of its owner, and starts at the first page.
LEMMA NextIndex ==
  ASSUME RefsInv, OwnerInv, [Next]_vars, NEW t \in Threads, pc'[t] \in {"write", "clear"}
  PROVE  cur'[t] < size'[obj'[t]]
<1>0. /\ ThreadType /\ ThreadsOK /\ LifeType /\ TypeInv /\ NewObjects
  BY DEF RefsInv, TypeInv, TypeOK
<1>1. CASE ~ Acts(t)
  BY <1>0, <1>1, OwnerUndisturbed, NextLoops DEF OwnerInv
<1>2. CASE Acts(t)
  <2>1. BindPages(t) \/ BindWrite(t) \/ UnbindZap(t) \/ UnbindClear(t)
    BY <1>2, <1>0
    DEF Acts, Request, Run, CreateAlloc, CloseHandle, Mmap, Munmap, FbCreate,
        FbCreateFails, FbCreateHandle, FbDestroy, CreateHandle,
       BeginFault, BeginPin, BeginUnpin, MapIoctl, Lock, FaultInterrupted, BindSpace,
       BindSpaceFails, BindPagesFails, BindFlush, FinishPin, FinishFault,
       UnpinBug, UnpinKeep, UnpinLast, UnbindFlush, UnbindPutPages, FirstLabel, thrVars,
       UnbindPutBlock, UnbindDone, FreeBug, Free, Oops, AfterUnpin, Return, Goto,
       Start, CreateFails, CreateDrop, Unref, Reap, ThreadType, ThreadsOK
  <2>2. pc[t] # "idle" /\ obj[t] \in Objs /\ obj'[t] = obj[t]
    BY <2>1, <1>0 DEF BindPages, BindWrite, UnbindZap, UnbindClear, ThreadsOK
  <2>3. size'[obj'[t]] = size[obj[t]] /\ size[obj[t]] \in Nat /\ size[obj[t]] # 0
    BY <2>2, <1>0, NextLoops DEF NewObjects, OwnerInv, LifeType
  <2>4. CASE BindPages(t) \/ UnbindZap(t)
    <3>1. cur'[t] = 0
      BY <2>4, <1>0 DEF BindPages, UnbindZap, ThreadType
    <3> QED BY <3>1, <2>3
  <2>5. CASE BindWrite(t) \/ UnbindClear(t)
    <3>1. cur'[t] = cur[t] + 1 /\ cur[t] \in Nat /\ cur[t] < size[obj[t]]
      BY <2>5, <1>0 DEF BindWrite, UnbindClear, OwnerInv, ThreadType
    <3>2. cur[t] + 1 # size[obj[t]]
      BY <2>5, <1>0 DEF BindWrite, UnbindClear, Goto, ThreadType
    <3> QED BY <3>1, <3>2, <2>3
  <2> QED BY <2>1, <2>4, <2>5
<1> QED BY <1>1, <1>2

LEMMA NextOwner ==
  ASSUME RefsInv, OwnerInv, [Next]_vars
  PROVE  OwnerInv'
<1>0. TypeInv /\ NewObjects
  BY DEF RefsInv
<1>1. ASSUME NEW t \in Threads, mutex' = t PROVE pc'[t] \in Locked
  <2>1. CASE Acts(t)
    BY <1>1, <2>1, OwnerGoesOn
  <2>2. CASE ~ Acts(t)
    BY <1>1, <2>2, OwnerUndisturbed DEF OwnerInv
  <2> QED BY <2>1, <2>2
<1>2. \A o \in Objs : heap'[o] # "none" => size'[o] # 0
  BY <1>0, NextLoops
<1>3. \A t \in Threads : pc'[t] \in {"write", "clear"} => cur'[t] < size'[obj'[t]]
  BY NextIndex
<1> QED BY <1>1, <1>2, <1>3 DEF OwnerInv, Locked

\* At a locked label there is work to do.
LEMMA LockedWorks ==
  ASSUME RefsInv, OwnerInv, NEW t \in Threads, pc[t] \in Locked
  PROVE  obj[t] \in Objs /\ Work(t) \in 1 .. 9 + size[obj[t]]
<1>0. /\ ThreadType /\ ThreadsOK /\ LifeType /\ NewObjects
  BY DEF RefsInv, TypeInv, TypeOK
<1>1. obj[t] \in Objs /\ pc[t] # "idle"
  BY <1>0 DEF ThreadsOK, Locked, AcquirePcs, TeardownPcs, BindPcs, UnbindPcs
<1>2. size[obj[t]] \in Nat /\ cur[t] \in Nat
  BY <1>0, <1>1 DEF LifeType, ThreadType
<1>3. pc[t] \in {"write", "clear"} => cur[t] < size[obj[t]]
  BY DEF OwnerInv
<1>4. PICK n, c \in Nat :
        n = size[obj[t]] /\ c = cur[t] /\ (pc[t] \in {"write", "clear"} => c < n)
  BY <1>2, <1>3
<1>5. CASE pc[t] \in {"write", "clear"}
  <2>1. Work(t) \in {2 + (n - c), 5 + (n - c)}
    BY <1>4, <1>5 DEF Work, Rest
  <2> QED BY <1>1, <1>4, <1>5, <2>1
<1>6. CASE pc[t] \in Locked \ {"write", "clear"}
  <2>1. Work(t) \in {1, 2, 3, 4, 5, 3 + n, 4 + n, 6 + n, 7 + n, 8 + n, 9 + n}
    BY <1>4, <1>6 DEF Work, Locked, AcquirePcs, TeardownPcs, BindPcs, UnbindPcs
  <2> QED BY <1>1, <1>4, <2>1
<1> QED BY <1>5, <1>6

LEMMA InitOwner == Init => RefsInv /\ OwnerInv
<1>1. Init => OwnerInv
  BY GemAssumption DEF Init, OwnerInv
<1> QED BY <1>1, InitRefs

\* struct_mutex is never left locked: whenever a thread owns it, some step
\* of xengfx_gem.c on its object is still ahead, early closes included.
THEOREM OwnerWorksHolds == Spec => []OwnerWorks
<1>1. Init => RefsInv /\ OwnerInv
  BY InitOwner
<1>2. RefsInv /\ OwnerInv /\ [Next]_vars => (RefsInv /\ OwnerInv)'
  BY NextRefsInv, NextOwner
<1>3. RefsInv /\ OwnerInv => OwnerWorks
  BY LockedWorks DEF OwnerInv, OwnerWorks
<1> QED BY <1>1, <1>2, <1>3, PTL DEF Spec

\* The owner's steps count down to the unlock, those of others do not count
\* up: with OwnerWorks, size + 9 of its steps at most.  That it makes these
\* steps is the fairness MutexReleased assumes.
THEOREM OwnerAdvancesHolds == Spec => OwnerAdvances
<1>1. Init => RefsInv /\ OwnerInv
  BY InitOwner
<1>2. RefsInv /\ OwnerInv /\ [Next]_vars => (RefsInv /\ OwnerInv)'
  BY NextRefsInv, NextOwner
<1>3. ASSUME RefsInv, OwnerInv, [Next]_vars, NEW t \in Threads, mutex = t, mutex' = t
      PROVE  IF UNCHANGED <<pc[t], cur[t]>> THEN Work(t)' = Work(t) ELSE Work(t)' < Work(t)
  <2>1. CASE Acts(t)
    BY <1>3, <2>1, OwnerGoesOn
  <2>2. CASE ~ Acts(t)
    <3>1. pc[t] # "idle"
      BY <1>3 DEF OwnerInv, Locked, AcquirePcs, TeardownPcs, BindPcs, UnbindPcs
    <3> QED BY <1>3, <2>2, <3>1, OwnerUndisturbed
  <2> QED BY <2>1, <2>2
<1>4. RefsInv /\ OwnerInv /\ [Next]_vars =>
        [\A t \in Threads : mutex = t /\ mutex' = t =>
           IF UNCHANGED <<pc[t], cur[t]>> THEN Work(t)' = Work(t)
                                          ELSE Work(t)' < Work(t)]_vars
  BY <1>3
<1> QED BY <1>1, <1>2, <1>4, PTL DEF Spec, OwnerAdvances
=============================================================================
