------------------------- MODULE XenGfxGemLifeProofs -------------------------
(***************************************************************************)
(* Theorems about XenGfxGem for clients that close no handle whose         *)
(* creation still runs (EarlyClose = FALSE): who may still have to do with *)
(* an object, up to the step that frees it.                                *)
(***************************************************************************)
EXTENDS XenGfxGemProofs

ThreadLife(t) ==
  /\ pc[t] # "oops"
  /\ pc[t] # "idle" => heap[obj[t]] = "live"
  /\ job[t] = "create" => pc[t] \in {"handle", "drop"}
  /\ pc[t] = "drop" => handle[obj[t]]
  /\ job[t] = "fault" => vma[obj[t]]
  /\ job[t] \in {"pin", "unpin"} => fb[obj[t]]

TornDown(t) == pc[t] \in TeardownPcs /\ job[t] = "unref" => Holders(obj[t]) = {}

LEMMA LifeParts ==
  LifeInv <=> /\ \A o \in Objs : heap[o] # "live" => Unknown(o)
              /\ \A t \in Threads : ThreadLife(t) /\ TornDown(t)
BY DEF LifeInv, ThreadLife, TornDown

\* With the lock discipline: only the owner of struct_mutex is inside.
LEMMA Alone ==
  ASSUME LockInv, LifeInv, NEW t \in Threads, pc[t] \in Locked
  PROVE  mutex = t
BY DEF LockInv, LifeInv, Locked, AcquirePcs, TeardownPcs, BindPcs, UnbindPcs

\* No other thread has to do with an object that is being freed.
LEMMA NobodyElse ==
  ASSUME TypeInv, LockInv, LifeInv, NEW t \in Threads, pc[t] \in TeardownPcs, job[t] = "unref",
         NEW u \in Threads, u # t, obj[u] = obj[t]
  PROVE  FALSE
<1>0. ThreadType /\ ThreadsOK /\ None \notin Objs
  BY GemAssumption DEF TypeInv, TypeOK
<1>1. pc[t] # "idle" /\ obj[t] \in Objs
  BY <1>0 DEF ThreadsOK, TeardownPcs, UnbindPcs
<1>2. pc[u] # "idle" /\ pc[u] # "oops"
  BY <1>0, <1>1 DEF ThreadsOK, LifeInv
<1>3. pc[u] \notin Locked
  BY <1>0, Alone DEF Locked
<1>4. Holders(obj[t]) = {}
  BY DEF LifeInv
<1>5. ~ vma[obj[t]] /\ ~ fb[obj[t]]
  BY <1>4 DEF Holders, Tags
<1>6. ~ Holding(u, obj[t])
  BY <1>4 DEF Holders
<1>7. pc[u] = "wait" /\ job[u] \in {"fault", "pin", "unpin"}
  BY <1>0, <1>2, <1>3, <1>6 DEF Holding, ThreadType, ThreadsOK, Labels, Locked
<1> QED BY <1>5, <1>7 DEF LifeInv

\* Nobody gets hold of an object that is being freed: only the mutex holder
\* makes new mappings, and nobody else has a handle to look it up.
LEMMA StaysUnheld ==
  ASSUME TypeInv, LifeInv, [Next]_vars, mutex # NoThread,
         NEW p \in Objs, heap[p] = "live", Holders(p) = {}
  PROVE  Holders(p)' = {}
<1> USE GemAssumption
<1>0. ThreadType /\ ThreadsOK /\ LifeType /\ None \notin Objs
  BY DEF TypeInv, TypeOK
<1>a. ~ handle[p] /\ ~ vma[p] /\ ~ fb[p] /\ \A u \in Threads : ~ Holding(u, p)
  BY DEF Holders, Tags
<1> DEFINE Same == ~ handle'[p] /\ ~ vma'[p] /\ ~ fb'[p] /\ \A u \in Threads : ~ Holding(u, p)'
<1>b. SUFFICES Same
  BY DEF Holders
<1>1. CASE UNCHANGED <<handle, vma, fb, thrVars>>
  BY <1>1, <1>a DEF Holding, thrVars
<1>2. ASSUME NEW t \in Threads, NEW o \in Objs, NEW n \in Sizes, CreateAlloc(t, o, n)
      PROVE  Same
  BY <1>2, <1>a, <1>0 DEF CreateAlloc, Start, Goto, Holding, ThreadType
<1>3. ASSUME NEW t \in Threads, NEW o \in Objs, \/ CloseHandle(t, o) \/ Munmap(t, o)
             \/ FbDestroy(t, o) \/ FbCreate(t, o) \/ Mmap(t, o)
             \/ FbCreateFails(t, o) \/ FbCreateHandle(t, o)
      PROVE  Same
  <2>1. o # p
    BY <1>3, <1>a, <1>0
    DEF CloseHandle, Munmap, FbDestroy, FbCreate, FbCreateFails, FbCreateHandle, Mmap
  <2> QED
    BY <2>1, <1>3, <1>a, <1>0
    DEF CloseHandle, Munmap, FbDestroy, FbCreate, FbCreateFails, FbCreateHandle, Mmap, Start, Goto,
        Holding, ThreadType, LifeType, thrVars
<1>4. ASSUME NEW t \in Threads, CreateHandle(t) PROVE Same
  <2>1. obj[t] # p
    BY <1>4, <1>a DEF CreateHandle, Holding
  <2> QED BY <2>1, <1>4, <1>a, <1>0 DEF CreateHandle, Goto, Holding, ThreadType, LifeType
<1>5. ASSUME NEW t \in Threads, NEW o \in Objs, NEW k, \/ CreateFails(t) \/ CreateDrop(t)
             \/ Unref(t) \/ Reap(t) \/ BeginFault(t, o) \/ BeginPin(t, o)
             \/ BeginUnpin(t, o) \/ MapIoctl(t, o) \/ Lock(t) \/ FaultInterrupted(t)
             \/ BindSpace(t) \/ BindSpaceFails(t) \/ BindPages(t) \/ BindPagesFails(t)
             \/ BindWrite(t) \/ BindFlush(t) \/ FinishPin(t) \/ FinishFault(t, k)
             \/ UnpinBug(t) \/ UnpinKeep(t) \/ UnpinLast(t)
             \/ UnbindZap(t) \/ UnbindClear(t) \/ UnbindFlush(t)
             \/ UnbindPutPages(t) \/ UnbindPutBlock(t) \/ UnbindDone(t)
             \/ FreeBug(t) \/ Free(t)
      PROVE  Same
  <2>1. UNCHANGED <<handle, vma, fb>>
    BY <1>5, LifeFrame DEF lifeVars, MapIoctl, CreateFails, CreateDrop, Unref, Reap
  <2>2. \A u \in Threads : u # t => pc'[u] = pc[u] /\ job'[u] = job[u] /\ obj'[u] = obj[u]
    BY <1>5, <1>0
    DEF BeginFault, BeginPin, BeginUnpin, MapIoctl, Lock, FaultInterrupted, BindSpace,
        BindSpaceFails, BindPages, BindPagesFails, BindWrite, BindFlush, FinishPin, FinishFault,
        UnpinBug, UnpinKeep, UnpinLast, UnbindZap, UnbindClear, UnbindFlush, UnbindPutPages,
        UnbindPutBlock, UnbindDone, FreeBug, Free, Oops, AfterUnpin, Return, Goto, Start, thrVars,
        ThreadType, CreateFails, CreateDrop, Unref, Reap
  <2>3. Holding(t, p)' => Holding(t, p)
    BY <1>5, <1>0
    DEF BeginFault, BeginPin, BeginUnpin, MapIoctl, Lock, FaultInterrupted, BindSpace,
        BindSpaceFails, BindPages, BindPagesFails, BindWrite, BindFlush, FinishPin, FinishFault,
        UnpinBug, UnpinKeep, UnpinLast, UnbindZap, UnbindClear, UnbindFlush, UnbindPutPages,
        UnbindPutBlock, UnbindDone, FreeBug, Free, Oops, AfterUnpin, Return, Goto, Start, thrVars,
        Holding, FirstLabel, ThreadsOK, ThreadType, CreateFails, CreateDrop, Unref, Reap
  <2> QED BY <2>1, <2>2, <2>3, <1>a DEF Holding
<1>6. ASSUME NEW s \in Slots, DeviceFetch(s) PROVE Same
  BY <1>6, <1>1 DEF DeviceFetch, lifeVars
<1> QED
  BY <1>1, <1>2, <1>3, <1>4, <1>5, <1>6 DEF Next, Request, Run, vars, lifeVars

\* The last reference goes: nobody holds the object any more.
LEMMA LastGone ==
  ASSUME TypeInv, RefsAccounted, LifeInv, NEW t \in Threads,
         (pc[t] \in {"drop", "unref"} /\ LastRef(obj[t]))
  PROVE  Holders(obj[t]) = {t}
<1>0. ThreadType /\ ThreadsOK /\ LifeType
  BY DEF TypeInv, TypeOK
<1>1. obj[t] \in Objs /\ heap[obj[t]] = "live"
  BY <1>0 DEF ThreadsOK, LifeInv
<1>2. Cardinality(Holders(obj[t])) = 1
  BY <1>1 DEF RefsAccounted, LastRef
<1>3. t \in Holders(obj[t])
  BY DEF Holders, Holding
<1>4. IsFiniteSet(Holders(obj[t]) \ {t}) /\ Cardinality(Holders(obj[t]) \ {t}) = 0
  BY <1>2, <1>3, HoldersFinite, CountLost
<1>5. Holders(obj[t]) \ {t} = {}
  BY <1>4, FS_EmptySet
<1> QED BY <1>3, <1>5

\* A creator never drops the last reference: the handle has one.
LEMMA CreatorNotLast ==
  ASSUME TypeInv, RefsAccounted, LifeInv, NEW t \in Threads, pc[t] = "drop"
  PROVE  ~ LastRef(obj[t])
<1>1. "handle" \in Holders(obj[t])
  BY DEF LifeInv, Holders, Tags
<1>2. "handle" # t
  BY GemAssumption DEF Tags
<1> QED BY <1>1, <1>2, LastGone

\* BUG_ON(!mutex_is_locked) does not fire.
LEMMA NoBug ==
  ASSUME LockInv, LifeInv, NEW t \in Threads, NEW s
  PROVE  ~ FreeBug(t) /\ ~ UnpinBug(t)
<1>1. NoThread \notin Threads
  BY GemAssumption
<1>2. {"free", "unpin"} \subseteq Locked
  BY DEF Locked, TeardownPcs
<1> QED BY <1>1, <1>2, Alone DEF FreeBug, UnpinBug

Gone(o) == heap[o] # "live" => Unknown(o)

LEMMA NextGone ==
  ASSUME RefsInv, LockInv, LifeInv, [Next]_vars, NEW p \in Objs
  PROVE  Gone(p)'
<1> USE GemAssumption
<1>0. /\ ThreadType /\ ThreadsOK /\ LifeType /\ None \notin Objs
      /\ TypeInv /\ NewObjects /\ RefsAccounted /\ Gone(p)
  BY DEF RefsInv, TypeInv, TypeOK, LifeInv, Gone
<1>1. CASE UNCHANGED <<heap, handle, vma, fb, moff>>
  BY <1>1, <1>0 DEF Gone, Unknown
<1>2. ASSUME NEW t \in Threads, NEW o \in Objs, NEW n \in Sizes, CreateAlloc(t, o, n)
      PROVE  Gone(p)'
  BY <1>2, <1>0 DEF CreateAlloc, Gone, Unknown, LifeType
<1>3. ASSUME NEW t \in Threads, NEW o \in Objs, \/ CloseHandle(t, o) \/ MapIoctl(t, o)
             \/ Mmap(t, o) \/ Munmap(t, o) \/ FbCreate(t, o) \/ FbDestroy(t, o)
             \/ FbCreateFails(t, o) \/ FbCreateHandle(t, o)
      PROVE  Gone(p)'
  <2>1. ~ Unknown(o)
    BY <1>3
    DEF CloseHandle, MapIoctl, Mmap, Munmap, FbCreate, FbCreateFails, FbCreateHandle, FbDestroy,
        Unknown
  <2>2. heap' = heap /\ (p # o => (Unknown(p)' <=> Unknown(p)))
    BY <1>3, <1>0
    DEF CloseHandle, MapIoctl, Mmap, Munmap, FbCreate, FbCreateFails, FbCreateHandle, FbDestroy,
        Unknown, LifeType
  <2> QED BY <2>1, <2>2, <1>0 DEF Gone
<1>4. ASSUME NEW t \in Threads, CreateHandle(t) PROVE Gone(p)'
  <2>1. heap[obj[t]] = "live"
    BY <1>4 DEF CreateHandle, LifeInv
  <2>2. heap' = heap /\ (p # obj[t] => (Unknown(p)' <=> Unknown(p)))
    BY <1>4, <1>0 DEF CreateHandle, Unknown, LifeType
  <2> QED BY <2>1, <2>2, <1>0 DEF Gone
<1>5. ASSUME NEW t \in Threads, CreateFails(t) PROVE Gone(p)'
  <2>1. Unknown(obj[t])
    BY <1>5, <1>0 DEF CreateFails, NewObjects
  <2>2. (p # obj[t] => heap'[p] = heap[p]) /\ UNCHANGED <<handle, vma, fb, moff>>
    BY <1>5, <1>0 DEF CreateFails, LifeType
  <2> QED BY <2>1, <2>2, <1>0 DEF Gone, Unknown
<1>6. ASSUME NEW t \in Threads, Reap(t) PROVE Gone(p)'
  <2>1. pc[t] = "reap" /\ job[t] = "unref" /\ obj[t] \in Objs
    BY <1>6, <1>0 DEF Reap, ThreadsOK, LifeInv
  <2>2. Holders(obj[t]) = {}
    BY <2>1 DEF LifeInv, TeardownPcs
  <2>3. ~ handle[obj[t]] /\ ~ vma[obj[t]] /\ ~ fb[obj[t]]
    BY <2>2 DEF Holders, Tags
  <2>4. /\ ~ moff'[obj[t]] /\ UNCHANGED <<handle, vma, fb>>
        /\ p # obj[t] => heap'[p] = heap[p] /\ moff'[p] = moff[p]
    BY <1>6, <2>1, <1>0 DEF Reap, OffsetsAfterFree, LifeType
  <2> QED BY <2>3, <2>4, <1>0 DEF Gone, Unknown
<1>7. ASSUME NEW t \in Threads, CreateDrop(t) \/ Unref(t) PROVE Gone(p)'
  BY <1>7, <1>1 DEF CreateDrop, Unref
<1> QED
  BY <1>1, <1>2, <1>3, <1>4, <1>5, <1>6, <1>7, LifeFrame DEF Next, Request, Run, vars, lifeVars

\* What a step of one thread leaves to another.
LEMMA OthersKept ==
  ASSUME RefsInv, LockInv, LifeInv, [Next]_vars, NEW u \in Threads,
         UNCHANGED <<pc[u], job[u], obj[u]>>,
         pc[u] # "idle" => heap'[obj[u]] = "live",
         pc[u] = "drop" => handle'[obj[u]],
         job[u] = "fault" => vma'[obj[u]],
         job[u] \in {"pin", "unpin"} => fb'[obj[u]]
  PROVE  ThreadLife(u)' /\ TornDown(u)'
<1> USE GemAssumption
<1>0. ThreadType /\ ThreadsOK /\ TypeInv /\ NoThread \notin Threads
  BY DEF RefsInv, TypeInv, TypeOK
<1>1. ThreadLife(u)'
  BY DEF ThreadLife, LifeInv
<1>2. ASSUME pc[u] \in TeardownPcs, job[u] = "unref"
      PROVE  Holders(obj[u])' = {}
  <2>1. Holders(obj[u]) = {} /\ heap[obj[u]] = "live" /\ obj[u] \in Objs
    BY <1>2, <1>0 DEF LifeInv, ThreadsOK, TeardownPcs, UnbindPcs
  <2>2. mutex = u
    BY <1>2, Alone DEF Locked
  <2>3. PICK p \in Objs : p = obj[u]
    BY <2>1
  <2>4. Holders(p)' = {}
    BY <2>1, <2>2, <2>3, <1>0, StaysUnheld
  <2> QED BY <2>3, <2>4 DEF Holders, Holding
<1> QED BY <1>1, <1>2 DEF TornDown

\* A step of thread t, seen from another thread.
LEMMA NextOthers ==
  ASSUME EarlyClose = FALSE, RefsInv, LockInv, LifeInv, [Next]_vars,
         NEW t \in Threads, Request(t) \/ Lock(t) \/ FaultInterrupted(t) \/ Run(t),
         NEW u \in Threads, u # t
  PROVE  ThreadLife(u)' /\ TornDown(u)'
<1> USE GemAssumption
<1>0. ThreadType /\ ThreadsOK /\ LifeType /\ TypeInv /\ NewObjects
  BY DEF RefsInv, TypeInv, TypeOK
<1> DEFINE Kept == /\ pc[u] # "idle" => heap'[obj[u]] = "live"
                   /\ pc[u] = "drop" => handle'[obj[u]]
                   /\ job[u] = "fault" => vma'[obj[u]]
                   /\ job[u] \in {"pin", "unpin"} => fb'[obj[u]]
<1>a. pc'[u] = pc[u] /\ job'[u] = job[u] /\ obj'[u] = obj[u]
  BY <1>0, OthersStay DEF Acts
<1>b. ThreadLife(u) /\ (pc[u] # "idle" => obj[u] \in Objs)
  BY <1>0, LifeParts DEF ThreadsOK
<1>c. job[u] # "none" => pc[u] # "idle"
  BY <1>0 DEF ThreadsOK
<1>1. CASE UNCHANGED <<heap, handle, vma, fb>>
  <2>1. Kept
    BY <1>1, <1>b DEF ThreadLife
  <2> QED BY <2>1, <1>a, OthersKept
<1>2. ASSUME NEW o \in Objs, NEW n \in Sizes, CreateAlloc(t, o, n) PROVE Kept
  BY <1>2, <1>b, <1>0 DEF CreateAlloc, ThreadLife, LifeType
<1>3. ASSUME NEW o \in Objs, CloseHandle(t, o) PROVE Kept
  BY <1>3, <1>b, <1>0 DEF CloseHandle, ThreadLife, LifeType
<1>4. ASSUME NEW o \in Objs, Munmap(t, o) PROVE Kept
  BY <1>4, <1>b, <1>c, <1>0 DEF Munmap, FaultIdle, ThreadLife, LifeType
<1>5. ASSUME NEW o \in Objs, FbDestroy(t, o) PROVE Kept
  BY <1>5, <1>b, <1>c, <1>0 DEF FbDestroy, ModesetIdle, ThreadLife, LifeType
<1>6. ASSUME NEW o \in Objs, \/ Mmap(t, o) \/ FbCreate(t, o)
             \/ FbCreateFails(t, o) \/ FbCreateHandle(t, o)
      PROVE  Kept
  BY <1>6, <1>b, <1>c, <1>0
  DEF Mmap, FbCreate, FbCreateFails, FbCreateHandle, ThreadLife, LifeType
<1>7. ASSUME CreateHandle(t) PROVE Kept
  BY <1>7, <1>b, <1>c, <1>0 DEF CreateHandle, ThreadLife, LifeType
<1>8. ASSUME CreateFails(t) PROVE Kept
  <2>1. obj[u] # obj[t]
    BY <1>8, <1>0 DEF CreateFails, NewObjects
  <2> QED BY <2>1, <1>8, <1>b, <1>c, <1>0 DEF CreateFails, ThreadLife, LifeType
<1>9. ASSUME Reap(t) PROVE Kept
  <2>1. pc[t] = "reap" /\ job[t] = "unref"
    BY <1>9, <1>0 DEF Reap, ThreadsOK, LifeInv
  <2>2. obj[u] # obj[t]
    BY <2>1, <1>0, NobodyElse DEF TeardownPcs
  <2> QED BY <2>2, <1>9, <1>b, <1>c, <1>0 DEF Reap, ThreadLife, LifeType
<1>10. Kept \/ UNCHANGED <<heap, handle, vma, fb>>
  <2>1. ASSUME NEW o, MapIoctl(t, o) \/ CreateDrop(t) \/ Unref(t)
        PROVE UNCHANGED <<heap, handle, vma, fb>>
    BY <2>1 DEF MapIoctl, CreateDrop, Unref
  <2> QED
    BY <1>2, <1>3, <1>4, <1>5, <1>6, <1>7, <1>8, <1>9, <2>1, LifeFrame
    DEF Request, Run, lifeVars
<1> QED BY <1>10, <1>1, <1>a, OthersKept

\* A step of thread t, seen from itself.
LEMMA NextItself ==
  ASSUME RefsInv, LockInv, LifeInv, [Next]_vars,
         NEW t \in Threads, Request(t) \/ Lock(t) \/ FaultInterrupted(t) \/ Run(t)
  PROVE  ThreadLife(t)' /\ TornDown(t)'
<1> USE GemAssumption
<1>0. /\ ThreadType /\ ThreadsOK /\ LifeType /\ TypeInv /\ NewObjects /\ RefsAccounted
      /\ NoThread \notin Threads /\ \A o \in Objs : Gone(o)
  BY DEF RefsInv, TypeInv, TypeOK, LifeInv, Gone
<1>a. ThreadLife(t) /\ TornDown(t) /\ ThreadsOK'
  BY <1>0, LifeParts, NextThreads
<1> DEFINE Goal == ThreadLife(t)' /\ TornDown(t)'
<1>1. ASSUME NEW m, Return(t, m) PROVE Goal
  <2>1. pc'[t] = "idle" /\ job'[t] = "none"
    BY <1>1, <1>0 DEF Return, Goto, ThreadType
  <2> QED BY <2>1 DEF ThreadLife, TornDown, TeardownPcs, UnbindPcs
<1>2. ASSUME NEW j \in {"fault", "pin", "unpin", "unref", "create"}, NEW o \in Objs,
             NEW l \in {"handle", "wait"},
             Start(t, j, o, l), heap'[o] = "live", j = "fault" => vma'[o],
             j \in {"pin", "unpin"} => fb'[o], j = "create" => l = "handle"
      PROVE  Goal
  <2>1. pc'[t] = l /\ job'[t] = j /\ obj'[t] = o
    BY <1>2, <1>0 DEF Start, Goto, ThreadType
  <2> QED BY <1>2, <2>1 DEF ThreadLife, TornDown, TeardownPcs, UnbindPcs
<1>3. ASSUME NEW o \in Objs, NEW n \in Sizes, CreateAlloc(t, o, n) PROVE Goal
  BY <1>3, <1>2, <1>0 DEF CreateAlloc, LifeType
<1>4. ASSUME NEW o \in Objs, \/ CloseHandle(t, o) \/ Munmap(t, o) \/ FbDestroy(t, o)
             \/ FbCreateFails(t, o) \/ BeginFault(t, o) \/ BeginPin(t, o) \/ BeginUnpin(t, o)
      PROVE  Goal
  <2>1. heap'[o] = "live"
    BY <1>4, <1>0
    DEF CloseHandle, Munmap, FbDestroy, FbCreateFails, BeginFault, BeginPin, BeginUnpin, Gone,
        Unknown, lifeVars
  <2>2. PICK j \in {"fault", "pin", "unpin", "unref"} :
          Start(t, j, o, "wait") /\ (j = "fault" => vma'[o]) /\ (j \in {"pin", "unpin"} => fb'[o])
    BY <1>4
    DEF CloseHandle, Munmap, FbDestroy, FbCreateFails, BeginFault, BeginPin, BeginUnpin, lifeVars
  <2> QED BY <2>1, <2>2, <1>2
<1>5. ASSUME NEW o \in Objs, MapIoctl(t, o) \/ Mmap(t, o) \/ FbCreate(t, o) \/ FbCreateHandle(t, o)
      PROVE  Goal
  <2>1. pc[t] = "idle" /\ UNCHANGED thrVars
    BY <1>5 DEF MapIoctl, Mmap, FbCreate, FbCreateHandle
  <2>2. pc'[t] = "idle" /\ job'[t] = "none"
    BY <2>1, <1>0 DEF thrVars, ThreadsOK
  <2> QED BY <2>2 DEF ThreadLife, TornDown, TeardownPcs, UnbindPcs
<1>6. ASSUME NEW l \in Labels \ {"oops", "idle"}, Goto(t, l), UNCHANGED <<job, obj>>,
             UNCHANGED <<heap, vma, fb>>, pc[t] # "idle",
             job[t] = "create" => l = "drop",
             l = "drop" => handle'[obj[t]],
             l \in TeardownPcs /\ job[t] = "unref" => Holders(obj[t])' = {}
      PROVE  Goal
  <2>1. pc'[t] = l /\ job'[t] = job[t] /\ obj'[t] = obj[t]
    BY <1>6, <1>0 DEF Goto, ThreadType
  <2>2. ThreadLife(t)'
    BY <2>1, <1>6, <1>a DEF ThreadLife
  <2>3. TornDown(t)'
    BY <2>1, <1>6 DEF TornDown, Holders, Holding
  <2> QED BY <2>2, <2>3
<1>7. ASSUME CreateHandle(t) PROVE Goal
  BY <1>7, <1>6, <1>0 DEF CreateHandle, LifeType, ThreadsOK, TeardownPcs, UnbindPcs, Labels
<1>8. ASSUME CreateDrop(t) PROVE Goal
  <2>1. ~ LastRef(obj[t])
    BY <1>8, <1>0, CreatorNotLast DEF CreateDrop
  <2> QED BY <2>1, <1>8, <1>1 DEF CreateDrop
<1>9. ASSUME Unref(t) PROVE Goal
  <2>1. CASE LastRef(obj[t]) /\ Goto(t, "free") /\ UNCHANGED <<mutex, job, obj, cur>>
    <3>1. Holders(obj[t]) = {t}
      BY <2>1, <1>9, <1>0, LastGone DEF Unref
    <3>2. /\ pc'[t] = "free" /\ \A u \in Threads : u # t => pc'[u] = pc[u]
          /\ UNCHANGED <<job, obj, heap, handle, vma, fb>>
      BY <2>1, <1>9, <1>0 DEF Unref, Goto, ThreadType
    <3>3. Holders(obj[t])' = {}
      BY <3>1, <3>2 DEF Holders, Holding, Tags
    <3>4. pc[t] # "idle" /\ job[t] = "unref"
      BY <1>9, <1>0 DEF Unref, ThreadsOK
    <3> QED BY <2>1, <3>2, <3>3, <3>4, <1>6 DEF Labels, TeardownPcs
  <2>2. CASE Return(t, Unlocked(t))
    BY <2>2, <1>1
  <2> QED BY <2>1, <2>2, <1>9 DEF Unref
\* Inside the mutex the last holder stays the last.
<1>10. ASSUME pc[t] \in TeardownPcs, job[t] = "unref" PROVE Holders(obj[t])' = {} \/ obj' # obj
  <2>1. obj[t] \in Objs /\ heap[obj[t]] = "live" /\ Holders(obj[t]) = {} /\ mutex = t
    BY <1>10, <1>0, Alone DEF Locked, LifeInv, ThreadsOK, TeardownPcs, UnbindPcs
  <2>2. PICK p \in Objs : p = obj[t]
    BY <2>1
  <2>3. Holders(p)' = {}
    BY <2>1, <2>2, <1>0, StaysUnheld
  <2> QED BY <2>2, <2>3 DEF Holders, Holding
<1>11. ASSUME NEW l, Goto(t, l), l \in Labels \ {"oops", "idle", "drop"}, UNCHANGED <<job, obj>>,
              UNCHANGED lifeVars, pc[t] # "idle", job[t] # "create",
              l \in TeardownPcs /\ job[t] = "unref" => pc[t] \in TeardownPcs
       PROVE  Goal
  BY <1>11, <1>10, <1>6 DEF lifeVars
<1>12. ASSUME NEW k, \/ Lock(t) \/ FaultInterrupted(t)
             \/ BindSpace(t) \/ BindSpaceFails(t) \/ BindPages(t) \/ BindPagesFails(t)
             \/ BindWrite(t) \/ BindFlush(t) \/ FinishPin(t) \/ FinishFault(t, k)
             \/ UnpinBug(t) \/ UnpinKeep(t) \/ UnpinLast(t)
             \/ UnbindZap(t) \/ UnbindClear(t) \/ UnbindFlush(t)
             \/ UnbindPutPages(t) \/ UnbindPutBlock(t) \/ UnbindDone(t)
             \/ FreeBug(t) \/ Free(t)
       PROVE  Goal
  <2>1. UNCHANGED lifeVars /\ ~ UnpinBug(t) /\ ~ FreeBug(t) /\ job[t] # "create"
    BY <1>12, LifeFrame, NoBug, <1>a
    DEF ThreadLife, Lock, FaultInterrupted, BindSpace, BindSpaceFails, BindPages, BindPagesFails,
        BindWrite, BindFlush, FinishPin, FinishFault, UnpinKeep, UnpinLast, UnbindZap, UnbindClear,
        UnbindFlush, UnbindPutPages, UnbindPutBlock, UnbindDone, Free
  <2>2. \/ Return(t, mutex) \/ Return(t, Unlocked(t))
        \/ \E l \in Labels \ {"oops", "idle", "drop"} :
             /\ Goto(t, l) /\ UNCHANGED <<job, obj>> /\ pc[t] # "idle"
             /\ l \in TeardownPcs /\ job[t] = "unref" => pc[t] \in TeardownPcs
    BY <1>12, <2>1, <1>0
    DEF Lock, FaultInterrupted, BindSpace, BindSpaceFails, BindPages, BindPagesFails,
        BindWrite, BindFlush, FinishPin, FinishFault, UnpinKeep, UnpinLast, UnbindZap, UnbindClear,
        UnbindFlush, UnbindPutPages, UnbindPutBlock, UnbindDone, Free, AfterUnpin, FirstLabel,
        UnlockedOnError, ThreadsOK, Labels, TeardownPcs, UnbindPcs, AcquirePcs, BindPcs
  <2> QED BY <2>1, <2>2, <1>1, <1>11
<1>13. ASSUME CreateFails(t) \/ Reap(t) PROVE Goal
  BY <1>13, <1>1 DEF CreateFails, Reap
<1> QED
  BY <1>3, <1>4, <1>5, <1>7, <1>8, <1>9, <1>12, <1>13 DEF Request, Run

LEMMA NextLife ==
  ASSUME EarlyClose = FALSE, RefsInv, LockInv, LifeInv, [Next]_vars
  PROVE  LifeInv'
<1>1. \A o \in Objs : Gone(o)'
  BY NextGone
<1>2. ASSUME NEW u \in Threads PROVE ThreadLife(u)' /\ TornDown(u)'
  <2>1. CASE UNCHANGED <<lifeVars, thrVars>>
    <3>1. ThreadLife(u) /\ TornDown(u)
      BY LifeParts
    <3> QED BY <2>1, <3>1 DEF lifeVars, thrVars, ThreadLife, TornDown, Holders, Holding
  <2>2. ASSUME NEW t \in Threads, Request(t) \/ Lock(t) \/ FaultInterrupted(t) \/ Run(t)
        PROVE  ThreadLife(u)' /\ TornDown(u)'
    BY <2>2, NextOthers, NextItself
  <2>3. ASSUME NEW s \in Slots, DeviceFetch(s) PROVE UNCHANGED <<lifeVars, thrVars>>
    BY <2>3 DEF DeviceFetch
  <2> QED BY <2>1, <2>2, <2>3 DEF Next, vars
<1>3. \A o \in Objs : heap'[o] # "live" => Unknown(o)'
  BY <1>1 DEF Gone
<1> QED BY <1>2, <1>3, LifeParts DEF LifeInv, ThreadLife, TornDown

LEMMA InitLife == Init => RefsInv /\ LockInv /\ LifeInv
<1>1. Init => LifeInv
  BY DEF Init, LifeInv, Unknown, TeardownPcs, UnbindPcs
<1>2. Init => LockInv
  BY DEF Init, LockInv, Locked, AcquirePcs, TeardownPcs, BindPcs, UnbindPcs
<1> QED BY <1>1, <1>2, InitRefs

\* BUG_ON(!mutex_is_locked) of xengfx_gem_free_object and of unpin never
\* fires when clients wait for their handles; gem_create_close shows what
\* happens when they do not.
THEOREM FreedUnderMutexHolds ==
  ASSUME EarlyClose = FALSE
  PROVE  Spec => []FreedUnderMutex
<1>1. Init => RefsInv /\ LockInv /\ LifeInv
  BY InitLife
<1>2. RefsInv /\ LockInv /\ LifeInv /\ [Next]_vars => (RefsInv /\ LockInv /\ LifeInv)'
  BY NextRefsInv, NextLock, NextLife DEF RefsInv
<1>3. LifeInv => FreedUnderMutex
  BY DEF LifeInv, FreedUnderMutex
<1> QED BY <1>1, <1>2, <1>3, PTL DEF Spec
-----------------------------------------------------------------------------
(* The refinement of XenGfxLife.                                           *)

\* The holders as XenGfxLife sees them.
Held == [o \in Objs |-> Holders(o)]

\* Whoever finds an object by its offset is not the first to hold it: the
\* offset goes with the object, under the mutex.
LEMMA OffsetHeld ==
  ASSUME RefsInv, LockInv, LifeInv, NothingLeaks, mutex = NoThread,
         NEW o \in Objs, moff[o]
  PROVE  Holders(o) # {}
<1>0. NoThread \notin Threads
  BY GemAssumption
<1>1. heap[o] = "live"
  BY DEF LifeInv, Unknown
<1>2. ASSUME NEW t \in Threads, Freeing(t, o) PROVE FALSE
  <2>1. pc[t] \in TeardownPcs
    BY <1>2 DEF Freeing, LifeInv
  <2> QED BY <2>1, <1>0, Alone DEF Locked
<1> QED BY <1>1, <1>2 DEF NothingLeaks

LEMMA NextImplementsLife ==
  ASSUME RefsInv, LockInv, LifeInv, NothingLeaks, [Next]_vars
  PROVE  [Life!LifeNext]_<<heap, Held>>
<1> USE GemAssumption
<1>0. /\ ThreadType /\ ThreadsOK /\ LifeType /\ TypeInv /\ NewObjects
  BY DEF RefsInv, TypeInv, TypeOK
<1> DEFINE Goal == Life!LifeNext \/ UNCHANGED <<heap, Held>>
<1>1. CASE UNCHANGED vars
  <2>1. \A p \in Objs : Holders(p)' = Holders(p)
    BY <1>1 DEF vars, lifeVars, thrVars, Holders, Holding
  <2> QED BY <1>1, <2>1 DEF vars, lifeVars, Held
<1>2. ASSUME NEW t \in Threads, NEW o \in Objs, NEW n \in Sizes, CreateAlloc(t, o, n)
      PROVE  Goal
  <2>1. Held' = [Held EXCEPT ![o] = {t}]
    BY <1>2, <1>0, AllocHolders DEF Held
  <2>2. heap[o] = "none" /\ heap' = [heap EXCEPT ![o] = "live"]
    BY <1>2 DEF CreateAlloc
  <2>3. Life!Create(o, t)
    BY <2>1, <2>2 DEF Life!Create, Held
  <2>4. heap'[o] # heap[o]
    BY <2>2, <1>0 DEF LifeType
  <2> QED BY <2>3, <2>4 DEF Life!LifeNext
<1>3. ASSUME NEW t \in Threads, NEW o \in Objs,
             CloseHandle(t, o) \/ Munmap(t, o) \/ FbDestroy(t, o)
      PROVE  Goal
  <2>1. PICK g \in Tags :
          /\ g \in Holders(o) /\ t \notin Holders(o)
          /\ \A p \in Objs :
               Holders(p)' = IF p = o THEN (Holders(o) \ {g}) \cup {t} ELSE Holders(p)
    BY <1>3, <1>0, HandOverHolders
  <2>2. heap' = heap
    BY <1>3 DEF CloseHandle, Munmap, FbDestroy
  <2>3. Life!HandOver(o, g, t)
    BY <2>1, <2>2 DEF Life!HandOver, Held
  <2>4. Held'[o] # Held[o]
    BY <2>1 DEF Held
  <2> QED BY <2>1, <2>3, <2>4 DEF Life!LifeNext, Held
<1>4. ASSUME NEW t \in Threads, NEW o \in Objs, \/ Mmap(t, o) \/ FbCreate(t, o)
             \/ FbCreateFails(t, o) \/ FbCreateHandle(t, o)
      PROVE  Goal
  <2>1. PICK h \in Threads \cup Tags :
          /\ h \notin Holders(o)
          /\ \A p \in Objs : Holders(p)' = IF p = o THEN Holders(o) \cup {h} ELSE Holders(p)
    BY <1>4, <1>0, ShareHolders, LookupHolders
  <2>2. heap' = heap
    BY <1>4 DEF Mmap, FbCreate, FbCreateFails, FbCreateHandle
  <2>3. Holders(o) # {}
    <3>1. CASE Mmap(t, o)
      BY <3>1, OffsetHeld DEF Mmap
    <3>2. CASE FbCreate(t, o) \/ FbCreateFails(t, o) \/ FbCreateHandle(t, o)
      BY <3>2 DEF FbCreate, FbCreateFails, FbCreateHandle, Holders, Tags
    <3> QED BY <1>4, <3>1, <3>2
  <2>4. Life!Share(o, h)
    BY <2>1, <2>2, <2>3 DEF Life!Share, Held
  <2>5. Held'[o] # Held[o]
    BY <2>1 DEF Held
  <2> QED BY <2>4, <2>5 DEF Life!LifeNext, Held
<1>5. ASSUME NEW t \in Threads, CreateHandle(t) PROVE Goal
  <2>1. /\ obj[t] \in Objs /\ t \in Holders(obj[t]) /\ "handle" \notin Holders(obj[t])
        /\ \A p \in Objs :
             Holders(p)' = IF p = obj[t] THEN Holders(p) \cup {"handle"} ELSE Holders(p)
    BY <1>5, <1>0, HandleHolders
  <2>2. heap' = heap
    BY <1>5 DEF CreateHandle
  <2>3. Life!Share(obj[t], "handle")
    BY <2>1, <2>2 DEF Life!Share, Held
  <2>4. Held'[obj[t]] # Held[obj[t]]
    BY <2>1 DEF Held
  <2> QED BY <2>1, <2>3, <2>4 DEF Life!LifeNext, Held, Tags
<1>6. ASSUME NEW t \in Threads, CreateDrop(t) \/ Unref(t) PROVE Goal
  <2>1. /\ obj[t] \in Objs /\ t \in Holders(obj[t])
        /\ \A p \in Objs :
             Holders(p)' = IF p = obj[t] THEN Holders(p) \ {t} ELSE Holders(p)
    BY <1>6, <1>0, DropHolders
  <2>2. heap' = heap
    BY <1>6 DEF CreateDrop, Unref
  <2>3. Life!Drop(obj[t], t)
    BY <2>1, <2>2 DEF Life!Drop, Held
  <2>4. Held'[obj[t]] # Held[obj[t]]
    BY <2>1 DEF Held
  <2> QED BY <2>1, <2>3, <2>4 DEF Life!LifeNext, Held
<1>7. ASSUME NEW t \in Threads, CreateFails(t) PROVE Goal
  <2>1. obj[t] \in Objs /\ heap[obj[t]] = "live"
    BY <1>7, <1>0 DEF CreateFails, ThreadsOK, LifeInv
  <2>2. \A p \in Objs :
          IF p = obj[t] THEN Holders(p) = {t} /\ Holders(p)' = {}
                        ELSE Holders(p)' = Holders(p)
    BY <1>7, <1>0, LastHolders
  <2>3. heap' = [heap EXCEPT ![obj[t]] = "corrupt"]
    BY <1>7 DEF CreateFails
  <2>4. Life!Discard(obj[t], t)
    BY <2>1, <2>2, <2>3 DEF Life!Discard, Held
  <2>5. Held'[obj[t]] # Held[obj[t]] /\ t \in Held[obj[t]]
    BY <2>1, <2>2 DEF Held
  <2> QED BY <2>1, <2>4, <2>5 DEF Life!LifeNext, Held
<1>8. ASSUME NEW t \in Threads, Reap(t) PROVE Goal
  <2>1. obj[t] \in Objs /\ pc[t] = "reap" /\ job[t] \in {"create", "unref"}
    BY <1>8, <1>0 DEF Reap, ThreadsOK
  <2>2. heap[obj[t]] = "live" /\ Holders(obj[t]) = {}
    BY <2>1 DEF LifeInv, TeardownPcs
  <2>3. heap' = [heap EXCEPT ![obj[t]] = "freed"]
    BY <1>8, <2>1, <2>2, <1>0 DEF Reap, LifeType
  <2>4. \A p \in Objs : Holders(p)' = Holders(p)
    BY <1>8, <1>0, LastHolders
  <2>5. Life!Free(obj[t])
    BY <2>1, <2>2, <2>3, <2>4 DEF Life!Free, Held
  <2>6. heap'[obj[t]] # heap[obj[t]]
    BY <2>1, <2>2, <2>3, <1>0 DEF LifeType
  <2> QED BY <2>1, <2>5, <2>6 DEF Life!LifeNext
<1>9. ASSUME NEW t \in Threads, NEW o, NEW k,
             \/ BeginFault(t, o) \/ BeginPin(t, o)
             \/ BeginUnpin(t, o) \/ MapIoctl(t, o) \/ Lock(t) \/ FaultInterrupted(t)
             \/ BindSpace(t) \/ BindSpaceFails(t) \/ BindPages(t) \/ BindPagesFails(t)
             \/ BindWrite(t) \/ BindFlush(t) \/ FinishPin(t) \/ FinishFault(t, k)
             \/ UnpinBug(t) \/ UnpinKeep(t) \/ UnpinLast(t)
             \/ UnbindZap(t) \/ UnbindClear(t) \/ UnbindFlush(t)
             \/ UnbindPutPages(t) \/ UnbindPutBlock(t) \/ UnbindDone(t)
             \/ FreeBug(t) \/ Free(t)
      PROVE  Goal
  <2>1. heap' = heap
    BY <1>9, LifeFrame DEF lifeVars, MapIoctl
  <2>2. \A p \in Objs : Holders(p)' = Holders(p)
    BY <1>9, <1>0, RestHolders
  <2> QED BY <2>1, <2>2 DEF Held
<1>10. ASSUME NEW s \in Slots, DeviceFetch(s) PROVE Goal
  <2>1. UNCHANGED <<heap, handle, vma, fb, thrVars>>
    BY <1>10 DEF DeviceFetch, lifeVars
  <2>2. \A p \in Objs : Holders(p)' = Holders(p)
    BY <2>1 DEF Holders, Holding, thrVars
  <2> QED BY <2>1, <2>2 DEF Held
<1> QED
  BY <1>1, <1>2, <1>3, <1>4, <1>5, <1>6, <1>7, <1>8, <1>9, <1>10 DEF Next, Request, Run

\* For clients that wait for their handles, references and struct_mutex keep
\* what XenGfxLife promises, for any number of objects and threads: an
\* object is freed after its last holder, once unless its creation found no
\* handle for it, and nobody finds it again.
THEOREM ImplementsLifeHolds ==
  ASSUME EarlyClose = FALSE
  PROVE  Spec => ImplementsLife
<1> DEFINE Inv == RefsInv /\ LockInv /\ LifeInv /\ NothingLeaks
<1>1. Init => Inv /\ Life!LifeInit
  <2>1. Init => NothingLeaks
    BY DEF Init, NothingLeaks
  <2>2. ASSUME Init PROVE Held = [o \in Objs |-> {}]
    BY <2>2 DEF Init, Held, Holders, Holding, Tags
  <2>3. Init => Life!LifeInit
    BY <2>2 DEF Init, Life!LifeInit, Held
  <2> QED BY <2>1, <2>3, InitLife
<1>2. Inv /\ [Next]_vars => Inv'
  <2>1. RefsInv /\ [Next]_vars => RefsInv'
    BY NextRefsInv
  <2>2. RefsInv /\ RefsInv' /\ NothingLeaks /\ [Next]_vars => NothingLeaks'
    BY NextLeaks DEF RefsInv
  <2>3. RefsInv /\ LockInv /\ LifeInv /\ [Next]_vars => LockInv' /\ LifeInv'
    BY NextLock, NextLife DEF RefsInv
  <2> QED BY <2>1, <2>2, <2>3
<1>3. Inv /\ [Next]_vars => [Life!LifeNext]_(Life!lifeVars)
  BY NextImplementsLife DEF Life!lifeVars, Held
<1> QED BY <1>1, <1>2, <1>3, PTL DEF Spec, ImplementsLife, Life!LifeSpec
=============================================================================
