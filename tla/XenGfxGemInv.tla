---------------------------- MODULE XenGfxGemInv ----------------------------
(***************************************************************************)
(* Invariants of XenGfxGem that no caller relies on but that the proofs of *)
(* its properties do: what a thread at each label is doing, and what is    *)
(* true of objects that do not exist yet.                                  *)
(***************************************************************************)
EXTENDS XenGfxGem

\* A thread that works has an object and a job, and the job fits the label.
ThreadsOK ==
  \A t \in Threads :
    /\ pc[t] = "idle" => job[t] = "none" /\ obj[t] = None
    /\ pc[t] # "idle" => obj[t] \in Objs
    /\ pc[t] \in {"handle", "drop"} => job[t] = "create"
    /\ pc[t] = "unref" => job[t] = "unref"
    /\ pc[t] = "wait" => job[t] \in {"fault", "pin", "unpin", "unref"}
    /\ pc[t] \in AcquirePcs => job[t] \in {"fault", "pin"}
    /\ pc[t] \in {"free", "reap"} => job[t] \in {"create", "unref"}
    /\ pc[t] \in {"unpin"} \cup UnbindPcs => job[t] \in {"create", "unpin", "unref"}

TypeInv == TypeOK /\ ThreadsOK

\* LockDiscipline, and the last step before a free.
Locked == {"unref"} \cup AcquirePcs \cup TeardownPcs
LockInv ==
  \A t \in Threads : pc[t] \in Locked => mutex = t \/ job[t] = "create"

\* Nobody has to do with an object before it is created, and nobody but
\* its creator until it has a handle.
Unknown(o) == ~ handle[o] /\ ~ vma[o] /\ ~ fb[o] /\ ~ moff[o]
NewObjects ==
  /\ \A o \in Objs : heap[o] = "none" => Unknown(o) /\ \A t \in Threads : obj[t] # o
  /\ \A t \in Threads : pc[t] = "handle" =>
       Unknown(obj[t]) /\ \A u \in Threads : obj[u] = obj[t] => u = t

RefsInv == TypeInv /\ NewObjects /\ RefsAccounted

\* The converse of LockInv: the owner of struct_mutex is at a locked label.
\* Its loops over the pages of an object run at least once.
OwnerInv ==
  /\ \A t \in Threads : mutex = t => pc[t] \in Locked
  /\ \A o \in Objs : heap[o] # "none" => size[o] # 0
  /\ \A t \in Threads : pc[t] \in {"write", "clear"} => cur[t] < size[obj[t]]

-----------------------------------------------------------------------------
(* The rest is for clients that close no handle whose creation still runs: *)
(* then only the owner of struct_mutex binds, unbinds and frees.           *)

\* A fault, a pin or an unpin has a holder that outlasts it; a creation has
\* a handle when it drops its reference; nobody holds what is torn down.
LifeInv ==
  /\ \A o \in Objs : heap[o] # "live" => Unknown(o)
  /\ \A t \in Threads :
       /\ pc[t] # "oops"
       /\ pc[t] # "idle" => heap[obj[t]] = "live"
       /\ job[t] = "create" => pc[t] \in {"handle", "drop"}
       /\ pc[t] = "drop" => handle[obj[t]]
       /\ job[t] = "fault" => vma[obj[t]]
       /\ job[t] \in {"pin", "unpin"} => fb[obj[t]]
       /\ pc[t] \in TeardownPcs /\ job[t] = "unref" => Holders(obj[t]) = {}

\* Aperture page s is in the block of o.
In(o, s) == space[o] # None /\ s \in space[o] .. space[o] + size[o] - 1

\* Blocks lie in the aperture and do not overlap.
BlocksInv ==
  /\ \A o \in Objs : heap[o] # "none" => size[o] # 0
  /\ \A o \in Objs : space[o] # None =>
       heap[o] # "none" /\ offset[o] = space[o] /\ space[o] + size[o] <= AperPages
  /\ \A o, p \in Objs : \A s \in Slots : In(o, s) /\ In(p, s) => o = p

\* What holds at each label of bind and unbind; a block without pages is one
\* that a thread is about to fill or to give back.
StepsInv ==
  /\ \A o \in Objs : pages[o] => space[o] # None
  /\ \A o \in Objs : space[o] # None /\ ~ pages[o] =>
       \E t \in Threads : obj[t] = o /\ pc[t] \in {"pages", "putblock"}
  /\ \A t \in Threads :
       /\ pc[t] = "space" => space[obj[t]] = None
       /\ pc[t] \in {"pages", "putblock"} => space[obj[t]] # None /\ ~ pages[obj[t]]
       /\ pc[t] \in {"write", "flush", "finish", "zap", "clear", "uflush", "putpages"} =>
            pages[obj[t]]
       /\ pc[t] \in {"write", "clear"} => cur[t] < size[obj[t]]
       /\ pc[t] = "uflush2" => space[obj[t]] = None
       /\ pc[t] \in UnbindPcs => pins[obj[t]] = 0

\* An entry, or what the device cached of one, is that of the object that has
\* the aperture page, and the object has its pages.
SlotsInv ==
  \A s \in Slots, o \in Objs, k \in Nat : <<o, k>> \in {gart[s], cache[s]} =>
    pages[o] /\ In(o, s) /\ k = s - space[o]

\* All entries of o are there, and the device sees them.
Partial    == {"write", "flush", "clear", "uflush", "putpages"}
Visible(o) == pages[o] /\ \A t \in Threads : obj[t] = o => pc[t] \notin Partial

Entry(o, s) == <<o, s - space[o]>>
VisibleInv ==
  \A o \in Objs, s \in Slots : Visible(o) /\ In(o, s) =>
    gart[s] = Entry(o, s) /\ cache[s] \in {Empty, Entry(o, s)}

\* How far the loops over the entries have come.
LoopsInv ==
  \A t \in Threads, s \in Slots : pc[t] \in Partial /\ In(obj[t], s) =>
    /\ pc[t] = "write" /\ s - space[obj[t]] < cur[t] => gart[s] = Entry(obj[t], s)
    /\ pc[t] = "flush" => gart[s] = Entry(obj[t], s)
    /\ pc[t] = "clear" /\ s - space[obj[t]] < cur[t] => gart[s] = Invalid
    /\ pc[t] \in {"uflush", "putpages"} => gart[s] = Invalid
    /\ pc[t] = "putpages" => cache[s] \in {Empty, Invalid}

\* A user PTE is one of a mapped object that is bound, and that is marked, so
\* that its unbinding takes the PTE away first.
UpteInv ==
  \A p \in upte : /\ vma[p[1]] /\ faulted[p[1]] /\ Visible(p[1]) /\ In(p[1], p[3])
                  /\ p[2] = p[3] - space[p[1]]

BindInv == BlocksInv /\ StepsInv /\ SlotsInv /\ VisibleInv /\ LoopsInv /\ UpteInv
=============================================================================
