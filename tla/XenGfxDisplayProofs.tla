-------------------------- MODULE XenGfxDisplayProofs --------------------------
(***************************************************************************)
(* Proofs about XenGfxDisplay, for any number of CRTCs and framebuffers,   *)
(* any modes and positions, and any aperture; the last part is for clients *)
(* whose pins balance, the others for any selection of clients.            *)
(***************************************************************************)
EXTENDS XenGfxDisplay, FiniteSetTheorems, TLAPS

USE DisplayAssumption

-----------------------------------------------------------------------------
(* Invariants.                                                             *)

\* A placed object occupies a block of its size.
PlacesInv ==
  \A o \in Objs : place[o] = {} \/ \E s \in Slots : place[o] = Block(s, Size[o])

\* What a call can be doing at each label, and what it remembers.
CallInv ==
  /\ pc = "idle" => call = NoCall
  /\ pc # "idle" => Cur \in Crtcs
  /\ pc \in {"prepare", "post", "unpin"} => call.kind \in {"mode", "restore", "off", "blank"}
  /\ pc = "modeset" => call.kind \in {"mode", "restore"}
  /\ pc \in {"base", "format", "rewrite"} => call.kind \in {"mode", "restore", "flip"}
  /\ pc \in {"commit", "latch"} => call.kind \in {"mode", "restore", "unblank"}
  /\ call.kind \in {"mode", "restore", "flip", "unblank"} => cfb[Cur] \in Objs
  /\ call.kind \in {"restore", "flip"} => call.fb \in Objs
  /\ call.kind = "restore" => cfb[Cur] = call.fb /\ mode[Cur] = call.mode
  /\ pc = "format" => call.base.fb = cfb[Cur]

TypeInv == TypeOK /\ PlacesInv /\ CallInv

\* H_ACTIVE, V_ACTIVE, FORMAT and STRIDE are those of what DRM believes to be
\* shown on a CRTC, also while it is off, so that turning it on again needs no
\* mode set.  A call that fails leaves, or restores, what was there.
RegsMatch(c) == cfb[c] # None => reg[c].mode = mode[c] /\ reg[c].fmt = cfb[c]

RegsInv ==
  /\ \A c \in Crtcs : c # Cur => RegsMatch(c)
  /\ call.kind \in {"off", "blank", "unblank"} => RegsMatch(Cur)
  /\ call.kind \in {"mode", "restore", "flip"} =>
       /\ pc \in {"prepare", "post", "unpin", "modeset", "base"} /\ call.fb # None
            => reg[Cur].fmt = call.fb
       /\ pc \in {"base", "format", "rewrite", "commit", "latch"} => reg[Cur].mode = mode[Cur]
       /\ pc \in {"rewrite", "commit", "latch"} => reg[Cur].fmt = cfb[Cur]

\* The device is on when the driver thinks so, and scans out its base.
Same(c) == en[c] = active[c] /\ scan[c].base = IF active[c] THEN base[c] ELSE Zero
Off(c)  == ~ en[c] /\ ~ active[c] /\ scan[c].base = Zero
Shows(c) == active[c] => scan[c].mode = mode[c] /\ scan[c].fmt = cfb[c]

DevInv ==
  /\ \A c \in Crtcs : c # Cur => Same(c) /\ Shows(c)
  /\ pc = "prepare" => Same(Cur)
  /\ pc = "post" => ~ en[Cur] /\ active[Cur]
  /\ pc = "unpin" => ~ en[Cur] /\ active[Cur] /\ scan[Cur].base = Zero
  /\ pc = "modeset" => Off(Cur)
  /\ pc \in {"base", "format"} =>
       IF call.kind # "flip" THEN Off(Cur)
       ELSE /\ Same(Cur)
            /\ active[Cur] => scan[Cur].mode = mode[Cur] /\ scan[Cur].fmt = call.fb
  /\ pc = "rewrite" => call.kind = "flip" /\ en[Cur] /\ active[Cur]
  /\ pc = "commit" => Off(Cur) \/ (call.kind = "unblank" /\ Same(Cur) /\ Shows(Cur))
  /\ pc = "latch" => en[Cur] /\ active[Cur]

\* FORMAT and STRIDE are written together with the base they belong to.
BasesInv == \A c \in Crtcs : base[c] # Zero => reg[c].fmt = base[c].fb

ScanInv == BasesInv /\ ScanCoherent

-----------------------------------------------------------------------------
(* Types.                                                                  *)

Labels == {"idle", "prepare", "post", "unpin", "modeset", "base", "format",
           "rewrite", "commit", "latch"}

LEMMA NoneTyped == /\ Zero \in Bases /\ NoCall \in Calls /\ Params \in Regs
                   /\ NoCall.crtc = None /\ NoCall.kind = "none"
                   /\ None \notin Crtcs /\ None \notin Objs /\ None \in Fbs
BY DEF Zero, Bases, Fbs, NoCall, Calls, Params, Regs

\* Pins count modulo PinMod.
LEMMA CountTyped == \A n \in 0 .. PinMod - 1 : Inc(n) \in 0 .. PinMod - 1 /\ Dec(n) \in 0 .. PinMod - 1
BY DEF Inc, Dec

\* The call ends or the helper turns off one of R.
LEMMA FinishCall ==
  ASSUME NEW R \in SUBSET Crtcs, Finish(R)
  PROVE  call' \in Calls /\ pc' \in Labels /\ CallInv'
<1>1. CASE pc' = "idle" /\ call' = NoCall
  BY <1>1, NoneTyped DEF Labels, CallInv
<1>2. ASSUME NEW d \in R, pc' = "prepare",
             call' = [NoCall EXCEPT !.kind = "off", !.crtc = d, !.rest = R \ {d}]
      PROVE  call' \in Calls /\ pc' \in Labels /\ CallInv'
  <2>1. call'.kind = "off" /\ call'.crtc = d
    BY <1>2 DEF NoCall
  <2>2. call' \in Calls
    BY <1>2, NoneTyped DEF Calls, NoCall
  <2> QED
    BY <1>2, <2>1, <2>2 DEF Labels, CallInv, Cur
<1> QED
  BY <1>1, <1>2 DEF Finish

LEMMA InitTypes == Init => TypeInv
<1> SUFFICES ASSUME Init PROVE TypeInv
  OBVIOUS
<1>1. pins \in [Objs -> 0 .. PinMod - 1] /\ place \in [Objs -> SUBSET Slots] /\ PlacesInv
  <2>1. Console \in Objs => Block(0, Size[Console]) \subseteq Slots /\ 0 \in Slots
    BY DEF Block, Slots
  <2>2. \A o \in Objs : place[o] = IF o = Console THEN Block(0, Size[o]) ELSE {}
    BY DEF Init
  <2> QED
    BY <2>1, <2>2 DEF Init, PlacesInv
<1>2. /\ fbs \subseteq Objs /\ cfb \in [Crtcs -> Fbs] /\ mode \in [Crtcs -> Modes \cup {None}]
      /\ pan \in [Crtcs -> Nat] /\ dpms \in [Crtcs -> {"on", "off"}] /\ base \in [Crtcs -> Bases]
      /\ reg \in [Crtcs -> Regs]
  BY NoneTyped DEF Init
<1>3. active \in [Crtcs -> BOOLEAN] /\ en \in [Crtcs -> BOOLEAN]
  BY Zenon DEF Init
<1>4. scan \in [Crtcs -> Scans]
  BY NoneTyped DEF Init, Scans
<1>5. pc = "idle" /\ call \in Calls /\ call = NoCall /\ CallInv
  BY NoneTyped DEF Init, CallInv
<1> QED
  BY <1>1, <1>2, <1>3, <1>4, <1>5 DEF TypeInv, TypeOK

-----------------------------------------------------------------------------

LEMMA BeginCall ==
  ASSUME TypeInv, NEW k \in {"mode", "flip", "blank", "unblank"}, NEW c \in Crtcs,
         NEW l \in {"prepare", "base", "commit"}, Begin(k, c, l)
  PROVE  /\ pc' = l /\ call' \in Calls /\ Cur' = c /\ call'.kind = k
         /\ call'.fb = cfb[c] /\ call'.mode = mode[c]
<1>1. cfb[c] \in Fbs /\ mode[c] \in Modes \cup {None} /\ pan[c] \in Nat /\ Zero \in Bases
  BY NoneTyped DEF TypeInv, TypeOK
<1> QED
  BY <1>1 DEF Begin, Calls, Cur

LEMMA ClientTypes == TypeInv /\ Client => TypeInv'
<1> SUFFICES ASSUME TypeInv, Client PROVE TypeInv'
  OBVIOUS
<1> USE DEF TypeInv, aperVars, hwVars, drmVars
<1>1. ASSUME NEW c \in Crtcs, NEW o \in Objs, NEW x \in Pans, Flip(c, o, x) PROVE TypeInv'
  <2>1. /\ pc' = "base" /\ call' \in Calls /\ Cur' = c /\ call'.kind = "flip" /\ call'.fb = cfb[c]
    BY <1>1, BeginCall DEF Flip
  <2>2. cfb' = [cfb EXCEPT ![c] = o] /\ pan' = [pan EXCEPT ![c] = x] /\ cfb[c] # None
    BY <1>1 DEF Flip
  <2>3. cfb' \in [Crtcs -> Fbs] /\ pan' \in [Crtcs -> Nat] /\ cfb'[c] = o /\ cfb[c] \in Objs
    BY <2>2 DEF TypeOK, Fbs
  <2>4. TypeOK'
    BY <1>1, <2>1, <2>3 DEF Flip, TypeOK
  <2>5. CallInv'
    BY <2>1, <2>3 DEF CallInv, Cur
  <2> QED
    BY <1>1, <2>4, <2>5 DEF Flip, PlacesInv
<1>2. ASSUME NEW c \in Crtcs, NEW o \in Objs, NEW x \in Pans, NEW m \in Modes, SetMode(c, o, m, x)
      PROVE  TypeInv'
  <2>1. /\ pc' = "prepare" /\ call' \in Calls /\ Cur' = c /\ call'.kind = "mode"
    BY <1>2, BeginCall DEF SetMode
  <2>2. /\ cfb' = [cfb EXCEPT ![c] = o] /\ pan' = [pan EXCEPT ![c] = x]
        /\ mode' = [mode EXCEPT ![c] = m]
    BY <1>2 DEF SetMode
  <2>3. /\ cfb' \in [Crtcs -> Fbs] /\ pan' \in [Crtcs -> Nat] /\ cfb'[c] = o
        /\ mode' \in [Crtcs -> Modes \cup {None}]
    BY <2>2 DEF TypeOK, Fbs
  <2>4. TypeOK'
    BY <1>2, <2>1, <2>3 DEF SetMode, TypeOK
  <2>5. CallInv'
    BY <2>1, <2>3 DEF CallInv, Cur
  <2> QED
    BY <1>2, <2>4, <2>5 DEF SetMode, PlacesInv
<1>3. ASSUME NEW c \in Crtcs, TurnOff(c) PROVE TypeInv'
  <2>1. call' \in Calls /\ pc' \in Labels /\ CallInv'
    BY <1>3, FinishCall DEF TurnOff
  <2> QED
    BY <1>3, <2>1 DEF TurnOff, TypeOK, PlacesInv, Labels
<1>4. ASSUME NEW c \in Crtcs, Blank(c) PROVE TypeInv'
  <2>1. /\ pc' = "prepare" /\ call' \in Calls /\ Cur' = c /\ call'.kind = "blank"
    BY <1>4, BeginCall DEF Blank
  <2>2. dpms' \in [Crtcs -> {"on", "off"}]
    BY <1>4 DEF Blank, TypeOK
  <2> QED
    BY <1>4, <2>1, <2>2 DEF Blank, TypeOK, PlacesInv, CallInv, Cur
<1>5. ASSUME NEW c \in Crtcs, Unblank(c) PROVE TypeInv'
  <2>1. /\ pc' = "commit" /\ call' \in Calls /\ Cur' = c /\ call'.kind = "unblank"
    BY <1>5, BeginCall DEF Unblank
  <2>2. dpms' \in [Crtcs -> {"on", "off"}]
    BY <1>5 DEF Unblank, TypeOK
  <2>3. cfb'[c] \in Objs
    BY <1>5 DEF Unblank, TypeOK, Fbs
  <2> QED
    BY <1>5, <2>1, <2>2, <2>3 DEF Unblank, TypeOK, PlacesInv, CallInv, Cur
<1>6. ASSUME NEW o \in Objs, FbDestroy(o) PROVE TypeInv'
  <2>1. call' \in Calls /\ pc' \in Labels /\ CallInv'
    BY <1>6, FinishCall DEF FbDestroy
  <2> QED
    BY <1>6, <2>1 DEF FbDestroy, TypeOK, PlacesInv, Labels
<1>7. ASSUME NEW o \in Objs, FbCreate(o) PROVE TypeInv'
  BY <1>7 DEF FbCreate, TypeOK, PlacesInv, CallInv, Cur
<1>8. ASSUME NEW o \in Objs, Fault(o) PROVE TypeInv'
  <2>1. PICK s \in Slots : Place(o, Block(s, Size[o]))
    BY <1>8 DEF Fault
  <2>2. place' = [place EXCEPT ![o] = Block(s, Size[o])] /\ UNCHANGED pins
        /\ Block(s, Size[o]) \subseteq Slots
    BY <2>1 DEF Place
  <2>3. place' \in [Objs -> SUBSET Slots] /\ PlacesInv'
    BY <2>2 DEF TypeOK, PlacesInv
  <2> QED
    BY <1>8, <2>2, <2>3 DEF Fault, TypeOK, CallInv, Cur
<1> QED
  BY <1>1, <1>2, <1>3, <1>4, <1>5, <1>6, <1>7, <1>8 DEF Client

-----------------------------------------------------------------------------
(* The steps of the driver: where they go on.                              *)

LEMMA AfterDisableTypes ==
  ASSUME TypeInv, pc \in {"prepare", "unpin"}, AfterDisable, UNCHANGED mode
  PROVE  call' \in Calls /\ pc' \in Labels /\ CallInv' /\ cfb' \in [Crtcs -> Fbs]
<1> USE DEF TypeInv
<1>1. CASE call.kind \in {"mode", "restore"}
  BY <1>1 DEF AfterDisable, TypeOK, Labels, CallInv, Cur
<1>2. CASE call.kind \notin {"mode", "restore"}
  <2>1. call.rest \in SUBSET Crtcs
    BY DEF TypeOK, Calls
  <2>2. Finish(call.rest) /\ cfb' = IF call.kind = "off" THEN Set(cfb, None) ELSE cfb
    BY <1>2 DEF AfterDisable
  <2>3. call' \in Calls /\ pc' \in Labels /\ CallInv'
    BY <2>1, <2>2, FinishCall
  <2>4. cfb' \in [Crtcs -> Fbs]
    BY <2>2 DEF TypeOK, Set, Fbs
  <2> QED
    BY <2>3, <2>4
<1> QED
  BY <1>1, <1>2

LEMMA FailedTypes ==
  ASSUME TypeInv, pc = "base", Failed
  PROVE  /\ call' \in Calls /\ pc' \in Labels /\ CallInv' /\ cfb' \in [Crtcs -> Fbs]
         /\ mode' \in [Crtcs -> Modes \cup {None}] /\ pan' \in [Crtcs -> Nat]
<1> USE DEF TypeInv
<1>1. Cur \in Crtcs /\ call.fb \in Fbs /\ call.mode \in Modes \cup {None} /\ call.pan \in Nat
  BY DEF TypeOK, CallInv, Calls
<1>2. cfb' \in [Crtcs -> Fbs] /\ cfb'[Cur] = call.fb
  BY <1>1 DEF Failed, Set, TypeOK
<1>3. mode' \in [Crtcs -> Modes \cup {None}] /\ pan' \in [Crtcs -> Nat]
  BY <1>1 DEF Failed, Set, TypeOK
<1>4. CASE Finish({})
  BY <1>2, <1>3, <1>4, FinishCall
<1>5. CASE /\ call.kind # "flip" /\ call.fb # None
           /\ pc' = "prepare" /\ call' = [call EXCEPT !.kind = "restore"]
           /\ mode' = Set(mode, call.mode)
  <2>1. /\ call' \in Calls /\ call'.kind = "restore" /\ call'.crtc = call.crtc
        /\ call'.fb = call.fb /\ call'.mode = call.mode
    BY <1>5 DEF TypeOK, Calls
  <2>2. mode'[Cur] = call.mode
    BY <1>1, <1>5 DEF Set, TypeOK
  <2> QED
    BY <1>1, <1>2, <1>3, <1>5, <2>1, <2>2 DEF CallInv, Cur, Labels, Fbs
<1> QED
  BY <1>2, <1>3, <1>4, <1>5 DEF Failed

LEMMA AfterSetBaseTypes ==
  ASSUME TypeInv, pc \in {"format", "rewrite"}, AfterSetBase, UNCHANGED <<cfb, mode>>
  PROVE  call' \in Calls /\ pc' \in Labels /\ CallInv'
<1> USE DEF TypeInv
<1>1. CASE call.kind = "flip"
  BY <1>1, FinishCall DEF AfterSetBase
<1>2. CASE call.kind # "flip"
  BY <1>2 DEF AfterSetBase, TypeOK, Labels, CallInv, Cur
<1> QED
  BY <1>1, <1>2

LEMMA AfterEnableTypes ==
  ASSUME TypeInv, pc \in {"commit", "latch"}, AfterEnable
  PROVE  call' \in Calls /\ pc' \in Labels /\ CallInv' /\ dpms' \in [Crtcs -> {"on", "off"}]
<1>1. PICK R \in SUBSET Crtcs : Finish(R)
  BY DEF AfterEnable
<1>2. dpms' \in [Crtcs -> {"on", "off"}]
  BY DEF AfterEnable, Set, TypeInv, TypeOK
<1> QED
  BY <1>1, <1>2, FinishCall

-----------------------------------------------------------------------------
(* Pins and places.                                                        *)

\* Typed pins and places, each object in a block of its size.
Sound(a) ==
  /\ a.pins \in [Objs -> 0 .. PinMod - 1] /\ a.place \in [Objs -> SUBSET Slots]
  /\ \A o \in Objs : a.place[o] = {} \/ \E s \in Slots : a.place[o] = Block(s, Size[o])

LEMMA UnpinnedSound ==
  ASSUME NEW a, Sound(a), NEW o \in Objs
  PROVE  Sound(Unpinned(a, o))
<1> DEFINE P == [a.pins EXCEPT ![o] = Dec(@)]
           L == IF Dec(a.pins[o]) = 0 THEN [a.place EXCEPT ![o] = {}] ELSE a.place
<1>1. P \in [Objs -> 0 .. PinMod - 1]
  BY CountTyped DEF Sound
<1>2. L \in [Objs -> SUBSET Slots]
      /\ \A q \in Objs : L[q] = {} \/ \E s \in Slots : L[q] = Block(s, Size[q])
  BY DEF Sound
<1>3. Unpinned(a, o) = [pins |-> P, place |-> L]
  BY DEF Unpinned
<1> HIDE DEF P, L
<1> QED
  BY <1>1, <1>2, <1>3 DEF Sound

LEMMA BlocksSound ==
  ASSUME TypeInv, NEW o \in Objs, NEW B \in Blocks(o)
  PROVE  B \in SUBSET Slots /\ \E s \in Slots : B = Block(s, Size[o])
BY DEF Blocks, TypeInv, TypeOK, PlacesInv

LEMMA SwappedSound ==
  ASSUME TypeInv, NEW o \in Objs, NEW B \in Blocks(o)
  PROVE  Sound(Swapped(o, B))
<1> DEFINE P == [pins EXCEPT ![o] = Inc(@)]
           L == [place EXCEPT ![o] = B]
           a == [pins |-> P, place |-> L]
<1>1. P \in [Objs -> 0 .. PinMod - 1]
  BY CountTyped DEF TypeInv, TypeOK
<1>2. L \in [Objs -> SUBSET Slots]
      /\ \A q \in Objs : L[q] = {} \/ \E s \in Slots : L[q] = Block(s, Size[q])
  BY BlocksSound DEF TypeInv, TypeOK, PlacesInv
<1>3. a.pins = P /\ a.place = L
  OBVIOUS
<1>4. Swapped(o, B) = IF call.fb = None THEN a ELSE Unpinned(a, call.fb)
  BY DEF Swapped
<1> HIDE DEF P, L, a
<1>5. Sound(a)
  BY <1>1, <1>2, <1>3 DEF Sound
<1>6. call.fb \in Fbs
  BY DEF TypeInv, TypeOK, Calls
<1> QED
  BY <1>4, <1>5, <1>6, UnpinnedSound DEF Fbs

\* The base is the start of the block, or 0.
LEMMA BaseTyped ==
  ASSUME NEW a, Sound(a), NEW o \in Objs, pan[Cur] \in Nat
  PROVE  NewBase(a, o) \in Bases /\ NewBase(a, o).fb = o
<1>1. CASE a.place[o] = {}
  BY <1>1 DEF NewBase, Bases, Fbs
<1>2. CASE a.place[o] # {}
  <2>1. PICK s \in Slots : a.place[o] = Block(s, Size[o])
    BY <1>2 DEF Sound
  <2>2. s \in a.place[o] /\ (\A r \in a.place[o] : s <= r) /\ a.place[o] \subseteq Nat
    BY <1>2, <2>1 DEF Block, Slots
  <2>3. (CHOOSE t \in a.place[o] : \A r \in a.place[o] : t <= r) \in a.place[o]
    BY <2>2
  <2> QED
    BY <1>2, <2>2, <2>3 DEF NewBase, Bases, Fbs
<1> QED
  BY <1>1, <1>2

LEMMA SoundTypes ==
  ASSUME NEW a, Sound(a), pins' = a.pins, place' = a.place
  PROVE  pins' \in [Objs -> 0 .. PinMod - 1] /\ place' \in [Objs -> SUBSET Slots] /\ PlacesInv'
BY DEF Sound, PlacesInv

-----------------------------------------------------------------------------

LEMMA DriverTypes == TypeInv /\ Driver => TypeInv'
<1> SUFFICES ASSUME TypeInv, Driver PROVE TypeInv'
  OBVIOUS
<1> USE DEF aperVars, hwVars, drmVars
<1>1. CASE DisableInactive
  <2>1. call' \in Calls /\ pc' \in Labels /\ CallInv' /\ cfb' \in [Crtcs -> Fbs]
    BY <1>1, AfterDisableTypes DEF DisableInactive
  <2> QED
    BY <1>1, <2>1 DEF DisableInactive, TypeInv, TypeOK, PlacesInv, Labels
<1>2. CASE DisableControl
  <2>1. en' \in [Crtcs -> BOOLEAN]
    BY <1>2 DEF DisableControl, Set, TypeInv, TypeOK
  <2> QED
    BY <1>2, <2>1 DEF DisableControl, TypeInv, TypeOK, PlacesInv, CallInv, Cur
<1>3. CASE DisableBase
  <2>1. Latched(Zero) \in Scans
    BY <1>3, NoneTyped DEF DisableBase, Latched, Scans, Regs, TypeInv, TypeOK, CallInv
  <2>2. scan' \in [Crtcs -> Scans]
    BY <1>3, <2>1 DEF DisableBase, Set, TypeInv, TypeOK
  <2> QED
    BY <1>3, <2>2 DEF DisableBase, TypeInv, TypeOK, PlacesInv, CallInv, Cur
<1>4. CASE DisableUnpin
  <2>1. call' \in Calls /\ pc' \in Labels /\ CallInv' /\ cfb' \in [Crtcs -> Fbs]
    BY <1>4, AfterDisableTypes DEF DisableUnpin
  <2>2. active' \in [Crtcs -> BOOLEAN]
    BY <1>4 DEF DisableUnpin, Set, TypeInv, TypeOK
  <2>3. pins' \in [Objs -> 0 .. PinMod - 1] /\ place' \in [Objs -> SUBSET Slots] /\ PlacesInv'
    <3>1. CASE cfb[Cur] = None
      BY <1>4, <3>1 DEF DisableUnpin, TypeInv, TypeOK, PlacesInv
    <3>2. CASE cfb[Cur] # None
      <4>1. cfb[Cur] \in Objs /\ Unpin(cfb[Cur])
        BY <1>4, <3>2 DEF DisableUnpin, TypeInv, TypeOK, CallInv, Fbs
      <4> QED
        BY <4>1, CountTyped DEF Unpin, TypeInv, TypeOK, PlacesInv
    <3> QED
      BY <3>1, <3>2
  <2> QED
    BY <1>4, <2>1, <2>2, <2>3 DEF DisableUnpin, TypeInv, TypeOK, Labels
<1>5. CASE ModeSet
  <2>1. mode[Cur] \in Modes \cup {None} /\ Cur \in Crtcs
    BY <1>5 DEF ModeSet, TypeInv, TypeOK, CallInv
  <2>2. reg' \in [Crtcs -> Regs]
    BY <1>5, <2>1 DEF ModeSet, TypeInv, TypeOK, Regs
  <2> QED
    BY <1>5, <2>2 DEF ModeSet, TypeInv, TypeOK, PlacesInv, CallInv, Cur
<1>6. CASE SetBaseFails
  BY <1>6, FailedTypes DEF SetBaseFails, TypeInv, TypeOK, PlacesInv, Labels
<1>7. CASE SetBaseMisaligned
  <2>1. cfb[Cur] \in Objs
    BY <1>7 DEF SetBaseMisaligned, TypeInv, CallInv
  <2>2. PICK B \in Blocks(cfb[Cur]) : /\ pins' = Unpinned(Swapped(cfb[Cur], B), cfb[Cur]).pins
                                      /\ place' = Unpinned(Swapped(cfb[Cur], B), cfb[Cur]).place
    BY <1>7 DEF SetBaseMisaligned
  <2>3. pins' \in [Objs -> 0 .. PinMod - 1] /\ place' \in [Objs -> SUBSET Slots] /\ PlacesInv'
    BY <2>1, <2>2, SwappedSound, UnpinnedSound, SoundTypes
  <2> QED
    BY <1>7, <2>3, FailedTypes DEF SetBaseMisaligned, TypeInv, TypeOK, Labels
<1>8. CASE SetBase
  <2>1. cfb[Cur] \in Objs /\ Cur \in Crtcs /\ pan[Cur] \in Nat
    BY <1>8 DEF SetBase, TypeInv, TypeOK, CallInv
  <2>2. PICK B \in Blocks(cfb[Cur]) :
             /\ pins' = Swapped(cfb[Cur], B).pins /\ place' = Swapped(cfb[Cur], B).place
             /\ call' = [call EXCEPT !.base = NewBase(Swapped(cfb[Cur], B), cfb[Cur])]
    BY <1>8 DEF SetBase
  <2>3. Sound(Swapped(cfb[Cur], B))
    BY <2>1, SwappedSound
  <2>4. pins' \in [Objs -> 0 .. PinMod - 1] /\ place' \in [Objs -> SUBSET Slots] /\ PlacesInv'
    BY <2>2, <2>3, SoundTypes
  <2>5. NewBase(Swapped(cfb[Cur], B), cfb[Cur]) \in Bases
        /\ NewBase(Swapped(cfb[Cur], B), cfb[Cur]).fb = cfb[Cur]
    BY <2>1, <2>3, BaseTyped
  <2>6. /\ call' \in Calls /\ Cur' = Cur /\ call'.kind = call.kind /\ call'.fb = call.fb
        /\ call'.mode = call.mode /\ call'.base.fb = cfb[Cur]
    BY <2>2, <2>5 DEF TypeInv, TypeOK, Calls, Cur
  <2>7. CallInv'
    BY <1>8, <2>6 DEF SetBase, TypeInv, CallInv
  <2> QED
    BY <1>8, <2>4, <2>6, <2>7 DEF SetBase, TypeInv, TypeOK
<1>9. CASE SetFormat
  <2>1. Cur \in Crtcs /\ cfb[Cur] \in Fbs /\ call.base \in Bases
    BY <1>9 DEF SetFormat, TypeInv, TypeOK, CallInv, Calls
  <2>2. reg' \in [Crtcs -> Regs]
    BY <1>9, <2>1 DEF SetFormat, TypeInv, TypeOK, Regs
  <2>3. base' \in [Crtcs -> Bases]
    BY <1>9, <2>1 DEF SetFormat, Set, TypeInv, TypeOK
  <2>4. call' \in Calls /\ pc' \in Labels /\ CallInv'
    <3>1. CASE active[Cur]
      BY <1>9, <3>1 DEF SetFormat, TypeInv, TypeOK, CallInv, Labels, Cur
    <3>2. CASE ~ active[Cur]
      BY <1>9, <3>2, AfterSetBaseTypes DEF SetFormat
    <3> QED
      BY <3>1, <3>2
  <2> QED
    BY <1>9, <2>2, <2>3, <2>4 DEF SetFormat, TypeInv, TypeOK, PlacesInv, Labels
<1>10. CASE Rewrite
  <2>1. Latched(base[Cur]) \in Scans
    BY <1>10 DEF Rewrite, Latched, Scans, Regs, TypeInv, TypeOK, CallInv
  <2>2. scan' \in [Crtcs -> Scans]
    BY <1>10, <2>1 DEF Rewrite, Set, TypeInv, TypeOK
  <2>3. call' \in Calls /\ pc' \in Labels /\ CallInv'
    BY <1>10, AfterSetBaseTypes DEF Rewrite
  <2> QED
    BY <1>10, <2>2, <2>3 DEF Rewrite, TypeInv, TypeOK, PlacesInv, Labels
<1>11. CASE EnableActive
  BY <1>11, AfterEnableTypes DEF EnableActive, TypeInv, TypeOK, PlacesInv, Labels
<1>12. CASE EnableControl
  <2>1. active' \in [Crtcs -> BOOLEAN] /\ en' \in [Crtcs -> BOOLEAN]
    BY <1>12 DEF EnableControl, Set, TypeInv, TypeOK
  <2> QED
    BY <1>12, <2>1 DEF EnableControl, TypeInv, TypeOK, PlacesInv, CallInv, Cur
<1>13. CASE EnableBase
  <2>1. Latched(base[Cur]) \in Scans
    BY <1>13 DEF EnableBase, Latched, Scans, Regs, TypeInv, TypeOK, CallInv
  <2>2. scan' \in [Crtcs -> Scans]
    BY <1>13, <2>1 DEF EnableBase, Set, TypeInv, TypeOK
  <2> QED
    BY <1>13, <2>2, AfterEnableTypes DEF EnableBase, TypeInv, TypeOK, PlacesInv, Labels
<1> QED
  BY <1>1, <1>2, <1>3, <1>4, <1>5, <1>6, <1>7, <1>8, <1>9, <1>10, <1>11, <1>12, <1>13 DEF Driver

LEMMA TypeInvariant == Spec => []TypeInv
<1>1. TypeInv /\ [Next]_vars => TypeInv'
  <2>1. TypeInv /\ UNCHANGED vars => TypeInv'
    BY DEF vars, aperVars, drmVars, hwVars, TypeInv, TypeOK, PlacesInv, CallInv, Cur
  <2> QED
    BY <2>1, ClientTypes, DriverTypes DEF Next
<1> QED
  BY <1>1, InitTypes, PTL DEF Spec

\* All variables keep their types, for any number of CRTCs, framebuffers and
\* pages of the aperture.
THEOREM TypesHold == Spec => []TypeOK
BY TypeInvariant, PTL DEF TypeInv

-----------------------------------------------------------------------------
(* FORMAT and STRIDE go with the base.                                     *)

LEMMA InitScan == Init => ScanInv
BY DEF Init, ScanInv, BasesInv, ScanCoherent

LEMMA ScanStep == TypeInv /\ ScanInv /\ [Next]_vars => ScanInv'
<1> SUFFICES ASSUME TypeInv, ScanInv, [Next]_vars PROVE ScanInv'
  OBVIOUS
<1> USE DEF TypeInv, TypeOK, ScanInv, BasesInv, ScanCoherent, hwVars, Set, Latched
<1>1. CASE UNCHANGED <<base, reg, scan>>
  BY <1>1
<1>2. CASE DisableBase
  <2>1. scan'[Cur].base = Zero /\ \A c \in Crtcs : c # Cur => scan'[c] = scan[c]
    BY <1>2 DEF DisableBase, CallInv
  <2> QED
    BY <1>2, <2>1 DEF DisableBase
<1>3. CASE ModeSet
  <2>1. \A c \in Crtcs : reg'[c].fmt = reg[c].fmt
    BY <1>3 DEF ModeSet, CallInv, Regs
  <2> QED
    BY <1>3, <2>1 DEF ModeSet
<1>4. CASE SetFormat
  <2>1. reg'[Cur].fmt = cfb[Cur] /\ \A c \in Crtcs : c # Cur => reg'[c] = reg[c]
    BY <1>4 DEF SetFormat, CallInv, Regs
  <2>2. base'[Cur].fb = cfb[Cur] /\ \A c \in Crtcs : c # Cur => base'[c] = base[c]
    BY <1>4 DEF SetFormat, CallInv
  <2> QED
    BY <1>4, <2>1, <2>2 DEF SetFormat
<1>5. CASE Rewrite \/ EnableBase
  <2>1. /\ scan'[Cur].base = base[Cur] /\ scan'[Cur].fmt = reg[Cur].fmt /\ Cur \in Crtcs
        /\ \A c \in Crtcs : c # Cur => scan'[c] = scan[c]
        /\ UNCHANGED <<base, reg>>
    BY <1>5 DEF Rewrite, EnableBase, CallInv
  <2> QED
    BY <2>1
<1>6. CASE Client \/ DisableInactive \/ DisableControl \/ DisableUnpin \/ SetBaseFails
           \/ SetBaseMisaligned \/ SetBase \/ EnableActive \/ EnableControl
  <2>1. UNCHANGED <<base, reg, scan>>
    BY <1>6 DEF Client, Flip, SetMode, TurnOff, Blank, Unblank, FbDestroy, FbCreate, Fault,
       DisableInactive, DisableControl, DisableUnpin, SetBaseFails, SetBaseMisaligned, SetBase,
       EnableActive, EnableControl
  <2> QED
    BY <1>1, <2>1
<1> QED
  BY <1>1, <1>2, <1>3, <1>4, <1>5, <1>6 DEF Next, Driver, vars

\* The device never applies the format of one framebuffer to the base of
\* another.
THEOREM ScanCoherentHolds == Spec => []ScanCoherent
<1>1. Spec => []ScanInv
  BY InitScan, ScanStep, TypeInvariant, PTL DEF Spec
<1> QED
  BY <1>1, PTL DEF ScanInv

-----------------------------------------------------------------------------
(* The parameters of a CRTC are those of what DRM believes is shown.       *)

LEMMA InitRegs == Init => RegsInv
BY DEF Init, RegsInv, RegsMatch, NoCall, Cur

\* The call is over on a CRTC that matches, as all others do.
LEMMA FinishRegs ==
  ASSUME NEW R \in SUBSET Crtcs, Finish(R), \A c \in Crtcs : RegsMatch(c)'
  PROVE  RegsInv'
<1>1. CASE pc' = "idle" /\ call' = NoCall
  BY <1>1 DEF NoCall, RegsInv
<1>2. ASSUME NEW d \in R,
             call' = [NoCall EXCEPT !.kind = "off", !.crtc = d, !.rest = R \ {d}]
      PROVE  RegsInv'
  <2>1. call'.kind = "off" /\ Cur' \in Crtcs
    BY <1>2 DEF NoCall, Cur
  <2> QED
    BY <2>1 DEF RegsInv
<1> QED
  BY <1>1, <1>2 DEF Finish

LEMMA ClientRegs == TypeInv /\ RegsInv /\ Client => RegsInv'
<1> SUFFICES ASSUME TypeInv, RegsInv, Client PROVE RegsInv'
  OBVIOUS
<1> USE DEF hwVars, drmVars
<1>0. pc = "idle" => \A c \in Crtcs : RegsMatch(c)
  BY NoneTyped DEF TypeInv, CallInv, RegsInv, Cur
<1>1. ASSUME NEW c \in Crtcs, NEW o \in Objs, NEW x \in Pans, Flip(c, o, x) PROVE RegsInv'
  <2>1. /\ pc' = "base" /\ Cur' = c /\ call'.kind = "flip" /\ call'.fb = cfb[c] /\ RegsMatch(c)
        /\ \A d \in Crtcs : RegsMatch(d)
    BY <1>0, <1>1, BeginCall DEF Flip, Begin
  <2>2. \A d \in Crtcs : d # c => cfb'[d] = cfb[d]
    BY <1>1 DEF Flip, TypeInv, TypeOK
  <2> QED
    BY <1>1, <2>1, <2>2 DEF Flip, RegsInv, RegsMatch
<1>2. ASSUME NEW c \in Crtcs, NEW o \in Objs, NEW x \in Pans, NEW m \in Modes, SetMode(c, o, m, x)
      PROVE  RegsInv'
  <2>1. /\ pc' = "prepare" /\ Cur' = c /\ call'.kind = "mode" /\ call'.fb = cfb[c]
        /\ \A d \in Crtcs : RegsMatch(d)
    BY <1>0, <1>2, BeginCall DEF SetMode, Begin
  <2>2. \A d \in Crtcs : d # c => cfb'[d] = cfb[d] /\ mode'[d] = mode[d]
    BY <1>2 DEF SetMode, TypeInv, TypeOK
  <2> QED
    BY <1>2, <2>1, <2>2 DEF SetMode, RegsInv, RegsMatch
<1>3. ASSUME NEW c \in Crtcs, TurnOff(c) PROVE RegsInv'
  <2>1. \A d \in Crtcs : RegsMatch(d)'
    BY <1>0, <1>3 DEF TurnOff, RegsMatch
  <2> QED
    BY <1>3, <2>1, FinishRegs DEF TurnOff
<1>4. ASSUME NEW c \in Crtcs, Blank(c) \/ Unblank(c) PROVE RegsInv'
  <2>1. Cur' = c /\ call'.kind \in {"blank", "unblank"} /\ \A d \in Crtcs : RegsMatch(d)
    BY <1>0, <1>4, BeginCall DEF Blank, Unblank, Begin
  <2> QED
    BY <1>4, <2>1 DEF Blank, Unblank, RegsInv, RegsMatch
<1>5. ASSUME NEW o \in Objs, FbDestroy(o) PROVE RegsInv'
  <2>1. \A d \in Crtcs : RegsMatch(d)'
    BY <1>0, <1>5 DEF FbDestroy, RegsMatch
  <2> QED
    BY <1>5, <2>1, FinishRegs DEF FbDestroy
<1>6. ASSUME NEW o \in Objs, FbCreate(o) \/ Fault(o) PROVE RegsInv'
  <2>1. UNCHANGED <<cfb, mode, reg, pc, call>>
    BY <1>6 DEF FbCreate, Fault
  <2> QED
    BY <2>1 DEF RegsInv, RegsMatch, Cur
<1> QED
  BY <1>1, <1>2, <1>3, <1>4, <1>5, <1>6 DEF Client

LEMMA AfterDisableRegs ==
  ASSUME TypeInv, RegsInv, pc \in {"prepare", "unpin"}, AfterDisable, UNCHANGED <<mode, reg>>
  PROVE  RegsInv'
<1>1. CASE call.kind \in {"mode", "restore"}
  BY <1>1 DEF AfterDisable, RegsInv, RegsMatch, Cur
<1>2. CASE call.kind \notin {"mode", "restore"}
  <2>1. call.kind \in {"off", "blank"} /\ Cur \in Crtcs /\ call.rest \in SUBSET Crtcs
    BY <1>2 DEF TypeInv, TypeOK, CallInv, Calls
  <2>2. Finish(call.rest) /\ cfb' = IF call.kind = "off" THEN Set(cfb, None) ELSE cfb
    BY <1>2 DEF AfterDisable
  <2>3. \A c \in Crtcs : c # Cur => cfb'[c] = cfb[c]
    BY <2>2 DEF Set, TypeInv, TypeOK
  <2>4. cfb'[Cur] = None \/ cfb'[Cur] = cfb[Cur]
    BY <2>1, <2>2 DEF Set, TypeInv, TypeOK
  <2>5. \A c \in Crtcs : RegsMatch(c)'
    BY <2>1, <2>3, <2>4 DEF RegsInv, RegsMatch
  <2> QED
    BY <2>1, <2>2, <2>5, FinishRegs
<1> QED
  BY <1>1, <1>2

LEMMA FailedRegs ==
  ASSUME TypeInv, RegsInv, pc = "base", Failed, UNCHANGED reg
  PROVE  RegsInv'
<1>1. /\ Cur \in Crtcs /\ call.kind \in {"mode", "restore", "flip"}
      /\ reg[Cur].mode = mode[Cur] /\ (call.fb # None => reg[Cur].fmt = call.fb)
      /\ \A c \in Crtcs : c # Cur => RegsMatch(c)
  BY DEF TypeInv, CallInv, RegsInv
<1>2. cfb'[Cur] = call.fb /\ \A c \in Crtcs : c # Cur => cfb'[c] = cfb[c]
  BY <1>1 DEF Failed, Set, TypeInv, TypeOK
<1>3. /\ \A c \in Crtcs : c # Cur => mode'[c] = mode[c]
      /\ mode'[Cur] = IF call.kind = "flip" THEN mode[Cur] ELSE call.mode
  BY <1>1 DEF Failed, Set, TypeInv, TypeOK
<1>4. \A c \in Crtcs : c # Cur => RegsMatch(c)'
  BY <1>1, <1>2, <1>3 DEF RegsMatch
<1>5. CASE Finish({}) /\ (call.kind \in {"flip", "restore"} \/ call.fb = None)
  <2>1. \A c \in Crtcs : RegsMatch(c)'
    <3> SUFFICES ASSUME NEW c \in Crtcs PROVE RegsMatch(c)'
      OBVIOUS
    <3>1. CASE c = Cur
      BY <1>1, <1>2, <1>3, <1>5, <3>1 DEF RegsMatch, TypeInv, CallInv
    <3> QED
      BY <1>4, <3>1
  <2> QED
    BY <1>5, <2>1, FinishRegs
<1>6. CASE call.kind = "mode" /\ call.fb # None
           /\ pc' = "prepare" /\ call' = [call EXCEPT !.kind = "restore"]
  <2>1. call'.kind = "restore" /\ Cur' = Cur /\ call'.fb = call.fb
    BY <1>6 DEF Cur, TypeInv, TypeOK, Calls
  <2> QED
    BY <1>1, <1>4, <1>6, <2>1 DEF RegsInv
<1> QED
  BY <1>1, <1>5, <1>6 DEF Failed

LEMMA DriverRegs == TypeInv /\ RegsInv /\ Driver => RegsInv'
<1> SUFFICES ASSUME TypeInv, RegsInv, Driver PROVE RegsInv'
  OBVIOUS
<1> USE DEF hwVars, drmVars
<1>1. CASE DisableInactive \/ DisableUnpin
  BY <1>1, AfterDisableRegs DEF DisableInactive, DisableUnpin
<1>2. CASE DisableControl \/ DisableBase
  BY <1>2 DEF DisableControl, DisableBase, RegsInv, RegsMatch, Cur
<1>3. CASE ModeSet
  <2>1. /\ Cur \in Crtcs /\ call.kind \in {"mode", "restore"}
    BY <1>3 DEF ModeSet, TypeInv, CallInv
  <2>2. /\ reg'[Cur].mode = mode[Cur] /\ reg'[Cur].fmt = reg[Cur].fmt
        /\ \A c \in Crtcs : c # Cur => reg'[c] = reg[c]
    BY <1>3, <2>1 DEF ModeSet, TypeInv, TypeOK, Regs
  <2> QED
    BY <1>3, <2>1, <2>2 DEF ModeSet, RegsInv, RegsMatch, Cur
<1>4. CASE SetBaseFails \/ SetBaseMisaligned
  BY <1>4, FailedRegs DEF SetBaseFails, SetBaseMisaligned
<1>5. CASE SetBase
  <2>1. PICK b : call' = [call EXCEPT !.base = b]
    BY <1>5 DEF SetBase
  <2>2. call'.kind = call.kind /\ Cur' = Cur
    BY <2>1 DEF Cur, TypeInv, TypeOK, Calls
  <2> QED
    BY <1>5, <2>2 DEF SetBase, RegsInv, RegsMatch, TypeInv, CallInv
<1>6. CASE SetFormat \/ Rewrite
  <2>1. /\ Cur \in Crtcs /\ call.kind \in {"mode", "restore", "flip"} /\ reg[Cur].mode = mode[Cur]
    BY <1>6 DEF SetFormat, Rewrite, TypeInv, CallInv, RegsInv
  <2>2. /\ reg'[Cur].mode = mode[Cur] /\ reg'[Cur].fmt = cfb[Cur]
        /\ \A c \in Crtcs : c # Cur => reg'[c] = reg[c]
    <3>1. CASE SetFormat
      BY <2>1, <3>1 DEF SetFormat, TypeInv, TypeOK, Regs
    <3>2. CASE Rewrite
      BY <2>1, <3>2 DEF Rewrite, RegsInv
    <3> QED
      BY <1>6, <3>1, <3>2
  <2>3. UNCHANGED <<cfb, mode>>
    BY <1>6 DEF SetFormat, Rewrite
  <2>4. \A c \in Crtcs : RegsMatch(c)'
    BY <2>2, <2>3 DEF RegsInv, RegsMatch
  <2>5. CASE UNCHANGED call /\ pc' \in {"rewrite", "commit"}
    BY <2>1, <2>2, <2>3, <2>4, <2>5 DEF RegsInv, Cur
  <2>6. CASE Finish({})
    BY <2>4, <2>6, FinishRegs
  <2> QED
    BY <1>6, <2>5, <2>6 DEF SetFormat, Rewrite, AfterSetBase
<1>7. CASE EnableActive \/ EnableBase
  <2>1. /\ UNCHANGED <<cfb, mode, reg>> /\ \E R \in SUBSET Crtcs : Finish(R)
    BY <1>7 DEF EnableActive, EnableBase, AfterEnable
  <2>2. pc \in {"commit", "latch"} /\ call.kind \in {"mode", "restore", "unblank"}
    BY <1>7 DEF EnableActive, EnableBase, TypeInv, CallInv
  <2>3. \A c \in Crtcs : RegsMatch(c)
    BY <2>2 DEF RegsInv, RegsMatch
  <2>4. \A c \in Crtcs : RegsMatch(c)'
    BY <2>1, <2>3 DEF RegsMatch
  <2> QED
    BY <2>1, <2>4, FinishRegs
<1>8. CASE EnableControl
  BY <1>8 DEF EnableControl, RegsInv, RegsMatch, Cur
<1> QED
  BY <1>1, <1>2, <1>3, <1>4, <1>5, <1>6, <1>7, <1>8 DEF Driver

LEMMA RegsStep == TypeInv /\ RegsInv /\ [Next]_vars => RegsInv'
<1>1. RegsInv /\ UNCHANGED vars => RegsInv'
  BY DEF vars, drmVars, hwVars, RegsInv, RegsMatch, Cur
<1> QED
  BY <1>1, ClientRegs, DriverRegs DEF Next

-----------------------------------------------------------------------------
(* The device does what the driver believes.                               *)

LEMMA InitDev == Init => DevInv
BY DEF Init, DevInv, Same, Shows

LEMMA FinishDev ==
  ASSUME NEW R \in SUBSET Crtcs, Finish(R), \A c \in Crtcs : (Same(c) /\ Shows(c))'
  PROVE  DevInv'
<1>1. CASE pc' = "idle"
  BY <1>1 DEF DevInv
<1>2. ASSUME NEW d \in R, pc' = "prepare",
             call' = [NoCall EXCEPT !.kind = "off", !.crtc = d, !.rest = R \ {d}]
      PROVE  DevInv'
  <2>1. Cur' = d
    BY <1>2 DEF NoCall, Cur
  <2> QED
    BY <1>2, <2>1 DEF DevInv
<1> QED
  BY <1>1, <1>2 DEF Finish

LEMMA ClientDev == TypeInv /\ DevInv /\ Client => DevInv'
<1> SUFFICES ASSUME TypeInv, DevInv, Client PROVE DevInv'
  OBVIOUS
<1> USE DEF hwVars, drmVars
<1>0. pc = "idle" => \A c \in Crtcs : Same(c) /\ Shows(c)
  BY NoneTyped DEF TypeInv, CallInv, DevInv, Cur
<1>1. ASSUME NEW c \in Crtcs, NEW o \in Objs, NEW x \in Pans, Flip(c, o, x) PROVE DevInv'
  <2>1. /\ pc' = "base" /\ Cur' = c /\ call'.kind = "flip" /\ call'.fb = cfb[c]
        /\ \A d \in Crtcs : Same(d) /\ Shows(d)
    BY <1>0, <1>1, BeginCall DEF Flip, Begin
  <2>2. \A d \in Crtcs : d # c => cfb'[d] = cfb[d]
    BY <1>1 DEF Flip, TypeInv, TypeOK
  <2> QED
    BY <1>1, <2>1, <2>2 DEF Flip, DevInv, Same, Shows
<1>2. ASSUME NEW c \in Crtcs, NEW o \in Objs, NEW x \in Pans, NEW m \in Modes, SetMode(c, o, m, x)
      PROVE  DevInv'
  <2>1. /\ pc' = "prepare" /\ Cur' = c /\ \A d \in Crtcs : Same(d) /\ Shows(d)
    BY <1>0, <1>2, BeginCall DEF SetMode, Begin
  <2>2. \A d \in Crtcs : d # c => cfb'[d] = cfb[d] /\ mode'[d] = mode[d]
    BY <1>2 DEF SetMode, TypeInv, TypeOK
  <2> QED
    BY <1>2, <2>1, <2>2 DEF SetMode, DevInv, Same, Shows
<1>3. ASSUME NEW c \in Crtcs, TurnOff(c) PROVE DevInv'
  <2>1. \A d \in Crtcs : (Same(d) /\ Shows(d))'
    BY <1>0, <1>3 DEF TurnOff, Same, Shows
  <2> QED
    BY <1>3, <2>1, FinishDev DEF TurnOff
<1>4. ASSUME NEW c \in Crtcs, Blank(c) \/ Unblank(c) PROVE DevInv'
  <2>1. Cur' = c /\ \A d \in Crtcs : Same(d) /\ Shows(d)
    BY <1>0, <1>4, BeginCall DEF Blank, Unblank, Begin
  <2>2. pc' = "prepare" \/ (pc' = "commit" /\ call'.kind = "unblank")
    BY <1>4, BeginCall DEF Blank, Unblank
  <2>3. \A d \in Crtcs : (Same(d) /\ Shows(d))'
    BY <1>4, <2>1 DEF Blank, Unblank, Same, Shows
  <2> QED
    BY <2>1, <2>2, <2>3 DEF DevInv
<1>5. ASSUME NEW o \in Objs, FbDestroy(o) PROVE DevInv'
  <2>1. \A d \in Crtcs : (Same(d) /\ Shows(d))'
    BY <1>0, <1>5 DEF FbDestroy, Same, Shows
  <2> QED
    BY <1>5, <2>1, FinishDev DEF FbDestroy
<1>6. ASSUME NEW o \in Objs, FbCreate(o) \/ Fault(o) PROVE DevInv'
  <2>1. UNCHANGED <<cfb, mode, active, base, en, scan, pc, call>>
    BY <1>6 DEF FbCreate, Fault
  <2> QED
    BY <2>1 DEF DevInv, Same, Shows, Off, Cur
<1> QED
  BY <1>1, <1>2, <1>3, <1>4, <1>5, <1>6 DEF Client

\* The CRTC of the call is off now; the others are as they were.
OnlyCur ==
  \A c \in Crtcs : c # Cur =>
    /\ en'[c] = en[c] /\ active'[c] = active[c] /\ base'[c] = base[c] /\ scan'[c] = scan[c]
    /\ cfb'[c] = cfb[c] /\ mode'[c] = mode[c]
NowOff == ~ en'[Cur] /\ ~ active'[Cur] /\ scan'[Cur].base = Zero

LEMMA AfterDisableDev ==
  ASSUME TypeInv, TypeInv', DevInv, pc \in {"prepare", "unpin"}, AfterDisable, OnlyCur, NowOff
  PROVE  DevInv'
<1>0. \A c \in Crtcs : c # Cur => (Same(c) /\ Shows(c))'
  BY DEF OnlyCur, DevInv, Same, Shows
<1>1. CASE call.kind \in {"mode", "restore"}
  BY <1>0, <1>1 DEF AfterDisable, DevInv, NowOff, Off, Cur
<1>2. CASE call.kind \notin {"mode", "restore"}
  <2>1. call.rest \in SUBSET Crtcs /\ Finish(call.rest)
    BY <1>2 DEF TypeInv, TypeOK, Calls, AfterDisable
  <2>2. ASSUME NEW c \in Crtcs, c = Cur PROVE (Same(c) /\ Shows(c))'
    <3>1. en'[c] = FALSE /\ active'[c] = FALSE
      BY <2>2 DEF NowOff, TypeInv, TypeOK
    <3> QED
      BY <2>2, <3>1 DEF NowOff, Same, Shows
  <2> QED
    BY <1>0, <2>1, <2>2, FinishDev
<1> QED
  BY <1>1, <1>2

LEMMA FailedDev ==
  ASSUME TypeInv, DevInv, pc = "base", Failed, UNCHANGED <<active, base, en, scan>>
  PROVE  DevInv'
<1>1. /\ Cur \in Crtcs /\ call.kind \in {"mode", "restore", "flip"}
      /\ \A c \in Crtcs : c # Cur => Same(c) /\ Shows(c)
  BY DEF TypeInv, CallInv, DevInv
<1>2. cfb'[Cur] = call.fb /\ \A c \in Crtcs : c # Cur => cfb'[c] = cfb[c]
  BY <1>1 DEF Failed, Set, TypeInv, TypeOK
<1>3. /\ \A c \in Crtcs : c # Cur => mode'[c] = mode[c]
      /\ call.kind = "flip" => mode'[Cur] = mode[Cur]
  BY <1>1 DEF Failed, Set, TypeInv, TypeOK
<1>4. \A c \in Crtcs : c # Cur => (Same(c) /\ Shows(c))'
  BY <1>1, <1>2, <1>3 DEF Same, Shows
<1>5. \A c \in Crtcs : c = Cur => (Same(c) /\ Shows(c))'
  BY <1>1, <1>2, <1>3 DEF Same, Shows, Off, DevInv, TypeInv, TypeOK
<1>6. CASE Finish({})
  BY <1>4, <1>5, <1>6, FinishDev
<1>7. CASE pc' = "prepare" /\ call' = [call EXCEPT !.kind = "restore"]
  <2>1. Cur' = Cur
    BY <1>7 DEF Cur, TypeInv, TypeOK, Calls
  <2> QED
    BY <1>1, <1>4, <1>5, <1>7, <2>1 DEF DevInv
<1> QED
  BY <1>6, <1>7 DEF Failed

LEMMA DriverDev == TypeInv /\ RegsInv /\ DevInv /\ Driver => DevInv'
<1> SUFFICES ASSUME TypeInv, TypeInv', RegsInv, DevInv, Driver PROVE DevInv'
  BY DriverTypes
<1> USE DEF hwVars, drmVars
<1>0. pc # "idle" => Cur \in Crtcs
  BY DEF TypeInv, CallInv
<1>1. CASE DisableInactive
  <2>1. OnlyCur
    BY <1>1 DEF DisableInactive, OnlyCur, AfterDisable, Set, TypeInv, TypeOK
  <2>2. NowOff
    BY <1>0, <1>1 DEF DisableInactive, NowOff, DevInv, Same, TypeInv, TypeOK
  <2> QED
    BY <1>1, <2>1, <2>2, AfterDisableDev DEF DisableInactive
<1>2. CASE DisableControl
  <2>1. ~ en'[Cur] /\ \A c \in Crtcs : c # Cur => en'[c] = en[c]
    BY <1>0, <1>2 DEF DisableControl, Set, TypeInv, TypeOK
  <2> QED
    BY <1>2, <2>1 DEF DisableControl, DevInv, Same, Shows, Cur
<1>3. CASE DisableBase
  <2>1. scan'[Cur].base = Zero /\ \A c \in Crtcs : c # Cur => scan'[c] = scan[c]
    BY <1>0, <1>3 DEF DisableBase, Set, Latched, TypeInv, TypeOK
  <2> QED
    BY <1>3, <2>1 DEF DisableBase, DevInv, Same, Shows, Cur
<1>4. CASE DisableUnpin
  <2>1. OnlyCur
    BY <1>4 DEF DisableUnpin, OnlyCur, AfterDisable, Set, TypeInv, TypeOK
  <2>2. NowOff
    BY <1>0, <1>4 DEF DisableUnpin, NowOff, DevInv, Set, TypeInv, TypeOK
  <2> QED
    BY <1>4, <2>1, <2>2, AfterDisableDev DEF DisableUnpin
<1>5. CASE ModeSet
  BY <1>5 DEF ModeSet, DevInv, Same, Shows, Off, Cur, TypeInv, CallInv
<1>6. CASE SetBaseFails \/ SetBaseMisaligned
  BY <1>6, FailedDev DEF SetBaseFails, SetBaseMisaligned
<1>7. CASE SetBase
  <2>1. PICK b : call' = [call EXCEPT !.base = b]
    BY <1>7 DEF SetBase
  <2>2. call'.kind = call.kind /\ Cur' = Cur /\ call'.fb = call.fb
    BY <2>1 DEF Cur, TypeInv, TypeOK, Calls
  <2> QED
    BY <1>7, <2>2 DEF SetBase, DevInv, Same, Shows, Off
<1>8. CASE SetFormat
  <2>1. /\ \A c \in Crtcs : c # Cur => base'[c] = base[c]
        /\ UNCHANGED <<cfb, mode, active, en, scan>> /\ Cur \in Crtcs
    BY <1>0, <1>8 DEF SetFormat, Set, TypeInv, TypeOK
  <2>2. \A c \in Crtcs : c # Cur => (Same(c) /\ Shows(c))'
    BY <2>1 DEF DevInv, Same, Shows
  <2>3. CASE active[Cur]
    BY <1>8, <2>1, <2>2, <2>3 DEF SetFormat, DevInv, Same, Off, Cur, TypeInv, TypeOK
  <2>4. CASE ~ active[Cur]
    <3>1. ~ en[Cur] /\ scan[Cur].base = Zero
      BY <1>8, <2>1, <2>4 DEF SetFormat, DevInv, Same, Off, TypeInv, TypeOK
    <3>2. \A c \in Crtcs : c = Cur => (Same(c) /\ Shows(c))'
      BY <2>1, <2>4, <3>1 DEF Same, Shows, TypeInv, TypeOK
    <3>3. CASE Finish({})
      BY <2>2, <3>2, <3>3, FinishDev
    <3>4. CASE pc' = "commit" /\ UNCHANGED call
      BY <2>1, <2>2, <2>4, <3>1, <3>4 DEF DevInv, Off, Cur
    <3> QED
      BY <1>8, <2>4, <3>3, <3>4 DEF SetFormat, AfterSetBase
  <2> QED
    BY <2>3, <2>4
<1>9. CASE Rewrite \/ EnableBase
  <2>1. /\ UNCHANGED <<cfb, mode, active, en, base>> /\ Cur \in Crtcs
        /\ en[Cur] /\ active[Cur] /\ reg[Cur].mode = mode[Cur] /\ reg[Cur].fmt = cfb[Cur]
    BY <1>0, <1>9 DEF Rewrite, EnableBase, DevInv, RegsInv, RegsMatch, TypeInv, CallInv
  <2>2. /\ scan'[Cur].mode = mode[Cur] /\ scan'[Cur].fmt = cfb[Cur] /\ scan'[Cur].base = base[Cur]
        /\ \A c \in Crtcs : c # Cur => scan'[c] = scan[c]
    BY <1>9, <2>1 DEF Rewrite, EnableBase, Set, Latched, TypeInv, TypeOK
  <2>3. \A c \in Crtcs : (Same(c) /\ Shows(c))'
    <3>1. \A c \in Crtcs : c # Cur => (Same(c) /\ Shows(c))'
      BY <2>1, <2>2 DEF DevInv, Same, Shows
    <3>2. en'[Cur] = TRUE /\ active'[Cur] = TRUE
      BY <2>1 DEF TypeInv, TypeOK
    <3>3. ASSUME NEW c \in Crtcs, c = Cur PROVE (Same(c) /\ Shows(c))'
      BY <2>1, <2>2, <3>2, <3>3 DEF Same, Shows
    <3> QED
      BY <3>1, <3>3
  <2>4. \E R \in SUBSET Crtcs : Finish(R)
    BY <1>9 DEF Rewrite, EnableBase, AfterSetBase, AfterEnable, DevInv
  <2> QED
    BY <2>3, <2>4, FinishDev
<1>10. CASE EnableActive
  <2>1. UNCHANGED <<cfb, mode, active, base, en, scan>> /\ \E R \in SUBSET Crtcs : Finish(R)
    BY <1>10 DEF EnableActive, AfterEnable
  <2>2. \A c \in Crtcs : Same(c) /\ Shows(c)
    BY <1>10 DEF EnableActive, DevInv, Off
  <2>3. \A c \in Crtcs : (Same(c) /\ Shows(c))'
    BY <2>1, <2>2 DEF Same, Shows
  <2> QED
    BY <2>1, <2>3, FinishDev
<1>11. CASE EnableControl
  <2>1. /\ en'[Cur] /\ active'[Cur]
        /\ \A c \in Crtcs : c # Cur => en'[c] = en[c] /\ active'[c] = active[c]
    BY <1>0, <1>11 DEF EnableControl, Set, TypeInv, TypeOK
  <2>2. UNCHANGED <<cfb, mode, base, scan, call>> /\ pc' = "latch"
    BY <1>11 DEF EnableControl
  <2>3. \A c \in Crtcs : c # Cur => (Same(c) /\ Shows(c))'
    BY <2>1, <2>2 DEF DevInv, Same, Shows
  <2> QED
    BY <2>1, <2>2, <2>3 DEF DevInv, Cur
<1> QED
  BY <1>1, <1>2, <1>3, <1>4, <1>5, <1>6, <1>7, <1>8, <1>9, <1>10, <1>11 DEF Driver

THEOREM DisplayInvariant == Spec => [](TypeInv /\ RegsInv /\ DevInv)
<1>1. TypeInv /\ RegsInv /\ DevInv /\ [Next]_vars => DevInv'
  <2>1. DevInv /\ UNCHANGED vars => DevInv'
    BY DEF vars, drmVars, hwVars, DevInv, Same, Shows, Off, Cur
  <2> QED
    BY <2>1, ClientDev, DriverDev DEF Next
<1> QED
  BY <1>1, InitRegs, InitDev, RegsStep, TypeInvariant, PTL DEF Spec

\* Whatever calls succeed, fail or fail to restore what was there, on each
\* CRTC that no call is changing the device does what the driver believes.
THEOREM DeviceMatchesDriverHolds == Spec => []DeviceMatchesDriver
<1>1. DevInv => DeviceMatchesDriver
  BY DEF DevInv, Same, Shows, DeviceMatchesDriver
<1> QED
  BY <1>1, DisplayInvariant, PTL

-----------------------------------------------------------------------------
(* Clients that flip, pan, turn off and remove framebuffers, but do not    *)
(* blank nor change the mode of a CRTC that is on, with framebuffers that  *)
(* the device can show: each pin that the driver takes it gives back once. *)

Balanced ==
  /\ Clients \subseteq {"flip", "off"} /\ Misaligned = {}
  /\ IsFiniteSet(Crtcs) /\ Cardinality(Crtcs) + 1 < PinMod

\* The framebuffer that a CRTC has pinned: while a call has not come to
\* set_base, the old one.
Held(c) ==
  IF c = Cur /\ call.kind \in {"mode", "flip"} /\ pc \in {"prepare", "modeset", "base"}
    THEN call.fb ELSE cfb[c]

\* The CRTCs that have it pinned, and None for fb_probe.
Pinners(o) == {c \in Crtcs : Held(c) = o} \cup IF o = Console THEN {None} ELSE {}

\* Clients that do not blank never meet an enabled CRTC without framebuffer,
\* nor change the mode of one that is on.
FlowInv ==
  /\ call.kind \in {"none", "mode", "flip", "off"} /\ \A c \in Crtcs : dpms[c] = "on"
  /\ call.kind = "off" => pc \in {"prepare", "post", "unpin"}
  /\ call.kind = "mode" => /\ pc \in {"prepare", "modeset", "base", "format", "commit", "latch"}
                           /\ call.fb = None
                           /\ pc # "latch" => ~ active[Cur]
  /\ call.kind = "flip" => pc \in {"base", "format", "rewrite"} /\ active[Cur]
  /\ call.kind \in {"mode", "flip"} => pan[Cur] < Size[cfb[Cur]]
  /\ \A c \in Crtcs : c # Cur \/ call.kind = "off" => (cfb[c] # None <=> active[c])
  /\ pc = "latch" => scan[Cur].base = Zero

\* Pins are counted, without wrapping, and none is without a place.
CountInv ==
  /\ \A o \in Objs : pins[o] = Cardinality(Pinners(o)) /\ (place[o] = {} => Pinners(o) = {})
  /\ Console # None => place[Console] = Block(0, Size[Console])

\* The base of a CRTC lies in the place of what it has pinned.
Rests(c, b) == b.fb = Held(c) /\ b.page \in place[b.fb]
RestInv ==
  /\ \A c \in Crtcs : active[c] /\ ~ (c = Cur /\ pc = "format") => Rests(c, base[c])
  /\ pc = "format" => Rests(Cur, call.base)
  /\ pc = "commit" => Rests(Cur, base[Cur])

LEMMA FinishFlow ==
  ASSUME NEW R, Finish(R), \A c \in Crtcs : dpms'[c] = "on",
         \A c \in Crtcs : cfb'[c] # None <=> active'[c]
  PROVE  FlowInv'
<1>1. CASE pc' = "idle" /\ call' = NoCall
  BY <1>1, NoneTyped DEF FlowInv
<1>2. ASSUME NEW d \in R, pc' = "prepare",
             call' = [NoCall EXCEPT !.kind = "off", !.crtc = d, !.rest = R \ {d}]
      PROVE  FlowInv'
  <2>1. call'.kind = "off"
    BY <1>2 DEF NoCall
  <2> QED
    BY <1>2, <2>1 DEF FlowInv
<1> QED
  BY <1>1, <1>2 DEF Finish

LEMMA ClientFlow ==
  ASSUME Balanced, TypeInv, FlowInv, Client
  PROVE  FlowInv'
<1>1. pc = "idle" => /\ Cur = None /\ call.kind = "none"
                     /\ \A c \in Crtcs : cfb[c] # None <=> active[c]
  BY NoneTyped DEF FlowInv, TypeInv, CallInv, Cur
<1>2. ASSUME NEW c \in Crtcs, NEW o \in Objs, NEW m \in Modes, NEW x \in Pans, SetMode(c, o, m, x)
      PROVE  FlowInv'
  <2>1. cfb[c] = None /\ pc = "idle" /\ ~ active[c]
    BY <1>1, <1>2 DEF SetMode, Begin, Balanced
  <2>2. /\ pc' = "prepare" /\ Cur' = c /\ call'.kind = "mode" /\ call'.fb = None
    BY <1>2, <2>1, BeginCall DEF SetMode
  <2>3. /\ cfb'[c] = o /\ pan'[c] = x /\ x < Size[o] /\ UNCHANGED <<dpms, active>>
        /\ \A d \in Crtcs : d # c => cfb'[d] = cfb[d]
    BY <1>2 DEF SetMode, TypeInv, TypeOK
  <2> QED
    BY <1>1, <2>1, <2>2, <2>3 DEF FlowInv
<1>3. ASSUME NEW c \in Crtcs, NEW o \in Objs, NEW x \in Pans, Flip(c, o, x)
      PROVE  FlowInv'
  <2>1. /\ pc = "idle" /\ pc' = "base" /\ Cur' = c /\ call'.kind = "flip" /\ active[c]
    BY <1>1, <1>3, BeginCall DEF Flip, Begin
  <2>2. /\ cfb'[c] = o /\ pan'[c] = x /\ x < Size[o] /\ UNCHANGED <<dpms, active>>
        /\ \A d \in Crtcs : d # c => cfb'[d] = cfb[d]
    BY <1>3 DEF Flip, TypeInv, TypeOK
  <2> QED
    BY <1>1, <2>1, <2>2 DEF FlowInv
<1>4. ASSUME NEW c \in Crtcs, TurnOff(c) PROVE FlowInv'
  BY <1>1, <1>4, FinishFlow DEF TurnOff, drmVars, FlowInv
<1>5. ASSUME NEW o \in Objs, FbDestroy(o) PROVE FlowInv'
  BY <1>1, <1>5, FinishFlow DEF FbDestroy, FlowInv
<1>6. ASSUME NEW o \in Objs, FbCreate(o) \/ Fault(o) PROVE FlowInv'
  BY <1>6 DEF FbCreate, Fault, FlowInv, drmVars, hwVars, Cur
<1>7. ASSUME NEW c \in Crtcs PROVE ~ Blank(c) /\ ~ Unblank(c)
  BY DEF Blank, Unblank, Balanced, FlowInv
<1> QED
  BY <1>2, <1>3, <1>4, <1>5, <1>6, <1>7 DEF Client

\* Of the two alternatives of an action, the one that such clients meet.
LEMMA BalancedSteps ==
  ASSUME Balanced, TypeInv, DevInv, FlowInv
  PROVE  /\ ~ SetBaseMisaligned /\ ~ EnableActive
         /\ DisableInactive =>
              \/ call.kind = "mode" /\ pc' = "modeset" /\ UNCHANGED <<call, cfb>>
              \/ call.kind = "off" /\ cfb[Cur] = None /\ Finish(call.rest) /\ UNCHANGED cfb
         /\ DisableControl \/ DisableBase \/ DisableUnpin =>
              call.kind = "off" /\ active[Cur] /\ cfb[Cur] \in Objs
         /\ DisableUnpin => Finish(call.rest) /\ cfb' = Set(cfb, None)
         /\ pc \in {"modeset", "commit"} => call.kind = "mode"
         /\ pc = "rewrite" => call.kind = "flip"
         /\ pc = "latch" => call.kind = "mode" /\ active[Cur]
         /\ pc \in {"base", "format"} => call.kind \in {"mode", "flip"}
         /\ SetBaseFails => Finish({}) /\ cfb' = Set(cfb, call.fb)
         /\ pc # "idle" => Cur \in Crtcs
<1>0. /\ pc # "idle" => Cur \in Crtcs
      /\ pc \in {"modeset", "commit"} => call.kind = "mode"
      /\ pc = "rewrite" => call.kind = "flip"
      /\ pc = "latch" => call.kind = "mode" /\ active[Cur]
      /\ pc \in {"base", "format"} => call.kind \in {"mode", "flip"}
      /\ pc \in {"prepare", "post", "unpin"} => call.kind \in {"mode", "off"}
      /\ pc \in {"post", "unpin"} => call.kind = "off" /\ active[Cur]
      /\ pc = "prepare" /\ active[Cur] => call.kind = "off"
  BY DEF TypeInv, CallInv, FlowInv, DevInv
<1>1. ~ SetBaseMisaligned /\ ~ EnableActive
  BY <1>0 DEF SetBaseMisaligned, EnableActive, FlowInv, Balanced
<1>2. call.kind = "off" => (cfb[Cur] # None <=> active[Cur])
  <2>1. call.kind = "off" => Cur \in Crtcs
    BY <1>0 DEF FlowInv
  <2> QED BY <2>1 DEF FlowInv
<1>3. DisableInactive =>
              \/ call.kind = "mode" /\ pc' = "modeset" /\ UNCHANGED <<call, cfb>>
              \/ call.kind = "off" /\ cfb[Cur] = None /\ Finish(call.rest) /\ UNCHANGED cfb
  <2> SUFFICES ASSUME DisableInactive, call.kind = "off"
               PROVE  cfb[Cur] = None /\ Finish(call.rest) /\ UNCHANGED cfb
    BY <1>0 DEF DisableInactive, AfterDisable
  <2>1. cfb[Cur] = None /\ Finish(call.rest) /\ cfb' = Set(cfb, None)
    BY <1>2 DEF DisableInactive, AfterDisable
  <2> QED BY <2>1 DEF Set, TypeInv, TypeOK
<1>4. DisableControl \/ DisableBase \/ DisableUnpin =>
              call.kind = "off" /\ active[Cur] /\ cfb[Cur] \in Objs
  <2> SUFFICES ASSUME DisableControl \/ DisableBase \/ DisableUnpin
               PROVE  call.kind = "off" /\ active[Cur] /\ cfb[Cur] \in Objs
    OBVIOUS
  <2>1. call.kind = "off" /\ active[Cur] /\ Cur \in Crtcs
    BY <1>0 DEF DisableControl, DisableBase, DisableUnpin
  <2> QED BY <1>2, <2>1 DEF TypeInv, TypeOK, Fbs
<1>5. DisableUnpin => Finish(call.rest) /\ cfb' = Set(cfb, None)
  BY <1>4 DEF DisableUnpin, AfterDisable
<1>6. SetBaseFails => Finish({}) /\ cfb' = Set(cfb, call.fb)
  BY <1>0 DEF SetBaseFails, Failed, FlowInv
<1> QED BY <1>0, <1>1, <1>3, <1>4, <1>5, <1>6

LEMMA DriverFlow ==
  ASSUME Balanced, TypeInv, DevInv, FlowInv, Driver
  PROVE  FlowInv'
<1>0. Cur \in Crtcs
  BY DEF Driver, DisableInactive, DisableControl, DisableBase, DisableUnpin, ModeSet, SetBaseFails,
     SetBaseMisaligned, SetBase, SetFormat, Rewrite, EnableActive, EnableControl, EnableBase, TypeInv, CallInv
<1>1. CASE DisableInactive
  <2>1. CASE call.kind = "mode" /\ pc' = "modeset" /\ UNCHANGED <<call, cfb>>
    BY <1>1, <2>1 DEF DisableInactive, FlowInv, Cur, hwVars
  <2>2. CASE call.kind = "off" /\ Finish(call.rest) /\ UNCHANGED cfb
    BY <1>1, <2>2, FinishFlow DEF DisableInactive, FlowInv
  <2> QED BY <1>1, <2>1, <2>2, BalancedSteps
<1>2. CASE DisableControl \/ DisableBase
  BY <1>2, BalancedSteps DEF DisableControl, DisableBase, FlowInv, drmVars, Cur
<1>3. CASE DisableUnpin
  <2>1. /\ Finish(call.rest) /\ UNCHANGED dpms
        /\ cfb' = [cfb EXCEPT ![Cur] = None] /\ active' = [active EXCEPT ![Cur] = FALSE]
        /\ call.kind = "off"
    BY <1>3, BalancedSteps DEF DisableUnpin, Set
  <2>2. \A c \in Crtcs : cfb'[c] # None <=> active'[c]
    BY <2>1 DEF FlowInv, TypeInv, TypeOK
  <2> QED BY <2>1, <2>2, FinishFlow DEF FlowInv
<1>4. CASE ModeSet
  BY <1>4, BalancedSteps DEF ModeSet, FlowInv, drmVars, Cur
<1>5. CASE SetBaseFails
  <2>1. /\ Finish({}) /\ UNCHANGED <<dpms, active>> /\ cfb' = [cfb EXCEPT ![Cur] = call.fb]
        /\ call.kind \in {"mode", "flip"}
    BY <1>5, BalancedSteps DEF SetBaseFails, Set
  <2>2. call.fb # None <=> active[Cur]
    BY <1>5, <2>1 DEF SetBaseFails, FlowInv, TypeInv, CallInv
  <2>3. \A c \in Crtcs : cfb'[c] # None <=> active'[c]
    BY <2>1, <2>2 DEF FlowInv, TypeInv, TypeOK
  <2> QED BY <2>1, <2>3, FinishFlow DEF FlowInv
<1>6. CASE SetBase
  <2>1. PICK b : call' = [call EXCEPT !.base = b]
    BY <1>6 DEF SetBase
  <2>2. call'.kind = call.kind /\ Cur' = Cur /\ call'.fb = call.fb /\ call.kind \in {"mode", "flip"}
    BY <1>6, <2>1, BalancedSteps DEF SetBase, Cur, TypeInv, TypeOK, Calls
  <2> QED BY <1>6, <2>2 DEF SetBase, FlowInv, drmVars, hwVars
<1>7. CASE SetFormat
  <2>1. /\ call.kind = "flip" => pc' = "rewrite" /\ UNCHANGED call
        /\ call.kind = "mode" => pc' = "commit" /\ UNCHANGED call
    BY <1>7 DEF SetFormat, AfterSetBase, FlowInv
  <2> QED BY <1>7, <2>1, BalancedSteps DEF SetFormat, FlowInv, drmVars, Cur
<1>8. CASE Rewrite
  <2>1. Finish({}) /\ UNCHANGED <<cfb, dpms, active>> /\ call.kind = "flip"
    BY <1>8, BalancedSteps DEF Rewrite, AfterSetBase, drmVars
  <2>2. active[Cur] /\ cfb[Cur] \in Objs
    BY <2>1 DEF FlowInv, TypeInv, CallInv
  <2> QED BY <2>1, <2>2, FinishFlow DEF FlowInv
<1>9. CASE EnableControl
  <2>1. pc' = "latch" /\ scan[Cur].base = Zero /\ UNCHANGED <<cfb, dpms, scan, call, pan>>
    BY <1>9, BalancedSteps DEF EnableControl, DevInv, Off, drmVars
  <2>2. \A c \in Crtcs : c # Cur => active'[c] = active[c]
    BY <1>9 DEF EnableControl, Set, TypeInv, TypeOK
  <2> QED BY <1>9, <2>1, <2>2, BalancedSteps DEF EnableControl, FlowInv, Cur
<1>10. CASE EnableBase
  <2>1. /\ \E R \in SUBSET Crtcs : Finish(R)
        /\ UNCHANGED <<cfb, active>> /\ active[Cur] /\ call.kind = "mode"
    BY <1>10, BalancedSteps DEF EnableBase, AfterEnable
  <2>2. \A c \in Crtcs : dpms'[c] = "on"
    BY <1>10 DEF EnableBase, AfterEnable, Set, FlowInv, TypeInv, TypeOK
  <2>3. cfb[Cur] \in Objs
    BY <2>1 DEF TypeInv, CallInv
  <2> QED BY <2>1, <2>2, <2>3, FinishFlow DEF FlowInv
<1> QED
  BY <1>1, <1>2, <1>3, <1>4, <1>5, <1>6, <1>7, <1>8, <1>9, <1>10, BalancedSteps DEF Driver

LEMMA FlowStep ==
  ASSUME Balanced, TypeInv, DevInv, FlowInv, [Next]_vars
  PROVE  FlowInv'
<1>1. UNCHANGED vars => FlowInv'
  BY DEF vars, drmVars, hwVars, FlowInv, Cur
<1> QED BY <1>1, ClientFlow, DriverFlow DEF Next

\* There are not so many pinners that their number wraps.
LEMMA Counted ==
  ASSUME Balanced, NEW S \in SUBSET (Crtcs \cup {None}), NEW c \in Crtcs
  PROVE  /\ Cardinality(S) \in 0 .. PinMod - 1 /\ (Cardinality(S) = 0 <=> S = {})
         /\ c \notin S => Inc(Cardinality(S)) = Cardinality(S \cup {c})
         /\ c \in S => /\ Dec(Cardinality(S)) = Cardinality(S \ {c})
                       /\ Dec(Inc(Cardinality(S))) = Cardinality(S)
<1>1. IsFiniteSet(Crtcs \cup {None}) /\ Cardinality(Crtcs \cup {None}) = Cardinality(Crtcs) + 1
  BY FS_AddElement, NoneTyped DEF Balanced
<1>2. \A T \in SUBSET (Crtcs \cup {None}) :
        /\ IsFiniteSet(T) /\ Cardinality(T) \in 0 .. PinMod - 1 /\ (Cardinality(T) = 0 <=> T = {})
  <2> SUFFICES ASSUME NEW T \in SUBSET (Crtcs \cup {None})
               PROVE  IsFiniteSet(T) /\ Cardinality(T) \in 0 .. PinMod - 1 /\ (Cardinality(T) = 0 <=> T = {})
    OBVIOUS
  <2>1. IsFiniteSet(T) /\ Cardinality(T) <= Cardinality(Crtcs \cup {None})
    BY <1>1, FS_Subset
  <2>2. Cardinality(T) \in Nat /\ (Cardinality(T) = 0 <=> T = {}) /\ Cardinality(Crtcs) \in Nat
    BY <2>1, FS_CardinalityType, FS_EmptySet DEF Balanced
  <2> QED BY <1>1, <2>1, <2>2 DEF Balanced
<1>3. IsFiniteSet(S) /\ Cardinality(S) \in 0 .. PinMod - 1
  BY <1>2
<1>4. ASSUME c \notin S PROVE Inc(Cardinality(S)) = Cardinality(S \cup {c})
  <2>1. Cardinality(S \cup {c}) = Cardinality(S) + 1
    BY <1>3, <1>4, FS_AddElement
  <2>2. Cardinality(S \cup {c}) \in 0 .. PinMod - 1
    BY <1>2
  <2> QED BY <1>3, <2>1, <2>2 DEF Inc
<1>5. ASSUME c \in S
      PROVE  Dec(Cardinality(S)) = Cardinality(S \ {c}) /\ Dec(Inc(Cardinality(S))) = Cardinality(S)
  <2>1. Cardinality(S \ {c}) = Cardinality(S) - 1
    BY <1>3, <1>5, FS_RemoveElement
  <2>2. Cardinality(S \ {c}) \in 0 .. PinMod - 1
    BY <1>2
  <2> DEFINE n == Cardinality(S)
  <2>3. n \in 1 .. PinMod - 1
    BY <1>3, <2>1, <2>2
  <2> HIDE DEF n
  <2>4. Dec(n) = n - 1
    <3>1. n + PinMod - 1 = (n - 1) + PinMod /\ n - 1 \in 0 .. PinMod - 1
      BY <2>3
    <3> QED BY <3>1 DEF Dec
  <2>5. Dec(Inc(n)) = n
    <3>1. CASE n = PinMod - 1
      BY <2>3, <3>1 DEF Inc, Dec
    <3>2. CASE n # PinMod - 1
      <4>1. Inc(n) = n + 1
        BY <2>3, <3>2 DEF Inc
      <4>2. (n + 1) + PinMod - 1 = n + PinMod
        BY <2>3
      <4> QED BY <2>3, <4>1, <4>2 DEF Dec
    <3> QED BY <3>1, <3>2
  <2> QED BY <2>1, <2>4, <2>5 DEF n
<1> QED BY <1>2, <1>4, <1>5

LEMMA PinnersKnown == \A o : Pinners(o) \in SUBSET (Crtcs \cup {None})
BY DEF Pinners

\* Between calls, and while one turns CRTCs off, all is as DRM knows it.
LEMMA HeldOutside == call.kind \notin {"mode", "flip"} => \A c : Held(c) = cfb[c]
BY DEF Held

LEMMA FinishHeld ==
  ASSUME NEW R, Finish(R)
  PROVE  \A c : Held(c)' = cfb'[c]
<1>1. call'.kind \in {"none", "off"}
  <2>1. ASSUME NEW d \in R, call' = [NoCall EXCEPT !.kind = "off", !.crtc = d, !.rest = R \ {d}]
        PROVE  call'.kind = "off"
    BY <2>1 DEF NoCall
  <2> QED BY <2>1, NoneTyped DEF Finish
<1>2. call'.kind \notin {"mode", "flip"}
  BY <1>1
<1> QED BY <1>2 DEF Held

\* The CRTC of the call and its object, while something is shown on it.
LEMMA HeldObject ==
  ASSUME TypeInv, FlowInv, NEW c \in Crtcs, active[c] \/ (c = Cur /\ pc \in {"commit", "format"})
  PROVE  Held(c) \in Objs
<1>1. CASE c = Cur /\ call.kind \in {"mode", "flip"}
  BY <1>1 DEF Held, TypeInv, TypeOK, CallInv, FlowInv
<1>2. CASE ~ (c = Cur /\ call.kind \in {"mode", "flip"})
  <2>1. active[c] /\ Held(c) = cfb[c] /\ (c # Cur \/ call.kind = "off")
    <3>1. c = Cur => pc # "idle" /\ call.kind # "none"
      BY NoneTyped DEF TypeInv, TypeOK, CallInv, Cur, FlowInv
    <3> QED BY <1>2, <3>1 DEF Held, FlowInv, TypeInv, CallInv
  <2> QED BY <2>1 DEF FlowInv, TypeInv, TypeOK, Fbs
<1> QED BY <1>1, <1>2

\* No step but set_base and the unpin of disable changes what is pinned.
LEMMA HeldKept ==
  ASSUME Balanced, TypeInv, DevInv, FlowInv, Next, ~ SetBase, ~ DisableUnpin
  PROVE  \A c \in Crtcs : Held(c)' = Held(c)
<1> SUFFICES ASSUME NEW c \in Crtcs PROVE Held(c)' = Held(c)
  OBVIOUS
<1>0. pc = "idle" => Held(c) = cfb[c]
  BY DEF Held
<1>1. ASSUME NEW d \in Crtcs, NEW o \in Objs, NEW m, NEW x \in Pans,
             SetMode(d, o, m, x) \/ Flip(d, o, x)
      PROVE  Held(c)' = Held(c)
  <2>1. /\ pc = "idle" /\ Cur' = d /\ call'.fb = cfb[d] /\ call'.kind \in {"mode", "flip"}
        /\ pc' \in {"prepare", "base"}
    BY <1>1, BeginCall DEF SetMode, Flip, Begin
  <2>2. c # d => cfb'[c] = cfb[c]
    BY <1>1 DEF SetMode, Flip, TypeInv, TypeOK
  <2> QED BY <1>0, <2>1, <2>2 DEF Held
<1>2. ASSUME NEW d \in Crtcs, TurnOff(d) PROVE Held(c)' = Held(c)
  BY <1>0, <1>2, FinishHeld DEF TurnOff, drmVars
<1>3. ASSUME NEW o \in Objs, FbDestroy(o) PROVE Held(c)' = Held(c)
  BY <1>0, <1>3, FinishHeld DEF FbDestroy
<1>4. ASSUME NEW o \in Objs, FbCreate(o) \/ Fault(o) PROVE Held(c)' = Held(c)
  BY <1>4 DEF FbCreate, Fault, Held, Cur, drmVars
<1>5. CASE DisableInactive
  <2>1. CASE call.kind = "mode" /\ pc' = "modeset" /\ UNCHANGED <<call, cfb>>
    BY <1>5, <2>1 DEF DisableInactive, Held, Cur
  <2>2. CASE call.kind = "off" /\ Finish(call.rest) /\ UNCHANGED cfb
    BY <2>2, FinishHeld, HeldOutside
  <2> QED BY <1>5, <2>1, <2>2, BalancedSteps
<1>6. CASE DisableControl \/ DisableBase
  BY <1>6, BalancedSteps, HeldOutside DEF DisableControl, DisableBase, Held, drmVars
<1>7. CASE ModeSet
  BY <1>7 DEF ModeSet, Held, Cur, drmVars
<1>8. CASE SetBaseFails
  <2>1. /\ Held(c)' = cfb'[c] /\ cfb' = [cfb EXCEPT ![Cur] = call.fb]
        /\ call.kind \in {"mode", "flip"} /\ pc = "base"
    BY <1>8, BalancedSteps, FinishHeld DEF SetBaseFails, Set
  <2> QED BY <2>1 DEF Held, TypeInv, TypeOK
<1>9. CASE SetFormat
  <2>1. UNCHANGED <<call, cfb>> /\ pc = "format" /\ pc' \in {"rewrite", "commit"}
    BY <1>9, BalancedSteps DEF SetFormat, AfterSetBase, FlowInv, drmVars
  <2> QED BY <2>1 DEF Held, Cur
<1>10. CASE Rewrite \/ EnableBase
  <2>1. UNCHANGED cfb /\ pc \in {"rewrite", "latch"} /\ \E R : Finish(R)
    BY <1>10, BalancedSteps DEF Rewrite, EnableBase, AfterSetBase, AfterEnable, drmVars
  <2> QED BY <2>1, FinishHeld DEF Held
<1>11. CASE EnableControl
  BY <1>11 DEF EnableControl, Held, Cur, drmVars
<1>12. ASSUME NEW d \in Crtcs PROVE ~ Blank(d) /\ ~ Unblank(d)
  BY DEF Blank, Unblank, Balanced, FlowInv
<1>13. Client => Held(c)' = Held(c)
  BY <1>1, <1>2, <1>3, <1>4, <1>12 DEF Client
<1>14. Driver => Held(c)' = Held(c)
  BY <1>5, <1>6, <1>7, <1>8, <1>9, <1>10, <1>11, BalancedSteps DEF Driver
<1> QED
  BY <1>13, <1>14 DEF Next

\* What stays pinned stays where it is.
PlaceStays == \A o \in Objs : Pinners(o) # {} /\ Pinners(o)' # {} => place'[o] = place[o]

\* The console has a pinner, which no CRTC is.
LEMMA ConsoleStays == Console \in Objs /\ CountInv /\ PlaceStays => place'[Console] = Block(0, Size[Console])
<1>1. Console \in Objs => Pinners(Console) # {} /\ Pinners(Console)' # {}
  BY DEF Pinners
<1> QED BY <1>1, NoneTyped DEF CountInv, PlaceStays

LEMMA UnpinCount ==
  ASSUME Balanced, TypeInv, DevInv, FlowInv, CountInv, DisableUnpin
  PROVE  CountInv' /\ PlaceStays
<1>0. PICK n \in Objs : n = cfb[Cur]
  BY BalancedSteps
<1>1. /\ Cur \in Crtcs /\ n = cfb[Cur] /\ call.kind = "off" /\ Unpin(n)
      /\ Finish(call.rest) /\ cfb' = [cfb EXCEPT ![Cur] = None]
  BY <1>0, BalancedSteps, NoneTyped DEF DisableUnpin, Set
<1>2. \A c \in Crtcs : Held(c) = cfb[c] /\ Held(c)' = IF c = Cur THEN None ELSE cfb[c]
  BY <1>1, FinishHeld, HeldOutside DEF TypeInv, TypeOK
<1>3. Pinners(n)' = Pinners(n) \ {Cur} /\ Cur \in Pinners(n)
  BY <1>1, <1>2, NoneTyped DEF Pinners
<1>4. \A o \in Objs : o # n => Pinners(o)' = Pinners(o)
  BY <1>1, <1>2, NoneTyped DEF Pinners
<1>5. pins'[n] = Cardinality(Pinners(n)') /\ (pins'[n] = 0 <=> Pinners(n)' = {})
  <2>1. pins[n] = Cardinality(Pinners(n)) /\ pins'[n] = Dec(pins[n])
    BY <1>1 DEF CountInv, Unpin, TypeInv, TypeOK
  <2>2. Dec(Cardinality(Pinners(n))) = Cardinality(Pinners(n)')
    BY <1>1, <1>3, Counted, PinnersKnown
  <2>3. Cardinality(Pinners(n)') = 0 <=> Pinners(n)' = {}
    BY <1>1, <1>3, Counted, PinnersKnown
  <2> QED BY <2>1, <2>2, <2>3
<1>6. /\ \A o \in Objs : o # n => pins'[o] = pins[o] /\ place'[o] = place[o]
      /\ pins'[n] = Dec(pins[n])
      /\ pins'[n] # 0 => place'[n] = place[n]
  BY <1>1 DEF Unpin, TypeInv, TypeOK
<1>7. PlaceStays
  BY <1>4, <1>5, <1>6 DEF PlaceStays
<1>8. \A o \in Objs : pins'[o] = Cardinality(Pinners(o)') /\ (place'[o] = {} => Pinners(o)' = {})
  <2>1. ASSUME NEW o \in Objs, o # n
        PROVE  pins'[o] = Cardinality(Pinners(o)') /\ (place'[o] = {} => Pinners(o)' = {})
    BY <1>4, <1>6, <2>1 DEF CountInv
  <2>2. place'[n] = {} => Pinners(n)' = {}
    BY <1>3, <1>5, <1>6 DEF CountInv
  <2> QED BY <1>5, <2>1, <2>2
<1> QED BY <1>7, <1>8, ConsoleStays DEF CountInv

LEMMA SetBaseFacts ==
  ASSUME Balanced, TypeInv, DevInv, FlowInv, SetBase
  PROVE  /\ Cur \in Crtcs /\ cfb[Cur] \in Objs /\ call.fb \in Fbs
         /\ pc' = "format" /\ Cur' = Cur /\ call'.kind = call.kind /\ call.kind \in {"mode", "flip"}
         /\ UNCHANGED <<cfb, active, base>>
         /\ \A c \in Crtcs : /\ Held(c) = IF c = Cur THEN call.fb ELSE cfb[c]
                             /\ Held(c)' = cfb[c]
<1>1. PICK b : call' = [call EXCEPT !.base = b]
  BY DEF SetBase
<1>2. /\ call'.kind = call.kind /\ Cur' = Cur /\ call.fb \in Fbs
      /\ pc = "base" /\ pc' = "format" /\ UNCHANGED <<cfb, active, base>>
  BY <1>1 DEF SetBase, Cur, TypeInv, TypeOK, Calls, drmVars
<1>3. Cur \in Crtcs /\ call.kind \in {"mode", "flip"} /\ cfb[Cur] \in Objs
  BY <1>2, BalancedSteps DEF TypeInv, CallInv
<1> QED BY <1>2, <1>3 DEF Held

LEMMA SwapCount ==
  ASSUME Balanced, TypeInv, DevInv, FlowInv, CountInv, SetBase
  PROVE  CountInv' /\ PlaceStays /\ \E o \in Objs : o = cfb[Cur] /\ place'[o] # {}
<1>a. PICK n \in Objs, p \in Fbs : n = cfb[Cur] /\ p = call.fb
  BY SetBaseFacts
<1>0. /\ n \in Objs /\ p \in Fbs /\ Cur \in Crtcs
      /\ \A c \in Crtcs : Held(c) = (IF c = Cur THEN p ELSE cfb[c]) /\ Held(c)' = cfb[c]
      /\ n = cfb[Cur]
  BY <1>a, SetBaseFacts
<1>1. PICK B \in Blocks(n) : pins' = Swapped(n, B).pins /\ place' = Swapped(n, B).place
  BY <1>a DEF SetBase
<1>2. B # {} /\ (place[n] # {} => B = place[n])
  <2>1. PICK s \in Slots : B = Block(s, Size[n])
    BY <1>0, BlocksSound
  <2>2. s \in B
    BY <1>0, <2>1 DEF Block, Slots
  <2> QED BY <2>2 DEF Blocks
<1>3. /\ Pinners(n)' = Pinners(n) \cup {Cur} /\ (p = n => Cur \in Pinners(n))
      /\ p # n => Cur \notin Pinners(n)
  BY <1>0, NoneTyped DEF Pinners
<1>4. \A o \in Objs : o # n => Pinners(o)' = Pinners(o) \ {Cur}
  BY <1>0, NoneTyped DEF Pinners
<1>5. /\ p \in Objs => Cur \in Pinners(p)
      /\ \A o \in Objs : o # n /\ o # p => Pinners(o)' = Pinners(o)
  BY <1>0, NoneTyped DEF Pinners
<1> DEFINE P1 == [pins EXCEPT ![n] = Inc(@)]
           L1 == [place EXCEPT ![n] = B]
           a  == [pins |-> P1, place |-> L1]
<1>6. /\ P1 \in [Objs -> Int] /\ P1[n] = Inc(pins[n]) /\ \A o \in Objs : o # n => P1[o] = pins[o]
      /\ DOMAIN L1 = Objs /\ L1[n] = B /\ \A o \in Objs : o # n => L1[o] = place[o]
      /\ a.pins = P1 /\ a.place = L1
  <2>1. pins[n] \in 0 .. PinMod - 1 /\ Inc(pins[n]) \in 0 .. PinMod - 1
    BY <1>0, CountTyped DEF TypeInv, TypeOK
  <2> QED BY <1>0, <2>1 DEF TypeInv, TypeOK
<1>7. Swapped(n, B) = IF p = None THEN a ELSE Unpinned(a, p)
  BY <1>a DEF Swapped
<1> HIDE DEF P1, L1, a
<1>8. CASE p = None
  <2>1. pins' = P1 /\ place' = L1 /\ p # n
    BY <1>0, <1>1, <1>6, <1>7, <1>8, NoneTyped
  <2>2. pins'[n] = Cardinality(Pinners(n)') /\ Pinners(n)' # {} /\ place'[n] = B
    BY <1>0, <1>3, <1>6, <2>1, Counted, PinnersKnown DEF CountInv
  <2>3. \A o \in Objs : o # n => /\ pins'[o] = pins[o] /\ place'[o] = place[o]
                                /\ Pinners(o)' = Pinners(o)
    BY <1>0, <1>4, <1>5, <1>6, <1>8, <2>1, NoneTyped
  <2>4. Pinners(n) # {} => place[n] # {}
    BY <1>0 DEF CountInv
  <2>5. PlaceStays
    BY <1>2, <2>2, <2>3, <2>4 DEF PlaceStays
  <2>6. \A o \in Objs : pins'[o] = Cardinality(Pinners(o)') /\ (place'[o] = {} => Pinners(o)' = {})
    <3>1. ASSUME NEW o \in Objs, o # n
          PROVE  pins'[o] = Cardinality(Pinners(o)') /\ (place'[o] = {} => Pinners(o)' = {})
      BY <2>3, <3>1 DEF CountInv
    <3> QED BY <1>2, <2>2, <3>1
  <2> QED BY <1>0, <1>2, <2>2, <2>5, <2>6, ConsoleStays DEF CountInv
<1>9. CASE p # None
  <2>0. p \in Objs
    BY <1>0, <1>9 DEF Fbs
  <2>1. /\ pins' = [P1 EXCEPT ![p] = Dec(@)]
        /\ place' = IF Dec(P1[p]) = 0 THEN [L1 EXCEPT ![p] = {}] ELSE L1
    BY <1>1, <1>6, <1>7, <1>9 DEF Unpinned
  <2>2. /\ pins'[p] = Dec(P1[p]) /\ \A o \in Objs : o # p => pins'[o] = P1[o]
        /\ \A o \in Objs : o # p \/ pins'[p] # 0 => place'[o] = L1[o]
    BY <1>6, <2>0, <2>1
  <2>3. CASE p = n
    <3>1. pins'[n] = Cardinality(Pinners(n)') /\ Pinners(n)' = Pinners(n) /\ pins'[n] # 0
      <4>1. pins[n] = Cardinality(Pinners(n)) /\ pins'[n] = Dec(Inc(pins[n]))
        BY <1>0, <1>6, <2>2, <2>3 DEF CountInv
      <4>2. Pinners(n)' = Pinners(n) /\ Cur \in Pinners(n)
        BY <1>3, <2>3
      <4>3. Dec(Inc(Cardinality(Pinners(n)))) = Cardinality(Pinners(n)) /\ Cardinality(Pinners(n)) # 0
        BY <1>0, <4>2, Counted, PinnersKnown
      <4> QED BY <4>1, <4>2, <4>3
    <3>2. \A o \in Objs : o # n => /\ pins'[o] = pins[o] /\ place'[o] = place[o]
                                  /\ Pinners(o)' = Pinners(o)
      BY <1>4, <1>5, <1>6, <2>2, <2>3
    <3>3. place[n] # {} /\ place'[n] = B
      <4>1. Pinners(n) # {}
        BY <1>3, <2>3
      <4> QED BY <1>0, <1>6, <2>2, <3>1, <4>1 DEF CountInv
    <3>4. PlaceStays
      BY <1>2, <3>2, <3>3 DEF PlaceStays
    <3>5. \A o \in Objs : pins'[o] = Cardinality(Pinners(o)') /\ (place'[o] = {} => Pinners(o)' = {})
      <4>1. ASSUME NEW o \in Objs, o # n
            PROVE  pins'[o] = Cardinality(Pinners(o)') /\ (place'[o] = {} => Pinners(o)' = {})
        BY <3>2, <4>1 DEF CountInv
      <4> QED BY <1>2, <3>1, <3>3, <4>1
    <3> QED BY <1>0, <1>2, <3>3, <3>4, <3>5, ConsoleStays DEF CountInv
  <2>4. CASE p # n
    <3>1. pins'[n] = Cardinality(Pinners(n)') /\ place'[n] = B
      <4>1. pins[n] = Cardinality(Pinners(n)) /\ pins'[n] = Inc(pins[n])
        BY <1>0, <1>6, <2>2, <2>4 DEF CountInv
      <4>2. Inc(Cardinality(Pinners(n))) = Cardinality(Pinners(n) \cup {Cur})
        BY <1>0, <1>3, <2>4, Counted, PinnersKnown
      <4> QED BY <1>0, <1>3, <1>6, <2>2, <2>4, <4>1, <4>2
    <3>2. pins'[p] = Cardinality(Pinners(p)') /\ (pins'[p] = 0 <=> Pinners(p)' = {})
      <4>1. pins[p] = Cardinality(Pinners(p)) /\ pins'[p] = Dec(pins[p])
        BY <1>6, <2>0, <2>2, <2>4 DEF CountInv
      <4>2. Pinners(p)' = Pinners(p) \ {Cur} /\ Cur \in Pinners(p)
        BY <1>4, <1>5, <2>0, <2>4
      <4>3. Dec(Cardinality(Pinners(p))) = Cardinality(Pinners(p)')
        BY <1>0, <4>2, Counted, PinnersKnown
      <4>4. Cardinality(Pinners(p)') = 0 <=> Pinners(p)' = {}
        BY <1>0, <4>2, Counted, PinnersKnown
      <4> QED BY <4>1, <4>3, <4>4
    <3>3. pins'[p] # 0 => place'[p] = place[p]
      BY <1>6, <2>0, <2>2, <2>4
    <3>4. \A o \in Objs : o # n /\ o # p => /\ pins'[o] = pins[o] /\ place'[o] = place[o]
                                            /\ Pinners(o)' = Pinners(o)
      BY <1>4, <1>5, <1>6, <2>2
    <3>5. Pinners(n) # {} => place[n] # {}
      BY <1>0 DEF CountInv
    <3>6. PlaceStays
      BY <1>2, <3>1, <3>2, <3>3, <3>4, <3>5 DEF PlaceStays
    <3>7. Pinners(p) # {} /\ place[p] # {}
      BY <1>5, <2>0 DEF CountInv
    <3>8. \A o \in Objs : pins'[o] = Cardinality(Pinners(o)') /\ (place'[o] = {} => Pinners(o)' = {})
      <4>1. ASSUME NEW o \in Objs, o # n, o # p
            PROVE  pins'[o] = Cardinality(Pinners(o)') /\ (place'[o] = {} => Pinners(o)' = {})
        BY <3>4, <4>1 DEF CountInv
      <4>2. place'[p] = {} => Pinners(p)' = {}
        BY <3>2, <3>3, <3>7
      <4> QED BY <1>2, <3>1, <3>2, <4>1, <4>2
    <3> QED BY <1>0, <1>2, <3>1, <3>6, <3>8, ConsoleStays DEF CountInv
  <2> QED BY <2>3, <2>4
<1> QED BY <1>a, <1>8, <1>9

LEMMA CountStep ==
  ASSUME Balanced, TypeInv, DevInv, FlowInv, CountInv, [Next]_vars
  PROVE  CountInv' /\ PlaceStays
<1>1. CASE SetBase
  BY <1>1, SwapCount
<1>2. CASE DisableUnpin
  BY <1>2, UnpinCount
<1>3. CASE ~ SetBase /\ ~ DisableUnpin
  <2>1. \A o : Pinners(o)' = Pinners(o)
    <3>1. \A c \in Crtcs : Held(c)' = Held(c)
      BY <1>3, HeldKept DEF vars, drmVars, Held, Cur
    <3> QED BY <3>1 DEF Pinners
  <2>2. ASSUME NEW o \in Objs, Fault(o)
        PROVE  pins' = pins /\ \A q \in Objs : place[q] # {} => place'[q] = place[q]
    BY <2>2 DEF Fault, Place, TypeInv, TypeOK
  <2>3. pins' = pins /\ \A q \in Objs : place[q] # {} => place'[q] = place[q]
    <3>1. CASE UNCHANGED aperVars
      BY <3>1 DEF aperVars
    <3>2. CASE \E o \in Objs : Fault(o)
      BY <2>2, <3>2
    <3>3. Client => UNCHANGED aperVars \/ \E o \in Objs : Fault(o)
      BY DEF Client, SetMode, Flip, TurnOff, Blank, Unblank, FbDestroy, FbCreate
    <3>4. Driver => UNCHANGED aperVars
      BY <1>3, BalancedSteps DEF Driver, DisableInactive, DisableControl, DisableBase, ModeSet, SetBaseFails,
         SetFormat, Rewrite, EnableControl, EnableBase
    <3> QED BY <3>1, <3>2, <3>3, <3>4 DEF Next, vars
  <2>4. PlaceStays
    BY <2>1, <2>3 DEF PlaceStays, CountInv
  <2> QED BY <2>1, <2>3, <2>4, ConsoleStays DEF CountInv
<1> QED BY <1>1, <1>2, <1>3

\* The visible area begins within the block of its object.
LEMMA BaseInBlock ==
  ASSUME NEW a, NEW o \in Objs, NEW s \in Slots, a.place[o] = Block(s, Size[o]),
         pan[Cur] \in Nat, pan[Cur] < Size[o]
  PROVE  NewBase(a, o).fb = o /\ NewBase(a, o).page \in a.place[o]
<1> DEFINE B == Block(s, Size[o])
           m == CHOOSE q \in B : \A r \in B : q <= r
<1>1. s \in B /\ \A r \in B : s <= r
  BY DEF Block, Slots
<1>2. m \in B /\ \A r \in B : m <= r
  BY <1>1
<1>3. m = s
  BY <1>1, <1>2 DEF Block, Slots
<1>4. NewBase(a, o) = [fb |-> o, page |-> pan[Cur] + m]
  BY <1>1 DEF NewBase
<1> HIDE DEF m
<1>5. pan[Cur] + s \in B
  BY DEF Block, Slots
<1> QED BY <1>3, <1>4, <1>5

\* Nothing takes a framebuffer away that a CRTC has pinned and keeps.
LEMMA RestsKept ==
  ASSUME PlaceStays, NEW c \in Crtcs, NEW b, Rests(c, b), Held(c) \in Objs, Held(c)' = Held(c)
  PROVE  Rests(c, b)'
<1>1. PICK o \in Objs : o = Held(c)
  OBVIOUS
<1>2. c \in Pinners(o) /\ c \in Pinners(o)'
  BY <1>1 DEF Pinners
<1>3. place'[o] = place[o]
  BY <1>2 DEF PlaceStays
<1> QED BY <1>1, <1>3 DEF Rests

LEMMA SetBaseRests ==
  ASSUME Balanced, TypeInv, DevInv, FlowInv, CountInv, RestInv, SetBase
  PROVE  RestInv'
<1>1. PICK n \in Objs : n = cfb[Cur] /\ place'[n] # {}
  BY SwapCount
<1>2. PICK B \in Blocks(n) : LET a == Swapped(n, B)
                            IN  /\ pins' = a.pins /\ place' = a.place
                                /\ call' = [call EXCEPT !.base = NewBase(a, n)]
  BY <1>1 DEF SetBase
<1> DEFINE a == Swapped(n, B)
<1>3. place' = a.place /\ call'.base = NewBase(a, n)
  BY <1>2 DEF TypeInv, TypeOK, Calls
<1>4. Sound(a)
  BY SwappedSound
<1> HIDE DEF a
<1>5. PICK s \in Slots : a.place[n] = Block(s, Size[n])
  BY <1>1, <1>3, <1>4 DEF Sound
<1>6. pan[Cur] \in Nat /\ pan[Cur] < Size[n] /\ Cur \in Crtcs
  BY <1>1, SetBaseFacts DEF FlowInv, TypeInv, TypeOK
<1>7. call'.base.fb = n /\ call'.base.page \in place'[n]
  BY <1>3, <1>5, <1>6, BaseInBlock
<1>8. Rests(Cur, call.base)'
  BY <1>1, <1>6, <1>7, SetBaseFacts DEF Rests
<1>9. ASSUME NEW c \in Crtcs, active'[c], c # Cur PROVE Rests(c, base[c])'
  <2>1. Held(c) \in Objs /\ Held(c)' = Held(c) /\ Rests(c, base[c])
    BY <1>9, HeldObject, SetBaseFacts DEF RestInv
  <2>2. PlaceStays
    BY SwapCount
  <2>3. \A b : b = base[c] => Rests(c, b)'
    BY <2>1, <2>2, RestsKept
  <2> QED BY <2>3, SetBaseFacts DEF Rests
<1> QED BY <1>8, <1>9, SetBaseFacts DEF RestInv

\* Any other step writes a base, turns a CRTC on, or does neither.
LEMMA OtherRests ==
  ASSUME Balanced, TypeInv, DevInv, FlowInv, [Next]_vars, ~ SetBase
  PROVE  \/ SetFormat \/ EnableControl
         \/ UNCHANGED <<active, base, pc, call>>
         \/ /\ \A c \in Crtcs : active'[c] =>
                  active[c] /\ base'[c] = base[c] /\ ~ (c = Cur /\ pc = "format")
                  /\ ~ (c = Cur /\ DisableUnpin)
            /\ pc' \notin {"format", "commit"}
<1> DEFINE Quiet == /\ \A c \in Crtcs : active'[c] =>
                         active[c] /\ base'[c] = base[c] /\ ~ (c = Cur /\ pc = "format")
                         /\ ~ (c = Cur /\ DisableUnpin)
                    /\ pc' \notin {"format", "commit"}
<1>1. ASSUME NEW R, Finish(R) PROVE pc' \notin {"format", "commit"}
  BY <1>1 DEF Finish
<1>2. CASE Client
  <2>1. ASSUME NEW c \in Crtcs, NEW o \in Objs, NEW m, NEW x \in Pans,
               SetMode(c, o, m, x) \/ Flip(c, o, x)
        PROVE  Quiet
    BY <2>1 DEF SetMode, Flip, Begin, DisableUnpin
  <2>2. ASSUME NEW c, TurnOff(c) \/ FbDestroy(c)
        PROVE  Quiet
    BY <2>2, <1>1 DEF TurnOff, FbDestroy, DisableUnpin
  <2>3. ASSUME NEW o \in Objs, FbCreate(o) \/ Fault(o)
        PROVE  UNCHANGED <<active, base, pc, call>>
    BY <2>3 DEF FbCreate, Fault
  <2>4. ASSUME NEW d \in Crtcs PROVE ~ Blank(d) /\ ~ Unblank(d)
    BY DEF Blank, Unblank, Balanced, FlowInv
  <2> QED BY <1>2, <2>1, <2>2, <2>3, <2>4 DEF Client
<1>3. CASE Driver
  <2>1. DisableInactive => Quiet
    BY <1>1, BalancedSteps DEF DisableInactive, DisableUnpin
  <2>2. DisableControl \/ DisableBase \/ ModeSet => Quiet
    BY DEF DisableControl, DisableBase, ModeSet, DisableUnpin
  <2>3. SetBaseFails \/ Rewrite \/ EnableBase => Quiet
    BY <1>1, BalancedSteps DEF SetBaseFails, Rewrite, EnableBase, AfterSetBase, AfterEnable, DisableUnpin
  <2>4. DisableUnpin => Quiet
    BY <1>1, BalancedSteps DEF DisableUnpin, Set, TypeInv, TypeOK
  <2> QED BY <1>3, <2>1, <2>2, <2>3, <2>4, BalancedSteps DEF Driver
<1> QED BY <1>2, <1>3 DEF Next, vars

LEMMA RestStep ==
  ASSUME Balanced, TypeInv, DevInv, FlowInv, CountInv, RestInv, [Next]_vars
  PROVE  RestInv'
<1>0. PlaceStays
  BY CountStep
<1>1. CASE SetBase
  BY <1>1, SetBaseRests
<1>2. ASSUME ~ SetBase, NEW c \in Crtcs, ~ (c = Cur /\ DisableUnpin)
      PROVE  Held(c)' = Held(c)
  <2>1. CASE DisableUnpin
    BY <1>2, <2>1, BalancedSteps, FinishHeld, HeldOutside DEF Set, TypeInv, TypeOK
  <2>2. CASE UNCHANGED vars
    BY <2>2 DEF vars, drmVars, Held, Cur
  <2> QED BY <1>2, <2>1, <2>2, HeldKept
<1>3. ASSUME ~ SetBase, NEW c \in Crtcs, ~ (c = Cur /\ DisableUnpin), NEW b, Rests(c, b),
             active[c] \/ (c = Cur /\ pc \in {"commit", "format"})
      PROVE  Rests(c, b)'
  BY <1>0, <1>2, <1>3, HeldObject, RestsKept
<1>4. CASE SetFormat
  <2>1. /\ pc = "format" /\ pc' # "format" /\ Cur' = Cur /\ Cur \in Crtcs /\ UNCHANGED active
        /\ \A c \in Crtcs : base'[c] = IF c = Cur THEN call.base ELSE base[c]
        /\ ~ SetBase /\ ~ DisableUnpin
    BY <1>4, BalancedSteps DEF SetFormat, SetBase, DisableUnpin, AfterSetBase, FlowInv, Set,
       TypeInv, TypeOK, Cur
  <2>2. Rests(Cur, call.base)
    BY <2>1 DEF RestInv
  <2>3. \A b : b = call.base => Rests(Cur, b)'
    BY <1>3, <2>1, <2>2
  <2>4. \A c \in Crtcs : c # Cur /\ active[c] => Rests(c, base[c])'
    BY <1>3, <2>1 DEF RestInv
  <2> QED BY <2>1, <2>3, <2>4 DEF RestInv
<1>5. CASE EnableControl
  <2>1. /\ pc = "commit" /\ pc' = "latch" /\ Cur' = Cur /\ Cur \in Crtcs /\ UNCHANGED base
        /\ \A c \in Crtcs : c # Cur => active'[c] = active[c]
        /\ ~ SetBase /\ ~ DisableUnpin
    BY <1>5, BalancedSteps DEF EnableControl, SetBase, DisableUnpin, Set, TypeInv, TypeOK, Cur
  <2> QED BY <1>3, <2>1 DEF RestInv
<1>6. CASE ~ SetBase /\ UNCHANGED <<active, base, pc, call>>
  <2>1. ~ DisableUnpin /\ Cur' = Cur /\ (pc \in {"format", "commit"} => Cur \in Crtcs)
    BY <1>6, BalancedSteps DEF DisableUnpin, Finish, Cur
  <2>2. \A c \in Crtcs : \A b :
          Rests(c, b) /\ (active[c] \/ (c = Cur /\ pc \in {"commit", "format"})) => Rests(c, b)'
    BY <1>3, <1>6, <2>1
  <2>3. ASSUME NEW c \in Crtcs, active[c], ~ (c = Cur /\ pc = "format") PROVE Rests(c, base[c])'
    <3>1. PICK b : b = base[c] /\ b = base'[c]
      BY <1>6
    <3>2. Rests(c, b)'
      BY <2>2, <2>3, <3>1 DEF RestInv
    <3> QED BY <3>1, <3>2 DEF Rests
  <2>4. ASSUME pc = "format" PROVE Rests(Cur, call.base)'
    <3>1. PICK c, b : c \in Crtcs /\ c = Cur /\ b = call.base /\ c = Cur' /\ b = call'.base
      BY <1>6, <2>1, <2>4
    <3>2. Rests(c, b)'
      BY <2>2, <2>4, <3>1 DEF RestInv
    <3> QED BY <3>1, <3>2 DEF Rests
  <2>5. ASSUME pc = "commit" PROVE Rests(Cur, base[Cur])'
    <3>1. PICK c, b : c \in Crtcs /\ c = Cur /\ b = base[Cur] /\ c = Cur' /\ b = base'[Cur']
      BY <1>6, <2>1, <2>5
    <3>2. Rests(c, b)'
      BY <2>2, <2>5, <3>1 DEF RestInv
    <3> QED BY <3>1, <3>2 DEF Rests
  <2> QED BY <1>6, <2>1, <2>3, <2>4, <2>5 DEF RestInv
<1>7. CASE /\ ~ SetBase
           /\ \A c \in Crtcs : active'[c] =>
                active[c] /\ base'[c] = base[c] /\ ~ (c = Cur /\ pc = "format")
                /\ ~ (c = Cur /\ DisableUnpin)
           /\ pc' \notin {"format", "commit"}
  <2>1. ASSUME NEW c \in Crtcs, active'[c] PROVE Rests(c, base[c])'
    <3>1. PICK b : b = base[c] /\ b = base'[c]
      BY <1>7, <2>1
    <3>2. Rests(c, b)'
      BY <1>3, <1>7, <2>1, <3>1 DEF RestInv
    <3> QED BY <3>1, <3>2 DEF Rests
  <2> QED BY <1>7, <2>1 DEF RestInv
<1> QED
  BY <1>1, <1>4, <1>5, <1>6, <1>7, OtherRests

\* Clients that take and give back each framebuffer once keep the pins,
\* the calls and the bases as the invariants say.
LEMMA BalancedInvariant ==
  ASSUME Balanced
  PROVE  Spec => [](TypeInv /\ DevInv /\ FlowInv /\ CountInv /\ RestInv)
<1>1. Init => FlowInv /\ CountInv /\ RestInv
  <2> SUFFICES ASSUME Init PROVE FlowInv /\ CountInv /\ RestInv
    OBVIOUS
  <2>1. call.kind = "none" /\ Cur = None /\ \A c \in Crtcs : Held(c) = None
    BY NoneTyped DEF Init, Cur, Held
  <2>2. FlowInv
    BY <2>1, NoneTyped DEF Init, FlowInv
  <2>3. RestInv
    BY <2>1 DEF Init, RestInv
  <2>4. \A o \in Objs : Pinners(o) = IF o = Console THEN {None} ELSE {}
    BY <2>1, NoneTyped DEF Pinners
  <2>5. Cardinality({None}) = 1 /\ Cardinality({}) = 0
    BY FS_Singleton, FS_EmptySet
  <2>6. Console \in Objs => Block(0, Size[Console]) # {}
    BY DEF Block
  <2>7. CountInv
    BY <2>4, <2>5, <2>6, NoneTyped DEF Init, CountInv
  <2> QED BY <2>2, <2>3, <2>7
<1>2. TypeInv /\ DevInv /\ FlowInv /\ CountInv /\ RestInv /\ [Next]_vars => (FlowInv /\ CountInv /\ RestInv)'
  BY FlowStep, CountStep, RestStep
<1> QED BY <1>1, <1>2, DisplayInvariant, PTL DEF Spec

\* What the device scans out is pinned and in its place on every CRTC, also
\* when others that share the framebuffer let it go.
THEOREM ScanoutPinnedHolds ==
  ASSUME Balanced
  PROVE  Spec => []ScanoutPinned
<1>1. TypeInv /\ DevInv /\ FlowInv /\ CountInv /\ RestInv => ScanoutPinned
  <2> SUFFICES ASSUME TypeInv, DevInv, FlowInv, CountInv, RestInv, NEW c \in Crtcs, en[c],
                      scan[c].base # Zero, ~ (Cur = c /\ pc \in {"format", "rewrite"})
               PROVE  /\ pins[scan[c].base.fb] # 0
                      /\ scan[c].base.page \in place[scan[c].base.fb]
    BY DEF ScanoutPinned
  <2>1. active[c] /\ scan[c].base = base[c]
    <3>1. c = Cur => pc # "idle"
      BY NoneTyped DEF TypeInv, CallInv, Cur
    <3>2. c = Cur => Same(c)
      BY <3>1 DEF DevInv, Off, FlowInv, TypeInv, TypeOK
    <3> QED BY <3>2 DEF DevInv, Same
  <2>2. Rests(c, base[c]) /\ Held(c) \in Objs
    BY <2>1, HeldObject DEF RestInv
  <2>3. PICK o \in Objs : o = Held(c)
    BY <2>2
  <2>4. c \in Pinners(o)
    BY <2>3 DEF Pinners
  <2>5. pins[o] # 0
    <3>1. Cardinality(Pinners(o)) # 0
      BY <2>4, Counted, PinnersKnown
    <3> QED BY <3>1 DEF CountInv
  <2>6. scan[c].base.fb = o /\ scan[c].base.page \in place[o]
    BY <2>1, <2>2, <2>3 DEF Rests
  <2> QED BY <2>5, <2>6
<1> QED BY <1>1, BalancedInvariant, PTL

\* However clients come and go on any number of CRTCs, the console stays
\* where fb_probe mapped it.
THEOREM ConsolePlacedHolds ==
  ASSUME Balanced
  PROVE  Spec => []ConsolePlaced
<1>1. CountInv => ConsolePlaced
  <2> SUFFICES ASSUME CountInv, Console \in Objs PROVE pins[Console] # 0
    BY DEF ConsolePlaced, CountInv
  <2>1. None \in Pinners(Console)
    BY DEF Pinners
  <2>2. IsFiniteSet(Pinners(Console))
    BY PinnersKnown, FS_AddElement, FS_Subset DEF Balanced
  <2> QED BY <2>1, <2>2, FS_EmptySet DEF CountInv
<1> QED BY <1>1, BalancedInvariant, PTL
================================================================================
