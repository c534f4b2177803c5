---------------------------- MODULE XenGfxDisplay ----------------------------
(***************************************************************************)
(* The CRTCs of the xengfx driver (xengfx_display.c): mode setting, page   *)
(* flips, panning, DPMS, and the removal of framebuffers.                  *)
(*                                                                         *)
(* mode_config.mutex serialises these calls, so one is in progress at a    *)
(* time, but the device scans out all the while: each register write is a  *)
(* step.  Pins and unpins are those of XenGfxAperture; page faults place   *)
(* other objects between any two steps.                                    *)
(*                                                                         *)
(* The driver is called by the DRM CRTC helper (external): it stores the   *)
(* new framebuffer in crtc->fb before it calls prepare, mode_set and       *)
(* commit, hands over the old one, and puts it back when a call fails.     *)
(* All connectors have the same encoder (xengfx_connector_best_encoder),   *)
(* which drives one CRTC: when a mode was set on one the helper turns the  *)
(* others off, and until then two of them may show the same framebuffer.   *)
(***************************************************************************)
EXTENDS XenGfxAperture, FiniteSets

CONSTANTS
  Crtcs,      \* dev_priv->crtcs
  Size,       \* pages of each object; every object has one framebuffer
  Modes,      \* display modes
  Pans,       \* distances of the visible area from the start, in pages
  Misaligned, \* <<object, pan>> whose stride or base the device refuses
  Console,    \* the object of the fbdev framebuffer, which fb_probe pins
  Clients,    \* what clients do: see ClientCalls
  None        \* no framebuffer, no mode, no CRTC

ClientCalls == {"flip", "remode", "blank", "off"}

\* With several CRTCs the connectors share the encoder, and whose CRTC the
\* helper blanks is its own affair: DPMS is modelled for one.
ASSUME DisplayAssumption ==
  /\ Size \in [Objs -> 1 .. AperPages]
  /\ Pans \subseteq Nat
  /\ Misaligned \subseteq Objs \X Pans
  /\ Console \in Objs \cup {None}
  /\ Clients \subseteq ClientCalls
  /\ "blank" \in Clients => \A c, d \in Crtcs : c = d
  /\ None \notin Objs \cup Modes \cup Crtcs
  /\ AperPages \in Nat /\ PinMod \in Nat \ {0, 1, 2}

VARIABLES
  fbs,        \* objects that have a framebuffer
  cfb,        \* crtc->fb of each CRTC
  mode, pan,  \* crtc->mode and crtc->x, crtc->y
  dpms,       \* connector->dpms
  active,     \* xengfx_crtc.active
  base,       \* xengfx_crtc.base, and the framebuffer it was computed for
  en,         \* CONTROL
  reg,        \* H_ACTIVE/V_ACTIVE and FORMAT/STRIDE
  scan,       \* what the device took over at the last write to BASE
  pc,         \* next step of the call in progress
  call        \* its CRTC, the state to restore, the new base, and the
              \* CRTCs that the helper turns off after it

drmVars  == <<fbs, cfb, mode, pan, dpms>>
hwVars   == <<en, reg, scan>>
vars     == <<aperVars, drmVars, active, base, hwVars, pc, call>>

Zero   == [fb |-> None, page |-> 0]
NoCall == [kind |-> "none", crtc |-> None, fb |-> None, mode |-> None, pan |-> 0,
           base |-> Zero, rest |-> {}]
Params == [mode |-> None, fmt |-> None]

\* The CRTC of the call in progress.
Cur == call.crtc
Set(f, x) == [f EXCEPT ![Cur] = x]

Latched(b) == [mode |-> reg[Cur].mode, fmt |-> reg[Cur].fmt, base |-> b]

Init ==
  /\ pins = [o \in Objs |-> IF o = Console THEN 1 ELSE 0]
  /\ place = [o \in Objs |-> IF o = Console THEN Block(0, Size[o]) ELSE {}]
  /\ fbs = Objs
  /\ cfb = [c \in Crtcs |-> None] /\ mode = [c \in Crtcs |-> None]
  /\ pan = [c \in Crtcs |-> 0] /\ dpms = [c \in Crtcs |-> "on"]
  /\ active = [c \in Crtcs |-> FALSE] /\ base = [c \in Crtcs |-> Zero]
  /\ en = [c \in Crtcs |-> FALSE] /\ reg = [c \in Crtcs |-> Params]
  /\ scan = [c \in Crtcs |-> [mode |-> None, fmt |-> None, base |-> Zero]]
  /\ pc = "idle" /\ call = NoCall

-----------------------------------------------------------------------------
(* The calls of the DRM helper.                                            *)

Begin(k, c, l) ==
  /\ pc = "idle"
  /\ pc' = l
  /\ call' = [kind |-> k, crtc |-> c, fb |-> cfb[c], mode |-> mode[c], pan |-> pan[c],
              base |-> Zero, rest |-> {}]

\* The helper turns off the CRTCs R one by one, and is done.
Finish(R) ==
  \/ R = {} /\ pc' = "idle" /\ call' = NoCall
  \/ \E d \in R : /\ pc' = "prepare"
                  /\ call' = [NoCall EXCEPT !.kind = "off", !.crtc = d, !.rest = R \ {d}]

\* drm_crtc_helper_set_config, when crtc->fb was NULL or the mode changes.
SetMode(c, o, m, x) ==
  /\ o \in fbs /\ x < Size[o]
  /\ cfb[c] = None \/ (m # mode[c] /\ "remode" \in Clients)
  /\ Begin("mode", c, "prepare")
  /\ cfb' = [cfb EXCEPT ![c] = o]
  /\ mode' = [mode EXCEPT ![c] = m] /\ pan' = [pan EXCEPT ![c] = x]
  /\ UNCHANGED <<aperVars, fbs, dpms, active, base, hwVars>>

\* The same, when only the framebuffer or the position in it changes.
Flip(c, o, x) ==
  /\ "flip" \in Clients
  /\ o \in fbs /\ x < Size[o]
  /\ cfb[c] # None /\ (o # cfb[c] \/ x # pan[c])
  /\ Begin("flip", c, "base")
  /\ cfb' = [cfb EXCEPT ![c] = o] /\ pan' = [pan EXCEPT ![c] = x]
  /\ UNCHANGED <<aperVars, fbs, mode, dpms, active, base, hwVars>>

\* The same, without a framebuffer: the helper turns the CRTC off.
TurnOff(c) ==
  /\ "off" \in Clients /\ cfb[c] # None
  /\ pc = "idle" /\ Finish({c})
  /\ UNCHANGED <<aperVars, drmVars, active, base, hwVars>>

\* drm_helper_connector_dpms: nothing happens unless the state changes.
Blank(c) ==
  /\ "blank" \in Clients /\ cfb[c] # None /\ dpms[c] = "on"
  /\ dpms' = [dpms EXCEPT ![c] = "off"]
  /\ Begin("blank", c, "prepare")
  /\ UNCHANGED <<aperVars, fbs, cfb, mode, pan, active, base, hwVars>>

Unblank(c) ==
  /\ cfb[c] # None /\ dpms[c] = "off"
  /\ dpms' = [dpms EXCEPT ![c] = "on"]
  /\ Begin("unblank", c, "commit")
  /\ UNCHANGED <<aperVars, fbs, cfb, mode, pan, active, base, hwVars>>

\* xengfx_fb_destroy: drm_framebuffer_cleanup first turns off the CRTCs that
\* show the framebuffer.
FbDestroy(o) ==
  LET on == {c \in Crtcs : cfb[c] = o}
  IN  /\ o \in fbs /\ o # Console
      /\ "off" \in Clients \/ on = {}
      /\ fbs' = fbs \ {o}
      /\ pc = "idle" /\ Finish(on)
      /\ UNCHANGED <<aperVars, cfb, mode, pan, dpms, active, base, hwVars>>

\* xengfx_fb_create
FbCreate(o) ==
  /\ pc = "idle"
  /\ o \notin fbs
  /\ fbs' = fbs \cup {o}
  /\ UNCHANGED <<aperVars, cfb, mode, pan, dpms, active, base, hwVars, pc, call>>

\* Another thread faults on an object and binds it.
Fault(o) ==
  /\ \E s \in Slots : Place(o, Block(s, Size[o]))
  /\ UNCHANGED <<drmVars, active, base, hwVars, pc, call>>

-----------------------------------------------------------------------------
(* xengfx_crtc_disable                                                     *)

\* What the helper does after it has disabled the CRTC.
AfterDisable ==
  IF call.kind \in {"mode", "restore"}
    THEN pc' = "modeset" /\ UNCHANGED <<call, cfb>>
    ELSE /\ Finish(call.rest)
         /\ cfb' = IF call.kind = "off" THEN Set(cfb, None) ELSE cfb

\* Mutant: xengfx_crtc_disable does not look at crtc->active.
DisableAnyway ==
  /\ pc = "prepare" /\ ~ active[Cur]
  /\ pc' = "post"
  /\ UNCHANGED <<aperVars, drmVars, active, base, hwVars, call>>

DisableInactive ==
  /\ pc = "prepare" /\ ~ active[Cur]
  /\ AfterDisable
  /\ UNCHANGED <<aperVars, fbs, mode, pan, dpms, active, base, hwVars>>

DisableControl ==
  /\ pc = "prepare" /\ active[Cur]
  /\ en' = Set(en, FALSE)
  /\ pc' = "post"
  /\ UNCHANGED <<aperVars, drmVars, active, base, reg, scan, call>>

DisableBase ==
  /\ pc = "post"
  /\ scan' = Set(scan, Latched(Zero))
  /\ pc' = "unpin"
  /\ UNCHANGED <<aperVars, drmVars, active, base, en, reg, call>>

\* The object unpinned is that of crtc->fb, which is the new one when the
\* CRTC is disabled for a mode change.
DisableUnpin ==
  /\ pc = "unpin"
  /\ IF cfb[Cur] # None THEN Unpin(cfb[Cur]) ELSE UNCHANGED aperVars
  /\ active' = Set(active, FALSE)
  /\ AfterDisable
  /\ UNCHANGED <<fbs, mode, pan, dpms, base, hwVars>>

-----------------------------------------------------------------------------
(* xengfx_crtc_mode_set and xengfx_crtc_set_base                           *)

ModeSet ==
  /\ pc = "modeset"
  /\ reg' = [reg EXCEPT ![Cur].mode = mode[Cur]]
  /\ pc' = "base"
  /\ UNCHANGED <<aperVars, drmVars, active, base, en, scan, call>>

\* An unpin of o as a function of the pins and places before it.
Unpinned(a, o) ==
  [pins  |-> [a.pins EXCEPT ![o] = Dec(@)],
   place |-> IF Dec(a.pins[o]) = 0 THEN [a.place EXCEPT ![o] = {}] ELSE a.place]

\* Mutant: set_base unpins obj where it means old_obj.
SwappedSame(o, B) ==
  LET a == [pins |-> [pins EXCEPT ![o] = Inc(@)], place |-> [place EXCEPT ![o] = B]]
  IN  IF call.fb = None THEN a ELSE Unpinned(a, o)

\* Pins and places once o is pinned in block B and the old one unpinned.
Swapped(o, B) ==
  LET a == [pins |-> [pins EXCEPT ![o] = Inc(@)], place |-> [place EXCEPT ![o] = B]]
  IN  IF call.fb = None THEN a ELSE Unpinned(a, call.fb)

\* Where a pin of o can put it.
Blocks(o) ==
  IF place[o] # {} THEN {place[o]}
  ELSE {Block(s, Size[o]) : s \in {r \in Slots : Block(r, Size[o]) \subseteq Slots \ Taken}}

\* obj->offset + x, read after the old framebuffer was unpinned; offset is
\* 0 in an object that is not bound.
NewBase(a, o) ==
  [fb |-> o,
   page |-> pan[Cur] + IF a.place[o] = {} THEN 0
                       ELSE CHOOSE s \in a.place[o] : \A r \in a.place[o] : s <= r]

\* The helper takes back what it stored; after a failed mode change it
\* sets the old mode again.  A failed flip keeps the new position.
Failed ==
  /\ cfb' = Set(cfb, call.fb)
  /\ IF call.kind = "flip"
       THEN Finish({}) /\ UNCHANGED <<mode, pan>>
       ELSE /\ mode' = Set(mode, call.mode) /\ pan' = Set(pan, call.pan)
            /\ IF call.kind = "restore" \/ call.fb = None
                 THEN Finish({})
                 ELSE pc' = "prepare" /\ call' = [call EXCEPT !.kind = "restore"]

\* set_base returns an error before it pins or because it cannot: for bits
\* per pixel that it does not know, without an object, without space.
SetBaseFails ==
  /\ pc = "base"
  /\ Failed
  /\ UNCHANGED <<aperVars, fbs, dpms, active, base, hwVars>>

SetBaseMisaligned ==
  LET o == cfb[Cur]
  IN  /\ pc = "base" /\ <<o, pan[Cur]>> \in Misaligned
      /\ \E B \in Blocks(o) :
           LET a == Unpinned(Swapped(o, B), o)
           IN  pins' = a.pins /\ place' = a.place
      /\ Failed
      /\ UNCHANGED <<fbs, dpms, active, base, hwVars>>

SetBase ==
  LET o == cfb[Cur]
  IN  /\ pc = "base" /\ <<o, pan[Cur]>> \notin Misaligned
      /\ \E B \in Blocks(o) :
           LET a == Swapped(o, B)
           IN  /\ pins' = a.pins /\ place' = a.place
               /\ call' = [call EXCEPT !.base = NewBase(a, o)]
      /\ pc' = "format"
      /\ UNCHANGED <<drmVars, active, base, hwVars>>

AfterSetBase ==
  IF call.kind = "flip" THEN Finish({}) ELSE pc' = "commit" /\ UNCHANGED call

\* Mutant: the base of an active CRTC is not rewritten.
SetFormatOnly ==
  /\ pc = "format"
  /\ reg' = [reg EXCEPT ![Cur].fmt = cfb[Cur]]
  /\ base' = Set(base, call.base)
  /\ AfterSetBase
  /\ UNCHANGED <<aperVars, drmVars, active, en, scan>>

\* Mutant: FORMAT and STRIDE are only written while the CRTC is off.
SetFormatOff ==
  /\ pc = "format"
  /\ reg' = IF active[Cur] THEN reg ELSE [reg EXCEPT ![Cur].fmt = cfb[Cur]]
  /\ base' = Set(base, call.base)
  /\ IF active[Cur] THEN pc' = "rewrite" /\ UNCHANGED call ELSE AfterSetBase
  /\ UNCHANGED <<aperVars, drmVars, active, en, scan>>

\* FORMAT and STRIDE, then crtc->base.
SetFormat ==
  /\ pc = "format"
  /\ reg' = [reg EXCEPT ![Cur].fmt = cfb[Cur]]
  /\ base' = Set(base, call.base)
  /\ IF active[Cur] THEN pc' = "rewrite" /\ UNCHANGED call ELSE AfterSetBase
  /\ UNCHANGED <<aperVars, drmVars, active, en, scan>>

Rewrite ==
  /\ pc = "rewrite"
  /\ scan' = Set(scan, Latched(base[Cur]))
  /\ AfterSetBase
  /\ UNCHANGED <<aperVars, drmVars, active, base, en, reg>>

-----------------------------------------------------------------------------
(* xengfx_crtc_enable                                                      *)

\* After a mode was set the helper has the connector on, and the encoder
\* serves no other CRTC any more: drm_helper_disable_unused_functions.
AfterEnable ==
  LET others == {d \in Crtcs \ {Cur} : cfb[d] # None}
  IN  /\ Finish(IF call.kind = "mode" THEN others ELSE {})
      /\ dpms' = IF call.kind = "mode" THEN Set(dpms, "on") ELSE dpms

EnableActive ==
  /\ pc = "commit" /\ active[Cur]
  /\ AfterEnable
  /\ UNCHANGED <<aperVars, fbs, cfb, mode, pan, active, base, hwVars>>

EnableControl ==
  /\ pc = "commit" /\ ~ active[Cur]
  /\ active' = Set(active, TRUE)
  /\ en' = Set(en, TRUE)
  /\ pc' = "latch"
  /\ UNCHANGED <<aperVars, drmVars, base, reg, scan, call>>

EnableBase ==
  /\ pc = "latch"
  /\ scan' = Set(scan, Latched(base[Cur]))
  /\ AfterEnable
  /\ UNCHANGED <<aperVars, fbs, cfb, mode, pan, active, base, en, reg>>

-----------------------------------------------------------------------------

Client ==
  \/ \E c \in Crtcs : \/ \E o \in Objs, x \in Pans : Flip(c, o, x) \/ \E m \in Modes : SetMode(c, o, m, x)
                      \/ TurnOff(c) \/ Blank(c) \/ Unblank(c)
  \/ \E o \in Objs : FbDestroy(o) \/ FbCreate(o) \/ Fault(o)

Driver ==
  \/ DisableInactive \/ DisableControl \/ DisableBase \/ DisableUnpin
  \/ ModeSet \/ SetBaseFails \/ SetBaseMisaligned \/ SetBase
  \/ SetFormat \/ Rewrite
  \/ EnableActive \/ EnableControl \/ EnableBase

Next == Client \/ Driver
Spec == Init /\ [][Next]_vars

-----------------------------------------------------------------------------
(* Properties.                                                             *)

Fbs   == Objs \cup {None}
Bases == [fb : Fbs, page : Nat]
Regs  == [mode : Modes \cup {None}, fmt : Fbs]
Scans == [mode : Modes \cup {None}, fmt : Fbs, base : Bases]
Calls == [kind : {"none", "mode", "restore", "flip", "off", "blank", "unblank"},
          crtc : Crtcs \cup {None}, fb : Fbs, mode : Modes \cup {None}, pan : Nat,
          base : Bases, rest : SUBSET Crtcs]

\* Every variable has its type.
TypeOK ==
  /\ pins \in [Objs -> 0 .. PinMod - 1] /\ place \in [Objs -> SUBSET Slots]
  /\ fbs \subseteq Objs /\ cfb \in [Crtcs -> Fbs]
  /\ mode \in [Crtcs -> Modes \cup {None}] /\ pan \in [Crtcs -> Nat]
  /\ dpms \in [Crtcs -> {"on", "off"}]
  /\ active \in [Crtcs -> BOOLEAN] /\ base \in [Crtcs -> Bases]
  /\ en \in [Crtcs -> BOOLEAN] /\ reg \in [Crtcs -> Regs] /\ scan \in [Crtcs -> Scans]
  /\ pc \in {"idle", "prepare", "post", "unpin", "modeset", "base", "format",
             "rewrite", "commit", "latch"}
  /\ call \in Calls

\* Whatever sequence of calls succeeds, fails or fails to restore what was
\* there before, a CRTC that no call is changing is on exactly when the
\* driver thinks so; when on it uses the base the driver computed last and
\* the mode and framebuffer that DRM believes are shown, and when off base 0.
DeviceMatchesDriver ==
  \A c \in Crtcs : Cur # c =>
    /\ en[c] = active[c]
    /\ scan[c].base = IF active[c] THEN base[c] ELSE Zero
    /\ active[c] => scan[c].mode = mode[c] /\ scan[c].fmt = cfb[c]

\* The device never applies the format of one framebuffer to the base of
\* another: the write to BASE takes over all parameters at once, and
\* set_base writes FORMAT and STRIDE before it.
ScanCoherent == \A c \in Crtcs : scan[c].base # Zero => scan[c].fmt = scan[c].base.fb

\* What the device scans out on any CRTC is pinned and in its place, also
\* when a mode set on another CRTC put the same framebuffer there and the
\* helper then turns off the first, or a flip fails.  Nothing is said of the
\* CRTC of a call between the unpin of the old framebuffer in set_base and
\* the write to BASE, where it is false.  It holds for clients that flip,
\* pan, turn off and remove framebuffers, not for those that blank or change
\* the mode of an active CRTC.
ScanoutPinned ==
  \A c \in Crtcs :
    en[c] /\ scan[c].base # Zero /\ ~ (Cur = c /\ pc \in {"format", "rewrite"}) =>
      /\ pins[scan[c].base.fb] # 0
      /\ scan[c].base.page \in place[scan[c].base.fb]

\* The pages of the console stay where fb_probe mapped them (screen_base)
\* whichever CRTCs clients put it on and take it off, as long as they only
\* flip, pan, turn off and remove framebuffers; blanking and mode changes on
\* an active CRTC lose pins.
ConsolePlaced ==
  Console # None => pins[Console] # 0 /\ place[Console] = Block(0, Size[Console])

\* What struct xengfx_gem_object says of pin_count: it tells whether the
\* object is pinned into the aperture, hence that it is there.
PinCountMeansPinned == \A o \in Objs : pins[o] # 0 => place[o] # {}
=============================================================================
