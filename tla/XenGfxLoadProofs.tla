--------------------------- MODULE XenGfxLoadProofs ---------------------------
(***************************************************************************)
(* Proofs about XenGfxLoad, for any number of CRTCs that show the console  *)
(* and any sizes of the GART, the consoles, modes, limits and pictures.    *)
(***************************************************************************)
EXTENDS XenGfxLoad, XenGfxSizesProofs, TLAPS

-----------------------------------------------------------------------------
(* What is held at which label.                                            *)

\* From the console object to the end of load; from the console to
\* its release; from the installation of the handler to its removal.
Probing    == {"object", "pin", "info", "fb", "apertures", "register", "unbind", "unref", "poll"}
Cleaning   == {"fbinfo", "fbcleanup", "fbobj", "oops"}
Installed  == Probing \cup {"postinstall", "fbdev", "loaded", "err_fbdev", "err_freeirq", "freeirq"}
WithFbdev  == Probing \cup Cleaning \cup {"loaded", "freeirq"}
WithCrtcs  == Installed \cup Cleaning \cup {"irq", "err_irqinstall", "cleanup"}
WithMm     == WithCrtcs \cup {"modeset", "err_takedown", "takedown"}
WithMmio   == WithMm \cup {"magic", "vblank", "mm", "err_magic", "unmap"}
WithPriv   == WithMmio \cup {"mmio", "err_mmio", "free"}
Labels     == WithPriv \cup {"priv", "failed", "gone"}

\* From the initialisation of the output poll on; where the probe has pinned
\* the console, where it may be shown, and where it has been released.
Released   == {"cleanup", "takedown", "unmap", "free", "gone"}
WithPoll   == Cleaning \cup Released \cup {"loaded", "freeirq"}
Pinned     == {"info", "fb", "apertures", "register", "unbind"}
Showing    == {"poll", "loaded", "freeirq", "fbinfo", "fbcleanup"}
Before     == Labels \ (Pinned \cup Showing \cup Released \cup {"pin", "unref", "fbobj", "oops"})

\* The label tells what load has acquired and not released.
HeldInv ==
  /\ pc \in Labels
  /\ has \subseteq Resources
  /\ "priv"    \in has <=> pc \in WithPriv
  /\ "mmio"    \in has <=> pc \in WithMmio
  /\ "mm"      \in has <=> pc \in WithMm
  /\ "modeset" \in has <=> pc \in WithCrtcs
  /\ "crtcs"   \in has  => pc \in WithCrtcs
  /\ "irq"     \in has <=> pc \in Installed
  /\ "fbdev"   \in has <=> pc \in WithFbdev
  /\ "poll"    \in has <=> pc \in WithPoll
  /\ "file"    \in has  => pc = "loaded"

\* A handler runs only while it is installed, and the device may interrupt
\* only until its removal begins.
IrqInv ==
  /\ handler \in HandlerPcs
  /\ handler # "out" => pc \in Installed
  /\ intEn => pc \in Installed \ {"err_freeirq", "freeirq"}

\* The console exists from its probe on and, if that failed, not after it.
ConsoleInv ==
  /\ fbObj \in BOOLEAN
  /\ pc \in Before => console = "none" /\ info = "none" /\ ~ fbObj
  /\ pc \in {"pin", "info", "fb"} => ~ fbObj
  /\ pc \in {"apertures", "register"} => fbObj
  /\ pc \in Pinned \cup {"pin"} => console = "live"
  /\ pc \in Showing \cup {"fbobj"} /\ console = "live" => fbObj
  /\ pc \in Released \cup {"fbcleanup", "fbobj", "oops"} => info # "set"
  /\ pc \in Released => console # "live" /\ ~ fbObj

\* The console is pinned by its probe.  If pins were not lost by the time
\* when unload begins, it is then pinned for each active CRTC that shows it.
PinsInv ==
  /\ pins \in 0 .. PinMod - 1 /\ lit \in Nat /\ dark \in Nat /\ lit + dark <= MaxShown
  /\ pc \notin Showing => lit = 0 /\ dark = 0
  /\ pc \in Before \cup {"pin", "unref"} => pins = 0
  /\ pc \in Pinned => pins = 1
  /\ pc \in Showing \cup {"fbobj"} /\ console # "live" => pins = 0 /\ lit = 0 /\ dark = 0
  /\ pc \in {"freeirq", "fbinfo", "fbcleanup", "fbobj"} /\ console = "live" /\ even =>
       pins = 1 + lit
  /\ pc \in Released /\ even => pins = 0

LoadInv == HeldInv /\ IrqInv /\ ConsoleInv /\ PinsInv

LEMMA InitLoad == Init => LoadInv
<1> USE LoadAssumption DEF Probing, Cleaning, Installed, WithFbdev, WithCrtcs, WithMm, WithMmio, WithPriv,
        Labels, Released, WithPoll, Pinned, Showing, Before
<1>1. Init => HeldInv
  BY DEF Init, HeldInv, Resources
<1>2. Init => fbObj \in BOOLEAN
  BY Zenon DEF Init
<1>3. Init => ConsoleInv /\ PinsInv
  BY <1>2 DEF Init, ConsoleInv, PinsInv
<1>4. Init => IrqInv
  BY DEF Init, IrqInv, HandlerPcs
<1> QED
  BY <1>1, <1>3, <1>4 DEF LoadInv

\* The pins of the probe and of all CRTCs do not wrap.
LEMMA FitsCount ==
  ASSUME NEW n \in 0 .. MaxShown
  PROVE  1 + n \in 0 .. PinMod - 1 /\ n \in Nat /\ n + 0 <= MaxShown
<1>1. MaxShown \in Nat /\ PinMod \in Nat /\ PinMod > MaxShown + 1
  BY LoadAssumption
<1> QED
  BY <1>1

LEMMA LoadStep == LoadInv /\ Load => LoadInv'
<1> SUFFICES ASSUME LoadInv, Load PROVE LoadInv'
  OBVIOUS
<1> USE LoadAssumption DEF LoadInv, HeldInv, IrqInv, ConsoleInv, PinsInv, Resources, HandlerPcs,
        Probing, Cleaning, Installed, WithFbdev, WithCrtcs, WithMm, WithMmio, WithPriv, Labels,
        Released, WithPoll, Pinned, Showing, Before
<1>1. CASE AllocPriv
  BY <1>1 DEF AllocPriv, Take, conVars, showVars
<1>2. CASE MapMmio
  BY <1>2 DEF MapMmio, Take, conVars, showVars
<1>3. CASE CheckMagic
  BY <1>3 DEF CheckMagic, conVars, showVars
<1>4. CASE InitVblank
  BY <1>4 DEF InitVblank, UndoVblank, Take, conVars, showVars
<1>5. CASE InitMm
  BY <1>5 DEF InitMm, conVars, showVars
<1>6. CASE ModesetInit
  BY <1>6 DEF ModesetInit, conVars, showVars
<1>7. CASE InstallIrq
  BY <1>7 DEF InstallIrq, Take, conVars, showVars
<1>8. CASE PostInstall
  BY <1>8 DEF PostInstall, conVars, showVars
<1>9. CASE InitFbdev
  BY <1>9 DEF InitFbdev, UndoFbdev, Take, conVars, showVars
<1>10. CASE ProbeObject
  BY <1>10 DEF ProbeObject, showVars
<1>11. CASE ProbePin
  BY <1>11 DEF ProbePin
<1>12. CASE ProbeInfo
  BY <1>12 DEF ProbeInfo, showVars
<1>13. CASE ProbeFb
  BY <1>13 DEF ProbeFb, showVars
<1>14. CASE ProbeMap
  BY <1>14 DEF ProbeMap, conVars, showVars
<1>15. CASE ProbeUnbind
  BY <1>15 DEF ProbeUnbind
<1>16. CASE ProbeUnref
  BY <1>16 DEF ProbeUnref, showVars
<1>17. CASE Register
  <2>1. /\ pc = "register" /\ pc' = "poll" /\ console' = console /\ dark' = dark
        /\ UNCHANGED <<has, fbObj, info, handler, intEn>>
    BY <1>17 DEF Register
  <2>2. lit' \in 0 .. MaxShown /\ pins' = pins + lit'
    BY <1>17 DEF Register
  <2>3. console = "live" /\ pins = 1 /\ dark = 0
    BY <2>1
  <2>4. pins' \in 0 .. PinMod - 1 /\ lit' \in Nat /\ dark' \in Nat /\ lit' + dark' <= MaxShown
    BY <2>1, <2>2, <2>3, FitsCount
  <2>5. HeldInv' /\ IrqInv'
    BY <2>1
  <2>6. ConsoleInv'
    BY <2>1
  <2>7. PinsInv'
    BY <2>1, <2>3, <2>4
  <2> QED
    BY <2>5, <2>6, <2>7
<1>18. CASE PollInit
  BY <1>18 DEF PollInit, conVars, showVars
<1> QED
  BY <1>1, <1>2, <1>3, <1>4, <1>5, <1>6, <1>7, <1>8, <1>9,
     <1>10, <1>11, <1>12, <1>13, <1>14, <1>15, <1>16, <1>17, <1>18 DEF Load

LEMMA UndoStep == LoadInv /\ UndoLoad => LoadInv'
<1> SUFFICES ASSUME LoadInv, UndoLoad PROVE LoadInv'
  OBVIOUS
<1> USE LoadAssumption DEF LoadInv, HeldInv, IrqInv, ConsoleInv, PinsInv, Resources, HandlerPcs,
        Probing, Cleaning, Installed, WithFbdev, WithCrtcs, WithMm, WithMmio, WithPriv, Labels,
        Released, WithPoll, Pinned, Showing, Before
<1>1. CASE IrqOff("err_fbdev", "err_freeirq")
  BY <1>1 DEF IrqOff, conVars, showVars
<1>2. CASE FreeIrq("err_freeirq", "err_irqinstall")
  <2>1. /\ pc = "err_freeirq" /\ pc' = "err_irqinstall" /\ has' = has \ {"irq"} /\ handler = "out"
        /\ UNCHANGED <<handler, intEn, conVars>>
    BY <1>2 DEF FreeIrq, Drop
  <2>2. HeldInv'
    BY <2>1
  <2>3. IrqInv' /\ ConsoleInv' /\ PinsInv'
    BY <2>1 DEF conVars, showVars
  <2> QED
    BY <2>2, <2>3
<1>3. CASE Drop("err_irqinstall", {"modeset", "crtcs"}, "err_takedown")
  BY <1>3 DEF Drop, conVars, showVars
<1>4. CASE Drop("err_takedown", {"mm"}, "err_magic")
  BY <1>4 DEF Drop, conVars, showVars
<1>5. CASE Drop("err_magic", {"mmio"}, "err_mmio")
  BY <1>5 DEF Drop, conVars, showVars
<1>6. CASE Drop("err_mmio", {"priv"}, "failed")
  BY <1>6 DEF Drop, conVars, showVars
<1> QED
  BY <1>1, <1>2, <1>3, <1>4, <1>5, <1>6 DEF UndoLoad

LEMMA ClientStep == LoadInv /\ Client => LoadInv'
<1> SUFFICES ASSUME LoadInv, Client PROVE LoadInv'
  OBVIOUS
<1> USE LoadAssumption DEF LoadInv, HeldInv, IrqInv, ConsoleInv, PinsInv, Resources, HandlerPcs,
        Probing, Cleaning, Installed, WithFbdev, WithCrtcs, WithMm, WithMmio, WithPriv, Labels,
        Released, WithPoll, Pinned, Showing, Before
<1>1. CASE Open
  BY <1>1 DEF Open, Take, conVars, showVars
<1>2. CASE Close
  BY <1>2 DEF Close, conVars, showVars
<1>3. ASSUME NEW p \in Pictures, CreateIoctl(p) PROVE LoadInv'
  BY <1>3 DEF CreateIoctl, conVars, showVars
<1>4. ASSUME NEW d \in Monitors, NEW max \in Panels, GetConnector(d, max) PROVE LoadInv'
  BY <1>4 DEF GetConnector, conVars, showVars
<1> QED
  BY <1>1, <1>2, <1>3, <1>4 DEF Client

LEMMA ShowStep == LoadInv /\ ShowConsole => LoadInv'
<1> SUFFICES ASSUME LoadInv, ShowConsole PROVE LoadInv'
  OBVIOUS
<1>1. /\ pc = "loaded" /\ console = "live"
      /\ UNCHANGED <<pc, has, console, even, fbObj, info, handler, intEn>>
  BY DEF ShowConsole, Away, Off, Back, Remode, Blank, Unblank, Shown
<1>2. /\ lit' \in Nat /\ dark' \in Nat /\ lit' + dark' <= MaxShown
      /\ pins' \in 0 .. PinMod - 1
  BY LoadAssumption DEF LoadInv, PinsInv, ShowConsole, Away, Off, Back, Remode, Blank, Unblank, Shown, More, Less
<1>3. HeldInv' /\ IrqInv' /\ ConsoleInv'
  BY <1>1 DEF LoadInv, HeldInv, IrqInv, ConsoleInv
<1>4. PinsInv'
  BY <1>1, <1>2 DEF PinsInv, Showing, Before, Pinned, Released
<1> QED
  BY <1>3, <1>4 DEF LoadInv

LEMMA RemoveStep == LoadInv /\ Remove => LoadInv'
<1> SUFFICES ASSUME LoadInv, Remove PROVE LoadInv'
  OBVIOUS
<1> USE LoadAssumption DEF LoadInv, HeldInv, IrqInv, ConsoleInv, PinsInv, Resources, HandlerPcs,
        Probing, Cleaning, Installed, WithFbdev, WithCrtcs, WithMm, WithMmio, WithPriv, Labels,
        Released, WithPoll, Pinned, Showing, Before
<1>1. CASE Unload
  BY <1>1 DEF Unload, showVars
<1>2. CASE UnloadIrq
  <2>1. /\ pc = "freeirq" /\ pc' = "fbinfo" /\ has' = has \ {"irq"} /\ handler = "out"
        /\ UNCHANGED <<handler, intEn, conVars>>
    BY <1>2 DEF UnloadIrq, AfterIrq, FreeIrq, Drop
  <2>2. HeldInv'
    BY <2>1
  <2>3. IrqInv' /\ ConsoleInv' /\ PinsInv'
    BY <2>1 DEF conVars, showVars
  <2> QED
    BY <2>2, <2>3
<1>3. CASE CleanupInfo
  BY <1>3 DEF CleanupInfo, showVars
<1>4. CASE CleanupFb
  BY <1>4 DEF CleanupFb, Less
<1>5. CASE CleanupObj
  <2>1. fbObj' = FALSE /\ console' # "live"
    BY <1>5 DEF CleanupObj
  <2>2. pins' \in 0 .. PinMod - 1 /\ (even => pins' = 0)
    BY <1>5 DEF CleanupObj, UnpinPinned
  <2>3. HeldInv' /\ IrqInv'
    BY <1>5 DEF CleanupObj
  <2>4. ConsoleInv' /\ PinsInv'
    BY <1>5, <2>1, <2>2 DEF CleanupObj
  <2> QED
    BY <2>3, <2>4
<1>6. CASE FinishUnload
  <2>1. CASE Drop("cleanup", {"modeset", "crtcs"}, "takedown")
    BY <2>1 DEF Drop, conVars, showVars
  <2>2. CASE Drop("takedown", {"mm"}, "unmap")
    BY <2>2 DEF Drop, conVars, showVars
  <2>3. CASE Drop("unmap", {"mmio"}, "free")
    BY <2>3 DEF Drop, conVars, showVars
  <2>4. CASE Drop("free", {"priv"}, "gone")
    BY <2>4 DEF Drop, conVars, showVars
  <2> QED
    BY <1>6, <2>1, <2>2, <2>3, <2>4 DEF FinishUnload
<1> QED
  BY <1>1, <1>2, <1>3, <1>4, <1>5, <1>6 DEF Remove

LEMMA HandlerStep == LoadInv /\ Handler => LoadInv'
<1> SUFFICES ASSUME LoadInv, Handler PROVE LoadInv'
  OBVIOUS
<1>1. UNCHANGED <<pc, has, conVars, intEn>>
  BY DEF Handler, HandlerEnters, HandlerReads, HandlerVisits, HandlerLeaves
<1>2. handler' \in HandlerPcs /\ (handler = "out" => pc \in Installed)
  BY DEF Handler, HandlerEnters, HandlerReads, HandlerVisits, HandlerLeaves, HandlerPcs,
         LoadInv, HeldInv
<1> QED
  BY <1>1, <1>2 DEF LoadInv, HeldInv, IrqInv, ConsoleInv, PinsInv, conVars, showVars

THEOREM LoadInvariant == Spec => []LoadInv
<1>1. LoadInv /\ [Next]_vars => LoadInv'
  <2>1. LoadInv /\ UNCHANGED vars => LoadInv'
    BY DEF vars, conVars, showVars, LoadInv, HeldInv, IrqInv, ConsoleInv, PinsInv
  <2> QED
    BY <2>1, LoadStep, UndoStep, ClientStep, ShowStep, RemoveStep, HandlerStep DEF Next
<1> QED
  BY <1>1, InitLoad, PTL DEF Spec

\* What the other invariants do not say of the console and the interrupt.
RangesInv ==
  /\ console \in {"none", "live", "freed", "corrupt"} /\ even \in BOOLEAN
  /\ info \in {"none", "alloc", "set"} /\ intEn \in BOOLEAN

LEMMA RangesStep == RangesInv /\ [Next]_vars => RangesInv'
<1> SUFFICES ASSUME RangesInv, [Next]_vars PROVE RangesInv'
  OBVIOUS
<1> USE DEF RangesInv
<1>1. CASE UNCHANGED <<console, even, info, intEn>>
  BY <1>1
<1>2. CASE Load
  <2>1. UNCHANGED even /\ (UNCHANGED intEn \/ intEn' = TRUE)
    BY <1>2 DEF Load, AllocPriv, MapMmio, CheckMagic, InitVblank, InitMm, ModesetInit, InstallIrq, PostInstall,
       InitFbdev, Take, ProbeObject, ProbePin, ProbeInfo, ProbeFb, ProbeMap, ProbeUnbind, ProbeUnref, Register,
       PollInit, conVars
  <2>2. console' \in {"none", "live", "freed", "corrupt"} /\ info' \in {"none", "alloc", "set"}
    BY <1>2 DEF Load, AllocPriv, MapMmio, CheckMagic, InitVblank, InitMm, ModesetInit, InstallIrq, PostInstall,
       InitFbdev, Take, ProbeObject, ProbePin, ProbeInfo, ProbeFb, ProbeMap, ProbeUnbind, ProbeUnref, Register,
       PollInit, conVars
  <2> QED
    BY <2>1, <2>2, Zenon
<1>3. CASE UndoLoad \/ UnloadIrq \/ FinishUnload
  <2>1. UNCHANGED conVars /\ (UNCHANGED intEn \/ intEn' = FALSE)
    BY <1>3 DEF UndoLoad, UnloadIrq, FinishUnload, IrqOff, FreeIrq, Drop
  <2> QED
    BY <2>1, Zenon DEF conVars
<1>4. CASE Unload
  <2>1. UNCHANGED <<console, info>> /\ intEn' = FALSE
    BY <1>4 DEF Unload
  <2>2. even' \in BOOLEAN
    BY <1>4, Zenon DEF Unload
  <2> QED
    BY <2>1, <2>2, Zenon
<1>5. CASE CleanupInfo \/ CleanupFb \/ CleanupObj
  BY <1>5 DEF CleanupInfo, CleanupFb, CleanupObj
<1>6. CASE Client \/ ShowConsole \/ Handler
  BY <1>1, <1>6 DEF Client, Open, Take, Close, CreateIoctl, GetConnector, conVars,
     ShowConsole, Away, Off, Back, Remode, Blank, Unblank, Shown,
     Handler, HandlerEnters, HandlerReads, HandlerVisits, HandlerLeaves
<1> QED
  BY <1>1, <1>2, <1>3, <1>4, <1>5, <1>6 DEF Next, Remove, vars, conVars

THEOREM RangesInvariant == Spec => []RangesInv
<1>1. Init => RangesInv
  <2>1. Init => intEn \in BOOLEAN /\ even \in BOOLEAN
    BY Zenon DEF Init
  <2> QED
    BY <2>1 DEF Init, RangesInv
<1> QED
  BY <1>1, RangesStep, PTL DEF Spec

\* Wherever load fails and whenever unload starts, a running handler finds
\* the registers mapped and the CRTCs alive.
THEOREM HandlerSafeHolds == Spec => []HandlerSafe
<1>1. LoadInv => HandlerSafe
  BY DEF LoadInv, HeldInv, IrqInv, HandlerSafe, WithPriv, WithMmio, WithMm, WithCrtcs
<1> QED
  BY <1>1, LoadInvariant, PTL

\* Whatever fails, load and unload leave behind what LeftBehind names and
\* nothing else: no console object that is alive, no fb_info that the helper
\* knows, no handler.
THEOREM LeftBehindHolds == Spec => []LeftBehind
<1>1. LoadInv /\ RangesInv => LeftBehind
  <2> SUFFICES ASSUME LoadInv, RangesInv PROVE LeftBehind
    OBVIOUS
  <2> USE DEF LoadInv, Probing, Cleaning, Installed, WithFbdev, WithCrtcs, WithMm, WithMmio, WithPriv,
          Labels, Released, WithPoll, Pinned, Showing, Before
  <2>1. pc = "failed" => has \subseteq {"vblank", "table"} /\ console = "none" /\ info = "none"
    BY DEF HeldInv, ConsoleInv, Resources
  <2>2. pc = "gone" => has \subseteq {"vblank", "table", "poll"}
    BY DEF HeldInv, Resources
  <2>3. pc = "gone" => console # "live" /\ ~ fbObj /\ info \in {"none", "alloc"}
    BY DEF ConsoleInv, RangesInv
  <2>4. pc \in {"failed", "gone"} => handler = "out" /\ ~ intEn
    BY DEF IrqInv
  <2> QED
    BY <2>1, <2>2, <2>3, <2>4 DEF LeftBehind
<1> QED
  BY <1>1, LoadInvariant, RangesInvariant, PTL

\* The console leaves the aperture before the GART and its allocator go,
\* unless pins had been lost when unload began.
THEOREM ConsoleLeavesFirstHolds == Spec => []ConsoleLeavesFirst
<1>1. LoadInv => ConsoleLeavesFirst
  BY DEF LoadInv, HeldInv, PinsInv, ConsoleLeavesFirst, Probing, Cleaning, Installed,
         WithCrtcs, WithMm, WithMmio, WithPriv, Labels, Released, Pinned, Showing, Before
<1> QED
  BY <1>1, LoadInvariant, PTL

-----------------------------------------------------------------------------
(* Sizes.                                                                  *)

Drawn(d) == [w |-> d.w, h |-> d.h, size |-> ConsoleSize(d.w, d.h)]
Told(p)  == [w |-> p.w, h |-> p.h, bpp |-> p.bpp, pitch |-> Pitch(p.w, p.bpp),
             size |-> PictureSize(p.w, p.h, p.bpp)]
Offers(d, max) ==
  ModeValid(d.w, max.w) /\ ModeValid(d.h, max.h) /\ offered = [mode |-> d, limit |-> max]

\* The console has the size that was asked for, and one that was pinned, or
\* has a framebuffer and so was pinned once, fits into the aperture.
SizesInv ==
  /\ gart \in GartSizes /\ aper \in {0, AperSize(gart)}
  /\ picture = NoPicture \/ \E d \in Dims : picture = Drawn(d)
  /\ fbObj \/ pins # 0 => picture.size <= aper
  /\ reply = NoReply \/ \E p \in Pictures : reply = Told(p)
  /\ offered = NoOffer \/ \E d \in Monitors, max \in Panels : Offers(d, max)

LEMMA InitSizes == Init => SizesInv
BY DEF Init, SizesInv

\* A step that computes nothing and pins only what was pinned before.
LEMMA SizesKept ==
  ASSUME SizesInv, UNCHANGED sizeVars, fbObj' \/ pins' # 0 => fbObj \/ pins # 0
  PROVE  SizesInv'
BY DEF SizesInv, sizeVars, Offers

\* The steps that compute or pin first.
Sizing ==
  \/ InitMm \/ ProbeObject \/ ProbePin \/ Close
  \/ \E p \in Pictures : CreateIoctl(p)
  \/ \E d \in Monitors, max \in Panels : GetConnector(d, max)

LEMMA OtherSizes == LoadInv /\ SizesInv /\ [Next]_vars => SizesInv' \/ Sizing
<1> SUFFICES ASSUME LoadInv, SizesInv, [Next]_vars, ~ Sizing PROVE SizesInv'
  OBVIOUS
<1>1. CASE UNCHANGED vars
  BY <1>1, SizesKept DEF vars, conVars, showVars
<1>2. CASE Load
  <2>1. UNCHANGED sizeVars
    BY <1>2 DEF Sizing, Load, Take, AllocPriv, MapMmio, CheckMagic, InitVblank, ModesetInit,
       InstallIrq, PostInstall, InitFbdev, ProbeInfo, ProbeFb, ProbeMap, ProbeUnbind, ProbeUnref,
       Register, PollInit
  <2>2. fbObj' \/ pins' # 0 => fbObj \/ pins # 0
    BY <1>2 DEF Sizing, Load, Take, AllocPriv, MapMmio, CheckMagic, InitVblank, ModesetInit,
       InstallIrq, PostInstall, InitFbdev, ProbeInfo, ProbeFb, ProbeMap, ProbeUnbind, ProbeUnref,
       Register, PollInit, conVars, showVars, LoadInv, PinsInv, Pinned
  <2> QED
    BY <2>1, <2>2, SizesKept
<1>3. CASE UndoLoad \/ Open \/ Handler
  <2>1. UNCHANGED <<sizeVars, conVars>>
    BY <1>3 DEF UndoLoad, IrqOff, FreeIrq, Drop, Open, Take,
       Handler, HandlerEnters, HandlerReads, HandlerVisits, HandlerLeaves
  <2> QED
    BY <2>1, SizesKept DEF conVars, showVars
<1>4. CASE ShowConsole
  <2>1. UNCHANGED <<sizeVars, fbObj>> /\ pc = "loaded" /\ console = "live"
    BY <1>4 DEF ShowConsole, Away, Off, Back, Remode, Blank, Unblank, Shown
  <2>2. fbObj
    BY <2>1 DEF LoadInv, ConsoleInv, Showing
  <2> QED
    BY <2>1, <2>2, SizesKept
<1>5. CASE Remove
  <2>1. UNCHANGED sizeVars
    BY <1>5 DEF Remove, Unload, UnloadIrq, AfterIrq, FreeIrq, Drop, FinishUnload,
       CleanupInfo, CleanupFb, CleanupObj
  <2>2. CASE CleanupFb
    <3>1. fbObj' = fbObj /\ (console # "live" => pins' = 0) /\ (console = "live" => fbObj)
      BY <2>2 DEF CleanupFb, Less, LoadInv, PinsInv, ConsoleInv, Showing
    <3> QED
      BY <2>1, <3>1, SizesKept
  <2>3. CASE CleanupObj
    <3>1. fbObj' = FALSE /\ (pins' # 0 => pins # 0)
      BY <2>3 DEF CleanupObj, UnpinPinned
    <3> QED
      BY <2>1, <3>1, SizesKept
  <2>4. CASE Unload \/ UnloadIrq \/ CleanupInfo \/ FinishUnload
    <3>1. fbObj' = fbObj /\ pins' = pins
      BY <2>4 DEF Unload, UnloadIrq, AfterIrq, FreeIrq, Drop, FinishUnload, CleanupInfo, conVars, showVars
    <3> QED
      BY <2>1, <3>1, SizesKept
  <2> QED
    BY <1>5, <2>2, <2>3, <2>4 DEF Remove
<1> QED
  BY <1>1, <1>2, <1>3, <1>4, <1>5 DEF Next, Client, Sizing

LEMMA SizingSizes == LoadInv /\ SizesInv /\ Sizing => SizesInv'
<1> SUFFICES ASSUME LoadInv, SizesInv, Sizing PROVE SizesInv'
  OBVIOUS
<1>1. CASE InitMm
  BY <1>1 DEF InitMm, conVars, showVars, SizesInv, LoadInv, PinsInv, ConsoleInv, Labels, Before, WithPriv, WithMmio,
     Pinned, Showing, Released, Offers
<1>2. CASE ProbeObject
  <2>1. pins = 0 /\ ~ fbObj /\ UNCHANGED <<pins, fbObj, gart, aper, reply, offered>>
    BY <1>2 DEF ProbeObject, showVars, LoadInv, PinsInv, ConsoleInv, Labels, Before, WithPriv, WithMmio, WithMm,
       WithCrtcs, Installed, Probing, Pinned, Showing, Released
  <2>2. picture' = picture \/ \E d \in Dims : picture' = Drawn(d)
    BY <1>2, LoadAssumption DEF ProbeObject, Drawn
  <2> QED
    BY <2>1, <2>2 DEF SizesInv, Drawn, Offers
<1>3. CASE ProbePin
  <2>1. picture.size <= aper \/ (pins' = pins /\ fbObj' = fbObj)
    BY <1>3 DEF ProbePin
  <2> QED
    BY <1>3, <2>1 DEF ProbePin, SizesInv, sizeVars, Offers
<1>4. CASE Close
  BY <1>4 DEF Close, SizesInv, conVars, showVars
<1>5. ASSUME NEW p \in Pictures, CreateIoctl(p) PROVE SizesInv'
  <2>1. reply' = Told(p) /\ offered' = NoOffer /\ UNCHANGED <<conVars, gart, aper, picture>>
    BY <1>5 DEF CreateIoctl, Told
  <2> QED
    BY <2>1 DEF SizesInv, conVars, showVars
<1>6. ASSUME NEW d \in Monitors, NEW max \in Panels, GetConnector(d, max) PROVE SizesInv'
  <2>1. reply' = NoReply /\ UNCHANGED <<conVars, gart, aper, picture>> /\ Offers(d, max)'
    BY <1>6 DEF GetConnector, Offers
  <2> QED
    BY <2>1 DEF SizesInv, conVars, showVars
<1> QED
  BY <1>1, <1>2, <1>3, <1>4, <1>5, <1>6 DEF Sizing

THEOREM SizesInvariant == Spec => [](LoadInv /\ SizesInv)
<1>1. LoadInv /\ SizesInv /\ [Next]_vars => SizesInv'
  BY OtherSizes, SizingSizes
<1> QED
  BY <1>1, InitSizes, LoadInvariant, PTL DEF Spec

\* Whatever the device reports of its GART, the console that is pinned holds
\* its pixels and has a GART entry for each of its pages.
THEOREM ConsoleBackedHolds == Spec => []ConsoleBacked
<1>1. LoadInv /\ SizesInv => ConsoleBacked
  <2> SUFFICES ASSUME LoadInv, SizesInv, pins # 0 PROVE
               picture.w * 4 * picture.h <= picture.size /\ picture.size <= Entries(gart) * Page
    BY DEF ConsoleBacked
  <2>1. picture.w * 4 * picture.h <= picture.size /\ picture.size \in Nat
    <3>1. CASE picture = NoPicture
      BY <3>1 DEF NoPicture
    <3>2. ASSUME NEW d \in Dims, picture = Drawn(d)
          PROVE  picture.w * 4 * picture.h <= picture.size /\ picture.size \in Nat
      <4>1. d.w \in 0 .. MaxDim /\ d.h \in 0 .. MaxDim
        BY SizesAssumption DEF Dims
      <4> QED
        BY <3>2, <4>1, ConsoleBounds DEF Drawn
    <3> QED
      BY <3>1, <3>2 DEF SizesInv
  <2>2. gart \in Nat /\ AperSize(gart) \in Nat /\ AperSize(gart) <= Entries(gart) * Page
    BY LoadAssumption, SizesAssumption, AperBounds DEF SizesInv
  <2>3. picture.size <= aper /\ aper \in {0, AperSize(gart)} /\ Entries(gart) * Page \in Nat
    BY <2>2, SizesAssumption DEF SizesInv, Entries
  <2> QED
    BY <2>1, <2>2, <2>3
<1> QED
  BY <1>1, SizesInvariant, PTL

\* No limit that a CRTC reports, the one that wraps included, lets its
\* connector offer a mode that it cannot show.
THEOREM OfferedFitsHolds == Spec => []OfferedFits
<1>1. SizesInv => OfferedFits
  <2> SUFFICES ASSUME SizesInv, offered # NoOffer PROVE
               Active(offered.mode.w) <= offered.limit.w /\ Active(offered.mode.h) <= offered.limit.h
    BY DEF OfferedFits
  <2>1. PICK d \in Monitors, max \in Panels : Offers(d, max)
    BY DEF SizesInv
  <2>2. d.w \in Nat /\ d.h \in Nat /\ max.w \in Nat /\ max.h \in Nat
    BY LoadAssumption, SizesAssumption DEF Dims
  <2> QED
    BY <2>1, <2>2, ValidFits DEF Offers
<1> QED
  BY <1>1, SizesInvariant, PTL

\* For every picture that a framebuffer may have, the buffer that a client is
\* told of holds it.
THEOREM BufferHoldsPictureHolds == Spec => []BufferHoldsPicture
<1>1. SizesInv => BufferHoldsPicture
  <2> SUFFICES ASSUME SizesInv, reply.w <= MaxDim, reply.h <= MaxDim PROVE
               /\ reply.w * reply.bpp <= 8 * reply.pitch
               /\ reply.h * reply.pitch <= reply.size
    BY DEF BufferHoldsPicture
  <2>1. CASE reply = NoReply
    BY <2>1 DEF NoReply
  <2>2. ASSUME NEW p \in Pictures, reply = Told(p) PROVE
               /\ reply.w * reply.bpp <= 8 * reply.pitch
               /\ reply.h * reply.pitch <= reply.size
    <3>1. p.w \in 0 .. MaxDim /\ p.h \in 0 .. MaxDim /\ p.bpp \in 0 .. 32
      BY <2>2, LoadAssumption, SizesAssumption DEF Told
    <3>2. Pitch(p.w, p.bpp) \in Nat /\ p.w * p.bpp <= 8 * Pitch(p.w, p.bpp)
      BY <3>1, PitchBounds
    <3>3. PictureSize(p.w, p.h, p.bpp) = Pitch(p.w, p.bpp) * p.h
      BY <3>1, PictureBounds
    <3>4. p.h * Pitch(p.w, p.bpp) <= PictureSize(p.w, p.h, p.bpp)
      BY <3>1, <3>2, <3>3
    <3> QED
      BY <2>2, <3>2, <3>4 DEF Told
  <2> QED
    BY <2>1, <2>2 DEF SizesInv
<1> QED
  BY <1>1, SizesInvariant, PTL

-----------------------------------------------------------------------------
(* Types.                                                                  *)

\* What computes in words stays in them.
LEMMA AlignTyped ==
  ASSUME NEW n \in Nat, NEW a \in Nat \ {0}
  PROVE  Align(n, a) \in 0 .. Word - 1
<1> DEFINE x == Wrap(n + a - 1)
<1>1. x \in 0 .. Word - 1
  BY SizesAssumption DEF Wrap
<1> HIDE DEF x
<1>2. /\ x \div a \in Nat /\ x % a \in Nat
      /\ x = (x \div a) * a + (x % a)
  BY <1>1
<1>3. (x \div a) * a \in Nat
  BY <1>2
<1>4. (x \div a) * a <= x
  BY <1>1, <1>2, <1>3
<1>5. Align(n, a) = (x \div a) * a
  BY DEF Align, x
<1> QED
  BY <1>1, <1>3, <1>4, <1>5, SizesAssumption

LEMMA SizesTyped ==
  ASSUME NEW w \in Nat, NEW h \in Nat, NEW bpp \in 0 .. 32
  PROVE  /\ Pitch(w, bpp) \in 0 .. Word - 1 /\ PictureSize(w, h, bpp) \in 0 .. Word - 1
         /\ ConsoleSize(w, h) \in 0 .. Word - 1
<1>1. \A n \in Nat : Wrap(n) \in 0 .. Word - 1
  BY SizesAssumption DEF Wrap
<1>2. \A b \in 0 .. 32 : w * PixelBytes(b) \in Nat
  <2> SUFFICES ASSUME NEW b \in 0 .. 32 PROVE w * PixelBytes(b) \in Nat
    OBVIOUS
  <2>1. PixelBytes(b) \in 0 .. 4
    BY DEF PixelBytes
  <2> QED
    BY <2>1
<1>3. \A b \in 0 .. 32 : Pitch(w, b) \in 0 .. Word - 1
  <2> SUFFICES ASSUME NEW b \in 0 .. 32 PROVE Pitch(w, b) \in 0 .. Word - 1
    OBVIOUS
  <2>1. PICK n \in Nat : n = Wrap(w * PixelBytes(b))
    BY <1>1, <1>2, SizesAssumption
  <2>2. PitchAlign \in Nat \ {0}
    BY SizesAssumption
  <2>3. Align(n, PitchAlign) \in 0 .. Word - 1
    BY <2>2, AlignTyped
  <2> QED
    BY <2>1, <2>3 DEF Pitch
<1>4. \A b \in 0 .. 32 : PictureSize(w, h, b) \in 0 .. Word - 1
  <2> SUFFICES ASSUME NEW b \in 0 .. 32 PROVE PictureSize(w, h, b) \in 0 .. Word - 1
    OBVIOUS
  <2>1. Pitch(w, b) * h \in Nat
    BY <1>3, SizesAssumption
  <2> QED
    BY <1>1, <2>1 DEF PictureSize
<1>5. ConsoleSize(w, h) \in 0 .. Word - 1
  <2>1. PICK n \in Nat : n = PictureSize(w, h, 32)
    BY <1>4, SizesAssumption
  <2>2. Page \in Nat \ {0}
    BY SizesAssumption
  <2>3. Align(n, Page) \in 0 .. Word - 1
    BY <2>2, AlignTyped
  <2> QED
    BY <2>1, <2>3 DEF ConsoleSize
<1> QED
  BY <1>3, <1>4, <1>5

\* Every variable has its type: the count of pins does not leave its range,
\* and no size exceeds a word.
THEOREM TypesHold == Spec => []TypeOK
<1>1. LoadInv /\ SizesInv /\ RangesInv => TypeOK
  <2> SUFFICES ASSUME LoadInv, SizesInv, RangesInv PROVE TypeOK
    OBVIOUS
  <2> USE LoadAssumption, SizesAssumption
  <2>1. has \subseteq Resources /\ handler \in HandlerPcs /\ fbObj \in BOOLEAN
    BY DEF LoadInv, HeldInv, IrqInv, ConsoleInv
  <2>2. pins \in 0 .. PinMod - 1 /\ lit \in 0 .. MaxShown /\ dark \in 0 .. MaxShown
    BY DEF LoadInv, PinsInv
  <2>3. aper \in 0 .. Word - 1
    <3>1. gart * ((Page \div 4) * Page) \in Nat
      BY DEF SizesInv
    <3> QED
      BY <3>1 DEF SizesInv, AperSize, Wrap
  <2>4. picture \in [w : 0 .. MaxDim, h : 0 .. MaxDim, size : 0 .. Word - 1]
    <3>1. NoPicture \in [w : 0 .. MaxDim, h : 0 .. MaxDim, size : 0 .. Word - 1]
      BY DEF NoPicture
    <3>2. ASSUME NEW d \in Dims PROVE Drawn(d) \in [w : 0 .. MaxDim, h : 0 .. MaxDim, size : 0 .. Word - 1]
      <4>1. d.w \in 1 .. MaxDim /\ d.h \in 1 .. MaxDim
        BY DEF Dims
      <4>2. PICK w \in Nat, h \in Nat : w = d.w /\ h = d.h
        BY <4>1
      <4>3. ConsoleSize(w, h) \in 0 .. Word - 1
        BY SizesTyped, 32 \in 0 .. 32
      <4> QED
        BY <4>1, <4>2, <4>3 DEF Drawn
    <3> QED
      BY <3>1, <3>2 DEF SizesInv
  <2>5. reply \in [w : 0 .. Word - 1, h : 0 .. Word - 1, bpp : 0 .. 32,
                  pitch : 0 .. Word - 1, size : 0 .. Word - 1]
    <3> DEFINE Replies == [w : 0 .. Word - 1, h : 0 .. Word - 1, bpp : 0 .. 32,
                           pitch : 0 .. Word - 1, size : 0 .. Word - 1]
    <3>1. NoReply \in Replies
      BY DEF NoReply
    <3>2. ASSUME NEW p \in Pictures PROVE Told(p) \in Replies
      <4>1. p.w \in 0 .. Word - 1 /\ p.h \in 0 .. Word - 1 /\ p.bpp \in 0 .. 32
        OBVIOUS
      <4>2. PICK w \in Nat, h \in Nat, b \in 0 .. 32 : w = p.w /\ h = p.h /\ b = p.bpp
        BY <4>1
      <4>3. Pitch(w, b) \in 0 .. Word - 1 /\ PictureSize(w, h, b) \in 0 .. Word - 1
        BY SizesTyped
      <4> QED
        BY <4>1, <4>2, <4>3 DEF Told
    <3> QED
      BY <3>1, <3>2 DEF SizesInv
  <2>6. offered = NoOffer \/ offered \in [mode : Monitors, limit : Panels]
    BY DEF SizesInv, Offers
  <2> QED
    BY <2>1, <2>2, <2>3, <2>4, <2>5, <2>6 DEF TypeOK, RangesInv, SizesInv
<1> QED
  BY <1>1, RangesInvariant, SizesInvariant, PTL
===============================================================================
