------------------------------ MODULE XenGfxLoad ------------------------------
(***************************************************************************)
(* Loading and unloading the xengfx driver (xengfx_drv.c), with the fbdev  *)
(* console that load creates (xengfx_fb.c, xengfx_compat_fb.c) and the     *)
(* interrupt handler, which may run as soon as it is registered: the line  *)
(* is shared, so it is also called for interrupts of other devices.  While *)
(* the driver is loaded clients ask for buffers and modes, and take the    *)
(* console off the CRTCs and put it back.                                  *)
(*                                                                         *)
(* Every allocation may fail.  pc is the label of the next statement of    *)
(* load or unload; its err_ labels are those of the code.                  *)
(***************************************************************************)
EXTENDS XenGfxSizes, FiniteSets

CONSTANTS
  MaxShown,   \* CRTCs that may show the console
  PinMod,     \* pin_count is unsigned and wraps here
  GartSizes,  \* what GART_SIZE may read, in pages
  Panels,     \* what MAX_HORIZONTAL and MAX_VERTICAL of a CRTC may read
  Monitors,   \* width and height of the modes of the monitors
  Surfaces,   \* the sizes the fb helper may ask a console for
  Pictures    \* what clients ask buffers for

Dims == [w : 1 .. MaxDim, h : 1 .. MaxDim]

ASSUME LoadAssumption ==
  /\ MaxShown \in Nat /\ PinMod \in Nat /\ PinMod > MaxShown + 1
  /\ GartSizes \subseteq 0 .. Word - 1
  /\ Panels \subseteq [w : 0 .. Word - 1, h : 0 .. Word - 1]
  /\ Monitors \subseteq Dims /\ Surfaces \subseteq Dims
  /\ Pictures \subseteq [w : 0 .. Word - 1, h : 0 .. Word - 1, bpp : 0 .. 32]

VARIABLES
  pc,         \* where load or unload is
  has,        \* what the driver holds
  console,    \* the console object: "none", "live", "freed", "corrupt"
  pins,       \* its pin_count
  lit, dark,  \* CRTCs that show it and are active, or are not
  even,       \* no pin of the console was lost when unload began
  fbObj,      \* fbdev->fb was made and its obj set
  info,       \* the fb_info: "none", "alloc", "set" in the helper
  handler,    \* where the interrupt handler is
  intEn,      \* CONTROL.INT_EN
  gart,       \* GART_SIZE
  aper,       \* dev_priv->aper_size, the range of gart_mm
  picture,    \* width, height and size of the console object
  reply,      \* what the client was last told: of a buffer by
              \* xengfx_gem_create_ioctl,
  offered     \* or of a mode that a connector has, with the limits of its CRTC

sizeVars == <<gart, aper, picture, reply, offered>>
showVars == <<pins, lit, dark>>
conVars  == <<console, showVars, even, fbObj, info>>
vars     == <<pc, has, conVars, handler, intEn, sizeVars>>

Resources ==
  {"priv", "mmio", "vblank", "mm", "modeset", "table", "crtcs", "irq", "fbdev", "poll", "file"}
NoPicture == [w |-> 0, h |-> 0, size |-> 0]
NoReply   == [w |-> 0, h |-> 0, bpp |-> 0, pitch |-> 0, size |-> 0]
NoMode    == [w |-> 0, h |-> 0]
NoOffer   == [mode |-> NoMode, limit |-> NoMode]
HandlerPcs == {"out", "isr", "list", "ack"}

Init ==
  /\ pc = "priv" /\ has = {}
  /\ console = "none" /\ pins = 0 /\ lit = 0 /\ dark = 0 /\ even = TRUE
  /\ fbObj = FALSE /\ info = "none"
  /\ handler = "out" /\ intEn = FALSE
  /\ gart \in GartSizes
  /\ aper = 0 /\ picture = NoPicture /\ reply = NoReply /\ offered = NoOffer

-----------------------------------------------------------------------------
(* xengfx_driver_load                                                      *)

\* A step at l that takes resource r and goes on, or fails and cleans up.
Take(l, r, next, undo) ==
  /\ pc = l
  /\ \/ has' = has \cup {r} /\ pc' = next
     \/ UNCHANGED has /\ pc' = undo
  /\ UNCHANGED <<sizeVars, conVars, handler, intEn>>

\* A step at l that gives back the resources R.
Drop(l, R, next) ==
  /\ pc = l
  /\ has' = has \ R
  /\ pc' = next
  /\ UNCHANGED <<sizeVars, conVars, handler, intEn>>

AllocPriv == Take("priv", "priv", "mmio", "failed")
MapMmio   == Take("mmio", "mmio", "magic", "err_mmio")

CheckMagic ==
  /\ pc = "magic"
  /\ pc' \in {"vblank", "err_magic"}
  /\ UNCHANGED <<sizeVars, has, conVars, handler, intEn>>

\* Mutant: the registers stay mapped.
UndoVblankLess == "err_mmio"
UndoVblank == "err_magic"
InitVblank == Take("vblank", "vblank", "mm", UndoVblank)

InitMm ==
  /\ pc = "mm"
  /\ has' = has \cup {"mm"}
  /\ aper' = AperSize(gart)
  /\ pc' = "modeset"
  /\ UNCHANGED <<conVars, handler, intEn, gart, picture, reply, offered>>

\* xengfx_modeset_init does not fail: without a table of CRTCs it leaves
\* the driver without any.  Nothing ever frees the table.
ModesetInit ==
  /\ pc = "modeset"
  /\ \/ has' = has \cup {"modeset", "table", "crtcs"}
     \/ has' = has \cup {"modeset"}
  /\ pc' = "irq"
  /\ UNCHANGED <<sizeVars, conVars, handler, intEn>>

InstallIrq == Take("irq", "irq", "postinstall", "err_irqinstall")

\* xengfx_irq_postinstall
PostInstall ==
  /\ pc = "postinstall"
  /\ intEn' = TRUE
  /\ pc' = "fbdev"
  /\ UNCHANGED <<sizeVars, has, conVars, handler>>

\* Mutant: the error path leaves the handler registered.
UndoFbdevLess == "err_irqinstall"
UndoFbdev == "err_fbdev"

\* xengfx_fbdev_init up to the probe: no memory for fbdev, or the helper
\* cannot be made and fbdev is freed again.
InitFbdev == Take("fbdev", "fbdev", "object", UndoFbdev)

-----------------------------------------------------------------------------
(* xengfx_fb_probe; its caller ignores what it returns.                    *)

\* The helper chooses the size: of a mode, or its own if there is none.
ProbeObject ==
  /\ pc = "object"
  /\ \/ /\ \E d \in Surfaces : picture' = [w |-> d.w, h |-> d.h, size |-> ConsoleSize(d.w, d.h)]
        /\ console' = "live" /\ pc' = "pin"
     \/ UNCHANGED <<console, picture>> /\ pc' = "poll"
  /\ UNCHANGED <<has, showVars, even, fbObj, info, handler, intEn, gart, aper, reply, offered>>

ProbePin ==
  /\ pc = "pin"
  /\ \/ picture.size <= aper /\ pins' = 1 /\ pc' = "info"
     \/ UNCHANGED pins /\ pc' = "unref"
  /\ UNCHANGED <<sizeVars, has, console, lit, dark, even, fbObj, info, handler, intEn>>

ProbeInfo ==
  /\ pc = "info"
  /\ \/ info' = "alloc" /\ pc' = "fb"
     \/ UNCHANGED info /\ pc' = "unbind"
  /\ UNCHANGED <<sizeVars, has, console, showVars, even, fbObj, handler, intEn>>

\* xengfx_framebuffer_init, after which the helper knows fb and info.
ProbeFb ==
  /\ pc = "fb"
  /\ \/ fbObj' = TRUE /\ info' = "set" /\ pc' = "apertures"
     \/ UNCHANGED <<fbObj, info>> /\ pc' = "unbind"
  /\ UNCHANGED <<sizeVars, has, console, showVars, even, handler, intEn>>

\* alloc_apertures, then ioremap_wc.
ProbeMap ==
  /\ pc = "apertures"
  /\ pc' \in {"register", "unbind"}
  /\ UNCHANGED <<sizeVars, has, conVars, handler, intEn>>

ProbeUnbind ==
  /\ pc = "unbind"
  /\ pins' = pins - 1
  /\ pc' = "unref"
  /\ UNCHANGED <<sizeVars, has, console, lit, dark, even, fbObj, info, handler, intEn>>

ProbeUnref ==
  /\ pc = "unref"
  /\ console' = "freed"
  /\ pc' = "poll"
  /\ UNCHANGED <<sizeVars, has, showVars, even, fbObj, info, handler, intEn>>

\* The console is registered and shown: set_base pins it for each CRTC.
Register ==
  /\ pc = "register"
  /\ \E n \in IF "crtcs" \in has THEN 0 .. MaxShown ELSE {0} :
       lit' = n /\ pins' = pins + n
  /\ pc' = "poll"
  /\ UNCHANGED <<sizeVars, has, console, dark, even, fbObj, info, handler, intEn>>

\* The last statement of load.  No connector sets `polled`, so the work is
\* never scheduled; unload does not call drm_kms_helper_poll_fini.
PollInit ==
  /\ pc = "poll"
  /\ has' = has \cup {"poll"}
  /\ pc' = "loaded"
  /\ UNCHANGED <<sizeVars, conVars, handler, intEn>>

-----------------------------------------------------------------------------
(* What the calls of XenGfxDisplay do, when they succeed, to the pins of a *)
(* console that is shown.  set_base pins the new framebuffer and unpins    *)
(* the old one; xengfx_crtc_disable unpins what an active CRTC shows.      *)

\* pin_count is unsigned.
More(n) == IF n = PinMod - 1 THEN 0 ELSE n + 1
Less(n, k) == IF k <= n THEN n - k ELSE n + PinMod - k

Shown(l, d, p) ==
  /\ pc = "loaded" /\ console = "live"
  /\ lit' = l /\ dark' = d /\ pins' = p
  /\ UNCHANGED <<sizeVars, pc, has, console, even, fbObj, info, handler, intEn>>

\* A CRTC gets another framebuffer.
Away ==
  \/ lit > 0  /\ Shown(lit - 1, dark, Less(pins, 1))
  \/ dark > 0 /\ Shown(lit, dark - 1, Less(pins, 1))

\* A CRTC is turned off: one that is not active already keeps its pin.
Off ==
  \/ lit > 0  /\ Shown(lit - 1, dark, Less(pins, 1))
  \/ dark > 0 /\ Shown(lit, dark - 1, pins)

\* A CRTC without the console gets it: by a flip, or by a mode change, which
\* disables an active CRTC that has the console as its framebuffer already.
Back ==
  /\ "crtcs" \in has /\ lit + dark < MaxShown
  /\ \/ Shown(lit + 1, dark, More(pins))
     \/ Shown(lit, dark + 1, More(pins))
     \/ Shown(lit + 1, dark, pins)

\* A CRTC that shows the console gets another mode, and keeps it.
Remode ==
  \/ lit > 0  /\ Shown(lit, dark, Less(pins, 1))
  \/ dark > 0 /\ Shown(lit + 1, dark - 1, pins)

\* drm_fb_helper_blank, on every CRTC: blanking unpins, unblanking does not
\* pin.
Blank   == lit > 0  /\ Shown(0, dark + lit, Less(pins, lit))
Unblank == dark > 0 /\ Shown(lit + dark, 0, pins)

ShowConsole == Away \/ Off \/ Back \/ Remode \/ Blank \/ Unblank

-----------------------------------------------------------------------------
(* Clients of the loaded driver: xengfx_driver_open and _postclose,        *)
(* xengfx_gem_create_ioctl, as far as it computes, and the list of modes.  *)

Open == Take("loaded", "file", "loaded", "loaded")

CreateIoctl(p) ==
  /\ pc = "loaded" /\ "file" \in has
  /\ PictureSize(p.w, p.h, p.bpp) # 0
  /\ reply' = [w |-> p.w, h |-> p.h, bpp |-> p.bpp, pitch |-> Pitch(p.w, p.bpp),
               size |-> PictureSize(p.w, p.h, p.bpp)]
  /\ offered' = NoOffer
  /\ UNCHANGED <<pc, has, conVars, handler, intEn, gart, aper, picture>>

\* xengfx_connector_mode_valid reads the limits of the connector's own CRTC.
\* The encoder is shared: the helper may set the mode on another one.
GetConnector(d, max) ==
  /\ pc = "loaded" /\ {"file", "crtcs"} \subseteq has
  /\ ModeValid(d.w, max.w) /\ ModeValid(d.h, max.h)
  /\ offered' = [mode |-> d, limit |-> max]
  /\ reply' = NoReply
  /\ UNCHANGED <<pc, has, conVars, handler, intEn, gart, aper, picture>>

Close ==
  /\ pc = "loaded" /\ "file" \in has
  /\ has' = has \ {"file"}
  /\ reply' = NoReply /\ offered' = NoOffer
  /\ UNCHANGED <<pc, conVars, handler, intEn, gart, aper, picture>>

-----------------------------------------------------------------------------
(* The error path of xengfx_driver_load, and xengfx_driver_unload.         *)

\* drm_irq_uninstall calls xengfx_irq_uninstall, and then free_irq, which
\* waits for a handler that still runs.
IrqOff(l, next) ==
  /\ pc = l
  /\ intEn' = FALSE
  /\ pc' = next
  /\ UNCHANGED <<sizeVars, has, conVars, handler>>

FreeIrq(l, next) ==
  /\ handler = "out"
  /\ Drop(l, {"irq"}, next)

UndoLoad ==
  \/ IrqOff("err_fbdev", "err_freeirq")
  \/ FreeIrq("err_freeirq", "err_irqinstall")
  \/ Drop("err_irqinstall", {"modeset", "crtcs"}, "err_takedown")
  \/ Drop("err_takedown", {"mm"}, "err_magic")
  \/ Drop("err_magic", {"mmio"}, "err_mmio")
  \/ Drop("err_mmio", {"priv"}, "failed")

\* An open file keeps the module in.
Unload ==
  /\ pc = "loaded" /\ "file" \notin has
  /\ intEn' = FALSE
  /\ even' = (console = "live" => pins = 1 + lit)
  /\ pc' = "freeirq"
  /\ UNCHANGED <<sizeVars, has, console, showVars, fbObj, info, handler>>

\* Mutant: xengfx_driver_unload without xengfx_fbdev_cleanup.
SkipFbdev == "cleanup"
AfterIrq  == "fbinfo"

UnloadIrq == FreeIrq("freeirq", AfterIrq)

\* xengfx_fbdev_cleanup: it finds the info through the helper.
CleanupInfo ==
  /\ pc = "fbinfo"
  /\ info' = IF info = "set" THEN "none" ELSE info
  /\ pc' = "fbcleanup"
  /\ UNCHANGED <<sizeVars, has, console, showVars, even, fbObj, handler, intEn>>

\* drm_framebuffer_cleanup turns off the CRTCs that show the console, and
\* xengfx_crtc_disable unpins it for each that is active.  On a framebuffer
\* that was never made, whose dev is zero, it stops in Linux 3.0; that it may
\* also go on allows for other kernels.
CleanupFb ==
  /\ pc = "fbcleanup"
  /\ lit' = 0 /\ dark' = 0 /\ pins' = Less(pins, lit)
  /\ pc' = "fbobj" \/ (~ fbObj /\ pc' = "oops")
  /\ UNCHANGED <<sizeVars, has, console, even, fbObj, info, handler, intEn>>

\* Mutant: xengfx_gem_free_object unpins an object without pins.
UnpinAlways(n) == n - 1
UnpinPinned(n) == IF n # 0 THEN n - 1 ELSE n

\* The last reference: xengfx_gem_free_object unpins once.
CleanupObj ==
  /\ pc = "fbobj"
  /\ IF fbObj
       THEN /\ console' = IF console = "live" THEN "freed" ELSE "corrupt"
            /\ pins' = UnpinPinned(pins)
       ELSE UNCHANGED <<console, pins>>
  /\ fbObj' = FALSE
  /\ has' = has \ {"fbdev"}
  /\ pc' = "cleanup"
  /\ UNCHANGED <<sizeVars, lit, dark, even, info, handler, intEn>>

FinishUnload ==
  \/ Drop("cleanup", {"modeset", "crtcs"}, "takedown")
  \/ Drop("takedown", {"mm"}, "unmap")
  \/ Drop("unmap", {"mmio"}, "free")
  \/ Drop("free", {"priv"}, "gone")

-----------------------------------------------------------------------------
(* xengfx_irq_handler, as far as it uses what load makes.                  *)

HandlerEnters ==
  /\ "irq" \in has /\ handler = "out"
  /\ handler' = "isr"
  /\ UNCHANGED <<sizeVars, pc, has, conVars, intEn>>

\* It reads ISR, and goes through the list of CRTCs if there is something.
HandlerReads ==
  /\ handler = "isr"
  /\ handler' \in {"out", "list"}
  /\ UNCHANGED <<sizeVars, pc, has, conVars, intEn>>

HandlerVisits ==
  /\ handler = "list"
  /\ handler' = "ack"
  /\ UNCHANGED <<sizeVars, pc, has, conVars, intEn>>

HandlerLeaves ==
  /\ handler = "ack"
  /\ handler' = "out"
  /\ UNCHANGED <<sizeVars, pc, has, conVars, intEn>>

Load ==
  \/ AllocPriv \/ MapMmio \/ CheckMagic \/ InitVblank \/ InitMm \/ ModesetInit
  \/ InstallIrq \/ PostInstall \/ InitFbdev
  \/ ProbeObject \/ ProbePin \/ ProbeInfo \/ ProbeFb \/ ProbeMap
  \/ ProbeUnbind \/ ProbeUnref \/ Register \/ PollInit
Remove ==
  \/ Unload \/ UnloadIrq \/ CleanupInfo \/ CleanupFb \/ CleanupObj \/ FinishUnload
Handler == HandlerEnters \/ HandlerReads \/ HandlerVisits \/ HandlerLeaves

Client ==
  \/ Open \/ Close
  \/ \E p \in Pictures : CreateIoctl(p)
  \/ \E d \in Monitors, max \in Panels : GetConnector(d, max)

Next == Load \/ UndoLoad \/ Client \/ ShowConsole \/ Remove \/ Handler
Spec == Init /\ [][Next]_vars

-----------------------------------------------------------------------------
(* Properties.                                                             *)

\* Every variable has its type.
TypeOK ==
  /\ has \subseteq Resources
  /\ console \in {"none", "live", "freed", "corrupt"}
  /\ pins \in 0 .. PinMod - 1 /\ lit \in 0 .. MaxShown /\ dark \in 0 .. MaxShown
  /\ even \in BOOLEAN /\ fbObj \in BOOLEAN /\ info \in {"none", "alloc", "set"}
  /\ handler \in HandlerPcs /\ intEn \in BOOLEAN
  /\ gart \in GartSizes /\ aper \in 0 .. Word - 1
  /\ picture \in [w : 0 .. MaxDim, h : 0 .. MaxDim, size : 0 .. Word - 1]
  /\ reply \in [w : 0 .. Word - 1, h : 0 .. Word - 1, bpp : 0 .. 32,
                pitch : 0 .. Word - 1, size : 0 .. Word - 1]
  /\ offered = NoOffer \/ offered \in [mode : Monitors, limit : Panels]

\* Wherever load fails and whenever unload starts, a handler that runs
\* finds the registers mapped and the CRTCs alive, and while the device may
\* interrupt there is a handler.
HandlerSafe ==
  /\ handler # "out" => {"priv", "mmio", "modeset"} \subseteq has
  /\ intEn => "irq" \in has

\* What is left behind.  A load that fails leaves the vblank counters, which
\* DRM frees, and the table of CRTCs, which nobody does.  An unload also
\* leaves the output poll, and the fb_info of a console whose framebuffer
\* could not be made.  It never leaves a console object, or one of its
\* framebuffer, an fb_info that the helper knows, or a handler that runs.
LeftBehind ==
  /\ pc = "failed" => has \subseteq {"vblank", "table"} /\ console = "none" /\ info = "none"
  /\ pc = "gone" =>
       /\ has \subseteq {"vblank", "table", "poll"}
       /\ console # "live" /\ ~ fbObj /\ info \in {"none", "alloc"}
  /\ pc \in {"failed", "gone"} => handler = "out" /\ ~ intEn

\* The console leaves the aperture before the allocator of the GART and the
\* registers go, whether its probe succeeded, failed or was never shown, and
\* whatever was shown since, provided that its pins were those of its probe
\* and of the active CRTCs that show it when unload began.  They are not
\* after a console was blanked and unblanked, or got another mode: pins get
\* lost (display_pin_count), and an object may stay in the aperture.
ConsoleLeavesFirst ==
  even /\ pins # 0 => {"mm", "mmio", "priv"} \subseteq has

\* The console can be drawn and scanned out completely: its object is large
\* enough for its pixels, and there is a GART entry for each of its pages,
\* also for a GART so large that the size of the aperture wraps.
ConsoleBacked ==
  pins # 0 =>
    /\ picture.w * 4 * picture.h <= picture.size
    /\ picture.size <= Entries(gart) * Page

\* A mode that a connector offers is one that its own CRTC can show: it does
\* not make mode_set write more to H_ACTIVE and V_ACTIVE than the registers
\* of that CRTC allow, also when the limit is so large that it wraps.
OfferedFits ==
  offered # NoOffer =>
    /\ Active(offered.mode.w) <= offered.limit.w
    /\ Active(offered.mode.h) <= offered.limit.h

\* What a client is told of a buffer for any picture that a framebuffer may
\* have: the lines hold their pixels and the buffer holds the lines.
BufferHoldsPicture ==
  reply.w <= MaxDim /\ reply.h <= MaxDim =>
    /\ reply.w * reply.bpp <= 8 * reply.pitch
    /\ reply.h * reply.pitch <= reply.size

\* What the comment at the end of xengfx_fb_probe says: whatever a probe
\* that failed leaves is released by xengfx_fbdev_cleanup, once.
CleanupDoesTheRest ==
  pc = "cleanup" => info = "none" /\ console \in {"none", "freed"}
===============================================================================
