------------------------------ MODULE XenGfxIrq ------------------------------
(***************************************************************************)
(* Interrupts of the xengfx device (xengfx_irq.c): installation, the       *)
(* handler, and the vblank callbacks.                                      *)
(*                                                                         *)
(* The device (external) latches changes of a CRTC in STATUS_CHANGE, where *)
(* writing a bit clears it. A change happens at any time, also between two *)
(* register accesses of the handler; one that is latched already is not    *)
(* counted twice. Nothing in the repository says what ISR is. Both of its  *)
(* natural forms are modelled: a level, which is up while a change is      *)
(* latched that STATUS_INT enables and which no write alters, and a latch  *)
(* of its own, which such a change sets and writing the bit clears. Under  *)
(* both the 0 that postinstall and uninstall write changes nothing. What   *)
(* STATUS says is left out: the functions that get it are empty.           *)
(***************************************************************************)
EXTENDS Integers, FiniteSets

CONSTANTS
  NCrtcs,     \* NVCRTC; CRTCs are visited in the order 1 .. NCrtcs
  Always      \* the bits of STATUS_INT that the driver sets for good

ASSUME IrqAssumption ==
  /\ NCrtcs \in Nat \ {0}
  /\ Always \subseteq {"hotplug", "onscreen"}

Crtcs == 1 .. NCrtcs
Bits  == Always \cup {"retrace"}

VARIABLES
  change,     \* STATUS_CHANGE of each CRTC
  mask,       \* STATUS_INT of each CRTC
  level,      \* ISR is a level
  isr,        \* the latch of ISR, if it is none
  intEn,      \* CONTROL.INT_EN
  install,    \* where installation is, see InstallPcs
  next,       \* the CRTC that installation works on
  status,     \* STATUS_CHANGE as installation read it
  pc,         \* "out", "read", "report", "ack", "isr", "leave"
  crtc,       \* the CRTC that the handler visits
  seen,       \* STATUS_CHANGE as it was read
  ret,        \* the handler will return IRQ_HANDLED
  owed,       \* history: changes not reported since they were latched
  settled     \* history: the driver was installed when the handler was called

isrVars  == <<level, isr>>
instVars == <<intEn, install, next, status>>
handVars == <<pc, crtc, seen, ret, settled>>
vars     == <<change, mask, isrVars, instVars, handVars, owed>>

Enabled(c) == change[c] \cap mask[c]
Isr        == IF level THEN \E c \in Crtcs : Enabled(c) # {} ELSE isr

\* The latch is set by something that happens, if ISR is one.
Latch(happens) == isr' = (isr \/ (~ level /\ happens)) /\ UNCHANGED level

\* Whether it is set by a change that was latched before it was enabled is
\* the device's own affair.
MayLatch(happens) == Latch(happens) \/ UNCHANGED isrVars

InstallPcs == {"none", "read", "clear", "mask", "enable", "on", "off", "gone"}

Init ==
  /\ change \in [Crtcs -> SUBSET Always]
  /\ mask = [c \in Crtcs |-> {}]
  /\ level \in BOOLEAN /\ isr = FALSE
  /\ intEn = FALSE /\ install = "none" /\ next = 1 /\ status = {}
  /\ pc = "out" /\ crtc = 1 /\ seen = {} /\ ret = FALSE
  /\ owed = change /\ settled = FALSE

-----------------------------------------------------------------------------
(* Installation.                                                           *)

\* request_irq, after which the handler may be called.
RequestIrq ==
  /\ install = "none"
  /\ install' = "read"
  /\ UNCHANGED <<isrVars, change, mask, intEn, next, status, handVars, owed>>

\* xengfx_irq_postinstall: STATUS_CHANGE is read and written back, which
\* clears what was read and nothing that was set after that.
PostRead ==
  /\ install = "read"
  /\ status' = change[next]
  /\ install' = "clear"
  /\ UNCHANGED <<isrVars, change, mask, intEn, next, handVars, owed>>

PostClear ==
  /\ install = "clear"
  /\ change' = [change EXCEPT ![next] = @ \ status]
  /\ status' = {}
  /\ install' = "mask"
  /\ UNCHANGED <<isrVars, mask, intEn, next, handVars, owed>>

\* Mutant: the loop runs to num_crtcs and not to the one before it.
OnePast   == NCrtcs + 1
LastOfAll == NCrtcs

PostMask ==
  /\ install = "mask"
  /\ mask' = [mask EXCEPT ![next] = Always]
  /\ IF next = LastOfAll THEN install' = "enable" /\ UNCHANGED next
                         ELSE install' = "read" /\ next' = next + 1
  /\ MayLatch(Always \cap change[next] # {})
  /\ UNCHANGED <<change, intEn, status, handVars, owed>>

PostEnable ==
  /\ install = "enable"
  /\ intEn' = TRUE
  /\ install' = "on"
  /\ UNCHANGED <<isrVars, change, mask, next, status, handVars, owed>>

\* xengfx_irq_uninstall
Uninstall ==
  /\ install = "on"
  /\ intEn' = FALSE
  /\ install' = "off"
  /\ UNCHANGED <<isrVars, change, mask, next, status, handVars, owed>>

\* free_irq waits until the handler has returned.
FreeIrq ==
  /\ install = "off" /\ pc = "out"
  /\ install' = "gone"
  /\ UNCHANGED <<isrVars, change, mask, intEn, next, status, handVars, owed>>

\* xengfx_enable_vblank and xengfx_disable_vblank, which drm calls with
\* vbl_lock held.
EnableVblank(c) ==
  /\ install = "on"
  /\ mask' = [mask EXCEPT ![c] = @ \cup {"retrace"}]
  /\ MayLatch("retrace" \in change[c])
  /\ UNCHANGED <<change, instVars, handVars, owed>>

DisableVblank(c) ==
  /\ install = "on"
  /\ mask' = [mask EXCEPT ![c] = @ \ {"retrace"}]
  /\ UNCHANGED <<isrVars, change, instVars, handVars, owed>>

-----------------------------------------------------------------------------
(* xengfx_irq_handler                                                      *)

\* The line is raised, or shared with a device that raises it; the handler
\* goes on when ISR is set.
Enter ==
  /\ install \notin {"none", "gone"} /\ pc = "out" /\ Isr
  /\ pc' = "read" /\ crtc' = 1 /\ ret' = FALSE
  /\ settled' = (install = "on")
  /\ UNCHANGED <<isrVars, change, mask, instVars, seen, owed>>

ReadChange ==
  /\ pc = "read"
  /\ seen' = change[crtc]
  /\ pc' = "report"
  /\ UNCHANGED <<isrVars, change, mask, instVars, crtc, ret, settled, owed>>

\* xengfx_crtc_status_onscreen, _connected and drm_handle_vblank.
Report ==
  /\ pc = "report"
  /\ owed' = [owed EXCEPT ![crtc] = @ \ seen]
  /\ ret' = (ret \/ seen # {})
  /\ pc' = "ack"
  /\ UNCHANGED <<isrVars, change, mask, instVars, crtc, seen, settled>>

\* Mutant: the loop ends after the first CRTC.
OnlyFirst == 1
LastCrtc  == NCrtcs

\* Mutants: only the retrace is acknowledged; all bits are, read or not.
AckRetrace(c) == [change EXCEPT ![c] = @ \ (seen \cap {"retrace"})]
AckAll(c)     == [change EXCEPT ![c] = {}]
Acked(c)      == [change EXCEPT ![c] = @ \ seen]

Ack ==
  /\ pc = "ack"
  /\ change' = Acked(crtc)
  /\ IF crtc = LastCrtc THEN pc' = "isr" /\ UNCHANGED crtc
                        ELSE pc' = "read" /\ crtc' = crtc + 1
  /\ UNCHANGED <<isrVars, mask, instVars, seen, ret, settled, owed>>

\* What was read of ISR is written back, which clears the latch.  A level
\* stays up while a change is latched.
WriteIsr ==
  /\ pc = "isr"
  /\ isr' = FALSE
  /\ pc' = "leave"
  /\ UNCHANGED <<level, change, mask, instVars, crtc, seen, ret, settled, owed>>

Leave ==
  /\ pc = "leave"
  /\ pc' = "out"
  /\ UNCHANGED <<isrVars, change, mask, instVars, crtc, seen, ret, settled, owed>>

-----------------------------------------------------------------------------
(* The device.                                                             *)

Change(c, b) ==
  /\ change' = [change EXCEPT ![c] = @ \cup {b}]
  /\ owed' = [owed EXCEPT ![c] = @ \cup ({b} \ change[c])]
  /\ Latch(b \in mask[c])
  /\ UNCHANGED <<mask, instVars, handVars>>

Handler == Enter \/ ReadChange \/ Report \/ Ack \/ WriteIsr \/ Leave
Driver  ==
  \/ RequestIrq \/ PostRead \/ PostClear \/ PostMask \/ PostEnable
  \/ Uninstall \/ FreeIrq
  \/ \E c \in Crtcs : EnableVblank(c) \/ DisableVblank(c)

Next == Handler \/ Driver \/ \E c \in Crtcs, b \in Bits : Change(c, b)
Spec == Init /\ [][Next]_vars

-----------------------------------------------------------------------------
(* Properties.                                                             *)

\* Every variable has its type.
TypeOK ==
  /\ change \in [Crtcs -> SUBSET Bits] /\ mask \in [Crtcs -> SUBSET Bits]
  /\ owed \in [Crtcs -> SUBSET Bits]
  /\ level \in BOOLEAN /\ isr \in BOOLEAN
  /\ intEn \in BOOLEAN /\ install \in InstallPcs
  /\ next \in Crtcs /\ crtc \in Crtcs /\ seen \subseteq Bits /\ status \subseteq Bits
  /\ pc \in {"out", "read", "report", "ack", "isr", "leave"}
  /\ ret \in BOOLEAN /\ settled \in BOOLEAN

\* A change is reported at most once: what the handler reports was latched
\* after it last reported it, so drm counts no vblank twice.
ReportedOnce == pc = "report" => seen \subseteq owed[crtc]

\* Nor is one lost: from the first handler that is called after installation
\* on, nothing clears a change that has not been reported, whatever is
\* latched between the read and the write of STATUS_CHANGE.  A handler that
\* a shared line called during installation may lose one that postinstall
\* cleared and that came again, hence the condition.
ClearsOnlyReported ==
  [][settled => \A c \in Crtcs : owed[c] \cap (change[c] \ change'[c]) = {}]_vars

\* Once installed, the handler never returns IRQ_NONE for an interrupt of
\* its own device, or the kernel would take the line for stuck.
ClaimsItsOwn == pc = "leave" /\ settled => ret
=============================================================================
