--------------------------- MODULE XenGfxIrqProofs ---------------------------
(***************************************************************************)
(* Proofs about XenGfxIrq, for every number of CRTCs.                      *)
(***************************************************************************)
EXTENDS XenGfxIrq, TLAPS

\* A change that is latched is still to be reported, but for those that the
\* handler has reported and is about to acknowledge.
LatchedIsOwed ==
  \A c \in Crtcs :
    change[c] \ (IF pc = "ack" /\ c = crtc THEN seen ELSE {}) \subseteq owed[c]

\* A handler that has nothing to claim yet still has a change before it:
\* installation has ended, so nobody but the handler clears one.
Ahead(from) == \E c \in Crtcs : c >= from /\ change[c] # {}
ClaimAhead ==
  settled /\ pc # "out" =>
    /\ install \in {"on", "off"}
    /\ \/ ret
       \/ pc = "read" /\ Ahead(crtc)
       \/ pc = "report" /\ (seen # {} \/ Ahead(crtc + 1))
       \/ pc = "ack" /\ Ahead(crtc + 1)

\* What a handler called after installation has read stays latched until it
\* acknowledges it, so that none of it is a change of its own meanwhile.
ReadStays ==
  settled =>
    /\ install \in {"on", "off", "gone"}
    /\ pc \in {"report", "ack"} => seen \subseteq change[crtc]
    /\ pc = "ack" => seen \cap owed[crtc] = {}

\* A CRTC that installation is done with; the others are masked.
Done(c) == install \in {"enable", "on", "off", "gone"} \/ c < next
MaskedBefore == \A c \in Crtcs : mask[c] # {} => Done(c)

\* While no handler runs, ISR is set only if a change is latched that the
\* next handler finds.
IsrMeans ==
  isr /\ pc \in {"out", "leave"} => \E c \in Crtcs : Done(c) /\ change[c] # {}

IrqInv ==
  /\ TypeOK /\ LatchedIsOwed /\ ReportedOnce
  /\ MaskedBefore /\ IsrMeans /\ ClaimAhead /\ ReadStays

USE IrqAssumption

\* Every step keeps the types: installation and handler stop at the last
\* CRTC.
LEMMA TypeStep == TypeOK /\ [Next]_vars => TypeOK'
<1>1. SUFFICES ASSUME TypeOK, [Next]_vars PROVE TypeOK'
  OBVIOUS
<1>2. CASE UNCHANGED vars
  BY <1>1, <1>2 DEF vars, isrVars, instVars, handVars, TypeOK, Crtcs, Bits, InstallPcs
<1>3. CASE Handler
  <2>1. CASE Enter
    <3>1. 1 \in Crtcs
      BY DEF Crtcs
    <3>2. settled' \in BOOLEAN
      BY <2>1 DEF Enter
    <3>3. UNCHANGED <<change, mask, owed, seen, isrVars, instVars>> /\ pc' = "read" /\ crtc' = 1 /\ ret' = FALSE
      BY <2>1 DEF Enter
    <3>4. QED
      BY <1>1, <3>1, <3>2, <3>3 DEF isrVars, instVars, TypeOK
  <2>2. CASE ReadChange
    BY <1>1, <2>2 DEF ReadChange, isrVars, instVars, TypeOK, Crtcs, Bits, InstallPcs
  <2>3. CASE Report
    BY <1>1, <2>3 DEF Report, isrVars, instVars, TypeOK, Crtcs, Bits, InstallPcs
  <2>4. CASE Ack
    BY <1>1, <2>4 DEF Ack, Acked, LastCrtc, isrVars, instVars, TypeOK, Crtcs, Bits, InstallPcs
  <2>5. CASE WriteIsr
    BY <1>1, <2>5 DEF WriteIsr, isrVars, instVars, TypeOK, Crtcs, Bits, InstallPcs
  <2>6. CASE Leave
    BY <1>1, <2>6 DEF Leave, isrVars, instVars, TypeOK, Crtcs, Bits, InstallPcs
  <2>7. QED
    BY <1>3, <2>1, <2>2, <2>3, <2>4, <2>5, <2>6 DEF Handler
<1>4. CASE Driver
  <2>1. CASE RequestIrq
    BY <1>1, <2>1 DEF RequestIrq, isrVars, handVars, TypeOK, Crtcs, Bits, InstallPcs
  <2>2. CASE PostRead
    BY <1>1, <2>2 DEF PostRead, isrVars, handVars, TypeOK, Crtcs, Bits, InstallPcs
  <2>3. CASE PostClear
    BY <1>1, <2>3 DEF PostClear, isrVars, handVars, TypeOK, Crtcs, Bits, InstallPcs
  <2>4. CASE PostMask
    <3>1. level' \in BOOLEAN /\ isr' \in BOOLEAN
      BY <1>1, <2>4, Zenon DEF PostMask, MayLatch, Latch, isrVars, TypeOK
    <3>2. QED
      BY <1>1, <2>4, <3>1 DEF PostMask, LastOfAll, handVars, TypeOK, Crtcs, Bits, InstallPcs
  <2>5. CASE PostEnable
    BY <1>1, <2>5 DEF PostEnable, isrVars, handVars, TypeOK, Crtcs, Bits, InstallPcs
  <2>6. CASE Uninstall
    BY <1>1, <2>6 DEF Uninstall, isrVars, handVars, TypeOK, Crtcs, Bits, InstallPcs
  <2>7. CASE FreeIrq
    BY <1>1, <2>7 DEF FreeIrq, isrVars, handVars, TypeOK, Crtcs, Bits, InstallPcs
  <2>8. ASSUME NEW c \in Crtcs, EnableVblank(c) \/ DisableVblank(c) PROVE TypeOK'
    <3>1. mask' \in [Crtcs -> SUBSET Bits]
      BY <1>1, <2>8 DEF EnableVblank, DisableVblank, TypeOK, Bits
    <3>2. UNCHANGED <<change, owed, instVars, handVars>>
      BY <2>8 DEF EnableVblank, DisableVblank
    <3>3. level' \in BOOLEAN /\ isr' \in BOOLEAN
      BY <1>1, <2>8, Zenon DEF EnableVblank, DisableVblank, MayLatch, Latch, isrVars, TypeOK
    <3>4. QED
      BY <1>1, <3>1, <3>2, <3>3 DEF instVars, handVars, TypeOK
  <2>9. QED
    BY <1>4, <2>1, <2>2, <2>3, <2>4, <2>5, <2>6, <2>7, <2>8 DEF Driver
<1>5. ASSUME NEW c \in Crtcs, NEW b \in Bits, Change(c, b) PROVE TypeOK'
  <2>1. level' \in BOOLEAN /\ isr' \in BOOLEAN
    BY <1>1, <1>5, Zenon DEF Change, Latch, TypeOK
  <2>2. QED
    BY <1>1, <1>5, <2>1 DEF Change, instVars, handVars, TypeOK, Crtcs, Bits, InstallPcs
<1>6. QED
  BY <1>1, <1>2, <1>3, <1>4, <1>5 DEF Next

\* Every step keeps the account of what is latched, what was read and what
\* is still to be reported.
LEMMA AccountStep ==
  TypeOK /\ LatchedIsOwed /\ ReportedOnce /\ [Next]_vars
    => LatchedIsOwed' /\ ReportedOnce'
<1>1. SUFFICES ASSUME TypeOK, LatchedIsOwed, ReportedOnce, [Next]_vars
               PROVE LatchedIsOwed' /\ ReportedOnce'
  OBVIOUS
<1>2. CASE UNCHANGED <<change, owed, handVars>>
  BY <1>1, <1>2 DEF handVars, LatchedIsOwed, ReportedOnce
<1>3. CASE Handler
  <2>1. CASE Enter \/ WriteIsr \/ Leave
    BY <1>1, <2>1 DEF Enter, WriteIsr, Leave, LatchedIsOwed, ReportedOnce
  <2>2. CASE ReadChange
    BY <1>1, <2>2 DEF ReadChange, TypeOK, LatchedIsOwed, ReportedOnce
  <2>3. CASE Report
    BY <1>1, <2>3 DEF Report, TypeOK, LatchedIsOwed, ReportedOnce
  <2>4. CASE Ack
    BY <1>1, <2>4 DEF Ack, Acked, TypeOK, LatchedIsOwed, ReportedOnce
  <2>5. QED
    BY <1>3, <2>1, <2>2, <2>3, <2>4 DEF Handler
<1>4. CASE PostClear
  BY <1>1, <1>4 DEF PostClear, handVars, TypeOK, LatchedIsOwed, ReportedOnce
<1>5. ASSUME NEW c \in Crtcs, NEW b \in Bits, Change(c, b)
      PROVE LatchedIsOwed' /\ ReportedOnce'
  BY <1>1, <1>5 DEF Change, handVars, TypeOK, LatchedIsOwed, ReportedOnce
<1>6. Driver => PostClear \/ UNCHANGED <<change, owed, handVars>>
  BY DEF Driver, RequestIrq, PostRead, PostMask, PostEnable, Uninstall, FreeIrq,
         EnableVblank, DisableVblank
<1>7. UNCHANGED vars => UNCHANGED <<change, owed, handVars>>
  BY DEF vars
<1>8. QED
  BY <1>1, <1>2, <1>3, <1>4, <1>5, <1>6, <1>7 DEF Next

\* A handler that was called after installation keeps a change ahead of it
\* until it has one to claim.
LEMMA ClaimStep == TypeOK /\ IsrMeans /\ ClaimAhead /\ [Next]_vars => ClaimAhead'
<1>1. SUFFICES ASSUME TypeOK, IsrMeans, ClaimAhead, [Next]_vars PROVE ClaimAhead'
  OBVIOUS
<1>2. CASE UNCHANGED <<change, install, handVars>>
  BY <1>1, <1>2 DEF handVars, ClaimAhead, Ahead
<1>3. CASE Handler
  <2>1. CASE Enter
    <3>1. PICK c \in Crtcs : change[c] # {}
      BY <1>1, <2>1 DEF Enter, Isr, Enabled, IsrMeans
    <3>2. c >= 1
      BY DEF Crtcs
    <3>3. pc' = "read" /\ crtc' = 1 /\ UNCHANGED <<change, install>>
      BY <2>1 DEF Enter, instVars
    <3>4. settled' <=> install = "on"
      BY <2>1 DEF Enter
    <3>5. Ahead(crtc)'
      BY <3>1, <3>2, <3>3 DEF Ahead
    <3>6. QED
      BY <3>3, <3>4, <3>5 DEF ClaimAhead
  <2>2. CASE ReadChange
    BY <1>1, <2>2 DEF ReadChange, instVars, ClaimAhead, Ahead, TypeOK, Crtcs
  <2>3. CASE Report
    BY <1>1, <2>3 DEF Report, instVars, ClaimAhead, Ahead, TypeOK, Crtcs
  <2>4. CASE Ack
    BY <1>1, <2>4 DEF Ack, Acked, LastCrtc, instVars, ClaimAhead, Ahead, TypeOK, Crtcs
  <2>5. CASE WriteIsr \/ Leave
    BY <1>1, <2>5 DEF WriteIsr, Leave, instVars, ClaimAhead, Ahead
  <2>6. QED
    BY <1>3, <2>1, <2>2, <2>3, <2>4, <2>5 DEF Handler
<1>4. CASE RequestIrq \/ PostRead \/ PostClear \/ PostMask \/ PostEnable
  BY <1>1, <1>4
     DEF RequestIrq, PostRead, PostClear, PostMask, PostEnable, handVars, ClaimAhead
<1>5. CASE Uninstall
  BY <1>1, <1>5 DEF Uninstall, handVars, ClaimAhead, Ahead
<1>6. CASE FreeIrq
  BY <1>1, <1>6 DEF FreeIrq, handVars, ClaimAhead
<1>7. ASSUME NEW c \in Crtcs, NEW b \in Bits, Change(c, b) PROVE ClaimAhead'
  BY <1>1, <1>7 DEF Change, instVars, handVars, ClaimAhead, Ahead, TypeOK, Crtcs
<1>8. Driver => \/ RequestIrq \/ PostRead \/ PostClear \/ PostMask \/ PostEnable
                \/ Uninstall \/ FreeIrq \/ UNCHANGED <<change, install, handVars>>
  BY DEF Driver, EnableVblank, DisableVblank, instVars
<1>9. UNCHANGED vars => UNCHANGED <<change, install, handVars>>
  BY DEF vars, instVars
<1>10. QED
  BY <1>1, <1>2, <1>3, <1>4, <1>5, <1>6, <1>7, <1>8, <1>9 DEF Next

\* A change is enabled only on a CRTC that installation has done, and what
\* sets the latch of ISR stays latched until a handler finds it.
LEMMA IsrStep ==
  TypeOK /\ MaskedBefore /\ IsrMeans /\ [Next]_vars => MaskedBefore' /\ IsrMeans'
<1>1. SUFFICES ASSUME TypeOK, MaskedBefore, IsrMeans, [Next]_vars
               PROVE  MaskedBefore' /\ IsrMeans'
  OBVIOUS
<1>2. CASE UNCHANGED vars
  BY <1>1, <1>2 DEF vars, isrVars, instVars, handVars, MaskedBefore, IsrMeans, Done
<1>3. CASE Handler
  <2>1. MaskedBefore'
    BY <1>1, <1>3 DEF Handler, Enter, ReadChange, Report, Ack, WriteIsr, Leave, instVars,
       MaskedBefore, Done
  <2>2. IsrMeans'
    BY <1>1, <1>3 DEF Handler, Enter, ReadChange, Report, Ack, WriteIsr, Leave, isrVars, instVars,
       IsrMeans, Done
  <2>3. QED
    BY <2>1, <2>2
<1>4. CASE RequestIrq \/ PostRead \/ PostEnable \/ Uninstall \/ FreeIrq
  <2>1. UNCHANGED <<change, mask, isr, pc>> /\ \A c \in Crtcs : Done(c) => Done(c)'
    BY <1>4 DEF RequestIrq, PostRead, PostEnable, Uninstall, FreeIrq, isrVars, handVars, Done
  <2>2. QED
    BY <1>1, <2>1 DEF MaskedBefore, IsrMeans
<1>5. CASE PostClear
  <2>1. /\ UNCHANGED <<mask, isr, pc, next>>
        /\ \A c \in Crtcs : c # next => change'[c] = change[c]
        /\ install = "clear" /\ install' = "mask"
    BY <1>1, <1>5 DEF PostClear, isrVars, handVars, TypeOK
  <2>2. \A c \in Crtcs : Done(c) => Done(c)' /\ c # next
    BY <1>1, <2>1 DEF Done, TypeOK, Crtcs
  <2>3. QED
    BY <1>1, <2>1, <2>2 DEF MaskedBefore, IsrMeans
<1>6. CASE PostMask
  <2>1. /\ install = "mask" /\ mask' = [mask EXCEPT ![next] = Always] /\ UNCHANGED <<change, pc>>
        /\ \/ next = NCrtcs /\ install' = "enable" /\ next' = next
           \/ next # NCrtcs /\ install' = "read" /\ next' = next + 1
    BY <1>6 DEF PostMask, LastOfAll, handVars
  <2>2. \A c \in Crtcs : Done(c) => Done(c)'
    BY <1>1, <2>1 DEF Done, TypeOK, Crtcs
  <2>3. next \in Crtcs /\ \A c \in Crtcs : c = next => Done(c)'
    BY <1>1, <2>1 DEF Done, TypeOK, Crtcs
  <2>4. \A c \in Crtcs : c # next => mask'[c] = mask[c]
    BY <1>1, <2>1 DEF TypeOK
  <2>5. isr' => isr \/ Always \cap change[next] # {}
    BY <1>6, Zenon DEF PostMask, MayLatch, Latch, isrVars
  <2>6. UNCHANGED <<change, pc>> /\ (isr' => isr \/ change[next] # {})
    BY <2>1, <2>5
  <2>7. QED
    BY <1>1, <2>2, <2>3, <2>4, <2>6 DEF MaskedBefore, IsrMeans
<1>7. ASSUME NEW c \in Crtcs, EnableVblank(c) \/ DisableVblank(c) PROVE MaskedBefore' /\ IsrMeans'
  <2>1. UNCHANGED <<change, pc>> /\ install = "on" /\ install' = "on"
    BY <1>7 DEF EnableVblank, DisableVblank, instVars, handVars
  <2>2. isr' => isr \/ change[c] # {}
    BY <1>7 DEF EnableVblank, DisableVblank, MayLatch, Latch, isrVars
  <2>3. QED
    BY <1>1, <2>1, <2>2 DEF MaskedBefore, IsrMeans, Done
<1>8. ASSUME NEW c \in Crtcs, NEW b \in Bits, Change(c, b) PROVE MaskedBefore' /\ IsrMeans'
  <2>1. /\ UNCHANGED <<mask, pc, install, next>> /\ (isr' => isr \/ mask[c] # {})
        /\ \A d \in Crtcs : change[d] \subseteq change'[d]
        /\ change'[c] # {}
    BY <1>1, <1>8 DEF Change, Latch, instVars, handVars, TypeOK
  <2>2. QED
    BY <1>1, <2>1 DEF MaskedBefore, IsrMeans, Done
<1>9. QED
  BY <1>1, <1>2, <1>3, <1>4, <1>5, <1>6, <1>7, <1>8 DEF Next, Driver

\* Nobody but the handler clears a change once installation has ended.
LEMMA ReadStep == TypeOK /\ ReadStays /\ [Next]_vars => ReadStays'
<1>1. SUFFICES ASSUME TypeOK, ReadStays, [Next]_vars PROVE ReadStays'
  OBVIOUS
<1>2. CASE UNCHANGED <<change, owed, install, handVars>>
  BY <1>1, <1>2 DEF handVars, ReadStays
<1>3. CASE Handler
  <2>1. CASE Enter
    <3>1. settled' => install' = "on"
      BY <2>1 DEF Enter, instVars
    <3>2. QED
      BY <2>1, <3>1 DEF Enter, ReadStays
  <2>2. CASE ReadChange \/ Report \/ WriteIsr \/ Leave
    BY <1>1, <2>2 DEF ReadChange, Report, WriteIsr, Leave, instVars, TypeOK, ReadStays
  <2>3. CASE Ack
    BY <1>1, <2>3 DEF Ack, instVars, ReadStays
  <2>4. QED
    BY <1>3, <2>1, <2>2, <2>3 DEF Handler
<1>4. CASE RequestIrq \/ PostRead \/ PostClear \/ PostMask \/ PostEnable \/ Uninstall \/ FreeIrq
  BY <1>1, <1>4 DEF RequestIrq, PostRead, PostClear, PostMask, PostEnable, Uninstall, FreeIrq,
     handVars, ReadStays
<1>5. ASSUME NEW c \in Crtcs, NEW b \in Bits, Change(c, b) PROVE ReadStays'
  BY <1>1, <1>5 DEF Change, instVars, handVars, TypeOK, ReadStays
<1>6. ASSUME NEW c \in Crtcs, EnableVblank(c) \/ DisableVblank(c) PROVE ReadStays'
  BY <1>2, <1>6 DEF EnableVblank, DisableVblank, instVars
<1>7. UNCHANGED vars => UNCHANGED <<change, owed, install, handVars>>
  BY DEF vars, instVars
<1>8. QED
  BY <1>1, <1>2, <1>3, <1>4, <1>5, <1>6, <1>7 DEF Next, Driver

LEMMA IrqInvHolds == Spec => []IrqInv
<1>1. Init => IrqInv
  <2>1. SUFFICES ASSUME Init PROVE IrqInv
    OBVIOUS
  <2>2. change \in [Crtcs -> SUBSET Bits] /\ mask \in [Crtcs -> SUBSET Bits]
    BY <2>1 DEF Init, Bits
  <2>3. 1 \in Crtcs
    BY DEF Crtcs
  <2>4. level \in BOOLEAN /\ isr \in BOOLEAN
    BY <2>1, Zenon DEF Init
  <2>7. TypeOK
    BY <2>1, <2>2, <2>3, <2>4 DEF Init, TypeOK, InstallPcs
  <2>5. LatchedIsOwed /\ ReportedOnce /\ MaskedBefore /\ IsrMeans /\ ClaimAhead /\ ReadStays
    BY <2>1 DEF Init, LatchedIsOwed, ReportedOnce, MaskedBefore, IsrMeans, ClaimAhead, ReadStays
  <2>6. QED
    BY <2>5, <2>7 DEF IrqInv
<1>2. IrqInv /\ [Next]_vars => IrqInv'
  BY TypeStep, AccountStep, IsrStep, ClaimStep, ReadStep DEF IrqInv
<1>3. QED
  BY <1>1, <1>2, PTL DEF Spec

\* However many CRTCs there are, every variable keeps its type: the loops of
\* postinstall and of the handler end at the last CRTC.
THEOREM TypesHold == Spec => []TypeOK
<1>1. IrqInv => TypeOK
  BY DEF IrqInv
<1>2. QED
  BY <1>1, IrqInvHolds, PTL

\* However many CRTCs there are, no change is reported twice: what the
\* handler reports happened after it last reported it.
THEOREM ReportedOnceHolds == Spec => []ReportedOnce
<1>1. IrqInv => ReportedOnce
  BY DEF IrqInv
<1>2. QED
  BY <1>1, IrqInvHolds, PTL

\* However many CRTCs there are, the handler claims every interrupt of its
\* device once installation has ended.
THEOREM ClaimsItsOwnHolds == Spec => []ClaimsItsOwn
<1>1. IrqInv => ClaimsItsOwn
  BY DEF IrqInv, ClaimAhead, ClaimsItsOwn
<1>2. QED
  BY <1>1, IrqInvHolds, PTL

\* However many CRTCs there are and whatever ISR is, a handler called after
\* installation clears no change that it has not reported, and nobody else
\* clears any: what it acknowledges is what it read, and that has stayed
\* latched since.
THEOREM ClearsOnlyReportedHolds == Spec => ClearsOnlyReported
<1> DEFINE Kept == settled => \A c \in Crtcs : owed[c] \cap (change[c] \ change'[c]) = {}
<1>1. IrqInv /\ [Next]_vars => [Kept]_vars
  <2>1. SUFFICES ASSUME IrqInv, [Next]_vars, settled
                 PROVE  \A c \in Crtcs : owed[c] \cap (change[c] \ change'[c]) = {}
    OBVIOUS
  <2>2. CASE UNCHANGED change
    BY <2>2
  <2>3. CASE Ack
    BY <2>1, <2>3 DEF Ack, Acked, IrqInv, TypeOK, ReadStays
  <2>4. CASE PostClear
    BY <2>1, <2>4 DEF PostClear, IrqInv, ReadStays
  <2>5. ASSUME NEW c \in Crtcs, NEW b \in Bits, Change(c, b)
        PROVE  \A d \in Crtcs : change[d] \subseteq change'[d]
    BY <2>1, <2>5 DEF Change, IrqInv, TypeOK
  <2>6. QED
    BY <2>1, <2>2, <2>3, <2>4, <2>5
       DEF Next, Handler, Enter, ReadChange, Report, WriteIsr, Leave, Driver, RequestIrq, PostRead,
           PostMask, PostEnable, Uninstall, FreeIrq, EnableVblank, DisableVblank, vars
<1>2. QED
  BY <1>1, IrqInvHolds, PTL DEF Spec, ClearsOnlyReported
=============================================================================
