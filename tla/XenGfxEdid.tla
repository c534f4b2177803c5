------------------------------ MODULE XenGfxEdid ------------------------------
(***************************************************************************)
(* The connector of a CRTC of the xengfx driver (xengfx_display.c): it is  *)
(* probed for a monitor, whose EDID is requested from the device, waited   *)
(* for by polling a bounded number of times, and copied word by word into  *)
(* a cache that all later probes use.                                      *)
(*                                                                         *)
(* Probes are serialised by mode_config.mutex, but monitors come and go    *)
(* and the device answers, late or never, between any two register reads.  *)
(*                                                                         *)
(* The device (external) is modelled as the driver relies on it: it clears *)
(* EDID_REQUEST once the whole block is in its registers, and they do not  *)
(* change without a request.  A request made while one is pending may be   *)
(* ignored or may start the answer again.                                  *)
(***************************************************************************)
EXTENDS Integers

CONSTANTS
  Monitors,   \* what can be plugged in
  Bad,        \* those whose EDID does not pass drm_edid_is_valid
  Words,      \* words of the block: XGFX_EDID_LEN / 4
  MaxReads,   \* the 1000 reads of xengfx_get_edid
  None        \* no monitor; zeroes

ASSUME EdidAssumption ==
  /\ Bad \subseteq Monitors
  /\ Words \in Nat \ {0}
  /\ MaxReads \in Nat \ {0}
  /\ None \notin Monitors

VARIABLES
  plugged,    \* the monitor that is there; STATUS.HOTPLUG if it is not None
  pending,    \* bit 0 of EDID_REQUEST
  fill,       \* words of the answer that are in the registers
  source,     \* whose EDID the answer is
  reg,        \* the EDID registers: word -> the monitor it is from
  edid,       \* crtc->edid
  prop,       \* the EDID property of the connector, or None
  modes,      \* the monitor whose modes the connector lists, or None
  pc,         \* next step of the probe in progress
  first,      \* the probe is that of xengfx_crtc_init
  timeout, v, \* the locals of xengfx_get_edid
  i,
  seen        \* monitors that were there since the request now answered

devVars  == <<pending, fill, source, reg>>
connVars == <<edid, prop, modes>>
locals   == <<first, timeout, v, i>>
vars     == <<plugged, devVars, connVars, pc, locals, seen>>

Blocks   == [0 .. Words - 1 -> Monitors \cup {None}]
Whole(m) == [w \in 0 .. Words - 1 |-> m]

\* A block that mixes two monitors fails the checksum.
Valid(b) == \E m \in Monitors \ Bad : b = Whole(m)

Init ==
  /\ plugged \in Monitors \cup {None}
  /\ pending = FALSE /\ fill = 0 /\ source = None
  /\ reg \in {Whole(m) : m \in Monitors \cup {None}}
  /\ edid = Whole(None) /\ prop = None /\ modes = None
  /\ pc = "init"
  /\ first = TRUE /\ timeout = MaxReads /\ v = FALSE /\ i = 0
  /\ seen = {}

-----------------------------------------------------------------------------
(* The device.                                                             *)

Plug(m) ==
  /\ m # plugged
  /\ plugged' = m
  /\ seen' = seen \cup {m}
  /\ UNCHANGED <<devVars, connVars, pc, locals>>

\* The answer is that of the monitor found when it begins.
Transfer ==
  /\ pending /\ fill < Words
  /\ source' = IF fill = 0 THEN plugged ELSE source
  /\ reg' = [reg EXCEPT ![fill] = source']
  /\ fill' = fill + 1
  /\ UNCHANGED <<plugged, pending, connVars, pc, locals, seen>>

Answer ==
  /\ pending /\ fill = Words
  /\ pending' = FALSE
  /\ UNCHANGED <<plugged, fill, source, reg, connVars, pc, locals, seen>>

-----------------------------------------------------------------------------
(* Probes.                                                                 *)

Return(l) == pc' = l /\ UNCHANGED <<timeout, v, i>>

\* drm_add_edid_modes: an invalid block has no modes.
ListModes(b) == modes' = IF Valid(b) THEN b[0] ELSE None

\* xengfx_crtc_init
InitConnector ==
  /\ pc = "init"
  /\ Return(IF plugged # None THEN "request" ELSE "idle")
  /\ first' = (plugged # None)
  /\ UNCHANGED <<plugged, devVars, connVars, seen>>

\* The probe helper finds the connector disconnected.
ProbeNothing ==
  /\ pc = "idle" /\ plugged = None
  /\ prop' = None /\ modes' = None
  /\ UNCHANGED <<plugged, devVars, edid, pc, locals, seen>>

\* xengfx_connector_get_modes, with a block in the cache.
ProbeCached ==
  /\ pc = "idle" /\ plugged # None /\ Valid(edid)
  /\ ListModes(edid)
  /\ UNCHANGED <<plugged, devVars, edid, prop, pc, locals, seen>>

\* Mutant: get_modes reads the EDID at every probe.
ProbeAlways ==
  /\ pc = "idle" /\ plugged # None
  /\ Return("request")
  /\ UNCHANGED <<plugged, devVars, connVars, first, seen>>

Probe ==
  /\ pc = "idle" /\ plugged # None /\ ~ Valid(edid)
  /\ Return("request")
  /\ UNCHANGED <<plugged, devVars, connVars, first, seen>>

-----------------------------------------------------------------------------
(* xengfx_get_edid                                                         *)

Request ==
  /\ pc = "request"
  /\ pending' = TRUE
  /\ \/ pending /\ UNCHANGED <<fill, seen>>
     \/ fill' = 0 /\ seen' = {plugged}
  /\ timeout' = MaxReads
  /\ pc' = "poll"
  /\ UNCHANGED <<plugged, source, reg, connVars, first, v, i>>

\* Mutant: nothing counts the reads.
LeftAll == timeout
Left == IF pending THEN timeout - 1 ELSE timeout

\* Mutant: timeout-- instead of --timeout.
LoopsPost == pending /\ timeout # 0
Loops == pending /\ Left # 0

\* A read of EDID_REQUEST, and the test of the loop.
Poll ==
  /\ pc = "poll"
  /\ v' = pending
  /\ timeout' = Left
  /\ pc' = IF Loops THEN "poll" ELSE "check"
  /\ UNCHANGED <<plugged, devVars, connVars, first, i, seen>>

\* Mutant: nobody looks at the timeout after the loop.
ExpiredNever == FALSE
Expired == timeout <= 0

\* get_edid returns NULL, which has no modes; the request stays pending.
GiveUp ==
  /\ pc = "check" /\ Expired
  /\ pc' = "idle" /\ first' = FALSE
  /\ modes' = None
  /\ UNCHANGED <<plugged, devVars, edid, prop, timeout, v, i, seen>>

StartCopy ==
  /\ pc = "check" /\ ~ Expired
  /\ pc' = "copy" /\ i' = 0
  /\ UNCHANGED <<plugged, devVars, connVars, first, timeout, v, seen>>

Copy ==
  /\ pc = "copy" /\ i < Words
  /\ edid' = [edid EXCEPT ![i] = reg[i]]
  /\ i' = i + 1
  /\ UNCHANGED <<plugged, devVars, prop, modes, pc, first, timeout, v, seen>>

\* The caller lists the modes; only xengfx_crtc_init sets the property.
Done ==
  /\ pc = "copy" /\ i = Words
  /\ ListModes(edid)
  /\ prop' = IF first /\ Valid(edid) THEN edid[0] ELSE prop
  /\ pc' = "idle" /\ first' = FALSE
  /\ UNCHANGED <<plugged, devVars, edid, timeout, v, i, seen>>

-----------------------------------------------------------------------------

Device  == Transfer \/ Answer \/ \E m \in Monitors \cup {None} : Plug(m)
GetEdid == Request \/ Poll \/ GiveUp \/ StartCopy \/ Copy \/ Done
Connector == InitConnector \/ ProbeNothing \/ ProbeCached \/ Probe

Next == Device \/ GetEdid \/ Connector
Spec == Init /\ [][Next]_vars

\* The thread that runs get_edid is scheduled; the device owes nothing.
FairSpec == Spec /\ WF_vars(GetEdid)

-----------------------------------------------------------------------------
(* Properties.                                                             *)

\* Every variable has its type.
TypeOK ==
  /\ plugged \in Monitors \cup {None}
  /\ pending \in BOOLEAN /\ fill \in 0 .. Words /\ source \in Monitors \cup {None}
  /\ reg \in Blocks /\ edid \in Blocks
  /\ prop \in Monitors \cup {None} /\ modes \in Monitors \cup {None}
  /\ pc \in {"init", "idle", "request", "poll", "check", "copy"}
  /\ first \in BOOLEAN /\ timeout \in 0 .. MaxReads /\ v \in BOOLEAN /\ i \in 0 .. Words
  /\ seen \subseteq Monitors \cup {None}

\* While get_edid copies, the registers hold one whole block, of something
\* that was there since the request the device answered, and what has been
\* copied is of that block: never the rest of an older answer, nor two
\* halves of different ones, also after a request that was given up.
CopiesOneAnswer ==
  pc = "copy" =>
    \E m \in seen : reg = Whole(m) /\ \A w \in 0 .. i - 1 : edid[w] = m

\* get_edid gives up exactly when its last read still found the request
\* pending: an answer seen at the last of the reads is not thrown away, and
\* none is taken that is not there.
GivesUpUnanswered == pc = "check" => (Expired <=> v)

\* The EDID that user space reads from the connector and the modes that it
\* is offered are those of the block in the cache: once one of them came
\* from it, no probe replaces that block or tears it, whatever is plugged
\* in, until the connector is found disconnected.
AdvertisesCache ==
  /\ prop # None => edid = Whole(prop)
  /\ modes # None => edid = Whole(modes)

\* How many steps at most xengfx_get_edid still makes.
StepsLeft ==
  CASE pc = "request" -> MaxReads + Words + 4
    [] pc = "poll"    -> timeout + Words + 3
    [] pc = "check"   -> Words + 2
    [] pc = "copy"    -> Words - i + 1
    [] OTHER          -> 0

\* Each step of get_edid brings it closer to its return, and nothing that
\* the device or the monitors do meanwhile takes it back: an answer that
\* never comes, comes late or is restarted does not make it read on.
GetEdidAdvances ==
  [][/\ GetEdid => StepsLeft' < StepsLeft
     /\ Device => StepsLeft' = StepsLeft]_vars

\* get_edid returns whatever the device does, so that mode_config.mutex is
\* not held for ever.
GetEdidReturns == pc \notin {"init", "idle"} ~> pc = "idle"
===============================================================================
