--------------------------- MODULE XenGfxEdidProofs ---------------------------
(***************************************************************************)
(* Proofs about XenGfxEdid, for any set of monitors, any size of the block *)
(* and any number of reads.                                                *)
(***************************************************************************)
EXTENDS XenGfxEdid, TLAPS

USE EdidAssumption

-----------------------------------------------------------------------------
(* Types, and the end of the wait.                                         *)

\* The loop is only entered again with reads left.
ReadsLeft == pc = "poll" => timeout # 0

WaitInv == TypeOK /\ ReadsLeft /\ GivesUpUnanswered

LEMMA InitWait == Init => WaitInv
<1>1. \A m \in Monitors \cup {None} : Whole(m) \in Blocks
  BY DEF Whole, Blocks
<1>2. Init => reg \in Blocks /\ edid \in Blocks
  BY <1>1 DEF Init
<1>3. Init => pending \in BOOLEAN /\ first \in BOOLEAN /\ v \in BOOLEAN
  BY Zenon DEF Init
<1>4. Init => /\ fill \in 0 .. Words /\ i \in 0 .. Words /\ timeout \in 0 .. MaxReads
              /\ seen \subseteq Monitors \cup {None}
  BY DEF Init
<1>5. Init => ReadsLeft /\ GivesUpUnanswered
  BY DEF Init, ReadsLeft, GivesUpUnanswered
<1> QED
  BY <1>2, <1>3, <1>4, <1>5, Zenon DEF Init, WaitInv, TypeOK

\* The device and the monitors do not touch the driver's part.
LEMMA DeviceWait == WaitInv /\ Device => WaitInv'
<1> SUFFICES ASSUME WaitInv, Device PROVE WaitInv'
  OBVIOUS
<1> USE DEF WaitInv, TypeOK, ReadsLeft, GivesUpUnanswered, Expired
<1>1. ASSUME NEW m \in Monitors \cup {None}, Plug(m) PROVE WaitInv'
  BY <1>1 DEF Plug, devVars, connVars, locals
<1>2. CASE Transfer
  <2>1. source' \in Monitors \cup {None} /\ fill \in 0 .. Words - 1
    BY <1>2 DEF Transfer
  <2>2. reg' \in Blocks
    BY <1>2, <2>1 DEF Transfer, Blocks
  <2> QED
    BY <1>2, <2>1, <2>2 DEF Transfer, connVars, locals
<1>3. CASE Answer
  BY <1>3 DEF Answer, connVars, locals
<1> QED
  BY <1>1, <1>2, <1>3 DEF Device

LEMMA ConnectorWait == WaitInv /\ Connector => WaitInv'
<1> SUFFICES ASSUME WaitInv, Connector PROVE WaitInv'
  OBVIOUS
<1> USE DEF WaitInv, TypeOK, ReadsLeft, GivesUpUnanswered, Expired
<1>1. CASE InitConnector
  <2>1. first' \in BOOLEAN
    BY <1>1, Zenon DEF InitConnector
  <2> QED
    BY <1>1, <2>1 DEF InitConnector, Return, devVars, connVars
<1>2. CASE ProbeNothing
  BY <1>2 DEF ProbeNothing, devVars, locals
<1>3. CASE ProbeCached
  <2>1. edid[0] \in Monitors \cup {None}
    BY DEF Blocks
  <2> QED
    BY <1>3, <2>1 DEF ProbeCached, ListModes, devVars, locals
<1>4. CASE Probe
  BY <1>4 DEF Probe, Return, devVars, connVars
<1> QED
  BY <1>1, <1>2, <1>3, <1>4 DEF Connector

LEMMA GetEdidWait == WaitInv /\ GetEdid => WaitInv'
<1> SUFFICES ASSUME WaitInv, GetEdid PROVE WaitInv'
  OBVIOUS
<1> USE DEF WaitInv, TypeOK, ReadsLeft, GivesUpUnanswered, Expired
<1>0. edid[0] \in Monitors \cup {None}
  BY DEF Blocks
<1>1. CASE Request
  <2>1. fill' \in 0 .. Words /\ seen' \subseteq Monitors \cup {None}
    BY <1>1 DEF Request
  <2> QED
    BY <1>1, <2>1 DEF Request, connVars
<1>2. CASE Poll
  \* timeout # 0 before the read, so it does not go below 0.
  <2>1. v' = pending /\ timeout' = Left /\ pc = "poll"
    BY <1>2 DEF Poll
  <2>2. Left \in 0 .. MaxReads /\ (Left = 0 => pending)
    BY <2>1 DEF Left
  <2>3. pc' = (IF pending /\ Left # 0 THEN "poll" ELSE "check")
    BY <1>2 DEF Poll, Loops
  <2>4. (Left <= 0 /\ pending) \/ (pending /\ Left # 0) \/ (~ pending /\ ~ (Left <= 0))
    BY <2>2
  <2>5. (pc' = "poll" => timeout' # 0) /\ (pc' = "check" => (timeout' <= 0 <=> v'))
    BY <2>1, <2>2, <2>3, <2>4
  <2>6. v' \in BOOLEAN
    BY <2>1, Zenon
  <2>7. UNCHANGED <<plugged, devVars, connVars, first, i, seen>>
    BY <1>2 DEF Poll
  <2> QED
    BY <2>1, <2>2, <2>3, <2>5, <2>6, <2>7 DEF devVars, connVars
<1>3. CASE GiveUp
  BY <1>3 DEF GiveUp, devVars
<1>4. CASE StartCopy
  BY <1>4 DEF StartCopy, devVars, connVars
<1>5. CASE Copy
  <2>1. i \in 0 .. Words - 1 /\ reg[i] \in Monitors \cup {None}
    BY <1>5 DEF Copy, Blocks
  <2>2. edid' \in Blocks
    BY <1>5, <2>1 DEF Copy, Blocks
  <2> QED
    BY <1>5, <2>1, <2>2 DEF Copy, devVars
<1>6. CASE Done
  BY <1>0, <1>6 DEF Done, ListModes, devVars
<1> QED
  BY <1>1, <1>2, <1>3, <1>4, <1>5, <1>6 DEF GetEdid

LEMMA NextWait == WaitInv /\ [Next]_vars => WaitInv'
<1>1. WaitInv /\ UNCHANGED vars => WaitInv'
  BY DEF WaitInv, TypeOK, ReadsLeft, GivesUpUnanswered, Expired, vars,
         devVars, connVars, locals
<1> QED
  BY <1>1, DeviceWait, ConnectorWait, GetEdidWait DEF Next

\* Types, and with them that no probe reads the register more than MaxReads
\* times, whatever the device answers.
THEOREM TypesHold == Spec => []TypeOK
<1>1. WaitInv => TypeOK
  BY DEF WaitInv
<1> QED
  BY <1>1, InitWait, NextWait, PTL DEF Spec

\* xengfx_get_edid returns NULL if and only if no read found an answer, for
\* any number of reads.
THEOREM GivesUpUnansweredHolds == Spec => []GivesUpUnanswered
<1>1. WaitInv => GivesUpUnanswered
  BY DEF WaitInv
<1> QED
  BY <1>1, InitWait, NextWait, PTL DEF Spec

-----------------------------------------------------------------------------
(* The answer.                                                             *)

\* What is in the registers is of one monitor, seen since the request.
Filled ==
  /\ \A w \in 0 .. fill - 1 : reg[w] = source
  /\ fill # 0 => source \in seen
  /\ pending => plugged \in seen

\* A request that is no longer pending was answered, and stays so until the
\* block is copied.
Answered ==
  /\ pc \in {"poll", "check", "copy"} /\ ~ pending => fill = Words
  /\ pc = "check" /\ ~ v => ~ pending
  /\ pc = "copy" => ~ pending /\ \A w \in 0 .. i - 1 : edid[w] = source

AnswerInv == Filled /\ Answered

LEMMA InitAnswer == Init => AnswerInv
  BY DEF Init, AnswerInv, Filled, Answered

LEMMA NextFilled == WaitInv /\ AnswerInv /\ [Next]_vars => Filled'
<1> SUFFICES ASSUME WaitInv, AnswerInv, [Next]_vars PROVE Filled'
  OBVIOUS
<1> USE DEF WaitInv, TypeOK, AnswerInv, Filled
<1>1. ASSUME NEW m \in Monitors \cup {None}, Plug(m) PROVE Filled'
  BY <1>1 DEF Plug, devVars
<1>2. CASE Transfer
  <2>1. /\ source' = IF fill = 0 THEN plugged ELSE source
        /\ reg' = [reg EXCEPT ![fill] = source'] /\ fill' = fill + 1
        /\ pending /\ fill < Words
        /\ UNCHANGED <<plugged, pending, seen>>
    BY <1>2 DEF Transfer
  <2>2. source' \in seen
    BY <2>1
  <2>3. ASSUME NEW w \in 0 .. fill' - 1 PROVE reg'[w] = source'
    BY <2>1, <2>3 DEF Blocks
  <2> QED
    BY <2>1, <2>2, <2>3
<1>3. CASE Answer
  BY <1>3 DEF Answer
<1>4. CASE Request
  BY <1>4 DEF Request
<1>5. CASE UNCHANGED <<plugged, devVars, seen>>
  BY <1>5 DEF devVars
<1> QED
  BY <1>1, <1>2, <1>3, <1>4, <1>5
     DEF Next, Device, GetEdid, Connector, Poll, GiveUp, StartCopy, Copy, Done,
         InitConnector, ProbeNothing, ProbeCached, Probe, vars

LEMMA NextAnswered == WaitInv /\ AnswerInv /\ [Next]_vars => Answered'
<1> SUFFICES ASSUME WaitInv, AnswerInv, [Next]_vars PROVE Answered'
  OBVIOUS
<1> USE DEF WaitInv, TypeOK, AnswerInv, Answered
<1>1. ASSUME NEW m \in Monitors \cup {None}, Plug(m) PROVE Answered'
  BY <1>1 DEF Plug, devVars, connVars, locals
<1>2. CASE Transfer
  BY <1>2 DEF Transfer, connVars, locals
<1>3. CASE Answer
  BY <1>3 DEF Answer, connVars, locals
<1>4. CASE Connector
  BY <1>4 DEF Connector, InitConnector, ProbeNothing, ProbeCached, Probe, Return
<1>5. CASE Request
  BY <1>5 DEF Request
<1>6. CASE Poll
  BY <1>6 DEF Poll, Loops, devVars
<1>7. CASE GiveUp
  BY <1>7 DEF GiveUp
<1>8. CASE StartCopy
  BY <1>8 DEF StartCopy, GivesUpUnanswered, devVars
<1>9. CASE Copy
  <2>1. /\ pc = "copy" /\ i < Words /\ edid' = [edid EXCEPT ![i] = reg[i]]
        /\ i' = i + 1 /\ UNCHANGED <<pending, fill, source, pc, v>>
    BY <1>9 DEF Copy, devVars
  <2>2. fill = Words /\ ~ pending
    BY <2>1
  <2>3. reg[i] = source
    BY <2>1, <2>2 DEF Filled
  <2>4. ASSUME NEW w \in 0 .. i' - 1 PROVE edid'[w] = source'
    BY <2>1, <2>3, <2>4 DEF Blocks
  <2> QED
    BY <2>1, <2>2, <2>4
<1>10. CASE Done
  BY <1>10 DEF Done
<1>11. CASE UNCHANGED vars
  BY <1>11 DEF vars, devVars, connVars, locals
<1> QED
  BY <1>1, <1>2, <1>3, <1>4, <1>5, <1>6, <1>7, <1>8, <1>9, <1>10, <1>11
     DEF Next, Device, GetEdid

\* Whatever the device answers and when, what xengfx_get_edid copies is one
\* whole block of a monitor that was there since the request.
THEOREM CopiesOneAnswerHolds == Spec => []CopiesOneAnswer
<1>1. WaitInv /\ AnswerInv => CopiesOneAnswer
  <2> SUFFICES ASSUME WaitInv, AnswerInv, pc = "copy"
               PROVE  /\ source \in seen
                      /\ reg = Whole(source)
                      /\ \A w \in 0 .. i - 1 : edid[w] = source
    BY DEF CopiesOneAnswer
  <2>1. fill = Words /\ \A w \in 0 .. i - 1 : edid[w] = source
    BY DEF AnswerInv, Answered
  <2>2. source \in seen /\ \A w \in 0 .. Words - 1 : reg[w] = source
    BY <2>1 DEF AnswerInv, Filled
  <2>3. reg = Whole(source)
    BY <2>2 DEF WaitInv, TypeOK, Blocks, Whole
  <2> QED
    BY <2>1, <2>2, <2>3
<1> QED
  BY <1>1, InitWait, NextWait, InitAnswer, NextFilled, NextAnswered, PTL DEF Spec, AnswerInv

-----------------------------------------------------------------------------
(* The cache.                                                              *)

Good == Monitors \ Bad

\* Once something was advertised get_edid is not called any more.
CacheInv ==
  /\ pc # "idle" => prop = None /\ modes = None
  /\ prop # None => prop \in Good /\ edid = Whole(prop)
  /\ modes # None => modes \in Good /\ edid = Whole(modes)

LEMMA InitCache == Init => CacheInv
  BY DEF Init, CacheInv

LEMMA FirstWord == \A m : Whole(m)[0] = m
  BY DEF Whole

\* What the first word of a valid block names, all its words are of.
LEMMA ValidIsWhole ==
  ASSUME NEW b, Valid(b)
  PROVE  b[0] \in Good /\ b = Whole(b[0])
  BY FirstWord DEF Valid, Good

LEMMA NextCache == CacheInv /\ [Next]_vars => CacheInv'
<1> SUFFICES ASSUME CacheInv, [Next]_vars PROVE CacheInv'
  OBVIOUS
<1> USE DEF CacheInv
<1>0. prop # None \/ modes # None => Valid(edid)
  BY DEF Valid, Good
<1>1. CASE Device \/ UNCHANGED vars
  BY <1>1 DEF Device, Plug, Transfer, Answer, connVars, vars
<1>2. CASE InitConnector
  BY <1>2 DEF InitConnector, Return, connVars
<1>3. CASE ProbeNothing
  BY <1>3 DEF ProbeNothing
<1>4. CASE ProbeCached
  BY <1>4, ValidIsWhole DEF ProbeCached, ListModes
<1>5. CASE Probe
  BY <1>0, <1>5 DEF Probe, connVars
<1>6. CASE Request \/ Poll \/ StartCopy
  BY <1>6 DEF Request, Poll, StartCopy, connVars
<1>7. CASE GiveUp
  BY <1>7 DEF GiveUp
<1>8. CASE Copy
  BY <1>8 DEF Copy
<1>9. CASE Done
  BY <1>9, ValidIsWhole DEF Done, ListModes
<1> QED
  BY <1>1, <1>2, <1>3, <1>4, <1>5, <1>6, <1>7, <1>8, <1>9
     DEF Next, GetEdid, Connector

\* The EDID property and the modes are those of the cached block, for any
\* monitors plugged in any order.
THEOREM AdvertisesCacheHolds == Spec => []AdvertisesCache
<1>1. CacheInv => AdvertisesCache
  BY DEF CacheInv, AdvertisesCache
<1> QED
  BY <1>1, InitCache, NextCache, PTL DEF Spec

-----------------------------------------------------------------------------
(* The end of get_edid.                                                    *)

LEMMA GetEdidCloser ==
  ASSUME WaitInv, GetEdid
  PROVE  StepsLeft' < StepsLeft
<1> USE DEF WaitInv, TypeOK
<1>1. CASE Request
  BY <1>1 DEF Request, StepsLeft
<1>2. CASE Poll
  <2>1. pc = "poll" /\ timeout \in 1 .. MaxReads
    BY <1>2 DEF Poll, ReadsLeft
  <2>2. timeout' = Left /\ pc' = IF pending /\ Left # 0 THEN "poll" ELSE "check"
    BY <1>2 DEF Poll, Loops
  <2>3. CASE pc' = "poll"
    <3>1. timeout' = timeout - 1
      BY <2>2, <2>3 DEF Left
    <3> QED BY <2>1, <2>3, <3>1 DEF StepsLeft
  <2>4. CASE pc' = "check"
    BY <2>1, <2>4 DEF StepsLeft
  <2> QED BY <2>2, <2>3, <2>4
<1>3. CASE GiveUp
  BY <1>3 DEF GiveUp, StepsLeft
<1>4. CASE StartCopy
  BY <1>4 DEF StartCopy, StepsLeft
<1>5. CASE Copy
  BY <1>5 DEF Copy, StepsLeft
<1>6. CASE Done
  BY <1>6 DEF Done, StepsLeft
<1> QED
  BY <1>1, <1>2, <1>3, <1>4, <1>5, <1>6 DEF GetEdid

LEMMA DeviceAside ==
  ASSUME Device
  PROVE  StepsLeft' = StepsLeft
BY DEF Device, Plug, Transfer, Answer, locals, StepsLeft

\* Every run of xengfx_get_edid ends after MaxReads + Words + 4 of its steps
\* at most, for any number of reads and words, whatever the device does.
THEOREM GetEdidAdvancesHolds == Spec => GetEdidAdvances
<1>1. WaitInv /\ [Next]_vars =>
        [/\ GetEdid => StepsLeft' < StepsLeft
         /\ Device => StepsLeft' = StepsLeft]_vars
  BY GetEdidCloser, DeviceAside
<1> QED
  BY <1>1, InitWait, NextWait, PTL DEF Spec, GetEdidAdvances
===============================================================================
