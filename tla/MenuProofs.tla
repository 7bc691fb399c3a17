----------------------------- MODULE MenuProofs -----------------------------
(***************************************************************************)
(* Proofs about Menu, for every period, every longest check shorter than   *)
(* it and every set of chains, a finite or an infinite one: the model's    *)
(* bound on the chains is no bound of the results.                         *)
(***************************************************************************)
EXTENDS Menu, FiniteSetTheorems, TLAPS

LEMMA Times == MaxCheck \in Nat \ {0} /\ Period \in Nat /\ MaxCheck < Period
BY MenuAssumption

USE Times

Result == [age : 0..MaxCheck, saw : {"pending"} \union Status]

LEMMA ChecksDiffer ==
  /\ Running \in Result /\ Running # NoCheck
  /\ NoCheck \notin Result
  /\ \A k \in Result : k # NoCheck /\ k.age \in 0..MaxCheck
BY DEF Result, Running, NoCheck, Status

LEMMA ParsedIsStatus == \A out : parseSIPRegistrations(out) \in Status
BY DEF parseSIPRegistrations, Status

LEMMA InitMenuInv == Init => MenuInv
<1> SUFFICES ASSUME Init PROVE MenuInv
    OBVIOUS
<1>1. PICK c \in Chains :
        /\ tick = [d \in Chains |-> IF d = c THEN Interval ELSE None]
        /\ check = [d \in Chains |-> IF d = c THEN Running ELSE NoCheck]
  BY DEF Init
<1>2. TypeOK
  <2>1. inMenu \in BOOLEAN /\ quick \in BOOLEAN /\ stale \in BOOLEAN
    BY DEF Init
  <2>2. tick \in [Chains -> 0..None]
    BY <1>1 DEF Interval, None
  <2>3. check \in [Chains -> {NoCheck} \union Result]
    BY <1>1, ChecksDiffer
  <2> QED BY <2>1, <2>2, <2>3 DEF Init, TypeOK, Result, Old, Long
<1>3. CheckHasTick /\ TicksEnd /\ OneTick /\ InOrder
  BY <1>1 DEF Init, CheckHasTick, TicksEnd, OneTick, InOrder, Running, Interval, None, Old
<1>4. SawTrunk
  BY <1>1 DEF Init, SawTrunk, Running, NoCheck, Status
<1>5. Polled
  BY <1>1, ChecksDiffer DEF Init, Polled, Running
<1> QED BY <1>2, <1>3, <1>4, <1>5 DEF MenuInv

LEMMA NextType == MenuInv /\ [Next]_vars => TypeOK'
<1> SUFFICES ASSUME MenuInv, [Next]_vars PROVE TypeOK'
    OBVIOUS
<1> USE DEF TypeOK, None, Old, Long
<1> TypeOK
  BY DEF MenuInv
<1>1. CASE Leave
  <2>1. inMenu' \in BOOLEAN
    BY <1>1 DEF Leave
  <2> QED BY <1>1, <2>1 DEF Leave
<1>2. CASE Return
  <2>1. inMenu' \in BOOLEAN /\ quick' \in BOOLEAN /\ stale' \in BOOLEAN
    <3>1. quick' = (since <= Period)
      BY <1>2 DEF Return
    <3>2. quick' \in BOOLEAN
      BY <3>1
    <3> QED BY <1>2, <3>2 DEF Return
  <2>2. PICK c \in Chains : StartsChain(c)
    BY <1>2 DEF Return
  <2>3. tick' \in [Chains -> 0..None]
    BY <2>2 DEF StartsChain, Interval
  <2>4. check' \in [Chains -> {NoCheck} \union Result]
    BY <2>2, ChecksDiffer DEF StartsChain, Result
  <2> QED BY <1>2, <2>1, <2>3, <2>4 DEF Return, Result
<1>3. CASE TrunkChanges BY <1>3 DEF TrunkChanges
<1>4. CASE Time
  <2>1. \A c \in Chains : check[c] # NoCheck =>
          [check[c] EXCEPT !.age = @ + 1] \in [age : 0..MaxCheck, saw : {"pending"} \union Status]
    BY <1>4 DEF Time
  <2>2. check' \in [Chains -> {NoCheck} \union Result]
    BY <1>4, <2>1 DEF Time, Result
  <2>3. tick' \in [Chains -> 0..None]
    <3>1. \A c \in Chains : tick[c] \in 0..None /\ tick[c] # 0
      BY <1>4 DEF Time
    <3>2. \A c \in Chains : (IF tick[c] = None THEN None ELSE tick[c] - 1) \in 0..None
      BY <3>1
    <3> QED BY <1>4, <3>2 DEF Time
  <2> QED BY <1>4, <2>2, <2>3 DEF Time, CapAt, Result
<1>5. ASSUME NEW c \in Chains, sipTickMsg(c) PROVE TypeOK'
  BY <1>5 DEF sipTickMsg, NextTick, Interval, Running
<1>6. ASSUME NEW c \in Chains, checkSIPStatus(c) PROVE TypeOK'
  <2>1. PICK saw \in Status : check' = [check EXCEPT ![c].saw = saw]
    BY <1>6, ParsedIsStatus DEF checkSIPStatus
  <2>2. check[c] \in Result
    BY <1>6 DEF checkSIPStatus, NoCheck, Result
  <2>3. [check[c] EXCEPT !.saw = saw] \in Result
    BY <2>2 DEF Result
  <2>4. check' \in [Chains -> {NoCheck} \union Result]
    BY <2>1, <2>3 DEF Result
  <2> QED BY <1>6, <2>4 DEF checkSIPStatus, Result
<1>7. ASSUME NEW c \in Chains, sipStatusMsg(c) PROVE TypeOK'
  BY <1>7 DEF sipStatusMsg, NoCheck, Status
<1>8. CASE UNCHANGED vars BY <1>8 DEF vars
<1> QED BY <1>1, <1>2, <1>3, <1>4, <1>5, <1>6, <1>7, <1>8 DEF Next

-----------------------------------------------------------------------------
\* What becomes of the ticks.

LEMMA NextCheckHasTick == MenuInv /\ [Next]_vars => CheckHasTick'
<1> SUFFICES ASSUME MenuInv, [Next]_vars PROVE CheckHasTick'
    OBVIOUS
<1> USE DEF CheckHasTick, TypeOK, None
<1> TypeOK /\ CheckHasTick
  BY DEF MenuInv
<1>1. CASE Leave \/ TrunkChanges BY <1>1 DEF Leave, TrunkChanges
<1>2. CASE Return
  BY <1>2 DEF Return, StartsChain, Running, Interval
<1>3. CASE Time
  <2>1. \A c \in Chains : check[c] # NoCheck =>
          tick[c] # None /\ tick[c] # 0 /\ check[c].age \in 0..MaxCheck
    BY <1>3 DEF Time
  <2> QED BY <1>3, <2>1 DEF Time
<1>4. ASSUME NEW c \in Chains, sipTickMsg(c) PROVE CheckHasTick'
  BY <1>4 DEF sipTickMsg, NextTick, Interval, Running
<1>5. ASSUME NEW c \in Chains, checkSIPStatus(c) PROVE CheckHasTick'
  <2>1. check[c] # NoCheck /\ check'[c].age = check[c].age
    BY <1>5 DEF checkSIPStatus, NoCheck
  <2> QED BY <1>5, <2>1 DEF checkSIPStatus
<1>6. ASSUME NEW c \in Chains, sipStatusMsg(c) PROVE CheckHasTick'
  BY <1>6 DEF sipStatusMsg
<1>7. CASE UNCHANGED vars BY <1>7 DEF vars
<1> QED BY <1>1, <1>2, <1>3, <1>4, <1>5, <1>6, <1>7 DEF Next

LEMMA NextTicksEnd == MenuInv /\ [Next]_vars => TicksEnd'
<1> SUFFICES ASSUME MenuInv, [Next]_vars PROVE TicksEnd'
    OBVIOUS
<1> USE DEF TicksEnd, TypeOK, None, Old, Long
<1> TypeOK /\ TicksEnd
  BY DEF MenuInv
<1>1. CASE Leave \/ TrunkChanges BY <1>1 DEF Leave, TrunkChanges
<1>2. CASE Return BY <1>2 DEF Return
<1>3. CASE Time BY <1>3 DEF Time, CapAt
<1>4. ASSUME NEW c \in Chains, sipTickMsg(c) PROVE TicksEnd'
  BY <1>4 DEF sipTickMsg, NextTick, Interval, TakesTick
<1>5. ASSUME NEW c \in Chains, checkSIPStatus(c) \/ sipStatusMsg(c) PROVE TicksEnd'
  BY <1>5 DEF checkSIPStatus, sipStatusMsg
<1>6. CASE UNCHANGED vars BY <1>6 DEF vars
<1> QED BY <1>1, <1>2, <1>3, <1>4, <1>5, <1>6 DEF Next

LEMMA NextOneTick == MenuInv /\ [Next]_vars => OneTick'
<1> SUFFICES ASSUME MenuInv, [Next]_vars PROVE OneTick'
    OBVIOUS
<1> USE DEF OneTick, TypeOK, None, Old, Long
<1> TypeOK /\ OneTick /\ TicksEnd
  BY DEF MenuInv
<1>1. CASE Leave \/ TrunkChanges BY <1>1 DEF Leave, TrunkChanges
<1>2. CASE Return
  <2>1. since <= Period => quick'
    <3>1. quick' = (since <= Period)
      BY <1>2 DEF Return
    <3> QED BY <3>1
  <2>2. ~(since <= Period) => \A c \in Chains : tick[c] = None
    BY <1>2 DEF Return, TicksEnd
  <2> QED BY <1>2, <2>1, <2>2 DEF Return, StartsChain
<1>3. CASE Time BY <1>3 DEF Time
<1>4. ASSUME NEW c \in Chains, sipTickMsg(c) PROVE OneTick'
  BY <1>4 DEF sipTickMsg
<1>5. ASSUME NEW c \in Chains, checkSIPStatus(c) \/ sipStatusMsg(c) PROVE OneTick'
  BY <1>5 DEF checkSIPStatus, sipStatusMsg
<1>6. CASE UNCHANGED vars BY <1>6 DEF vars
<1> QED BY <1>1, <1>2, <1>3, <1>4, <1>5, <1>6 DEF Next

\* A chain with a check is a chain with a tick, so that there is one then, too.
LEMMA OneCheck ==
  ASSUME MenuInv, ~quick, NEW c \in Chains, NEW d \in Chains, tick[c] # None, check[d] # NoCheck
  PROVE  c = d
<1>1. check[d].age \in 0..MaxCheck /\ tick[d] \in 0..None /\ tick[d] + check[d].age = Period
  BY DEF MenuInv, TypeOK, CheckHasTick
<1> QED BY <1>1 DEF MenuInv, OneTick, None

LEMMA NextInOrder == MenuInv /\ [Next]_vars => InOrder'
<1> SUFFICES ASSUME MenuInv, [Next]_vars PROVE InOrder'
    OBVIOUS
<1> USE DEF InOrder, TypeOK, None, Old, Long
<1> TypeOK /\ InOrder
  BY DEF MenuInv
<1>1. CASE Leave \/ TrunkChanges BY <1>1 DEF Leave, TrunkChanges
<1>2. CASE Return
  <2>1. age' = MaxCheck + 1 /\ ~stale'
    BY <1>2 DEF Return
  <2>2. \A c \in Chains : check'[c] # NoCheck => check'[c].age \in 0..MaxCheck
    BY NextType
  <2> QED BY <2>1, <2>2
<1>3. CASE Time
  <2>1. \A c \in Chains : check[c] # NoCheck =>
          check[c].age \in 0..(MaxCheck - 1) /\ check'[c].age = check[c].age + 1
    BY <1>3 DEF Time
  <2>2. \A c \in Chains : check[c] = NoCheck => check'[c] = NoCheck
    BY <1>3 DEF Time
  <2> QED BY <1>3, <2>1, <2>2 DEF Time, CapAt
<1>4. ASSUME NEW c \in Chains, sipTickMsg(c) PROVE InOrder'
  BY <1>4 DEF sipTickMsg, Running
<1>5. ASSUME NEW c \in Chains, checkSIPStatus(c) PROVE InOrder'
  <2>1. check[c] # NoCheck /\ check'[c].age = check[c].age
    BY <1>5 DEF checkSIPStatus, NoCheck
  <2> QED BY <1>5, <2>1 DEF checkSIPStatus
<1>6. ASSUME NEW c \in Chains, sipStatusMsg(c) PROVE InOrder'
  <2>1. check[c] # NoCheck /\ check[c].age \in 0..MaxCheck
    BY <1>6 DEF sipStatusMsg, NoCheck, Status
  <2>2. tick[c] # None
    BY <2>1 DEF MenuInv, CheckHasTick
  <2>3. ~quick => \A d \in Chains : check'[d] = NoCheck
    BY <1>6, <2>2, OneCheck DEF sipStatusMsg
  <2>4. ~quick /\ inMenu => check[c].age <= age
    BY <2>1
  <2> QED BY <1>6, <2>1, <2>3, <2>4 DEF sipStatusMsg
<1>7. CASE UNCHANGED vars BY <1>7 DEF vars
<1> QED BY <1>1, <1>2, <1>3, <1>4, <1>5, <1>6, <1>7 DEF Next

-----------------------------------------------------------------------------
\* What the checks saw, and what is shown of it.

LEMMA NextSawTrunk == MenuInv /\ [Next]_vars => SawTrunk'
<1> SUFFICES ASSUME MenuInv, [Next]_vars PROVE SawTrunk'
    OBVIOUS
<1> USE DEF SawTrunk, TypeOK, None, Old, Long
<1> TypeOK /\ SawTrunk
  BY DEF MenuInv
<1>0. \A c \in Chains : check[c].saw \in Status => check[c].age \in 0..MaxCheck
  BY DEF NoCheck, Status
<1>1. CASE Leave BY <1>1 DEF Leave
<1>2. CASE Return BY <1>2 DEF Return, StartsChain, Running, Status
<1>3. CASE TrunkChanges
  BY <1>0, <1>3 DEF TrunkChanges
<1>4. CASE Time
  <2>1. \A c \in Chains : check[c] # NoCheck =>
          check'[c].age = check[c].age + 1 /\ check'[c].saw = check[c].saw
    BY <1>4 DEF Time
  <2>2. \A c \in Chains : check[c] = NoCheck => check'[c] = NoCheck
    BY <1>4 DEF Time
  <2> QED BY <1>0, <1>4, <2>1, <2>2 DEF Time, CapAt, NoCheck, Status
<1>5. ASSUME NEW c \in Chains, sipTickMsg(c) PROVE SawTrunk'
  BY <1>5 DEF sipTickMsg, Running, Status
<1>6. ASSUME NEW c \in Chains, checkSIPStatus(c) PROVE SawTrunk'
  <2>1. check' = [check EXCEPT ![c].saw = trunk]
    BY <1>6, TrunkAssumption DEF checkSIPStatus
  <2>2. check[c] \in Result
    BY <1>6 DEF checkSIPStatus, NoCheck, Result
  <2>3. check'[c].saw = trunk /\ \A d \in Chains \ {c} : check'[d] = check[d]
    BY <2>1, <2>2 DEF Result
  <2> QED BY <1>6, <2>3 DEF checkSIPStatus
<1>7. ASSUME NEW c \in Chains, sipStatusMsg(c) PROVE SawTrunk'
  BY <1>7 DEF sipStatusMsg, NoCheck, Status
<1>8. CASE UNCHANGED vars BY <1>8 DEF vars
<1> QED BY <1>1, <1>2, <1>3, <1>4, <1>5, <1>6, <1>7, <1>8 DEF Next

\* The tick of a chain is due only when its last check is delivered.
NoTwoChecks == \A c \in Chains : tick[c] = 0 => check[c] = NoCheck

LEMMA InvNoTwoChecks == MenuInv => NoTwoChecks
<1> SUFFICES ASSUME MenuInv, NEW c \in Chains, tick[c] = 0, check[c] # NoCheck PROVE FALSE
  BY DEF NoTwoChecks
<1>1. check[c].age \in 0..MaxCheck
  BY DEF MenuInv, TypeOK
<1>2. check[c].age = Period
  BY <1>1 DEF MenuInv, CheckHasTick
<1> QED BY <1>1, <1>2, MenuAssumption

LEMMA NextPolled == MenuInv /\ [Next]_vars => Polled'
<1> SUFFICES ASSUME MenuInv, [Next]_vars, inMenu' PROVE Polled'
    BY DEF Polled
<1> USE DEF TypeOK, None, Old, Long
<1> TypeOK /\ CheckHasTick /\ SawTrunk /\ Polled
  BY DEF MenuInv
<1>0. /\ \A c \in Chains : check[c] # NoCheck => check[c].age \in 0..MaxCheck /\ tick[c] # None
      /\ \A c \in Chains : tick[c] # None => ShownAge(c) \in 0..(Period + MaxCheck)
  BY DEF CheckHasTick, ShownAge
<1>1. CASE Leave BY <1>1 DEF Leave
<1>2. CASE Return
  <2>1. PICK c \in Chains : StartsChain(c)
    BY <1>2 DEF Return
  <2>2. check'[c] # NoCheck /\ check'[c].age = 0
    BY <2>1, ChecksDiffer DEF StartsChain, Running
  <2> QED BY <1>2, <2>2 DEF Return, Polled
<1>3. CASE TrunkChanges
  <2>1. CASE shown = "unknown" BY <1>3, <2>1 DEF TrunkChanges, Polled
  <2>2. CASE shown # "unknown"
    <3>1. PICK c \in Chains : tick[c] # None
      BY <1>3, <2>2 DEF TrunkChanges, Polled
    <3>2. steady' = 0 /\ ShownAge(c)' \in 0..(Period + MaxCheck)
      BY <1>0, <1>3, <3>1 DEF TrunkChanges, ShownAge
    <3> QED BY <1>3, <2>2, <3>1, <3>2 DEF TrunkChanges, Polled
  <2> QED BY <2>1, <2>2
<1>4. CASE Time
  <2>1. \A c \in Chains : /\ check[c] # NoCheck => check'[c].age = check[c].age + 1
                          /\ check[c] # NoCheck => check'[c] # NoCheck
                          /\ check[c] = NoCheck => check'[c] = NoCheck
                          /\ tick[c] # None => tick[c] # 0 /\ tick'[c] = tick[c] - 1
    <3>1. \A c \in Chains : check[c] # NoCheck => [check[c] EXCEPT !.age = @ + 1] # NoCheck
      BY DEF NoCheck
    <3> QED BY <1>4, <3>1 DEF Time
  <2>2. CASE shown = "unknown"
    <3>1. PICK c \in Chains : check[c] # NoCheck /\ check[c].age = since
      BY <1>4, <2>2 DEF Time, Polled
    <3>2. since' = since + 1
      BY <1>0, <1>4, <3>1 DEF Time, CapAt
    <3> QED BY <1>4, <2>1, <2>2, <3>1, <3>2 DEF Time, Polled
  <2>3. CASE shown # "unknown"
    <3>1. PICK c \in Chains : tick[c] # None /\ (steady > ShownAge(c) => shown = trunk)
      BY <1>4, <2>3 DEF Time, Polled
    <3>2. tick'[c] # None /\ ShownAge(c)' = ShownAge(c) + 1
      BY <1>0, <2>1, <3>1 DEF ShownAge
    <3>3. steady' > ShownAge(c)' => steady > ShownAge(c)
      BY <1>0, <1>4, <3>1, <3>2 DEF Time, CapAt
    <3> QED BY <1>4, <2>3, <3>1, <3>2, <3>3 DEF Time, Polled
  <2> QED BY <2>2, <2>3
<1>5. ASSUME NEW d \in Chains, sipTickMsg(d) PROVE Polled'
  <2>1. check[d] = NoCheck /\ tick[d] = 0 /\ check'[d] = Running /\ tick'[d] = Period
    BY <1>5, InvNoTwoChecks DEF sipTickMsg, TakesTick, NextTick, Interval, NoTwoChecks
  <2>2. \A c \in Chains \ {d} : check'[c] = check[c] /\ tick'[c] = tick[c]
    BY <1>5 DEF sipTickMsg
  <2>3. CASE shown = "unknown"
    BY <1>5, <2>1, <2>2, <2>3 DEF sipTickMsg, Polled
  <2>4. CASE shown # "unknown"
    <3>1. PICK c \in Chains : tick[c] # None /\ (steady > ShownAge(c) => shown = trunk)
      BY <1>5, <2>4 DEF sipTickMsg, Polled
    <3>2. ShownAge(c)' = ShownAge(c) /\ tick'[c] # None
      BY <2>1, <2>2, <3>1, ChecksDiffer DEF ShownAge, Running
    <3> QED BY <1>5, <2>4, <3>1, <3>2 DEF sipTickMsg, Polled
  <2> QED BY <2>3, <2>4
<1>6. ASSUME NEW d \in Chains, checkSIPStatus(d) PROVE Polled'
  <2>1. check'[d].age = check[d].age /\ check[d] # NoCheck /\ check'[d] # NoCheck
    <3>1. \A saw \in Status : [check[d] EXCEPT !.saw = saw] # NoCheck
      BY <1>6 DEF checkSIPStatus, NoCheck, Status
    <3> QED BY <1>6, <3>1, ParsedIsStatus DEF checkSIPStatus, NoCheck
  <2>2. \A c \in Chains \ {d} : check'[c] = check[c]
    BY <1>6 DEF checkSIPStatus
  <2>3. \A c \in Chains : ShownAge(c)' = ShownAge(c)
    BY <1>6, <2>1, <2>2 DEF ShownAge, checkSIPStatus
  <2> QED BY <1>6, <2>1, <2>2, <2>3 DEF checkSIPStatus, Polled
<1>7. ASSUME NEW d \in Chains, sipStatusMsg(d) PROVE Polled'
  <2>1. check[d] # NoCheck /\ shown' = check[d].saw /\ check[d].saw \in Status /\ check'[d] = NoCheck
    BY <1>7 DEF sipStatusMsg, NoCheck, Status
  <2>2. shown' # "unknown"
    BY <2>1 DEF Status
  <2>3. ShownAge(d)' = check[d].age /\ tick'[d] # None
    BY <1>0, <1>7, <2>1 DEF sipStatusMsg, ShownAge, CheckHasTick
  <2>4. steady > check[d].age => check[d].saw = trunk
    BY <2>1 DEF SawTrunk
  <2> QED BY <1>7, <2>1, <2>2, <2>3, <2>4 DEF sipStatusMsg, Polled
<1>8. CASE UNCHANGED vars BY <1>8 DEF vars, Polled, ShownAge
<1> QED BY <1>1, <1>2, <1>3, <1>4, <1>5, <1>6, <1>7, <1>8 DEF Next

LEMMA NextMenuInv == MenuInv /\ [Next]_vars => MenuInv'
BY NextType, NextCheckHasTick, NextTicksEnd, NextOneTick, NextInOrder, NextSawTrunk, NextPolled
   DEF MenuInv

-----------------------------------------------------------------------------
\* The invariant holds however often the user leaves and returns.
THEOREM MenuInvariance == Spec => []MenuInv
BY InitMenuInv, NextMenuInv, PTL DEF Spec

\* Every variable keeps its type; in particular no tick is set beyond the period.
THEOREM MenuType == Spec => []TypeOK
<1>1. MenuInv => TypeOK
  BY DEF MenuInv
<1> QED BY <1>1, MenuInvariance, PTL

\* A result replaces the one of a later check only after a return within a period.
THEOREM ResultsComeInOrder == Spec => []ResultsInOrder
<1>1. MenuInv => ResultsInOrder
  BY DEF MenuInv, InOrder, ResultsInOrder
<1> QED BY <1>1, MenuInvariance, PTL

\* After a longer absence one chain of checks is left, the one of this menu.
THEOREM ChainsDoNotPileUp == Spec => []OneChain
<1>1. MenuInv => OneChain
  <2> SUFFICES ASSUME MenuInv, ~quick
               PROVE  ~(Cardinality({c \in Chains : tick[c] # None}) > 1)
    BY DEF OneChain
  <2> DEFINE Ticking == {c \in Chains : tick[c] # None}
  <2>1. CASE Ticking = {}
    BY <2>1, FS_EmptySet
  <2>2. CASE Ticking # {}
    <3>1. PICK c \in Ticking : TRUE
      BY <2>2
    <3>2. Ticking = {c}
      BY <3>1 DEF MenuInv, OneTick
    <3>3. Cardinality(Ticking) = 1
      BY <3>2, FS_Singleton
    <3> QED BY <3>3
  <2> QED BY <2>1, <2>2
<1> QED BY <1>1, MenuInvariance, PTL

\* The menu shows the trunk as it has been for a period and a check, for every period
\* and every longest check: whatever the user did, some chain polls on.
THEOREM MenuShowsTrunk == Spec => []TrunkIsShown
<1>1. MenuInv => TrunkIsShown
  <2> SUFFICES ASSUME MenuInv, inMenu, since > MaxCheck, steady > Period + MaxCheck
               PROVE  shown = trunk
    BY DEF TrunkIsShown
  <2>1. TypeOK /\ CheckHasTick /\ Polled
    BY DEF MenuInv
  <2>2. \A c \in Chains : check[c] # NoCheck => check[c].age \in 0..MaxCheck
    BY <2>1 DEF TypeOK
  <2>3. shown # "unknown"
    BY <2>1, <2>2 DEF Polled, TypeOK, Long
  <2>4. PICK c \in Chains : tick[c] # None /\ (steady > ShownAge(c) => shown = trunk)
    BY <2>1, <2>3 DEF Polled
  <2>5. ShownAge(c) \in 0..(Period + MaxCheck)
    BY <2>1, <2>2, <2>4 DEF ShownAge, TypeOK, None
  <2> QED BY <2>1, <2>4, <2>5 DEF TypeOK, Long
<1> QED BY <1>1, MenuInvariance, PTL

\* A chain never has two checks at once (menu.go:132-137 starts one at every tick and does not
\* look for the last): when its tick comes the check it started with the tick before is over
\* and its result delivered, as long as MaxCheck is below the period.
THEOREM ChecksDoNotOverlap == Spec => []NoTwoChecks
BY InvNoTwoChecks, MenuInvariance, PTL
=============================================================================
