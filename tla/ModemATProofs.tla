---------------------------- MODULE ModemATProofs ----------------------------
(***************************************************************************)
(* Proofs about ModemAT, for every length of modem_init, number of         *)
(* attempts and number of programs.                                        *)
(***************************************************************************)
EXTENDS ModemAT, FiniteSetTheorems, SequenceTheorems, TLAPS

-----------------------------------------------------------------------------
\* Where the steps of the driver are.

StepNames == {"drain", "ok", "ignored", "result", "talk", "close",
           "+++", "ATH", "ATZ", "ATE0", "ATX3", "CFG", "ATDT"}

LEMMA ConfigureShape ==
  /\ Len(Commands) \in Nat
  /\ ConfigureSteps \in Seq({"drain", "CFG", "ok"})
  /\ Len(ConfigureSteps) = 3 * Len(Commands)
<1>1. Len(Commands) \in Nat /\ \A i \in 1..Len(Commands) : Commands[i] = "CFG"
  BY ModemAssumption
<1>2. ASSUME NEW i \in 1..(3 * Len(Commands)), i % 3 = 2 PROVE Commands[(i + 1) \div 3] = "CFG"
  <2>1. (i + 1) \div 3 \in 1..Len(Commands)
    BY <1>1, <1>2
  <2> QED
    BY <1>1, <2>1
<1>3. \A i \in 1..(3 * Len(Commands)) : ConfigureSteps[i] \in {"drain", "CFG", "ok"}
  BY <1>1, <1>2 DEF ConfigureSteps
<1>4. ConfigureSteps = [i \in 1..(3 * Len(Commands)) |-> ConfigureSteps[i]]
  BY DEF ConfigureSteps
<1> QED
  BY <1>1, <1>3, <1>4

LEMMA ConfigureReads ==
  ASSUME NEW j \in 1..Len(Commands)
  PROVE  ConfigureSteps[3 * j] = "ok"
<1>1. Len(Commands) \in Nat
  BY ConfigureShape
<1>2. 3 * j \in 1..(3 * Len(Commands)) /\ (3 * j) % 3 = 0
  BY <1>1
<1> QED
  BY <1>2 DEF ConfigureSteps

\* u is s, of length m, followed by t, of length n.
Joins(u, s, m, t, n) ==
  /\ \A i \in 1..m : u[i] = s[i]
  /\ \A i \in 1..n : u[m + i] = t[i]

LEMMA Joined ==
  ASSUME NEW S, NEW s \in Seq(S), NEW t \in Seq(S), NEW m, NEW n, Len(s) = m, Len(t) = n
  PROVE  s \o t \in Seq(S) /\ Len(s \o t) = m + n /\ Joins(s \o t, s, m, t, n)
<1>1. s \o t \in Seq(S) /\ Len(s \o t) = Len(s) + Len(t)
  OBVIOUS
<1>2. ASSUME NEW i \in 1..Len(s) PROVE (s \o t)[i] = s[i]
  OBVIOUS
<1>3. ASSUME NEW i \in 1..Len(t) PROVE (s \o t)[Len(s) + i] = t[i]
  OBVIOUS
<1>4. Joins(s \o t, s, Len(s), t, Len(t))
  BY <1>2, <1>3, Zenon DEF Joins
<1> QED
  BY <1>1, <1>4, Zenon

LEMMA ScriptParts ==
  LET k == Len(ConfigureSteps) IN
    /\ k \in Nat
    /\ ResultAt = k + 17 /\ TalkAt = k + 18 /\ HangupAt = k + 19 /\ CloseAt = k + 22
    /\ \A i \in 1..14 : Script[i] = InitSteps[i]
    /\ \A i \in 1..k : Script[14 + i] = ConfigureSteps[i]
    /\ Script[k + 15] = "drain" /\ Script[k + 16] = "ATDT" /\ Script[k + 17] = "result"
    /\ Script[k + 18] = "talk" /\ Script[k + 19] = "+++" /\ Script[k + 20] = "ATH"
    /\ Script[k + 21] = "ignored" /\ Script[k + 22] = "close"
<1> DEFINE k == Len(ConfigureSteps)
           T == <<"talk">>
           E == <<"close">>
           S1 == InitSteps \o ConfigureSteps
           S2 == S1 \o DialSteps
           S3 == S2 \o T
           S4 == S3 \o HangupSteps
           S5 == S4 \o E
<1>1. InitSteps \in Seq(StepNames) /\ Len(InitSteps) = 14
  BY DEF InitSteps, StepNames
<1>2. ConfigureSteps \in Seq(StepNames) /\ k \in Nat
      /\ \A i \in 1..k : ConfigureSteps[i] \in {"drain", "CFG", "ok"}
  BY ConfigureShape, SeqMonotonic DEF StepNames
<1>3. DialSteps \in Seq(StepNames) /\ Len(DialSteps) = 3
      /\ DialSteps[1] = "drain" /\ DialSteps[2] = "ATDT" /\ DialSteps[3] = "result"
  BY DEF DialSteps, StepNames
<1>4. HangupSteps \in Seq(StepNames) /\ Len(HangupSteps) = 3
      /\ HangupSteps[1] = "+++" /\ HangupSteps[2] = "ATH" /\ HangupSteps[3] = "ignored"
  BY DEF HangupSteps, StepNames
<1>5. T \in Seq(StepNames) /\ Len(T) = 1 /\ T[1] = "talk"
  BY DEF StepNames
<1>6. E \in Seq(StepNames) /\ Len(E) = 1 /\ E[1] = "close"
  BY DEF StepNames
<1>7. Script = S5 /\ ResultAt = Len(S2)
  BY DEF Script, ResultAt
<1> HIDE DEF k, T, E, S1, S2, S3, S4, S5
<1>11. S1 \in Seq(StepNames) /\ Len(S1) = 14 + k /\ Joins(S1, InitSteps, 14, ConfigureSteps, k)
  BY <1>1, <1>2, Joined DEF S1, k
<1>12. S2 \in Seq(StepNames) /\ Len(S2) = 17 + k /\ Joins(S2, S1, 14 + k, DialSteps, 3)
  <2>1. S2 \in Seq(StepNames) /\ Len(S2) = (14 + k) + 3 /\ Joins(S2, S1, 14 + k, DialSteps, 3)
    BY <1>3, <1>11, Joined DEF S2
  <2> QED
    BY <1>2, <2>1
<1>13. S3 \in Seq(StepNames) /\ Len(S3) = 18 + k /\ Joins(S3, S2, 17 + k, T, 1)
  <2>1. S3 \in Seq(StepNames) /\ Len(S3) = (17 + k) + 1 /\ Joins(S3, S2, 17 + k, T, 1)
    BY <1>5, <1>12, Joined DEF S3
  <2> QED
    BY <1>2, <2>1
<1>14. S4 \in Seq(StepNames) /\ Len(S4) = 21 + k /\ Joins(S4, S3, 18 + k, HangupSteps, 3)
  <2>1. S4 \in Seq(StepNames) /\ Len(S4) = (18 + k) + 3 /\ Joins(S4, S3, 18 + k, HangupSteps, 3)
    BY <1>4, <1>13, Joined DEF S4
  <2> QED
    BY <1>2, <2>1
<1>15. S5 \in Seq(StepNames) /\ Len(S5) = 22 + k /\ Joins(S5, S4, 21 + k, E, 1)
  <2>1. S5 \in Seq(StepNames) /\ Len(S5) = (21 + k) + 1 /\ Joins(S5, S4, 21 + k, E, 1)
    BY <1>6, <1>14, Joined DEF S5
  <2> QED
    BY <1>2, <2>1
<1>16. ResultAt = k + 17 /\ TalkAt = k + 18 /\ HangupAt = k + 19 /\ CloseAt = k + 22
  BY <1>2, <1>7, <1>12, <1>15 DEF TalkAt, HangupAt, CloseAt
<1>17. /\ \A i \in 1..14 : S5[i] = InitSteps[i]
       /\ \A i \in 1..k : S5[14 + i] = ConfigureSteps[i]
       /\ S5[k + 15] = DialSteps[1] /\ S5[k + 16] = DialSteps[2] /\ S5[k + 17] = DialSteps[3]
       /\ S5[k + 18] = T[1] /\ S5[k + 22] = E[1]
       /\ S5[k + 19] = HangupSteps[1] /\ S5[k + 20] = HangupSteps[2] /\ S5[k + 21] = HangupSteps[3]
  <2>1. /\ k \in Nat /\ Joins(S1, InitSteps, 14, ConfigureSteps, k)
        /\ Joins(S2, S1, 14 + k, DialSteps, 3) /\ Joins(S3, S2, 17 + k, T, 1)
        /\ Joins(S4, S3, 18 + k, HangupSteps, 3) /\ Joins(S5, S4, 21 + k, E, 1)
    BY <1>2, <1>11, <1>12, <1>13, <1>14, <1>15
  <2>2. ASSUME NEW i \in 1..(14 + k) PROVE S5[i] = S1[i]
    BY ONLY <2>1 DEF Joins
  <2> QED
    BY ONLY <2>1, <2>2 DEF Joins
<1> QED
  BY <1>2, <1>3, <1>4, <1>5, <1>6, <1>7, <1>16, <1>17 DEF k

LEMMA ScriptShape ==
  /\ ResultAt \in Nat /\ ResultAt >= 17
  /\ TalkAt = ResultAt + 1 /\ HangupAt = ResultAt + 2 /\ CloseAt = ResultAt + 5
  /\ \A i \in 1..14 : Script[i] = InitSteps[i]
  /\ \A i \in 15..(ResultAt - 3) : Script[i] \in {"drain", "CFG", "ok"}
  /\ Script[ResultAt - 2] = "drain" /\ Script[ResultAt - 1] = "ATDT" /\ Script[ResultAt] = "result"
  /\ Script[TalkAt] = "talk" /\ Script[HangupAt] = "+++" /\ Script[HangupAt + 1] = "ATH"
  /\ Script[HangupAt + 2] = "ignored" /\ Script[CloseAt] = "close"
<1> DEFINE k == Len(ConfigureSteps)
<1>1. /\ k \in Nat
      /\ ResultAt = k + 17 /\ TalkAt = k + 18 /\ HangupAt = k + 19 /\ CloseAt = k + 22
      /\ \A i \in 1..14 : Script[i] = InitSteps[i]
      /\ \A i \in 1..k : Script[14 + i] = ConfigureSteps[i]
  BY ScriptParts
<1>2. /\ Script[k + 15] = "drain" /\ Script[k + 16] = "ATDT" /\ Script[k + 17] = "result"
      /\ Script[k + 18] = "talk" /\ Script[k + 19] = "+++" /\ Script[k + 20] = "ATH"
      /\ Script[k + 21] = "ignored" /\ Script[k + 22] = "close"
  BY ScriptParts
<1>3. \A i \in 1..k : ConfigureSteps[i] \in {"drain", "CFG", "ok"}
  BY ConfigureShape
<1> HIDE DEF k
<1>4. ASSUME NEW i \in 15..(ResultAt - 3) PROVE Script[i] \in {"drain", "CFG", "ok"}
  <2>1. i - 14 \in 1..k /\ 14 + (i - 14) = i
    BY <1>1
  <2>2. Script[14 + (i - 14)] = ConfigureSteps[i - 14]
    BY <1>1, <2>1
  <2> QED
    BY <1>3, <2>1, <2>2
<1> QED
  BY <1>1, <1>2, <1>4

LEMMA Places ==
  ASSUME NEW n \in 1..CloseAt
  PROVE  /\ Script[n] = "ATDT" <=> n = ResultAt - 1
         /\ Script[n] = "result" <=> n = ResultAt
         /\ Script[n] = "talk" <=> n = TalkAt
         /\ Script[n] = "+++" <=> n \in {2, HangupAt}
         /\ Script[n] = "ATH" <=> n \in {4, HangupAt + 1}
         /\ Script[n] = "ignored" <=> n \in {5, HangupAt + 2}
         /\ Script[n] = "ATZ" <=> n = 7
         /\ Script[n] = "close" <=> n = CloseAt
         /\ Script[n] = "ok" => n \in 8..(ResultAt - 3)
         /\ Script[n] = "drain" => n \in 1..(ResultAt - 2)
         /\ Script[n] \in {"ATE0", "ATX3", "CFG"} => n \in 10..(ResultAt - 3)
         /\ n \in {1, 3, 6, ResultAt - 2} => Script[n] = "drain"
         /\ n \in {8, 11} => Script[n] = "ok"
<1>1. /\ InitSteps[1] = "drain" /\ InitSteps[2] = "+++" /\ InitSteps[3] = "drain"
      /\ InitSteps[4] = "ATH" /\ InitSteps[5] = "ignored" /\ InitSteps[6] = "drain"
      /\ InitSteps[7] = "ATZ" /\ InitSteps[8] = "ok" /\ InitSteps[9] = "drain"
      /\ InitSteps[10] = "ATE0" /\ InitSteps[11] = "ok" /\ InitSteps[12] = "ATX3"
      /\ InitSteps[13] = "ok" /\ InitSteps[14] = "drain"
  BY DEF InitSteps
<1>2. \/ n \in 1..14 \/ n \in 15..(ResultAt - 3)
      \/ n \in {ResultAt - 2, ResultAt - 1, ResultAt, TalkAt, HangupAt, HangupAt + 1,
                HangupAt + 2, CloseAt}
  BY ScriptShape
<1>3. CASE n \in 1..14
  <2>1. Script[n] = InitSteps[n] /\ n \notin {HangupAt, HangupAt + 1, HangupAt + 2, CloseAt, TalkAt}
        /\ n < ResultAt - 2
    BY <1>3, ScriptShape
  <2> HIDE DEF InitSteps
  <2> QED
    BY <1>1, <1>3, <2>1, ScriptShape
<1>4. CASE n \in 15..(ResultAt - 3)
  BY <1>4, ScriptShape
<1>5. CASE n \notin 1..(ResultAt - 3)
  BY <1>2, <1>5, ScriptShape
<1> QED
  BY <1>2, <1>3, <1>4, <1>5, ScriptShape

-----------------------------------------------------------------------------
\* How many answers are due, and how many are there.

LEMMA DueFinite ==
  ASSUME NEW n \in Nat
  PROVE  IsFiniteSet(Due(n)) /\ Cardinality(Due(n)) \in Nat
<1>1. IsFiniteSet(n..ResultAt)
  BY ScriptShape, FS_Interval
<1>2. Due(n) \in SUBSET (n..ResultAt)
  BY DEF Due
<1> QED
  BY <1>1, <1>2, FS_Subset, FS_CardinalityType

\* A step that reads an answer is one that is due.
LEMMA DueAfter ==
  ASSUME NEW n \in 1..ResultAt
  PROVE  Cardinality(Due(n)) = IF Script[n] = "ok" THEN Cardinality(Due(n + 1)) + 1
                               ELSE Cardinality(Due(n + 1))
<1>1. n \in Nat /\ n + 1 \in Nat /\ ResultAt \in Nat
  BY ScriptShape
<1>2. Due(n) = IF Script[n] = "ok" THEN Due(n + 1) \union {n} ELSE Due(n + 1)
  BY <1>1 DEF Due
<1>3. n \notin Due(n + 1)
  BY <1>1 DEF Due
<1> QED
  BY <1>1, <1>2, <1>3, DueFinite, FS_AddElement

\* Init reads three answers and Configure one for each of its commands.
LEMMA DueAtStart ==
  /\ Len(Commands) \in Nat
  /\ Cardinality(Due(1)) >= 3 + Len(Commands)
<1> DEFINE m == 3 + Len(Commands)
           f == [j \in 1..m |-> IF j = 1 THEN 8 ELSE IF j = 2 THEN 11 ELSE IF j = 3 THEN 13
                                ELSE 14 + 3 * (j - 3)]
<1>1. /\ ResultAt \in Nat /\ ResultAt = 17 + 3 * Len(Commands) /\ Len(Commands) \in Nat
      /\ Len(ConfigureSteps) = 3 * Len(Commands)
  BY ScriptParts, ConfigureShape
<1>2. Script[8] = "ok" /\ Script[11] = "ok" /\ Script[13] = "ok"
  BY ScriptShape DEF InitSteps
<1>3. ASSUME NEW j \in 1..m PROVE f[j] \in Due(1)
  <2>1. CASE j \in 1..3
    BY <1>1, <1>2, <2>1 DEF Due
  <2>2. CASE j \in 4..m
    <3>1. j - 3 \in 1..Len(Commands) /\ f[j] = 14 + 3 * (j - 3)
      BY <1>1, <2>2
    <3>2. Script[14 + 3 * (j - 3)] = "ok"
      <4>1. 3 * (j - 3) \in 1..Len(ConfigureSteps)
        BY <1>1, <3>1
      <4> QED
        BY <3>1, <4>1, ScriptParts, ConfigureReads
    <3>3. 14 + 3 * (j - 3) \in 1..ResultAt
      BY <1>1, <3>1
    <3> QED
      BY <3>1, <3>2, <3>3 DEF Due
  <2> QED
    BY <1>1, <2>1, <2>2
<1>4. \A i, j \in 1..m : f[i] = f[j] => i = j
  BY <1>1
<1>5. f \in Injection(1..m, Due(1))
  BY <1>3, <1>4 DEF Injection, IsInjective
<1>6. IsFiniteSet(1..m) /\ Cardinality(1..m) = m
  <2>1. m \in Nat
    BY <1>1
  <2> HIDE DEF m
  <2>2. IsFiniteSet(1..m) /\ Cardinality(1..m) = IF 1 > m THEN 0 ELSE m - 1 + 1
    BY <2>1, FS_Interval
  <2>3. m >= 1
    BY <1>1 DEF m
  <2> QED
    BY <2>1, <2>2, <2>3
<1>7. Cardinality(1..m) <= Cardinality(Due(1))
  BY <1>5, <1>6, DueFinite, FS_Injection
<1> QED
  BY <1>1, <1>6, <1>7

LEMMA NothingDue == Cardinality(Due(ResultAt - 2)) = 0
<1>1. ResultAt \in Nat /\ ResultAt >= 17 /\ CloseAt = ResultAt + 5
  BY ScriptShape
<1>2. \A i \in (ResultAt - 2)..ResultAt : Script[i] # "ok"
  BY <1>1, ScriptShape
<1>3. Due(ResultAt - 2) = {}
  BY <1>2 DEF Due
<1> QED
  BY <1>3, FS_EmptySet

LEMMA OKsFinite ==
  ASSUME NEW S, NEW s \in Seq(S)
  PROVE  IsFiniteSet(OKs(s)) /\ Cardinality(OKs(s)) \in Nat
<1>1. Len(s) \in Nat
  OBVIOUS
<1>2. IsFiniteSet(1..Len(s))
  BY <1>1, FS_Interval
<1>3. OKs(s) \in SUBSET (1..Len(s))
  BY DEF OKs
<1> QED
  BY <1>2, <1>3, FS_Subset, FS_CardinalityType

LEMMA NoOKs == Cardinality(OKs(<<>>)) = 0
<1>1. OKs(<<>>) = {}
  BY DEF OKs
<1> QED
  BY <1>1, FS_EmptySet

LEMMA OKsAppend ==
  ASSUME NEW S, NEW s \in Seq(S), NEW a \in S
  PROVE  Cardinality(OKs(Append(s, a))) = IF a.says = "OK" THEN Cardinality(OKs(s)) + 1
                                          ELSE Cardinality(OKs(s))
<1> DEFINE t == Append(s, a)
<1>1. /\ Len(s) \in Nat /\ Len(t) = Len(s) + 1 /\ t[Len(s) + 1] = a
      /\ \A i \in 1..Len(s) : t[i] = s[i]
  BY AppendProperties
<1> HIDE DEF t
<1>2. OKs(t) = IF a.says = "OK" THEN OKs(s) \union {Len(s) + 1} ELSE OKs(s)
  BY <1>1 DEF OKs
<1>3. Len(s) + 1 \notin OKs(s)
  BY <1>1 DEF OKs
<1> QED
  BY <1>2, <1>3, OKsFinite, FS_AddElement DEF t

\* Reading takes what comes first; with an OK in it, fewer are left.
LEMMA OKsRead ==
  ASSUME NEW S, NEW s \in Seq(S), NEW n \in 1..Len(s)
  PROVE  LET rest == Cardinality(OKs(SubSeq(s, n + 1, Len(s)))) IN
           /\ rest \in Nat /\ rest <= Cardinality(OKs(s))
           /\ (\E k \in 1..n : s[k].says = "OK") => rest + 1 <= Cardinality(OKs(s))
<1> DEFINE t == SubSeq(s, n + 1, Len(s))
           f == [i \in OKs(t) |-> i + n]
<1>1. /\ Len(s) \in Nat /\ Len(t) = Len(s) - n /\ t \in Seq(S)
      /\ \A i \in 1..(Len(s) - n) : t[i] = s[n + i]
  OBVIOUS
<1> HIDE DEF t
<1>2. Cardinality(OKs(t)) \in Nat /\ Cardinality(OKs(s)) \in Nat
  BY <1>1, OKsFinite
<1>3. ASSUME NEW i \in OKs(t) PROVE i \in Nat /\ i + n \in OKs(s)
  BY <1>1 DEF OKs
<1>4. f \in Injection(OKs(t), OKs(s))
  BY <1>3 DEF Injection, IsInjective
<1>5. Cardinality(OKs(t)) <= Cardinality(OKs(s))
  BY <1>4, OKsFinite, FS_Injection
<1>6. ASSUME NEW k \in 1..n, s[k].says = "OK"
      PROVE  Cardinality(OKs(t)) + 1 <= Cardinality(OKs(s))
  <2>1. f \in Injection(OKs(t), OKs(s) \ {k})
    <3>1. ASSUME NEW i \in OKs(t) PROVE i + n \in OKs(s) \ {k}
      <4>1. i >= 1
        BY <1>1 DEF OKs
      <4> QED
        BY <1>3, <4>1
    <3> QED
      BY <1>3, <3>1 DEF Injection, IsInjective
  <2>2. k \in OKs(s)
    BY <1>1, <1>6 DEF OKs
  <2>3. IsFiniteSet(OKs(s) \ {k}) /\ Cardinality(OKs(s) \ {k}) = Cardinality(OKs(s)) - 1
    BY <2>2, OKsFinite, FS_RemoveElement
  <2>4. Cardinality(OKs(t)) <= Cardinality(OKs(s)) - 1
    BY <2>1, <2>3, FS_Injection
  <2> QED
    BY <1>2, <2>4
<1> QED
  BY <1>2, <1>5, <1>6 DEF t

-----------------------------------------------------------------------------
\* Types.

Orders == [cmd : {"+++", "ATH", "ATZ", "ATE0", "ATX3", "CFG", "ATDT", "CR"}, call : 0..calls]

Results == [is : {"none", "TIMEOUT", "CONNECT", "BUSY", "NO_CARRIER", "NO_DIALTONE", "ERROR"},
            of : SUBSET (0..calls)]

\* The program and its place.
DriverType ==
  /\ program \in {"none", "hub", "probe"} /\ pc \in 1..CloseAt
  /\ attempt \in 1..MaxRetries /\ started \in 0..Programs

\* The modem.
ModemType ==
  /\ mode \in {"command", "dialing", "online", "escaped"}
  /\ call \in 0..calls /\ (call = 0 <=> mode = "command") /\ stopped \in BOOLEAN

LEMMA TypeParts ==
  TypeOK <=> /\ DriverType /\ ModemType /\ result \in Results
             /\ toModem \in Seq(Orders) /\ toHost \in Seq(Answers)
             /\ calls \in 0..(Programs * MaxRetries)
BY DEF TypeOK, DriverType, ModemType, Results, Orders, CloseAt

LEMMA ProductBound ==
  /\ MaxRetries \in Nat /\ Programs \in Nat /\ Programs * MaxRetries \in Nat
  /\ \A s \in 0..Programs : s * MaxRetries \in Nat /\ s * MaxRetries <= Programs * MaxRetries
  /\ \A s \in Nat : (s - 1) * MaxRetries + MaxRetries = s * MaxRetries
<1>1. MaxRetries \in Nat /\ Programs \in Nat
  BY ModemAssumption
<1>2. Programs * MaxRetries \in Nat
  BY <1>1
<1>3. ASSUME NEW s \in 0..Programs
      PROVE  s * MaxRetries \in Nat /\ s * MaxRetries <= Programs * MaxRetries
  <2>1. s \in Nat /\ Programs - s \in Nat
    BY <1>1
  <2>2. s * MaxRetries \in Nat /\ (Programs - s) * MaxRetries \in Nat
    BY <1>1, <2>1
  <2>3. s * MaxRetries + (Programs - s) * MaxRetries = Programs * MaxRetries
    BY <1>1, <2>1
  <2> QED
    BY <1>2, <2>2, <2>3
<1>4. ASSUME NEW s \in Nat PROVE (s - 1) * MaxRetries + MaxRetries = s * MaxRetries
  BY <1>1
<1> QED
  BY <1>1, <1>2, <1>3, <1>4

\* An attempt sends one ATDT, when it comes there.
LEMMA CountsCalls ==
  ASSUME TypeOK, CallsCounted, Next, DriverType'
  PROVE  CallsCounted' /\ calls' \in 0..(Programs * MaxRetries)
<1>1. /\ DriverType /\ calls \in Nat
      /\ ResultAt \in Nat /\ ResultAt >= 17 /\ CloseAt = ResultAt + 5
  BY TypeParts, ScriptShape, ProductBound
<1> DEFINE before == started * MaxRetries
           upTo == (started - 1) * MaxRetries
<1>2. /\ before \in Nat /\ upTo + MaxRetries = before /\ upTo \in Int
      /\ MaxRetries \in Nat /\ MaxRetries >= 1
  BY <1>1, ProductBound, ModemAssumption DEF DriverType
<1>3. CallsCounted'
  <2>1. CASE Start
    <3>1. started' - 1 = started
      BY <1>1, <2>1 DEF Start, DriverType
    <3>2. (started' - 1) * MaxRetries = before
      BY <3>1
    <3>3. calls <= before
      BY <2>1 DEF Start, CallsCounted
    <3>4. calls' = calls /\ program' # "none" /\ attempt' = 1 /\ started' > 0 /\ pc' = 1
      BY <1>1, <2>1 DEF Start, DriverType
    <3> HIDE DEF before, upTo
    <3> QED
      BY <1>1, <1>2, <3>2, <3>3, <3>4 DEF CallsCounted
  <2>2. CASE program = "none" /\ program' = "none" /\ UNCHANGED <<calls, started>>
    BY <2>2 DEF CallsCounted
  <2>3. CASE program # "none" /\ UNCHANGED <<calls, started>> /\ program' = "none"
    <3>1. calls <= upTo + attempt /\ attempt <= MaxRetries
      BY <1>1, <1>2, <2>3 DEF CallsCounted, DriverType
    <3>2. calls' = calls /\ started' * MaxRetries = before
      BY <2>3
    <3> HIDE DEF before, upTo
    <3> QED
      BY <1>1, <1>2, <2>3, <3>1, <3>2 DEF CallsCounted, DriverType
  <2>4. CASE program # "none" /\ UNCHANGED <<calls, started, program, attempt>>
             /\ (pc' < ResultAt => pc < ResultAt)
    <3>1. started > 0 /\ calls + (IF pc < ResultAt THEN 1 ELSE 0) <= upTo + attempt
      BY <2>4 DEF CallsCounted
    <3>2. (started' - 1) * MaxRetries = upTo
      BY <2>4
    <3> HIDE DEF before, upTo
    <3> QED
      BY <1>1, <1>2, <2>4, <3>1, <3>2 DEF CallsCounted, DriverType
  <2>5. CASE program # "none" /\ UNCHANGED <<started, program>>
             /\ \/ UNCHANGED calls /\ attempt' = attempt + 1
                \/ calls' = calls + 1 /\ attempt' = attempt /\ pc < ResultAt /\ pc' >= ResultAt
    <3>1. started > 0 /\ calls + (IF pc < ResultAt THEN 1 ELSE 0) <= upTo + attempt
      BY <2>5 DEF CallsCounted
    <3>2. (started' - 1) * MaxRetries = upTo
      BY <2>5
    <3> HIDE DEF before, upTo
    <3> QED
      BY <1>1, <1>2, <2>5, <3>1, <3>2 DEF CallsCounted, DriverType
  <2>6. CASE Dies
    BY <2>2, <2>3, <2>6 DEF Dies
  <2>7. CASE Drain \/ ReadOK \/ ReadIgnored \/ ReadResult
    <3>1. program # "none" /\ UNCHANGED <<calls, started, program, attempt>>
      BY <2>7 DEF Drain, ReadOK, ReadIgnored, ReadResult, ReadsUntil, GoTo, Step
    <3>2. pc' \in {pc + 1, CloseAt, TalkAt, HangupAt}
      BY <2>7 DEF Drain, ReadOK, ReadIgnored, ReadResult, GoTo, AfterTimeout, Failed
    <3> QED
      BY <1>1, <2>4, <3>1, <3>2, ScriptShape DEF DriverType
  <2>8. CASE Write
    <3>1. program # "none" /\ UNCHANGED <<started, program, attempt>>
      BY <2>8 DEF Write, GoTo, Step
    <3>2. pc' \in {pc + 1, CloseAt, HangupAt}
      BY <2>8 DEF Write, GoTo, AfterError
    <3>3. Step = "ATDT" => pc = ResultAt - 1
      BY <1>1, <3>1, Places DEF Step, DriverType
    <3>4. calls' = IF Step = "ATDT" THEN calls + 1 ELSE calls
      BY <2>8 DEF Write
    <3> QED
      BY <1>1, <2>4, <2>5, <3>1, <3>2, <3>3, <3>4, ScriptShape DEF DriverType
  <2>9. CASE Talk \/ TalkEnds
    <3>1. program # "none" /\ UNCHANGED <<calls, started, program, attempt>>
      BY <2>9 DEF Talk, TalkEnds, GoTo, Step, driverVars
    <3>2. pc' \in {pc, CloseAt, HangupAt}
      BY <2>9 DEF Talk, TalkEnds, GoTo, driverVars
    <3> QED
      BY <1>1, <2>4, <3>1, <3>2, ScriptShape DEF DriverType
  <2>10. CASE Close
    <3>1. program # "none" /\ UNCHANGED <<calls, started>>
      BY <2>10 DEF Close, Step
    <3> QED
      BY <2>3, <2>5, <2>10, <3>1 DEF Close
  <2>11. CASE UNCHANGED <<driverVars, calls>>
    BY <2>11 DEF driverVars, CallsCounted
  <2>12. Modem \/ Line \/ Stops => UNCHANGED <<driverVars, calls>>
    BY DEF Modem, Line, Stops
  <2> QED
    BY <2>1, <2>6, <2>7, <2>8, <2>9, <2>10, <2>11, <2>12 DEF Next, Driver
<1>4. calls' \in Nat
  BY <1>1 DEF Next, Start, Dies, Driver, Drain, Write, ReadOK, ReadIgnored, ReadResult, ReadsUntil,
    Close, Talk, TalkEnds, Modem, Line, Stops
<1>5. started' \in Nat /\ started' \in 0..Programs /\ attempt' \in 1..MaxRetries
  BY <1>2, ProductBound DEF DriverType
<1>6. started' * MaxRetries <= Programs * MaxRetries
      /\ (started' - 1) * MaxRetries + MaxRetries = started' * MaxRetries
      /\ started' * MaxRetries \in Nat
  BY <1>5, ProductBound
<1>7. calls' <= started' * MaxRetries
  <2>1. CASE program' = "none"
    BY <1>3, <2>1 DEF CallsCounted
  <2>2. CASE program' # "none"
    <3>1. calls' + (IF pc' < ResultAt THEN 1 ELSE 0) <= (started' - 1) * MaxRetries + attempt'
      BY <1>3, <2>2 DEF CallsCounted
    <3>2. PICK c \in Nat : c = calls'
      BY <1>4
    <3>3. PICK a \in Nat : a = attempt' /\ a <= MaxRetries
      BY <1>2, <1>5
    <3>4. PICK t \in Int : t = (started' - 1) * MaxRetries
      <4>1. (started' - 1) * MaxRetries \in Int
        BY <1>5, ModemAssumption
      <4> QED
        BY <4>1
    <3>5. PICK m \in Nat : m = MaxRetries
      BY <1>2
    <3>6. c <= t + a
      BY <3>1, <3>2, <3>3, <3>4
    <3>7. a <= m
      BY <3>3, <3>5
    <3>8. c <= t + m
      BY ONLY <3>6, <3>7
    <3> QED
      BY <1>6, <3>2, <3>4, <3>5, <3>8
  <2> QED
    BY <2>1, <2>2
<1> QED
  BY <1>3, <1>4, <1>6, <1>7, ProductBound

LEMMA DriverTypes ==
  ASSUME TypeOK, Next
  PROVE  DriverType'
<1>1. DriverType
  BY TypeParts
<1>2. /\ ResultAt \in Nat /\ ResultAt >= 17 /\ CloseAt = ResultAt + 5
      /\ {1, CloseAt, TalkAt, HangupAt} \subseteq 1..CloseAt
  BY ScriptShape
<1>3. ASSUME program # "none", Step # "close" PROVE pc + 1 \in 1..CloseAt
  <2>1. pc # CloseAt
    BY <1>1, <1>2, <1>3, ScriptShape DEF Step
  <2> QED
    BY <1>1, <1>2, <2>1 DEF DriverType
<1>4. CASE Drain \/ Write \/ ReadOK \/ ReadIgnored \/ ReadResult \/ Talk \/ TalkEnds
  <2>1. program # "none" /\ Step # "close"
    BY <1>4 DEF Drain, Write, ReadOK, ReadIgnored, ReadResult, Talk, TalkEnds, Step
  <2>2. UNCHANGED <<program, attempt, started>>
    BY <1>4 DEF Drain, Write, ReadOK, ReadIgnored, ReadResult, Talk, TalkEnds, GoTo, driverVars
  <2>3. pc' \in {pc, pc + 1, CloseAt, TalkAt, HangupAt}
    BY <1>4 DEF Drain, Write, ReadOK, ReadIgnored, ReadResult, Talk, TalkEnds, GoTo, driverVars,
      AfterTimeout, AfterError, Failed
  <2> QED
    BY <1>1, <1>2, <1>3, <2>1, <2>2, <2>3 DEF DriverType
<1>5. CASE Start \/ Dies
  <2>1. pc' = 1 /\ program' \in {"none", "hub", "probe"}
    BY <1>5 DEF Start, Dies
  <2>2. attempt' \in 1..MaxRetries
    BY <1>1, <1>5, ModemAssumption DEF Start, Dies, DriverType
  <2>3. started' \in 0..Programs
    BY <1>1, <1>5, ModemAssumption DEF Start, Dies, DriverType
  <2> QED
    BY <1>2, <2>1, <2>2, <2>3 DEF DriverType
<1>6. CASE Close
  <2>1. pc' = 1 /\ program' \in {program, "none"} /\ started' = started
    BY <1>6 DEF Close
  <2>2. attempt' \in 1..MaxRetries
    BY <1>1, <1>6, ModemAssumption DEF Close, DriverType, MoreAttempts
  <2> QED
    BY <1>1, <1>2, <2>1, <2>2 DEF DriverType
<1>7. CASE Modem \/ Line \/ Stops
  BY <1>1, <1>7 DEF Modem, Line, Stops, driverVars, DriverType
<1> QED
  BY <1>4, <1>5, <1>6, <1>7 DEF Next, Driver

\* What the modem answers, and what becomes of it.
LEMMA HeadOrder ==
  ASSUME toModem \in Seq(Orders), toModem # <<>>
  PROVE  /\ Head(toModem) = toModem[1] /\ Head(toModem) \in Orders
         /\ Len(toModem) \in Nat /\ Len(toModem) >= 1
BY EmptySeq

LEMMA ModemTypes ==
  ASSUME TypeOK, Numbered, Next, calls' \in Nat
  PROVE  ModemType'
<1>1. ModemType /\ toModem \in Seq(Orders) /\ calls \in Nat
  BY TypeParts, ProductBound
<1>2. calls' >= calls
  BY <1>1 DEF Next, Start, Dies, Driver, Drain, Write, ReadOK, ReadIgnored, ReadResult, ReadsUntil,
    Close, Talk, TalkEnds, Modem, Line, Stops
<1>3. CASE UNCHANGED modemVars
  BY <1>1, <1>2, <1>3 DEF ModemType, modemVars
<1>4. CASE Modem \/ Line
  <2>1. UNCHANGED stopped \/ UNCHANGED modemVars
    BY <1>4 DEF Modem, Line, Abort, Data, Command, Hook
  <2>2. ASSUME ~ UNCHANGED modemVars
        PROVE  \/ mode' = "command" /\ call' = 0
               \/ mode' \in {"escaped", "online"} /\ mode # "command" /\ call' = call
               \/ mode' = "dialing" /\ call' \in 1..calls
    <3>1. CASE Modem
      <4>1. CASE Abort \/ Data
        BY <2>2, <4>1 DEF Abort, Data, Hook
      <4>2. CASE Command
        <5>1. Head(toModem).cmd = "ATDT" => Head(toModem).call \in 1..calls
          <6>1. /\ Head(toModem) = toModem[1] /\ Head(toModem) \in Orders
                /\ Len(toModem) \in Nat /\ Len(toModem) >= 1
            BY <1>1, <4>2, HeadOrder DEF Command
          <6>2. Head(toModem).cmd = "ATDT" => 1 \in Dials
            BY <6>1 DEF Dials
          <6>3. Head(toModem).call \in 0..calls
            BY <6>1 DEF Orders
          <6> QED
            BY <1>1, <6>1, <6>2, <6>3 DEF Numbered
        <5> QED
          BY <2>2, <4>2, <5>1 DEF Command, Hook
      <4> QED
        BY <3>1, <4>1, <4>2 DEF Modem
    <3>2. CASE Line
      BY <2>2, <3>2 DEF Line, Hook
    <3> QED
      BY <1>4, <3>1, <3>2
  <2> QED
    BY <1>1, <1>2, <1>3, <2>1, <2>2 DEF ModemType
<1>5. CASE Stops
  BY <1>1, <1>2, <1>5 DEF Stops, ModemType
<1> QED
  BY <1>3, <1>4, <1>5 DEF Next, Start, Dies, Driver, Drain, Write, ReadOK, ReadIgnored, ReadResult,
    ReadsUntil, Close, Talk, TalkEnds

LEMMA QueueTypes ==
  ASSUME TypeOK, Next, calls' \in Nat
  PROVE  toModem' \in Seq(Orders)' /\ toHost' \in Seq(Answers)'
<1>1. /\ ModemType /\ toModem \in Seq(Orders) /\ toHost \in Seq(Answers) /\ calls \in Nat
  BY TypeParts, ProductBound
<1>2. calls' >= calls
  BY <1>1 DEF Next, Start, Dies, Driver, Drain, Write, ReadOK, ReadIgnored, ReadResult, ReadsUntil,
    Close, Talk, TalkEnds, Modem, Line, Stops
<1>3. Orders \subseteq Orders' /\ Answers \subseteq Answers'
  BY <1>1, <1>2 DEF Orders, Answers
<1>4. toModem \in Seq(Orders)' /\ toHost \in Seq(Answers)'
  BY <1>1, <1>3, SeqMonotonic
<1>5. toModem' \in Seq(Orders)'
  <2>1. CASE UNCHANGED toModem
    BY <1>4, <2>1
  <2>2. CASE Write
    <3>1. [cmd |-> Step, call |-> calls'] \in Orders'
      BY <2>2 DEF Write, Orders
    <3>2. Append(toModem, [cmd |-> Step, call |-> calls']) \in Seq(Orders)'
      BY <1>4, <3>1
    <3> QED
      BY <2>1, <2>2, <3>2 DEF Write
  <2>3. CASE Talk
    <3>1. [cmd |-> "CR", call |-> calls] \in Orders'
      BY <1>1, <1>2 DEF Orders
    <3>2. <<[cmd |-> "CR", call |-> calls]>> \in Seq(Orders)'
      BY <3>1
    <3> QED
      BY <2>1, <2>3, <3>2 DEF Talk
  <2>4. CASE Modem
    <3>1. toModem # <<>> /\ toModem' = Tail(toModem)
      BY <2>4 DEF Modem, Abort, Data, Command
    <3> QED
      BY <1>4, <3>1
  <2> QED
    BY <2>1, <2>2, <2>3, <2>4 DEF Next, Start, Dies, Driver, Drain, ReadOK, ReadIgnored, ReadResult,
      ReadsUntil, Close, TalkEnds, Line, Stops
<1>6. toHost' \in Seq(Answers)'
  <2>1. CASE UNCHANGED toHost \/ toHost' = <<>>
    <3>1. <<>> \in Seq(Answers)'
      OBVIOUS
    <3> QED
      BY <1>4, <2>1, <3>1
  <2>2. ASSUME NEW n \in 1..Len(toHost), ReadsUntil(n) PROVE toHost' \in Seq(Answers)'
    <3>1. SubSeq(toHost, n + 1, Len(toHost)) \in Seq(Answers)'
      BY <1>4
    <3> QED
      BY <2>2, <3>1 DEF ReadsUntil
  <2>3. ASSUME Modem \/ Line,
               NEW w \in {"OK", "CONNECT", "BUSY", "NO_CARRIER", "NO_DIALTONE", "ERROR"},
               NEW c \in {0, call}, Emit(w, c)
        PROVE  toHost' \in Seq(Answers)'
    <3>1. [says |-> w, call |-> c] \in Answers'
      BY <1>1, <1>2 DEF Answers, ModemType
    <3>2. Append(toHost, [says |-> w, call |-> c]) \in Seq(Answers)'
      BY <1>4, <3>1
    <3> QED
      BY <2>3, <3>2 DEF Emit
  <2>4. CASE Modem \/ Line
    BY <2>1, <2>3, <2>4 DEF Modem, Line, Abort, Data, Command
  <2> QED
    BY <2>1, <2>2, <2>4 DEF Next, Start, Dies, Driver, Drain, Write, ReadOK, ReadIgnored, ReadResult,
      Close, Talk, TalkEnds, Stops
<1> QED
  BY <1>5, <1>6

\* The first of the result words in what was read, with the calls it is about.
LEMMA ResultFits ==
  ASSUME toHost \in Seq(Answers), NEW n \in 1..Len(toHost), Step = "result", Matched(n),
         NEW r, r = ResultOf(SubSeq(toHost, 1, n))
  PROVE  /\ r = [is |-> r.is, of |-> r.of]
         /\ r.is \in {"CONNECT", "BUSY", "NO_CARRIER", "NO_DIALTONE", "ERROR"}
         /\ \E i \in 1..n : toHost[i].says = r.is
         /\ \A i \in 1..n : toHost[i].says = r.is => toHost[i].call \in r.of
         /\ \A c \in r.of : \E i \in 1..n : toHost[i].says = r.is /\ toHost[i].call = c
<1> DEFINE s == SubSeq(toHost, 1, n)
           P(i) == Order[i] \in Words(s) /\ \A j \in 1..(i - 1) : Order[j] \notin Words(s)
           first == CHOOSE i \in 1..5 : P(i)
<1>1. Len(s) = n /\ \A i \in 1..n : s[i] = toHost[i]
  OBVIOUS
<1> HIDE DEF s
<1>2. /\ Order[1] = "CONNECT" /\ Order[2] = "BUSY" /\ Order[3] = "NO_CARRIER"
      /\ Order[4] = "NO_DIALTONE" /\ Order[5] = "ERROR"
  BY DEF Order
<1>3. Matches = {Order[1], Order[2], Order[3], Order[4], Order[5]}
  BY <1>2 DEF Matches
<1>4. Words(s) \intersect Matches # {}
  BY DEF Matched, s
<1>5. \E i \in 1..5 : P(i)
  <2>1. \/ Order[1] \in Words(s) \/ Order[2] \in Words(s) \/ Order[3] \in Words(s)
        \/ Order[4] \in Words(s) \/ Order[5] \in Words(s)
    BY <1>3, <1>4
  <2>2. \/ P(1) \/ P(2) \/ P(3) \/ P(4) \/ P(5)
    BY <2>1
  <2> QED
    BY <2>2
<1>6. first \in 1..5 /\ P(first)
  BY <1>5
<1> DEFINE about == {i \in 1..Len(s) : s[i].says = Order[first]}
<1>7. r = [is |-> Order[first], of |-> {s[i].call : i \in about}]
  BY DEF ResultOf, s
<1>8. Order[first] \in {"CONNECT", "BUSY", "NO_CARRIER", "NO_DIALTONE", "ERROR"}
  <2>1. first \in 1..5
    BY <1>6
  <2> HIDE DEF first
  <2> QED
    BY <1>2, <2>1
<1>9. \E i \in 1..n : s[i].says = Order[first]
  BY <1>1, <1>6 DEF Words
<1> HIDE DEF first
<1> QED
  BY <1>1, <1>7, <1>8, <1>9

LEMMA ResultTypes ==
  ASSUME TypeOK, Next, calls' \in Nat
  PROVE  result' \in Results'
<1>1. result \in Results /\ toHost \in Seq(Answers) /\ calls \in Nat
  BY TypeParts, ProductBound
<1>2. calls' >= calls
  BY <1>1 DEF Next, Start, Dies, Driver, Drain, Write, ReadOK, ReadIgnored, ReadResult, ReadsUntil,
    Close, Talk, TalkEnds, Modem, Line, Stops
<1>3. Results \subseteq Results'
  BY <1>1, <1>2 DEF Results
<1>4. CASE UNCHANGED result
  BY <1>1, <1>3, <1>4
<1>5. CASE result' = NoResult \/ result' = [is |-> "TIMEOUT", of |-> {}]
           \/ result' = [is |-> "ERROR", of |-> {}]
  BY <1>5 DEF NoResult, Results
<1>6. ASSUME Step = "result", NEW n \in 1..Len(toHost), ReadsUntil(n),
             result' = ResultOf(SubSeq(toHost, 1, n))
      PROVE  result' \in Results'
  <2>1. /\ result' = [is |-> result'.is, of |-> result'.of]
        /\ result'.is \in {"CONNECT", "BUSY", "NO_CARRIER", "NO_DIALTONE", "ERROR"}
        /\ \A c \in result'.of : \E i \in 1..n : toHost[i].says = result'.is /\ toHost[i].call = c
    BY <1>1, <1>6, ResultFits DEF ReadsUntil
  <2>2. ASSUME NEW i \in 1..n PROVE toHost[i].call \in 0..calls
    <3>1. Len(toHost) \in Nat
      BY <1>1
    <3>2. i \in 1..Len(toHost)
      BY <3>1
    <3>3. toHost[i] \in Answers
      BY <1>1, <3>2
    <3> QED
      BY <3>3 DEF Answers
  <2>3. result'.of \subseteq 0..calls'
    BY <1>1, <1>2, <2>1, <2>2
  <2> QED
    BY <2>1, <2>3 DEF Results
<1> QED
  BY <1>4, <1>5, <1>6 DEF Next, Start, Dies, Driver, Drain, Write, ReadOK, ReadIgnored, ReadResult,
    Close, Talk, TalkEnds, Modem, Line, Stops, driverVars

LEMMA TypeStep ==
  ASSUME TypeOK, CallsCounted, Numbered, Next
  PROVE  TypeOK' /\ CallsCounted'
<1>1. DriverType'
  BY DriverTypes
<1>2. CallsCounted' /\ calls' \in 0..(Programs * MaxRetries)
  BY <1>1, CountsCalls
<1>3. calls' \in Nat
  BY <1>2, ProductBound
<1>4. ModemType' /\ toModem' \in Seq(Orders)' /\ toHost' \in Seq(Answers)' /\ result' \in Results'
  BY <1>3, ModemTypes, QueueTypes, ResultTypes
<1>5. TypeOK' <=> /\ DriverType' /\ ModemType' /\ result' \in Results'
                  /\ toModem' \in Seq(Orders') /\ toHost' \in Seq(Answers')
                  /\ calls' \in 0..(Programs * MaxRetries)
  BY DEF TypeOK, DriverType, ModemType, Results, Orders, Answers, CloseAt
<1> QED
  BY <1>1, <1>2, <1>4, <1>5

-----------------------------------------------------------------------------
\* What a step does to the two queues.

LEMMA ModemTakesHead ==
  ASSUME TypeOK, Modem
  PROVE  /\ Len(toModem) \in Nat /\ Len(toModem) >= 1 /\ Len(toModem') = Len(toModem) - 1
         /\ \A i \in 1..Len(toModem') : toModem'[i] = toModem[i + 1]
         /\ Head(toModem) = toModem[1] /\ Head(toModem) \in Orders
<1>1. toModem # <<>> /\ toModem' = Tail(toModem)
  BY DEF Modem, Abort, Data, Command
<1>2. toModem \in Seq(Orders)
  BY TypeParts
<1>3. Len(toModem) \in Nat /\ Len(toModem) >= 1 /\ Head(toModem) = toModem[1]
      /\ Head(toModem) \in Orders
  BY <1>1, <1>2, HeadOrder
<1>4. /\ Len(Tail(toModem)) = Len(toModem) - 1
      /\ \A i \in 1..(Len(toModem) - 1) : Tail(toModem)[i] = toModem[i + 1]
  BY <1>1, <1>2, HeadTailProperties
<1> QED
  BY <1>1, <1>3, <1>4, Zenon

LEMMA WriteAppends ==
  ASSUME TypeOK, Write, calls' \in Nat,
         ~ UNCHANGED toModem \/ toModem' = Append(toModem, [cmd |-> Step, call |-> calls'])
  PROVE  /\ Len(toModem) \in Nat /\ Len(toModem') = Len(toModem) + 1
         /\ \A i \in 1..Len(toModem) : toModem'[i] = toModem[i]
         /\ toModem'[Len(toModem')] = [cmd |-> Step, call |-> calls']
         /\ toModem' = Append(toModem, [cmd |-> Step, call |-> calls'])
<1>1. toModem' = Append(toModem, [cmd |-> Step, call |-> calls'])
  BY DEF Write
<1> DEFINE S == [cmd : {"+++", "ATH", "ATZ", "ATE0", "ATX3", "CFG", "ATDT", "CR"}, call : Nat]
           e == [cmd |-> Step, call |-> calls']
<1>2. toModem \in Seq(S)
  <2>1. toModem \in Seq(Orders) /\ calls \in Nat
    BY TypeParts, ProductBound
  <2>2. Orders \subseteq S
    BY <2>1 DEF Orders
  <2> QED
    BY <2>1, <2>2, SeqMonotonic
<1>3. e \in S
  BY DEF Write
<1> HIDE DEF S, e
<1>4. /\ Len(Append(toModem, e)) = Len(toModem) + 1 /\ Len(toModem) \in Nat
      /\ \A i \in 1..Len(toModem) : Append(toModem, e)[i] = toModem[i]
      /\ Append(toModem, e)[Len(toModem) + 1] = e
  BY <1>2, <1>3, AppendProperties, LenProperties
<1> QED
  BY <1>1, <1>4, Zenon DEF e

\* Where the orders of the next state come from.
LEMMA QueueElements ==
  ASSUME TypeOK, Next, calls' \in Nat, NEW i \in 1..Len(toModem')
  PROVE  \/ Modem /\ i + 1 \in 1..Len(toModem) /\ toModem'[i] = toModem[i + 1]
         \/ ~Modem /\ i \in 1..Len(toModem) /\ toModem'[i] = toModem[i]
         \/ Write /\ i = Len(toModem') /\ toModem'[i] = [cmd |-> Step, call |-> calls']
         \/ Talk /\ toModem = <<>> /\ i = 1 /\ toModem'[i] = [cmd |-> "CR", call |-> calls]
<1>1. CASE Modem
  BY <1>1, ModemTakesHead
<1>2. CASE UNCHANGED toModem /\ ~Modem
  BY <1>2
<1>3. CASE Write /\ ~ UNCHANGED toModem
  <2>1. program # "none" /\ UNCHANGED stopped
    BY <1>3 DEF Write, Step, modemVars
  <2>2. ~Modem
    <3>1. SUFFICES ASSUME Modem PROVE FALSE
      OBVIOUS
    <3>2. Len(toModem') = Len(toModem) - 1 /\ Len(toModem) \in Nat
      BY <3>1, ModemTakesHead
    <3>3. Len(toModem') = Len(toModem) + 1
      BY <1>3, WriteAppends
    <3> QED
      BY <3>2, <3>3
  <2> QED
    BY <1>3, <2>2, WriteAppends
<1>4. CASE Talk /\ ~ UNCHANGED toModem
  <2>1. toModem = <<>> /\ toModem' = <<[cmd |-> "CR", call |-> calls]>>
    BY <1>4 DEF Talk
  <2>2. Len(toModem') = 1 /\ toModem'[1] = [cmd |-> "CR", call |-> calls]
    BY <2>1
  <2> QED
    BY <1>4, <2>1, <2>2
<1> QED
  BY <1>1, <1>2, <1>3, <1>4 DEF Next, Start, Dies, Driver, Drain, ReadOK, ReadIgnored, ReadResult,
      ReadsUntil, Close, TalkEnds, Line, Stops

\* Where its answers come from.  OK and ERROR are about no call, the other words about
\* the one that the modem was in.
Emitted(a) ==
  \/ a.says \in {"OK", "ERROR"} /\ a.call = 0
  \/ a.says \in {"CONNECT", "BUSY", "NO_CARRIER", "NO_DIALTONE"} /\ a.call = call /\ mode # "command"

LEMMA ModemAnswers ==
  ASSUME TypeOK, Modem \/ Line
  PROVE  UNCHANGED toHost \/ \E a \in Answers : Emitted(a) /\ toHost' = Append(toHost, a)
<1>1. ModemType /\ calls \in Nat
  BY TypeParts, ProductBound
<1>2. ASSUME NEW w, NEW c, Emit(w, c),
             \/ w \in {"OK", "ERROR"} /\ c = 0
             \/ w \in {"CONNECT", "BUSY", "NO_CARRIER", "NO_DIALTONE"} /\ c = call /\ mode # "command"
      PROVE  \E a \in Answers : Emitted(a) /\ toHost' = Append(toHost, a)
  <2>1. Emitted([says |-> w, call |-> c])
    BY <1>2 DEF Emitted
  <2>2. [says |-> w, call |-> c] \in Answers
    BY <1>1, <1>2 DEF Answers, ModemType
  <2> QED
    BY <1>2, <2>1, <2>2 DEF Emit
<1> QED
  BY <1>2 DEF Modem, Line, Abort, Data, Command

LEMMA HostElements ==
  ASSUME TypeOK, Next, NEW i \in 1..Len(toHost')
  PROVE  \/ \E j \in 1..Len(toHost) : toHost'[i] = toHost[j]
         \/ (Modem \/ Line) /\ Emitted(toHost'[i])
<1>1. toHost \in Seq(Answers) /\ Len(toHost) \in Nat
  BY TypeParts
<1>2. CASE UNCHANGED toHost
  BY <1>2
<1>3. CASE toHost' = <<>>
  <2>1. Len(toHost') = 0
    BY <1>3
  <2> QED
    BY <2>1
<1>4. ASSUME NEW n \in 1..Len(toHost), ReadsUntil(n)
      PROVE  \E j \in 1..Len(toHost) : toHost'[i] = toHost[j]
  <2>1. toHost' = SubSeq(toHost, n + 1, Len(toHost))
    BY <1>4 DEF ReadsUntil
  <2>2. /\ Len(SubSeq(toHost, n + 1, Len(toHost))) = Len(toHost) - n
        /\ \A k \in 1..(Len(toHost) - n) : SubSeq(toHost, n + 1, Len(toHost))[k] = toHost[n + k]
    BY <1>1
  <2>3. i \in 1..(Len(toHost) - n) /\ toHost'[i] = toHost[n + i]
    BY <2>1, <2>2
  <2>4. n + i \in 1..Len(toHost)
    BY <1>1, <2>3
  <2> QED
    BY <2>3, <2>4
<1>5. ASSUME NEW a \in Answers, Emitted(a), toHost' = Append(toHost, a)
      PROVE  (\E j \in 1..Len(toHost) : toHost'[i] = toHost[j]) \/ Emitted(toHost'[i])
  <2>1. /\ Len(Append(toHost, a)) = Len(toHost) + 1
        /\ \A k \in 1..Len(toHost) : Append(toHost, a)[k] = toHost[k]
        /\ Append(toHost, a)[Len(toHost) + 1] = a
    BY <1>1, AppendProperties
  <2>2. i \in 1..Len(toHost) \/ i = Len(toHost) + 1
    BY <1>1, <1>5, <2>1
  <2> QED
    BY <1>5, <2>1, <2>2
<1>6. CASE Modem \/ Line
  BY <1>2, <1>5, <1>6, ModemAnswers
<1> QED
  BY <1>2, <1>3, <1>4, <1>6 DEF Next, Start, Dies, Driver, Drain, Write, ReadOK, ReadIgnored,
    ReadResult, Close, Talk, TalkEnds, Stops

\* The calls that orders and answers are about.
LEMMA NumberedStep ==
  ASSUME TypeOK, Numbered, Next, calls' \in Nat
  PROVE  Numbered'
<1>1. ModemType /\ calls \in Nat
  BY TypeParts, ProductBound
<1>2. ASSUME NEW i \in 1..Len(toHost')
      PROVE  toHost'[i].call = 0 <=> toHost'[i].says \in {"OK", "ERROR"}
  <2>1. CASE \E j \in 1..Len(toHost) : toHost'[i] = toHost[j]
    BY <2>1 DEF Numbered
  <2>2. CASE Emitted(toHost'[i])
    BY <1>1, <2>2 DEF Emitted, ModemType
  <2> QED
    BY <2>1, <2>2, HostElements
<1>3. ASSUME NEW i \in Dials' PROVE toModem'[i].call # 0
  <2>1. i \in 1..Len(toModem') /\ toModem'[i].cmd = "ATDT"
    BY DEF Dials
  <2>2. CASE i + 1 \in 1..Len(toModem) /\ toModem'[i] = toModem[i + 1]
    <3>1. i + 1 \in Dials
      BY <2>1, <2>2 DEF Dials
    <3> QED
      BY <2>2, <3>1 DEF Numbered
  <2>3. CASE i \in 1..Len(toModem) /\ toModem'[i] = toModem[i]
    <3>1. i \in Dials
      BY <2>1, <2>3 DEF Dials
    <3> QED
      BY <2>3, <3>1 DEF Numbered
  <2>4. CASE Write /\ i = Len(toModem') /\ toModem'[i] = [cmd |-> Step, call |-> calls']
    <3>1. Step = "ATDT" /\ calls' = calls + 1
      BY <2>1, <2>4 DEF Write
    <3> QED
      BY <1>1, <2>4, <3>1
  <2>5. ~ (toModem'[i] = [cmd |-> "CR", call |-> calls])
    BY <2>1
  <2> QED
    BY <2>1, <2>2, <2>3, <2>4, <2>5, QueueElements
<1> QED
  BY <1>2, <1>3 DEF Numbered

-----------------------------------------------------------------------------
\* An escape is followed by a command that hangs up.

\* Between the escape of Init and its ATZ, and after the escape of Hangup, the driver
\* moves on to the command that hangs up.
LEMMA StaysWhereItHangsUp ==
  ASSUME TypeOK, Next, MayHangUp
  PROVE  /\ MayHangUp' \/ (Write /\ Step = "ATZ" /\ ~ UNCHANGED toModem)
         /\ pc' = HangupAt => pc = HangupAt
<1>1. /\ DriverType /\ ResultAt \in Nat /\ ResultAt >= 17 /\ CloseAt = ResultAt + 5
      /\ HangupAt = ResultAt + 2 /\ TalkAt = ResultAt + 1
  BY TypeParts, ScriptShape
<1>2. CASE Start \/ Dies \/ Close
  <2>1. pc' = 1
    BY <1>2 DEF Start, Dies, Close
  <2> QED
    BY <1>1, <2>1 DEF MayHangUp
<1>3. CASE Modem \/ Line \/ Stops
  BY <1>3 DEF Modem, Line, Stops, driverVars, MayHangUp
<1>4. CASE Drain \/ Write \/ ReadOK \/ ReadIgnored \/ ReadResult \/ Talk \/ TalkEnds
  <2>1. program # "none" /\ UNCHANGED program /\ Step = Script[pc]
    BY <1>4 DEF Drain, Write, ReadOK, ReadIgnored, ReadResult, Talk, TalkEnds, GoTo, Step, driverVars
  <2>2. pc \in 1..CloseAt /\ (pc <= 7 \/ pc >= HangupAt)
    BY <1>1, <2>1 DEF MayHangUp, DriverType
  <2>3. Step \notin {"result", "talk", "ATDT"} /\ (Step = "ATZ" <=> pc = 7)
    BY <1>1, <2>1, <2>2, Places
  <2>4. pc' \in {pc + 1, CloseAt}
    <3>1. AfterError \in {pc + 1, CloseAt}
      BY <2>1, <2>3 DEF AfterError
    <3> QED
      BY <1>4, <2>3, <3>1 DEF Drain, Write, ReadOK, ReadIgnored, ReadResult, Talk, TalkEnds, GoTo,
        AfterTimeout
  <2>5. pc = 7 => pc' = CloseAt \/ (Write /\ ~ UNCHANGED toModem)
    <3>1. SUFFICES ASSUME pc = 7 PROVE pc' = CloseAt \/ (Write /\ ~ UNCHANGED toModem)
      OBVIOUS
    <3>2. Step = "ATZ"
      BY <2>3, <3>1
    <3>3. Write
      BY <1>4, <3>2 DEF Drain, ReadOK, ReadIgnored, ReadResult, Talk, TalkEnds
    <3>4. AfterError = CloseAt
      BY <2>1, <3>2 DEF AfterError
    <3>5. ASSUME toModem' = Append(toModem, [cmd |-> Step, call |-> calls']), UNCHANGED toModem
          PROVE FALSE
      <4>1. calls' = calls /\ calls \in Nat /\ toModem \in Seq(Orders)
        BY <3>2, <3>3, TypeParts, ProductBound DEF Write
      <4>2. [cmd |-> Step, call |-> calls'] \in Orders
        BY <3>2, <4>1 DEF Orders
      <4>3. Len(Append(toModem, [cmd |-> Step, call |-> calls'])) = Len(toModem) + 1
            /\ Len(toModem) \in Nat
        BY <4>1, <4>2, AppendProperties, LenProperties
      <4> QED
        BY <3>5, <4>3
    <3> QED
      BY <3>3, <3>4, <3>5 DEF Write, GoTo
  <2> QED
    BY <1>1, <2>1, <2>2, <2>3, <2>4, <2>5 DEF MayHangUp
<1> QED
  BY <1>2, <1>3, <1>4 DEF Next, Driver

\* Where the driver comes to Hangup from.
LEMMA ComesToHangup ==
  ASSUME TypeOK, Next, program' # "none", pc' = HangupAt, ~ UNCHANGED pc
  PROVE  ~MayHangUp
BY StaysWhereItHangsUp

LEMMA EscapeStep ==
  ASSUME TypeOK, Next, calls' \in Nat, EscapeHangsUp
  PROVE  EscapeHangsUp'
<1>1. /\ DriverType /\ ModemType /\ ResultAt \in Nat /\ ResultAt >= 17 /\ CloseAt = ResultAt + 5
      /\ HangupAt = ResultAt + 2 /\ TalkAt = ResultAt + 1 /\ toModem \in Seq(Orders)
      /\ Len(toModem) \in Nat
  BY TypeParts, ScriptShape, LenProperties
<1> DEFINE Last_ == toModem # <<>> /\ toModem[Len(toModem)].cmd = "+++"
           Idle_ == MayHangUp /\ \A i \in 1..Len(toModem) : NoCommand(i)
           First_ == \E i \in 1..Len(toModem) :
                       HangsUp(toModem[i]) /\ \A j \in 1..(i - 1) : NoCommand(j)
<1>2. (mode = "escaped" => Idle_ \/ First_) /\ (Last_ => MayHangUp /\ pc # HangupAt)
  BY DEF EscapeHangsUp
<1>3. CASE UNCHANGED toModem /\ ~Modem
  <2>1. (mode' = "escaped" => mode = "escaped")
    BY <1>3 DEF Next, Start, Dies, Driver, Drain, Write, ReadOK, ReadIgnored, ReadResult,
      ReadsUntil, Close, Talk, TalkEnds, Line, Stops, Hook, modemVars
  <2>2. MayHangUp => MayHangUp' /\ (pc' = HangupAt => pc = HangupAt)
    BY <1>3, StaysWhereItHangsUp
  <2>3. Idle_ => Idle_'
    BY <1>3, <2>2 DEF NoCommand
  <2>4. First_ => First_'
    BY <1>3 DEF NoCommand, HangsUp
  <2>5. Last_' => Last_
    BY <1>3
  <2> HIDE DEF Last_, Idle_, First_
  <2>6. (mode' = "escaped" => Idle_' \/ First_') /\ (Last_' => MayHangUp' /\ pc' # HangupAt)
    BY <1>2, <2>1, <2>2, <2>3, <2>4, <2>5
  <2> QED
    BY <2>6 DEF EscapeHangsUp, Last_, Idle_, First_
<1>4. CASE Write /\ ~ UNCHANGED toModem
  <2>1. /\ Len(toModem') = Len(toModem) + 1
        /\ \A i \in 1..Len(toModem) : toModem'[i] = toModem[i]
        /\ toModem'[Len(toModem) + 1] = [cmd |-> Step, call |-> calls']
    BY <1>4, WriteAppends
  <2>2. program # "none" /\ UNCHANGED <<program, mode>> /\ pc' = pc + 1 /\ Step = Script[pc]
        /\ Step \in {"+++", "ATH", "ATZ", "ATE0", "ATX3", "CFG", "ATDT"}
    BY <1>4 DEF Write, Step, GoTo, modemVars
  <2>3. Step = "+++" => MayHangUp' /\ pc' # HangupAt
    <3>1. Step = "+++" => pc = 2 \/ pc = HangupAt
      BY <1>1, <2>2, Places DEF DriverType
    <3>2. pc' = pc + 1
      BY <2>2
    <3> QED
      BY <1>1, <3>1, <3>2 DEF MayHangUp
  <2>4. MayHangUp => Step \in {"+++", "ATH", "ATZ"}
    BY <1>1, <2>2, Places DEF MayHangUp, DriverType
  <2>5. toModem'[Len(toModem')].cmd = Step
    BY <1>1, <2>1
  <2>6. ASSUME Idle_ PROVE Idle_' \/ First_'
    <3>1. \A i \in 1..Len(toModem) : toModem'[i].cmd \in {"+++", "CR"}
      BY <2>1, <2>6 DEF NoCommand
    <3>2. CASE Step = "+++"
      <4>1. \A i \in 1..Len(toModem') : toModem'[i].cmd \in {"+++", "CR"}
        BY <1>1, <2>1, <2>5, <3>1, <3>2
      <4> QED
        BY <2>3, <3>2, <4>1 DEF NoCommand
    <3>3. CASE Step \in {"ATH", "ATZ"}
      <4>1. Len(toModem') \in 1..Len(toModem') /\ HangsUp(toModem'[Len(toModem')])
        BY <1>1, <2>1, <2>5, <3>3 DEF HangsUp
      <4>2. \A j \in 1..(Len(toModem') - 1) : toModem'[j].cmd \in {"+++", "CR"}
        BY <1>1, <2>1, <3>1
      <4> QED
        BY <4>1, <4>2 DEF NoCommand
    <3> QED
      BY <2>4, <2>6, <3>2, <3>3
  <2>7. ASSUME First_ PROVE First_'
    <3>1. PICK i \in 1..Len(toModem) : HangsUp(toModem[i]) /\ \A j \in 1..(i - 1) : NoCommand(j)
      BY <2>7
    <3>2. i \in 1..Len(toModem') /\ HangsUp(toModem'[i])
      BY <1>1, <2>1, <3>1 DEF HangsUp
    <3>3. ASSUME NEW j \in 1..(i - 1) PROVE toModem'[j].cmd \in {"+++", "CR"}
      <4>1. j \in 1..Len(toModem)
        BY <1>1
      <4> QED
        BY <2>1, <3>1, <4>1 DEF NoCommand
    <3> QED
      BY <3>2, <3>3 DEF NoCommand
  <2>8. Last_' => MayHangUp' /\ pc' # HangupAt
    BY <2>3, <2>5
  <2> HIDE DEF Last_, Idle_, First_
  <2>9. (mode' = "escaped" => Idle_' \/ First_') /\ (Last_' => MayHangUp' /\ pc' # HangupAt)
    BY <1>2, <2>2, <2>6, <2>7, <2>8
  <2> QED
    BY <2>9 DEF EscapeHangsUp, Last_, Idle_, First_
<1>5. CASE Talk /\ ~ UNCHANGED toModem
  <2>1. toModem = <<>> /\ toModem' = <<[cmd |-> "CR", call |-> calls]>> /\ UNCHANGED mode
        /\ program # "none" /\ Script[pc] = "talk"
    BY <1>5 DEF Talk, Step, modemVars
  <2>2. pc = TalkAt
    BY <1>1, <2>1, Places DEF DriverType
  <2>3. mode # "escaped"
    <3>1. ~MayHangUp
      BY <1>1, <2>1, <2>2 DEF MayHangUp
    <3>2. ~First_
      BY <2>1
    <3> QED
      BY <1>2, <3>1, <3>2
  <2>4. Len(toModem') = 1 /\ toModem'[1].cmd = "CR"
    BY <2>1
  <2> QED
    BY <2>1, <2>3, <2>4 DEF EscapeHangsUp
<1>6. CASE Modem
  <2>1. /\ Len(toModem) >= 1 /\ Len(toModem') = Len(toModem) - 1
        /\ \A i \in 1..Len(toModem') : toModem'[i] = toModem[i + 1]
        /\ Head(toModem) = toModem[1]
    BY <1>6, ModemTakesHead
  <2>2. UNCHANGED <<program, pc>> /\ (MayHangUp <=> MayHangUp')
    BY <1>6 DEF Modem, driverVars, MayHangUp
  <2>3. Last_' => Last_
    <3>1. SUFFICES ASSUME toModem' # <<>>, toModem'[Len(toModem')].cmd = "+++" PROVE Last_
      OBVIOUS
    <3>2. Len(toModem') >= 1
      <4>1. toModem' \in Seq(Orders)
        BY <1>1, <1>6 DEF Modem, Abort, Data, Command
      <4> QED
        BY <3>1, <4>1, EmptySeq
    <3>3. toModem'[Len(toModem')] = toModem[Len(toModem)]
      BY <1>1, <2>1, <3>2
    <3> QED
      BY <1>1, <2>1, <3>1, <3>3, EmptySeq
  <2>4. CASE mode' = "escaped" /\ mode = "escaped"
    <3>1. \/ toModem[1].cmd \in {"+++", "CR"}
          \/ toModem[1].cmd \in {"ATE0", "ATX3", "CFG", "ATDT"}
      BY <1>6, <2>1, <2>4 DEF Modem, Abort, Data, Command, Hook
    <3>2. ASSUME Idle_ PROVE \A i \in 1..Len(toModem') : toModem'[i].cmd \in {"+++", "CR"}
      <4> SUFFICES ASSUME NEW i \in 1..Len(toModem') PROVE toModem'[i].cmd \in {"+++", "CR"}
        OBVIOUS
      <4>1. i + 1 \in 1..Len(toModem) /\ toModem'[i] = toModem[i + 1]
        BY <1>1, <2>1
      <4> QED
        BY <3>2, <4>1 DEF NoCommand
    <3>3. ASSUME First_ PROVE First_'
      <4>1. PICK i \in 1..Len(toModem) : HangsUp(toModem[i]) /\ \A j \in 1..(i - 1) : NoCommand(j)
        BY <3>3
      <4>2. toModem[1].cmd \in {"+++", "CR"} /\ i # 1
        <5>1. CASE i = 1
          BY <3>1, <4>1, <5>1 DEF HangsUp
        <5>2. CASE i # 1
          <6>1. NoCommand(1)
            BY <1>1, <4>1, <5>2
          <6> QED
            BY <5>2, <6>1 DEF NoCommand
        <5> QED
          BY <5>1, <5>2
      <4>3. i - 1 \in 1..Len(toModem') /\ toModem'[i - 1] = toModem[i]
        BY <1>1, <2>1, <4>2
      <4>4. ASSUME NEW j \in 1..((i - 1) - 1) PROVE toModem'[j].cmd \in {"+++", "CR"}
        <5>1. j + 1 \in 1..(i - 1) /\ j \in 1..Len(toModem')
          BY <1>1, <2>1
        <5> QED
          BY <2>1, <4>1, <5>1 DEF NoCommand
      <4> QED
        BY <4>1, <4>3, <4>4 DEF NoCommand, HangsUp
    <3>4. (Idle_ => Idle_') /\ (First_ => First_')
      BY <2>2, <3>2, <3>3 DEF NoCommand
    <3> HIDE DEF Last_, Idle_, First_
    <3>5. (mode' = "escaped" => Idle_' \/ First_') /\ (Last_' => MayHangUp' /\ pc' # HangupAt)
      BY <1>2, <2>2, <2>3, <2>4, <3>4
    <3> QED
      BY <3>5 DEF EscapeHangsUp, Last_, Idle_, First_
  <2>5. CASE mode' = "escaped" /\ mode # "escaped"
    <3>1. Head(toModem).cmd = "+++" /\ Len(toModem) = 1
      BY <1>6, <2>5 DEF Modem, Abort, Data, Command, Hook, modemVars
    <3>2. Last_
      <4>1. toModem # <<>>
        BY <1>6 DEF Modem, Abort, Data, Command
      <4>2. toModem[Len(toModem)] = Head(toModem)
        BY <2>1, <3>1
      <4> QED
        BY <3>1, <4>1, <4>2
    <3>3. Len(toModem') = 0
      BY <2>1, <3>1
    <3>4. Idle_'
      BY <1>2, <2>2, <3>2, <3>3 DEF NoCommand
    <3> HIDE DEF Last_, Idle_, First_
    <3>5. (mode' = "escaped" => Idle_' \/ First_') /\ (Last_' => MayHangUp' /\ pc' # HangupAt)
      BY <1>2, <2>2, <2>3, <3>4
    <3> QED
      BY <3>5 DEF EscapeHangsUp, Last_, Idle_, First_
  <2>6. CASE mode' # "escaped"
    <3> HIDE DEF Last_, Idle_, First_
    <3>1. Last_' => MayHangUp' /\ pc' # HangupAt
      BY <1>2, <2>2, <2>3
    <3> QED
      BY <2>6, <3>1 DEF EscapeHangsUp, Last_
  <2> QED
    BY <2>4, <2>5, <2>6
<1>7. UNCHANGED toModem \/ Write \/ Talk \/ Modem
  BY DEF Next, Start, Dies, Driver, Drain, ReadOK, ReadIgnored, ReadResult,
      ReadsUntil, Close, TalkEnds, Line, Stops
<1> QED
  BY <1>3, <1>4, <1>5, <1>6, <1>7

-----------------------------------------------------------------------------
\* Init clears the line or fails.

LEMMA LateType ==
  ASSUME TypeOK
  PROVE  Late \in Nat /\ Cardinality(OKs(toHost)) \in Nat
BY TypeParts, OKsFinite DEF Late

\* The modem answers a command once, the line never by OK.
LEMMA LateGrows ==
  ASSUME TypeOK, Modem \/ Line
  PROVE  /\ Late' \in Nat /\ Late' <= Late + 1
         /\ UNCHANGED toHost \/ Line => Late' = Late
<1>1. toHost \in Seq(Answers) /\ UNCHANGED pc /\ Late \in Nat /\ Cardinality(OKs(toHost)) \in Nat
  BY TypeParts, LateType DEF Modem, Line, driverVars
<1>2. CASE UNCHANGED toHost
  BY <1>1, <1>2 DEF Late
<1>3. ASSUME NEW a \in Answers, toHost' = Append(toHost, a)
      PROVE  Late' \in Nat /\ Late' <= Late + 1 /\ (a.says # "OK" => Late' = Late)
  <2>1. Cardinality(OKs(toHost')) = IF a.says = "OK" THEN Cardinality(OKs(toHost)) + 1
                                    ELSE Cardinality(OKs(toHost))
    BY <1>1, <1>3, OKsAppend
  <2> QED
    BY <1>1, <2>1 DEF Late
<1>4. CASE Line
  <2>1. \E w \in {"CONNECT", "BUSY", "NO_CARRIER", "NO_DIALTONE"} : Emit(w, call)
    BY <1>4 DEF Line
  <2>2. PICK w \in {"CONNECT", "BUSY", "NO_CARRIER", "NO_DIALTONE"} : Emit(w, call)
    BY <2>1
  <2>3. call \in 0..calls
    BY TypeParts DEF ModemType
  <2>4. [says |-> w, call |-> call] \in Answers
    BY <2>3 DEF Answers
  <2> QED
    BY <1>3, <2>2, <2>4 DEF Emit
<1>5. CASE Modem
  BY <1>1, <1>2, <1>3, <1>4, <1>5, ModemAnswers
<1> QED
  BY <1>4, <1>5

LEMMA FewerAndFewer ==
  ASSUME NEW a \in Nat, NEW b \in Nat, NEW d \in Nat, NEW e \in Nat, NEW c \in Nat, NEW k \in Nat,
         b + k <= a, d = e + k, a + c < d
  PROVE  b + c < e
OBVIOUS

\* A step of Init or Configure that goes on takes from the answers what is no longer due.
LEMMA ClearsOn ==
  ASSUME TypeOK, TypeOK', ClearsOrFails, NEW k \in Nat,
         program # "none", pc' = pc + 1, pc' < ResultAt - 1, UNCHANGED <<mode, stopped>>,
         Dials' \subseteq Dials, k = IF Script[pc] = "ok" THEN 1 ELSE 0, Late' + k <= Late
  PROVE  ClearsOrFails'
<1>1. pc \in 1..ResultAt /\ pc + 1 \in Nat /\ ResultAt \in Nat /\ pc < ResultAt - 1
  <2>1. pc \in 1..CloseAt /\ ResultAt \in Nat /\ CloseAt = ResultAt + 5
    BY TypeParts, ScriptShape DEF DriverType
  <2>2. pc + 1 < ResultAt - 1
    OBVIOUS
  <2> QED
    BY <2>1, <2>2
<1>2. PICK d \in Nat : d = Cardinality(Due(pc))
  BY <1>1, DueFinite
<1>3. PICK e \in Nat : e = Cardinality(Due(pc'))
  BY <1>1, DueFinite
<1>4. d = e + k
  BY <1>1, <1>2, <1>3, DueAfter
<1>5. PICK a \in Nat : a = Late
  BY LateType
<1>6. PICK b \in Nat : b = Late'
  <2>1. Late' \in Nat
    <3>1. toHost' \in Seq(Answers')
      BY DEF TypeOK, Answers
    <3>2. Cardinality(OKs(toHost')) \in Nat
      BY <3>1, OKsFinite
    <3> QED
      BY <3>2 DEF Late
  <2> QED
    BY <2>1
<1>7. b + k <= a
  BY <1>5, <1>6
<1>8. ASSUME NEW c \in Nat, Late + c < Cardinality(Due(pc)) PROVE Late' + c < Cardinality(Due(pc'))
  <2>1. a + c < d
    BY <1>2, <1>5, <1>8
  <2>2. b + c < e
    BY <1>4, <1>7, <2>1, FewerAndFewer
  <2> QED
    BY <1>3, <1>6, <2>2
<1>9. ASSUME NEW i \in Dials' PROVE Late' + Coming(i)' < Cardinality(Due(pc'))
  <2>1. i \in Dials /\ i \in Nat
    BY DEF Dials
  <2>2. Coming(i) \in Nat /\ Coming(i)' = Coming(i)
    BY <2>1 DEF Coming
  <2>3. Late + Coming(i) < Cardinality(Due(pc))
    BY <1>1, <2>1 DEF ClearsOrFails
  <2> QED
    BY <1>8, <2>2, <2>3
<1>10. ASSUME mode' \in {"dialing", "online"} PROVE Late' + Coming(1)' < Cardinality(Due(pc'))
  <2>1. Coming(1) \in Nat /\ Coming(1)' = Coming(1)
    BY DEF Coming
  <2>2. Late + Coming(1) < Cardinality(Due(pc))
    BY <1>1, <1>10 DEF ClearsOrFails
  <2> QED
    BY <1>8, <2>1, <2>2
<1>11. ASSUME mode' = "escaped" PROVE Late' < Cardinality(Due(pc'))
  <2>1. Late < Cardinality(Due(pc))
    BY <1>1, <1>11 DEF ClearsOrFails
  <2>2. Late + 0 < Cardinality(Due(pc))
    BY <1>5, <2>1
  <2>3. Late' + 0 < Cardinality(Due(pc'))
    BY <1>8, <2>2
  <2> QED
    BY <1>6, <2>3
<1> QED
  BY <1>9, <1>10, <1>11 DEF ClearsOrFails

LEMMA OneMore ==
  ASSUME NEW a \in Nat, NEW b \in Nat, NEW d \in Nat, NEW c \in Nat, b <= a + 1, a + (c + 1) < d
  PROVE  b + c < d
OBVIOUS

\* What the modem does costs one order for each OK that it gives.
LEMMA ClearsWhileModem ==
  ASSUME TypeOK, ClearsOrFails, EscapeHangsUp, calls' \in Nat, Next, Modem
  PROVE  ClearsOrFails'
<1>1. /\ DriverType /\ ModemType /\ ResultAt \in Nat /\ Late \in Nat
      /\ UNCHANGED <<program, pc>> /\ stopped = FALSE /\ stopped' = FALSE
  <2>1. DriverType /\ ModemType /\ ResultAt \in Nat /\ Late \in Nat
    BY TypeParts, ScriptShape, LateType
  <2>2. UNCHANGED <<program, pc>> /\ ~stopped /\ UNCHANGED stopped
    BY DEF Modem, Abort, Data, Command, Hook, driverVars, modemVars
  <2> QED
    BY <2>1, <2>2 DEF ModemType
<1> SUFFICES ASSUME program # "none", pc < ResultAt - 1 PROVE ClearsOrFails'
  BY <1>1 DEF ClearsOrFails
<1>2. /\ Late' \in Nat /\ Late' <= Late + 1
      /\ UNCHANGED toHost => Late' = Late
  BY LateGrows
<1>3. /\ Len(toModem) \in Nat /\ Len(toModem) >= 1 /\ Len(toModem') = Len(toModem) - 1
      /\ \A i \in 1..Len(toModem') : toModem'[i] = toModem[i + 1]
      /\ Head(toModem) = toModem[1] /\ Head(toModem) \in Orders
  BY ModemTakesHead
<1>4. PICK d \in Nat : d = Cardinality(Due(pc))
  BY <1>1, DueFinite DEF DriverType
<1>5. Cardinality(Due(pc')) = d /\ \A n : Coming(n) = n /\ Coming(n)' = n
  BY <1>1, <1>4 DEF Coming
<1>6. /\ \A i \in Dials : Late + i < d
      /\ mode \in {"dialing", "online"} => Late + 1 < d
      /\ mode = "escaped" => Late < d
  BY <1>4, <1>5 DEF ClearsOrFails
<1>7. ASSUME NEW i \in Dials' PROVE Late' + i < d
  <2>1. i \in Nat /\ i + 1 \in Dials
    BY <1>3 DEF Dials
  <2>2. Late + (i + 1) < d
    BY <1>6, <2>1
  <2> QED
    BY <1>1, <1>2, <2>1, <2>2, OneMore
<1>8. ASSUME mode' \in {"dialing", "online"} PROVE Late' + 1 < d
  <2>1. UNCHANGED toHost /\ (mode = "online" \/ toModem[1].cmd = "ATDT")
    BY <1>3, <1>8 DEF Modem, Abort, Data, Command, Hook, modemVars
  <2>2. toModem[1].cmd = "ATDT" => 1 \in Dials
    BY <1>3 DEF Dials
  <2>3. Late + 1 < d
    BY <1>6, <2>1, <2>2
  <2> QED
    BY <1>2, <2>1, <2>3
<1>9. ASSUME mode' = "escaped" PROVE Late' < d
  <2>1. CASE mode = "online"
    <3>1. Late + 1 < d
      BY <1>6, <2>1
    <3> QED
      BY <1>1, <1>2, <3>1
  <2>2. CASE mode = "escaped"
    <3>1. toModem[1].cmd \in {"+++", "CR", "ATH", "ATZ"}
      <4>1. CASE \A i \in 1..Len(toModem) : NoCommand(i)
        <5>1. 1 \in 1..Len(toModem)
          BY <1>3
        <5> QED
          BY <4>1, <5>1 DEF NoCommand
      <4>2. ASSUME NEW i \in 1..Len(toModem), HangsUp(toModem[i]), \A j \in 1..(i - 1) : NoCommand(j)
            PROVE  toModem[1].cmd \in {"+++", "CR", "ATH", "ATZ"}
        <5>1. i = 1 \/ 1 \in 1..(i - 1)
          BY <1>3
        <5> QED
          BY <4>2, <5>1 DEF NoCommand, HangsUp
      <4> QED
        BY <2>2, <4>1, <4>2 DEF EscapeHangsUp
    <3>2. UNCHANGED toHost
      BY <1>3, <1>9, <2>2, <3>1 DEF Modem, Abort, Data, Command, Hook
    <3> QED
      BY <1>2, <1>6, <2>2, <3>2
  <2>3. mode \in {"online", "escaped"}
    BY <1>9 DEF Modem, Abort, Data, Command, Hook, modemVars
  <2> QED
    BY <2>1, <2>2, <2>3
<1> QED
  BY <1>5, <1>7, <1>8, <1>9 DEF ClearsOrFails

\* A program finds no more commands waiting than Init will have answers for.
LEMMA ClearsAtStart ==
  ASSUME Backlog < 3 + Len(Commands), TypeOK, Start \/ (Close /\ Retried)
  PROVE  ClearsOrFails'
<1>1. /\ DriverType /\ ModemType /\ ResultAt \in Nat /\ CloseAt = ResultAt + 5
      /\ toModem \in Seq(Orders) /\ Len(toModem) \in Nat /\ Backlog \in Nat
  BY TypeParts, ScriptShape, LenProperties, ModemAssumption
<1> SUFFICES ASSUME program' # "none" PROVE ClearsOrFails'
  BY DEF ClearsOrFails
<1>2. pc' = 1 /\ UNCHANGED <<mode, stopped, toModem>>
  BY DEF Start, Close, modemVars
<1>3. Late' = 0
  BY <1>2 DEF Late
<1>4. PICK d \in Nat : d = Cardinality(Due(1))
  BY DueFinite
<1>5. d >= 2 /\ Backlog < d /\ Cardinality(Due(pc')) = d
  <2>1. Len(Commands) \in Nat /\ d >= 3 + Len(Commands)
    BY <1>4, DueAtStart
  <2> QED
    BY <1>1, <1>2, <1>4, <2>1
<1>6. stopped \/ \A i \in Dials : i <= Backlog
  <2>1. CASE Start
    <3>1. stopped \/ Len(toModem) <= Backlog
      BY <2>1 DEF Start
    <3> QED
      BY <1>1, <3>1 DEF Dials
  <2>2. CASE Close /\ Retried
    <3>1. program # "none" /\ Script[pc] = "close" /\ result.is \in retryable
      BY <2>2 DEF Close, Step
    <3>2. pc > ResultAt
      BY <1>1, <3>1, Places DEF DriverType
    <3> QED
      BY <2>2, <3>1, <3>2 DEF Retried
  <2> QED
    BY <2>1, <2>2
<1>7. ASSUME NEW i \in Dials' PROVE Late' + Coming(i)' < d
  <2>1. i \in Dials /\ i \in Nat
    BY <1>2 DEF Dials
  <2>2. Coming(i)' \in Nat /\ Coming(i)' <= Backlog
    BY <1>1, <1>2, <1>6, <2>1 DEF Coming
  <2> QED
    BY <1>1, <1>3, <1>5, <2>2
<1>8. Late' + Coming(1)' < d
  BY <1>3, <1>5 DEF Coming
<1> QED
  BY <1>3, <1>5, <1>7, <1>8 DEF ClearsOrFails

LEMMA ClearsStep ==
  ASSUME Backlog < 3 + Len(Commands), TypeOK, TypeOK', EscapeHangsUp, ClearsOrFails, Retried, Next
  PROVE  ClearsOrFails'
<1>1. /\ DriverType /\ ModemType /\ ResultAt \in Nat /\ ResultAt >= 17 /\ CloseAt = ResultAt + 5
      /\ HangupAt = ResultAt + 2 /\ TalkAt = ResultAt + 1 /\ Late \in Nat
      /\ toHost \in Seq(Answers) /\ calls' \in Nat /\ Cardinality(OKs(toHost)) \in Nat
  <2>1. calls' \in 0..(Programs * MaxRetries)
    BY DEF TypeOK
  <2>2. calls' \in Nat
    BY <2>1, ProductBound
  <2> QED
    BY <2>2, TypeParts, ScriptShape, LateType
<1> SUFFICES ASSUME program' # "none", pc' < ResultAt - 1 PROVE ClearsOrFails'
  BY DEF ClearsOrFails
<1>2. CASE Start \/ Close
  BY <1>2, ClearsAtStart
<1>3. CASE Modem
  BY <1>1, <1>3, ClearsWhileModem
<1>4. CASE Drain \/ Write \/ ReadOK \/ ReadIgnored
  <2>1. /\ program # "none" /\ Step = Script[pc] /\ UNCHANGED <<mode, stopped>>
        /\ pc' \in {pc + 1, CloseAt, HangupAt}
    BY <1>4 DEF Drain, Write, ReadOK, ReadIgnored, ReadsUntil, GoTo, Step, modemVars, AfterTimeout,
      AfterError
  <2>2. pc' = pc + 1 /\ pc < ResultAt - 2 /\ pc \in 1..CloseAt
    BY <1>1, <2>1 DEF DriverType
  <2>3. Dials' \subseteq Dials
    <3>1. CASE UNCHANGED toModem
      BY <3>1 DEF Dials
    <3>2. CASE Write /\ ~ UNCHANGED toModem
      <4>1. /\ Len(toModem') = Len(toModem) + 1 /\ Len(toModem) \in Nat
            /\ \A i \in 1..Len(toModem) : toModem'[i] = toModem[i]
            /\ toModem'[Len(toModem')] = [cmd |-> Step, call |-> calls']
        BY <1>1, <3>2, WriteAppends
      <4>2. Step # "ATDT"
        BY <1>1, <2>1, <2>2, Places
      <4> QED
        BY <4>1, <4>2 DEF Dials
    <3> QED
      BY <1>4, <3>1, <3>2 DEF Drain, ReadOK, ReadIgnored, ReadsUntil
  <2> DEFINE k == IF Script[pc] = "ok" THEN 1 ELSE 0
  <2>4. Late' + k <= Late
    <3>1. CASE toHost' = <<>> /\ Script[pc] # "ok"
      <4>1. Late' = 0
        BY <3>1, NoOKs DEF Late
      <4> QED
        BY <1>1, <3>1, <4>1
    <3>2. ASSUME Step # "drain" PROVE pc # 1 /\ pc' # 1
      BY <1>1, <2>1, <2>2, <3>2, Places
    <3>3. CASE Write
      <4>1. Step # "drain" /\ Script[pc] # "ok" /\ UNCHANGED toHost
        BY <2>1, <3>3 DEF Write
      <4> QED
        BY <1>1, <3>2, <4>1 DEF Late
    <3>4. ASSUME NEW n \in 1..Len(toHost), ReadsUntil(n), Step # "drain",
                 Script[pc] = "ok" => \E j \in 1..n : toHost[j].says = "OK"
          PROVE  Late' + k <= Late
      <4>1. toHost' = SubSeq(toHost, n + 1, Len(toHost))
        BY <3>4 DEF ReadsUntil
      <4> DEFINE rest == Cardinality(OKs(SubSeq(toHost, n + 1, Len(toHost))))
      <4>2. /\ rest \in Nat /\ rest <= Cardinality(OKs(toHost))
            /\ (\E j \in 1..n : toHost[j].says = "OK") => rest + 1 <= Cardinality(OKs(toHost))
        BY <1>1, OKsRead
      <4>3. Late' = rest /\ Late = Cardinality(OKs(toHost))
        BY <3>2, <3>4, <4>1 DEF Late
      <4> HIDE DEF rest
      <4> QED
        BY <1>1, <3>4, <4>2, <4>3
    <3>5. CASE ReadOK
      <4>1. PICK n \in 1..Len(toHost) :
              ReadsUntil(n) /\ "ERROR" \notin Words(SubSeq(toHost, 1, n))
        BY <1>1, <2>2, <3>5 DEF ReadOK, GoTo, AfterTimeout
      <4>2. Step = "ok"
        BY <3>5 DEF ReadOK
      <4>3. "OK" \in Words(SubSeq(toHost, 1, n))
        BY <4>1, <4>2 DEF ReadsUntil, Matched, Matches
      <4>4. Len(SubSeq(toHost, 1, n)) = n /\ \A j \in 1..n : SubSeq(toHost, 1, n)[j] = toHost[j]
        BY <1>1
      <4>5. \E j \in 1..n : toHost[j].says = "OK"
        BY <4>3, <4>4 DEF Words
      <4> QED
        BY <3>4, <4>1, <4>2, <4>5
    <3>6. CASE ReadIgnored
      <4>1. Step = "ignored" /\ Script[pc] # "ok"
        BY <2>1, <3>6 DEF ReadIgnored
      <4>2. toHost' = <<>> \/ \E n \in 1..Len(toHost) : ReadsUntil(n)
        BY <3>6 DEF ReadIgnored
      <4> HIDE DEF k
      <4> QED
        BY <3>1, <3>4, <4>1, <4>2
    <3>7. CASE Drain
      BY <2>1, <3>1, <3>7 DEF Drain
    <3> QED
      BY <1>4, <3>3, <3>5, <3>6, <3>7
  <2> QED
    BY <2>1, <2>2, <2>3, <2>4, ClearsOn
<1>5. CASE Line
  <2>1. /\ UNCHANGED <<program, pc, toModem, stopped>> /\ Late' = Late
        /\ (mode' = "command" \/ (mode = "dialing" /\ mode' = "online"))
    BY <1>5, LateGrows DEF Line, Hook, driverVars
  <2> QED
    BY <2>1 DEF ClearsOrFails, Dials, Coming
<1>6. CASE Stops
  <2>1. UNCHANGED <<program, pc, toModem, mode, toHost>> /\ stopped = FALSE /\ stopped' = TRUE
    BY <1>1, <1>6 DEF Stops, driverVars, ModemType
  <2>2. Late' = Late
    BY <2>1 DEF Late
  <2>3. PICK d \in Nat : d = Cardinality(Due(pc))
    BY <1>1, DueFinite DEF DriverType
  <2>4. \A i \in Dials : Late + i < d => Late + 0 < d
    BY <1>1, <2>3 DEF Dials
  <2>5. Late + 1 < d => Late + 0 < d
    BY <1>1, <2>3
  <2>6. Dials' = Dials
    BY <2>1 DEF Dials
  <2>7. (\A n : Coming(n) = n /\ Coming(n)' = 0) /\ Cardinality(Due(pc')) = d
    BY <2>1, <2>3 DEF Coming
  <2> QED
    BY <2>1, <2>2, <2>3, <2>4, <2>5, <2>6, <2>7 DEF ClearsOrFails
<1>7. CASE ReadResult \/ Talk \/ TalkEnds
  <2>1. program # "none" /\ Script[pc] \in {"result", "talk"}
        /\ pc' \in {pc, CloseAt, HangupAt, TalkAt}
    BY <1>7 DEF ReadResult, Talk, TalkEnds, Step, GoTo, driverVars, Failed
  <2>2. pc \in {ResultAt, TalkAt}
    BY <1>1, <2>1, Places DEF DriverType
  <2> QED
    BY <1>1, <2>1, <2>2
<1>8. CASE Dies
  BY <1>8 DEF Dies
<1> QED
  BY <1>2, <1>3, <1>4, <1>5, <1>6, <1>7, <1>8 DEF Next, Driver

-----------------------------------------------------------------------------
\* Dial has the line to itself.

\* The next call of the modem: none, the same, or that of the ATDT it comes to.
LEMMA NextCall ==
  ASSUME TypeOK, Modem \/ Line \/ Stops
  PROVE  /\ \/ call' \in {0, call}
            \/ Modem /\ 1 \in Dials /\ call' = toModem[1].call
         /\ mode = "command" /\ (Modem => 1 \notin Dials) => mode' = "command" /\ call' = call
<1>1. CASE Modem
  <2>1. Head(toModem) = toModem[1] /\ Len(toModem) >= 1 /\ Len(toModem) \in Nat
    BY <1>1, ModemTakesHead
  <2>2. toModem[1].cmd = "ATDT" => 1 \in Dials
    BY <2>1 DEF Dials
  <2>3. mode = "command" => call = 0
    BY TypeParts DEF ModemType
  <2> QED
    BY <1>1, <2>1, <2>2, <2>3 DEF Modem, Abort, Data, Command, Hook, modemVars
<1>2. CASE Line
  BY <1>2 DEF Line, Hook
<1>3. CASE Stops
  BY <1>3 DEF Stops
<1> QED
  BY <1>1, <1>2, <1>3

\* No ATDT comes from elsewhere than Dial.
LEMMA OldDials ==
  ASSUME TypeOK, Next, calls' \in Nat, ~(Write /\ Step = "ATDT"), NEW i \in Dials'
  PROVE  \/ Modem /\ i \in Nat /\ i + 1 \in Dials /\ toModem'[i] = toModem[i + 1]
         \/ ~Modem /\ i \in Dials /\ toModem'[i] = toModem[i]
<1>1. i \in 1..Len(toModem') /\ toModem'[i].cmd = "ATDT"
  BY DEF Dials
<1>2. ~(Write /\ toModem'[i] = [cmd |-> Step, call |-> calls'])
  <2>1. SUFFICES ASSUME Write, toModem'[i] = [cmd |-> Step, call |-> calls'] PROVE FALSE
    OBVIOUS
  <2>2. toModem'[i].cmd = Step
    BY <2>1
  <2> QED
    BY <1>1, <2>1, <2>2
<1>3. ~(toModem'[i] = [cmd |-> "CR", call |-> calls])
  BY <1>1
<1> QED
  BY <1>1, <1>2, <1>3, QueueElements DEF Dials

\* What becomes of the line while Dial sends nothing.
LEMMA OwnCallKept ==
  ASSUME TypeOK, Next, calls' \in Nat, OwnCall, Modem \/ Line \/ Stops
  PROVE  OwnCall'
<1>1. /\ ModemType /\ calls \in Nat /\ UNCHANGED <<program, pc, calls>>
      /\ ResultAt \in Nat /\ pc \in 1..CloseAt
  BY TypeParts, ScriptShape, ProductBound DEF Modem, Line, Stops, driverVars, DriverType
<1>2. ~(Write /\ Step = "ATDT")
  <2>1. SUFFICES ASSUME Write, Step = "ATDT" PROVE FALSE
    OBVIOUS
  <2>2. pc = ResultAt - 1
    BY <1>1, <2>1, Places DEF Step
  <2>3. pc' \in {pc + 1, HangupAt, CloseAt}
    BY <2>1 DEF Write, GoTo, AfterError
  <2> QED
    BY <1>1, <2>2, <2>3, ScriptShape
<1>3. ASSUME mode = "command", Modem => 1 \notin Dials
      PROVE  /\ mode' = "command" /\ call' = call
             /\ (\A j \in 1..Len(toHost) : toHost[j].call = 0)
                  => \A j \in 1..Len(toHost') : toHost'[j].call = 0
  <2>1. mode' = "command" /\ call' = call
    BY <1>3, NextCall
  <2>2. ASSUME \A j \in 1..Len(toHost) : toHost[j].call = 0, NEW j \in 1..Len(toHost')
        PROVE  toHost'[j].call = 0
    BY <1>3, <2>2, HostElements DEF Emitted
  <2> QED
    BY <2>1, <2>2
<1>4. CASE program # "none" /\ pc = ResultAt - 1
  <2>1. mode = "command" /\ Dials = {} /\ \A i \in 1..Len(toHost) : toHost[i].call = 0
    BY <1>4 DEF OwnCall
  <2>2. Dials' = {}
    BY <1>1, <1>2, <2>1, OldDials
  <2>3. mode' = "command" /\ \A j \in 1..Len(toHost') : toHost'[j].call = 0
    BY <1>3, <2>1
  <2> QED
    BY <1>1, <1>4, <2>2, <2>3 DEF OwnCall
<1>5. CASE program # "none" /\ pc = ResultAt
  <2>1. /\ call \in {0, calls}
        /\ \A i \in 1..Len(toHost) : toHost[i].call \in {0, calls}
    BY <1>5 DEF OwnCall
  <2>2. ASSUME NEW i \in Dials
        PROVE  /\ toModem[i].call = calls /\ call = 0 /\ Dials = {i} /\ mode = "command"
               /\ \A j \in 1..Len(toHost) : toHost[j].call = 0
    BY <1>1, <1>5 DEF OwnCall, ModemType
  <2>3. call' \in {0, calls}
    BY <2>1, <2>2, NextCall
  <2>4. ASSUME NEW j \in 1..Len(toHost') PROVE toHost'[j].call \in {0, calls}
    BY <2>1, HostElements DEF Emitted
  <2>5. ASSUME NEW i \in Dials'
        PROVE  /\ toModem'[i].call = calls /\ call' = 0 /\ Dials' = {i}
               /\ \A j \in 1..Len(toHost') : toHost'[j].call = 0
    <3>1. CASE Modem
      <4>1. i \in Nat /\ i + 1 \in Dials /\ toModem'[i] = toModem[i + 1]
        BY <1>1, <1>2, <3>1, OldDials
      <4>2. Dials = {i + 1} /\ mode = "command" /\ i # 0
        <5>1. i # 0
          BY DEF Dials
        <5> QED
          BY <2>2, <4>1, <5>1
      <4>3. 1 \notin Dials
        BY <4>1, <4>2
      <4>4. ASSUME NEW k \in Dials' PROVE k = i
        <5>1. k \in Nat /\ k + 1 \in Dials
          BY <1>1, <1>2, <3>1, OldDials
        <5> QED
          BY <4>1, <4>2, <5>1
      <4> QED
        BY <1>3, <2>2, <4>1, <4>2, <4>3, <4>4
    <3>2. CASE ~Modem
      <4>1. i \in Dials /\ toModem'[i] = toModem[i]
        BY <1>1, <1>2, <3>2, OldDials
      <4>2. Dials = {i} /\ mode = "command"
        BY <2>2, <4>1
      <4>3. ASSUME NEW k \in Dials' PROVE k = i
        BY <1>1, <1>2, <3>2, <4>2, OldDials
      <4> QED
        BY <1>3, <2>2, <3>2, <4>1, <4>2, <4>3
    <3> QED
      BY <3>1, <3>2
  <2>6. \A i \in Dials' : /\ toModem'[i].call = calls' /\ call' = 0 /\ Dials' = {i}
                          /\ \A j \in 1..Len(toHost') : toHost'[j].call = 0
    BY <1>1, <2>5
  <2> QED
    BY <1>1, <1>5, <2>3, <2>4, <2>6 DEF OwnCall
<1>6. CASE ~(program # "none" /\ pc \in {ResultAt - 1, ResultAt})
  BY <1>1, <1>6 DEF OwnCall
<1> QED
  BY <1>4, <1>5, <1>6

\* How a program comes to its ATDT, and past it.
LEMMA OwnCallStep ==
  ASSUME TypeOK, TypeOK', Next, ClearsOrFails, OwnCall
  PROVE  OwnCall'
<1>1. /\ DriverType /\ ModemType /\ ResultAt \in Nat /\ ResultAt >= 17 /\ CloseAt = ResultAt + 5
      /\ HangupAt = ResultAt + 2 /\ TalkAt = ResultAt + 1 /\ calls' \in Nat /\ Late \in Nat
  <2>1. calls' \in 0..(Programs * MaxRetries)
    BY DEF TypeOK
  <2>2. calls' \in Nat
    BY <2>1, ProductBound
  <2> QED
    BY <2>2, TypeParts, ScriptShape, LateType
<1>2. CASE Modem \/ Line \/ Stops
  BY <1>1, <1>2, OwnCallKept
<1>3. CASE ~(program' # "none" /\ pc' \in {ResultAt - 1, ResultAt})
  BY <1>3 DEF OwnCall
<1>4. CASE Start \/ Dies \/ Close
  <2>1. pc' = 1
    BY <1>4 DEF Start, Dies, Close
  <2> QED
    BY <1>1, <1>3, <2>1
<1>5. CASE Talk \/ TalkEnds \/ ReadResult
  <2>1. program # "none" /\ Script[pc] \in {"talk", "result"} /\ pc' \in {pc, HangupAt, CloseAt, TalkAt}
        /\ (pc' = pc => Script[pc] = "talk" \/ pc' \in {HangupAt, CloseAt, TalkAt})
    BY <1>5 DEF Talk, TalkEnds, ReadResult, Step, GoTo, Failed, driverVars
  <2>2. pc' \in {TalkAt, HangupAt, CloseAt}
    BY <1>1, <2>1, Places DEF DriverType
  <2> QED
    BY <1>1, <1>3, <2>2
<1>6. CASE Drain \/ Write \/ ReadOK \/ ReadIgnored
  <2> SUFFICES ASSUME program' # "none", pc' \in {ResultAt - 1, ResultAt} PROVE OwnCall'
    BY <1>3
  <2>1. /\ program # "none" /\ Step = Script[pc] /\ UNCHANGED <<mode, call, stopped>>
        /\ pc' \in {pc + 1, CloseAt, HangupAt}
    BY <1>6 DEF Drain, Write, ReadOK, ReadIgnored, ReadsUntil, GoTo, Step, modemVars, AfterTimeout,
      AfterError
  <2>2. pc' = pc + 1 /\ pc \in {ResultAt - 2, ResultAt - 1} /\ pc \in 1..CloseAt
    BY <1>1, <2>1 DEF DriverType
  <2>3. CASE pc = ResultAt - 2
    <3>1. Step = "drain"
      BY <2>1, <2>3, ScriptShape
    <3>2. toHost' = <<>> /\ UNCHANGED toModem
      BY <1>6, <3>1 DEF Drain, Write, ReadOK, ReadIgnored
    <3>3. Cardinality(Due(pc)) = 0 /\ pc < ResultAt - 1
      BY <1>1, <2>3, NothingDue
    <3>4. ASSUME NEW i \in Dials PROVE FALSE
      <4>1. Coming(i) \in Nat
        BY DEF Dials, Coming
      <4>2. Late + Coming(i) < 0
        BY <2>1, <3>3 DEF ClearsOrFails
      <4> QED
        BY <1>1, <4>1, <4>2
    <3>5. mode = "command"
      <4>1. CASE mode \in {"dialing", "online"}
        <5>1. Coming(1) \in Nat
          BY DEF Coming
        <5>2. Late + Coming(1) < 0
          BY <2>1, <3>3, <4>1 DEF ClearsOrFails
        <5> QED
          BY <1>1, <5>1, <5>2
      <4>2. CASE mode = "escaped"
        <5>1. Late < 0
          BY <2>1, <3>3, <4>2 DEF ClearsOrFails
        <5> QED
          BY <1>1, <5>1
      <4> QED
        BY <1>1, <4>1, <4>2 DEF ModemType
    <3>6. Dials' = {} /\ mode' = "command"
      BY <2>1, <3>2, <3>4, <3>5 DEF Dials
    <3>7. Len(toHost') = 0 /\ pc' = ResultAt - 1
      BY <1>1, <2>2, <2>3, <3>2
    <3> QED
      BY <1>1, <3>6, <3>7 DEF OwnCall
  <2>4. CASE pc = ResultAt - 1
    <3>1. Step = "ATDT" /\ Write
      BY <1>6, <2>1, <2>4, ScriptShape DEF Drain, ReadOK, ReadIgnored
    <3>2. AfterError \in {HangupAt, CloseAt}
      BY <1>1, <2>1, <2>4, <3>1 DEF AfterError
    <3>3. toModem' = Append(toModem, [cmd |-> Step, call |-> calls']) /\ UNCHANGED toHost
      BY <1>1, <2>2, <2>4, <3>1, <3>2 DEF Write, GoTo
    <3>4. mode = "command" /\ Dials = {} /\ \A i \in 1..Len(toHost) : toHost[i].call = 0
      BY <2>1, <2>4 DEF OwnCall
    <3>5. call = 0 /\ call' = 0
      BY <1>1, <2>1, <3>4 DEF ModemType
    <3>6. /\ Len(toModem') = Len(toModem) + 1 /\ Len(toModem) \in Nat
          /\ \A i \in 1..Len(toModem) : toModem'[i] = toModem[i]
          /\ toModem'[Len(toModem) + 1] = [cmd |-> Step, call |-> calls']
      BY <1>1, <3>1, <3>3, WriteAppends
    <3>7. ASSUME NEW i \in Dials' PROVE i = Len(toModem) + 1 /\ toModem'[i].call = calls'
      BY <3>4, <3>6 DEF Dials
    <3>8. \A i \in Dials' : toModem'[i].call = calls' /\ Dials' = {i}
      BY <3>7
    <3>9. pc' = ResultAt /\ pc' # ResultAt - 1
      BY <1>1, <2>2, <2>4
    <3>10. \A i \in 1..Len(toHost') : toHost'[i].call = 0
      BY <3>3, <3>4
    <3> QED
      BY <3>5, <3>8, <3>9, <3>10 DEF OwnCall
  <2> QED
    BY <2>2, <2>3, <2>4
<1> QED
  BY <1>2, <1>4, <1>5, <1>6 DEF Next, Driver

-----------------------------------------------------------------------------
\* What Dial makes of its answer.

LEMMA ReadResultIsOurs ==
  ASSUME TypeOK, Numbered, OwnCall, ReadResult
  PROVE  /\ pc' > ResultAt /\ UNCHANGED <<program, calls>>
         /\ ResultIsOurs'
         /\ result'.is \in retryable => stopped' \/ Dials' = {}
<1>1. /\ ModemType /\ toHost \in Seq(Answers) /\ Len(toHost) \in Nat /\ ResultAt \in Nat
      /\ TalkAt = ResultAt + 1 /\ HangupAt = ResultAt + 2 /\ CloseAt = ResultAt + 5
  BY TypeParts, ScriptShape
<1>2. /\ program # "none" /\ Script[pc] = "result" /\ Step = "result"
      /\ UNCHANGED <<program, calls, toModem, stopped>> /\ pc' \in {TalkAt, HangupAt, CloseAt}
  BY DEF ReadResult, ReadsUntil, Step, GoTo, Failed, modemVars
<1>3. pc = ResultAt
  BY <1>2, Places, TypeParts DEF DriverType
<1>4. Dials' = Dials
  BY <1>2 DEF Dials
<1>5. CASE result' = [is |-> "TIMEOUT", of |-> {}] /\ (stopped \/ toModem = <<>>)
  <2>1. result'.is = "TIMEOUT"
    BY <1>5
  <2>2. stopped' \/ Dials' = {}
    BY <1>2, <1>4, <1>5 DEF Dials
  <2> QED
    BY <1>1, <1>2, <2>1, <2>2 DEF ResultIsOurs
<1>6. ASSUME NEW n \in 1..Len(toHost), ReadsUntil(n), result' = ResultOf(SubSeq(toHost, 1, n))
      PROVE  ResultIsOurs' /\ (result'.is \in retryable => Dials' = {})
  <2>1. /\ result'.is \in {"CONNECT", "BUSY", "NO_CARRIER", "NO_DIALTONE", "ERROR"}
        /\ \E i \in 1..n : toHost[i].says = result'.is
        /\ \A i \in 1..n : toHost[i].says = result'.is => toHost[i].call \in result'.of
        /\ \A c \in result'.of : \E i \in 1..n : toHost[i].says = result'.is /\ toHost[i].call = c
    <3>1. Matched(n)
      BY <1>6 DEF ReadsUntil
    <3> QED
      BY <1>1, <1>2, <1>6, <3>1, ResultFits
  <2>2. ASSUME result'.is # "ERROR", NEW i \in 1..n, toHost[i].says = result'.is
        PROVE  toHost[i].call = calls /\ Dials = {}
    <3>1. i \in 1..Len(toHost)
      BY <1>1
    <3>2. toHost[i].call # 0
      BY <2>1, <2>2, <3>1 DEF Numbered
    <3> QED
      BY <1>2, <1>3, <3>1, <3>2 DEF OwnCall
  <2>3. result'.is # "ERROR" => result'.of = {calls} /\ Dials = {}
    BY <2>1, <2>2
  <2> QED
    BY <1>2, <1>4, <2>1, <2>3 DEF ResultIsOurs, retryable
<1>7. ResultIsOurs' /\ (result'.is \in retryable => stopped' \/ Dials' = {})
  BY <1>5, <1>6 DEF ReadResult
<1> QED
  BY <1>1, <1>2, <1>7

LEMMA RetriedStep ==
  ASSUME TypeOK, TypeOK', Numbered, OwnCall, Retried, ResultIsOurs, Next
  PROVE  Retried' /\ ResultIsOurs'
<1>1. /\ DriverType /\ ModemType /\ ResultAt \in Nat /\ ResultAt >= 17 /\ CloseAt = ResultAt + 5
      /\ HangupAt = ResultAt + 2 /\ TalkAt = ResultAt + 1 /\ calls' \in Nat
      /\ pc' \in Nat
  <2>1. calls' \in 0..(Programs * MaxRetries) /\ pc' \in 1..CloseAt /\ CloseAt \in Nat
    BY ScriptShape DEF TypeOK, CloseAt
  <2>2. calls' \in Nat
    BY <2>1, ProductBound
  <2> QED
    BY <2>1, <2>2, TypeParts, ScriptShape
<1>2. CASE ReadResult
  BY <1>1, <1>2, ReadResultIsOurs DEF Retried
<1>3. CASE result' = NoResult /\ (Start \/ Close)
  BY <1>3 DEF NoResult, Retried, ResultIsOurs, retryable
<1>4. CASE program' = "none" /\ UNCHANGED <<result, calls>>
  BY <1>4 DEF Retried, ResultIsOurs
<1>5. CASE Write /\ Step = "ATDT"
  <2>1. program # "none" /\ pc = ResultAt - 1 /\ UNCHANGED program /\ Script[pc] = "ATDT"
    BY <1>1, <1>5, Places DEF Step, DriverType, Write, GoTo
  <2>2. result = NoResult
    BY <1>1, <2>1 DEF Retried
  <2>3. AfterError \in {HangupAt, CloseAt}
    BY <1>1, <1>5, <2>1 DEF AfterError
  <2>4. \/ result' = NoResult /\ pc' = ResultAt
        \/ result' = [is |-> "ERROR", of |-> {}] /\ pc' > ResultAt
    BY <1>1, <1>5, <2>1, <2>2, <2>3 DEF Write, GoTo
  <2>5. result'.is \in {"none", "ERROR"} /\ (pc' <= ResultAt => result' = NoResult)
    BY <1>1, <2>4 DEF NoResult
  <2> QED
    BY <2>5 DEF Retried, ResultIsOurs, retryable
<1>6. CASE /\ ~(Write /\ Step = "ATDT") /\ program # "none" /\ UNCHANGED <<program, result, calls>>
           /\ stopped => stopped'
           /\ pc' \in {pc, pc + 1, CloseAt, HangupAt} /\ (pc' > ResultAt => pc > ResultAt \/ result = NoResult)
           /\ (pc' <= ResultAt => pc <= ResultAt)
  <2>1. Dials = {} => Dials' = {}
    BY <1>1, <1>6, OldDials
  <2>2. result = NoResult => result.is \notin retryable
    BY DEF NoResult, retryable
  <2>3. ResultIsOurs'
    BY <1>6 DEF ResultIsOurs
  <2>4. pc' <= ResultAt => result' = NoResult
    BY <1>6 DEF Retried
  <2>5. pc' > ResultAt /\ result'.is \in retryable => stopped' \/ Dials' = {}
    BY <1>6, <2>1, <2>2 DEF Retried
  <2> QED
    BY <2>3, <2>4, <2>5 DEF Retried
<1>7. CASE Drain \/ Write \/ ReadOK \/ ReadIgnored \/ Talk \/ TalkEnds
  <2> SUFFICES ASSUME ~(Write /\ Step = "ATDT") PROVE Retried' /\ ResultIsOurs'
    BY <1>5
  <2>1. program # "none" /\ UNCHANGED <<program, result, calls, stopped>>
    BY <1>7 DEF Drain, Write, ReadOK, ReadIgnored, ReadsUntil, Talk, TalkEnds, GoTo, Step,
      driverVars, modemVars
  <2>2. pc' \in {pc, pc + 1, CloseAt, HangupAt}
    BY <1>7 DEF Drain, Write, ReadOK, ReadIgnored, Talk, TalkEnds, GoTo, AfterTimeout, AfterError,
      driverVars
  <2>3. pc <= ResultAt => result = NoResult
    BY <2>1 DEF Retried
  <2>4. pc' <= ResultAt => pc <= ResultAt
    BY <1>1, <2>2 DEF DriverType
  <2>5. pc > ResultAt \/ pc <= ResultAt
    BY <1>1 DEF DriverType
  <2> QED
    BY <1>6, <2>1, <2>2, <2>3, <2>4, <2>5
<1>8. CASE Modem \/ Line \/ Stops
  <2>1. UNCHANGED <<program, pc, result, calls>> /\ (stopped => stopped')
    BY <1>8 DEF Modem, Line, Stops, Abort, Data, Command, Hook, driverVars, modemVars
  <2>2. ~(Write /\ Step = "ATDT")
    <3>1. SUFFICES ASSUME Write, Step = "ATDT" PROVE FALSE
      OBVIOUS
    <3>2. calls' = calls + 1 /\ calls \in Nat
      BY <3>1, TypeParts, ProductBound DEF Write
    <3> QED
      BY <2>1, <3>2
  <2>3. CASE program = "none"
    BY <1>4, <2>1, <2>3
  <2>4. CASE program # "none"
    BY <1>6, <2>1, <2>2, <2>4
  <2> QED
    BY <2>3, <2>4
<1>9. Start \/ Dies \/ Close => \/ result' = NoResult /\ (Start \/ Close)
                                \/ program' = "none" /\ UNCHANGED <<result, calls>>
  BY DEF Start, Dies, Close
<1> QED
  BY <1>2, <1>3, <1>4, <1>7, <1>8, <1>9 DEF Next, Driver

-----------------------------------------------------------------------------
\* The invariant, and what follows from it.

LEMMA InitTypes == Init => TypeOK /\ CallsCounted /\ Numbered
<1> SUFFICES ASSUME Init PROVE TypeOK /\ CallsCounted /\ Numbered
  OBVIOUS
<1>1. 1 \in 1..CloseAt /\ 1 \in 1..MaxRetries /\ Programs \in Nat
  BY ScriptShape, ModemAssumption
<1>2. calls = 0 /\ 0 \in 0..(Programs * MaxRetries)
  BY ProductBound DEF Init
<1>3. result \in Results
  BY DEF Init, NoResult, Results
<1>4. toModem \in Seq(Orders) /\ toHost \in Seq(Answers)
  BY DEF Init
<1>5. DriverType /\ ModemType
  <2>1. DriverType
    BY <1>1 DEF Init, DriverType
  <2>2. /\ mode = "command" /\ stopped = FALSE /\ call = 0 /\ call \in 0..calls
    BY DEF Init
  <2>3. ModemType
    BY <2>2, Zenon DEF ModemType
  <2> QED
    BY <2>1, <2>3
<1>6. CallsCounted
  BY <1>2, ProductBound DEF Init, CallsCounted
<1>7. Numbered
  BY DEF Init, Numbered, Dials
<1> QED
  BY <1>2, <1>3, <1>4, <1>5, <1>6, <1>7, TypeParts

LEMMA InitModemInv == Init => ModemInv
<1> SUFFICES ASSUME Init PROVE ModemInv
  OBVIOUS
<1>1. program = "none" /\ mode = "command" /\ toModem = <<>> /\ result = NoResult
  BY DEF Init
<1>2. EscapeHangsUp /\ ClearsOrFails /\ OwnCall /\ Retried
  BY <1>1 DEF EscapeHangsUp, ClearsOrFails, OwnCall, Retried
<1>3. ResultIsOurs
  BY <1>1 DEF ResultIsOurs, NoResult
<1> QED
  BY <1>2, <1>3, InitTypes DEF ModemInv

LEMMA TypesKept ==
  ASSUME TypeOK, CallsCounted, Numbered, [Next]_vars
  PROVE  TypeOK' /\ CallsCounted' /\ Numbered'
<1>1. CASE Next
  <2>1. TypeOK' /\ CallsCounted'
    BY <1>1, TypeStep
  <2>2. calls' \in Nat
    <3>1. calls' \in 0..(Programs * MaxRetries)
      BY <2>1 DEF TypeOK
    <3> QED
      BY <3>1, ProductBound
  <2> QED
    BY <1>1, <2>1, <2>2, NumberedStep
<1>2. CASE UNCHANGED vars
  BY <1>2 DEF vars, driverVars, modemVars, TypeOK, Answers, CallsCounted, Numbered, Dials
<1> QED
  BY <1>1, <1>2

\* Whatever modem_init is and however many programs use the modem, the variables have
\* their types: the driver is at a step that there is, and acquireAndDial makes at most
\* maxRetries calls for each connection asked for.
THEOREM ModemATType == Spec => []TypeOK
<1>1. Init => TypeOK /\ CallsCounted /\ Numbered
  BY InitTypes
<1>2. (TypeOK /\ CallsCounted /\ Numbered) /\ [Next]_vars
        => (TypeOK /\ CallsCounted /\ Numbered)'
  BY TypesKept
<1> QED
  BY <1>1, <1>2, PTL DEF Spec

LEMMA ModemInvKept ==
  ASSUME Backlog < 3 + Len(Commands), ModemInv, [Next]_vars
  PROVE  ModemInv'
<1>1. TypeOK' /\ CallsCounted' /\ Numbered'
  BY TypesKept DEF ModemInv
<1>2. CASE Next
  <2>1. calls' \in Nat
    <3>1. calls' \in 0..(Programs * MaxRetries)
      BY <1>1 DEF TypeOK
    <3> QED
      BY <3>1, ProductBound
  <2>2. EscapeHangsUp'
    BY <1>2, <2>1, EscapeStep DEF ModemInv
  <2>3. ClearsOrFails'
    BY <1>1, <1>2, ClearsStep DEF ModemInv
  <2>4. OwnCall'
    BY <1>1, <1>2, OwnCallStep DEF ModemInv
  <2>5. Retried' /\ ResultIsOurs'
    BY <1>1, <1>2, RetriedStep DEF ModemInv
  <2> QED
    BY <1>1, <2>2, <2>3, <2>4, <2>5 DEF ModemInv
<1>3. CASE UNCHANGED vars
  <2>1. UNCHANGED <<program, pc, result, toModem, toHost, mode, call, stopped, calls>>
    BY <1>3 DEF vars, driverVars, modemVars
  <2>2. EscapeHangsUp'
    BY <2>1 DEF ModemInv, EscapeHangsUp, MayHangUp, NoCommand, HangsUp
  <2>3. ClearsOrFails'
    BY <2>1 DEF ModemInv, ClearsOrFails, Dials, Late, Coming
  <2>4. OwnCall'
    BY <2>1 DEF ModemInv, OwnCall, Dials
  <2>5. Retried' /\ ResultIsOurs'
    BY <2>1 DEF ModemInv, Retried, Dials, ResultIsOurs
  <2> QED
    BY <1>1, <2>2, <2>3, <2>4, <2>5 DEF ModemInv
<1> QED
  BY <1>2, <1>3

\* As long as fewer commands wait for the modem, when a program opens it, than Init and
\* Configure wait for answers, ModemInv holds: an Init that succeeds has cleared the line.
THEOREM ModemATInvariance ==
  ASSUME Backlog < 3 + Len(Commands)
  PROVE  Spec => []ModemInv
<1>1. Init => ModemInv
  BY InitModemInv
<1>2. ModemInv /\ [Next]_vars => ModemInv'
  BY ModemInvKept
<1> QED
  BY <1>1, <1>2, PTL DEF Spec

\* Then the CONNECT, BUSY, NO CARRIER or NO DIALTONE that Dial returns is about the call
\* that it made, wherever earlier programs were killed.
THEOREM DialReportsOwnCall ==
  ASSUME Backlog < 3 + Len(Commands)
  PROVE  Spec => []ResultIsOurs
<1>1. ModemInv => ResultIsOurs
  BY DEF ModemInv
<1> QED
  BY <1>1, ModemATInvariance, PTL

\* Then no call of an earlier attempt or program is up while Dial waits for its result.
THEOREM NoOldCall ==
  ASSUME Backlog < 3 + Len(Commands)
  PROVE  Spec => []LineIsCleared
<1>1. ASSUME ModemInv, Step = "result", mode # "command" PROVE call = calls
  <2>1. program # "none" /\ Script[pc] = "result" /\ DriverType /\ ModemType
    BY <1>1, TypeParts DEF Step, ModemInv
  <2>2. pc = ResultAt
    BY <2>1, Places DEF DriverType
  <2>3. call \in {0, calls}
    BY <1>1, <2>1, <2>2 DEF ModemInv, OwnCall
  <2> QED
    BY <1>1, <2>1, <2>3 DEF ModemType
<1>2. ModemInv => LineIsCleared
  BY <1>1 DEF LineIsCleared
<1> QED
  BY <1>2, ModemATInvariance, PTL


-----------------------------------------------------------------------------
\* Why a dial comes to its end: there is no step that the driver could repeat.
Advances ==
  \/ program' = "none"
  \/ attempt < attempt'
  \/ attempt' = attempt /\ pc < pc'

LEMMA StepAdvances ==
  ASSUME TypeOK, Driver
  PROVE  Advances
<1>1. DriverType
  BY TypeParts
<1>2. /\ ResultAt \in Nat /\ ResultAt >= 17 /\ TalkAt = ResultAt + 1 /\ HangupAt = ResultAt + 2
      /\ CloseAt = ResultAt + 5 /\ pc \in 1..CloseAt /\ attempt \in Nat
  BY <1>1, ScriptShape, ModemAssumption DEF DriverType
<1>3. CASE Close
  BY <1>2, <1>3 DEF Close, Advances
<1>4. ASSUME UNCHANGED attempt, pc' \in {pc + 1, CloseAt}, pc < CloseAt PROVE Advances
  BY <1>2, <1>4 DEF Advances
<1>5. CASE Drain \/ ReadOK \/ ReadIgnored
  <2>1. Script[pc] \in {"drain", "ok", "ignored"}
    BY <1>5 DEF Drain, ReadOK, ReadIgnored, Step
  <2>2. pc < CloseAt
    BY <1>2, <2>1, Places
  <2>3. UNCHANGED attempt /\ pc' \in {pc + 1, CloseAt}
    BY <1>5 DEF Drain, ReadOK, ReadIgnored, GoTo, AfterTimeout
  <2> QED BY <1>4, <2>2, <2>3
<1>6. CASE Write
  <2>1. Script[pc] \in {"+++", "ATH", "ATZ", "ATE0", "ATX3", "CFG", "ATDT"}
    BY <1>6 DEF Write, Step
  <2>2. pc < CloseAt /\ (Script[pc] = "ATDT" => pc < HangupAt)
    BY <1>2, <2>1, Places
  <2>3. UNCHANGED attempt
    BY <1>6 DEF Write, GoTo
  <2>4. pc' \in {pc + 1, CloseAt} \/ (Script[pc] = "ATDT" /\ pc' = HangupAt)
    BY <1>6 DEF Write, GoTo, AfterError
  <2>5. CASE Script[pc] = "ATDT" /\ pc' = HangupAt
    BY <1>2, <2>2, <2>3, <2>5 DEF Advances
  <2> QED BY <1>4, <2>2, <2>3, <2>4, <2>5
<1>7. CASE ReadResult
  <2>1. pc = ResultAt
    BY <1>2, <1>7, Places DEF ReadResult, Step
  <2>2. UNCHANGED attempt /\ pc' \in {TalkAt, HangupAt, CloseAt}
    BY <1>7 DEF ReadResult, GoTo, Failed
  <2> QED BY <1>2, <2>1, <2>2 DEF Advances
<1> QED BY <1>3, <1>5, <1>6, <1>7 DEF Driver

\* Every step of Init, Configure, Dial, Hangup and Close, answered or not, failed or not,
\* goes on to a later step, to the next attempt or to the end; attempts are at most
\* maxRetries and the steps are finitely many.  So a dial takes no more steps than these,
\* whatever the modem does: what is left to fairness is that each of them is taken.
THEOREM DialMovesOn == Spec => [][Driver => Advances]_vars
<1>1. TypeOK /\ [Next]_vars => [Driver => Advances]_vars
  BY StepAdvances
<1> QED
  BY <1>1, ModemATType, PTL DEF Spec

==============================================================================
