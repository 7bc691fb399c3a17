-------------------------- MODULE LineBufferProofs --------------------------
(***************************************************************************)
(* Proofs about LineBuffer, for every set of keys and every encoding.      *)
(***************************************************************************)
EXTENDS LineBuffer, SequenceTheorems, TLAPS

\* Types, and the fact that makes the `~.` branch unreachable.
LInv == TypeOK /\ FlagMeansEmptyLine /\ EscapeNeverTaken

LEMMA DropLastType ==
  ASSUME NEW S, NEW s \in Seq(S)
  PROVE  DropLast(s) \in Seq(S)
<1>1. CASE s = <<>>
  BY <1>1 DEF DropLast
<1>2. CASE s # <<>>
  <2>1. Len(s) - 1 \in Int /\ \A i \in 1 .. Len(s) - 1 : s[i] \in S
    BY ElementOfSeq
  <2> QED BY <1>2, <2>1, SubSeqProperties DEF DropLast
<1> QED BY <1>1, <1>2

LEMMA InitLInv == Init => LInv
<1>1. /\ <<>> \in Seq(Byte) /\ <<>> \in Seq(Keys) /\ <<>> \in Seq(Byte \ Controls)
  BY EmptySeq
<1>2. 0 \in 0..MaxTyped
  BY LineBufferAssumption
<1> QED
  BY <1>1, <1>2 DEF Init, LInv, TypeOK, FlagMeansEmptyLine, EscapeNeverTaken

\* Whatever byte is read, the flag of the last Enter and a line of two characters
\* exclude each other.
LEMMA NextLInv == LInv /\ [Next]_vars => LInv'
<1> SUFFICES ASSUME LInv, [Next]_vars PROVE LInv'
    OBVIOUS
<1> USE LineBufferAssumption DEF LInv, TypeOK, FlagMeansEmptyLine, EscapeNeverTaken, ui
<1>1. ASSUME NEW k \in Keys, Press(k) PROVE LInv'
  BY <1>1 DEF Press
<1>2. CASE ReadError
  BY <1>2 DEF ReadError
<1>3. CASE ReadByte
  <2> DEFINE b == Head(input)
  <2>1. input # <<>> /\ b \in Byte /\ Tail(input) \in Seq(Byte)
    BY <1>3 DEF ReadByte
  <2>2. CASE CtrlC
    BY <2>1, <2>2 DEF CtrlC, Reads
  <2>3. CASE Backspace
    <3>1. lineBuf' \in Seq(Byte \ Controls) /\ screen' \in Seq(Keys)
      BY <2>3, DropLastType DEF Backspace
    <3>2. lineBuf = <<>> => lineBuf' = <<>>
      BY <2>3 DEF Backspace, DropLast
    <3> QED BY <2>1, <2>3, <3>1, <3>2 DEF Backspace, Reads
  <2>4. CASE Enter(b)
    <3>1. <<"~", ".">> # <<>>
      BY EmptySeq
    <3>2. ~isEscape
      BY <3>1 DEF isEscape
    <3>3. lineBuf \in Seq(Byte)
      BY SeqMonotonic
    <3>4. <<>> \in Seq(Byte \ Controls) /\ <<>> \in Seq(Keys)
      BY EmptySeq
    <3>5. Append(lineBuf, "cr") \in Seq(Byte)
      BY <3>3, AppendProperties DEF Controls
    <3>6. TypeOK'
      <4>1. CASE status' = "writeError"
        BY <2>1, <2>4, <3>2, <3>4, <4>1 DEF Enter, Reads
      <4>2. CASE sent' = Append(lineBuf, "cr") /\ lineBuf' = <<>> /\ prevWasEnter'
                   /\ UNCHANGED status
        BY <2>1, <2>4, <3>2, <3>4, <3>5, <4>2 DEF Enter, Reads
      <4> QED BY <2>4, <3>2, <4>1, <4>2 DEF Enter
    <3>7. FlagMeansEmptyLine' /\ EscapeNeverTaken'
      BY <2>4, <3>2 DEF Enter, Reads
    <3> QED BY <3>6, <3>7
  <2>5. CASE Regular(b)
    <3>1. b \in Byte \ Controls
      BY <2>1, <2>5 DEF Regular
    <3>2. lineBuf' \in Seq(Byte \ Controls)
      BY <2>5, <3>1, AppendProperties DEF Regular
    <3>3. screen' \in Seq(Keys)
      BY <2>5, AppendProperties DEF Regular
    <3> QED BY <2>1, <2>5, <3>2, <3>3 DEF Regular, Reads
  <2> QED BY <1>3, <2>2, <2>3, <2>4, <2>5 DEF ReadByte
<1>4. CASE UNCHANGED vars
  BY <1>4 DEF vars
<1> QED BY <1>1, <1>2, <1>3, <1>4 DEF Next

\* The buffer never holds a control byte and every variable keeps its type.
THEOREM LineBufferType == Spec => []TypeOK
<1>1. LInv => TypeOK
  BY DEF LInv
<1> QED BY <1>1, InitLInv, NextLInv, PTL DEF Spec

\* No sequence of keys, in any encoding, makes userToModem return by its escape.
THEOREM EscapeUnreachable == Spec => []EscapeNeverTaken
<1>1. LInv => EscapeNeverTaken
  BY DEF LInv
<1> QED BY <1>1, InitLInv, NextLInv, PTL DEF Spec
-----------------------------------------------------------------------------
(***************************************************************************)
(* The line on the screen.                                                 *)
(***************************************************************************)
\* With keys of one byte: what is still to be read is the key last pressed, and the
\* buffer follows the screen until a write fails.
LineInv ==
  /\ input # <<>> => input = Bytes[key]
  /\ status # "writeError" => lineBuf = Line(screen)
  /\ sent # <<>> /\ status # "writeError" => sent = Append(Line(shown), "cr")

\* One byte for each key.
LEMMA LineType ==
  ASSUME NEW keys \in Seq(Keys)
  PROVE  /\ Line(keys) \in Seq(Byte)
         /\ Len(Line(keys)) = Len(keys)
         /\ \A i \in 1..Len(keys) : Line(keys)[i] = Head(Bytes[keys[i]])
<1>1. \A k \in Keys : Head(Bytes[k]) \in Byte
  <2> SUFFICES ASSUME NEW k \in Keys PROVE Head(Bytes[k]) \in Byte
      OBVIOUS
  <2>1. Bytes[k] \in Seq(Byte) /\ Bytes[k] # <<>>
    BY LineBufferAssumption
  <2> QED BY <2>1, HeadTailProperties
<1>2. Len(keys) \in Nat /\ \A i \in 1..Len(keys) : keys[i] \in Keys
  BY LenProperties, ElementOfSeq
<1>3. Line(keys) \in [1..Len(keys) -> Byte]
  BY <1>1, <1>2 DEF Line
<1>4. Line(keys) \in Seq(Byte)
  BY <1>2, <1>3, SeqDef
<1> QED BY <1>2, <1>3, <1>4, LenProperties DEF Line

LEMMA LineOfNone == Line(<<>>) = <<>>
<1>1. <<>> \in Seq(Keys) /\ Len(<<>>) = 0
  BY EmptySeq
<1>2. Line(<<>>) \in Seq(Byte) /\ Len(Line(<<>>)) = 0
  BY <1>1, LineType
<1> QED BY <1>2, EmptySeq

\* A key more on the screen is its byte more in the buffer.
LEMMA LineAppend ==
  ASSUME NEW keys \in Seq(Keys), NEW k \in Keys
  PROVE  Line(Append(keys, k)) = Append(Line(keys), Head(Bytes[k]))
<1> DEFINE more == Append(keys, k)
           b == Head(Bytes[k])
<1>1. more \in Seq(Keys) /\ Len(more) = Len(keys) + 1 /\ Len(keys) \in Nat
  BY AppendProperties, LenProperties
<1>2. more[Len(keys) + 1] = k /\ \A i \in 1..Len(keys) : more[i] = keys[i]
  BY AppendProperties
<1>3. Line(more) \in Seq(Byte) /\ Len(Line(more)) = Len(keys) + 1
  BY <1>1, LineType
<1>4. \A i \in 1..Len(keys) + 1 : Line(more)[i] = Head(Bytes[more[i]])
  BY <1>1, LineType
<1>5. Line(keys) \in Seq(Byte) /\ Len(Line(keys)) = Len(keys)
  BY LineType
<1>6. \A i \in 1..Len(keys) : Line(keys)[i] = Head(Bytes[keys[i]])
  BY LineType
<1>7. b \in Byte
  <2>1. Line(more)[Len(keys) + 1] = b
    BY <1>1, <1>2, <1>4
  <2> QED BY <1>1, <1>3, <2>1, ElementOfSeq
<1>8. /\ Append(Line(keys), b) \in Seq(Byte)
      /\ Len(Append(Line(keys), b)) = Len(keys) + 1
      /\ \A i \in 1..Len(keys) : Append(Line(keys), b)[i] = Line(keys)[i]
      /\ Append(Line(keys), b)[Len(keys) + 1] = b
  BY <1>5, <1>7, AppendProperties
<1>9. \A i \in 1..Len(keys) + 1 : Line(more)[i] = Append(Line(keys), b)[i]
  <2> SUFFICES ASSUME NEW i \in 1..Len(keys) + 1 PROVE Line(more)[i] = Append(Line(keys), b)[i]
      OBVIOUS
  <2>1. CASE i = Len(keys) + 1
    <3>1. Len(keys) + 1 \in 1..Len(keys) + 1
      BY <1>1
    <3> QED BY <1>2, <1>4, <1>8, <2>1, <3>1
  <2>2. CASE i \in 1..Len(keys)
    BY <1>2, <1>4, <1>6, <1>8, <2>2
  <2>3. i = Len(keys) + 1 \/ i \in 1..Len(keys)
    <3>1. PICK n \in Nat : n = Len(keys)
      BY <1>1
    <3>2. i \in 1..n + 1
      BY <3>1
    <3>3. i = n + 1 \/ i \in 1..n
      BY <3>2
    <3> QED BY <3>1, <3>3
  <2> QED BY <2>1, <2>2, <2>3
<1> HIDE DEF more, b
<1> QED BY <1>3, <1>8, <1>9, SeqEqual DEF more, b

LEMMA DropLastProperties ==
  ASSUME NEW S, NEW s \in Seq(S), s # <<>>
  PROVE  /\ DropLast(s) \in Seq(S)
         /\ Len(DropLast(s)) = Len(s) - 1
         /\ \A i \in 1..Len(s) - 1 : DropLast(s)[i] = s[i]
<1>1. Len(s) \in Nat \ {0}
  BY EmptySeq
<1>2. Len(s) - 1 \in Int /\ \A i \in 1..Len(s) - 1 : s[i] \in S
  BY <1>1, ElementOfSeq
<1>3. /\ SubSeq(s, 1, Len(s) - 1) \in Seq(S)
      /\ Len(SubSeq(s, 1, Len(s) - 1)) = IF 1 <= Len(s) - 1 THEN Len(s) - 1 - 1 + 1 ELSE 0
      /\ \A i \in 1..Len(s) - 1 - 1 + 1 : SubSeq(s, 1, Len(s) - 1)[i] = s[1 + i - 1]
  BY <1>2, SubSeqProperties
<1>4. DropLast(s) = SubSeq(s, 1, Len(s) - 1)
  BY DEF DropLast
<1>5. Len(DropLast(s)) = Len(s) - 1
  <2>1. PICK n \in Nat \ {0} : n = Len(s)
    BY <1>1
  <2>2. (IF 1 <= n - 1 THEN n - 1 - 1 + 1 ELSE 0) = n - 1
    BY ONLY n \in Nat \ {0}
  <2>3. Len(DropLast(s)) = IF 1 <= n - 1 THEN n - 1 - 1 + 1 ELSE 0
    BY <1>3, <1>4, <2>1
  <2> QED BY <2>1, <2>2, <2>3
<1>6. ASSUME NEW i \in 1..Len(s) - 1 PROVE DropLast(s)[i] = s[i]
  <2>1. i \in 1..Len(s) - 1 - 1 + 1 /\ 1 + i - 1 = i
    BY <1>1
  <2> QED BY <1>3, <1>4, <2>1
<1> QED BY <1>3, <1>4, <1>5, <1>6

\* A key less on the screen is its byte less in the buffer.
LEMMA LineDropLast ==
  ASSUME NEW keys \in Seq(Keys), keys # <<>>
  PROVE  Line(DropLast(keys)) = DropLast(Line(keys)) /\ Line(keys) # <<>>
<1> DEFINE less == DropLast(keys)
           line == Line(keys)
<1>1. Len(keys) \in Nat \ {0}
  BY EmptySeq
<1>2. less \in Seq(Keys) /\ Len(less) = Len(keys) - 1 /\ \A i \in 1..Len(keys) - 1 : less[i] = keys[i]
  BY DropLastProperties
<1>3. line \in Seq(Byte) /\ Len(line) = Len(keys)
  BY LineType
<1>4. \A i \in 1..Len(keys) : line[i] = Head(Bytes[keys[i]])
  BY LineType
<1>5. line # <<>>
  BY <1>1, <1>3, EmptySeq
<1>6. DropLast(line) \in Seq(Byte) /\ Len(DropLast(line)) = Len(keys) - 1
  BY <1>3, <1>5, DropLastProperties
<1>7. \A i \in 1..Len(keys) - 1 : DropLast(line)[i] = line[i]
  BY <1>3, <1>5, DropLastProperties
<1>8. Line(less) \in Seq(Byte) /\ Len(Line(less)) = Len(keys) - 1
  BY <1>2, LineType
<1>9. \A i \in 1..Len(keys) - 1 : Line(less)[i] = Head(Bytes[less[i]])
  BY <1>2, LineType
<1>10. \A i \in 1..Len(keys) - 1 : Line(less)[i] = DropLast(line)[i]
  BY <1>1, <1>2, <1>4, <1>7, <1>9
<1> HIDE DEF less, line
<1> QED BY <1>5, <1>6, <1>8, <1>10, SeqEqual DEF less, line

\* A sequence of one byte is that byte, and then nothing.
LEMMA OneByte ==
  ASSUME NEW s \in Seq(Byte), Len(s) = 1
  PROVE  s # <<>> /\ Tail(s) = <<>>
<1>1. s # <<>>
  BY EmptySeq
<1>2. Tail(s) \in Seq(Byte) /\ Len(Tail(s)) = 0
  BY <1>1, HeadTailProperties
<1> QED BY <1>1, <1>2, EmptySeq


LEMMA InitLineInv == Init => LineInv
BY LineOfNone DEF Init, LineInv

\* A byte is read from a key that has no other.
LEMMA ReadsWhole ==
  ASSUME OneByteKeys, LInv, LineInv, NEW b, Reads(b)
  PROVE  /\ key \in Keys /\ b = Head(Bytes[key]) /\ Len(input) = 1
         /\ status = "running" /\ input' = <<>> /\ UNCHANGED key
<1>1. key \in Keys /\ input = Bytes[key] /\ input \in Seq(Byte)
  BY DEF Reads, LInv, TypeOK, LineInv
<1>2. Len(input) = 1
  BY <1>1 DEF OneByteKeys
<1> QED BY <1>1, <1>2, OneByte DEF Reads, ui

\* The echo and the buffer are edited alike: a character is added to both or taken from
\* both, and Enter leaves both empty or ends the session.
LEMMA NextLineInv ==
  ASSUME OneByteKeys, LInv, LineInv, [Next]_vars
  PROVE  LineInv'
<1>1. ASSUME NEW k \in Keys, Press(k) PROVE LineInv'
  BY <1>1 DEF Press, LineInv
<1>2. CASE ReadError
  BY <1>2 DEF ReadError, LineInv, ui
<1>3. CASE ReadByte
  <2> DEFINE b == Head(input)
  <2>1. CASE CtrlC
    BY <2>1, ReadsWhole DEF CtrlC, LineInv
  <2>2. CASE Backspace
    <3>1. /\ lineBuf = Line(screen) /\ input' = <<>> /\ screen \in Seq(Keys)
          /\ lineBuf' = DropLast(lineBuf) /\ UNCHANGED <<sent, shown, status>>
          /\ screen' = IF lineBuf = <<>> THEN screen ELSE DropLast(screen)
      BY <2>2, ReadsWhole DEF Backspace, LineInv, LInv, TypeOK
    <3>2. lineBuf' = Line(screen')
      <4>1. CASE screen = <<>>
        BY <3>1, <4>1, LineOfNone DEF DropLast
      <4>2. CASE screen # <<>>
        BY <3>1, <4>2, LineDropLast
      <4> QED BY <4>1, <4>2
    <3> QED BY <3>1, <3>2 DEF LineInv
  <2>3. CASE Enter(b)
    <3>1. /\ lineBuf = Line(screen) /\ input' = <<>>
          /\ sent # <<>> => sent = Append(Line(shown), "cr")
      BY <2>3, ReadsWhole DEF Enter, LineInv
    <3>2. CASE isEscape
      BY <2>3, <3>1, <3>2 DEF Enter, LineInv
    <3>3. CASE ~isEscape
      BY <2>3, <3>1, <3>3, LineOfNone DEF Enter, LineInv
    <3> QED BY <3>2, <3>3
  <2>4. CASE Regular(b)
    <3>1. /\ key \in Keys /\ b = Head(Bytes[key]) /\ Len(input) = 1
          /\ lineBuf = Line(screen) /\ input' = <<>> /\ screen \in Seq(Keys)
      BY <2>4, ReadsWhole DEF Regular, LineInv, LInv, TypeOK
    <3>2. lineBuf' = Append(lineBuf, b) /\ screen' = Append(screen, key)
      BY <2>4, <3>1 DEF Regular
    <3>3. lineBuf' = Line(screen')
      BY <3>1, <3>2, LineAppend
    <3> QED BY <2>4, <3>1, <3>3 DEF Regular, LineInv
  <2> QED BY <1>3, <2>1, <2>2, <2>3, <2>4 DEF ReadByte
<1>4. CASE UNCHANGED vars
  BY <1>4 DEF vars, ui, LineInv
<1> QED BY <1>1, <1>2, <1>3, <1>4 DEF Next

\* For any keys of one byte each, and any length of a session: the line on the screen is
\* the line in the buffer, and what Enter sent was what the user saw.
THEOREM LineShownIsLineSent ==
  ASSUME OneByteKeys
  PROVE  Spec => []LineIsShown
<1>1. Init => LInv /\ LineInv
  BY InitLInv, InitLineInv
<1>2. LInv /\ LineInv /\ [Next]_vars => (LInv /\ LineInv)'
  BY NextLInv, NextLineInv
<1>3. LineInv => LineIsShown
  BY DEF LineInv, LineIsShown
<1> QED BY <1>1, <1>2, <1>3, PTL DEF Spec
=============================================================================
