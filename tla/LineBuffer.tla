----------------------------- MODULE LineBuffer -----------------------------
(***************************************************************************)
(* userToModem (internal/tui/terminal.go): the bytes of the user's         *)
(* terminal are echoed and kept in a line buffer, which Backspace edits    *)
(* and Enter sends to the modem.  A step is one turn of its loop, for one  *)
(* byte of stdin.  screen is the user's terminal: a key whose character    *)
(* has several bytes takes one column there, and so does an erasure.       *)
(***************************************************************************)
EXTENDS Integers, Sequences

CONSTANTS
  Byte,       \* the bytes of a terminal
  Keys,       \* the keys a user may press
  Bytes,      \* Bytes[k]: what the terminal sends for key k
  MaxTyped    \* bounds the keys of a session

Controls == {"ctrlC", "bs", "cr", "lf"}

ASSUME LineBufferAssumption ==
  /\ MaxTyped \in Nat
  /\ Controls \subseteq Byte
  /\ Bytes \in [Keys -> Seq(Byte) \ {<<>>}]

VARIABLES
  typed,         \* keys pressed so far
  key, input,    \* the key last pressed, and those of its bytes not yet read
  lineBuf, prevWasEnter,
  sent,          \* the line last written to the modem
  screen,        \* the keys shown on the line of the cursor
  shown,         \* the keys that were shown when that line was sent
  status         \* "running", or how userToModem returned

ui == <<typed, key>>
vars == <<ui, input, lineBuf, prevWasEnter, sent, screen, shown, status>>

DropLast(s) == IF s = <<>> THEN s ELSE SubSeq(s, 1, Len(s) - 1)

Init ==
  /\ typed = 0
  /\ key \in Keys
  /\ input = <<>>
  /\ lineBuf = <<>>
  /\ prevWasEnter = FALSE
  /\ sent = <<>>
  /\ screen = <<>>
  /\ shown = <<>>
  /\ status = "running"

Press(k) ==
  /\ status = "running" /\ input = <<>> /\ typed < MaxTyped
  /\ typed' = typed + 1
  /\ key' = k
  /\ input' = Bytes[k]
  /\ UNCHANGED <<lineBuf, prevWasEnter, sent, screen, shown, status>>

-----------------------------------------------------------------------------
\* One turn of the loop.  The byte b was read from stdin.

Reads(b) ==
  /\ status = "running" /\ input # <<>> /\ b = Head(input)
  /\ input' = Tail(input)
  /\ UNCHANGED ui

\* r.Read fails: the SSH connection is gone.
ReadError ==
  /\ status = "running" /\ input = <<>>
  /\ status' = "eof"
  /\ UNCHANGED <<ui, input, lineBuf, prevWasEnter, sent, screen, shown>>

CtrlC ==
  /\ Reads("ctrlC")
  /\ status' = "ctrlC"
  /\ UNCHANGED <<lineBuf, prevWasEnter, sent, screen, shown>>

\* Backspace takes a byte from the buffer and erases a column of the screen.
Backspace ==
  /\ Reads("bs")
  /\ lineBuf' = DropLast(lineBuf)
  /\ screen' = IF lineBuf = <<>> THEN screen ELSE DropLast(screen)
  /\ UNCHANGED <<prevWasEnter, sent, shown, status>>

isEscape == prevWasEnter /\ lineBuf = <<"~", ".">>

\* Mutant: Enter sends the line and does not empty the buffer.
EnterKeepsLine(b) ==
  /\ b \in {"cr", "lf"} /\ Reads(b)
  /\ sent' = Append(lineBuf, "cr")
  /\ shown' = screen
  /\ screen' = <<>>
  /\ prevWasEnter' = TRUE
  /\ UNCHANGED <<lineBuf, status>>

\* Enter: the escape ends the session; anything else is echoed and sent.
Enter(b) ==
  /\ b \in {"cr", "lf"} /\ Reads(b)
  /\ \/ /\ isEscape
        /\ status' = "escape"
        /\ UNCHANGED <<lineBuf, prevWasEnter, sent, screen, shown>>
     \/ /\ ~isEscape
        /\ shown' = screen
        /\ screen' = <<>>
        /\ \/ /\ sent' = Append(lineBuf, "cr")
              /\ lineBuf' = <<>>
              /\ prevWasEnter' = TRUE
              /\ UNCHANGED status
           \/ /\ status' = "writeError"
              /\ UNCHANGED <<lineBuf, prevWasEnter, sent>>

\* Mutant: a regular character does not end the state after Enter.
RegularKeepsFlag(b) ==
  /\ b \notin Controls /\ Reads(b)
  /\ lineBuf' = Append(lineBuf, b)
  /\ screen' = IF Len(input) = 1 THEN Append(screen, key) ELSE screen
  /\ UNCHANGED <<prevWasEnter, sent, shown, status>>

\* Mutant: a Backspace on an empty line falls through to the regular characters.
RegularTakesBackspace(b) ==
  /\ b \notin Controls \/ (b = "bs" /\ lineBuf = <<>>)
  /\ Reads(b)
  /\ lineBuf' = Append(lineBuf, b)
  /\ screen' = IF Len(input) = 1 THEN Append(screen, key) ELSE screen
  /\ prevWasEnter' = FALSE
  /\ UNCHANGED <<sent, shown, status>>

\* Any other byte is buffered and echoed; the last byte of a key shows it.
Regular(b) ==
  /\ b \notin Controls /\ Reads(b)
  /\ lineBuf' = Append(lineBuf, b)
  /\ screen' = IF Len(input) = 1 THEN Append(screen, key) ELSE screen
  /\ prevWasEnter' = FALSE
  /\ UNCHANGED <<sent, shown, status>>

ReadByte ==
  /\ input # <<>>
  /\ CtrlC \/ Backspace \/ Enter(Head(input)) \/ Regular(Head(input))

Next == (\E k \in Keys : Press(k)) \/ ReadByte \/ ReadError

Spec == Init /\ [][Next]_vars
-----------------------------------------------------------------------------
TypeOK ==
  /\ typed \in 0..MaxTyped
  /\ key \in Keys
  /\ input \in Seq(Byte)
  /\ lineBuf \in Seq(Byte \ Controls)
  /\ prevWasEnter \in BOOLEAN
  /\ sent \in Seq(Byte)
  /\ screen \in Seq(Keys)
  /\ shown \in Seq(Keys)
  /\ status \in {"running", "ctrlC", "escape", "writeError", "eof"}

\* prevWasEnter holds only on an empty line: every regular character resets it.
FlagMeansEmptyLine == prevWasEnter => lineBuf = <<>>

\* userToModem never returns through its `~.` branch, which asks for a line of
\* two characters right after Enter.
EscapeNeverTaken == status # "escape"

\* What the keys on a line send, when each of them sends one byte.
Line(keys) == [i \in 1..Len(keys) |-> Head(Bytes[keys[i]])]

OneByteKeys == \A k \in Keys : Len(Bytes[k]) = 1

\* What the user sees on the line is what Enter sends, through every order of
\* typing and erasing (terminal.go: the echo and the buffer are kept apart).  For
\* OneByteKeys: Backspace takes one byte of a key that sent more.
LineIsShown ==
  /\ status = "running" /\ input = <<>> => lineBuf = Line(screen)
  /\ sent # <<>> /\ status # "writeError" => sent = Append(Line(shown), "cr")

\* README.md:97 "Press Enter then `~.` to disconnect (same as SSH escape)": a
\* line that is `~.`, after another was ended with Enter, ends the session.
TildeDotDisconnects ==
  [][(\E b \in {"cr", "lf"} : Enter(b)) /\ sent # <<>> /\ lineBuf = <<"~", ".">>
       => status' = "escape"]_vars

\* terminal.go:161 "Backspace (DEL or BS): remove last char from buffer": it takes what
\* the last key on the screen had sent.
BackspaceRemovesChar ==
  [][Backspace /\ screen # <<>>
       => Len(lineBuf) = Len(lineBuf') + Len(Bytes[screen[Len(screen)]])]_vars
=============================================================================
