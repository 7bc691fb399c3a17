---------------------------- MODULE MCLineBuffer ----------------------------
\* Model-checking instances of LineBuffer: the keys.
EXTENDS LineBuffer

AsciiKeys == {"Enter", "Ctrl+J", "Backspace", "Ctrl+C", "~", ".", "a"}

AsciiBytes == {"cr", "lf", "bs", "ctrlC", "~", ".", "a"}

BytesOf == [k \in AsciiKeys |->
  CASE k = "Enter"     -> <<"cr">>
    [] k = "Ctrl+J"    -> <<"lf">>
    [] k = "Backspace" -> <<"bs">>
    [] k = "Ctrl+C"    -> <<"ctrlC">>
    [] OTHER           -> <<k>>]

ASSUME OneByteKeys
=============================================================================
