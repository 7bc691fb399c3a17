-------------------------- MODULE MCLineBufferWide --------------------------
\* Model-checking instance of LineBuffer with a key of two bytes.
EXTENDS LineBuffer

WideKeys == {"Enter", "Backspace", "a", "e-acute"}

WideBytes == {"cr", "lf", "bs", "ctrlC", "a", "0xC3", "0xA9"}

BytesOf == [k \in WideKeys |->
  CASE k = "Enter"     -> <<"cr">>
    [] k = "Backspace" -> <<"bs">>
    [] k = "e-acute"   -> <<"0xC3", "0xA9">>
    [] OTHER           -> <<k>>]
=============================================================================
