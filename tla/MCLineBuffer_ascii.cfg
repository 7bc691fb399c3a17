SPECIFICATION Spec
CONSTANTS
  Byte <- AsciiBytes
  Keys <- AsciiKeys
  Bytes <- BytesOf
  MaxTyped = 6
CHECK_DEADLOCK FALSE
INVARIANTS TypeOK EscapeNeverTaken LineIsShown
