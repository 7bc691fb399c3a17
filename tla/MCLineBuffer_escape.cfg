SPECIFICATION Spec
CONSTANTS
  Byte <- AsciiBytes
  Keys <- AsciiKeys
  Bytes <- BytesOf
  MaxTyped = 4
CHECK_DEADLOCK FALSE
PROPERTY TildeDotDisconnects
