SPECIFICATION Spec
CONSTANTS
  Byte <- WideBytes
  Keys <- WideKeys
  Bytes <- BytesOf
  MaxTyped = 4
CHECK_DEADLOCK FALSE
PROPERTY BackspaceRemovesChar
