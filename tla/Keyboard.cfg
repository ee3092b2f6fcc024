SPECIFICATION Spec
CONSTANTS
  Keys = {"letter", "digit", "pad4", "fn", "backspace", "enter", "caps", "lshift", "rshift"}
  LINE_LIMIT = 2
  WIRE_LIMIT = 2
INVARIANT NoStuckShift
INVARIANT PrefixPaired
PROPERTY IsLineEditor
