SPECIFICATION Spec
CONSTANTS
  FONT_W = 2
  FONT_H = 2
  TEXT_W = 2
  TEXT_H = 2
  Lists <- ModeLists
  Monitors <- Sizes
  Fallback <- Assumed
  NL = "newline"
  CharBits = 4
  ShortBits = 8
  IntBits = 12
  LongBits = 16
  DecDigits = 5
  Texts <- Characters
  Firsts <- Conversions
  MaxOut = 7
INVARIANTS
  Shown
  ModeWidest
  Printed
