SPECIFICATION Spec
CONSTANTS
  scancode_ascii <- Table
  INPUT_BUF_SIZE = 4
  GUI_BUF_SIZE = 3
  FB_WIDTH = 5
  FB_HEIGHT = 6
  GLYPH = 2
  font8x8_basic <- Font
  Key <- Keys
  Make <- MakeCodes
  Break <- BreakCodes
  KBD_SIZE = 4
  MAX_PRESSES = 4
PROPERTY TypedKeysReachShell
