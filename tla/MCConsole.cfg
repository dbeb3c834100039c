SPECIFICATION Spec
CONSTANTS
  VGA_COLS = 3
  VGA_ROWS = 3
  SCROLLBACK_LINES = 2
  Prompt <- ShortPrompt
  Glyph = {97}
  CursorX = {0, 3}
  CursorY = {0, 3}
  MAX_CALLS = 8
INVARIANTS TypeOK CursorInSync
PROPERTY ImplementsTerminal
