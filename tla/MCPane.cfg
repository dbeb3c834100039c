SPECIFICATION PanesSpec
CONSTANTS
  VGA_COLS = 12
  VGA_ROWS = 11
  SCROLLBACK_LINES = 2
  Prompt <- ShortPrompt
  MAX_GRID = 4
  WORD = 65536
  Junk <- JunkValues
INVARIANTS LayoutFillsScreen ScreenIsGrid PromptInActivePane
