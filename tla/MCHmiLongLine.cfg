SPECIFICATION Spec
CONSTANTS
  VGA_COLS = 4
  VGA_ROWS = 4
  SCROLLBACK_LINES = 2
  Prompt <- ShortPrompt
  MAX_GRID = 2
  WORD = 65536
  Junk <- SomeJunk
  CMD_BUF_SIZE = 5
  HISTORY_LEN = 2
  Command <- KnownCommands
  Reply <- Replies
  INPUT_BUF_SIZE = 2
  Key <- TypingKeys
  MAX_KEYS = 6
INVARIANT ScreenShowsLine
CHECK_DEADLOCK FALSE
