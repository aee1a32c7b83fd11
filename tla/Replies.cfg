SPECIFICATION Spec
CONSTANTS
  lt = lt
  tool = tool
  think = think
  end = end
  group = group
  char = char
  Symbols <- MCSymbols
  ToolStart <- MCTool
  ThinkStart <- MCThink
  ThinkEnd <- MCThinkEnd
  Wrapper <- MCWrapper
  Texts <- MCTexts
  Stops <- MCStops
  Parses <- MCParses
  MaxChunk = 5
  Thinking = TRUE
  MaxEvents = 4
  ChatTalks <- MCChats
  MessageTalks <- MCTalks
  Configs <- MCConfigs
  Presets <- MCPresets
  Limit = 22
  TriggerPercent = 60
  NoteSizes = {1, 6}
  Passages <- MCPassages
  Header = 1
  MaxChars = 6
  MaxNotes = 1
  MaxAsks = 2
INVARIANTS
  
  TypeOK
  RepliesWhole
  RoutesAgree
  WellFormed
CHECK_DEADLOCK FALSE
