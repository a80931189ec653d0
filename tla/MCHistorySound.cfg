SPECIFICATION EditSpec
CONSTANTS
  MaxOrdinal = 17
  MaxCandidates = 2
  MaxMember = 2
  MaxUndo = 2
  MaxCommands = 2
  Definitions <- DefinitionsDef
  Ins <- PortsDef
  Outs <- OutsDef
  Names <- NamesDef
  ItemNames <- ItemNamesDef
  Families <- FamiliesDef
CHECK_DEADLOCK FALSE
INVARIANT HistoryIsSound
