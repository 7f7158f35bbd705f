SPECIFICATION CtrSpec
CONSTANTS
  MaxSize = 10
  Block = 3
  Buffer = 2
  Base = 2
  Width = 3
CHECK_DEADLOCK FALSE
INVARIANTS AnnouncesWhatWasAsked SendsPlaintext BodyIsComplete CounterIsOfBlock
