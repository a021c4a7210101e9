SPECIFICATION WireSpec
CONSTANTS
  MinLen = 0
  MaxLen = 3
  MaxBytes = 6
  MaxSlots = 6
  Word = 2
  Base = 256
  Packets <- SomePackets
  Followers <- SomeFollowers
  Cuts <- Few
  MaxPackets = 2
  MaxRecords = 2
  MaxConnections = 2
  PairLists <- SomePairLists
  Reports <- SomeReports
INVARIANT SlotsContiguous WatchedWhilePending PacketsInOrder ArgumentsRead ListsRead
PROPERTY ImplementsStream EverythingIsSent PacketsArrive
CHECK_DEADLOCK FALSE
