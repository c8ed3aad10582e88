SPECIFICATION SpecTool
CONSTANTS
  Account = {"ann", "ben", "cid", "minter", "receiver"}
  Malformed = {"?"}
  Contract = {"minter", "receiver"}
  TokenId = {"1"}
  Description = {0}
  MaxDescription = 1
  Link = {}
  Image = {"img"}
  Share = {}
  One = 1
  MaxTime = 3
  None = None
  Absent = Absent
  Null = Null
  Clear = Clear
  Never = Never
  ByteOrder <- MCByteOrder
  DefaultLimit = 1
  MaxLimit = 2
  MaxNumeral = 6
  Primary = "ann"
  Receiver = "receiver"
  ToolKey = "k1"
  MinterAccount = "minter"
  Market = ""
  Other = {"ben"}
  Holder = {"ann", "ben"}
  Skew <- MCSkew
  Length <- MCLength
  Line <- MCLine
  MaxCommands = 2
  Call <- MCCall
INVARIANTS
  TypeOK
  CountMatchesTokens
  ApprovalsOfCurrentOwner
  WhoMayMove
  OperatorsAsAsked
PROPERTIES
  ReportedMeansDone
CHECK_DEADLOCK FALSE
