SPECIFICATION SpecSession
CONSTANTS
  Account = {"ann", "ben", "minter"}
  Malformed = {"?"}
  Contract = {"minter"}
  TokenId = {"1", "10", "2"}
  Description = {0}
  MaxDescription = 1
  Link = {}
  Image = {"img"}
  Share = {0, 1}
  One = 1
  MaxTime = 0
  None = None
  Absent = Absent
  Null = Null
  Clear = Clear
  Never = Never
  ByteOrder <- MCByteOrder
  DefaultLimit = 1
  MaxLimit = 2
  MaxNumeral = 10
  Primary = "ann"
  Receiver = ""
  ToolKey = "k1"
  OtherKey = "k2"
  MinterAccount = "minter"
  Line <- MCLine
  Limit <- MCLimit
  Whose = {"ann", "ben", "everything"}
  Message <- MCMessage
INVARIANTS
  PagesComplete
  SignedAsRead
  RoyaltyAnswersAgree
  DescriptionsAgree
PROPERTIES
  ListingEnds
  SpecListing
CHECK_DEADLOCK FALSE
