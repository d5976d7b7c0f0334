SPECIFICATION ReadsSpec
CONSTANTS
  Types = {"Tag", "Company"}
  Ids = {1, 2}
  MaxVersion = 1
  Empty = Empty
  Undecodable = Undecodable
  BadCursor = BadCursor
  Failed = Failed
  NoAnswer = NoAnswer
  Entries = {"e1", "e2", "e3", "e4"}
  TextOf <- Texts
  Initial <- Three
  Descriptors <- AllDescriptors
  Asked <- Limits
  Starts <- First
  DefaultLimit = 1
  MaxLimit = 2
  MaxChanges = 2
INVARIANTS
  ReadsTypeOK
  WalkMissesFew
  EitherChannelTells
  ForeignTextIsFramed
PROPERTY CopyIsCurrent
