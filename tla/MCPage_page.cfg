SPECIFICATION Spec
CONSTANTS
  Pkt <- Packets
  Value = {"x", "y"}
  Me = "me"
  Source <- Sender
  Chat = {"own", "theirs"}
  Work <- Alone
  MaxVersion = 3
  MaxOpen = 2
  MaxFlash = 2
INVARIANTS
  TypeOK
  AllInitialize
  SentIsTrue
  SavedAsAsked
  PlaceholderEnds
PROPERTIES
  NeverOlder
  FailuresReported
CHECK_DEADLOCK FALSE
