SPECIFICATION FairSpec
CONSTANTS
  v = v
  g = g
  h = h
  NoPost = NoPost
  Switches = {"originals", "replies"}
  Posts <- ThreePosts
  TypeOf <- ForeignTypes
  Pages <- TwoPages
  MaxAttempt = 2
  MaxEvents = 2
CHECK_DEADLOCK FALSE
INVARIANTS
  TypeOK
  GapsPersist
  ExhaustedIsPending
  CompletedIsArchived
PROPERTIES
  GapsSettle
