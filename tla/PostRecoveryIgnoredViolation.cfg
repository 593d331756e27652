SPECIFICATION Spec
CONSTANTS
  v = v
  g = g
  h = h
  NoPost = NoPost
  Switches = {"originals", "replies"}
  Posts <- OneGapPosts
  TypeOf <- OneGapTypes
  Pages <- OneGap
  MaxAttempt = 2
  MaxEvents = 1
CHECK_DEADLOCK FALSE
INVARIANTS
  IgnoredIsExcluded
