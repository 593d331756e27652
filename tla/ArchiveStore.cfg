SPECIFICATION Spec
CONSTANTS
  p = p
  q = q
  r = r
  alice = alice
  bob = bob
  m1 = m1
  m2 = m2
  d1 = d1
  d2 = d2
  Unknown = Unknown
  None = None
  Tweets <- MCTweets
  Users <- MCUsers
  Media <- MCMedia
  Owner <- MCOwner
  Items <- MCItems
  Downloads <- MCDownloads
SYMMETRY MCSymmetry
INVARIANTS
  StoreTypeOK
  GraphIsSound
  RawBacksRow
  FileBacksRow
PROPERTIES
  MediaStayReachable
  NeverDegrades
  CompletedIsFinal
