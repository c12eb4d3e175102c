SPECIFICATION PeersSpec
CONSTANTS
  a = a
  b = b
  c = c
  Peer = {a, b, c}
  Answering = {c}
  Mentioned = {b}
  BucketOf <- MCBucketOf
  K = 1
  DeadTime = 1
  Unlisted = Unlisted
  ConnectBound = 3
INVARIANTS
  BooksAgree
PROPERTY ForgottenYetConnected
