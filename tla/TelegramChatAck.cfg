SPECIFICATION Spec
CONSTANTS
  Chats = {a, b}
  Operators = {1, 2}
  Gyms = {1, 2}
  Links <- MCLinks
  MaxAccounts = 3
  Cookies = {1, 2}
  MaxKeys = 1
  Ttl = 1
  MaxTokens = 2
  MaxNow = 1
SYMMETRY MCSymmetry
INVARIANT AckReachesOwn
CHECK_DEADLOCK FALSE
