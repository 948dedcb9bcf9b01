\* Three jobs on two connections, calls of a job one after the other.
CONSTANTS
  j1 = j1  j2 = j2  j3 = j3  r1 = r1  r2 = r2  x = x  y = y
  c1 = c1  c2 = c2  c3 = c3  c4 = c4
  Job <- Jobs
  Conn <- Conns
  Key <- Keys
  Op <- Ops
  JobOf <- JobOfOps
  KeysOf <- KeysOfOps
  Overlapping = FALSE
  None = None
SPECIFICATION Spec
INVARIANTS StoredUpdatesCount
PROPERTIES CallsAreTransactions
\* Every job ends and nothing is left to do.
CHECK_DEADLOCK FALSE
