SPECIFICATION DnsSpec
CONSTANTS
  Queries = {q1, q2, q3}
  SrvcMax = 2
  NtxMax = 4
INVARIANTS
  ToldOnce
  NotStranded
PROPERTY
  QuerySettles
CHECK_DEADLOCK FALSE
