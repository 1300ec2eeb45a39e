SPECIFICATION Spec
CONSTANTS
  Findings = {f1}
  Items = {i1}
  Sessions = {s1}
  Clients = {c1}
  Fixers = {x1, x2}
  Reviewer = Reviewer
  Listener = Listener
  MaxRounds = 2
  MaxRequests = 3
  MaxCrashes = 1
INVARIANTS
  PendingIsServed
  RecordFollowsFile
  PassIsHeard
PROPERTIES
  ClosedStaysClosed
CHECK_DEADLOCK FALSE
SYMMETRY Symmetry
