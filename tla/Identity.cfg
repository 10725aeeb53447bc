\* Two connections, of one user or of two.
SPECIFICATION Spec
CONSTANTS
  Conns = {c1, c2}
  Users <- TwoUsers
  Domain <- OneDomain
  Kept <- SomeKept
  Asked <- Plain
  Mechanisms = {"PLAIN", "SCRAM"}
INVARIANTS BoundAlike AnsweredByName FoundByOwnJid ListedUnlessRaced
CHECK_DEADLOCK FALSE
