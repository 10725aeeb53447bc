\* A peer that fails to authenticate goes on with the stream.
SPECIFICATION Spec
CONSTANTS
  Features = {"sasl", "bind"}
  Faults = {}
  MaxDepth = 3
  MaxFrames = 4
  CanStop = FALSE
  UseCB = FALSE
  PeerKinds = {"header", "auth-bad", "plain", "bind"}
INVARIANTS AuthenticatedFirst
\* A stream ends: nothing happens after both ends are done with it.
CHECK_DEADLOCK FALSE
