\* An arbitrary server and a client that supports some of what it lists.
SPECIFICATION FairSpec
CONSTANTS
  Supported = {"sasl", "compress"}
  Credentials = "good"
  Binding = FALSE
  MaxFrames = 6
  ServerKinds = {"features", "proceed", "challenge", "success", "result", "compressed", "failure", "procinst", "header", "end", "broken"}
INVARIANTS CInv MandatoryAnswered
PROPERTIES ClosedIsFinal NegotiateReturns
\* A stream ends: nothing happens after both ends are done with it.
CHECK_DEADLOCK FALSE
