\* An arbitrary server and a client that supports every feature.
SPECIFICATION Spec
CONSTANTS
  Supported = {"starttls", "sasl", "compress", "bind"}
  Credentials = "good"
  Binding = TRUE
  MaxFrames = 6
  ServerKinds = {"features", "proceed", "challenge", "success", "result", "compressed", "failure", "procinst", "header", "end", "broken"}
INVARIANTS DoneByList
\* A stream ends: nothing happens after both ends are done with it.
CHECK_DEADLOCK FALSE
