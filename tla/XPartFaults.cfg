\* Handlers and connections that fail, garbled input, and an application that
\* may call Stop at any moment: what holds whatever goes wrong.
SPECIFICATION FairSpec
CONSTANTS
  Features = {"starttls", "sasl", "compress", "bind"}
  Faults = {"cert", "bind", "conn"}
  MaxDepth = 3
  MaxFrames = 3
  CanStop = TRUE
  UseCB = FALSE
  PeerKinds = {"header", "badheader", "starttls", "scram", "auth-bad", "auth-garbled", "compress-bad", "response", "response-bad", "bind", "stanza", "end", "broken"}
INVARIANTS IInv OneReader CleanEndOnlyByStop
PROPERTIES RunReports RunnersSettle
\* A stream ends: nothing happens after both ends are done with it.
CHECK_DEADLOCK FALSE
