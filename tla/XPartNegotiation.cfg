\* A peer that negotiates in any order and repeats itself, with handlers that do
\* not fail: long enough for both mandatory and both voluntary features and
\* the lists between them.
SPECIFICATION FairSpec
CONSTANTS
  Features = {"starttls", "sasl", "compress", "bind"}
  Faults = {}
  MaxDepth = 7
  MaxFrames = 7
  CanStop = FALSE
  UseCB = FALSE
  PeerKinds = {"header", "starttls", "plain", "compress", "bind", "end"}
INVARIANTS MandatoryFirst OffersServed
PROPERTIES ClosedIsFinal QuietAfterReport Negotiates RunnersReturn
\* A stream ends: nothing happens after both ends are done with it.
CHECK_DEADLOCK FALSE
