\* A client and a server that both support compression, nothing failing.
SPECIFICATION FairSpec
CONSTANTS
  Features = {"starttls", "sasl", "compress", "bind"}
  Faults = {}
  MaxDepth = 3
  UseCB = TRUE
  Supported = {"starttls", "sasl", "compress", "bind"}
  Binding = TRUE
  Worlds = {"smooth"}
PROPERTIES Completes
\* A stream ends: nothing happens after both ends are done with it.
CHECK_DEADLOCK FALSE
