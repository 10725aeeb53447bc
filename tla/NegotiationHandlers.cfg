\* A negotiated stream whose client goes on to send stanzas.
SPECIFICATION Spec
CONSTANTS
  Features = {"starttls", "sasl", "bind"}
  Faults = {}
  MaxDepth = 3
  UseCB = TRUE
  Supported = {"starttls", "sasl", "bind"}
  Binding = TRUE
  Worlds = {"smooth"}
INVARIANTS HandlersReached
\* A stream ends: nothing happens after both ends are done with it.
CHECK_DEADLOCK FALSE
