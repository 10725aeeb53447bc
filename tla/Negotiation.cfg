\* The example client and the example server: nothing fails; the certificate,
\* the resource and the connection may fail and the server may stop the part at
\* any moment; and the client's password is wrong as well.
SPECIFICATION FairSpec
CONSTANTS
  Features = {"starttls", "sasl", "bind"}
  Faults = {"cert", "bind", "conn"}
  MaxDepth = 3
  UseCB = TRUE
  Supported = {"starttls", "sasl", "bind"}
  Binding = TRUE
  Worlds = {"smooth", "faulty", "rejected"}
INVARIANTS LayersMatch Negotiated RejectedFails
PROPERTIES Completes NegotiateReturns ServerHears
\* A stream ends: nothing happens after both ends are done with it.
CHECK_DEADLOCK FALSE
