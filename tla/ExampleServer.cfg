\* A grabber of each kind, Stop at any time; the goroutines of the server are fair.
SPECIFICATION FairSpec
CONSTANTS
  Tcp = {t}
  Ws = {w}
  Conns = {c1, c2}
  Upgraders = {t}
INVARIANTS ReturnsLast Remembered ClosesWhatItFound
PROPERTIES TypeTurnsEarly LostOnlyAtShutdown StopAndStartReturn AcceptedServed
\* The server stops: Start and Stop have returned and every goroutine is over.
CHECK_DEADLOCK FALSE
