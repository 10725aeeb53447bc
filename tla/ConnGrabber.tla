---------------------------- MODULE ConnGrabber ----------------------------
(***************************************************************************)
(* The connection grabbers (conn_grabber.go): TcpConnGrabber, a loop of    *)
(* Accept, and WsConnGrabber, an http.Server whose handlers upgrade the    *)
(* connection.  Both hand connections over on the unbuffered channel given *)
(* to Grab and close it when they are cancelled.  The other end of that    *)
(* channel is in ExampleServer, which takes part in HandsOver.             *)
(***************************************************************************)
EXTENDS Naturals, Sequences, FiniteSets

CONSTANTS
    Tcp,    \* the TCP grabbers
    Ws,     \* the WebSocket grabbers
    Conns   \* the connections that clients may make

ASSUME KindsDiffer == Tcp \cap Ws = {}

Grabbers == Tcp \cup Ws
Nobody == "nobody"
ASSUME NobodyAssumption == Nobody \notin Grabbers

VARIABLES
    loop,      \* where the goroutine of Grab is
    ln,        \* the listener
    lnTls,     \* it was made with a certificate
    certs,     \* certFile and keyFile are set
    passed,    \* when a call of UpgradeToTls that goes on has passed its check
    grabbing,  \* the flag of that name
    ch,        \* the channel given to Grab
    cancel,    \* where Cancel is
    at,        \* where each connection is
    via        \* the grabber it was made to

files   == <<certs, passed>>
grabber == <<loop, ln, lnTls, files, grabbing, ch, cancel>>
traffic == <<at, via>>

Loops   == {"off", "start", "select", "accept", "hand", "closing", "listen", "serve", "over"}
Cancels == {"no", "called", "quitting", "done"}
Places  == {"out", "backlog", "upgrading", "offered", "taken", "served", "dropped"}

GrabberInit ==
    /\ loop = [g \in Grabbers |-> "off"] /\ ln = [g \in Grabbers |-> "none"]
    /\ lnTls = [g \in Grabbers |-> FALSE] /\ certs = [g \in Grabbers |-> FALSE]
    /\ passed = [g \in Grabbers |-> "none"]
    /\ grabbing = [g \in Grabbers |-> FALSE] /\ ch = [g \in Grabbers |-> "none"]
    /\ cancel = [g \in Grabbers |-> "no"]
    /\ at = [c \in Conns |-> "out"] /\ via = [c \in Conns |-> Nobody]

Goto(g, from, to) == loop[g] = from /\ loop' = [loop EXCEPT ![g] = to]

In(g, place) == {c \in Conns : via[c] = g /\ at[c] = place}

\* A listener that closes resets what it has not accepted.
Unlisten(g) ==
    /\ ln' = [ln EXCEPT ![g] = "closed"]
    /\ at' = [c \in Conns |-> IF c \in In(g, "backlog") THEN "dropped" ELSE at[c]]

\* A client connects to an open port.
Dials(c, g) ==
    /\ at[c] = "out" /\ ln[g] = "open"
    /\ at' = [at EXCEPT ![c] = "backlog"]
    /\ via' = [via EXCEPT ![c] = g]
    /\ UNCHANGED grabber

-----------------------------------------------------------------------------
(* Grab and UpgradeToTls, called by the application *)

\* A TCP grabber listens before Grab returns, a WebSocket grabber after.
Grabs(g) ==
    /\ Goto(g, "off", "start")
    /\ ch' = [ch EXCEPT ![g] = "open"]
    /\ IF g \in Tcp
       THEN ln' = [ln EXCEPT ![g] = "open"] /\ lnTls' = [lnTls EXCEPT ![g] = certs[g]]
       ELSE UNCHANGED <<ln, lnTls>>
    /\ UNCHANGED <<files, grabbing, cancel, traffic>>

\* UpgradeToTls looks at the flag and sets the files later, without a lock.
UpgradeChecks(g) ==
    /\ passed[g] = "none" /\ ~grabbing[g]
    /\ passed' = [passed EXCEPT ![g] = CASE loop[g] \in {"off", "start"} -> "before"
                                         [] loop[g] = "over"             -> "after"
                                         [] OTHER                        -> "within"]
    /\ UNCHANGED <<loop, ln, lnTls, certs, grabbing, ch, cancel, traffic>>

UpgradeStores(g) ==
    /\ passed[g] # "none"
    /\ certs' = [certs EXCEPT ![g] = TRUE]
    /\ passed' = [passed EXCEPT ![g] = "none"]
    /\ UNCHANGED <<loop, ln, lnTls, grabbing, ch, cancel, traffic>>

UpgradeToTls(g) == UpgradeChecks(g) \/ UpgradeStores(g)

-----------------------------------------------------------------------------
(* The goroutine of Grab *)

\* Mutant: the flag is left as it is.
BeginsUnmarked(g) ==
    /\ Goto(g, "start", IF g \in Tcp THEN "select" ELSE "listen")
    /\ UNCHANGED <<ln, lnTls, files, grabbing, ch, cancel, traffic>>

Begins(g) ==
    /\ Goto(g, "start", IF g \in Tcp THEN "select" ELSE "listen")
    /\ grabbing' = [grabbing EXCEPT ![g] = TRUE]
    /\ UNCHANGED <<ln, lnTls, files, ch, cancel, traffic>>

\* Mutant: quit is not received.
SelectsDefault(g) ==
    /\ Goto(g, "select", "accept")
    /\ UNCHANGED <<ln, lnTls, files, grabbing, ch, cancel, traffic>>

\* The select takes quit if Cancel is already sending it, else its default.
Selects(g) ==
    /\ IF cancel[g] = "quitting"
       THEN Goto(g, "select", "closing") /\ cancel' = [cancel EXCEPT ![g] = "done"]
       ELSE Goto(g, "select", "accept") /\ UNCHANGED cancel
    /\ UNCHANGED <<ln, lnTls, files, grabbing, ch, traffic>>

\* An error of Accept on a listener that is still open is tried again at once.
Accepts(g) ==
    /\ \/ /\ ln[g] = "open"
          /\ \E c \in In(g, "backlog") : at' = [at EXCEPT ![c] = "offered"]
          /\ Goto(g, "accept", "hand")
       \/ /\ ln[g] = "closed"
          /\ Goto(g, "accept", "select")
          /\ UNCHANGED at
    /\ UNCHANGED <<ln, lnTls, files, grabbing, ch, cancel, via>>

\* Mutant: the loop returns without close(connChan).
EndsOpen(g) ==
    /\ Goto(g, "closing", "over")
    /\ grabbing' = [grabbing EXCEPT ![g] = FALSE]
    /\ UNCHANGED <<ln, lnTls, files, ch, cancel, traffic>>

Ends(g) ==
    /\ Goto(g, "closing", "over")
    /\ ch' = [ch EXCEPT ![g] = "closed"]
    /\ grabbing' = [grabbing EXCEPT ![g] = FALSE]
    /\ UNCHANGED <<ln, lnTls, files, cancel, traffic>>

\* ListenAndServe, which returns at once after Shutdown; the port may be taken.
Listens(g) ==
    /\ IF cancel[g] = "no"
       THEN \/ /\ Goto(g, "listen", "serve")
               /\ ln' = [ln EXCEPT ![g] = "open"] /\ lnTls' = [lnTls EXCEPT ![g] = certs[g]]
               /\ UNCHANGED grabbing
            \/ /\ Goto(g, "listen", "over")
               /\ grabbing' = [grabbing EXCEPT ![g] = FALSE]
               /\ UNCHANGED <<ln, lnTls>>
       ELSE /\ Goto(g, "listen", "over")
            /\ grabbing' = [grabbing EXCEPT ![g] = FALSE]
            /\ UNCHANGED <<ln, lnTls>>
    /\ UNCHANGED <<files, ch, cancel, traffic>>

\* ListenAndServe returns when the listener is closed.
ServeReturns(g) ==
    /\ Goto(g, "serve", "over") /\ ln[g] = "closed"
    /\ grabbing' = [grabbing EXCEPT ![g] = FALSE]
    /\ UNCHANGED <<ln, lnTls, files, ch, cancel, traffic>>

Loop(g) ==
    Begins(g) \/ Selects(g) \/ Accepts(g) \/ Ends(g) \/ Listens(g) \/ ServeReturns(g)

-----------------------------------------------------------------------------
(* The handlers of the http.Server, a goroutine for each connection *)

Serves(c) ==
    /\ at[c] = "backlog" /\ via[c] \in Ws /\ loop[via[c]] = "serve" /\ ln[via[c]] = "open"
    /\ at' = [at EXCEPT ![c] = "upgrading"]
    /\ UNCHANGED <<via, grabber>>

\* Upgrade hijacks the connection, or answers with an error.
Upgrades(c) ==
    /\ at[c] = "upgrading"
    /\ \E to \in {"offered", "dropped"} : at' = [at EXCEPT ![c] = to]
    /\ UNCHANGED <<via, grabber>>

\* A send on a closed channel panics; net/http recovers, and nobody has the
\* connection any more.
SendPanics(c) ==
    /\ at[c] = "offered" /\ ch[via[c]] = "closed"
    /\ at' = [at EXCEPT ![c] = "dropped"]
    /\ UNCHANGED <<via, grabber>>

Handler(c) == Serves(c) \/ Upgrades(c) \/ SendPanics(c)

\* connChan <- NewTcpConn(conn, false), for a receiver that is ready.
HandsOver(g, c) ==
    /\ c \in In(g, "offered") /\ ch[g] = "open"
    /\ at' = [at EXCEPT ![c] = "taken"]
    /\ IF g \in Tcp THEN Goto(g, "hand", "select") ELSE UNCHANGED loop
    /\ UNCHANGED <<via, ln, lnTls, files, grabbing, ch, cancel>>

-----------------------------------------------------------------------------
(* Cancel.  Shutdown closes the listener, runs what RegisterOnShutdown was *)
(* given in a goroutine, and waits for requests that are not hijacked.     *)

CancelCloses(g) ==
    /\ cancel[g] = "called"
    /\ IF ln[g] = "open" THEN Unlisten(g) ELSE UNCHANGED <<ln, at>>
    /\ cancel' = [cancel EXCEPT ![g] = "quitting"]
    /\ UNCHANGED <<loop, lnTls, files, grabbing, ch, via>>

ShutdownReturns(g) ==
    /\ g \in Ws /\ cancel[g] = "quitting" /\ In(g, "upgrading") = {}
    /\ cancel' = [cancel EXCEPT ![g] = "done"]
    /\ UNCHANGED <<loop, ln, lnTls, files, grabbing, ch, traffic>>

\* Mutant: Cancel of a TCP grabber closes the channel too.
ClosesAtCancel(g) ==
    /\ cancel[g] \in {"quitting", "done"} /\ ch[g] = "open"
    /\ ch' = [ch EXCEPT ![g] = "closed"]
    /\ UNCHANGED <<loop, ln, lnTls, files, grabbing, cancel, traffic>>

OnShutdown(g) ==
    /\ g \in Ws /\ cancel[g] \in {"quitting", "done"} /\ ch[g] = "open"
    /\ ch' = [ch EXCEPT ![g] = "closed"]
    /\ UNCHANGED <<loop, ln, lnTls, files, grabbing, cancel, traffic>>

Cancelling(g) == CancelCloses(g) \/ ShutdownReturns(g)
=============================================================================
