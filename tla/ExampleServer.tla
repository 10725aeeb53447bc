--------------------------- MODULE ExampleServer ---------------------------
(***************************************************************************)
(* The server of example/server/server.go on the grabbers of ConnGrabber:  *)
(* Start, a goroutine per grabber that takes its connections, the list of  *)
(* connections they all append to, and Stop, called from another           *)
(* goroutine.                                                              *)
(***************************************************************************)
EXTENDS ConnGrabber, Integers

CONSTANTS
    Upgraders    \* the grabbers the application may try to upgrade meanwhile

ASSUME GrabbersAssumption == Grabbers # {} /\ IsFiniteSet(Grabbers)
ASSUME UpgradersAssumption == Upgraders \subseteq Grabbers

VARIABLES
    main,     \* where Start is: "grab", "register", "wait", "returned"
    grabbers, \* s.connGrabbers
    wg,       \* the wait group
    conns,    \* s.conns
    closed,   \* the connections Stop has closed
    taker,    \* where the goroutine that takes connections is
    got,      \* the connection it has taken
    seen,     \* the list it has read in order to append
    raced,    \* history: the connections whose append overlapped another
    stop,     \* where Stop is: "no", "called", "closing", "cancel", "done"
    walk,     \* the list it closes the connections of, in memory append may share
    next,     \* the place in it that comes next
    before,   \* history: the connections that were served when it was called
    todo      \* the grabbers it has not cancelled yet

start  == <<main, grabbers, wg>>
takers == <<taker, got, seen, conns, raced>>
stops  == <<stop, walk, next, before, todo, closed>>
vars   == <<grabber, traffic, start, takers, stops>>

Init ==
    /\ GrabberInit
    /\ main = "grab" /\ grabbers = <<>> /\ wg = 0
    /\ conns = <<>> /\ raced = {} /\ closed = {}
    /\ taker = [g \in Grabbers |-> "none"]
    /\ got = [g \in Grabbers |-> Nobody] /\ seen = [g \in Grabbers |-> <<>>]
    /\ stop = "no" /\ todo = <<>>
    /\ walk = <<>> /\ next = 1 /\ before = {}

Ran(s) == {s[i] : i \in DOMAIN s}

-----------------------------------------------------------------------------
(* Start: initConnGrabber for each configuration, then wg.Wait() *)

\* The WebSocket grabbers come first.
InitGrabs ==
    /\ main = "grab"
    /\ \E g \in Grabbers : Grabs(g) /\ (g \in Tcp => \A w \in Ws : taker[w] # "none")
    /\ main' = "register"
    /\ UNCHANGED <<grabbers, wg, takers, stops>>

\* Mutant: one wg.Add(1) for all the grabbers.
RegistersOnce ==
    /\ main = "register"
    /\ \E g \in Grabbers :
           /\ loop[g] # "off" /\ taker[g] = "none"
           /\ grabbers' = Append(grabbers, g)
           /\ taker' = [taker EXCEPT ![g] = "take"]
    /\ wg' = 1
    /\ main' = IF \E g \in Grabbers : loop[g] = "off" THEN "grab" ELSE "wait"
    /\ UNCHANGED <<grabber, traffic, got, seen, conns, raced, stops>>

Registers ==
    /\ main = "register"
    /\ \E g \in Grabbers :
           /\ loop[g] # "off" /\ taker[g] = "none"
           /\ grabbers' = Append(grabbers, g)
           /\ taker' = [taker EXCEPT ![g] = "take"]
    /\ wg' = wg + 1
    /\ main' = IF \E g \in Grabbers : loop[g] = "off" THEN "grab" ELSE "wait"
    /\ UNCHANGED <<grabber, traffic, got, seen, conns, raced, stops>>

Returns ==
    /\ main = "wait" /\ wg = 0
    /\ main' = "returned"
    /\ UNCHANGED <<grabber, traffic, grabbers, wg, takers, stops>>

Starts == InitGrabs \/ Registers \/ Returns

-----------------------------------------------------------------------------
(* The goroutine of initConnGrabber *)

Takes(g) ==
    /\ taker[g] = "take"
    /\ \E c \in Conns : HandsOver(g, c) /\ got' = [got EXCEPT ![g] = c]
    /\ taker' = [taker EXCEPT ![g] = "load"]
    /\ UNCHANGED <<start, seen, conns, raced, stops>>

\* Mutant: the handler is started before the append.
ServesFirst(g) ==
    /\ taker[g] = "load"
    /\ seen' = [seen EXCEPT ![g] = conns]
    /\ taker' = [taker EXCEPT ![g] = "store"]
    /\ LET others == {h \in Grabbers : taker[h] = "store"}
       IN  raced' = IF others = {} THEN raced ELSE raced \cup {got[h] : h \in others \cup {g}}
    /\ at' = [at EXCEPT ![got[g]] = "served"]
    /\ UNCHANGED <<grabber, via, start, got, conns, stops>>

\* s.conns = append(s.conns, conn): a load and a store without a lock.
Loads(g) ==
    /\ taker[g] = "load"
    /\ seen' = [seen EXCEPT ![g] = conns]
    /\ taker' = [taker EXCEPT ![g] = "store"]
    /\ LET others == {h \in Grabbers : taker[h] = "store"}
       IN  raced' = IF others = {} THEN raced ELSE raced \cup {got[h] : h \in others \cup {g}}
    /\ UNCHANGED <<grabber, traffic, start, got, conns, stops>>

\* onConn starts; when it ends, nothing here changes.  While the memory of the
\* list it has read has room, append uses it: Stop may be walking through it.
Stores(g) ==
    /\ taker[g] = "store"
    /\ conns' = Append(seen[g], got[g])
    /\ LET i == Len(seen[g]) + 1
       IN  walk' \in {walk, IF i \in DOMAIN walk THEN [walk EXCEPT ![i] = got[g]] ELSE walk}
    /\ at' = [at EXCEPT ![got[g]] = "served"]
    /\ taker' = [taker EXCEPT ![g] = "take"]
    /\ got' = [got EXCEPT ![g] = Nobody] /\ seen' = [seen EXCEPT ![g] = <<>>]
    /\ UNCHANGED <<grabber, via, start, raced, stop, next, before, todo, closed>>

\* A receive from a closed channel is nil.
Done(g) ==
    /\ taker[g] = "take" /\ ch[g] = "closed"
    /\ taker' = [taker EXCEPT ![g] = "over"]
    /\ wg' = wg - 1
    /\ UNCHANGED <<grabber, traffic, main, grabbers, got, seen, conns, raced, stops>>

Taker(g) == Takes(g) \/ Loads(g) \/ Stores(g) \/ Done(g)

-----------------------------------------------------------------------------
(* Stop *)

Calls ==
    /\ stop = "no"
    /\ stop' = "called"
    /\ before' = {c \in Conns : at[c] = "served"}
    /\ UNCHANGED <<grabber, traffic, start, takers, walk, next, todo, closed>>

\* The range of each loop is evaluated once, when the loop begins.
WalkBegins ==
    /\ stop = "called"
    /\ stop' = "closing" /\ walk' = conns
    /\ UNCHANGED <<grabber, traffic, start, takers, next, before, todo, closed>>

\* conn.Close(), of one connection after another.
ClosesNext ==
    /\ stop = "closing" /\ next \in DOMAIN walk
    /\ closed' = closed \cup {walk[next]}
    /\ next' = next + 1
    /\ UNCHANGED <<grabber, traffic, start, takers, stop, walk, before, todo>>

\* Mutant: the walk ends before the latest connection.
CancelsEarly ==
    /\ stop = "closing" /\ next >= Len(walk)
    /\ stop' = "cancel"
    /\ todo' = grabbers /\ walk' = <<>>
    /\ UNCHANGED <<grabber, traffic, start, takers, next, before, closed>>

CancelsAll ==
    /\ stop = "closing" /\ next > Len(walk)
    /\ stop' = "cancel"
    /\ todo' = grabbers /\ walk' = <<>>
    /\ UNCHANGED <<grabber, traffic, start, takers, next, before, closed>>

\* Cancel of one grabber, then of the next.
Cancels1 ==
    /\ stop = "cancel" /\ todo # <<>>
    /\ LET g == Head(todo) IN
           \/ /\ cancel[g] = "no"
              /\ cancel' = [cancel EXCEPT ![g] = "called"]
              /\ UNCHANGED <<loop, ln, lnTls, files, grabbing, ch, traffic, todo>>
           \/ Cancelling(g) /\ UNCHANGED todo
           \/ /\ cancel[g] = "done"
              /\ todo' = Tail(todo)
              /\ UNCHANGED <<grabber, traffic>>
    /\ UNCHANGED <<start, takers, stop, walk, next, before, closed>>

Stopped ==
    /\ stop = "cancel" /\ todo = <<>>
    /\ stop' = "done"
    /\ UNCHANGED <<grabber, traffic, start, takers, walk, next, before, todo, closed>>

Stops == WalkBegins \/ ClosesNext \/ CancelsAll \/ Cancels1 \/ Stopped

-----------------------------------------------------------------------------

rest == <<start, takers, stops>>

\* Another goroutine of the application upgrades a grabber.  Bound: the call
\* begins while Start sets the grabbers up and the files are not set yet, and
\* may last as long as it likes.
Upgrading(g) ==
    /\ UpgradeToTls(g) /\ UNCHANGED rest
    /\ passed[g] = "none" => main \in {"grab", "register"} /\ ~certs[g]

Next ==
    \/ Starts \/ Calls \/ Stops
    \/ \E g \in Grabbers : Taker(g) \/ (Loop(g) /\ UNCHANGED rest)
                           \/ (OnShutdown(g) /\ UNCHANGED rest)
    \/ \E g \in Upgraders : Upgrading(g)
    \/ \E c \in Conns : Handler(c) /\ UNCHANGED rest
    \/ \E c \in Conns, g \in Grabbers : Dials(c, g) /\ UNCHANGED rest

Spec == Init /\ [][Next]_vars

\* Every goroutine of the server goes on while it can.  Nothing obliges a
\* client to connect or to leave, or the application to call Stop.
FairSpec ==
    /\ Spec
    /\ WF_vars(Starts) /\ WF_vars(Stops)
    /\ \A g \in Grabbers : WF_vars(Taker(g)) /\ WF_vars(Loop(g) /\ UNCHANGED rest)
    /\ \A g \in Ws : WF_vars(OnShutdown(g) /\ UNCHANGED rest)
    /\ \A c \in Conns : WF_vars(Handler(c) /\ UNCHANGED rest)

-----------------------------------------------------------------------------

\* Start returns when the last grabber has closed its channel and everything
\* it handed over has been taken, whatever order the grabbers end in.
ReturnsLast ==
    main = "returned" =>
        /\ \A g \in Grabbers : ch[g] = "closed" /\ taker[g] = "over"
        /\ \A c \in Conns : at[c] # "taken"

\* A connection that was accepted is lost only by a WebSocket grabber that is
\* being cancelled: its shutdown hook closes the channel while handlers send on
\* it, where a TCP grabber closes its own channel and never meets a closed one.
LostOnlyAtShutdown ==
    [][\A c \in Conns :
          at[c] \in {"offered", "taken"} /\ at'[c] = "dropped" =>
              via[c] \in Ws /\ cancel[via[c]] \in {"quitting", "done"}]_vars

\* Every connection that is being served is in the list that Stop goes through,
\* once, unless its append overlapped one for another grabber: then both may
\* start from the same list and one connection is forgotten.
Remembered ==
    /\ \A c \in Conns : at[c] = "served" /\ c \notin raced => c \in Ran(conns)
    /\ \A i, j \in DOMAIN conns : conns[i] = conns[j] => i = j

\* A connection that is served when Stop is called is closed before any grabber
\* is cancelled, although others are appended while Stop walks through the list,
\* in its memory even, unless its own append overlapped another.
ClosesWhatItFound == stop \in {"cancel", "done"} => before \subseteq closed \cup raced

\* UpgradeToTls is to leave a grabber at work alone: what Type() says of an open
\* listener turns against it only by a call that looked at the flag before the
\* goroutine of Grab had set it, however late that call goes on.
TypeTurnsEarly ==
    [][\A g \in Grabbers :
          ln[g] = "open" /\ certs[g] = lnTls[g] /\ certs'[g] # lnTls'[g] =>
              passed[g] = "before"]_vars

\* Stop returns: Cancel never waits for ever for the accept loop to take quit,
\* or for handlers that wait for somebody to take their connection.  And when
\* it has found every grabber registered, Start returns as well.
StopAndStartReturn ==
    stop = "called" ~>
        stop = "done" /\ ((\A g \in Grabbers : cancel[g] = "done") => main = "returned")

\* What a TCP grabber has accepted is taken and gets its handler, shutdown or
\* not: none of its connections waits for ever (and LostOnlyAtShutdown says that
\* none is lost).
AcceptedServed ==
    \A g \in Tcp :
        loop[g] = "hand" ~> loop[g] # "hand" /\ In(g, "offered") = {} /\ In(g, "taken") = {}
=============================================================================
