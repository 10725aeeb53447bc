---------------------------- MODULE GrabberProofs ----------------------------
(***************************************************************************)
(* Proofs about the connection grabbers and the example server, for any    *)
(* grabbers of either kind and any connections.                            *)
(***************************************************************************)
EXTENDS ExampleServer, FiniteSetTheorems, SequenceTheorems, TLAPS

\* Every variable of the grabbers and of the server has its type; who holds a
\* connection holds one.
GrabberTypeOK ==
    /\ loop \in [Grabbers -> Loops]
    /\ ln \in [Grabbers -> {"none", "open", "closed"}]
    /\ lnTls \in [Grabbers -> BOOLEAN]
    /\ certs \in [Grabbers -> BOOLEAN]
    /\ passed \in [Grabbers -> {"none", "before", "within", "after"}]
    /\ grabbing \in [Grabbers -> BOOLEAN]
    /\ ch \in [Grabbers -> {"none", "open", "closed"}]
    /\ cancel \in [Grabbers -> Cancels]
    /\ at \in [Conns -> Places]
    /\ via \in [Conns -> Grabbers \cup {Nobody}]

Holds(g) == taker[g] \in {"load", "store"}

ServerTypeOK ==
    /\ main \in {"grab", "register", "wait", "returned"}
    /\ grabbers \in Seq(Grabbers) /\ todo \in Seq(Grabbers)
    /\ wg \in Int
    /\ conns \in Seq(Conns) /\ closed \subseteq Conns /\ raced \subseteq Conns
    /\ taker \in [Grabbers -> {"none", "take", "load", "store", "over"}]
    /\ got \in [Grabbers -> Conns \cup {Nobody}]
    /\ \A g \in Grabbers : Holds(g) => got[g] \in Conns
    /\ seen \in [Grabbers -> Seq(Conns)]
    /\ stop \in {"no", "called", "closing", "cancel", "done"}
    /\ walk \in Seq(Conns) /\ next \in Nat /\ before \subseteq Conns

TypeOK == GrabberTypeOK /\ ServerTypeOK

\* A listener is open only while its grabber works, which the flag says from
\* the first line of its goroutine on; who is cancelled was set up before.
PortOK(g) ==
    /\ g \in Tcp => loop[g] \notin {"listen", "serve"}
    /\ g \in Ws => loop[g] \notin {"select", "accept", "hand", "closing"} /\ (ln[g] = "open" => loop[g] = "serve")
    /\ ln[g] = "open" => loop[g] \notin {"off", "listen", "closing", "over"}
    /\ loop[g] \notin {"off", "start", "over"} => grabbing[g]
    /\ cancel[g] \in {"quitting", "done"} => ln[g] # "open"
    /\ cancel[g] # "no" => loop[g] # "off"

Listening ==
    /\ \A g \in Grabbers : PortOK(g)
    /\ \A g \in Ran(grabbers) \cup Ran(todo) : loop[g] # "off"

\* A TCP grabber closes its channel at the end of its loop, a WebSocket grabber
\* when it is cancelled.
Closing ==
    /\ \A g \in Tcp : ch[g] = "closed" => loop[g] = "over"
    /\ \A g \in Ws : ch[g] = "closed" => cancel[g] \in {"quitting", "done"}

\* What is offered on a channel: by a TCP grabber one connection at a time.
Offering ==
    /\ \A c \in Conns :
           /\ at[c] # "out" => via[c] \in Grabbers
           /\ at[c] = "upgrading" => via[c] \in Ws
           /\ at[c] = "offered" /\ via[c] \in Tcp => loop[via[c]] = "hand"
    /\ \A c, d \in Conns :
           at[c] = "offered" /\ at[d] = "offered" /\ via[c] = via[d] /\ via[c] \in Tcp => c = d

\* The goroutines that take connections and have not ended.
Working == {g \in Grabbers : taker[g] \in {"take", "load", "store"}}

\* The wait group counts them, Start waits for all of them, and each has at
\* most one connection.
Waiting ==
    /\ wg = Cardinality(Working)
    /\ \A g \in Grabbers :
           /\ taker[g] = "over" => ch[g] = "closed"
           /\ taker[g] # "none" => loop[g] # "off"
           /\ main \in {"wait", "returned"} => taker[g] # "none"
           /\ main = "grab" /\ loop[g] # "off" => taker[g] # "none"
           /\ main = "returned" => taker[g] = "over"
    /\ main = "register" =>
           \A g, h \in Grabbers : loop[g] # "off" /\ taker[g] = "none"
                                  /\ loop[h] # "off" /\ taker[h] = "none" => g = h

Taking ==
    /\ \A c \in Conns : at[c] = "taken" =>
           via[c] \in Grabbers /\ Holds(via[c]) /\ got[via[c]] = c
    /\ \A g \in Grabbers : Holds(g) =>
           at[got[g]] = "taken" /\ via[got[g]] = g

\* A list somebody appends to, or has read in order to: what is served and was
\* not raced, each once, and nothing that is still to be appended.
Complete(list) ==
    /\ \A c \in Conns : at[c] = "served" /\ c \notin raced => c \in Ran(list)
    /\ \A c \in Ran(list) : at[c] = "served"
    /\ \A i, j \in DOMAIN list : list[i] = list[j] => i = j

Appending ==
    /\ Complete(conns)
    /\ \A g \in Grabbers : taker[g] = "store" => Complete(seen[g])
    /\ \A g, h \in Grabbers :
           taker[g] = "store" /\ taker[h] = "store" /\ g # h => got[g] \in raced

\* What was not raced in one of these lists is at a place that the others have
\* too: an append to them goes behind it.
Below(l, m) == \A i \in DOMAIN l : l[i] \in raced \/ i \in DOMAIN m

Sharing ==
    /\ Below(walk, conns)
    /\ \A g \in Grabbers : taker[g] = "store" =>
           /\ Below(walk, seen[g]) /\ Below(conns, seen[g]) /\ Below(seen[g], conns)
           /\ \A h \in Grabbers : taker[h] = "store" => Below(seen[h], seen[g])

\* What was served when Stop was called, and not raced, is closed or still ahead
\* of the walk.
Ahead(c) == \E i \in DOMAIN walk : i >= next /\ walk[i] = c

Walking ==
    /\ stop \in {"no", "called"} => next = 1
    /\ \A c \in before : at[c] = "served"
    /\ stop = "closing" => \A c \in before : c \in closed \cup raced \/ Ahead(c)
    /\ ClosesWhatItFound

\* Who has passed the check of UpgradeToTls passed it before the loop or after.
Passing == \A g \in Grabbers :
    passed[g] \in {"none", "before", "after"} /\ (passed[g] = "after" => loop[g] = "over")

GInv == /\ TypeOK /\ Listening /\ Closing /\ Offering /\ Waiting /\ Taking /\ Appending
        /\ Sharing /\ Walking /\ Passing

-----------------------------------------------------------------------------
(* Types *)

USE DEF Grabbers, Holds, files

\* What the goroutine and the calls of a grabber do to its variables.
LEMMA GrabberType ==
    ASSUME GrabberTypeOK, NEW g \in Grabbers,
           Grabs(g) \/ UpgradeToTls(g) \/ Loop(g) \/ Cancelling(g) \/ OnShutdown(g)
    PROVE  GrabberTypeOK'
  <1>. USE DEF GrabberTypeOK, Loops, Cancels, Places, Goto, In, grabber, traffic
  <1>1. CASE Grabs(g)
    BY <1>1 DEF Grabs
  <1>2. CASE UpgradeToTls(g)
    <2>1. CASE UpgradeChecks(g)
      <3>1. PICK v \in {"before", "within", "after"} : passed' = [passed EXCEPT ![g] = v]
        BY <2>1 DEF UpgradeChecks
      <3>. QED
        BY <2>1, <3>1 DEF UpgradeChecks
    <2>2. CASE UpgradeStores(g)
      BY <2>2 DEF UpgradeStores
    <2>. QED
      BY <1>2, <2>1, <2>2 DEF UpgradeToTls
  <1>3. CASE Begins(g) \/ Ends(g) \/ ServeReturns(g)
    BY <1>3 DEF Begins, Ends, ServeReturns
  <1>4. CASE Selects(g)
    BY <1>4 DEF Selects
  <1>5. CASE Accepts(g)
    BY <1>5 DEF Accepts
  <1>6. CASE Listens(g)
    <2>1. CASE loop' = [loop EXCEPT ![g] = "serve"]
      BY <1>6, <2>1 DEF Listens
    <2>2. CASE loop' = [loop EXCEPT ![g] = "over"]
      BY <1>6, <2>2 DEF Listens
    <2>. QED
      BY <1>6, <2>1, <2>2 DEF Listens
  <1>7. CASE Cancelling(g) \/ OnShutdown(g)
    BY <1>7 DEF Cancelling, CancelCloses, Unlisten, ShutdownReturns, OnShutdown
  <1>. QED
    BY <1>1, <1>2, <1>3, <1>4, <1>5, <1>6, <1>7 DEF Loop

\* The same for what happens to a connection.
LEMMA ConnType ==
    ASSUME GrabberTypeOK, NEW g \in Grabbers, NEW c \in Conns,
           Handler(c) \/ HandsOver(g, c) \/ Dials(c, g)
    PROVE  GrabberTypeOK'
  <1>. USE DEF GrabberTypeOK, Loops, Cancels, Places, Goto, In, grabber, traffic
  <1>1. CASE Handler(c)
    BY <1>1 DEF Handler, Serves, Upgrades, SendPanics
  <1>2. CASE HandsOver(g, c)
    BY <1>2 DEF HandsOver
  <1>3. CASE Dials(c, g)
    BY <1>3 DEF Dials
  <1>. QED
    BY <1>1, <1>2, <1>3

\* The initial states have their types.
LEMMA InitType == Init => TypeOK
  BY DEF Init, GrabberInit, TypeOK, GrabberTypeOK, ServerTypeOK, Loops, Cancels, Places

\* A list stays one when a place of it is overwritten.
LEMMA ExceptType ==
    ASSUME NEW S, NEW list \in Seq(S), NEW i \in DOMAIN list, NEW c \in S
    PROVE  [list EXCEPT ![i] = c] \in Seq(S)
  BY ExceptSeq

\* Every step keeps the types.
LEMMA StepType == TypeOK /\ [Next]_vars => TypeOK'
  <1>. SUFFICES ASSUME TypeOK, [Next]_vars
                PROVE  TypeOK'
    OBVIOUS
  <1>. USE DEF TypeOK, rest, start, takers, stops
  <1>1. UNCHANGED <<grabber, traffic>> => GrabberTypeOK'
    BY DEF GrabberTypeOK, grabber, traffic
  <1>2. UNCHANGED rest => ServerTypeOK'
    BY DEF ServerTypeOK
  <1>3. CASE Starts
    <2>. USE DEF ServerTypeOK
    <2>1. CASE InitGrabs
      BY <2>1, GrabberType DEF InitGrabs
    <2>2. CASE Registers
      BY <2>2, <1>1, AppendProperties DEF Registers
    <2>3. CASE Returns
      BY <2>3, <1>1 DEF Returns
    <2>. QED
      BY <1>3, <2>1, <2>2, <2>3 DEF Starts
  <1>4. CASE Calls \/ Stops
    <2>. USE DEF ServerTypeOK
    <2>1. CASE Calls \/ WalkBegins \/ ClosesNext \/ CancelsAll \/ Stopped
      <3>1. CASE ClosesNext
        <4>1. walk[next] \in Conns
          BY <3>1, ElementOfSeq DEF ClosesNext
        <4>. QED
          BY <1>1, <3>1, <4>1 DEF ClosesNext
      <3>2. CASE CancelsAll
        BY <1>1, <3>2, EmptySeq DEF CancelsAll
      <3>3. CASE Calls \/ WalkBegins \/ Stopped
        BY <1>1, <3>3 DEF Calls, WalkBegins, Stopped
      <3>. QED
        BY <2>1, <3>1, <3>2, <3>3
    <2>2. CASE Cancels1
      <3>0. UNCHANGED <<walk, next, before>>
        BY <2>2 DEF Cancels1
      <3>1. todo' \in Seq(Grabbers) /\ Head(todo) \in Grabbers
        BY <2>2, HeadTailProperties DEF Cancels1
      <3>2. ASSUME cancel' = [cancel EXCEPT ![Head(todo)] = "called"],
                   UNCHANGED <<loop, ln, lnTls, files, grabbing, ch, traffic>>
            PROVE  GrabberTypeOK'
        BY <3>1, <3>2 DEF GrabberTypeOK, Cancels, traffic
      <3>3. GrabberTypeOK'
        BY <2>2, <1>1, <3>1, <3>2, GrabberType DEF Cancels1
      <3>4. ServerTypeOK'
        BY <2>2, <3>0, <3>1 DEF Cancels1
      <3>. QED
        BY <3>3, <3>4
    <2>. QED
      BY <1>4, <2>1, <2>2 DEF Stops
  <1>5. ASSUME NEW g \in Grabbers, Taker(g)
        PROVE  TypeOK'
    <2>. USE DEF ServerTypeOK
    <2>1. CASE Takes(g)
      BY <2>1, ConnType DEF Takes
    <2>2. CASE Loads(g)
      <3>1. raced' \subseteq Conns
        BY <2>2 DEF Loads
      <3>. QED
        BY <2>2, <3>1, <1>1 DEF Loads
    <2>3. CASE Stores(g)
      <3>0. walk' \in Seq(Conns)
        <4>1. got[g] \in Conns /\ walk \in Seq(Conns)
          BY <2>3 DEF Stores
        <4>2. PICK i : walk' = walk \/ (i \in DOMAIN walk /\ walk' = [walk EXCEPT ![i] = got[g]])
          BY <2>3 DEF Stores
        <4>3. i \in DOMAIN walk => [walk EXCEPT ![i] = got[g]] \in Seq(Conns)
          BY <4>1, ExceptType, Zenon
        <4>. QED
          BY <4>1, <4>2, <4>3
      <3>1. ServerTypeOK'
        BY <2>3, <3>0, AppendProperties, EmptySeq DEF Stores
      <3>2. GrabberTypeOK'
        BY <2>3 DEF Stores, GrabberTypeOK, grabber, Places
      <3>. QED
        BY <3>1, <3>2
    <2>4. CASE Done(g)
      BY <2>4, <1>1 DEF Done
    <2>. QED
      BY <1>5, <2>1, <2>2, <2>3, <2>4 DEF Taker
  <1>6. ASSUME NEW g \in Grabbers, Loop(g) \/ OnShutdown(g), UNCHANGED rest
        PROVE  TypeOK'
    BY <1>2, <1>6, GrabberType
  <1>7. ASSUME NEW g \in Upgraders, Upgrading(g)
        PROVE  TypeOK'
    BY <1>2, <1>7, GrabberType, UpgradersAssumption DEF Upgrading
  <1>8. ASSUME NEW c \in Conns, Handler(c), UNCHANGED rest
        PROVE  TypeOK'
    BY <1>2, <1>8, ConnType, GrabbersAssumption
  <1>9. ASSUME NEW c \in Conns, NEW g \in Grabbers, Dials(c, g), UNCHANGED rest
        PROVE  TypeOK'
    BY <1>2, <1>9, ConnType
  <1>10. CASE UNCHANGED vars
    BY <1>1, <1>2, <1>10 DEF vars
  <1>. QED
    BY <1>3, <1>4, <1>5, <1>6, <1>7, <1>8, <1>9, <1>10 DEF Next

-----------------------------------------------------------------------------
(* The parts of the invariant, step by step *)

\* Nothing has been accepted at the start.
LEMMA InitInv == Init => GInv
  <1>. SUFFICES ASSUME Init PROVE GInv
    OBVIOUS
  <1>1. TypeOK
    BY InitType
  <1>2. Sharing /\ Walking /\ Passing
    BY DEF Init, GrabberInit, Sharing, Below, Walking, ClosesWhatItFound, Passing
  <1>4. Listening /\ Closing /\ Offering /\ Taking /\ Appending
    BY DEF Init, GrabberInit, Listening, PortOK, Closing, Offering, Taking, Appending, Complete, Ran
  <1>3. Waiting
    <2>1. Working = {}
      BY DEF Init, Working
    <2>. QED
      BY <2>1, FS_EmptySet DEF Init, GrabberInit, Waiting
  <1>. QED
    BY <1>1, <1>2, <1>3, <1>4 DEF GInv

\* A step of one grabber leaves the others where they are.
LEMMA OnePort ==
    ASSUME TypeOK, TypeOK', Listening, NEW g \in Grabbers, PortOK(g)', loop'[g] # "off",
           \A h \in Grabbers \ {g} : UNCHANGED <<loop[h], ln[h], grabbing[h], cancel[h]>>,
           UNCHANGED <<grabbers, todo>>
    PROVE  Listening'
  <1>1. ASSUME NEW h \in Grabbers PROVE PortOK(h)'
    <2>1. CASE h = g
      BY <2>1
    <2>2. CASE h # g
      BY <2>2 DEF Listening, PortOK
    <2>. QED
      BY <2>1, <2>2
  <1>2. ASSUME NEW h \in Ran(grabbers) \cup Ran(todo) PROVE loop'[h] # "off"
    <2>1. h \in Grabbers /\ loop[h] # "off"
      BY ElementOfSeq DEF TypeOK, ServerTypeOK, Ran, Listening
    <2>. QED
      BY <2>1
  <1>. QED
    BY <1>1, <1>2 DEF Listening, Ran

\* A grabber that Start has not set up yet is not cancelled, and a listener
\* opens where nothing has been cancelled.
LEMMA ListeningKept ==
    ASSUME TypeOK, TypeOK', Listening, [Next]_vars
    PROVE  Listening'
  <1>. USE DEF TypeOK, GrabberTypeOK, Goto, rest, start, takers, stops, grabber, traffic
  <1>0. ASSUME UNCHANGED <<loop, ln, grabbing, cancel, grabbers, todo>>
        PROVE  Listening'
    BY <1>0 DEF Listening, PortOK, Ran
  <1>1. CASE InitGrabs
    <2>1. PICK g \in Grabbers : Grabs(g)
      BY <1>1 DEF InitGrabs
    <2>2. PortOK(g) /\ loop[g] = "off"
      BY <2>1 DEF Listening, Grabs
    <2>3. PortOK(g)' /\ loop'[g] # "off"
      BY <2>1, <2>2, KindsDiffer DEF Grabs, PortOK
    <2>4. \A h \in Grabbers \ {g} : UNCHANGED <<loop[h], ln[h], grabbing[h], cancel[h]>>
      BY <2>1 DEF Grabs
    <2>5. UNCHANGED <<grabbers, todo>>
      BY <1>1 DEF InitGrabs
    <2>. QED
      BY <2>3, <2>4, <2>5, OnePort
  <1>2. CASE Registers
    <2>1. PICK g \in Grabbers : loop[g] # "off" /\ grabbers' = Append(grabbers, g)
      BY <1>2 DEF Registers
    <2>2. Ran(grabbers') \subseteq Ran(grabbers) \cup {g}
      BY <2>1, AppendProperties DEF Ran, ServerTypeOK
    <2>3. UNCHANGED <<loop, ln, grabbing, cancel, todo>>
      BY <1>2 DEF Registers
    <2>. QED
      BY <2>1, <2>2, <2>3 DEF Listening, PortOK, Ran
  <1>3. CASE Returns \/ Calls \/ WalkBegins \/ ClosesNext \/ Stopped
    BY <1>0, <1>3 DEF Returns, Calls, WalkBegins, ClosesNext, Stopped
  <1>4. CASE CancelsAll
    BY <1>4 DEF CancelsAll, Listening, PortOK, Ran
  <1>5. CASE Cancels1
    <2>1. PICK g \in Grabbers : g = Head(todo) /\ g \in Ran(todo)
      BY <1>5, HeadTailProperties DEF Cancels1, Ran, ServerTypeOK
    <2>2. PortOK(g) /\ loop[g] # "off"
      BY <2>1 DEF Listening
    <2>3. UNCHANGED <<loop, grabbing, grabbers>>
      BY <1>5 DEF Cancels1, Cancelling, CancelCloses, ShutdownReturns
    <2>4. CASE cancel' = [cancel EXCEPT ![g] = "called"] /\ UNCHANGED <<ln, todo>>
      <3>1. PortOK(g)' /\ loop'[g] # "off"
        BY <2>1, <2>2, <2>3, <2>4 DEF PortOK
      <3>. QED
        BY <2>1, <2>3, <2>4, <3>1, OnePort
    <2>5. CASE Cancelling(g) /\ UNCHANGED todo
      <3>1. cancel[g] # "no" /\ (ln'[g] # "open") /\ ln'[g] \in {ln[g], "closed"}
        BY <2>1, <2>2, <2>5 DEF Cancelling, CancelCloses, Unlisten, ShutdownReturns, PortOK
      <3>2. \A h \in Grabbers \ {g} : UNCHANGED <<loop[h], ln[h], grabbing[h], cancel[h]>>
        BY <2>3, <2>5 DEF Cancelling, CancelCloses, Unlisten, ShutdownReturns
      <3>3. PortOK(g)' /\ loop'[g] # "off"
        BY <2>1, <2>2, <2>3, <3>1 DEF PortOK
      <3>. QED
        BY <2>1, <2>3, <2>5, <3>2, <3>3, OnePort
    <2>6. CASE todo' = Tail(todo) /\ UNCHANGED <<ln, cancel>>
      <3>1. Ran(todo') \subseteq Ran(todo)
        BY <1>5, <2>6, HeadTailProperties DEF Cancels1, Ran, ServerTypeOK
      <3>. QED
        BY <2>3, <2>6, <3>1 DEF Listening, PortOK
    <2>. QED
      BY <1>5, <2>1, <2>4, <2>5, <2>6 DEF Cancels1
  <1>6. ASSUME NEW g \in Grabbers, Taker(g)
        PROVE  Listening'
    <2>1. CASE Takes(g)
      <3>1. UNCHANGED <<ln, grabbing, cancel, grabbers, todo>>
        BY <2>1 DEF Takes, HandsOver
      <3>2. CASE g \in Tcp
        <4>1. loop[g] = "hand" /\ loop' = [loop EXCEPT ![g] = "select"]
          BY <2>1, <3>2 DEF Takes, HandsOver
        <4>2. PortOK(g)' /\ loop'[g] # "off"
          BY <3>1, <3>2, <4>1, KindsDiffer DEF Listening, PortOK
        <4>. QED
          BY <3>1, <4>1, <4>2, OnePort
      <3>3. CASE g \notin Tcp
        BY <1>0, <2>1, <3>1, <3>3 DEF Takes, HandsOver
      <3>. QED
        BY <3>2, <3>3
    <2>2. CASE Loads(g) \/ Stores(g) \/ Done(g)
      BY <1>0, <2>2 DEF Loads, Stores, Done
    <2>. QED
      BY <1>6, <2>1, <2>2 DEF Taker
  <1>7. ASSUME NEW g \in Grabbers, Loop(g), UNCHANGED rest
        PROVE  Listening'
    <2>0. PortOK(g) /\ UNCHANGED <<grabbers, todo>>
      BY <1>7 DEF Listening
    <2>1. PortOK(g)' /\ loop'[g] # "off"
      <3>0. CASE Begins(g)
        BY <2>0, <3>0, KindsDiffer DEF Begins, PortOK
      <3>1. CASE Selects(g)
        BY <2>0, <3>1, KindsDiffer DEF Selects, PortOK
      <3>2. CASE Accepts(g)
        BY <2>0, <3>2, KindsDiffer DEF Accepts, PortOK
      <3>3. CASE Ends(g) \/ ServeReturns(g)
        BY <2>0, <3>3, KindsDiffer DEF Ends, ServeReturns, PortOK
      <3>4. CASE Listens(g)
        BY <2>0, <3>4, KindsDiffer DEF Listens, PortOK
      <3>. QED
        BY <1>7, <3>0, <3>1, <3>2, <3>3, <3>4 DEF Loop
    <2>2. \A h \in Grabbers \ {g} : UNCHANGED <<loop[h], ln[h], grabbing[h], cancel[h]>>
      BY <1>7 DEF Loop, Begins, Selects, Accepts, Ends, Listens, ServeReturns
    <2>. QED
      BY <2>0, <2>1, <2>2, OnePort
  <1>8. ASSUME NEW g \in Grabbers, OnShutdown(g) \/ UpgradeToTls(g), UNCHANGED rest
        PROVE  Listening'
    BY <1>0, <1>8 DEF OnShutdown, UpgradeToTls, UpgradeChecks, UpgradeStores
  <1>9. ASSUME NEW c \in Conns, UNCHANGED rest, Handler(c) \/ \E g \in Grabbers : Dials(c, g)
        PROVE  Listening'
    BY <1>0, <1>9 DEF Handler, Serves, Upgrades, SendPanics, Dials
  <1>10. CASE UNCHANGED vars
    BY <1>0, <1>10 DEF vars
  <1>. QED
    BY <1>1, <1>2, <1>3, <1>4, <1>5, <1>6, <1>7, <1>8, <1>9, <1>10, UpgradersAssumption
    DEF Next, Starts, Stops, Upgrading

\* What is over is over: the loop of a grabber, its Cancel, its channel.  Only
\* Start sets a grabber going.
Onwards(g) ==
    /\ main' = main /\ loop[g] = "off" => loop'[g] = "off"
    /\ loop[g] # "off" => loop'[g] # "off"
    /\ loop[g] = "over" => loop'[g] = "over"
    /\ cancel[g] \in {"quitting", "done"} => cancel'[g] \in {"quitting", "done"}
    /\ ch[g] = "closed" => ch'[g] = "closed"
    /\ ch'[g] = "closed" /\ ch[g] # "closed" =>
           \/ g \in Tcp /\ loop'[g] = "over"
           \/ g \in Ws /\ cancel'[g] \in {"quitting", "done"}

\* What is over stays over.
LEMMA OneWay ==
    ASSUME TypeOK, Listening, Closing, [Next]_vars, NEW g \in Grabbers
    PROVE  Onwards(g)
  <1>. USE DEF TypeOK, GrabberTypeOK, Loops, Cancels, Goto, Onwards, grabber, traffic
  <1>0. ASSUME UNCHANGED <<loop, cancel, ch>>
        PROVE  Onwards(g)
    BY <1>0
  <1>1. CASE Starts
    <2>1. CASE InitGrabs
      <3>1. PICK h \in Grabbers : Grabs(h)
        BY <2>1 DEF InitGrabs
      <3>2. loop[h] = "off" /\ ch[h] # "closed" /\ main' # main
        BY <2>1, <3>1 DEF InitGrabs, Grabs, Listening, Closing, PortOK
      <3>. QED
        BY <3>1, <3>2 DEF Grabs
    <2>2. CASE Registers \/ Returns
      BY <1>0, <2>2 DEF Registers, Returns
    <2>. QED
      BY <1>1, <2>1, <2>2 DEF Starts
  <1>2. CASE Calls \/ WalkBegins \/ ClosesNext \/ CancelsAll \/ Stopped
    BY <1>0, <1>2 DEF Calls, WalkBegins, ClosesNext, CancelsAll, Stopped
  <1>3. CASE Cancels1
    <2>1. PICK h \in Grabbers : h = Head(todo)
      BY <1>3, HeadTailProperties DEF Cancels1, ServerTypeOK
    <2>. QED
      BY <1>3, <2>1 DEF Cancels1, Cancelling, CancelCloses, ShutdownReturns
  <1>4. ASSUME NEW h \in Grabbers, Taker(h)
        PROVE  Onwards(g)
    <2>1. CASE Takes(h)
      BY <2>1 DEF Takes, HandsOver
    <2>. QED
      BY <1>0, <1>4, <2>1 DEF Taker, Loads, Stores, Done
  <1>5. ASSUME NEW h \in Grabbers, Loop(h)
        PROVE  Onwards(g)
    <2>1. CASE Ends(h)
      BY <2>1, KindsDiffer DEF Ends, Listening, PortOK
    <2>2. CASE Begins(h) \/ Accepts(h) \/ ServeReturns(h)
      BY <2>2 DEF Begins, Accepts, ServeReturns
    <2>3. CASE Selects(h)
      BY <2>3 DEF Selects
    <2>4. CASE Listens(h)
      BY <2>4 DEF Listens
    <2>. QED
      BY <1>5, <2>1, <2>2, <2>3, <2>4 DEF Loop
  <1>6. ASSUME NEW h \in Grabbers, OnShutdown(h) \/ UpgradeToTls(h)
        PROVE  Onwards(g)
    BY <1>6 DEF OnShutdown, UpgradeToTls, UpgradeChecks, UpgradeStores
  <1>7. ASSUME NEW c \in Conns, Handler(c) \/ \E h \in Grabbers : Dials(c, h)
        PROVE  Onwards(g)
    BY <1>0, <1>7 DEF Handler, Serves, Upgrades, SendPanics, Dials
  <1>8. CASE UNCHANGED vars
    BY <1>0, <1>8 DEF vars
  <1>. QED
    BY <1>1, <1>2, <1>3, <1>4, <1>5, <1>6, <1>7, <1>8, UpgradersAssumption
    DEF Next, Stops, Upgrading

\* Who closes a Go channel, after every step.
LEMMA ClosingKept ==
    ASSUME TypeOK, Listening, Closing, [Next]_vars
    PROVE  Closing'
  BY OneWay, KindsDiffer DEF Closing, Onwards

\* A loop that is at "hand" leaves it by handing its connection over.
LEMMA OfferingKept ==
    ASSUME TypeOK, TypeOK', Offering, Taking, [Next]_vars
    PROVE  Offering'
  <1>. USE KindsDiffer DEF TypeOK, GrabberTypeOK, Places, Offering, Goto, In, rest, grabber, traffic
  <1>0. ASSUME UNCHANGED <<loop, at, via>>
        PROVE  Offering'
    BY <1>0
  <1>1. ASSUME NEW g \in Grabbers, NEW to, loop[g] # "hand", loop' = [loop EXCEPT ![g] = to],
               UNCHANGED traffic
        PROVE  Offering'
    <2>1. ASSUME NEW c \in Conns, at[c] = "offered", via[c] \in Tcp
          PROVE  via[c] # g
      BY <1>1, <2>1
    <2>. QED
      BY <1>1, <2>1
  <1>2. ASSUME NEW g \in Grabbers, HandsOver(g, got'[g]), got'[g] \in Conns
        PROVE  Offering'
    <2>. DEFINE c == got'[g]
    <2>1. at' = [at EXCEPT ![c] = "taken"] /\ via' = via /\ at[c] = "offered" /\ via[c] = g
      BY <1>2 DEF HandsOver
    <2>2. ASSUME NEW d \in Conns, at'[d] = "offered", via[d] \in Tcp
          PROVE  loop'[via[d]] = "hand"
      <3>1. d # c /\ at[d] = "offered" /\ loop[via[d]] = "hand"
        BY <1>2, <2>1, <2>2
      <3>2. via[d] # g
        BY <1>2, <2>1, <2>2, <3>1
      <3>. QED
        BY <1>2, <2>2, <3>1, <3>2 DEF HandsOver
    <2>3. ASSUME NEW d \in Conns
          PROVE  at'[d] = at[d] \/ (at[d] = "offered" /\ at'[d] = "taken" /\ via[d] \in Grabbers)
      BY <1>2, <2>1
    <2>. QED
      BY <1>2, <2>1, <2>2, <2>3
  <1>3. ASSUME NEW g \in Grabbers, Accepts(g)
        PROVE  Offering'
    <2>1. ASSUME NEW c \in In(g, "backlog"), at' = [at EXCEPT ![c] = "offered"],
                 via' = via, loop[g] = "accept", loop' = [loop EXCEPT ![g] = "hand"]
          PROVE  Offering'
      <3>1. \A d \in Conns : at[d] = "offered" /\ via[d] \in Tcp => via[d] # g
        BY <2>1
      <3>2. \A d \in Conns : d # c => at'[d] = at[d]
        BY <2>1
      <3>3. at'[c] = "offered" /\ via[c] = g /\ loop'[g] = "hand" /\ c \in Conns
        BY <2>1
      <3>4. \A h \in Grabbers : h # g => loop'[h] = loop[h]
        BY <2>1
      <3>. QED
        BY <2>1, <3>1, <3>2, <3>3, <3>4
    <2>. QED
      BY <1>1, <1>3, <2>1 DEF Accepts
  <1>4. ASSUME NEW c \in Conns, Handler(c) \/ \E g \in Grabbers : Dials(c, g)
        PROVE  Offering'
    <2>1. UNCHANGED loop
      BY <1>4 DEF Handler, Serves, Upgrades, SendPanics, Dials
    <2>2. CASE Handler(c)
      <3>1. via' = via /\ \A d \in Conns : d # c => at'[d] = at[d]
        BY <2>2 DEF Handler, Serves, Upgrades, SendPanics
      <3>2. at[c] # "out" /\ at'[c] # "out" /\ (at'[c] \in {"upgrading", "offered"} => via[c] \in Ws)
        BY <2>2 DEF Handler, Serves, Upgrades, SendPanics
      <3>. QED
        BY <2>1, <3>1, <3>2
    <2>3. ASSUME NEW g \in Grabbers, Dials(c, g)
          PROVE  Offering'
      BY <2>1, <2>3 DEF Dials
    <2>. QED
      BY <1>4, <2>2, <2>3
  <1>5. CASE Starts
    <2>1. CASE InitGrabs
      <3>1. PICK g \in Grabbers : Grabs(g)
        BY <2>1 DEF InitGrabs
      <3>. QED
        BY <1>1, <3>1 DEF Grabs
    <2>. QED
      BY <1>0, <1>5, <2>1 DEF Starts, Registers, Returns
  <1>6. CASE Calls \/ Stops
    <2>1. CASE Cancels1
      <3>1. PICK h \in Grabbers : h = Head(todo)
        BY <2>1, HeadTailProperties DEF Cancels1, ServerTypeOK
      <3>2. UNCHANGED <<loop, via>>
        BY <2>1 DEF Cancels1, Cancelling, CancelCloses, ShutdownReturns
      <3>3. \A c \in Conns : at'[c] = at[c] \/ (at[c] = "backlog" /\ at'[c] = "dropped")
        BY <2>1 DEF Cancels1, Cancelling, CancelCloses, Unlisten, ShutdownReturns
      <3>. QED
        BY <3>2, <3>3
    <2>. QED
      BY <1>0, <1>6, <2>1 DEF Stops, Calls, WalkBegins, ClosesNext, CancelsAll, Stopped
  <1>7. ASSUME NEW g \in Grabbers, Taker(g)
        PROVE  Offering'
    <2>1. CASE Takes(g)
      <3>1. PICK c \in Conns : HandsOver(g, c) /\ got' = [got EXCEPT ![g] = c]
        BY <2>1 DEF Takes
      <3>2. got'[g] = c
        BY <3>1 DEF ServerTypeOK
      <3>. QED
        BY <1>2, <3>1, <3>2
    <2>2. CASE Stores(g)
      <3>1. UNCHANGED <<loop, via>> /\ at' = [at EXCEPT ![got[g]] = "served"]
        BY <2>2 DEF Stores
      <3>2. \A c \in Conns : at'[c] = at[c] \/ (c = got[g] /\ at'[c] = "served")
        BY <3>1
      <3>. QED
        BY <2>2, <3>1, <3>2 DEF Stores, Taking
    <2>. QED
      BY <1>0, <1>7, <2>1, <2>2 DEF Taker, Loads, Done
  <1>8. ASSUME NEW g \in Grabbers, Loop(g)
        PROVE  Offering'
    <2>1. CASE Begins(g) \/ Ends(g) \/ ServeReturns(g)
      BY <1>1, <2>1 DEF Begins, Ends, ServeReturns
    <2>2. CASE Selects(g) \/ Listens(g)
      BY <1>1, <2>2 DEF Selects, Listens
    <2>. QED
      BY <1>3, <1>8, <2>1, <2>2 DEF Loop
  <1>9. ASSUME NEW g \in Grabbers, OnShutdown(g) \/ UpgradeToTls(g)
        PROVE  Offering'
    BY <1>0, <1>9 DEF OnShutdown, UpgradeToTls, UpgradeChecks, UpgradeStores
  <1>10. CASE UNCHANGED vars
    BY <1>0, <1>10 DEF vars
  <1>. QED
    BY <1>4, <1>5, <1>6, <1>7, <1>8, <1>9, <1>10, UpgradersAssumption DEF Next, Upgrading

\* What Start and its goroutines wait for moves only in their own steps.
LEMMA Elsewhere ==
    ASSUME [Next]_vars, ~Starts, \A g \in Grabbers : ~Taker(g)
    PROVE  UNCHANGED <<main, wg, takers>>
  BY UpgradersAssumption
  DEF Next, Calls, Stops, WalkBegins, ClosesNext, CancelsAll, Cancels1, Stopped, Upgrading, rest, start,
      takers, stops, vars

\* One that starts counts, and one that is over counts no longer.
LEMMA CountKept ==
    ASSUME TypeOK, TypeOK', Waiting, [Next]_vars
    PROVE  wg' = Cardinality(Working')
  <1>. USE DEF TypeOK, ServerTypeOK, start, takers
  <1>1. Working \subseteq Grabbers /\ IsFiniteSet(Working) /\ wg = Cardinality(Working)
    BY GrabbersAssumption, FS_Subset DEF Working, Waiting
  <1>2. ASSUME wg' = wg, Working' = Working
        PROVE  wg' = Cardinality(Working')
    BY <1>1, <1>2
  <1>3. CASE Registers
    <2>1. PICK g \in Grabbers : taker[g] = "none" /\ taker' = [taker EXCEPT ![g] = "take"]
      BY <1>3 DEF Registers
    <2>2. Working' = Working \cup {g} /\ g \notin Working
      BY <2>1 DEF Working
    <2>. QED
      BY <1>1, <1>3, <2>2, FS_AddElement DEF Registers
  <1>4. CASE InitGrabs \/ Returns
    BY <1>2, <1>4 DEF InitGrabs, Returns, Working
  <1>5. ASSUME NEW g \in Grabbers, Taker(g)
        PROVE  wg' = Cardinality(Working')
    <2>1. CASE Done(g)
      <3>1. Working' = Working \ {g} /\ g \in Working
        BY <2>1 DEF Done, Working
      <3>2. Cardinality(Working') = Cardinality(Working) - 1
        BY <1>1, <3>1, FS_RemoveElement
      <3>. QED
        BY <1>1, <2>1, <3>2 DEF Done
    <2>2. CASE Takes(g) \/ Loads(g) \/ Stores(g)
      <3>1. Working' = Working
        BY <2>2 DEF Takes, Loads, Stores, Working
      <3>. QED
        BY <1>2, <2>2, <3>1 DEF Takes, Loads, Stores
    <2>. QED
      BY <1>5, <2>1, <2>2 DEF Taker
  <1>6. CASE ~Starts /\ \A g \in Grabbers : ~Taker(g)
    BY <1>2, <1>6, Elsewhere DEF Working
  <1>. QED
    BY <1>3, <1>4, <1>5, <1>6 DEF Starts

\* The wait group counts the goroutines that take connections, after every step.
LEMMA WaitingKept ==
    ASSUME TypeOK, TypeOK', Listening, Closing, Waiting, [Next]_vars
    PROVE  Waiting'
  <1>. USE DEF TypeOK, GrabberTypeOK, ServerTypeOK, start, takers
  <1>1. wg' = Cardinality(Working')
    BY CountKept
  <1>2. \A g \in Grabbers : Onwards(g)
    BY OneWay
  <1>3. ASSUME UNCHANGED <<main, taker>>
        PROVE  Waiting'
    BY <1>1, <1>2, <1>3 DEF Waiting, Onwards
  <1>4. CASE InitGrabs
    <2>1. PICK g \in Grabbers : loop[g] = "off" /\ loop' = [loop EXCEPT ![g] = "start"]
      BY <1>4 DEF InitGrabs, Grabs, Goto
    <2>2. main = "grab" /\ main' = "register" /\ UNCHANGED taker
      BY <1>4 DEF InitGrabs
    <2>3. \A h \in Grabbers : loop'[h] # "off" /\ taker'[h] = "none" => h = g
      BY <2>1, <2>2 DEF Waiting
    <2>. QED
      BY <1>1, <1>2, <2>2, <2>3 DEF Waiting, Onwards
  <1>5. CASE Registers
    <2>1. PICK g \in Grabbers : loop[g] # "off" /\ taker[g] = "none"
                                /\ taker' = [taker EXCEPT ![g] = "take"]
      BY <1>5 DEF Registers
    <2>2. UNCHANGED <<loop, ch>> /\ main = "register"
          /\ main' = IF \E h \in Grabbers : loop[h] = "off" THEN "grab" ELSE "wait"
      BY <1>5 DEF Registers, grabber
    <2>3. \A h \in Grabbers : loop[h] # "off" => taker'[h] # "none"
      BY <2>1, <2>2 DEF Waiting
    <2>. QED
      BY <1>1, <2>1, <2>2, <2>3 DEF Waiting
  <1>6. CASE Returns
    <2>1. Working = {}
      BY <1>6, GrabbersAssumption, FS_EmptySet, FS_Subset DEF Returns, Waiting, Working
    <2>2. \A g \in Grabbers : taker[g] = "over"
      BY <1>6, <2>1 DEF Returns, Waiting, Working
    <2>. QED
      BY <1>1, <1>2, <1>6, <2>2 DEF Returns, Waiting, Onwards
  <1>7. ASSUME NEW g \in Grabbers, Taker(g)
        PROVE  Waiting'
    <2>1. main' = main /\ taker[g] \in {"take", "load", "store"}
      BY <1>7 DEF Taker, Takes, Loads, Stores, Done
    <2>2. /\ taker'[g] # "none"
          /\ taker'[g] = "over" => ch[g] = "closed"
          /\ \A h \in Grabbers \ {g} : taker'[h] = taker[h]
      BY <1>7 DEF Taker, Takes, Loads, Stores, Done
    <2>3. main # "returned"
      BY <2>1 DEF Waiting
    <2>4. \A h \in Grabbers : (taker'[h] = "none" <=> taker[h] = "none")
                             /\ (loop'[h] = "off" <=> loop[h] = "off")
      BY <1>2, <2>1, <2>2 DEF Onwards
    <2>5. \A h \in Grabbers : taker'[h] = "over" => ch'[h] = "closed"
      BY <1>2, <2>2 DEF Waiting, Onwards
    <2>6. ASSUME NEW h \in Grabbers
          PROVE  /\ taker'[h] # "none" => loop'[h] # "off"
                 /\ main' = "wait" => taker'[h] # "none"
                 /\ main' = "grab" /\ loop'[h] # "off" => taker'[h] # "none"
      <3>1. /\ taker[h] # "none" => loop[h] # "off"
            /\ main = "wait" => taker[h] # "none"
            /\ main = "grab" /\ loop[h] # "off" => taker[h] # "none"
        BY DEF Waiting
      <3>2. (taker'[h] = "none" <=> taker[h] = "none") /\ (loop'[h] = "off" <=> loop[h] = "off")
        BY <2>4
      <3>. QED
        BY <2>1, <3>1, <3>2
    <2>7. ASSUME main' = "register",
                 NEW h \in Grabbers, NEW k \in Grabbers, loop'[h] # "off" /\ taker'[h] = "none",
                 loop'[k] # "off" /\ taker'[k] = "none"
          PROVE  h = k
      BY <2>1, <2>4, <2>7 DEF Waiting
    <2>. QED
      BY <1>1, <2>1, <2>3, <2>5, <2>6, <2>7 DEF Waiting
  <1>8. CASE ~Starts /\ \A g \in Grabbers : ~Taker(g)
    BY <1>3, <1>8, Elsewhere
  <1>. QED
    BY <1>4, <1>5, <1>6, <1>7, <1>8 DEF Starts

\* Only its goroutine takes what a grabber offers, and only it moves it on.
LEMMA TakingKept ==
    ASSUME TypeOK, TypeOK', Taking, [Next]_vars
    PROVE  Taking'
  <1>. USE DEF TypeOK, GrabberTypeOK, ServerTypeOK, Taking, start, takers, grabber, traffic
  <1>1. ASSUME UNCHANGED takers, NEW c \in Conns, at[c] # "taken", at'[c] # "taken",
               \A d \in Conns \ {c} : UNCHANGED <<at[d], via[d]>>
        PROVE  Taking'
    <2>1. \A g \in Grabbers : Holds(g) => got[g] \in Conns \ {c}
      BY <1>1
    <2>2. UNCHANGED <<taker, got>>
      BY <1>1
    <2>3. \A d \in Conns : at'[d] = "taken" => d # c
      BY <1>1
    <2>4. ASSUME NEW d \in Conns, at'[d] = "taken"
          PROVE  via'[d] \in Grabbers /\ taker'[via'[d]] \in {"load", "store"} /\ got'[via'[d]] = d
      <3>1. d # c /\ at[d] = "taken" /\ via'[d] = via[d]
        BY <1>1, <2>3, <2>4
      <3>. QED
        BY <2>2, <3>1
    <2>5. ASSUME NEW g \in Grabbers, Holds(g)'
          PROVE  at'[got'[g]] = "taken" /\ via'[got'[g]] = g
      <3>1. Holds(g) /\ got'[g] = got[g] /\ got[g] \in Conns \ {c}
        BY <2>1, <2>2, <2>5
      <3>. QED
        BY <1>1, <3>1
    <2>. QED
      BY <2>4, <2>5
  <1>2. ASSUME UNCHANGED <<takers, via>>,
               \A c \in Conns : at'[c] = at[c] \/ (at[c] = "backlog" /\ at'[c] = "dropped")
        PROVE  Taking'
    BY <1>2
  <1>3. CASE Starts
    <2>1. CASE InitGrabs
      BY <1>2, <2>1 DEF InitGrabs, Grabs
    <2>2. CASE Registers
      <3>1. \A g \in Grabbers : Holds(g)' <=> Holds(g)
        BY <2>2 DEF Registers
      <3>. QED
        BY <2>2, <3>1 DEF Registers
    <2>3. CASE Returns
      BY <1>2, <2>3 DEF Returns
    <2>. QED
      BY <1>3, <2>1, <2>2, <2>3 DEF Starts
  <1>4. CASE Calls \/ Stops
    <2>1. UNCHANGED <<takers, via>>
      BY <1>4 DEF Calls, Stops, WalkBegins, ClosesNext, CancelsAll, Cancels1, Stopped, Cancelling,
                  CancelCloses, ShutdownReturns
    <2>2. \A c \in Conns : at'[c] = at[c] \/ (at[c] = "backlog" /\ at'[c] = "dropped")
      BY <1>4 DEF Calls, Stops, WalkBegins, ClosesNext, CancelsAll, Cancels1, Stopped, Cancelling,
                  CancelCloses, ShutdownReturns, Unlisten, In
    <2>. QED
      BY <1>2, <2>1, <2>2
  <1>5. ASSUME NEW g \in Grabbers, Taker(g)
        PROVE  Taking'
    <2>1. CASE Takes(g)
      <3>1. PICK c \in Conns : HandsOver(g, c) /\ got' = [got EXCEPT ![g] = c]
        BY <2>1 DEF Takes
      <3>2. /\ at[c] = "offered" /\ via[c] = g /\ at' = [at EXCEPT ![c] = "taken"] /\ via' = via
            /\ taker[g] = "take" /\ taker' = [taker EXCEPT ![g] = "load"]
        BY <2>1, <3>1 DEF Takes, HandsOver, In
      <3>3. \A d \in Conns : at[d] = "taken" => d # c /\ via[d] # g
        BY <3>2
      <3>4. \A h \in Grabbers : h # g /\ Holds(h) => got[h] # c
        BY <3>2
      <3>. QED
        BY <3>1, <3>2, <3>3, <3>4
    <2>2. CASE Loads(g)
      <3>1. \A h \in Grabbers : Holds(h)' <=> Holds(h)
        BY <2>2 DEF Loads
      <3>. QED
        BY <2>2, <3>1 DEF Loads
    <2>3. CASE Stores(g)
      <3>1. /\ at' = [at EXCEPT ![got[g]] = "served"] /\ via' = via
            /\ taker[g] = "store" /\ taker' = [taker EXCEPT ![g] = "take"]
            /\ got' = [got EXCEPT ![g] = Nobody]
        BY <2>3 DEF Stores
      <3>2. \A d \in Conns : at'[d] = "taken" => at[d] = "taken" /\ d # got[g] /\ via[d] # g
        BY <3>1
      <3>3. \A h \in Grabbers : h # g /\ Holds(h) => got[h] # got[g]
        BY <3>1
      <3>. QED
        BY <3>1, <3>2, <3>3
    <2>4. CASE Done(g)
      <3>1. \A h \in Grabbers : Holds(h)' <=> Holds(h)
        BY <2>4 DEF Done
      <3>. QED
        BY <2>4, <3>1 DEF Done
    <2>. QED
      BY <1>5, <2>1, <2>2, <2>3, <2>4 DEF Taker
  <1>6. ASSUME NEW g \in Grabbers, Loop(g), UNCHANGED takers
        PROVE  Taking'
    <2>1. CASE Accepts(g)
      <3>1. CASE UNCHANGED at
        BY <1>2, <1>6, <2>1, <3>1 DEF Accepts
      <3>2. ASSUME NEW c \in In(g, "backlog"), at' = [at EXCEPT ![c] = "offered"]
            PROVE  Taking'
        BY <1>1, <1>6, <2>1, <3>2 DEF Accepts, In
      <3>. QED
        BY <2>1, <3>1, <3>2 DEF Accepts
    <2>. QED
      BY <1>2, <1>6, <2>1 DEF Loop, Begins, Selects, Ends, Listens, ServeReturns
  <1>7. ASSUME NEW g \in Grabbers, OnShutdown(g) \/ UpgradeToTls(g), UNCHANGED takers
        PROVE  Taking'
    BY <1>2, <1>7 DEF OnShutdown, UpgradeToTls, UpgradeChecks, UpgradeStores
  <1>8. ASSUME NEW c \in Conns, UNCHANGED takers,
               Handler(c) \/ \E g \in Grabbers : Dials(c, g)
        PROVE  Taking'
    <2>1. at[c] # "taken" /\ at'[c] # "taken"
      BY <1>8 DEF Handler, Serves, Upgrades, SendPanics, Dials
    <2>2. \A d \in Conns \ {c} : UNCHANGED <<at[d], via[d]>>
      BY <1>8 DEF Handler, Serves, Upgrades, SendPanics, Dials
    <2>. QED
      BY <1>1, <1>8, <2>1, <2>2
  <1>9. CASE UNCHANGED vars
    BY <1>2, <1>9 DEF vars
  <1>. QED
    BY <1>3, <1>4, <1>5, <1>6, <1>7, <1>8, <1>9, UpgradersAssumption DEF Next, Upgrading, rest

\* One more at the end of a list.
LEMMA AppendRan ==
    ASSUME NEW S, NEW list \in Seq(S), NEW c \in S
    PROVE  /\ Ran(Append(list, c)) = Ran(list) \cup {c}
           /\ DOMAIN Append(list, c) = DOMAIN list \cup {Len(list) + 1}
           /\ Append(list, c)[Len(list) + 1] = c
           /\ \A i \in DOMAIN list : Append(list, c)[i] = list[i]
  <1>1. Len(list) \in Nat /\ DOMAIN list = 1 .. Len(list)
    BY LenProperties
  <1>2. DOMAIN Append(list, c) = 1 .. (Len(list) + 1) /\ Append(list, c)[Len(list) + 1] = c
    BY AppendProperties
  <1>3. DOMAIN Append(list, c) = DOMAIN list \cup {Len(list) + 1}
    BY <1>1, <1>2
  <1>4. \A i \in DOMAIN list : Append(list, c)[i] = list[i]
    BY <1>1, AppendProperties
  <1>. QED
    BY <1>2, <1>3, <1>4 DEF Ran

\* One more that is new in a list of different elements.
LEMMA AppendOnce ==
    ASSUME NEW S, NEW list \in Seq(S), NEW c \in S, c \notin Ran(list),
           \A i, j \in DOMAIN list : list[i] = list[j] => i = j
    PROVE  \A i, j \in DOMAIN Append(list, c) :
               Append(list, c)[i] = Append(list, c)[j] => i = j
  <1>. DEFINE more == Append(list, c)
              n    == Len(list) + 1
  <1>1. DOMAIN more = DOMAIN list \cup {n} /\ more[n] = c
    BY AppendRan
  <1>2. \A i \in DOMAIN list : more[i] = list[i]
    BY AppendRan
  <1>. HIDE DEF more, n
  <1>3. ASSUME NEW i \in DOMAIN more, NEW j \in DOMAIN more, more[i] = more[j]
        PROVE  i = j
    BY <1>1, <1>2, <1>3 DEF Ran
  <1>. QED
    BY <1>3 DEF more

\* Outside of the append, nothing is served that was not, and nobody forgets.
LEMMA ServedElsewhere ==
    ASSUME TypeOK, Taking, [Next]_vars, \A g \in Grabbers : ~Loads(g) /\ ~Stores(g)
    PROVE  /\ \A c \in Conns : at'[c] = "served" <=> at[c] = "served"
           /\ UNCHANGED <<conns, seen, raced>>
           /\ \A g \in Grabbers : taker'[g] = "store" <=> taker[g] = "store"
           /\ \A g \in Grabbers : taker[g] = "store" => got'[g] = got[g]
  <1>. USE DEF TypeOK, GrabberTypeOK, ServerTypeOK, Places, start, takers, grabber, traffic
  <1>1. CASE Starts
    BY <1>1 DEF Starts, InitGrabs, Grabs, Registers, Returns
  <1>2. CASE Calls \/ Stops
    <2>1. UNCHANGED takers
      BY <1>2 DEF Calls, Stops, WalkBegins, ClosesNext, CancelsAll, Cancels1, Stopped
    <2>2. \A c \in Conns : at'[c] = at[c] \/ (at[c] = "backlog" /\ at'[c] = "dropped")
      BY <1>2 DEF Calls, Stops, WalkBegins, ClosesNext, CancelsAll, Cancels1, Stopped, Cancelling,
                  CancelCloses, ShutdownReturns, Unlisten, In
    <2>3. \A c \in Conns : at'[c] = "served" <=> at[c] = "served"
      BY <2>2
    <2>. QED
      BY <2>1, <2>3
  <1>3. ASSUME NEW g \in Grabbers, Taker(g)
        PROVE  /\ \A c \in Conns : at'[c] = "served" <=> at[c] = "served"
               /\ UNCHANGED <<conns, seen, raced>>
               /\ \A h \in Grabbers : taker'[h] = "store" <=> taker[h] = "store"
               /\ \A h \in Grabbers : taker[h] = "store" => got'[h] = got[h]
    <2>1. CASE Takes(g)
      BY <2>1 DEF Takes, HandsOver, In
    <2>2. CASE Done(g)
      BY <2>2 DEF Done
    <2>. QED
      BY <1>3, <2>1, <2>2 DEF Taker
  <1>4. ASSUME UNCHANGED takers,
               \/ \E c \in Conns : Handler(c) \/ \E g \in Grabbers : Dials(c, g)
               \/ \E g \in Grabbers : Loop(g) \/ OnShutdown(g) \/ UpgradeToTls(g)
               \/ UNCHANGED vars
        PROVE  \A c \in Conns : at'[c] = "served" <=> at[c] = "served"
    <2>1. ASSUME NEW c \in Conns, Handler(c) \/ \E g \in Grabbers : Dials(c, g)
          PROVE  \A d \in Conns : at'[d] = "served" <=> at[d] = "served"
      BY <2>1 DEF Handler, Serves, Upgrades, SendPanics, Dials
    <2>2. ASSUME NEW g \in Grabbers, Loop(g) \/ OnShutdown(g) \/ UpgradeToTls(g)
          PROVE  \A d \in Conns : at'[d] = "served" <=> at[d] = "served"
      <3>1. CASE Accepts(g)
        BY <3>1 DEF Accepts, In
      <3>. QED
        BY <2>2, <3>1
        DEF Loop, Begins, Selects, Ends, Listens, ServeReturns, OnShutdown, UpgradeToTls,
            UpgradeChecks, UpgradeStores
    <2>. QED
      BY <1>4, <2>1, <2>2 DEF vars
  <1>. QED
    BY <1>1, <1>2, <1>3, <1>4, UpgradersAssumption DEF Next, Upgrading, rest, vars

\* The append reads the list and writes it in two steps, and what comes between
\* two of them is remembered as raced.
LEMMA AppendingKept ==
    ASSUME TypeOK, TypeOK', Taking, Appending, [Next]_vars
    PROVE  Appending'
  <1>. USE DEF TypeOK, GrabberTypeOK, ServerTypeOK
  <1>1. ASSUME NEW g \in Grabbers, Loads(g)
        PROVE  Appending'
    <2>. DEFINE others == {h \in Grabbers : taker[h] = "store"}
    <2>1. /\ seen' = [seen EXCEPT ![g] = conns] /\ taker' = [taker EXCEPT ![g] = "store"]
          /\ UNCHANGED <<at, got, conns>>
          /\ raced' = IF others = {} THEN raced ELSE raced \cup {got[h] : h \in others \cup {g}}
      BY <1>1 DEF Loads, traffic
    <2>2. raced \subseteq raced'
      BY <2>1
    <2>3. ASSUME NEW list, Complete(list)
          PROVE  Complete(list)'
      BY <2>1, <2>2, <2>3 DEF Complete, Ran
    <2>4. Complete(conns)'
      BY <2>1, <2>3 DEF Appending
    <2>5. ASSUME NEW h \in Grabbers, taker'[h] = "store"
          PROVE  Complete(seen[h])'
      <3>1. CASE h = g
        BY <2>1, <2>4, <3>1
      <3>2. CASE h # g
        <4>1. seen'[h] = seen[h] /\ Complete(seen[h])
          BY <2>1, <2>5, <3>2 DEF Appending
        <4>2. Complete(seen[h])'
          BY <2>1, <2>2, <4>1 DEF Complete, Ran
        <4>. QED
          BY <4>2
      <3>. QED
        BY <3>1, <3>2
    <2>6. ASSUME NEW h \in Grabbers, NEW k \in Grabbers, h # k,
                 taker'[h] = "store", taker'[k] = "store"
          PROVE  got'[h] \in raced'
      <3>1. CASE h # g /\ k # g
        BY <2>1, <2>2, <2>6, <3>1 DEF Appending
      <3>2. CASE h = g \/ k = g
        BY <2>1, <2>6, <3>2
      <3>. QED
        BY <3>1, <3>2
    <2>. QED
      BY <2>4, <2>5, <2>6 DEF Appending
  <1>2. ASSUME NEW g \in Grabbers, Stores(g)
        PROVE  Appending'
    <2>1. /\ conns' = Append(seen[g], got[g]) /\ UNCHANGED raced
          /\ at' = [at EXCEPT ![got[g]] = "served"]
          /\ taker[g] = "store" /\ taker' = [taker EXCEPT ![g] = "take"]
          /\ got' = [got EXCEPT ![g] = Nobody] /\ seen' = [seen EXCEPT ![g] = <<>>]
      BY <1>2 DEF Stores
    <2>2. got[g] \in Conns /\ at[got[g]] = "taken" /\ Complete(seen[g]) /\ seen[g] \in Seq(Conns)
      BY <2>1 DEF Taking, Appending
    <2>3. \A c \in Conns : at'[c] = "served" <=> at[c] = "served" \/ c = got[g]
      BY <2>1, <2>2
    <2>4. Complete(conns)'
      <3>1. got[g] \notin Ran(seen[g])
        BY <2>2 DEF Complete
      <3>2. Ran(conns') = Ran(seen[g]) \cup {got[g]}
        BY <2>1, <2>2, AppendRan
      <3>3. \A i, j \in DOMAIN conns' : conns'[i] = conns'[j] => i = j
        <4>1. \A i, j \in DOMAIN seen[g] : seen[g][i] = seen[g][j] => i = j
          BY <2>2 DEF Complete
        <4>2. \A i, j \in DOMAIN Append(seen[g], got[g]) :
                  Append(seen[g], got[g])[i] = Append(seen[g], got[g])[j] => i = j
          <5>1. got[g] \in Conns /\ seen[g] \in Seq(Conns)
            BY <2>2
          <5>. HIDE DEF TypeOK, ServerTypeOK, GrabberTypeOK
          <5>. QED
            BY <3>1, <4>1, <5>1, AppendOnce, Zenon
        <4>. QED
          BY <2>1, <4>2, Zenon
      <3>4. Ran(seen[g]) \subseteq Conns
        BY <2>2, ElementOfSeq DEF Ran
      <3>5. ASSUME NEW c \in Conns, at'[c] = "served", c \notin raced'
            PROVE  c \in Ran(conns')
        BY <2>1, <2>2, <2>3, <3>2, <3>5 DEF Complete
      <3>6. ASSUME NEW c \in Ran(conns')
            PROVE  at'[c] = "served"
        BY <2>2, <2>3, <3>2, <3>4 DEF Complete
      <3>. QED
        BY <3>3, <3>5, <3>6 DEF Complete
    <2>5. ASSUME NEW h \in Grabbers, taker'[h] = "store"
          PROVE  Complete(seen[h])'
      <3>1. h # g /\ taker[h] = "store" /\ seen'[h] = seen[h] /\ Complete(seen[h])
        BY <2>1, <2>5 DEF Appending
      <3>2. got[g] \in raced
        BY <2>1, <3>1 DEF Appending
      <3>3. Ran(seen[h]) \subseteq Conns
        BY ElementOfSeq DEF Ran
      <3>. QED
        BY <2>1, <2>3, <3>1, <3>2, <3>3 DEF Complete
    <2>6. ASSUME NEW h \in Grabbers, NEW k \in Grabbers, h # k,
                 taker'[h] = "store", taker'[k] = "store"
          PROVE  got'[h] \in raced'
      BY <2>1, <2>6 DEF Appending
    <2>. QED
      BY <2>4, <2>5, <2>6 DEF Appending
  <1>3. CASE \A g \in Grabbers : ~Loads(g) /\ ~Stores(g)
    <2>1. /\ \A c \in Conns : at'[c] = "served" <=> at[c] = "served"
          /\ UNCHANGED <<conns, seen, raced>>
          /\ \A g \in Grabbers : taker'[g] = "store" <=> taker[g] = "store"
          /\ \A g \in Grabbers : taker[g] = "store" => got'[g] = got[g]
      BY <1>3, ServedElsewhere
    <2>2. Ran(conns) \subseteq Conns /\ \A g \in Grabbers : Ran(seen[g]) \subseteq Conns
      BY ElementOfSeq DEF Ran
    <2>3. Complete(conns)'
      BY <2>1, <2>2 DEF Appending, Complete
    <2>4. ASSUME NEW g \in Grabbers, taker'[g] = "store"
          PROVE  Complete(seen[g])'
      <3>1. Complete(seen[g]) /\ seen'[g] = seen[g]
        BY <2>1, <2>4 DEF Appending
      <3>. QED
        BY <2>1, <2>2, <3>1 DEF Complete
    <2>. QED
      BY <2>1, <2>3, <2>4 DEF Appending
  <1>. QED
    BY <1>1, <1>2, <1>3

\* Only the beginning and the end of Stop's walk take another list.
LEMMA WalkElsewhere ==
    ASSUME [Next]_vars, ~WalkBegins, ~CancelsAll, \A g \in Grabbers : ~Stores(g)
    PROVE  walk' = walk
  BY UpgradersAssumption
  DEF Next, Starts, InitGrabs, Registers, Returns, Calls, Stops, ClosesNext, Cancels1, Stopped,
      Taker, Takes, Loads, Done, Upgrading, rest, stops, vars

\* An append goes behind what the others have read, unless they have raced.
LEMMA SharingKept ==
    ASSUME TypeOK, TypeOK', Taking, Appending, Sharing, [Next]_vars
    PROVE  Sharing'
  <1>. USE DEF TypeOK, GrabberTypeOK, ServerTypeOK
  <1>0. ASSUME raced \subseteq raced', NEW l, NEW m, Below(l, m)
        PROVE  \A i \in DOMAIN l : l[i] \in raced' \/ i \in DOMAIN m
    BY <1>0 DEF Below
  <1>1. ASSUME NEW g \in Grabbers, Loads(g)
        PROVE  Sharing'
    <2>1. /\ seen' = [seen EXCEPT ![g] = conns] /\ taker' = [taker EXCEPT ![g] = "store"]
          /\ UNCHANGED <<conns, walk>> /\ raced \subseteq raced'
      BY <1>1 DEF Loads, stops
    <2>2. ASSUME NEW h \in Grabbers, taker'[h] = "store"
          PROVE  seen'[h] = conns \/ (taker[h] = "store" /\ seen'[h] = seen[h])
      BY <2>1, <2>2
    <2>3. ASSUME NEW l, Below(l, conns),
                 \A h \in Grabbers : taker[h] = "store" => Below(l, seen[h]),
                 NEW m, m = conns \/ \E h \in Grabbers : taker[h] = "store" /\ m = seen[h]
          PROVE  \A i \in DOMAIN l : l[i] \in raced' \/ i \in DOMAIN m
      BY <2>1, <2>3 DEF Below
    <2>4. Below(conns, conns)
      BY DEF Below
    <2>5. Below(walk, conns)'
      BY <2>1, <2>3 DEF Sharing, Below
    <2>6. ASSUME NEW h \in Grabbers, taker'[h] = "store"
          PROVE  /\ Below(walk, seen[h])' /\ Below(conns, seen[h])' /\ Below(seen[h], conns)'
                 /\ \A k \in Grabbers : taker'[k] = "store" => Below(seen[k], seen[h])'
      <3>1. seen'[h] = conns \/ \E f \in Grabbers : taker[f] = "store" /\ seen'[h] = seen[f]
        BY <2>2, <2>6
      <3>2. Below(walk, seen[h])'
        <4>1. \A i \in DOMAIN walk : walk[i] \in raced' \/ i \in DOMAIN seen'[h]
          BY <2>3, <3>1 DEF Sharing
        <4>. QED
          BY <2>1, <4>1 DEF Below
      <3>3. Below(conns, seen[h])'
        <4>1. \A i \in DOMAIN conns : conns[i] \in raced' \/ i \in DOMAIN seen'[h]
          BY <2>3, <2>4, <3>1 DEF Sharing
        <4>. QED
          BY <2>1, <4>1 DEF Below
      <3>4. ASSUME NEW m, m = conns \/ \E f \in Grabbers : taker[f] = "store" /\ m = seen[f],
                   NEW k \in Grabbers, taker'[k] = "store"
            PROVE  \A i \in DOMAIN seen'[k] : seen'[k][i] \in raced' \/ i \in DOMAIN m
        <4>1. CASE seen'[k] = conns
          BY <2>3, <2>4, <3>4, <4>1 DEF Sharing
        <4>2. CASE taker[k] = "store" /\ seen'[k] = seen[k]
          BY <2>3, <3>4, <4>2 DEF Sharing
        <4>. QED
          BY <2>2, <3>4, <4>1, <4>2
      <3>5. Below(seen[h], conns)'
        <4>1. \A i \in DOMAIN seen'[h] : seen'[h][i] \in raced' \/ i \in DOMAIN conns
          BY <2>6, <3>4
        <4>. QED
          BY <2>1, <4>1 DEF Below
      <3>6. ASSUME NEW k \in Grabbers, taker'[k] = "store"
            PROVE  Below(seen[k], seen[h])'
        <4>1. \A i \in DOMAIN seen'[k] : seen'[k][i] \in raced' \/ i \in DOMAIN seen'[h]
          BY <3>1, <3>4, <3>6
        <4>. QED
          BY <4>1 DEF Below
      <3>. QED
        BY <3>2, <3>3, <3>5, <3>6
    <2>. QED
      BY <2>5, <2>6 DEF Sharing
  <1>2. ASSUME NEW g \in Grabbers, Stores(g)
        PROVE  Sharing'
    <2>. DEFINE n == Len(seen[g]) + 1
    <2>1. /\ conns' = Append(seen[g], got[g]) /\ UNCHANGED raced
          /\ taker[g] = "store" /\ taker' = [taker EXCEPT ![g] = "take"]
          /\ seen' = [seen EXCEPT ![g] = <<>>]
          /\ walk' = walk \/ (n \in DOMAIN walk /\ walk' = [walk EXCEPT ![n] = got[g]])
      BY <1>2 DEF Stores
    <2>2. got[g] \in Conns /\ seen[g] \in Seq(Conns)
      BY <2>1
    <2>3. /\ DOMAIN conns' = DOMAIN seen[g] \cup {n} /\ conns'[n] = got[g]
          /\ \A i \in DOMAIN seen[g] : conns'[i] = seen[g][i]
      <3>1. PICK l \in Seq(Conns) : l = seen[g]
        BY <2>2
      <3>2. /\ DOMAIN Append(l, got[g]) = DOMAIN l \cup {Len(l) + 1}
            /\ Append(l, got[g])[Len(l) + 1] = got[g]
            /\ \A i \in DOMAIN l : Append(l, got[g])[i] = l[i]
        <4>. HIDE DEF TypeOK, GrabberTypeOK, ServerTypeOK
        <4>. QED
          BY <2>2, AppendRan
      <3>. QED
        BY <2>1, <3>1, <3>2
    <2>. HIDE DEF n
    <2>4. ASSUME NEW h \in Grabbers, taker'[h] = "store"
          PROVE  h # g /\ taker[h] = "store" /\ seen'[h] = seen[h] /\ got[g] \in raced
      <3>1. h # g /\ taker[h] = "store" /\ seen'[h] = seen[h]
        BY <2>1, <2>4
      <3>. QED
        BY <2>1, <3>1 DEF Appending
    <2>5. DOMAIN walk' = DOMAIN walk /\ \A i \in DOMAIN walk : walk'[i] = walk[i]
                                                             \/ (i = n /\ walk'[i] = got[g])
      BY <2>1
    <2>6. Below(walk, conns)'
      <3>1. Below(walk, seen[g])
        BY <2>1 DEF Sharing
      <3>. QED
        BY <2>1, <2>3, <2>5, <3>1 DEF Below
    <2>7. ASSUME NEW h \in Grabbers, taker'[h] = "store"
          PROVE  /\ Below(walk, seen[h])' /\ Below(conns, seen[h])' /\ Below(seen[h], conns)'
                 /\ \A k \in Grabbers : taker'[k] = "store" => Below(seen[k], seen[h])'
      <3>1. taker[h] = "store" /\ seen'[h] = seen[h] /\ got[g] \in raced
        BY <2>4, <2>7
      <3>2. Below(walk, seen[h]) /\ Below(seen[g], seen[h]) /\ Below(seen[h], seen[g])
        BY <2>1, <3>1 DEF Sharing
      <3>3. Below(walk, seen[h])'
        BY <2>1, <2>5, <3>1, <3>2 DEF Below
      <3>4. Below(conns, seen[h])'
        BY <2>1, <2>3, <3>1, <3>2 DEF Below
      <3>5. Below(seen[h], conns)'
        BY <2>1, <2>3, <3>1, <3>2 DEF Below
      <3>6. ASSUME NEW k \in Grabbers, taker'[k] = "store"
            PROVE  Below(seen[k], seen[h])'
        <4>1. taker[k] = "store" /\ seen'[k] = seen[k]
          BY <2>4, <3>6
        <4>2. Below(seen[k], seen[h])
          BY <3>1, <4>1 DEF Sharing
        <4>. QED
          BY <2>1, <3>1, <4>1, <4>2 DEF Below
      <3>. QED
        BY <3>3, <3>4, <3>5, <3>6
    <2>. QED
      BY <2>6, <2>7 DEF Sharing
  <1>3. CASE \A g \in Grabbers : ~Loads(g) /\ ~Stores(g)
    <2>1. /\ UNCHANGED <<conns, seen, raced>>
          /\ \A g \in Grabbers : taker'[g] = "store" <=> taker[g] = "store"
      BY <1>3, ServedElsewhere
    <2>2. walk' = walk \/ walk' = conns \/ walk' = <<>>
      BY <1>3, WalkElsewhere DEF WalkBegins, CancelsAll
    <2>3. DOMAIN <<>> = {}
      OBVIOUS
    <2>. QED
      BY <2>1, <2>2, <2>3 DEF Sharing, Below
  <1>. QED
    BY <1>1, <1>2, <1>3

\* What Stop does and leaves alone, apart from the appends.
LEMMA WalkingKept ==
    ASSUME TypeOK, TypeOK', Taking, Appending, Sharing, Walking, [Next]_vars
    PROVE  Walking'
  <1>. USE DEF TypeOK, GrabberTypeOK, ServerTypeOK, start, takers, stops
  <1>1. ASSUME NEW c \in Conns, at[c] = "served"
        PROVE  at'[c] = "served"
    <2>1. CASE \A g \in Grabbers : ~Loads(g) /\ ~Stores(g)
      BY <1>1, <2>1, ServedElsewhere
    <2>2. ASSUME NEW g \in Grabbers, Loads(g) \/ Stores(g)
          PROVE  at'[c] = "served"
      BY <1>1, <2>2 DEF Loads, Stores, traffic
    <2>. QED
      BY <2>1, <2>2
  <1>2. raced \subseteq raced'
    <2>1. CASE \A g \in Grabbers : ~Loads(g) /\ ~Stores(g)
      BY <2>1, ServedElsewhere
    <2>2. ASSUME NEW g \in Grabbers, Loads(g) \/ Stores(g)
          PROVE  raced \subseteq raced'
      BY <2>2 DEF Loads, Stores
    <2>. QED
      BY <2>1, <2>2
  <1>3. ASSUME UNCHANGED <<stop, walk, next, before, closed>>
        PROVE  Walking'
    BY <1>1, <1>2, <1>3 DEF Walking, Ahead, ClosesWhatItFound
  <1>4. CASE Calls
    BY <1>1, <1>4 DEF Calls, Walking, ClosesWhatItFound, traffic
  <1>5. CASE WalkBegins
    <2>1. /\ stop' = "closing" /\ walk' = conns /\ next' = 1
          /\ UNCHANGED <<before, closed, raced, at>>
      BY <1>5 DEF WalkBegins, traffic, Walking
    <2>2. ASSUME NEW c \in before, c \notin raced
          PROVE  Ahead(c)'
      <3>1. c \in Ran(conns)
        BY <2>2 DEF Walking, Appending, Complete
      <3>2. PICK i \in DOMAIN conns : conns[i] = c
        BY <3>1 DEF Ran
      <3>3. i \in Nat /\ i >= 1
        BY LenProperties
      <3>. QED
        BY <2>1, <3>2, <3>3 DEF Ahead
    <2>. QED
      BY <2>1, <2>2 DEF Walking, ClosesWhatItFound
  <1>6. CASE ClosesNext
    <2>1. /\ stop = "closing" /\ next \in DOMAIN walk /\ closed' = closed \cup {walk[next]}
          /\ next' = next + 1 /\ UNCHANGED <<stop, walk, before, raced, at>>
      BY <1>6 DEF ClosesNext, traffic
    <2>2. ASSUME NEW c \in before, c \notin closed' \cup raced
          PROVE  Ahead(c)'
      <3>1. PICK i \in DOMAIN walk : i >= next /\ walk[i] = c
        BY <2>1, <2>2 DEF Walking, Ahead
      <3>2. i # next
        BY <2>1, <2>2, <3>1
      <3>3. i \in Nat
        BY LenProperties
      <3>4. i >= next + 1
        BY <3>1, <3>2, <3>3
      <3>. QED
        BY <2>1, <3>1, <3>4 DEF Ahead
    <2>. QED
      BY <2>1, <2>2 DEF Walking, ClosesWhatItFound
  <1>7. CASE CancelsAll
    <2>1. /\ stop = "closing" /\ next > Len(walk) /\ stop' = "cancel"
          /\ UNCHANGED <<next, before, closed, raced, at>>
      BY <1>7 DEF CancelsAll, traffic
    <2>2. \A i \in DOMAIN walk : ~(i >= next)
      <3>1. DOMAIN walk = 1 .. Len(walk) /\ Len(walk) \in Nat
        BY LenProperties
      <3>. QED
        BY <2>1, <3>1
    <2>3. before \subseteq closed \cup raced
      BY <2>1, <2>2 DEF Walking, Ahead
    <2>. QED
      BY <2>1, <2>3 DEF Walking, ClosesWhatItFound
  <1>8. CASE Stopped
    BY <1>1, <1>2, <1>8 DEF Stopped, Walking, ClosesWhatItFound
  <1>9. CASE Cancels1
    BY <1>3, <1>9 DEF Cancels1
  <1>10. ASSUME NEW g \in Grabbers, Stores(g)
         PROVE  Walking'
    <2>. DEFINE n == Len(seen[g]) + 1
    <2>1. /\ UNCHANGED <<raced, stop, next, before, closed>> /\ taker[g] = "store"
          /\ walk' = walk \/ (n \in DOMAIN walk /\ walk' = [walk EXCEPT ![n] = got[g]])
      BY <1>10 DEF Stores
    <2>2. n \in DOMAIN walk => walk[n] \in raced
      <3>1. Below(walk, seen[g]) /\ seen[g] \in Seq(Conns)
        BY <2>1 DEF Sharing
      <3>2. n \notin DOMAIN seen[g]
        BY <3>1, LenProperties
      <3>. QED
        BY <3>1, <3>2 DEF Below
    <2>. HIDE DEF n
    <2>3. ASSUME NEW c \in before, c \notin closed \cup raced, stop = "closing"
          PROVE  Ahead(c)'
      <3>1. PICK i \in DOMAIN walk : i >= next /\ walk[i] = c
        BY <2>3 DEF Walking, Ahead
      <3>2. i # n
        BY <2>2, <2>3, <3>1
      <3>3. i \in DOMAIN walk' /\ walk'[i] = c
        BY <2>1, <3>1, <3>2
      <3>. QED
        BY <2>1, <3>1, <3>3 DEF Ahead
    <2>. QED
      BY <1>1, <2>1, <2>3 DEF Walking, ClosesWhatItFound
  <1>11. CASE Starts \/ \E g \in Grabbers : Takes(g) \/ Loads(g) \/ Done(g)
    BY <1>3, <1>11 DEF Starts, InitGrabs, Registers, Returns, Takes, Loads, Done
  <1>12. CASE UNCHANGED rest \/ UNCHANGED vars
    BY <1>3, <1>12 DEF rest, vars
  <1>. QED
    BY <1>4, <1>5, <1>6, <1>7, <1>8, <1>9, <1>10, <1>11, <1>12
    DEF Next, Stops, Taker, Upgrading

\* Where the flag is down the loop has not begun or is over, and over it stays.
LEMMA PassingKept ==
    ASSUME TypeOK, TypeOK', Listening, Closing, Passing, [Next]_vars
    PROVE  Passing'
  <1>. USE DEF TypeOK, GrabberTypeOK, ServerTypeOK, Loops, grabber
  <1>1. \A g \in Grabbers : loop[g] = "over" => loop'[g] = "over"
    BY OneWay DEF Onwards
  <1>2. ASSUME passed' = passed PROVE Passing'
    BY <1>1, <1>2 DEF Passing
  <1>3. ASSUME NEW g \in Grabbers, UpgradeChecks(g)
        PROVE  Passing'
    <2>1. loop[g] \in {"off", "start", "over"}
      BY <1>3 DEF UpgradeChecks, Listening, PortOK
    <2>2. /\ passed' = [passed EXCEPT ![g] = IF loop[g] = "over" THEN "after" ELSE "before"]
          /\ UNCHANGED loop
      BY <1>3, <2>1 DEF UpgradeChecks
    <2>. QED
      BY <2>1, <2>2 DEF Passing
  <1>4. ASSUME NEW g \in Grabbers, UpgradeStores(g)
        PROVE  Passing'
    BY <1>4 DEF UpgradeStores, Passing
  <1>5. CASE Starts \/ Calls \/ Stops
    <2>1. passed' = passed
      BY <1>5 DEF Starts, InitGrabs, Grabs, Registers, Returns, Calls, Stops, WalkBegins,
                  ClosesNext, CancelsAll, Cancels1, Stopped, Cancelling, CancelCloses,
                  ShutdownReturns
    <2>. QED
      BY <1>2, <2>1
  <1>6. ASSUME NEW g \in Grabbers, Taker(g) \/ Loop(g) \/ OnShutdown(g)
        PROVE  Passing'
    <2>1. passed' = passed
      BY <1>6 DEF Taker, Takes, HandsOver, Loads, Stores, Done, Loop, Begins, Selects, Accepts,
                  Ends, Listens, ServeReturns, OnShutdown
    <2>. QED
      BY <1>2, <2>1
  <1>7. ASSUME NEW c \in Conns, Handler(c) \/ \E g \in Grabbers : Dials(c, g)
        PROVE  Passing'
    BY <1>2, <1>7 DEF Handler, Serves, Upgrades, SendPanics, Dials
  <1>8. CASE UNCHANGED vars
    BY <1>2, <1>8 DEF vars
  <1>. QED
    BY <1>3, <1>4, <1>5, <1>6, <1>7, <1>8, UpgradersAssumption DEF Next, Upgrading, UpgradeToTls

\* Every step keeps the inductive invariant.
LEMMA StepInv == GInv /\ [Next]_vars => GInv'
  <1>. SUFFICES ASSUME GInv, [Next]_vars
                PROVE  GInv'
    OBVIOUS
  <1>1. TypeOK' /\ TypeOK
    BY StepType DEF GInv
  <1>. QED
    BY <1>1, ListeningKept, ClosingKept, OfferingKept, WaitingKept, TakingKept, AppendingKept,
       SharingKept, WalkingKept, PassingKept
    DEF GInv

\* The invariant of the server and its grabbers holds for any grabbers and
\* connections (conn_grabber.go:46-206, example/server/server.go:35-97).
THEOREM GrabberInvariant == Spec => []GInv
  <1>1. Init => GInv
    BY InitInv
  <1>2. GInv /\ [Next]_vars => GInv'
    BY StepInv
  <1>. QED
    BY <1>1, <1>2, PTL DEF Spec

-----------------------------------------------------------------------------
(* What the server promises *)

\* Start returns only when every grabber has closed its channel and what it
\* handed over has been taken (server.go:61, 74-87).
THEOREM StartReturnsLast == Spec => []ReturnsLast
  <1>1. GInv => ReturnsLast
    BY DEF GInv, Waiting, Taking, ReturnsLast
  <1>. QED
    BY <1>1, GrabberInvariant, PTL

\* What is served is in the list that Stop reads, once, unless its append ran
\* beside another (server.go:82).
THEOREM ListRemembers == Spec => []Remembered
  <1>1. GInv => Remembered
    BY DEF GInv, Appending, Complete, Remembered
  <1>. QED
    BY <1>1, GrabberInvariant, PTL

\* What is served when Stop is called has been closed when it cancels the first
\* grabber, whatever is appended to the list while Stop walks through it, unless
\* its own append overlapped another (server.go:82, 90-97).
THEOREM StopClosesFirst == Spec => []ClosesWhatItFound
  <1>1. GInv => ClosesWhatItFound
    BY DEF GInv, Walking
  <1>. QED
    BY <1>1, GrabberInvariant, PTL

\* A connection that was accepted and then lost was a WebSocket grabber's that is
\* being cancelled (conn_grabber.go:74-79).
THEOREM OnlyShutdownLoses == Spec => LostOnlyAtShutdown
  <1>1. GInv /\ [Next]_vars =>
            \A c \in Conns :
                at[c] \in {"offered", "taken"} /\ at'[c] = "dropped" =>
                    via[c] \in Ws /\ cancel[via[c]] \in {"quitting", "done"}
    <2>. SUFFICES ASSUME GInv, [Next]_vars, NEW c \in Conns,
                         at[c] \in {"offered", "taken"}, at'[c] = "dropped"
                  PROVE  via[c] \in Ws /\ cancel[via[c]] \in {"quitting", "done"}
      OBVIOUS
    <2>. USE DEF GInv, TypeOK, GrabberTypeOK, ServerTypeOK, Places, grabber, traffic
    <2>1. CASE Starts
      BY <2>1 DEF Starts, InitGrabs, Grabs, Registers, Returns
    <2>2. CASE Calls \/ Stops
      <3>1. \A d \in Conns : at'[d] = at[d] \/ (at[d] = "backlog" /\ at'[d] = "dropped")
        BY <2>2 DEF Calls, Stops, WalkBegins, ClosesNext, CancelsAll, Cancels1, Stopped, Cancelling,
                    CancelCloses, ShutdownReturns, Unlisten, In
      <3>. QED
        BY <3>1
    <2>3. ASSUME NEW g \in Grabbers, Taker(g) \/ Loop(g) \/ OnShutdown(g) \/ UpgradeToTls(g)
          PROVE  FALSE
      <3>1. CASE Takes(g)
        BY <3>1 DEF Takes, HandsOver
      <3>4. CASE Accepts(g)
        BY <3>4 DEF Accepts
      <3>2. CASE Loads(g) \/ Stores(g) \/ Done(g)
        BY <3>2 DEF Loads, Stores, Done
      <3>3. CASE UNCHANGED at
        BY <3>3
      <3>. QED
        BY <2>3, <3>1, <3>2, <3>3, <3>4
        DEF Taker, Loop, Begins, Selects, Ends, Listens, ServeReturns, OnShutdown, UpgradeToTls,
            UpgradeChecks, UpgradeStores
    <2>4. ASSUME NEW d \in Conns, NEW g \in Grabbers, Dials(d, g)
          PROVE  FALSE
      BY <2>4 DEF Dials
    <2>5. ASSUME NEW d \in Conns, Handler(d)
          PROVE  via[c] \in Ws /\ cancel[via[c]] \in {"quitting", "done"}
      <3>1. c = d /\ SendPanics(d)
        BY <2>5 DEF Handler, Serves, Upgrades, SendPanics
      <3>2. at[c] = "offered" /\ ch[via[c]] = "closed" /\ via[c] \in Grabbers
        BY <3>1 DEF SendPanics, Offering
      <3>3. via[c] \notin Tcp
        BY <3>2 DEF Offering, Closing
      <3>. QED
        BY <3>2, <3>3 DEF Closing
    <2>. QED
      BY <2>1, <2>2, <2>3, <2>4, <2>5, UpgradersAssumption DEF Next, Upgrading, vars
  <1>. QED
    BY <1>1, GrabberInvariant, PTL DEF Spec, LostOnlyAtShutdown

\* What Type() says of an open listener turns against it only by a call of
\* UpgradeToTls that saw the flag before the goroutine of Grab had set it, however
\* late that call stores the files (conn_grabber.go:54-61, 81, 135-142, 165).
THEOREM TypeTurnsOnlyEarly == Spec => TypeTurnsEarly
  <1>1. GInv /\ [Next]_vars =>
            \A g \in Grabbers :
                ln[g] = "open" /\ certs[g] = lnTls[g] /\ certs'[g] # lnTls'[g] =>
                    passed[g] = "before"
    <2>. SUFFICES ASSUME GInv, [Next]_vars, NEW g \in Grabbers, ln[g] = "open",
                         passed[g] # "before"
                  PROVE  certs'[g] = certs[g] /\ lnTls'[g] = lnTls[g]
      OBVIOUS
    <2>. USE DEF GInv, TypeOK, GrabberTypeOK, ServerTypeOK, Goto, grabber, traffic
    <2>0. loop[g] \notin {"off", "listen", "over"} /\ passed[g] = "none"
      BY DEF Listening, PortOK, Passing
    <2>1. CASE Starts
      BY <2>0, <2>1 DEF Starts, InitGrabs, Grabs, Registers, Returns
    <2>2. CASE Calls \/ Stops
      BY <2>2 DEF Calls, Stops, WalkBegins, ClosesNext, CancelsAll, Cancels1, Stopped, Cancelling,
                  CancelCloses, ShutdownReturns
    <2>3. ASSUME NEW h \in Grabbers, Taker(h) \/ OnShutdown(h)
          PROVE  certs'[g] = certs[g] /\ lnTls'[g] = lnTls[g]
      BY <2>3 DEF Taker, Takes, HandsOver, Loads, Stores, Done, OnShutdown
    <2>4. ASSUME NEW h \in Grabbers, Loop(h)
          PROVE  certs'[g] = certs[g] /\ lnTls'[g] = lnTls[g]
      BY <2>0, <2>4 DEF Loop, Begins, Selects, Accepts, Ends, Listens, ServeReturns
    <2>5. ASSUME NEW h \in Grabbers, UpgradeToTls(h)
          PROVE  certs'[g] = certs[g] /\ lnTls'[g] = lnTls[g]
      BY <2>0, <2>5 DEF UpgradeToTls, UpgradeChecks, UpgradeStores
    <2>6. ASSUME NEW c \in Conns, Handler(c) \/ \E h \in Grabbers : Dials(c, h)
          PROVE  certs'[g] = certs[g] /\ lnTls'[g] = lnTls[g]
      BY <2>6 DEF Handler, Serves, Upgrades, SendPanics, Dials
    <2>. QED
      BY <2>1, <2>2, <2>3, <2>4, <2>5, <2>6, UpgradersAssumption DEF Next, Upgrading, vars
  <1>. QED
    BY <1>1, GrabberInvariant, PTL DEF Spec, TypeTurnsEarly
=============================================================================
