----------------------------- MODULE XPartProofs -----------------------------
(***************************************************************************)
(* Proofs about the server end of XPart under the arbitrary peer of        *)
(* XPartWorld, for every set of features and faults and every bound.       *)
(*                                                                         *)
(* No single safety property is inductive.  IInv adds to the type and the  *)
(* stack of the goroutines what the stack is for: whatever is unresolved   *)
(* is on offer, and has its handler at every level that is alive.          *)
(***************************************************************************)
EXTENDS XPartWorld, XChannelProofs, SequenceTheorems, TLAPS

-----------------------------------------------------------------------------
(* Type correctness *)

\* The decoder takes frames from the front.
LEMMA TailOfInput ==
    ASSUME NEW s \in Seq(FromPeer), s # <<>>
    PROVE  Tail(s) \in Seq(FromPeer)
  BY HeadTailProperties

USE DEF Level

\* The initial states have their types.
LEMMA InitType == WorldInit => TypeOK
  <1>1. NewEnd \in Ends
    BY NewEndIsEnd
  <1>2. <<>> \in Seq(FromPeer)
    OBVIOUS
  <1>. QED
    BY <1>1, <1>2, MaxDepthAssumption, MaxFramesAssumption
    DEF WorldInit, Init, TypeOK, PCs, Busy, Asking, FromPeer, Layerings

\* What a goroutine of the server does to the stream and to its counter, of
\* which every action of XPart is an instance.
LEMMA ServerStepType ==
    ASSUME TypeOK, NEW l \in Level, Step(l), UNCHANGED peer
    PROVE  TypeOK'
  <1>. USE DEF TypeOK, peer
  <1>. DEFINE e1 == AfterRead(end)
  <1>1. e1 \in Ends /\ Closed(e1) \in Ends /\ StartTLS(e1) \in Ends
        /\ StartCompress(e1) \in Ends /\ Opened(end) \in Ends
    BY EndsClosed
  <1>2. ASSUME NEW at, NEW k, Receives(l, at, k)
        PROVE  inp' \in Seq(FromPeer)
    BY <1>2, TailOfInput DEF Receives, Arrives, FromPeer, Layerings
  <1>. HIDE DEF e1
  <1>3. CASE Reads(l)
    <2>. USE DEF feature, stopper, wire, Goto, PCs, Busy, Asking, Blocked, Telling, OnError
    <2>1. CASE Ask(l)
      BY <2>1 DEF Ask
    <2>2. CASE AskClosed(l)
      BY <2>2 DEF AskClosed
    <2>3. CASE Skip(l)
      BY <2>3, <1>1, <1>2 DEF Skip, Receives, e1
    <2>4. CASE HeaderExpected(l)
      BY <2>4, <1>1, <1>2 DEF HeaderExpected, e1
    <2>5. CASE PeerCloses(l)
      BY <2>5, <1>1, <1>2 DEF PeerCloses, e1
    <2>6. CASE ReadFails(l)
      BY <2>6 DEF ReadFails
    <2>7. CASE OpenHeader(l)
      BY <2>7, <1>1, <1>2 DEF OpenHeader, e1
    <2>. QED
      BY <1>3, <2>1, <2>2, <2>3, <2>4, <2>5, <2>6, <2>7 DEF Reads
  <1>4. CASE HandlesFeatures(l)
    <2>. USE MaxDepthAssumption DEF stopper, Goto, PCs, Busy, Asking, Blocked, Telling
    <2>1. CASE Open(l)
      BY <2>1, <1>1 DEF Open, feature
    <2>2. CASE OfferMandatory(l)
      BY <2>2 DEF OfferMandatory, Announce, Unresolved
    <2>3. CASE OfferVoluntary(l)
      BY <2>3 DEF OfferVoluntary, Announce, Unresolved
    <2>. QED
      BY <1>4, <2>1, <2>2, <2>3 DEF HandlesFeatures
  <1>5. CASE HandlesElement(l)
    <2>. USE DEF feature, stopper, wire, Goto, PCs, Busy, Asking, Blocked, Telling, Caught
    <2>1. ASSUME NEW f, NEW k, Takes(l, f, k)
          PROVE  inp' \in Seq(FromPeer) /\ handled' \subseteq Features
      BY <2>1, <1>2 DEF Takes
    <2>2. CASE HandleStartTLS(l)
      BY <2>2, <2>1, <1>1 DEF HandleStartTLS, e1
    <2>3. CASE HandlePlain(l)
      BY <2>3, <2>1, <1>1 DEF HandlePlain, e1
    <2>4. CASE HandleScram(l)
      BY <2>4, <2>1, <1>1 DEF HandleScram, e1
    <2>5. CASE HandlerPanics(l)
      BY <2>5, <2>1, <1>1 DEF HandlerPanics, e1
    <2>6. CASE HandleCompress(l)
      BY <2>6, <2>1, <1>1 DEF HandleCompress, e1
    <2>7. CASE HandleBind(l)
      BY <2>7, <2>1, <1>1 DEF HandleBind, e1
    <2>8. CASE Responded(l)
      BY <2>8, <1>1, <1>2 DEF Responded, e1
    <2>9. CASE NotResponded(l)
      BY <2>9, <1>1, <1>2 DEF NotResponded, e1
    <2>10. CASE ResponsePanics(l)
      BY <2>10, <1>1, <1>2 DEF ResponsePanics, e1
    <2>. QED
      BY <1>5, <2>2, <2>3, <2>4, <2>5, <2>6, <2>7, <2>8, <2>9, <2>10 DEF HandlesElement
  <1>6. CASE Reports(l)
    <2>. USE DEF feature, stopper, wire, Goto, PCs, Busy, Asking, Telling
    <2>1. ASSUME NEW p, NEW verdict \in {"nil", "err"}, NEW then \in {"read", "idle"},
                 Tells(l, p, verdict, then)
          PROVE  TypeOK'
      BY <2>1 DEF Tells
    <2>. QED
      BY <1>6, <2>1 DEF Reports, Nag, Raise, Limit, Ended
  <1>. QED
    BY <1>3, <1>4, <1>5, <1>6 DEF Step

\* The same for the application, the timer and the connection.
LEMMA OthersStepType ==
    ASSUME TypeOK,
           \/ (Stops \/ Stop \/ Timer \/ ConnFails) /\ UNCHANGED peer
           \/ PeerWrites \/ PeerGoes
    PROVE  TypeOK'
  <1>. USE DEF TypeOK, peer
  <1>1. /\ Closed(end) \in Ends /\ TimedOut(end) \in Ends
        /\ [end EXCEPT !.up = FALSE] \in Ends
        /\ [end EXCEPT !.state = "closed", !.timer = TRUE] \in Ends
        /\ LayersOf(end) \in Layerings
    BY EndsClosed
  <1>2. CASE (Stops \/ Stop \/ Timer \/ ConnFails) /\ UNCHANGED peer
    BY <1>1, <1>2
    DEF Stops, Stop, StopClose, StopEnd, Timer, ConnFails, wire, feature, stopper
  <1>3. CASE PeerWrites
    <2>1. PICK k \in PeerKinds : inp' = <<Frame(end, k, {})>>
      BY <1>3 DEF PeerWrites
    <2>2. Frame(end, k, {}) \in FromPeer
      BY <1>1, PeerKindsAssumption DEF Frame, FromPeer
    <2>3. end' \in Ends
      BY <1>3, EndsClosed DEF PeerWrites
    <2>. QED
      BY <2>1, <2>2, <2>3, <1>3, MaxFramesAssumption DEF PeerWrites, feature, stopper
  <1>4. CASE PeerGoes
    BY <1>4 DEF PeerGoes, wire, feature, stopper
  <1>. QED
    BY <1>2, <1>3, <1>4

\* Every step keeps the types.
LEMMA StepType == TypeOK /\ [Next]_wvars => TypeOK'
  <1>1. ASSUME TypeOK, UNCHANGED wvars
        PROVE  TypeOK'
    BY <1>1 DEF TypeOK, wvars, vars, wire, feature, stopper
  <1>. QED
    BY <1>1, ServerStepType, OthersStepType DEF Next, ServerStep, ServerNext

\* Every variable of the server keeps its type (XPart, elemRunner, XChannel).
THEOREM TypeCorrect == Spec => []TypeOK
  BY InitType, StepType, PTL DEF Spec

-----------------------------------------------------------------------------
(* The steps of one goroutine, by what they do to the others               *)

\* It handles at most one feature, one it has a handler for.
Handles(l) ==
    \/ handled' = handled
    \/ /\ pc[l] = "reading"
       /\ \E f \in handlers[l] : handled' = handled \cup {f}

\* It goes on by itself: to read again only from where it was reading.
Advances(l) ==
    \/ pc' = pc
    \/ \E p \in Busy \cup Telling :
           /\ Goto(l, p)
           /\ p \in Handling => pc[l] \in Handling
           /\ p = "ok" => l > 0
           /\ p = "quit" => quit

Works(l) ==
    /\ pc[l] \in Busy
    /\ Handles(l) /\ Advances(l)
    /\ UNCHANGED <<handlers, offered, quit, app>>

\* Every step of a goroutine that neither offers features nor reports is work
\* of its own: it changes no other goroutine, no handler and no offer.
LEMMA StepShape ==
    ASSUME TypeOK, NEW l \in Level, Step(l)
    PROVE  Works(l) \/ OfferMandatory(l) \/ OfferVoluntary(l) \/ Reports(l)
  <1>. USE DEF Works, Handles, Busy, Asking, Blocked, Telling, Handling, stopper
  <1>1. ASSUME NEW p \in Busy \cup Telling, Goto(l, p),
               p \in Handling => pc[l] \in Handling, p = "ok" => l > 0, p = "quit" => quit
        PROVE  Advances(l)
    BY <1>1 DEF Advances
  <1>2. /\ pc' = pc => Advances(l)
        /\ Goto(l, "raise") => Advances(l)
    BY <1>1 DEF Advances
  <1>3. CASE Reads(l)
    <2>. USE DEF feature, Receives
    <2>1. Goto(l, OnError(l)) => Advances(l)
      BY <1>1 DEF OnError
    <2>2. CASE Ask(l)
      BY <2>2, <1>1 DEF Ask
    <2>3. CASE AskClosed(l)
      BY <2>3, <2>1 DEF AskClosed
    <2>4. CASE Skip(l)
      BY <2>4, <1>1 DEF Skip
    <2>5. CASE HeaderExpected(l)
      BY <2>5, <1>2 DEF HeaderExpected
    <2>6. CASE PeerCloses(l)
      BY <2>6, <2>1 DEF PeerCloses
    <2>7. CASE ReadFails(l)
      BY <2>7, <2>1 DEF ReadFails
    <2>8. CASE OpenHeader(l)
      BY <2>8, <1>1 DEF OpenHeader
    <2>. QED
      BY <1>3, <2>2, <2>3, <2>4, <2>5, <2>6, <2>7, <2>8 DEF Reads
  <1>4. CASE HandlesFeatures(l)
    BY <1>1, <1>4 DEF HandlesFeatures, Open, feature
  <1>5. CASE HandlesElement(l)
    <2>. USE DEF Receives
    <2>1. /\ pc[l] \in {"reading", "authing"} /\ Goto(l, Caught(l)) => Advances(l)
          /\ pc[l] = "reading" /\ Goto(l, "read") => Advances(l)
          /\ pc[l] = "reading" /\ Goto(l, "nag") => Advances(l)
          /\ pc[l] = "reading" /\ Goto(l, "auth") => Advances(l)
      BY <1>1 DEF Caught
    <2>2. ASSUME NEW f, NEW k, Takes(l, f, k)
          PROVE  pc[l] = "reading" /\ Handles(l)
      BY <2>2 DEF Takes
    <2>. HIDE DEF Handles
    <2>3. CASE HandleStartTLS(l)
      BY <2>3, <2>1, <2>2 DEF HandleStartTLS
    <2>4. CASE HandlePlain(l)
      BY <2>4, <2>1, <2>2 DEF HandlePlain
    <2>5. CASE HandleScram(l)
      BY <2>5, <2>1, <2>2 DEF HandleScram
    <2>6. CASE HandlerPanics(l)
      BY <2>6, <1>2, <2>2 DEF HandlerPanics
    <2>7. CASE HandleCompress(l)
      BY <2>7, <2>1, <2>2 DEF HandleCompress
    <2>8. CASE HandleBind(l)
      BY <2>8, <2>1, <2>2 DEF HandleBind
    <2>9. CASE Responded(l)
      BY <2>9, <2>1 DEF Responded, Handles
    <2>10. CASE NotResponded(l)
      BY <2>10, <2>1 DEF NotResponded, feature, Handles
    <2>11. CASE ResponsePanics(l)
      BY <2>11, <1>2 DEF ResponsePanics, feature, Handles
    <2>. QED
      BY <1>5, <2>3, <2>4, <2>5, <2>6, <2>7, <2>8, <2>9, <2>10, <2>11 DEF HandlesElement
  <1>. QED
    BY <1>3, <1>4, <1>5 DEF Step

-----------------------------------------------------------------------------
(* The inductive invariant *)

\* The invariant holds at the start.
LEMMA InitInv == WorldInit => IInv
  <1>. SUFFICES ASSUME WorldInit PROVE IInv
    OBVIOUS
  <1>1. TypeOK
    BY InitType
  <1>2. Stack /\ Served /\ Verdicts
    BY MaxDepthAssumption DEF WorldInit, Init, Stack, Served, Verdicts, Handling
  <1>. QED
    BY <1>1, <1>2 DEF IInv

\* Two parts of Stack, one level at a time.
Below(l) == pc[l] # "idle" => \A m \in Level : m < l => pc[m] \in {"wait", "raise", "idle"}
Awaited(l) == pc[l] = "wait" => l < MaxDepth /\ pc[l + 1] # "idle"

\* A live level stays alive without waiting for anybody: the stack stays one.
LEMMA StackKept ==
    ASSUME Stack, NEW l \in Level,
           pc[l] \notin {"wait", "raise", "idle"}, pc'[l] \notin {"wait", "idle"},
           \A m \in Level : m # l => pc'[m] = pc[m]
    PROVE  Stack'
  <1>1. \A m \in Level : m > l => pc[m] = "idle"
    BY DEF Stack
  <1>2. ASSUME NEW k \in Level
        PROVE  Below(k)'
    <2>1. CASE k > l
      BY <1>1, <2>1 DEF Below
    <2>2. CASE k = l
      BY <2>2 DEF Below, Stack
    <2>3. CASE k < l
      BY <2>3 DEF Below, Stack
    <2>. QED
      BY <2>1, <2>2, <2>3
  <1>3. ASSUME NEW k \in Level
        PROVE  Awaited(k)'
    <2>1. CASE k = l
      BY <2>1 DEF Awaited
    <2>2. CASE k # l /\ k + 1 = l
      BY <2>2 DEF Awaited, Stack
    <2>3. CASE k # l /\ k + 1 # l
      BY <2>3, MaxDepthAssumption DEF Awaited, Stack
    <2>. QED
      BY <2>1, <2>2, <2>3
  <1>. QED
    BY <1>2, <1>3 DEF Stack, Below, Awaited

\* Work of one goroutine changes nothing the stack of the others relies on.
LEMMA WorkKeepsInv ==
    ASSUME IInv, TypeOK', NEW l \in Level, Works(l)
    PROVE  Stack' /\ Served' /\ Verdicts'
  <1>. USE DEF IInv, Works
  <1>1. /\ pc'[l] \in Busy \cup Telling
        /\ pc'[l] \in Handling => pc[l] \in Handling
        /\ pc'[l] = "ok" => pc[l] = "ok" \/ l > 0
        /\ pc'[l] = "quit" => pc[l] = "quit" \/ quit
        /\ \A m \in Level : m # l => pc'[m] = pc[m]
    BY DEF Advances, Goto, TypeOK
  <1>2. Stack'
    BY <1>1, StackKept DEF Busy, Asking, Blocked, Telling
  <1>3. Unresolved' \subseteq Unresolved
    BY DEF Handles, Unresolved
  <1>4. Served'
    BY <1>1, <1>3, MaxDepthAssumption DEF Served, Busy, Asking, Blocked
  <1>5. Verdicts'
    BY <1>1 DEF Verdicts
  <1>. QED
    BY <1>2, <1>4, <1>5

\* A nested runner starts with every unresolved feature; the level below waits.
LEMMA OfferKeepsInv ==
    ASSUME IInv, TypeOK', NEW l \in Level, OfferMandatory(l) \/ OfferVoluntary(l)
    PROVE  Stack' /\ Served' /\ Verdicts'
  <1>. USE MaxDepthAssumption DEF IInv, stopper
  <1>1. Unresolved' = Unresolved /\ offered' = Unresolved
    BY DEF OfferMandatory, OfferVoluntary, Announce, Unresolved
  <1>2. Unresolved # NoOffer
    BY FeaturesAssumption DEF Unresolved, NoOffer
  <1>3. CASE OfferMandatory(l) /\ CanSend(end)
    <2>1. /\ l + 1 \in Level
          /\ pc' = [pc EXCEPT ![l] = "wait", ![l + 1] = "read"]
          /\ handlers' = [handlers EXCEPT ![l + 1] = Unresolved]
          /\ UNCHANGED <<quit, app>>
          /\ l < MaxDepth
      BY <1>3 DEF OfferMandatory
    <2>2. pc[l] = "offer" /\ \A m \in Level : m > l => pc[m] = "idle"
      BY <1>3 DEF OfferMandatory, Stack
    <2>3. Stack'
      <3>1. \A m \in Level : pc'[m] = IF m = l THEN "wait" ELSE IF m = l + 1 THEN "read" ELSE pc[m]
        BY <2>1 DEF TypeOK
      <3>2. l < MaxDepth /\ l + 1 # l /\ pc'[l + 1] = "read"
        BY <2>1 DEF TypeOK
      <3>3. ASSUME NEW k \in Level
            PROVE  Below(k)'
        BY <2>2, <3>1 DEF Stack, Below
      <3>4. ASSUME NEW k \in Level
            PROVE  Awaited(k)'
        <4>1. CASE k = l
          BY <2>1, <3>1, <3>2, <4>1 DEF Awaited
        <4>2. CASE k < l
          BY <2>2, <3>1, <4>2 DEF Stack, Awaited
        <4>3. CASE k > l
          BY <2>2, <3>1, <4>3 DEF Awaited
        <4>. QED
          BY <4>1, <4>2, <4>3
      <3>. QED
        BY <3>3, <3>4 DEF Stack, Below, Awaited
    <2>4. Served'
      BY <1>1, <1>2, <2>1, <2>2 DEF Served, Stack, TypeOK, Handling
    <2>5. Verdicts'
      BY <2>1 DEF Verdicts, TypeOK
    <2>. QED
      BY <2>3, <2>4, <2>5
  <1>4. CASE OfferMandatory(l) /\ ~CanSend(end)
    <2>1. /\ pc[l] = "offer" /\ pc' = [pc EXCEPT ![l] = "raise"]
          /\ UNCHANGED <<handlers, quit, app>>
      BY <1>4 DEF OfferMandatory, Goto
    <2>2. Stack' /\ Verdicts'
      BY <2>1, StackKept DEF Verdicts, TypeOK
    <2>3. Served'
      BY <1>1, <1>2, <2>1 DEF Served, Stack, TypeOK, Handling
    <2>. QED
      BY <2>2, <2>3
  <1>5. CASE OfferVoluntary(l)
    <2>1. /\ pc[l] = "offer" /\ pc' = [pc EXCEPT ![l] = "read"]
          /\ handlers' = [handlers EXCEPT ![0] = @ \cup Unresolved]
          /\ UNCHANGED <<quit, app>>
      BY <1>5 DEF OfferVoluntary, Goto
    <2>2. Stack' /\ Verdicts'
      BY <2>1, StackKept DEF Verdicts, TypeOK
    <2>3. Served'
      BY <1>1, <1>2, <2>1 DEF Served, Stack, TypeOK, Handling
    <2>. QED
      BY <2>2, <2>3
  <1>. QED
    BY <1>3, <1>4, <1>5

\* A goroutine that reports ends or, after a nag, reads on above a level that
\* gives up: in both cases nobody below it reads.
LEMMA ReportKeepsInv ==
    ASSUME IInv, TypeOK', NEW l \in Level, Reports(l)
    PROVE  Stack' /\ Served' /\ Verdicts'
  <1>. USE MaxDepthAssumption DEF IInv
  <1>1. ASSUME NEW p \in Telling, NEW verdict \in {"nil", "err"}, NEW then \in {"read", "idle"},
               Tells(l, p, verdict, then),
               then = "read" => p = "nag" /\ verdict = "err",
               verdict = "nil" => p \in {"ok", "quit"}
        PROVE  Stack' /\ Served' /\ Verdicts'
    <2>. USE <1>1 DEF Tells
    <2>1. /\ pc[l] = p
          /\ pc'[l] = then
          /\ l > 0 => /\ pc[l - 1] = "wait"
                      /\ pc'[l - 1] = IF verdict = "nil" THEN "header" ELSE "raise"
          /\ \A m \in Level : m # l /\ m # l - 1 => pc'[m] = pc[m]
          /\ UNCHANGED <<handlers, handled, offered, quit>>
      BY DEF TypeOK, Goto, feature, stopper
    <2>2. Stack'
      BY <2>1 DEF Stack, Telling
    <2>3. Served'
      BY <2>1 DEF Served, Unresolved, Handling, Telling
    <2>4. Verdicts'
      BY <2>1 DEF Verdicts, Telling
    <2>. QED
      BY <2>2, <2>3, <2>4
  <1>. QED
    BY <1>1 DEF Reports, Nag, Raise, Limit, Ended, Telling

\* Every step keeps the invariant.
LEMMA StepInv == IInv /\ [Next]_wvars => IInv'
  <1>. SUFFICES ASSUME IInv, [Next]_wvars
                PROVE  IInv'
    OBVIOUS
  <1>1. TypeOK'
    BY StepType DEF IInv
  <1>2. ASSUME NEW l \in Level, Step(l)
        PROVE  IInv'
    BY <1>1, <1>2, StepShape, WorkKeepsInv, OfferKeepsInv, ReportKeepsInv DEF IInv
  <1>3. ASSUME pc' = pc, handlers' = handlers, handled' = handled, offered' = offered,
               app' = app, quit' = quit \/ quit' = TRUE
        PROVE  IInv'
    BY <1>1, <1>3 DEF IInv, Stack, Served, Verdicts, Unresolved
  <1>4. CASE Stops \/ Stop
    BY <1>3, <1>4 DEF Stops, StopClose, StopEnd, Stop, feature
  <1>5. CASE Timer \/ ConnFails
    BY <1>3, <1>5 DEF Timer, ConnFails, feature, stopper
  <1>6. CASE PeerWrites \/ PeerGoes
    BY <1>3, <1>6 DEF PeerWrites, PeerGoes, feature, stopper
  <1>7. CASE UNCHANGED wvars
    BY <1>3, <1>7 DEF wvars, vars, feature, stopper
  <1>. QED
    BY <1>2, <1>4, <1>5, <1>6, <1>7 DEF Next, ServerStep, ServerNext

\* IInv is an invariant: it holds at first and every step keeps it.
THEOREM Invariant == Spec => []IInv
  BY InitInv, StepInv, PTL DEF Spec

-----------------------------------------------------------------------------
(* What it is good for *)

\* The goroutines of a stream are a stack (handleFeatures, elemRunner.Run).
THEOREM RunnersStack == Spec => []Stack
  <1>1. IInv => Stack
    BY DEF IInv
  <1>. QED
    BY <1>1, Invariant, PTL

\* Two goroutines never use the decoder or the channel at once, without a lock.
THEOREM SingleReader == Spec => []OneReader
  <1>1. IInv => OneReader
    <2>. SUFFICES ASSUME IInv, NEW l \in Level, NEW m \in Level,
                         pc[l] \in Busy, pc[m] \in Busy, l < m
                  PROVE  FALSE
      BY DEF OneReader
    <2>1. pc[l] \in {"wait", "raise", "idle"}
      BY DEF IInv, Stack, Busy, Asking, Blocked
    <2>. QED
      BY <2>1 DEF Busy, Asking, Blocked
  <1>. QED
    BY <1>1, Invariant, PTL

\* handleFeatures lists the voluntary features only after every mandatory one
\* has been handled, at whatever level either happened.
THEOREM MandatoryComesFirst == Spec => []MandatoryFirst
  <1>1. IInv => MandatoryFirst
    BY DEF IInv, Served, MandatoryFirst, Ready, Mandatory, Unresolved
  <1>. QED
    BY <1>1, Invariant, PTL

\* The level that reads has the handler of every feature still on offer.
THEOREM OffersAreServed == Spec => []OffersServed
  <1>1. IInv => OffersServed
    <2>. SUFFICES ASSUME IInv, NEW l \in Level, pc[l] \in {"read", "reading"},
                         offered # NoOffer
                  PROVE  offered \ handled \subseteq handlers[l]
      BY DEF OffersServed
    <2>1. offered \ handled \subseteq Unresolved
      BY DEF IInv, TypeOK, Unresolved
    <2>2. Unresolved \subseteq handlers[l]
      BY MaxDepthAssumption DEF IInv, Served, Handling
    <2>. QED
      BY <2>1, <2>2
  <1>. QED
    BY <1>1, Invariant, PTL

\* Run tells the application of a clean end only if it called Stop.
THEOREM CleanEnd == Spec => []CleanEndOnlyByStop
  <1>1. IInv => CleanEndOnlyByStop
    BY DEF IInv, Verdicts, CleanEndOnlyByStop
  <1>. QED
    BY <1>1, Invariant, PTL

-----------------------------------------------------------------------------
(* Refinement *)

\* A step of the server is an offer, the resolution of one feature that was
\* offered, or nothing to the negotiation.
LEMMA StepNegotiates ==
    IInv /\ [Next]_wvars => [Negotiation!Next]_<<handled, offered>>
  <1>. SUFFICES ASSUME IInv, [Next]_wvars
                PROVE  [Negotiation!Next]_<<handled, offered>>
    OBVIOUS
  <1>1. ASSUME NEW l \in Level, Works(l)
        PROVE  [Negotiation!Next]_<<handled, offered>>
    <2>1. CASE handled' = handled
      BY <1>1, <2>1 DEF Works
    <2>2. ASSUME pc[l] = "reading", NEW f \in handlers[l], handled' = handled \cup {f},
                 f \notin handled
          PROVE  Negotiation!Resolve(f) /\ f \in Features
      <3>1. offered # NoOffer /\ Unresolved \subseteq offered
        BY <2>2 DEF IInv, Served
      <3>2. f \in Unresolved
        BY <2>2 DEF IInv, TypeOK, Unresolved
      <3>. QED
        BY <1>1, <2>2, <3>1, <3>2 DEF Works, Unresolved, Negotiation!Resolve
    <2>3. ASSUME NEW f \in handled, handled' = handled \cup {f}
          PROVE  handled' = handled
      BY <2>3
    <2>. QED
      BY <1>1, <2>1, <2>2, <2>3 DEF Works, Handles, Negotiation!Next
  <1>2. ASSUME NEW l \in Level, OfferMandatory(l) \/ OfferVoluntary(l)
        PROVE  Negotiation!Offer
    BY <1>2 DEF OfferMandatory, OfferVoluntary, Announce, Unresolved, Negotiation!Offer
  <1>3. ASSUME NEW l \in Level, Step(l)
        PROVE  [Negotiation!Next]_<<handled, offered>>
    <2>1. CASE Reports(l)
      BY <2>1 DEF Reports, Nag, Raise, Limit, Ended, Tells, feature
    <2>. QED
      BY <1>1, <1>2, <1>3, <2>1, StepShape DEF IInv, Negotiation!Next
  <1>4. CASE Stops \/ Stop \/ Timer \/ ConnFails \/ PeerWrites \/ PeerGoes \/ UNCHANGED wvars
    BY <1>4 DEF Stops, StopClose, StopEnd, Stop, Timer, ConnFails, PeerWrites, PeerGoes,
                wvars, vars, feature
  <1>. QED
    BY <1>3, <1>4 DEF Next, ServerStep, ServerNext

\* However many goroutines run it, the server refines StreamNegotiation: exact
\* lists, one feature at a time, and none that was not offered.
THEOREM Refinement == Spec => Negotiates
  <1>1. WorldInit => Negotiation!Init
    BY DEF WorldInit, Init, Negotiation!Init
  <1>. QED
    BY <1>1, StepNegotiates, Invariant, PTL DEF Spec, Negotiates, Negotiation!Spec

-----------------------------------------------------------------------------
(* Where no handler and no connection fails and nobody stops, the end of a *)
(* stream is the end: whoever waits is told, and nothing moves after that. *)

\* Nothing quits and no handler reports an error without catching it.
Calm ==
    /\ ~quit /\ stop = "no"
    /\ end.timer => end.state = "closed"
    /\ \A l \in Level : pc[l] \notin {"nag", "quit"}

\* Below a goroutine that is alive all others wait.
Nested == \A l, m \in Level : m < l /\ pc[l] # "idle" => pc[m] = "wait"

\* When the stream is closed the error of it is on its way down.
Sinking == \A l \in Level : pc[l] \in {"wait", "raise", "idle"}
Still   == CanSend(end) \/ crashed \/ Sinking

\* The application is told last.
Gone == \A l \in Level : pc[l] = "idle"
Done == app = "waiting" \/ Gone

QInv == IInv /\ Calm /\ Nested /\ Still /\ Done

Undisturbed == Faults = {} /\ CanStop = FALSE

\* What a goroutine that works does now: it stays at work on a stream that is
\* open, or is on its way out.
Moves(l) ==
    /\ pc[l] \in Busy
    /\ UNCHANGED <<stopper, app>>
    /\ end'.timer => end'.state = "closed"
    /\ \/ crashed' /\ pc' = pc
       \/ Goto(l, "raise")
       \/ CanSend(end') /\ \E p \in Busy \cup {"ok"} : Goto(l, p)

\* No feature of a server without faults lets a handler fail.
LEMMA QuietShape ==
    ASSUME QInv, Undisturbed, NEW l \in Level, Step(l)
    PROVE  Moves(l) \/ OfferMandatory(l) \/ OfferVoluntary(l) \/ Raise(l) \/ Limit(l)
  <1>. USE DEF Busy, Asking, Blocked, stopper
  <1>0. ~crashed /\ ~quit /\ (end.timer => end.state = "closed") /\ end \in Ends
        /\ pc[l] \notin {"nag", "quit"}
    BY DEF Step, QInv, Calm, IInv, TypeOK
  <1>1. pc[l] \in Busy => CanSend(end)
    BY <1>0 DEF QInv, Still, Sinking
  <1>2. CanSend(end) => end.state # "closed" /\ end.up /\ end.timer = FALSE
    BY <1>0 DEF CanSend, Ends
  <1>3. /\ AfterRead(end).state = end.state /\ AfterRead(end).up = end.up /\ AfterRead(end).timer = end.timer
        /\ StartTLS(AfterRead(end)).state = end.state /\ StartTLS(AfterRead(end)).up = end.up
        /\ StartTLS(AfterRead(end)).timer = end.timer
        /\ StartCompress(AfterRead(end)).state = end.state /\ StartCompress(AfterRead(end)).up = end.up
        /\ StartCompress(AfterRead(end)).timer = end.timer
        /\ Opened(end).state = "opened" /\ Opened(end).up = end.up /\ Opened(end).timer = end.timer
    BY <1>0 DEF Ends, AfterRead, StartTLS, StartCompress, Opened
  <1>c. LET e == Closed(AfterRead(end)) IN e.timer => e.state = "closed"
    <2>. DEFINE e1 == AfterRead(end)
    <2>1. e1 \in Ends /\ e1.timer = end.timer /\ e1.state = end.state
      BY <1>0, <1>3, EndsClosed
    <2>. HIDE DEF e1
    <2>2. Closed(e1).timer => Closed(e1).state = "closed"
      <3>1. CASE e1.state = "opened"
        BY <2>1, <3>1 DEF Closed, Ends
      <3>2. CASE e1.state = "init"
        BY <1>0, <2>1, <3>2 DEF Closed, Ends
      <3>3. CASE e1.state = "closed"
        BY <2>1, <3>3 DEF Closed
      <3>. QED
        BY <2>1, <3>1, <3>2, <3>3 DEF Ends, ChannelStates
    <2>. QED
      BY <2>2 DEF e1
  <1>4. CASE Reads(l)
    <2>1. CASE Ask(l) \/ Skip(l) \/ OpenHeader(l)
      BY <1>0, <1>1, <1>2, <1>3, <2>1 DEF Moves, Ask, Skip, OpenHeader, Receives, CanSend, wire, Goto
    <2>2. CASE HeaderExpected(l)
      BY <1>0, <1>1, <1>2, <1>3, <2>2 DEF Moves, HeaderExpected, Receives
    <2>3. CASE AskClosed(l) \/ ReadFails(l)
      BY <1>0, <1>1, <1>2, <2>3 DEF Moves, AskClosed, ReadFails, OnError, wire
    <2>4. CASE PeerCloses(l)
      <3>1. end' = Closed(AfterRead(end)) /\ Goto(l, "raise")
        BY <1>0, <2>4 DEF PeerCloses, OnError
      <3>2. end'.timer => end'.state = "closed"
        BY <1>c, <3>1
      <3>. QED
        BY <2>4, <3>1, <3>2 DEF Moves, PeerCloses, Receives
    <2>. QED
      BY <1>4, <2>1, <2>2, <2>3, <2>4 DEF Reads
  <1>5. CASE Open(l)
    BY <1>0, <1>1, <1>2, <1>3, <1>5 DEF Moves, Open, CanSend, QInv, Calm
  <1>6. CASE HandlesElement(l)
    <2>1. CASE HandleStartTLS(l)
      BY <1>0, <1>1, <1>2, <1>3, <2>1 DEF Undisturbed, Moves, HandleStartTLS, Takes, Receives, CanSend
    <2>2. CASE HandlePlain(l) \/ Responded(l)
      BY <1>0, <1>1, <1>2, <1>3, <2>2 DEF Moves, HandlePlain, Responded, Takes, Receives, CanSend, Caught
    <2>3. CASE HandleScram(l)
      BY <1>0, <1>1, <1>2, <1>3, <2>3 DEF Moves, HandleScram, Takes, Receives, CanSend, Caught
    <2>4. CASE HandleCompress(l)
      BY <1>0, <1>1, <1>2, <1>3, <2>4 DEF Moves, HandleCompress, Takes, Receives, CanSend, Caught
    <2>5. CASE HandleBind(l)
      BY <1>0, <1>1, <1>2, <1>3, <2>5 DEF Undisturbed, Moves, HandleBind, Takes, Receives, CanSend
    <2>6. CASE NotResponded(l)
      BY <1>0, <1>1, <1>2, <1>3, <2>6 DEF Moves, NotResponded, Receives, CanSend, Caught
    <2>7. CASE HandlerPanics(l)
      BY <1>0, <1>1, <1>2, <1>3, <2>7 DEF Moves, HandlerPanics, Takes, Receives, CanSend
    <2>8. CASE ResponsePanics(l)
      BY <1>0, <1>1, <1>2, <1>3, <1>c, <2>8 DEF Moves, ResponsePanics, Receives, CanSend, wire
    <2>. QED
      BY <1>6, <2>1, <2>2, <2>3, <2>4, <2>5, <2>6, <2>7, <2>8 DEF HandlesElement
  <1>7. CASE Reports(l)
    BY <1>0, <1>7 DEF Reports, Nag, Ended, Tells
  <1>. QED
    BY <1>4, <1>5, <1>6, <1>7 DEF Step, HandlesFeatures

\* Every step of a goroutine keeps it so.
LEMMA QuietGoes ==
    ASSUME QInv, TypeOK', Undisturbed, NEW l \in Level, Step(l)
    PROVE  Calm' /\ Nested' /\ Still' /\ Done'
  <1>. USE MaxDepthAssumption DEF Busy, Asking, Blocked
  <1>0. /\ pc \in [Level -> PCs] /\ pc' \in [Level -> PCs] /\ ~crashed
        /\ ~quit /\ stop = "no" /\ (end.timer => end.state = "closed")
        /\ \A m \in Level : pc[m] \notin {"nag", "quit"}
        /\ Nested /\ Done
        /\ pc[l] \in Busy => CanSend(end)
    BY DEF Step, QInv, Calm, IInv, TypeOK, Still, Sinking
  <1>1. CASE Moves(l)
    <2>1. pc[l] \in Busy /\ UNCHANGED <<quit, stop, app>> /\ (end'.timer => end'.state = "closed")
          /\ \A m \in Level : m # l => pc'[m] = pc[m]
      BY <1>0, <1>1 DEF Moves, Goto, stopper
    <2>2. /\ pc'[l] \in Busy \cup {"ok", "raise"}
          /\ \/ crashed'
             \/ pc'[l] = "raise"
             \/ CanSend(end')
      BY <1>0, <1>1 DEF Moves, Goto
    <2>3. app = "waiting" /\ (\A m \in Level : m < l => pc[m] = "wait")
          /\ (\A m \in Level : m > l => pc[m] = "idle")
      BY <1>0, <2>1 DEF Done, Gone, Nested
    <2>4. Calm'
      BY <1>0, <2>1, <2>2 DEF Calm
    <2>5. Nested'
      BY <2>1, <2>2, <2>3 DEF Nested
    <2>6. Still'
      BY <2>1, <2>2, <2>3 DEF Still, Sinking
    <2>. QED
      BY <2>1, <2>3, <2>4, <2>5, <2>6 DEF Done
  <1>2. CASE OfferMandatory(l) \/ OfferVoluntary(l)
    <2>1. pc[l] = "offer" /\ UNCHANGED <<end, quit, stop, app>> /\ CanSend(end)
      BY <1>0, <1>2 DEF OfferMandatory, OfferVoluntary, stopper
    <2>2. \/ pc' = [pc EXCEPT ![l] = "read"]
          \/ l < MaxDepth /\ pc' = [pc EXCEPT ![l] = "wait", ![l + 1] = "read"]
      BY <1>2, <2>1 DEF OfferMandatory, OfferVoluntary, Goto
    <2>3. app = "waiting" /\ (\A m \in Level : m < l => pc[m] = "wait")
          /\ (\A m \in Level : m > l => pc[m] = "idle")
      BY <1>0, <2>1 DEF Done, Gone, Nested
    <2>4. Calm' /\ Still' /\ Done'
      BY <1>0, <2>1, <2>2, <2>3 DEF Calm, Still, Done, CanSend
    <2>5. Nested'
      BY <1>0, <2>2, <2>3 DEF Nested
    <2>. QED
      BY <2>4, <2>5
  <1>3. CASE Raise(l) \/ Limit(l)
    <2>1. UNCHANGED <<end, quit, stop, crashed>> /\ pc[l] \in {"raise", "ok"}
      BY <1>3 DEF Raise, Limit, Tells, wire, stopper
    <2>2. (\A m \in Level : m < l => pc[m] = "wait") /\ (\A m \in Level : m > l => pc[m] = "idle")
      BY <1>0, <2>1 DEF Nested
    <2>3. pc[l] = "ok" => CanSend(end)
      BY <1>0, <2>1 DEF QInv, Still, Sinking
    <2>4. CASE l > 0
      <3>1. /\ pc'[l] = "idle" /\ l - 1 \in Level /\ app' = app
            /\ pc'[l - 1] \in {"header", "raise"} /\ (pc[l] = "raise" => pc'[l - 1] = "raise")
            /\ \A m \in Level : m # l /\ m # l - 1 => pc'[m] = pc[m]
        BY <1>0, <1>3, <2>4 DEF Raise, Limit, Tells
      <3>2. Calm' /\ Nested'
        BY <1>0, <2>1, <2>2, <3>1 DEF Calm, Nested
      <3>3. Still'
        BY <2>1, <2>2, <2>3, <3>1 DEF Still, Sinking, CanSend
      <3>4. Done'
        BY <1>0, <2>1, <3>1 DEF Done, Gone
      <3>. QED
        BY <3>2, <3>3, <3>4
    <2>5. CASE l = 0
      <3>1. pc' = [pc EXCEPT ![l] = "idle"]
        BY <1>3, <2>5 DEF Raise, Limit, Tells, Goto
      <3>2. \A m \in Level : pc'[m] = "idle"
        BY <1>0, <2>2, <2>5, <3>1
      <3>. QED
        BY <1>0, <2>1, <3>2 DEF Calm, Nested, Still, Sinking, Done, Gone
    <2>. QED
      BY <2>4, <2>5
  <1>. QED
    BY <1>1, <1>2, <1>3, QuietShape

\* The others change nothing that is waited for: the timer needs a closed
\* stream, and the peer only writes or goes.
LEMMA OthersAreQuiet ==
    ASSUME QInv, TypeOK', Undisturbed,
           \/ (Stops \/ Stop \/ (~crashed /\ (Timer \/ ConnFails))) /\ UNCHANGED peer
           \/ PeerWrites \/ PeerGoes \/ UNCHANGED wvars
    PROVE  /\ Calm' /\ Nested' /\ Still' /\ Done'
           /\ end'.state = end.state /\ LayersOf(end') = LayersOf(end)
           /\ feature' = feature /\ (out' = out \/ out' = <<>>)
  <1>0. /\ end \in Ends /\ stop = "no" /\ (end.timer => end.state = "closed")
        /\ Calm /\ Nested /\ Still /\ Done
    BY DEF QInv, Calm, IInv, TypeOK
  <1>1. CASE UNCHANGED <<end, pc, crashed, app, quit, stop, feature>> /\ (out' = out \/ out' = <<>>)
    BY <1>0, <1>1 DEF Calm, Nested, Still, Sinking, Done, Gone
  <1>2. CASE ~crashed /\ Timer
    <2>1. /\ end.timer /\ end' = TimedOut(end) /\ UNCHANGED <<pc, crashed, app, quit, stop, feature, out>>
      BY <1>2 DEF Timer, stopper
    <2>2. end'.timer = FALSE /\ end'.state = end.state /\ end.state = "closed"
          /\ LayersOf(end') = LayersOf(end)
      BY <1>0, <2>1 DEF TimedOut, LayersOf, Ends
    <2>3. Sinking
      BY <1>0, <1>2, <2>2 DEF Still, CanSend
    <2>. QED
      BY <1>0, <2>1, <2>2, <2>3 DEF Calm, Nested, Still, Sinking, Done, Gone
  <1>3. ~Stops /\ ~Stop /\ ~ConnFails
    BY <1>0 DEF Undisturbed, Stops, Stop, StopClose, StopEnd, ConnFails
  <1>4. PeerGoes \/ UNCHANGED wvars =>
            UNCHANGED <<end, pc, crashed, app, quit, stop, feature>> /\ (out' = out \/ out' = <<>>)
    BY DEF PeerGoes, wvars, vars, wire, stopper
  <1>5. CASE PeerWrites
    <2>1. /\ UNCHANGED <<pc, crashed, app, quit, stop, feature>> /\ out' = <<>>
          /\ end' = end \/ end' = ReadOn(end)
      BY <1>5 DEF PeerWrites, stopper
    <2>2. /\ end'.state = end.state /\ end'.up = end.up /\ end'.timer = end.timer
          /\ LayersOf(end') = LayersOf(end)
      BY <1>0, <2>1, ReadingOn
    <2>. QED
      BY <1>0, <2>1, <2>2 DEF Calm, Nested, Still, Sinking, Done, Gone, CanSend
  <1>. QED
    BY <1>1, <1>2, <1>3, <1>4, <1>5

\* At the start nothing has been closed, and nobody been told.
LEMMA QuietInit == WorldInit => QInv
  <1>. SUFFICES ASSUME WorldInit PROVE QInv
    OBVIOUS
  <1>1. IInv
    BY InitInv
  <1>2. end.state = "init" /\ end.up /\ ~end.timer
    BY DEF WorldInit, Init, NewEnd
  <1>3. Calm /\ Nested /\ Still /\ Done
    BY <1>2, MaxDepthAssumption DEF WorldInit, Init, Calm, Nested, Still, Done, CanSend
  <1>. QED
    BY <1>1, <1>3 DEF QInv

\* A step of the system is a step of a goroutine or of one of the others.
LEMMA StepOf ==
    ASSUME [Next]_wvars
    PROVE  \/ \E l \in Level : Step(l) /\ UNCHANGED peer
           \/ (Stops \/ Stop \/ (~crashed /\ (Timer \/ ConnFails))) /\ UNCHANGED peer
           \/ PeerWrites \/ PeerGoes \/ UNCHANGED wvars
  BY DEF Next, ServerStep, ServerNext

\* Every step of a server without faults keeps the invariant.
LEMMA QuietStep == Undisturbed /\ QInv /\ [Next]_wvars => QInv'
  <1>. SUFFICES ASSUME Undisturbed, QInv, [Next]_wvars PROVE QInv'
    OBVIOUS
  <1>1. IInv' /\ TypeOK'
    BY StepInv DEF QInv, IInv
  <1>2. Calm' /\ Nested' /\ Still' /\ Done'
    BY <1>1, StepOf, QuietGoes, OthersAreQuiet
  <1>. QED
    BY <1>1, <1>2 DEF QInv

\* While the stream is closed, or the application has been told, no goroutine
\* does anything but report.
LEMMA NothingMoves ==
    ASSUME QInv, TypeOK', Undisturbed, [Next]_wvars, end.state = "closed" \/ app # "waiting"
    PROVE  /\ end'.state = end.state /\ LayersOf(end') = LayersOf(end)
           /\ feature' = feature /\ (out' = out \/ out' = <<>>)
  <1>1. ASSUME NEW l \in Level, Step(l)
        PROVE  UNCHANGED <<end, feature, out>>
    <2>1. ~crashed /\ Sinking
      BY <1>1 DEF QInv, Still, Done, Gone, Sinking, CanSend, Step
    <2>2. pc[l] \in {"wait", "raise", "idle"}
      BY <2>1 DEF Sinking
    <2>3. ~Moves(l) /\ ~OfferMandatory(l) /\ ~OfferVoluntary(l)
      BY <2>2 DEF Moves, Busy, Asking, Blocked, OfferMandatory, OfferVoluntary
    <2>4. Raise(l) \/ Limit(l)
      BY <1>1, <2>3, QuietShape
    <2>. QED
      BY <2>4 DEF Raise, Limit, Tells, wire
  <1>. QED
    BY <1>1, StepOf, OthersAreQuiet

\* Where handlers and connections do not fail and nobody calls Stop, a closed
\* channel is not opened again and nothing is written to it, whichever of the
\* goroutines closed it and whatever the others were at (XChannel.Close).
THEOREM ClosedForGood ==
    ASSUME Undisturbed
    PROVE  Spec => ClosedIsFinal
  <1>1. QInv /\ QInv' /\ [Next]_wvars =>
            [end.state = "closed" => end'.state = "closed" /\ (out' = out \/ out' = <<>>)]_wvars
    BY NothingMoves DEF QInv, IInv
  <1>2. QInv /\ [Next]_wvars => QInv'
    BY QuietStep
  <1>. QED
    BY <1>1, <1>2, QuietInit, PTL DEF Spec, ClosedIsFinal

\* There, what the application receives from the channel of Run is the last
\* thing that happens: the part touches neither the stream nor the features.
THEOREM ReportIsTheEnd ==
    ASSUME Undisturbed
    PROVE  Spec => QuietAfterReport
  <1>1. QInv /\ QInv' /\ [Next]_wvars =>
            [app # "waiting" =>
                /\ feature' = feature
                /\ end'.state = end.state /\ LayersOf(end') = LayersOf(end)
                /\ out' = out \/ out' = <<>>]_wvars
    BY NothingMoves DEF QInv, IInv
  <1>2. QInv /\ [Next]_wvars => QInv'
    BY QuietStep
  <1>. QED
    BY <1>1, <1>2, QuietInit, PTL DEF Spec, QuietAfterReport
=============================================================================
