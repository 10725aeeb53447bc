----------------------------- MODULE XPartWorld -----------------------------
(***************************************************************************)
(* The server end of XPart with a peer that may write anything, stop       *)
(* writing, or go away at any moment, and what the server promises then.   *)
(***************************************************************************)
EXTENDS XPart, FiniteSets

CONSTANTS
    PeerKinds,  \* what this peer may write
    MaxFrames   \* bound: the number of frames it writes

ASSUME PeerKindsAssumption == PeerKinds \subseteq Kinds
ASSUME MaxFramesAssumption == MaxFrames \in Nat

VARIABLE written   \* frames the peer has written

peer == <<eof, written>>
wvars == <<vars, written>>

WorldInit == Init /\ written = 0

\* The peer writes one frame at a time, under the layers the server expects,
\* when the last one has been taken, in a zlib stream of its own or, while a
\* goroutine is at work, in that of the last one; it reads whatever the server
\* wrote.
PeerWrites ==
    /\ ~eof /\ inp = <<>> /\ written < MaxFrames
    /\ \E k \in PeerKinds : inp' = <<Frame(end, k, {})>>
    /\ \/ UNCHANGED end
       \/ end.spent /\ (\E l \in Level : pc[l] \in Busy) /\ end' = ReadOn(end)
    /\ written' = written + 1
    /\ out' = <<>>
    /\ UNCHANGED <<eof, pc, feature, stopper, app, crashed>>

PeerGoes ==
    /\ ~eof
    /\ eof' = TRUE
    /\ UNCHANGED <<wire, written, pc, feature, stopper, app, crashed>>

ServerStep == ServerNext /\ UNCHANGED peer

Next == ServerStep \/ PeerWrites \/ PeerGoes

Spec == WorldInit /\ [][Next]_wvars

\* The Go scheduler runs every goroutine that can go on, and timers fire.
\* Nothing obliges the application to call Stop, a connection to fail, or the
\* peer to write or to go.
ServerFair ==
    /\ \A l \in Level : WF_wvars(Step(l) /\ UNCHANGED peer)
    /\ WF_wvars(Stops /\ UNCHANGED peer)
    /\ WF_wvars(~crashed /\ Timer /\ UNCHANGED peer)

FairSpec == Spec /\ ServerFair

-----------------------------------------------------------------------------

FromPeer == [kind : Kinds, feats : {{}}, layers : Layerings]

\* Every variable holds a value of its kind.
TypeOK ==
    /\ end \in Ends
    /\ inp \in Seq(FromPeer)
    /\ pc \in [Level -> PCs]
    /\ handlers \in [Level -> SUBSET Features]
    /\ handled \subseteq Features
    /\ offered \in (SUBSET Features) \cup {NoOffer}
    /\ eof \in BOOLEAN /\ authed \in BOOLEAN /\ bound \in BOOLEAN
    /\ quit \in BOOLEAN /\ stop \in {"no", "closing", "ending", "done"}
    /\ app \in {"waiting", "nil", "err"} /\ crashed \in BOOLEAN
    /\ written \in 0 .. MaxFrames

\* The goroutines of a stream are a stack: below one that is alive, every
\* other waits for its nested runner or is on its way out, and one that waits
\* has somebody to wait for.  Nested runners start in handleFeatures and end
\* by a limit, by an error that travels down, or not at all when a handler's
\* error has ended the goroutine that waited for them.
Stack ==
    \A l \in Level :
        /\ pc[l] # "idle" =>
               \A m \in Level : m < l => pc[m] \in {"wait", "raise", "idle"}
        /\ pc[l] = "wait" => l < MaxDepth /\ pc[l + 1] # "idle"

\* At most one goroutine uses the decoder, the channel and the features at a
\* time, although nothing locks them: handlers that outlive the goroutine that
\* waited for them never meet another reader.
OneReader ==
    \A l, m \in Level : pc[l] \in Busy /\ pc[m] \in Busy => l = m

\* The voluntary features are on offer.
Ready == offered # NoOffer /\ offered \cap Mandatory = {}

\* Once the server has moved on to the voluntary features, every mandatory one
\* has been handled and stays so, at whatever level the headers were read.
MandatoryFirst == Ready => Mandatory \subseteq handled

\* A feature the peer was offered and has not used yet has its handler at the
\* level that reads the stream, whichever level that has become.
OffersServed ==
    \A l \in Level :
        pc[l] \in {"read", "reading"} /\ offered # NoOffer =>
            offered \ handled \subseteq handlers[l]

\* Run reports a clean end only of a stream that the application stopped: the
\* limit of a nested runner never leaks to the application.
CleanEndOnlyByStop == app = "nil" => quit

\* Why the three above hold: what is unresolved was listed in the last offer,
\* and every level that is alive has its handler.  The main runner gets it only
\* when the voluntary features are listed, before it reads again.
Handling == {"read", "reading", "auth", "authing", "nag"}

Served ==
    /\ \A l \in Level : handlers[l] # {} => offered # NoOffer
    /\ offered # NoOffer => Unresolved \subseteq offered
    /\ \A l \in Level : l > 0 /\ pc[l] # "idle" => Unresolved \subseteq handlers[l]
    /\ offered # NoOffer /\ pc[0] \in Handling => Unresolved \subseteq handlers[0]

\* Only a nested runner has a limit, and only a runner told to quit ends well.
Verdicts ==
    /\ \A l \in Level : (pc[l] = "ok" => l > 0) /\ (pc[l] = "quit" => quit)
    /\ app = "nil" => quit

IInv == TypeOK /\ Stack /\ Served /\ Verdicts

\* A closed channel stays closed and nothing more is written to it.
\* (Not so when Stop races a header that is being answered.)
ClosedIsFinal ==
    [][end.state = "closed" =>
          end'.state = "closed" /\ (out' = out \/ out' = <<>>)]_wvars

\* After the application has been told the outcome, the part touches neither
\* the stream nor the features.  (Not so when a handler has failed: see Nag.)
QuietAfterReport ==
    [][app # "waiting" =>
          /\ feature' = feature
          /\ end'.state = end.state /\ LayersOf(end') = LayersOf(end)
          /\ out' = out \/ out' = <<>>]_wvars

\* XPart does what StreamNegotiation promises: features are resolved one at a
\* time, only after they were offered, and every list it sends is exact.
Negotiation == INSTANCE StreamNegotiation WITH resolved <- handled
Negotiates == Negotiation!Spec

-----------------------------------------------------------------------------

\* A goroutine that sends to one that has gone, for ever.
Orphaned(l) ==
    pc[l] \in Telling /\ IF l = 0 THEN app # "waiting" ELSE pc[l - 1] # "wait"

\* Whoever waits for Run hears of the end of the stream, when the peer goes
\* and when Stop has returned, however deep the runners are nested.
RunReports == (eof \/ stop = "done") ~> (crashed \/ app # "waiting")

\* In the end no goroutine of the stream runs: it has returned or is blocked
\* on a channel nobody reads.
RunnersSettle ==
    (eof \/ stop = "done") ~>
        (crashed \/ \A l \in Level : pc[l] = "idle" \/ Orphaned(l))

\* When no handler and no connection fails, none is left blocked.
RunnersReturn == eof ~> (crashed \/ \A l \in Level : pc[l] = "idle")

-----------------------------------------------------------------------------
(* What the repository says and the code does not do.                      *)

\* The diagram above XPart.handleFeatures (xmpp_core.go:327-329): a mandatory
\* feature MUST be negotiated before the voluntary ones are.  For SASL that is
\* an authenticated peer.
AuthenticatedFirst == Ready /\ "sasl" \in Features => authed
=============================================================================
