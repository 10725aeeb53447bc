------------------------------- MODULE XPart -------------------------------
(***************************************************************************)
(* The server end of a stream: XPart and its element runners               *)
(* (xmpp_core.go) with the starttls, sasl, compression and bind features   *)
(* (tls_feature.go, sasl_feature.go, plain_auth.go, scram_auth.go,         *)
(* compress_feature.go, bind_feature.go).                                  *)
(*                                                                         *)
(* Run starts a goroutine that reads the stream: level 0.  A header makes  *)
(* it run handleFeatures itself; while a mandatory feature is unresolved,  *)
(* handleFeatures runs a nested runner in a goroutine of its own, one      *)
(* level up, and waits for it on a channel.  A header read by a nested     *)
(* runner nests again.  So the goroutines of one stream are the levels     *)
(* below, each started by the one under it, and each has a program counter *)
(* in pc.  Stop runs in the application's goroutine, without a lock.       *)
(*                                                                         *)
(* The peer is not modelled here: inp is what it has written and eof       *)
(* whether it has gone.  XPartWorld adds an arbitrary peer, Negotiation    *)
(* the client of this repository.                                          *)
(***************************************************************************)
EXTENDS XChannel

CONSTANTS
    Features,   \* WithFeature was called with these
    Faults,     \* what may fail: "cert", "bind", "conn"
    MaxDepth,   \* bound: the deepest nested runner
    CanStop,    \* the application may call Stop
    UseCB       \* SCRAM was built with channel binding

ASSUME FeaturesAssumption == Features \subseteq {"starttls", "sasl", "compress", "bind"}
ASSUME FaultsAssumption == Faults \subseteq {"cert", "bind", "conn"}
ASSUME MaxDepthAssumption == MaxDepth \in Nat
ASSUME FlagsAssumption == CanStop \in BOOLEAN /\ UseCB \in BOOLEAN

Level == 0 .. MaxDepth

\* What offered is before unresolvedFeatures() is called: the name of no feature.
NoOffer == {"none"}

VARIABLES
    end,       \* the server's end of the stream
    inp,       \* frames the peer has written and the decoder has not taken
    out,       \* frames written to the peer
    eof,       \* the peer has closed its side
    pc,        \* what the goroutine of each level is doing
    handlers,  \* the features among the elemHandlers of each level's runner
    handled,   \* the features whose handled flag is set
    offered,   \* the last result of unresolvedFeatures()
    authed,    \* Authorized has been called for this part
    bound,     \* a resource has been bound
    quit,      \* the main runner's quit flag
    stop,      \* how far the application's call of Stop is
    app,       \* what the application received from Run's channel
    crashed    \* a goroutine has panicked and taken the process with it

wire    == <<end, inp, out>>
feature == <<handlers, handled, offered, authed, bound>>
stopper == <<quit, stop>>
vars    == <<wire, eof, pc, feature, stopper, app, crashed>>

-----------------------------------------------------------------------------
(* What the peer can say.  Names other than those of elements stand for    *)
(* tokens: a header ParseToServer takes or refuses, a token every reader   *)
(* passes over, the closing tag, bytes that are not XML.                   *)

AuthKinds     == {"plain", "scram", "auth-bad", "auth-garbled"}
CompressKinds == {"compress", "compress-bad"}
Elements == {"starttls", "bind", "response", "response-bad", "stanza"}
              \cup AuthKinds \cup CompressKinds
Kinds == Elements \cup {"header", "badheader", "procinst", "end", "broken"}

\* The feature whose Match takes the element, if any.
Addressee(k) ==
    IF k \in AuthKinds THEN "sasl" ELSE IF k \in CompressKinds THEN "compress" ELSE k

Mandatory == Features \cap {"starttls", "sasl"}

\* Mutant: a feature is listed once, used or not.
UnresolvedOnce == Features \ (handled \cup offered)

Unresolved == Features \ handled

-----------------------------------------------------------------------------
(* Program counters.                                                       *)
(*   read, reading       in Run: about to call next(), blocked in it       *)
(*   open, offer         in handleFeatures: Open, then the feature list    *)
(*   wait                in handleFeatures: <-errChan of the nested runner *)
(*   header, headering   in WaitHeader                                     *)
(*   auth, authing       in waitChallengeResponse, below Handle            *)
(*   nag                 errChan <- err of a handler, Run goes on          *)
(*   raise, ok, quit     errChan <- err, the limit's nil, quit's nil       *)

Asking  == {"read", "header", "auth"}
Blocked == {"reading", "headering", "authing"}
Telling == {"nag", "raise", "ok", "quit"}
Busy    == Asking \cup Blocked \cup {"open", "offer"}
PCs     == Busy \cup Telling \cup {"idle", "wait"}

Goto(l, p) == pc' = [pc EXCEPT ![l] = p]

Init ==
    /\ end = NewEnd /\ inp = <<>> /\ out = <<>> /\ eof = FALSE
    /\ pc = [l \in Level |-> IF l = 0 THEN "read" ELSE "idle"]
    /\ handlers = [l \in Level |-> {}]
    /\ handled = {} /\ offered = NoOffer
    /\ authed = FALSE /\ bound = FALSE
    /\ quit = FALSE /\ stop = "no" /\ app = "waiting" /\ crashed = FALSE

-----------------------------------------------------------------------------
(* XChannel.next() *)

\* Mutant: handleFeatures does not look at the error of WaitHeader.
OnErrorUnseen(l) ==
    IF pc[l] \in {"header", "headering"} THEN "open"
    ELSE IF l = 0 /\ quit THEN "quit" ELSE "raise"

\* Mutant: Run takes the end of the peer's stream for its own quit.
OnErrorGone(l) == IF l = 0 /\ (quit \/ eof) THEN "quit" ELSE "raise"

\* What Run does with an error of next() (only the main runner's quit is ever
\* set), and what WaitHeader's callers do with it.
OnError(l) ==
    IF l = 0 /\ quit /\ pc[l] \in {"read", "reading"} THEN "quit" ELSE "raise"

\* The state is checked before the decoder is asked, and not again after.
Ask(l) ==
    /\ pc[l] \in Asking
    /\ end.state # "closed"
    /\ Goto(l, CASE pc[l] = "read"   -> "reading"
                 [] pc[l] = "header" -> "headering"
                 [] pc[l] = "auth"   -> "authing")
    /\ UNCHANGED <<wire, feature, stopper, app, crashed>>

AskClosed(l) ==
    /\ pc[l] \in {"read", "header"}
    /\ end.state = "closed"
    /\ Goto(l, OnError(l))
    /\ UNCHANGED <<wire, feature, stopper, app, crashed>>

Receives(l, at, k) == pc[l] \in at /\ Arrives(end, inp, k) /\ inp' = Tail(inp)

\* Tokens Run and WaitHeader pass over, and elements no handler matches.
Skip(l) ==
    /\ \/ Receives(l, {"reading", "headering"}, "procinst")
       \/ \E k \in Elements :
              Addressee(k) \notin handlers[l] /\ Receives(l, {"reading"}, k)
    /\ end' = AfterRead(end)
    /\ Goto(l, IF pc[l] = "reading" THEN "read" ELSE "header")
    /\ UNCHANGED <<out, feature, stopper, app, crashed>>

\* WaitHeader refuses every element.
HeaderExpected(l) ==
    /\ \E k \in Elements : Receives(l, {"headering"}, k)
    /\ end' = AfterRead(end)
    /\ Goto(l, "raise")
    /\ UNCHANGED <<out, feature, stopper, app, crashed>>

\* The closing tag makes next() close the channel and report ErrChannelClosed.
PeerCloses(l) ==
    /\ Receives(l, {"reading", "headering"}, "end")
    /\ end' = Closed(AfterRead(end))
    /\ out' = CloseOut(end, out)
    /\ Goto(l, OnError(l))
    /\ UNCHANGED <<feature, stopper, app, crashed>>

ReadFails(l) ==
    /\ pc[l] \in {"reading", "headering"}
    /\ Breaks(end, inp, eof)
    /\ Goto(l, OnError(l))
    /\ UNCHANGED <<wire, feature, stopper, app, crashed>>

-----------------------------------------------------------------------------
(* OnOpenHeader and handleFeatures *)

\* ParseToServer, on the header Run or WaitHeader has returned.
OpenHeader(l) ==
    /\ \/ Receives(l, {"reading", "headering"}, "header") /\ Goto(l, "open")
       \/ Receives(l, {"reading", "headering"}, "badheader") /\ Goto(l, "raise")
    /\ end' = AfterRead(end)
    /\ UNCHANGED <<out, feature, stopper, app, crashed>>

\* A connection that is down is noticed by what is sent next, unless the
\* encoder keeps the error of an earlier flush, that of Stop's closing tag.
Open(l) ==
    /\ pc[l] = "open"
    /\ end' = Opened(end)
    /\ out' = OpenOut(end, out)
    /\ \/ Goto(l, "offer")
       \/ ~end.up /\ stop \in {"ending", "done"} /\ Goto(l, "raise")
    /\ UNCHANGED <<inp, feature, stopper, app, crashed>>

\* Mutant: while there are mandatory features, the list has no others.
AnnounceMandatory ==
    LET fs == IF Unresolved \cap Mandatory # {} THEN Unresolved \cap Mandatory ELSE Unresolved
    IN  offered' = fs /\ out' = Listed(end, out, "features", fs)

\* Mutant: an empty list is not sent.
AnnounceSome ==
    /\ offered' = Unresolved
    /\ out' = IF Unresolved = {} THEN out ELSE Listed(end, out, "features", Unresolved)

Announce == offered' = Unresolved /\ out' = Listed(end, out, "features", Unresolved)

\* Mutant: the nested runner is given the mandatory features only.
OfferMandatoryOnly(l) ==
    /\ pc[l] = "offer" /\ l < MaxDepth
    /\ Unresolved \cap Mandatory # {}
    /\ Announce
    /\ handlers' = [handlers EXCEPT ![l + 1] = Unresolved \cap Mandatory]
    /\ pc' = [pc EXCEPT ![l] = "wait", ![l + 1] = "read"]
    /\ UNCHANGED <<end, inp, handled, authed, bound, stopper, app, crashed>>

\* A nested runner with every unresolved feature and a limit of one.
OfferMandatory(l) ==
    /\ pc[l] = "offer"
    /\ Unresolved \cap Mandatory # {}
    /\ Announce
    /\ IF CanSend(end)
       THEN /\ l < MaxDepth
            /\ handlers' = [handlers EXCEPT ![l + 1] = Unresolved]
            /\ pc' = [pc EXCEPT ![l] = "wait", ![l + 1] = "read"]
       ELSE Goto(l, "raise") /\ UNCHANGED handlers
    /\ UNCHANGED <<end, inp, handled, authed, bound, stopper, app, crashed>>

\* Mutant: the voluntary features are listed and not registered.
OfferVoluntaryOnly(l) ==
    /\ pc[l] = "offer"
    /\ Unresolved \cap Mandatory = {}
    /\ Announce
    /\ Goto(l, "read")
    /\ UNCHANGED <<end, inp, handlers, handled, authed, bound, stopper, app, crashed>>

\* handleUnmandatoryFeatures: the features go to the main runner, whichever
\* level is running, and the result of sending the list is ignored.
OfferVoluntary(l) ==
    /\ pc[l] = "offer"
    /\ Unresolved \cap Mandatory = {}
    /\ Announce
    /\ handlers' = [handlers EXCEPT ![0] = @ \cup Unresolved]
    /\ Goto(l, "read")
    /\ UNCHANGED <<end, inp, handled, authed, bound, stopper, app, crashed>>

-----------------------------------------------------------------------------
(* Handle of the features.  A handler that reports the element as caught   *)
(* uses up the limit of a nested runner; one that reports an error without *)
(* catching it has Run pass the error on and keep reading.                 *)

Caught(l) == IF l = 0 THEN "read" ELSE "ok"

Takes(l, f, k) ==
    /\ f \in handlers[l]
    /\ Receives(l, {"reading"}, k)
    /\ handled' = handled \cup {f}

\* Mutant: TLS starts before <proceed/> is sent.
HandleStartTLSFirst(l) ==
    /\ Takes(l, "starttls", "starttls")
    /\ end' = StartTLS(AfterRead(end))
    /\ out' = Sent(end', out, "proceed")
    /\ Goto(l, "read")
    /\ UNCHANGED <<handlers, offered, authed, bound, stopper, app, crashed>>

\* Mutant: no <failure/> for a certificate that cannot be loaded.
HandleStartTLSMute(l) ==
    /\ Takes(l, "starttls", "starttls")
    /\ \/ /\ "cert" \in Faults
          /\ end' = AfterRead(end)
          /\ Goto(l, "nag")
          /\ UNCHANGED out
       \/ /\ out' = Sent(end, out, "proceed")
          /\ end' = StartTLS(AfterRead(end))
          /\ Goto(l, "read")
    /\ UNCHANGED <<handlers, offered, authed, bound, stopper, app, crashed>>

\* tlsFeature.Handle never reports the element as caught.
HandleStartTLS(l) ==
    /\ Takes(l, "starttls", "starttls")
    /\ \/ /\ "cert" \in Faults
          /\ out' = Sent(end, out, "failure")
          /\ end' = AfterRead(end)
          /\ Goto(l, "nag")
       \/ /\ out' = Sent(end, out, "proceed")
          /\ end' = StartTLS(AfterRead(end))
          /\ Goto(l, "read")
    /\ UNCHANGED <<handlers, offered, authed, bound, stopper, app, crashed>>

\* saslFeature.Handle catches every <auth/>, whatever comes of it.
HandlePlain(l) ==
    /\ \/ /\ Takes(l, "sasl", "plain")
          /\ out' = Sent(end, out, "success")
          /\ authed' = TRUE
       \/ /\ Takes(l, "sasl", "auth-bad")
          /\ out' = Sent(end, out, "failure")
          /\ UNCHANGED authed
    /\ end' = AfterRead(end)
    /\ Goto(l, Caught(l))
    /\ UNCHANGED <<handlers, offered, bound, stopper, app, crashed>>

\* ScramAuth.Auth up to its call of NextElement.
HandleScram(l) ==
    /\ Takes(l, "sasl", "scram")
    /\ ~(UseCB /\ ~end.tls)
    /\ end.state # "closed"
    /\ out' = Sent(end, out, "challenge")
    /\ end' = AfterRead(end)
    /\ Goto(l, IF end.up THEN "auth" ELSE Caught(l))
    /\ UNCHANGED <<handlers, offered, authed, bound, stopper, app, crashed>>

\* SaslFailureElemFromError and BindErrFromError index past the text of an
\* error without a colon: a payload that cannot be decoded, no channel to bind
\* to, ErrChannelClosed; an error of the application's ResourceBinder.
HandlerPanics(l) ==
    /\ \/ Takes(l, "sasl", "auth-garbled")
       \/ Takes(l, "sasl", "scram") /\ (end.state = "closed" \/ (UseCB /\ ~end.tls))
       \/ Takes(l, "bind", "bind") /\ "bind" \in Faults
    /\ end' = AfterRead(end)
    /\ crashed' = TRUE
    /\ UNCHANGED <<out, pc, handlers, offered, authed, bound, stopper, app>>

\* compressionFeature.Handle
HandleCompress(l) ==
    /\ \/ /\ Takes(l, "compress", "compress")
          /\ out' = Sent(end, out, "compressed")
          /\ end' = IF CanSend(end) THEN StartCompress(AfterRead(end)) ELSE AfterRead(end)
       \/ /\ Takes(l, "compress", "compress-bad")
          /\ out' = Sent(end, out, "failure")
          /\ end' = AfterRead(end)
    /\ Goto(l, Caught(l))
    /\ UNCHANGED <<handlers, offered, authed, bound, stopper, app, crashed>>

\* Mutant: the result is sent whether the resource was bound or not.
HandleBindAlways(l) ==
    /\ Takes(l, "bind", "bind")
    /\ end' = AfterRead(end)
    /\ out' = Sent(end, out, "result")
    /\ \/ "bind" \in Faults /\ Goto(l, "nag") /\ UNCHANGED bound
       \/ Goto(l, IF CanSend(end) THEN "read" ELSE "nag") /\ bound' = TRUE
    /\ UNCHANGED <<handlers, offered, authed, stopper, app, crashed>>

\* bindFeature.Handle never reports the element as caught either.  The element
\* BindErrFromError builds has no name, so its text is not XML.
HandleBind(l) ==
    /\ Takes(l, "bind", "bind")
    /\ end' = AfterRead(end)
    /\ \/ /\ "bind" \in Faults
          /\ out' = Sent(end, out, "broken")
          /\ Goto(l, "nag")
          /\ UNCHANGED bound
       \/ /\ out' = Sent(end, out, "result")
          /\ Goto(l, IF CanSend(end) THEN "read" ELSE "nag")
          /\ bound' = TRUE
    /\ UNCHANGED <<handlers, offered, authed, stopper, app, crashed>>

-----------------------------------------------------------------------------
(* waitChallengeResponse and what follows it *)

\* The right response; an error of sending the success is an authentication
\* error like the others, and ErrChannelClosed panics.
Responded(l) ==
    /\ Receives(l, {"authing"}, "response")
    /\ end.state # "closed"
    /\ out' = Sent(end, out, "success")
    /\ end' = AfterRead(end)
    /\ authed' = (authed \/ end.up)
    /\ Goto(l, Caught(l))
    /\ UNCHANGED <<handlers, handled, offered, bound, stopper, app, crashed>>

\* Anything else the peer can send instead, and a decoder that fails.
NotResponded(l) ==
    /\ \/ /\ \E k \in Kinds \ {"response", "end"} : Receives(l, {"authing"}, k)
          /\ end' = AfterRead(end)
       \/ /\ pc[l] = "authing"
          /\ Breaks(end, inp, eof)
          /\ UNCHANGED <<end, inp>>
    /\ out' = Sent(end, out, "failure")
    /\ Goto(l, Caught(l))
    /\ UNCHANGED <<feature, stopper, app, crashed>>

ResponsePanics(l) ==
    /\ \/ /\ pc[l] = "auth"
          /\ end.state = "closed"
          /\ UNCHANGED wire
       \/ /\ Receives(l, {"authing"}, "end")
          /\ end' = Closed(AfterRead(end))
          /\ out' = CloseOut(end, out)
       \/ /\ Receives(l, {"authing"}, "response")
          /\ end.state = "closed"
          /\ end' = AfterRead(end)
          /\ UNCHANGED out
    /\ crashed' = TRUE
    /\ UNCHANGED <<pc, feature, stopper, app>>

-----------------------------------------------------------------------------
(* The channels between the goroutines.  Each is unbuffered and its        *)
(* receiver reads it once, so a send that finds the receiver gone never    *)
(* ends.                                                                   *)

\* The receiver is handleFeatures one level down, or the application.
Tells(l, p, verdict, then) ==
    /\ pc[l] = p
    /\ \/ /\ l > 0
          /\ pc[l - 1] = "wait"
          /\ pc' = [pc EXCEPT ![l] = then,
                              ![l - 1] = IF verdict = "nil" THEN "header" ELSE "raise"]
          /\ UNCHANGED app
       \/ /\ l = 0
          /\ app = "waiting"
          /\ app' = verdict
          /\ Goto(l, then)
    /\ UNCHANGED <<wire, feature, stopper, crashed>>

\* Mutant: the error of a handler arrives as the nil of a limit.
NagNil(l) == Tells(l, "nag", "nil", "read")

\* Mutant: Run passes the error on and does not return.
RaiseOn(l) == Tells(l, "raise", "err", "read")

\* Mutant: a nested runner returns without telling.
RaiseMute(l) ==
    \/ l = 0 /\ Tells(l, "raise", "err", "idle")
    \/ /\ l > 0 /\ pc[l] = "raise"
       /\ Goto(l, "idle")
       /\ UNCHANGED <<wire, feature, stopper, app, crashed>>

Nag(l)   == Tells(l, "nag", "err", "read")
Raise(l) == Tells(l, "raise", "err", "idle")
Limit(l) == Tells(l, "ok", "nil", "idle")
Ended(l) == Tells(l, "quit", "nil", "idle")

-----------------------------------------------------------------------------
(* Stop, the timer of Close, and a connection that fails or that the       *)
(* application closes behind the part's back (Server.Stop).                *)

Stop ==
    /\ CanStop /\ stop = "no"
    /\ quit' = TRUE /\ stop' = "closing"
    /\ UNCHANGED <<wire, pc, feature, app, crashed>>

\* Close looks at the state, writes the closing tag ...
StopClose ==
    /\ stop = "closing"
    /\ out' = CloseOut(end, out)
    /\ IF end.state = "opened"
       THEN stop' = "ending" /\ UNCHANGED end
       ELSE stop' = "done" /\ end' = Closed(end)
    /\ UNCHANGED <<inp, pc, feature, quit, app, crashed>>

\* ... and sets the state and the timer, whatever a reader did in between.
StopEnd ==
    /\ stop = "ending"
    /\ end' = [end EXCEPT !.state = "closed", !.timer = TRUE]
    /\ stop' = "done"
    /\ UNCHANGED <<inp, out, pc, feature, quit, app, crashed>>

Timer ==
    /\ end.timer
    /\ end' = TimedOut(end)
    /\ UNCHANGED <<inp, out, pc, feature, stopper, app, crashed>>

ConnFails ==
    /\ "conn" \in Faults /\ end.up
    /\ end' = [end EXCEPT !.up = FALSE]
    /\ UNCHANGED <<inp, out, pc, feature, stopper, app, crashed>>

-----------------------------------------------------------------------------

Reads(l) ==
    \/ Ask(l) \/ AskClosed(l) \/ Skip(l) \/ HeaderExpected(l)
    \/ PeerCloses(l) \/ ReadFails(l) \/ OpenHeader(l)

HandlesFeatures(l) == Open(l) \/ OfferMandatory(l) \/ OfferVoluntary(l)

HandlesElement(l) ==
    \/ HandleStartTLS(l) \/ HandlePlain(l) \/ HandleScram(l) \/ HandlerPanics(l)
    \/ HandleCompress(l) \/ HandleBind(l)
    \/ Responded(l) \/ NotResponded(l) \/ ResponsePanics(l)

Reports(l) == Nag(l) \/ Raise(l) \/ Limit(l) \/ Ended(l)

\* One step of the goroutine of level l.
Step(l) ==
    /\ ~crashed
    /\ Reads(l) \/ HandlesFeatures(l) \/ HandlesElement(l) \/ Reports(l)

Stops == ~crashed /\ (StopClose \/ StopEnd)

ServerNext ==
    \/ \E l \in Level : Step(l)
    \/ Stops
    \/ ~crashed /\ (Stop \/ Timer \/ ConnFails)
=============================================================================
