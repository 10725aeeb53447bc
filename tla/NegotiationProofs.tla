-------------------------- MODULE NegotiationProofs --------------------------
(***************************************************************************)
(* Proofs about the client and the server of Negotiation, for every set of *)
(* features, faults and worlds.                                            *)
(*                                                                         *)
(* What the properties need is a picture of the whole conversation: who    *)
(* has something to say, what is under way in each direction, and where    *)
(* the two ends may differ.  NInv is that picture; the server's own        *)
(* invariant, proved in XPartProofs for any peer, is one of its conjuncts  *)
(* and is kept by the client's steps because they are an arbitrary peer's. *)
(* The steps of each end are then sorted by what the other can notice of   *)
(* them, and each sort keeps NInv.                                         *)
(***************************************************************************)
EXTENDS Negotiation, SequenceTheorems, TLAPS

\* The server is the one of XPartProofs: its invariant holds whatever arrives.
P == INSTANCE XPartProofs WITH
         end <- send, inp <- c2s, out <- s2c, pc <- spc, quit <- squit, eof <- ~cend.up,
         CanStop <- TRUE, PeerKinds <- {}, MaxFrames <- 0, written <- 0

-----------------------------------------------------------------------------
(* What is under way in one direction of the connection.  A closing tag is *)
(* written by whoever stops, at any time: nothing here depends on one.     *)

\* What is said is of these kinds; nothing is said; something of this kind is.
Speaks(q, kinds) == \A i \in DOMAIN q : q[i].kind \in kinds \cup {"end"}
Quiet(q)         == Speaks(q, {})
Says(q, k)       == \E i \in DOMAIN q : q[i].kind = k

\* The frames come in pairs of this order.
Turns(q, pairs) ==
    \A i, j \in DOMAIN q :
        i < j /\ q[i].kind # "end" /\ q[j].kind # "end" => <<q[i].kind, q[j].kind>> \in pairs

\* They were written under these layers, their lists have these features, and
\* nothing comes after a closing tag.
Carries(q, layers) == \A i \in DOMAIN q : q[i].kind # "end" => q[i].layers = layers
Lists(q, features) == \A i \in DOMAIN q : q[i].kind = "features" => q[i].feats = features
EndsLast(q)        == \A i, j \in DOMAIN q : i < j /\ q[i].kind = "end" => q[j].kind = "end"

-----------------------------------------------------------------------------
(* Where the two ends are. *)

\* The client has given up or runs; or it still negotiates.
Gone    == cpc \in {"failed", "running", "stopped"}
Working == ~Gone /\ cpc # "done"

\* What the client has asked for and not been answered, and what it may be
\* answered.
Requests ==
    CASE cpc = "header"    -> {"procinst", "header"}
      [] cpc = "tls"       -> {"starttls"}
      [] cpc = "challenge" -> {"scram", "auth-bad"}
      [] cpc = "verdict"   -> {"response", "response-bad"}
      [] cpc = "bind"      -> {"bind"}
      [] cpc = "compress"  -> {"compress"}
      [] OTHER -> {}
Replies ==
    CASE cpc = "header"    -> {"procinst", "header", "features"}
      [] cpc = "features"  -> {"features"}
      [] cpc = "tls"       -> {"proceed", "failure"}
      [] cpc = "challenge" -> {"challenge", "failure"}
      [] cpc = "verdict"   -> {"success", "failure"}
      [] cpc = "bind"      -> {"result", "broken"}
      [] cpc = "compress"  -> {"compressed"}
      [] OTHER -> {}

\* Where the server is in a feature.
Opening  == \E l \in Level : spc[l] = "open"
Offering == \E l \in Level : spc[l] = "offer"
Authing  == \E l \in Level : spc[l] \in {"auth", "authing"}

\* Nothing the server could still answer.
Silent == Quiet(c2s) /\ ~Opening /\ ~Offering /\ ~Authing

\* The two are upgraded alike, or the server by one layer more.
Same      == send.tls = cend.tls /\ send.comp = cend.comp
TlsAhead  == send.tls /\ send.comp = cend.comp
CompAhead == send.tls = cend.tls /\ send.comp = IF send.tls THEN "tls" ELSE "raw"

\* What the server will list next.
Unresolved == Features \ handled

-----------------------------------------------------------------------------
(* The invariant. *)

CFrames == [kind : {"procinst", "header", "starttls", "scram", "auth-bad", "response",
                    "response-bad", "bind", "compress", "end"},
            feats : {{}}, layers : P!Layerings]
SFrames == [kind : {"procinst", "header", "features", "proceed", "failure", "challenge",
                    "success", "result", "broken", "compressed", "end"},
            feats : SUBSET Features, layers : P!Layerings]

TypeOK ==
    /\ c2s \in Seq(CFrames) /\ s2c \in Seq(SFrames)
    /\ cend \in P!Ends
    /\ cpc \in {"start", "choose", "done", "header", "features", "tls", "challenge", "verdict",
                "bind", "compress", "failed", "running", "stopped"}
    /\ left \subseteq Features

\* Only one of the two has something to say: the client while the server has
\* said all it had to, then the server.
Taking ==
    /\ Turns(c2s, {<<"procinst", "header">>}) /\ EndsLast(c2s)
    /\ Quiet(c2s) \/ (Quiet(s2c) /\ ~Opening /\ ~Offering)
    /\ Opening => Quiet(s2c)
    /\ Offering => Speaks(s2c, {"procinst", "header"})
    /\ Authing => Speaks(c2s, {"response", "response-bad"}) /\ Speaks(s2c, {"challenge"})
    /\ cpc = "done" => Silent

\* While the client negotiates, what is under way is what it has asked for or
\* the answer to that.
Answering ==
    Working =>
        /\ Speaks(c2s, Requests) /\ ~Says(c2s, "end") /\ Speaks(s2c, Replies)
        /\ Turns(s2c, {<<"procinst", "header">>, <<"procinst", "features">>,
                       <<"header", "features">>})
        /\ Opening => cpc = "header"
        /\ Offering => cpc \in {"header", "features"}
        /\ Authing => cpc \in {"challenge", "verdict"}
        /\ cend.state # "closed" /\ cend.up /\ ~cend.timer

\* The layers differ only between an upgrade of the server and the client's.
Layered ==
    /\ Carries(c2s, P!LayersOf(send)) /\ Carries(s2c, P!LayersOf(cend))
    /\ Same \/ Silent
    /\ Working => \/ Same
                  \/ cpc = "tls" /\ TlsAhead /\ Speaks(s2c, {"proceed"})
                  \/ cpc = "compress" /\ CompAhead /\ Speaks(s2c, {"compressed"})
    /\ Working /\ Says(s2c, "proceed") => TlsAhead
    /\ Working /\ Says(s2c, "compressed") => CompAhead
    /\ cpc = "done" => Same

\* Compression is the last but the resource: nobody authenticates through it.
Compressing ==
    /\ send.comp # "off" \/ Says(c2s, "compress") \/ cpc = "compress" =>
           Unresolved \cap {"starttls", "sasl"} = {}
    /\ Says(c2s, "scram") \/ Authing => send.comp = "off"
    /\ send.spent => send.comp # "off"

\* The client knows what the server has handled, and what came of it.
Knowing ==
    /\ Lists(s2c, Unresolved)
    /\ cpc = "choose" => /\ left \subseteq Unresolved
                         /\ Unresolved \cap ({"starttls", "sasl"} \cup Supported) \subseteq left
    /\ "sasl" \in handled /\ ~Gone /\ cpc \notin {"challenge", "verdict"} => authed
    /\ "bind" \in handled /\ ~Gone /\ cpc # "bind" => bound
    /\ Says(s2c, "success") => authed
    /\ Says(s2c, "result") => bound
    /\ world = "rejected" => ~authed /\ ~Says(c2s, "response")
    /\ Negotiated

NInv == P!IInv /\ TypeOK /\ Taking /\ Answering /\ Layered /\ Compressing /\ Knowing

\* In every world a goroutine of the server does what XPart says of some faults.
LEMMA StepIsServers ==
    ASSUME NEW w \in Worlds, NEW l \in S(w)!Level, S(w)!Step(l) PROVE l \in P!Level /\ P!Step(l)
  <1>. USE DEF S!Goto, P!Goto, S!wire, P!wire, S!feature, P!feature, S!stopper, P!stopper,
    S!Receives, P!Receives, S!Arrives, P!Arrives, S!AfterRead, P!AfterRead, S!Closed, P!Closed,
    S!CloseOut, P!CloseOut, S!Sent, P!Sent, S!Listed, P!Listed, S!CanSend, P!CanSend, S!Frame,
    P!Frame, S!LayersOf, P!LayersOf, S!Breaks, P!Breaks
  <1>1. l \in P!Level
    BY DEF S!Level, P!Level
  <1>2. S(w)!Reads(l) => P!Reads(l)
      BY DEF S!Reads, P!Reads, S!Ask, P!Ask, S!AskClosed, P!AskClosed, S!Skip, P!Skip,
           S!HeaderExpected, P!HeaderExpected, S!PeerCloses, P!PeerCloses, S!ReadFails,
           P!ReadFails, S!OpenHeader, P!OpenHeader, S!OnError, P!OnError, S!Elements,
           P!Elements, S!AuthKinds, P!AuthKinds, S!CompressKinds, P!CompressKinds, S!Addressee,
           P!Addressee, S!Asking, P!Asking
  <1>3. S(w)!HandlesFeatures(l) => P!HandlesFeatures(l)
    BY DEF S!HandlesFeatures, P!HandlesFeatures, S!Open, P!Open, S!OfferMandatory,
         P!OfferMandatory, S!OfferVoluntary, P!OfferVoluntary,
       S!Announce, P!Announce, S!Unresolved, P!Unresolved, S!Mandatory, P!Mandatory, S!Opened,
       P!Opened, S!OpenOut, P!OpenOut
  <1>4. S(w)!HandlesElement(l) => P!HandlesElement(l)
    <2>. USE DEF S!Takes, P!Takes, S!Caught, P!Caught
    <2>1. S(w)!HandleStartTLS(l) => P!HandleStartTLS(l)
      BY DEF S!HandleStartTLS, P!HandleStartTLS, S!StartTLS, P!StartTLS
    <2>2. S(w)!HandlePlain(l) => P!HandlePlain(l)
      BY DEF S!HandlePlain, P!HandlePlain
    <2>3. S(w)!HandleScram(l) => P!HandleScram(l)
      BY DEF S!HandleScram, P!HandleScram
    <2>4. S(w)!HandlerPanics(l) => P!HandlerPanics(l)
      BY DEF S!HandlerPanics, P!HandlerPanics
    <2>5. S(w)!HandleCompress(l) => P!HandleCompress(l)
      BY DEF S!HandleCompress, P!HandleCompress, S!StartCompress, P!StartCompress
    <2>6. S(w)!HandleBind(l) => P!HandleBind(l)
      BY DEF S!HandleBind, P!HandleBind
    <2>7. S(w)!Responded(l) => P!Responded(l)
      BY DEF S!Responded, P!Responded
    <2>8. S(w)!NotResponded(l) => P!NotResponded(l)
      BY DEF S!NotResponded, P!NotResponded, S!Kinds, P!Kinds, S!Elements, P!Elements,
           S!AuthKinds, P!AuthKinds, S!CompressKinds, P!CompressKinds
    <2>9. S(w)!ResponsePanics(l) => P!ResponsePanics(l)
      BY DEF S!ResponsePanics, P!ResponsePanics
    <2>. QED
      BY <2>1, <2>2, <2>3, <2>4, <2>5, <2>6, <2>7, <2>8, <2>9 DEF S!HandlesElement,
           P!HandlesElement
  <1>5. S(w)!Reports(l) => P!Reports(l)
    BY DEF S!Reports, P!Reports, S!Nag, P!Nag, S!Raise, P!Raise, S!Limit, P!Limit, S!Ended,
         P!Ended, S!Tells, P!Tells
  <1>. QED
    BY <1>1, <1>2, <1>3, <1>4, <1>5 DEF S!Step, P!Step

\* So do its application, its timers and a connection that fails.
LEMMA OthersAreServers ==
    ASSUME NEW w \in Worlds, S(w)!Stops \/ (~crashed /\ (S(w)!Stop \/ S(w)!Timer \/ S(w)!ConnFails))
    PROVE  P!Stops \/ (~crashed /\ (P!Stop \/ P!Timer \/ P!ConnFails))
  BY DEF S!Stops, P!Stops, S!StopClose, P!StopClose, S!StopEnd, P!StopEnd, S!Stop, P!Stop,
       S!Timer, P!Timer, S!ConnFails, P!ConnFails,
     S!wire, P!wire, S!feature, P!feature, S!stopper, P!stopper, S!CloseOut, P!CloseOut,
     S!Closed, P!Closed, S!Sent, P!Sent, S!Listed, P!Listed,
     S!CanSend, P!CanSend, S!Frame, P!Frame, S!LayersOf, P!LayersOf, S!TimedOut, P!TimedOut

\* The server keeps the invariant of XPartProofs.
LEMMA ServerKeepsIInv ==
    ASSUME P!IInv, NEW w \in Worlds, ServerDoes(w, S(w)!ServerNext)
    PROVE  P!IInv' /\ P!ServerNext
  <1>1. P!ServerNext
    BY StepIsServers, OthersAreServers DEF ServerDoes, S!ServerNext, P!ServerNext
  <1>2. UNCHANGED P!peer
    BY DEF ServerDoes, client, P!peer
  <1>3. P!Next
    BY <1>1, <1>2 DEF P!Next, P!ServerStep
  <1>. QED
    BY <1>1, <1>3, P!StepInv, ConstantsAssumption

-----------------------------------------------------------------------------
(* Facts about queues. *)

\* What an end can do to a direction without saying anything but good-bye.
Fewer(q, r, F) ==
    \/ r = q
    \/ q # <<>> /\ r = Tail(q)
    \/ \E f \in F : f.kind = "end" /\ r = Append(q, f)

\* The frames that are left are frames that were there, in the same order.
LEMMA FewerFrames ==
    ASSUME NEW F, NEW q \in Seq(F), NEW r, Fewer(q, r, F)
    PROVE  /\ r \in Seq(F)
           /\ \A i \in DOMAIN r : r[i].kind = "end" \/ \E m \in DOMAIN q : r[i] = q[m]
           /\ \A i, j \in DOMAIN r : i < j /\ r[i].kind # "end" /\ r[j].kind # "end" =>
                  \E m, n \in DOMAIN q : m < n /\ r[i] = q[m] /\ r[j] = q[n]
  <1>1. CASE r = q
    BY <1>1
  <1>2. CASE q # <<>> /\ r = Tail(q)
    <2>1. r \in Seq(F) /\ Len(r) = Len(q) - 1 /\ \A i \in 1 .. Len(r) : r[i] = q[i + 1]
      BY <1>2, HeadTailProperties
    <2>2. \A i \in DOMAIN r : i + 1 \in DOMAIN q /\ r[i] = q[i + 1]
      BY <2>1
    <2>3. \A i, j \in DOMAIN r : i < j => i + 1 < j + 1
      BY <2>1
    <2>. QED
      BY <2>1, <2>2, <2>3
  <1>3. CASE \E f \in F : f.kind = "end" /\ r = Append(q, f)
    <2>1. PICK f \in F : f.kind = "end" /\ r = Append(q, f)
      BY <1>3
    <2>2. /\ r \in Seq(F) /\ Len(r) = Len(q) + 1
          /\ \A i \in 1 .. Len(q) : r[i] = q[i]
          /\ r[Len(q) + 1] = f
      BY <2>1, AppendProperties
    <2>. QED
      BY <2>1, <2>2
  <1>. QED
    BY <1>1, <1>2, <1>3 DEF Fewer

\* A direction from which frames are only taken, or a closing tag added, keeps to
\* the kinds it had,
LEMMA FewerSpeaks ==
    ASSUME NEW F, NEW q \in Seq(F), NEW r, Fewer(q, r, F), NEW kinds, Speaks(q, kinds)
    PROVE  Speaks(r, kinds)
  BY FewerFrames DEF Speaks

\* to their order,
LEMMA FewerTurns ==
    ASSUME NEW F, NEW q \in Seq(F), NEW r, Fewer(q, r, F), NEW pairs, Turns(q, pairs)
    PROVE  Turns(r, pairs)
  <1>. SUFFICES ASSUME NEW i \in DOMAIN r, NEW j \in DOMAIN r, i < j,
                       r[i].kind # "end", r[j].kind # "end"
                PROVE  <<r[i].kind, r[j].kind>> \in pairs
    BY DEF Turns
  <1>1. PICK m \in DOMAIN q, n \in DOMAIN q : m < n /\ r[i] = q[m] /\ r[j] = q[n]
    BY FewerFrames
  <1>. QED
    BY <1>1 DEF Turns

\* to their layers,
LEMMA FewerCarries ==
    ASSUME NEW F, NEW q \in Seq(F), NEW r, Fewer(q, r, F), NEW layers, Carries(q, layers)
    PROVE  Carries(r, layers)
  BY FewerFrames DEF Carries

\* and to their lists.
LEMMA FewerLists ==
    ASSUME NEW F, NEW q \in Seq(F), NEW r, Fewer(q, r, F), NEW features, Lists(q, features)
    PROVE  Lists(r, features)
  BY FewerFrames DEF Lists

\* It says nothing else than it did,
LEMMA FewerSays ==
    ASSUME NEW F, NEW q \in Seq(F), NEW r, Fewer(q, r, F), NEW k, Says(r, k), k # "end"
    PROVE  Says(q, k)
  BY FewerFrames DEF Says

\* and a closing tag stays the last word.
LEMMA FewerEnds ==
    ASSUME NEW F, NEW q \in Seq(F), NEW r, Fewer(q, r, F), EndsLast(q)
    PROVE  EndsLast(r)
  <1>1. CASE r = q
    BY <1>1
  <1>2. CASE q # <<>> /\ r = Tail(q)
    <2>1. r \in Seq(F) /\ Len(r) = Len(q) - 1 /\ \A i \in 1 .. Len(r) : r[i] = q[i + 1]
      BY <1>2, HeadTailProperties
    <2>2. Len(q) \in Nat /\ Len(r) \in Nat
      BY <2>1, LenProperties
    <2>3. DOMAIN r = 1 .. Len(r) /\ DOMAIN q = 1 .. Len(q)
      BY <2>1, LenProperties
    <2>4. ASSUME NEW i \in DOMAIN r, NEW j \in DOMAIN r, i < j, r[i].kind = "end"
          PROVE  r[j].kind = "end"
      <3>1. i + 1 \in DOMAIN q /\ j + 1 \in DOMAIN q /\ i + 1 < j + 1
        BY <2>1, <2>2, <2>3, <2>4
      <3>2. q[i + 1].kind = "end" /\ r[j] = q[j + 1]
        BY <2>1, <2>3, <2>4
      <3>. QED
        BY <3>1, <3>2 DEF EndsLast
    <2>. QED
      BY <2>4 DEF EndsLast
  <1>3. CASE \E f \in F : f.kind = "end" /\ r = Append(q, f)
    <2>1. PICK f \in F : f.kind = "end" /\ r = Append(q, f)
      BY <1>3
    <2>2. /\ r \in Seq(F) /\ Len(r) = Len(q) + 1
          /\ \A i \in 1 .. Len(q) : r[i] = q[i]
          /\ r[Len(q) + 1] = f
      BY <2>1, AppendProperties
    <2>. QED
      BY <2>1, <2>2 DEF EndsLast
  <1>. QED
    BY <1>1, <1>2, <1>3 DEF Fewer

\* The first frame: what it is, and what may come after it.
LEMMA First ==
    ASSUME NEW F, NEW q \in Seq(F), q # <<>>
    PROVE  /\ Head(q) \in F /\ Head(q) = q[1] /\ 1 \in DOMAIN q /\ Tail(q) \in Seq(F)
           /\ \A i \in DOMAIN Tail(q) : i + 1 \in DOMAIN q /\ 1 < i + 1 /\ Tail(q)[i] = q[i + 1]
  <1>1. Head(q) \in F /\ Tail(q) \in Seq(F) /\ Len(Tail(q)) = Len(q) - 1
        /\ \A i \in 1 .. Len(Tail(q)) : Tail(q)[i] = q[i + 1]
    BY HeadTailProperties
  <1>. QED
    BY <1>1

\* What holds of every frame holds of the one that is read first.
LEMMA FirstSpeaks ==
    ASSUME NEW F, NEW q \in Seq(F), q # <<>>
    PROVE  /\ Says(q, Head(q).kind)
           /\ \A kinds : Speaks(q, kinds) => Head(q).kind \in kinds \cup {"end"}
           /\ \A features : Lists(q, features) /\ Head(q).kind = "features" => Head(q).feats = features
           /\ \A layers : Carries(q, layers) /\ Head(q).kind # "end" => Head(q).layers = layers
           /\ EndsLast(q) /\ Head(q).kind = "end" => Quiet(q)
  <1>1. Head(q) = q[1] /\ 1 \in DOMAIN q
    BY First
  <1>2. ASSUME EndsLast(q), Head(q).kind = "end" PROVE Quiet(q)
    BY <1>1, <1>2 DEF EndsLast, Quiet, Speaks
  <1>. QED
    BY <1>1, <1>2 DEF Says, Speaks, Lists, Carries

\* What comes after the first frame is what may follow it.
LEMMA FirstTurns ==
    ASSUME NEW F, NEW q \in Seq(F), q # <<>>, NEW pairs, Turns(q, pairs), Head(q).kind # "end",
           NEW kinds, \A p \in pairs : p[1] = Head(q).kind => p[2] \in kinds
    PROVE  Speaks(Tail(q), kinds)
  <1>. SUFFICES ASSUME NEW i \in DOMAIN Tail(q), Tail(q)[i].kind # "end"
                PROVE  Tail(q)[i].kind \in kinds
    BY DEF Speaks
  <1>1. <<q[1].kind, q[i + 1].kind>> \in pairs /\ Head(q) = q[1] /\ Tail(q)[i] = q[i + 1]
    BY First DEF Turns
  <1>. QED
    BY <1>1

\* One frame more.
LEMMA Added ==
    ASSUME NEW F, NEW q \in Seq(F), NEW f \in F
    PROVE  /\ Append(q, f) \in Seq(F)
           /\ \A i \in DOMAIN Append(q, f) :
                  \/ i \in DOMAIN q /\ Append(q, f)[i] = q[i]
                  \/ i = Len(q) + 1 /\ Append(q, f)[i] = f
  BY AppendProperties

\* What holds of every frame and of one more holds of the longer queue.
LEMMA AddedSpeaks ==
    ASSUME NEW F, NEW q \in Seq(F), NEW f \in F
    PROVE  /\ \A kinds : Speaks(q, kinds) /\ f.kind \in kinds => Speaks(Append(q, f), kinds)
           /\ \A layers : Carries(q, layers) /\ f.layers = layers => Carries(Append(q, f), layers)
           /\ \A fs : Lists(q, fs) /\ (f.kind = "features" => f.feats = fs) => Lists(Append(q, f), fs)
           /\ \A k : Says(Append(q, f), k) => Says(q, k) \/ k = f.kind
           /\ ~Says(q, "end") => EndsLast(Append(q, f))
  <1>. DEFINE r == Append(q, f)
  <1>1. \A i \in DOMAIN r : (i \in DOMAIN q /\ r[i] = q[i]) \/ (i = Len(q) + 1 /\ r[i] = f)
    BY Added
  <1>2. ASSUME ~Says(q, "end") PROVE EndsLast(r)
    <2>. SUFFICES ASSUME NEW i \in DOMAIN r, NEW j \in DOMAIN r, i < j, r[i].kind = "end"
                  PROVE  FALSE
      BY DEF EndsLast
    <2>1. i = Len(q) + 1
      BY <1>1, <1>2 DEF Says
    <2>2. j <= Len(q) + 1
      BY <1>1
    <2>. QED
      BY <2>1, <2>2
  <1>. HIDE DEF r
  <1>3. /\ \A kinds : Speaks(q, kinds) /\ f.kind \in kinds => Speaks(r, kinds)
        /\ \A layers : Carries(q, layers) /\ f.layers = layers => Carries(r, layers)
        /\ \A fs : Lists(q, fs) /\ (f.kind = "features" => f.feats = fs) => Lists(r, fs)
        /\ \A k : Says(r, k) => Says(q, k) \/ k = f.kind
    BY <1>1 DEF Speaks, Carries, Lists, Says
  <1>. QED
    BY <1>2, <1>3 DEF r

\* A frame that may follow everything there is keeps the order.
LEMMA AddedTurns ==
    ASSUME NEW F, NEW q \in Seq(F), NEW f \in F, NEW pairs, Turns(q, pairs),
           NEW kinds, Speaks(q, kinds), \A k \in kinds : <<k, f.kind>> \in pairs
    PROVE  Turns(Append(q, f), pairs)
  <1>. DEFINE r == Append(q, f)
  <1>1. \A i \in DOMAIN r : (i \in DOMAIN q /\ r[i] = q[i]) \/ (i = Len(q) + 1 /\ r[i] = f)
    BY Added
  <1>. HIDE DEF r
  <1>. SUFFICES ASSUME NEW i \in DOMAIN r, NEW j \in DOMAIN r, i < j,
                       r[i].kind # "end", r[j].kind # "end"
                PROVE  <<r[i].kind, r[j].kind>> \in pairs
    BY DEF Turns, r
  <1>2. i \in DOMAIN q /\ r[i] = q[i]
    BY <1>1
  <1>3. r[i].kind \in kinds
    BY <1>2 DEF Speaks
  <1>. QED
    BY <1>1, <1>2, <1>3 DEF Turns

\* Where nothing is said, nothing is said out of order,
LEMMA QuietTurns ==
    ASSUME NEW F, NEW q \in Seq(F), Quiet(q), NEW pairs
    PROVE  Turns(q, pairs)
  BY DEF Quiet, Speaks, Turns

\* and whatever is said is within any vocabulary.
LEMMA QuietSpeaks ==
    ASSUME NEW q, Quiet(q), NEW kinds
    PROVE  Speaks(q, kinds) /\ \A k : Says(q, k) => k = "end"
  BY DEF Quiet, Speaks, Says

-----------------------------------------------------------------------------
(* What the invariant says of a direction is kept when a frame is taken or *)
(* the stream is ended.                                                    *)

\* NInv when the server has taken a frame of the client, or the client has closed its
\* stream: the client's direction.
LEMMA LessFromClient ==
    ASSUME NInv, Fewer(c2s, c2s', CFrames)
    PROVE  /\ c2s' \in Seq(CFrames) /\ EndsLast(c2s') /\ Carries(c2s', P!LayersOf(send))
           /\ Turns(c2s', {<<"procinst", "header">>})
           /\ Quiet(c2s) => Quiet(c2s')
           /\ Authing => Speaks(c2s', {"response", "response-bad"})
           /\ Says(c2s', "compress") => Says(c2s, "compress")
           /\ Says(c2s', "scram") => Says(c2s, "scram")
           /\ Says(c2s', "response") => Says(c2s, "response")
           /\ Working => Speaks(c2s', Requests)
           /\ ~Says(c2s, "end") /\ (c2s' = c2s \/ (c2s # <<>> /\ c2s' = Tail(c2s))) =>
                  ~Says(c2s', "end")
  <1>. USE FewerTurns, FewerSpeaks, FewerSays, FewerEnds, FewerFrames, FewerCarries
  <1>1. c2s \in Seq(CFrames)
    BY DEF NInv, TypeOK
  <1>2. /\ c2s' \in Seq(CFrames) /\ EndsLast(c2s') /\ Carries(c2s', P!LayersOf(send))
        /\ Turns(c2s', {<<"procinst", "header">>})
    BY <1>1 DEF NInv, Taking, Layered
  <1>3. Quiet(c2s) => Quiet(c2s')
    BY <1>1 DEF Quiet
  <1>4. Authing => Speaks(c2s', {"response", "response-bad"})
    BY <1>1 DEF NInv, Taking
  <1>5. /\ Says(c2s', "compress") => Says(c2s, "compress")
        /\ Says(c2s', "scram") => Says(c2s, "scram")
        /\ Says(c2s', "response") => Says(c2s, "response")
    BY <1>1
  <1>6. Working => Speaks(c2s', Requests)
    BY <1>1 DEF NInv, Answering
  <1>7. ASSUME ~Says(c2s, "end"), c2s' = c2s \/ (c2s # <<>> /\ c2s' = Tail(c2s))
        PROVE  ~Says(c2s', "end")
    <2>1. CASE c2s' = c2s
      BY <1>7, <2>1
    <2>2. CASE c2s # <<>> /\ c2s' = Tail(c2s)
      <3>1. \A i \in DOMAIN Tail(c2s) : i + 1 \in DOMAIN c2s /\ Tail(c2s)[i] = c2s[i + 1]
        BY <1>1, <2>2, First
      <3>. QED
        BY <1>7, <2>2, <3>1 DEF Says
    <2>. QED
      BY <1>7, <2>1, <2>2
  <1>. QED
    BY <1>2, <1>3, <1>4, <1>5, <1>6, <1>7

\* The same of the server's direction.
LEMMA LessFromServer ==
    ASSUME NInv, Fewer(s2c, s2c', SFrames)
    PROVE  /\ s2c' \in Seq(SFrames) /\ Carries(s2c', P!LayersOf(cend)) /\ Lists(s2c', Unresolved)
           /\ Quiet(s2c) => Quiet(s2c')
           /\ Offering => Speaks(s2c', {"procinst", "header"})
           /\ Authing => Speaks(s2c', {"challenge"})
           /\ Speaks(s2c, {"proceed"}) => Speaks(s2c', {"proceed"})
           /\ Speaks(s2c, {"compressed"}) => Speaks(s2c', {"compressed"})
           /\ Says(s2c', "proceed") => Says(s2c, "proceed")
           /\ Says(s2c', "compressed") => Says(s2c, "compressed")
           /\ Says(s2c', "success") => Says(s2c, "success")
           /\ Says(s2c', "result") => Says(s2c, "result")
           /\ Working => /\ Speaks(s2c', Replies)
                         /\ Turns(s2c', {<<"procinst", "header">>, <<"procinst", "features">>,
                                         <<"header", "features">>})
  <1>. USE FewerTurns, FewerSpeaks, FewerSays, FewerLists, FewerFrames, FewerCarries
  <1>1. s2c \in Seq(SFrames)
    BY DEF NInv, TypeOK
  <1>2. s2c' \in Seq(SFrames) /\ Carries(s2c', P!LayersOf(cend)) /\ Lists(s2c', Unresolved)
    BY <1>1 DEF NInv, Knowing, Layered
  <1>3. /\ Quiet(s2c) => Quiet(s2c')
        /\ Speaks(s2c, {"proceed"}) => Speaks(s2c', {"proceed"})
        /\ Speaks(s2c, {"compressed"}) => Speaks(s2c', {"compressed"})
    BY <1>1 DEF Quiet
  <1>4. /\ Offering => Speaks(s2c', {"procinst", "header"})
        /\ Authing => Speaks(s2c', {"challenge"})
    BY <1>1 DEF NInv, Taking
  <1>5. /\ Says(s2c', "proceed") => Says(s2c, "proceed")
        /\ Says(s2c', "compressed") => Says(s2c, "compressed")
        /\ Says(s2c', "success") => Says(s2c, "success")
        /\ Says(s2c', "result") => Says(s2c, "result")
    BY <1>1
  <1>6. Working => Speaks(s2c', Replies)
    BY <1>1 DEF NInv, Answering
  <1>7. Working => Turns(s2c', {<<"procinst", "header">>, <<"procinst", "features">>,
                                <<"header", "features">>})
    BY <1>1 DEF NInv, Answering
  <1>. QED
    BY <1>2, <1>3, <1>4, <1>5, <1>6, <1>7

\* What the server takes, and where both are then.
LEMMA HeadFromClient ==
    ASSUME NInv, c2s # <<>>, NEW k, k = Head(c2s).kind
    PROVE  /\ Head(c2s) \in CFrames
           /\ Working => k \in Requests
           /\ Authing => k \in {"response", "response-bad", "end"}
           /\ k = "end" => Quiet(c2s)
           /\ k # "end" => Quiet(s2c) /\ ~Opening /\ ~Offering /\ cpc # "done" /\ Same
           /\ k \notin {"end", "procinst"} => Quiet(Tail(c2s))
           /\ Says(c2s, k)
  <1>1. c2s \in Seq(CFrames)
    BY DEF NInv, TypeOK
  <1>2. Head(c2s) \in CFrames
    BY <1>1, First
  <1>3. Says(c2s, k) /\ (k = "end" => Quiet(c2s))
    BY <1>1, FirstSpeaks DEF NInv, Taking
  <1>4. ASSUME Working PROVE k \in Requests
    <2>1. k \in Requests \cup {"end"} /\ ~Says(c2s, "end")
      BY <1>1, <1>4, FirstSpeaks DEF NInv, Answering
    <2>. QED
      BY <2>1, <1>3
  <1>5. Authing => k \in {"response", "response-bad", "end"}
    BY <1>1, FirstSpeaks DEF NInv, Taking
  <1>6. ASSUME k # "end"
        PROVE  Quiet(s2c) /\ ~Opening /\ ~Offering /\ cpc # "done" /\ Same
    <2>1. ~Quiet(c2s)
      BY <1>1, <1>6, FirstSpeaks DEF Quiet
    <2>. QED
      BY <2>1 DEF NInv, Taking, Layered, Silent
  <1>7. ASSUME k \notin {"end", "procinst"} PROVE Quiet(Tail(c2s))
    <2>1. Turns(c2s, {<<"procinst", "header">>})
      BY DEF NInv, Taking
    <2>2. \A p \in {<<"procinst", "header">>} : p[1] = Head(c2s).kind => p[2] \in {}
      BY <1>7
    <2>. QED
      BY <1>1, <1>7, <2>1, <2>2, FirstTurns DEF Quiet
  <1>. QED
    BY <1>2, <1>3, <1>4, <1>5, <1>6, <1>7

\* What the client takes.
LEMMA HeadFromServer ==
    ASSUME NInv, s2c # <<>>, NEW k, k = Head(s2c).kind
    PROVE  /\ Head(s2c) \in SFrames
           /\ Says(s2c, k)
           /\ k = "features" => Head(s2c).feats = Unresolved
           /\ k # "end" => Quiet(c2s) /\ ~Opening
           /\ k \notin {"end", "procinst", "header"} => ~Offering
           /\ k \notin {"end", "challenge"} => ~Authing
           /\ Working => k \in Replies \cup {"end"}
           /\ Working /\ k = "header" => Speaks(Tail(s2c), {"features"})
           /\ Working /\ k \notin {"end", "procinst", "header"} => Quiet(Tail(s2c))
  <1>. DEFINE ps == {<<"procinst", "header">>, <<"procinst", "features">>, <<"header", "features">>}
  <1>1. s2c \in Seq(SFrames)
    BY DEF NInv, TypeOK
  <1>2. Head(s2c) \in SFrames
    BY <1>1, First
  <1>3. Says(s2c, k) /\ (k = "features" => Head(s2c).feats = Unresolved)
    BY <1>1, FirstSpeaks DEF NInv, Knowing
  <1>4. Working => k \in Replies \cup {"end"}
    BY <1>1, FirstSpeaks DEF NInv, Answering
  <1>5. ASSUME k # "end" PROVE Quiet(c2s) /\ ~Opening
    <2>1. ~Quiet(s2c)
      BY <1>1, <1>5, FirstSpeaks DEF Quiet
    <2>. QED
      BY <2>1 DEF NInv, Taking
  <1>6. k \notin {"end", "procinst", "header"} => ~Offering
    BY <1>1, FirstSpeaks DEF NInv, Taking
  <1>7. k \notin {"end", "challenge"} => ~Authing
    BY <1>1, FirstSpeaks DEF NInv, Taking
  <1>8. ASSUME Working, k = "header" PROVE Speaks(Tail(s2c), {"features"})
    <2>1. Turns(s2c, ps)
      BY <1>8 DEF NInv, Answering
    <2>2. \A p \in ps : p[1] = Head(s2c).kind => p[2] \in {"features"}
      BY <1>8
    <2>. QED
      BY <1>1, <1>8, <2>1, <2>2, FirstTurns
  <1>9. ASSUME Working, k \notin {"end", "procinst", "header"} PROVE Quiet(Tail(s2c))
    <2>1. Turns(s2c, ps)
      BY <1>9 DEF NInv, Answering
    <2>2. \A p \in ps : p[1] = Head(s2c).kind => p[2] \in {}
      BY <1>9
    <2>. QED
      BY <1>1, <1>9, <2>1, <2>2, FirstTurns DEF Quiet
  <1>. QED
    BY <1>2, <1>3, <1>4, <1>5, <1>6, <1>7, <1>8, <1>9

-----------------------------------------------------------------------------
(* Steps of the server, as the client can tell them apart. *)

\* It reads on, writes nothing but its closing tag, gets to handleFeatures only
\* by a header, and to the list only by Open.
SRests ==
    /\ UNCHANGED <<world, client, handled, authed, bound>>
    /\ send'.tls = send.tls /\ send'.comp = send.comp
    /\ send'.spent => send.comp # "off"
    /\ c2s' = c2s \/ (c2s # <<>> /\ c2s' = Tail(c2s))
    /\ Fewer(s2c, s2c', SFrames)
    /\ Opening' => Opening \/ (c2s # <<>> /\ c2s' = Tail(c2s) /\ Head(c2s).kind = "header")
    /\ (Offering' => Offering \/ Opening) /\ (Authing' => Authing)

\* The layers of an end are those it was upgraded with (TcpConn.Read and Write).
LEMMA SameLayers ==
    ASSUME NEW e, NEW f, e.tls = f.tls, e.comp = f.comp
    PROVE  P!LayersOf(e) = P!LayersOf(f)
  BY DEF P!LayersOf

\* The names of Negotiation are those of XPartProofs.
LEMMA Vocabulary ==
    /\ ClientLayers = P!LayersOf(cend) /\ ServerLayers = P!LayersOf(send)
    /\ Mandatory = Features \cap {"starttls", "sasl"}
    /\ Level = P!Level
  BY DEF ClientLayers, ServerLayers, Mandatory, Level, C!LayersOf, S!LayersOf, P!LayersOf,
         S!Mandatory, S!Level, P!Level

\* What the server has done for the client stays done.
LEMMA NegotiatedKept ==
    ASSUME Negotiated, cpc' = cpc, handled \subseteq handled', authed => authed', bound => bound',
           cpc = "done" => /\ send'.tls = send.tls /\ send'.comp = send.comp
                           /\ cend'.tls = cend.tls /\ cend'.comp = cend.comp
    PROVE  Negotiated'
  <1>1. cpc = "done" => ClientLayers' = ClientLayers /\ ServerLayers' = ServerLayers
    BY DEF ClientLayers, ServerLayers, C!LayersOf, S!LayersOf
  <1>2. Mandatory' = Mandatory
    BY DEF Mandatory, S!Mandatory
  <1>. QED
    BY <1>1, <1>2 DEF Negotiated

\* A server that rests keeps NInv: it may go on to open a stream, but only
\* because the client has, and then the client waits for it.
LEMMA RestingServer ==
    ASSUME NInv, P!IInv', SRests
    PROVE  NInv'
  <1>. DEFINE h == c2s # <<>> /\ c2s' = Tail(c2s) /\ Head(c2s).kind = "header"
  <1>1. /\ UNCHANGED <<world, cend, cpc, left, handled, authed, bound>>
        /\ send'.tls = send.tls /\ send'.comp = send.comp
        /\ send'.spent => send.comp # "off"
        /\ Opening' => Opening \/ h
        /\ (Offering' => Offering \/ Opening) /\ (Authing' => Authing)
    BY DEF SRests, client
  <1>2. Fewer(c2s, c2s', CFrames) /\ Fewer(s2c, s2c', SFrames)
    BY DEF SRests, Fewer
  <1>3. h => /\ Quiet(s2c) /\ ~Opening /\ ~Offering /\ cpc # "done" /\ Same /\ Quiet(c2s')
             /\ Working => cpc = "header"
             /\ ~Authing
    <2>. SUFFICES ASSUME h
                  PROVE  /\ Quiet(s2c) /\ ~Opening /\ ~Offering /\ cpc # "done" /\ Same
                         /\ Quiet(c2s') /\ (Working => cpc = "header") /\ ~Authing
      OBVIOUS
    <2>1. /\ Quiet(s2c) /\ ~Opening /\ ~Offering /\ cpc # "done" /\ Same /\ Quiet(Tail(c2s))
          /\ Working => "header" \in Requests
          /\ ~Authing
      BY HeadFromClient
    <2>. QED
      BY <2>1 DEF Requests
  <1>. HIDE DEF h
  <1>4. TypeOK'
    BY <1>1, <1>2, LessFromClient, LessFromServer DEF NInv, TypeOK
  <1>5. Taking'
    <2>1. (Quiet(c2s) \/ (Quiet(s2c) /\ ~Opening /\ ~Offering))
          /\ (Opening => Quiet(s2c)) /\ (cpc = "done" => Quiet(c2s) /\ ~Opening /\ ~Offering /\ ~Authing)
      BY DEF NInv, Taking, Silent
    <2>2. Quiet(c2s') \/ (Quiet(s2c') /\ ~Opening' /\ ~Offering')
      BY <2>1, <1>1, <1>2, <1>3, LessFromClient, LessFromServer
    <2>3. Opening' => Quiet(s2c')
      BY <2>1, <1>1, <1>2, <1>3, LessFromServer
    <2>4. /\ Offering /\ Offering' => Speaks(s2c', {"procinst", "header"})
          /\ Authing' => Speaks(c2s', {"response", "response-bad"}) /\ Speaks(s2c', {"challenge"})
          /\ Turns(c2s', {<<"procinst", "header">>}) /\ EndsLast(c2s')
      BY <1>1, <1>2, LessFromClient, LessFromServer
    <2>6. Opening => Speaks(s2c', {"procinst", "header"})
      BY <2>1, <1>2, LessFromServer DEF Quiet, Speaks
    <2>5. cpc' = "done" => Silent'
      BY <2>1, <1>1, <1>2, <1>3, LessFromClient DEF Silent
    <2>. QED
      BY <2>2, <2>3, <2>4, <2>5, <2>6, <1>1 DEF Taking
  <1>6. Answering'
    <2>. SUFFICES ASSUME Working
                  PROVE  Answering'
      BY <1>1 DEF Answering, Working, Gone
    <2>1. /\ ~Says(c2s, "end")
          /\ Opening => cpc = "header"
          /\ Offering => cpc \in {"header", "features"}
          /\ Authing => cpc \in {"challenge", "verdict"}
          /\ cend.state # "closed" /\ cend.up /\ ~cend.timer
      BY DEF NInv, Answering
    <2>2. ~Says(c2s', "end")
      BY <2>1, <1>2, LessFromClient DEF SRests
    <2>3. Requests' = Requests /\ Replies' = Replies
      BY <1>1 DEF Requests, Replies
    <2>4. Speaks(c2s', Requests') /\ Speaks(s2c', Replies')
          /\ Turns(s2c', {<<"procinst", "header">>, <<"procinst", "features">>, <<"header", "features">>})
      BY <2>3, <1>2, LessFromClient, LessFromServer
    <2>5. Opening' => cpc' = "header"
      BY <2>1, <1>1, <1>3
    <2>6. /\ Offering' => cpc' \in {"header", "features"}
          /\ Authing' => cpc' \in {"challenge", "verdict"}
          /\ cend'.state # "closed" /\ cend'.up /\ ~cend'.timer
      BY <2>1, <1>1
    <2>. QED
      BY <2>2, <2>4, <2>5, <2>6 DEF Answering
  <1>7. Layered'
    <2>1. P!LayersOf(send)' = P!LayersOf(send) /\ P!LayersOf(cend)' = P!LayersOf(cend)
      BY <1>1 DEF P!LayersOf
    <2>2. Carries(c2s, P!LayersOf(send))' /\ Carries(s2c, P!LayersOf(cend))'
      BY <2>1, <1>2, LessFromClient, LessFromServer
    <2>3. (Same' <=> Same) /\ (TlsAhead' <=> TlsAhead) /\ (CompAhead' <=> CompAhead)
          /\ (Working' <=> Working)
      BY <1>1 DEF Same, TlsAhead, CompAhead, Working, Gone
    <2>4. Same' \/ Silent'
      <3>1. Silent => h \/ Silent'
        BY <1>1, <1>2, LessFromClient DEF Silent
      <3>. QED
        BY <3>1, <1>3, <2>3 DEF NInv, Layered
    <2>5. Working' => \/ Same'
                      \/ cpc' = "tls" /\ TlsAhead' /\ Speaks(s2c', {"proceed"})
                      \/ cpc' = "compress" /\ CompAhead' /\ Speaks(s2c', {"compressed"})
      BY <2>3, <1>1, <1>2, LessFromServer DEF NInv, Layered
    <2>6. /\ Working' /\ Says(s2c', "proceed") => TlsAhead'
          /\ Working' /\ Says(s2c', "compressed") => CompAhead'
          /\ cpc' = "done" => Same'
      BY <2>3, <1>1, <1>2, LessFromServer DEF NInv, Layered
    <2>. QED
      BY <2>2, <2>4, <2>5, <2>6 DEF Layered
  <1>8. Compressing'
    BY <1>1, <1>2, LessFromClient DEF NInv, Compressing, Unresolved
  <1>9. Knowing'
    <2>1. Lists(s2c', Unresolved') /\ (Says(s2c', "success") => authed') /\ (Says(s2c', "result") => bound')
      BY <1>1, <1>2, LessFromServer DEF NInv, Knowing, Unresolved
    <2>2. Negotiated'
      BY <1>1, NegotiatedKept DEF NInv, Knowing
    <2>3. world' = "rejected" => ~authed' /\ ~Says(c2s', "response")
      BY <1>1, <1>2, LessFromClient DEF NInv, Knowing
    <2>. QED
      BY <2>1, <2>2, <2>3, <1>1 DEF NInv, Knowing, Unresolved, Gone
  <1>. QED
    BY <1>4, <1>5, <1>6, <1>7, <1>8, <1>9 DEF NInv

-----------------------------------------------------------------------------

\* What is answered to what.
Answers == {<<"starttls", "proceed">>, <<"starttls", "failure">>, <<"auth-bad", "failure">>,
            <<"scram", "challenge">>, <<"response", "success">>, <<"response-bad", "failure">>,
            <<"compress", "compressed">>, <<"bind", "result">>, <<"bind", "broken">>}

Used(k) == CASE k = "starttls" -> {"starttls"}
             [] k \in {"scram", "auth-bad"} -> {"sasl"}
             [] k = "compress" -> {"compress"}
             [] k = "bind" -> {"bind"}
             [] OTHER -> {}

\* It takes a request and answers it, or would have, with an upgrade or not.
SReplies(k, r, sends) ==
    /\ UNCHANGED <<world, client>>
    /\ <<k, r>> \in Answers
    /\ c2s # <<>> /\ Head(c2s).kind = k /\ c2s' = Tail(c2s)
    /\ s2c' = IF sends THEN Append(s2c, P!Frame(send, r, {})) ELSE s2c
    /\ send'.tls = IF r = "proceed" THEN TRUE ELSE send.tls
    /\ send'.comp = IF sends /\ r = "compressed" THEN IF send.tls THEN "tls" ELSE "raw"
                    ELSE send.comp
    /\ send'.spent => send.comp # "off"
    /\ handled' = handled \cup Used(k)
    /\ (authed => authed') /\ (sends /\ r = "success" => authed')
    /\ authed' => authed \/ r = "success"
    /\ (bound => bound') /\ (r = "result" => bound')
    /\ ~Opening' /\ ~Offering' /\ (Authing' => k = "scram")

\* What has been written when an end that has nothing under way writes a frame.
LEMMA QuietAdded ==
    ASSUME NEW F, NEW q \in Seq(F), Quiet(q), NEW f \in F
    PROVE  /\ Append(q, f) \in Seq(F)
           /\ Speaks(Append(q, f), {f.kind})
           /\ \A pairs : Turns(Append(q, f), pairs)
           /\ \A k : Says(Append(q, f), k) => k \in {f.kind, "end"}
           /\ f.kind # "features" => \A features : Lists(Append(q, f), features)
           /\ Carries(Append(q, f), f.layers)
  <1>1. Speaks(q, {f.kind}) /\ Speaks(q, {}) /\ \A pairs : Turns(q, pairs)
    BY QuietSpeaks, QuietTurns DEF Quiet
  <1>2. (\A features : Lists(q, features)) /\ \A layers : Carries(q, layers)
    BY DEF Quiet, Speaks, Lists, Carries
  <1>3. \A k : Says(q, k) => k = "end"
    BY QuietSpeaks
  <1>4. Append(q, f) \in Seq(F)
    BY Added
  <1>5. Speaks(Append(q, f), {f.kind})
    BY <1>1, AddedSpeaks
  <1>6. ASSUME NEW pairs PROVE Turns(Append(q, f), pairs)
    BY <1>1, AddedTurns
  <1>7. ASSUME NEW k, Says(Append(q, f), k) PROVE k \in {f.kind, "end"}
    BY <1>3, <1>7, AddedSpeaks
  <1>8. ASSUME f.kind # "features", NEW features PROVE Lists(Append(q, f), features)
    BY <1>2, <1>8, AddedSpeaks
  <1>9. Carries(Append(q, f), f.layers)
    BY <1>2, AddedSpeaks
  <1>. QED
    BY <1>4, <1>5, <1>6, <1>7, <1>8, <1>9

\* A server that replies keeps NInv: the client waits for this reply and for no
\* other.
LEMMA ReplyingServer ==
    ASSUME NInv, P!IInv', NEW k, NEW r, NEW sends \in BOOLEAN, SReplies(k, r, sends)
    PROVE  NInv'
  <1>. DEFINE f == P!Frame(send, r, {})
  <1>0. send \in P!Ends /\ cend \in P!Ends /\ s2c \in Seq(SFrames) /\ c2s \in Seq(CFrames)
    BY DEF NInv, P!IInv, P!TypeOK, TypeOK
  <1>1. /\ UNCHANGED <<world, cend, cpc, left>>
        /\ <<k, r>> \in Answers
        /\ c2s # <<>> /\ Head(c2s).kind = k /\ c2s' = Tail(c2s)
        /\ handled' = handled \cup Used(k)
        /\ (authed => authed') /\ (sends /\ r = "success" => authed')
        /\ authed' => authed \/ r = "success"
        /\ (bound => bound') /\ (r = "result" => bound')
        /\ ~Opening' /\ ~Offering' /\ (Authing' => k = "scram")
    BY DEF SReplies, client
  <1>2. /\ Quiet(s2c) /\ ~Opening /\ ~Offering /\ cpc # "done" /\ Same /\ Quiet(c2s')
        /\ Working => k \in Requests
        /\ Says(c2s, k)
    BY <1>1, HeadFromClient DEF Answers
  <1>3. f \in SFrames /\ f.kind = r /\ f.layers = P!LayersOf(cend)
    <2>1. f = [kind |-> r, feats |-> {}, layers |-> P!LayersOf(send)]
      BY DEF P!Frame
    <2>2. P!LayersOf(send) = P!LayersOf(cend)
      BY <1>2 DEF P!LayersOf, Same
    <2>3. P!LayersOf(send) \in P!Layerings
      BY <1>0 DEF P!LayersOf, P!Layerings, P!Ends
    <2>. QED
      BY <1>1, <2>1, <2>2, <2>3 DEF SFrames, Answers
  <1>4. s2c' = IF sends THEN Append(s2c, f) ELSE s2c
    BY DEF SReplies
  <1>. HIDE DEF f
  <1>5. /\ s2c' \in Seq(SFrames)
        /\ Speaks(s2c', {r}) /\ \A pairs : Turns(s2c', pairs)
        /\ \A x : Says(s2c', x) => x = "end" \/ (sends /\ x = r)
        /\ \A features : Lists(s2c', features)
        /\ Carries(s2c', P!LayersOf(cend))
    <2>1. CASE sends
      <3>1. s2c' = Append(s2c, f) /\ r # "features"
        BY <1>1, <1>4, <2>1 DEF Answers
      <3>2. /\ Append(s2c, f) \in Seq(SFrames)
            /\ Speaks(Append(s2c, f), {f.kind})
            /\ \A pairs : Turns(Append(s2c, f), pairs)
            /\ \A x : Says(Append(s2c, f), x) => x \in {f.kind, "end"}
            /\ f.kind # "features" => \A features : Lists(Append(s2c, f), features)
            /\ Carries(Append(s2c, f), f.layers)
        BY <1>0, <1>2, <1>3, QuietAdded
      <3>. QED
        BY <2>1, <3>1, <3>2, <1>3
    <2>2. CASE ~sends
      <3>1. Speaks(s2c, {r}) /\ (\A pairs : Turns(s2c, pairs)) /\ \A x : Says(s2c, x) => x = "end"
        BY <1>0, <1>2, QuietSpeaks, QuietTurns
      <3>2. (\A features : Lists(s2c, features)) /\ \A layers : Carries(s2c, layers)
        BY <1>2 DEF Quiet, Speaks, Lists, Carries
      <3>. QED
        BY <1>0, <1>4, <2>2, <3>1, <3>2
    <2>. QED
      BY <2>1, <2>2
  <1>6. /\ c2s' \in Seq(CFrames) /\ EndsLast(c2s') /\ Turns(c2s', {<<"procinst", "header">>})
        /\ ~Says(c2s, "end") => ~Says(c2s', "end")
        /\ \A kinds : Speaks(c2s', kinds)
        /\ \A x : Says(c2s', x) => x = "end"
        /\ \A layers : Carries(c2s', layers)
    <2>1. Fewer(c2s, c2s', CFrames)
      BY <1>1 DEF Fewer
    <2>2. /\ c2s' \in Seq(CFrames) /\ EndsLast(c2s') /\ Turns(c2s', {<<"procinst", "header">>})
          /\ ~Says(c2s, "end") => ~Says(c2s', "end")
      BY <1>1, <2>1, LessFromClient
    <2>3. (\A kinds : Speaks(c2s', kinds)) /\ \A x : Says(c2s', x) => x = "end"
      BY <1>2, QuietSpeaks
    <2>4. \A layers : Carries(c2s', layers)
      BY <1>2 DEF Quiet, Speaks, Carries
    <2>. QED
      BY <2>2, <2>3, <2>4
  <1>7. Working => /\ k = "starttls" => cpc = "tls"
                   /\ k \in {"scram", "auth-bad"} => cpc = "challenge"
                   /\ k \in {"response", "response-bad"} => cpc = "verdict"
                   /\ k = "bind" => cpc = "bind"
                   /\ k = "compress" => cpc = "compress"
                   /\ cpc # "choose"
    BY <1>2 DEF Requests
  <1>8. TypeOK'
    BY <1>0, <1>1, <1>5, <1>6 DEF NInv, TypeOK
  <1>9. Taking'
    <2>1. Authing' => r = "challenge"
      BY <1>1 DEF Answers
    <2>. QED
      BY <2>1, <1>1, <1>2, <1>5, <1>6 DEF Taking, Quiet
  <1>10. Answering'
    <2>. SUFFICES ASSUME Working
                  PROVE  Answering'
      BY <1>1 DEF Answering, Working, Gone
    <2>1. /\ ~Says(c2s, "end") /\ cend.state # "closed" /\ cend.up /\ ~cend.timer
      BY DEF NInv, Answering
    <2>2. r \in Replies'
      BY <1>1, <1>7 DEF Answers, Replies
    <2>3. Speaks(s2c', Replies')
      BY <2>2, <1>5 DEF Speaks
    <2>4. Authing' => cpc' \in {"challenge", "verdict"}
      BY <1>1, <1>7
    <2>. QED
      BY <2>1, <2>3, <2>4, <1>1, <1>5, <1>6 DEF Answering
  <1>11. Layered'
    <2>1. P!LayersOf(cend)' = P!LayersOf(cend)
      BY <1>1 DEF P!LayersOf
    <2>2. r \notin {"proceed", "compressed"} => Same'
      BY <1>1, <1>2 DEF SReplies, Same
    <2>3. r = "proceed" => TlsAhead' /\ k = "starttls"
      BY <1>1, <1>2 DEF SReplies, Same, TlsAhead, Answers
    <2>4. r = "compressed" => k = "compress" /\ IF sends THEN CompAhead' ELSE Same'
      BY <1>1, <1>2 DEF SReplies, Same, CompAhead, Answers
    <2>5. Same' \/ Silent'
      <3>1. Authing' => Same'
        BY <2>2, <1>1 DEF Answers
      <3>. QED
        BY <3>1, <1>1, <1>6 DEF Silent, Quiet
    <2>6. Working' <=> Working
      BY <1>1 DEF Working, Gone
    <2>7. Working => \/ Same'
                     \/ cpc' = "tls" /\ TlsAhead' /\ Speaks(s2c', {"proceed"})
                     \/ cpc' = "compress" /\ CompAhead' /\ Speaks(s2c', {"compressed"})
      BY <2>2, <2>3, <2>4, <1>1, <1>5, <1>7
    <2>8. (Says(s2c', "proceed") => TlsAhead') /\ (Says(s2c', "compressed") => CompAhead')
      BY <2>3, <2>4, <1>5
    <2>. QED
      BY <2>1, <2>5, <2>6, <2>7, <2>8, <1>1, <1>2, <1>5, <1>6 DEF Layered
  <1>12. Compressing'
    <2>1. Unresolved' \subseteq Unresolved
      BY <1>1 DEF Unresolved
    <2>2. send'.comp # "off" => send.comp # "off" \/ k = "compress"
      BY <1>1 DEF SReplies, Answers
    <2>3. send'.comp # "off" \/ cpc' = "compress" => Unresolved' \cap {"starttls", "sasl"} = {}
      BY <2>1, <2>2, <1>1, <1>2 DEF NInv, Compressing
    <2>4. Authing' => send'.comp = "off"
      BY <1>1, <1>2 DEF NInv, Compressing, SReplies, Answers
    <2>5. send'.spent => send'.comp # "off"
      BY <1>0 DEF SReplies, P!Ends
    <2>. QED
      BY <2>3, <2>4, <2>5, <1>6 DEF Compressing
  <1>13. Knowing'
    <2>1. ~Gone => Working
      BY <1>2 DEF Working
    <2>2. Gone' <=> Gone
      BY <1>1 DEF Gone
    <2>3. "sasl" \in handled' /\ ~Gone /\ cpc \notin {"challenge", "verdict"} => authed'
      BY <2>1, <1>1, <1>7 DEF NInv, Knowing, Used
    <2>4. "bind" \in handled' /\ ~Gone /\ cpc # "bind" => bound'
      BY <2>1, <1>1, <1>7 DEF NInv, Knowing, Used
    <2>5. (Says(s2c', "success") => authed') /\ (Says(s2c', "result") => bound')
      BY <1>1, <1>5
    <2>6. world' = "rejected" => ~authed' /\ ~Says(c2s', "response")
      BY <1>1, <1>2, <1>6 DEF NInv, Knowing, Answers
    <2>7. Negotiated' /\ cpc' # "choose"
      BY <2>1, <1>1, <1>2, <1>7 DEF Negotiated, Gone
    <2>. QED
      BY <2>2, <2>3, <2>4, <2>5, <2>6, <2>7, <1>1, <1>5 DEF Knowing
  <1>. QED
    BY <1>8, <1>9, <1>10, <1>11, <1>12, <1>13 DEF NInv

-----------------------------------------------------------------------------

\* It answers a header,
SOpens ==
    /\ UNCHANGED <<world, client, c2s, handled, authed, bound>>
    /\ send'.tls = send.tls /\ send'.comp = send.comp /\ send'.spent = send.spent
    /\ s2c' = Append(Append(s2c, P!Frame(send, "procinst", {})), P!Frame(send, "header", {}))
    /\ Opening /\ ~Opening' /\ ~Authing'

\* lists the features that are left,
SLists ==
    /\ UNCHANGED <<world, client, c2s, handled, authed, bound>>
    /\ send'.tls = send.tls /\ send'.comp = send.comp /\ send'.spent = send.spent
    /\ s2c' = Append(s2c, P!Frame(send, "features", Unresolved))
    /\ Offering /\ ~Opening' /\ ~Offering' /\ ~Authing'

\* or answers a client that has gone before its response came.
SGivesUp ==
    /\ UNCHANGED <<world, client, c2s, handled, authed, bound>>
    /\ send'.tls = send.tls /\ send'.comp = send.comp /\ send'.spent = send.spent
    /\ s2c' = Append(s2c, P!Frame(send, "failure", {}))
    /\ Quiet(c2s) /\ ~Working
    /\ Authing /\ ~Opening' /\ ~Offering' /\ ~Authing'

\* A frame of an end that has the layers of the other.
LEMMA FrameOfServer ==
    ASSUME NInv, Same, NEW k \in {"procinst", "header", "features", "failure"},
           NEW fs \in SUBSET Features
    PROVE  LET f == P!Frame(send, k, fs) IN
           f \in SFrames /\ f.kind = k /\ f.feats = fs /\ f.layers = P!LayersOf(cend)
  <1>1. P!Frame(send, k, fs) = [kind |-> k, feats |-> fs, layers |-> P!LayersOf(send)]
    BY DEF P!Frame
  <1>2. P!LayersOf(send) = P!LayersOf(cend)
    BY DEF P!LayersOf, Same
  <1>3. P!LayersOf(send) \in P!Layerings
    BY DEF P!LayersOf, P!Layerings, P!Ends, NInv, P!IInv, P!TypeOK
  <1>. QED
    BY <1>1, <1>2, <1>3 DEF SFrames

\* What is kept when the server only adds to what is under way.
LEMMA AddingServer ==
    ASSUME NInv, UNCHANGED <<world, client, c2s, handled, authed, bound>>,
           send'.tls = send.tls, send'.comp = send.comp, send'.spent = send.spent
    PROVE  /\ TypeOK' <=> s2c' \in Seq(SFrames)
           /\ (Working' <=> Working) /\ Replies' = Replies /\ cpc' = cpc
           /\ Working => Speaks(c2s', Requests') /\ ~Says(c2s', "end")
           /\ Working => cend'.state # "closed" /\ cend'.up /\ ~cend'.timer
           /\ Turns(c2s', {<<"procinst", "header">>}) /\ EndsLast(c2s')
           /\ Carries(c2s', P!LayersOf(send'))
           /\ (Same' <=> Same) /\ P!LayersOf(cend') = P!LayersOf(cend)
           /\ (Authing' => Authing) => Compressing'
           /\ Lists(s2c', Unresolved') /\ (Says(s2c', "success") => authed')
              /\ (Says(s2c', "result") => bound') => Knowing'
  <1>1. /\ UNCHANGED <<world, cend, cpc, left, c2s, handled, authed, bound>>
        /\ send'.tls = send.tls /\ send'.comp = send.comp
    BY DEF client
  <1>2. TypeOK' <=> s2c' \in Seq(SFrames)
    BY <1>1 DEF NInv, TypeOK
  <1>3. (Working' <=> Working) /\ Replies' = Replies /\ Requests' = Requests
    BY <1>1 DEF Working, Gone, Replies, Requests
  <1>4. /\ Working => Speaks(c2s', Requests') /\ ~Says(c2s', "end")
        /\ Working => cend'.state # "closed" /\ cend'.up /\ ~cend'.timer
    BY <1>1, <1>3 DEF NInv, Answering
  <1>5. Turns(c2s', {<<"procinst", "header">>}) /\ EndsLast(c2s')
    BY <1>1 DEF NInv, Taking
  <1>6. Carries(c2s', P!LayersOf(send'))
    BY <1>1 DEF NInv, Layered, P!LayersOf
  <1>7. (Same' <=> Same) /\ P!LayersOf(cend') = P!LayersOf(cend)
    BY <1>1 DEF Same, P!LayersOf
  <1>8. (Authing' => Authing) => Compressing'
    BY <1>1 DEF NInv, Compressing, Unresolved
  <1>9. ASSUME Lists(s2c', Unresolved'), Says(s2c', "success") => authed',
               Says(s2c', "result") => bound'
        PROVE  Knowing'
    <2>1. Negotiated'
      BY <1>1, NegotiatedKept DEF NInv, Knowing
    <2>. QED
      BY <1>1, <1>9, <2>1 DEF NInv, Knowing, Unresolved, Gone
  <1>. QED
    BY <1>1, <1>2, <1>3, <1>4, <1>5, <1>6, <1>7, <1>8, <1>9

\* A server that opens a stream keeps NInv: what it has upgraded, the client has.
LEMMA OpeningServer ==
    ASSUME NInv, P!IInv', SOpens
    PROVE  NInv'
  <1>. DEFINE f == P!Frame(send, "procinst", {})
              g == P!Frame(send, "header", {})
              q == Append(s2c, f)
              ps == {<<"procinst", "header">>, <<"procinst", "features">>, <<"header", "features">>}
  <1>1. /\ Quiet(s2c) /\ Quiet(c2s) /\ cpc # "done" /\ Same
        /\ Working => cpc = "header"
        /\ s2c \in Seq(SFrames)
    BY DEF NInv, Taking, Layered, Answering, Silent, SOpens, TypeOK
  <1>2. f \in SFrames /\ f.kind = "procinst" /\ f.layers = P!LayersOf(cend)
    BY <1>1, FrameOfServer
  <1>3. g \in SFrames /\ g.kind = "header" /\ g.layers = P!LayersOf(cend)
    BY <1>1, FrameOfServer
  <1>4. s2c' = Append(q, g)
    BY DEF SOpens
  <1>. HIDE DEF f, g
  <1>5. /\ q \in Seq(SFrames) /\ Speaks(q, {"procinst"}) /\ Turns(q, ps)
        /\ \A x : Says(q, x) => x \in {"procinst", "end"}
        /\ (\A features : Lists(q, features)) /\ Carries(q, P!LayersOf(cend))
    <2>1. /\ q \in Seq(SFrames)
          /\ Speaks(q, {f.kind})
          /\ \A pairs : Turns(q, pairs)
          /\ \A x : Says(q, x) => x \in {f.kind, "end"}
          /\ f.kind # "features" => \A features : Lists(q, features)
          /\ Carries(q, f.layers)
      BY <1>1, <1>2, QuietAdded
    <2>. QED
      BY <2>1, <1>2
  <1>6. Speaks(q, {"procinst", "header"})
    BY <1>5 DEF Speaks
  <1>. HIDE DEF q
  <1>7. /\ s2c' \in Seq(SFrames) /\ Speaks(s2c', {"procinst", "header"})
        /\ \A x : Says(s2c', x) => x \in {"procinst", "header", "end"}
        /\ (\A features : Lists(s2c', features)) /\ Carries(s2c', P!LayersOf(cend))
    <2>1. Append(q, g) \in Seq(SFrames)
      BY <1>3, <1>5, Added
    <2>2. /\ Speaks(Append(q, g), {"procinst", "header"})
          /\ \A x : Says(Append(q, g), x) => x \in {"procinst", "header", "end"}
      BY <1>3, <1>5, <1>6, AddedSpeaks
    <2>3. (\A features : Lists(Append(q, g), features)) /\ Carries(Append(q, g), P!LayersOf(cend))
      BY <1>3, <1>5, AddedSpeaks
    <2>. QED
      BY <1>4, <2>1, <2>2, <2>3
  <1>8. Turns(s2c', ps)
    <2>1. \A k \in {"procinst"} : <<k, g.kind>> \in ps
      BY <1>3
    <2>. QED
      BY <1>3, <1>4, <1>5, <2>1, AddedTurns
  <1>9. /\ UNCHANGED <<world, client, c2s, handled, authed, bound>>
        /\ send'.tls = send.tls /\ send'.comp = send.comp /\ send'.spent = send.spent
        /\ ~Opening' /\ ~Authing'
    BY DEF SOpens
  <1>10. TypeOK' /\ Knowing' /\ Compressing'
    BY <1>7, <1>9, AddingServer
  <1>11. Quiet(c2s')
    BY <1>1, <1>9
  <1>12. Taking'
    BY <1>1, <1>7, <1>9, <1>11, AddingServer DEF Taking
  <1>13. Answering'
    <2>1. Working => Speaks(s2c', Replies')
      BY <1>1, <1>7, AddingServer, <1>9 DEF Replies, Speaks
    <2>. QED
      BY <2>1, <1>1, <1>8, <1>9, AddingServer DEF Answering
  <1>14. Layered'
    BY <1>1, <1>7, <1>9, AddingServer DEF Layered
  <1>. QED
    BY <1>10, <1>12, <1>13, <1>14 DEF NInv

\* A server that lists its features keeps NInv: the client waits for a list.
LEMMA ListingServer ==
    ASSUME NInv, P!IInv', SLists
    PROVE  NInv'
  <1>. DEFINE f == P!Frame(send, "features", Unresolved)
              ps == {<<"procinst", "header">>, <<"procinst", "features">>, <<"header", "features">>}
  <1>1. /\ Speaks(s2c, {"procinst", "header"}) /\ Quiet(c2s) /\ cpc # "done" /\ Same
        /\ Working => cpc \in {"header", "features"} /\ Turns(s2c, ps) /\ Speaks(s2c, Replies)
        /\ s2c \in Seq(SFrames) /\ Lists(s2c, Unresolved) /\ Carries(s2c, P!LayersOf(cend))
        /\ (Says(s2c, "success") => authed) /\ (Says(s2c, "result") => bound)
    BY DEF NInv, Taking, Layered, Answering, Silent, SLists, TypeOK, Knowing
  <1>2. f \in SFrames /\ f.kind = "features" /\ f.layers = P!LayersOf(cend) /\ f.feats = Unresolved
    <2>1. Unresolved \in SUBSET Features
      BY DEF Unresolved
    <2>. QED
      BY <1>1, <2>1, FrameOfServer
  <1>3. s2c' = Append(s2c, f)
    BY DEF SLists
  <1>. HIDE DEF f
  <1>4. s2c' \in Seq(SFrames)
    BY <1>1, <1>2, <1>3, Added
  <1>5. Lists(s2c', Unresolved) /\ Carries(s2c', P!LayersOf(cend))
    BY <1>1, <1>2, <1>3, AddedSpeaks
  <1>6. \A x : Says(s2c', x) => Says(s2c, x) \/ x = "features"
    BY <1>1, <1>2, <1>3, AddedSpeaks
  <1>7. Working => Turns(s2c', ps)
    <2>1. \A k \in {"procinst", "header"} : <<k, f.kind>> \in ps
      BY <1>2
    <2>. QED
      BY <1>1, <1>2, <1>3, <2>1, AddedTurns
  <1>8. Working => Speaks(s2c', Replies)
    <2>1. Working => "features" \in Replies
      BY <1>1 DEF Replies
    <2>. QED
      BY <1>1, <1>2, <1>3, <2>1, AddedSpeaks
  <1>9. /\ UNCHANGED <<world, client, c2s, handled, authed, bound>>
        /\ send'.tls = send.tls /\ send'.comp = send.comp /\ send'.spent = send.spent
        /\ ~Opening' /\ ~Authing' /\ ~Offering'
    BY DEF SLists
  <1>10. TypeOK' /\ Knowing' /\ Compressing'
    <2>1. Unresolved' = Unresolved
      BY <1>9 DEF Unresolved
    <2>. QED
      BY <1>1, <1>4, <1>5, <1>6, <1>9, <2>1, AddingServer
  <1>11. Quiet(c2s')
    BY <1>1, <1>9
  <1>12. Taking'
    BY <1>1, <1>9, <1>11, AddingServer DEF Taking
  <1>13. Answering'
    BY <1>1, <1>7, <1>8, <1>9, AddingServer DEF Answering
  <1>14. Layered'
    <2>1. Working => ~Says(s2c', "proceed") /\ ~Says(s2c', "compressed")
      <3>1. ~Says(s2c, "proceed") /\ ~Says(s2c, "compressed")
        BY <1>1 DEF Speaks, Says
      <3>. QED
        BY <3>1, <1>6
    <2>. QED
      BY <2>1, <1>1, <1>5, <1>9, AddingServer DEF Layered
  <1>. QED
    BY <1>10, <1>12, <1>13, <1>14 DEF NInv

\* A server whose handleFeatures has nothing left, or fails, keeps NInv.
LEMMA GivingUpServer ==
    ASSUME NInv, P!IInv', SGivesUp
    PROVE  NInv'
  <1>. DEFINE f == P!Frame(send, "failure", {})
  <1>1. /\ Quiet(c2s) /\ ~Working /\ cpc # "done" /\ Same
        /\ s2c \in Seq(SFrames) /\ Lists(s2c, Unresolved) /\ Carries(s2c, P!LayersOf(cend))
        /\ (Says(s2c, "success") => authed) /\ (Says(s2c, "result") => bound)
    BY DEF NInv, Taking, Layered, Silent, SGivesUp, TypeOK, Knowing
  <1>2. f \in SFrames /\ f.kind = "failure" /\ f.layers = P!LayersOf(cend)
    BY <1>1, FrameOfServer
  <1>3. s2c' = Append(s2c, f)
    BY DEF SGivesUp
  <1>. HIDE DEF f
  <1>4. s2c' \in Seq(SFrames)
    BY <1>1, <1>2, <1>3, Added
  <1>5. Lists(s2c', Unresolved) /\ Carries(s2c', P!LayersOf(cend))
        /\ \A x : Says(s2c', x) => Says(s2c, x) \/ x = "failure"
    BY <1>1, <1>2, <1>3, AddedSpeaks
  <1>6. /\ UNCHANGED <<world, client, c2s, handled, authed, bound>>
        /\ send'.tls = send.tls /\ send'.comp = send.comp /\ send'.spent = send.spent
        /\ ~Opening' /\ ~Authing' /\ ~Offering'
    BY DEF SGivesUp
  <1>7. TypeOK' /\ Knowing' /\ Compressing'
    <2>1. Unresolved' = Unresolved
      BY <1>6 DEF Unresolved
    <2>. QED
      BY <1>1, <1>4, <1>5, <1>6, <2>1, AddingServer
  <1>8. Quiet(c2s')
    BY <1>1, <1>6
  <1>9. Taking'
    BY <1>1, <1>6, <1>8, AddingServer DEF Taking
  <1>10. Answering'
    BY <1>1, <1>6, AddingServer DEF Answering
  <1>11. Layered'
    BY <1>1, <1>5, <1>6, AddingServer DEF Layered
  <1>. QED
    BY <1>7, <1>9, <1>10, <1>11 DEF NInv

-----------------------------------------------------------------------------
(* Every step of the server is one of these. *)

\* What the operations of an end leave alone.
LEMMA EndKept ==
    ASSUME NEW e \in P!Ends
    PROVE  /\ P!AfterRead(e).tls = e.tls /\ P!AfterRead(e).comp = e.comp
           /\ P!AfterRead(e).spent => e.comp # "off"
           /\ P!Closed(P!AfterRead(e)).tls = e.tls /\ P!Closed(P!AfterRead(e)).comp = e.comp
           /\ P!Closed(P!AfterRead(e)).spent => e.comp # "off"
           /\ P!StartTLS(P!AfterRead(e)).tls = TRUE /\ P!StartTLS(P!AfterRead(e)).comp = e.comp
           /\ P!StartTLS(P!AfterRead(e)).spent => e.comp # "off"
           /\ P!StartCompress(P!AfterRead(e)).tls = e.tls
           /\ P!StartCompress(P!AfterRead(e)).comp = IF e.tls THEN "tls" ELSE "raw"
           /\ P!StartCompress(P!AfterRead(e)).spent => e.comp # "off"
           /\ P!Opened(e).tls = e.tls /\ P!Opened(e).comp = e.comp /\ P!Opened(e).spent = e.spent
           /\ P!Closed(e).tls = e.tls /\ P!Closed(e).comp = e.comp /\ P!Closed(e).spent = e.spent
           /\ P!TimedOut(e).tls = e.tls /\ P!TimedOut(e).comp = e.comp
           /\ P!TimedOut(e).spent = e.spent
  <1>1. /\ P!AfterRead(e) \in P!Ends
        /\ P!AfterRead(e).tls = e.tls /\ P!AfterRead(e).comp = e.comp
        /\ P!AfterRead(e).spent => e.comp # "off"
    BY DEF P!Ends, P!AfterRead
  <1>2. ASSUME NEW x \in P!Ends
        PROVE  P!Closed(x).tls = x.tls /\ P!Closed(x).comp = x.comp /\ P!Closed(x).spent = x.spent
    BY <1>2 DEF P!Ends, P!ChannelStates, P!Closed
  <1>3. ASSUME NEW x \in P!Ends
        PROVE  /\ P!StartTLS(x).tls = TRUE /\ P!StartTLS(x).comp = x.comp
               /\ P!StartTLS(x).spent = x.spent
               /\ P!StartCompress(x).tls = x.tls /\ P!StartCompress(x).spent = x.spent
               /\ P!StartCompress(x).comp = IF x.tls THEN "tls" ELSE "raw"
               /\ P!Opened(x).tls = x.tls /\ P!Opened(x).comp = x.comp
               /\ P!Opened(x).spent = x.spent
               /\ P!TimedOut(x).tls = x.tls /\ P!TimedOut(x).comp = x.comp
               /\ P!TimedOut(x).spent = x.spent
    BY <1>3 DEF P!Ends, P!StartTLS, P!StartCompress, P!Opened, P!TimedOut
  <1>. QED
    BY <1>1, <1>2, <1>3

\* Close writes a closing tag or nothing (XChannel.Close).
LEMMA ServerSaysGoodbye ==
    ASSUME NInv
    PROVE  Fewer(s2c, P!CloseOut(send, s2c), SFrames)
  <1>1. send \in P!Ends
    BY DEF NInv, P!IInv, P!TypeOK
  <1>2. P!Frame(send, "end", {}) \in SFrames /\ P!Frame(send, "end", {}).kind = "end"
    BY <1>1 DEF P!Frame, SFrames, P!LayersOf, P!Layerings, P!Ends
  <1>. QED
    BY <1>2 DEF Fewer, P!CloseOut, P!Sent, P!Listed

\* One goroutine at most is where the client could notice.
LEMMA OneAtWork ==
    ASSUME NInv, NEW l \in Level, spc[l] \in P!Busy
    PROVE  /\ spc \in [Level -> P!PCs]
           /\ \A m \in Level : m # l => spc[m] \notin P!Busy
           /\ Opening <=> spc[l] = "open"
           /\ Offering <=> spc[l] = "offer"
           /\ Authing <=> spc[l] \in {"auth", "authing"}
  <1>1. spc \in [Level -> P!PCs] /\ P!Stack /\ Level = P!Level /\ Level \subseteq Nat
    BY Vocabulary DEF NInv, P!IInv, P!TypeOK, P!Level
  <1>2. ASSUME NEW m \in Level, m # l PROVE spc[m] \notin P!Busy
    <2>1. CASE m < l
      BY <1>1, <2>1 DEF P!Stack, P!Busy, P!Asking, P!Blocked
    <2>2. CASE l < m
      BY <1>1, <2>2 DEF P!Stack, P!Busy, P!Asking, P!Blocked
    <2>. QED
      BY <1>1, <1>2, <2>1, <2>2
  <1>3. {"open", "offer", "auth", "authing"} \subseteq P!Busy
    BY DEF P!Busy, P!Asking, P!Blocked
  <1>. QED
    BY <1>1, <1>2, <1>3 DEF Opening, Offering, Authing

\* At most one goroutine works: where it goes is where the server goes.
LEMMA WorkGoesOn ==
    ASSUME NInv, NEW l \in Level, spc[l] \in P!Busy, NEW p, P!Goto(l, p)
    PROVE  /\ Opening' <=> p = "open"
           /\ Offering' <=> p = "offer"
           /\ Authing' <=> p \in {"auth", "authing"}
  <1>1. /\ spc \in [Level -> P!PCs]
        /\ \A m \in Level : m # l => spc[m] \notin P!Busy
    BY OneAtWork
  <1>2. spc' = [spc EXCEPT ![l] = p]
    BY DEF P!Goto
  <1>3. spc'[l] = p /\ \A m \in Level : m # l => spc'[m] = spc[m]
    BY <1>1, <1>2
  <1>4. {"open", "offer", "auth", "authing"} \subseteq P!Busy
    BY DEF P!Busy, P!Asking, P!Blocked
  <1>5. Level' = Level
    BY DEF Level, S!Level
  <1>. QED
    BY <1>1, <1>3, <1>4, <1>5 DEF Opening, Offering, Authing

\* next(), up to handleFeatures: the server rests, or opens a stream.
LEMMA ReaderShape ==
    ASSUME NInv, UNCHANGED <<world, client>>, NEW l \in Level, P!Reads(l)
    PROVE  SRests
  <1>. USE DEF P!Busy, P!Asking, P!Blocked, P!Receives, P!Arrives, P!OnError, P!wire, P!feature
  <1>1. send \in P!Ends /\ (send.spent => send.comp # "off")
    BY DEF NInv, P!IInv, P!TypeOK, Compressing
  <1>2. Fewer(s2c, s2c, SFrames) /\ Fewer(s2c, P!CloseOut(send, s2c), SFrames)
    BY ServerSaysGoodbye DEF Fewer
  <1>3. CASE P!Ask(l)
    <2>1. PICK p : P!Goto(l, p) /\ p \in {"reading", "headering", "authing"}
                   /\ (p = "authing" => spc[l] = "auth")
      BY <1>3 DEF P!Ask
    <2>2. spc[l] \in P!Busy
      BY <1>3 DEF P!Ask
    <2>. QED
      BY <1>1, <1>2, <1>3, <2>1, <2>2, OneAtWork, WorkGoesOn DEF P!Ask, SRests
  <1>4. CASE P!AskClosed(l)
    BY <1>1, <1>2, <1>4, OneAtWork, WorkGoesOn DEF P!AskClosed, SRests
  <1>5. CASE P!Skip(l)
    <2>1. spc[l] \in {"reading", "headering"} /\ \E p \in {"read", "header"} : P!Goto(l, p)
      BY <1>5 DEF P!Skip
    <2>2. ~Opening' /\ ~Offering' /\ ~Authing'
      BY <2>1, WorkGoesOn
    <2>3. send' = P!AfterRead(send) /\ c2s # <<>> /\ c2s' = Tail(c2s)
          /\ UNCHANGED <<s2c, handled, authed, bound>>
      BY <1>5 DEF P!Skip
    <2>. QED
      BY <1>1, <1>2, <2>2, <2>3, EndKept DEF SRests
  <1>6. CASE P!HeaderExpected(l)
    <2>1. spc[l] = "headering" /\ P!Goto(l, "raise")
          /\ send' = P!AfterRead(send) /\ c2s # <<>> /\ c2s' = Tail(c2s)
          /\ UNCHANGED <<s2c, handled, authed, bound>>
      BY <1>6 DEF P!HeaderExpected
    <2>2. ~Opening' /\ ~Offering' /\ ~Authing'
      BY <2>1, WorkGoesOn
    <2>. QED
      BY <1>1, <1>2, <2>1, <2>2, EndKept DEF SRests
  <1>7. CASE P!PeerCloses(l)
    <2>1. spc[l] \in {"reading", "headering"} /\ \E p \in {"raise", "quit"} : P!Goto(l, p)
      BY <1>7 DEF P!PeerCloses
    <2>2. ~Opening' /\ ~Offering' /\ ~Authing'
      BY <2>1, WorkGoesOn
    <2>3. /\ send' = P!Closed(P!AfterRead(send)) /\ s2c' = P!CloseOut(send, s2c)
          /\ c2s # <<>> /\ c2s' = Tail(c2s)
          /\ UNCHANGED <<handled, authed, bound>>
      BY <1>7 DEF P!PeerCloses
    <2>. QED
      BY <1>1, <1>2, <2>2, <2>3, EndKept DEF SRests
  <1>8. CASE P!ReadFails(l)
    BY <1>1, <1>2, <1>8, WorkGoesOn DEF P!ReadFails, SRests
  <1>9. CASE P!OpenHeader(l)
    <2>1. spc[l] \in {"reading", "headering"}
          /\ \/ P!Goto(l, "open") /\ Head(c2s).kind = "header"
             \/ P!Goto(l, "raise")
      BY <1>9 DEF P!OpenHeader
    <2>2. (Opening' => Head(c2s).kind = "header") /\ ~Offering' /\ ~Authing'
      BY <2>1, WorkGoesOn
    <2>3. send' = P!AfterRead(send) /\ c2s # <<>> /\ c2s' = Tail(c2s)
          /\ UNCHANGED <<s2c, handled, authed, bound>>
      BY <1>9 DEF P!OpenHeader
    <2>. QED
      BY <1>1, <1>2, <2>2, <2>3, EndKept DEF SRests
  <1>. QED
    BY <1>3, <1>4, <1>5, <1>6, <1>7, <1>8, <1>9 DEF P!Reads

\* handleFeatures: Open, and then the list, or the end of it.
LEMMA OffersShape ==
    ASSUME NInv, UNCHANGED <<world, client>>, NEW l \in Level, P!HandlesFeatures(l)
    PROVE  SRests \/ SOpens \/ SLists
  <1>. USE DEF P!Busy, P!Asking, P!Blocked, P!feature
  <1>1. send \in P!Ends /\ (send.spent => send.comp # "off") /\ spc \in [Level -> P!PCs]
        /\ Level = P!Level
    BY Vocabulary DEF NInv, P!IInv, P!TypeOK, Compressing
  <1>2. Fewer(s2c, s2c, SFrames) /\ Level' = Level
    BY DEF Fewer, Level, S!Level
  <1>3. CASE P!Open(l)
    <2>1. spc[l] = "open" /\ (P!Goto(l, "offer") \/ P!Goto(l, "raise"))
          /\ send' = P!Opened(send) /\ s2c' = P!OpenOut(send, s2c)
          /\ UNCHANGED <<c2s, handled, authed, bound>>
      BY <1>3 DEF P!Open
    <2>2. Opening /\ ~Opening' /\ ~Authing'
      BY <2>1, OneAtWork, WorkGoesOn
    <2>3. /\ P!Opened(send).state = "opened" /\ P!Opened(send).up = send.up
          /\ P!LayersOf(P!Opened(send)) = P!LayersOf(send)
      BY <1>1 DEF P!Opened, P!Ends, P!LayersOf
    <2>4. CASE send.up
      <3>1. s2c' = Append(Append(s2c, P!Frame(send, "procinst", {})), P!Frame(send, "header", {}))
        BY <2>1, <2>3, <2>4 DEF P!OpenOut, P!Sent, P!Listed, P!CanSend, P!Frame
      <3>. QED
        BY <1>1, <2>1, <2>2, <3>1, EndKept DEF SOpens
    <2>5. CASE ~send.up
      <3>1. s2c' = s2c
        BY <2>1, <2>3, <2>5 DEF P!OpenOut, P!Sent, P!Listed, P!CanSend
      <3>. QED
        BY <1>1, <1>2, <2>1, <2>2, <2>5, <3>1, EndKept DEF SRests
    <2>. QED
      BY <2>4, <2>5
  <1>4. CASE P!OfferMandatory(l) \/ P!OfferVoluntary(l)
    <2>1. spc[l] = "offer" /\ UNCHANGED <<send, c2s, handled, authed, bound>>
          /\ s2c' = IF P!CanSend(send) THEN Append(s2c, P!Frame(send, "features", Unresolved))
                    ELSE s2c
      BY <1>4 DEF P!OfferMandatory, P!OfferVoluntary, P!Announce, P!Listed, P!Unresolved,
           Unresolved
    <2>2. Offering /\ ~Opening' /\ ~Offering' /\ ~Authing'
      <3>1. Offering
        BY <2>1, OneAtWork
      <3>2. ASSUME NEW p \in {"read", "raise"}, P!Goto(l, p)
            PROVE  ~Opening' /\ ~Offering' /\ ~Authing'
        BY <2>1, <3>2, WorkGoesOn
      <3>3. ASSUME spc' = [spc EXCEPT ![l] = "wait", ![l + 1] = "read"]
            PROVE  ~Opening' /\ ~Offering' /\ ~Authing'
        <4>1. \A m \in Level : m # l => spc[m] \notin P!Busy
          BY <2>1, OneAtWork
        <4>2. \A m \in Level : spc'[m] \notin {"open", "offer", "auth", "authing"}
          BY <1>1, <3>3, <4>1
        <4>. QED
          BY <4>2, <1>2 DEF Opening, Offering, Authing
      <3>. QED
        BY <1>4, <3>1, <3>2, <3>3 DEF P!OfferMandatory, P!OfferVoluntary
    <2>3. CASE P!CanSend(send)
      BY <2>1, <2>2, <2>3 DEF SLists
    <2>4. CASE ~P!CanSend(send)
      BY <1>1, <1>2, <2>1, <2>2, <2>4 DEF SRests
    <2>. QED
      BY <2>3, <2>4
  <1>. QED
    BY <1>3, <1>4 DEF P!HandlesFeatures

\* A handler, or what follows the response below one, takes k and answers r; the
\* goroutine goes on somewhere, or panics.
Handles(l, k, r, sends) ==
    /\ UNCHANGED <<world, client>>
    /\ <<k, r>> \in Answers
    /\ c2s # <<>> /\ Head(c2s).kind = k /\ c2s' = Tail(c2s)
    /\ s2c' = IF sends THEN Append(s2c, P!Frame(send, r, {})) ELSE s2c
    /\ \/ send' = P!AfterRead(send) /\ r # "proceed" /\ ~(sends /\ r = "compressed")
       \/ send' = P!StartTLS(P!AfterRead(send)) /\ r = "proceed"
       \/ send' = P!StartCompress(P!AfterRead(send)) /\ r = "compressed" /\ sends
    /\ handled' = handled \cup Used(k)
    /\ (authed => authed') /\ (sends /\ r = "success" => authed')
    /\ authed' => authed \/ r = "success"
    /\ (bound => bound') /\ (r = "result" => bound')
    /\ spc[l] \in {"reading", "authing"}
    /\ \/ \E p \in {"read", "ok", "nag"} : P!Goto(l, p)
       \/ P!Goto(l, "auth") /\ k = "scram"
       \/ spc' = spc /\ spc[l] = "reading"

\* The feature handlers: a reply, an upgrade, or the end of the feature.
LEMMA HandlersReply ==
    ASSUME NInv, NEW l \in Level, NEW k, NEW r, NEW sends \in BOOLEAN, Handles(l, k, r, sends)
    PROVE  SReplies(k, r, sends)
  <1>1. send \in P!Ends
    BY DEF NInv, P!IInv, P!TypeOK
  <1>2. spc[l] \in P!Busy
    BY DEF Handles, P!Busy, P!Blocked
  <1>3. ~Opening' /\ ~Offering' /\ (Authing' => k = "scram")
    <2>1. CASE spc' = spc /\ spc[l] = "reading"
      <3>1. ~Opening /\ ~Offering /\ ~Authing
        BY <1>2, <2>1, OneAtWork
      <3>. QED
        BY <2>1, <3>1 DEF Opening, Offering, Authing, Level, S!Level
    <2>2. CASE \E p \in {"read", "ok", "nag"} : P!Goto(l, p)
      BY <1>2, <2>2, WorkGoesOn
    <2>3. CASE k = "scram" /\ P!Goto(l, "auth")
      BY <1>2, <2>3, WorkGoesOn
    <2>. QED
      BY <2>1, <2>2, <2>3 DEF Handles
  <1>4. /\ send'.tls = IF r = "proceed" THEN TRUE ELSE send.tls
        /\ send'.comp = IF sends /\ r = "compressed" THEN IF send.tls THEN "tls" ELSE "raw"
                        ELSE send.comp
        /\ send'.spent => send.comp # "off"
    <2>1. CASE send' = P!AfterRead(send) /\ r # "proceed" /\ ~(sends /\ r = "compressed")
      BY <1>1, <2>1, EndKept
    <2>2. CASE send' = P!StartTLS(P!AfterRead(send)) /\ r = "proceed"
      BY <1>1, <2>2, EndKept
    <2>3. CASE send' = P!StartCompress(P!AfterRead(send)) /\ r = "compressed" /\ sends
      BY <1>1, <2>3, EndKept
    <2>. QED
      BY <2>1, <2>2, <2>3 DEF Handles
  <1>. QED
    BY <1>3, <1>4 DEF SReplies, Handles

\* The handlers, and what follows the response below one of them.
LEMMA HandlersShape ==
    ASSUME NInv, UNCHANGED <<world, client>>, NEW l \in Level, P!HandlesElement(l)
    PROVE  SRests \/ SGivesUp \/ \E k, r : \E sends \in BOOLEAN : SReplies(k, r, sends)
  <1>. DEFINE can == P!CanSend(send)
              Some == \E k, r : \E sends \in BOOLEAN : SReplies(k, r, sends)
  <1>0. can \in BOOLEAN /\ (can <=> send.state # "closed" /\ send.up) /\ send \in P!Ends
    BY DEF P!CanSend, NInv, P!IInv, P!TypeOK, P!Ends
  <1>1. ASSUME NEW k, NEW r, NEW sends \in BOOLEAN, Handles(l, k, r, sends)
        PROVE  Some
    BY <1>1, HandlersReply
  <1>2. c2s # <<>> => Head(c2s).kind \notin {"plain", "auth-garbled", "compress-bad", "broken"}
    BY HeadFromClient DEF CFrames
  <1>. HIDE DEF can, Some
  <1>. USE DEF P!Receives, P!Arrives, P!Takes, P!Caught, P!wire, P!feature, P!Sent, P!Listed,
               Handles, Answers, Used, can
  <1>3. CASE P!HandleStartTLS(l)
    <2>1. Handles(l, "starttls", "failure", can) \/ Handles(l, "starttls", "proceed", can)
      BY <1>0, <1>3 DEF P!HandleStartTLS
    <2>. QED
      BY <2>1, <1>0, <1>1 DEF Some
  <1>4. CASE P!HandlePlain(l)
    <2>1. Handles(l, "auth-bad", "failure", can)
      BY <1>0, <1>2, <1>4 DEF P!HandlePlain
    <2>. QED
      BY <2>1, <1>0, <1>1 DEF Some
  <1>5. CASE P!HandleScram(l)
    <2>1. Handles(l, "scram", "challenge", can)
      BY <1>0, <1>5 DEF P!HandleScram
    <2>. QED
      BY <2>1, <1>0, <1>1 DEF Some
  <1>6. CASE P!HandlerPanics(l)
    <2>1. Handles(l, "scram", "challenge", FALSE) \/ Handles(l, "bind", "broken", FALSE)
      BY <1>0, <1>2, <1>6 DEF P!HandlerPanics
    <2>. QED
      BY <2>1, <1>0, <1>1 DEF Some
  <1>7. CASE P!HandleCompress(l)
    <2>1. Handles(l, "compress", "compressed", can)
      BY <1>0, <1>2, <1>7 DEF P!HandleCompress
    <2>. QED
      BY <2>1, <1>0, <1>1 DEF Some
  <1>8. CASE P!HandleBind(l)
    <2>1. Handles(l, "bind", "broken", can) \/ Handles(l, "bind", "result", can)
      BY <1>0, <1>8 DEF P!HandleBind
    <2>. QED
      BY <2>1, <1>0, <1>1 DEF Some
  <1>9. CASE P!Responded(l)
    <2>1. Handles(l, "response", "success", can)
      BY <1>0, <1>9 DEF P!Responded
    <2>. QED
      BY <2>1, <1>0, <1>1 DEF Some
  <1>10. CASE P!NotResponded(l)
    <2>1. /\ spc[l] = "authing" /\ P!Goto(l, P!Caught(l)) /\ UNCHANGED <<handled, authed, bound>>
          /\ s2c' = IF can THEN Append(s2c, P!Frame(send, "failure", {})) ELSE s2c
      BY <1>10 DEF P!NotResponded
    <2>2. Authing /\ ~Opening' /\ ~Offering' /\ ~Authing'
      BY <2>1, OneAtWork, WorkGoesOn DEF P!Busy, P!Blocked
    <2>3. CASE \E k \in P!Kinds \ {"response", "end"} : P!Receives(l, {"authing"}, k) /\ send' = P!AfterRead(send)
      <3>1. c2s # <<>> /\ Head(c2s).kind \in {"response-bad"} /\ c2s' = Tail(c2s)
        BY <2>2, <2>3, HeadFromClient
      <3>2. Handles(l, "response-bad", "failure", can)
        BY <1>0, <2>1, <2>3, <3>1
      <3>. QED
        BY <3>2, <1>0, <1>1 DEF Some
    <2>4. CASE P!Breaks(send, c2s, ~cend.up) /\ UNCHANGED <<send, c2s>>
      <3>1. CASE ~can
        <4>1. Fewer(s2c, s2c', SFrames)
          BY <2>1, <3>1 DEF Fewer
        <4>2. send.spent => send.comp # "off"
          BY DEF NInv, Compressing
        <4>. QED
          BY <2>1, <2>2, <2>4, <4>1, <4>2 DEF SRests
      <3>2. CASE can
        <4>1. ~send.spent /\ send.up
          BY <1>0, <2>2, <3>2 DEF NInv, Compressing
        <4>2. ASSUME c2s # <<>>, Head(c2s).layers # P!LayersOf(send)
              PROVE  Head(c2s).kind = "end"
          <5>1. c2s \in Seq(CFrames) /\ Carries(c2s, P!LayersOf(send))
            BY DEF NInv, TypeOK, Layered
          <5>. QED
            BY <4>2, <5>1, FirstSpeaks
        <4>3. CASE c2s = <<>>
          <5>1. Quiet(c2s)
            BY <4>3 DEF Quiet, Speaks
          <5>2. ~cend.up
            BY <2>4, <4>1, <4>3 DEF P!Breaks
          <5>. QED
            BY <2>1, <2>2, <2>4, <3>2, <5>1, <5>2 DEF SGivesUp, NInv, Answering
        <4>4. CASE c2s # <<>>
          <5>1. Head(c2s).kind = "end"
            BY <1>2, <2>4, <4>1, <4>2, <4>4 DEF P!Breaks
          <5>2. Quiet(c2s) /\ Says(c2s, "end")
            BY <4>4, <5>1, HeadFromClient
          <5>. QED
            BY <2>1, <2>2, <2>4, <3>2, <5>2 DEF SGivesUp, NInv, Answering
        <4>. QED
          BY <4>3, <4>4
      <3>. QED
        BY <3>1, <3>2
    <2>. QED
      BY <1>10, <2>3, <2>4 DEF P!NotResponded
  <1>11. CASE P!ResponsePanics(l)
    <2>1. spc' = spc /\ UNCHANGED <<handled, authed, bound>>
      BY <1>11 DEF P!ResponsePanics
    <2>2. (Opening' => Opening) /\ (Offering' => Offering) /\ (Authing' => Authing)
      BY <2>1 DEF Opening, Offering, Authing, Level, S!Level
    <2>3. send.spent => send.comp # "off"
      BY DEF NInv, Compressing
    <2>4. /\ send'.tls = send.tls /\ send'.comp = send.comp
          /\ send'.spent => send.comp # "off"
          /\ c2s' = c2s \/ (c2s # <<>> /\ c2s' = Tail(c2s))
          /\ s2c' = s2c \/ s2c' = P!CloseOut(send, s2c)
      <3>1. /\ send' = send \/ send' = P!AfterRead(send) \/ send' = P!Closed(P!AfterRead(send))
            /\ c2s' = c2s \/ (c2s # <<>> /\ c2s' = Tail(c2s))
            /\ s2c' = s2c \/ s2c' = P!CloseOut(send, s2c)
        BY <1>11 DEF P!ResponsePanics
      <3>2. CASE send' = send
        BY <2>3, <3>1, <3>2
      <3>3. CASE send' = P!AfterRead(send)
        BY <1>0, <3>1, <3>3, EndKept
      <3>4. CASE send' = P!Closed(P!AfterRead(send))
        BY <1>0, <3>1, <3>4, EndKept
      <3>. QED
        BY <3>1, <3>2, <3>3, <3>4
    <2>5. Fewer(s2c, s2c', SFrames)
      BY <2>4, ServerSaysGoodbye DEF Fewer
    <2>. QED
      BY <2>1, <2>2, <2>4, <2>5 DEF SRests
  <1>. QED
    BY <1>3, <1>4, <1>5, <1>6, <1>7, <1>8, <1>9, <1>10, <1>11 DEF P!HandlesElement, Some

\* A verdict moves nobody who answers the client.
LEMMA ReportsShape ==
    ASSUME NInv, UNCHANGED <<world, client>>, NEW l \in Level, P!Reports(l)
    PROVE  SRests
  <1>1. /\ spc \in [Level -> P!PCs] /\ Level' = Level /\ (send.spent => send.comp # "off")
    BY Vocabulary DEF NInv, P!IInv, P!TypeOK, Compressing, Level, S!Level
  <1>2. /\ UNCHANGED <<send, c2s, s2c, handled, authed, bound>>
        /\ \E p, q \in {"read", "idle", "header", "raise"} :
               \/ spc' = [spc EXCEPT ![l] = p]
               \/ spc' = [spc EXCEPT ![l] = p, ![l - 1] = q]
    BY DEF P!Reports, P!Nag, P!Raise, P!Limit, P!Ended, P!Tells, P!Goto, P!wire, P!feature
  <1>3. \A m \in Level : spc'[m] = spc[m] \/ spc'[m] \notin {"open", "offer", "auth", "authing"}
    BY <1>1, <1>2
  <1>4. (Opening' => Opening) /\ (Offering' => Offering) /\ (Authing' => Authing)
    BY <1>1, <1>3 DEF Opening, Offering, Authing
  <1>. QED
    BY <1>1, <1>2, <1>4 DEF SRests, Fewer

\* Nor does the application, a timer or a connection that fails.
LEMMA OthersShape ==
    ASSUME NInv, UNCHANGED <<world, client>>, P!Stops \/ P!Stop \/ P!Timer \/ P!ConnFails
    PROVE  SRests
  <1>. USE DEF P!wire, P!feature, P!stopper
  <1>1. send \in P!Ends /\ (send.spent => send.comp # "off")
    BY DEF NInv, P!IInv, P!TypeOK, Compressing
  <1>2. spc' = spc /\ c2s' = c2s /\ UNCHANGED <<handled, authed, bound>>
    BY DEF P!Stops, P!StopClose, P!StopEnd, P!Stop, P!Timer, P!ConnFails
  <1>3. (Opening' => Opening) /\ (Offering' => Offering) /\ (Authing' => Authing)
    BY <1>2 DEF Opening, Offering, Authing, Level, S!Level
  <1>4. s2c' = s2c \/ s2c' = P!CloseOut(send, s2c)
    BY DEF P!Stops, P!StopClose, P!StopEnd, P!Stop, P!Timer, P!ConnFails
  <1>5. Fewer(s2c, s2c', SFrames)
    BY <1>4, ServerSaysGoodbye DEF Fewer
  <1>6. send' \in {send, P!Closed(send), P!TimedOut(send), [send EXCEPT !.up = FALSE],
                   [send EXCEPT !.state = "closed", !.timer = TRUE]}
    BY DEF P!Stops, P!StopClose, P!StopEnd, P!Stop, P!Timer, P!ConnFails
  <1>7. send'.tls = send.tls /\ send'.comp = send.comp /\ send'.spent = send.spent
    <2>1. ASSUME NEW e \in P!Ends
          PROVE  /\ [e EXCEPT !.up = FALSE].tls = e.tls /\ [e EXCEPT !.up = FALSE].comp = e.comp
                 /\ [e EXCEPT !.up = FALSE].spent = e.spent
                 /\ [e EXCEPT !.state = "closed", !.timer = TRUE].tls = e.tls
                 /\ [e EXCEPT !.state = "closed", !.timer = TRUE].comp = e.comp
                 /\ [e EXCEPT !.state = "closed", !.timer = TRUE].spent = e.spent
      BY DEF P!Ends
    <2>2. /\ P!Closed(send).tls = send.tls /\ P!Closed(send).comp = send.comp
          /\ P!Closed(send).spent = send.spent
          /\ P!TimedOut(send).tls = send.tls /\ P!TimedOut(send).comp = send.comp
          /\ P!TimedOut(send).spent = send.spent
      BY <1>1, EndKept
    <2>3. CASE send' = send
      BY <2>3
    <2>4. CASE send' = P!Closed(send)
      BY <2>2, <2>4
    <2>5. CASE send' = P!TimedOut(send)
      BY <2>2, <2>5
    <2>6. CASE send' = [send EXCEPT !.up = FALSE]
      BY <1>1, <2>1, <2>6
    <2>7. CASE send' = [send EXCEPT !.state = "closed", !.timer = TRUE]
      BY <1>1, <2>1, <2>7
    <2>. QED
      BY <1>6, <2>3, <2>4, <2>5, <2>6, <2>7
  <1>. QED
    BY <1>1, <1>2, <1>3, <1>5, <1>7 DEF SRests

\* Every step of the server keeps NInv.
LEMMA ServerKeepsInv ==
    ASSUME NInv, NEW w \in Worlds, ServerDoes(w, S(w)!ServerNext)
    PROVE  NInv'
  <1>1. P!IInv' /\ P!ServerNext
    BY ServerKeepsIInv DEF NInv
  <1>2. UNCHANGED <<world, client>>
    BY DEF ServerDoes
  <1>3. CASE \E l \in P!Level : P!Step(l)
    <2>1. PICK l \in P!Level : P!Step(l)
      BY <1>3
    <2>2. l \in Level
      BY <2>1, Vocabulary
    <2>3. \/ SRests \/ SOpens \/ SLists \/ SGivesUp
          \/ \E k, r : \E sends \in BOOLEAN : SReplies(k, r, sends)
      BY <1>2, <2>1, <2>2, ReaderShape, OffersShape, HandlersShape, ReportsShape DEF P!Step
    <2>. QED
      BY <1>1, <2>3, RestingServer, OpeningServer, ListingServer, GivingUpServer, ReplyingServer
  <1>4. CASE P!Stops \/ P!Stop \/ P!Timer \/ P!ConnFails
    BY <1>1, <1>2, <1>4, OthersShape, RestingServer
  <1>. QED
    BY <1>1, <1>3, <1>4 DEF P!ServerNext

-----------------------------------------------------------------------------
(* Steps of the client, as the server can tell them apart. *)

\* The server stands where it stood.
LEMMA ServerStands ==
    ASSUME UNCHANGED server
    PROVE  /\ UNCHANGED <<send, spc, handlers, handled, offered, authed, bound, squit, stop, app,
                          crashed>>
           /\ (Opening' <=> Opening) /\ (Offering' <=> Offering) /\ (Authing' <=> Authing)
           /\ P!LayersOf(send') = P!LayersOf(send) /\ Unresolved' = Unresolved
  BY DEF server, Opening, Offering, Authing, Level, S!Level, Unresolved

\* To the server a client is a peer like any other: its own invariant does not
\* depend on what arrives.
LEMMA ClientKeepsIInv ==
    ASSUME NInv, UNCHANGED server, TypeOK'
    PROVE  P!IInv'
  <1>1. c2s' \in Seq(P!FromPeer)
    <2>1. CFrames \subseteq P!FromPeer
      BY DEF CFrames, P!FromPeer, P!Kinds, P!Elements, P!AuthKinds, P!CompressKinds
    <2>2. c2s' \in Seq(CFrames)
      BY DEF TypeOK
    <2>. QED
      BY <2>1, <2>2
  <1>2. (~cend.up)' \in BOOLEAN
    OBVIOUS
  <1>3. P!TypeOK'
    BY <1>1, <1>2, ServerStands DEF NInv, P!IInv, P!TypeOK
  <1>4. P!Stack' /\ P!Served' /\ P!Verdicts'
    BY ServerStands DEF NInv, P!IInv, P!Stack, P!Served, P!Verdicts, P!Level, P!Unresolved
  <1>. QED
    BY <1>3, <1>4 DEF P!IInv

\* It negotiates no more, and writes nothing but its closing tag.
CRests ==
    /\ UNCHANGED <<world, server>>
    /\ cend' \in P!Ends /\ cend'.tls = cend.tls /\ cend'.comp = cend.comp
    /\ s2c' = s2c \/ (s2c # <<>> /\ s2c' = Tail(s2c))
    /\ Fewer(c2s, c2s', CFrames)
    /\ left' \subseteq left
    /\ \/ cpc' \in {"failed", "running", "stopped"}
       \/ cpc = "done" /\ cpc' = "done"

\* A client that rests keeps NInv: it waits for nothing any more.
LEMMA RestingClient ==
    ASSUME NInv, CRests
    PROVE  NInv'
  <1>1. /\ world' = world /\ UNCHANGED server
        /\ cend' \in P!Ends /\ cend'.tls = cend.tls /\ cend'.comp = cend.comp
        /\ left' \subseteq left
        /\ Gone' \/ (cpc = "done" /\ cpc' = "done")
        /\ ~Working'
    BY DEF CRests, Gone, Working
  <1>2. Fewer(c2s, c2s', CFrames) /\ Fewer(s2c, s2c', SFrames)
    BY DEF CRests, Fewer
  <1>3. TypeOK'
    BY <1>1, <1>2, LessFromClient, LessFromServer DEF NInv, TypeOK, CRests
  <1>4. P!IInv'
    BY <1>1, <1>3, ClientKeepsIInv
  <1>5. Taking'
    <2>1. /\ Quiet(c2s) \/ (Quiet(s2c) /\ ~Opening /\ ~Offering)
          /\ Opening => Quiet(s2c)
          /\ cpc = "done" => Silent
      BY DEF NInv, Taking
    <2>2. cpc' = "done" => Silent'
      BY <2>1, <1>1, <1>2, ServerStands, LessFromClient DEF Silent, Gone
    <2>. QED
      BY <2>1, <2>2, <1>1, <1>2, ServerStands, LessFromClient, LessFromServer DEF Taking
  <1>6. Answering'
    BY <1>1 DEF Answering
  <1>7. Layered'
    <2>1. P!LayersOf(cend') = P!LayersOf(cend)
      BY <1>1 DEF P!LayersOf
    <2>2. Carries(c2s', P!LayersOf(send')) /\ Carries(s2c', P!LayersOf(cend'))
      BY <2>1, <1>1, <1>2, ServerStands, LessFromClient, LessFromServer
    <2>3. Same' <=> Same
      BY <1>1, ServerStands DEF Same
    <2>4. Silent => Silent'
      BY <1>1, <1>2, ServerStands, LessFromClient DEF Silent
    <2>5. cpc' = "done" => Same'
      BY <2>3, <1>1 DEF NInv, Layered, Gone
    <2>. QED
      BY <2>2, <2>3, <2>4, <2>5, <1>1 DEF NInv, Layered
  <1>8. Compressing'
    <2>1. cpc' # "compress"
      BY <1>1 DEF Gone
    <2>. QED
      BY <2>1, <1>1, <1>2, ServerStands, LessFromClient DEF NInv, Compressing
  <1>9. Knowing'
    <2>1. /\ Lists(s2c', Unresolved')
          /\ (Says(s2c', "success") => authed') /\ (Says(s2c', "result") => bound')
      BY <1>1, <1>2, ServerStands, LessFromServer DEF NInv, Knowing
    <2>2. Negotiated'
      <3>1. CASE Gone'
        BY <3>1 DEF Gone, Negotiated
      <3>2. CASE cpc = "done" /\ cpc' = "done"
        BY <3>2, <1>1, ServerStands, NegotiatedKept DEF NInv, Knowing
      <3>. QED
        BY <3>1, <3>2, <1>1
    <2>3. world' = "rejected" => ~authed' /\ ~Says(c2s', "response")
      BY <1>1, <1>2, ServerStands, LessFromClient DEF NInv, Knowing
    <2>4. cpc' # "choose" /\ (~Gone' => cpc = "done" /\ cpc' = "done")
      BY <1>1 DEF Gone
    <2>. QED
      BY <2>1, <2>2, <2>3, <2>4, <1>1, ServerStands DEF NInv, Knowing, Gone
  <1>. QED
    BY <1>3, <1>4, <1>5, <1>6, <1>7, <1>8, <1>9 DEF NInv

\* It reads the server's header,
CAwaits ==
    /\ UNCHANGED <<world, server, c2s, left>>
    /\ cend' \in P!Ends /\ cend'.tls = cend.tls /\ cend'.comp = cend.comp
    /\ cend'.state = cend.state /\ cend'.up = cend.up /\ cend'.timer = cend.timer
    /\ cpc = "header" /\ s2c # <<>> /\ s2c' = Tail(s2c)
    /\ \/ Head(s2c).kind = "procinst" /\ cpc' = "header"
       \/ Head(s2c).kind = "header" /\ cpc' = "features"

\* the list of the features that are left,
CLearns ==
    /\ UNCHANGED <<world, server, c2s>>
    /\ cend' \in P!Ends /\ cend'.tls = cend.tls /\ cend'.comp = cend.comp
    /\ cend'.state = cend.state /\ cend'.up = cend.up /\ cend'.timer = cend.timer
    /\ cpc = "features" /\ s2c # <<>> /\ s2c' = Tail(s2c)
    /\ Head(s2c).kind = "features" /\ left' = Head(s2c).feats
    /\ cpc' = IF left' = {} THEN "done" ELSE "choose"

\* passes over a feature it does not support and need not have,
CPasses ==
    /\ UNCHANGED <<world, server, c2s, s2c, cend>>
    /\ cpc = "choose"
    /\ \E f : f \notin Supported \cup {"starttls", "sasl"} /\ left' = left \ {f}
    /\ cpc' = IF left' = {} THEN "done" ELSE "choose"

\* A client that reads a header keeps NInv: a list comes next.
LEMMA AwaitingClient ==
    ASSUME NInv, CAwaits
    PROVE  NInv'
  <1>. DEFINE k == Head(s2c).kind
  <1>1. /\ world' = world /\ c2s' = c2s /\ left' = left /\ UNCHANGED server
        /\ cend' \in P!Ends /\ cend'.tls = cend.tls /\ cend'.comp = cend.comp
        /\ cend'.state = cend.state /\ cend'.up = cend.up /\ cend'.timer = cend.timer
        /\ cpc = "header" /\ s2c # <<>> /\ s2c' = Tail(s2c)
        /\ (k = "procinst" /\ cpc' = "header") \/ (k = "header" /\ cpc' = "features")
    BY DEF CAwaits
  <1>2. Working /\ Working'
    BY <1>1 DEF Working, Gone
  <1>3. /\ Quiet(c2s) /\ ~Opening /\ ~Authing
        /\ k = "header" => Speaks(s2c', {"features"})
    BY <1>1, <1>2, HeadFromServer
  <1>4. Fewer(c2s, c2s', CFrames) /\ Fewer(s2c, s2c', SFrames)
    BY <1>1 DEF Fewer
  <1>5. TypeOK'
    BY <1>1, <1>4, LessFromServer DEF NInv, TypeOK
  <1>6. P!IInv'
    BY <1>1, <1>5, ClientKeepsIInv
  <1>7. Taking'
    <2>1. Quiet(c2s') /\ Turns(c2s', {<<"procinst", "header">>}) /\ EndsLast(c2s')
      BY <1>1, <1>3 DEF NInv, Taking
    <2>. QED
      BY <2>1, <1>1, <1>3, <1>4, ServerStands, LessFromServer DEF Taking
  <1>8. Answering'
    <2>1. /\ ~Says(c2s', "end")
          /\ Offering => cpc \in {"header", "features"}
          /\ cend'.state # "closed" /\ cend'.up /\ ~cend'.timer
      BY <1>1, <1>2 DEF NInv, Answering
    <2>2. Speaks(c2s', Requests')
      BY <1>1, <1>3, QuietSpeaks
    <2>3. Speaks(s2c', Replies')
      <3>1. CASE k = "procinst" /\ cpc' = "header"
        BY <3>1, <1>1, <1>2, <1>4, LessFromServer DEF Replies
      <3>2. CASE k = "header" /\ cpc' = "features"
        BY <3>2, <1>3 DEF Replies
      <3>. QED
        BY <1>1, <3>1, <3>2
    <2>. QED
      BY <2>1, <2>2, <2>3, <1>1, <1>2, <1>3, <1>4, ServerStands, LessFromServer DEF Answering
  <1>9. Layered'
    <2>1. P!LayersOf(cend') = P!LayersOf(cend)
      BY <1>1 DEF P!LayersOf
    <2>2. Same /\ (Same' <=> Same) /\ (TlsAhead' <=> TlsAhead) /\ (CompAhead' <=> CompAhead)
      BY <1>1, <1>2, ServerStands DEF NInv, Layered, Same, TlsAhead, CompAhead
    <2>3. Carries(c2s', P!LayersOf(send')) /\ Carries(s2c', P!LayersOf(cend'))
      BY <2>1, <1>1, <1>4, ServerStands, LessFromServer DEF NInv, Layered
    <2>. QED
      BY <2>2, <2>3, <1>1, <1>2, <1>4, LessFromServer DEF NInv, Layered
  <1>10. Compressing'
    BY <1>1, ServerStands DEF NInv, Compressing
  <1>11. Knowing'
    <2>1. /\ Lists(s2c', Unresolved')
          /\ (Says(s2c', "success") => authed') /\ (Says(s2c', "result") => bound')
      BY <1>1, <1>4, ServerStands, LessFromServer DEF NInv, Knowing
    <2>2. Negotiated' /\ cpc' # "choose" /\ ~Gone
      BY <1>1 DEF Negotiated, Gone
    <2>. QED
      BY <2>1, <2>2, <1>1, ServerStands DEF NInv, Knowing
  <1>. QED
    BY <1>5, <1>6, <1>7, <1>8, <1>9, <1>10, <1>11 DEF NInv

\* What both have when the client is done: the server handled all it listed.
LEMMA DoneMeans ==
    ASSUME NInv, ~Gone, cpc \notin {"challenge", "verdict", "bind"}, Same, UNCHANGED server,
           Unresolved \cap ({"starttls", "sasl"} \cup Supported) = {},
           cend'.tls = cend.tls, cend'.comp = cend.comp
    PROVE  Negotiated'
  <1>1. /\ "sasl" \in handled => authed
        /\ "bind" \in handled => bound
    BY DEF NInv, Knowing
  <1>2. ClientLayers' = ServerLayers'
    BY ServerStands DEF Same, ClientLayers, ServerLayers, C!LayersOf, S!LayersOf
  <1>3. Features \cap {"starttls", "sasl"} \subseteq handled /\ Supported \cap Features \subseteq handled
    BY DEF Unresolved
  <1>. QED
    BY <1>1, <1>2, <1>3, ServerStands DEF Negotiated, Mandatory, S!Mandatory

\* A client that reads a list, or passes over a feature, keeps NInv: what is left
\* of the list is what the server has not handled, and when nothing is left the two agree.
LEMMA LearningClient ==
    ASSUME NInv, CLearns \/ CPasses
    PROVE  NInv'
  <1>1. /\ world' = world /\ c2s' = c2s /\ UNCHANGED server
        /\ cend' \in P!Ends /\ cend'.tls = cend.tls /\ cend'.comp = cend.comp
        /\ cend'.state = cend.state /\ cend'.up = cend.up /\ cend'.timer = cend.timer
        /\ cpc \in {"features", "choose"} /\ cpc' = IF left' = {} THEN "done" ELSE "choose"
    BY DEF CLearns, CPasses, NInv, TypeOK
  <1>2. Working /\ ~Gone /\ ~Gone' /\ Same
    BY <1>1 DEF Working, Gone, NInv, Layered
  <1>3. /\ Quiet(c2s) /\ ~Opening /\ ~Authing /\ ~Offering /\ Quiet(s2c')
        /\ Fewer(s2c, s2c', SFrames)
        /\ left' \subseteq Unresolved
        /\ Unresolved \cap ({"starttls", "sasl"} \cup Supported) \subseteq left'
    <2>1. CASE CLearns
      <3>1. s2c # <<>> /\ s2c' = Tail(s2c) /\ Head(s2c).kind = "features" /\ left' = Head(s2c).feats
        BY <2>1 DEF CLearns
      <3>. QED
        BY <3>1, <1>2, HeadFromServer DEF Fewer
    <2>2. CASE CPasses
      <3>1. cpc = "choose" /\ s2c' = s2c /\ left \subseteq Unresolved
            /\ Unresolved \cap ({"starttls", "sasl"} \cup Supported) \subseteq left
        BY <2>2 DEF CPasses, NInv, Knowing
      <3>2. Requests = {} /\ Replies = {}
        BY <3>1 DEF Requests, Replies
      <3>3. Quiet(c2s) /\ ~Opening /\ ~Authing /\ ~Offering /\ Quiet(s2c)
        BY <3>1, <3>2, <1>2 DEF NInv, Answering, Quiet
      <3>4. PICK f : f \notin Supported \cup {"starttls", "sasl"} /\ left' = left \ {f}
        BY <2>2 DEF CPasses
      <3>. QED
        BY <3>1, <3>3, <3>4 DEF Fewer
    <2>. QED
      BY <2>1, <2>2
  <1>4. TypeOK'
    BY <1>1, <1>3, LessFromServer DEF NInv, TypeOK, Unresolved
  <1>5. P!IInv'
    BY <1>1, <1>4, ClientKeepsIInv
  <1>6. Taking'
    <2>1. Quiet(c2s') /\ Turns(c2s', {<<"procinst", "header">>}) /\ EndsLast(c2s')
      BY <1>1, <1>3 DEF NInv, Taking
    <2>. QED
      BY <2>1, <1>3, <1>1, ServerStands DEF Taking, Silent
  <1>7. Answering'
    <2>1. /\ ~Says(c2s', "end")
          /\ cend'.state # "closed" /\ cend'.up /\ ~cend'.timer
      BY <1>1, <1>2 DEF NInv, Answering
    <2>2. Speaks(c2s', Requests') /\ Speaks(s2c', Replies')
      BY <1>1, <1>3, QuietSpeaks
    <2>3. Turns(s2c', {<<"procinst", "header">>, <<"procinst", "features">>, <<"header", "features">>})
      BY <1>2, <1>3, LessFromServer
    <2>. QED
      BY <2>1, <2>2, <2>3, <1>1, <1>3, ServerStands DEF Answering
  <1>8. Layered'
    <2>1. P!LayersOf(cend') = P!LayersOf(cend)
      BY <1>1 DEF P!LayersOf
    <2>2. Same'
      BY <1>1, <1>2, ServerStands DEF Same
    <2>3. Carries(c2s', P!LayersOf(send')) /\ Carries(s2c', P!LayersOf(cend'))
      BY <2>1, <1>1, <1>3, ServerStands, LessFromServer DEF NInv, Layered
    <2>4. ~Says(s2c', "proceed") /\ ~Says(s2c', "compressed")
      BY <1>3, QuietSpeaks
    <2>. QED
      BY <2>2, <2>3, <2>4 DEF Layered
  <1>9. Compressing'
    BY <1>1, ServerStands DEF NInv, Compressing
  <1>10. Knowing'
    <2>1. /\ Lists(s2c', Unresolved')
          /\ (Says(s2c', "success") => authed') /\ (Says(s2c', "result") => bound')
      BY <1>1, <1>3, ServerStands, LessFromServer DEF NInv, Knowing
    <2>2. CASE left' = {}
      <3>1. Negotiated'
        BY <2>2, <1>1, <1>2, <1>3, DoneMeans
      <3>. QED
        BY <3>1, <2>1, <2>2, <1>1, <1>2, ServerStands DEF NInv, Knowing
    <2>3. CASE left' # {}
      <3>1. Negotiated'
        BY <2>3, <1>1 DEF Negotiated
      <3>. QED
        BY <3>1, <2>1, <2>3, <1>1, <1>2, <1>3, ServerStands DEF NInv, Knowing
    <2>. QED
      BY <2>2, <2>3
  <1>. QED
    BY <1>4, <1>5, <1>6, <1>7, <1>8, <1>9, <1>10 DEF NInv

-----------------------------------------------------------------------------

\* It asks for a feature,
CAsks(k, await) ==
    /\ UNCHANGED <<world, server, s2c, cend>>
    /\ cpc = "choose" /\ cpc' = await /\ left' \subseteq left
    /\ <<k, await>> \in {<<"starttls", "tls">>, <<"scram", "challenge">>,
                         <<"auth-bad", "challenge">>, <<"bind", "bind">>,
                         <<"compress", "compress">>}
    /\ k = "scram" => "sasl" \in left
    /\ k = "compress" => left \cap {"starttls", "sasl"} = {}
    /\ c2s' = Append(c2s, P!Frame(cend, k, {}))

\* responds to a challenge,
CResponds(k) ==
    /\ UNCHANGED <<world, server, left>>
    /\ cend' \in P!Ends /\ cend'.tls = cend.tls /\ cend'.comp = cend.comp
    /\ cend'.state = cend.state /\ cend'.up = cend.up /\ cend'.timer = cend.timer
    /\ cpc = "challenge" /\ cpc' = "verdict"
    /\ s2c # <<>> /\ s2c' = Tail(s2c) /\ Head(s2c).kind = "challenge"
    /\ k \in {"response", "response-bad"} /\ (world = "rejected" => k = "response-bad")
    /\ c2s' = Append(c2s, P!Frame(cend, k, {}))

\* or opens a stream, the first or the next after a feature.
CReopens ==
    /\ UNCHANGED <<world, server, left>>
    /\ cend' \in P!Ends /\ cend'.state = "opened" /\ cend'.up = cend.up /\ cend'.timer = cend.timer
    /\ cpc' = "header"
    /\ c2s' = Append(Append(c2s, P!Frame(cend', "procinst", {})), P!Frame(cend', "header", {}))
    /\ cend'.tls = IF cpc = "tls" THEN TRUE ELSE cend.tls
    /\ cend'.comp = IF cpc = "compress" THEN IF cend.tls THEN "tls" ELSE "raw" ELSE cend.comp
    /\ \/ cpc = "start" /\ s2c' = s2c
       \/ /\ s2c # <<>> /\ s2c' = Tail(s2c)
          /\ <<cpc, Head(s2c).kind>> \in {<<"tls", "proceed">>, <<"verdict", "success">>,
                                          <<"bind", "result">>, <<"compress", "compressed">>}

\* What has been written when the client asks for something, nothing being
\* under way.
LEMMA AskedByClient ==
    ASSUME NInv, Working, Quiet(c2s), NEW e \in P!Ends,
           NEW k \in {"starttls", "scram", "auth-bad", "response", "response-bad", "bind",
                      "compress", "procinst"},
           NEW q, q = Append(c2s, P!Frame(e, k, {}))
    PROVE  /\ q \in Seq(CFrames) /\ EndsLast(q) /\ ~Says(q, "end")
           /\ Speaks(q, {k}) /\ Turns(q, {<<"procinst", "header">>})
           /\ \A x : Says(q, x) => x \in {k, "end"}
           /\ Carries(q, P!LayersOf(e))
  <1>. DEFINE f == P!Frame(e, k, {})
  <1>1. f \in CFrames /\ f.kind = k /\ f.layers = P!LayersOf(e)
    <2>1. P!Frame(e, k, {}) = [kind |-> k, feats |-> {}, layers |-> P!LayersOf(e)]
      BY DEF P!Frame
    <2>2. P!LayersOf(e) \in P!Layerings
      BY DEF P!LayersOf, P!Layerings, P!Ends
    <2>. QED
      BY <2>1, <2>2 DEF CFrames
  <1>2. c2s \in Seq(CFrames) /\ ~Says(c2s, "end")
    BY DEF NInv, TypeOK, Answering
  <1>. HIDE DEF f
  <1>3. /\ Append(c2s, f) \in Seq(CFrames)
        /\ Speaks(Append(c2s, f), {f.kind})
        /\ \A pairs : Turns(Append(c2s, f), pairs)
        /\ \A x : Says(Append(c2s, f), x) => x \in {f.kind, "end"}
        /\ Carries(Append(c2s, f), f.layers)
    BY <1>1, <1>2, QuietAdded
  <1>4. EndsLast(Append(c2s, f)) /\ (Says(Append(c2s, f), "end") => "end" = f.kind)
    BY <1>1, <1>2, AddedSpeaks
  <1>5. q = Append(c2s, f)
    BY DEF f
  <1>. QED
    BY <1>1, <1>3, <1>4, <1>5

\* A client that asks keeps NInv: nothing was under way.
LEMMA AskingClient ==
    ASSUME NInv, NEW k, NEW await, CAsks(k, await)
    PROVE  NInv'
  <1>1. /\ world' = world /\ s2c' = s2c /\ cend' = cend /\ UNCHANGED server
        /\ cpc = "choose" /\ cpc' = await /\ left' \subseteq left
        /\ <<k, await>> \in {<<"starttls", "tls">>, <<"scram", "challenge">>,
                             <<"auth-bad", "challenge">>, <<"bind", "bind">>,
                             <<"compress", "compress">>}
    BY DEF CAsks
  <1>2. Working /\ Working' /\ ~Gone /\ ~Gone' /\ Same /\ cend \in P!Ends
    BY <1>1 DEF Working, Gone, NInv, Layered, TypeOK
  <1>3. Quiet(c2s) /\ ~Opening /\ ~Authing /\ ~Offering /\ Quiet(s2c)
    <2>1. Requests = {} /\ Replies = {}
      BY <1>1 DEF Requests, Replies
    <2>. QED
      BY <2>1, <1>1, <1>2 DEF NInv, Answering, Quiet
  <1>4. /\ c2s' \in Seq(CFrames) /\ EndsLast(c2s') /\ ~Says(c2s', "end")
        /\ Speaks(c2s', {k}) /\ Turns(c2s', {<<"procinst", "header">>})
        /\ \A x : Says(c2s', x) => x \in {k, "end"}
        /\ Carries(c2s', P!LayersOf(cend))
    <2>1. k \in {"starttls", "scram", "auth-bad", "response", "response-bad", "bind",
                 "compress", "procinst"}
      BY <1>1
    <2>2. c2s' = Append(c2s, P!Frame(cend, k, {}))
      BY DEF CAsks
    <2>. QED
      BY <2>1, <2>2, <1>2, <1>3, AskedByClient
  <1>5. TypeOK'
    BY <1>1, <1>4 DEF NInv, TypeOK
  <1>6. P!IInv'
    BY <1>1, <1>5, ClientKeepsIInv
  <1>7. Quiet(s2c')
    BY <1>1, <1>3
  <1>8. Taking'
    BY <1>1, <1>3, <1>4, <1>7, ServerStands DEF Taking
  <1>9. Answering'
    <2>1. k \in Requests'
      BY <1>1 DEF Requests
    <2>2. Speaks(c2s', Requests')
      BY <2>1, <1>4 DEF Speaks
    <2>3. cend'.state # "closed" /\ cend'.up /\ ~cend'.timer
      BY <1>1, <1>2 DEF NInv, Answering
    <2>4. Speaks(s2c', Replies')
          /\ Turns(s2c', {<<"procinst", "header">>, <<"procinst", "features">>, <<"header", "features">>})
      BY <1>1, <1>3, <1>5, <1>7, QuietSpeaks, QuietTurns DEF TypeOK
    <2>. QED
      BY <2>2, <2>3, <2>4, <1>1, <1>3, <1>4, ServerStands DEF Answering
  <1>10. Layered'
    <2>1. Same' /\ P!LayersOf(send') = P!LayersOf(cend) /\ P!LayersOf(cend') = P!LayersOf(cend)
      BY <1>1, <1>2, ServerStands DEF Same, P!LayersOf
    <2>2. Carries(s2c', P!LayersOf(cend'))
      BY <1>1 DEF NInv, Layered
    <2>3. ~Says(s2c', "proceed") /\ ~Says(s2c', "compressed")
      BY <1>7, QuietSpeaks
    <2>. QED
      BY <2>1, <2>2, <2>3, <1>4 DEF Layered
  <1>11. Compressing'
    <2>1. left \subseteq Unresolved /\ Unresolved \cap ({"starttls", "sasl"} \cup Supported) \subseteq left
      BY <1>1 DEF NInv, Knowing
    <2>2. k = "compress" => Unresolved \cap {"starttls", "sasl"} = {}
      BY <2>1 DEF CAsks
    <2>3. Says(c2s', "compress") \/ cpc' = "compress" => k = "compress"
      BY <1>1, <1>4
    <2>4. Says(c2s', "scram") => send.comp = "off"
      <3>1. k = "scram" => "sasl" \in Unresolved
        BY <2>1 DEF CAsks
      <3>. QED
        BY <3>1, <1>4 DEF NInv, Compressing
    <2>. QED
      BY <2>2, <2>3, <2>4, <1>1, <1>3, ServerStands DEF NInv, Compressing
  <1>12. Knowing'
    <2>1. /\ Lists(s2c', Unresolved')
          /\ (Says(s2c', "success") => authed') /\ (Says(s2c', "result") => bound')
      BY <1>1, ServerStands DEF NInv, Knowing
    <2>2. Negotiated' /\ cpc' # "choose" /\ ~Says(c2s', "response")
      BY <1>1, <1>4 DEF Negotiated
    <2>. QED
      BY <2>1, <2>2, <1>1, <1>2, ServerStands DEF NInv, Knowing
  <1>. QED
    BY <1>5, <1>6, <1>8, <1>9, <1>10, <1>11, <1>12 DEF NInv

\* A client that responds keeps NInv: nothing was under way but the challenge.
LEMMA RespondingClient ==
    ASSUME NInv, NEW k, CResponds(k)
    PROVE  NInv'
  <1>1. /\ world' = world /\ left' = left /\ UNCHANGED server
        /\ cend' \in P!Ends /\ cend'.tls = cend.tls /\ cend'.comp = cend.comp
        /\ cend'.state = cend.state /\ cend'.up = cend.up /\ cend'.timer = cend.timer
        /\ cpc = "challenge" /\ cpc' = "verdict"
        /\ s2c # <<>> /\ s2c' = Tail(s2c) /\ Head(s2c).kind = "challenge"
        /\ k \in {"response", "response-bad"} /\ (world = "rejected" => k = "response-bad")
    BY DEF CResponds
  <1>2. Working /\ Working' /\ ~Gone /\ ~Gone' /\ Same /\ cend \in P!Ends
    BY <1>1 DEF Working, Gone, NInv, Layered, TypeOK
  <1>3. /\ Quiet(c2s) /\ ~Opening /\ ~Offering /\ Quiet(s2c')
        /\ Fewer(s2c, s2c', SFrames)
    BY <1>1, <1>2, HeadFromServer DEF Fewer
  <1>4. /\ c2s' \in Seq(CFrames) /\ EndsLast(c2s') /\ ~Says(c2s', "end")
        /\ Speaks(c2s', {k}) /\ Turns(c2s', {<<"procinst", "header">>})
        /\ \A x : Says(c2s', x) => x \in {k, "end"}
        /\ Carries(c2s', P!LayersOf(cend))
    <2>1. k \in {"starttls", "scram", "auth-bad", "response", "response-bad", "bind",
                 "compress", "procinst"}
      BY <1>1
    <2>2. c2s' = Append(c2s, P!Frame(cend, k, {}))
      BY DEF CResponds
    <2>. QED
      BY <2>1, <2>2, <1>2, <1>3, AskedByClient
  <1>5. TypeOK'
    BY <1>1, <1>3, <1>4, LessFromServer DEF NInv, TypeOK
  <1>6. P!IInv'
    BY <1>1, <1>5, ClientKeepsIInv
  <1>7. Speaks(c2s', {"response", "response-bad"}) /\ Speaks(s2c', {"challenge"})
    BY <1>1, <1>3, <1>4, QuietSpeaks DEF Speaks
  <1>8. Taking'
    BY <1>1, <1>3, <1>4, <1>7, ServerStands DEF Taking
  <1>9. Answering'
    <2>1. Speaks(c2s', Requests')
      BY <1>1, <1>7 DEF Requests
    <2>2. cend'.state # "closed" /\ cend'.up /\ ~cend'.timer
      BY <1>1, <1>2 DEF NInv, Answering
    <2>3. Speaks(s2c', Replies')
          /\ Turns(s2c', {<<"procinst", "header">>, <<"procinst", "features">>, <<"header", "features">>})
      BY <1>2, <1>3, LessFromServer, QuietSpeaks
    <2>. QED
      BY <2>1, <2>2, <2>3, <1>1, <1>3, <1>4, ServerStands DEF Answering
  <1>10. Layered'
    <2>1. Same' /\ P!LayersOf(send') = P!LayersOf(cend) /\ P!LayersOf(cend') = P!LayersOf(cend)
      BY <1>1, <1>2, ServerStands DEF Same, P!LayersOf
    <2>2. Carries(s2c', P!LayersOf(cend'))
      BY <2>1, <1>3, LessFromServer
    <2>3. ~Says(s2c', "proceed") /\ ~Says(s2c', "compressed")
      BY <1>3, QuietSpeaks
    <2>. QED
      BY <2>1, <2>2, <2>3, <1>1, <1>4 DEF Layered
  <1>11. Compressing'
    <2>1. ~Says(c2s', "compress") /\ ~Says(c2s', "scram")
      BY <1>1, <1>4
    <2>. QED
      BY <2>1, <1>1, ServerStands DEF NInv, Compressing
  <1>12. Knowing'
    <2>1. /\ Lists(s2c', Unresolved')
          /\ (Says(s2c', "success") => authed') /\ (Says(s2c', "result") => bound')
      BY <1>1, <1>3, ServerStands, LessFromServer DEF NInv, Knowing
    <2>2. Negotiated' /\ (world = "rejected" => ~Says(c2s', "response"))
      BY <1>1, <1>4 DEF Negotiated
    <2>. QED
      BY <2>1, <2>2, <1>1, <1>2, ServerStands DEF NInv, Knowing
  <1>. QED
    BY <1>5, <1>6, <1>8, <1>9, <1>10, <1>11, <1>12 DEF NInv

\* A client that opens a stream keeps NInv: its end has caught up with the server's.
LEMMA ReopeningClient ==
    ASSUME NInv, CReopens
    PROVE  NInv'
  <1>1. /\ world' = world /\ left' = left /\ UNCHANGED server
        /\ cend' \in P!Ends /\ cend'.state = "opened"
        /\ cend'.up = cend.up /\ cend'.timer = cend.timer
        /\ cpc' = "header" /\ cpc \in {"start", "tls", "verdict", "bind", "compress"}
    BY DEF CReopens
  <1>2. Working /\ Working' /\ ~Gone /\ ~Gone'
    BY <1>1 DEF Working, Gone
  <1>3. /\ Quiet(c2s) /\ ~Opening /\ ~Offering /\ ~Authing /\ Quiet(s2c')
        /\ Fewer(s2c, s2c', SFrames)
    <2>1. CASE cpc = "start" /\ s2c' = s2c
      <3>1. Requests = {} /\ Replies = {}
        BY <2>1 DEF Requests, Replies
      <3>. QED
        BY <2>1, <3>1, <1>2 DEF NInv, Answering, Quiet, Fewer
    <2>2. CASE /\ s2c # <<>> /\ s2c' = Tail(s2c)
               /\ <<cpc, Head(s2c).kind>> \in {<<"tls", "proceed">>, <<"verdict", "success">>,
                                               <<"bind", "result">>, <<"compress", "compressed">>}
      BY <2>2, <1>2, HeadFromServer DEF Fewer
    <2>. QED
      BY <2>1, <2>2 DEF CReopens
  <1>4. /\ Same'
        /\ cpc = "verdict" => authed
        /\ cpc = "bind" => bound
    <2>1. cpc = "tls" => Says(s2c, "proceed")
      BY HeadFromServer DEF CReopens
    <2>2. cpc = "compress" => Says(s2c, "compressed")
      BY HeadFromServer DEF CReopens
    <2>3. cpc = "verdict" => Says(s2c, "success")
      BY HeadFromServer DEF CReopens
    <2>4. cpc = "bind" => Says(s2c, "result")
      BY HeadFromServer DEF CReopens
    <2>5. CASE cpc = "tls"
      <3>1. TlsAhead
        BY <2>1, <2>5, <1>2 DEF NInv, Layered
      <3>2. send' = send /\ cend'.tls = TRUE /\ cend'.comp = cend.comp
        BY <2>5, <1>1, ServerStands DEF CReopens
      <3>3. send \in P!Ends
        BY DEF NInv, P!IInv, P!TypeOK
      <3>. QED
        BY <2>5, <3>1, <3>2, <3>3 DEF TlsAhead, Same, P!Ends
    <2>6. CASE cpc = "compress"
      <3>1. CompAhead
        BY <2>2, <2>6, <1>2 DEF NInv, Layered
      <3>2. send' = send /\ cend'.tls = cend.tls /\ cend'.comp = IF cend.tls THEN "tls" ELSE "raw"
        BY <2>6, <1>1, ServerStands DEF CReopens
      <3>. QED
        BY <2>6, <3>1, <3>2 DEF CompAhead, Same
    <2>7. CASE cpc \notin {"tls", "compress"}
      <3>1. Same
        BY <2>7, <1>2 DEF NInv, Layered
      <3>2. send' = send /\ cend'.tls = cend.tls /\ cend'.comp = cend.comp
        BY <2>7, <1>1, ServerStands DEF CReopens
      <3>3. Same'
        BY <3>1, <3>2 DEF Same
      <3>. QED
        BY <3>3, <2>3, <2>4 DEF NInv, Knowing
    <2>. QED
      BY <2>5, <2>6, <2>7
  <1>5. /\ c2s' \in Seq(CFrames) /\ EndsLast(c2s') /\ ~Says(c2s', "end")
        /\ Speaks(c2s', {"procinst", "header"}) /\ Turns(c2s', {<<"procinst", "header">>})
        /\ \A x : Says(c2s', x) => x \in {"procinst", "header", "end"}
        /\ Carries(c2s', P!LayersOf(cend'))
    <2>. DEFINE q == Append(c2s, P!Frame(cend', "procinst", {}))
                g == P!Frame(cend', "header", {})
    <2>1. /\ q \in Seq(CFrames) /\ EndsLast(q) /\ ~Says(q, "end")
          /\ Speaks(q, {"procinst"}) /\ Turns(q, {<<"procinst", "header">>})
          /\ \A x : Says(q, x) => x \in {"procinst", "end"}
          /\ Carries(q, P!LayersOf(cend'))
      BY <1>1, <1>2, <1>3, AskedByClient
    <2>2. g \in CFrames /\ g.kind = "header" /\ g.layers = P!LayersOf(cend')
      <3>1. g = [kind |-> "header", feats |-> {}, layers |-> P!LayersOf(cend')]
        BY DEF P!Frame
      <3>2. P!LayersOf(cend') \in P!Layerings
        BY <1>1 DEF P!LayersOf, P!Layerings, P!Ends
      <3>. QED
        BY <3>1, <3>2 DEF CFrames
    <2>3. c2s' = Append(q, g)
      BY DEF CReopens
    <2>. HIDE DEF q, g
    <2>4. Append(q, g) \in Seq(CFrames)
      BY <2>1, <2>2, Added
    <2>5. Speaks(q, {"procinst", "header"})
      BY <2>1 DEF Speaks
    <2>6. /\ Speaks(Append(q, g), {"procinst", "header"})
          /\ Carries(Append(q, g), P!LayersOf(cend'))
          /\ \A x : Says(Append(q, g), x) => x \in {"procinst", "header", "end"}
      BY <2>1, <2>2, <2>5, AddedSpeaks
    <2>7. EndsLast(Append(q, g)) /\ ~Says(Append(q, g), "end")
      BY <2>1, <2>2, AddedSpeaks
    <2>8. Turns(Append(q, g), {<<"procinst", "header">>})
      <3>1. \A x \in {"procinst"} : <<x, g.kind>> \in {<<"procinst", "header">>}
        BY <2>2
      <3>. QED
        BY <2>1, <2>2, <3>1, AddedTurns
    <2>. QED
      BY <2>3, <2>4, <2>6, <2>7, <2>8
  <1>6. TypeOK'
    BY <1>1, <1>3, <1>5, LessFromServer DEF NInv, TypeOK
  <1>7. P!IInv'
    BY <1>1, <1>6, ClientKeepsIInv
  <1>8. Taking'
    BY <1>1, <1>3, <1>5, ServerStands DEF Taking
  <1>9. Answering'
    <2>1. Speaks(c2s', Requests')
      BY <1>1, <1>5 DEF Requests
    <2>2. cend'.state # "closed" /\ cend'.up /\ ~cend'.timer
      BY <1>1, <1>2 DEF NInv, Answering
    <2>3. Speaks(s2c', Replies')
          /\ Turns(s2c', {<<"procinst", "header">>, <<"procinst", "features">>, <<"header", "features">>})
      BY <1>2, <1>3, LessFromServer, QuietSpeaks
    <2>. QED
      BY <2>1, <2>2, <2>3, <1>1, <1>3, <1>5, ServerStands DEF Answering
  <1>10. Layered'
    <2>1. P!LayersOf(send') = P!LayersOf(cend')
      BY <1>4 DEF Same, P!LayersOf
    <2>2. Carries(s2c', P!LayersOf(cend'))
      BY <1>3 DEF Quiet, Speaks, Carries
    <2>3. ~Says(s2c', "proceed") /\ ~Says(s2c', "compressed")
      BY <1>3, QuietSpeaks
    <2>. QED
      BY <2>1, <2>2, <2>3, <1>4, <1>5 DEF Layered
  <1>11. Compressing'
    <2>1. ~Says(c2s', "compress") /\ ~Says(c2s', "scram")
      BY <1>5
    <2>. QED
      BY <2>1, <1>1, <1>3, ServerStands DEF NInv, Compressing
  <1>12. Knowing'
    <2>1. /\ Lists(s2c', Unresolved')
          /\ (Says(s2c', "success") => authed') /\ (Says(s2c', "result") => bound')
      BY <1>1, <1>3, ServerStands, LessFromServer DEF NInv, Knowing
    <2>2. Negotiated' /\ ~Says(c2s', "response")
      BY <1>1, <1>5 DEF Negotiated
    <2>3. ("sasl" \in handled => authed) /\ ("bind" \in handled => bound)
      BY <1>1, <1>2, <1>4 DEF NInv, Knowing
    <2>. QED
      BY <2>1, <2>2, <2>3, <1>1, <1>2, ServerStands DEF NInv, Knowing
  <1>. QED
    BY <1>6, <1>7, <1>8, <1>9, <1>10, <1>11, <1>12 DEF NInv

-----------------------------------------------------------------------------
(* Every step of the client is one of these. *)

\* What an operation on the end leaves alone.
Still(e, f) ==
    /\ f \in P!Ends
    /\ f.tls = e.tls /\ f.comp = e.comp
    /\ f.state = e.state /\ f.up = e.up /\ f.timer = e.timer

\* Reading, closing and timing out touch neither layer.
LEMMA EndOfClient ==
    ASSUME NEW w \in Worlds, NEW e \in P!Ends
    PROVE  /\ Still(e, C(w)!AfterRead(e))
           /\ C(w)!Closed(e) \in P!Ends /\ C(w)!Closed(e).tls = e.tls /\ C(w)!Closed(e).comp = e.comp
           /\ C(w)!TimedOut(e) \in P!Ends
           /\ C(w)!TimedOut(e).tls = e.tls /\ C(w)!TimedOut(e).comp = e.comp
  <1>1. Still(e, C(w)!AfterRead(e))
    BY DEF Still, C!AfterRead, P!Ends
  <1>2. C(w)!Closed(e) \in P!Ends /\ C(w)!Closed(e).tls = e.tls /\ C(w)!Closed(e).comp = e.comp
    BY DEF C!Closed, P!Ends, P!ChannelStates
  <1>3. /\ C(w)!TimedOut(e) \in P!Ends
        /\ C(w)!TimedOut(e).tls = e.tls /\ C(w)!TimedOut(e).comp = e.comp
    BY DEF C!TimedOut, P!Ends
  <1>. QED
    BY <1>1, <1>2, <1>3

\* The end after Open, with the layers the feature before it has added.
LEMMA OpenedByClient ==
    ASSUME NEW w \in Worlds, NEW e \in P!Ends
    PROVE  LET f == C(w)!Opened(e) IN
           /\ f \in P!Ends /\ f.state = "opened" /\ f.up = e.up /\ f.timer = e.timer
           /\ f.tls = e.tls /\ f.comp = e.comp
  BY DEF C!Opened, P!Ends, P!ChannelStates

\* StartTLS and StartCompress, of which the second captures what the first left.
LEMMA UpgradedByClient ==
    ASSUME NEW w \in Worlds, NEW e \in P!Ends
    PROVE  /\ LET f == C(w)!StartTLS(e) IN
              f \in P!Ends /\ f.up = e.up /\ f.timer = e.timer /\ f.tls /\ f.comp = e.comp
           /\ LET f == C(w)!StartCompress(e) IN
              /\ f \in P!Ends /\ f.up = e.up /\ f.timer = e.timer /\ f.tls = e.tls
              /\ f.comp = IF e.tls THEN "tls" ELSE "raw"
  <1>1. LET f == C(w)!StartTLS(e) IN
        f \in P!Ends /\ f.up = e.up /\ f.timer = e.timer /\ f.tls /\ f.comp = e.comp
    BY DEF C!StartTLS, P!Ends
  <1>2. LET f == C(w)!StartCompress(e) IN
        /\ f \in P!Ends /\ f.up = e.up /\ f.timer = e.timer /\ f.tls = e.tls
        /\ f.comp = IF e.tls THEN "tls" ELSE "raw"
    BY DEF C!StartCompress, P!Ends, P!Wrapped
  <1>. QED
    BY <1>1, <1>2

\* While the client negotiates, it can write.
LEMMA ClientCanSend ==
    ASSUME NInv, Working, NEW w \in Worlds
    PROVE  /\ cend \in P!Ends /\ C(w)!CanSend(cend) /\ cend.up
           /\ \A e : Still(cend, e) => C(w)!CanSend(e)
           /\ \A k : C(w)!Sent(cend, c2s, k) = Append(c2s, P!Frame(cend, k, {}))
           /\ \A e, k : Still(cend, e) =>
                  C(w)!Sent(cend, c2s, k) = Append(c2s, P!Frame(e, k, {}))
           /\ \A e : e \in P!Ends /\ e.up =>
                  C(w)!OpenOut(e, c2s) =
                      Append(Append(c2s, P!Frame(C(w)!Opened(e), "procinst", {})),
                             P!Frame(C(w)!Opened(e), "header", {}))
  <1>1. cend \in P!Ends /\ cend.up /\ cend.state # "closed"
    BY DEF NInv, TypeOK, Answering
  <1>2. C(w)!CanSend(cend) /\ \A e : Still(cend, e) => C(w)!CanSend(e)
    BY <1>1 DEF C!CanSend, Still
  <1>3. \A k : C(w)!Sent(cend, c2s, k) = Append(c2s, P!Frame(cend, k, {}))
    BY <1>2 DEF C!Sent, C!Listed, C!Frame, P!Frame, C!LayersOf, P!LayersOf
  <1>4. \A e, k : Still(cend, e) => P!Frame(e, k, {}) = P!Frame(cend, k, {})
    BY DEF P!Frame, P!LayersOf, Still
  <1>5. ASSUME NEW e \in P!Ends, e.up
        PROVE  C(w)!OpenOut(e, c2s) =
                   Append(Append(c2s, P!Frame(C(w)!Opened(e), "procinst", {})),
                          P!Frame(C(w)!Opened(e), "header", {}))
    <2>1. C(w)!CanSend(C(w)!Opened(e))
      BY <1>5, OpenedByClient DEF C!CanSend
    <2>. QED
      BY <2>1 DEF C!OpenOut, C!Sent, C!Listed, C!Frame, P!Frame, C!LayersOf, P!LayersOf
  <1>. QED
    BY <1>1, <1>2, <1>3, <1>4, <1>5

\* Close writes a closing tag or nothing.
LEMMA ClientSaysGoodbye ==
    ASSUME NInv, NEW w \in Worlds
    PROVE  Fewer(c2s, C(w)!CloseOut(cend, c2s), CFrames)
  <1>1. cend \in P!Ends
    BY DEF NInv, TypeOK
  <1>2. C(w)!Frame(cend, "end", {}) \in CFrames /\ C(w)!Frame(cend, "end", {}).kind = "end"
    BY <1>1 DEF C!Frame, CFrames, C!LayersOf, P!Layerings, P!Ends
  <1>. QED
    BY <1>2 DEF Fewer, C!CloseOut, C!Sent, C!Listed

\* A stream is opened in an answer, or to start with.
LEMMA ReopensShape ==
    ASSUME NInv, NEW w \in Worlds, world = w, UNCHANGED <<world, server>>,
           C(w)!Start \/ C(w)!Proceed \/ C(w)!Success \/ C(w)!Bound \/ C(w)!Compressed
    PROVE  CReopens
  <1>1. /\ cpc \in {"start", "tls", "verdict", "bind", "compress"}
        /\ cend \in P!Ends
    BY DEF C!Start, C!Proceed, C!Success, C!Bound, C!Compressed, C!Answered, C!Receives, NInv,
         TypeOK
  <1>2. Working /\ cend.up
    BY <1>1 DEF NInv, Answering, Working, Gone
  <1>. DEFINE r == C(w)!AfterRead(cend)
  <1>3. Still(cend, r)
    BY <1>1, EndOfClient
  <1>4. /\ cpc = "start" /\ C(w)!Start => s2c' = s2c /\ C(w)!Reopen(cend)
        /\ cpc # "start" =>
               /\ s2c # <<>> /\ s2c' = Tail(s2c)
               /\ <<cpc, Head(s2c).kind>> \in {<<"tls", "proceed">>, <<"verdict", "success">>,
                                               <<"bind", "result">>, <<"compress", "compressed">>}
    BY DEF C!Start, C!Proceed, C!Success, C!Bound, C!Compressed, C!Answered, C!Receives,
         C!Arrives,
           C!Expected
  <1>5. \E e \in P!Ends :
            /\ C(w)!Reopen(e)
            /\ e.up = cend.up /\ e.timer = cend.timer
            /\ e.tls = IF cpc = "tls" THEN TRUE ELSE cend.tls
            /\ e.comp = IF cpc = "compress" THEN IF cend.tls THEN "tls" ELSE "raw" ELSE cend.comp
    <2>. HIDE DEF r
    <2>1. CASE C(w)!Start
      BY <1>1, <2>1 DEF C!Start
    <2>2. CASE C(w)!Proceed
      <3>1. cpc = "tls" /\ C(w)!Reopen(C(w)!StartTLS(r))
        BY <2>2 DEF C!Proceed, C!Answered, C!Receives, r
      <3>2. PICK e \in P!Ends : /\ e = C(w)!StartTLS(r) /\ e.up = r.up /\ e.timer = r.timer
                               /\ e.tls /\ e.comp = r.comp
        <4>1. r \in P!Ends
          BY <1>3 DEF Still
        <4>2. LET f == C(w)!StartTLS(r) IN
              f \in P!Ends /\ f.up = r.up /\ f.timer = r.timer /\ f.tls /\ f.comp = r.comp
          BY <4>1, UpgradedByClient
        <4>. QED
          BY <4>2
      <3>3. r.up = cend.up /\ r.timer = cend.timer /\ r.tls = cend.tls /\ r.comp = cend.comp
        BY <1>3 DEF Still
      <3>. QED
        BY <3>1, <3>2, <3>3 DEF P!Ends
    <2>3. CASE C(w)!Compressed
      <3>1. cpc = "compress" /\ C(w)!Reopen(C(w)!StartCompress(r))
        BY <2>3 DEF C!Compressed, C!Answered, C!Receives, r
      <3>2. PICK e \in P!Ends : /\ e = C(w)!StartCompress(r) /\ e.up = r.up /\ e.timer = r.timer
                               /\ e.tls = r.tls /\ e.comp = IF r.tls THEN "tls" ELSE "raw"
        <4>1. r \in P!Ends
          BY <1>3 DEF Still
        <4>. QED
          BY <4>1, UpgradedByClient
      <3>3. r.up = cend.up /\ r.timer = cend.timer /\ r.tls = cend.tls /\ r.comp = cend.comp
        BY <1>3 DEF Still
      <3>. QED
        BY <3>1, <3>2, <3>3
    <2>4. CASE C(w)!Success \/ C(w)!Bound
      <3>1. cpc \in {"verdict", "bind"} /\ C(w)!Reopen(r)
        BY <2>4 DEF C!Success, C!Bound, C!Answered, C!Receives, r
      <3>. QED
        BY <3>1, <1>3 DEF Still
    <2>. QED
      BY <2>1, <2>2, <2>3, <2>4
  <1>6. PICK e \in P!Ends :
            /\ C(w)!Reopen(e)
            /\ e.up = cend.up /\ e.timer = cend.timer
            /\ e.tls = IF cpc = "tls" THEN TRUE ELSE cend.tls
            /\ e.comp = IF cpc = "compress" THEN IF cend.tls THEN "tls" ELSE "raw" ELSE cend.comp
    BY <1>5
  <1>7. cend' = C(w)!Opened(e) /\ c2s' = C(w)!OpenOut(e, c2s) /\ cpc' = "header" /\ left' = left
    BY <1>2, <1>6 DEF C!Reopen
  <1>8. /\ cend' \in P!Ends /\ cend'.state = "opened" /\ cend'.up = e.up /\ cend'.timer = e.timer
        /\ cend'.tls = e.tls /\ cend'.comp = e.comp
    BY <1>7, OpenedByClient
  <1>9. c2s' = Append(Append(c2s, P!Frame(cend', "procinst", {})), P!Frame(cend', "header", {}))
    BY <1>2, <1>6, <1>7, ClientCanSend
  <1>10. \/ cpc = "start" /\ s2c' = s2c
         \/ /\ s2c # <<>> /\ s2c' = Tail(s2c)
            /\ <<cpc, Head(s2c).kind>> \in {<<"tls", "proceed">>, <<"verdict", "success">>,
                                            <<"bind", "result">>, <<"compress", "compressed">>}
    BY <1>4 DEF C!Start, C!Proceed, C!Success, C!Bound, C!Compressed, C!Answered, C!Receives
  <1>. QED
    BY <1>6, <1>7, <1>8, <1>9, <1>10 DEF CReopens

\* The first of what is left of a list, which is never empty.
LEMMA ChoosesShape ==
    ASSUME NInv, NEW w \in Worlds, world = w, UNCHANGED <<world, server>>, C(w)!Choose \/ C(w)!PassOver
    PROVE  CRests \/ CPasses \/ \E k, await : CAsks(k, await)
  <1>. DEFINE f == C(w)!Selected
  <1>1. /\ cpc = "choose" /\ left' = left \ {f} /\ s2c' = s2c /\ cend' = cend
    BY DEF C!Choose, C!PassOver
  <1>2. Working /\ cend \in P!Ends
    BY <1>1 DEF Working, Gone, NInv, TypeOK
  <1>3. /\ C(w)!CanSend(cend)
        /\ \A k : C(w)!Sent(cend, c2s, k) = Append(c2s, P!Frame(cend, k, {}))
    BY <1>2, ClientCanSend
  <1>4. left \subseteq {"starttls", "sasl", "compress", "bind"}
    BY ConstantsAssumption DEF NInv, TypeOK
  <1>5. /\ f \in {"starttls", "sasl", "compress", "bind"}
        /\ f = "compress" => left \cap {"starttls", "sasl"} = {}
        /\ f = "sasl" => "sasl" \in left
    BY <1>4 DEF C!Selected
  <1>. HIDE DEF f
  <1>6. ASSUME NEW k, NEW await, C(w)!Request(k, await),
               <<k, await>> \in {<<"starttls", "tls">>, <<"scram", "challenge">>,
                                 <<"auth-bad", "challenge">>, <<"bind", "bind">>,
                                 <<"compress", "compress">>},
               k = "scram" => "sasl" \in left,
               k = "compress" => left \cap {"starttls", "sasl"} = {}
        PROVE  CAsks(k, await)
    BY <1>1, <1>3, <1>6 DEF C!Request, CAsks
  <1>7. CASE C(w)!PassOver
    <2>1. c2s' = c2s /\ f \notin Supported
          /\ cpc' = IF f \in {"starttls", "sasl"} THEN "failed"
                    ELSE IF left' = {} THEN "done" ELSE "choose"
      BY <1>7 DEF C!PassOver, f
    <2>2. CASE f \in {"starttls", "sasl"}
      BY <1>1, <1>2, <2>1, <2>2 DEF CRests, Fewer
    <2>3. CASE f \notin {"starttls", "sasl"}
      BY <1>1, <2>1, <2>3 DEF CPasses
    <2>. QED
      BY <2>2, <2>3
  <1>8. CASE C(w)!Choose
    <2>1. CASE f = "starttls"
      <3>1. C(w)!Request("starttls", "tls")
        BY <1>8, <2>1 DEF C!Choose, f
      <3>. QED
        BY <3>1, <1>6
    <2>2. CASE f = "bind"
      <3>1. C(w)!Request("bind", "bind")
        BY <1>8, <2>2 DEF C!Choose, f
      <3>. QED
        BY <3>1, <1>6
    <2>3. CASE f = "compress"
      <3>1. C(w)!Request("compress", "compress")
        BY <1>8, <2>3 DEF C!Choose, f
      <3>. QED
        BY <3>1, <1>5, <2>3, <1>6
    <2>4. CASE f = "sasl"
      <3>1. C(w)!Authenticate
        BY <1>8, <2>4 DEF C!Choose, f
      <3>2. CASE cpc' = "failed" /\ c2s' = c2s
        BY <3>2, <1>1, <1>2 DEF CRests, Fewer
      <3>3. CASE C(w)!Request("auth-bad", "challenge")
        BY <3>3, <1>6
      <3>4. CASE C(w)!Request("scram", "challenge")
        BY <3>4, <1>5, <2>4, <1>6
      <3>. QED
        BY <3>1, <3>2, <3>3, <3>4 DEF C!Authenticate
    <2>. QED
      BY <1>5, <2>1, <2>2, <2>3, <2>4
  <1>. QED
    BY <1>7, <1>8

\* It reads the header and the list; anything else is the end of it.
LEMMA AwaitsShape ==
    ASSUME NInv, NEW w \in Worlds, world = w, UNCHANGED <<world, server>>,
           C(w)!AwaitHeader \/ C(w)!AwaitFeatures
    PROVE  CRests \/ CAwaits \/ CLearns
  <1>1. /\ cpc \in {"header", "features"} /\ cend \in P!Ends
        /\ s2c # <<>> /\ s2c' = Tail(s2c) /\ c2s' = c2s /\ cend' = C(w)!AfterRead(cend)
    BY DEF C!AwaitHeader, C!AwaitFeatures, C!Receives, C!Arrives, NInv, TypeOK
  <1>2. Still(cend, cend') /\ Working
    BY <1>1, EndOfClient DEF Working, Gone
  <1>3. Head(s2c).kind \in Replies \cup {"end"}
    BY <1>1, <1>2, HeadFromServer
  <1>4. CASE C(w)!AwaitHeader
    <2>1. cpc = "header" /\ left' = left
      BY <1>4 DEF C!AwaitHeader, C!Receives
    <2>2. \/ Head(s2c).kind = "procinst" /\ cpc' = "header"
          \/ Head(s2c).kind = "header" /\ cpc' = "features"
          \/ cpc' = "failed"
      BY <1>4 DEF C!AwaitHeader, C!Receives, C!Arrives
    <2>. QED
      BY <1>1, <1>2, <2>1, <2>2 DEF CAwaits, CRests, Fewer, Still
  <1>5. CASE C(w)!AwaitFeatures
    <2>1. cpc = "features"
      BY <1>5 DEF C!AwaitFeatures, C!Receives
    <2>2. Head(s2c).kind \in {"features", "end"}
      BY <1>3, <2>1 DEF Replies
    <2>3. \/ /\ Head(s2c).kind = "features" /\ left' = Head(s2c).feats
             /\ cpc' = IF left' = {} THEN "done" ELSE "choose"
          \/ cpc' = "failed" /\ left' = left
      BY <1>5, <2>2 DEF C!AwaitFeatures, C!Receives, C!Arrives, C!Elements
    <2>. QED
      BY <1>1, <1>2, <2>1, <2>3 DEF CLearns, CRests, Fewer, Still
  <1>. QED
    BY <1>4, <1>5

\* Its response to the challenge is good only with credentials that are.
LEMMA RespondsShape ==
    ASSUME NInv, NEW w \in Worlds, world = w, UNCHANGED <<world, server>>, C(w)!Challenged
    PROVE  \E k : CResponds(k)
  <1>. DEFINE k == IF w = "rejected" THEN "response-bad" ELSE "response"
  <1>1. /\ cpc = "challenge" /\ left' = left /\ cend \in P!Ends
        /\ s2c # <<>> /\ s2c' = Tail(s2c) /\ Head(s2c).kind = "challenge"
        /\ cend' = C(w)!AfterRead(cend)
    BY DEF C!Challenged, C!Answered, C!Expected, C!Receives, C!Arrives, NInv, TypeOK
  <1>2. Still(cend, cend') /\ Working
    BY <1>1, EndOfClient DEF Working, Gone
  <1>3. C(w)!Request(k, "verdict")
    BY DEF C!Challenged
  <1>4. C(w)!CanSend(cend) /\ C(w)!Sent(cend, c2s, k) = Append(c2s, P!Frame(cend, k, {}))
    BY <1>2, ClientCanSend
  <1>5. cpc' = "verdict" /\ c2s' = Append(c2s, P!Frame(cend, k, {}))
    BY <1>3, <1>4 DEF C!Request
  <1>6. k \in {"response", "response-bad"} /\ (world = "rejected" => k = "response-bad")
    OBVIOUS
  <1>7. CResponds(k)
    BY <1>1, <1>2, <1>5, <1>6 DEF CResponds, Still
  <1>. QED
    BY <1>7

\* A refusal, a closing tag, an error, Run, Stop and the timer: the client has
\* nothing more to say.  The answer to <compress/> is never anything else than
\* <compressed/>.
LEMMA RestsShape ==
    ASSUME NInv, NEW w \in Worlds, world = w, UNCHANGED <<world, server>>,
           \/ C(w)!Uncompressed \/ C(w)!Refused
           \/ C(w)!ServerCloses \/ C(w)!ReadFails \/ C(w)!Run \/ C(w)!RunReads
           \/ C(w)!Stop \/ C(w)!Timer
    PROVE  CRests
  <1>1. cend \in P!Ends /\ left' = left
    BY DEF C!Uncompressed, C!Reopen, C!Refused, C!ServerCloses, C!ReadFails, C!Run, C!RunReads,
           C!Stop, C!Timer, NInv, TypeOK
  <1>2. /\ Still(cend, C(w)!AfterRead(cend))
        /\ C(w)!Closed(cend) \in P!Ends
        /\ C(w)!Closed(cend).tls = cend.tls /\ C(w)!Closed(cend).comp = cend.comp
        /\ C(w)!TimedOut(cend) \in P!Ends
        /\ C(w)!TimedOut(cend).tls = cend.tls /\ C(w)!TimedOut(cend).comp = cend.comp
    BY <1>1, EndOfClient
  <1>3. /\ C(w)!Closed(C(w)!AfterRead(cend)) \in P!Ends
        /\ C(w)!Closed(C(w)!AfterRead(cend)).tls = cend.tls
        /\ C(w)!Closed(C(w)!AfterRead(cend)).comp = cend.comp
    <2>1. C(w)!AfterRead(cend) \in P!Ends
      BY <1>2 DEF Still
    <2>. QED
      BY <1>2, <2>1, EndOfClient DEF Still
  <1>4. Fewer(c2s, C(w)!CloseOut(cend, c2s), CFrames)
    BY ClientSaysGoodbye
  <1>5. CASE C(w)!Uncompressed
    <2>1. cpc = "compress" /\ s2c # <<>> /\ Head(s2c).kind \notin {"compressed", "end"}
      BY <1>5 DEF C!Uncompressed, C!Receives, C!Arrives, C!Elements
    <2>2. Working /\ Replies = {"compressed"}
      BY <2>1 DEF Working, Gone, Replies
    <2>3. Head(s2c).kind \in Replies \cup {"end"}
      BY <2>1, <2>2, HeadFromServer
    <2>. QED
      BY <2>1, <2>2, <2>3
  <1>6. CASE C(w)!Refused
    <2>1. cpc' = "failed" /\ c2s' = c2s /\ s2c # <<>> /\ s2c' = Tail(s2c)
          /\ cend' = C(w)!AfterRead(cend)
      BY <1>6 DEF C!Refused, C!Receives, C!Arrives
    <2>. QED
      BY <1>1, <1>2, <2>1 DEF CRests, Fewer, Still
  <1>7. CASE C(w)!ServerCloses
    <2>1. cpc' \in {"failed", "stopped"} /\ c2s' = C(w)!CloseOut(cend, c2s)
          /\ s2c # <<>> /\ s2c' = Tail(s2c) /\ cend' = C(w)!Closed(C(w)!AfterRead(cend))
      BY <1>7 DEF C!ServerCloses, C!Receives, C!Arrives, C!OnError
    <2>. QED
      BY <1>1, <1>3, <1>4, <2>1 DEF CRests
  <1>8. CASE C(w)!ReadFails \/ C(w)!Run
    <2>1. cpc' \in {"failed", "stopped", "running"} /\ c2s' = c2s /\ s2c' = s2c /\ cend' = cend
      BY <1>8 DEF C!ReadFails, C!Run, C!OnError
    <2>. QED
      BY <1>1, <2>1 DEF CRests, Fewer
  <1>9. CASE C(w)!RunReads
    <2>1. cpc' \in {"running", "stopped"} /\ c2s' = c2s /\ s2c # <<>> /\ s2c' = Tail(s2c)
          /\ cend' = C(w)!AfterRead(cend)
      BY <1>9 DEF C!RunReads, C!Receives, C!ReceivesLast, C!Arrives
    <2>. QED
      BY <1>1, <1>2, <2>1 DEF CRests, Fewer, Still
  <1>10. CASE C(w)!Stop
    <2>1. cpc \in {"done", "failed", "running", "stopped"} /\ cpc' = cpc
          /\ c2s' = C(w)!CloseOut(cend, c2s) /\ s2c' = s2c /\ cend' = C(w)!Closed(cend)
      BY <1>10 DEF C!Stop, C!Returned
    <2>. QED
      BY <1>1, <1>2, <1>4, <2>1 DEF CRests
  <1>11. CASE C(w)!Timer
    <2>1. ~Working
      BY <1>11 DEF C!Timer, NInv, Answering
    <2>2. cpc' = cpc /\ c2s' = c2s /\ s2c' = s2c /\ cend' = C(w)!TimedOut(cend)
      BY <1>11 DEF C!Timer
    <2>. QED
      BY <1>1, <1>2, <2>1, <2>2 DEF CRests, Fewer, Working, Gone
  <1>. QED
    BY <1>5, <1>6, <1>7, <1>8, <1>9, <1>10, <1>11

\* Every step of the client keeps NInv.
LEMMA ClientKeepsInv ==
    ASSUME NInv, NEW w \in Worlds, ClientDoes(w, C(w)!ClientNext)
    PROVE  NInv'
  <1>1. world = w /\ UNCHANGED <<world, server>> /\ C(w)!ClientNext
    BY DEF ClientDoes
  <1>2. \/ CRests \/ CAwaits \/ CLearns \/ CPasses \/ CReopens
        \/ (\E k, await : CAsks(k, await)) \/ (\E k : CResponds(k))
    BY <1>1, ReopensShape, ChoosesShape, AwaitsShape, RespondsShape, RestsShape
       DEF C!ClientNext, C!ClientStep, C!Negotiates
  <1>. QED
    BY <1>2, RestingClient, AwaitingClient, LearningClient, AskingClient, RespondingClient,
       ReopeningClient

-----------------------------------------------------------------------------
(* The theorems. *)

\* Two new ends have nothing to say to each other yet.
LEMMA InitNInv ==
    ASSUME Init
    PROVE  NInv
  <1>1. P!IInv
    <2>1. P!WorldInit
      BY DEF Init, P!WorldInit, P!Init, C!NewEnd, P!NewEnd, S!NewEnd, Level, P!Level, S!Level,
           S!NoOffer, P!NoOffer
    <2>. QED
      BY <2>1, P!InitInv, ConstantsAssumption
  <1>2. /\ c2s = <<>> /\ s2c = <<>> /\ cpc = "start" /\ left = {} /\ handled = {}
        /\ ~Opening /\ ~Offering /\ ~Authing
    BY DEF Init, Opening, Offering, Authing
  <1>3. /\ cend = P!NewEnd /\ send = P!NewEnd /\ ~authed
    BY DEF Init, C!NewEnd, S!NewEnd, P!NewEnd
  <1>4. Quiet(c2s) /\ Quiet(s2c) /\ \A k : ~Says(c2s, k) /\ ~Says(s2c, k)
    BY <1>2 DEF Quiet, Speaks, Says
  <1>5. TypeOK
    BY <1>2, <1>3 DEF TypeOK, P!NewEnd, P!Ends, P!ChannelStates, P!Wrapped
  <1>6. Working
    BY <1>2 DEF Working, Gone
  <1>7. Taking
    BY <1>2, <1>4 DEF Taking, Turns, EndsLast
  <1>8. Answering
    BY <1>2, <1>3, <1>4, QuietSpeaks DEF Answering, Turns, P!NewEnd
  <1>9. Layered
    BY <1>2, <1>3, <1>4 DEF Layered, Carries, Same
  <1>10. Compressing
    BY <1>2, <1>3, <1>4 DEF Compressing, P!NewEnd
  <1>11. Knowing
    BY <1>2, <1>3, <1>4, <1>6 DEF Knowing, Lists, Negotiated
  <1>. QED
    BY <1>1, <1>5, <1>7, <1>8, <1>9, <1>10, <1>11 DEF NInv

\* NInv is inductive.
LEMMA StepNInv ==
    ASSUME NInv, [Next]_vars
    PROVE  NInv'
  <1>1. CASE Next
    BY <1>1, ClientKeepsInv, ServerKeepsInv DEF Next, ClientNext, ServerNext
  <1>2. CASE UNCHANGED vars
    <2>1. P!IInv'
      BY <1>2, ClientKeepsIInv DEF NInv, vars, client, TypeOK
    <2>2. SRests
      BY <1>2 DEF vars, client, server, SRests, Fewer, Opening, Offering, Authing, Level,
           S!Level,
                  NInv, Compressing
    <2>. QED
      BY <2>1, <2>2, RestingServer
  <1>. QED
    BY <1>1, <1>2

\* The two ends of a connection always stand to each other as NInv says, whatever
\* features, faults and worlds there are: the conversation is one of turns, and the layers
\* differ only between the two halves of an upgrade.
THEOREM NegotiationInvariant == Spec => []NInv
  BY InitNInv, StepNInv, PTL DEF Spec

\* Whatever either end is about to read was written under the layers it reads with:
\* StartTLS and StartCompress happen at the same point of the stream at both ends
\* (server_starttls.go, client_starttls.go, server_compress.go, client_compress.go).
THEOREM LayersAgree == Spec => []LayersMatch
  <1>1. ASSUME NInv PROVE LayersMatch
    <2>1. c2s \in Seq(CFrames) /\ s2c \in Seq(SFrames)
      BY <1>1 DEF NInv, TypeOK
    <2>2. Carries(c2s, ServerLayers) /\ Carries(s2c, ClientLayers)
      BY <1>1, Vocabulary DEF NInv, Layered
    <2>3. c2s # <<>> => Head(c2s).kind = "end" \/ Head(c2s).layers = ServerLayers
      BY <2>1, <2>2, FirstSpeaks
    <2>4. s2c # <<>> => Head(s2c).kind = "end" \/ Head(s2c).layers = ClientLayers
      BY <2>1, <2>2, FirstSpeaks
    <2>. QED
      BY <2>3, <2>4 DEF LayersMatch
  <1>. QED
    BY <1>1, NegotiationInvariant, PTL

\* ClientPart.Negotiate returns nil only when the server has handled every mandatory
\* feature, authenticated the client, bound its resource and upgraded the connection as the
\* client has (client_part.go).
THEOREM SuccessMeansNegotiated == Spec => []Negotiated
  <1>1. ASSUME NInv PROVE Negotiated
    BY <1>1 DEF NInv, Knowing
  <1>. QED
    BY <1>1, NegotiationInvariant, PTL

\* With a wrong password Negotiate never returns nil and the server never takes the
\* client for authenticated (scram_toauth.go, memory_auth_user.go).
THEOREM RejectedNeverSucceeds == Spec => []RejectedFails
  <1>1. ASSUME NInv PROVE RejectedFails
    BY <1>1 DEF NInv, Knowing, Negotiated, RejectedFails
  <1>. QED
    BY <1>1, NegotiationInvariant, PTL
=============================================================================
