----------------------------- MODULE ChannelRace -----------------------------
(***************************************************************************)
(* An XChannel that two goroutines use at once (channel.go), taken apart:  *)
(* the reader, which answers headers and elements, upgrades the connection *)
(* and closes the channel at the peer's closing tag, and the application's *)
(* Stop.  XPart and ClientPart take these calls in larger steps; here is   *)
(* what may happen inside them, and inside the xml.Encoder and the         *)
(* bufio.Writer of it that they use without a lock.                        *)
(***************************************************************************)
EXTENDS Naturals, Sequences, FiniteSets

CONSTANTS
    MaxOpens,    \* bound: headers answered
    MaxFrames    \* bound: elements are answered up to this many frames

VARIABLES
    state,    \* XChannel.state
    up,       \* the connection has not been closed
    timers,   \* timers of Close that have not fired
    tls,      \* TcpConn.underlying is a TLS connection
    depth,    \* elements the xml.Encoder has open
    buffer,   \* the memory of its bufio.Writer, a slot for a frame
    filled,   \* how many slots of it are to be flushed
    broken,   \* a flush has failed: the bufio.Writer keeps its error
    part,     \* how many slots each goroutine's flush has found
    out,      \* what was written to the connection, each with its layer
    opens,    \* calls of Open
    pc,       \* what each goroutine does next, and with which frame
    overlapped \* history: two calls of SendToken have met in the encoder

encoder == <<buffer, filled, broken, part, overlapped>>
vars    == <<state, up, timers, tls, depth, encoder, out, opens, pc>>

Goroutines == {"reader", "stopper"}

Do(d, k) == [do |-> d, of |-> k]
Idle == Do("idle", "-")
Over == Do("over", "-")

Init ==
    /\ state = "init" /\ up = TRUE /\ timers = 0 /\ tls = FALSE
    /\ depth = 0 /\ buffer = <<>> /\ filled = 0 /\ broken = FALSE /\ overlapped = FALSE
    /\ part = [g \in Goroutines |-> 0] /\ out = <<>> /\ opens = 0
    /\ pc = [g \in Goroutines |-> Idle]

Goes(g, to) == pc' = [pc EXCEPT ![g] = to]

\* What follows a frame: Open goes on from the declaration to the header, the
\* tls feature from <proceed/> to StartTLS, Close from its tag to the state.
AfterFrame(k) ==
    CASE k = "procinst" -> Do("check", "header")
      [] k = "proceed"  -> Do("upgrade", "-")
      [] k = "end"      -> Do("set closed", "-")
      [] OTHER          -> Idle

-----------------------------------------------------------------------------
(* Calls *)

\* Open sets the state whatever it was.
CallsOpen ==
    /\ pc["reader"] = Idle /\ opens < MaxOpens
    /\ state' = "opened" /\ opens' = opens + 1
    /\ Goes("reader", Do("check", "procinst"))
    /\ UNCHANGED <<up, timers, tls, depth, encoder, out>>

CallsSendElement ==
    /\ pc["reader"] = Idle /\ Len(out) < MaxFrames
    /\ \/ Goes("reader", Do("check", "element"))
       \/ ~tls /\ opens > 0 /\ Goes("reader", Do("check", "proceed"))
    /\ UNCHANGED <<state, up, timers, tls, depth, encoder, out, opens>>

\* Mutant: a channel that was not opened is closed by the timer of another.
CallsCloseKeeping(g) ==
    /\ pc[g] = Idle
    /\ Goes(g, IF state = "opened" THEN Do("check", "end") ELSE Over)
    /\ UNCHANGED <<state, up, timers, tls, depth, encoder, out, opens>>

\* Close looks at the state: before the first Open it drops the connection and
\* nothing else, on a closed channel it does nothing.
CallsClose(g) ==
    /\ pc[g] = Idle
    /\ Goes(g, IF state = "opened" THEN Do("check", "end") ELSE Over)
    /\ up' = (up /\ state # "init")
    /\ UNCHANGED <<state, timers, tls, depth, encoder, out, opens>>

-----------------------------------------------------------------------------
(* Send, SendToken and SendElement *)

Layered(ks) == [i \in DOMAIN ks |-> [kind |-> ks[i], tls |-> tls]]

Written(ks) == out' = IF up THEN out \o Layered(ks) ELSE out

Checks(g) ==
    /\ pc[g].do = "check"
    /\ Goes(g, IF state = "closed" THEN AfterFrame(pc[g].of) ELSE Do("write", pc[g].of))
    /\ UNCHANGED <<state, up, timers, tls, depth, encoder, out, opens>>

\* Send and SendElement write to the connection.
Writes(g) ==
    /\ pc[g].do = "write" /\ pc[g].of \in {"procinst", "element", "proceed"}
    /\ Written(<<pc[g].of>>)
    /\ Goes(g, AfterFrame(pc[g].of))
    /\ UNCHANGED <<state, up, timers, tls, depth, encoder, opens>>

\* The places inside EncodeToken and Flush, and who else is there.
Inside == {"append", "flush", "drain", "compare", "empty"}

Meets(g) == overlapped' = (overlapped \/ \E h \in Goroutines \ {g} : pc[h].do \in Inside)

\* Mutant: the closing tag is encoded whether or not a header is open.
EncodesAnyEnd(g) ==
    /\ pc[g].do = "write" /\ pc[g].of \in {"header", "end"}
    /\ Meets(g)
    /\ Goes(g, Do("append", pc[g].of))
    /\ UNCHANGED <<state, up, timers, tls, depth, buffer, filled, broken, part, out, opens>>

\* SendToken encodes first; the encoder refuses an end tag without its start,
\* and the flush comes all the same.
Encodes(g) ==
    /\ pc[g].do = "write" /\ pc[g].of \in {"header", "end"}
    /\ Meets(g)
    /\ LET k == pc[g].of
           refused == k = "end" /\ depth = 0
       IN  /\ depth' = IF k = "header" THEN depth + 1 ELSE IF refused THEN depth ELSE depth - 1
           /\ Goes(g, Do(IF refused THEN "flush" ELSE "append", k))
    /\ UNCHANGED <<state, up, timers, tls, buffer, filled, broken, part, out, opens>>

\* The frame goes behind what has not been flushed.
Appends(g) ==
    /\ pc[g].do = "append"
    /\ IF broken
       THEN UNCHANGED <<buffer, filled>>
       ELSE /\ buffer' = IF filled < Len(buffer) THEN [buffer EXCEPT ![filled + 1] = pc[g].of]
                                                 ELSE Append(buffer, pc[g].of)
            /\ filled' = filled + 1
    /\ Goes(g, Do("flush", pc[g].of))
    /\ UNCHANGED <<state, up, timers, tls, depth, broken, part, overlapped, out, opens>>

\* Flush looks at what there is, its own and the other goroutine's alike.
Flushes(g) ==
    /\ pc[g].do = "flush"
    /\ IF broken \/ filled = 0
       THEN Goes(g, AfterFrame(pc[g].of)) /\ UNCHANGED part
       ELSE Goes(g, Do("drain", pc[g].of)) /\ part' = [part EXCEPT ![g] = filled]
    /\ UNCHANGED <<state, up, timers, tls, depth, buffer, filled, broken, overlapped, out, opens>>

\* It writes that many slots, as they are by now.
Drains(g) ==
    /\ pc[g].do = "drain"
    /\ Written(SubSeq(buffer, 1, part[g]))
    /\ Goes(g, IF up THEN Do("compare", pc[g].of) ELSE AfterFrame(pc[g].of))
    /\ broken' = (broken \/ ~up)
    /\ UNCHANGED <<state, up, timers, tls, depth, buffer, filled, part, overlapped, opens>>

\* More than was written is an error of the writer, and moved to the front.
Compares(g) ==
    /\ pc[g].do = "compare"
    /\ IF part[g] < filled
       THEN /\ Goes(g, AfterFrame(pc[g].of))
            /\ broken' = TRUE /\ filled' = filled - part[g]
            /\ buffer' = [i \in DOMAIN buffer |->
                             IF i <= filled - part[g] THEN buffer[i + part[g]] ELSE buffer[i]]
       ELSE Goes(g, Do("empty", pc[g].of)) /\ UNCHANGED <<buffer, filled, broken>>
    /\ UNCHANGED <<state, up, timers, tls, depth, part, overlapped, out, opens>>

\* Nothing is left to flush, whatever was appended in between.
Empties(g) ==
    /\ pc[g].do = "empty"
    /\ filled' = 0
    /\ Goes(g, AfterFrame(pc[g].of))
    /\ UNCHANGED <<state, up, timers, tls, depth, buffer, broken, part, overlapped, out, opens>>

-----------------------------------------------------------------------------
(* The ends of StartTLS and Close *)

\* Mutant: the connection is left as it is.
UpgradesNot ==
    /\ pc["reader"].do = "upgrade"
    /\ Goes("reader", Idle)
    /\ UNCHANGED <<state, up, timers, tls, depth, encoder, out, opens>>

Upgrades ==
    /\ pc["reader"].do = "upgrade"
    /\ tls' = TRUE
    /\ Goes("reader", Idle)
    /\ UNCHANGED <<state, up, timers, depth, encoder, out, opens>>

SetsClosed(g) ==
    /\ pc[g].do = "set closed"
    /\ state' = "closed"
    /\ Goes(g, Do("start timer", "-"))
    /\ UNCHANGED <<up, timers, tls, depth, encoder, out, opens>>

StartsTimer(g) ==
    /\ pc[g].do = "start timer"
    /\ timers' = timers + 1
    /\ Goes(g, Over)
    /\ UNCHANGED <<state, up, tls, depth, encoder, out, opens>>

Fires ==
    /\ timers > 0
    /\ timers' = timers - 1
    /\ up' = FALSE
    /\ UNCHANGED <<state, tls, depth, encoder, out, opens, pc>>

\* One step of a call that has begun.
GoesOn(g) ==
    \/ Checks(g) \/ Writes(g) \/ SetsClosed(g) \/ StartsTimer(g)
    \/ Encodes(g) \/ Appends(g) \/ Flushes(g) \/ Drains(g) \/ Compares(g) \/ Empties(g)

Next ==
    \/ CallsOpen \/ CallsSendElement \/ Upgrades \/ Fires
    \/ \E g \in Goroutines : CallsClose(g) \/ GoesOn(g)

\* Goroutines go on with what they have called, and timers fire.
Spec == /\ Init /\ [][Next]_vars
        /\ \A g \in Goroutines : WF_vars(GoesOn(g))
        /\ WF_vars(Upgrades) /\ WF_vars(Fires)

-----------------------------------------------------------------------------
Count(k, n) == Cardinality({i \in 1 .. n : out[i].kind = k})

\* However two calls of Close and the headers of a stream that is opened again
\* meet, the peer never reads a closing tag without a header before it, as long
\* as no two goroutines are in the encoder at once: then a flush may write what
\* another has written, or lose what it has not.
EndsAreBalanced ==
    ~overlapped => \A n \in 0 .. Len(out) : Count("end", n) <= Count("header", n)

\* Once <proceed/> was written the peer speaks TLS: Stop may still write a
\* closing tag in the clear and nothing else ever crosses, except that a flush
\* which was held up, when two goroutines have met in the encoder, may write a
\* header with it.
OnlyEndsCross ==
    \A i, j \in DOMAIN out :
        i < j /\ out[i].kind = "proceed" /\ ~out[j].tls =>
            out[j].kind = "end" \/ (overlapped /\ out[j].kind = "header")

\* Once Stop has returned the connection is dropped, although it may have found
\* a channel another goroutine is closing, or one that is opened again at once.
StopDrops == pc["stopper"] = Over ~> ~up
=============================================================================
