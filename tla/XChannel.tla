------------------------------ MODULE XChannel ------------------------------
(***************************************************************************)
(* One end of an XMPP stream: the state an XChannel keeps (channel.go),    *)
(* the layers its TcpConn has been upgraded with (conn.go, compress.go)    *)
(* and what its decoder still can read (parser.go).  An end is a value;    *)
(* its operations are functions from ends to ends and from the sequence of *)
(* frames already written to the longer one.  XPart and ClientPart keep    *)
(* one end each in a variable.                                             *)
(*                                                                         *)
(* A frame is what one Write puts on the wire: its kind, the features it   *)
(* lists (for a <features/> element) and the layers it was written under.  *)
(***************************************************************************)
EXTENDS Naturals, Sequences

\* stateWSOpened and stateTCPOpened differ in the name of the tags: the parser of
\* the peer takes </open> for an error (see Parser).  The channels here are TCP's.
ChannelStates == {"init", "opened", "closed"}

\* What the compressor of a TcpConn wraps: nothing yet, the raw connection, or
\* the TLS connection.  StartCompress captures conn.underlying once.
Wrapped == {"off", "raw", "tls"}

\* up:    conn.Close() has not been called on this end
\* timer: the AfterFunc of Close is pending
\* spent: the decoder has met an error it will return for ever
Ends == [state : ChannelStates, up : BOOLEAN, timer : BOOLEAN,
         tls : BOOLEAN, comp : Wrapped, spent : BOOLEAN]

NewEnd == [state |-> "init", up |-> TRUE, timer |-> FALSE,
           tls |-> FALSE, comp |-> "off", spent |-> FALSE]

Layerings == [tls : BOOLEAN, zlib : BOOLEAN]

\* The layers a Read or a Write of this end goes through now.
LayersOf(e) == [tls  |-> IF e.comp = "off" THEN e.tls ELSE e.comp = "tls",
                zlib |-> e.comp # "off"]

-----------------------------------------------------------------------------
(* Writing *)

Frame(e, k, fs) == [kind |-> k, feats |-> fs, layers |-> LayersOf(e)]

CanSend(e) == e.state # "closed" /\ e.up

Listed(e, out, k, fs) == IF CanSend(e) THEN Append(out, Frame(e, k, fs)) ELSE out

Sent(e, out, k) == Listed(e, out, k, {})

\* Open sets the state whatever it was, then writes the XML declaration and
\* the header.  It drops the errors of Send and of the encoder's Flush: on a
\* connection that is down it returns nil, unless an earlier flush has failed.
Opened(e) == [e EXCEPT !.state = "opened"]

OpenOut(e, out) ==
    Sent(Opened(e), Sent(Opened(e), out, "procinst"), "header")

\* Close before Open drops the connection and leaves the state alone; after it,
\* the closing tag is written and the connection is dropped by a timer.
Closed(e) ==
    CASE e.state = "init"   -> [e EXCEPT !.up = FALSE]
      [] e.state = "opened" -> [e EXCEPT !.state = "closed", !.timer = TRUE]
      [] e.state = "closed" -> e

CloseOut(e, out) == IF e.state = "opened" THEN Sent(e, out, "end") ELSE out

\* Mutant: the timer forgets the connection.
TimedOutOnly(e) == [e EXCEPT !.timer = FALSE]

TimedOut(e) == [e EXCEPT !.timer = FALSE, !.up = FALSE]

-----------------------------------------------------------------------------
(* Upgrading *)

StartTLS(e) == [e EXCEPT !.tls = TRUE]

StartCompress(e) == [e EXCEPT !.comp = IF e.tls THEN "tls" ELSE "raw"]

-----------------------------------------------------------------------------
(* Reading *)

\* The decoder can make a token of the next frame, one of kind k.
Arrives(e, inp, k) ==
    /\ ~e.spent
    /\ inp # <<>>
    /\ Head(inp).kind = k
    /\ k # "broken"
    /\ Head(inp).layers = LayersOf(e)

\* The decoder can make no token: it has failed before, the connection was
\* closed on this side, the peer has gone, or the bytes are not what this end
\* expects.
Breaks(e, inp, eof) ==
    \/ e.spent
    \/ ~e.up
    \/ inp = <<>> /\ eof
    \/ inp # <<>> /\ (Head(inp).kind = "broken" \/ Head(inp).layers # LayersOf(e))

\* CompZlib.Read opens a new zlib reader for every call and returns the end of
\* that frame as io.EOF, which the XML decoder keeps: an end that reads through
\* the compressor reads one frame and no more.
AfterRead(e) == [e EXCEPT !.spent = (e.comp # "off")]

\* Unless the peer has put more than one frame into a zlib stream, which this
\* repository's compressor never does.
ReadOn(e) == [e EXCEPT !.spent = FALSE]
=============================================================================
