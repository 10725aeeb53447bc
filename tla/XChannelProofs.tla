--------------------------- MODULE XChannelProofs ---------------------------
(***************************************************************************)
(* Facts about the operations of XChannel, for the proofs about both ends. *)
(***************************************************************************)
EXTENDS XChannel, TLAPS

\* Whatever an operation of channel.go or conn.go does to an end, it is one.
LEMMA EndsClosed ==
    ASSUME NEW e \in Ends
    PROVE  /\ Opened(e) \in Ends /\ Closed(e) \in Ends /\ TimedOut(e) \in Ends
           /\ AfterRead(e) \in Ends /\ ReadOn(e) \in Ends /\ StartTLS(e) \in Ends /\ StartCompress(e) \in Ends
           /\ [e EXCEPT !.up = FALSE] \in Ends
           /\ [e EXCEPT !.state = "closed", !.timer = TRUE] \in Ends
           /\ LayersOf(e) \in Layerings
  BY DEF Ends, ChannelStates, Wrapped, Opened, Closed, TimedOut, AfterRead, ReadOn,
         StartTLS, StartCompress, LayersOf, Layerings

\* A new end is one.
LEMMA NewEndIsEnd == NewEnd \in Ends
  BY DEF NewEnd, Ends, ChannelStates, Wrapped

\* Nothing is written to a closed channel, and closing it again does nothing.
LEMMA ClosedWritesNothing ==
    ASSUME NEW e \in Ends, e.state = "closed", NEW out, NEW k, NEW fs
    PROVE  /\ Listed(e, out, k, fs) = out /\ Sent(e, out, k) = out
           /\ CloseOut(e, out) = out /\ Closed(e) = e
  BY DEF Listed, Sent, CanSend, CloseOut, Closed

\* Reading, upgrading and the timer leave the state of the channel alone.
LEMMA StateKept ==
    ASSUME NEW e \in Ends
    PROVE  /\ AfterRead(e).state = e.state /\ TimedOut(e).state = e.state
           /\ StartTLS(e).state = e.state /\ StartCompress(e).state = e.state
  BY DEF Ends, AfterRead, TimedOut, StartTLS, StartCompress

\* Reading on in a zlib stream is nothing but that.
LEMMA ReadingOn ==
    ASSUME NEW e \in Ends
    PROVE  /\ ReadOn(e).state = e.state /\ ReadOn(e).up = e.up /\ ReadOn(e).timer = e.timer
           /\ LayersOf(ReadOn(e)) = LayersOf(e)
  BY DEF Ends, ReadOn, LayersOf
=============================================================================
