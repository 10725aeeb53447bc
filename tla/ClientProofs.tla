---------------------------- MODULE ClientProofs ----------------------------
(***************************************************************************)
(* Proofs about the client end of ClientPart under the arbitrary server of *)
(* ClientWorld, for every set of supported features, all credentials and   *)
(* every bound.                                                            *)
(***************************************************************************)
EXTENDS ClientWorld, XChannelProofs, SequenceTheorems, TLAPS

\* The decoder takes frames from the front, and their lists are lists.
LEMMA HeadOfInput ==
    ASSUME NEW s \in Seq(FromServer), s # <<>>
    PROVE  Tail(s) \in Seq(FromServer) /\ Tail(s) # s /\ Head(s).feats \subseteq Known
  <1>1. Tail(s) \in Seq(FromServer) /\ Head(s) \in FromServer /\ Len(Tail(s)) = Len(s) - 1
    BY HeadTailProperties
  <1>2. Tail(s) # s
    <2>1. \A n \in Nat : n - 1 # n
      OBVIOUS
    <2>2. Len(s) \in Nat
      OBVIOUS
    <2>. QED
      BY <1>1, <2>1, <2>2
  <1>. QED
    BY <1>1, <1>2 DEF FromServer

\* What the two guards of a read leave: an open channel and a shorter input.
LEMMA ReceivesType ==
    ASSUME WorldTypeOK, NEW at, NEW k, Receives(at, k)
    PROVE  /\ pc = at /\ end.state # "closed"
           /\ inp # <<>> /\ inp' \in Seq(FromServer) /\ inp' # inp
           /\ Head(inp).feats \subseteq Known /\ Head(inp).kind = k
  BY HeadOfInput DEF WorldTypeOK, Receives, Arrives

-----------------------------------------------------------------------------
(* Type correctness *)

\* The initial states have their types.
LEMMA InitType == WorldInit => WorldTypeOK
  <1>. SUFFICES ASSUME WorldInit
                PROVE  WorldTypeOK
    OBVIOUS
  <1>1. end \in Ends /\ inp \in Seq(FromServer)
    BY NewEndIsEnd DEF WorldInit, Init
  <1>2. pc \in PCs /\ left \subseteq Known /\ eof \in BOOLEAN /\ quit \in BOOLEAN
    BY DEF WorldInit, Init, PCs
  <1>3. written \in Nat /\ listed = NoList /\ settled = NoList
    BY DEF WorldInit
  <1>. QED
    BY <1>1, <1>2, <1>3 DEF WorldTypeOK

\* The part of the type that Negotiate and Run are responsible for.
PartType == end \in Ends /\ inp \in Seq(FromServer) /\ pc \in PCs /\ left \subseteq Known
            /\ quit \in BOOLEAN

\* A stream that is opened again keeps the types.
LEMMA ReopenType ==
    ASSUME WorldTypeOK, NEW e \in Ends, Reopen(e)
    PROVE  end' \in Ends /\ pc' \in PCs /\ left' \subseteq Known /\ quit' \in BOOLEAN
  BY EndsClosed DEF WorldTypeOK, Reopen, PCs, Reading, Returned

\* A request is awaited or has failed with the connection.
LEMMA RequestGoes ==
    ASSUME NEW k, NEW await, Request(k, await)
    PROVE  pc' \in {await, "failed"}
  BY DEF Request

\* What is selected is a feature of the client.
LEMMA SelectedIsKnown == Selected \in Known
  BY DEF Selected, Known

\* What is chosen is asked for.
LEMMA ChoiceIsAsked ==
    ASSUME Choose
    PROVE  pc' = "failed" \/ (pc' \in Answering /\ Asked' = Selected)
  <1>. USE DEF Answering, Asked
  <1>1. CASE Selected = "starttls"
    <2>1. Request("starttls", "tls")
      BY <1>1 DEF Choose
    <2>. QED
      BY <2>1, <1>1, RequestGoes
  <1>2. CASE Selected = "sasl"
    <2>1. Authenticate
      BY <1>2 DEF Choose
    <2>2. pc' \in {"challenge", "failed"}
      BY <2>1, RequestGoes DEF Authenticate
    <2>. QED
      BY <2>2, <1>2
  <1>3. CASE Selected = "bind"
    <2>1. Request("bind", "bind")
      BY <1>3 DEF Choose
    <2>. QED
      BY <2>1, <1>3, RequestGoes
  <1>4. CASE Selected = "compress"
    <2>1. Request("compress", "compress")
      BY <1>4 DEF Choose
    <2>. QED
      BY <2>1, <1>4, RequestGoes
  <1>. QED
    BY <1>1, <1>2, <1>3, <1>4, SelectedIsKnown DEF Known

\* Every step of the client keeps the types.
LEMMA ClientNextType ==
    ASSUME WorldTypeOK, ClientNext
    PROVE  PartType' /\ (inp' = inp \/ inp # <<>>)
  <1>. USE DEF WorldTypeOK, PartType
  <1>. DEFINE e1 == AfterRead(end)
  <1>1. /\ e1 \in Ends /\ Closed(e1) \in Ends /\ Closed(end) \in Ends /\ TimedOut(end) \in Ends
        /\ StartTLS(e1) \in Ends /\ StartCompress(e1) \in Ends
    BY EndsClosed
  <1>. HIDE DEF e1
  <1>2. CASE Negotiates
    <2>1. CASE Start
      BY <2>1, ReopenType DEF Start
    <2>2. CASE AwaitHeader
      BY <2>2, <1>1, ReceivesType DEF AwaitHeader, PCs, Reading, Returned, e1
    <2>3. CASE AwaitFeatures
      BY <2>3, <1>1, ReceivesType DEF AwaitFeatures, PCs, Reading, Returned, e1
    <2>4. CASE Choose
      <3>1. left' \subseteq Known /\ UNCHANGED <<end, inp, quit>>
        BY <2>4 DEF Choose
      <3>2. pc' \in {"failed"} \cup Answering
        BY <2>4, ChoiceIsAsked
      <3>. QED
        BY <3>1, <3>2 DEF PCs, Reading, Returned
    <2>5. CASE PassOver
      BY <2>5 DEF PassOver, PCs, Reading, Returned
    <2>6. CASE Proceed \/ Success \/ Bound \/ Compressed \/ Uncompressed
      BY <2>6, <1>1, ReopenType, ReceivesType
      DEF Proceed, Success, Bound, Compressed, Uncompressed, Answered, e1
    <2>7. CASE Challenged
      BY <2>7, <1>1, ReceivesType
      DEF Challenged, Answered, Request, PCs, Reading, Returned, Answering, e1
    <2>8. CASE Refused
      BY <2>8, <1>1, ReceivesType DEF Refused, PCs, Returned, e1
    <2>. QED
      BY <1>2, <2>1, <2>2, <2>3, <2>4, <2>5, <2>6, <2>7, <2>8 DEF Negotiates
  <1>3. CASE ServerCloses
    BY <1>3, <1>1, ReceivesType DEF ServerCloses, OnError, PCs, Returned, e1
  <1>4. CASE ReadFails \/ Run
    BY <1>4 DEF ReadFails, Run, OnError, PCs, Reading, Returned
  <1>5. CASE RunReads
    <2>1. /\ inp # <<>> /\ inp' \in Seq(FromServer) /\ pc' \in {"running", "stopped"}
          /\ end' = AfterRead(end) /\ UNCHANGED <<left, quit>>
      BY <1>5, ReceivesType, HeadOfInput DEF RunReads, ReceivesLast, Arrives
    <2>. QED
      BY <2>1, <1>1 DEF PCs, Reading, e1
  <1>6. CASE Stop \/ Timer
    BY <1>6, <1>1 DEF Stop, Timer
  <1>. QED
    BY <1>2, <1>3, <1>4, <1>5, <1>6 DEF ClientNext, ClientStep

\* Every step keeps the types.
LEMMA StepType == WorldTypeOK /\ [Next]_vars => WorldTypeOK'
  <1>. SUFFICES ASSUME WorldTypeOK, [Next]_vars
                PROVE  WorldTypeOK'
    OBVIOUS
  <1>1. CASE ClientActs
    <2>1. PartType' /\ eof' \in BOOLEAN /\ written' \in Nat
      BY <1>1, ClientNextType DEF ClientActs, WorldTypeOK
    <2>2. listed' \in (SUBSET Known) \cup {NoList}
      <3>1. ASSUME ListRead
            PROVE  Head(inp).feats \subseteq Known
        <4>1. inp # <<>>
          BY <3>1, <1>1, ClientNextType DEF ListRead, ClientActs
        <4>. QED
          BY <4>1, HeadOfInput DEF WorldTypeOK
      <3>. QED
        BY <1>1, <3>1 DEF ClientActs, WorldTypeOK
    <2>3. settled' \in (SUBSET Known) \cup {NoList}
      BY <1>1 DEF ClientActs, WorldTypeOK, Asked, Answering, Known
    <2>. QED
      BY <2>1, <2>2, <2>3 DEF PartType, WorldTypeOK
  <1>2. CASE ServerWrites
    <2>1. PICK k \in ServerKinds, fs \in SUBSET Known : inp' = <<Frame(end, k, fs)>>
      BY <1>2 DEF ServerWrites
    <2>2. Frame(end, k, fs) \in FromServer
      BY ServerKindsAssumption, EndsClosed DEF WorldTypeOK, Frame, FromServer
    <2>3. end' \in Ends
      BY <1>2, EndsClosed DEF ServerWrites, WorldTypeOK
    <2>. QED
      BY <1>2, <2>1, <2>2, <2>3 DEF ServerWrites, WorldTypeOK, history
  <1>3. CASE ServerGoes \/ UNCHANGED vars
    BY <1>3 DEF ServerGoes, vars, history, WorldTypeOK
  <1>. QED
    BY <1>1, <1>2, <1>3 DEF Next

\* Every variable of the client keeps its type (ClientPart, XChannel).
THEOREM ClientTypeCorrect == Spec => []WorldTypeOK
  BY InitType, StepType, PTL DEF Spec

-----------------------------------------------------------------------------
(* The mandatory features of a list, from the list to the success *)

\* Open goes on to the header.
LEMMA ReopenGoes ==
    ASSUME WorldTypeOK, NEW e \in Ends, Reopen(e)
    PROVE  pc' = "header" /\ end'.state = "opened"
  BY DEF Reopen, Opened, Ends

\* An answer taken leads to the next header with its feature settled, to the
\* next request of the same feature, or to an error.
LEMMA AnswerKeepsInv ==
    ASSUME CInv, WorldTypeOK', ClientActs, pc \in Answering,
           \/ pc' = "header" /\ end'.state # "closed"
           \/ pc' \in Answering /\ Asked' = Asked /\ end'.state # "closed"
           \/ pc' = "failed"
    PROVE  CInv'
  <1>1. ~ListRead /\ listed' = listed
    BY DEF ClientActs, ListRead, Answering
  <1>2. pc' = "header" => settled' = {Asked}
    BY <1>1 DEF ClientActs
  <1>. QED
    BY <1>1, <1>2 DEF CInv, Required, Over, Returned, Answering
\* What is chosen from a list with mandatory features is one of them.
LEMMA MandatorySelected ==
    ASSUME CInv, pc = "choose", Required
    PROVE  Selected \in listed \cap Mandatory
  <1>1. left \cap Mandatory # {} /\ left \subseteq listed
    BY DEF CInv, Required
  <1>2. left \cap {"starttls", "sasl"} # {}
    BY <1>1 DEF Mandatory
  <1>3. Selected \in left \cap Mandatory
    BY <1>2 DEF Selected, Mandatory
  <1>. QED
    BY <1>1, <1>3

\* Every step of Negotiate keeps the invariant.
LEMMA NegotiatesKeepsInv ==
    ASSUME CInv, WorldTypeOK', ClientActs, Negotiates
    PROVE  CInv'
  <1>1. WorldTypeOK /\ AfterRead(end) \in Ends /\ AfterRead(end).state = end.state
    BY EndsClosed, StateKept DEF CInv, WorldTypeOK
  <1>2. CASE Start
    <2>1. pc = "start" /\ pc' \in {"header", "failed"} /\ end'.state = "opened"
      BY <1>1, <1>2, ReopenGoes DEF Start, WorldTypeOK
    <2>2. listed' = NoList
      BY <2>1 DEF ClientActs, ListRead, CInv
    <2>. QED
      BY <2>1, <2>2 DEF CInv, Required, Answering
  <1>3. CASE AwaitHeader
    <2>1. pc = "header" /\ pc' \in {"header", "features", "failed"} /\ end'.state # "closed"
      BY <1>1, <1>3, ReceivesType DEF AwaitHeader
    <2>2. listed' = listed /\ settled' = settled
      BY <2>1 DEF ClientActs, ListRead, Answering
    <2>. QED
      BY <2>1, <2>2 DEF CInv, Required, Answering
  <1>4. CASE AwaitFeatures
    <2>1. pc = "features" /\ end'.state # "closed"
      BY <1>1, <1>4, ReceivesType DEF AwaitFeatures
    <2>2. CASE Receives("features", "features")
      <3>1. listed' = left' /\ pc' = (IF left' = {} THEN "done" ELSE "choose")
        <4>1. /\ ListRead /\ left' = Head(inp).feats
              /\ pc' = (IF left' = {} THEN "done" ELSE "choose")
          BY <1>1, <1>4, <2>2, ReceivesType
          DEF AwaitFeatures, ListRead, Elements, Tokens
        <4>. QED
          BY <4>1 DEF ClientActs
      <3>2. left' \subseteq Known /\ NoList # left'
        BY DEF WorldTypeOK, NoList, Known
      <3>3. CASE pc' = "done"
        <4>1. ~Required'
          BY <3>1, <3>3 DEF Required
        <4>. QED
          BY <2>1, <3>3, <4>1 DEF CInv, Answering
      <3>4. CASE pc' = "choose"
        BY <2>1, <3>1, <3>2, <3>4 DEF CInv, Answering
      <3>. QED
        BY <3>1, <3>3, <3>4
    <2>3. CASE ~Receives("features", "features")
      <3>1. pc' \in {"done", "failed"} /\ ~ListRead
        BY <1>1, <1>4, <2>3, ReceivesType DEF AwaitFeatures, ListRead, Elements, Tokens
      <3>2. listed' = listed /\ settled' = settled
        BY <3>1 DEF ClientActs
      <3>. QED
        BY <2>1, <3>1, <3>2 DEF CInv, Required, Answering
    <2>. QED
      BY <2>2, <2>3
  <1>5. CASE Choose
    <2>1. /\ pc = "choose" /\ end' = end /\ listed' = listed
          /\ pc' = "failed" \/ (pc' \in Answering /\ Asked' = Selected)
      BY <1>5, ChoiceIsAsked DEF Choose, ClientActs, ListRead
    <2>2. Required' = Required /\ listed # NoList /\ end.state # "closed"
      BY <2>1 DEF Required, CInv, Over, Returned
    <2>3. CASE pc' = "failed"
      BY <2>3 DEF CInv, Over, Returned, Answering
    <2>4. CASE pc' \in Answering /\ Asked' = Selected
      BY <2>1, <2>2, <2>4, MandatorySelected DEF CInv, Answering
    <2>. QED
      BY <2>1, <2>3, <2>4
  <1>6. CASE PassOver
    <2>1. pc = "choose" /\ end' = end /\ listed' = listed /\ left' = left \ {Selected}
      BY <1>6 DEF PassOver, ClientActs, ListRead
    <2>2. CASE Selected \in Mandatory
      <3>1. pc' = "failed"
        BY <1>6, <2>2 DEF PassOver, Mandatory
      <3>. QED
        BY <2>1, <3>1 DEF CInv, Over, Returned, Answering
    <2>3. CASE Selected \notin Mandatory
      <3>1. ~Required
        BY <2>1, <2>3, MandatorySelected
      <3>2. pc' \in {"done", "choose"} /\ ~Required'
        BY <1>6, <2>1, <2>3, <3>1 DEF PassOver, Mandatory, Required
      <3>. QED
        BY <2>1, <2>3, <3>1, <3>2 DEF CInv, Over, Returned, Answering, Required
    <2>. QED
      BY <2>2, <2>3
  <1>7. CASE Proceed \/ Success \/ Bound \/ Compressed \/ Uncompressed
    <2>1. /\ pc \in Answering
          /\ \E e \in Ends : Reopen(e)
      BY <1>1, <1>7, EndsClosed, ReceivesType
      DEF Proceed, Success, Bound, Compressed, Uncompressed, Answered, Answering
    <2>2. pc' \in {"header", "failed"} /\ end'.state = "opened"
      BY <1>1, <2>1, ReopenGoes
    <2>. QED
      BY <2>1, <2>2, AnswerKeepsInv
  <1>8. CASE Challenged
    <2>1. /\ pc = "challenge" /\ end'.state # "closed"
          /\ pc' \in {"verdict", "failed"}
      BY <1>1, <1>8, ReceivesType, RequestGoes DEF Challenged, Answered
    <2>. QED
      BY <2>1, AnswerKeepsInv DEF Answering, Asked
  <1>9. CASE Refused
    <2>1. pc \in Answering /\ pc' = "failed"
      BY <1>1, <1>9, ReceivesType DEF Refused
    <2>. QED
      BY <2>1, AnswerKeepsInv
  <1>. QED
    BY <1>2, <1>3, <1>4, <1>5, <1>6, <1>7, <1>8, <1>9 DEF Negotiates

\* Errors end Negotiate or Run, and Run changes nothing Negotiate promised.
LEMMA OthersKeepInv ==
    ASSUME CInv, WorldTypeOK', ClientActs, ClientNext, ~Negotiates
    PROVE  CInv'
  <1>1. WorldTypeOK /\ AfterRead(end) \in Ends /\ AfterRead(end).state = end.state
    BY EndsClosed, StateKept DEF CInv, WorldTypeOK
  <1>2. CASE ServerCloses \/ ReadFails \/ RunReads \/ Run
    <2>1. pc' \in {"failed", "running", "stopped"}
      BY <1>1, <1>2, ReceivesType DEF ServerCloses, ReadFails, RunReads, Run, OnError
    <2>. QED
      BY <2>1 DEF CInv, Over, Returned, Answering
  <1>3. CASE Stop \/ Timer
    <2>1. pc' = pc /\ inp' = inp /\ left' = left /\ (end'.state = end.state \/ pc \in Over)
      BY <1>1, <1>3, StateKept DEF Stop, Timer, Over, WorldTypeOK
    <2>2. listed' = listed /\ settled' = settled
      BY <2>1 DEF ClientActs, ListRead, Answering
    <2>. QED
      BY <2>1, <2>2 DEF CInv, Required, Asked
  <1>. QED
    BY <1>2, <1>3 DEF ClientNext, ClientStep

\* Every step keeps the invariant.
LEMMA StepInv == CInv /\ [Next]_vars => CInv'
  <1>. SUFFICES ASSUME CInv, [Next]_vars
                PROVE  CInv'
    OBVIOUS
  <1>1. WorldTypeOK'
    BY StepType DEF CInv
  <1>2. CASE ClientActs
    BY <1>1, <1>2, NegotiatesKeepsInv, OthersKeepInv DEF ClientActs
  <1>3. CASE ServerWrites \/ ServerGoes \/ UNCHANGED vars
    <2>1. end'.state = end.state /\ UNCHANGED <<pc, left, listed, settled>>
      BY <1>3, ReadingOn DEF ServerWrites, ServerGoes, vars, history, CInv, WorldTypeOK
    <2>. QED
      BY <1>1, <2>1 DEF CInv, Required, Asked
  <1>. QED
    BY <1>2, <1>3 DEF Next

\* The invariant MandatoryAnswered rests on: from the list to the success, a
\* mandatory feature is to choose, asked for, or settled (selectOne, isMandatory
\* and handle of client_part.go).
THEOREM MandatoryPending == Spec => []CInv
  <1>1. WorldInit => CInv
    BY InitType DEF WorldInit, Init, NewEnd, CInv, Answering
  <1>. QED
    BY <1>1, StepInv, PTL DEF Spec

\* Negotiate succeeds after a list with mandatory features only if it has
\* negotiated one of them (client_part.go:144-195).
THEOREM MandatoryIsAnswered == Spec => []MandatoryAnswered
  <1>1. CInv => MandatoryAnswered
    BY DEF CInv, MandatoryAnswered, Required
  <1>. QED
    BY <1>1, MandatoryPending, PTL

-----------------------------------------------------------------------------
(* A closed channel *)

\* Once the channel is closed, Negotiate is over and what is left writes nothing.
LEMMA ClosedStep ==
    ASSUME CInv, end.state = "closed", Next
    PROVE  end'.state = "closed" /\ (out' = out \/ out' = <<>>)
  <1>1. /\ end \in Ends /\ pc \in Over
        /\ Closed(end) = end /\ CloseOut(end, out) = out /\ TimedOut(end).state = end.state
    BY ClosedWritesNothing, StateKept DEF CInv, WorldTypeOK
  <1>2. CASE ClientActs
    <2>1. ASSUME NEW at, NEW k PROVE ~Receives(at, k)
      BY DEF Receives
    <2>2. ~Negotiates
      BY <1>1, <2>1
      DEF Negotiates, Start, AwaitHeader, AwaitFeatures, Choose, PassOver, Proceed, Success,
          Bound, Compressed, Uncompressed, Challenged, Refused, Answered, Over, Returned
    <2>3. ~ServerCloses
      BY <2>1 DEF ServerCloses
    <2>4. CASE RunReads
      BY <1>1, <2>4, StateKept DEF RunReads
    <2>. QED
      BY <1>1, <1>2, <2>2, <2>3, <2>4
      DEF ClientActs, ClientNext, ClientStep, ReadFails, Run, Stop, Timer
  <1>3. CASE ServerWrites \/ ServerGoes
    BY <1>1, <1>3, ReadingOn DEF ServerWrites, ServerGoes
  <1>. QED
    BY <1>2, <1>3 DEF Next

\* A closed channel stays closed and nothing more is written to it (channel.go).
THEOREM ClosedStaysClosed == Spec => ClosedIsFinal
  <1>1. CInv /\ [Next]_vars =>
            [end.state = "closed" => end'.state = "closed" /\ (out' = out \/ out' = <<>>)]_vars
    BY ClosedStep
  <1>. QED
    BY <1>1, MandatoryPending, PTL DEF Spec, ClosedIsFinal
=============================================================================
