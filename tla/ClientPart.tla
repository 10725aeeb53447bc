----------------------------- MODULE ClientPart -----------------------------
(***************************************************************************)
(* The client end of a stream: ClientPart (client_part.go) with its        *)
(* starttls, SASL (SCRAM), bind and compression features (client_*.go,     *)
(* scram_toauth.go).  Negotiate runs in the application's goroutine and    *)
(* returns before Run is called, so one program counter is enough.         *)
(***************************************************************************)
EXTENDS XChannel

CONSTANTS
    Supported,    \* the features given to WithFeature
    Credentials,  \* "good", "password" (wrong) or "user" (unknown)
    Binding       \* ScramToAuth was built with channel binding

ASSUME SupportedAssumption == Supported \subseteq {"starttls", "sasl", "compress", "bind"}
ASSUME CredentialsAssumption == Credentials \in {"good", "password", "user"}
ASSUME BindingAssumption == Binding \in BOOLEAN

VARIABLES
    end,    \* the client's end of the stream
    inp,    \* frames the server has written and the decoder has not taken
    out,    \* frames written to the server
    eof,    \* the server has closed its side
    pc,     \* where Negotiate, and then Run, is
    left,   \* the features of the last list not tried yet
    quit    \* Stop has been called

\* Waiting for the stream header, for the feature list, or for the answer to a
\* feature's request: all of them below NextElement or WaitHeader.
Answering == {"tls", "challenge", "verdict", "bind", "compress"}
Reading   == {"header", "features", "running"} \cup Answering
Returned  == {"done", "failed"}
PCs       == {"start", "choose", "stopped"} \cup Reading \cup Returned

\* What a server can say: elements, and the tokens that are not elements.
\* "signature" is a <success/> whose signature the client cannot verify.
Elements == {"features", "proceed", "challenge", "success", "signature", "result",
             "compressed", "failure", "stanza"}
Tokens   == {"procinst", "header"}
Kinds    == Elements \cup Tokens \cup {"end", "broken"}

\* The answer each request needs; the client takes no other.
Expected == [tls |-> "proceed", challenge |-> "challenge", verdict |-> "success",
             bind |-> "result", compress |-> "compressed"]

Init ==
    /\ end = NewEnd /\ inp = <<>> /\ out = <<>> /\ eof = FALSE
    /\ pc = "start" /\ left = {} /\ quit = FALSE

-----------------------------------------------------------------------------
(* The stream: Open and WaitHeader, at first and after every feature *)

\* Open(od.Attr()) with the end as the feature left it.  No flush of this
\* encoder has failed yet: whatever the connection does, Open returns nil.
Reopen(e) ==
    /\ end' = Opened(e)
    /\ out' = OpenOut(e, out)
    /\ pc' = "header"
    /\ UNCHANGED <<left, quit>>

Start == pc = "start" /\ Reopen(end) /\ UNCHANGED inp

Receives(at, k) ==
    /\ pc = at
    /\ end.state # "closed"
    /\ Arrives(end, inp, k)
    /\ inp' = Tail(inp)

\* WaitHeader passes over the XML declaration and refuses elements.
AwaitHeader ==
    /\ \/ Receives("header", "procinst") /\ UNCHANGED pc
       \/ Receives("header", "header") /\ pc' = "features"
       \/ (\E k \in Elements : Receives("header", k)) /\ pc' = "failed"
    /\ end' = AfterRead(end)
    /\ UNCHANGED <<out, left, quit>>

\* serverFeatures: an empty list ends the negotiation, and so does an element
\* that is no list.
AwaitFeatures ==
    /\ \/ /\ Receives("features", "features")
          /\ left' = Head(inp).feats
          /\ pc' = IF left' = {} THEN "done" ELSE "choose"
       \/ /\ \E k \in Elements \ {"features"} : Receives("features", k)
          /\ pc' = "done" /\ UNCHANGED left
       \/ /\ \E k \in Tokens : Receives("features", k)
          /\ pc' = "failed" /\ UNCHANGED left
    /\ end' = AfterRead(end)
    /\ UNCHANGED <<out, quit>>

-----------------------------------------------------------------------------
(* selectOne and handle *)

\* Mutant: the priorities from the last to the first.
SelectedLast ==
    CASE "compress" \in left -> "compress"
      [] "compress" \notin left /\ "bind" \in left -> "bind"
      [] left \cap {"compress", "bind"} = {} /\ "sasl" \in left -> "sasl"
      [] OTHER -> "starttls"

Selected ==
    CASE "starttls" \in left -> "starttls"
      [] "starttls" \notin left /\ "sasl" \in left -> "sasl"
      [] left \cap {"starttls", "sasl"} = {} /\ "bind" \in left -> "bind"
      [] OTHER -> "compress"

Request(k, await) ==
    /\ out' = Sent(end, out, k)
    /\ pc' = IF CanSend(end) THEN await ELSE "failed"

\* ScramToAuth.ToAuth needs a TLS connection to bind to.
Authenticate ==
    IF Binding /\ ~end.tls
    THEN pc' = "failed" /\ UNCHANGED out
    ELSE Request(IF Credentials = "user" THEN "auth-bad" ELSE "scram", "challenge")

Choose ==
    /\ pc = "choose"
    /\ Selected \in Supported
    /\ left' = left \ {Selected}
    /\ CASE Selected = "starttls" -> Request("starttls", "tls")
         [] Selected = "sasl"     -> Authenticate
         [] Selected = "bind"     -> Request("bind", "bind")
         [] Selected = "compress" -> Request("compress", "compress")
    /\ UNCHANGED <<end, inp, quit>>

\* Mutant: no feature without a handler is an error.
PassOverAny ==
    /\ pc = "choose"
    /\ Selected \notin Supported
    /\ left' = left \ {Selected}
    /\ pc' = IF left' = {} THEN "done" ELSE "choose"
    /\ UNCHANGED <<end, inp, out, quit>>

\* A feature without a handler: an error if isMandatory says so, else the rest
\* of the list is tried.
PassOver ==
    /\ pc = "choose"
    /\ Selected \notin Supported
    /\ left' = left \ {Selected}
    /\ pc' = IF Selected \in {"starttls", "sasl"} THEN "failed"
             ELSE IF left' = {} THEN "done" ELSE "choose"
    /\ UNCHANGED <<end, inp, out, quit>>

-----------------------------------------------------------------------------
(* The answers.  A feature that was handled is followed by a new header.   *)

Answered(at) == Receives(at, Expected[at])

\* Mutant: any verdict is a success.
SuccessAny ==
    /\ \E k \in {"success", "failure"} : Receives("verdict", k)
    /\ Reopen(AfterRead(end))

Proceed    == Answered("tls") /\ Reopen(StartTLS(AfterRead(end)))
Success    == Answered("verdict") /\ Reopen(AfterRead(end))
Bound      == Answered("bind") /\ Reopen(AfterRead(end))
Compressed == Answered("compress") /\ Reopen(StartCompress(AfterRead(end)))

\* clientCompressFeature takes any other element for an answer, and goes on.
Uncompressed ==
    /\ \E k \in Elements \ {"compressed"} : Receives("compress", k)
    /\ Reopen(AfterRead(end))

Challenged ==
    /\ Answered("challenge")
    /\ end' = AfterRead(end)
    /\ Request(IF Credentials = "good" THEN "response" ELSE "response-bad", "verdict")
    /\ UNCHANGED <<left, quit>>

\* The other features return an error for any other answer.  To the bind
\* feature an iq with the id of its request that has a <bind/> is a "result",
\* even one of type "error".
Refused ==
    /\ \E at \in Answering, k \in Elements \cup Tokens :
           /\ k # Expected[at]
           /\ at = "compress" => k \in Tokens
           /\ Receives(at, k)
    /\ end' = AfterRead(end)
    /\ pc' = "failed"
    /\ UNCHANGED <<out, left, quit>>

-----------------------------------------------------------------------------
(* Errors of next(), in Negotiate and in Run *)

\* Mutant: Negotiate starts over instead of returning.
OnErrorRetry == IF pc = "running" THEN "stopped" ELSE "start"

OnError == IF pc = "running" THEN "stopped" ELSE "failed"

ServerCloses ==
    /\ \E at \in Reading : Receives(at, "end")
    /\ end' = Closed(AfterRead(end))
    /\ out' = CloseOut(end, out)
    /\ pc' = OnError
    /\ UNCHANGED <<left, quit>>

\* Mutant: serverFeatures waits on.
ReadFailsWaits ==
    /\ pc \in Reading \ {"features"}
    /\ end.state = "closed" \/ Breaks(end, inp, eof)
    /\ pc' = OnError
    /\ UNCHANGED <<end, inp, out, left, quit>>

ReadFails ==
    /\ pc \in Reading
    /\ end.state = "closed" \/ Breaks(end, inp, eof)
    /\ pc' = OnError
    /\ UNCHANGED <<end, inp, out, left, quit>>

-----------------------------------------------------------------------------
(* The application: it runs the part whatever Negotiate returned (the      *)
(* example client does), stops it when Run reports, or before.             *)

Run ==
    /\ pc \in Returned
    /\ pc' = "running"
    /\ UNCHANGED <<end, inp, out, left, quit>>

\* The state was looked at before Stop has closed the channel: the reader is still
\* given what arrives, and fails when it comes back for more.
ReceivesLast ==
    /\ pc = "running" /\ end.state = "closed"
    /\ \E k \in Kinds : Arrives(end, inp, k)
    /\ inp' = Tail(inp)

\* Run passes elements to the application's handlers, and OnOpenHeader refuses
\* the header of a server that answers late.
RunReads ==
    /\ \/ (\E k \in Elements \cup {"procinst"} : Receives("running", k)) /\ UNCHANGED pc
       \/ Receives("running", "header") /\ pc' = "stopped"
       \/ ReceivesLast /\ pc' = "stopped"
    /\ end' = AfterRead(end)
    /\ UNCHANGED <<out, left, quit>>

Stop ==
    /\ pc \in Returned \cup {"running", "stopped"}
    /\ ~quit
    /\ quit' = TRUE
    /\ end' = Closed(end)
    /\ out' = CloseOut(end, out)
    /\ UNCHANGED <<inp, pc, left>>

Timer ==
    /\ end.timer
    /\ end' = TimedOut(end)
    /\ UNCHANGED <<inp, out, pc, left, quit>>

-----------------------------------------------------------------------------

Negotiates ==
    \/ Start \/ AwaitHeader \/ AwaitFeatures
    \/ Choose \/ PassOver
    \/ Proceed \/ Success \/ Bound \/ Compressed \/ Uncompressed
    \/ Challenged \/ Refused

\* One step of Negotiate, then of the goroutine of Run.
ClientStep == Negotiates \/ ServerCloses \/ ReadFails \/ Run \/ RunReads

ClientNext == ClientStep \/ Stop \/ Timer
=============================================================================
