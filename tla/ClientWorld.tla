----------------------------- MODULE ClientWorld -----------------------------
(***************************************************************************)
(* The client end of ClientPart with a server that may write anything, in  *)
(* any order, stop writing, or go away at any moment.                      *)
(***************************************************************************)
EXTENDS ClientPart

CONSTANTS
    ServerKinds,  \* what this server may write
    MaxFrames     \* bound: the number of frames it writes

ASSUME ServerKindsAssumption == ServerKinds \subseteq Kinds
ASSUME MaxFramesAssumption == MaxFrames \in Nat

VARIABLES
    written,  \* frames the server has written
    listed,   \* history: the last feature list read, NoList before the first
    settled   \* history: the feature handled since then, NoList while there is none

NoList == {"none"}
Known == {"starttls", "sasl", "compress", "bind"}
Mandatory == {"starttls", "sasl"}

history == <<listed, settled>>
vars == <<end, inp, out, eof, pc, left, quit, written, history>>

WorldInit == Init /\ written = 0 /\ listed = NoList /\ settled = NoList

\* The server writes one frame at a time, under the layers the client expects,
\* when the last one has been taken, in a zlib stream of its own or, while the
\* client reads, in that of the last one; it reads whatever the client wrote.
ServerWrites ==
    /\ ~eof /\ inp = <<>> /\ written < MaxFrames
    /\ \E k \in ServerKinds :
           \E fs \in IF k = "features" THEN SUBSET Known ELSE {{}} :
               inp' = <<Frame(end, k, fs)>>
    /\ written' = written + 1
    /\ out' = <<>>
    /\ \/ UNCHANGED end
       \/ end.spent /\ pc \in Reading /\ end' = ReadOn(end)
    /\ UNCHANGED <<eof, pc, left, quit, history>>

ServerGoes ==
    /\ ~eof
    /\ eof' = TRUE
    /\ UNCHANGED <<end, inp, out, pc, left, quit, written, history>>

\* The feature whose handler is waiting for an answer.
Asked ==
    CASE pc = "tls" -> "starttls"
      [] pc \in {"challenge", "verdict"} -> "sasl"
      [] OTHER -> pc

ListRead == pc = "features" /\ inp' # inp /\ Head(inp).kind = "features"

ClientActs ==
    /\ ClientNext
    /\ listed' = IF ListRead THEN Head(inp).feats ELSE listed
    /\ settled' = IF ListRead THEN NoList
                  ELSE IF pc \in Answering /\ pc' = "header" THEN {Asked}
                  ELSE settled
    /\ UNCHANGED <<eof, written>>

Next == ClientActs \/ ServerWrites \/ ServerGoes

Spec == WorldInit /\ [][Next]_vars

\* The client's goroutine goes on while it can, and its timer fires.
FairSpec == Spec /\ WF_vars(ClientActs /\ ClientStep) /\ WF_vars(ClientActs /\ Timer)

-----------------------------------------------------------------------------

FromServer == [kind : Kinds, feats : SUBSET Known, layers : Layerings]

\* Every variable holds a value of its kind.
WorldTypeOK ==
    /\ end \in Ends /\ eof \in BOOLEAN /\ quit \in BOOLEAN
    /\ inp \in Seq(FromServer)
    /\ pc \in PCs
    /\ left \subseteq Known
    /\ written \in Nat
    /\ listed \in (SUBSET Known) \cup {NoList}
    /\ settled \in (SUBSET Known) \cup {NoList}

\* Negotiate succeeds after a list with mandatory features only if it has
\* negotiated one of them, whatever else the list had and the server said.
MandatoryAnswered ==
    pc = "done" /\ listed # NoList /\ listed \cap Mandatory # {} =>
        settled \subseteq listed \cap Mandatory

\* What a list with mandatory features requires, from the list to the success:
\* they are still there to choose from, one of them is asked for, it is settled.
Over == Returned \cup {"running", "stopped"}
Required == listed # NoList /\ listed \cap Mandatory # {}

CInv ==
    /\ WorldTypeOK
    /\ end.state = "closed" => pc \in Over
    /\ pc = "start" => listed = NoList
    /\ pc = "choose" => listed # NoList /\ listed \cap Mandatory \subseteq left
                         /\ left \subseteq listed
    /\ pc \in Answering => listed # NoList /\ (Required => Asked \in listed \cap Mandatory)
    /\ pc \in {"header", "features", "done"} =>
           (Required => settled \subseteq listed \cap Mandatory)

\* A closed channel stays closed and nothing more is written to it: no error
\* of a read is passed over on the way to the next header or request.
ClosedIsFinal ==
    [][end.state = "closed" =>
          end'.state = "closed" /\ (out' = out \/ out' = <<>>)]_vars

\* Negotiate returns when the server goes, whatever it was waiting for.
NegotiateReturns == eof ~> pc \in Over

-----------------------------------------------------------------------------
(* What the repository says and the code does not do.                      *)

\* The diagram above ClientPart.handleFeatures (client_part.go:90-92) receives
\* stream features before it is DONE.
DoneByList == pc = "done" => listed # NoList /\ settled = NoList
=============================================================================
