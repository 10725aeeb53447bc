---------------------------- MODULE Negotiation ----------------------------
(***************************************************************************)
(* The client of ClientPart and the server of XPart at the two ends of one *)
(* connection, which delivers what each writes in order until it is        *)
(* closed.  Each end closes its own side; the other notices when it has    *)
(* read what was written before.                                           *)
(***************************************************************************)
EXTENDS Naturals, Sequences

CONSTANTS
    Features, Faults, MaxDepth, UseCB,  \* of XPart
    Supported, Binding,                 \* of ClientPart
    Worlds                              \* what the two may meet

\* Nothing fails and the server's application never calls Stop; or both may
\* happen; or the client's password is wrong as well.
ASSUME WorldsAssumption == Worlds \subseteq {"smooth", "faulty", "rejected"}

\* What XPart and ClientPart assume of theirs.
ASSUME ConstantsAssumption ==
    /\ Features \subseteq {"starttls", "sasl", "compress", "bind"}
    /\ Supported \subseteq {"starttls", "sasl", "compress", "bind"}
    /\ Faults \subseteq {"cert", "bind", "conn"}
    /\ MaxDepth \in Nat
    /\ UseCB \in BOOLEAN /\ Binding \in BOOLEAN

VARIABLES
    world,                        \* which of Worlds it is
    c2s, s2c,                     \* the two directions of the connection
    cend, cpc, left, cquit,       \* the client's variables
    send, spc, handlers, handled, offered, authed, bound, squit, stop, app, crashed

client == <<cend, cpc, left, cquit>>
server == <<send, spc, handlers, handled, offered, authed, bound, squit, stop, app, crashed>>
vars   == <<world, c2s, s2c, client, server>>

\* A crashed process closes its sockets.
C(w) == INSTANCE ClientPart WITH
            end <- cend, inp <- s2c, out <- c2s, pc <- cpc, quit <- cquit,
            eof <- ~send.up \/ crashed,
            Credentials <- IF w = "rejected" THEN "password" ELSE "good"
S(w) == INSTANCE XPart WITH
            end <- send, inp <- c2s, out <- s2c, pc <- spc, quit <- squit, eof <- ~cend.up,
            Faults <- IF w = "smooth" THEN {} ELSE Faults,
            CanStop <- w # "smooth"

\* What is the same in every world.
Level         == S("smooth")!Level
ServerReads   == S("smooth")!Asking \cup S("smooth")!Blocked
ClientReads   == C("smooth")!Reading
ServerLayers  == S("smooth")!LayersOf(send)
ClientLayers  == C("smooth")!LayersOf(cend)
Mandatory     == S("smooth")!Mandatory

Init ==
    /\ world \in Worlds
    /\ c2s = <<>> /\ s2c = <<>>
    /\ cend = C("smooth")!NewEnd /\ cpc = "start" /\ left = {} /\ cquit = FALSE
    /\ send = S("smooth")!NewEnd /\ spc = [l \in Level |-> IF l = 0 THEN "read" ELSE "idle"]
    /\ handlers = [l \in Level |-> {}] /\ handled = {} /\ offered = S("smooth")!NoOffer
    /\ authed = FALSE /\ bound = FALSE
    /\ squit = FALSE /\ stop = "no" /\ app = "waiting" /\ crashed = FALSE

\* An end does what its module says of the world it is in.
ClientDoes(w, A) == world = w /\ A /\ UNCHANGED <<world, server>>
ServerDoes(w, A) == world = w /\ A /\ UNCHANGED <<world, client>>

ClientNext == \E w \in Worlds : ClientDoes(w, C(w)!ClientNext)
ServerNext == \E w \in Worlds : ServerDoes(w, S(w)!ServerNext)
Next == ClientNext \/ ServerNext

Spec == Init /\ [][Next]_vars

\* Both schedulers are fair and timers fire.  The application stops a client
\* whose negotiation failed or whose Run has ended; any other Stop, and a
\* connection that fails, may or may not come.
FairSpec ==
    /\ Spec
    /\ WF_vars(\E w \in Worlds : ClientDoes(w, C(w)!ClientStep))
    /\ WF_vars(\E w \in Worlds : ClientDoes(w, C(w)!Timer))
    /\ WF_vars(\E w \in Worlds : ClientDoes(w, cpc \in {"failed", "stopped"} /\ C(w)!Stop))
    /\ \A l \in Level : WF_vars(\E w \in Worlds : ServerDoes(w, S(w)!Step(l)))
    /\ WF_vars(\E w \in Worlds : ServerDoes(w, S(w)!Stops))
    /\ WF_vars(\E w \in Worlds : ServerDoes(w, ~crashed /\ S(w)!Timer))

-----------------------------------------------------------------------------

\* What an end is about to read was written under the layers it reads with:
\* the two upgrade at the same point of the stream, in each direction.  Only a
\* closing tag may cross an upgrade and end the stream as an error instead
\* (ChannelRace has the steps inside a call, and says when more than that does).
LayersMatch ==
    /\ c2s # <<>> /\ (\E l \in Level : spc[l] \in ServerReads) =>
           Head(c2s).kind = "end" \/ Head(c2s).layers = ServerLayers
    /\ s2c # <<>> /\ cpc \in ClientReads =>
           Head(s2c).kind = "end" \/ Head(s2c).layers = ClientLayers

\* Negotiate returns without an error only when the server has handled every
\* mandatory feature, authenticated the client, bound the resource the client
\* believes it has, and upgraded the connection as the client has.
Negotiated ==
    cpc = "done" =>
        /\ Mandatory \subseteq handled
        /\ "sasl" \in Features => authed
        /\ "bind" \in Supported \cap Features => bound
        /\ ClientLayers = ServerLayers

\* With credentials the server does not accept, Negotiate never succeeds.
RejectedFails == world = "rejected" /\ "sasl" \in Features => cpc # "done" /\ ~authed

\* Negotiate returns, whatever the server does.
NegotiateReturns == <>(cpc \in {"done", "failed", "running", "stopped"})

\* A client and a server with the same features, credentials both accept, and
\* nothing that fails: the negotiation comes to its end.
Completes == world = "smooth" => <>(cpc = "done")

\* When the client stops, Run on the server reports to its application.
ServerHears == cquit ~> (app # "waiting" \/ crashed)

-----------------------------------------------------------------------------
(* What the repository says and the code does not do.                      *)

\* README.md: "register element handler with Part::WithElemHandler".  Once the
\* negotiation is over, the stanzas the client sends are read by the runner
\* those handlers are registered with, the main one.
HandlersReached ==
    cpc = "done" /\ app = "waiting" /\ ~crashed =>
        spc[0] \in {"read", "reading", "nag"}
=============================================================================
