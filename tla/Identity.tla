------------------------------- MODULE Identity -------------------------------
(***************************************************************************)
(* The JID that both ends of a connection keep, from the header's `from`   *)
(* over authentication to the binding of a resource, and the list of the   *)
(* parts that authenticated, which all connections of a server share       *)
(* (PartAttr, saslFeature, bindFeature, clientBindFeature,                 *)
(* MemoryAuthorized).  XPart and ClientPart have the negotiation in full;  *)
(* here one message at a time is under way on each connection.             *)
(***************************************************************************)
EXTENDS Jid, Stanzas, FiniteSets

CONSTANTS
    Conns,       \* connections; the part of a connection has its name
    Users,       \* user names
    Domain,      \* the domain of the server, and of its clients
    Kept,        \* resources a client's JID may have before it is bound one
    Asked,       \* resources a client may ask for; <<>>: it leaves it to the server
    Mechanisms   \* "PLAIN", "SCRAM"

ASSUME MechanismsAssumption == Mechanisms \subseteq {"PLAIN", "SCRAM"}

\* Names and addresses are texts.
ASSUME TextsAssumption == Users \cup Kept \cup Asked \cup {Domain} \subseteq Seq(STRING)

VARIABLES
    user,     \* user[c]: who the client of c authenticates as
    cjid,     \* cjid[c]: PartAttr.JID of the client
    sjid,     \* sjid[c]: PartAttr.JID of the server's part
    wire,     \* wire[c]: the message under way
    answer,   \* answer[c]: the `to` of the last header of the server
    stage,    \* stage[c]: how far the server's part is
    named,    \* named[c]: the name Authorized was called with
    parts,    \* MemoryAuthorized.parts
    loaded,   \* loaded[c]: parts as c's append read it
    raced     \* connections whose append overlapped another one

vars == <<user, cjid, sjid, wire, answer, stage, named, parts, loaded, raced>>

Message(k, t) == [kind |-> k, text |-> t]

\* The address in a header: none as long as the user is not known.
Address(jid) == IF jid.Username # <<>> THEN Printed(jid) ELSE <<>>

\* What ParseJID leaves in a new JID, its error ignored.
Parsed(src) == IF IsJID(src) THEN ParseJID(src, NoJID) ELSE NoJID

Init ==
    /\ user \in [Conns -> Users]
    /\ \E r \in [Conns -> Kept] : cjid = [c \in Conns |-> JID(user[c], Domain, r[c])]
    /\ sjid = [c \in Conns |-> NoJID]
    /\ wire = [c \in Conns |-> Message("open", Address(cjid[c]))]
    /\ answer = [c \in Conns |-> <<>>]
    /\ stage = [c \in Conns |-> "new"]
    /\ named = [c \in Conns |-> <<>>]
    /\ parts = <<>>
    /\ loaded = [c \in Conns |-> <<>>]
    /\ raced = {}

-----------------------------------------------------------------------------
(* The server's part *)

\* Mutant: the address of a header is not taken.
FromHeaderIgnored(jid, from) == jid

FromHeader(jid, from) == IF from = <<>> THEN jid ELSE ParseJID(from, jid)

Features(c) == CASE stage[c] = "new"    -> "mechanisms"
                 [] stage[c] = "listed" -> "bind"
                 [] stage[c] = "bound"  -> "none"

\* ParseToServer, then Open, which answers, and the features that are left.
Opens(c) ==
    /\ wire[c].kind = "open" /\ stage[c] \in {"new", "listed", "bound"}
    /\ wire[c].text = <<>> \/ IsJID(wire[c].text)
    /\ sjid' = [sjid EXCEPT ![c] = FromHeader(@, wire[c].text)]
    /\ answer' = [answer EXCEPT ![c] = Address(sjid'[c])]
    /\ wire' = [wire EXCEPT ![c] = Message(Features(c), <<>>)]
    /\ UNCHANGED <<user, cjid, stage, named, parts, loaded, raced>>

RefusesHeader(c) ==
    /\ wire[c].kind = "open" /\ stage[c] \in {"new", "listed", "bound"}
    /\ wire[c].text # <<>> /\ ~IsJID(wire[c].text)
    /\ stage' = [stage EXCEPT ![c] = "ended"]
    /\ wire' = [wire EXCEPT ![c] = Message("end", <<>>)]
    /\ UNCHANGED <<user, cjid, sjid, answer, named, parts, loaded, raced>>

\* The name an Auth returns: ScramAuth's result is never assigned.
Returned(mech, name) == IF mech = "PLAIN" THEN name ELSE <<>>

\* <success/>, the JID, and the first half of Authorized's append: the list is
\* read.
Authenticates(c) ==
    /\ wire[c].kind \in Mechanisms /\ stage[c] = "new"
    /\ wire' = [wire EXCEPT ![c] = Message("success", <<>>)]
    /\ sjid' = [sjid EXCEPT ![c].Username = Returned(wire[c].kind, wire[c].text),
                            ![c].Domain   = Domain]
    /\ named' = [named EXCEPT ![c] = Printed(sjid'[c])]
    /\ loaded' = [loaded EXCEPT ![c] = parts]
    /\ stage' = [stage EXCEPT ![c] = "appending"]
    /\ LET others == {d \in Conns : stage[d] = "appending"}
       IN  raced' = IF others = {} THEN raced ELSE raced \cup others \cup {c}
    /\ UNCHANGED <<user, cjid, answer, parts>>

\* The user is unknown or the proof is wrong; the client gives up.
FailsToAuthenticate(c) ==
    /\ wire[c].kind \in Mechanisms /\ stage[c] = "new"
    /\ stage' = [stage EXCEPT ![c] = "ended"]
    /\ wire' = [wire EXCEPT ![c] = Message("end", <<>>)]
    /\ UNCHANGED <<user, cjid, sjid, answer, named, parts, loaded, raced>>

\* Mutant: the list is begun anew.
AppendedAlone(list, c) == <<c>>

\* append: a slice of up to two elements has no room to spare, so what another
\* connection stored meanwhile is not in it.
Appended(list, c) == Append(list, c)

\* Authorized's append, second half: the list is written back.
Lists(c) ==
    /\ stage[c] = "appending"
    /\ parts' = Appended(loaded[c], c)
    /\ stage' = [stage EXCEPT ![c] = "listed"]
    /\ UNCHANGED <<user, cjid, sjid, wire, answer, named, loaded, raced>>

\* bindFeature.match, of the first iq its part reads.
Matches(ib) == ib.ok /\ ib.val.IQ.Type = TypeSet /\ ib.val.IQ.ID # None

Result(iq, jid) ==
    IqBindToElem(IqBind(Stanza("iq", TypeResult, iq.ID, Domain, iq.From), None, jid))

\* Mutant: the resource is bound to a copy of the part's JID.
BindsCopy(c) ==
    /\ wire[c].kind = "iq" /\ stage[c] = "listed"
    /\ LET ib == IqBindFromElem(NoIqBind, wire[c].text) IN
           /\ Matches(ib)
           /\ wire' = [wire EXCEPT ![c] =
                          Message("iq", Result(ib.val.IQ, Printed([sjid[c] EXCEPT !.Resource = ib.val.Resource])))]
    /\ stage' = [stage EXCEPT ![c] = "bound"]
    /\ UNCHANGED <<user, cjid, sjid, answer, named, parts, loaded, raced>>

\* bindFeature.Handle with MemoryAuthorized.BindResource: an empty resource is
\* bound as it is.
Binds(c) ==
    /\ wire[c].kind = "iq" /\ stage[c] = "listed"
    /\ LET ib == IqBindFromElem(NoIqBind, wire[c].text) IN
           /\ Matches(ib)
           /\ sjid' = [sjid EXCEPT ![c].Resource = ib.val.Resource]
           /\ wire' = [wire EXCEPT ![c] = Message("iq", Result(ib.val.IQ, Printed(sjid'[c])))]
    /\ stage' = [stage EXCEPT ![c] = "bound"]
    /\ UNCHANGED <<user, cjid, answer, named, parts, loaded, raced>>

\* MemoryAuthorized.FindPart: the first part with that JID.
FindPart(jid) ==
    LET at == {i \in DOMAIN parts : Equal(jid, sjid[parts[i]])}
    IN  IF at = {} THEN "nil" ELSE parts[Min(at)]

-----------------------------------------------------------------------------
(* The client *)

ToAuth(c) ==
    /\ wire[c].kind = "mechanisms"
    /\ \E m \in Mechanisms : wire' = [wire EXCEPT ![c] = Message(m, user[c])]
    /\ UNCHANGED <<user, cjid, sjid, answer, stage, named, parts, loaded, raced>>

\* After a feature the stream is opened again.
Reopens(c) ==
    /\ wire[c].kind = "success"
    /\ wire' = [wire EXCEPT ![c] = Message("open", Address(cjid[c]))]
    /\ UNCHANGED <<user, cjid, sjid, answer, stage, named, parts, loaded, raced>>

\* The id of the request is that of the feature, one for each connection.
AsksToBind(c) ==
    /\ wire[c].kind = "bind"
    /\ \E r \in Asked :
           wire' = [wire EXCEPT ![c] =
                      Message("iq", IqBindToElem(IqBind(Stanza("iq", TypeSet, <<c>>, None, None), r, None)))]
    /\ UNCHANGED <<user, cjid, sjid, answer, stage, named, parts, loaded, raced>>

\* Of the JID that was bound only the resource is taken.
BoundTo(c) ==
    /\ wire[c].kind = "iq" /\ stage[c] = "bound"
    /\ LET ib == IqBindFromElem(NoIqBind, wire[c].text) IN
           /\ ib.ok /\ ib.val.IQ.ID = <<c>>
           /\ cjid' = [cjid EXCEPT ![c].Resource = Parsed(ib.val.JID).Resource]
    /\ wire' = [wire EXCEPT ![c] = Message("open", Address(cjid'[c]))]
    /\ UNCHANGED <<user, sjid, answer, stage, named, parts, loaded, raced>>

Next == \E c \in Conns :
    \/ Opens(c) \/ RefusesHeader(c) \/ Authenticates(c) \/ FailsToAuthenticate(c) \/ Lists(c) \/ Binds(c)
    \/ ToAuth(c) \/ Reopens(c) \/ AsksToBind(c) \/ BoundTo(c)

Spec == Init /\ [][Next]_vars

-----------------------------------------------------------------------------
Negotiated(c) == wire[c].kind = "none"

\* Once negotiation is over both ends have the same JID, that of the user who
\* authenticated, whichever way: the header of the last stream repairs what
\* SCRAM left out, and puts the slash back that BindResource dropped.
BoundAlike ==
    \A c \in Conns : Negotiated(c) =>
        /\ Printed(sjid[c]) = Printed(cjid[c])
        /\ sjid[c].Username = user[c]

\* A header is answered to the JID it came from, letter by letter, also after
\* the JID was changed by SASL and by a binding in between.
AnsweredByName ==
    \A c \in Conns : wire[c].kind \in {"mechanisms", "bind", "none"} => answer[c] = Address(cjid[c])

\* Who has negotiated is found under the JID the client knows of itself, unless
\* its entry was lost to an append at the same time.
FoundByOwnJid ==
    \A c \in Conns : Negotiated(c) /\ c \notin raced => FindPart(Parsed(Printed(cjid[c]))) \in Conns

\* No part is listed that did not authenticate, none twice; every part that did
\* is listed, except one whose append overlapped another; and appends that
\* overlapped do not lose them all: once one is over somebody is listed.
ListedUnlessRaced ==
    LET listed == {parts[i] : i \in DOMAIN parts}
        over   == {c \in Conns : stage[c] \in {"listed", "bound"}}
    IN  /\ listed \subseteq {c \in Conns : named[c] # <<>>} \cap {c \in Conns : stage[c] # "appending"}
        /\ Len(parts) = Cardinality(listed)
        /\ over \ raced \subseteq listed
        /\ over # {} => listed # {}
=============================================================================
