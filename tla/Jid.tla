--------------------------------- MODULE Jid ---------------------------------
(***************************************************************************)
(* JIDs (channel.go): ParseJID, String and Equal.  A text is a sequence of *)
(* characters, of which only "@" and "/" matter.                           *)
(***************************************************************************)
EXTENDS Integers, Sequences, FiniteSetsExt

JID(u, d, r) == [Username |-> u, Domain |-> d, Resource |-> r]
NoJID == JID(<<>>, <<>>, <<>>)

Where(c, text) == {i \in DOMAIN text : text[i] = c}

\* strings.Split(src, "@") has two parts.
IsJID(src) == \E i \in DOMAIN src : Where("@", src) = {i}

\* The resource keeps its slash; without one, the resource of jid stays.  A
\* slash right after the "@" is part of the domain.
ParseJID(src, jid) ==
    LET at    == CHOOSE i \in DOMAIN src : src[i] = "@"
        v     == SubSeq(src, at + 1, Len(src))
        slash == Where("/", v)
    IN  IF slash # {} /\ Min(slash) > 1
        THEN JID(SubSeq(src, 1, at - 1), SubSeq(v, 1, Min(slash) - 1), SubSeq(v, Min(slash), Len(v)))
        ELSE [jid EXCEPT !.Username = SubSeq(src, 1, at - 1), !.Domain = v]

\* strings.Trim(text, "/")
Trim(text) ==
    LET kept == DOMAIN text \ Where("/", text)
    IN  IF kept = {} THEN <<>> ELSE SubSeq(text, Min(kept), Max(kept))

\* Mutant: the resource is printed as it is kept.
PrintedRaw(jid) ==
    IF jid.Resource # <<>>
    THEN jid.Username \o <<"@">> \o jid.Domain \o <<"/">> \o jid.Resource
    ELSE jid.Username \o <<"@">> \o jid.Domain

\* JID.String
Printed(jid) ==
    IF Trim(jid.Resource) # <<>>
    THEN jid.Username \o <<"@">> \o jid.Domain \o <<"/">> \o Trim(jid.Resource)
    ELSE jid.Username \o <<"@">> \o jid.Domain

Equal(a, b) == a.Username = b.Username /\ a.Domain = b.Domain /\ a.Resource = b.Resource
=============================================================================
