------------------------------- MODULE Stanzas -------------------------------
(***************************************************************************)
(* Stanzas and the binding of a resource as Go values, and as the XML      *)
(* elements that are sent (stanza.go, bind_feature.go).  ToElem makes an   *)
(* element of a value; FromElem reads one into a value that may hold what  *)
(* an earlier call left there, and may fail half way.  A text is a         *)
(* sequence of characters, and a word like "set" is one of them.           *)
(***************************************************************************)
EXTENDS Naturals, Sequences

None == <<>>

TypeSet    == <<"set">>
TypeResult == <<"result">>
NSBind     == <<"bind ns">>

-----------------------------------------------------------------------------
(* Elements of stravaganza.  An attribute that is missing reads as "".     *)

NoAttrs == [a \in {"type", "id", "from", "to", "xmlns"} |-> None]

Elem(name, attrs, kids) == [name |-> name, attrs |-> attrs, kids |-> kids, text |-> None]
Leaf(name, text)        == [name |-> name, attrs |-> NoAttrs, kids |-> <<>>, text |-> text]

Named(e, n) == {i \in DOMAIN e.kids : e.kids[i].name = n}
HasChild(e, n) == Named(e, n) # {}
Child(e, n) == e.kids[CHOOSE i \in Named(e, n) : \A j \in Named(e, n) : i <= j]

-----------------------------------------------------------------------------
(* What FromElem returns: the value it leaves, and whether it succeeded.   *)

Read(v)    == [ok |-> TRUE,  val |-> v]
Refused(v) == [ok |-> FALSE, val |-> v]

Stanza(n, t, i, f, to) == [Name |-> n, Type |-> t, ID |-> i, From |-> f, To |-> to]

StanzaToElem(s, kids) ==
    Elem(s.Name, [NoAttrs EXCEPT !["type"] = s.Type, !["id"] = s.ID,
                                 !["from"] = s.From, !["to"] = s.To], kids)

\* The name is overwritten before it is compared.
StanzaFromElem(s, e, name) ==
    IF e.name # name THEN Refused([s EXCEPT !.Name = e.name])
    ELSE Read(Stanza(e.name, e.attrs["type"], e.attrs["id"], e.attrs["from"], e.attrs["to"]))

IqBind(s, r, j) == [IQ |-> s, Resource |-> r, JID |-> j]
NoIqBind == IqBind(Stanza("", None, None, None, None), None, None)

IqBindToElem(ib) ==
    LET kids == IF ib.IQ.Type = TypeSet /\ ib.Resource # None
                THEN <<Leaf("resource", ib.Resource)>>
                ELSE IF ib.IQ.Type = TypeResult /\ ib.JID # None
                     THEN <<Leaf("jid", ib.JID)>> ELSE <<>>
    IN  StanzaToElem(ib.IQ, <<Elem("bind", [NoAttrs EXCEPT !["xmlns"] = NSBind], kids)>>)

\* A <bind/> without <resource/> leaves the resource of an earlier one.
IqBindFromElem(ib, e) ==
    LET r == StanzaFromElem(ib.IQ, e, "iq")
        m == [ib EXCEPT !.IQ = r.val]
        b == Child(e, "bind")
    IN  IF ~r.ok \/ ~HasChild(e, "bind") THEN Refused(m)
        ELSE IF b.attrs["xmlns"] # NSBind THEN Refused(m)
        ELSE IF HasChild(b, "resource") THEN Read([m EXCEPT !.Resource = Child(b, "resource").text])
        ELSE IF HasChild(b, "jid") THEN Read([m EXCEPT !.JID = Child(b, "jid").text])
        ELSE Read(m)
=============================================================================
