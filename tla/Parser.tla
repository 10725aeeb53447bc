------------------------------- MODULE Parser -------------------------------
(***************************************************************************)
(* Parser (parser.go): a loop over the tokens of an XML decoder that hands *)
(* out stream headers, closing tags and white space as they are, and       *)
(* stanzas as elements once they are complete.  A token is a step; ret is  *)
(* what the call of Next it belongs to has returned.  The caller may call  *)
(* Next again after an error, as a reader of a failed SASL exchange does.  *)
(*                                                                         *)
(* An element is the sequence of its tags and texts, its text before its   *)
(* children, the way GoString prints it.                                   *)
(***************************************************************************)
EXTENDS Integers, Sequences

CONSTANTS
    Names,   \* names of elements that are not headers
    Limits   \* limits in bytes, 0 for none

Headers == {"stream", "open"}

ASSUME ParserAssumption == Limits \subseteq Nat /\ Names \cap Headers = {}

VARIABLES
    maxStanzaSize,
    off,         \* dec.InputOffset()
    stack,       \* the builders of the elements that are open
    pIndex,      \* the index of the last of them, from 0, or rootElementIndex
    inElement,
    lastOffset,
    ret          \* what Next has returned; "going" while it has not

parser == <<stack, pIndex, inElement>>
pvars  == <<maxStanzaSize, off, parser, lastOffset, ret>>

rootElementIndex == -1

Texts == {"space", "word"}

Going              == [kind |-> "going", elem |-> <<>>]
Token(k)           == [kind |-> k, elem |-> <<>>]
Element(e)         == [kind |-> "element", elem |-> e]
ErrNoElement       == Token("no element")
ErrTooLargeStanza  == Token("too large")
ErrUnexpectedEnd   == Token("unexpected end")
DecoderError       == Token("decoder error")
Panic              == Token("panic")
ErrStreamClosedByPeer == Token("closed by peer")

NewParser ==
    /\ maxStanzaSize \in Limits
    /\ off = 0 /\ lastOffset = 0 /\ ret = Going
    /\ stack = <<>> /\ pIndex = rootElementIndex /\ inElement = FALSE

-----------------------------------------------------------------------------
(* Builders, which stravaganza provides *)

Builder(n) == [name |-> n, text |-> <<>>, kids |-> <<>>]

WithText(b, t)  == [b EXCEPT !.text = <<t>>]
WithChild(b, e) == [b EXCEPT !.kids = @ \o e]

Build(b) == <<b.name>> \o b.text \o b.kids \o <<"/">>

\* p.stack[p.pIndex]
Top == stack[pIndex + 1]
WithTop(b) == [stack EXCEPT ![pIndex + 1] = b]

\* An index that is out of range ends the process.
Torn == pIndex >= Len(stack)

-----------------------------------------------------------------------------
(* How a step of Next ends: it goes on, returns a token, or an error.      *)

\* Mutant: the limit is for a token.
GoesOnFrom == ret' = Going /\ lastOffset' = off'

GoesOn == ret' = Going /\ UNCHANGED lastOffset
Returns(r) == ret' = r /\ lastOffset' = off'
Fails(r) == ret' = r /\ UNCHANGED lastOffset

TooLarge == maxStanzaSize > 0 /\ off' - lastOffset > maxStanzaSize

\* Token returned something of n bytes, within the limit.
Consumes(n) == ret # Panic /\ ret # DecoderError /\ off' = off + n /\ ~TooLarge

\* Mutant: what is refused is skipped.
RefusesAndSkips(n) ==
    /\ ret # Panic /\ ret # DecoderError
    /\ off' = off + n /\ TooLarge
    /\ Returns(ErrTooLargeStanza)
    /\ UNCHANGED parser

Refuses(n) ==
    /\ ret # Panic /\ ret # DecoderError
    /\ off' = off + n /\ TooLarge
    /\ Fails(ErrTooLargeStanza)
    /\ UNCHANGED parser

\* An error of the decoder is returned before anything else and is final.
Breaks == Fails(DecoderError) /\ UNCHANGED <<off, parser>>

ProcInst(n) ==
    /\ Consumes(n)
    /\ IF inElement THEN Fails(ErrNoElement) ELSE Returns(Token("procinst"))
    /\ UNCHANGED parser

\* Comments and directives are in no case of the switch.
Ignores(n) == Consumes(n) /\ GoesOn /\ UNCHANGED parser

\* <stream> and <open>, wherever they are.
Header(n) == Consumes(n) /\ Returns(Token("header")) /\ UNCHANGED parser

startElement(name, n) ==
    /\ Consumes(n)
    /\ stack' = Append(stack, Builder(name))
    /\ pIndex' = Len(stack') - 1
    /\ inElement' = TRUE
    /\ GoesOn

CharData(t, n) ==
    /\ Consumes(n)
    /\ \/ /\ inElement /\ ~Torn
          /\ stack' = WithTop(WithText(Top, t)) /\ UNCHANGED <<pIndex, inElement>>
          /\ GoesOn
       \/ inElement /\ Torn /\ Fails(Panic) /\ UNCHANGED parser
       \/ ~inElement /\ t = "space" /\ Returns(Token("space")) /\ UNCHANGED parser
       \/ ~inElement /\ t # "space" /\ Fails(ErrNoElement) /\ UNCHANGED parser

\* </stream> is handed out wherever it is.
EndStream(n) == Consumes(n) /\ Returns(Token("end")) /\ UNCHANGED parser

\* Mutant: an element goes to the first that is open instead of its parent.
ClosesInFirst ==
    /\ stack' = IF pIndex = 0 THEN <<>>
                ELSE SubSeq([stack EXCEPT ![1] = WithChild(@, Build(Top))], 1, pIndex)
    /\ pIndex' = pIndex - 1
    /\ inElement' = FALSE
    /\ IF pIndex = 0 THEN Returns(Element(Build(Top))) ELSE GoesOn

\* Mutant: pIndex is left where it was.
ClosesKept ==
    /\ stack' = IF pIndex = 0 THEN <<>>
                ELSE SubSeq([stack EXCEPT ![pIndex] = WithChild(@, Build(Top))], 1, pIndex)
    /\ inElement' = FALSE
    /\ IF pIndex = 0 THEN Returns(Element(Build(Top))) ELSE GoesOn
    /\ UNCHANGED pIndex

\* closeElement for the element on top: it is built and goes to its parent, or
\* to the caller.  inElement is FALSE now, although the parent is still open.
Closes ==
    /\ stack' = IF pIndex = 0 THEN <<>>
                ELSE SubSeq([stack EXCEPT ![pIndex] = WithChild(@, Build(Top))], 1, pIndex)
    /\ pIndex' = pIndex - 1
    /\ inElement' = FALSE
    /\ IF pIndex = 0 THEN Returns(Element(Build(Top))) ELSE GoesOn

\* An end tag with no element open, or that is not the end of the one on top,
\* which has already been taken from the stack.
endElement(name, n) ==
    /\ Consumes(n)
    /\ \/ pIndex = rootElementIndex /\ Fails(ErrUnexpectedEnd) /\ UNCHANGED parser
       \/ pIndex # rootElementIndex /\ Torn /\ Fails(Panic) /\ UNCHANGED parser
       \/ /\ pIndex # rootElementIndex /\ ~Torn /\ Top.name # name
          /\ stack' = SubSeq(stack, 1, pIndex) /\ UNCHANGED <<pIndex, inElement>>
          /\ Fails(ErrUnexpectedEnd)
       \/ pIndex # rootElementIndex /\ ~Torn /\ Top.name = name /\ Closes
=============================================================================
