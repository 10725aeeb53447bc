---------------------------- MODULE ParserInput ----------------------------
(***************************************************************************)
(* Parser on every input that is XML: the tokens a strict decoder makes of *)
(* it, the stanzas a reader of the same input would see, and what the      *)
(* parser makes of them.                                                   *)
(***************************************************************************)
EXTENDS Parser, SequencesExt

CONSTANTS
    Sizes,      \* of a token, in bytes: none is the end tag of <a/>
    MaxOffset,  \* bound: the length of the input
    MaxDepth    \* bound: how deep it is nested

ASSUME InputAssumption == Sizes \subseteq Nat /\ MaxOffset \in Nat /\ MaxDepth \in Nat

VARIABLES
    open,     \* the names of the tags the decoder has seen open
    heard,    \* the tags and texts of the stanza, while it lasts and when it ends
    began,    \* where it began
    whole,    \* no call of Next has returned since then
    ended,    \* it ends here
    torn      \* an </open> has come inside a stanza

input == <<open, heard, began, whole, ended, torn>>
vars  == <<pvars, input>>

Init ==
    /\ NewParser
    /\ open = <<>> /\ heard = <<>> /\ began = 0
    /\ whole = TRUE /\ ended = FALSE /\ torn = FALSE

\* How many of the first n tags that are open are elements of stanzas.
Elements(n) == Cardinality({i \in 1 .. n : open[i] \notin Headers})

Level == Elements(Len(open))

Hears(x) == heard' = IF Level = 0 THEN <<x>> ELSE Append(heard, x)

\* What a token is to the stanza that is open, if any.
Goes == UNCHANGED <<open, began, torn>> /\ ended' = FALSE
Kept == whole' = (whole /\ ret' = Going)

Room(n) == off + n <= MaxOffset

ReadsProcInst(n) == ProcInst(n) /\ Goes /\ Kept /\ UNCHANGED heard
ReadsComment(n)  == Ignores(n) /\ Goes /\ Kept /\ UNCHANGED heard

\* A CDATA section is a text of its own.
ReadsText(n) ==
    \E t \in Texts :
        /\ CharData(t, n)
        /\ IF Level > 0 THEN Hears(t) ELSE UNCHANGED heard
        /\ Goes /\ Kept

ReadsHeader(n) ==
    /\ Len(open) < MaxDepth
    /\ Header(n)
    /\ \E name \in Headers : open' = Append(open, name)
    /\ ended' = FALSE /\ Kept /\ UNCHANGED <<heard, began, torn>>

ReadsStart(n) ==
    /\ Len(open) < MaxDepth
    /\ \E name \in Names :
           /\ startElement(name, n)
           /\ open' = Append(open, name)
           /\ Hears(name)
    /\ began' = IF Level = 0 THEN off ELSE began
    /\ whole' = IF Level = 0 THEN TRUE ELSE whole
    /\ ended' = FALSE /\ UNCHANGED torn

\* A strict decoder takes no end tag but that of the last tag that is open, and
\* makes one up for a tag like <a/>, of no bytes.
ReadsEnd(n) ==
    /\ open # <<>> /\ Last(open) \in Names
    /\ n = 0 => Last(heard) \in Names
    /\ endElement(Last(open), n)
    /\ open' = Front(open)
    /\ Hears("/")
    /\ ended' = (Level = 1)
    /\ whole' = (whole /\ (ret' = Going \/ Level = 1))
    /\ UNCHANGED <<began, torn>>

ReadsEndHeader(n) ==
    /\ open # <<>> /\ Last(open) \in Headers
    /\ n = 0 => ret.kind = "header"
    /\ IF Last(open) = "stream" THEN EndStream(n) ELSE endElement("open", n)
    /\ open' = Front(open)
    /\ torn' = (torn \/ (Last(open) = "open" /\ Level > 0))
    /\ ended' = FALSE /\ Kept /\ UNCHANGED <<heard, began>>

\* Once a token has been refused, whatever comes is.
ReadsTooMuch(n) == Refuses(n) /\ UNCHANGED <<open, heard, began, torn>> /\ ended' = FALSE /\ Kept

InputEnds == Breaks /\ Goes /\ Kept /\ UNCHANGED heard

Reads ==
    \/ \E n \in Sizes :
           /\ Room(n)
           /\ \/ n > 0 /\ (ReadsProcInst(n) \/ ReadsComment(n) \/ ReadsText(n))
              \/ n > 0 /\ (ReadsHeader(n) \/ ReadsStart(n))
              \/ ReadsEnd(n) \/ ReadsEndHeader(n) \/ ReadsTooMuch(n)
    \/ InputEnds

Next == Reads /\ UNCHANGED maxStanzaSize

Spec == Init /\ [][Next]_vars

-----------------------------------------------------------------------------

\* A stanza without its texts.
Markup(s) ==
    LET m[i \in 0 .. Len(s)] == IF i = 0 THEN <<>>
                                ELSE IF s[i] \in Texts THEN m[i - 1]
                                ELSE Append(m[i - 1], s[i])
    IN  m[Len(s)]

\* Inside a stanza and outside, after errors as well, the stack has a builder
\* for every element that is open and pIndex is on the last, until an </open>
\* inside a stanza tears it.
StackMatches ==
    ~torn /\ ret.kind # "too large" =>
        /\ pIndex = Len(stack) - 1
        /\ Len(stack) = Level
        /\ \A i \in DOMAIN open : open[i] \notin Headers => stack[Elements(i)].name = open[i]

\* A stanza is returned when it ends and only then, with all its elements in
\* their places, whatever white space, headers, comments and errors came in
\* between.  (Its texts may be lost: one after a child, or before another one.)
StanzasReturned ==
    ~torn /\ ret.kind # "too large" =>
        /\ ended <=> ret.kind = "element"
        /\ ended => Markup(ret.elem) = Markup(heard)

\* Once a token has been refused for its size, every later one is: what the
\* limit has cut off never comes back as the start of something else.
TooLargeIsFinal ==
    [][ret = ErrTooLargeStanza => ret' \in {ErrTooLargeStanza, DecoderError}]_vars

\* A stanza that one call of Next has read from its first byte keeps the limit.
ReadAtOnceIsLimited ==
    ended /\ whole /\ ret.kind = "element" /\ maxStanzaSize > 0 =>
        off - began <= maxStanzaSize
=============================================================================
