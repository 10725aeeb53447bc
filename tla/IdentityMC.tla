------------------------------ MODULE IdentityMC ------------------------------
(* Values for Identity: a text is a sequence of characters. *)
EXTENDS Identity

TwoUsers  == {<<"a">>, <<"b">>}
OneDomain == <<"d">>

\* What a client's JID may hold: nothing, a resource, one with its slash, one
\* that makes a header no server takes.
SomeKept == {<<>>, <<"h">>, <<"/", "h">>, <<"h", "@">>}

\* Resources to ask for, none with an "@": what is bound then cannot be read.
Plain  == {<<>>, <<"r">>, <<"r", "/", "s">>, <<"/", "r">>}
==============================================================================
