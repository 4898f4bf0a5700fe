--------------------------- MODULE MCReadHandler ---------------------------
(* Constants of the TLC runs of ReadHandler.                                *)
EXTENDS ReadHandler

MCNames == {<<"a">>, <<"s">>, <<"g">>, <<"e">>}

A  == <<<<"a">>>>                              \* one argument
SX == <<<<"s">>, <<>>, <<"x", "y">>>>          \* three, an empty one in the middle
G  == <<<<"g">>, <<"*">>>>                     \* two, the second one like a header
E  == <<<<"e">>, <<>>>>                        \* the last argument is empty
U  == <<<<"u">>>>                              \* the name is not in the table

\* Three requests; the second may be one the handler does not expect.
MCCommands == <<{SX, G}, {SX, G, E, U, <<>>}, {A, G}>>

\* The requests of the run with three of them in one read.
MCShort == <<{A}, {A, G}, {A, G}>>
=============================================================================
