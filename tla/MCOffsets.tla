----------------------------- MODULE MCOffsets -----------------------------
EXTENDS Offsets

\* Two spans in a message; a span that raises between others; a message that is not
\* JSON; and one whose span comes from a clock that is behind.
FourMessages == <<<<1, 2>>, <<3, 4, 5>>, <<>>, <<6, 7>>>>
Kinds7 == <<"span", "span", "span", "poison", "span", "nobody", "span">>
Times7 == <<3, 4, 5, 5, 6, 7, 2>>
=============================================================================
