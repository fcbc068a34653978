----------------------------- MODULE MCPayloads -----------------------------
EXTENDS Payloads

CONSTANTS
  MaxSize,      \* the longest message, and the longest end of one
  OptionBytes   \* the bytes of the options

\* A header of one byte and a question; the last one with an answer.
Beginnings ==
  {<<>>,
   <<0, 1, 1, 0, 1>>,                   \* a label
   <<0, 1, 2, 192, 0, 1>>,              \* a label, and a pointer to a root
   <<0, 1, 2, 192, 1, 1>>,              \* a label, and a pointer back to it
   <<0, 1, 1, 0, 1, 192, 1, 1, 1, 2>>}  \* an address for a compressed name

Ends(B, max) == UNION {[1..n -> B] : n \in 0..max}

MCMessages == {b \o e : b \in Beginnings, e \in Ends({0, 1, 2, 192}, MaxSize)}

\* Options of which none, a name, a list of parameters or an address comes first.
MCOptions == {b \o e : b \in {<<>>, <<1, 1, 2>>, <<2, 1, 0>>, <<3, 1, 0>>},
                      e \in Ends(OptionBytes, MaxSize)}
=============================================================================
