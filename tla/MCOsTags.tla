------------------------------ MODULE MCOsTags ------------------------------
EXTENDS OsTags

\* Guesses of three kinds, and requests with and without a guess, recognised
\* and not.
MCPacket == {[ttl |-> 64, window |-> "other", fp |-> "none"],
             [ttl |-> 64, window |-> "65535", fp |-> "none"],
             [ttl |-> 128, window |-> "64240", fp |-> "none"],
             [ttl |-> 64, window |-> "other", fp |-> "[iOS]"],
             [ttl |-> 0, window |-> "none", fp |-> "[Win]"],
             [ttl |-> 0, window |-> "none", fp |-> "unknown"]}
=============================================================================
