------------------------------ MODULE MCUiLoop ------------------------------
(***************************************************************************)
(* Situations for the runs of UiLoop.                                      *)
(***************************************************************************)
EXTENDS UiLoop

CONSTANTS i1, i2, i3, a, b

Plain(d, s) == [dst |-> d, src |-> s, names |-> FALSE, by |-> NoProgram]

\* Connections to three addresses, of which two slots are for.
Lookups3 == [packets |-> {Plain(i1, i2), Plain(Local, i3)}, arp |-> {},
             programs |-> {}, limits |-> {NoLimit}, queue |-> 1]

\* A device that is heard and names itself in a DHCP request.
Joining == [packets |-> {[Plain(i1, Local) EXCEPT !.names = TRUE]}, arp |-> {Local},
            programs |-> {}, limits |-> {NoLimit}, queue |-> 2]

\* A busy network.
Busy == [packets |-> {Plain(Local, Local)}, arp |-> {Local}, programs |-> {},
         limits |-> {NoLimit, 0, 1, 3}, queue |-> 2]

\* A local port that one program after the other uses.
Owners == [packets |-> {[Plain(Local, Local) EXCEPT !.by = p] : p \in {a, b}}, arp |-> {},
           programs |-> {a, b}, limits |-> {NoLimit}, queue |-> 1]

MCNetwork == {Lookups3, Joining, Busy, Owners}

MCOwners == {Owners}
=============================================================================
