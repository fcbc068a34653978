------------------------------ MODULE MCPanels ------------------------------
EXTENDS Panels

\* The text of "ten" (10.0.0.1) occurs in the text of "eleven" (10.0.0.11).
MCAddress == {"ten", "eleven"}
MCWithin(a, b) == a = b \/ (a = "ten" /\ b = "eleven")

\* The two public addresses of the radar may have one name.
MCLabelings ==
  {[ip \in NodeAddr |-> ip], [ip \in NodeAddr |-> IF ip = 4 THEN 3 ELSE ip]}
=============================================================================
