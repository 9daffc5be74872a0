------------------------------ MODULE MCIngest ------------------------------
EXTENDS Ingest

CONSTANTS prov1, prov2

\* Two routes share a provider; the second one repeats and names it twice.
High == [name |-> "high", policy |-> [window |-> 0, repeat |-> -1], providers |-> <<prov1>>]
Low  == [name |-> "low", policy |-> [window |-> -1, repeat |-> 1], providers |-> <<prov1, prov2, prov1>>]

\* The second route matches every event, the first one not the resolved ones.
MCMatched == [s \in Statuses |-> {IF s = "resolved" THEN <<Low>> ELSE <<High, Low>>}]

MCDirect == {<<prov1, prov2, prov1>>}
=============================================================================
