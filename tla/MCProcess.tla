----------------------------- MODULE MCProcess -----------------------------
(* Instances of Process for TLC.                                          *)
EXTENDS Process

\* The count stays between the roots and the pool until a call is torn: there
\* this bound does not bite.
MCCounts == 0 .. NumPids

\* With ticks anywhere the count drifts; executes stop when it has drifted
\* by one past either end.
MCDriftCounts == NumTerminals - 1 .. NumPids

\* Nothing is promised, and torn stays TRUE, once a tick has torn a call: the
\* state it leads to is checked and not left.
Untorn == ~torn

============================================================================
