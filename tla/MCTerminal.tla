---------------------------- MODULE MCTerminal ----------------------------
(* An instance of Terminal for TLC.  The letter's codes are those that a    *)
(* store past the buffer turns into sizes: one short of full, and one.     *)
EXTENDS Terminal

MCLetters == {"l"}
MCCode == [c \in Keys |-> IF c = NL \/ c[2] = 0 THEN 1 ELSE 0]
===========================================================================
