------------------------------ MODULE MCVideo ------------------------------
(* Instances of Video for TLC.  A frame keeps whose mark is on it, so one   *)
(* mark per terminal tells a foreign, an old and a cleared screen apart.    *)
EXTENDS Video

MCMarks == {1}

\* What the frames show influences nothing but what they show later, so a
\* behaviour need not be followed once a screen is spoilt: without its output
\* it reaches the same pages.
MCUntilSpoilt == ~spoilt
============================================================================
