------------------------------- MODULE MCRtc -------------------------------
(* Instances of Rtc for TLC. *)
EXTENDS Rtc

MCRequests == {1, 2, 3, 4, 8}
============================================================================
