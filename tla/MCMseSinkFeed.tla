----------------------------- MODULE MCMseSinkFeed -----------------------------
(***************************************************************************)
(* All the cases of MseSinkFeed, with the faults each is there to catch.   *)
(***************************************************************************)
EXTENDS MseSinkFeed

AllCases == DOMAIN Suite
Caught(c) == Suite[c].catches

\* Five frames as x264enc may put them: I P B B P.
DecodeOrder == [i \in 0 .. 4 |-> <<0, 3, 1, 2, 4>>[i + 1]]
===============================================================================
