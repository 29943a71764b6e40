--------------------------- MODULE MCClearKeySession ---------------------------
(***************************************************************************)
(* Key ids for TLC: a short one, and a long one that is cut down to it when *)
(* its length is narrowed (a length of 3 in a one-bit counter stands for    *)
(* 257 in a uint8_t).                                                       *)
(***************************************************************************)
EXTENDS ClearKeySession

MCKeyIds == {<<1>>, <<1, 2, 3>>}
===============================================================================
