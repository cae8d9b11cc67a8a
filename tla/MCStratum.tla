------------------------------ MODULE MCStratum ------------------------------
(***************************************************************************)
(* Stratum for TLC: the session of one connection and a broadcast that is  *)
(* under way at the same time.                                             *)
(***************************************************************************)
EXTENDS Stratum, TLC

MCDiffs == {2, 8}
(* below the starting difficulty, within one percent of it, between it and  *)
(* the higher one, a block                                                  *)
MCAchieved == {1, 5, 20}
==============================================================================
