------------------------------ MODULE MCVarDiff ------------------------------
(***************************************************************************)
(* VarDiff for TLC: both modes, a variance under one (0.3) and, as in the  *)
(* shipped configurations, over one (2), buffers of four and eight         *)
(* samples, and one whose size comes out as 0.                             *)
(***************************************************************************)
EXTENDS VarDiff

Port == [TargetTime |-> 2, RetargetTime |-> 4, tenths |-> 3, MinDiff |-> 5, MaxDiff |-> 64, start |-> 16,
         X2Mode |-> TRUE]

MCOptions == {[Port EXCEPT !.X2Mode = x, !.tenths = v, !.RetargetTime = r] :
                x \in BOOLEAN, v \in {3, 20}, r \in {1, 2, 4}}
==============================================================================
