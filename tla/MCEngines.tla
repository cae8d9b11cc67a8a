------------------------------ MODULE MCEngines ------------------------------
(* Two miners, two nonces: the better one meets the network target.  Each   *)
(* budget spends on one side: the work, the submits, the retargets.         *)
EXTENDS Engines

MCAchieved == [n \in Nonces |-> 2 * n]

Budget(submits, retargets, revisions, pushes, subscribes, stalls, events) ==
  [submits |-> submits, retargets |-> retargets, revisions |-> revisions, pushes |-> pushes,
   subscribes |-> subscribes, stalls |-> stalls, events |-> events]

MCBudgets == {Budget(0, 0, 0, 0, 3, 0, FALSE), Budget(0, 0, 1, 2, 2, 1, FALSE), Budget(0, 0, 1, 2, 1, 1, TRUE),
              Budget(1, 0, 2, 2, 1, 0, FALSE), Budget(2, 0, 0, 1, 2, 0, FALSE), Budget(2, 0, 1, 1, 1, 0, FALSE),
              Budget(2, 1, 0, 0, 2, 0, FALSE)}
=============================================================================
