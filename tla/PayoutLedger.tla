---------------------------- MODULE PayoutLedger -----------------------------
(***************************************************************************)
(* What the payout processor promises, with nothing said of shares, redis, *)
(* intents or failures: every block found carries one claim per miner; a   *)
(* payout run judges some open blocks, credits the claims of those it      *)
(* confirms, and turns part of what miners are owed into payments, all in  *)
(* one step.                                                               *)
(***************************************************************************)
EXTENDS Integers, Functions

CONSTANTS Miners, Blocks

VARIABLES
  open,       \* blocks found and not judged yet
  confirmed,  \* blocks whose reward was credited
  orphaned,   \* blocks that pay nothing
  claim,      \* claim[b][m]: what m earned with block b
  owed,       \* owed[m]: credited and not paid yet
  paid        \* paid[m]: sent to m on the chain

vars == <<open, confirmed, orphaned, claim, owed, paid>>

Nothing == [m \in Miners |-> 0]

Init ==
  /\ open = {} /\ confirmed = {} /\ orphaned = {}
  /\ claim = [b \in Blocks |-> Nothing]
  /\ owed = Nothing
  /\ paid = Nothing

(* A block is found; the work done for it fixes the claims. *)
Record(b) ==
  /\ b \notin open \cup confirmed \cup orphaned
  /\ open' = open \cup {b}
  /\ \A c \in Blocks \ {b} : claim'[c] = claim[c]
  /\ UNCHANGED <<confirmed, orphaned, owed, paid>>

(* One payout run: C is confirmed, O orphaned. *)
Run(C, O) ==
  /\ C \cap O = {}
  /\ open' = open \ (C \cup O)
  /\ confirmed' = confirmed \cup C
  /\ orphaned' = orphaned \cup O
  /\ \A m \in Miners :
       /\ paid'[m] >= paid[m]
       /\ owed'[m] >= 0
       /\ owed'[m] + paid'[m] =
            owed[m] + paid[m] + SumFunction([b \in C |-> claim[b][m]])
  /\ UNCHANGED claim

Next ==
  \/ \E b \in Blocks : Record(b)
  \/ \E C, O \in SUBSET open : Run(C, O)

Spec == Init /\ [][Next]_vars
==============================================================================
