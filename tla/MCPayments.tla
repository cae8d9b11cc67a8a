----------------------------- MODULE MCPayments ------------------------------
(***************************************************************************)
(* Small instances of Payments for TLC.                                    *)
(***************************************************************************)
EXTENDS Accounts

CONSTANTS m1, m2, b1, b2

PlainNames  == [m \in Miners |-> m]
ColonName   == [m \in Miners |-> IF m = m1 THEN m2 ELSE m]  \* m1 is "m2:..."
ApartHeight == [b \in Blocks |-> IF b = b1 THEN 1 ELSE 2]
SameHeight  == [b \in Blocks |-> 1]
Rewards     == [b \in Blocks |-> IF b = b1 THEN 7 * Grain ELSE 10 * Grain + 1]

(* An ordinary share of miner m, and one that finds block b. *)
Plain(m, d)    == [miner |-> m, diff |-> d, valid |-> TRUE, block |-> NoBlock, accepted |-> FALSE]
Finds(m, d, b) == [Plain(m, d) EXCEPT !.block = b, !.accepted = TRUE]

TwoBlocks  == {Plain(m1, 1), Plain(m2, 2), Finds(m1, 1, b1), Finds(m2, 1, b2)}
OneBlock   == {Plain(m1, 1), Plain(m2, 2), Finds(m1, 1, b1)}
(* with an invalid share and a block the daemons do not take *)
SomeWasted == {[Plain(m1, 1) EXCEPT !.valid = FALSE], [Plain(m2, 1) EXCEPT !.block = b2]}
              \cup {Finds(m1, 1, b1), Finds(m2, 2, b2)}

==============================================================================
