------------------------------- MODULE Client --------------------------------
(***************************************************************************)
(* What a stratum connection keeps of its own shares, and the ban decision *)
(* taken on them (stratum/client.go, stratum/shares.go).  Both dialects,   *)
(* the bitcoin one and the engines', use it.                               *)
(***************************************************************************)
EXTENDS Naturals

CONSTANTS CheckThreshold,   \* banning.checkThreshold: shares before a check
          InvalidPercent    \* banning.invalidPercent

ASSUME BanningOptions == CheckThreshold \in Nat /\ InvalidPercent \in 0..100

NoShares == [valid |-> 0, invalid |-> 0]

TotalShares(shares) == shares.valid + shares.invalid

(* BadPercent() >= InvalidPercent, without the division *)
TooManyBad(shares) == shares.invalid * 100 >= InvalidPercent * TotalShares(shares)

Count(shares, ok) ==
  IF ok THEN [shares EXCEPT !.valid = @ + 1] ELSE [shares EXCEPT !.invalid = @ + 1]

(* ShouldBan: only a bad share is a reason to look, and a check that does   *)
(* not ban starts the count anew.                                           *)
Checked(shares, ok) == ~ok /\ TotalShares(Count(shares, ok)) >= CheckThreshold

ShouldBan(shares, ok) == Checked(shares, ok) /\ TooManyBad(Count(shares, ok))

Tally(shares, ok) ==
  IF Checked(shares, ok) /\ ~ShouldBan(shares, ok) THEN NoShares ELSE Count(shares, ok)

(* The first of a list of errors, as the early returns of a handler give it *)
Refuse(condition, code) == IF condition THEN <<code>> ELSE <<>>
==============================================================================
