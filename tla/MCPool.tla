------------------------------- MODULE MCPool --------------------------------
(***************************************************************************)
(* Pool for TLC: two daemons, two sessions.  The cells are as many as      *)
(* goroutines and job ids can refer to at once.                            *)
(***************************************************************************)
EXTENDS Pool, TLC

MCCells == 1..8

(* Two sessions with extranonces of their own, or the same by chance; one *)
Own == [s \in Sessions |-> s]
Same == [s \in Sessions |-> "same"]
Alone == [s \in {CHOOSE t \in Sessions : TRUE} |-> s]

Quiet == [height |-> 0, revs |-> 0, faults |-> 0, seconds |-> 0, submits |-> 0, lacks |-> FALSE,
          noSubmitBlock |-> FALSE, p2p |-> FALSE, polls |-> FALSE, extraNonce1 |-> Own,
          nonces |-> {"share", "block"}, spellings |-> {"lower"}]

(* What happens besides the pool's own steps, a scenario at a time: the     *)
(* chain moves under the poller; the poller replaces a job under a session; *)
(* a share is spelt in two ways; sessions race; a call fails at start-up, a *)
(* poll or a call after a block fails or is never answered.                 *)
MCScenarios ==
  {[Quiet EXCEPT !.height = 1, !.polls = TRUE],
   [Quiet EXCEPT !.height = 1, !.polls = TRUE, !.faults = 1],
   [Quiet EXCEPT !.submits = 2, !.extraNonce1 = Alone, !.nonces = {"share"}, !.spellings = {"lower", "upper"}],
   [Quiet EXCEPT !.revs = 1, !.polls = TRUE],
   [Quiet EXCEPT !.submits = 2, !.polls = TRUE, !.extraNonce1 = Alone, !.nonces = {"share"}],
   [Quiet EXCEPT !.submits = 1, !.polls = TRUE, !.seconds = 1, !.extraNonce1 = Alone, !.nonces = {"share"}]}
  \union {[Quiet EXCEPT !.submits = 3, !.extraNonce1 = x, !.nonces = {"share"}] : x \in {Own, Same}}
  \union {[Quiet EXCEPT !.faults = 1, !.lacks = b, !.noSubmitBlock = c, !.p2p = p] : b, c, p \in BOOLEAN}
  \union {[Quiet EXCEPT !.submits = 2, !.height = h, !.faults = 1 - h, !.nonces = {"block"}] : h \in 0..1}
  \union {[Quiet EXCEPT !.submits = 1, !.height = 1, !.faults = 1, !.nonces = {"block"}, !.lacks = b] : b \in BOOLEAN}
==============================================================================
