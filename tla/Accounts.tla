------------------------------ MODULE Accounts -------------------------------
(***************************************************************************)
(* What the payout processor owes its miners, computed from the history of *)
(* shares alone, and the properties that compare the ledger with it.       *)
(***************************************************************************)
EXTENDS Payments

(* The work of miner m in the shares K of the history. *)
WorkOf(m, K) == SumFunction([k \in {k \in K : recorded[k].miner = m} |-> recorded[k].diff])

(* The share that sealed the round of block b, and the shares of the round  *)
(* that the i-th share belongs to, up to it: those with no seal in between. *)
Sealing(b) == CHOOSE k \in DOMAIN recorded : recorded[k].seal = b
RoundUpTo(i) == {k \in 1..i : \A j \in k..(i - 1) : recorded[j].seal = NoBlock}

(* The round of block b as the history has it. *)
RoundShares(b) == [m \in Miners |-> WorkOf(m, RoundUpTo(Sealing(b)))]

(* The shares of the window that ends at the block-finding share: the       *)
(* shortest stretch of the history that reaches PPLNSWindow, or all of it.  *)
WindowShares(b) ==
  LET i       == Sealing(b)
      Work(k) == SumFunction([x \in k..i |-> recorded[x].diff])
      full    == {k \in 1..i : Work(k) >= PPLNSWindow}
      from    == IF full = {} THEN 1 ELSE Max(full)
  IN  [m \in Miners |-> WorkOf(m, from..i)]

(* Whose work a block rewards, by pay mode, and in what proportion. *)
Deserved(pb) ==
  CASE PayMode = "solo" -> [m \in Miners |-> IF m = pb.finder THEN 1 ELSE 0]
    [] PayMode = "pplns" /\ PPLNSWindow > 0 -> WindowShares(pb.hash)
    [] OTHER -> RoundShares(pb.hash)

Earned(pb, m) ==
  (CoinToSat(Reward[pb.hash]) * Deserved(pb)[m]) \div SumFunction(Deserved(pb))

(* What the blocks of S, confirmed, earned miner m. *)
Credits(m, S) == SumFunction([pb \in S |-> Earned(pb, m)])

(* Shares are written under the rank cap, in pps mode too while its flag is *)
(* not set yet: harmless as long as the log has not reached it.             *)
CapNeverBit == \A k \in DOMAIN recorded : recorded[k].capped => k <= LogCap

(* processPayments, settle, ApplyPayments: each confirmed block's reward is *)
(* credited exactly once, to the miners whose shares earned it, and what a  *)
(* miner was credited is either in the balance or paid out; fees withheld,  *)
(* failed runs and resumed runs neither create nor lose a satoshi.  A pplns *)
(* window is read from the log, so there the cap must not have bitten.      *)
EachBlockCreditedOnce ==
  (Windowed => CapNeverBit) =>
    \A m \in Miners :
      balances[m] + payouts[m] = SatToCoin(Credits(m, confirmed))

(* putShareNow, ApplyPayments (redis.go:68-72, 145-157): for as long as a   *)
(* block is pending its sealed round holds exactly the shares recorded      *)
(* before it and since the previous seal.                                   *)
SealedRoundExact ==
  \A pb \in pending : rounds[HeightOf[pb.hash]] = RoundShares(pb.hash)

PPSWork(m, upto) ==
  WorkOf(m, {k \in DOMAIN recorded : recorded[k].seq <= upto})

(* processPPS (payer.go:326-386): every share up to the cursor has been     *)
(* credited exactly once at the pps rate, however shares, runs and failures *)
(* interleave.                                                              *)
EachShareCreditedOnce ==
  CapNeverBit =>
    \A m \in Miners : balances[m] + payouts[m] = PPSWork(m, cursor) * PPSRate

-----------------------------------------------------------------------------
(* The processor implements PayoutLedger.  A run takes effect when its      *)
(* payments are broadcast, long before redis says so: from then on the      *)
(* intent, not the ledger keys, tells what the miners are owed and which    *)
(* blocks are settled.  A run that pays nobody takes effect when applied.   *)
LedgerOpen ==
  Hashes(IF outstanding THEN pending \ (intent.update.Confirmed \cup intent.update.Orphaned)
                        ELSE pending)
LedgerConfirmed == Hashes(IF outstanding THEN confirmed \cup intent.update.Confirmed ELSE confirmed)
LedgerOrphaned  == Hashes(IF outstanding THEN orphaned \cup intent.update.Orphaned ELSE orphaned)
LedgerClaim ==
  [b \in Blocks |-> [m \in Miners |->
     SatToCoin(Credits(m, {pb \in pending \cup confirmed \cup orphaned : pb.hash = b}))]]
LedgerOwed == IF outstanding THEN intent.update.Balances ELSE balances

Ledger == INSTANCE PayoutLedger WITH
  open <- LedgerOpen, confirmed <- LedgerConfirmed, orphaned <- LedgerOrphaned,
  claim <- LedgerClaim, owed <- LedgerOwed, paid <- sent

(* settle, reconcile, ApplyPayments (payer.go:209-548, redis.go:281-339):   *)
(* as far as miners can see, whatever fails in between, a payout run        *)
(* happens all at once and once only: it confirms or orphans blocks, pays   *)
(* part of what is owed and carries the rest over.                          *)
RunsAreAtomic == Ledger!Spec
==============================================================================
