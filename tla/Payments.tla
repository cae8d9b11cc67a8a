------------------------------ MODULE Payments -------------------------------
(***************************************************************************)
(* The payout processor (payments/payer.go) running against the pool's     *)
(* redis (module Storage), next to the goroutine that records shares, the  *)
(* chain, and the payment daemon's wallet.                                 *)
(*                                                                         *)
(* The payer is one goroutine.  pc is where it stands between two          *)
(* interactions with redis or the wallet; it reads balances, the cursor    *)
(* and the intent that only it writes, so a read of them may be merged     *)
(* with the step before it.                                                *)
(***************************************************************************)
EXTENDS Storage

CONSTANTS
  Shares,        \* the shares miners may submit, as ProcessSubmit judged them
  PayMode,       \* "prop", "pplns", "solo" or "pps"
  PPLNSWindow,   \* pplns look-back, in difficulty; 0: the block's own round
  PPSRate,       \* pps price of a unit of difficulty, in coin
  MinPayment,    \* payout threshold, in satoshis
  Reward,        \* Reward[b]: what b's coinbase pays the pool address, in coin
  Payable,       \* the miner names that are addresses the wallet can pay
  SharedDaemon,  \* the payment daemon is the daemon that accepts the blocks
  Faults,        \* the kinds of failure that may happen
  MaxFaults,     \* bound on the number of failures
  MaxShares      \* bound on the shares submitted

FaultKinds == {"crash", "writer", "redis", "rpc", "reject", "fees", "addr"}

ASSUME PaymentsAssumption ==
  /\ Shares \subseteq Share
  /\ \A s \in Shares : s.accepted => s.block # NoBlock
  /\ \A s \in Shares : s.block # NoBlock => s.valid
  /\ PayMode \in {"prop", "pplns", "solo", "pps"}
  /\ PPLNSWindow \in Nat
  /\ PPSRate \in Nat
  /\ PayMode = "pps" => PPSRate > 0
  /\ MinPayment \in Nat
  /\ Reward \in [Blocks -> Nat]
  /\ Payable \subseteq Miners
  /\ SharedDaemon \in BOOLEAN
  /\ Faults \subseteq FaultKinds
  /\ MaxFaults \in Nat
  /\ MaxShares \in Nat

VARIABLES
  (* the payer goroutine's memory *)
  pc,          \* "down" until PaymentManager.Init, "idle" between runs
  todo,        \* pendingBlocks still to classify in this run
  workers,     \* workers[m]: m's Balance and Reward, in satoshis
  update,      \* the PaymentUpdate under construction
  withhold,    \* percentage withheld for fees
  validAddr,   \* the cache of validRecipient
  (* outside the process *)
  chain,       \* chain[b]: not mined, on the main chain, deep in it, or off it
  walletKnows, \* blocks whose coinbase the payment wallet has seen
  sent,        \* sent[m]: what the wallet has broadcast to m, in coin
  (* history and bounds *)
  outstanding, \* the intent's payments were broadcast and are not in payouts
  everOff,     \* blocks that have been off the main chain
  erred,       \* blocks whose getblock was answered with an error by a node that has them
  submitted,   \* number of shares submitted
  faults       \* number of failures so far

runVars == <<todo, workers, update, withhold>>
envVars == <<chain, walletKnows, everOff, erred, submitted>>
vars    == <<storageVars, pc, runVars, validAddr, envVars, sent, outstanding, faults>>

Worker == [Balance : Nat, Reward : Nat]
Idler  == [m \in Miners |-> [Balance |-> 0, Reward |-> 0]]

(* Type correctness of the payer, its storage and its surroundings. *)
TypeOK ==
  /\ StorageTypeOK
  /\ pc \in {"down", "idle", "read", "pending", "classify", "settle",
             "intent", "send", "stamp", "apply"}
  /\ todo \subseteq PendingBlock
  /\ workers \in [Miners -> Worker]
  /\ update \in PaymentUpdate
  /\ withhold \in 0..99
  /\ validAddr \in [Miners -> {"unknown", "valid", "invalid"}]
  /\ chain \in [Blocks -> {"none", "young", "mature", "off"}]
  /\ walletKnows \subseteq Blocks
  /\ sent \in [Miners -> Nat]
  /\ outstanding \in BOOLEAN
  /\ everOff \subseteq Blocks
  /\ erred \subseteq Blocks
  /\ submitted \in Nat
  /\ faults \in Nat

Init ==
  /\ StorageInit
  /\ pc = "down"
  /\ todo = {} /\ workers = Idler /\ update = EmptyUpdate /\ withhold = 0
  /\ validAddr = [m \in Miners |-> "unknown"]
  /\ chain = [b \in Blocks |-> "none"]
  /\ walletKnows = {}
  /\ sent = Zero
  /\ outstanding = FALSE
  /\ everOff = {}
  /\ erred = {}
  /\ submitted = 0
  /\ faults = 0

Fault(kind) ==
  /\ kind \in Faults
  /\ faults < MaxFaults
  /\ faults' = faults + 1

NoFault == faults' = faults

-----------------------------------------------------------------------------
(* The surroundings: miners, the chain, the wallet's view of it.           *)

OnChain(b) == chain[b] \in {"young", "mature"}

(* One block of a height is on the main chain. *)
Rivals(b) == {c \in Blocks \ {b} : HeightOf[c] = HeightOf[b]}

(* A miner's share goes through ProcessShare.  A block candidate is         *)
(* submitted, and recorded as accepted if the daemons have it (getblock     *)
(* succeeds, for a side-chain block too), before the share is queued.       *)
ProcessShare(share) ==
  LET b == share.block IN
  /\ submitted < MaxShares
  /\ submitted' = submitted + 1
  /\ PutShare(share)
  /\ \/ /\ b = NoBlock
        /\ UNCHANGED <<chain, everOff>>
     \/ /\ b # NoBlock
        /\ chain[b] = "none"
        /\ LET side == ~share.accepted \/ \E c \in Rivals(b) : OnChain(c) IN
           /\ chain' = [chain EXCEPT ![b] = IF side THEN "off" ELSE "young"]
           /\ everOff' = IF side THEN everOff \cup {b} ELSE everOff
  /\ UNCHANGED <<ppsMode, shareKeys, blockKeys, ledgerKeys, intent, recorded, pc, runVars,
                 validAddr, walletKnows, erred, sent, outstanding, faults>>

(* The chain grows over b (MinConfirmations reached), or is reorganised     *)
(* across b, which then lies less deep.                                     *)
ChainStep(b, status) ==
  /\ \/ chain[b] = "young" /\ status \in {"mature", "off"}
     \/ chain[b] = "off" /\ status = "young" /\ \A c \in Rivals(b) : ~OnChain(c)
  /\ chain' = [chain EXCEPT ![b] = status]
  /\ everOff' = IF status = "off" THEN everOff \cup {b} ELSE everOff
  /\ UNCHANGED <<storageVars, pc, runVars, validAddr, walletKnows, erred, submitted, sent,
                 outstanding, faults>>

WalletSync(b) ==
  /\ chain[b] # "none"
  /\ b \notin walletKnows
  /\ walletKnows' = walletKnows \cup {b}
  /\ UNCHANGED <<storageVars, pc, runVars, validAddr, chain, everOff, erred, submitted, sent,
                 outstanding, faults>>

-----------------------------------------------------------------------------
(* The storage writer, beside the payer.                                   *)

payerAndEnv == <<pc, runVars, validAddr, envVars, sent, outstanding>>

ShareWriter == putShareNow /\ NoFault /\ UNCHANGED payerAndEnv

ShareWriterFails == putShareNowFails /\ Fault("writer") /\ UNCHANGED payerAndEnv

-----------------------------------------------------------------------------
(* One payout run.                                                         *)

(* PaymentManager.Init, called after the stratum server is already up. *)
PaymentInit ==
  /\ pc = "down"
  /\ pc' = "idle"
  /\ ppsMode' = (PayMode = "pps")
  /\ UNCHANGED <<queue, shareKeys, blockKeys, ledgerKeys, intent, recorded, runVars,
                 validAddr, envVars, sent, outstanding, faults>>

(* Mutant: an intent without a txid is ignored. *)
ReconcileIgnores ==
  /\ pc = "idle"
  /\ \/ /\ intent.status = "none"
        /\ pc' = "read"
        /\ UNCHANGED <<storageVars, outstanding>>
     \/ /\ intent.status = "stamped"
        /\ ApplyPayments(intent.update)
        /\ outstanding' = FALSE
        /\ pc' = "read"
     \/ /\ intent.status = "unstamped"
        /\ pc' = "read"
        /\ UNCHANGED <<storageVars, outstanding>>
  /\ UNCHANGED <<runVars, validAddr, envVars, sent, faults>>

(* Mutant: a stamped intent is left for review too. *)
ReconcileHalts ==
  /\ pc = "idle"
  /\ \/ /\ intent.status = "none"
        /\ pc' = "read"
        /\ UNCHANGED <<storageVars, outstanding>>
     \/ /\ intent.status # "none"
        /\ UNCHANGED <<storageVars, pc, outstanding>>
  /\ UNCHANGED <<runVars, validAddr, envVars, sent, faults>>

(* reconcile: no intent, go on; a stamped one, finish it and go on; one     *)
(* without a txid, give the run up.  A failing redis adds nothing: the run  *)
(* ends as if it had not begun, or as ReadFails ends it after the apply.    *)
Reconcile ==
  /\ pc = "idle"
  /\ \/ /\ intent.status = "none"
        /\ pc' = "read"
        /\ UNCHANGED <<storageVars, outstanding>>
     \/ /\ intent.status = "stamped"
        /\ ApplyPayments(intent.update)
        /\ outstanding' = FALSE
        /\ pc' = "read"
     \/ /\ intent.status = "unstamped"
        /\ UNCHANGED <<storageVars, pc, outstanding>>
  /\ UNCHANGED <<runVars, validAddr, envVars, sent, faults>>

(* Mutant: carried-over balances are not read back. *)
SeededEmpty == Idler

Seeded == [m \in Miners |-> [Balance |-> CoinToSat(balances[m]), Reward |-> 0]]

(* processPayments: the pending blocks and the carried-over balances. *)
ReadPending ==
  /\ PayMode # "pps"
  /\ pc = "read"
  /\ IF pending = {}
     THEN pc' = "idle" /\ UNCHANGED <<todo, workers, update>>
     ELSE /\ pc' = "classify"
          /\ todo' = GetAllPendingBlocks
          /\ workers' = Seeded
          /\ update' = EmptyUpdate
  /\ UNCHANGED <<storageVars, withhold, validAddr, envVars, sent, outstanding, faults>>

(* processPPS: the cursor, the shares above it, and the balances. *)
ReadShares ==
  /\ PayMode = "pps"
  /\ pc = "read"
  /\ pc' = "pending"
  /\ workers' = [m \in Miners |-> [Seeded[m] EXCEPT
                   !.Reward = CoinToSat(DiffByMiner(SharesSince(cursor))[m] * PPSRate)]]
  /\ \E maxSeq \in MaxSeq(cursor) : update' = [EmptyUpdate EXCEPT !.PPSCursor = maxSeq]
  /\ UNCHANGED <<storageVars, todo, withhold, validAddr, envVars, sent, outstanding, faults>>

ReadPPSPending ==
  /\ pc = "pending"
  /\ pc' = "classify"
  /\ todo' = GetAllPendingBlocks
  /\ UNCHANGED <<storageVars, workers, update, withhold, validAddr, envVars, sent,
                 outstanding, faults>>

(* The reward split by share weight, each part rounded down: the one        *)
(* distribution, or none if nobody has shares.                              *)
splitByShares(rewardSat, shares) ==
  LET total == SumFunction(shares)
  IN  IF total = 0 THEN {} ELSE {[m \in Miners |-> (rewardSat * shares[m]) \div total]}

(* The set of the one distribution of pb's reward, or of none. *)
attribute(pb, rewardSat) ==
  CASE PayMode = "solo" ->
         {[m \in Miners |-> IF m = pb.finder THEN rewardSat ELSE 0]}
    [] PayMode = "pplns" /\ PPLNSWindow > 0 ->
         splitByShares(rewardSat, GetPPLNSShares(pplnslog, pb.mark, PPLNSWindow))
    [] OTHER -> splitByShares(rewardSat, GetRoundContrib(HeightOf[pb.hash]))

(* Mutant: a bare -5 is taken for an orphan. *)
ClassifiedBare(b) ==
  IF b \in walletKnows THEN chain[b]
  ELSE "off"

(* classifyBlock and classifyMissingTx, every call answered for what it is: *)
(* a wallet that has not seen the coinbase says -5 and the node is asked    *)
(* for the block; one that is not on the main chain, or that the node does  *)
(* not have, is an orphan.                                                  *)
Classified(b) ==
  IF b \in walletKnows THEN chain[b]
  ELSE IF ~SharedDaemon \/ chain[b] = "off" THEN "off" ELSE "retry"

Orphan(pb) == [update EXCEPT !.Orphaned = @ \cup {pb},
                             !.DeleteRounds = @ \cup {HeightOf[pb.hash]}]
Confirm(pb) == [update EXCEPT !.Confirmed = @ \cup {pb},
                              !.DeleteRounds = @ \cup {HeightOf[pb.hash]}]

ClassifyBlock(pb) ==
  /\ pc = "classify"
  /\ pb \in todo
  /\ todo' = todo \ {pb}
  /\ \/ /\ Classified(pb.hash) \in {"retry", "young"}
        /\ UNCHANGED <<workers, update>>
     \/ /\ Classified(pb.hash) = "off"
        /\ update' = Orphan(pb)
        /\ UNCHANGED workers
     \/ /\ Classified(pb.hash) = "mature"
        /\ PayMode = "pps"
        /\ update' = Confirm(pb)
        /\ UNCHANGED workers
     \/ /\ Classified(pb.hash) = "mature"
        /\ PayMode # "pps"
        /\ LET dists == attribute(pb, CoinToSat(Reward[pb.hash])) IN
           \/ /\ dists = {}          \* nothing to attribute
              /\ update' = Orphan(pb)
              /\ UNCHANGED workers
           \/ \E dist \in dists :
                /\ workers' = [m \in Miners |-> [workers[m] EXCEPT !.Reward = @ + dist[m]]]
                /\ update' = Confirm(pb)
  /\ UNCHANGED <<storageVars, pc, withhold, validAddr, envVars, sent, outstanding, faults>>

(* A block whose RPC got no answer, or gettransaction another error than    *)
(* -5, is left for the next run.                                            *)
ClassifyFails(pb) ==
  /\ pc = "classify"
  /\ pb \in todo
  /\ Fault("rpc")
  /\ todo' = todo \ {pb}
  /\ UNCHANGED <<storageVars, pc, workers, update, withhold, validAddr, envVars, sent,
                 outstanding>>

(* classifyMissingTx: the node is asked for the block after a -5 and        *)
(* answers with an error, though it has the block (pruned, unreadable, an   *)
(* internal error): the code of the error is not looked at, the block is    *)
(* an orphan.                                                               *)
GetBlockErrs(pb) ==
  /\ pc = "classify"
  /\ pb \in todo
  /\ pb.hash \notin walletKnows
  /\ Fault("rpc")
  /\ todo' = todo \ {pb}
  /\ update' = Orphan(pb)
  /\ erred' = erred \cup {pb.hash}
  /\ UNCHANGED <<storageVars, pc, workers, withhold, validAddr, chain, walletKnows, everOff,
                 submitted, sent, outstanding>>

Classify == \E pb \in todo : ClassifyBlock(pb)

(* All blocks classified: settle if there is something to pay out, persist  *)
(* the orphan moves if that is all, or end the run.                         *)
Classification ==
  /\ pc = "classify"
  /\ todo = {}
  /\ pc' = IF PayMode = "pps" \/ update.Confirmed # {} THEN "settle"
           ELSE IF update.Orphaned # {} THEN "apply" ELSE "idle"
  /\ withhold' = 0
  /\ UNCHANGED <<storageVars, todo, workers, update, validAddr, envVars, sent, outstanding,
                 faults>>

(* A read of redis fails: the run returns its error. *)
ReadFails ==
  /\ pc \in {"read", "pending", "classify"}
  /\ Fault("redis")
  /\ pc' = "idle"
  /\ UNCHANGED <<storageVars, runVars, validAddr, envVars, sent, outstanding>>

-----------------------------------------------------------------------------
(* settle.                                                                 *)

Owed(m) == workers[m].Balance + workers[m].Reward
ToSend(m) == (Owed(m) * (100 - withhold)) \div 100
Due == {m \in Miners : ToSend(m) >= MinPayment /\ ToSend(m) > 0}

(* validRecipient: asked once per name and process, whatever the answer.    *)
(* unanswered: the names whose address check gets no response.              *)
validRecipient(m, unanswered) ==
  IF validAddr[m] # "unknown" THEN validAddr[m]
  ELSE IF m \in Payable \ unanswered THEN "valid" ELSE "invalid"

(* Mutant: a worker that is no longer paid stays in Paid. *)
SettleKeepsPaid(unanswered) ==
  LET pays    == {m \in Due : validRecipient(m, unanswered) = "valid"}
      Sent(m) == IF m \in pays THEN ToSend(m) ELSE 0
  IN
  /\ pc = "settle"
  /\ validAddr' = [m \in Miners |-> IF m \in Due THEN validRecipient(m, unanswered)
                                                 ELSE validAddr[m]]
  /\ update' = [update EXCEPT
                  !.Balances = [m \in Miners |-> SatToCoin(Owed(m) - Sent(m))],
                  !.Paid     = [m \in Miners |-> IF m \in pays THEN SatToCoin(Sent(m))
                                                ELSE update.Paid[m]]]
  /\ pc' = IF pays = {} THEN "apply" ELSE "intent"
  /\ UNCHANGED <<storageVars, todo, workers, withhold, envVars, sent, outstanding>>

(* What each worker is sent now, and the update that goes with it. *)
Settle(unanswered) ==
  LET pays    == {m \in Due : validRecipient(m, unanswered) = "valid"}
      Sent(m) == IF m \in pays THEN ToSend(m) ELSE 0
  IN
  /\ pc = "settle"
  /\ validAddr' = [m \in Miners |-> IF m \in Due THEN validRecipient(m, unanswered)
                                                 ELSE validAddr[m]]
  /\ update' = [update EXCEPT
                  !.Balances = [m \in Miners |-> SatToCoin(Owed(m) - Sent(m))],
                  !.Paid     = [m \in Miners |-> SatToCoin(Sent(m))]]
  /\ pc' = IF pays = {} THEN "apply" ELSE "intent"
  /\ UNCHANGED <<storageVars, todo, workers, withhold, envVars, sent, outstanding>>

SettleAnswered == Settle({}) /\ NoFault

SettleUnanswered == Fault("addr") /\ \E lost \in SUBSET Due : lost # {} /\ Settle(lost)

settleFrame == <<runVars, validAddr, envVars>>

(* Mutant: the blocks being confirmed are added to the update after settle. *)
PutIntentPartial ==
  /\ pc = "intent"
  /\ PutPayoutIntent([update EXCEPT !.Confirmed = {}])
  /\ pc' = "send"
  /\ UNCHANGED <<settleFrame, sent, outstanding, faults>>

(* PutPayoutIntent, before the broadcast. *)
PutIntent ==
  /\ pc = "intent"
  /\ PutPayoutIntent(update)
  /\ pc' = "send"
  /\ UNCHANGED <<settleFrame, sent, outstanding, faults>>

(* The wallet broadcasts a transaction paying the amounts. *)
Broadcast ==
  /\ sent' = [m \in Miners |-> sent[m] + update.Paid[m]]
  /\ outstanding' = TRUE

SendMany ==
  /\ pc = "send"
  /\ Broadcast
  /\ pc' = "stamp"
  /\ UNCHANGED <<storageVars, settleFrame, faults>>

(* No answer: the wallet may or may not have broadcast.  The intent stays. *)
SendManyUnanswered ==
  /\ pc = "send"
  /\ Fault("rpc")
  /\ Broadcast \/ UNCHANGED <<sent, outstanding>>
  /\ pc' = "idle"
  /\ UNCHANGED <<storageVars, settleFrame>>

(* The error of the delete is ignored, so the intent may stay. *)
TryDelete == DelPayoutIntent \/ UNCHANGED storageVars

(* Twice what was withheld, 1% at first. *)
NextWithhold == IF 2 * withhold < 1 THEN 1 ELSE 2 * withhold

(* Mutant: the bound is tested before doubling. *)
SendManyInsufficientUncapped ==
  /\ pc = "send"
  /\ "fees" \in Faults
  /\ IF withhold = 0 THEN Fault("fees") ELSE NoFault
  /\ IF withhold >= 100
     THEN pc' = "idle" /\ UNCHANGED withhold /\ TryDelete
     ELSE pc' = "settle" /\ withhold' = NextWithhold /\ UNCHANGED storageVars
  /\ UNCHANGED <<todo, workers, update, validAddr, envVars, sent, outstanding>>

(* -6: withhold more and settle again, until 100% is reached.  A shortage   *)
(* counts as one failure however often the amounts are cut.                 *)
SendManyInsufficient ==
  /\ pc = "send"
  /\ "fees" \in Faults
  /\ IF withhold = 0 THEN Fault("fees") ELSE NoFault
  /\ IF NextWithhold >= 100
     THEN pc' = "idle" /\ UNCHANGED withhold /\ TryDelete
     ELSE pc' = "settle" /\ withhold' = NextWithhold /\ UNCHANGED storageVars
  /\ UNCHANGED <<todo, workers, update, validAddr, envVars, sent, outstanding>>

(* Any other error: nothing was broadcast. *)
SendManyRejected ==
  /\ pc = "send"
  /\ Fault("reject")
  /\ TryDelete
  /\ pc' = "idle"
  /\ UNCHANGED <<settleFrame, sent, outstanding>>

(* SetPayoutIntentTxid, after the broadcast. *)
StampTxid ==
  /\ pc = "stamp"
  /\ SetPayoutIntentTxid
  /\ pc' = "apply"
  /\ UNCHANGED <<settleFrame, sent, outstanding, faults>>

Apply ==
  /\ pc = "apply"
  /\ ApplyPayments(update)
  /\ outstanding' = FALSE
  /\ pc' = "idle"
  /\ UNCHANGED <<settleFrame, sent, faults>>

(* A write of redis returns an error; it may have been executed. *)
WriteFails ==
  /\ Fault("redis")
  /\ pc' = "idle"
  /\ \/ pc = "intent" /\ PutPayoutIntent(update) /\ UNCHANGED outstanding
     \/ pc = "stamp" /\ SetPayoutIntentTxid /\ UNCHANGED outstanding
     \/ pc = "apply" /\ ApplyPayments(update) /\ outstanding' = FALSE
     \/ pc \in {"intent", "stamp", "apply"} /\ UNCHANGED <<storageVars, outstanding>>
  /\ UNCHANGED <<settleFrame, sent>>

-----------------------------------------------------------------------------
(* The process dies anywhere and is started again. *)
Crash ==
  /\ Fault("crash")
  /\ StorageRestart
  /\ pc' = "down"
  /\ todo' = {} /\ workers' = Idler /\ update' = EmptyUpdate /\ withhold' = 0
  /\ validAddr' = [m \in Miners |-> "unknown"]
  /\ UNCHANGED <<envVars, sent, outstanding>>

(* The operator clears an intent left without a txid, having found no such  *)
(* payment in the wallet.                                                   *)
OperatorClears ==
  /\ pc = "idle"
  /\ intent.status = "unstamped"
  /\ ~outstanding
  /\ DelPayoutIntent
  /\ UNCHANGED <<pc, settleFrame, sent, outstanding, faults>>

-----------------------------------------------------------------------------
PayerStep ==
  \/ PaymentInit
  \/ Reconcile
  \/ ReadPending
  \/ ReadShares
  \/ ReadPPSPending
  \/ Classify
  \/ Classification
  \/ SettleAnswered
  \/ PutIntent
  \/ SendMany
  \/ StampTxid
  \/ Apply

PayerFailure ==
  \/ \E pb \in todo : ClassifyFails(pb)
  \/ \E pb \in todo : GetBlockErrs(pb)
  \/ ReadFails
  \/ SettleUnanswered
  \/ SendManyUnanswered
  \/ SendManyInsufficient
  \/ SendManyRejected
  \/ WriteFails

Environment ==
  \/ \E share \in Shares : ProcessShare(share)
  \/ \E b \in Blocks, status \in {"young", "mature", "off"} : ChainStep(b, status)
  \/ \E b \in Blocks : WalletSync(b)
  \/ OperatorClears

Next == PayerStep \/ PayerFailure \/ Environment \/ ShareWriter \/ ShareWriterFails \/ Crash

Spec == Init /\ [][Next]_vars

(* The payer is in a call to the payment daemon, or about to make one, and  *)
(* stays there if it is never answered: the HTTP client has no Timeout.     *)
AtDaemon == \/ pc \in {"down", "settle", "send"}
            \/ pc = "classify" /\ todo # {}

(* The goroutines run, the wallet catches up and the operator attends.  No  *)
(* call is sure to be answered.                                             *)
Fairness ==
  /\ WF_vars(PayerStep /\ ~AtDaemon)
  /\ WF_vars(ShareWriter)
  /\ WF_vars(\E b \in Blocks : WalletSync(b))
  /\ WF_vars(OperatorClears)

FairSpec == Spec /\ Fairness
-----------------------------------------------------------------------------
(* What the payout processor promises.                                     *)

Hashes(S) == {pb.hash : pb \in S}

(* settle/reconcile (payer.go:209-236, 466-548): whatever fails or crashes, *)
(* and wherever, what the wallet has broadcast to a miner is what payouts   *)
(* records, plus the payments of the intent while they are broadcast and    *)
(* not applied; such an intent is never lost.  So nothing is sent twice for *)
(* one recorded payment and no payment goes unrecorded.                     *)
WalletAgrees ==
  /\ outstanding => intent.status # "none"
  /\ \A m \in Miners :
       sent[m] = IF outstanding THEN payouts[m] + intent.update.Paid[m] ELSE payouts[m]

(* Why WalletAgrees is preserved: where the payer stands, what is           *)
(* outstanding, and what the intent holds.  A run only starts with nothing  *)
(* outstanding; from the broadcast until ApplyPayments the intent in redis  *)
(* is the update the payer is about to apply.                               *)
IntentProtocol ==
  /\ intent.status = "stamped" => outstanding
  /\ pc \in {"read", "pending", "classify", "settle", "intent", "send"} => ~outstanding
  /\ pc \in {"pending", "classify"} => update.Paid = Zero
  /\ pc \in {"send", "stamp"} => intent.status = "unstamped" /\ intent.update = update
  /\ pc = "stamp" => outstanding
  /\ pc = "apply" => IF outstanding THEN intent.update = update ELSE update.Paid = Zero

(* ApplyPayments (redis.go:298-303): the verdict on a block is final.  Once *)
(* confirmed or orphaned a block keeps that verdict, and no later run, be   *)
(* it a resumed one, can return it to pending or judge it again.            *)
VerdictIsFinal ==
  [][\A b \in Blocks :
       /\ b \in Hashes(confirmed) =>
            b \in Hashes(confirmed') /\ b \notin Hashes(pending' \cup orphaned')
       /\ b \in Hashes(orphaned) =>
            b \in Hashes(orphaned') /\ b \notin Hashes(pending' \cup confirmed')]_vars

(* Why verdicts are final: a block is recorded once, in one of the three    *)
(* sets, under one record; a sealing share in the channel is of a block     *)
(* not recorded yet; and no update, in the making or in the intent, both    *)
(* confirms and orphans a block.                                            *)
OneVerdict(u) == u.Confirmed \cap u.Orphaned = {}

BlockRecords ==
  LET known == pending \cup confirmed \cup orphaned IN
  /\ pending \cap (confirmed \cup orphaned) = {}
  /\ confirmed \cap orphaned = {}
  /\ \A p, q \in known : p.hash = q.hash => p = q
  /\ \A p \in known : chain[p.hash] # "none"
  /\ \A i \in DOMAIN queue : Seals(queue[i]) =>
       /\ chain[queue[i].block] # "none"
       /\ queue[i].block \notin Hashes(known)
       /\ \A j \in DOMAIN queue : Seals(queue[j]) /\ queue[j].block = queue[i].block => i = j
  /\ OneVerdict(update)
  /\ OneVerdict(intent.update)
  /\ pc = "pending" => update.Confirmed \cup update.Orphaned = {}
  /\ pc = "classify" => todo \cap (update.Confirmed \cup update.Orphaned) = {}

(* The look-back of a pplns window, and a window whose shares the rank cap  *)
(* has taken out of the log, back to the block's own.                       *)
Windowed == PayMode = "pplns" /\ PPLNSWindow > 0
WindowGone(pb) == \A e \in pplnslog : e.seq > pb.mark

(* classifyBlock/classifyMissingTx/attribute (payer.go:268-304, 391-456):   *)
(* a block is orphaned, for good, for one of three causes only: it has been *)
(* off the main chain, the node answered getblock for it with an error, or  *)
(* it pays by a window that the capped log no longer reaches.  A wallet     *)
(* that lags, calls without an answer, errors of gettransaction, resumed    *)
(* runs and settled neighbours cost no block its payout.                    *)
OrphanHasCause ==
  \A pb \in orphaned :
    \/ pb.hash \in everOff \cup erred
    \/ Windowed /\ WindowGone(pb)

(* putShareNow, ApplyPayments (redis.go:19-25, 105-110): in pps mode no     *)
(* share leaves the log before the cursor has passed it.                    *)
UncreditedKept ==
  [][\A e \in pplnslog : ppsMode /\ e.seq > cursor' => e \in pplnslog']_vars

(* The payer waits for an operator: the payments of the intent were         *)
(* broadcast and its txid was lost.                                         *)
AwaitsReview == intent.status = "unstamped" /\ outstanding

(* processPayments (payer.go:239-324): a pending block that has matured,    *)
(* and never left the main chain, is confirmed in the end, through every    *)
(* failure that does not last, unless the payer halts for review, waits for *)
(* ever in one call to the daemon, or the node, asked for the block once,   *)
(* answered with an error: that error orphans a mature block for good.      *)
MatureIsSettled ==
  \A b \in Blocks :
    (chain[b] = "mature" /\ b \notin everOff /\ b \in Hashes(pending)) ~>
      (b \in Hashes(confirmed) \/ AwaitsReview \/ b \in erred \/ []AtDaemon)
==============================================================================
