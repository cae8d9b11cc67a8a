--------------------------- MODULE PaymentsProofs ----------------------------
(***************************************************************************)
(* What TLAPS proves of the payout processor, for every set of miners and  *)
(* blocks, every reward, threshold and pay mode, and any number of shares  *)
(* and failures.                                                           *)
(***************************************************************************)
EXTENDS Payments, Sums, TLAPS

-----------------------------------------------------------------------------
(* Amounts.                                                                *)

(* A satoshi amount survives being stored as coin and read back. *)
LEMMA RoundTrip ==
  ASSUME NEW s \in Nat
  PROVE  CoinToSat(SatToCoin(s)) = s
  <1>1. Grain \in Nat /\ Grain > 0
    BY StorageAssumption
  <1>2. 2 * (s * Grain) + Grain = s * (2 * Grain) + Grain
    BY <1>1
  <1>3. (s * (2 * Grain) + Grain) \div (2 * Grain) = s
    BY <1>1, Z3
  <1>4. QED
    BY <1>2, <1>3 DEF CoinToSat, SatToCoin

(* Rounding a coin amount gives a satoshi amount. *)
LEMMA CoinToSatNat ==
  ASSUME NEW c \in Nat
  PROVE  CoinToSat(c) \in Nat
  <1>1. Grain \in Nat /\ Grain > 0
    BY StorageAssumption
  <1>2. QED
    BY <1>1 DEF CoinToSat

(* Withholding never makes a payment larger than what is owed. *)
LEMMA WithheldIsLess ==
  ASSUME NEW o \in Nat, NEW w \in 0..99
  PROVE  (o * (100 - w)) \div 100 \in 0..o
  <1>1. o * (100 - w) \in Nat /\ o * (100 - w) <= o * 100
    OBVIOUS
  <1>2. QED
    BY <1>1

(* A satoshi amount is a point of the coin grid. *)
LEMMA SatToCoinNat ==
  ASSUME NEW s \in Nat
  PROVE  SatToCoin(s) \in Nat
  BY StorageAssumption DEF SatToCoin

-----------------------------------------------------------------------------
(* Type correctness of the storage operations.                             *)

(* The empty contribution and the empty update are well typed. *)
LEMMA ZeroType == Zero \in [Miners -> Nat] /\ EmptyUpdate \in PaymentUpdate
  BY DEF Zero, EmptyUpdate, PaymentUpdate

(* The absent intent is well typed. *)
LEMMA NoIntentType == NoIntent \in PayoutIntent
  BY ZeroType DEF NoIntent, PayoutIntent

(* A step that leaves storage alone keeps its types. *)
LEMMA StorageStutterType ==
  ASSUME StorageTypeOK, UNCHANGED storageVars
  PROVE  StorageTypeOK'
  BY DEF StorageTypeOK, storageVars, shareKeys, blockKeys, ledgerKeys

(* ApplyPayments keeps the storage types. *)
LEMMA ApplyType ==
  ASSUME StorageTypeOK, NEW u \in PaymentUpdate, ApplyPayments(u)
  PROVE  StorageTypeOK'
  <1> USE DEF StorageTypeOK, ApplyPayments
  <1>1. balances' \in [Miners -> Nat]
    BY DEF PaymentUpdate
  <1>2. payouts' \in [Miners -> Nat]
    BY DEF PaymentUpdate
  <1>3. /\ confirmed' \subseteq PendingBlock
        /\ orphaned' \subseteq PendingBlock
        /\ pending' \subseteq PendingBlock
    OBVIOUS
  <1>4. rounds' \in [Heights -> Contribution]
    BY ZeroType DEF Contribution
  <1>5. cursor' \in Nat
    BY DEF PaymentUpdate
  <1>6. pplnslog' \subseteq LogEntry /\ IsFiniteSet(pplnslog')
    <2>1. pplnslog' \in SUBSET pplnslog
      OBVIOUS
    <2>2. QED
      BY <2>1, FS_Subset
  <1>7. intent' \in PayoutIntent
    BY NoIntentType
  <1>8. QED
    BY <1>1, <1>2, <1>3, <1>4, <1>5, <1>6, <1>7

(* So do the three writes of the payout intent. *)
LEMMA IntentWriteType ==
  ASSUME StorageTypeOK,
         \/ \E u \in PaymentUpdate : PutPayoutIntent(u)
         \/ SetPayoutIntentTxid
         \/ DelPayoutIntent
  PROVE  StorageTypeOK'
  <1>1. intent' \in PayoutIntent
    BY NoIntentType DEF StorageTypeOK, PutPayoutIntent, SetPayoutIntentTxid, DelPayoutIntent,
       PayoutIntent
  <1>2. IntentOnly
    BY DEF PutPayoutIntent, SetPayoutIntentTxid, DelPayoutIntent
  <1>3. QED
    BY <1>1, <1>2 DEF IntentOnly, StorageTypeOK, shareKeys, blockKeys, ledgerKeys

(* The channel is empty after a restart. *)
LEMMA EmptyQueue == <<>> \in Seq(Share)
  OBVIOUS

(* The writer takes a share and leaves a queue. *)
LEMMA QueueHead ==
  ASSUME queue \in Seq(Share), queue # <<>>
  PROVE  Head(queue) \in Share /\ Tail(queue) \in Seq(Share)
  OBVIOUS

(* Recording a share, wherever the pipeline is cut, keeps the types. *)
LEMMA WriteShareType ==
  ASSUME StorageTypeOK, queue # <<>>, NEW s \in Share, NEW n \in Nat, NEW cut \in 0..4,
         WriteShare(s, n, cut), seq' \in Nat
  PROVE  StorageTypeOK'
  <1> USE DEF StorageTypeOK
  <1> DEFINE current == IF cut >= 2 THEN [roundCurrent EXCEPT ![s.miner] = @ + s.diff]
                                    ELSE roundCurrent
  <1>1. /\ s.miner \in Miners
        /\ s.diff \in Diffs
        /\ s.diff \in Nat
        /\ s.block \in Blocks \cup {NoBlock}
    BY StorageAssumption DEF Share
  <1>2. current \in Contribution
    BY <1>1 DEF Contribution
  <1>3. Seals(s) => s.block \in Blocks /\ HeightOf[s.block] \in Heights
    BY <1>1 DEF Seals, Heights
  <1>4. rounds' \in [Heights -> Contribution]
    BY <1>2, <1>3 DEF WriteShare
  <1>5. roundCurrent' \in Contribution
    BY <1>2, ZeroType DEF WriteShare, Contribution
  <1>6. pplnslog' \subseteq LogEntry
    <2>1. [miner |-> s.miner, diff |-> s.diff, seq |-> n] \in LogEntry
      BY <1>1 DEF LogEntry
    <2>2. \A log : Capped(log) \subseteq log
      BY DEF Capped
    <2>3. QED
      BY <2>1, <2>2 DEF WriteShare
  <1>10. IsFiniteSet(pplnslog')
    <2> DEFINE e == [miner |-> s.miner, diff |-> s.diff, seq |-> n]
    <2>1. pplnslog' \in SUBSET (pplnslog \cup {e})
      BY DEF WriteShare, Capped
    <2> HIDE DEF e
    <2>2. IsFiniteSet(pplnslog \cup {e})
      BY FS_AddElement
    <2>3. QED
      BY <2>1, <2>2, FS_Subset
  <1>11. recorded' \in Seq(Recorded)
    <2> DEFINE r == [miner |-> s.miner, diff |-> s.diff, seq |-> n,
                     seal |-> IF cut >= 3 /\ Seals(s) THEN s.block ELSE NoBlock, capped |-> ~ppsMode]
    <2>1. r \in Recorded
      BY <1>1, <1>3 DEF Recorded
    <2>2. recorded' = IF cut >= 2 THEN Append(recorded, r) ELSE recorded
      BY DEF WriteShare
    <2> HIDE DEF r
    <2>3. QED
      BY <2>1, <2>2
  <1>7. pending' \subseteq PendingBlock
    BY <1>1, <1>3 DEF WriteShare, PendingBlock
  <1>8. queue' \in Seq(Share)
    BY QueueHead DEF WriteShare
  <1>9. QED
    BY <1>4, <1>5, <1>6, <1>7, <1>8, <1>10, <1>11 DEF WriteShare, ledgerKeys

(* A turn of the writer goroutine keeps the types. *)
LEMMA ShareWriterType ==
  ASSUME StorageTypeOK, putShareNow \/ putShareNowFails
  PROVE  StorageTypeOK'
  <1>1. CASE putShareNow /\ Head(queue).valid
    BY <1>1, WriteShareType, QueueHead DEF putShareNow, StorageTypeOK
  <1>2. CASE putShareNow /\ ~Head(queue).valid
    BY <1>2, QueueHead DEF putShareNow, StorageTypeOK, shareKeys, blockKeys, ledgerKeys
  <1>3. CASE putShareNowFails
    <2>1. PICK incr \in BOOLEAN, cut \in 0..4 :
            /\ seq' = IF incr THEN seq + 1 ELSE seq
            /\ WriteShare(Head(queue), IF incr THEN seq + 1 ELSE 0, cut)
      BY <1>3 DEF putShareNowFails
    <2>2. seq' \in Nat /\ (IF incr THEN seq + 1 ELSE 0) \in Nat
      BY <2>1 DEF StorageTypeOK
    <2>3. queue # <<>> /\ Head(queue) \in Share
      BY <1>3, QueueHead DEF putShareNowFails, StorageTypeOK
    <2>4. QED
      BY <2>1, <2>2, <2>3, WriteShareType
  <1>4. QED
    BY <1>1, <1>2, <1>3

-----------------------------------------------------------------------------
(* Type correctness of the payer's steps.                                  *)

(* The workers read from balances are well typed. *)
LEMMA SeededType ==
  ASSUME StorageTypeOK
  PROVE  Seeded \in [Miners -> Worker]
  BY CoinToSatNat DEF StorageTypeOK, Seeded, Worker

(* Pending blocks read back from their strings are pending blocks. *)
LEMMA PendingType ==
  ASSUME StorageTypeOK
  PROVE  GetAllPendingBlocks \subseteq PendingBlock
  <1>1. ASSUME NEW pb \in PendingBlock
        PROVE  NewPendingBlockFromString(pb) \in PendingBlock
    <2>1. Prefix[pb.finder] \in Miners
      BY StorageAssumption DEF PendingBlock
    <2>2. QED
      BY <2>1 DEF NewPendingBlockFromString, PendingBlock
  <1>2. QED
    BY <1>1 DEF StorageTypeOK, GetAllPendingBlocks

(* processPayments reads well-typed workers and blocks. *)
LEMMA ReadPendingType ==
  ASSUME TypeOK, ReadPending
  PROVE  TypeOK'
  BY SeededType, PendingType, ZeroType, StorageStutterType
  DEF TypeOK, ReadPending, envVars

(* What miners have in the log, or in a part of it, is a number. *)
LEMMA DiffByMinerType ==
  ASSUME StorageTypeOK, NEW S \in SUBSET pplnslog
  PROVE  DiffByMiner(S) \in [Miners -> Nat]
  <1> SUFFICES ASSUME NEW m \in Miners
               PROVE  DiffSum({e \in S : e.miner = m}) \in Nat
    BY DEF DiffByMiner
  <1> DEFINE T == {e \in S : e.miner = m}
             f == [e \in T |-> e.diff]
  <1>1. IsFiniteSet(T)
    BY FS_Subset DEF StorageTypeOK
  <1>2. \A e \in T : f[e] \in Nat
    BY StorageAssumption DEF StorageTypeOK, LogEntry
  <1>3. DiffSum(T) = SumFunctionOnSet(f, T)
    BY DEF DiffSum, SumFunction
  <1> HIDE DEF T, f
  <1>4. QED
    BY <1>1, <1>2, <1>3, SumNat DEF T

(* processPPS reads well-typed credits and a cursor. *)
LEMMA ReadSharesType ==
  ASSUME TypeOK, ReadShares
  PROVE  TypeOK'
  <1> DEFINE credit == [m \in Miners |-> CoinToSat(DiffByMiner(SharesSince(cursor))[m] * PPSRate)]
  <1>1. /\ workers' = [m \in Miners |-> [Seeded[m] EXCEPT !.Reward = credit[m]]]
        /\ \E maxSeq \in MaxSeq(cursor) : update' = [EmptyUpdate EXCEPT !.PPSCursor = maxSeq]
    BY DEF ReadShares
  <1>2. \A m \in Miners : credit[m] \in Nat
    <2>1. DiffByMiner(SharesSince(cursor)) \in [Miners -> Nat]
      BY DiffByMinerType DEF SharesSince, TypeOK
    <2>2. \A m \in Miners : DiffByMiner(SharesSince(cursor))[m] * PPSRate \in Nat
      BY <2>1, PaymentsAssumption
    <2>3. QED
      BY <2>2, CoinToSatNat
  <1> HIDE DEF credit
  <1>3. workers' \in [Miners -> Worker]
    BY <1>1, <1>2, SeededType DEF TypeOK, Worker
  <1>4. \A maxSeq \in MaxSeq(cursor) : maxSeq \in Nat
    BY DEF TypeOK, StorageTypeOK, MaxSeq, SharesSince, LogEntry
  <1>5. update' \in PaymentUpdate
    BY <1>1, <1>4, ZeroType DEF PaymentUpdate
  <1>6. QED
    BY <1>3, <1>5, StorageStutterType DEF TypeOK, ReadShares, envVars

(* What the miners of a distribution have together. *)
LEMMA TotalType ==
  ASSUME NEW shares \in [Miners -> Nat]
  PROVE  SumFunction(shares) = SumFunctionOnSet(shares, Miners) /\ SumFunction(shares) \in Nat
  <1>1. SumFunction(shares) = SumFunctionOnSet(shares, Miners)
    BY DEF SumFunction
  <1>2. QED
    BY <1>1, SumNat, StorageAssumption

(* A reward is split into natural amounts. *)
LEMMA SplitType ==
  ASSUME NEW r \in Nat, NEW shares \in [Miners -> Nat], NEW d \in splitByShares(r, shares)
  PROVE  d \in [Miners -> Nat]
  <1> DEFINE total == SumFunction(shares)
  <1>1. total \in Nat /\ total # 0 /\ d = [m \in Miners |-> (r * shares[m]) \div total]
    BY TotalType DEF splitByShares
  <1> HIDE DEF total
  <1>2. \A m \in Miners : r * shares[m] \in Nat
    OBVIOUS
  <1>3. \A m \in Miners : (r * shares[m]) \div total \in Nat
    BY <1>1, <1>2
  <1>4. QED
    BY <1>1, <1>3

(* Every pay mode attributes natural amounts. *)
LEMMA AttributeType ==
  ASSUME StorageTypeOK, NEW pb \in PendingBlock, NEW r \in Nat, NEW d \in attribute(pb, r)
  PROVE  d \in [Miners -> Nat]
  <1>1. CASE PayMode = "solo"
    BY <1>1 DEF attribute
  <1>2. GetPPLNSShares(pplnslog, pb.mark, PPLNSWindow) \in [Miners -> Nat]
    BY DiffByMinerType DEF GetPPLNSShares
  <1>3. GetRoundContrib(HeightOf[pb.hash]) \in [Miners -> Nat]
    BY DEF GetRoundContrib, StorageTypeOK, Contribution, PendingBlock, Heights
  <1>4. CASE PayMode # "solo"
    BY <1>2, <1>3, <1>4, SplitType DEF attribute
  <1>5. QED
    BY <1>1, <1>4

(* Adding a verdict to the update keeps its type. *)
LEMMA VerdictType ==
  ASSUME TypeOK, NEW pb \in PendingBlock
  PROVE  Orphan(pb) \in PaymentUpdate /\ Confirm(pb) \in PaymentUpdate
  <1>1. HeightOf[pb.hash] \in Heights
    BY DEF PendingBlock, Heights
  <1>2. QED
    BY <1>1 DEF TypeOK, Orphan, Confirm, PaymentUpdate

(* Classifying a block keeps the types. *)
LEMMA ClassifyBlockType ==
  ASSUME TypeOK, NEW pb \in todo, ClassifyBlock(pb)
  PROVE  TypeOK'
  <1>1. pb \in PendingBlock
    BY DEF TypeOK
  <1>2. CoinToSat(Reward[pb.hash]) \in Nat
    BY <1>1, CoinToSatNat, PaymentsAssumption DEF PendingBlock
  <1>3. workers' \in [Miners -> Worker]
    <2>1. CASE UNCHANGED workers
      BY <2>1 DEF TypeOK
    <2>2. ASSUME NEW dist \in attribute(pb, CoinToSat(Reward[pb.hash])),
                 workers' = [m \in Miners |-> [workers[m] EXCEPT !.Reward = @ + dist[m]]]
          PROVE  workers' \in [Miners -> Worker]
      <3>1. dist \in [Miners -> Nat]
        BY <1>1, <1>2, AttributeType DEF TypeOK
      <3>2. QED
        BY <2>2, <3>1 DEF TypeOK, Worker
    <2>3. QED
      BY <2>1, <2>2 DEF ClassifyBlock
  <1>4. update' \in PaymentUpdate
    BY <1>1, VerdictType DEF ClassifyBlock, TypeOK
  <1>5. QED
    BY <1>3, <1>4, StorageStutterType DEF ClassifyBlock, TypeOK, envVars

(* settle computes natural balances and payments: nothing underflows. *)
LEMMA SettleType ==
  ASSUME TypeOK, NEW unanswered, Settle(unanswered), faults' \in Nat
  PROVE  TypeOK'
  <1> DEFINE pays == {m \in Due : validRecipient(m, unanswered) = "valid"}
             Sent(m) == IF m \in pays THEN ToSend(m) ELSE 0
  <1>1. ASSUME NEW m \in Miners
        PROVE  /\ Owed(m) \in Nat
               /\ Sent(m) \in 0..Owed(m)
    <2>1. Owed(m) \in Nat
      BY DEF TypeOK, Owed, Worker
    <2>2. ToSend(m) \in 0..Owed(m)
      BY <2>1, WithheldIsLess DEF ToSend, TypeOK
    <2>3. QED
      BY <2>1, <2>2
  <1>2. \A m \in Miners : SatToCoin(Owed(m) - Sent(m)) \in Nat /\ SatToCoin(Sent(m)) \in Nat
    BY <1>1, SatToCoinNat
  <1>3. update' = [update EXCEPT
                     !.Balances = [m \in Miners |-> SatToCoin(Owed(m) - Sent(m))],
                     !.Paid     = [m \in Miners |-> SatToCoin(Sent(m))]]
    BY DEF Settle
  <1>4. update' \in PaymentUpdate
    BY <1>2, <1>3 DEF TypeOK, PaymentUpdate
  <1>5. validAddr' \in [Miners -> {"unknown", "valid", "invalid"}]
    BY DEF Settle, TypeOK, validRecipient
  <1>6. QED
    BY <1>4, <1>5, StorageStutterType DEF Settle, TypeOK, envVars

(* Counting a failure keeps the counter a number. *)
LEMMA FaultType ==
  ASSUME TypeOK
  PROVE  /\ \A kind : Fault(kind) => faults' \in Nat
         /\ NoFault => faults' \in Nat
  BY DEF Fault, NoFault, TypeOK

(* A broadcast keeps what was sent a number. *)
LEMMA BroadcastType ==
  ASSUME TypeOK, Broadcast
  PROVE  sent' \in [Miners -> Nat] /\ outstanding' \in BOOLEAN
  BY DEF TypeOK, Broadcast, PaymentUpdate

(* Every step of the payer keeps the types. *)
LEMMA PayerStepType ==
  ASSUME TypeOK, PayerStep
  PROVE  TypeOK'
  <1>1. CASE PaymentInit
    BY <1>1 DEF TypeOK, StorageTypeOK, PaymentInit, shareKeys, blockKeys, ledgerKeys, runVars,
       envVars
  <1>2. CASE Reconcile
    <2>1. intent.update \in PaymentUpdate
      BY DEF TypeOK, StorageTypeOK, PayoutIntent
    <2>2. StorageTypeOK'
      BY <1>2, <2>1, StorageStutterType, ApplyType DEF TypeOK, Reconcile
    <2>3. QED
      BY <1>2, <2>2 DEF TypeOK, Reconcile, runVars, envVars
  <1>3. CASE ReadPending
    BY <1>3, ReadPendingType
  <1>4. CASE ReadShares
    BY <1>4, ReadSharesType
  <1>5. CASE ReadPPSPending
    BY <1>5, PendingType, StorageStutterType DEF TypeOK, ReadPPSPending, envVars
  <1>6. CASE Classify
    BY <1>6, ClassifyBlockType DEF Classify
  <1>7. CASE Classification
    BY <1>7, StorageStutterType DEF TypeOK, Classification, envVars
  <1>8. CASE SettleAnswered
    BY <1>8, SettleType, FaultType DEF SettleAnswered
  <1>9. CASE PutIntent
    <2>1. StorageTypeOK'
      BY <1>9, IntentWriteType DEF TypeOK, PutIntent
    <2>2. QED
      BY <1>9, <2>1 DEF TypeOK, PutIntent, settleFrame, runVars, envVars
  <1>10. CASE SendMany
    BY <1>10, StorageStutterType, BroadcastType DEF TypeOK, SendMany, settleFrame, runVars,
       envVars
  <1>11. CASE StampTxid
    <2>1. StorageTypeOK'
      BY <1>11, IntentWriteType DEF TypeOK, StampTxid
    <2>2. QED
      BY <1>11, <2>1 DEF TypeOK, StampTxid, settleFrame, runVars, envVars
  <1>12. CASE Apply
    <2>1. StorageTypeOK'
      BY <1>12, ApplyType DEF TypeOK, Apply
    <2>2. QED
      BY <1>12, <2>1 DEF TypeOK, Apply, settleFrame, runVars, envVars
  <1>13. QED
    BY <1>1, <1>2, <1>3, <1>4, <1>5, <1>6, <1>7, <1>8, <1>9, <1>10, <1>11, <1>12
       DEF PayerStep

(* Every failure of the payer keeps the types. *)
LEMMA PayerFailureType ==
  ASSUME TypeOK, PayerFailure
  PROVE  TypeOK'
  <1>1. CASE \E pb \in todo : ClassifyFails(pb)
    BY <1>1, StorageStutterType, FaultType DEF TypeOK, ClassifyFails, envVars
  <1>1b. CASE \E pb \in todo : GetBlockErrs(pb)
    <2>1. PICK pb \in todo : GetBlockErrs(pb)
      BY <1>1b
    <2>2. pb.hash \in Blocks
      BY DEF TypeOK, PendingBlock
    <2>3. update' \in PaymentUpdate
      BY <2>1, VerdictType DEF GetBlockErrs, TypeOK
    <2>4. QED
      BY <2>1, <2>2, <2>3, StorageStutterType, FaultType DEF TypeOK, GetBlockErrs
  <1>2. CASE ReadFails
    BY <1>2, StorageStutterType, FaultType DEF TypeOK, ReadFails, runVars, envVars
  <1>3. CASE SettleUnanswered
    BY <1>3, SettleType, FaultType DEF SettleUnanswered
  <1>4. CASE SendManyUnanswered
    BY <1>4, StorageStutterType, FaultType, BroadcastType
       DEF TypeOK, SendManyUnanswered, settleFrame, runVars, envVars
  <1>5. CASE SendManyInsufficient
    <2>1. StorageTypeOK'
      BY <1>5, IntentWriteType, StorageStutterType DEF TypeOK, SendManyInsufficient, TryDelete
    <2>2. withhold' \in 0..99 /\ pc' \in {"idle", "settle"}
      BY <1>5 DEF TypeOK, SendManyInsufficient, NextWithhold
    <2>3. faults' \in Nat
      BY <1>5, FaultType DEF SendManyInsufficient
    <2>4. QED
      BY <1>5, <2>1, <2>2, <2>3 DEF TypeOK, SendManyInsufficient, envVars
  <1>6. CASE SendManyRejected
    <2>1. StorageTypeOK'
      BY <1>6, IntentWriteType, StorageStutterType DEF TypeOK, SendManyRejected, TryDelete
    <2>2. QED
      BY <1>6, <2>1, FaultType DEF TypeOK, SendManyRejected, settleFrame, runVars, envVars
  <1>7. CASE WriteFails
    <2>1. StorageTypeOK'
      BY <1>7, IntentWriteType, ApplyType, StorageStutterType DEF TypeOK, WriteFails
    <2>2. outstanding' \in BOOLEAN /\ faults' \in Nat
      BY <1>7, FaultType DEF TypeOK, WriteFails
    <2>3. QED
      BY <1>7, <2>1, <2>2 DEF TypeOK, WriteFails, settleFrame, runVars, envVars
  <1>8. QED
    BY <1>1b, <1>1, <1>2, <1>3, <1>4, <1>5, <1>6, <1>7 DEF PayerFailure

(* So do the steps of miners, chain, wallet and operator. *)
LEMMA EnvironmentType ==
  ASSUME TypeOK, Environment
  PROVE  TypeOK'
  <1>1. ASSUME NEW share \in Shares, ProcessShare(share)
        PROVE  TypeOK'
    <2>1. share \in Share
      BY PaymentsAssumption
    <2>2. queue' \in Seq(Share)
      BY <1>1, <2>1 DEF TypeOK, StorageTypeOK, ProcessShare, PutShare
    <2>3. StorageTypeOK'
      BY <1>1, <2>2 DEF TypeOK, StorageTypeOK, ProcessShare, shareKeys, blockKeys, ledgerKeys
    <2>4. share.block # NoBlock => share.block \in Blocks
      BY <2>1 DEF Share
    <2>5. /\ chain' \in [Blocks -> {"none", "young", "mature", "off"}]
          /\ everOff' \subseteq Blocks
      BY <1>1, <2>4 DEF TypeOK, ProcessShare
    <2>6. QED
      BY <1>1, <2>3, <2>5 DEF TypeOK, ProcessShare, runVars
  <1>2. ASSUME NEW b \in Blocks, NEW status \in {"young", "mature", "off"},
               ChainStep(b, status)
        PROVE  TypeOK'
    BY <1>2, StorageStutterType DEF TypeOK, ChainStep, runVars
  <1>3. ASSUME NEW b \in Blocks, WalletSync(b)
        PROVE  TypeOK'
    BY <1>3, StorageStutterType DEF TypeOK, WalletSync, runVars
  <1>4. CASE OperatorClears
    <2>1. StorageTypeOK'
      BY <1>4, IntentWriteType DEF TypeOK, OperatorClears
    <2>2. QED
      BY <1>4, <2>1 DEF TypeOK, OperatorClears, settleFrame, runVars, envVars
  <1>5. QED
    BY <1>1, <1>2, <1>3, <1>4 DEF Environment

(* The workers of a fresh process are well typed. *)
LEMMA IdlerType == Idler \in [Miners -> Worker]
  BY DEF Idler, Worker

(* A crash keeps the types. *)
LEMMA CrashType ==
  ASSUME TypeOK, Crash
  PROVE  TypeOK'
  <1>1. StorageTypeOK'
    <2>1. /\ queue' = <<>> /\ ppsMode' = FALSE
          /\ UNCHANGED <<shareKeys, blockKeys, ledgerKeys, intent, recorded>>
      BY DEF Crash, StorageRestart
    <2>2. QED
      BY <2>1, EmptyQueue DEF TypeOK, StorageTypeOK, shareKeys, blockKeys, ledgerKeys
  <1>2. QED
    BY <1>1, IdlerType, ZeroType, FaultType DEF TypeOK, Crash, envVars

(* Every step keeps the types. *)
LEMMA NextType ==
  ASSUME TypeOK, [Next]_vars
  PROVE  TypeOK'
  <1>1. CASE ShareWriter \/ ShareWriterFails
    <2>1. StorageTypeOK'
      BY <1>1, ShareWriterType DEF TypeOK, ShareWriter, ShareWriterFails
    <2>2. QED
      BY <1>1, <2>1, FaultType
         DEF TypeOK, ShareWriter, ShareWriterFails, payerAndEnv, runVars, envVars
  <1>2. CASE UNCHANGED vars
    BY <1>2, StorageStutterType DEF TypeOK, vars, runVars, envVars
  <1>3. QED
    BY <1>1, <1>2, PayerStepType, PayerFailureType, EnvironmentType, CrashType DEF Next

(* Type correctness: amounts stay natural numbers (nobody is sent more than *)
(* is owed, so no unsigned subtraction in settle wraps), the withholding    *)
(* stays under 100%, and every stored key keeps its shape.                  *)
THEOREM TypeCorrect == Spec => []TypeOK
  <1>1. Init => TypeOK
    <2> SUFFICES ASSUME Init PROVE TypeOK
      OBVIOUS
    <2>1. StorageTypeOK
      <3>1. queue \in Seq(Share) /\ intent \in PayoutIntent /\ pplnslog = {}
        BY NoIntentType, EmptyQueue DEF Init, StorageInit
      <3>2. rounds \in [Heights -> Contribution] /\ roundCurrent \in Contribution
        BY ZeroType DEF Init, StorageInit, Contribution
      <3>3. IsFiniteSet(pplnslog) /\ recorded \in Seq(Recorded)
        BY <3>1, FS_EmptySet DEF Init, StorageInit
      <3>4. QED
        BY <3>1, <3>2, <3>3, ZeroType DEF Init, StorageInit, StorageTypeOK
    <2>2. /\ validAddr \in [Miners -> {"unknown", "valid", "invalid"}]
          /\ chain \in [Blocks -> {"none", "young", "mature", "off"}]
      BY DEF Init
    <2>3. workers \in [Miners -> Worker] /\ update \in PaymentUpdate /\ sent \in [Miners -> Nat]
      BY IdlerType, ZeroType DEF Init
    <2>4. pc = "down" /\ todo = {} /\ walletKnows = {} /\ outstanding = FALSE
          /\ everOff = {} /\ erred = {}
      BY DEF Init
    <2>5. withhold \in 0..99 /\ submitted \in Nat /\ faults \in Nat
      BY DEF Init
    <2>6. QED
      BY <2>1, <2>2, <2>3, <2>4, <2>5 DEF TypeOK
  <1>2. TypeOK /\ [Next]_vars => TypeOK'
    BY NextType
  <1>3. QED
    BY <1>1, <1>2, PTL DEF Spec

-----------------------------------------------------------------------------
(* The wallet and the ledger.  WalletAgrees is not inductive: that          *)
(* SendMany may set outstanding, or ApplyPayments clear it, depends on what *)
(* the intent holds at that point of the run, which IntentProtocol says.    *)

WalletInv == WalletAgrees /\ IntentProtocol

(* ApplyPayments adds Paid to payouts and drops the intent. *)
LEMMA ApplyRecords ==
  ASSUME NEW u, ApplyPayments(u)
  PROVE  /\ \A m \in Miners : payouts'[m] = payouts[m] + u.Paid[m]
         /\ intent' = NoIntent
  BY DEF ApplyPayments

(* A step that leaves storage alone leaves both keys alone. *)
LEMMA StorageStutter ==
  ASSUME UNCHANGED storageVars
  PROVE  intent' = intent /\ payouts' = payouts
  BY DEF storageVars, ledgerKeys

(* The intent operations leave payouts alone. *)
LEMMA IntentWrites ==
  /\ \A u : PutPayoutIntent(u) =>
       intent' = [status |-> "unstamped", update |-> u] /\ payouts' = payouts
  /\ SetPayoutIntentTxid =>
       intent' = [status |-> "stamped", update |-> intent.update] /\ payouts' = payouts
  /\ DelPayoutIntent => intent' = NoIntent /\ payouts' = payouts
  BY DEF PutPayoutIntent, SetPayoutIntentTxid, DelPayoutIntent, IntentOnly, ledgerKeys

(* A step that touches neither the ledger nor the run keeps the invariant. *)
LEMMA WalletFrame ==
  ASSUME WalletInv, UNCHANGED <<intent, payouts, pc, update, sent, outstanding>>
  PROVE  WalletInv'
  BY DEF WalletInv, WalletAgrees, IntentProtocol

(* Applying an update whose payments are exactly the outstanding ones       *)
(* settles the account.                                                     *)
LEMMA ApplySettles ==
  ASSUME TypeOK, WalletAgrees, NEW u, ApplyPayments(u), sent' = sent, outstanding' = FALSE,
         IF outstanding THEN u = intent.update ELSE u.Paid = Zero
  PROVE  WalletAgrees' /\ intent' = NoIntent
  <1>1. ASSUME NEW m \in Miners PROVE sent'[m] = payouts'[m]
    <2>1. payouts'[m] = payouts[m] + u.Paid[m]
      BY ApplyRecords
    <2>2. CASE outstanding
      BY <2>1, <2>2 DEF WalletAgrees
    <2>3. CASE ~outstanding
      BY <2>1, <2>3 DEF WalletAgrees, Zero, TypeOK, StorageTypeOK
    <2>4. QED
      BY <2>2, <2>3
  <1>2. QED
    BY <1>1, ApplyRecords DEF WalletAgrees

(* A broadcast makes the intent's payments outstanding. *)
LEMMA BroadcastOwes ==
  ASSUME TypeOK, WalletInv, pc = "send", Broadcast, UNCHANGED storageVars
  PROVE  WalletAgrees'
  <1>1. ~outstanding /\ intent.status = "unstamped" /\ intent.update = update
    BY DEF WalletInv, IntentProtocol
  <1>2. \A m \in Miners : sent'[m] = payouts[m] + intent.update.Paid[m]
    BY <1>1 DEF WalletInv, WalletAgrees, Broadcast
  <1>3. QED
    BY <1>1, <1>2, StorageStutter DEF WalletAgrees, Broadcast

(* With nobody to pay, the update pays nothing. *)
LEMMA SettleWallet ==
  ASSUME TypeOK, WalletInv, NEW unanswered, Settle(unanswered)
  PROVE  WalletInv'
  <1> DEFINE pays == {m \in Due : validRecipient(m, unanswered) = "valid"}
             Sent(m) == IF m \in pays THEN ToSend(m) ELSE 0
  <1>1. UNCHANGED <<intent, payouts, sent, outstanding>> /\ ~outstanding
    BY StorageStutter DEF Settle, WalletInv, IntentProtocol
  <1>2. pc' \in {"apply", "intent"} /\ (pc' = "apply" => pays = {})
    BY DEF Settle
  <1>3. pays = {} => update'.Paid = Zero
    <2>1. update' = [update EXCEPT
                       !.Balances = [m \in Miners |-> SatToCoin(Owed(m) - Sent(m))],
                       !.Paid     = [m \in Miners |-> SatToCoin(Sent(m))]]
      BY DEF Settle
    <2>2. update'.Paid = [m \in Miners |-> SatToCoin(Sent(m))]
      BY <2>1 DEF TypeOK, PaymentUpdate
    <2>3. SatToCoin(0) = 0
      BY StorageAssumption DEF SatToCoin
    <2>4. QED
      BY <2>2, <2>3 DEF Zero
  <1>4. QED
    BY <1>1, <1>2, <1>3 DEF WalletInv, WalletAgrees, IntentProtocol

(* Every step of the payer keeps wallet and ledger in agreement. *)
LEMMA PayerStepWallet ==
  ASSUME TypeOK, WalletInv, PayerStep
  PROVE  WalletInv'
  <1>1. CASE PaymentInit
    BY <1>1 DEF PaymentInit, WalletInv, WalletAgrees, IntentProtocol, ledgerKeys, runVars
  <1>2. CASE Reconcile
    <2>1. CASE intent.status = "none"
      BY <1>2, <2>1, StorageStutter DEF Reconcile, WalletInv, WalletAgrees, IntentProtocol, runVars
    <2>2. CASE intent.status = "stamped"
      <3>1. ApplyPayments(intent.update) /\ outstanding' = FALSE /\ pc' = "read" /\ sent' = sent
        BY <1>2, <2>2 DEF Reconcile
      <3>2. WalletAgrees' /\ intent' = NoIntent
        BY <2>2, <3>1, ApplySettles DEF WalletInv, IntentProtocol
      <3>3. QED
        BY <3>1, <3>2 DEF WalletInv, IntentProtocol, NoIntent
    <2>3. CASE intent.status = "unstamped"
      BY <1>2, <2>3, StorageStutter, WalletFrame DEF Reconcile, runVars
    <2>4. QED
      BY <1>2, <2>1, <2>2, <2>3 DEF Reconcile
  <1>3. CASE ReadPending
    BY <1>3, StorageStutter
       DEF ReadPending, WalletInv, WalletAgrees, IntentProtocol, EmptyUpdate
  <1>4. CASE ReadShares
    <2>1. update'.Paid = Zero
      BY <1>4 DEF ReadShares, EmptyUpdate
    <2>2. QED
      BY <1>4, <2>1, StorageStutter DEF ReadShares, WalletInv, WalletAgrees, IntentProtocol
  <1>5. CASE ReadPPSPending
    BY <1>5, StorageStutter DEF ReadPPSPending, WalletInv, WalletAgrees, IntentProtocol
  <1>6. CASE Classify
    <2>1. PICK pb \in todo : ClassifyBlock(pb)
      BY <1>6 DEF Classify
    <2>2. Orphan(pb).Paid = update.Paid /\ Confirm(pb).Paid = update.Paid
      BY DEF Orphan, Confirm, TypeOK, PaymentUpdate
    <2>3. update'.Paid = update.Paid
      BY <2>1, <2>2 DEF ClassifyBlock
    <2>4. QED
      BY <2>1, <2>3, StorageStutter DEF ClassifyBlock, WalletInv, WalletAgrees, IntentProtocol
  <1>7. CASE Classification
    BY <1>7, StorageStutter DEF Classification, WalletInv, WalletAgrees, IntentProtocol
  <1>8. CASE SettleAnswered
    BY <1>8, SettleWallet DEF SettleAnswered
  <1>9. CASE PutIntent
    BY <1>9, IntentWrites
       DEF PutIntent, WalletInv, WalletAgrees, IntentProtocol, settleFrame, runVars
  <1>10. CASE SendMany
    BY <1>10, BroadcastOwes, StorageStutter
       DEF SendMany, Broadcast, WalletInv, IntentProtocol, settleFrame, runVars
  <1>11. CASE StampTxid
    BY <1>11, IntentWrites
       DEF StampTxid, WalletInv, WalletAgrees, IntentProtocol, settleFrame, runVars
  <1>12. CASE Apply
    <2>1. ApplyPayments(update) /\ outstanding' = FALSE /\ pc' = "idle" /\ sent' = sent
      BY <1>12 DEF Apply
    <2>2. WalletAgrees' /\ intent' = NoIntent
      BY <1>12, <2>1, ApplySettles DEF Apply, WalletInv, IntentProtocol
    <2>3. QED
      BY <2>1, <2>2 DEF WalletInv, IntentProtocol, NoIntent
  <1>13. QED
    BY <1>1, <1>2, <1>3, <1>4, <1>5, <1>6, <1>7, <1>8, <1>9, <1>10, <1>11, <1>12
       DEF PayerStep

(* So does every failure it can meet. *)
LEMMA PayerFailureWallet ==
  ASSUME TypeOK, WalletInv, PayerFailure
  PROVE  WalletInv'
  <1>1. CASE \E pb \in todo : ClassifyFails(pb)
    BY <1>1, StorageStutter, WalletFrame DEF ClassifyFails
  <1>1b. CASE \E pb \in todo : GetBlockErrs(pb)
    <2>1. PICK pb \in todo : GetBlockErrs(pb)
      BY <1>1b
    <2>2. Orphan(pb).Paid = update.Paid
      BY DEF Orphan, TypeOK, PaymentUpdate
    <2>3. QED
      BY <2>1, <2>2, StorageStutter DEF GetBlockErrs, WalletInv, WalletAgrees, IntentProtocol
  <1>2. CASE ReadFails
    BY <1>2, StorageStutter
       DEF ReadFails, WalletInv, WalletAgrees, IntentProtocol, runVars
  <1>3. CASE SettleUnanswered
    BY <1>3, SettleWallet DEF SettleUnanswered
  <1>4. CASE SendManyUnanswered
    <2>1. pc = "send" /\ pc' = "idle" /\ UNCHANGED storageVars /\ UNCHANGED intent
      BY <1>4, StorageStutter DEF SendManyUnanswered
    <2>2. CASE Broadcast
      BY <2>1, <2>2, BroadcastOwes DEF Broadcast, WalletInv, IntentProtocol
    <2>3. CASE UNCHANGED <<sent, outstanding>>
      BY <2>1, <2>3, StorageStutter DEF WalletInv, WalletAgrees, IntentProtocol
    <2>4. QED
      BY <1>4, <2>2, <2>3 DEF SendManyUnanswered
  <1>5. CASE SendManyInsufficient
    <2>1. ~outstanding /\ UNCHANGED <<sent, outstanding>> /\ pc' \in {"idle", "settle"}
      BY <1>5 DEF SendManyInsufficient, WalletInv, IntentProtocol
    <2>2. payouts' = payouts /\ intent' \in {intent, NoIntent}
      BY <1>5, StorageStutter, IntentWrites DEF SendManyInsufficient, TryDelete
    <2>3. QED
      BY <2>1, <2>2 DEF WalletInv, WalletAgrees, IntentProtocol, NoIntent
  <1>6. CASE SendManyRejected
    <2>1. ~outstanding /\ UNCHANGED <<sent, outstanding>> /\ pc' = "idle"
      BY <1>6 DEF SendManyRejected, WalletInv, IntentProtocol
    <2>2. payouts' = payouts /\ intent' \in {intent, NoIntent}
      BY <1>6, StorageStutter, IntentWrites DEF SendManyRejected, TryDelete
    <2>3. QED
      BY <2>1, <2>2 DEF WalletInv, WalletAgrees, IntentProtocol, NoIntent
  <1>7. CASE WriteFails
    <2>1. pc' = "idle" /\ sent' = sent
      BY <1>7 DEF WriteFails
    <2>2. CASE pc = "intent" /\ PutPayoutIntent(update) /\ UNCHANGED outstanding
      BY <2>1, <2>2, IntentWrites DEF WalletInv, WalletAgrees, IntentProtocol
    <2>3. CASE pc = "stamp" /\ SetPayoutIntentTxid /\ UNCHANGED outstanding
      BY <2>1, <2>3, IntentWrites DEF WalletInv, WalletAgrees, IntentProtocol
    <2>4. CASE pc = "apply" /\ ApplyPayments(update) /\ outstanding' = FALSE
      <3>1. WalletAgrees' /\ intent' = NoIntent
        BY <2>1, <2>4, ApplySettles DEF WalletInv, IntentProtocol
      <3>2. QED
        BY <2>1, <3>1 DEF WalletInv, IntentProtocol, NoIntent
    <2>5. CASE UNCHANGED <<storageVars, outstanding>>
      BY <2>1, <2>5, StorageStutter DEF WalletInv, WalletAgrees, IntentProtocol
    <2>6. QED
      BY <1>7, <2>2, <2>3, <2>4, <2>5 DEF WriteFails
  <1>8. QED
    BY <1>1b, <1>1, <1>2, <1>3, <1>4, <1>5, <1>6, <1>7 DEF PayerFailure

(* So do miners, chain, wallet and operator. *)
LEMMA EnvironmentWallet ==
  ASSUME TypeOK, WalletInv, Environment
  PROVE  WalletInv'
  <1>1. CASE \E share \in Shares : ProcessShare(share)
    BY <1>1, WalletFrame DEF ProcessShare, ledgerKeys, runVars
  <1>2. CASE \E b \in Blocks, status \in {"young", "mature", "off"} : ChainStep(b, status)
    BY <1>2, StorageStutter, WalletFrame DEF ChainStep, runVars
  <1>3. CASE \E b \in Blocks : WalletSync(b)
    BY <1>3, StorageStutter, WalletFrame DEF WalletSync, runVars
  <1>4. CASE OperatorClears
    BY <1>4, IntentWrites
       DEF OperatorClears, WalletInv, WalletAgrees, IntentProtocol, NoIntent
  <1>5. QED
    BY <1>1, <1>2, <1>3, <1>4 DEF Environment

(* The wallet invariant is inductive. *)
LEMMA NextWallet ==
  ASSUME TypeOK, WalletInv, [Next]_vars
  PROVE  WalletInv'
  <1>1. CASE ShareWriter \/ ShareWriterFails
    <2>1. UNCHANGED <<intent, payouts>>
      BY <1>1 DEF ShareWriter, ShareWriterFails, putShareNow, putShareNowFails, WriteShare,
         ledgerKeys
    <2>2. QED
      BY <1>1, <2>1, WalletFrame DEF ShareWriter, ShareWriterFails, payerAndEnv, runVars
  <1>2. CASE Crash
    BY <1>2 DEF Crash, StorageRestart, WalletInv, WalletAgrees, IntentProtocol, ledgerKeys
  <1>3. CASE UNCHANGED vars
    BY <1>3, StorageStutter, WalletFrame DEF vars, runVars
  <1>4. QED
    BY <1>1, <1>2, <1>3, PayerStepWallet, PayerFailureWallet, EnvironmentWallet DEF Next

(* The inductive invariant of the two wallet theorems. *)
LEMMA WalletInvariant == Spec => []WalletInv
  <1>1. Init => WalletInv
    BY DEF Init, StorageInit, WalletInv, WalletAgrees, IntentProtocol, NoIntent, Zero
  <1>2. TypeOK /\ WalletInv /\ [Next]_vars => WalletInv'
    BY NextWallet
  <1>3. QED
    BY <1>1, <1>2, TypeCorrect, PTL DEF Spec

(* settle and reconcile: what the wallet has broadcast and what the ledger  *)
(* records agree, up to the one intent that is in flight, through every     *)
(* crash, lost answer and failed write; so no payment is made twice and     *)
(* none is forgotten.                                                       *)
THEOREM WalletNeverDiverges == Spec => []WalletAgrees
  <1>1. WalletInv => WalletAgrees
    BY DEF WalletInv
  <1>2. QED
    BY <1>1, WalletInvariant, PTL

(* settle and reconcile: a run starts only with nothing outstanding, and    *)
(* from the broadcast until ApplyPayments the intent in redis is the update *)
(* that is to be applied, whoever resumes it.                               *)
THEOREM IntentTellsProgress == Spec => []IntentProtocol
  <1>1. WalletInv => IntentProtocol
    BY DEF WalletInv
  <1>2. QED
    BY <1>1, WalletInvariant, PTL

-----------------------------------------------------------------------------
(* Verdicts on blocks.  BlockRecords is inductive; with it, that a verdict  *)
(* is final only needs that the sets of judged blocks grow.                 *)

blockFrame == <<queue, pending, confirmed, orphaned, chain, intent, update>>

(* A step that leaves storage alone leaves the block records alone. *)
LEMMA StorageStutterBlocks ==
  ASSUME UNCHANGED storageVars
  PROVE  UNCHANGED <<queue, pending, confirmed, orphaned, intent>>
  BY DEF storageVars, blockKeys

(* A step that touches no block, share or update may move the payer to any  *)
(* place where nothing is said about the run.                               *)
LEMMA BlockFrame ==
  ASSUME BlockRecords, UNCHANGED blockFrame,
         pc' \in {"pending", "classify"} => pc' = pc /\ todo' \subseteq todo
  PROVE  BlockRecords'
  <1>1. UNCHANGED <<queue, pending, confirmed, orphaned, chain, intent, update>>
    BY DEF blockFrame
  <1>2. OneVerdict(update)' /\ OneVerdict(intent.update)'
    BY <1>1 DEF BlockRecords, OneVerdict
  <1>3. QED
    BY <1>1, <1>2 DEF BlockRecords, Hashes, Seals

(* ApplyPayments moves blocks between the sets and adds none. *)
LEMMA ApplyBlocks ==
  ASSUME BlockRecords, NEW u, ApplyPayments(u), OneVerdict(u),
         UNCHANGED <<chain, update>>, pc' \notin {"pending", "classify"}
  PROVE  BlockRecords'
  <1> DEFINE known == pending \cup confirmed \cup orphaned
  <1>1. /\ confirmed' = confirmed \cup (u.Confirmed \cap pending)
        /\ orphaned' = orphaned \cup (u.Orphaned \cap pending)
        /\ pending' = pending \ (u.Confirmed \cup u.Orphaned)
        /\ queue' = queue
        /\ intent' = NoIntent
    BY DEF ApplyPayments
  <1>2. known' \subseteq known
    BY <1>1
  <1>3. /\ pending' \cap (confirmed' \cup orphaned') = {}
        /\ confirmed' \cap orphaned' = {}
    BY <1>1 DEF BlockRecords, OneVerdict
  <1>4. /\ \A p, q \in known' : p.hash = q.hash => p = q
        /\ \A p \in known' : chain'[p.hash] # "none"
    BY <1>2 DEF BlockRecords
  <1>5. \A i \in DOMAIN queue' : Seals(queue'[i]) =>
          /\ chain'[queue'[i].block] # "none"
          /\ queue'[i].block \notin Hashes(known')
          /\ \A j \in DOMAIN queue' :
               Seals(queue'[j]) /\ queue'[j].block = queue'[i].block => i = j
    BY <1>1, <1>2 DEF BlockRecords, Hashes
  <1>6. OneVerdict(update)' /\ OneVerdict(intent.update)'
    BY <1>1 DEF BlockRecords, OneVerdict, NoIntent, EmptyUpdate
  <1>7. QED
    BY <1>3, <1>4, <1>5, <1>6 DEF BlockRecords, Seals

(* The writer records a block the channel held, and only that one. *)
LEMMA WriteShareBlocks ==
  ASSUME TypeOK, BlockRecords, queue # <<>>, NEW n \in Nat, NEW cut \in 0..4,
         WriteShare(Head(queue), n, cut),
         UNCHANGED <<pc, todo, update, chain>>
  PROVE  BlockRecords'
  <1> DEFINE s == Head(queue)
             known == pending \cup confirmed \cup orphaned
             new == [hash |-> s.block, finder |-> s.miner, mark |-> n]
  <1>1. /\ queue' = Tail(queue)
        /\ UNCHANGED <<confirmed, orphaned, intent>>
        /\ pending' = IF cut >= 4 /\ Seals(s) THEN pending \cup {new} ELSE pending
    BY DEF WriteShare
  <1>2. /\ 1 \in DOMAIN queue /\ s = queue[1]
        /\ \A i \in DOMAIN queue' : i + 1 \in DOMAIN queue /\ queue'[i] = queue[i + 1] /\ i \in Nat
        /\ \A i \in DOMAIN queue' : i + 1 # 1
    BY <1>1 DEF TypeOK, StorageTypeOK
  <1>3. Seals(s) => chain[s.block] # "none" /\ s.block \notin Hashes(known)
    BY <1>2 DEF BlockRecords
  <1>4. known' \subseteq known \cup {new} /\ (~Seals(s) => known' = known)
    BY <1>1
  <1>5. /\ pending' \cap (confirmed' \cup orphaned') = {}
        /\ confirmed' \cap orphaned' = {}
    BY <1>1, <1>3 DEF BlockRecords, Hashes
  <1>6. \A p, q \in known' : p.hash = q.hash => p = q
    BY <1>3, <1>4 DEF BlockRecords, Hashes
  <1>7. \A p \in known' : chain'[p.hash] # "none"
    BY <1>3, <1>4 DEF BlockRecords
  <1>8. ASSUME NEW i \in DOMAIN queue', Seals(queue'[i])
        PROVE  /\ chain'[queue'[i].block] # "none"
               /\ queue'[i].block \notin Hashes(known')
               /\ \A j \in DOMAIN queue' :
                    Seals(queue'[j]) /\ queue'[j].block = queue'[i].block => i = j
    <2>1. chain'[queue'[i].block] # "none"
      BY <1>2, <1>8 DEF BlockRecords
    <2>2. queue'[i].block \notin Hashes(known) /\ (Seals(s) => queue'[i].block # s.block)
      BY <1>2, <1>8 DEF BlockRecords
    <2>3. queue'[i].block \notin Hashes(known')
      BY <1>4, <2>2 DEF Hashes
    <2>4. ASSUME NEW j \in DOMAIN queue', Seals(queue'[j]), queue'[j].block = queue'[i].block
          PROVE  i = j
      <3>1. i + 1 = j + 1
        BY <1>2, <1>8, <2>4 DEF BlockRecords
      <3>2. QED
        BY <1>2, <3>1
    <2>5. QED
      BY <2>1, <2>3, <2>4
  <1>9. OneVerdict(update)' /\ OneVerdict(intent.update)'
    BY <1>1 DEF BlockRecords, OneVerdict
  <1>10. /\ pc' = "pending" => update'.Confirmed \cup update'.Orphaned = {}
         /\ pc' = "classify" => todo' \cap (update'.Confirmed \cup update'.Orphaned) = {}
    BY DEF BlockRecords
  <1>11. QED
    BY <1>5, <1>6, <1>7, <1>8, <1>9, <1>10 DEF BlockRecords, Seals

(* A miner's block is new: the channel and the sets only hold blocks that   *)
(* were submitted before.                                                   *)
LEMMA ProcessShareBlocks ==
  ASSUME TypeOK, BlockRecords, NEW share \in Shares, ProcessShare(share)
  PROVE  BlockRecords'
  <1> DEFINE known == pending \cup confirmed \cup orphaned
             last == Len(queue) + 1
  <1>1. /\ queue' = Append(queue, share)
        /\ UNCHANGED <<pending, confirmed, orphaned, intent, update, pc, todo>>
    BY DEF ProcessShare, PutShare, blockKeys, runVars
  <1>2. share \in Share /\ (Seals(share) => share.block \in Blocks)
    BY PaymentsAssumption DEF Share, Seals
  <1>3. Seals(share) => chain[share.block] = "none" /\ chain'[share.block] # "none"
    BY <1>2 DEF ProcessShare, Seals, TypeOK
  <1>4. \A b \in Blocks : chain[b] # "none" => chain'[b] # "none"
    BY DEF ProcessShare, TypeOK
  <1>5. /\ DOMAIN queue' = DOMAIN queue \cup {last}
        /\ last \notin DOMAIN queue
        /\ queue'[last] = share
        /\ \A i \in DOMAIN queue : queue'[i] = queue[i]
    BY <1>1, <1>2 DEF TypeOK, StorageTypeOK
  <1>6. \A p \in known' : p.hash \in Blocks /\ chain[p.hash] # "none" /\ chain'[p.hash] # "none"
    BY <1>1, <1>4 DEF BlockRecords, TypeOK, StorageTypeOK, PendingBlock
  <1>7. \A i \in DOMAIN queue : Seals(queue[i]) =>
          queue[i].block \in Blocks /\ chain[queue[i].block] # "none"
    <2>1. \A i \in DOMAIN queue : queue[i] \in Share
      BY DEF TypeOK, StorageTypeOK
    <2>2. QED
      BY <2>1 DEF BlockRecords, Share, Seals
  <1>8. ASSUME NEW i \in DOMAIN queue', Seals(queue'[i])
        PROVE  /\ chain'[queue'[i].block] # "none"
               /\ queue'[i].block \notin Hashes(known')
               /\ \A j \in DOMAIN queue' :
                    Seals(queue'[j]) /\ queue'[j].block = queue'[i].block => i = j
    <2>1. CASE i = last
      BY <1>3, <1>5, <1>6, <1>7, <1>8, <2>1 DEF Hashes
    <2>2. CASE i \in DOMAIN queue
      <3>1. chain'[queue'[i].block] # "none" /\ queue'[i].block \notin Hashes(known')
        BY <1>1, <1>4, <1>5, <1>7, <1>8, <2>2 DEF BlockRecords, Hashes
      <3>2. ASSUME NEW j \in DOMAIN queue', Seals(queue'[j]), queue'[j].block = queue'[i].block
            PROVE  i = j
        <4>1. j # last
          BY <1>3, <1>5, <1>7, <1>8, <2>2, <3>2
        <4>2. QED
          BY <1>5, <1>8, <2>2, <3>2, <4>1 DEF BlockRecords
      <3>3. QED
        BY <3>1, <3>2
    <2>3. QED
      BY <1>5, <2>1, <2>2
  <1>9. OneVerdict(update)' /\ OneVerdict(intent.update)'
    BY <1>1 DEF BlockRecords, OneVerdict
  <1>10. QED
    BY <1>1, <1>6, <1>8, <1>9 DEF BlockRecords, Seals

(* A verdict is added for a block that is still to be judged. *)
LEMMA ClassifyBlocks ==
  ASSUME TypeOK, BlockRecords, NEW pb \in todo, ClassifyBlock(pb) \/ GetBlockErrs(pb)
  PROVE  BlockRecords'
  <1>1. UNCHANGED <<queue, pending, confirmed, orphaned, intent, chain, pc>>
    BY StorageStutterBlocks DEF ClassifyBlock, GetBlockErrs, envVars
  <1>2. pc = "classify" /\ todo' = todo \ {pb} /\ update' \in {update, Orphan(pb), Confirm(pb)}
    BY DEF ClassifyBlock, GetBlockErrs
  <1>3. /\ Orphan(pb).Orphaned = update.Orphaned \cup {pb}
        /\ Orphan(pb).Confirmed = update.Confirmed
        /\ Confirm(pb).Orphaned = update.Orphaned
        /\ Confirm(pb).Confirmed = update.Confirmed \cup {pb}
    BY DEF Orphan, Confirm, TypeOK, PaymentUpdate
  <1>4. pb \notin update.Confirmed \cup update.Orphaned
    BY <1>2 DEF BlockRecords
  <1>5. OneVerdict(update)' /\ todo' \cap (update'.Confirmed \cup update'.Orphaned) = {}
    BY <1>2, <1>3, <1>4 DEF BlockRecords, OneVerdict
  <1>6. OneVerdict(intent.update)'
    BY <1>1 DEF BlockRecords, OneVerdict
  <1>7. QED
    BY <1>1, <1>2, <1>5, <1>6 DEF BlockRecords, Hashes, Seals

(* A step that changes only the intent, to the update or to none, or        *)
(* stamps it.                                                               *)
LEMMA IntentBlocks ==
  ASSUME BlockRecords, PutPayoutIntent(update) \/ SetPayoutIntentTxid \/ DelPayoutIntent,
         UNCHANGED <<chain, update>>, pc' \notin {"pending", "classify"}
  PROVE  BlockRecords'
  <1>1. UNCHANGED <<queue, pending, confirmed, orphaned>>
    BY DEF PutPayoutIntent, SetPayoutIntentTxid, DelPayoutIntent, IntentOnly, blockKeys
  <1>2. intent'.update \in {update, intent.update, EmptyUpdate}
    BY DEF PutPayoutIntent, SetPayoutIntentTxid, DelPayoutIntent, NoIntent
  <1>3. OneVerdict(update)' /\ OneVerdict(intent.update)'
    BY <1>2 DEF BlockRecords, OneVerdict, EmptyUpdate
  <1>4. QED
    BY <1>1, <1>3 DEF BlockRecords, Hashes, Seals

(* A step that only changes the update, keeping its verdicts. *)
LEMMA UpdateBlocks ==
  ASSUME BlockRecords, UNCHANGED storageVars, UNCHANGED chain,
         update'.Confirmed \cap update'.Orphaned = {},
         pc' \in {"pending", "classify"} => update'.Confirmed \cup update'.Orphaned = {}
  PROVE  BlockRecords'
  <1>1. UNCHANGED <<queue, pending, confirmed, orphaned, intent>>
    BY StorageStutterBlocks
  <1>2. OneVerdict(update)' /\ OneVerdict(intent.update)'
    BY <1>1 DEF BlockRecords, OneVerdict
  <1>3. QED
    BY <1>1, <1>2 DEF BlockRecords, Hashes, Seals

(* settle keeps the verdicts of the run. *)
LEMMA SettleBlocks ==
  ASSUME TypeOK, BlockRecords, NEW unanswered, Settle(unanswered)
  PROVE  BlockRecords'
  <1>1. update'.Confirmed = update.Confirmed /\ update'.Orphaned = update.Orphaned
    BY DEF Settle, TypeOK, PaymentUpdate
  <1>2. pc' \in {"apply", "intent"} /\ UNCHANGED storageVars /\ UNCHANGED chain
    BY DEF Settle, envVars
  <1>3. QED
    BY <1>1, <1>2, UpdateBlocks DEF BlockRecords, OneVerdict

(* Every step of the payer keeps the block records consistent. *)
LEMMA PayerStepBlocks ==
  ASSUME TypeOK, BlockRecords, PayerStep
  PROVE  BlockRecords'
  <1>1. CASE PaymentInit
    BY <1>1, BlockFrame DEF PaymentInit, blockFrame, blockKeys, envVars, runVars
  <1>2. CASE Reconcile
    <2>1. UNCHANGED <<chain, update, todo>> /\ (pc' = "read" \/ pc' = "idle")
      BY <1>2 DEF Reconcile, envVars, runVars
    <2>2. CASE intent.status = "stamped" /\ ApplyPayments(intent.update)
      BY <2>1, <2>2, ApplyBlocks DEF BlockRecords
    <2>3. CASE UNCHANGED storageVars
      BY <2>1, <2>3, BlockFrame, StorageStutterBlocks DEF blockFrame
    <2>4. QED
      BY <1>2, <2>2, <2>3 DEF Reconcile
  <1>3. CASE ReadPending
    <2>1. UNCHANGED storageVars /\ UNCHANGED chain
      BY <1>3 DEF ReadPending, envVars
    <2>2. CASE pc' = "idle" /\ UNCHANGED update
      BY <2>1, <2>2, BlockFrame, StorageStutterBlocks DEF blockFrame
    <2>3. CASE pc' = "classify" /\ update' = EmptyUpdate
      BY <2>1, <2>3, UpdateBlocks DEF EmptyUpdate
    <2>4. QED
      BY <1>3, <2>2, <2>3 DEF ReadPending
  <1>4. CASE ReadShares
    <2>1. update'.Confirmed = {} /\ update'.Orphaned = {}
      BY <1>4 DEF ReadShares, EmptyUpdate
    <2>2. QED
      BY <1>4, <2>1, UpdateBlocks DEF ReadShares, envVars
  <1>5. CASE ReadPPSPending
    <2>1. pc = "pending" /\ UNCHANGED update /\ UNCHANGED storageVars /\ UNCHANGED chain
      BY <1>5 DEF ReadPPSPending, envVars
    <2>2. update'.Confirmed \cup update'.Orphaned = {}
      BY <2>1 DEF BlockRecords
    <2>3. QED
      BY <2>1, <2>2, UpdateBlocks
  <1>6. CASE Classify
    BY <1>6, ClassifyBlocks DEF Classify
  <1>7. CASE Classification
    BY <1>7, BlockFrame, StorageStutterBlocks DEF Classification, blockFrame, envVars
  <1>8. CASE SettleAnswered
    BY <1>8, SettleBlocks DEF SettleAnswered
  <1>9. CASE PutIntent
    BY <1>9, IntentBlocks DEF PutIntent, settleFrame, runVars, envVars
  <1>10. CASE SendMany
    BY <1>10, BlockFrame, StorageStutterBlocks
       DEF SendMany, blockFrame, settleFrame, runVars, envVars
  <1>11. CASE StampTxid
    BY <1>11, IntentBlocks DEF StampTxid, settleFrame, runVars, envVars
  <1>12. CASE Apply
    BY <1>12, ApplyBlocks DEF Apply, BlockRecords, settleFrame, runVars, envVars
  <1>13. QED
    BY <1>1, <1>2, <1>3, <1>4, <1>5, <1>6, <1>7, <1>8, <1>9, <1>10, <1>11, <1>12
       DEF PayerStep

(* So does every failure it can meet. *)
LEMMA PayerFailureBlocks ==
  ASSUME TypeOK, BlockRecords, PayerFailure
  PROVE  BlockRecords'
  <1>1. CASE \E pb \in todo : ClassifyFails(pb)
    BY <1>1, BlockFrame, StorageStutterBlocks DEF ClassifyFails, blockFrame, envVars
  <1>1b. CASE \E pb \in todo : GetBlockErrs(pb)
    BY <1>1b, ClassifyBlocks
  <1>2. CASE ReadFails
    BY <1>2, BlockFrame, StorageStutterBlocks DEF ReadFails, blockFrame, runVars, envVars
  <1>3. CASE SettleUnanswered
    BY <1>3, SettleBlocks DEF SettleUnanswered
  <1>4. CASE SendManyUnanswered
    BY <1>4, BlockFrame, StorageStutterBlocks
       DEF SendManyUnanswered, blockFrame, settleFrame, runVars, envVars
  <1>5. CASE SendManyInsufficient
    <2>1. UNCHANGED <<chain, update, todo>> /\ pc' \in {"idle", "settle"}
      BY <1>5 DEF SendManyInsufficient, envVars
    <2>2. DelPayoutIntent \/ UNCHANGED storageVars
      BY <1>5 DEF SendManyInsufficient, TryDelete
    <2>3. QED
      BY <2>1, <2>2, IntentBlocks, BlockFrame, StorageStutterBlocks DEF blockFrame
  <1>6. CASE SendManyRejected
    <2>1. UNCHANGED <<chain, update, todo>> /\ pc' = "idle"
      BY <1>6 DEF SendManyRejected, settleFrame, runVars, envVars
    <2>2. DelPayoutIntent \/ UNCHANGED storageVars
      BY <1>6 DEF SendManyRejected, TryDelete
    <2>3. QED
      BY <2>1, <2>2, IntentBlocks, BlockFrame, StorageStutterBlocks DEF blockFrame
  <1>7. CASE WriteFails
    <2>1. UNCHANGED <<chain, update, todo>> /\ pc' = "idle"
      BY <1>7 DEF WriteFails, settleFrame, runVars, envVars
    <2>2. CASE PutPayoutIntent(update) \/ SetPayoutIntentTxid
      BY <2>1, <2>2, IntentBlocks
    <2>3. CASE ApplyPayments(update)
      BY <2>1, <2>3, ApplyBlocks DEF BlockRecords
    <2>4. CASE UNCHANGED storageVars
      BY <2>1, <2>4, BlockFrame, StorageStutterBlocks DEF blockFrame
    <2>5. QED
      BY <1>7, <2>2, <2>3, <2>4 DEF WriteFails
  <1>8. QED
    BY <1>1b, <1>1, <1>2, <1>3, <1>4, <1>5, <1>6, <1>7 DEF PayerFailure

(* So do miners, chain, wallet and operator. *)
LEMMA EnvironmentBlocks ==
  ASSUME TypeOK, BlockRecords, Environment
  PROVE  BlockRecords'
  <1>1. CASE \E share \in Shares : ProcessShare(share)
    BY <1>1, ProcessShareBlocks
  <1>2. ASSUME NEW b \in Blocks, NEW status \in {"young", "mature", "off"},
               ChainStep(b, status)
        PROVE  BlockRecords'
    <2>1. UNCHANGED <<queue, pending, confirmed, orphaned, intent, update, pc, todo>>
      BY <1>2, StorageStutterBlocks DEF ChainStep, runVars
    <2>2. \A c : chain[c] # "none" => chain'[c] # "none"
      BY <1>2 DEF ChainStep, TypeOK
    <2>3. OneVerdict(update)' /\ OneVerdict(intent.update)'
      BY <2>1 DEF BlockRecords, OneVerdict
    <2>4. QED
      BY <2>1, <2>2, <2>3 DEF BlockRecords, Hashes, Seals
  <1>3. CASE \E b \in Blocks : WalletSync(b)
    BY <1>3, BlockFrame, StorageStutterBlocks DEF WalletSync, blockFrame, runVars
  <1>4. CASE OperatorClears
    BY <1>4, IntentBlocks DEF OperatorClears, settleFrame, runVars, envVars
  <1>5. QED
    BY <1>1, <1>2, <1>3, <1>4 DEF Environment

(* BlockRecords is inductive, given the types. *)
LEMMA NextBlocks ==
  ASSUME TypeOK, BlockRecords, [Next]_vars
  PROVE  BlockRecords'
  <1>1. CASE ShareWriter \/ ShareWriterFails
    <2>1. UNCHANGED <<pc, todo, update, chain>>
      BY <1>1 DEF ShareWriter, ShareWriterFails, payerAndEnv, runVars, envVars
    <2>2. CASE \E n \in Nat, cut \in 0..4 : queue # <<>> /\ WriteShare(Head(queue), n, cut)
      BY <2>1, <2>2, WriteShareBlocks
    <2>3. CASE putShareNow /\ ~Head(queue).valid
      <3>1. queue # <<>> /\ queue' = Tail(queue) /\ UNCHANGED <<pending, confirmed, orphaned, intent>>
        BY <2>3 DEF putShareNow, blockKeys
      <3>2. \A i \in DOMAIN queue' : i + 1 \in DOMAIN queue /\ queue'[i] = queue[i + 1] /\ i \in Nat
        BY <3>1 DEF TypeOK, StorageTypeOK
      <3>3. OneVerdict(update)' /\ OneVerdict(intent.update)'
        BY <2>1, <3>1 DEF BlockRecords, OneVerdict
      <3>4. ASSUME NEW i \in DOMAIN queue', Seals(queue'[i])
            PROVE  /\ chain'[queue'[i].block] # "none"
                   /\ queue'[i].block \notin Hashes(pending' \cup confirmed' \cup orphaned')
                   /\ \A j \in DOMAIN queue' :
                        Seals(queue'[j]) /\ queue'[j].block = queue'[i].block => i = j
        <4>1. i + 1 \in DOMAIN queue /\ queue'[i] = queue[i + 1] /\ Seals(queue[i + 1])
          BY <3>2, <3>4
        <4>2. /\ chain[queue'[i].block] # "none"
              /\ queue'[i].block \notin Hashes(pending \cup confirmed \cup orphaned)
          BY <4>1 DEF BlockRecords
        <4>3. ASSUME NEW j \in DOMAIN queue', Seals(queue'[j]), queue'[j].block = queue'[i].block
              PROVE  i = j
          <5>1. j + 1 \in DOMAIN queue /\ queue'[j] = queue[j + 1] /\ i \in Nat /\ j \in Nat
            BY <3>2, <4>3
          <5>2. i + 1 = j + 1
            BY <4>1, <4>3, <5>1 DEF BlockRecords
          <5>3. QED
            BY <5>1, <5>2
        <4>4. QED
          BY <2>1, <3>1, <4>2, <4>3
      <3>5. QED
        BY <2>1, <3>1, <3>3, <3>4 DEF BlockRecords, Seals
    <2>4. CASE putShareNow /\ Head(queue).valid
      <3>1. queue # <<>> /\ WriteShare(Head(queue), seq + 1, 4)
        BY <2>4 DEF putShareNow
      <3>2. seq + 1 \in Nat /\ 4 \in 0..4
        BY DEF TypeOK, StorageTypeOK
      <3>3. QED
        BY <2>2, <3>1, <3>2
    <2>5. CASE putShareNowFails
      <3>1. PICK incr \in BOOLEAN, cut \in 0..4 :
              WriteShare(Head(queue), IF incr THEN seq + 1 ELSE 0, cut)
        BY <2>5 DEF putShareNowFails
      <3>2. (IF incr THEN seq + 1 ELSE 0) \in Nat
        BY DEF TypeOK, StorageTypeOK
      <3>3. queue # <<>>
        BY <2>5 DEF putShareNowFails
      <3>4. QED
        BY <2>2, <3>1, <3>2, <3>3
    <2>6. QED
      BY <1>1, <2>3, <2>4, <2>5 DEF ShareWriter, ShareWriterFails
  <1>2. CASE Crash
    <2>1. /\ queue' = <<>> /\ pc' = "down" /\ update' = EmptyUpdate
          /\ UNCHANGED <<pending, confirmed, orphaned, intent, chain>>
      BY <1>2 DEF Crash, StorageRestart, blockKeys, envVars
    <2>2. OneVerdict(update)' /\ OneVerdict(intent.update)'
      BY <2>1 DEF BlockRecords, OneVerdict, EmptyUpdate
    <2>3. DOMAIN queue' = {}
      BY <2>1
    <2>4. QED
      BY <2>1, <2>2, <2>3 DEF BlockRecords
  <1>3. CASE UNCHANGED vars
    BY <1>3, BlockFrame, StorageStutterBlocks DEF vars, blockFrame, runVars, envVars
  <1>4. QED
    BY <1>1, <1>2, <1>3, PayerStepBlocks, PayerFailureBlocks, EnvironmentBlocks DEF Next

(* The judged blocks only ever grow in number. *)
LEMMA JudgedGrows ==
  ASSUME [Next]_vars
  PROVE  confirmed \subseteq confirmed' /\ orphaned \subseteq orphaned'
  <1>1. CASE UNCHANGED <<confirmed, orphaned>>
    BY <1>1
  <1>2. CASE \E u : ApplyPayments(u)
    BY <1>2 DEF ApplyPayments
  <1>3. PayerStep => UNCHANGED <<confirmed, orphaned>> \/ \E u : ApplyPayments(u)
    BY StorageStutterBlocks
       DEF PayerStep, PaymentInit, Reconcile, ReadPending, ReadShares, ReadPPSPending, Classify,
           ClassifyBlock, Classification, SettleAnswered, Settle, PutIntent, SendMany, StampTxid,
           Apply, PutPayoutIntent, SetPayoutIntentTxid, IntentOnly, blockKeys
  <1>4. PayerFailure => UNCHANGED <<confirmed, orphaned>> \/ \E u : ApplyPayments(u)
    BY StorageStutterBlocks
       DEF PayerFailure, ClassifyFails, GetBlockErrs, ReadFails, SettleUnanswered, Settle, SendManyUnanswered,
           SendManyInsufficient, SendManyRejected, TryDelete, WriteFails, PutPayoutIntent,
           SetPayoutIntentTxid, DelPayoutIntent, IntentOnly, blockKeys
  <1>5. Environment => UNCHANGED <<confirmed, orphaned>>
    BY StorageStutterBlocks
       DEF Environment, ProcessShare, ChainStep, WalletSync, OperatorClears, DelPayoutIntent,
           IntentOnly, blockKeys
  <1>6. ShareWriter \/ ShareWriterFails \/ Crash => UNCHANGED <<confirmed, orphaned>>
    BY DEF ShareWriter, ShareWriterFails, putShareNow, putShareNowFails, WriteShare, Crash,
       StorageRestart, blockKeys
  <1>7. UNCHANGED vars => UNCHANGED <<confirmed, orphaned>>
    BY StorageStutterBlocks DEF vars
  <1>8. QED
    BY <1>1, <1>2, <1>3, <1>4, <1>5, <1>6, <1>7 DEF Next

(* Every block is recorded once and judged once. *)
THEOREM RecordsConsistent == Spec => []BlockRecords
  <1>1. Init => BlockRecords
    BY DEF Init, StorageInit, BlockRecords, OneVerdict, EmptyUpdate, NoIntent
  <1>2. TypeOK /\ BlockRecords /\ [Next]_vars => BlockRecords'
    BY NextBlocks
  <1>3. QED
    BY <1>1, <1>2, TypeCorrect, PTL DEF Spec

(* ApplyPayments, in a run or resumed by reconcile: the verdict on a block  *)
(* is final.                                                                *)
THEOREM VerdictsFinal == Spec => VerdictIsFinal
  <1> DEFINE Final ==
        \A b \in Blocks :
          /\ b \in Hashes(confirmed) =>
               b \in Hashes(confirmed') /\ b \notin Hashes(pending' \cup orphaned')
          /\ b \in Hashes(orphaned) =>
               b \in Hashes(orphaned') /\ b \notin Hashes(pending' \cup confirmed')
  <1>1. BlockRecords' /\ [Next]_vars => Final
    BY JudgedGrows DEF BlockRecords, Hashes
  <1>2. BlockRecords' /\ [Next]_vars => [Final]_vars
    BY <1>1
  <1>3. QED
    BY <1>2, RecordsConsistent, PTL DEF Spec, VerdictIsFinal

-----------------------------------------------------------------------------
(* The share log in pps mode.                                              *)

(* putShareNow, ApplyPayments: whichever of the writer and the payer runs,  *)
(* a share leaves the log of a pps pool only in the transaction that moves  *)
(* the cursor past it; the rank cap never takes one.                        *)
THEOREM NoShareLostUnread == Spec => UncreditedKept
  <1> DEFINE Kept == \A e \in pplnslog : ppsMode /\ e.seq > cursor' => e \in pplnslog'
  <1>1. UNCHANGED pplnslog => Kept
    OBVIOUS
  <1>2. (\E u : ApplyPayments(u)) => Kept
    BY DEF ApplyPayments
  <1>3. ASSUME \E s, n, cut : WriteShare(s, n, cut)
        PROVE  Kept
    <2>1. PICK s, n, cut : WriteShare(s, n, cut)
      BY <1>3
    <2>2. ppsMode => pplnslog \subseteq pplnslog'
      BY <2>1 DEF WriteShare, Capped
    <2>3. QED
      BY <2>2
  <1>4. PayerStep => UNCHANGED pplnslog \/ \E u : ApplyPayments(u)
    BY DEF PayerStep, PaymentInit, Reconcile, ReadPending, ReadShares, ReadPPSPending, Classify,
           ClassifyBlock, Classification, SettleAnswered, Settle, PutIntent, SendMany, StampTxid,
           Apply, PutPayoutIntent, SetPayoutIntentTxid, IntentOnly, shareKeys, storageVars
  <1>5. PayerFailure => UNCHANGED pplnslog \/ \E u : ApplyPayments(u)
    BY DEF PayerFailure, ClassifyFails, GetBlockErrs, ReadFails, SettleUnanswered, Settle, SendManyUnanswered,
           SendManyInsufficient, SendManyRejected, TryDelete, WriteFails, PutPayoutIntent,
           SetPayoutIntentTxid, DelPayoutIntent, IntentOnly, shareKeys, storageVars
  <1>6. Environment \/ Crash => UNCHANGED pplnslog
    BY DEF Environment, ProcessShare, ChainStep, WalletSync, OperatorClears, DelPayoutIntent,
           IntentOnly, Crash, StorageRestart, shareKeys, storageVars
  <1>7. ShareWriter \/ ShareWriterFails =>
          UNCHANGED pplnslog \/ \E s, n, cut : WriteShare(s, n, cut)
    BY DEF ShareWriter, ShareWriterFails, putShareNow, putShareNowFails, shareKeys
  <1>8. UNCHANGED vars => UNCHANGED pplnslog
    BY DEF vars, storageVars, shareKeys
  <1>9. [Next]_vars => [Kept]_vars
    BY <1>1, <1>2, <1>3, <1>4, <1>5, <1>6, <1>7, <1>8 DEF Next
  <1>10. QED
    BY <1>9, PTL DEF Spec, UncreditedKept
==============================================================================
