------------------------------- MODULE Storage -------------------------------
(***************************************************************************)
(* The accounting keys the pool keeps in redis (storage/redis.go) and the  *)
(* single goroutine that writes shares to them.                            *)
(*                                                                         *)
(* Every redis command, and every MULTI/EXEC transaction, is atomic.  The  *)
(* hash maps are total functions: a miner with no entry has 0.  Statistics *)
(* keys (miner and rig indexes, counters, hashrate series) are disjoint    *)
(* from these and no accounting operation reads them.                      *)
(*                                                                         *)
(* Amounts.  The code holds coins as float64 and satoshis as uint64.  Here *)
(* a coin amount is an integer number of grains, Grain grains to the       *)
(* satoshi: a grid finer than a satoshi, as the floats are.                *)
(***************************************************************************)
EXTENDS Integers, Sequences, FiniteSets, FiniteSetsExt, Functions

CONSTANTS
  Miners,      \* the miner names that shares are submitted under
  Prefix,      \* Prefix[m]: the part of m's name before its first ':'
  Blocks,      \* hashes of the blocks the pool's miners may find
  NoBlock,     \* an ordinary share: BlockHex = ""
  HeightOf,    \* HeightOf[b]: the height block b was mined at
  Diffs,       \* the share difficulties in use
  Grain,       \* grains (points of the coin grid) in a satoshi
  QueueCap,    \* capacity of the share channel (4096 in the code)
  LogCap       \* pplnsLogCap (200000 in the code)

ASSUME StorageAssumption ==
  /\ IsFiniteSet(Miners)
  /\ Prefix \in [Miners -> Miners]
  /\ \A m \in Miners : Prefix[Prefix[m]] = Prefix[m]
  /\ HeightOf \in [Blocks -> Nat]
  /\ NoBlock \notin Blocks
  /\ Diffs \subseteq Nat \ {0}
  /\ Grain \in Nat \ {0}
  /\ QueueCap \in Nat \ {0}
  /\ LogCap \in Nat \ {0}

Heights == {HeightOf[b] : b \in Blocks}

(* A share job as PutShare enqueues it: valid iff ErrorCode = 0. *)
Share == [miner : Miners, diff : Diffs, valid : BOOLEAN,
          block : Blocks \cup {NoBlock}, accepted : BOOLEAN]

LogEntry == [miner : Miners, diff : Diffs, seq : Nat]

(* A share in the history: with the block it sealed a round for, and whether *)
(* the rank cap was in force.                                                *)
Recorded == [miner : Miners, diff : Diffs, seq : Nat, seal : Blocks \cup {NoBlock}, capped : BOOLEAN]

PendingBlock == [hash : Blocks, finder : Miners, mark : Nat]

Contribution == [Miners -> Nat]
Zero == [m \in Miners |-> 0]

PaymentUpdate ==
  [Balances     : {<<>>} \cup [Miners -> Nat],  \* <<>>: no balance is written
   Paid         : [Miners -> Nat],
   Confirmed    : SUBSET PendingBlock,
   Orphaned     : SUBSET PendingBlock,
   DeleteRounds : SUBSET Heights,
   PPSCursor    : Nat]

EmptyUpdate ==
  [Balances |-> <<>>, Paid |-> Zero, Confirmed |-> {}, Orphaned |-> {},
   DeleteRounds |-> {}, PPSCursor |-> 0]

(* The payouts:intent hash: absent, present with an empty txid, or stamped. *)
PayoutIntent == [status : {"none", "unstamped", "stamped"},
                 update : PaymentUpdate]
NoIntent == [status |-> "none", update |-> EmptyUpdate]

VARIABLES
  queue,         \* DB.shares: the channel PutShare sends on (in memory)
  ppsMode,       \* DB.ppsMode (in memory)
  seq,           \* shares:seq
  pplnslog,      \* shares:pplnslog
  roundCurrent,  \* shares:roundCurrent
  rounds,        \* shares:round<height>
  pending,       \* blocks:pending
  confirmed,     \* blocks:confirmed
  orphaned,      \* blocks:orphaned
  balances,      \* balances, in coin
  payouts,       \* payouts, in coin
  cursor,        \* pps:cursor
  intent,        \* payouts:intent
  recorded       \* history: every share whose round contribution was written

shareKeys   == <<seq, pplnslog, roundCurrent, rounds>>
blockKeys   == <<pending, confirmed, orphaned>>
ledgerKeys  == <<balances, payouts, cursor>>
storageVars == <<queue, ppsMode, shareKeys, blockKeys, ledgerKeys, intent, recorded>>

StorageTypeOK ==
  /\ queue \in Seq(Share)
  /\ ppsMode \in BOOLEAN
  /\ seq \in Nat
  /\ pplnslog \subseteq LogEntry /\ IsFiniteSet(pplnslog)
  /\ roundCurrent \in Contribution
  /\ rounds \in [Heights -> Contribution]
  /\ pending \subseteq PendingBlock
  /\ confirmed \subseteq PendingBlock
  /\ orphaned \subseteq PendingBlock
  /\ balances \in [Miners -> Nat]
  /\ payouts \in [Miners -> Nat]
  /\ cursor \in Nat
  /\ intent \in PayoutIntent
  /\ recorded \in Seq(Recorded)

StorageInit ==
  /\ queue = <<>>
  /\ ppsMode = FALSE
  /\ seq = 0
  /\ pplnslog = {}
  /\ roundCurrent = Zero
  /\ rounds = [h \in Heights |-> Zero]
  /\ pending = {} /\ confirmed = {} /\ orphaned = {}
  /\ balances = Zero
  /\ payouts = Zero
  /\ cursor = 0
  /\ intent = NoIntent
  /\ recorded = <<>>

-----------------------------------------------------------------------------
(* Conversions.                                                            *)

SatToCoin(sat) == sat * Grain
CoinToSat(coin) == (2 * coin + Grain) \div (2 * Grain)  \* rounds half up

(* A pending block is stored as String() wrote it and read back by          *)
(* NewPendingBlockFromString, which splits at every ':'.  A finder name     *)
(* with a ':' comes back as its prefix, and the field after it, no number,  *)
(* is read as mark 0.                                                       *)
NewPendingBlockFromString(pb) ==
  IF Prefix[pb.finder] = pb.finder THEN pb
  ELSE [pb EXCEPT !.finder = Prefix[pb.finder], !.mark = 0]

(* A log member is miner:diff:seq.  With a ':' in the name the second field *)
(* is no number and the readers skip the member.                            *)
Readable(e) == Prefix[e.miner] = e.miner

DiffSum(S) == SumFunction([e \in S |-> e.diff])

DiffByMiner(S) ==
  [m \in Miners |-> DiffSum({e \in S : e.miner = m})]

-----------------------------------------------------------------------------
(* Shares in.                                                              *)

PutShare(share) ==
  /\ Len(queue) < QueueCap
  /\ queue' = Append(queue, share)

(* Mutant: the cap is applied in pps mode too. *)
CappedAlways(log) ==
  {e \in log : Cardinality({x \in log : x.seq > e.seq}) < LogCap}

(* The rank cap, applied in the pipeline that adds a share. *)
Capped(log) ==
  IF ppsMode THEN log
  ELSE {e \in log : Cardinality({x \in log : x.seq > e.seq}) < LogCap}

Seals(share) == share.block # NoBlock /\ share.accepted

(* Mutant: the seal copies the current round instead of renaming it. *)
WriteShareCopies(s, n, cut) ==
  LET current == IF cut >= 2 THEN [roundCurrent EXCEPT ![s.miner] = @ + s.diff]
                             ELSE roundCurrent
      sealed  == cut >= 3 /\ Seals(s)
  IN
  /\ queue' = Tail(queue)
  /\ pplnslog' = IF cut >= 1
                 THEN Capped(pplnslog \cup {[miner |-> s.miner, diff |-> s.diff, seq |-> n]})
                 ELSE pplnslog
  /\ rounds' = IF sealed THEN [rounds EXCEPT ![HeightOf[s.block]] = current] ELSE rounds
  /\ roundCurrent' = current
  /\ pending' = IF cut >= 4 /\ Seals(s)
                THEN pending \cup {[hash |-> s.block, finder |-> s.miner, mark |-> n]}
                ELSE pending
  /\ recorded' = IF cut >= 2
                 THEN Append(recorded, [miner |-> s.miner, diff |-> s.diff, seq |-> n,
                                        seal |-> IF sealed THEN s.block ELSE NoBlock,
                                        capped |-> ~ppsMode])
                 ELSE recorded
  /\ UNCHANGED <<ppsMode, confirmed, orphaned, ledgerKeys, intent>>

(* The writer takes share s off the channel: n is what Incr returned, and   *)
(* the commands of the (non-transactional) pipeline are executed up to the  *)
(* cut-th: 1 the log, 2 the round contribution, 3 the seal (Rename), 4 the  *)
(* pending record.                                                          *)
WriteShare(s, n, cut) ==
  LET current == IF cut >= 2 THEN [roundCurrent EXCEPT ![s.miner] = @ + s.diff]
                             ELSE roundCurrent
      sealed  == cut >= 3 /\ Seals(s)
  IN
  /\ queue' = Tail(queue)
  /\ pplnslog' = IF cut >= 1
                 THEN Capped(pplnslog \cup {[miner |-> s.miner, diff |-> s.diff, seq |-> n]})
                 ELSE pplnslog
  /\ rounds' = IF sealed THEN [rounds EXCEPT ![HeightOf[s.block]] = current] ELSE rounds
  /\ roundCurrent' = IF sealed THEN Zero ELSE current
  /\ pending' = IF cut >= 4 /\ Seals(s)
                THEN pending \cup {[hash |-> s.block, finder |-> s.miner, mark |-> n]}
                ELSE pending
  /\ recorded' = IF cut >= 2
                 THEN Append(recorded, [miner |-> s.miner, diff |-> s.diff, seq |-> n,
                                        seal |-> IF sealed THEN s.block ELSE NoBlock,
                                        capped |-> ~ppsMode])
                 ELSE recorded
  /\ UNCHANGED <<ppsMode, confirmed, orphaned, ledgerKeys, intent>>

(* One turn of the writer goroutine with redis answering. *)
putShareNow ==
  /\ queue # <<>>
  /\ LET s == Head(queue) IN
     IF s.valid
     THEN /\ seq' = seq + 1
          /\ WriteShare(s, seq + 1, 4)
     ELSE /\ queue' = Tail(queue)   \* only statistics keys are written
          /\ UNCHANGED <<ppsMode, shareKeys, blockKeys, ledgerKeys, intent, recorded>>

(* One turn with redis failing: Incr fails (its error is ignored and seq    *)
(* is 0), or the pipeline is cut short, or both; the share is not retried.  *)
putShareNowFails ==
  /\ queue # <<>>
  /\ Head(queue).valid
  /\ \E incr \in BOOLEAN, cut \in 0..4 :
       /\ ~(incr /\ cut = 4)
       /\ seq' = IF incr THEN seq + 1 ELSE seq
       /\ WriteShare(Head(queue), IF incr THEN seq + 1 ELSE 0, cut)

-----------------------------------------------------------------------------
(* What the payer reads.                                                   *)

GetAllPendingBlocks == {NewPendingBlockFromString(pb) : pb \in pending}

GetRoundContrib(h) == rounds[h]

(* Mutant: a share is taken while what is newer does not exceed the window. *)
GetPPLNSSharesLate(log, uptoSeq, window) ==
  LET upto    == {e \in log : e.seq <= uptoSeq /\ Readable(e)}
      Newer(e) == DiffSum({x \in upto : x.seq > e.seq})
  IN  DiffByMiner({e \in upto : Newer(e) <= window})

(* Mutant: the block-finding share is left out. *)
GetPPLNSSharesBefore(log, uptoSeq, window) ==
  LET upto    == {e \in log : e.seq < uptoSeq /\ Readable(e)}
      Newer(e) == DiffSum({x \in upto : x.seq > e.seq})
  IN  DiffByMiner({e \in upto : Newer(e) < window})

(* The log walked back from the mark until the difficulty summed reaches    *)
(* the window: a member is taken while what is newer is short of it.        *)
GetPPLNSShares(log, uptoSeq, window) ==
  LET upto    == {e \in log : e.seq <= uptoSeq /\ Readable(e)}
      Newer(e) == DiffSum({x \in upto : x.seq > e.seq})
  IN  DiffByMiner({e \in upto : Newer(e) < window})

(* GetSharesSince: the readable members above the cursor, and the highest   *)
(* sequence among them (the cursor itself if there is none).                *)
SharesSince(c) == {e \in pplnslog : e.seq > c /\ Readable(e)}
MaxSeq(c) ==
  {n \in {c} \cup {e.seq : e \in SharesSince(c)} : \A e \in SharesSince(c) : e.seq <= n}

-----------------------------------------------------------------------------
(* What the payer writes.                                                  *)

(* Mutant: the intent is not dropped. *)
ApplyPaymentsKeepsIntent(u) ==
  /\ balances' = IF u.Balances = <<>> THEN balances ELSE u.Balances
  /\ payouts' = [m \in Miners |-> payouts[m] + u.Paid[m]]
  /\ confirmed' = confirmed \cup (u.Confirmed \cap pending)
  /\ orphaned' = orphaned \cup (u.Orphaned \cap pending)
  /\ pending' = pending \ (u.Confirmed \cup u.Orphaned)
  /\ rounds' = [h \in Heights |-> IF h \in u.DeleteRounds THEN Zero ELSE rounds[h]]
  /\ cursor' = IF u.PPSCursor > 0 THEN u.PPSCursor ELSE cursor
  /\ pplnslog' = IF u.PPSCursor > 0 THEN {e \in pplnslog : e.seq > u.PPSCursor} ELSE pplnslog
  /\ intent' = intent
  /\ UNCHANGED <<queue, ppsMode, seq, roundCurrent, recorded>>

(* Mutant: confirmed blocks are copied, not moved. *)
ApplyPaymentsCopies(u) ==
  /\ balances' = IF u.Balances = <<>> THEN balances ELSE u.Balances
  /\ payouts' = [m \in Miners |-> payouts[m] + u.Paid[m]]
  /\ confirmed' = confirmed \cup (u.Confirmed \cap pending)
  /\ orphaned' = orphaned \cup (u.Orphaned \cap pending)
  /\ pending' = pending \ u.Orphaned
  /\ rounds' = [h \in Heights |-> IF h \in u.DeleteRounds THEN Zero ELSE rounds[h]]
  /\ cursor' = IF u.PPSCursor > 0 THEN u.PPSCursor ELSE cursor
  /\ pplnslog' = IF u.PPSCursor > 0 THEN {e \in pplnslog : e.seq > u.PPSCursor} ELSE pplnslog
  /\ intent' = NoIntent
  /\ UNCHANGED <<queue, ppsMode, seq, roundCurrent, recorded>>

(* Mutant: the cursor moves to the newest share, not to the newest one read. *)
ApplyPaymentsSkips(u) ==
  /\ balances' = IF u.Balances = <<>> THEN balances ELSE u.Balances
  /\ payouts' = [m \in Miners |-> payouts[m] + u.Paid[m]]
  /\ confirmed' = confirmed \cup (u.Confirmed \cap pending)
  /\ orphaned' = orphaned \cup (u.Orphaned \cap pending)
  /\ pending' = pending \ (u.Confirmed \cup u.Orphaned)
  /\ rounds' = [h \in Heights |-> IF h \in u.DeleteRounds THEN Zero ELSE rounds[h]]
  /\ cursor' = IF u.PPSCursor > 0 THEN seq ELSE cursor
  /\ pplnslog' = IF u.PPSCursor > 0 THEN {e \in pplnslog : e.seq > u.PPSCursor} ELSE pplnslog
  /\ intent' = NoIntent
  /\ UNCHANGED <<queue, ppsMode, seq, roundCurrent, recorded>>

(* SMove of a member that is not there (its string differs) does nothing. *)
ApplyPayments(u) ==
  /\ balances' = IF u.Balances = <<>> THEN balances ELSE u.Balances
  /\ payouts' = [m \in Miners |-> payouts[m] + u.Paid[m]]
  /\ confirmed' = confirmed \cup (u.Confirmed \cap pending)
  /\ orphaned' = orphaned \cup (u.Orphaned \cap pending)
  /\ pending' = pending \ (u.Confirmed \cup u.Orphaned)
  /\ rounds' = [h \in Heights |-> IF h \in u.DeleteRounds THEN Zero ELSE rounds[h]]
  /\ cursor' = IF u.PPSCursor > 0 THEN u.PPSCursor ELSE cursor
  /\ pplnslog' = IF u.PPSCursor > 0 THEN {e \in pplnslog : e.seq > u.PPSCursor} ELSE pplnslog
  /\ intent' = NoIntent
  /\ UNCHANGED <<queue, ppsMode, seq, roundCurrent, recorded>>

IntentOnly == UNCHANGED <<queue, ppsMode, shareKeys, blockKeys, ledgerKeys, recorded>>

PutPayoutIntent(u) ==
  /\ intent' = [status |-> "unstamped", update |-> u]
  /\ IntentOnly

SetPayoutIntentTxid ==
  /\ intent' = [status |-> "stamped", update |-> intent.update]
  /\ IntentOnly

DelPayoutIntent ==
  /\ intent' = NoIntent
  /\ IntentOnly

(* The process dies: what is in memory is gone, redis keeps its keys. *)
StorageRestart ==
  /\ queue' = <<>>
  /\ ppsMode' = FALSE
  /\ UNCHANGED <<shareKeys, blockKeys, ledgerKeys, intent, recorded>>
==============================================================================
