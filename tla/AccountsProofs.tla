--------------------------- MODULE AccountsProofs ----------------------------
(***************************************************************************)
(* What TLAPS proves of the accounts the payout processor keeps: sealed    *)
(* rounds hold exactly the shares of their round, only blocks that left    *)
(* the chain are orphaned, every confirmed block and, in pps mode, every   *)
(* share is credited once, and the processor implements PayoutLedger.      *)
(*                                                                         *)
(* Two things are asked of the pool's input, and two runs show what        *)
(* happens without them: names without ':' (run colon_name) and no two     *)
(* pool blocks at one height (run same_height).                            *)
(***************************************************************************)
EXTENDS Accounts, PaymentsProofs

(* What is asked of names and heights. *)
NamesArePlain == \A m \in Miners : Prefix[m] = m
HeightsApart  == \A b, c \in Blocks : HeightOf[b] = HeightOf[c] => b = c

-----------------------------------------------------------------------------
(* The inductive invariants.                                               *)

(* The blocks on record, and the shares of the round that is open. *)
Known == pending \cup confirmed \cup orphaned
OpenRound == {k \in DOMAIN recorded : \A j \in k..Len(recorded) : recorded[j].seal = NoBlock}

(* A block seals one round, of which its record tells the finder; what is   *)
(* still in the channel has sealed none.                                    *)
SealedOnce ==
  /\ \A i, j \in DOMAIN recorded :
       recorded[i].seal # NoBlock /\ recorded[i].seal = recorded[j].seal => i = j
  /\ \A i \in DOMAIN recorded :
       recorded[i].seal # NoBlock => chain[recorded[i].seal] # "none"
  /\ \A i \in DOMAIN queue : Seals(queue[i]) =>
       \A k \in DOMAIN recorded : recorded[k].seal # queue[i].block
  /\ \A pb \in Known : \E k \in DOMAIN recorded :
       recorded[k].seal = pb.hash /\ recorded[k].miner = pb.finder

(* An update judges blocks on record and drops no round but theirs. *)
JudgesKnown(u) ==
  /\ u.Confirmed \cup u.Orphaned \subseteq Known
  /\ u.DeleteRounds \subseteq {HeightOf[pb.hash] : pb \in u.Confirmed \cup u.Orphaned}

(* Rounds, open and sealed, hold what the history says. *)
RoundInv ==
  /\ SealedOnce
  /\ roundCurrent = [m \in Miners |-> WorkOf(m, OpenRound)]
  /\ SealedRoundExact
  /\ todo \subseteq Known
  /\ JudgesKnown(update)
  /\ JudgesKnown(intent.update)

(* A block was off the chain, or the node erred about it, before it was     *)
(* condemned, whoever has condemned it; the blocks being judged still have  *)
(* their rounds.                                                            *)
OffChainInv ==
  /\ pc = "classify" => todo \subseteq pending
  /\ \A b \in Blocks : chain[b] = "off" => b \in everOff
  /\ Hashes(orphaned \cup update.Orphaned \cup intent.update.Orphaned) \subseteq everOff \cup erred

-----------------------------------------------------------------------------
(* Rounds of a history of shares r, as functions of it.                    *)

WorkIn(r, m, K) == SumFunction([k \in {k \in K : r[k].miner = m} |-> r[k].diff])
RoundIn(r, i) == {k \in 1..i : \A j \in k..(i - 1) : r[j].seal = NoBlock}

(* The accounts are these functions of the recorded shares. *)
LEMMA WorkOfRecorded ==
  /\ \A m, K : WorkOf(m, K) = WorkIn(recorded, m, K)
  /\ \A i : RoundUpTo(i) = RoundIn(recorded, i)
  BY DEF WorkOf, WorkIn, RoundUpTo, RoundIn

(* Work does not depend on the shares that are not asked for. *)
LEMMA WorkSame ==
  ASSUME NEW r, NEW q, NEW m, NEW K, \A k \in K : r[k] = q[k]
  PROVE  WorkIn(r, m, K) = WorkIn(q, m, K)
  <1> DEFINE R == {k \in K : r[k].miner = m}
             Q == {k \in K : q[k].miner = m}
  <1>1. R = Q
    OBVIOUS
  <1>2. [k \in R |-> r[k].diff] = [k \in Q |-> q[k].diff]
    BY <1>1
  <1>3. QED
    BY <1>2 DEF WorkIn

(* Work as a sum over the shares of one miner. *)
LEMMA WorkAsSum ==
  ASSUME NEW r, NEW m, NEW K, IsFiniteSet(K), NEW L, K \subseteq L
  PROVE  WorkIn(r, m, K) =
           SumFunctionOnSet([k \in L |-> r[k].diff], {k \in K : r[k].miner = m})
  <1> DEFINE M == {k \in K : r[k].miner = m}
             f == [k \in M |-> r[k].diff]
             g == [k \in L |-> r[k].diff]
  <1>1. IsFiniteSet(M)
    BY FS_Subset
  <1>2. \A k \in M : f[k] = g[k]
    OBVIOUS
  <1>3. WorkIn(r, m, K) = SumFunctionOnSet(f, M)
    BY DEF WorkIn, SumFunction
  <1> HIDE DEF M, f, g
  <1>4. SumFunctionOnSet(f, M) = SumFunctionOnSet(g, M)
    BY <1>1, <1>2, SumSame
  <1>5. QED
    BY <1>3, <1>4 DEF M, g

(* Work is a natural number, no less than any one of the shares. *)
LEMMA WorkNat ==
  ASSUME NEW r, NEW m, NEW K, IsFiniteSet(K), \A k \in K : r[k].diff \in Nat
  PROVE  /\ WorkIn(r, m, K) \in Nat
         /\ \A k \in K : r[k].miner = m => WorkIn(r, m, K) >= r[k].diff
  <1> DEFINE M == {k \in K : r[k].miner = m}
             g == [k \in K |-> r[k].diff]
  <1>1. IsFiniteSet(M)
    BY FS_Subset
  <1>2. \A k \in M : g[k] \in Nat /\ g[k] = r[k].diff
    OBVIOUS
  <1>3. WorkIn(r, m, K) = SumFunctionOnSet(g, M)
    BY WorkAsSum
  <1>4. \A k \in K : r[k].miner = m => k \in M
    OBVIOUS
  <1> HIDE DEF M, g
  <1>5. SumFunctionOnSet(g, M) \in Nat
    BY <1>1, <1>2, SumNat
  <1>6. \A k \in M : SumFunctionOnSet(g, M) >= g[k]
    BY <1>1, <1>2, SumAtLeast
  <1>7. QED
    BY <1>2, <1>3, <1>4, <1>5, <1>6

(* One more share adds its difficulty to its miner's work. *)
LEMMA WorkAdd ==
  ASSUME NEW r, NEW m, NEW K, IsFiniteSet(K), NEW n, n \notin K,
         \A k \in K \union {n} : r[k].diff \in Nat
  PROVE  WorkIn(r, m, K \union {n}) =
           IF r[n].miner = m THEN WorkIn(r, m, K) + r[n].diff ELSE WorkIn(r, m, K)
  <1> DEFINE L == K \union {n}
             M == {k \in K : r[k].miner = m}
             N == {k \in L : r[k].miner = m}
             g == [k \in L |-> r[k].diff]
  <1>1. IsFiniteSet(M) /\ IsFiniteSet(L) /\ n \notin M
    BY FS_Subset, FS_AddElement
  <1>2. \A k \in M \union {n} : g[k] \in Nat /\ g[k] = r[k].diff
    OBVIOUS
  <1>3. WorkIn(r, m, K) = SumFunctionOnSet(g, M) /\ WorkIn(r, m, L) = SumFunctionOnSet(g, N)
    BY <1>1, WorkAsSum
  <1>4. N = IF r[n].miner = m THEN M \union {n} ELSE M
    OBVIOUS
  <1> HIDE DEF L, M, N, g
  <1>5. SumFunctionOnSet(g, M \union {n}) = SumFunctionOnSet(g, M) + g[n]
    BY <1>1, <1>2, SumAdd
  <1>6. WorkIn(r, m, L) =
          IF r[n].miner = m THEN WorkIn(r, m, K) + r[n].diff ELSE WorkIn(r, m, K)
    BY <1>2, <1>3, <1>4, <1>5
  <1>7. QED
    BY <1>6 DEF L

(* No shares, no work. *)
LEMMA NoWork ==
  ASSUME NEW r, NEW m
  PROVE  WorkIn(r, m, {}) = 0
  <1>1. WorkIn(r, m, {}) = SumFunctionOnSet([k \in {} |-> r[k].diff], {})
    <2>1. {k \in {} : r[k].miner = m} = {}
      OBVIOUS
    <2>2. WorkIn(r, m, {}) = SumFunction([k \in {} |-> r[k].diff])
      BY <2>1 DEF WorkIn
    <2>3. QED
      BY <2>2 DEF SumFunction
  <1>2. QED
    BY <1>1, SumEmpty

(* A share that sealed a round keeps its place, and its round, as shares    *)
(* are appended.                                                            *)
LEMMA RoundKept ==
  ASSUME NEW r \in Seq(Recorded), NEW e \in Recorded, NEW i \in DOMAIN r
  PROVE  /\ RoundIn(Append(r, e), i) = RoundIn(r, i)
         /\ \A m : WorkIn(Append(r, e), m, RoundIn(Append(r, e), i)) = WorkIn(r, m, RoundIn(r, i))
  <1>1. /\ i \in Nat /\ i <= Len(r) /\ Len(r) \in Nat
        /\ \A j \in 1..i : Append(r, e)[j] = r[j]
    OBVIOUS
  <1>2. RoundIn(Append(r, e), i) = RoundIn(r, i)
    BY <1>1 DEF RoundIn
  <1>3. \A k \in RoundIn(r, i) : Append(r, e)[k] = r[k]
    BY <1>1 DEF RoundIn
  <1>4. \A m : WorkIn(Append(r, e), m, RoundIn(r, i)) = WorkIn(r, m, RoundIn(r, i))
    <2> DEFINE q == Append(r, e)
               K == RoundIn(r, i)
    <2>1. \A k \in K : q[k] = r[k]
      BY <1>3
    <2> HIDE DEF q, K
    <2>2. \A m : WorkIn(q, m, K) = WorkIn(r, m, K)
      BY <2>1, WorkSame
    <2>3. QED
      BY <2>2 DEF q, K
  <1>5. QED
    BY <1>2, <1>4

(* The shares of a round are finitely many, and have difficulties. *)
LEMMA RoundFinite ==
  ASSUME NEW r \in Seq(Recorded), NEW i \in DOMAIN r
  PROVE  /\ IsFiniteSet(RoundIn(r, i))
         /\ i \in RoundIn(r, i)
         /\ \A k \in RoundIn(r, i) : r[k].diff \in Nat /\ r[k].diff > 0
  <1>1. i \in Nat /\ i >= 1 /\ i <= Len(r) /\ Len(r) \in Nat
    OBVIOUS
  <1>2. RoundIn(r, i) \subseteq 1..i /\ i \in RoundIn(r, i)
    BY <1>1 DEF RoundIn
  <1>3. IsFiniteSet(1..i)
    BY <1>1, FS_Interval
  <1>4. \A k \in 1..i : r[k] \in Recorded
    BY <1>1
  <1>5. IsFiniteSet(RoundIn(r, i))
    BY <1>2, <1>3, FS_Subset
  <1>6. ASSUME NEW k \in 1..i PROVE r[k].diff \in Nat /\ r[k].diff > 0
    <2>1. r[k].diff \in Diffs
      BY <1>4 DEF Recorded
    <2>2. \A d \in Diffs : d \in Nat /\ d > 0
      BY StorageAssumption
    <2>3. QED
      BY <2>1, <2>2
  <1>7. QED
    BY <1>2, <1>5, <1>6

OpenIn(r) == {k \in DOMAIN r : \A j \in k..Len(r) : r[j].seal = NoBlock}
SharesIn(r, b) ==
  [m \in Miners |-> WorkIn(r, m, RoundIn(r, CHOOSE k \in DOMAIN r : r[k].seal = b))]

(* The open round, now and after a step. *)
LEMMA OpenRecorded ==
  /\ OpenRound = OpenIn(recorded)
  /\ OpenRound' = OpenIn(recorded')
  BY DEF OpenRound, OpenIn

(* The round of a block, now and after a step. *)
LEMMA SharesRecorded ==
  /\ \A b : RoundShares(b) = SharesIn(recorded, b)
  /\ \A b : RoundShares(b)' = SharesIn(recorded', b)
  <1>1. \A b : RoundShares(b) = SharesIn(recorded, b)
    BY WorkOfRecorded DEF RoundShares, SharesIn, Sealing
  <1>2. \A b : RoundShares(b)' = SharesIn(recorded', b)
    BY DEF RoundShares, SharesIn, Sealing, WorkOf, WorkIn, RoundUpTo, RoundIn
  <1>3. QED
    BY <1>1, <1>2

(* The open round's work, now and after a step. *)
LEMMA OpenWorkRecorded ==
  /\ [m \in Miners |-> WorkOf(m, OpenRound)] = [m \in Miners |-> WorkIn(recorded, m, OpenIn(recorded))]
  /\ [m \in Miners |-> WorkOf(m, OpenRound)]' =
       [m \in Miners |-> WorkIn(recorded', m, OpenIn(recorded'))]
  BY OpenRecorded DEF WorkOf, WorkIn

(* The block of a seal that is there once has the round that ends there. *)
LEMMA SharesAt ==
  ASSUME NEW r, NEW b, NEW i \in DOMAIN r, r[i].seal = b, \A j \in DOMAIN r : r[j].seal = b => j = i
  PROVE  SharesIn(r, b) = [m \in Miners |-> WorkIn(r, m, RoundIn(r, i))]
  <1>1. (CHOOSE k \in DOMAIN r : r[k].seal = b) = i
    OBVIOUS
  <1>2. QED
    BY <1>1 DEF SharesIn

(* A sealed round is not changed by later shares. *)
LEMMA SharesKept ==
  ASSUME NEW r \in Seq(Recorded), NEW e \in Recorded, NEW b, NEW i \in DOMAIN r, r[i].seal = b,
         \A j \in DOMAIN r : r[j].seal = b => j = i, e.seal # b
  PROVE  SharesIn(Append(r, e), b) = SharesIn(r, b)
  <1> DEFINE q == Append(r, e)
  <1>1. /\ DOMAIN q = DOMAIN r \union {Len(r) + 1} /\ q[Len(r) + 1] = e
        /\ \A j \in DOMAIN r : q[j] = r[j]
    OBVIOUS
  <1>2. /\ RoundIn(q, i) = RoundIn(r, i)
        /\ \A m : WorkIn(q, m, RoundIn(q, i)) = WorkIn(r, m, RoundIn(r, i))
    BY RoundKept
  <1> HIDE DEF q
  <1>3. i \in DOMAIN q /\ q[i].seal = b /\ \A j \in DOMAIN q : q[j].seal = b => j = i
    BY <1>1
  <1>4. /\ SharesIn(q, b) = [m \in Miners |-> WorkIn(q, m, RoundIn(q, i))]
        /\ SharesIn(r, b) = [m \in Miners |-> WorkIn(r, m, RoundIn(r, i))]
    BY <1>3, SharesAt
  <1>5. SharesIn(q, b) = SharesIn(r, b)
    BY <1>2, <1>4
  <1>6. QED
    BY <1>5 DEF q

(* What a new share makes of the open round: it joins it, and closes it if  *)
(* it seals.                                                                *)
LEMMA OpenAppend ==
  ASSUME NEW r \in Seq(Recorded), NEW e \in Recorded
  PROVE  /\ RoundIn(Append(r, e), Len(r) + 1) = OpenIn(r) \union {Len(r) + 1}
         /\ e.seal = NoBlock => OpenIn(Append(r, e)) = OpenIn(r) \union {Len(r) + 1}
         /\ e.seal # NoBlock => OpenIn(Append(r, e)) = {}
  <1> DEFINE q == Append(r, e)
             n == Len(r) + 1
  <1>1. /\ Len(r) \in Nat /\ n \in Nat /\ Len(q) = n /\ DOMAIN r = 1..Len(r) /\ DOMAIN q = 1..n
        /\ q[n] = e /\ \A j \in 1..Len(r) : q[j] = r[j]
    OBVIOUS
  <1> HIDE DEF q
  <1>2. RoundIn(q, n) = OpenIn(r) \union {n}
    <2>1. ASSUME NEW k \in RoundIn(q, n), k # n PROVE k \in OpenIn(r)
      <3>1. k \in 1..Len(r) /\ \A j \in k..Len(r) : q[j].seal = NoBlock
        BY <1>1, <2>1 DEF RoundIn
      <3>2. QED
        BY <1>1, <3>1 DEF OpenIn
    <2>2. ASSUME NEW k \in OpenIn(r) PROVE k \in RoundIn(q, n)
      <3>1. k \in 1..Len(r) /\ \A j \in k..Len(r) : r[j].seal = NoBlock
        BY <1>1 DEF OpenIn
      <3>2. \A j \in k..Len(r) : q[j].seal = NoBlock
        BY <1>1, <3>1
      <3>3. QED
        BY <1>1, <3>1, <3>2 DEF RoundIn
    <2>3. n \in RoundIn(q, n)
      BY <1>1 DEF RoundIn
    <2>4. QED
      BY <2>1, <2>2, <2>3
  <1>3. ASSUME e.seal = NoBlock PROVE OpenIn(q) = OpenIn(r) \union {n}
    <2>1. OpenIn(q) = RoundIn(q, n)
      <3>1. ASSUME NEW k \in 1..n
            PROVE  (\A j \in k..n : q[j].seal = NoBlock) <=> (\A j \in k..(n - 1) : q[j].seal = NoBlock)
        BY <1>1, <1>3
      <3>2. QED
        BY <1>1, <3>1 DEF OpenIn, RoundIn
    <2>2. QED
      BY <1>2, <2>1
  <1>4. ASSUME e.seal # NoBlock PROVE OpenIn(q) = {}
    BY <1>1, <1>4 DEF OpenIn
  <1>5. QED
    BY <1>2, <1>3, <1>4 DEF q

(* The work in the open round and the new share together. *)
LEMMA OpenWork ==
  ASSUME NEW r \in Seq(Recorded), NEW e \in Recorded, NEW m
  PROVE  WorkIn(Append(r, e), m, OpenIn(r) \union {Len(r) + 1}) =
           IF e.miner = m THEN WorkIn(r, m, OpenIn(r)) + e.diff ELSE WorkIn(r, m, OpenIn(r))
  <1> DEFINE q == Append(r, e)
             n == Len(r) + 1
             K == OpenIn(r)
  <1>1. /\ Len(r) \in Nat /\ n \in Nat /\ Len(q) = n /\ DOMAIN r = 1..Len(r) /\ DOMAIN q = 1..n
        /\ q[n] = e /\ \A j \in 1..Len(r) : q[j] = r[j]
        /\ q \in Seq(Recorded)
    OBVIOUS
  <1>2. K \subseteq 1..Len(r)
    BY DEF OpenIn
  <1>3. IsFiniteSet(K) /\ n \notin K
    <2>1. IsFiniteSet(1..Len(r))
      BY <1>1, FS_Interval
    <2>2. n \notin 1..Len(r)
      BY <1>1
    <2>3. QED
      BY <1>2, <2>1, <2>2, FS_Subset
  <1>4. \A k \in K \union {n} : q[k] \in Recorded
    BY <1>1, <1>2
  <1>5. \A k \in K \union {n} : q[k].diff \in Nat
    <2>1. \A x \in Recorded : x.diff \in Nat
      BY StorageAssumption DEF Recorded
    <2>2. QED
      BY <1>4, <2>1
  <1>6. \A k \in K : q[k] = r[k]
    BY <1>1, <1>2
  <1> HIDE DEF q, n, K
  <1>7. WorkIn(q, m, K \union {n}) =
          IF q[n].miner = m THEN WorkIn(q, m, K) + q[n].diff ELSE WorkIn(q, m, K)
    BY <1>3, <1>5, WorkAdd
  <1>8. WorkIn(q, m, K) = WorkIn(r, m, K)
    BY <1>6, WorkSame
  <1>9. WorkIn(q, m, K \union {n}) =
          IF e.miner = m THEN WorkIn(r, m, K) + e.diff ELSE WorkIn(r, m, K)
    BY <1>1, <1>7, <1>8
  <1>10. QED
    BY <1>9 DEF q, n, K

-----------------------------------------------------------------------------
(* Rounds.                                                                 *)

(* One seal of a block in the history: its place. *)
LEMMA SealPlace ==
  ASSUME SealedOnce, TypeOK, NEW pb \in Known
  PROVE  \E i \in DOMAIN recorded :
           /\ recorded[i].seal = pb.hash /\ recorded[i].miner = pb.finder
           /\ \A j \in DOMAIN recorded : recorded[j].seal = pb.hash => j = i
  <1>1. pb.hash \in Blocks
    BY DEF Known, TypeOK, StorageTypeOK, PendingBlock
  <1>2. pb.hash # NoBlock
    BY <1>1, StorageAssumption
  <1>3. QED
    BY <1>2 DEF SealedOnce

(* Blocks of one height are one block on record. *)
LEMMA HeightTells ==
  ASSUME TypeOK, BlockRecords, HeightsApart, NEW p \in Known, NEW q \in Known,
         HeightOf[p.hash] = HeightOf[q.hash]
  PROVE  p = q
  <1>1. p.hash \in Blocks /\ q.hash \in Blocks
    BY DEF Known, TypeOK, StorageTypeOK, PendingBlock
  <1>2. p.hash = q.hash
    BY <1>1 DEF HeightsApart
  <1>3. QED
    BY <1>2 DEF BlockRecords, Known

(* What the channel holds after its first share was taken. *)
LEMMA TailOfQueue ==
  ASSUME TypeOK, queue # <<>>, queue' = Tail(queue)
  PROVE  /\ 1 \in DOMAIN queue /\ Head(queue) = queue[1] /\ Head(queue) \in Share
         /\ \A i \in DOMAIN queue' :
              i \in Nat /\ i + 1 \in DOMAIN queue /\ queue'[i] = queue[i + 1] /\ i + 1 # 1
  BY DEF TypeOK, StorageTypeOK

(* putShareNow, cut before the round contribution or after: the new share   *)
(* is in the open round, or closes it over to its block.                    *)
LEMMA WriteShareRounds ==
  ASSUME TypeOK, TypeOK', BlockRecords, HeightsApart, RoundInv, queue # <<>>, NEW n \in Nat,
         NEW cut \in 0..4, WriteShare(Head(queue), n, cut),
         UNCHANGED <<chain, todo, update>>
  PROVE  RoundInv'
  <1> DEFINE s == Head(queue)
             sealed == cut >= 3 /\ Seals(s)
             current == [roundCurrent EXCEPT ![s.miner] = @ + s.diff]
             new == [hash |-> s.block, finder |-> s.miner, mark |-> n]
             e == [miner |-> s.miner, diff |-> s.diff, seq |-> n,
                   seal |-> IF sealed THEN s.block ELSE NoBlock, capped |-> ~ppsMode]
             last == Len(recorded) + 1
  <1>1. /\ queue' = Tail(queue) /\ UNCHANGED <<confirmed, orphaned, intent>>
        /\ pending' = IF cut >= 4 /\ Seals(s) THEN pending \cup {new} ELSE pending
    BY DEF WriteShare
  <1>2. cut < 2 => UNCHANGED <<recorded, roundCurrent, rounds, pending>>
    BY DEF WriteShare
  <1>3. cut >= 2 => /\ recorded' = Append(recorded, e)
                    /\ roundCurrent' = IF sealed THEN Zero ELSE current
                    /\ rounds' = IF sealed THEN [rounds EXCEPT ![HeightOf[s.block]] = current]
                                 ELSE rounds
    BY DEF WriteShare
  <1>4. /\ 1 \in DOMAIN queue /\ s = queue[1] /\ s \in Share
        /\ \A i \in DOMAIN queue' :
             i \in Nat /\ i + 1 \in DOMAIN queue /\ queue'[i] = queue[i + 1] /\ i + 1 # 1
    BY <1>1, TailOfQueue
  <1>5. /\ s.miner \in Miners /\ s.diff \in Nat /\ s.diff \in Diffs
        /\ s.block \in Blocks \cup {NoBlock}
        /\ (Seals(s) => s.block \in Blocks /\ s.block # NoBlock)
    <2>1. s.miner \in Miners /\ s.diff \in Diffs /\ s.block \in Blocks \cup {NoBlock}
      BY <1>4 DEF Share
    <2>2. QED
      BY <2>1, StorageAssumption DEF Seals
  <1>6. e \in Recorded
    BY <1>5 DEF Recorded
  <1>7. /\ recorded \in Seq(Recorded) /\ last \in Nat /\ last \notin DOMAIN recorded
        /\ \A i \in DOMAIN recorded : i \in Nat
    BY DEF TypeOK, StorageTypeOK
  <1>8. cut >= 2 => /\ DOMAIN recorded' = DOMAIN recorded \union {last}
                    /\ recorded'[last] = e
                    /\ \A i \in DOMAIN recorded : recorded'[i] = recorded[i]
    <2>1. /\ DOMAIN Append(recorded, e) = DOMAIN recorded \union {last}
          /\ Append(recorded, e)[last] = e
          /\ \A i \in DOMAIN recorded : Append(recorded, e)[i] = recorded[i]
      <3> HIDE DEF e
      <3>1. QED
        BY <1>6, <1>7
    <2> HIDE DEF e, last
    <2>2. QED
      BY <1>3, <2>1
  <1>9. Known' = IF cut >= 4 /\ Seals(s) THEN Known \union {new} ELSE Known
    BY <1>1 DEF Known
  <1>10. Seals(s) => /\ chain[s.block] # "none"
                     /\ s.block \notin Hashes(Known)
                     /\ \A k \in DOMAIN recorded : recorded[k].seal # s.block
    <2>1. Seals(s) => chain[s.block] # "none" /\ s.block \notin Hashes(Known)
      BY <1>4 DEF BlockRecords, Known
    <2>2. Seals(s) => \A k \in DOMAIN recorded : recorded[k].seal # s.block
      BY <1>4 DEF RoundInv, SealedOnce
    <2>3. QED
      BY <2>1, <2>2
  <1>11. \A i \in DOMAIN queue' : Seals(queue'[i]) /\ Seals(s) => queue'[i].block # s.block
    BY <1>4 DEF BlockRecords
  <1>12. /\ e.seal = (IF sealed THEN s.block ELSE NoBlock) /\ e.miner = s.miner /\ e.diff = s.diff
         /\ new.hash = s.block /\ new.finder = s.miner
    OBVIOUS
  <1> HIDE DEF s, e, new, last
  <1>13. SealedOnce'
    <2>1. CASE cut < 2
      <3>1. \A i \in DOMAIN queue' : Seals(queue'[i]) =>
              \A k \in DOMAIN recorded : recorded[k].seal # queue'[i].block
        BY <1>4 DEF RoundInv, SealedOnce
      <3>2. QED
        BY <1>2, <1>9, <2>1, <3>1 DEF RoundInv, SealedOnce, Seals
    <2>2. CASE cut >= 2
      <3>1. \A i, j \in DOMAIN recorded' :
              recorded'[i].seal # NoBlock /\ recorded'[i].seal = recorded'[j].seal => i = j
        BY <1>8, <1>10, <1>12, <2>2 DEF RoundInv, SealedOnce
      <3>2. \A i \in DOMAIN recorded' : recorded'[i].seal # NoBlock => chain'[recorded'[i].seal] # "none"
        BY <1>8, <1>10, <1>12, <2>2 DEF RoundInv, SealedOnce
      <3>3. \A i \in DOMAIN queue' : Seals(queue'[i]) =>
              \A k \in DOMAIN recorded' : recorded'[k].seal # queue'[i].block
        <4>1. ASSUME NEW i \in DOMAIN queue', Seals(queue'[i]), NEW k \in DOMAIN recorded',
                     recorded'[k].seal = queue'[i].block
              PROVE  FALSE
          <5>1. queue'[i] = queue[i + 1] /\ i + 1 \in DOMAIN queue
            BY <1>4
          <5>2. queue[i + 1] \in Share
            BY <5>1 DEF TypeOK, StorageTypeOK
          <5>3. queue'[i].block # NoBlock
            BY <4>1 DEF Seals
          <5>4. k \notin DOMAIN recorded
            BY <1>8, <2>2, <4>1, <5>1 DEF RoundInv, SealedOnce
          <5>5. k = last
            BY <1>8, <2>2, <5>4
          <5>6. QED
            BY <1>8, <1>11, <1>12, <2>2, <4>1, <5>3, <5>5
        <4>2. QED
          BY <4>1
      <3>4. \A pb \in Known' : \E k \in DOMAIN recorded' :
              recorded'[k].seal = pb.hash /\ recorded'[k].miner = pb.finder
        <4>1. ASSUME NEW pb \in Known PROVE \E k \in DOMAIN recorded' :
                recorded'[k].seal = pb.hash /\ recorded'[k].miner = pb.finder
          BY <1>8, <2>2 DEF RoundInv, SealedOnce
        <4>2. CASE cut >= 4 /\ Seals(s)
          <5>1. last \in DOMAIN recorded' /\ recorded'[last].seal = new.hash
                /\ recorded'[last].miner = new.finder
            BY <1>8, <1>12, <2>2, <4>2
          <5>2. QED
            BY <1>9, <4>1, <4>2, <5>1
        <4>3. CASE ~(cut >= 4 /\ Seals(s))
          BY <1>9, <4>1, <4>3
        <4>4. QED
          BY <4>2, <4>3
      <3>5. QED
        BY <3>1, <3>2, <3>3, <3>4 DEF SealedOnce, Seals
    <2>3. QED
      BY <2>1, <2>2
  <1> DEFINE both == [m \in Miners |-> WorkIn(Append(recorded, e), m, OpenIn(recorded) \union {last})]
  <1>14. current = both
    <2>1. \A m \in Miners : roundCurrent[m] = WorkIn(recorded, m, OpenIn(recorded))
      BY OpenWorkRecorded DEF RoundInv
    <2>2. \A m \in Miners : both[m] =
            IF s.miner = m THEN roundCurrent[m] + s.diff ELSE roundCurrent[m]
      BY <1>6, <1>7, <1>12, <2>1, OpenWork DEF last
    <2>3. roundCurrent \in [Miners -> Nat]
      BY DEF TypeOK, StorageTypeOK, Contribution
    <2>4. \A m \in Miners : current[m] = IF s.miner = m THEN roundCurrent[m] + s.diff ELSE roundCurrent[m]
      BY <1>5, <2>3
    <2>5. QED
      BY <2>2, <2>3, <2>4
  <1>15. roundCurrent' = [m \in Miners |-> WorkOf(m, OpenRound)]'
    <2>1. CASE cut < 2
      BY <1>2, <2>1, OpenWorkRecorded DEF RoundInv
    <2>2. CASE cut >= 2 /\ sealed
      <3>1. OpenIn(recorded') = {}
        BY <1>3, <1>5, <1>6, <1>7, <1>12, <2>2, OpenAppend
      <3>2. QED
        BY <1>3, <2>2, <3>1, NoWork, OpenWorkRecorded DEF Zero
    <2>3. CASE cut >= 2 /\ ~sealed
      <3>1. OpenIn(recorded') = OpenIn(recorded) \union {last}
        BY <1>3, <1>6, <1>7, <1>12, <2>3, OpenAppend DEF last
      <3>2. QED
        BY <1>3, <1>14, <2>3, <3>1, OpenWorkRecorded
    <2>4. QED
      BY <2>1, <2>2, <2>3
  <1>16. SealedRoundExact'
    <2> SUFFICES ASSUME NEW pb \in pending'
                 PROVE  rounds'[HeightOf[pb.hash]] = SharesIn(recorded', pb.hash)
      BY SharesRecorded DEF SealedRoundExact
    <2>1. CASE pb \in pending
      <3>1. rounds[HeightOf[pb.hash]] = SharesIn(recorded, pb.hash)
        BY <2>1, SharesRecorded DEF RoundInv, SealedRoundExact
      <3>2. PICK i \in DOMAIN recorded :
              recorded[i].seal = pb.hash /\ \A j \in DOMAIN recorded : recorded[j].seal = pb.hash => j = i
        BY <2>1, SealPlace DEF RoundInv, Known
      <3>3. pb.hash \in Blocks /\ HeightOf[pb.hash] \in Heights /\ pb.hash # NoBlock
        BY <2>1, StorageAssumption DEF TypeOK, StorageTypeOK, PendingBlock, Heights
      <3>4. Seals(s) => pb.hash # s.block /\ HeightOf[pb.hash] # HeightOf[s.block]
        <4>1. Seals(s) => pb.hash # s.block
          BY <1>10, <2>1 DEF Hashes, Known
        <4>2. QED
          BY <1>5, <3>3, <4>1 DEF HeightsApart
      <3>5. rounds'[HeightOf[pb.hash]] = rounds[HeightOf[pb.hash]]
        <4>1. CASE cut < 2
          BY <1>2, <4>1
        <4>2. CASE cut >= 2 /\ ~sealed
          BY <1>3, <4>2
        <4>3. CASE cut >= 2 /\ sealed
          BY <1>3, <3>3, <3>4, <4>3 DEF TypeOK, StorageTypeOK
        <4>4. QED
          BY <4>1, <4>2, <4>3
      <3>6. cut >= 2 => SharesIn(Append(recorded, e), pb.hash) = SharesIn(recorded, pb.hash)
        <4>1. e.seal # pb.hash
          BY <1>12, <3>3, <3>4
        <4>2. QED
          BY <1>6, <1>7, <3>2, <4>1, SharesKept
      <3>7. SharesIn(recorded', pb.hash) = SharesIn(recorded, pb.hash)
        <4>1. CASE cut < 2
          BY <1>2, <4>1
        <4>2. CASE cut >= 2
          BY <1>3, <3>6, <4>2
        <4>3. QED
          BY <4>1, <4>2
      <3>8. QED
        BY <3>1, <3>5, <3>7
    <2>2. CASE pb \notin pending
      <3>1. cut >= 4 /\ Seals(s) /\ pb = new /\ sealed
        BY <1>1, <2>2
      <3>2. pb.hash = s.block /\ HeightOf[s.block] \in Heights
        BY <1>5, <1>12, <3>1 DEF Heights
      <3>3. rounds'[HeightOf[pb.hash]] = current
        BY <1>3, <3>1, <3>2 DEF TypeOK, StorageTypeOK
      <3>4. /\ last \in DOMAIN recorded' /\ recorded'[last].seal = pb.hash
            /\ \A j \in DOMAIN recorded' : recorded'[j].seal = pb.hash => j = last
        BY <1>8, <1>10, <1>12, <3>1, <3>2
      <3>5. SharesIn(recorded', pb.hash) = [m \in Miners |-> WorkIn(recorded', m, RoundIn(recorded', last))]
        BY <3>4, SharesAt
      <3>6. RoundIn(recorded', last) = OpenIn(recorded) \union {last}
        <4>1. RoundIn(Append(recorded, e), last) = OpenIn(recorded) \union {last}
          BY <1>6, <1>7, OpenAppend DEF last
        <4>2. recorded' = Append(recorded, e)
          BY <1>3, <3>1
        <4>3. QED
          BY <4>1, <4>2
      <3>7. recorded' = Append(recorded, e)
        BY <1>3, <3>1
      <3>8. QED
        BY <1>14, <3>3, <3>5, <3>6, <3>7
    <2>3. QED
      BY <2>1, <2>2
  <1>17. todo' \subseteq Known' /\ JudgesKnown(update)' /\ JudgesKnown(intent.update)'
    <2>1. Known \subseteq Known'
      BY <1>9
    <2>2. QED
      BY <1>1, <2>1 DEF RoundInv, JudgesKnown
  <1>18. QED
    BY <1>13, <1>15, <1>16, <1>17 DEF RoundInv

(* What the payer's steps may do to the records and the rounds. *)
records == <<queue, recorded, roundCurrent, rounds, pending, confirmed, orphaned, chain>>

SameVerdicts(u, v) ==
  u.Confirmed = v.Confirmed /\ u.Orphaned = v.Orphaned /\ u.DeleteRounds = v.DeleteRounds

(* Why a block is orphaned: it is off the chain, the node has just erred    *)
(* about it, or nobody has shares.                                          *)
Condemned(pb) ==
  \/ Classified(pb.hash) = "off"
  \/ pb.hash \in erred'
  \/ PayMode # "pps" /\ attribute(pb, CoinToSat(Reward[pb.hash])) = {}

(* A step of the payer that leaves the records alone. *)
Deliberates ==
  /\ UNCHANGED records
  /\ todo' \subseteq todo \cup GetAllPendingBlocks
  /\ \/ SameVerdicts(update', update)
     \/ SameVerdicts(update', EmptyUpdate)
     \/ \E pb \in todo :
          pc = "classify" /\ (update' = Confirm(pb) \/ (update' = Orphan(pb) /\ Condemned(pb)))
  /\ intent'.update \in {intent.update, update, EmptyUpdate}

(* A step that applies an update: its own, or the intent's. *)
Applies ==
  /\ \E u \in {update, intent.update} : ApplyPayments(u)
  /\ UNCHANGED <<chain, todo, update>>

(* Storage left alone, and what is seen of it here. *)
LEMMA StorageStutterRecords ==
  ASSUME UNCHANGED storageVars
  PROVE  UNCHANGED <<queue, recorded, roundCurrent, rounds, pending, confirmed, orphaned, intent>>
  BY DEF storageVars, shareKeys, blockKeys

(* A write of the intent, or its removal. *)
LEMMA IntentRecords ==
  ASSUME NEW u, PutPayoutIntent(u) \/ SetPayoutIntentTxid \/ DelPayoutIntent
  PROVE  /\ UNCHANGED <<queue, recorded, roundCurrent, rounds, pending, confirmed, orphaned>>
         /\ intent'.update \in {intent.update, u, EmptyUpdate}
  BY DEF PutPayoutIntent, SetPayoutIntentTxid, DelPayoutIntent, IntentOnly, shareKeys, blockKeys,
         NoIntent

(* The payer deliberates or applies, and does nothing else to the records. *)
LEMMA PayerShape ==
  ASSUME TypeOK, PayerStep \/ PayerFailure
  PROVE  Deliberates \/ Applies
  <1>1. ASSUME UNCHANGED <<storageVars, chain, todo, update>> PROVE Deliberates
    BY <1>1, StorageStutterRecords DEF Deliberates, records, SameVerdicts
  <1>2. ASSUME PutPayoutIntent(update) \/ SetPayoutIntentTxid \/ DelPayoutIntent,
               UNCHANGED <<chain, todo, update>>
        PROVE  Deliberates
    BY <1>2, IntentRecords DEF Deliberates, records, SameVerdicts
  <1>3. ASSUME PaymentInit PROVE Deliberates
    BY <1>3 DEF PaymentInit, Deliberates, records, SameVerdicts, shareKeys, blockKeys, runVars, envVars
  <1>4. ASSUME Reconcile PROVE Deliberates \/ Applies
    BY <1>1, <1>4 DEF Reconcile, Applies, runVars, envVars
  <1>5. ASSUME ReadPending \/ ReadShares \/ ReadPPSPending PROVE Deliberates
    <2>1. UNCHANGED <<storageVars, chain>>
      BY <1>5 DEF ReadPending, ReadShares, ReadPPSPending, envVars
    <2>2. todo' \subseteq todo \cup GetAllPendingBlocks
      BY <1>5 DEF ReadPending, ReadShares, ReadPPSPending
    <2>3. SameVerdicts(update', update) \/ SameVerdicts(update', EmptyUpdate)
      <3>1. CASE update' = update \/ update' = EmptyUpdate
        BY <3>1 DEF SameVerdicts
      <3>2. CASE ReadShares
        BY <3>2 DEF ReadShares, SameVerdicts, EmptyUpdate
      <3>3. QED
        BY <1>5, <3>1, <3>2 DEF ReadPending, ReadPPSPending
    <2>4. QED
      BY <2>1, <2>2, <2>3, StorageStutterRecords DEF Deliberates, records
  <1>6. ASSUME NEW pb \in todo, ClassifyBlock(pb) PROVE Deliberates
    <2>1. UNCHANGED <<storageVars, chain>> /\ todo' \subseteq todo
      BY <1>6 DEF ClassifyBlock, envVars
    <2>2. /\ pc = "classify"
          /\ update' = update \/ update' = Confirm(pb) \/ (update' = Orphan(pb) /\ Condemned(pb))
      BY <1>6 DEF ClassifyBlock, Condemned
    <2>3. QED
      BY <2>1, <2>2, StorageStutterRecords DEF Deliberates, records, SameVerdicts
  <1>7. ASSUME NEW pb \in todo, ClassifyFails(pb) PROVE Deliberates
    BY <1>7, StorageStutterRecords DEF ClassifyFails, envVars, Deliberates, records, SameVerdicts
  <1>7b. ASSUME NEW pb \in todo, GetBlockErrs(pb) PROVE Deliberates
    <2>1. UNCHANGED <<storageVars, chain>> /\ todo' \subseteq todo
      BY <1>7b DEF GetBlockErrs
    <2>2. pc = "classify" /\ update' = Orphan(pb) /\ Condemned(pb)
      BY <1>7b DEF GetBlockErrs, Condemned
    <2>3. QED
      BY <2>1, <2>2, StorageStutterRecords DEF Deliberates, records
  <1>8. ASSUME NEW lost, Settle(lost) PROVE Deliberates
    <2>1. UNCHANGED <<storageVars, chain, todo>>
      BY <1>8 DEF Settle, envVars
    <2>2. SameVerdicts(update', update)
      BY <1>8 DEF Settle, SameVerdicts, TypeOK, PaymentUpdate
    <2>3. QED
      BY <2>1, <2>2, StorageStutterRecords DEF Deliberates, records
  <1>9. PayerStep => Deliberates \/ Applies
    <2>1. PutIntent \/ StampTxid => Deliberates
      BY <1>2 DEF PutIntent, StampTxid, settleFrame, runVars, envVars
    <2>2. Classification \/ SendMany => Deliberates
      BY <1>1 DEF Classification, SendMany, settleFrame, runVars, envVars
    <2>3. Apply => Applies
      BY DEF Apply, Applies, settleFrame, runVars, envVars
    <2>4. QED
      BY <1>3, <1>4, <1>5, <1>6, <1>8, <2>1, <2>2, <2>3 DEF PayerStep, Classify, SettleAnswered
  <1>10. PayerFailure => Deliberates \/ Applies
    <2>1. ReadFails \/ SendManyUnanswered => Deliberates
      BY <1>1 DEF ReadFails, SendManyUnanswered, settleFrame, runVars, envVars
    <2>2. SendManyInsufficient \/ SendManyRejected => Deliberates
      BY <1>1, <1>2
         DEF SendManyInsufficient, SendManyRejected, TryDelete, settleFrame, runVars, envVars
    <2>3. WriteFails => Deliberates \/ Applies
      BY <1>1, <1>2 DEF WriteFails, Applies, settleFrame, runVars, envVars
    <2>4. QED
      BY <1>7, <1>8, <1>7b, <2>1, <2>2, <2>3 DEF PayerFailure, SettleUnanswered
  <1>11. QED
    BY <1>9, <1>10

(* With plain names the pending blocks are read as they were written. *)
LEMMA PendingRead ==
  ASSUME TypeOK, NamesArePlain
  PROVE  GetAllPendingBlocks = pending
  BY DEF GetAllPendingBlocks, NewPendingBlockFromString, NamesArePlain, TypeOK, StorageTypeOK,
         PendingBlock

(* Deliberation keeps the rounds: it names known blocks only. *)
LEMMA DeliberateRounds ==
  ASSUME TypeOK, NamesArePlain, RoundInv, Deliberates
  PROVE  RoundInv'
  <1>1. UNCHANGED <<queue, recorded, roundCurrent, rounds, pending, confirmed, orphaned, chain>>
    BY DEF Deliberates, records
  <1>2. Known' = Known
    BY <1>1 DEF Known
  <1>3. SealedOnce'
    BY <1>1, <1>2 DEF RoundInv, SealedOnce, Seals
  <1>4. roundCurrent' = [m \in Miners |-> WorkOf(m, OpenRound)]'
    BY <1>1, OpenWorkRecorded DEF RoundInv
  <1>5. SealedRoundExact'
    BY <1>1, SharesRecorded DEF RoundInv, SealedRoundExact
  <1>6. todo' \subseteq Known'
    BY <1>2, PendingRead DEF RoundInv, Deliberates, Known
  <1>7. JudgesKnown(EmptyUpdate)
    BY DEF JudgesKnown, EmptyUpdate
  <1>8. JudgesKnown(update')
    <2>1. CASE SameVerdicts(update', update)
      BY <2>1 DEF RoundInv, JudgesKnown, SameVerdicts
    <2>2. CASE SameVerdicts(update', EmptyUpdate)
      BY <1>7, <2>2 DEF JudgesKnown, SameVerdicts
    <2>3. CASE \E pb \in todo : update' = Confirm(pb) \/ update' = Orphan(pb)
      <3>1. PICK pb \in todo : update' = Confirm(pb) \/ update' = Orphan(pb)
        BY <2>3
      <3>2. /\ update'.Confirmed \cup update'.Orphaned = update.Confirmed \cup update.Orphaned \cup {pb}
            /\ update'.DeleteRounds = update.DeleteRounds \cup {HeightOf[pb.hash]}
        <4>1. update \in PaymentUpdate
          BY DEF TypeOK
        <4>2. CASE update' = Orphan(pb)
          BY <4>1, <4>2 DEF Orphan, PaymentUpdate
        <4>3. CASE update' = Confirm(pb)
          BY <4>1, <4>3 DEF Confirm, PaymentUpdate
        <4>4. QED
          BY <3>1, <4>2, <4>3
      <3>3. pb \in Known
        BY DEF RoundInv
      <3>4. update'.Confirmed \cup update'.Orphaned \subseteq Known
        BY <3>2, <3>3 DEF RoundInv, JudgesKnown
      <3>5. update.DeleteRounds \subseteq {HeightOf[q.hash] : q \in update.Confirmed \cup update.Orphaned}
        BY DEF RoundInv, JudgesKnown
      <3>6. QED
        BY <3>2, <3>4, <3>5 DEF JudgesKnown
    <2>4. QED
      BY <2>1, <2>2, <2>3 DEF Deliberates
  <1>9. JudgesKnown(intent'.update)
    BY <1>7 DEF RoundInv, Deliberates
  <1>10. JudgesKnown(update)' /\ JudgesKnown(intent.update)'
    BY <1>2, <1>8, <1>9 DEF JudgesKnown
  <1>11. QED
    BY <1>3, <1>4, <1>5, <1>6, <1>10 DEF RoundInv

(* ApplyPayments drops the rounds of the blocks it judges and no other: a   *)
(* block that stays pending keeps its round.                                *)
LEMMA ApplyRounds ==
  ASSUME TypeOK, BlockRecords, HeightsApart, RoundInv, Applies
  PROVE  RoundInv'
  <1>1. PICK u \in {update, intent.update} : ApplyPayments(u)
    BY DEF Applies
  <1>2. /\ confirmed' = confirmed \cup (u.Confirmed \cap pending)
        /\ orphaned' = orphaned \cup (u.Orphaned \cap pending)
        /\ pending' = pending \ (u.Confirmed \cup u.Orphaned)
        /\ rounds' = [h \in Heights |-> IF h \in u.DeleteRounds THEN Zero ELSE rounds[h]]
        /\ intent' = NoIntent
        /\ UNCHANGED <<queue, recorded, roundCurrent, chain, todo, update>>
    BY <1>1 DEF ApplyPayments, Applies
  <1>3. Known' = Known
    BY <1>2 DEF Known
  <1>4. JudgesKnown(u)
    BY DEF RoundInv
  <1>5. SealedOnce'
    BY <1>2, <1>3 DEF RoundInv, SealedOnce, Seals
  <1>6. roundCurrent' = [m \in Miners |-> WorkOf(m, OpenRound)]'
    BY <1>2, OpenWorkRecorded DEF RoundInv
  <1>7. ASSUME NEW pb \in pending' PROVE rounds'[HeightOf[pb.hash]] = RoundShares(pb.hash)'
    <2>1. pb \in pending /\ pb \in Known /\ pb \notin u.Confirmed \cup u.Orphaned
      BY <1>2, <1>7 DEF Known
    <2>2. HeightOf[pb.hash] \in Heights
      BY <2>1 DEF TypeOK, StorageTypeOK, PendingBlock, Heights
    <2>3. HeightOf[pb.hash] \notin u.DeleteRounds
      <3>1. SUFFICES ASSUME NEW q \in u.Confirmed \cup u.Orphaned, HeightOf[q.hash] = HeightOf[pb.hash]
                     PROVE  FALSE
        BY <1>4 DEF JudgesKnown
      <3>2. q \in Known
        BY <1>4 DEF JudgesKnown
      <3>3. QED
        BY <2>1, <3>1, <3>2, HeightTells
    <2>4. rounds'[HeightOf[pb.hash]] = rounds[HeightOf[pb.hash]]
      BY <1>2, <2>2, <2>3
    <2>5. QED
      BY <1>2, <2>1, <2>4, SharesRecorded DEF RoundInv, SealedRoundExact
  <1>8. JudgesKnown(update)' /\ JudgesKnown(intent.update)' /\ todo' \subseteq Known'
    BY <1>2, <1>3 DEF RoundInv, JudgesKnown, NoIntent, EmptyUpdate
  <1>9. QED
    BY <1>5, <1>6, <1>7, <1>8 DEF RoundInv, SealedRoundExact

(* A step that records nothing: the channel gets no block that sealed a     *)
(* round, and no block is unmined.                                          *)
LEMMA OutsideRounds ==
  ASSUME TypeOK, RoundInv,
         UNCHANGED <<recorded, roundCurrent, rounds, pending, confirmed, orphaned, intent>>,
         \A b \in Blocks : chain[b] # "none" => chain'[b] # "none",
         \A i \in DOMAIN queue' : Seals(queue'[i]) =>
           \A k \in DOMAIN recorded : recorded[k].seal # queue'[i].block,
         \/ UNCHANGED <<todo, update>>
         \/ todo' = {} /\ update' = EmptyUpdate
  PROVE  RoundInv'
  <1>1. Known' = Known
    BY DEF Known
  <1>2. \A i \in DOMAIN recorded : recorded[i].seal # NoBlock => recorded[i].seal \in Blocks
    <2>1. \A i \in DOMAIN recorded : recorded[i] \in Recorded
      BY DEF TypeOK, StorageTypeOK
    <2>2. QED
      BY <2>1 DEF Recorded
  <1>3. SealedOnce'
    BY <1>1, <1>2 DEF RoundInv, SealedOnce, Seals
  <1>4. roundCurrent' = [m \in Miners |-> WorkOf(m, OpenRound)]'
    BY OpenWorkRecorded DEF RoundInv
  <1>5. SealedRoundExact'
    BY SharesRecorded DEF RoundInv, SealedRoundExact
  <1>6. JudgesKnown(update)' /\ JudgesKnown(intent.update)' /\ todo' \subseteq Known'
    BY <1>1 DEF RoundInv, JudgesKnown, EmptyUpdate
  <1>7. QED
    BY <1>3, <1>4, <1>5, <1>6 DEF RoundInv

(* A miner's block is new to the history too. *)
LEMMA ProcessShareRounds ==
  ASSUME TypeOK, RoundInv, NEW share \in Shares, ProcessShare(share)
  PROVE  RoundInv'
  <1>1. /\ queue' = Append(queue, share)
        /\ UNCHANGED <<recorded, roundCurrent, rounds, pending, confirmed, orphaned, intent, todo, update>>
    BY DEF ProcessShare, PutShare, shareKeys, blockKeys, runVars
  <1>2. share \in Share /\ (Seals(share) => share.block \in Blocks)
    BY PaymentsAssumption DEF Share, Seals
  <1>3. /\ \A b \in Blocks : chain[b] # "none" => chain'[b] # "none"
        /\ Seals(share) => chain[share.block] = "none"
    BY <1>2 DEF ProcessShare, Seals, TypeOK
  <1>4. ASSUME NEW i \in DOMAIN queue', Seals(queue'[i]), NEW k \in DOMAIN recorded
        PROVE  recorded[k].seal # queue'[i].block
    <2>1. \/ i \in DOMAIN queue /\ queue'[i] = queue[i]
          \/ queue'[i] = share
      BY <1>1, <1>2 DEF TypeOK, StorageTypeOK
    <2>2. CASE i \in DOMAIN queue /\ queue'[i] = queue[i]
      BY <1>4, <2>2 DEF RoundInv, SealedOnce
    <2>3. CASE queue'[i] = share
      <3>1. share.block # NoBlock /\ chain[share.block] = "none"
        BY <1>2, <1>3, <1>4, <2>3, StorageAssumption
      <3>2. QED
        BY <2>3, <3>1 DEF RoundInv, SealedOnce
    <2>4. QED
      BY <2>1, <2>2, <2>3
  <1>5. QED
    BY <1>1, <1>3, <1>4, OutsideRounds

(* RoundInv is inductive, given the types and the block records. *)
LEMMA NextRounds ==
  ASSUME TypeOK, TypeOK', BlockRecords, NamesArePlain, HeightsApart, RoundInv, [Next]_vars
  PROVE  RoundInv'
  <1>1. CASE PayerStep \/ PayerFailure
    BY <1>1, PayerShape, DeliberateRounds, ApplyRounds
  <1>2. CASE Environment
    <2>1. CASE \E share \in Shares : ProcessShare(share)
      BY <2>1, ProcessShareRounds
    <2>2. ASSUME NEW b \in Blocks, NEW status \in {"young", "mature", "off"}, ChainStep(b, status)
          PROVE  RoundInv'
      <3>1. /\ UNCHANGED <<queue, recorded, roundCurrent, rounds, pending, confirmed, orphaned, intent>>
            /\ UNCHANGED <<todo, update>>
        BY <2>2, StorageStutterRecords DEF ChainStep, runVars
      <3>2. \A c \in Blocks : chain[c] # "none" => chain'[c] # "none"
        BY <2>2 DEF ChainStep, TypeOK
      <3>3. \A i \in DOMAIN queue' : Seals(queue'[i]) =>
              \A k \in DOMAIN recorded : recorded[k].seal # queue'[i].block
        BY <3>1 DEF RoundInv, SealedOnce
      <3>4. QED
        BY <3>1, <3>2, <3>3, OutsideRounds
    <2>3. ASSUME (\E b \in Blocks : WalletSync(b)) \/ OperatorClears
          PROVE  Deliberates
      <3>1. \A b \in Blocks : WalletSync(b) => UNCHANGED <<storageVars, chain, todo, update>>
        BY DEF WalletSync, runVars
      <3>2. UNCHANGED <<storageVars, chain, todo, update>> => Deliberates
        BY StorageStutterRecords DEF Deliberates, records, SameVerdicts
      <3>3. OperatorClears => Deliberates
        BY IntentRecords
           DEF OperatorClears, settleFrame, runVars, envVars, Deliberates, records, SameVerdicts
      <3>4. QED
        BY <2>3, <3>1, <3>2, <3>3
    <2>4. QED
      BY <1>2, <2>1, <2>2, <2>3, DeliberateRounds DEF Environment
  <1>3. CASE ShareWriter \/ ShareWriterFails
    <2>1. UNCHANGED <<chain, todo, update>>
      BY <1>3 DEF ShareWriter, ShareWriterFails, payerAndEnv, runVars, envVars
    <2>2. CASE \E n \in Nat, cut \in 0..4 : queue # <<>> /\ WriteShare(Head(queue), n, cut)
      BY <2>1, <2>2, WriteShareRounds
    <2>3. CASE putShareNow /\ ~Head(queue).valid
      <3>1. /\ queue # <<>> /\ queue' = Tail(queue)
            /\ UNCHANGED <<recorded, roundCurrent, rounds, pending, confirmed, orphaned, intent>>
        BY <2>3 DEF putShareNow, shareKeys, blockKeys
      <3>2. \A i \in DOMAIN queue' : i + 1 \in DOMAIN queue /\ queue'[i] = queue[i + 1]
        BY <3>1, TailOfQueue
      <3>3. \A i \in DOMAIN queue' : Seals(queue'[i]) =>
              \A k \in DOMAIN recorded : recorded[k].seal # queue'[i].block
        BY <3>2 DEF RoundInv, SealedOnce
      <3>4. QED
        BY <2>1, <3>1, <3>3, OutsideRounds
    <2>4. CASE putShareNow /\ Head(queue).valid
      <3>1. queue # <<>> /\ WriteShare(Head(queue), seq + 1, 4)
        BY <2>4 DEF putShareNow
      <3>2. seq + 1 \in Nat /\ 4 \in 0..4
        BY DEF TypeOK, StorageTypeOK
      <3>3. QED
        BY <2>2, <3>1, <3>2
    <2>5. CASE putShareNowFails
      <3>1. PICK incr \in BOOLEAN, cut \in 0..4 :
              WriteShare(Head(queue), IF incr THEN seq + 1 ELSE 0, cut)
        BY <2>5 DEF putShareNowFails
      <3>2. (IF incr THEN seq + 1 ELSE 0) \in Nat
        BY DEF TypeOK, StorageTypeOK
      <3>3. queue # <<>>
        BY <2>5 DEF putShareNowFails
      <3>4. QED
        BY <2>2, <3>1, <3>2, <3>3
    <2>6. QED
      BY <1>3, <2>3, <2>4, <2>5 DEF ShareWriter, ShareWriterFails
  <1>4. CASE Crash
    <2>1. /\ queue' = <<>> /\ todo' = {} /\ update' = EmptyUpdate
          /\ UNCHANGED <<recorded, roundCurrent, rounds, pending, confirmed, orphaned, intent, chain>>
      BY <1>4 DEF Crash, StorageRestart, shareKeys, blockKeys, envVars
    <2>2. DOMAIN queue' = {}
      BY <2>1
    <2>3. QED
      BY <2>1, <2>2, OutsideRounds
  <1>5. CASE UNCHANGED vars
    <2>1. UNCHANGED <<storageVars, chain, todo, update>>
      BY <1>5 DEF vars, runVars, envVars
    <2>2. Deliberates
      BY <2>1, StorageStutterRecords DEF Deliberates, records, SameVerdicts
    <2>3. QED
      BY <2>2, DeliberateRounds
  <1>6. QED
    BY <1>1, <1>2, <1>3, <1>4, <1>5 DEF Next

(* At the start there is no share and no round. *)
LEMMA InitRounds == Init => RoundInv
  <1> SUFFICES ASSUME Init PROVE RoundInv
    OBVIOUS
  <1>1. /\ recorded = <<>> /\ queue = <<>> /\ roundCurrent = Zero /\ todo = {}
        /\ pending = {} /\ confirmed = {} /\ orphaned = {}
        /\ update = EmptyUpdate /\ intent = NoIntent
    BY DEF Init, StorageInit
  <1>2. DOMAIN recorded = {} /\ DOMAIN queue = {} /\ Known = {}
    BY <1>1 DEF Known
  <1>3. SealedOnce
    BY <1>2 DEF SealedOnce
  <1>4. OpenIn(recorded) = {}
    BY <1>2 DEF OpenIn
  <1>5. roundCurrent = [m \in Miners |-> WorkOf(m, OpenRound)]
    <2>1. \A m : WorkIn(recorded, m, {}) = 0
      BY NoWork
    <2>2. Zero = [m \in Miners |-> WorkIn(recorded, m, OpenIn(recorded))]
      BY <1>4, <2>1 DEF Zero
    <2>3. QED
      BY <1>1, <2>2, OpenWorkRecorded
  <1>6. SealedRoundExact /\ todo \subseteq Known
    BY <1>1 DEF SealedRoundExact
  <1>7. JudgesKnown(update) /\ JudgesKnown(intent.update)
    BY <1>1 DEF JudgesKnown, NoIntent, EmptyUpdate
  <1>8. QED
    BY <1>3, <1>5, <1>6, <1>7 DEF RoundInv

(* The rounds are what the history says, in every reachable state. *)
LEMMA RoundInvariant ==
  ASSUME NamesArePlain, HeightsApart
  PROVE  Spec => []RoundInv
  <1>1. TypeOK /\ TypeOK' /\ BlockRecords /\ RoundInv /\ [Next]_vars => RoundInv'
    BY NextRounds
  <1>2. QED
    BY <1>1, InitRounds, TypeCorrect, RecordsConsistent, PTL DEF Spec

(* putShareNow and ApplyPayments: whatever fails and however shares, seals  *)
(* and payout runs interleave, the sealed round of a pending block holds    *)
(* exactly the shares recorded up to its own since the seal before.         *)
THEOREM SealedRoundsExact ==
  ASSUME NamesArePlain, HeightsApart
  PROVE  Spec => []SealedRoundExact
  <1>1. RoundInv => SealedRoundExact
    BY DEF RoundInv
  <1>2. QED
    BY <1>1, RoundInvariant, PTL

-----------------------------------------------------------------------------
(* Orphans.                                                                *)

(* The round of a block on record has the work of its finder at least, so   *)
(* there is something to attribute.                                         *)
LEMMA RoundPositive ==
  ASSUME TypeOK, SealedOnce, NEW pb \in Known
  PROVE  /\ RoundShares(pb.hash) \in [Miners -> Nat]
         /\ SumFunction(RoundShares(pb.hash)) \in Nat
         /\ SumFunction(RoundShares(pb.hash)) > 0
  <1> DEFINE f == RoundShares(pb.hash)
  <1>1. PICK i \in DOMAIN recorded :
          /\ recorded[i].seal = pb.hash /\ recorded[i].miner = pb.finder
          /\ \A j \in DOMAIN recorded : recorded[j].seal = pb.hash => j = i
    BY SealPlace
  <1> DEFINE K == RoundIn(recorded, i)
  <1>2. f = [m \in Miners |-> WorkIn(recorded, m, K)]
    BY <1>1, SharesAt, SharesRecorded
  <1>3. recorded \in Seq(Recorded) /\ pb.finder \in Miners
    BY DEF TypeOK, StorageTypeOK, Known, PendingBlock
  <1>4. /\ IsFiniteSet(K) /\ i \in K
        /\ \A k \in K : recorded[k].diff \in Nat /\ recorded[k].diff > 0
    BY <1>3, RoundFinite
  <1> HIDE DEF K, f
  <1>5. \A m : WorkIn(recorded, m, K) \in Nat
    BY <1>4, WorkNat
  <1>6. WorkIn(recorded, pb.finder, K) >= recorded[i].diff
    BY <1>1, <1>4, WorkNat
  <1>7. f \in [Miners -> Nat]
    BY <1>2, <1>5
  <1>8. f[pb.finder] > 0
    <2>1. f[pb.finder] = WorkIn(recorded, pb.finder, K)
      BY <1>2, <1>3
    <2>2. recorded[i].diff \in Nat /\ recorded[i].diff > 0 /\ WorkIn(recorded, pb.finder, K) \in Nat
      BY <1>4, <1>5
    <2>3. QED
      BY <1>6, <2>1, <2>2
  <1>9. /\ SumFunction(f) = SumFunctionOnSet(f, Miners) /\ SumFunction(f) \in Nat
    BY <1>7, TotalType
  <1>10. SumFunctionOnSet(f, Miners) >= f[pb.finder]
    BY <1>3, <1>7, SumAtLeast, StorageAssumption
  <1>11. SumFunction(f) > 0
    <2>1. f[pb.finder] \in Nat
      BY <1>3, <1>7
    <2>2. QED
      BY <1>8, <1>9, <1>10, <2>1
  <1>12. QED
    BY <1>7, <1>9, <1>11 DEF f

(* The pay modes that reward the round of a block, or its finder. *)
ByRound == PayMode = "pplns" => PPLNSWindow = 0

(* In those modes the reward of a pending block can be attributed. *)
LEMMA Attributable ==
  ASSUME TypeOK, RoundInv, ByRound, NEW pb \in pending, NEW r
  PROVE  attribute(pb, r) # {}
  <1>1. pb \in Known
    BY DEF Known
  <1>2. CASE PayMode = "solo"
    BY <1>2 DEF attribute
  <1>3. CASE PayMode # "solo"
    <2>1. GetRoundContrib(HeightOf[pb.hash]) = RoundShares(pb.hash)
      BY DEF RoundInv, SealedRoundExact, GetRoundContrib
    <2>2. attribute(pb, r) = splitByShares(r, RoundShares(pb.hash))
      BY <1>3, <2>1 DEF attribute, ByRound
    <2>3. SumFunction(RoundShares(pb.hash)) # 0
      BY <1>1, RoundPositive DEF RoundInv
    <2>4. QED
      BY <2>2, <2>3 DEF splitByShares
  <1>4. QED
    BY <1>2, <1>3

(* The payer's steps leave the surroundings alone; what it classifies, it   *)
(* has read from the pending set in this run.                               *)
LEMMA PayerFrame ==
  ASSUME PayerStep \/ PayerFailure
  PROVE  /\ UNCHANGED <<chain, everOff>> /\ erred \subseteq erred'
         /\ pc' = "classify" =>
              /\ UNCHANGED storageVars
              /\ (pc = "classify" /\ todo' \subseteq todo) \/ todo' = GetAllPendingBlocks
  <1>1. PayerStep => UNCHANGED <<chain, everOff, erred>>
    BY DEF PayerStep, PaymentInit, Reconcile, ReadPending, ReadShares, ReadPPSPending, Classify,
           ClassifyBlock, Classification, SettleAnswered, Settle, PutIntent, SendMany, StampTxid,
           Apply, settleFrame, envVars
  <1>2. PayerFailure => UNCHANGED <<chain, everOff>> /\ erred \subseteq erred'
    BY DEF PayerFailure, ClassifyFails, GetBlockErrs, ReadFails, SettleUnanswered, Settle, SendManyUnanswered,
           SendManyInsufficient, SendManyRejected, WriteFails, settleFrame, envVars
  <1>3. PayerStep /\ pc' = "classify" =>
          /\ UNCHANGED storageVars
          /\ (pc = "classify" /\ todo' \subseteq todo) \/ todo' = GetAllPendingBlocks
    BY DEF PayerStep, PaymentInit, Reconcile, ReadPending, ReadShares, ReadPPSPending, Classify,
           ClassifyBlock, Classification, SettleAnswered, Settle, PutIntent, SendMany, StampTxid,
           Apply
  <1>4. PayerFailure /\ pc' = "classify" =>
          UNCHANGED storageVars /\ pc = "classify" /\ todo' \subseteq todo
    BY DEF PayerFailure, ClassifyFails, GetBlockErrs, ReadFails, SettleUnanswered, Settle, SendManyUnanswered,
           SendManyInsufficient, SendManyRejected, WriteFails
  <1>5. QED
    BY <1>1, <1>2, <1>3, <1>4

(* The payer condemns only what is, or has been, off the chain, and what    *)
(* the node has erred about.                                                *)
LEMMA PayerOffChain ==
  ASSUME TypeOK, RoundInv, NamesArePlain, SharedDaemon, ByRound, OffChainInv,
         PayerStep \/ PayerFailure
  PROVE  OffChainInv'
  <1>1. UNCHANGED <<chain, everOff>> /\ erred \subseteq erred'
    BY PayerFrame
  <1>2. pc' = "classify" => todo' \subseteq pending'
    <2>1. CASE pc' = "classify"
      <3>1. pending' = pending
        BY <2>1, PayerFrame, StorageStutterRecords
      <3>2. QED
        BY <2>1, <3>1, PayerFrame, PendingRead DEF OffChainInv
    <2>2. QED
      BY <2>1
  <1>3. CASE Deliberates
    <2>1. orphaned' = orphaned
      BY <1>3 DEF Deliberates, records
    <2>2. Hashes(update'.Orphaned) \subseteq everOff \cup erred'
      <3>1. CASE SameVerdicts(update', update) \/ SameVerdicts(update', EmptyUpdate)
        BY <1>1, <3>1 DEF SameVerdicts, EmptyUpdate, OffChainInv, Hashes
      <3>2. ASSUME NEW pb \in todo, pc = "classify", update' = Confirm(pb)
            PROVE  Hashes(update'.Orphaned) \subseteq everOff \cup erred'
        BY <1>1, <3>2 DEF Confirm, TypeOK, PaymentUpdate, OffChainInv, Hashes
      <3>3. ASSUME NEW pb \in todo, pc = "classify", update' = Orphan(pb), Condemned(pb)
            PROVE  Hashes(update'.Orphaned) \subseteq everOff \cup erred'
        <4>1. pb \in pending
          BY <3>3 DEF OffChainInv
        <4>2. Classified(pb.hash) = "off" \/ pb.hash \in erred'
          BY <3>3, <4>1, Attributable DEF Condemned
        <4>3. (chain[pb.hash] = "off" \/ pb.hash \in erred') /\ pb.hash \in Blocks
          BY <4>1, <4>2 DEF Classified, TypeOK, StorageTypeOK, PendingBlock
        <4>4. update'.Orphaned = update.Orphaned \cup {pb}
          BY <3>3 DEF Orphan, TypeOK, PaymentUpdate
        <4>5. QED
          BY <1>1, <4>3, <4>4 DEF OffChainInv, Hashes
      <3>4. QED
        BY <1>3, <3>1, <3>2, <3>3 DEF Deliberates
    <2>3. Hashes(intent'.update.Orphaned) \subseteq everOff \cup erred'
      BY <1>1, <1>3 DEF Deliberates, EmptyUpdate, OffChainInv, Hashes
    <2>4. QED
      BY <1>1, <1>2, <2>1, <2>2, <2>3 DEF OffChainInv, Hashes
  <1>4. CASE Applies
    <2>1. PICK u \in {update, intent.update} : ApplyPayments(u)
      BY <1>4 DEF Applies
    <2>2. /\ orphaned' \subseteq orphaned \cup u.Orphaned
          /\ update' = update /\ intent'.update.Orphaned = {}
      BY <1>4, <2>1 DEF ApplyPayments, Applies, NoIntent, EmptyUpdate
    <2>3. QED
      BY <1>1, <1>2, <2>2 DEF OffChainInv, Hashes
  <1>5. QED
    BY <1>3, <1>4, PayerShape

(* OffChainInv is inductive, given the types and the rounds. *)
LEMMA NextOffChain ==
  ASSUME TypeOK, RoundInv, NamesArePlain, SharedDaemon, ByRound, OffChainInv, [Next]_vars
  PROVE  OffChainInv'
  <1> DEFINE Quiet ==
        /\ UNCHANGED <<orphaned, intent, update>>
        /\ pending \subseteq pending'
        /\ pc' = "classify" => pc = "classify" /\ todo' = todo
  <1>1. CASE PayerStep \/ PayerFailure
    BY <1>1, PayerOffChain
  <1>2. ASSUME Quiet, UNCHANGED <<chain, everOff, erred>>
        PROVE  OffChainInv'
    BY <1>2 DEF OffChainInv, Hashes
  <1>3. ASSUME NEW share \in Shares, ProcessShare(share)
        PROVE  OffChainInv'
    <2>1. Quiet
      BY <1>3 DEF ProcessShare, blockKeys, runVars
    <2>2. /\ everOff \subseteq everOff' /\ erred' = erred
          /\ \A b \in Blocks : chain'[b] = "off" => b \in everOff'
      <3>1. share \in Share
        BY PaymentsAssumption
      <3>2. share.block # NoBlock => share.block \in Blocks
        BY <3>1 DEF Share
      <3>3. QED
        BY <1>3, <3>2 DEF ProcessShare, OffChainInv, TypeOK
    <2>3. QED
      BY <2>1, <2>2 DEF OffChainInv, Hashes
  <1>4. ASSUME NEW b \in Blocks, NEW status \in {"young", "mature", "off"}, ChainStep(b, status)
        PROVE  OffChainInv'
    <2>1. Quiet
      BY <1>4, StorageStutterRecords DEF ChainStep, runVars
    <2>2. /\ everOff \subseteq everOff' /\ erred' = erred
          /\ \A c \in Blocks : chain'[c] = "off" => c \in everOff'
      BY <1>4 DEF ChainStep, OffChainInv, TypeOK
    <2>3. QED
      BY <2>1, <2>2 DEF OffChainInv, Hashes
  <1>5. ASSUME NEW b \in Blocks, WalletSync(b)
        PROVE  OffChainInv'
    BY <1>2, <1>5, StorageStutterRecords DEF WalletSync, runVars
  <1>6. ASSUME OperatorClears
        PROVE  OffChainInv'
    <2>1. /\ UNCHANGED <<orphaned, pending, update, chain, everOff, erred>> /\ pc' # "classify"
          /\ intent'.update \in {intent.update, EmptyUpdate}
      BY <1>6, IntentRecords DEF OperatorClears, settleFrame, runVars, envVars
    <2>2. QED
      BY <2>1 DEF OffChainInv, Hashes, EmptyUpdate
  <1>7. CASE ShareWriter \/ ShareWriterFails
    <2>1. UNCHANGED <<chain, everOff, erred, update, pc, todo>>
      BY <1>7 DEF ShareWriter, ShareWriterFails, payerAndEnv, runVars, envVars
    <2>2. UNCHANGED <<orphaned, intent>> /\ pending \subseteq pending'
      BY <1>7 DEF ShareWriter, ShareWriterFails, putShareNow, putShareNowFails, WriteShare, blockKeys
    <2>3. QED
      BY <1>2, <2>1, <2>2
  <1>8. CASE Crash
    <2>1. /\ UNCHANGED <<orphaned, intent, chain, everOff, erred>> /\ pc' # "classify"
          /\ update' = EmptyUpdate
      BY <1>8 DEF Crash, StorageRestart, blockKeys, envVars
    <2>2. QED
      BY <2>1 DEF OffChainInv, Hashes, EmptyUpdate
  <1>9. CASE UNCHANGED vars
    BY <1>2, <1>9, StorageStutterRecords DEF vars, runVars, envVars
  <1>10. QED
    BY <1>1, <1>3, <1>4, <1>5, <1>6, <1>7, <1>8, <1>9 DEF Next, Environment

(* classifyBlock, classifyMissingTx and attribute, with the payment daemon  *)
(* being the one the blocks are submitted to, in every pay mode but a pplns *)
(* window: a block is orphaned only if it was off the main chain at some    *)
(* time or the node answered getblock for it with an error.                 *)
THEOREM OrphansHaveCause ==
  ASSUME NamesArePlain, HeightsApart, SharedDaemon, ByRound
  PROVE  Spec => []OrphanHasCause
  <1>1. Init => OffChainInv
    BY DEF Init, StorageInit, OffChainInv, Hashes, EmptyUpdate, NoIntent
  <1>2. TypeOK /\ RoundInv /\ OffChainInv /\ [Next]_vars => OffChainInv'
    BY NextOffChain
  <1>3. OffChainInv => OrphanHasCause
    BY DEF OffChainInv, OrphanHasCause, Hashes
  <1>4. QED
    BY <1>1, <1>2, <1>3, TypeCorrect, RoundInvariant, PTL DEF Spec

-----------------------------------------------------------------------------
(* Credits, as functions of the history r.                                 *)

DeservedIn(r, pb) ==
  IF PayMode = "solo" THEN [m \in Miners |-> IF m = pb.finder THEN 1 ELSE 0]
  ELSE SharesIn(r, pb.hash)

EarnedIn(r, pb, m) ==
  (CoinToSat(Reward[pb.hash]) * DeservedIn(r, pb)[m]) \div SumFunction(DeservedIn(r, pb))

CreditsIn(r, m, S) == SumFunction([pb \in S |-> EarnedIn(r, pb, m)])

(* They are the credits of the accounts. *)
LEMMA CreditsRecorded ==
  ASSUME ByRound
  PROVE  \A m, S : Credits(m, S) = CreditsIn(recorded, m, S)
  <1>1. \A pb : Deserved(pb) = DeservedIn(recorded, pb)
    BY SharesRecorded DEF Deserved, DeservedIn, ByRound
  <1>2. \A pb, m : Earned(pb, m) = EarnedIn(recorded, pb, m)
    BY <1>1 DEF Earned, EarnedIn
  <1>3. QED
    BY <1>2 DEF Credits, CreditsIn

(* A solo block is its finder's. *)
LEMMA SoloWhole ==
  ASSUME NEW n \in Miners
  PROVE  SumFunction([m \in Miners |-> IF m = n THEN 1 ELSE 0]) = 1
  <1> DEFINE f == [m \in Miners |-> IF m = n THEN 1 ELSE 0]
  <1>1. SumFunction(f) = SumFunctionOnSet(f, Miners)
    BY DEF SumFunction
  <1>2. /\ \A m \in Miners : f[m] \in Nat
        /\ \A m \in Miners \ {n} : f[m] = 0
        /\ f[n] = 1
    OBVIOUS
  <1>3. IsFiniteSet(Miners) /\ IsFiniteSet(Miners \ {n})
    BY StorageAssumption, FS_RemoveElement
  <1> HIDE DEF f
  <1>4. SumFunctionOnSet(f, Miners) = f[n] + SumFunctionOnSet(f, Miners \ {n})
    BY <1>2, <1>3, SumRemove
  <1>5. SumFunctionOnSet(f, Miners \ {n}) = 0
    BY <1>2, <1>3, SumZero
  <1>6. SumFunction(f) = 1
    BY <1>1, <1>2, <1>4, <1>5
  <1>7. QED
    BY <1>6 DEF f

(* Whose work a block on record rewards, and how much it earns them. *)
LEMMA EarnedNat ==
  ASSUME TypeOK, SealedOnce, NEW pb \in Known
  PROVE  /\ DeservedIn(recorded, pb) \in [Miners -> Nat]
         /\ SumFunction(DeservedIn(recorded, pb)) \in Nat
         /\ SumFunction(DeservedIn(recorded, pb)) > 0
         /\ CoinToSat(Reward[pb.hash]) \in Nat
         /\ \A m \in Miners : EarnedIn(recorded, pb, m) \in Nat
  <1> DEFINE f == DeservedIn(recorded, pb)
             t == SumFunction(f)
             r == CoinToSat(Reward[pb.hash])
  <1>1. pb.hash \in Blocks /\ pb.finder \in Miners
    BY DEF TypeOK, StorageTypeOK, Known, PendingBlock
  <1>2. f \in [Miners -> Nat] /\ t \in Nat /\ t > 0
    <2>1. CASE PayMode = "solo"
      <3>1. f = [m \in Miners |-> IF m = pb.finder THEN 1 ELSE 0]
        BY <2>1 DEF DeservedIn
      <3>2. t = 1
        BY <1>1, <3>1, SoloWhole
      <3>3. QED
        BY <3>1, <3>2
    <2>2. CASE PayMode # "solo"
      <3>1. f = RoundShares(pb.hash)
        BY <2>2, SharesRecorded DEF DeservedIn
      <3>2. QED
        BY <3>1, RoundPositive
    <2>3. QED
      BY <2>1, <2>2
  <1>3. r \in Nat
    BY <1>1, CoinToSatNat, PaymentsAssumption
  <1> HIDE DEF f, t, r
  <1>4. ASSUME NEW m \in Miners PROVE (r * f[m]) \div t \in Nat
    <2>1. r * f[m] \in Nat
      BY <1>2, <1>3
    <2>2. QED
      BY <1>2, <2>1
  <1>5. QED
    BY <1>2, <1>3, <1>4 DEF f, t, r, EarnedIn

(* Credits are natural numbers, and those of two sets add up. *)
LEMMA CreditsAdd ==
  ASSUME TypeOK, SealedOnce, IsFiniteSet(Known), NEW m \in Miners, NEW S \in SUBSET Known
  PROVE  /\ CreditsIn(recorded, m, S) \in Nat
         /\ \A T \in SUBSET Known : S \cap T = {} =>
              CreditsIn(recorded, m, S \union T) = CreditsIn(recorded, m, S) + CreditsIn(recorded, m, T)
         /\ \A pb \in Known : pb \notin S =>
              CreditsIn(recorded, m, S \union {pb}) =
                CreditsIn(recorded, m, S) + EarnedIn(recorded, pb, m)
         /\ CreditsIn(recorded, m, {}) = 0
  <1> DEFINE g == [pb \in Known |-> EarnedIn(recorded, pb, m)]
  <1>1. \A pb \in Known : g[pb] \in Nat /\ g[pb] = EarnedIn(recorded, pb, m)
    BY EarnedNat
  <1>2. \A T \in SUBSET Known : IsFiniteSet(T)
    BY FS_Subset
  <1>3. ASSUME NEW T \in SUBSET Known
        PROVE  CreditsIn(recorded, m, T) = SumFunctionOnSet(g, T)
    <2> DEFINE h == [pb \in T |-> EarnedIn(recorded, pb, m)]
    <2>1. \A pb \in T : h[pb] = g[pb]
      OBVIOUS
    <2>2. CreditsIn(recorded, m, T) = SumFunctionOnSet(h, T)
      BY DEF CreditsIn, SumFunction
    <2> HIDE DEF h, g
    <2>3. QED
      BY <1>2, <2>1, <2>2, SumSame
  <1> HIDE DEF g
  <1>4. CreditsIn(recorded, m, S) \in Nat
    BY <1>1, <1>2, <1>3, SumNat
  <1>5. ASSUME NEW T \in SUBSET Known, S \cap T = {}
        PROVE  CreditsIn(recorded, m, S \union T) = CreditsIn(recorded, m, S) + CreditsIn(recorded, m, T)
    <2>1. S \union T \in SUBSET Known
      OBVIOUS
    <2>2. SumFunctionOnSet(g, S \union T) = SumFunctionOnSet(g, S) + SumFunctionOnSet(g, T)
      BY <1>1, <1>2, <1>5, SumUnion
    <2>3. QED
      BY <1>3, <2>1, <2>2
  <1>6. ASSUME NEW pb \in Known, pb \notin S
        PROVE  CreditsIn(recorded, m, S \union {pb}) =
                 CreditsIn(recorded, m, S) + EarnedIn(recorded, pb, m)
    <2>1. S \union {pb} \in SUBSET Known
      OBVIOUS
    <2>2. SumFunctionOnSet(g, S \union {pb}) = SumFunctionOnSet(g, S) + g[pb]
      BY <1>1, <1>2, <1>6, SumAdd
    <2>3. QED
      BY <1>1, <1>3, <2>1, <2>2
  <1>7. CreditsIn(recorded, m, {}) = 0
    <2>1. {} \in SUBSET Known
      OBVIOUS
    <2>2. QED
      BY <1>3, <2>1, SumEmpty
  <1>8. QED
    BY <1>4, <1>5, <1>6, <1>7

(* The history is only ever extended. *)
LEMMA HistoryGrows ==
  ASSUME TypeOK, TypeOK', [Next]_vars
  PROVE  recorded' = recorded \/ \E e \in Recorded : recorded' = Append(recorded, e)
  <1>1. ASSUME NEW s \in Share, NEW n \in Nat, NEW cut, WriteShare(s, n, cut)
        PROVE  recorded' = recorded \/ \E e \in Recorded : recorded' = Append(recorded, e)
    <2> DEFINE e == [miner |-> s.miner, diff |-> s.diff, seq |-> n,
                     seal |-> IF cut >= 3 /\ Seals(s) THEN s.block ELSE NoBlock,
                     capped |-> ~ppsMode]
    <2>1. recorded' = recorded \/ recorded' = Append(recorded, e)
      BY <1>1 DEF WriteShare
    <2>2. e \in Recorded
      BY DEF Recorded, Share
    <2>3. QED
      BY <2>1, <2>2
  <1>2. CASE ShareWriter \/ ShareWriterFails
    <2>1. queue # <<>>
      BY <1>2 DEF ShareWriter, ShareWriterFails, putShareNow, putShareNowFails
    <2>2. Head(queue) \in Share
      BY <2>1 DEF TypeOK, StorageTypeOK
    <2>3. seq + 1 \in Nat /\ 0 \in Nat
      BY DEF TypeOK, StorageTypeOK
    <2>4. recorded' = recorded \/ \E n \in Nat : \E cut : WriteShare(Head(queue), n, cut)
      BY <1>2, <2>3 DEF ShareWriter, ShareWriterFails, putShareNow, putShareNowFails
    <2>5. QED
      BY <1>1, <2>2, <2>4
  <1>3. CASE PayerStep \/ PayerFailure
    BY <1>3, PayerShape DEF Deliberates, Applies, records, ApplyPayments
  <1>4. CASE Environment \/ Crash \/ UNCHANGED vars
    BY <1>4, StorageStutterRecords
       DEF Environment, ProcessShare, ChainStep, WalletSync, OperatorClears, DelPayoutIntent,
           IntentOnly, Crash, StorageRestart, vars
  <1>5. QED
    BY <1>2, <1>3, <1>4 DEF Next

(* What blocks on record have earned stays what it is. *)
LEMMA CreditsKept ==
  ASSUME TypeOK, TypeOK', RoundInv, RoundInv', [Next]_vars
  PROVE  /\ \A pb \in Known, m \in Miners : EarnedIn(recorded', pb, m) = EarnedIn(recorded, pb, m)
         /\ \A S \in SUBSET Known : \A m \in Miners :
              CreditsIn(recorded', m, S) = CreditsIn(recorded, m, S)
  <1>1. ASSUME NEW pb \in Known PROVE SharesIn(recorded', pb.hash) = SharesIn(recorded, pb.hash)
    <2>1. CASE recorded' = recorded
      BY <2>1
    <2>2. ASSUME NEW e \in Recorded, recorded' = Append(recorded, e)
          PROVE  SharesIn(recorded', pb.hash) = SharesIn(recorded, pb.hash)
      <3>1. PICK i \in DOMAIN recorded :
              recorded[i].seal = pb.hash /\ \A j \in DOMAIN recorded : recorded[j].seal = pb.hash => j = i
        BY SealPlace DEF RoundInv
      <3>2. /\ recorded \in Seq(Recorded)
            /\ pb.hash # NoBlock
        BY StorageAssumption DEF TypeOK, StorageTypeOK, Known, PendingBlock
      <3>3. /\ Len(recorded) + 1 \in DOMAIN recorded' /\ recorded'[Len(recorded) + 1] = e
            /\ i \in DOMAIN recorded' /\ recorded'[i] = recorded[i] /\ i # Len(recorded) + 1
        BY <2>2, <3>2
      <3>4. e.seal # pb.hash
        BY <3>1, <3>2, <3>3 DEF RoundInv, SealedOnce
      <3>5. QED
        BY <2>2, <3>1, <3>2, <3>4, SharesKept
    <2>3. QED
      BY <2>1, <2>2, HistoryGrows
  <1>2. \A pb \in Known : DeservedIn(recorded', pb) = DeservedIn(recorded, pb)
    BY <1>1 DEF DeservedIn
  <1>3. \A pb \in Known, m \in Miners : EarnedIn(recorded', pb, m) = EarnedIn(recorded, pb, m)
    BY <1>2 DEF EarnedIn
  <1>4. ASSUME NEW S \in SUBSET Known, NEW m \in Miners
        PROVE  CreditsIn(recorded', m, S) = CreditsIn(recorded, m, S)
    <2>1. [pb \in S |-> EarnedIn(recorded', pb, m)] = [pb \in S |-> EarnedIn(recorded, pb, m)]
      BY <1>3
    <2>2. QED
      BY <2>1 DEF CreditsIn
  <1>5. QED
    BY <1>3, <1>4

-----------------------------------------------------------------------------
(* The balances.                                                           *)

(* An amount on the satoshi grid. *)
Whole(coin) == \E sat \in Nat : coin = SatToCoin(sat)

(* A settled update: nothing is credited, or what it writes and pays is     *)
(* what was there and what its blocks earned.                               *)
Conserves(u) ==
  \/ u.Balances = <<>> /\ u.Confirmed = {} /\ u.Paid = Zero
  \/ /\ u.Balances \in [Miners -> Nat]
     /\ \A m \in Miners :
          /\ Whole(u.Balances[m])
          /\ u.Balances[m] + u.Paid[m] =
               balances[m] + SatToCoin(CreditsIn(recorded, m, u.Confirmed))

(* Its blocks have not been judged yet. *)
StillOpen(u) == u.Confirmed \cup u.Orphaned \subseteq pending

(* The books in order. *)
Booked ==
  /\ IsFiniteSet(Known)
  /\ \A m \in Miners :
       /\ balances[m] + payouts[m] = SatToCoin(CreditsIn(recorded, m, confirmed))
       /\ Whole(balances[m])

(* A run in progress, by where it stands. *)
RunOn ==
  /\ pc # "pending"
  /\ pc = "classify" => todo \subseteq pending /\ update.Balances = <<>>
  /\ pc \in {"classify", "settle", "intent", "send", "stamp", "apply"} => StillOpen(update)
  /\ pc \in {"classify", "settle", "intent", "send"} =>
       \A m \in Miners : /\ workers[m].Balance = CoinToSat(balances[m])
                         /\ workers[m].Reward = CreditsIn(recorded, m, update.Confirmed)
  /\ pc \in {"intent", "send", "stamp", "apply"} => Conserves(update)

(* A run left in an intent, which a later one may finish. *)
Resumable ==
  intent.status # "none" => Conserves(intent.update) /\ StillOpen(intent.update)

(* The inductive invariant of the accounts. *)
CreditInv == Booked /\ RunOn /\ Resumable

(* Satoshi amounts add up as coin. *)
LEMMA CoinAdds ==
  ASSUME NEW a \in Nat, NEW b \in Nat
  PROVE  SatToCoin(a + b) = SatToCoin(a) + SatToCoin(b)
  BY StorageAssumption DEF SatToCoin

(* ApplyPayments books a settled update: the miners have what they had and  *)
(* what the blocks it confirms earned them.                                 *)
LEMMA ApplyCredits ==
  ASSUME TypeOK, TypeOK', BlockRecords, RoundInv, Booked, NEW u, u \in PaymentUpdate,
         ApplyPayments(u), Conserves(u), StillOpen(u), pc' \in {"idle", "read"}
  PROVE  CreditInv'
  <1>1. /\ balances' = IF u.Balances = <<>> THEN balances ELSE u.Balances
        /\ payouts' = [m \in Miners |-> payouts[m] + u.Paid[m]]
        /\ confirmed' = confirmed \cup (u.Confirmed \cap pending)
        /\ orphaned' = orphaned \cup (u.Orphaned \cap pending)
        /\ pending' = pending \ (u.Confirmed \cup u.Orphaned)
        /\ intent' = NoIntent /\ recorded' = recorded
    BY DEF ApplyPayments
  <1>2. Known' = Known
    BY <1>1 DEF Known
  <1>3. /\ confirmed' = confirmed \union u.Confirmed /\ confirmed \cap u.Confirmed = {}
        /\ confirmed \in SUBSET Known /\ u.Confirmed \in SUBSET Known
    BY <1>1 DEF StillOpen, BlockRecords, Known
  <1>4. ASSUME NEW m \in Miners
        PROVE  /\ balances'[m] + payouts'[m] = SatToCoin(CreditsIn(recorded', m, confirmed'))
               /\ Whole(balances'[m])
    <2> DEFINE a == CreditsIn(recorded, m, confirmed)
               b == CreditsIn(recorded, m, u.Confirmed)
    <2>1. /\ a \in Nat /\ b \in Nat
          /\ CreditsIn(recorded, m, confirmed \union u.Confirmed) = a + b
      BY <1>3, CreditsAdd DEF RoundInv, Booked
    <2>2. SatToCoin(CreditsIn(recorded', m, confirmed')) = SatToCoin(a) + SatToCoin(b)
      BY <1>1, <1>3, <2>1, CoinAdds
    <2>3. SatToCoin(a) \in Nat /\ SatToCoin(b) \in Nat
      BY <2>1, SatToCoinNat
    <2>4. balances[m] + payouts[m] = SatToCoin(a) /\ Whole(balances[m])
      BY DEF Booked
    <2>5. payouts'[m] = payouts[m] + u.Paid[m]
      BY <1>1
    <2>6. balances[m] \in Nat /\ payouts[m] \in Nat /\ u.Paid[m] \in Nat
      BY DEF TypeOK, StorageTypeOK, PaymentUpdate
    <2> HIDE DEF a, b
    <2>7. CASE u.Balances = <<>> /\ u.Confirmed = {} /\ u.Paid = Zero
      <3>1. b = 0
        BY <2>7, CreditsAdd DEF b, RoundInv, Booked
      <3>2. SatToCoin(b) = 0
        BY <3>1, StorageAssumption DEF SatToCoin
      <3>3. balances' = balances /\ u.Paid[m] = 0
        BY <1>1, <2>7 DEF Zero
      <3>4. QED
        BY <2>2, <2>3, <2>4, <2>5, <2>6, <3>2, <3>3
    <2>8. CASE /\ u.Balances \in [Miners -> Nat]
               /\ Whole(u.Balances[m]) /\ u.Balances[m] + u.Paid[m] = balances[m] + SatToCoin(b)
      <3>1. u.Balances # <<>>
        <4>1. m \in DOMAIN u.Balances
          BY <2>8
        <4>2. DOMAIN <<>> = {}
          OBVIOUS
        <4>3. QED
          BY <4>1, <4>2
      <3>2. balances'[m] = u.Balances[m] /\ u.Balances[m] \in Nat
        BY <1>1, <2>8, <3>1
      <3>3. balances'[m] + payouts'[m] = SatToCoin(a) + SatToCoin(b)
        BY <2>3, <2>4, <2>5, <2>6, <2>8, <3>2
      <3>4. QED
        BY <2>2, <2>8, <3>2, <3>3
    <2>9. QED
      BY <2>7, <2>8 DEF Conserves, b
  <1>5. Booked'
    BY <1>2, <1>4 DEF Booked, Whole, SatToCoin
  <1>6. RunOn'
    BY DEF RunOn
  <1>7. Resumable'
    BY <1>1 DEF Resumable, NoIntent
  <1>8. QED
    BY <1>5, <1>6, <1>7 DEF CreditInv

(* Steps that write no balance keep a settled update settled and its blocks *)
(* open.                                                                    *)
LEMMA ConservesKept ==
  ASSUME TypeOK, TypeOK', RoundInv, RoundInv', [Next]_vars, UNCHANGED balances,
         pending \subseteq pending', NEW u, Conserves(u), StillOpen(u)
  PROVE  /\ \/ u.Balances = <<>> /\ u.Confirmed = {} /\ u.Paid = Zero
            \/ /\ u.Balances \in [Miners -> Nat]
               /\ \A m \in Miners :
                    /\ Whole(u.Balances[m])
                    /\ u.Balances[m] + u.Paid[m] =
                         balances'[m] + SatToCoin(CreditsIn(recorded', m, u.Confirmed))
         /\ u.Confirmed \cup u.Orphaned \subseteq pending'
  <1>1. u.Confirmed \in SUBSET Known
    BY DEF StillOpen, Known
  <1>2. \A m \in Miners : CreditsIn(recorded', m, u.Confirmed) = CreditsIn(recorded, m, u.Confirmed)
    BY <1>1, CreditsKept
  <1>3. QED
    BY <1>2 DEF Conserves, StillOpen

(* Steps that move no block out of the pending set and write no balance     *)
(* keep the books in order, and an intent that is not replaced resumable.   *)
LEMMA BookedKept ==
  ASSUME TypeOK, TypeOK', RoundInv, RoundInv', [Next]_vars, Booked,
         UNCHANGED <<balances, payouts, confirmed, orphaned>>,
         pending' = pending \/ \E pb : pending' = pending \union {pb}
  PROVE  /\ Booked'
         /\ Resumable /\ (intent' = intent \/ intent'.status = "none") => Resumable'
  <1>1. pending \subseteq pending'
    OBVIOUS
  <1>2. IsFiniteSet(Known')
    <2>1. Known' = Known \/ \E pb : Known' = Known \union {pb}
      BY DEF Known
    <2>2. QED
      BY <2>1, FS_AddElement DEF Booked
  <1>3. confirmed \in SUBSET Known
    BY DEF Known
  <1>4. \A m \in Miners : CreditsIn(recorded', m, confirmed) = CreditsIn(recorded, m, confirmed)
    BY <1>3, CreditsKept
  <1>5. Booked'
    BY <1>2, <1>4 DEF Booked, Whole
  <1>6. ASSUME Resumable, intent' = intent \/ intent'.status = "none"
        PROVE  Resumable'
    <2>1. CASE intent'.status = "none"
      BY <2>1 DEF Resumable
    <2>2. CASE intent' = intent /\ intent.status # "none"
      <3> DEFINE u == intent.update
      <3>1. Conserves(u) /\ StillOpen(u)
        BY <1>6, <2>2 DEF Resumable
      <3>2. Conserves(intent.update)' /\ StillOpen(intent.update)'
        BY <1>1, <2>2, <3>1, ConservesKept DEF Conserves, StillOpen
      <3>3. QED
        BY <3>2 DEF Resumable
    <2>3. QED
      BY <1>6, <2>1, <2>2
  <1>7. QED
    BY <1>5, <1>6

(* The pay modes that pay by block and look at nothing but its round. *)
PaysByBlock == ByRound /\ PayMode # "pps"

(* Steps that are not the payer's leave its run as it is, or end it. *)
LEMMA RunKept ==
  ASSUME TypeOK, TypeOK', RoundInv, RoundInv', [Next]_vars, RunOn, UNCHANGED balances,
         pending \subseteq pending',
         UNCHANGED <<pc, todo, update, workers>> \/ pc' \in {"down", "idle", "read"}
  PROVE  RunOn'
  <1>1. CASE pc' \in {"down", "idle", "read"}
    BY <1>1 DEF RunOn
  <1>2. CASE UNCHANGED <<pc, todo, update, workers>>
    <2>1. pc # "pending" /\ (pc = "classify" => todo \subseteq pending' /\ update.Balances = <<>>)
      BY DEF RunOn
    <2>2. ASSUME pc \in {"classify", "settle", "intent", "send", "stamp", "apply"}
          PROVE  StillOpen(update)'
      BY <1>2, <2>2 DEF RunOn, StillOpen
    <2>3. ASSUME pc \in {"classify", "settle", "intent", "send"}, NEW m \in Miners
          PROVE  /\ workers[m].Balance = CoinToSat(balances'[m])
                 /\ workers[m].Reward = CreditsIn(recorded', m, update.Confirmed)
      <3>1. update.Confirmed \in SUBSET Known
        BY <2>3 DEF RunOn, StillOpen, Known
      <3>2. CreditsIn(recorded', m, update.Confirmed) = CreditsIn(recorded, m, update.Confirmed)
        BY <3>1, CreditsKept
      <3>3. QED
        BY <2>3, <3>2 DEF RunOn
    <2>4. ASSUME pc \in {"intent", "send", "stamp", "apply"}
          PROVE  Conserves(update)'
      <3>1. Conserves(update) /\ StillOpen(update)
        BY <2>4 DEF RunOn
      <3>2. QED
        BY <1>2, <3>1, ConservesKept DEF Conserves
    <2>5. QED
      BY <1>2, <2>1, <2>2, <2>3, <2>4 DEF RunOn
  <1>3. QED
    BY <1>1, <1>2

(* The first read of a run: balances that are whole satoshis are seeded     *)
(* exactly, and nothing is credited yet.                                    *)
LEMMA ReadCredits ==
  ASSUME TypeOK, TypeOK', RoundInv, NamesArePlain, CreditInv, ReadPending
  PROVE  RunOn'
  <1>1. UNCHANGED <<balances, recorded, pending>>
    BY DEF ReadPending, storageVars, shareKeys, blockKeys, ledgerKeys
  <1>2. CASE pc' = "idle"
    BY <1>2 DEF RunOn
  <1>3. CASE pc' = "classify"
    <2>1. todo' = pending /\ workers' = Seeded /\ update' = EmptyUpdate
      BY <1>3, PendingRead DEF ReadPending
    <2>2. StillOpen(update)' /\ update'.Balances = <<>> /\ update'.Confirmed = {}
      BY <2>1 DEF StillOpen, EmptyUpdate
    <2>3. \A m \in Miners : workers'[m].Balance = CoinToSat(balances[m]) /\ workers'[m].Reward = 0
      BY <2>1 DEF Seeded
    <2>4. \A m \in Miners : CreditsIn(recorded, m, {}) = 0
      BY CreditsAdd DEF RoundInv, CreditInv, Booked
    <2>5. QED
      BY <1>1, <1>3, <2>1, <2>2, <2>3, <2>4 DEF RunOn
  <1>4. QED
    BY <1>2, <1>3 DEF ReadPending

(* attribute gives each miner what a pending block earned it. *)
LEMMA AttributeEarned ==
  ASSUME TypeOK, RoundInv, PaysByBlock, NEW pb \in pending,
         NEW dist \in attribute(pb, CoinToSat(Reward[pb.hash]))
  PROVE  \A m \in Miners : dist[m] = EarnedIn(recorded, pb, m)
  <1> DEFINE r == CoinToSat(Reward[pb.hash])
             f == DeservedIn(recorded, pb)
             t == SumFunction(f)
  <1>1. pb \in Known /\ pb.finder \in Miners
    BY DEF Known, TypeOK, StorageTypeOK, PendingBlock
  <1>2. f \in [Miners -> Nat] /\ t \in Nat /\ t > 0 /\ r \in Nat
    BY <1>1, EarnedNat DEF RoundInv
  <1>3. CASE PayMode = "solo"
    <2>1. f = [m \in Miners |-> IF m = pb.finder THEN 1 ELSE 0] /\ t = 1
      BY <1>1, <1>3, SoloWhole DEF DeservedIn
    <2>2. dist = [m \in Miners |-> IF m = pb.finder THEN r ELSE 0]
      BY <1>3 DEF attribute
    <2>3. ASSUME NEW m \in Miners PROVE dist[m] = (r * f[m]) \div t
      <3> HIDE DEF r, f, t
      <3>1. CASE m = pb.finder
        <4>1. f[m] = 1 /\ dist[m] = r
          BY <2>1, <2>2, <3>1
        <4>2. r * f[m] = r /\ r \div 1 = r
          BY <1>2, <4>1
        <4>3. QED
          BY <2>1, <4>1, <4>2
      <3>2. CASE m # pb.finder
        <4>1. f[m] = 0 /\ dist[m] = 0
          BY <2>1, <2>2, <3>2
        <4>2. r * f[m] = 0 /\ 0 \div 1 = 0
          BY <1>2, <4>1
        <4>3. QED
          BY <2>1, <4>1, <4>2
      <3>3. QED
        BY <3>1, <3>2
    <2>4. QED
      BY <2>3 DEF EarnedIn
  <1>4. CASE PayMode # "solo"
    <2>1. f = RoundShares(pb.hash)
      BY <1>4, SharesRecorded DEF DeservedIn
    <2>2. GetRoundContrib(HeightOf[pb.hash]) = f
      BY <2>1 DEF RoundInv, SealedRoundExact, GetRoundContrib
    <2>3. attribute(pb, r) = splitByShares(r, f)
      BY <1>4, <2>2 DEF attribute, PaysByBlock, ByRound
    <2>4. dist = [m \in Miners |-> (r * f[m]) \div t]
      BY <1>2, <2>3 DEF splitByShares
    <2>5. QED
      BY <2>4 DEF EarnedIn
  <1>5. QED
    BY <1>3, <1>4

(* A block is credited to the workers as it is confirmed. *)
LEMMA ClassifyCredits ==
  ASSUME TypeOK, TypeOK', BlockRecords, RoundInv, PaysByBlock, CreditInv,
         NEW pb \in todo, ClassifyBlock(pb) \/ GetBlockErrs(pb)
  PROVE  RunOn'
  <1>1. UNCHANGED <<balances, recorded, pending, pc>> /\ pc = "classify" /\ todo' \subseteq todo
    BY DEF ClassifyBlock, GetBlockErrs, storageVars, shareKeys, blockKeys, ledgerKeys
  <1>2. /\ pb \in pending /\ pb \in Known /\ todo' \subseteq pending
        /\ update.Balances = <<>> /\ StillOpen(update)
    BY <1>1 DEF CreditInv, RunOn, Known
  <1>3. \A m \in Miners : /\ workers[m].Balance = CoinToSat(balances[m])
                          /\ workers[m].Reward = CreditsIn(recorded, m, update.Confirmed)
    BY <1>1 DEF CreditInv, RunOn
  <1>4. update \in PaymentUpdate /\ workers \in [Miners -> Worker]
    BY DEF TypeOK
  <1>5. CASE UNCHANGED <<workers, update>>
    BY <1>1, <1>2, <1>3, <1>5 DEF RunOn, StillOpen
  <1>6. CASE update' = Orphan(pb) /\ UNCHANGED workers
    <2>1. /\ update'.Confirmed = update.Confirmed /\ update'.Balances = update.Balances
          /\ update'.Orphaned = update.Orphaned \cup {pb}
      BY <1>4, <1>6 DEF Orphan, PaymentUpdate
    <2>2. QED
      BY <1>1, <1>2, <1>3, <1>6, <2>1 DEF RunOn, StillOpen
  <1>7. ASSUME NEW dist \in attribute(pb, CoinToSat(Reward[pb.hash])), update' = Confirm(pb),
               workers' = [m \in Miners |-> [workers[m] EXCEPT !.Reward = @ + dist[m]]]
        PROVE  RunOn'
    <2>1. /\ update'.Confirmed = update.Confirmed \cup {pb} /\ update'.Balances = update.Balances
          /\ update'.Orphaned = update.Orphaned
      BY <1>4, <1>7 DEF Confirm, PaymentUpdate
    <2>2. pb \notin update.Confirmed /\ update.Confirmed \in SUBSET Known
      BY <1>1, <1>2 DEF BlockRecords, StillOpen, Known
    <2>3. ASSUME NEW m \in Miners
          PROVE  /\ workers'[m].Balance = CoinToSat(balances[m])
                 /\ workers'[m].Reward = CreditsIn(recorded, m, update'.Confirmed)
      <3>1. workers'[m] = [workers[m] EXCEPT !.Reward = @ + dist[m]]
        BY <1>7
      <3>2. /\ workers'[m].Balance = workers[m].Balance
            /\ workers'[m].Reward = workers[m].Reward + dist[m]
        BY <1>4, <3>1 DEF Worker
      <3>3. dist[m] = EarnedIn(recorded, pb, m)
        BY <1>2, <1>7, AttributeEarned
      <3>4. CreditsIn(recorded, m, update.Confirmed \union {pb}) =
              CreditsIn(recorded, m, update.Confirmed) + EarnedIn(recorded, pb, m)
        BY <1>2, <2>2, CreditsAdd DEF RoundInv, CreditInv, Booked
      <3>5. QED
        BY <1>3, <2>1, <3>2, <3>3, <3>4
    <2>4. QED
      BY <1>1, <1>2, <2>1, <2>3 DEF RunOn, StillOpen
  <1>8. QED
    BY <1>5, <1>6, <1>7 DEF ClassifyBlock, GetBlockErrs, PaysByBlock

(* settle: what is written as balance and what is sent make up what was     *)
(* carried over and what was earned, to the satoshi, whatever is withheld.  *)
LEMMA SettleExact ==
  ASSUME TypeOK, NEW lost, Settle(lost), NEW m \in Miners, Whole(balances[m]),
         workers[m].Balance = CoinToSat(balances[m])
  PROVE  /\ update'.Balances[m] \in Nat
         /\ Whole(update'.Balances[m])
         /\ update'.Balances[m] + update'.Paid[m] = balances[m] + SatToCoin(workers[m].Reward)
  <1> DEFINE pays == {x \in Due : validRecipient(x, lost) = "valid"}
             Sent(x) == IF x \in pays THEN ToSend(x) ELSE 0
             c == workers[m].Reward
             o == Owed(m)
             x == Sent(m)
  <1>1. update' = [update EXCEPT
                     !.Balances = [k \in Miners |-> SatToCoin(Owed(k) - Sent(k))],
                     !.Paid     = [k \in Miners |-> SatToCoin(Sent(k))]]
    BY DEF Settle
  <1> HIDE DEF pays
  <1>2. update \in PaymentUpdate
    BY DEF TypeOK
  <1>3. update'.Balances[m] = SatToCoin(o - x) /\ update'.Paid[m] = SatToCoin(x)
    BY <1>1, <1>2 DEF PaymentUpdate
  <1>4. PICK sat \in Nat : balances[m] = SatToCoin(sat)
    BY DEF Whole
  <1>5. c \in Nat
    BY DEF TypeOK, Worker
  <1>6. o = sat + c /\ o \in Nat
    BY <1>4, <1>5, RoundTrip DEF Owed
  <1>7. x \in 0..o
    <2>1. withhold \in 0..99
      BY DEF TypeOK
    <2>2. (o * (100 - withhold)) \div 100 \in 0..o
      BY <1>6, <2>1, WithheldIsLess
    <2>3. ToSend(m) \in 0..o
      BY <2>2 DEF ToSend
    <2>4. QED
      BY <1>6, <2>3
  <1> HIDE DEF c, o, x
  <1>8. o - x \in Nat /\ x \in Nat /\ (o - x) + x = sat + c
    BY <1>5, <1>6, <1>7
  <1>9. SatToCoin(o - x) + SatToCoin(x) = SatToCoin(sat) + SatToCoin(c)
    <2>1. SatToCoin((o - x) + x) = SatToCoin(o - x) + SatToCoin(x)
      BY <1>8, CoinAdds
    <2>2. SatToCoin(sat + c) = SatToCoin(sat) + SatToCoin(c)
      BY <1>4, <1>5, CoinAdds
    <2>3. QED
      BY <1>8, <2>1, <2>2
  <1>10. Whole(update'.Balances[m]) /\ update'.Balances[m] \in Nat
    BY <1>3, <1>8, SatToCoinNat DEF Whole
  <1>11. QED
    BY <1>3, <1>4, <1>9, <1>10 DEF c

(* settle keeps the run's accounts right. *)
LEMMA SettleCredits ==
  ASSUME TypeOK, TypeOK', RoundInv, CreditInv, NEW lost, Settle(lost)
  PROVE  RunOn'
  <1>1. /\ UNCHANGED <<balances, recorded, pending, todo, workers>> /\ pc = "settle"
        /\ pc' \in {"apply", "intent"}
    BY DEF Settle, storageVars, shareKeys, blockKeys, ledgerKeys
  <1>2. update'.Confirmed = update.Confirmed /\ update'.Orphaned = update.Orphaned
    BY DEF Settle, TypeOK, PaymentUpdate
  <1>3. \A m \in Miners : /\ workers[m].Balance = CoinToSat(balances[m])
                          /\ workers[m].Reward = CreditsIn(recorded, m, update.Confirmed)
                          /\ Whole(balances[m])
    BY <1>1 DEF CreditInv, RunOn, Booked
  <1>4. \A m \in Miners :
          /\ update'.Balances[m] \in Nat
          /\ Whole(update'.Balances[m])
          /\ update'.Balances[m] + update'.Paid[m] =
               balances[m] + SatToCoin(CreditsIn(recorded, m, update.Confirmed))
    BY <1>3, SettleExact
  <1>5. update'.Balances \in [Miners -> Nat]
    <2>1. update'.Balances = [m \in Miners |-> update'.Balances[m]]
      BY DEF Settle, TypeOK, PaymentUpdate
    <2>2. QED
      BY <1>4, <2>1
  <1>6. Conserves(update)'
    BY <1>1, <1>2, <1>4, <1>5 DEF Conserves
  <1>7. StillOpen(update)'
    BY <1>1, <1>2 DEF CreditInv, RunOn, StillOpen
  <1>8. QED
    BY <1>1, <1>2, <1>3, <1>6, <1>7 DEF RunOn

(* A run goes on, or ends, with nothing changed in what it knows. *)
LEMMA RunGoesOn ==
  ASSUME RunOn, UNCHANGED <<balances, recorded, pending, update, workers>>, todo' \subseteq todo,
         \/ pc' \in {"down", "idle", "read"}
         \/ pc' = pc
         \/ pc = "classify" /\ pc' = "settle"
         \/ pc = "intent" /\ pc' = "send"
         \/ pc = "send" /\ pc' \in {"stamp", "settle"}
         \/ pc = "stamp" /\ pc' = "apply"
         \/ pc = "classify" /\ pc' = "apply" /\ Conserves(update)
  PROVE  RunOn'
  <1>1. (Conserves(update) => Conserves(update)') /\ (StillOpen(update) => StillOpen(update)')
    BY DEF Conserves, StillOpen
  <1>2. CASE pc' \in {"down", "idle", "read"}
    BY <1>2 DEF RunOn
  <1>3. CASE pc' = pc
    BY <1>1, <1>3 DEF RunOn
  <1>4. CASE pc = "classify" /\ pc' = "settle"
    BY <1>1, <1>4 DEF RunOn
  <1>5. CASE pc = "intent" /\ pc' = "send"
    BY <1>1, <1>5 DEF RunOn
  <1>6. CASE pc = "send" /\ pc' \in {"stamp", "settle"}
    BY <1>1, <1>6 DEF RunOn
  <1>7. CASE pc = "stamp" /\ pc' = "apply"
    BY <1>1, <1>7 DEF RunOn
  <1>8. CASE pc = "classify" /\ pc' = "apply" /\ Conserves(update)
    BY <1>1, <1>8 DEF RunOn
  <1>9. QED
    BY <1>2, <1>3, <1>4, <1>5, <1>6, <1>7, <1>8

(* What the ledger keys are when storage is left alone. *)
LEMMA StorageStutterLedger ==
  ASSUME UNCHANGED storageVars
  PROVE  UNCHANGED <<balances, payouts, confirmed, orphaned, pending, recorded, intent>>
  BY DEF storageVars, shareKeys, blockKeys, ledgerKeys

(* Reading, classifying and settling write nothing to redis, and keep the   *)
(* run's own accounts right.                                                *)
LEMMA ReadSideCredits ==
  ASSUME TypeOK, TypeOK', BlockRecords, RoundInv, RoundInv', NamesArePlain, PaysByBlock,
         IntentProtocol, CreditInv, [Next]_vars,
         \/ ReadPending \/ ReadShares \/ ReadPPSPending \/ Classify \/ Classification
         \/ SettleAnswered \/ SettleUnanswered \/ ReadFails
         \/ (\E pb \in todo : ClassifyFails(pb)) \/ (\E pb \in todo : GetBlockErrs(pb))
  PROVE  CreditInv'
  <1>1. UNCHANGED storageVars
    BY DEF ReadPending, ReadShares, ReadPPSPending, Classify, ClassifyBlock, Classification,
           SettleAnswered, SettleUnanswered, Settle, ReadFails, ClassifyFails, GetBlockErrs
  <1>2. UNCHANGED <<balances, payouts, confirmed, orphaned, pending, recorded, intent>>
    BY <1>1, StorageStutterLedger
  <1>3. Booked' /\ Resumable'
    BY <1>2, BookedKept DEF CreditInv
  <1>4. RunOn /\ ~ReadShares /\ ~ReadPPSPending
    BY DEF CreditInv, RunOn, ReadShares, ReadPPSPending, PaysByBlock
  <1>5. Classification => RunOn'
    <2> SUFFICES ASSUME Classification PROVE RunOn'
      OBVIOUS
    <2>1. /\ pc = "classify" /\ UNCHANGED <<todo, workers, update>>
          /\ pc' = IF update.Confirmed # {} THEN "settle"
                   ELSE IF update.Orphaned # {} THEN "apply" ELSE "idle"
      BY DEF Classification, PaysByBlock
    <2>2. update.Confirmed = {} => Conserves(update)
      BY <1>4, <2>1 DEF RunOn, IntentProtocol, Conserves
    <2>3. QED
      BY <1>2, <1>4, <2>1, <2>2, RunGoesOn
  <1>6. ReadFails => RunOn'
    BY <1>2, <1>4, RunGoesOn DEF ReadFails, runVars
  <1>7. (\E pb \in todo : ClassifyFails(pb)) => RunOn'
    BY <1>2, <1>4, RunGoesOn DEF ClassifyFails
  <1>8. QED
    BY <1>3, <1>4, <1>5, <1>6, <1>7, ReadCredits, ClassifyCredits, SettleCredits
       DEF CreditInv, Classify, SettleAnswered, SettleUnanswered

(* Sending changes nothing in redis but the intent. *)
LEMMA SendSideCredits ==
  ASSUME TypeOK, TypeOK', RoundInv, RoundInv', IntentProtocol, CreditInv, [Next]_vars,
         \/ PutIntent \/ SendMany \/ StampTxid
         \/ SendManyUnanswered \/ SendManyInsufficient \/ SendManyRejected
         \/ (WriteFails /\ ~ApplyPayments(update))
  PROVE  CreditInv'
  <1>1. UNCHANGED <<todo, workers, update>>
    BY DEF PutIntent, SendMany, StampTxid, SendManyUnanswered, SendManyInsufficient,
           SendManyRejected, WriteFails, settleFrame, runVars
  <1>2. \/ UNCHANGED storageVars
        \/ PutPayoutIntent(update) /\ pc = "intent"
        \/ SetPayoutIntentTxid /\ pc = "stamp"
        \/ DelPayoutIntent
    BY DEF PutIntent, SendMany, StampTxid, SendManyUnanswered, SendManyInsufficient,
           SendManyRejected, WriteFails, TryDelete
  <1>3. UNCHANGED <<balances, payouts, confirmed, orphaned, pending, recorded>>
    BY <1>2, StorageStutterLedger
       DEF PutPayoutIntent, SetPayoutIntentTxid, DelPayoutIntent, IntentOnly, shareKeys, blockKeys,
           ledgerKeys
  <1>4. Booked' /\ (intent' = intent \/ intent'.status = "none" => Resumable')
    BY <1>3, BookedKept DEF CreditInv
  <1>5. Resumable'
    <2>1. CASE UNCHANGED storageVars \/ DelPayoutIntent
      BY <1>4, <2>1, StorageStutterLedger DEF DelPayoutIntent, NoIntent
    <2>2. CASE PutPayoutIntent(update) /\ pc = "intent"
      <3>1. Conserves(update) /\ StillOpen(update) /\ intent'.update = update
        BY <2>2 DEF PutPayoutIntent, CreditInv, RunOn
      <3>2. Conserves(intent.update)' /\ StillOpen(intent.update)'
        BY <1>3, <3>1 DEF Conserves, StillOpen
      <3>3. QED
        BY <3>2 DEF Resumable
    <2>3. CASE SetPayoutIntentTxid /\ pc = "stamp"
      <3>1. Conserves(intent.update) /\ StillOpen(intent.update) /\ intent'.update = intent.update
        BY <2>3 DEF SetPayoutIntentTxid, CreditInv, Resumable, IntentProtocol
      <3>2. Conserves(intent.update)' /\ StillOpen(intent.update)'
        BY <1>3, <3>1 DEF Conserves, StillOpen
      <3>3. QED
        BY <3>2 DEF Resumable
    <2>4. QED
      BY <1>2, <2>1, <2>2, <2>3
  <1>6. \/ pc' = "idle"
        \/ pc = "intent" /\ pc' = "send"
        \/ pc = "send" /\ pc' \in {"stamp", "settle"}
        \/ pc = "stamp" /\ pc' = "apply"
    BY DEF PutIntent, SendMany, StampTxid, SendManyUnanswered, SendManyInsufficient,
           SendManyRejected, WriteFails
  <1>7. RunOn'
    BY <1>1, <1>3, <1>6, RunGoesOn DEF CreditInv
  <1>8. QED
    BY <1>4, <1>5, <1>7 DEF CreditInv

(* The payer keeps its books. *)
LEMMA PayerCredits ==
  ASSUME TypeOK, TypeOK', BlockRecords, RoundInv, RoundInv', NamesArePlain, PaysByBlock,
         IntentProtocol, CreditInv, [Next]_vars, PayerStep \/ PayerFailure
  PROVE  CreditInv'
  <1>1. CASE PaymentInit
    <2>1. UNCHANGED <<balances, payouts, confirmed, orphaned, pending, recorded, intent>> /\ pc' = "idle"
      BY <1>1 DEF PaymentInit, shareKeys, blockKeys, ledgerKeys
    <2>2. Booked' /\ Resumable'
      BY <2>1, BookedKept DEF CreditInv
    <2>3. QED
      BY <2>1, <2>2 DEF CreditInv, RunOn
  <1>2. CASE Reconcile
    <2>1. CASE UNCHANGED storageVars
      <3>1. UNCHANGED <<balances, payouts, confirmed, orphaned, pending, recorded, intent>>
        BY <2>1, StorageStutterLedger
      <3>2. Booked' /\ Resumable'
        BY <3>1, BookedKept DEF CreditInv
      <3>3. pc' \in {"idle", "read"}
        BY <1>2 DEF Reconcile
      <3>4. QED
        BY <3>2, <3>3 DEF CreditInv, RunOn
    <2>2. CASE intent.status = "stamped" /\ ApplyPayments(intent.update) /\ pc' = "read"
      <3>1. Conserves(intent.update) /\ StillOpen(intent.update)
        BY <2>2 DEF CreditInv, Resumable
      <3>2. intent.update \in PaymentUpdate
        BY DEF TypeOK, StorageTypeOK, PayoutIntent
      <3>3. QED
        BY <2>2, <3>1, <3>2, ApplyCredits DEF CreditInv
    <2>3. QED
      BY <1>2, <2>1, <2>2 DEF Reconcile
  <1>3. CASE Apply \/ (WriteFails /\ ApplyPayments(update))
    <2>1. CASE pc = "apply" /\ ApplyPayments(update) /\ pc' = "idle"
      <3>1. Conserves(update) /\ StillOpen(update)
        BY <2>1 DEF CreditInv, RunOn
      <3>2. update \in PaymentUpdate
        BY DEF TypeOK
      <3>3. QED
        BY <2>1, <3>1, <3>2, ApplyCredits DEF CreditInv
    <2>2. CASE WriteFails /\ ApplyPayments(update)
      <3>1. pc' = "idle" /\ pc \in {"intent", "stamp", "apply"}
        BY <2>2 DEF WriteFails
      <3>2. Conserves(update) /\ StillOpen(update)
        BY <3>1 DEF CreditInv, RunOn
      <3>3. update \in PaymentUpdate
        BY DEF TypeOK
      <3>4. QED
        BY <2>2, <3>1, <3>2, <3>3, ApplyCredits DEF CreditInv
    <2>3. QED
      BY <1>3, <2>1, <2>2 DEF Apply
  <1>4. CASE \/ ReadPending \/ ReadShares \/ ReadPPSPending \/ Classify \/ Classification
             \/ SettleAnswered \/ SettleUnanswered \/ ReadFails
             \/ (\E pb \in todo : ClassifyFails(pb)) \/ (\E pb \in todo : GetBlockErrs(pb))
    BY <1>4, ReadSideCredits
  <1>5. CASE \/ PutIntent \/ SendMany \/ StampTxid
             \/ SendManyUnanswered \/ SendManyInsufficient \/ SendManyRejected
             \/ (WriteFails /\ ~ApplyPayments(update))
    BY <1>5, SendSideCredits
  <1>6. CASE PayerStep
    BY <1>1, <1>2, <1>3, <1>4, <1>5, <1>6 DEF PayerStep
  <1>7. CASE PayerFailure
    <2>1. CASE WriteFails
      BY <1>3, <1>5, <2>1
    <2>2. QED
      BY <1>4, <1>5, <1>7, <2>1 DEF PayerFailure
  <1>8. QED
    BY <1>6, <1>7

(* CreditInv is inductive, given what is proved above. *)
LEMMA NextCredits ==
  ASSUME TypeOK, TypeOK', BlockRecords, RoundInv, RoundInv', NamesArePlain, PaysByBlock,
         IntentProtocol, CreditInv, [Next]_vars
  PROVE  CreditInv'
  <1>1. CASE PayerStep \/ PayerFailure
    BY <1>1, PayerCredits
  <1>2. ASSUME UNCHANGED <<balances, payouts, confirmed, orphaned>>,
               pending' = pending \/ \E pb : pending' = pending \union {pb},
               intent' = intent \/ intent'.status = "none",
               UNCHANGED <<pc, todo, update, workers>> \/ pc' \in {"down", "idle", "read"}
        PROVE  CreditInv'
    <2>1. pending \subseteq pending'
      BY <1>2
    <2>2. QED
      BY <1>2, <2>1, BookedKept, RunKept DEF CreditInv
  <1>3. CASE Environment
    <2>1. \A share \in Shares : ProcessShare(share) =>
            UNCHANGED <<balances, payouts, confirmed, orphaned, pending, intent, pc, todo, update, workers>>
      BY DEF ProcessShare, blockKeys, ledgerKeys, runVars
    <2>2. \A b \in Blocks, status \in {"young", "mature", "off"} : ChainStep(b, status) =>
            UNCHANGED <<storageVars, pc, todo, update, workers>>
      BY DEF ChainStep, runVars
    <2>3. \A b \in Blocks : WalletSync(b) => UNCHANGED <<storageVars, pc, todo, update, workers>>
      BY DEF WalletSync, runVars
    <2>4. OperatorClears =>
            /\ UNCHANGED <<balances, payouts, confirmed, orphaned, pending, pc, todo, update, workers>>
            /\ intent'.status = "none"
      BY DEF OperatorClears, DelPayoutIntent, NoIntent, IntentOnly, blockKeys, ledgerKeys,
             settleFrame, runVars
    <2>5. UNCHANGED storageVars => UNCHANGED <<balances, payouts, confirmed, orphaned, pending, intent>>
      BY StorageStutterLedger
    <2>6. QED
      BY <1>2, <1>3, <2>1, <2>2, <2>3, <2>4, <2>5 DEF Environment
  <1>4. CASE ShareWriter \/ ShareWriterFails
    <2>1. UNCHANGED <<pc, todo, update, workers>>
      BY <1>4 DEF ShareWriter, ShareWriterFails, payerAndEnv, runVars
    <2>2. /\ UNCHANGED <<balances, payouts, confirmed, orphaned, intent>>
          /\ pending' = pending \/ \E pb : pending' = pending \union {pb}
      BY <1>4 DEF ShareWriter, ShareWriterFails, putShareNow, putShareNowFails, WriteShare,
                  blockKeys, ledgerKeys
    <2>3. QED
      BY <1>2, <2>1, <2>2
  <1>5. CASE Crash
    <2>1. /\ UNCHANGED <<balances, payouts, confirmed, orphaned, pending, intent>> /\ pc' = "down"
      BY <1>5 DEF Crash, StorageRestart, blockKeys, ledgerKeys
    <2>2. QED
      BY <1>2, <2>1
  <1>6. CASE UNCHANGED vars
    BY <1>2, <1>6, StorageStutterLedger DEF vars, runVars
  <1>7. QED
    BY <1>1, <1>3, <1>4, <1>5, <1>6 DEF Next

(* Nothing is owed at the start. *)
LEMMA InitCredits == Init => CreditInv
  <1> SUFFICES ASSUME Init PROVE CreditInv
    OBVIOUS
  <1>1. /\ balances = Zero /\ payouts = Zero /\ pc = "down" /\ intent.status = "none"
        /\ pending = {} /\ confirmed = {} /\ orphaned = {}
    BY DEF Init, StorageInit, NoIntent
  <1>2. Known = {} /\ IsFiniteSet(Known)
    BY <1>1, FS_EmptySet DEF Known
  <1>3. \A m : CreditsIn(recorded, m, confirmed) = 0
    <2>1. ASSUME NEW m PROVE CreditsIn(recorded, m, {}) = 0
      <3>1. CreditsIn(recorded, m, {}) =
              SumFunctionOnSet([pb \in {} |-> EarnedIn(recorded, pb, m)], {})
        BY DEF CreditsIn, SumFunction
      <3>2. QED
        BY <3>1, SumEmpty
    <2>2. QED
      BY <1>1, <2>1
  <1>4. SatToCoin(0) = 0
    BY StorageAssumption DEF SatToCoin
  <1>5. Booked
    BY <1>1, <1>2, <1>3, <1>4 DEF Booked, Whole, Zero
  <1>6. QED
    BY <1>1, <1>5 DEF CreditInv, RunOn, Resumable

(* The accounts are in order in every reachable state. *)
LEMMA CreditInvariant ==
  ASSUME NamesArePlain, HeightsApart, PaysByBlock
  PROVE  Spec => []CreditInv
  <1>1. /\ TypeOK /\ TypeOK' /\ BlockRecords /\ RoundInv /\ RoundInv' /\ IntentProtocol
        /\ CreditInv /\ [Next]_vars
        => CreditInv'
    BY NextCredits
  <1>2. QED
    BY <1>1, InitCredits, TypeCorrect, RecordsConsistent, RoundInvariant, IntentTellsProgress, PTL
       DEF Spec

(* processPayments, settle and ApplyPayments, in the modes that pay by      *)
(* block: what a miner has been credited, in the balance and in payouts, is *)
(* at all times exactly what the confirmed blocks earned it, whatever fails *)
(* or crashes, and however often a run is resumed.                          *)
THEOREM BlocksCreditedOnce ==
  ASSUME NamesArePlain, HeightsApart, PaysByBlock
  PROVE  Spec => []EachBlockCreditedOnce
  <1>1. CreditInv => EachBlockCreditedOnce
    BY CreditsRecorded DEF CreditInv, Booked, EachBlockCreditedOnce, PaysByBlock
  <1>2. QED
    BY <1>1, CreditInvariant, PTL

-----------------------------------------------------------------------------
(* The processor implements PayoutLedger.                                  *)

(* A run that pays has settled the balances of all miners. *)
AtomicInv ==
  /\ pc \in {"intent", "send", "stamp"} => update.Balances \in [Miners -> Nat]
  /\ intent.status # "none" => intent.update.Balances \in [Miners -> Nat]

(* AtomicInv is inductive, given the types and the intent protocol. *)
LEMMA NextAtomic ==
  ASSUME TypeOK, TypeOK', IntentProtocol, AtomicInv, [Next]_vars
  PROVE  AtomicInv'
  <1>1. CASE UNCHANGED <<update, intent>> /\ (pc' \in {"intent", "send", "stamp"} =>
               pc \in {"intent", "send", "stamp"})
    BY <1>1 DEF AtomicInv
  <1>2. CASE intent' = intent /\ pc' \notin {"intent", "send", "stamp"}
    BY <1>2 DEF AtomicInv
  <1>3. CASE intent'.status = "none" /\ update' = update /\ (pc' \in {"intent", "send", "stamp"} =>
               pc \in {"intent", "send", "stamp"})
    BY <1>3 DEF AtomicInv
  <1>4. \A u : ApplyPayments(u) => intent'.status = "none"
    BY DEF ApplyPayments, NoIntent
  <1>5. ASSUME NEW lost, Settle(lost)
        PROVE  AtomicInv'
    <2>1. intent' = intent /\ pc' \in {"apply", "intent"}
      BY <1>5, StorageStutterLedger DEF Settle
    <2>2. update'.Balances \in [Miners -> Nat]
      <3>1. DOMAIN update'.Balances = Miners /\ update'.Balances = [m \in Miners |-> update'.Balances[m]]
        BY <1>5 DEF Settle, TypeOK, PaymentUpdate
      <3>2. update'.Balances = <<>> \/ update'.Balances \in [Miners -> Nat]
        BY DEF TypeOK, PaymentUpdate
      <3>3. DOMAIN <<>> = {}
        OBVIOUS
      <3>4. update'.Balances = <<>> => \A m \in Miners : FALSE
        BY <3>1, <3>3
      <3>5. QED
        BY <3>1, <3>2, <3>4
    <2>3. QED
      BY <2>1, <2>2 DEF AtomicInv
  <1>6. ASSUME PutPayoutIntent(update), pc = "intent", update' = update, pc' \in {"send", "idle"}
        PROVE  AtomicInv'
    BY <1>6 DEF PutPayoutIntent, AtomicInv
  <1>7. ASSUME SetPayoutIntentTxid, pc = "stamp", update' = update, pc' \in {"apply", "idle"}
        PROVE  AtomicInv'
    BY <1>7 DEF SetPayoutIntentTxid, AtomicInv, IntentProtocol
  <1>8. CASE PayerStep
    <2>1. CASE PaymentInit
      BY <1>2, <2>1 DEF PaymentInit
    <2>2. CASE Reconcile
      BY <1>2, <1>3, <1>4, <2>2, StorageStutterLedger DEF Reconcile, runVars
    <2>3. CASE ReadPending \/ ReadShares \/ ReadPPSPending \/ Classify \/ Classification
      BY <1>2, <2>3, StorageStutterLedger
         DEF ReadPending, ReadShares, ReadPPSPending, Classify, ClassifyBlock, Classification
    <2>4. CASE PutIntent
      BY <1>6, <2>4 DEF PutIntent, settleFrame, runVars
    <2>5. CASE SendMany
      BY <1>1, <2>5, StorageStutterLedger DEF SendMany, settleFrame, runVars
    <2>6. CASE StampTxid
      BY <1>7, <2>6 DEF StampTxid, settleFrame, runVars
    <2>7. CASE Apply
      BY <1>3, <1>4, <2>7 DEF Apply, settleFrame, runVars
    <2>8. QED
      BY <1>5, <1>8, <2>1, <2>2, <2>3, <2>4, <2>5, <2>6, <2>7 DEF PayerStep, SettleAnswered
  <1>9. CASE PayerFailure
    <2>1. CASE (\E pb \in todo : ClassifyFails(pb)) \/ (\E pb \in todo : GetBlockErrs(pb))
      BY <1>2, <2>1, StorageStutterLedger DEF ClassifyFails, GetBlockErrs
    <2>2. CASE ReadFails
      BY <1>2, <2>2, StorageStutterLedger DEF ReadFails
    <2>3. CASE SendManyUnanswered
      BY <1>2, <2>3, StorageStutterLedger DEF SendManyUnanswered
    <2>4. DelPayoutIntent => intent'.status = "none"
      BY DEF DelPayoutIntent, NoIntent
    <2>5. CASE SendManyInsufficient
      BY <1>2, <1>3, <2>4, <2>5, StorageStutterLedger DEF SendManyInsufficient, TryDelete
    <2>6. CASE SendManyRejected
      BY <1>2, <1>3, <2>4, <2>6, StorageStutterLedger
         DEF SendManyRejected, TryDelete, settleFrame, runVars
    <2>7. CASE WriteFails
      BY <1>2, <1>3, <1>4, <1>6, <1>7, <2>7, StorageStutterLedger DEF WriteFails, settleFrame, runVars
    <2>8. QED
      BY <1>5, <1>9, <2>1, <2>2, <2>3, <2>5, <2>6, <2>7 DEF PayerFailure, SettleUnanswered
  <1>10. CASE Environment
    <2>1. \A share \in Shares : ProcessShare(share) => UNCHANGED <<intent, update, pc>>
      BY DEF ProcessShare, runVars
    <2>2. \A b \in Blocks, status \in {"young", "mature", "off"} :
            ChainStep(b, status) => UNCHANGED <<intent, update, pc>>
      BY DEF ChainStep, storageVars, runVars
    <2>3. \A b \in Blocks : WalletSync(b) => UNCHANGED <<intent, update, pc>>
      BY DEF WalletSync, storageVars, runVars
    <2>4. OperatorClears => intent'.status = "none" /\ UNCHANGED <<update, pc>>
      BY DEF OperatorClears, DelPayoutIntent, NoIntent, settleFrame, runVars
    <2>5. QED
      BY <1>1, <1>3, <1>10, <2>1, <2>2, <2>3, <2>4 DEF Environment
  <1>11. CASE ShareWriter \/ ShareWriterFails
    <2>1. UNCHANGED <<intent, update, pc>>
      BY <1>11 DEF ShareWriter, ShareWriterFails, putShareNow, putShareNowFails, WriteShare,
                   payerAndEnv, runVars
    <2>2. QED
      BY <1>1, <2>1
  <1>12. CASE Crash
    BY <1>2, <1>12 DEF Crash, StorageRestart
  <1>13. CASE UNCHANGED vars
    BY <1>1, <1>13 DEF vars, storageVars, runVars
  <1>14. QED
    BY <1>8, <1>9, <1>10, <1>11, <1>12, <1>13 DEF Next

(* The steps of PayoutLedger, taken by the state that stands for its own. *)
LRecord(b) ==
  /\ b \notin LedgerOpen \cup LedgerConfirmed \cup LedgerOrphaned
  /\ LedgerOpen' = LedgerOpen \cup {b}
  /\ \A c \in Blocks \ {b} : LedgerClaim'[c] = LedgerClaim[c]
  /\ UNCHANGED <<LedgerConfirmed, LedgerOrphaned, LedgerOwed, sent>>

(* One payout run. *)
LRun(C, O) ==
  /\ C \cap O = {}
  /\ LedgerOpen' = LedgerOpen \ (C \cup O)
  /\ LedgerConfirmed' = LedgerConfirmed \cup C
  /\ LedgerOrphaned' = LedgerOrphaned \cup O
  /\ \A m \in Miners :
       /\ sent'[m] >= sent[m]
       /\ LedgerOwed'[m] >= 0
       /\ LedgerOwed'[m] + sent'[m] =
            (LedgerOwed[m] + sent[m]) + SumFunction([b \in C |-> LedgerClaim[b][m]])
  /\ UNCHANGED LedgerClaim

(* The state of the ledger. *)
ledgerVars == <<LedgerOpen, LedgerConfirmed, LedgerOrphaned, LedgerClaim, LedgerOwed, sent>>

(* The instance's sums are the sums of this module. *)
LEMMA SameSums == \A f : Ledger!SumFunction(f) = SumFunction(f)
  BY DEF SumFunction, SumFunctionOnSet, FoldFunctionOnSet, MapThenFoldSet,
         Ledger!SumFunction, Ledger!SumFunctionOnSet, Ledger!FoldFunctionOnSet, Ledger!MapThenFoldSet

(* They are the steps of the instance. *)
LEMMA LedgerSteps ==
  /\ \A b \in Blocks : LRecord(b) => Ledger!Next
  /\ \A C, O \in SUBSET LedgerOpen : LRun(C, O) => Ledger!Next
  /\ UNCHANGED ledgerVars => UNCHANGED Ledger!vars
  <1>1. \A b \in Blocks : LRecord(b) => Ledger!Next
    BY DEF LRecord, Ledger!Next, Ledger!Record
  <1>2. ASSUME NEW C \in SUBSET LedgerOpen, NEW O \in SUBSET LedgerOpen, LRun(C, O)
        PROVE  Ledger!Run(C, O)
    BY <1>2, SameSums DEF LRun, Ledger!Run
  <1>3. UNCHANGED ledgerVars => UNCHANGED Ledger!vars
    BY DEF ledgerVars, Ledger!vars
  <1>4. QED
    BY <1>1, <1>2, <1>3 DEF Ledger!Next

-----------------------------------------------------------------------------
(* Claims, as functions of the history.                                    *)

ClaimIn(r, K) ==
  [b \in Blocks |-> [m \in Miners |-> SatToCoin(CreditsIn(r, m, {pb \in K : pb.hash = b}))]]

(* They are the claims of the ledger, before and after a step. *)
LEMMA ClaimRecorded ==
  ASSUME ByRound
  PROVE  LedgerClaim = ClaimIn(recorded, Known) /\ LedgerClaim' = ClaimIn(recorded', Known')
  <1>1. LedgerClaim = ClaimIn(recorded, Known)
    BY CreditsRecorded DEF LedgerClaim, ClaimIn, Known
  <1>2. (LedgerClaim = ClaimIn(recorded, Known))'
    BY <1>1, PTL
  <1>3. ClaimIn(recorded, Known)' = ClaimIn(recorded', Known')
    BY DEF ClaimIn, CreditsIn, EarnedIn, DeservedIn, SharesIn
  <1>4. QED
    BY <1>1, <1>2, <1>3

(* A step changes no claim to a block whose records it leaves alone. *)
LEMMA ClaimKept ==
  ASSUME TypeOK, TypeOK', RoundInv, RoundInv', ByRound, [Next]_vars, NEW b \in Blocks,
         {pb \in Known' : pb.hash = b} = {pb \in Known : pb.hash = b}
  PROVE  LedgerClaim'[b] = LedgerClaim[b]
  <1> DEFINE K == {pb \in Known : pb.hash = b}
  <1>1. K \in SUBSET Known
    OBVIOUS
  <1>2. \A m \in Miners : CreditsIn(recorded', m, K) = CreditsIn(recorded, m, K)
    BY <1>1, CreditsKept
  <1>3. /\ LedgerClaim'[b] = [m \in Miners |-> SatToCoin(CreditsIn(recorded', m, K))]
        /\ LedgerClaim[b] = [m \in Miners |-> SatToCoin(CreditsIn(recorded, m, K))]
    BY ClaimRecorded DEF ClaimIn
  <1> HIDE DEF K
  <1>4. QED
    BY <1>2, <1>3

(* A step that records no block changes no claim. *)
LEMMA ClaimsKept ==
  ASSUME TypeOK, TypeOK', RoundInv, RoundInv', ByRound, [Next]_vars, Known' = Known
  PROVE  UNCHANGED LedgerClaim
  <1>1. \A b \in Blocks : LedgerClaim'[b] = LedgerClaim[b]
    BY ClaimKept
  <1>2. /\ LedgerClaim = [b \in Blocks |-> LedgerClaim[b]]
        /\ LedgerClaim' = [b \in Blocks |-> LedgerClaim'[b]]
    BY ClaimRecorded DEF ClaimIn
  <1>3. QED
    BY <1>1, <1>2

(* The claims to the blocks of C are what C credits. *)
LEMMA ClaimsSum ==
  ASSUME TypeOK, BlockRecords, SealedOnce, IsFiniteSet(Known), ByRound,
         NEW m \in Miners, NEW C \in SUBSET Known
  PROVE  SumFunction([b \in Hashes(C) |-> LedgerClaim[b][m]]) = SatToCoin(CreditsIn(recorded, m, C))
  <1> DEFINE g == [b \in Hashes(Known) |-> LedgerClaim[b][m]]
             Good(T) == /\ IsFiniteSet(Hashes(T))
                        /\ SumFunctionOnSet(g, Hashes(T)) = SatToCoin(CreditsIn(recorded, m, T))
             Bad == {T \in SUBSET Known : ~Good(T)}
  <1>1. ASSUME NEW pb \in Known
        PROVE  /\ g[pb.hash] = SatToCoin(EarnedIn(recorded, pb, m))
               /\ EarnedIn(recorded, pb, m) \in Nat
               /\ g[pb.hash] \in Nat
    <2>1. pb.hash \in Blocks /\ pb.hash \in Hashes(Known)
      BY DEF TypeOK, StorageTypeOK, Known, PendingBlock, Hashes
    <2>2. {q \in Known : q.hash = pb.hash} = {pb}
      BY DEF BlockRecords, Known
    <2>3. g[pb.hash] = SatToCoin(CreditsIn(recorded, m, {pb}))
      BY <2>1, <2>2, ClaimRecorded DEF ClaimIn
    <2>4. {} \in SUBSET Known /\ {} \union {pb} = {pb}
      OBVIOUS
    <2>5. CreditsIn(recorded, m, {}) = 0
      BY <2>4, CreditsAdd
    <2>6. CreditsIn(recorded, m, {} \union {pb}) =
            CreditsIn(recorded, m, {}) + EarnedIn(recorded, pb, m)
      BY <2>4, CreditsAdd
    <2>7. EarnedIn(recorded, pb, m) \in Nat
      BY EarnedNat
    <2>8. CreditsIn(recorded, m, {pb}) = EarnedIn(recorded, pb, m)
      BY <2>4, <2>5, <2>6, <2>7
    <2> HIDE DEF g
    <2>9. QED
      BY <2>3, <2>7, <2>8, SatToCoinNat
  <1>2. \A b \in Hashes(Known) : g[b] \in Nat
    BY <1>1 DEF Hashes
  <1> HIDE DEF g
  <1>3. Bad = {}
    <2>1. SUFFICES ASSUME Bad # {} PROVE FALSE
      OBVIOUS
    <2>2. Bad \in SUBSET (SUBSET Known)
      OBVIOUS
    <2> HIDE DEF Bad
    <2>3. PICK s \in Bad : \A t \in SUBSET s : t # s => t \notin Bad
      BY <2>1, <2>2, SmallestSet
    <2> USE DEF Bad
    <2>4. s # {}
      <3>1. ASSUME s = {} PROVE Good(s)
        <4>1. Hashes(s) = {} /\ s \in SUBSET Known
          BY <3>1 DEF Hashes
        <4>2. CreditsIn(recorded, m, s) = 0
          BY <3>1, <4>1, CreditsAdd
        <4>3. SatToCoin(0) = 0
          BY StorageAssumption DEF SatToCoin
        <4>4. QED
          BY <4>1, <4>2, <4>3, SumEmpty, FS_EmptySet
      <3>2. ~Good(s)
        BY <2>3
      <3>3. QED
        BY <3>1, <3>2
    <2>5. PICK pb \in s : TRUE
      BY <2>4
    <2> DEFINE t == s \ {pb}
    <2>6. s \in SUBSET Known /\ t \in SUBSET Known /\ t \in SUBSET s /\ t # s /\ pb \in Known /\ pb \notin t
          /\ t \union {pb} = s
      BY <2>3, <2>5
    <2>7. Good(t)
      BY <2>3, <2>6
    <2>8. /\ Hashes(s) = Hashes(t) \union {pb.hash}
          /\ pb.hash \notin Hashes(t)
          /\ Hashes(s) \subseteq Hashes(Known)
      BY <2>6 DEF Hashes, BlockRecords, Known
    <2> HIDE DEF t
    <2>9. SumFunctionOnSet(g, Hashes(s)) = SumFunctionOnSet(g, Hashes(t)) + g[pb.hash]
      <3>1. \A b \in Hashes(t) \union {pb.hash} : g[b] \in Nat
        BY <1>2, <2>8
      <3>2. QED
        BY <2>7, <2>8, <3>1, SumAdd
    <2>10. /\ CreditsIn(recorded, m, s) = CreditsIn(recorded, m, t) + EarnedIn(recorded, pb, m)
           /\ CreditsIn(recorded, m, t) \in Nat
      BY <2>6, CreditsAdd
    <2>11. SatToCoin(CreditsIn(recorded, m, s)) =
             SatToCoin(CreditsIn(recorded, m, t)) + SatToCoin(EarnedIn(recorded, pb, m))
      BY <1>1, <2>6, <2>10, CoinAdds
    <2>12. IsFiniteSet(Hashes(s))
      BY <2>7, <2>8, FS_AddElement
    <2>13. Good(s)
      BY <1>1, <2>6, <2>7, <2>9, <2>11, <2>12
    <2>14. QED
      BY <2>3, <2>13
  <1>4. Good(C)
    BY <1>3
  <1> DEFINE h == [b \in Hashes(C) |-> LedgerClaim[b][m]]
  <1>5. \A b \in Hashes(C) : h[b] = g[b]
    BY DEF g, Hashes
  <1>6. SumFunction(h) = SumFunctionOnSet(h, Hashes(C))
    BY DEF SumFunction
  <1> HIDE DEF h
  <1>7. SumFunction(h) = SatToCoin(CreditsIn(recorded, m, C))
    BY <1>4, <1>5, <1>6, SumSame
  <1>8. QED
    BY <1>7 DEF h

-----------------------------------------------------------------------------
(* Every step is a step of the ledger, or none.                            *)

(* What holds in every reachable state, as far as the refinement uses it. *)
BooksInv ==
  /\ TypeOK /\ BlockRecords /\ RoundInv /\ IntentProtocol /\ WalletAgrees
  /\ CreditInv /\ AtomicInv

(* Blocks with records of their own: their hashes are as apart as they are. *)
LEMMA HashesApart ==
  ASSUME BlockRecords, NEW S \in SUBSET Known, NEW T \in SUBSET Known
  PROVE  /\ Hashes(S \ T) = Hashes(S) \ Hashes(T)
         /\ Hashes(S \cup T) = Hashes(S) \cup Hashes(T)
         /\ S \cap T = {} => Hashes(S) \cap Hashes(T) = {}
         /\ S \subseteq T => Hashes(S) \subseteq Hashes(T)
  <1>1. \A p, q \in Known : p.hash = q.hash => p = q
    BY DEF BlockRecords, Known
  <1>2. QED
    BY <1>1 DEF Hashes

(* A step that leaves alone the records, the balances, what was sent, and   *)
(* the payments outstanding.                                                *)
LEMMA StepUnseen ==
  ASSUME BooksInv, BooksInv', ByRound, [Next]_vars,
         UNCHANGED <<pending, confirmed, orphaned, balances, sent, outstanding>>,
         outstanding => intent'.update = intent.update
  PROVE  UNCHANGED ledgerVars
  <1>1. Known' = Known
    BY DEF Known
  <1>2. UNCHANGED LedgerClaim
    BY <1>1, ClaimsKept DEF BooksInv
  <1>3. UNCHANGED <<LedgerOpen, LedgerConfirmed, LedgerOrphaned, LedgerOwed>>
    BY DEF LedgerOpen, LedgerConfirmed, LedgerOrphaned, LedgerOwed, Hashes
  <1>4. QED
    BY <1>2, <1>3 DEF ledgerVars

(* The step with which update u takes effect: nothing was outstanding, and  *)
(* now its verdicts, its balances and its payments are there at once.       *)
LEMMA RunTakesEffect ==
  ASSUME BooksInv, BooksInv', ByRound, [Next]_vars, Known' = Known, ~outstanding,
         NEW u \in PaymentUpdate, Conserves(u), StillOpen(u), OneVerdict(u),
         LedgerOpen' = Hashes(pending \ (u.Confirmed \cup u.Orphaned)),
         LedgerConfirmed' = Hashes(confirmed \cup u.Confirmed),
         LedgerOrphaned' = Hashes(orphaned \cup u.Orphaned),
         \A m \in Miners : sent'[m] = sent[m] + u.Paid[m],
         \A m \in Miners :
           LedgerOwed'[m] = IF u.Balances = <<>> THEN balances[m] ELSE u.Balances[m]
  PROVE  Ledger!Next
  <1> DEFINE C == Hashes(u.Confirmed)
             O == Hashes(u.Orphaned)
  <1>1. /\ LedgerOpen = Hashes(pending) /\ LedgerConfirmed = Hashes(confirmed)
        /\ LedgerOrphaned = Hashes(orphaned) /\ LedgerOwed = balances
    BY DEF LedgerOpen, LedgerConfirmed, LedgerOrphaned, LedgerOwed
  <1>2. /\ u.Confirmed \in SUBSET Known /\ u.Orphaned \in SUBSET Known
        /\ u.Confirmed \subseteq pending /\ u.Orphaned \subseteq pending
        /\ u.Confirmed \cup u.Orphaned \in SUBSET Known
        /\ pending \in SUBSET Known /\ confirmed \in SUBSET Known /\ orphaned \in SUBSET Known
    BY DEF StillOpen, Known
  <1>3. C \cap O = {}
    BY <1>2, HashesApart DEF OneVerdict, BooksInv
  <1>4. C \in SUBSET LedgerOpen /\ O \in SUBSET LedgerOpen
    BY <1>1, <1>2, HashesApart DEF BooksInv
  <1>5. LedgerOpen' = LedgerOpen \ (C \cup O)
    <2>1. Hashes(u.Confirmed \cup u.Orphaned) = C \cup O
      BY <1>2, HashesApart DEF BooksInv
    <2>2. ASSUME NEW J \in SUBSET Known PROVE Hashes(pending \ J) = Hashes(pending) \ Hashes(J)
      BY <1>2, HashesApart DEF BooksInv
    <2>3. QED
      BY <1>1, <1>2, <2>1, <2>2
  <1>6. LedgerConfirmed' = LedgerConfirmed \cup C /\ LedgerOrphaned' = LedgerOrphaned \cup O
    BY <1>1, <1>2, HashesApart DEF BooksInv
  <1>7. UNCHANGED LedgerClaim
    BY ClaimsKept DEF BooksInv
  <1>8. ASSUME NEW m \in Miners
        PROVE  /\ sent'[m] >= sent[m]
               /\ LedgerOwed'[m] >= 0
               /\ LedgerOwed'[m] + sent'[m] =
                    (LedgerOwed[m] + sent[m]) + SumFunction([b \in C |-> LedgerClaim[b][m]])
    <2> DEFINE c == SatToCoin(CreditsIn(recorded, m, u.Confirmed))
    <2>1. SumFunction([b \in C |-> LedgerClaim[b][m]]) = c
      BY <1>2, ClaimsSum DEF BooksInv, RoundInv, CreditInv, Booked
    <2>2. CreditsIn(recorded, m, u.Confirmed) \in Nat
      BY <1>2, CreditsAdd DEF BooksInv, RoundInv, CreditInv, Booked
    <2>3. c \in Nat
      BY <2>2, SatToCoinNat
    <2>4. balances[m] \in Nat /\ sent[m] \in Nat /\ u.Paid[m] \in Nat
      BY DEF BooksInv, TypeOK, StorageTypeOK, PaymentUpdate
    <2>5. LedgerOwed[m] = balances[m]
      BY <1>1
    <2>6. CASE u.Balances = <<>> /\ u.Confirmed = {} /\ u.Paid = Zero
      <3>1. CreditsIn(recorded, m, u.Confirmed) = 0
        BY <1>2, <2>6, CreditsAdd DEF BooksInv, RoundInv, CreditInv, Booked
      <3>2. c = 0
        BY <3>1, StorageAssumption DEF SatToCoin
      <3>3. u.Paid[m] = 0 /\ LedgerOwed'[m] = balances[m]
        BY <2>6 DEF Zero
      <3> HIDE DEF c
      <3>4. QED
        BY <2>1, <2>4, <2>5, <3>2, <3>3
    <2>7. CASE u.Balances \in [Miners -> Nat] /\ u.Balances[m] + u.Paid[m] = balances[m] + c
      <3>1. u.Balances # <<>>
        <4>1. m \in DOMAIN u.Balances
          BY <2>7
        <4>2. DOMAIN <<>> = {}
          OBVIOUS
        <4>3. QED
          BY <4>1, <4>2
      <3>2. LedgerOwed'[m] = u.Balances[m] /\ u.Balances[m] \in Nat
        BY <2>7, <3>1
      <3>3. PICK w, p, a, s : w = u.Balances[m] /\ p = u.Paid[m] /\ a = balances[m] /\ s = sent[m]
        OBVIOUS
      <3> HIDE DEF c
      <3>4. w + (s + p) = (a + s) + c /\ s + p >= s /\ w >= 0
        BY <2>3, <2>4, <2>7, <3>2, <3>3, SMTT(40)
      <3>5. sent'[m] = s + p /\ LedgerOwed'[m] = w /\ LedgerOwed[m] = a
        BY <2>5, <3>2, <3>3
      <3>6. QED
        BY <2>1, <3>3, <3>4, <3>5
    <2>8. QED
      BY <2>6, <2>7 DEF Conserves
  <1>9. LRun(C, O)
    BY <1>3, <1>5, <1>6, <1>7, <1>8 DEF LRun
  <1> HIDE DEF C, O
  <1>10. QED
    BY <1>4, <1>9, LedgerSteps

(* sendmany is answered, or not: from the broadcast on the run has taken    *)
(* place, as the intent has it.                                             *)
LEMMA BroadcastRuns ==
  ASSUME BooksInv, BooksInv', ByRound, [Next]_vars, pc = "send", Broadcast, UNCHANGED storageVars
  PROVE  Ledger!Next
  <1>1. /\ ~outstanding /\ outstanding' /\ intent.status = "unstamped" /\ intent.update = update
        /\ \A m \in Miners : sent'[m] = sent[m] + update.Paid[m]
    BY DEF BooksInv, IntentProtocol, Broadcast
  <1>2. UNCHANGED <<balances, payouts, confirmed, orphaned, pending, recorded, intent>>
    BY StorageStutterLedger
  <1>3. Known' = Known
    BY <1>2 DEF Known
  <1>4. Conserves(update) /\ StillOpen(update) /\ OneVerdict(update) /\ update \in PaymentUpdate
    BY DEF BooksInv, CreditInv, RunOn, BlockRecords, TypeOK
  <1>5. /\ LedgerOpen' = Hashes(pending \ (update.Confirmed \cup update.Orphaned))
        /\ LedgerConfirmed' = Hashes(confirmed \cup update.Confirmed)
        /\ LedgerOrphaned' = Hashes(orphaned \cup update.Orphaned)
        /\ LedgerOwed' = update.Balances
    BY <1>1, <1>2 DEF LedgerOpen, LedgerConfirmed, LedgerOrphaned, LedgerOwed, Hashes
  <1>6. \A m \in Miners : update.Balances # <<>>
    <2>1. update.Balances \in [Miners -> Nat]
      BY DEF BooksInv, AtomicInv
    <2>2. DOMAIN update.Balances = Miners
      BY <2>1
    <2>3. DOMAIN <<>> = {}
      OBVIOUS
    <2>4. QED
      BY <2>2, <2>3
  <1>7. \A m \in Miners :
          LedgerOwed'[m] = IF update.Balances = <<>> THEN balances[m] ELSE update.Balances[m]
    BY <1>5, <1>6
  <1>8. QED
    BY <1>1, <1>3, <1>4, <1>5, <1>7, RunTakesEffect

(* ApplyPayments of what was broadcast shows nothing new; of a run that     *)
(* pays nobody it is the run itself.                                        *)
LEMMA ApplyRuns ==
  ASSUME BooksInv, BooksInv', ByRound, [Next]_vars, NEW u \in PaymentUpdate,
         ApplyPayments(u), Conserves(u), StillOpen(u), OneVerdict(u),
         ~outstanding', UNCHANGED sent,
         IF outstanding THEN intent.update = u ELSE u.Paid = Zero
  PROVE  Ledger!Next \/ UNCHANGED ledgerVars
  <1>1. /\ balances' = IF u.Balances = <<>> THEN balances ELSE u.Balances
        /\ confirmed' = confirmed \cup (u.Confirmed \cap pending)
        /\ orphaned' = orphaned \cup (u.Orphaned \cap pending)
        /\ pending' = pending \ (u.Confirmed \cup u.Orphaned)
    BY DEF ApplyPayments
  <1>2. /\ confirmed' = confirmed \cup u.Confirmed /\ orphaned' = orphaned \cup u.Orphaned
        /\ Known' = Known
    BY <1>1 DEF StillOpen, Known
  <1>3. /\ LedgerOpen' = Hashes(pending \ (u.Confirmed \cup u.Orphaned))
        /\ LedgerConfirmed' = Hashes(confirmed \cup u.Confirmed)
        /\ LedgerOrphaned' = Hashes(orphaned \cup u.Orphaned)
        /\ LedgerOwed' = balances'
    BY <1>1, <1>2 DEF LedgerOpen, LedgerConfirmed, LedgerOrphaned, LedgerOwed, Hashes
  <1>4. CASE outstanding
    <2>1. intent.update = u /\ u.Balances \in [Miners -> Nat]
      BY <1>4 DEF BooksInv, AtomicInv, WalletAgrees
    <2>2. UNCHANGED <<LedgerOpen, LedgerConfirmed, LedgerOrphaned>>
      BY <1>3, <1>4, <2>1 DEF LedgerOpen, LedgerConfirmed, LedgerOrphaned
    <2>3. balances' = u.Balances
      <3>1. CASE u.Balances = <<>>
        <4>1. DOMAIN u.Balances = Miners
          BY <2>1
        <4>2. DOMAIN <<>> = {}
          OBVIOUS
        <4>3. Miners = {}
          BY <3>1, <4>1, <4>2
        <4>4. balances' \in [Miners -> Nat]
          BY DEF BooksInv, TypeOK, StorageTypeOK
        <4>5. QED
          BY <2>1, <4>3, <4>4
      <3>2. CASE u.Balances # <<>>
        BY <1>1, <3>2
      <3>3. QED
        BY <3>1, <3>2
    <2>4. UNCHANGED LedgerOwed
      BY <1>3, <1>4, <2>1, <2>3 DEF LedgerOwed
    <2>5. UNCHANGED LedgerClaim
      BY <1>2, ClaimsKept DEF BooksInv
    <2>6. QED
      BY <2>2, <2>4, <2>5 DEF ledgerVars
  <1>5. CASE ~outstanding
    <2>1. \A m \in Miners : sent'[m] = sent[m] + u.Paid[m]
      BY <1>5 DEF Zero, BooksInv, TypeOK
    <2>2. \A m \in Miners :
            LedgerOwed'[m] = IF u.Balances = <<>> THEN balances[m] ELSE u.Balances[m]
      BY <1>1, <1>3
    <2>3. QED
      BY <1>2, <1>3, <1>5, <2>1, <2>2, RunTakesEffect
  <1>6. QED
    BY <1>4, <1>5

(* The steps of the payer. *)
LEMMA PayerRuns ==
  ASSUME BooksInv, BooksInv', ByRound, [Next]_vars, PayerStep \/ PayerFailure
  PROVE  Ledger!Next \/ UNCHANGED ledgerVars
  <1>1. ASSUME UNCHANGED <<storageVars, sent, outstanding>> PROVE UNCHANGED ledgerVars
    BY <1>1, StorageStutterLedger, StepUnseen
  <1>2. ASSUME PutPayoutIntent(update) \/ DelPayoutIntent, ~outstanding, UNCHANGED <<sent, outstanding>>
        PROVE  UNCHANGED ledgerVars
    <2>1. UNCHANGED <<pending, confirmed, orphaned, balances>>
      BY <1>2 DEF PutPayoutIntent, DelPayoutIntent, IntentOnly, blockKeys, ledgerKeys
    <2>2. QED
      BY <1>2, <2>1, StepUnseen
  <1>3. ASSUME SetPayoutIntentTxid, UNCHANGED <<sent, outstanding>> PROVE UNCHANGED ledgerVars
    <2>1. UNCHANGED <<pending, confirmed, orphaned, balances>> /\ intent'.update = intent.update
      BY <1>3 DEF SetPayoutIntentTxid, IntentOnly, blockKeys, ledgerKeys
    <2>2. QED
      BY <1>3, <2>1, StepUnseen
  <1>4. ASSUME pc = "apply", ApplyPayments(update), ~outstanding', UNCHANGED sent
        PROVE  Ledger!Next \/ UNCHANGED ledgerVars
    <2>1. Conserves(update) /\ StillOpen(update) /\ OneVerdict(update) /\ update \in PaymentUpdate
      BY <1>4 DEF BooksInv, CreditInv, RunOn, BlockRecords, TypeOK
    <2>2. IF outstanding THEN intent.update = update ELSE update.Paid = Zero
      BY <1>4 DEF BooksInv, IntentProtocol
    <2>3. QED
      BY <1>4, <2>1, <2>2, ApplyRuns
  <1>5. pc = "send" \/ pc = "intent" => ~outstanding
    BY DEF BooksInv, IntentProtocol
  <1>6. CASE PaymentInit
    <2>1. UNCHANGED <<pending, confirmed, orphaned, balances, sent, outstanding, intent>>
      BY <1>6 DEF PaymentInit, blockKeys, ledgerKeys
    <2>2. QED
      BY <2>1, StepUnseen
  <1>7. CASE Reconcile
    <2>1. CASE intent.status = "stamped" /\ ApplyPayments(intent.update) /\ ~outstanding' /\ UNCHANGED sent
      <3>1. /\ Conserves(intent.update) /\ StillOpen(intent.update) /\ OneVerdict(intent.update)
            /\ intent.update \in PaymentUpdate
        BY <2>1 DEF BooksInv, CreditInv, Resumable, BlockRecords, TypeOK, StorageTypeOK, PayoutIntent
      <3>2. outstanding
        BY <2>1 DEF BooksInv, IntentProtocol
      <3>3. QED
        BY <2>1, <3>1, <3>2, ApplyRuns
    <2>2. QED
      BY <1>1, <1>7, <2>1 DEF Reconcile
  <1>8. CASE \/ ReadPending \/ ReadShares \/ ReadPPSPending \/ Classify \/ Classification
             \/ SettleAnswered \/ SettleUnanswered \/ ReadFails
             \/ (\E pb \in todo : ClassifyFails(pb)) \/ (\E pb \in todo : GetBlockErrs(pb))
    <2>1. UNCHANGED <<storageVars, sent, outstanding>>
      BY <1>8 DEF ReadPending, ReadShares, ReadPPSPending, Classify, ClassifyBlock, Classification,
                  SettleAnswered, SettleUnanswered, Settle, ReadFails, ClassifyFails, GetBlockErrs
    <2>2. QED
      BY <1>1, <2>1
  <1>9. CASE PutIntent
    BY <1>2, <1>5, <1>9 DEF PutIntent
  <1>10. CASE SendMany
    BY <1>10, BroadcastRuns DEF SendMany
  <1>11. CASE StampTxid
    BY <1>3, <1>11 DEF StampTxid
  <1>12. CASE Apply
    BY <1>4, <1>12 DEF Apply
  <1>13. CASE SendManyUnanswered
    BY <1>1, <1>13, BroadcastRuns DEF SendManyUnanswered
  <1>14. CASE SendManyInsufficient
    BY <1>1, <1>2, <1>5, <1>14 DEF SendManyInsufficient, TryDelete
  <1>15. CASE SendManyRejected
    BY <1>1, <1>2, <1>5, <1>15 DEF SendManyRejected, TryDelete
  <1>16. CASE WriteFails
    BY <1>1, <1>2, <1>3, <1>4, <1>5, <1>16 DEF WriteFails
  <1>17. CASE PayerStep
    BY <1>6, <1>7, <1>8, <1>9, <1>10, <1>11, <1>12, <1>17 DEF PayerStep
  <1>18. CASE PayerFailure
    BY <1>8, <1>13, <1>14, <1>15, <1>16, <1>18 DEF PayerFailure
  <1>19. QED
    BY <1>17, <1>18

(* The writer records a block: new to the ledger, and open in it. *)
LEMMA WriterRecords ==
  ASSUME BooksInv, BooksInv', ByRound, [Next]_vars, queue # <<>>,
         UNCHANGED <<confirmed, orphaned, balances, sent, outstanding, intent>>,
         Seals(Head(queue)),
         NEW pb, pb.hash = Head(queue).block, pending' = pending \cup {pb}
  PROVE  Ledger!Next
  <1> DEFINE b == pb.hash
             J == intent.update.Confirmed \cup intent.update.Orphaned
  <1>1. 1 \in DOMAIN queue /\ queue[1] = Head(queue)
    BY DEF BooksInv, TypeOK, StorageTypeOK
  <1>2. b \in Blocks /\ pb \in PendingBlock
    BY DEF BooksInv, TypeOK, StorageTypeOK, PendingBlock
  <1>3. b \notin Hashes(Known)
    BY <1>1 DEF BooksInv, BlockRecords, Known
  <1>4. outstanding => J \subseteq pending
    BY DEF BooksInv, WalletAgrees, CreditInv, Resumable, StillOpen
  <1>5. b \notin LedgerOpen \cup LedgerConfirmed \cup LedgerOrphaned
    <2>1. LedgerOpen \cup LedgerConfirmed \cup LedgerOrphaned \subseteq Hashes(Known)
      BY <1>4 DEF LedgerOpen, LedgerConfirmed, LedgerOrphaned, Hashes, Known
    <2>2. QED
      BY <1>3, <2>1
  <1>6. LedgerOpen' = LedgerOpen \cup {b}
    <2>1. \A S : Hashes(S \cup {pb}) = Hashes(S) \cup {b}
      BY DEF Hashes
    <2>2. pb \notin pending
      BY <1>3 DEF Hashes, Known
    <2>3. outstanding => (pending \cup {pb}) \ J = (pending \ J) \cup {pb}
      BY <1>4, <2>2
    <2>4. LedgerOpen' = IF outstanding THEN Hashes((pending \cup {pb}) \ J) ELSE Hashes(pending \cup {pb})
      BY DEF LedgerOpen, Hashes
    <2>5. LedgerOpen = IF outstanding THEN Hashes(pending \ J) ELSE Hashes(pending)
      BY DEF LedgerOpen
    <2>6. QED
      BY <2>1, <2>3, <2>4, <2>5
  <1>7. ASSUME NEW c \in Blocks \ {b} PROVE LedgerClaim'[c] = LedgerClaim[c]
    <2>1. Known' = Known \cup {pb}
      BY DEF Known
    <2>2. {q \in Known' : q.hash = c} = {q \in Known : q.hash = c}
      BY <2>1
    <2>3. QED
      BY <2>2, ClaimKept DEF BooksInv
  <1>8. UNCHANGED <<LedgerConfirmed, LedgerOrphaned, LedgerOwed, sent>>
    BY DEF LedgerConfirmed, LedgerOrphaned, LedgerOwed, Hashes
  <1>9. LRecord(b)
    BY <1>5, <1>6, <1>7, <1>8 DEF LRecord
  <1>10. QED
    BY <1>2, <1>9, LedgerSteps

(* Every step of the processor is a step of the ledger. *)
LEMMA NextRefines ==
  ASSUME BooksInv, BooksInv', ByRound, [Next]_vars
  PROVE  Ledger!Next \/ UNCHANGED Ledger!vars
  <1>1. CASE PayerStep \/ PayerFailure
    BY <1>1, PayerRuns, LedgerSteps
  <1>2. ASSUME UNCHANGED <<pending, confirmed, orphaned, balances, sent, outstanding>>,
               outstanding => intent'.update = intent.update
        PROVE  UNCHANGED Ledger!vars
    BY <1>2, StepUnseen, LedgerSteps
  <1>3. CASE Environment
    <2>1. \A share \in Shares : ProcessShare(share) =>
            UNCHANGED <<pending, confirmed, orphaned, balances, sent, outstanding, intent>>
      BY DEF ProcessShare, blockKeys, ledgerKeys
    <2>2. \A b \in Blocks, status \in {"young", "mature", "off"} : ChainStep(b, status) =>
            UNCHANGED <<pending, confirmed, orphaned, balances, sent, outstanding, intent>>
      BY DEF ChainStep, storageVars, blockKeys, ledgerKeys
    <2>3. \A b \in Blocks : WalletSync(b) =>
            UNCHANGED <<pending, confirmed, orphaned, balances, sent, outstanding, intent>>
      BY DEF WalletSync, storageVars, blockKeys, ledgerKeys
    <2>4. OperatorClears =>
            ~outstanding /\ UNCHANGED <<pending, confirmed, orphaned, balances, sent, outstanding>>
      BY DEF OperatorClears, DelPayoutIntent, IntentOnly, blockKeys, ledgerKeys
    <2>5. QED
      BY <1>2, <1>3, <2>1, <2>2, <2>3, <2>4 DEF Environment
  <1>4. CASE ShareWriter \/ ShareWriterFails
    <2>1. /\ UNCHANGED <<confirmed, orphaned, balances, sent, outstanding, intent>>
          /\ queue # <<>>
          /\ \/ pending' = pending
             \/ /\ Seals(Head(queue))
                /\ \E n : pending' = pending \cup
                     {[hash |-> Head(queue).block, finder |-> Head(queue).miner, mark |-> n]}
      BY <1>4 DEF ShareWriter, ShareWriterFails, putShareNow, putShareNowFails, WriteShare,
                  payerAndEnv, blockKeys, ledgerKeys
    <2>2. CASE pending' = pending
      BY <1>2, <2>1, <2>2
    <2>3. ASSUME Seals(Head(queue)), NEW n, pending' = pending \cup
                   {[hash |-> Head(queue).block, finder |-> Head(queue).miner, mark |-> n]}
          PROVE  Ledger!Next
      <3> DEFINE pb == [hash |-> Head(queue).block, finder |-> Head(queue).miner, mark |-> n]
      <3>1. pb.hash = Head(queue).block /\ pending' = pending \cup {pb}
        BY <2>3
      <3> HIDE DEF pb
      <3>2. QED
        BY <2>1, <2>3, <3>1, WriterRecords
    <2>4. QED
      BY <2>1, <2>2, <2>3
  <1>5. CASE Crash
    <2>1. UNCHANGED <<pending, confirmed, orphaned, balances, sent, outstanding, intent>>
      BY <1>5 DEF Crash, StorageRestart, blockKeys, ledgerKeys
    <2>2. QED
      BY <1>2, <2>1
  <1>6. CASE UNCHANGED vars
    <2>1. UNCHANGED <<pending, confirmed, orphaned, balances, sent, outstanding, intent>>
      BY <1>6 DEF vars, storageVars, blockKeys, ledgerKeys
    <2>2. QED
      BY <1>2, <2>1
  <1>7. QED
    BY <1>1, <1>3, <1>4, <1>5, <1>6 DEF Next

(* The ledger starts empty. *)
LEMMA InitRefines ==
  ASSUME ByRound
  PROVE  Init => Ledger!Init
  <1> SUFFICES ASSUME Init PROVE Ledger!Init
    OBVIOUS
  <1>1. /\ balances = Zero /\ sent = Zero /\ ~outstanding
        /\ pending = {} /\ confirmed = {} /\ orphaned = {}
    BY DEF Init, StorageInit
  <1>2. LedgerOpen = {} /\ LedgerConfirmed = {} /\ LedgerOrphaned = {} /\ LedgerOwed = Zero
    BY <1>1 DEF LedgerOpen, LedgerConfirmed, LedgerOrphaned, LedgerOwed, Hashes
  <1>3. ASSUME NEW m PROVE CreditsIn(recorded, m, {}) = 0
    <2>1. CreditsIn(recorded, m, {}) = SumFunctionOnSet([pb \in {} |-> EarnedIn(recorded, pb, m)], {})
      BY DEF CreditsIn, SumFunction
    <2>2. QED
      BY <2>1, SumEmpty
  <1>4. SatToCoin(0) = 0
    BY StorageAssumption DEF SatToCoin
  <1>5. \A b : {pb \in Known : pb.hash = b} = {}
    BY <1>1 DEF Known
  <1>6. LedgerClaim = [b \in Blocks |-> Zero]
    <2>1. \A b, m : SatToCoin(CreditsIn(recorded, m, {pb \in Known : pb.hash = b})) = 0
      BY <1>3, <1>4, <1>5
    <2>2. ClaimIn(recorded, Known) = [b \in Blocks |-> [m \in Miners |-> 0]]
      BY <2>1 DEF ClaimIn
    <2>3. QED
      BY <2>2, ClaimRecorded DEF Zero
  <1>7. QED
    BY <1>1, <1>2, <1>6 DEF Ledger!Init, Ledger!Nothing, Zero

(* What the refinement rests on holds in every reachable state. *)
LEMMA BooksInvariant ==
  ASSUME NamesArePlain, HeightsApart, PaysByBlock
  PROVE  Spec => []BooksInv
  <1>1. Init => AtomicInv
    BY DEF Init, StorageInit, NoIntent, AtomicInv
  <1>2. TypeOK /\ TypeOK' /\ IntentProtocol /\ AtomicInv /\ [Next]_vars => AtomicInv'
    BY NextAtomic
  <1>3. Spec => []AtomicInv
    BY <1>1, <1>2, TypeCorrect, IntentTellsProgress, PTL DEF Spec
  <1>4. TypeOK /\ BlockRecords /\ RoundInv /\ IntentProtocol /\ WalletAgrees /\ CreditInv /\ AtomicInv
        => BooksInv
    BY DEF BooksInv
  <1>5. QED
    BY <1>3, <1>4, TypeCorrect, RecordsConsistent, RoundInvariant, IntentTellsProgress,
       WalletNeverDiverges, CreditInvariant, PTL

(* settle, reconcile and ApplyPayments implement PayoutLedger, in the modes *)
(* that pay by block: whatever fails, crashes or is resumed in between, a   *)
(* payout run is one atomic step, taken once, of a ledger that judges open  *)
(* blocks, credits the claims to those it confirms and pays what is owed.   *)
THEOREM RunsHappenAtOnce ==
  ASSUME NamesArePlain, HeightsApart, PaysByBlock
  PROVE  Spec => RunsAreAtomic
  <1>1. Init => Ledger!Init
    BY InitRefines DEF PaysByBlock
  <1>2. BooksInv /\ BooksInv' /\ [Next]_vars => [Ledger!Next]_(Ledger!vars)
    BY NextRefines DEF PaysByBlock
  <1>3. QED
    BY <1>1, <1>2, BooksInvariant, PTL DEF Spec, RunsAreAtomic, Ledger!Spec

-----------------------------------------------------------------------------
(* Payment per share.                                                      *)

(* What is asked of the pps mode: a rate in whole satoshis, since a run     *)
(* rounds once for all the shares it finds, and a redis that takes every    *)
(* share, since a share that lost its number (putShareNowFails) is never    *)
(* found above the cursor.                                                  *)
PaysByShare ==
  /\ PayMode = "pps"
  /\ Whole(PPSRate)
  /\ "writer" \notin Faults

(* The price of the first c shares, and the log members above c. *)
Priced(r, m, c) == WorkIn(r, m, 1..c) * PPSRate
Above(m, c) == {e \in pplnslog : e.miner = m /\ e.seq > c}

(* Shares are numbered as they are written. *)
Numbered ==
  /\ seq = Len(recorded)
  /\ \A k \in DOMAIN recorded : recorded[k].seq = k

(* The log makes up what is missing to the work of all shares, from the     *)
(* cursor on, and ends with the last share.                                 *)
LogTallies ==
  /\ cursor \in 0..seq
  /\ \A e \in pplnslog : e.seq <= seq
  /\ cursor < seq => \E e \in pplnslog : e.seq = seq
  /\ Cardinality(pplnslog) <= seq
  /\ \A m \in Miners, c \in cursor..seq :
       WorkIn(recorded, m, 1..c) + DiffSum(Above(m, c)) = WorkIn(recorded, m, 1..seq)

(* The books in order: the shares up to the cursor are credited. *)
SharesBooked ==
  \A m \in Miners : /\ balances[m] + payouts[m] = Priced(recorded, m, cursor)
                    /\ Whole(balances[m])

(* An update that credits the shares up to its own cursor. *)
Charges(u) ==
  /\ u.Balances \in [Miners -> Nat]
  /\ u.PPSCursor \in cursor..seq
  /\ \A m \in Miners :
       /\ Whole(u.Balances[m])
       /\ u.Balances[m] + u.Paid[m] + payouts[m] = Priced(recorded, m, u.PPSCursor)

(* A run in progress, by where it stands. *)
TallyOn ==
  /\ pc \in {"pending", "classify", "settle", "intent", "send"} =>
       /\ update.PPSCursor \in cursor..seq
       /\ \A m \in Miners :
            /\ workers[m].Balance = CoinToSat(balances[m])
            /\ Priced(recorded, m, cursor) + SatToCoin(workers[m].Reward) =
                 Priced(recorded, m, update.PPSCursor)
  /\ pc \in {"intent", "send", "stamp", "apply"} => Charges(update)

(* A run left in an intent, which a later one may finish. *)
Chargeable == intent.status # "none" => Charges(intent.update)

(* The inductive invariant of the pps accounts. *)
ShareBooks == LogTallies /\ SharesBooked /\ TallyOn /\ Chargeable
ShareInv == Numbered /\ (CapNeverBit => ShareBooks)

(* One more log member adds its difficulty. *)
LEMMA DiffSumAdd ==
  ASSUME NEW S, IsFiniteSet(S), NEW x, x \notin S, \A e \in S \union {x} : e.diff \in Nat
  PROVE  DiffSum(S \union {x}) = DiffSum(S) + x.diff
  <1> DEFINE T == S \union {x}
             f == [e \in S |-> e.diff]
             g == [e \in T |-> e.diff]
  <1>1. \A e \in S : f[e] = g[e]
    OBVIOUS
  <1>2. \A e \in S \union {x} : g[e] \in Nat
    OBVIOUS
  <1>3. g[x] = x.diff
    OBVIOUS
  <1>4. DiffSum(S) = SumFunctionOnSet(f, S) /\ DiffSum(T) = SumFunctionOnSet(g, T)
    BY DEF DiffSum, SumFunction
  <1> HIDE DEF f, g
  <1>5. SumFunctionOnSet(f, S) = SumFunctionOnSet(g, S)
    BY <1>1, SumSame
  <1>6. SumFunctionOnSet(g, S \union {x}) = SumFunctionOnSet(g, S) + g[x]
    BY <1>2, SumAdd
  <1>7. QED
    BY <1>3, <1>4, <1>5, <1>6

(* The difficulty of log members is a natural number, none of none. *)
LEMMA DiffSumNat ==
  /\ DiffSum({}) = 0
  /\ \A S : IsFiniteSet(S) /\ (\A e \in S : e.diff \in Nat) => DiffSum(S) \in Nat
  <1>1. DiffSum({}) = SumFunctionOnSet([e \in {} |-> e.diff], {})
    BY DEF DiffSum, SumFunction
  <1>2. ASSUME NEW S, IsFiniteSet(S), \A e \in S : e.diff \in Nat
        PROVE  DiffSum(S) \in Nat
    <2> DEFINE f == [e \in S |-> e.diff]
    <2>1. \A e \in S : f[e] \in Nat
      BY <1>2
    <2>2. DiffSum(S) = SumFunctionOnSet(f, S)
      BY DEF DiffSum, SumFunction
    <2> HIDE DEF f
    <2>3. QED
      BY <1>2, <2>1, <2>2, SumNat
  <1>3. QED
    BY <1>1, <1>2, SumEmpty

(* The members above a cursor are finitely many shares. *)
LEMMA AboveFinite ==
  ASSUME TypeOK, NEW m, NEW c
  PROVE  /\ IsFiniteSet(Above(m, c)) /\ \A e \in Above(m, c) : e.diff \in Nat
         /\ DiffSum(Above(m, c)) \in Nat
  <1>1. IsFiniteSet(Above(m, c))
    BY FS_Subset DEF Above, TypeOK, StorageTypeOK
  <1>2. \A e \in Above(m, c) : e.diff \in Nat
    BY StorageAssumption DEF Above, TypeOK, StorageTypeOK, LogEntry
  <1>3. QED
    BY <1>1, <1>2, DiffSumNat

(* The price of shares is a natural number. *)
LEMMA PricedNat ==
  ASSUME TypeOK, NEW m, NEW c \in Nat, c <= Len(recorded)
  PROVE  WorkIn(recorded, m, 1..c) \in Nat /\ Priced(recorded, m, c) \in Nat
  <1>0. IsFiniteSet(1..c)
    BY FS_Interval
  <1>1. \A k \in 1..c : recorded[k].diff \in Nat
    <2>1. recorded \in Seq(Recorded)
      BY DEF TypeOK, StorageTypeOK
    <2>2. \A k \in 1..c : recorded[k] \in Recorded
      BY <2>1
    <2>3. QED
      BY <2>2, StorageAssumption DEF Recorded
  <1>2. WorkIn(recorded, m, 1..c) \in Nat
    BY <1>0, <1>1, WorkNat
  <1>3. QED
    BY <1>2, PaymentsAssumption DEF Priced

(* The rank cap drops nothing from a log that has not reached it. *)
LEMMA CapSpares ==
  ASSUME NEW log, IsFiniteSet(log), \A e \in log : e.seq \in Nat,
         ppsMode \/ Cardinality(log) <= LogCap
  PROVE  Capped(log) = log
  <1>1. CASE ppsMode
    BY <1>1 DEF Capped
  <1>2. CASE ~ppsMode
    <2>1. ASSUME NEW e \in log
          PROVE  Cardinality({x \in log : x.seq > e.seq}) < LogCap
      <3> DEFINE newer == {x \in log : x.seq > e.seq}
      <3>1. newer \subseteq log \ {e}
        OBVIOUS
      <3>2. /\ IsFiniteSet(log \ {e})
            /\ Cardinality(log \ {e}) = Cardinality(log) - 1
        BY FS_RemoveElement
      <3> HIDE DEF newer
      <3>3. Cardinality(newer) <= Cardinality(log \ {e}) /\ IsFiniteSet(newer)
        BY <3>1, <3>2, FS_Subset
      <3>4. Cardinality(newer) \in Nat /\ Cardinality(log) \in Nat
        BY <3>3, FS_CardinalityType
      <3>5. Cardinality(newer) < LogCap
        BY <1>2, <3>2, <3>3, <3>4, StorageAssumption
      <3>6. QED
        BY <3>5 DEF newer
    <2>2. QED
      BY <1>2, <2>1 DEF Capped
  <1>3. QED
    BY <1>1, <1>2

(* What the pps accounts are made of. *)
tallied == <<seq, pplnslog, recorded, balances, payouts, cursor>>

(* A run goes on, or ends, with nothing changed in what it knows. *)
LEMMA TallyGoesOn ==
  ASSUME TallyOn, UNCHANGED <<tallied, workers>>, update'.PPSCursor = update.PPSCursor,
         \/ pc' \in {"down", "idle", "read"}
         \/ pc' = pc /\ (update' = update \/ pc = "classify")
         \/ pc = "pending" /\ pc' = "classify"
         \/ pc = "classify" /\ pc' = "settle"
         \/ pc = "intent" /\ pc' = "send" /\ update' = update
         \/ pc = "send" /\ pc' \in {"stamp", "settle"} /\ update' = update
         \/ pc = "stamp" /\ pc' = "apply" /\ update' = update
  PROVE  TallyOn'
  <1>1. update' = update /\ Charges(update) => Charges(update)'
    BY DEF Charges, tallied
  <1>2. CASE pc' \in {"down", "idle", "read"}
    BY <1>2 DEF TallyOn
  <1>3. CASE pc' = pc /\ (update' = update \/ pc = "classify")
    BY <1>1, <1>3 DEF TallyOn, tallied
  <1>4. CASE \/ (pc = "pending" /\ pc' = "classify")
             \/ (pc = "classify" /\ pc' = "settle")
    BY <1>4 DEF TallyOn, tallied
  <1>5. CASE pc = "intent" /\ pc' = "send" /\ update' = update
    BY <1>1, <1>5 DEF TallyOn, tallied
  <1>6. CASE pc = "send" /\ pc' \in {"stamp", "settle"} /\ update' = update
    BY <1>1, <1>6 DEF TallyOn, tallied
  <1>7. CASE pc = "stamp" /\ pc' = "apply" /\ update' = update
    BY <1>1, <1>7 DEF TallyOn, tallied
  <1>8. QED
    BY <1>2, <1>3, <1>4, <1>5, <1>6, <1>7

(* Steps that touch neither log nor ledger keep the books. *)
LEMMA TalliedKept ==
  ASSUME UNCHANGED tallied, ShareBooks,
         TallyOn',
         intent' = intent \/ intent'.status = "none" \/ Charges(intent'.update)
  PROVE  ShareBooks'
  <1>1. LogTallies' /\ SharesBooked'
    BY DEF ShareBooks, LogTallies, SharesBooked, Above, tallied
  <1>2. Chargeable'
    <2>1. Charges(intent'.update) => Charges(intent.update)'
      BY DEF Charges, tallied
    <2>2. intent' = intent /\ intent.status # "none" => Charges(intent'.update)
      BY DEF ShareBooks, Chargeable
    <2>3. QED
      BY <2>1, <2>2 DEF Chargeable
  <1>3. QED
    BY <1>1, <1>2 DEF ShareBooks

(* processPPS reads the shares above the cursor, all of them, up to the     *)
(* last one written.                                                        *)
LEMMA ReadTallies ==
  ASSUME TypeOK, NamesArePlain, PaysByShare, Numbered, ShareBooks, ReadShares
  PROVE  TallyOn'
  <1>1. /\ UNCHANGED <<tallied, intent>> /\ pc' = "pending"
        /\ workers' = [m \in Miners |-> [Seeded[m] EXCEPT
                   !.Reward = CoinToSat(DiffByMiner(SharesSince(cursor))[m] * PPSRate)]]
        /\ \E maxSeq \in MaxSeq(cursor) : update' = [EmptyUpdate EXCEPT !.PPSCursor = maxSeq]
    BY DEF ReadShares, storageVars, shareKeys, ledgerKeys, tallied
  <1>2. SharesSince(cursor) = {e \in pplnslog : e.seq > cursor}
    BY DEF SharesSince, Readable, NamesArePlain, TypeOK, StorageTypeOK, LogEntry
  <1>3. update'.PPSCursor = seq
    <2>1. PICK maxSeq \in MaxSeq(cursor) : update'.PPSCursor = maxSeq
      BY <1>1 DEF EmptyUpdate
    <2>2. maxSeq = seq
      <3>1. /\ maxSeq \in {cursor} \cup {e.seq : e \in {e \in pplnslog : e.seq > cursor}}
            /\ \A e \in pplnslog : e.seq > cursor => e.seq <= maxSeq
        BY <1>2 DEF MaxSeq
      <3>2. /\ cursor \in 0..seq /\ \A e \in pplnslog : e.seq <= seq
            /\ cursor < seq => \E e \in pplnslog : e.seq = seq
        BY DEF ShareBooks, LogTallies
      <3>3. seq \in Nat /\ \A e \in pplnslog : e.seq \in Nat
        BY DEF TypeOK, StorageTypeOK, LogEntry
      <3>4. maxSeq \in Nat /\ maxSeq <= seq
        BY <3>1, <3>2, <3>3
      <3>5. seq <= maxSeq
        BY <3>1, <3>2, <3>3, <3>4
      <3>6. QED
        BY <3>3, <3>4, <3>5
    <2>3. QED
      BY <2>1, <2>2
  <1>4. ASSUME NEW m \in Miners
        PROVE  /\ workers'[m].Balance = CoinToSat(balances[m])
               /\ Priced(recorded, m, cursor) + SatToCoin(workers'[m].Reward) =
                    Priced(recorded, m, seq)
    <2> DEFINE d == DiffSum(Above(m, cursor))
               v == WorkIn(recorded, m, 1..cursor)
               w == WorkIn(recorded, m, 1..seq)
    <2>1. DiffByMiner(SharesSince(cursor))[m] = d
      <3>1. {e \in SharesSince(cursor) : e.miner = m} = Above(m, cursor)
        BY <1>2 DEF Above
      <3>2. QED
        BY <3>1 DEF DiffByMiner
    <2>2. /\ workers'[m].Balance = CoinToSat(balances[m])
          /\ workers'[m].Reward = CoinToSat(d * PPSRate)
      BY <1>1, <2>1 DEF Seeded
    <2>3. cursor \in Nat /\ seq \in Nat /\ cursor <= seq /\ seq = Len(recorded)
      BY DEF TypeOK, StorageTypeOK, Numbered, ShareBooks, LogTallies
    <2>4. d \in Nat /\ v \in Nat /\ w \in Nat
      BY <2>3, AboveFinite, PricedNat
    <2>5. v + d = w
      BY <2>3 DEF ShareBooks, LogTallies
    <2>6. PICK sat \in Nat : PPSRate = SatToCoin(sat)
      BY DEF PaysByShare, Whole
    <2> HIDE DEF d, v, w
    <2>7. d * PPSRate = SatToCoin(d * sat) /\ d * sat \in Nat
      BY <2>4, <2>6, StorageAssumption DEF SatToCoin
    <2>8. SatToCoin(CoinToSat(d * PPSRate)) = d * PPSRate
      BY <2>7, RoundTrip
    <2>9. v * PPSRate + d * PPSRate = w * PPSRate
      BY <2>4, <2>5, PaymentsAssumption
    <2>10. Priced(recorded, m, cursor) = v * PPSRate /\ Priced(recorded, m, seq) = w * PPSRate
      BY DEF Priced, v, w
    <2>11. QED
      BY <2>2, <2>8, <2>9, <2>10
  <1>5. update'.PPSCursor \in cursor'..seq'
    BY <1>1, <1>3 DEF ShareBooks, LogTallies, TypeOK, StorageTypeOK, tallied
  <1>6. QED
    BY <1>1, <1>3, <1>4, <1>5 DEF TallyOn, tallied

(* settle writes and sends, between them, what was carried over and what    *)
(* the shares read are worth.                                               *)
LEMMA SettleTallies ==
  ASSUME TypeOK, TypeOK', Numbered, ShareBooks, NEW lost, Settle(lost)
  PROVE  TallyOn'
  <1>1. UNCHANGED <<tallied, workers>> /\ pc = "settle" /\ pc' \in {"apply", "intent"}
    BY DEF Settle, storageVars, shareKeys, ledgerKeys, tallied
  <1>2. update'.PPSCursor = update.PPSCursor
    BY DEF Settle, TypeOK, PaymentUpdate
  <1>3. /\ update.PPSCursor \in cursor..seq
        /\ \A m \in Miners :
             /\ workers[m].Balance = CoinToSat(balances[m])
             /\ Priced(recorded, m, cursor) + SatToCoin(workers[m].Reward) =
                  Priced(recorded, m, update.PPSCursor)
    BY <1>1 DEF ShareBooks, TallyOn
  <1>4. ASSUME NEW m \in Miners
        PROVE  /\ update'.Balances[m] \in Nat
               /\ Whole(update'.Balances[m])
               /\ update'.Balances[m] + update'.Paid[m] + payouts[m] =
                    Priced(recorded, m, update.PPSCursor)
    <2>1. balances[m] + payouts[m] = Priced(recorded, m, cursor) /\ Whole(balances[m])
      BY DEF ShareBooks, SharesBooked
    <2>2. /\ update'.Balances[m] \in Nat
          /\ Whole(update'.Balances[m])
          /\ update'.Balances[m] + update'.Paid[m] = balances[m] + SatToCoin(workers[m].Reward)
      BY <1>3, <2>1, SettleExact
    <2>3. balances[m] \in Nat /\ payouts[m] \in Nat /\ update'.Paid[m] \in Nat
      BY DEF TypeOK, StorageTypeOK, PaymentUpdate
    <2>4. SatToCoin(workers[m].Reward) \in Nat
      BY SatToCoinNat DEF TypeOK, Worker
    <2>5. Priced(recorded, m, cursor) + SatToCoin(workers[m].Reward) =
            Priced(recorded, m, update.PPSCursor)
      BY <1>3
    <2>6. QED
      BY <2>1, <2>2, <2>3, <2>4, <2>5
  <1>5. update'.Balances \in [Miners -> Nat]
    <2>1. update'.Balances = [m \in Miners |-> update'.Balances[m]]
      BY DEF Settle, TypeOK, PaymentUpdate
    <2>2. QED
      BY <1>4, <2>1
  <1>6. Charges(update)'
    BY <1>1, <1>2, <1>3, <1>4, <1>5 DEF Charges, tallied
  <1>7. QED
    BY <1>1, <1>2, <1>3, <1>6 DEF TallyOn, tallied

(* ApplyPayments moves the cursor over the shares it has credited, and      *)
(* takes them out of the log.                                               *)
LEMMA ApplyTallies ==
  ASSUME TypeOK, TypeOK', ShareBooks, NEW u, u \in PaymentUpdate,
         ApplyPayments(u), Charges(u), pc' \in {"idle", "read"}
  PROVE  ShareBooks'
  <1>1. /\ balances' = IF u.Balances = <<>> THEN balances ELSE u.Balances
        /\ payouts' = [m \in Miners |-> payouts[m] + u.Paid[m]]
        /\ cursor' = IF u.PPSCursor > 0 THEN u.PPSCursor ELSE cursor
        /\ pplnslog' = IF u.PPSCursor > 0 THEN {e \in pplnslog : e.seq > u.PPSCursor} ELSE pplnslog
        /\ intent' = NoIntent /\ recorded' = recorded /\ seq' = seq
    BY DEF ApplyPayments
  <1>2. /\ cursor \in Nat /\ seq \in Nat /\ cursor \in 0..seq /\ u.PPSCursor \in cursor..seq
        /\ \A e \in pplnslog : e.seq \in Nat
    BY DEF TypeOK, StorageTypeOK, LogEntry, ShareBooks, LogTallies, Charges
  <1>3. cursor' = u.PPSCursor
    BY <1>1, <1>2
  <1>4. pplnslog' \subseteq pplnslog /\ \A e \in pplnslog : e.seq > cursor' => e \in pplnslog'
    BY <1>1, <1>2, <1>3
  <1>5. Cardinality(pplnslog') <= seq'
    <2>1. IsFiniteSet(pplnslog)
      BY DEF TypeOK, StorageTypeOK
    <2>2. IsFiniteSet(pplnslog') /\ Cardinality(pplnslog') <= Cardinality(pplnslog)
      BY <1>4, <2>1, FS_Subset
    <2>3. Cardinality(pplnslog') \in Nat /\ Cardinality(pplnslog) \in Nat
      BY <2>1, <2>2, FS_CardinalityType
    <2>4. QED
      BY <1>1, <1>2, <2>2, <2>3 DEF ShareBooks, LogTallies
  <1>6. ASSUME NEW m \in Miners, NEW c \in cursor'..seq'
        PROVE  WorkIn(recorded', m, 1..c) + DiffSum({e \in pplnslog' : e.miner = m /\ e.seq > c})
                 = WorkIn(recorded', m, 1..seq')
    <2>1. c \in cursor..seq
      BY <1>1, <1>2, <1>3
    <2>2. {e \in pplnslog' : e.miner = m /\ e.seq > c} = Above(m, c)
      BY <1>2, <1>3, <1>4, <2>1 DEF Above
    <2>3. QED
      BY <1>1, <2>1, <2>2 DEF ShareBooks, LogTallies
  <1>7. LogTallies'
    <2>1. cursor' \in 0..seq' /\ \A e \in pplnslog' : e.seq <= seq'
      BY <1>1, <1>2, <1>3, <1>4 DEF ShareBooks, LogTallies
    <2>2. cursor' < seq' => \E e \in pplnslog' : e.seq = seq'
      BY <1>1, <1>2, <1>3, <1>4 DEF ShareBooks, LogTallies
    <2>3. QED
      BY <1>5, <1>6, <2>1, <2>2 DEF LogTallies, Above
  <1>8. ASSUME NEW m \in Miners
        PROVE  balances'[m] + payouts'[m] = Priced(recorded', m, cursor') /\ Whole(balances'[m])
    <2>1. u.Balances # <<>>
      <3>1. m \in DOMAIN u.Balances
        BY DEF Charges
      <3>2. DOMAIN <<>> = {}
        OBVIOUS
      <3>3. QED
        BY <3>1, <3>2
    <2>2. balances'[m] = u.Balances[m] /\ payouts'[m] = payouts[m] + u.Paid[m]
      BY <1>1, <2>1
    <2>3. u.Balances[m] \in Nat /\ payouts[m] \in Nat /\ u.Paid[m] \in Nat
      BY DEF Charges, TypeOK, StorageTypeOK, PaymentUpdate
    <2>4. /\ Whole(u.Balances[m])
          /\ u.Balances[m] + u.Paid[m] + payouts[m] = Priced(recorded, m, u.PPSCursor)
      BY DEF Charges
    <2>5. Priced(recorded', m, cursor') = Priced(recorded, m, u.PPSCursor)
      BY <1>1, <1>3
    <2>6. QED
      BY <2>2, <2>3, <2>4, <2>5
  <1>9. SharesBooked'
    BY <1>8 DEF SharesBooked, Whole
  <1>10. TallyOn' /\ Chargeable'
    BY <1>1 DEF TallyOn, Chargeable, NoIntent
  <1>11. QED
    BY <1>7, <1>9, <1>10 DEF ShareBooks

(* Reading, classifying and settling write nothing to redis. *)
LEMMA ReadSideTallies ==
  ASSUME TypeOK, TypeOK', NamesArePlain, PaysByShare, Numbered, ShareBooks,
         \/ ReadPending \/ ReadShares \/ ReadPPSPending \/ Classify \/ Classification
         \/ SettleAnswered \/ SettleUnanswered \/ ReadFails
         \/ (\E pb \in todo : ClassifyFails(pb)) \/ (\E pb \in todo : GetBlockErrs(pb))
  PROVE  ShareBooks'
  <1>1. UNCHANGED storageVars
    BY DEF ReadPending, ReadShares, ReadPPSPending, Classify, ClassifyBlock, Classification,
           SettleAnswered, SettleUnanswered, Settle, ReadFails, ClassifyFails, GetBlockErrs
  <1>2. UNCHANGED <<tallied, intent>> /\ TallyOn
    BY <1>1 DEF storageVars, shareKeys, ledgerKeys, tallied, ShareBooks
  <1>3. ~ReadPending
    BY DEF ReadPending, PaysByShare
  <1>4. ReadPPSPending => TallyOn'
    BY <1>2, TallyGoesOn DEF ReadPPSPending
  <1>5. ASSUME NEW pb \in todo, ClassifyBlock(pb) PROVE TallyOn'
    <2>1. pc = "classify" /\ pc' = pc /\ UNCHANGED workers
      BY <1>5 DEF ClassifyBlock, PaysByShare
    <2>2. update'.PPSCursor = update.PPSCursor
      BY <1>5 DEF ClassifyBlock, Orphan, Confirm, TypeOK, PaymentUpdate
    <2>3. QED
      BY <1>2, <2>1, <2>2, TallyGoesOn
  <1>6. Classification => TallyOn'
    BY <1>2, TallyGoesOn DEF Classification, PaysByShare
  <1>7. ReadFails => TallyOn'
    BY DEF ReadFails, TallyOn
  <1>8. (\E pb \in todo : ClassifyFails(pb)) => TallyOn'
    BY <1>2, TallyGoesOn DEF ClassifyFails
  <1>8b. ASSUME NEW pb \in todo, GetBlockErrs(pb) PROVE TallyOn'
    <2>1. pc = "classify" /\ pc' = pc /\ UNCHANGED workers
      BY <1>8b DEF GetBlockErrs
    <2>2. update'.PPSCursor = update.PPSCursor
      BY <1>8b DEF GetBlockErrs, Orphan, TypeOK, PaymentUpdate
    <2>3. QED
      BY <1>2, <2>1, <2>2, TallyGoesOn
  <1>9. TallyOn'
    BY <1>3, <1>4, <1>5, <1>6, <1>7, <1>8, <1>8b, ReadTallies, SettleTallies
       DEF Classify, SettleAnswered, SettleUnanswered
  <1>10. QED
    BY <1>2, <1>9, TalliedKept

(* Sending changes nothing in redis but the intent, which then holds the    *)
(* update in hand.                                                          *)
LEMMA SendSideTallies ==
  ASSUME TypeOK, IntentProtocol, ShareBooks,
         \/ PutIntent \/ SendMany \/ StampTxid
         \/ SendManyUnanswered \/ SendManyInsufficient \/ SendManyRejected
         \/ (WriteFails /\ ~ApplyPayments(update))
  PROVE  ShareBooks'
  <1>1. UNCHANGED <<workers, update>>
    BY DEF PutIntent, SendMany, StampTxid, SendManyUnanswered, SendManyInsufficient,
           SendManyRejected, WriteFails, settleFrame, runVars
  <1>2. \/ UNCHANGED storageVars
        \/ PutPayoutIntent(update) /\ pc = "intent"
        \/ SetPayoutIntentTxid /\ pc = "stamp"
        \/ DelPayoutIntent
    BY DEF PutIntent, SendMany, StampTxid, SendManyUnanswered, SendManyInsufficient,
           SendManyRejected, WriteFails, TryDelete
  <1>3. UNCHANGED tallied
    BY <1>2 DEF PutPayoutIntent, SetPayoutIntentTxid, DelPayoutIntent, IntentOnly, storageVars,
                shareKeys, ledgerKeys, tallied
  <1>4. \/ pc' = "idle"
        \/ pc = "intent" /\ pc' = "send"
        \/ pc = "send" /\ pc' \in {"stamp", "settle"}
        \/ pc = "stamp" /\ pc' = "apply"
    BY DEF PutIntent, SendMany, StampTxid, SendManyUnanswered, SendManyInsufficient,
           SendManyRejected, WriteFails
  <1>5. TallyOn'
    BY <1>1, <1>3, <1>4, TallyGoesOn DEF ShareBooks
  <1>6. intent' = intent \/ intent'.status = "none" \/ Charges(intent'.update)
    <2>1. CASE UNCHANGED storageVars \/ DelPayoutIntent
      BY <2>1 DEF storageVars, DelPayoutIntent, NoIntent
    <2>2. CASE PutPayoutIntent(update) /\ pc = "intent"
      BY <2>2 DEF PutPayoutIntent, ShareBooks, TallyOn
    <2>3. CASE SetPayoutIntentTxid /\ pc = "stamp"
      BY <2>3 DEF SetPayoutIntentTxid, ShareBooks, Chargeable, IntentProtocol
    <2>4. QED
      BY <1>2, <2>1, <2>2, <2>3
  <1>7. QED
    BY <1>3, <1>5, <1>6, TalliedKept

(* The payer keeps its pps books. *)
LEMMA PayerTallies ==
  ASSUME TypeOK, TypeOK', NamesArePlain, PaysByShare, IntentProtocol, Numbered, ShareBooks,
         PayerStep \/ PayerFailure
  PROVE  ShareBooks'
  <1>1. CASE PaymentInit
    <2>1. UNCHANGED <<tallied, intent>> /\ pc' = "idle"
      BY <1>1 DEF PaymentInit, shareKeys, ledgerKeys, tallied
    <2>2. QED
      BY <2>1, TalliedKept DEF TallyOn
  <1>2. CASE Reconcile
    <2>1. pc' \in {"idle", "read"}
      BY <1>2 DEF Reconcile
    <2>2. CASE UNCHANGED storageVars
      <3>1. UNCHANGED <<tallied, intent>>
        BY <2>2 DEF storageVars, shareKeys, ledgerKeys, tallied
      <3>2. QED
        BY <2>1, <3>1, TalliedKept DEF TallyOn
    <2>3. CASE intent.status = "stamped" /\ ApplyPayments(intent.update)
      <3>1. Charges(intent.update)
        BY <2>3 DEF ShareBooks, Chargeable
      <3>2. intent.update \in PaymentUpdate
        BY DEF TypeOK, StorageTypeOK, PayoutIntent
      <3>3. QED
        BY <2>1, <2>3, <3>1, <3>2, ApplyTallies
    <2>4. QED
      BY <1>2, <2>2, <2>3 DEF Reconcile
  <1>3. CASE Apply \/ (WriteFails /\ ApplyPayments(update))
    <2>1. ApplyPayments(update) /\ pc' = "idle" /\ pc \in {"intent", "stamp", "apply"}
      BY <1>3 DEF Apply, WriteFails
    <2>2. Charges(update)
      BY <2>1 DEF ShareBooks, TallyOn
    <2>3. update \in PaymentUpdate
      BY DEF TypeOK
    <2>4. QED
      BY <2>1, <2>2, <2>3, ApplyTallies
  <1>4. CASE \/ ReadPending \/ ReadShares \/ ReadPPSPending \/ Classify \/ Classification
             \/ SettleAnswered \/ SettleUnanswered \/ ReadFails
             \/ (\E pb \in todo : ClassifyFails(pb)) \/ (\E pb \in todo : GetBlockErrs(pb))
    BY <1>4, ReadSideTallies
  <1>5. CASE \/ PutIntent \/ SendMany \/ StampTxid
             \/ SendManyUnanswered \/ SendManyInsufficient \/ SendManyRejected
             \/ (WriteFails /\ ~ApplyPayments(update))
    BY <1>5, SendSideTallies
  <1>6. CASE PayerStep
    BY <1>1, <1>2, <1>3, <1>4, <1>5, <1>6 DEF PayerStep
  <1>7. CASE PayerFailure
    <2>1. CASE WriteFails
      BY <1>3, <1>5, <2>1
    <2>2. QED
      BY <1>4, <1>5, <1>7, <2>1 DEF PayerFailure
  <1>8. QED
    BY <1>6, <1>7

(* The payer numbers no shares and writes no history. *)
LEMMA PayerSeq ==
  ASSUME PayerStep \/ PayerFailure
  PROVE  UNCHANGED <<seq, recorded>>
  <1>1. UNCHANGED storageVars => UNCHANGED <<seq, recorded>>
    BY DEF storageVars, shareKeys
  <1>2. \A u : ApplyPayments(u) => UNCHANGED <<seq, recorded>>
    BY DEF ApplyPayments
  <1>3. \A u : PutPayoutIntent(u) \/ SetPayoutIntentTxid \/ DelPayoutIntent
               => UNCHANGED <<seq, recorded>>
    BY DEF PutPayoutIntent, SetPayoutIntentTxid, DelPayoutIntent, IntentOnly, shareKeys
  <1>4. CASE PayerStep
    <2>1. PaymentInit => UNCHANGED <<seq, recorded>>
      BY DEF PaymentInit, shareKeys
    <2>2. QED
      BY <1>1, <1>2, <1>3, <1>4, <2>1
         DEF PayerStep, Reconcile, ReadPending, ReadShares, ReadPPSPending, Classify, ClassifyBlock,
             Classification, SettleAnswered, Settle, PutIntent, SendMany, StampTxid, Apply
  <1>5. CASE PayerFailure
    BY <1>1, <1>2, <1>3, <1>5
       DEF PayerFailure, ClassifyFails, GetBlockErrs, ReadFails, SettleUnanswered, Settle, SendManyUnanswered,
           SendManyInsufficient, SendManyRejected, WriteFails, TryDelete
  <1>6. QED
    BY <1>4, <1>5

(* The writer numbers the share it takes, and writes it to the log and to   *)
(* the history alike.                                                       *)
LEMMA WriterTallies ==
  ASSUME TypeOK, TypeOK', ShareInv, ShareWriter
  PROVE  ShareInv'
  <1>1. UNCHANGED <<balances, payouts, cursor, intent, pc, update, workers>>
    BY DEF ShareWriter, putShareNow, WriteShare, payerAndEnv, runVars, ledgerKeys
  <1>2. CASE UNCHANGED <<seq, pplnslog, recorded>>
    <2>1. UNCHANGED <<tallied, intent, workers, update, pc>>
      BY <1>1, <1>2 DEF tallied
    <2>2. Numbered'
      BY <1>2 DEF ShareInv, Numbered
    <2>3. CapNeverBit' => CapNeverBit
      BY <1>2 DEF CapNeverBit
    <2>4. ShareBooks => ShareBooks'
      BY <2>1, TallyGoesOn, TalliedKept DEF ShareBooks
    <2>5. QED
      BY <2>2, <2>3, <2>4 DEF ShareInv
  <1>3. CASE Head(queue).valid /\ queue # <<>> /\ seq' = seq + 1
             /\ WriteShare(Head(queue), seq + 1, 4)
    <2> DEFINE s == Head(queue)
               n == seq + 1
               e == [miner |-> s.miner, diff |-> s.diff, seq |-> n]
               rec == [miner |-> s.miner, diff |-> s.diff, seq |-> n,
                       seal |-> IF Seals(s) THEN s.block ELSE NoBlock, capped |-> ~ppsMode]
    <2>1. s \in Share /\ seq \in Nat
      BY <1>3 DEF TypeOK, StorageTypeOK
    <2>2. /\ pplnslog' = Capped(pplnslog \union {e})
          /\ recorded' = Append(recorded, rec)
      BY <1>3 DEF WriteShare
    <2>3. recorded \in Seq(Recorded) /\ seq = Len(recorded)
      BY DEF TypeOK, StorageTypeOK, ShareInv, Numbered
    <2> HIDE DEF rec
    <2>4. /\ Len(recorded') = n /\ recorded'[n] = rec
          /\ \A k \in 1..seq : recorded'[k] = recorded[k]
          /\ DOMAIN recorded = 1..seq /\ DOMAIN recorded' = 1..n
      BY <2>1, <2>2, <2>3
    <2>5. Numbered'
      <3>1. rec.seq = n
        BY DEF rec
      <3>2. \A k \in 1..seq : recorded[k].seq = k
        BY <2>4 DEF ShareInv, Numbered
      <3>3. \A k \in 1..n : k \in 1..seq \/ k = n
        BY <2>1
      <3>4. QED
        BY <1>3, <2>4, <3>1, <3>2, <3>3 DEF Numbered
    <2>6. SUFFICES ASSUME CapNeverBit' PROVE ShareBooks'
      BY <2>5 DEF ShareInv
    <2>7. CapNeverBit
      <3>1. \A k \in 1..seq : k \in 1..n
        BY <2>1
      <3>2. QED
        BY <2>4, <2>6, <3>1 DEF CapNeverBit
    <2>8. ppsMode \/ n <= LogCap
      <3>1. rec.capped = ~ppsMode
        BY DEF rec
      <3>2. n \in 1..n
        BY <2>1
      <3>3. QED
        BY <2>4, <2>6, <3>1, <3>2 DEF CapNeverBit
    <2>9. ShareBooks
      BY <2>7 DEF ShareInv
    <2>10. \A x \in pplnslog : x.seq \in Nat /\ x.seq <= seq /\ x # e
      BY <2>1, <2>9 DEF TypeOK, StorageTypeOK, LogEntry, ShareBooks, LogTallies
    <2>11. /\ IsFiniteSet(pplnslog \union {e})
           /\ Cardinality(pplnslog \union {e}) = Cardinality(pplnslog) + 1
           /\ Cardinality(pplnslog) \in Nat /\ Cardinality(pplnslog) <= seq
      <3>1. IsFiniteSet(pplnslog) /\ e \notin pplnslog
        BY <2>10 DEF TypeOK, StorageTypeOK
      <3>2. QED
        BY <2>9, <3>1, FS_AddElement, FS_CardinalityType DEF ShareBooks, LogTallies
    <2>12. pplnslog' = pplnslog \union {e}
      <3>1. \A x \in pplnslog \union {e} : x.seq \in Nat
        BY <2>1, <2>10
      <3>2. ppsMode \/ Cardinality(pplnslog \union {e}) <= LogCap
        BY <2>1, <2>8, <2>11, StorageAssumption
      <3>3. QED
        BY <2>2, <2>11, <3>1, <3>2, CapSpares
    <2>13. \A m, c : c \in 0..seq => WorkIn(recorded', m, 1..c) = WorkIn(recorded, m, 1..c)
      <3>1. ASSUME NEW m, NEW c \in 0..seq
            PROVE  WorkIn(recorded', m, 1..c) = WorkIn(recorded, m, 1..c)
        <4>1. \A k \in 1..c : recorded'[k] = recorded[k]
          BY <2>1, <2>4
        <4>2. QED
          BY <4>1, WorkSame
      <3>2. QED
        BY <3>1
    <2>14. \A m, c : c \in 0..seq => Priced(recorded', m, c) = Priced(recorded, m, c)
      BY <2>13 DEF Priced
    <2>15. s.diff \in Nat /\ e.diff = s.diff /\ e.miner = s.miner /\ e.seq = n
      BY <2>1, StorageAssumption DEF Share
    <2>16. ASSUME NEW m \in Miners
           PROVE  WorkIn(recorded', m, 1..n) =
                    IF s.miner = m THEN WorkIn(recorded, m, 1..seq) + s.diff
                    ELSE WorkIn(recorded, m, 1..seq)
      <3>1. IsFiniteSet(1..seq) /\ n \notin 1..seq /\ (1..seq) \union {n} = 1..n
        BY <2>1, FS_Interval
      <3>2. \A k \in (1..seq) \union {n} : recorded'[k].diff \in Nat
        <4>1. \A k \in 1..n : recorded'[k] \in Recorded
          BY <2>4 DEF TypeOK, StorageTypeOK
        <4>2. QED
          BY <3>1, <4>1, StorageAssumption DEF Recorded
      <3>3. WorkIn(recorded', m, (1..seq) \union {n}) =
              IF recorded'[n].miner = m THEN WorkIn(recorded', m, 1..seq) + recorded'[n].diff
              ELSE WorkIn(recorded', m, 1..seq)
        <4> DEFINE K == 1..seq
        <4>1. IsFiniteSet(K) /\ n \notin K /\ \A k \in K \union {n} : recorded'[k].diff \in Nat
          BY <3>1, <3>2
        <4> HIDE DEF K, n
        <4>2. WorkIn(recorded', m, K \union {n}) =
                IF recorded'[n].miner = m THEN WorkIn(recorded', m, K) + recorded'[n].diff
                ELSE WorkIn(recorded', m, K)
          BY <4>1, WorkAdd
        <4>3. QED
          BY <4>2 DEF K
      <3>4. recorded'[n].miner = s.miner /\ recorded'[n].diff = s.diff
        BY <2>4 DEF rec
      <3>5. WorkIn(recorded', m, 1..seq) = WorkIn(recorded, m, 1..seq)
        BY <2>1, <2>13
      <3>6. QED
        BY <3>1, <3>3, <3>4, <3>5
    <2> DEFINE AboveNew(m, c) == {x \in pplnslog' : x.miner = m /\ x.seq > c}
    <2>17. ASSUME NEW m \in Miners, NEW c \in cursor'..seq'
           PROVE  WorkIn(recorded', m, 1..c) + DiffSum(AboveNew(m, c)) =
                    WorkIn(recorded', m, 1..seq')
      <3>1. c \in cursor..n /\ cursor \in 0..seq /\ seq' = n /\ c \in Nat
        BY <1>1, <1>3, <2>1, <2>9 DEF ShareBooks, LogTallies
      <3>2. CASE c = n
        <4>1. AboveNew(m, c) = {}
          BY <2>1, <2>10, <2>12, <2>15, <3>2
        <4>2. WorkIn(recorded', m, 1..n) \in Nat
          <5>1. n \in Nat /\ n <= Len(recorded')
            BY <2>1, <2>4
          <5>2. \A k \in 1..n : recorded'[k] \in Recorded
            BY <2>4 DEF TypeOK, StorageTypeOK
          <5>3. \A k \in 1..n : recorded'[k].diff \in Nat
            BY <5>2, StorageAssumption DEF Recorded
          <5>4. IsFiniteSet(1..n)
            BY <5>1, FS_Interval
          <5>5. QED
            BY <5>3, <5>4, WorkNat
        <4>3. DiffSum(AboveNew(m, c)) = 0
          BY <4>1, DiffSumNat
        <4>4. WorkIn(recorded', m, 1..c) = WorkIn(recorded', m, 1..n)
          BY <3>2
        <4>5. WorkIn(recorded', m, 1..seq') = WorkIn(recorded', m, 1..n)
          BY <3>1
        <4> HIDE DEF AboveNew, n
        <4>6. QED
          BY <4>2, <4>3, <4>4, <4>5
      <3>3. CASE c <= seq
        <4> DEFINE v == WorkIn(recorded, m, 1..c)
                   w == WorkIn(recorded, m, 1..seq)
                   d == DiffSum(Above(m, c))
        <4>1. c \in cursor..seq /\ c \in 0..seq
          BY <2>1, <3>1, <3>3
        <4>2. v + d = w /\ WorkIn(recorded', m, 1..c) = v
          BY <2>9, <2>13, <4>1 DEF ShareBooks, LogTallies
        <4>3. v \in Nat /\ w \in Nat /\ d \in Nat
          BY <2>1, <2>3, <3>1, <3>3, PricedNat, AboveFinite
        <4>4. CASE s.miner = m
          <5>1. AboveNew(m, c) = Above(m, c) \union {e} /\ e \notin Above(m, c)
            BY <2>1, <2>10, <2>12, <2>15, <3>3, <4>4 DEF Above
          <5>2. \A x \in Above(m, c) \union {e} : x.diff \in Nat
            BY <2>15, AboveFinite
          <5>3. IsFiniteSet(Above(m, c))
            BY AboveFinite
          <5>4. DiffSum(Above(m, c) \union {e}) = DiffSum(Above(m, c)) + e.diff
            BY <5>1, <5>2, <5>3, DiffSumAdd
          <5>5. WorkIn(recorded', m, 1..n) = w + s.diff
            BY <2>16, <4>4
          <5> HIDE DEF v, w
          <5>6. v + (d + s.diff) = w + s.diff
            BY <2>15, <4>2, <4>3
          <5>7. QED
            BY <2>15, <3>1, <4>2, <5>1, <5>4, <5>5, <5>6
        <4>5. CASE s.miner # m
          <5>1. AboveNew(m, c) = Above(m, c)
            BY <2>12, <2>15, <4>5 DEF Above
          <5>2. QED
            BY <2>16, <3>1, <4>2, <4>5, <5>1
        <4>6. QED
          BY <4>4, <4>5
      <3>4. QED
        BY <2>1, <3>1, <3>2, <3>3
    <2>18. LogTallies'
      <3>1. cursor' \in 0..seq'
        BY <1>1, <1>3, <2>1, <2>9 DEF ShareBooks, LogTallies
      <3>2. \A x \in pplnslog' : x.seq <= seq'
        BY <1>3, <2>1, <2>10, <2>12, <2>15
      <3>3. \E x \in pplnslog' : x.seq = seq'
        BY <1>3, <2>12, <2>15
      <3>4. Cardinality(pplnslog') <= seq'
        BY <1>3, <2>1, <2>11, <2>12
      <3>5. QED
        BY <2>17, <3>1, <3>2, <3>3, <3>4 DEF LogTallies, Above
    <2>19. cursor \in 0..seq /\ cursor..seq \subseteq 0..seq /\ cursor..seq \subseteq cursor'..seq'
      BY <1>1, <1>3, <2>1, <2>9 DEF ShareBooks, LogTallies
    <2>20. SharesBooked'
      BY <1>1, <2>9, <2>14, <2>19 DEF ShareBooks, SharesBooked, Whole
    <2>21. ASSUME NEW u, Charges(u)
           PROVE  /\ u.Balances \in [Miners -> Nat]
                  /\ u.PPSCursor \in cursor'..seq'
                  /\ \A m \in Miners :
                       /\ Whole(u.Balances[m])
                       /\ u.Balances[m] + u.Paid[m] + payouts'[m] =
                            Priced(recorded', m, u.PPSCursor)
      BY <1>1, <2>14, <2>19, <2>21 DEF Charges
    <2>22. TallyOn'
      <3>1. Charges(update) => Charges(update)'
        BY <1>1, <2>21 DEF Charges
      <3>2. QED
        BY <1>1, <2>9, <2>14, <2>19, <3>1 DEF ShareBooks, TallyOn
    <2>23. Chargeable'
      <3>1. Charges(intent.update) => Charges(intent.update)'
        BY <1>1, <2>21 DEF Charges
      <3>2. QED
        BY <1>1, <2>9, <3>1 DEF ShareBooks, Chargeable
    <2>24. QED
      BY <2>18, <2>20, <2>22, <2>23 DEF ShareBooks
  <1>4. QED
    BY <1>2, <1>3 DEF ShareWriter, putShareNow, shareKeys

(* ShareInv is inductive, given the types and the intent protocol. *)
LEMMA NextTallies ==
  ASSUME TypeOK, TypeOK', NamesArePlain, PaysByShare, IntentProtocol, ShareInv, [Next]_vars
  PROVE  ShareInv'
  <1>1. ASSUME UNCHANGED <<seq, recorded>>, ShareBooks => ShareBooks'
        PROVE  ShareInv'
    BY <1>1 DEF ShareInv, Numbered, CapNeverBit
  <1>2. ASSUME UNCHANGED tallied, intent' = intent \/ intent'.status = "none",
               UNCHANGED <<pc, update, workers>> \/ pc' = "down"
        PROVE  ShareInv'
    <2>1. TallyOn => TallyOn'
      BY <1>2, TallyGoesOn DEF TallyOn
    <2>2. QED
      BY <1>1, <1>2, <2>1, TalliedKept DEF ShareBooks, tallied
  <1>3. CASE PayerStep \/ PayerFailure
    <2>1. UNCHANGED <<seq, recorded>>
      BY <1>3, PayerSeq
    <2>2. ShareBooks => ShareBooks'
      BY <1>3, PayerTallies DEF ShareInv
    <2>3. QED
      BY <1>1, <2>1, <2>2
  <1>4. CASE Environment
    <2>1. \A share \in Shares : ProcessShare(share) =>
            UNCHANGED <<tallied, intent, pc, update, workers>>
      BY DEF ProcessShare, shareKeys, ledgerKeys, runVars, tallied
    <2>2. UNCHANGED storageVars => UNCHANGED <<tallied, intent>>
      BY DEF storageVars, shareKeys, ledgerKeys, tallied
    <2>3. \A b \in Blocks, status \in {"young", "mature", "off"} : ChainStep(b, status) =>
            UNCHANGED <<storageVars, pc, update, workers>>
      BY DEF ChainStep, runVars
    <2>4. \A b \in Blocks : WalletSync(b) => UNCHANGED <<storageVars, pc, update, workers>>
      BY DEF WalletSync, runVars
    <2>5. OperatorClears =>
            UNCHANGED <<tallied, pc, update, workers>> /\ intent'.status = "none"
      BY DEF OperatorClears, DelPayoutIntent, NoIntent, IntentOnly, shareKeys, ledgerKeys,
             settleFrame, runVars, tallied
    <2>6. QED
      BY <1>2, <1>4, <2>1, <2>2, <2>3, <2>4, <2>5 DEF Environment
  <1>5. CASE ShareWriter
    BY <1>5, WriterTallies
  <1>6. ~ShareWriterFails
    BY DEF ShareWriterFails, Fault, PaysByShare
  <1>7. CASE Crash
    <2>1. UNCHANGED <<tallied, intent>> /\ pc' = "down"
      BY <1>7 DEF Crash, StorageRestart, shareKeys, ledgerKeys, tallied
    <2>2. QED
      BY <1>2, <2>1
  <1>8. CASE UNCHANGED vars
    <2>1. UNCHANGED <<tallied, intent, pc, update, workers>>
      BY <1>8 DEF vars, storageVars, shareKeys, ledgerKeys, runVars, tallied
    <2>2. QED
      BY <1>2, <2>1
  <1>9. QED
    BY <1>3, <1>4, <1>5, <1>6, <1>7, <1>8 DEF Next

(* Nothing is recorded, logged or owed at the start. *)
LEMMA InitTallies == Init => ShareInv
  <1> SUFFICES ASSUME Init PROVE ShareInv
    OBVIOUS
  <1>1. /\ balances = Zero /\ payouts = Zero /\ pc = "down" /\ intent.status = "none"
        /\ seq = 0 /\ cursor = 0 /\ recorded = <<>> /\ pplnslog = {}
    BY DEF Init, StorageInit, NoIntent
  <1>2. \A m : WorkIn(recorded, m, 1..0) = 0
    <2>1. 1..0 = {}
      OBVIOUS
    <2>2. QED
      BY <2>1, NoWork
  <1>3. Numbered
    BY <1>1 DEF Numbered
  <1>4. LogTallies
    <2>1. Cardinality(pplnslog) = 0
      BY <1>1, FS_EmptySet
    <2>2. \A m, c : Above(m, c) = {}
      BY <1>1 DEF Above
    <2>3. \A m, c : DiffSum(Above(m, c)) = 0
      BY <2>2, DiffSumNat
    <2>4. ASSUME NEW m \in Miners, NEW c \in cursor..seq
          PROVE  WorkIn(recorded, m, 1..c) + DiffSum(Above(m, c)) = WorkIn(recorded, m, 1..seq)
      <3>1. c = 0
        BY <1>1
      <3>2. QED
        BY <1>1, <1>2, <2>3, <3>1
    <2>5. QED
      BY <1>1, <2>1, <2>4 DEF LogTallies
  <1>5. SharesBooked
    <2>1. \A m : Priced(recorded, m, 0) = 0
      BY <1>2, PaymentsAssumption DEF Priced
    <2>2. Whole(0)
      BY StorageAssumption DEF Whole, SatToCoin
    <2>3. QED
      BY <1>1, <2>1, <2>2 DEF SharesBooked, Zero
  <1>6. QED
    BY <1>1, <1>3, <1>4, <1>5 DEF ShareInv, ShareBooks, TallyOn, Chargeable

(* processPPS, GetSharesSince, settle and ApplyPayments: at every moment    *)
(* the balances and payouts of a miner are together the price of its shares *)
(* up to the cursor, each counted once, while shares arrive, runs fail and  *)
(* runs are resumed.                                                        *)
THEOREM SharesCreditedOnce ==
  ASSUME NamesArePlain, PaysByShare
  PROVE  Spec => []EachShareCreditedOnce
  <1>1. TypeOK /\ TypeOK' /\ IntentProtocol /\ ShareInv /\ [Next]_vars => ShareInv'
    BY NextTallies
  <1>2. TypeOK /\ ShareInv => EachShareCreditedOnce
    <2> SUFFICES ASSUME TypeOK, ShareInv, CapNeverBit, NEW m \in Miners
                 PROVE  balances[m] + payouts[m] = PPSWork(m, cursor) * PPSRate
      BY DEF EachShareCreditedOnce
    <2>1. cursor \in Nat /\ seq \in Nat /\ cursor <= seq /\ seq = Len(recorded)
      BY DEF TypeOK, StorageTypeOK, ShareInv, Numbered, ShareBooks, LogTallies
    <2>2. DOMAIN recorded = 1..seq
      BY <2>1 DEF TypeOK, StorageTypeOK
    <2>3. {k \in DOMAIN recorded : recorded[k].seq <= cursor} = 1..cursor
      BY <2>1, <2>2 DEF ShareInv, Numbered
    <2>4. PPSWork(m, cursor) = WorkIn(recorded, m, 1..cursor)
      BY <2>3, WorkOfRecorded DEF PPSWork
    <2>5. QED
      BY <2>4 DEF ShareInv, ShareBooks, SharesBooked, Priced
  <1>3. QED
    BY <1>1, <1>2, InitTallies, TypeCorrect, IntentTellsProgress, PTL DEF Spec
==============================================================================
