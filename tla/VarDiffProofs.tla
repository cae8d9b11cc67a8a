---------------------------- MODULE VarDiffProofs ----------------------------
(***************************************************************************)
(* What TLAPS proves of variable difficulty, for every set of options and  *)
(* every series of shares, however long.                                   *)
(***************************************************************************)
EXTENDS VarDiff, Sums, TLAPS

-----------------------------------------------------------------------------
(* Arithmetic of the ring.                                                 *)

(* A number under the modulus is its own remainder. *)
LEMMA ModSmall ==
  ASSUME NEW a \in Nat, NEW n \in Nat \ {0}, a < n
  PROVE  a % n = a
  OBVIOUS

(* Past the end of the ring one turn is taken off. *)
LEMMA ModOnce ==
  ASSUME NEW a \in Nat, NEW n \in Nat \ {0}, n <= a, a < 2 * n
  PROVE  a % n = a - n
  OBVIOUS

(* The cursor after an append: the next slot, or the first one after the   *)
(* last.                                                                   *)
LEMMA NextCursor ==
  ASSUME NEW n \in Nat \ {0}, NEW c \in 0..(n - 1)
  PROVE  (c + 1) % n = IF c + 1 < n THEN c + 1 ELSE 0
  <1>1. c + 1 \in Nat /\ (c + 1 < n \/ (n <= c + 1 /\ c + 1 < 2 * n /\ c + 1 - n = 0))
    OBVIOUS
  <1>2. QED
    BY <1>1, ModSmall, ModOnce

(* The slot of the i-th sample from the cursor on. *)
LEMMA SlotFromCursor ==
  ASSUME NEW n \in Nat \ {0}, NEW c \in 0..(n - 1), NEW i \in 1..n
  PROVE  ((c + i - 1) % n) + 1 = IF c + i <= n THEN c + i ELSE c + i - n
  <1> DEFINE a == c + i - 1
  <1>1. a \in Nat /\ a < 2 * n
    OBVIOUS
  <1>2. CASE c + i <= n
    <2>1. a % n = a
      BY <1>1, <1>2, ModSmall
    <2>2. QED
      BY <1>2, <2>1
  <1>3. CASE c + i > n
    <2>1. n <= a
      BY <1>3
    <2>2. a % n = a - n
      BY <1>1, <2>1, ModOnce
    <2>3. QED
      BY <1>3, <2>2
  <1>4. QED
    BY <1>2, <1>3

(* The size of the buffer is a natural number for any options. *)
LEMMA MaxSizeNat ==
  ASSUME opt \in Options
  PROVE  MaxSize \in Nat
  <1>1. opt.RetargetTime \in Nat /\ opt.TargetTime \in Nat \ {0}
    BY VarDiffOptions
  <1>2. opt.RetargetTime \div opt.TargetTime \in Nat
    BY <1>1
  <1>3. QED
    BY <1>2 DEF MaxSize
-----------------------------------------------------------------------------
(* The ring buffer.                                                        *)

(* Where a full buffer has the i-th oldest of its samples *)
Slot(cur, i) == ((cur + i - 1) % MaxSize) + 1

RingSound(full, cur, data) ==
  /\ full \in BOOLEAN /\ cur \in Nat /\ data \in Seq(Nat)
  /\ MaxSize > 0 => Len(data) <= MaxSize /\ cur < MaxSize
  /\ full <=> (MaxSize > 0 /\ Len(data) = MaxSize)
  /\ ~full => cur = Len(data)

Latest(full, cur, data, s) ==
  /\ s \in Seq(Nat)
  /\ ~full => data = s
  /\ full => /\ MaxSize <= Len(s)
             /\ \A i \in 1..MaxSize : data[Slot(cur, i)] = s[Len(s) - MaxSize + i]

(* The slots of a full buffer, counted from the cursor and round the end. *)
LEMMA SlotIs ==
  ASSUME MaxSize \in Nat \ {0}, NEW c \in 0..(MaxSize - 1), NEW i \in 1..MaxSize
  PROVE  Slot(c, i) = IF c + i <= MaxSize THEN c + i ELSE c + i - MaxSize
  BY SlotFromCursor DEF Slot

(* Append on a full buffer: the oldest sample gives way, the next one is    *)
(* the oldest.                                                              *)
LEMMA AppendFull ==
  ASSUME MaxSize \in Nat, RingSound(IsFull, Cursor, Data), Latest(IsFull, Cursor, Data, samples),
         IsFull, NEW x \in Nat
  PROVE  LET b == AppendSample(x) IN
         RingSound(b.IsFull, b.Cursor, b.Data) /\ Latest(b.IsFull, b.Cursor, b.Data, Append(samples, x))
  <1> DEFINE next == (Cursor + 1) % MaxSize
             data == [Data EXCEPT ![Cursor + 1] = x]
             s    == Append(samples, x)
  <1>1. /\ MaxSize \in Nat \ {0} /\ Len(Data) = MaxSize /\ Data \in Seq(Nat)
        /\ Cursor \in 0..(MaxSize - 1) /\ IsFull = TRUE
    BY DEF RingSound
  <1>2. next = IF Cursor + 1 < MaxSize THEN Cursor + 1 ELSE 0
    BY <1>1, NextCursor
  <1>3. next \in 0..(MaxSize - 1)
    BY <1>1, <1>2
  <1>4. /\ data \in Seq(Nat) /\ Len(data) = MaxSize
        /\ \A j \in 1..MaxSize : data[j] = IF j = Cursor + 1 THEN x ELSE Data[j]
    BY <1>1
  <1>5. RingSound(TRUE, next, data)
    BY <1>1, <1>3, <1>4 DEF RingSound
  <1>6. /\ samples \in Seq(Nat) /\ Len(samples) \in Nat /\ MaxSize <= Len(samples)
        /\ \A j \in 1..MaxSize : Data[Slot(Cursor, j)] = samples[Len(samples) - MaxSize + j]
    BY <1>1 DEF Latest
  <1>7. /\ s \in Seq(Nat) /\ Len(s) = Len(samples) + 1 /\ s[Len(samples) + 1] = x
        /\ \A j \in 1..Len(samples) : s[j] = samples[j]
    BY <1>6
  <1>8. AppendSample(x) = [IsFull |-> TRUE, Cursor |-> next, Data |-> data]
    BY DEF AppendSample
  <1> HIDE DEF next, data, s
  <1>9. ASSUME NEW i \in 1..MaxSize
        PROVE  data[Slot(next, i)] = s[Len(s) - MaxSize + i]
    <2>1. Slot(next, i) = IF next + i <= MaxSize THEN next + i ELSE next + i - MaxSize
      BY <1>1, <1>3, SlotIs
    <2>2. CASE i < MaxSize
      <3> DEFINE k == i + 1
      <3>1. k \in 1..MaxSize
        BY <1>1, <2>2
      <3>2. Slot(Cursor, k) = IF Cursor + k <= MaxSize THEN Cursor + k ELSE Cursor + k - MaxSize
        BY <1>1, <3>1, SlotIs
      <3>3. /\ Slot(Cursor, k) = Slot(next, i)
            /\ Slot(Cursor, k) \in 1..MaxSize
            /\ Slot(Cursor, k) # Cursor + 1
        BY <1>1, <1>2, <2>1, <2>2, <3>2
      <3>4. data[Slot(next, i)] = samples[Len(samples) - MaxSize + k]
        BY <1>4, <1>6, <3>1, <3>3
      <3>5. /\ Len(s) - MaxSize + i = Len(samples) - MaxSize + k
            /\ Len(samples) - MaxSize + k \in 1..Len(samples)
        BY <1>1, <1>6, <1>7, <2>2
      <3>6. QED
        BY <1>7, <3>4, <3>5
    <2>3. CASE i = MaxSize
      <3>1. Slot(next, i) = Cursor + 1 /\ Cursor + 1 \in 1..MaxSize
        BY <1>1, <1>2, <2>1, <2>3
      <3>2. data[Slot(next, i)] = x
        BY <1>4, <3>1
      <3>3. Len(s) - MaxSize + i = Len(samples) + 1
        BY <1>1, <1>6, <1>7, <2>3
      <3>4. QED
        BY <1>7, <3>2, <3>3
    <2>4. QED
      BY <1>1, <2>2, <2>3
  <1>10. Latest(TRUE, next, data, s)
    BY <1>1, <1>6, <1>7, <1>9 DEF Latest
  <1>11. Append(samples, x) = s
    BY DEF s
  <1>12. /\ AppendSample(x).IsFull = TRUE /\ AppendSample(x).Cursor = next /\ AppendSample(x).Data = data
    BY <1>8
  <1>13. QED
    BY <1>5, <1>10, <1>11, <1>12

(* Append on a buffer that is not full, the sample that fills it included. *)
LEMMA AppendFilling ==
  ASSUME MaxSize \in Nat, RingSound(IsFull, Cursor, Data), Latest(IsFull, Cursor, Data, samples),
         ~IsFull, NEW x \in Nat
  PROVE  LET b == AppendSample(x) IN
         RingSound(b.IsFull, b.Cursor, b.Data) /\ Latest(b.IsFull, b.Cursor, b.Data, Append(samples, x))
  <1> DEFINE full == Len(Data) + 1 = MaxSize
             cur  == IF full THEN 0 ELSE Cursor + 1
             data == Append(Data, x)
  <1>1. /\ Data \in Seq(Nat) /\ Cursor = Len(Data) /\ Len(Data) \in Nat /\ IsFull = FALSE
        /\ MaxSize > 0 => Len(Data) < MaxSize
    BY DEF RingSound
  <1>2. data \in Seq(Nat) /\ Len(data) = Len(Data) + 1
    BY <1>1
  <1>3. RingSound(full, cur, data)
    BY <1>1, <1>2 DEF RingSound
  <1>4. samples \in Seq(Nat) /\ Data = samples
    BY <1>1 DEF Latest
  <1>5. AppendSample(x) = [IsFull |-> full, Cursor |-> cur, Data |-> data]
    BY <1>1 DEF AppendSample
  <1>6. full => cur = 0 /\ MaxSize = Len(data) /\ MaxSize \in Nat \ {0}
    BY <1>1, <1>2
  <1>7. Append(samples, x) = data
    BY <1>4
  <1> HIDE DEF full, cur, data
  <1>8. ASSUME full, NEW i \in 1..MaxSize
        PROVE  data[Slot(cur, i)] = data[Len(data) - MaxSize + i]
    <2>1. Slot(0, i) = i
      BY <1>6, <1>8, SlotIs
    <2>2. Len(data) - MaxSize + i = i
      BY <1>6, <1>8
    <2>3. QED
      BY <1>6, <1>8, <2>1, <2>2
  <1>9. Latest(full, cur, data, data)
    <2>1. full => MaxSize <= Len(data)
      BY <1>6
    <2>2. QED
      BY <1>2, <1>8, <2>1 DEF Latest
  <1>10. QED
    BY <1>3, <1>5, <1>7, <1>9

(* Append keeps the ring sound and its samples the latest ones. *)
LEMMA AppendKeeps ==
  ASSUME MaxSize \in Nat, RingSound(IsFull, Cursor, Data), Latest(IsFull, Cursor, Data, samples), NEW x \in Nat
  PROVE  LET b == AppendSample(x) IN
         RingSound(b.IsFull, b.Cursor, b.Data) /\ Latest(b.IsFull, b.Cursor, b.Data, Append(samples, x))
  BY AppendFull, AppendFilling DEF RingSound

(* A cleared buffer is sound and holds the latest samples of none. *)
LEMMA EmptyKeeps ==
  ASSUME MaxSize \in Nat
  PROVE  RingSound(FALSE, 0, <<>>) /\ Latest(FALSE, 0, <<>>, <<>>)
  BY DEF RingSound, Latest
-----------------------------------------------------------------------------
(* The invariant.  WindowIsLatest is inductive once it is said where the   *)
(* cursor of a full buffer stands and that a sample is never negative,     *)
(* which needs the two timestamps to agree.                                *)
Ring == RingSound(IsFull, Cursor, Data) /\ Latest(IsFull, Cursor, Data, samples)
Clock == timestamp \in Nat /\ LastTimestamp = timestamp /\ LastRtc \in Int

VarDiffInv == opt \in Options /\ Ring /\ Clock /\ X2Bounded

LEMMA InitInv == Init => VarDiffInv
  <1> SUFFICES ASSUME Init PROVE VarDiffInv
    OBVIOUS
  <1>1. opt \in Options /\ MaxSize \in Nat
    BY MaxSizeNat DEF Init
  <1>2. Ring
    BY <1>1, EmptyKeeps, Zenon DEF Init, Empty, Ring
  <1>3. opt.RetargetTime \div 2 \in Nat
    BY <1>1, VarDiffOptions
  <1>4. Clock
    BY <1>3 DEF Init, Clock
  <1>5. X2Bounded
    BY <1>1, VarDiffOptions DEF Init, X2Bounded
  <1>6. QED
    BY <1>1, <1>2, <1>4, <1>5 DEF VarDiffInv

(* A share adds its sample or clears the buffer. *)
LEMMA ShareKeepsRing ==
  ASSUME VarDiffInv, NEW gap \in Gaps, Share(gap)
  PROVE  Ring'
  <1> DEFINE x == (timestamp + gap) - LastTimestamp
             b == AppendSample(x)
  <1>1. MaxSize \in Nat /\ MaxSize' = MaxSize /\ opt' = opt
    BY MaxSizeNat DEF VarDiffInv, Share, MaxSize
  <1>2. x \in Nat
    BY VarDiffOptions DEF VarDiffInv, Clock
  <1>3. RingSound(b.IsFull, b.Cursor, b.Data) /\ Latest(b.IsFull, b.Cursor, b.Data, Append(samples, x))
    BY <1>1, <1>2, AppendKeeps DEF VarDiffInv, Ring
  <1>4. RingSound(FALSE, 0, <<>>) /\ Latest(FALSE, 0, <<>>, <<>>)
    BY <1>1, EmptyKeeps
  <1>5. b # Empty
    <2>1. IsFull => b.IsFull = TRUE
      BY DEF AppendSample
    <2>2. ~IsFull => b.Data # <<>>
      BY <1>2 DEF AppendSample, VarDiffInv, Ring, RingSound
    <2>3. QED
      BY <2>1, <2>2 DEF Empty
  <1>6. \/ IsFull' = b.IsFull /\ Cursor' = b.Cursor /\ Data' = b.Data /\ samples' = Append(samples, x)
        \/ IsFull' = FALSE /\ Cursor' = 0 /\ Data' = <<>> /\ samples' = <<>>
    <2> DEFINE kept == Kept(timestamp + gap, b)
    <2>0. kept \in {Empty, b}
      BY DEF Kept
    <2> HIDE DEF b
    <2>1. /\ IsFull' = kept.IsFull /\ Cursor' = kept.Cursor /\ Data' = kept.Data
          /\ samples' = IF kept = Empty THEN <<>> ELSE Append(samples, x)
      BY DEF Share, b
    <2>2. CASE kept = b
      BY <1>5, <2>1, <2>2
    <2>3. CASE kept = Empty
      BY <2>1, <2>3 DEF Empty
    <2>4. QED
      BY <2>0, <2>2, <2>3
  <1> HIDE DEF b, x
  <1>7. ASSUME NEW f, NEW c, NEW d, NEW s, RingSound(f, c, d), Latest(f, c, d, s),
               IsFull' = f, Cursor' = c, Data' = d, samples' = s
        PROVE  Ring'
    BY <1>1, <1>7 DEF Ring, RingSound, Latest, Slot
  <1>8. QED
    BY <1>3, <1>4, <1>6, <1>7

(* In x2 mode both branches end at a bound. *)
LEMMA ShareKeepsX2Bounds ==
  ASSUME VarDiffInv, NEW gap \in Gaps, Share(gap)
  PROVE  X2Bounded'
  <1> SUFFICES ASSUME opt.X2Mode PROVE diff' \in opt.MinDiff..opt.MaxDiff
    BY DEF X2Bounded, Share
  <1>1. /\ opt.MinDiff \in Nat \ {0} /\ opt.MaxDiff \in Nat /\ opt.MinDiff <= opt.MaxDiff
        /\ diff \in opt.MinDiff..opt.MaxDiff
    BY VarDiffOptions DEF VarDiffInv, X2Bounded
  <1>2. diff \div 2 \in Nat /\ diff \div 2 <= diff
    BY <1>1
  <1>3. ASSUME NEW sum, NEW size
        PROVE  Slower(sum, size) \in opt.MinDiff..opt.MaxDiff
    BY <1>1, <1>2 DEF Slower, Max2
  <1>4. ASSUME NEW sum, NEW size
        PROVE  Faster(sum, size) \in opt.MinDiff..opt.MaxDiff
    BY <1>1 DEF Faster, Min2
  <1>5. \E sum, size : diff' \in {diff, Slower(sum, size), Faster(sum, size)}
    <2> DEFINE now    == timestamp + gap
               buffer == AppendSample(now - LastTimestamp)
               sum    == Sum(buffer.Data)
               size   == Size(buffer)
    <2>1. diff' = CASE ~Due(now, buffer)           -> diff
                   [] Due(now, buffer) /\ Verdict(sum, size) = "slow" -> Slower(sum, size)
                   [] Due(now, buffer) /\ Verdict(sum, size) = "fast" -> Faster(sum, size)
                   [] Due(now, buffer) /\ Verdict(sum, size) = "keep" -> diff
      BY DEF Share
    <2>2. Verdict(sum, size) \in {"slow", "fast", "keep"}
      BY DEF Verdict
    <2> HIDE DEF now, buffer, sum, size
    <2>3. diff' \in {diff, Slower(sum, size), Faster(sum, size)}
      BY <2>1, <2>2
    <2>4. QED
      BY <2>3
  <1>6. QED
    BY <1>1, <1>3, <1>4, <1>5

(* Every step keeps the invariant. *)
LEMMA NextInv == VarDiffInv /\ [Next]_vars => VarDiffInv'
  <1> SUFFICES ASSUME VarDiffInv, [Next]_vars PROVE VarDiffInv'
    OBVIOUS
  <1>1. ASSUME NEW gap \in Gaps, Share(gap)
        PROVE  VarDiffInv'
    <2>1. opt' = opt /\ opt \in Options
      BY <1>1 DEF Share, VarDiffInv
    <2>2. Ring'
      BY <1>1, ShareKeepsRing
    <2>3. gap \in Nat
      BY VarDiffOptions
    <2>4. timestamp' = timestamp + gap /\ LastTimestamp' = timestamp + gap /\ LastRtc' \in {timestamp + gap, LastRtc}
      BY <1>1 DEF Share
    <2>5. Clock'
      BY <2>3, <2>4 DEF Clock, VarDiffInv
    <2>6. X2Bounded'
      BY <1>1, ShareKeepsX2Bounds
    <2>7. QED
      BY <2>1, <2>2, <2>5, <2>6 DEF VarDiffInv
  <1>2. CASE UNCHANGED vars
    BY <1>2 DEF vars, VarDiffInv, Ring, RingSound, Latest, Slot, MaxSize, Clock, X2Bounded
  <1>3. QED
    BY <1>1, <1>2 DEF Next

(* The invariant says what WindowIsLatest does. *)
LEMMA WindowFollows == VarDiffInv => WindowIsLatest
  <1> SUFFICES ASSUME VarDiffInv PROVE WindowIsLatest
    OBVIOUS
  <1>1. MaxSize \in Nat
    BY MaxSizeNat DEF VarDiffInv
  <1>2. /\ IsFull \in BOOLEAN /\ Data \in Seq(Nat) /\ samples \in Seq(Nat)
        /\ Len(Data) \in Nat /\ Len(samples) \in Nat
    BY DEF VarDiffInv, Ring, RingSound, Latest
  <1>3. CASE IsFull
    <2>1. MaxSize > 0 /\ Len(Data) = MaxSize /\ MaxSize <= Len(samples)
      BY <1>3 DEF VarDiffInv, Ring, RingSound, Latest
    <2>2. \A i \in 1..MaxSize : Data[((Cursor + i - 1) % MaxSize) + 1] = samples[Len(samples) - MaxSize + i]
      BY <1>3 DEF VarDiffInv, Ring, Latest, Slot
    <2>3. QED
      BY <1>1, <1>2, <1>3, <2>1, <2>2 DEF WindowIsLatest, Min2
  <1>4. CASE ~IsFull
    <2>1. Data = samples /\ (MaxSize > 0 => Len(Data) <= MaxSize)
      BY <1>4 DEF VarDiffInv, Ring, RingSound, Latest
    <2>2. Len(Data) = IF MaxSize > 0 THEN Min2(MaxSize, Len(samples)) ELSE Len(samples)
      BY <1>1, <1>2, <2>1 DEF Min2
    <2>3. \A i \in 1..Len(Data) : Len(samples) - Len(Data) + i = i
      BY <1>2, <2>1
    <2>4. QED
      BY <1>4, <2>1, <2>2, <2>3 DEF WindowIsLatest
  <1>5. QED
    BY <1>2, <1>3, <1>4

(* A retarget comes no earlier than the interval after the one before it,  *)
(* whether or not shares came in between.                                  *)
LEMMA StepsApart ==
  ASSUME VarDiffInv, [Next]_vars
  PROVE  LastRtc' # LastRtc => LastRtc' - LastRtc >= opt.RetargetTime
  <1>1. ASSUME NEW gap \in Gaps, Share(gap), LastRtc' # LastRtc
        PROVE  LastRtc' - LastRtc >= opt.RetargetTime
    <2> DEFINE now == timestamp + gap
               b   == AppendSample(now - LastTimestamp)
    <2>1. now \in Nat /\ LastRtc \in Int /\ opt.RetargetTime \in Nat /\ now - LastTimestamp \in Nat
      BY VarDiffOptions DEF VarDiffInv, Clock
    <2>2. Due(now, b) /\ LastRtc' = now
      BY <1>1 DEF Share
    <2>3. Size(b) > 0
      <3>1. CASE IsFull
        BY <3>1 DEF AppendSample, Size, VarDiffInv, Ring, RingSound
      <3>2. CASE ~IsFull
        <4>1. Len(Data) + 1 > 0 /\ Cursor + 1 > 0
          BY <3>2 DEF VarDiffInv, Ring, RingSound
        <4>2. QED
          BY <3>2, <4>1 DEF AppendSample, Size
      <3>3. QED
        BY <3>1, <3>2
    <2> HIDE DEF b
    <2>4. ~(now - LastRtc < opt.RetargetTime)
      BY <2>2, <2>3 DEF Due
    <2>5. QED
      BY <2>1, <2>2, <2>4
  <1>2. QED
    BY <1>1 DEF Next, vars
-----------------------------------------------------------------------------
(* For every configuration and every series of shares, the average is      *)
(* taken of the latest samples (ringbuffer.go, Append, Avg and Clear).      *)
THEOREM AveragesLatest == Spec => []WindowIsLatest
  <1>1. QED
    BY InitInv, NextInv, WindowFollows, PTL DEF Spec

(* In x2 mode the difficulty never leaves [minDiff, maxDiff] (CalcNextDiff, *)
(* both branches), whatever minDiff and maxDiff are.                        *)
THEOREM X2StaysBounded == Spec => []X2Bounded
  <1>1. VarDiffInv => X2Bounded
    BY DEF VarDiffInv
  <1>2. QED
    BY <1>1, InitInv, NextInv, PTL DEF Spec

(* No burst of shares brings a retarget forward: the early return of        *)
(* CalcNextDiff is taken until retargetTime is over, for the buffer it      *)
(* looks at is never empty, wrapped around or of size 0 as it may be.       *)
THEOREM RetargetsSpaced == Spec => RetargetsApart
  <1>1. VarDiffInv /\ [Next]_vars => [LastRtc' # LastRtc => LastRtc' - LastRtc >= opt.RetargetTime]_vars
    BY StepsApart
  <1>2. QED
    BY <1>1, InitInv, NextInv, PTL DEF Spec, RetargetsApart

-----------------------------------------------------------------------------
(* Types.                                                                  *)

(* The samples of a ring, and their sum: the size is the number of them. *)
LEMMA SumOfSamples ==
  ASSUME MaxSize \in Nat, NEW b, RingSound(b.IsFull, b.Cursor, b.Data)
  PROVE  Sum(b.Data) \in Nat /\ Size(b) \in Nat
  <1> DEFINE d == b.Data
  <1>1. d \in Seq(Nat) /\ Size(b) = Len(d) /\ Len(d) \in Nat
    BY DEF RingSound, Size
  <1>2. DOMAIN d = 1..Len(d) /\ \A i \in DOMAIN d : d[i] \in Nat
    BY <1>1
  <1>3. IsFiniteSet(DOMAIN d)
    BY <1>1, <1>2, FS_Interval
  <1>4. Sum(d) = SumFunctionOnSet(d, DOMAIN d)
    BY DEF Sum, SumFunction
  <1> HIDE DEF d
  <1>5. Sum(d) \in Nat
    BY <1>2, <1>3, <1>4, SumNat
  <1>6. QED
    BY <1>1, <1>5 DEF d

(* The types, and a difficulty that is a number. *)
TypeInv == VarDiffInv /\ diff \in Nat /\ shares \in 0..MaxShares

(* The buffer a share leaves to be averaged. *)
Sampled(gap) == AppendSample((timestamp + gap) - LastTimestamp)

(* The difficulty stays, or moves for a reason. *)
LEMMA NewDiff ==
  ASSUME NEW gap, Share(gap)
  PROVE  LET sum == Sum(Sampled(gap).Data)  size == Size(Sampled(gap)) IN
         \/ diff' = diff
         \/ diff' = Slower(sum, size) /\ TooSlow(sum, size)
         \/ diff' = Faster(sum, size) /\ TooFast(sum, size)
  <1> DEFINE now    == timestamp + gap
             buffer == Sampled(gap)
             sum    == Sum(buffer.Data)
             size   == Size(buffer)
  <1>1. diff' = CASE ~Due(now, buffer)           -> diff
                  [] Due(now, buffer) /\ Verdict(sum, size) = "slow" -> Slower(sum, size)
                  [] Due(now, buffer) /\ Verdict(sum, size) = "fast" -> Faster(sum, size)
                  [] Due(now, buffer) /\ Verdict(sum, size) = "keep" -> diff
    BY DEF Share, Sampled
  <1>2. /\ Verdict(sum, size) \in {"slow", "fast", "keep"}
        /\ Verdict(sum, size) = "slow" => TooSlow(sum, size)
        /\ Verdict(sum, size) = "fast" => TooFast(sum, size)
    BY DEF Verdict
  <1> HIDE DEF now, sum, size
  <1>3. \/ diff' = diff
        \/ diff' = Slower(sum, size) /\ TooSlow(sum, size)
        \/ diff' = Faster(sum, size) /\ TooFast(sum, size)
    BY <1>1, <1>2
  <1>4. QED
    BY <1>3 DEF sum, size

(* The buffer a share leaves is sound. *)
LEMMA SampledSound ==
  ASSUME VarDiffInv, NEW gap \in Gaps
  PROVE  /\ MaxSize \in Nat
         /\ RingSound(Sampled(gap).IsFull, Sampled(gap).Cursor, Sampled(gap).Data)
  <1>1. MaxSize \in Nat
    BY MaxSizeNat DEF VarDiffInv
  <1>2. (timestamp + gap) - LastTimestamp \in Nat
    BY VarDiffOptions DEF VarDiffInv, Clock
  <1>3. QED
    BY <1>1, <1>2, AppendKeeps DEF VarDiffInv, Ring, Sampled

(* The linear ratio is never over an average of 0. *)
LEMMA SlowIsPositive ==
  ASSUME opt \in Options, NEW sum \in Nat, NEW size \in Nat, TooSlow(sum, size)
  PROVE  sum > 0
  <1>1. opt.TargetTime \in Nat /\ opt.tenths \in Nat
    BY VarDiffOptions
  <1>2. opt.TargetTime * (10 + opt.tenths) \in Nat
    BY <1>1
  <1>3. (opt.TargetTime * (10 + opt.tenths)) * size \in Nat
    BY <1>2
  <1>4. QED
    BY <1>3 DEF TooSlow

(* Either branch gives a difficulty, in either mode. *)
LEMMA BranchType ==
  ASSUME TypeInv, NEW sum \in Nat, NEW size \in Nat
  PROVE  /\ TooSlow(sum, size) => Slower(sum, size) \in Nat
         /\ Faster(sum, size) \in Nat
  <1>1. /\ opt.MinDiff \in Nat /\ opt.MaxDiff \in Nat /\ opt.TargetTime \in Nat /\ Second \in Nat
        /\ opt.X2Mode \in BOOLEAN /\ diff \in Nat
    BY VarDiffOptions DEF TypeInv, VarDiffInv
  <1> DEFINE a == diff * opt.TargetTime * Second * size
  <1>2. a \in Nat
    <2>1. diff * opt.TargetTime \in Nat
      BY <1>1
    <2>2. diff * opt.TargetTime * Second \in Nat
      BY <1>1, <2>1
    <2>3. QED
      BY <2>2
  <1> HIDE DEF a
  <1>3. sum > 0 => a \div sum \in Nat
    BY <1>2
  <1>4. diff \div 2 \in Nat /\ diff * 2 \in Nat
    BY <1>1
  <1>5. TooSlow(sum, size) => Slower(sum, size) \in Nat
    <2>1. SUFFICES ASSUME TooSlow(sum, size) PROVE Slower(sum, size) \in Nat
      OBVIOUS
    <2>2. sum > 0
      BY <2>1, SlowIsPositive DEF TypeInv, VarDiffInv
    <2>3. Slower(sum, size) = Max2(opt.MinDiff, IF opt.X2Mode THEN diff \div 2 ELSE a \div sum)
      BY DEF Slower, a
    <2>4. QED
      BY <1>1, <1>3, <1>4, <2>2, <2>3 DEF Max2
  <1>6. Faster(sum, size) \in Nat
    <2>1. Faster(sum, size) = CASE opt.X2Mode           -> Min2(opt.MaxDiff, diff * 2)
                                [] ~opt.X2Mode /\ sum = 0 -> opt.MaxDiff
                                [] ~opt.X2Mode /\ sum > 0 -> Min2(opt.MaxDiff, a \div sum)
      BY DEF Faster, a
    <2>2. sum = 0 \/ sum > 0
      OBVIOUS
    <2>3. QED
      BY <1>1, <1>3, <1>4, <2>1, <2>2 DEF Min2
  <1>7. QED
    BY <1>5, <1>6

(* Every step keeps the types. *)
LEMMA NextType ==
  ASSUME TypeInv, [Next]_vars
  PROVE  TypeInv'
  <1>1. VarDiffInv'
    BY NextInv DEF TypeInv
  <1>2. ASSUME NEW gap \in Gaps, Share(gap)
        PROVE  diff' \in Nat /\ shares' \in 0..MaxShares
    <2>1. Sum(Sampled(gap).Data) \in Nat /\ Size(Sampled(gap)) \in Nat
      BY SampledSound, SumOfSamples DEF TypeInv
    <2>2. diff' \in Nat
      BY <1>2, <2>1, NewDiff, BranchType DEF TypeInv
    <2>3. shares' \in 0..MaxShares
      BY <1>2, VarDiffOptions DEF Share, TypeInv
    <2>4. QED
      BY <2>2, <2>3
  <1>3. QED
    BY <1>1, <1>2 DEF Next, vars, TypeInv

(* TypeInv is an invariant. *)
LEMMA TypeInvariant == Spec => []TypeInv
  <1>1. Init => TypeInv
    BY InitInv, VarDiffOptions DEF Init, TypeInv
  <1>2. TypeInv /\ [Next]_vars => TypeInv'
    BY NextType
  <1>3. QED
    BY <1>1, <1>2, PTL DEF Spec

(* CalcNextDiff never divides by an average of 0 nor gives a difficulty     *)
(* below 0, and the cursor of RingBuffer stays inside a buffer that does    *)
(* not outgrow MaxSize, for every configuration and series of shares.       *)
THEOREM TypeCorrect == Spec => []TypeOK
  <1>1. TypeInv => TypeOK
    BY DEF TypeInv, VarDiffInv, Ring, RingSound, Clock, TypeOK
  <1>2. QED
    BY <1>1, TypeInvariant, PTL
==============================================================================
