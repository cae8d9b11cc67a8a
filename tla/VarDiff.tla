------------------------------- MODULE VarDiff -------------------------------
(***************************************************************************)
(* Variable difficulty (vardiff/vardiff.go, vardiff/ringbuffer.go) of one  *)
(* connection: every share brings a sample, the seconds since the share    *)
(* before it, and now and then the average of the samples in the ring      *)
(* buffer moves the difficulty.  Difficulties are integers in a unit fine  *)
(* enough for their halves; averages are compared without dividing.        *)
(***************************************************************************)
EXTENDS Integers, Sequences, Functions

CONSTANTS Options,     \* the "varDiff" sections of a port
          Gaps,        \* seconds between two shares
          Second,      \* time.Second, the factor of the linear mode
          MaxShares    \* bound

ASSUME VarDiffOptions ==
  /\ Gaps \subseteq Nat /\ Second \in Nat \ {0} /\ MaxShares \in Nat
  /\ \A o \in Options : /\ o.TargetTime \in Nat \ {0} /\ o.RetargetTime \in Nat /\ o.tenths \in Nat
                        /\ o.MinDiff \in Nat \ {0} /\ o.MaxDiff \in Nat /\ o.MinDiff <= o.MaxDiff
                        /\ o.start \in o.MinDiff..o.MaxDiff /\ o.X2Mode \in BOOLEAN

VARIABLES opt,          \* VariancePercent is opt.tenths / 10; opt.start is the port's difficulty
          IsFull, Cursor, Data,              \* RingBuffer
          LastRtc, LastTimestamp, timestamp,
          diff,                              \* the connection's difficulty
          shares,
          samples       \* history: every sample since the buffer was cleared

vars == <<opt, IsFull, Cursor, Data, LastRtc, LastTimestamp, timestamp, diff, shares, samples>>

MaxSize == (opt.RetargetTime \div opt.TargetTime) * 4
Min2(a, b) == IF a <= b THEN a ELSE b
Max2(a, b) == IF a >= b THEN a ELSE b
-----------------------------------------------------------------------------
(* Mutant: a full buffer goes on at the end instead of the start *)
AppendNoWrap(x) ==
  IF IsFull THEN [IsFull |-> TRUE, Cursor |-> Cursor, Data |-> [Data EXCEPT ![MaxSize] = x]]
  ELSE [IsFull |-> Len(Data) + 1 = MaxSize, Cursor |-> IF Len(Data) + 1 = MaxSize THEN 0 ELSE Cursor + 1,
        Data |-> Append(Data, x)]

(* Mutant: the buffer is full one sample late *)
AppendLate(x) ==
  LET full == MaxSize > 0 /\ Len(Data) = MaxSize
  IN  IF IsFull
      THEN [IsFull |-> TRUE, Cursor |-> (Cursor + 1) % MaxSize, Data |-> [Data EXCEPT ![Cursor + 1] = x]]
      ELSE [IsFull |-> full, Cursor |-> IF full THEN 0 ELSE Cursor + 1, Data |-> Append(Data, x)]

(* RingBuffer.Append.  The slice is indexed from 0, Data from 1.  With      *)
(* MaxSize 0 the buffer is never full.                                      *)
AppendSample(x) ==
  IF IsFull
  THEN [IsFull |-> TRUE, Cursor |-> (Cursor + 1) % MaxSize, Data |-> [Data EXCEPT ![Cursor + 1] = x]]
  ELSE LET full == Len(Data) + 1 = MaxSize
       IN  [IsFull |-> full, Cursor |-> IF full THEN 0 ELSE Cursor + 1, Data |-> Append(Data, x)]

Empty == [IsFull |-> FALSE, Cursor |-> 0, Data |-> <<>>]
Size(buffer) == IF buffer.IsFull THEN MaxSize ELSE buffer.Cursor

Sum(data) == SumFunction(data)

(* avg > MaxTargetTime and avg < MinTargetTime, times ten and the size.     *)
(* VariancePercent is used as it is: 30 is thirty times the target.         *)
TooSlow(sum, size) == sum * 10 > opt.TargetTime * (10 + opt.tenths) * size
TooFast(sum, size) == sum * 10 < opt.TargetTime * (10 - opt.tenths) * size

(* Mutant: no clamp to the minimum *)
HalveFreely(sum, size) == IF opt.X2Mode THEN diff \div 2 ELSE (diff * opt.TargetTime * Second * size) \div sum

(* The slow branch.  The linear ratio is the target in nanoseconds over an  *)
(* average in seconds.                                                      *)
Slower(sum, size) ==
  Max2(opt.MinDiff, IF opt.X2Mode THEN diff \div 2 ELSE (diff * opt.TargetTime * Second * size) \div sum)

(* The fast branch; an average of 0 is an infinite ratio *)
Faster(sum, size) ==
  CASE opt.X2Mode           -> Min2(opt.MaxDiff, diff * 2)
    [] ~opt.X2Mode /\ sum = 0 -> opt.MaxDiff
    [] ~opt.X2Mode /\ sum > 0 -> Min2(opt.MaxDiff, (diff * opt.TargetTime * Second * size) \div sum)

(* Mutant: the retarget interval is not looked at *)
DueAlways(now, buffer) == Size(buffer) > 0

(* It is time to retarget *)
Due(now, buffer) == ~(now - LastRtc < opt.RetargetTime /\ Size(buffer) > 0)

Verdict(sum, size) ==
  CASE TooSlow(sum, size) /\ diff > opt.MinDiff -> "slow"
    [] ~(TooSlow(sum, size) /\ diff > opt.MinDiff) /\ TooFast(sum, size) -> "fast"
    [] OTHER -> "keep"

(* The samples that stay: a new difficulty clears them *)
Kept(now, buffer) ==
  IF Due(now, buffer) /\ Verdict(Sum(buffer.Data), Size(buffer)) # "keep" THEN Empty ELSE buffer
-----------------------------------------------------------------------------
(* CalcNextDiff on a share gap seconds after the last one, and its caller:  *)
(* a new difficulty is put in force.  LastRtc is never 0 after 1970.        *)
Share(gap) ==
  LET now    == timestamp + gap
      buffer == AppendSample(now - LastTimestamp)
      sum    == Sum(buffer.Data)
      size   == Size(buffer)
      kept   == Kept(now, buffer)
  IN  /\ shares < MaxShares /\ shares' = shares + 1
      /\ timestamp' = now /\ LastTimestamp' = now
      /\ LastRtc' = IF Due(now, buffer) THEN now ELSE LastRtc
      /\ diff' = CASE ~Due(now, buffer)           -> diff
                   [] Due(now, buffer) /\ Verdict(sum, size) = "slow" -> Slower(sum, size)
                   [] Due(now, buffer) /\ Verdict(sum, size) = "fast" -> Faster(sum, size)
                   [] Due(now, buffer) /\ Verdict(sum, size) = "keep" -> diff
      /\ IsFull' = kept.IsFull /\ Cursor' = kept.Cursor /\ Data' = kept.Data
      /\ samples' = IF kept = Empty THEN <<>> ELSE Append(samples, now - LastTimestamp)
      /\ UNCHANGED opt

(* NewVarDiff, at time 1000: half the interval is already over *)
Init ==
  /\ opt \in Options
  /\ IsFull = Empty.IsFull /\ Cursor = Empty.Cursor /\ Data = Empty.Data
  /\ timestamp = 1000 /\ LastTimestamp = timestamp /\ LastRtc = timestamp - opt.RetargetTime \div 2
  /\ diff = opt.start /\ shares = 0 /\ samples = <<>>

Next == \E gap \in Gaps : Share(gap)

Spec == Init /\ [][Next]_vars
-----------------------------------------------------------------------------
(* Types.  The cursor stays inside a buffer that never outgrows MaxSize;    *)
(* with a retarget time under the target time, MaxSize is 0 and nothing     *)
(* bounds it.                                                               *)
TypeOK ==
  /\ opt \in Options /\ IsFull \in BOOLEAN /\ Cursor \in Nat /\ Data \in Seq(Nat)
  /\ LastRtc \in Int /\ timestamp \in Nat /\ LastTimestamp = timestamp /\ diff \in Nat /\ shares \in 0..MaxShares
  /\ MaxSize > 0 => Len(Data) <= MaxSize /\ IsFull = (Len(Data) = MaxSize) /\ Cursor < MaxSize
  /\ ~IsFull => Cursor = Len(Data)

(* What the average is taken of: read from the cursor on, the ring holds    *)
(* the latest samples in the order they came, through wrap-around and reset. *)
WindowIsLatest ==
  LET n == Len(Data) IN
  /\ n = IF MaxSize > 0 THEN Min2(MaxSize, Len(samples)) ELSE Len(samples)
  /\ \A i \in 1..n : Data[IF IsFull THEN ((Cursor + i - 1) % MaxSize) + 1 ELSE i] = samples[Len(samples) - n + i]

(* In x2 mode the difficulty stays between minDiff and maxDiff, however     *)
(* fast or slow shares come.                                                *)
X2Bounded == opt.X2Mode => diff \in opt.MinDiff..opt.MaxDiff

(* A difficulty is kept for retargetTime at least (half of it at first),    *)
(* whatever burst of shares arrives.                                        *)
RetargetsApart == [][LastRtc' # LastRtc => LastRtc' - LastRtc >= opt.RetargetTime]_vars
==============================================================================
