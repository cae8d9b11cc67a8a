------------------------------ MODULE JobsProofs ------------------------------
(***************************************************************************)
(* Duplicate shares: a proof of work is credited twice only if it was sent *)
(* in two spellings, two unlocked registrations overlapped or one second   *)
(* made the same work twice, for any number of sessions and jobs.          *)
(*                                                                         *)
(* RegisterSubmit reads and then appends, UpdateCurrentJob replaces the job*)
(* under an id by one with an empty record, and sessions keep the job they *)
(* looked up: what excludes a duplicate is spread over the records of all  *)
(* jobs in use, the texts lost in races and the twins.                     *)
(***************************************************************************)
EXTENDS PoolProofs

-----------------------------------------------------------------------------
(* The invariant.                                                          *)

(* The work a block was mined on, and the text and the job of a session. *)
WorkOf(b) == [height |-> b.height, rev |-> b.rev, stamp |-> b.stamp]
SText(s) == Submission(s, proc[s].sub)
JobOf(s) == heap[proc[s].job]
In(s, pcs) == proc[s].pc \in pcs

(* Of two jobs in use on the same work one is marked as the twin. *)
TwinsMarked == \A c, d \in Live : c # d /\ heap[c].work = heap[d].work => heap[c].twin \/ heap[d].twin

(* A session that is about to append has not seen its text. *)
Unseen(s) == proc[s].pc = "append" => SText(s) \notin proc[s].snap

(* A session past its registration has its text in Submits, unless another *)
(* registration overwrote it;                                               *)
Registered(s) == In(s, Entered) => SText(s) \in raced \union JobOf(s).Submits

(* past its judgement it works on the job's work;                           *)
OnItsJob(s) == In(s, Settled) => JobOf(s).work = proc[s].sub.work

(* and two sessions registered the same text on one job in a race only.     *)
OnceUnlessRaced(s, t) ==
  s # t /\ In(s, Entered) /\ In(t, Entered) /\ proc[s].job = proc[t].job /\ SText(s) = SText(t) => SText(s) \in raced

JobsInv ==
  /\ TwinsMarked
  /\ \A s \in Sessions : Unseen(s) /\ Registered(s) /\ OnItsJob(s) /\ \A t \in Sessions : OnceUnlessRaced(s, t)

(* Shares are of work that was sent. *)
StoredSent(i) == \E j \in shown : j.work = WorkOf(stored[i].block)

(* The text of a share stays in the Submits of every other job on its work. *)
TextKept(i) ==
  ~stored[i].twin /\ stored[i].text \notin raced =>
    \A c \in Live : heap[c].work = WorkOf(stored[i].block) /\ ~heap[c].twin => stored[i].text \in heap[c].Submits

(* A session that is to be credited once more for a share, sent as the same *)
(* text, raced, or one of the two jobs is a twin.                           *)
AgainExcused(s, i) ==
  In(s, Entered) /\ JobOf(s).work = proc[s].sub.work /\ stored[i].block = SBlock(s) /\ stored[i].text = SText(s) =>
    SText(s) \in raced \/ stored[i].twin \/ JobOf(s).twin

SharesInv ==
  /\ DuplicateNeedsRace
  /\ \A i \in DOMAIN stored : StoredSent(i) /\ TextKept(i) /\ \A s \in Sessions : AgainExcused(s, i)
-----------------------------------------------------------------------------
(* A step that leaves the registrations alone: jobs in use stay as they are *)
(* but for a new one, and no session comes past its registration or its     *)
(* judgement by it, but by a judgement that is right.                       *)
JobsSteady(n) ==
  /\ UNCHANGED <<raced, scenario>> /\ shown \subseteq shown'
  /\ \A c \in Live' : \/ c \in Live /\ heap'[c] = heap[c]
                      \/ c = n /\ heap'[c].twin = (heap'[c].work \in Known)

SessionSteady(s) ==
  /\ proc'[s].pc = "append" => Submission(s, proc'[s].sub) \notin proc'[s].snap
  /\ proc'[s].pc \in Entered => /\ proc[s].pc \in Entered /\ proc'[s].job = proc[s].job
                                /\ proc'[s].sub = proc[s].sub /\ heap'[proc[s].job] = heap[proc[s].job]
  /\ proc'[s].pc \in Settled => heap[proc[s].job].work = proc[s].sub.work

LEMMA SettledEntered == Settled \subseteq Entered /\ Entered \subseteq WithJob /\ "append" \in WithJob /\ "idle" \notin WithJob
  BY DEF Entered, WithJob, Settled, Installs

LEMMA BlockParts ==
  ASSUME TypeInv, NEW s \in Sessions, proc[s].pc # "idle"
  PROVE  WorkOf(SBlock(s)) = proc[s].sub.work
<1>1. proc[s].sub.work \in Works
  BY LocalFacts, CallerKinds
<1>. QED
  BY <1>1 DEF WorkOf, SBlock, Block, Works

LEMMA LiveJobOf ==
  ASSUME TypeInv, NEW s \in Sessions, proc[s].pc \in WithJob
  PROVE  proc[s].job \in Live /\ proc[s].job \in Cells
<1>1. s \in Callers /\ proc[s].job \in Cells
  BY LocalFacts, CallerKinds DEF LocalsOk
<1>. QED
  BY <1>1, LiveFacts, CellsNotZero

LEMMA SameText ==
  ASSUME UNCHANGED scenario, NEW s \in Sessions
  PROVE  /\ SText(s)' = Submission(s, proc'[s].sub)
         /\ proc'[s].sub = proc[s].sub => SText(s)' = SText(s)
  BY DEF SText, Submission

LEMMA JobsSteadyStep ==
  ASSUME TypeInv, JobsInv, NEW n, n \notin Live, JobsSteady(n), \A s \in Sessions : SessionSteady(s)
  PROVE  JobsInv'
<1>1. UNCHANGED <<raced, scenario>>
  BY DEF JobsSteady
<1>2. TwinsMarked'
  <2>. SUFFICES ASSUME NEW c \in Live', NEW d \in Live', c # d, heap'[c].work = heap'[d].work
                PROVE  heap'[c].twin \/ heap'[d].twin
    BY DEF TwinsMarked
  <2>1. \A e \in Live : heap[e].work \in Known
    BY DEF Known
  <2>2. CASE c \in Live /\ heap'[c] = heap[c] /\ d \in Live /\ heap'[d] = heap[d]
    BY <2>2 DEF JobsInv, TwinsMarked
  <2>3. CASE c = n /\ heap'[c].twin = (heap'[c].work \in Known)
    BY <2>1, <2>3 DEF JobsSteady
  <2>4. CASE d = n /\ heap'[d].twin = (heap'[d].work \in Known)
    BY <2>1, <2>4 DEF JobsSteady
  <2>. QED
    BY <2>2, <2>3, <2>4 DEF JobsSteady
<1>3. ASSUME NEW s \in Sessions PROVE Unseen(s)' /\ Registered(s)' /\ OnItsJob(s)'
  <2>1. SessionSteady(s) /\ Unseen(s) /\ Registered(s) /\ OnItsJob(s)
    BY DEF JobsInv
  <2>2. Unseen(s)'
    BY <1>1, <2>1, SameText DEF SessionSteady, Unseen
  <2>3. Registered(s)'
    BY <1>1, <2>1, SameText DEF SessionSteady, Registered, In, JobOf
  <2>4. OnItsJob(s)'
    BY <2>1, SettledEntered DEF SessionSteady, OnItsJob, In, JobOf
  <2>. QED
    BY <2>2, <2>3, <2>4
<1>4. ASSUME NEW s \in Sessions, NEW t \in Sessions PROVE OnceUnlessRaced(s, t)'
  <2>1. SessionSteady(s) /\ SessionSteady(t) /\ OnceUnlessRaced(s, t)
    BY DEF JobsInv
  <2>. QED
    BY <1>1, <2>1, SameText DEF SessionSteady, OnceUnlessRaced, In
<1>. QED
  BY <1>2, <1>3, <1>4 DEF JobsInv

LEMMA TextKeptSteady ==
  ASSUME TypeInv, SharesInv, NEW n, n \notin Live, JobsSteady(n), NEW i \in DOMAIN stored,
         i \in DOMAIN stored', stored'[i] = stored[i]
  PROVE  StoredSent(i)' /\ TextKept(i)'
<1>1. StoredSent(i) /\ TextKept(i)
  BY DEF SharesInv
<1>2. PICK b : b = stored[i].block
  OBVIOUS
<1>3. WorkOf(b) \in Known
  BY <1>1, <1>2 DEF StoredSent, Known
<1>4. StoredSent(i)'
  BY <1>1 DEF StoredSent, JobsSteady, WorkOf
<1>5. ASSUME ~stored[i].twin, stored[i].text \notin raced, NEW c \in Live', heap'[c].work = WorkOf(b), ~heap'[c].twin
      PROVE  stored[i].text \in heap'[c].Submits
  BY <1>1, <1>2, <1>3, <1>5 DEF TextKept, JobsSteady
<1>6. WorkOf(stored[i].block)' = WorkOf(b)
  BY <1>2 DEF WorkOf
<1>. QED
  BY <1>2, <1>4, <1>5, <1>6 DEF TextKept, JobsSteady

LEMMA AgainSteady ==
  ASSUME TypeInv, SharesInv, UNCHANGED <<raced, scenario>>, NEW s \in Sessions, SessionSteady(s), NEW i \in DOMAIN stored,
         stored'[i] = stored[i]
  PROVE  AgainExcused(s, i)'
<1>1. AgainExcused(s, i)
  BY DEF SharesInv
<1>2. ASSUME proc'[s].pc \in Entered PROVE SBlock(s)' = SBlock(s) /\ SText(s)' = SText(s)
  BY <1>2, SameBlock, SameText DEF SessionSteady
<1>. QED
  BY <1>1, <1>2 DEF AgainExcused, SessionSteady, In, JobOf

LEMMA SharesSteadyStep ==
  ASSUME TypeInv, SharesInv, NEW n, n \notin Live, JobsSteady(n), \A s \in Sessions : SessionSteady(s), UNCHANGED stored
  PROVE  SharesInv'
<1>1. UNCHANGED <<raced, scenario>>
  BY DEF JobsSteady
<1>2. DuplicateNeedsRace'
  BY <1>1 DEF SharesInv, DuplicateNeedsRace
<1>3. \A i \in DOMAIN stored : StoredSent(i)' /\ TextKept(i)'
  BY TextKeptSteady
<1>4. \A i \in DOMAIN stored : \A s \in Sessions : AgainExcused(s, i)'
  BY <1>1, AgainSteady
<1>. QED
  BY <1>2, <1>3, <1>4 DEF SharesInv
-----------------------------------------------------------------------------
(* A move of one goroutine is such a step; so is a new job, its becoming    *)
(* the current one, and its entry in ValidJobs.                             *)

LEMMA SameSteady ==
  ASSUME TypeInv, JobsInv, UNCHANGED scenario, NEW s \in Sessions,
         proc'[s] = proc[s], proc[s].pc \in Entered => heap'[proc[s].job] = heap[proc[s].job]
  PROVE  SessionSteady(s)
<1>1. Unseen(s) /\ OnItsJob(s)
  BY DEF JobsInv
<1>. QED
  BY <1>1 DEF SessionSteady, Unseen, SText, OnItsJob, In, JobOf

LEMMA MoveSteady ==
  ASSUME TypeInv, JobsInv, NEW p \in Callers, NEW t, MoveOk(p, t), Lazy(p, t), UNCHANGED scenario
  PROVE  /\ \A n : JobsSteady(n)
         /\ \A s \in Sessions : SessionSteady(s)
<1>1. proc'[p] = t /\ Apart(p) /\ UNCHANGED <<heap, shown, raced>> /\ Live' \subseteq Live
  BY Moved, LiveShrinks DEF MoveOk
<1>2. \A n : JobsSteady(n)
  BY <1>1 DEF JobsSteady
<1>3. \A s \in Sessions : s # p => SessionSteady(s)
  BY <1>1, SameSteady, CallerKinds DEF Apart
<1>4. p \in Sessions => SessionSteady(p)
  BY <1>1, SettledEntered DEF Lazy, SessionSteady, JobsInv, OnItsJob, In, JobOf
<1>. QED
  BY <1>2, <1>3, <1>4

(* A session that installs a template keeps its job and its submission, and *)
(* is settled before and after.                                             *)
LEMMA InstallSteady ==
  ASSUME TypeInv, JobsInv, NEW p \in Callers, Apart(p), UNCHANGED scenario,
         \A s \in Sessions : proc[s].pc \in WithJob => heap'[proc[s].job] = heap[proc[s].job],
         p \in Sessions => /\ proc[p].pc \in Settled /\ proc'[p].pc \in Settled
                           /\ proc'[p].job = proc[p].job /\ proc'[p].sub = proc[p].sub
  PROVE  \A s \in Sessions : SessionSteady(s)
<1>1. \A s \in Sessions : s # p => SessionSteady(s)
  BY SameSteady, CallerKinds, SettledEntered DEF Apart
<1>2. p \in Sessions => SessionSteady(p)
  <2>1. p \in Sessions => proc'[p].pc # "append"
    BY DEF Settled, Installs
  <2>. QED
    BY <2>1, SettledEntered DEF SessionSteady, JobsInv, OnItsJob, In, JobOf
<1>. QED
  BY <1>1, <1>2

LEMMA MakesSteady ==
  ASSUME TypeInv, JobsInv, NEW p \in Callers, NEW n, Makes(p, n), proc[p].pc \in {"create", "update"},
         UNCHANGED <<noSubmitBlock, serving>>
  PROVE  JobsSteady(n) /\ n \notin Live /\ \A s \in Sessions : SessionSteady(s)
<1>1. /\ n \notin Live /\ Apart(p) /\ UNCHANGED <<scenario, raced, shown>>
      /\ \A c \in Cells : c # n => heap'[c] = heap[c]
      /\ heap'[n].twin = (heap'[n].work \in Known)
      /\ proc'[p].pc = "current" /\ proc'[p].job = proc[p].job /\ proc'[p].sub = proc[p].sub
  BY DEF Makes
<1>2. Live' \subseteq Live \union {n} /\ Live \subseteq Cells
  BY MakesType, LiveFacts
<1>3. JobsSteady(n)
  BY <1>1, <1>2 DEF JobsSteady
<1>4. \A s \in Sessions : proc[s].pc \in WithJob => heap'[proc[s].job] = heap[proc[s].job]
  BY <1>1, LiveJobOf
<1>5. proc[p].pc \in Settled /\ proc'[p].pc \in Settled
  BY <1>1 DEF Settled, Installs
<1>. QED
  BY <1>1, <1>3, <1>4, <1>5, InstallSteady

LEMMA ReplacesSteady ==
  ASSUME TypeInv, JobsInv, NEW p \in Callers, NEW t, Replaces(p, t), UNCHANGED <<noSubmitBlock, serving>>
  PROVE  (\A n : JobsSteady(n)) /\ \A s \in Sessions : SessionSteady(s)
<1>1. proc'[p] = t /\ Apart(p) /\ UNCHANGED <<heap, shown, raced, scenario>> /\ Live' \subseteq Live
  BY Moved, ReplacesType DEF Replaces
<1>2. \A n : JobsSteady(n)
  BY <1>1 DEF JobsSteady
<1>3. proc[p].pc \in Settled /\ proc'[p].pc \in Settled /\ proc'[p].job = proc[p].job /\ proc'[p].sub = proc[p].sub
  BY <1>1 DEF Replaces, GoesOn, Settled, Installs
<1>. QED
  BY <1>1, <1>2, <1>3, InstallSteady

LEMMA EntersSteady ==
  ASSUME TypeInv, JobsInv, NEW p \in Callers, Enters(p), TypeInv'
  PROVE  (\A n : JobsSteady(n)) /\ \A s \in Sessions : SessionSteady(s)
<1>1. Apart(p) /\ UNCHANGED <<shown, raced, scenario>> /\ Live' \subseteq Live /\ \A c \in Live' : heap'[c] = heap[c]
  BY DEF Enters
<1>2. \A n : JobsSteady(n)
  BY <1>1 DEF JobsSteady
<1>3. p \in Sessions => /\ proc[p].pc \in Settled /\ proc'[p].pc \in Settled
                        /\ proc'[p].job = proc[p].job /\ proc'[p].sub = proc[p].sub
  BY DEF Enters, Settled, Installs
<1>4. \A s \in Sessions : proc[s].pc \in WithJob => proc[s].job \in Live'
  <2>1. \A s \in Sessions : proc'[s].job = proc[s].job
    BY CallerKinds DEF Enters, Apart
  <2>2. \A s \in Sessions : proc[s].pc \in WithJob => proc[s].job # 0
    BY LiveJobOf, CellsNotZero
  <2>. QED
    BY <2>1, <2>2, CallerKinds DEF Live, Referred
<1>. QED
  BY <1>1, <1>2, <1>3, <1>4, InstallSteady

LEMMA StillSteady ==
  ASSUME TypeInv, JobsInv, UNCHANGED <<proc, heap, CurrentJob, ValidJobs, raced, scenario>>, shown \subseteq shown'
  PROVE  (\A n : JobsSteady(n)) /\ \A s \in Sessions : SessionSteady(s)
<1>1. Live' = Live
  BY DEF Live, Referred
<1>. QED
  BY <1>1, SameSteady DEF JobsSteady

(* Every step of the pool is steady, an append, or the writing of a share. *)
LEMMA SteadyKinds ==
  ASSUME TypeInv, JobsInv, [Next]_vars, TypeInv'
  PROVE  \/ UNCHANGED stored /\ \E n : n \notin Live /\ JobsSteady(n) /\ \A s \in Sessions : SessionSteady(s)
         \/ \E s \in Sessions : AppendSubmit(s)
         \/ \E s \in Sessions : PutShare(s)
<1>0. ASSUME UNCHANGED stored, \A n : JobsSteady(n), \A s \in Sessions : SessionSteady(s)
      PROVE  UNCHANGED stored /\ \E n : n \notin Live /\ JobsSteady(n) /\ \A s \in Sessions : SessionSteady(s)
  <2>1. 0 \notin Live
    BY DEF Live
  <2>. QED
    BY <1>0, <2>1
<1>1. CASE \E t : MainMoves(t)
  <2>1. PICK t : MainMoves(t)
    BY <1>1
  <2>2. MoveOk(Main, t) /\ Lazy(Main, t) /\ UNCHANGED <<scenario, stored>>
    BY <2>1, MainIs DEF MainMoves, Lazy, Frame, Asks
  <2>. QED
    BY <1>0, <2>2, MoveSteady, MainIs
<1>2. CASE OtherStep /\ UNCHANGED <<noSubmitBlock, serving>>
  <2>1. CASE \E p \in Callers : \E t : Quiet(p, t)
    <3>0. PICK p \in Callers : \E t : Quiet(p, t)
      BY <2>1
    <3>1. PICK t : Quiet(p, t)
      BY <3>0
    <3>2. MoveOk(p, t) /\ Lazy(p, t) /\ UNCHANGED <<scenario, stored>>
      BY <3>1 DEF Quiet, Frame, Asks
    <3>. QED
      BY <1>0, <3>2, MoveSteady
  <2>2. CASE \E s \in Sessions : SessionCalls(s)
    <3>1. PICK s \in Sessions : SessionCalls(s)
      BY <2>2
    <3>2. s \in Callers /\ UNCHANGED <<scenario, stored>> /\ \E t : MoveOk(s, t) /\ Lazy(s, t)
      BY <3>1, SubmitBlockMoves, AskAcceptedMoves, CheckedMoves, CallerKinds DEF SessionCalls, Calls, Frame
    <3>. QED
      BY <1>0, <3>2, MoveSteady
  <2>3. CASE \E p \in Callers : MakesJob(p)
    <3>1. PICK p \in Callers : MakesJob(p)
      BY <2>3
    <3>2. proc[p].pc \in {"create", "update"} /\ Makes(p, FreeCell)
      BY <3>1, InstallMakes DEF MakesJob
    <3>3. UNCHANGED stored
      BY <3>2 DEF Makes
    <3>. QED
      BY <1>2, <3>2, <3>3, MakesSteady
  <2>4. CASE \E p \in Callers : SetCurrent(p)
    <3>0. PICK p \in Callers : \E t : Replaces(p, t)
      BY <2>4, SetCurrentReplaces
    <3>1. PICK t : Replaces(p, t)
      BY <3>0
    <3>. QED
      BY <1>0, <1>2, <3>1, ReplacesSteady DEF Replaces
  <2>5. CASE \E p \in Callers : SetValid(p)
    <3>1. PICK p \in Callers : Enters(p)
      BY <2>5, SetValidEnters
    <3>. QED
      BY <1>0, <3>1, EntersSteady DEF Enters
  <2>6. CASE (Network \/ \E p \in Callers : Answer(p)) /\ UNCHANGED jobVars
    <3>1. UNCHANGED scenario
      BY <2>6, NetworkSpreads, AnswerAnswers DEF Spreads, Answers
    <3>2. UNCHANGED <<proc, heap, CurrentJob, ValidJobs, raced, stored, shown>>
      BY <2>6 DEF jobVars, table, outside
    <3>. QED
      BY <1>0, <3>1, <3>2, StillSteady
  <2>7. CASE Clock \/ SendJob
    <3>1. UNCHANGED <<proc, heap, CurrentJob, ValidJobs, raced, stored, scenario>> /\ shown \subseteq shown'
      BY <2>7 DEF Clock, SendJob, daemonVars, table
    <3>. QED
      BY <1>0, <3>1, StillSteady
  <2>. QED
    BY <1>2, <2>1, <2>2, <2>3, <2>4, <2>5, <2>6, <2>7 DEF OtherStep
<1>3. CASE UNCHANGED vars
  <2>1. UNCHANGED <<proc, heap, CurrentJob, ValidJobs, raced, stored, scenario, shown>>
    BY <1>3 DEF vars, daemonVars, jobVars, table, outside
  <2>. QED
    BY <1>0, <2>1, StillSteady
<1>. QED
  BY <1>1, <1>2, <1>3, NextKinds
-----------------------------------------------------------------------------
(* RegisterSubmit's second half.  What it overwrites has raced. *)

LEMMA AppendStep ==
  ASSUME TypeInv, JobsInv, SharesInv, NEW s \in Sessions, AppendSubmit(s), Live' \subseteq Live
  PROVE  JobsInv' /\ SharesInv'
<1>. DEFINE j == proc[s].job
            text == SText(s)
<1>1. /\ proc[s].pc = "append" /\ j \in Cells /\ Apart(s) /\ UNCHANGED <<scenario, shown, stored>>
      /\ \A c \in Cells : /\ heap'[c].work = heap[c].work /\ heap'[c].twin = heap[c].twin
                          /\ c # j => heap'[c].Submits = heap[c].Submits
      /\ heap'[j].Submits = proc[s].snap \union {text}
      /\ IF proc[s].snap = heap[j].Submits THEN raced' = raced
         ELSE raced' = raced \union heap[j].Submits \union {text}
      /\ proc'[s].pc = "judge" /\ proc'[s].job = j /\ proc'[s].sub = proc[s].sub
  BY AppendFacts DEF SText
<1>2. text \notin proc[s].snap
  BY <1>1 DEF JobsInv, Unseen
<1>. HIDE DEF text
<1>3. raced \subseteq raced' /\ \A c \in Cells : heap[c].Submits \subseteq heap'[c].Submits \union raced'
  BY <1>1
<1>4. text \in heap[j].Submits => text \in raced'
  BY <1>1, <1>2
<1>5. Live \subseteq Cells /\ j \in Live
  BY <1>1, LiveFacts, LiveJobOf, SettledEntered
<1>6. SText(s)' = text /\ SBlock(s)' = SBlock(s)
  BY <1>1, SameText, SameBlock DEF text
<1>7. /\ \A q \in Sessions : SText(q)' = SText(q) /\ SBlock(q)' = SBlock(q) /\ proc'[q].job = proc[q].job
                             /\ proc'[q].sub = proc[q].sub
      /\ \A q \in Sessions : q # s => proc'[q] = proc[q]
  BY <1>1, <1>6, SameText, SameBlock, CallerKinds DEF Apart, text
<1>8. TwinsMarked'
  BY <1>1, <1>5 DEF JobsInv, TwinsMarked
<1>9. "judge" \notin Settled /\ "judge" \in Entered /\ "judge" # "append"
  BY DEF Entered, Settled, Installs
<1>10. \A q \in Sessions : Unseen(q)' /\ OnItsJob(q)'
  <2>1. Unseen(s)' /\ OnItsJob(s)'
    BY <1>1, <1>9 DEF Unseen, OnItsJob, In
  <2>2. ASSUME NEW q \in Sessions, q # s PROVE Unseen(q)'
    BY <1>7, <2>2 DEF JobsInv, Unseen
  <2>3. ASSUME NEW q \in Sessions, q # s PROVE OnItsJob(q)'
    <3>1. proc[q].pc \in Settled => proc[q].job \in Cells
      BY LiveJobOf, SettledEntered
    <3>. QED
      BY <1>1, <1>7, <2>3, <3>1 DEF JobsInv, OnItsJob, In, JobOf
  <2>. QED
    BY <2>1, <2>2, <2>3
<1>11. \A q \in Sessions : Registered(q)'
  <2>1. Registered(s)'
    BY <1>1, <1>6 DEF Registered, JobOf
  <2>2. ASSUME NEW q \in Sessions, q # s PROVE Registered(q)'
    <3>1. proc[q].pc \in Entered => proc[q].job \in Cells
      BY LiveJobOf, SettledEntered
    <3>. QED
      BY <1>3, <1>7, <2>2, <3>1 DEF JobsInv, Registered, In, JobOf
  <2>. QED
    BY <2>1, <2>2
<1>12. ASSUME NEW q \in Sessions, q # s, proc[q].pc \in Entered, proc[q].job = j, SText(q) = text
       PROVE  text \in raced'
  <2>1. text \in raced \union heap[j].Submits
    BY <1>12 DEF JobsInv, Registered, In, JobOf
  <2>. QED
    BY <1>3, <1>4, <2>1
<1>13. \A q, t \in Sessions : OnceUnlessRaced(q, t)'
  <2>1. ASSUME NEW q \in Sessions, NEW t \in Sessions, q # s, t # s PROVE OnceUnlessRaced(q, t)'
    BY <1>3, <1>7, <2>1 DEF JobsInv, OnceUnlessRaced, In
  <2>2. ASSUME NEW q \in Sessions, q # s PROVE OnceUnlessRaced(q, s)' /\ OnceUnlessRaced(s, q)'
    BY <1>6, <1>7, <1>12, <2>2 DEF OnceUnlessRaced, In
  <2>3. OnceUnlessRaced(s, s)'
    BY DEF OnceUnlessRaced
  <2>. QED
    BY <2>1, <2>2, <2>3
<1>14. JobsInv'
  BY <1>8, <1>10, <1>11, <1>13 DEF JobsInv
<1>15. DuplicateNeedsRace'
  BY <1>1, <1>3 DEF SharesInv, DuplicateNeedsRace
<1>16. ASSUME NEW i \in DOMAIN stored PROVE StoredSent(i)' /\ TextKept(i)'
  <2>1. StoredSent(i) /\ TextKept(i)
    BY DEF SharesInv
  <2>2. StoredSent(i)'
    BY <1>1, <2>1 DEF StoredSent, WorkOf
  <2>3. PICK b : b = stored[i].block
    OBVIOUS
  <2>4. WorkOf(stored[i].block)' = WorkOf(b)
    BY <1>1, <2>3 DEF WorkOf
  <2>5. ASSUME ~stored[i].twin, stored[i].text \notin raced', NEW c \in Live', heap'[c].work = WorkOf(b), ~heap'[c].twin
        PROVE  stored[i].text \in heap'[c].Submits
    <3>1. c \in Live /\ c \in Cells /\ stored[i].text \notin raced
      BY <1>3, <1>5, <2>5
    <3>2. stored[i].text \in heap[c].Submits
      BY <1>1, <2>1, <2>3, <2>5, <3>1 DEF TextKept
    <3>. QED
      BY <1>3, <2>5, <3>1, <3>2
  <2>. QED
    BY <1>1, <2>2, <2>3, <2>4, <2>5 DEF TextKept
<1>17. ASSUME NEW i \in DOMAIN stored, NEW q \in Sessions PROVE AgainExcused(q, i)'
  <2>1. CASE q # s
    <3>1. AgainExcused(q, i)
      BY DEF SharesInv
    <3>2. proc[q].pc \in Entered => proc[q].job \in Cells
      BY LiveJobOf, SettledEntered
    <3>. QED
      BY <1>1, <1>3, <1>7, <2>1, <3>1, <3>2 DEF AgainExcused, In, JobOf
  <2>2. CASE q = s
    <3>. SUFFICES ASSUME heap[j].work = proc[s].sub.work, stored[i].block = SBlock(s), stored[i].text = text, ~stored[i].twin,
                         ~heap[j].twin, text \notin raced
                  PROVE  text \in raced'
      BY <1>1, <1>3, <1>6, <2>2 DEF AgainExcused, JobOf
    <3>1. WorkOf(stored[i].block) = heap[j].work
      BY <1>1, BlockParts
    <3>2. text \in heap[j].Submits
      BY <1>5, <3>1 DEF SharesInv, TextKept
    <3>. QED
      BY <1>4, <3>2
  <2>. QED
    BY <2>1, <2>2
<1>18. SharesInv'
  BY <1>1, <1>15, <1>16, <1>17 DEF SharesInv
<1>. QED
  BY <1>14, <1>18
-----------------------------------------------------------------------------
(* PutShare.  Of two sessions with the same work and text, on jobs that are *)
(* no twins, the jobs are one job: the second was turned away as a          *)
(* duplicate, or the registrations met.                                     *)

LEMMA PutShareStep ==
  ASSUME TypeInv, JobsInv, SharesInv, NEW s \in Sessions, PutShare(s)
  PROVE  JobsInv' /\ SharesInv'
<1>. DEFINE j == proc[s].job
            text == SText(s)
            r == NewShare(s)
<1>1. /\ s \in Callers /\ proc[s].pc = "put" /\ proc'[s] = Idle /\ Apart(s) /\ UNCHANGED <<node, call, scenario>>
      /\ MoveOk(s, Idle) /\ Lazy(s, Idle)
      /\ \E n \in Nat : /\ DOMAIN stored = 1..n /\ DOMAIN stored' = 1..(n + 1)
                        /\ stored'[n + 1] = r /\ \A i \in 1..n : stored'[i] = stored[i]
  BY PutShareStores, CallerKinds
<1>2. PICK n \in Nat : /\ DOMAIN stored = 1..n /\ DOMAIN stored' = 1..(n + 1)
                       /\ stored'[n + 1] = r /\ \A i \in 1..n : stored'[i] = stored[i]
  BY <1>1
<1>3. (\A m : JobsSteady(m)) /\ \A q \in Sessions : SessionSteady(q)
  BY <1>1, MoveSteady
<1>4. 0 \notin Live /\ JobsSteady(0)
  BY <1>3 DEF Live
<1>5. JobsInv'
  BY <1>3, <1>4, JobsSteadyStep
<1>6. UNCHANGED <<heap, shown, raced>> /\ Live' \subseteq Live
  BY <1>1, LiveShrinks DEF MoveOk
<1>7. r.block = SBlock(s) /\ r.text = text /\ r.twin = heap[j].twin
  BY DEF NewShare, SText
<1>8. WorkOf(r.block) = proc[s].sub.work /\ r.text = text
  BY <1>1, <1>7, BlockParts
<1>9. "put" \in Settled /\ "put" \in Entered /\ "put" \in WithJob
  BY DEF Settled, Entered, WithJob
<1>10. j \in Live /\ heap[j].work = proc[s].sub.work /\ text \in raced \union heap[j].Submits
  BY <1>1, <1>9, LiveJobOf DEF JobsInv, OnItsJob, Registered, In, JobOf
<1>11. \E m \in shown : m.work = WorkOf(r.block)
  BY <1>1, <1>8, LocalFacts DEF LocalsOk
<1>. HIDE DEF text, r, j
(* The new share: its work was sent, and its text is in Submits. *)
<1>12. \A i \in 1..(n + 1) : i \in 1..n \/ i = n + 1
  OBVIOUS
<1>13. n + 1 \in 1..(n + 1) /\ \A i \in 1..n : i \in 1..(n + 1) /\ i < n + 1
  OBVIOUS
<1>14. ASSUME ~r.twin, text \notin raced, NEW c \in Live, heap[c].work = WorkOf(r.block), ~heap[c].twin
       PROVE  text \in heap[c].Submits
  <2>1. c = j
    BY <1>7, <1>8, <1>10, <1>14 DEF JobsInv, TwinsMarked
  <2>. QED
    BY <1>10, <1>14, <2>1
<1>15. \A k \in DOMAIN stored' : k = n + 1 => StoredSent(k)' /\ TextKept(k)'
  <2>1. \A k : k = n + 1 => StoredSent(k)'
    BY <1>2, <1>6, <1>11 DEF StoredSent, WorkOf
  <2>2. \A k : k = n + 1 => WorkOf(stored'[k].block) = WorkOf(r.block) /\ stored'[k].text = text
    BY <1>2, <1>8
  <2>3. \A k : k = n + 1 => TextKept(k)'
    BY <1>2, <1>6, <1>8, <1>14 DEF TextKept, WorkOf
  <2>. QED
    BY <2>1, <2>3
<1>16. \A i \in 1..n : StoredSent(i)' /\ TextKept(i)'
  BY <1>2, <1>4, <1>13, TextKeptSteady
<1>17. \A i \in 1..n : \A q \in Sessions : AgainExcused(q, i)'
  BY <1>1, <1>2, <1>3, <1>6, AgainSteady
<1>18. \A k \in DOMAIN stored' : k = n + 1 => \A q \in Sessions : AgainExcused(q, k)'
  <2>. SUFFICES ASSUME NEW q \in Sessions, NEW k, k = n + 1 PROVE AgainExcused(q, k)'
    OBVIOUS
  <2>1. CASE q = s
    BY <1>1, <2>1 DEF AgainExcused, In, Idle, Entered, Settled, Installs
  <2>2. CASE q # s
    <3>1. proc'[q] = proc[q]
      BY <1>1, <2>2, CallerKinds DEF Apart
    <3>2. SText(q)' = SText(q) /\ SBlock(q)' = SBlock(q)
      BY <1>1, <3>1, SameText, SameBlock
    <3>. SUFFICES ASSUME proc[q].pc \in Entered, JobOf(q).work = proc[q].sub.work, r.block = SBlock(q), r.text = SText(q),
                         ~r.twin, ~JobOf(q).twin
                  PROVE  SText(q) \in raced
      BY <1>2, <1>6, <3>1, <3>2 DEF AgainExcused, In, JobOf
    <3>3. proc[q].pc # "idle" /\ proc[q].job \in Live
      BY LiveJobOf, SettledEntered
    <3>4. proc[q].sub.work = proc[s].sub.work /\ SText(q) = text
      BY <1>8, <3>3, BlockParts
    <3>5. proc[q].job = j
      BY <1>7, <1>10, <3>3, <3>4 DEF JobsInv, TwinsMarked, JobOf
    <3>6. OnceUnlessRaced(q, s)
      BY DEF JobsInv
    <3>. QED
      BY <1>1, <1>9, <2>2, <3>4, <3>5, <3>6 DEF OnceUnlessRaced, In, text, j
  <2>. QED
    BY <2>1, <2>2
<1>19. DuplicateNeedsRace'
  <2>1. ASSUME NEW i \in 1..n, NEW k \in 1..n, i < k, stored[i].block = stored[k].block, stored[i].text = stored[k].text
        PROVE  stored[i].text \in raced \/ stored[i].twin \/ stored[k].twin
    BY <1>2, <2>1 DEF SharesInv, DuplicateNeedsRace
  <2>2. ASSUME NEW i \in 1..n, stored[i].block = r.block, stored[i].text = r.text
        PROVE  stored[i].text \in raced \/ stored[i].twin \/ r.twin
    <3>1. AgainExcused(s, i)
      BY <1>2 DEF SharesInv
    <3>. QED
      BY <1>1, <1>7, <1>8, <1>9, <1>10, <2>2, <3>1 DEF AgainExcused, In, JobOf, text, j
  <2>. SUFFICES ASSUME NEW i \in 1..(n + 1), NEW k \in 1..(n + 1), i < k, stored'[i].block = stored'[k].block,
                       stored'[i].text = stored'[k].text
                PROVE  stored'[i].text \in raced \/ stored'[i].twin \/ stored'[k].twin
    BY <1>2, <1>6 DEF DuplicateNeedsRace
  <2>3. i \in 1..n
    OBVIOUS
  <2>. QED
    BY <1>2, <1>12, <2>1, <2>2, <2>3
<1>20. SharesInv'
  BY <1>2, <1>12, <1>15, <1>16, <1>17, <1>18, <1>19 DEF SharesInv
<1>. QED
  BY <1>5, <1>20

LEMMA DuplicateStep ==
  ASSUME TypeInv, JobsInv, SharesInv, [Next]_vars
  PROVE  JobsInv' /\ SharesInv'
<1>1. TypeInv'
  BY TypeStep
<1>2. CASE UNCHANGED stored /\ \E n : n \notin Live /\ JobsSteady(n) /\ \A s \in Sessions : SessionSteady(s)
  BY <1>2, JobsSteadyStep, SharesSteadyStep
<1>3. CASE \E s \in Sessions : AppendSubmit(s)
  <2>1. PICK s \in Sessions : AppendSubmit(s)
    BY <1>3
  <2>2. Live' \subseteq Live
    <3>1. \A q \in Callers : proc'[q].job = proc[q].job /\ proc'[q].new = proc[q].new
      BY <2>1, AppendFacts DEF Apart
    <3>2. UNCHANGED <<CurrentJob, ValidJobs>>
      BY <2>1, AppendFacts
    <3>. QED
      BY <3>1, <3>2 DEF Live, Referred
  <2>. QED
    BY <2>1, <2>2, AppendStep
<1>4. CASE \E s \in Sessions : PutShare(s)
  BY <1>4, PutShareStep
<1>. QED
  BY <1>1, <1>2, <1>3, <1>4, SteadyKinds

(* No proof of work is credited twice (RegisterSubmit, ProcessSubmit,        *)
(* PutShare), however the sessions, the poller and the block finders         *)
(* interleave, unless it was sent in another spelling (RegisterSubmit        *)
(* compares text), two registrations on one job overlapped, or               *)
(* UpdateCurrentJob made a job with an empty Submits of work that miners had *)
(* already.                                                                  *)
THEOREM DuplicatesNeedRace == Spec => []DuplicateNeedsRace
<1>1. Init => JobsInv /\ SharesInv
  <2>. SUFFICES ASSUME Init PROVE JobsInv /\ SharesInv
    OBVIOUS
  <2>1. \A s \in Sessions : proc[s].pc = "idle"
    BY CallerKinds DEF Init, JobsInit, Idle
  <2>2. stored = <<>> /\ CurrentJob = 0 /\ ValidJobs = <<>>
    BY DEF Init, JobsInit
  <2>3. \A p \in Callers : proc[p].job = 0 /\ proc[p].new = 0
    BY DEF Init, JobsInit, Idle
  <2>4. Live = {}
    BY <2>2, <2>3 DEF Live, Referred
  <2>5. \A i \in DOMAIN stored : FALSE
    BY <2>2
  <2>6. JobsInv
    BY <2>1, <2>4 DEF JobsInv, TwinsMarked, Unseen, Registered, OnItsJob, OnceUnlessRaced, In, Entered, Settled, Installs
  <2>. QED
    BY <2>5, <2>6 DEF SharesInv, DuplicateNeedsRace
<1>2. TypeInv /\ JobsInv /\ SharesInv /\ [Next]_vars => JobsInv' /\ SharesInv'
  BY DuplicateStep
<1>3. SharesInv => DuplicateNeedsRace
  BY DEF SharesInv
<1>. QED
  BY TypeInvariant, <1>1, <1>2, <1>3, PTL DEF Spec
===============================================================================
