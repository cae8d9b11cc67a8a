------------------------------ MODULE PoolProofs ------------------------------
(***************************************************************************)
(* What TLAPS proves of start-up, job manager and daemon manager, for any  *)
(* number of daemons and sessions, every scenario and any number of        *)
(* templates, seconds, submits and failing calls: types, the method blocks *)
(* are submitted by, and what becomes of a block that was found.           *)
(*                                                                         *)
(* The steps of Next are many, the ways they can disturb an invariant few: *)
(* NextKinds sorts them (OtherStep), and each invariant is shown to survive*)
(* each kind once.                                                         *)
(***************************************************************************)
EXTENDS Pool, TLAPS

-----------------------------------------------------------------------------
(* Types.                                                                  *)

Tpls == [height : Nat, rev : Nat]
Works == [height : Nat, rev : Nat, stamp : Nat]
Nonces == {"none"} \union (UNION {sc.nonces : sc \in Scenarios})
ExtraNonces == {sc.extraNonce1[s] : sc \in Scenarios, s \in Sessions}
Spellings == {"none"} \union (UNION {sc.spellings : sc \in Scenarios})
Keys == ExtraNonces \X Nonces
Texts == ExtraNonces \X Nonces \X Spellings
Blocks == [height : Nat, rev : Nat, stamp : Nat, key : Keys]
Methods == {"none", "getpeerinfo", "getblocktemplate", "submit", "submitblock", "getblock", "cmd"}

NodeRecord == [height : Nat, rev : Nat, blocks : SUBSET Blocks]
CallRecord == [method : Methods, block : SUBSET Blocks, left : SUBSET Daemons, gone : SUBSET Daemons,
               errors : SUBSET Daemons]
JobRecord == [id : Nat, work : Works \union {{}}, Submits : SUBSET Texts, twin : BOOLEAN]
SentRecord == [id : Nat, work : Works]
SubRecord == [id : Nat, work : Works \union {{}}, nonce : Nonces, hex : Spellings]
StoredRecord == [block : Blocks, text : Texts, accepted : BOOLEAN, twin : BOOLEAN]

(* Where the goroutines may be. *)
Installs == {"fetch", "decide", "create", "update", "current", "valid"}
Settled == {"submit", "submitting", "checking", "put"} \union Installs   \* a session past its judgement
Entered == {"judge"} \union Settled                                      \* past its registration
WithJob == {"register", "append"} \union Entered                         \* past its lookup
Submitted == Settled \ {"submit"}                                        \* its block may be on a daemon
SessionPcs == {"idle", "lookup"} \union WithJob
MainPcs == {"check", "checking", "balance", "ready", "readying", "detect", "probe", "inform", "setup",
            "serve", "payments", "done"} \union Installs
PollerPcs == {"idle"} \union Installs
Pcs == SessionPcs \union MainPcs

ProcRecord == [pc : Pcs, tpl : Tpls \union {{}}, job : Cells \union {0}, new : Cells \union {0},
               sub : SubRecord, snap : SUBSET Texts, accepted : BOOLEAN]

PcsOf(p) == IF p \in Sessions THEN SessionPcs ELSE IF p = Main THEN MainPcs ELSE PollerPcs

(* The locals a goroutine needs where it is. *)
LocalsOk(p, r) ==
  /\ r.pc \in PcsOf(p)
  /\ r.pc \in {"setup", "decide", "create", "update"} => r.tpl \in Tpls
  /\ r.pc \in {"current", "valid"} => r.new \in Cells
  /\ r.pc \notin {"current", "valid"} => r.new = 0
  /\ r.pc \in {"update", "valid", "serve", "payments", "done"} => CurrentJob # 0
  /\ p \in Sessions /\ r.pc # "idle" => \E j \in shown : j.id = r.sub.id /\ j.work = r.sub.work
  /\ p \in Sessions /\ r.pc \in WithJob => r.job \in Cells
  /\ ~(p \in Sessions /\ r.pc \in WithJob) => r.job = 0

DaemonTypes ==
  /\ alive \in BOOLEAN /\ scenario \in Scenarios /\ faults \in 0..scenario.faults
  /\ node \in [Daemons -> NodeRecord] /\ call \in [Callers -> CallRecord]

TableTypes ==
  /\ heap \in [Cells -> JobRecord] /\ CurrentJob \in Cells \union {0} /\ ValidJobs \in Seq(Cells \union {0})

HistoryTypes ==
  /\ shown \subseteq SentRecord /\ second \in Nat /\ submits \in 0..scenario.submits
  /\ stored \in Seq(StoredRecord) /\ raced \subseteq Texts

(* The cells the pool refers to hold jobs, of ids that were given out. *)
Live == Referred(ValidJobs, Callers) \ {0}
LiveJobs == \A c \in Live : heap[c].work \in Works /\ heap[c].id \in DOMAIN ValidJobs
SentJobs == \A j \in shown : j.id \in DOMAIN ValidJobs

(* TypeOK with the types it leaves open. *)
TypeInv ==
  /\ DaemonTypes /\ TableTypes /\ HistoryTypes
  /\ noSubmitBlock \in BOOLEAN /\ serving \in BOOLEAN
  /\ proc \in [Callers -> ProcRecord] /\ \A p \in Callers : LocalsOk(p, proc[p])
  /\ LiveJobs /\ SentJobs /\ (serving => CurrentJob # 0)
  /\ \A i \in DOMAIN ValidJobs : ValidJobs[i] # 0 => heap[ValidJobs[i]].id = i
-----------------------------------------------------------------------------
LEMMA CallerKinds ==
  /\ Main \in Callers /\ Poller \in Callers /\ Sessions \subseteq Callers
  /\ Main \notin Sessions /\ Poller \notin Sessions /\ Poller # Main
  /\ \A p \in Callers : p \in Sessions \/ p = Main \/ p = Poller
  BY JobsAssumption, PoolAssumption

LEMMA CellsNotZero == 0 \notin Cells
  BY JobsAssumption

LEMMA IdleType == Idle \in ProcRecord /\ NoCall \in CallRecord /\ NoJob \in JobRecord
<1>0. "none" \in Nonces /\ "none" \in Spellings
  BY DEF Nonces, Spellings
<1>1. NoSub \in SubRecord
  BY <1>0 DEF NoSub, SubRecord
<1>2. Idle \in ProcRecord
  BY <1>1 DEF Idle, ProcRecord, Pcs, SessionPcs
<1>3. NoCall \in CallRecord /\ NoJob \in JobRecord
  BY DEF NoCall, CallRecord, Methods, NoJob, JobRecord
<1>. QED
  BY <1>2, <1>3

LEMMA ScenarioFacts ==
  ASSUME scenario \in Scenarios
  PROVE  /\ scenario.height \in Nat /\ scenario.revs \in Nat /\ scenario.faults \in Nat
         /\ scenario.seconds \in Nat /\ scenario.submits \in Nat /\ scenario.lacks \in BOOLEAN
         /\ scenario.noSubmitBlock \in BOOLEAN
  BY DaemonsAssumption

LEMMA TextType ==
  ASSUME scenario \in Scenarios, NEW s \in Sessions, NEW sub \in SubRecord
  PROVE  /\ Submission(s, sub) \in Texts
         /\ <<scenario.extraNonce1[s], sub.nonce>> \in Keys
  BY DEF Submission, Texts, Keys, ExtraNonces, SubRecord

LEMMA BlockType ==
  ASSUME scenario \in Scenarios, NEW s \in Sessions, NEW sub \in SubRecord, sub.work \in Works
  PROVE  Block(s, sub) \in Blocks
  BY TextType DEF Block, Blocks, Works

(* What the garbage collector sees. *)
LEMMA LiveFacts ==
  ASSUME TypeInv
  PROVE  /\ Live \subseteq Cells
         /\ CurrentJob # 0 => CurrentJob \in Live
         /\ \A p \in Callers : proc[p].job # 0 => proc[p].job \in Live
         /\ \A p \in Callers : proc[p].new # 0 => proc[p].new \in Live
         /\ \A i \in DOMAIN ValidJobs : ValidJobs[i] # 0 => ValidJobs[i] \in Live
<1>1. \A p \in Callers : proc[p].job \in Cells \union {0} /\ proc[p].new \in Cells \union {0}
  BY DEF TypeInv, ProcRecord
<1>2. \A i \in DOMAIN ValidJobs : ValidJobs[i] \in Cells \union {0}
  BY DEF TypeInv, TableTypes
<1>. QED
  BY <1>1, <1>2 DEF Live, Referred, TypeInv, TableTypes

LEMMA FreeCellFacts ==
  ASSUME TypeInv, FreeCells # {}
  PROVE  FreeCell \in Cells /\ FreeCell \notin Live /\ FreeCell # 0
<1>1. FreeCell \in FreeCells
  BY DEF FreeCell
<1>. QED
  BY <1>1, CellsNotZero DEF FreeCells, Live

LEMMA VerdictFacts ==
  ASSUME TypeInv, NEW tpl \in Tpls
  PROVE  /\ Verdict(tpl) \in {"create", "update", "ignore"}
         /\ Verdict(tpl) # "create" => CurrentJob # 0
<1>1. CASE CurrentJob = 0
  BY <1>1 DEF Verdict
<1>2. CASE CurrentJob # 0
  <2>1. heap[CurrentJob].work \in Works
    BY <1>2, LiveFacts DEF TypeInv, LiveJobs
  <2>2. heap[CurrentJob].work.height \in Nat /\ tpl.height \in Nat
    BY <2>1 DEF Works, Tpls
  <2>. QED
    BY <1>2, <2>2 DEF Verdict
<1>. QED
  BY <1>1, <1>2
-----------------------------------------------------------------------------
(* Most steps move one goroutine and leave the jobs alone.  What such a    *)
(* move has to respect:                                                    *)

Apart(p) == \A q \in Callers \ {p} : proc'[q] = proc[q]

(* its new state t is a state of its, and it takes up no other cell than    *)
(* one in use;                                                              *)
MoveOk(p, t) ==
  /\ proc' = [proc EXCEPT ![p] = t] /\ t \in ProcRecord /\ LocalsOk(p, t)
  /\ t.job \in Live \union {0} /\ t.new \in {proc[p].new, 0}
  /\ UNCHANGED <<heap, CurrentJob, ValidJobs, shown, raced>>

(* a session keeps the submission it registered, and is not past its       *)
(* registration or its judgement without them;                             *)
Lazy(p, t) ==
  p \in Sessions =>
    /\ t.pc \in Entered \union {"append"} => t.job = proc[p].job /\ t.sub = proc[p].sub
    /\ t.pc \in Entered => proc[p].pc \in Entered
    /\ t.pc \in Settled => proc[p].pc \in Settled \/ heap[proc[p].job].work = proc[p].sub.work
    /\ t.pc = "append" => Submission(p, t.sub) \notin t.snap

(* and its block is not forgotten. *)
Holds(p, t) ==
  p \in Sessions =>
    /\ {proc[p].pc, t.pc} \cap {"submitting", "checking"} = {}
    /\ proc[p].pc \in Submitted => t.pc \in Submitted /\ t.sub = proc[p].sub
    /\ t.accepted => proc[p].accepted /\ t.sub = proc[p].sub

Frame == DaemonTypes' /\ HistoryTypes' /\ UNCHANGED scenario

LEMMA Moved ==
  ASSUME TypeInv, NEW p \in Callers, NEW t \in ProcRecord, proc' = [proc EXCEPT ![p] = t]
  PROVE  proc' \in [Callers -> ProcRecord] /\ proc'[p] = t /\ Apart(p)
  BY DEF TypeInv, Apart

LEMMA LocalFacts ==
  ASSUME TypeInv, NEW p \in Callers
  PROVE  /\ proc[p] \in ProcRecord /\ LocalsOk(p, proc[p])
         /\ proc[p].sub \in SubRecord /\ proc[p].job \in Live \union {0} /\ proc[p].new \in Live \union {0}
         /\ p \in Sessions /\ proc[p].pc # "idle" => proc[p].sub.work \in Works /\ proc[p].sub.id \in DOMAIN ValidJobs
<1>1. proc[p] \in ProcRecord /\ LocalsOk(p, proc[p])
  BY DEF TypeInv
<1>2. p \in Sessions /\ proc[p].pc # "idle" => \E j \in shown : j.id = proc[p].sub.id /\ j.work = proc[p].sub.work
  BY <1>1 DEF LocalsOk
<1>3. \A j \in shown : j.id \in DOMAIN ValidJobs /\ j.work \in Works
  BY DEF TypeInv, SentJobs, HistoryTypes, SentRecord
<1>. QED
  BY <1>1, <1>2, <1>3, LiveFacts DEF ProcRecord

LEMMA LiveShrinks ==
  ASSUME TypeInv, NEW p \in Callers, NEW t, MoveOk(p, t)
  PROVE  Live' \subseteq Live
<1>1. /\ \A q \in Callers : proc'[q].job \in Live \union {0} /\ proc'[q].new \in Live \union {0}
      /\ CurrentJob' = CurrentJob /\ ValidJobs' = ValidJobs
  <2>1. proc'[p] = t /\ Apart(p)
    BY Moved DEF MoveOk
  <2>. QED
    BY <2>1, LocalFacts DEF MoveOk, Apart
<1>. QED
  BY <1>1 DEF Live, Referred

(* A move keeps the type invariant. *)
LEMMA MoveType ==
  ASSUME TypeInv, NEW p \in Callers, NEW t, MoveOk(p, t), Frame,
         noSubmitBlock' \in BOOLEAN, serving' \in BOOLEAN, serving' => CurrentJob # 0
  PROVE  TypeInv'
<1>1. proc' \in [Callers -> ProcRecord] /\ proc'[p] = t /\ Apart(p)
  BY Moved DEF MoveOk
<1>2. UNCHANGED <<heap, CurrentJob, ValidJobs, shown>>
  BY DEF MoveOk
<1>3. \A q \in Callers : LocalsOk(q, proc'[q])
  BY <1>1 DEF Apart, TypeInv, MoveOk
<1>4. \A q \in Callers : LocalsOk(q, proc[q])'
  BY <1>2, <1>3 DEF LocalsOk
<1>5. LiveJobs'
  BY <1>2, LiveShrinks DEF LiveJobs, TypeInv
<1>6. SentJobs' /\ TableTypes'
  BY <1>2 DEF SentJobs, TableTypes, TypeInv
<1>. QED
  BY <1>1, <1>2, <1>4, <1>5, <1>6 DEF Frame, TypeInv

LEMMA SameFrame ==
  ASSUME TypeInv, UNCHANGED <<alive, node, call, faults, scenario, shown, second, submits, stored, raced>>
  PROVE  Frame
  BY DEF Frame, TypeInv, DaemonTypes, HistoryTypes

LEMMA FaultType ==
  ASSUME TypeInv, UNCHANGED scenario, faults' = faults \/ Fault
  PROVE  faults' \in 0..scenario'.faults /\ faults' \in Nat
  BY ScenarioFacts DEF TypeInv, DaemonTypes, Fault
-----------------------------------------------------------------------------
(* The sessions. *)

LEMMA ReceiveSubmitMoves ==
  ASSUME TypeInv, NEW s \in Sessions, ReceiveSubmit(s)
  PROVE  \E t : MoveOk(s, t) /\ Lazy(s, t) /\ Holds(s, t) /\ Frame
<1>1. PICK j \in shown, nonce \in scenario.nonces, hex \in scenario.spellings :
        proc' = [proc EXCEPT ![s] = [Idle EXCEPT !.pc = "lookup",
                                       !.sub = [id |-> j.id, work |-> j.work, nonce |-> nonce, hex |-> hex]]]
  BY DEF ReceiveSubmit
<1>. DEFINE sub == [id |-> j.id, work |-> j.work, nonce |-> nonce, hex |-> hex]
            t == [Idle EXCEPT !.pc = "lookup", !.sub = sub]
<1>2. sub \in SubRecord
  <2>1. j \in SentRecord
    BY DEF TypeInv, HistoryTypes
  <2>2. nonce \in Nonces /\ hex \in Spellings
    BY DEF Nonces, Spellings, TypeInv, DaemonTypes
  <2>. QED
    BY <2>1, <2>2 DEF SubRecord, SentRecord
<1>3. /\ t \in ProcRecord /\ t.pc = "lookup" /\ t.sub = sub /\ t.job = 0 /\ t.new = 0 /\ t.accepted = FALSE
  BY <1>2, IdleType DEF Idle, ProcRecord, Pcs, SessionPcs
<1>4. sub.id = j.id /\ sub.work = j.work
  OBVIOUS
<1>. HIDE DEF t, sub
<1>5. LocalsOk(s, t)
  BY <1>3, <1>4 DEF LocalsOk, PcsOf, SessionPcs, WithJob, Entered, Settled, Installs
<1>6. /\ proc[s].pc = "idle" /\ submits' = submits + 1 /\ submits < scenario.submits
      /\ UNCHANGED <<alive, node, call, faults, scenario, heap, CurrentJob, ValidJobs, shown, second, stored, raced>>
  BY DEF ReceiveSubmit, daemonVars, table
<1>7. MoveOk(s, t)
  BY <1>1, <1>3, <1>5, <1>6 DEF MoveOk, t, sub
<1>8. Frame
  <2>1. submits' \in 0..scenario.submits
    BY <1>6, ScenarioFacts DEF TypeInv, HistoryTypes, DaemonTypes
  <2>. QED
    BY <1>6, <2>1 DEF Frame, TypeInv, DaemonTypes, HistoryTypes
<1>9. Lazy(s, t) /\ Holds(s, t)
  BY <1>3, <1>6 DEF Lazy, Holds, Entered, Settled, Submitted, Installs
<1>. QED
  BY <1>7, <1>8, <1>9

LEMMA BackToIdle ==
  ASSUME TypeInv, NEW p \in Callers, p # Main, proc' = [proc EXCEPT ![p] = Idle],
         UNCHANGED <<heap, CurrentJob, ValidJobs, shown, raced>>
  PROVE  /\ MoveOk(p, Idle) /\ Lazy(p, Idle)
         /\ p \in Sessions => (proc[p].pc \notin Submitted => Holds(p, Idle))
<1>1. Idle.pc = "idle" /\ Idle.job = 0 /\ Idle.new = 0 /\ Idle.accepted = FALSE
  BY DEF Idle
<1>2. LocalsOk(p, Idle)
  BY <1>1, CallerKinds DEF LocalsOk, PcsOf, SessionPcs, PollerPcs, WithJob, Entered, Settled, Installs
<1>. QED
  BY <1>1, <1>2, IdleType DEF MoveOk, Lazy, Holds, Submitted, Entered, Settled, Installs

LEMMA LookUpMoves ==
  ASSUME TypeInv, NEW s \in Sessions, LookUp(s)
  PROVE  \E t : MoveOk(s, t) /\ Lazy(s, t) /\ Holds(s, t) /\ Frame
<1>. DEFINE cell == ValidJobs[proc[s].sub.id]
            t == [proc[s] EXCEPT !.pc = "register", !.job = cell]
<1>1. /\ proc[s].pc = "lookup" /\ s \in Callers
      /\ UNCHANGED <<alive, node, call, faults, scenario, heap, CurrentJob, ValidJobs, shown, second, submits,
                     stored, raced>>
  BY CallerKinds DEF LookUp, daemonVars, table, outside
<1>2. Frame
  BY <1>1, SameFrame
<1>3. CASE proc' = [proc EXCEPT ![s] = Idle]
  <2>1. proc[s].pc \notin Submitted /\ s # Main
    BY <1>1, CallerKinds DEF Submitted, Settled, Installs
  <2>. QED
    BY <1>1, <1>2, <1>3, <2>1, BackToIdle
<1>4. CASE cell # 0 /\ proc' = [proc EXCEPT ![s].pc = "register", ![s].job = cell]
  <2>1. cell \in Live /\ cell \in Cells
    BY <1>1, <1>4, LocalFacts, LiveFacts
  <2>2. proc[s] \in ProcRecord /\ LocalsOk(s, proc[s]) /\ proc \in [Callers -> ProcRecord]
    BY <1>1 DEF TypeInv
  <2>3. proc' = [proc EXCEPT ![s] = t]
    BY <1>1, <1>4, <2>2
  <2>. HIDE DEF cell
  <2>4. /\ t \in ProcRecord /\ t.pc = "register" /\ t.job = cell /\ t.new = proc[s].new /\ t.sub = proc[s].sub
        /\ t.accepted = proc[s].accepted
    BY <2>1, <2>2 DEF ProcRecord, Pcs, SessionPcs, WithJob
  <2>. HIDE DEF t
  <2>5. LocalsOk(s, t)
    BY <1>1, <2>1, <2>2, <2>4 DEF LocalsOk, PcsOf, SessionPcs, WithJob
  <2>6. MoveOk(s, t)
    BY <1>1, <2>1, <2>3, <2>4, <2>5 DEF MoveOk
  <2>7. Lazy(s, t) /\ Holds(s, t)
    BY <1>1, <2>4 DEF Lazy, Holds, Entered, Settled, Submitted, Installs
  <2>. QED
    BY <1>2, <2>6, <2>7
<1>. QED
  BY <1>3, <1>4 DEF LookUp

(* A goroutine that only goes on. *)
GoesOn(p, t, pc) ==
  /\ t.pc = pc /\ t.tpl = proc[p].tpl /\ t.job = proc[p].job /\ t.new = proc[p].new /\ t.sub = proc[p].sub
  /\ t.snap = proc[p].snap /\ t.accepted = proc[p].accepted

LEMMA GotoMoves ==
  ASSUME TypeInv, NEW p \in Callers, NEW pc \in PcsOf(p), Goto(p, pc),
         UNCHANGED <<heap, CurrentJob, ValidJobs, shown, raced>>,
         {pc, proc[p].pc} \cap {"current", "valid"} = {},
         pc \in {"setup", "decide", "create", "update"} => proc[p].tpl \in Tpls,
         pc \in {"update", "serve", "payments", "done"} => CurrentJob # 0,
         p \in Sessions => {pc, proc[p].pc} \subseteq WithJob
  PROVE  \E t : MoveOk(p, t) /\ GoesOn(p, t, pc)
<1>. DEFINE t == [proc[p] EXCEPT !.pc = pc]
<1>1. proc[p] \in ProcRecord /\ LocalsOk(p, proc[p]) /\ proc \in [Callers -> ProcRecord]
  BY DEF TypeInv
<1>2. proc' = [proc EXCEPT ![p] = t]
  BY <1>1 DEF Goto
<1>3. pc \in Pcs
  BY DEF PcsOf, Pcs, PollerPcs, MainPcs, SessionPcs
<1>4. t \in ProcRecord /\ GoesOn(p, t, pc)
  BY <1>1, <1>3 DEF ProcRecord, GoesOn
<1>. HIDE DEF t
<1>5. p \in Sessions => proc[p].pc # "idle"
  BY DEF WithJob, Entered, Settled, Installs
<1>6. LocalsOk(p, t)
  BY <1>1, <1>4, <1>5 DEF LocalsOk, GoesOn
<1>. QED
  BY <1>2, <1>4, <1>6, LocalFacts DEF MoveOk, GoesOn

LEMMA RegisterSubmitMoves ==
  ASSUME TypeInv, NEW s \in Sessions, RegisterSubmit(s)
  PROVE  \E t : MoveOk(s, t) /\ Lazy(s, t) /\ Holds(s, t) /\ Frame
<1>. DEFINE snap == heap[proc[s].job].Submits
            t == [proc[s] EXCEPT !.pc = "append", !.snap = snap]
<1>1. /\ proc[s].pc = "register" /\ s \in Callers
      /\ UNCHANGED <<alive, node, call, faults, scenario, heap, CurrentJob, ValidJobs, shown, second, submits,
                     stored, raced>>
  BY CallerKinds DEF RegisterSubmit, daemonVars, table, outside
<1>2. Frame
  BY <1>1, SameFrame
<1>3. CASE proc' = [proc EXCEPT ![s] = Idle]
  <2>1. proc[s].pc \notin Submitted /\ s # Main
    BY <1>1, CallerKinds DEF Submitted, Settled, Installs
  <2>. QED
    BY <1>1, <1>2, <1>3, <2>1, BackToIdle
<1>4. CASE /\ Submission(s, proc[s].sub) \notin snap
           /\ proc' = [proc EXCEPT ![s].pc = "append", ![s].snap = snap]
  <2>1. proc[s] \in ProcRecord /\ LocalsOk(s, proc[s]) /\ proc \in [Callers -> ProcRecord]
    BY <1>1 DEF TypeInv
  <2>2. snap \in SUBSET Texts
    <3>1. proc[s].job \in Cells
      BY <1>1, <2>1 DEF LocalsOk, WithJob
    <3>. QED
      BY <3>1 DEF TypeInv, TableTypes, JobRecord
  <2>3. proc' = [proc EXCEPT ![s] = t]
    BY <1>1, <1>4, <2>1
  <2>. HIDE DEF snap
  <2>4. /\ t \in ProcRecord /\ t.pc = "append" /\ t.job = proc[s].job /\ t.new = proc[s].new /\ t.sub = proc[s].sub
        /\ t.accepted = proc[s].accepted /\ t.snap = snap
    BY <2>1, <2>2 DEF ProcRecord, Pcs, SessionPcs, WithJob
  <2>. HIDE DEF t
  <2>5. LocalsOk(s, t)
    BY <1>1, <2>1, <2>4 DEF LocalsOk, PcsOf, SessionPcs, WithJob
  <2>6. MoveOk(s, t)
    BY <1>1, <2>3, <2>4, <2>5, LocalFacts DEF MoveOk
  <2>7. Lazy(s, t) /\ Holds(s, t)
    BY <1>1, <1>4, <2>4 DEF Lazy, Holds, Entered, Settled, Submitted, Installs
  <2>. QED
    BY <1>2, <2>6, <2>7
<1>. QED
  BY <1>3, <1>4 DEF RegisterSubmit

LEMMA JudgeMoves ==
  ASSUME TypeInv, NEW s \in Sessions, Judge(s)
  PROVE  \E t : MoveOk(s, t) /\ Lazy(s, t) /\ Holds(s, t) /\ Frame
<1>1. /\ proc[s].pc = "judge" /\ s \in Callers
      /\ UNCHANGED <<alive, node, call, faults, scenario, heap, CurrentJob, ValidJobs, shown, second, submits,
                     stored, raced>>
  BY CallerKinds DEF Judge, daemonVars, table, outside
<1>2. Frame
  BY <1>1, SameFrame
<1>3. CASE proc' = [proc EXCEPT ![s] = Idle]
  <2>1. proc[s].pc \notin Submitted /\ s # Main
    BY <1>1, CallerKinds DEF Submitted, Settled, Installs
  <2>. QED
    BY <1>1, <1>2, <1>3, <2>1, BackToIdle
<1>4. CASE /\ heap[proc[s].job].work = proc[s].sub.work
           /\ proc' = [proc EXCEPT ![s].pc = IF proc[s].sub.nonce \in BlockNonces THEN "submit" ELSE "put"]
  <2>1. PICK pc \in {"submit", "put"} : Goto(s, pc)
    BY <1>4 DEF Goto
  <2>2. pc \in PcsOf(s) /\ {pc, proc[s].pc} \subseteq WithJob
    BY <1>1 DEF PcsOf, SessionPcs, WithJob, Entered, Settled
  <2>3. PICK t : MoveOk(s, t) /\ GoesOn(s, t, pc)
    BY <1>1, <2>1, <2>2, GotoMoves
  <2>4. Lazy(s, t) /\ Holds(s, t)
    BY <1>1, <1>4, <2>3 DEF Lazy, Holds, GoesOn, Entered, Submitted, Settled, Installs
  <2>. QED
    BY <1>2, <2>3, <2>4
<1>. QED
  BY <1>3, <1>4 DEF Judge

(* A fresh template, of the poller, the main goroutine or a session *)
LEMMA TemplateMoves ==
  ASSUME TypeInv, NEW p \in Callers, NEW pc \in {"setup", "decide"}, NEW onError, GetBlockTemplate(p, pc, onError),
         pc \in PcsOf(p), onError = "idle" => p = Poller
  PROVE  /\ \E t : MoveOk(p, t) /\ Lazy(p, t) /\ Holds(p, t) /\ Frame /\ (p = Main => t.pc \in {"fetch", pc})
         /\ UNCHANGED <<node, call, stored>>
         /\ proc[p].pc = "fetch"
<1>1. /\ proc[p].pc = "fetch"
      /\ UNCHANGED <<node, call, scenario, heap, CurrentJob, ValidJobs, shown, second, submits, stored, raced>>
  BY DEF GetBlockTemplate, table, outside
<1>2. Frame
  <2>1. faults' \in 0..scenario'.faults
    BY <1>1, FaultType DEF GetBlockTemplate, CmdOutcome
  <2>2. alive' \in BOOLEAN
    BY DEF GetBlockTemplate, TypeInv, DaemonTypes
  <2>. QED
    BY <1>1, <2>1, <2>2 DEF Frame, TypeInv, DaemonTypes, HistoryTypes
<1>3. proc[p] \in ProcRecord /\ LocalsOk(p, proc[p]) /\ proc \in [Callers -> ProcRecord]
  BY DEF TypeInv
<1>4. \/ proc' = [proc EXCEPT ![p].pc = pc, ![p].tpl = Template(First)]
      \/ onError = "idle" /\ proc' = [proc EXCEPT ![p] = Idle]
      \/ proc' = proc
  BY DEF GetBlockTemplate
<1>5. CASE proc' = [proc EXCEPT ![p].pc = pc, ![p].tpl = Template(First)]
  <2>. DEFINE t == [proc[p] EXCEPT !.pc = pc, !.tpl = Template(First)]
  <2>1. Template(First) \in Tpls
    <3>1. node[First] \in NodeRecord
      BY DaemonsAssumption DEF TypeInv, DaemonTypes
    <3>. QED
      BY <3>1 DEF Template, NodeRecord, Tpls
  <2>2. proc' = [proc EXCEPT ![p] = t]
    BY <1>3, <1>5
  <2>3. pc \in Pcs
    BY DEF Pcs, MainPcs, Installs
  <2>4. /\ t \in ProcRecord /\ t.pc = pc /\ t.tpl = Template(First) /\ t.job = proc[p].job /\ t.new = proc[p].new
        /\ t.sub = proc[p].sub /\ t.accepted = proc[p].accepted
    BY <1>3, <2>1, <2>3 DEF ProcRecord
  <2>. HIDE DEF t
  <2>5. p \in Sessions => pc = "decide"
    BY DEF PcsOf, SessionPcs, WithJob, Entered, Settled, Installs
  <2>6. LocalsOk(p, t)
    BY <1>1, <1>3, <2>1, <2>4, <2>5 DEF LocalsOk, WithJob, Entered, Settled, Installs
  <2>7. MoveOk(p, t)
    BY <1>1, <2>2, <2>4, <2>6, LocalFacts DEF MoveOk
  <2>8. Lazy(p, t) /\ Holds(p, t)
    BY <1>1, <2>4, <2>5 DEF Lazy, Holds, Entered, Settled, Submitted, Installs
  <2>. QED
    BY <1>1, <1>2, <2>4, <2>7, <2>8
<1>6. CASE onError = "idle" /\ proc' = [proc EXCEPT ![p] = Idle]
  <2>1. p \notin Sessions /\ p # Main
    BY <1>6, CallerKinds
  <2>. QED
    BY <1>1, <1>2, <1>6, <2>1, BackToIdle DEF Holds
<1>7. CASE proc' = proc
  <2>1. MoveOk(p, proc[p]) /\ Lazy(p, proc[p]) /\ Holds(p, proc[p])
    BY <1>1, <1>3, <1>7, LocalFacts DEF MoveOk, Lazy, Holds, Entered, Settled, Submitted, Installs
  <2>. QED
    BY <1>1, <1>2, <2>1
<1>. QED
  BY <1>4, <1>5, <1>6, <1>7

LEMMA ProcessTemplateMoves ==
  ASSUME TypeInv, NEW p \in Callers, ProcessTemplate(p)
  PROVE  /\ \E t : /\ MoveOk(p, t) /\ Lazy(p, t) /\ Holds(p, t) /\ Frame
                   /\ p = Main => t.pc \in {"create", "update", "serve"}
         /\ UNCHANGED <<node, call, stored>>
         /\ proc[p].pc = "decide"
<1>1. /\ proc[p].pc = "decide"
      /\ UNCHANGED <<alive, node, call, faults, scenario, heap, CurrentJob, ValidJobs, shown, second, submits,
                     stored, raced>>
  BY DEF ProcessTemplate, daemonVars, table, outside
<1>2. Frame
  BY <1>1, SameFrame
<1>3. proc[p] \in ProcRecord /\ LocalsOk(p, proc[p]) /\ proc \in [Callers -> ProcRecord]
  BY DEF TypeInv
<1>4. proc[p].tpl \in Tpls
  BY <1>1, <1>3 DEF LocalsOk
<1>5. CASE Verdict(proc[p].tpl) = "ignore"
  <2>1. proc' = [proc EXCEPT ![p] = AfterTemplate(p)] /\ CurrentJob # 0
    BY <1>4, <1>5, VerdictFacts DEF ProcessTemplate
  <2>. DEFINE t == AfterTemplate(p)
  <2>2. CASE p \in Sessions
    <3>1. t = [proc[p] EXCEPT !.pc = "put", !.tpl = {}, !.new = 0]
      BY <2>2, CallerKinds DEF AfterTemplate
    <3>2. /\ t \in ProcRecord /\ t.pc = "put" /\ t.job = proc[p].job /\ t.new = 0
          /\ t.sub = proc[p].sub /\ t.accepted = proc[p].accepted
      BY <1>3, <3>1 DEF ProcRecord, Pcs, SessionPcs, WithJob, Entered, Settled
    <3>. HIDE DEF t
    <3>3. LocalsOk(p, t)
      BY <1>1, <1>3, <2>2, <3>2 DEF LocalsOk, PcsOf, SessionPcs, WithJob, Entered, Settled, Installs
    <3>4. MoveOk(p, t)
      BY <1>1, <2>1, <3>2, <3>3, LocalFacts DEF MoveOk, t
    <3>5. Lazy(p, t) /\ Holds(p, t)
      BY <1>1, <3>2 DEF Lazy, Holds, Entered, Settled, Submitted, Installs
    <3>. QED
      BY <1>1, <1>2, <2>2, <3>4, <3>5, CallerKinds
  <2>3. CASE p = Main
    <3>1. t = [Idle EXCEPT !.pc = "serve"]
      BY <2>3, CallerKinds DEF AfterTemplate
    <3>2. t \in ProcRecord /\ t.pc = "serve" /\ t.job = 0 /\ t.new = 0
      BY <3>1, IdleType DEF Idle, ProcRecord, Pcs, MainPcs
    <3>. HIDE DEF t
    <3>3. LocalsOk(p, t)
      BY <2>1, <2>3, <3>2, CallerKinds DEF LocalsOk, PcsOf, MainPcs
    <3>4. MoveOk(p, t)
      BY <1>1, <2>1, <3>2, <3>3, LocalFacts DEF MoveOk, t
    <3>. QED
      BY <1>1, <1>2, <2>3, <3>2, <3>4, CallerKinds DEF Lazy, Holds
  <2>4. CASE p \notin Sessions /\ p # Main
    <3>1. t = Idle
      BY <2>4 DEF AfterTemplate
    <3>. QED
      BY <1>1, <1>2, <2>1, <2>4, <3>1, BackToIdle DEF Holds
  <2>. QED
    BY <2>2, <2>3, <2>4
<1>6. CASE Verdict(proc[p].tpl) # "ignore"
  <2>1. PICK pc \in {"create", "update"} : Goto(p, pc) /\ (pc = "update" => CurrentJob # 0)
    BY <1>4, <1>6, VerdictFacts DEF ProcessTemplate, Goto
  <2>2. pc \in PcsOf(p) /\ {pc, proc[p].pc} \subseteq WithJob
    BY <1>1 DEF PcsOf, SessionPcs, MainPcs, PollerPcs, WithJob, Entered, Settled, Installs
  <2>3. PICK t : MoveOk(p, t) /\ GoesOn(p, t, pc)
    BY <1>1, <1>4, <2>1, <2>2, GotoMoves
  <2>4. Lazy(p, t) /\ Holds(p, t)
    BY <1>1, <2>3 DEF Lazy, Holds, GoesOn, Entered, Submitted, Settled, Installs
  <2>. QED
    BY <1>1, <1>2, <2>3, <2>4 DEF GoesOn
<1>. QED
  BY <1>5, <1>6
-----------------------------------------------------------------------------
(* The calls of a session. *)

LEMMA CmdAllType ==
  ASSUME TypeInv, NEW p \in Callers, NEW method \in Methods, NEW block \in SUBSET Blocks, CmdAll(p, method, block)
  PROVE  /\ call' \in [Callers -> CallRecord]
         /\ call'[p].method = method /\ call'[p].block = block /\ call'[p].left = Daemons
         /\ \A q \in Callers : q # p => call'[q] = call[q]
<1>. DEFINE c == [NoCall EXCEPT !.method = method, !.block = block, !.left = Daemons]
<1>1. call' = [call EXCEPT ![p] = c] /\ call \in [Callers -> CallRecord]
  BY DEF CmdAll, TypeInv, DaemonTypes
<1>2. c \in CallRecord /\ c.method = method /\ c.block = block /\ c.left = Daemons
  BY DEF NoCall, CallRecord
<1>. HIDE DEF c
<1>. QED
  BY <1>1, <1>2

LEMMA CallFrame ==
  ASSUME TypeInv, call' \in [Callers -> CallRecord],
         UNCHANGED <<alive, node, faults, scenario, shown, second, submits, stored, raced>>
  PROVE  Frame
  BY DEF Frame, TypeInv, DaemonTypes, HistoryTypes

LEMMA NoCallType ==
  ASSUME TypeInv, NEW p \in Callers, call' = [call EXCEPT ![p] = NoCall]
  PROVE  /\ call' \in [Callers -> CallRecord] /\ call'[p].method = "none"
         /\ \A q \in Callers : q # p => call'[q] = call[q]
<1>1. NoCall \in CallRecord /\ NoCall.method = "none"
  BY IdleType DEF NoCall
<1>. QED
  BY <1>1 DEF TypeInv, DaemonTypes

(* Both calls carry the block of the session, and move it on. *)
Calls(s, methods, pc) ==
  /\ call'[s].method \in methods /\ call'[s].block = {Block(s, proc[s].sub)} /\ call'[s].left = Daemons
  /\ \A q \in Callers : q # s => call'[q] = call[q]
  /\ UNCHANGED <<node, stored>>
  /\ \E t : MoveOk(s, t) /\ Lazy(s, t) /\ GoesOn(s, t, pc) /\ Frame

LEMMA SubmitBlockMoves ==
  ASSUME TypeInv, NEW s \in Sessions, SubmitBlock(s, noSubmitBlock)
  PROVE  proc[s].pc = "submit" /\ Calls(s, {"submit", "submitblock"}, "submitting")
<1>1. /\ proc[s].pc = "submit" /\ s \in Callers /\ Goto(s, "submitting")
      /\ UNCHANGED <<alive, node, faults, scenario, heap, CurrentJob, ValidJobs, shown, second, submits, stored, raced>>
  BY CallerKinds DEF SubmitBlock, table, outside
<1>2. PICK method \in {"submit", "submitblock"} : CmdAll(s, method, {Block(s, proc[s].sub)})
  BY DEF SubmitBlock
<1>3. Block(s, proc[s].sub) \in Blocks
  BY <1>1, LocalFacts, BlockType DEF TypeInv, DaemonTypes
<1>4. method \in Methods
  BY DEF Methods
<1>5. /\ call' \in [Callers -> CallRecord]
      /\ call'[s].method = method /\ call'[s].block = {Block(s, proc[s].sub)} /\ call'[s].left = Daemons
      /\ \A q \in Callers : q # s => call'[q] = call[q]
  BY <1>1, <1>2, <1>3, <1>4, CmdAllType
<1>6. "submitting" \in PcsOf(s) /\ {"submitting", proc[s].pc} \subseteq WithJob
  BY <1>1 DEF PcsOf, SessionPcs, WithJob, Entered, Settled
<1>7. PICK t : MoveOk(s, t) /\ GoesOn(s, t, "submitting")
  BY <1>1, <1>6, GotoMoves
<1>8. Lazy(s, t)
  BY <1>1, <1>7 DEF Lazy, GoesOn, Entered, Settled
<1>9. Frame
  BY <1>1, <1>5, CallFrame
<1>. QED
  BY <1>1, <1>5, <1>7, <1>8, <1>9 DEF Calls

LEMMA AskAcceptedMoves ==
  ASSUME TypeInv, NEW s \in Sessions, AskAccepted(s)
  PROVE  proc[s].pc = "submitting" /\ Calls(s, {"getblock"}, "checking")
<1>1. /\ proc[s].pc = "submitting" /\ s \in Callers /\ Goto(s, "checking")
      /\ UNCHANGED <<alive, node, faults, scenario, heap, CurrentJob, ValidJobs, shown, second, submits, stored, raced>>
      /\ CmdAll(s, "getblock", {Block(s, proc[s].sub)})
  BY CallerKinds DEF AskAccepted, table, outside
<1>2. Block(s, proc[s].sub) \in Blocks
  BY <1>1, LocalFacts, BlockType DEF TypeInv, DaemonTypes
<1>3. "getblock" \in Methods
  BY DEF Methods
<1>4. /\ call' \in [Callers -> CallRecord]
      /\ call'[s].method = "getblock" /\ call'[s].block = {Block(s, proc[s].sub)} /\ call'[s].left = Daemons
      /\ \A q \in Callers : q # s => call'[q] = call[q]
  BY <1>1, <1>2, <1>3, CmdAllType
<1>5. "checking" \in PcsOf(s) /\ {"checking", proc[s].pc} \subseteq WithJob
  BY <1>1 DEF PcsOf, SessionPcs, WithJob, Entered, Settled
<1>6. PICK t : MoveOk(s, t) /\ GoesOn(s, t, "checking")
  BY <1>1, <1>5, GotoMoves
<1>7. Lazy(s, t)
  BY <1>1, <1>6 DEF Lazy, GoesOn, Entered, Settled
<1>8. Frame
  BY <1>1, <1>4, CallFrame
<1>. QED
  BY <1>1, <1>4, <1>6, <1>7, <1>8 DEF Calls

LEMMA CheckedMoves ==
  ASSUME TypeInv, NEW s \in Sessions, Checked(s)
  PROVE  /\ proc[s].pc = "checking" /\ Returned(s)
         /\ call'[s].method = "none" /\ (\A q \in Callers : q # s => call'[q] = call[q])
         /\ UNCHANGED <<node, stored>>
         /\ \E t : /\ MoveOk(s, t) /\ Lazy(s, t) /\ Frame
                   /\ t.pc = "fetch" /\ t.sub = proc[s].sub /\ t.accepted = (call[s].errors = {})
<1>1. /\ proc[s].pc = "checking" /\ s \in Callers /\ Returned(s)
      /\ proc' = [proc EXCEPT ![s].pc = "fetch", ![s].accepted = CheckBlockAccepted(call[s])]
      /\ call' = [call EXCEPT ![s] = NoCall]
      /\ UNCHANGED <<alive, node, faults, scenario, heap, CurrentJob, ValidJobs, shown, second, submits, stored, raced>>
  BY CallerKinds DEF Checked, table, outside
<1>2. proc[s] \in ProcRecord /\ LocalsOk(s, proc[s]) /\ proc \in [Callers -> ProcRecord]
  BY <1>1 DEF TypeInv
<1>. DEFINE ok == CheckBlockAccepted(call[s])
            t == [proc[s] EXCEPT !.pc = "fetch", !.accepted = ok]
<1>3. proc' = [proc EXCEPT ![s] = t]
  BY <1>1, <1>2
<1>4. ok \in BOOLEAN /\ ok = (call[s].errors = {})
  BY DEF CheckBlockAccepted
<1>. HIDE DEF ok
<1>5. /\ t \in ProcRecord /\ t.pc = "fetch" /\ t.job = proc[s].job /\ t.new = proc[s].new
      /\ t.sub = proc[s].sub /\ t.accepted = ok
  BY <1>2, <1>4 DEF ProcRecord, Pcs, MainPcs, Installs
<1>. HIDE DEF t
<1>6. LocalsOk(s, t)
  BY <1>1, <1>2, <1>5 DEF LocalsOk, PcsOf, SessionPcs, WithJob, Entered, Settled, Installs
<1>7. MoveOk(s, t)
  BY <1>1, <1>3, <1>5, <1>6, LocalFacts DEF MoveOk
<1>8. Lazy(s, t)
  BY <1>1, <1>5 DEF Lazy, Entered, Settled, Installs
<1>9. Frame
  BY <1>1, NoCallType, CallFrame
<1>10. call'[s].method = "none" /\ \A q \in Callers : q # s => call'[q] = call[q]
  BY <1>1, NoCallType
<1>. QED
  BY <1>1, <1>4, <1>5, <1>7, <1>8, <1>9, <1>10

LEMMA PutShareMoves ==
  ASSUME TypeInv, NEW s \in Sessions, PutShare(s)
  PROVE  /\ proc[s].pc = "put" /\ UNCHANGED <<node, call>>
         /\ stored' = Append(stored, [block |-> Block(s, proc[s].sub), text |-> Submission(s, proc[s].sub),
                                      accepted |-> proc[s].accepted, twin |-> heap[proc[s].job].twin])
         /\ MoveOk(s, Idle) /\ Lazy(s, Idle) /\ Frame
<1>1. /\ proc[s].pc = "put" /\ s \in Callers
      /\ proc' = [proc EXCEPT ![s] = Idle]
      /\ UNCHANGED <<alive, node, call, faults, scenario, heap, CurrentJob, ValidJobs, shown, second, submits, raced>>
  BY CallerKinds DEF PutShare, daemonVars, table, outside
<1>. DEFINE r == [block |-> Block(s, proc[s].sub), text |-> Submission(s, proc[s].sub),
                  accepted |-> proc[s].accepted, twin |-> heap[proc[s].job].twin]
<1>2. stored' = Append(stored, r)
  BY DEF PutShare
<1>3. Block(s, proc[s].sub) \in Blocks /\ Submission(s, proc[s].sub) \in Texts
  BY <1>1, LocalFacts, BlockType, TextType DEF TypeInv, DaemonTypes
<1>4. proc[s].job \in Cells /\ proc[s].accepted \in BOOLEAN
  BY <1>1, LocalFacts DEF LocalsOk, ProcRecord, WithJob, Entered, Settled
<1>5. heap[proc[s].job].twin \in BOOLEAN
  BY <1>4 DEF TypeInv, TableTypes, JobRecord
<1>6. r \in StoredRecord
  BY <1>3, <1>4, <1>5 DEF StoredRecord
<1>. HIDE DEF r
<1>7. stored' \in Seq(StoredRecord)
  BY <1>2, <1>6 DEF TypeInv, HistoryTypes
<1>8. Frame
  BY <1>1, <1>7 DEF Frame, TypeInv, DaemonTypes, HistoryTypes
<1>9. MoveOk(s, Idle) /\ Lazy(s, Idle)
  BY <1>1, BackToIdle, CallerKinds
<1>. QED
  BY <1>1, <1>2, <1>8, <1>9 DEF r
-----------------------------------------------------------------------------
(* The steps that write the jobs or the table. *)

LEMMA AppendFacts ==
  ASSUME TypeInv, NEW s \in Sessions, AppendSubmit(s)
  PROVE  /\ proc[s].pc = "append" /\ proc[s].job \in Cells /\ heap' \in [Cells -> JobRecord]
         /\ \A c \in Cells : /\ heap'[c].id = heap[c].id /\ heap'[c].work = heap[c].work /\ heap'[c].twin = heap[c].twin
                             /\ c # proc[s].job => heap'[c].Submits = heap[c].Submits
         /\ heap'[proc[s].job].Submits = proc[s].snap \union {Submission(s, proc[s].sub)}
         /\ IF proc[s].snap = heap[proc[s].job].Submits THEN raced' = raced
            ELSE raced' = raced \union heap[proc[s].job].Submits \union {Submission(s, proc[s].sub)}
         /\ proc' \in [Callers -> ProcRecord] /\ Apart(s)
         /\ proc'[s].pc = "judge" /\ proc'[s].job = proc[s].job /\ proc'[s].new = proc[s].new
         /\ proc'[s].sub = proc[s].sub /\ proc'[s].accepted = proc[s].accepted
         /\ UNCHANGED <<alive, node, call, faults, scenario, CurrentJob, ValidJobs, shown, second, submits, stored>>
         /\ raced' \subseteq Texts
<1>. DEFINE j == proc[s].job
            text == Submission(s, proc[s].sub)
            r == [heap[j] EXCEPT !.Submits = proc[s].snap \union {text}]
            t == [proc[s] EXCEPT !.pc = "judge", !.snap = {}]
<1>1. /\ proc[s].pc = "append" /\ s \in Callers
      /\ UNCHANGED <<alive, node, call, faults, scenario, CurrentJob, ValidJobs, shown, second, submits, stored>>
      /\ IF proc[s].snap = heap[proc[s].job].Submits THEN raced' = raced
         ELSE raced' = raced \union heap[proc[s].job].Submits \union {Submission(s, proc[s].sub)}
  BY CallerKinds DEF AppendSubmit, daemonVars, outside
<1>2. /\ proc[s] \in ProcRecord /\ LocalsOk(s, proc[s]) /\ proc \in [Callers -> ProcRecord]
      /\ heap \in [Cells -> JobRecord] /\ raced \subseteq Texts
  BY <1>1 DEF TypeInv, TableTypes, HistoryTypes
<1>3. j \in Cells /\ proc[s].snap \subseteq Texts
  BY <1>1, <1>2 DEF LocalsOk, ProcRecord, WithJob
<1>4. text \in Texts
  BY <1>1, LocalFacts, TextType DEF TypeInv, DaemonTypes
<1>5. heap' = [heap EXCEPT ![j] = r] /\ proc' = [proc EXCEPT ![s] = t]
  BY <1>1, <1>2, <1>3 DEF AppendSubmit
<1>6. /\ r \in JobRecord /\ r.id = heap[j].id /\ r.work = heap[j].work /\ r.twin = heap[j].twin
      /\ r.Submits = proc[s].snap \union {text} /\ heap[j].Submits \subseteq Texts
  BY <1>2, <1>3, <1>4 DEF JobRecord
<1>7. /\ t \in ProcRecord /\ t.pc = "judge" /\ t.job = j /\ t.new = proc[s].new /\ t.sub = proc[s].sub
      /\ t.accepted = proc[s].accepted
  BY <1>2 DEF ProcRecord, Pcs, SessionPcs, WithJob, Entered
<1>8. raced' \subseteq Texts
  BY <1>1, <1>2, <1>4, <1>6
<1>. HIDE DEF r, t
<1>9. proc' \in [Callers -> ProcRecord] /\ Apart(s) /\ proc'[s] = t
  BY <1>1, <1>5, <1>7, Moved
<1>10. heap' \in [Cells -> JobRecord] /\ heap'[j] = r /\ \A c \in Cells : c # j => heap'[c] = heap[c]
  BY <1>2, <1>3, <1>5, <1>6
<1>. QED
  BY <1>1, <1>3, <1>6, <1>7, <1>8, <1>9, <1>10

LEMMA AppendType ==
  ASSUME TypeInv, NEW s \in Sessions, AppendSubmit(s), UNCHANGED <<noSubmitBlock, serving>>
  PROVE  TypeInv' /\ Live' \subseteq Live
<1>. DEFINE Same == UNCHANGED <<CurrentJob, ValidJobs, shown>>
<1>1. /\ proc[s].pc = "append" /\ heap' \in [Cells -> JobRecord] /\ proc' \in [Callers -> ProcRecord] /\ Apart(s)
      /\ \A c \in Cells : heap'[c].id = heap[c].id /\ heap'[c].work = heap[c].work
      /\ proc'[s].pc = "judge" /\ proc'[s].job = proc[s].job /\ proc'[s].new = proc[s].new
      /\ proc'[s].sub = proc[s].sub
      /\ Same /\ s \in Callers /\ UNCHANGED <<alive, node, call, faults, scenario, second, submits, stored>>
      /\ raced' \subseteq Texts
  BY AppendFacts, CallerKinds
<1>2. Live' \subseteq Live
  <2>1. \A q \in Callers : proc'[q].job = proc[q].job /\ proc'[q].new = proc[q].new
    BY <1>1 DEF Apart
  <2>. QED
    BY <1>1, <2>1 DEF Live, Referred
<1>3. LocalsOk(s, proc'[s])
  BY <1>1, LocalFacts DEF LocalsOk, PcsOf, SessionPcs, WithJob, Entered, Settled, Installs
<1>4. \A q \in Callers : LocalsOk(q, proc[q])'
  <2>1. \A q \in Callers : LocalsOk(q, proc'[q])
    BY <1>1, <1>3 DEF Apart, TypeInv
  <2>. QED
    BY <1>1, <2>1 DEF LocalsOk
<1>5. LiveJobs'
  BY <1>1, <1>2, LiveFacts DEF LiveJobs, TypeInv
<1>6. \A i \in DOMAIN ValidJobs' : ValidJobs'[i] # 0 => heap'[ValidJobs'[i]].id = i
  BY <1>1, LiveFacts DEF TypeInv
<1>7. DaemonTypes' /\ HistoryTypes' /\ TableTypes' /\ SentJobs'
  BY <1>1 DEF TypeInv, DaemonTypes, HistoryTypes, TableTypes, SentJobs
<1>. QED
  BY <1>1, <1>2, <1>4, <1>5, <1>6, <1>7 DEF TypeInv

(* A new job: in a cell nothing refers to, under an id that was given out. *)
Known == {j.work : j \in shown} \union {heap[c].work : c \in Live}

Makes(p, n) ==
  /\ n \in Cells /\ n \notin Live /\ n # 0
  /\ heap' \in [Cells -> JobRecord] /\ \A c \in Cells : c # n => heap'[c] = heap[c]
  /\ heap'[n].work \in Works /\ heap'[n].id \in DOMAIN ValidJobs' /\ heap'[n].Submits = {}
  /\ heap'[n].twin = (heap'[n].work \in Known)
  /\ proc' \in [Callers -> ProcRecord] /\ Apart(p)
  /\ proc'[p].pc = "current" /\ proc'[p].new = n /\ proc'[p].job = proc[p].job
  /\ proc'[p].sub = proc[p].sub /\ proc'[p].accepted = proc[p].accepted
  /\ ValidJobs' \in Seq(Cells \union {0}) /\ DOMAIN ValidJobs \subseteq DOMAIN ValidJobs'
  /\ \A i \in DOMAIN ValidJobs' : ValidJobs'[i] # 0 => i \in DOMAIN ValidJobs /\ ValidJobs'[i] = ValidJobs[i]
  /\ UNCHANGED <<alive, node, call, faults, scenario, CurrentJob, shown, second, submits, stored, raced>>

LEMMA NewJobMakes ==
  ASSUME TypeInv, NEW p \in Callers, NEW id \in Nat, proc[p].pc \in {"create", "update"}, NewJob(p, id),
         id \in DOMAIN ValidJobs',
         ValidJobs' \in Seq(Cells \union {0}), DOMAIN ValidJobs \subseteq DOMAIN ValidJobs',
         \A i \in DOMAIN ValidJobs' : ValidJobs'[i] # 0 => i \in DOMAIN ValidJobs /\ ValidJobs'[i] = ValidJobs[i]
  PROVE  Makes(p, FreeCell)
<1>. DEFINE n == FreeCell
            work == [height |-> proc[p].tpl.height, rev |-> proc[p].tpl.rev, stamp |-> second]
            r == [id |-> id, work |-> work, Submits |-> {}, twin |-> work \in Known]
            t == [proc[p] EXCEPT !.pc = "current", !.new = n, !.tpl = {}]
<1>1. /\ FreeCells # {} /\ heap' = [heap EXCEPT ![n] = r]
      /\ proc' = [proc EXCEPT ![p].pc = "current", ![p].new = n, ![p].tpl = {}]
      /\ UNCHANGED <<alive, node, call, faults, scenario, CurrentJob, shown, second, submits, stored, raced>>
  BY DEF NewJob, Known, Live, daemonVars, outside
<1>2. n \in Cells /\ n \notin Live /\ n # 0
  BY <1>1, FreeCellFacts
<1>3. /\ proc[p] \in ProcRecord /\ LocalsOk(p, proc[p]) /\ proc \in [Callers -> ProcRecord]
      /\ heap \in [Cells -> JobRecord] /\ second \in Nat
  BY DEF TypeInv, TableTypes, HistoryTypes
<1>4. work \in Works
  <2>1. proc[p].tpl \in Tpls
    BY <1>3 DEF LocalsOk
  <2>. QED
    BY <1>3, <2>1 DEF Tpls, Works
<1>. HIDE DEF work, n
<1>5. /\ r \in JobRecord /\ r.work = work /\ r.id = id /\ r.Submits = {} /\ r.twin = (work \in Known)
  BY <1>4 DEF JobRecord
<1>6. proc' = [proc EXCEPT ![p] = t]
  BY <1>1, <1>3
<1>7. /\ t \in ProcRecord /\ t.pc = "current" /\ t.new = n /\ t.job = proc[p].job /\ t.sub = proc[p].sub
      /\ t.accepted = proc[p].accepted
  BY <1>2, <1>3 DEF ProcRecord, Pcs, MainPcs, Installs
<1>. HIDE DEF r, t
<1>8. proc' \in [Callers -> ProcRecord] /\ Apart(p) /\ proc'[p] = t
  BY <1>6, <1>7, Moved
<1>9. heap' \in [Cells -> JobRecord] /\ heap'[n] = r /\ \A c \in Cells : c # n => heap'[c] = heap[c]
  BY <1>1, <1>2, <1>3, <1>5
<1>. QED
  BY <1>1, <1>2, <1>4, <1>5, <1>7, <1>8, <1>9 DEF Makes, n

LEMMA InstallMakes ==
  ASSUME TypeInv, NEW p \in Callers, UpdateCurrentJob(p) \/ CreateNewJob(p)
  PROVE  proc[p].pc \in {"create", "update"} /\ Makes(p, FreeCell)
<1>0. ValidJobs \in Seq(Cells \union {0})
  BY DEF TypeInv, TableTypes
<1>1. CASE UpdateCurrentJob(p)
  <2>1. proc[p].pc = "update" /\ NewJob(p, heap[CurrentJob].id) /\ ValidJobs' = ValidJobs
    BY <1>1 DEF UpdateCurrentJob
  <2>2. CurrentJob # 0
    BY <2>1, LocalFacts DEF LocalsOk
  <2>3. heap[CurrentJob].id \in DOMAIN ValidJobs
    BY <2>2, LiveFacts DEF TypeInv, LiveJobs
  <2>4. heap[CurrentJob].id \in Nat
    BY <1>0, <2>3
  <2>. QED
    BY <1>0, <2>1, <2>3, <2>4, NewJobMakes
<1>2. CASE CreateNewJob(p)
  <2>. DEFINE n == Len(ValidJobs)
  <2>1. proc[p].pc = "create" /\ NewJob(p, n + 1) /\ ValidJobs' = Append(ValidJobs, 0)
    BY <1>2 DEF CreateNewJob
  <2>2. n \in Nat /\ DOMAIN ValidJobs = 1..n
    BY <1>0
  <2>3. /\ ValidJobs' \in Seq(Cells \union {0}) /\ DOMAIN ValidJobs' = 1..(n + 1)
        /\ \A i \in 1..n : ValidJobs'[i] = ValidJobs[i]
        /\ ValidJobs'[n + 1] = 0
    BY <1>0, <2>1
  <2>. HIDE DEF n
  <2>4. n + 1 \in Nat /\ n + 1 \in 1..(n + 1) /\ 1..n \subseteq 1..(n + 1)
        /\ \A i \in 1..(n + 1) : i \in 1..n \/ i = n + 1
    BY <2>2
  <2>5. \A i \in DOMAIN ValidJobs' : ValidJobs'[i] # 0 => i \in DOMAIN ValidJobs /\ ValidJobs'[i] = ValidJobs[i]
    BY <2>2, <2>3, <2>4
  <2>. QED
    BY <2>1, <2>2, <2>3, <2>4, <2>5, NewJobMakes
<1>. QED
  BY <1>1, <1>2

LEMMA MakesType ==
  ASSUME TypeInv, NEW p \in Callers, NEW n, Makes(p, n), proc[p].pc \in {"create", "update"},
         UNCHANGED <<noSubmitBlock, serving>>
  PROVE  TypeInv' /\ Live' \subseteq Live \union {n}
<1>1. Live' \subseteq Live \union {n}
  <2>1. \A q \in Callers : proc'[q].job = proc[q].job /\ proc'[q].new \in {proc[q].new, n}
    BY DEF Makes, Apart
  <2>2. \A q \in Callers : proc'[q].job \in Live \union {0, n} /\ proc'[q].new \in Live \union {0, n}
    BY <2>1, LocalFacts
  <2>3. \A i \in DOMAIN ValidJobs' : ValidJobs'[i] \in Live \union {0}
    BY LiveFacts DEF Makes
  <2>4. CurrentJob' \in Live \union {0}
    BY LiveFacts DEF Makes
  <2>. QED
    BY <2>2, <2>3, <2>4 DEF Live, Referred
<1>2. LocalsOk(p, proc'[p])
  BY LocalFacts DEF Makes, LocalsOk, PcsOf, SessionPcs, MainPcs, PollerPcs, WithJob, Entered, Settled, Installs
<1>3. \A q \in Callers : LocalsOk(q, proc[q])'
  <2>1. \A q \in Callers : LocalsOk(q, proc'[q])
    BY <1>2 DEF Makes, Apart, TypeInv
  <2>2. UNCHANGED <<CurrentJob, shown>>
    BY DEF Makes
  <2>. QED
    BY <2>1, <2>2 DEF LocalsOk
<1>4. LiveJobs'
  BY <1>1, LiveFacts DEF Makes, LiveJobs, TypeInv
<1>5. \A i \in DOMAIN ValidJobs' : ValidJobs'[i] # 0 => heap'[ValidJobs'[i]].id = i
  BY LiveFacts DEF Makes, TypeInv
<1>6. DaemonTypes' /\ HistoryTypes'
  BY DEF Makes, TypeInv, DaemonTypes, HistoryTypes
<1>7. TableTypes' /\ SentJobs'
  BY DEF Makes, TypeInv, TableTypes, SentJobs
<1>. QED
  BY <1>1, <1>3, <1>4, <1>5, <1>6, <1>7 DEF TypeInv, Makes

(* CurrentJob is replaced by the job the goroutine made. *)
Replaces(p, t) ==
  /\ proc[p].pc = "current" /\ proc[p].new \in Live /\ CurrentJob' = proc[p].new
  /\ proc' = [proc EXCEPT ![p] = t] /\ t \in ProcRecord /\ GoesOn(p, t, "valid")
  /\ UNCHANGED <<alive, node, call, faults, scenario, heap, ValidJobs, shown, second, submits, stored, raced>>

LEMMA SetCurrentReplaces ==
  ASSUME TypeInv, NEW p \in Callers, SetCurrent(p)
  PROVE  \E t : Replaces(p, t)
<1>. DEFINE t == [proc[p] EXCEPT !.pc = "valid"]
<1>1. /\ proc[p].pc = "current" /\ CurrentJob' = proc[p].new /\ Goto(p, "valid")
      /\ UNCHANGED <<alive, node, call, faults, scenario, heap, ValidJobs, shown, second, submits, stored, raced>>
  BY DEF SetCurrent, daemonVars, outside
<1>2. proc[p] \in ProcRecord /\ LocalsOk(p, proc[p]) /\ proc \in [Callers -> ProcRecord]
  BY DEF TypeInv
<1>3. proc' = [proc EXCEPT ![p] = t]
  BY <1>1, <1>2 DEF Goto
<1>4. t \in ProcRecord /\ GoesOn(p, t, "valid")
  BY <1>2 DEF ProcRecord, GoesOn, Pcs, MainPcs, Installs
<1>5. proc[p].new \in Live
  BY <1>1, <1>2, LocalFacts, CellsNotZero DEF LocalsOk
<1>. QED
  BY <1>1, <1>3, <1>4, <1>5 DEF Replaces

LEMMA ReplacesType ==
  ASSUME TypeInv, NEW p \in Callers, NEW t, Replaces(p, t), UNCHANGED <<noSubmitBlock, serving>>
  PROVE  TypeInv' /\ Live' \subseteq Live
<1>1. proc' \in [Callers -> ProcRecord] /\ proc'[p] = t /\ Apart(p)
  BY Moved DEF Replaces
<1>2. \A q \in Callers : proc'[q].job = proc[q].job /\ proc'[q].new = proc[q].new /\ proc'[q].sub = proc[q].sub
  BY <1>1 DEF Replaces, GoesOn, Apart
<1>3. Live' \subseteq Live
  BY <1>2 DEF Live, Referred, Replaces
<1>4. CurrentJob' # 0 /\ CurrentJob' \in Cells
  BY CellsNotZero, LiveFacts DEF Replaces
<1>5. LocalsOk(p, t)'
  BY <1>1, <1>4, LocalFacts
     DEF Replaces, GoesOn, LocalsOk, PcsOf, SessionPcs, MainPcs, PollerPcs, WithJob, Entered, Settled, Installs
<1>6. \A q \in Callers : q # p => LocalsOk(q, proc[q])'
  BY <1>1, <1>4 DEF Apart, TypeInv, LocalsOk, Replaces
<1>7. \A q \in Callers : LocalsOk(q, proc[q])'
  BY <1>1, <1>5, <1>6 DEF LocalsOk
<1>8. LiveJobs'
  BY <1>3 DEF LiveJobs, TypeInv, Replaces
<1>9. TableTypes' /\ SentJobs' /\ DaemonTypes' /\ HistoryTypes'
  BY <1>4 DEF Replaces, TypeInv, TableTypes, SentJobs, DaemonTypes, HistoryTypes
<1>. QED
  BY <1>1, <1>3, <1>4, <1>7, <1>8, <1>9 DEF TypeInv, Replaces

(* The job is entered under its id, and the goroutine lets go of it. *)
Enters(p) ==
  /\ proc[p].pc = "valid" /\ proc' \in [Callers -> ProcRecord] /\ Apart(p)
  /\ proc'[p].new = 0 /\ proc'[p].job = proc[p].job
  /\ p \in Sessions => /\ proc'[p].pc = "put" /\ proc'[p].sub = proc[p].sub
                       /\ proc'[p].accepted = proc[p].accepted
  /\ p = Main => proc'[p].pc = "serve"
  /\ p = Poller => proc'[p].pc = "idle"
  /\ alive' \in BOOLEAN /\ heap' \in [Cells -> JobRecord] /\ ValidJobs' \in Seq(Cells \union {0})
  /\ DOMAIN ValidJobs' = DOMAIN ValidJobs
  /\ \A i \in DOMAIN ValidJobs : \/ ValidJobs'[i] = ValidJobs[i]
                                 \/ ValidJobs'[i] = proc[p].new /\ i = heap[proc[p].new].id
  /\ Live' \subseteq Live /\ \A c \in Live' : heap'[c] = heap[c]
  /\ UNCHANGED <<node, call, faults, scenario, CurrentJob, shown, second, submits, stored, raced>>

LEMMA SetValidEnters ==
  ASSUME TypeInv, NEW p \in Callers, SetValid(p)
  PROVE  Enters(p)
<1>. DEFINE n == proc[p].new
            t == AfterTemplate(p)
            kept == Referred(ValidJobs', Callers \ {p})
<1>1. /\ proc[p].pc = "valid" /\ proc' = [proc EXCEPT ![p] = t]
      /\ ValidJobs' = [ValidJobs EXCEPT ![heap[n].id] = n]
      /\ heap' = [c \in Cells |-> IF c \in kept THEN heap[c] ELSE NoJob]
      /\ UNCHANGED <<node, call, faults, scenario, CurrentJob, shown, second, submits, stored, raced>>
  BY DEF SetValid, outside
<1>2. /\ proc[p] \in ProcRecord /\ LocalsOk(p, proc[p]) /\ proc \in [Callers -> ProcRecord]
      /\ heap \in [Cells -> JobRecord] /\ ValidJobs \in Seq(Cells \union {0})
  BY DEF TypeInv, TableTypes
<1>3. n \in Cells /\ n \in Live /\ n # 0
  BY <1>1, <1>2, LocalFacts, CellsNotZero DEF LocalsOk
<1>4. alive' \in BOOLEAN
  BY DEF SetValid, TypeInv, DaemonTypes
<1>5. t \in ProcRecord /\ t.new = 0 /\ t.job = proc[p].job
      /\ (p \in Sessions => t.pc = "put" /\ t.sub = proc[p].sub /\ t.accepted = proc[p].accepted)
      /\ (p = Main => t.pc = "serve") /\ (p = Poller => t.pc = "idle")
  <2>1. CASE p \in Sessions
    <3>1. t = [proc[p] EXCEPT !.pc = "put", !.tpl = {}, !.new = 0] /\ p # Main /\ p # Poller
      BY <2>1, CallerKinds DEF AfterTemplate
    <3>. QED
      BY <1>2, <2>1, <3>1 DEF ProcRecord, Pcs, SessionPcs, WithJob, Entered, Settled
  <2>2. CASE p = Main
    <3>1. t = [Idle EXCEPT !.pc = "serve"] /\ p \notin Sessions /\ p # Poller
      BY <2>2, CallerKinds DEF AfterTemplate
    <3>2. proc[p].job = 0
      BY <1>2, <3>1 DEF LocalsOk
    <3>. QED
      BY <2>2, <3>1, <3>2, IdleType DEF Idle, ProcRecord, Pcs, MainPcs
  <2>3. CASE p = Poller
    <3>1. t = Idle /\ p \notin Sessions /\ p # Main
      BY <2>3, CallerKinds DEF AfterTemplate
    <3>2. proc[p].job = 0
      BY <1>2, <3>1 DEF LocalsOk
    <3>. QED
      BY <2>3, <3>1, <3>2, IdleType DEF Idle
  <2>. QED
    BY <2>1, <2>2, <2>3, CallerKinds
<1>. HIDE DEF t
<1>6. proc' \in [Callers -> ProcRecord] /\ Apart(p) /\ proc'[p] = t
  BY <1>1, <1>5, Moved
<1>7. heap' \in [Cells -> JobRecord] /\ \A c \in kept : c \in Cells => heap'[c] = heap[c]
  BY <1>1, <1>2, IdleType
<1>8. /\ ValidJobs' \in Seq(Cells \union {0}) /\ DOMAIN ValidJobs' = DOMAIN ValidJobs
      /\ \A i \in DOMAIN ValidJobs : \/ ValidJobs'[i] = ValidJobs[i]
                                     \/ ValidJobs'[i] = n /\ i = heap[n].id
  <2>1. heap[n].id \in DOMAIN ValidJobs
    BY <1>3 DEF TypeInv, LiveJobs
  <2>2. PICK id \in DOMAIN ValidJobs : id = heap[n].id
    BY <2>1
  <2>3. ValidJobs' = [ValidJobs EXCEPT ![id] = n]
    BY <1>1, <2>2
  <2>4. ValidJobs' \in Seq(Cells \union {0}) /\ DOMAIN ValidJobs' = DOMAIN ValidJobs
    BY <1>2, <1>3, <2>3
  <2>5. \A i \in DOMAIN ValidJobs : ValidJobs'[i] = IF i = id THEN n ELSE ValidJobs[i]
    BY <1>2, <2>3
  <2>. QED
    BY <2>2, <2>4, <2>5
<1>9. /\ \A q \in Callers : proc'[q].job = proc[q].job
      /\ \A q \in Callers : q # p => proc'[q].new = proc[q].new
      /\ proc'[p].new = 0 /\ CurrentJob' = CurrentJob
  BY <1>1, <1>5, <1>6 DEF Apart
<1>10. Live' \subseteq kept
  BY <1>9 DEF Live, Referred
<1>11. Live' \subseteq Live
  <2>1. \A q \in Callers : proc'[q].new \in Live \union {0} /\ proc'[q].job \in Live \union {0}
    BY <1>9, LocalFacts
  <2>2. \A i \in DOMAIN ValidJobs' : ValidJobs'[i] \in Live \union {0}
    BY <1>3, <1>8, LiveFacts
  <2>3. CurrentJob' \in Live \union {0}
    BY <1>9, LiveFacts
  <2>. QED
    BY <2>1, <2>2, <2>3 DEF Live, Referred
<1>12. \A c \in Live' : heap'[c] = heap[c]
  BY <1>7, <1>10, <1>11, LiveFacts
<1>. HIDE DEF n
<1>. QED
  BY <1>1, <1>4, <1>5, <1>6, <1>7, <1>8, <1>11, <1>12 DEF Enters, n

LEMMA EntersType ==
  ASSUME TypeInv, NEW p \in Callers, Enters(p), UNCHANGED <<noSubmitBlock, serving>>
  PROVE  TypeInv'
<1>1. CurrentJob # 0 /\ p \in Callers /\ proc[p].new \in Cells
  BY LocalFacts DEF Enters, LocalsOk
<1>2. LocalsOk(p, proc'[p])
  <2>1. proc'[p].pc \in {"put", "serve", "idle"} /\ proc'[p].pc \in PcsOf(p)
    BY CallerKinds DEF Enters, PcsOf, SessionPcs, MainPcs, PollerPcs, WithJob, Entered, Settled
  <2>2. p \in Sessions => proc[p].pc \in WithJob
    BY DEF Enters, WithJob, Entered, Settled, Installs
  <2>3. p \in Sessions => "put" \in WithJob
    BY DEF WithJob, Entered, Settled
  <2>. QED
    BY <1>1, <2>1, <2>2, <2>3, LocalFacts DEF Enters, LocalsOk
<1>3. \A q \in Callers : LocalsOk(q, proc[q])'
  <2>1. \A q \in Callers : LocalsOk(q, proc'[q])
    BY <1>2 DEF Enters, Apart, TypeInv
  <2>2. UNCHANGED <<CurrentJob, shown>>
    BY DEF Enters
  <2>. QED
    BY <2>1, <2>2 DEF LocalsOk
<1>4. LiveJobs'
  BY DEF Enters, LiveJobs, TypeInv
<1>5. \A i \in DOMAIN ValidJobs' : ValidJobs'[i] # 0 => ValidJobs'[i] \in Live' /\ heap[ValidJobs'[i]].id = i
  <2>1. \A i \in DOMAIN ValidJobs' : ValidJobs'[i] # 0 => ValidJobs'[i] \in Live'
    BY DEF Live, Referred
  <2>. QED
    BY <2>1 DEF Enters, TypeInv
<1>6. \A i \in DOMAIN ValidJobs' : ValidJobs'[i] # 0 => heap'[ValidJobs'[i]].id = i
  BY <1>5 DEF Enters
<1>7. DaemonTypes' /\ HistoryTypes'
  BY DEF Enters, TypeInv, DaemonTypes, HistoryTypes
<1>8. TableTypes' /\ SentJobs'
  BY DEF Enters, TypeInv, TableTypes, SentJobs
<1>. QED
  BY <1>3, <1>4, <1>6, <1>7, <1>8 DEF TypeInv, Enters
-----------------------------------------------------------------------------
(* The main goroutine: it touches no node and no share, and what it asks    *)
(* the daemons is not to take a block.                                      *)

SubmitMethods == {"submit", "submitblock"}

Asks(p) ==
  /\ \A q \in Callers : q # p => call'[q] = call[q]
  /\ call'[p] = call[p] \/ call'[p].method \notin SubmitMethods
  /\ UNCHANGED <<node, stored>>

(* Only the configuration says of a daemon that knows submitblock that it   *)
(* does not.  Past the probe, when nothing failed, the pool knows the       *)
(* method.  Once it serves, start-up is over.                               *)
Probed == {"inform", "setup", "serve", "payments", "done"} \union Installs

Detected ==
  /\ noSubmitBlock /\ ~scenario.lacks => scenario.noSubmitBlock
  /\ faults = 0 /\ proc[Main].pc \in Probed => noSubmitBlock = scenario.lacks
  /\ serving => proc[Main].pc \in {"payments", "done"}

MainMoves(t) ==
  /\ MoveOk(Main, t) /\ Frame /\ Asks(Main)
  /\ noSubmitBlock' \in BOOLEAN /\ serving' \in BOOLEAN /\ (serving' => CurrentJob # 0)
  /\ Detected => Detected'

LEMMA MainIs ==
  /\ Main \in Callers /\ Main \notin Sessions /\ PcsOf(Main) = MainPcs
  BY CallerKinds DEF PcsOf

LEMMA AskAllMoves ==
  ASSUME TypeInv, AskAll
  PROVE  \E t : MainMoves(t)
<1>1. PICK ask \in {[pc |-> "check", method |-> "getpeerinfo", then |-> "checking"],
                    [pc |-> "ready", method |-> "getblocktemplate", then |-> "readying"]} :
        /\ proc[Main].pc = ask.pc /\ Goto(Main, ask.then) /\ CmdAll(Main, ask.method, {})
        /\ UNCHANGED <<alive, node, faults, scenario, heap, CurrentJob, ValidJobs, shown, second, submits, stored,
                       raced, noSubmitBlock, polling, serving>>
  BY DEF AskAll, At, Others, poolVars, table, outside
<1>2. PICK pc, method, then : /\ pc = ask.pc /\ method = ask.method /\ then = ask.then
  OBVIOUS
<1>3. /\ pc \in {"check", "ready"} /\ then \in {"checking", "readying"}
      /\ method \in {"getpeerinfo", "getblocktemplate"}
  BY <1>2
<1>4. proc[Main].pc = pc /\ Goto(Main, then) /\ CmdAll(Main, method, {})
  BY <1>1, <1>2
<1>5. /\ call' \in [Callers -> CallRecord] /\ call'[Main].method = method
      /\ \A q \in Callers : q # Main => call'[q] = call[q]
  <2>1. method \in Methods /\ {} \in SUBSET Blocks
    BY <1>3 DEF Methods
  <2>. QED
    BY <1>4, <2>1, CmdAllType, MainIs
<1>6. then \in PcsOf(Main)
  BY <1>3, MainIs DEF MainPcs
<1>7. PICK t : MoveOk(Main, t) /\ GoesOn(Main, t, then)
  BY <1>1, <1>3, <1>4, <1>6, MainIs, GotoMoves
<1>8. Frame
  BY <1>1, <1>5, CallFrame
<1>9. proc'[Main].pc = then
  BY <1>7, MainIs, Moved DEF MoveOk, GoesOn
<1>10. Asks(Main)
  BY <1>1, <1>3, <1>5 DEF Asks, SubmitMethods
<1>11. Detected => Detected'
  BY <1>1, <1>3, <1>4, <1>9 DEF Detected, Probed, Installs
<1>. QED
  BY <1>1, <1>7, <1>8, <1>10, <1>11 DEF MainMoves, TypeInv

LEMMA AllAnsweredMoves ==
  ASSUME TypeInv, AllAnswered
  PROVE  \E t : MainMoves(t)
<1>1. PICK ask \in {[pc |-> "checking", then |-> "balance"], [pc |-> "readying", then |-> "detect"]} :
        /\ proc[Main].pc = ask.pc /\ Goto(Main, ask.then)
        /\ call' = [call EXCEPT ![Main] = NoCall] /\ alive' = (call[Main].errors = {})
        /\ UNCHANGED <<node, faults, scenario, heap, CurrentJob, ValidJobs, shown, second, submits, stored,
                       raced, noSubmitBlock, polling, serving>>
  BY DEF AllAnswered, At, Others, poolVars, table, outside
<1>2. PICK pc, then : pc = ask.pc /\ then = ask.then
  OBVIOUS
<1>3. pc \in {"checking", "readying"} /\ then \in {"balance", "detect"}
  BY <1>2
<1>4. proc[Main].pc = pc /\ Goto(Main, then)
  BY <1>1, <1>2
<1>5. /\ call' \in [Callers -> CallRecord] /\ call'[Main].method = "none"
      /\ \A q \in Callers : q # Main => call'[q] = call[q]
  BY <1>1, NoCallType, MainIs
<1>6. then \in PcsOf(Main)
  BY <1>3, MainIs DEF MainPcs
<1>7. PICK t : MoveOk(Main, t) /\ GoesOn(Main, t, then)
  BY <1>1, <1>3, <1>4, <1>6, MainIs, GotoMoves
<1>8. Frame
  <2>1. alive' \in BOOLEAN
    BY <1>1
  <2>. QED
    BY <1>1, <1>5, <2>1 DEF Frame, TypeInv, DaemonTypes, HistoryTypes
<1>9. proc'[Main].pc = then
  BY <1>7, MainIs, Moved DEF MoveOk, GoesOn
<1>10. Asks(Main)
  BY <1>1, <1>3, <1>5 DEF Asks, SubmitMethods
<1>11. Detected => Detected'
  BY <1>1, <1>3, <1>4, <1>9 DEF Detected, Probed, Installs
<1>. QED
  BY <1>1, <1>7, <1>8, <1>10, <1>11 DEF MainMoves, TypeInv

(* A call of Cmd leaves one more fault, or none. *)
LEMMA OutcomeFrame ==
  ASSUME TypeInv, NEW outcome, CmdOutcome(Main, outcome), alive' \in BOOLEAN,
         UNCHANGED <<node, call, scenario, shown, second, submits, stored, raced>>
  PROVE  /\ Frame /\ Asks(Main) /\ (faults' = 0 => faults = 0)
         /\ outcome # "ok" => faults' # 0
<1>1. faults' = faults \/ Fault
  BY DEF CmdOutcome
<1>2. faults' \in 0..scenario'.faults
  BY <1>1, FaultType
<1>3. faults \in Nat
  BY ScenarioFacts DEF TypeInv, DaemonTypes
<1>4. outcome # "ok" => Fault
  BY DEF CmdOutcome
<1>5. Frame
  BY <1>2 DEF Frame, TypeInv, DaemonTypes, HistoryTypes
<1>. QED
  BY <1>1, <1>3, <1>4, <1>5 DEF Fault, Asks

LEMMA AskBalanceMoves ==
  ASSUME TypeInv, AskBalance
  PROVE  \E t : MainMoves(t)
<1>1. /\ proc[Main].pc = "balance" /\ Goto(Main, "ready")
      /\ UNCHANGED <<node, call, scenario, heap, CurrentJob, ValidJobs, shown, second, submits, stored,
                     raced, noSubmitBlock, polling, serving>>
  BY DEF AskBalance, At, Others, poolVars, table, outside
<1>2. PICK outcome \in {"ok", "error", "nil"} : CmdOutcome(Main, outcome) /\ alive' = (outcome = "ok")
  BY DEF AskBalance
<1>3. PICK t : MoveOk(Main, t) /\ GoesOn(Main, t, "ready")
  BY <1>1, MainIs, GotoMoves DEF MainPcs
<1>4. Frame /\ Asks(Main) /\ (faults' = 0 => faults = 0)
  <2>1. alive' \in BOOLEAN
    BY <1>2
  <2>. QED
    BY <1>1, <1>2, <2>1, OutcomeFrame
<1>5. proc'[Main].pc = "ready"
  BY <1>3, MainIs, Moved DEF MoveOk, GoesOn
<1>6. Detected => Detected'
  BY <1>1, <1>4, <1>5 DEF Detected, Probed, Installs
<1>. QED
  BY <1>1, <1>3, <1>4, <1>6 DEF MainMoves, TypeInv

LEMMA DetectInfoMoves ==
  ASSUME TypeInv, DetectInfo("detect", "probe") \/ DetectInfo("inform", "fetch")
  PROVE  \E t : MainMoves(t)
<1>1. PICK pc \in {"detect", "inform"}, then \in {"probe", "fetch"} :
        DetectInfo(pc, then) /\ (pc = "inform" <=> then = "fetch")
  OBVIOUS
<1>2. /\ proc[Main].pc = pc
      /\ UNCHANGED <<node, call, scenario, heap, CurrentJob, ValidJobs, shown, second, submits, stored,
                     raced, noSubmitBlock, polling, serving>>
  BY <1>1 DEF DetectInfo, At, Others, poolVars, table, outside
<1>3. PICK outcome \in {"ok", "error", "nil"} :
        /\ CmdOutcome(Main, outcome) /\ alive' = (outcome # "nil")
        /\ Goto(Main, IF outcome = "ok" THEN then ELSE "fetch")
  BY <1>1 DEF DetectInfo
<1>4. PICK next \in {"probe", "fetch"} :
        Goto(Main, next) /\ (next = "fetch" => pc = "inform" \/ outcome # "ok")
  BY <1>1, <1>3
<1>5. PICK t : MoveOk(Main, t) /\ GoesOn(Main, t, next)
  <2>1. next \in PcsOf(Main)
    BY MainIs DEF MainPcs, Installs
  <2>. QED
    BY <1>2, <1>4, <2>1, MainIs, GotoMoves
<1>6. Frame /\ Asks(Main) /\ (faults' = 0 => faults = 0) /\ (outcome # "ok" => faults' # 0)
  <2>1. alive' \in BOOLEAN
    BY <1>3
  <2>. QED
    BY <1>2, <1>3, <2>1, OutcomeFrame
<1>7. proc'[Main].pc = next
  BY <1>5, MainIs, Moved DEF MoveOk, GoesOn
<1>8. Detected => Detected'
  BY <1>2, <1>4, <1>6, <1>7 DEF Detected, Probed, Installs
<1>. QED
  BY <1>2, <1>5, <1>6, <1>8 DEF MainMoves, TypeInv

LEMMA ProbeSubmitBlockMoves ==
  ASSUME TypeInv, ProbeSubmitBlock
  PROVE  \E t : MainMoves(t)
<1>1. /\ proc[Main].pc = "probe"
      /\ UNCHANGED <<node, call, scenario, heap, CurrentJob, ValidJobs, shown, second, submits, stored,
                     raced, polling, serving>>
  BY DEF ProbeSubmitBlock, At, Others, table, outside
<1>2. PICK answer \in {"MethodNotFound", "usage", "other", "noError", "nil"} :
        /\ ProbeAnswer(answer) /\ alive' = (answer # "other") /\ noSubmitBlock' = Judged(answer)
        /\ Goto(Main, IF answer \in {"MethodNotFound", "usage"} THEN "inform" ELSE "fetch")
  BY DEF ProbeSubmitBlock
<1>3. PICK next \in {"inform", "fetch"} : Goto(Main, next)
  BY <1>2
<1>4. PICK t : MoveOk(Main, t) /\ GoesOn(Main, t, next)
  <2>1. next \in PcsOf(Main)
    BY MainIs DEF MainPcs, Installs
  <2>. QED
    BY <1>1, <1>3, <2>1, MainIs, GotoMoves
<1>5. Frame /\ Asks(Main)
  <2>1. alive' \in BOOLEAN
    BY <1>2
  <2>2. faults' \in 0..scenario'.faults
    BY <1>1, <1>2, FaultType DEF ProbeAnswer
  <2>. QED
    BY <1>1, <2>1, <2>2 DEF Frame, Asks, TypeInv, DaemonTypes, HistoryTypes
<1>6. noSubmitBlock' \in BOOLEAN
  BY <1>2 DEF Judged, TypeInv
<1>7. Detected => Detected'
  <2>1. noSubmitBlock' => answer = "MethodNotFound" \/ noSubmitBlock
    BY <1>2 DEF Judged
  <2>2. faults' = 0 => noSubmitBlock' = scenario.lacks /\ (answer = "MethodNotFound" => scenario.lacks)
    <3>0. scenario \in Scenarios /\ faults \in 0..scenario.faults /\ scenario.faults \in Nat
      BY ScenarioFacts DEF TypeInv, DaemonTypes
    <3>1. scenario.lacks \in BOOLEAN
      BY <3>0, ScenarioFacts
    <3>2. PICK honest : honest = IF scenario.lacks THEN "MethodNotFound" ELSE "usage"
      OBVIOUS
    <3>3. Fault => faults' # 0
      BY <3>0 DEF Fault
    <3>4. faults' = 0 => answer = honest
      BY <1>2, <3>2, <3>3 DEF ProbeAnswer
    <3>. QED
      BY <1>2, <3>1, <3>2, <3>4 DEF Judged
  <2>3. answer = "MethodNotFound" => scenario.lacks
    BY <1>2 DEF ProbeAnswer
  <2>4. ~serving' \/ ~Detected
    BY <1>1 DEF Detected
  <2>. QED
    BY <1>1, <2>1, <2>2, <2>3, <2>4 DEF Detected
<1>. QED
  BY <1>1, <1>4, <1>5, <1>6, <1>7 DEF MainMoves, TypeInv

LEMMA SetupMoves ==
  ASSUME TypeInv, Setup
  PROVE  \E t : MainMoves(t)
<1>1. /\ proc[Main].pc = "setup"
      /\ UNCHANGED <<alive, node, call, faults, scenario, heap, CurrentJob, ValidJobs, shown, second, submits, stored,
                     raced, noSubmitBlock, serving>>
  BY DEF Setup, At, Others, daemonVars, table, outside
<1>2. Frame /\ Asks(Main)
  BY <1>1, SameFrame DEF Asks
<1>3. CASE P2P
  <2>. DEFINE t == [Idle EXCEPT !.pc = "ready"]
  <2>1. proc' = [proc EXCEPT ![Main] = t]
    BY <1>3 DEF Setup
  <2>2. t \in ProcRecord /\ t.pc = "ready" /\ t.job = 0 /\ t.new = 0
    BY IdleType DEF Idle, ProcRecord, Pcs, MainPcs
  <2>. HIDE DEF t
  <2>3. MoveOk(Main, t)
    <3>1. LocalsOk(Main, t)
      BY <2>2, MainIs DEF LocalsOk, MainPcs
    <3>. QED
      BY <1>1, <2>1, <2>2, <3>1 DEF MoveOk
  <2>4. proc'[Main].pc = "ready"
    BY <2>1, <2>2, MainIs, Moved
  <2>5. Detected => Detected'
    BY <1>1, <2>4 DEF Detected, Probed, Installs
  <2>. QED
    BY <1>1, <1>2, <2>3, <2>5 DEF MainMoves, TypeInv
<1>4. CASE ~P2P
  <2>1. Goto(Main, "decide")
    BY <1>4 DEF Setup
  <2>2. proc[Main].tpl \in Tpls
    BY <1>1, LocalFacts, MainIs DEF LocalsOk
  <2>3. PICK t : MoveOk(Main, t) /\ GoesOn(Main, t, "decide")
    BY <1>1, <2>1, <2>2, MainIs, GotoMoves DEF MainPcs, Installs
  <2>4. proc'[Main].pc = "decide"
    BY <2>3, MainIs, Moved DEF MoveOk, GoesOn
  <2>5. Detected => Detected'
    BY <1>1, <2>4 DEF Detected, Probed, Installs
  <2>. QED
    BY <1>1, <1>2, <2>3, <2>5 DEF MainMoves, TypeInv
<1>. QED
  BY <1>3, <1>4

LEMMA StartStratumServerMoves ==
  ASSUME TypeInv, StartStratumServer
  PROVE  \E t : MainMoves(t)
<1>1. /\ proc[Main].pc = "serve" /\ Goto(Main, "payments") /\ serving' = TRUE
      /\ UNCHANGED <<alive, node, call, faults, scenario, heap, CurrentJob, ValidJobs, shown, second, submits, stored,
                     raced, noSubmitBlock>>
  BY DEF StartStratumServer, At, Others, daemonVars, table, outside
<1>2. Frame /\ Asks(Main)
  BY <1>1, SameFrame DEF Asks
<1>3. CurrentJob # 0
  BY <1>1, LocalFacts, MainIs DEF LocalsOk
<1>4. PICK t : MoveOk(Main, t) /\ GoesOn(Main, t, "payments")
  BY <1>1, <1>3, MainIs, GotoMoves DEF MainPcs
<1>5. proc'[Main].pc = "payments"
  BY <1>4, MainIs, Moved DEF MoveOk, GoesOn
<1>6. Detected => Detected'
  BY <1>1, <1>5 DEF Detected, Probed
<1>. QED
  BY <1>1, <1>2, <1>3, <1>4, <1>6 DEF MainMoves, TypeInv

LEMMA StartPaymentsMoves ==
  ASSUME TypeInv, StartPayments
  PROVE  \E t : MainMoves(t)
<1>1. /\ proc[Main].pc = "payments" /\ Goto(Main, "done")
      /\ UNCHANGED <<node, call, scenario, heap, CurrentJob, ValidJobs, shown, second, submits, stored,
                     raced, noSubmitBlock, polling, serving>>
  BY DEF StartPayments, At, Others, poolVars, table, outside
<1>2. PICK outcome \in {"ok", "error", "nil"} : CmdOutcome(Main, outcome) /\ alive' = (outcome = "ok")
  BY DEF StartPayments
<1>3. CurrentJob # 0
  BY <1>1, LocalFacts, MainIs DEF LocalsOk
<1>4. PICK t : MoveOk(Main, t) /\ GoesOn(Main, t, "done")
  BY <1>1, <1>3, MainIs, GotoMoves DEF MainPcs
<1>5. Frame /\ Asks(Main) /\ (faults' = 0 => faults = 0)
  <2>1. alive' \in BOOLEAN
    BY <1>2
  <2>. QED
    BY <1>1, <1>2, <2>1, OutcomeFrame
<1>6. proc'[Main].pc = "done"
  BY <1>4, MainIs, Moved DEF MoveOk, GoesOn
<1>7. Detected => Detected'
  BY <1>1, <1>5, <1>6 DEF Detected, Probed
<1>. QED
  BY <1>1, <1>4, <1>5, <1>7 DEF MainMoves, TypeInv

LEMMA MainFetchMoves ==
  ASSUME TypeInv, GetBlockTemplate(Main, "setup", "fatal"), UNCHANGED poolVars
  PROVE  \E t : MainMoves(t)
<1>1. /\ \E t : MoveOk(Main, t) /\ Frame /\ t.pc \in {"fetch", "setup"}
      /\ UNCHANGED <<node, call, stored>> /\ proc[Main].pc = "fetch"
  BY MainIs, TemplateMoves DEF MainPcs
<1>2. PICK t : MoveOk(Main, t) /\ Frame /\ t.pc \in {"fetch", "setup"}
  BY <1>1
<1>3. proc'[Main].pc \in {"fetch", "setup"}
  BY <1>2, MainIs, Moved DEF MoveOk
<1>4. faults' = 0 => faults = 0
  <2>1. faults' = faults \/ Fault
    BY DEF GetBlockTemplate, CmdOutcome
  <2>. QED
    BY <2>1, ScenarioFacts DEF Fault, TypeInv, DaemonTypes
<1>5. UNCHANGED <<noSubmitBlock, serving, scenario>>
  BY <1>2 DEF poolVars, Frame
<1>6. Detected => Detected'
  BY <1>1, <1>3, <1>4, <1>5 DEF Detected, Probed, Installs
<1>7. Asks(Main)
  BY <1>1 DEF Asks
<1>. QED
  BY <1>2, <1>5, <1>6, <1>7 DEF MainMoves, TypeInv, MoveOk

LEMMA MainStepMoves ==
  ASSUME TypeInv, MainStep
  PROVE  \E t : MainMoves(t)
  BY AskAllMoves, AllAnsweredMoves, AskBalanceMoves, DetectInfoMoves, ProbeSubmitBlockMoves, MainFetchMoves,
     SetupMoves, StartStratumServerMoves, StartPaymentsMoves DEF MainStep, DetectCoinData
-----------------------------------------------------------------------------
(* The nodes: they only gain blocks, those they were asked to take and      *)
(* those of other nodes.                                                    *)

Gains(d, block) ==
  /\ node' \in [Daemons -> NodeRecord] /\ d \in Daemons
  /\ node'[d].blocks = node[d].blocks \union block
  /\ \A e \in Daemons : e # d => node'[e].blocks = node[e].blocks

LEMMA NodeGains ==
  ASSUME TypeInv, NEW d \in Daemons, NEW block \in SUBSET Blocks, NEW height \in Nat,
         node' = [node EXCEPT ![d].height = height, ![d].rev = 0, ![d].blocks = @ \union block]
  PROVE  Gains(d, block)
<1>. DEFINE r == [node[d] EXCEPT !.height = height, !.rev = 0, !.blocks = node[d].blocks \union block]
<1>1. node \in [Daemons -> NodeRecord] /\ node[d] \in NodeRecord
  BY DEF TypeInv, DaemonTypes
<1>2. node' = [node EXCEPT ![d] = r]
  BY <1>1
<1>3. r \in NodeRecord /\ r.blocks = node[d].blocks \union block
  BY <1>1 DEF NodeRecord
<1>. HIDE DEF r
<1>. QED
  BY <1>1, <1>2, <1>3 DEF Gains

LEMMA ExtendGains ==
  ASSUME TypeInv, NEW d \in Daemons, NEW p \in Callers, node' = node \/ Extend(d, call[p].method, call[p].block)
  PROVE  Gains(d, {}) \/ (call[p].method \in SubmitMethods /\ Gains(d, call[p].block))
<1>1. node \in [Daemons -> NodeRecord] /\ node[d].height + 1 \in Nat
  BY DEF TypeInv, DaemonTypes, NodeRecord
<1>2. call[p].block \in SUBSET Blocks
  BY DEF TypeInv, DaemonTypes, CallRecord
<1>3. CASE node' = node
  BY <1>1, <1>3 DEF Gains
<1>4. CASE /\ Taken(d, call[p].method, call[p].block)
           /\ node' = [node EXCEPT ![d].height = @ + 1, ![d].rev = 0, ![d].blocks = @ \union call[p].block]
  <2>1. call[p].method \in SubmitMethods
    BY <1>4 DEF Taken, SubmitMethods
  <2>2. node' = [node EXCEPT ![d].height = node[d].height + 1, ![d].rev = 0, ![d].blocks = @ \union call[p].block]
    BY <1>1, <1>4
  <2>. QED
    BY <1>1, <1>2, <2>1, <2>2, NodeGains
<1>. QED
  BY <1>3, <1>4 DEF Extend

(* A call that goes on: it is the same call, and whoever has answered it    *)
(* without an error has what it was asked for.                              *)
Progress(p, d) ==
  /\ call' \in [Callers -> CallRecord] /\ \A q \in Callers : q # p => call'[q] = call[q]
  /\ call'[p].method = call[p].method /\ call'[p].block = call[p].block
  /\ \A e \in call[p].left \union call[p].gone \union call[p].errors :
       \/ e \in call'[p].left \union call'[p].gone \union call'[p].errors
       \/ e = d /\ (call[p].method = "getblock" => call[p].block \subseteq node[d].blocks)

LEMMA CallProgress ==
  ASSUME TypeInv, NEW p \in Callers, NEW d \in Daemons, NEW bad \in BOOLEAN, Answered(p, d, bad),
         bad \/ (call[p].method = "getblock" => call[p].block \subseteq node[d].blocks)
  PROVE  Progress(p, d)
<1>. DEFINE r == [call[p] EXCEPT !.left = call[p].left \ {d},
                                 !.errors = IF bad THEN call[p].errors \union {d} ELSE call[p].errors]
<1>1. call \in [Callers -> CallRecord] /\ call[p] \in CallRecord
  BY DEF TypeInv, DaemonTypes
<1>2. call' = [call EXCEPT ![p] = r]
  BY <1>1 DEF Answered
<1>3. /\ r \in CallRecord /\ r.method = call[p].method /\ r.block = call[p].block /\ r.gone = call[p].gone
      /\ r.left = call[p].left \ {d}
      /\ r.errors = IF bad THEN call[p].errors \union {d} ELSE call[p].errors
  BY <1>1 DEF CallRecord
<1>. HIDE DEF r
<1>4. call' \in [Callers -> CallRecord] /\ call'[p] = r /\ \A q \in Callers : q # p => call'[q] = call[q]
  BY <1>1, <1>2, <1>3
<1>. QED
  BY <1>3, <1>4 DEF Progress

LEMMA GoneProgress ==
  ASSUME TypeInv, NEW p \in Callers, NEW d \in Daemons,
         call' = [call EXCEPT ![p].left = @ \ {d}, ![p].gone = @ \union {d}]
  PROVE  Progress(p, d)
<1>. DEFINE r == [call[p] EXCEPT !.left = call[p].left \ {d}, !.gone = call[p].gone \union {d}]
<1>1. call \in [Callers -> CallRecord] /\ call[p] \in CallRecord
  BY DEF TypeInv, DaemonTypes
<1>2. call' = [call EXCEPT ![p] = r]
  BY <1>1
<1>3. /\ r \in CallRecord /\ r.method = call[p].method /\ r.block = call[p].block /\ r.errors = call[p].errors
      /\ r.left = call[p].left \ {d} /\ r.gone = call[p].gone \union {d}
  BY <1>1 DEF CallRecord
<1>. HIDE DEF r
<1>4. call' \in [Callers -> CallRecord] /\ call'[p] = r /\ \A q \in Callers : q # p => call'[q] = call[q]
  BY <1>1, <1>2, <1>3
<1>. QED
  BY <1>3, <1>4 DEF Progress

(* The answer of a daemon, as the proofs use it. *)
Answers(p, d) ==
  /\ Progress(p, d)
  /\ Gains(d, {}) \/ (call[p].method \in SubmitMethods /\ Gains(d, call[p].block))
  /\ alive' \in BOOLEAN /\ faults' \in 0..scenario.faults /\ (faults' = 0 => faults = 0) /\ UNCHANGED scenario

LEMMA AnswerAnswers ==
  ASSUME TypeInv, NEW p \in Callers, Answer(p)
  PROVE  \E d \in Daemons : Answers(p, d)
<1>1. PICK d \in Daemons : Reply(p, d) \/ ReplyError(p, d) \/ Unreachable(p, d) \/ Garbled(p, d)
  BY DEF Answer
<1>2. /\ alive' \in BOOLEAN /\ UNCHANGED scenario /\ (faults' = faults \/ Fault)
  BY <1>1 DEF Reply, ReplyError, Unreachable, Garbled, TypeInv, DaemonTypes
<1>3. faults' \in 0..scenario.faults /\ (faults' = 0 => faults = 0)
  <2>1. faults' \in 0..scenario'.faults
    BY <1>2, FaultType
  <2>. QED
    BY <1>2, <2>1, ScenarioFacts DEF Fault, TypeInv, DaemonTypes
<1>4. Gains(d, {}) \/ (call[p].method \in SubmitMethods /\ Gains(d, call[p].block))
  BY <1>1, ExtendGains DEF Reply, ReplyError, Unreachable, Garbled
<1>5. Progress(p, d)
  <2>1. CASE Reply(p, d)
    <3>1. PICK bad \in BOOLEAN : bad = RpcError(d, call[p].method, call[p].block)
      BY DEF RpcError
    <3>2. Answered(p, d, bad)
      BY <2>1, <3>1 DEF Reply
    <3>3. bad \/ (call[p].method = "getblock" => call[p].block \subseteq node[d].blocks)
      BY <3>1 DEF RpcError
    <3>. QED
      BY <3>2, <3>3, CallProgress
  <2>2. CASE ReplyError(p, d)
    BY <2>2, CallProgress DEF ReplyError
  <2>3. CASE Unreachable(p, d)
    BY <2>3, GoneProgress DEF Unreachable
  <2>4. CASE Garbled(p, d)
    BY <2>4 DEF Garbled, Progress, TypeInv, DaemonTypes
  <2>. QED
    BY <1>1, <2>1, <2>2, <2>3, <2>4
<1>. QED
  BY <1>2, <1>3, <1>4, <1>5 DEF Answers

Spreads(d, e) == e \in Daemons /\ (Gains(d, {}) \/ Gains(d, node[e].blocks)) /\ UNCHANGED <<alive, call, faults, scenario>>

LEMMA NetworkSpreads ==
  ASSUME TypeInv, Network
  PROVE  \E d, e \in Daemons : Spreads(d, e)
<1>0. node \in [Daemons -> NodeRecord]
  BY DEF TypeInv, DaemonTypes
<1>1. CASE NodeRevise
  <2>. DEFINE d == First
              r == [node[d] EXCEPT !.rev = node[d].rev + 1]
  <2>1. d \in Daemons /\ node[d] \in NodeRecord
    BY <1>0, DaemonsAssumption
  <2>2. node' = [node EXCEPT ![d] = r] /\ UNCHANGED <<alive, call, faults, scenario>>
    BY <1>0, <1>1, <2>1 DEF NodeRevise
  <2>3. r \in NodeRecord /\ r.blocks = node[d].blocks
    BY <2>1 DEF NodeRecord
  <2>. HIDE DEF r
  <2>4. Gains(d, {})
    BY <1>0, <2>1, <2>2, <2>3 DEF Gains
  <2>. QED
    BY <2>1, <2>2, <2>4 DEF Spreads
<1>2. CASE \E d \in Daemons : NodeAdvance(d)
  <2>1. PICK d \in Daemons : NodeAdvance(d)
    BY <1>2
  <2>. DEFINE r == [node[d] EXCEPT !.height = node[d].height + 1, !.rev = 0]
  <2>2. node' = [node EXCEPT ![d] = r] /\ UNCHANGED <<alive, call, faults, scenario>> /\ node[d] \in NodeRecord
    BY <1>0, <2>1 DEF NodeAdvance
  <2>3. PICK h \in Nat : h = node[d].height + 1
    BY <2>2 DEF NodeRecord
  <2>4. r = [node[d] EXCEPT !.height = h, !.rev = 0]
    BY <2>3
  <2>5. r \in NodeRecord /\ r.blocks = node[d].blocks
    BY <2>2, <2>4 DEF NodeRecord
  <2>. HIDE DEF r
  <2>6. Gains(d, {})
    BY <1>0, <2>2, <2>5 DEF Gains
  <2>. QED
    BY <2>2, <2>6 DEF Spreads
<1>3. CASE \E d, e \in Daemons : NodeRelay(d, e)
  <2>1. PICK d \in Daemons, e \in Daemons : NodeRelay(d, e)
    BY <1>3
  <2>2. node[e].blocks \in SUBSET Blocks /\ node[e].height \in Nat
    BY <1>0 DEF NodeRecord
  <2>3. Gains(d, node[e].blocks) /\ UNCHANGED <<alive, call, faults, scenario>>
    BY <2>1, <2>2, NodeGains DEF NodeRelay
  <2>. QED
    BY <2>3 DEF Spreads
<1>. QED
  BY <1>1, <1>2, <1>3 DEF Network
-----------------------------------------------------------------------------
(* The steps of the pool, by what they disturb. *)

Quiet(p, t) ==
  /\ MoveOk(p, t) /\ Lazy(p, t) /\ Holds(p, t) /\ Frame /\ Asks(p)
  /\ p = Main => proc[p].pc \in Installs /\ t.pc \in Installs \union {"serve"}
  /\ faults' = 0 => faults = 0

SessionCalls(s) == SubmitBlock(s, noSubmitBlock) \/ AskAccepted(s) \/ Checked(s)
MakesJob(p) == UpdateCurrentJob(p) \/ CreateNewJob(p)

(* A call of Cmd that is never answered leaves its goroutine where it is. *)
LEMMA NoAnswerStays ==
  ASSUME TypeInv, NEW p \in Callers, NoAnswer(p)
  PROVE  /\ Quiet(p, proc[p]) \/ MainMoves(proc[p])
         /\ UNCHANGED <<noSubmitBlock, serving>>
<1>. DEFINE c == [NoCall EXCEPT !.method = "cmd", !.gone = {First}]
<1>1. /\ Fault /\ call' = [call EXCEPT ![p] = c]
      /\ UNCHANGED <<alive, node, scenario, heap, CurrentJob, ValidJobs, proc, shown, second, submits, stored, raced,
                     noSubmitBlock, polling, serving>>
  BY DEF NoAnswer, CmdHangs, jobVars, poolVars, table, outside
<1>2. c \in CallRecord /\ c.method = "cmd"
  BY DaemonsAssumption DEF NoCall, CallRecord, Methods
<1>3. /\ call' \in [Callers -> CallRecord] /\ call'[p] = c
      /\ \A q \in Callers : q # p => call'[q] = call[q]
  BY <1>1, <1>2 DEF TypeInv, DaemonTypes
<1>. HIDE DEF c
<1>4. Asks(p)
  BY <1>1, <1>2, <1>3 DEF Asks, SubmitMethods
<1>5. faults' \in 0..scenario'.faults /\ faults' # 0
  BY <1>1, FaultType, ScenarioFacts DEF Fault, TypeInv, DaemonTypes
<1>6. Frame
  BY <1>1, <1>3, <1>5 DEF Frame, TypeInv, DaemonTypes, HistoryTypes
<1>7. proc[p] \in ProcRecord /\ LocalsOk(p, proc[p]) /\ proc' = [proc EXCEPT ![p] = proc[p]]
  BY <1>1 DEF TypeInv
<1>8. MoveOk(p, proc[p])
  BY <1>1, <1>7, LocalFacts DEF MoveOk
<1>9. CASE proc[p].pc = "fetch"
  <2>1. Lazy(p, proc[p]) /\ Holds(p, proc[p])
    BY <1>9 DEF Lazy, Holds, Entered, Submitted, Settled, Installs
  <2>. QED
    BY <1>1, <1>4, <1>5, <1>6, <1>8, <1>9, <2>1 DEF Quiet, Installs
<1>10. CASE proc[p].pc # "fetch"
  <2>1. p = Main
    BY <1>10 DEF NoAnswer, InCmd
  <2>2. Detected => Detected'
    BY <1>1, <1>5 DEF Detected
  <2>. QED
    BY <1>1, <1>4, <1>6, <1>8, <2>1, <2>2 DEF MainMoves, TypeInv
<1>. QED
  BY <1>9, <1>10

OtherStep ==
  \/ \E p \in Callers : \E t : Quiet(p, t)
  \/ \E s \in Sessions : SessionCalls(s) \/ PutShare(s) \/ AppendSubmit(s)
  \/ \E p \in Callers : MakesJob(p) \/ SetCurrent(p) \/ SetValid(p)
  \/ (Network \/ \E p \in Callers : Answer(p)) /\ UNCHANGED jobVars
  \/ Clock \/ SendJob

LEMMA NextKinds ==
  ASSUME TypeInv, Next
  PROVE  (\E t : MainMoves(t)) \/ (OtherStep /\ UNCHANGED <<noSubmitBlock, serving>>)
<1>1. CASE Outside
  <2>1. ASSUME NEW s \in Sessions, ReceiveSubmit(s) PROVE \E t : Quiet(s, t)
    <3>1. UNCHANGED <<node, call, stored, faults>> /\ s \in Callers /\ s # Main
      BY <2>1, CallerKinds DEF ReceiveSubmit, daemonVars
    <3>2. Asks(s)
      BY <3>1 DEF Asks
    <3>. QED
      BY <2>1, <3>1, <3>2, ReceiveSubmitMoves DEF Quiet
  <2>. QED
    BY <1>1, <2>1, CallerKinds DEF Outside, OtherStep, poolVars
<1>2. CASE \E p \in Callers : Step(p)
  <2>1. PICK p \in Callers : Step(p)
    BY <1>2
  <2>2. CASE p = Main /\ MainStep
    BY <2>2, MainStepMoves
  <2>3. CASE p = Poller /\ Tick
    <3>1. /\ proc[p].pc = "idle" /\ Goto(p, "fetch")
          /\ UNCHANGED <<alive, node, call, faults, scenario, heap, CurrentJob, ValidJobs, shown, second, submits,
                         stored, raced, noSubmitBlock, serving>>
      BY <2>3 DEF Tick, daemonVars, Others, table, outside, poolVars
    <3>2. p \notin Sessions /\ p # Main /\ "fetch" \in PcsOf(p)
      BY <2>3, CallerKinds DEF PcsOf, PollerPcs, Installs
    <3>3. PICK t : MoveOk(p, t)
      BY <3>1, <3>2, GotoMoves
    <3>4. Frame /\ Asks(p)
      BY <3>1, SameFrame DEF Asks
    <3>5. Quiet(p, t)
      BY <3>1, <3>2, <3>3, <3>4 DEF Quiet, Lazy, Holds
    <3>. QED
      BY <3>1, <3>5 DEF OtherStep
  <2>4. ASSUME NEW onError, GetBlockTemplate(p, "decide", onError), UNCHANGED poolVars, p # Main,
               onError = "idle" => p = Poller
        PROVE  OtherStep /\ UNCHANGED <<noSubmitBlock, serving>>
    <3>1. "decide" \in PcsOf(p)
      BY <2>4, CallerKinds DEF PcsOf, SessionPcs, PollerPcs, WithJob, Entered, Settled, Installs
    <3>2. (\E t : MoveOk(p, t) /\ Lazy(p, t) /\ Holds(p, t) /\ Frame) /\ UNCHANGED <<node, call, stored>>
      BY <2>4, <3>1, TemplateMoves
    <3>3. faults' = 0 => faults = 0
      <4>1. faults' = faults \/ Fault
        BY <2>4 DEF GetBlockTemplate, CmdOutcome
      <4>. QED
        BY <4>1, ScenarioFacts DEF Fault, TypeInv, DaemonTypes
    <3>4. Asks(p)
      BY <3>2 DEF Asks
    <3>5. \E t : Quiet(p, t)
      BY <2>4, <3>2, <3>3, <3>4 DEF Quiet
    <3>. QED
      BY <2>4, <3>5 DEF OtherStep, poolVars
  <2>5. CASE p = Poller /\ GetBlockTemplate(Poller, "decide", "idle") /\ UNCHANGED poolVars
    BY <2>4, <2>5, CallerKinds
  <2>6. CASE p \in Sessions /\ Submitting(p, noSubmitBlock) /\ UNCHANGED poolVars
    <3>1. p # Main
      BY <2>6, CallerKinds
    <3>2. ASSUME LookUp(p) \/ RegisterSubmit(p) \/ Judge(p) PROVE \E t : Quiet(p, t)
      <4>1. UNCHANGED <<node, call, stored, faults>>
        BY <3>2 DEF LookUp, RegisterSubmit, Judge, daemonVars
      <4>2. Asks(p)
        BY <4>1 DEF Asks
      <4>. QED
        BY <2>6, <3>1, <3>2, <4>1, <4>2, LookUpMoves, RegisterSubmitMoves, JudgeMoves DEF Quiet
    <3>3. CASE GetBlockTemplate(p, "decide", "panic")
      BY <2>4, <2>6, <3>1, <3>3
    <3>. QED
      BY <2>6, <3>2, <3>3 DEF Submitting, OtherStep, SessionCalls, poolVars
  <2>7. CASE Installing(p) /\ UNCHANGED poolVars
    <3>1. ASSUME ProcessTemplate(p) PROVE \E t : Quiet(p, t)
      <4>1. PICK t : /\ MoveOk(p, t) /\ Lazy(p, t) /\ Holds(p, t) /\ Frame
                     /\ p = Main => t.pc \in {"create", "update", "serve"}
        BY <3>1, ProcessTemplateMoves
      <4>2. UNCHANGED <<node, call, stored, faults>> /\ proc[p].pc = "decide"
        BY <3>1 DEF ProcessTemplate, daemonVars
      <4>3. Asks(p)
        BY <4>2 DEF Asks
      <4>. QED
        BY <4>1, <4>2, <4>3 DEF Quiet, Installs
    <3>. QED
      BY <2>7, <3>1 DEF Installing, OtherStep, MakesJob, poolVars
  <2>8. CASE Answer(p) /\ UNCHANGED <<jobVars, poolVars>>
    BY <2>8 DEF OtherStep, poolVars
  <2>9. CASE NoAnswer(p)
    BY <2>9, NoAnswerStays DEF OtherStep
  <2>. QED
    BY <2>1, <2>2, <2>3, <2>5, <2>6, <2>7, <2>8, <2>9 DEF Step
<1>. QED
  BY <1>1, <1>2 DEF Next

LEMMA DaemonStepType ==
  ASSUME TypeInv, DaemonTypes', UNCHANGED <<jobVars, scenario, noSubmitBlock, serving>>
  PROVE  TypeInv' /\ Live' = Live
<1>1. UNCHANGED <<heap, CurrentJob, ValidJobs, proc, shown, second, submits, stored, raced>>
  BY DEF jobVars, table, outside
<1>2. Live' = Live
  BY <1>1 DEF Live, Referred
<1>3. \A q \in Callers : LocalsOk(q, proc[q])'
  BY <1>1 DEF LocalsOk, TypeInv
<1>4. LiveJobs' /\ SentJobs' /\ TableTypes' /\ HistoryTypes'
  BY <1>1, <1>2 DEF LiveJobs, SentJobs, TableTypes, HistoryTypes, TypeInv
<1>. QED
  BY <1>1, <1>2, <1>3, <1>4 DEF TypeInv

LEMMA AnswerType ==
  ASSUME TypeInv, (Network \/ \E p \in Callers : Answer(p)), UNCHANGED <<jobVars, noSubmitBlock, serving>>
  PROVE  TypeInv' /\ Live' = Live /\ UNCHANGED scenario
<1>1. CASE Network
  <2>1. PICK d \in Daemons, e \in Daemons : Spreads(d, e)
    BY <1>1, NetworkSpreads
  <2>2. DaemonTypes' /\ UNCHANGED scenario
    BY <2>1 DEF Spreads, Gains, TypeInv, DaemonTypes
  <2>. QED
    BY <2>2, DaemonStepType
<1>2. CASE \E p \in Callers : Answer(p)
  <2>1. PICK p \in Callers : Answer(p)
    BY <1>2
  <2>2. PICK d \in Daemons : Answers(p, d)
    BY <2>1, AnswerAnswers
  <2>3. node' \in [Daemons -> NodeRecord]
    BY <2>2 DEF Answers, Gains
  <2>4. DaemonTypes' /\ UNCHANGED scenario
    BY <2>2, <2>3 DEF Answers, Progress, TypeInv, DaemonTypes
  <2>. QED
    BY <2>4, DaemonStepType
<1>. QED
  BY <1>1, <1>2

LEMMA ClockType ==
  ASSUME TypeInv, Clock \/ SendJob, UNCHANGED <<noSubmitBlock, serving>>
  PROVE  TypeInv' /\ Live' = Live
<1>1. /\ UNCHANGED <<alive, node, call, faults, scenario, heap, CurrentJob, ValidJobs, proc, submits, stored, raced>>
      /\ second' \in Nat /\ shown \subseteq shown'
  BY DEF Clock, SendJob, daemonVars, table, TypeInv, HistoryTypes
<1>2. Live' = Live
  BY <1>1 DEF Live, Referred
<1>3. shown' \subseteq SentRecord /\ SentJobs'
  <2>1. CASE Clock
    BY <1>1, <2>1 DEF Clock, TypeInv, SentJobs, HistoryTypes
  <2>2. CASE SendJob
    <3>1. CurrentJob \in Live
      BY <2>2, LiveFacts DEF SendJob
    <3>2. heap[CurrentJob].work \in Works /\ heap[CurrentJob].id \in DOMAIN ValidJobs
      BY <3>1 DEF TypeInv, LiveJobs
    <3>3. heap[CurrentJob].id \in Nat
      BY <3>2 DEF TypeInv, TableTypes
    <3>. DEFINE j == [id |-> heap[CurrentJob].id, work |-> heap[CurrentJob].work]
    <3>4. j \in SentRecord /\ j.id \in DOMAIN ValidJobs
      BY <3>2, <3>3 DEF SentRecord
    <3>5. shown' = shown \union {j}
      BY <2>2 DEF SendJob
    <3>. HIDE DEF j
    <3>. QED
      BY <1>1, <3>4, <3>5 DEF TypeInv, SentJobs, HistoryTypes
  <2>. QED
    BY <2>1, <2>2
<1>4. \A q \in Callers : LocalsOk(q, proc[q])'
  BY <1>1 DEF LocalsOk, TypeInv
<1>5. LiveJobs' /\ TableTypes' /\ HistoryTypes' /\ DaemonTypes'
  BY <1>1, <1>2, <1>3 DEF LiveJobs, TableTypes, HistoryTypes, DaemonTypes, TypeInv
<1>. QED
  BY <1>1, <1>2, <1>3, <1>4, <1>5 DEF TypeInv

LEMMA TypeStep ==
  ASSUME TypeInv, [Next]_vars
  PROVE  TypeInv'
<1>1. CASE \E t : MainMoves(t)
  <2>1. PICK t : MainMoves(t)
    BY <1>1
  <2>. QED
    BY <2>1, MainIs, MoveType DEF MainMoves
<1>2. CASE OtherStep /\ UNCHANGED <<noSubmitBlock, serving>>
  <2>0. noSubmitBlock' \in BOOLEAN /\ serving' \in BOOLEAN /\ (serving' => CurrentJob # 0)
    BY <1>2 DEF TypeInv
  <2>1. ASSUME NEW p \in Callers, NEW t, MoveOk(p, t), Frame PROVE TypeInv'
    BY <2>0, <2>1, MoveType
  <2>2. CASE \E p \in Callers : \E t : Quiet(p, t)
    BY <2>1, <2>2 DEF Quiet
  <2>3. CASE \E s \in Sessions : SessionCalls(s)
    <3>1. PICK s \in Sessions : SessionCalls(s)
      BY <2>3
    <3>2. s \in Callers /\ \E t : MoveOk(s, t) /\ Frame
      BY <3>1, SubmitBlockMoves, AskAcceptedMoves, CheckedMoves, CallerKinds DEF SessionCalls, Calls
    <3>. QED
      BY <2>1, <3>2
  <2>4. CASE \E s \in Sessions : PutShare(s)
    BY <2>1, <2>4, PutShareMoves, CallerKinds
  <2>5. CASE \E s \in Sessions : AppendSubmit(s)
    BY <1>2, <2>5, AppendType
  <2>6. CASE \E p \in Callers : MakesJob(p)
    <3>1. PICK p \in Callers : MakesJob(p)
      BY <2>6
    <3>2. proc[p].pc \in {"create", "update"} /\ Makes(p, FreeCell)
      BY <3>1, InstallMakes DEF MakesJob
    <3>. QED
      BY <1>2, <3>2, MakesType
  <2>7. CASE \E p \in Callers : SetCurrent(p)
    BY <1>2, <2>7, SetCurrentReplaces, ReplacesType
  <2>8. CASE \E p \in Callers : SetValid(p)
    BY <1>2, <2>8, SetValidEnters, EntersType
  <2>9. CASE (Network \/ \E p \in Callers : Answer(p)) /\ UNCHANGED jobVars
    BY <1>2, <2>9, AnswerType
  <2>10. CASE Clock \/ SendJob
    BY <1>2, <2>10, ClockType
  <2>. QED
    BY <1>2, <2>2, <2>3, <2>4, <2>5, <2>6, <2>7, <2>8, <2>9, <2>10 DEF OtherStep
<1>3. CASE UNCHANGED vars
  <2>1. UNCHANGED <<jobVars, scenario, noSubmitBlock, serving>> /\ DaemonTypes'
    BY <1>3 DEF vars, daemonVars, poolVars, TypeInv, DaemonTypes
  <2>. QED
    BY <2>1, DaemonStepType
<1>. QED
  BY <1>1, <1>2, <1>3, NextKinds

LEMMA TypeInit == Init => TypeInv
<1>. SUFFICES ASSUME Init PROVE TypeInv
  OBVIOUS
<1>1. /\ alive = TRUE /\ faults = 0 /\ scenario \in Scenarios
      /\ node = [d \in Daemons |-> [height |-> 0, rev |-> 0, blocks |-> {}]] /\ call = [p \in Callers |-> NoCall]
      /\ heap = [c \in Cells |-> NoJob] /\ CurrentJob = 0 /\ ValidJobs = <<>>
      /\ proc = [p \in Callers |-> IF p = Main THEN [Idle EXCEPT !.pc = "check"] ELSE Idle]
      /\ shown = {} /\ second = 0 /\ submits = 0 /\ stored = <<>> /\ raced = {}
      /\ noSubmitBlock = scenario.noSubmitBlock /\ serving = FALSE
  BY DEF Init, DaemonsInit, JobsInit
<1>2. DaemonTypes
  <2>1. [height |-> 0, rev |-> 0, blocks |-> {}] \in NodeRecord
    BY DEF NodeRecord
  <2>. QED
    BY <1>1, <2>1, ScenarioFacts, IdleType DEF DaemonTypes
<1>3. TableTypes /\ HistoryTypes
  BY <1>1, ScenarioFacts, IdleType DEF TableTypes, HistoryTypes
<1>. DEFINE t == [Idle EXCEPT !.pc = "check"]
<1>4. /\ t \in ProcRecord /\ t.pc = "check" /\ t.job = 0 /\ t.new = 0
      /\ Idle.pc = "idle" /\ Idle.job = 0 /\ Idle.new = 0
  BY IdleType DEF Idle, ProcRecord, Pcs, MainPcs
<1>. HIDE DEF t
<1>5. \A p \in Callers : proc[p] = IF p = Main THEN t ELSE Idle
  BY <1>1 DEF t
<1>6. proc \in [Callers -> ProcRecord]
  BY <1>1, <1>4, IdleType DEF t
<1>7. \A p \in Callers : LocalsOk(p, proc[p])
  BY <1>4, <1>5, CallerKinds
     DEF LocalsOk, PcsOf, SessionPcs, MainPcs, PollerPcs, WithJob, Entered, Settled, Installs
<1>8. Live = {}
  BY <1>1, <1>4, <1>5 DEF Live, Referred
<1>9. \A i \in DOMAIN ValidJobs : FALSE
  BY <1>1
<1>10. LiveJobs /\ SentJobs
  BY <1>1, <1>8 DEF LiveJobs, SentJobs
<1>11. noSubmitBlock \in BOOLEAN /\ serving \in BOOLEAN /\ (serving => CurrentJob # 0)
  BY <1>1, ScenarioFacts
<1>. HIDE DEF t
<1>. QED
  BY <1>2, <1>3, <1>6, <1>7, <1>9, <1>10, <1>11 DEF TypeInv

LEMMA TypeInvariant == Spec => []TypeInv
<1>1. TypeInv /\ [Next]_vars => TypeInv'
  BY TypeStep
<1>. QED
  BY TypeInit, <1>1, PTL DEF Spec

(* The pool is type correct: a pool that serves its miners has a current   *)
(* job for HandleAuthorize to dereference, and ValidJobs holds under an id  *)
(* a job of that id, however templates of several goroutines are installed. *)
THEOREM TypeCorrect == Spec => []TypeOK
<1>1. TypeInv => TypeOK
  BY DEF TypeInv, TypeOK, DaemonTypes, TableTypes, HistoryTypes
<1>. QED
  BY TypeInvariant, <1>1, PTL
-----------------------------------------------------------------------------
LEMMA DetectedStep ==
  ASSUME TypeInv, Detected, [Next]_vars
  PROVE  Detected'
<1>1. CASE \E t : MainMoves(t)
  BY <1>1 DEF MainMoves
<1>2. CASE OtherStep /\ UNCHANGED <<noSubmitBlock, serving>>
  <2>1. ASSUME NEW p \in Callers, Apart(p), UNCHANGED scenario, faults' = 0 => faults = 0,
               p = Main => proc[p].pc \in Installs /\ proc'[p].pc \in Installs \union {"serve"}
        PROVE  Detected'
    <3>1. CASE p = Main
      <4>1. ~serving /\ proc[Main].pc \in Probed /\ ~serving'
        BY <1>2, <2>1, <3>1 DEF Detected, Probed, Installs
      <4>. QED
        BY <1>2, <2>1, <3>1, <4>1 DEF Detected
    <3>2. CASE p # Main
      <4>1. proc'[Main] = proc[Main]
        BY <2>1, <3>2, CallerKinds DEF Apart
      <4>. QED
        BY <1>2, <2>1, <4>1 DEF Detected
    <3>. QED
      BY <3>1, <3>2
  <2>2. CASE \E p \in Callers : \E t : Quiet(p, t)
    <3>0. PICK p \in Callers : \E t : Quiet(p, t)
      BY <2>2
    <3>1. PICK t : Quiet(p, t)
      BY <3>0
    <3>2. proc'[p] = t /\ Apart(p) /\ UNCHANGED scenario
      BY <3>1, Moved DEF Quiet, MoveOk, Frame
    <3>. QED
      BY <2>1, <3>1, <3>2 DEF Quiet
  <2>3. CASE \E s \in Sessions : SessionCalls(s) \/ PutShare(s)
    <3>1. PICK s \in Sessions : SessionCalls(s) \/ PutShare(s)
      BY <2>3
    <3>2. s \in Callers /\ s # Main /\ \E t : MoveOk(s, t) /\ Frame
      BY <3>1, SubmitBlockMoves, AskAcceptedMoves, CheckedMoves, PutShareMoves, CallerKinds DEF SessionCalls, Calls
    <3>3. UNCHANGED <<faults, scenario>>
      BY <3>1 DEF SessionCalls, PutShare, SubmitBlock, AskAccepted, Checked, daemonVars
    <3>4. Apart(s)
      BY <3>2, Moved DEF MoveOk
    <3>. QED
      BY <2>1, <3>2, <3>3, <3>4
  <2>4. CASE \E s \in Sessions : AppendSubmit(s)
    <3>1. PICK s \in Sessions : AppendSubmit(s)
      BY <2>4
    <3>2. Apart(s) /\ UNCHANGED <<faults, scenario>> /\ s \in Callers /\ s # Main
      BY <3>1, AppendFacts, CallerKinds
    <3>. QED
      BY <2>1, <3>2
  <2>5. CASE \E p \in Callers : MakesJob(p)
    <3>1. PICK p \in Callers : MakesJob(p)
      BY <2>5
    <3>2. proc[p].pc \in {"create", "update"} /\ Makes(p, FreeCell)
      BY <3>1, InstallMakes DEF MakesJob
    <3>. QED
      BY <2>1, <3>2 DEF Makes, Installs
  <2>6. CASE \E p \in Callers : SetCurrent(p)
    <3>0. PICK p \in Callers : \E t : Replaces(p, t)
      BY <2>6, SetCurrentReplaces
    <3>1. PICK t : Replaces(p, t)
      BY <3>0
    <3>2. proc'[p] = t /\ Apart(p)
      BY <3>1, Moved DEF Replaces
    <3>. QED
      BY <2>1, <3>1, <3>2 DEF Replaces, GoesOn, Installs
  <2>7. CASE \E p \in Callers : SetValid(p)
    <3>1. PICK p \in Callers : Enters(p)
      BY <2>7, SetValidEnters
    <3>. QED
      BY <2>1, <3>1 DEF Enters, Installs
  <2>8. CASE (Network \/ \E p \in Callers : Answer(p)) /\ UNCHANGED jobVars
    <3>1. UNCHANGED proc
      BY <2>8 DEF jobVars
    <3>2. UNCHANGED scenario /\ (faults' = 0 => faults = 0)
      BY <2>8, NetworkSpreads, AnswerAnswers DEF Spreads, Answers
    <3>. QED
      BY <1>2, <3>1, <3>2 DEF Detected
  <2>9. CASE Clock \/ SendJob
    <3>1. UNCHANGED <<proc, scenario, faults>>
      BY <2>9 DEF Clock, SendJob, daemonVars
    <3>. QED
      BY <1>2, <3>1 DEF Detected
  <2>. QED
    BY <1>2, <2>2, <2>3, <2>4, <2>5, <2>6, <2>7, <2>8, <2>9 DEF OtherStep
<1>3. CASE UNCHANGED vars
  BY <1>3 DEF vars, daemonVars, jobVars, poolVars, Detected
<1>. QED
  BY <1>1, <1>2, <1>3, NextKinds

(* A pool that serves with another method than its daemons know had a call  *)
(* of DetectCoinData fail; and then it is submit in place of submitblock    *)
(* only when the configuration said so, whatever the failing calls were     *)
(* answered and however often Init started over: the probe is judged by the *)
(* message first, and no later step writes Coin.NoSubmitBlock.              *)
THEOREM MethodIsDetected == Spec => []MethodDetected
<1>1. Init => Detected
  <2>1. Init => proc[Main].pc = "check" /\ serving = FALSE /\ noSubmitBlock = scenario.noSubmitBlock
    BY CallerKinds DEF Init, JobsInit, Idle
  <2>. QED
    BY <2>1 DEF Detected, Probed, Installs
<1>2. TypeInv /\ Detected /\ [Next]_vars => Detected'
  BY DetectedStep
<1>3. TypeInv /\ Detected => MethodDetected
  <2>1. TypeInv => faults \in Nat /\ noSubmitBlock \in BOOLEAN /\ scenario.lacks \in BOOLEAN
    BY ScenarioFacts DEF TypeInv, DaemonTypes
  <2>. QED
    BY <2>1 DEF Detected, MethodDetected, Probed
<1>. QED
  BY TypeInvariant, <1>1, <1>2, <1>3, PTL DEF Spec
-----------------------------------------------------------------------------
(* The pool's blocks.  Most steps are silent: they change no call about a   *)
(* block, no node and no share, and a session that has submitted a block    *)
(* stays with it.                                                           *)

Silent(p) == Apart(p) /\ Asks(p) /\ UNCHANGED scenario /\ Holds(p, proc'[p])

LEMMA BlockKinds ==
  ASSUME TypeInv, [Next]_vars
  PROVE  \/ \E p \in Callers : Silent(p)
         \/ \E s \in Sessions : SessionCalls(s) \/ PutShare(s)
         \/ (Network \/ \E p \in Callers : Answer(p)) /\ UNCHANGED jobVars
<1>0. ASSUME UNCHANGED <<proc, call, node, stored, scenario>> PROVE Silent(Main)
  BY <1>0, CallerKinds DEF Silent, Apart, Asks, Holds
<1>1. CASE \E t : MainMoves(t)
  <2>1. PICK t : MainMoves(t)
    BY <1>1
  <2>2. Apart(Main)
    BY <2>1, Moved, MainIs DEF MainMoves, MoveOk
  <2>. QED
    BY <2>1, <2>2, MainIs DEF MainMoves, Frame, Silent, Holds
<1>2. CASE OtherStep
  <2>1. CASE \E p \in Callers : \E t : Quiet(p, t)
    <3>0. PICK p \in Callers : \E t : Quiet(p, t)
      BY <2>1
    <3>1. PICK t : Quiet(p, t)
      BY <3>0
    <3>2. proc'[p] = t /\ Apart(p) /\ UNCHANGED scenario
      BY <3>1, Moved DEF Quiet, MoveOk, Frame
    <3>. QED
      BY <3>1, <3>2 DEF Quiet, Silent
  <2>2. CASE \E s \in Sessions : AppendSubmit(s)
    <3>1. PICK s \in Sessions : AppendSubmit(s)
      BY <2>2
    <3>2. s \in Callers /\ Asks(s) /\ Apart(s) /\ UNCHANGED scenario
      BY <3>1, AppendFacts, CallerKinds DEF Asks
    <3>3. Holds(s, proc'[s])
      BY <3>1, AppendFacts DEF Holds, Submitted, Settled, Installs
    <3>. QED
      BY <3>2, <3>3 DEF Silent
  <2>3. CASE \E p \in Callers : MakesJob(p)
    <3>1. PICK p \in Callers : MakesJob(p)
      BY <2>3
    <3>2. proc[p].pc \in {"create", "update"} /\ Makes(p, FreeCell)
      BY <3>1, InstallMakes DEF MakesJob
    <3>. QED
      BY <3>2 DEF Makes, Silent, Asks, Holds, Submitted, Settled, Installs
  <2>4. CASE \E p \in Callers : SetCurrent(p)
    <3>0. PICK p \in Callers : \E t : Replaces(p, t)
      BY <2>4, SetCurrentReplaces
    <3>1. PICK t : Replaces(p, t)
      BY <3>0
    <3>2. proc'[p] = t /\ Apart(p)
      BY <3>1, Moved DEF Replaces
    <3>. QED
      BY <3>1, <3>2 DEF Replaces, GoesOn, Silent, Asks, Holds, Submitted, Settled, Installs
  <2>5. CASE \E p \in Callers : SetValid(p)
    <3>1. PICK p \in Callers : Enters(p)
      BY <2>5, SetValidEnters
    <3>. QED
      BY <3>1 DEF Enters, Silent, Asks, Holds, Submitted, Settled, Installs
  <2>6. CASE Clock \/ SendJob
    <3>1. UNCHANGED <<proc, call, node, stored, scenario>>
      BY <2>6 DEF Clock, SendJob, daemonVars
    <3>. QED
      BY <1>0, <3>1, CallerKinds
  <2>. QED
    BY <1>2, <2>1, <2>2, <2>3, <2>4, <2>5, <2>6 DEF OtherStep
<1>3. CASE UNCHANGED vars
  <2>1. UNCHANGED <<proc, call, node, stored, scenario>>
    BY <1>3 DEF vars, daemonVars, jobVars
  <2>. QED
    BY <1>0, <2>1, CallerKinds
<1>. QED
  BY <1>1, <1>2, <1>3, NextKinds

SBlock(s) == Block(s, proc[s].sub)

(* What a session holds for accepted is on every node.  While it is still   *)
(* asking, the daemons it need not wait for any more and that reported no   *)
(* error have the block.                                                    *)
HeldAccepted(s) == proc[s].accepted => \A d \in Daemons : SBlock(s) \in node[d].blocks

AskedSoFar(s) ==
  proc[s].pc = "checking" =>
    /\ call[s].method = "getblock" /\ call[s].block = {SBlock(s)}
    /\ \A d \in Daemons : d \in call[s].left \union call[s].gone \union call[s].errors \/ SBlock(s) \in node[d].blocks

AcceptInv == AcceptedEverywhere /\ \A s \in Sessions : HeldAccepted(s) /\ AskedSoFar(s)

NodesGrow == \A d \in Daemons : node[d].blocks \subseteq node'[d].blocks

LEMMA SameBlock ==
  ASSUME UNCHANGED scenario, NEW s \in Sessions, proc'[s].sub = proc[s].sub
  PROVE  SBlock(s)' = SBlock(s)
  BY DEF SBlock, Block

LEMMA AcceptKept ==
  ASSUME AcceptInv, NodesGrow, UNCHANGED scenario, NEW s \in Sessions
  PROVE  /\ (proc'[s].accepted => proc[s].accepted /\ proc'[s].sub = proc[s].sub) => HeldAccepted(s)'
         /\ proc'[s] = proc[s] /\ call'[s] = call[s] => HeldAccepted(s)' /\ AskedSoFar(s)'
         /\ UNCHANGED stored => AcceptedEverywhere'
<1>1. HeldAccepted(s) /\ AskedSoFar(s)
  BY DEF AcceptInv
<1>2. ASSUME proc'[s].accepted => proc[s].accepted /\ proc'[s].sub = proc[s].sub
      PROVE  HeldAccepted(s)'
  BY <1>1, <1>2, SameBlock DEF HeldAccepted, NodesGrow
<1>3. ASSUME proc'[s] = proc[s], call'[s] = call[s]
      PROVE  AskedSoFar(s)'
  <2>1. SBlock(s)' = SBlock(s)
    BY <1>3, SameBlock
  <2>. QED
    BY <1>1, <1>3, <2>1 DEF AskedSoFar, NodesGrow
<1>4. UNCHANGED stored => AcceptedEverywhere'
  BY DEF AcceptInv, AcceptedEverywhere, NodesGrow
<1>. QED
  BY <1>2, <1>3, <1>4

LEMMA StoredGrows ==
  ASSUME TypeInv, NEW r \in StoredRecord, stored' = Append(stored, r)
  PROVE  \E n \in Nat : /\ DOMAIN stored = 1..n /\ DOMAIN stored' = 1..(n + 1)
                        /\ stored'[n + 1] = r /\ \A i \in 1..n : stored'[i] = stored[i]
<1>1. stored \in Seq(StoredRecord)
  BY DEF TypeInv, HistoryTypes
<1>. DEFINE n == Len(stored)
<1>2. /\ n \in Nat /\ DOMAIN stored = 1..n /\ DOMAIN stored' = 1..(n + 1)
      /\ stored'[n + 1] = r /\ \A i \in 1..n : stored'[i] = stored[i]
  BY <1>1
<1>. QED
  BY <1>2

(* The share PutShare writes. *)
NewShare(s) == [block |-> SBlock(s), text |-> Submission(s, proc[s].sub), accepted |-> proc[s].accepted,
                twin |-> heap[proc[s].job].twin]

LEMMA PutShareStores ==
  ASSUME TypeInv, NEW s \in Sessions, PutShare(s)
  PROVE  /\ \E n \in Nat : /\ DOMAIN stored = 1..n /\ DOMAIN stored' = 1..(n + 1)
                           /\ stored'[n + 1] = NewShare(s) /\ \A i \in 1..n : stored'[i] = stored[i]
         /\ proc[s].pc = "put" /\ proc'[s] = Idle /\ Apart(s) /\ UNCHANGED <<node, call, scenario>>
         /\ MoveOk(s, Idle) /\ Lazy(s, Idle)
<1>1. /\ proc[s].pc = "put" /\ s \in Callers /\ UNCHANGED <<node, call, scenario>>
      /\ stored' = Append(stored, NewShare(s))
      /\ MoveOk(s, Idle) /\ Lazy(s, Idle)
  BY PutShareMoves, CallerKinds DEF Frame, NewShare, SBlock
<1>2. proc'[s] = Idle /\ Apart(s)
  BY <1>1, Moved DEF MoveOk
<1>3. SBlock(s) \in Blocks /\ Submission(s, proc[s].sub) \in Texts
  BY <1>1, LocalFacts, BlockType, TextType DEF TypeInv, DaemonTypes, SBlock
<1>4. proc[s].job \in Cells /\ proc[s].accepted \in BOOLEAN
  BY <1>1, LocalFacts DEF LocalsOk, ProcRecord, WithJob, Entered, Settled
<1>5. heap[proc[s].job].twin \in BOOLEAN
  BY <1>4 DEF TypeInv, TableTypes, JobRecord
<1>6. NewShare(s) \in StoredRecord
  BY <1>3, <1>4, <1>5 DEF NewShare, StoredRecord
<1>. QED
  BY <1>1, <1>2, <1>6, StoredGrows

LEMMA AcceptStep ==
  ASSUME TypeInv, AcceptInv, [Next]_vars
  PROVE  AcceptInv'
<1>1. CASE \E p \in Callers : Silent(p)
  <2>1. PICK p \in Callers : Silent(p)
    BY <1>1
  <2>2. NodesGrow /\ UNCHANGED <<stored, scenario>>
    BY <2>1 DEF Silent, Asks, NodesGrow
  <2>3. \A s \in Sessions : s # p => HeldAccepted(s)' /\ AskedSoFar(s)'
    BY <2>1, <2>2, AcceptKept, CallerKinds DEF Silent, Apart, Asks
  <2>4. p \in Sessions => HeldAccepted(p)' /\ AskedSoFar(p)'
    <3>1. p \in Sessions => HeldAccepted(p)'
      BY <2>1, <2>2, AcceptKept DEF Silent, Holds
    <3>2. p \in Sessions => AskedSoFar(p)'
      BY <2>1 DEF Silent, Holds, AskedSoFar
    <3>. QED
      BY <3>1, <3>2
  <2>5. AcceptedEverywhere'
    BY <2>2 DEF AcceptInv, AcceptedEverywhere, NodesGrow
  <2>. QED
    BY <2>3, <2>4, <2>5 DEF AcceptInv
<1>2. CASE \E s \in Sessions : SessionCalls(s)
  <2>1. PICK s \in Sessions : SessionCalls(s)
    BY <1>2
  <2>2. /\ s \in Callers /\ UNCHANGED <<node, stored, scenario>> /\ (\A q \in Callers : q # s => call'[q] = call[q])
        /\ \E t : MoveOk(s, t) /\ t.sub = proc[s].sub
    BY <2>1, SubmitBlockMoves, AskAcceptedMoves, CheckedMoves, CallerKinds DEF SessionCalls, Calls, GoesOn, Frame
  <2>3. NodesGrow /\ Apart(s) /\ proc'[s].sub = proc[s].sub
    BY <2>2, Moved DEF NodesGrow, MoveOk
  <2>4. \A q \in Sessions : q # s => HeldAccepted(q)' /\ AskedSoFar(q)'
    BY <2>2, <2>3, AcceptKept, CallerKinds DEF Apart
  <2>5. AcceptedEverywhere'
    BY <2>2 DEF AcceptInv, AcceptedEverywhere
  <2>6. SBlock(s)' = SBlock(s)
    BY <2>2, <2>3, SameBlock
  <2>7. CASE SubmitBlock(s, noSubmitBlock)
    <3>1. PICK t : MoveOk(s, t) /\ GoesOn(s, t, "submitting")
      BY <2>7, SubmitBlockMoves DEF Calls
    <3>2. proc'[s] = t
      BY <2>2, <3>1, Moved DEF MoveOk
    <3>3. HeldAccepted(s)' /\ AskedSoFar(s)'
      BY <2>2, <2>3, <3>1, <3>2, AcceptKept DEF GoesOn, AskedSoFar
    <3>. QED
      BY <2>4, <2>5, <3>3 DEF AcceptInv
  <2>8. CASE AskAccepted(s)
    <3>1. PICK t : MoveOk(s, t) /\ GoesOn(s, t, "checking")
      BY <2>8, AskAcceptedMoves DEF Calls
    <3>2. proc'[s] = t
      BY <2>2, <3>1, Moved DEF MoveOk
    <3>3. HeldAccepted(s)'
      BY <2>2, <2>3, <3>1, <3>2, AcceptKept DEF GoesOn
    <3>4. call'[s].method = "getblock" /\ call'[s].block = {SBlock(s)} /\ call'[s].left = Daemons
      BY <2>8, AskAcceptedMoves DEF Calls, SBlock
    <3>5. AskedSoFar(s)'
      BY <2>6, <3>4 DEF AskedSoFar
    <3>. QED
      BY <2>4, <2>5, <3>3, <3>5 DEF AcceptInv
  <2>9. CASE Checked(s)
    <3>1. /\ proc[s].pc = "checking" /\ Returned(s)
          /\ \E t : MoveOk(s, t) /\ t.pc = "fetch" /\ t.accepted = (call[s].errors = {})
      BY <2>9, CheckedMoves
    <3>2. proc'[s].pc = "fetch" /\ proc'[s].accepted = (call[s].errors = {})
      BY <2>2, <3>1, Moved DEF MoveOk
    <3>3. AskedSoFar(s)
      BY DEF AcceptInv
    <3>4. HeldAccepted(s)'
      BY <2>2, <2>6, <3>1, <3>2, <3>3 DEF HeldAccepted, AskedSoFar, Returned
    <3>5. AskedSoFar(s)'
      BY <3>2 DEF AskedSoFar
    <3>. QED
      BY <2>4, <2>5, <3>4, <3>5 DEF AcceptInv
  <2>. QED
    BY <2>1, <2>7, <2>8, <2>9 DEF SessionCalls
<1>3. CASE \E s \in Sessions : PutShare(s)
  <2>1. PICK s \in Sessions : PutShare(s)
    BY <1>3
  <2>2. /\ proc'[s] = Idle /\ Apart(s) /\ UNCHANGED <<node, call, scenario>> /\ NodesGrow
        /\ \E n \in Nat : /\ DOMAIN stored = 1..n /\ DOMAIN stored' = 1..(n + 1)
                          /\ stored'[n + 1] = NewShare(s) /\ \A i \in 1..n : stored'[i] = stored[i]
    BY <2>1, PutShareStores DEF NodesGrow
  <2>3. \A q \in Sessions : q # s => HeldAccepted(q)' /\ AskedSoFar(q)'
    BY <2>2, AcceptKept, CallerKinds DEF Apart
  <2>4. HeldAccepted(s)' /\ AskedSoFar(s)'
    BY <2>2 DEF HeldAccepted, AskedSoFar, Idle
  <2>5. AcceptedEverywhere'
    <3>1. PICK n \in Nat : /\ DOMAIN stored = 1..n /\ DOMAIN stored' = 1..(n + 1)
                           /\ stored'[n + 1] = NewShare(s) /\ \A i \in 1..n : stored'[i] = stored[i]
      BY <2>2
    <3>2. NewShare(s).block = SBlock(s) /\ NewShare(s).accepted = proc[s].accepted
      BY DEF NewShare
    <3>3. NewShare(s).accepted => \A d \in Daemons : NewShare(s).block \in node'[d].blocks
      BY <2>2, <3>2 DEF AcceptInv, HeldAccepted
    <3>4. \A i \in 1..n : stored[i].accepted => \A d \in Daemons : stored[i].block \in node'[d].blocks
      BY <2>2, <3>1 DEF AcceptInv, AcceptedEverywhere
    <3>5. \A i \in 1..(n + 1) : i \in 1..n \/ i = n + 1
      OBVIOUS
    <3>. QED
      BY <3>1, <3>3, <3>4, <3>5 DEF AcceptedEverywhere
  <2>. QED
    BY <2>3, <2>4, <2>5 DEF AcceptInv
<1>4. CASE (Network \/ \E p \in Callers : Answer(p)) /\ UNCHANGED jobVars
  <2>1. UNCHANGED <<proc, stored>>
    BY <1>4 DEF jobVars
  <2>2. CASE Network
    <3>1. NodesGrow /\ UNCHANGED <<call, scenario>>
      BY <2>2, NetworkSpreads DEF Spreads, Gains, NodesGrow
    <3>. QED
      BY <2>1, <3>1, AcceptKept DEF AcceptInv, AcceptedEverywhere, NodesGrow
  <2>3. CASE \E p \in Callers : Answer(p)
    <3>1. PICK p \in Callers, d \in Daemons : Answers(p, d)
      BY <2>3, AnswerAnswers
    <3>2. NodesGrow /\ UNCHANGED scenario
      BY <3>1 DEF Answers, Gains, NodesGrow
    <3>3. AcceptedEverywhere'
      BY <2>1, <3>2 DEF AcceptInv, AcceptedEverywhere, NodesGrow
    <3>4. \A s \in Sessions : HeldAccepted(s)'
      BY <2>1, <3>2, AcceptKept
    <3>5. \A s \in Sessions : s # p => AskedSoFar(s)'
      BY <2>1, <3>1, <3>2, AcceptKept, CallerKinds DEF Answers, Progress
    <3>6. p \in Sessions => AskedSoFar(p)'
      <4>. SUFFICES ASSUME p \in Sessions, proc[p].pc = "checking" PROVE AskedSoFar(p)'
        BY <2>1 DEF AskedSoFar
      <4>1. SBlock(p)' = SBlock(p) /\ AskedSoFar(p)
        BY <2>1, <3>2, SameBlock DEF AcceptInv
      <4>2. \A e \in Daemons : e \in call'[p].left \union call'[p].gone \union call'[p].errors
                               \/ SBlock(p) \in node[e].blocks
        BY <3>1, <4>1 DEF AskedSoFar, Answers, Progress
      <4>. QED
        BY <3>1, <3>2, <4>1, <4>2 DEF AskedSoFar, Answers, Progress, NodesGrow
    <3>. QED
      BY <3>3, <3>4, <3>5, <3>6 DEF AcceptInv
  <2>. QED
    BY <1>4, <2>2, <2>3
<1>. QED
  BY <1>1, <1>2, <1>3, <1>4, BlockKinds

(* A block recorded as accepted is on every daemon: CheckBlockAccepted      *)
(* hears from all of them, no node loses a block, and the share is written  *)
(* with what that check found, whatever was installed in between.           *)
THEOREM AcceptedOnAll == Spec => []AcceptedEverywhere
<1>1. Init => AcceptInv
  <2>. SUFFICES ASSUME Init PROVE AcceptInv
    OBVIOUS
  <2>1. \A s \in Sessions : proc[s] = Idle
    BY CallerKinds DEF Init, JobsInit
  <2>2. stored = <<>>
    BY DEF Init, JobsInit
  <2>3. AcceptedEverywhere
    BY <2>2 DEF AcceptedEverywhere
  <2>. QED
    BY <2>1, <2>3 DEF AcceptInv, HeldAccepted, AskedSoFar, Idle
<1>2. TypeInv /\ AcceptInv /\ [Next]_vars => AcceptInv'
  BY AcceptStep
<1>3. AcceptInv => AcceptedEverywhere
  BY DEF AcceptInv
<1>. QED
  BY TypeInvariant, <1>1, <1>2, <1>3, PTL DEF Spec
-----------------------------------------------------------------------------
(* Whoever asks the daemons to take a block is the session that found it,   *)
(* and it is still at it; a block on a node is stored, or of such a session. *)
SubmitsOwn(p) ==
  call[p].method \in SubmitMethods => p \in Sessions /\ proc[p].pc = "submitting" /\ call[p].block = {SBlock(p)}

Stored(b) == \E i \in DOMAIN stored : stored[i].block = b
Finder(b) == \E s \in Sessions : proc[s].pc \in Submitted /\ SBlock(s) = b
Found == \A d \in Daemons : \A b \in node[d].blocks : Stored(b) \/ Finder(b)

FoundInv == Found /\ \A p \in Callers : SubmitsOwn(p)

LEMMA OwnKept ==
  ASSUME FoundInv, UNCHANGED scenario, NEW p \in Callers, proc'[p] = proc[p], call'[p] = call[p]
  PROVE  SubmitsOwn(p)'
<1>1. p \in Sessions => SBlock(p)' = SBlock(p)
  BY SameBlock
<1>. QED
  BY <1>1 DEF FoundInv, SubmitsOwn

LEMMA FinderKept ==
  ASSUME FoundInv, TypeInv, UNCHANGED scenario, NEW p \in Callers, Apart(p), NEW b, Finder(b),
         p \in Sessions /\ proc[p].pc \in Submitted => proc'[p].pc \in Submitted /\ proc'[p].sub = proc[p].sub
  PROVE  Finder(b)'
<1>1. PICK s \in Sessions : proc[s].pc \in Submitted /\ SBlock(s) = b
  BY DEF Finder
<1>2. proc'[s].pc \in Submitted /\ proc'[s].sub = proc[s].sub
  BY <1>1, CallerKinds DEF Apart
<1>3. SBlock(s)' = b
  BY <1>1, <1>2, SameBlock
<1>. QED
  BY <1>2, <1>3 DEF Finder

LEMMA FoundStep ==
  ASSUME TypeInv, FoundInv, [Next]_vars
  PROVE  FoundInv'
<1>1. CASE \E p \in Callers : Silent(p)
  <2>1. PICK p \in Callers : Silent(p)
    BY <1>1
  <2>2. UNCHANGED <<node, stored, scenario>> /\ Apart(p) /\ \A q \in Callers : q # p => call'[q] = call[q]
    BY <2>1 DEF Silent, Asks
  <2>3. Found'
    <3>1. \A b : Stored(b) => Stored(b)'
      BY <2>2 DEF Stored
    <3>2. \A b : Finder(b) => Finder(b)'
      BY <2>1, <2>2, FinderKept DEF Silent, Holds
    <3>. QED
      BY <2>2, <3>1, <3>2 DEF Found, FoundInv
  <2>4. \A q \in Callers : q # p => SubmitsOwn(q)'
    BY <2>2, OwnKept DEF Apart
  <2>5. SubmitsOwn(p)'
    BY <2>1 DEF Silent, Asks, Holds, SubmitsOwn, FoundInv
  <2>. QED
    BY <2>3, <2>4, <2>5 DEF FoundInv
<1>2. CASE \E s \in Sessions : SessionCalls(s)
  <2>1. PICK s \in Sessions : SessionCalls(s)
    BY <1>2
  <2>2. /\ s \in Callers /\ UNCHANGED <<node, stored, scenario>> /\ (\A q \in Callers : q # s => call'[q] = call[q])
        /\ \E t : MoveOk(s, t) /\ t.sub = proc[s].sub /\ t.pc \in Submitted
        /\ SubmitBlock(s, noSubmitBlock) => \E t : MoveOk(s, t) /\ t.pc = "submitting"
    BY <2>1, SubmitBlockMoves, AskAcceptedMoves, CheckedMoves, CallerKinds
       DEF SessionCalls, Calls, GoesOn, Frame, Submitted, Settled, Installs
  <2>3. Apart(s) /\ proc'[s].sub = proc[s].sub /\ proc'[s].pc \in Submitted
    BY <2>2, Moved DEF MoveOk
  <2>4. \A q \in Callers : q # s => SubmitsOwn(q)'
    BY <2>2, <2>3, OwnKept DEF Apart
  <2>5. SBlock(s)' = SBlock(s)
    BY <2>2, <2>3, SameBlock
  <2>6. SubmitsOwn(s)'
    <3>1. CASE SubmitBlock(s, noSubmitBlock)
      <4>1. proc'[s].pc = "submitting"
        BY <2>2, <3>1, Moved DEF MoveOk
      <4>2. call'[s].block = {SBlock(s)}
        BY <3>1, SubmitBlockMoves DEF Calls, SBlock
      <4>. QED
        BY <2>5, <4>1, <4>2 DEF SubmitsOwn
    <3>2. CASE AskAccepted(s) \/ Checked(s)
      <4>1. call'[s].method \in {"getblock", "none"}
        BY <3>2, AskAcceptedMoves, CheckedMoves DEF Calls
      <4>. QED
        BY <4>1 DEF SubmitsOwn, SubmitMethods
    <3>. QED
      BY <2>1, <3>1, <3>2 DEF SessionCalls
  <2>7. Found'
    <3>1. \A b : Stored(b) => Stored(b)'
      BY <2>2 DEF Stored
    <3>2. \A b : Finder(b) => Finder(b)'
      BY <2>2, <2>3, FinderKept
    <3>. QED
      BY <2>2, <3>1, <3>2 DEF Found, FoundInv
  <2>. QED
    BY <2>4, <2>6, <2>7 DEF FoundInv
<1>3. CASE \E s \in Sessions : PutShare(s)
  <2>1. PICK s \in Sessions : PutShare(s)
    BY <1>3
  <2>2. /\ s \in Callers /\ proc[s].pc = "put" /\ Apart(s) /\ UNCHANGED <<node, call, scenario>>
        /\ \E n \in Nat : /\ DOMAIN stored = 1..n /\ DOMAIN stored' = 1..(n + 1)
                          /\ stored'[n + 1] = NewShare(s) /\ \A i \in 1..n : stored'[i] = stored[i]
    BY <2>1, PutShareStores, CallerKinds
  <2>3. PICK n \in Nat : /\ DOMAIN stored = 1..n /\ DOMAIN stored' = 1..(n + 1)
                         /\ stored'[n + 1] = NewShare(s) /\ \A i \in 1..n : stored'[i] = stored[i]
    BY <2>2
  <2>4. \A b : Stored(b) => Stored(b)'
    <3>1. \A i \in 1..n : i \in 1..(n + 1)
      OBVIOUS
    <3>. QED
      BY <2>3, <3>1 DEF Stored
  <2>5. \A b : b = SBlock(s) => Stored(b)'
    <3>1. n + 1 \in 1..(n + 1) /\ NewShare(s).block = SBlock(s)
      BY DEF NewShare
    <3>. QED
      BY <2>3, <3>1 DEF Stored
  <2>6. \A b : Finder(b) => Finder(b)' \/ b = SBlock(s)
    <3>. SUFFICES ASSUME NEW b, Finder(b), b # SBlock(s) PROVE Finder(b)'
      OBVIOUS
    <3>1. PICK q \in Sessions : proc[q].pc \in Submitted /\ SBlock(q) = b
      BY DEF Finder
    <3>2. q # s /\ proc'[q] = proc[q]
      BY <2>2, <3>1, CallerKinds DEF Apart
    <3>3. SBlock(q)' = b
      BY <2>2, <3>1, <3>2, SameBlock
    <3>. QED
      BY <3>1, <3>2, <3>3 DEF Finder
  <2>7. Found'
    BY <2>2, <2>4, <2>5, <2>6 DEF Found, FoundInv
  <2>8. \A q \in Callers : q # s => SubmitsOwn(q)'
    BY <2>2, OwnKept DEF Apart
  <2>9. SubmitsOwn(s)'
    BY <2>2 DEF SubmitsOwn, FoundInv
  <2>. QED
    BY <2>7, <2>8, <2>9 DEF FoundInv
<1>4. CASE (Network \/ \E p \in Callers : Answer(p)) /\ UNCHANGED jobVars
  <2>1. UNCHANGED <<proc, stored>>
    BY <1>4 DEF jobVars
  <2>2. UNCHANGED scenario
    BY <1>4, NetworkSpreads, AnswerAnswers DEF Spreads, Answers
  <2>3. \A b : (Stored(b) => Stored(b)') /\ (Finder(b) => Finder(b)')
    <3>1. \A s \in Sessions : SBlock(s)' = SBlock(s)
      BY <2>1, <2>2, SameBlock
    <3>. QED
      BY <2>1, <3>1 DEF Stored, Finder
  <2>4. CASE Network
    <3>1. PICK d \in Daemons, e \in Daemons : Spreads(d, e)
      BY <2>4, NetworkSpreads
    <3>2. \A f \in Daemons : \A b \in node'[f].blocks : b \in node[f].blocks \/ b \in node[e].blocks
      BY <3>1 DEF Spreads, Gains
    <3>3. Found'
      BY <2>3, <3>1, <3>2 DEF Found, FoundInv
    <3>4. \A q \in Callers : SubmitsOwn(q)'
      BY <2>1, <2>2, <3>1, OwnKept DEF Spreads
    <3>. QED
      BY <3>3, <3>4 DEF FoundInv
  <2>5. CASE \E p \in Callers : Answer(p)
    <3>1. PICK p \in Callers, d \in Daemons : Answers(p, d)
      BY <2>5, AnswerAnswers
    <3>2. \A f \in Daemons : \A b \in node'[f].blocks :
            b \in node[f].blocks \/ (call[p].method \in SubmitMethods /\ b \in call[p].block)
      BY <3>1 DEF Answers, Gains
    <3>3. \A b \in call[p].block : call[p].method \in SubmitMethods => Finder(b)
      <4>1. "submitting" \in Submitted
        BY DEF Submitted, Settled
      <4>. QED
        BY <4>1 DEF FoundInv, SubmitsOwn, Finder
    <3>4. Found'
      BY <2>3, <3>2, <3>3 DEF Found, FoundInv
    <3>5. \A q \in Callers : q # p => SubmitsOwn(q)'
      BY <2>1, <2>2, <3>1, OwnKept DEF Answers, Progress
    <3>6. SubmitsOwn(p)'
      <4>1. p \in Sessions => SBlock(p)' = SBlock(p)
        BY <2>1, <2>2, SameBlock
      <4>. QED
        BY <2>1, <3>1, <4>1 DEF Answers, Progress, SubmitsOwn, FoundInv
    <3>. QED
      BY <3>4, <3>5, <3>6 DEF FoundInv
  <2>. QED
    BY <1>4, <2>4, <2>5
<1>. QED
  BY <1>1, <1>2, <1>3, <1>4, BlockKinds

(* No block a daemon took is lost while the process lives: it is stored, or *)
(* the session that found it has yet to come to PutShare, whichever of the  *)
(* daemons took it, relayed it, or answered with an error.                  *)
THEOREM FoundIsStored == Spec => []FoundBlockStored
<1>1. Init => FoundInv
  <2>. SUFFICES ASSUME Init PROVE FoundInv
    OBVIOUS
  <2>1. \A d \in Daemons : node[d].blocks = {}
    BY DEF Init, DaemonsInit
  <2>2. \A p \in Callers : call[p].method = "none"
    BY DEF Init, DaemonsInit, NoCall
  <2>. QED
    BY <2>1, <2>2 DEF FoundInv, Found, SubmitsOwn, SubmitMethods
<1>2. TypeInv /\ FoundInv /\ [Next]_vars => FoundInv'
  BY FoundStep
<1>3. FoundInv => FoundBlockStored
  BY DEF FoundInv, Found, Stored, Finder, SBlock, FoundBlockStored, Submitted, Settled, Installs
<1>. QED
  BY TypeInvariant, <1>1, <1>2, <1>3, PTL DEF Spec
===============================================================================
