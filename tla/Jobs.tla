-------------------------------- MODULE Jobs ---------------------------------
(***************************************************************************)
(* The job manager (jobs/jobManager.go, jobs/job.go) as its goroutines use *)
(* it: the poller and the sessions that found a block install templates,   *)
(* every session looks jobs up and registers submissions.  Nothing is      *)
(* locked, so each access to CurrentJob, ValidJobs and a job's Submits is  *)
(* a step.  A job object is a cell of the heap; a cell nothing refers to   *)
(* is used again.                                                          *)
(***************************************************************************)
EXTENDS Daemons, Sequences, FiniteSets

CONSTANTS Main,                      \* the goroutine that starts the pool
          Sessions,                  \* connections
          BlockNonces,               \* the nonces that solve a block on their own work
          Cells                      \* heap cells: enough for every reference

ASSUME JobsAssumption == /\ Sessions \subseteq Callers /\ Main \in Callers \ Sessions
                         /\ Cells \subseteq Nat \ {0}
                         /\ \A s \in Scenarios : DOMAIN s.extraNonce1 \subseteq Sessions

VARIABLES heap,         \* cell -> job object
          CurrentJob,   \* a cell, or 0
          ValidJobs,    \* the cell of each job id; ids count the calls of CreateNewJob
          proc,         \* where each goroutine is, and its locals
          shown,        \* the jobs miners were sent: id and work
          second,       \* time.Now().Unix()
          submits,      \* submissions so far
          stored,       \* the valid shares given to PutShare, in order
          raced         \* history: submissions whose registration met another's

table == <<heap, CurrentJob, ValidJobs>>
outside == <<shown, second, submits>>
jobVars == <<table, proc, outside, stored, raced>>

NoSub == [id |-> 0, work |-> {}, nonce |-> "none", hex |-> "none"]
Idle == [pc |-> "idle", tpl |-> {}, job |-> 0, new |-> 0, sub |-> NoSub, snap |-> {}, accepted |-> FALSE]
NoJob == [id |-> 0, work |-> {}, Submits |-> {}, twin |-> FALSE]

Goto(p, pc) == proc' = [proc EXCEPT ![p].pc = pc]

(* What a miner sends is text, and what the header is made of is decoded    *)
(* from it: hex of either case, and an extraNonce2 that goes on after what  *)
(* can be decoded (the error is only logged), spell one nonce.              *)
(* GetExtraNonce1 is random: two of the connected sessions may have the same. *)
Submission(s, sub) == <<scenario.extraNonce1[s], sub.nonce, sub.hex>>
Block(s, sub) == [height |-> sub.work.height, rev |-> sub.work.rev, stamp |-> sub.work.stamp,
                  key |-> <<scenario.extraNonce1[s], sub.nonce>>]
-----------------------------------------------------------------------------
(* GetBlockTemplate: a nil result is dereferenced *)
GetBlockTemplate(p, onTemplate, onError) ==
  /\ proc[p].pc = "fetch"
  /\ \E outcome \in {"ok", "error", "nil"} :
       /\ CmdOutcome(p, outcome)
       /\ CASE outcome = "ok" -> /\ proc' = [proc EXCEPT ![p].pc = onTemplate, ![p].tpl = Template(First)]
                                 /\ UNCHANGED alive
            [] outcome = "error" /\ onError = "idle" -> proc' = [proc EXCEPT ![p] = Idle] /\ UNCHANGED alive
            [] OTHER -> alive' = FALSE /\ UNCHANGED proc
  /\ UNCHANGED <<node, call, scenario, table, outside, stored, raced>>

(* Mutant: only a new height is news *)
NewerOnly(tpl) ==
  IF CurrentJob = 0 \/ tpl.height > heap[CurrentJob].work.height THEN "create" ELSE "ignore"

(* ProcessTemplate: an older height is ignored, the same one keeps the id *)
Verdict(tpl) ==
  IF CurrentJob = 0 THEN "create"
  ELSE LET height == heap[CurrentJob].work.height IN
       CASE tpl.height < height -> "ignore" [] tpl.height = height -> "update" [] tpl.height > height -> "create"

(* Mutant: the share of a block is stored only when it made new work *)
AfterTemplateDone(p) == IF p = Main THEN [Idle EXCEPT !.pc = "serve"] ELSE Idle

(* What follows: a session that found a block still has to store its share, *)
(* and the pool to start serving.                                           *)
AfterTemplate(p) ==
  CASE p \in Sessions -> [proc[p] EXCEPT !.pc = "put", !.tpl = {}, !.new = 0]
    [] p = Main       -> [Idle EXCEPT !.pc = "serve"]
    [] OTHER          -> Idle

ProcessTemplate(p) ==
  /\ proc[p].pc = "decide"
  /\ proc' = IF Verdict(proc[p].tpl) = "ignore" THEN [proc EXCEPT ![p] = AfterTemplate(p)]
             ELSE [proc EXCEPT ![p].pc = Verdict(proc[p].tpl)]
  /\ UNCHANGED <<daemonVars, table, outside, stored, raced>>

(* The garbage collector's view: the cells something refers to *)
Referred(valid, goroutines) ==
  {CurrentJob} \union {valid[i] : i \in DOMAIN valid} 
  \union {proc[p].job : p \in Callers} \union {proc[p].new : p \in goroutines}
FreeCells == Cells \ Referred(ValidJobs, Callers)
FreeCell == CHOOSE c \in FreeCells : TRUE

(* NewJob: the template's work.  The coinbase holds the second it was made  *)
(* in, so the same template gives other work a second later; within it, the *)
(* new job is the twin of one that miners have or may get.  Cells bounds    *)
(* the heap.                                                                *)
NewJob(p, id) ==
  LET work == [height |-> proc[p].tpl.height, rev |-> proc[p].tpl.rev, stamp |-> second]
      known == {j.work : j \in shown} \union {heap[c].work : c \in Referred(ValidJobs, Callers) \ {0}}
  IN  /\ FreeCells # {}
      /\ heap' = [heap EXCEPT ![FreeCell] = [id |-> id, work |-> work, Submits |-> {}, twin |-> work \in known]]
      /\ proc' = [proc EXCEPT ![p].pc = "current", ![p].new = FreeCell, ![p].tpl = {}]
      /\ UNCHANGED <<daemonVars, CurrentJob, outside, stored, raced>>

UpdateCurrentJob(p) == proc[p].pc = "update" /\ NewJob(p, heap[CurrentJob].id) /\ UNCHANGED ValidJobs

(* The id is random; here it is the next one, with no job yet *)
CreateNewJob(p) == proc[p].pc = "create" /\ NewJob(p, Len(ValidJobs) + 1) /\ ValidJobs' = Append(ValidJobs, 0)

SetCurrent(p) ==
  /\ proc[p].pc = "current"
  /\ CurrentJob' = proc[p].new /\ Goto(p, "valid")
  /\ UNCHANGED <<daemonVars, heap, ValidJobs, outside, stored, raced>>

(* A map written while another goroutine uses it may end the process *)
UsesMap(p) == proc[p].pc \in {"valid", "lookup"}

SetValid(p) ==
  /\ proc[p].pc = "valid"
  /\ ValidJobs' = [ValidJobs EXCEPT ![heap[proc[p].new].id] = proc[p].new]
  /\ heap' = [c \in Cells |-> IF c \in Referred(ValidJobs', Callers \ {p}) THEN heap[c] ELSE NoJob]
  /\ proc' = [proc EXCEPT ![p] = AfterTemplate(p)]
  /\ alive' \in IF \E q \in Callers \ {p} : UsesMap(q) THEN BOOLEAN ELSE {alive}
  /\ UNCHANGED <<node, call, faults, scenario, CurrentJob, outside, stored, raced>>
-----------------------------------------------------------------------------
(* GetJobParams of the current job, to a miner that authorizes or to all.   *)
(* Left out once no submission can follow.                                  *)
SendJob ==
  /\ CurrentJob # 0 /\ submits < scenario.submits
  /\ shown' = shown \union {[id |-> heap[CurrentJob].id, work |-> heap[CurrentJob].work]}
  /\ UNCHANGED <<daemonVars, table, proc, second, submits, stored, raced>>

(* A miner submits a nonce found on a job it was sent, in some spelling *)
ReceiveSubmit(s) ==
  /\ proc[s].pc = "idle" /\ s \in DOMAIN scenario.extraNonce1 /\ submits < scenario.submits /\ submits' = submits + 1
  /\ \E j \in shown, nonce \in scenario.nonces, hex \in scenario.spellings :
       proc' = [proc EXCEPT ![s] = [Idle EXCEPT !.pc = "lookup",
                                       !.sub = [id |-> j.id, work |-> j.work, nonce |-> nonce, hex |-> hex]]]
  /\ UNCHANGED <<daemonVars, table, shown, second, stored, raced>>

(* ProcessSubmit up to RegisterSubmit: the job, then sizes and nTime *)
LookUp(s) ==
  /\ proc[s].pc = "lookup"
  /\ LET cell == ValidJobs[proc[s].sub.id] IN
     \/ cell # 0 /\ proc' = [proc EXCEPT ![s].pc = "register", ![s].job = cell]
     \/ proc' = [proc EXCEPT ![s] = Idle]      \* malformed, or nTime out of range
     \/ cell = 0 /\ proc' = [proc EXCEPT ![s] = Idle]
  /\ UNCHANGED <<daemonVars, table, outside, stored, raced>>

(* Mutant: nothing is a duplicate *)
RegisterAny(s) ==
  /\ proc[s].pc = "register"
  /\ proc' = [proc EXCEPT ![s].pc = "append", ![s].snap = heap[proc[s].job].Submits]
  /\ UNCHANGED <<daemonVars, table, outside, stored, raced>>

(* RegisterSubmit looks for the text in Submits, and appends to what it read *)
RegisterSubmit(s) ==
  /\ proc[s].pc = "register"
  /\ proc' = IF Submission(s, proc[s].sub) \in heap[proc[s].job].Submits THEN [proc EXCEPT ![s] = Idle]
             ELSE [proc EXCEPT ![s].pc = "append", ![s].snap = heap[proc[s].job].Submits]
  /\ UNCHANGED <<daemonVars, table, outside, stored, raced>>

AppendSubmit(s) ==
  LET j == proc[s].job IN
  /\ proc[s].pc = "append"
  /\ heap' = [heap EXCEPT ![j].Submits = proc[s].snap \union {Submission(s, proc[s].sub)}]
  /\ raced' = IF proc[s].snap = heap[j].Submits THEN raced
              ELSE raced \union heap[j].Submits \union {Submission(s, proc[s].sub)}
  /\ proc' = [proc EXCEPT ![s].pc = "judge", ![s].snap = {}]
  /\ UNCHANGED <<daemonVars, CurrentJob, ValidJobs, outside, stored>>

(* The rest of ProcessSubmit: a nonce found on other work than the job's is  *)
(* a low share; a block is submitted.                                        *)
Judge(s) ==
  LET sub == proc[s].sub IN
  /\ proc[s].pc = "judge"
  /\ \/ heap[proc[s].job].work # sub.work /\ proc' = [proc EXCEPT ![s] = Idle]
     \/ /\ heap[proc[s].job].work = sub.work
        /\ proc' = [proc EXCEPT ![s].pc = IF sub.nonce \in BlockNonces THEN "submit" ELSE "put"]
  /\ UNCHANGED <<daemonVars, table, outside, stored, raced>>
-----------------------------------------------------------------------------
(* ProcessShare with a block: SubmitBlock, CheckBlockAccepted, a fresh      *)
(* template (a failure is a log.Panic), PutShare.                           *)
SubmitBlock(s, noSubmitBlock) ==
  /\ proc[s].pc = "submit" /\ Goto(s, "submitting")
  /\ CmdAll(s, IF noSubmitBlock THEN "submit" ELSE "submitblock", {Block(s, proc[s].sub)})
  /\ UNCHANGED <<alive, node, faults, scenario, table, outside, stored, raced>>

AskAccepted(s) ==
  /\ proc[s].pc = "submitting" /\ Returned(s) /\ Goto(s, "checking")
  /\ CmdAll(s, "getblock", {Block(s, proc[s].sub)})
  /\ UNCHANGED <<alive, node, faults, scenario, table, outside, stored, raced>>

Checked(s) ==
  /\ proc[s].pc = "checking" /\ Returned(s)
  /\ proc' = [proc EXCEPT ![s].pc = "fetch", ![s].accepted = CheckBlockAccepted(call[s])]
  /\ call' = [call EXCEPT ![s] = NoCall]
  /\ UNCHANGED <<alive, node, faults, scenario, table, outside, stored, raced>>

PutShare(s) ==
  /\ proc[s].pc = "put"
  /\ stored' = Append(stored, [block |-> Block(s, proc[s].sub), text |-> Submission(s, proc[s].sub),
                              accepted |-> proc[s].accepted, twin |-> heap[proc[s].job].twin])
  /\ proc' = [proc EXCEPT ![s] = Idle]
  /\ UNCHANGED <<daemonVars, table, outside, raced>>

Clock ==
  /\ second < scenario.seconds /\ second' = second + 1
  /\ UNCHANGED <<daemonVars, table, proc, shown, submits, stored, raced>>

(* The steps of a goroutine inside the job manager *)
Installing(p) == ProcessTemplate(p) \/ UpdateCurrentJob(p) \/ CreateNewJob(p) \/ SetCurrent(p) \/ SetValid(p)

Submitting(s, noSubmitBlock) ==
  \/ LookUp(s) \/ RegisterSubmit(s) \/ AppendSubmit(s) \/ Judge(s)
  \/ SubmitBlock(s, noSubmitBlock) \/ AskAccepted(s) \/ Checked(s)
  \/ GetBlockTemplate(s, "decide", "panic") \/ PutShare(s)

JobsInit ==
  /\ heap = [c \in Cells |-> NoJob] /\ CurrentJob = 0 /\ ValidJobs = <<>>
  /\ proc = [p \in Callers |-> IF p = Main THEN [Idle EXCEPT !.pc = "check"] ELSE Idle]
  /\ shown = {} /\ second = 0 /\ submits = 0 /\ stored = <<>>
  /\ raced = {}
==============================================================================
