-------------------------------- MODULE Pool ---------------------------------
(***************************************************************************)
(* The bitcoin pool put together (pool/pool.go): the start-up sequence in  *)
(* the main goroutine, the polling goroutine, and the sessions of module   *)
(* Jobs on the daemons of module Daemons.                                  *)
(***************************************************************************)
EXTENDS Jobs

CONSTANT Poller     \* the goroutine of SetupBlockPolling

ASSUME PoolAssumption == Callers = {Main, Poller} \union Sessions /\ Poller \notin Sessions \union {Main}

VARIABLES noSubmitBlock,  \* Coin.NoSubmitBlock
          polling,        \* the poller was started
          serving         \* the stratum server was started

poolVars == <<noSubmitBlock, polling, serving>>

P2P == scenario.p2p                     \* Options.P2P # nil
Polls == scenario.polls                 \* BlockRefreshInterval > 0
vars == <<daemonVars, jobVars, poolVars>>

At(pc) == proc[Main].pc = pc
Others == <<table, outside, stored, raced>>
-----------------------------------------------------------------------------
(* NewPool's dm.Check (getpeerinfo) and Init's CheckAllReady: all daemons   *)
(* answer without an error, or the process ends.                            *)
AskAll ==
  \E ask \in {[pc |-> "check", method |-> "getpeerinfo", then |-> "checking"],
              [pc |-> "ready", method |-> "getblocktemplate", then |-> "readying"]} :
    /\ At(ask.pc) /\ Goto(Main, ask.then) /\ CmdAll(Main, ask.method, {})
    /\ UNCHANGED <<alive, node, faults, scenario, Others, poolVars>>

AllAnswered ==
  \E ask \in {[pc |-> "checking", then |-> "balance"], [pc |-> "readying", then |-> "detect"]} :
    /\ At(ask.pc) /\ Returned(Main)
    /\ call' = [call EXCEPT ![Main] = NoCall]
    /\ alive' = (call[Main].errors = {})
    /\ Goto(Main, ask.then)
    /\ UNCHANGED <<node, faults, scenario, Others, poolVars>>

(* NewPool's getbalance, when payments are on: an error and no answer end it *)
AskBalance ==
  /\ At("balance") /\ Goto(Main, "ready")
  /\ \E outcome \in {"ok", "error", "nil"} : CmdOutcome(Main, outcome) /\ alive' = (outcome = "ok")
  /\ UNCHANGED <<node, call, scenario, Others, poolVars>>

(* DetectCoinData.  An RPC error is logged as "Could not start pool" and    *)
(* returns: the pool goes on with what it knows.  No answer is a nil        *)
(* dereference, but for the submitblock probe.                              *)
DetectInfo(pc, then) ==
  /\ At(pc)
  /\ \E outcome \in {"ok", "error", "nil"} :
       /\ CmdOutcome(Main, outcome) /\ alive' = (outcome # "nil")
       /\ Goto(Main, IF outcome = "ok" THEN then ELSE "fetch")
  /\ UNCHANGED <<node, call, scenario, Others, poolVars>>

(* What comes back for submitblock without parameters.  A daemon that knows *)
(* it complains of its usage, with code -1, which one in trouble may answer *)
(* too; one that does not know it says "Method not found".                  *)
ProbeAnswer(answer) ==
  /\ ~Calling(Main)
  /\ \/ answer = (IF scenario.lacks THEN "MethodNotFound" ELSE "usage") /\ UNCHANGED faults
     \/ answer \in {"usage", "other", "noError", "nil"} /\ Fault

(* Mutant: any error but the complaint of the usage means no submitblock *)
JudgedByCode(answer) == answer # "usage"

(* The judgement of it; without an error nothing is assigned *)
Judged(answer) ==
  CASE answer = "MethodNotFound" -> TRUE
    [] answer = "usage"          -> FALSE
    [] OTHER                     -> noSubmitBlock

(* Any other error is fatal; without one DetectCoinData gives up *)
ProbeSubmitBlock ==
  /\ At("probe")
  /\ \E answer \in {"MethodNotFound", "usage", "other", "noError", "nil"} :
       /\ ProbeAnswer(answer)
       /\ alive' = (answer # "other") /\ noSubmitBlock' = Judged(answer)
       /\ Goto(Main, IF answer \in {"MethodNotFound", "usage"} THEN "inform" ELSE "fetch")
  /\ UNCHANGED <<node, call, scenario, Others, polling, serving>>

DetectCoinData == DetectInfo("detect", "probe") \/ ProbeSubmitBlock \/ DetectInfo("inform", "fetch")

(* Mutant: polling starts, the first template is forgotten *)
SetupNoJob ==
  /\ At("setup") /\ Goto(Main, "serve") /\ polling' = Polls
  /\ UNCHANGED <<daemonVars, Others, noSubmitBlock, serving>>

(* SetupP2PBlockNotify calls the pool's own Init, which starts over: its    *)
(* goroutine is never reached.  SetupBlockPolling, then JobManager.Init.    *)
Setup ==
  /\ At("setup")
  /\ IF P2P THEN proc' = [proc EXCEPT ![Main] = [Idle EXCEPT !.pc = "ready"]] /\ UNCHANGED polling
     ELSE Goto(Main, "decide") /\ polling' = Polls
  /\ UNCHANGED <<daemonVars, Others, noSubmitBlock, serving>>

StartStratumServer ==
  /\ At("serve") /\ Goto(Main, "payments") /\ serving' = TRUE
  /\ UNCHANGED <<daemonVars, Others, noSubmitBlock, polling>>

(* startPaymentsIfEnabled: validateaddress and the like; a failure is fatal *)
StartPayments ==
  /\ At("payments") /\ Goto(Main, "done")
  /\ \E outcome \in {"ok", "error", "nil"} : CmdOutcome(Main, outcome) /\ alive' = (outcome = "ok")
  /\ UNCHANGED <<node, call, scenario, Others, poolVars>>

MainStep == \/ AskAll \/ AllAnswered \/ AskBalance \/ DetectCoinData
            \/ GetBlockTemplate(Main, "setup", "fatal") /\ UNCHANGED poolVars
            \/ Setup \/ StartStratumServer \/ StartPayments
-----------------------------------------------------------------------------
(* A tick of BlockPollingIntervalTicker *)
Tick ==
  /\ polling /\ proc[Poller].pc = "idle" /\ Goto(Poller, "fetch")
  /\ UNCHANGED <<daemonVars, Others, poolVars>>

Init == /\ DaemonsInit /\ noSubmitBlock = scenario.noSubmitBlock /\ polling = FALSE /\ serving = FALSE
        /\ JobsInit

(* Where a goroutine is in Cmd, and may stay *)
InCmd(p) == \/ proc[p].pc = "fetch"
            \/ p = Main /\ proc[p].pc \in {"balance", "detect", "probe", "inform", "payments"}

NoAnswer(p) == InCmd(p) /\ CmdHangs(p) /\ UNCHANGED <<jobVars, poolVars>>

Step(p) ==
  \/ p = Main /\ MainStep
  \/ p = Poller /\ (Tick \/ (GetBlockTemplate(Poller, "decide", "idle") /\ UNCHANGED poolVars))
  \/ p \in Sessions /\ Submitting(p, noSubmitBlock) /\ UNCHANGED poolVars
  \/ Installing(p) /\ UNCHANGED poolVars
  \/ Answer(p) /\ UNCHANGED <<jobVars, poolVars>>
  \/ NoAnswer(p)

Outside == \/ Network /\ UNCHANGED <<jobVars, poolVars>>
           \/ serving /\ Clock /\ UNCHANGED poolVars    \* before that, a second more makes no difference
           \/ serving /\ SendJob /\ UNCHANGED poolVars
           \/ serving /\ \E s \in Sessions : ReceiveSubmit(s) /\ UNCHANGED poolVars

Next == alive /\ (Outside \/ \E p \in Callers : Step(p))

Spec == Init /\ [][Next]_vars

(* The scheduler runs every goroutine and the ticker ticks.  An HTTP call   *)
(* is answered, fails, or (with no Timeout) is never answered at all: which *)
(* of them is the environment's choice, and the last leaves its goroutine   *)
(* without a step.                                                          *)
FairSpec == Spec /\ \A p \in Callers : WF_vars(alive /\ Step(p))
-----------------------------------------------------------------------------
(* Types; a pool that serves has a job (HandleAuthorize dereferences        *)
(* CurrentJob); and what ValidJobs holds under an id is a job of that id,   *)
(* the check ProcessSubmit makes again.                                     *)
TypeOK ==
  /\ alive \in BOOLEAN /\ faults \in 0..scenario.faults /\ submits \in 0..scenario.submits
  /\ CurrentJob \in Cells \union {0} /\ noSubmitBlock \in BOOLEAN
  /\ serving => CurrentJob # 0
  /\ \A i \in DOMAIN ValidJobs : ValidJobs[i] # 0 => heap[ValidJobs[i]].id = i

(* No proof of work is credited twice, unless it was sent in two spellings  *)
(* (RegisterSubmit compares the text, ProcessSubmit hashes what it decoded),*)
(* two registrations on one job overlapped (RegisterSubmit is not locked),  *)
(* or the same work was made into a job twice within a second               *)
(* (UpdateCurrentJob starts an empty Submits).                              *)
DuplicateNeedsRace ==
  \A i, j \in DOMAIN stored :
    i < j /\ stored[i].block = stored[j].block
      => \/ stored[i].text # stored[j].text
         \/ stored[i].text \in raced \/ stored[i].twin \/ stored[j].twin

(* A block recorded as accepted is on every daemon, whatever order the      *)
(* submissions of two sessions, relays and blocks of others came in: the    *)
(* payout processor may ask any of them for it.                             *)
AcceptedEverywhere ==
  \A i \in DOMAIN stored : stored[i].accepted => \A d \in Daemons : stored[i].block \in node[d].blocks

(* A block some daemon took is stored, or the session that found it is      *)
(* still at it (for ever, when CmdAll hangs), or the process died between   *)
(* the submission and PutShare: then the reward has no round.               *)
FoundBlockStored ==
  alive => \A d \in Daemons : \A b \in node[d].blocks :
             \/ \E i \in DOMAIN stored : stored[i].block = b
             \/ \E s \in Sessions : proc[s].pc \notin {"idle", "lookup"} /\ Block(s, proc[s].sub) = b

(* The pool serves with the method of block submission its daemons know.    *)
(* Where it does not, a call of DetectCoinData failed, and then submit is   *)
(* used in place of submitblock only because the configuration said so:     *)
(* no failing call turns a daemon that knows submitblock into one that does *)
(* not, through every start-over of Init.                                   *)
MethodDetected ==
  serving /\ noSubmitBlock # scenario.lacks =>
    faults > 0 /\ (noSubmitBlock => scenario.noSubmitBlock)

(* Liveness: without a p2p section the pool comes to serve its miners, and  *)
(* every session comes to the end of its submissions.  Nothing stops either *)
(* but the end of the process, a CmdAll with a daemon that was not reached  *)
(* (no wg.Done) or a call no daemon answers (no Timeout).                   *)
Settles ==
  ~P2P => <>[](alive => /\ serving \/ Hung(Main)
                        /\ \A s \in Sessions : proc[s].pc = "idle" \/ Hung(s))

(* Liveness: once the network is quiet the current job is and stays the     *)
(* first daemon's template, although every goroutine that installs one may  *)
(* be late with an older one.  The one poller must not be left without an   *)
(* answer: nothing polls in its place.                                      *)
Converges ==
  <>[](alive /\ serving /\ polling /\ ~Hung(Poller) =>
             /\ heap[CurrentJob].work.height = node[First].height
             /\ heap[CurrentJob].work.rev = node[First].rev)

(* What CmdAll's comment says: no error keeps it from returning. *)
CmdAllReturns ==
  \A p \in Callers \ {Poller} : Calling(p) /\ call[p].method # "cmd" ~> ~Calling(p) \/ ~alive
==============================================================================
