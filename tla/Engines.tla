------------------------------- MODULE Engines -------------------------------
(***************************************************************************)
(* The pluggable mining engines (engine/...), the work sources that feed   *)
(* them (engine/worksource) and the stratum sessions they serve            *)
(* (stratum/engine.go, stratum/server.go).                                 *)
(*                                                                         *)
(* Every engine keeps a short history of jobs.  Source goroutines fetch a  *)
(* template from the node and install a job; session goroutines look a job *)
(* up, register the nonce under the job's lock, verify the proof of work   *)
(* and account for the share.  A template is its chain tip and a revision; *)
(* a hash is the difficulty it reaches, a function of the nonce.           *)
(***************************************************************************)
EXTENDS Client, Sequences, FiniteSets, Functions

CONSTANTS EngineNames,    \* the engines of the registry to consider
          Sessions,       \* miner connections
          Nonces,         \* what the miners search (beam: nonce and output)
          Achieved,       \* difficulty of the hash a nonce gives
          NetDiff,        \* network difficulty
          PortDiff,       \* starting difficulty of the port
          Diffs,          \* what CalcNextDiff may return
          Defects,        \* ways in which a submission can be malformed
          Spellings,      \* texts that parse to the same nonce
          HistoryCap,     \* jobs kept for late submits: 8, 16 or 64
          Chains,         \* jobs in one Jobs message of alephium
          PrefixSpace,    \* number of extranonce prefixes: 2^16 or 2^32
          Budgets         \* bounds: records of submits, retargets, requests of
                          \* a miner for work (subscribe, authorize, login,
                          \* getjob), revisions of the template and pushes of
                          \* a node, stalled peers, and whether events come in

ASSUME EngineSizes == /\ HistoryCap \in Nat \ {0} /\ PrefixSpace \in Nat \ {0}
                      /\ Chains \in 1..HistoryCap
ASSUME EngineDiffs == /\ NetDiff \in Nat \ {0} /\ PortDiff \in Nat \ {0}
                      /\ Diffs \subseteq Nat \ {0}
                      /\ Achieved \in [Nonces -> Nat]
ASSUME EngineRegistry == EngineNames \subseteq {"kawpow", "equihash", "cryptonote", "ergo",
                                                 "ethash", "kaspa", "alephium", "beam"}
ASSUME EngineBudgets == Budgets \subseteq [submits : Nat, retargets : Nat, revisions : Nat,
                                           pushes : Nat, subscribes : Nat, stalls : Nat, events : BOOLEAN]

VARIABLES engine,      \* the engine in use
          node,        \* the template the node would hand out
          stream,      \* the node connection of the push engines
          jobs,        \* every job made, oldest first
          cur,         \* e.cur (alephium: e.order), numbers of jobs
          history,     \* e.history, numbers of jobs
          seen,        \* ethash: the engine-wide e.seen
          jobCounter, enCounter,
          source,      \* the work-source goroutines
          session,     \* the miner sessions
          credits,     \* shares PutShare stored as valid, in order
          budget       \* what is left of the bound chosen at the start

engineVars == <<jobs, cur, history, seen, jobCounter>>
vars == <<engine, node, stream, engineVars, enCounter, source, session, credits, budget>>
-----------------------------------------------------------------------------
(* The work side of each engine: who watches the node, what of a template  *)
(* must differ for it to be new work, and whether OnSubscribe hands out    *)
(* prefixes.  kaspa takes every notification as new work.                  *)
Polled  == {"poll"}
Watched == IF budget.events THEN {"poll", "event"} ELSE Polled

KawpowWork     == [sources |-> Watched, keyed |-> "tip", prefixed |-> TRUE]
(* Mutant: refresh forgets to compare the tips. *)
EquihashAlwaysNew == [sources |-> Watched, keyed |-> "none", prefixed |-> TRUE]
EquihashWork   == [sources |-> Watched, keyed |-> "tip", prefixed |-> TRUE]
CryptonoteWork == [sources |-> Watched, keyed |-> "tip", prefixed |-> FALSE]
ErgoWork       == [sources |-> Polled,  keyed |-> "rev", prefixed |-> TRUE]
EthashWork     == [sources |-> Polled,  keyed |-> "rev", prefixed |-> FALSE]
KaspaWork      == [sources |-> Watched, keyed |-> "none", prefixed |-> FALSE]
AlephiumWork   == [sources |-> {"stream"}, keyed |-> "none", prefixed |-> TRUE]
BeamWork       == [sources |-> {"stream"}, keyed |-> "none", prefixed |-> FALSE]

Work == CASE engine = "kawpow"     -> KawpowWork
          [] engine = "equihash"   -> EquihashWork
          [] engine = "cryptonote" -> CryptonoteWork
          [] engine = "ergo"       -> ErgoWork
          [] engine = "ethash"     -> EthashWork
          [] engine = "kaspa"      -> KaspaWork
          [] engine = "alephium"   -> AlephiumWork
          [] engine = "beam"       -> BeamWork

(* Mutant: refresh is content with any current job. *)
SameWorkAlways(template) == cur # {}

(* refresh: the template is the work already served *)
SameWork(template) ==
  \E j \in cur : \/ Work.keyed = "tip" /\ jobs[j].template.tip = template.tip
                 \/ Work.keyed = "rev" /\ jobs[j].template = template

(* A job's id: the header for ethash, the node's own id for beam, else the  *)
(* counter.  The salt is what the engine puts into the coinbase.            *)
MakeJob(template, id, salt) ==
  [id       |-> CASE engine = "ethash" -> template
                  [] engine = "beam"   -> template.rev
                  [] OTHER             -> id,
   template |-> template,
   salt     |-> IF engine \in {"kawpow", "cryptonote"} THEN salt ELSE 0,
   seen     |-> {}]

(* Mutant: the cap is looked at before the pass and not in it. *)
DeletedAll(new, order, i) == order[i] \notin new /\ Len(order) > HistoryCap

(* The pass over the history, in the order the map happens to be visited:   *)
(* the i-th entry is deleted if it is not new and the map, less the entries *)
(* deleted before it, is still over its cap.                                *)
Deleted(new, order, i) ==
  LET before == {k \in 1..(i - 1) : order[k] \notin new}
  IN  order[i] \notin new /\ Len(order) - Cardinality(before) > HistoryCap

Evict(new, order) == {order[i] : i \in {k \in DOMAIN order : ~Deleted(new, order, k)}}

(* What the lock protects: the new jobs become current and enter the history,*)
(* a job with the same id leaves it, and the history is cut to its cap.     *)
Install(batch) ==
  LET n    == Len(jobs)
      new  == (n + 1)..(n + Len(batch))
      old  == {j \in history : \A b \in DOMAIN batch : jobs[j].id # batch[b].id}
      tail == IF engine = "ethash" THEN {} ELSE old
  IN  /\ jobs' = jobs \o batch
      /\ cur' = new
      /\ \E order \in Injection(1..Cardinality(tail \union new), tail \union new) :
           history' = Evict(new, order)
      /\ seen' = {}
      /\ session' = [s \in Sessions |-> [session[s] EXCEPT !.told = FALSE]]
-----------------------------------------------------------------------------
(* worksource: refresh in each source goroutine, then emit, which pushes to *)
(* the clients of a snapshot one by one.                                    *)
Spend(what) == [budget EXCEPT ![what] = @ - 1]

Sources == {"poll", "event", "stream"}

(* left: the clients of the snapshot to come; at: the one being served, and *)
(* held: the work read for it                                               *)
IdleSource == [pc |-> "idle", template |-> [tip |-> 0, rev |-> 0], id |-> 0, left |-> {}, at |-> {}, held |-> {}]
Broadcasting == [IdleSource EXCEPT !.pc = "emit", !.left = Sessions]

(* getblocktemplate and its likes; an RPC error leaves everything as it is, *)
(* and an answer that cannot be parsed ends the process.                    *)
Fetch(w) ==
  /\ w \in Work.sources \ {"stream"} /\ source[w].pc = "idle"
  /\ IF Work.keyed = "none" THEN budget.pushes > 0 /\ budget' = Spend("pushes") ELSE UNCHANGED budget
  /\ source' = [source EXCEPT ![w].pc = "fetched", ![w].template = node]
  /\ UNCHANGED <<engine, node, stream, engineVars, enCounter, session, credits>>

(* The HTTP client has no timeout: a call the node takes and never answers  *)
(* is waited for.                                                           *)
FetchHangs(w) ==
  /\ w \in Work.sources \ {"stream"} /\ source[w].pc = "idle"
  /\ budget.stalls > 0 /\ budget' = Spend("stalls")
  /\ source' = [source EXCEPT ![w].pc = "hung"]
  /\ UNCHANGED <<engine, node, stream, engineVars, enCounter, session, credits>>

(* Mutant: the counter is read and written back in two steps, so that the   *)
(* increment is lost to another source that is about to do the same.        *)
AcceptTorn(w) ==
  /\ source[w].pc = "fetched"
  /\ \E torn \in {FALSE, \E v \in Sources \ {w} : source[v].pc = "fetched"} :
       IF SameWork(source[w].template)
       THEN source' = [source EXCEPT ![w] = IdleSource] /\ UNCHANGED jobCounter
       ELSE /\ jobCounter' = IF torn THEN jobCounter ELSE jobCounter + 1
            /\ source' = [source EXCEPT ![w].pc = "accepted", ![w].id = jobCounter + 1]
  /\ UNCHANGED <<engine, node, stream, jobs, cur, history, seen, enCounter, session, credits, budget>>

(* The comparison with currentJob, then the atomic increment *)
Accept(w) ==
  /\ source[w].pc = "fetched"
  /\ IF SameWork(source[w].template)
     THEN source' = [source EXCEPT ![w] = IdleSource] /\ UNCHANGED jobCounter
     ELSE /\ jobCounter' = jobCounter + 1
          /\ source' = [source EXCEPT ![w].pc = "accepted", ![w].id = jobCounter + 1]
  /\ UNCHANGED <<engine, node, stream, jobs, cur, history, seen, enCounter, session, credits, budget>>

(* The salt is e.jobCounter as it is when the job is built, not its own id *)
AcceptTemplate(w) ==
  /\ source[w].pc = "accepted"
  /\ Install(<<MakeJob(source[w].template, source[w].id, jobCounter)>>)
  /\ source' = [source EXCEPT ![w] = Broadcasting]
  /\ UNCHANGED <<engine, node, stream, jobCounter, enCounter, credits, budget>>

(* alephium handleJobs (one job per chain) and beam handleLine: the message *)
(* is the work, there is no comparison.                                     *)
NodePush ==
  /\ "stream" \in Work.sources /\ stream = "up" /\ source["stream"].pc = "idle"
  /\ LET size  == IF engine = "alephium" THEN Chains ELSE 1
         batch == [b \in 1..size |-> MakeJob(node, jobCounter + b, 0)]
     IN  /\ budget.pushes > 0 /\ budget' = Spend("pushes")
         /\ jobCounter' = jobCounter + size
         /\ Install(batch)
  /\ source' = [source EXCEPT !["stream"] = Broadcasting]
  /\ UNCHANGED <<engine, node, stream, enCounter, credits>>

(* The client has been served or passed over *)
TurnOver(w, s) == IF source[w].left = {s} THEN IdleSource
                  ELSE [source[w] EXCEPT !.left = @ \ {s}, !.at = {}, !.held = {}]

(* BroadcastEngineWork, one client's turn: sendEngineWork reads the work... *)
Emit(w, s) ==
  /\ source[w].pc = "emit" /\ source[w].at = {} /\ s \in source[w].left
  /\ source' = [source EXCEPT ![w] = IF session[s].auth THEN [@ EXCEPT !.at = {s}, !.held = cur]
                                      ELSE TurnOver(w, s)]
  /\ UNCHANGED <<engine, node, stream, engineVars, enCounter, session, credits, budget>>

(* Mutant: the broadcast returns after the first client. *)
EmitSendOnce(w, s) ==
  /\ source[w].pc = "emit" /\ s \in source[w].at /\ session[s].reads
  /\ session' = [session EXCEPT ![s].told = @ \/ source[w].held = cur]
  /\ source' = [source EXCEPT ![w] = IdleSource]
  /\ UNCHANGED <<engine, node, stream, engineVars, enCounter, credits, budget>>

(* ...and writes it to the socket, which may have newer work behind it by   *)
(* then.  The write has no deadline: it waits for a miner that does not read.*)
EmitSend(w, s) ==
  /\ source[w].pc = "emit" /\ s \in source[w].at /\ session[s].reads
  /\ session' = [session EXCEPT ![s].told = @ \/ source[w].held = cur]
  /\ source' = [source EXCEPT ![w] = TurnOver(w, s)]
  /\ UNCHANGED <<engine, node, stream, engineVars, enCounter, credits, budget>>

(* Subscribe: a stream that died is opened again on the same connection     *)
(* after a backoff; the redial around it waits for a return that never comes.*)
StreamDrop ==
  /\ "stream" \in Work.sources /\ stream = "up" /\ stream' = "down"
  /\ UNCHANGED <<engine, node, engineVars, enCounter, source, session, credits, budget>>

Reopen ==
  /\ "stream" \in Work.sources /\ source["stream"].pc = "idle"
  /\ \/ stream = "down" /\ stream' = "backoff"
     \/ stream = "backoff" /\ stream' = "down"
  /\ UNCHANGED <<engine, node, engineVars, enCounter, source, session, credits, budget>>

(* The chain moves on, or the node has a newer template for the same tip *)
NodeChange ==
  /\ budget.revisions > 0 /\ budget' = Spend("revisions")
  /\ \E tip \in {node.tip, node.tip + 1} : node' = [tip |-> tip, rev |-> node.rev + 1]
  /\ UNCHANGED <<engine, stream, engineVars, enCounter, source, session, credits>>
-----------------------------------------------------------------------------
(* OnSubmit of each engine: the errors before the nonce is registered, the  *)
(* key under which it is, and the errors after; the first error is the      *)
(* verdict.                                                                 *)
NoPrefix == PrefixSpace

LookUp(sub) == IF sub.job = 0 THEN {} ELSE {j \in history : jobs[j].id = jobs[sub.job].id}
Unknown(sub) == LookUp(sub) = {}
Foreign(s, sub) == session[s].en1 # NoPrefix /\ sub.prefix # session[s].en1
Low(s, sub) == Achieved[sub.nonce] < session[s].cur

KawpowSubmit(s, sub) ==
  [before |-> Refuse(sub.defect = "shape", "nonce")
              \o Refuse(Unknown(sub) \/ sub.defect = "header", "job")
              \o Refuse(sub.defect = "size" \/ Foreign(s, sub), "nonce"),
   key    |-> <<sub.prefix, sub.nonce>>,
   after  |-> Refuse(sub.defect = "proof", "nonce") \o Refuse(Low(s, sub), "low")]

(* The key is nonce2 alone, and the pool itself puts nonce1 before it *)
EquihashSubmit(s, sub) ==
  [before |-> Refuse(sub.defect = "shape", "nonce") \o Refuse(Unknown(sub), "job")
              \o Refuse(sub.defect = "header", "ntime")
              \o Refuse(session[s].en1 = NoPrefix \/ sub.defect = "size", "nonce"),
   key    |-> sub.nonce,
   after  |-> Refuse(sub.defect = "proof", "nonce") \o Refuse(Low(s, sub), "low")]

AlephiumSubmit(s, sub) ==
  [before |-> Refuse(sub.defect = "shape", "nonce") \o Refuse(Unknown(sub), "job")
              \o Refuse(sub.defect = "size" \/ Foreign(s, sub), "nonce"),
   key    |-> <<sub.prefix, sub.nonce>>,
   after  |-> Refuse(Low(s, sub), "low")]

ErgoSubmit(s, sub) ==
  [before |-> Refuse(sub.defect = "shape", "nonce") \o Refuse(Unknown(sub), "job")
              \o Refuse(sub.defect = "size" \/ Foreign(s, sub), "nonce"),
   key    |-> <<sub.prefix, sub.nonce>>,
   after  |-> Refuse(sub.defect = "proof", "nonce") \o Refuse(Low(s, sub), "low")]

CryptonoteSubmit(s, sub) ==
  [before |-> Refuse(sub.defect = "shape", "nonce") \o Refuse(Unknown(sub), "job")
              \o Refuse(sub.defect = "size", "nonce"),
   key    |-> sub.nonce,
   after  |-> Refuse(sub.defect = "proof", "nonce") \o Refuse(Low(s, sub), "low")]

(* Only the current header is known, and it is part of the key, with the   *)
(* nonce as it is spelled in the message                                   *)
EthashSubmit(s, sub) ==
  [before |-> Refuse(sub.defect = "shape", "nonce")
              \o Refuse(Unknown(sub) \/ sub.defect = "header", "job")
              \o Refuse(sub.defect = "size", "nonce"),
   key    |-> <<sub.job, sub.nonce, sub.spelling>>,
   after  |-> Refuse(sub.defect = "proof", "nonce") \o Refuse(Low(s, sub), "low")]

KaspaSubmit(s, sub) ==
  [before |-> Refuse(sub.defect = "shape", "nonce") \o Refuse(Unknown(sub), "job")
              \o Refuse(sub.defect = "size", "nonce"),
   key    |-> <<sub.nonce, sub.spelling>>,
   after  |-> Refuse(Low(s, sub), "low")]

(* The node judges the difficulty: no share target here *)
BeamSubmit(s, sub) ==
  [before |-> Refuse(sub.defect = "shape", "nonce") \o Refuse(Unknown(sub), "job")
              \o Refuse(sub.defect = "size", "nonce"),
   key    |-> sub.nonce,
   after  |-> Refuse(sub.defect = "proof", "nonce")]

OnSubmit(s, sub) ==
  CASE engine = "kawpow"     -> KawpowSubmit(s, sub)
    [] engine = "equihash"   -> EquihashSubmit(s, sub)
    [] engine = "cryptonote" -> CryptonoteSubmit(s, sub)
    [] engine = "ergo"       -> ErgoSubmit(s, sub)
    [] engine = "ethash"     -> EthashSubmit(s, sub)
    [] engine = "kaspa"      -> KaspaSubmit(s, sub)
    [] engine = "alephium"   -> AlephiumSubmit(s, sub)
    [] engine = "beam"       -> BeamSubmit(s, sub)

(* share.Diff as OnSubmit reports it: beam's is the node's job difficulty *)
ReportedDiff(sub) == IF engine = "beam" THEN NetDiff ELSE Achieved[sub.nonce]
-----------------------------------------------------------------------------
(* stratum/engine.go: what one session does with the messages of its miner *)
Prefixes == 0..(PrefixSpace - 1)

(* What can be wrong with a message of the engine's dialect *)
Material(defect) ==
  /\ defect = "header" => engine \in {"kawpow", "equihash", "ethash"}
  /\ defect = "proof" => engine \in {"kawpow", "equihash", "ethash", "cryptonote", "beam", "ergo"}

Submissions(s) ==
  [job      : 0..Len(jobs),
   prefix   : IF engine = "equihash" THEN {session[s].en1} ELSE IF Work.prefixed THEN Prefixes ELSE {0},
   nonce    : Nonces,
   spelling : IF engine \in {"ethash", "kaspa"} THEN Spellings ELSE {0},
   defect   : {d \in Defects : Material(d)}]

NoSub == [job |-> 0]

(* told: the current work has been sent to the miner; held: the work read   *)
(* and not sent yet; reads: the miner still reads what it is sent           *)
NewSession == [pc |-> "idle", auth |-> FALSE, en1 |-> NoPrefix, cur |-> 0, prev |-> 0, told |-> FALSE,
               held |-> {}, reads |-> TRUE, shares |-> NoShares, sub |-> NoSub, job |-> 0]

Idle(s) == session[s].pc = "idle"

(* Mutant: the counter is not cut to the width of the prefix. *)
NextPrefixWide == enCounter + 1
(* Mutant: one bit too few is kept. *)
NextPrefixNarrow == (enCounter + 1) % (PrefixSpace - 1)

(* OnSubscribe: the 16 or 32 bits of the counter *)
NextPrefix == (enCounter + 1) % PrefixSpace

Subscribe(s) ==
  /\ Idle(s) /\ Work.prefixed /\ budget.subscribes > 0
  /\ enCounter' = enCounter + 1 /\ budget' = Spend("subscribes")
  /\ session' = [session EXCEPT ![s].en1 = NextPrefix]
  /\ UNCHANGED <<engine, node, stream, engineVars, source, credits>>

StartingDiff(s) == IF session[s].cur = 0 THEN PortDiff ELSE session[s].cur

(* The reply, then sendEngineWork *)
Authorize(s) ==
  /\ Idle(s) /\ engine # "cryptonote"
  /\ budget.subscribes > 0 /\ budget' = Spend("subscribes")
  /\ LET fresh == session[s].en1 = NoPrefix /\ Work.prefixed
     IN  /\ enCounter' = IF fresh THEN enCounter + 1 ELSE enCounter
         /\ session' = [session EXCEPT ![s].auth = TRUE, ![s].cur = StartingDiff(s), ![s].pc = "work",
                                       ![s].en1 = IF fresh THEN NextPrefix ELSE @]
  /\ UNCHANGED <<engine, node, stream, engineVars, source, credits>>

(* login: the reply is made before the session counts as authorized, and    *)
(* sent after                                                               *)
Login(s) ==
  /\ engine = "cryptonote"
  /\ \/ /\ Idle(s) /\ budget.subscribes > 0 /\ budget' = Spend("subscribes")
        /\ session' = [session EXCEPT ![s].pc = "login", ![s].held = cur]
     \/ /\ session[s].pc = "login" /\ UNCHANGED budget
        /\ session' = [session EXCEPT ![s].pc = "send", ![s].auth = TRUE, ![s].cur = StartingDiff(s)]
  /\ UNCHANGED <<engine, node, stream, engineVars, enCounter, source, credits>>

(* sendEngineWork and engineJobParams read the work and let go of it; with  *)
(* no work yet there is nothing to send                                     *)
ReadWork(s) ==
  /\ session[s].pc = "work"
  /\ session' = [session EXCEPT ![s].pc = IF cur = {} THEN "idle" ELSE "send", ![s].held = cur]
  /\ UNCHANGED <<engine, node, stream, engineVars, enCounter, source, credits, budget>>

(* The write, by now perhaps behind newer work of a broadcast *)
SendWork(s) ==
  /\ session[s].pc = "send" /\ session[s].reads
  /\ session' = [session EXCEPT ![s].pc = "idle", ![s].held = {}, ![s].told = @ \/ session[s].held = cur]
  /\ UNCHANGED <<engine, node, stream, engineVars, enCounter, source, credits, budget>>

(* A miner stops reading and the buffers of its socket are full *)
StopReading(s) ==
  /\ session[s].reads /\ budget.stalls > 0 /\ budget' = Spend("stalls")
  /\ session' = [session EXCEPT ![s].reads = FALSE]
  /\ UNCHANGED <<engine, node, stream, engineVars, enCounter, source, credits>>

(* getjob and eth_getWork, of a miner that is authorized *)
GetJob(s) ==
  /\ Idle(s) /\ session[s].auth /\ budget.subscribes > 0 /\ budget' = Spend("subscribes")
  /\ session' = [session EXCEPT ![s].pc = "work"]
  /\ UNCHANGED <<engine, node, stream, engineVars, enCounter, source, credits>>

(* A refused share, counted against the session.  A ban blocks it for good: *)
(* SocketClosedEvent is nil.                                                *)
Blame(s, budgetLeft) ==
  /\ session' = [session EXCEPT ![s].shares = Tally(@, FALSE), ![s].sub = NoSub, ![s].job = 0,
                     ![s].pc = IF ShouldBan(session[s].shares, FALSE) THEN "banned" ELSE "idle"]
  /\ budget' = budgetLeft
  /\ UNCHANGED credits

SubmitUnauthorized(s) ==
  /\ Idle(s) /\ ~session[s].auth /\ budget.submits > 0
  /\ Blame(s, Spend("submits"))
  /\ UNCHANGED <<engine, node, stream, engineVars, enCounter, source>>

(* OnSubmit up to the lookup *)
Submit(s) ==
  /\ Idle(s) /\ session[s].auth /\ budget.submits > 0
  /\ \E sub \in Submissions(s) :
       IF OnSubmit(s, sub).before # <<>>
       THEN Blame(s, Spend("submits"))
       ELSE /\ \E j \in LookUp(sub) :
                 session' = [session EXCEPT ![s].pc = "found", ![s].sub = sub, ![s].job = j]
            /\ budget' = Spend("submits") /\ UNCHANGED credits
  /\ UNCHANGED <<engine, node, stream, engineVars, enCounter, source>>

(* Mutant: duplicates are looked for within a connection only. *)
KeyOfSession(s) == <<s, OnSubmit(s, session[s].sub).key>>

(* The duplicate check and the registration, under the lock *)
KeyOf(s) == OnSubmit(s, session[s].sub).key
SeenBy(j) == IF engine = "ethash" THEN seen ELSE jobs[j].seen

Register(s) ==
  /\ session[s].pc = "found"
  /\ LET j == session[s].job IN
     IF KeyOf(s) \in SeenBy(j)
     THEN Blame(s, budget) /\ UNCHANGED <<jobs, seen>>
     ELSE /\ IF engine = "ethash"
             THEN seen' = seen \union {KeyOf(s)} /\ UNCHANGED jobs
             ELSE jobs' = [jobs EXCEPT ![j].seen = @ \union {KeyOf(s)}] /\ UNCHANGED seen
          /\ session' = [session EXCEPT ![s].pc = "registered"]
          /\ UNCHANGED <<credits, budget>>
  /\ UNCHANGED <<engine, node, stream, cur, history, jobCounter, enCounter, source>>

(* meetsPreviousEngineDiff and creditedEngineDiff *)
MeetsPrevious(s, diff) == session[s].prev > 0 /\ diff >= session[s].prev

(* Mutant: a tolerated share is credited at the new difficulty. *)
CreditedCurrent(s, diff) == session[s].cur

CreditedDiff(s, diff) ==
  IF diff < session[s].cur /\ MeetsPrevious(s, diff) THEN session[s].prev ELSE session[s].cur

(* A valid share: PutShare, then applyEngineVarDiff, which sends work when   *)
(* the difficulty changed                                                   *)
Reward(s, payable) ==
  LET sub == session[s].sub
      diff == ReportedDiff(sub)
  IN  /\ credits' = Append(credits, [session |-> s, job |-> session[s].job, prefix |-> sub.prefix,
                                     nonce |-> sub.nonce, diff |-> CreditedDiff(s, diff), payable |-> payable])
      /\ \E next \in Diffs \union {session[s].cur} :
           LET retarget == next # session[s].cur IN
           /\ retarget => budget.retargets > 0
           /\ budget' = IF retarget THEN Spend("retargets") ELSE budget
           /\ session' = [session EXCEPT ![s].pc = IF retarget THEN "work" ELSE "idle", ![s].sub = NoSub,
                              ![s].job = 0, ![s].shares = Tally(@, TRUE), ![s].cur = next,
                              ![s].prev = IF retarget THEN session[s].cur ELSE @]

(* Proof of work, share target, network target.  The daemons of a bitcoin   *)
(* family coin are asked for the coinbase; an unreachable one is waited for *)
(* forever.                                                                 *)
Payable == engine \in {"kawpow", "equihash"}

Judge(s) ==
  /\ session[s].pc = "registered"
  /\ LET sub    == session[s].sub
         errors == OnSubmit(s, sub).after
         block  == errors = <<>> /\ ReportedDiff(sub) >= NetDiff
         refuse == errors # <<>> /\ ~(errors[1] = "low" /\ MeetsPrevious(s, ReportedDiff(sub)))
     IN  \/ /\ refuse
            /\ Blame(s, budget)
         \/ /\ ~refuse
            /\ \E accepted \in (IF block /\ Payable THEN BOOLEAN ELSE {FALSE}) : Reward(s, accepted)
         \/ /\ block /\ Payable
            /\ session' = [session EXCEPT ![s].pc = "waiting"] /\ UNCHANGED <<credits, budget>>
  /\ UNCHANGED <<engine, node, stream, engineVars, enCounter, source>>
-----------------------------------------------------------------------------
FirstTemplate == [tip |-> 1, rev |-> 0]

(* Engine.Init: the first template is a job before the ports open; beam     *)
(* only logs in and waits for the node's first push.                        *)
Init ==
  /\ engine \in EngineNames
  /\ node = FirstTemplate /\ stream = "up"
  /\ LET n == CASE engine = "beam" -> 0 [] engine = "alephium" -> Chains [] OTHER -> 1
     IN  /\ jobs = [i \in 1..n |-> MakeJob(FirstTemplate, i, i)]
         /\ cur = 1..n /\ history = 1..n /\ jobCounter = n
  /\ seen = {} /\ enCounter = 0
  /\ source = [w \in Sources |-> IdleSource]
  /\ session = [s \in Sessions |-> NewSession]
  /\ credits = <<>>
  /\ budget \in Budgets

SourceStep(w) == \/ Fetch(w) \/ Accept(w) \/ AcceptTemplate(w)
                 \/ \E s \in Sessions : Emit(w, s) \/ EmitSend(w, s)

SessionStep(s) == Subscribe(s) \/ Authorize(s) \/ Login(s) \/ ReadWork(s) \/ SendWork(s) \/ StopReading(s)
                  \/ GetJob(s) \/ SubmitUnauthorized(s) \/ Submit(s) \/ Register(s) \/ Judge(s)

Next == \/ \E w \in Sources : SourceStep(w) \/ FetchHangs(w)
        \/ NodePush \/ StreamDrop \/ Reopen \/ NodeChange
        \/ \E s \in Sessions : SessionStep(s)

Spec == Init /\ [][Next]_vars

(* The ticker of Poll always fires again, a call that does not hang is      *)
(* answered at last and a write to a miner that reads is done; the Subscribe *)
(* loop always opens again.  Events and miners promise nothing.             *)
FairSpec == Spec /\ WF_vars(SourceStep("poll")) /\ WF_vars(Reopen)
-----------------------------------------------------------------------------
Templates == [tip : Nat, rev : Nat]

TypeOK ==
  /\ engine \in EngineNames /\ node \in Templates
  /\ stream \in {"up", "down", "backoff"}
  /\ \A j \in DOMAIN jobs : jobs[j].template \in Templates /\ jobs[j].salt \in Nat
  /\ cur \subseteq DOMAIN jobs /\ history \subseteq DOMAIN jobs
  /\ jobCounter \in Nat /\ enCounter \in Nat
  /\ \A w \in Sources : /\ source[w].pc \in {"idle", "fetched", "hung", "accepted", "emit"}
                         /\ source[w].left \subseteq Sessions /\ source[w].at \subseteq Sessions
                         /\ source[w].held \subseteq Nat
  /\ \A s \in Sessions :
       /\ session[s].pc \in {"idle", "login", "work", "send", "found", "registered", "waiting", "banned"}
       /\ session[s].held \subseteq Nat
       /\ session[s].en1 \in 0..PrefixSpace /\ {session[s].cur, session[s].prev} \subseteq Nat
       /\ session[s].shares \in [valid : Nat, invalid : Nat]
       /\ session[s].pc \in {"found", "registered"} => session[s].job \in DOMAIN jobs

(* An id names one job for good, although the poller and the node's events   *)
(* draw ids side by side and either may install first (acceptTemplate,       *)
(* handleJobs: the atomic e.jobCounter).  OnSubmit knows the job of a share   *)
(* by its id alone, so that a late share is judged on the work it was mined  *)
(* on or not at all.  ethash and beam take the id from the node.             *)
IdNamesOneJob ==
  engine \notin {"ethash", "beam"} =>
    \A i, j \in DOMAIN jobs : jobs[i].id = jobs[j].id => i = j

(* Whatever the order in which the map is visited, each time, a submit on    *)
(* the work being served is found, and a late one is turned away only once   *)
(* the history is full: the pass stops deleting at the cap (the eviction in  *)
(* acceptTemplate and handleJobs).  Which of the old jobs stay is chance.    *)
(* ethash keeps no history, and beam's node may push one id again.           *)
LateTailKept ==
  engine \notin {"ethash", "beam"} =>
    /\ cur \subseteq history
    /\ Cardinality(history) = IF Len(jobs) < HistoryCap THEN Len(jobs) ELSE HistoryCap

(* However the sessions interleave, one nonce earns at most one credit on   *)
(* one job: the duplicate check and the registration are one critical       *)
(* section (OnSubmit).  ethash and kaspa key the text of the nonce, so they  *)
(* promise it per spelling only.                                            *)
CreditedOncePerJob ==
  engine \notin {"ethash", "kaspa"} =>
    \A a, b \in DOMAIN credits :
      a # b => \/ credits[a].job # credits[b].job \/ credits[a].nonce # credits[b].nonce
               \/ credits[a].prefix # credits[b].prefix

(* The header a miner hashes *)
WorkOf(j) == <<jobs[j].template, jobs[j].salt>>

(* One proof of work earns at most one credit, even when the job it was     *)
(* found on is one of several made from the same template.  It rests on     *)
(* refresh making one job per tip (or message), so it is stated for the     *)
(* engines that compare and for a single watcher.                           *)
OneCreditPerWork ==
  engine \in {"kawpow", "equihash", "cryptonote", "ergo"} /\ ~budget.events =>
    \A a, b \in DOMAIN credits :
      a # b => <<WorkOf(credits[a].job), credits[a].prefix, credits[a].nonce>>
               # <<WorkOf(credits[b].job), credits[b].prefix, credits[b].nonce>>

(* A credit is never above what the hash shows, across retargets and the    *)
(* tolerance for the previous difficulty (meetsPreviousEngineDiff,          *)
(* creditedEngineDiff).  beam leaves the target to its node.                *)
CreditBacked ==
  engine # "beam" => \A a \in DOMAIN credits : credits[a].diff <= Achieved[credits[a].nonce]

(* Two sessions search the same part of the nonce space only once the       *)
(* counter has gone through all prefixes (OnSubscribe).                     *)
PrefixesDistinct ==
  \A s, t \in Sessions :
    s # t /\ session[s].en1 = session[t].en1 /\ session[s].en1 # NoPrefix => enCounter > PrefixSpace

(* When no broadcast is under way, every authorized miner that is not just being  *)
(* served has been sent the current work since it was installed, whichever   *)
(* way authorize, getjob, retargets, installs and broadcasts interleave.     *)
(* It need not be what was sent last: work is read and written in two steps, *)
(* and what another goroutine read before may be written after it.  A        *)
(* cryptonote login reads its work before a broadcast sees the session, and  *)
(* is left out.                                                              *)
NobodyLeftBehind ==
  engine # "cryptonote" /\ cur # {} /\ (\A w \in Sources : source[w].pc # "emit") =>
    \A s \in Sessions : session[s].auth /\ session[s].pc \notin {"work", "send"} => session[s].told

(* The poller waits for good: on a call that is never answered, or on a      *)
(* write to a miner that has stopped reading.                                *)
Wedged(w) == \/ source[w].pc = "hung"
             \/ \E s \in source[w].at : ~session[s].reads

(* The poller, raced by events or not, makes the chain tip the node has come *)
(* to rest on the work of the engine, unless a call to the node or a write   *)
(* to a miner that stopped reading never returns (worksource.Poll, refresh).  *)
FreshWork ==
  Work.keyed # "none" => <>[](Wedged("poll") \/ \A j \in cur : jobs[j].template.tip = node.tip)
=============================================================================
