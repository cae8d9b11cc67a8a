---------------------------- MODULE EnginesProofs ----------------------------
(***************************************************************************)
(* What TLAPS proves of the engines and their sessions, for every engine,  *)
(* any number of miners, nonces, submits, templates and retargets, every   *)
(* size of the history and of the prefix counter.  An action is a step of  *)
(* one session (SessionFine) or of the work side (WorkFine); TypeInv and   *)
(* the invariants below it are shown to survive either kind.               *)
(***************************************************************************)
EXTENDS Engines, FiniteSetTheorems, TLAPS

-----------------------------------------------------------------------------
(* The types TypeOK leaves open.                                           *)

(* The texts a nonce is sent in, and the one of a session without one. *)
Texts == Spellings \union {0}

(* What the sets of seen nonces hold, over all engines. *)
Keys == Nonces \union ((0..PrefixSpace) \X Nonces) \union (Nonces \X Texts) \union (Nat \X Nonces \X Texts)

JobRecord == [id : Nat \union Templates, template : Templates, salt : Nat, seen : SUBSET Keys]

Submission == [job : Nat, prefix : 0..PrefixSpace, nonce : Nonces, spelling : Texts, defect : Defects]

SourceRecord == [pc : {"idle", "fetched", "hung", "accepted", "emit"}, template : Templates, id : Nat,
                 left : SUBSET Sessions, at : SUBSET Sessions, held : SUBSET Nat]

Counts == [valid : Nat, invalid : Nat]

SessionRecord == [pc : {"idle", "login", "work", "send", "found", "registered", "waiting", "banned"},
                  auth : BOOLEAN, en1 : 0..PrefixSpace, cur : Nat, prev : Nat, told : BOOLEAN,
                  held : SUBSET Nat, reads : BOOLEAN, shares : Counts,
                  sub : Submission \union {NoSub}, job : Nat]

Credit == [session : Sessions, job : Nat, prefix : 0..PrefixSpace, nonce : Nonces, diff : Nat, payable : BOOLEAN]

BudgetRecord == [submits : Nat, retargets : Nat, revisions : Nat, pushes : Nat, subscribes : Nat,
                 stalls : Nat, events : BOOLEAN]

(* A session with a submission under way has it, and the job it is for. *)
Pending(r) == r.pc \in {"found", "registered"} => r.sub \in Submission /\ r.job \in DOMAIN jobs

(* TypeOK with the types it leaves open. *)
TypeInv ==
  /\ engine \in EngineNames /\ node \in Templates /\ stream \in {"up", "down", "backoff"}
  /\ jobs \in Seq(JobRecord) /\ cur \subseteq DOMAIN jobs /\ history \subseteq DOMAIN jobs
  /\ jobCounter \in Nat /\ enCounter \in Nat
  /\ source \in [Sources -> SourceRecord]
  /\ session \in [Sessions -> SessionRecord]
  /\ credits \in Seq(Credit) /\ budget \in BudgetRecord
  /\ \A s \in Sessions : Pending(session[s])
-----------------------------------------------------------------------------
(* The operators *)

LEMMA TallyType ==
  ASSUME NEW shares \in Counts, NEW ok \in BOOLEAN
  PROVE  Tally(shares, ok) \in Counts
  BY DEF Counts, Tally, NoShares, Count

LEMMA KeyType ==
  ASSUME TypeInv, NEW s \in Sessions, NEW sub \in Submission
  PROVE  OnSubmit(s, sub).key \in Keys
<1>. /\ sub.prefix \in 0..PrefixSpace /\ sub.nonce \in Nonces /\ sub.spelling \in Texts /\ sub.job \in Nat
  BY DEF Submission
<1>1. CASE engine = "kawpow"
  BY <1>1 DEF OnSubmit, KawpowSubmit, Keys
<1>2. CASE engine = "equihash"
  BY <1>2 DEF OnSubmit, EquihashSubmit, Keys
<1>3. CASE engine = "cryptonote"
  BY <1>3 DEF OnSubmit, CryptonoteSubmit, Keys
<1>4. CASE engine = "ergo"
  BY <1>4 DEF OnSubmit, ErgoSubmit, Keys
<1>5. CASE engine = "ethash"
  BY <1>5 DEF OnSubmit, EthashSubmit, Keys
<1>6. CASE engine = "kaspa"
  BY <1>6 DEF OnSubmit, KaspaSubmit, Keys
<1>7. CASE engine = "alephium"
  BY <1>7 DEF OnSubmit, AlephiumSubmit, Keys
<1>8. CASE engine = "beam"
  BY <1>8 DEF OnSubmit, BeamSubmit, Keys
<1>9. QED
  BY <1>1, <1>2, <1>3, <1>4, <1>5, <1>6, <1>7, <1>8, EngineRegistry DEF TypeInv

LEMMA SpendType ==
  ASSUME budget \in BudgetRecord
  PROVE  /\ budget.submits > 0 => Spend("submits") \in BudgetRecord
         /\ budget.retargets > 0 => Spend("retargets") \in BudgetRecord
         /\ budget.revisions > 0 => Spend("revisions") \in BudgetRecord
         /\ budget.pushes > 0 => Spend("pushes") \in BudgetRecord
         /\ budget.subscribes > 0 => Spend("subscribes") \in BudgetRecord
         /\ budget.stalls > 0 => Spend("stalls") \in BudgetRecord
         /\ \A w \in {"submits", "retargets", "revisions", "pushes", "subscribes", "stalls"} :
              Spend(w).events = budget.events
  BY DEF Spend, BudgetRecord

LEMMA PrefixType ==
  ASSUME enCounter \in Nat
  PROVE  NextPrefix \in 0..PrefixSpace /\ NextPrefix # NoPrefix
  BY EngineSizes DEF NextPrefix, NoPrefix

LEMMA MakeJobType ==
  ASSUME NEW template \in Templates, NEW id \in Nat, NEW salt \in Nat
  PROVE  /\ MakeJob(template, id, salt) \in JobRecord
         /\ MakeJob(template, id, salt).template = template
         /\ MakeJob(template, id, salt).seen = {}
         /\ engine \notin {"ethash", "beam"} => MakeJob(template, id, salt).id = id
<1>1. template.rev \in Nat
  BY DEF Templates
<1>2. (CASE engine = "ethash" -> template [] engine = "beam" -> template.rev [] OTHER -> id)
        \in Nat \union Templates
  BY <1>1
<1>3. (IF engine \in {"kawpow", "cryptonote"} THEN salt ELSE 0) \in Nat
  OBVIOUS
<1>4. QED
  BY <1>2, <1>3 DEF MakeJob, JobRecord

LEMMA SubmissionType ==
  ASSUME TypeInv, NEW s \in Sessions, NEW sub \in Submissions(s)
  PROVE  sub \in Submission
<1>1. session[s].en1 \in 0..PrefixSpace /\ Prefixes \subseteq 0..PrefixSpace /\ Len(jobs) \in Nat
  BY EngineSizes DEF TypeInv, SessionRecord, Prefixes
<1>2. 0 \in 0..PrefixSpace
  BY EngineSizes
<1>3. (IF engine = "equihash" THEN {session[s].en1} ELSE IF Work.prefixed THEN Prefixes ELSE {0})
        \subseteq 0..PrefixSpace
  BY <1>1, <1>2
<1>4. (IF engine \in {"ethash", "kaspa"} THEN Spellings ELSE {0}) \subseteq Texts
  BY DEF Texts
<1>5. QED
  BY <1>1, <1>3, <1>4 DEF Submissions, Submission
-----------------------------------------------------------------------------
(* What the actions do to the state, as the proofs below use it.           *)

Others(s) == \A t \in Sessions \ {s} : session'[t] = session[t]

(* Install: the old jobs stay, the new ones are current and known. *)
LEMMA InstallFacts ==
  ASSUME TypeInv, NEW batch \in Seq(JobRecord), Install(batch)
  PROVE  /\ jobs' \in Seq(JobRecord) /\ Len(jobs') = Len(jobs) + Len(batch)
         /\ DOMAIN jobs \subseteq DOMAIN jobs'
         /\ \A j \in DOMAIN jobs : jobs'[j] = jobs[j]
         /\ \A b \in DOMAIN batch : jobs'[Len(jobs) + b] = batch[b]
         /\ cur' = (Len(jobs) + 1)..(Len(jobs) + Len(batch))
         /\ history' \subseteq DOMAIN jobs'
         /\ session' \in [Sessions -> SessionRecord]
         /\ \A s \in Sessions : session'[s] = [session[s] EXCEPT !.told = FALSE]
<1>. DEFINE n == Len(jobs)
            m == Len(batch)
            new == (n + 1)..(n + m)
            old == {j \in history : \A b \in DOMAIN batch : jobs[j].id # batch[b].id}
            tail == IF engine = "ethash" THEN {} ELSE old
<1>1. /\ n \in Nat /\ m \in Nat /\ jobs \in Seq(JobRecord) /\ DOMAIN jobs = 1..n /\ DOMAIN batch = 1..m
      /\ history \subseteq 1..n
  BY DEF TypeInv
<1>2. jobs' = jobs \o batch /\ cur' = new /\ session' = [s \in Sessions |-> [session[s] EXCEPT !.told = FALSE]]
  BY DEF Install
<1>3. PICK order \in Injection(1..Cardinality(tail \union new), tail \union new) : history' = Evict(new, order)
  BY Zenon DEF Install
<1>4. jobs' \in Seq(JobRecord) /\ Len(jobs') = n + m /\ DOMAIN jobs' = 1..(n + m)
  BY <1>1, <1>2
<1>5. /\ \A j \in DOMAIN jobs : jobs'[j] = jobs[j]
      /\ \A b \in DOMAIN batch : jobs'[n + b] = batch[b]
  BY <1>1, <1>2
<1>6. tail \subseteq 1..n
  BY <1>1
<1>7. new \subseteq 1..(n + m) /\ 1..n \subseteq 1..(n + m)
  BY <1>1
<1>8. history' \subseteq 1..(n + m)
  <2>. DEFINE all == tail \union new
              size == Cardinality(all)
  <2>. HIDE DEF all, size, tail, new
  <2>1. order \in [1..size -> all] /\ history' = Evict(new, order)
    BY <1>3 DEF Injection, all, size
  <2>2. \A i \in DOMAIN order : order[i] \in all
    BY <2>1
  <2>3. history' \subseteq all
    BY <2>1, <2>2 DEF Evict
  <2>. QED
    BY <2>3, <1>6, <1>7 DEF all
<1>10. \A s \in Sessions : [session[s] EXCEPT !.told = FALSE] \in SessionRecord
  BY ZenonT(60) DEF TypeInv, SessionRecord
<1>. QED
  BY <1>1, <1>2, <1>4, <1>5, <1>7, <1>8, <1>10

(* A refused share costs the session its submission and nothing else. *)
LEMMA BlameFacts ==
  ASSUME TypeInv, NEW s \in Sessions, NEW b, Blame(s, b)
  PROVE  /\ session' \in [Sessions -> SessionRecord] /\ Others(s)
         /\ session'[s].pc \in {"idle", "banned"}
         /\ session'[s].en1 = session[s].en1 /\ session'[s].auth = session[s].auth
         /\ session'[s].told = session[s].told
         /\ credits' = credits /\ budget' = b
<1>. DEFINE t == [session[s] EXCEPT !.shares = Tally(@, FALSE), !.sub = NoSub, !.job = 0,
                     !.pc = IF ShouldBan(session[s].shares, FALSE) THEN "banned" ELSE "idle"]
<1>1. session' = [session EXCEPT ![s] = t] /\ credits' = credits /\ budget' = b
  BY DEF Blame
<1>2. session[s] \in SessionRecord /\ session \in [Sessions -> SessionRecord]
  BY DEF TypeInv
<1>3. Tally(session[s].shares, FALSE) \in Counts
  BY <1>2, TallyType DEF SessionRecord
<1>4. /\ t \in SessionRecord /\ t.pc \in {"idle", "banned"}
      /\ t.en1 = session[s].en1 /\ t.auth = session[s].auth /\ t.told = session[s].told
  BY <1>2, <1>3 DEF SessionRecord
<1>. HIDE DEF t
<1>. QED
  BY <1>1, <1>2, <1>4 DEF Others

LEMMA RewardFacts ==
  ASSUME TypeInv, NEW s \in Sessions, NEW p \in BOOLEAN, Reward(s, p), session[s].pc = "registered"
  PROVE  /\ session' \in [Sessions -> SessionRecord] /\ Others(s)
         /\ session'[s].pc \in {"idle", "work"}
         /\ session'[s].en1 = session[s].en1 /\ session'[s].auth = session[s].auth
         /\ session'[s].told = session[s].told
         /\ credits' = Append(credits, [session |-> s, job |-> session[s].job,
                                prefix |-> session[s].sub.prefix, nonce |-> session[s].sub.nonce,
                                diff |-> CreditedDiff(s, ReportedDiff(session[s].sub)), payable |-> p])
         /\ credits' \in Seq(Credit)
         /\ budget' \in BudgetRecord /\ budget'.events = budget.events
<1>1. PICK next \in Diffs \union {session[s].cur} :
        /\ next # session[s].cur => budget.retargets > 0
        /\ budget' = IF next # session[s].cur THEN Spend("retargets") ELSE budget
        /\ session' = [session EXCEPT ![s].pc = IF next # session[s].cur THEN "work" ELSE "idle",
                              ![s].sub = NoSub, ![s].job = 0,
                              ![s].shares = Tally(@, TRUE), ![s].cur = next,
                              ![s].prev = IF next # session[s].cur THEN session[s].cur ELSE @]
  BY DEF Reward
<1>. DEFINE t == [session[s] EXCEPT !.pc = IF next # session[s].cur THEN "work" ELSE "idle",
                              !.sub = NoSub, !.job = 0,
                              !.shares = Tally(@, TRUE), !.cur = next,
                              !.prev = IF next # session[s].cur THEN session[s].cur ELSE @]
            c == [session |-> s, job |-> session[s].job,
                                prefix |-> session[s].sub.prefix, nonce |-> session[s].sub.nonce,
                                diff |-> CreditedDiff(s, ReportedDiff(session[s].sub)), payable |-> p]
<1>2. session[s] \in SessionRecord /\ session \in [Sessions -> SessionRecord] /\ budget \in BudgetRecord
  BY DEF TypeInv
<1>3. Tally(session[s].shares, TRUE) \in Counts
  BY <1>2, TallyType DEF SessionRecord
<1>4. session' = [session EXCEPT ![s] = t]
  BY <1>1, <1>2
<1>5. next \in Nat
  BY <1>2, EngineDiffs DEF SessionRecord
<1>6. /\ t \in SessionRecord /\ t.pc \in {"idle", "work"}
      /\ t.en1 = session[s].en1 /\ t.auth = session[s].auth /\ t.told = session[s].told
  BY <1>2, <1>3, <1>5 DEF SessionRecord
<1>7. credits' = Append(credits, c)
  BY DEF Reward
<1>8. session[s].sub \in Submission /\ session[s].job \in DOMAIN jobs
  BY DEF TypeInv, Pending
<1>9. CreditedDiff(s, ReportedDiff(session[s].sub)) \in Nat
  BY <1>2 DEF CreditedDiff, SessionRecord
<1>10. c \in Credit
  BY <1>2, <1>8, <1>9 DEF SessionRecord, Submission, Credit
<1>11. budget' \in BudgetRecord /\ budget'.events = budget.events
  BY <1>1, <1>2, SpendType
<1>. HIDE DEF t, c
<1>12. session' \in [Sessions -> SessionRecord] /\ Others(s) /\ session'[s] = t
  BY <1>2, <1>4, <1>6 DEF Others
<1>13. Append(credits, c) \in Seq(Credit)
  BY <1>10 DEF TypeInv
<1>. QED
  BY <1>6, <1>7, <1>11, <1>12, <1>13 DEF c

(* Jobs are never changed but for the nonces seen on them, nor lost. *)
JobsKept ==
  /\ jobs' \in Seq(JobRecord) /\ DOMAIN jobs \subseteq DOMAIN jobs'
  /\ \A j \in DOMAIN jobs : /\ jobs'[j].template = jobs[j].template /\ jobs'[j].salt = jobs[j].salt
                            /\ jobs'[j].id = jobs[j].id /\ jobs[j].seen \subseteq jobs'[j].seen

BudgetFine == budget' \in BudgetRecord /\ budget'.events = budget.events

(* The session itself is about to send the current work. *)
Served(s) == session[s].pc = "work" \/ (session[s].pc = "send" /\ session[s].held = cur)

(* A step of the session never leaves its miner late. *)
Prompt(s) ==
  engine # "cryptonote" /\ cur # {} /\ session'[s].auth /\ ~session'[s].told =>
    \/ Served(s)'
    \/ session[s].auth /\ ~session[s].told /\ ~Served(s)

(* A step of a session: it leaves the other sessions and the work alone,    *)
(* takes a fresh prefix or none, and never makes an authorized miner late.  *)
SessionFine(s) ==
  /\ session' \in [Sessions -> SessionRecord] /\ Others(s)
  /\ session'[s].pc \in {"found", "registered"} => session'[s].sub \in Submission /\ session'[s].job \in DOMAIN jobs
  /\ Prompt(s)
  /\ \/ enCounter' = enCounter /\ session'[s].en1 = session[s].en1
     \/ enCounter' = enCounter + 1 /\ session'[s].en1 = NextPrefix
  /\ JobsKept /\ Len(jobs') = Len(jobs) /\ credits' \in Seq(Credit) /\ BudgetFine
  /\ UNCHANGED <<engine, node, stream, cur, history, jobCounter, source>>

(* All its steps but Register and Judge leave the jobs and the credits too, *)
(* as does a miner that stops reading at any moment.                        *)
Calm(s) == session'[s].pc # "registered" /\ jobs' = jobs /\ credits' = credits

Deafens(s) ==
  /\ jobs' = jobs /\ credits' = credits
  /\ session'[s].pc = session[s].pc /\ session'[s].sub = session[s].sub /\ session'[s].job = session[s].job

LEMMA WorkNumbers ==
  ASSUME TypeInv
  PROVE  cur \subseteq Nat
  BY DEF TypeInv

LEMMA SameJobs ==
  ASSUME TypeInv, jobs' = jobs
  PROVE  JobsKept /\ Len(jobs') = Len(jobs)
  BY DEF TypeInv, JobsKept

LEMMA SubscribeFine ==
  ASSUME TypeInv, NEW s \in Sessions, Subscribe(s)
  PROVE  SessionFine(s) /\ Calm(s)
<1>. DEFINE t == [session[s] EXCEPT !.en1 = NextPrefix]
<1>1. /\ session' = [session EXCEPT ![s] = t] /\ session[s].pc = "idle"
      /\ enCounter' = enCounter + 1 /\ budget' = Spend("subscribes") /\ budget.subscribes > 0
      /\ UNCHANGED <<engine, node, stream, engineVars, source, credits>>
  BY DEF Subscribe, Idle
<1>2. session[s] \in SessionRecord /\ session \in [Sessions -> SessionRecord]
  BY DEF TypeInv
<1>3. NextPrefix \in 0..PrefixSpace
  BY PrefixType DEF TypeInv
<1>4. /\ t \in SessionRecord /\ t.pc = "idle" /\ t.en1 = NextPrefix
      /\ t.auth = session[s].auth /\ t.told = session[s].told
  BY <1>1, <1>2, <1>3 DEF SessionRecord
<1>. HIDE DEF t
<1>5. session' \in [Sessions -> SessionRecord] /\ Others(s) /\ session'[s] = t
  BY <1>1, <1>2, <1>4 DEF Others
<1>6. BudgetFine
  BY <1>1, SpendType DEF TypeInv, BudgetFine
<1>7. UNCHANGED <<jobs, cur, history, jobCounter, credits>> /\ credits' \in Seq(Credit)
  BY <1>1 DEF engineVars, TypeInv
<1>. QED
  BY <1>1, <1>4, <1>5, <1>6, <1>7, SameJobs DEF SessionFine, Calm, Prompt, Served

LEMMA AuthorizeFine ==
  ASSUME TypeInv, NEW s \in Sessions, Authorize(s)
  PROVE  SessionFine(s) /\ Calm(s)
<1>. DEFINE fresh == session[s].en1 = NoPrefix /\ Work.prefixed
            t == [session[s] EXCEPT !.auth = TRUE, !.cur = StartingDiff(s), !.pc = "work",
                                    !.en1 = IF fresh THEN NextPrefix ELSE @]
<1>1. /\ session' = [session EXCEPT ![s] = t] /\ session[s].pc = "idle"
      /\ enCounter' = (IF fresh THEN enCounter + 1 ELSE enCounter)
      /\ budget.subscribes > 0 /\ budget' = Spend("subscribes")
      /\ UNCHANGED <<engine, node, stream, engineVars, source, credits>>
  BY DEF Authorize, Idle
<1>2. session[s] \in SessionRecord /\ session \in [Sessions -> SessionRecord]
  BY DEF TypeInv
<1>3. NextPrefix \in 0..PrefixSpace
  BY PrefixType DEF TypeInv
<1>. HIDE DEF fresh
<1>4. StartingDiff(s) \in Nat
  BY <1>2, EngineDiffs DEF StartingDiff, SessionRecord
<1>5. /\ t \in SessionRecord /\ t.pc = "work"
      /\ t.en1 = (IF fresh THEN NextPrefix ELSE session[s].en1)
  BY <1>1, <1>2, <1>3, <1>4 DEF SessionRecord
<1>. HIDE DEF t
<1>6. session' \in [Sessions -> SessionRecord] /\ Others(s) /\ session'[s] = t
  BY <1>1, <1>2, <1>5 DEF Others
<1>7. BudgetFine
  BY <1>1, SpendType DEF TypeInv, BudgetFine
<1>8. UNCHANGED <<jobs, cur, history, jobCounter, credits>> /\ credits' \in Seq(Credit)
  BY <1>1 DEF engineVars, TypeInv
<1>. QED
  BY <1>1, <1>5, <1>6, <1>7, <1>8, SameJobs DEF SessionFine, Calm, Prompt, Served

LEMMA LoginFine ==
  ASSUME TypeInv, NEW s \in Sessions, Login(s)
  PROVE  SessionFine(s) /\ Calm(s)
<1>1. PICK t : /\ session' = [session EXCEPT ![s] = t]
               /\ t \in {[session[s] EXCEPT !.pc = "login", !.held = cur],
                         [session[s] EXCEPT !.pc = "send", !.auth = TRUE, !.cur = StartingDiff(s)]}
  BY ZenonT(60) DEF Login
<1>2. session[s] \in SessionRecord /\ session \in [Sessions -> SessionRecord]
  BY DEF TypeInv
<1>3. StartingDiff(s) \in Nat
  BY <1>2, EngineDiffs DEF StartingDiff, SessionRecord
<1>4. t \in SessionRecord /\ t.pc \in {"login", "send"} /\ t.en1 = session[s].en1
  BY <1>1, <1>2, <1>3, WorkNumbers DEF SessionRecord
<1>5. session' \in [Sessions -> SessionRecord] /\ Others(s) /\ session'[s] = t
  BY <1>1, <1>2, <1>4 DEF Others
<1>6. /\ engine = "cryptonote"
      /\ UNCHANGED <<jobs, cur, history, jobCounter, credits, engine, node, stream, source, enCounter>>
  BY DEF Login, engineVars
<1>7. BudgetFine /\ credits' \in Seq(Credit)
  BY <1>6, SpendType DEF BudgetFine, TypeInv, Login
<1>. QED
  BY <1>4, <1>5, <1>6, <1>7, SameJobs DEF SessionFine, Calm, Prompt, Served

LEMMA GetJobFine ==
  ASSUME TypeInv, NEW s \in Sessions, GetJob(s)
  PROVE  SessionFine(s) /\ Calm(s)
<1>. DEFINE t == [session[s] EXCEPT !.pc = "work"]
<1>1. /\ session' = [session EXCEPT ![s] = t] /\ budget.subscribes > 0 /\ budget' = Spend("subscribes")
      /\ UNCHANGED <<jobs, cur, history, jobCounter, credits, engine, node, stream, source, enCounter>>
  BY DEF GetJob, engineVars
<1>2. session[s] \in SessionRecord /\ session \in [Sessions -> SessionRecord]
  BY DEF TypeInv
<1>3. t \in SessionRecord /\ t.pc = "work" /\ t.en1 = session[s].en1
  BY <1>1, <1>2 DEF SessionRecord
<1>. HIDE DEF t
<1>4. session' \in [Sessions -> SessionRecord] /\ Others(s) /\ session'[s] = t
  BY <1>1, <1>2, <1>3 DEF Others
<1>5. BudgetFine /\ credits' \in Seq(Credit)
  BY <1>1, SpendType DEF BudgetFine, TypeInv
<1>. QED
  BY <1>1, <1>3, <1>4, <1>5, SameJobs DEF SessionFine, Calm, Prompt, Served

LEMMA ReadWorkFine ==
  ASSUME TypeInv, NEW s \in Sessions, ReadWork(s)
  PROVE  SessionFine(s) /\ Calm(s)
<1>. DEFINE t == [session[s] EXCEPT !.pc = IF cur = {} THEN "idle" ELSE "send", !.held = cur]
<1>1. /\ session' = [session EXCEPT ![s] = t]
      /\ UNCHANGED <<jobs, cur, history, jobCounter, credits, engine, node, stream, source, enCounter, budget>>
  BY DEF ReadWork, engineVars
<1>2. session[s] \in SessionRecord /\ session \in [Sessions -> SessionRecord]
  BY DEF TypeInv
<1>3. /\ t \in SessionRecord /\ t.pc \in {"idle", "send"} /\ t.en1 = session[s].en1
      /\ t.held = cur /\ (cur # {} => t.pc = "send")
  BY <1>2, WorkNumbers DEF SessionRecord
<1>. HIDE DEF t
<1>4. session' \in [Sessions -> SessionRecord] /\ Others(s) /\ session'[s] = t
  BY <1>1, <1>2, <1>3 DEF Others
<1>5. BudgetFine /\ credits' \in Seq(Credit)
  BY <1>1 DEF BudgetFine, TypeInv
<1>. QED
  BY <1>1, <1>3, <1>4, <1>5, SameJobs DEF SessionFine, Calm, Prompt, Served

LEMMA SendWorkFine ==
  ASSUME TypeInv, NEW s \in Sessions, SendWork(s)
  PROVE  SessionFine(s) /\ Calm(s)
<1>. DEFINE t == [session[s] EXCEPT !.pc = "idle", !.held = {}, !.told = @ \/ session[s].held = cur]
<1>1. /\ session' = [session EXCEPT ![s] = t] /\ session[s].pc = "send"
      /\ UNCHANGED <<jobs, cur, history, jobCounter, credits, engine, node, stream, source, enCounter, budget>>
  BY DEF SendWork, engineVars
<1>2. session[s] \in SessionRecord /\ session \in [Sessions -> SessionRecord]
  BY DEF TypeInv
<1>3. /\ t \in SessionRecord /\ t.pc = "idle" /\ t.en1 = session[s].en1 /\ t.auth = session[s].auth
      /\ t.told = (session[s].told \/ session[s].held = cur)
  BY <1>2 DEF SessionRecord
<1>. HIDE DEF t
<1>4. session' \in [Sessions -> SessionRecord] /\ Others(s) /\ session'[s] = t
  BY <1>1, <1>2, <1>3 DEF Others
<1>5. BudgetFine /\ credits' \in Seq(Credit)
  BY <1>1 DEF BudgetFine, TypeInv
<1>6. Prompt(s)
  BY <1>1, <1>3, <1>4 DEF Prompt, Served
<1>. QED
  BY <1>1, <1>3, <1>4, <1>5, <1>6, SameJobs DEF SessionFine, Calm

LEMMA StopReadingFine ==
  ASSUME TypeInv, NEW s \in Sessions, StopReading(s)
  PROVE  SessionFine(s) /\ (Calm(s) \/ Deafens(s))
<1>. DEFINE t == [session[s] EXCEPT !.reads = FALSE]
<1>1. /\ session' = [session EXCEPT ![s] = t] /\ budget.stalls > 0 /\ budget' = Spend("stalls")
      /\ UNCHANGED <<jobs, cur, history, jobCounter, credits, engine, node, stream, source, enCounter>>
  BY DEF StopReading, engineVars
<1>2. session[s] \in SessionRecord /\ session \in [Sessions -> SessionRecord]
  BY DEF TypeInv
<1>3. /\ t \in SessionRecord /\ t.pc = session[s].pc /\ t.en1 = session[s].en1 /\ t.auth = session[s].auth
      /\ t.told = session[s].told /\ t.held = session[s].held
      /\ t.sub = session[s].sub /\ t.job = session[s].job
  BY <1>2 DEF SessionRecord
<1>. HIDE DEF t
<1>4. session' \in [Sessions -> SessionRecord] /\ Others(s) /\ session'[s] = t
  BY <1>1, <1>2, <1>3 DEF Others
<1>5. BudgetFine /\ credits' \in Seq(Credit)
  BY <1>1, SpendType DEF BudgetFine, TypeInv
<1>6. Prompt(s)
  BY <1>1, <1>3, <1>4 DEF Prompt, Served
<1>7. Deafens(s)
  BY <1>1, <1>3, <1>4 DEF Deafens
<1>8. session'[s].pc \in {"found", "registered"} => session'[s].sub \in Submission /\ session'[s].job \in DOMAIN jobs
  BY <1>3, <1>4 DEF TypeInv, Pending
<1>. QED
  BY <1>1, <1>3, <1>4, <1>5, <1>6, <1>7, <1>8, SameJobs DEF SessionFine

LEMMA SubmitUnauthorizedFine ==
  ASSUME TypeInv, NEW s \in Sessions, SubmitUnauthorized(s)
  PROVE  SessionFine(s) /\ Calm(s)
<1>1. /\ Blame(s, Spend("submits")) /\ budget.submits > 0 /\ session[s].pc = "idle"
      /\ UNCHANGED <<jobs, cur, history, jobCounter, engine, node, stream, source, enCounter>>
  BY DEF SubmitUnauthorized, Idle, engineVars
<1>2. BudgetFine /\ credits' \in Seq(Credit)
  BY <1>1, BlameFacts, SpendType DEF BudgetFine, TypeInv
<1>. QED
  BY <1>1, <1>2, BlameFacts, SameJobs DEF SessionFine, Calm, Prompt, Served

LEMMA SubmitFine ==
  ASSUME TypeInv, NEW s \in Sessions, Submit(s)
  PROVE  SessionFine(s) /\ Calm(s)
<1>1. PICK sub \in Submissions(s) :
        \/ Blame(s, Spend("submits"))
        \/ /\ \E j \in LookUp(sub) :
                session' = [session EXCEPT ![s].pc = "found", ![s].sub = sub, ![s].job = j]
           /\ budget' = Spend("submits") /\ UNCHANGED credits
  BY DEF Submit
<1>2. /\ budget.submits > 0 /\ session[s].pc = "idle"
      /\ UNCHANGED <<jobs, cur, history, jobCounter, engine, node, stream, source, enCounter>>
  BY DEF Submit, Idle, engineVars
<1>3. CASE Blame(s, Spend("submits"))
  <2>1. BudgetFine /\ credits' \in Seq(Credit)
    BY <1>2, <1>3, BlameFacts, SpendType DEF BudgetFine, TypeInv
  <2>. QED
    BY <1>2, <1>3, <2>1, BlameFacts, SameJobs DEF SessionFine, Calm, Prompt, Served
<1>4. CASE /\ \E j \in LookUp(sub) :
                session' = [session EXCEPT ![s].pc = "found", ![s].sub = sub, ![s].job = j]
           /\ budget' = Spend("submits") /\ UNCHANGED credits
  <2>1. PICK j \in LookUp(sub) : session' = [session EXCEPT ![s].pc = "found", ![s].sub = sub, ![s].job = j]
    BY <1>4
  <2>. DEFINE t == [session[s] EXCEPT !.pc = "found", !.sub = sub, !.job = j]
  <2>2. session[s] \in SessionRecord /\ session \in [Sessions -> SessionRecord]
    BY DEF TypeInv
  <2>3. session' = [session EXCEPT ![s] = t]
    BY <2>1, <2>2
  <2>4. sub \in Submission
    BY SubmissionType
  <2>5. j \in DOMAIN jobs /\ j \in Nat
    <3>1. j \in history
      BY DEF LookUp
    <3>. QED
      BY <3>1 DEF TypeInv
  <2>6. /\ t \in SessionRecord /\ t.pc = "found" /\ t.sub = sub /\ t.job = j /\ t.en1 = session[s].en1
        /\ t.auth = session[s].auth /\ t.told = session[s].told
    BY <2>2, <2>4, <2>5 DEF SessionRecord
  <2>. HIDE DEF t
  <2>7. session' \in [Sessions -> SessionRecord] /\ Others(s) /\ session'[s] = t
    BY <2>2, <2>3, <2>6 DEF Others
  <2>8. BudgetFine /\ credits' \in Seq(Credit)
    BY <1>2, <1>4, SpendType DEF BudgetFine, TypeInv
  <2>. QED
    BY <1>2, <1>4, <2>4, <2>5, <2>6, <2>7, <2>8, SameJobs DEF SessionFine, Calm, Prompt, Served
<1>. QED
  BY <1>1, <1>3, <1>4

(* Register: refused, or on to the proof of work with the nonce on record. *)
Registers(s) ==
  /\ session[s].pc = "found" /\ KeyOf(s) \notin SeenBy(session[s].job)
  /\ engine # "ethash" => jobs' = [jobs EXCEPT ![session[s].job].seen = @ \union {KeyOf(s)}]
  /\ session'[s].sub = session[s].sub /\ session'[s].job = session[s].job
  /\ credits' = credits

LEMMA RegisterFine ==
  ASSUME TypeInv, NEW s \in Sessions, Register(s)
  PROVE  SessionFine(s) /\ (Calm(s) \/ Registers(s))
<1>. DEFINE j == session[s].job
<1>1. /\ session[s].pc = "found"
      /\ UNCHANGED <<cur, history, jobCounter, engine, node, stream, source, enCounter>>
      /\ session[s] \in SessionRecord /\ session \in [Sessions -> SessionRecord]
      /\ session[s].sub \in Submission /\ j \in DOMAIN jobs
      /\ KeyOf(s) \in Keys
  BY KeyType DEF Register, TypeInv, Pending, KeyOf
<1>2. CASE KeyOf(s) \in SeenBy(j)
  <2>1. Blame(s, budget) /\ jobs' = jobs
    BY <1>2 DEF Register
  <2>2. BudgetFine /\ credits' \in Seq(Credit)
    BY <2>1, BlameFacts DEF BudgetFine, TypeInv
  <2>. QED
    BY <1>1, <2>1, <2>2, BlameFacts, SameJobs DEF SessionFine, Calm, Prompt, Served
<1>3. CASE KeyOf(s) \notin SeenBy(j)
  <2>. DEFINE t == [session[s] EXCEPT !.pc = "registered"]
  <2>1. /\ session' = [session EXCEPT ![s] = t] /\ UNCHANGED <<credits, budget>>
        /\ engine = "ethash" => jobs' = jobs
        /\ engine # "ethash" => jobs' = [jobs EXCEPT ![j].seen = @ \union {KeyOf(s)}]
    BY <1>3 DEF Register
  <2>2. /\ t \in SessionRecord /\ t.sub = session[s].sub /\ t.job = j /\ t.en1 = session[s].en1
        /\ t.auth = session[s].auth /\ t.told = session[s].told
    BY <1>1 DEF SessionRecord
  <2>. HIDE DEF t
  <2>3. session' \in [Sessions -> SessionRecord] /\ Others(s) /\ session'[s] = t
    BY <1>1, <2>1, <2>2 DEF Others
  <2>4. BudgetFine /\ credits' \in Seq(Credit)
    BY <2>1 DEF BudgetFine, TypeInv
  <2>5. JobsKept /\ Len(jobs') = Len(jobs)
    <3>1. CASE engine = "ethash"
      BY <2>1, <3>1, SameJobs
    <3>2. CASE engine # "ethash"
      <4>. DEFINE r == [jobs[j] EXCEPT !.seen = @ \union {KeyOf(s)}]
      <4>1. jobs \in Seq(JobRecord) /\ jobs[j] \in JobRecord
        BY <1>1 DEF TypeInv
      <4>2. r \in JobRecord /\ r.template = jobs[j].template /\ r.salt = jobs[j].salt /\ jobs[j].seen \subseteq r.seen
            /\ r.id = jobs[j].id
        BY <1>1, <4>1 DEF JobRecord
      <4>3. jobs' = [jobs EXCEPT ![j] = r]
        BY <2>1, <3>2, <4>1
      <4>. HIDE DEF r
      <4>4. jobs' \in Seq(JobRecord) /\ Len(jobs') = Len(jobs) /\ DOMAIN jobs' = DOMAIN jobs
        BY <1>1, <4>1, <4>2, <4>3
      <4>5. \A i \in DOMAIN jobs : jobs'[i] = IF i = j THEN r ELSE jobs[i]
        BY <1>1, <4>1, <4>3
      <4>. QED
        BY <4>2, <4>4, <4>5 DEF JobsKept
    <3>. QED
      BY <3>1, <3>2
  <2>. QED
    BY <1>1, <1>3, <2>1, <2>2, <2>3, <2>4, <2>5 DEF SessionFine, Registers, Prompt, Served
<1>. QED
  BY <1>2, <1>3

(* Judge: refused, rewarded, or waiting for a daemon for ever. *)
Rewards(s) ==
  /\ session[s].pc = "registered" /\ session'[s].pc \in {"idle", "work"} /\ jobs' = jobs
  /\ \E p \in BOOLEAN :
       credits' = Append(credits, [session |-> s, job |-> session[s].job,
                                   prefix |-> session[s].sub.prefix, nonce |-> session[s].sub.nonce,
                                   diff |-> CreditedDiff(s, ReportedDiff(session[s].sub)), payable |-> p])
  /\ LET errors == OnSubmit(s, session[s].sub).after IN
     errors = <<>> \/ (errors[1] = "low" /\ MeetsPrevious(s, ReportedDiff(session[s].sub)))

LEMMA JudgeFine ==
  ASSUME TypeInv, NEW s \in Sessions, Judge(s)
  PROVE  SessionFine(s) /\ (Calm(s) \/ Rewards(s))
<1>. DEFINE errors == OnSubmit(s, session[s].sub).after
            block  == errors = <<>> /\ ReportedDiff(session[s].sub) >= NetDiff
            refuse == errors # <<>> /\ ~(errors[1] = "low" /\ MeetsPrevious(s, ReportedDiff(session[s].sub)))
<1>1. /\ session[s].pc = "registered"
      /\ UNCHANGED <<jobs, cur, history, jobCounter, engine, node, stream, source, enCounter>>
  BY DEF Judge, engineVars
<1>2. session[s] \in SessionRecord /\ session \in [Sessions -> SessionRecord]
  BY DEF TypeInv
<1>3. \/ Blame(s, budget)
      \/ ~refuse /\ \E accepted \in (IF block /\ Payable THEN BOOLEAN ELSE {FALSE}) : Reward(s, accepted)
      \/ session' = [session EXCEPT ![s].pc = "waiting"] /\ UNCHANGED <<credits, budget>>
  BY DEF Judge
<1>4. CASE Blame(s, budget)
  <2>1. BudgetFine /\ credits' \in Seq(Credit)
    BY <1>4, BlameFacts DEF BudgetFine, TypeInv
  <2>. QED
    BY <1>1, <1>4, <2>1, BlameFacts, SameJobs DEF SessionFine, Calm, Prompt, Served
<1>5. CASE ~refuse /\ \E accepted \in (IF block /\ Payable THEN BOOLEAN ELSE {FALSE}) : Reward(s, accepted)
  <2>1. PICK p \in BOOLEAN : Reward(s, p)
    BY <1>5
  <2>2. errors = <<>> \/ (errors[1] = "low" /\ MeetsPrevious(s, ReportedDiff(session[s].sub)))
    BY <1>5
  <2>. HIDE DEF errors, block, refuse
  <2>3. Rewards(s)
    BY <1>1, <2>1, <2>2, RewardFacts DEF Rewards, errors
  <2>. QED
    BY <1>1, <2>1, <2>3, RewardFacts, SameJobs DEF SessionFine, BudgetFine, Prompt, Served
<1>6. CASE session' = [session EXCEPT ![s].pc = "waiting"] /\ UNCHANGED <<credits, budget>>
  <2>. HIDE DEF errors, block, refuse
  <2>. DEFINE t == [session[s] EXCEPT !.pc = "waiting"]
  <2>1. /\ t \in SessionRecord /\ t.pc = "waiting" /\ t.en1 = session[s].en1
        /\ t.auth = session[s].auth /\ t.told = session[s].told /\ session' = [session EXCEPT ![s] = t]
    BY <1>2, <1>6 DEF SessionRecord
  <2>. HIDE DEF t
  <2>2. session' \in [Sessions -> SessionRecord] /\ Others(s) /\ session'[s] = t
    BY <1>2, <2>1 DEF Others
  <2>3. BudgetFine /\ credits' \in Seq(Credit)
    BY <1>6 DEF BudgetFine, TypeInv
  <2>. QED
    BY <1>1, <1>6, <2>1, <2>2, <2>3, SameJobs DEF SessionFine, Calm, Prompt, Served
<1>. QED
  BY <1>3, <1>4, <1>5, <1>6

LEMMA SessionStepFine ==
  ASSUME TypeInv, NEW s \in Sessions, SessionStep(s)
  PROVE  SessionFine(s) /\ (Calm(s) \/ Deafens(s) \/ Registers(s) \/ Rewards(s))
  BY SubscribeFine, AuthorizeFine, LoginFine, ReadWorkFine, SendWorkFine, StopReadingFine, GetJobFine,
     SubmitUnauthorizedFine, SubmitFine, RegisterFine, JudgeFine DEF SessionStep
-----------------------------------------------------------------------------
(* A step of the work side: of the sessions it changes only whether they    *)
(* know the current work, and whoever is made late is on a list of those    *)
(* still to be told.                                                        *)
Awaits(r, s, work) == r.pc = "emit" /\ s \in r.left /\ (s \in r.at => r.held = work)

Awaited(s) == \E w \in Sources : Awaits(source[w], s, cur)

LateFine(s) ==
  cur' # {} /\ session'[s].auth /\ ~session'[s].told =>
    \/ Awaited(s)'
    \/ /\ cur # {} /\ session[s].auth /\ ~session[s].told
       /\ Awaited(s) => Awaited(s)'
       /\ Served(s) => Served(s)'

SameSession(s) ==
  /\ session'[s].pc = session[s].pc /\ session'[s].auth = session[s].auth /\ session'[s].en1 = session[s].en1
  /\ session'[s].sub = session[s].sub /\ session'[s].job = session[s].job

HistoryFine == cur' \subseteq DOMAIN jobs' /\ history' \subseteq DOMAIN jobs'

WorkFine ==
  /\ session' \in [Sessions -> SessionRecord] /\ source' \in [Sources -> SourceRecord]
  /\ \A s \in Sessions : SameSession(s) /\ LateFine(s)
  /\ JobsKept /\ HistoryFine /\ BudgetFine
  /\ node' \in Templates /\ stream' \in {"up", "down", "backoff"} /\ jobCounter' \in Nat
  /\ UNCHANGED <<engine, enCounter, credits>>

LEMMA SameSessions ==
  ASSUME TypeInv, session' = session
  PROVE  /\ session' \in [Sessions -> SessionRecord]
         /\ \A s \in Sessions : SameSession(s)
  BY DEF TypeInv, SameSession

LEMMA SameHistory ==
  ASSUME TypeInv, UNCHANGED <<jobs, cur, history>>
  PROVE  HistoryFine
  BY DEF TypeInv, HistoryFine

(* A source that has nothing to send keeps nobody waiting. *)
LEMMA OtherSource ==
  ASSUME NEW w \in Sources, source[w].pc # "emit", UNCHANGED <<session, cur>>,
         \A v \in Sources : v # w => source'[v] = source[v]
  PROVE  \A s \in Sessions : LateFine(s)
  BY DEF LateFine, Awaited, Awaits, Served

LEMMA FetchFine ==
  ASSUME TypeInv, NEW w \in Sources, Fetch(w)
  PROVE  WorkFine
<1>. DEFINE r == [source[w] EXCEPT !.pc = "fetched", !.template = node]
<1>1. /\ source[w].pc = "idle"
      /\ UNCHANGED <<engine, node, stream, jobs, cur, history, jobCounter, enCounter, session, credits>>
  BY DEF Fetch, engineVars
<1>2. BudgetFine
  BY SpendType DEF Fetch, TypeInv, BudgetFine
<1>3. /\ source \in [Sources -> SourceRecord] /\ source[w] \in SourceRecord
      /\ node \in Templates /\ stream \in {"up", "down", "backoff"} /\ jobCounter \in Nat
  BY DEF TypeInv
<1>4. source' = [source EXCEPT ![w] = r]
  BY <1>3 DEF Fetch
<1>5. r \in SourceRecord
  BY <1>3 DEF SourceRecord
<1>. HIDE DEF r
<1>6. source' \in [Sources -> SourceRecord] /\ \A v \in Sources : v # w => source'[v] = source[v]
  BY <1>3, <1>4, <1>5
<1>7. \A s \in Sessions : LateFine(s)
  BY <1>1, <1>6, OtherSource
<1>. QED
  BY <1>1, <1>2, <1>3, <1>6, <1>7, SameSessions, SameHistory, SameJobs DEF WorkFine

LEMMA FetchHangsFine ==
  ASSUME TypeInv, NEW w \in Sources, FetchHangs(w)
  PROVE  WorkFine
<1>. DEFINE r == [source[w] EXCEPT !.pc = "hung"]
<1>1. /\ source[w].pc = "idle" /\ budget.stalls > 0 /\ budget' = Spend("stalls")
      /\ UNCHANGED <<engine, node, stream, jobs, cur, history, jobCounter, enCounter, session, credits>>
  BY DEF FetchHangs, engineVars
<1>2. BudgetFine
  BY <1>1, SpendType DEF TypeInv, BudgetFine
<1>3. /\ source \in [Sources -> SourceRecord] /\ source[w] \in SourceRecord
      /\ node \in Templates /\ stream \in {"up", "down", "backoff"} /\ jobCounter \in Nat
  BY DEF TypeInv
<1>4. source' = [source EXCEPT ![w] = r]
  BY <1>3 DEF FetchHangs
<1>5. r \in SourceRecord
  BY <1>3 DEF SourceRecord
<1>. HIDE DEF r
<1>6. source' \in [Sources -> SourceRecord] /\ \A v \in Sources : v # w => source'[v] = source[v]
  BY <1>3, <1>4, <1>5
<1>7. \A s \in Sessions : LateFine(s)
  BY <1>1, <1>6, OtherSource
<1>. QED
  BY <1>1, <1>2, <1>3, <1>6, <1>7, SameSessions, SameHistory, SameJobs DEF WorkFine

LEMMA AcceptFine ==
  ASSUME TypeInv, NEW w \in Sources, Accept(w)
  PROVE  WorkFine
<1>1. /\ source[w].pc = "fetched" /\ jobCounter \in Nat /\ jobCounter' \in Nat
      /\ UNCHANGED <<engine, node, stream, jobs, cur, history, enCounter, session, credits, budget>>
  BY DEF Accept, TypeInv
<1>2. /\ source \in [Sources -> SourceRecord] /\ source[w] \in SourceRecord
      /\ node \in Templates /\ stream \in {"up", "down", "backoff"} /\ BudgetFine
  BY <1>1 DEF TypeInv, BudgetFine
<1>3. IdleSource \in SourceRecord
  BY DEF IdleSource, SourceRecord, Templates
<1>4. [source[w] EXCEPT !.pc = "accepted", !.id = jobCounter + 1] \in SourceRecord
  <2>1. jobCounter + 1 \in Nat /\ source[w] \in SourceRecord
    BY <1>1, <1>2
  <2>. QED
    BY <2>1 DEF SourceRecord
<1>5. \E r \in SourceRecord : source' = [source EXCEPT ![w] = r]
  BY <1>2, <1>3, <1>4 DEF Accept
<1>6. source' \in [Sources -> SourceRecord] /\ \A v \in Sources : v # w => source'[v] = source[v]
  BY <1>2, <1>5
<1>7. \A s \in Sessions : LateFine(s)
  BY <1>1, <1>6, OtherSource
<1>. QED
  BY <1>1, <1>2, <1>6, <1>7, SameSessions, SameHistory, SameJobs DEF WorkFine

(* Both ways to new work: the jobs are installed and all are to be told. *)
LEMMA InstallFine ==
  ASSUME TypeInv, NEW w \in Sources, NEW batch \in Seq(JobRecord), Install(batch),
         source' = [source EXCEPT ![w] = Broadcasting],
         BudgetFine, jobCounter' \in Nat, UNCHANGED <<engine, node, stream, enCounter, credits>>
  PROVE  WorkFine
<1>1. source \in [Sources -> SourceRecord]
  BY DEF TypeInv
<1>2. /\ Broadcasting \in SourceRecord /\ Broadcasting.pc = "emit" /\ Broadcasting.left = Sessions
      /\ Broadcasting.at = {}
  BY DEF Broadcasting, IdleSource, SourceRecord, Templates
<1>3. source' \in [Sources -> SourceRecord] /\ source'[w] = Broadcasting
  BY <1>1, <1>2
<1>4. \A s \in Sessions : LateFine(s)
  BY <1>2, <1>3 DEF LateFine, Awaited, Awaits
<1>5. HistoryFine /\ JobsKept
  BY InstallFacts DEF HistoryFine, JobsKept
<1>6. \A s \in Sessions : SameSession(s)
  <2>. SUFFICES ASSUME NEW s \in Sessions PROVE SameSession(s)
    OBVIOUS
  <2>1. session[s] \in SessionRecord
    BY DEF TypeInv
  <2>2. session'[s] = [session[s] EXCEPT !.told = FALSE]
    BY InstallFacts
  <2>. QED
    BY <2>1, <2>2 DEF SameSession, SessionRecord
<1>7. node \in Templates /\ stream \in {"up", "down", "backoff"}
  BY DEF TypeInv
<1>. QED
  BY <1>3, <1>4, <1>5, <1>6, <1>7, InstallFacts DEF WorkFine

LEMMA AcceptTemplateFine ==
  ASSUME TypeInv, NEW w \in Sources, AcceptTemplate(w)
  PROVE  WorkFine
<1>. DEFINE job == MakeJob(source[w].template, source[w].id, jobCounter)
<1>1. source[w] \in SourceRecord /\ jobCounter \in Nat
  BY DEF TypeInv
<1>2. job \in JobRecord
  BY <1>1, MakeJobType DEF SourceRecord
<1>3. Install(<<job>>)
  BY DEF AcceptTemplate
<1>4. /\ source' = [source EXCEPT ![w] = Broadcasting]
      /\ UNCHANGED <<engine, node, stream, jobCounter, enCounter, credits, budget>>
  BY DEF AcceptTemplate
<1>. HIDE DEF job
<1>5. <<job>> \in Seq(JobRecord)
  BY <1>2
<1>6. BudgetFine
  BY <1>4 DEF BudgetFine, TypeInv
<1>. QED
  BY <1>1, <1>3, <1>4, <1>5, <1>6, InstallFine

LEMMA NodePushFine ==
  ASSUME TypeInv, NodePush
  PROVE  WorkFine
<1>. DEFINE size  == IF engine = "alephium" THEN Chains ELSE 1
            batch == [b \in 1..size |-> MakeJob(node, jobCounter + b, 0)]
<1>1. /\ budget.pushes > 0 /\ budget' = Spend("pushes") /\ jobCounter' = jobCounter + size /\ Install(batch)
      /\ source' = [source EXCEPT !["stream"] = Broadcasting]
      /\ UNCHANGED <<engine, node, stream, enCounter, credits>>
  BY DEF NodePush
<1>2. size \in Nat /\ jobCounter \in Nat /\ node \in Templates
  BY EngineSizes DEF TypeInv
<1>. HIDE DEF size
<1>3. \A b \in 1..size : MakeJob(node, jobCounter + b, 0) \in JobRecord
  BY <1>2, MakeJobType
<1>4. batch \in Seq(JobRecord)
  BY <1>2, <1>3
<1>. HIDE DEF batch
<1>5. BudgetFine
  BY <1>1, SpendType DEF BudgetFine, TypeInv
<1>6. jobCounter' \in Nat /\ "stream" \in Sources
  BY <1>1, <1>2 DEF Sources
<1>. QED
  BY <1>1, <1>4, <1>5, <1>6, InstallFine

LEMMA TurnOverType ==
  ASSUME TypeInv, NEW w \in Sources, NEW s \in Sessions, source[w].pc = "emit"
  PROVE  /\ TurnOver(w, s) \in SourceRecord /\ TurnOver(w, s).pc \in {"idle", "emit"}
         /\ \A x \in Sessions : x # s /\ x \in source[w].left => \A work : Awaits(TurnOver(w, s), x, work)
<1>1. source[w] \in SourceRecord
  BY DEF TypeInv
<1>2. IdleSource \in SourceRecord /\ IdleSource.pc = "idle"
  BY DEF IdleSource, SourceRecord, Templates
<1>. DEFINE r == [source[w] EXCEPT !.left = @ \ {s}, !.at = {}, !.held = {}]
<1>3. r \in SourceRecord /\ r.pc = "emit" /\ r.left = source[w].left \ {s} /\ r.at = {}
  BY <1>1 DEF SourceRecord
<1>4. TurnOver(w, s) = IF source[w].left = {s} THEN IdleSource ELSE r
  BY DEF TurnOver
<1>. HIDE DEF r
<1>. QED
  BY <1>2, <1>3, <1>4 DEF Awaits

LEMMA EmitFine ==
  ASSUME TypeInv, NEW w \in Sources, NEW s \in Sessions, Emit(w, s)
  PROVE  WorkFine
<1>1. /\ source[w].pc = "emit" /\ source[w].at = {} /\ s \in source[w].left
      /\ UNCHANGED <<engine, node, stream, jobs, cur, history, jobCounter, enCounter, session, credits, budget>>
  BY DEF Emit, engineVars
<1>2. /\ source \in [Sources -> SourceRecord] /\ source[w] \in SourceRecord
      /\ node \in Templates /\ stream \in {"up", "down", "backoff"} /\ BudgetFine /\ jobCounter' \in Nat
  BY <1>1 DEF TypeInv, BudgetFine
<1>. DEFINE a == [source[w] EXCEPT !.at = {s}, !.held = cur]
            r == IF session[s].auth THEN a ELSE TurnOver(w, s)
<1>3. source' = [source EXCEPT ![w] = r]
  BY <1>2 DEF Emit
<1>4. a \in SourceRecord /\ a.pc = "emit" /\ a.left = source[w].left /\ a.at = {s} /\ a.held = cur
  BY <1>1, <1>2, WorkNumbers DEF SourceRecord
<1>5. \A x \in Sessions : x \in source[w].left => Awaits(a, x, cur)
  BY <1>4 DEF Awaits
<1>. HIDE DEF a
<1>6. /\ r \in SourceRecord
      /\ \A x \in Sessions : x \in source[w].left /\ (x = s => session[s].auth) => Awaits(r, x, cur)
  BY <1>1, <1>4, <1>5, TurnOverType
<1>. HIDE DEF r
<1>7. /\ source' \in [Sources -> SourceRecord] /\ source'[w] = r
      /\ \A v \in Sources : v # w => source'[v] = source[v]
  BY <1>2, <1>3, <1>6
<1>8. \A x \in Sessions : LateFine(x)
  <2>. SUFFICES ASSUME NEW x \in Sessions, session[x].auth, Awaited(x) PROVE Awaited(x)'
    BY <1>1 DEF LateFine, Served
  <2>1. PICK v \in Sources : Awaits(source[v], x, cur)
    BY DEF Awaited
  <2>2. Awaits(source'[v], x, cur)
    BY <1>6, <1>7, <2>1 DEF Awaits
  <2>. QED
    BY <1>1, <2>2 DEF Awaited
<1>. QED
  BY <1>1, <1>2, <1>7, <1>8, SameSessions, SameHistory, SameJobs DEF WorkFine

LEMMA EmitSendFine ==
  ASSUME TypeInv, NEW w \in Sources, NEW s \in Sessions, EmitSend(w, s)
  PROVE  WorkFine
<1>1. /\ source[w].pc = "emit" /\ s \in source[w].at
      /\ UNCHANGED <<engine, node, stream, jobs, cur, history, jobCounter, enCounter, credits, budget>>
      /\ source' = [source EXCEPT ![w] = TurnOver(w, s)]
  BY DEF EmitSend, engineVars
<1>2. /\ source \in [Sources -> SourceRecord]
      /\ session \in [Sessions -> SessionRecord] /\ session[s] \in SessionRecord
      /\ node \in Templates /\ stream \in {"up", "down", "backoff"} /\ BudgetFine /\ jobCounter' \in Nat
  BY <1>1 DEF TypeInv, BudgetFine
<1>. DEFINE t == [session[s] EXCEPT !.told = @ \/ source[w].held = cur]
<1>3. session' = [session EXCEPT ![s] = t]
  BY <1>2 DEF EmitSend
<1>4. /\ t \in SessionRecord /\ t.told = (session[s].told \/ source[w].held = cur)
      /\ t.pc = session[s].pc /\ t.auth = session[s].auth /\ t.en1 = session[s].en1
      /\ t.sub = session[s].sub /\ t.job = session[s].job /\ t.held = session[s].held
  BY <1>2 DEF SessionRecord
<1>. HIDE DEF t
<1>5. /\ source' \in [Sources -> SourceRecord] /\ source'[w] = TurnOver(w, s)
      /\ \A v \in Sources : v # w => source'[v] = source[v]
  BY <1>1, <1>2, TurnOverType
<1>6. /\ session' \in [Sessions -> SessionRecord] /\ session'[s] = t
      /\ \A x \in Sessions : x # s => session'[x] = session[x]
  BY <1>2, <1>3, <1>4
<1>7. \A x \in Sessions : SameSession(x)
  BY <1>4, <1>6 DEF SameSession
<1>8. \A x \in Sessions : LateFine(x)
  <2>. SUFFICES ASSUME NEW x \in Sessions, session'[x].auth, ~session'[x].told
                PROVE  /\ session[x].auth /\ ~session[x].told
                       /\ Awaited(x) => Awaited(x)'
                       /\ Served(x) => Served(x)'
    BY <1>1 DEF LateFine
  <2>1. session[x].auth /\ ~session[x].told /\ (x = s => source[w].held # cur)
    BY <1>4, <1>6
  <2>2. Served(x) => Served(x)'
    BY <1>1, <1>4, <1>6 DEF Served
  <2>3. ASSUME Awaited(x) PROVE Awaited(x)'
    <3>1. PICK v \in Sources : Awaits(source[v], x, cur)
      BY <2>3 DEF Awaited
    <3>2. CASE v # w
      BY <1>1, <1>5, <3>1, <3>2 DEF Awaited
    <3>3. CASE v = w
      <4>1. x # s /\ x \in source[w].left
        BY <1>1, <2>1, <3>1, <3>3 DEF Awaits
      <4>2. Awaits(source'[w], x, cur)
        BY <1>1, <1>5, <4>1, TurnOverType
      <4>. QED
        BY <1>1, <4>2 DEF Awaited
    <3>. QED
      BY <3>2, <3>3
  <2>. QED
    BY <2>1, <2>2, <2>3
<1>. QED
  BY <1>1, <1>2, <1>5, <1>6, <1>7, <1>8, SameHistory, SameJobs DEF WorkFine

LEMMA NodeFine ==
  ASSUME TypeInv, StreamDrop \/ Reopen \/ NodeChange
  PROVE  WorkFine
<1>1. /\ UNCHANGED <<engine, jobs, cur, history, jobCounter, enCounter, source, session, credits>>
      /\ jobCounter \in Nat
  BY DEF TypeInv, StreamDrop, Reopen, NodeChange, engineVars
<1>2. node' \in Templates
  BY DEF StreamDrop, Reopen, NodeChange, TypeInv, Templates
<1>3. stream' \in {"up", "down", "backoff"}
  BY DEF StreamDrop, Reopen, NodeChange, TypeInv
<1>4. BudgetFine
  BY SpendType DEF StreamDrop, Reopen, NodeChange, TypeInv, BudgetFine
<1>5. \A s \in Sessions : LateFine(s)
  BY <1>1 DEF LateFine, Awaited, Awaits, Served
<1>6. source' \in [Sources -> SourceRecord]
  BY <1>1 DEF TypeInv
<1>. QED
  BY <1>1, <1>2, <1>3, <1>4, <1>5, <1>6, SameSessions, SameHistory, SameJobs DEF WorkFine

LEMMA StepFine ==
  ASSUME TypeInv, Next
  PROVE  \/ WorkFine
         \/ \E s \in Sessions : SessionFine(s) /\ (Calm(s) \/ Deafens(s) \/ Registers(s) \/ Rewards(s))
<1>1. CASE \E w \in Sources : SourceStep(w) \/ FetchHangs(w)
  BY <1>1, FetchFine, FetchHangsFine, AcceptFine, AcceptTemplateFine, EmitFine, EmitSendFine DEF SourceStep
<1>2. CASE NodePush \/ StreamDrop \/ Reopen \/ NodeChange
  BY <1>2, NodePushFine, NodeFine
<1>3. CASE \E s \in Sessions : SessionStep(s)
  BY <1>3, SessionStepFine
<1>. QED
  BY <1>1, <1>2, <1>3 DEF Next
-----------------------------------------------------------------------------
(* Type correctness. *)

LEMMA InitFacts ==
  ASSUME Init
  PROVE  /\ TypeInv
         /\ \A s \in Sessions : session[s].pc = "idle" /\ session[s].en1 = NoPrefix /\ ~session[s].auth
         /\ \A w \in Sources : source[w].pc = "idle"
         /\ credits = <<>> /\ DOMAIN credits = {} /\ enCounter = 0 /\ node = FirstTemplate
         /\ \A j \in DOMAIN jobs : jobs[j].template = FirstTemplate
         /\ engine \notin {"beam", "alephium"} => Len(jobs) = 1 /\ cur = {1}
         /\ engine \notin {"ethash", "beam"} => \A j \in DOMAIN jobs : jobs[j].id = j /\ j <= jobCounter
<1>. DEFINE n == CASE engine = "beam" -> 0 [] engine = "alephium" -> Chains [] OTHER -> 1
<1>1. /\ jobs = [i \in 1..n |-> MakeJob(FirstTemplate, i, i)]
      /\ cur = 1..n /\ history = 1..n /\ jobCounter = n
      /\ engine \in EngineNames /\ node = FirstTemplate /\ stream = "up" /\ enCounter = 0
      /\ source = [w \in Sources |-> IdleSource] /\ session = [s \in Sessions |-> NewSession]
      /\ credits = <<>> /\ budget \in Budgets
  BY DEF Init
<1>2. n \in 0..HistoryCap /\ n \in Nat /\ (engine \notin {"beam", "alephium"} => n = 1)
  BY EngineSizes
<1>. HIDE DEF n
<1>3. FirstTemplate \in Templates
  BY DEF FirstTemplate, Templates
<1>4. \A i \in 1..n : /\ MakeJob(FirstTemplate, i, i) \in JobRecord
                      /\ MakeJob(FirstTemplate, i, i).template = FirstTemplate
                      /\ engine \notin {"ethash", "beam"} => MakeJob(FirstTemplate, i, i).id = i
  BY <1>2, <1>3, MakeJobType
<1>5. /\ jobs \in Seq(JobRecord) /\ DOMAIN jobs = 1..n /\ Len(jobs) = n
      /\ \A j \in 1..n : jobs[j].template = FirstTemplate
      /\ engine \notin {"ethash", "beam"} => \A j \in 1..n : jobs[j].id = j
  BY <1>1, <1>2, <1>4
<1>6. IdleSource \in SourceRecord /\ IdleSource.pc = "idle"
  BY DEF IdleSource, SourceRecord, Templates
<1>7. /\ NewSession \in SessionRecord /\ NewSession.pc = "idle" /\ NewSession.en1 = NoPrefix
      /\ NewSession.auth = FALSE
  <2>1. NoPrefix \in 0..PrefixSpace
    BY EngineSizes DEF NoPrefix
  <2>2. NoShares \in Counts
    BY DEF NoShares, Counts
  <2>. QED
    BY <2>1, <2>2 DEF NewSession, SessionRecord
<1>8. budget \in BudgetRecord
  BY <1>1, EngineBudgets DEF BudgetRecord
<1>11. source \in [Sources -> SourceRecord] /\ session \in [Sessions -> SessionRecord]
  BY <1>1, <1>6, <1>7
<1>12. \A s \in Sessions : session[s] = NewSession
  BY <1>1
<1>13. credits \in Seq(Credit) /\ DOMAIN credits = {}
  BY <1>1
<1>14. TypeInv
  BY <1>1, <1>2, <1>3, <1>5, <1>7, <1>8, <1>11, <1>12, <1>13 DEF TypeInv, Pending
<1>15. engine \notin {"beam", "alephium"} => Len(jobs) = 1 /\ cur = {1}
  BY <1>1, <1>2, <1>5
<1>. QED
  BY <1>1, <1>2, <1>5, <1>6, <1>7, <1>12, <1>13, <1>14, <1>15

LEMMA TypeStep ==
  ASSUME TypeInv, [Next]_vars
  PROVE  TypeInv'
<1>1. CASE WorkFine
  <2>1. \A s \in Sessions : Pending(session[s])'
    <3>. SUFFICES ASSUME NEW s \in Sessions, session'[s].pc \in {"found", "registered"}
                  PROVE  session'[s].sub \in Submission /\ session'[s].job \in DOMAIN jobs'
      BY DEF Pending
    <3>1. SameSession(s) /\ JobsKept
      BY <1>1 DEF WorkFine
    <3>. QED
      BY <3>1 DEF SameSession, JobsKept, TypeInv, Pending
  <2>. QED
    BY <1>1, <2>1 DEF WorkFine, JobsKept, HistoryFine, BudgetFine, TypeInv
<1>2. CASE \E s \in Sessions : SessionFine(s)
  <2>1. PICK s \in Sessions : SessionFine(s)
    BY <1>2
  <2>2. DOMAIN jobs' = DOMAIN jobs /\ jobs' \in Seq(JobRecord)
    BY <2>1 DEF SessionFine, JobsKept, TypeInv
  <2>3. \A t \in Sessions : Pending(session[t])'
    <3>. SUFFICES ASSUME NEW t \in Sessions, session'[t].pc \in {"found", "registered"}
                  PROVE  session'[t].sub \in Submission /\ session'[t].job \in DOMAIN jobs'
      BY DEF Pending
    <3>1. CASE t = s
      BY <2>1, <2>2, <3>1 DEF SessionFine
    <3>2. CASE t # s
      BY <2>1, <2>2, <3>2 DEF SessionFine, Others, TypeInv, Pending
    <3>. QED
      BY <3>1, <3>2
  <2>4. enCounter' \in Nat
    BY <2>1 DEF SessionFine, TypeInv
  <2>. QED
    BY <2>1, <2>2, <2>3, <2>4 DEF SessionFine, BudgetFine, TypeInv
<1>3. CASE UNCHANGED vars
  BY <1>3 DEF vars, engineVars, TypeInv, Pending
<1>. QED
  BY <1>1, <1>2, <1>3, StepFine

LEMMA TypeInvAlways == Spec => []TypeInv
<1>1. Init => TypeInv
  BY InitFacts
<1>2. TypeInv /\ [Next]_vars => TypeInv'
  BY TypeStep
<1>. QED
  BY <1>1, <1>2, PTL DEF Spec

(* Every variable of the engines keeps its type, and a session that works  *)
(* on a submission works on one of the jobs made (every handler).          *)
THEOREM TypeCorrect == Spec => []TypeOK
<1>1. TypeInv => TypeOK
  <2>. SUFFICES ASSUME TypeInv PROVE TypeOK
    OBVIOUS
  <2>1. \A j \in DOMAIN jobs : jobs[j].template \in Templates /\ jobs[j].salt \in Nat
    <3>1. \A j \in DOMAIN jobs : jobs[j] \in JobRecord
      BY DEF TypeInv
    <3>. QED
      BY <3>1 DEF JobRecord
  <2>2. \A w \in Sources : /\ source[w].pc \in {"idle", "fetched", "hung", "accepted", "emit"}
                           /\ source[w].left \subseteq Sessions /\ source[w].at \subseteq Sessions
                           /\ source[w].held \subseteq Nat
    BY DEF TypeInv, SourceRecord
  <2>3. \A s \in Sessions :
          /\ session[s].pc \in {"idle", "login", "work", "send", "found", "registered", "waiting", "banned"}
          /\ session[s].held \subseteq Nat
          /\ session[s].en1 \in 0..PrefixSpace /\ session[s].cur \in Nat /\ session[s].prev \in Nat
          /\ session[s].shares \in [valid : Nat, invalid : Nat]
    BY DEF TypeInv, SessionRecord, Counts
  <2>. QED
    BY <2>1, <2>2, <2>3 DEF TypeInv, TypeOK, Pending
<1>. QED
  BY <1>1, TypeInvAlways, PTL

-----------------------------------------------------------------------------
(* Prefixes.  Up to the wrap every prefix in use was made from a different  *)
(* value of the counter.                                                    *)
HandedOut ==
  enCounter <= PrefixSpace =>
    /\ \A s \in Sessions : session[s].en1 # NoPrefix =>
         IF session[s].en1 = 0 THEN enCounter = PrefixSpace ELSE session[s].en1 <= enCounter
    /\ \A s, t \in Sessions : s # t /\ session[s].en1 # NoPrefix => session[s].en1 # session[t].en1

LEMMA NextPrefixFacts ==
  ASSUME enCounter \in Nat, enCounter + 1 <= PrefixSpace
  PROVE  NextPrefix = IF enCounter + 1 = PrefixSpace THEN 0 ELSE enCounter + 1
  BY EngineSizes DEF NextPrefix

LEMMA HandedOutStep ==
  ASSUME TypeInv, HandedOut, [Next]_vars
  PROVE  HandedOut'
<1>0. enCounter \in Nat /\ PrefixSpace \in Nat /\ \A s \in Sessions : session[s].en1 \in 0..PrefixSpace
  BY EngineSizes DEF TypeInv, SessionRecord
<1>1. CASE enCounter' = enCounter /\ \A s \in Sessions : session'[s].en1 = session[s].en1
  BY <1>1 DEF HandedOut
<1>2. CASE /\ enCounter' = enCounter + 1
           /\ \E s \in Sessions : session'[s].en1 = NextPrefix /\ Others(s)
  <2>1. PICK s \in Sessions : session'[s].en1 = NextPrefix /\ Others(s)
    BY <1>2
  <2>. SUFFICES ASSUME enCounter + 1 <= PrefixSpace PROVE HandedOut'
    BY <1>2 DEF HandedOut
  <2>. DEFINE new == IF enCounter + 1 = PrefixSpace THEN 0 ELSE enCounter + 1
  <2>2. /\ session'[s].en1 = new
        /\ \A t \in Sessions : t # s => session'[t].en1 = session[t].en1
    BY <1>0, <2>1, NextPrefixFacts DEF Others
  <2>3. new # NoPrefix /\ (IF new = 0 THEN enCounter + 1 = PrefixSpace ELSE new <= enCounter + 1)
    BY <1>0, EngineSizes DEF NoPrefix
  <2>4. \A t \in Sessions : session[t].en1 # NoPrefix => session[t].en1 # 0 /\ session[t].en1 <= enCounter
    BY <1>0 DEF HandedOut
  <2>5. \A t \in Sessions : session[t].en1 # new
    BY <1>0, <2>3, <2>4 DEF NoPrefix
  <2>. HIDE DEF new
  <2>6. \A t \in Sessions : session'[t].en1 # NoPrefix =>
           IF session'[t].en1 = 0 THEN enCounter + 1 = PrefixSpace ELSE session'[t].en1 <= enCounter + 1
    <3>. SUFFICES ASSUME NEW t \in Sessions, session'[t].en1 # NoPrefix
                  PROVE  IF session'[t].en1 = 0 THEN enCounter + 1 = PrefixSpace
                         ELSE session'[t].en1 <= enCounter + 1
      OBVIOUS
    <3>1. CASE t = s
      BY <3>1, <2>2, <2>3
    <3>2. CASE t # s
      BY <3>2, <1>0, <2>2, <2>4
    <3>. QED
      BY <3>1, <3>2
  <2>7. \A t, u \in Sessions : t # u /\ session'[t].en1 # NoPrefix => session'[t].en1 # session'[u].en1
    <3>1. \A t, u \in Sessions : t # u /\ session[t].en1 # NoPrefix => session[t].en1 # session[u].en1
      BY <1>0 DEF HandedOut
    <3>. QED
      BY <2>2, <2>5, <3>1
  <2>. QED
    BY <1>2, <2>6, <2>7, Zenon DEF HandedOut, NoPrefix
<1>3. QED
  <2>1. CASE WorkFine
    BY <1>1, <2>1 DEF WorkFine, SameSession
  <2>2. CASE \E s \in Sessions : SessionFine(s)
    <3>1. PICK s \in Sessions : SessionFine(s)
      BY <2>2
    <3>2. CASE enCounter' = enCounter /\ session'[s].en1 = session[s].en1
      BY <1>1, <3>1, <3>2 DEF SessionFine, Others
    <3>3. CASE enCounter' = enCounter + 1 /\ session'[s].en1 = NextPrefix
      BY <1>2, <3>1, <3>3 DEF SessionFine
    <3>. QED
      BY <3>1, <3>2, <3>3 DEF SessionFine
  <2>3. CASE UNCHANGED vars
    BY <1>1, <2>3 DEF vars
  <2>. QED
    BY <2>1, <2>2, <2>3, StepFine

(* Two connections are given the same part of the nonce space only after   *)
(* the counter has run through every prefix (OnSubscribe).                 *)
THEOREM PrefixesStayDistinct == Spec => []PrefixesDistinct
<1>1. Init => HandedOut
  BY InitFacts DEF HandedOut
<1>2. TypeInv /\ HandedOut /\ [Next]_vars => HandedOut'
  BY HandedOutStep
<1>3. TypeInv /\ HandedOut => PrefixesDistinct
  <2>1. TypeInv => enCounter \in Nat /\ PrefixSpace \in Nat
    BY EngineSizes DEF TypeInv
  <2>. QED
    BY <2>1 DEF HandedOut, PrefixesDistinct
<1>. QED
  BY <1>1, <1>2, <1>3, TypeInvAlways, PTL DEF Spec
-----------------------------------------------------------------------------
(* Job ids.  Those of the jobs, and those drawn for a job still to be       *)
(* installed, are all different and none is ahead of the counter.           *)
Drawn(w) == source[w].pc = "accepted"

IdsApart ==
  engine \notin {"ethash", "beam"} =>
    /\ \A j \in DOMAIN jobs : jobs[j].id \in Nat /\ jobs[j].id <= jobCounter
    /\ \A i, j \in DOMAIN jobs : i # j => jobs[i].id # jobs[j].id
    /\ \A w \in Sources : Drawn(w) =>
         source[w].id <= jobCounter /\ \A j \in DOMAIN jobs : jobs[j].id # source[w].id
    /\ \A v, w \in Sources : v # w /\ Drawn(v) /\ Drawn(w) => source[v].id # source[w].id

LEMMA IdTypes ==
  ASSUME TypeInv
  PROVE  /\ jobCounter \in Nat /\ Len(jobs) \in Nat /\ DOMAIN jobs = 1..Len(jobs)
         /\ \A w \in Sources : source[w] \in SourceRecord /\ source[w].id \in Nat
  BY DEF TypeInv, SourceRecord

(* A step that makes no job, leaves the counter and draws nothing. *)
LEMMA QuietIds ==
  ASSUME IdsApart, UNCHANGED <<engine, jobCounter>>, DOMAIN jobs' = DOMAIN jobs,
         \A j \in DOMAIN jobs : jobs'[j].id = jobs[j].id,
         \A w \in Sources : Drawn(w)' => Drawn(w) /\ source'[w].id = source[w].id
  PROVE  IdsApart'
  BY DEF IdsApart

LEMMA AcceptIds ==
  ASSUME TypeInv, IdsApart, NEW w \in Sources, Accept(w)
  PROVE  IdsApart'
<1>1. UNCHANGED <<engine, jobs>> /\ source \in [Sources -> SourceRecord] /\ source[w] \in SourceRecord
  BY DEF Accept, TypeInv
<1>2. CASE SameWork(source[w].template)
  <2>1. jobCounter' = jobCounter /\ source' = [source EXCEPT ![w] = IdleSource]
    BY <1>2 DEF Accept
  <2>2. \A v \in Sources : Drawn(v)' => Drawn(v) /\ source'[v].id = source[v].id
    BY <1>1, <2>1 DEF Drawn, IdleSource
  <2>. QED
    BY <1>1, <2>1, <2>2, QuietIds
<1>3. CASE ~SameWork(source[w].template)
  <2>. DEFINE r == [source[w] EXCEPT !.pc = "accepted", !.id = jobCounter + 1]
  <2>1. jobCounter' = jobCounter + 1 /\ source' = [source EXCEPT ![w] = r]
    BY <1>1, <1>3 DEF Accept
  <2>2. r.pc = "accepted" /\ r.id = jobCounter + 1
    BY <1>1 DEF SourceRecord
  <2>. HIDE DEF r
  <2>3. source'[w].id = jobCounter + 1 /\ \A v \in Sources : v # w => source'[v] = source[v]
    BY <1>1, <2>1, <2>2
  <2>. SUFFICES ASSUME engine \notin {"ethash", "beam"} PROVE IdsApart'
    BY <1>1 DEF IdsApart
  <2>4. jobCounter \in Nat /\ \A v \in Sources : source[v].id \in Nat
    BY IdTypes
  <2>5. \A j \in DOMAIN jobs : jobs[j].id \in Nat /\ jobs[j].id <= jobCounter + 1 /\ jobs[j].id # jobCounter + 1
    BY <2>4 DEF IdsApart
  <2>6. \A v \in Sources \ {w} : Drawn(v)' => Drawn(v) /\ source'[v].id = source[v].id
    BY <2>3 DEF Drawn
  <2>7. \A v \in Sources \ {w} : Drawn(v) => source[v].id <= jobCounter + 1 /\ source[v].id # jobCounter + 1
    BY <2>4 DEF IdsApart
  <2>8. \A v \in Sources : Drawn(v)' =>
          source'[v].id <= jobCounter + 1 /\ \A j \in DOMAIN jobs : jobs[j].id # source'[v].id
    <3>. SUFFICES ASSUME NEW v \in Sources, Drawn(v)'
                  PROVE  source'[v].id <= jobCounter + 1 /\ \A j \in DOMAIN jobs : jobs[j].id # source'[v].id
      OBVIOUS
    <3>1. CASE v = w
      BY <2>3, <2>4, <2>5, <3>1
    <3>2. CASE v # w
      BY <2>6, <2>7, <3>2 DEF IdsApart
    <3>. QED
      BY <3>1, <3>2
  <2>9. \A u, v \in Sources : u # v /\ Drawn(u)' /\ Drawn(v)' => source'[u].id # source'[v].id
    BY <2>3, <2>6, <2>7 DEF IdsApart
  <2>. QED
    BY <1>1, <2>1, <2>5, <2>8, <2>9 DEF IdsApart
<1>. QED
  BY <1>2, <1>3

(* New jobs under ids that nobody has. *)
LEMMA InstallIds ==
  ASSUME TypeInv, IdsApart, NEW w \in Sources, NEW batch \in Seq(JobRecord), Install(batch),
         source' = [source EXCEPT ![w] = Broadcasting], engine' = engine, jobCounter' \in Nat,
         jobCounter <= jobCounter', engine \notin {"ethash", "beam"},
         \A b \in DOMAIN batch : /\ batch[b].id \in Nat /\ batch[b].id <= jobCounter'
                                 /\ \A j \in DOMAIN jobs : jobs[j].id # batch[b].id
                                 /\ \A v \in Sources \ {w} : Drawn(v) => source[v].id # batch[b].id,
         \A a, b \in DOMAIN batch : a # b => batch[a].id # batch[b].id
  PROVE  IdsApart'
<1>. DEFINE n == Len(jobs)
            m == Len(batch)
<1>1. n \in Nat /\ m \in Nat /\ DOMAIN jobs = 1..n /\ DOMAIN batch = 1..m /\ jobCounter \in Nat
  BY IdTypes
<1>2. /\ jobs' \in Seq(JobRecord) /\ Len(jobs') = n + m
      /\ \A j \in DOMAIN jobs : jobs'[j] = jobs[j]
      /\ \A b \in DOMAIN batch : jobs'[n + b] = batch[b]
  BY InstallFacts
<1>3. DOMAIN jobs' = 1..(n + m)
  BY <1>2
<1>. HIDE DEF n, m
<1>. DEFINE Old(j) == j \in 1..n /\ jobs'[j].id = jobs[j].id
            New(j, b) == j = n + b /\ jobs'[j].id = batch[b].id
<1>4. \A j \in 1..(n + m) : Old(j) \/ \E b \in 1..m : New(j, b)
  <2>. SUFFICES ASSUME NEW j \in 1..(n + m), j \notin 1..n PROVE \E b \in 1..m : New(j, b)
    BY <1>1, <1>2
  <2>1. j - n \in 1..m /\ j = n + (j - n)
    BY <1>1
  <2>2. PICK b \in 1..m : j = n + b
    BY <2>1
  <2>3. jobs'[n + b] = batch[b]
    BY <1>1, <1>2
  <2>. QED
    BY <2>2, <2>3
<1>5. \A j \in 1..n : jobs[j].id \in Nat /\ jobs[j].id <= jobCounter'
  BY <1>1 DEF IdsApart
<1>6. \A j \in 1..(n + m) : jobs'[j].id \in Nat /\ jobs'[j].id <= jobCounter'
  BY <1>1, <1>4, <1>5
<1>7. \A i, j \in 1..(n + m) : i # j => jobs'[i].id # jobs'[j].id
  <2>. SUFFICES ASSUME NEW i \in 1..(n + m), NEW j \in 1..(n + m), i # j PROVE jobs'[i].id # jobs'[j].id
    OBVIOUS
  <2>1. CASE Old(i) /\ Old(j)
    BY <1>1, <2>1 DEF IdsApart
  <2>2. CASE Old(i) /\ \E b \in 1..m : New(j, b)
    BY <1>1, <2>2
  <2>3. CASE Old(j) /\ \E b \in 1..m : New(i, b)
    BY <1>1, <2>3
  <2>4. CASE (\E b \in 1..m : New(i, b)) /\ (\E b \in 1..m : New(j, b))
    <3>1. PICK a \in 1..m, b \in 1..m : New(i, a) /\ New(j, b)
      BY <2>4
    <3>2. a # b
      BY <3>1
    <3>. QED
      BY <1>1, <3>1, <3>2
  <2>. QED
    BY <1>4, <2>1, <2>2, <2>3, <2>4
<1>8. source'[w].pc = "emit" /\ \A v \in Sources : v # w => source'[v] = source[v]
  BY DEF TypeInv, Broadcasting, IdleSource
<1>9. \A v \in Sources : Drawn(v)' => v # w /\ Drawn(v) /\ source'[v].id = source[v].id
  BY <1>8 DEF Drawn
<1>10. \A v \in Sources : v # w /\ Drawn(v) => source[v].id <= jobCounter'
  <2>1. \A v \in Sources : source[v].id \in Nat
    BY IdTypes
  <2>. QED
    BY <1>1, <2>1 DEF IdsApart
<1>11. \A v \in Sources : v # w /\ Drawn(v) => \A j \in 1..(n + m) : jobs'[j].id # source[v].id
  <2>. SUFFICES ASSUME NEW v \in Sources, v # w, Drawn(v), NEW j \in 1..(n + m) PROVE jobs'[j].id # source[v].id
    OBVIOUS
  <2>1. CASE Old(j)
    BY <1>1, <2>1 DEF IdsApart
  <2>2. CASE \E b \in 1..m : New(j, b)
    BY <1>1, <2>2
  <2>. QED
    BY <1>4, <2>1, <2>2
<1>12. \A u, v \in Sources : u # v /\ Drawn(u)' /\ Drawn(v)' => source'[u].id # source'[v].id
  BY <1>9 DEF IdsApart
<1>. QED
  BY <1>3, <1>6, <1>7, <1>9, <1>10, <1>11, <1>12 DEF IdsApart

LEMMA AcceptTemplateIds ==
  ASSUME TypeInv, IdsApart, NEW w \in Sources, AcceptTemplate(w)
  PROVE  IdsApart'
<1>. DEFINE job == MakeJob(source[w].template, source[w].id, jobCounter)
<1>1. engine' = engine /\ jobCounter' = jobCounter /\ Drawn(w) /\ source' = [source EXCEPT ![w] = Broadcasting]
  BY DEF AcceptTemplate, Drawn
<1>. SUFFICES ASSUME engine \notin {"ethash", "beam"} PROVE IdsApart'
  BY <1>1 DEF IdsApart
<1>2. job \in JobRecord /\ job.id = source[w].id /\ source[w].id \in Nat /\ jobCounter \in Nat
  BY IdTypes, MakeJobType DEF SourceRecord
<1>3. Install(<<job>>)
  BY DEF AcceptTemplate
<1>. HIDE DEF job
<1>4. <<job>> \in Seq(JobRecord) /\ DOMAIN <<job>> = {1} /\ <<job>>[1] = job
  BY <1>2
<1>5. /\ source[w].id <= jobCounter /\ \A j \in DOMAIN jobs : jobs[j].id # source[w].id
      /\ \A v \in Sources \ {w} : Drawn(v) => source[v].id # source[w].id
  BY <1>1 DEF IdsApart
<1>6. jobCounter <= jobCounter' /\ jobCounter' \in Nat
  BY <1>1, <1>2
<1>7. PICK batch \in Seq(JobRecord) : /\ Install(batch) /\ DOMAIN batch = {1}
                                       /\ batch[1].id = source[w].id
  BY <1>2, <1>3, <1>4
<1>8. \A b \in DOMAIN batch : /\ batch[b].id \in Nat /\ batch[b].id <= jobCounter'
                              /\ \A j \in DOMAIN jobs : jobs[j].id # batch[b].id
                              /\ \A v \in Sources \ {w} : Drawn(v) => source[v].id # batch[b].id
  BY <1>1, <1>2, <1>5, <1>7
<1>9. \A a, b \in DOMAIN batch : a # b => batch[a].id # batch[b].id
  BY <1>7
<1>. QED
  BY <1>1, <1>6, <1>7, <1>8, <1>9, InstallIds

LEMMA NodePushIds ==
  ASSUME TypeInv, IdsApart, NodePush
  PROVE  IdsApart'
<1>. DEFINE size  == IF engine = "alephium" THEN Chains ELSE 1
            batch == [b \in 1..size |-> MakeJob(node, jobCounter + b, 0)]
<1>1. /\ jobCounter' = jobCounter + size /\ Install(batch)
      /\ source' = [source EXCEPT !["stream"] = Broadcasting] /\ engine' = engine
  BY DEF NodePush
<1>. SUFFICES ASSUME engine \notin {"ethash", "beam"} PROVE IdsApart'
  BY <1>1 DEF IdsApart
<1>2. size \in Nat /\ jobCounter \in Nat /\ node \in Templates /\ "stream" \in Sources
  BY EngineSizes DEF TypeInv, Sources
<1>. HIDE DEF size
<1>3. \A b \in 1..size : /\ MakeJob(node, jobCounter + b, 0) \in JobRecord
                         /\ MakeJob(node, jobCounter + b, 0).id = jobCounter + b
  BY <1>2, MakeJobType
<1>4. batch \in Seq(JobRecord) /\ DOMAIN batch = 1..size /\ \A b \in 1..size : batch[b].id = jobCounter + b
  BY <1>2, <1>3
<1>. HIDE DEF batch
<1>5. jobCounter' \in Nat /\ jobCounter <= jobCounter'
  BY <1>1, <1>2
<1>6. /\ \A j \in DOMAIN jobs : jobs[j].id \in Nat /\ jobs[j].id <= jobCounter
      /\ \A v \in Sources : source[v].id \in Nat /\ (Drawn(v) => source[v].id <= jobCounter)
  BY IdTypes DEF IdsApart
<1>7. \A b \in DOMAIN batch : /\ batch[b].id \in Nat /\ batch[b].id <= jobCounter'
                              /\ \A j \in DOMAIN jobs : jobs[j].id # batch[b].id
                              /\ \A v \in Sources \ {"stream"} : Drawn(v) => source[v].id # batch[b].id
  <2>. SUFFICES ASSUME NEW b \in 1..size
                PROVE  /\ batch[b].id \in Nat /\ batch[b].id <= jobCounter'
                       /\ \A j \in DOMAIN jobs : jobs[j].id # batch[b].id
                       /\ \A v \in Sources \ {"stream"} : Drawn(v) => source[v].id # batch[b].id
    BY <1>4
  <2>1. batch[b].id = jobCounter + b /\ jobCounter + b \in Nat /\ jobCounter + b <= jobCounter'
    BY <1>1, <1>2, <1>4
  <2>2. \A k \in Nat : k <= jobCounter => k # jobCounter + b
    BY <1>2
  <2>. QED
    BY <1>6, <2>1, <2>2
<1>8. \A a, b \in DOMAIN batch : a # b => batch[a].id # batch[b].id
  BY <1>2, <1>4
<1>. QED
  BY <1>1, <1>2, <1>4, <1>5, <1>7, <1>8, InstallIds

LEMMA IdsStep ==
  ASSUME TypeInv, IdsApart, [Next]_vars
  PROVE  IdsApart'
<1>0. source \in [Sources -> SourceRecord]
  BY DEF TypeInv
<1>1. CASE \E w \in Sources : Fetch(w) \/ FetchHangs(w)
  <2>1. PICK w \in Sources : Fetch(w) \/ FetchHangs(w)
    BY <1>1
  <2>2. UNCHANGED <<engine, jobs, jobCounter>>
    BY <2>1 DEF Fetch, FetchHangs, engineVars
  <2>3. source'[w].pc # "accepted" /\ \A v \in Sources : v # w => source'[v] = source[v]
    BY <1>0, <2>1 DEF Fetch, FetchHangs, SourceRecord
  <2>. QED
    BY <2>2, <2>3, QuietIds DEF Drawn
<1>2. CASE \E w \in Sources, s \in Sessions : Emit(w, s) \/ EmitSend(w, s)
  <2>1. PICK w \in Sources, s \in Sessions : Emit(w, s) \/ EmitSend(w, s)
    BY <1>2
  <2>2. UNCHANGED <<engine, jobs, jobCounter>> /\ source[w].pc = "emit"
    BY <2>1 DEF Emit, EmitSend, engineVars
  <2>. DEFINE a == [source[w] EXCEPT !.at = {s}, !.held = cur]
  <2>3. source[w] \in SourceRecord
    BY <1>0
  <2>4. a.pc = "emit" /\ TurnOver(w, s).pc \in {"idle", "emit"}
    BY <2>2, <2>3, TurnOverType DEF SourceRecord
  <2>5. source' = [source EXCEPT ![w] = a] \/ source' = [source EXCEPT ![w] = TurnOver(w, s)]
    BY <1>0, <2>1 DEF Emit, EmitSend
  <2>. HIDE DEF a
  <2>6. source'[w].pc # "accepted" /\ \A v \in Sources : v # w => source'[v] = source[v]
    BY <1>0, <2>4, <2>5
  <2>. QED
    BY <2>2, <2>6, QuietIds DEF Drawn
<1>3. CASE \E s \in Sessions : SessionStep(s)
  <2>1. PICK s \in Sessions : SessionFine(s)
    BY <1>3, SessionStepFine
  <2>2. UNCHANGED <<engine, jobCounter, source>> /\ DOMAIN jobs' = DOMAIN jobs
        /\ \A j \in DOMAIN jobs : jobs'[j].id = jobs[j].id
    BY <2>1 DEF SessionFine, JobsKept, TypeInv
  <2>. QED
    BY <2>2, QuietIds DEF Drawn
<1>4. CASE StreamDrop \/ Reopen \/ NodeChange \/ UNCHANGED vars
  <2>1. UNCHANGED <<engine, jobs, jobCounter, source>>
    BY <1>4 DEF StreamDrop, Reopen, NodeChange, vars, engineVars
  <2>. QED
    BY <2>1, QuietIds DEF Drawn
<1>. QED
  BY <1>1, <1>2, <1>3, <1>4, AcceptIds, AcceptTemplateIds, NodePushIds DEF Next, SourceStep

(* An id names one job for good, however the sources that draw ids from the *)
(* counter and install jobs race (acceptTemplate, handleJobs), for the      *)
(* engines that number their jobs.                                          *)
THEOREM IdsNameOneJob == Spec => []IdNamesOneJob
<1>1. Init => IdsApart
  <2>. SUFFICES ASSUME Init, engine \notin {"ethash", "beam"} PROVE IdsApart
    BY DEF IdsApart
  <2>1. /\ \A j \in DOMAIN jobs : jobs[j].id = j /\ j <= jobCounter
        /\ \A w \in Sources : ~Drawn(w)
    BY InitFacts DEF Drawn
  <2>2. \A j \in DOMAIN jobs : j \in Nat
    BY InitFacts DEF TypeInv
  <2>. QED
    BY <2>1, <2>2 DEF IdsApart
<1>2. TypeInv /\ IdsApart /\ [Next]_vars => IdsApart'
  BY IdsStep
<1>3. IdsApart => IdNamesOneJob
  BY DEF IdsApart, IdNamesOneJob
<1>. QED
  BY <1>1, <1>2, <1>3, TypeInvAlways, PTL DEF Spec
-----------------------------------------------------------------------------
(* Broadcasts.  A miner that has not been sent the current work is still to *)
(* be served by a broadcast under way that has read no older work for it,   *)
(* or by its own session.                                                   *)
LateIsAwaited ==
  engine # "cryptonote" /\ cur # {} =>
    \A s \in Sessions : session[s].auth /\ ~session[s].told => Awaited(s) \/ Served(s)

LEMMA LateStep ==
  ASSUME TypeInv, LateIsAwaited, [Next]_vars
  PROVE  LateIsAwaited'
<1>1. CASE WorkFine
  BY <1>1 DEF WorkFine, LateFine, LateIsAwaited
<1>2. CASE \E s \in Sessions : SessionFine(s)
  <2>1. PICK s \in Sessions : SessionFine(s)
    BY <1>2
  <2>2. UNCHANGED <<engine, cur, source>> /\ Prompt(s) /\ Others(s)
    BY <2>1 DEF SessionFine
  <2>3. \A t \in Sessions : Awaited(t)' <=> Awaited(t)
    BY <2>2 DEF Awaited
  <2>. SUFFICES ASSUME engine # "cryptonote", cur # {}, NEW t \in Sessions,
                       session'[t].auth, ~session'[t].told
                PROVE  Awaited(t)' \/ Served(t)'
    BY <2>2 DEF LateIsAwaited
  <2>4. CASE t = s
    BY <2>2, <2>3, <2>4 DEF Prompt, LateIsAwaited
  <2>5. CASE t # s
    <3>1. session'[t] = session[t]
      BY <2>2, <2>5 DEF Others
    <3>2. Served(t) => Served(t)'
      BY <2>2, <3>1 DEF Served
    <3>. QED
      BY <2>3, <3>1, <3>2 DEF LateIsAwaited
  <2>. QED
    BY <2>4, <2>5
<1>3. CASE UNCHANGED vars
  BY <1>3 DEF vars, engineVars, LateIsAwaited, Awaited, Served
<1>. QED
  BY <1>1, <1>2, <1>3, StepFine

(* When no broadcast is under way every authorized miner that its session   *)
(* is not just serving has been sent the current work, although work is     *)
(* read and written in two steps and anyone may install new work in between *)
(* (BroadcastEngineWork against authorize, getjob, retargets, installs).    *)
THEOREM NobodyStaysBehind == Spec => []NobodyLeftBehind
<1>1. Init => LateIsAwaited
  BY InitFacts DEF LateIsAwaited
<1>2. TypeInv /\ LateIsAwaited /\ [Next]_vars => LateIsAwaited'
  BY LateStep
<1>3. LateIsAwaited => NobodyLeftBehind
  BY DEF LateIsAwaited, Awaited, Awaits, Served, NobodyLeftBehind
<1>. QED
  BY <1>1, <1>2, <1>3, TypeInvAlways, PTL DEF Spec
-----------------------------------------------------------------------------
(* Credits. *)

(* No error after the registration: the hash meets the session's target. *)
LEMMA NoErrorNotLow ==
  ASSUME TypeInv, NEW s \in Sessions, NEW sub \in Submission, engine # "beam", OnSubmit(s, sub).after = <<>>
  PROVE  ~Low(s, sub)
<1>. DEFINE low == Refuse(Low(s, sub), "low")
            both == Refuse(sub.defect = "proof", "nonce") \o low
<1>1. OnSubmit(s, sub).after \in {low, both}
  <2>1. CASE engine = "kawpow"
    BY <2>1 DEF OnSubmit, KawpowSubmit
  <2>2. CASE engine = "equihash"
    BY <2>2 DEF OnSubmit, EquihashSubmit
  <2>3. CASE engine = "cryptonote"
    BY <2>3 DEF OnSubmit, CryptonoteSubmit
  <2>4. CASE engine = "ergo"
    BY <2>4 DEF OnSubmit, ErgoSubmit
  <2>5. CASE engine = "ethash"
    BY <2>5 DEF OnSubmit, EthashSubmit
  <2>6. CASE engine = "kaspa"
    BY <2>6 DEF OnSubmit, KaspaSubmit
  <2>7. CASE engine = "alephium"
    BY <2>7 DEF OnSubmit, AlephiumSubmit
  <2>. QED
    BY <2>1, <2>2, <2>3, <2>4, <2>5, <2>6, <2>7, EngineRegistry DEF TypeInv
<1>2. Low(s, sub) => low # <<>> /\ both # <<>>
  <2>. SUFFICES ASSUME Low(s, sub) PROVE low # <<>> /\ both # <<>>
    OBVIOUS
  <2>1. low = <<"low">>
    BY DEF Refuse
  <2>2. both \in {<<"nonce">> \o <<"low">>, <<>> \o <<"low">>}
    BY <2>1 DEF Refuse
  <2>. DEFINE Codes == {"nonce", "low"}
  <2>3. <<"nonce">> \in Seq(Codes) /\ <<>> \in Seq(Codes) /\ <<"low">> \in Seq(Codes) /\ Len(<<"low">>) = 1
    OBVIOUS
  <2>. HIDE DEF Codes
  <2>4. \A x \in Seq(Codes) : Len(x \o <<"low">>) = Len(x) + 1
    BY <2>3
  <2>5. \A x \in Seq(Codes) : Len(x) + 1 # Len(<<>>)
    OBVIOUS
  <2>6. \A x \in Seq(Codes) : x \o <<"low">> # <<>>
    BY <2>4, <2>5
  <2>7. <<"low">> # <<>>
    OBVIOUS
  <2>. HIDE DEF low, both
  <2>. QED
    BY <2>1, <2>2, <2>3, <2>6, <2>7, Zenon
<1>. QED
  BY <1>1, <1>2

LEMMA BackedStep ==
  ASSUME TypeInv, CreditBacked, [Next]_vars
  PROVE  CreditBacked'
<1>1. CASE credits' = credits /\ engine' = engine
  BY <1>1 DEF CreditBacked
<1>2. CASE \E s \in Sessions : SessionFine(s) /\ Rewards(s)
  <2>1. PICK s \in Sessions : SessionFine(s) /\ Rewards(s)
    BY <1>2
  <2>. SUFFICES ASSUME engine # "beam" PROVE \A a \in DOMAIN credits' : credits'[a].diff <= Achieved[credits'[a].nonce]
    BY <2>1 DEF CreditBacked, SessionFine
  <2>. DEFINE sub == session[s].sub
              diff == CreditedDiff(s, ReportedDiff(sub))
  <2>2. PICK p \in BOOLEAN :
          credits' = Append(credits, [session |-> s, job |-> session[s].job, prefix |-> sub.prefix,
                                      nonce |-> sub.nonce, diff |-> diff, payable |-> p])
    BY <2>1 DEF Rewards
  <2>. DEFINE c == [session |-> s, job |-> session[s].job, prefix |-> sub.prefix,
                    nonce |-> sub.nonce, diff |-> diff, payable |-> p]
  <2>3. /\ sub \in Submission /\ sub.nonce \in Nonces /\ Achieved[sub.nonce] \in Nat
        /\ session[s].cur \in Nat /\ session[s].prev \in Nat
    BY <2>1, EngineDiffs DEF Rewards, TypeInv, Pending, Submission, SessionRecord
  <2>4. ReportedDiff(sub) = Achieved[sub.nonce]
    BY DEF ReportedDiff
  <2>5. ~Low(s, sub) \/ MeetsPrevious(s, Achieved[sub.nonce])
    <3>1. OnSubmit(s, sub).after = <<>> \/ MeetsPrevious(s, ReportedDiff(sub))
      BY <2>1 DEF Rewards
    <3>. QED
      BY <3>1, <2>3, <2>4, NoErrorNotLow
  <2>6. diff <= Achieved[sub.nonce]
    BY <2>3, <2>4, <2>5 DEF Low, MeetsPrevious, CreditedDiff
  <2>7. c.diff = diff /\ c.nonce = sub.nonce
    OBVIOUS
  <2>. HIDE DEF c, diff, sub
  <2>8. \A a \in DOMAIN credits' : IF a \in DOMAIN credits THEN credits'[a] = credits[a] ELSE credits'[a] = c
    BY <2>2 DEF TypeInv, c
  <2>. QED
    BY <2>6, <2>7, <2>8 DEF CreditBacked
<1>. QED
  BY <1>1, <1>2, StepFine DEF WorkFine, SessionFine, Calm, Deafens, Registers, vars

(* A credit is never above the difficulty of the hash behind it, whatever  *)
(* retargets and tolerated shares came before (meetsPreviousEngineDiff,     *)
(* creditedEngineDiff); of beam the node is the judge.                      *)
THEOREM CreditsAreBacked == Spec => []CreditBacked
<1>1. Init => CreditBacked
  BY InitFacts DEF CreditBacked
<1>2. TypeInv /\ CreditBacked /\ [Next]_vars => CreditBacked'
  BY BackedStep
<1>. QED
  BY <1>1, <1>2, TypeInvAlways, PTL DEF Spec
-----------------------------------------------------------------------------
(* Duplicates.  The key of a submission, for the engines that do not key    *)
(* the text of the nonce; the nonces of all credits and of all sessions    *)
(* past their registration are on record, each once.                        *)
KeyFor(prefix, nonce) == IF engine \in {"kawpow", "alephium", "ergo"} THEN <<prefix, nonce>> ELSE nonce

CreditKey(a) == KeyFor(credits[a].prefix, credits[a].nonce)
SessionKey(s) == KeyFor(session[s].sub.prefix, session[s].sub.nonce)
Registered(s) == session[s].pc = "registered"

OnRecord(j, key) == j \in DOMAIN jobs /\ key \in jobs[j].seen

OnRecordOnce ==
  /\ \A a \in DOMAIN credits : OnRecord(credits[a].job, CreditKey(a))
  /\ \A s \in Sessions : Registered(s) => OnRecord(session[s].job, SessionKey(s))
  /\ \A a, b \in DOMAIN credits :
       a # b => credits[a].job # credits[b].job \/ CreditKey(a) # CreditKey(b)
  /\ \A a \in DOMAIN credits, s \in Sessions :
       Registered(s) => credits[a].job # session[s].job \/ CreditKey(a) # SessionKey(s)
  /\ \A s, t \in Sessions :
       s # t /\ Registered(s) /\ Registered(t) => session[s].job # session[t].job \/ SessionKey(s) # SessionKey(t)

Registry == engine \notin {"ethash", "kaspa"} => OnRecordOnce

LEMMA KeyIsKeyFor ==
  ASSUME TypeInv, NEW s \in Sessions, engine \notin {"ethash", "kaspa"}
  PROVE  KeyOf(s) = SessionKey(s)
<1>1. CASE engine = "kawpow"
  BY <1>1 DEF KeyOf, SessionKey, KeyFor, OnSubmit, KawpowSubmit
<1>2. CASE engine = "equihash"
  BY <1>2 DEF KeyOf, SessionKey, KeyFor, OnSubmit, EquihashSubmit
<1>3. CASE engine = "cryptonote"
  BY <1>3 DEF KeyOf, SessionKey, KeyFor, OnSubmit, CryptonoteSubmit
<1>4. CASE engine = "ergo"
  BY <1>4 DEF KeyOf, SessionKey, KeyFor, OnSubmit, ErgoSubmit
<1>5. CASE engine = "alephium"
  BY <1>5 DEF KeyOf, SessionKey, KeyFor, OnSubmit, AlephiumSubmit
<1>6. CASE engine = "beam"
  BY <1>6 DEF KeyOf, SessionKey, KeyFor, OnSubmit, BeamSubmit
<1>. QED
  BY <1>1, <1>2, <1>3, <1>4, <1>5, <1>6, EngineRegistry DEF TypeInv

LEMMA RegistryStep ==
  ASSUME TypeInv, Registry, [Next]_vars
  PROVE  Registry'
<1>. SUFFICES ASSUME engine \notin {"ethash", "kaspa"}, engine' = engine PROVE OnRecordOnce'
  BY StepFine DEF Registry, WorkFine, SessionFine, vars
<1>0. OnRecordOnce
  BY DEF Registry
<1>. DEFINE Quiet == /\ JobsKept /\ credits' = credits
                     /\ \A s \in Sessions : session'[s].pc = "registered" =>
                          /\ session[s].pc = "registered"
                          /\ session'[s].sub = session[s].sub /\ session'[s].job = session[s].job
<1>1. CASE Quiet
  <2>1. \A a \in DOMAIN credits : credits'[a] = credits[a] /\ CreditKey(a)' = CreditKey(a)
    BY <1>1 DEF CreditKey, KeyFor
  <2>2. \A s \in Sessions : Registered(s)' => /\ Registered(s) /\ session'[s].job = session[s].job
                                              /\ SessionKey(s)' = SessionKey(s)
    BY <1>1 DEF Registered, SessionKey, KeyFor
  <2>3. \A j, key : OnRecord(j, key) => j \in DOMAIN jobs' /\ key \in jobs'[j].seen
    BY <1>1 DEF JobsKept, OnRecord
  <2>4. \A a \in DOMAIN credits : OnRecord(credits[a].job, CreditKey(a))'
    BY <1>0, <2>1, <2>3 DEF OnRecordOnce, OnRecord
  <2>5. \A s \in Sessions : Registered(s)' => OnRecord(session[s].job, SessionKey(s))'
    BY <1>0, <2>2, <2>3 DEF OnRecordOnce, OnRecord
  <2>. QED
    BY <1>0, <1>1, <2>1, <2>2, <2>4, <2>5 DEF OnRecordOnce
<1>2. CASE \E s \in Sessions : SessionFine(s) /\ Registers(s)
  <2>1. PICK s \in Sessions : SessionFine(s) /\ Registers(s)
    BY <1>2
  <2>. DEFINE j == session[s].job
              key == SessionKey(s)
  <2>2. /\ j \in DOMAIN jobs /\ jobs \in Seq(JobRecord) /\ jobs[j] \in JobRecord
        /\ key \notin jobs[j].seen /\ jobs' = [jobs EXCEPT ![j].seen = @ \union {key}]
    <3>1. key = KeyOf(s)
      BY KeyIsKeyFor
    <3>2. j \in DOMAIN jobs /\ jobs \in Seq(JobRecord)
      BY <2>1 DEF Registers, TypeInv, Pending
    <3>. QED
      BY <2>1, <3>1, <3>2 DEF Registers, SeenBy
  <2>3. JobsKept /\ credits' = credits /\ Others(s)
    BY <2>1 DEF SessionFine, Registers
  <2>4. session'[s].job = j /\ SessionKey(s)' = key
    BY <2>1 DEF Registers, SessionKey, KeyFor
  <2>5. j \in DOMAIN jobs' /\ key \in jobs'[j].seen
    BY <2>2 DEF JobRecord
  <2>. HIDE DEF key, j
  <2>6. \A a \in DOMAIN credits : credits'[a] = credits[a] /\ CreditKey(a)' = CreditKey(a)
    BY <2>3 DEF CreditKey, KeyFor
  <2>7. \A t \in Sessions \ {s} : /\ Registered(t)' <=> Registered(t) /\ session'[t].job = session[t].job
                                   /\ SessionKey(t)' = SessionKey(t)
    BY <2>3 DEF Others, Registered, SessionKey, KeyFor
  <2>8. \A i, k : OnRecord(i, k) => i \in DOMAIN jobs' /\ k \in jobs'[i].seen
    BY <2>3 DEF JobsKept, OnRecord
  <2>9. \A a \in DOMAIN credits : OnRecord(credits[a].job, CreditKey(a))'
    BY <1>0, <2>6, <2>8 DEF OnRecordOnce, OnRecord
  <2>10. \A t \in Sessions : Registered(t)' => OnRecord(session[t].job, SessionKey(t))'
    BY <1>0, <2>4, <2>5, <2>7, <2>8 DEF OnRecordOnce, OnRecord
  <2>11. \A a \in DOMAIN credits : credits[a].job # j \/ CreditKey(a) # key
    BY <1>0, <2>2 DEF OnRecordOnce, OnRecord
  <2>12. \A t \in Sessions \ {s} : Registered(t) => session[t].job # j \/ SessionKey(t) # key
    BY <1>0, <2>2 DEF OnRecordOnce, OnRecord
  <2>13. \A a \in DOMAIN credits, t \in Sessions :
           Registered(t)' => credits[a].job # session'[t].job \/ CreditKey(a) # SessionKey(t)'
    BY <1>0, <2>4, <2>7, <2>11 DEF OnRecordOnce
  <2>14. \A t, u \in Sessions :
           t # u /\ Registered(t)' /\ Registered(u)' =>
             session'[t].job # session'[u].job \/ SessionKey(t)' # SessionKey(u)'
    BY <1>0, <2>4, <2>7, <2>12 DEF OnRecordOnce
  <2>. QED
    BY <1>0, <2>3, <2>6, <2>9, <2>10, <2>13, <2>14 DEF OnRecordOnce
<1>3. CASE \E s \in Sessions : SessionFine(s) /\ Rewards(s)
  <2>1. PICK s \in Sessions : SessionFine(s) /\ Rewards(s)
    BY <1>3
  <2>2. PICK c : /\ credits' = Append(credits, c) /\ c.job = session[s].job
                 /\ KeyFor(c.prefix, c.nonce) = SessionKey(s)
    BY <2>1 DEF Rewards, SessionKey
  <2>3. /\ jobs' = jobs /\ Others(s) /\ Registered(s) /\ ~Registered(s)'
    BY <2>1 DEF SessionFine, Rewards, Registered
  <2>4. PICK n \in Nat : /\ DOMAIN credits = 1..n /\ DOMAIN credits' = 1..(n + 1)
                         /\ \A a \in 1..n : credits'[a] = credits[a]
                         /\ credits'[n + 1] = c
    <3>1. /\ Len(credits) \in Nat /\ DOMAIN credits = 1..Len(credits) /\ DOMAIN credits' = 1..(Len(credits) + 1)
          /\ \A a \in 1..Len(credits) : credits'[a] = credits[a]
          /\ credits'[Len(credits) + 1] = c
      BY <2>2 DEF TypeInv
    <3>. QED
      BY <3>1
  <2>5. \A a \in 1..n : CreditKey(a)' = CreditKey(a)
    BY <2>4 DEF CreditKey, KeyFor
  <2>6. CreditKey(n + 1)' = SessionKey(s) /\ credits'[n + 1].job = session[s].job
    BY <2>2, <2>4 DEF CreditKey, KeyFor
  <2>7. \A t \in Sessions : Registered(t)' => /\ t # s /\ Registered(t) /\ session'[t].job = session[t].job
                                              /\ SessionKey(t)' = SessionKey(t)
    BY <2>3 DEF Others, Registered, SessionKey, KeyFor
  <2>8. \A a \in 1..(n + 1) : a = n + 1 \/ a \in 1..n
    BY <2>4
  <2>9. \A a \in 1..(n + 1) : OnRecord(credits[a].job, CreditKey(a))'
    BY <1>0, <2>3, <2>4, <2>5, <2>6, <2>8 DEF OnRecordOnce, OnRecord
  <2>10. \A t \in Sessions : Registered(t)' => OnRecord(session[t].job, SessionKey(t))'
    BY <1>0, <2>3, <2>7 DEF OnRecordOnce, OnRecord
  <2>11. \A a \in 1..n : credits[a].job # session[s].job \/ CreditKey(a) # SessionKey(s)
    BY <1>0, <2>3, <2>4 DEF OnRecordOnce
  <2>12. \A a, b \in 1..(n + 1) :
           a # b => credits'[a].job # credits'[b].job \/ CreditKey(a)' # CreditKey(b)'
    BY <1>0, <2>4, <2>5, <2>6, <2>8, <2>11 DEF OnRecordOnce
  <2>13. \A a \in 1..(n + 1), t \in Sessions :
           Registered(t)' => credits'[a].job # session'[t].job \/ CreditKey(a)' # SessionKey(t)'
    BY <1>0, <2>3, <2>4, <2>5, <2>6, <2>7, <2>8 DEF OnRecordOnce
  <2>14. \A t, u \in Sessions :
           t # u /\ Registered(t)' /\ Registered(u)' =>
             session'[t].job # session'[u].job \/ SessionKey(t)' # SessionKey(u)'
    BY <1>0, <2>7 DEF OnRecordOnce
  <2>. QED
    BY <2>4, <2>9, <2>10, <2>12, <2>13, <2>14 DEF OnRecordOnce
<1>4. CASE WorkFine
  BY <1>1, <1>4 DEF WorkFine, SameSession
<1>5. CASE \E s \in Sessions : SessionFine(s) /\ (Calm(s) \/ Deafens(s))
  BY <1>1, <1>5 DEF SessionFine, Calm, Deafens, Others
<1>6. CASE UNCHANGED vars
  BY <1>1, <1>6, SameJobs DEF vars, engineVars
<1>. QED
  BY <1>2, <1>3, <1>4, <1>5, <1>6, StepFine

LEMMA RegistryAlways == Spec => []Registry
<1>1. Init => Registry
  BY InitFacts DEF Registry, OnRecordOnce, Registered
<1>2. TypeInv /\ Registry /\ [Next]_vars => Registry'
  BY RegistryStep
<1>. QED
  BY <1>1, <1>2, TypeInvAlways, PTL DEF Spec

LEMMA RegistryCredits ==
  ASSUME Registry
  PROVE  CreditedOncePerJob
  BY DEF Registry, OnRecordOnce, CreditKey, KeyFor, CreditedOncePerJob

(* One nonce earns at most one credit on one job, however the sessions that *)
(* submit it interleave between the lookup, the registration and the proof  *)
(* of work (OnSubmit of the engines that key the number, not its text).     *)
THEOREM NonceCreditedOnce == Spec => []CreditedOncePerJob
<1>1. Registry => CreditedOncePerJob
  BY RegistryCredits
<1>. QED
  BY <1>1, RegistryAlways, PTL
-----------------------------------------------------------------------------
(* One job per work.  With a single watcher the templates it fetches only   *)
(* grow, so what differs from the current job differs from every job.       *)
Rank(template) == IF engine = "ergo" THEN template.rev ELSE template.tip

(* of the templates a node hands out, the first no later than the second *)
NoLater(x, y) == x.tip <= y.tip /\ x.rev <= y.rev /\ (x.rev = y.rev => x.tip = y.tip)

(* The engines that compare a template with the current job, polled only. *)
Compares == engine \in {"kawpow", "equihash", "cryptonote", "ergo"} /\ ~budget.events

OnlyPoll == \A w \in {"event", "stream"} : source[w].pc = "idle"
LastServed == Len(jobs) >= 1 /\ cur = {Len(jobs)}
Rising == \A i, j \in DOMAIN jobs : i < j => Rank(jobs[i].template) < Rank(jobs[j].template)
JobsOfNode == \A j \in DOMAIN jobs : NoLater(jobs[j].template, node)
FetchedLater ==
  source["poll"].pc \in {"fetched", "accepted"} =>
    /\ NoLater(source["poll"].template, node)
    /\ \A j \in DOMAIN jobs : NoLater(jobs[j].template, source["poll"].template)
AcceptedNew ==
  source["poll"].pc = "accepted" =>
    \A j \in DOMAIN jobs : Rank(jobs[j].template) < Rank(source["poll"].template)

JobPerWork == Compares => OnlyPoll /\ LastServed /\ Rising /\ JobsOfNode /\ FetchedLater /\ AcceptedNew

LEMMA ComparingWork ==
  ASSUME Compares
  PROVE  /\ Work.sources = {"poll"}
         /\ Work.keyed = IF engine = "ergo" THEN "rev" ELSE "tip"
<1>1. CASE engine = "kawpow"
  BY <1>1 DEF Compares, Work, KawpowWork, Watched, Polled
<1>2. CASE engine = "equihash"
  BY <1>2 DEF Compares, Work, EquihashWork, Watched, Polled
<1>3. CASE engine = "cryptonote"
  BY <1>3 DEF Compares, Work, CryptonoteWork, Watched, Polled
<1>4. CASE engine = "ergo"
  BY <1>4 DEF Compares, Work, ErgoWork, Polled
<1>. QED
  BY <1>1, <1>2, <1>3, <1>4 DEF Compares

LEMMA JobTemplates ==
  ASSUME TypeInv
  PROVE  /\ \A j \in DOMAIN jobs : jobs[j].template \in Templates
         /\ \A w \in Sources : source[w].template \in Templates
         /\ node \in Templates /\ Len(jobs) \in Nat /\ DOMAIN jobs = 1..Len(jobs)
         /\ \A x \in Templates : x.tip \in Nat /\ x.rev \in Nat /\ Rank(x) \in Nat
<1>1. \A j \in DOMAIN jobs : jobs[j] \in JobRecord
  BY DEF TypeInv
<1>2. \A w \in Sources : source[w] \in SourceRecord
  BY DEF TypeInv
<1>3. \A x \in Templates : x.tip \in Nat /\ x.rev \in Nat
  BY DEF Templates
<1>. QED
  BY <1>1, <1>2, <1>3 DEF JobRecord, SourceRecord, TypeInv, Rank

(* A session leaves all of it alone. *)
LEMMA SessionKeepsJobs ==
  ASSUME TypeInv, JobPerWork, NEW s \in Sessions, SessionFine(s)
  PROVE  JobPerWork'
<1>. SUFFICES ASSUME Compares
              PROVE  (OnlyPoll /\ LastServed /\ Rising /\ JobsOfNode /\ FetchedLater /\ AcceptedNew)'
  BY DEF JobPerWork, Compares, SessionFine, BudgetFine
<1>1. /\ DOMAIN jobs' = DOMAIN jobs /\ Len(jobs') = Len(jobs)
      /\ \A j \in DOMAIN jobs : jobs'[j].template = jobs[j].template
  BY DEF SessionFine, JobsKept, TypeInv
<1>2. UNCHANGED <<engine, node, cur, source>>
  BY DEF SessionFine
<1>3. Rising'
  BY <1>1, <1>2 DEF JobPerWork, Rising, Rank
<1>4. JobsOfNode' /\ FetchedLater'
  BY <1>1, <1>2 DEF JobPerWork, JobsOfNode, FetchedLater, NoLater
<1>5. AcceptedNew'
  BY <1>1, <1>2 DEF JobPerWork, AcceptedNew, Rank
<1>6. OnlyPoll' /\ LastServed'
  BY <1>1, <1>2 DEF JobPerWork, OnlyPoll, LastServed
<1>. QED
  BY <1>3, <1>4, <1>5, <1>6

LEMMA FetchKeepsJobs ==
  ASSUME TypeInv, JobPerWork, Compares, NEW w \in Sources, Fetch(w)
  PROVE  (OnlyPoll /\ LastServed /\ Rising /\ JobsOfNode /\ FetchedLater /\ AcceptedNew)'
<1>1. w = "poll" /\ UNCHANGED <<engine, node, jobs, cur>>
  BY ComparingWork DEF Fetch, engineVars
<1>2. source \in [Sources -> SourceRecord] /\ "poll" \in Sources /\ source["poll"] \in SourceRecord
  BY DEF TypeInv, Sources
<1>. DEFINE r == [source["poll"] EXCEPT !.pc = "fetched", !.template = node]
<1>3. source' = [source EXCEPT !["poll"] = r]
  BY <1>1, <1>2 DEF Fetch
<1>4. r.pc = "fetched" /\ r.template = node
  BY <1>2 DEF SourceRecord
<1>. HIDE DEF r
<1>5. source'["poll"] = r /\ source'["event"] = source["event"] /\ source'["stream"] = source["stream"]
  BY <1>2, <1>3 DEF Sources
<1>6. OnlyPoll' /\ LastServed' /\ Rising' /\ JobsOfNode'
  BY <1>1, <1>5 DEF JobPerWork, OnlyPoll, LastServed, Rising, Rank, JobsOfNode, NoLater
<1>7. FetchedLater'
  <2>1. NoLater(node, node) /\ \A j \in DOMAIN jobs : NoLater(jobs[j].template, node)
    BY JobTemplates DEF JobPerWork, JobsOfNode, NoLater
  <2>. QED
    BY <1>1, <1>4, <1>5, <2>1 DEF FetchedLater, NoLater
<1>8. AcceptedNew'
  BY <1>4, <1>5 DEF AcceptedNew
<1>. QED
  BY <1>6, <1>7, <1>8

LEMMA AcceptKeepsJobs ==
  ASSUME TypeInv, JobPerWork, Compares, NEW w \in Sources, Accept(w)
  PROVE  (OnlyPoll /\ LastServed /\ Rising /\ JobsOfNode /\ FetchedLater /\ AcceptedNew)'
<1>1. w = "poll" /\ source["poll"].pc = "fetched" /\ UNCHANGED <<engine, node, jobs, cur>>
  BY DEF Accept, JobPerWork, OnlyPoll, Sources
<1>2. source \in [Sources -> SourceRecord] /\ "poll" \in Sources /\ source["poll"] \in SourceRecord
  BY DEF TypeInv, Sources
<1>3. Rising' /\ JobsOfNode' /\ LastServed'
  BY <1>1 DEF JobPerWork, LastServed, Rising, Rank, JobsOfNode, NoLater
<1>4. \A v \in Sources : v # "poll" => source'[v] = source[v]
  BY <1>1, <1>2 DEF Accept
<1>5. OnlyPoll'
  BY <1>4 DEF JobPerWork, OnlyPoll, Sources
<1>6. CASE SameWork(source["poll"].template)
  <2>1. source'["poll"] = IdleSource
    BY <1>1, <1>2, <1>6 DEF Accept
  <2>. QED
    BY <1>3, <1>5, <2>1 DEF FetchedLater, AcceptedNew, IdleSource
<1>7. CASE ~SameWork(source["poll"].template)
  <2>. DEFINE t == source["poll"].template
              n == Len(jobs)
              r == [source["poll"] EXCEPT !.pc = "accepted", !.id = jobCounter + 1]
  <2>1. source' = [source EXCEPT !["poll"] = r]
    BY <1>1, <1>2, <1>7 DEF Accept
  <2>2. r.pc = "accepted" /\ r.template = t
    BY <1>2 DEF SourceRecord
  <2>. HIDE DEF r
  <2>3. source'["poll"].pc = "accepted" /\ source'["poll"].template = t
    BY <1>2, <2>1, <2>2
  <2>4. /\ t \in Templates /\ n \in 1..n /\ n \in DOMAIN jobs /\ jobs[n].template \in Templates /\ cur = {n}
        /\ t.tip \in Nat /\ t.rev \in Nat /\ jobs[n].template.tip \in Nat /\ jobs[n].template.rev \in Nat
    BY <1>2, JobTemplates DEF JobPerWork, LastServed
  <2>5. NoLater(jobs[n].template, t)
    BY <1>1, <2>4 DEF JobPerWork, FetchedLater
  <2>6. Rank(jobs[n].template) < Rank(t)
    <3>1. CASE engine = "ergo"
      <4>1. jobs[n].template # t
        BY <1>7, <2>4, <3>1, ComparingWork DEF SameWork
      <4>2. jobs[n].template.tip # t.tip \/ jobs[n].template.rev # t.rev
        BY <2>4, <4>1 DEF Templates
      <4>. QED
        BY <2>4, <2>5, <3>1, <4>2 DEF NoLater, Rank
    <3>2. CASE engine # "ergo"
      <4>1. jobs[n].template.tip # t.tip
        BY <1>7, <2>4, <3>2, ComparingWork DEF SameWork
      <4>. QED
        BY <2>4, <2>5, <3>2, <4>1 DEF NoLater, Rank
    <3>. QED
      BY <3>1, <3>2
  <2>7. \A j \in DOMAIN jobs : Rank(jobs[j].template) < Rank(t)
    <3>. SUFFICES ASSUME NEW j \in DOMAIN jobs PROVE Rank(jobs[j].template) < Rank(t)
      OBVIOUS
    <3>1. Rank(jobs[j].template) \in Nat /\ Rank(jobs[n].template) \in Nat /\ Rank(t) \in Nat
      BY <2>4, JobTemplates
    <3>2. j = n \/ j < n
      BY <2>4, JobTemplates
    <3>3. j < n => Rank(jobs[j].template) < Rank(jobs[n].template)
      BY <2>4 DEF JobPerWork, Rising
    <3>. HIDE DEF t, n
    <3>. QED
      BY <2>6, <3>1, <3>2, <3>3
  <2>8. AcceptedNew'
    BY <1>1, <2>3, <2>7 DEF AcceptedNew, Rank
  <2>9. FetchedLater'
    <3>1. NoLater(t, node) /\ \A j \in DOMAIN jobs : NoLater(jobs[j].template, t)
      BY <1>1 DEF JobPerWork, FetchedLater
    <3>. QED
      BY <1>1, <2>3, <3>1 DEF FetchedLater, NoLater
  <2>. QED
    BY <1>3, <1>5, <2>8, <2>9
<1>. QED
  BY <1>6, <1>7

LEMMA InstallKeepsJobs ==
  ASSUME TypeInv, JobPerWork, Compares, NEW w \in Sources, AcceptTemplate(w)
  PROVE  (OnlyPoll /\ LastServed /\ Rising /\ JobsOfNode /\ FetchedLater /\ AcceptedNew)'
<1>. DEFINE t == source["poll"].template
            job == MakeJob(t, source["poll"].id, jobCounter)
            n == Len(jobs)
<1>1. w = "poll" /\ source["poll"].pc = "accepted" /\ UNCHANGED <<engine, node>>
  BY DEF AcceptTemplate, JobPerWork, OnlyPoll, Sources
<1>2. source \in [Sources -> SourceRecord] /\ "poll" \in Sources /\ source["poll"] \in SourceRecord
  BY DEF TypeInv, Sources
<1>3. job \in JobRecord /\ job.template = t
  BY <1>2, MakeJobType DEF SourceRecord, TypeInv
<1>4. Install(<<job>>)
  BY <1>1 DEF AcceptTemplate
<1>5. source' = [source EXCEPT !["poll"] = Broadcasting] /\ Broadcasting.pc = "emit"
  BY <1>1 DEF AcceptTemplate, Broadcasting, IdleSource
<1>. HIDE DEF job
<1>6. <<job>> \in Seq(JobRecord) /\ Len(<<job>>) = 1 /\ DOMAIN <<job>> = {1} /\ <<job>>[1] = job
  BY <1>3
<1>7. n \in Nat /\ DOMAIN jobs = 1..n
  BY JobTemplates
<1>8. /\ jobs' \in Seq(JobRecord) /\ Len(jobs') = n + 1 /\ cur' = (n + 1)..(n + 1)
      /\ \A j \in DOMAIN jobs : jobs'[j] = jobs[j]
      /\ jobs'[n + 1] = job
  <2>1. jobs' \in Seq(JobRecord) /\ Len(jobs') = n + Len(<<job>>) /\ cur' = (n + 1)..(n + Len(<<job>>))
    BY <1>4, <1>6, InstallFacts
  <2>2. \A j \in DOMAIN jobs : jobs'[j] = jobs[j]
    BY <1>4, <1>6, InstallFacts
  <2>3. \A b \in DOMAIN <<job>> : jobs'[n + b] = <<job>>[b]
    BY <1>4, <1>6, InstallFacts
  <2>. QED
    BY <2>1, <2>2, <2>3, <1>6
<1>. HIDE DEF n, t
<1>9. DOMAIN jobs' = 1..(n + 1) /\ (\A j \in 1..(n + 1) : j = n + 1 \/ j \in 1..n) /\ cur' = {n + 1} /\ n + 1 >= 1
  BY <1>7, <1>8
<1>10. LastServed'
  BY <1>8, <1>9 DEF LastServed
<1>11. \A j \in 1..n : Rank(jobs[j].template) < Rank(t)
  BY <1>1, <1>7 DEF JobPerWork, AcceptedNew, t
<1>12. Rising'
  <2>1. \A x : Rank(x)' = Rank(x)
    BY <1>1 DEF Rank
  <2>2. \A i, j \in 1..n : i < j => Rank(jobs[i].template) < Rank(jobs[j].template)
    BY <1>7 DEF JobPerWork, Rising
  <2>3. \A i \in 1..n : ~(n + 1 < i) /\ i # n + 1
    BY <1>7
  <2>4. ~(n + 1 < n + 1)
    BY <1>7
  <2>5. \A j \in 1..n : jobs'[j].template = jobs[j].template
    BY <1>7, <1>8
  <2>6. jobs'[n + 1].template = t
    BY <1>3, <1>8
  <2>. SUFFICES ASSUME NEW i \in 1..(n + 1), NEW j \in 1..(n + 1), i < j
                PROVE  Rank(jobs'[i].template) < Rank(jobs'[j].template)
    BY <1>1, <1>9 DEF Rising, Rank
  <2>7. i \in 1..n
    BY <1>7
  <2>8. CASE j = n + 1
    BY <2>5, <2>6, <2>7, <2>8, <1>11
  <2>9. CASE j \in 1..n
    BY <2>2, <2>5, <2>7, <2>9
  <2>. QED
    BY <1>9, <2>8, <2>9
<1>13. JobsOfNode'
  <2>1. NoLater(t, node) /\ \A j \in 1..n : NoLater(jobs[j].template, node)
    BY <1>1, <1>7 DEF JobPerWork, FetchedLater, JobsOfNode, t
  <2>2. \A j \in 1..(n + 1) : NoLater(jobs'[j].template, node)
    BY <1>3, <1>7, <1>8, <1>9, <2>1
  <2>. QED
    BY <1>1, <1>9, <2>2 DEF JobsOfNode, NoLater
<1>14. source'["poll"].pc = "emit" /\ source'["event"] = source["event"] /\ source'["stream"] = source["stream"]
  BY <1>2, <1>5 DEF Sources, SourceRecord
<1>15. OnlyPoll' /\ FetchedLater' /\ AcceptedNew'
  BY <1>14 DEF JobPerWork, OnlyPoll, FetchedLater, AcceptedNew
<1>. QED
  BY <1>10, <1>12, <1>13, <1>15

LEMMA EmitKeepsJobs ==
  ASSUME TypeInv, JobPerWork, Compares, NEW w \in Sources, NEW s \in Sessions, Emit(w, s) \/ EmitSend(w, s)
  PROVE  (OnlyPoll /\ LastServed /\ Rising /\ JobsOfNode /\ FetchedLater /\ AcceptedNew)'
<1>1. w = "poll" /\ source["poll"].pc = "emit" /\ UNCHANGED <<engine, node, jobs, cur>>
  BY DEF Emit, EmitSend, engineVars, JobPerWork, OnlyPoll, Sources
<1>2. source \in [Sources -> SourceRecord] /\ "poll" \in Sources /\ source["poll"] \in SourceRecord
  BY DEF TypeInv, Sources
<1>. DEFINE a == [source["poll"] EXCEPT !.at = {s}, !.held = cur]
<1>3. a.pc = "emit" /\ TurnOver("poll", s).pc \in {"idle", "emit"}
  BY <1>1, <1>2, TurnOverType DEF SourceRecord
<1>4. source' = [source EXCEPT !["poll"] = a] \/ source' = [source EXCEPT !["poll"] = TurnOver("poll", s)]
  BY <1>1, <1>2 DEF Emit, EmitSend
<1>. HIDE DEF a
<1>5. source'["poll"].pc \in {"idle", "emit"} /\ \A v \in Sources : v # "poll" => source'[v] = source[v]
  BY <1>2, <1>3, <1>4
<1>. QED
  BY <1>1, <1>5 DEF JobPerWork, OnlyPoll, LastServed, Rising, Rank, JobsOfNode, NoLater, FetchedLater, AcceptedNew,
     Sources

LEMMA HangKeepsJobs ==
  ASSUME TypeInv, JobPerWork, Compares, NEW w \in Sources, FetchHangs(w)
  PROVE  (OnlyPoll /\ LastServed /\ Rising /\ JobsOfNode /\ FetchedLater /\ AcceptedNew)'
<1>1. w = "poll" /\ UNCHANGED <<engine, node, jobs, cur>>
  BY ComparingWork DEF FetchHangs, engineVars
<1>2. source \in [Sources -> SourceRecord] /\ "poll" \in Sources /\ source["poll"] \in SourceRecord
  BY DEF TypeInv, Sources
<1>3. source'["poll"].pc = "hung" /\ \A v \in Sources : v # "poll" => source'[v] = source[v]
  BY <1>1, <1>2 DEF FetchHangs, SourceRecord
<1>. QED
  BY <1>1, <1>3 DEF JobPerWork, OnlyPoll, LastServed, Rising, Rank, JobsOfNode, NoLater, FetchedLater, AcceptedNew,
     Sources

LEMMA NodeKeepsJobs ==
  ASSUME TypeInv, JobPerWork, Compares, NodeChange
  PROVE  (OnlyPoll /\ LastServed /\ Rising /\ JobsOfNode /\ FetchedLater /\ AcceptedNew)'
<1>1. UNCHANGED <<engine, jobs, cur, source>>
  BY DEF NodeChange, engineVars
<1>2. PICK tip \in {node.tip, node.tip + 1} : node' = [tip |-> tip, rev |-> node.rev + 1]
  BY DEF NodeChange
<1>3. node.tip \in Nat /\ node.rev \in Nat /\ node'.rev = node.rev + 1 /\ node'.tip = tip
  BY <1>2, JobTemplates
<1>4. \A x \in Templates : NoLater(x, node) => NoLater(x, node')
  BY <1>2, <1>3, JobTemplates DEF NoLater
<1>5. JobsOfNode'
  <2>1. \A j \in DOMAIN jobs : NoLater(jobs[j].template, node')
    BY <1>4, JobTemplates DEF JobPerWork, JobsOfNode
  <2>. QED
    BY <1>1, <2>1 DEF JobsOfNode, NoLater
<1>6. FetchedLater'
  <2>1. source["poll"].template \in Templates
    BY JobTemplates DEF Sources
  <2>. SUFFICES ASSUME source["poll"].pc \in {"fetched", "accepted"}
                PROVE  /\ NoLater(source["poll"].template, node')
                       /\ \A j \in DOMAIN jobs : NoLater(jobs[j].template, source["poll"].template)
    BY <1>1 DEF FetchedLater, NoLater
  <2>. QED
    BY <1>4, <2>1 DEF JobPerWork, FetchedLater
<1>7. OnlyPoll' /\ LastServed' /\ Rising' /\ AcceptedNew'
  BY <1>1 DEF JobPerWork, OnlyPoll, LastServed, Rising, Rank, AcceptedNew
<1>. QED
  BY <1>5, <1>6, <1>7

LEMMA JobPerWorkStep ==
  ASSUME TypeInv, JobPerWork, [Next]_vars
  PROVE  JobPerWork'
<1>1. CASE \E s \in Sessions : SessionStep(s)
  BY <1>1, SessionStepFine, SessionKeepsJobs
<1>2. CASE UNCHANGED vars
  BY <1>2 DEF vars, engineVars, JobPerWork, Compares, OnlyPoll, LastServed, Rising, Rank, JobsOfNode, NoLater,
     FetchedLater, AcceptedNew
<1>3. ASSUME WorkFine, ~Compares PROVE JobPerWork'
  BY <1>3 DEF WorkFine, BudgetFine, JobPerWork, Compares
<1>4. CASE \E w \in Sources : SourceStep(w) \/ FetchHangs(w)
  <2>1. WorkFine
    BY <1>4, FetchFine, FetchHangsFine, AcceptFine, AcceptTemplateFine, EmitFine, EmitSendFine DEF SourceStep
  <2>2. CASE Compares
    BY <1>4, <2>2, FetchKeepsJobs, HangKeepsJobs, AcceptKeepsJobs, InstallKeepsJobs, EmitKeepsJobs
       DEF SourceStep, JobPerWork
  <2>. QED
    BY <1>3, <2>1, <2>2
<1>5. CASE NodePush \/ StreamDrop \/ Reopen \/ NodeChange
  <2>1. WorkFine
    BY <1>5, NodePushFine, NodeFine
  <2>2. CASE Compares
    <3>1. NodeChange
      BY <1>5, <2>2, ComparingWork DEF NodePush, StreamDrop, Reopen
    <3>. QED
      BY <2>2, <3>1, NodeKeepsJobs DEF JobPerWork
  <2>. QED
    BY <1>3, <2>1, <2>2
<1>. QED
  BY <1>1, <1>2, <1>4, <1>5 DEF Next

(* One proof of work earns at most one credit with the engines that compare *)
(* templates and a single watcher: refresh makes one job per tip (ergo: per *)
(* message), and a job credits a nonce once.                                *)
THEOREM WorkCreditedOnce == Spec => []OneCreditPerWork
<1>1. Init => JobPerWork
  <2>. SUFFICES ASSUME Init, Compares
                PROVE  OnlyPoll /\ LastServed /\ Rising /\ JobsOfNode /\ FetchedLater /\ AcceptedNew
    BY DEF JobPerWork
  <2>1. /\ Len(jobs) = 1 /\ cur = {1} /\ TypeInv /\ node = FirstTemplate
        /\ \A j \in DOMAIN jobs : jobs[j].template = FirstTemplate
        /\ \A w \in Sources : source[w].pc = "idle"
    BY InitFacts DEF Compares
  <2>2. DOMAIN jobs = 1..1
    BY <2>1 DEF TypeInv
  <2>3. OnlyPoll /\ FetchedLater /\ AcceptedNew
    BY <2>1 DEF OnlyPoll, FetchedLater, AcceptedNew, Sources
  <2>4. LastServed /\ Rising
    BY <2>1, <2>2 DEF LastServed, Rising
  <2>5. JobsOfNode
    BY <2>1 DEF JobsOfNode, NoLater, FirstTemplate
  <2>. QED
    BY <2>3, <2>4, <2>5
<1>2. TypeInv /\ JobPerWork /\ [Next]_vars => JobPerWork'
  BY JobPerWorkStep
<1>3. TypeInv /\ JobPerWork /\ Registry => OneCreditPerWork
  <2>. SUFFICES ASSUME TypeInv, JobPerWork, Registry, Compares,
                       NEW a \in DOMAIN credits, NEW b \in DOMAIN credits, a # b,
                       WorkOf(credits[a].job) = WorkOf(credits[b].job),
                       credits[a].prefix = credits[b].prefix, credits[a].nonce = credits[b].nonce
                PROVE  FALSE
    BY DEF OneCreditPerWork, Compares
  <2>1. /\ credits[a].job \in DOMAIN jobs /\ credits[b].job \in DOMAIN jobs
        /\ credits[a].job # credits[b].job
    BY RegistryCredits DEF Registry, OnRecordOnce, OnRecord, Compares, CreditedOncePerJob
  <2>2. jobs[credits[a].job].template = jobs[credits[b].job].template
    BY DEF WorkOf
  <2>3. \A i, j \in DOMAIN jobs : i < j => Rank(jobs[i].template) < Rank(jobs[j].template)
    BY DEF JobPerWork, Rising
  <2>4. \A j \in DOMAIN jobs : Rank(jobs[j].template) \in Nat /\ j \in Nat
    BY JobTemplates
  <2>5. credits[a].job < credits[b].job \/ credits[b].job < credits[a].job
    BY <2>1, <2>4
  <2>. QED
    BY <2>1, <2>2, <2>3, <2>4, <2>5
<1>. QED
  BY <1>1, <1>2, <1>3, TypeInvAlways, RegistryAlways, PTL DEF Spec
==============================================================================
