------------------------------- MODULE Stratum -------------------------------
(***************************************************************************)
(* The bitcoin side of the stratum server: connections, difficulty, bans   *)
(* and the periodic broadcast (stratum/client.go, stratum/server.go,       *)
(* bans/banning.go).  A client is used by its own session goroutine and by *)
(* the broadcast goroutines, without a lock; every access to a shared      *)
(* difficulty is a step.  What a share is worth as work is a number, its   *)
(* achieved difficulty; jobs are the subject of module Jobs.               *)
(***************************************************************************)
EXTENDS Client

CONSTANTS Clients, Broadcasts,   \* connections; goroutines the ticker starts
          Nil,                   \* a nil *big.Float
          PortDiff, Diffs,       \* starting difficulty; what vardiff may ask for
          Achieved, NetDiff,     \* what a submitted hash may reach; a block
          TCPProxyProtocol,      \* the option: a malformed message is passed over
          MaxSubmits, MaxAuths   \* bounds, per run

ASSUME StratumDiffs == /\ PortDiff \in Nat \ {0} /\ Diffs \subseteq Nat \ {0}
                       /\ Achieved \subseteq Nat /\ NetDiff \in Nat /\ Nil \notin Nat
ASSUME StratumOptions == TCPProxyProtocol \in BOOLEAN
ASSUME StratumBounds == MaxSubmits \in Nat /\ MaxAuths \in Nat
ASSUME StratumGoroutines == Clients \intersect Broadcasts = {} /\ Nil \notin Clients

VARIABLES alive,      \* the process; log.Fatal and a runtime abort end it
          client,     \* the fields of Client that goroutines share
          proc,       \* where each goroutine is
          bannedIPs,  \* BannedIPList
          sweeping,   \* the purge goroutine is iterating over it
          credits,    \* the valid shares stored, as a set
          submits, auths

vars == <<alive, client, proc, bannedIPs, sweeping, credits, submits, auths>>

Goroutines == Clients \union Broadcasts
Unset(diff) == diff \in {Nil, 0}

NewStratumClient == [listed |-> FALSE, open |-> FALSE, reads |-> TRUE, auth |-> FALSE, cur |-> Nil,
                     prev |-> Nil, pend |-> 0, told |-> {}, idle |-> FALSE, shares |-> NoShares]
Ready == [pc |-> "ready", at |-> Nil, diff |-> Nil, then |-> Nil, left |-> {}, share |-> Nil]

Set(c, field, value) == client' = [client EXCEPT ![c][field] = value]
Goto(p, pc) == proc' = [proc EXCEPT ![p].pc = pc]
-----------------------------------------------------------------------------
(* server.go: HandleNewClient.  CheckBan's answer is not used. *)
Connect(c) ==
  /\ ~client[c].listed
  /\ client' = [client EXCEPT ![c].listed = TRUE, ![c].open = TRUE]
  /\ UNCHANGED <<alive, proc, bannedIPs, sweeping, credits, submits, auths>>

(* No submit for connectionTimeout *)
GoIdle(c) ==
  /\ client[c].listed /\ ~client[c].idle /\ proc[c].pc = "ready"
  /\ Set(c, "idle", TRUE)
  /\ UNCHANGED <<alive, proc, bannedIPs, sweeping, credits, submits, auths>>

(* The miner stops reading and the buffers between it and the pool fill up *)
StopReading(c) ==
  /\ client[c].open /\ client[c].reads
  /\ Set(c, "reads", FALSE)
  /\ UNCHANGED <<alive, proc, bannedIPs, sweeping, credits, submits, auths>>

CanRead(c) == client[c].open /\ proc[c].pc = "ready"

(* SetupSocket: how reading ends.  After an end of file, flooding or a      *)
(* malformed message the session sends on SocketClosedEvent, which nobody   *)
(* made, and stays there; after another read error it returns; behind a     *)
(* proxy a malformed message ends it with the socket left open.  The client *)
(* stays in StratumClients.                                                 *)
Hangup(c) ==
  /\ CanRead(c)
  /\ \/ \E pc \in {"blocked", "over"} :
          Set(c, "open", FALSE) /\ proc' = [proc EXCEPT ![c] = [Ready EXCEPT !.pc = pc, !.at = c]]
     \/ /\ TCPProxyProtocol /\ UNCHANGED client
        /\ proc' = [proc EXCEPT ![c] = [Ready EXCEPT !.pc = "over", !.at = c]]
  /\ UNCHANGED <<alive, bannedIPs, sweeping, credits, submits, auths>>

(* SendJsonRPC: a write without a deadline.  It returns once the miner      *)
(* reads, or with an error, which is only logged, when the socket is closed. *)
Writable(c) == client[c].reads \/ ~client[c].open

Write(p, pc, after) ==
  /\ proc[p].pc = pc /\ Writable(proc[p].at)
  /\ proc' = [proc EXCEPT ![p] = IF after = "ready" THEN Ready ELSE [proc[p] EXCEPT !.pc = after]]
  /\ UNCHANGED <<alive, client, bannedIPs, sweeping, credits, submits, auths>>

(* The answers of a session: to authorize; to a submit that is refused      *)
(* unjudged; the difficulty again after a low share; the verdict.           *)
Reply(c) == \/ Write(c, "grant", "set") \/ Write(c, "refuse", "tally")
            \/ Write(c, "warn", "vardiff") \/ Write(c, "answer", "ready")

(* Mutant: the authorized flag without the starting difficulty *)
AuthorizeOnly(c) ==
  /\ CanRead(c) /\ auths < MaxAuths /\ auths' = auths + 1
  /\ Set(c, "auth", TRUE)
  /\ UNCHANGED <<alive, proc, bannedIPs, sweeping, credits, submits>>

(* HandleAuthorize: the answer, the starting difficulty, then a job *)
HandleAuthorize(c) ==
  /\ CanRead(c) /\ auths < MaxAuths /\ auths' = auths + 1
  /\ Set(c, "auth", TRUE)
  /\ proc' = [proc EXCEPT ![c] = [Ready EXCEPT !.pc = "grant", !.at = c, !.diff = PortDiff, !.then = "job"]]
  /\ UNCHANGED <<alive, bannedIPs, sweeping, credits, submits>>
-----------------------------------------------------------------------------
(* SendMiningJob, in the session or in a broadcast: an idle client is       *)
(* closed and the goroutine blocks for good; another one gets the pending   *)
(* difficulty and then the job.                                             *)
SendMiningJob(p) ==
  LET c == proc[p].at IN
  /\ proc[p].pc = "job"
  /\ IF client[c].idle
     THEN Set(c, "open", FALSE) /\ Goto(p, "blocked")
     ELSE /\ proc' = [proc EXCEPT ![p].pc = "pending", ![p].then = "notify"]
          /\ UNCHANGED client
  /\ UNCHANGED <<alive, bannedIPs, sweeping, credits, submits, auths>>

(* Its last line, for a broadcast, for a submit with a bad nTime and for    *)
(* authorize                                                                *)
Notify(p) == \/ p \in Broadcasts /\ Write(p, "notify", "next")
             \/ p \in Clients /\ Write(p, "notify", IF proc[p].share = "bad" THEN "vardiff" ELSE "ready")

(* The block that both SendMiningJob and HandleSubmit have: test            *)
(* PendingDifficulty, read it again, SendDifficulty, set it to nil.         *)
TestPending(p) ==
  /\ proc[p].pc = "pending"
  /\ Goto(p, IF Unset(client[proc[p].at].pend) THEN proc[p].then ELSE "take")
  /\ UNCHANGED <<alive, client, bannedIPs, sweeping, credits, submits, auths>>

TakePending(p) ==
  /\ proc[p].pc = "take"
  /\ proc' = [proc EXCEPT ![p].pc = "set", ![p].diff = client[proc[p].at].pend]
  /\ UNCHANGED <<alive, client, bannedIPs, sweeping, credits, submits, auths>>

AfterSet(p) == IF proc[p].then = "job" THEN "job" ELSE "clear"

(* SendDifficulty: nil is fatal, the difficulty in force is not sent again. *)
(* The old one is kept, the new one assigned, and then the miner is told,   *)
(* if it reads.                                                             *)
SendDifficulty(p) ==
  /\ proc[p].pc = "set"
  /\ \/ proc[p].diff = Nil /\ alive' = FALSE /\ UNCHANGED proc
     \/ /\ proc[p].diff # Nil /\ UNCHANGED alive
        /\ Goto(p, IF proc[p].diff = client[proc[p].at].cur THEN AfterSet(p) ELSE "keep")
  /\ UNCHANGED <<client, bannedIPs, sweeping, credits, submits, auths>>

KeepPrevious(p) ==
  LET c == proc[p].at IN
  /\ proc[p].pc = "keep"
  /\ Set(c, "prev", client[c].cur) /\ Goto(p, "assign")
  /\ UNCHANGED <<alive, bannedIPs, sweeping, credits, submits, auths>>

AssignDifficulty(p) ==
  /\ proc[p].pc = "assign"
  /\ Set(proc[p].at, "cur", proc[p].diff) /\ Goto(p, "announce")
  /\ UNCHANGED <<alive, bannedIPs, sweeping, credits, submits, auths>>

Announce(p) ==
  LET c == proc[p].at IN
  /\ proc[p].pc = "announce" /\ Writable(c)
  /\ Set(c, "told", client[c].told \union {proc[p].diff}) /\ Goto(p, AfterSet(p))
  /\ UNCHANGED <<alive, bannedIPs, sweeping, credits, submits, auths>>


ClearPending(p) ==
  /\ proc[p].pc = "clear"
  /\ Set(proc[p].at, "pend", Nil)
  /\ proc' = [proc EXCEPT ![p].pc = proc[p].then, ![p].diff = Nil]
  /\ UNCHANGED <<alive, bannedIPs, sweeping, credits, submits, auths>>
-----------------------------------------------------------------------------
(* HandleSubmit up to the call of ProcessSubmit.  A submit before authorize *)
(* or subscribe, or with too few parameters, is refused and counted as a    *)
(* bad share.                                                               *)
HandleSubmit(c) ==
  /\ CanRead(c) /\ submits < MaxSubmits /\ submits' = submits + 1
  /\ Set(c, "idle", FALSE)
  /\ \/ proc' = [proc EXCEPT ![c] = [Ready EXCEPT !.pc = "refuse", !.at = c, !.share = "refused"]]
     \/ /\ client[c].auth
        /\ \E hash \in Achieved :
             proc' = [proc EXCEPT ![c] = [Ready EXCEPT !.pc = "judge", !.at = c, !.diff = client[c].prev,
                                                      !.share = hash]]
  /\ UNCHANGED <<alive, bannedIPs, sweeping, credits, auths>>

(* Mutant: the previous difficulty is credited whatever the hash *)
CreditPrevious(hash, prev, diff) ==
  IF hash >= NetDiff \/ hash * 100 >= diff * 99 THEN diff
  ELSE IF prev # Nil THEN prev ELSE 0

(* ProcessSubmit's last part: a block, the assigned difficulty within one   *)
(* percent, or the difficulty before the retarget; 0 when it is none.       *)
CreditFor(hash, prev, diff) ==
  IF hash >= NetDiff \/ hash * 100 >= diff * 99 THEN diff
  ELSE IF prev # Nil /\ hash >= prev THEN prev ELSE 0

(* PreviousDifficulty was read first, CurrentDifficulty now.  A low share   *)
(* is answered with the difficulty, an nTime out of range with a job, and   *)
(* there are other errors.                                                  *)
ProcessSubmit(c) ==
  /\ proc[c].pc = "judge"
  /\ LET hash == proc[c].share
         diff == CreditFor(hash, proc[c].diff, client[c].cur)
     IN  \/ /\ diff > 0
            /\ credits' = credits \union {[client |-> c, diff |-> diff, hash |-> hash]}
            /\ proc' = [proc EXCEPT ![c].pc = "vardiff", ![c].diff = Nil, ![c].share = "good"]
         \/ /\ diff = 0 /\ UNCHANGED credits
            /\ proc' = [proc EXCEPT ![c].pc = "warn", ![c].diff = Nil, ![c].share = "bad"]
         \/ /\ UNCHANGED credits
            /\ \E pc \in {"resend", "vardiff"} :
                 proc' = [proc EXCEPT ![c].pc = pc, ![c].diff = Nil, ![c].share = "bad"]
  /\ UNCHANGED <<alive, client, bannedIPs, sweeping, submits, auths>>

(* The SendMiningJob for an nTime out of range: the client is not idle, so  *)
(* what is left of it is its pending difficulty and the job.                *)
Resend(c) ==
  /\ proc[c].pc = "resend"
  /\ proc' = [proc EXCEPT ![c].pc = "pending", ![c].then = "notify"]
  /\ UNCHANGED <<alive, client, bannedIPs, sweeping, credits, submits, auths>>

(* Mutant: vardiff's difficulty takes effect at once *)
RetargetNow(c) ==
  /\ proc[c].pc = "vardiff"
  /\ \E next \in Diffs : Set(c, "cur", next)
  /\ proc' = [proc EXCEPT ![c].pc = "pending", ![c].then = "tally"]
  /\ UNCHANGED <<alive, bannedIPs, sweeping, credits, submits, auths>>

(* CalcNextDiff, EnqueueNextDifficulty *)
Retarget(c) ==
  /\ proc[c].pc = "vardiff"
  /\ \E next \in Diffs \union {0, client[c].cur} :
       Set(c, "pend", IF next \in {0, client[c].cur} THEN client[c].pend ELSE next)
  /\ proc' = [proc EXCEPT ![c].pc = "pending", ![c].then = "tally"]
  /\ UNCHANGED <<alive, bannedIPs, sweeping, credits, submits, auths>>

(* ShouldBan.  The ban map has no lock: to write it while the purge iterates *)
(* may end the process.  The ban blocks the session before the socket is     *)
(* closed.                                                                   *)
Banish(c) ==
  /\ bannedIPs' = bannedIPs \union {c}
  /\ Goto(c, "blocked")
  /\ alive' \in IF sweeping THEN BOOLEAN ELSE {alive}

TallyShare(c) ==
  LET ok == proc[c].share = "good" IN
  /\ proc[c].pc = "tally"
  /\ Set(c, "shares", Tally(client[c].shares, ok))
  /\ IF ShouldBan(client[c].shares, ok) THEN Banish(c)
     ELSE /\ proc' = [proc EXCEPT ![c] = IF proc[c].share = "refused" THEN Ready
                                         ELSE [proc[c] EXCEPT !.pc = "answer"]]
          /\ UNCHANGED <<alive, bannedIPs>>
  /\ UNCHANGED <<sweeping, credits, submits, auths>>

(* bans/banning.go: the purge of expired bans *)
Purge ==
  /\ \/ ~sweeping /\ bannedIPs # {} /\ sweeping' = TRUE /\ UNCHANGED bannedIPs
     \/ sweeping /\ sweeping' = FALSE /\ bannedIPs' \in SUBSET bannedIPs
  /\ UNCHANGED <<alive, client, proc, credits, submits, auths>>
-----------------------------------------------------------------------------
(* server.go: each tick starts a goroutine over a snapshot of the clients *)
StartBroadcast(b) ==
  /\ proc[b].pc = "ready"
  /\ proc' = [proc EXCEPT ![b].pc = "next", ![b].left = {c \in Clients : client[c].listed}]
  /\ UNCHANGED <<alive, client, bannedIPs, sweeping, credits, submits, auths>>

NextClient(b) ==
  /\ proc[b].pc = "next"
  /\ \/ proc[b].left = {} /\ proc' = [proc EXCEPT ![b] = Ready]
     \/ \E c \in proc[b].left :
          proc' = [proc EXCEPT ![b] = [Ready EXCEPT !.pc = "job", !.at = c, !.left = proc[b].left \ {c}]]
  /\ UNCHANGED <<alive, client, bannedIPs, sweeping, credits, submits, auths>>
-----------------------------------------------------------------------------
Init ==
  /\ alive = TRUE
  /\ client = [c \in Clients |-> NewStratumClient]
  /\ proc = [p \in Goroutines |-> Ready]
  /\ bannedIPs = {} /\ sweeping = FALSE
  /\ credits = {} /\ submits = 0 /\ auths = 0

(* What a goroutine does on its own, once it is in a handler *)
Run(p) == \/ SendMiningJob(p) \/ TestPending(p) \/ TakePending(p) \/ SendDifficulty(p)
          \/ KeepPrevious(p) \/ AssignDifficulty(p) \/ Announce(p) \/ ClearPending(p) \/ Notify(p)
          \/ p \in Clients /\ (ProcessSubmit(p) \/ Resend(p) \/ Retarget(p) \/ TallyShare(p) \/ Reply(p))
          \/ p \in Broadcasts /\ NextClient(p)

Next == alive /\ \/ \E p \in Goroutines : Run(p)
                 \/ \E c \in Clients : \/ Connect(c) \/ GoIdle(c) \/ StopReading(c)
                                       \/ Hangup(c) \/ HandleAuthorize(c) \/ HandleSubmit(c)
                 \/ \E b \in Broadcasts : StartBroadcast(b)
                 \/ Purge

Spec == Init /\ [][Next]_vars

(* The Go scheduler runs every goroutine that can run.  A write to a miner  *)
(* that does not read, or a send on the channel nobody made, cannot run.    *)
FairSpec == Spec /\ \A p \in Goroutines : WF_vars(alive /\ Run(p))
-----------------------------------------------------------------------------
Shared == [listed : BOOLEAN, open : BOOLEAN, reads : BOOLEAN, auth : BOOLEAN, cur : Nat \union {Nil}, prev : Nat \union {Nil},
           pend : Nat \union {Nil}, told : SUBSET Nat, idle : BOOLEAN, shares : [valid : Nat, invalid : Nat]]

(* Every field has its type, and no share is judged before its client has a *)
(* difficulty: HandleSubmit would dereference a nil CurrentDifficulty.      *)
TypeOK ==
  /\ alive \in BOOLEAN /\ sweeping \in BOOLEAN /\ bannedIPs \subseteq Clients
  /\ client \in [Clients -> Shared]
  /\ \A c \in Clients : proc[c].pc \in {"judge", "warn", "vardiff"} => client[c].cur # Nil
  /\ submits \in 0..MaxSubmits /\ auths \in 0..MaxAuths

Announcing(c) == {proc[p].diff : p \in {q \in Goroutines : proc[q].pc = "announce" /\ proc[q].at = c}}

(* A share is credited at a difficulty its miner was told, or is just being *)
(* told by the goroutine that assigned it, and which the hash reached within *)
(* the one percent of ProcessSubmit unless it solved a block: no order of   *)
(* session and broadcasts credits a share at a difficulty still pending.    *)
CreditAnnounced ==
  \A credit \in credits :
    /\ credit.diff \in client[credit.client].told \union Announcing(credit.client)
    /\ credit.hash >= NetDiff \/ credit.hash * 100 >= credit.diff * 99

(* The two difficulties a share is judged by, CurrentDifficulty and         *)
(* PreviousDifficulty, are each one that SendDifficulty sent the miner, or  *)
(* is sending at this moment: however session and broadcasts interleave in  *)
(* its unlocked writes, no pending difficulty is in force before it is      *)
(* announced.  It does not say that PreviousDifficulty is the one before:   *)
(* two goroutines in SendDifficulty at once may overwrite it.               *)
InForceWasTold ==
  \A c \in Clients : {client[c].cur, client[c].prev} \subseteq
                         client[c].told \union Announcing(c) \union {Nil}

(* a write that waits for a miner who stopped reading, in SendJsonRPC *)
Writing(p) == /\ proc[p].pc \in {"grant", "refuse", "warn", "announce", "notify", "answer"}
              /\ ~Writable(proc[p].at)

(* a send on SocketClosedEvent: for a session after Hangup or a ban, for a  *)
(* broadcast at a client that was silent for connectionTimeout              *)
Abandoned(p) == proc[p].pc = "blocked" /\ (p \in Clients \/ client[proc[p].at].idle)


(* SendDifficulty is never given a nil difficulty: what its log.Fatal takes *)
(* for impossible.                                                          *)
NeverEmptyDiff == \A p \in Goroutines : proc[p].pc = "set" => proc[p].diff # Nil
==============================================================================
