---------------------------- MODULE StratumProofs ----------------------------
(***************************************************************************)
(* What TLAPS proves of the bitcoin sessions, for any number of clients    *)
(* and of broadcasts under way, any difficulties and any number of         *)
(* submits: whichever way the unlocked reads and writes of a client's      *)
(* difficulties interleave, and whoever stops reading, no share is         *)
(* credited at a difficulty its miner was not told.                        *)
(***************************************************************************)
EXTENDS Stratum, TLAPS

(* Where a goroutine may be, and where it goes on after a pending           *)
(* difficulty.                                                              *)
After == {"notify", "tally"}
Pcs == After \union {"ready", "next", "grant", "set", "job", "pending", "take", "keep", "assign", "announce",
                     "clear", "refuse", "judge", "warn", "resend", "vardiff", "answer", "blocked", "over"}

Process == [pc : Pcs, at : Clients \union {Nil}, diff : Nat \union {Nil}, then : After \union {"job", Nil},
            left : SUBSET Clients, share : Achieved \union {"good", "bad", "refused", Nil}]

(* The goroutine's own state: a session works on its own client, one in a   *)
(* handler has a client, and a difficulty to be assigned is one.            *)
Locals(p, s) ==
  /\ p \in Clients => s.at \in {p, Nil}
  /\ s.pc \notin {"ready", "next"} => s.at # Nil
  /\ s.pc \in {"pending", "take", "clear"} => s.then \in After
  /\ s.pc \in {"set", "keep", "assign", "announce"} => s.then \in After \union {"job"}
  /\ s.pc = "grant" => s.then = "job"
  /\ s.pc \in {"keep", "assign", "announce"} => s.diff # Nil
  /\ s.pc = "judge" => s.share \in Achieved

TypeInv ==
  /\ client \in [Clients -> Shared] /\ proc \in [Goroutines -> Process]
  /\ \A p \in Goroutines : Locals(p, proc[p])

(* The client was told the difficulty, or is being told. *)
Voiced(c, d) ==
  \/ d \in client[c].told
  \/ \E p \in Goroutines : proc[p].pc = "announce" /\ proc[p].at = c /\ proc[p].diff = d

(* Whom a goroutine works on is a listed client. *)
Listed ==
  /\ \A c \in Clients : client[c].open => client[c].listed
  /\ \A p \in Goroutines : /\ proc[p].at # Nil => client[proc[p].at].listed
                           /\ \A c \in proc[p].left : client[c].listed

(* An authorized client has a difficulty, once its session has assigned it; *)
(* only authorized clients get as far as a judgement.                       *)
Assigning(c) == proc[c].pc \in {"grant", "set", "keep", "assign"} /\ proc[c].then = "job"
Judging(c) == \/ proc[c].pc \in {"judge", "resend", "warn", "vardiff"}
              \/ /\ proc[c].pc \in {"grant", "set", "keep", "assign", "announce", "job", "pending", "take", "clear",
                                    "notify"}
                 /\ proc[c].share = "bad"
HasDiff ==
  \A c \in Clients : /\ Judging(c) => client[c].auth
                     /\ client[c].auth /\ ~Assigning(c) => client[c].cur # Nil

(* What a share may be credited at was voiced: both difficulties of the     *)
(* client, the previous one a session has read, and every credit.           *)
AllVoiced ==
  /\ \A c \in Clients : /\ client[c].cur = Nil \/ Voiced(c, client[c].cur)
                        /\ client[c].prev = Nil \/ Voiced(c, client[c].prev)
                        /\ proc[c].pc = "judge" => proc[c].diff = Nil \/ Voiced(c, proc[c].diff)
  /\ \A credit \in credits :
       /\ credit.client \in Clients /\ Voiced(credit.client, credit.diff)
       /\ credit.hash >= NetDiff \/ credit.hash * 100 >= credit.diff * 99

StratumInv == TypeInv /\ Listed /\ HasDiff /\ AllVoiced
-----------------------------------------------------------------------------
(* Every action moves one goroutine and at most one client.  What such a   *)
(* step has to respect for the invariant to survive it:                    *)

Only(p) == \A q \in Goroutines \ {p} : proc'[q] = proc[q]

(* the client: what was told stays told, a listed client stays listed and   *)
(* is not opened again, a new difficulty is being announced.                *)
ClientFine(p, c) ==
  /\ client[c].told \subseteq client'[c].told
  /\ client[c].listed => client'[c].listed
  /\ client'[c].open => client'[c].listed /\ (client[c].open \/ ~client[c].listed)
  /\ client[c].auth => client'[c].auth
  /\ client'[c].auth = client[c].auth \/ p = c
  /\ \/ client'[c].cur = client[c].cur
     \/ /\ client'[c].cur # Nil /\ client'[c].cur = proc'[p].diff
        /\ proc'[p].pc = "announce" /\ proc'[p].at = c
  /\ client'[c].prev \in {client[c].prev, client[c].cur}
  /\ client'[c].shares = client[c].shares \/ p = c

(* the goroutine: it works on listed clients, its announcement is made, and *)
(* a session judges with the difficulties of an authorized client.          *)
GoroutineFine(p) ==
  /\ proc[p].pc = "announce" /\ proc'[p] # proc[p] => proc[p].diff \in client'[proc[p].at].told
  /\ proc'[p].at # Nil => client'[proc'[p].at].listed
  /\ \A d \in proc'[p].left : client'[d].listed
  /\ p \in Clients => /\ Judging(p)' => client'[p].auth
                      /\ client'[p].auth /\ ~Assigning(p)' => client'[p].cur # Nil
                      /\ proc'[p].pc = "judge" /\ proc'[p] # proc[p] => proc'[p].diff = client[p].prev

Fine(p, c) ==
  /\ client' \in [Clients -> Shared] /\ \A d \in Clients \ {c} : client'[d] = client[d]
  /\ proc' \in [Goroutines -> Process] /\ Only(p) /\ Locals(p, proc'[p])
  /\ c \in Clients => ClientFine(p, c)
  /\ GoroutineFine(p)

CreditsFine ==
  \A credit \in credits' \ credits :
    /\ credit.client \in Clients /\ Voiced(credit.client, credit.diff)
    /\ credit.hash >= NetDiff \/ credit.hash * 100 >= credit.diff * 99

(* Voiced after the step *)
Voiced1(c, d) ==
  \/ d \in client'[c].told
  \/ \E p \in Goroutines : proc'[p].pc = "announce" /\ proc'[p].at = c /\ proc'[p].diff = d

(* What was voiced stays so: an announcement ends in told. *)
LEMMA VoicedStays ==
  ASSUME StratumInv, NEW p \in Goroutines, NEW c, Fine(p, c), NEW d \in Clients, NEW x, Voiced(d, x)
  PROVE  Voiced1(d, x)
  <1>1. client[d].told \subseteq client'[d].told
    BY DEF Fine, ClientFine
  <1>2. CASE x \in client[d].told
    BY <1>1, <1>2 DEF Voiced1
  <1>3. ASSUME NEW q \in Goroutines, proc[q].pc = "announce", proc[q].at = d, proc[q].diff = x
        PROVE  Voiced1(d, x)
    <2>1. CASE proc'[q] # proc[q]
      BY <1>3, <2>1 DEF Voiced1, Fine, GoroutineFine, Only
    <2>2. CASE proc'[q] = proc[q]
      BY <1>3, <2>2 DEF Voiced1
    <2>3. QED
      BY <2>1, <2>2
  <1>4. QED
    BY <1>2, <1>3 DEF Voiced

(* A step that respects all of it keeps the invariant. *)
LEMMA FineKeeps ==
  ASSUME StratumInv, NEW p \in Goroutines, NEW c, Fine(p, c), CreditsFine
  PROVE  StratumInv'
  <1>1. TypeInv'
    BY DEF StratumInv, TypeInv, Fine, Only
  <1>2. ASSUME NEW d \in Clients
        PROVE  /\ client[d].listed => client'[d].listed
               /\ client'[d].open => client'[d].listed /\ (client[d].open \/ ~client[d].listed)
               /\ client[d].auth => client'[d].auth
               /\ d # p => client'[d].auth = client[d].auth /\ client'[d].shares = client[d].shares
               /\ client[d].cur # Nil => client'[d].cur # Nil
    BY DEF StratumInv, Listed, Fine, ClientFine
  <1>3. ASSUME NEW q \in Goroutines \ {p}
        PROVE  proc'[q] = proc[q] /\ proc[q].at \in Clients \union {Nil} /\ proc[q].left \subseteq Clients
    BY DEF Fine, Only, StratumInv, TypeInv, Process
  <1>4. Listed'
    <2>1. \A d \in Clients : client'[d].open => client'[d].listed
      BY <1>2
    <2>2. ASSUME NEW q \in Goroutines
          PROVE  /\ proc'[q].at # Nil => client'[proc'[q].at].listed
                 /\ \A d \in proc'[q].left : client'[d].listed
      <3>1. CASE q = p
        BY <3>1 DEF Fine, GoroutineFine
      <3>2. CASE q # p
        BY <1>2, <1>3, <3>2 DEF StratumInv, Listed
      <3>3. QED
        BY <3>1, <3>2
    <2>3. QED
      BY <2>1, <2>2 DEF Listed
  <1>5. HasDiff'
    <2>1. ASSUME NEW d \in Clients
          PROVE  /\ Judging(d)' => client'[d].auth
                 /\ client'[d].auth /\ ~Assigning(d)' => client'[d].cur # Nil
      <3>1. CASE d = p
        BY <3>1 DEF Fine, GoroutineFine
      <3>2. CASE d # p
        <4>1. d \in Goroutines \ {p}
          BY <3>2 DEF Goroutines
        <4>2. (Judging(d)' <=> Judging(d)) /\ (Assigning(d)' <=> Assigning(d))
          BY <1>3, <4>1 DEF Judging, Assigning
        <4>3. QED
          BY <1>2, <3>2, <4>2 DEF StratumInv, HasDiff
      <3>3. QED
        BY <3>1, <3>2
    <2>2. QED
      BY <2>1 DEF HasDiff
  <1>6. AllVoiced'
    <2>1. ASSUME NEW d \in Clients
          PROVE  /\ client'[d].cur = Nil \/ Voiced1(d, client'[d].cur)
                 /\ client'[d].prev = Nil \/ Voiced1(d, client'[d].prev)
                 /\ proc'[d].pc = "judge" => proc'[d].diff = Nil \/ Voiced1(d, proc'[d].diff)
      <3>1. client[d].cur = Nil \/ Voiced1(d, client[d].cur)
        BY VoicedStays DEF StratumInv, AllVoiced
      <3>2. client[d].prev = Nil \/ Voiced1(d, client[d].prev)
        BY VoicedStays DEF StratumInv, AllVoiced
      <3>3. client'[d].cur = Nil \/ Voiced1(d, client'[d].cur)
        <4>1. CASE client'[d].cur = client[d].cur
          BY <3>1, <4>1
        <4>2. CASE client'[d].cur # client[d].cur
          BY <4>2 DEF Fine, ClientFine, Voiced1
        <4>3. QED
          BY <4>1, <4>2
      <3>4. client'[d].prev \in {client[d].prev, client[d].cur}
        BY DEF Fine, ClientFine
      <3>5. proc'[d].pc = "judge" => proc'[d].diff = Nil \/ Voiced1(d, proc'[d].diff)
        <4>1. CASE proc'[d] # proc[d]
          <5>1. d = p
            BY <1>3, <4>1 DEF Goroutines
          <5>2. QED
            BY <3>2, <4>1, <5>1 DEF Fine, GoroutineFine
        <4>2. CASE proc'[d] = proc[d]
          BY <4>2, VoicedStays DEF StratumInv, AllVoiced
        <4>3. QED
          BY <4>1, <4>2
      <3>6. QED
        BY <3>1, <3>2, <3>3, <3>4, <3>5
    <2>2. ASSUME NEW credit \in credits'
          PROVE  /\ credit.client \in Clients /\ Voiced1(credit.client, credit.diff)
                 /\ credit.hash >= NetDiff \/ credit.hash * 100 >= credit.diff * 99
      <3>1. /\ credit.client \in Clients /\ Voiced(credit.client, credit.diff)
            /\ credit.hash >= NetDiff \/ credit.hash * 100 >= credit.diff * 99
        BY DEF CreditsFine, StratumInv, AllVoiced
      <3>2. QED
        BY <3>1, VoicedStays
    <2>3. QED
      BY <2>1, <2>2 DEF AllVoiced, Voiced, Voiced1
  <1>7. QED
    BY <1>1, <1>4, <1>5, <1>6 DEF StratumInv

-----------------------------------------------------------------------------
(* The ways an action moves a goroutine or a client.                       *)

(* A goroutine takes a state of its type. *)
LEMMA PutProc ==
  ASSUME proc \in [Goroutines -> Process], NEW p \in Goroutines, NEW s \in Process,
         proc' = [proc EXCEPT ![p] = s]
  PROVE  proc' \in [Goroutines -> Process] /\ Only(p) /\ proc'[p] = s
  BY DEF Only

(* A goroutine goes on elsewhere and keeps its locals. *)
LEMMA GotoProc ==
  ASSUME proc \in [Goroutines -> Process], NEW p \in Goroutines, NEW pc \in Pcs, Goto(p, pc)
  PROVE  /\ proc' \in [Goroutines -> Process] /\ Only(p) /\ proc'[p].pc = pc
         /\ proc'[p].at = proc[p].at /\ proc'[p].diff = proc[p].diff /\ proc'[p].then = proc[p].then
         /\ proc'[p].left = proc[p].left /\ proc'[p].share = proc[p].share
  BY DEF Goto, Only, Process

(* What Fine asks of a client that keeps its difficulties, its flags and    *)
(* its tally.                                                               *)
LEMMA SameClients ==
  ASSUME client \in [Clients -> Shared], Listed, UNCHANGED client, NEW p, NEW c
  PROVE  /\ client' \in [Clients -> Shared] /\ \A d \in Clients \ {c} : client'[d] = client[d]
         /\ c \in Clients => ClientFine(p, c)
  BY DEF Listed, ClientFine

(* The idle flag is written. *)
LEMMA SetIdle ==
  ASSUME client \in [Clients -> Shared], NEW c \in Clients, NEW v \in BOOLEAN, Set(c, "idle", v)
  PROVE  /\ client' \in [Clients -> Shared] /\ \A d \in Clients \ {c} : client'[d] = client[d]
         /\ client'[c].idle = v
         /\ client'[c].listed = client[c].listed /\ client'[c].open = client[c].open /\ client'[c].auth = client[c].auth
         /\ client'[c].cur = client[c].cur /\ client'[c].prev = client[c].prev /\ client'[c].told = client[c].told
         /\ client'[c].shares = client[c].shares
  BY DEF Set, Shared

(* The miner stops reading. *)
LEMMA SetReads ==
  ASSUME client \in [Clients -> Shared], NEW c \in Clients, NEW v \in BOOLEAN, Set(c, "reads", v)
  PROVE  /\ client' \in [Clients -> Shared] /\ \A d \in Clients \ {c} : client'[d] = client[d]
         /\ client'[c].reads = v
         /\ client'[c].listed = client[c].listed /\ client'[c].open = client[c].open /\ client'[c].auth = client[c].auth
         /\ client'[c].cur = client[c].cur /\ client'[c].prev = client[c].prev /\ client'[c].told = client[c].told
         /\ client'[c].shares = client[c].shares
  BY DEF Set, Shared

(* A socket is closed. *)
LEMMA SetOpen ==
  ASSUME client \in [Clients -> Shared], NEW c \in Clients, NEW v \in BOOLEAN, Set(c, "open", v)
  PROVE  /\ client' \in [Clients -> Shared] /\ \A d \in Clients \ {c} : client'[d] = client[d]
         /\ client'[c].open = v
         /\ client'[c].listed = client[c].listed /\ client'[c].auth = client[c].auth /\ client'[c].cur = client[c].cur
         /\ client'[c].prev = client[c].prev /\ client'[c].told = client[c].told /\ client'[c].shares = client[c].shares
  BY DEF Set, Shared

(* The authorized flag is set. *)
LEMMA SetAuth ==
  ASSUME client \in [Clients -> Shared], NEW c \in Clients, NEW v \in BOOLEAN, Set(c, "auth", v)
  PROVE  /\ client' \in [Clients -> Shared] /\ \A d \in Clients \ {c} : client'[d] = client[d]
         /\ client'[c].auth = v
         /\ client'[c].listed = client[c].listed /\ client'[c].open = client[c].open /\ client'[c].cur = client[c].cur
         /\ client'[c].prev = client[c].prev /\ client'[c].told = client[c].told /\ client'[c].shares = client[c].shares
  BY DEF Set, Shared

(* The current difficulty is written. *)
LEMMA SetCur ==
  ASSUME client \in [Clients -> Shared], NEW c \in Clients, NEW v \in Nat \union {Nil}, Set(c, "cur", v)
  PROVE  /\ client' \in [Clients -> Shared] /\ \A d \in Clients \ {c} : client'[d] = client[d]
         /\ client'[c].cur = v
         /\ client'[c].listed = client[c].listed /\ client'[c].open = client[c].open /\ client'[c].auth = client[c].auth
         /\ client'[c].prev = client[c].prev /\ client'[c].told = client[c].told /\ client'[c].shares = client[c].shares
  BY DEF Set, Shared

(* The previous difficulty is written. *)
LEMMA SetPrev ==
  ASSUME client \in [Clients -> Shared], NEW c \in Clients, NEW v \in Nat \union {Nil}, Set(c, "prev", v)
  PROVE  /\ client' \in [Clients -> Shared] /\ \A d \in Clients \ {c} : client'[d] = client[d]
         /\ client'[c].prev = v
         /\ client'[c].listed = client[c].listed /\ client'[c].open = client[c].open /\ client'[c].auth = client[c].auth
         /\ client'[c].cur = client[c].cur /\ client'[c].told = client[c].told /\ client'[c].shares = client[c].shares
  BY DEF Set, Shared

(* The pending difficulty is written. *)
LEMMA SetPend ==
  ASSUME client \in [Clients -> Shared], NEW c \in Clients, NEW v \in Nat \union {Nil}, Set(c, "pend", v)
  PROVE  /\ client' \in [Clients -> Shared] /\ \A d \in Clients \ {c} : client'[d] = client[d]
         /\ client'[c].pend = v
         /\ client'[c].listed = client[c].listed /\ client'[c].open = client[c].open /\ client'[c].auth = client[c].auth
         /\ client'[c].cur = client[c].cur /\ client'[c].prev = client[c].prev /\ client'[c].told = client[c].told
         /\ client'[c].shares = client[c].shares
  BY DEF Set, Shared

(* The miner is told a difficulty. *)
LEMMA SetTold ==
  ASSUME client \in [Clients -> Shared], NEW c \in Clients, NEW v \in SUBSET Nat, Set(c, "told", v)
  PROVE  /\ client' \in [Clients -> Shared] /\ \A d \in Clients \ {c} : client'[d] = client[d]
         /\ client'[c].told = v
         /\ client'[c].listed = client[c].listed /\ client'[c].open = client[c].open /\ client'[c].auth = client[c].auth
         /\ client'[c].cur = client[c].cur /\ client'[c].prev = client[c].prev /\ client'[c].shares = client[c].shares
  BY DEF Set, Shared

(* The tally is written. *)
LEMMA SetShares ==
  ASSUME client \in [Clients -> Shared], NEW c \in Clients, NEW v \in [valid : Nat, invalid : Nat], Set(c, "shares", v)
  PROVE  /\ client' \in [Clients -> Shared] /\ \A d \in Clients \ {c} : client'[d] = client[d]
         /\ client'[c].shares = v
         /\ client'[c].listed = client[c].listed /\ client'[c].open = client[c].open /\ client'[c].auth = client[c].auth
         /\ client'[c].cur = client[c].cur /\ client'[c].prev = client[c].prev /\ client'[c].told = client[c].told
  BY SMTT(40) DEF Set, Shared
-----------------------------------------------------------------------------
(* Action by action.                                                       *)

(* What the invariant says of one goroutine and its client. *)
LEMMA Facts ==
  ASSUME StratumInv, NEW p \in Goroutines
  PROVE  /\ client \in [Clients -> Shared] /\ proc \in [Goroutines -> Process] /\ Listed
         /\ proc[p] \in Process /\ Locals(p, proc[p])
         /\ proc[p].at # Nil => proc[p].at \in Clients /\ client[proc[p].at].listed
         /\ \A d \in proc[p].left : d \in Clients /\ client[d].listed
         /\ p \in Clients => /\ Judging(p) => client[p].auth
                             /\ client[p].auth /\ ~Assigning(p) => client[p].cur # Nil
  <1>1. client \in [Clients -> Shared] /\ proc \in [Goroutines -> Process] /\ Listed /\ Locals(p, proc[p])
    BY DEF StratumInv, TypeInv
  <1>2. proc[p] \in Process
    BY <1>1
  <1>3. proc[p].at \in Clients \union {Nil} /\ proc[p].left \subseteq Clients
    BY <1>2 DEF Process
  <1>4. /\ proc[p].at # Nil => client[proc[p].at].listed
        /\ \A d \in proc[p].left : client[d].listed
    BY <1>1 DEF Listed
  <1>5. p \in Clients => /\ Judging(p) => client[p].auth
                         /\ client[p].auth /\ ~Assigning(p) => client[p].cur # Nil
    BY DEF StratumInv, HasDiff
  <1>6. QED
    BY <1>1, <1>2, <1>3, <1>4, <1>5

LEMMA TestPendingFine ==
  ASSUME StratumInv, NEW p \in Goroutines, TestPending(p)
  PROVE  Fine(p, p) /\ CreditsFine
  <1> DEFINE next == IF Unset(client[proc[p].at].pend) THEN proc[p].then ELSE "take"
  <1>1. proc[p].pc = "pending" /\ Goto(p, next) /\ UNCHANGED client /\ credits' = credits
    BY DEF TestPending
  <1>2. next \in After \union {"take"}
    BY <1>1, Facts DEF Locals
  <1> HIDE DEF next
  <1>3. /\ proc' \in [Goroutines -> Process] /\ Only(p) /\ proc'[p].pc = next
        /\ proc'[p].at = proc[p].at /\ proc'[p].diff = proc[p].diff /\ proc'[p].then = proc[p].then
        /\ proc'[p].left = proc[p].left /\ proc'[p].share = proc[p].share
    BY <1>1, <1>2, Facts, GotoProc DEF Pcs
  <1>4. Locals(p, proc'[p])
    BY <1>1, <1>2, <1>3, Facts DEF Locals, After
  <1>5. GoroutineFine(p)
    BY <1>1, <1>2, <1>3, Facts DEF GoroutineFine, Judging, Assigning, After
  <1>6. QED
    BY <1>1, <1>3, <1>4, <1>5, Facts, SameClients DEF Fine, CreditsFine

LEMMA KeepPreviousFine ==
  ASSUME StratumInv, NEW p \in Goroutines, KeepPrevious(p)
  PROVE  Fine(p, proc[p].at) /\ CreditsFine
  <1> DEFINE c == proc[p].at
  <1>1. /\ proc[p].pc = "keep" /\ Goto(p, "assign") /\ Set(c, "prev", client[c].cur) /\ credits' = credits
    BY DEF KeepPrevious
  <1>2. c \in Clients /\ client[c].cur \in Nat \union {Nil}
    BY <1>1, Facts DEF Locals, Shared
  <1>3. /\ proc' \in [Goroutines -> Process] /\ Only(p) /\ proc'[p].pc = "assign"
        /\ proc'[p].at = proc[p].at /\ proc'[p].diff = proc[p].diff /\ proc'[p].then = proc[p].then
        /\ proc'[p].left = proc[p].left /\ proc'[p].share = proc[p].share
    BY <1>1, Facts, GotoProc DEF Pcs
  <1>4. /\ client' \in [Clients -> Shared] /\ \A d \in Clients \ {c} : client'[d] = client[d]
        /\ client'[c].prev = client[c].cur
        /\ client'[c].listed = client[c].listed /\ client'[c].open = client[c].open /\ client'[c].auth = client[c].auth
        /\ client'[c].cur = client[c].cur /\ client'[c].told = client[c].told /\ client'[c].shares = client[c].shares
    BY <1>1, <1>2, Facts, SetPrev
  <1>5. Locals(p, proc'[p])
    BY <1>1, <1>3, Facts DEF Locals
  <1>6. ClientFine(p, c)
    BY <1>2, <1>4, Facts DEF ClientFine, Listed
  <1>7. GoroutineFine(p)
    BY <1>1, <1>2, <1>3, <1>4, Facts DEF GoroutineFine, Judging, Assigning, Locals
  <1>8. QED
    BY <1>1, <1>3, <1>4, <1>5, <1>6, <1>7 DEF Fine, CreditsFine

(* An idle client is closed and the goroutine blocks; else it looks for a pending difficulty. *)
LEMMA SendMiningJobFine ==
  ASSUME StratumInv, NEW p \in Goroutines, SendMiningJob(p)
  PROVE  Fine(p, proc[p].at) /\ CreditsFine
  <1> DEFINE c == proc[p].at
  <1>1. proc[p].pc = "job" /\ credits' = credits
    BY DEF SendMiningJob
  <1>2. c \in Clients
    BY <1>1, Facts DEF Locals
  <1>3. CASE client[c].idle
    <2>1. Set(c, "open", FALSE) /\ Goto(p, "blocked")
      BY <1>3 DEF SendMiningJob
    <2>2. /\ proc' \in [Goroutines -> Process] /\ Only(p) /\ proc'[p].pc = "blocked"
        /\ proc'[p].at = proc[p].at /\ proc'[p].diff = proc[p].diff /\ proc'[p].then = proc[p].then
        /\ proc'[p].left = proc[p].left /\ proc'[p].share = proc[p].share
      BY <2>1, Facts, GotoProc DEF Pcs
    <2>3. /\ client' \in [Clients -> Shared] /\ \A d \in Clients \ {c} : client'[d] = client[d]
        /\ client'[c].open = FALSE
        /\ client'[c].listed = client[c].listed /\ client'[c].auth = client[c].auth /\ client'[c].cur = client[c].cur
        /\ client'[c].prev = client[c].prev /\ client'[c].told = client[c].told /\ client'[c].shares = client[c].shares
      BY <1>2, <2>1, Facts, SetOpen
    <2>4. Locals(p, proc'[p])
      BY <1>1, <2>2, Facts DEF Locals
    <2>5. ClientFine(p, c)
      BY <1>2, <2>3, Facts DEF ClientFine
    <2>6. GoroutineFine(p)
      BY <1>1, <1>2, <2>2, <2>3, Facts DEF GoroutineFine, Judging, Assigning, Locals
    <2>7. QED
      BY <1>1, <2>2, <2>3, <2>4, <2>5, <2>6 DEF Fine, CreditsFine
  <1>4. CASE ~client[c].idle
    <2>1. proc' = [proc EXCEPT ![p].pc = "pending", ![p].then = "notify"] /\ UNCHANGED client
      BY <1>4 DEF SendMiningJob
    <2>2. /\ proc' \in [Goroutines -> Process] /\ Only(p) /\ proc'[p].pc = "pending"
        /\ proc'[p].at = proc[p].at /\ proc'[p].diff = proc[p].diff /\ proc'[p].then = "notify"
        /\ proc'[p].left = proc[p].left /\ proc'[p].share = proc[p].share
      BY <1>1, <2>1, Facts, SMTT(40) DEF Process, Pcs, After, Only
    <2>3. Locals(p, proc'[p])
      BY <1>1, <2>2, Facts DEF Locals, After
    <2>4. GoroutineFine(p)
      BY <1>1, <2>1, <2>2, Facts DEF GoroutineFine, Judging, Assigning
    <2>5. QED
      BY <1>1, <2>1, <2>2, <2>3, <2>4, Facts, SameClients DEF Fine, CreditsFine
  <1>5. QED
    BY <1>3, <1>4

(* The pending difficulty is read again; it may be nil by now. *)
LEMMA TakePendingFine ==
  ASSUME StratumInv, NEW p \in Goroutines, TakePending(p)
  PROVE  Fine(p, p) /\ CreditsFine
  <1> DEFINE v == client[proc[p].at].pend
  <1>1. /\ proc[p].pc = "take" /\ proc' = [proc EXCEPT ![p].pc = "set", ![p].diff = v]
        /\ UNCHANGED client /\ credits' = credits
    BY DEF TakePending
  <1>2. v \in Nat \union {Nil}
    BY <1>1, Facts DEF Locals, Shared
  <1> HIDE DEF v
  <1>3. /\ proc' \in [Goroutines -> Process] /\ Only(p) /\ proc'[p].pc = "set"
        /\ proc'[p].at = proc[p].at /\ proc'[p].diff = v /\ proc'[p].then = proc[p].then
        /\ proc'[p].left = proc[p].left /\ proc'[p].share = proc[p].share
    BY <1>1, <1>2, Facts, SMTT(40) DEF Process, Pcs, Only
  <1>4. Locals(p, proc'[p])
    BY <1>1, <1>3, Facts DEF Locals
  <1>5. GoroutineFine(p)
    BY <1>1, <1>3, Facts DEF GoroutineFine, Judging, Assigning, Locals, After
  <1>6. QED
    BY <1>1, <1>3, <1>4, <1>5, Facts, SameClients DEF Fine, CreditsFine

(* Nil ends the process; the difficulty in force is passed over. *)
LEMMA SendDifficultyFine ==
  ASSUME StratumInv, NEW p \in Goroutines, SendDifficulty(p)
  PROVE  Fine(p, p) /\ CreditsFine
  <1>1. proc[p].pc = "set" /\ UNCHANGED client /\ credits' = credits
    BY DEF SendDifficulty
  <1>2. CASE UNCHANGED proc
    <2>1. proc' \in [Goroutines -> Process] /\ Only(p) /\ proc'[p] = proc[p]
      BY <1>2, Facts DEF Only
    <2>2. GoroutineFine(p)
      BY <1>1, <2>1, Facts DEF GoroutineFine, Judging, Assigning
    <2>3. QED
      BY <1>1, <2>1, <2>2, Facts, SameClients DEF Fine, CreditsFine
  <1>3. ASSUME proc[p].diff # Nil, Goto(p, IF proc[p].diff = client[proc[p].at].cur THEN AfterSet(p) ELSE "keep")
        PROVE  Fine(p, p) /\ CreditsFine
    <2> DEFINE next == IF proc[p].diff = client[proc[p].at].cur THEN AfterSet(p) ELSE "keep"
    <2>1. /\ next \in {"job", "clear", "keep"} /\ (next = "job" => proc[p].then = "job")
          /\ next = "clear" => proc[p].then # "job"
          /\ next # "keep" => client[proc[p].at].cur # Nil
      BY <1>3 DEF AfterSet
    <2>2. Goto(p, next)
      BY <1>3
    <2> HIDE DEF next
    <2>3. /\ proc' \in [Goroutines -> Process] /\ Only(p) /\ proc'[p].pc = next
        /\ proc'[p].at = proc[p].at /\ proc'[p].diff = proc[p].diff /\ proc'[p].then = proc[p].then
        /\ proc'[p].left = proc[p].left /\ proc'[p].share = proc[p].share
      BY <2>1, <2>2, Facts, GotoProc DEF Pcs
    <2>4. Locals(p, proc'[p])
      BY <1>1, <1>3, <2>1, <2>3, Facts DEF Locals
    <2>5. GoroutineFine(p)
      BY <1>1, <2>1, <2>3, Facts DEF GoroutineFine, Judging, Assigning, Locals
    <2>6. QED
      BY <1>1, <2>3, <2>4, <2>5, Facts, SameClients DEF Fine, CreditsFine
  <1>4. QED
    BY <1>2, <1>3 DEF SendDifficulty

(* The new difficulty is in force before the miner is told. *)
LEMMA AssignDifficultyFine ==
  ASSUME StratumInv, NEW p \in Goroutines, AssignDifficulty(p)
  PROVE  Fine(p, proc[p].at) /\ CreditsFine
  <1> DEFINE c == proc[p].at
  <1>1. /\ proc[p].pc = "assign" /\ Goto(p, "announce") /\ Set(c, "cur", proc[p].diff) /\ credits' = credits
    BY DEF AssignDifficulty
  <1>2. c \in Clients /\ proc[p].diff \in Nat \union {Nil} /\ proc[p].diff # Nil
    BY <1>1, Facts DEF Locals, Process
  <1>3. /\ proc' \in [Goroutines -> Process] /\ Only(p) /\ proc'[p].pc = "announce"
        /\ proc'[p].at = proc[p].at /\ proc'[p].diff = proc[p].diff /\ proc'[p].then = proc[p].then
        /\ proc'[p].left = proc[p].left /\ proc'[p].share = proc[p].share
    BY <1>1, Facts, GotoProc DEF Pcs
  <1>4. /\ client' \in [Clients -> Shared] /\ \A d \in Clients \ {c} : client'[d] = client[d]
        /\ client'[c].cur = proc[p].diff
        /\ client'[c].listed = client[c].listed /\ client'[c].open = client[c].open /\ client'[c].auth = client[c].auth
        /\ client'[c].prev = client[c].prev /\ client'[c].told = client[c].told /\ client'[c].shares = client[c].shares
    BY <1>1, <1>2, Facts, SetCur
  <1>5. Locals(p, proc'[p])
    BY <1>1, <1>3, Facts DEF Locals
  <1>6. ClientFine(p, c)
    BY <1>2, <1>3, <1>4, Facts DEF ClientFine, Listed
  <1>7. GoroutineFine(p)
    BY <1>1, <1>2, <1>3, <1>4, Facts DEF GoroutineFine, Judging, Assigning, Locals
  <1>8. QED
    BY <1>1, <1>3, <1>4, <1>5, <1>6, <1>7 DEF Fine, CreditsFine

(* The announcement is made. *)
LEMMA AnnounceFine ==
  ASSUME StratumInv, NEW p \in Goroutines, Announce(p)
  PROVE  Fine(p, proc[p].at) /\ CreditsFine
  <1> DEFINE c == proc[p].at
             v == client[c].told \union {proc[p].diff}
  <1>1. proc[p].pc = "announce" /\ Goto(p, AfterSet(p)) /\ Set(c, "told", v) /\ credits' = credits
    BY DEF Announce
  <1>2. c \in Clients /\ proc[p].diff \in Nat \union {Nil} /\ proc[p].diff # Nil
    BY <1>1, Facts DEF Locals, Process
  <1>3. v \in SUBSET Nat /\ proc[p].diff \in v /\ client[c].told \subseteq v
    BY <1>2, Facts DEF Shared
  <1>4. /\ AfterSet(p) \in {"job", "clear"} /\ (AfterSet(p) = "job" => proc[p].then = "job")
        /\ AfterSet(p) = "clear" => proc[p].then # "job"
    BY DEF AfterSet
  <1> HIDE DEF v
  <1>5. /\ proc' \in [Goroutines -> Process] /\ Only(p) /\ proc'[p].pc = AfterSet(p)
        /\ proc'[p].at = proc[p].at /\ proc'[p].diff = proc[p].diff /\ proc'[p].then = proc[p].then
        /\ proc'[p].left = proc[p].left /\ proc'[p].share = proc[p].share
    BY <1>1, <1>4, Facts, GotoProc DEF Pcs
  <1>6. /\ client' \in [Clients -> Shared] /\ \A d \in Clients \ {c} : client'[d] = client[d]
        /\ client'[c].told = v
        /\ client'[c].listed = client[c].listed /\ client'[c].open = client[c].open /\ client'[c].auth = client[c].auth
        /\ client'[c].cur = client[c].cur /\ client'[c].prev = client[c].prev /\ client'[c].shares = client[c].shares
    BY <1>1, <1>2, <1>3, Facts, SetTold
  <1>7. Locals(p, proc'[p])
    BY <1>1, <1>4, <1>5, Facts DEF Locals
  <1>8. ClientFine(p, c)
    BY <1>2, <1>3, <1>6, Facts DEF ClientFine, Listed
  <1>9. GoroutineFine(p)
    BY <1>1, <1>2, <1>3, <1>4, <1>5, <1>6, Facts DEF GoroutineFine, Judging, Assigning, Locals
  <1>10. QED
    BY <1>1, <1>5, <1>6, <1>7, <1>8, <1>9 DEF Fine, CreditsFine

(* The pending difficulty is nil again. *)
LEMMA ClearPendingFine ==
  ASSUME StratumInv, NEW p \in Goroutines, ClearPending(p)
  PROVE  Fine(p, proc[p].at) /\ CreditsFine
  <1> DEFINE c == proc[p].at
  <1>1. /\ proc[p].pc = "clear" /\ proc' = [proc EXCEPT ![p].pc = proc[p].then, ![p].diff = Nil]
        /\ Set(c, "pend", Nil) /\ credits' = credits
    BY DEF ClearPending
  <1>2. c \in Clients /\ proc[p].then \in After
    BY <1>1, Facts DEF Locals
  <1>3. /\ proc' \in [Goroutines -> Process] /\ Only(p) /\ proc'[p].pc = proc[p].then
        /\ proc'[p].at = proc[p].at /\ proc'[p].diff = Nil /\ proc'[p].then = proc[p].then
        /\ proc'[p].left = proc[p].left /\ proc'[p].share = proc[p].share
    BY <1>1, <1>2, Facts, SMTT(40) DEF Process, Pcs, Only
  <1>4. /\ client' \in [Clients -> Shared] /\ \A d \in Clients \ {c} : client'[d] = client[d]
        /\ client'[c].listed = client[c].listed /\ client'[c].open = client[c].open /\ client'[c].auth = client[c].auth
        /\ client'[c].cur = client[c].cur /\ client'[c].prev = client[c].prev /\ client'[c].told = client[c].told
        /\ client'[c].shares = client[c].shares
    BY <1>1, <1>2, Facts, SetPend
  <1>5. Locals(p, proc'[p])
    BY <1>1, <1>2, <1>3, Facts DEF Locals, After
  <1>6. ClientFine(p, c)
    BY <1>2, <1>4, Facts DEF ClientFine, Listed
  <1>7. GoroutineFine(p)
    BY <1>1, <1>2, <1>3, <1>4, Facts DEF GoroutineFine, Judging, Assigning, Locals, After
  <1>8. QED
    BY <1>1, <1>3, <1>4, <1>5, <1>6, <1>7 DEF Fine, CreditsFine

(* A share is judged: the only place where one is credited. *)
LEMMA ProcessSubmitFine ==
  ASSUME StratumInv, NEW c \in Clients, ProcessSubmit(c)
  PROVE  Fine(c, c) /\ CreditsFine
  <1> DEFINE hash == proc[c].share
             diff == CreditFor(hash, proc[c].diff, client[c].cur)
  <1>0. c \in Goroutines
    BY DEF Goroutines
  <1>1. proc[c].pc = "judge" /\ UNCHANGED client
    BY SMTT(40) DEF ProcessSubmit
  <1>2. PICK pc \in {"vardiff", "resend", "warn"}, share \in {"good", "bad"} :
          proc' = [proc EXCEPT ![c].pc = pc, ![c].diff = Nil, ![c].share = share]
    <2>1. CASE proc' = [proc EXCEPT ![c].pc = "vardiff", ![c].diff = Nil, ![c].share = "good"]
      BY <2>1
    <2>2. CASE proc' = [proc EXCEPT ![c].pc = "warn", ![c].diff = Nil, ![c].share = "bad"]
      BY <2>2
    <2>3. CASE \E pc \in {"resend", "vardiff"} :
                 proc' = [proc EXCEPT ![c].pc = pc, ![c].diff = Nil, ![c].share = "bad"]
      BY <2>3
    <2>4. QED
      BY <2>1, <2>2, <2>3 DEF ProcessSubmit
  <1>3. /\ proc' \in [Goroutines -> Process] /\ Only(c) /\ proc'[c].pc = pc
        /\ proc'[c].at = proc[c].at /\ proc'[c].diff = Nil /\ proc'[c].then = proc[c].then
        /\ proc'[c].left = proc[c].left /\ proc'[c].share = share
    <2>1. pc \in Pcs /\ share \in Achieved \union {"good", "bad", "refused", Nil}
      BY DEF Pcs
    <2>2. QED
      BY <1>0, <1>2, <2>1, Facts, SMTT(40) DEF Process, Only
  <1>4. Locals(c, proc'[c])
    BY <1>0, <1>1, <1>3, Facts DEF Locals
  <1>5. GoroutineFine(c)
    BY <1>0, <1>1, <1>3, Facts DEF GoroutineFine, Judging, Assigning
  <1>6. CreditsFine
    <2>1. CASE credits' = credits
      BY <2>1 DEF CreditsFine
    <2>2. ASSUME diff > 0, credits' = credits \union {[client |-> c, diff |-> diff, hash |-> hash]}
          PROVE  CreditsFine
      <3>0. diff = CreditFor(hash, proc[c].diff, client[c].cur)
        OBVIOUS
      <3>1. client[c].cur # Nil
        BY <1>0, <1>1, Facts DEF Judging, Assigning
      <3>2. hash \in Nat /\ proc[c].diff \in Nat \union {Nil} /\ client[c].cur \in Nat
        BY <1>0, <1>1, <3>1, Facts, StratumDiffs DEF Locals, Process, Shared
      <3> HIDE DEF diff, hash
      <3>3. /\ diff = client[c].cur \/ (proc[c].diff # Nil /\ diff = proc[c].diff)
            /\ hash >= NetDiff \/ hash * 100 >= diff * 99
        <4> DEFINE prev == proc[c].diff
                   cur  == client[c].cur
        <4>1. diff = CreditFor(hash, prev, cur) /\ hash \in Nat /\ prev \in Nat \union {Nil} /\ cur \in Nat /\ diff > 0
          BY <2>2, <3>0, <3>2
        <4> HIDE DEF prev, cur
        <4>2. /\ diff = cur \/ (prev # Nil /\ diff = prev)
              /\ hash >= NetDiff \/ hash * 100 >= diff * 99
          <5>1. CASE hash >= NetDiff \/ hash * 100 >= cur * 99
            BY <4>1, <5>1 DEF CreditFor
          <5>2. CASE ~(hash >= NetDiff \/ hash * 100 >= cur * 99) /\ prev # Nil /\ hash >= prev
            <6>1. diff = prev
              BY <4>1, <5>2 DEF CreditFor
            <6>2. prev \in Nat /\ hash * 100 >= prev * 99
              BY <4>1, <5>2
            <6>3. QED
              BY <5>2, <6>1, <6>2
          <5>3. CASE ~(hash >= NetDiff \/ hash * 100 >= cur * 99) /\ ~(prev # Nil /\ hash >= prev)
            BY <4>1, <5>3 DEF CreditFor
          <5>4. QED
            BY <5>1, <5>2, <5>3
        <4>3. QED
          BY <4>2 DEF prev, cur
      <3>4. Voiced(c, client[c].cur) /\ (proc[c].diff = Nil \/ Voiced(c, proc[c].diff))
        BY <1>1, <3>1 DEF StratumInv, AllVoiced
      <3>5. QED
        BY <2>2, <3>3, <3>4 DEF CreditsFine
    <2>3. QED
      BY <2>1, <2>2 DEF ProcessSubmit
  <1>7. QED
    BY <1>0, <1>1, <1>3, <1>4, <1>5, <1>6, Facts, SameClients DEF Fine

(* A job is sent again before the share is counted. *)
LEMMA ResendFine ==
  ASSUME StratumInv, NEW c \in Clients, Resend(c)
  PROVE  Fine(c, c) /\ CreditsFine
  <1>0. c \in Goroutines
    BY DEF Goroutines
  <1>1. /\ proc[c].pc = "resend" /\ proc' = [proc EXCEPT ![c].pc = "pending", ![c].then = "notify"]
        /\ UNCHANGED client /\ credits' = credits
    BY DEF Resend
  <1>2. /\ proc' \in [Goroutines -> Process] /\ Only(c) /\ proc'[c].pc = "pending"
        /\ proc'[c].at = proc[c].at /\ proc'[c].diff = proc[c].diff /\ proc'[c].then = "notify"
        /\ proc'[c].left = proc[c].left /\ proc'[c].share = proc[c].share
    BY <1>0, <1>1, Facts, SMTT(40) DEF Process, Pcs, After, Only
  <1>3. Locals(c, proc'[c])
    BY <1>0, <1>1, <1>2, Facts DEF Locals, After
  <1>4. GoroutineFine(c)
    BY <1>0, <1>1, <1>2, Facts DEF GoroutineFine, Judging, Assigning
  <1>5. QED
    BY <1>0, <1>1, <1>2, <1>3, <1>4, Facts, SameClients DEF Fine, CreditsFine

(* A retarget is enqueued, nothing is in force yet. *)
LEMMA RetargetFine ==
  ASSUME StratumInv, NEW c \in Clients, Retarget(c)
  PROVE  Fine(c, c) /\ CreditsFine
  <1>0. c \in Goroutines
    BY DEF Goroutines
  <1>1. /\ proc[c].pc = "vardiff" /\ proc' = [proc EXCEPT ![c].pc = "pending", ![c].then = "tally"]
        /\ credits' = credits
    BY DEF Retarget
  <1>2. PICK v \in Diffs \union {client[c].pend, client[c].cur, 0} : Set(c, "pend", v)
    BY DEF Retarget
  <1>3. v \in Nat \union {Nil}
    BY <1>0, Facts, StratumDiffs DEF Shared
  <1>4. /\ proc' \in [Goroutines -> Process] /\ Only(c) /\ proc'[c].pc = "pending"
        /\ proc'[c].at = proc[c].at /\ proc'[c].diff = proc[c].diff /\ proc'[c].then = "tally"
        /\ proc'[c].left = proc[c].left /\ proc'[c].share = proc[c].share
    BY <1>0, <1>1, Facts, SMTT(40) DEF Process, Pcs, After, Only
  <1>5. /\ client' \in [Clients -> Shared] /\ \A d \in Clients \ {c} : client'[d] = client[d]
        /\ client'[c].listed = client[c].listed /\ client'[c].open = client[c].open /\ client'[c].auth = client[c].auth
        /\ client'[c].cur = client[c].cur /\ client'[c].prev = client[c].prev /\ client'[c].told = client[c].told
        /\ client'[c].shares = client[c].shares
    BY <1>0, <1>2, <1>3, Facts, SetPend
  <1>6. Locals(c, proc'[c])
    BY <1>0, <1>1, <1>4, Facts DEF Locals, After
  <1>7. ClientFine(c, c)
    BY <1>0, <1>5, Facts DEF ClientFine, Listed
  <1>8. GoroutineFine(c)
    BY <1>0, <1>1, <1>4, <1>5, Facts DEF GoroutineFine, Judging, Assigning, Locals
  <1>9. QED
    BY <1>1, <1>4, <1>5, <1>6, <1>7, <1>8 DEF Fine, CreditsFine

(* The tally of a share is a tally. *)
LEMMA TallyType ==
  ASSUME NEW shares \in [valid : Nat, invalid : Nat], NEW ok \in BOOLEAN
  PROVE  Tally(shares, ok) \in [valid : Nat, invalid : Nat]
  BY DEF Tally, Count, NoShares

(* The state of a session that goes back to its read loop is of its type. *)
LEMMA ReadyType == Ready \in Process
  BY DEF Ready, Process, Pcs, After

(* A share is counted; the session answers it, goes back to reading, or is  *)
(* banned and stuck.                                                        *)
LEMMA TallyShareFine ==
  ASSUME StratumInv, NEW c \in Clients, TallyShare(c)
  PROVE  Fine(c, c) /\ CreditsFine
  <1> DEFINE ok    == proc[c].share = "good"
             tally == Tally(client[c].shares, ok)
  <1>0. c \in Goroutines
    BY DEF Goroutines
  <1>1. proc[c].pc = "tally" /\ Set(c, "shares", tally) /\ credits' = credits
    BY DEF TallyShare
  <1>2. ok \in BOOLEAN /\ client[c].shares \in [valid : Nat, invalid : Nat]
    BY <1>0, Facts DEF Shared
  <1>3. tally \in [valid : Nat, invalid : Nat]
    BY <1>2, TallyType
  <1>4. CASE ShouldBan(client[c].shares, ok)
    <2>1. Goto(c, "blocked")
      BY <1>4 DEF TallyShare, Banish
    <2> HIDE DEF tally
    <2>3. /\ proc' \in [Goroutines -> Process] /\ Only(c) /\ proc'[c].pc = "blocked"
        /\ proc'[c].at = proc[c].at /\ proc'[c].diff = proc[c].diff /\ proc'[c].then = proc[c].then
        /\ proc'[c].left = proc[c].left /\ proc'[c].share = proc[c].share
      BY <1>0, <2>1, Facts, GotoProc DEF Pcs
    <2>4. /\ client' \in [Clients -> Shared] /\ \A d \in Clients \ {c} : client'[d] = client[d]
        /\ client'[c].shares = tally
        /\ client'[c].listed = client[c].listed /\ client'[c].open = client[c].open /\ client'[c].auth = client[c].auth
        /\ client'[c].cur = client[c].cur /\ client'[c].prev = client[c].prev /\ client'[c].told = client[c].told
      BY <1>0, <1>1, <1>3, Facts, SetShares
    <2>5. Locals(c, proc'[c])
      BY <1>0, <1>1, <2>3, Facts DEF Locals
    <2>6. ClientFine(c, c)
      BY <1>0, <2>4, Facts DEF ClientFine, Listed
    <2>7. GoroutineFine(c)
      BY <1>0, <1>1, <2>3, <2>4, Facts DEF GoroutineFine, Judging, Assigning, Locals
    <2>8. QED
      BY <1>1, <2>3, <2>4, <2>5, <2>6, <2>7 DEF Fine, CreditsFine
  <1>5. CASE ~ShouldBan(client[c].shares, ok)
    <2> DEFINE s == IF proc[c].share = "refused" THEN Ready ELSE [proc[c] EXCEPT !.pc = "answer"]
    <2>1. proc' = [proc EXCEPT ![c] = s] /\ proc[c] \in Process /\ proc \in [Goroutines -> Process]
      BY <1>0, <1>5, Facts DEF TallyShare
    <2>2. s \in Process /\ s.pc \in {"ready", "answer"} /\ s.at \in {Nil, proc[c].at}
           /\ (s.pc = "answer" => s.at = proc[c].at) /\ s.left \subseteq proc[c].left
      BY <2>1, ReadyType DEF Ready, Process, Pcs
    <2> HIDE DEF tally, s
    <2>3. proc' \in [Goroutines -> Process] /\ Only(c) /\ proc'[c] = s
      BY <1>0, <2>1, <2>2, PutProc
    <2>4. /\ client' \in [Clients -> Shared] /\ \A d \in Clients \ {c} : client'[d] = client[d]
        /\ client'[c].shares = tally
        /\ client'[c].listed = client[c].listed /\ client'[c].open = client[c].open /\ client'[c].auth = client[c].auth
        /\ client'[c].cur = client[c].cur /\ client'[c].prev = client[c].prev /\ client'[c].told = client[c].told
      BY <1>0, <1>1, <1>3, Facts, SetShares
    <2>5. Locals(c, proc'[c])
      BY <1>0, <1>1, <2>2, <2>3, Facts DEF Locals
    <2>6. ClientFine(c, c)
      BY <1>0, <2>4, Facts DEF ClientFine, Listed
    <2>7. GoroutineFine(c)
      BY <1>0, <1>1, <2>2, <2>3, <2>4, Facts DEF GoroutineFine, Judging, Assigning
    <2>8. QED
      BY <1>1, <2>3, <2>4, <2>5, <2>6, <2>7 DEF Fine, CreditsFine
  <1>6. QED
    BY <1>4, <1>5

(* A write that is no announcement: the goroutine goes on, and nothing else *)
(* happens.                                                                 *)
LEMMA WriteFine ==
  ASSUME StratumInv, NEW p \in Goroutines, NEW pc \in {"grant", "refuse", "warn", "notify", "answer"},
         NEW after \in {"set", "tally", "vardiff", "ready", "next"}, Write(p, pc, after),
         pc = "grant" <=> after = "set", after = "vardiff" /\ p \in Clients => Judging(p)
  PROVE  Fine(p, p) /\ CreditsFine
  <1> DEFINE s == IF after = "ready" THEN Ready ELSE [proc[p] EXCEPT !.pc = after]
  <1>1. proc[p].pc = pc /\ proc' = [proc EXCEPT ![p] = s] /\ UNCHANGED client /\ credits' = credits
    BY DEF Write
  <1>2. proc[p] \in Process /\ proc \in [Goroutines -> Process]
    BY Facts
  <1>3. /\ s \in Process /\ s.pc = after /\ s.at \in {proc[p].at, Nil} /\ s.left \subseteq proc[p].left
        /\ after # "ready" => s.then = proc[p].then /\ s.at = proc[p].at /\ s.share = proc[p].share
    <2>1. CASE after = "ready"
      BY <2>1, ReadyType DEF Ready
    <2>2. CASE after # "ready"
      BY <1>2, <2>2 DEF Process, Pcs, After
    <2>3. QED
      BY <2>1, <2>2
  <1> HIDE DEF s
  <1>4. proc' \in [Goroutines -> Process] /\ Only(p) /\ proc'[p] = s
    BY <1>1, <1>2, <1>3, PutProc
  <1>5. Locals(p, proc'[p])
    BY <1>1, <1>3, <1>4, Facts DEF Locals
  <1>6. ASSUME p \in Clients
        PROVE  /\ Judging(p)' => client'[p].auth
               /\ client'[p].auth /\ ~Assigning(p)' => client'[p].cur # Nil
    <2>1. CASE after = "set"
      <3>1. pc = "grant" /\ proc[p].then = "job" /\ Assigning(p)'
        BY <1>1, <1>3, <1>4, <2>1, Facts DEF Locals, Assigning
      <3>2. Judging(p)' => client'[p].auth
        BY <1>1, <1>3, <1>4, <1>6, <2>1, <3>1, Facts DEF Judging
      <3>3. QED
        BY <3>1, <3>2
    <2>2. CASE after = "vardiff"
      BY <1>1, <1>6, <2>2, Facts DEF Assigning
    <2>3. CASE after \notin {"set", "vardiff"}
      <3>1. ~Judging(p)' /\ ~Assigning(p)
        BY <1>1, <1>3, <1>4, <2>3 DEF Judging, Assigning
      <3>2. QED
        BY <1>1, <1>6, <3>1, Facts
    <2>4. QED
      BY <2>1, <2>2, <2>3
  <1>7. GoroutineFine(p)
    BY <1>1, <1>3, <1>4, <1>6, Facts DEF GoroutineFine
  <1>8. QED
    BY <1>1, <1>4, <1>5, <1>7, Facts, SameClients DEF Fine, CreditsFine

(* The answers of a session. *)
LEMMA ReplyFine ==
  ASSUME StratumInv, NEW c \in Clients, Reply(c)
  PROVE  Fine(c, c) /\ CreditsFine
  <1>0. c \in Goroutines
    BY DEF Goroutines
  <1>1. CASE Write(c, "grant", "set")
    BY <1>0, <1>1, WriteFine
  <1>2. CASE Write(c, "refuse", "tally")
    BY <1>0, <1>2, WriteFine
  <1>3. CASE Write(c, "warn", "vardiff")
    <2>1. Judging(c)
      BY <1>3 DEF Write, Judging
    <2>2. QED
      BY <1>0, <1>3, <2>1, WriteFine
  <1>4. CASE Write(c, "answer", "ready")
    BY <1>0, <1>4, WriteFine
  <1>5. QED
    BY <1>1, <1>2, <1>3, <1>4 DEF Reply

(* The job is sent. *)
LEMMA NotifyFine ==
  ASSUME StratumInv, NEW p \in Goroutines, Notify(p)
  PROVE  Fine(p, p) /\ CreditsFine
  <1>1. CASE p \in Broadcasts /\ Write(p, "notify", "next")
    BY <1>1, WriteFine
  <1>2. CASE p \in Clients /\ Write(p, "notify", IF proc[p].share = "bad" THEN "vardiff" ELSE "ready")
    <2>1. CASE proc[p].share = "bad"
      <3>1. Write(p, "notify", "vardiff")
        BY <1>2, <2>1
      <3>2. Judging(p)
        BY <2>1, <3>1 DEF Write, Judging
      <3>3. QED
        BY <3>1, <3>2, WriteFine
    <2>2. CASE proc[p].share # "bad"
      <3>1. Write(p, "notify", "ready")
        BY <1>2, <2>2
      <3>2. QED
        BY <3>1, WriteFine
    <2>3. QED
      BY <2>1, <2>2
  <1>3. QED
    BY <1>1, <1>2 DEF Notify

(* A connection is accepted: the client is listed and open, its session     *)
(* has not started on anything.                                             *)
LEMMA ConnectFine ==
  ASSUME StratumInv, NEW c \in Clients, Connect(c)
  PROVE  Fine(c, c) /\ CreditsFine
  <1>0. c \in Goroutines
    BY DEF Goroutines
  <1>1. /\ ~client[c].listed /\ client' = [client EXCEPT ![c].listed = TRUE, ![c].open = TRUE]
        /\ UNCHANGED proc /\ credits' = credits
    BY DEF Connect
  <1>2. /\ client' \in [Clients -> Shared] /\ \A d \in Clients \ {c} : client'[d] = client[d]
        /\ client'[c].listed /\ client'[c].open /\ client'[c].auth = client[c].auth
        /\ client'[c].cur = client[c].cur /\ client'[c].prev = client[c].prev /\ client'[c].told = client[c].told
        /\ client'[c].shares = client[c].shares
    <2>1. client[c] \in Shared /\ client \in [Clients -> Shared]
      BY <1>0, Facts
    <2>2. client'[c] = [client[c] EXCEPT !.listed = TRUE, !.open = TRUE]
      BY <1>1, <2>1
    <2>3. client'[c] \in Shared
      BY <2>1, <2>2 DEF Shared
    <2>4. client' \in [Clients -> Shared] /\ \A d \in Clients \ {c} : client'[d] = client[d]
      BY <1>1, <2>1, <2>2, <2>3
    <2>5. QED
      BY <2>1, <2>2, <2>4 DEF Shared
  <1>3. proc[c].at = Nil /\ proc[c].pc \in {"ready", "next"}
    BY <1>0, <1>1, Facts DEF Locals
  <1>4. ClientFine(c, c)
    BY <1>1, <1>2 DEF ClientFine
  <1>5. ASSUME NEW d \in proc[c].left
        PROVE  client'[d].listed
    <2>1. d \in Clients /\ client[d].listed
      BY <1>0, Facts
    <2>2. QED
      BY <1>2, <2>1
  <1>6. GoroutineFine(c)
    BY <1>0, <1>1, <1>2, <1>3, <1>5, Facts DEF GoroutineFine, Judging, Assigning
  <1>7. QED
    BY <1>0, <1>1, <1>2, <1>4, <1>6, Facts DEF Fine, Only, CreditsFine

(* A miner stops sending. *)
LEMMA GoIdleFine ==
  ASSUME StratumInv, NEW c \in Clients, GoIdle(c)
  PROVE  Fine(c, c) /\ CreditsFine
  <1>0. c \in Goroutines
    BY DEF Goroutines
  <1>1. proc[c].pc = "ready" /\ Set(c, "idle", TRUE) /\ UNCHANGED proc /\ credits' = credits
    BY DEF GoIdle
  <1>2. /\ client' \in [Clients -> Shared] /\ \A d \in Clients \ {c} : client'[d] = client[d]
        /\ client'[c].listed = client[c].listed /\ client'[c].open = client[c].open /\ client'[c].auth = client[c].auth
        /\ client'[c].cur = client[c].cur /\ client'[c].prev = client[c].prev /\ client'[c].told = client[c].told
        /\ client'[c].shares = client[c].shares
    BY <1>0, <1>1, Facts, SetIdle
  <1>3. ClientFine(c, c)
    BY <1>0, <1>2, Facts DEF ClientFine, Listed
  <1>4. GoroutineFine(c)
    BY <1>0, <1>1, <1>2, Facts DEF GoroutineFine, Judging, Assigning
  <1>5. QED
    BY <1>0, <1>1, <1>2, <1>3, <1>4, Facts DEF Fine, Only, CreditsFine

(* A miner stops reading. *)
LEMMA StopReadingFine ==
  ASSUME StratumInv, NEW c \in Clients, StopReading(c)
  PROVE  Fine(c, c) /\ CreditsFine
  <1>0. c \in Goroutines
    BY DEF Goroutines
  <1>1. Set(c, "reads", FALSE) /\ UNCHANGED proc /\ credits' = credits
    BY DEF StopReading
  <1>2. /\ client' \in [Clients -> Shared] /\ \A d \in Clients \ {c} : client'[d] = client[d]
        /\ client'[c].listed = client[c].listed /\ client'[c].open = client[c].open /\ client'[c].auth = client[c].auth
        /\ client'[c].cur = client[c].cur /\ client'[c].prev = client[c].prev /\ client'[c].told = client[c].told
        /\ client'[c].shares = client[c].shares
    BY <1>0, <1>1, Facts, SetReads
  <1>3. ClientFine(c, c)
    BY <1>0, <1>2, Facts DEF ClientFine, Listed
  <1>4. GoroutineFine(c)
    BY <1>0, <1>1, <1>2, Facts DEF GoroutineFine, Judging, Assigning
  <1>5. QED
    BY <1>0, <1>1, <1>2, <1>3, <1>4, Facts DEF Fine, Only, CreditsFine

(* A connection is lost: the session blocks on the client it closed, or is  *)
(* over.                                                                    *)
LEMMA HangupFine ==
  ASSUME StratumInv, NEW c \in Clients, Hangup(c)
  PROVE  Fine(c, c) /\ CreditsFine
  <1>0. c \in Goroutines
    BY DEF Goroutines
  <1>1. client[c].open /\ proc[c].pc = "ready" /\ credits' = credits
    BY DEF Hangup, CanRead
  <1>2. PICK s \in Process : /\ proc' = [proc EXCEPT ![c] = s] /\ s.pc \in {"blocked", "over"} /\ s.at = c
                             /\ s.left = {} /\ s.share = Nil
    <2>1. ASSUME NEW pc \in {"blocked", "over"}
          PROVE  /\ [Ready EXCEPT !.pc = pc, !.at = c] \in Process
                 /\ [Ready EXCEPT !.pc = pc, !.at = c].pc = pc /\ [Ready EXCEPT !.pc = pc, !.at = c].at = c
                 /\ [Ready EXCEPT !.pc = pc, !.at = c].left = {} /\ [Ready EXCEPT !.pc = pc, !.at = c].share = Nil
      BY DEF Ready, Process, Pcs
    <2>2. PICK pc \in {"blocked", "over"} : proc' = [proc EXCEPT ![c] = [Ready EXCEPT !.pc = pc, !.at = c]]
      BY DEF Hangup
    <2>3. QED
      BY <2>1, <2>2
  <1>3. proc' \in [Goroutines -> Process] /\ Only(c) /\ proc'[c] = s
    BY <1>0, <1>2, Facts, PutProc
  <1>4. /\ client' \in [Clients -> Shared] /\ \A d \in Clients \ {c} : client'[d] = client[d]
        /\ client'[c].open => client[c].open
        /\ client'[c].listed = client[c].listed /\ client'[c].auth = client[c].auth /\ client'[c].cur = client[c].cur
        /\ client'[c].prev = client[c].prev /\ client'[c].told = client[c].told /\ client'[c].shares = client[c].shares
    <2>1. CASE Set(c, "open", FALSE)
      BY <1>0, <2>1, Facts, SetOpen
    <2>2. CASE UNCHANGED client
      BY <1>0, <2>2, Facts
    <2>3. QED
      BY <2>1, <2>2 DEF Hangup
  <1>5. Locals(c, proc'[c])
    BY <1>2, <1>3, StratumGoroutines DEF Locals
  <1>6. client[c].listed
    BY <1>0, <1>1, Facts DEF Listed
  <1>7. ClientFine(c, c)
    BY <1>4, <1>6 DEF ClientFine
  <1>8. GoroutineFine(c)
    <2>1. ~Judging(c)' /\ ~Assigning(c)
      BY <1>1, <1>2, <1>3 DEF Judging, Assigning
    <2>2. client'[c].auth => client'[c].cur # Nil
      BY <1>0, <1>4, <2>1, Facts
    <2>3. QED
      BY <1>1, <1>2, <1>3, <1>4, <1>6, <2>1, <2>2 DEF GoroutineFine
  <1>9. QED
    BY <1>1, <1>3, <1>4, <1>5, <1>7, <1>8 DEF Fine, CreditsFine

(* A miner authorizes and is about to get the starting difficulty. *)
LEMMA HandleAuthorizeFine ==
  ASSUME StratumInv, NEW c \in Clients, HandleAuthorize(c)
  PROVE  Fine(c, c) /\ CreditsFine
  <1> DEFINE s == [Ready EXCEPT !.pc = "grant", !.at = c, !.diff = PortDiff, !.then = "job"]
  <1>0. c \in Goroutines
    BY DEF Goroutines
  <1>1. /\ client[c].open /\ proc[c].pc = "ready" /\ Set(c, "auth", TRUE)
        /\ proc' = [proc EXCEPT ![c] = s] /\ credits' = credits
    BY DEF HandleAuthorize, CanRead
  <1>2. /\ s \in Process /\ s.pc = "grant" /\ s.at = c /\ s.diff = PortDiff /\ s.then = "job" /\ s.left = {}
    BY StratumDiffs DEF Ready, Process, Pcs
  <1> HIDE DEF s
  <1>3. proc' \in [Goroutines -> Process] /\ Only(c) /\ proc'[c] = s
    BY <1>0, <1>1, <1>2, Facts, PutProc
  <1>4. /\ client' \in [Clients -> Shared] /\ \A d \in Clients \ {c} : client'[d] = client[d]
        /\ client'[c].auth = TRUE
        /\ client'[c].listed = client[c].listed /\ client'[c].open = client[c].open /\ client'[c].cur = client[c].cur
        /\ client'[c].prev = client[c].prev /\ client'[c].told = client[c].told /\ client'[c].shares = client[c].shares
    BY <1>0, <1>1, Facts, SetAuth
  <1>5. Locals(c, proc'[c])
    BY <1>2, <1>3, StratumGoroutines DEF Locals
  <1>6. client[c].listed
    BY <1>0, <1>1, Facts DEF Listed
  <1>7. ClientFine(c, c)
    BY <1>1, <1>4, <1>6 DEF ClientFine
  <1>8. GoroutineFine(c)
    BY <1>1, <1>2, <1>3, <1>4, <1>6 DEF GoroutineFine, Judging, Assigning
  <1>9. QED
    BY <1>1, <1>3, <1>4, <1>5, <1>7, <1>8 DEF Fine, CreditsFine

(* A submit is read: it is bad, or the session holds the previous           *)
(* difficulty while the share is judged.                                    *)
LEMMA HandleSubmitFine ==
  ASSUME StratumInv, NEW c \in Clients, HandleSubmit(c)
  PROVE  Fine(c, c) /\ CreditsFine
  <1>0. c \in Goroutines
    BY DEF Goroutines
  <1>1. client[c].open /\ proc[c].pc = "ready" /\ Set(c, "idle", FALSE) /\ credits' = credits
    BY DEF HandleSubmit, CanRead
  <1>2. PICK s \in Process : /\ proc' = [proc EXCEPT ![c] = s] /\ s.at = c /\ s.left = {}
                             /\ \/ s.pc = "refuse"
                                \/ /\ s.pc = "judge" /\ client[c].auth /\ s.diff = client[c].prev
                                   /\ s.share \in Achieved
    <2>1. ASSUME proc' = [proc EXCEPT ![c] = [Ready EXCEPT !.pc = "refuse", !.at = c, !.share = "refused"]]
          PROVE  \E s \in Process : /\ proc' = [proc EXCEPT ![c] = s] /\ s.at = c /\ s.left = {} /\ s.pc = "refuse"
      <3> DEFINE t == [Ready EXCEPT !.pc = "refuse", !.at = c, !.share = "refused"]
      <3>1. t \in Process /\ t.pc = "refuse" /\ t.at = c /\ t.left = {}
        BY DEF Ready, Process, Pcs, After
      <3> HIDE DEF t
      <3>2. proc' = [proc EXCEPT ![c] = t]
        BY <2>1 DEF t
      <3>3. QED
        BY <3>1, <3>2
    <2>2. ASSUME NEW hash \in Achieved, client[c].auth,
                 proc' = [proc EXCEPT ![c] = [Ready EXCEPT !.pc = "judge", !.at = c, !.diff = client[c].prev,
                                                          !.share = hash]]
          PROVE  \E s \in Process : /\ proc' = [proc EXCEPT ![c] = s] /\ s.at = c /\ s.left = {}
                                    /\ s.pc = "judge" /\ s.diff = client[c].prev /\ s.share \in Achieved
      <3> DEFINE t == [Ready EXCEPT !.pc = "judge", !.at = c, !.diff = client[c].prev, !.share = hash]
      <3>1. client[c].prev \in Nat \union {Nil}
        BY <1>0, Facts DEF Shared
      <3>2. t \in Process /\ t.pc = "judge" /\ t.at = c /\ t.left = {} /\ t.diff = client[c].prev /\ t.share = hash
        BY <3>1 DEF Ready, Process, Pcs
      <3> HIDE DEF t
      <3>3. proc' = [proc EXCEPT ![c] = t]
        BY <2>2 DEF t
      <3>4. QED
        BY <3>2, <3>3
    <2>3. QED
      BY <2>1, <2>2 DEF HandleSubmit
  <1>3. proc' \in [Goroutines -> Process] /\ Only(c) /\ proc'[c] = s
    BY <1>0, <1>2, Facts, PutProc
  <1>4. /\ client' \in [Clients -> Shared] /\ \A d \in Clients \ {c} : client'[d] = client[d]
        /\ client'[c].listed = client[c].listed /\ client'[c].open = client[c].open /\ client'[c].auth = client[c].auth
        /\ client'[c].cur = client[c].cur /\ client'[c].prev = client[c].prev /\ client'[c].told = client[c].told
        /\ client'[c].shares = client[c].shares
    BY <1>0, <1>1, Facts, SetIdle
  <1>5. Locals(c, proc'[c])
    BY <1>2, <1>3, StratumGoroutines DEF Locals
  <1>6. client[c].listed
    BY <1>0, <1>1, Facts DEF Listed
  <1>7. ClientFine(c, c)
    BY <1>1, <1>4, <1>6 DEF ClientFine
  <1>8. GoroutineFine(c)
    BY <1>0, <1>1, <1>2, <1>3, <1>4, <1>6, Facts DEF GoroutineFine, Judging, Assigning
  <1>9. QED
    BY <1>1, <1>3, <1>4, <1>5, <1>7, <1>8 DEF Fine, CreditsFine

(* A tick starts a broadcast over the listed clients. *)
LEMMA StartBroadcastFine ==
  ASSUME StratumInv, NEW b \in Broadcasts, StartBroadcast(b)
  PROVE  Fine(b, b) /\ CreditsFine
  <1> DEFINE all == {c \in Clients : client[c].listed}
  <1>0. b \in Goroutines /\ b \notin Clients
    BY StratumGoroutines DEF Goroutines
  <1>1. /\ proc[b].pc = "ready" /\ proc' = [proc EXCEPT ![b].pc = "next", ![b].left = all]
        /\ UNCHANGED client /\ credits' = credits
    BY DEF StartBroadcast
  <1>2. all \subseteq Clients /\ \A d \in all : client[d].listed
    OBVIOUS
  <1> HIDE DEF all
  <1>3. /\ proc' \in [Goroutines -> Process] /\ Only(b) /\ proc'[b].pc = "next"
        /\ proc'[b].at = proc[b].at /\ proc'[b].diff = proc[b].diff /\ proc'[b].then = proc[b].then
        /\ proc'[b].left = all /\ proc'[b].share = proc[b].share
    BY <1>0, <1>1, <1>2, Facts, SMTT(40) DEF Process, Pcs, After, Only
  <1>4. Locals(b, proc'[b])
    BY <1>0, <1>3 DEF Locals
  <1>5. GoroutineFine(b)
    BY <1>0, <1>1, <1>2, <1>3, Facts DEF GoroutineFine
  <1>6. QED
    BY <1>0, <1>1, <1>3, <1>4, <1>5, Facts, SameClients DEF Fine, CreditsFine

(* The broadcast goes on to a client of its snapshot, or is over. *)
LEMMA NextClientFine ==
  ASSUME StratumInv, NEW b \in Broadcasts, NextClient(b)
  PROVE  Fine(b, b) /\ CreditsFine
  <1>0. b \in Goroutines /\ b \notin Clients
    BY StratumGoroutines DEF Goroutines
  <1>1. proc[b].pc = "next" /\ UNCHANGED client /\ credits' = credits
    BY DEF NextClient
  <1>2. PICK s \in Process : /\ proc' = [proc EXCEPT ![b] = s] /\ s.left \subseteq proc[b].left
                             /\ \/ s.pc = "ready" /\ s.at = Nil
                                \/ s.pc = "job" /\ s.at \in proc[b].left
    <2>1. ASSUME proc' = [proc EXCEPT ![b] = Ready]
          PROVE  \E s \in Process : proc' = [proc EXCEPT ![b] = s] /\ s.left = {} /\ s.pc = "ready" /\ s.at = Nil
      <3>1. Ready.left = {} /\ Ready.pc = "ready" /\ Ready.at = Nil
        BY DEF Ready
      <3>2. QED
        BY <2>1, <3>1, ReadyType
    <2>2. ASSUME NEW c \in proc[b].left,
                 proc' = [proc EXCEPT ![b] = [Ready EXCEPT !.pc = "job", !.at = c, !.left = proc[b].left \ {c}]]
          PROVE  \E s \in Process : /\ proc' = [proc EXCEPT ![b] = s] /\ s.left \subseteq proc[b].left
                                    /\ s.pc = "job" /\ s.at \in proc[b].left
      <3> DEFINE t == [Ready EXCEPT !.pc = "job", !.at = c, !.left = proc[b].left \ {c}]
      <3>1. proc[b].left \subseteq Clients
        BY <1>0, Facts
      <3>2. t \in Process /\ t.pc = "job" /\ t.at = c /\ t.left = proc[b].left \ {c}
        BY <3>1 DEF Ready, Process, Pcs
      <3> HIDE DEF t
      <3>3. proc' = [proc EXCEPT ![b] = t]
        BY <2>2 DEF t
      <3>4. QED
        BY <3>2, <3>3
    <2>3. QED
      BY <2>1, <2>2 DEF NextClient
  <1>3. proc' \in [Goroutines -> Process] /\ Only(b) /\ proc'[b] = s
    BY <1>0, <1>2, Facts, PutProc
  <1>4. s.at \in proc[b].left => s.at \in Clients
    BY <1>0, Facts
  <1>5. Locals(b, proc'[b])
    BY <1>0, <1>2, <1>3, <1>4, StratumGoroutines DEF Locals
  <1>6. GoroutineFine(b)
    BY <1>0, <1>1, <1>2, <1>3, <1>4, Facts DEF GoroutineFine
  <1>7. QED
    BY <1>0, <1>1, <1>3, <1>5, <1>6, Facts, SameClients DEF Fine, CreditsFine
-----------------------------------------------------------------------------
(* The invariant holds at the start, and every step keeps it.              *)

LEMMA InitInv ==
  ASSUME Init
  PROVE  StratumInv
  <1>1. \A c \in Clients : client[c] = NewStratumClient
    BY DEF Init
  <1>2. \A p \in Goroutines : proc[p] = Ready
    BY DEF Init
  <1>3. TypeInv
    <2>1. NewStratumClient \in Shared
      BY StratumDiffs DEF NewStratumClient, Shared, NoShares
    <2>2. client \in [Clients -> Shared] /\ proc \in [Goroutines -> Process]
      BY <2>1, ReadyType DEF Init
    <2>3. \A p \in Goroutines : Locals(p, proc[p])
      BY <1>2 DEF Locals, Ready
    <2>4. QED
      BY <2>2, <2>3 DEF TypeInv
  <1>4. Listed
    BY <1>1, <1>2 DEF Listed, NewStratumClient, Ready
  <1>5. HasDiff
    <2>1. \A c \in Clients : proc[c] = Ready /\ client[c] = NewStratumClient
      BY <1>1, <1>2 DEF Goroutines
    <2>2. QED
      BY <2>1 DEF HasDiff, Judging, NewStratumClient, Ready
  <1>6. AllVoiced
    <2>1. \A c \in Clients : proc[c] = Ready /\ client[c] = NewStratumClient
      BY <1>1, <1>2 DEF Goroutines
    <2>2. credits = {}
      BY DEF Init
    <2>3. QED
      BY <2>1, <2>2 DEF AllVoiced, NewStratumClient, Ready
  <1>7. QED
    BY <1>3, <1>4, <1>5, <1>6 DEF StratumInv

(* A step that leaves clients, goroutines and credits alone. *)
LEMMA QuietKeeps ==
  ASSUME StratumInv, client' = client, proc' = proc, credits' = credits
  PROVE  StratumInv'
  <1>1. TypeInv' /\ Listed'
    BY DEF StratumInv, TypeInv, Listed
  <1>2. HasDiff'
    BY DEF StratumInv, HasDiff, Judging, Assigning
  <1>3. AllVoiced'
    BY DEF StratumInv, AllVoiced, Voiced
  <1>4. QED
    BY <1>1, <1>2, <1>3 DEF StratumInv

(* One action of the next-state relation at a time. *)
LEMMA NextInv ==
  ASSUME StratumInv, [Next]_vars
  PROVE  StratumInv'
  <1>1. ASSUME NEW p \in Goroutines, Run(p)
        PROVE  StratumInv'
    <2>1. CASE SendMiningJob(p)
      BY <1>1, <2>1, SendMiningJobFine, FineKeeps
    <2>2. CASE TestPending(p)
      BY <1>1, <2>2, TestPendingFine, FineKeeps
    <2>3. CASE TakePending(p)
      BY <1>1, <2>3, TakePendingFine, FineKeeps
    <2>4. CASE SendDifficulty(p)
      BY <1>1, <2>4, SendDifficultyFine, FineKeeps
    <2>5. CASE KeepPrevious(p)
      BY <1>1, <2>5, KeepPreviousFine, FineKeeps
    <2>6. CASE AssignDifficulty(p)
      BY <1>1, <2>6, AssignDifficultyFine, FineKeeps
    <2>7. CASE Announce(p)
      BY <1>1, <2>7, AnnounceFine, FineKeeps
    <2>8. CASE ClearPending(p)
      BY <1>1, <2>8, ClearPendingFine, FineKeeps
    <2>9. CASE p \in Clients /\ ProcessSubmit(p)
      BY <1>1, <2>9, ProcessSubmitFine, FineKeeps
    <2>10. CASE p \in Clients /\ Resend(p)
      BY <1>1, <2>10, ResendFine, FineKeeps
    <2>11. CASE p \in Clients /\ Retarget(p)
      BY <1>1, <2>11, RetargetFine, FineKeeps
    <2>12. CASE p \in Clients /\ TallyShare(p)
      BY <1>1, <2>12, TallyShareFine, FineKeeps
    <2>13. CASE p \in Broadcasts /\ NextClient(p)
      BY <1>1, <2>13, NextClientFine, FineKeeps
    <2>14. CASE Notify(p)
      BY <1>1, <2>14, NotifyFine, FineKeeps
    <2>15. CASE p \in Clients /\ Reply(p)
      BY <1>1, <2>15, ReplyFine, FineKeeps
    <2>16. QED
      BY <1>1, <2>1, <2>2, <2>3, <2>4, <2>5, <2>6, <2>7, <2>8, <2>9, <2>10, <2>11, <2>12, <2>13, <2>14, <2>15 DEF Run
  <1>2. ASSUME NEW c \in Clients,
               \/ Connect(c) \/ GoIdle(c) \/ StopReading(c)
               \/ Hangup(c) \/ HandleAuthorize(c) \/ HandleSubmit(c)
        PROVE  StratumInv'
    <2>0. c \in Goroutines
      BY DEF Goroutines
    <2>1. Fine(c, c) /\ CreditsFine
      BY <1>2, ConnectFine, GoIdleFine, StopReadingFine, HangupFine, HandleAuthorizeFine, HandleSubmitFine
    <2>2. QED
      BY <2>0, <2>1, FineKeeps
  <1>3. ASSUME NEW b \in Broadcasts, StartBroadcast(b)
        PROVE  StratumInv'
    <2>0. b \in Goroutines
      BY DEF Goroutines
    <2>1. QED
      BY <1>3, <2>0, StartBroadcastFine, FineKeeps
  <1>4. CASE Purge
    BY <1>4, QuietKeeps DEF Purge
  <1>5. CASE UNCHANGED vars
    BY <1>5, QuietKeeps DEF vars
  <1>6. QED
    BY <1>1, <1>2, <1>3, <1>4, <1>5 DEF Next

(* The invariant of the sessions and broadcasts of one port. *)
LEMMA StratumInvariant == Spec => []StratumInv
  <1>1. Init => StratumInv
    BY InitInv
  <1>2. StratumInv /\ [Next]_vars => StratumInv'
    BY NextInv
  <1>3. QED
    BY <1>1, <1>2, PTL DEF Spec

(* Voiced, in the terms of the properties *)
LEMMA VoicedTold ==
  ASSUME NEW c \in Clients, NEW d, Voiced(c, d)
  PROVE  d \in client[c].told \union Announcing(c)
  BY DEF Voiced, Announcing

(* ProcessSubmit and SendDifficulty, for any number of sessions and         *)
(* broadcasts: a share is credited at a difficulty its miner was told or is *)
(* being told, and which the hash reached (or it solved a block).           *)
THEOREM SharesCreditedAsAnnounced == Spec => []CreditAnnounced
  <1>1. StratumInv => CreditAnnounced
    <2>1. ASSUME StratumInv, NEW credit \in credits
          PROVE  /\ credit.diff \in client[credit.client].told \union Announcing(credit.client)
                 /\ credit.hash >= NetDiff \/ credit.hash * 100 >= credit.diff * 99
      <3>1. /\ credit.client \in Clients /\ Voiced(credit.client, credit.diff)
            /\ credit.hash >= NetDiff \/ credit.hash * 100 >= credit.diff * 99
        BY <2>1 DEF StratumInv, AllVoiced
      <3>2. QED
        BY <3>1, VoicedTold
    <2>2. QED
      BY <2>1 DEF CreditAnnounced
  <1>2. QED
    BY <1>1, StratumInvariant, PTL

(* SendDifficulty without a lock: the difficulties a client has in force    *)
(* were told to it, or are being told by the goroutine that assigned them.  *)
THEOREM InForceTold == Spec => []InForceWasTold
  <1>1. StratumInv => InForceWasTold
    BY VoicedTold DEF StratumInv, AllVoiced, InForceWasTold
  <1>2. QED
    BY <1>1, StratumInvariant, PTL

(* The variables the sessions' invariant says nothing of *)
Ambient == /\ alive \in BOOLEAN /\ sweeping \in BOOLEAN /\ bannedIPs \subseteq Clients
           /\ submits \in 0..MaxSubmits /\ auths \in 0..MaxAuths

(* They keep their types: a ban adds the session's own address, the purge   *)
(* only removes.                                                            *)
LEMMA AmbientStays ==
  ASSUME Ambient, [Next]_vars
  PROVE  Ambient'
  <1>1. ASSUME NEW p \in Goroutines, Run(p)
        PROVE  Ambient'
    <2>1. CASE SendDifficulty(p)
      BY <2>1 DEF Ambient, SendDifficulty
    <2>2. CASE p \in Clients /\ TallyShare(p)
      <3>1. CASE Banish(p)
        BY <2>2, <3>1 DEF Ambient, TallyShare, Banish
      <3>2. CASE UNCHANGED <<alive, bannedIPs>>
        BY <2>2, <3>2 DEF Ambient, TallyShare
      <3>3. QED
        BY <2>2, <3>1, <3>2 DEF TallyShare
    <2>3. CASE ~SendDifficulty(p) /\ ~(p \in Clients /\ TallyShare(p))
      <3>1. UNCHANGED <<alive, sweeping, bannedIPs, submits, auths>>
        BY <1>1, <2>3 DEF Run, SendMiningJob, TestPending, TakePending, KeepPrevious, AssignDifficulty, Announce,
                          ClearPending, ProcessSubmit, Resend, Retarget, NextClient, Notify, Reply, Write
      <3>2. QED
        BY <3>1 DEF Ambient
    <2>4. QED
      BY <2>1, <2>2, <2>3
  <1>2. ASSUME NEW c \in Clients,
               \/ Connect(c) \/ GoIdle(c) \/ StopReading(c)
               \/ Hangup(c) \/ HandleAuthorize(c) \/ HandleSubmit(c)
        PROVE  Ambient'
    <2>1. UNCHANGED <<alive, sweeping, bannedIPs>>
      BY <1>2 DEF Connect, GoIdle, StopReading, Hangup, HandleAuthorize, HandleSubmit
    <2>2. \/ UNCHANGED <<submits, auths>>
          \/ submits < MaxSubmits /\ submits' = submits + 1 /\ UNCHANGED auths
          \/ auths < MaxAuths /\ auths' = auths + 1 /\ UNCHANGED submits
      BY <1>2 DEF Connect, GoIdle, StopReading, Hangup, HandleAuthorize, HandleSubmit
    <2>3. submits' \in 0..MaxSubmits /\ auths' \in 0..MaxAuths
      BY <2>2, StratumBounds DEF Ambient
    <2>4. QED
      BY <2>1, <2>3 DEF Ambient
  <1>3. CASE \E b \in Broadcasts : StartBroadcast(b)
    BY <1>3 DEF Ambient, StartBroadcast
  <1>4. CASE Purge
    BY <1>4 DEF Ambient, Purge
  <1>5. CASE UNCHANGED vars
    BY <1>5 DEF Ambient, vars
  <1>6. QED
    BY <1>1, <1>2, <1>3, <1>4, <1>5 DEF Next

(* HandleSubmit dereferences CurrentDifficulty: by then the client has one, *)
(* and every shared field keeps its type.                                   *)
THEOREM SessionsTyped == Spec => []TypeOK
  <1>1. Init => Ambient
    <2>1. 0 \in 0..MaxSubmits /\ 0 \in 0..MaxAuths
      BY StratumBounds
    <2>2. QED
      BY <2>1, Zenon DEF Init, Ambient
  <1>2. Ambient /\ [Next]_vars => Ambient'
    BY AmbientStays
  <1>3. StratumInv /\ Ambient => TypeOK
    BY DEF StratumInv, TypeInv, HasDiff, Judging, Assigning, Ambient, TypeOK
  <1>4. QED
    BY <1>1, <1>2, <1>3, StratumInvariant, PTL DEF Spec
==============================================================================
