------------------------------- MODULE Daemons -------------------------------
(***************************************************************************)
(* The daemon manager (daemons/*.go) and the nodes behind it.  CmdAll asks *)
(* every daemon at once and waits for all of them; Cmd asks the first one. *)
(* A call may fail on the way (the daemon is not reached), never be        *)
(* answered (the HTTP client has no Timeout), come back as something that  *)
(* is not JSON, or be answered with an RPC error.  The nodes are external: *)
(* they follow one chain, each in its own time.                            *)
(***************************************************************************)
EXTENDS Naturals

CONSTANTS Daemons, First,        \* the configured daemons, and the one Cmd asks
          Callers,               \* the pool's goroutines
          Scenarios              \* configurations and bounds: one holds for a behaviour

ASSUME DaemonsAssumption ==
  /\ First \in Daemons
  /\ \A s \in Scenarios : /\ {s.height, s.revs, s.faults, s.seconds, s.submits} \subseteq Nat
                           /\ {s.lacks, s.noSubmitBlock} \subseteq BOOLEAN

VARIABLES alive,    \* the process: log.Fatal, log.Panic and a nil dereference end it
          node,     \* what each daemon has: its height, its mempool, the pool's blocks
          call,     \* the CmdAll each goroutine is in, or the Cmd it is left waiting in
          faults,   \* calls that failed
          scenario  \* .height, .revs, .faults, .seconds, .submits bound the environment;
                    \* .lacks: the coin's daemons do not know submitblock;
                    \* .noSubmitBlock: what the coin's configuration says of that

daemonVars == <<alive, node, call, faults, scenario>>

(* left: the daemons whose goroutine is at work; gone: those whose goroutine *)
(* will not come to wg.Done; errors: those that answered with an error.     *)
NoCall == [method |-> "none", block |-> {}, left |-> {}, gone |-> {}, errors |-> {}]
Template(d) == [height |-> node[d].height, rev |-> node[d].rev]
-----------------------------------------------------------------------------
(* The network: a block by others, transactions, and relay between nodes *)
NodeAdvance(d) ==
  /\ node[d].height < scenario.height
  /\ node' = [node EXCEPT ![d].height = @ + 1, ![d].rev = 0]
  /\ UNCHANGED <<alive, call, faults, scenario>>

(* Only the first daemon's transactions are ever looked at *)
NodeRevise ==
  /\ node[First].rev < scenario.revs
  /\ node' = [node EXCEPT ![First].rev = @ + 1]
  /\ UNCHANGED <<alive, call, faults, scenario>>

NodeRelay(d, e) ==
  /\ node[d].height < node[e].height
  /\ node' = [node EXCEPT ![d].height = node[e].height, ![d].rev = 0,
                          ![d].blocks = @ \union node[e].blocks]
  /\ UNCHANGED <<alive, call, faults, scenario>>
-----------------------------------------------------------------------------
Calling(p) == call[p].method # "none"

(* CmdAll: one goroutine per daemon.  block is the set of the block's one   *)
(* hash, or empty.                                                          *)
CmdAll(p, method, block) ==
  call' = [call EXCEPT ![p] = [NoCall EXCEPT !.method = method, !.block = block, !.left = Daemons]]

(* A block is taken when it extends the node's chain and came by a method   *)
(* the node knows.                                                          *)
Taken(d, method, block) ==
  /\ method \in {"submitblock", "submit"} /\ (method = "submitblock") = ~scenario.lacks
  /\ \A b \in block : b.height = node[d].height

RpcError(d, method, block) ==
  \/ method = "submitblock" /\ scenario.lacks
  \/ method = "getblock" /\ ~(block \subseteq node[d].blocks)

Extend(d, method, block) ==
  node' = IF Taken(d, method, block)
          THEN [node EXCEPT ![d].height = @ + 1, ![d].rev = 0, ![d].blocks = @ \union block]
          ELSE node

(* Mutant: an RPC error returns before wg.Done *)
AnsweredEarly(p, d, bad) ==
  call' = [call EXCEPT ![p].left = IF bad THEN @ ELSE @ \ {d}, ![p].errors = IF bad THEN @ \union {d} ELSE @]

(* results[i] = &result, wg.Done *)
Answered(p, d, bad) ==
  call' = [call EXCEPT ![p].left = @ \ {d}, ![p].errors = IF bad THEN @ \union {d} ELSE @]

Fault == faults < scenario.faults /\ faults' = faults + 1

(* The goroutine of one daemon, from the request to wg.Done *)
Reply(p, d) ==
  LET c == call[p] IN
  /\ d \in c.left /\ Extend(d, c.method, c.block)
  /\ Answered(p, d, RpcError(d, c.method, c.block))
  /\ UNCHANGED <<alive, faults, scenario>>

ReplyError(p, d) ==
  /\ d \in call[p].left /\ Fault /\ Answered(p, d, TRUE)
  /\ UNCHANGED <<alive, node, scenario>>

(* DoHttpRequest failed: return without wg.Done.  Or it never returns: the  *)
(* client of NewDaemonManager has no Timeout, and for wg.Wait it is the     *)
(* same.  The daemon may have taken the block before that.                  *)
Unreachable(p, d) ==
  LET c == call[p] IN
  /\ d \in c.left /\ Fault
  /\ call' = [call EXCEPT ![p].left = @ \ {d}, ![p].gone = @ \union {d}]
  /\ node' = node \/ Extend(d, c.method, c.block)
  /\ UNCHANGED <<alive, scenario>>

(* A body that is not JSON: log.Panicf in a goroutine ends the process *)
Garbled(p, d) ==
  /\ d \in call[p].left /\ Fault /\ alive' = FALSE
  /\ UNCHANGED <<node, call, scenario>>

(* wg.Wait *)
Returned(p) == Calling(p) /\ call[p].left = {} /\ call[p].gone = {}
Hung(p) == Calling(p) /\ call[p].gone # {}

(* Mutant: one daemon that has the block is enough *)
CheckAnyAccepted(c) == c.errors # Daemons

(* CheckBlockAccepted, over the results of getblock *)
CheckBlockAccepted(c) == c.errors = {}

(* What Cmd may come back with: an answer, an RPC error, or no result *)
CmdOutcome(p, outcome) ==
  /\ ~Calling(p)
  /\ \/ outcome = "ok" /\ UNCHANGED faults
     \/ outcome \in {"error", "nil"} /\ Fault

(* Or it does not come back: no Timeout ends the wait for an answer *)
CmdHangs(p) ==
  /\ ~Calling(p) /\ Fault
  /\ call' = [call EXCEPT ![p] = [NoCall EXCEPT !.method = "cmd", !.gone = {First}]]
  /\ UNCHANGED <<alive, node, scenario>>

Network == \/ NodeRevise
           \/ \E d \in Daemons : NodeAdvance(d)
           \/ \E d, e \in Daemons : NodeRelay(d, e)

Answer(p) == \E d \in Daemons : Reply(p, d) \/ ReplyError(p, d) \/ Unreachable(p, d) \/ Garbled(p, d)

DaemonsInit ==
  /\ alive = TRUE /\ faults = 0 /\ scenario \in Scenarios
  /\ node = [d \in Daemons |-> [height |-> 0, rev |-> 0, blocks |-> {}]]
  /\ call = [p \in Callers |-> NoCall]
==============================================================================
