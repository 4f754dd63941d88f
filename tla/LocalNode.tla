------------------------------ MODULE LocalNode ------------------------------
(* startAnvil and its handle (packages/ledger/src/evm.ts:30-59), as the    *)
(* programs use them that share a port: harness/e2e.ts and cli/demo.ts     *)
(* both run runLifecycle of harness/e2e_core.ts, which starts the node and *)
(* stops it in a finally.                                                  *)
(*                                                                         *)
(* A node process binds the port some time after it was spawned, or exits  *)
(* because the port is taken.  A poll is answered by whoever listens.  A   *)
(* program that is killed leaves its node running.                         *)
EXTENDS Naturals

CONSTANTS Runs,       \* runs of the programs
          Deadline    \* polls that fit into 30 s

VARIABLES
  node,     \* the node process of each run
  port,     \* whose node listens on the port ({}: nobody's)
  run,      \* where each run is
  peer,     \* whose node answered the run's poll
  polls     \* failed polls of the run
vars == <<node, port, run, peer, polls>>

Ended == {"idle", "done", "failed", "killed"}

Init ==
  /\ node = [r \in Runs |-> "none"]
  /\ port = {}
  /\ run = [r \in Runs |-> "idle"]
  /\ peer = [r \in Runs |-> {}]
  /\ polls = [r \in Runs |-> 0]

Goto(r, pc) == run' = [run EXCEPT ![r] = pc]

\* proc.kill(), which is a no-op for a process that is gone.
stop(r) ==
  /\ node' = [node EXCEPT ![r] = "dead"]
  /\ port' = port \ {r}

-----------------------------------------------------------------------------
spawn(r) ==
  /\ run[r] = "idle"
  /\ node' = [node EXCEPT ![r] = "starting"]
  /\ Goto(r, "poll")
  /\ UNCHANGED <<port, peer, polls>>

\* The node process: it gets the port, finds it taken, or fails to start.
Bind(r) ==
  /\ node[r] = "starting"
  /\ \/ port = {} /\ port' = {r} /\ node' = [node EXCEPT ![r] = "up"]
     \/ node' = [node EXCEPT ![r] = "dead"] /\ UNCHANGED port
  /\ UNCHANGED <<run, peer, polls>>

Answered(r) ==
  /\ run[r] = "poll" /\ port # {}
  /\ peer' = [peer EXCEPT ![r] = port]
  /\ Goto(r, "lifecycle")
  /\ UNCHANGED <<node, port, polls>>

\* A poll was refused: wait and poll again, or give up and kill the node.
Retry(r) ==
  /\ run[r] = "poll" /\ port = {}
  /\ IF polls[r] = Deadline
     THEN stop(r) /\ Goto(r, "failed") /\ UNCHANGED <<peer, polls>>
     ELSE polls' = [polls EXCEPT ![r] = @ + 1] /\ UNCHANGED <<node, port, run, peer>>

\* Seeded defect: the node is stopped by a life cycle that succeeds only.
FinishWithoutFinally(r) ==
  /\ run[r] = "lifecycle"
  /\ \/ port = peer[r] /\ Goto(r, "done") /\ stop(r)
     \/ Goto(r, "failed") /\ UNCHANGED <<node, port>>
  /\ UNCHANGED <<peer, polls>>

\* The steps need the node they began with; the finally stops one's own.
Finish(r) ==
  /\ run[r] = "lifecycle"
  /\ \/ port = peer[r] /\ Goto(r, "done")
     \/ Goto(r, "failed")
  /\ stop(r)
  /\ UNCHANGED <<peer, polls>>

Kill(r) ==
  /\ run[r] \in {"poll", "lifecycle"}
  /\ Goto(r, "killed")
  /\ UNCHANGED <<node, port, peer, polls>>

\* Somebody ends the node a killed program left behind.
Reap(r) ==
  /\ run[r] = "killed" /\ node[r] = "up"
  /\ stop(r)
  /\ UNCHANGED <<run, peer, polls>>

Step(r) == Answered(r) \/ Retry(r) \/ Finish(r)

Next == \E r \in Runs : spawn(r) \/ Bind(r) \/ Step(r) \/ Kill(r) \/ Reap(r)

Spec == Init /\ [][Next]_vars

-----------------------------------------------------------------------------
(* The types; the port belongs to a running node.                          *)
TypeOK ==
  /\ node \in [Runs -> {"none", "starting", "up", "dead"}]
  /\ port = {r \in Runs : node[r] = "up"}
  /\ run \in [Runs -> Ended \cup {"poll", "lifecycle"}]
  /\ peer \in [Runs -> SUBSET Runs] /\ polls \in [Runs -> 0..Deadline]

(* e2e_core.ts:247-250, evm.ts:45: a run that ends by itself leaves no     *)
(* node process of its own, not even one that has yet to bind the port;    *)
(* only a killed run does.                                                 *)
NoNodeIsLeft ==
  \A r \in Runs : run[r] \in {"done", "failed"} => node[r] = "dead"
=============================================================================
