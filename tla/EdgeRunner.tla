------------------------------ MODULE EdgeRunner ------------------------------
(***************************************************************************)
(* CommandLease with edge devices that run edge_collector/command_runner.py *)
(* (EdgeCommandRunner.run_once, called by run_forever): a round polls, and  *)
(* then executes and acknowledges the commands of the response one by one.  *)
(* Beside them there may be devices of other makes, as in CommandLease, but *)
(* no legacy collectors.                                                    *)
(*                                                                          *)
(* What the runner sends of a MinerCommand is the same whatever happened at *)
(* the miner: the payload of its ACK has results, but neither a status nor  *)
(* a nonce, and the server takes that for "completed".  After an answer of  *)
(* 200 the runner logs command_id[:8]; the ids of MinerCommands are numbers, *)
(* so the log line raises TypeError, which only run_forever catches: the    *)
(* rest of the round is dropped, and the command is not marked as executed. *)
(* The file of executed commands therefore never holds a MinerCommand, and  *)
(* is no variable here.                                                     *)
(***************************************************************************)
EXTENDS CommandLease

\* What a behaviour explores: the devices that are runners and those that are not,
\* the commands the operator creates, and whether all is calm: no message is lost,
\* nothing dies, and a lease (60 s) outlasts the round of the runner that has it.
CONSTANT Worlds

WorldRecords == [runners : SUBSET Devices, others : SUBSET Devices,
                 queue : SUBSET Commands, calm : BOOLEAN]

ASSUME WorldsAssumption == /\ Worlds \subseteq WorldRecords
                           /\ \A w \in Worlds : w.runners \cap w.others = {}
ASSUME RunnerAssumption == "completed" \in AckStatuses  \* what an ACK without a status means

VARIABLES world,  \* the world of this behaviour, chosen once
          round   \* round[d]: commands of d's round that d has still to look at

edgeVars == <<row, backoff, expired, req, rec, held, sent, told, world, round>>

Runs(d) == d \in world.runners
Faulty  == ~world.calm

EdgeInit == Init /\ world \in Worlds /\ round = [d \in Devices |-> {}]

Rest(d, c) == [round EXCEPT ![d] = @ \ {c}]
Dropped(d) == [round EXCEPT ![d] = {}]

-----------------------------------------------------------------------------
\* Fault: the next poll does not wait for the end of the round.
RunnerPollEager(d) == PollSelect(d) /\ UNCHANGED round

\* Fault: run_forever does not go on after the exception that ends a round.
RunnerPollOnce(d) ==
    round[d] = {} /\ (\A c \in Commands : held[d][c] = 0) /\ PollSelect(d) /\ UNCHANGED round

\* poll_commands at the start of a round; the server's loop works as ever.
RunnerPoll(d) == round[d] = {} /\ PollSelect(d) /\ UNCHANGED round

ServerPolls(d) == (PollDispatch(d) \/ PollRateLimited(d) \/ PollNext(d)) /\ UNCHANGED round

\* The response is the round's list; without a response there is none.
RunnerReceives(d) ==
    /\ PollEnd(d)
    /\ world.calm => held'[d] # held[d] \/ Granted(d) = 0
    /\ round' = [round EXCEPT ![d] =
                    IF held'[d] = held[d] THEN {} ELSE {c \in Commands : req[d].given[c] # 0}]

\* execute_command and ack_command of the next command: the ACK gets past the
\* server's checks ...
RunnerAck(d) ==
    /\ \E c \in Commands : IsFirst(c, round[d]) /\ AckLoad(d, c, "completed", 0)
    /\ UNCHANGED round

\* What is left of the round when the answer comes.
Answers(d, c, status200) == IF status200 THEN Dropped(d) ELSE Rest(d, c)

RunnerAcked(d) ==
    LET c == req[d].cmd
    IN  /\ AckCommit(d)
        /\ \/ round' = Answers(d, c, req[d].ack # "expired")
           \/ Faulty /\ round' = Rest(d, c)

\* ... or is refused (409), or answered as a replay (200).
RunnerRefused(d) ==
    /\ CanStart(d)
    /\ \E c \in Commands :
           /\ IsFirst(c, round[d])
           /\ ~AckAccepted(d, c, 0)
           /\ \/ round' = Answers(d, c, Ended(row[c]))
              \/ Faulty /\ round' = Rest(d, c)
    /\ UNCHANGED vars

RunnerStep(d) == \/ RunnerPoll(d) \/ ServerPolls(d) \/ RunnerReceives(d)
                 \/ RunnerAck(d) \/ RunnerAcked(d) \/ RunnerRefused(d)

-----------------------------------------------------------------------------
\* The worker dies: no answer comes, which the runner takes for a failed ACK.
EdgeRequestDies(x) ==
    /\ Faulty
    /\ RequestDies(x)
    /\ round' = IF x \in world.runners THEN Rest(x, req[x].cmd) ELSE round

EdgeRestart(x) ==
    /\ Faulty
    /\ ClientRestart(x)
    /\ round' = IF x \in world.runners THEN Dropped(x) ELSE round

\* A command is with a runner from its lease to the end of the round.
WithRunner(c) == \E d \in world.runners :
                     c \in round[d] \/ req[d].given[c] # 0 \/ req[d].cmd = c

EdgeTime(c) ==
    /\ TimeStep(c)
    /\ world.calm /\ WithRunner(c) => row'[c].lease_until # "lapsed"

EdgeNext ==
    /\ UNCHANGED world
    /\ \/ \E c \in world.queue : Create(c) /\ UNCHANGED round
       \/ \E c \in Commands : EdgeTime(c) /\ UNCHANGED round
       \/ \E d \in world.runners : RunnerStep(d)
       \/ \E d \in world.others : (PollStep(d) \/ AckStep(d)) /\ UNCHANGED round
       \/ (CancelStep \/ RecoverStep) /\ UNCHANGED round
       \/ \E x \in Clients : EdgeRequestDies(x) \/ EdgeRestart(x)
       \/ Faulty /\ RecoveryDies /\ UNCHANGED round

EdgeSpec == EdgeInit /\ [][EdgeNext]_edgeVars

(* Devices of other makes may stop for good, so that time must end their     *)
(* commands; runners run for ever (run_forever): they poll and acknowledge,  *)
(* the server takes up what waits in its queue, and neither refuses nor dies *)
(* each time.                                                                *)
EdgeFairness ==
    /\ ServerFairness
    /\ \A c \in Commands : WF_vars(world.runners = {} /\ CommandExpire(c))
    /\ \A d \in Devices :
           /\ SF_vars(Runs(d) /\ RunnerPoll(d))
           /\ SF_vars(Runs(d) /\ PollDispatch(d))
           /\ SF_edgeVars(Runs(d) /\ UNCHANGED world /\ (RunnerAck(d) \/ RunnerRefused(d)))

EdgeFairSpec == EdgeSpec /\ EdgeFairness

-----------------------------------------------------------------------------
\* A round lists commands the runner was handed, and its request is about the
\* first of them; between polls a runner has one request at a time.
RoundOK(d) ==
    /\ round[d] \subseteq {c \in Commands : held[d][c] # 0}
    /\ ~Runs(d) => round[d] = {}
    /\ Runs(d) /\ InPollLoop(d) => round[d] = {}
    /\ Runs(d) /\ req[d].op = "ack" => IsFirst(req[d].cmd, round[d])

EdgeTypeOK ==
    /\ TypeOK
    /\ world \in Worlds
    /\ round \in [Devices -> SUBSET Commands]
    /\ \A d \in Devices : RoundOK(d)

\* Where runners are at work, every command ends, expires before it is polled, or
\* is deferred by another device, even if no other command ever expires.
Served ==
    \A c \in Commands :
        world.runners # {} /\ row[c].status # "absent" ~>
            \/ Ended(row[c])
            \/ row[c].status = "pending" /\ expired[c]
            \/ row[c].status = "deferred" /\ world.others # {}

\* When all is calm, a command loses a hand-out to each command that is served
\* before it in a round, and to nothing else: with no more commands than
\* hand-outs, none fails.
CalmFailsNone ==
    world.calm /\ world.others = {} /\ Cardinality(world.queue) <= MaxRetries + 1 =>
        \A c \in Commands : row[c].status # "failed"

-----------------------------------------------------------------------------
(* The inductive invariant behind CalmFailsNone, with one worker: what a    *)
(* calm site with runners only adds to SerialInv.                           *)

\* Runner d has c: it is in the response that is made for d, or in d's round.
Has(d, c) == c \in round[d] \/ req[d].given[c] # 0

\* The commands that have been served before c.
EndedBefore(c) == {o \in world.queue \ {c} : Ended(row[o])}

\* c has lost no more hand-outs than other commands have ended, and one fewer if it
\* is not about to lose another.
LosesFew(c) ==
    LET lost == row[c].retry_count
    IN  /\ row[c].status # "absent" => c \in world.queue
        /\ lost <= Cardinality(EndedBefore(c))
        /\ row[c].status = "dispatched" /\ (\A d \in world.runners : ~Has(d, c)) =>
               lost + 1 <= Cardinality(EndedBefore(c))
        /\ Cardinality(world.queue) <= MaxRetries + 1 => row[c].status # "failed"

\* What a runner has is leased to it, and an ACK is about the row as it still is.
KeepsItsLeases(d) ==
    /\ \A c \in Commands : Has(d, c) =>
           row[c].status = "dispatched" /\ row[c].lease_owner = d /\ row[c].lease_until = "live"
    /\ \A c \in Commands : req[d].given[c] # 0 => req[d].op = "loop"
    /\ req[d].op = "ack" => /\ req[d].snap = row[req[d].cmd]
                            /\ req[d].ack \in {"completed", "expired"}

\* The recovery job visits commands whose leases have lapsed, and nobody else does.
PassIsSo ==
    /\ \A c \in Commands : c = rec.cmd \/ c \in rec.todo =>
           row[c].status = "dispatched" /\ row[c].lease_until = "lapsed"
    /\ rec.cmd # NoCommand => rec.snap = row[rec.cmd] /\ rec.cmd \notin rec.todo

Calm == world.calm /\ world.others = {}

CalmInv == Calm => /\ \A c \in Commands : LosesFew(c)
                   /\ \A d \in world.runners : KeepsItsLeases(d)
                   /\ PassIsSo
                   /\ req[Operator].op = "cancel" => req[Operator].cmd \in world.queue

=============================================================================
