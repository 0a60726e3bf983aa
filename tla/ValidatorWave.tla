--------------------------- MODULE ValidatorWave ---------------------------
(***************************************************************************)
(* The round of validators of CommittingState (backend/consensus/base.py): *)
(* one asyncio task for each slot, a semaphore that limits how many of     *)
(* them execute, replacements for validators that fail or time out, and    *)
(* the early end when the missing votes cannot change the result.          *)
(*                                                                         *)
(* A step is what runs on the event loop between two awaits.  The          *)
(* execution of a contract is reduced to how it ends: a vote, a fatal      *)
(* internal error, or another exception.                                   *)
(***************************************************************************)
EXTENDS Votes

CONSTANTS
    Slots,            \* the validators of the round are those of slots 1..Slots
    Spares,           \* validators of the snapshot without a slot
    MaxReplacements,  \* MAX_IDLE_REPLACEMENTS
    Permits           \* asyncio.Semaphore(8)

ASSUME WaveAssumption ==
    /\ Slots \in Nat \ {0} /\ Spares \in Nat
    /\ MaxReplacements \in Nat /\ Permits \in Nat \ {0}

Slot == 1..Slots
Validator == 1..Slots + Spares

VARIABLES
    pc,         \* the handler: "wave", "replace", and "reveal", "raised" or "broken" at its end
    assigned,   \* slot_validators
    task,       \* run_single_validator of each slot
    results,    \* the receipt of each slot; its vote is "none" while there is none
    pool,       \* replacement_pool
    late,       \* the slots that timed out, still to be replaced
    cycles,     \* replacement_cycles
    executing   \* validators whose node executes the transaction

vars == <<pc, assigned, task, results, pool, late, cycles, executing>>

Tasks   == [at : {"none", "waiting", "running", "done", "failed"}, by : Validator,
            attempt : 0..MaxReplacements, vote : Vote \cup {"none"}]
Results == [by : Validator, vote : Vote \cup {"none"}, cause : {"own", "quorum"}]

(* No counter passes MAX_IDLE_REPLACEMENTS.                                *)
TypeOK ==
    /\ pc \in {"wave", "replace", "reveal", "raised", "broken"}
    /\ assigned \in [Slot -> Validator]
    /\ task \in [Slot -> Tasks]
    /\ results \in [Slot -> Results]
    /\ pool \subseteq Validator
    /\ late \subseteq Slot
    /\ cycles \in 0..MaxReplacements
    /\ executing \subseteq Validator

NewTask(v)  == [at |-> "waiting", by |-> v, attempt |-> 0, vote |-> "none"]
NoResult(v) == [by |-> v, vote |-> "none", cause |-> "own"]

Init ==
    /\ pc = "wave"
    /\ assigned = [s \in Slot |-> s]
    /\ task = [s \in Slot |-> NewTask(s)]
    /\ results = [s \in Slot |-> NoResult(s)]
    /\ pool = Slots + 1 .. Slots + Spares
    /\ late = {}
    /\ cycles = 0
    /\ executing = {}

-----------------------------------------------------------------------------
(* run_single_validator.                                                   *)

At(place) == {s \in Slot : task[s].at = place}
HoldingForEver == Slot \ At("waiting")    \* a defect of the next: no release
Holding == At("running")                           \* the permits of the semaphore

Start(s) ==
    /\ task[s].at = "waiting"
    /\ Cardinality(Holding) < Permits
    /\ task' = [task EXCEPT ![s].at = "running"]
    /\ executing' = executing \cup {task[s].by}
    /\ UNCHANGED <<pc, assigned, results, pool, late, cycles>>

(* The node returns its vote; an internal error that is not fatal and the  *)
(* end of the slot's time count as a timeout.                              *)
Return(s) ==
    /\ task[s].at = "running"
    /\ \E v \in Vote \ {"idle"} :
          task' = [task EXCEPT ![s].at = "done", ![s].vote = v]
    /\ executing' = executing \ {task[s].by}
    /\ UNCHANGED <<pc, assigned, results, pool, late, cycles>>

(* pop_replacement takes the first of the pool; a defect leaves it there.  *)
PeekReplacement(v) == v \in pool /\ (\A u \in pool : v <= u) /\ UNCHANGED pool
PopReplacement(v)  == v \in pool /\ (\A u \in pool : v <= u) /\ pool' = pool \ {v}

OneMoreAttempt(s) == task[s].attempt <= MaxReplacements    \* a defect of the next
MayRetry(s) == task[s].attempt < MaxReplacements

(* A fatal internal error: the slot goes on with a replacement, ...        *)
Replace(s) ==
    /\ task[s].at = "running"
    /\ MayRetry(s)
    /\ \E v \in Validator :
         /\ PopReplacement(v)
         /\ task' = [task EXCEPT ![s].by = v, ![s].attempt = @ + 1]
         /\ executing' = (executing \ {task[s].by}) \cup {v}
    /\ UNCHANGED <<pc, assigned, results, late, cycles>>

(* ... or there is none left, and the validator counts as idle.            *)
GiveUp(s) ==
    /\ task[s].at = "running"
    /\ ~MayRetry(s) \/ pool = {}
    /\ task' = [task EXCEPT ![s].at = "done", ![s].vote = "idle"]
    /\ executing' = executing \ {task[s].by}
    /\ UNCHANGED <<pc, assigned, results, pool, late, cycles>>

(* Any other exception ends the task without a receipt.                    *)
Break(s) ==
    /\ task[s].at = "running"
    /\ task' = [task EXCEPT ![s].at = "failed"]
    /\ executing' = executing \ {task[s].by}
    /\ UNCHANGED <<pc, assigned, results, pool, late, cycles>>

-----------------------------------------------------------------------------
(* _run_validator_wave: whenever tasks have ended, it takes all their      *)
(* receipts and looks for a quorum.                                        *)

Gathered ==
    [s \in Slot |-> IF s \in At("done")
                    THEN [by |-> task[s].by, vote |-> task[s].vote, cause |-> "own"]
                    ELSE results[s]]
VotesOf(receipts) == [s \in Slot |-> receipts[s].vote]

Collect ==
    /\ pc = "wave"
    /\ At("done") # {} /\ At("failed") = {}
    /\ ~QuorumReached(VotesOf(Gathered))
    /\ results' = Gathered
    /\ task' = [s \in Slot |-> IF s \in At("done") THEN [task[s] EXCEPT !.at = "none"] ELSE task[s]]
    /\ UNCHANGED <<pc, assigned, pool, late, cycles, executing>>

(* All validators idle is taken for broken infrastructure.                 *)
Verdict(receipts) == IF \A s \in Slot : receipts[s].vote = "idle" THEN "raised" ELSE "reveal"

(* A quorum: the tasks that are left are canceled, which does not reach    *)
(* the executions they await, and their slots get an idle receipt.         *)
StopEarly ==
    LET filled == [s \in Slot |-> IF Gathered[s].vote # "none" THEN Gathered[s]
                                  ELSE [by |-> assigned[s], vote |-> "idle", cause |-> "quorum"]]
    IN
    /\ pc = "wave"
    /\ At("done") # {} /\ At("failed") = {}
    /\ QuorumReached(VotesOf(Gathered))
    /\ results' = filled
    /\ task' = [s \in Slot |-> [task[s] EXCEPT !.at = "none"]]
    /\ pc' = Verdict(filled)
    /\ UNCHANGED <<assigned, pool, late, cycles, executing>>

(* task.result() raises; the other tasks are left to themselves.           *)
Propagate ==
    /\ pc = "wave"
    /\ At("failed") # {}
    /\ pc' = "broken"
    /\ UNCHANGED <<assigned, task, results, pool, late, cycles, executing>>

-----------------------------------------------------------------------------
(* The wave is over without a quorum.                                      *)

WaveOver == pc = "wave" /\ At("none") = Slot
NotAgreed == {s \in Slot : results[s].vote \in {"timeout", "idle"}}  \* a defect of the next
TimedOut == {s \in Slot : results[s].vote = "timeout"}

Conclude ==
    /\ WaveOver
    /\ TimedOut = {} \/ cycles = MaxReplacements
    /\ pc' = Verdict(results)
    /\ UNCHANGED <<assigned, task, results, pool, late, cycles, executing>>

BeginReplacing ==
    /\ WaveOver
    /\ TimedOut # {} /\ cycles < MaxReplacements
    /\ pc' = "replace"
    /\ late' = TimedOut
    /\ UNCHANGED <<assigned, task, results, pool, cycles, executing>>

ReplaceLate(s) ==
    /\ pc = "replace"
    /\ s \in late /\ \A u \in late : s <= u
    /\ late' = late \ {s}
    /\ \/ /\ pool = {}
          /\ UNCHANGED <<assigned, results, pool>>
       \/ \E v \in Validator :
            /\ PopReplacement(v)
            /\ assigned' = [assigned EXCEPT ![s] = v]
            /\ results' = [results EXCEPT ![s] = NoResult(v)]
    /\ UNCHANGED <<pc, task, cycles, executing>>

EndReplacing ==
    LET again == {s \in Slot : results[s].vote = "none"} IN
    /\ pc = "replace"
    /\ late = {}
    /\ IF again = {}
       THEN pc' = Verdict(results) /\ UNCHANGED <<task, cycles>>
       ELSE /\ pc' = "wave"
            /\ cycles' = cycles + 1
            /\ task' = [s \in Slot |-> IF s \in again THEN NewTask(assigned[s]) ELSE task[s]]
    /\ UNCHANGED <<assigned, results, pool, late, executing>>

(* An execution nobody awaits ends by itself.                              *)
Orphans == executing \ {task[s].by : s \in At("running")}
OrphanEnds ==
    /\ \E v \in Orphans : executing' = executing \ {v}
    /\ UNCHANGED <<pc, assigned, task, results, pool, late, cycles>>

-----------------------------------------------------------------------------
Run(s) == Start(s) \/ Return(s) \/ Replace(s) \/ GiveUp(s) \/ Break(s)
Handle ==
    \/ Collect \/ StopEarly \/ Propagate \/ Conclude \/ BeginReplacing \/ EndReplacing
    \/ \E s \in Slot : ReplaceLate(s)

Next == Handle \/ OrphanEnds \/ \E s \in Slot : Run(s)

Spec == Init /\ [][Next]_vars

(* The event loop runs whatever is ready, and each slot has its deadline.  *)
Fairness ==
    /\ WF_vars(Handle)
    /\ \A s \in Slot : WF_vars(Run(s))

LiveSpec == Spec /\ Fairness

-----------------------------------------------------------------------------
(* Properties.                                                             *)

(* Each slot is a validator of its own, through both kinds of replacement  *)
(* and the receipts made up at the end: RevealingState keeps the votes by  *)
(* address, so a validator in two slots would make one vote vanish.        *)
OneVoteEach ==
    \A s, u \in Slot : s # u =>
        /\ results[s].by # results[u].by
        /\ task[s].by \notin {task[u].by, results[u].by}

(* The votes that the early end did not wait for could not have changed    *)
(* the result that RevealingState counts, in whatever mix they had come.   *)
Waited == [s \in Slot |-> IF results[s].cause = "quorum" THEN "none" ELSE results[s].vote]
EarlyEndIsSound ==
    pc \in {"reveal", "raised"} =>
        \A c \in Completions(Waited) : Consensus(c) = Consensus(VotesOf(results))

(* A replacement does not undo a vote: only a timeout is asked again.      *)
VotesStand ==
    [][\A s \in Slot : results[s].vote \notin {"none", "timeout"} => results'[s] = results[s]]_vars

(* The round ends, whatever fails: no slot waits for a permit for ever and *)
(* replacements run out.                                                   *)
RoundEnds == <>(pc \in {"reveal", "raised", "broken"})
=============================================================================
