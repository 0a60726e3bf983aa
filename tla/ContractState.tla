--------------------------- MODULE ContractState ---------------------------
(***************************************************************************)
(* The two states of one contract, accepted and finalized, and the saved   *)
(* snapshots of its transactions: what acceptance, appeals, rollbacks,     *)
(* finalization, crashes and recovery do to them (backend/consensus/       *)
(* base.py and decisions.py, database_handler/contract_processor.py).      *)
(*                                                                         *)
(* A state is the sequence of the effects it holds: its code, then the     *)
(* transactions.  The queue is that of ContractQueue for one contract and  *)
(* calls of it, with leases that only the death of a worker ends, and with *)
(* windows that may have elapsed whenever a finalization is claimed.       *)
(* LEADER_TIMEOUT, whose appeals fail, is not told from UNDETERMINED.      *)
(***************************************************************************)
EXTENDS Integers, Sequences

CONSTANTS
    N,            \* transactions, numbered in the order of created_at
    Workers,      \* consensus worker processes
    Envs,         \* the sets of hazards that an execution may have
    MaxCrashes,   \* bound: deaths of workers and errors of leaders
    MaxAppeals    \* bound: appeals that users submit

Tx == 1..N
Hazards == { "appeal",     \* users appeal
             "upheld",     \* ... and may win
             "parallel",   \* ... also while another transaction is worked on
             "cancel",     \* users cancel
             "crash",      \* workers die and leaders fail
             "latecrash" } \* ... also between the state and the status they commit

ASSUME StateAssumption ==
    /\ N \in Nat \ {0}
    /\ Envs \subseteq SUBSET Hazards
    /\ MaxCrashes \in Nat /\ MaxAppeals \in Nat

Eligible == {"ACCEPTED", "UNDETERMINED", "VALIDATORS_TIMEOUT"}
Terminal == {"FINALIZED", "CANCELED"}
Status   == {"ABSENT", "PENDING", "PROCESSING"} \cup Eligible \cup Terminal
Kinds    == {"transaction", "finalization", "appeal"}
Places   == {"idle", "start", "run", "save", "write", "status", "vote", "rollback",
             "forget", "restore", "clear", "requeue", "promote", "final", "end"}

Deployed   == <<0>>     \* what the deployment left: the code
Empty      == <<>>
NoSnapshot == <<-1>>    \* NULL of the column contract_snapshot

VARIABLES
    env,      \* the hazards of this execution
    state,    \* current_state.data["state"]: its accepted and its finalized half
    row,      \* the rows of the transactions
    lease,    \* blocked_at: "null", "live" or "expired"
    task,     \* what each worker executes
    used      \* how much of each bound is spent

vars == <<env, state, row, lease, task, used>>

NewRow == [ status |-> "ABSENT", appealed |-> FALSE,
            flag |-> "none",          \* appeal_undetermined or appeal_validators_timeout
            receipt |-> FALSE,        \* consensus_data is there
            ok |-> FALSE,             \* ... and its execution succeeded
            timeoutAppeal |-> FALSE,  \* last round is VALIDATOR_TIMEOUT_APPEAL_SUCCESSFUL
            snapshot |-> NoSnapshot ]

NoTask == [ pc |-> "idle", kind |-> "transaction", tx |-> 1, was |-> "PENDING",
            base   |-> Empty,         \* context.contract_snapshot: what the nodes run on
            saved  |-> NoSnapshot,    \* context.transaction.contract_snapshot
            leader |-> FALSE,         \* appeal_undetermined in the context
            late   |-> FALSE,         \* the last round in the context is a timeout appeal
            outcome |-> "PENDING", ok |-> FALSE, todo |-> {} ]

States == Seq({-1} \cup Tx \cup {0})
Rows   == [ status : Status, appealed : BOOLEAN,
            flag : {"none", "undetermined", "timeout"}, receipt : BOOLEAN,
            ok : BOOLEAN, timeoutAppeal : BOOLEAN, snapshot : States ]
Tasks  == [ pc : Places, kind : Kinds, tx : Tx, was : Status,
            base : States, saved : States, leader : BOOLEAN, late : BOOLEAN,
            outcome : Status, ok : BOOLEAN, todo : SUBSET Tx ]
TypeOK ==
    /\ env \in Envs
    /\ state \in [accepted : States, finalized : States]
    /\ row \in [Tx -> Rows]
    /\ lease \in [Tx -> {"null", "live", "expired"}]
    /\ task \in [Workers -> Tasks]
    /\ used \in [crash : 0..MaxCrashes, appeal : 0..MaxAppeals]

Init ==
    /\ env \in Envs
    /\ state = [accepted |-> Deployed, finalized |-> Deployed]
    /\ row = [t \in Tx |-> NewRow]
    /\ lease = [t \in Tx |-> "null"]
    /\ task = [w \in Workers |-> NoTask]
    /\ used = [crash |-> 0, appeal |-> 0]

-----------------------------------------------------------------------------
(* Users.                                                                  *)

Present(t) == row[t].status # "ABSENT"

Submit(t) ==
    /\ ~Present(t)
    /\ \A u \in Tx : u < t => Present(u)
    /\ row' = [row EXCEPT ![t].status = "PENDING"]
    /\ UNCHANGED <<env, state, lease, task, used>>

Cancel(t) ==
    /\ "cancel" \in env
    /\ row[t].status = "PENDING"
    /\ lease[t] = "null"
    /\ row' = [row EXCEPT ![t].status = "CANCELED"]
    /\ UNCHANGED <<env, state, lease, task, used>>

Appeal(t) ==
    /\ "appeal" \in env
    /\ used.appeal < MaxAppeals
    /\ row[t].status \in Eligible
    /\ ~row[t].appealed
    /\ row' = [row EXCEPT ![t].appealed = TRUE]
    /\ used' = [used EXCEPT !.appeal = @ + 1]
    /\ UNCHANGED <<env, state, lease, task>>

-----------------------------------------------------------------------------
(* The claims (ContractQueue says more of them), and the context of a task. *)

Live(t) == lease[t] = "live"
Others(t) == {u \in Tx \ {t} : Present(u)}
Newer(t) == {u \in Others(t) : u > t}
Decided(t) == row[t].status \in Eligible \cup Terminal

NoGate(t) == TRUE    \* a defect: a newer transaction does not wait
(* exec_transaction looks at the closest older transaction only.           *)
MayExecute(t) ==
    t > 1 => Decided(t - 1) \/ row[t - 1].appealed \/ row[t - 1].flag # "none"

Ready(kind, t) ==
    /\ ~Live(t)
    /\ CASE kind = "transaction" ->
              /\ row[t].status = "PENDING"
              /\ \A u \in Others(t) : ~Live(u) /\ (row[u].status = "PENDING" => u > t)
              /\ MayExecute(t)
         [] kind = "finalization" ->
              /\ row[t].status \in Eligible /\ ~row[t].appealed
              /\ \A u \in Others(t) : ~Live(u) /\ (u < t => row[u].status \in Terminal)
         [] kind = "appeal" ->
              /\ row[t].status \in Eligible /\ row[t].appealed
              /\ \A u \in Others(t) : Live(u) => "parallel" \in env /\ ~row[u].appealed

(* None of the claim queries returns contract_snapshot, ...                *)
ClaimedSnapshot(t) == NoSnapshot
(* ... so the nodes of every context run on what is accepted now.          *)
ContextBase(saved) == IF saved # NoSnapshot THEN saved ELSE state.accepted

Claim(w, kind, t) ==
    /\ task[w].pc = "idle"
    /\ Ready(kind, t)
    /\ lease' = [lease EXCEPT ![t] = "live"]
    /\ task' = [task EXCEPT ![w] = [NoTask EXCEPT !.pc = "start", !.kind = kind, !.tx = t,
                                     !.was = row[t].status, !.saved = ClaimedSnapshot(t)]]
    /\ UNCHANGED <<env, state, row, used>>

At(w, kind, pc) == task[w].kind = kind /\ task[w].pc = pc
Goto(w, pc) == task' = [task EXCEPT ![w].pc = pc]

-----------------------------------------------------------------------------
(* A transaction, from its context to its status.                          *)

(* TransactionContext, PendingState, which reads the row again, and the    *)
(* rounds up to the leader.                                                *)
Begin(w) ==
    LET t == task[w].tx
        leader == row[t].flag = "undetermined" /\ row[t].receipt IN
    /\ At(w, "transaction", "start")
    /\ row' = [row EXCEPT ![t].status = "PROCESSING", ![t].appealed = FALSE,
                          ![t].flag = IF leader THEN @ ELSE "none"]
    /\ task' = [task EXCEPT ![w].pc = "run", ![w].leader = leader,
                            ![w].base = ContextBase(task[w].saved),
                            ![w].saved = row[t].snapshot, ![w].late = row[t].timeoutAppeal]
    /\ UNCHANGED <<env, state, lease, used>>

(* update_transaction_status looks neither at the owner of the row nor at  *)
(* the status that it replaces.                                            *)
WriteStatus(t, s) == row' = [row EXCEPT ![t].status = s]

(* PROPOSING, COMMITTING and REVEALING are written one after the other.    *)
Progress(w) ==
    /\ task[w].pc = "run"
    /\ WriteStatus(task[w].tx, "PROCESSING")
    /\ UNCHANGED <<env, state, lease, task, used>>

(* The rounds end, and the result is committed.  A contract without code   *)
(* fails.                                                                  *)
Decide(w) ==
    /\ task[w].pc = "run"
    /\ \E s \in Eligible, ok \in BOOLEAN :
         /\ ok => s = "ACCEPTED" /\ task[w].base # Empty
         /\ task[w].leader /\ s = "ACCEPTED" => "upheld" \in env
         /\ row' = [row EXCEPT ![task[w].tx].receipt = TRUE, ![task[w].tx].ok = ok,
                               ![task[w].tx].timeoutAppeal = FALSE]
         /\ task' = [task EXCEPT ![w].pc = "save", ![w].outcome = s, ![w].ok = ok]
    /\ UNCHANGED <<env, state, lease, used>>

(* SetContractSnapshotEffect: the state the nodes ran on, unless the       *)
(* context knows of one that was saved.                                    *)
Save(w) ==
    /\ task[w].pc = "save"
    /\ row' = [row EXCEPT ![task[w].tx].snapshot =
                   IF task[w].saved = NoSnapshot THEN task[w].base ELSE task[w].saved]
    /\ Goto(w, IF task[w].ok THEN "write" ELSE "status")
    /\ UNCHANGED <<env, state, lease, used>>

(* update_contract_state: the row is locked and the other half is kept.    *)
SetOnlyAccepted(s) == state' = [accepted |-> s]    \* a defect: the other half is dropped
SetAccepted(s) == state' = [state EXCEPT !.accepted = s]
SetFinalized(s) == state' = [state EXCEPT !.finalized = s]

WriteAccepted(w) ==
    /\ task[w].pc = "write"
    /\ SetAccepted(Append(task[w].base, task[w].tx))
    /\ Goto(w, "status")
    /\ UNCHANGED <<env, row, lease, used>>

(* Where a task goes when the rows in rest are still to be rolled back.    *)
AfterRollback(w, rest) ==
    IF rest # {} THEN "rollback"
    ELSE IF task[w].kind = "appeal" /\ task[w].was = "ACCEPTED" THEN "restore"
    ELSE "end"

(* The status, and what the driver makes of the round that ended.          *)
Conclude(w) ==
    LET t == task[w].tx
        rolls == /\ task[w].outcome = "ACCEPTED"
                 /\ task[w].kind = "appeal" \/ (task[w].late /\ ~task[w].leader) IN
    /\ task[w].pc = "status"
    /\ row' = [row EXCEPT ![t].status = task[w].outcome,
                          ![t].flag = IF task[w].leader THEN "none" ELSE @]
    /\ task' = [task EXCEPT ![w].pc = IF rolls THEN AfterRollback(w, Newer(t)) ELSE "end",
                            ![w].todo = IF rolls THEN Newer(t) ELSE {}]
    /\ UNCHANGED <<env, state, lease, used>>

(* rollback_transactions: two commits for each newer transaction.          *)
Oldest(S) == CHOOSE u \in S : \A v \in S : u <= v
Rollback(w) ==
    /\ task[w].pc = "rollback"
    /\ WriteStatus(Oldest(task[w].todo), "PENDING")
    /\ Goto(w, "forget")
    /\ UNCHANGED <<env, state, lease, used>>

Forget(w) ==
    LET u == Oldest(task[w].todo) IN
    /\ task[w].pc = "forget"
    /\ row' = [row EXCEPT ![u].snapshot = NoSnapshot]
    /\ task' = [task EXCEPT ![w].pc = AfterRollback(w, task[w].todo \ {u}),
                            ![w].todo = @ \ {u}]
    /\ UNCHANGED <<env, state, lease, used>>

-----------------------------------------------------------------------------
(* Appeals.                                                                *)

(* An appeal that finds no validator to add.                               *)
AppealFails(w) ==
    /\ At(w, "appeal", "start")
    /\ row' = [row EXCEPT ![task[w].tx].appealed = FALSE]
    /\ Goto(w, "end")
    /\ UNCHANGED <<env, state, lease, used>>

(* process_leader_appeal, up to the new leader.                            *)
LeaderAppeal(w) ==
    LET t == task[w].tx IN
    /\ At(w, "appeal", "start")
    /\ task[w].was = "UNDETERMINED"
    /\ row' = [row EXCEPT ![t].appealed = FALSE, ![t].flag = "undetermined",
                          ![t].status = "PROCESSING"]
    /\ task' = [task EXCEPT ![w].pc = "run", ![w].leader = TRUE,
                            ![w].base = ContextBase(task[w].saved),
                            ![w].saved = row[t].snapshot, ![w].late = row[t].timeoutAppeal]
    /\ UNCHANGED <<env, state, lease, used>>

(* process_validator_appeal, up to the votes.                              *)
ValidatorAppeal(w) ==
    LET t == task[w].tx
        timeout == task[w].was = "VALIDATORS_TIMEOUT" IN
    /\ At(w, "appeal", "start")
    /\ task[w].was # "UNDETERMINED"
    /\ row' = [row EXCEPT ![t].status = "PROCESSING", ![t].appealed = ~timeout,
                          ![t].flag = IF timeout THEN "timeout" ELSE @]
    /\ task' = [task EXCEPT ![w].pc = "vote", ![w].base = ContextBase(task[w].saved)]
    /\ UNCHANGED <<env, state, lease, used>>

(* The extra validators confirm: the state is not written again.           *)
RejectAppeal(w) ==
    /\ task[w].pc = "vote"
    /\ row' = [row EXCEPT ![task[w].tx].status = task[w].was, ![task[w].tx].appealed = FALSE]
    /\ Goto(w, "end")
    /\ UNCHANGED <<env, state, lease, used>>

(* They do not: an ACCEPTED transaction is undone with all newer ones, one *)
(* whose validators timed out is only executed again.                      *)
UpholdAppeal(w) ==
    LET t == task[w].tx
        accepted == task[w].was = "ACCEPTED" IN
    /\ task[w].pc = "vote"
    /\ "upheld" \in env
    /\ row' = [row EXCEPT ![t].timeoutAppeal = ~accepted]
    /\ task' = [task EXCEPT ![w].pc = IF accepted THEN AfterRollback(w, Newer(t)) ELSE "clear",
                            ![w].todo = IF accepted THEN Newer(t) ELSE {}]
    /\ UNCHANGED <<env, state, lease, used>>

(* "Restore the contract state": to the snapshot of the context, or {}.    *)
Restore(w) ==
    /\ task[w].pc = "restore"
    /\ SetAccepted(IF task[w].saved # NoSnapshot THEN task[w].saved ELSE Empty)
    /\ Goto(w, "clear")
    /\ UNCHANGED <<env, row, lease, used>>

Clear(w) ==
    /\ task[w].pc = "clear"
    /\ row' = [row EXCEPT ![task[w].tx].snapshot = NoSnapshot]
    /\ Goto(w, "requeue")
    /\ UNCHANGED <<env, state, lease, used>>

Requeue(w) ==
    /\ task[w].pc = "requeue"
    /\ WriteStatus(task[w].tx, "PENDING")
    /\ Goto(w, "end")
    /\ UNCHANGED <<env, state, lease, used>>

-----------------------------------------------------------------------------
(* FinalizingState: what is accepted by now becomes final, then the status *)
(* is written.  Nothing to accept raises; after too many errors, the row   *)
(* is canceled.                                                            *)

Promotes(w) == task[w].was = "ACCEPTED" /\ row[task[w].tx].ok
ReadAnyAccepted(w) ==    \* a defect: a wiped state is finalized like any other
    /\ At(w, "finalization", "start")
    /\ task' = [task EXCEPT ![w].pc = IF Promotes(w) THEN "promote" ELSE "final",
                            ![w].base = state.accepted]
    /\ UNCHANGED <<env, state, row, lease, used>>
ReadAccepted(w) ==
    /\ At(w, "finalization", "start")
    /\ Promotes(w) => state.accepted # Empty
    /\ task' = [task EXCEPT ![w].pc = IF Promotes(w) THEN "promote" ELSE "final",
                            ![w].base = state.accepted]
    /\ UNCHANGED <<env, state, row, lease, used>>

MissingAccepted(w) ==
    /\ At(w, "finalization", "start")
    /\ Promotes(w)
    /\ state.accepted = Empty
    /\ \E s \in {"ACCEPTED", "CANCELED"} : row' = [row EXCEPT ![task[w].tx].status = s]
    /\ Goto(w, "end")
    /\ UNCHANGED <<env, state, lease, used>>

Promote(w) ==
    /\ task[w].pc = "promote"
    /\ SetFinalized(task[w].base)
    /\ Goto(w, "final")
    /\ UNCHANGED <<env, row, lease, used>>

Finalize(w) ==
    /\ task[w].pc = "final"
    /\ WriteStatus(task[w].tx, "FINALIZED")
    /\ Goto(w, "end")
    /\ UNCHANGED <<env, state, lease, used>>

-----------------------------------------------------------------------------
(* The end of a task, and failures.                                        *)

Finish(w) ==
    /\ task[w].pc = "end"
    /\ lease' = [lease EXCEPT ![task[w].tx] = "null"]
    /\ task' = [task EXCEPT ![w] = NoTask]
    /\ UNCHANGED <<env, state, row, used>>

Fault(hazard) ==
    /\ hazard \in env
    /\ used.crash < MaxCrashes
    /\ used' = [used EXCEPT !.crash = @ + 1]

Crash(w) ==
    /\ task[w].pc # "idle"
    /\ Fault(IF task[w].pc = "status" /\ task[w].ok THEN "latecrash" ELSE "crash")
    /\ task' = [task EXCEPT ![w] = NoTask]
    /\ lease' = [lease EXCEPT ![task[w].tx] = "expired"]
    /\ UNCHANGED <<env, state, row>>

Pended(t) == [row EXCEPT ![t].status = "PENDING", ![t].receipt = FALSE,
                         ![t].timeoutAppeal = FALSE]

(* GenVMInternalError of the leader: reset_transaction.                    *)
LeaderError(w) ==
    /\ task[w].pc = "run"
    /\ Fault("crash")
    /\ row' = Pended(task[w].tx)
    /\ lease' = [lease EXCEPT ![task[w].tx] = "null"]
    /\ task' = [task EXCEPT ![w] = NoTask]
    /\ UNCHANGED <<env, state>>

(* recover_stuck_transactions, below MAX_RECOVERY_CYCLES.                  *)
Recover(t) ==
    /\ \/ row[t].status \in {"PENDING", "PROCESSING"} /\ lease[t] = "expired"
       \/ row[t].status = "PROCESSING" /\ lease[t] = "null"
    /\ row' = Pended(t)
    /\ lease' = [lease EXCEPT ![t] = "null"]
    /\ UNCHANGED <<env, state, task, used>>

ReleaseOrphan(t) ==
    /\ row[t].status \in Eligible
    /\ lease[t] = "expired"
    /\ lease' = [lease EXCEPT ![t] = "null"]
    /\ UNCHANGED <<env, state, row, task, used>>

-----------------------------------------------------------------------------
Step(w) ==
    \/ Begin(w) \/ Progress(w) \/ Decide(w) \/ Save(w) \/ WriteAccepted(w) \/ Conclude(w)
    \/ Rollback(w) \/ Forget(w)
    \/ AppealFails(w) \/ LeaderAppeal(w) \/ ValidatorAppeal(w) \/ RejectAppeal(w)
    \/ UpholdAppeal(w) \/ Restore(w) \/ Clear(w) \/ Requeue(w)
    \/ ReadAccepted(w) \/ MissingAccepted(w) \/ Promote(w) \/ Finalize(w) \/ Finish(w)
    \/ Crash(w) \/ LeaderError(w)

Next ==
    \/ \E t \in Tx : Submit(t) \/ Cancel(t) \/ Appeal(t) \/ Recover(t) \/ ReleaseOrphan(t)
    \/ \E w \in Workers : Step(w)
    \/ \E w \in Workers, kind \in Kinds, t \in Tx : Claim(w, kind, t)

Spec == Init /\ [][Next]_vars

-----------------------------------------------------------------------------
(* Properties.                                                             *)

Effect(t) == row[t].ok /\ row[t].status \in {"ACCEPTED", "FINALIZED"}
Effects(s) == {s[i] : i \in DOMAIN s}
Ascending(s) == \A i, j \in DOMAIN s : i < j => s[i] < s[j]
Quiet == \A t \in Tx : ~Live(t) /\ (row[t].status # "PROCESSING")

(* While nobody works on the contract, its accepted state is the effects   *)
(* of the transactions that were accepted, each once and in the order in   *)
(* which they were submitted: whatever was tried, failed, crashed or       *)
(* canceled in between left none.  Appeals that change something,          *)
(* executions that start again after they wrote, and crashes that let a    *)
(* newer transaction overtake (the gate does not look past a canceled or   *)
(* an appealed one) are excluded: there it does not hold.                  *)
Undisturbed ==
    /\ env \cap {"upheld", "latecrash"} = {}
    /\ "crash" \in env => env \cap {"appeal", "cancel"} = {}
AcceptedIsHistory ==
    Undisturbed /\ Quiet =>
        /\ Effects(state.accepted) = {0} \cup {t \in Tx : Effect(t)}
        /\ Ascending(state.accepted)

(* The effect of a finalized transaction is in the finalized state for     *)
(* good: later finalizations, and appeals that wipe or rewrite the         *)
(* accepted half, do not take it away.  An appeal that is won next to      *)
(* another transaction is excluded: the two executions start from the same *)
(* state, and the second to write it drops the effect of the first.        *)
Apart == ~({"parallel", "upheld"} \subseteq env)
FinalIsKept ==
    Apart => \A t \in Tx : row[t].status = "FINALIZED" /\ row[t].ok =>
                 t \in Effects(state.finalized)
=============================================================================
