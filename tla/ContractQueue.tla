--------------------------- MODULE ContractQueue ---------------------------
(***************************************************************************)
(* The transactions table as the work queue of the consensus workers       *)
(* (backend/consensus/worker.py and the drivers of backend/consensus/      *)
(* base.py): submission, the three claim queries and their leases, the     *)
(* steps a claimed transaction, finalization or appeal commits, the error  *)
(* handlers, worker crashes and the recovery of stuck rows.                *)
(*                                                                         *)
(* A step is one database commit.  The consensus inside a task is reduced  *)
(* to its outcomes, and PROPOSING, COMMITTING and REVEALING, which every   *)
(* query treats alike, are the one status PROCESSING.                      *)
(***************************************************************************)
EXTENDS Integers, FiniteSets

CONSTANTS
    N,            \* transactions, numbered in the order of created_at
    Workers,      \* consensus worker processes
    NoWorker,     \* NULL of the column worker_id
    Addr,         \* [Tx -> address]: to_address
    Type,         \* [Tx -> Types]
    MaxRecovery,  \* MAX_RECOVERY_CYCLES
    MaxRetries,   \* the caps on retries of each class of error
    MaxCrashes,   \* bound: worker processes that die
    MaxFaults,    \* bound: errors that strike a task
    MaxAppeals,   \* bound: appeals that users submit
    Env           \* the hazards of the environment this instance has

Tx == 1..N
Types == {"send", "deploy", "run", "upgrade"}
Hazards == { "slow",        \* a task may outlive its lease while it progresses
             "stuck",       \* ... and may also stop reporting progress
             "latecommit",  \* an insert may commit after one with a later created_at
             "rowlock",     \* SKIP LOCKED may pass over a row another session locks
             "snapshot",    \* a claim may lock and update after it read the table
             "faulty",      \* errors strike without bound
             "missing",     \* the contract of a transaction may not exist
             "handover" }   \* a row may be claimed before the worker that released it
                            \* has recorded why

ASSUME QueueAssumption ==
    /\ N \in Nat \ {0}
    /\ NoWorker \notin Workers
    /\ Type \in [Tx -> Types]
    /\ MaxRecovery \in Nat \ {0}
    /\ MaxRetries \in Nat \ {0}
    /\ MaxCrashes \in Nat /\ MaxFaults \in Nat /\ MaxAppeals \in Nat
    /\ Env \subseteq Hazards

Eligible == {"ACCEPTED", "UNDETERMINED", "LEADER_TIMEOUT", "VALIDATORS_TIMEOUT"}
Terminal == {"FINALIZED", "CANCELED"}
Status   == {"ABSENT", "PENDING", "PROCESSING"} \cup Eligible \cup Terminal
Kinds    == {"transaction", "finalization", "appeal"}
Retry    == {"generic", "crash", "noValidators"}

(* Where a task is.  In the Leased places the worker has not released the  *)
(* row; "look" precedes the claim, and the last two places follow the      *)
(* release, in the except clauses.                                         *)
Leased == {"start", "upgraded", "run", "decided", "vote", "rollback", "requeue", "settle",
           "commit", "broken", "release", "releaseNoValidators", "releaseMissing"}
Places == Leased \cup {"idle", "look", "noValidators", "missing"}

VARIABLES
    tx,       \* the row of each transaction, its lease apart
    blocked,  \* blocked_at: "null", "live", "late" (expired) or "stale" (and no progress)
    owner,    \* worker_id
    task,     \* what each worker executes (MAX_PARALLEL_TXS_PER_WORKER = 1)
    tries,    \* the retry counters in each worker's memory
    used      \* how much of each bound is spent

vars == <<tx, blocked, owner, task, tries, used>>

NewRow == [ status   |-> "ABSENT",
            appealed |-> FALSE,
            flag     |-> "none",   \* appeal_undetermined or appeal_validators_timeout
            result   |-> "null",   \* consensus_data: NULL, a receipt, or a note without one
            elapsed  |-> FALSE,    \* the finality window has passed
            timeoutAppeal |-> FALSE, \* last round is VALIDATOR_TIMEOUT_APPEAL_SUCCESSFUL
            recovery |-> 0 ]

NoTask == [ pc   |-> "idle", kind |-> "transaction", tx |-> 1,
            was  |-> "PENDING",    \* the status the claim returned
            leader  |-> FALSE,     \* appeal_undetermined in the context
            rollback |-> FALSE,    \* should_rollback_after_accepted
            outcome |-> "PENDING",
            todo |-> {} ]          \* rows still to roll back

NoTries == [r \in Retry |-> [t \in Tx |-> 0]]

Rows  == [ status : Status, appealed : BOOLEAN,
           flag : {"none", "undetermined", "timeout"},
           result : {"null", "receipt", "note"}, elapsed : BOOLEAN,
           timeoutAppeal : BOOLEAN, recovery : Nat ]
Tasks == [ pc : Places, kind : Kinds, tx : Tx, was : Status \ {"ABSENT"},
           leader : BOOLEAN, rollback : BOOLEAN,
           outcome : Status \ {"ABSENT"}, todo : SUBSET Tx ]

(* No value the code does not know, and no counter of retries at its cap.  *)
TypeOK ==
    /\ tx \in [Tx -> Rows]
    /\ blocked \in [Tx -> {"null", "live", "late", "stale"}]
    /\ owner \in [Tx -> Workers \cup {NoWorker}]
    /\ task \in [Workers -> Tasks]
    /\ tries \in [Workers -> [Retry -> [Tx -> 0..MaxRetries - 1]]]
    /\ used \in [crash : Nat, fault : Nat, appeal : Nat]

Init ==
    /\ tx = [t \in Tx |-> NewRow]
    /\ blocked = [t \in Tx |-> "null"]
    /\ owner = [t \in Tx |-> NoWorker]
    /\ task = [w \in Workers |-> NoTask]
    /\ tries = [w \in Workers |-> NoTries]
    /\ used = [crash |-> 0, fault |-> 0, appeal |-> 0]

-----------------------------------------------------------------------------
(* Users and time.                                                         *)

Present(t) == tx[t].status # "ABSENT"

(* eth_sendRawTransaction: insert_transaction.  created_at is the start of *)
(* the database transaction, so commits can come in another order.         *)
Submit(t) ==
    /\ ~Present(t)
    /\ "latecommit" \in Env \/ \A u \in Tx : u < t => Present(u)
    /\ tx' = [tx EXCEPT ![t].status = "PENDING"]
    /\ UNCHANGED <<blocked, owner, task, tries, used>>

(* sim_cancelTransaction: cancel_transaction_if_available.                 *)
Cancel(t) ==
    /\ tx[t].status = "PENDING"
    /\ blocked[t] = "null"
    /\ tx' = [tx EXCEPT ![t].status = "CANCELED"]
    /\ UNCHANGED <<blocked, owner, task, tries, used>>

(* submitAppeal: set_transaction_appeal looks at the status only, neither  *)
(* at the window nor at the lease.                                         *)
Appeal(t) ==
    /\ used.appeal < MaxAppeals
    /\ tx[t].status \in Eligible
    /\ ~tx[t].appealed
    /\ tx' = [tx EXCEPT ![t].appealed = TRUE]
    /\ used' = [used EXCEPT !.appeal = @ + 1]
    /\ UNCHANGED <<blocked, owner, task, tries>>

WindowElapses(t) ==
    /\ tx[t].status \in Eligible
    /\ ~tx[t].elapsed
    /\ tx' = [tx EXCEPT ![t].elapsed = TRUE]
    /\ UNCHANGED <<blocked, owner, task, tries, used>>

WorkedOn(t) == \E w \in Workers : task[w].tx = t /\ task[w].pc \in Leased

LeaseExpires(t) ==
    /\ blocked[t] = "live"
    /\ WorkedOn(t) => "slow" \in Env
    /\ blocked' = [blocked EXCEPT ![t] = "late"]
    /\ UNCHANGED <<tx, owner, task, tries, used>>

ProgressStalls(t) ==
    /\ blocked[t] = "late"
    /\ WorkedOn(t) => "stuck" \in Env
    /\ blocked' = [blocked EXCEPT ![t] = "stale"]
    /\ UNCHANGED <<tx, owner, task, tries, used>>

-----------------------------------------------------------------------------
(* The claims.  An expired lease counts as none.                           *)

Live(t) == blocked[t] = "live"
Others(t) == {u \in Tx : u # t /\ Present(u) /\ Addr[u] = Addr[t]}
Older(t) == {u \in Others(t) : u < t}
Newer(t) == {u \in Others(t) : u > t}
AwaitsFinality(t) == tx[t].status \in Eligible /\ ~tx[t].appealed /\ tx[t].elapsed

(* What each query asks of the row itself, which the database checks again *)
(* once it has locked the row ...                                          *)
Unrecorded(t) == \E w \in Workers : task[w].tx = t /\ task[w].pc \in {"noValidators", "missing"}
RowReady(kind, t) ==
    /\ ~Live(t)
    /\ Unrecorded(t) => "handover" \in Env
    /\ CASE kind = "appeal"       -> tx[t].appealed /\ tx[t].status \in Eligible
         [] kind = "finalization" -> AwaitsFinality(t)
         [] kind = "transaction"  -> tx[t].status = "PENDING"

(* Defects of the next definition: the leases of other rows do not count,  *)
(* nor do older open rows, and a transaction also defers to newer ones.    *)
ReadyDespiteLeases(kind, t) ==
    kind = "finalization" => \A u \in Older(t) : tx[u].status \in Terminal
ReadyOutOfOrder(kind, t) == \A u \in Others(t) : ~Live(u)
ReadyDeferringToAll(kind, t) ==
    CASE kind = "appeal" -> \A u \in Others(t) : ~(tx[u].appealed /\ Live(u))
      [] kind = "finalization" -> /\ \A u \in Older(t) : tx[u].status \in Terminal
                                  /\ \A u \in Others(t) : ~Live(u)
      [] kind = "transaction"  -> \A u \in Others(t) : ~Live(u) /\ ~AwaitsFinality(u)

(* ... and of the other rows of the contract, read in the snapshot only.   *)
ContractReady(kind, t) ==
    CASE kind = "appeal" ->
           \A u \in Others(t) : ~(tx[u].appealed /\ Live(u))
      [] kind = "finalization" ->
           /\ \A u \in Older(t) : tx[u].status \in Terminal
           /\ \A u \in Others(t) : ~Live(u)
      [] kind = "transaction" ->
           /\ \A u \in Others(t) : ~Live(u)
           /\ \A u \in Older(t) : ~AwaitsFinality(u)

Claimable(kind) == {t \in Tx : RowReady(kind, t) /\ ContractReady(kind, t)}

(* ORDER BY: the oldest; for transactions, upgrades first, then the oldest *)
(* within a contract, and those never recovered first among the heads of   *)
(* the contracts.                                                          *)
QueueRank(kind, t) == IF kind = "transaction" /\ Type[t] = "upgrade" THEN t ELSE N + t
ClaimRank(kind, t) ==
    QueueRank(kind, t) + IF kind = "transaction" /\ tx[t].recovery > 0 THEN 2 * N ELSE 0
Foremost(kind, S) ==
    LET heads == {t \in S : \A u \in S : Addr[u] = Addr[t] =>
                                QueueRank(kind, t) <= QueueRank(kind, u)} IN
    IF "rowlock" \in Env THEN S
    ELSE {t \in heads : \A u \in heads : ClaimRank(kind, t) <= ClaimRank(kind, u)}

Take(w, kind, t, pc) ==
    /\ task' = [task EXCEPT ![w] = [NoTask EXCEPT !.pc = pc, !.kind = kind, !.tx = t,
                                                   !.was = tx[t].status]]
    /\ blocked' = [blocked EXCEPT ![t] = "live"]
    /\ owner' = [owner EXCEPT ![t] = w]
    /\ UNCHANGED <<tx, tries, used>>

Claim(w, kind, t) ==
    /\ task[w].pc = "idle"
    /\ t \in Foremost(kind, Claimable(kind))
    /\ Take(w, kind, t, "start")

(* A claimed transaction still in backoff after an error is released.      *)
ClaimInBackoff(w, t) ==
    /\ task[w].pc = "idle"
    /\ t \in Foremost("transaction", Claimable("transaction"))
    /\ tries[w]["noValidators"][t] > 0 \/ tries[w]["generic"][t] > 0
    /\ Take(w, "transaction", t, "release")

(* READ COMMITTED: the query reads one snapshot, and the advisory lock it  *)
(* takes on the contract may only have become free after it.               *)
Look(w, kind) ==
    /\ "snapshot" \in Env
    /\ task[w].pc = "idle"
    /\ Claimable(kind) # {}
    /\ task' = [task EXCEPT ![w] = [NoTask EXCEPT !.pc = "look", !.kind = kind,
                                                   !.todo = Claimable(kind)]]
    /\ UNCHANGED <<tx, blocked, owner, tries, used>>

ClaimSeen(w) ==
    LET kind == task[w].kind
        seen == {t \in task[w].todo : RowReady(kind, t)} IN
    /\ task[w].pc = "look"
    /\ \/ \E t \in Foremost(kind, seen) : Take(w, kind, t, "start")
       \/ /\ seen = {}
          /\ task' = [task EXCEPT ![w] = NoTask]
          /\ UNCHANGED <<tx, blocked, owner, tries, used>>

-----------------------------------------------------------------------------
(* The steps of a task.                                                    *)

At(w, kind, pc) == task[w].kind = kind /\ task[w].pc = pc
Goto(w, pc) == task' = [task EXCEPT ![w].pc = pc]

(* exec_transaction proceeds when the closest older transaction is decided *)
(* or under appeal; a deployment has no previous transaction.              *)
Previous(t) ==
    IF Type[t] = "deploy" THEN {}
    ELSE {u \in Older(t) : \A v \in Older(t) : v <= u}
NoGate(t) == TRUE    \* a defect: the gate is left out
MayExecute(t) ==
    \A u \in Previous(t) : \/ tx[u].appealed
                           \/ tx[u].flag # "none"
                           \/ tx[u].status \in Eligible \cup Terminal

(* process_transaction on a transaction the queue does not let through.    *)
Skip(w) ==
    /\ At(w, "transaction", "start")
    /\ Type[task[w].tx] # "upgrade"
    /\ ~MayExecute(task[w].tx)
    /\ Goto(w, "commit")
    /\ UNCHANGED <<tx, blocked, owner, tries, used>>

(* _process_upgrade_transaction needs neither the gate nor consensus.  The *)
(* code and the result are one commit, the status is the next.             *)
Upgrade(w) ==
    LET t == task[w].tx IN
    /\ At(w, "transaction", "start")
    /\ Type[t] = "upgrade"
    /\ tx' = [tx EXCEPT ![t].result = "note"]
    /\ \E s \in Terminal :
          task' = [task EXCEPT ![w].pc = "upgraded", ![w].outcome = s]
    /\ UNCHANGED <<blocked, owner, tries, used>>

EndUpgrade(w) ==
    /\ task[w].pc = "upgraded"
    /\ tx' = [tx EXCEPT ![task[w].tx].status = task[w].outcome]
    /\ Goto(w, "release")
    /\ UNCHANGED <<blocked, owner, tries, used>>

(* PendingState on a native transfer: execute_transfer.                    *)
Transfer(w) ==
    LET t == task[w].tx IN
    /\ At(w, "transaction", "start")
    /\ Type[t] = "send"
    /\ MayExecute(t)
    /\ \/ tx' = [tx EXCEPT ![t].status = "FINALIZED"]
       \/ tx' = [tx EXCEPT ![t].status = "UNDETERMINED", ![t].elapsed = FALSE]
    /\ Goto(w, "commit")
    /\ UNCHANGED <<blocked, owner, tries, used>>

(* PendingState and ProposingState up to the execution of the leader.  A   *)
(* row that kept appeal_undetermined runs as a leader appeal; another whose *)
(* consensus_data holds no leader receipt raises when it is read.          *)
Propose(w) ==
    LET t == task[w].tx
        leader == /\ tx[t].flag = "undetermined"
                  /\ tx[t].appealed \/ tx[t].result # "null"
        readable == leader \/ tx[t].result # "note" IN
    /\ At(w, "transaction", "start")
    /\ Type[t] \in {"deploy", "run"}
    /\ MayExecute(t)
    /\ tx' = [tx EXCEPT ![t].status = IF readable THEN "PROCESSING" ELSE @,
                        ![t].appealed = FALSE,
                        ![t].flag = IF leader THEN @ ELSE "none"]
    /\ task' = [task EXCEPT ![w].pc = IF readable THEN "run" ELSE "broken",
                            ![w].leader = leader,
                            ![w].rollback = tx[t].timeoutAppeal]
    /\ UNCHANGED <<blocked, owner, tries, used>>

(* The rounds of consensus end; the result, the history and the timestamps *)
(* are committed before the status.  A failed leader appeal keeps its      *)
(* window, up to the time the appeal took.                                 *)
Decide(w) ==
    LET t == task[w].tx IN
    /\ task[w].pc = "run"
    /\ \E s \in Eligible, keep \in BOOLEAN :
         /\ keep => task[w].leader /\ s = "UNDETERMINED"
         /\ tx' = [tx EXCEPT ![t].result = "receipt", ![t].timeoutAppeal = FALSE,
                             ![t].elapsed = keep /\ @]
         /\ task' = [task EXCEPT ![w].pc = "decided", ![w].outcome = s]
    /\ UNCHANGED <<blocked, owner, tries, used>>

(* Where a task goes when the rows in rest are still to be rolled back: a  *)
(* successful appeal of an ACCEPTED transaction sends it back to PENDING.  *)
AfterRollback(w, rest) ==
    IF rest # {} THEN "rollback"
    ELSE IF task[w].kind = "appeal" /\ task[w].was = "ACCEPTED" THEN "requeue"
    ELSE "commit"

(* The status update that ends the consensus, and what the driver does with *)
(* the state's return value.  exec_transaction knows ACCEPTED only: it     *)
(* calls handle on the round that a leader appeal returns.                 *)
Conclude(w) ==
    LET t == task[w].tx
        accepted == task[w].outcome = "ACCEPTED"
        appeal == task[w].kind = "appeal"
        rolls == accepted /\ (appeal \/ (task[w].rollback /\ ~task[w].leader)) IN
    /\ task[w].pc = "decided"
    /\ tx' = [tx EXCEPT ![t].status = task[w].outcome,
                        ![t].flag = IF task[w].leader THEN "none" ELSE @]
    /\ task' = [task EXCEPT
                  ![w].pc = IF rolls THEN AfterRollback(w, Newer(t))
                            ELSE IF accepted /\ task[w].leader THEN "broken"
                            ELSE "commit",
                  ![w].todo = IF rolls THEN Newer(t) ELSE {}]
    /\ UNCHANGED <<blocked, owner, tries, used>>

(* rollback_transactions: one commit per newer transaction, whatever its   *)
(* status and whoever holds it.                                            *)
Rollback(w) ==
    LET todo == task[w].todo IN
    /\ task[w].pc = "rollback"
    /\ \E u \in todo :
         /\ \A v \in todo : u <= v
         /\ tx' = [tx EXCEPT ![u].status = "PENDING"]
         /\ task' = [task EXCEPT ![w].pc = AfterRollback(w, todo \ {u}),
                                 ![w].todo = todo \ {u}]
    /\ UNCHANGED <<blocked, owner, tries, used>>

Requeue(w) ==
    /\ task[w].pc = "requeue"
    /\ tx' = [tx EXCEPT ![task[w].tx].status = "PENDING"]
    /\ Goto(w, "commit")
    /\ UNCHANGED <<blocked, owner, tries, used>>

(* process_leader_appeal, to the execution of the new leader.              *)
LeaderAppeal(w) ==
    LET t == task[w].tx IN
    /\ At(w, "appeal", "start")
    /\ task[w].was = "UNDETERMINED"
    /\ \/ /\ tx[t].result = "null"
          /\ tx' = [tx EXCEPT ![t].appealed = FALSE]
          /\ Goto(w, "broken")
       \/ /\ tx[t].result # "null"          \* no validator left to add
          /\ tx' = [tx EXCEPT ![t].appealed = FALSE]
          /\ Goto(w, "commit")
       \/ /\ tx[t].result # "null"
          /\ tx' = [tx EXCEPT ![t].appealed = FALSE, ![t].flag = "undetermined",
                              ![t].status = "PROCESSING"]
          /\ task' = [task EXCEPT ![w].pc = "run", ![w].leader = TRUE]
    /\ UNCHANGED <<blocked, owner, tries, used>>

(* process_leader_timeout_appeal takes the length of a column the claim    *)
(* does not return.                                                        *)
LeaderTimeoutAppeal(w) ==
    LET t == task[w].tx IN
    /\ At(w, "appeal", "start")
    /\ task[w].was = "LEADER_TIMEOUT"
    /\ tx' = [tx EXCEPT ![t].appealed = FALSE,
                        ![t].flag = IF @ = "undetermined" THEN "none" ELSE @]
    /\ Goto(w, "broken")
    /\ UNCHANGED <<blocked, owner, tries, used>>

(* process_validator_appeal, to the votes of the extra validators.         *)
ValidatorAppeal(w) ==
    LET t == task[w].tx
        timeout == task[w].was = "VALIDATORS_TIMEOUT" IN
    /\ At(w, "appeal", "start")
    /\ task[w].was \in {"ACCEPTED", "VALIDATORS_TIMEOUT"}
    /\ \/ /\ tx[t].result = "null"
          /\ Goto(w, "broken")
          /\ UNCHANGED tx
       \/ /\ tx[t].result # "null"          \* no validator left to add
          /\ tx' = [tx EXCEPT ![t].appealed = FALSE]
          /\ Goto(w, "commit")
       \/ /\ tx[t].result # "null"
          /\ tx' = [tx EXCEPT ![t].status = "PROCESSING",
                              ![t].appealed = @ /\ ~timeout,
                              ![t].flag = IF timeout THEN "timeout" ELSE @]
          /\ Goto(w, "vote")
    /\ UNCHANGED <<blocked, owner, tries, used>>

(* The extra validators confirm the decision.  An ACCEPTED row that kept   *)
(* appeal_undetermined is concluded as a leader appeal, which the driver   *)
(* of the validator appeal does not know.                                  *)
RejectAppeal(w) ==
    LET t == task[w].tx
        odd == task[w].was = "ACCEPTED" /\ tx[t].flag = "undetermined" IN
    /\ task[w].pc = "vote"
    /\ \E e \in BOOLEAN :
         tx' = [tx EXCEPT ![t].status = task[w].was, ![t].elapsed = e,
                          ![t].appealed = @ /\ odd, ![t].timeoutAppeal = FALSE,
                          ![t].flag = IF odd THEN "none" ELSE @]
    /\ Goto(w, IF odd THEN "broken" ELSE "commit")
    /\ UNCHANGED <<blocked, owner, tries, used>>

UpholdAppeal(w) ==
    LET t == task[w].tx
        accepted == task[w].was = "ACCEPTED" IN
    /\ task[w].pc = "vote"
    /\ tx' = [tx EXCEPT ![t].result = "receipt", ![t].timeoutAppeal = ~accepted]
    /\ task' = [task EXCEPT
                  ![w].pc = IF accepted THEN AfterRollback(w, Newer(t)) ELSE "requeue",
                  ![w].todo = IF accepted THEN Newer(t) ELSE {}]
    /\ UNCHANGED <<blocked, owner, tries, used>>

(* FinalizingState: FINALIZED is committed, then the fees are settled.     *)
Finalize(w) ==
    LET t == task[w].tx IN
    /\ At(w, "finalization", "start")
    /\ IF tx[t].result = "receipt"
       THEN tx' = [tx EXCEPT ![t].status = "FINALIZED"] /\ Goto(w, "settle")
       ELSE Goto(w, "broken") /\ UNCHANGED tx
    /\ UNCHANGED <<blocked, owner, tries, used>>

Settle(w) ==
    /\ task[w].pc = "settle"
    /\ Goto(w, "commit")
    /\ UNCHANGED <<tx, blocked, owner, tries, used>>

-----------------------------------------------------------------------------
(* The end of a task: release_transaction, which only the owner can do.    *)

ReleaseAny(w) ==    \* a defect: whoever the owner is
    /\ blocked' = [blocked EXCEPT ![task[w].tx] = "null"]
    /\ owner' = [owner EXCEPT ![task[w].tx] = NoWorker]

ReleaseRow(w) ==
    LET t == task[w].tx IN
    /\ blocked' = [blocked EXCEPT ![t] = IF owner[t] = w THEN "null" ELSE @]
    /\ owner' = [owner EXCEPT ![t] = IF @ = w THEN NoWorker ELSE @]

Finish(w) ==
    LET t == task[w].tx IN
    /\ task[w].pc = "commit"
    /\ ReleaseRow(w)
    /\ task' = [task EXCEPT ![w] = NoTask]
    /\ tries' = IF task[w].kind = "transaction"
                THEN [tries EXCEPT ![w] = [r \in Retry |-> [@[r] EXCEPT ![t] = 0]]]
                ELSE tries
    /\ UNCHANGED <<tx, used>>

Release(w) ==
    /\ task[w].pc \in {"release", "releaseNoValidators", "releaseMissing"}
    /\ ReleaseRow(w)
    /\ task' = [task EXCEPT ![w] =
                  CASE @.pc = "release"             -> NoTask
                    [] @.pc = "releaseNoValidators" -> [@ EXCEPT !.pc = "noValidators"]
                    [] OTHER                        -> [@ EXCEPT !.pc = "missing"]]
    /\ UNCHANGED <<tx, tries, used>>

-----------------------------------------------------------------------------
(* Errors.                                                                 *)

Fault == IF "faulty" \in Env THEN UNCHANGED used
         ELSE used.fault < MaxFaults /\ used' = [used EXCEPT !.fault = @ + 1]

(* One more failure of class r: at the cap the counter is dropped.         *)
PastCap(w, r) == tries[w][r][task[w].tx] >= MaxRetries    \* a defect: one retry more
AtCap(w, r) == tries[w][r][task[w].tx] + 1 >= MaxRetries
Count(w, r) ==
    tries' = [tries EXCEPT ![w][r][task[w].tx] = IF AtCap(w, r) THEN 0 ELSE @ + 1]

Noted(t) == [tx EXCEPT ![t].result = "note"]    \* a defect: the status is not written
Canceled(t) == [tx EXCEPT ![t].status = "CANCELED", ![t].result = "note"]

(* Any other exception: _handle_generic_error_retry, then the release.     *)
HandleGeneric(w) ==
    LET t == task[w].tx IN
    /\ Count(w, "generic")
    /\ tx' = IF AtCap(w, "generic") THEN Canceled(t) ELSE tx
    /\ task' = [task EXCEPT ![w].pc = "release", ![w].todo = {}]
    /\ UNCHANGED <<blocked, owner>>

(* The code itself raises, ...                                             *)
Raise(w) == task[w].pc = "broken" /\ HandleGeneric(w) /\ UNCHANGED used

(* ... or something it calls does.                                         *)
GenericError(w) ==
    /\ task[w].pc \in {"start", "run", "decided", "vote", "rollback",
                       "requeue", "settle", "commit"}
    /\ Type[task[w].tx] # "upgrade"
    /\ Fault
    /\ HandleGeneric(w)

(* GenVMInternalError of a validator: the row is released as it is.        *)
ValidatorError(w) ==
    /\ task[w].pc \in {"run", "vote"}
    /\ Fault
    /\ Goto(w, "release")
    /\ UNCHANGED <<tx, blocked, owner, tries>>

(* reset_transaction, guarded by the owner.                                *)
ResetAny(w) ==    \* a defect: whoever the owner is
    /\ ReleaseRow(w)
    /\ tx' = [tx EXCEPT ![task[w].tx].status = "PENDING", ![task[w].tx].result = "null"]

ResetRow(w) ==
    LET t == task[w].tx
        n == tx[t].recovery + 1 IN
    /\ ReleaseRow(w)
    /\ tx' = IF owner[t] # w THEN tx
             ELSE [tx EXCEPT ![t].timeoutAppeal = FALSE, ![t].recovery = n,
                             ![t].status = IF n >= MaxRecovery THEN "CANCELED" ELSE "PENDING",
                             ![t].result = IF n >= MaxRecovery THEN "note" ELSE "null"]

(* GenVMInternalError of the leader; a fatal one also ends the worker.     *)
LeaderError(w) ==
    /\ task[w].pc = "run"
    /\ Fault
    /\ ResetRow(w)
    /\ task' = [task EXCEPT ![w] = NoTask]
    /\ \/ UNCHANGED tries
       \/ tries' = [tries EXCEPT ![w] = NoTries]

(* A hard crash is counted; at the cap the row is ACCEPTED with an error   *)
(* receipt and keeps its lease.                                            *)
LeaderCrash(w) ==
    LET t == task[w].tx IN
    /\ task[w].pc = "run"
    /\ Fault
    /\ Count(w, "crash")
    /\ task' = [task EXCEPT ![w] = NoTask]
    /\ IF AtCap(w, "crash")
       THEN /\ tx' = [tx EXCEPT ![t].status = "ACCEPTED", ![t].result = "receipt",
                                ![t].elapsed = FALSE]
            /\ UNCHANGED <<blocked, owner>>
       ELSE ResetRow(w)

(* PendingState finds no validators: the row is released before the retry  *)
(* is counted, and at the cap canceled.                                    *)
NoValidators(w) ==
    /\ At(w, "transaction", "start")
    /\ Type[task[w].tx] \in {"deploy", "run"}
    /\ MayExecute(task[w].tx)
    /\ Fault
    /\ Goto(w, "releaseNoValidators")
    /\ UNCHANGED <<tx, blocked, owner, tries>>

HandleNoValidators(w) ==
    LET t == task[w].tx IN
    /\ task[w].pc = "noValidators"
    /\ Count(w, "noValidators")
    /\ tx' = IF AtCap(w, "noValidators") THEN Canceled(t) ELSE tx
    /\ task' = [task EXCEPT ![w] = NoTask]
    /\ UNCHANGED <<blocked, owner, used>>

(* ContractNotFoundError, raised while the context is built; the handlers  *)
(* run after the release.                                                  *)
Missing(w) ==
    /\ "missing" \in Env
    /\ task[w].pc = "start"
    /\ Type[task[w].tx] = "run"
    /\ Goto(w, "releaseMissing")
    /\ UNCHANGED <<tx, blocked, owner, tries, used>>

HandleMissing(w) ==
    LET t == task[w].tx IN
    /\ task[w].pc = "missing"
    /\ tx' = IF task[w].kind = "transaction"
             THEN [tx EXCEPT ![t].status = "ACCEPTED", ![t].result = "receipt",
                             ![t].elapsed = FALSE]
             ELSE [tx EXCEPT ![t].status = "FINALIZED"]
    /\ task' = [task EXCEPT ![w] = NoTask]
    /\ UNCHANGED <<blocked, owner, tries, used>>

(* The process dies, with the counters it kept in memory.                  *)
Crash(w) ==
    /\ task[w].pc # "idle"
    /\ used.crash < MaxCrashes
    /\ used' = [used EXCEPT !.crash = @ + 1]
    /\ task' = [task EXCEPT ![w] = NoTask]
    /\ tries' = [tries EXCEPT ![w] = NoTries]
    /\ UNCHANGED <<tx, blocked, owner>>

-----------------------------------------------------------------------------
(* recover_stuck_transactions: the steps of one pass, row by row.          *)

StuckIfLeased(t) ==    \* a defect: the age of the lease is not looked at
    tx[t].status \in {"PENDING", "PROCESSING"} /\ blocked[t] # "null"

Stuck(t) ==
    \/ tx[t].status \in {"PENDING", "PROCESSING"} /\ blocked[t] = "stale"
    \/ tx[t].status = "PROCESSING" /\ blocked[t] = "null"

FreeRow(t) ==
    /\ blocked' = [blocked EXCEPT ![t] = "null"]
    /\ owner' = [owner EXCEPT ![t] = NoWorker]

Escalate(t) ==
    /\ Stuck(t)
    /\ tx[t].recovery >= MaxRecovery
    /\ FreeRow(t)
    /\ tx' = [tx EXCEPT ![t].status = "CANCELED",
                        ![t].result = IF @ = "null" THEN "note" ELSE @]
    /\ UNCHANGED <<task, tries, used>>

ReleaseOrphan(t) ==
    /\ tx[t].status \in Eligible
    /\ blocked[t] \in {"late", "stale"}
    /\ FreeRow(t)
    /\ UNCHANGED <<tx, task, tries, used>>

RecoverUncounted(t) ==    \* a defect: recovery_count stays
    /\ Stuck(t)
    /\ tx[t].recovery < MaxRecovery
    /\ FreeRow(t)
    /\ tx' = [tx EXCEPT ![t].status = "PENDING", ![t].result = "null",
                        ![t].timeoutAppeal = FALSE]
    /\ UNCHANGED <<task, tries, used>>

Recover(t) ==
    /\ Stuck(t)
    /\ tx[t].recovery < MaxRecovery
    /\ FreeRow(t)
    /\ tx' = [tx EXCEPT ![t].status = "PENDING", ![t].result = "null",
                        ![t].timeoutAppeal = FALSE, ![t].recovery = @ + 1]
    /\ UNCHANGED <<task, tries, used>>

-----------------------------------------------------------------------------
(* What a worker does with its task when nothing fails.                    *)
Step(w) ==
    \/ Skip(w) \/ Upgrade(w) \/ EndUpgrade(w) \/ Transfer(w) \/ Propose(w) \/ Decide(w) \/ Conclude(w)
    \/ Rollback(w) \/ Requeue(w)
    \/ LeaderAppeal(w) \/ LeaderTimeoutAppeal(w) \/ ValidatorAppeal(w)
    \/ RejectAppeal(w) \/ UpholdAppeal(w)
    \/ Finalize(w) \/ Settle(w) \/ Finish(w) \/ Release(w)
    \/ Raise(w) \/ HandleNoValidators(w) \/ HandleMissing(w) \/ ClaimSeen(w)

Fail(w) ==
    \/ GenericError(w) \/ ValidatorError(w) \/ LeaderError(w) \/ LeaderCrash(w)
    \/ NoValidators(w) \/ Missing(w) \/ Crash(w)

Users(t) == Submit(t) \/ Cancel(t) \/ Appeal(t)
Clock(t) == WindowElapses(t) \/ LeaseExpires(t) \/ ProgressStalls(t)
Recovery(t) == Escalate(t) \/ ReleaseOrphan(t) \/ Recover(t)

Next ==
    \/ \E t \in Tx : Users(t) \/ Clock(t) \/ Recovery(t)
    \/ \E w \in Workers : Step(w) \/ Fail(w)
    \/ \E w \in Workers, kind \in Kinds, t \in Tx : Claim(w, kind, t)
    \/ \E w \in Workers, kind \in Kinds : Look(w, kind)
    \/ \E w \in Workers, t \in Tx : ClaimInBackoff(w, t)

Spec == Init /\ [][Next]_vars

(* A worker goes on with its task, and a dead one is replaced; it polls    *)
(* for ever, and its backoffs end; time passes, and each pass of the       *)
(* recovery looks at every row.  Nothing obliges users, errors or crashes. *)
Fairness ==
    /\ \A w \in Workers : /\ WF_vars(Step(w))
                          /\ SF_vars(\E kind \in Kinds, t \in Tx : Claim(w, kind, t))
    /\ \A t \in Tx : WF_vars(Clock(t) \/ Recovery(t))

LiveSpec == Spec /\ Fairness

-----------------------------------------------------------------------------
(* Properties.                                                             *)

(* Whoever works on a row holds its lease, so two workers never work on    *)
(* one row: claims take free rows, recovery takes stale ones, and a        *)
(* release is the owner's.  Needs tasks that do not outlive their lease.   *)
LeaseHeld ==
    \A w \in Workers : task[w].pc \in Leased =>
        blocked[task[w].tx] = "live" /\ owner[task[w].tx] = w

(* Two tasks work on one contract at a time only if one is an appeal:      *)
(* "only one transaction per contract is processed at a time"              *)
(* (claim_next_transaction).                                               *)
SerialExecution ==
    \A v, w \in Workers :
        /\ v # w /\ task[v].pc \in Leased /\ task[w].pc \in Leased
        /\ Addr[task[v].tx] = Addr[task[w].tx]
        => "appeal" \in {task[v].kind, task[w].kind}

(* A live lease is not taken from the worker that holds it and still works *)
(* under it, by another claim, by the release of a worker that lost the    *)
(* row before, or by recovery.  Holds of tasks that outlive their leases.  *)
LeaseNotStolen ==
    [][\A w \in Workers, t \in Tx :
          /\ task[w].tx = t /\ task[w].pc \in Leased
          /\ owner[t] = w /\ Live(t)
          => \/ owner'[t] = w /\ blocked'[t] \in {"live", "late"}
             \/ task'[w].pc \notin Leased]_vars

(* The receipt of a decided transaction survives until it is final, unless *)
(* the transaction is canceled or the worker that owns the row by now, and *)
(* executes it again, resets it: neither recovery nor the reset of a       *)
(* worker that lost the row wipes it ("that state is what gets promoted to *)
(* FINALIZED", _FINALIZATION_ELIGIBLE_STATUSES).                           *)
Resets(w, t) == task[w].tx = t /\ task[w].pc = "run" /\ owner[t] = w /\ task'[w].pc = "idle"
DecisionKept ==
    [][\A t \in Tx : tx[t].status \in Eligible /\ tx[t].result = "receipt" =>
          \/ tx'[t].result = "receipt" \/ tx'[t].status = "CANCELED"
          \/ \E w \in Workers : Resets(w, t)]_vars

(* What is decided has a receipt to be finalized from, whichever of the    *)
(* handlers decided it.                                                    *)
DecidedHasResult ==
    \A t \in Tx : tx[t].status \in Eligible /\ Type[t] # "send" => tx[t].result = "receipt"

(* Without appeals, a transaction executes when all older ones of the      *)
(* contract are decided: the gate of exec_transaction holds back what the  *)
(* claims let through out of turn.  It looks only at the closest one, so   *)
(* nothing is promised past a canceled transaction, nor past a deployment  *)
(* or an upgrade, which pass without the gate.                             *)
Gated(t) == Type[t] \in {"run", "send"}
Executed(t) == tx[t].status \in {"PROCESSING", "FINALIZED"} \cup Eligible
Decided(t) == tx[t].status \in Eligible \cup Terminal
QueueOrder ==
    \A t \in Tx : Gated(t) /\ Executed(t) =>
        \A u \in Older(t) :
            \/ Decided(u)
            \/ \E v \in Older(t) : v > u /\ (tx[v].status = "CANCELED" \/ ~Gated(v))

(* The queue implements the ordered finality of a contract's calls.        *)
Phase(t) ==
    CASE tx[t].status = "ABSENT"    -> "absent"
      [] tx[t].status = "FINALIZED" -> "final"
      [] tx[t].status = "CANCELED"  -> "canceled"
      [] OTHER                      -> "open"
Finality == INSTANCE OrderedFinality WITH phase <- [t \in Tx |-> Phase(t)]
OrderedFinalitySpec == Finality!Spec

(* Every transaction ends, for good, whatever errors, crashes and appeals  *)
(* meet it and the rows it shares a contract with.                         *)
EveryTransactionEnds == \A t \in Tx : Present(t) ~> [](tx[t].status \in Terminal)
=============================================================================
