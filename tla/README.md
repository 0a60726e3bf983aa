# GenLayer Studio in TLA+

GenLayer Studio runs *intelligent contracts*: a transaction is executed by a
leader and re-executed by a set of validators, who vote. The program is a
JSON-RPC server, one or several *consensus workers*, and a PostgreSQL database
through which they all communicate. Contracts run in an external virtual
machine, the GenVM.

This directory holds TLA+ modules of the parts of that program where the order
of events matters, configurations that check them with TLC on small instances,
and proofs, checked by TLAPS, of what holds for every instance. Paths below are
those of the repository, without the leading `backend/`.

## 1. The system

| Part | State | Operations | Interaction |
|---|---|---|---|
| **Contract queue** `consensus/worker.py` | columns `status`, `blocked_at`, `worker_id`, `recovery_count`, `appealed`, ... of the table `transactions`; retry counters in each worker's memory | three claim queries, release, reset, four error handlers, recovery of stuck rows | the only thing workers share is the table |
| **Consensus drivers** `consensus/base.py` | the context of one transaction | `exec_transaction`, three appeal drivers, rollback, `FinalizingState` | called by a worker under a lease; commits statuses one at a time |
| **Round of validators** `CommittingState`, `consensus/utils.py` | asyncio tasks, receipts by slot, pool of replacements | run, replace, stop early, count | tasks of one event loop share the pool and a semaphore |
| **Decisions and effects** `consensus/decisions.py`, `effects.py`, `effect_executor.py` | none | pure decisions, then effects in order | one commit for each effect |
| **Transactions processor** `database_handler/transactions_processor.py` | rows | insert, cancel, appeal, results | called by the server (users) and the workers |
| **Worker service** `consensus/worker_service.py` | one process | restarts a dead worker, health | its restart loses the counters in memory |
| **Contract state** `contract_processor.py`, `contract_snapshot.py` | accepted and finalized state of each contract | update, restore on appeal | written by accepting, finalizing and appealing transactions |
| **Accounts** `accounts_manager.py`, `invariants.py` | balances; `value_credited` of each row | transfer, credit, refund, faucet, messages | debited by the server, credited by workers |
| **Fees** `protocol_rpc/fees.py` | `data["fee_accounting"]` of each row | deposit, charge, unwind, top-up, bond, settle, cancel | written by workers and requests, each from a copy it read before |
| **Node and GenVM host** `node/` | machines of the external manager; caches of one context | attempts of a call, reads of other contracts, votes | one context has a leader and validators at once |
| **Validators manager** `validators/__init__.py` | registry, cached snapshot and LLM module of each process | CRUD, snapshot, restart, simulated calls | events on Redis tell the other processes |
| **Health** `protocol_rpc/health.py` | cache of a background loop, counter of failures | probe, scan, `/health`, `/ready` | the orchestrator restarts pods and routes requests |
| **Rate limiter** `rate_limiter.py`, admission in `endpoints.py` | windows in Redis, slots of the process | check and record, admit | every JSON-RPC request |
| **Delivery** `message_handler/`, `redis_subscriber.py`, `broadcast.py`, `websocket.py` | subscriptions, queues | publish, forward, subscribe | worker to Redis to server to socket |
| **Other** | rollup forwarding, explorer, metrics, frontend | | nothing in the state depends on them |

What is hard here, and what would make each part correct:

* **Claims and leases.** Rows are claimed by `UPDATE ... FOR UPDATE SKIP LOCKED`
  under READ COMMITTED, with conditions on *other* rows of the contract read in
  the statement's snapshot. A lease expires by time while the worker may go on.
  Correct: one worker per row, one call per contract, and a worker that lost its
  row takes nothing from its successor.
* **Order.** Three claims, recovery, cancellation and appeals each move rows of
  one contract. Correct: finality comes in the order of submission, and calls
  execute in that order.
* **Progress.** Pending calls defer to finalizations, finalizations wait for
  older rows; errors are retried, crashed rows recovered. Correct: every
  transaction reaches FINALIZED or CANCELED and stays there.
* **The round.** Validators answer, fail and time out in any order, share a pool
  of replacements, and the round stops when the rest cannot matter. Correct: no
  validator votes twice, stopping early changes no result, the round ends.
* **State.** Accepting, appealing and finalizing each take several commits, and a
  crash may fall between any two. Correct: what is accepted is the history of
  the accepted calls, what is final stays.
* **Money.** Balances and fee records are read, computed on and written back by
  workers and requests at once. Correct: no balance is negative, value is moved
  and not made, a call is paid once, fees are closed once and within the deposit.
* **Panels.** Who votes on an appeal is computed from the receipts of earlier
  votes. Correct: nobody judges their own decision.
* **Services.** Lost answers, stale caches, broken connections, executions that
  hang. Correct: each recovers without being told, or the orchestrator notices.

`PROJECT.json` lists every component with its status and every hazard at its line.

## 2. The modules

| Module | Models |
|---|---|
| `OrderedFinality` | abstract: what the queue promises to who watches a contract |
| `ContractQueue` | the queue: `worker.py`, the drivers of `base.py`, the writes of the processor |
| `ContractQueueProofs` | theorems about `ContractQueue`: types, leases, decisions |
| `QueueOrderProofs` | theorems about its orders: finality and execution |
| `MCQueue` | instances of the queue for TLC |
| `Votes` | the count of votes and the condition of the early end |
| `ValidatorWave` | `CommittingState`: one round of validators |
| `ValidatorWaveProofs`, `MCWave` | theorems about `Votes` and `ValidatorWave`; an instance |
| `ContractState`, `MCState` | the accepted and the finalized state of a contract, commit by commit |
| `ContractStateProofs` | theorems about `ContractState` |
| `StateClaims` | a statement of the repository about it that its code refutes |
| `Funds`, `FundsProofs`, `MCFunds` | native value: balances and what transactions carry |
| `Sums` | what proofs need to know of the sum of a function over a finite set |
| `FeeSchedule` | what rounds, appeals and deposits cost (pure) |
| `FeeAccounting` | the fee record and every operation on it (pure) |
| `TransactionFees`, `MCFees` | the life of that record: a worker, its failures, and requests |
| `FeesProofs` | theorems about `TransactionFees` and its two pure modules |
| `GenvmHost` | one call of the GenVM: attempts, tasks, machines |
| `NodeExecution` | what the leader and the validators of a context read and vote |
| `AppealPanels` | who votes: rounds, rotations, panels of appeals |
| `PodHealth` | health and readiness of an RPC pod |
| `WorkerService` | a pod of the worker: slots, loop, stops, health |
| `ValidatorsManager` | registry, snapshots, LLM modules, events, simulated calls |
| `Delivery` | the way of an event from a worker to a client |
| `Admission` | rate limits and the admission of calls |
| `MCServices` | these last eight components, side by side in one instance |
| `ServicesProofs` | theorems of that specification about five of them |

Definitions preceded by or marked "a defect" are faulty variants of the
definition they stand next to. No action uses them; substituting one for the
definition shows that a property notices the fault.

### ContractQueue

A step is **one database commit**. `tx` is the row of each transaction without
its lease; `blocked` and `owner` are `blocked_at` and `worker_id`; `task[w]` is
what worker `w` is doing and how far it is (`pc`); `tries` are the counters it
keeps in memory. `blocked` has four values: no lease, a live one, one that has
expired, and one that has expired with no sign of progress (what recovery asks
for). An expired lease counts as none in every query, as in the code.

| Actions | Code |
|---|---|
| `Submit`, `Cancel`, `Appeal` | `insert_transaction`, `cancel_transaction_if_available`, `set_transaction_appeal` |
| `WindowElapses`, `LeaseExpires`, `ProgressStalls` | the passing of time, as the queries read it |
| `Claim`, `ClaimInBackoff`, `Look`/`ClaimSeen` | `claim_next_finalization`, `claim_next_appeal`, `claim_next_transaction`; the last pair splits a claim at its snapshot |
| `Skip`, `Propose`, `Decide`, `Conclude`, `Rollback`, `Requeue`, `Transfer`, `Upgrade`, `EndUpgrade` | `exec_transaction` and the states it runs, with the gate on the previous transaction |
| `LeaderAppeal`, `LeaderTimeoutAppeal`, `ValidatorAppeal`, `RejectAppeal`, `UpholdAppeal` | `process_appeal` and its drivers |
| `Finalize`, `Settle` | `process_finalization`, `FinalizingState` |
| `Finish`, `Release`, `Raise`, `GenericError`, `ValidatorError`, `LeaderError`, `LeaderCrash`, `NoValidators`, `Missing` with their handlers | `_transaction_context` and the error handlers |
| `Crash`, `Escalate`, `ReleaseOrphan`, `Recover` | the death of a worker and the three statements of `recover_stuck_transactions` |

PROPOSING, COMMITTING and REVEALING are one status, PROCESSING: no query tells
them apart. The result of consensus is a choice (what decides it is
`ValidatorWave`). `consensus_data` is NULL, a receipt, or a note without one. A
worker takes one row at a time (`MAX_PARALLEL_TXS_PER_WORKER` = 1); several at a
time are several workers to the table, except that they share the counters.

`Env` names the hazards an instance has, so that each run says what it assumes:
`slow` (a task outlives its lease), `stuck` (and stops reporting progress),
`latecommit` (rows appear out of the order of `created_at`), `rowlock` (SKIP
LOCKED passes over a locked row), `snapshot` (a claim updates after it read),
`faulty` (errors strike without bound), `missing` (a contract that may not
exist), `handover` (a row is claimed after a failing worker released it and
before the handler of the error has written to it).

### OrderedFinality

Transactions of a contract are absent, open, final or canceled. They become
final in order; a canceled one may be reopened only while an older one is open.
`ContractQueue` implements it under `Phase`, which maps statuses to phases. It
covers calls submitted in order; upgrades and calls of a missing contract are
outside of it (section 5).

### Votes and ValidatorWave

A step is **what runs on the event loop between two awaits**. A slot has an
`assigned` validator (`slot_validators`), a `task` (`run_single_validator`) and
a receipt in `results`. `Start`, `Return`, `Replace`, `GiveUp`, `Break` are the
ways through `run_single_validator`; `Collect`, `StopEarly`, `Propagate` the
three outcomes of a wake-up of `_run_validator_wave`; `Conclude`,
`BeginReplacing`, `ReplaceLate`, `EndReplacing` the loop around it;
`OrphanEnds` the end of an execution nobody awaits. The execution itself is
reduced to how it ends. A receipt records whether the validator made it or the
early end did (`cause`); the code does not keep this, and no action reads it.
`executing` holds the validators whose execution has not ended. An execution
canceled at its deadline is taken to end within the tenth of a second the code
gives it.

### ContractState

A state is the **sequence of the effects it holds**: the code, then calls. The
step is again one commit, so that `Save`, `WriteAccepted`, `Conclude`,
`Rollback`/`Forget`, `Restore`, `Clear`, `Requeue`, `ReadAccepted`, `Promote`
and `Finalize` are apart, and `Crash` may fall between any two. The queue is that
of `ContractQueue` reduced to one contract. `base` is what the nodes run on,
`saved` the snapshot the context knows of; `ClaimedSnapshot` says that no claim
returns one. `env` names the hazards of an execution; it is chosen in `Init` and
does not change, so that a property can say in which executions it holds.

### Funds

Balances, and rows with a value. A worker's task and a user's request are both
sequences of steps with a session of their own; what SQL does in one statement is
one step (`Credit`, `Refund`), what Python reads and later writes, and what is in
two commits, is two: `ReadBalance`, `Submit`; `InsertFaucet`, `CreditFaucet`;
`CancelStatus`, `CancelRefund`; `Release`, `GiveUp`; and the transfer, which is
`ReadFrom`, `ReadTo` and then `WriteTransfer`, or, when the recipient has no row
in `current_state` (`accounts`), `CreateRecipient` and `WriteCredit`: creating the
row commits the debit that waits in the session, the credit comes with the status
in the next commit. A worker may stop at any of its steps (`Stops`): it dies and
recovery gives its row back (`Crash`), or it has had its last error and cancels
the row (`Abandon`).

`minted` counts the value that was created: by funding, by the faucet, by the
sandbox rule that a sender without the balance is given it, by a refund of what
was never debited, and by an appeal that reopens rows whose value had been given
back. `lost` counts what was taken and nobody will get: a transfer debited a
second time by its retry, and what the messages would have carried that were
debited but not sent when their worker stopped. `serial` is TRUE in executions
where nobody acts in the middle of what another does in several steps; a worker
that stops there is no longer in the middle of anything, so crashes are part of
these executions. Value is conserved only there.

### FeeSchedule, FeeAccounting, TransactionFees

`FeeAccounting` has one operator for every function of `fees.py` that changes
the record, with `...Ok` for when it does not raise. `TransactionFees` runs them
from where they are called: `Load` and `Begin` unwind the charges of an earlier
reveal, `Reveal` charges, `Dispatch` and `FinalMessages` execute, `SettleFees` and
`CancelRefund` close. Both the worker and the requests compute from the copy they
loaded; `lost` becomes TRUE when a write replaces one its writer had not read,
and the properties say which of them survive that. `Propose` stores the leader's
receipt before anyone votes on it, as `ProposingState` does, and an unwinding
gives back the messages of the receipt that is stored: `overdrawn` becomes TRUE
when it gives back more than is shown as used.

### The eight services

Each is a component that shares no state with the others.

* `GenvmHost`: `run` is `run_genvm_host`, `att` the tasks of `run_genvm` in the
  current attempt, `vms` the machines. Answers to POST and DELETE may be lost,
  probes fail and are cached, machines die before or after they connect.
* `NodeExecution`: a state of another contract is the number of commits to it.
  Reads go through the cache of the node and of the context, in threads that may
  come back after their node was cut (`StoreLate`).
* `AppealPanels`: validators are numbers, a shuffle is reduced to who leads,
  and those that nothing tells apart are taken in order. The slices of Python
  with negative indices are `Cut`, `From`, `UpTo`. `decided`, `jury` and
  `strayed` are ghosts: who took the decision that stands, who confirmed it
  last, and that an appeal of it left receipts which are not those of the table
  in `get_extra_validators`.
* `PodHealth`: the steps of the background loop between its awaits, the counter
  of failures, and the orchestrator that restarts and routes.
* `WorkerService`: slots that work, are overdue or done; the loop that reaps and
  claims; everything that stops it.
* `ValidatorsManager`: `registry` counts changes; a manager has a cached
  snapshot, an LLM module, the queue at its lock and the events it is yet to
  hear. `excused` marks the three ways in which the code loses a change (5).
* `Delivery`: `wire`, `link`, `queue`, `forwarder` are the hops; `due` is a ghost
  that holds the events the client is owed.
* `Admission`: the clock of a request and its arrival in Redis are apart by up to
  `Delay`.

## 3. The runs

All bounds are constants of the configurations. `CHECK_DEADLOCK FALSE` is in
each of them because the system may stop: when every transaction is closed, or
the round over, and users submit nothing more.

| Run | Asks | Instance |
|---|---|---|
| `queue_leases` | `TypeOK`, `LeaseHeld`, `SerialExecution`, `DecidedHasResult` | 2 calls, 2 workers, two errors, one appeal, late commits, SKIP LOCKED |
| `queue_order` | `QueueOrder` | 3 calls, 2 workers, one crash, stale snapshots, SKIP LOCKED |
| `queue_finality` | `OrderedFinalitySpec` | 3 calls, 2 workers, two appeals |
| `queue_late` | `DecisionKept`, `LeaseNotStolen` | 1 call, 2 workers, one error, three recoveries, tasks that outlive their leases and stop reporting, claims before a handler has written |
| `queue_live` | `EveryTransactionEnds`, `OrderedFinalitySpec` | 2 calls, 2 workers, one crash, one appeal |
| `queue_errors` | `EveryTransactionEnds` | a transfer, a call and an upgrade, 1 worker, unlimited errors, a missing contract |
| `wave` | `TypeOK`, `OneVoteEach`, `EarlyEndIsSound`, `VotesStand`, `RoundEnds` | 3 slots, 3 spares, 2 permits, 2 replacements |
| `state` | `TypeOK`, `AcceptedIsHistory`, `FinalIsKept` | 3 calls, 2 workers, one crash, one appeal; three sets of hazards |
| `funds` | `TypeOK`, `NoOverdraw`, `CreditedOnce`, `Conserved`, `FreezeKept` | 3 addresses, 3 rows (calls that emit, a transfer to an address without a row, the faucet), 2 workers, 1 request, one crash, giving up or appeal |
| `fees` | `TypeOK`, `LedgerAgrees`, `RefundBounded`, `PotsHold`, `FinalizationNeverRaises`, `ClosedForGood` | 3 receipts (two with messages, of three kinds), 3 rounds, 2 failures, 1 request |
| `services` | the property of each of the eight services (`MachinesStop` and `ServedIsReturned` of `GenvmHost`, `ReadyAgain` and `StallReported` of `PodHealth`) | see below |
| `claim_restored` | a refuted statement (section 5) | as `state` |

Why the bounds are enough. A property of order needs three calls of one
contract: one that is appealed, one between, one that might overtake. A property
of leases is about two workers and one row or two rows of one contract. Two
contracts interact only through the order of claims, so one is used. The caps
`MaxRetries = 2` and `MaxRecovery = 1` are the least at which a counter counts
and reaches its end (the code has 3 or more and 3); `queue_late` has the three
recoveries of the code, since a row must be recovered under one worker, worked
on by a second and released by the first. `queue_leases` has the two errors that
bring a counter to its cap. The runs of `OrderedFinalitySpec` have none: its
theorem says which error breaks the order (section 4). For the round, two permits
for three slots make one wait, and three spares are enough for two replacements
in one slot while another times out. The theorems of section 4 have none of
these bounds.

`state` needs three calls for the same reason as the order of finality, and one
worker that finalizes or appeals while the other executes. Its hazards come in
three sets because their product is out of reach: failed leaders and crashes;
appeals that fail, with cancellations; and appeals that win with crashes
anywhere. `funds` has one contract that is paid, pays another when accepted and
pays out when final, so that frozen value meets a second call; a fourth row
repeats these pairs. Its transfer goes to an address without a row, and the faucet
may pay the sender before the retry, so that a second debit after a crash has
something to take. `fees` has internal messages and an external one, since
the record treats them differently, and two receipts with different messages, so
that what is unwound may differ from what was charged; the appeal and the rerun
that unwinding needs fit in three rounds.

`services`: two tries of a POST in two attempts with two machines (an orphan and
its successor); a leader and a validator with a replacement, a program that
reads one contract twice and another between, two commits; thresholds of 2;
two processes with two changes and a simulated call; two slots; two channels and
two events; windows of 2 and 3 seconds with a delay of 1; and 4, 6 or 8
validators, with rounds of 1 or 2 at first, one rotation and three appeals,
rollbacks or failed machines.

Crashes multiply the states of three calls by twelve, so the order of finality
is checked with a crash on two calls (`queue_live`) and without one on three
(`queue_finality`). `queue_errors` has no appeals: an appeal together with a contract that is there at one moment and gone at
the next can go round for ever: nothing in the code bounds that, and nothing
in the repository claims it ends.

### Fairness

`ContractQueue!LiveSpec`: a worker goes on with its task (`WF` of `Step`): the
worker runs each task to an end or an exception, its waits have timeouts, and the
service replaces a dead worker. Time passes and recovery runs
(`WF` of `Clock \/ Recovery`): `run` calls it periodically, and each pass treats
every row. A worker that can claim something infinitely often does (`SF` of
`Claim`): `run` polls for ever at an interval that is not in step with anything,
and strong fairness is needed because a row that another worker takes and gives
back in its backoff is not claimable *all* the time. Nothing obliges users,
errors, crashes, nor `ClaimInBackoff`: backoffs end.

`ValidatorWave!LiveSpec`: the event loop resumes what is ready (`WF` of
`Handle`), and each slot has a deadline (`WF` of `Run(s)`). An orphan has
neither.

`MCServices!Fairness` is that of the modules. A machine notices that its host is
gone, and goes on while it is answered; nothing obliges the manager to answer a
POST. The health loop of a pod goes on and its endpoints are asked; a scan that
is tried again and again does not fail for ever (`SF`), which `StallReported`
needs since a scan that always times out reports nothing. A worker's loop turns,
time passes (`Overdue`) and the orchestrator probes and replaces; executions may
hang for ever. Publishing, listening and forwarding tasks go on; the connections
may break and the client may leave at any time.

## 4. What is proved

By TLAPS, for every value of the constants that the named assumptions allow
(`QueueAssumption`, `StateAssumption`, `WaveAssumption`, `ServicesAssumption`,
those of `Funds` and of `TransactionFees`: only that numbers are numbers, types
are types, caps are positive, sets that are summed over are finite, the server
is one of the managers, `NoWorker` is no worker, and the fees of a submission
are ones that `validate_transaction_fee_deposit` does not refuse).

| Theorem | States | Needs |
|---|---|---|
| `TypeCorrect` | `Spec => []TypeOK` | |
| `LeasesAreHeld` | `Spec => []LeaseHeld` | tasks do not outlive leases (`"slow" \notin Env`) |
| `ContractIsSerial` | `Spec => []SerialExecution` | and claims read what they lock (`"snapshot" \notin Env`) |
| `LeasesAreNotStolen` | `Spec => LeaseNotStolen` | |
| `DecisionsAreKept` | `Spec => DecisionKept` | |
| `DecidedHasReceipt` | `Spec => []DecidedHasResult` | no `slow`, no `handover` |
| `QueueImplementsFinality` | `Spec /\ [][Calm]_vars => OrderedFinalitySpec` | no `slow`, `latecommit`, `missing`, `handover`; deployments and calls |
| `FaultlessQueueImplementsFinality` | `Spec => OrderedFinalitySpec` | the same, and no errors |
| `QueueIsInOrder` | `Spec => []QueueOrder` | no appeals; no `slow`, `latecommit`, `missing`, `handover` |
| `QuorumIsSound` | uniform completions decide every completion | a finite set of voters |
| `WaveTypes` | `Spec => []TypeOK` | |
| `EarlyEndsAreSound` | `Spec => []EarlyEndIsSound` | |
| `VotesAreNotUndone` | `Spec => VotesStand` | |
| `ValidatorsVoteOnce` | `Spec => []OneVoteEach` | |
| `TypeCorrect` (of `ContractState`) | `Spec => []TypeOK` | |
| `FinalEffectsStay` | `Spec => []FinalIsKept` | |
| `AcceptedStateIsHistory` | `Spec => []AcceptedIsHistory` | |
| `FundsTypeOK` | `Spec => []TypeOK` | |
| `FundsNoOverdraw` | `Spec => []NoOverdraw` | |
| `FundsCreditedOnce` | `Spec => []CreditedOnce` | |
| `ValueIsConserved` | `Spec => []Conserved` | the property is about serial executions |
| `FreezeIsKept` | `Spec => []FreezeKept` | `ContractsDoNotSign`: the sender of a submission is not the account of a contract that emits |
| `TypeCorrect` (of `TransactionFees`) | `Spec => []TypeOK` | |
| `Ledger` | `Spec => []LedgerAgrees` | |
| `Refunds` | `Spec => []RefundBounded` | |
| `PotsCovered` | `Spec => []PotsHold` | |
| `ClosedOnce` | `Spec => ClosedForGood` | |
| `ResultsAreServed` | `Spec => []ServedIsReturned` | |
| `NoFalseAccusation` | `Spec => []NoFalseViolation` | |
| `ValidatorsAreNew` | `Spec => []NewValidatorsUsed` | |
| `RatesAreKept` | `Spec => []RateKept` | |
| `PanelsAreDue` | `Spec => PanelIsDue` | |

**The queue.** `TypeOK` is inductive, the counters included: a counter at its
cap is dropped in the commit that reaches it. For the leases, every step is
shown to be one of four (`LeaseStep`): *quiet* (no lease changes and a task goes
on or stops), the *end* of a task (the worker releases its own row), the
*beginning* of one (a claim of a ready row), or a *touch* (time or recovery
changes one lease, never a live one of a task unless `slow`). The invariants are
then proved over these four cases instead of over every action. `LeaseHeld` is
inductive with `TypeOK`. `SerialExecution` is not: a claim looks at the leases of
the other rows of the contract that *exist*, so it needs `LeaseHeld` (whoever
works holds a live lease), and that rows worked on are present
(`LeasedPresent`). Together they are `SerialInv`. `LeaseNotStolen` follows from
the same four cases without either condition: a release and a reset name the
owner, and claims and recovery take no live lease.

**Decisions.** `DecisionKept` is an action property of all steps: each write of a
status is looked at, late ones of a worker that lost its row included. It allows
the resets that take a decision back on purpose (`Resets`). `DecidedHasResult`
needs to know what a task will write when it ends: `ResultInv` adds, for each
place of a task, whether its row has a receipt by then (`Receipted`), and uses
`LeaseHeld`, since a task whose row another works on knows nothing. It fails
when a row is claimed between the release by a failing worker and the write of
its handler, and with tasks that outlive their leases (section 5): hence the two
conditions.

**Order of finality.** `Phase` maps the rows to those of `OrderedFinality`. Every
step of the queue changes the phase of at most one row, in one of five ways
(`PhaseStep`), and each of them is a step of the abstract specification or a
stutter. The conditions of these are the invariant `FinalInv`: rows appear in the
order of submission; a finalized row has none open before it; and the places of a
task tell what is still open (`OrderlyTask`): a finalization is claimed when the
older rows are closed, and they stay so, because a row is only reopened by the
rollback of an older open one, and that rollback reaches only newer rows. `Calm`
excludes one step: an error between the commit of FINALIZED and the release of
the row, whose handler at its cap writes CANCELED over FINALIZED (section 5). An
upgrade, a transfer of a missing contract and an insert that commits late break
the order by themselves (section 5).

**Order of execution.** `QueueOrder` says that a call executes after every older
one of its contract is decided or canceled. What makes it so is one test, the gate
of `exec_transaction`, which a claim from a stale snapshot does not replace; the
rest of the proof (`OrderInv`, over `OrderStep`) is that nothing undoes a decision
afterwards. An appeal does, on purpose, so the theorem has no appeals.

**The count.** `_is_quorum_reached` completes the missing votes with one kind at
a time. A side that wins although all missing votes are of a kind it does not
count has its majority among the votes that are in (`DecidedAlready`), so it has
it in every completion (`MajorityGrows`), and no other side has one
(`OneMajority`, from the cardinality of a union). Hence `QuorumIsSound`, mixed
completions and deterministic violations included, which the function never
tries.

**The round.** `TypeOK` is not inductive: the count of cycles grows in
`EndReplacing`, and the bound was checked before (`WaveInv` keeps it).
`EarlyEndIsSound` needs `ReceiptInv`: in a wave a slot is idle exactly if its
receipt is in; a finished task has a vote; while late slots are replaced no task
runs and the late ones hold timeouts; until the end every receipt is the
validator's own; and at the end either all are, or the quorum held of those that
are. `VotesStand` follows from the same invariant. `OneVoteEach` is inductive
once the assigned validator, the running one and the one of the receipt are
taken together (`Held`): these sets are disjoint from each other and from the
pool, and every step either brings nobody in or moves one validator from the
pool to one slot.

**State.** `FinalIsKept` needs to know what the rows and the tasks rely on
(`RowInv`, `TaskInv`): an accepted or finalized row with an effect has it in the
accepted state, unless that state was emptied; what an execution runs on
(`base`) is still what is accepted when it writes, unless it is an appeal next to
another task; and nothing is finalized from an emptied state. Two tasks work at
once only if one of them is an appeal, and never on one row (`LeaseInv`). The
property excludes executions with appeals that win next to a newer call: there it
is false (section 5). `AcceptedIsHistory` needs the order of execution
(`InOrder`: what was begun leaves only decided calls behind it) and an account of
every effect (`Accounted`): its row is accepted, or will be by the next step of
the task that wrote it. It is about the executions in which nothing is undone
(`Undisturbed`), a condition of the property and not of the theorem.

**Value.** `IInv` types the balances as naturals, ties the count of credits of a
call to its flag (`GoodRow`), and says that who writes a transfer holds a SEND
(`TransferOfSend`), without which the write of a transfer could credit a call
again. `NoOverdraw` is then part of the type: every debit is guarded by what it
takes in the same statement, or writes a difference computed from a balance it
compared. Rows only grow and keep what they were submitted as (`SameRows`), so
that a worker's step is sound for the rows that are there after any other step.

**Conservation.** `Conserved` is about executions in which nobody acts in the
middle of what another does in several steps; crashes fall between any two
commits of them, the debit and the credit of a transfer included. It does not
say that nothing is lost: it says that balances, what transactions carry and
`lost` add up to `minted`, where the two counters grow only in the cases section
3 names. `ValueInv` says for these executions that what a worker or a request
read is still so, and that who is about to write a credit has committed the debit
(`FreshRead`, `FreshCall`); that a row given back is canceled and a row held is
not (`RefundedRow`, `HeldRow`); that who gives up is the only one in the middle of
something, and nobody has touched its row since (`Released`); and that the books
balance (`Books`). A worker that emits adds to them what the messages it has left
will carry (`Owed`, `SettledBy`); if it stops, that is `lost`. A row is held by
one worker (`HeldOnce`), because a claim takes none that is held. Each step
changes two or three terms of the sums. `Sums` has the facts this takes, whatever order
the fold of the library goes in: a sum is that of the rest and one element, and a
changed value changes it by the difference. The provers take no induction theorem
with an operator, so the inductions of `Sums` are by a least counterexample.

**The freeze.** A call is accepted if the balance holds its external messages and
what older accepted calls of the contract have frozen; the code looks at older
calls only, and debits later, in another step. `FreezeInv` says what makes this
enough, while no call is appealed and no worker stops between a debit and its
children (`Unshaken`). A contract has one row at work (`OneHolder`); the rows
younger than an undecided one are undecided or canceled (`OldestFirst`), so that what the older
ones freeze is all there is (`PendingIsAll`). The balance holds what is frozen
and what the worker has *reserved* (`Backed`, `Reserved`): all external messages
when it accepts, those of the finalization after the debit, which the row then
freezes; and a finalization that has sent them is ahead of its row by as much. A
transfer writes a total it read before: it is no less than what is frozen, since
nothing of that contract is frozen in between (`Writing`). A worker that stops
earlier frees what its row had reserved, and who gives up had released a row
that is still pending (`Untaken`), which froze nothing. No other step debits a contract,
because contracts sign no transaction (`ContractsDoNotSign`, true of the code:
the account of a deployed contract is created and its key dropped,
`endpoints.py:2055`, or its address is a hash, `base.py:3163`).

**Fees.** The record exists in copies: in the row, with the worker, and in what
each request has read, and any of them may be written over any other. What can be
said of the record in spite of that is said of *every copy* (`Good`): it has the
submission's allocations (`IsCopy`); its totals are those of its events and of
what its allocations used, and no allocation is used beyond its budget (`Books`,
`Balanced`); and its two pots add up to what was paid and promise no more
(`Pots`). Each operator of `FeeAccounting` keeps `Good`, so a lost write replaces
one good record by another, and `LedgerAgrees` and `PotsHold` hold without any
condition on lost writes. The operators that go through a list of messages are
recursive functions; their lemmas are inductions over its length (`UpTo`), and an
event that is appended, executed or taken back changes sums by one term (`Sums`).
The exact half of `Balanced` ends where an unwinding gives back more than is
shown as used (`TooMuch`), which is the condition `overdrawn` of the property.
What the record says of the money that moved is true of the row until a write is
lost (`MoneyOK`). It rests on `SettledLast`: a record is settled only when its row
is FINALIZED or CANCELED and the worker is idle, and nobody who read a settled
record was there before; so a second settlement or cancellation finds the first
one and changes nothing (`ClosedForGood`), though three parties may try.
The bonds' payouts are bounded bond by bond (three halves of each, halves rounded
down). `IInv` was checked by TLC, with the bounds of the run, before it was
proved.

**A run of the GenVM.** `ServedIsReturned` relates the result of a run to one
machine, and machines of earlier attempts stay behind. The invariant adds that a
machine of the attempt under way that has a result is the one the attempt serves
(`OnlyServedHasResult`): a host accepts one machine, and no machine belongs to an
attempt that is not yet made. Most steps leave all of this alone, and are proved
from that (`QuietStep`); the others are the start of a machine, its connection,
its answer and the ends of an attempt.

**What nodes read.** A violation is voted by a validator that read another
sequence of states than its leader's receipt holds. As long as nodes read for a
vote, everything any of them has read is what the cache of the context holds
(`FromCache`), entries of that cache are not replaced, because the only read
under way is one of the leader that proposes, of a contract the cache does not
hold (`Shared`); and when the validators run, the cache holds all that the
receipt holds (`ReceiptInCache`), so that none of them asks the database. A run
that is cut in the middle of a read breaks the second: the abandoned thread
stores its state after the retry has read another. The property leaves these
behaviours out (`prop.cut`), and the invariant says nothing of them.

**New validators.** A manager's lock is a line of jobs: restarts, each with what
the registry held when it joined, and the steps of simulated calls. `ManagerInv`
says of a manager that was told of every change and is not excused: if a restart
is in its line, the last one is of the newest registry (`Newest`, and
`InOrder`: they stand in the order of the changes); if none is, the registry is in
use already, or a simulated call has its own validators in place (`UpToDate`). Such
a call puts back what it kept, so what a call keeps that no change overlapped is
what is in the registry; a call that is overlapped is not `alone`, and putting
back excuses the manager. Only the server has such calls. The invariant was
checked by TLC over the bounds of the run before it was proved.

**Rates.** A request meets a window at the time its own clock said, at most `Delay`
ago, and the window forgets by that clock. What it forgets is too old to count
against a request that could still be on its way; so a window holds exactly the
requests let through since `now - seconds`, and never more than its limit
(`AdmissionInv`). A stretch shorter than the window by `Delay` that contains the
new request began after that (`WindowHolds`), which bounds the sum over it by the
sum over the window. Without `Delay` in the statement it is false: the window may
have forgotten by a faster clock.

**Panels.** The code keeps no record of who judged: it computes from the number
of receipts and of failed appeals a number n, and takes all receipts from the
n-th on for the last panel. `PanelInv` says that it never takes too few
(`JuryKept`): whoever confirmed the decision last has a receipt at or behind place
n. A failed appeal puts the receipts of its panel behind those it keeps, so this
holds if n is then at most one more than what was kept. That is arithmetic, and
different for the first appeal, the second and the others (`SecondBase`,
`ThirdBase`, `LaterBase`); it needs that the panel was not larger than the table
says (`PanelFits`) and, from the third appeal on, that it was not smaller, for
there `merge_appeal_validators` computes n from the size of the panel. The
attempt to prove it without the last condition failed, and TLC then found the
execution (section 5), which the bounds of the run do not reach. The first panel
is drawn from those without a receipt, and whoever took part in a decision has
one, but for its leader. What is asserted is asserted of receipts that are those
of the table (`ReceiptsAreRight`, `strayed`) and of a count of failed appeals that
was reset (`CountIsRight`): section 5 names the ways in which they are not.

The last five are theorems of `MCServices`, with an invariant of the behaviours
of each part.

**Model-checked only.** Liveness and what is `ENABLED`, which are out of TLAPS's
reach, among them all properties of `PodHealth`, `WorkerService` and `Delivery`;
and `FinalizationNeverRaises`. That one is not a
consequence of the assumptions above: the charges of the later phase depend on
those of the phase before and on what a matched subtree holds, and the fee of a
round is looked up by its number in a table that a history without a bound
outgrows. It stays a statement about the receipts and rounds of the run.

## 5. Where the code and its texts disagree

With a run that shows it:

* `claim_restored`: "Restore the contract state" (`base.py:1206`), "Storage
  restored" (`tests/consensus/test_payable_appeal_flow.py:6`). The claim of an
  appeal does not return `contract_snapshot` (`worker.py:389`), so a successful
  appeal of an accepted call finds none and empties the accepted state. The test
  calls the driver with a transaction that has its snapshot.

The rest was met while modelling; the models have the behaviour, and properties
leave it out by a condition that their comments name.

**Queue.**

* "This advisory lock prevents that race" (`worker.py:505`): the lock is asked
  for inside the statement whose `NOT EXISTS` reads an older snapshot. Two calls
  of a contract are then worked on at once, in an order that the gate of
  `exec_transaction` keeps (`queue_order`).
* "Ensure no other appeal for same contract is being processed"
  (`worker.py:357`): the query looks for `appealed`, which each driver clears
  when it begins.
* The "defensive branch drains them naturally" (`worker.py:211`): a transfer
  without the balance is UNDETERMINED without `consensus_data`; `FinalizingState`
  reads a receipt in it, fails, and after the retries the row is CANCELED.
* An upgrade is "queued behind any pending txs for that contract"
  (`docs/knowledge/backend.md:89`); `claim_next_transaction` takes upgrades first
  (`worker.py:509`).
* FINALIZED and CANCELED are called terminal (`worker.py:198`); a successful
  appeal sets every newer row of the contract to PENDING, canceled (and
  refunded) ones too (`base.py:1235`). `OrderedFinality!Reopen` is this.
* A younger transaction is not to be finalized before an older one
  (`worker.py:197`); an appeal of a call whose contract is missing finalizes it
  at once (`worker.py:1816`).
* An appeal submitted while its row is being finalized is lost: the row ends
  FINALIZED with `appealed` set.
* A worker that lost its lease still writes statuses
  (`update_transaction_status` looks at no owner). What it decided late is reset
  by the next owner of the row like any row it finds undecided.
* `_handle_no_validators_retry` writes (`worker.py:1270`) after its worker released
  the row (`worker.py:1209`): over the decision of a worker that claimed the row
  in between, which leaves a status without the result it needs.
* FINALIZED is terminal (`worker.py:198`), but an error after the commit of
  FINALIZED is retried like any other, and at the cap
  `_handle_generic_error_retry` cancels the row (`worker.py:1337`).

**Round and panels.**

* "If all validators voted IDLE" (`base.py:2607`): after a quorum of idle votes
  the slots not waited for get idle receipts, so the first majority raises.
* "Validator execution cancelled after quorum" (`base.py:2374`): canceling a task
  in `asyncio.wait` does not cancel what it waits for.
* "Remove used leaders from validator_map" (`base.py:1301`): the claim of an
  appeal returns no `consensus_history`, so the leader whose decision is
  appealed may sit on the panel; nor the timed-out leader's validators, so an
  appeal of LEADER_TIMEOUT raises `TypeError` (`base.py:1029`).
* `appeal_failed` is not reset when a decision is taken again after a rollback:
  the "first" appeal of the new decision is judged by its own voters.
* A juror replaced in an appeal may be one who voted before: two receipts of one
  validator, and another panel next time. With few validators n is 0 or
  negative, and the slices keep the wrong receipts
  (`test_decisions_revealing.py`, `test_appeal_failed_2`, has such a case).
* The table of `get_extra_validators` (`base.py:1265`) counts on 2n validators who
  did not vote yet. When a third appeal finds fewer, `merge_appeal_validators`
  (`decisions.py:544`) computes an n that is too small, and the receipts it keeps
  are too few: the next panel leaves out some who confirmed the decision last and
  asks earlier voters again. With 15 validators of which 3 took the decision,
  the fourth appeal is judged by such a panel.

**State.**

* A crash between the accepted state and the status applies a call twice; so does
  a rerun after a timeout appeal, on a state that holds newer effects, which are
  then rolled back and applied again.
* A leader appeal next to a newer call loses an effect that is then FINALIZED.
* The validators of an appeal are said to run on the state the leader saw
  (`base.py:488`); they run on one with the call's own effect.
* A finalization copies what is accepted by now, with effects of calls that may
  still be appealed. A contract whose accepted state was emptied cannot be
  finalized: its ACCEPTED calls are CANCELED.

**Value.** The first transfer to an address without a row is not atomic:
`update_account_balance` creates the row (`accounts_manager.py:93`), and that
commits (`:59`) the debit of the sender, before the credit, `value_credited` and
FINALIZED. `send_raw_transaction` does not create the recipient of a SEND, so each
transfer to a fresh address goes this way. A worker that dies in between leaves
the sender debited, and the retry debits again, or ends UNDETERMINED for want of
the balance, though `base.py:755` says that a later retry "hits the idempotency
guard above and no-ops"; `lost` counts the first debit. A worker that stops
between a debit for messages and their children loses their value. A duplicate
submission is debited twice. A pending SEND that is canceled is refunded though
it was never debited, and so is an UNDETERMINED one when its finalization has
failed to the cap; `refund_tx_value` is not idempotent. Canceled rows that a
rollback reopens carry their value again, though it was given back. `execute_transfer` reads, computes and writes, and loses concurrent
credits; the faucet inserts its row before it credits. Internal messages of an
older call may use what newer calls' external ones froze. With fee accounting
the debit is committed before the children are inserted. `verify_conservation`
counts pending SENDs as in transit.

**Fees.** Accepting again after a failed validator appeal charges the messages
again, and may raise. A rerun unwinds charges for children already dispatched.
The messages of an UNDETERMINED row are consumed at settlement though never
sent. A crash between FINALIZED and the settlement loses the settlement. The bond
of an appeal that `set_transaction_appeal` ignores stays with the row. A child
matched by a wildcard gets the whole subtree with its root. A leader's receipt is
stored when it is proposed (`base.py:2205`), and unwinding gives back the messages
of the receipt stored last, not those that were charged: after an UNDETERMINED
round, or a crash between proposing and revealing, what was never charged is
given back, and what was charged stays. `consumed` is then less than what the
allocations show as used, and the settlement may raise after FINALIZED, where
nothing tries it again.

**Services.**

* `genvm`: no DELETE is sent when an attempt raises. "don't wait forever on
  host_loop" (`base_host.py:678`): a machine that dies after the one probe and
  never connects is waited for until the slot ends, and a simulated call has no
  slot. Canceling waits a tenth of a second, so a DELETE may be dropped.
* Health: "Require permits to be back above threshold for a bit before flipping
  ready again" (`health.py:144`); it flips at once. Failures stay counted after
  the manager recovered (contrary to `health.py:33`) until the pod restarts.
* `stop()`: "Active tasks will complete naturally in run() shutdown logic"
  (`worker.py:2052`); `run` leaves its loop without waiting. The service's signal
  handlers replace those of uvicorn, so its own shutdown is not reached. A loop
  that fails in every turn stays healthy.
* Validators: a simulated call that overlaps a change puts back the snapshot from
  before; an event that is not heard is not repeated; a module that does not
  start leaves the old snapshot in place of the stopped module.
* Delivery: events are published by tasks of their own and may be reordered.
  The scope filter compares "TRANSACTION" with "Transaction", so that an event
  without a hash is not published. A forwarder that died leaves its
  subscription: subscribing again is confirmed and nothing arrives. A stop during
  the pause before a reconnection is undone by it.
* Rate limits: a delayed request is counted at its own time, so a window may let
  through more than its limit, though not one shorter by the delay. "reject
  early before acquiring resources" (`endpoints.py:1383`): the check runs inside
  the slot.

## 6. Plan

Done: the queue and its abstract specification, the round, the panels, contract
state, value, fees, and the services, with theorems on the queue, its leases,
decisions and orders, the round, contract state, value, fees, runs of the GenVM,
what nodes read, validators, rates and panels. What is left, by importance:

1. A condition on receipts under which `FinalizationNeverRaises` can be proved.
2. Deployments and upgrades in `ContractState`, whose code they write; a restart
   of the server between the debit and the insert of a submission in `Funds`.
3. The composition of `ContractState` with `AppealPanels`: which appeals change
   the state depends on who judges them.

## 7. Not modelled, and why

What contracts compute, LLM providers, and the encoding of payloads are inputs: a
vote, a result, an error. `vrf.py` draws validators with probabilities, which TLA+
does not express: who may be drawn is a choice. The transactions parser is pure
decoding. Consensus history, monitoring, metrics, the explorer and rollup
forwarding are written and not read back by the parts above, but for the fields
named in `AppealPanels` and `TransactionFees`. State snapshots copy whole tables
for an administrator and promise the workers nothing. The caps on pending
transactions are documented as approximate. Deletion of validators between
appeals and the leader-only modes are left out of `AppealPanels`, the failure of
the database while a manager reads its registry out of `ValidatorsManager`, and
the events of the server's own process out of `Delivery`. The frontend, the
Solidity contracts and the deployment are other programs.

## 8. Running

    tlc -config QueueLeases.cfg MCQueue       # and the other Queue*.cfg
    tlc -config Wave.cfg MCWave
    tlc -config State.cfg MCState
    tlc -config ClaimRestored.cfg StateClaims
    tlc -config Funds.cfg MCFunds
    tlc -config Fees.cfg MCFees
    tlc -config Services.cfg MCServices
    tlapm ContractQueueProofs.tla             # and the other *Proofs modules
