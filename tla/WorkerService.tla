---------------------------- MODULE WorkerService ----------------------------
(***************************************************************************)
(* A pod of the consensus worker (backend/consensus/worker_service.py):    *)
(* the loop that claims work into slots (worker.py run), what stops it,    *)
(* the health endpoint, and the orchestrator, which replaces a pod that    *)
(* calls itself unhealthy. Failures of the pod are what is modelled here;  *)
(* the rows it works on are the business of ContractQueue.                 *)
(***************************************************************************)
EXTENDS Integers

CONSTANTS
    Slots,      \* MAX_PARALLEL_TXS_PER_WORKER of them
    Threshold   \* GENVM_FAILURE_UNHEALTHY_THRESHOLD

VARIABLES
    service,    \* the memory of the process
    manager,    \* whether its GenVM manager answers
    leaving     \* the pod was told to terminate

vars == <<service, manager, leaving>>

(* A slot holds an execution that works, that has been working for longer  *)
(* than WORKER_BLOCKED_TX_UNHEALTHY_AFTER_MINUTES, or that is done.        *)
Busy == {"working", "overdue"}

NewService == [running |-> TRUE, loop |-> "turning", shutting |-> FALSE,
               tasks |-> [s \in Slots |-> "free"], fails |-> 0, probed |-> TRUE]

Init == service = NewService /\ manager = TRUE /\ leaving = FALSE

-----------------------------------------------------------------------------
(* ConsensusWorker.run.                                                    *)

Reaped == [s \in Slots |-> IF service.tasks[s] = "done" THEN "free" ELSE service.tasks[s]]

Turning == service.loop = "turning" /\ service.running

(* A turn puts away what is done and claims for a slot that is free.       *)
Turn ==
    /\ Turning /\ ~service.shutting
    /\ \/ service' = [service EXCEPT !.tasks = Reaped]
       \/ \E s \in Slots :
            /\ Reaped[s] = "free"
            /\ service' = [service EXCEPT !.tasks = [Reaped EXCEPT ![s] = "working"]]
    /\ UNCHANGED <<manager, leaving>>

(* After the signal it waits for the executions; it claims no more.        *)
Drain ==
    /\ Turning /\ service.shutting
    /\ service' = [service EXCEPT !.tasks = Reaped, !.loop = "draining"]
    /\ UNCHANGED <<manager, leaving>>

Drained ==
    /\ service.loop = "draining"
    /\ \A s \in Slots : service.tasks[s] \notin Busy
    /\ service' = [service EXCEPT !.loop = "ended", !.running = FALSE]
    /\ UNCHANGED <<manager, leaving>>

(* Once somebody cleared [running] the loop is left, and nobody waits for  *)
(* the executions under way.                                               *)
LoopEnds ==
    /\ service.loop = "turning" /\ ~service.running
    /\ service' = [service EXCEPT !.loop = "ended"]
    /\ UNCHANGED <<manager, leaving>>

-----------------------------------------------------------------------------
(* The executions (_transaction_context and the callbacks of GenVM).       *)

(* An execution ends: "good"; after failures of the GenVM manager it       *)
(* counts; or with a fatal error of the leader, which stops the worker.    *)
Completes(s, how) ==
    /\ service.tasks[s] \in Busy
    /\ service' = [service EXCEPT
            !.tasks[s] = "done",
            !.running = @ /\ how # "fatal",
            !.fails = IF how = "good" THEN 0 ELSE IF @ < Threshold THEN @ + 1 ELSE @]
    /\ UNCHANGED <<manager, leaving>>

(* It works on; the time since its claim passes the limit.                 *)
Overdue(s) ==
    /\ service.tasks[s] = "working"
    /\ service' = [service EXCEPT !.tasks[s] = "overdue"]
    /\ UNCHANGED <<manager, leaving>>

ManagerChanges ==
    /\ manager' = ~manager
    /\ UNCHANGED <<service, leaving>>

(* GET /stop, meant for the hook that runs before a pod is terminated.     *)
StopRequested ==
    /\ service' = [service EXCEPT !.running = FALSE]
    /\ UNCHANGED <<manager, leaving>>

-----------------------------------------------------------------------------
(* GET /health.                                                            *)

UnhealthyNoBlocked(probed) ==       \* a defect: how long an execution runs is not looked at
    \/ service.loop = "ended"
    \/ ~probed
    \/ service.fails >= Threshold

(* The task of the loop is done (503), the manager did not answer (503),   *)
(* too many executions failed in a row (503), or one runs for too long     *)
(* (500).                                                                  *)
Unhealthy(probed) ==
    \/ service.loop = "ended"
    \/ ~probed
    \/ service.fails >= Threshold
    \/ \E s \in Slots : service.tasks[s] = "overdue"

(* The answer of the manager is asked for again only after a while. A pod  *)
(* that is unhealthy is told to terminate; so is one that must make room.  *)
Health(fresh) ==
    LET probed == IF fresh THEN manager ELSE service.probed IN
    /\ ~leaving
    /\ service' = [service EXCEPT !.probed = IF service.loop = "ended" THEN @ ELSE probed]
    /\ leaving' = Unhealthy(probed)
    /\ UNCHANGED manager

ScaleDown ==
    /\ ~leaving /\ leaving' = TRUE
    /\ UNCHANGED <<service, manager>>

(* handle_signal only sets the flag the loop looks at.                     *)
Signal ==
    /\ leaving /\ ~service.shutting
    /\ service' = [service EXCEPT !.shutting = TRUE]
    /\ UNCHANGED <<manager, leaving>>

(* At the end of the grace period the process is killed; a new pod starts, *)
(* with a manager of its own.                                              *)
Replace ==
    /\ leaving
    /\ service' = NewService /\ manager' = TRUE /\ leaving' = FALSE

Next ==
    \/ Turn \/ Drain \/ Drained \/ LoopEnds
    \/ \E s \in Slots : Overdue(s) \/ \E how \in {"good", "failed", "fatal"} : Completes(s, how)
    \/ ManagerChanges \/ StopRequested
    \/ \E fresh \in BOOLEAN : Health(fresh)
    \/ ScaleDown \/ Signal \/ Replace

(* Executions may never end; time passes, and the orchestrator asks and    *)
(* acts.                                                                   *)
Fairness ==
    /\ WF_vars(Turning /\ (Turn \/ Drain)) /\ WF_vars(Drained) /\ WF_vars(LoopEnds)
    /\ \A s \in Slots : WF_vars(Overdue(s))
    /\ WF_vars(Health(TRUE)) /\ WF_vars(Signal) /\ WF_vars(Replace)

Spec == Init /\ [][Next]_vars /\ Fairness

-----------------------------------------------------------------------------
(* Whatever happens to the executions, the manager and the loop, there is  *)
(* again and again a worker that claims: no pod stays for ever with a loop *)
(* that ended or with all its slots taken by executions that do not end.   *)
Claims == Turning /\ ~service.shutting /\ \E s \in Slots : service.tasks[s] \notin Busy
WorkGoesOn == []<>Claims
=============================================================================
