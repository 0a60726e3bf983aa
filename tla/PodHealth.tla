----------------------------- MODULE PodHealth -----------------------------
(***************************************************************************)
(* What an RPC pod says of its health (backend/protocol_rpc/health.py):    *)
(* the background loop that probes the GenVM manager and the consensus     *)
(* queue and fills a cache, the counter of executions that failed, and the *)
(* endpoints that answer from them: /health, on which the orchestrator     *)
(* restarts the pod, and /ready, on which it routes requests to it.        *)
(***************************************************************************)
EXTENDS Integers

CONSTANTS
    FailureThreshold,   \* GENVM_FAILURE_UNHEALTHY_THRESHOLD
    MinPermits,         \* READINESS_PERMIT_MIN_AVAILABLE, 0 to ignore the permits
    Sustain,            \* READINESS_PERMIT_SUSTAIN_SECONDS
    Cooldown            \* HEALTH_NO_PROGRESS_SCAN_ERROR_COOLDOWN_SECONDS

VARIABLES
    world,  \* the GenVM manager with its free permits, and the load of the consensus queue
    pod     \* the memory of the process, and whether requests are routed to it

vars == <<world, pod>>

Unknown == -1       \* permits nobody has seen; a clock that is not running
Loads == {"light", "backlog", "stalled"}

(* _health_cache when the process starts.                                  *)
NewPod == [stage |-> "probe", checked |-> FALSE, genvm |-> FALSE, permits |-> Unknown,
           fails |-> 0, low |-> Unknown, suppressed |-> 0,
           status |-> "initializing", issues |-> {}, routed |-> FALSE]

Init ==
    /\ world \in [up : BOOLEAN, free : 0..MinPermits, load : Loads]
    /\ pod = NewPod

WorldChanges ==
    /\ world' \in [up : BOOLEAN, free : 0..MinPermits, load : Loads]
    /\ UNCHANGED pod

-----------------------------------------------------------------------------
(* _background_health_loop.                                                *)

(* The manager comes first, and the cache is told at once, whatever the    *)
(* slower checks then do.                                                  *)
Found == [pod EXCEPT !.genvm = world.up, !.permits = IF world.up THEN world.free ELSE Unknown]

Probe ==
    /\ pod.stage = "probe"
    /\ pod' = [Found EXCEPT !.stage = "checks", !.checked = TRUE]
    /\ UNCHANGED world

(* _check_consensus_health scans for progress when there is a backlog; a   *)
(* scan that fails suppresses the next ones for a while.                   *)
ShouldScan == world.load # "light"
Scans == ShouldScan /\ pod.suppressed = 0
SuppressedAgain(ok) ==      \* a defect: a scan that is left out counts as failed
    IF ShouldScan /\ (pod.suppressed > 0 \/ ~ok) THEN Cooldown ELSE 0
Suppressed(ok) ==
    IF ~ShouldScan THEN 0
    ELSE IF pod.suppressed > 0 THEN pod.suppressed
    ELSE IF ok THEN 0 ELSE Cooldown
NoProgress(ok) == Scans /\ ok /\ world.load = "stalled"

Overall(db, issues) ==
    IF db \in {"unhealthy", "error"} THEN "unhealthy"
    ELSE IF db = "degraded" \/ issues # {} THEN "degraded"
    ELSE "healthy"

(* The other checks, which may report [others].                            *)
Check(scanned) ==
    /\ pod.stage = "checks"
    /\ \E db \in {"healthy", "unhealthy"} : \E others \in SUBSET {"service"} :
        LET issues == others \cup (IF NoProgress(scanned) THEN {"no_consensus_progress"} ELSE {})
        IN  pod' = [pod EXCEPT !.stage = "sleep", !.suppressed = Suppressed(scanned),
                               !.status = Overall(db, issues), !.issues = issues]
    /\ UNCHANGED world

(* The queries of the queue fail: nothing is known of its progress.        *)
QueueUnknown ==
    /\ pod.stage = "checks"
    /\ \E db \in {"healthy", "unhealthy"} :
        pod' = [pod EXCEPT !.stage = "sleep", !.status = Overall(db, {"consensus_issue"}),
                           !.issues = {"consensus_issue"}]
    /\ UNCHANGED world

(* Another check raises: what was published before stays.                  *)
CheckRaises ==
    /\ pod.stage = "checks"
    /\ \E scanned \in BOOLEAN :
        pod' = [pod EXCEPT !.stage = "sleep", !.status = "error",
                           !.suppressed = Suppressed(scanned)]
    /\ UNCHANGED world

(* The interval between two rounds, in which the clocks advance.           *)
Sleep ==
    /\ pod.stage = "sleep"
    /\ pod' = [pod EXCEPT !.stage = "probe",
                          !.suppressed = IF @ > 0 THEN @ - 1 ELSE 0,
                          !.low = IF @ \in 0..Sustain - 1 THEN @ + 1 ELSE @]
    /\ UNCHANGED world

-----------------------------------------------------------------------------
(* The callbacks of GenVM executions.                                      *)

(* record_genvm_execution_success.                                         *)
Succeeds ==
    /\ pod.routed /\ world.up
    /\ pod' = [pod EXCEPT !.fails = 0]
    /\ UNCHANGED world

(* record_genvm_execution_failure: what fails while the manager answers is *)
(* a matter of capacity, and does not count.                               *)
FailsAlways ==      \* a defect: every failure counts
    /\ pod.routed
    /\ pod' = [pod EXCEPT !.fails = IF @ < FailureThreshold THEN @ + 1 ELSE @]
    /\ UNCHANGED world
Fails ==
    /\ pod.routed
    /\ pod' = [pod EXCEPT !.fails = IF pod.genvm THEN 0
                                    ELSE IF @ < FailureThreshold THEN @ + 1 ELSE @]
    /\ UNCHANGED world

-----------------------------------------------------------------------------
(* The endpoints, and what the orchestrator does with their answers.       *)

Failing == pod.fails >= FailureThreshold

(* /health: 503 when the manager or the executions fail.                   *)
Unhealthy == ~pod.genvm \/ Failing
Restart ==
    /\ pod.checked /\ Unhealthy
    /\ pod' = NewPod
    /\ UNCHANGED world

(* _evaluate_permit_readiness: since when the permits are too few.         *)
Low == MinPermits > 0 /\ pod.permits # Unknown /\ pod.permits < MinPermits
LowSince == IF ~Low THEN Unknown ELSE IF pod.low = Unknown THEN 0 ELSE pod.low
PermitsReady == ~Low \/ pod.low = Unknown \/ pod.low < Sustain

(* /ready.                                                                 *)
Ready == ~Failing /\ pod.genvm /\ PermitsReady
AskReady ==
    /\ pod' = [pod EXCEPT !.low = LowSince, !.routed = Ready]
    /\ UNCHANGED world

Next ==
    \/ WorldChanges
    \/ Probe \/ (\E scanned \in BOOLEAN : Check(scanned)) \/ QueueUnknown \/ CheckRaises \/ Sleep
    \/ Succeeds \/ Fails
    \/ Restart \/ AskReady

(* The loop goes on and the endpoints are asked; a scan of the queue does  *)
(* not fail for ever.                                                      *)
Fairness ==
    /\ WF_vars(Probe) /\ WF_vars(Sleep) /\ WF_vars(Restart) /\ WF_vars(AskReady)
    /\ WF_vars(CheckRaises \/ QueueUnknown \/ \E scanned \in BOOLEAN : Check(scanned))
    /\ SF_vars(Scans /\ Check(TRUE))

-----------------------------------------------------------------------------
Serviceable == world.up /\ world.free >= MinPermits

(* A pod gets its requests back when its manager does, whatever was        *)
(* counted before and even if every other check keeps failing.             *)
ReadyAgain == <>[]Serviceable => <>[]pod.routed

(* A queue that stands still is reported again and again, for all the      *)
(* scans that time out in between.                                         *)
StallReported ==
    <>[](Serviceable /\ world.load = "stalled") =>
        []<>("no_consensus_progress" \in pod.issues)
=============================================================================
