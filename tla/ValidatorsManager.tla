-------------------------- MODULE ValidatorsManager --------------------------
(***************************************************************************)
(* The validators a process works with (backend/validators/__init__.py):   *)
(* the registry in the database, changed by the JSON-RPC process, and in   *)
(* every process a manager that caches a snapshot of it and restarts its   *)
(* LLM module for that snapshot under a lock; the events on Redis that     *)
(* tell the managers to do so; and simulated calls, which put validators   *)
(* of their own in the place of the snapshot for the time of the call.     *)
(***************************************************************************)
EXTENDS Naturals, Sequences

CONSTANTS
    Managers,       \* the processes that hold a manager
    Rpc,            \* the one of them that changes the registry and serves simulated calls
    Changes,        \* bound: changes of the registry
    Sims            \* bound: the simulated calls with validators of their own, numbers from 1

VARIABLES
    registry,   \* how many changes the validators table has seen
    writes,     \* changes committed whose event is not published yet
    mgr,        \* the manager of each process
    sim         \* the simulated calls

vars == <<registry, writes, mgr, sim>>

(* What a snapshot holds: the registry as of a change, or the validators   *)
(* of a simulated call.                                                    *)
Of(version) == [of |-> "registry", at |-> version]
Virtual(s) == [of |-> "call", at |-> s]
Nothing == [of |-> "nobody", at |-> 0]

Restarts == {"write", "event"}      \* after an own change, or on the event of one
Job(kind, snap, s) == [kind |-> kind, snap |-> snap, call |-> s]

(* Before its process serves, a manager has been restarted once; it is     *)
(* subscribed to the events only later.                                    *)
NewManager == [cache |-> Of(0), llm |-> Of(0), before |-> Nothing, stopped |-> FALSE,
               line |-> <<>>, listening |-> FALSE, inbox |-> 0, hearing |-> FALSE,
               excused |-> FALSE]

Init ==
    /\ registry = 0 /\ writes = 0
    /\ mgr = [m \in Managers |-> NewManager]
    /\ sim = [s \in Sims |-> [at |-> "new", kept |-> Nothing, alone |-> FALSE]]

Captured == {s \in Sims : sim[s].at \in {"virtual", "running", "restore"}}

(* Of the calls under way none is alone any more.                          *)
Disturbed == [s \in Sims |-> [sim[s] EXCEPT !.alone = @ /\ s \notin Captured]]

(* asyncio.Lock serves its waiters in order: they queue in [line], the     *)
(* first one holds it. The registry is read as the restart joins.          *)
Joined(r, job) == [r EXCEPT !.line = Append(@, job)]
Restart(r, kind) == Joined(r, Job(kind, Of(registry), 0))

-----------------------------------------------------------------------------
(* Changes of the registry and their events.                               *)

Commit ==
    /\ registry < Changes
    /\ registry' = registry + 1 /\ writes' = writes + 1
    /\ UNCHANGED <<mgr, sim>>

Heard(r, delivered) ==
    IF delivered /\ r.listening THEN [r EXCEPT !.inbox = @ + 1] ELSE [r EXCEPT !.excused = TRUE]

(* The event is published, or Redis fails and the error is only logged;    *)
(* then the process that made the change restarts its own manager.         *)
Notify ==
    /\ writes > 0
    /\ writes' = writes - 1
    /\ \E delivered \in BOOLEAN :
        mgr' = [m \in Managers |->
                    IF m # Rpc THEN Heard(mgr[m], delivered)
                    ELSE Restart([mgr[m] EXCEPT !.inbox = @ + (IF delivered /\ mgr[m].listening THEN 1 ELSE 0)],
                                 "write")]
    /\ sim' = Disturbed
    /\ UNCHANGED registry

Subscribe(m) ==
    /\ ~mgr[m].listening
    /\ mgr' = [mgr EXCEPT ![m].listening = TRUE]
    /\ UNCHANGED <<registry, writes, sim>>

(* The connection of a listener fails: what was not read yet is lost.      *)
ConnectionFails(m) ==
    /\ mgr[m].listening /\ ~mgr[m].hearing
    /\ mgr' = [mgr EXCEPT ![m].listening = FALSE, ![m].inbox = 0,
                          ![m].excused = @ \/ mgr[m].inbox > 0]
    /\ UNCHANGED <<registry, writes, sim>>

Disturb(m) == IF m = Rpc THEN Disturbed ELSE sim

HearDropping(m) ==          \* a defect: an event is dropped while a restart is under way
    /\ mgr[m].inbox > 0
    /\ mgr' = [mgr EXCEPT ![m] =
                IF mgr[m].line # <<>> THEN [mgr[m] EXCEPT !.inbox = @ - 1]
                ELSE Restart([mgr[m] EXCEPT !.inbox = @ - 1, !.hearing = TRUE], "event")]
    /\ sim' = Disturb(m)
    /\ UNCHANGED <<registry, writes>>

(* The listener awaits the restart before it reads the next event.         *)
Hear(m) ==
    /\ mgr[m].inbox > 0 /\ ~mgr[m].hearing
    /\ mgr' = [mgr EXCEPT ![m] = Restart([mgr[m] EXCEPT !.inbox = @ - 1, !.hearing = TRUE], "event")]
    /\ sim' = Disturb(m)
    /\ UNCHANGED <<registry, writes>>

-----------------------------------------------------------------------------
(* temporal_snapshot.                                                      *)

Simulate(s) ==
    /\ sim[s].at = "new"
    /\ sim' = [sim EXCEPT ![s].at = "capture"]
    /\ mgr' = [mgr EXCEPT ![Rpc] = Joined(@, Job("capture", Nothing, s))]
    /\ UNCHANGED <<registry, writes>>

(* The snapshot to put back is taken under one hold of the lock, and       *)
(* replaced under the next.                                                *)
Capture(s) ==
    LET r == mgr[Rpc] IN
    /\ r.line # <<>> /\ Head(r.line) = Job("capture", Nothing, s)
    /\ sim' = [Disturbed EXCEPT ![s] = [at |-> "virtual", kept |-> r.cache,
                                        alone |-> Len(r.line) = 1 /\ Captured = {}]]
    /\ mgr' = [mgr EXCEPT ![Rpc].line = Append(Tail(@), Job("virtual", Virtual(s), s))]
    /\ UNCHANGED <<registry, writes>>

CallEnds(s) ==
    /\ sim[s].at = "running"
    /\ sim' = [sim EXCEPT ![s].at = "restore"]
    /\ mgr' = [mgr EXCEPT ![Rpc] = Joined(@, Job("restore", sim[s].kept, s))]
    /\ UNCHANGED <<registry, writes>>

-----------------------------------------------------------------------------
(* _change_providers_from_snapshot_locked: the module is stopped and       *)
(* started; nobody can read the cache meanwhile.                           *)

Changing(m) == mgr[m].line # <<>> /\ Head(mgr[m].line).kind # "capture"

Stop(m) ==
    /\ Changing(m) /\ ~mgr[m].stopped
    /\ mgr' = [mgr EXCEPT ![m].before = mgr[m].cache, ![m].cache = Nothing,
                          ![m].llm = Nothing, ![m].stopped = TRUE]
    /\ UNCHANGED <<registry, writes, sim>>

(* What becomes of the call a job belongs to: without its own validators   *)
(* it is not run, and nothing is put back.                                 *)
CallAfter(job, ok) ==
    IF job.kind \in Restarts THEN sim
    ELSE [sim EXCEPT ![job.call].at = IF job.kind = "virtual" /\ ok THEN "running" ELSE "ended"]

Start(m, ok) ==
    LET job == Head(mgr[m].line)
        settled == job.kind \in Restarts /\ job.snap = Of(registry)
        astray == job.kind = "restore" /\ ~sim[job.call].alone
    IN
    /\ Changing(m) /\ mgr[m].stopped
    /\ mgr' = [mgr EXCEPT ![m] =
                [mgr[m] EXCEPT !.stopped = FALSE, !.before = Nothing,
                          !.line = Tail(@),
                          !.hearing = @ /\ job.kind # "event",
                          !.cache = IF ok THEN job.snap ELSE mgr[m].before,
                          !.llm = IF ok THEN job.snap ELSE Nothing,
                          !.excused = (@ /\ ~settled) \/ ~ok \/ astray]]
    /\ sim' = CallAfter(job, ok)
    /\ UNCHANGED <<registry, writes>>

Next ==
    \/ Commit
    \/ Notify
    \/ \E m \in Managers :
        Subscribe(m) \/ ConnectionFails(m) \/ Hear(m) \/ Stop(m) \/ \E ok \in BOOLEAN : Start(m, ok)
    \/ \E s \in Sims : Simulate(s) \/ Capture(s) \/ CallEnds(s)

Spec == Init /\ [][Next]_vars

-----------------------------------------------------------------------------
Quiet(m) ==
    /\ writes = 0 /\ mgr[m].line = <<>> /\ mgr[m].inbox = 0
    /\ m = Rpc => Captured = {}

(* Once the events and the restarts they ask for are through, a process    *)
(* works with the validators of the registry, and its LLM module runs      *)
(* them: unless it missed an event, the module did not start, or a         *)
(* simulated call put back a snapshot over a change (_excused_).           *)
NewValidatorsUsed ==
    \A m \in Managers :
        Quiet(m) /\ ~mgr[m].excused => mgr[m].cache = Of(registry) /\ mgr[m].llm = Of(registry)
=============================================================================
