----------------------------- MODULE GenvmHost -----------------------------
(***************************************************************************)
(* One execution of a contract: run_genvm_host (backend/node/genvm/base.py)*)
(* and, in each of its attempts, the tasks of run_genvm                    *)
(* (backend/node/genvm/origin/base_host.py) against the GenVM manager: the *)
(* POST that starts a virtual machine, the host loop that accepts and      *)
(* serves one, the probe, the timeout, and the reading of the result.      *)
(*                                                                         *)
(* The answer of any request to the manager may be lost.  A POST whose     *)
(* answer is lost may have started a machine that nobody knows by its id,  *)
(* and that may connect before the one of the next POST.                   *)
(***************************************************************************)
EXTENDS Naturals

CONSTANTS
    Tries,      \* GENVM_MANAGER_RUN_RETRIES
    Attempts,   \* bound: attempts of run_genvm_host before its time is over
    Machines    \* bound: machines the manager starts

VARIABLES
    run,    \* run_genvm_host: where it is, the attempt, what it gave and whose result it is
    att,    \* run_genvm of the current attempt
    vms     \* the machines of the manager

vars == <<run, att, vms>>

VM == 1..Machines

NewAttempt == [post |-> "sending", try |-> 0, id |-> 0, host |-> "accepting", served |-> 0,
               probe |-> "waiting", cancel |-> FALSE, status |-> "unknown", timer |-> "off"]

(* [budget] is true for the executions of consensus, which a slot budget   *)
(* ends; a simulated call has none.                                        *)
Init ==
    /\ \E b \in BOOLEAN : run = [at |-> "attempt", retry |-> 0, outcome |-> "none",
                                 by |-> 0, budget |-> b]
    /\ att = NewAttempt
    /\ vms = [v \in VM |-> [at |-> "none", of |-> 0, result |-> "none"]]

Active == run.at = "attempt"

-----------------------------------------------------------------------------
(* wrap_proc: the POST and its retries.                                    *)

Unused == {v \in VM : vms[v].at = "none"}
Started(v) == vms' = [vms EXCEPT ![v] = [@ EXCEPT !.at = "up", !.of = run.retry]]

Posted ==
    /\ Active /\ att.post = "sending"
    /\ \E v \in Unused :
        /\ \A u \in Unused : v <= u
        /\ Started(v)
        /\ att' = [att EXCEPT !.post = "ok", !.id = v, !.timer = "armed"]
    /\ UNCHANGED run

(* The last try raises and sets the cancellation, the others sleep.        *)
AnswerLost ==
    /\ Active /\ att.post = "sending"
    /\ \/ UNCHANGED vms
       \/ \E v \in Unused : (\A u \in Unused : v <= u) /\ Started(v)
    /\ att' = IF att.try + 1 < Tries
              THEN [att EXCEPT !.post = "sleeping"]
              ELSE [att EXCEPT !.post = "failed", !.cancel = TRUE]
    /\ UNCHANGED run

Refused ==
    /\ Active /\ att.post = "sending"
    /\ att' = [att EXCEPT !.post = "failed"]
    /\ UNCHANGED <<run, vms>>

PostAgain ==
    /\ Active /\ att.post = "sleeping"
    /\ att' = [att EXCEPT !.post = "sending", !.try = @ + 1]
    /\ UNCHANGED <<run, vms>>

-----------------------------------------------------------------------------
(* The machines, and host_loop, which serves the one it accepted: the      *)
(* listener is closed as soon as one is.                                   *)

(* A machine that is gone: the host loop reads the end of its connection.  *)
Reset(a, v) == IF a.host = "serving" /\ a.served = v THEN [a EXCEPT !.host = "reset"] ELSE a

ConnectAny(v) ==       \* a defect of the next: the listener stays open
    /\ Active /\ vms[v].at = "up" /\ vms[v].of = run.retry
    /\ att.host \in {"accepting", "serving"} /\ ~att.cancel
    /\ vms' = [vms EXCEPT ![v].at = "connected"]
    /\ att' = [att EXCEPT !.host = "serving", !.served = v]
    /\ UNCHANGED run

Connect(v) ==
    /\ Active /\ vms[v].at = "up" /\ vms[v].of = run.retry
    /\ att.host = "accepting" /\ ~att.cancel
    /\ vms' = [vms EXCEPT ![v].at = "connected"]
    /\ att' = [att EXCEPT !.host = "serving", !.served = v]
    /\ UNCHANGED run

(* The machine gives its result to the manager, after the reads it needs.  *)
Answer(v) ==
    /\ Active /\ vms[v].at = "connected" /\ att.host = "serving" /\ att.served = v
    /\ \E result \in {"return", "error", "internal"} :
        vms' = [vms EXCEPT ![v].at = "answered", ![v].result = result]
    /\ UNCHANGED <<run, att>>

(* NOTIFY_FINISHED ends the host loop.                                     *)
Finish(v) ==
    /\ Active /\ vms[v].at = "answered" /\ att.host = "serving" /\ att.served = v
    /\ vms' = [vms EXCEPT ![v].at = "ended"]
    /\ att' = [att EXCEPT !.host = "finished"]
    /\ UNCHANGED run

Crash(v) ==
    /\ vms[v].at \in {"up", "connected", "answered"}
    /\ vms' = [vms EXCEPT ![v].at = "ended"]
    /\ att' = IF Active THEN Reset(att, v) ELSE att
    /\ UNCHANGED run

(* A socket without a host: the listener is closed and its path is gone,   *)
(* and the connection of an attempt that is over is closed.                *)
ListenerClosed(v) == vms[v].at = "up" /\ (~Active \/ att.host # "accepting")
Closed(v) ==
    \/ ~Active \/ vms[v].of # run.retry
    \/ vms[v].at = "up" /\ att.host # "accepting"

LoseHost(v) ==
    /\ vms[v].at \in {"up", "connected", "answered"} /\ Closed(v)
    /\ vms' = [vms EXCEPT ![v].at = "ended"]
    /\ UNCHANGED <<run, att>>

(* loop_enter raises once the cancellation is set; a call of the machine   *)
(* that the host cannot answer ends the loop.                              *)
GiveUp ==
    /\ Active /\ att.host = "accepting" /\ att.cancel
    /\ att' = [att EXCEPT !.host = "failed"]
    /\ UNCHANGED <<run, vms>>

CallFails ==
    /\ Active /\ att.host = "serving" /\ vms[att.served].at = "connected"
    /\ att' = [att EXCEPT !.host = "failed"]
    /\ UNCHANGED <<run, vms>>

-----------------------------------------------------------------------------
(* poll_status: the first status that is not None is kept, and so is the   *)
(* failure of the request.                                                 *)
Polls(a, machines) ==
    IF a.status # "unknown" THEN {a.status}
    ELSE {"error", IF machines[a.id].at = "ended" THEN "ended" ELSE "unknown"}

(* prob_died asks once, after a second or as soon as the run is cancelled. *)
Probe ==
    /\ Active /\ att.probe = "waiting"
    /\ IF att.id = 0
       THEN att' = [att EXCEPT !.probe = "ended"]
       ELSE \E s \in Polls(att, vms) :
                att' = [att EXCEPT !.probe = "ended", !.status = s,
                                   !.cancel = @ \/ s # "unknown"]
    /\ UNCHANGED <<run, vms>>

(* _send_timeout: what a DELETE leaves of the machines.                    *)
Deletes(v) == {vms, [vms EXCEPT ![v].at = "ended"]}

(* wrap_timeout.                                                           *)
TimeOut ==
    /\ Active /\ att.timer = "armed"
    /\ att' = [att EXCEPT !.timer = "fired"]
    /\ UNCHANGED <<run, vms>>

TimeoutDelete ==
    /\ Active /\ att.timer = "fired"
    /\ \E m \in Deletes(att.id) :
        /\ vms' = m
        /\ att' = [(IF m = vms THEN att ELSE Reset(att, att.id)) EXCEPT !.timer = "sent"]
    /\ UNCHANGED run

-----------------------------------------------------------------------------
(* The end of an attempt: all the tasks are done, or one of them raised.   *)

TimedOut == att.timer \in {"fired", "sent"}
WaitOver ==
    \/ att.post = "ok" /\ att.host = "finished" /\ att.probe = "ended"
    \/ att.post = "failed" \/ att.host \in {"failed", "reset"}

(* An exception other than the reset of the connection, or a task that had *)
(* to be cancelled.  After the timeout the host may fail as it likes.      *)
Raises ==
    \/ att.post # "ok"
    \/ att.host \in {"accepting", "serving"}
    \/ att.host = "failed" /\ ~TimedOut

(* A cancelled POST may have reached the manager.                          *)
Abandoned ==
    IF att.post = "sending"
    THEN {vms} \cup {[vms EXCEPT ![v] = [@ EXCEPT !.at = "up", !.of = run.retry]] :
                     v \in {w \in Unused : \A u \in Unused : w <= u}}
    ELSE {vms}

Give(outcome, v) == run' = [run EXCEPT !.at = "ended", !.outcome = outcome, !.by = v]

(* An error that says "fatal: true" ends the run, any other one is retried *)
(* after a delay.                                                          *)
AttemptFails == \/ run' = [run EXCEPT !.at = "backoff"]
                \/ Give("timeout", 0)

Raise ==
    /\ Active /\ WaitOver /\ Raises
    /\ vms' \in Abandoned
    /\ AttemptFails
    /\ UNCHANGED att

(* The result of the machine, as run_genvm and provide_result read it.     *)
Reads(v) ==
    IF vms[v].result = "return" THEN "returned"
    ELSE IF TimedOut THEN "timeout"
    ELSE IF vms[v].result = "error" THEN "error"
    ELSE "internal"

(* The machine is deleted and its status read; GenVMInternalError is not   *)
(* retried.                                                                *)
Collect ==
    /\ Active /\ WaitOver /\ ~Raises
    /\ \E m \in Deletes(att.id) : \E s \in Polls(att, m) :
        /\ vms' = m
        /\ att' = [att EXCEPT !.status = s]
        /\ IF s = "ended" THEN Give(Reads(att.id), att.id) ELSE AttemptFails

(* The next attempt has its own socket, cells and copy of the state.       *)
NextAttempt ==
    /\ run.at = "backoff" /\ run.retry + 1 < Attempts
    /\ run' = [run EXCEPT !.at = "attempt", !.retry = @ + 1]
    /\ att' = NewAttempt
    /\ UNCHANGED vms

OutOfTime ==
    /\ run.at = "backoff"
    /\ Give("timeout", 0)
    /\ UNCHANGED <<att, vms>>

(* The slot budget cancels the run: its tasks are cancelled and the machine*)
(* it knows is deleted.                                                    *)
Cancelled ==
    /\ run.budget /\ run.at # "ended"
    /\ IF run.at = "attempt" /\ att.id # 0
       THEN vms' \in Deletes(att.id)
       ELSE IF run.at = "attempt" THEN vms' \in Abandoned ELSE UNCHANGED vms
    /\ Give("cancelled", 0)
    /\ UNCHANGED att

-----------------------------------------------------------------------------
Tasks == \/ Posted \/ AnswerLost \/ Refused \/ PostAgain
         \/ GiveUp \/ CallFails \/ Probe \/ TimeOut \/ TimeoutDelete
         \/ Raise \/ Collect \/ NextAttempt \/ OutOfTime \/ Cancelled
Machine(v) == Connect(v) \/ Answer(v) \/ Finish(v) \/ Crash(v) \/ LoseHost(v)
Next == Tasks \/ \E v \in VM : Machine(v)

(* A machine that can go on does; it may compute for ever only while its   *)
(* host answers it.                                                        *)
Fairness == \A v \in VM : WF_vars(LoseHost(v)) /\ WF_vars(Answer(v) \/ Finish(v))
Spec == Init /\ [][Next]_vars /\ Fairness

-----------------------------------------------------------------------------
(* A result that the run gives is the result of a machine that its last    *)
(* attempt served to the end or lost after it had answered: what that      *)
(* machine read is what this attempt's copy of the state held, whatever    *)
(* machines earlier requests and attempts have left behind.                *)
ServedIsReturned ==
    run.outcome \in {"returned", "error"} =>
        /\ run.by = att.served
        /\ vms[run.by].of = run.retry
        /\ vms[run.by].result = IF run.outcome = "returned" THEN "return" ELSE "error"

(* No machine outlives its run for ever: neither one whose id was lost with*)
(* the answer of its POST, nor one whose DELETE was lost.                  *)
MachinesStop ==
    run.at = "ended" ~> \A v \in VM : vms[v].at \in {"none", "ended"}
=============================================================================
