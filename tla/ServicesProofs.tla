--------------------------- MODULE ServicesProofs ---------------------------
(***************************************************************************)
(* Proofs about five of the components that MCServices checks side by      *)
(* side, as theorems of its specification: one inductive invariant for     *)
(* each, of the behaviours of its part.                                    *)
(***************************************************************************)
EXTENDS MCServices, Sums, SequenceTheorems, TLAPS

----------------------------------------------------------------------------
(* GenvmHost: the result a run gives is that of the machine its last       *)
(* attempt served.                                                         *)

RunSet ==
    [at : {"attempt", "backoff", "ended"}, retry : Nat,
     outcome : {"none", "returned", "error", "timeout", "internal", "cancelled"},
     by : Genvm!VM \cup {0}, budget : BOOLEAN]
AttemptSet ==
    [post : {"sending", "sleeping", "ok", "failed"}, try : Nat, id : Genvm!VM \cup {0},
     host : {"accepting", "serving", "finished", "failed", "reset"}, served : Genvm!VM \cup {0},
     probe : {"waiting", "ended"}, cancel : BOOLEAN, status : {"unknown", "ended", "error"},
     timer : {"off", "armed", "fired", "sent"}]
MachineSet ==
    [at : {"none", "up", "connected", "answered", "ended"}, of : Nat,
     result : {"none", "return", "error", "internal"}]

(* The inductive invariant.  A machine of the attempt under way that has a *)
(* result is the one that attempt serves: it accepts one, and a later      *)
(* attempt finds no machine of its own.  The machine it asks about, whose  *)
(* id a POST brought, is its own.                                          *)
OnlyServedHasResult ==
    \A v \in Genvm!VM :
        /\ vms[v].of <= run.retry
        /\ vms[v].at = "none" => vms[v].result = "none"
        /\ vms[v].result # "none" /\ vms[v].of = run.retry => att.served = v
GenvmInv ==
    /\ run \in RunSet /\ att \in AttemptSet /\ vms \in [Genvm!VM -> MachineSet]
    /\ run.outcome # "none" => run.at = "ended"
    /\ run.outcome \in {"returned", "error"} => run.by # 0
    /\ OnlyServedHasResult
    /\ att.host = "accepting" => att.served = 0
    /\ att.post = "ok" \/ att.timer # "off" => att.id # 0
    /\ att.id # 0 => vms[att.id].at # "none" /\ vms[att.id].of = run.retry
    /\ Genvm!ServedIsReturned

(* What most steps do: machines stay the machines of their attempts, with  *)
(* the results they have, and the attempt serves and knows the same one.   *)
SameMachines ==
    /\ vms' \in [Genvm!VM -> MachineSet]
    /\ \A v \in Genvm!VM : /\ vms'[v].of = vms[v].of /\ vms'[v].result = vms[v].result
                     /\ (vms'[v].at = "none") = (vms[v].at = "none")
SameAttempt ==
    /\ att' \in AttemptSet
    /\ att'.served = att.served /\ att'.id = att.id
    /\ att'.host = "accepting" => att.host = "accepting"
    /\ att'.post = "ok" => att.post = "ok"
    /\ att'.timer # "off" => att.timer # "off"
SameRun == run' \in RunSet /\ run'.retry = run.retry /\ run'.outcome = run.outcome

----------------------------------------------------------------------------
LEMMA GenvmInit == Genvm!Init => GenvmInv
  BY DEF Genvm!Init, GenvmInv, OnlyServedHasResult, RunSet, AttemptSet, MachineSet,
      Genvm!NewAttempt, Genvm!ServedIsReturned

LEMMA QuietStep ==
    ASSUME GenvmInv, SameMachines, SameAttempt, UNCHANGED run
    PROVE  GenvmInv'
  <1>1. run \in RunSet /\ att' \in AttemptSet /\ vms' \in [Genvm!VM -> MachineSet]
        /\ vms \in [Genvm!VM -> MachineSet]
    BY DEF GenvmInv, SameMachines, SameAttempt
  <1>2. run.by \in Genvm!VM \cup {0} /\ att.id \in Genvm!VM \cup {0} /\ att'.id = att.id
    BY DEF GenvmInv, SameAttempt, RunSet, AttemptSet
  <1>3. Genvm!ServedIsReturned'
    BY <1>2 DEF GenvmInv, SameMachines, SameAttempt, Genvm!ServedIsReturned
  <1>4. OnlyServedHasResult'
    BY DEF GenvmInv, OnlyServedHasResult, SameMachines, SameAttempt
  <1>5. att'.id # 0 => vms'[att'.id].at # "none" /\ vms'[att'.id].of = run.retry
    BY <1>2 DEF GenvmInv, SameMachines
  <1> QED
    BY <1>1, <1>3, <1>4, <1>5 DEF GenvmInv, SameAttempt

(* A machine that starts, or moves on.                                     *)
LEMMA MachineMoves ==
    ASSUME GenvmInv, NEW v \in Genvm!VM, vms[v].at # "none",
           NEW s \in {"up", "connected", "answered", "ended"}, vms' = [vms EXCEPT ![v].at = s]
    PROVE  SameMachines
  BY DEF GenvmInv, SameMachines, MachineSet

LEMMA MachineDeleted ==
    ASSUME GenvmInv, att.id # 0, NEW m \in Genvm!Deletes(att.id), vms' = m
    PROVE  SameMachines
  BY DEF GenvmInv, SameMachines, MachineSet, Genvm!Deletes, AttemptSet

LEMMA UnchangedMachines ==
    ASSUME GenvmInv, UNCHANGED vms
    PROVE  SameMachines
  BY DEF GenvmInv, SameMachines

(* A POST starts a machine of the attempt, one that never was up.          *)
LEMMA StartKeeps ==
    ASSUME GenvmInv, Genvm!Active, NEW v \in Genvm!VM, vms[v].at = "none",
           vms' = [vms EXCEPT ![v] = [@ EXCEPT !.at = "up", !.of = run.retry]],
           att' \in AttemptSet, att'.served = att.served,
           att'.host = "accepting" => att.host = "accepting",
           att'.id \in {att.id, v}, att'.post = "ok" \/ att'.timer # "off" => att'.id # 0,
           UNCHANGED run
    PROVE  GenvmInv'
  <1>1. run \in RunSet /\ vms \in [Genvm!VM -> MachineSet] /\ att \in AttemptSet
    BY DEF GenvmInv
  <1>2. run.retry \in Nat /\ run.by \in Genvm!VM \cup {0} /\ att.id \in Genvm!VM \cup {0}
    BY <1>1 DEF RunSet, AttemptSet
  <1>3. \A u \in Genvm!VM : vms'[u] = IF u = v THEN [vms[v] EXCEPT !.at = "up", !.of = run.retry] ELSE vms[u]
    BY <1>1
  <1>4. vms[v] \in MachineSet
    BY <1>1
  <1>5. LET m == [vms[v] EXCEPT !.at = "up", !.of = run.retry]
        IN m \in MachineSet /\ m.at = "up" /\ m.of = run.retry /\ m.result = vms[v].result
    BY <1>2, <1>4 DEF MachineSet
  <1>6. vms' \in [Genvm!VM -> MachineSet]
    BY <1>1, <1>5
  <1>7. vms'[v].at = "up" /\ vms'[v].of = run.retry /\ vms'[v].result = "none"
    BY <1>3, <1>5 DEF GenvmInv, OnlyServedHasResult
  <1>8. OnlyServedHasResult'
    BY <1>2, <1>3, <1>7 DEF GenvmInv, OnlyServedHasResult
  <1>9. Genvm!ServedIsReturned'
    BY DEF GenvmInv, Genvm!Active, Genvm!ServedIsReturned
  <1>10. att'.id # 0 => vms'[att'.id].at # "none" /\ vms'[att'.id].of = run.retry
    BY <1>2, <1>3, <1>7 DEF GenvmInv
  <1> QED
    BY <1>1, <1>6, <1>8, <1>9, <1>10 DEF GenvmInv

(* The end of an attempt, or of the run without a result.                  *)
LEMMA EndWithout ==
    ASSUME GenvmInv, run.outcome = "none", SameMachines, SameAttempt, NEW o \in {"none", "timeout", "cancelled"},
           NEW s \in {"backoff", "ended"}, o # "none" => s = "ended",
           run' \in RunSet, run'.at = s, run'.outcome = o, run'.retry = run.retry
    PROVE  GenvmInv'
  <1>1. att' \in AttemptSet /\ vms' \in [Genvm!VM -> MachineSet] /\ att.id \in Genvm!VM \cup {0}
                            /\ att'.id = att.id
    BY DEF GenvmInv, SameMachines, SameAttempt, AttemptSet
  <1>2. OnlyServedHasResult'
    BY DEF GenvmInv, OnlyServedHasResult, SameMachines, SameAttempt
  <1>3. att'.id # 0 => vms'[att'.id].at # "none" /\ vms'[att'.id].of = run.retry
    BY <1>1 DEF GenvmInv, SameMachines
  <1> QED
    BY <1>1, <1>2, <1>3 DEF GenvmInv, SameAttempt, Genvm!ServedIsReturned

----------------------------------------------------------------------------
(* The tasks of an attempt.                                                *)

LEMMA PostedOk == ASSUME GenvmInv, Genvm!Posted PROVE GenvmInv'
  <1>1. att \in AttemptSet
    BY DEF GenvmInv
  <1>2. PICK v \in Genvm!Unused :
            Genvm!Started(v) /\ att' = [att EXCEPT !.post = "ok", !.id = v, !.timer = "armed"]
    BY DEF Genvm!Posted
  <1>3. v \in Genvm!VM /\ vms[v].at = "none"
    BY DEF Genvm!Unused
  <1>4. att' \in AttemptSet /\ att'.served = att.served /\ att'.host = att.host /\ att'.id = v
    BY <1>1, <1>2, <1>3 DEF AttemptSet
  <1>5. v # 0
    BY <1>3 DEF Genvm!VM
  <1> QED
    BY <1>2, <1>3, <1>4, <1>5, StartKeeps DEF Genvm!Posted, Genvm!Started

LEMMA AnswerLostOk == ASSUME GenvmInv, Genvm!AnswerLost PROVE GenvmInv'
  <1>1. att \in AttemptSet
    BY DEF GenvmInv
  <1>2. att' \in AttemptSet /\ att'.served = att.served /\ att'.host = att.host /\ att'.id = att.id
        /\ att'.post # "ok" /\ att'.timer = att.timer
    BY <1>1 DEF Genvm!AnswerLost, AttemptSet
  <1>3. CASE UNCHANGED vms
    BY <1>2, <1>3, UnchangedMachines, QuietStep DEF Genvm!AnswerLost, SameAttempt
  <1>4. CASE \E v \in Genvm!Unused : Genvm!Started(v)
    <2>1. PICK v \in Genvm!Unused : Genvm!Started(v)
      BY <1>4
    <2>2. v \in Genvm!VM /\ vms[v].at = "none"
      BY DEF Genvm!Unused
    <2> QED
      BY <1>2, <2>1, <2>2, StartKeeps DEF Genvm!AnswerLost, Genvm!Started, GenvmInv
  <1> QED
    BY <1>3, <1>4 DEF Genvm!AnswerLost

LEMMA QuietTasksOk ==
    ASSUME GenvmInv, Genvm!Refused \/ Genvm!PostAgain \/ Genvm!GiveUp \/ Genvm!CallFails \/ Genvm!Probe \/ Genvm!TimeOut
    PROVE  GenvmInv'
  <1>1. att \in AttemptSet
    BY DEF GenvmInv
  <1>2. CASE Genvm!Refused
    BY <1>1, <1>2, UnchangedMachines, QuietStep DEF Genvm!Refused, SameAttempt, AttemptSet
  <1>6. CASE Genvm!PostAgain
    <2>1. att.try \in Nat
      BY <1>1 DEF AttemptSet
    <2> DEFINE next == att.try + 1
    <2>2. next \in Nat /\ att' = [att EXCEPT !.post = "sending", !.try = next]
      BY <1>6, <2>1 DEF Genvm!PostAgain
    <2> HIDE DEF next
    <2>3. SameAttempt
      BY <1>1, <2>2 DEF SameAttempt, AttemptSet
    <2> QED
      BY <1>6, <2>3, UnchangedMachines, QuietStep DEF Genvm!PostAgain
  <1>3. CASE Genvm!GiveUp \/ Genvm!CallFails
    BY <1>1, <1>3, UnchangedMachines, QuietStep
    DEF Genvm!GiveUp, Genvm!CallFails, SameAttempt, AttemptSet
  <1>4. CASE Genvm!Probe
    <2>1. CASE att.id = 0
      BY <1>1, <1>4, <2>1, UnchangedMachines, QuietStep DEF Genvm!Probe, SameAttempt, AttemptSet
    <2>2. CASE att.id # 0
      <3>1. PICK s \in Genvm!Polls(att, vms) :
                att' = [att EXCEPT !.probe = "ended", !.status = s,
                                   !.cancel = @ \/ s # "unknown"]
        BY <1>4, <2>2 DEF Genvm!Probe
      <3> DEFINE stop == att.cancel \/ s # "unknown"
      <3>2. s \in {"unknown", "ended", "error"}
        BY <1>1 DEF Genvm!Polls, AttemptSet
      <3>3. stop \in BOOLEAN
        OBVIOUS
      <3>4. att' = [att EXCEPT !.probe = "ended", !.status = s, !.cancel = stop]
        BY <3>1
      <3> HIDE DEF stop
      <3>5. SameAttempt
        BY <1>1, <3>2, <3>3, <3>4 DEF SameAttempt, AttemptSet
      <3> QED
        BY <1>4, <3>5, UnchangedMachines, QuietStep DEF Genvm!Probe
    <2> QED
      BY <2>1, <2>2
  <1>5. CASE Genvm!TimeOut
    BY <1>1, <1>5, UnchangedMachines, QuietStep DEF Genvm!TimeOut, SameAttempt, AttemptSet
  <1> QED
    BY <1>2, <1>3, <1>4, <1>5, <1>6

LEMMA ResetAttempt ==
    ASSUME NEW a \in AttemptSet, NEW v
    PROVE  /\ Genvm!Reset(a, v) \in AttemptSet /\ Genvm!Reset(a, v).served = a.served
           /\ Genvm!Reset(a, v).id = a.id
           /\ Genvm!Reset(a, v).post = a.post /\ Genvm!Reset(a, v).timer = a.timer
           /\ Genvm!Reset(a, v).host = "accepting" => a.host = "accepting"
  BY DEF Genvm!Reset, AttemptSet

LEMMA TimeoutDeleteOk == ASSUME GenvmInv, Genvm!TimeoutDelete PROVE GenvmInv'
  <1>1. att \in AttemptSet /\ att.id # 0 /\ att.timer = "fired"
    BY DEF GenvmInv, Genvm!TimeoutDelete
  <1>2. PICK m \in Genvm!Deletes(att.id) :
            vms' = m /\ att' = [(IF m = vms THEN att ELSE Genvm!Reset(att, att.id)) EXCEPT !.timer = "sent"]
    BY DEF Genvm!TimeoutDelete
  <1>3. SameMachines
    BY <1>1, <1>2, MachineDeleted
  <1>4. PICK a \in {att, Genvm!Reset(att, att.id)} : att' = [a EXCEPT !.timer = "sent"]
    BY <1>2
  <1>5. /\ a \in AttemptSet /\ a.served = att.served /\ a.id = att.id /\ a.post = att.post
        /\ a.host = "accepting" => att.host = "accepting"
    BY <1>1, <1>4, ResetAttempt
  <1>6. SameAttempt
    BY <1>1, <1>4, <1>5 DEF SameAttempt, AttemptSet
  <1> QED
    BY <1>3, <1>6, QuietStep DEF Genvm!TimeoutDelete

----------------------------------------------------------------------------
(* The machines.                                                           *)

(* The attempt accepts a machine: it served none before, so none of its    *)
(* own has a result yet.                                                   *)
LEMMA ConnectOk == ASSUME GenvmInv, NEW v \in Genvm!VM, Genvm!Connect(v) PROVE GenvmInv'
  <1>1. att \in AttemptSet /\ att' = [att EXCEPT !.host = "serving", !.served = v]
    BY DEF GenvmInv, Genvm!Connect
  <1>2. att' \in AttemptSet /\ att'.served = v /\ att'.id = att.id /\ att'.host = "serving"
        /\ att'.post = att.post /\ att'.timer = att.timer
    BY <1>1 DEF AttemptSet
  <1>3. att.served = 0 /\ 0 \notin Genvm!VM
    BY DEF GenvmInv, Genvm!Connect, Genvm!VM
  <1>4. SameMachines
    BY MachineMoves DEF Genvm!Connect
  <1>5. OnlyServedHasResult'
    BY <1>2, <1>3, <1>4 DEF GenvmInv, OnlyServedHasResult, SameMachines, Genvm!Connect
  <1>6. att'.id # 0 => vms'[att'.id].at # "none" /\ vms'[att'.id].of = run.retry
    BY <1>1, <1>2, <1>4 DEF GenvmInv, SameMachines, AttemptSet
  <1>7. Genvm!ServedIsReturned'
    BY DEF GenvmInv, Genvm!Connect, Genvm!Active, Genvm!ServedIsReturned
  <1> QED
    BY <1>2, <1>4, <1>5, <1>6, <1>7 DEF GenvmInv, SameMachines, Genvm!Connect

LEMMA AnswerOk == ASSUME GenvmInv, NEW v \in Genvm!VM, Genvm!Answer(v) PROVE GenvmInv'
  <1>1. PICK r \in {"return", "error", "internal"} :
            vms' = [vms EXCEPT ![v].at = "answered", ![v].result = r]
    BY DEF Genvm!Answer
  <1>2. vms \in [Genvm!VM -> MachineSet] /\ vms[v] \in MachineSet /\ att \in AttemptSet
    BY DEF GenvmInv
  <1>3. \A u \in Genvm!VM : vms'[u] = IF u = v THEN [vms[v] EXCEPT !.at = "answered", !.result = r] ELSE vms[u]
    BY <1>1, <1>2
  <1>4. vms'[v] \in MachineSet /\ vms'[v].at = "answered" /\ vms'[v].of = vms[v].of
    BY <1>2, <1>3 DEF MachineSet
  <1>5. vms' \in [Genvm!VM -> MachineSet]
    BY <1>1, <1>2, <1>3, <1>4
  <1>6. OnlyServedHasResult'
    BY <1>3, <1>4 DEF GenvmInv, OnlyServedHasResult, Genvm!Answer
  <1>7. att'.id # 0 => vms'[att'.id].at # "none" /\ vms'[att'.id].of = run.retry
    BY <1>2, <1>3, <1>4 DEF GenvmInv, Genvm!Answer, AttemptSet
  <1>8. Genvm!ServedIsReturned'
    BY DEF GenvmInv, Genvm!Answer, Genvm!Active, Genvm!ServedIsReturned
  <1> QED
    BY <1>5, <1>6, <1>7, <1>8 DEF GenvmInv, Genvm!Answer

LEMMA EndingOk ==
    ASSUME GenvmInv, NEW v \in Genvm!VM, Genvm!Finish(v) \/ Genvm!Crash(v) \/ Genvm!LoseHost(v)
    PROVE  GenvmInv'
  <1>1. att \in AttemptSet
    BY DEF GenvmInv
  <1>2. SameMachines
    BY MachineMoves DEF Genvm!Finish, Genvm!Crash, Genvm!LoseHost
  <1>3. CASE Genvm!Finish(v)
    BY <1>1, <1>2, <1>3, QuietStep DEF Genvm!Finish, SameAttempt, AttemptSet
  <1>4. CASE Genvm!Crash(v)
    BY <1>1, <1>2, <1>4, ResetAttempt, QuietStep DEF Genvm!Crash, SameAttempt
  <1>5. CASE Genvm!LoseHost(v)
    BY <1>1, <1>2, <1>5, QuietStep DEF Genvm!LoseHost, SameAttempt
  <1> QED
    BY <1>3, <1>4, <1>5

----------------------------------------------------------------------------
(* The ends of attempts and of the run.                                    *)

LEMMA GiveFacts ==
    ASSUME run \in RunSet, NEW o \in {"returned", "error", "timeout", "internal", "cancelled"},
           NEW v \in Genvm!VM \cup {0}, Genvm!Give(o, v)
    PROVE  run' \in RunSet /\ run'.at = "ended" /\ run'.outcome = o /\ run'.by = v
           /\ run'.retry = run.retry
  BY DEF RunSet, Genvm!Give

LEMMA FailFacts ==
    ASSUME run \in RunSet, run.outcome = "none", Genvm!AttemptFails
    PROVE  run' \in RunSet /\ run'.retry = run.retry
           /\ \/ run'.at = "backoff" /\ run'.outcome = "none"
              \/ run'.at = "ended" /\ run'.outcome = "timeout"
  <1>1. CASE run' = [run EXCEPT !.at = "backoff"]
    BY <1>1 DEF RunSet
  <1>2. CASE Genvm!Give("timeout", 0)
    BY <1>2, GiveFacts
  <1> QED
    BY <1>1, <1>2 DEF Genvm!AttemptFails

(* A cancelled POST leaves the machines, or starts one.                    *)
LEMMA AbandonedStep ==
    ASSUME GenvmInv, Genvm!Active, vms' \in Genvm!Abandoned, UNCHANGED att, run.outcome = "none",
           NEW o \in {"none", "timeout", "cancelled"}, NEW s \in {"backoff", "ended"},
           o # "none" => s = "ended",
           run' \in RunSet, run'.at = s, run'.outcome = o, run'.retry = run.retry
    PROVE  GenvmInv'
  <1>1. att \in AttemptSet /\ SameAttempt
    BY DEF GenvmInv, SameAttempt
  <1>2. CASE UNCHANGED vms
    BY <1>1, <1>2, UnchangedMachines, EndWithout
  <1>3. CASE ~UNCHANGED vms
    <2>1. PICK v \in Genvm!Unused : vms' = [vms EXCEPT ![v] = [@ EXCEPT !.at = "up", !.of = run.retry]]
      BY <1>3 DEF Genvm!Abandoned
    <2>2. v \in Genvm!VM /\ vms[v].at = "none"
      BY DEF Genvm!Unused
    <2>3. vms \in [Genvm!VM -> MachineSet] /\ vms[v] \in MachineSet /\ run.retry \in Nat
      BY <2>2 DEF GenvmInv, RunSet
    <2>4. \A u \in Genvm!VM : vms'[u] = IF u = v THEN [vms[v] EXCEPT !.at = "up", !.of = run.retry] ELSE vms[u]
      BY <2>1, <2>3
    <2>5. vms'[v] \in MachineSet /\ vms'[v].at = "up" /\ vms'[v].of = run.retry
          /\ vms'[v].result = vms[v].result
      BY <2>2, <2>3, <2>4 DEF MachineSet
    <2>6. vms' \in [Genvm!VM -> MachineSet]
      BY <2>1, <2>3, <2>4, <2>5
    <2>7. OnlyServedHasResult'
      BY <2>2, <2>3, <2>4, <2>5 DEF GenvmInv, OnlyServedHasResult
    <2>8. att'.id # 0 => vms'[att'.id].at # "none" /\ vms'[att'.id].of = run.retry
      BY <1>1, <2>4, <2>5 DEF GenvmInv, AttemptSet
    <2> QED
      BY <1>1, <2>6, <2>7, <2>8 DEF GenvmInv, Genvm!ServedIsReturned
  <1> QED
    BY <1>2, <1>3

LEMMA RaiseOk == ASSUME GenvmInv, Genvm!Raise PROVE GenvmInv'
  <1>1. run \in RunSet /\ run.outcome = "none"
    BY DEF GenvmInv, Genvm!Raise, Genvm!Active
  <1> QED
    BY <1>1, FailFacts, AbandonedStep DEF Genvm!Raise

LEMMA OutOfTimeOk == ASSUME GenvmInv, Genvm!OutOfTime PROVE GenvmInv'
  <1>1. run \in RunSet /\ run.outcome = "none"
    BY DEF GenvmInv, Genvm!OutOfTime
  <1>2. SameAttempt
    BY DEF GenvmInv, Genvm!OutOfTime, SameAttempt
  <1> QED
    BY <1>1, <1>2, GiveFacts, UnchangedMachines, EndWithout DEF Genvm!OutOfTime

LEMMA CancelledOk == ASSUME GenvmInv, Genvm!Cancelled PROVE GenvmInv'
  <1>1. run \in RunSet /\ run.outcome = "none"
    BY DEF GenvmInv, Genvm!Cancelled
  <1>2. SameAttempt
    BY DEF GenvmInv, Genvm!Cancelled, SameAttempt
  <1>3. run' \in RunSet /\ run'.at = "ended" /\ run'.outcome = "cancelled" /\ run'.retry = run.retry
    BY <1>1, GiveFacts DEF Genvm!Cancelled
  <1>4. CASE Genvm!Active /\ att.id # 0
    BY <1>1, <1>2, <1>3, <1>4, MachineDeleted, EndWithout DEF Genvm!Cancelled, Genvm!Active
  <1>5. CASE Genvm!Active /\ att.id = 0
    BY <1>1, <1>3, <1>5, AbandonedStep DEF Genvm!Cancelled, Genvm!Active
  <1>6. CASE ~Genvm!Active
    BY <1>1, <1>2, <1>3, <1>6, UnchangedMachines, EndWithout DEF Genvm!Cancelled, Genvm!Active
  <1> QED
    BY <1>4, <1>5, <1>6

(* A new attempt has no machine, and serves none.                          *)
LEMMA NextAttemptOk == ASSUME GenvmInv, Genvm!NextAttempt PROVE GenvmInv'
  <1>1. run \in RunSet /\ vms \in [Genvm!VM -> MachineSet] /\ run.outcome = "none"
    BY DEF GenvmInv, Genvm!NextAttempt
  <1> DEFINE next == run.retry + 1
  <1>2. run.retry \in Nat /\ next \in Nat /\ next > run.retry
    BY <1>1 DEF RunSet
  <1>3. run' = [run EXCEPT !.at = "attempt", !.retry = next]
    BY DEF Genvm!NextAttempt
  <1> HIDE DEF next
  <1>4. run' \in RunSet /\ run'.retry = next /\ run'.outcome = "none"
    BY <1>1, <1>2, <1>3 DEF RunSet
  <1>5. att' \in AttemptSet /\ att'.served = 0 /\ att'.id = 0 /\ att'.post = "sending"
                            /\ att'.timer = "off"
    BY DEF Genvm!NextAttempt, Genvm!NewAttempt, AttemptSet
  <1>6. \A v \in Genvm!VM : vms[v].of \in Nat
    BY <1>1 DEF MachineSet
  <1>7. OnlyServedHasResult'
    BY <1>4, <1>6, <1>2 DEF GenvmInv, Genvm!NextAttempt, OnlyServedHasResult
  <1> QED
    BY <1>1, <1>4, <1>5, <1>7 DEF GenvmInv, Genvm!NextAttempt, Genvm!ServedIsReturned

(* The result that is read is that of the machine the POST told of.  When  *)
(* it has one, it is the machine that was served.                          *)
LEMMA CollectOk == ASSUME GenvmInv, Genvm!Collect PROVE GenvmInv'
  <1>1. run \in RunSet /\ att \in AttemptSet /\ run.outcome = "none" /\ att.id \in Genvm!VM
                       /\ att.id # 0
    BY DEF GenvmInv, Genvm!Collect, Genvm!Active, Genvm!Raises, AttemptSet
  <1>0. PICK m \in Genvm!Deletes(att.id) : \E s \in Genvm!Polls(att, m) :
            /\ vms' = m
            /\ att' = [att EXCEPT !.status = s]
            /\ IF s = "ended" THEN Genvm!Give(Genvm!Reads(att.id), att.id) ELSE Genvm!AttemptFails
    BY DEF Genvm!Collect
  <1>2. PICK s \in Genvm!Polls(att, m) :
            /\ vms' = m
            /\ att' = [att EXCEPT !.status = s]
            /\ IF s = "ended" THEN Genvm!Give(Genvm!Reads(att.id), att.id) ELSE Genvm!AttemptFails
    BY <1>0
  <1>3. s \in {"unknown", "ended", "error"}
    BY <1>1 DEF Genvm!Polls, AttemptSet
  <1>4. SameAttempt
    BY <1>1, <1>2, <1>3 DEF SameAttempt, AttemptSet
  <1>5. SameMachines
    BY <1>1, <1>2, MachineDeleted
  <1>6. CASE s # "ended"
    BY <1>1, <1>2, <1>4, <1>5, <1>6, FailFacts, EndWithout
  <1>7. CASE s = "ended"
    <2>1. Genvm!Reads(att.id) \in {"returned", "error", "timeout", "internal"}
      BY DEF Genvm!Reads
    <2>2. run' \in RunSet /\ run'.at = "ended" /\ run'.outcome = Genvm!Reads(att.id)
                          /\ run'.by = att.id
          /\ run'.retry = run.retry
      BY <1>1, <1>2, <1>7, <2>1, GiveFacts
    <2>3. att' \in AttemptSet /\ vms' \in [Genvm!VM -> MachineSet] /\ att'.id = att.id
                              /\ att'.served = att.served
      BY <1>4, <1>5 DEF SameAttempt, SameMachines
    <2>4. OnlyServedHasResult'
      BY <1>5, <2>2, <2>3 DEF GenvmInv, OnlyServedHasResult, SameMachines
    <2>5. att'.id # 0 => vms'[att'.id].at # "none" /\ vms'[att'.id].of = run'.retry
      BY <1>1, <1>5, <2>2, <2>3 DEF GenvmInv, SameMachines
    <2>6. Genvm!Reads(att.id) \in {"returned", "error"} =>
            vms[att.id].result = IF Genvm!Reads(att.id) = "returned" THEN "return" ELSE "error"
      BY DEF Genvm!Reads
    <2>7. Genvm!ServedIsReturned'
      BY <1>1, <1>5, <2>2, <2>3, <2>6
      DEF GenvmInv, OnlyServedHasResult, SameMachines, Genvm!ServedIsReturned
    <2> QED
      BY <1>1, <1>4, <2>2, <2>3, <2>4, <2>5, <2>7 DEF GenvmInv, SameAttempt
  <1> QED
    BY <1>6, <1>7

----------------------------------------------------------------------------
LEMMA GenvmStep == ASSUME GenvmInv, Genvm!Next \/ UNCHANGED genvmVars PROVE GenvmInv'
  <1>1. CASE Genvm!Tasks
    BY <1>1, PostedOk, AnswerLostOk, QuietTasksOk, TimeoutDeleteOk, RaiseOk, CollectOk,
       NextAttemptOk, OutOfTimeOk, CancelledOk DEF Genvm!Tasks
  <1>2. ASSUME NEW v \in Genvm!VM, Genvm!Machine(v) PROVE GenvmInv'
    BY <1>2, ConnectOk, AnswerOk, EndingOk DEF Genvm!Machine
  <1>3. CASE UNCHANGED genvmVars
    BY <1>3, UnchangedMachines, QuietStep DEF genvmVars, SameAttempt, GenvmInv
  <1> QED
    BY <1>1, <1>2, <1>3 DEF Genvm!Next

(* Whatever machines earlier requests and attempts left behind, however    *)
(* many, a result that is given is the one of the machine that the last    *)
(* attempt served.                                                         *)
THEOREM ResultsAreServed == Spec => []ServedIsReturned
  <1> DEFINE I == part = "genvm" => GenvmInv
  <1>1. Init => I
    BY GenvmInit DEF Init
  <1>2. I /\ [Next]_vars => I'
    <2> SUFFICES ASSUME I, [Next]_vars, part' = "genvm" PROVE GenvmInv'
      OBVIOUS
    <2>1. part = "genvm" /\ (Genvm!Next \/ UNCHANGED genvmVars)
      BY DEF Next, vars
    <2> QED
      BY <2>1, GenvmStep
  <1>3. I => ServedIsReturned
    BY DEF GenvmInv, ServedIsReturned
  <1> HIDE DEF I
  <1> QED
    BY <1>1, <1>2, <1>3, PTL DEF Spec

----------------------------------------------------------------------------
(* NodeExecution: with executions that are not cut in a read and retried,  *)
(* no validator reads a state its leader did not read.                     *)

GoodConstants == Validators \in Nat \ {0} /\ Program \in Seq(Nodes!Contract)

NodeSet ==
    [at : {"idle", "reading", "done"}, own : [Nodes!Contract -> Nat], got : Seq(Nat), fetched : Nat,
     retried : BOOLEAN, vote : {"none", "timeout", "disagree", "violation", "agree"}]
ReceiptSet == [kind : {"none", "return", "timeout"}, state : Seq(Nat)]
PropSet ==
    [at : {"proposing", "leader_timeout", "accepted", "committing", "raised"}, leader : Nodes!Node,
     attempt : Nat, cut : BOOLEAN, mode : {"normal", "leader_only"}, pool : Seq(Nodes!Node),
     receipt : ReceiptSet]
ThreadSet == [of : Nodes!Contract, state : Nat]

(* A node has read a part of the program, and fetches what comes next.     *)
InProgram(r) ==
    /\ Len(r.got) <= Len(Program)
    /\ r.fetched # 0 => Len(r.got) < Len(Program)
NodesTypes ==
    /\ db \in [Nodes!Contract -> Nat \ {0}] /\ cache \in [Nodes!Contract -> Nat]
    /\ node \in [Nodes!Node -> NodeSet] /\ threads \subseteq ThreadSet /\ prop \in PropSet
    /\ \A n \in Nodes!Node : InProgram(node[n])

(* The inductive invariant.  As long as nodes read for a vote, what any of *)
(* them has read is what the cache holds; only a leader that proposes has  *)
(* a read under way, of a contract the cache does not hold; and when the   *)
(* validators run, the cache holds all that their leader read.             *)
FromCache(r, held) ==
    /\ \A c \in Nodes!Contract : r.own[c] # 0 => r.own[c] = held[c]
    /\ \A i \in 1..Len(r.got) : r.got[i] # 0 /\ r.got[i] = held[Program[i]]
ReceiptInCache ==
    /\ prop.receipt.kind = "return" /\ Len(prop.receipt.state) = Len(Program)
    /\ \A i \in 1..Len(Program) : /\ prop.receipt.state[i] # 0
                                  /\ prop.receipt.state[i] = cache[Program[i]]
Shared ==
    prop.at \in {"proposing", "committing"} =>
        /\ threads = {}
        /\ \A n \in Nodes!Node : FromCache(node[n], cache)
        /\ \A n \in Nodes!Node : node[n].fetched # 0 =>
             /\ prop.at = "proposing" /\ n = prop.leader /\ node[n].at = "reading"
             /\ cache[Nodes!Wanted(n)] = 0
        /\ \A n \in Nodes!Node : prop.at = "proposing" /\ node[n].at = "reading" => n = prop.leader
        /\ prop.at = "committing" => ReceiptInCache
NoViolation == \A n \in Nodes!Node : node[n].vote # "violation"
NodesInv == NodesTypes /\ (prop.cut \/ (Shared /\ NoViolation))

----------------------------------------------------------------------------
LEMMA NewNodeFacts ==
    /\ Nodes!NewNode \in NodeSet
    /\ Nodes!NewNode.got = <<>> /\ Nodes!NewNode.fetched = 0 /\ Nodes!NewNode.vote = "none"
    /\ Nodes!NewNode.at = "idle" /\ Nodes!NewNode.own = [c \in Nodes!Contract |-> 0]
  BY DEF Nodes!NewNode, NodeSet

LEMMA NodesInit == ASSUME GoodConstants, Nodes!Init PROVE NodesInv
  <1>1. 1 \in Nodes!Node /\ \A i \in 1..Validators - 1 : i + 1 \in Nodes!Node
    BY DEF GoodConstants, Nodes!Node
  <1>2. \A n \in Nodes!Node : node[n] = Nodes!NewNode
    BY DEF Nodes!Init
  <1>3. PICK cut \in BOOLEAN, mode \in {"normal", "leader_only"} :
         prop = [at |-> "proposing", leader |-> 1, attempt |-> 0, cut |-> cut, mode |-> mode,
                 pool |-> IF mode = "normal" THEN [i \in 1..Validators - 1 |-> i + 1] ELSE <<>>,
                 receipt |-> [kind |-> "none", state |-> <<>>]]
    BY DEF Nodes!Init
  <1>4. (IF mode = "normal" THEN [i \in 1..Validators - 1 |-> i + 1] ELSE <<>>) \in Seq(Nodes!Node)
    BY <1>1 DEF GoodConstants
  <1>5. [kind |-> "none", state |-> <<>>] \in ReceiptSet
    BY DEF ReceiptSet
  <1>6. prop \in PropSet /\ prop.at = "proposing"
    BY <1>1, <1>3, <1>4, <1>5 DEF PropSet
  <1>7. NodesTypes
    BY <1>2, <1>6, NewNodeFacts DEF Nodes!Init, NodesTypes, InProgram, GoodConstants
  <1>8. Shared /\ NoViolation
    BY <1>2, <1>6, NewNodeFacts DEF Nodes!Init, Shared, FromCache, NoViolation
  <1> QED
    BY <1>7, <1>8 DEF NodesInv

(* A node gets a new record.                                               *)
LEMMA NodeUpdate ==
    ASSUME NodesTypes, NEW n \in Nodes!Node, NEW r \in NodeSet, node' = [node EXCEPT ![n] = r]
    PROVE  /\ node' \in [Nodes!Node -> NodeSet]
           /\ \A m \in Nodes!Node : node'[m] = IF m = n THEN r ELSE node[m]
  BY DEF NodesTypes

LEMMA NodeTypes ==
    ASSUME NodesTypes, NEW n \in Nodes!Node
    PROVE  /\ node[n] \in NodeSet /\ node[n].own \in [Nodes!Contract -> Nat]
           /\ node[n].got \in Seq(Nat)
           /\ node[n].fetched \in Nat /\ node[n].at \in {"idle", "reading", "done"}
  BY DEF NodesTypes, NodeSet

LEMMA WantedFacts ==
    ASSUME GoodConstants, NodesTypes, NEW n \in Nodes!Node, Len(node[n].got) < Len(Program)
    PROVE  /\ Len(node[n].got) + 1 \in 1..Len(Program)
           /\ Nodes!Wanted(n) = Program[Len(node[n].got) + 1] /\ Nodes!Wanted(n) \in Nodes!Contract
  <1>1. Len(node[n].got) \in Nat /\ Program \in Seq(Nodes!Contract) /\ Len(Program) \in Nat
    BY NodeTypes DEF GoodConstants
  <1> QED
    BY <1>1 DEF Nodes!Wanted

(* What a step does to a node that reads: a read is taken from the caches, *)
(* is fetched, or is stored.                                               *)
ReadNext(r, w, v) == [r EXCEPT !.own[w] = v, !.got = Append(@, v), !.fetched = 0]

LEMMA ReadNextFacts ==
    ASSUME NEW r \in NodeSet, NEW w \in Nodes!Contract, NEW v \in Nat
    PROVE  LET q == ReadNext(r, w, v) IN
           /\ q \in NodeSet /\ q.at = r.at /\ q.fetched = 0 /\ q.vote = r.vote
           /\ q.own = [r.own EXCEPT ![w] = v] /\ q.got = Append(r.got, v)
  <1> DEFINE own == [r.own EXCEPT ![w] = v]
  <1> DEFINE seen == Append(r.got, v)
  <1>1. own \in [Nodes!Contract -> Nat] /\ seen \in Seq(Nat)
    BY DEF NodeSet
  <1>2. ReadNext(r, w, v) = [r EXCEPT !.own = own, !.got = seen, !.fetched = 0]
    BY DEF ReadNext, NodeSet
  <1> HIDE DEF own, seen
  <1>3. [r EXCEPT !.own = own, !.got = seen, !.fetched = 0] \in NodeSet
    BY <1>1 DEF NodeSet
  <1>4. LET q == [r EXCEPT !.own = own, !.got = seen, !.fetched = 0] IN
        q.at = r.at /\ q.fetched = 0 /\ q.vote = r.vote /\ q.own = own /\ q.got = seen
    BY <1>1 DEF NodeSet
  <1> QED
    BY <1>2, <1>3, <1>4 DEF own, seen

(* The cache keeps what it holds.                                          *)
CacheGrows == \A c \in Nodes!Contract : cache[c] # 0 => cache'[c] = cache[c]

LEMMA FromCacheStays ==
    ASSUME GoodConstants, NodesTypes, NEW r \in NodeSet, FromCache(r, cache), InProgram(r), CacheGrows
    PROVE  FromCache(r, cache')
  <1>1. r.own \in [Nodes!Contract -> Nat] /\ r.got \in Seq(Nat) /\ Len(r.got) \in Nat
                                          /\ Len(Program) \in Nat
    BY DEF NodeSet, GoodConstants
  <1>2. \A i \in 1..Len(r.got) : i \in 1..Len(Program) /\ Program[i] \in Nodes!Contract
    BY <1>1 DEF InProgram, GoodConstants
  <1> QED
    BY <1>1, <1>2 DEF FromCache, CacheGrows

(* A node that reads next what the cache will hold.                        *)
LEMMA ReadKeeps ==
    ASSUME GoodConstants, NodesTypes, NEW n \in Nodes!Node, Len(node[n].got) < Len(Program),
           NEW v \in Nat \ {0}, FromCache(node[n], cache), CacheGrows, cache'[Nodes!Wanted(n)] = v
    PROVE  FromCache(ReadNext(node[n], Nodes!Wanted(n), v), cache')
  <1> DEFINE r == node[n]
  <1> DEFINE w == Nodes!Wanted(n)
  <1> DEFINE q == ReadNext(r, w, v)
  <1>1. r \in NodeSet /\ r.own \in [Nodes!Contract -> Nat] /\ r.got \in Seq(Nat)
                      /\ Len(r.got) \in Nat
    BY NodeTypes
  <1>2. w \in Nodes!Contract /\ w = Program[Len(r.got) + 1]
    BY WantedFacts
  <1>0. v \in Nat
    OBVIOUS
  <1>3. q.own = [r.own EXCEPT ![w] = v] /\ q.got = Append(r.got, v)
    <2>1. ASSUME NEW x \in NodeSet, NEW y \in Nodes!Contract, NEW z \in Nat
          PROVE  /\ ReadNext(x, y, z).own = [x.own EXCEPT ![y] = z]
                 /\ ReadNext(x, y, z).got = Append(x.got, z)
      BY ReadNextFacts
    <2> HIDE DEF r, w
    <2> QED
      BY <1>0, <1>1, <1>2, <2>1
  <1>4. FromCache(r, cache') /\ InProgram(r)
    BY <1>1, FromCacheStays DEF NodesTypes
  <1>5. \A c \in Nodes!Contract : q.own[c] # 0 => q.own[c] = cache'[c]
    BY <1>1, <1>2, <1>3, <1>4 DEF FromCache
  <1>6. Len(q.got) = Len(r.got) + 1
        /\ \A i \in 1..Len(q.got) : q.got[i] = IF i <= Len(r.got) THEN r.got[i] ELSE v
    BY <1>1, <1>3
  <1>7. \A i \in 1..Len(r.got) : r.got[i] # 0 /\ r.got[i] = cache'[Program[i]]
    BY <1>4 DEF FromCache
  <1> HIDE DEF q, r, w
  <1>8. \A i \in 1..Len(q.got) : q.got[i] # 0 /\ q.got[i] = cache'[Program[i]]
    <2> SUFFICES ASSUME NEW i \in 1..Len(q.got)
                 PROVE  q.got[i] # 0 /\ q.got[i] = cache'[Program[i]]
      OBVIOUS
    <2>1. CASE i <= Len(r.got)
      BY <1>1, <1>6, <1>7, <2>1
    <2>2. CASE i > Len(r.got)
      <3>1. i = Len(r.got) + 1
        BY <1>1, <1>6, <2>2
      <3>2. q.got[i] = v
        BY <1>1, <1>6, <2>2
      <3> QED
        BY <1>2, <3>1, <3>2 DEF w
    <2> QED
      BY <1>1, <1>6, <2>1, <2>2
  <1>9. FromCache(q, cache')
    BY <1>5, <1>8 DEF FromCache
  <1> QED
    BY <1>9 DEF q, r, w

(* A step that keeps the cache and the record of every node.               *)
LEMMA InProgramNext ==
    ASSUME GoodConstants, NodesTypes, NEW n \in Nodes!Node, Len(node[n].got) < Len(Program), NEW v \in Nat
    PROVE  InProgram(ReadNext(node[n], Nodes!Wanted(n), v))
  <1>1. node[n] \in NodeSet /\ node[n].got \in Seq(Nat) /\ Len(node[n].got) \in Nat
    BY NodeTypes
  <1>2. Nodes!Wanted(n) \in Nodes!Contract /\ Len(Program) \in Nat
    BY WantedFacts DEF GoodConstants
  <1>3. LET q == ReadNext(node[n], Nodes!Wanted(n), v) IN q.got = Append(node[n].got, v) /\ q.fetched = 0
    BY <1>1, <1>2, ReadNextFacts
  <1>4. Len(Append(node[n].got, v)) = Len(node[n].got) + 1
    BY <1>1
  <1> QED
    BY <1>1, <1>2, <1>3, <1>4 DEF InProgram

----------------------------------------------------------------------------
(* The reads.                                                              *)

LEMMA ReadCachedIsNext ==
    ASSUME GoodConstants, NodesTypes, NEW n \in Nodes!Node, Nodes!ReadCached(n)
    PROVE  /\ Nodes!Cached(n, Nodes!Wanted(n)) \in Nat \ {0} /\ Nodes!Wanted(n) \in Nodes!Contract
           /\ node' = [node EXCEPT ![n] = ReadNext(node[n], Nodes!Wanted(n), Nodes!Cached(n, Nodes!Wanted(n)))]
  <1> DEFINE w == Nodes!Wanted(n)
  <1> DEFINE v == Nodes!Cached(n, w)
  <1>1. node \in [Nodes!Node -> NodeSet] /\ node[n] \in NodeSet
                                         /\ node[n].own \in [Nodes!Contract -> Nat]
        /\ cache \in [Nodes!Contract -> Nat]
    BY NodeTypes DEF NodesTypes
  <1>2. Len(node[n].got) < Len(Program) /\ node[n].fetched = 0 /\ v # 0
    BY DEF Nodes!ReadCached, Nodes!Reading
  <1>3. w \in Nodes!Contract
    BY <1>2, WantedFacts
  <1>4. v \in Nat
    BY <1>1, <1>3 DEF Nodes!Cached
  <1>5. node' = [node EXCEPT ![n].own[w] = v, ![n].got = Append(@, v)]
    BY DEF Nodes!ReadCached
  <1> HIDE DEF v, w
  <1>6. node' = [node EXCEPT ![n] = ReadNext(node[n], w, v)]
    BY <1>1, <1>2, <1>5 DEF ReadNext, NodeSet
  <1> QED
    BY <1>2, <1>3, <1>4, <1>6 DEF v, w

LEMMA StoreIsNext ==
    ASSUME GoodConstants, NodesTypes, NEW n \in Nodes!Node, Nodes!Store(n)
    PROVE  /\ node[n].fetched \in Nat \ {0} /\ Nodes!Wanted(n) \in Nodes!Contract
           /\ node' = [node EXCEPT ![n] = ReadNext(node[n], Nodes!Wanted(n), node[n].fetched)]
  <1> DEFINE w == Nodes!Wanted(n)
  <1> DEFINE v == node[n].fetched
  <1>1. node \in [Nodes!Node -> NodeSet] /\ node[n] \in NodeSet /\ v \in Nat
    BY NodeTypes DEF NodesTypes
  <1>2. Len(node[n].got) < Len(Program) /\ v # 0
    BY DEF Nodes!Store, NodesTypes, InProgram
  <1>3. w \in Nodes!Contract
    BY <1>2, WantedFacts
  <1>4. node' = [node EXCEPT ![n].own[w] = v, ![n].got = Append(@, v), ![n].fetched = 0]
    BY DEF Nodes!Store
  <1> HIDE DEF v, w
  <1>5. node' = [node EXCEPT ![n] = ReadNext(node[n], w, v)]
    BY <1>1, <1>4 DEF ReadNext
  <1> QED
    BY <1>1, <1>2, <1>3, <1>5 DEF v, w

----------------------------------------------------------------------------
(* What a step of one node disturbs.                                       *)

LEMMA TypesOfNode ==
    ASSUME NodesTypes, NEW n \in Nodes!Node, NEW r \in NodeSet, InProgram(r), node' = [node EXCEPT ![n] = r],
           cache' \in [Nodes!Contract -> Nat], threads' \subseteq ThreadSet, prop' \in PropSet, db' = db
    PROVE  NodesTypes'
  <1>1. node' \in [Nodes!Node -> NodeSet] /\ \A m \in Nodes!Node : node'[m] = IF m = n THEN r ELSE node[m]
    BY NodeUpdate
  <1>2. \A m \in Nodes!Node : InProgram(node'[m])
    BY <1>1 DEF NodesTypes
  <1> QED
    BY <1>1, <1>2 DEF NodesTypes, InProgram

LEMMA VotesOfNode ==
    ASSUME NodesTypes, NoViolation, NEW n \in Nodes!Node, NEW r \in NodeSet, node' = [node EXCEPT ![n] = r],
           r.vote # "violation"
    PROVE  NoViolation'
  BY NodeUpdate DEF NoViolation

LEMMA ReceiptStays ==
    ASSUME GoodConstants, ReceiptInCache, CacheGrows, prop'.receipt = prop.receipt
    PROVE  ReceiptInCache'
  <1>1. \A i \in 1..Len(Program) : Program[i] \in Nodes!Contract
    BY DEF GoodConstants
  <1> QED
    BY <1>1 DEF ReceiptInCache, CacheGrows

(* A node that has no read under way after its step.                       *)
LEMMA SharedOfNode ==
    ASSUME GoodConstants, NodesTypes, Shared, NEW n \in Nodes!Node, NEW r \in NodeSet,
           node' = [node EXCEPT ![n] = r], prop' = prop, threads' = threads, CacheGrows,
           cache' = cache \/ node[n].fetched # 0,
           r.fetched = 0, r.at = "reading" => node[n].at = "reading" \/ n = prop.leader \/ prop.at # "proposing",
           prop.at \in {"proposing", "committing"} => FromCache(r, cache')
    PROVE  Shared'
  <1> SUFFICES ASSUME prop.at \in {"proposing", "committing"} PROVE Shared'
    BY DEF Shared
  <1>1. \A m \in Nodes!Node : node'[m] = IF m = n THEN r ELSE node[m]
    BY NodeUpdate
  <1>2. \A m \in Nodes!Node : FromCache(node'[m], cache')
    BY <1>1, FromCacheStays, NodeTypes DEF Shared, NodesTypes
  <1>3. \A m \in Nodes!Node : node'[m].fetched # 0 =>
             /\ prop.at = "proposing" /\ m = prop.leader /\ node'[m].at = "reading"
             /\ cache'[Nodes!Wanted(m)'] = 0
    BY <1>1 DEF Shared, Nodes!Wanted
  <1>4. \A m \in Nodes!Node : prop.at = "proposing" /\ node'[m].at = "reading" => m = prop.leader
    BY <1>1 DEF Shared
  <1>5. prop.at = "committing" => ReceiptInCache'
    BY ReceiptStays DEF Shared
  <1> QED
    BY <1>2, <1>3, <1>4, <1>5 DEF Shared

LEMMA ReadCachedOk ==
    ASSUME GoodConstants, NodesInv, NEW n \in Nodes!Node, Nodes!ReadCached(n)
    PROVE  NodesInv'
  <1> DEFINE v == Nodes!Cached(n, Nodes!Wanted(n))
  <1> DEFINE r == ReadNext(node[n], Nodes!Wanted(n), v)
  <1>1. NodesTypes /\ node[n] \in NodeSet /\ Len(node[n].got) < Len(Program)
    BY NodeTypes DEF NodesInv, Nodes!ReadCached, Nodes!Reading
  <1>2. v \in Nat /\ v \in Nat \ {0} /\ Nodes!Wanted(n) \in Nodes!Contract
                  /\ node' = [node EXCEPT ![n] = r]
    BY <1>1, ReadCachedIsNext
  <1>3. db' = db /\ cache' = cache /\ threads' = threads /\ prop' = prop /\ CacheGrows
    BY DEF Nodes!ReadCached, CacheGrows
  <1>4. r \in NodeSet /\ r.at = node[n].at /\ r.fetched = 0 /\ r.vote = node[n].vote
    BY <1>1, <1>2, ReadNextFacts, ZenonT(60)
  <1>5. InProgram(r)
    BY <1>1, <1>2, InProgramNext
  <1>6. ASSUME Shared, prop.at \in {"proposing", "committing"} PROVE FromCache(r, cache')
    <2>1. FromCache(node[n], cache)
      BY <1>6 DEF Shared
    <2>2. cache'[Nodes!Wanted(n)] = v
      BY <1>2, <1>3, <2>1 DEF FromCache, Nodes!Cached
    <2> QED
      BY <1>1, <1>2, <1>3, <2>1, <2>2, ReadKeeps
  <1> HIDE DEF r, v
  <1>7. NodesTypes'
    BY <1>1, <1>2, <1>3, <1>4, <1>5, TypesOfNode DEF NodesTypes
  <1>8. ASSUME Shared, NoViolation PROVE Shared' /\ NoViolation'
    <2>1. r.vote # "violation"
      BY <1>4, <1>8 DEF NoViolation
    <2>2. NoViolation'
      BY <1>1, <1>2, <1>4, <1>8, <2>1, VotesOfNode
    <2>3. Shared'
      BY <1>1, <1>2, <1>3, <1>4, <1>6, <1>8, SharedOfNode
    <2> QED
      BY <2>2, <2>3
  <1> QED
    BY <1>3, <1>7, <1>8 DEF NodesInv

LEMMA StoreOk ==
    ASSUME GoodConstants, NodesInv, NEW n \in Nodes!Node, Nodes!Store(n)
    PROVE  NodesInv'
  <1> DEFINE v == node[n].fetched
  <1> DEFINE r == ReadNext(node[n], Nodes!Wanted(n), v)
  <1>1. NodesTypes /\ node[n] \in NodeSet /\ v \in Nat /\ v # 0 /\ Len(node[n].got) < Len(Program)
    BY NodeTypes DEF NodesInv, Nodes!Store, NodesTypes, InProgram
  <1>2. v \in Nat \ {0} /\ Nodes!Wanted(n) \in Nodes!Contract /\ node' = [node EXCEPT ![n] = r]
    BY <1>1, StoreIsNext
  <1>3. db' = db /\ threads' = threads /\ prop' = prop
                 /\ cache' = [cache EXCEPT ![Nodes!Wanted(n)] = v]
    BY DEF Nodes!Store
  <1>4. r \in NodeSet /\ r.at = node[n].at /\ r.fetched = 0 /\ r.vote = node[n].vote
    BY <1>1, <1>2, ReadNextFacts, ZenonT(60)
  <1>5. InProgram(r)
    BY <1>1, <1>2, InProgramNext
  <1>6. cache' \in [Nodes!Contract -> Nat] /\ cache'[Nodes!Wanted(n)] = v
    BY <1>1, <1>2, <1>3 DEF NodesTypes
  <1>7. ASSUME Shared, prop.at \in {"proposing", "committing"} PROVE CacheGrows /\ FromCache(r, cache')
    <2>1. FromCache(node[n], cache) /\ cache[Nodes!Wanted(n)] = 0
      BY <1>1, <1>7 DEF Shared
    <2>2. CacheGrows
      BY <1>1, <1>3, <2>1 DEF CacheGrows, NodesTypes
    <2> QED
      BY <1>1, <1>2, <1>6, <2>1, <2>2, ReadKeeps
  <1>8. node[n].fetched # 0
    BY <1>1
  <1> HIDE DEF r, v
  <1>9. NodesTypes'
    BY <1>1, <1>2, <1>3, <1>4, <1>5, <1>6, TypesOfNode DEF NodesTypes
  <1>10. ASSUME Shared, NoViolation PROVE Shared' /\ NoViolation'
    <2>1. r.vote # "violation"
      BY <1>4, <1>10 DEF NoViolation
    <2>2. NoViolation'
      BY <1>1, <1>2, <1>4, <1>10, <2>1, VotesOfNode
    <2>3. CASE prop.at \in {"proposing", "committing"}
      BY <1>1, <1>2, <1>3, <1>4, <1>7, <1>8, <1>10, <2>2, <2>3, SharedOfNode
    <2>4. CASE prop.at \notin {"proposing", "committing"}
      BY <1>3, <2>2, <2>4 DEF Shared
    <2> QED
      BY <2>3, <2>4
  <1> QED
    BY <1>3, <1>9, <1>10 DEF NodesInv

LEMMA LeftTypes ==
    ASSUME GoodConstants, NodesTypes, NEW n \in Nodes!Node
    PROVE  Nodes!Left(n) \subseteq ThreadSet
  <1>1. CASE node[n].fetched = 0
    BY <1>1 DEF Nodes!Left, NodesTypes
  <1>2. CASE node[n].fetched # 0
    <2>1. Len(node[n].got) < Len(Program)
      BY <1>2 DEF NodesTypes, InProgram
    <2>2. [of |-> Nodes!Wanted(n), state |-> node[n].fetched] \in ThreadSet
      BY <2>1, WantedFacts, NodeTypes DEF ThreadSet
    <2> QED
      BY <1>2, <2>2 DEF Nodes!Left, NodesTypes
  <1> QED
    BY <1>1, <1>2

(* Only a leader that proposes has to fetch: later the cache has it all.   *)
LEMMA FetchOk ==
    ASSUME GoodConstants, NodesInv, NEW n \in Nodes!Node, Nodes!Fetch(n)
    PROVE  NodesInv'
  <1> DEFINE w == Nodes!Wanted(n)
  <1> DEFINE v == db[w]
  <1> DEFINE r == [node[n] EXCEPT !.fetched = v]
  <1>1. NodesTypes /\ node \in [Nodes!Node -> NodeSet] /\ node[n] \in NodeSet
                   /\ node[n].at = "reading"
        /\ Len(node[n].got) < Len(Program) /\ Len(node[n].got) <= Len(Program)
    BY NodeTypes DEF NodesInv, Nodes!Fetch, Nodes!Reading, NodesTypes, InProgram
  <1>2. w \in Nodes!Contract /\ Len(node[n].got) + 1 \in 1..Len(Program)
                             /\ w = Program[Len(node[n].got) + 1]
    BY <1>1, WantedFacts
  <1>3. v \in Nat /\ v # 0
    BY <1>1, <1>2 DEF NodesTypes
  <1>4. db' = db /\ cache' = cache /\ threads' = threads /\ prop' = prop
    BY DEF Nodes!Fetch
  <1>5. node' = [node EXCEPT ![n].fetched = v]
    BY DEF Nodes!Fetch
  <1>6. node[n].own[w] = 0 /\ cache[w] = 0
    BY DEF Nodes!Fetch, Nodes!Cached
  <1> HIDE DEF v, w
  <1>7. node' = [node EXCEPT ![n] = r]
    BY <1>1, <1>5
  <1>8. r \in NodeSet /\ r.at = "reading" /\ r.fetched = v /\ r.vote = node[n].vote
        /\ r.own = node[n].own /\ r.got = node[n].got
    BY <1>1, <1>3 DEF NodeSet
  <1> HIDE DEF r
  <1>9. InProgram(r)
    BY <1>1, <1>8 DEF InProgram
  <1>10. NodesTypes'
    BY <1>1, <1>4, <1>7, <1>8, <1>9, TypesOfNode DEF NodesTypes
  <1>11. ASSUME Shared, NoViolation PROVE Shared' /\ NoViolation'
    <2>1. NoViolation'
      <3>1. r.vote # "violation"
        BY <1>8, <1>11 DEF NoViolation
      <3> QED
        BY <1>1, <1>7, <1>8, <1>11, <3>1, VotesOfNode
    <2>2. ASSUME prop.at \in {"proposing", "committing"} PROVE Shared'
      <3>1. prop.at = "proposing" /\ n = prop.leader
        BY <1>1, <1>2, <1>6, <1>11, <2>2 DEF Shared, ReceiptInCache
      <3>2. \A m \in Nodes!Node : node'[m] = IF m = n THEN r ELSE node[m]
        BY <1>1, <1>7, <1>8, NodeUpdate
      <3>3. \A m \in Nodes!Node : FromCache(node'[m], cache')
        BY <1>4, <1>8, <1>11, <2>2, <3>2 DEF Shared, FromCache
      <3>4. Nodes!Wanted(n)' = w
        BY <1>2, <1>8, <3>2 DEF Nodes!Wanted
      <3>5. \A m \in Nodes!Node : node'[m].fetched # 0 =>
                 /\ prop.at = "proposing" /\ m = prop.leader /\ node'[m].at = "reading"
                 /\ cache'[Nodes!Wanted(m)'] = 0
        BY <1>4, <1>6, <1>8, <1>11, <3>1, <3>2, <3>4 DEF Shared
      <3>6. \A m \in Nodes!Node : node'[m].at = "reading" => m = prop.leader
        BY <1>11, <3>1, <3>2 DEF Shared
      <3> QED
        BY <1>4, <1>11, <3>1, <3>3, <3>5, <3>6 DEF Shared
    <2> QED
      BY <1>4, <2>1, <2>2 DEF Shared
  <1> QED
    BY <1>4, <1>10, <1>11 DEF NodesInv

(* A record of a node that only moves on: neither what it read nor what it *)
(* fetched changes.                                                        *)
Move(r, at, vote) == [r EXCEPT !.at = at, !.vote = vote]

LEMMA MoveFacts ==
    ASSUME NodesTypes, NEW n \in Nodes!Node, NEW at \in {"idle", "reading", "done"},
           NEW vote \in {"none", "timeout", "disagree", "violation", "agree"}
    PROVE  LET r == Move(node[n], at, vote) IN
           /\ r \in NodeSet /\ r.at = at /\ r.vote = vote /\ r.own = node[n].own
           /\ r.got = node[n].got /\ r.fetched = node[n].fetched /\ InProgram(r)
  <1>1. node[n] \in NodeSet
    BY NodeTypes
  <1> DEFINE r == Move(node[n], at, vote)
  <1>2. r \in NodeSet /\ r.at = at /\ r.vote = vote /\ r.own = node[n].own
        /\ r.got = node[n].got /\ r.fetched = node[n].fetched
    BY <1>1 DEF NodeSet, Move
  <1> HIDE DEF r
  <1>3. InProgram(r)
    BY <1>2 DEF NodesTypes, InProgram
  <1> QED
    BY <1>2, <1>3 DEF r

LEMMA StoreLateOk ==
    ASSUME GoodConstants, NodesInv, NEW t \in threads, Nodes!StoreLate(t)
    PROVE  NodesInv'
  <1>1. NodesTypes /\ t.of \in Nodes!Contract /\ t.state \in Nat
    BY DEF NodesInv, NodesTypes, ThreadSet
  <1>2. db' = db /\ node' = node /\ prop' = prop /\ cache' = [cache EXCEPT ![t.of] = t.state]
        /\ threads' \subseteq threads
    BY DEF Nodes!StoreLate
  <1>3. cache' \in [Nodes!Contract -> Nat]
    BY <1>1, <1>2 DEF NodesTypes
  <1>4. NodesTypes'
    BY <1>1, <1>2, <1>3 DEF NodesTypes, InProgram
  <1>5. ASSUME Shared, NoViolation PROVE Shared' /\ NoViolation'
    <2>1. prop.at \notin {"proposing", "committing"}
      BY <1>5 DEF Shared
    <2> QED
      BY <1>2, <1>5, <2>1 DEF Shared, NoViolation
  <1> QED
    BY <1>2, <1>4, <1>5 DEF NodesInv

LEMMA CommitOk ==
    ASSUME GoodConstants, NodesInv, NEW c \in Nodes!Contract, Nodes!Commit(c)
    PROVE  NodesInv'
  <1>1. NodesTypes
    BY DEF NodesInv
  <1>2. cache' = cache /\ node' = node /\ threads' = threads /\ prop' = prop
        /\ db' = [db EXCEPT ![c] = @ + 1]
    BY DEF Nodes!Commit
  <1>3. db' \in [Nodes!Contract -> Nat \ {0}]
    BY <1>1, <1>2 DEF NodesTypes
  <1>4. NodesTypes'
    BY <1>1, <1>2, <1>3 DEF NodesTypes, InProgram
  <1>5. ASSUME Shared, NoViolation PROVE Shared' /\ NoViolation'
    BY <1>2, <1>5 DEF Shared, FromCache, ReceiptInCache, NoViolation, Nodes!Wanted
  <1> QED
    BY <1>2, <1>4, <1>5 DEF NodesInv

LEMMA RetryOk ==
    ASSUME GoodConstants, NodesInv, NEW n \in Nodes!Node, Nodes!Retry(n)
    PROVE  NodesInv'
  <1> DEFINE none == <<>>
  <1> DEFINE r == [node[n] EXCEPT !.got = none, !.fetched = 0, !.retried = TRUE]
  <1>1. NodesTypes /\ node \in [Nodes!Node -> NodeSet] /\ node[n] \in NodeSet
    BY NodeTypes DEF NodesInv, NodesTypes
  <1>2. db' = db /\ cache' = cache /\ prop' = prop /\ prop.cut /\ threads' = Nodes!Left(n)
        /\ node' = [node EXCEPT ![n].got = <<>>, ![n].fetched = 0, ![n].retried = TRUE]
    BY DEF Nodes!Retry
  <1>3. node' = [node EXCEPT ![n] = r]
    BY <1>1, <1>2 
  <1>4. none \in Seq(Nat) /\ Len(none) = 0
    OBVIOUS
  <1> HIDE DEF none
  <1>5. r \in NodeSet /\ r.got = none /\ r.fetched = 0
    BY <1>1, <1>4 DEF NodeSet
  <1> HIDE DEF r
  <1>6. InProgram(r)
    BY <1>5, <1>4 DEF InProgram, GoodConstants
  <1>7. NodesTypes'
    BY <1>1, <1>2, <1>3, <1>5, <1>6, LeftTypes, TypesOfNode DEF NodesTypes
  <1> QED
    BY <1>2, <1>7 DEF NodesInv

----------------------------------------------------------------------------
(* The rounds.                                                             *)

LEMMA PropFacts ==
    ASSUME prop \in PropSet
    PROVE  /\ prop.leader \in Nodes!Node /\ prop.pool \in Seq(Nodes!Node)
           /\ prop.receipt \in ReceiptSet
           /\ prop.attempt \in Nat
  BY DEF PropSet

LEMMA StartOk ==
    ASSUME GoodConstants, NodesInv, NEW n \in Nodes!Node, node[n].at = "idle",
           prop.at = "proposing" => n = prop.leader,
           node' = [node EXCEPT ![n].at = "reading"],
           db' = db, cache' = cache, threads' = threads, prop' = prop
    PROVE  NodesInv'
  <1> DEFINE r == Move(node[n], "reading", node[n].vote)
  <1>1. NodesTypes /\ node \in [Nodes!Node -> NodeSet] /\ node[n] \in NodeSet
        /\ node[n].vote \in {"none", "timeout", "disagree", "violation", "agree"}
    BY NodeTypes DEF NodesInv, NodesTypes, NodeSet
  <1>2. node' = [node EXCEPT ![n] = r]
    BY <1>1 DEF NodeSet, Move
  <1>3. /\ r \in NodeSet /\ r.at = "reading" /\ r.vote = node[n].vote /\ r.own = node[n].own
        /\ r.got = node[n].got /\ r.fetched = node[n].fetched /\ InProgram(r)
    BY <1>1, MoveFacts
  <1> HIDE DEF r
  <1>4. NodesTypes'
    BY <1>1, <1>2, <1>3, TypesOfNode DEF NodesTypes
  <1>5. ASSUME Shared, NoViolation PROVE Shared' /\ NoViolation'
    <2>1. r.vote # "violation"
      BY <1>3, <1>5 DEF NoViolation
    <2>2. NoViolation'
      BY <1>1, <1>2, <1>3, <1>5, <2>1, VotesOfNode
    <2>3. CASE prop.at \in {"proposing", "committing"}
      <3>1. r.fetched = 0
        BY <1>3, <1>5, <2>3 DEF Shared
      <3>2. CacheGrows /\ FromCache(r, cache')
        BY <1>3, <1>5, <2>3 DEF Shared, CacheGrows, FromCache
      <3>3. Shared'
        BY <1>1, <1>2, <1>3, <1>5, <3>1, <3>2, SharedOfNode
      <3> QED
        BY <2>2, <3>3
    <2>4. CASE prop.at \notin {"proposing", "committing"}
      BY <2>2, <2>4 DEF Shared
    <2> QED
      BY <2>3, <2>4
  <1> QED
    BY <1>4, <1>5 DEF NodesInv

LEMMA StartLeaderOk == ASSUME GoodConstants, NodesInv, Nodes!StartLeader PROVE NodesInv'
  <1>1. prop.leader \in Nodes!Node
    BY PropFacts DEF NodesInv, NodesTypes
  <1> QED
    BY <1>1, StartOk DEF Nodes!StartLeader

LEMMA StartValidatorOk ==
    ASSUME GoodConstants, NodesInv, NEW n \in Nodes!Node, Nodes!StartValidator(n)
    PROVE  NodesInv'
  BY StartOk DEF Nodes!StartValidator

(* The leader's receipt is what the cache holds.                           *)
LEMMA LeaderDoneOk == ASSUME GoodConstants, NodesInv, Nodes!LeaderDone PROVE NodesInv'
  <1> DEFINE n == prop.leader
  <1> DEFINE rec == Nodes!ReceiptOf(n)
  <1>1. NodesTypes /\ prop \in PropSet /\ n \in Nodes!Node /\ node[n].got \in Seq(Nat)
    BY PropFacts, NodeTypes DEF NodesInv, NodesTypes
  <1>2. db' = db /\ cache' = cache /\ threads' = threads
                 /\ node' = [node EXCEPT ![n] = Nodes!NewNode]
        /\ prop' = [prop EXCEPT !.at = Nodes!AfterProposal(rec), !.receipt = rec]
        /\ prop.at = "proposing" /\ Len(node[n].got) = Len(Program)
    BY DEF Nodes!LeaderDone, Nodes!Executed
  <1>3. rec \in ReceiptSet /\ rec.kind = "return" /\ rec.state = node[n].got
    BY <1>1 DEF Nodes!ReceiptOf, ReceiptSet
  <1>4. Nodes!AfterProposal(rec) \in {"accepted", "committing"}
    BY <1>3 DEF Nodes!AfterProposal
  <1> DEFINE next == Nodes!AfterProposal(rec)
  <1> HIDE DEF next, n, rec
  <1>5. prop' \in PropSet /\ prop'.at \in {"accepted", "committing"} /\ prop'.receipt = rec
    <2>1. prop' = [prop EXCEPT !.at = next, !.receipt = rec] /\ next \in {"accepted", "committing"}
      BY <1>2, <1>4 DEF next
    <2> QED
      BY <1>1, <1>3, <2>1 DEF PropSet
  <1>6. prop'.cut = prop.cut
    BY <1>1, <1>2 DEF PropSet
  <1>7. InProgram(Nodes!NewNode)
    BY NewNodeFacts DEF InProgram, GoodConstants
  <1>8. NodesTypes'
    BY <1>1, <1>2, <1>5, <1>7, NewNodeFacts, TypesOfNode DEF NodesTypes
  <1>9. ASSUME Shared, NoViolation PROVE Shared' /\ NoViolation'
    <2>1. NoViolation'
      BY <1>1, <1>2, <1>9, NewNodeFacts, VotesOfNode
    <2>2. \A m \in Nodes!Node : node'[m] = IF m = n THEN Nodes!NewNode ELSE node[m]
      BY <1>1, <1>2, NewNodeFacts, NodeUpdate
    <2>3. FromCache(Nodes!NewNode, cache)
      BY NewNodeFacts DEF FromCache
    <2>4. \A m \in Nodes!Node : FromCache(node'[m], cache')
      BY <1>2, <1>9, <2>2, <2>3 DEF Shared
    <2>5. \A m \in Nodes!Node : node'[m].fetched = 0
      BY <1>2, <1>9, <2>2, NewNodeFacts DEF Shared, n
    <2>6. ReceiptInCache'
      BY <1>1, <1>2, <1>3, <1>5, <1>9 DEF Shared, FromCache, ReceiptInCache
    <2> QED
      BY <1>2, <1>5, <1>9, <2>1, <2>4, <2>5, <2>6 DEF Shared
  <1> QED
    BY <1>6, <1>8, <1>9 DEF NodesInv

LEMMA LeaderTimesOutOk == ASSUME GoodConstants, NodesInv, Nodes!LeaderTimesOut PROVE NodesInv'
  <1> DEFINE n == prop.leader
  <1> DEFINE r == Move(node[n], "done", node[n].vote)
  <1>1. NodesTypes /\ prop \in PropSet /\ n \in Nodes!Node /\ node \in [Nodes!Node -> NodeSet]
                   /\ node[n] \in NodeSet
        /\ node[n].vote \in {"none", "timeout", "disagree", "violation", "agree"}
    BY PropFacts, NodeTypes DEF NodesInv, NodesTypes, NodeSet
  <1>2. db' = db /\ cache' = cache /\ threads' = Nodes!Left(n)
                 /\ node' = [node EXCEPT ![n].at = "done"]
        /\ prop' = [prop EXCEPT !.at = "leader_timeout", !.receipt = Nodes!Timeout]
    BY DEF Nodes!LeaderTimesOut, Nodes!AfterProposal, Nodes!Timeout
  <1>3. Nodes!Timeout \in ReceiptSet
    BY DEF Nodes!Timeout, ReceiptSet
  <1>4. prop' \in PropSet /\ prop'.at = "leader_timeout" /\ prop'.cut = prop.cut
    BY <1>1, <1>2, <1>3 DEF PropSet
  <1>5. node' = [node EXCEPT ![n] = r]
    BY <1>1, <1>2 DEF NodeSet, Move
  <1>6. /\ r \in NodeSet /\ r.vote = node[n].vote /\ InProgram(r)
    BY <1>1, MoveFacts
  <1> HIDE DEF r, n
  <1>7. NodesTypes'
    BY <1>1, <1>2, <1>4, <1>5, <1>6, LeftTypes, TypesOfNode DEF NodesTypes
  <1>8. ASSUME Shared, NoViolation PROVE Shared' /\ NoViolation'
    <2>1. NoViolation'
      <3>1. r.vote # "violation"
        BY <1>1, <1>6, <1>8 DEF NoViolation
      <3> QED
        BY <1>1, <1>5, <1>6, <1>8, <3>1, VotesOfNode
    <2> QED
      BY <1>4, <2>1 DEF Shared
  <1> QED
    BY <1>4, <1>7, <1>8 DEF NodesInv

(* A leader that is replaced has no read under way.                        *)
LEMMA LeaderFailsOk ==
    ASSUME GoodConstants, NodesInv, NEW fatal \in BOOLEAN, Nodes!LeaderFails(fatal)
    PROVE  NodesInv'
  <1> DEFINE n == prop.leader
  <1> DEFINE r == Move(node[n], "done", node[n].vote)
  <1>1. NodesTypes /\ prop \in PropSet /\ n \in Nodes!Node /\ node \in [Nodes!Node -> NodeSet]
                   /\ node[n] \in NodeSet
        /\ node[n].vote \in {"none", "timeout", "disagree", "violation", "agree"}
    BY PropFacts, NodeTypes DEF NodesInv, NodesTypes, NodeSet
  <1>2. db' = db /\ cache' = cache /\ threads' = threads /\ node' = [node EXCEPT ![n].at = "done"]
        /\ prop.at = "proposing" /\ node[n].fetched = 0
    BY DEF Nodes!LeaderFails
  <1>3. \/ prop' = [prop EXCEPT !.at = "raised"]
        \/ /\ prop.pool # <<>>
           /\ prop' = [prop EXCEPT !.leader = Head(prop.pool), !.pool = Tail(prop.pool), !.attempt = @ + 1]
    BY DEF Nodes!LeaderFails
  <1>4. prop' \in PropSet /\ prop'.at \in {"raised", "proposing"} /\ prop'.cut = prop.cut
    <2>1. CASE prop' = [prop EXCEPT !.at = "raised"]
      BY <1>1, <2>1 DEF PropSet
    <2>2. CASE /\ prop.pool # <<>>
               /\ prop' = [prop EXCEPT !.leader = Head(prop.pool), !.pool = Tail(prop.pool), !.attempt = @ + 1]
      <3> DEFINE h == Head(prop.pool)
      <3> DEFINE t == Tail(prop.pool)
      <3> DEFINE a == prop.attempt + 1
      <3>1. h \in Nodes!Node /\ t \in Seq(Nodes!Node) /\ a \in Nat
        BY <1>1, <2>2, PropFacts
      <3>2. prop' = [prop EXCEPT !.leader = h, !.pool = t, !.attempt = a]
        BY <2>2
      <3> HIDE DEF h, t, a
      <3> QED
        BY <1>1, <1>2, <3>1, <3>2 DEF PropSet
    <2> QED
      BY <1>3, <2>1, <2>2
  <1>5. node' = [node EXCEPT ![n] = r]
    BY <1>1, <1>2 DEF NodeSet, Move
  <1>6. /\ r \in NodeSet /\ r.at = "done" /\ r.vote = node[n].vote /\ r.own = node[n].own
        /\ r.got = node[n].got /\ r.fetched = node[n].fetched /\ InProgram(r)
    BY <1>1, MoveFacts
  <1> HIDE DEF r
  <1>7. NodesTypes'
    BY <1>1, <1>2, <1>4, <1>5, <1>6, TypesOfNode DEF NodesTypes
  <1>8. ASSUME Shared, NoViolation PROVE Shared' /\ NoViolation'
    <2>1. NoViolation'
      <3>1. r.vote # "violation"
        BY <1>1, <1>6, <1>8 DEF NoViolation
      <3> QED
        BY <1>1, <1>5, <1>6, <1>8, <3>1, VotesOfNode
    <2>2. \A m \in Nodes!Node : node'[m] = IF m = n THEN r ELSE node[m]
      BY <1>1, <1>5, <1>6, NodeUpdate
    <2>3. \A m \in Nodes!Node : FromCache(node'[m], cache')
      BY <1>1, <1>2, <1>6, <1>8, <2>2 DEF Shared, FromCache
    <2>4. \A m \in Nodes!Node : node'[m].fetched = 0 /\ node'[m].at # "reading"
      BY <1>2, <1>6, <1>8, <2>2 DEF Shared
    <2> QED
      BY <1>2, <1>4, <1>8, <2>1, <2>3, <2>4 DEF Shared
  <1> QED
    BY <1>4, <1>7, <1>8 DEF NodesInv

(* The votes.                                                              *)
LEMMA VoteOk ==
    ASSUME GoodConstants, NodesInv, NEW n \in Nodes!Node, prop.at = "committing",
           NEW vote \in {"none", "timeout", "disagree", "violation", "agree"},
           node' = [node EXCEPT ![n].at = "done", ![n].vote = vote],
           Shared => vote # "violation",
           db' = db, cache' = cache, prop' = prop, threads' \subseteq ThreadSet,
           Shared => threads' = threads
    PROVE  NodesInv'
  <1> DEFINE r == Move(node[n], "done", vote)
  <1>1. NodesTypes /\ node \in [Nodes!Node -> NodeSet] /\ node[n] \in NodeSet
    BY NodeTypes DEF NodesInv, NodesTypes
  <1>2. node' = [node EXCEPT ![n] = r]
    BY <1>1 DEF Move
  <1>3. /\ r \in NodeSet /\ r.at = "done" /\ r.vote = vote /\ r.own = node[n].own
        /\ r.got = node[n].got /\ r.fetched = node[n].fetched /\ InProgram(r)
    BY <1>1, MoveFacts
  <1> HIDE DEF r
  <1>4. NodesTypes'
    BY <1>1, <1>2, <1>3, TypesOfNode DEF NodesTypes
  <1>5. ASSUME Shared, NoViolation PROVE Shared' /\ NoViolation'
    <2>1. NoViolation'
      BY <1>1, <1>2, <1>3, <1>5, VotesOfNode
    <2>2. r.fetched = 0 /\ CacheGrows /\ FromCache(r, cache') /\ threads' = threads
      BY <1>3, <1>5 DEF Shared, CacheGrows, FromCache
    <2>3. Shared'
      BY <1>1, <1>2, <1>3, <1>5, <2>2, SharedOfNode
    <2> QED
      BY <2>1, <2>3
  <1> QED
    BY <1>4, <1>5 DEF NodesInv

LEMMA ValidatorDoneOk ==
    ASSUME GoodConstants, NodesInv, NEW n \in Nodes!Node, Nodes!ValidatorDone(n)
    PROVE  NodesInv'
  <1>1. PICK disagree \in BOOLEAN :
            node' = [node EXCEPT ![n].at = "done",
                                 ![n].vote = Nodes!SetVote(Nodes!ReceiptOf(n), prop.receipt, disagree)]
    BY DEF Nodes!ValidatorDone, Nodes!Votes
  <1> DEFINE vote == Nodes!SetVote(Nodes!ReceiptOf(n), prop.receipt, disagree)
  <1>2. vote \in {"none", "timeout", "disagree", "violation", "agree"}
    BY DEF Nodes!SetVote
  <1>3. NodesTypes /\ node[n].got \in Seq(Nat) /\ prop.receipt.state \in Seq(Nat)
    BY NodeTypes, PropFacts DEF NodesInv, NodesTypes, ReceiptSet
  <1>4. ASSUME Shared PROVE vote # "violation"
    <2>1. Len(node[n].got) = Len(Program) /\ FromCache(node[n], cache) /\ ReceiptInCache
      BY <1>4 DEF Nodes!ValidatorDone, Nodes!Executed, Shared
    <2>2. Len(prop.receipt.state) = Len(node[n].got) /\ prop.receipt.kind = "return"
          /\ \A i \in 1..Len(node[n].got) : node[n].got[i] = prop.receipt.state[i]
      BY <2>1 DEF FromCache, ReceiptInCache
    <2>3. node[n].got = prop.receipt.state
      BY <1>3, <2>2, SeqEqual
    <2> QED
      BY <2>2, <2>3 DEF Nodes!SetVote, Nodes!ReceiptOf
  <1>5. db' = db /\ cache' = cache /\ prop' = prop /\ threads' = threads /\ prop.at = "committing"
    BY DEF Nodes!ValidatorDone
  <1> HIDE DEF vote
  <1> QED
    BY <1>1, <1>2, <1>3, <1>4, <1>5, VoteOk DEF vote, NodesTypes

LEMMA ValidatorCutOk ==
    ASSUME GoodConstants, NodesInv, NEW n \in Nodes!Node, Nodes!ValidatorCut(n)
    PROVE  NodesInv'
  <1>1. PICK disagree \in BOOLEAN :
            node' = [node EXCEPT ![n].at = "done",
                                 ![n].vote = Nodes!SetVote(Nodes!Timeout, prop.receipt, disagree)]
    BY DEF Nodes!ValidatorCut, Nodes!Votes
  <1>2. Nodes!SetVote(Nodes!Timeout, prop.receipt, disagree) = "timeout"
    BY DEF Nodes!SetVote, Nodes!Timeout
  <1>3. db' = db /\ cache' = cache /\ prop' = prop /\ threads' = Nodes!Left(n)
                 /\ prop.at = "committing"
    BY DEF Nodes!ValidatorCut
  <1>4. Nodes!Left(n) \subseteq ThreadSet
    BY LeftTypes DEF NodesInv
  <1>5. Shared => Nodes!Left(n) = threads
    BY <1>3 DEF Shared, Nodes!Left
  <1>6. node' = [node EXCEPT ![n].at = "done", ![n].vote = "timeout"]
    BY <1>1, <1>2
  <1> QED
    BY <1>3, <1>4, <1>5, <1>6, VoteOk

----------------------------------------------------------------------------
LEMMA NodesStep == ASSUME GoodConstants, NodesInv, Nodes!Next \/ UNCHANGED nodeVars PROVE NodesInv'
  <1>1. ASSUME NEW n \in Nodes!Node,
               Nodes!ReadCached(n) \/ Nodes!Fetch(n) \/ Nodes!Store(n) \/ Nodes!Retry(n)
               \/ Nodes!StartValidator(n) \/ Nodes!ValidatorDone(n) \/ Nodes!ValidatorCut(n)
        PROVE  NodesInv'
    BY <1>1, ReadCachedOk, FetchOk, StoreOk, RetryOk, StartValidatorOk, ValidatorDoneOk,
       ValidatorCutOk
  <1>2. ASSUME NEW t \in threads, Nodes!StoreLate(t) PROVE NodesInv'
    BY <1>2, StoreLateOk
  <1>3. ASSUME NEW c \in Nodes!Contract, Nodes!Commit(c) PROVE NodesInv'
    BY <1>3, CommitOk
  <1>4. CASE Nodes!StartLeader \/ Nodes!LeaderDone \/ Nodes!LeaderTimesOut
    BY <1>4, StartLeaderOk, LeaderDoneOk, LeaderTimesOutOk
  <1>5. ASSUME NEW fatal \in BOOLEAN, Nodes!LeaderFails(fatal) PROVE NodesInv'
    BY <1>5, LeaderFailsOk
  <1>6. CASE UNCHANGED nodeVars
    BY <1>6
    DEF nodeVars, NodesInv, NodesTypes, InProgram, Shared, FromCache, ReceiptInCache,
        NoViolation, Nodes!Wanted
  <1> QED
    BY <1>1, <1>2, <1>3, <1>4, <1>5, <1>6 DEF Nodes!Next

(* However many validators and contracts there are, whatever other workers *)
(* commit, whoever leads and whichever node runs out of its slot: without  *)
(* retries no validator accuses its leader of a violation.                 *)
THEOREM NoFalseAccusation == Spec => []NoFalseViolation
  <1> DEFINE I == part = "nodes" => NodesInv
  <1>0. GoodConstants
    BY ServicesAssumption DEF GoodConstants
  <1>1. Init => I
    BY <1>0, NodesInit DEF Init
  <1>2. I /\ [Next]_vars => I'
    <2> SUFFICES ASSUME I, [Next]_vars, part' = "nodes" PROVE NodesInv'
      OBVIOUS
    <2>1. part = "nodes" /\ (Nodes!Next \/ UNCHANGED nodeVars)
      BY DEF Next, vars
    <2> QED
      BY <1>0, <2>1, NodesStep
  <1>3. I => NoFalseViolation
    BY DEF NodesInv, NoViolation, NoFalseViolation, Nodes!NoFalseViolation
  <1> HIDE DEF I
  <1> QED
    BY <1>1, <1>2, <1>3, PTL DEF Spec

----------------------------------------------------------------------------
(* Validators managers: once the events are through, the validators of the *)
(* registry are in use.                                                    *)

RpcHasManager == Rpc \in Managers

SnapSet == [of : {"registry", "call", "nobody"}, at : Nat \cup Sims]
JobSet == [kind : {"write", "event", "capture", "virtual", "restore"}, snap : SnapSet,
           call : Sims \cup {0}]
ManagerSet ==
    [cache : SnapSet, llm : SnapSet, before : SnapSet, stopped : BOOLEAN, line : Seq(JobSet),
     listening : BOOLEAN, inbox : Nat, hearing : BOOLEAN, excused : BOOLEAN]
CallSet ==
    [at : {"new", "capture", "virtual", "running", "restore", "ended"}, kept : SnapSet,
     alone : BOOLEAN]
ManagerTypes ==
    /\ registry \in Nat /\ writes \in Nat
    /\ mgr \in [Managers -> ManagerSet] /\ sim \in [Sims -> CallSet]

(* What waits for the lock: restarts, with what was in the registry when   *)
(* they joined, in the order of the changes; and the steps of the calls.   *)
Restarting(job) == job.kind \in Manager!Restarts
Asked(line) == \E i \in 1..Len(line) : Restarting(line[i])
Newest(line, version) ==
    \E i \in 1..Len(line) : Restarting(line[i]) /\ line[i].snap = Manager!Of(version)
InOrder(line, version) ==
    \A i \in 1..Len(line) : Restarting(line[i]) =>
        /\ line[i].snap = Manager!Of(line[i].snap.at)
        /\ line[i].snap.at \in Nat /\ line[i].snap.at <= version
        /\ \A k \in i..Len(line) : Restarting(line[k]) => line[i].snap.at <= line[k].snap.at
CallsWait(line, calling) ==
    \A i \in 1..Len(line) : ~Restarting(line[i]) =>
        /\ line[i].call \in Sims /\ calling[line[i].call].at = line[i].kind
        /\ line[i].kind = "restore" => line[i].snap = calling[line[i].call].kept
        /\ \A k \in 1..Len(line) : ~Restarting(line[k]) /\ line[k].call = line[i].call => k = i

(* The inductive invariant.  A manager that is not excused has seen every  *)
(* change, has an event to read, or has the last restart in its line or    *)
(* behind it; and a call that is alone puts back what was in the registry. *)
UpToDate(r, version, called) ==
    /\ Asked(r.line) => Newest(r.line, version)
    /\ ~Asked(r.line) => called \/ (r.cache = Manager!Of(version) /\ r.llm = Manager!Of(version))
Told(m) == writes = 0 /\ ~mgr[m].excused /\ (m # Rpc => mgr[m].inbox = 0)
ManagerInv ==
    /\ ManagerTypes
    /\ \A m \in Managers :
        /\ InOrder(mgr[m].line, registry)
        /\ m # Rpc => \A i \in 1..Len(mgr[m].line) : Restarting(mgr[m].line[i])
        /\ Told(m) => UpToDate(mgr[m], registry, m = Rpc /\ Manager!Captured # {})
    /\ CallsWait(mgr[Rpc].line, sim)
    /\ Asked(mgr[Rpc].line) => \A s \in Manager!Captured : ~sim[s].alone
    /\ Told(Rpc) /\ ~Asked(mgr[Rpc].line) =>
        \A s \in Manager!Captured : sim[s].alone => sim[s].kept = Manager!Of(registry)

LEMMA OfFacts ==
    ASSUME NEW v, NEW w
    PROVE  Manager!Of(v).at = v /\ (Manager!Of(v) = Manager!Of(w) => v = w)
  BY DEF Manager!Of

(* A job joins the line.                                                   *)
LEMMA JoinFacts ==
    ASSUME NEW line \in Seq(JobSet), NEW job \in JobSet, NEW v \in Nat, InOrder(line, v),
           Restarting(job) => job.snap = Manager!Of(v)
    PROVE  LET l == Append(line, job) IN
           /\ l \in Seq(JobSet) /\ Len(l) = Len(line) + 1
           /\ \A i \in 1..Len(line) : l[i] = line[i]
           /\ l[Len(line) + 1] = job
           /\ InOrder(l, v)
           /\ Asked(l) <=> (Asked(line) \/ Restarting(job))
           /\ Restarting(job) \/ Newest(line, v) => Newest(l, v)
  <1> DEFINE l == Append(line, job)
  <1>1. l \in Seq(JobSet) /\ Len(l) = Len(line) + 1 /\ Len(line) \in Nat
        /\ \A i \in 1..Len(line) : l[i] = line[i]
    OBVIOUS
  <1>2. l[Len(line) + 1] = job
    OBVIOUS
  <1> HIDE DEF l
  <1>3. \A i \in 1..Len(l) : i \in 1..Len(line) \/ i = Len(line) + 1
    BY <1>1
  <1>4. Restarting(job) => job.snap.at = v
    BY OfFacts
  <1>5. InOrder(l, v)
    <2> SUFFICES ASSUME NEW i \in 1..Len(l), Restarting(l[i])
                 PROVE  /\ l[i].snap = Manager!Of(l[i].snap.at)
                        /\ l[i].snap.at \in Nat /\ l[i].snap.at <= v
                        /\ \A k \in i..Len(l) : Restarting(l[k]) => l[i].snap.at <= l[k].snap.at
      BY DEF InOrder
    <2>1. CASE i = Len(line) + 1
      <3>1. \A k \in i..Len(l) : k = i
        BY <1>1, <2>1
      <3> QED
        BY <1>2, <1>4, <2>1, <3>1
    <2>2. CASE i \in 1..Len(line)
      <3>1. /\ l[i].snap = Manager!Of(l[i].snap.at)
            /\ l[i].snap.at \in Nat /\ l[i].snap.at <= v
            /\ \A k \in i..Len(line) : Restarting(line[k]) => l[i].snap.at <= line[k].snap.at
        BY <1>1, <2>2 DEF InOrder
      <3>2. ASSUME NEW k \in i..Len(l), Restarting(l[k]) PROVE l[i].snap.at <= l[k].snap.at
        <4>1. k \in 1..Len(l) /\ (k \in 1..Len(line) => k \in i..Len(line))
          BY <1>1, <2>2
        <4> QED
          BY <1>1, <1>2, <1>3, <1>4, <3>1, <3>2, <4>1
      <3> QED
        BY <3>1, <3>2
    <2> QED
      BY <1>3, <2>1, <2>2
  <1>6. Asked(l) <=> (Asked(line) \/ Restarting(job))
    <2>1. Len(line) + 1 \in 1..Len(l) /\ \A i \in 1..Len(line) : i \in 1..Len(l)
      BY <1>1
    <2> QED
      BY <1>1, <1>2, <1>3, <2>1 DEF Asked
  <1>7. Restarting(job) \/ Newest(line, v) => Newest(l, v)
    <2>1. Len(line) + 1 \in 1..Len(l) /\ \A i \in 1..Len(line) : i \in 1..Len(l)
      BY <1>1
    <2> QED
      BY <1>1, <1>2, <2>1 DEF Newest
  <1> QED
    BY <1>1, <1>2, <1>5, <1>6, <1>7 DEF l

(* The first job of the line leaves it.                                    *)
LEMMA LeaveFacts ==
    ASSUME NEW line \in Seq(JobSet), line # <<>>, NEW v \in Nat, InOrder(line, v)
    PROVE  LET l == Tail(line) IN
           /\ Head(line) \in JobSet /\ l \in Seq(JobSet) /\ Head(line) = line[1]
           /\ \A i \in 1..Len(l) : i + 1 \in 1..Len(line) /\ l[i] = line[i + 1]
           /\ InOrder(l, v)
           /\ Asked(line) <=> (Asked(l) \/ Restarting(Head(line)))
           /\ Newest(line, v) =>
                Newest(l, v) \/ (Restarting(Head(line)) /\ Head(line).snap = Manager!Of(v))
           /\ Restarting(Head(line)) /\ Head(line).snap = Manager!Of(v) /\ Asked(l) => Newest(l, v)
  <1> DEFINE l == Tail(line)
  <1>1. /\ l \in Seq(JobSet) /\ Len(line) = Len(l) + 1 /\ Len(l) \in Nat /\ Head(line) = line[1]
        /\ \A i \in 1..Len(l) : l[i] = line[i + 1]
    OBVIOUS
  <1>2. Head(line) \in JobSet
    OBVIOUS
  <1> HIDE DEF l
  <1>3. \A i \in 1..Len(l) : i + 1 \in 1..Len(line)
    BY <1>1
  <1>4. \A i \in 1..Len(line) : i = 1 \/ (i - 1 \in 1..Len(l) /\ (i - 1) + 1 = i)
    BY <1>1
  <1>5. \A i \in 1..Len(line) : i = 1 \/ \E k \in 1..Len(l) : l[k] = line[i]
    BY <1>1, <1>4
  <1>6. InOrder(l, v)
    <2> SUFFICES ASSUME NEW i \in 1..Len(l), Restarting(l[i])
                 PROVE  /\ l[i].snap = Manager!Of(l[i].snap.at)
                        /\ l[i].snap.at \in Nat /\ l[i].snap.at <= v
                        /\ \A k \in i..Len(l) : Restarting(l[k]) => l[i].snap.at <= l[k].snap.at
      BY DEF InOrder
    <2>1. /\ l[i].snap = Manager!Of(l[i].snap.at)
          /\ l[i].snap.at \in Nat /\ l[i].snap.at <= v
          /\ \A k \in i + 1..Len(line) : Restarting(line[k]) => l[i].snap.at <= line[k].snap.at
      BY <1>1, <1>3 DEF InOrder
    <2>2. \A k \in i..Len(l) : k \in 1..Len(l) /\ k + 1 \in i + 1..Len(line)
      BY <1>1
    <2> QED
      BY <1>1, <2>1, <2>2
  <1>7. 1 \in 1..Len(line)
    BY <1>1
  <1>8. Asked(line) <=> (Asked(l) \/ Restarting(Head(line)))
    BY <1>1, <1>3, <1>5, <1>7 DEF Asked
  <1>9. Newest(line, v) =>
                Newest(l, v) \/ (Restarting(Head(line)) /\ Head(line).snap = Manager!Of(v))
    BY <1>1, <1>5 DEF Newest
  <1>10. ASSUME Restarting(Head(line)), Head(line).snap = Manager!Of(v), Asked(l) PROVE Newest(l, v)
    <2>1. PICK k \in 1..Len(l) : Restarting(l[k])
      BY <1>10 DEF Asked
    <2>2. k + 1 \in 1..Len(line) /\ line[k + 1] = l[k] /\ k + 1 \in 1..Len(line)
      BY <1>1, <1>3
    <2>3. line[1].snap.at = v
      BY <1>1, <1>10, OfFacts
    <2>4. v <= l[k].snap.at
      BY <1>1, <1>7, <1>10, <2>1, <2>2, <2>3 DEF InOrder
    <2>5. l[k].snap.at \in Nat /\ l[k].snap.at <= v /\ l[k].snap = Manager!Of(l[k].snap.at)
      BY <1>6, <2>1 DEF InOrder
    <2>6. l[k].snap = Manager!Of(v)
      <3>1. l[k].snap.at = v
        BY <2>4, <2>5
      <3> QED
        BY <2>5, <3>1
    <2> QED
      BY <2>1, <2>6 DEF Newest
  <1> QED
    BY <1>1, <1>2, <1>3, <1>6, <1>8, <1>9, <1>10 DEF l

----------------------------------------------------------------------------
LEMMA ManagerFields ==
    ASSUME NEW r \in ManagerSet
    PROVE  /\ r.cache \in SnapSet /\ r.llm \in SnapSet /\ r.before \in SnapSet
           /\ r.line \in Seq(JobSet) /\ r.inbox \in Nat
           /\ r.stopped \in BOOLEAN /\ r.listening \in BOOLEAN /\ r.hearing \in BOOLEAN
           /\ r.excused \in BOOLEAN
  BY DEF ManagerSet

LEMMA SnapFacts ==
    /\ Manager!Nothing \in SnapSet /\ \A v \in Nat : Manager!Of(v) \in SnapSet
    /\ \A s \in Sims : Manager!Virtual(s) \in SnapSet
  BY DEF SnapSet, Manager!Nothing, Manager!Of, Manager!Virtual

LEMMA NoJobs == ASSUME NEW v PROVE ~Asked(<<>>) /\ InOrder(<<>>, v) /\ CallsWait(<<>>, sim)
  BY DEF Asked, InOrder, CallsWait

LEMMA ManagerInit == ASSUME RpcHasManager, Manager!Init PROVE ManagerInv
  <1> DEFINE new == Manager!NewManager
  <1>1. new \in ManagerSet /\ new.line = <<>> /\ new.cache = Manager!Of(0) /\ new.llm = Manager!Of(0)
    BY SnapFacts DEF Manager!NewManager, ManagerSet
  <1>2. registry = 0 /\ writes = 0 /\ mgr = [m \in Managers |-> new]
        /\ sim = [s \in Sims |-> [at |-> "new", kept |-> Manager!Nothing, alone |-> FALSE]]
    BY DEF Manager!Init
  <1> HIDE DEF new
  <1>3. \A m \in Managers : mgr[m] = new
    BY <1>2
  <1>4. sim \in [Sims -> CallSet] /\ Manager!Captured = {}
    BY <1>2, SnapFacts DEF CallSet, Manager!Captured
  <1>5. ManagerTypes
    BY <1>1, <1>2, <1>4 DEF ManagerTypes
  <1>6. ASSUME NEW m \in Managers
        PROVE  /\ InOrder(mgr[m].line, registry) /\ Len(mgr[m].line) = 0
               /\ UpToDate(mgr[m], registry, m = Rpc /\ Manager!Captured # {})
    BY <1>1, <1>2, <1>3, NoJobs DEF UpToDate
  <1>7. mgr[Rpc].line = <<>>
    BY <1>1, <1>3 DEF RpcHasManager
  <1> QED
    BY <1>4, <1>5, <1>6, <1>7, NoJobs DEF ManagerInv

(* A step of one manager.                                                  *)
CallsFine(line, calling, told, version) ==
    LET captured == {s \in Sims : calling[s].at \in {"virtual", "running", "restore"}} IN
    /\ CallsWait(line, calling)
    /\ Asked(line) => \A s \in captured : ~calling[s].alone
    /\ told /\ ~Asked(line) =>
        \A s \in captured : calling[s].alone => calling[s].kept = Manager!Of(version)
Silent(m, r) == writes = 0 /\ ~r.excused /\ (m # Rpc => r.inbox = 0)

LEMMA CallsOk ==
    ASSUME ManagerInv
    PROVE  CallsFine(mgr[Rpc].line, sim, Silent(Rpc, mgr[Rpc]), registry)
  BY DEF ManagerInv, CallsFine, Silent, Told, Manager!Captured

LEMMA ManagerStep ==
    ASSUME RpcHasManager, ManagerInv, NEW m \in Managers, NEW r \in ManagerSet,
           mgr' = [mgr EXCEPT ![m] = r], registry' = registry, writes' = writes,
           sim' \in [Sims -> CallSet],
           InOrder(r.line, registry),
           m # Rpc => sim' = sim /\ \A i \in 1..Len(r.line) : Restarting(r.line[i]),
           Silent(m, r) => UpToDate(r, registry, m = Rpc /\ Manager!Captured' # {}),
           m = Rpc => CallsFine(r.line, sim', Silent(m, r), registry)
    PROVE  ManagerInv'
  <1>1. ManagerTypes /\ \A p \in Managers : mgr'[p] = IF p = m THEN r ELSE mgr[p]
    BY DEF ManagerInv, ManagerTypes
  <1>2. ManagerTypes'
    BY <1>1 DEF ManagerTypes
  <1>3. ASSUME NEW p \in Managers, p # m
        PROVE  /\ InOrder(mgr'[p].line, registry')
               /\ p # Rpc => \A i \in 1..Len(mgr'[p].line) : Restarting(mgr'[p].line[i])
               /\ Told(p)' => UpToDate(mgr'[p], registry', p = Rpc /\ Manager!Captured' # {})
    <2>1. mgr'[p] = mgr[p]
      BY <1>1, <1>3
    <2>2. Told(p)' => Told(p)
      BY <2>1 DEF Told
    <2>3. p = Rpc => Manager!Captured' = Manager!Captured
      BY <1>3 DEF Manager!Captured
    <2> QED
      BY <2>1, <2>2, <2>3 DEF ManagerInv
  <1>4. /\ InOrder(mgr'[m].line, registry')
        /\ m # Rpc => \A i \in 1..Len(mgr'[m].line) : Restarting(mgr'[m].line[i])
        /\ Told(m)' => UpToDate(mgr'[m], registry', m = Rpc /\ Manager!Captured' # {})
    BY <1>1 DEF Told, Silent
  <1>5. CallsFine(mgr'[Rpc].line, sim', Told(Rpc)', registry')
    <2>1. CASE m = Rpc
      BY <1>1, <2>1 DEF Silent, Told
    <2>2. CASE m # Rpc
      <3>1. mgr'[Rpc] = mgr[Rpc] /\ sim' = sim
        BY <1>1, <2>2 DEF RpcHasManager
      <3>2. Told(Rpc)' = Silent(Rpc, mgr[Rpc])
        BY <3>1 DEF Told, Silent
      <3> QED
        BY <3>1, <3>2, CallsOk
    <2> QED
      BY <2>1, <2>2
  <1> QED
    BY <1>2, <1>3, <1>4, <1>5 DEF ManagerInv, CallsFine, Manager!Captured

----------------------------------------------------------------------------
(* The registry changes: what joined the lines is as old as it was.        *)
LEMMA ManagerCommitOk == ASSUME RpcHasManager, ManagerInv, Manager!Commit PROVE ManagerInv'
  <1>1. ManagerTypes /\ registry' = registry + 1 /\ writes' = writes + 1 /\ mgr' = mgr /\ sim' = sim
    BY DEF ManagerInv, Manager!Commit
  <1>2. registry \in Nat /\ writes \in Nat /\ registry' \in Nat /\ writes' \in Nat /\ writes' # 0
        /\ registry <= registry'
    BY <1>1 DEF ManagerTypes
  <1>3. \A m \in Managers : ~Told(m)'
    BY <1>2 DEF Told
  <1>4. ASSUME NEW m \in Managers PROVE InOrder(mgr'[m].line, registry')
    <2>1. InOrder(mgr[m].line, registry)
      BY DEF ManagerInv
    <2> QED
      BY <1>1, <1>2, <2>1 DEF InOrder
  <1>5. ManagerTypes'
    BY <1>1, <1>2 DEF ManagerTypes
  <1> QED
    BY <1>1, <1>3, <1>4, <1>5 DEF ManagerInv, RpcHasManager, Manager!Captured

(* The restart of a manager for what is in the registry now.               *)
LEMMA RestartFacts ==
    ASSUME registry \in Nat, NEW r \in ManagerSet, InOrder(r.line, registry),
           NEW kind \in Manager!Restarts
    PROVE  LET q == Manager!Restart(r, kind)
               job == Manager!Job(kind, Manager!Of(registry), 0)
           IN
           /\ q \in ManagerSet /\ q = [r EXCEPT !.line = Append(@, job)]
           /\ q.line = Append(r.line, job) /\ job \in JobSet /\ Restarting(job)
           /\ job.snap = Manager!Of(registry)
           /\ q.cache = r.cache /\ q.llm = r.llm /\ q.inbox = r.inbox /\ q.excused = r.excused
           /\ InOrder(q.line, registry) /\ Asked(q.line) /\ Newest(q.line, registry)
           /\ \A i \in 1..Len(q.line) : (i \in 1..Len(r.line) /\ q.line[i] = r.line[i]) \/ q.line[i] = job
  <1> DEFINE job == Manager!Job(kind, Manager!Of(registry), 0)
  <1> DEFINE l == Append(r.line, job)
  <1> DEFINE q == Manager!Restart(r, kind)
  <1>1. job \in JobSet /\ Restarting(job) /\ job.snap = Manager!Of(registry)
    BY SnapFacts DEF Manager!Job, JobSet, Restarting, Manager!Restarts
  <1>2. q = [r EXCEPT !.line = l]
    BY DEF Manager!Restart, Manager!Joined
  <1>3. r.line \in Seq(JobSet)
    BY ManagerFields
  <1> HIDE DEF job, q
  <1>4. /\ l \in Seq(JobSet) /\ InOrder(l, registry) /\ Asked(l) /\ Newest(l, registry)
        /\ Len(l) = Len(r.line) + 1 /\ \A i \in 1..Len(r.line) : l[i] = r.line[i]
        /\ l[Len(r.line) + 1] = job
    BY <1>1, <1>3, JoinFacts
  <1>5. \A i \in 1..Len(l) : (i \in 1..Len(r.line) /\ l[i] = r.line[i]) \/ l[i] = job
    BY <1>3, <1>4
  <1> HIDE DEF l
  <1>6. q \in ManagerSet /\ q.line = l /\ q.cache = r.cache /\ q.llm = r.llm /\ q.inbox = r.inbox
        /\ q.excused = r.excused
    BY <1>2, <1>4 DEF ManagerSet
  <1> QED
    BY <1>1, <1>2, <1>4, <1>5, <1>6 DEF job, q, l

(* The calls whose jobs wait see the restart go by.                        *)
LEMMA DisturbedFacts ==
    ASSUME sim \in [Sims -> CallSet]
    PROVE  /\ Manager!Disturbed \in [Sims -> CallSet]
           /\ \A s \in Sims : /\ Manager!Disturbed[s].at = sim[s].at
                              /\ Manager!Disturbed[s].kept = sim[s].kept
                              /\ s \in Manager!Captured => ~Manager!Disturbed[s].alone
           /\ sim' = Manager!Disturbed => Manager!Captured' = Manager!Captured
  <1>1. ASSUME NEW s \in Sims
        PROVE  LET b == sim[s].alone /\ s \notin Manager!Captured IN
               /\ Manager!Disturbed[s] = [sim[s] EXCEPT !.alone = b]
               /\ b \in BOOLEAN
               /\ s \in Manager!Captured => ~b
    BY DEF Manager!Disturbed
  <1>2. ASSUME NEW c \in CallSet, NEW b \in BOOLEAN
        PROVE  LET d == [c EXCEPT !.alone = b] IN
               d \in CallSet /\ d.at = c.at /\ d.kept = c.kept /\ d.alone = b
    BY DEF CallSet
  <1>3. ASSUME NEW s \in Sims
        PROVE  /\ Manager!Disturbed[s] \in CallSet
               /\ Manager!Disturbed[s].at = sim[s].at
               /\ Manager!Disturbed[s].kept = sim[s].kept
               /\ s \in Manager!Captured => ~Manager!Disturbed[s].alone
    <2>1. PICK b \in BOOLEAN : /\ Manager!Disturbed[s] = [sim[s] EXCEPT !.alone = b]
                               /\ s \in Manager!Captured => ~b
      BY <1>1
    <2> QED
      BY <1>2, <2>1
  <1>4. Manager!Disturbed \in [Sims -> CallSet]
    BY <1>3 DEF Manager!Disturbed
  <1>5. sim' = Manager!Disturbed => Manager!Captured' = Manager!Captured
    BY <1>3 DEF Manager!Captured
  <1> QED
    BY <1>3, <1>4, <1>5

LEMMA RestartIsFine ==
    ASSUME sim \in [Sims -> CallSet], NEW line \in Seq(JobSet), NEW job \in JobSet, Restarting(job),
           CallsWait(line, sim), NEW told, NEW v
    PROVE  CallsFine(Append(line, job), Manager!Disturbed, told, v)
  <1> DEFINE l == Append(line, job)
  <1> DEFINE calling == Manager!Disturbed
  <1>1. /\ Len(line) \in Nat /\ Len(l) = Len(line) + 1 /\ \A i \in 1..Len(line) : l[i] = line[i]
        /\ l[Len(line) + 1] = job
    OBVIOUS
  <1>2. \A s \in Sims : /\ calling[s].at = sim[s].at /\ calling[s].kept = sim[s].kept
                        /\ sim[s].at \in {"virtual", "running", "restore"} => ~calling[s].alone
    BY DisturbedFacts DEF Manager!Captured
  <1> HIDE DEF l, calling
  <1>3. \A i \in 1..Len(l) : ~Restarting(l[i]) => i \in 1..Len(line)
    BY <1>1
  <1>4. CallsWait(l, calling)
    BY <1>1, <1>2, <1>3 DEF CallsWait
  <1>5. Asked(l)
    <2>1. Len(line) + 1 \in 1..Len(l)
      BY <1>1
    <2> QED
      BY <1>1, <2>1 DEF Asked
  <1> QED
    BY <1>2, <1>4, <1>5 DEF CallsFine, l, calling

(* Of an event a manager has something to read, or it is excused.          *)
LEMMA HeardFacts ==
    ASSUME NEW r \in ManagerSet, NEW delivered \in BOOLEAN
    PROVE  LET q == Manager!Heard(r, delivered) IN
           q \in ManagerSet /\ q.line = r.line /\ (q.excused \/ q.inbox # 0)
  <1> DEFINE n == r.inbox + 1
  <1>1. n \in Nat /\ n # 0
    BY ManagerFields
  <1>2. CASE delivered /\ r.listening
    <2>1. Manager!Heard(r, delivered) = [r EXCEPT !.inbox = n]
      BY <1>2 DEF Manager!Heard
    <2> HIDE DEF n
    <2> QED
      BY <1>1, <2>1 DEF ManagerSet
  <1>3. CASE ~(delivered /\ r.listening)
    <2>1. Manager!Heard(r, delivered) = [r EXCEPT !.excused = TRUE]
      BY <1>3 DEF Manager!Heard
    <2> QED
      BY <2>1 DEF ManagerSet
  <1> QED
    BY <1>2, <1>3

LEMMA NotifyOk == ASSUME RpcHasManager, ManagerInv, Manager!Notify PROVE ManagerInv'
  <1>1. PICK delivered \in BOOLEAN :
            mgr' = [m \in Managers |->
                    IF m # Rpc THEN Manager!Heard(mgr[m], delivered)
                    ELSE Manager!Restart([mgr[m] EXCEPT !.inbox =
                            @ + (IF delivered /\ mgr[m].listening THEN 1 ELSE 0)], "write")]
    BY DEF Manager!Notify
  <1>2. /\ ManagerTypes /\ registry \in Nat /\ registry' = registry /\ writes' \in Nat
        /\ sim' = Manager!Disturbed
    <2>1. writes \in Nat /\ writes > 0 /\ writes' = writes - 1
      BY DEF Manager!Notify, ManagerInv, ManagerTypes
    <2> QED
      BY <2>1 DEF Manager!Notify, ManagerInv, ManagerTypes
  <1>3. \A m \in Managers : mgr[m] \in ManagerSet /\ InOrder(mgr[m].line, registry)
    BY <1>2 DEF ManagerInv, ManagerTypes
  <1>4. ASSUME NEW m \in Managers, m # Rpc
        PROVE  mgr'[m] \in ManagerSet /\ mgr'[m].line = mgr[m].line /\ ~Told(m)'
    <2>1. mgr'[m] = Manager!Heard(mgr[m], delivered)
      BY <1>1, <1>4
    <2> QED
      BY <1>3, <1>4, <2>1, HeardFacts DEF Told
  <1>5. PICK job \in JobSet :
            /\ Restarting(job) /\ mgr'[Rpc].line = Append(mgr[Rpc].line, job)
            /\ mgr'[Rpc] \in ManagerSet
            /\ InOrder(mgr'[Rpc].line, registry) /\ Asked(mgr'[Rpc].line)
            /\ Newest(mgr'[Rpc].line, registry)
    <2> DEFINE n == mgr[Rpc].inbox + (IF delivered /\ mgr[Rpc].listening THEN 1 ELSE 0)
    <2> DEFINE r == [mgr[Rpc] EXCEPT !.inbox = n]
    <2>1. mgr[Rpc] \in ManagerSet /\ InOrder(mgr[Rpc].line, registry)
      BY <1>3 DEF RpcHasManager
    <2>2. n \in Nat
      BY <2>1, ManagerFields
    <2>3. mgr'[Rpc] = Manager!Restart(r, "write")
      BY <1>1 DEF RpcHasManager
    <2> HIDE DEF n
    <2>4. r \in ManagerSet /\ r.line = mgr[Rpc].line
      BY <2>1, <2>2 DEF ManagerSet
    <2>5. "write" \in Manager!Restarts
      BY DEF Manager!Restarts
    <2> DEFINE new == Manager!Job("write", Manager!Of(registry), 0)
    <2> HIDE DEF r
    <2>6. InOrder(r.line, registry)
      BY <2>1, <2>4
    <2>7. LET q == Manager!Restart(r, "write") IN
          /\ q \in ManagerSet /\ q.line = Append(r.line, new) /\ new \in JobSet /\ Restarting(new)
          /\ InOrder(q.line, registry) /\ Asked(q.line) /\ Newest(q.line, registry)
      BY <1>2, <2>4, <2>5, <2>6, RestartFacts
    <2> HIDE DEF new
    <2> QED
      BY <2>3, <2>4, <2>7
  <1>6. /\ mgr[Rpc].line \in Seq(JobSet) /\ CallsWait(mgr[Rpc].line, sim)
        /\ sim \in [Sims -> CallSet] /\ sim' \in [Sims -> CallSet]
    BY <1>2, <1>3, ManagerFields, DisturbedFacts DEF ManagerInv, ManagerTypes, RpcHasManager
  <1>7. CallsFine(mgr'[Rpc].line, sim', Told(Rpc)', registry')
    BY <1>2, <1>5, <1>6, RestartIsFine
  <1>8. ManagerTypes'
    <2>1. \A m \in Managers : mgr'[m] \in ManagerSet
      BY <1>4, <1>5
    <2>2. mgr' \in [Managers -> ManagerSet]
      BY <1>1, <2>1
    <2> QED
      BY <1>2, <1>6, <2>2 DEF ManagerTypes
  <1>9. ASSUME NEW m \in Managers
        PROVE  /\ InOrder(mgr'[m].line, registry')
               /\ m # Rpc => \A i \in 1..Len(mgr'[m].line) : Restarting(mgr'[m].line[i])
               /\ Told(m)' => UpToDate(mgr'[m], registry', m = Rpc /\ Manager!Captured' # {})
    <2>1. CASE m = Rpc
      BY <1>2, <1>5, <2>1 DEF UpToDate
    <2>2. CASE m # Rpc
      BY <1>2, <1>3, <1>4, <2>2 DEF ManagerInv
    <2> QED
      BY <2>1, <2>2
  <1> QED
    BY <1>7, <1>8, <1>9 DEF ManagerInv, CallsFine, Manager!Captured

(* A manager that only listens, hears, or stops its module: its line stays.*)
LEMMA LineStays ==
    ASSUME RpcHasManager, ManagerInv, NEW m \in Managers, NEW r \in ManagerSet,
           mgr' = [mgr EXCEPT ![m] = r], UNCHANGED <<registry, writes, sim>>,
           r.line = mgr[m].line, Silent(m, r) => Told(m),
           (r.cache = mgr[m].cache /\ r.llm = mgr[m].llm)
              \/ Asked(r.line) \/ (m = Rpc /\ Manager!Captured # {})
    PROVE  ManagerInv'
  <1>1. sim' \in [Sims -> CallSet] /\ Manager!Captured' = Manager!Captured
    BY DEF ManagerInv, ManagerTypes, Manager!Captured
  <1>2. InOrder(r.line, registry)
        /\ (m # Rpc => \A i \in 1..Len(r.line) : Restarting(r.line[i]))
    BY DEF ManagerInv
  <1>3. Silent(m, r) => UpToDate(r, registry, m = Rpc /\ Manager!Captured' # {})
    <2> SUFFICES ASSUME Silent(m, r) PROVE UpToDate(r, registry, m = Rpc /\ Manager!Captured # {})
      BY <1>1
    <2>1. UpToDate(mgr[m], registry, m = Rpc /\ Manager!Captured # {})
      BY DEF ManagerInv
    <2> QED
      BY <2>1 DEF UpToDate
  <1>4. m = Rpc => CallsFine(r.line, sim', Silent(m, r), registry)
    <2> SUFFICES ASSUME m = Rpc PROVE CallsFine(r.line, sim', Silent(m, r), registry)
      OBVIOUS
    <2>1. CallsFine(mgr[Rpc].line, sim, Silent(Rpc, mgr[Rpc]), registry)
      BY CallsOk
    <2>2. Silent(m, r) => Silent(Rpc, mgr[Rpc])
      BY DEF Told, Silent
    <2> QED
      BY <2>1, <2>2 DEF CallsFine
  <1> QED
    BY <1>1, <1>2, <1>3, <1>4, ManagerStep

LEMMA SubscribeOk ==
    ASSUME RpcHasManager, ManagerInv, NEW m \in Managers, Manager!Subscribe(m)
    PROVE  ManagerInv'
  <1> DEFINE r == [mgr[m] EXCEPT !.listening = TRUE]
  <1>1. mgr[m] \in ManagerSet /\ mgr' = [mgr EXCEPT ![m] = r] /\ UNCHANGED <<registry, writes, sim>>
    BY DEF ManagerInv, ManagerTypes, Manager!Subscribe
  <1>2. r \in ManagerSet /\ r.line = mgr[m].line /\ r.cache = mgr[m].cache /\ r.llm = mgr[m].llm
        /\ r.excused = mgr[m].excused /\ r.inbox = mgr[m].inbox
    BY <1>1 DEF ManagerSet
  <1> HIDE DEF r
  <1>3. Silent(m, r) => Told(m)
    BY <1>2 DEF Silent, Told
  <1> QED
    BY <1>1, <1>2, <1>3, LineStays

(* What was not read yet is lost, and excuses.                             *)
LEMMA ConnectionFailsOk ==
    ASSUME RpcHasManager, ManagerInv, NEW m \in Managers, Manager!ConnectionFails(m)
    PROVE  ManagerInv'
  <1> DEFINE lost == mgr[m].excused \/ mgr[m].inbox > 0
  <1> DEFINE r == [mgr[m] EXCEPT !.listening = FALSE, !.inbox = 0, !.excused = lost]
  <1>1. mgr[m] \in ManagerSet /\ mgr' = [mgr EXCEPT ![m] = r] /\ UNCHANGED <<registry, writes, sim>>
    BY DEF ManagerInv, ManagerTypes, Manager!ConnectionFails
  <1>2. lost \in BOOLEAN /\ mgr[m].inbox \in Nat
    BY <1>1, ManagerFields
  <1>3. ~lost => ~mgr[m].excused /\ mgr[m].inbox = 0
    BY <1>2
  <1> HIDE DEF lost
  <1>4. r \in ManagerSet /\ r.line = mgr[m].line /\ r.cache = mgr[m].cache /\ r.llm = mgr[m].llm
        /\ r.excused = lost
    BY <1>1, <1>2 DEF ManagerSet
  <1> HIDE DEF r
  <1>5. Silent(m, r) => Told(m)
    BY <1>3, <1>4 DEF Silent, Told
  <1> QED
    BY <1>1, <1>4, <1>5, LineStays

(* The event that is read asks for a restart.                              *)
LEMMA HearOk ==
    ASSUME RpcHasManager, ManagerInv, NEW m \in Managers, Manager!Hear(m)
    PROVE  ManagerInv'
  <1> DEFINE n == mgr[m].inbox - 1
  <1> DEFINE p == [mgr[m] EXCEPT !.inbox = n, !.hearing = TRUE]
  <1> DEFINE r == Manager!Restart(p, "event")
  <1>0. mgr' = [mgr EXCEPT ![m] = r]
    BY DEF Manager!Hear
  <1> HIDE DEF r, p, n
  <1>1. /\ mgr[m] \in ManagerSet /\ registry' = registry
        /\ writes' = writes /\ registry \in Nat /\ mgr[m].inbox > 0 /\ sim \in [Sims -> CallSet]
        /\ sim' = IF m = Rpc THEN Manager!Disturbed ELSE sim
        /\ InOrder(mgr[m].line, registry)
    BY DEF ManagerInv, ManagerTypes, Manager!Hear, Manager!Disturb
  <1>2. n \in Nat
    BY <1>1, ManagerFields DEF n
  <1>3. p \in ManagerSet /\ p.line = mgr[m].line
    BY <1>1, <1>2 DEF ManagerSet, p
  <1>4. "event" \in Manager!Restarts
    BY DEF Manager!Restarts
  <1> DEFINE new == Manager!Job("event", Manager!Of(registry), 0)
  <1>10. InOrder(p.line, registry)
    BY <1>1, <1>3
  <1>11. /\ r \in ManagerSet /\ r.line = Append(p.line, new) /\ new \in JobSet /\ Restarting(new)
         /\ InOrder(r.line, registry) /\ Asked(r.line) /\ Newest(r.line, registry)
         /\ \A i \in 1..Len(r.line) :
              (i \in 1..Len(p.line) /\ r.line[i] = p.line[i]) \/ r.line[i] = new
    BY <1>1, <1>3, <1>4, <1>10, RestartFacts DEF r
  <1> HIDE DEF new
  <1>5. PICK job \in JobSet :
            /\ r \in ManagerSet /\ r.line = Append(mgr[m].line, job) /\ Restarting(job)
            /\ InOrder(r.line, registry) /\ Asked(r.line) /\ Newest(r.line, registry)
            /\ \A i \in 1..Len(r.line) :
                 (i \in 1..Len(mgr[m].line) /\ r.line[i] = mgr[m].line[i]) \/ r.line[i] = job
    BY <1>3, <1>11
  <1>6. sim' \in [Sims -> CallSet]
    BY <1>1, DisturbedFacts
  <1>7. m # Rpc => sim' = sim /\ \A i \in 1..Len(r.line) : Restarting(r.line[i])
    BY <1>1, <1>5 DEF ManagerInv
  <1>8. UpToDate(r, registry, m = Rpc /\ Manager!Captured' # {})
    BY <1>5 DEF UpToDate
  <1>9. m = Rpc => CallsFine(r.line, sim', Silent(m, r), registry)
    <2>1. mgr[m].line \in Seq(JobSet) /\ CallsWait(mgr[Rpc].line, sim)
      BY <1>1, ManagerFields DEF ManagerInv
    <2> QED
      BY <1>1, <1>5, <2>1, RestartIsFine
  <1> QED
    BY <1>0, <1>1, <1>5, <1>6, <1>7, <1>8, <1>9, ManagerStep

(* What stops its module has a job: a restart, or one of a call under way. *)
LEMMA CallAtHead ==
    ASSUME RpcHasManager, ManagerInv, NEW m \in Managers, mgr[m].line # <<>>
    PROVE  LET job == Head(mgr[m].line) IN
           /\ job \in JobSet /\ job = mgr[m].line[1] /\ 1 \in 1..Len(mgr[m].line)
           /\ ~Restarting(job) =>
                /\ m = Rpc /\ job.call \in Sims /\ sim[job.call].at = job.kind
                /\ job.kind \in {"capture", "virtual", "restore"}
                /\ job.kind = "restore" => job.snap = sim[job.call].kept
                /\ job.kind # "capture" => job.call \in Manager!Captured
  <1>1. mgr[m].line \in Seq(JobSet)
    BY ManagerFields DEF ManagerInv, ManagerTypes
  <1> DEFINE job == Head(mgr[m].line)
  <1>2. job \in JobSet /\ job = mgr[m].line[1] /\ 1 \in 1..Len(mgr[m].line)
    BY <1>1
  <1> HIDE DEF job
  <1>3. ASSUME ~Restarting(job)
        PROVE  /\ m = Rpc /\ job.call \in Sims /\ sim[job.call].at = job.kind
               /\ job.kind = "restore" => job.snap = sim[job.call].kept
    <2>1. m = Rpc
      BY <1>2, <1>3 DEF ManagerInv
    <2> QED
      BY <1>2, <1>3, <2>1 DEF ManagerInv, CallsWait
  <1>4. ~Restarting(job) => job.kind \in {"capture", "virtual", "restore"}
    BY <1>2 DEF JobSet, Restarting, Manager!Restarts
  <1> QED
    BY <1>2, <1>3, <1>4 DEF job, Manager!Captured

LEMMA StopOk ==
    ASSUME RpcHasManager, ManagerInv, NEW m \in Managers, Manager!Stop(m)
    PROVE  ManagerInv'
  <1> DEFINE old == mgr[m].cache
  <1> DEFINE r == [mgr[m] EXCEPT !.before = old, !.cache = Manager!Nothing,
                                 !.llm = Manager!Nothing, !.stopped = TRUE]
  <1>1. /\ mgr[m] \in ManagerSet /\ mgr' = [mgr EXCEPT ![m] = r]
        /\ UNCHANGED <<registry, writes, sim>>
        /\ mgr[m].line # <<>> /\ Head(mgr[m].line).kind # "capture"
    BY DEF ManagerInv, ManagerTypes, Manager!Stop, Manager!Changing
  <1>2. old \in SnapSet
    BY <1>1, ManagerFields
  <1> HIDE DEF old
  <1>3. r \in ManagerSet /\ r.line = mgr[m].line /\ r.excused = mgr[m].excused
                         /\ r.inbox = mgr[m].inbox
    BY <1>1, <1>2, SnapFacts DEF ManagerSet
  <1> HIDE DEF r
  <1>4. Silent(m, r) => Told(m)
    BY <1>3 DEF Silent, Told
  <1>5. Asked(r.line) \/ (m = Rpc /\ Manager!Captured # {})
    BY <1>1, <1>3, CallAtHead DEF Asked
  <1> QED
    BY <1>1, <1>3, <1>4, <1>5, LineStays

----------------------------------------------------------------------------
(* The calls.  One that steps has at most the job that it waits with.      *)

NoJobOf(line, s) == \A i \in 1..Len(line) : ~Restarting(line[i]) => line[i].call # s

LEMMA CallJoins ==
    ASSUME NEW line \in Seq(JobSet), NEW job \in JobSet, ~Restarting(job), NEW s \in Sims, job.call = s,
           NEW before \in [Sims -> CallSet], NEW after \in [Sims -> CallSet],
           \A p \in Sims : p # s => after[p] = before[p],
           after[s].at = job.kind, job.kind = "restore" => job.snap = after[s].kept,
           CallsWait(line, before), NoJobOf(line, s)
    PROVE  CallsWait(Append(line, job), after)
  <1> DEFINE l == Append(line, job)
  <1>1. /\ Len(line) \in Nat /\ Len(l) = Len(line) + 1 /\ \A i \in 1..Len(line) : l[i] = line[i]
        /\ l[Len(line) + 1] = job
    OBVIOUS
  <1> HIDE DEF l
  <1>2. \A i \in 1..Len(l) : i \in 1..Len(line) \/ i = Len(line) + 1
    BY <1>1
  <1>3. ASSUME NEW i \in 1..Len(l), ~Restarting(l[i])
        PROVE  /\ l[i].call \in Sims /\ after[l[i].call].at = l[i].kind
               /\ l[i].kind = "restore" => l[i].snap = after[l[i].call].kept
               /\ \A k \in 1..Len(l) : ~Restarting(l[k]) /\ l[k].call = l[i].call => k = i
    <2>1. CASE i = Len(line) + 1
      <3>1. \A k \in 1..Len(line) : ~Restarting(l[k]) => l[k].call # s
        BY <1>1 DEF NoJobOf
      <3> QED
        BY <1>1, <1>2, <2>1, <3>1
    <2>2. CASE i \in 1..Len(line)
      <3>1. l[i] = line[i] /\ l[i].call # s
        BY <1>1, <1>3, <2>2 DEF NoJobOf
      <3>2. /\ l[i].call \in Sims /\ before[l[i].call].at = l[i].kind
            /\ l[i].kind = "restore" => l[i].snap = before[l[i].call].kept
        BY <1>1, <1>3, <2>2 DEF CallsWait
      <3>3. \A k \in 1..Len(line) : ~Restarting(l[k]) /\ l[k].call = l[i].call => k = i
        BY <1>1, <1>3, <2>2 DEF CallsWait
      <3> QED
        BY <1>1, <1>2, <3>1, <3>2, <3>3
    <2> QED
      BY <1>2, <2>1, <2>2
  <1> QED
    BY <1>3 DEF CallsWait, l

LEMMA CallLeaves ==
    ASSUME NEW line \in Seq(JobSet), line # <<>>, NEW calling, CallsWait(line, calling)
    PROVE  /\ CallsWait(Tail(line), calling)
           /\ ~Restarting(Head(line)) => NoJobOf(Tail(line), Head(line).call)
  <1> DEFINE l == Tail(line)
  <1>1. /\ Len(line) = Len(l) + 1 /\ Len(l) \in Nat /\ Head(line) = line[1]
        /\ \A i \in 1..Len(l) : l[i] = line[i + 1]
    OBVIOUS
  <1> HIDE DEF l
  <1>2. 1 \in 1..Len(line) /\ \A i \in 1..Len(l) : i + 1 \in 1..Len(line) /\ i + 1 # 1
    BY <1>1
  <1>3. ASSUME NEW i \in 1..Len(l), ~Restarting(l[i])
        PROVE  /\ l[i].call \in Sims /\ calling[l[i].call].at = l[i].kind
               /\ l[i].kind = "restore" => l[i].snap = calling[l[i].call].kept
               /\ \A k \in 1..Len(l) : ~Restarting(l[k]) /\ l[k].call = l[i].call => k = i
    <2>1. i + 1 \in 1..Len(line) /\ l[i] = line[i + 1]
      BY <1>1, <1>2
    <2>2. \A k \in 1..Len(l) : ~Restarting(l[k]) /\ l[k].call = l[i].call => k + 1 = i + 1
      BY <1>1, <1>2, <1>3, <2>1 DEF CallsWait
    <2>3. \A k \in 1..Len(l) : k + 1 = i + 1 => k = i
      OBVIOUS
    <2> QED
      BY <1>3, <2>1, <2>2, <2>3 DEF CallsWait
  <1>4. ASSUME ~Restarting(Head(line)), NEW i \in 1..Len(l), ~Restarting(l[i])
        PROVE  l[i].call # Head(line).call
    BY <1>1, <1>2, <1>4 DEF CallsWait
  <1> QED
    BY <1>3, <1>4 DEF CallsWait, NoJobOf, l

LEMMA CallMovesOn ==
    ASSUME NEW line \in Seq(JobSet), NEW s \in Sims,
           NEW before \in [Sims -> CallSet], NEW after \in [Sims -> CallSet],
           \A p \in Sims : p # s => after[p].at = before[p].at /\ after[p].kept = before[p].kept,
           CallsWait(line, before), NoJobOf(line, s)
    PROVE  CallsWait(line, after)
  BY DEF CallsWait, NoJobOf

(* A call that joins: one that starts, or whose execution has ended.       *)
LEMMA CallWaits ==
    ASSUME RpcHasManager, ManagerInv, NEW s \in Sims, NEW job \in JobSet, ~Restarting(job),
           job.call = s, sim[s].at \in {"new", "running"},
           job.kind = "capture" <=> sim[s].at = "new",
           job.kind = "restore" => job.snap = sim[s].kept,
           job.kind \in {"capture", "restore"},
           sim' = [sim EXCEPT ![s].at = job.kind],
           mgr' = [mgr EXCEPT ![Rpc] = Manager!Joined(@, job)],
           UNCHANGED <<registry, writes>>
    PROVE  ManagerInv'
  <1> DEFINE line == mgr[Rpc].line
  <1> DEFINE l == Append(line, job)
  <1> DEFINE r == [mgr[Rpc] EXCEPT !.line = l]
  <1>1. mgr' = [mgr EXCEPT ![Rpc] = r]
    BY DEF Manager!Joined
  <1>2. /\ mgr[Rpc] \in ManagerSet /\ InOrder(line, registry) /\ registry \in Nat
        /\ sim \in [Sims -> CallSet] /\ CallsWait(line, sim) /\ Rpc \in Managers
    BY DEF ManagerInv, ManagerTypes, RpcHasManager
  <1>3. line \in Seq(JobSet)
    BY <1>2, ManagerFields
  <1>4. /\ l \in Seq(JobSet) /\ InOrder(l, registry) /\ (Asked(l) <=> Asked(line))
        /\ Newest(line, registry) => Newest(l, registry)
    BY <1>2, <1>3, JoinFacts
  <1>5. /\ sim' \in [Sims -> CallSet] /\ sim'[s].at = job.kind
        /\ \A p \in Sims : /\ p # s => sim'[p] = sim[p]
                           /\ sim'[p].kept = sim[p].kept /\ sim'[p].alone = sim[p].alone
    <2> DEFINE kind == job.kind
    <2> DEFINE c == [sim[s] EXCEPT !.at = kind]
    <2>1. sim[s] \in CallSet
      BY <1>2
    <2>2. kind \in {"capture", "restore"} /\ sim' = [sim EXCEPT ![s] = c]
      OBVIOUS
    <2> HIDE DEF kind
    <2>3. c \in CallSet /\ c.at = kind /\ c.kept = sim[s].kept /\ c.alone = sim[s].alone
      BY <2>1, <2>2 DEF CallSet
    <2> HIDE DEF c
    <2>4. sim' \in [Sims -> CallSet] /\ \A p \in Sims : sim'[p] = IF p = s THEN c ELSE sim[p]
      BY <1>2, <2>2, <2>3
    <2> QED
      BY <2>3, <2>4 DEF kind
  <1> HIDE DEF l, line
  <1>6. r \in ManagerSet /\ r.line = l /\ r.cache = mgr[Rpc].cache /\ r.llm = mgr[Rpc].llm
        /\ r.excused = mgr[Rpc].excused
    BY <1>2, <1>4 DEF ManagerSet
  <1> HIDE DEF r
  <1>7. NoJobOf(line, s)
    <2> SUFFICES ASSUME NEW i \in 1..Len(line), ~Restarting(line[i]), line[i].call = s PROVE FALSE
      BY DEF NoJobOf
    <2>1. line[i] \in JobSet
      BY <1>3
    <2>2. line[i].kind \in {"capture", "virtual", "restore"}
      BY <2>1 DEF JobSet, Restarting, Manager!Restarts
    <2> QED
      BY <1>2, <2>2 DEF CallsWait
  <1>8. CallsWait(l, sim')
    <2>1. /\ sim'[s].at = job.kind /\ (job.kind = "restore" => job.snap = sim'[s].kept)
          /\ \A p \in Sims : p # s => sim'[p] = sim[p]
      BY <1>5
    <2>2. sim \in [Sims -> CallSet] /\ sim' \in [Sims -> CallSet] /\ CallsWait(line, sim)
      BY <1>2, <1>5 DEF line
    <2> QED
      BY <1>3, <1>7, <2>1, <2>2, CallJoins, ZenonT(40) DEF l
  <1>9. Manager!Captured' = Manager!Captured
    BY <1>5 DEF Manager!Captured
  <1>10. Silent(Rpc, r) => Told(Rpc)
    BY <1>6 DEF Silent, Told
  <1>11. CallsFine(r.line, sim', Silent(Rpc, r), registry)
    <2>1. CallsFine(line, sim, Silent(Rpc, mgr[Rpc]), registry)
      BY CallsOk DEF line
    <2>2. Silent(Rpc, r) => Silent(Rpc, mgr[Rpc])
      BY <1>6 DEF Silent
    <2>3. \A p \in Sims : sim'[p].at \in {"virtual", "running", "restore"} =>
              sim[p].at \in {"virtual", "running", "restore"}
      BY <1>5
    <2> QED
      BY <1>4, <1>5, <1>6, <1>8, <2>1, <2>2, <2>3 DEF CallsFine
  <1>12. Silent(Rpc, r) => UpToDate(r, registry, Rpc = Rpc /\ Manager!Captured' # {})
    <2>1. Told(Rpc) => UpToDate(mgr[Rpc], registry, Rpc = Rpc /\ Manager!Captured # {})
      BY <1>2 DEF ManagerInv
    <2> QED
      BY <1>4, <1>6, <1>9, <1>10, <2>1 DEF UpToDate, line
  <1> QED
    BY <1>1, <1>2, <1>4, <1>5, <1>6, <1>11, <1>12, ManagerStep

LEMMA SimulateOk ==
    ASSUME RpcHasManager, ManagerInv, NEW s \in Sims, Manager!Simulate(s)
    PROVE  ManagerInv'
  <1> DEFINE job == Manager!Job("capture", Manager!Nothing, s)
  <1>1. job \in JobSet /\ ~Restarting(job) /\ job.call = s /\ job.kind = "capture"
    BY SnapFacts DEF Manager!Job, JobSet, Restarting, Manager!Restarts
  <1>2. /\ sim[s].at = "new" /\ sim' = [sim EXCEPT ![s].at = "capture"]
        /\ mgr' = [mgr EXCEPT ![Rpc] = Manager!Joined(@, job)] /\ UNCHANGED <<registry, writes>>
    BY DEF Manager!Simulate
  <1> HIDE DEF job
  <1> QED
    BY <1>1, <1>2, CallWaits

LEMMA CallEndsOk ==
    ASSUME RpcHasManager, ManagerInv, NEW s \in Sims, Manager!CallEnds(s)
    PROVE  ManagerInv'
  <1> DEFINE job == Manager!Job("restore", sim[s].kept, s)
  <1>1. sim[s].kept \in SnapSet
    BY DEF ManagerInv, ManagerTypes, CallSet
  <1>2. job \in JobSet /\ ~Restarting(job) /\ job.call = s /\ job.kind = "restore"
                       /\ job.snap = sim[s].kept
    BY <1>1 DEF Manager!Job, JobSet, Restarting, Manager!Restarts
  <1>3. /\ sim[s].at = "running" /\ sim' = [sim EXCEPT ![s].at = "restore"]
        /\ mgr' = [mgr EXCEPT ![Rpc] = Manager!Joined(@, job)] /\ UNCHANGED <<registry, writes>>
    BY DEF Manager!CallEnds
  <1> HIDE DEF job
  <1> QED
    BY <1>2, <1>3, CallWaits

(* A call takes what to put back: it is alone only when nothing waits.     *)
LEMMA CaptureOk ==
    ASSUME RpcHasManager, ManagerInv, NEW s \in Sims, Manager!Capture(s)
    PROVE  ManagerInv'
  <1> DEFINE line == mgr[Rpc].line
  <1> DEFINE job == Manager!Job("virtual", Manager!Virtual(s), s)
  <1> DEFINE l == Append(Tail(line), job)
  <1> DEFINE r == [mgr[Rpc] EXCEPT !.line = l]
  <1> DEFINE old == mgr[Rpc].cache
  <1> DEFINE quiet == Len(line) = 1 /\ Manager!Captured = {}
  <1> DEFINE c == [at |-> "virtual", kept |-> old, alone |-> quiet]
  <1>1. /\ line # <<>> /\ Head(line) = Manager!Job("capture", Manager!Nothing, s)
        /\ sim' = [Manager!Disturbed EXCEPT ![s] = c]
        /\ mgr' = [mgr EXCEPT ![Rpc] = r] /\ registry' = registry /\ writes' = writes
    BY DEF Manager!Capture
  <1>2. /\ mgr[Rpc] \in ManagerSet /\ InOrder(line, registry) /\ registry \in Nat
        /\ sim \in [Sims -> CallSet] /\ CallsWait(line, sim) /\ Rpc \in Managers
    BY DEF ManagerInv, ManagerTypes, RpcHasManager
  <1>3. line \in Seq(JobSet) /\ old \in SnapSet /\ quiet \in BOOLEAN
    BY <1>2, ManagerFields
  <1>4. job \in JobSet /\ ~Restarting(job) /\ job.call = s /\ job.kind = "virtual"
    BY SnapFacts DEF Manager!Job, JobSet, Restarting, Manager!Restarts
  <1>5. ~Restarting(Head(line)) /\ Head(line).call = s
    BY <1>1 DEF Manager!Job, Restarting, Manager!Restarts
  <1>6. c \in CallSet /\ c.at = "virtual" /\ c.kept = old /\ c.alone = quiet
    BY <1>3 DEF CallSet
  <1>7. quiet => ~Asked(line) /\ Tail(line) = <<>> /\ Manager!Captured = {}
    <2> SUFFICES ASSUME quiet PROVE ~Asked(line) /\ Tail(line) = <<>>
      OBVIOUS
    <2>1. Len(line) = 1 /\ Head(line) = line[1] /\ Tail(line) = <<>>
      <3> DEFINE rest == Tail(line)
      <3>1. Len(line) = 1 /\ line # <<>> /\ line \in Seq(JobSet)
        BY <1>1, <1>3
      <3>2. rest \in Seq(JobSet) /\ Len(rest) = 0
        BY <3>1
      <3> HIDE DEF rest
      <3>3. rest = <<>>
        BY <3>2, EmptySeq
      <3> QED
        BY <3>1, <3>3 DEF rest
    <2>2. \A i \in 1..Len(line) : line[i] = Head(line)
      BY <2>1
    <2> QED
      BY <1>5, <2>1, <2>2 DEF Asked
  <1> HIDE DEF quiet, old, c, job, line
  <1>8. /\ Tail(line) \in Seq(JobSet) /\ InOrder(Tail(line), registry)
        /\ (Asked(line) <=> Asked(Tail(line)))
        /\ (Newest(line, registry) => Newest(Tail(line), registry))
    BY <1>1, <1>2, <1>3, <1>5, LeaveFacts
  <1>9. CallsWait(Tail(line), sim) /\ NoJobOf(Tail(line), s)
    BY <1>1, <1>2, <1>3, <1>5, CallLeaves
  <1>10. /\ l \in Seq(JobSet) /\ InOrder(l, registry) /\ (Asked(l) <=> Asked(line))
         /\ (Newest(line, registry) => Newest(l, registry))
    BY <1>2, <1>4, <1>8, JoinFacts
  <1>11. /\ sim' \in [Sims -> CallSet] /\ sim'[s] = c
         /\ \A p \in Sims : p # s =>
              /\ sim'[p].at = sim[p].at /\ sim'[p].kept = sim[p].kept
              /\ p \in Manager!Captured => ~sim'[p].alone
    <2>1. Manager!Disturbed \in [Sims -> CallSet]
      BY <1>2, DisturbedFacts
    <2>2. sim' \in [Sims -> CallSet] /\ \A p \in Sims : sim'[p] = IF p = s THEN c ELSE Manager!Disturbed[p]
      BY <1>1, <1>6, <2>1
    <2> QED
      BY <1>2, <2>2, DisturbedFacts
  <1> HIDE DEF l
  <1>12. r \in ManagerSet /\ r.line = l /\ r.cache = mgr[Rpc].cache /\ r.llm = mgr[Rpc].llm
         /\ r.excused = mgr[Rpc].excused
    BY <1>2, <1>10 DEF ManagerSet
  <1> HIDE DEF r
  <1>13. CallsWait(l, sim')
    <2> DEFINE middle == [sim EXCEPT ![s] = c]
    <2>1. middle \in [Sims -> CallSet] /\ middle[s] = c /\ \A p \in Sims : p # s => middle[p] = sim[p]
      BY <1>2, <1>6
    <2> HIDE DEF middle
    <2>2. CallsWait(Tail(line), middle)
      <3>1. \A p \in Sims : p # s => middle[p].at = sim[p].at /\ middle[p].kept = sim[p].kept
        BY <2>1
      <3> QED
        BY <1>2, <1>8, <1>9, <2>1, <3>1, CallMovesOn, ZenonT(40)
    <2>3. CallsWait(Tail(line), sim')
      <3>1. \A p \in Sims : p # s => sim'[p].at = sim[p].at /\ sim'[p].kept = sim[p].kept
        BY <1>11
      <3> QED
        BY <1>2, <1>8, <1>9, <1>11, <3>1, CallMovesOn, ZenonT(40)
    <2>4. sim'[s].at = job.kind /\ job.kind # "restore"
      BY <1>4, <1>6, <1>11
    <2>5. \A p \in Sims : p # s => sim'[p] = sim'[p]
      OBVIOUS
    <2> QED
      BY <1>4, <1>8, <1>9, <1>11, <2>3, <2>4, <2>5, CallJoins, ZenonT(40) DEF l
  <1>14. s \in Manager!Captured' /\ \A p \in Manager!Captured' : p = s \/ p \in Manager!Captured
    BY <1>6, <1>11 DEF Manager!Captured
  <1>15. Silent(Rpc, r) => Told(Rpc)
    BY <1>12 DEF Silent, Told
  <1>16. UpToDate(r, registry, Rpc = Rpc /\ Manager!Captured' # {}) \/ ~Silent(Rpc, r)
    <2>1. Told(Rpc) => UpToDate(mgr[Rpc], registry, Rpc = Rpc /\ Manager!Captured # {})
      BY <1>2 DEF ManagerInv
    <2> QED
      BY <1>10, <1>12, <1>14, <1>15, <2>1 DEF UpToDate, line
  <1>17. CallsFine(r.line, sim', Silent(Rpc, r), registry)
    <2>1. Asked(l) => \A p \in Manager!Captured' : ~sim'[p].alone
      BY <1>6, <1>7, <1>10, <1>11, <1>14 DEF Manager!Captured
    <2>2. ASSUME Silent(Rpc, r), ~Asked(l), NEW p \in Manager!Captured', sim'[p].alone
          PROVE  sim'[p].kept = Manager!Of(registry)
      <3>1. p = s /\ quiet
        BY <1>6, <1>11, <1>14, <2>2 DEF Manager!Captured
      <3>2. UpToDate(mgr[Rpc], registry, Rpc = Rpc /\ Manager!Captured # {})
        BY <1>2, <1>15, <2>2 DEF ManagerInv
      <3>3. old = Manager!Of(registry)
        BY <1>7, <3>1, <3>2 DEF UpToDate, line, old
      <3> QED
        BY <1>6, <1>11, <3>1, <3>3
    <2> QED
      BY <1>12, <1>13, <2>1, <2>2 DEF CallsFine, Manager!Captured
  <1> QED
    BY <1>1, <1>2, <1>10, <1>11, <1>12, <1>16, <1>17, ManagerStep

(* The module starts: the first job of the line is done.                   *)
StartsWith(m, ok, r, excuse) ==
    LET job == Head(mgr[m].line) IN
    /\ r \in ManagerSet /\ r.line = Tail(mgr[m].line) /\ r.inbox = mgr[m].inbox
    /\ ok => r.cache = job.snap /\ r.llm = job.snap
    /\ ~r.excused =>
         /\ ok /\ ~excuse
         /\ ~mgr[m].excused \/ (Restarting(job) /\ job.snap = Manager!Of(registry))

LEMMA StartFacts ==
    ASSUME RpcHasManager, ManagerInv, NEW m \in Managers, NEW ok \in BOOLEAN, Manager!Start(m, ok)
    PROVE  LET job == Head(mgr[m].line) IN
           /\ mgr[m].line # <<>> /\ job.kind # "capture" /\ UNCHANGED <<registry, writes>>
           /\ sim' = Manager!CallAfter(job, ok)
           /\ \E r : /\ mgr' = [mgr EXCEPT ![m] = r]
                     /\ StartsWith(m, ok, r, job.kind = "restore" /\ ~sim[job.call].alone)
  <1> DEFINE job == Head(mgr[m].line)
  <1> DEFINE l == Tail(mgr[m].line)
  <1> DEFINE settled == job.kind \in Manager!Restarts /\ job.snap = Manager!Of(registry)
  <1> DEFINE astray == job.kind = "restore" /\ ~sim[job.call].alone
  <1> DEFINE hears == mgr[m].hearing /\ job.kind # "event"
  <1> DEFINE cache2 == IF ok THEN job.snap ELSE mgr[m].before
  <1> DEFINE llm2 == IF ok THEN job.snap ELSE Manager!Nothing
  <1> DEFINE excuse == (mgr[m].excused /\ ~settled) \/ ~ok \/ astray
  <1> DEFINE r == [mgr[m] EXCEPT !.stopped = FALSE, !.before = Manager!Nothing, !.line = l,
                                 !.hearing = hears, !.cache = cache2, !.llm = llm2,
                                 !.excused = excuse]
  <1>1. mgr[m] \in ManagerSet /\ mgr[m].line # <<>> /\ mgr[m].line \in Seq(JobSet)
        /\ job.kind # "capture"
    BY ManagerFields DEF ManagerInv, ManagerTypes, Manager!Start, Manager!Changing
  <1>2. mgr' = [mgr EXCEPT ![m] = r]
    BY DEF Manager!Start
  <1>3. sim' = Manager!CallAfter(job, ok) /\ UNCHANGED <<registry, writes>>
    BY DEF Manager!Start
  <1>4. l \in Seq(JobSet) /\ job \in JobSet
    BY <1>1
  <1>5. job.snap \in SnapSet /\ mgr[m].before \in SnapSet /\ Manager!Nothing \in SnapSet
    BY <1>1, <1>4, ManagerFields, SnapFacts DEF JobSet
  <1>6. hears \in BOOLEAN /\ cache2 \in SnapSet /\ llm2 \in SnapSet /\ excuse \in BOOLEAN
    BY <1>5
  <1>7. ok => cache2 = job.snap /\ llm2 = job.snap
    OBVIOUS
  <1>8. ~excuse => ok /\ ~astray /\ (~mgr[m].excused \/ (Restarting(job) /\ job.snap = Manager!Of(registry)))
    BY DEF Restarting
  <1> HIDE DEF excuse, hears, cache2, llm2, l, job, settled, astray
  <1>9. r \in ManagerSet /\ r.line = l /\ r.inbox = mgr[m].inbox /\ r.cache = cache2 /\ r.llm = llm2
        /\ r.excused = excuse
    BY <1>1, <1>4, <1>5, <1>6 DEF ManagerSet
  <1> HIDE DEF r
  <1>10. StartsWith(m, ok, r, astray)
    BY <1>7, <1>8, <1>9 DEF StartsWith, job, l
  <1> QED
    BY <1>1, <1>2, <1>3, <1>10 DEF job, astray

LEMMA RestartDone ==
    ASSUME RpcHasManager, ManagerInv, NEW m \in Managers, mgr[m].line # <<>>,
           Restarting(Head(mgr[m].line)), NEW ok \in BOOLEAN, NEW excuse,
           NEW r, StartsWith(m, ok, r, excuse), mgr' = [mgr EXCEPT ![m] = r],
           UNCHANGED <<registry, writes, sim>>
    PROVE  ManagerInv'
  <1> DEFINE line == mgr[m].line
  <1> DEFINE l == Tail(line)
  <1> DEFINE job == Head(line)
  <1>1. /\ r \in ManagerSet /\ r.line = l /\ r.inbox = mgr[m].inbox
        /\ (ok => r.cache = job.snap /\ r.llm = job.snap)
        /\ (~r.excused => ok /\ (~mgr[m].excused \/ job.snap = Manager!Of(registry)))
    BY DEF StartsWith
  <1>2. /\ mgr[m] \in ManagerSet /\ InOrder(line, registry) /\ registry \in Nat
        /\ sim' \in [Sims -> CallSet] /\ Manager!Captured' = Manager!Captured
        /\ (m # Rpc => \A i \in 1..Len(line) : Restarting(line[i]))
        /\ (m = Rpc => CallsWait(line, sim))
    BY DEF ManagerInv, ManagerTypes, Manager!Captured
  <1>3. line \in Seq(JobSet)
    BY <1>2, ManagerFields
  <1> HIDE DEF line
  <1>4. /\ l \in Seq(JobSet) /\ \A i \in 1..Len(l) : i + 1 \in 1..Len(line) /\ l[i] = line[i + 1]
        /\ InOrder(l, registry)
        /\ (Newest(line, registry) => Newest(l, registry) \/ job.snap = Manager!Of(registry))
        /\ (job.snap = Manager!Of(registry) /\ Asked(l) => Newest(l, registry))
        /\ Asked(line)
    BY <1>2, <1>3, LeaveFacts DEF line
  <1> HIDE DEF l, job
  <1>5. m # Rpc => \A i \in 1..Len(r.line) : Restarting(r.line[i])
    BY <1>1, <1>2, <1>4
  <1>6. ASSUME Silent(m, r) PROVE UpToDate(r, registry, m = Rpc /\ Manager!Captured' # {})
    <2>1. ok /\ (~mgr[m].excused \/ job.snap = Manager!Of(registry))
      BY <1>1, <1>6 DEF Silent
    <2>2. CASE job.snap = Manager!Of(registry)
      BY <1>1, <1>4, <2>1, <2>2 DEF UpToDate
    <2>3. CASE job.snap # Manager!Of(registry)
      <3>1. Told(m)
        BY <1>1, <1>6, <2>1, <2>3 DEF Told, Silent
      <3>2. Newest(line, registry)
        BY <1>4, <3>1 DEF ManagerInv, UpToDate, line
      <3>3. Newest(l, registry) /\ Asked(l)
        BY <1>4, <2>3, <3>2 DEF Newest, Asked
      <3> QED
        BY <1>1, <3>3 DEF UpToDate
    <2> QED
      BY <2>2, <2>3
  <1>7. ASSUME m = Rpc PROVE CallsFine(r.line, sim', Silent(m, r), registry)
    <2>1. \A s \in Manager!Captured : ~sim[s].alone
      BY <1>4, <1>7 DEF ManagerInv, line
    <2>2. CallsWait(l, sim)
      BY <1>2, <1>3, <1>7, CallLeaves DEF l, line
    <2> QED
      BY <1>1, <2>1, <2>2 DEF CallsFine, Manager!Captured
  <1> QED
    BY <1>1, <1>2, <1>4, <1>5, <1>6, <1>7, ManagerStep

(* A call gets its validators, or puts back what it kept: what that was is *)
(* what the registry has when the call was alone.                          *)
LEMMA CallStepDone ==
    ASSUME RpcHasManager, ManagerInv, mgr[Rpc].line # <<>>,
           ~Restarting(Head(mgr[Rpc].line)), Head(mgr[Rpc].line).kind # "capture",
           NEW ok \in BOOLEAN, NEW r,
           StartsWith(Rpc, ok, r, Head(mgr[Rpc].line).kind = "restore"
                                     /\ ~sim[Head(mgr[Rpc].line).call].alone),
           mgr' = [mgr EXCEPT ![Rpc] = r],
           sim' = Manager!CallAfter(Head(mgr[Rpc].line), ok), UNCHANGED <<registry, writes>>
    PROVE  ManagerInv'
  <1> DEFINE line == mgr[Rpc].line
  <1> DEFINE l == Tail(line)
  <1> DEFINE job == Head(line)
  <1> DEFINE s == job.call
  <1> DEFINE now2 == IF job.kind = "virtual" /\ ok THEN "running" ELSE "ended"
  <1>1. /\ r \in ManagerSet /\ r.line = l /\ r.inbox = mgr[Rpc].inbox
        /\ (ok => r.cache = job.snap /\ r.llm = job.snap)
        /\ (~r.excused => ok /\ ~mgr[Rpc].excused /\ (job.kind = "restore" => sim[s].alone))
    BY DEF StartsWith
  <1>2. /\ mgr[Rpc] \in ManagerSet /\ InOrder(line, registry) /\ registry \in Nat
        /\ sim \in [Sims -> CallSet] /\ CallsWait(line, sim) /\ Rpc \in Managers
    BY DEF ManagerInv, ManagerTypes, RpcHasManager
  <1>3. line \in Seq(JobSet)
    BY <1>2, ManagerFields
  <1>4. /\ job \in JobSet /\ s \in Sims /\ sim[s].at = job.kind
        /\ job.kind \in {"virtual", "restore"}
        /\ (job.kind = "restore" => job.snap = sim[s].kept) /\ s \in Manager!Captured
    BY <1>2, CallAtHead
  <1>5. sim' = [sim EXCEPT ![s].at = now2]
    BY DEF Manager!CallAfter, Restarting
  <1> HIDE DEF line
  <1>6. /\ l \in Seq(JobSet) /\ InOrder(l, registry) /\ (Asked(line) <=> Asked(l))
        /\ (Newest(line, registry) => Newest(l, registry))
    BY <1>2, <1>3, LeaveFacts DEF line
  <1>7. CallsWait(l, sim) /\ NoJobOf(l, s)
    BY <1>2, <1>3, CallLeaves DEF line
  <1>8. now2 \in {"running", "ended"} /\ (now2 = "ended" => ~ok \/ job.kind = "restore")
    BY <1>4
  <1> HIDE DEF now2, l, job, s
  <1>9. /\ sim' \in [Sims -> CallSet] /\ sim'[s].at = now2
        /\ \A p \in Sims : /\ (p # s => sim'[p] = sim[p])
                           /\ sim'[p].kept = sim[p].kept /\ sim'[p].alone = sim[p].alone
    <2> DEFINE c == [sim[s] EXCEPT !.at = now2]
    <2>1. sim[s] \in CallSet
      BY <1>2, <1>4
    <2>2. c \in CallSet /\ c.at = now2 /\ c.kept = sim[s].kept /\ c.alone = sim[s].alone
      BY <1>8, <2>1 DEF CallSet
    <2>3. sim' = [sim EXCEPT ![s] = c]
      BY <1>5
    <2> HIDE DEF c
    <2>4. sim' \in [Sims -> CallSet] /\ \A p \in Sims : sim'[p] = IF p = s THEN c ELSE sim[p]
      BY <1>2, <2>2, <2>3
    <2> QED
      BY <1>4, <2>2, <2>4
  <1>10. CallsWait(l, sim')
    <2>1. \A p \in Sims : p # s => sim'[p].at = sim[p].at /\ sim'[p].kept = sim[p].kept
      BY <1>9
    <2> QED
      BY <1>2, <1>4, <1>6, <1>7, <1>9, <2>1, CallMovesOn, ZenonT(40)
  <1>11. /\ \A p \in Manager!Captured' : p \in Manager!Captured
         /\ (now2 = "running" => Manager!Captured' # {})
    <2>1. s \in Manager!Captured
      BY <1>4
    <2>2. \A p \in Manager!Captured' : p \in Manager!Captured
      BY <1>4, <1>9, <2>1 DEF Manager!Captured
    <2>3. now2 = "running" => s \in Manager!Captured'
      BY <1>4, <1>9 DEF Manager!Captured
    <2> QED
      BY <2>2, <2>3
  <1>12. Silent(Rpc, r) => Told(Rpc)
    BY <1>1 DEF Silent, Told
  <1>13. CallsFine(line, sim, Told(Rpc), registry)
    BY CallsOk DEF line, Silent, Told
  <1>14. ASSUME Silent(Rpc, r) PROVE UpToDate(r, registry, Rpc = Rpc /\ Manager!Captured' # {})
    <2>1. UpToDate(mgr[Rpc], registry, Rpc = Rpc /\ Manager!Captured # {}) /\ Told(Rpc)
      BY <1>2, <1>12, <1>14 DEF ManagerInv
    <2>2. Asked(l) => Newest(l, registry)
      BY <1>6, <2>1 DEF UpToDate, line
    <2>3. ok /\ (job.kind = "restore" => sim[s].alone)
      BY <1>1, <1>14 DEF Silent
    <2>4. ASSUME ~Asked(l), now2 = "ended" PROVE r.cache = Manager!Of(registry) /\ r.llm = Manager!Of(registry)
      <3>1. job.kind = "restore" /\ sim[s].alone /\ job.snap = sim[s].kept
        BY <1>4, <1>8, <2>3, <2>4
      <3>2. sim[s].kept = Manager!Of(registry)
        BY <1>4, <1>6, <1>13, <2>1, <2>4, <3>1 DEF CallsFine, Manager!Captured
      <3> QED
        BY <1>1, <2>3, <3>1, <3>2
    <2> QED
      BY <1>1, <1>8, <1>11, <2>2, <2>4 DEF UpToDate
  <1>15. CallsFine(r.line, sim', Silent(Rpc, r), registry)
    BY <1>1, <1>6, <1>9, <1>10, <1>11, <1>12, <1>13 DEF CallsFine, Manager!Captured
  <1> QED
    BY <1>1, <1>2, <1>6, <1>9, <1>14, <1>15, ManagerStep

LEMMA StartOk2 ==
    ASSUME RpcHasManager, ManagerInv, NEW m \in Managers, NEW ok \in BOOLEAN, Manager!Start(m, ok)
    PROVE  ManagerInv'
  <1> DEFINE job == Head(mgr[m].line)
  <1>1. PICK r : /\ mgr' = [mgr EXCEPT ![m] = r]
                 /\ StartsWith(m, ok, r, job.kind = "restore" /\ ~sim[job.call].alone)
    BY StartFacts
  <1>2. mgr[m].line # <<>> /\ job.kind # "capture" /\ UNCHANGED <<registry, writes>>
        /\ sim' = Manager!CallAfter(job, ok)
    BY StartFacts
  <1>3. CASE Restarting(job)
    <2>1. sim' = sim
      BY <1>2, <1>3 DEF Manager!CallAfter, Restarting
    <2> QED
      BY <1>1, <1>2, <1>3, <2>1, RestartDone
  <1>4. CASE ~Restarting(job)
    <2>1. m = Rpc
      BY <1>2, <1>4, CallAtHead
    <2> QED
      BY <1>1, <1>2, <1>4, <2>1, CallStepDone
  <1> QED
    BY <1>3, <1>4

----------------------------------------------------------------------------
LEMMA ManagerStays == ASSUME RpcHasManager, ManagerInv, UNCHANGED managerVars PROVE ManagerInv'
  <1>1. UNCHANGED <<registry, writes, mgr, sim>>
    BY DEF managerVars
  <1>2. \A m \in Managers : Told(m)' = Told(m)
    BY <1>1 DEF Told
  <1>3. Manager!Captured' = Manager!Captured
    BY <1>1 DEF Manager!Captured
  <1>4. ManagerTypes'
    BY <1>1 DEF ManagerInv, ManagerTypes
  <1>5. ASSUME NEW m \in Managers
        PROVE  /\ InOrder(mgr'[m].line, registry')
               /\ m # Rpc => \A i \in 1..Len(mgr'[m].line) : Restarting(mgr'[m].line[i])
               /\ Told(m)' => UpToDate(mgr'[m], registry', m = Rpc /\ Manager!Captured' # {})
    BY <1>1, <1>2, <1>3 DEF ManagerInv
  <1>6. Told(Rpc)' = Told(Rpc)
    BY <1>2 DEF RpcHasManager
  <1> QED
    BY <1>1, <1>3, <1>4, <1>5, <1>6 DEF ManagerInv

LEMMA ManagerNext ==
    ASSUME RpcHasManager, ManagerInv, Manager!Next \/ UNCHANGED managerVars
    PROVE  ManagerInv'
  <1>1. CASE Manager!Commit \/ Manager!Notify
    BY <1>1, ManagerCommitOk, NotifyOk
  <1>2. ASSUME NEW m \in Managers,
               Manager!Subscribe(m) \/ Manager!ConnectionFails(m) \/ Manager!Hear(m) \/ Manager!Stop(m)
        PROVE  ManagerInv'
    BY <1>2, SubscribeOk, ConnectionFailsOk, HearOk, StopOk
  <1>3. ASSUME NEW m \in Managers, NEW ok \in BOOLEAN, Manager!Start(m, ok) PROVE ManagerInv'
    BY <1>3, StartOk2
  <1>4. ASSUME NEW s \in Sims, Manager!Simulate(s) \/ Manager!Capture(s) \/ Manager!CallEnds(s)
        PROVE  ManagerInv'
    BY <1>4, SimulateOk, CaptureOk, CallEndsOk
  <1> QED
    BY <1>1, <1>2, <1>3, <1>4, ManagerStays DEF Manager!Next

(* However many processes, changes and simulated calls there are and       *)
(* however they meet: a manager with nothing left to do that missed no     *)
(* event works with the validators of the registry.                        *)
THEOREM ValidatorsAreNew == Spec => []NewValidatorsUsed
  <1> DEFINE I == part = "manager" => ManagerInv
  <1>0. RpcHasManager
    BY ServicesAssumption DEF RpcHasManager
  <1>1. Init => I
    BY <1>0, ManagerInit DEF Init
  <1>2. I /\ [Next]_vars => I'
    <2> SUFFICES ASSUME I, [Next]_vars, part' = "manager" PROVE ManagerInv'
      OBVIOUS
    <2>1. part = "manager" /\ (Manager!Next \/ UNCHANGED managerVars)
      BY DEF Next, vars
    <2> QED
      BY <1>0, <2>1, ManagerNext
  <1>3. I => NewValidatorsUsed
    <2> SUFFICES ASSUME ManagerInv, NEW m \in Managers, Manager!Quiet(m), ~mgr[m].excused
                 PROVE  mgr[m].cache = Manager!Of(registry) /\ mgr[m].llm = Manager!Of(registry)
      BY DEF NewValidatorsUsed, Manager!NewValidatorsUsed
    <2>1. Told(m) /\ mgr[m].line = <<>> /\ (m = Rpc => Manager!Captured = {})
      BY DEF Manager!Quiet, Told
    <2>2. UpToDate(mgr[m], registry, m = Rpc /\ Manager!Captured # {})
      BY <2>1 DEF ManagerInv
    <2> QED
      BY <2>1, <2>2, NoJobs DEF UpToDate
  <1> HIDE DEF I
  <1> QED
    BY <1>1, <1>2, <1>3, PTL DEF Spec

----------------------------------------------------------------------------
(* Admission: what the windows of a rate limit let through.                *)

LimitsAreNumbers == Delay \in Nat /\ Horizon \in Nat /\ Limits \in Seq([seconds : Nat, limit : Nat])

(* The inductive invariant.  What a request carries is at most Delay old;  *)
(* a window has counted all that was let through since it began, because   *)
(* what it forgot was too old for any request on its way; and it never     *)
(* holds more than its limit.                                              *)
Counts == [Admission!Times -> Nat]
AdmissionTypes ==
    /\ now \in Admission!Times /\ stamped \in Counts /\ allowed \in Counts
    /\ zset \in [DOMAIN Limits -> Counts]
AdmissionInv ==
    /\ AdmissionTypes
    /\ \A t \in Admission!Times : stamped[t] > 0 => t <= now /\ now <= t + Delay
    /\ \A w \in DOMAIN Limits :
        /\ \A u \in Admission!Times : u > now - Limits[w].seconds => zset[w][u] = allowed[u]
        /\ Total(zset[w], Admission!Times) <= Limits[w].limit
    /\ Admission!RateKept

LEMMA SameTotal ==
    ASSUME NEW counts, NEW times
    PROVE  Admission!Total(counts, times) = Total(counts, times)
  BY Zenon DEF Admission!Total, Admission!FoldFunctionOnSet, Admission!MapThenFoldSet, Total,
               MapThenSumSet, MapThenFoldSet

LEMMA TimesFacts ==
    ASSUME LimitsAreNumbers
    PROVE  /\ IsFiniteSet(Admission!Times) /\ Admission!Times \subseteq Nat /\ 0 \in Admission!Times
           /\ \A w \in DOMAIN Limits : Limits[w].seconds \in Nat /\ Limits[w].limit \in Nat
  <1>1. 0 \in Int /\ Horizon \in Int
    BY DEF LimitsAreNumbers
  <1>2. IsFiniteSet(0..Horizon)
    BY <1>1, FS_Interval
  <1>3. 0 \in 0..Horizon /\ 0..Horizon \subseteq Nat
    BY DEF LimitsAreNumbers
  <1>4. ASSUME NEW w \in DOMAIN Limits PROVE Limits[w].seconds \in Nat /\ Limits[w].limit \in Nat
    <2>1. Limits \in Seq([seconds : Nat, limit : Nat]) /\ w \in 1..Len(Limits)
      BY DEF LimitsAreNumbers
    <2>2. Limits[w] \in [seconds : Nat, limit : Nat]
      BY <2>1, ElementOfSeq
    <2> QED
      BY <2>2
  <1> QED
    BY <1>2, <1>3, <1>4 DEF Admission!Times

(* What a window counts while it has counted as many as it has.            *)
Window(w, t) == {u \in Admission!Times : u <= t /\ u > t - (Limits[w].seconds - Delay)}

LEMMA RateIsTotal ==
    Admission!RateKept <=>
        \A w \in DOMAIN Limits : \A t \in Admission!Times :
            Total(allowed, Window(w, t)) <= Limits[w].limit
  BY SameTotal, Zenon DEF Admission!RateKept, Window

LEMMA MoreFacts ==
    ASSUME LimitsAreNumbers, NEW counts \in Counts, NEW t \in Admission!Times
    PROVE  LET more == Admission!More(counts, t) IN
           /\ more \in Counts /\ \A u \in Admission!Times : u # t => more[u] = counts[u]
           /\ more[t] = counts[t] + 1
           /\ Total(more, Admission!Times) = Total(counts, Admission!Times) + 1
  <1> DEFINE n == counts[t] + 1
  <1> DEFINE more == Admission!More(counts, t)
  <1>1. n \in Nat /\ counts[t] \in Nat
    BY DEF Counts
  <1>2. more = [counts EXCEPT ![t] = n]
    BY DEF Admission!More
  <1> HIDE DEF n, more
  <1>3. more \in Counts /\ more[t] = n /\ \A u \in Admission!Times : u # t => more[u] = counts[u]
    BY <1>1, <1>2 DEF Counts
  <1>4. IsFiniteSet(Admission!Times)
    BY TimesFacts
  <1>5. \A u \in Admission!Times : counts[u] \in Int /\ more[u] \in Int
    BY <1>3 DEF Counts
  <1>6. \A u \in Admission!Times \ {t} : more[u] = counts[u]
    BY <1>3
  <1>7. Total(more, Admission!Times) = Total(counts, Admission!Times) - counts[t] + more[t]
    BY <1>4, <1>5, <1>6, TotalUpdate
  <1>8. Total(counts, Admission!Times) \in Int
    BY <1>4, <1>5, TotalInt
  <1>9. more[t] = counts[t] + 1
    BY <1>3 DEF n
  <1>10. Total(more, Admission!Times) = Total(counts, Admission!Times) + 1
    BY <1>1, <1>7, <1>8, <1>9
  <1> QED
    BY <1>3, <1>9, <1>10 DEF more

LEMMA FewerFacts ==
    ASSUME NEW counts \in Counts, NEW t \in Admission!Times, counts[t] > 0
    PROVE  LET fewer == Admission!Fewer(counts, t) IN
           fewer \in Counts /\ \A u \in Admission!Times : fewer[u] > 0 => counts[u] > 0
  <1> DEFINE n == counts[t] - 1
  <1>1. n \in Nat /\ counts[t] \in Nat
    BY DEF Counts
  <1>2. Admission!Fewer(counts, t) = [counts EXCEPT ![t] = n]
    BY DEF Admission!Fewer
  <1> HIDE DEF n
  <1> QED
    BY <1>1, <1>2 DEF Counts

(* What a window keeps when it forgets.                                    *)
LEMMA SinceFacts ==
    ASSUME LimitsAreNumbers, NEW counts \in Counts, NEW from \in Int
    PROVE  LET kept == Admission!Since(counts, from) IN
           /\ kept \in Counts
           /\ \A u \in Admission!Times : u > from => kept[u] = counts[u]
           /\ Total(kept, Admission!Times) \in Nat
           /\ Total(kept, Admission!Times) <= Total(counts, Admission!Times)
  <1> DEFINE kept == Admission!Since(counts, from)
  <1>1. IsFiniteSet(Admission!Times) /\ Admission!Times \subseteq Nat
    BY TimesFacts
  <1>2. \A u \in Admission!Times : kept[u] = (IF u <= from THEN 0 ELSE counts[u]) /\ counts[u] \in Nat
    BY DEF Admission!Since, Counts
  <1>3. kept \in Counts
    BY DEF Admission!Since, Counts
  <1> HIDE DEF kept
  <1>4. \A u \in Admission!Times : kept[u] \in Nat /\ counts[u] \in Nat /\ kept[u] <= counts[u]
    BY <1>2
  <1>5. Total(kept, Admission!Times) <= Total(counts, Admission!Times)
    BY <1>1, <1>4, TotalAtMost
  <1>6. Total(kept, Admission!Times) \in Nat
    BY <1>1, <1>4, TotalNat
  <1>7. \A u \in Admission!Times : u > from => kept[u] = counts[u]
    BY <1>1, <1>2
  <1> QED
    BY <1>3, <1>5, <1>6, <1>7 DEF kept

----------------------------------------------------------------------------
LEMMA AdmissionInit == ASSUME LimitsAreNumbers, Admission!Init PROVE AdmissionInv
  <1> DEFINE none == Admission!None
  <1>1. /\ now = 0 /\ stamped = none /\ allowed = none /\ zset = [w \in DOMAIN Limits |-> none]
    BY DEF Admission!Init
  <1>2. /\ none \in Counts /\ \A t \in Admission!Times : none[t] = 0
    BY DEF Admission!None, Counts
  <1>3. \A S \in SUBSET Admission!Times : Total(none, S) = 0
    <2> SUFFICES ASSUME NEW S \in SUBSET Admission!Times PROVE Total(none, S) = 0
      OBVIOUS
    <2>1. IsFiniteSet(S) /\ \A x \in S : none[x] = 0
      BY <1>2, TimesFacts, FS_Subset
    <2> HIDE DEF none
    <2> QED
      BY <2>1, TotalZero
  <1> HIDE DEF none
  <1>4. AdmissionTypes
    BY <1>1, <1>2, TimesFacts DEF AdmissionTypes
  <1>5. Admission!RateKept
    <2>1. \A w \in DOMAIN Limits : \A t \in Admission!Times : Window(w, t) \in SUBSET Admission!Times
      BY DEF Window
    <2>2. \A w \in DOMAIN Limits : 0 <= Limits[w].limit
      BY TimesFacts
    <2> QED
      BY <1>1, <1>3, <2>1, <2>2, RateIsTotal
  <1>6. \A w \in DOMAIN Limits : Total(zset[w], Admission!Times) <= Limits[w].limit
    BY <1>1, <1>3, TimesFacts
  <1> QED
    BY <1>1, <1>2, <1>4, <1>5, <1>6 DEF AdmissionInv

(* What leaves the windows alone.                                          *)
LEMMA WindowsStay ==
    ASSUME LimitsAreNumbers, AdmissionInv, zset' = zset, allowed' = allowed,
           now' \in Admission!Times, now <= now', stamped' \in Counts,
           \A t \in Admission!Times : stamped'[t] > 0 => t <= now' /\ now' <= t + Delay
    PROVE  AdmissionInv'
  <1>1. AdmissionTypes'
    BY DEF AdmissionInv, AdmissionTypes
  <1>2. Admission!RateKept'
    BY RateIsTotal DEF AdmissionInv, Admission!RateKept
  <1>3. ASSUME NEW w \in DOMAIN Limits, NEW u \in Admission!Times, u > now' - Limits[w].seconds
        PROVE  zset'[w][u] = allowed'[u]
    <2>1. /\ now \in Nat /\ now' \in Nat /\ u \in Nat /\ Limits[w].seconds \in Nat
      BY TimesFacts DEF AdmissionInv, AdmissionTypes
    <2>2. u > now - Limits[w].seconds
      BY <1>3, <2>1
    <2> QED
      BY <2>2 DEF AdmissionInv
  <1> QED
    BY <1>1, <1>2, <1>3 DEF AdmissionInv

LEMMA TickOk == ASSUME LimitsAreNumbers, AdmissionInv, Admission!Tick PROVE AdmissionInv'
  <1> DEFINE next == now + 1
  <1>1. now \in Nat /\ now < Horizon /\ Horizon \in Nat /\ next \in Admission!Times /\ now <= next
    <2>1. now \in Nat /\ now < Horizon /\ Horizon \in Nat
      BY TimesFacts DEF AdmissionInv, AdmissionTypes, Admission!Tick, LimitsAreNumbers
    <2> QED
      BY <2>1 DEF Admission!Times
  <1>2. now' = next /\ zset' = zset /\ allowed' = allowed /\ stamped' = stamped
    BY DEF Admission!Tick
  <1>3. ASSUME NEW t \in Admission!Times, stamped[t] > 0 PROVE t <= next /\ next <= t + Delay
    <2>1. now < t + Delay /\ t <= now /\ t \in Nat /\ Delay \in Nat
      BY <1>3, TimesFacts DEF Admission!Tick, AdmissionInv, LimitsAreNumbers
    <2> QED
      BY <1>1, <2>1
  <1>4. stamped \in Counts
    BY DEF AdmissionInv, AdmissionTypes
  <1> HIDE DEF next
  <1> QED
    BY <1>1, <1>2, <1>3, <1>4, WindowsStay

(* A request that carries the time, ...                                    *)
LEMMA StampedOk ==
    ASSUME LimitsAreNumbers, AdmissionInv, zset' = zset, allowed' = allowed, now' = now,
           stamped' = stamped \/ stamped' = Admission!More(stamped, now)
    PROVE  AdmissionInv'
  <1>1. stamped \in Counts /\ now \in Admission!Times /\ now \in Nat /\ now <= now + Delay
        /\ \A t \in Admission!Times : stamped[t] > 0 => t <= now /\ now <= t + Delay
    BY TimesFacts DEF AdmissionInv, AdmissionTypes, LimitsAreNumbers
  <1>2. stamped' \in Counts /\ \A t \in Admission!Times : t # now => stamped'[t] = stamped[t]
    BY <1>1, MoreFacts
  <1>3. \A t \in Admission!Times : stamped'[t] > 0 => t <= now /\ now <= t + Delay
    BY <1>1, <1>2
  <1> QED
    BY <1>1, <1>2, <1>3, WindowsStay

(* ... and one that has been counted or let go.                            *)
LEMMA LeavesOk ==
    ASSUME LimitsAreNumbers, AdmissionInv, NEW t \in Admission!Times, stamped[t] > 0,
           stamped' = Admission!Fewer(stamped, t)
    PROVE  /\ stamped' \in Counts /\ t <= now /\ now <= t + Delay
           /\ \A u \in Admission!Times : stamped'[u] > 0 => u <= now /\ now <= u + Delay
  <1>1. stamped \in Counts /\ \A u \in Admission!Times : stamped[u] > 0 => u <= now /\ now <= u + Delay
    BY DEF AdmissionInv, AdmissionTypes
  <1> QED
    BY <1>1, FewerFacts

(* A window that lets a request through was not full, and has kept all     *)
(* that a stretch around that request's time may hold.                     *)
LEMMA WindowHolds ==
    ASSUME LimitsAreNumbers, NEW w \in DOMAIN Limits, NEW kept \in Counts, NEW let \in Counts,
           NEW t \in Admission!Times, NEW p \in Admission!Times, NEW n \in Nat, n <= t + Delay,
           \A u \in Admission!Times : u > n - Limits[w].seconds => kept[u] = let[u],
           t \in Window(w, p)
    PROVE  Total(let, Window(w, p)) <= Total(kept, Admission!Times)
  <1>1. IsFiniteSet(Admission!Times) /\ Window(w, p) \in SUBSET Admission!Times
    BY TimesFacts DEF Window
  <1>2. ASSUME NEW u \in Window(w, p) PROVE let[u] = kept[u]
    <2>1. /\ u \in Nat /\ t \in Nat /\ p \in Nat /\ Limits[w].seconds \in Nat /\ Delay \in Nat
          /\ t <= p /\ u > p - (Limits[w].seconds - Delay) /\ u \in Admission!Times
      BY TimesFacts DEF Window, LimitsAreNumbers
    <2>2. u > n - Limits[w].seconds
      BY <2>1
    <2> QED
      BY <2>1, <2>2
  <1>3. \A u \in Admission!Times : let[u] \in Nat /\ kept[u] \in Nat
    BY DEF Counts
  <1>4. \A u \in Window(w, p) : let[u] <= kept[u]
    BY <1>1, <1>2, <1>3
  <1> QED
    BY <1>1, <1>3, <1>4, TotalAtMost

(* A request meets a window: the window forgets what is too old, and       *)
(* counts it when all windows let it through.                              *)
LEMMA Met ==
    ASSUME LimitsAreNumbers, NEW w \in DOMAIN Limits, NEW z \in Counts, NEW let \in Counts,
           NEW t \in Admission!Times, NEW n \in Nat, t <= n,
           \A u \in Admission!Times : u > n - Limits[w].seconds => z[u] = let[u]
    PROVE  LET kept == Admission!Since(z, t - Limits[w].seconds) IN
           /\ kept \in Counts /\ Total(kept, Admission!Times) \in Nat
           /\ Total(kept, Admission!Times) <= Total(z, Admission!Times)
           /\ \A u \in Admission!Times : u > n - Limits[w].seconds => kept[u] = let[u]
  <1> DEFINE from == t - Limits[w].seconds
             kept == Admission!Since(z, from)
  <1>1. t \in Nat /\ Limits[w].seconds \in Nat /\ Admission!Times \subseteq Nat
    BY TimesFacts
  <1>2. from \in Int
    BY <1>1
  <1>3. \A u \in Admission!Times : u > n - Limits[w].seconds => u > from
    BY <1>1
  <1> HIDE DEF from
  <1>4. /\ kept \in Counts /\ Total(kept, Admission!Times) \in Nat
        /\ Total(kept, Admission!Times) <= Total(z, Admission!Times)
        /\ \A u \in Admission!Times : u > from => kept[u] = z[u]
    BY <1>2, SinceFacts
  <1> HIDE DEF kept
  <1>5. \A u \in Admission!Times : u > n - Limits[w].seconds => kept[u] = let[u]
    BY <1>3, <1>4
  <1> QED
    BY <1>4, <1>5 DEF kept, from

LEMMA UnavailableOk ==
    ASSUME LimitsAreNumbers, AdmissionInv, NEW t \in Admission!Times, Admission!Unavailable(t)
    PROVE  AdmissionInv'
  <1>1. /\ stamped[t] > 0 /\ stamped' = Admission!Fewer(stamped, t)
        /\ now' = now /\ zset' = zset /\ allowed' = allowed
    BY DEF Admission!Unavailable
  <1>2. now \in Admission!Times /\ now <= now
    BY TimesFacts DEF AdmissionInv, AdmissionTypes
  <1>3. /\ stamped' \in Counts
        /\ \A u \in Admission!Times : stamped'[u] > 0 => u <= now /\ now <= u + Delay
    BY <1>1, LeavesOk
  <1> QED
    BY <1>1, <1>2, <1>3, WindowsStay

(* Refused: the windows have only forgotten.                               *)
LEMMA RefusedOk ==
    ASSUME LimitsAreNumbers, AdmissionInv, NEW t \in Admission!Times, Admission!CheckAndRecord(t),
           Admission!Refuses(t) # {}
    PROVE  AdmissionInv'
  <1> DEFINE Kept(w) == Admission!Since(zset[w], t - Limits[w].seconds)
  <1>1. /\ stamped[t] > 0 /\ stamped' = Admission!Fewer(stamped, t)
        /\ now' = now /\ allowed' = allowed
        /\ zset' \in [DOMAIN Limits -> {zset'[w] : w \in DOMAIN Limits}]
        /\ \A w \in DOMAIN Limits : zset'[w] = zset[w] \/ zset'[w] = Kept(w)
    BY DEF Admission!CheckAndRecord
  <1>2. /\ now \in Nat /\ now \in Admission!Times /\ stamped' \in Counts /\ t <= now
        /\ \A u \in Admission!Times : stamped'[u] > 0 => u <= now /\ now <= u + Delay
    BY <1>1, LeavesOk, TimesFacts DEF AdmissionInv, AdmissionTypes
  <1>3. ASSUME NEW w \in DOMAIN Limits
        PROVE  /\ zset'[w] \in Counts
               /\ \A u \in Admission!Times : u > now - Limits[w].seconds => zset'[w][u] = allowed[u]
               /\ Total(zset'[w], Admission!Times) <= Limits[w].limit
    <2>1. /\ zset[w] \in Counts /\ allowed \in Counts
          /\ \A u \in Admission!Times : u > now - Limits[w].seconds => zset[w][u] = allowed[u]
          /\ Total(zset[w], Admission!Times) <= Limits[w].limit
      BY DEF AdmissionInv, AdmissionTypes
    <2>2. CASE zset'[w] = zset[w]
      BY <2>1, <2>2
    <2>3. CASE zset'[w] = Kept(w)
      <3> DEFINE kept == Kept(w)
      <3> DEFINE z == zset[w]
      <3>0. /\ z \in Counts /\ allowed \in Counts
            /\ \A u \in Admission!Times : u > now - Limits[w].seconds => z[u] = allowed[u]
        BY <2>1
      <3> HIDE DEF z
      <3>1. /\ kept \in Counts /\ Total(kept, Admission!Times) \in Nat
            /\ Total(kept, Admission!Times) <= Total(zset[w], Admission!Times)
            /\ \A u \in Admission!Times : u > now - Limits[w].seconds => kept[u] = allowed[u]
        BY <1>2, <3>0, Met DEF z
      <3>2. zset'[w] = kept
        BY <2>3
      <3> HIDE DEF kept
      <3>3. Total(zset[w], Admission!Times) \in Nat /\ Limits[w].limit \in Nat
        BY <2>1, TimesFacts, TotalNat DEF Counts
      <3>4. Total(kept, Admission!Times) <= Limits[w].limit
        BY <2>1, <3>1, <3>3
      <3> QED
        BY <3>1, <3>2, <3>4
    <2> QED
      BY <1>1, <2>2, <2>3
  <1>4. AdmissionTypes'
    BY <1>1, <1>2, <1>3 DEF AdmissionInv, AdmissionTypes
  <1>5. Admission!RateKept'
    BY <1>1, RateIsTotal DEF AdmissionInv, Admission!RateKept
  <1> QED
    BY <1>1, <1>2, <1>3, <1>4, <1>5 DEF AdmissionInv

(* Let through: every window had room for it.                              *)
LEMMA CountedOk ==
    ASSUME LimitsAreNumbers, AdmissionInv, NEW t \in Admission!Times, Admission!CheckAndRecord(t),
           Admission!Refuses(t) = {}
    PROVE  AdmissionInv'
  <1> DEFINE Kept(w) == Admission!Since(zset[w], t - Limits[w].seconds)
             more == Admission!More(allowed, t)
  <1>1. /\ stamped[t] > 0 /\ stamped' = Admission!Fewer(stamped, t)
        /\ now' = now /\ allowed' = more
        /\ zset' \in [DOMAIN Limits -> {zset'[w] : w \in DOMAIN Limits}]
        /\ \A w \in DOMAIN Limits : zset'[w] = Admission!More(Kept(w), t)
    BY DEF Admission!CheckAndRecord
  <1>2. /\ now \in Nat /\ now \in Admission!Times /\ stamped' \in Counts
        /\ t <= now /\ now <= t + Delay
        /\ \A u \in Admission!Times : stamped'[u] > 0 => u <= now /\ now <= u + Delay
    BY <1>1, LeavesOk, TimesFacts DEF AdmissionInv, AdmissionTypes
  <1>3. /\ allowed \in Counts /\ more \in Counts /\ more[t] = allowed[t] + 1
        /\ \A u \in Admission!Times : u # t => more[u] = allowed[u]
    <2>1. allowed \in Counts
      BY DEF AdmissionInv, AdmissionTypes
    <2> QED
      BY <2>1, MoreFacts
  <1> HIDE DEF more
  <1>4. ASSUME NEW w \in DOMAIN Limits
        PROVE  /\ zset'[w] \in Counts
               /\ \A u \in Admission!Times : u > now - Limits[w].seconds => zset'[w][u] = more[u]
               /\ Total(zset'[w], Admission!Times) <= Limits[w].limit
    <2> DEFINE kept == Kept(w)
               z == Admission!More(kept, t)
    <2>1. /\ zset[w] \in Counts
          /\ \A u \in Admission!Times : u > now - Limits[w].seconds => zset[w][u] = allowed[u]
      BY DEF AdmissionInv, AdmissionTypes
    <2>2. /\ kept \in Counts /\ Total(kept, Admission!Times) \in Nat
          /\ \A u \in Admission!Times : u > now - Limits[w].seconds => kept[u] = allowed[u]
      BY <1>2, <1>3, <2>1, Met
    <2>3. Total(kept, Admission!Times) < Limits[w].limit
      <3>1. ~Admission!Full(w, t)
        BY DEF Admission!Refuses
      <3>2. ~(Admission!Total(kept, Admission!Times) >= Limits[w].limit)
        BY <3>1 DEF Admission!Full
      <3>3. Admission!Total(kept, Admission!Times) = Total(kept, Admission!Times)
        BY SameTotal
      <3>4. Limits[w].limit \in Nat
        BY TimesFacts
      <3> HIDE DEF kept
      <3> QED
        BY <2>2, <3>2, <3>3, <3>4
    <2> HIDE DEF kept
    <2>4. /\ z \in Counts /\ \A u \in Admission!Times : u # t => z[u] = kept[u]
          /\ z[t] = kept[t] + 1
          /\ Total(z, Admission!Times) = Total(kept, Admission!Times) + 1
      BY <2>2, MoreFacts
    <2> HIDE DEF z
    <2>5. Total(z, Admission!Times) <= Limits[w].limit
      <3>1. Limits[w].limit \in Nat
        BY TimesFacts
      <3> QED
        BY <2>2, <2>3, <2>4, <3>1
    <2>6. \A u \in Admission!Times : u > now - Limits[w].seconds => z[u] = more[u]
      BY <1>3, <2>2, <2>4
    <2>7. zset'[w] = z
      BY <1>1 DEF z, kept
    <2> QED
      BY <2>4, <2>5, <2>6, <2>7
  <1>5. AdmissionTypes'
    BY <1>1, <1>2, <1>3, <1>4 DEF AdmissionTypes
  <1>6. ASSUME NEW w \in DOMAIN Limits, NEW p \in Admission!Times
        PROVE  Total(more, Window(w, p)) <= Limits[w].limit
    <2>1. IsFiniteSet(Window(w, p)) /\ Window(w, p) \in SUBSET Admission!Times
      BY TimesFacts, FS_Subset DEF Window
    <2>2. CASE t \in Window(w, p)
      <3> DEFINE z == zset'[w]
      <3>1. /\ z \in Counts /\ Total(z, Admission!Times) <= Limits[w].limit
            /\ \A u \in Admission!Times : u > now - Limits[w].seconds => z[u] = more[u]
        BY <1>4
      <3> HIDE DEF z
      <3>2. Total(more, Window(w, p)) <= Total(z, Admission!Times)
        BY <1>2, <1>3, <2>2, <3>1, WindowHolds
      <3>3. /\ Total(more, Window(w, p)) \in Nat /\ Total(z, Admission!Times) \in Nat
            /\ Limits[w].limit \in Nat
        <4>1. \A u \in Admission!Times : more[u] \in Nat /\ z[u] \in Nat
          BY <1>3, <3>1 DEF Counts
        <4> QED
          BY <2>1, <4>1, TotalNat, TimesFacts
      <3> QED
        BY <3>1, <3>2, <3>3
    <2>3. CASE t \notin Window(w, p)
      <3>1. Total(more, Window(w, p)) = Total(allowed, Window(w, p))
        <4>1. \A u \in Window(w, p) : more[u] = allowed[u]
          BY <1>3, <2>1, <2>3
        <4> QED
          BY <2>1, <4>1, TotalSame
      <3>2. Total(allowed, Window(w, p)) <= Limits[w].limit
        BY RateIsTotal DEF AdmissionInv
      <3> QED
        BY <3>1, <3>2
    <2> QED
      BY <2>2, <2>3
  <1>7. Admission!RateKept'
    <2>1. \A w \in DOMAIN Limits : \A p \in Admission!Times :
            Admission!Total(more, Window(w, p)) <= Limits[w].limit
      BY <1>6, SameTotal
    <2> QED
      BY <1>1, <2>1 DEF Admission!RateKept, Window
  <1> QED
    BY <1>1, <1>2, <1>4, <1>5, <1>7 DEF AdmissionInv

LEMMA AdmissionNext ==
    ASSUME LimitsAreNumbers, AdmissionInv, Admission!Next \/ UNCHANGED admissionVars
    PROVE  AdmissionInv'
  <1>1. CASE Admission!Tick
    BY <1>1, TickOk
  <1>2. ASSUME \/ UNCHANGED admissionVars
               \/ Admission!Ask \/ Admission!ReadKey \/ Admission!FillFound \/ Admission!FillLost
               \/ Admission!CacheExpires \/ Admission!Deactivate \/ Admission!Invalidate
               \/ Admission!Busy \/ Admission!Enter \/ Admission!Leave
        PROVE  AdmissionInv'
    <2>1. /\ zset' = zset /\ allowed' = allowed /\ now' = now
          /\ stamped' = stamped \/ stamped' = Admission!More(stamped, now)
      BY <1>2 DEF admissionVars, Admission!Ask, Admission!ReadKey, Admission!FillFound,
                  Admission!FillLost, Admission!CacheExpires, Admission!Deactivate,
                  Admission!Invalidate, Admission!Busy, Admission!Enter, Admission!Leave
    <2> QED
      BY <2>1, StampedOk
  <1>3. ASSUME NEW t \in Admission!Times, Admission!CheckAndRecord(t) PROVE AdmissionInv'
    BY <1>3, RefusedOk, CountedOk
  <1>4. ASSUME NEW t \in Admission!Times, Admission!Unavailable(t) PROVE AdmissionInv'
    BY <1>4, UnavailableOk
  <1> QED
    BY <1>1, <1>2, <1>3, <1>4 DEF Admission!Next

(* Whatever the limits, the delay and the race to Redis: no window lets    *)
(* more requests through than its limit, in any stretch of time shorter    *)
(* than the window by the delay (rate_limiter.py check_rate_limit).        *)
THEOREM RatesAreKept == Spec => []RateKept
  <1> DEFINE I == part = "admission" => AdmissionInv
  <1>0. LimitsAreNumbers
    BY ServicesAssumption DEF LimitsAreNumbers
  <1>1. Init => I
    BY <1>0, AdmissionInit DEF Init
  <1>2. I /\ [Next]_vars => I'
    <2> SUFFICES ASSUME I, [Next]_vars, part' = "admission" PROVE AdmissionInv'
      OBVIOUS
    <2>1. part = "admission" /\ (Admission!Next \/ UNCHANGED admissionVars)
      BY DEF Next, vars
    <2> QED
      BY <1>0, <2>1, AdmissionNext
  <1>3. I => RateKept
    BY DEF RateKept, AdmissionInv
  <1> HIDE DEF I
  <1> QED
    BY <1>1, <1>2, <1>3, PTL DEF Spec

----------------------------------------------------------------------------
(* AppealPanels: who is due sits on the panel of an appeal.                *)

LEMMA SameCardinality == ASSUME NEW S PROVE Panels!Cardinality(S) = Cardinality(S)
  BY Zenon DEF Panels!Cardinality, Cardinality

LEMMA PairMin ==
    ASSUME NEW a \in Int, NEW b \in Int
    PROVE  /\ Panels!Min({a, b}) = (IF a <= b THEN a ELSE b)
           /\ Panels!Max({a, b}) = (IF a >= b THEN a ELSE b)
  <1>1. \A x \in {a, b} : (\A y \in {a, b} : x <= y) => x = (IF a <= b THEN a ELSE b)
    OBVIOUS
  <1>2. \E x \in {a, b} : \A y \in {a, b} : x <= y
    <2>1. CASE a <= b
      BY <2>1
    <2>2. CASE b <= a
      BY <2>2
    <2> QED  BY <2>1, <2>2
  <1>3. \A x \in {a, b} : (\A y \in {a, b} : x >= y) => x = (IF a >= b THEN a ELSE b)
    OBVIOUS
  <1>4. \E x \in {a, b} : \A y \in {a, b} : x >= y
    <2>1. CASE a >= b
      BY <2>1
    <2>2. CASE b >= a
      BY <2>2
    <2> QED  BY <2>1, <2>2
  <1> QED  BY <1>1, <1>2, <1>3, <1>4 DEF Panels!Min, Panels!Max

(* Induction up to a number.                                               *)
LEMMA Climb ==
    ASSUME NEW n \in Nat, NEW C, 0 \in C, \A k \in 1..n : k - 1 \in C => k \in C
    PROVE  n \in C
  <1> DEFINE Bad == {k \in 0..n : k \notin C}
  <1>1. ASSUME Bad # {} PROVE FALSE
    <2>1. PICK k \in Bad : \A j \in Bad : k <= j
      <3>1. Bad \in SUBSET Nat
        OBVIOUS
      <3> HIDE DEF Bad
      <3> QED  BY <1>1, <3>1, LeastNumber
    <2>2. k \in 1..n /\ k - 1 \in 0..n /\ k - 1 \notin Bad
      BY <2>1
    <2> QED  BY <2>1, <2>2
  <1> QED  BY <1>1

(* Each place in the order of the numbers is taken.                        *)
LEMMA PlaceTaken ==
    ASSUME NEW m \in Nat, NEW S \in SUBSET (1..m), NEW i \in 1..Cardinality(S)
    PROVE  \E v \in S : Cardinality({u \in S : u < v}) = i - 1
  <1> DEFINE To(c) == {u \in S : u <= c}
             T == {c \in 0..m : Cardinality(To(c)) >= i}
  <1>1. IsFiniteSet(S) /\ Cardinality(S) \in Nat
    <2>1. IsFiniteSet(1..m)
      BY FS_Interval
    <2> QED  BY <2>1, FS_Subset, FS_CardinalityType
  <1>2. \A c \in 0..m : IsFiniteSet(To(c)) /\ Cardinality(To(c)) \in Nat
    <2> TAKE c \in 0..m
    <2>1. To(c) \in SUBSET S
      OBVIOUS
    <2> QED  BY <1>1, <2>1, FS_Subset, FS_CardinalityType
  <1>0. \A u \in S : u \in Nat /\ u # 0 /\ u <= m
    OBVIOUS
  <1>3. m \in T
    <2>1. To(m) = S
      <3>1. \A u \in S : u <= m
        BY <1>0
      <3> QED  BY <3>1, Zenon
    <2>2. Cardinality(S) >= i /\ m \in 0..m
      BY <1>1
    <2> QED  BY <1>1, <2>1, <2>2
  <1>4. PICK c \in T : \A d \in T : c <= d
    <2>1. T \in SUBSET Nat
      OBVIOUS
    <2> HIDE DEF T
    <2> QED  BY <1>3, <2>1, LeastNumber
  <1>5. c \in 0..m /\ Cardinality(To(c)) >= i /\ c # 0
    <2>1. To(0) = {}
      <3>1. \A u \in S : ~(u <= 0)
        BY <1>0
      <3> QED  BY <3>1, Zenon
    <2>2. Cardinality(To(0)) = 0
      BY <2>1, FS_EmptySet
    <2>3. c \in 0..m /\ Cardinality(To(c)) >= i
      BY <1>4
    <2> HIDE DEF To
    <2>4. ~(0 >= i)
      BY <1>1
    <2> QED  BY <2>2, <2>3, <2>4
  <1>6. c - 1 \in 0..m /\ Cardinality(To(c - 1)) < i
    <2>1. c - 1 \in 0..m /\ ~(c <= c - 1)
      BY <1>5
    <2>2. c - 1 \notin T
      BY <1>4, <2>1
    <2>3. ~(Cardinality(To(c - 1)) >= i)
      BY <2>1, <2>2
    <2>4. Cardinality(To(c - 1)) \in Nat
      BY <1>2, <2>1
    <2> HIDE DEF To
    <2> QED  BY <1>1, <2>1, <2>3, <2>4
  <1>7. c \in S
    <2> SUFFICES ASSUME c \notin S PROVE FALSE
      OBVIOUS
    <2>1. \A u \in S : u <= c <=> u <= c - 1
      BY <1>0, <1>5
    <2>2. To(c) = To(c - 1)
      BY <2>1
    <2> HIDE DEF To
    <2> QED  BY <1>1, <1>2, <1>5, <1>6, <2>2
  <1>8. To(c) = To(c - 1) \cup {c} /\ c \notin To(c - 1) /\ To(c - 1) = {u \in S : u < c}
    <2>1. \A u \in S : (u <= c <=> u <= c - 1 \/ u = c) /\ (u <= c - 1 <=> u < c)
      <3>1. \A u, d \in Int : (u <= d <=> u <= d - 1 \/ u = d) /\ (u <= d - 1 <=> u < d)
        OBVIOUS
      <3>2. c \in Int
        BY <1>5
      <3>3. \A u \in S : u \in Int
        BY <1>0
      <3>4. \A u \in Int : (u <= c <=> u <= c - 1 \/ u = c) /\ (u <= c - 1 <=> u < c)
        BY <3>1, <3>2
      <3> TAKE u \in S
      <3>5. u \in Int
        BY <3>3
      <3> QED  BY <3>4, <3>5
    <2>2. ~(c <= c - 1)
      BY <1>5
    <2> DEFINE d == c - 1
    <2>3. \A u \in S : (u <= c <=> u <= d \/ u = c) /\ (u <= d <=> u < c)
      BY <2>1
    <2>4. ~(c <= d)
      BY <2>2
    <2> HIDE DEF d
    <2>5. {u \in S : u <= c} = {u \in S : u <= d} \cup {c}
      BY <1>7, <2>3
    <2>6. {u \in S : u <= d} = {u \in S : u < c}
      BY <2>3, Zenon
    <2> QED  BY <2>4, <2>5, <2>6 DEF d
  <1>9. Cardinality(To(c)) = Cardinality(To(c - 1)) + 1
    <2> HIDE DEF To
    <2> QED  BY <1>2, <1>6, <1>8, FS_AddElement
  <1>10. Cardinality(To(c - 1)) = i - 1
    <2> HIDE DEF To
    <2> QED  BY <1>1, <1>2, <1>5, <1>6, <1>9
  <1> QED  BY <1>7, <1>8, <1>10

LEMMA AscendingFacts ==
    ASSUME NEW m \in Nat, NEW S \in SUBSET (1..m)
    PROVE  Panels!Ascending(S) \in Seq(S) /\ Len(Panels!Ascending(S)) = Cardinality(S)
  <1> DEFINE n == Cardinality(S)
             a == Panels!Ascending(S)
  <1>1. n \in Nat
    <2>1. IsFiniteSet(1..m)
      BY FS_Interval
    <2> QED  BY <2>1, FS_Subset, FS_CardinalityType
  <1> DEFINE At(i) == CHOOSE v \in S : Cardinality({u \in S : u < v}) = i - 1
  <1>2. \A i \in 1..n : At(i) \in S
    BY PlaceTaken
  <1>3. a = [i \in 1..n |-> At(i)]
    BY Zenon DEF Panels!Ascending, Panels!Cardinality, Cardinality
  <1> HIDE DEF a, n, At
  <1>4. a \in [1..n -> S]
    BY <1>2, <1>3
  <1>5. a \in Seq(S) /\ Len(a) = n
    BY <1>1, <1>4
  <1> QED  BY <1>5 DEF a, n

LEMMA SampleFacts ==
    ASSUME NEW m \in Nat, NEW from \in SUBSET (1..m), NEW k, NEW s \in Panels!Samples(k, from)
    PROVE  s \in Seq(from) /\ Len(s) \in Nat /\ (k \in Int => Len(s) <= k)
  <1>1. PICK S \in SUBSET from : s = Panels!Ascending(S) /\ Cardinality(S) = Panels!Min({k, Cardinality(from)})
    BY SameCardinality DEF Panels!Samples
  <1>2. Cardinality(from) \in Nat
    <2>1. IsFiniteSet(1..m)
      BY FS_Interval
    <2> QED  BY <2>1, FS_Subset, FS_CardinalityType
  <1>3. S \in SUBSET (1..m)
    OBVIOUS
  <1>4. s \in Seq(S) /\ Len(s) = Cardinality(S)
    BY <1>1, <1>3, AscendingFacts
  <1>5. k \in Int => Panels!Min({k, Cardinality(from)}) <= k
    BY <1>2, PairMin
  <1> QED  BY <1>1, <1>4, <1>5, SeqMonotonic, LenProperties

LEMMA SliceFacts ==
    ASSUME NEW X, NEW s \in Seq(X), NEW i \in Int
    PROVE  /\ Panels!From(s, i) \in Seq(X) /\ Panels!UpTo(s, i) \in Seq(X)
           /\ i >= 0 /\ i <= Len(s) =>
                /\ Len(Panels!From(s, i)) = Len(s) - i /\ Len(Panels!UpTo(s, i)) = i
                /\ \A j \in i + 1..Len(s) : s[j] \in Panels!ToSet(Panels!From(s, i))
  <1> DEFINE c == Panels!Cut(s, i)
             e == Panels!Min({c, Len(s)})
  <1>1. Len(s) \in Nat /\ \A j \in 1..Len(s) : s[j] \in X
    BY ElementOfSeq, LenProperties
  <1>2. c \in Nat /\ (i >= 0 => c = i)
    <2>1. Len(s) + i \in Int /\ 0 \in Int
      BY <1>1
    <2>2. Panels!Max({0, Len(s) + i}) \in Nat
      <3> DEFINE low == Len(s) + i
      <3>1. Panels!Max({0, low}) = IF 0 >= low THEN 0 ELSE low
        <4> HIDE DEF low
        <4> QED  BY <2>1, PairMin DEF low
      <3>2. low \in Int
        BY <2>1
      <3> HIDE DEF low
      <3>3. (IF 0 >= low THEN 0 ELSE low) \in Nat
        BY <3>2
      <3> QED  BY <3>1, <3>3 DEF low
    <2>3. c = IF i >= 0 THEN i ELSE Panels!Max({0, Len(s) + i})
      BY DEF Panels!Cut
    <2> HIDE DEF c
    <2> QED  BY <2>2, <2>3
  <1>3. e \in Nat /\ e <= Len(s) /\ (c <= Len(s) => e = c)
    BY <1>1, <1>2, PairMin
  <1> HIDE DEF c, e
  <1>4. Panels!From(s, i) = SubSeq(s, c + 1, Len(s)) /\ Panels!UpTo(s, i) = SubSeq(s, 1, e)
    BY DEF Panels!From, Panels!UpTo, c, e
  <1>5. /\ SubSeq(s, c + 1, Len(s)) \in Seq(X)
        /\ Len(SubSeq(s, c + 1, Len(s))) = IF c + 1 <= Len(s) THEN Len(s) - (c + 1) + 1 ELSE 0
        /\ \A j \in 1..Len(s) - (c + 1) + 1 : SubSeq(s, c + 1, Len(s))[j] = s[c + 1 + j - 1]
    <2>1. \A j \in c + 1..Len(s) : s[j] \in X
      BY <1>1, <1>2
    <2> QED  BY <1>1, <1>2, <2>1, SubSeqProperties
  <1>6. /\ SubSeq(s, 1, e) \in Seq(X)
        /\ Len(SubSeq(s, 1, e)) = IF 1 <= e THEN e - 1 + 1 ELSE 0
    <2>1. \A j \in 1..e : s[j] \in X
      BY <1>1, <1>3
    <2> QED  BY <1>3, <2>1, SubSeqProperties
  <1>7. ASSUME i >= 0, i <= Len(s), NEW j \in i + 1..Len(s)
        PROVE  s[j] \in Panels!ToSet(Panels!From(s, i))
    <2> DEFINE r == SubSeq(s, c + 1, Len(s))
               k == j - i
    <2>1. k \in 1..Len(s) - (c + 1) + 1 /\ c + 1 + k - 1 = j /\ c = i
      BY <1>1, <1>2, <1>7
    <2>2. r[k] = s[j]
      BY <1>5, <2>1
    <2>3. DOMAIN r = 1..Len(r) /\ k \in 1..Len(r)
      BY <1>1, <1>2, <1>5, <1>7, <2>1, LenProperties
    <2> HIDE DEF r, k
    <2>4. s[j] \in Panels!ToSet(r)
      BY <2>2, <2>3 DEF Panels!ToSet
    <2> QED  BY <1>4, <2>4 DEF r
  <1>8. ASSUME i >= 0, i <= Len(s)
        PROVE  Len(Panels!From(s, i)) = Len(s) - i /\ Len(Panels!UpTo(s, i)) = i
    <2>1. c = i /\ e = i
      BY <1>1, <1>2, <1>3, <1>8
    <2> QED  BY <1>1, <1>4, <1>5, <1>6, <1>8, <2>1
  <1> QED  BY <1>4, <1>5, <1>6, <1>7, <1>8

(* Who has a receipt: each once, all who are registered.                   *)
Receipts(withLeader) == (IF withLeader THEN <<tx.leader>> ELSE <<>>) \o tx.voters

LEMMA RecordedUnfold ==
    ASSUME NEW w, Len(Receipts(w)) \in Nat
    PROVE  \E it : /\ it[0] = <<>> /\ Panels!Recorded(w) = it[Len(Receipts(w))]
                   /\ \A i \in 1..Len(Receipts(w)) :
                        it[i] = IF Receipts(w)[i] \in known \ Panels!ToSet(it[i - 1])
                                THEN Append(it[i - 1], Receipts(w)[i]) ELSE it[i - 1]
  <1> DEFINE r == Receipts(w)
             n == Len(r)
             After(i, old) == IF r[i] \in known \ Panels!ToSet(old) THEN Append(old, r[i]) ELSE old
             Run(k, g) == g = [i \in 0..k |->
                                 IF i = 0 THEN <<>>
                                 ELSE IF r[i] \in known \ Panels!ToSet(g[i - 1])
                                      THEN Append(g[i - 1], r[i]) ELSE g[i - 1]]
             C == {k \in 0..n : \E g : Run(k, g)}
  <1>1. 0 \in C
    <2> DEFINE h == [i \in 0..0 |-> <<>>]
    <2>1. Run(0, h) /\ 0 \in 0..n
      OBVIOUS
    <2> HIDE DEF h
    <2> QED  BY <2>1
  <1>2. ASSUME NEW k \in 1..n, k - 1 \in C PROVE k \in C
    <2>1. PICK g : Run(k - 1, g)
      BY <1>2
    <2> DEFINE h == [i \in 0..k |-> IF i = k THEN After(k, g[k - 1]) ELSE g[i]]
    <2>2. ASSUME NEW i \in 0..k
          PROVE  h[i] = IF i = 0 THEN <<>> ELSE After(i, h[i - 1])
      <3>1. CASE i = k
        BY <3>1
      <3>2. CASE i # k
        <4>1. i \in 0..(k - 1) /\ h[i] = g[i] /\ (i # 0 => h[i - 1] = g[i - 1])
          BY <3>2
        <4>2. g[i] = IF i = 0 THEN <<>> ELSE After(i, g[i - 1])
          BY <2>1, <4>1
        <4> HIDE DEF h, After
        <4> QED  BY <4>1, <4>2
      <3> QED  BY <3>1, <3>2
    <2>3. Run(k, h)
      BY <2>2
    <2>4. k \in 0..n
      OBVIOUS
    <2> HIDE DEF h, Run
    <2> QED  BY <2>3, <2>4
  <1>3. n \in C
    <2> HIDE DEF C
    <2> QED  BY <1>1, <1>2, Climb
  <1> DEFINE it == CHOOSE g : Run(n, g)
  <1>4. Run(n, it)
    <2> HIDE DEF Run
    <2> QED  BY <1>3
  <1>5. Panels!Recorded(w) = it[n]
    BY DEF Panels!Recorded, Receipts
  <1> HIDE DEF it
  <1>6. it[0] = <<>> /\ \A i \in 1..n : it[i] = After(i, it[i - 1])
    <2>1. it[0] = <<>>
      BY <1>4
    <2>2. ASSUME NEW i \in 1..n PROVE it[i] = After(i, it[i - 1])
      <3>1. i \in 0..n /\ i # 0
        OBVIOUS
      <3> QED  BY <1>4, <3>1
    <2> HIDE DEF After
    <2> QED  BY <2>1, <2>2
  <1> QED  BY <1>5, <1>6

LEMMA AppendedSet ==
    ASSUME NEW X, NEW s \in Seq(X), NEW x \in X
    PROVE  Panels!ToSet(Append(s, x)) = Panels!ToSet(s) \cup {x}
  <1>1. /\ Append(s, x) \in Seq(X) /\ Len(Append(s, x)) = Len(s) + 1 /\ Append(s, x)[Len(s) + 1] = x
        /\ \A i \in 1..Len(s) : Append(s, x)[i] = s[i]
    BY AppendProperties
  <1>2. Len(s) \in Nat /\ DOMAIN s = 1..Len(s) /\ DOMAIN Append(s, x) = 1..Len(s) + 1
    BY <1>1, LenProperties
  <1> QED  BY <1>1, <1>2 DEF Panels!ToSet

LEMMA RecordedFacts ==
    ASSUME NEW w \in BOOLEAN, NEW X, tx.voters \in Seq(X), tx.leader \in X
    PROVE  /\ Panels!Recorded(w) \in Seq(known)
           /\ ~w => /\ Len(Panels!Recorded(w)) <= Len(tx.voters)
                    /\ Panels!ToSet(tx.voters) \cap known \subseteq Panels!ToSet(Panels!Recorded(w))
                    /\ tx.voters \in Seq(known) /\ Panels!IsInjective(tx.voters)
                         => Panels!Recorded(w) = tx.voters
  <1> DEFINE r == Receipts(w)
             n == Len(r)
  <1>1. r \in Seq(X) /\ (~w => r = tx.voters)
    <2>1. <<tx.leader>> \in Seq(X) /\ <<>> \in Seq(X)
      OBVIOUS
    <2> QED  BY <2>1, ConcatProperties, ConcatEmptySeq DEF Receipts
  <1>2. n \in Nat /\ DOMAIN r = 1..n
    BY <1>1, LenProperties
  <1>3. PICK it : /\ it[0] = <<>> /\ Panels!Recorded(w) = it[n]
                  /\ \A i \in 1..n : it[i] = IF r[i] \in known \ Panels!ToSet(it[i - 1])
                                           THEN Append(it[i - 1], r[i]) ELSE it[i - 1]
    BY <1>2, RecordedUnfold
  <1> HIDE DEF r, n
  <1> DEFINE P(k) == /\ it[k] \in Seq(known) /\ Len(it[k]) <= k
                     /\ \A j \in 1..k : r[j] \in known => r[j] \in Panels!ToSet(it[k])
             C == {k \in 0..n : P(k)}
  <1>4. 0 \in C
    <2>1. <<>> \in Seq(known) /\ Len(<<>>) <= 0
      OBVIOUS
    <2>2. 0 \in 0..n /\ \A j \in 1..0 : FALSE
      BY <1>2
    <2>3. it[0] = <<>>
      BY <1>3
    <2>4. P(0)
      BY <2>1, <2>2, <2>3
    <2> HIDE DEF P
    <2> QED  BY <2>2, <2>4
  <1>5. ASSUME NEW k \in 1..n, k - 1 \in C PROVE k \in C
    <2> DEFINE old == it[k - 1]
    <2>1. /\ old \in Seq(known) /\ Len(old) <= k - 1 /\ Len(old) \in Nat
          /\ \A j \in 1..k - 1 : r[j] \in known => r[j] \in Panels!ToSet(old)
      BY <1>5, LenProperties
    <2>2. it[k] = IF r[k] \in known \ Panels!ToSet(old) THEN Append(old, r[k]) ELSE old
      BY <1>3
    <2> HIDE DEF old
    <2>3. k \in 0..n /\ \A j \in 1..k : j \in 1..k - 1 \/ j = k
      BY <1>2
    <2>4. CASE r[k] \in known \ Panels!ToSet(old)
      <3>1. /\ Append(old, r[k]) \in Seq(known) /\ Len(Append(old, r[k])) = Len(old) + 1
            /\ Panels!ToSet(Append(old, r[k])) = Panels!ToSet(old) \cup {r[k]}
        BY <2>1, <2>4, AppendProperties, AppendedSet
      <3>2. Len(old) + 1 <= k
        BY <1>2, <2>1
      <3> QED  BY <2>1, <2>2, <2>3, <2>4, <3>1, <3>2
    <2>5. CASE r[k] \notin known \ Panels!ToSet(old)
      <3>1. Len(old) <= k
        BY <1>2, <2>1
      <3> QED  BY <2>1, <2>2, <2>3, <2>5, <3>1
    <2> QED  BY <2>4, <2>5
  <1>6. P(n)
    <2>1. n \in C
      <3> HIDE DEF C
      <3> QED  BY <1>2, <1>4, <1>5, Climb
    <2> QED  BY <2>1
  <1>7. ASSUME r \in Seq(known), Panels!IsInjective(r) PROVE it[n] = r
    <2> DEFINE Q(k) == it[k] \in Seq(known) /\ Len(it[k]) = k /\ \A j \in 1..k : it[k][j] = r[j]
               D == {k \in 0..n : Q(k)}
    <2>1. 0 \in D
      <3>1. <<>> \in Seq(known) /\ Len(<<>>) = 0
        OBVIOUS
      <3>2. 0 \in 0..n /\ \A j \in 1..0 : FALSE
        BY <1>2
      <3>3. it[0] = <<>>
        BY <1>3
      <3>4. Q(0)
        BY <3>1, <3>2, <3>3
      <3> HIDE DEF Q
      <3> QED  BY <3>2, <3>4
    <2>2. ASSUME NEW k \in 1..n, k - 1 \in D PROVE k \in D
      <3> DEFINE old == it[k - 1]
      <3>1. old \in Seq(known) /\ Len(old) = k - 1 /\ \A j \in 1..k - 1 : old[j] = r[j]
        BY <2>2
      <3> HIDE DEF old
      <3>2. r[k] \in known
        BY <1>7, ElementOfSeq DEF n
      <3>3. r[k] \notin Panels!ToSet(old)
        <4>1. ASSUME NEW j \in 1..k - 1, old[j] = r[k] PROVE FALSE
          <5>1. j \in 1..n /\ j # k /\ r[j] = r[k]
            BY <1>2, <3>1, <4>1
          <5> QED  BY <1>2, <1>7, <5>1 DEF Panels!IsInjective
        <4>2. DOMAIN old = 1..k - 1
          BY <3>1, LenProperties
        <4> QED  BY <4>1, <4>2 DEF Panels!ToSet
      <3>4. it[k] = Append(old, r[k])
        BY <1>3, <3>2, <3>3 DEF old
      <3>5. /\ Append(old, r[k]) \in Seq(known) /\ Len(Append(old, r[k])) = k
            /\ \A j \in 1..k - 1 : Append(old, r[k])[j] = r[j]
            /\ Append(old, r[k])[k] = r[k]
        <4>1. k - 1 + 1 = k
          BY <1>2
        <4> QED  BY <3>1, <3>2, <4>1, AppendProperties
      <3>6. k \in 0..n /\ \A j \in 1..k : j \in 1..k - 1 \/ j = k
        BY <1>2
      <3> QED  BY <3>4, <3>5, <3>6
    <2>3. n \in D
      <3> HIDE DEF D
      <3> QED  BY <1>2, <2>1, <2>2, Climb
    <2>4. Q(n)
      BY <2>3
    <2> QED  BY <1>7, <2>4, SeqEqual DEF n
  <1>8. ASSUME ~w PROVE Panels!ToSet(tx.voters) \cap known \subseteq Panels!ToSet(Panels!Recorded(w))
    BY <1>1, <1>2, <1>3, <1>6, <1>8 DEF Panels!ToSet
  <1>9. ~w => r = tx.voters /\ n = Len(tx.voters)
    BY <1>1 DEF n
  <1> QED  BY <1>3, <1>6, <1>7, <1>8, <1>9

(* The numbers that the panels and the cuts are computed with.             *)
LEMMA BaseFacts ==
    ASSUME NEW f \in Nat \ {0}, NEW l \in Nat
    PROVE  LET n == Panels!BaseAfter(f, l)
           IN /\ n \in Int /\ n <= l
              /\ f = 1 => 2 * n <= l - 1 /\ l <= 2 * n + 2
              /\ f > 1 => (2 * f - 1) * n <= l - 2 /\ l - 2 < (2 * f - 1) * n + (2 * f - 1)
  <1> DEFINE n == Panels!BaseAfter(f, l)
             d == 2 * f - 1
  <1>1. CASE f = 1
    <2>1. n = (l + 1 - 2) \div 2
      BY <1>1 DEF Panels!BaseAfter
    <2> HIDE DEF n
    <2>2. n \in Int /\ 2 * n <= l - 1 /\ l <= 2 * n + 2
      BY <2>1
    <2>3. n <= l
      BY <2>2
    <2> QED  BY <1>1, <2>2, <2>3 DEF n
  <1>2. CASE f > 1
    <2>1. n = (l + 1 - 3) \div d
      BY <1>2 DEF Panels!BaseAfter
    <2>2. d \in Nat /\ d > 0
      BY <1>2
    <2> HIDE DEF n, d
    <2>3. \A a \in Int, b \in Nat \ {0} : /\ a \div b \in Int /\ b * (a \div b) <= a
                                         /\ a < b * (a \div b) + b
      OBVIOUS
    <2>4. n \in Int /\ d * n <= l + 1 - 3 /\ l + 1 - 3 < d * n + d
      BY <2>1, <2>2, <2>3
    <2>5. d * n \in Int
      BY <2>2, <2>4
    <2>6. n <= l
      <3>1. \A a \in Nat \ {0}, b \in Nat : b <= a * b
        OBVIOUS
      <3>2. CASE n \in Nat
        BY <2>2, <2>4, <2>5, <3>1, <3>2
      <3>3. CASE n \notin Nat
        BY <2>4, <3>3
      <3> QED  BY <3>2, <3>3
    <2>7. d * n <= l - 2 /\ l - 2 < d * n + d
      BY <2>2, <2>4, <2>5
    <2> QED  BY <1>2, <2>4, <2>6, <2>7 DEF n, d
  <1> QED  BY <1>1, <1>2

(* An appeal that fails leaves receipts of which the next panel keeps all  *)
(* that the last one had: n does not become larger than what is before.    *)
LEMMA SecondBase ==
    ASSUME NEW l \in Nat, NEW k \in Nat, k <= l + 3
    PROVE  Panels!BaseAfter(1, l + k) <= l + 1
  <1> DEFINE n == Panels!BaseAfter(1, l + k)
  <1>1. n \in Int /\ 2 * n <= l + k - 1
    BY BaseFacts
  <1> HIDE DEF n
  <1>2. n <= l + 1
    BY <1>1
  <1> QED  BY <1>2 DEF n

LEMMA ThirdBase ==
    ASSUME NEW l \in Nat, NEW k \in Nat, k <= l + 2, Panels!BaseAfter(1, l) > 0
    PROVE  Panels!BaseAfter(2, Panels!BaseAfter(1, l) - 1 + k) <= Panels!BaseAfter(1, l)
  <1> DEFINE n == Panels!BaseAfter(1, l)
             more == n - 1 + k
             next == Panels!BaseAfter(2, more)
  <1>1. n \in Int /\ l <= 2 * n + 2 /\ n > 0
    BY BaseFacts
  <1> HIDE DEF n
  <1>2. more \in Nat
    BY <1>1
  <1>3. next \in Int /\ 3 * next <= more - 2
    <2> DEFINE f == 2
    <2>1. f \in Nat \ {0} /\ f > 1 /\ 2 * f - 1 = 3 /\ next = Panels!BaseAfter(f, more)
      OBVIOUS
    <2> HIDE DEF more, f, next
    <2> QED  BY <1>2, <2>1, BaseFacts
  <1> HIDE DEF next
  <1>4. 3 * next <= n + k - 3
    BY <1>1, <1>3
  <1>5. next <= n
    BY <1>1, <1>3, <1>4
  <1> QED  BY <1>5 DEF n, next, more

LEMMA LaterBase ==
    ASSUME NEW f \in Nat, f > 1, NEW l \in Nat, Panels!BaseAfter(f, l) > 0
    PROVE  Panels!BaseAfter(f + 1, l + 2 * Panels!BaseAfter(f, l)) <= Panels!BaseAfter(f, l)
  <1> DEFINE n == Panels!BaseAfter(f, l)
             more == l + 2 * n
             next == Panels!BaseAfter(f + 1, more)
             d == 2 * f - 1
             e == 2 * (f + 1) - 1
  <1>1. n \in Nat /\ l - 2 < d * n + d
    BY BaseFacts
  <1> HIDE DEF n
  <1>2. more \in Nat
    BY <1>1
  <1>3. next \in Int /\ e * next <= more - 2
    <2> HIDE DEF more
    <2> QED  BY <1>2, BaseFacts
  <1>4. e = d + 2 /\ d \in Nat
    OBVIOUS
  <1> HIDE DEF next, d, e
  <1>5. (d + 2) * next < (d + 2) * (n + 1)
    <2>1. (d + 2) * (n + 1) = d * n + d + 2 * n + 2
      BY <1>1, <1>4
    <2>2. d * n \in Nat /\ (d + 2) * next \in Int
      BY <1>1, <1>3, <1>4
    <2>3. (d + 2) * next <= l + 2 * n - 2
      <3>1. (d + 2) * next <= more - 2
        BY <1>3, <1>4, Zenon
      <3>2. more - 2 = l + 2 * n - 2
        BY <1>1
      <3> HIDE DEF more
      <3> QED  BY <3>1, <3>2, Zenon
    <2> QED  BY <1>1, <1>4, <2>1, <2>2, <2>3
  <1>6. next <= n
    <2>1. \A a \in Nat \ {0}, x \in Int, y \in Int : a * x < a * y => x < y
      OBVIOUS
    <2>2. next < n + 1
      BY <1>1, <1>3, <1>4, <1>5, <2>1
    <2> QED  BY <1>1, <1>3, <2>2
  <1> QED  BY <1>6 DEF n, next, more

(* The inductive invariant: what the row says of those who voted.          *)
Judged == {"ACCEPTED", "VALIDATORS_TIMEOUT"}
InTable(failed, voters) ==
    Panels!IsInjective(voters) /\ (failed > 0 => Panels!BaseAfter(failed, Len(voters)) > 0)
PanelFits(failed, voters, k) ==
    InTable(failed, voters) =>
        (failed = 0 => k <= Len(voters) + 3) /\ (failed = 1 => k <= Len(voters) + 2)
JuryKept(failed, voters, members) ==
    LET n == Panels!BaseAfter(failed, Len(voters))
    IN n > 0 => \A v \in members : \E i \in n..Len(voters) : voters[i] = v

TxOk ==
    /\ tx = [status |-> tx.status, leader |-> tx.leader, voters |-> tx.voters,
             failed |-> tx.failed, appealed |-> tx.appealed]
    /\ tx.leader \in Nat /\ tx.voters \in Seq(known) /\ tx.failed \in Nat
    /\ strayed \in BOOLEAN
GoodRound(r) ==
    /\ r = [at |-> r.at, leader |-> r.leader, rest |-> r.rest, rotations |-> r.rotations,
            leaderAppeal |-> r.leaderAppeal]
    /\ r.leader \in Nat /\ r.rest \in Seq(known)
    /\ r.at = "judge" =>
         /\ tx.status \in Judged /\ r.rest # <<>>
         /\ PanelFits(tx.failed, tx.voters, Len(r.rest))
RoundOk == GoodRound(round)
VotesOk ==
    tx.status \in Judged =>
        /\ jury = {} => decided \subseteq {tx.leader} \cup Panels!ToSet(tx.voters)
        /\ jury # {} /\ ~strayed /\ tx.failed > 0 => JuryKept(tx.failed, tx.voters, jury)
PanelInv == (\E m \in Nat : known = 1..m) /\ TxOk /\ RoundOk /\ VotesOk

LEMMA KnownFacts ==
    ASSUME PanelInv
    PROVE  /\ known \subseteq Nat /\ tx.voters \in Seq(Nat) /\ round.rest \in Seq(Nat)
           /\ IsFiniteSet(known)
  <1>1. PICK m \in Nat : known = 1..m
    BY DEF PanelInv
  <1>2. known \subseteq Nat
    BY <1>1
  <1>3. IsFiniteSet(known)
    BY <1>1, FS_Interval
  <1> QED  BY <1>2, <1>3, SeqMonotonic DEF PanelInv, TxOk, RoundOk, GoodRound

LEMMA SamplesOfKnown ==
    ASSUME PanelInv, NEW from \in SUBSET known, NEW k, NEW s \in Panels!Samples(k, from)
    PROVE  s \in Seq(known) /\ s \in Seq(from) /\ Len(s) \in Nat /\ (k \in Int => Len(s) <= k)
  <1>1. PICK m \in Nat : known = 1..m
    BY DEF PanelInv
  <1>2. s \in Seq(from) /\ Len(s) \in Nat /\ (k \in Int => Len(s) <= k)
    BY <1>1, SampleFacts
  <1> QED  BY <1>2, SeqMonotonic

LEMMA RecordedOfKnown ==
    ASSUME PanelInv, NEW w \in BOOLEAN
    PROVE  /\ Panels!Recorded(w) \in Seq(known) /\ Len(Panels!Recorded(w)) \in Nat
           /\ ~w => /\ Len(Panels!Recorded(w)) <= Len(tx.voters)
                    /\ Panels!ToSet(tx.voters) \subseteq Panels!ToSet(Panels!Recorded(w))
                    /\ Panels!IsInjective(tx.voters) => Panels!Recorded(w) = tx.voters
  <1>1. tx.voters \in Seq(Nat) /\ tx.leader \in Nat /\ tx.voters \in Seq(known)
    BY KnownFacts DEF PanelInv, TxOk
  <1>2. Panels!ToSet(tx.voters) \subseteq known
    <2>1. DOMAIN tx.voters = 1..Len(tx.voters)
      BY <1>1, LenProperties
    <2> QED  BY <1>1, <2>1, ElementOfSeq DEF Panels!ToSet
  <1>3. /\ Panels!Recorded(w) \in Seq(known)
        /\ ~w => /\ Len(Panels!Recorded(w)) <= Len(tx.voters)
                 /\ Panels!ToSet(tx.voters) \cap known \subseteq Panels!ToSet(Panels!Recorded(w))
                 /\ tx.voters \in Seq(known) /\ Panels!IsInjective(tx.voters)
                      => Panels!Recorded(w) = tx.voters
    BY <1>1, RecordedFacts
  <1> QED  BY <1>1, <1>2, <1>3, LenProperties

(* The members of a list.                                                  *)
LEMMA MembersOf ==
    ASSUME NEW X, NEW s \in Seq(X)
    PROVE  /\ Panels!ToSet(s) \subseteq X /\ (s # <<>> => Panels!ToSet(s) # {})
           /\ \A i \in 1..Len(s) : s[i] \in Panels!ToSet(s)
           /\ \A v \in Panels!ToSet(s) : \E i \in 1..Len(s) : s[i] = v
  <1>1. DOMAIN s = 1..Len(s) /\ Len(s) \in Nat
    BY LenProperties
  <1>2. s # <<>> => 1 \in 1..Len(s)
    BY <1>1, EmptySeq
  <1> QED  BY <1>1, <1>2, ElementOfSeq DEF Panels!ToSet

LEMMA JoinedLists ==
    ASSUME NEW X, NEW s \in Seq(X), NEW t \in Seq(X)
    PROVE  /\ s \o t \in Seq(X) /\ Len(s \o t) = Len(s) + Len(t)
           /\ \A v \in Panels!ToSet(t) : \E i \in Len(s) + 1..Len(s \o t) : (s \o t)[i] = v
           /\ Panels!ToSet(s \o t) = Panels!ToSet(s) \cup Panels!ToSet(t)
  <1>1. /\ s \o t \in Seq(X) /\ Len(s \o t) = Len(s) + Len(t)
        /\ \A i \in 1..Len(s) + Len(t) : (s \o t)[i] = IF i <= Len(s) THEN s[i] ELSE t[i - Len(s)]
    BY ConcatProperties
  <1>2. /\ Len(s) \in Nat /\ Len(t) \in Nat /\ DOMAIN s = 1..Len(s) /\ DOMAIN t = 1..Len(t)
        /\ DOMAIN (s \o t) = 1..Len(s) + Len(t)
    BY <1>1, LenProperties
  <1>3. ASSUME NEW j \in 1..Len(t)
        PROVE  Len(s) + j \in Len(s) + 1..Len(s \o t) /\ (s \o t)[Len(s) + j] = t[j]
    <2>1. Len(s) + j \in 1..Len(s) + Len(t) /\ ~(Len(s) + j <= Len(s)) /\ Len(s) + j - Len(s) = j
      BY <1>2
    <2> QED  BY <1>1, <1>2, <2>1
  <1>4. ASSUME NEW i \in 1..Len(s) PROVE i \in 1..Len(s) + Len(t) /\ (s \o t)[i] = s[i]
    <2>1. i \in 1..Len(s) + Len(t) /\ i <= Len(s)
      BY <1>2
    <2> QED  BY <1>1, <2>1
  <1>5. \A v \in Panels!ToSet(t) : \E i \in Len(s) + 1..Len(s \o t) : (s \o t)[i] = v
    BY <1>2, <1>3 DEF Panels!ToSet
  <1>6. ASSUME NEW i \in 1..Len(s) + Len(t)
        PROVE  (s \o t)[i] \in Panels!ToSet(s) \cup Panels!ToSet(t)
    <2>1. CASE i <= Len(s)
      <3>1. i \in 1..Len(s)
        BY <1>2, <2>1
      <3> QED  BY <1>2, <1>4, <3>1 DEF Panels!ToSet
    <2>2. CASE ~(i <= Len(s))
      <3>1. i - Len(s) \in 1..Len(t)
        BY <1>2, <2>2
      <3> QED  BY <1>1, <1>2, <2>2, <3>1 DEF Panels!ToSet
    <2> QED  BY <2>1, <2>2
  <1>7. Panels!ToSet(s) \subseteq Panels!ToSet(s \o t)
    BY <1>2, <1>4 DEF Panels!ToSet
  <1>8. Panels!ToSet(t) \subseteq Panels!ToSet(s \o t)
    <2>1. \A j \in 1..Len(t) : Len(s) + j \in 1..Len(s) + Len(t)
      BY <1>2
    <2> QED  BY <1>2, <1>3, <2>1 DEF Panels!ToSet
  <1>9. Panels!ToSet(s \o t) \subseteq Panels!ToSet(s) \cup Panels!ToSet(t)
    BY <1>2, <1>6 DEF Panels!ToSet
  <1> QED  BY <1>1, <1>5, <1>7, <1>8, <1>9

(* A vote is proposed among validators that are registered.                *)
LEMMA Proposed ==
    ASSUME PanelInv, NEW involved \in Seq(known), NEW n, NEW b, Panels!Propose(involved, n, b)
    PROVE  GoodRound(round')
  <1>1. PICK l \in Panels!ToSet(involved) :
           round' = [at |-> "vote", leader |-> l,
                     rest |-> Panels!Ascending(Panels!ToSet(involved) \ {l}),
                     rotations |-> n, leaderAppeal |-> b]
    BY DEF Panels!Propose
  <1>2. PICK m \in Nat : known = 1..m
    BY DEF PanelInv
  <1> DEFINE S == Panels!ToSet(involved) \ {l}
  <1>3. S \in SUBSET (1..m) /\ l \in Nat
    BY <1>2, MembersOf
  <1> HIDE DEF S
  <1>4. Panels!Ascending(S) \in Seq(known)
    BY <1>2, <1>3, AscendingFacts, SeqMonotonic
  <1> QED  BY <1>1, <1>3, <1>4 DEF S, GoodRound

(* A step that leaves the row as it is, but for the flag of an appeal.     *)
SameRow ==
    /\ known' = known /\ decided' = decided /\ jury' = jury /\ strayed' = strayed
    /\ tx' = tx \/ tx' = [tx EXCEPT !.appealed = FALSE]
LEMMA RoundChanges == ASSUME PanelInv, SameRow, GoodRound(round') PROVE PanelInv'
  <1>1. /\ tx'.status = tx.status /\ tx'.leader = tx.leader /\ tx'.voters = tx.voters
        /\ tx'.failed = tx.failed
        /\ tx' = [status |-> tx'.status, leader |-> tx'.leader, voters |-> tx'.voters,
                  failed |-> tx'.failed, appealed |-> tx'.appealed]
    BY DEF PanelInv, TxOk, SameRow
  <1>2. TxOk'
    BY <1>1 DEF PanelInv, TxOk, SameRow
  <1>3. RoundOk'
    BY <1>1 DEF RoundOk, GoodRound, SameRow
  <1>4. VotesOk'
    BY <1>1 DEF PanelInv, VotesOk, SameRow
  <1> QED  BY <1>2, <1>3, <1>4 DEF PanelInv, SameRow

LEMMA BeginKeeps == PanelInv /\ Panels!Begin => PanelInv'
  <1> SUFFICES ASSUME PanelInv, Panels!Begin PROVE PanelInv'
    OBVIOUS
  <1> DEFINE again == IF tx.leader = 0 THEN <<>> ELSE Panels!Recorded(~tx.appealed)
  <1>1. again \in Seq(known)
    <2>1. Panels!Recorded(~tx.appealed) \in Seq(known)
      BY RecordedOfKnown
    <2> QED  BY <2>1
  <1>2. PICK involved \in IF again = <<>> THEN Panels!Samples(initial, known) ELSE {again} :
           Panels!Propose(involved, 0, FALSE)
    BY DEF Panels!Begin
  <1>3. involved \in Seq(known)
    <2> HIDE DEF again
    <2> QED  BY <1>1, <1>2, SamplesOfKnown
  <1>4. GoodRound(round')
    BY <1>2, <1>3, Proposed
  <1>5. SameRow
    BY DEF Panels!Begin, SameRow
  <1> QED  BY <1>4, <1>5, RoundChanges

LEMMA ReplaceLeaderKeeps == PanelInv /\ Panels!ReplaceLeader => PanelInv'
  <1> SUFFICES ASSUME PanelInv, Panels!ReplaceLeader PROVE PanelInv'
    OBVIOUS
  <1>1. Head(round.rest) \in Nat /\ Tail(round.rest) \in Seq(known)
    BY HeadTailProperties, KnownFacts DEF PanelInv, RoundOk, GoodRound, Panels!ReplaceLeader
  <1>2. GoodRound(round')
    BY <1>1 DEF PanelInv, RoundOk, GoodRound, Panels!ReplaceLeader
  <1>3. SameRow
    BY DEF Panels!ReplaceLeader, SameRow
  <1> QED  BY <1>2, <1>3, RoundChanges

LEMMA RotateKeeps == PanelInv /\ Panels!Rotate => PanelInv'
  <1> SUFFICES ASSUME PanelInv, Panels!Rotate PROVE PanelInv'
    OBVIOUS
  <1>1. PICK new \in Panels!Samples(1, known \ (Panels!ToSet(round.rest) \cup leaders')) :
           Panels!Propose(new \o round.rest, round.rotations + 1, round.leaderAppeal)
    BY DEF Panels!Rotate
  <1>2. new \o round.rest \in Seq(known)
    <2>1. new \in Seq(known) /\ round.rest \in Seq(known)
      BY <1>1, SamplesOfKnown DEF PanelInv, RoundOk, GoodRound
    <2> QED  BY <2>1, ConcatProperties
  <1>3. GoodRound(round')
    BY <1>1, <1>2, Proposed
  <1>4. SameRow
    BY DEF Panels!Rotate, SameRow
  <1> QED  BY <1>3, <1>4, RoundChanges

LEMMA LeaderAppealKeeps == PanelInv /\ Panels!LeaderAppeal => PanelInv'
  <1> SUFFICES ASSUME PanelInv, Panels!LeaderAppeal PROVE PanelInv'
    OBVIOUS
  <1> DEFINE voted == Panels!Recorded(FALSE)
  <1>1. PICK new \in Panels!First((known \ Panels!ToSet(voted)) \ leaders) :
           Panels!Propose(voted \o new, 0, TRUE)
    BY DEF Panels!LeaderAppeal
  <1>2. voted \o new \in Seq(known)
    <2>1. voted \in Seq(known)
      BY RecordedOfKnown
    <2>2. new \in Seq(known)
      <3>1. new \in Panels!Samples(Len(voted) + 3, (known \ Panels!ToSet(voted)) \ leaders)
        BY <1>1 DEF Panels!First
      <3> QED  BY <3>1, SamplesOfKnown
    <2> QED  BY <2>1, <2>2, ConcatProperties
  <1>3. GoodRound(round')
    BY <1>1, <1>2, Proposed
  <1>4. SameRow
    BY DEF Panels!LeaderAppeal, SameRow
  <1> QED  BY <1>3, <1>4, RoundChanges

LEMMA ReplaceJurorKeeps == PanelInv /\ Panels!ReplaceJuror => PanelInv'
  <1> SUFFICES ASSUME PanelInv, Panels!ReplaceJuror PROVE PanelInv'
    OBVIOUS
  <1>1. PICK i \in DOMAIN round.rest, v \in known \ Panels!ToSet(round.rest) :
           round' = [round EXCEPT !.rest[i] = v]
    BY DEF Panels!ReplaceJuror
  <1> DEFINE rest == [round.rest EXCEPT ![i] = v]
  <1>2. round.rest \in Seq(known) /\ DOMAIN round.rest = 1..Len(round.rest)
    BY LenProperties DEF PanelInv, RoundOk, GoodRound
  <1>3. rest \in Seq(known) /\ Len(rest) = Len(round.rest) /\ rest # <<>>
    <2>1. rest \in Seq(known) /\ Len(rest) = Len(round.rest)
      BY <1>1, <1>2, ExceptSeq
    <2>2. Len(round.rest) # 0
      BY <1>1, <1>2
    <2> QED  BY <2>1, <2>2, EmptySeq
  <1>4. round' = [round EXCEPT !.rest = rest]
    BY <1>1
  <1> HIDE DEF rest
  <1>5. GoodRound(round')
    BY <1>3, <1>4 DEF PanelInv, RoundOk, GoodRound
  <1>6. SameRow
    BY DEF Panels!ReplaceJuror, SameRow
  <1> QED  BY <1>5, <1>6, RoundChanges

(* The panel of an appeal, and how many sit on it.                         *)
LEMMA PanelFacts ==
    ASSUME PanelInv, NEW panel \in Panels!Panels
    PROVE  LET l == Len(tx.voters)
               n == Panels!Base(l)
               right == InTable(tx.failed, tx.voters)
           IN /\ panel \in Seq(known) /\ PanelFits(tx.failed, tx.voters, Len(panel))
              /\ tx.failed = 0 => panel \in Seq(known \ Panels!ToSet(tx.voters))
              /\ right /\ tx.failed > 0 =>
                   \A i \in n..l : tx.voters[i] \in Panels!ToSet(panel)
  <1> DEFINE voted == Panels!Recorded(FALSE)
             unused == (known \ Panels!ToSet(voted)) \ Panels!ClaimedLeaders
             l == Len(tx.voters)
             n == Panels!Base(Len(voted))
  <1>1. /\ voted \in Seq(known) /\ Len(voted) \in Nat /\ Len(voted) <= l
        /\ Panels!ToSet(tx.voters) \subseteq Panels!ToSet(voted)
        /\ Panels!IsInjective(tx.voters) => voted = tx.voters
    BY RecordedOfKnown
  <1>2. tx.failed \in Nat /\ l \in Nat /\ tx.voters \in Seq(known)
    BY LenProperties DEF PanelInv, TxOk
  <1> HIDE DEF voted, l
  <1>3. CASE tx.failed = 0
    <2>1. panel \in Panels!Samples(Len(voted) + 3, unused)
      BY <1>3 DEF Panels!Panels, Panels!First, voted
    <2> HIDE DEF unused
    <2>2. unused \subseteq known \ Panels!ToSet(tx.voters)
      BY <1>1 DEF unused
    <2>3. unused \in SUBSET known /\ Len(voted) + 3 \in Int
      BY <1>1, <2>2
    <2>4. /\ panel \in Seq(known) /\ panel \in Seq(unused) /\ Len(panel) \in Nat
          /\ Len(panel) <= Len(voted) + 3
      BY <2>1, <2>3, SamplesOfKnown
    <2>5. panel \in Seq(known \ Panels!ToSet(tx.voters))
      BY <2>2, <2>4, SeqMonotonic
    <2>6. PanelFits(tx.failed, tx.voters, Len(panel))
      <3>1. Len(panel) <= l + 3
        BY <1>1, <1>2, <2>4
      <3> QED  BY <1>3, <3>1 DEF PanelFits, l
    <2> QED  BY <1>3, <2>4, <2>5, <2>6
  <1>4. CASE tx.failed > 0
    <2>1. /\ ~(n < 0)
          /\ \E new \in Panels!Samples(IF tx.failed = 1 THEN n + 1 ELSE 2 * n, unused) :
               panel = Panels!From(voted, n - 1) \o new
      <3>1. panel \in Panels!Later(unused)
        <4>1. Panels!Panels = IF unused = {} THEN {}
                              ELSE IF tx.failed = 0 THEN Panels!First(unused)
                              ELSE Panels!Later(unused)
          BY Zenon DEF Panels!Panels, voted
        <4>2. tx.failed # 0
          BY <1>4
        <4> HIDE DEF unused
        <4> QED  BY <4>1, <4>2
      <3> HIDE DEF unused
      <3> QED  BY <3>1 DEF Panels!Later, voted
    <2>2. PICK new \in Panels!Samples(IF tx.failed = 1 THEN n + 1 ELSE 2 * n, unused) :
             panel = Panels!From(voted, n - 1) \o new
      BY <2>1
    <2>3. n \in Int /\ n <= Len(voted)
      <3>1. tx.failed \in Nat \ {0} /\ n = Panels!BaseAfter(tx.failed, Len(voted))
        BY <1>2, <1>4 DEF Panels!Base
      <3> HIDE DEF n
      <3> QED  BY <1>1, <3>1, BaseFacts
    <2> HIDE DEF n, unused
    <2>4. unused \in SUBSET known
      BY DEF unused
    <2>5. /\ new \in Seq(known) /\ Len(new) \in Nat
          /\ tx.failed = 1 => Len(new) <= n + 1
      <3>1. tx.failed = 1 => n + 1 \in Int /\ new \in Panels!Samples(n + 1, unused)
        BY <2>2, <2>3
      <3> QED  BY <2>2, <2>4, <3>1, SamplesOfKnown
    <2>6. /\ Panels!From(voted, n - 1) \in Seq(known)
          /\ n - 1 >= 0 /\ n - 1 <= Len(voted) =>
               /\ Len(Panels!From(voted, n - 1)) = Len(voted) - (n - 1)
               /\ \A j \in n - 1 + 1..Len(voted) :
                    voted[j] \in Panels!ToSet(Panels!From(voted, n - 1))
      <3>1. n - 1 \in Int
        BY <2>3
      <3> QED  BY <1>1, <3>1, SliceFacts
    <2>7. /\ panel \in Seq(known) /\ Len(panel) = Len(Panels!From(voted, n - 1)) + Len(new)
          /\ Panels!ToSet(panel) = Panels!ToSet(Panels!From(voted, n - 1)) \cup Panels!ToSet(new)
      BY <2>2, <2>5, <2>6, JoinedLists
    <2>8. ASSUME InTable(tx.failed, tx.voters)
          PROVE  /\ tx.failed = 1 => Len(panel) <= l + 2
                 /\ \A i \in n..l : tx.voters[i] \in Panels!ToSet(panel)
                 /\ n = Panels!Base(l)
      <3>1. voted = tx.voters /\ n = Panels!Base(l) /\ n > 0 /\ Len(voted) = l
        BY <1>1, <1>4, <2>8 DEF InTable, Panels!Base, n, l
      <3>2. n - 1 >= 0 /\ n - 1 <= Len(voted) /\ n - 1 + 1 = n
        BY <1>1, <2>3, <3>1
      <3>3. /\ Len(Panels!From(voted, n - 1)) = l - (n - 1)
            /\ \A j \in n..l : tx.voters[j] \in Panels!ToSet(Panels!From(voted, n - 1))
        BY <2>6, <3>1, <3>2
      <3>4. tx.failed = 1 => Len(panel) <= l + 2
        BY <1>2, <2>3, <2>5, <2>7, <3>3
      <3> QED  BY <2>7, <3>1, <3>3, <3>4
    <2>9. PanelFits(tx.failed, tx.voters, Len(panel))
      BY <1>4, <2>8 DEF PanelFits, l
    <2> QED  BY <1>4, <2>7, <2>8, <2>9 DEF l
  <1> QED  BY <1>2, <1>3, <1>4

LEMMA ValidatorAppealKeeps == PanelInv /\ Panels!ValidatorAppeal => PanelInv'
  <1> SUFFICES ASSUME PanelInv, Panels!ValidatorAppeal PROVE PanelInv'
    OBVIOUS
  <1>1. PICK panel \in Panels!Panels \ {<<>>} :
           round' = [Panels!NoRound EXCEPT !.at = "judge", !.rest = panel]
    BY DEF Panels!ValidatorAppeal
  <1>2. panel \in Seq(known) /\ PanelFits(tx.failed, tx.voters, Len(panel)) /\ panel # <<>>
    BY <1>1, PanelFacts
  <1>3. tx.status \in Judged
    BY DEF Panels!ValidatorAppeal, Judged
  <1>4. GoodRound(round')
    BY <1>1, <1>2, <1>3 DEF GoodRound, Panels!NoRound
  <1>5. SameRow
    BY DEF Panels!ValidatorAppeal, SameRow
  <1> QED  BY <1>4, <1>5, RoundChanges

LEMMA NoRoundIsGood == ASSUME round' = Panels!NoRound, known' \subseteq Nat PROVE RoundOk'
  BY DEF RoundOk, GoodRound, Panels!NoRound

(* A decision: who takes part has a receipt, but for its leader.           *)
LEMMA Settled ==
    ASSUME PanelInv, NEW status, NEW voters \in Seq(known), NEW failed \in Nat,
           Panels!Settle(status, voters, failed), status \in Judged => voters = round.rest
    PROVE  PanelInv'
  <1>1. /\ tx' = [tx EXCEPT !.status = status, !.leader = round.leader, !.voters = voters,
                           !.failed = failed]
        /\ known' = known /\ jury' = {} /\ strayed' = FALSE /\ round' = Panels!NoRound
        /\ decided' = {round.leader} \cup Panels!ToSet(round.rest)
    BY DEF Panels!Settle
  <1>2. round.leader \in Nat
    BY DEF PanelInv, RoundOk, GoodRound
  <1>3. /\ tx' = [status |-> tx'.status, leader |-> tx'.leader, voters |-> tx'.voters,
                  failed |-> tx'.failed, appealed |-> tx'.appealed]
        /\ tx'.status = status /\ tx'.leader = round.leader /\ tx'.voters = voters
        /\ tx'.failed = failed
    BY <1>1 DEF PanelInv, TxOk
  <1>4. TxOk'
    BY <1>1, <1>2, <1>3 DEF TxOk
  <1>5. RoundOk'
    BY <1>1, KnownFacts, NoRoundIsGood
  <1>6. VotesOk'
    BY <1>1, <1>3 DEF VotesOk
  <1> QED  BY <1>1, <1>4, <1>5, <1>6 DEF PanelInv

LEMMA DecisionKeeps ==
    ASSUME PanelInv,
           Panels!LeaderTimeout \/ Panels!ValidatorsTimeout \/ Panels!Accept \/ Panels!Undetermined
    PROVE  PanelInv'
  <1>1. tx.failed \in Nat /\ round.rest \in Seq(known) /\ <<>> \in Seq(known)
    BY DEF PanelInv, TxOk, RoundOk, GoodRound
  <1>2. CASE Panels!LeaderTimeout
    <2>1. "LEADER_TIMEOUT" \notin Judged
      BY DEF Judged
    <2>2. Panels!Settle("LEADER_TIMEOUT", <<>>, tx.failed)
      BY <1>2 DEF Panels!LeaderTimeout
    <2> QED  BY <1>1, <2>1, <2>2, Settled
  <1>3. CASE Panels!ValidatorsTimeout
    <2>1. Panels!Settle("VALIDATORS_TIMEOUT", round.rest, tx.failed)
      BY <1>3 DEF Panels!ValidatorsTimeout
    <2> QED  BY <1>1, <2>1, Settled
  <1>4. CASE Panels!Accept
    <2> DEFINE failed == IF round.leaderAppeal THEN 0 ELSE tx.failed
    <2>1. Panels!Settle("ACCEPTED", round.rest, failed) /\ failed \in Nat
      BY <1>1, <1>4 DEF Panels!Accept
    <2> HIDE DEF failed
    <2> QED  BY <1>1, <2>1, Settled
  <1>5. CASE Panels!Undetermined
    <2> DEFINE failed == IF round.leaderAppeal THEN tx.failed + 1 ELSE tx.failed
    <2>1. Panels!Settle("UNDETERMINED", round.rest, failed) /\ failed \in Nat
      BY <1>1, <1>5 DEF Panels!Undetermined
    <2> HIDE DEF failed
    <2> QED  BY <1>1, <2>1, Settled
  <1> QED  BY <1>2, <1>3, <1>4, <1>5

LEMMA MergedType ==
    ASSUME PanelInv, NEW results \in Seq(known) PROVE Panels!Merged(results) \in Seq(known)
  <1>1. tx.voters \in Seq(known) /\ Len(tx.voters) \in Nat /\ Len(results) \in Nat
    BY LenProperties DEF PanelInv, TxOk
  <1> DEFINE n == IF tx.failed = 1 THEN (Len(tx.voters) - 1) \div 2
                  ELSE Len(results) - (Len(tx.voters) + 1)
  <1>2. n - 1 \in Int
    BY <1>1
  <1> HIDE DEF n
  <1>3. (IF tx.failed = 0 THEN tx.voters ELSE Panels!UpTo(tx.voters, n - 1)) \in Seq(known)
    BY <1>1, <1>2, SliceFacts
  <1> DEFINE kept == IF tx.failed = 0 THEN tx.voters ELSE Panels!UpTo(tx.voters, n - 1)
  <1>4. Panels!Merged(results) = kept \o results
    BY DEF Panels!Merged, n
  <1> HIDE DEF kept
  <1> QED  BY <1>3, <1>4, ConcatProperties DEF kept

LEMMA UpheldKeeps ==
    ASSUME PanelInv, Panels!AppealUpheld \/ Panels!Rollback PROVE PanelInv'
  <1>1. Panels!Merged(round.rest) \in Seq(known)
    BY MergedType DEF PanelInv, RoundOk, GoodRound
  <1>2. TxOk' /\ tx'.status = "PENDING" /\ known' = known
    <2>1. tx.failed \in Nat /\ 0 \in Nat /\ tx.leader \in Nat /\ tx.voters \in Seq(known)
      BY DEF PanelInv, TxOk
    <2>2. CASE Panels!AppealUpheld
      <3>1. /\ tx' = [tx EXCEPT !.voters = Panels!Merged(round.rest), !.failed = 0,
                               !.status = "PENDING", !.appealed = TRUE]
            /\ known' = known /\ strayed' = strayed
        BY <2>2 DEF Panels!AppealUpheld
      <3> QED  BY <1>1, <2>1, <3>1 DEF PanelInv, TxOk
    <2>3. CASE Panels!Rollback
      <3>1. tx' = [tx EXCEPT !.status = "PENDING"] /\ known' = known /\ strayed' = strayed
        BY <2>3 DEF Panels!Rollback
      <3> QED  BY <2>1, <3>1 DEF PanelInv, TxOk
    <2> QED  BY <2>2, <2>3
  <1>3. RoundOk'
    <2>1. CASE Panels!AppealUpheld
      BY <1>2, <2>1, KnownFacts, NoRoundIsGood DEF Panels!AppealUpheld
    <2>2. CASE Panels!Rollback
      BY <1>2, <2>2 DEF PanelInv, RoundOk, GoodRound, Panels!Rollback
    <2> QED  BY <2>1, <2>2
  <1>4. VotesOk'
    BY <1>2 DEF VotesOk, Judged
  <1> QED  BY <1>2, <1>3, <1>4 DEF PanelInv

(* An appeal that fails: those who judged it stand where the panel of the  *)
(* next one is taken from.                                                 *)
LEMMA RejectedKeepsJury ==
    ASSUME PanelInv, Panels!AppealRejected, ~strayed'
    PROVE  JuryKept(tx'.failed, tx'.voters, Panels!ToSet(round.rest))
  <1> DEFINE l == Len(tx.voters)
             k == Len(round.rest)
             f == tx.failed
             n == Panels!Base(l)
             kept == IF f = 0 THEN tx.voters ELSE Panels!UpTo(tx.voters, n - 1)
             next == Panels!BaseAfter(f + 1, Len(tx'.voters))
  <1>1. /\ l \in Nat /\ k \in Nat /\ f \in Nat /\ tx.voters \in Seq(known)
        /\ round.rest \in Seq(known)
    BY LenProperties DEF PanelInv, TxOk, RoundOk, GoodRound
  <1>2. /\ tx'.voters = Panels!Merged(round.rest) /\ tx'.failed = f + 1
        /\ Panels!ReceiptsAreRight /\ Panels!PanelIsFull /\ round.at = "judge"
    BY DEF PanelInv, TxOk, Panels!AppealRejected
  <1>3. Panels!IsInjective(tx.voters) /\ (f > 0 => n > 0)
    BY <1>2 DEF Panels!ReceiptsAreRight
  <1>4. (f = 0 => k <= l + 3) /\ (f = 1 => k <= l + 2)
    <2>1. InTable(f, tx.voters)
      BY <1>3 DEF InTable, Panels!Base
    <2>2. PanelFits(f, tx.voters, k)
      BY <1>2 DEF PanelInv, RoundOk, GoodRound
    <2> HIDE DEF f, k
    <2> QED  BY <2>1, <2>2 DEF PanelFits, l
  <1>5. f > 0 => n \in Nat /\ n <= l /\ n = Panels!BaseAfter(f, l)
    <2> HIDE DEF f, l
    <2>1. n = Panels!BaseAfter(f, l)
      BY DEF Panels!Base, f
    <2> HIDE DEF n
    <2> QED  BY <1>1, <1>3, <2>1, BaseFacts
  <1>6. f > 1 => k = l - (n - 1) + 2 * n
    <2>1. f > 1 => k = Len(Panels!From(tx.voters, n - 1)) + 2 * n
      BY <1>2 DEF Panels!PanelIsFull
    <2> HIDE DEF n, k, f
    <2>2. ASSUME f > 1 PROVE Len(Panels!From(tx.voters, n - 1)) = l - (n - 1)
      <3>1. n - 1 \in Int /\ n - 1 >= 0 /\ n - 1 <= l
        BY <1>1, <1>3, <1>5, <2>2
      <3> QED  BY <1>1, <3>1, SliceFacts
    <2> QED  BY <2>1, <2>2
  <1>7. Panels!Merged(round.rest) = kept \o round.rest
    <2> DEFINE m == IF f = 1 THEN (l - 1) \div 2 ELSE k - (l + 1)
    <2>1. Panels!Merged(round.rest)
            = (IF f = 0 THEN tx.voters ELSE Panels!UpTo(tx.voters, m - 1)) \o round.rest
      BY Zenon DEF Panels!Merged
    <2>2. f > 0 => m = n
      <3>1. f = 1 => n = (l - 1) \div 2
        <4> HIDE DEF n, l, f
        <4>1. f = 1 => n = Panels!BaseAfter(1, l)
          BY <1>5
        <4>2. Panels!BaseAfter(1, l) = (l + 1 - 2) \div 2
          BY DEF Panels!BaseAfter
        <4>3. l + 1 - 2 = l - 1
          BY <1>1
        <4> QED  BY <4>1, <4>2, <4>3
      <3>2. f = 1 => m = n
        <4> HIDE DEF n, l, k, f
        <4> QED  BY <3>1
      <3>3. f > 1 => m = n
        <4> HIDE DEF n, l, k, f
        <4>1. f > 1 => m = k - (l + 1)
          OBVIOUS
        <4>2. f > 1 => n \in Nat
          BY <1>1, <1>5
        <4>3. \A a \in Nat, b \in Nat : a - (b - 1) + 2 * b - (a + 1) = b
          OBVIOUS
        <4> HIDE DEF m
        <4> QED  BY <1>1, <1>6, <4>1, <4>2, <4>3
      <3>4. f > 0 => f = 1 \/ f > 1
        <4> HIDE DEF f
        <4> QED  BY <1>1
      <3> HIDE DEF m, n, l, k, f
      <3> QED  BY <3>2, <3>3, <3>4
    <2>3. f = 0 \/ f > 0
      BY <1>1
    <2> HIDE DEF m, n, f
    <2> QED  BY <2>1, <2>2, <2>3
  <1>8. /\ kept \in Seq(known) /\ (f = 0 => Len(kept) = l) /\ (f > 0 => Len(kept) = n - 1)
    <2>1. CASE f = 0
      BY <1>1, <2>1
    <2>2. CASE f > 0
      <3> HIDE DEF n, l, f
      <3>1. n - 1 \in Int /\ n - 1 >= 0 /\ n - 1 <= l
        BY <1>1, <1>3, <1>5, <2>2
      <3>2. Panels!UpTo(tx.voters, n - 1) \in Seq(known) /\ Len(Panels!UpTo(tx.voters, n - 1)) = n - 1
        BY <1>1, <3>1, SliceFacts DEF l
      <3> QED  BY <2>2, <3>2
    <2> QED  BY <1>1, <2>1, <2>2
  <1> HIDE DEF kept
  <1>9. /\ Len(tx'.voters) = Len(kept) + k
        /\ \A v \in Panels!ToSet(round.rest) :
             \E i \in Len(kept) + 1..Len(tx'.voters) : tx'.voters[i] = v
    <2> HIDE DEF next, n, l, f
    <2>1. kept \in Seq(known) /\ round.rest \in Seq(known) /\ tx'.voters = kept \o round.rest
      BY <1>1, <1>2, <1>7, <1>8
    <2>2. \A s, t \in Seq(known) :
             /\ Len(s \o t) = Len(s) + Len(t)
             /\ \A v \in Panels!ToSet(t) : \E i \in Len(s) + 1..Len(s \o t) : (s \o t)[i] = v
      BY ONLY JoinedLists
    <2>3. /\ Len(kept \o round.rest) = Len(kept) + Len(round.rest)
          /\ \A v \in Panels!ToSet(round.rest) :
               \E i \in Len(kept) + 1..Len(kept \o round.rest) : (kept \o round.rest)[i] = v
      BY ONLY <2>1, <2>2
    <2> QED  BY <2>1, <2>3
  <1>10. next <= Len(kept) + 1 /\ next \in Int
    <2>1. next \in Int
      <3>1. Len(tx'.voters) \in Nat /\ f + 1 \in Nat \ {0}
        BY <1>1, <1>8, <1>9, LenProperties
      <3> HIDE DEF f
      <3> QED  BY <3>1, BaseFacts
    <2>2. CASE f = 0
      <3>1. next = Panels!BaseAfter(1, l + k) /\ k <= l + 3 /\ Len(kept) = l
        <4> HIDE DEF l, k, f, n
        <4>1. f + 1 = 1 /\ Len(kept) = l /\ k <= l + 3 /\ Len(tx'.voters) = l + k
          BY <1>4, <1>8, <1>9, <2>2
        <4> QED  BY <4>1
      <3> HIDE DEF next, l, k, f
      <3> QED  BY <1>1, <2>1, <3>1, SecondBase
    <2>3. CASE f = 1
      <3>1. /\ next = Panels!BaseAfter(2, n - 1 + k) /\ k <= l + 2 /\ Len(kept) = n - 1
            /\ n = Panels!BaseAfter(1, l) /\ n > 0 /\ n \in Nat
        BY <1>3, <1>4, <1>5, <1>8, <1>9, <2>3
      <3> HIDE DEF next, l, k, f, n
      <3>2. next <= n
        BY <1>1, <3>1, ThirdBase
      <3> QED  BY <2>1, <3>1, <3>2
    <2>4. CASE f > 1
      <3>1. /\ n = Panels!BaseAfter(f, l) /\ n > 0 /\ n \in Nat /\ Len(kept) = n - 1
            /\ k = l - (n - 1) + 2 * n /\ Len(tx'.voters) = n - 1 + k
        <4> HIDE DEF l, k, f, n
        <4>1. f > 0
          BY <1>1, <2>4
        <4> QED  BY <1>3, <1>5, <1>6, <1>8, <1>9, <2>4, <4>1
      <3> HIDE DEF l, k, f, n
      <3>2. Len(tx'.voters) = l + 2 * n
        <4>1. \A a \in Nat, b \in Nat : b - 1 + (a - (b - 1) + 2 * b) = a + 2 * b
          OBVIOUS
        <4> HIDE DEF next
        <4> QED  BY <1>1, <3>1, <4>1
      <3>3. next = Panels!BaseAfter(f + 1, l + 2 * Panels!BaseAfter(f, l))
        BY <3>1, <3>2
      <3> HIDE DEF next
      <3>4. next <= n
        BY <1>1, <2>4, <3>1, <3>3, LaterBase
      <3> QED  BY <2>1, <3>1, <3>4
    <2> QED  BY <1>1, <2>2, <2>3, <2>4
  <1>11. JuryKept(f + 1, tx'.voters, Panels!ToSet(round.rest))
    <2>1. Len(kept) \in Nat /\ Len(tx'.voters) \in Nat
      BY <1>1, <1>8, <1>9, LenProperties
    <2> HIDE DEF next, k
    <2>2. \A i \in Len(kept) + 1..Len(tx'.voters) : i \in next..Len(tx'.voters)
      BY <1>10, <2>1
    <2> QED  BY <1>9, <2>2 DEF JuryKept, next
  <1> QED  BY <1>2, <1>11

LEMMA RejectedKeeps == PanelInv /\ Panels!AppealRejected => PanelInv'
  <1> SUFFICES ASSUME PanelInv, Panels!AppealRejected PROVE PanelInv'
    OBVIOUS
  <1>1. Panels!Merged(round.rest) \in Seq(known)
    BY MergedType DEF PanelInv, RoundOk, GoodRound
  <1>2. /\ tx' = [tx EXCEPT !.voters = Panels!Merged(round.rest), !.failed = @ + 1]
        /\ jury' = Panels!ToSet(round.rest) /\ known' = known /\ round' = Panels!NoRound
        /\ strayed' \in BOOLEAN
    BY DEF Panels!AppealRejected
  <1>3. TxOk' /\ tx'.status = tx.status /\ tx'.failed > 0
    <2>1. /\ tx.failed \in Nat /\ tx.leader \in Nat /\ tx.failed + 1 \in Nat /\ tx.failed + 1 > 0
          /\ tx = [status |-> tx.status, leader |-> tx.leader, voters |-> tx.voters,
                   failed |-> tx.failed, appealed |-> tx.appealed]
      BY DEF PanelInv, TxOk
    <2>2. /\ tx'.status = tx.status /\ tx'.leader = tx.leader /\ tx'.appealed = tx.appealed
          /\ tx'.voters = Panels!Merged(round.rest) /\ tx'.failed = tx.failed + 1
          /\ tx' = [status |-> tx'.status, leader |-> tx'.leader, voters |-> tx'.voters,
                    failed |-> tx'.failed, appealed |-> tx'.appealed]
      BY <1>2, <2>1
    <2> QED  BY <1>1, <1>2, <2>1, <2>2 DEF TxOk
  <1>4. RoundOk'
    BY <1>2, KnownFacts, NoRoundIsGood
  <1>5. jury' # {}
    <2>1. round.rest # <<>> /\ round.rest \in Seq(known)
      BY DEF PanelInv, RoundOk, GoodRound, Panels!AppealRejected
    <2> QED  BY <1>2, <2>1, MembersOf
  <1>6. ~strayed' => JuryKept(tx'.failed, tx'.voters, jury')
    BY <1>2, RejectedKeepsJury
  <1>7. VotesOk'
    BY <1>5, <1>6 DEF VotesOk
  <1> QED  BY <1>2, <1>3, <1>4, <1>7 DEF PanelInv

LEMMA JoinKeeps == PanelInv /\ Panels!Join => PanelInv'
  <1> SUFFICES ASSUME PanelInv, Panels!Join PROVE PanelInv'
    OBVIOUS
  <1>1. /\ known' = known \cup {Panels!Cardinality(known) + 1}
        /\ tx' = tx /\ round' = round /\ decided' = decided /\ jury' = jury /\ strayed' = strayed
    BY DEF Panels!Join
  <1>2. PICK m \in Nat : known = 1..m
    BY DEF PanelInv
  <1>3. known' = 1..m + 1
    <2>1. Panels!Cardinality(known) = m
      BY <1>2, FS_Interval, SameCardinality
    <2> QED  BY <1>1, <1>2, <2>1
  <1>4. Seq(known) \subseteq Seq(known')
    BY <1>1, SeqMonotonic
  <1>5. TxOk' /\ RoundOk' /\ VotesOk'
    BY <1>1, <1>4 DEF PanelInv, TxOk, RoundOk, GoodRound, VotesOk
  <1>6. m + 1 \in Nat
    OBVIOUS
  <1> QED  BY <1>3, <1>5, <1>6 DEF PanelInv

LEMMA PanelInit == Panels!Init => PanelInv
  <1> SUFFICES ASSUME Panels!Init PROVE PanelInv
    OBVIOUS
  <1>1. known = 1..env.registered /\ env.registered \in Nat
    BY ServicesAssumption DEF Panels!Init
  <1>2. TxOk
    <2>1. <<>> \in Seq(known) /\ 0 \in Nat
      OBVIOUS
    <2>2. /\ tx = [status |-> "PENDING", leader |-> 0, voters |-> <<>>, failed |-> 0,
                   appealed |-> FALSE]
          /\ strayed = FALSE
      BY DEF Panels!Init
    <2> QED  BY <2>1, <2>2 DEF TxOk
  <1>3. RoundOk
    BY DEF Panels!Init, RoundOk, GoodRound, Panels!NoRound
  <1>4. VotesOk
    BY DEF Panels!Init, VotesOk, Judged
  <1> QED  BY <1>1, <1>2, <1>3, <1>4 DEF PanelInv

LEMMA PanelStep == PanelInv /\ (Panels!Next \/ UNCHANGED panelVars) => PanelInv'
  <1> SUFFICES ASSUME PanelInv, Panels!Next \/ UNCHANGED panelVars PROVE PanelInv'
    OBVIOUS
  <1>1. CASE UNCHANGED panelVars
    BY <1>1 DEF panelVars, PanelInv, TxOk, RoundOk, GoodRound, VotesOk
  <1>2. CASE Panels!Next
    BY <1>2, BeginKeeps, ReplaceLeaderKeeps, DecisionKeeps, RotateKeeps, LeaderAppealKeeps,
       ValidatorAppealKeeps, ReplaceJurorKeeps, RejectedKeeps, UpheldKeeps, JoinKeeps
       DEF Panels!Next
  <1> QED  BY <1>1, <1>2

(* The panel that an appeal begins with.                                   *)
LEMMA PanelDue ==
    ASSUME PanelInv, Panels!Next, round.at = "none", round'.at = "judge"
    PROVE  Panels!Due({round'.rest[i] : i \in DOMAIN round'.rest})
  <1> DEFINE members == {round'.rest[i] : i \in DOMAIN round'.rest}
  <1>1. Panels!ValidatorAppeal
    <2>1. \A involved, n, b : ~Panels!Propose(involved, n, b)
      <3> SUFFICES ASSUME NEW involved, NEW n, NEW b, Panels!Propose(involved, n, b) PROVE FALSE
        OBVIOUS
      <3>1. PICK l, rest : round' = [at |-> "vote", leader |-> l, rest |-> rest,
                                     rotations |-> n, leaderAppeal |-> b]
        BY Zenon DEF Panels!Propose
      <3> QED  BY <3>1
    <2>2. ~Panels!Begin /\ ~Panels!Rotate /\ ~Panels!LeaderAppeal
      BY <2>1, Zenon DEF Panels!Begin, Panels!Rotate, Panels!LeaderAppeal
    <2>3. /\ ~Panels!LeaderTimeout /\ ~Panels!ValidatorsTimeout /\ ~Panels!Accept
          /\ ~Panels!Undetermined
      BY DEF Panels!LeaderTimeout, Panels!ValidatorsTimeout, Panels!Accept,
             Panels!Undetermined, Panels!Settle
    <2>4. /\ ~Panels!ReplaceLeader /\ ~Panels!ReplaceJuror /\ ~Panels!AppealRejected
          /\ ~Panels!AppealUpheld /\ ~Panels!Rollback /\ ~Panels!Join
      BY DEF Panels!ReplaceLeader, Panels!ReplaceJuror, Panels!AppealRejected,
             Panels!AppealUpheld, Panels!Rollback, Panels!Join
    <2> QED  BY <2>2, <2>3, <2>4, Zenon DEF Panels!Next
  <1>2. PICK panel \in Panels!Panels \ {<<>>} :
           round' = [Panels!NoRound EXCEPT !.at = "judge", !.rest = panel]
    BY <1>1 DEF Panels!ValidatorAppeal
  <1>3. members = Panels!ToSet(panel)
    BY <1>2 DEF Panels!NoRound, Panels!ToSet
  <1> HIDE DEF members
  <1> SUFFICES ASSUME Panels!CountIsRight, Panels!ReceiptsAreRight, ~strayed
               PROVE  IF jury = {} THEN decided \cap members \subseteq {tx.leader}
                      ELSE jury \subseteq members
    BY DEF Panels!Due, members
  <1>4. /\ tx.status \in Judged /\ tx.failed \in Nat /\ tx.voters \in Seq(known)
        /\ InTable(tx.failed, tx.voters)
    BY <1>1 DEF PanelInv, TxOk, Judged, Panels!ValidatorAppeal, Panels!ReceiptsAreRight, InTable,
                Panels!Base
  <1>5. CASE jury = {}
    <2>1. tx.failed = 0
      BY <1>4, <1>5 DEF Panels!CountIsRight
    <2>2. panel \in Seq(known \ Panels!ToSet(tx.voters))
      BY <1>2, <2>1, PanelFacts
    <2>3. members \cap Panels!ToSet(tx.voters) = {}
      BY <1>3, <2>2, MembersOf
    <2>4. decided \subseteq {tx.leader} \cup Panels!ToSet(tx.voters)
      BY <1>4, <1>5 DEF PanelInv, VotesOk
    <2> QED  BY <1>5, <2>3, <2>4
  <1>6. CASE jury # {}
    <2>1. tx.failed > 0
      BY <1>6 DEF Panels!CountIsRight
    <2>2. \A i \in Panels!Base(Len(tx.voters))..Len(tx.voters) :
             tx.voters[i] \in Panels!ToSet(panel)
      BY <1>2, <1>4, <2>1, PanelFacts
    <2>3. JuryKept(tx.failed, tx.voters, jury)
      BY <1>4, <1>6, <2>1 DEF PanelInv, VotesOk
    <2>4. Panels!Base(Len(tx.voters)) > 0
      BY <1>4, <2>1 DEF InTable, Panels!Base
    <2> QED  BY <1>3, <1>6, <2>2, <2>3, <2>4 DEF JuryKept, Panels!Base
  <1> QED  BY <1>5, <1>6

(* However many validators there are and whatever is appealed: nobody who  *)
(* voted on a decision sits on the first panel that judges it but its      *)
(* leader, and whoever confirmed it last sits on the next one, as long as  *)
(* the receipts are those of the table and the count was reset (base.py    *)
(* get_extra_validators, decisions.py merge_appeal_validators).            *)
THEOREM PanelsAreDue == Spec => PanelIsDue
  <1> DEFINE I == part = "panels" => PanelInv
             WhoIsDue == part = "panels" /\ round.at = "none" /\ round'.at = "judge" =>
                            Panels!Due({round'.rest[i] : i \in DOMAIN round'.rest})
  <1>1. Init => I
    BY PanelInit DEF Init
  <1>2. I /\ [Next]_vars => I'
    <2> SUFFICES ASSUME I, [Next]_vars, part' = "panels" PROVE PanelInv'
      OBVIOUS
    <2>1. part = "panels" /\ (Panels!Next \/ UNCHANGED panelVars)
      BY DEF Next, vars
    <2> QED
      BY <2>1, PanelStep
  <1>3. I /\ [Next]_vars => [WhoIsDue]_vars
    <2> SUFFICES ASSUME I, Next, part = "panels", round.at = "none", round'.at = "judge"
                 PROVE  Panels!Due({round'.rest[i] : i \in DOMAIN round'.rest})
      OBVIOUS
    <2>1. Panels!Next
      BY DEF Next
    <2> QED
      BY <2>1, PanelDue
  <1>4. PanelIsDue <=> [][WhoIsDue]_vars
    BY DEF PanelIsDue
  <1> HIDE DEF I, WhoIsDue
  <1> QED
    BY <1>1, <1>2, <1>3, <1>4, PTL DEF Spec
=============================================================================
