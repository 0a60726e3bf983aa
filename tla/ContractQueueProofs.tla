------------------------ MODULE ContractQueueProofs ------------------------
(***************************************************************************)
(* Type correctness of the queue and the facts its workers rest on, for    *)
(* every number of transactions, workers, contracts, retries, crashes,     *)
(* errors and appeals: LeaseHeld, SerialExecution on top of it, and, with  *)
(* no condition on the environment, LeaseNotStolen and DecisionKept; then  *)
(* DecidedHasResult, which rests on the leases.                            *)
(*                                                                         *)
(* LeaseHeld is inductive together with TypeOK: every step either moves a  *)
(* task within its lease (Quiet), ends one, begins one on a row without a  *)
(* live lease, or touches the lease of a row nobody works on.              *)
(***************************************************************************)
EXTENDS ContractQueue, TLAPS

(* The sets of statuses that the queries name are statuses of rows there.  *)
LEMMA StatusFacts ==
    /\ Eligible \subseteq Status \ {"ABSENT"}
    /\ Terminal \subseteq Status \ {"ABSENT"}
    /\ {"PENDING", "PROCESSING", "CANCELED"} \subseteq Status \ {"ABSENT"}
BY DEF Eligible, Terminal, Status

(* The values that actions create rows, tasks and counters from are typed. *)
LEMMA InitialValues ==
    /\ NewRow \in Rows
    /\ NoTask \in Tasks
    /\ NoTask.pc = "idle"
    /\ NoTries \in [Retry -> [Tx -> 0..MaxRetries - 1]]
<1>1. /\ "ABSENT" \in Status /\ "PENDING" \in Status \ {"ABSENT"} /\ 1 \in Tx
      /\ 0 \in 0..MaxRetries - 1 /\ "transaction" \in Kinds /\ "idle" \in Places
  BY QueueAssumption DEF Status, Kinds, Tx, Places
<1>2. NewRow \in Rows
  BY <1>1 DEF NewRow, Rows
<1>3. NoTask \in Tasks /\ NoTask.pc = "idle"
  BY <1>1 DEF NoTask, Tasks
<1>4. NoTries \in [Retry -> [Tx -> 0..MaxRetries - 1]]
  BY <1>1 DEF NoTries
<1> QED
  BY <1>2, <1>3, <1>4

-----------------------------------------------------------------------------
(* Type correctness, one part of the state after the other.                *)

(* The updates of a row that keep or change a field by a condition.        *)
LEMMA RowUpdates ==
    ASSUME NEW r \in Rows, NEW a \in BOOLEAN, NEW b \in BOOLEAN, NEW s \in Status
    PROVE  /\ [r EXCEPT !.status = IF a THEN "PROCESSING" ELSE @, !.appealed = FALSE,
                        !.flag = IF b THEN @ ELSE "none"] \in Rows
           /\ [r EXCEPT !.appealed = FALSE, !.flag = "undetermined",
                        !.status = "PROCESSING"] \in Rows
           /\ [r EXCEPT !.status = "PROCESSING", !.appealed = @ /\ ~a,
                        !.flag = IF a THEN "timeout" ELSE @] \in Rows
           /\ [r EXCEPT !.status = s, !.elapsed = b, !.appealed = @ /\ a,
                        !.timeoutAppeal = FALSE, !.flag = IF a THEN "none" ELSE @] \in Rows
BY StatusFacts DEF Rows

(* The updates of one field, and of a status with its result.              *)
LEMMA FieldUpdates ==
    ASSUME NEW r \in Rows, NEW a \in BOOLEAN, NEW s \in Status,
           NEW d \in {"null", "receipt", "note"}
    PROVE  /\ [r EXCEPT !.status = s] \in Rows
           /\ [r EXCEPT !.appealed = a] \in Rows
           /\ [r EXCEPT !.elapsed = a] \in Rows
           /\ [r EXCEPT !.status = s, !.elapsed = a] \in Rows
           /\ [r EXCEPT !.status = s, !.result = d] \in Rows
           /\ [r EXCEPT !.status = s, !.result = d, !.elapsed = a] \in Rows
BY DEF Rows

(* A table in which one row becomes another row.                           *)
LEMMA TableUpdate ==
    ASSUME NEW T \in [Tx -> Rows], NEW t \in Tx, NEW r \in Rows
    PROVE  [T EXCEPT ![t] = r] \in [Tx -> Rows]
OBVIOUS

(* The row that recovery puts back in the queue.                           *)
LEMMA RecoveredRow ==
    ASSUME NEW r \in Rows
    PROVE  [r EXCEPT !.status = "PENDING", !.result = "null",
                     !.timeoutAppeal = FALSE, !.recovery = @ + 1] \in Rows
<1> DEFINE n == r.recovery + 1
<1>1. n \in Nat
  BY DEF Rows
<1> HIDE DEF n
<1>2. [r EXCEPT !.status = "PENDING", !.result = "null",
                !.timeoutAppeal = FALSE, !.recovery = n] \in Rows
  BY <1>1, StatusFacts DEF Rows
<1> QED
  BY <1>2 DEF n

(* The row that an appeal of a leader timeout leaves.                      *)
LEMMA TimeoutAppealRow ==
    ASSUME NEW r \in Rows
    PROVE  [r EXCEPT !.appealed = FALSE,
                     !.flag = IF @ = "undetermined" THEN "none" ELSE @] \in Rows
<1> DEFINE f == IF r.flag = "undetermined" THEN "none" ELSE r.flag
<1>1. f \in {"none", "undetermined", "timeout"}
  BY DEF Rows
<1> HIDE DEF f
<1>2. [r EXCEPT !.appealed = FALSE, !.flag = f] \in Rows
  BY <1>1 DEF Rows
<1> QED
  BY <1>2 DEF f

(* A table in which a row is canceled.                                     *)
LEMMA CanceledTable ==
    ASSUME NEW t \in Tx, tx \in [Tx -> Rows] PROVE Canceled(t) \in [Tx -> Rows]
<1> DEFINE r == [tx[t] EXCEPT !.status = "CANCELED", !.result = "note"]
<1>1. r \in Rows
  BY StatusFacts, FieldUpdates, Zenon
<1>2. Canceled(t) = [tx EXCEPT ![t] = r]
  BY Zenon DEF Canceled
<1> QED
  BY <1>1, <1>2, TableUpdate

(* Whatever users, time and recovery do to a row, it remains one.          *)
LEMMA RowsByUsers ==
    ASSUME TypeOK, NEW t \in Tx, Users(t) \/ Clock(t) \/ Recovery(t)
    PROVE  tx' \in [Tx -> Rows]
<1>1. tx \in [Tx -> Rows]
  BY DEF TypeOK
<1>2. CASE Submit(t)
  <2>1. [tx[t] EXCEPT !.status = "PENDING"] \in Rows
    BY <1>1, StatusFacts, FieldUpdates, Zenon
  <2>2. tx' = [tx EXCEPT ![t] = [tx[t] EXCEPT !.status = "PENDING"]]
    BY <1>2 DEF Submit
  <2> QED
    BY <1>1, <2>1, <2>2, TableUpdate
<1>3. CASE Cancel(t)
  <2>1. [tx[t] EXCEPT !.status = "CANCELED"] \in Rows
    BY <1>1, StatusFacts, FieldUpdates, Zenon
  <2>2. tx' = [tx EXCEPT ![t] = [tx[t] EXCEPT !.status = "CANCELED"]]
    BY <1>3 DEF Cancel
  <2> QED
    BY <1>1, <2>1, <2>2, TableUpdate
<1>4. CASE Appeal(t)
  <2>1. [tx[t] EXCEPT !.appealed = TRUE] \in Rows
    BY <1>1, StatusFacts, FieldUpdates, Zenon
  <2>2. tx' = [tx EXCEPT ![t] = [tx[t] EXCEPT !.appealed = TRUE]]
    BY <1>4 DEF Appeal
  <2> QED
    BY <1>1, <2>1, <2>2, TableUpdate
<1>5. CASE WindowElapses(t)
  <2>1. [tx[t] EXCEPT !.elapsed = TRUE] \in Rows
    BY <1>1, StatusFacts, FieldUpdates, Zenon
  <2>2. tx' = [tx EXCEPT ![t] = [tx[t] EXCEPT !.elapsed = TRUE]]
    BY <1>5 DEF WindowElapses
  <2> QED
    BY <1>1, <2>1, <2>2, TableUpdate
<1>6. CASE Escalate(t)
  <2> DEFINE r == [tx[t] EXCEPT !.status = "CANCELED",
                                !.result = IF @ = "null" THEN "note" ELSE @]
  <2>1. r \in Rows
    BY <1>1, StatusFacts DEF Rows
  <2>2. tx' = [tx EXCEPT ![t] = r]
    BY <1>6 DEF Escalate
  <2> QED
    BY <1>1, <2>1, <2>2, TableUpdate
<1>7. CASE Recover(t)
  <2> DEFINE r == [tx[t] EXCEPT !.status = "PENDING", !.result = "null",
                                !.timeoutAppeal = FALSE, !.recovery = @ + 1]
  <2>1. r \in Rows
    BY <1>1, RecoveredRow, Zenon
  <2>2. tx' = [tx EXCEPT ![t] = r]
    BY <1>7 DEF Recover
  <2> QED
    BY <1>1, <2>1, <2>2, TableUpdate
<1>8. CASE UNCHANGED tx
  BY <1>8, <1>1
<1> QED
  BY <1>2, <1>3, <1>4, <1>5, <1>6, <1>7, <1>8 DEF Users, Clock, Recovery,
     LeaseExpires, ProgressStalls, ReleaseOrphan

(* Whatever a worker commits to a row, it remains one.                     *)
LEMMA RowsByTasks ==
    ASSUME TypeOK, NEW w \in Workers, Step(w) \/ Fail(w)
    PROVE  tx' \in [Tx -> Rows]
<1>1. tx \in [Tx -> Rows]
  BY DEF TypeOK
<1>2. /\ task[w].tx \in Tx /\ task[w].todo \subseteq Tx
      /\ task[w].was \in Status /\ task[w].outcome \in Status
  BY DEF TypeOK, Tasks
<1>3. CASE Upgrade(w) \/ EndUpgrade(w)
  BY <1>3, <1>1, <1>2, StatusFacts DEF Upgrade, EndUpgrade, Rows
<1>4. CASE Transfer(w)
  <2> DEFINE r == [tx[task[w].tx] EXCEPT !.status = "FINALIZED"]
             u == [tx[task[w].tx] EXCEPT !.status = "UNDETERMINED", !.elapsed = FALSE]
  <2>1. {"FINALIZED", "UNDETERMINED"} \subseteq Status
    BY DEF Status, Eligible, Terminal
  <2>2. r \in Rows /\ u \in Rows
    BY <1>1, <1>2, <2>1, FieldUpdates, Zenon
  <2>3. tx' = [tx EXCEPT ![task[w].tx] = r] \/ tx' = [tx EXCEPT ![task[w].tx] = u]
    BY <1>4 DEF Transfer
  <2> QED
    BY <1>1, <1>2, <2>2, <2>3, TableUpdate
<1>5. CASE Propose(w)
  <2> DEFINE t == task[w].tx
             leader == /\ tx[t].flag = "undetermined"
                       /\ tx[t].appealed \/ tx[t].result # "null"
             readable == leader \/ tx[t].result # "note"
             r == [tx[t] EXCEPT !.status = IF readable THEN "PROCESSING" ELSE @,
                                !.appealed = FALSE,
                                !.flag = IF leader THEN @ ELSE "none"]
  <2>1. t \in Tx /\ tx[t] \in Rows /\ leader \in BOOLEAN /\ readable \in BOOLEAN
    BY <1>1, <1>2
  <2>2. tx' = [tx EXCEPT ![t] = r]
    BY <1>5, Zenon DEF Propose
  <2> HIDE DEF t, leader, readable
  <2>3. r \in Rows
    BY <2>1, RowUpdates, StatusFacts, Zenon
  <2> QED
    BY <1>1, <2>2, <2>3
<1>6. CASE Decide(w)
  BY <1>6, <1>1, <1>2, StatusFacts DEF Decide, Rows
<1>7. CASE Conclude(w)
  BY <1>7, <1>1, <1>2, StatusFacts DEF Conclude, Rows
<1>8. CASE Rollback(w)
  BY <1>8, <1>1, <1>2, StatusFacts DEF Rollback, Rows
<1>9. CASE Requeue(w)
  BY <1>9, <1>1, <1>2, StatusFacts DEF Requeue, Rows
<1>10. CASE LeaderAppeal(w)
  <2>1. CASE tx' = [tx EXCEPT ![task[w].tx].appealed = FALSE]
    <3>1. [tx[task[w].tx] EXCEPT !.appealed = FALSE] \in Rows
      BY <1>1, <1>2, FieldUpdates, Zenon
    <3> QED
      BY <1>1, <1>2, <2>1, <3>1, TableUpdate
  <2>2. CASE tx' = [tx EXCEPT ![task[w].tx] = [@ EXCEPT !.appealed = FALSE,
                                !.flag = "undetermined", !.status = "PROCESSING"]]
    <3>1. [tx[task[w].tx] EXCEPT !.appealed = FALSE, !.flag = "undetermined",
                                 !.status = "PROCESSING"] \in Rows
      BY <1>1, <1>2, RowUpdates, StatusFacts, Zenon
    <3> QED
      BY <1>1, <2>2, <3>1, Zenon
  <2> QED
    BY <1>10, <2>1, <2>2 DEF LeaderAppeal
<1>11. CASE LeaderTimeoutAppeal(w)
  <2> DEFINE r == [tx[task[w].tx] EXCEPT !.appealed = FALSE,
                     !.flag = IF @ = "undetermined" THEN "none" ELSE @]
  <2>1. r \in Rows
    BY <1>1, <1>2, TimeoutAppealRow, Zenon
  <2>2. tx' = [tx EXCEPT ![task[w].tx] = r]
    BY <1>11 DEF LeaderTimeoutAppeal
  <2> QED
    BY <1>1, <2>1, <2>2
<1>12. CASE ValidatorAppeal(w)
  <2> DEFINE timeout == task[w].was = "VALIDATORS_TIMEOUT"
             r == [tx[task[w].tx] EXCEPT !.status = "PROCESSING", !.appealed = @ /\ ~timeout,
                                         !.flag = IF timeout THEN "timeout" ELSE @]
  <2>1. CASE UNCHANGED tx
    BY <1>1, <2>1
  <2>2. CASE tx' = [tx EXCEPT ![task[w].tx].appealed = FALSE]
    <3>1. [tx[task[w].tx] EXCEPT !.appealed = FALSE] \in Rows
      BY <1>1, <1>2, FieldUpdates
    <3> QED
      BY <1>1, <1>2, <2>2, <3>1, TableUpdate
  <2>3. CASE tx' = [tx EXCEPT ![task[w].tx] = r]
    <3>1. tx[task[w].tx] \in Rows /\ timeout \in BOOLEAN
      BY <1>1, <1>2
    <3> HIDE DEF timeout
    <3>2. r \in Rows
      BY <3>1, RowUpdates, StatusFacts, Zenon
    <3> QED
      BY <1>1, <2>3, <3>2, Zenon
  <2> QED
    BY <1>12, <2>1, <2>2, <2>3 DEF ValidatorAppeal
<1>13. CASE RejectAppeal(w)
  <2> DEFINE odd == task[w].was = "ACCEPTED" /\ tx[task[w].tx].flag = "undetermined"
             r(e) == [tx[task[w].tx] EXCEPT
                        !.status = task[w].was, !.elapsed = e, !.appealed = @ /\ odd,
                        !.timeoutAppeal = FALSE, !.flag = IF odd THEN "none" ELSE @]
  <2>0. PICK e \in BOOLEAN :
          tx' = [tx EXCEPT ![task[w].tx].status = task[w].was, ![task[w].tx].elapsed = e,
                           ![task[w].tx].appealed = @ /\ odd,
                           ![task[w].tx].timeoutAppeal = FALSE,
                           ![task[w].tx].flag = IF odd THEN "none" ELSE @]
    BY <1>13, Zenon DEF RejectAppeal
  <2>1. tx' = [tx EXCEPT ![task[w].tx] = r(e)]
    BY <2>0, Zenon
  <2>2. tx[task[w].tx] \in Rows /\ odd \in BOOLEAN
    BY <1>1, <1>2
  <2> HIDE DEF odd
  <2>3. r(e) \in Rows
    BY <1>2, <2>2, RowUpdates, Zenon
  <2> QED
    BY <1>1, <2>1, <2>3, ZenonT(40)
<1>14. CASE UpholdAppeal(w)
  BY <1>14, <1>1, <1>2, StatusFacts DEF UpholdAppeal, Rows
<1>15. CASE Finalize(w)
  BY <1>15, <1>1, <1>2, StatusFacts DEF Finalize, Terminal, Rows
<1>16. CASE Raise(w)
  BY <1>16, <1>1, <1>2, CanceledTable DEF Raise, HandleGeneric
<1>17. CASE HandleNoValidators(w)
  BY <1>17, <1>1, <1>2, CanceledTable DEF HandleNoValidators
<1>18. CASE HandleMissing(w)
  <2> DEFINE r == IF task[w].kind = "transaction"
                  THEN [tx[task[w].tx] EXCEPT !.status = "ACCEPTED", !.result = "receipt",
                                              !.elapsed = FALSE]
                  ELSE [tx[task[w].tx] EXCEPT !.status = "FINALIZED"]
  <2>1. {"ACCEPTED", "FINALIZED"} \subseteq Status
    BY DEF Status, Eligible, Terminal
  <2>2. r \in Rows
    BY <1>1, <1>2, <2>1, FieldUpdates, Zenon
  <2>3. tx' = [tx EXCEPT ![task[w].tx] = r]
    BY <1>18, Zenon DEF HandleMissing
  <2> HIDE DEF r
  <2> QED
    BY <1>1, <1>2, <2>2, <2>3, TableUpdate
<1>19. CASE GenericError(w)
  BY <1>19, <1>1, <1>2, CanceledTable DEF GenericError, HandleGeneric
<1>20. CASE LeaderError(w)
  BY <1>20, <1>1, <1>2, StatusFacts DEF LeaderError, ResetRow, Terminal, Rows
<1>21. CASE LeaderCrash(w)
  BY <1>21, <1>1, <1>2, StatusFacts DEF LeaderCrash, ResetRow, Eligible, Terminal, Rows
<1>22. CASE UNCHANGED tx
  BY <1>22, <1>1
<1> QED
  BY <1>3, <1>4, <1>5, <1>6, <1>7, <1>8, <1>9, <1>10, <1>11, <1>12, <1>13, <1>14, <1>15,
     <1>16, <1>17, <1>18, <1>19, <1>20, <1>21, <1>22, Zenon DEF Step, Fail, Skip,
     Settle, Finish, Release, ClaimSeen, Take, ValidatorError, NoValidators, Missing, Crash

(* A claim takes a row its query found: it was submitted and is not leased. *)
LEMMA ClaimFacts ==
    ASSUME NEW kind \in Kinds, NEW t \in Tx, RowReady(kind, t)
    PROVE  tx[t].status \in Status \ {"ABSENT"} /\ ~Live(t)
BY StatusFacts DEF RowReady, AwaitsFinality, Kinds

(* The order of the claims chooses among what may be claimed.              *)
LEMMA ForemostFacts == ASSUME NEW kind, NEW S PROVE Foremost(kind, S) \subseteq S
BY DEF Foremost

(* A claim makes a task, and the lease of a worker.                        *)
LEMMA TakeTypes ==
    ASSUME TypeOK, NEW w \in Workers, NEW kind \in Kinds, NEW t \in Tx, NEW pc \in Places,
           RowReady(kind, t), Take(w, kind, t, pc)
    PROVE  task' \in [Workers -> Tasks]
<1>1. task \in [Workers -> Tasks]
  BY DEF TypeOK
<1>2. [NoTask EXCEPT !.pc = pc, !.kind = kind, !.tx = t, !.was = tx[t].status] \in Tasks
  BY InitialValues, ClaimFacts DEF Tasks
<1> QED
  BY <1>1, <1>2 DEF Take

(* The updates of a task that change more than its place.                  *)
LEMMA TaskUpdates ==
    ASSUME NEW k \in Tasks, NEW p \in Places, NEW a \in BOOLEAN, NEW b \in BOOLEAN,
           NEW s \in Status \ {"ABSENT"}, NEW S \in SUBSET Tx
    PROVE  /\ [k EXCEPT !.pc = p, !.leader = a, !.rollback = b] \in Tasks
           /\ [k EXCEPT !.pc = p, !.outcome = s] \in Tasks
           /\ [k EXCEPT !.pc = p, !.todo = S] \in Tasks
BY DEF Tasks

(* Whatever a worker goes on to do is a task.                              *)
LEMMA TasksByTasks ==
    ASSUME TypeOK, NEW w \in Workers, Step(w) \/ Fail(w)
    PROVE  task' \in [Workers -> Tasks]
<1>1. task \in [Workers -> Tasks] /\ NoTask \in Tasks
  BY InitialValues DEF TypeOK
<1>2. {"commit", "release", "run", "broken", "decided", "rollback", "requeue", "vote",
       "settle", "releaseNoValidators", "releaseMissing", "noValidators", "missing",
       "upgraded", "start"} \subseteq Places
  BY DEF Places, Leased
<1>3. CASE Skip(w)
  BY <1>3, <1>1, <1>2, StatusFacts DEF Skip, Goto, Tasks
<1>4. CASE Upgrade(w)
  <2>1. PICK s \in Terminal : task' = [task EXCEPT ![w].pc = "upgraded", ![w].outcome = s]
    BY <1>4, Zenon DEF Upgrade
  <2>2. [task[w] EXCEPT !.pc = "upgraded", !.outcome = s] \in Tasks
    BY <1>1, <1>2, TaskUpdates, StatusFacts, Zenon
  <2> QED
    BY <1>1, <2>1, <2>2
<1>31. CASE EndUpgrade(w)
  BY <1>31, <1>1, <1>2, StatusFacts DEF EndUpgrade, Goto, Tasks
<1>5. CASE Transfer(w)
  BY <1>5, <1>1, <1>2, StatusFacts DEF Transfer, Goto, Tasks
<1>6. CASE Propose(w)
  <2> DEFINE t == task[w].tx
             leader == /\ tx[t].flag = "undetermined"
                       /\ tx[t].appealed \/ tx[t].result # "null"
             readable == leader \/ tx[t].result # "note"
             p == IF readable THEN "run" ELSE "broken"
             k == [task[w] EXCEPT !.pc = p, !.leader = leader, !.rollback = tx[t].timeoutAppeal]
  <2>1. tx[t].timeoutAppeal \in BOOLEAN
    BY DEF TypeOK, Rows, Tasks
  <2>2. leader \in BOOLEAN /\ p \in Places /\ task[w] \in Tasks
    BY <1>1, <1>2
  <2>3. task' = [task EXCEPT ![w] = k]
    BY <1>6, Zenon DEF Propose
  <2> HIDE DEF t, leader, p
  <2>4. k \in Tasks
    BY <2>1, <2>2, TaskUpdates, StatusFacts, Zenon
  <2> QED
    BY <1>1, <2>3, <2>4
<1>7. CASE Decide(w)
  <2>1. PICK s \in Eligible : task' = [task EXCEPT ![w].pc = "decided", ![w].outcome = s]
    BY <1>7, Zenon DEF Decide
  <2>2. task' = [task EXCEPT ![w] = [task[w] EXCEPT !.pc = "decided", !.outcome = s]]
    BY <2>1
  <2>3. [task[w] EXCEPT !.pc = "decided", !.outcome = s] \in Tasks
    BY <1>1, <1>2, TaskUpdates, StatusFacts, Zenon
  <2> QED
    BY <1>1, <2>2, <2>3
<1>8. CASE Conclude(w)
  <2>1. PICK p, S : task' = [task EXCEPT ![w] = [task[w] EXCEPT !.pc = p, !.todo = S]]
                    /\ p \in Places /\ S \in SUBSET Tx
    <3> DEFINE t == task[w].tx
               accepted == task[w].outcome = "ACCEPTED"
               rolls == /\ accepted
                        /\ task[w].kind = "appeal" \/ (task[w].rollback /\ ~task[w].leader)
               p == IF rolls THEN AfterRollback(w, Newer(t))
                    ELSE IF accepted /\ task[w].leader THEN "broken" ELSE "commit"
               S == IF rolls THEN Newer(t) ELSE {}
    <3>1. p \in Places
      BY <1>2 DEF AfterRollback
    <3>2. S \in SUBSET Tx
      BY DEF Newer, Others
    <3>3. task' = [task EXCEPT ![w] = [task[w] EXCEPT !.pc = p, !.todo = S]]
      BY <1>8 DEF Conclude
    <3> QED
      BY <3>1, <3>2, <3>3, Zenon
  <2>2. [task[w] EXCEPT !.pc = p, !.todo = S] \in Tasks
    BY <1>1, <2>1, TaskUpdates, StatusFacts, Zenon
  <2> QED
    BY <1>1, <2>1, <2>2
<1>9. CASE Rollback(w)
  <2>1. PICK p \in Places, S \in SUBSET Tx :
             task' = [task EXCEPT ![w] = [task[w] EXCEPT !.pc = p, !.todo = S]]
    <3>1. PICK u \in task[w].todo :
             task' = [task EXCEPT ![w].pc = AfterRollback(w, task[w].todo \ {u}),
                                  ![w].todo = task[w].todo \ {u}]
      BY <1>9, Zenon DEF Rollback
    <3>2. AfterRollback(w, task[w].todo \ {u}) \in Places /\ task[w].todo \ {u} \in SUBSET Tx
      BY <1>1, <1>2 DEF AfterRollback, Tasks
    <3> QED
      BY <3>1, <3>2, Zenon
  <2>2. [task[w] EXCEPT !.pc = p, !.todo = S] \in Tasks
    BY <1>1, TaskUpdates, StatusFacts, Zenon
  <2> QED
    BY <1>1, <2>1, <2>2
<1>10. CASE Requeue(w)
  BY <1>10, <1>1, <1>2, StatusFacts DEF Requeue, Goto, Tasks
<1>11. CASE LeaderAppeal(w)
  BY <1>11, <1>1, <1>2, StatusFacts DEF LeaderAppeal, Goto, Tasks
<1>12. CASE LeaderTimeoutAppeal(w)
  BY <1>12, <1>1, <1>2, StatusFacts DEF LeaderTimeoutAppeal, Goto, Tasks
<1>13. CASE ValidatorAppeal(w)
  BY <1>13, <1>1, <1>2, StatusFacts DEF ValidatorAppeal, Goto, Tasks
<1>14. CASE RejectAppeal(w)
  BY <1>14, <1>1, <1>2, StatusFacts DEF RejectAppeal, Goto, Tasks
<1>15. CASE UpholdAppeal(w)
  <2> DEFINE t == task[w].tx
             accepted == task[w].was = "ACCEPTED"
             p == IF accepted THEN AfterRollback(w, Newer(t)) ELSE "requeue"
             S == IF accepted THEN Newer(t) ELSE {}
  <2>1. p \in Places /\ S \in SUBSET Tx
    BY <1>2 DEF AfterRollback, Newer, Others
  <2>2. task' = [task EXCEPT ![w] = [task[w] EXCEPT !.pc = p, !.todo = S]]
    BY <1>15 DEF UpholdAppeal
  <2> HIDE DEF p, S
  <2>3. [task[w] EXCEPT !.pc = p, !.todo = S] \in Tasks
    BY <1>1, <2>1, TaskUpdates, StatusFacts, Zenon
  <2> QED
    BY <1>1, <2>2, <2>3
<1>16. CASE Finalize(w)
  BY <1>16, <1>1, <1>2, StatusFacts DEF Finalize, Goto, Tasks
<1>17. CASE Settle(w)
  BY <1>17, <1>1, <1>2, StatusFacts DEF Settle, Goto, Tasks
<1>18. CASE Finish(w)
  BY <1>18, <1>1, <1>2, StatusFacts DEF Finish, Tasks
<1>19. CASE Release(w)
  BY <1>19, <1>1, <1>2, StatusFacts DEF Release, Tasks
<1>20. CASE Raise(w) \/ GenericError(w)
  <2> DEFINE k == [task[w] EXCEPT !.pc = "release", !.todo = {}]
  <2>1. k \in Tasks
    BY <1>1, <1>2 DEF Tasks
  <2>2. task' = [task EXCEPT ![w] = k]
    BY <1>20, Zenon DEF Raise, GenericError, HandleGeneric
  <2> HIDE DEF k
  <2> QED
    BY <1>1, <2>1, <2>2
<1>21. CASE HandleNoValidators(w)
  BY <1>21, <1>1, <1>2, StatusFacts DEF HandleNoValidators, Tasks
<1>22. CASE HandleMissing(w)
  BY <1>22, <1>1, <1>2, StatusFacts DEF HandleMissing, Tasks
<1>24. CASE ValidatorError(w)
  BY <1>24, <1>1, <1>2, StatusFacts DEF ValidatorError, Goto, Tasks
<1>25. CASE LeaderError(w)
  BY <1>25, <1>1, <1>2, StatusFacts DEF LeaderError, Tasks
<1>26. CASE LeaderCrash(w)
  BY <1>26, <1>1, <1>2, StatusFacts DEF LeaderCrash, Tasks
<1>27. CASE NoValidators(w)
  BY <1>27, <1>1, <1>2, StatusFacts DEF NoValidators, Goto, Tasks
<1>28. CASE Missing(w)
  BY <1>28, <1>1, <1>2, StatusFacts DEF Missing, Goto, Tasks
<1>29. CASE Crash(w)
  BY <1>29, <1>1, <1>2, StatusFacts DEF Crash, Tasks
<1>30. CASE ClaimSeen(w)
  <2>1. CASE task' = [task EXCEPT ![w] = NoTask]
    BY <1>1, <2>1
  <2>2. CASE \E t \in Tx : RowReady(task[w].kind, t) /\ Take(w, task[w].kind, t, "start")
    BY <1>1, <1>2, <2>2, TakeTypes DEF Tasks
  <2> QED
    BY <1>1, <1>30, <2>1, <2>2, ForemostFacts DEF ClaimSeen, Tasks
<1> QED
  BY <1>3, <1>4, <1>5, <1>6, <1>7, <1>8, <1>9, <1>10, <1>11, <1>12, <1>13, <1>14, <1>15,
     <1>16, <1>17, <1>18, <1>19, <1>20, <1>21, <1>22, <1>24, <1>25, <1>26, <1>27, <1>28,
     <1>29, <1>30, <1>31 DEF Step, Fail

-----------------------------------------------------------------------------
(* Every step does one of four things to the leases.                       *)

Looks(w) == task[w].pc = "look"

Quiet ==    \* a task goes on or stops, and no lease changes
    /\ UNCHANGED <<blocked, owner>>
    /\ \A w \in Workers :
          /\ task'[w].pc \in Leased => /\ task[w].pc \in Leased
                                      /\ task'[w].tx = task[w].tx
                                      /\ task'[w].kind = task[w].kind
          /\ Looks(w)' => Looks(w) \/ "snapshot" \in Env

Begins(w, kind, t) ==    \* a claim
    /\ task[w].pc \notin Leased
    /\ RowReady(kind, t)
    /\ Looks(w) \/ ContractReady(kind, t)
    /\ Take(w, kind, t, "start") \/ Take(w, kind, t, "release")

Ends(w) ==    \* the worker gives its row back
    /\ task[w].pc \in Leased
    /\ ReleaseRow(w)
    /\ task'[w].pc \notin Leased /\ ~Looks(w)'
    /\ \A v \in Workers \ {w} : task'[v] = task[v]

Touches(t) ==    \* the clock or the recovery changes the lease of one row
    /\ UNCHANGED task
    /\ LeaseExpires(t) \/ ProgressStalls(t) \/ (FreeRow(t) /\ ~Live(t))

(* Users and time take no lease, recovery only ends one that has expired.  *)
LEMMA LeaseStepsOfRows ==
    ASSUME TypeOK, NEW t \in Tx, Users(t) \/ Clock(t) \/ Recovery(t)
    PROVE  Quiet \/ Touches(t)
<1>1. CASE Users(t) \/ WindowElapses(t)
  BY <1>1 DEF Users, Submit, Cancel, Appeal, WindowElapses, Quiet, Looks
<1>2. CASE LeaseExpires(t) \/ ProgressStalls(t)
  BY <1>2 DEF LeaseExpires, ProgressStalls, Touches
<1>3. CASE Recovery(t)
  BY <1>3 DEF Recovery, Escalate, ReleaseOrphan, Recover, Stuck, Live, Touches
<1> QED
  BY <1>1, <1>2, <1>3 DEF Clock

(* A claim takes a row that its query found ready.                         *)
LEMMA LeaseStepsOfClaims ==
    ASSUME TypeOK, NEW w \in Workers, NEW kind \in Kinds, NEW t \in Tx,
           Claim(w, kind, t) \/ Look(w, kind) \/ ClaimInBackoff(w, t)
    PROVE  Quiet \/ Begins(w, kind, t) \/ Begins(w, "transaction", t)
<1>1. CASE Look(w, kind)
  BY <1>1 DEF Look, Quiet, Looks, TypeOK, NoTask, Leased
<1>2. CASE Claim(w, kind, t)
  BY <1>2, ForemostFacts DEF Claim, Claimable, Begins, Leased
<1>3. CASE ClaimInBackoff(w, t)
  BY <1>3, ForemostFacts DEF ClaimInBackoff, Claimable, Begins, Leased
<1> QED
  BY <1>1, <1>2, <1>3

(* To go on under a lease changes none.                                    *)
LEMMA GotoIsQuiet ==
    ASSUME TypeOK, NEW w \in Workers, NEW p \in Leased, task[w].pc \in Leased, Goto(w, p),
           UNCHANGED <<blocked, owner>>
    PROVE  Quiet
BY DEF Goto, Quiet, Looks, Leased, TypeOK, Tasks

(* A step of a worker keeps its lease or gives it back, and no other.      *)
LEMMA LeaseStepsOfTasks ==
    ASSUME TypeOK, NEW w \in Workers, Step(w) \/ Fail(w)
    PROVE  \/ Quiet \/ Ends(w)
           \/ \E kind \in Kinds, t \in Tx : Begins(w, kind, t)
<1>1. task \in [Workers -> Tasks] /\ NoTask.pc = "idle"
  BY InitialValues DEF TypeOK
<1>2. CASE Skip(w)
  BY <1>2, <1>1 DEF Skip, Goto, Quiet, Looks, Leased, At
<1>3. CASE Upgrade(w)
  BY <1>3, <1>1 DEF Upgrade, Quiet, Looks, Leased, At
<1>28. CASE EndUpgrade(w)
  BY <1>28, <1>1, GotoIsQuiet DEF EndUpgrade, Leased
<1>4. CASE Transfer(w)
  BY <1>4, <1>1 DEF Transfer, Goto, Quiet, Looks, Leased, At
<1>5. CASE Propose(w)
  <2>1. PICK p, a, b : task' = [task EXCEPT ![w].pc = p, ![w].leader = a, ![w].rollback = b]
                       /\ p \in {"run", "broken"}
    BY <1>5, Zenon DEF Propose
  <2>2. task[w].pc = "start" /\ UNCHANGED <<blocked, owner>>
    BY <1>5 DEF Propose, At
  <2> QED
    BY <1>1, <2>1, <2>2 DEF Quiet, Looks, Leased
<1>6. CASE Decide(w)
  BY <1>6, <1>1 DEF Decide, Quiet, Looks, Leased, At
<1>7. CASE Conclude(w)
  BY <1>7, <1>1 DEF Conclude, AfterRollback, Quiet, Looks, Leased, At
<1>8. CASE Rollback(w)
  BY <1>8, <1>1 DEF Rollback, AfterRollback, Quiet, Looks, Leased, At
<1>9. CASE Requeue(w)
  BY <1>9, <1>1 DEF Requeue, Goto, Quiet, Looks, Leased, At
<1>10. CASE LeaderAppeal(w)
  <2>1. CASE Goto(w, "broken") \/ Goto(w, "commit")
    BY <1>10, <2>1, GotoIsQuiet DEF LeaderAppeal, At, Leased
  <2>2. CASE task' = [task EXCEPT ![w].pc = "run", ![w].leader = TRUE]
    BY <1>1, <1>10, <2>2 DEF LeaderAppeal, At, Quiet, Looks, Leased
  <2> QED
    BY <1>10, <2>1, <2>2 DEF LeaderAppeal
<1>11. CASE LeaderTimeoutAppeal(w)
  BY <1>11, <1>1 DEF LeaderTimeoutAppeal, Goto, Quiet, Looks, Leased, At
<1>12. CASE ValidatorAppeal(w)
  <2>1. Goto(w, "vote") \/ Goto(w, "commit") \/ Goto(w, "broken")
    BY <1>12 DEF ValidatorAppeal
  <2> QED
    BY <1>12, <2>1, GotoIsQuiet DEF ValidatorAppeal, At, Leased
<1>13. CASE RejectAppeal(w)
  BY <1>13, <1>1 DEF RejectAppeal, Goto, Quiet, Looks, Leased, At
<1>14. CASE UpholdAppeal(w)
  BY <1>14, <1>1 DEF UpholdAppeal, AfterRollback, Quiet, Looks, Leased, At
<1>15. CASE Finalize(w)
  <2>1. Goto(w, "settle") \/ Goto(w, "broken")
    BY <1>15 DEF Finalize
  <2> QED
    BY <1>15, <2>1, GotoIsQuiet DEF Finalize, At, Leased
<1>16. CASE Settle(w)
  BY <1>16, <1>1 DEF Settle, Goto, Quiet, Looks, Leased, At
<1>17. CASE Raise(w)
  BY <1>17, <1>1 DEF Raise, HandleGeneric, Quiet, Looks, Leased, At
<1>18. CASE HandleNoValidators(w)
  BY <1>18, <1>1 DEF HandleNoValidators, Quiet, Looks, Leased, At
<1>19. CASE HandleMissing(w)
  BY <1>19, <1>1 DEF HandleMissing, Quiet, Looks, Leased, At
<1>20. CASE GenericError(w)
  BY <1>20, <1>1 DEF GenericError, HandleGeneric, Quiet, Looks, Leased, At
<1>21. CASE ValidatorError(w)
  BY <1>21, <1>1 DEF ValidatorError, Goto, Quiet, Looks, Leased, At
<1>22. CASE NoValidators(w)
  BY <1>22, <1>1 DEF NoValidators, Goto, Quiet, Looks, Leased, At
<1>23. CASE Missing(w)
  BY <1>23, <1>1 DEF Missing, Goto, Quiet, Looks, Leased, At
<1>24. CASE Crash(w)
  BY <1>24, <1>1 DEF Crash, Quiet, Looks, Leased, At
<1>25. CASE Finish(w) \/ Release(w) \/ LeaderError(w)
  BY <1>25, <1>1 DEF Finish, Release, LeaderError, ResetRow, Ends, Looks, Leased, Tasks
<1>26. CASE LeaderCrash(w)
  BY <1>26, <1>1 DEF LeaderCrash, ResetRow, Ends, Quiet, Looks, Leased
<1>27. CASE ClaimSeen(w)
  <2>1. CASE \E t \in Tx : RowReady(task[w].kind, t) /\ Take(w, task[w].kind, t, "start")
    BY <1>1, <1>27, <2>1 DEF ClaimSeen, Begins, Looks, Leased, Tasks
  <2>2. CASE task' = [task EXCEPT ![w] = NoTask] /\ UNCHANGED <<blocked, owner>>
    BY <1>1, <2>2 DEF Quiet, Looks, Leased
  <2> QED
    BY <1>1, <1>27, <2>1, <2>2, ForemostFacts DEF ClaimSeen, Tasks
<1> QED
  BY <1>2, <1>3, <1>4, <1>5, <1>6, <1>7, <1>8, <1>9, <1>10, <1>11, <1>12, <1>13, <1>14,
     <1>15, <1>16, <1>17, <1>18, <1>19, <1>20, <1>21, <1>22, <1>23, <1>24, <1>25, <1>26,
     <1>27, <1>28 DEF Step, Fail

LeaseStep ==
    \/ Quiet
    \/ \E w \in Workers : Ends(w)
    \/ \E t \in Tx : Touches(t)
    \/ \E w \in Workers, kind \in Kinds, t \in Tx : Begins(w, kind, t)

(* So every step is one of the four.                                       *)
LEMMA LeaseSteps == ASSUME TypeOK, [Next]_vars PROVE LeaseStep
<1>1. CASE UNCHANGED vars
  BY <1>1 DEF vars, Quiet, Looks, LeaseStep
<1>2. CASE \E t \in Tx : Users(t) \/ Clock(t) \/ Recovery(t)
  BY <1>2, LeaseStepsOfRows DEF LeaseStep
<1>3. CASE \E w \in Workers : Step(w) \/ Fail(w)
  BY <1>3, LeaseStepsOfTasks DEF LeaseStep
<1>4. ASSUME NEW w \in Workers, NEW kind \in Kinds, NEW t \in Tx,
             Claim(w, kind, t) \/ Look(w, kind) \/ ClaimInBackoff(w, t)
      PROVE  LeaseStep
  <2>1. "transaction" \in Kinds
    BY DEF Kinds
  <2> QED
    BY <1>4, <2>1, LeaseStepsOfClaims DEF LeaseStep
<1>5. 1 \in Tx /\ "transaction" \in Kinds
  BY QueueAssumption DEF Tx, Kinds
<1> QED
  BY <1>1, <1>2, <1>3, <1>4, <1>5 DEF Next

(* Leases and owners keep their types.                                     *)
LEMMA LeaseTypes ==
    ASSUME TypeOK, LeaseStep
    PROVE  /\ blocked' \in [Tx -> {"null", "live", "late", "stale"}]
           /\ owner' \in [Tx -> Workers \cup {NoWorker}]
<1>1. /\ blocked \in [Tx -> {"null", "live", "late", "stale"}]
      /\ owner \in [Tx -> Workers \cup {NoWorker}]
  BY DEF TypeOK
<1>2. CASE Quiet
  BY <1>1, <1>2 DEF Quiet
<1>3. ASSUME NEW w \in Workers, Ends(w)
      PROVE  /\ blocked' \in [Tx -> {"null", "live", "late", "stale"}]
             /\ owner' \in [Tx -> Workers \cup {NoWorker}]
  <2>1. ReleaseRow(w)
    BY <1>3 DEF Ends
  <2>2. \/ /\ blocked' = [blocked EXCEPT ![task[w].tx] = "null"]
           /\ owner' = [owner EXCEPT ![task[w].tx] = NoWorker]
        \/ UNCHANGED <<blocked, owner>>
    BY <1>1, <2>1 DEF ReleaseRow
  <2> QED
    BY <1>1, <2>2
<1>4. ASSUME NEW t \in Tx, Touches(t)
      PROVE  /\ blocked' \in [Tx -> {"null", "live", "late", "stale"}]
             /\ owner' \in [Tx -> Workers \cup {NoWorker}]
  <2>1. \/ blocked' = [blocked EXCEPT ![t] = "late"] /\ UNCHANGED owner
        \/ blocked' = [blocked EXCEPT ![t] = "stale"] /\ UNCHANGED owner
        \/ /\ blocked' = [blocked EXCEPT ![t] = "null"]
           /\ owner' = [owner EXCEPT ![t] = NoWorker]
    BY <1>4 DEF Touches, LeaseExpires, ProgressStalls, FreeRow
  <2> QED
    BY <1>1, <2>1
<1>5. CASE \E w \in Workers, kind \in Kinds, t \in Tx : Begins(w, kind, t)
  BY <1>1, <1>5 DEF Begins, Take
<1> QED
  BY <1>2, <1>3, <1>4, <1>5 DEF LeaseStep

(* The counters: counted up to the cap, or reset.                          *)
LEMMA CountTypes ==
    ASSUME TypeOK, NEW w \in Workers, NEW r \in Retry, Count(w, r)
    PROVE  tries' \in [Workers -> [Retry -> [Tx -> 0..MaxRetries - 1]]]
<1> DEFINE t == task[w].tx
           n == IF AtCap(w, r) THEN 0 ELSE tries[w][r][t] + 1
<1>1. /\ tries \in [Workers -> [Retry -> [Tx -> 0..MaxRetries - 1]]]
      /\ t \in Tx
  BY DEF TypeOK, Tasks
<1>2. tries[w][r][t] \in 0..MaxRetries - 1
  BY <1>1
<1>3. n \in 0..MaxRetries - 1
  BY <1>2, QueueAssumption DEF AtCap
<1>4. tries' = [tries EXCEPT ![w][r][t] = n]
  BY <1>1 DEF Count
<1> HIDE DEF n, t
<1> QED
  BY <1>1, <1>3, <1>4

(* No step takes a counter of retries to its cap.                          *)
LEMMA CounterTypes ==
    ASSUME TypeOK, [Next]_vars
    PROVE  /\ tries' \in [Workers -> [Retry -> [Tx -> 0..MaxRetries - 1]]]
           /\ used' \in [crash : Nat, fault : Nat, appeal : Nat]
<1>1. /\ tries \in [Workers -> [Retry -> [Tx -> 0..MaxRetries - 1]]]
      /\ used \in [crash : Nat, fault : Nat, appeal : Nat]
      /\ NoTries \in [Retry -> [Tx -> 0..MaxRetries - 1]]
      /\ {"generic", "crash", "noValidators"} \subseteq Retry
  BY InitialValues DEF TypeOK, Retry
<1>2. /\ [used EXCEPT !.appeal = @ + 1] \in [crash : Nat, fault : Nat, appeal : Nat]
      /\ [used EXCEPT !.fault = @ + 1] \in [crash : Nat, fault : Nat, appeal : Nat]
      /\ [used EXCEPT !.crash = @ + 1] \in [crash : Nat, fault : Nat, appeal : Nat]
  BY <1>1
<1>3. ASSUME NEW t \in Tx, Users(t) \/ Clock(t) \/ Recovery(t)
      PROVE  UNCHANGED tries /\ (UNCHANGED used \/ used' = [used EXCEPT !.appeal = @ + 1])
  BY <1>3 DEF Users, Submit, Cancel, Appeal, Clock, WindowElapses, LeaseExpires,
     ProgressStalls, Recovery, Escalate, ReleaseOrphan, Recover
<1>4. ASSUME NEW w \in Workers, Fail(w)
      PROVE  \/ UNCHANGED used
             \/ used' = [used EXCEPT !.fault = @ + 1]
             \/ used' = [used EXCEPT !.crash = @ + 1]
  BY <1>4 DEF Fail, GenericError, ValidatorError, LeaderError, LeaderCrash, NoValidators,
     Missing, Crash, Fault
<1>5. ASSUME NEW w \in Workers, Fail(w)
      PROVE  \/ UNCHANGED tries
             \/ \E r \in Retry : Count(w, r)
             \/ tries' = [tries EXCEPT ![w] = NoTries]
  BY <1>1, <1>5 DEF Fail, GenericError, HandleGeneric, ValidatorError, LeaderError,
     LeaderCrash, NoValidators, Missing, Crash
<1>6. ASSUME NEW w \in Workers, Step(w)
      PROVE  /\ UNCHANGED used
             /\ UNCHANGED tries \/ (\E r \in Retry : Count(w, r)) \/ Finish(w)
  BY <1>1, <1>6, Zenon DEF Step, Skip, Upgrade, EndUpgrade, Transfer, Propose, Decide,
     Conclude, Rollback,
     Requeue, LeaderAppeal, LeaderTimeoutAppeal, ValidatorAppeal, RejectAppeal,
     UpholdAppeal, Finalize, Settle, Finish, Release, Raise, HandleGeneric,
     HandleNoValidators, HandleMissing, ClaimSeen, Take
<1>7. ASSUME NEW w \in Workers, Finish(w)
      PROVE  tries' \in [Workers -> [Retry -> [Tx -> 0..MaxRetries - 1]]]
  <2> DEFINE t == task[w].tx
             f == [r \in Retry |-> [tries[w][r] EXCEPT ![t] = 0]]
  <2>1. f \in [Retry -> [Tx -> 0..MaxRetries - 1]]
    <3>1. ASSUME NEW r \in Retry
          PROVE  [tries[w][r] EXCEPT ![t] = 0] \in [Tx -> 0..MaxRetries - 1]
      <4>1. tries[w][r] \in [Tx -> 0..MaxRetries - 1] /\ 0 \in 0..MaxRetries - 1
        BY <1>1, QueueAssumption
      <4> QED
        BY <4>1
    <3> QED
      BY <3>1
  <2>2. UNCHANGED tries \/ tries' = [tries EXCEPT ![w] = f]
    BY <1>1, <1>7 DEF Finish
  <2> HIDE DEF f
  <2> QED
    BY <1>1, <2>1, <2>2
<1>8. ASSUME NEW w \in Workers, NEW kind \in Kinds, NEW t \in Tx,
             Claim(w, kind, t) \/ Look(w, kind) \/ ClaimInBackoff(w, t)
      PROVE  UNCHANGED <<tries, used>>
  BY <1>8 DEF Claim, Look, ClaimInBackoff, Take
<1>9. 1 \in Tx /\ "transaction" \in Kinds
  BY QueueAssumption DEF Tx, Kinds
<1>10. CASE \E w \in Workers, kind \in Kinds, t \in Tx :
              Claim(w, kind, t) \/ Look(w, kind) \/ ClaimInBackoff(w, t)
  BY <1>1, <1>8, <1>10
<1>11. CASE \E w \in Workers : Step(w) \/ Fail(w)
  <2>1. ASSUME NEW w \in Workers, Fail(w)
        PROVE  tries' \in [Workers -> [Retry -> [Tx -> 0..MaxRetries - 1]]]
    <3>1. CASE UNCHANGED tries
      BY <1>1, <3>1
    <3>2. CASE \E r \in Retry : Count(w, r)
      BY <3>2, CountTypes
    <3>3. CASE tries' = [tries EXCEPT ![w] = NoTries]
      BY <1>1, <3>3
    <3> QED
      BY <1>5, <2>1, <3>1, <3>2, <3>3
  <2>2. ASSUME NEW w \in Workers, Step(w)
        PROVE  tries' \in [Workers -> [Retry -> [Tx -> 0..MaxRetries - 1]]]
    <3>1. CASE UNCHANGED tries
      BY <1>1, <3>1
    <3>2. CASE \E r \in Retry : Count(w, r)
      BY <3>2, CountTypes
    <3>3. CASE Finish(w)
      BY <1>7, <3>3
    <3> QED
      BY <1>6, <2>2, <3>1, <3>2, <3>3
  <2>3. ASSUME NEW w \in Workers, Step(w) \/ Fail(w)
        PROVE  used' \in [crash : Nat, fault : Nat, appeal : Nat]
    BY <1>1, <1>2, <1>4, <1>6, <2>3
  <2> QED
    BY <1>11, <2>1, <2>2, <2>3
<1>12. CASE \E t \in Tx : Users(t) \/ Clock(t) \/ Recovery(t)
  BY <1>1, <1>2, <1>3, <1>12
<1>13. CASE UNCHANGED vars
  BY <1>1, <1>13 DEF vars
<1> QED
  BY <1>9, <1>10, <1>11, <1>12, <1>13 DEF Next

(* TypeOK is inductive.                                                    *)
LEMMA TypeStep == ASSUME TypeOK, [Next]_vars PROVE TypeOK'
<1>1. tx \in [Tx -> Rows] /\ task \in [Workers -> Tasks]
  BY DEF TypeOK
<1>2. /\ blocked' \in [Tx -> {"null", "live", "late", "stale"}]
      /\ owner' \in [Tx -> Workers \cup {NoWorker}]
  BY LeaseSteps, LeaseTypes
<1>3. /\ tries' \in [Workers -> [Retry -> [Tx -> 0..MaxRetries - 1]]]
      /\ used' \in [crash : Nat, fault : Nat, appeal : Nat]
  BY CounterTypes
<1>4. tx' \in [Tx -> Rows] /\ task' \in [Workers -> Tasks]
  <2>1. CASE UNCHANGED vars
    BY <1>1, <2>1 DEF vars
  <2>2. CASE \E t \in Tx : Users(t) \/ Clock(t) \/ Recovery(t)
    <3>1. UNCHANGED task
      BY <2>2 DEF Users, Submit, Cancel, Appeal, Clock, WindowElapses, LeaseExpires,
         ProgressStalls, Recovery, Escalate, ReleaseOrphan, Recover
    <3> QED
      BY <1>1, <2>2, <3>1, RowsByUsers
  <2>3. CASE \E w \in Workers : Step(w) \/ Fail(w)
    BY <2>3, RowsByTasks, TasksByTasks
  <2>4. ASSUME NEW w \in Workers, NEW kind \in Kinds, NEW t \in Tx,
               Claim(w, kind, t) \/ Look(w, kind) \/ ClaimInBackoff(w, t)
        PROVE  tx' \in [Tx -> Rows] /\ task' \in [Workers -> Tasks]
    <3>1. {"start", "release", "look"} \subseteq Places /\ "transaction" \in Kinds
      BY DEF Places, Leased, Kinds
    <3>2. CASE Look(w, kind)
      <4>1. [NoTask EXCEPT !.pc = "look", !.kind = kind, !.todo = Claimable(kind)] \in Tasks
        BY <3>1, InitialValues, Zenon DEF Tasks, Claimable
      <4> QED
        BY <1>1, <3>2, <4>1 DEF Look
    <3>3. CASE Claim(w, kind, t)
      BY <1>1, <3>1, <3>3, TakeTypes, ForemostFacts, Zenon DEF Claim, Claimable, Take
    <3>4. CASE ClaimInBackoff(w, t)
      BY <1>1, <3>1, <3>4, TakeTypes, ForemostFacts, Zenon DEF ClaimInBackoff, Claimable, Take
    <3> QED
      BY <2>4, <3>2, <3>3, <3>4
  <2>5. 1 \in Tx /\ "transaction" \in Kinds
    BY QueueAssumption DEF Tx, Kinds
  <2> QED
    BY <2>1, <2>2, <2>3, <2>4, <2>5 DEF Next
<1> QED
  BY <1>2, <1>3, <1>4 DEF TypeOK

(* It holds at the beginning.                                              *)
LEMMA InitTypes == Init => TypeOK
BY InitialValues, QueueAssumption DEF Init, TypeOK

(* The queue never writes a value the code does not know, and no counter   *)
(* of retries reaches its cap: _handle_generic_error_retry and its like    *)
(* drop the counter when they cancel the transaction.                      *)
THEOREM TypeCorrect == Spec => []TypeOK
<1> QED
  BY InitTypes, TypeStep, PTL DEF Spec

-----------------------------------------------------------------------------
(* The leases.                                                             *)

(* LeaseHeld is inductive with TypeOK: over the four cases.                *)
LEMMA LeaseHeldStep ==
    ASSUME TypeOK, LeaseHeld, "slow" \notin Env, LeaseStep
    PROVE  LeaseHeld'
<1>1. /\ blocked \in [Tx -> {"null", "live", "late", "stale"}]
      /\ owner \in [Tx -> Workers \cup {NoWorker}]
      /\ task \in [Workers -> Tasks]
      /\ \A w \in Workers : task[w].tx \in Tx
      /\ NoWorker \notin Workers
  BY QueueAssumption DEF TypeOK, Tasks
<1> SUFFICES ASSUME NEW v \in Workers, task'[v].pc \in Leased
             PROVE  blocked'[task'[v].tx] = "live" /\ owner'[task'[v].tx] = v
  BY DEF LeaseHeld
<1>2. CASE Quiet
  BY <1>1, <1>2 DEF Quiet, LeaseHeld
<1>3. ASSUME NEW w \in Workers, Ends(w)
      PROVE  blocked'[task'[v].tx] = "live" /\ owner'[task'[v].tx] = v
  <2>1. v # w /\ task'[v] = task[v] /\ owner[task[v].tx] = v /\ owner[task[w].tx] = w
        /\ blocked[task[v].tx] = "live"
    BY <1>3 DEF Ends, LeaseHeld
  <2> QED
    BY <1>1, <1>3, <2>1 DEF Ends, ReleaseRow
<1>4. ASSUME NEW t \in Tx, Touches(t)
      PROVE  blocked'[task'[v].tx] = "live" /\ owner'[task'[v].tx] = v
  <2>1. task'[v] = task[v] /\ owner[task[v].tx] = v /\ blocked[task[v].tx] = "live"
    BY <1>4 DEF Touches, LeaseHeld
  <2>2. task[v].tx # t
    <3>1. SUFFICES ASSUME task[v].tx = t PROVE FALSE
      OBVIOUS
    <3>2. WorkedOn(t) /\ Live(t)
      BY <1>4, <2>1, <3>1 DEF WorkedOn, Live
    <3> QED
      BY <1>4, <2>1, <3>1, <3>2 DEF Touches, LeaseExpires, ProgressStalls, Live
  <2> QED
    BY <1>1, <1>4, <2>1, <2>2 DEF Touches, LeaseExpires, ProgressStalls, FreeRow
<1>5. ASSUME NEW w \in Workers, NEW kind \in Kinds, NEW t \in Tx, Begins(w, kind, t)
      PROVE  blocked'[task'[v].tx] = "live" /\ owner'[task'[v].tx] = v
  <2>1. /\ ~Live(t)
        /\ task'[w].tx = t
        /\ v # w => task'[v] = task[v]
        /\ blocked' = [blocked EXCEPT ![t] = "live"]
        /\ owner' = [owner EXCEPT ![t] = w]
    <3>1. PICK p : Take(w, kind, t, p)
      BY <1>5 DEF Begins
    <3>2. [NoTask EXCEPT !.pc = p, !.kind = kind, !.tx = t, !.was = tx[t].status].tx = t
      BY DEF NoTask
    <3> QED
      BY <1>1, <1>5, <3>1, <3>2 DEF Begins, Take, RowReady
  <2>2. CASE v = w
    BY <1>1, <2>1, <2>2
  <2>3. CASE v # w
    BY <1>1, <2>1, <2>3 DEF LeaseHeld, Live
  <2> QED
    BY <2>2, <2>3
<1> QED
  BY <1>2, <1>3, <1>4, <1>5 DEF LeaseStep

(* As long as no task outlives its lease, whoever works on a row holds the *)
(* lease of it, so no two workers ever work on one row, whatever claims,   *)
(* releases, crashes, errors and passes of recovery come in between.       *)
THEOREM LeasesAreHeld == ASSUME "slow" \notin Env PROVE Spec => []LeaseHeld
<1>1. Init => LeaseHeld
  BY InitialValues DEF Init, LeaseHeld, Leased
<1>2. TypeOK /\ LeaseHeld /\ [Next]_vars => LeaseHeld'
  BY LeaseSteps, LeaseHeldStep
<1> QED
  BY <1>1, <1>2, TypeCorrect, PTL DEF Spec

(* A row of the table is not deleted: what was submitted stays present.    *)
LEMMA RowsStay == ASSUME TypeOK, [Next]_vars PROVE \A u \in Tx : Present(u) => Present(u)'
<1>1. tx \in [Tx -> Rows]
  BY DEF TypeOK
<1>2. ASSUME NEW w \in Workers
      PROVE  /\ task[w].tx \in Tx /\ task[w].todo \subseteq Tx
             /\ task[w].was # "ABSENT" /\ task[w].outcome # "ABSENT"
  BY DEF TypeOK, Tasks
<1>3. CASE \E t \in Tx : Users(t) \/ Clock(t) \/ Recovery(t)
  BY <1>1, <1>3 DEF Present, Rows, Users, Submit, Cancel, Appeal, Clock, WindowElapses,
     LeaseExpires, ProgressStalls, Recovery, Escalate, ReleaseOrphan, Recover
<1>4. ASSUME NEW w \in Workers, Step(w) \/ Fail(w), NEW u \in Tx, Present(u)
      PROVE  Present(u)'
  <2>1. CASE Upgrade(w) \/ EndUpgrade(w)
    BY <1>1, <1>2, <1>4, <2>1 DEF Present, Rows, Upgrade, EndUpgrade
  <2>2. CASE Transfer(w)
    BY <1>1, <1>2, <1>4, <2>2 DEF Present, Rows, Transfer
  <2>3. CASE Decide(w)
    BY <1>1, <1>2, <1>4, <2>3 DEF Present, Rows, Decide
  <2>4. CASE Conclude(w)
    BY <1>1, <1>2, <1>4, <2>4 DEF Present, Rows, Conclude
  <2>5. CASE Rollback(w)
    BY <1>1, <1>2, <1>4, <2>5 DEF Present, Rows, Rollback
  <2>6. CASE Requeue(w)
    BY <1>1, <1>2, <1>4, <2>6 DEF Present, Rows, Requeue
  <2>7. CASE LeaderAppeal(w)
    BY <1>1, <1>2, <1>4, <2>7 DEF Present, Rows, LeaderAppeal
  <2>8. CASE LeaderTimeoutAppeal(w)
    BY <1>1, <1>2, <1>4, <2>8 DEF Present, Rows, LeaderTimeoutAppeal
  <2>9. CASE ValidatorAppeal(w)
    BY <1>1, <1>2, <1>4, <2>9 DEF Present, Rows, ValidatorAppeal
  <2>10. CASE UpholdAppeal(w)
    BY <1>1, <1>2, <1>4, <2>10 DEF Present, Rows, UpholdAppeal
  <2>11. CASE Finalize(w)
    BY <1>1, <1>2, <1>4, <2>11 DEF Present, Rows, Finalize
  <2>12. CASE Raise(w)
    BY <1>1, <1>2, <1>4, <2>12 DEF Present, Rows, Raise, HandleGeneric, Canceled
  <2>13. CASE HandleNoValidators(w)
    BY <1>1, <1>2, <1>4, <2>13 DEF Present, Rows, HandleNoValidators, Canceled
  <2>14. CASE HandleMissing(w)
    BY <1>1, <1>2, <1>4, <2>14 DEF Present, Rows, HandleMissing
  <2>15. CASE GenericError(w)
    BY <1>1, <1>2, <1>4, <2>15 DEF Present, Rows, GenericError, HandleGeneric, Canceled
  <2>16. CASE LeaderError(w)
    BY <1>1, <1>2, <1>4, <2>16 DEF Present, Rows, LeaderError, ResetRow
  <2>17. CASE LeaderCrash(w)
    BY <1>1, <1>2, <1>4, <2>17 DEF Present, Rows, LeaderCrash, ResetRow
  <2>18. CASE Propose(w)
    <3> DEFINE t == task[w].tx
               leader == /\ tx[t].flag = "undetermined"
                         /\ tx[t].appealed \/ tx[t].result # "null"
               readable == leader \/ tx[t].result # "note"
               r == [tx[t] EXCEPT !.status = IF readable THEN "PROCESSING" ELSE @,
                                  !.appealed = FALSE,
                                  !.flag = IF leader THEN @ ELSE "none"]
    <3>1. t \in Tx /\ tx[t] \in Rows /\ leader \in BOOLEAN /\ readable \in BOOLEAN
      BY <1>1, <1>2
    <3>2. tx' = [tx EXCEPT ![t] = r]
      BY <2>18, Zenon DEF Propose
    <3> HIDE DEF t, leader, readable
    <3>3. tx[t].status # "ABSENT" => r.status # "ABSENT"
      BY <3>1 DEF Rows
    <3> QED
      BY <1>1, <1>4, <3>1, <3>2, <3>3 DEF Present
  <2>19. CASE RejectAppeal(w)
    <3> DEFINE t == task[w].tx
               odd == task[w].was = "ACCEPTED" /\ tx[t].flag = "undetermined"
               r(e) == [tx[t] EXCEPT !.status = task[w].was, !.elapsed = e,
                                     !.appealed = @ /\ odd, !.timeoutAppeal = FALSE,
                                     !.flag = IF odd THEN "none" ELSE @]
    <3>1. PICK e \in BOOLEAN :
            tx' = [tx EXCEPT ![t].status = task[w].was, ![t].elapsed = e,
                             ![t].appealed = @ /\ odd, ![t].timeoutAppeal = FALSE,
                             ![t].flag = IF odd THEN "none" ELSE @]
      BY <2>19, Zenon DEF RejectAppeal
    <3>2. tx' = [tx EXCEPT ![t] = r(e)] /\ t \in Tx /\ tx[t] \in Rows
      BY <1>1, <1>2, <3>1, Zenon
    <3> HIDE DEF odd, t
    <3>3. r(e).status = task[w].was
      BY <3>2 DEF Rows
    <3> QED
      BY <1>1, <1>2, <1>4, <3>2, <3>3 DEF Present
  <2>20. CASE UNCHANGED tx
    BY <1>4, <2>20 DEF Present
  <2> QED
    BY <1>4, <2>1, <2>2, <2>3, <2>4, <2>5, <2>6, <2>7, <2>8, <2>9, <2>10, <2>11, <2>12,
       <2>13, <2>14, <2>15, <2>16, <2>17, <2>18, <2>19, <2>20, Zenon DEF Step, Fail, Skip,
       Settle, Finish,
       Release, ClaimSeen, Take, ValidatorError, NoValidators, Missing, Crash
<1>5. CASE \E w \in Workers, kind \in Kinds, t \in Tx :
             Claim(w, kind, t) \/ Look(w, kind) \/ ClaimInBackoff(w, t)
  BY <1>5 DEF Present, Claim, Look, ClaimInBackoff, Take
<1>6. CASE UNCHANGED vars
  BY <1>6 DEF Present, vars
<1>7. 1 \in Tx /\ "transaction" \in Kinds
  BY QueueAssumption DEF Tx, Kinds
<1> QED
  BY <1>3, <1>4, <1>5, <1>6, <1>7 DEF Next

(* What SerialExecution rests on, besides LeaseHeld: claims see the table  *)
(* they update, and the row a worker holds is there for others to see.     *)
NoneLooks == \A w \in Workers : ~Looks(w)
LeasedPresent == \A w \in Workers : task[w].pc \in Leased => Present(task[w].tx)
SerialInv == NoneLooks /\ LeasedPresent /\ SerialExecution

(* SerialInv is inductive with LeaseHeld: a claim finds no live lease on   *)
(* the contract, and whoever works on it would hold one.                   *)
LEMMA SerialStep ==
    ASSUME TypeOK, LeaseHeld, SerialInv, "snapshot" \notin Env, [Next]_vars
    PROVE  SerialInv'
<1>1. /\ task \in [Workers -> Tasks]
      /\ \A w \in Workers : task[w].tx \in Tx
      /\ \A u \in Tx : Present(u) => Present(u)'
      /\ LeaseStep
  BY RowsStay, LeaseSteps DEF TypeOK, Tasks
<1>2. CASE Quiet
  <2>1. NoneLooks'
    BY <1>2 DEF Quiet, NoneLooks, SerialInv
  <2>2. LeasedPresent'
    BY <1>1, <1>2 DEF Quiet, LeasedPresent, SerialInv
  <2>3. SerialExecution'
    BY <1>2 DEF Quiet, SerialExecution, SerialInv
  <2> QED
    BY <2>1, <2>2, <2>3 DEF SerialInv
<1>3. ASSUME NEW w \in Workers, Ends(w)
      PROVE  SerialInv'
  <2>1. \A v \in Workers : task'[v].pc \in Leased => v # w /\ task'[v] = task[v]
    BY <1>3 DEF Ends
  <2>2. NoneLooks'
    BY <1>3 DEF Ends, NoneLooks, SerialInv, Looks
  <2>3. LeasedPresent'
    BY <1>1, <2>1 DEF LeasedPresent, SerialInv
  <2>4. SerialExecution'
    BY <2>1 DEF SerialExecution, SerialInv
  <2> QED
    BY <2>2, <2>3, <2>4 DEF SerialInv
<1>4. ASSUME NEW t \in Tx, Touches(t)
      PROVE  SerialInv'
  <2>1. UNCHANGED task
    BY <1>4 DEF Touches
  <2>2. NoneLooks' /\ SerialExecution'
    BY <2>1 DEF NoneLooks, Looks, SerialExecution, SerialInv
  <2>3. LeasedPresent'
    BY <1>1, <2>1 DEF LeasedPresent, SerialInv
  <2> QED
    BY <2>2, <2>3 DEF SerialInv
<1>5. ASSUME NEW w \in Workers, NEW kind \in Kinds, NEW t \in Tx, Begins(w, kind, t)
      PROVE  SerialInv'
  <2>1. /\ task'[w].tx = t /\ task'[w].kind = kind /\ task'[w].pc \in {"start", "release"}
        /\ \A v \in Workers \ {w} : task'[v] = task[v]
    <3>1. PICK p \in {"start", "release"} : Take(w, kind, t, p)
      BY <1>5 DEF Begins
    <3>2. /\ [NoTask EXCEPT !.pc = p, !.kind = kind, !.tx = t, !.was = tx[t].status].tx = t
          /\ [NoTask EXCEPT !.pc = p, !.kind = kind, !.tx = t, !.was = tx[t].status].kind = kind
          /\ [NoTask EXCEPT !.pc = p, !.kind = kind, !.tx = t, !.was = tx[t].status].pc = p
      BY DEF NoTask
    <3> QED
      BY <1>1, <3>1, <3>2 DEF Take
  <2>2. RowReady(kind, t) /\ ContractReady(kind, t)
    BY <1>5 DEF Begins, NoneLooks, SerialInv
  <2>3. Present(t) /\ ~Live(t)
    BY <2>2, ClaimFacts DEF Present
  <2>4. NoneLooks'
    BY <2>1 DEF NoneLooks, Looks, SerialInv
  <2>5. LeasedPresent'
    BY <1>1, <2>1, <2>3 DEF LeasedPresent, SerialInv
  <2>6. ASSUME NEW v \in Workers, v # w, task'[v].pc \in Leased, kind # "appeal"
        PROVE  Addr[task'[v].tx] # Addr[t]
    <3>1. task'[v] = task[v] /\ Present(task[v].tx) /\ Live(task[v].tx)
      BY <2>1, <2>6 DEF SerialInv, LeasedPresent, LeaseHeld, Live
    <3>2. \A u \in Others(t) : ~Live(u)
      BY <2>2, <2>6 DEF ContractReady, Kinds
    <3> QED
      BY <1>1, <2>3, <3>1, <3>2 DEF Others
  <2>7. SerialExecution'
    BY <2>1, <2>6 DEF SerialExecution, SerialInv
  <2> QED
    BY <2>4, <2>5, <2>7 DEF SerialInv
<1> QED
  BY <1>1, <1>2, <1>3, <1>4, <1>5 DEF LeaseStep

(* "Ensures only one transaction per contract is processed at a time"      *)
(* (claim_next_transaction), appeals apart, when no task outlives its lease *)
(* and the query sees the table it updates.  A run refutes it without the  *)
(* second condition.                                                       *)
THEOREM ContractIsSerial ==
    ASSUME "slow" \notin Env, "snapshot" \notin Env PROVE Spec => []SerialExecution
<1>1. Init => SerialInv
  BY InitialValues DEF Init, SerialInv, NoneLooks, Looks, LeasedPresent, SerialExecution, Leased
<1>2. TypeOK /\ LeaseHeld /\ SerialInv /\ [Next]_vars => SerialInv'
  BY SerialStep
<1>3. SerialInv => SerialExecution
  BY DEF SerialInv
<1> QED
  BY <1>1, <1>2, <1>3, TypeCorrect, LeasesAreHeld, PTL DEF Spec

(* Without any condition: even a worker that outlives its lease, or that   *)
(* lost its row, never takes the live lease of another.                    *)
THEOREM LeasesAreNotStolen == Spec => LeaseNotStolen
<1> DEFINE Kept(w, t) == \/ owner'[t] = w /\ blocked'[t] \in {"live", "late"}
                         \/ task'[w].pc \notin Leased
<1>1. ASSUME TypeOK, LeaseStep, NEW w \in Workers, NEW t \in Tx,
             task[w].tx = t, task[w].pc \in Leased, owner[t] = w, Live(t)
      PROVE  Kept(w, t)
  <2>1. /\ blocked \in [Tx -> {"null", "live", "late", "stale"}] /\ blocked[t] = "live"
        /\ owner \in [Tx -> Workers \cup {NoWorker}]
    BY <1>1 DEF TypeOK, Live
  <2>2. CASE Quiet
    BY <1>1, <2>1, <2>2 DEF Quiet
  <2>3. ASSUME NEW v \in Workers, Ends(v)
        PROVE  Kept(w, t)
    BY <1>1, <2>1, <2>3 DEF Ends, ReleaseRow
  <2>4. ASSUME NEW u \in Tx, Touches(u)
        PROVE  Kept(w, t)
    BY <1>1, <2>1, <2>4 DEF Touches, LeaseExpires, ProgressStalls, FreeRow, Live
  <2>5. ASSUME NEW v \in Workers, NEW kind \in Kinds, NEW u \in Tx, Begins(v, kind, u)
        PROVE  Kept(w, t)
    <3>1. u # t /\ blocked' = [blocked EXCEPT ![u] = "live"] /\ owner' = [owner EXCEPT ![u] = v]
      BY <1>1, <2>5 DEF Begins, RowReady, Take
    <3> QED
      BY <1>1, <2>1, <3>1
  <2> QED
    BY <1>1, <2>2, <2>3, <2>4, <2>5 DEF LeaseStep
<1>2. TypeOK /\ [Next]_vars
      => [\A w \in Workers, t \in Tx :
             /\ task[w].tx = t /\ task[w].pc \in Leased
             /\ owner[t] = w /\ Live(t)
             => Kept(w, t)]_vars
  BY <1>1, LeaseSteps
<1> QED
  BY <1>2, TypeCorrect, PTL DEF Spec, LeaseNotStolen

-----------------------------------------------------------------------------
(* What a step does to the rows, and to the task of its worker.            *)
Writes(t, s, d) ==    \* one row gets a status and a result
    /\ \A u \in Tx : u # t => tx'[u] = tx[u]
    /\ tx'[t].status = s /\ tx'[t].result = d
Moves(w, p) ==    \* the task of w goes on at another place
    /\ \A v \in Workers : v # w => task'[v] = task[v]
    /\ task'[w].pc = p /\ task'[w].kind = task[w].kind
    /\ task'[w].tx = task[w].tx /\ task'[w].was = task[w].was
Stops(w) ==    \* the task of w ends
    /\ \A v \in Workers : v # w => task'[v] = task[v]
    /\ task'[w] = NoTask

(* Users, time and recovery write one row, and no task.                    *)
LEMMA UserFacts ==
    ASSUME TypeOK, NEW t \in Tx
    PROVE  /\ Users(t) \/ Clock(t) \/ Recovery(t) => UNCHANGED task
           /\ Submit(t) => Writes(t, "PENDING", tx[t].result)
           /\ Cancel(t) => Writes(t, "CANCELED", tx[t].result)
           /\ Appeal(t) \/ WindowElapses(t) => Writes(t, tx[t].status, tx[t].result)
           /\ Escalate(t) => \E d \in {tx[t].result, "note"} : Writes(t, "CANCELED", d)
           /\ Recover(t) => Writes(t, "PENDING", "null")
           /\ LeaseExpires(t) \/ ProgressStalls(t) \/ ReleaseOrphan(t) => UNCHANGED tx
<1>1. tx \in [Tx -> Rows]
  BY DEF TypeOK
<1>2. Submit(t) => Writes(t, "PENDING", tx[t].result)
  BY <1>1 DEF Submit, Writes, Rows
<1>3. Cancel(t) => Writes(t, "CANCELED", tx[t].result)
  BY <1>1 DEF Cancel, Writes, Rows
<1>4. Appeal(t) \/ WindowElapses(t) => Writes(t, tx[t].status, tx[t].result)
  BY <1>1 DEF Appeal, WindowElapses, Writes, Rows
<1>5. Escalate(t) => \E d \in {tx[t].result, "note"} : Writes(t, "CANCELED", d)
  BY <1>1 DEF Escalate, Writes, Rows
<1>6. Recover(t) => Writes(t, "PENDING", "null")
  BY <1>1 DEF Recover, Writes, Rows
<1> QED
  BY <1>2, <1>3, <1>4, <1>5, <1>6 DEF Users, Submit, Cancel, Appeal, Clock, WindowElapses,
     LeaseExpires, ProgressStalls, Recovery, Escalate, ReleaseOrphan, Recover

(* The transaction driver.                                                 *)
LEMMA TransactionFacts ==
    ASSUME TypeOK, NEW w \in Workers, NEW t, t = task[w].tx
    PROVE  /\ Skip(w) => UNCHANGED tx /\ Moves(w, "commit")
           /\ Upgrade(w) => /\ Writes(t, tx[t].status, "note") /\ Moves(w, "upgraded")
                            /\ task'[w].outcome \in Terminal
           /\ EndUpgrade(w) => Writes(t, task[w].outcome, tx[t].result) /\ Moves(w, "release")
           /\ Transfer(w) => /\ \E s \in {"FINALIZED", "UNDETERMINED"} : Writes(t, s, tx[t].result)
                             /\ Moves(w, "commit")
           /\ Propose(w) => \/ Writes(t, "PROCESSING", tx[t].result) /\ Moves(w, "run")
                            \/ Writes(t, tx[t].status, tx[t].result) /\ Moves(w, "broken")
           /\ Decide(w) => /\ Writes(t, tx[t].status, "receipt") /\ Moves(w, "decided")
                           /\ task'[w].outcome \in Eligible
           /\ Conclude(w) => /\ Writes(t, task[w].outcome, tx[t].result)
                             /\ \E p \in {"rollback", "requeue", "broken", "commit"} : Moves(w, p)
                             /\ task'[w].todo \subseteq Newer(t)
           /\ Rollback(w) => /\ \E u \in task[w].todo : Writes(u, "PENDING", tx[u].result)
                             /\ \E p \in {"rollback", "requeue", "commit"} : Moves(w, p)
                             /\ task'[w].todo \subseteq task[w].todo
           /\ Requeue(w) => Writes(t, "PENDING", tx[t].result) /\ Moves(w, "commit")
<1>1. /\ tx \in [Tx -> Rows] /\ task \in [Workers -> Tasks] /\ t \in Tx
      /\ task[w].todo \subseteq Tx
  BY DEF TypeOK, Tasks
<1>2. Skip(w) => UNCHANGED tx /\ Moves(w, "commit")
  BY <1>1 DEF Skip, Goto, Moves, Tasks
<1>3. Upgrade(w) => /\ Writes(t, tx[t].status, "note") /\ Moves(w, "upgraded")
                    /\ task'[w].outcome \in Terminal
  <2> SUFFICES ASSUME Upgrade(w)
               PROVE  /\ Writes(t, tx[t].status, "note") /\ Moves(w, "upgraded")
                      /\ task'[w].outcome \in Terminal
    OBVIOUS
  <2>1. PICK s \in Terminal : task' = [task EXCEPT ![w].pc = "upgraded", ![w].outcome = s]
    BY Zenon DEF Upgrade
  <2>2. Writes(t, tx[t].status, "note")
    BY <1>1 DEF Upgrade, Writes, Rows
  <2> QED
    BY <1>1, <2>1, <2>2 DEF Moves, Tasks
<1>4. EndUpgrade(w) => Writes(t, task[w].outcome, tx[t].result) /\ Moves(w, "release")
  BY <1>1 DEF EndUpgrade, Goto, Writes, Moves, Rows, Tasks
<1>5. Transfer(w) => /\ \E s \in {"FINALIZED", "UNDETERMINED"} : Writes(t, s, tx[t].result)
                     /\ Moves(w, "commit")
  BY <1>1 DEF Transfer, Goto, Writes, Moves, Rows, Tasks
<1>6. Propose(w) => \/ Writes(t, "PROCESSING", tx[t].result) /\ Moves(w, "run")
                    \/ Writes(t, tx[t].status, tx[t].result) /\ Moves(w, "broken")
  <2> SUFFICES ASSUME Propose(w)
               PROVE  \/ Writes(t, "PROCESSING", tx[t].result) /\ Moves(w, "run")
                      \/ Writes(t, tx[t].status, tx[t].result) /\ Moves(w, "broken")
    OBVIOUS
  <2> DEFINE leader == /\ tx[t].flag = "undetermined"
                       /\ tx[t].appealed \/ tx[t].result # "null"
             readable == leader \/ tx[t].result # "note"
             s == IF readable THEN "PROCESSING" ELSE tx[t].status
             p == IF readable THEN "run" ELSE "broken"
             f == IF leader THEN tx[t].flag ELSE "none"
  <2>1. tx' = [tx EXCEPT ![t] = [tx[t] EXCEPT !.status = s, !.appealed = FALSE, !.flag = f]]
    BY Zenon DEF Propose
  <2>2. task' = [task EXCEPT ![w] = [task[w] EXCEPT !.pc = p, !.leader = leader,
                                                    !.rollback = tx[t].timeoutAppeal]]
    BY Zenon DEF Propose
  <2>3. \/ s = "PROCESSING" /\ p = "run"
        \/ s = tx[t].status /\ p = "broken"
    OBVIOUS
  <2> HIDE DEF leader, readable, s, p, f
  <2>4. Writes(t, s, tx[t].result)
    BY <1>1, <2>1 DEF Writes, Rows
  <2>5. Moves(w, p)
    BY <1>1, <2>2 DEF Moves, Tasks
  <2> QED
    BY <2>3, <2>4, <2>5
<1>7. Decide(w) => /\ Writes(t, tx[t].status, "receipt") /\ Moves(w, "decided")
                   /\ task'[w].outcome \in Eligible
  <2> SUFFICES ASSUME Decide(w)
               PROVE  /\ Writes(t, tx[t].status, "receipt") /\ Moves(w, "decided")
                      /\ task'[w].outcome \in Eligible
    OBVIOUS
  <2>1. PICK s \in Eligible, keep \in BOOLEAN :
          /\ tx' = [tx EXCEPT ![t].result = "receipt", ![t].timeoutAppeal = FALSE,
                              ![t].elapsed = keep /\ @]
          /\ task' = [task EXCEPT ![w].pc = "decided", ![w].outcome = s]
    BY Zenon DEF Decide
  <2> DEFINE e == keep /\ tx[t].elapsed
  <2>2. tx' = [tx EXCEPT ![t] = [tx[t] EXCEPT !.result = "receipt", !.timeoutAppeal = FALSE,
                                              !.elapsed = e]]
    BY <2>1, Zenon
  <2> HIDE DEF e
  <2>3. Writes(t, tx[t].status, "receipt")
    BY <1>1, <2>2 DEF Writes, Rows
  <2>4. Moves(w, "decided") /\ task'[w].outcome = s
    BY <1>1, <2>1 DEF Moves, Tasks
  <2> QED
    BY <2>3, <2>4
<1>8. Conclude(w) => /\ Writes(t, task[w].outcome, tx[t].result)
                     /\ \E p \in {"rollback", "requeue", "broken", "commit"} : Moves(w, p)
                     /\ task'[w].todo \subseteq Newer(t)
  <2> SUFFICES ASSUME Conclude(w)
               PROVE  /\ Writes(t, task[w].outcome, tx[t].result)
                      /\ \E p \in {"rollback", "requeue", "broken", "commit"} : Moves(w, p)
                      /\ task'[w].todo \subseteq Newer(t)
    OBVIOUS
  <2> DEFINE accepted == task[w].outcome = "ACCEPTED"
             rolls == /\ accepted
                      /\ task[w].kind = "appeal" \/ (task[w].rollback /\ ~task[w].leader)
             p == IF rolls THEN AfterRollback(w, Newer(t))
                  ELSE IF accepted /\ task[w].leader THEN "broken" ELSE "commit"
             S == IF rolls THEN Newer(t) ELSE {}
  <2>1. p \in {"rollback", "requeue", "broken", "commit"} /\ S \subseteq Newer(t)
    BY DEF AfterRollback
  <2>2. task' = [task EXCEPT ![w] = [task[w] EXCEPT !.pc = p, !.todo = S]]
    BY DEF Conclude
  <2> HIDE DEF p, S
  <2>3. Moves(w, p) /\ task'[w].todo = S
    BY <1>1, <2>2 DEF Moves, Tasks
  <2>4. Writes(t, task[w].outcome, tx[t].result)
    BY <1>1 DEF Conclude, Writes, Rows
  <2> QED
    BY <2>1, <2>3, <2>4
<1>9. Rollback(w) => /\ \E u \in task[w].todo : Writes(u, "PENDING", tx[u].result)
                     /\ \E p \in {"rollback", "requeue", "commit"} : Moves(w, p)
                     /\ task'[w].todo \subseteq task[w].todo
  <2> SUFFICES ASSUME Rollback(w)
               PROVE  /\ \E u \in task[w].todo : Writes(u, "PENDING", tx[u].result)
                      /\ \E p \in {"rollback", "requeue", "commit"} : Moves(w, p)
                      /\ task'[w].todo \subseteq task[w].todo
    OBVIOUS
  <2>1. PICK u \in task[w].todo :
          /\ tx' = [tx EXCEPT ![u].status = "PENDING"]
          /\ task' = [task EXCEPT ![w].pc = AfterRollback(w, task[w].todo \ {u}),
                                  ![w].todo = task[w].todo \ {u}]
    BY Zenon DEF Rollback
  <2> DEFINE p == AfterRollback(w, task[w].todo \ {u})
             S == task[w].todo \ {u}
  <2>2. p \in {"rollback", "requeue", "commit"} /\ S \subseteq task[w].todo
    BY DEF AfterRollback
  <2>3. task' = [task EXCEPT ![w] = [task[w] EXCEPT !.pc = p, !.todo = S]]
    BY <2>1
  <2> HIDE DEF p, S
  <2>4. Moves(w, p) /\ task'[w].todo = S
    BY <1>1, <2>3 DEF Moves, Tasks
  <2>5. Writes(u, "PENDING", tx[u].result)
    BY <1>1, <2>1 DEF Writes, Rows
  <2> QED
    BY <2>2, <2>4, <2>5
<1>10. Requeue(w) => Writes(t, "PENDING", tx[t].result) /\ Moves(w, "commit")
  BY <1>1 DEF Requeue, Goto, Writes, Moves, Rows, Tasks
<1> QED
  BY <1>2, <1>3, <1>4, <1>5, <1>6, <1>7, <1>8, <1>9, <1>10

(* The drivers of appeals and finalizations.                               *)
LEMMA AppealFacts ==
    ASSUME TypeOK, NEW w \in Workers, NEW t, t = task[w].tx
    PROVE  /\ LeaderAppeal(w) =>
                \/ /\ Writes(t, tx[t].status, tx[t].result)
                   /\ \E p \in {"broken", "commit"} : Moves(w, p)
                \/ /\ Writes(t, "PROCESSING", tx[t].result) /\ tx[t].result # "null"
                   /\ Moves(w, "run")
           /\ LeaderTimeoutAppeal(w) =>
                Writes(t, tx[t].status, tx[t].result) /\ Moves(w, "broken")
           /\ ValidatorAppeal(w) =>
                \/ /\ Writes(t, tx[t].status, tx[t].result)
                   /\ \E p \in {"broken", "commit"} : Moves(w, p)
                \/ /\ Writes(t, "PROCESSING", tx[t].result) /\ tx[t].result # "null"
                   /\ Moves(w, "vote")
           /\ RejectAppeal(w) =>
                /\ Writes(t, task[w].was, tx[t].result)
                /\ \E p \in {"broken", "commit"} : Moves(w, p)
           /\ UpholdAppeal(w) =>
                /\ Writes(t, tx[t].status, "receipt")
                /\ \E p \in {"rollback", "requeue", "commit"} : Moves(w, p)
                /\ task'[w].todo \subseteq Newer(t)
           /\ Finalize(w) =>
                \/ /\ Writes(t, "FINALIZED", tx[t].result) /\ tx[t].result = "receipt"
                   /\ Moves(w, "settle")
                \/ UNCHANGED tx /\ Moves(w, "broken")
           /\ Settle(w) => UNCHANGED tx /\ Moves(w, "commit")
<1>1. /\ tx \in [Tx -> Rows] /\ task \in [Workers -> Tasks] /\ t \in Tx
      /\ \A p \in {"broken", "commit", "vote", "settle"} : Goto(w, p) => Moves(w, p)
  BY DEF TypeOK, Tasks, Goto, Moves
<1>2. tx' = [tx EXCEPT ![t].appealed = FALSE] => Writes(t, tx[t].status, tx[t].result)
  BY <1>1 DEF Writes, Rows
<1>3. ASSUME LeaderAppeal(w)
      PROVE  \/ /\ Writes(t, tx[t].status, tx[t].result)
                /\ \E p \in {"broken", "commit"} : Moves(w, p)
             \/ /\ Writes(t, "PROCESSING", tx[t].result) /\ tx[t].result # "null"
                /\ Moves(w, "run")
  <2>1. CASE /\ tx[t].result # "null"
             /\ tx' = [tx EXCEPT ![t].appealed = FALSE, ![t].flag = "undetermined",
                                 ![t].status = "PROCESSING"]
             /\ task' = [task EXCEPT ![w].pc = "run", ![w].leader = TRUE]
    BY <1>1, <2>1 DEF Writes, Moves, Rows, Tasks
  <2> QED
    BY <1>1, <1>2, <1>3, <2>1 DEF LeaderAppeal
<1>4. ASSUME LeaderTimeoutAppeal(w)
      PROVE  Writes(t, tx[t].status, tx[t].result) /\ Moves(w, "broken")
  <2> DEFINE f == IF tx[t].flag = "undetermined" THEN "none" ELSE tx[t].flag
  <2>1. tx' = [tx EXCEPT ![t] = [tx[t] EXCEPT !.appealed = FALSE, !.flag = f]]
    BY <1>4, Zenon DEF LeaderTimeoutAppeal
  <2> HIDE DEF f
  <2>2. Writes(t, tx[t].status, tx[t].result)
    BY <1>1, <2>1 DEF Writes, Rows
  <2> QED
    BY <1>1, <1>4, <2>2 DEF LeaderTimeoutAppeal
<1>5. ASSUME ValidatorAppeal(w)
      PROVE  \/ /\ Writes(t, tx[t].status, tx[t].result)
                /\ \E p \in {"broken", "commit"} : Moves(w, p)
             \/ /\ Writes(t, "PROCESSING", tx[t].result) /\ tx[t].result # "null"
                /\ Moves(w, "vote")
  <2> DEFINE timeout == task[w].was = "VALIDATORS_TIMEOUT"
             a == tx[t].appealed /\ ~timeout
             f == IF timeout THEN "timeout" ELSE tx[t].flag
  <2>1. CASE /\ tx' = [tx EXCEPT ![t].status = "PROCESSING", ![t].appealed = @ /\ ~timeout,
                                 ![t].flag = IF timeout THEN "timeout" ELSE @]
             /\ tx[t].result # "null" /\ Goto(w, "vote")
    <3>1. tx' = [tx EXCEPT ![t] = [tx[t] EXCEPT !.status = "PROCESSING", !.appealed = a,
                                                !.flag = f]]
      BY <2>1, Zenon
    <3> HIDE DEF a, f
    <3>2. Writes(t, "PROCESSING", tx[t].result)
      BY <1>1, <3>1 DEF Writes, Rows
    <3> QED
      BY <1>1, <2>1, <3>2
  <2>2. CASE UNCHANGED tx /\ Goto(w, "broken")
    BY <1>1, <2>2 DEF Writes
  <2>3. CASE tx' = [tx EXCEPT ![t].appealed = FALSE] /\ Goto(w, "commit")
    BY <1>1, <1>2, <2>3
  <2> QED
    BY <1>5, <2>1, <2>2, <2>3 DEF ValidatorAppeal
<1>6. ASSUME RejectAppeal(w)
      PROVE  /\ Writes(t, task[w].was, tx[t].result)
             /\ \E p \in {"broken", "commit"} : Moves(w, p)
  <2> DEFINE odd == task[w].was = "ACCEPTED" /\ tx[t].flag = "undetermined"
             a == tx[t].appealed /\ odd
             f == IF odd THEN "none" ELSE tx[t].flag
             s == task[w].was
  <2>1. PICK e \in BOOLEAN :
          tx' = [tx EXCEPT ![t].status = task[w].was, ![t].elapsed = e,
                           ![t].appealed = @ /\ odd, ![t].timeoutAppeal = FALSE,
                           ![t].flag = IF odd THEN "none" ELSE @]
    BY <1>6, Zenon DEF RejectAppeal
  <2>2. tx' = [tx EXCEPT ![t] = [tx[t] EXCEPT !.status = s, !.elapsed = e, !.appealed = a,
                                              !.timeoutAppeal = FALSE, !.flag = f]]
    BY <2>1, Zenon
  <2>3. Goto(w, "broken") \/ Goto(w, "commit")
    BY <1>6 DEF RejectAppeal
  <2> HIDE DEF a, f, s
  <2>4. Writes(t, s, tx[t].result)
    BY <1>1, <2>2 DEF Writes, Rows
  <2> QED
    BY <1>1, <2>3, <2>4 DEF s
<1>7. ASSUME UpholdAppeal(w)
      PROVE  /\ Writes(t, tx[t].status, "receipt")
             /\ \E p \in {"rollback", "requeue", "commit"} : Moves(w, p)
             /\ task'[w].todo \subseteq Newer(t)
  <2> DEFINE accepted == task[w].was = "ACCEPTED"
             b == ~accepted
             p == IF accepted THEN AfterRollback(w, Newer(t)) ELSE "requeue"
             S == IF accepted THEN Newer(t) ELSE {}
  <2>1. p \in {"rollback", "requeue", "commit"} /\ S \subseteq Newer(t)
    BY DEF AfterRollback
  <2>2. task' = [task EXCEPT ![w] = [task[w] EXCEPT !.pc = p, !.todo = S]]
    BY <1>7 DEF UpholdAppeal
  <2>3. tx' = [tx EXCEPT ![t] = [tx[t] EXCEPT !.result = "receipt", !.timeoutAppeal = b]]
    BY <1>7, Zenon DEF UpholdAppeal
  <2> HIDE DEF p, S, b
  <2>4. Moves(w, p) /\ task'[w].todo = S
    BY <1>1, <2>2 DEF Moves, Tasks
  <2>5. Writes(t, tx[t].status, "receipt")
    BY <1>1, <2>3 DEF Writes, Rows
  <2> QED
    BY <2>1, <2>4, <2>5
<1>8. ASSUME Finalize(w)
      PROVE  \/ /\ Writes(t, "FINALIZED", tx[t].result) /\ tx[t].result = "receipt"
                /\ Moves(w, "settle")
             \/ UNCHANGED tx /\ Moves(w, "broken")
  BY <1>1, <1>8 DEF Finalize, Writes, Rows
<1>9. Settle(w) => UNCHANGED tx /\ Moves(w, "commit")
  BY <1>1 DEF Settle
<1> QED
  BY <1>3, <1>4, <1>5, <1>6, <1>7, <1>8, <1>9

(* The ends of a task and the errors.                                      *)
LEMMA EndFacts ==
    ASSUME TypeOK, NEW w \in Workers, NEW t, t = task[w].tx
    PROVE  /\ Finish(w) \/ Crash(w) => UNCHANGED tx /\ Stops(w)
           /\ Release(w) =>
                /\ UNCHANGED tx
                /\ \/ Stops(w)
                   \/ task[w].pc = "releaseNoValidators" /\ Moves(w, "noValidators")
                   \/ task[w].pc = "releaseMissing" /\ Moves(w, "missing")
           /\ Raise(w) \/ GenericError(w) =>
                /\ UNCHANGED tx \/ Writes(t, "CANCELED", "note")
                /\ Moves(w, "release")
           /\ HandleNoValidators(w) =>
                /\ UNCHANGED tx \/ Writes(t, "CANCELED", "note")
                /\ Stops(w)
           /\ HandleMissing(w) =>
                /\ \/ task[w].kind = "transaction" /\ Writes(t, "ACCEPTED", "receipt")
                   \/ task[w].kind # "transaction" /\ Writes(t, "FINALIZED", tx[t].result)
                /\ Stops(w)
           /\ ValidatorError(w) => UNCHANGED tx /\ Moves(w, "release")
           /\ NoValidators(w) => UNCHANGED tx /\ Moves(w, "releaseNoValidators")
           /\ Missing(w) => UNCHANGED tx /\ Moves(w, "releaseMissing")
           /\ LeaderError(w) \/ LeaderCrash(w) =>
                /\ \/ UNCHANGED tx
                   \/ owner[t] = w /\ Writes(t, "CANCELED", "note")
                   \/ owner[t] = w /\ Writes(t, "PENDING", "null")
                   \/ LeaderCrash(w) /\ Writes(t, "ACCEPTED", "receipt")
                /\ Stops(w)
<1>1. /\ tx \in [Tx -> Rows] /\ task \in [Workers -> Tasks] /\ t \in Tx
      /\ \A p \in {"release", "releaseNoValidators", "releaseMissing"} :
            Goto(w, p) => Moves(w, p)
      /\ task' = [task EXCEPT ![w] = NoTask] => Stops(w)
  BY DEF TypeOK, Tasks, Goto, Moves, Stops
<1>2. Finish(w) \/ Crash(w) => UNCHANGED tx /\ Stops(w)
  BY <1>1 DEF Finish, Crash
<1>3. ASSUME Release(w)
      PROVE  /\ UNCHANGED tx
             /\ \/ Stops(w)
                \/ task[w].pc = "releaseNoValidators" /\ Moves(w, "noValidators")
                \/ task[w].pc = "releaseMissing" /\ Moves(w, "missing")
  BY <1>1, <1>3 DEF Release, Stops, Moves, Tasks
<1>4. /\ tx' = Canceled(t) => Writes(t, "CANCELED", "note")
      /\ task' = [task EXCEPT ![w].pc = "release", ![w].todo = {}] => Moves(w, "release")
  BY <1>1 DEF Canceled, Writes, Moves, Rows, Tasks
<1>5. ASSUME Raise(w) \/ GenericError(w)
      PROVE  (UNCHANGED tx \/ Writes(t, "CANCELED", "note")) /\ Moves(w, "release")
  BY <1>4, <1>5, Zenon DEF Raise, GenericError, HandleGeneric
<1>6. ASSUME HandleNoValidators(w)
      PROVE  (UNCHANGED tx \/ Writes(t, "CANCELED", "note")) /\ Stops(w)
  BY <1>1, <1>4, <1>6, Zenon DEF HandleNoValidators
<1>7. ASSUME HandleMissing(w)
      PROVE  /\ \/ task[w].kind = "transaction" /\ Writes(t, "ACCEPTED", "receipt")
                \/ task[w].kind # "transaction" /\ Writes(t, "FINALIZED", tx[t].result)
             /\ Stops(w)
  BY <1>1, <1>7 DEF HandleMissing, Writes, Rows
<1>8. /\ ValidatorError(w) => UNCHANGED tx /\ Moves(w, "release")
      /\ NoValidators(w) => UNCHANGED tx /\ Moves(w, "releaseNoValidators")
      /\ Missing(w) => UNCHANGED tx /\ Moves(w, "releaseMissing")
  BY <1>1 DEF ValidatorError, NoValidators, Missing
<1>9. ASSUME ResetRow(w)
      PROVE  \/ UNCHANGED tx
             \/ owner[t] = w /\ Writes(t, "CANCELED", "note")
             \/ owner[t] = w /\ Writes(t, "PENDING", "null")
  <2> DEFINE n == tx[t].recovery + 1
             s == IF n >= MaxRecovery THEN "CANCELED" ELSE "PENDING"
             d == IF n >= MaxRecovery THEN "note" ELSE "null"
  <2>1. \/ UNCHANGED tx
        \/ /\ owner[t] = w
           /\ tx' = [tx EXCEPT ![t] = [tx[t] EXCEPT !.timeoutAppeal = FALSE, !.recovery = n,
                                                    !.status = s, !.result = d]]
    BY <1>9, Zenon DEF ResetRow
  <2>2. \/ s = "CANCELED" /\ d = "note"
        \/ s = "PENDING" /\ d = "null"
    BY Zenon
  <2> HIDE DEF n, s, d
  <2>3. ASSUME tx' = [tx EXCEPT ![t] = [tx[t] EXCEPT !.timeoutAppeal = FALSE, !.recovery = n,
                                                     !.status = s, !.result = d]]
        PROVE  Writes(t, s, d)
    BY <1>1, <2>3 DEF Writes, Rows
  <2> QED
    BY <2>1, <2>2, <2>3
<1>10. ASSUME LeaderError(w) \/ LeaderCrash(w)
       PROVE  /\ \/ UNCHANGED tx
                 \/ owner[t] = w /\ Writes(t, "CANCELED", "note")
                 \/ owner[t] = w /\ Writes(t, "PENDING", "null")
                 \/ LeaderCrash(w) /\ Writes(t, "ACCEPTED", "receipt")
              /\ Stops(w)
  <2>1. tx' = [tx EXCEPT ![t].status = "ACCEPTED", ![t].result = "receipt", ![t].elapsed = FALSE]
        => Writes(t, "ACCEPTED", "receipt")
    BY <1>1 DEF Writes, Rows
  <2>2. Stops(w)
    BY <1>1, <1>10 DEF LeaderError, LeaderCrash
  <2>3. \/ ResetRow(w)
        \/ LeaderCrash(w) /\ tx' = [tx EXCEPT ![t].status = "ACCEPTED", ![t].result = "receipt",
                                              ![t].elapsed = FALSE]
    BY <1>10, Zenon DEF LeaderError, LeaderCrash
  <2> QED
    BY <1>9, <2>1, <2>2, <2>3
<1> QED
  BY <1>2, <1>3, <1>5, <1>6, <1>7, <1>8, <1>10

(* The claims write no row.                                                *)
LEMMA TakeFacts ==
    ASSUME TypeOK, NEW w \in Workers, NEW kind, NEW t, NEW p, Take(w, kind, t, p)
    PROVE  /\ UNCHANGED tx
           /\ \A v \in Workers : v # w => task'[v] = task[v]
           /\ task'[w].pc = p /\ task'[w].kind = kind /\ task'[w].tx = t
           /\ task'[w].was = tx[t].status /\ task'[w].todo = {}
           /\ ~task'[w].leader /\ ~task'[w].rollback
<1>1. task \in [Workers -> Tasks]
  BY DEF TypeOK
<1> DEFINE k == [NoTask EXCEPT !.pc = p, !.kind = kind, !.tx = t, !.was = tx[t].status]
<1>2. /\ k.pc = p /\ k.kind = kind /\ k.tx = t /\ k.was = tx[t].status /\ k.todo = {}
      /\ ~k.leader /\ ~k.rollback
  BY DEF NoTask
<1>3. task' = [task EXCEPT ![w] = k] /\ UNCHANGED tx
  BY DEF Take
<1> HIDE DEF k
<1> QED
  BY <1>1, <1>2, <1>3

-----------------------------------------------------------------------------
(* Where a task of each kind and type can be: an upgrade is not decided by *)
(* consensus, so no place of the consensus, and no appeal, is of one.      *)
UndecidedUpgrades == \A t \in Tx : Type[t] = "upgrade" => tx[t].status \notin Eligible
TypedTask(k) ==
    /\ \/ k.pc \in {"run", "decided", "vote", "releaseMissing", "missing"}
       \/ k.kind = "appeal" /\ k.pc = "start"
       => Type[k.tx] # "upgrade"
    /\ k.kind = "transaction" /\ k.pc \in {"run", "decided"} => Type[k.tx] \in {"deploy", "run"}
    /\ k.pc = "upgraded" => Type[k.tx] = "upgrade" /\ k.outcome \in Terminal
    /\ k.pc = "decided" => k.outcome \in Eligible
    /\ k.pc = "vote" => k.kind = "appeal"
    /\ k.kind # "transaction" /\ k.pc \in Leased => k.was \in Eligible
UpgradeInv ==
    /\ UndecidedUpgrades
    /\ \A w \in Workers : TypedTask(task[w])

(* What the claims ask of the status.                                      *)
LEMMA ClaimedRow ==
    ASSUME NEW kind \in Kinds, NEW t \in Tx, RowReady(kind, t)
    PROVE  /\ kind = "transaction" => tx[t].status = "PENDING"
           /\ kind # "transaction" => tx[t].status \in Eligible
BY DEF RowReady, AwaitsFinality, Kinds

(* A write that decides no upgrade, and a task that is where it may be.    *)
LEMMA UpgradeKept ==
    ASSUME TypeOK, UpgradeInv,
           \/ UNCHANGED tx
           \/ \E u \in Tx : \E s, d : /\ Writes(u, s, d)
                                      /\ Type[u] = "upgrade" => s \notin Eligible,
           \/ UNCHANGED task
           \/ \E w \in Workers : /\ \A v \in Workers : v # w => task'[v] = task[v]
                                 /\ TypedTask(task'[w])
    PROVE  UpgradeInv'
<1>1. UndecidedUpgrades'
  BY DEF UpgradeInv, UndecidedUpgrades, Writes
<1>2. \A w \in Workers : TypedTask(task'[w])
  BY DEF UpgradeInv
<1> QED
  BY <1>1, <1>2 DEF UpgradeInv

(* A task that ends, or stops at one of the quiet places.                  *)
LEMMA QuietPlaces ==
    ASSUME TypeOK, UpgradeInv, NEW w \in Workers
    PROVE  /\ Stops(w) => TypedTask(task'[w])
           /\ \A p \in {"commit", "broken", "release", "releaseNoValidators", "settle",
                        "rollback", "requeue", "noValidators"} :
                 Moves(w, p) /\ task[w].pc \in Leased => TypedTask(task'[w])
<1>1. /\ NoTask.pc = "idle" /\ NoTask.kind = "transaction"
      /\ TypedTask(task[w])
  BY DEF NoTask, UpgradeInv
<1> QED
  BY <1>1 DEF TypedTask, Stops, Moves, Leased

(* UpgradeInv is inductive: over the steps of the tasks ...                *)
LEMMA UpgradeByTasks ==
    ASSUME TypeOK, UpgradeInv, NEW w \in Workers, Step(w) \/ Fail(w)
    PROVE  UpgradeInv'
<1> DEFINE t == task[w].tx
           Rest == \A v \in Workers : v # w => task'[v] = task[v]
           Row == \/ UNCHANGED tx
                  \/ \E u \in Tx : \E s, d : /\ Writes(u, s, d)
                                             /\ Type[u] = "upgrade" => s \notin Eligible
<1>1. /\ t \in Tx /\ task[w].todo \subseteq Tx
      /\ TypedTask(task[w])
      /\ Type[t] = "upgrade" => tx[t].status \notin Eligible
  BY DEF TypeOK, Tasks, UpgradeInv, UndecidedUpgrades
<1>2. /\ Eligible \cap {"PENDING", "PROCESSING", "FINALIZED", "CANCELED"} = {}
      /\ Eligible \cap Terminal = {}
      /\ \A p : Moves(w, p) => Rest
      /\ Stops(w) => Rest
  BY DEF Eligible, Terminal, Moves, Stops
<1> SUFFICES Row /\ Rest /\ TypedTask(task'[w])
  BY UpgradeKept
<1>3. CASE Skip(w) \/ Settle(w) \/ ValidatorError(w) \/ NoValidators(w) \/ Finish(w) \/ Crash(w)
  <2>1. task[w].pc \in Leased \/ Crash(w) \/ Finish(w)
    BY <1>3 DEF Skip, Settle, ValidatorError, NoValidators, At, Leased
  <2> QED
    BY <1>2, <1>3, <2>1, TransactionFacts, AppealFacts, EndFacts, QuietPlaces
<1>4. CASE Upgrade(w)
  BY <1>1, <1>2, <1>4, TransactionFacts DEF Upgrade, At, Moves, TypedTask
<1>5. CASE EndUpgrade(w)
  BY <1>1, <1>2, <1>5, TransactionFacts, QuietPlaces DEF EndUpgrade, TypedTask, Leased
<1>6. CASE Transfer(w)
  BY <1>1, <1>2, <1>6, TransactionFacts, QuietPlaces DEF Transfer, At, Leased
<1>7. CASE Propose(w)
  <2>1. /\ task[w].pc = "start" /\ task[w].kind = "transaction"
        /\ Type[t] \in {"deploy", "run"}
    BY <1>7 DEF Propose, At
  <2>2. CASE Writes(t, "PROCESSING", tx[t].result) /\ Moves(w, "run")
    BY <1>1, <1>2, <2>1, <2>2 DEF Moves, TypedTask
  <2>3. CASE Writes(t, tx[t].status, tx[t].result) /\ Moves(w, "broken")
    BY <1>1, <1>2, <2>1, <2>3, QuietPlaces DEF Leased
  <2> QED
    BY <1>7, <2>2, <2>3, TransactionFacts
<1>8. CASE Decide(w)
  BY <1>1, <1>2, <1>8, TransactionFacts DEF Decide, Moves, TypedTask, Leased
<1>9. CASE Conclude(w)
  <2>1. task[w].pc \in Leased /\ Type[t] # "upgrade"
    BY <1>1, <1>9 DEF Conclude, TypedTask, Leased
  <2>2. PICK p \in {"rollback", "requeue", "broken", "commit"} : Moves(w, p)
    BY <1>9, TransactionFacts
  <2>3. Writes(t, task[w].outcome, tx[t].result)
    BY <1>9, TransactionFacts
  <2> QED
    BY <1>1, <1>2, <2>1, <2>2, <2>3, QuietPlaces
<1>10. CASE Rollback(w)
  <2>1. PICK u \in task[w].todo : Writes(u, "PENDING", tx[u].result)
    BY <1>10, TransactionFacts
  <2>2. PICK p \in {"rollback", "requeue", "commit"} : Moves(w, p)
    BY <1>10, TransactionFacts
  <2>3. task[w].pc \in Leased
    BY <1>10 DEF Rollback, Leased
  <2> QED
    BY <1>1, <1>2, <2>1, <2>2, <2>3, QuietPlaces
<1>11. CASE Requeue(w)
  BY <1>1, <1>2, <1>11, TransactionFacts, QuietPlaces DEF Requeue, Leased
<1>12. CASE LeaderAppeal(w)
  <2>1. Type[t] # "upgrade" /\ task[w].pc \in Leased /\ task[w].kind = "appeal"
    BY <1>1, <1>12 DEF LeaderAppeal, At, TypedTask, Leased
  <2>2. Moves(w, "run") => TypedTask(task'[w])
    BY <1>1, <2>1 DEF Moves, TypedTask
  <2> QED
    BY <1>1, <1>2, <1>12, <2>1, <2>2, AppealFacts, QuietPlaces
<1>13. CASE LeaderTimeoutAppeal(w)
  BY <1>1, <1>2, <1>13, AppealFacts, QuietPlaces DEF LeaderTimeoutAppeal, At, Leased
<1>14. CASE ValidatorAppeal(w)
  <2>1. Type[t] # "upgrade" /\ task[w].pc \in Leased /\ task[w].kind = "appeal"
    BY <1>1, <1>14 DEF ValidatorAppeal, At, TypedTask, Leased
  <2>2. Moves(w, "vote") => TypedTask(task'[w])
    BY <1>1, <2>1 DEF Moves, TypedTask
  <2> QED
    BY <1>1, <1>2, <1>14, <2>1, <2>2, AppealFacts, QuietPlaces
<1>15. CASE RejectAppeal(w)
  BY <1>1, <1>2, <1>15, AppealFacts, QuietPlaces DEF RejectAppeal, TypedTask, Leased
<1>16. CASE UpholdAppeal(w)
  BY <1>1, <1>2, <1>16, AppealFacts, QuietPlaces DEF UpholdAppeal, Leased
<1>17. CASE Finalize(w)
  BY <1>1, <1>2, <1>17, AppealFacts, QuietPlaces DEF Finalize, At, Leased
<1>18. CASE Release(w)
  <2>1. Moves(w, "missing") /\ task[w].pc = "releaseMissing" => TypedTask(task'[w])
    BY <1>1 DEF Moves, TypedTask, Leased
  <2> QED
    BY <1>2, <1>18, <2>1, EndFacts, QuietPlaces DEF Leased
<1>19. CASE Raise(w) \/ GenericError(w)
  <2>1. task[w].pc \in Leased
    BY <1>19 DEF Raise, GenericError, Leased
  <2> QED
    BY <1>1, <1>2, <1>19, <2>1, EndFacts, QuietPlaces
<1>20. CASE HandleNoValidators(w)
  BY <1>1, <1>2, <1>20, EndFacts, QuietPlaces
<1>21. CASE HandleMissing(w)
  BY <1>1, <1>2, <1>21, EndFacts, QuietPlaces DEF HandleMissing, TypedTask
<1>22. CASE LeaderError(w) \/ LeaderCrash(w)
  <2>1. Type[t] # "upgrade"
    BY <1>1, <1>22 DEF LeaderError, LeaderCrash, TypedTask
  <2> QED
    BY <1>1, <1>2, <1>22, <2>1, EndFacts, QuietPlaces
<1>23. CASE Missing(w)
  BY <1>1, <1>2, <1>23, EndFacts DEF Missing, Moves, TypedTask, Leased
<1>24. CASE ClaimSeen(w)
  <2>1. CASE UNCHANGED tx /\ task' = [task EXCEPT ![w] = NoTask]
    BY <2>1, QuietPlaces DEF Stops, TypeOK
  <2>2. ASSUME NEW u \in Tx, RowReady(task[w].kind, u), Take(w, task[w].kind, u, "start")
        PROVE  UNCHANGED tx /\ Rest /\ TypedTask(task'[w])
    <3>1. task[w].kind \in Kinds
      BY DEF TypeOK, Tasks
    <3> QED
      BY <2>2, <3>1, TakeFacts, ClaimedRow DEF UpgradeInv, UndecidedUpgrades, TypedTask
  <2> QED
    BY <1>1, <1>24, <2>1, <2>2, ForemostFacts DEF ClaimSeen
<1> QED
  BY <1>3, <1>4, <1>5, <1>6, <1>7, <1>8, <1>9, <1>10, <1>11, <1>12, <1>13, <1>14, <1>15,
     <1>16, <1>17, <1>18, <1>19, <1>20, <1>21, <1>22, <1>23, <1>24, Zenon DEF Step, Fail

(* ... and over every step.                                                *)
LEMMA UpgradeStep == ASSUME TypeOK, UpgradeInv, [Next]_vars PROVE UpgradeInv'
<1>1. CASE UNCHANGED vars
  BY <1>1, UpgradeKept DEF vars
<1>2. ASSUME NEW t \in Tx, Users(t) \/ Clock(t) \/ Recovery(t)
      PROVE  UpgradeInv'
  <2>1. UNCHANGED task
    BY <1>2, UserFacts
  <2>2. {"PENDING", "CANCELED"} \cap Eligible = {}
    BY DEF Eligible
  <2>3. \/ UNCHANGED tx
        \/ \E s, d : Writes(t, s, d) /\ (Type[t] = "upgrade" => s \notin Eligible)
    BY <1>2, <2>2, UserFacts DEF Users, Clock, Recovery, UpgradeInv, UndecidedUpgrades
  <2> QED
    BY <2>1, <2>3, UpgradeKept
<1>3. CASE \E w \in Workers : Step(w) \/ Fail(w)
  BY <1>3, UpgradeByTasks
<1>4. ASSUME NEW w \in Workers, NEW kind \in Kinds, Look(w, kind)
      PROVE  UpgradeInv'
  <2> DEFINE k == [NoTask EXCEPT !.pc = "look", !.kind = kind, !.todo = Claimable(kind)]
  <2>1. TypedTask(k)
    BY DEF NoTask, TypedTask, Leased
  <2>2. UNCHANGED tx /\ task' = [task EXCEPT ![w] = k] /\ task \in [Workers -> Tasks]
    BY <1>4 DEF Look, TypeOK
  <2> HIDE DEF k
  <2> QED
    BY <2>1, <2>2, UpgradeKept
<1>5. ASSUME NEW w \in Workers, NEW kind \in Kinds, NEW t \in Tx,
             Claim(w, kind, t) \/ ClaimInBackoff(w, t)
      PROVE  UpgradeInv'
  <2>1. PICK k \in Kinds, p \in {"start", "release"} : RowReady(k, t) /\ Take(w, k, t, p)
    BY <1>5, ForemostFacts DEF Claim, ClaimInBackoff, Claimable, Kinds
  <2>2. TypedTask(task'[w])
    BY <2>1, TakeFacts, ClaimedRow DEF UpgradeInv, UndecidedUpgrades, TypedTask
  <2> QED
    BY <2>1, <2>2, TakeFacts, UpgradeKept
<1>6. 1 \in Tx /\ "transaction" \in Kinds
  BY QueueAssumption DEF Tx, Kinds
<1> QED
  BY <1>1, <1>2, <1>3, <1>4, <1>5, <1>6 DEF Next

(* No upgrade is ever decided by consensus.                                *)
LEMMA UpgradesApart == Spec => []UpgradeInv
<1>1. Init => UpgradeInv
  BY DEF Init, UpgradeInv, UndecidedUpgrades, TypedTask, NewRow, NoTask, Leased, Eligible
<1>2. TypeOK /\ UpgradeInv /\ [Next]_vars => UpgradeInv'
  BY UpgradeStep
<1> QED
  BY <1>1, <1>2, TypeCorrect, PTL DEF Spec

-----------------------------------------------------------------------------
(* Who takes a step.                                                       *)
LEMMA NextCases ==
    ASSUME [Next]_vars
    PROVE  \/ UNCHANGED vars
           \/ \E t \in Tx : Users(t) \/ Clock(t) \/ Recovery(t)
           \/ \E w \in Workers : Step(w) \/ Fail(w)
           \/ \E w \in Workers, kind \in Kinds : Look(w, kind)
           \/ \E w \in Workers, kind \in Kinds, t \in Tx : Claim(w, kind, t)
           \/ \E w \in Workers, t \in Tx : ClaimInBackoff(w, t)
BY Zenon DEF Next

(* A write keeps a result, unless it writes a receipt, cancels the row, is *)
(* to a row that is not decided, or is the reset of the owner.             *)
LEMMA KeepingWrites ==
    ASSUME TypeOK, UpgradeInv, [Next]_vars
    PROVE  \/ UNCHANGED tx
           \/ \E u \in Tx : \E s, d :
                 /\ Writes(u, s, d)
                 /\ \/ d = tx[u].result \/ d = "receipt" \/ s = "CANCELED"
                    \/ tx[u].status \notin Eligible
                    \/ \E w \in Workers : Resets(w, u)
<1> DEFINE Kept(u) == \E s, d :
                 /\ Writes(u, s, d)
                 /\ \/ d = tx[u].result \/ d = "receipt" \/ s = "CANCELED"
                    \/ tx[u].status \notin Eligible
                    \/ \E w \in Workers : Resets(w, u)
<1>1. ASSUME NEW t \in Tx, Users(t) \/ Clock(t) \/ Recovery(t)
      PROVE  UNCHANGED tx \/ Kept(t)
  <2>1. Recover(t) => tx[t].status \notin Eligible
    BY DEF Recover, Stuck, Eligible
  <2> QED
    BY <1>1, <2>1, UserFacts DEF Users, Clock, Recovery
<1>2. ASSUME NEW w \in Workers, Step(w) \/ Fail(w)
      PROVE  UNCHANGED tx \/ \E u \in Tx : Kept(u)
  <2> DEFINE t == task[w].tx
  <2>1. t \in Tx /\ task[w].todo \subseteq Tx
    BY DEF TypeOK, Tasks
  <2>2. CASE Upgrade(w)
    BY <2>1, <2>2, TransactionFacts DEF Upgrade, UpgradeInv, UndecidedUpgrades
  <2>3. CASE Rollback(w)
    BY <2>1, <2>3, TransactionFacts
  <2>4. CASE Skip(w) \/ EndUpgrade(w) \/ Transfer(w) \/ Propose(w) \/ Decide(w) \/ Conclude(w) \/ Requeue(w)
    BY <2>1, <2>4, TransactionFacts
  <2>5. CASE LeaderAppeal(w) \/ LeaderTimeoutAppeal(w) \/ ValidatorAppeal(w) \/ RejectAppeal(w)
             \/ UpholdAppeal(w) \/ Finalize(w) \/ Settle(w)
    BY <2>1, <2>5, AppealFacts
  <2>6. CASE LeaderError(w) \/ LeaderCrash(w)
    <3>1. task[w].pc = "run" /\ task'[w].pc = "idle"
      BY <2>6, EndFacts, InitialValues DEF Stops, LeaderError, LeaderCrash
    <3>2. owner[t] = w => Resets(w, t)
      BY <3>1 DEF Resets
    <3> QED
      BY <2>1, <2>6, <3>2, EndFacts
  <2>7. CASE Finish(w) \/ Release(w) \/ Raise(w) \/ GenericError(w) \/ HandleNoValidators(w)
             \/ HandleMissing(w) \/ ValidatorError(w) \/ NoValidators(w) \/ Missing(w) \/ Crash(w)
    BY <2>1, <2>7, EndFacts
  <2>8. CASE ClaimSeen(w)
    BY <2>8 DEF ClaimSeen, Take
  <2> QED
    BY <1>2, <2>2, <2>3, <2>4, <2>5, <2>6, <2>7, <2>8, Zenon DEF Step, Fail
<1>3. ASSUME NEW w \in Workers, NEW kind, NEW t,
             Claim(w, kind, t) \/ Look(w, kind) \/ ClaimInBackoff(w, t)
      PROVE  UNCHANGED tx
  BY <1>3 DEF Claim, Look, ClaimInBackoff, Take
<1>4. UNCHANGED vars => UNCHANGED tx
  BY DEF vars
<1> QED
  BY <1>1, <1>2, <1>3, <1>4, NextCases, Zenon

(* No condition on the environment: whoever writes the result of a decided *)
(* row writes a receipt, cancels the row, or is the worker that owns it    *)
(* and executes it again.                                                  *)
THEOREM DecisionsAreKept == Spec => DecisionKept
<1> DEFINE Kept(t) == \/ tx'[t].result = "receipt" \/ tx'[t].status = "CANCELED"
                      \/ \E w \in Workers : Resets(w, t)
<1>1. ASSUME TypeOK, UpgradeInv, [Next]_vars, NEW t \in Tx,
             tx[t].status \in Eligible, tx[t].result = "receipt"
      PROVE  Kept(t)
  BY <1>1, KeepingWrites DEF Writes
<1>2. TypeOK /\ UpgradeInv /\ [Next]_vars
      => [\A t \in Tx : tx[t].status \in Eligible /\ tx[t].result = "receipt" => Kept(t)]_vars
  BY <1>1
<1> QED
  BY <1>2, TypeCorrect, UpgradesApart, PTL DEF Spec, DecisionKept

-----------------------------------------------------------------------------
(* A worker that released its row and has still to record why.             *)
Unfinished(w) == task[w].pc \in {"noValidators", "missing"}
Recorded ==
    \A v, w \in Workers : Unfinished(v) /\ task[w].pc \in Leased => task[v].tx # task[w].tx

(* It comes from a release.                                                *)
LEMMA UnfinishedBefore ==
    ASSUME TypeOK, [Next]_vars, NEW v \in Workers, Unfinished(v)'
    PROVE  /\ task'[v].tx = task[v].tx
           /\ Unfinished(v) \/ Release(v)
<1> USE DEF Unfinished
<1> DEFINE Goal == task'[v].tx = task[v].tx /\ (Unfinished(v) \/ Release(v))
<1>1. ASSUME task'[v] = task[v]
      PROVE  Goal
  BY <1>1
<1>2. ASSUME NEW w \in Workers, Stops(w) \/ \E p \in Leased : Moves(w, p)
      PROVE  Goal
  <2>1. v # w
    BY <1>2, InitialValues DEF Stops, Moves, Leased
  <2> QED
    BY <1>1, <1>2, <2>1 DEF Stops, Moves
<1>3. ASSUME NEW w \in Workers, NEW kind, NEW t, NEW p \in {"start", "release"}, Take(w, kind, t, p)
      PROVE  Goal
  <2>1. v # w
    BY <1>3, TakeFacts
  <2> QED
    BY <1>1, <1>3, <2>1, TakeFacts
<1>4. ASSUME NEW w \in Workers, Step(w) \/ Fail(w)
      PROVE  Goal
  <2>1. CASE Release(w)
    <3>1. CASE v = w
      BY <2>1, <3>1, InitialValues, EndFacts DEF Stops, Moves
    <3> QED
      BY <1>1, <2>1, <3>1, EndFacts DEF Stops, Moves
  <2>2. {"commit", "upgraded", "release", "run", "broken", "decided", "rollback", "requeue",
         "vote", "settle", "releaseNoValidators", "releaseMissing"} \subseteq Leased
    BY DEF Leased
  <2>3. CASE Skip(w) \/ Upgrade(w) \/ EndUpgrade(w) \/ Transfer(w) \/ Propose(w) \/ Decide(w)
             \/ Conclude(w) \/ Rollback(w) \/ Requeue(w)
    BY <1>2, <2>2, <2>3, TransactionFacts
  <2>4. CASE LeaderAppeal(w) \/ LeaderTimeoutAppeal(w) \/ ValidatorAppeal(w) \/ RejectAppeal(w)
             \/ UpholdAppeal(w) \/ Finalize(w) \/ Settle(w)
    BY <1>2, <2>2, <2>4, AppealFacts
  <2>5. CASE Finish(w) \/ Raise(w) \/ GenericError(w) \/ HandleNoValidators(w)
             \/ HandleMissing(w) \/ ValidatorError(w) \/ NoValidators(w) \/ Missing(w)
             \/ LeaderError(w) \/ LeaderCrash(w) \/ Crash(w)
    BY <1>2, <2>2, <2>5, EndFacts
  <2>6. CASE ClaimSeen(w)
    <3>1. CASE task' = [task EXCEPT ![w] = NoTask]
      BY <1>2, <3>1 DEF Stops, TypeOK
    <3> QED
      BY <1>3, <2>6, <3>1 DEF ClaimSeen
  <2> QED
    BY <1>4, <2>1, <2>3, <2>4, <2>5, <2>6, Zenon DEF Step, Fail
<1>5. ASSUME NEW w \in Workers, NEW kind, Look(w, kind)
      PROVE  Goal
  <2> DEFINE k == [NoTask EXCEPT !.pc = "look", !.kind = kind, !.todo = Claimable(kind)]
  <2>1. k.pc = "look" /\ task' = [task EXCEPT ![w] = k] /\ task \in [Workers -> Tasks]
    BY <1>5 DEF Look, TypeOK, NoTask
  <2> HIDE DEF k
  <2> QED
    BY <1>1, <2>1
<1>6. ASSUME NEW w \in Workers, NEW kind, NEW t, Claim(w, kind, t) \/ ClaimInBackoff(w, t)
      PROVE  Goal
  BY <1>3, <1>6 DEF Claim, ClaimInBackoff
<1>7. UNCHANGED task => Goal
  BY <1>1
<1>8. /\ UNCHANGED vars => UNCHANGED task
      /\ (\E t \in Tx : Users(t) \/ Clock(t) \/ Recovery(t)) => UNCHANGED task
  BY UserFacts DEF vars
<1> QED
  BY <1>4, <1>5, <1>6, <1>7, <1>8, NextCases, Zenon

(* Recorded is inductive: a release finds nobody else on its row, and only *)
(* a hand-over lets a claim overtake the record.                           *)
LEMMA RecordedStep ==
    ASSUME TypeOK, LeaseHeld, Recorded, "handover" \notin Env, [Next]_vars
    PROVE  Recorded'
<1> SUFFICES ASSUME NEW v \in Workers, NEW w \in Workers,
                    Unfinished(v)', task'[w].pc \in Leased, task'[v].tx = task'[w].tx
             PROVE  FALSE
  BY DEF Recorded, Unfinished
<1>1. task'[v].tx = task[v].tx /\ (Unfinished(v) \/ Release(v))
  BY UnfinishedBefore
<1>2. LeaseStep /\ task \in [Workers -> Tasks] /\ v # w
  BY LeaseSteps DEF TypeOK, Unfinished, Leased
<1>3. CASE Release(v)
  <2>1. task'[w] = task[w] /\ task[v].pc \in Leased
    BY <1>2, <1>3, EndFacts DEF Release, Stops, Moves, Leased
  <2> QED
    BY <1>1, <1>2, <2>1 DEF LeaseHeld
<1>4. CASE Unfinished(v)
  <2>1. ASSUME task[w].pc \in Leased, task'[w].tx = task[w].tx
        PROVE  FALSE
    BY <1>1, <1>4, <2>1 DEF Recorded
  <2>2. ASSUME NEW x \in Workers, NEW kind \in Kinds, NEW t \in Tx, Begins(x, kind, t)
        PROVE  FALSE
    <3>1. PICK p : Take(x, kind, t, p)
      BY <2>2 DEF Begins
    <3>2. x = w => task'[w].tx = t
      BY <3>1, TakeFacts
    <3>3. x # w => task'[w] = task[w]
      BY <3>1, TakeFacts
    <3>4. ~Unrecorded(t)
      BY <2>2 DEF Begins, RowReady
    <3> QED
      BY <1>1, <1>4, <2>1, <3>2, <3>3, <3>4 DEF Unrecorded, Unfinished
  <2>3. ASSUME NEW x \in Workers, Ends(x)
        PROVE  FALSE
    BY <2>1, <2>3 DEF Ends
  <2> QED
    BY <1>2, <2>1, <2>2, <2>3 DEF LeaseStep, Quiet, Touches
<1> QED
  BY <1>1, <1>3, <1>4

(* Until it has recorded why, nobody works on the row it released.         *)
LEMMA ErrorsAreRecorded ==
    ASSUME "slow" \notin Env, "handover" \notin Env PROVE Spec => []Recorded
<1>1. Init => Recorded
  BY InitialValues DEF Init, Recorded, Unfinished
<1>2. TypeOK /\ LeaseHeld /\ Recorded /\ [Next]_vars => Recorded'
  BY RecordedStep
<1> QED
  BY <1>1, <1>2, TypeCorrect, LeasesAreHeld, PTL DEF Spec

-----------------------------------------------------------------------------
(* The places that rely on the receipt of their row.                       *)
NeedsReceipt(k) == k.pc \in {"decided", "vote"} \/ (k.kind = "appeal" /\ k.pc = "start")
Receipted(k) == NeedsReceipt(k) => Type[k.tx] = "send" \/ tx[k.tx].result = "receipt"
ResultInv == DecidedHasResult /\ \A w \in Workers : Receipted(task[w])

(* A step of w that writes row u: what it must not do to keep ResultInv.   *)
LEMMA ResultByWrite ==
    ASSUME TypeOK, ResultInv, NEW w \in Workers, NEW u \in Tx, NEW s, NEW d,
           Writes(u, s, d),
           Type[u] # "send" /\ s \in Eligible => d = "receipt",
           \A x \in Workers : x # w => task'[x] = task[x],
           \/ d = tx[u].result \/ d = "receipt"
           \/ \A x \in Workers : x # w /\ task[x].pc \in Leased => task[x].tx # u,
           NeedsReceipt(task'[w]) =>
               \/ Type[task'[w].tx] = "send"
               \/ task'[w].tx = u /\ d = "receipt"
    PROVE  ResultInv'
<1>1. tx \in [Tx -> Rows] /\ \A x \in Workers : task[x].tx \in Tx
  BY DEF TypeOK, Tasks
<1>2. DecidedHasResult'
  BY <1>1 DEF Writes, ResultInv, DecidedHasResult
<1>3. ASSUME NEW x \in Workers
      PROVE  Receipted(task[x])'
  <2>1. CASE x = w
    BY <2>1 DEF Writes, Receipted
  <2>2. CASE x # w
    <3>1. SUFFICES ASSUME NeedsReceipt(task[x]), Type[task[x].tx] # "send"
                   PROVE  tx'[task[x].tx].result = "receipt"
      BY <2>2 DEF Receipted, NeedsReceipt
    <3>2. tx[task[x].tx].result = "receipt" /\ task[x].pc \in Leased
      BY <3>1 DEF ResultInv, Receipted, NeedsReceipt, Leased
    <3> QED
      BY <1>1, <2>2, <3>2 DEF Writes
  <2> QED
    BY <2>1, <2>2
<1> QED
  BY <1>2, <1>3 DEF ResultInv

(* A step of w that writes no row.                                         *)
LEMMA ResultByMove ==
    ASSUME TypeOK, ResultInv, NEW w \in Workers, UNCHANGED tx,
           \A x \in Workers : x # w => task'[x] = task[x],
           Receipted(task'[w])
    PROVE  ResultInv'
BY DEF ResultInv, DecidedHasResult, Receipted

(* ResultInv is inductive: a receipt is written before the status ...      *)
LEMMA ResultByTasks ==
    ASSUME TypeOK, LeaseHeld, UpgradeInv, Recorded, ResultInv,
           NEW w \in Workers, Step(w) \/ Fail(w)
    PROVE  ResultInv'
<1> DEFINE t == task[w].tx
           Alone == \A x \in Workers : x # w /\ task[x].pc \in Leased => task[x].tx # t
<1>1. /\ t \in Tx /\ task[w].todo \subseteq Tx /\ task[w].kind \in Kinds
      /\ TypedTask(task[w]) /\ Receipted(task[w])
      /\ \A u \in Tx : Type[u] # "send" /\ tx[u].status \in Eligible => tx[u].result = "receipt"
      /\ task[w].pc \in Leased \/ Unfinished(w) => Alone
  BY DEF TypeOK, Tasks, UpgradeInv, ResultInv, DecidedHasResult, LeaseHeld, Recorded
<1>2. /\ Eligible \cap {"PENDING", "PROCESSING", "FINALIZED", "CANCELED"} = {}
      /\ Eligible \cap Terminal = {}
      /\ \A p : Moves(w, p) => \A x \in Workers : x # w => task'[x] = task[x]
      /\ Stops(w) => \A x \in Workers : x # w => task'[x] = task[x]
  BY DEF Eligible, Terminal, Moves, Stops
<1>3. /\ \A p : Moves(w, p) /\ p \notin {"decided", "vote", "start"} => ~NeedsReceipt(task'[w])
      /\ Stops(w) => ~NeedsReceipt(task'[w])
  BY InitialValues DEF Moves, Stops, NeedsReceipt
<1> HIDE DEF Alone
<1>4. CASE UNCHANGED tx /\ (Stops(w) \/ \E p : Moves(w, p) /\ p \notin {"decided", "vote", "start"})
  BY <1>2, <1>3, <1>4, ResultByMove DEF Receipted
<1>5. CASE Upgrade(w)
  BY <1>1, <1>2, <1>3, <1>5, TransactionFacts, ResultByWrite
     DEF Upgrade, At, Leased, UpgradeInv, UndecidedUpgrades, Alone
<1>6. CASE EndUpgrade(w)
  <2>1. task[w].outcome \notin Eligible
    BY <1>1, <1>2, <1>6 DEF EndUpgrade, TypedTask
  <2>2. Writes(t, task[w].outcome, tx[t].result) /\ Moves(w, "release")
    BY <1>6, TransactionFacts
  <2> QED
    BY <1>1, <1>2, <1>3, <2>1, <2>2, ResultByWrite
<1>7. CASE Transfer(w)
  BY <1>1, <1>2, <1>3, <1>7, TransactionFacts, ResultByWrite DEF Transfer
<1>8. CASE Propose(w)
  BY <1>1, <1>2, <1>3, <1>8, TransactionFacts, ResultByWrite
<1>9. CASE Decide(w)
  <2>1. Writes(t, tx[t].status, "receipt") /\ Moves(w, "decided") /\ task'[w].tx = t
    BY <1>9, TransactionFacts DEF Moves
  <2> QED
    BY <1>1, <1>2, <2>1, ResultByWrite
<1>10. CASE Conclude(w)
  <2>1. Type[t] = "send" \/ tx[t].result = "receipt"
    BY <1>1, <1>10 DEF Conclude, Receipted, NeedsReceipt
  <2>2. PICK p \in {"rollback", "requeue", "broken", "commit"} : Moves(w, p)
    BY <1>10, TransactionFacts
  <2> QED
    BY <1>1, <1>2, <1>3, <1>10, <2>1, <2>2, TransactionFacts, ResultByWrite
<1>11. CASE Rollback(w)
  <2>1. PICK u \in task[w].todo : Writes(u, "PENDING", tx[u].result)
    BY <1>11, TransactionFacts
  <2>2. PICK p \in {"rollback", "requeue", "commit"} : Moves(w, p)
    BY <1>11, TransactionFacts
  <2> QED
    BY <1>1, <1>2, <1>3, <2>1, <2>2, ResultByWrite
<1>12. CASE Requeue(w)
  BY <1>1, <1>2, <1>3, <1>12, TransactionFacts, ResultByWrite
<1>13. CASE LeaderAppeal(w)
  <2>1. PICK p \in {"broken", "commit", "run"} : Moves(w, p)
    BY <1>13, AppealFacts
  <2> QED
    BY <1>1, <1>2, <1>3, <1>13, <2>1, AppealFacts, ResultByWrite
<1>14. CASE LeaderTimeoutAppeal(w)
  BY <1>1, <1>2, <1>3, <1>14, AppealFacts, ResultByWrite
<1>15. CASE ValidatorAppeal(w)
  <2>1. Type[t] = "send" \/ tx[t].result = "receipt"
    BY <1>1, <1>15 DEF ValidatorAppeal, At, Receipted, NeedsReceipt
  <2>2. CASE /\ Writes(t, tx[t].status, tx[t].result)
             /\ \E p \in {"broken", "commit"} : Moves(w, p)
    BY <1>1, <1>2, <1>3, <2>2, ResultByWrite
  <2>3. CASE Writes(t, "PROCESSING", tx[t].result) /\ Moves(w, "vote")
    <3>1. task'[w].tx = t
      BY <2>3 DEF Moves
    <3> QED
      BY <1>1, <1>2, <2>1, <2>3, <3>1, ResultByWrite
  <2> QED
    BY <1>15, <2>2, <2>3, AppealFacts
<1>16. CASE RejectAppeal(w)
  <2>1. Type[t] = "send" \/ tx[t].result = "receipt"
    BY <1>1, <1>16 DEF RejectAppeal, Receipted, NeedsReceipt
  <2>2. PICK p \in {"broken", "commit"} : Moves(w, p)
    BY <1>16, AppealFacts
  <2> QED
    BY <1>1, <1>2, <1>3, <1>16, <2>1, <2>2, AppealFacts, ResultByWrite
<1>17. CASE UpholdAppeal(w)
  <2>1. PICK p \in {"rollback", "requeue", "commit"} : Moves(w, p)
    BY <1>17, AppealFacts
  <2> QED
    BY <1>1, <1>2, <1>3, <1>17, <2>1, AppealFacts, ResultByWrite
<1>18. CASE Finalize(w) /\ ~UNCHANGED tx
  BY <1>1, <1>2, <1>3, <1>18, AppealFacts, ResultByWrite
<1>19. CASE Raise(w) \/ GenericError(w) \/ HandleNoValidators(w)
  <2>1. Alone
    BY <1>1, <1>19 DEF Raise, GenericError, HandleNoValidators, Leased, Unfinished
  <2> QED
    BY <1>1, <1>2, <1>3, <1>4, <1>19, <2>1, EndFacts, ResultByWrite DEF Alone
<1>20. CASE HandleMissing(w)
  BY <1>1, <1>2, <1>3, <1>20, EndFacts, ResultByWrite
<1>21. CASE LeaderError(w) \/ LeaderCrash(w)
  <2>1. Alone
    BY <1>1, <1>21 DEF LeaderError, LeaderCrash, Leased
  <2> QED
    BY <1>1, <1>2, <1>3, <1>4, <1>21, <2>1, EndFacts, ResultByWrite DEF Alone
<1>22. CASE ClaimSeen(w)
  <2>1. CASE UNCHANGED tx /\ task' = [task EXCEPT ![w] = NoTask]
    BY <1>4, <2>1 DEF Stops, TypeOK
  <2>2. ASSUME NEW u \in Tx, RowReady(task[w].kind, u), Take(w, task[w].kind, u, "start")
        PROVE  ResultInv'
    BY <1>1, <2>2, TakeFacts, ClaimedRow, ResultByMove DEF Receipted, NeedsReceipt
  <2> QED
    BY <1>1, <1>22, <2>1, <2>2, ForemostFacts DEF ClaimSeen, TypeOK, Tasks
<1> QED
  <2>1. CASE \/ Skip(w) \/ Settle(w) \/ (Finalize(w) /\ UNCHANGED tx) \/ Finish(w) \/ Release(w)
             \/ ValidatorError(w) \/ NoValidators(w) \/ Missing(w) \/ Crash(w)
    BY <1>4, <2>1, TransactionFacts, AppealFacts, EndFacts
  <2> QED
    BY <1>5, <1>6, <1>7, <1>8, <1>9, <1>10, <1>11, <1>12, <1>13, <1>14, <1>15, <1>16, <1>17,
       <1>18, <1>19, <1>20, <1>21, <1>22, <2>1, Zenon DEF Step, Fail

(* ... and recovery only wipes the result of a row nobody works on.        *)
LEMMA ResultStep ==
    ASSUME TypeOK, LeaseHeld, UpgradeInv, Recorded, ResultInv, [Next]_vars
    PROVE  ResultInv'
<1>1. CASE UNCHANGED <<tx, task>>
  BY <1>1 DEF ResultInv, DecidedHasResult, Receipted, NeedsReceipt
<1>2. ASSUME NEW t \in Tx, Users(t) \/ Clock(t) \/ Recovery(t)
      PROVE  ResultInv'
  <2>1. UNCHANGED task /\ tx \in [Tx -> Rows] /\ \A w \in Workers : task[w].tx \in Tx
    BY <1>2, UserFacts DEF TypeOK, Tasks
  <2>2. Escalate(t) \/ Recover(t) => \A w \in Workers : task[w].pc \in Leased => task[w].tx # t
    BY DEF Escalate, Recover, Stuck, LeaseHeld
  <2>3. \/ UNCHANGED tx
        \/ \E s, d : /\ Writes(t, s, d)
                     /\ s \in Eligible => s = tx[t].status /\ d = tx[t].result
                     /\ \/ d = tx[t].result
                        \/ \A w \in Workers : task[w].pc \in Leased => task[w].tx # t
    <3>1. {"PENDING", "CANCELED"} \cap Eligible = {}
      BY DEF Eligible
    <3> QED
      BY <1>2, <2>2, <3>1, UserFacts DEF Users, Clock, Recovery
  <2>4. CASE UNCHANGED tx
    BY <1>1, <2>1, <2>4
  <2>5. ASSUME NEW s, NEW d, Writes(t, s, d),
               s \in Eligible => s = tx[t].status /\ d = tx[t].result,
               \/ d = tx[t].result
               \/ \A w \in Workers : task[w].pc \in Leased => task[w].tx # t
        PROVE  ResultInv'
    <3>1. DecidedHasResult'
      BY <2>1, <2>5 DEF Writes, ResultInv, DecidedHasResult
    <3>2. ASSUME NEW w \in Workers
          PROVE  Receipted(task[w])'
      <4>1. SUFFICES ASSUME NeedsReceipt(task[w]), Type[task[w].tx] # "send"
                     PROVE  tx'[task[w].tx].result = "receipt"
        BY <2>1 DEF Receipted, NeedsReceipt
      <4>2. tx[task[w].tx].result = "receipt" /\ task[w].pc \in Leased
        BY <4>1 DEF ResultInv, Receipted, NeedsReceipt, Leased
      <4> QED
        BY <2>1, <2>5, <4>2 DEF Writes
    <3> QED
      BY <3>1, <3>2 DEF ResultInv
  <2> QED
    BY <2>3, <2>4, <2>5
<1>3. CASE \E w \in Workers : Step(w) \/ Fail(w)
  BY <1>3, ResultByTasks
<1>4. ASSUME NEW w \in Workers, NEW kind \in Kinds, Look(w, kind)
      PROVE  ResultInv'
  <2> DEFINE k == [NoTask EXCEPT !.pc = "look", !.kind = kind, !.todo = Claimable(kind)]
  <2>1. k.pc = "look" /\ task' = [task EXCEPT ![w] = k] /\ task \in [Workers -> Tasks] /\ UNCHANGED tx
    BY <1>4 DEF Look, TypeOK, NoTask
  <2> HIDE DEF k
  <2> QED
    BY <2>1, ResultByMove DEF Receipted, NeedsReceipt
<1>5. ASSUME NEW w \in Workers, NEW kind \in Kinds, NEW t \in Tx,
             Claim(w, kind, t) \/ ClaimInBackoff(w, t)
      PROVE  ResultInv'
  <2>1. PICK k \in Kinds, p \in {"start", "release"} : RowReady(k, t) /\ Take(w, k, t, p)
    BY <1>5, ForemostFacts DEF Claim, ClaimInBackoff, Claimable, Kinds
  <2>2. Receipted(task'[w])
    BY <2>1, TakeFacts, ClaimedRow DEF ResultInv, DecidedHasResult, Receipted, NeedsReceipt, Kinds
  <2> QED
    BY <2>1, <2>2, TakeFacts, ResultByMove
<1>6. UNCHANGED vars => UNCHANGED <<tx, task>>
  BY DEF vars
<1>7. "transaction" \in Kinds
  BY DEF Kinds
<1> QED
  BY <1>1, <1>2, <1>3, <1>4, <1>5, <1>6, <1>7, NextCases, Zenon

(* A decision always comes with a receipt, when no task outlives its lease *)
(* and no row is claimed before the error that released it is recorded.    *)
(* Runs refute it without either condition.                                *)
THEOREM DecidedHasReceipt ==
    ASSUME "slow" \notin Env, "handover" \notin Env PROVE Spec => []DecidedHasResult
<1>1. Init => ResultInv
  BY InitialValues DEF Init, ResultInv, DecidedHasResult, Receipted, NeedsReceipt, NewRow, Eligible
<1>2. TypeOK /\ LeaseHeld /\ UpgradeInv /\ Recorded /\ ResultInv /\ [Next]_vars => ResultInv'
  BY ResultStep
<1>3. ResultInv => DecidedHasResult
  BY DEF ResultInv
<1> QED
  BY <1>1, <1>2, <1>3, TypeCorrect, LeasesAreHeld, UpgradesApart, ErrorsAreRecorded, PTL DEF Spec
=============================================================================
