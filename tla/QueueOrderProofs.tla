-------------------------- MODULE QueueOrderProofs --------------------------
(***************************************************************************)
(* The orders the queue keeps: transactions of a contract become final in  *)
(* the order of created_at (the queue implements OrderedFinality), and, as *)
(* long as nobody appeals, execute in it (QueueOrder).                     *)
(*                                                                         *)
(* Both proofs reduce a step of the queue to what it does to one row       *)
(* (PhaseStep, OrderStep), and carry an invariant on the rows (FinalInv,   *)
(* OrderInv) over it.                                                      *)
(***************************************************************************)
EXTENDS ContractQueueProofs, WellFoundedInduction

(* The places of a task whose row is neither final nor canceled.           *)
Working == {"start", "run", "decided", "vote", "rollback", "requeue", "broken"}
Open(t) == Present(t) /\ tx[t].status \notin Terminal
OlderClosed(t) == \A u \in Older(t) : tx[u].status \in Terminal

InOrder == \A t, u \in Tx : u < t /\ Present(t) => Present(u)
FinalAfterOlder == \A t \in Tx : tx[t].status = "FINALIZED" => OlderClosed(t)
OrderlyTask(w) ==
    LET k == task[w] IN
    /\ k.pc \in Leased \cup {"noValidators"} => Present(k.tx)
    /\ k.pc \in Working => tx[k.tx].status \notin Terminal
    /\ k.kind = "finalization" /\ k.pc = "start" => OlderClosed(k.tx)
    /\ k.kind = "finalization" /\ k.pc = "look" =>
         \A t \in k.todo : Present(t) /\ OlderClosed(t)
    /\ k.pc = "rollback" => k.todo \subseteq Newer(k.tx)
    /\ k.pc \in {"releaseNoValidators", "noValidators"} => tx[k.tx].status # "FINALIZED"
    /\ k.pc \notin {"releaseMissing", "missing"}
FinalInv == InOrder /\ FinalAfterOlder /\ \A w \in Workers : OrderlyTask(w)

(* No error strikes between the commit of FINALIZED and the release.       *)
Calm == \A w \in Workers : tx[task[w].tx].status = "FINALIZED" => ~GenericError(w)

(* What a step may do to the phase of a row.                               *)
Leaves(u, S) == \A x \in Workers : task'[x].tx = u => task'[x].pc \notin S
Submits(u)   == ~Present(u) /\ tx'[u].status = "PENDING" /\ \A v \in Tx : v < u => Present(v)
Finalizes(u) == /\ Open(u) /\ tx'[u].status = "FINALIZED" /\ OlderClosed(u)
                /\ Leaves(u, Working \cup {"releaseNoValidators", "noValidators"})
Cancels(u)   == Open(u) /\ tx'[u].status = "CANCELED" /\ Leaves(u, Working)
Reopens(u)   == /\ tx[u].status = "CANCELED" /\ tx'[u].status = "PENDING"
                /\ \E v \in Older(u) : Open(v)
Continues(u) == Open(u) /\ tx'[u].status \notin Terminal \cup {"ABSENT"}
PhaseStep ==
    \/ UNCHANGED tx
    \/ \E u \in Tx : /\ \A v \in Tx : v # u => tx'[v] = tx[v]
                     /\ \/ Submits(u) \/ Finalizes(u) \/ Cancels(u) \/ Reopens(u) \/ Continues(u)
                        \/ tx'[u].status = tx[u].status

(* The writes of a task to its row: within the consensus, and its ends.    *)
LEMMA WriteOfOpen ==
    ASSUME NEW u \in Tx, Open(u), NEW s, s \notin Terminal \cup {"ABSENT"}, NEW d, Writes(u, s, d)
    PROVE  PhaseStep
BY DEF Writes, PhaseStep, Continues

LEMMA WriteOfSame ==
    ASSUME NEW u \in Tx, NEW d, Writes(u, tx[u].status, d)
    PROVE  PhaseStep
BY DEF Writes, PhaseStep

LEMMA WriteOfEnd ==
    ASSUME TypeOK, LeaseHeld, Recorded, NEW w \in Workers, NEW u, u = task[w].tx, Present(u),
           NEW s, NEW d, Writes(u, s, d),
           \A x \in Workers : x # w => task'[x] = task[x],
           task'[w].pc \notin Working \cup {"releaseNoValidators", "noValidators"},
           \/ /\ s = "CANCELED" /\ tx[u].status # "FINALIZED"
              /\ task[w].pc \in Leased \/ Unfinished(w)
           \/ /\ s = "FINALIZED" /\ Open(u) /\ OlderClosed(u)
              /\ task[w].pc \in Leased
    PROVE  PhaseStep
<1>1. u \in Tx
  BY DEF TypeOK, Tasks
<1>2. ASSUME NEW x \in Workers, x # w, task'[x].tx = u
      PROVE  /\ task'[x].pc \notin Leased
             /\ task[w].pc \in Leased => task'[x].pc # "noValidators"
  <2>1. task'[x] = task[x]
    BY <1>2
  <2>2. task[w].pc \in Leased => task[x].pc \notin Leased
    BY <1>2, <2>1 DEF LeaseHeld
  <2>3. Unfinished(w) => task[x].pc \notin Leased
    BY <1>2, <2>1 DEF Recorded
  <2>4. task[w].pc \in Leased => task[x].pc # "noValidators"
    BY <1>2, <2>1 DEF Recorded, Unfinished
  <2> QED
    BY <2>1, <2>2, <2>3, <2>4
<1>3. Working \subseteq Leased /\ "releaseNoValidators" \in Leased
  BY DEF Working, Leased
<1>4. CASE s = "CANCELED" /\ tx[u].status # "FINALIZED"
  <2>1. Leaves(u, Working)
    BY <1>2, <1>3, <1>4 DEF Leaves
  <2> QED
    BY <1>1, <1>4, <2>1 DEF Writes, PhaseStep, Cancels, Open, Terminal
<1>5. CASE s = "FINALIZED" /\ Open(u) /\ OlderClosed(u) /\ task[w].pc \in Leased
  <2>1. Leaves(u, Working \cup {"releaseNoValidators", "noValidators"})
    BY <1>2, <1>3, <1>5 DEF Leaves
  <2> QED
    BY <1>1, <1>5, <2>1 DEF Writes, PhaseStep, Finalizes
<1> QED
  BY <1>4, <1>5

(* Every step of a task is a step of the phase of one row: it writes its   *)
(* own row, or, in a rollback, one behind it.                              *)
LEMMA PhaseStepsOfTasks ==
    ASSUME TypeOK, LeaseHeld, UpgradeInv, Recorded, FinalInv, Calm,
           Type \in [Tx -> {"deploy", "run"}], "missing" \notin Env,
           NEW w \in Workers, Step(w) \/ Fail(w)
    PROVE  PhaseStep
<1> DEFINE t == task[w].tx
<1>1. /\ t \in Tx /\ task[w].todo \subseteq Tx /\ task[w].kind \in Kinds
      /\ TypedTask(task[w]) /\ OrderlyTask(w)
      /\ Type[t] \in {"deploy", "run"}
  BY DEF TypeOK, Tasks, UpgradeInv, FinalInv
<1>2. /\ Eligible \cap Terminal = {} /\ {"PENDING", "PROCESSING"} \cap Terminal = {}
      /\ "ABSENT" \notin Eligible
      /\ \A p : Moves(w, p) => task'[w].pc = p /\ \A x \in Workers : x # w => task'[x] = task[x]
      /\ Stops(w) => task'[w].pc = "idle" /\ \A x \in Workers : x # w => task'[x] = task[x]
  BY InitialValues DEF Eligible, Terminal, Moves, Stops
<1>3. CASE UNCHANGED tx
  BY <1>3 DEF PhaseStep
<1>4. task[w].pc \in Leased \cup {"noValidators"} => Present(t)
  BY <1>1 DEF OrderlyTask
<1>5. task[w].pc \in Working => task[w].pc \in Leased /\ Open(t)
  BY <1>1 DEF OrderlyTask, Working, Leased, Open
<1>6. CASE Propose(w)
  <2>1. Open(t) /\ task[w].pc \in Leased
    BY <1>5, <1>6 DEF Propose, At, Working
  <2>2. PICK s \in {tx[t].status, "PROCESSING"} : Writes(t, s, tx[t].result)
    BY <1>6, TransactionFacts
  <2> QED
    BY <1>1, <1>2, <2>1, <2>2, WriteOfOpen, WriteOfSame
<1>7. CASE Decide(w)
  <2>1. Open(t) /\ task[w].pc \in Leased
    BY <1>5, <1>7 DEF Decide, Working
  <2> QED
    BY <1>1, <1>2, <1>7, <2>1, TransactionFacts, WriteOfOpen, WriteOfSame
<1>8. CASE Conclude(w)
  <2>1. Open(t) /\ task[w].pc \in Leased /\ task[w].outcome \in Eligible
    BY <1>1, <1>5, <1>8 DEF Conclude, Working, TypedTask
  <2> QED
    BY <1>1, <1>2, <1>8, <2>1, TransactionFacts, WriteOfOpen, WriteOfSame
<1>9. CASE Rollback(w)
  <2>1. Open(t) /\ task[w].todo \subseteq Newer(t)
    BY <1>1, <1>5, <1>9 DEF Rollback, Working, OrderlyTask
  <2>2. PICK u \in task[w].todo : Writes(u, "PENDING", tx[u].result)
    BY <1>9, TransactionFacts
  <2>3. u \in Tx /\ Present(u) /\ t \in Older(u)
    BY <1>1, <2>1, <2>2 DEF Newer, Older, Others, Open, Tx
  <2>4. tx[u].status # "FINALIZED"
    BY <2>1, <2>3 DEF FinalInv, FinalAfterOlder, OlderClosed, Open
  <2> QED
    BY <1>2, <2>1, <2>2, <2>3, <2>4 DEF PhaseStep, Writes, Reopens, Continues, Open, Terminal
<1>10. CASE Requeue(w)
  <2>1. Open(t) /\ task[w].pc \in Leased
    BY <1>5, <1>10 DEF Requeue, Working
  <2> QED
    BY <1>1, <1>2, <1>10, <2>1, TransactionFacts, WriteOfOpen, WriteOfSame
<1>11. CASE LeaderAppeal(w) \/ LeaderTimeoutAppeal(w) \/ ValidatorAppeal(w)
  <2>1. Open(t) /\ task[w].pc \in Leased
    BY <1>5, <1>11 DEF LeaderAppeal, LeaderTimeoutAppeal, ValidatorAppeal, At, Working
  <2>2. PICK s \in {tx[t].status, "PROCESSING"} : Writes(t, s, tx[t].result)
    BY <1>11, AppealFacts
  <2> QED
    BY <1>1, <1>2, <2>1, <2>2, WriteOfOpen, WriteOfSame
<1>12. CASE RejectAppeal(w)
  <2>1. Open(t) /\ task[w].pc \in Leased /\ task[w].was \in Eligible
    BY <1>1, <1>5, <1>12 DEF RejectAppeal, Working, TypedTask
  <2> QED
    BY <1>1, <1>2, <1>12, <2>1, AppealFacts, WriteOfOpen, WriteOfSame
<1>13. CASE UpholdAppeal(w)
  <2>1. Open(t) /\ task[w].pc \in Leased
    BY <1>5, <1>13 DEF UpholdAppeal, Working
  <2> QED
    BY <1>1, <1>2, <1>13, <2>1, AppealFacts, WriteOfOpen, WriteOfSame
<1>14. CASE Finalize(w)
  <2>1. Open(t) /\ task[w].pc \in Leased /\ OlderClosed(t)
    BY <1>1, <1>5, <1>14 DEF Finalize, At, Working, OrderlyTask
  <2>2. "settle" \notin Working \cup {"releaseNoValidators", "noValidators"}
    BY DEF Working
  <2> QED
    BY <1>1, <1>2, <1>3, <1>14, <2>1, <2>2, AppealFacts, WriteOfEnd DEF Open
<1>15. CASE Raise(w) \/ GenericError(w) \/ HandleNoValidators(w)
  <2>1. task[w].pc \in Leased \/ Unfinished(w)
    BY <1>15 DEF Raise, GenericError, HandleNoValidators, Leased, Unfinished
  <2>2. tx[t].status # "FINALIZED"
    BY <1>1, <1>15 DEF Raise, HandleNoValidators, OrderlyTask, Working, Terminal, Calm
  <2>3. Present(t)
    BY <1>4, <1>15 DEF Raise, GenericError, HandleNoValidators, Leased
  <2>4. {"idle", "release"} \cap (Working \cup {"releaseNoValidators", "noValidators"}) = {}
    BY DEF Working
  <2> QED
    BY <1>1, <1>2, <1>3, <1>15, <2>1, <2>2, <2>3, <2>4, EndFacts, WriteOfEnd
<1>16. CASE LeaderError(w) \/ LeaderCrash(w)
  <2>1. Open(t) /\ task[w].pc \in Leased
    BY <1>5, <1>16 DEF LeaderError, LeaderCrash, Working
  <2>2. /\ "idle" \notin Working \cup {"releaseNoValidators", "noValidators"}
        /\ "ACCEPTED" \in Eligible
    BY DEF Working, Eligible
  <2>3. tx[t].status # "FINALIZED"
    BY <2>1 DEF Open, Terminal
  <2>4. Stops(w)
    BY <1>16, EndFacts
  <2>5. CASE \E d : Writes(t, "CANCELED", d)
    BY <1>2, <2>1, <2>2, <2>3, <2>4, <2>5, WriteOfEnd DEF Open
  <2>6. CASE \E s \in {"PENDING", "ACCEPTED"} : \E d : Writes(t, s, d)
    BY <1>1, <1>2, <2>1, <2>2, <2>6, WriteOfOpen
  <2> QED
    BY <1>3, <1>16, <2>5, <2>6, EndFacts
<1>17. ~Upgrade(w) /\ ~EndUpgrade(w) /\ ~Transfer(w) /\ ~HandleMissing(w)
  BY <1>1 DEF Upgrade, EndUpgrade, TypedTask, Transfer, HandleMissing, OrderlyTask
<1>18. CASE \/ Skip(w) \/ Settle(w) \/ Finish(w) \/ Release(w)
            \/ ValidatorError(w) \/ NoValidators(w) \/ Missing(w) \/ Crash(w) \/ ClaimSeen(w)
  <2>1. UNCHANGED tx
    BY <1>18, TransactionFacts, AppealFacts, EndFacts DEF ClaimSeen, Take
  <2> QED
    BY <1>3, <2>1
<1> QED
  BY <1>6, <1>7, <1>8, <1>9, <1>10, <1>11, <1>12, <1>13, <1>14, <1>15, <1>16, <1>17, <1>18,
     Zenon DEF Step, Fail

(* ... and so is every step.                                               *)
LEMMA PhaseSteps ==
    ASSUME TypeOK, LeaseHeld, UpgradeInv, Recorded, FinalInv, Calm,
           Type \in [Tx -> {"deploy", "run"}],
           "missing" \notin Env, "latecommit" \notin Env,
           [Next]_vars
    PROVE  PhaseStep
<1>1. CASE UNCHANGED tx
  BY <1>1 DEF PhaseStep
<1>2. ASSUME NEW t \in Tx, Users(t) \/ Clock(t) \/ Recovery(t)
      PROVE  PhaseStep
  <2>0. UNCHANGED task /\ tx \in [Tx -> Rows] /\ Working \subseteq Leased
    BY <1>2, UserFacts DEF TypeOK, Working, Leased
  <2>1. CASE Submit(t)
    BY <2>1, UserFacts DEF PhaseStep, Writes, Submits, Submit
  <2>2. CASE Cancel(t) \/ Escalate(t)
    <3>1. Open(t) /\ \A x \in Workers : task[x].pc \in Leased => task[x].tx # t
      BY <2>2 DEF Cancel, Escalate, Stuck, LeaseHeld, Open, Present, Terminal
    <3>2. Leaves(t, Working)
      BY <2>0, <3>1 DEF Leaves
    <3> QED
      BY <2>2, <3>1, <3>2, UserFacts DEF PhaseStep, Writes, Cancels
  <2>3. CASE Recover(t)
    <3>1. Open(t) /\ "PENDING" \notin Terminal \cup {"ABSENT"}
      BY <2>3 DEF Recover, Stuck, Open, Present, Terminal
    <3> QED
      BY <2>3, <3>1, UserFacts DEF PhaseStep, Writes, Continues
  <2>4. CASE Appeal(t) \/ WindowElapses(t)
    BY <2>4, UserFacts DEF PhaseStep, Writes
  <2> QED
    BY <1>1, <1>2, <2>1, <2>2, <2>3, <2>4, UserFacts DEF Users, Clock, Recovery
<1>3. CASE \E w \in Workers : Step(w) \/ Fail(w)
  BY <1>3, PhaseStepsOfTasks
<1>4. ASSUME NEW w \in Workers, NEW kind, NEW t,
             Claim(w, kind, t) \/ Look(w, kind) \/ ClaimInBackoff(w, t)
      PROVE  UNCHANGED tx
  BY <1>4 DEF Claim, Look, ClaimInBackoff, Take
<1>5. UNCHANGED vars => UNCHANGED tx
  BY DEF vars
<1> QED
  BY <1>1, <1>2, <1>3, <1>4, <1>5, NextCases, Zenon

(* What is closed up to a present row stays so: a canceled row is reopened *)
(* only behind an open one.                                                *)
LEMMA ClosedStays ==
    ASSUME TypeOK, FinalInv, PhaseStep, NEW t \in Tx, Present(t), OlderClosed(t)
    PROVE  OlderClosed(t)'
<1> SUFFICES ASSUME NEW u \in Tx, u # t, u < t, Addr[u] = Addr[t], tx'[u].status \notin Terminal
             PROVE  FALSE
  BY DEF OlderClosed, Older, Others
<1>1. u \in Older(t) /\ tx[u].status \in Terminal
  BY DEF FinalInv, InOrder, OlderClosed, Older, Others
<1>2. Reopens(u)
  BY <1>1 DEF PhaseStep, Submits, Finalizes, Cancels, Continues, Open, Present, Terminal
<1>3. PICK v \in Older(u) : Open(v)
  BY <1>2 DEF Reopens
<1>4. v \in Older(t)
  BY <1>3 DEF Older, Others, Tx
<1> QED
  BY <1>3, <1>4 DEF OlderClosed, Open

(* The order of the table is kept.                                         *)
LEMMA OrderKept ==
    ASSUME TypeOK, FinalInv, PhaseStep, [Next]_vars
    PROVE  InOrder' /\ FinalAfterOlder'
<1>1. \A u \in Tx : Present(u) => Present(u)'
  BY RowsStay
<1>2. InOrder'
  <2> SUFFICES ASSUME NEW t \in Tx, NEW u \in Tx, u < t, Present(t)'
               PROVE  Present(u)'
    BY DEF InOrder
  <2>1. Present(t) \/ Submits(t)
    BY DEF PhaseStep, Finalizes, Cancels, Reopens, Continues, Open, Present
  <2> QED
    BY <1>1, <2>1 DEF FinalInv, InOrder, Submits
<1>3. FinalAfterOlder'
  <2> SUFFICES ASSUME NEW t \in Tx, tx'[t].status = "FINALIZED"
               PROVE  OlderClosed(t)'
    BY DEF FinalAfterOlder
  <2>1. tx[t].status = "FINALIZED" \/ Finalizes(t)
    BY DEF PhaseStep, Submits, Cancels, Reopens, Continues, Terminal
  <2>2. Present(t) /\ OlderClosed(t)
    BY <2>1 DEF FinalInv, FinalAfterOlder, Finalizes, Open, Present
  <2> QED
    BY <2>2, ClosedStays
<1> QED
  BY <1>2, <1>3

(* A task that stays on its row, at a place it may go to.                  *)
LEMMA OrderlyKept ==
    ASSUME TypeOK, FinalInv, PhaseStep, [Next]_vars, NEW x \in Workers,
           task'[x].tx = task[x].tx, task'[x].kind = task[x].kind,
           task'[x].pc \in Leased \cup {"noValidators"} => task[x].pc \in Leased \cup {"noValidators"},
           task'[x].pc \in Working => task[x].pc \in Working,
           task'[x].pc = "start" => task[x].pc = "start",
           task'[x].pc = "look" => task[x].pc = "look" /\ task'[x].todo = task[x].todo,
           task'[x].pc = "rollback" => task'[x].todo \subseteq Newer(task[x].tx),
           task'[x].pc \in {"releaseNoValidators", "noValidators"} =>
               tx[task[x].tx].status # "FINALIZED",
           task'[x].pc \notin {"releaseMissing", "missing"}
    PROVE  OrderlyTask(x)'
<1> DEFINE u == task[x].tx
<1>1. /\ u \in Tx /\ task[x].todo \subseteq Tx
      /\ OrderlyTask(x)
      /\ \A t \in Tx : Present(t) => Present(t)'
      /\ \A t \in Tx : Present(t) /\ OlderClosed(t) => OlderClosed(t)'
  BY RowsStay, ClosedStays DEF TypeOK, Tasks, FinalInv
<1>2. task'[x].pc \in Leased \cup {"noValidators"} => Present(u)'
  BY <1>1 DEF OrderlyTask
<1>3. task'[x].pc \in Working => tx'[u].status \notin Terminal
  BY <1>1 DEF OrderlyTask, PhaseStep, Submits, Finalizes, Cancels, Reopens, Continues, Leaves,
     Terminal
<1>4. task'[x].kind = "finalization" /\ task'[x].pc = "start" => OlderClosed(u)'
  BY <1>1 DEF OrderlyTask, Leased
<1>5. task'[x].kind = "finalization" /\ task'[x].pc = "look" =>
         \A t \in task'[x].todo : Present(t)' /\ OlderClosed(t)'
  BY <1>1 DEF OrderlyTask
<1>6. task'[x].pc = "rollback" => task'[x].todo \subseteq Newer(u)'
  BY <1>1 DEF Newer, Others
<1>7. task'[x].pc \in {"releaseNoValidators", "noValidators"} => tx'[u].status # "FINALIZED"
  BY <1>1 DEF PhaseStep, Submits, Finalizes, Cancels, Reopens, Continues, Leaves, Terminal
<1> QED
  BY <1>2, <1>3, <1>4, <1>5, <1>6, <1>7 DEF OrderlyTask

(* A step of a worker, on its own task ...                                 *)
LEMMA OrderlyOwn ==
    ASSUME TypeOK, UpgradeInv, FinalInv, PhaseStep, [Next]_vars,
           Type \in [Tx -> {"deploy", "run"}], "missing" \notin Env,
           NEW w \in Workers, Step(w) \/ Fail(w)
    PROVE  OrderlyTask(w)'
<1> DEFINE t == task[w].tx
<1>1. /\ t \in Tx /\ task[w].kind \in Kinds /\ task[w].todo \subseteq Tx
      /\ TypedTask(task[w]) /\ OrderlyTask(w)
      /\ Type[t] \in {"deploy", "run"}
  BY DEF TypeOK, Tasks, UpgradeInv, FinalInv
<1>2. Stops(w) => OrderlyTask(w)'
  BY InitialValues DEF Stops, OrderlyTask, Leased, Working
<1>3. ASSUME NEW p \in {"commit", "release", "settle"}, Moves(w, p),
             task[w].pc \in Leased
      PROVE  OrderlyTask(w)'
  <2>1. p \notin Working
    BY DEF Working
  <2> QED
    BY <1>3, <2>1, OrderlyKept DEF Moves
<1>4. ASSUME NEW p \in {"run", "decided", "vote", "requeue", "broken"}, Moves(w, p),
             task[w].pc \in Working
      PROVE  OrderlyTask(w)'
  <2>1. task[w].pc \in Leased
    BY <1>4 DEF Working, Leased
  <2> QED
    BY <1>4, <2>1, OrderlyKept DEF Moves
<1>5. ASSUME Moves(w, "rollback"), task'[w].todo \subseteq Newer(t), task[w].pc \in Working
      PROVE  OrderlyTask(w)'
  <2>1. task[w].pc \in Leased
    BY <1>5 DEF Working, Leased
  <2> QED
    BY <1>5, <2>1, OrderlyKept DEF Moves
<1>6. CASE Skip(w) \/ Settle(w) \/ ValidatorError(w) \/ Requeue(w)
  <2>1. task[w].pc \in Leased
    BY <1>6 DEF Skip, Settle, ValidatorError, Requeue, At, Leased
  <2> QED
    BY <1>3, <1>6, <2>1, TransactionFacts, AppealFacts, EndFacts
<1>7. CASE Propose(w) \/ Decide(w)
  <2>1. task[w].pc \in Working
    BY <1>7 DEF Propose, Decide, At, Working
  <2> QED
    BY <1>4, <1>7, <2>1, TransactionFacts
<1>8. CASE Conclude(w) \/ UpholdAppeal(w)
  <2>1. task[w].pc \in Working /\ task[w].pc \in Leased
    BY <1>8 DEF Conclude, UpholdAppeal, Working, Leased
  <2>2. PICK p \in {"rollback", "requeue", "broken", "commit"} : Moves(w, p)
    BY <1>8, TransactionFacts, AppealFacts
  <2>3. task'[w].todo \subseteq Newer(t)
    BY <1>8, TransactionFacts, AppealFacts
  <2> QED
    BY <1>3, <1>4, <1>5, <2>1, <2>2, <2>3
<1>9. CASE Rollback(w)
  <2>1. task[w].pc \in Working /\ task[w].pc \in Leased /\ task[w].todo \subseteq Newer(t)
    BY <1>1, <1>9 DEF Rollback, Working, Leased, OrderlyTask
  <2>2. PICK p \in {"rollback", "requeue", "commit"} : Moves(w, p)
    BY <1>9, TransactionFacts
  <2>3. task'[w].todo \subseteq Newer(t)
    BY <1>9, <2>1, TransactionFacts
  <2> QED
    BY <1>3, <1>4, <1>5, <2>1, <2>2, <2>3
<1>10. CASE LeaderAppeal(w) \/ LeaderTimeoutAppeal(w) \/ ValidatorAppeal(w) \/ RejectAppeal(w)
            \/ Finalize(w)
  <2>1. task[w].pc \in Working /\ task[w].pc \in Leased
    BY <1>10 DEF LeaderAppeal, LeaderTimeoutAppeal, ValidatorAppeal, RejectAppeal, Finalize, At,
       Working, Leased
  <2>2. PICK p \in {"run", "vote", "broken", "commit", "settle"} : Moves(w, p)
    BY <1>10, AppealFacts
  <2> QED
    BY <1>3, <1>4, <2>1, <2>2
<1>11. CASE Raise(w) \/ GenericError(w)
  <2>1. task[w].pc \in Leased
    BY <1>11 DEF Raise, GenericError, Leased
  <2> QED
    BY <1>3, <1>11, <2>1, EndFacts
<1>12. CASE NoValidators(w)
  <2>1. /\ task[w].pc = "start" /\ task[w].pc \in Leased /\ task[w].pc \in Working
        /\ tx[t].status # "FINALIZED"
    BY <1>1, <1>12 DEF NoValidators, At, Working, Leased, OrderlyTask, Terminal
  <2>2. "releaseNoValidators" \notin Working
    BY DEF Working
  <2> QED
    BY <1>12, <2>1, <2>2, EndFacts, OrderlyKept DEF Moves
<1>13. CASE Release(w)
  <2>1. CASE task[w].pc = "releaseNoValidators" /\ Moves(w, "noValidators")
    <3>1. tx[t].status # "FINALIZED" /\ "noValidators" \notin Working
      BY <1>1, <2>1 DEF OrderlyTask, Working
    <3> QED
      BY <2>1, <3>1, OrderlyKept DEF Moves, Leased
  <2> QED
    BY <1>1, <1>2, <1>13, <2>1, EndFacts DEF OrderlyTask
<1>14. CASE Finish(w) \/ Crash(w) \/ HandleNoValidators(w) \/ HandleMissing(w)
            \/ LeaderError(w) \/ LeaderCrash(w)
  BY <1>2, <1>14, EndFacts
<1>15. ~Upgrade(w) /\ ~EndUpgrade(w) /\ ~Transfer(w) /\ ~Missing(w)
  BY <1>1 DEF Upgrade, EndUpgrade, TypedTask, Transfer, Missing
<1>16. CASE ClaimSeen(w)
  <2>1. CASE task' = [task EXCEPT ![w] = NoTask]
    BY <1>2, <2>1 DEF Stops, TypeOK
  <2>2. ASSUME NEW u \in task[w].todo, RowReady(task[w].kind, u), Take(w, task[w].kind, u, "start")
        PROVE  OrderlyTask(w)'
    <3>1. Open(u) /\ Present(u)
      BY <1>1, <2>2, ClaimedRow DEF Open, Present, Eligible, Terminal
    <3>2. task[w].kind = "finalization" => OlderClosed(u)
      BY <1>1, <1>16 DEF OrderlyTask, ClaimSeen
    <3>3. UNCHANGED tx /\ task'[w].pc = "start" /\ task'[w].tx = u
      BY <2>2, TakeFacts
    <3>4. Present(u)' /\ (OlderClosed(u) => OlderClosed(u)')
      BY <1>1, <3>1, <3>3, ClosedStays DEF Present
    <3> QED
      BY <2>2, <3>1, <3>2, <3>3, <3>4, TakeFacts DEF OrderlyTask, Open
  <2> QED
    BY <1>1, <1>16, <2>1, <2>2, ForemostFacts DEF ClaimSeen
<1> QED
  BY <1>6, <1>7, <1>8, <1>9, <1>10, <1>11, <1>12, <1>13, <1>14, <1>15, <1>16, Zenon
     DEF Step, Fail

(* ... leaves those of the others alone, ...                               *)
LEMMA OthersStay ==
    ASSUME TypeOK, NEW w \in Workers, Step(w) \/ Fail(w)
    PROVE  \A x \in Workers : x # w => task'[x] = task[x]
<1>1. task \in [Workers -> Tasks]
  BY DEF TypeOK
<1>2. /\ \A p : Moves(w, p) => \A x \in Workers : x # w => task'[x] = task[x]
      /\ Stops(w) => \A x \in Workers : x # w => task'[x] = task[x]
  BY DEF Moves, Stops
<1>3. CASE Skip(w) \/ Upgrade(w) \/ EndUpgrade(w) \/ Transfer(w) \/ Propose(w) \/ Decide(w)
           \/ Conclude(w) \/ Rollback(w) \/ Requeue(w)
  BY <1>2, <1>3, TransactionFacts
<1>4. CASE LeaderAppeal(w) \/ LeaderTimeoutAppeal(w) \/ ValidatorAppeal(w) \/ RejectAppeal(w)
           \/ UpholdAppeal(w) \/ Finalize(w) \/ Settle(w)
  BY <1>2, <1>4, AppealFacts
<1>5. CASE Finish(w) \/ Release(w) \/ Raise(w) \/ GenericError(w) \/ HandleNoValidators(w)
           \/ HandleMissing(w) \/ ValidatorError(w) \/ NoValidators(w) \/ Missing(w)
           \/ LeaderError(w) \/ LeaderCrash(w) \/ Crash(w)
  BY <1>2, <1>5, EndFacts
<1>6. CASE ClaimSeen(w)
  BY <1>1, <1>6 DEF ClaimSeen, Take
<1> QED
  BY <1>3, <1>4, <1>5, <1>6, Zenon DEF Step, Fail

(* ... and so do the claims.                                               *)
LEMMA OneMoves ==
    ASSUME TypeOK, [Next]_vars
    PROVE  \/ UNCHANGED task
           \/ \E w \in Workers :
                 /\ \A x \in Workers : x # w => task'[x] = task[x]
                 /\ \/ Step(w) \/ Fail(w)
                    \/ \E kind \in Kinds : Look(w, kind)
                    \/ \E kind \in Kinds, t \in Tx : Claim(w, kind, t) \/ ClaimInBackoff(w, t)
<1>1. task \in [Workers -> Tasks] /\ "transaction" \in Kinds
  BY DEF TypeOK, Kinds
<1>2. ASSUME NEW w \in Workers, NEW kind, NEW t,
             Claim(w, kind, t) \/ Look(w, kind) \/ ClaimInBackoff(w, t)
      PROVE  \A x \in Workers : x # w => task'[x] = task[x]
  BY <1>1, <1>2 DEF Claim, Look, ClaimInBackoff, Take
<1>3. /\ UNCHANGED vars => UNCHANGED task
      /\ (\E t \in Tx : Users(t) \/ Clock(t) \/ Recovery(t)) => UNCHANGED task
  BY UserFacts DEF vars
<1> QED
  BY <1>1, <1>2, <1>3, OthersStay, NextCases, Zenon

(* FinalInv is inductive.                                                  *)
LEMMA FinalStep ==
    ASSUME TypeOK, UpgradeInv, FinalInv, PhaseStep, [Next]_vars,
           Type \in [Tx -> {"deploy", "run"}], "missing" \notin Env
    PROVE  FinalInv'
<1>1. ASSUME NEW x \in Workers, task'[x] = task[x]
      PROVE  OrderlyTask(x)'
  BY <1>1, OrderlyKept DEF FinalInv, OrderlyTask
<1>2. ASSUME NEW w \in Workers, NEW kind \in Kinds, Look(w, kind)
      PROVE  OrderlyTask(w)'
  <2> DEFINE k == [NoTask EXCEPT !.pc = "look", !.kind = kind, !.todo = Claimable(kind)]
  <2>1. k.pc = "look" /\ k.kind = kind /\ k.todo = Claimable(kind)
    BY DEF NoTask
  <2>2. task'[w] = k /\ UNCHANGED tx
    BY <1>2 DEF Look, TypeOK
  <2>3. \A t \in Claimable("finalization") : Present(t) /\ OlderClosed(t)
    BY DEF Claimable, RowReady, AwaitsFinality, ContractReady, Present, OlderClosed, Eligible
  <2>4. \A t \in Claimable("finalization") : Present(t)' /\ OlderClosed(t)'
    BY <2>2, <2>3, ClosedStays DEF Claimable, Present
  <2> HIDE DEF k
  <2> QED
    BY <2>1, <2>2, <2>4 DEF OrderlyTask, Leased, Working
<1>3. ASSUME NEW w \in Workers, NEW kind \in Kinds, NEW t \in Tx,
             Claim(w, kind, t) \/ ClaimInBackoff(w, t)
      PROVE  OrderlyTask(w)'
  <2>1. PICK k \in Kinds, p \in {"start", "release"} :
               RowReady(k, t) /\ ContractReady(k, t) /\ Take(w, k, t, p)
    BY <1>3, ForemostFacts DEF Claim, ClaimInBackoff, Claimable, Kinds
  <2>2. Open(t) /\ Present(t)
    BY <2>1, ClaimedRow DEF Open, Present, Eligible, Terminal
  <2>3. k = "finalization" => OlderClosed(t)
    BY <2>1 DEF ContractReady, OlderClosed
  <2>4. UNCHANGED tx /\ task'[w].pc = p /\ task'[w].tx = t /\ task'[w].kind = k
    BY <2>1, TakeFacts
  <2>5. Present(t)' /\ (OlderClosed(t) => OlderClosed(t)')
    BY <2>2, <2>4, ClosedStays DEF Present
  <2> QED
    BY <2>2, <2>3, <2>4, <2>5 DEF OrderlyTask, Open
<1>4. \A x \in Workers : OrderlyTask(x)'
  BY <1>1, <1>2, <1>3, OneMoves, OrderlyOwn
<1> QED
  BY <1>4, OrderKept DEF FinalInv

LEMMA FinalInvariant ==
    ASSUME "slow" \notin Env, "latecommit" \notin Env, "missing" \notin Env,
           "handover" \notin Env, Type \in [Tx -> {"deploy", "run"}]
    PROVE  Spec /\ [][Calm]_vars => []FinalInv
<1>1. Init => FinalInv
  BY InitialValues DEF Init, FinalInv, InOrder, FinalAfterOlder, OrderlyTask, NewRow, NoTask,
     Present, Leased, Working
<1>2. TypeOK /\ LeaseHeld /\ UpgradeInv /\ Recorded /\ FinalInv /\ [Next]_vars /\ [Calm]_vars
      => FinalInv'
  <2>1. CASE UNCHANGED vars
    BY <2>1 DEF vars, FinalInv, InOrder, FinalAfterOlder, OrderlyTask, Present, OlderClosed,
       Older, Newer, Others
  <2>2. CASE Calm
    BY <2>2, PhaseSteps, FinalStep
  <2> QED
    BY <2>1, <2>2
<1> QED
  BY <1>1, <1>2, TypeCorrect, LeasesAreHeld, UpgradesApart, ErrorsAreRecorded, PTL DEF Spec

(* A step on one row is the step of its phase.                             *)
LEMMA PhaseRefines ==
    ASSUME TypeOK, FinalInv, PhaseStep, InOrder
    PROVE  Finality!Next \/ UNCHANGED [t \in Tx |-> Phase(t)]
<1> DEFINE ph == [t \in Tx |-> Phase(t)]
           ph2 == [t \in Tx |-> Phase(t)']
<1>1. /\ tx \in [Tx -> Rows] /\ Tx = 1..N
      /\ \A t \in Tx : Finality!Predecessors(t) = {u \in Tx : u < t /\ Addr[u] = Addr[t]}
  BY DEF TypeOK, Tx, Finality!Predecessors
<1>2. CASE UNCHANGED tx
  BY <1>2 DEF Phase
<1>3. ASSUME NEW u \in Tx, \A v \in Tx : v # u => tx'[v] = tx[v], NEW p, Phase(u)' = p
      PROVE  ph' = [ph EXCEPT ![u] = p]
  BY <1>3 DEF Phase
<1>4. ASSUME NEW u \in Tx, \A v \in Tx : v # u => tx'[v] = tx[v]
      PROVE  /\ Submits(u) => Finality!Submit(u)
             /\ Finalizes(u) => Finality!Finalize(u)
             /\ Cancels(u) => Finality!Cancel(u)
             /\ Reopens(u) => Finality!Reopen(u)
             /\ Continues(u) \/ tx'[u].status = tx[u].status => UNCHANGED ph
  <2>1. ASSUME Submits(u)
        PROVE  Finality!Submit(u)
    <3>1. Phase(u) = "absent" /\ Phase(u)' = "open"
      BY <2>1 DEF Submits, Phase, Present
    <3>2. \A v \in Finality!Predecessors(u) : ph[v] # "absent"
      BY <1>1, <2>1 DEF Submits, Phase, Present
    <3> QED
      BY <1>1, <1>3, <1>4, <3>1, <3>2 DEF Finality!Submit
  <2>2. ASSUME Finalizes(u)
        PROVE  Finality!Finalize(u)
    <3>1. Phase(u) = "open" /\ Phase(u)' = "final"
      BY <2>2 DEF Finalizes, Phase, Open, Present, Terminal
    <3>2. \A v \in Finality!Predecessors(u) : Phase(v) \in {"final", "canceled"}
      BY <1>1, <2>2 DEF Finalizes, OlderClosed, Older, Others, InOrder, Open, Phase, Terminal
    <3> QED
      BY <1>1, <1>3, <1>4, <3>1, <3>2 DEF Finality!Finalize, Finality!Closed
  <2>3. ASSUME Cancels(u)
        PROVE  Finality!Cancel(u)
    <3>1. Phase(u) = "open" /\ Phase(u)' = "canceled"
      BY <2>3 DEF Cancels, Phase, Open, Present, Terminal
    <3> QED
      BY <1>1, <1>3, <1>4, <3>1 DEF Finality!Cancel
  <2>4. ASSUME Reopens(u)
        PROVE  Finality!Reopen(u)
    <3>1. Phase(u) = "canceled" /\ Phase(u)' = "open"
      BY <2>4 DEF Reopens, Phase
    <3>2. \E v \in Finality!Predecessors(u) : Phase(v) = "open"
      BY <1>1, <2>4 DEF Reopens, Older, Others, Open, Present, Phase, Terminal
    <3> QED
      BY <1>1, <1>3, <1>4, <3>1, <3>2 DEF Finality!Reopen
  <2>5. ASSUME Continues(u) \/ tx'[u].status = tx[u].status
        PROVE  UNCHANGED ph
    <3>1. Phase(u)' = Phase(u)
      BY <2>5 DEF Continues, Phase, Open, Present, Terminal
    <3> QED
      BY <1>4, <3>1 DEF Phase
  <2> QED
    BY <2>1, <2>2, <2>3, <2>4, <2>5
<1>5. PICK u \in Tx : \/ UNCHANGED tx
                      \/ /\ \A v \in Tx : v # u => tx'[v] = tx[v]
                         /\ \/ Submits(u) \/ Finalizes(u) \/ Cancels(u) \/ Reopens(u) \/ Continues(u)
                            \/ tx'[u].status = tx[u].status
  BY QueueAssumption DEF PhaseStep, Tx
<1> QED
  BY <1>1, <1>2, <1>4, <1>5 DEF Finality!Next

(* The queue implements the ordered finality of the calls of a contract:   *)
(* FINALIZED comes in the order of created_at and is the end, and what is  *)
(* canceled comes back only behind an open transaction.                    *)
THEOREM QueueImplementsFinality ==
    ASSUME "slow" \notin Env, "latecommit" \notin Env, "missing" \notin Env,
           "handover" \notin Env, Type \in [Tx -> {"deploy", "run"}]
    PROVE  Spec /\ [][Calm]_vars => OrderedFinalitySpec
<1>1. Init => Finality!Init
  BY DEF Init, Finality!Init, Phase, NewRow, Tx
<1>2. TypeOK /\ LeaseHeld /\ UpgradeInv /\ Recorded /\ FinalInv /\ [Next]_vars /\ [Calm]_vars
      => [Finality!Next]_[t \in Tx |-> Phase(t)]
  <2>1. CASE UNCHANGED vars
    BY <2>1 DEF vars, Phase
  <2>2. CASE Calm
    BY <2>2, PhaseSteps, PhaseRefines DEF FinalInv
  <2> QED
    BY <2>1, <2>2
<1> QED
  BY <1>1, <1>2, TypeCorrect, LeasesAreHeld, UpgradesApart, ErrorsAreRecorded, FinalInvariant,
     PTL DEF Spec, OrderedFinalitySpec, Finality!Spec

(* Without errors there is nothing to keep calm about.                     *)
THEOREM FaultlessQueueImplementsFinality ==
    ASSUME "slow" \notin Env, "latecommit" \notin Env, "missing" \notin Env,
           "handover" \notin Env, Type \in [Tx -> {"deploy", "run"}],
           "faulty" \notin Env, MaxFaults = 0
    PROVE  Spec => OrderedFinalitySpec
<1>1. TypeOK => Calm
  BY DEF TypeOK, Calm, GenericError, Fault
<1>2. Spec => [][Calm]_vars
  BY <1>1, TypeCorrect, PTL DEF Spec
<1> QED
  BY <1>2, QueueImplementsFinality, PTL

-----------------------------------------------------------------------------
(* Without appeals no row is marked by one, and no task is in one.         *)
Unappealed(r) == ~r.appealed /\ r.flag = "none" /\ ~r.timeoutAppeal
OutsideAppeals(k) ==
    /\ k.pc \notin {"vote", "rollback", "requeue"}
    /\ ~k.leader /\ ~k.rollback
    /\ k.kind = "appeal" => k.pc \notin Leased
NoAppeals ==
    /\ \A t \in Tx : Unappealed(tx[t])
    /\ \A w \in Workers : OutsideAppeals(task[w])

(* What is not marked is not claimed as an appeal.                         *)
LEMMA UnmarkedRow ==
    ASSUME NEW t \in Tx, Unappealed(tx[t]), NEW kind \in Kinds, RowReady(kind, t)
    PROVE  kind # "appeal"
BY DEF RowReady, Unappealed, Kinds

(* No step of a task appeals.                                              *)
LEMMA NoAppealsByTasks ==
    ASSUME TypeOK, NoAppeals, NEW w \in Workers, Step(w) \/ Fail(w)
    PROVE  NoAppeals'
<1> DEFINE t == task[w].tx
<1>1. /\ tx \in [Tx -> Rows] /\ task \in [Workers -> Tasks] /\ t \in Tx
      /\ \A u \in Tx : Unappealed(tx[u])
      /\ \A x \in Workers : OutsideAppeals(task[x])
      /\ \A u \in Tx : tx[u] \in Rows
  BY DEF TypeOK, Tasks, NoAppeals
<1>2. SUFFICES /\ \A u \in Tx : Unappealed(tx'[u])
               /\ OutsideAppeals(task'[w])
  BY <1>1, OthersStay DEF NoAppeals
<1>3. OutsideAppeals(NoTask)
  BY DEF OutsideAppeals, NoTask, Leased
<1>4. CASE UNCHANGED tx /\ task' = [task EXCEPT ![w] = NoTask]
  BY <1>1, <1>3, <1>4
<1>5. ASSUME NEW p \in Places \ {"start", "vote", "rollback", "requeue"}, Goto(w, p),
             task[w].pc \in Leased
      PROVE  OutsideAppeals(task'[w])
  BY <1>1, <1>5 DEF Goto, OutsideAppeals, Tasks
<1>6. ASSUME tx' = Canceled(t)
      PROVE  \A u \in Tx : Unappealed(tx'[u])
  BY <1>1, <1>6 DEF Canceled, Unappealed, Rows
<1>7. ASSUME ResetRow(w)
      PROVE  \A u \in Tx : Unappealed(tx'[u])
  BY <1>1, <1>7 DEF ResetRow, Unappealed, Rows
<1>8. CASE Transfer(w)
  <2>1. OutsideAppeals(task'[w])
    BY <1>5, <1>8 DEF Transfer, At, Places, Leased
  <2>2. CASE tx' = [tx EXCEPT ![t].status = "FINALIZED"]
    BY <1>1, <2>1, <2>2 DEF Unappealed, Rows
  <2>3. CASE tx' = [tx EXCEPT ![t].status = "UNDETERMINED", ![t].elapsed = FALSE]
    BY <1>1, <2>1, <2>3 DEF Unappealed, Rows
  <2> QED
    BY <1>8, <2>2, <2>3 DEF Transfer
<1>9. CASE Propose(w)
  <2> DEFINE leader == /\ tx[t].flag = "undetermined"
                       /\ tx[t].appealed \/ tx[t].result # "null"
             readable == leader \/ tx[t].result # "note"
             s == IF readable THEN "PROCESSING" ELSE tx[t].status
             p == IF readable THEN "run" ELSE "broken"
             f == IF leader THEN tx[t].flag ELSE "none"
             b == tx[t].timeoutAppeal
  <2>1. tx' = [tx EXCEPT ![t] = [tx[t] EXCEPT !.status = s, !.appealed = FALSE, !.flag = f]]
    BY <1>9, Zenon DEF Propose
  <2>2. task' = [task EXCEPT ![w] = [task[w] EXCEPT !.pc = p, !.leader = leader, !.rollback = b]]
    BY <1>9, Zenon DEF Propose
  <2>3. Unappealed(tx[t])
    BY <1>1
  <2>4. f = "none" /\ ~leader /\ ~b /\ p \in {"run", "broken"}
    BY <2>3 DEF Unappealed
  <2>5. task[w].kind = "transaction"
    BY <1>9 DEF Propose, At
  <2> HIDE DEF leader, readable, s, p, f, b
  <2>6. \A u \in Tx : Unappealed(tx'[u])
    BY <1>1, <2>1, <2>4 DEF Unappealed, Rows
  <2>7. OutsideAppeals(task'[w])
    BY <1>1, <2>2, <2>4, <2>5 DEF OutsideAppeals, Tasks
  <2> QED
    BY <2>6, <2>7
<1>10. CASE Upgrade(w) \/ EndUpgrade(w)
  <2>1. \A u \in Tx : Unappealed(tx'[u])
    BY <1>1, <1>10 DEF Upgrade, EndUpgrade, Unappealed, Rows
  <2>2. OutsideAppeals(task'[w])
    BY <1>1, <1>5, <1>10 DEF Upgrade, EndUpgrade, At, OutsideAppeals, Tasks, Places, Leased
  <2> QED
    BY <2>1, <2>2
<1>11. CASE Decide(w)
  BY <1>1, <1>11 DEF Decide, OutsideAppeals, Unappealed, Rows, Tasks, Leased
<1>12. CASE Conclude(w)
  BY <1>1, <1>12 DEF Conclude, OutsideAppeals, Unappealed, Rows, Tasks, Leased
<1>13. CASE Finalize(w)
  <2>1. OutsideAppeals(task'[w])
    BY <1>5, <1>13 DEF Finalize, At, Places, Leased
  <2>2. CASE tx' = [tx EXCEPT ![t].status = "FINALIZED"]
    BY <1>1, <2>1, <2>2 DEF Unappealed, Rows
  <2> QED
    BY <1>1, <1>13, <2>1, <2>2 DEF Finalize
<1>14. CASE Skip(w) \/ Settle(w) \/ ValidatorError(w) \/ NoValidators(w) \/ Missing(w)
  <2>1. UNCHANGED tx /\ task[w].pc \in Leased
    BY <1>14 DEF Skip, Settle, ValidatorError, NoValidators, Missing, At, Leased
  <2>2. OutsideAppeals(task'[w])
    BY <1>5, <1>14, <2>1 DEF Skip, Settle, ValidatorError, NoValidators, Missing, Places, Leased
  <2> QED
    BY <1>1, <2>1, <2>2
<1>15. CASE Raise(w) \/ GenericError(w)
  <2>1. HandleGeneric(w) /\ task[w].pc \in Leased
    BY <1>15 DEF Raise, GenericError, Leased
  <2>2. OutsideAppeals(task'[w])
    BY <1>1, <2>1 DEF HandleGeneric, OutsideAppeals, Tasks
  <2>3. \A u \in Tx : Unappealed(tx'[u])
    BY <1>1, <1>6, <2>1 DEF HandleGeneric
  <2> QED
    BY <2>2, <2>3
<1>16. CASE HandleNoValidators(w) \/ HandleMissing(w)
  <2>1. OutsideAppeals(task'[w])
    BY <1>1, <1>3, <1>16 DEF HandleNoValidators, HandleMissing
  <2>2. \A u \in Tx : Unappealed(tx'[u])
    BY <1>1, <1>6, <1>16 DEF HandleNoValidators, HandleMissing, Unappealed, Rows
  <2> QED
    BY <2>1, <2>2
<1>17. CASE LeaderError(w) \/ LeaderCrash(w)
  <2>1. OutsideAppeals(task'[w])
    BY <1>1, <1>3, <1>17 DEF LeaderError, LeaderCrash
  <2>2. CASE ResetRow(w)
    BY <1>7, <2>1, <2>2
  <2>3. CASE tx' = [tx EXCEPT ![t].status = "ACCEPTED", ![t].result = "receipt",
                              ![t].elapsed = FALSE]
    BY <1>1, <2>1, <2>3 DEF Unappealed, Rows
  <2> QED
    BY <1>17, <2>2, <2>3, Zenon DEF LeaderError, LeaderCrash
<1>18. CASE Release(w)
  BY <1>1, <1>3, <1>18 DEF Release, OutsideAppeals, Tasks, Leased
<1>19. CASE Finish(w) \/ Crash(w)
  BY <1>4, <1>19 DEF Finish, Crash
<1>20. /\ ~Requeue(w) /\ ~Rollback(w) /\ ~LeaderAppeal(w) /\ ~LeaderTimeoutAppeal(w)
       /\ ~ValidatorAppeal(w) /\ ~RejectAppeal(w) /\ ~UpholdAppeal(w)
  BY <1>1 DEF Requeue, Rollback, LeaderAppeal, LeaderTimeoutAppeal, ValidatorAppeal, RejectAppeal,
     UpholdAppeal, At, OutsideAppeals, Leased
<1>21. CASE ClaimSeen(w)
  <2>1. CASE UNCHANGED tx /\ task' = [task EXCEPT ![w] = NoTask]
    BY <1>4, <2>1
  <2>2. ASSUME NEW u \in Tx, RowReady(task[w].kind, u), Take(w, task[w].kind, u, "start")
        PROVE  UNCHANGED tx /\ OutsideAppeals(task'[w])
    <3>1. task[w].kind \in Kinds /\ Unappealed(tx[u])
      BY <1>1 DEF Tasks
    <3>2. task[w].kind # "appeal"
      BY <2>2, <3>1, UnmarkedRow
    <3> QED
      BY <1>1, <2>2, <3>2, TakeFacts DEF OutsideAppeals
  <2> QED
    BY <1>1, <1>21, <2>1, <2>2, ForemostFacts DEF ClaimSeen, Tasks
<1> QED
  BY <1>8, <1>9, <1>10, <1>11, <1>12, <1>13, <1>14, <1>15, <1>16, <1>17, <1>18, <1>19, <1>20,
     <1>21, Zenon DEF Step, Fail

(* A set of transactions has a last one.                                   *)
LEMMA LessIsWellFounded ==
    \E R : IsWellFoundedOn(R, Nat) /\ \A x, y \in Nat : x < y => <<x, y>> \in R
<1>1. \A x, y \in Nat : x < y => <<x, y>> \in OpToRel(<, Nat)
  BY DEF OpToRel
<1> QED
  BY <1>1, NatLessThanWellFounded, Zenon

LEMMA Least ==
    ASSUME NEW S \in SUBSET Nat, S # {}
    PROVE  \E m \in S : \A v \in S : m <= v
<1>1. PICK R : IsWellFoundedOn(R, Nat) /\ \A x, y \in Nat : x < y => <<x, y>> \in R
  BY LessIsWellFounded
<1>2. PICK m \in S : \A y \in S : ~(<<y, m>> \in R)
  <2>1. S \subseteq Nat /\ S # {} /\ IsWellFoundedOn(R, Nat)
    BY <1>1
  <2> QED
    BY <2>1, WFMin
<1>3. ASSUME NEW v \in S, v < m
      PROVE  FALSE
  <2>1. v \in Nat /\ m \in Nat
    OBVIOUS
  <2>2. <<v, m>> \in R
    BY <1>1, <1>3, <2>1, Zenon
  <2> QED
    BY <1>2, <2>2, Zenon
<1>4. \A v \in S : v \in Nat /\ m \in Nat
  OBVIOUS
<1> QED
  BY <1>3, <1>4

LEMMA Closest == ASSUME NEW S \in SUBSET Tx, S # {}
   PROVE \E m \in S : \A v \in S : v <= m
<1>1. N \in Nat /\ \A v \in S : v \in Nat /\ N - v \in Nat
  BY QueueAssumption DEF Tx
<1> DEFINE D == {N - v : v \in S}
<1>2. PICK d \in D : \A e \in D : d <= e
  <2>1. D \in SUBSET Nat /\ D # {}
    BY <1>1
  <2> QED
    BY <2>1, Least
<1>3. PICK m \in S : d = N - m
  OBVIOUS
<1>4. \A v \in S : N - m <= N - v
  BY <1>2, <1>3
<1> QED
  BY <1>1, <1>4

-----------------------------------------------------------------------------
(* Where the row of a task can be, when there are no appeals.              *)
Placed(w) ==
    LET k == task[w] IN
    /\ k.pc \in Leased \cup {"noValidators"} => Present(k.tx)
    /\ k.pc \notin {"releaseMissing", "missing"}
    /\ k.pc = "start" /\ k.kind = "transaction" => tx[k.tx].status = "PENDING"
    /\ k.pc = "start" /\ k.kind = "finalization" => tx[k.tx].status \in Eligible
    /\ k.pc \in {"run", "decided"} => tx[k.tx].status = "PROCESSING"
OrderInv ==
    /\ InOrder
    /\ NoAppeals
    /\ QueueOrder
    /\ \A w \in Workers : Placed(w)

(* What a step may do to the status of a row.                              *)
Advances(u) == /\ Present(u) /\ tx'[u].status # "ABSENT"
               /\ Decided(u) => Decided(u)'
               /\ Gated(u) => tx[u].status # "CANCELED" /\ (Executed(u) \/ MayExecute(u))
OrderStep ==
    \/ UNCHANGED tx
    \/ \E u \in Tx :
          /\ \A v \in Tx : v # u => tx'[v] = tx[v]
          /\ \/ tx'[u].status = tx[u].status
             \/ Submits(u)
             \/ Present(u) /\ tx'[u].status = "CANCELED"
             \/ Present(u) /\ ~Decided(u) /\ tx'[u].status = "PENDING"
             \/ Advances(u)

(* What the older rows of an executed transaction are like.                *)
Settled(t) == \A u \in Older(t) :
    \/ Decided(u)
    \/ \E v \in Older(t) : v > u /\ (tx[v].status = "CANCELED" \/ ~Gated(v))

(* The gate looks at the closest older transaction only; the invariant     *)
(* carries what it saw to the others.                                      *)
LEMMA GateSettles ==
    ASSUME TypeOK, OrderInv, NEW t \in Tx, Gated(t), MayExecute(t)
    PROVE  Settled(t)
<1> SUFFICES ASSUME NEW u \in Older(t)
             PROVE  \/ Decided(u)
                    \/ \E v \in Older(t) : v > u /\ (tx[v].status = "CANCELED" \/ ~Gated(v))
  BY DEF Settled
<1>1. Older(t) \in SUBSET Tx /\ Older(t) # {}
  BY DEF Older, Others
<1>2. PICK m \in Older(t) : \A v \in Older(t) : v <= m
  BY <1>1, Closest
<1>3. Older(m) \subseteq Older(t) /\ m \in Tx
  BY <1>2 DEF Older, Others, Tx
<1>4. Decided(m)
  <2>1. Type[t] # "deploy"
    BY DEF Gated
  <2>2. m \in Previous(t)
    BY <1>2, <2>1 DEF Previous
  <2>3. Unappealed(tx[m])
    BY <1>3 DEF OrderInv, NoAppeals
  <2> QED
    BY <2>2, <2>3 DEF MayExecute, Unappealed, Decided
<1>5. CASE u = m
  BY <1>4, <1>5
<1>6. CASE u # m
  <2>1. u < m /\ u \in Older(m)
    BY <1>2, <1>6 DEF Older, Others, Tx
  <2>2. CASE tx[m].status = "CANCELED" \/ ~Gated(m)
    BY <1>2, <2>1, <2>2 DEF Tx
  <2>3. CASE tx[m].status # "CANCELED" /\ Gated(m)
    <3>1. Executed(m)
      BY <1>4, <2>3 DEF Decided, Executed, Terminal
    <3> QED
      BY <1>3, <2>1, <2>3, <3>1 DEF OrderInv, QueueOrder
  <2> QED
    BY <2>2, <2>3
<1> QED
  BY <1>5, <1>6

(* A step on one row keeps the order of the queue.                         *)
LEMMA OrderOfStep ==
    ASSUME TypeOK, OrderInv, OrderStep
    PROVE  InOrder' /\ QueueOrder'
<1>1. \A u \in Tx : Present(u) => Present(u)'
  BY DEF OrderStep, Submits, Advances, Present
<1>2. \A u \in Tx : Present(u)' => Present(u) \/ Submits(u)
  BY DEF OrderStep, Advances, Present
<1>3. InOrder'
  BY <1>1, <1>2 DEF OrderInv, InOrder, Submits
<1>4. \A u \in Tx : Decided(u) => Decided(u)'
  BY DEF OrderStep, Submits, Advances, Decided, Present, Eligible, Terminal
<1>5. \A u \in Tx : Gated(u) /\ tx[u].status = "CANCELED" => tx'[u].status = "CANCELED"
  BY DEF OrderStep, Submits, Advances, Present, Decided, Terminal
<1>6. ASSUME NEW t \in Tx, Gated(t), Executed(t)'
      PROVE  Present(t) /\ Settled(t)
  <2>1. Present(t) /\ (Executed(t) \/ MayExecute(t))
    BY <1>6 DEF OrderStep, Submits, Advances, Present, Executed, Eligible
  <2>2. Executed(t) => Settled(t)
    BY <1>6 DEF OrderInv, QueueOrder, Settled
  <2> QED
    BY <1>6, <2>1, <2>2, GateSettles
<1>7. QueueOrder'
  <2> SUFFICES ASSUME NEW t \in Tx, Gated(t), Executed(t)', NEW u \in Older(t)'
               PROVE  \/ Decided(u)'
                      \/ \E v \in Older(t)' : v > u /\ (tx'[v].status = "CANCELED" \/ ~Gated(v))
    BY DEF QueueOrder, Gated
  <2>1. Present(t) /\ Settled(t)
    BY <1>6
  <2>2. u \in Older(t)
    BY <2>1 DEF OrderInv, InOrder, Older, Others
  <2>3. \A v \in Older(t) : v \in Tx /\ v \in Older(t)'
    BY <1>1 DEF Older, Others
  <2>4. CASE Decided(u)
    BY <1>4, <2>2, <2>3, <2>4
  <2>5. ASSUME NEW v \in Older(t), v > u, tx[v].status = "CANCELED" \/ ~Gated(v)
        PROVE  tx'[v].status = "CANCELED" \/ ~Gated(v)
    BY <1>5, <2>3, <2>5
  <2> QED
    BY <2>1, <2>2, <2>3, <2>4, <2>5 DEF Settled
<1> QED
  BY <1>3, <1>7

(* A write of one worker, to the row of its task.                          *)
Advanced(u, s) ==
    \/ s = tx[u].status
    \/ s = "CANCELED"
    \/ ~Decided(u) /\ s = "PENDING"
    \/ /\ s # "ABSENT"
       /\ Decided(u) => s \in Eligible \cup Terminal
       /\ Gated(u) => tx[u].status # "CANCELED" /\ (Executed(u) \/ MayExecute(u))

(* ... is a step on one row.                                               *)
LEMMA WriteAdvances ==
    ASSUME NEW u \in Tx, Present(u), NEW s, NEW d, Writes(u, s, d), Advanced(u, s)
    PROVE  OrderStep
BY DEF Writes, Advanced, OrderStep, Advances, Decided

(* A claimed row is where the query found it.                              *)
LEMMA TakenIsPlaced ==
    ASSUME TypeOK, NEW w \in Workers, NEW kind \in Kinds, NEW t \in Tx, NEW p \in {"start", "release"},
           RowReady(kind, t), Take(w, kind, t, p)
    PROVE  Placed(w)'
<1>1. /\ kind = "transaction" => tx[t].status = "PENDING"
      /\ kind # "transaction" => tx[t].status \in Eligible
  BY ClaimedRow
<1> QED
  BY <1>1, TakeFacts DEF Placed, Present, Eligible

(* The steps of the tasks are such steps.                                  *)
LEMMA OrderByTasks ==
    ASSUME TypeOK, LeaseHeld, Recorded, UpgradeInv, OrderInv, "missing" \notin Env,
           NEW w \in Workers, Step(w) \/ Fail(w)
    PROVE  /\ OrderStep
           /\ \A u \in Tx : u # task[w].tx => tx'[u] = tx[u]
           /\ UNCHANGED tx \/ task[w].pc \in Leased \/ Unfinished(w)
           /\ (\A u \in Tx : Present(u) => Present(u)') => Placed(w)'
<1> DEFINE t == task[w].tx
           Own == /\ \A u \in Tx : u # t => tx'[u] = tx[u]
                  /\ UNCHANGED tx \/ task[w].pc \in Leased \/ Unfinished(w)
           Keeps == \A u \in Tx : Present(u) => Present(u)'
           Goal == OrderStep /\ Own /\ (Keeps => Placed(w)')
<1>1. /\ t \in Tx /\ task[w].kind \in Kinds /\ OutsideAppeals(task[w]) /\ Placed(w)
      /\ TypedTask(task[w])
      /\ task[w].pc \in Leased \cup {"noValidators"} => Present(t)
  BY DEF TypeOK, Tasks, OrderInv, NoAppeals, Placed, UpgradeInv
<1>2. UNCHANGED tx => OrderStep /\ Own
  BY DEF OrderStep
<1>3. ASSUME NEW s, NEW d, Writes(t, s, d), Advanced(t, s), task[w].pc \in Leased \/ Unfinished(w)
      PROVE  OrderStep /\ Own
  <2>1. Present(t)
    BY <1>1, <1>3 DEF Unfinished, Placed
  <2> QED
    BY <1>1, <1>3, <2>1, WriteAdvances DEF Writes
<1>4. Stops(w) => Placed(w)'
  BY InitialValues DEF Stops, Placed, Leased
<1>5. ASSUME NEW p \in {"upgraded", "broken", "commit", "release", "settle",
                        "releaseNoValidators", "noValidators"},
             Moves(w, p), task[w].pc \in Leased, Keeps
      PROVE  Placed(w)'
  BY <1>1, <1>5 DEF Moves, Placed
<1>6. ASSUME NEW p \in {"run", "decided"}, Moves(w, p), task[w].pc \in Leased, Keeps,
             tx'[t].status = "PROCESSING"
      PROVE  Placed(w)'
  BY <1>1, <1>6 DEF Moves, Placed
<1>8. CASE Skip(w) \/ Settle(w) \/ ValidatorError(w) \/ NoValidators(w)
  <2>1. task[w].pc \in Leased
    BY <1>8 DEF Skip, Settle, ValidatorError, NoValidators, At, Leased
  <2> QED
    BY <1>2, <1>5, <1>8, <2>1, TransactionFacts, AppealFacts, EndFacts
<1>9. CASE Upgrade(w)
  <2>1. task[w].pc \in Leased
    BY <1>9 DEF Upgrade, At, Leased
  <2> QED
    BY <1>3, <1>5, <1>9, <2>1, TransactionFacts DEF Advanced
<1>10. CASE EndUpgrade(w)
  <2>1. task[w].pc \in Leased /\ ~Gated(t) /\ task[w].outcome \in Terminal
    BY <1>1, <1>10 DEF EndUpgrade, TypedTask, Gated, Leased
  <2>2. Advanced(t, task[w].outcome)
    BY <2>1 DEF Advanced, Terminal
  <2> QED
    BY <1>3, <1>5, <1>10, <2>1, <2>2, TransactionFacts
<1>11. CASE Transfer(w)
  <2>1. task[w].pc \in Leased /\ tx[t].status = "PENDING" /\ MayExecute(t)
    BY <1>1, <1>11 DEF Transfer, At, Leased, Placed
  <2>2. Advanced(t, "FINALIZED") /\ Advanced(t, "UNDETERMINED")
    BY <2>1 DEF Advanced, Eligible, Terminal
  <2> QED
    BY <1>3, <1>5, <1>11, <2>1, <2>2, TransactionFacts
<1>12. CASE Propose(w)
  <2>1. task[w].pc \in Leased /\ tx[t].status = "PENDING" /\ MayExecute(t)
    BY <1>1, <1>12 DEF Propose, At, Leased, Placed
  <2>2. Advanced(t, "PROCESSING") /\ Advanced(t, tx[t].status)
    BY <2>1 DEF Advanced, Decided, Eligible, Terminal
  <2>3. CASE Writes(t, "PROCESSING", tx[t].result) /\ Moves(w, "run")
    BY <1>3, <1>6, <2>1, <2>2, <2>3 DEF Writes
  <2>4. CASE Writes(t, tx[t].status, tx[t].result) /\ Moves(w, "broken")
    BY <1>3, <1>5, <2>1, <2>2, <2>4
  <2> QED
    BY <1>12, <2>3, <2>4, TransactionFacts
<1>13. CASE Decide(w)
  <2>1. task[w].pc \in Leased /\ tx[t].status = "PROCESSING"
    BY <1>1, <1>13 DEF Decide, Leased, Placed
  <2>2. Writes(t, tx[t].status, "receipt") /\ Moves(w, "decided") /\ Advanced(t, tx[t].status)
    BY <1>13, TransactionFacts DEF Advanced
  <2> QED
    BY <1>3, <1>6, <2>1, <2>2 DEF Writes
<1>14. CASE Conclude(w)
  <2>1. task[w].pc \in Leased /\ tx[t].status = "PROCESSING" /\ task[w].outcome \in Eligible
    BY <1>1, <1>14 DEF Conclude, Leased, Placed, TypedTask
  <2>2. Advanced(t, task[w].outcome)
    BY <2>1 DEF Advanced, Executed, Eligible
  <2>3. Writes(t, task[w].outcome, tx[t].result)
    BY <1>14, TransactionFacts
  <2>4. OutsideAppeals(task'[w])
    BY NoAppealsByTasks DEF OrderInv, NoAppeals
  <2>5. PICK p \in {"rollback", "requeue", "broken", "commit"} : Moves(w, p)
    BY <1>14, TransactionFacts
  <2>6. p \in {"broken", "commit"}
    BY <2>4, <2>5 DEF OutsideAppeals, Moves
  <2> QED
    BY <1>3, <1>5, <2>1, <2>2, <2>3, <2>5, <2>6
<1>15. CASE Finalize(w)
  <2>1. task[w].pc \in Leased /\ tx[t].status \in Eligible
    BY <1>1, <1>15 DEF Finalize, At, Leased, Placed
  <2>2. Advanced(t, "FINALIZED")
    BY <2>1 DEF Advanced, Executed, Eligible, Terminal
  <2> QED
    BY <1>2, <1>3, <1>5, <1>15, <2>1, <2>2, AppealFacts
<1>16. CASE Raise(w) \/ GenericError(w)
  <2>1. task[w].pc \in Leased
    BY <1>16 DEF Raise, GenericError, Leased
  <2> QED
    BY <1>2, <1>3, <1>5, <1>16, <2>1, EndFacts DEF Advanced
<1>17. CASE HandleNoValidators(w)
  <2>1. Unfinished(w)
    BY <1>17 DEF HandleNoValidators, Unfinished
  <2> QED
    BY <1>2, <1>3, <1>4, <1>17, <2>1, EndFacts DEF Advanced
<1>18. CASE LeaderError(w) \/ LeaderCrash(w)
  <2>1. task[w].pc \in Leased /\ tx[t].status = "PROCESSING"
    BY <1>1, <1>18 DEF LeaderError, LeaderCrash, Leased, Placed
  <2>2. Advanced(t, "CANCELED") /\ Advanced(t, "PENDING") /\ Advanced(t, "ACCEPTED")
    BY <2>1 DEF Advanced, Decided, Executed, Eligible, Terminal
  <2>3. OrderStep /\ Own
    BY <1>2, <1>3, <1>18, <2>1, <2>2, EndFacts
  <2> QED
    BY <1>4, <1>18, <2>3, EndFacts
<1>19. CASE Release(w)
  <2>1. UNCHANGED tx /\ task[w].pc \in Leased
    BY <1>19, EndFacts DEF Release, Leased
  <2> QED
    BY <1>1, <1>2, <1>4, <1>5, <1>19, <2>1, EndFacts DEF Placed
<1>20. CASE Finish(w) \/ Crash(w)
  BY <1>2, <1>4, <1>20, EndFacts
<1>21. /\ ~HandleMissing(w) /\ ~Missing(w) /\ ~Rollback(w) /\ ~Requeue(w)
       /\ ~LeaderAppeal(w) /\ ~LeaderTimeoutAppeal(w) /\ ~ValidatorAppeal(w)
       /\ ~RejectAppeal(w) /\ ~UpholdAppeal(w)
  BY <1>1 DEF HandleMissing, Missing, Rollback, Requeue, LeaderAppeal, LeaderTimeoutAppeal,
     ValidatorAppeal, RejectAppeal, UpholdAppeal, At, OutsideAppeals, Placed, Leased
<1>22. CASE ClaimSeen(w)
  <2>1. CASE UNCHANGED tx /\ task' = [task EXCEPT ![w] = NoTask]
    BY <1>2, <1>4, <2>1 DEF Stops, TypeOK
  <2>2. ASSUME NEW u \in Tx, RowReady(task[w].kind, u), Take(w, task[w].kind, u, "start")
        PROVE  UNCHANGED tx /\ Placed(w)'
    BY <1>1, <2>2, TakeFacts, TakenIsPlaced
  <2> QED
    BY <1>2, <1>22, <2>1, <2>2, ForemostFacts DEF ClaimSeen, TypeOK, Tasks
<1> QED
  BY <1>8, <1>9, <1>10, <1>11, <1>12, <1>13, <1>14, <1>15, <1>16, <1>17, <1>18, <1>19, <1>20,
     <1>21, <1>22, Zenon DEF Step, Fail

(* Without appeals, no step marks a row ...                                *)
LEMMA NoAppealsStep ==
    ASSUME TypeOK, NoAppeals, MaxAppeals = 0, [Next]_vars
    PROVE  NoAppeals'
<1>1. /\ tx \in [Tx -> Rows] /\ task \in [Workers -> Tasks]
      /\ \A u \in Tx : Unappealed(tx[u])
      /\ \A x \in Workers : OutsideAppeals(task[x])
      /\ used.appeal \in Nat
  BY DEF TypeOK, NoAppeals
<1>2. ASSUME NEW t \in Tx, Users(t) \/ Clock(t) \/ Recovery(t)
      PROVE  NoAppeals'
  <2>1. UNCHANGED task
    BY <1>2, UserFacts
  <2>2. ~Appeal(t)
    BY <1>1 DEF Appeal
  <2>3. \A u \in Tx : Unappealed(tx'[u])
    BY <1>1, <1>2, <2>2 DEF Users, Clock, Recovery, Submit, Cancel, WindowElapses, LeaseExpires,
       ProgressStalls, Escalate, ReleaseOrphan, Recover, Unappealed, Rows
  <2> QED
    BY <1>1, <2>1, <2>3 DEF NoAppeals
<1>3. CASE \E w \in Workers : Step(w) \/ Fail(w)
  BY <1>3, NoAppealsByTasks
<1>4. ASSUME NEW w \in Workers, NEW kind, Look(w, kind)
      PROVE  NoAppeals'
  <2> DEFINE k == [NoTask EXCEPT !.pc = "look", !.kind = kind, !.todo = Claimable(kind)]
  <2>1. OutsideAppeals(k)
    BY DEF OutsideAppeals, NoTask, Leased
  <2>2. UNCHANGED tx /\ task' = [task EXCEPT ![w] = k]
    BY <1>4 DEF Look
  <2> HIDE DEF k
  <2> QED
    BY <1>1, <2>1, <2>2 DEF NoAppeals
<1>5. ASSUME NEW w \in Workers, NEW kind \in Kinds, NEW t \in Tx,
             Claim(w, kind, t) \/ ClaimInBackoff(w, t)
      PROVE  NoAppeals'
  <2>1. PICK k \in Kinds, p \in {"start", "release"} : RowReady(k, t) /\ Take(w, k, t, p)
    BY <1>5, ForemostFacts DEF Claim, ClaimInBackoff, Claimable, Kinds
  <2>2. k # "appeal"
    BY <1>1, <2>1, UnmarkedRow
  <2>3. OutsideAppeals(task'[w])
    BY <2>1, <2>2, TakeFacts DEF OutsideAppeals
  <2> QED
    BY <1>1, <2>1, <2>3, TakeFacts DEF NoAppeals
<1>6. UNCHANGED vars => NoAppeals'
  BY DEF vars, NoAppeals
<1>7. "transaction" \in Kinds
  BY DEF Kinds
<1> QED
  BY <1>2, <1>3, <1>4, <1>5, <1>6, <1>7, NextCases, Zenon

(* ... and OrderInv is inductive: what the other tasks hold stays.         *)
LEMMA OrderInvStep ==
    ASSUME TypeOK, LeaseHeld, Recorded, UpgradeInv, OrderInv, MaxAppeals = 0,
           "missing" \notin Env, "latecommit" \notin Env, [Next]_vars
    PROVE  OrderInv'
<1>1. NoAppeals' /\ \A u \in Tx : Present(u) => Present(u)'
  BY NoAppealsStep, RowsStay DEF OrderInv
<1>2. ASSUME NEW x \in Workers, task'[x] = task[x],
             task[x].pc \in Leased => tx'[task[x].tx].status = tx[task[x].tx].status
      PROVE  Placed(x)'
  <2>1. Placed(x) /\ task[x].tx \in Tx
    BY DEF OrderInv, TypeOK, Tasks
  <2>2. {"start", "run", "decided"} \subseteq Leased
    BY DEF Leased
  <2> QED
    BY <1>1, <1>2, <2>1, <2>2 DEF Placed
<1>3. CASE UNCHANGED vars
  BY <1>1, <1>2, <1>3, OrderOfStep DEF vars, OrderInv, OrderStep
<1>4. ASSUME NEW t \in Tx, Users(t) \/ Clock(t) \/ Recovery(t)
      PROVE  OrderInv'
  <2>1. UNCHANGED task /\ tx \in [Tx -> Rows]
    BY <1>4, UserFacts DEF TypeOK
  <2>2. ASSUME NEW x \in Workers, task[x].pc \in Leased, Cancel(t) \/ Escalate(t) \/ Recover(t)
        PROVE  task[x].tx # t
    BY <2>2 DEF LeaseHeld, Cancel, Escalate, Recover, Stuck, OrderInv, Placed
  <2>3. ASSUME NEW x \in Workers, task[x].pc \in Leased
        PROVE  tx'[task[x].tx].status = tx[task[x].tx].status
    <3>1. Submit(t) => task[x].tx # t
      BY <2>3 DEF Submit, OrderInv, Placed
    <3>2. task[x].tx \in Tx
      BY DEF TypeOK, Tasks
    <3> QED
      BY <1>4, <2>1, <2>2, <2>3, <3>1, <3>2, UserFacts DEF Users, Clock, Recovery, Writes
  <2>4. OrderStep
    <3>1. CASE Submit(t)
      BY <3>1, UserFacts DEF OrderStep, Writes, Submits, Submit
    <3>2. CASE Cancel(t) \/ Escalate(t)
      <4>1. Present(t)
        BY <3>2 DEF Cancel, Escalate, Stuck, Present
      <4> QED
        BY <3>2, <4>1, UserFacts DEF OrderStep, Writes
    <3>3. CASE Recover(t)
      <4>1. Present(t) /\ ~Decided(t)
        BY <3>3 DEF Recover, Stuck, Present, Decided, Eligible, Terminal
      <4> QED
        BY <3>3, <4>1, UserFacts DEF OrderStep, Writes
    <3>4. CASE Appeal(t) \/ WindowElapses(t)
      BY <3>4, UserFacts DEF OrderStep, Writes
    <3> QED
      BY <1>4, <3>1, <3>2, <3>3, <3>4, UserFacts DEF Users, Clock, Recovery, OrderStep
  <2> QED
    BY <1>1, <1>2, <2>1, <2>3, <2>4, OrderOfStep DEF OrderInv
<1>5. ASSUME NEW w \in Workers, Step(w) \/ Fail(w)
      PROVE  OrderInv'
  <2>1. /\ OrderStep
        /\ \A u \in Tx : u # task[w].tx => tx'[u] = tx[u]
        /\ UNCHANGED tx \/ task[w].pc \in Leased \/ Unfinished(w)
        /\ Placed(w)'
    BY <1>1, <1>5, OrderByTasks
  <2>2. ASSUME NEW x \in Workers, x # w
        PROVE  Placed(x)'
    <3>1. task'[x] = task[x] /\ task[x].tx \in Tx
      BY <1>5, <2>2, OthersStay DEF TypeOK, Tasks
    <3>2. task[x].pc \in Leased => UNCHANGED tx \/ task[x].tx # task[w].tx
      BY <2>1, <2>2 DEF LeaseHeld, Recorded
    <3>3. task[x].pc \in Leased => tx'[task[x].tx].status = tx[task[x].tx].status
      BY <2>1, <3>1, <3>2
    <3> QED
      BY <1>2, <3>1, <3>3
  <2> QED
    BY <1>1, <2>1, <2>2, OrderOfStep DEF OrderInv
<1>6. ASSUME NEW w \in Workers, NEW kind \in Kinds, Look(w, kind)
      PROVE  OrderInv'
  <2> DEFINE k == [NoTask EXCEPT !.pc = "look", !.kind = kind, !.todo = Claimable(kind)]
  <2>1. k.pc = "look" /\ UNCHANGED tx /\ task' = [task EXCEPT ![w] = k]
        /\ task \in [Workers -> Tasks]
    BY <1>6 DEF Look, NoTask, TypeOK
  <2> HIDE DEF k
  <2>2. Placed(w)'
    BY <2>1 DEF Placed, Leased
  <2>3. \A x \in Workers : Placed(x)'
    BY <1>2, <2>1, <2>2
  <2> QED
    BY <1>1, <2>1, <2>3, OrderOfStep DEF OrderInv, OrderStep
<1>7. ASSUME NEW w \in Workers, NEW kind \in Kinds, NEW t \in Tx,
             Claim(w, kind, t) \/ ClaimInBackoff(w, t)
      PROVE  OrderInv'
  <2>1. PICK k \in Kinds, p \in {"start", "release"} : RowReady(k, t) /\ Take(w, k, t, p)
    BY <1>7, ForemostFacts DEF Claim, ClaimInBackoff, Claimable, Kinds
  <2>2. UNCHANGED tx /\ Placed(w)' /\ \A x \in Workers : x # w => task'[x] = task[x]
    BY <2>1, TakeFacts, TakenIsPlaced
  <2>3. \A x \in Workers : Placed(x)'
    BY <1>2, <2>2
  <2> QED
    BY <1>1, <2>2, <2>3, OrderOfStep DEF OrderInv, OrderStep
<1>8. "transaction" \in Kinds
  BY DEF Kinds
<1> QED
  BY <1>3, <1>4, <1>5, <1>6, <1>7, <1>8, NextCases, Zenon

(* Without appeals a transaction executes when all older ones are decided, *)
(* up to the exceptions QueueOrder names, whatever the claims let through: *)
(* the gate looks at one row only, and the order is kept by induction.     *)
THEOREM QueueIsInOrder ==
    ASSUME MaxAppeals = 0, "slow" \notin Env, "latecommit" \notin Env, "missing" \notin Env,
           "handover" \notin Env
    PROVE  Spec => []QueueOrder
<1>1. Init => OrderInv
  BY InitialValues DEF Init, OrderInv, InOrder, NoAppeals, Unappealed, OutsideAppeals, QueueOrder,
     Placed, Executed, NewRow, NoTask, Present, Leased, Eligible
<1>2. TypeOK /\ LeaseHeld /\ Recorded /\ UpgradeInv /\ OrderInv /\ [Next]_vars => OrderInv'
  BY OrderInvStep
<1>3. OrderInv => QueueOrder
  BY DEF OrderInv
<1> QED
  BY <1>1, <1>2, <1>3, TypeCorrect, LeasesAreHeld, ErrorsAreRecorded, UpgradesApart, PTL DEF Spec
=============================================================================
