------------------------ MODULE ContractStateProofs ------------------------
(***************************************************************************)
(* Proofs about ContractState, in three parts: its types; that a finalized *)
(* effect stays (what rows and tasks know of the two states); and that the *)
(* accepted state is the history of the accepted transactions (in what     *)
(* order they are begun, and whose every effect is).                       *)
(***************************************************************************)
EXTENDS ContractState, TLAPS

-----------------------------------------------------------------------------
(* Types.                                                                  *)

(* The states that the actions build are states.                           *)
LEMMA StatesBuilt ==
    /\ Empty \in States /\ NoSnapshot \in States /\ Deployed \in States
    /\ NoSnapshot # Empty
    /\ \A s \in States, t \in Tx : Append(s, t) \in States
  BY DEF States, Empty, NoSnapshot, Deployed, Tx

(* What a row and a task hold, ...                                         *)
LEMMA RowTyped ==
    ASSUME TypeOK, NEW t \in Tx
    PROVE  row[t] \in Rows
  BY DEF TypeOK

LEMMA TaskTyped ==
    ASSUME TypeOK, NEW w \in Workers
    PROVE  task[w] \in Tasks
  BY DEF TypeOK

(* ... and what a write of one of them changes.                            *)
LEMMA OneRow ==
    ASSUME TypeOK, NEW t \in Tx, NEW r \in Rows, row' = [row EXCEPT ![t] = r]
    PROVE  /\ row' \in [Tx -> Rows]
           /\ row'[t] = r
           /\ \A u \in Tx \ {t} : row'[u] = row[u]
  BY DEF TypeOK

LEMMA OneTask ==
    ASSUME TypeOK, NEW w \in Workers, NEW k \in Tasks, task' = [task EXCEPT ![w] = k]
    PROVE  /\ task' \in [Workers -> Tasks]
           /\ task'[w] = k
           /\ \A v \in Workers \ {w} : task'[v] = task[v]
  BY DEF TypeOK

(* A step of a task to its next place.                                     *)
LEMMA GotoTask ==
    ASSUME TypeOK, NEW w \in Workers, NEW pc \in Places, Goto(w, pc)
    PROVE  /\ task' \in [Workers -> Tasks]
           /\ task'[w] = [task[w] EXCEPT !.pc = pc]
           /\ \A v \in Workers \ {w} : task'[v] = task[v]
  <1>1. [task[w] EXCEPT !.pc = pc] \in Tasks
    BY TaskTyped DEF Tasks
  <1>2. task' = [task EXCEPT ![w] = [task[w] EXCEPT !.pc = pc]]
    BY Zenon DEF Goto
  <1> QED  BY <1>1, <1>2, OneTask

(* The writes of a status, and of a row that starts again.                 *)
LEMMA StatusRow ==
    ASSUME TypeOK, NEW t \in Tx, NEW s \in Status, WriteStatus(t, s)
    PROVE  /\ row' \in [Tx -> Rows]
           /\ row'[t] = [row[t] EXCEPT !.status = s]
           /\ \A u \in Tx \ {t} : row'[u] = row[u]
  <1>1. [row[t] EXCEPT !.status = s] \in Rows
    BY RowTyped DEF Rows
  <1>2. row' = [row EXCEPT ![t] = [row[t] EXCEPT !.status = s]]
    BY Zenon DEF WriteStatus
  <1> QED  BY <1>1, <1>2, OneRow

LEMMA PendedRow ==
    ASSUME TypeOK, NEW t \in Tx, row' = Pended(t)
    PROVE  /\ row' \in [Tx -> Rows]
           /\ row'[t] = [row[t] EXCEPT !.status = "PENDING", !.receipt = FALSE,
                                       !.timeoutAppeal = FALSE]
           /\ \A u \in Tx \ {t} : row'[u] = row[u]
  <1>1. [row[t] EXCEPT !.status = "PENDING", !.receipt = FALSE,
                       !.timeoutAppeal = FALSE] \in Rows
    BY RowTyped DEF Rows, Status
  <1>2. row' = [row EXCEPT ![t] = [row[t] EXCEPT !.status = "PENDING", !.receipt = FALSE,
                                                 !.timeoutAppeal = FALSE]]
    BY Zenon DEF Pended
  <1> QED  BY <1>1, <1>2, OneRow

(* A step of users or of recovery writes one row, and no task.             *)
LEMMA SubmitRow ==
    ASSUME TypeOK, NEW t \in Tx, Submit(t)
    PROVE  /\ TypeOK'
           /\ row'[t] = [row[t] EXCEPT !.status = "PENDING"]
           /\ \A u \in Tx \ {t} : row'[u] = row[u]
  <1>1. "PENDING" \in Status /\ WriteStatus(t, "PENDING")
    BY DEF Submit, WriteStatus, Status
  <1> HIDE DEF WriteStatus
  <1>2. row' \in [Tx -> Rows] /\ row'[t] = [row[t] EXCEPT !.status = "PENDING"]
        /\ \A u \in Tx \ {t} : row'[u] = row[u]
    BY <1>1, StatusRow
  <1> QED  BY <1>2 DEF Submit, TypeOK

LEMMA CancelRow ==
    ASSUME TypeOK, NEW t \in Tx, Cancel(t)
    PROVE  /\ TypeOK'
           /\ row'[t] = [row[t] EXCEPT !.status = "CANCELED"]
           /\ \A u \in Tx \ {t} : row'[u] = row[u]
  <1>1. "CANCELED" \in Status /\ WriteStatus(t, "CANCELED")
    BY DEF Cancel, WriteStatus, Status, Terminal
  <1>2. row' \in [Tx -> Rows] /\ row'[t] = [row[t] EXCEPT !.status = "CANCELED"]
        /\ \A u \in Tx \ {t} : row'[u] = row[u]
    BY <1>1, StatusRow
  <1> QED  BY <1>2 DEF Cancel, TypeOK

LEMMA AppealRow ==
    ASSUME TypeOK, NEW t \in Tx, Appeal(t)
    PROVE  /\ TypeOK'
           /\ row'[t] = [row[t] EXCEPT !.appealed = TRUE]
           /\ \A u \in Tx \ {t} : row'[u] = row[u]
  <1>1. [row[t] EXCEPT !.appealed = TRUE] \in Rows
    BY RowTyped DEF Rows
  <1>2. row' = [row EXCEPT ![t] = [row[t] EXCEPT !.appealed = TRUE]]
    BY Zenon DEF Appeal
  <1>3. row' \in [Tx -> Rows] /\ row'[t] = [row[t] EXCEPT !.appealed = TRUE]
        /\ \A u \in Tx \ {t} : row'[u] = row[u]
    BY <1>1, <1>2, OneRow
  <1>4. used' \in [crash : 0..MaxCrashes, appeal : 0..MaxAppeals]
    BY StateAssumption DEF TypeOK, Appeal
  <1> QED  BY <1>3, <1>4 DEF Appeal, TypeOK

LEMMA RecoverRow ==
    ASSUME TypeOK, NEW t \in Tx, Recover(t)
    PROVE  /\ TypeOK'
           /\ row'[t] = [row[t] EXCEPT !.status = "PENDING", !.receipt = FALSE,
                                       !.timeoutAppeal = FALSE]
           /\ \A u \in Tx \ {t} : row'[u] = row[u]
  <1>1. row' = Pended(t)
    BY DEF Recover
  <1> QED  BY <1>1, PendedRow, Zenon DEF Recover, TypeOK

LEMMA OrphanTyped ==
    ASSUME TypeOK, NEW t \in Tx, ReleaseOrphan(t)
    PROVE  TypeOK'
  BY DEF ReleaseOrphan, TypeOK

(* A claim makes a task.                                                   *)
LEMMA ClaimTask ==
    ASSUME TypeOK, NEW w \in Workers, NEW kind \in Kinds, NEW t \in Tx, Claim(w, kind, t)
    PROVE  /\ TypeOK'
           /\ task'[w].pc = "start" /\ task'[w].kind = kind /\ task'[w].tx = t
           /\ task'[w].was = row[t].status /\ task'[w].saved = NoSnapshot
           /\ task'[w].outcome = "PENDING"
           /\ \A v \in Workers \ {w} : task'[v] = task[v]
  <1> DEFINE k == [NoTask EXCEPT !.pc = "start", !.kind = kind, !.tx = t,
                                 !.was = row[t].status, !.saved = NoSnapshot]
  <1>1. row[t].status \in Status
    BY RowTyped DEF Rows
  <1>2. k \in Tasks
    BY <1>1, StatesBuilt DEF NoTask, Tasks, Places, Status
  <1>3. task' = [task EXCEPT ![w] = k]
    BY Zenon DEF Claim, ClaimedSnapshot
  <1>4. /\ k.pc = "start" /\ k.kind = kind /\ k.tx = t
        /\ k.was = row[t].status /\ k.saved = NoSnapshot /\ k.outcome = "PENDING"
    BY DEF NoTask
  <1> HIDE DEF k
  <1>5. task' \in [Workers -> Tasks] /\ task'[w] = k
        /\ \A v \in Workers \ {w} : task'[v] = task[v]
    BY <1>2, <1>3, OneTask
  <1>6. lease' \in [Tx -> {"null", "live", "expired"}]
    BY DEF Claim, TypeOK
  <1> QED  BY <1>4, <1>5, <1>6 DEF Claim, TypeOK

(* The ends of a task.                                                     *)
LEMMA NoTaskTyped == NoTask \in Tasks
  <1>1. 1 \in Tx
    BY StateAssumption DEF Tx
  <1> QED  BY <1>1, StatesBuilt DEF NoTask, Tasks, Places, Kinds, Status

LEMMA FaultTyped ==
    ASSUME TypeOK, NEW h, Fault(h)
    PROVE  used' \in [crash : 0..MaxCrashes, appeal : 0..MaxAppeals]
  BY StateAssumption DEF TypeOK, Fault

LEMMA FinishTask ==
    ASSUME TypeOK, NEW w \in Workers, Finish(w)
    PROVE  /\ TypeOK'
           /\ task'[w] = NoTask
           /\ \A v \in Workers \ {w} : task'[v] = task[v]
  BY NoTaskTyped DEF TypeOK, Finish

LEMMA CrashTask ==
    ASSUME TypeOK, NEW w \in Workers, Crash(w)
    PROVE  /\ TypeOK'
           /\ task'[w] = NoTask
           /\ \A v \in Workers \ {w} : task'[v] = task[v]
  BY NoTaskTyped, FaultTyped DEF TypeOK, Crash

LEMMA ErrorTask ==
    ASSUME TypeOK, NEW w \in Workers, LeaderError(w)
    PROVE  /\ TypeOK'
           /\ row'[task[w].tx] = [row[task[w].tx] EXCEPT !.status = "PENDING",
                                      !.receipt = FALSE, !.timeoutAppeal = FALSE]
           /\ \A u \in Tx \ {task[w].tx} : row'[u] = row[u]
           /\ task'[w] = NoTask
           /\ \A v \in Workers \ {w} : task'[v] = task[v]
  <1>1. row' = Pended(task[w].tx) /\ task[w].tx \in Tx
    BY TaskTyped DEF LeaderError, Tasks
  <1>2. row' \in [Tx -> Rows]
        /\ row'[task[w].tx] = [row[task[w].tx] EXCEPT !.status = "PENDING",
                                      !.receipt = FALSE, !.timeoutAppeal = FALSE]
        /\ \A u \in Tx \ {task[w].tx} : row'[u] = row[u]
    BY <1>1, PendedRow, Zenon
  <1>3. used' \in [crash : 0..MaxCrashes, appeal : 0..MaxAppeals]
    BY FaultTyped DEF LeaderError
  <1> QED  BY NoTaskTyped, <1>2, <1>3 DEF TypeOK, LeaderError

-----------------------------------------------------------------------------
(* What each step of a task writes: its row, and what the task becomes.    *)

LEMMA BeginTask ==
    ASSUME TypeOK, NEW w \in Workers, Begin(w)
    PROVE  LET t == task[w].tx IN
           /\ TypeOK'
           /\ row'[t].status = "PROCESSING" /\ row'[t].ok = row[t].ok
           /\ row'[t].timeoutAppeal = row[t].timeoutAppeal
           /\ row'[t].appealed = FALSE /\ row'[t].flag \in {row[t].flag, "none"}
           /\ \A u \in Tx \ {t} : row'[u] = row[u]
           /\ \E l \in BOOLEAN : task'[w] = [task[w] EXCEPT !.pc = "run", !.leader = l,
                     !.base = ContextBase(task[w].saved),
                     !.saved = row[t].snapshot, !.late = row[t].timeoutAppeal]
           /\ \A v \in Workers \ {w} : task'[v] = task[v]
  <1> DEFINE t == task[w].tx
             leader == row[t].flag = "undetermined" /\ row[t].receipt
             f == IF leader THEN row[t].flag ELSE "none"
             r == [row[t] EXCEPT !.status = "PROCESSING", !.appealed = FALSE, !.flag = f]
             b == ContextBase(task[w].saved)
             k == [task[w] EXCEPT !.pc = "run", !.leader = leader, !.base = b,
                                  !.saved = row[t].snapshot, !.late = row[t].timeoutAppeal]
  <1>1. row[t] \in Rows /\ task[w] \in Tasks /\ t \in Tx
    BY RowTyped, TaskTyped DEF Tasks
  <1>2. row' = [row EXCEPT ![t] = r] /\ task' = [task EXCEPT ![w] = k]
    BY Zenon DEF Begin
  <1>3. /\ f \in {"none", "undetermined", "timeout"} /\ leader \in BOOLEAN
        /\ f \in {row[t].flag, "none"}
    BY <1>1 DEF Rows
  <1>4. b \in States
    BY <1>1 DEF Tasks, ContextBase, TypeOK
  <1> HIDE DEF leader, f, b
  <1>5. r \in Rows /\ k \in Tasks
    <2>1. r \in Rows
      BY <1>1, <1>3 DEF Rows, Status
    <2>2. k \in Tasks
      <3>1. row[t].snapshot \in States /\ row[t].timeoutAppeal \in BOOLEAN /\ "run" \in Places
        BY <1>1 DEF Rows, Places
      <3> QED  BY <1>1, <1>3, <1>4, <3>1 DEF Tasks
    <2> QED  BY <2>1, <2>2
  <1>6. /\ r.status = "PROCESSING" /\ r.ok = row[t].ok
        /\ r.timeoutAppeal = row[t].timeoutAppeal
        /\ r.appealed = FALSE /\ r.flag \in {row[t].flag, "none"}
    BY <1>1, <1>3 DEF Rows
  <1> HIDE DEF r
  <1>7. row' \in [Tx -> Rows] /\ row'[t] = r /\ \A u \in Tx \ {t} : row'[u] = row[u]
    BY <1>1, <1>2, <1>5, OneRow
  <1>8. \E l \in BOOLEAN : k = [task[w] EXCEPT !.pc = "run", !.leader = l,
                     !.base = ContextBase(task[w].saved),
                     !.saved = row[t].snapshot, !.late = row[t].timeoutAppeal]
    BY <1>3, Zenon DEF b
  <1> HIDE DEF k
  <1>9. task' \in [Workers -> Tasks] /\ task'[w] = k
        /\ \A v \in Workers \ {w} : task'[v] = task[v]
    BY <1>2, <1>5, OneTask
  <1> QED  BY <1>6, <1>7, <1>8, <1>9, Zenon DEF Begin, TypeOK

LEMMA ProgressTask ==
    ASSUME TypeOK, NEW w \in Workers, Progress(w)
    PROVE  LET t == task[w].tx IN
           /\ TypeOK'
           /\ row'[t] = [row[t] EXCEPT !.status = "PROCESSING"]
           /\ \A u \in Tx \ {t} : row'[u] = row[u]
  <1> DEFINE t == task[w].tx
             r == [row[t] EXCEPT !.status = "PROCESSING"]
  <1>1. row[t] \in Rows /\ task[w] \in Tasks /\ t \in Tx
    BY RowTyped, TaskTyped DEF Tasks
  <1>2. row' = [row EXCEPT ![t] = r]
    BY Zenon DEF Progress, Goto, WriteStatus
  <1>3. r \in Rows
    BY <1>1 DEF Rows, Tasks, Status, Places, Eligible, Terminal
  <1> HIDE DEF r
  <1>4. row' \in [Tx -> Rows] /\ row'[t] = r /\ \A u \in Tx \ {t} : row'[u] = row[u]
    BY <1>1, <1>2, <1>3, OneRow
  <1> QED  BY <1>4 DEF Progress, TypeOK, r

LEMMA SaveTask ==
    ASSUME TypeOK, NEW w \in Workers, Save(w)
    PROVE  LET t == task[w].tx IN
           /\ TypeOK'
           /\ row'[t] = [row[t] EXCEPT !.snapshot =
                           (IF task[w].saved = NoSnapshot THEN task[w].base
                                                          ELSE task[w].saved)]
           /\ \A u \in Tx \ {t} : row'[u] = row[u]
           /\ task'[w] = [task[w] EXCEPT !.pc = (IF task[w].ok THEN "write" ELSE "status")]
           /\ \A v \in Workers \ {w} : task'[v] = task[v]
  <1> DEFINE t == task[w].tx
             s == (IF task[w].saved = NoSnapshot THEN task[w].base ELSE task[w].saved)
             p == (IF task[w].ok THEN "write" ELSE "status")
             r == [row[t] EXCEPT !.snapshot = s]
             k == [task[w] EXCEPT !.pc = p]
  <1>1. row[t] \in Rows /\ task[w] \in Tasks /\ t \in Tx
    BY RowTyped, TaskTyped DEF Tasks
  <1>2. row' = [row EXCEPT ![t] = r] /\ task' = [task EXCEPT ![w] = k]
    BY Zenon DEF Save, Goto, WriteStatus
  <1>3. s \in States
    BY <1>1 DEF Tasks
  <1>4. p \in Places
    BY <1>1 DEF Places
  <1> HIDE DEF s, p
  <1>5. r \in Rows
    BY <1>1, <1>3, <1>4 DEF Rows, Status, Eligible, Terminal
  <1>typed. k \in Tasks
    BY <1>1, <1>3, <1>4 DEF Tasks, Places
  <1> HIDE DEF r, k
  <1>6. row' \in [Tx -> Rows] /\ row'[t] = r /\ \A u \in Tx \ {t} : row'[u] = row[u]
    BY <1>1, <1>2, <1>5, OneRow
  <1>7. task' \in [Workers -> Tasks] /\ task'[w] = k
        /\ \A v \in Workers \ {w} : task'[v] = task[v]
    BY <1>2, <1>typed, OneTask
  <1> QED  BY <1>6, <1>7 DEF Save, TypeOK, s, p, r, k

LEMMA AppealFailsTask ==
    ASSUME TypeOK, NEW w \in Workers, AppealFails(w)
    PROVE  LET t == task[w].tx IN
           /\ TypeOK'
           /\ row'[t] = [row[t] EXCEPT !.appealed = FALSE]
           /\ \A u \in Tx \ {t} : row'[u] = row[u]
           /\ task'[w] = [task[w] EXCEPT !.pc = "end"]
           /\ \A v \in Workers \ {w} : task'[v] = task[v]
  <1> DEFINE t == task[w].tx
             r == [row[t] EXCEPT !.appealed = FALSE]
             k == [task[w] EXCEPT !.pc = "end"]
  <1>1. row[t] \in Rows /\ task[w] \in Tasks /\ t \in Tx
    BY RowTyped, TaskTyped DEF Tasks
  <1>2. row' = [row EXCEPT ![t] = r] /\ task' = [task EXCEPT ![w] = k]
    BY Zenon DEF AppealFails, Goto, WriteStatus
  <1>3. r \in Rows
    BY <1>1 DEF Rows, Status, Eligible, Terminal
  <1>typed. k \in Tasks
    BY <1>1 DEF Tasks, Places
  <1> HIDE DEF r, k
  <1>4. row' \in [Tx -> Rows] /\ row'[t] = r /\ \A u \in Tx \ {t} : row'[u] = row[u]
    BY <1>1, <1>2, <1>3, OneRow
  <1>5. task' \in [Workers -> Tasks] /\ task'[w] = k
        /\ \A v \in Workers \ {w} : task'[v] = task[v]
    BY <1>2, <1>typed, OneTask
  <1> QED  BY <1>4, <1>5 DEF AppealFails, TypeOK, r, k

LEMMA LeaderAppealTask ==
    ASSUME TypeOK, NEW w \in Workers, LeaderAppeal(w)
    PROVE  LET t == task[w].tx IN
           /\ TypeOK'
           /\ row'[t] = [row[t] EXCEPT !.appealed = FALSE, !.flag = "undetermined",
                                       !.status = "PROCESSING"]
           /\ \A u \in Tx \ {t} : row'[u] = row[u]
           /\ task'[w] = [task[w] EXCEPT !.pc = "run", !.leader = TRUE,
                                         !.base = ContextBase(task[w].saved),
                                         !.saved = row[t].snapshot,
                                         !.late = row[t].timeoutAppeal]
           /\ \A v \in Workers \ {w} : task'[v] = task[v]
  <1> DEFINE t == task[w].tx
             b == ContextBase(task[w].saved)
             r == [row[t] EXCEPT !.appealed = FALSE, !.flag = "undetermined",
                                 !.status = "PROCESSING"]
             k == [task[w] EXCEPT !.pc = "run", !.leader = TRUE, !.base = b,
                                  !.saved = row[t].snapshot, !.late = row[t].timeoutAppeal]
  <1>1. row[t] \in Rows /\ task[w] \in Tasks /\ t \in Tx
    BY RowTyped, TaskTyped DEF Tasks
  <1>2. row' = [row EXCEPT ![t] = r] /\ task' = [task EXCEPT ![w] = k]
    BY Zenon DEF LeaderAppeal, Goto, WriteStatus
  <1>3. b \in States
    BY <1>1 DEF Tasks, ContextBase, TypeOK
  <1> HIDE DEF b
  <1>4. r \in Rows
    BY <1>1, <1>3 DEF Rows, Status, Eligible, Terminal
  <1>typed. k \in Tasks
    BY <1>1, <1>3 DEF Tasks, Places, Rows
  <1> HIDE DEF r, k
  <1>5. row' \in [Tx -> Rows] /\ row'[t] = r /\ \A u \in Tx \ {t} : row'[u] = row[u]
    BY <1>1, <1>2, <1>4, OneRow
  <1>6. task' \in [Workers -> Tasks] /\ task'[w] = k
        /\ \A v \in Workers \ {w} : task'[v] = task[v]
    BY <1>2, <1>typed, OneTask
  <1> QED  BY <1>5, <1>6 DEF LeaderAppeal, TypeOK, b, r, k

LEMMA ValidatorAppealTask ==
    ASSUME TypeOK, NEW w \in Workers, ValidatorAppeal(w)
    PROVE  LET t == task[w].tx IN
           /\ TypeOK'
           /\ row'[t] = [row[t] EXCEPT !.status = "PROCESSING",
                                       !.appealed = (~(task[w].was = "VALIDATORS_TIMEOUT")),
                                       !.flag =
                            (IF task[w].was = "VALIDATORS_TIMEOUT" THEN "timeout"
                                                                   ELSE row[t].flag)]
           /\ \A u \in Tx \ {t} : row'[u] = row[u]
           /\ task'[w] = [task[w] EXCEPT !.pc = "vote", !.base = ContextBase(task[w].saved)]
           /\ \A v \in Workers \ {w} : task'[v] = task[v]
  <1> DEFINE t == task[w].tx
             a == (~(task[w].was = "VALIDATORS_TIMEOUT"))
             f == (IF task[w].was = "VALIDATORS_TIMEOUT" THEN "timeout" ELSE row[t].flag)
             b == ContextBase(task[w].saved)
             r == [row[t] EXCEPT !.status = "PROCESSING", !.appealed = a, !.flag = f]
             k == [task[w] EXCEPT !.pc = "vote", !.base = b]
  <1>1. row[t] \in Rows /\ task[w] \in Tasks /\ t \in Tx
    BY RowTyped, TaskTyped DEF Tasks
  <1>2. row' = [row EXCEPT ![t] = r] /\ task' = [task EXCEPT ![w] = k]
    BY Zenon DEF ValidatorAppeal, Goto, WriteStatus
  <1>3. a \in BOOLEAN
    BY <1>1
  <1>4. f \in {"none", "undetermined", "timeout"}
    BY <1>1 DEF Rows
  <1>5. b \in States
    BY <1>1 DEF Tasks, ContextBase, TypeOK
  <1> HIDE DEF a, f, b
  <1>6. r \in Rows
    BY <1>1, <1>3, <1>4, <1>5 DEF Rows, Status, Eligible, Terminal
  <1>typed. k \in Tasks
    BY <1>1, <1>3, <1>4, <1>5 DEF Tasks, Places
  <1> HIDE DEF r, k
  <1>7. row' \in [Tx -> Rows] /\ row'[t] = r /\ \A u \in Tx \ {t} : row'[u] = row[u]
    BY <1>1, <1>2, <1>6, OneRow
  <1>8. task' \in [Workers -> Tasks] /\ task'[w] = k
        /\ \A v \in Workers \ {w} : task'[v] = task[v]
    BY <1>2, <1>typed, OneTask
  <1> QED  BY <1>7, <1>8 DEF ValidatorAppeal, TypeOK, a, f, b, r, k

LEMMA RejectTask ==
    ASSUME TypeOK, NEW w \in Workers, RejectAppeal(w)
    PROVE  LET t == task[w].tx IN
           /\ TypeOK'
           /\ row'[t] = [row[t] EXCEPT !.status = task[w].was, !.appealed = FALSE]
           /\ \A u \in Tx \ {t} : row'[u] = row[u]
           /\ task'[w] = [task[w] EXCEPT !.pc = "end"]
           /\ \A v \in Workers \ {w} : task'[v] = task[v]
  <1> DEFINE t == task[w].tx
             r == [row[t] EXCEPT !.status = task[w].was, !.appealed = FALSE]
             k == [task[w] EXCEPT !.pc = "end"]
  <1>1. row[t] \in Rows /\ task[w] \in Tasks /\ t \in Tx
    BY RowTyped, TaskTyped DEF Tasks
  <1>2. row' = [row EXCEPT ![t] = r] /\ task' = [task EXCEPT ![w] = k]
    BY Zenon DEF RejectAppeal, Goto, WriteStatus
  <1>3. r \in Rows
    BY <1>1 DEF Rows, Tasks, Status, Eligible, Terminal
  <1>typed. k \in Tasks
    BY <1>1 DEF Tasks, Places
  <1> HIDE DEF r, k
  <1>4. row' \in [Tx -> Rows] /\ row'[t] = r /\ \A u \in Tx \ {t} : row'[u] = row[u]
    BY <1>1, <1>2, <1>3, OneRow
  <1>5. task' \in [Workers -> Tasks] /\ task'[w] = k
        /\ \A v \in Workers \ {w} : task'[v] = task[v]
    BY <1>2, <1>typed, OneTask
  <1> QED  BY <1>4, <1>5 DEF RejectAppeal, TypeOK, r, k

LEMMA ClearTask ==
    ASSUME TypeOK, NEW w \in Workers, Clear(w)
    PROVE  LET t == task[w].tx IN
           /\ TypeOK'
           /\ row'[t] = [row[t] EXCEPT !.snapshot = NoSnapshot]
           /\ \A u \in Tx \ {t} : row'[u] = row[u]
           /\ task'[w] = [task[w] EXCEPT !.pc = "requeue"]
           /\ \A v \in Workers \ {w} : task'[v] = task[v]
  <1> DEFINE t == task[w].tx
             r == [row[t] EXCEPT !.snapshot = NoSnapshot]
             k == [task[w] EXCEPT !.pc = "requeue"]
  <1>1. row[t] \in Rows /\ task[w] \in Tasks /\ t \in Tx
    BY RowTyped, TaskTyped DEF Tasks
  <1>2. row' = [row EXCEPT ![t] = r] /\ task' = [task EXCEPT ![w] = k]
    BY Zenon DEF Clear, Goto, WriteStatus
  <1>3. r \in Rows
    BY <1>1, StatesBuilt DEF Rows, Status, Eligible, Terminal
  <1>typed. k \in Tasks
    BY <1>1, StatesBuilt DEF Tasks, Places
  <1> HIDE DEF r, k
  <1>4. row' \in [Tx -> Rows] /\ row'[t] = r /\ \A u \in Tx \ {t} : row'[u] = row[u]
    BY <1>1, <1>2, <1>3, OneRow
  <1>5. task' \in [Workers -> Tasks] /\ task'[w] = k
        /\ \A v \in Workers \ {w} : task'[v] = task[v]
    BY <1>2, <1>typed, OneTask
  <1> QED  BY <1>4, <1>5 DEF Clear, TypeOK, r, k

LEMMA RequeueTask ==
    ASSUME TypeOK, NEW w \in Workers, Requeue(w)
    PROVE  LET t == task[w].tx IN
           /\ TypeOK'
           /\ row'[t] = [row[t] EXCEPT !.status = "PENDING"]
           /\ \A u \in Tx \ {t} : row'[u] = row[u]
           /\ task'[w] = [task[w] EXCEPT !.pc = "end"]
           /\ \A v \in Workers \ {w} : task'[v] = task[v]
  <1> DEFINE t == task[w].tx
             r == [row[t] EXCEPT !.status = "PENDING"]
             k == [task[w] EXCEPT !.pc = "end"]
  <1>1. row[t] \in Rows /\ task[w] \in Tasks /\ t \in Tx
    BY RowTyped, TaskTyped DEF Tasks
  <1>2. row' = [row EXCEPT ![t] = r] /\ task' = [task EXCEPT ![w] = k]
    BY Zenon DEF Requeue, Goto, WriteStatus
  <1>3. r \in Rows
    BY <1>1 DEF Rows, Status, Eligible, Terminal
  <1>typed. k \in Tasks
    BY <1>1 DEF Tasks, Places
  <1> HIDE DEF r, k
  <1>4. row' \in [Tx -> Rows] /\ row'[t] = r /\ \A u \in Tx \ {t} : row'[u] = row[u]
    BY <1>1, <1>2, <1>3, OneRow
  <1>5. task' \in [Workers -> Tasks] /\ task'[w] = k
        /\ \A v \in Workers \ {w} : task'[v] = task[v]
    BY <1>2, <1>typed, OneTask
  <1> QED  BY <1>4, <1>5 DEF Requeue, TypeOK, r, k

LEMMA FinalizeTask ==
    ASSUME TypeOK, NEW w \in Workers, Finalize(w)
    PROVE  LET t == task[w].tx IN
           /\ TypeOK'
           /\ row'[t] = [row[t] EXCEPT !.status = "FINALIZED"]
           /\ \A u \in Tx \ {t} : row'[u] = row[u]
           /\ task'[w] = [task[w] EXCEPT !.pc = "end"]
           /\ \A v \in Workers \ {w} : task'[v] = task[v]
  <1> DEFINE t == task[w].tx
             r == [row[t] EXCEPT !.status = "FINALIZED"]
             k == [task[w] EXCEPT !.pc = "end"]
  <1>1. row[t] \in Rows /\ task[w] \in Tasks /\ t \in Tx
    BY RowTyped, TaskTyped DEF Tasks
  <1>2. row' = [row EXCEPT ![t] = r] /\ task' = [task EXCEPT ![w] = k]
    BY Zenon DEF Finalize, Goto, WriteStatus
  <1>3. r \in Rows
    BY <1>1 DEF Rows, Status, Eligible, Terminal
  <1>typed. k \in Tasks
    BY <1>1 DEF Tasks, Places
  <1> HIDE DEF r, k
  <1>4. row' \in [Tx -> Rows] /\ row'[t] = r /\ \A u \in Tx \ {t} : row'[u] = row[u]
    BY <1>1, <1>2, <1>3, OneRow
  <1>5. task' \in [Workers -> Tasks] /\ task'[w] = k
        /\ \A v \in Workers \ {w} : task'[v] = task[v]
    BY <1>2, <1>typed, OneTask
  <1> QED  BY <1>4, <1>5 DEF Finalize, TypeOK, r, k

(* The result of the rounds.                                               *)
LEMMA DecideTask ==
    ASSUME TypeOK, NEW w \in Workers, Decide(w)
    PROVE  LET t == task[w].tx IN
           /\ TypeOK'
           /\ \A u \in Tx \ {t} : row'[u] = row[u]
           /\ \E s \in Eligible, ok \in BOOLEAN :
                /\ ok => s = "ACCEPTED" /\ task[w].base # Empty
                /\ task[w].leader /\ s = "ACCEPTED" => "upheld" \in env
                /\ row'[t] = [row[t] EXCEPT !.receipt = TRUE, !.ok = ok,
                                            !.timeoutAppeal = FALSE]
                /\ task'[w] = [task[w] EXCEPT !.pc = "save", !.outcome = s, !.ok = ok]
           /\ \A v \in Workers \ {w} : task'[v] = task[v]
  <1> DEFINE t == task[w].tx
  <1>1. row[t] \in Rows /\ task[w] \in Tasks /\ t \in Tx
    BY RowTyped, TaskTyped DEF Tasks
  <1>2. PICK s \in Eligible, ok \in BOOLEAN :
          /\ ok => s = "ACCEPTED" /\ task[w].base # Empty
          /\ task[w].leader /\ s = "ACCEPTED" => "upheld" \in env
          /\ row' = [row EXCEPT ![task[w].tx].receipt = TRUE, ![task[w].tx].ok = ok,
                                ![task[w].tx].timeoutAppeal = FALSE]
          /\ task' = [task EXCEPT ![w].pc = "save", ![w].outcome = s, ![w].ok = ok]
    BY Zenon DEF Decide
  <1> DEFINE r == [row[t] EXCEPT !.receipt = TRUE, !.ok = ok, !.timeoutAppeal = FALSE]
             k == [task[w] EXCEPT !.pc = "save", !.outcome = s, !.ok = ok]
  <1>3. r \in Rows
    BY <1>1 DEF Rows
  <1>4. k \in Tasks
    BY <1>1 DEF Tasks, Places, Status
  <1>5. row' = [row EXCEPT ![t] = r] /\ task' = [task EXCEPT ![w] = k]
    BY <1>2, Zenon
  <1> HIDE DEF r, k
  <1>6. row' \in [Tx -> Rows] /\ row'[t] = r /\ \A u \in Tx \ {t} : row'[u] = row[u]
    BY <1>1, <1>3, <1>5, OneRow
  <1>7. task' \in [Workers -> Tasks] /\ task'[w] = k
        /\ \A v \in Workers \ {w} : task'[v] = task[v]
    BY <1>4, <1>5, OneTask
  <1>8. TypeOK'
    BY <1>6, <1>7 DEF Decide, TypeOK
  <1>9. row'[t] = [row[t] EXCEPT !.receipt = TRUE, !.ok = ok, !.timeoutAppeal = FALSE]
        /\ task'[w] = [task[w] EXCEPT !.pc = "save", !.outcome = s, !.ok = ok]
    BY <1>6, <1>7 DEF r, k
  <1> QED  BY <1>2, <1>6, <1>7, <1>8, <1>9, Zenon

(* Where a rollback goes on.                                               *)
LEMMA AfterRollbackPlaces ==
    ASSUME NEW w, NEW rest
    PROVE  /\ AfterRollback(w, rest) \in {"rollback", "restore", "end"}
           /\ AfterRollback(w, rest) = "restore" =>
                task[w].kind = "appeal" /\ task[w].was = "ACCEPTED"
  BY DEF AfterRollback

LEMMA ConcludeTask ==
    ASSUME TypeOK, NEW w \in Workers, Conclude(w)
    PROVE  LET t == task[w].tx IN
           /\ TypeOK'
           /\ row'[t].status = task[w].outcome /\ row'[t].ok = row[t].ok
           /\ row'[t].timeoutAppeal = row[t].timeoutAppeal
           /\ row'[t].appealed = row[t].appealed /\ row'[t].flag \in {row[t].flag, "none"}
           /\ \A u \in Tx \ {t} : row'[u] = row[u]
           /\ \E todo \in SUBSET Tx, pc \in {"rollback", "restore", "end"} :
                /\ task'[w] = [task[w] EXCEPT !.pc = pc, !.todo = todo]
                /\ pc # "end" => /\ task[w].outcome = "ACCEPTED"
                                 /\ task[w].kind = "appeal" \/ task[w].late
                /\ pc = "restore" => task[w].kind = "appeal" /\ task[w].was = "ACCEPTED"
           /\ \A v \in Workers \ {w} : task'[v] = task[v]
  <1> DEFINE t == task[w].tx
             rolls == /\ task[w].outcome = "ACCEPTED"
                      /\ task[w].kind = "appeal" \/ (task[w].late /\ ~task[w].leader)
             f == IF task[w].leader THEN "none" ELSE row[t].flag
             r == [row[t] EXCEPT !.status = task[w].outcome, !.flag = f]
             pc == IF rolls THEN AfterRollback(w, Newer(t)) ELSE "end"
             todo == IF rolls THEN Newer(t) ELSE {}
             k == [task[w] EXCEPT !.pc = pc, !.todo = todo]
  <1>1. row[t] \in Rows /\ task[w] \in Tasks /\ t \in Tx
    BY RowTyped, TaskTyped DEF Tasks
  <1>2. row' = [row EXCEPT ![t] = r] /\ task' = [task EXCEPT ![w] = k]
    BY Zenon DEF Conclude
  <1>3. f \in {"none", "undetermined", "timeout"} /\ f \in {row[t].flag, "none"}
    BY <1>1 DEF Rows
  <1>4. todo \in SUBSET Tx
    BY DEF Newer, Others
  <1>5. /\ pc \in {"rollback", "restore", "end"}
        /\ pc = "restore" => task[w].kind = "appeal" /\ task[w].was = "ACCEPTED"
    BY AfterRollbackPlaces
  <1>6. pc # "end" => rolls
    OBVIOUS
  <1> HIDE DEF f, pc, todo
  <1>7. r \in Rows
    BY <1>1, <1>3 DEF Rows, Tasks
  <1>8. k \in Tasks
    BY <1>1, <1>4, <1>5 DEF Tasks, Places
  <1>9. /\ r.status = task[w].outcome /\ r.ok = row[t].ok
        /\ r.timeoutAppeal = row[t].timeoutAppeal
        /\ r.appealed = row[t].appealed /\ r.flag \in {row[t].flag, "none"}
    BY <1>1, <1>3 DEF Rows
  <1>10. \E d \in SUBSET Tx, p \in {"rollback", "restore", "end"} :
           /\ k = [task[w] EXCEPT !.pc = p, !.todo = d]
           /\ p # "end" => /\ task[w].outcome = "ACCEPTED"
                           /\ task[w].kind = "appeal" \/ task[w].late
           /\ p = "restore" => task[w].kind = "appeal" /\ task[w].was = "ACCEPTED"
    BY <1>4, <1>5, <1>6, Zenon
  <1> HIDE DEF r, k
  <1>11. row' \in [Tx -> Rows] /\ row'[t] = r /\ \A u \in Tx \ {t} : row'[u] = row[u]
    BY <1>1, <1>2, <1>7, OneRow
  <1>12. task' \in [Workers -> Tasks] /\ task'[w] = k
         /\ \A v \in Workers \ {w} : task'[v] = task[v]
    BY <1>2, <1>8, OneTask
  <1>13. TypeOK'
    BY <1>11, <1>12 DEF Conclude, TypeOK
  <1> QED  BY <1>9, <1>10, <1>11, <1>12, <1>13, ZenonT(60)

LEMMA UpholdTask ==
    ASSUME TypeOK, NEW w \in Workers, UpholdAppeal(w)
    PROVE  LET t == task[w].tx IN
           /\ TypeOK'
           /\ row'[t].status = row[t].status /\ row'[t].ok = row[t].ok
           /\ \A u \in Tx \ {t} : row'[u] = row[u]
           /\ \E todo \in SUBSET Tx, pc \in {"rollback", "restore", "end", "clear"} :
                /\ task'[w] = [task[w] EXCEPT !.pc = pc, !.todo = todo]
                /\ pc = "restore" => task[w].kind = "appeal" /\ task[w].was = "ACCEPTED"
           /\ \A v \in Workers \ {w} : task'[v] = task[v]
  <1> DEFINE t == task[w].tx
             accepted == task[w].was = "ACCEPTED"
             a == ~accepted
             r == [row[t] EXCEPT !.timeoutAppeal = a]
             pc == IF accepted THEN AfterRollback(w, Newer(t)) ELSE "clear"
             todo == IF accepted THEN Newer(t) ELSE {}
             k == [task[w] EXCEPT !.pc = pc, !.todo = todo]
  <1>1. row[t] \in Rows /\ task[w] \in Tasks /\ t \in Tx
    BY RowTyped, TaskTyped DEF Tasks
  <1>2. row' = [row EXCEPT ![t] = r] /\ task' = [task EXCEPT ![w] = k]
    BY Zenon DEF UpholdAppeal
  <1>3. a \in BOOLEAN
    OBVIOUS
  <1>4. todo \in SUBSET Tx
    BY DEF Newer, Others
  <1>5. /\ pc \in {"rollback", "restore", "end", "clear"}
        /\ pc = "restore" => task[w].kind = "appeal" /\ task[w].was = "ACCEPTED"
    BY AfterRollbackPlaces
  <1> HIDE DEF a, pc, todo
  <1>6. r \in Rows
    BY <1>1, <1>3 DEF Rows
  <1>7. k \in Tasks
    BY <1>1, <1>4, <1>5 DEF Tasks, Places
  <1>8. r.status = row[t].status /\ r.ok = row[t].ok
    BY <1>1 DEF Rows
  <1>9. \E d \in SUBSET Tx, p \in {"rollback", "restore", "end", "clear"} :
           /\ k = [task[w] EXCEPT !.pc = p, !.todo = d]
           /\ p = "restore" => task[w].kind = "appeal" /\ task[w].was = "ACCEPTED"
    BY <1>4, <1>5, Zenon
  <1> HIDE DEF r, k
  <1>10. row' \in [Tx -> Rows] /\ row'[t] = r /\ \A u \in Tx \ {t} : row'[u] = row[u]
    BY <1>1, <1>2, <1>6, OneRow
  <1>11. task' \in [Workers -> Tasks] /\ task'[w] = k
         /\ \A v \in Workers \ {w} : task'[v] = task[v]
    BY <1>2, <1>7, OneTask
  <1>12. TypeOK'
    BY <1>10, <1>11 DEF UpholdAppeal, TypeOK
  <1> QED  BY <1>8, <1>9, <1>10, <1>11, <1>12, Zenon

(* A rolled back row, if there is one, changes its status, or loses its    *)
(* snapshot.                                                               *)
LEMMA RollbackTask ==
    ASSUME TypeOK, NEW w \in Workers, Rollback(w)
    PROVE  /\ TypeOK'
           /\ \A u \in Tx : \/ row'[u] = row[u]
                            \/ row'[u] = [row[u] EXCEPT !.status = "PENDING"]
           /\ task'[w] = [task[w] EXCEPT !.pc = "forget"]
           /\ \A v \in Workers \ {w} : task'[v] = task[v]
  <1> DEFINE o == Oldest(task[w].todo)
  <1>1. row' = [row EXCEPT ![o].status = "PENDING"]
    BY DEF Rollback, WriteStatus
  <1> HIDE DEF o
  <1>2. row' \in [Tx -> Rows]
    <2>1. CASE o \in Tx
      <3>1. WriteStatus(o, "PENDING") /\ "PENDING" \in Status
        BY <1>1 DEF WriteStatus, Status
      <3> QED  BY <2>1, <3>1, StatusRow
    <2>2. CASE o \notin Tx
      <3>1. row' = row
        BY <1>1, <2>2 DEF TypeOK
      <3> QED  BY <3>1 DEF TypeOK
    <2> QED  BY <2>1, <2>2
  <1>3. \A u \in Tx : row'[u] = row[u] \/ row'[u] = [row[u] EXCEPT !.status = "PENDING"]
    BY <1>1 DEF TypeOK
  <1>4. /\ task' \in [Workers -> Tasks]
        /\ task'[w] = [task[w] EXCEPT !.pc = "forget"]
        /\ \A v \in Workers \ {w} : task'[v] = task[v]
    BY GotoTask DEF Rollback, Places
  <1> QED  BY <1>2, <1>3, <1>4 DEF Rollback, TypeOK

LEMMA ForgetTask ==
    ASSUME TypeOK, NEW w \in Workers, Forget(w)
    PROVE  /\ TypeOK'
           /\ \A u \in Tx : \/ row'[u] = row[u]
                            \/ row'[u] = [row[u] EXCEPT !.snapshot = NoSnapshot]
           /\ \E todo \in SUBSET Tx, pc \in {"rollback", "restore", "end"} :
                /\ task'[w] = [task[w] EXCEPT !.pc = pc, !.todo = todo]
                /\ pc = "restore" => task[w].kind = "appeal" /\ task[w].was = "ACCEPTED"
           /\ \A v \in Workers \ {w} : task'[v] = task[v]
  <1> DEFINE o    == Oldest(task[w].todo)
             todo == task[w].todo \ {o}
             pc   == AfterRollback(w, task[w].todo \ {o})
             k    == [task[w] EXCEPT !.pc = pc, !.todo = todo]
  <1>1. task[w] \in Tasks
    BY TaskTyped
  <1>2. row' = [row EXCEPT ![o].snapshot = NoSnapshot] /\ task' = [task EXCEPT ![w] = k]
    BY Zenon DEF Forget
  <1>3. todo \in SUBSET Tx
    BY <1>1 DEF Tasks
  <1>4. /\ pc \in {"rollback", "restore", "end"}
        /\ pc = "restore" => task[w].kind = "appeal" /\ task[w].was = "ACCEPTED"
    BY AfterRollbackPlaces
  <1> HIDE DEF o, pc, todo
  <1>5. row' \in [Tx -> Rows]
    <2>1. CASE o \in Tx
      <3>1. [row[o] EXCEPT !.snapshot = NoSnapshot] \in Rows
        BY <2>1, RowTyped, StatesBuilt DEF Rows
      <3>2. row' = [row EXCEPT ![o] = [row[o] EXCEPT !.snapshot = NoSnapshot]]
        BY <1>2, Zenon
      <3> QED  BY <2>1, <3>1, <3>2, OneRow
    <2>2. CASE o \notin Tx
      <3>1. row' = row
        BY <1>2, <2>2 DEF TypeOK
      <3> QED  BY <3>1 DEF TypeOK
    <2> QED  BY <2>1, <2>2
  <1>6. \A u \in Tx : \/ row'[u] = row[u]
                      \/ row'[u] = [row[u] EXCEPT !.snapshot = NoSnapshot]
    BY <1>2 DEF TypeOK
  <1>7. k \in Tasks
    BY <1>1, <1>3, <1>4 DEF Tasks, Places
  <1>8. \E d \in SUBSET Tx, p \in {"rollback", "restore", "end"} :
           /\ k = [task[w] EXCEPT !.pc = p, !.todo = d]
           /\ p = "restore" => task[w].kind = "appeal" /\ task[w].was = "ACCEPTED"
    BY <1>3, <1>4, Zenon
  <1> HIDE DEF k
  <1>9. task' \in [Workers -> Tasks] /\ task'[w] = k
        /\ \A v \in Workers \ {w} : task'[v] = task[v]
    BY <1>2, <1>7, OneTask
  <1>10. TypeOK'
    BY <1>5, <1>9 DEF Forget, TypeOK
  <1> QED  BY <1>6, <1>8, <1>9, <1>10, Zenon

(* The writes of the state of the contract.                                *)
LEMMA WriteTask ==
    ASSUME TypeOK, NEW w \in Workers, WriteAccepted(w)
    PROVE  /\ TypeOK'
           /\ state'.accepted = Append(task[w].base, task[w].tx)
           /\ state'.finalized = state.finalized
           /\ task'[w] = [task[w] EXCEPT !.pc = "status"]
           /\ \A v \in Workers \ {w} : task'[v] = task[v]
  <1>1. task[w].base \in States /\ task[w].tx \in Tx
    BY TaskTyped DEF Tasks
  <1>2. Append(task[w].base, task[w].tx) \in States
    BY <1>1, StatesBuilt
  <1>3. /\ state' \in [accepted : States, finalized : States]
        /\ state'.accepted = Append(task[w].base, task[w].tx)
        /\ state'.finalized = state.finalized
    BY <1>2 DEF WriteAccepted, SetAccepted, TypeOK
  <1>4. /\ task' \in [Workers -> Tasks]
        /\ task'[w] = [task[w] EXCEPT !.pc = "status"]
        /\ \A v \in Workers \ {w} : task'[v] = task[v]
    BY GotoTask DEF WriteAccepted, Places
  <1> QED  BY <1>3, <1>4 DEF WriteAccepted, TypeOK

LEMMA RestoreTask ==
    ASSUME TypeOK, NEW w \in Workers, Restore(w)
    PROVE  /\ TypeOK'
           /\ state'.accepted = IF task[w].saved # NoSnapshot THEN task[w].saved ELSE Empty
           /\ state'.finalized = state.finalized
           /\ task'[w] = [task[w] EXCEPT !.pc = "clear"]
           /\ \A v \in Workers \ {w} : task'[v] = task[v]
  <1> DEFINE s == IF task[w].saved # NoSnapshot THEN task[w].saved ELSE Empty
  <1>1. s \in States
    BY TaskTyped, StatesBuilt DEF Tasks
  <1>2. state' = [state EXCEPT !.accepted = s]
    BY DEF Restore, SetAccepted
  <1> HIDE DEF s
  <1>3. /\ state' \in [accepted : States, finalized : States]
        /\ state'.accepted = s
        /\ state'.finalized = state.finalized
    BY <1>1, <1>2 DEF TypeOK
  <1>4. /\ task' \in [Workers -> Tasks]
        /\ task'[w] = [task[w] EXCEPT !.pc = "clear"]
        /\ \A v \in Workers \ {w} : task'[v] = task[v]
    BY GotoTask DEF Restore, Places
  <1> QED  BY <1>3, <1>4 DEF Restore, TypeOK, s

LEMMA PromoteTask ==
    ASSUME TypeOK, NEW w \in Workers, Promote(w)
    PROVE  /\ TypeOK'
           /\ state'.finalized = task[w].base
           /\ state'.accepted = state.accepted
           /\ task'[w] = [task[w] EXCEPT !.pc = "final"]
           /\ \A v \in Workers \ {w} : task'[v] = task[v]
  <1>1. task[w].base \in States
    BY TaskTyped DEF Tasks
  <1>2. /\ state' \in [accepted : States, finalized : States]
        /\ state'.finalized = task[w].base
        /\ state'.accepted = state.accepted
    BY <1>1 DEF Promote, SetFinalized, TypeOK
  <1>3. /\ task' \in [Workers -> Tasks]
        /\ task'[w] = [task[w] EXCEPT !.pc = "final"]
        /\ \A v \in Workers \ {w} : task'[v] = task[v]
    BY GotoTask DEF Promote, Places
  <1> QED  BY <1>2, <1>3 DEF Promote, TypeOK

(* What a finalization reads.                                              *)
LEMMA ReadTask ==
    ASSUME TypeOK, NEW w \in Workers, ReadAccepted(w)
    PROVE  /\ TypeOK'
           /\ task'[w] = [task[w] EXCEPT !.pc = IF Promotes(w) THEN "promote" ELSE "final",
                                         !.base = state.accepted]
           /\ \A v \in Workers \ {w} : task'[v] = task[v]
  <1> DEFINE pc == IF Promotes(w) THEN "promote" ELSE "final"
             k  == [task[w] EXCEPT !.pc = pc, !.base = state.accepted]
  <1>1. task[w] \in Tasks
    BY TaskTyped
  <1>2. task' = [task EXCEPT ![w] = k]
    BY Zenon DEF ReadAccepted
  <1>3. pc \in Places
    BY DEF Places
  <1> HIDE DEF pc
  <1>4. k \in Tasks
    BY <1>1, <1>3 DEF Tasks, TypeOK
  <1> HIDE DEF k
  <1>5. task' \in [Workers -> Tasks] /\ task'[w] = k
        /\ \A v \in Workers \ {w} : task'[v] = task[v]
    BY <1>2, <1>4, OneTask
  <1> QED  BY <1>5 DEF ReadAccepted, TypeOK, k, pc

LEMMA MissingTask ==
    ASSUME TypeOK, NEW w \in Workers, MissingAccepted(w)
    PROVE  LET t == task[w].tx IN
           /\ TypeOK'
           /\ \E s \in {"ACCEPTED", "CANCELED"} : row'[t] = [row[t] EXCEPT !.status = s]
           /\ \A u \in Tx \ {t} : row'[u] = row[u]
           /\ task'[w] = [task[w] EXCEPT !.pc = "end"]
           /\ \A v \in Workers \ {w} : task'[v] = task[v]
  <1> DEFINE t == task[w].tx
  <1>1. t \in Tx
    BY TaskTyped DEF Tasks
  <1>2. PICK s \in {"ACCEPTED", "CANCELED"} : WriteStatus(t, s)
    BY Zenon DEF MissingAccepted, WriteStatus
  <1>3. s \in Status
    BY DEF Status, Eligible, Terminal
  <1>4. row' \in [Tx -> Rows] /\ row'[t] = [row[t] EXCEPT !.status = s]
        /\ \A u \in Tx \ {t} : row'[u] = row[u]
    BY <1>1, <1>2, <1>3, StatusRow
  <1>5. /\ task' \in [Workers -> Tasks]
        /\ task'[w] = [task[w] EXCEPT !.pc = "end"]
        /\ \A v \in Workers \ {w} : task'[v] = task[v]
    BY GotoTask DEF MissingAccepted, Places
  <1> QED  BY <1>4, <1>5 DEF MissingAccepted, TypeOK

-----------------------------------------------------------------------------
(* Every step is one of these.                                             *)

LEMMA StepTypes ==
    ASSUME TypeOK, NEW w \in Workers, Step(w)
    PROVE  TypeOK'
  BY BeginTask, ProgressTask, DecideTask, SaveTask, WriteTask, ConcludeTask, RollbackTask,
     ForgetTask, AppealFailsTask, LeaderAppealTask, ValidatorAppealTask, RejectTask,
     UpholdTask, RestoreTask, ClearTask, RequeueTask, ReadTask, MissingTask, PromoteTask,
     FinalizeTask, FinishTask, CrashTask, ErrorTask, Zenon DEF Step

LEMMA InitTyped == Init => TypeOK
  <1> SUFFICES ASSUME Init PROVE TypeOK
    OBVIOUS
  <1>1. NewRow \in Rows
    BY StatesBuilt DEF NewRow, Rows, Status
  <1> QED  BY <1>1, NoTaskTyped, StatesBuilt, StateAssumption DEF Init, TypeOK

(* The types hold in every state of every execution.                       *)
THEOREM TypeCorrect == Spec => []TypeOK
  <1>1. Init => TypeOK
    BY InitTyped
  <1>2. TypeOK /\ [Next]_vars => TypeOK'
    <2> SUFFICES ASSUME TypeOK, [Next]_vars PROVE TypeOK'
      OBVIOUS
    <2>1. CASE UNCHANGED vars
      BY <2>1 DEF vars, TypeOK
    <2>2. CASE Next
      BY <2>2, SubmitRow, CancelRow, AppealRow, RecoverRow, OrphanTyped, StepTypes,
         ClaimTask, Zenon DEF Next
    <2> QED  BY <2>1, <2>2
  <1> QED  BY <1>1, <1>2, PTL DEF Spec

-----------------------------------------------------------------------------
(* Who works on what.                                                      *)

Working(w) == task[w].pc # "idle"
Ends(w)    == Finish(w) \/ Crash(w) \/ LeaderError(w)

(* A task has a live lease on a row that is there; two tasks have          *)
(* different rows, and one of them is an appeal.                           *)
LeaseInv ==
    /\ \A w \in Workers : task[w].was # "ABSENT" /\ task[w].outcome # "ABSENT"
    /\ \A w \in Workers : Working(w) => Live(task[w].tx) /\ Present(task[w].tx)
    /\ \A v, w \in Workers : v # w /\ Working(v) /\ Working(w) =>
          /\ task[v].tx # task[w].tx
          /\ "parallel" \in env
          /\ task[v].kind = "appeal" \/ task[w].kind = "appeal"

(* What every step of a task but its end leaves alone.                     *)
LEMMA StepFrame ==
    ASSUME TypeOK, LeaseInv, NEW w \in Workers, Step(w), ~Ends(w)
    PROVE  /\ TypeOK' /\ env' = env /\ lease' = lease /\ used' = used
           /\ Working(w) /\ task'[w].pc # "idle"
           /\ task'[w].tx = task[w].tx /\ task'[w].kind = task[w].kind
           /\ task'[w].was = task[w].was /\ task'[w].outcome # "ABSENT"
           /\ \A v \in Workers \ {w} : task'[v] = task[v]
           /\ \A u \in Tx : Present(u) => Present(u)'
  <1> DEFINE t == task[w].tx
  <1>0. /\ task[w] \in Tasks /\ t \in Tx
        /\ \A u \in Tx : row[u] \in Rows
        /\ task[w].was # "ABSENT" /\ task[w].outcome # "ABSENT"
    BY TaskTyped, RowTyped DEF Tasks, LeaseInv
  <1>1. CASE Begin(w)
    <2>1. /\ env' = env /\ lease' = lease /\ used' = used /\ task[w].pc # "idle"
          /\ TypeOK' /\ \A v \in Workers \ {w} : task'[v] = task[v]
          /\ \A u \in Tx \ {t} : row'[u] = row[u]
      BY <1>1, BeginTask, Zenon DEF Begin, At
    <2>2. PICK l \in BOOLEAN :
            /\ row'[t].status = "PROCESSING"
            /\ task'[w] = [task[w] EXCEPT !.pc = "run", !.leader = l,
                                           !.base = ContextBase(task[w].saved),
                                           !.saved = row[t].snapshot,
                                           !.late = row[t].timeoutAppeal]
      BY <1>1, BeginTask, Zenon
    <2>3. /\ task'[w].pc # "idle" /\ task'[w].tx = t /\ task'[w].kind = task[w].kind
          /\ task'[w].was = task[w].was /\ task'[w].outcome # "ABSENT"
      BY <1>0, <2>2 DEF Tasks, Eligible
    <2>4. Present(t) => row'[t].status # "ABSENT"
      BY <1>0, <2>2 DEF Rows, Present
    <2>5. \A u \in Tx : Present(u) => Present(u)'
      BY <2>1, <2>4 DEF Present
    <2> QED  BY <2>1, <2>3, <2>5 DEF Working
  <1>2. CASE Progress(w)
    <2>1. /\ env' = env /\ lease' = lease /\ used' = used /\ task[w].pc # "idle"
          /\ TypeOK' /\ \A v \in Workers \ {w} : task'[v] = task[v]
          /\ \A u \in Tx \ {t} : row'[u] = row[u]
      BY <1>2, ProgressTask DEF Progress
    <2>2. /\ row'[t] = [row[t] EXCEPT !.status = "PROCESSING"]
          /\ task' = task
      BY <1>2, ProgressTask DEF Progress
    <2>3. /\ task'[w].pc # "idle" /\ task'[w].tx = t /\ task'[w].kind = task[w].kind
          /\ task'[w].was = task[w].was /\ task'[w].outcome # "ABSENT"
      BY <1>0, <2>1, <2>2
    <2>4. Present(t) => row'[t].status # "ABSENT"
      BY <1>0, <2>2 DEF Rows, Present
    <2>5. \A u \in Tx : Present(u) => Present(u)'
      BY <2>1, <2>4 DEF Present
    <2> QED  BY <2>1, <2>3, <2>5 DEF Working
  <1>3. CASE Decide(w)
    <2>1. /\ env' = env /\ lease' = lease /\ used' = used /\ task[w].pc # "idle"
          /\ TypeOK' /\ \A v \in Workers \ {w} : task'[v] = task[v]
          /\ \A u \in Tx \ {t} : row'[u] = row[u]
      BY <1>3, DecideTask, Zenon DEF Decide
    <2>2. PICK s \in Eligible, ok \in BOOLEAN :
            /\ ok => s = "ACCEPTED" /\ task[w].base # Empty
            /\ task[w].leader /\ s = "ACCEPTED" => "upheld" \in env
            /\ row'[t] = [row[t] EXCEPT !.receipt = TRUE, !.ok = ok,
                                         !.timeoutAppeal = FALSE]
            /\ task'[w] = [task[w] EXCEPT !.pc = "save", !.outcome = s, !.ok = ok]
      BY <1>3, DecideTask, Zenon
    <2>3. /\ task'[w].pc # "idle" /\ task'[w].tx = t /\ task'[w].kind = task[w].kind
          /\ task'[w].was = task[w].was /\ task'[w].outcome # "ABSENT"
      BY <1>0, <2>2 DEF Tasks, Eligible
    <2>4. Present(t) => row'[t].status # "ABSENT"
      BY <1>0, <2>2 DEF Rows, Present
    <2>5. \A u \in Tx : Present(u) => Present(u)'
      BY <2>1, <2>4 DEF Present
    <2> QED  BY <2>1, <2>3, <2>5 DEF Working
  <1>4. CASE Save(w)
    <2>1. /\ env' = env /\ lease' = lease /\ used' = used /\ task[w].pc # "idle"
          /\ TypeOK' /\ \A v \in Workers \ {w} : task'[v] = task[v]
          /\ \A u \in Tx \ {t} : row'[u] = row[u]
      BY <1>4, SaveTask DEF Save
    <2>2. /\ row'[t] = [row[t] EXCEPT !.snapshot =
                           IF task[w].saved = NoSnapshot THEN task[w].base ELSE task[w].saved]
          /\ task'[w] = [task[w] EXCEPT !.pc = IF task[w].ok THEN "write" ELSE "status"]
      BY <1>4, SaveTask, Zenon
    <2>3. /\ task'[w].pc # "idle" /\ task'[w].tx = t /\ task'[w].kind = task[w].kind
          /\ task'[w].was = task[w].was /\ task'[w].outcome # "ABSENT"
      BY <1>0, <2>2 DEF Tasks, Eligible
    <2>4. Present(t) => row'[t].status # "ABSENT"
      BY <1>0, <2>2 DEF Rows, Present
    <2>5. \A u \in Tx : Present(u) => Present(u)'
      BY <2>1, <2>4 DEF Present
    <2> QED  BY <2>1, <2>3, <2>5 DEF Working
  <1>5. CASE WriteAccepted(w)
    <2>1. /\ env' = env /\ lease' = lease /\ used' = used /\ task[w].pc # "idle"
          /\ TypeOK' /\ \A v \in Workers \ {w} : task'[v] = task[v]
          /\ row' = row
      BY <1>5, WriteTask, Zenon DEF WriteAccepted
    <2>2. /\ task'[w] = [task[w] EXCEPT !.pc = "status"]
      BY <1>5, WriteTask, Zenon
    <2>3. /\ task'[w].pc # "idle" /\ task'[w].tx = t /\ task'[w].kind = task[w].kind
          /\ task'[w].was = task[w].was /\ task'[w].outcome # "ABSENT"
      BY <1>0, <2>2 DEF Tasks, Eligible
    <2>4. \A u \in Tx : Present(u) => Present(u)'
      BY <1>0, <2>1, <2>2 DEF Rows, Present
    <2> QED  BY <2>1, <2>3, <2>4 DEF Working
  <1>6. CASE Conclude(w)
    <2>1. /\ env' = env /\ lease' = lease /\ used' = used /\ task[w].pc # "idle"
          /\ TypeOK' /\ \A v \in Workers \ {w} : task'[v] = task[v]
          /\ row'[t].status = task[w].outcome /\ \A u \in Tx \ {t} : row'[u] = row[u]
      BY <1>6, ConcludeTask, Zenon DEF Conclude
    <2>2. PICK todo \in SUBSET Tx, pc \in {"rollback", "restore", "end"} :
            /\ task'[w] = [task[w] EXCEPT !.pc = pc, !.todo = todo]
            /\ pc # "end" => /\ task[w].outcome = "ACCEPTED"
                             /\ task[w].kind = "appeal" \/ task[w].late
            /\ pc = "restore" => task[w].kind = "appeal" /\ task[w].was = "ACCEPTED"
      BY <1>6, ConcludeTask, Zenon
    <2>3. /\ task'[w].pc # "idle" /\ task'[w].tx = t /\ task'[w].kind = task[w].kind
          /\ task'[w].was = task[w].was /\ task'[w].outcome # "ABSENT"
      BY <1>0, <2>2 DEF Tasks, Eligible
    <2>4. Present(t) => row'[t].status # "ABSENT"
      BY <1>0, <2>1 DEF Present
    <2>5. \A u \in Tx : Present(u) => Present(u)'
      BY <2>1, <2>4 DEF Present
    <2> QED  BY <2>1, <2>3, <2>5 DEF Working
  <1>7. CASE Rollback(w)
    <2>1. /\ env' = env /\ lease' = lease /\ used' = used /\ task[w].pc # "idle"
          /\ TypeOK' /\ \A v \in Workers \ {w} : task'[v] = task[v]
      BY <1>7, RollbackTask DEF Rollback
    <2>2. /\ \A u \in Tx : row'[u] = row[u] \/ row'[u] = [row[u] EXCEPT !.status = "PENDING"]
          /\ task'[w] = [task[w] EXCEPT !.pc = "forget"]
      BY <1>7, RollbackTask, Zenon
    <2>3. /\ task'[w].pc # "idle" /\ task'[w].tx = t /\ task'[w].kind = task[w].kind
          /\ task'[w].was = task[w].was /\ task'[w].outcome # "ABSENT"
      BY <1>0, <2>2 DEF Tasks, Eligible
    <2>4. \A u \in Tx : Present(u) => Present(u)'
      BY <1>0, <2>1, <2>2 DEF Rows, Present
    <2> QED  BY <2>1, <2>3, <2>4 DEF Working
  <1>8. CASE Forget(w)
    <2>1. /\ env' = env /\ lease' = lease /\ used' = used /\ task[w].pc # "idle"
          /\ TypeOK' /\ \A v \in Workers \ {w} : task'[v] = task[v]
          /\ \A u \in Tx : \/ row'[u] = row[u]
                           \/ row'[u] = [row[u] EXCEPT !.snapshot = NoSnapshot]
      BY <1>8, ForgetTask, Zenon DEF Forget
    <2>2. PICK todo \in SUBSET Tx, pc \in {"rollback", "restore", "end"} :
            /\ task'[w] = [task[w] EXCEPT !.pc = pc, !.todo = todo]
            /\ pc = "restore" => task[w].kind = "appeal" /\ task[w].was = "ACCEPTED"
      BY <1>8, ForgetTask, Zenon
    <2>3. /\ task'[w].pc # "idle" /\ task'[w].tx = t /\ task'[w].kind = task[w].kind
          /\ task'[w].was = task[w].was /\ task'[w].outcome # "ABSENT"
      BY <1>0, <2>2 DEF Tasks, Eligible
    <2>4. \A u \in Tx : Present(u) => Present(u)'
      <3>1. ASSUME NEW u \in Tx PROVE row'[u].status = row[u].status
        <4>1. row[u] \in Rows
          BY <1>0
        <4>2. row'[u] = row[u] \/ row'[u] = [row[u] EXCEPT !.snapshot = NoSnapshot]
          BY <2>1
        <4> QED  BY <4>1, <4>2 DEF Rows
      <3> QED  BY <3>1, Zenon DEF Present
    <2> QED  BY <2>1, <2>3, <2>4 DEF Working
  <1>9. CASE AppealFails(w)
    <2>1. /\ env' = env /\ lease' = lease /\ used' = used /\ task[w].pc # "idle"
          /\ TypeOK' /\ \A v \in Workers \ {w} : task'[v] = task[v]
          /\ \A u \in Tx \ {t} : row'[u] = row[u]
      BY <1>9, AppealFailsTask DEF AppealFails, At
    <2>2. /\ row'[t] = [row[t] EXCEPT !.appealed = FALSE]
          /\ task'[w] = [task[w] EXCEPT !.pc = "end"]
      BY <1>9, AppealFailsTask, Zenon
    <2>3. /\ task'[w].pc # "idle" /\ task'[w].tx = t /\ task'[w].kind = task[w].kind
          /\ task'[w].was = task[w].was /\ task'[w].outcome # "ABSENT"
      BY <1>0, <2>2 DEF Tasks, Eligible
    <2>4. Present(t) => row'[t].status # "ABSENT"
      BY <1>0, <2>2 DEF Rows, Present
    <2>5. \A u \in Tx : Present(u) => Present(u)'
      BY <2>1, <2>4 DEF Present
    <2> QED  BY <2>1, <2>3, <2>5 DEF Working
  <1>10. CASE LeaderAppeal(w)
    <2>1. /\ env' = env /\ lease' = lease /\ used' = used /\ task[w].pc # "idle"
          /\ TypeOK' /\ \A v \in Workers \ {w} : task'[v] = task[v]
          /\ \A u \in Tx \ {t} : row'[u] = row[u]
      BY <1>10, LeaderAppealTask, Zenon DEF LeaderAppeal, At
    <2>2. /\ row'[t] = [row[t] EXCEPT !.appealed = FALSE, !.flag = "undetermined",
                                       !.status = "PROCESSING"]
          /\ task'[w] = [task[w] EXCEPT !.pc = "run", !.leader = TRUE,
                                         !.base = ContextBase(task[w].saved),
                                         !.saved = row[t].snapshot,
                                         !.late = row[t].timeoutAppeal]
      BY <1>10, LeaderAppealTask, Zenon
    <2>3. /\ task'[w].pc # "idle" /\ task'[w].tx = t /\ task'[w].kind = task[w].kind
          /\ task'[w].was = task[w].was /\ task'[w].outcome # "ABSENT"
      BY <1>0, <2>2 DEF Tasks, Eligible
    <2>4. Present(t) => row'[t].status # "ABSENT"
      BY <1>0, <2>2 DEF Rows, Present
    <2>5. \A u \in Tx : Present(u) => Present(u)'
      BY <2>1, <2>4 DEF Present
    <2> QED  BY <2>1, <2>3, <2>5 DEF Working
  <1>11. CASE ValidatorAppeal(w)
    <2>1. /\ env' = env /\ lease' = lease /\ used' = used /\ task[w].pc # "idle"
          /\ TypeOK' /\ \A v \in Workers \ {w} : task'[v] = task[v]
          /\ \A u \in Tx \ {t} : row'[u] = row[u]
      BY <1>11, ValidatorAppealTask, Zenon DEF ValidatorAppeal, At
    <2>2. /\ row'[t] = [row[t] EXCEPT !.status = "PROCESSING",
                 !.appealed = ~(task[w].was = "VALIDATORS_TIMEOUT"),
                 !.flag = IF task[w].was = "VALIDATORS_TIMEOUT" THEN "timeout" ELSE row[t].flag]
          /\ task'[w] = [task[w] EXCEPT !.pc = "vote", !.base = ContextBase(task[w].saved)]
      BY <1>11, ValidatorAppealTask, Zenon
    <2>3. /\ task'[w].pc # "idle" /\ task'[w].tx = t /\ task'[w].kind = task[w].kind
          /\ task'[w].was = task[w].was /\ task'[w].outcome # "ABSENT"
      BY <1>0, <2>2 DEF Tasks, Eligible
    <2>4. Present(t) => row'[t].status # "ABSENT"
      BY <1>0, <2>2 DEF Rows, Present
    <2>5. \A u \in Tx : Present(u) => Present(u)'
      BY <2>1, <2>4 DEF Present
    <2> QED  BY <2>1, <2>3, <2>5 DEF Working
  <1>12. CASE RejectAppeal(w)
    <2>1. /\ env' = env /\ lease' = lease /\ used' = used /\ task[w].pc # "idle"
          /\ TypeOK' /\ \A v \in Workers \ {w} : task'[v] = task[v]
          /\ \A u \in Tx \ {t} : row'[u] = row[u]
      BY <1>12, RejectTask, Zenon DEF RejectAppeal
    <2>2. /\ row'[t] = [row[t] EXCEPT !.status = task[w].was, !.appealed = FALSE]
          /\ task'[w] = [task[w] EXCEPT !.pc = "end"]
      BY <1>12, RejectTask, Zenon
    <2>3. /\ task'[w].pc # "idle" /\ task'[w].tx = t /\ task'[w].kind = task[w].kind
          /\ task'[w].was = task[w].was /\ task'[w].outcome # "ABSENT"
      BY <1>0, <2>2 DEF Tasks, Eligible
    <2>4. Present(t) => row'[t].status # "ABSENT"
      BY <1>0, <2>2 DEF Rows, Present
    <2>5. \A u \in Tx : Present(u) => Present(u)'
      BY <2>1, <2>4 DEF Present
    <2> QED  BY <2>1, <2>3, <2>5 DEF Working
  <1>13. CASE UpholdAppeal(w)
    <2>1. /\ env' = env /\ lease' = lease /\ used' = used /\ task[w].pc # "idle"
          /\ TypeOK' /\ \A v \in Workers \ {w} : task'[v] = task[v]
          /\ row'[t].status = row[t].status /\ \A u \in Tx \ {t} : row'[u] = row[u]
      BY <1>13, UpholdTask, Zenon DEF UpholdAppeal
    <2>2. PICK todo \in SUBSET Tx, pc \in {"rollback", "restore", "end", "clear"} :
            /\ task'[w] = [task[w] EXCEPT !.pc = pc, !.todo = todo]
            /\ pc = "restore" => task[w].kind = "appeal" /\ task[w].was = "ACCEPTED"
      BY <1>13, UpholdTask, Zenon
    <2>3. /\ task'[w].pc # "idle" /\ task'[w].tx = t /\ task'[w].kind = task[w].kind
          /\ task'[w].was = task[w].was /\ task'[w].outcome # "ABSENT"
      BY <1>0, <2>2 DEF Tasks, Eligible
    <2>4. Present(t) => row'[t].status # "ABSENT"
      BY <1>0, <2>1 DEF Present
    <2>5. \A u \in Tx : Present(u) => Present(u)'
      BY <2>1, <2>4 DEF Present
    <2> QED  BY <2>1, <2>3, <2>5 DEF Working
  <1>14. CASE Restore(w)
    <2>1. /\ env' = env /\ lease' = lease /\ used' = used /\ task[w].pc # "idle"
          /\ TypeOK' /\ \A v \in Workers \ {w} : task'[v] = task[v]
          /\ row' = row
      BY <1>14, RestoreTask DEF Restore
    <2>2. /\ task'[w] = [task[w] EXCEPT !.pc = "clear"]
      BY <1>14, RestoreTask, Zenon
    <2>3. /\ task'[w].pc # "idle" /\ task'[w].tx = t /\ task'[w].kind = task[w].kind
          /\ task'[w].was = task[w].was /\ task'[w].outcome # "ABSENT"
      BY <1>0, <2>2 DEF Tasks, Eligible
    <2>4. \A u \in Tx : Present(u) => Present(u)'
      BY <1>0, <2>1, <2>2 DEF Rows, Present
    <2> QED  BY <2>1, <2>3, <2>4 DEF Working
  <1>15. CASE Clear(w)
    <2>1. /\ env' = env /\ lease' = lease /\ used' = used /\ task[w].pc # "idle"
          /\ TypeOK' /\ \A v \in Workers \ {w} : task'[v] = task[v]
          /\ \A u \in Tx \ {t} : row'[u] = row[u]
      BY <1>15, ClearTask DEF Clear
    <2>2. /\ row'[t] = [row[t] EXCEPT !.snapshot = NoSnapshot]
          /\ task'[w] = [task[w] EXCEPT !.pc = "requeue"]
      BY <1>15, ClearTask, Zenon
    <2>3. /\ task'[w].pc # "idle" /\ task'[w].tx = t /\ task'[w].kind = task[w].kind
          /\ task'[w].was = task[w].was /\ task'[w].outcome # "ABSENT"
      BY <1>0, <2>2 DEF Tasks, Eligible
    <2>4. Present(t) => row'[t].status # "ABSENT"
      BY <1>0, <2>2 DEF Rows, Present
    <2>5. \A u \in Tx : Present(u) => Present(u)'
      BY <2>1, <2>4 DEF Present
    <2> QED  BY <2>1, <2>3, <2>5 DEF Working
  <1>16. CASE Requeue(w)
    <2>1. /\ env' = env /\ lease' = lease /\ used' = used /\ task[w].pc # "idle"
          /\ TypeOK' /\ \A v \in Workers \ {w} : task'[v] = task[v]
          /\ \A u \in Tx \ {t} : row'[u] = row[u]
      BY <1>16, RequeueTask DEF Requeue
    <2>2. /\ row'[t] = [row[t] EXCEPT !.status = "PENDING"]
          /\ task'[w] = [task[w] EXCEPT !.pc = "end"]
      BY <1>16, RequeueTask, Zenon
    <2>3. /\ task'[w].pc # "idle" /\ task'[w].tx = t /\ task'[w].kind = task[w].kind
          /\ task'[w].was = task[w].was /\ task'[w].outcome # "ABSENT"
      BY <1>0, <2>2 DEF Tasks, Eligible
    <2>4. Present(t) => row'[t].status # "ABSENT"
      BY <1>0, <2>2 DEF Rows, Present
    <2>5. \A u \in Tx : Present(u) => Present(u)'
      BY <2>1, <2>4 DEF Present
    <2> QED  BY <2>1, <2>3, <2>5 DEF Working
  <1>17. CASE ReadAccepted(w)
    <2>1. /\ env' = env /\ lease' = lease /\ used' = used /\ task[w].pc # "idle"
          /\ TypeOK' /\ \A v \in Workers \ {w} : task'[v] = task[v]
          /\ row' = row
      BY <1>17, ReadTask, Zenon DEF ReadAccepted, At
    <2>2. PICK pc \in {"promote", "final"} :
            /\ task'[w] = [task[w] EXCEPT !.pc = pc, !.base = state.accepted]
      BY <1>17, ReadTask, Zenon
    <2>3. /\ task'[w].pc # "idle" /\ task'[w].tx = t /\ task'[w].kind = task[w].kind
          /\ task'[w].was = task[w].was /\ task'[w].outcome # "ABSENT"
      BY <1>0, <2>2 DEF Tasks, Eligible
    <2>4. \A u \in Tx : Present(u) => Present(u)'
      BY <1>0, <2>1, <2>2 DEF Rows, Present
    <2> QED  BY <2>1, <2>3, <2>4 DEF Working
  <1>18. CASE MissingAccepted(w)
    <2>1. /\ env' = env /\ lease' = lease /\ used' = used /\ task[w].pc # "idle"
          /\ TypeOK' /\ \A v \in Workers \ {w} : task'[v] = task[v]
          /\ \A u \in Tx \ {t} : row'[u] = row[u]
      BY <1>18, MissingTask DEF MissingAccepted, At
    <2>2. PICK s \in {"ACCEPTED", "CANCELED"} :
            /\ row'[t] = [row[t] EXCEPT !.status = s]
            /\ task'[w] = [task[w] EXCEPT !.pc = "end"]
      BY <1>18, MissingTask, Zenon
    <2>3. /\ task'[w].pc # "idle" /\ task'[w].tx = t /\ task'[w].kind = task[w].kind
          /\ task'[w].was = task[w].was /\ task'[w].outcome # "ABSENT"
      BY <1>0, <2>2 DEF Tasks, Eligible
    <2>4. Present(t) => row'[t].status # "ABSENT"
      BY <1>0, <2>2 DEF Rows, Present
    <2>5. \A u \in Tx : Present(u) => Present(u)'
      BY <2>1, <2>4 DEF Present
    <2> QED  BY <2>1, <2>3, <2>5 DEF Working
  <1>19. CASE Promote(w)
    <2>1. /\ env' = env /\ lease' = lease /\ used' = used /\ task[w].pc # "idle"
          /\ TypeOK' /\ \A v \in Workers \ {w} : task'[v] = task[v]
          /\ row' = row
      BY <1>19, PromoteTask DEF Promote
    <2>2. /\ task'[w] = [task[w] EXCEPT !.pc = "final"]
      BY <1>19, PromoteTask, Zenon
    <2>3. /\ task'[w].pc # "idle" /\ task'[w].tx = t /\ task'[w].kind = task[w].kind
          /\ task'[w].was = task[w].was /\ task'[w].outcome # "ABSENT"
      BY <1>0, <2>2 DEF Tasks, Eligible
    <2>4. \A u \in Tx : Present(u) => Present(u)'
      BY <1>0, <2>1, <2>2 DEF Rows, Present
    <2> QED  BY <2>1, <2>3, <2>4 DEF Working
  <1>20. CASE Finalize(w)
    <2>1. /\ env' = env /\ lease' = lease /\ used' = used /\ task[w].pc # "idle"
          /\ TypeOK' /\ \A v \in Workers \ {w} : task'[v] = task[v]
          /\ \A u \in Tx \ {t} : row'[u] = row[u]
      BY <1>20, FinalizeTask DEF Finalize
    <2>2. /\ row'[t] = [row[t] EXCEPT !.status = "FINALIZED"]
          /\ task'[w] = [task[w] EXCEPT !.pc = "end"]
      BY <1>20, FinalizeTask, Zenon
    <2>3. /\ task'[w].pc # "idle" /\ task'[w].tx = t /\ task'[w].kind = task[w].kind
          /\ task'[w].was = task[w].was /\ task'[w].outcome # "ABSENT"
      BY <1>0, <2>2 DEF Tasks, Eligible
    <2>4. Present(t) => row'[t].status # "ABSENT"
      BY <1>0, <2>2 DEF Rows, Present
    <2>5. \A u \in Tx : Present(u) => Present(u)'
      BY <2>1, <2>4 DEF Present
    <2> QED  BY <2>1, <2>3, <2>5 DEF Working
  <1> QED
    BY <1>1, <1>2, <1>3, <1>4, <1>5, <1>6, <1>7, <1>8, <1>9, <1>10, <1>11, <1>12, <1>13,
       <1>14, <1>15, <1>16, <1>17, <1>18, <1>19, <1>20, Zenon DEF Step, Ends

(* What an end of a task leaves alone.                                     *)
LEMMA EndFrame ==
    ASSUME TypeOK, LeaseInv, NEW w \in Workers, Ends(w)
    PROVE  /\ TypeOK' /\ env' = env /\ state' = state
           /\ Working(w) /\ task'[w] = NoTask
           /\ \A v \in Workers \ {w} : task'[v] = task[v]
           /\ \A u \in Tx \ {task[w].tx} : lease'[u] = lease[u] /\ row'[u] = row[u]
           /\ \A u \in Tx : Present(u) => Present(u)'
           /\ \A u \in Tx : \/ row'[u] = row[u]
                            \/ row'[u] = [row[u] EXCEPT !.status = "PENDING",
                                             !.receipt = FALSE, !.timeoutAppeal = FALSE]
  <1> DEFINE t == task[w].tx
  <1>0. t \in Tx
    BY TaskTyped DEF Tasks
  <1>1. CASE Finish(w)
    <2>1. /\ TypeOK' /\ task'[w] = NoTask
          /\ \A v \in Workers \ {w} : task'[v] = task[v]
      BY <1>1, FinishTask
    <2> QED  BY <1>0, <1>1, <2>1 DEF Finish, Working, Present, TypeOK
  <1>2. CASE Crash(w)
    <2>1. /\ TypeOK' /\ task'[w] = NoTask
          /\ \A v \in Workers \ {w} : task'[v] = task[v]
      BY <1>2, CrashTask
    <2> QED  BY <1>0, <1>2, <2>1 DEF Crash, Working, Present, TypeOK
  <1>3. CASE LeaderError(w)
    <2>1. /\ TypeOK' /\ task'[w] = NoTask
          /\ \A v \in Workers \ {w} : task'[v] = task[v]
          /\ \A u \in Tx \ {t} : row'[u] = row[u]
          /\ row'[t] = [row[t] EXCEPT !.status = "PENDING", !.receipt = FALSE,
                                      !.timeoutAppeal = FALSE]
      BY <1>3, ErrorTask, Zenon
    <2>2. row'[t].status # "ABSENT"
      BY <2>1, <1>0, RowTyped DEF Rows
    <2>3. \A u \in Tx : Present(u) => Present(u)'
      BY <2>1, <2>2 DEF Present
    <2> QED  BY <1>0, <1>3, <2>1, <2>3, Zenon DEF LeaderError, Working, TypeOK
  <1> QED  BY <1>1, <1>2, <1>3, Zenon DEF Ends

(* What a step of users or of recovery leaves alone: the rows that are     *)
(* worked on, but for the mark of an appeal.                               *)
LEMMA UserFrame ==
    ASSUME TypeOK, LeaseInv, NEW t \in Tx,
           Submit(t) \/ Cancel(t) \/ Appeal(t) \/ Recover(t) \/ ReleaseOrphan(t)
    PROVE  /\ TypeOK' /\ env' = env /\ state' = state /\ task' = task
           /\ \A u \in Tx : Live(u) => Live(u)'
           /\ \A u \in Tx : Present(u) => Present(u)'
           /\ \A u \in Tx : \/ row'[u] = row[u]
                            \/ row'[u] = [row[u] EXCEPT !.appealed = TRUE]
                            \/ ~Live(u) \/ ~Present(u)
           /\ \A u \in Tx : \/ row'[u] = row[u]
                            \/ row'[u] = [row[u] EXCEPT !.status = "PENDING"]
                            \/ row'[u] = [row[u] EXCEPT !.status = "CANCELED"]
                            \/ row'[u] = [row[u] EXCEPT !.appealed = TRUE]
                            \/ row'[u] = [row[u] EXCEPT !.status = "PENDING",
                                             !.receipt = FALSE, !.timeoutAppeal = FALSE]
  <1>0. row[t] \in Rows
    BY RowTyped
  <1>1. CASE Submit(t)
    <2>1. /\ TypeOK' /\ \A u \in Tx \ {t} : row'[u] = row[u]
          /\ row'[t] = [row[t] EXCEPT !.status = "PENDING"]
      BY <1>1, SubmitRow
    <2>2. row'[t].status # "ABSENT"
      BY <2>1, <1>0 DEF Rows
    <2> QED  BY <1>1, <2>1, <2>2, Zenon DEF Submit, Present, Live
  <1>2. CASE Cancel(t)
    <2>1. /\ TypeOK' /\ \A u \in Tx \ {t} : row'[u] = row[u]
          /\ row'[t] = [row[t] EXCEPT !.status = "CANCELED"]
      BY <1>2, CancelRow
    <2>2. row'[t].status # "ABSENT"
      BY <2>1, <1>0 DEF Rows
    <2> QED  BY <1>2, <2>1, <2>2, Zenon DEF Cancel, Present, Live
  <1>3. CASE Appeal(t)
    <2>1. /\ TypeOK' /\ \A u \in Tx \ {t} : row'[u] = row[u]
          /\ row'[t] = [row[t] EXCEPT !.appealed = TRUE]
      BY <1>3, AppealRow
    <2>2. row'[t].status = row[t].status
      BY <2>1, <1>0 DEF Rows
    <2> QED  BY <1>3, <2>1, <2>2, Zenon DEF Appeal, Present, Live
  <1>4. CASE Recover(t)
    <2>1. /\ TypeOK' /\ \A u \in Tx \ {t} : row'[u] = row[u]
          /\ row'[t] = [row[t] EXCEPT !.status = "PENDING", !.receipt = FALSE,
                                      !.timeoutAppeal = FALSE]
      BY <1>4, RecoverRow, Zenon
    <2>2. row'[t].status # "ABSENT"
      BY <2>1, <1>0 DEF Rows
    <2>3. \A u \in Tx : Live(u) => Live(u)'
      BY <1>4 DEF Recover, Live, TypeOK
    <2>4. ~Live(t)
      BY <1>4 DEF Recover, Live
    <2>5. \A u \in Tx : Present(u) => Present(u)'
      BY <2>1, <2>2 DEF Present
    <2>6. env' = env /\ state' = state /\ task' = task
      BY <1>4 DEF Recover
    <2> QED  BY <2>1, <2>3, <2>4, <2>5, <2>6, Zenon
  <1>5. CASE ReleaseOrphan(t)
    <2>1. TypeOK'
      BY <1>5, OrphanTyped
    <2> QED  BY <1>5, <2>1 DEF ReleaseOrphan, Present, Live, TypeOK
  <1> QED  BY <1>1, <1>2, <1>3, <1>4, <1>5, Zenon

(* What a claim leaves alone, and what it may rely on.                     *)
LEMMA ClaimFrame ==
    ASSUME TypeOK, LeaseInv, NEW w \in Workers, NEW kind \in Kinds, NEW t \in Tx,
           Claim(w, kind, t)
    PROVE  /\ TypeOK' /\ env' = env /\ state' = state /\ row' = row
           /\ ~Working(w) /\ Present(t)
           /\ task'[w].pc = "start" /\ task'[w].kind = kind /\ task'[w].tx = t
           /\ task'[w].was = row[t].status /\ task'[w].saved = NoSnapshot
           /\ task'[w].outcome = "PENDING"
           /\ \A v \in Workers \ {w} : task'[v] = task[v]
           /\ Live(t)' /\ \A u \in Tx : Live(u) => Live(u)'
           /\ \A v \in Workers : Working(v) => /\ task[v].tx # t
                                               /\ "parallel" \in env /\ kind = "appeal"
           /\ IF kind = "transaction" THEN row[t].status = "PENDING"
                                      ELSE row[t].status \in Eligible
  <1>1. /\ TypeOK' /\ \A v \in Workers \ {w} : task'[v] = task[v]
        /\ task'[w].pc = "start" /\ task'[w].kind = kind /\ task'[w].tx = t
        /\ task'[w].was = row[t].status /\ task'[w].saved = NoSnapshot
        /\ task'[w].outcome = "PENDING"
    BY ClaimTask
  <1>3. Live(t)' /\ \A u \in Tx : Live(u) => Live(u)'
    BY DEF Claim, Live, TypeOK
  <1>4. IF kind = "transaction" THEN row[t].status = "PENDING"
                                ELSE row[t].status \in Eligible
    BY DEF Claim, Ready, Kinds
  <1>5. Present(t)
    BY <1>4 DEF Present, Eligible
  <1>6. ASSUME NEW v \in Workers, Working(v)
        PROVE  task[v].tx # t /\ "parallel" \in env /\ kind = "appeal"
    <2>1. task[v].tx \in Tx /\ Live(task[v].tx) /\ Present(task[v].tx)
      BY <1>6, TaskTyped DEF LeaseInv, Tasks
    <2>2. task[v].tx # t
      BY <2>1 DEF Claim, Ready
    <2>3. task[v].tx \in Others(t)
      BY <2>1, <2>2 DEF Others
    <2> QED  BY <2>1, <2>2, <2>3 DEF Claim, Ready, Kinds
  <1> QED  BY <1>1, <1>3, <1>4, <1>5, <1>6 DEF Claim, Working

(* A step keeps the leases.                                                *)
LEMMA LeaseStep ==
    ASSUME TypeOK, LeaseInv, Next
    PROVE  TypeOK' /\ LeaseInv'
  <1> USE DEF LeaseInv, Working
  <1>0. \A w \in Workers : task[w].tx \in Tx
    BY TaskTyped DEF Tasks
  <1>1. ASSUME NEW t \in Tx,
               Submit(t) \/ Cancel(t) \/ Appeal(t) \/ Recover(t) \/ ReleaseOrphan(t)
        PROVE  TypeOK' /\ LeaseInv'
    <2>1. /\ TypeOK' /\ env' = env /\ task' = task
          /\ \A u \in Tx : Live(u) => Live(u)'
          /\ \A u \in Tx : Present(u) => Present(u)'
      BY <1>1, UserFrame, Zenon
    <2> QED  BY <1>0, <2>1
  <1>2. ASSUME NEW w \in Workers, Step(w), ~Ends(w)
        PROVE  TypeOK' /\ LeaseInv'
    <2>1. /\ TypeOK' /\ env' = env /\ lease' = lease
          /\ task[w].pc # "idle"
          /\ task'[w].tx = task[w].tx /\ task'[w].kind = task[w].kind
          /\ task'[w].was = task[w].was /\ task'[w].outcome # "ABSENT"
          /\ \A v \in Workers \ {w} : task'[v] = task[v]
          /\ \A u \in Tx : Present(u) => Present(u)'
      BY <1>2, StepFrame
    <2> QED  BY <1>0, <2>1 DEF Live
  <1>3. ASSUME NEW w \in Workers, Ends(w)
        PROVE  TypeOK' /\ LeaseInv'
    <2>1. /\ TypeOK' /\ env' = env
          /\ task[w].pc # "idle" /\ task'[w] = NoTask
          /\ \A v \in Workers \ {w} : task'[v] = task[v]
          /\ \A u \in Tx \ {task[w].tx} : lease'[u] = lease[u]
          /\ \A u \in Tx : Present(u) => Present(u)'
      BY <1>3, EndFrame, Zenon
    <2>2. NoTask.pc = "idle" /\ NoTask.was # "ABSENT" /\ NoTask.outcome # "ABSENT"
      BY DEF NoTask
    <2> QED  BY <1>0, <2>1, <2>2 DEF Live
  <1>4. ASSUME NEW w \in Workers, NEW kind \in Kinds, NEW t \in Tx, Claim(w, kind, t)
        PROVE  TypeOK' /\ LeaseInv'
    <2>1. /\ TypeOK' /\ env' = env /\ row' = row
          /\ Present(t) /\ task'[w].kind = kind /\ task'[w].tx = t
          /\ task'[w].was = row[t].status /\ task'[w].outcome = "PENDING"
          /\ \A v \in Workers \ {w} : task'[v] = task[v]
          /\ Live(t)' /\ \A u \in Tx : Live(u) => Live(u)'
          /\ \A v \in Workers : task[v].pc # "idle" => /\ task[v].tx # t
                                              /\ "parallel" \in env /\ kind = "appeal"
      BY <1>4, ClaimFrame
    <2> QED  BY <1>0, <2>1 DEF Present
  <1> QED  BY <1>1, <1>2, <1>3, <1>4, Zenon DEF Next

-----------------------------------------------------------------------------
(* Why a finalized effect stays.                                           *)

(* The accepted state has the effect of t, or was wiped: nothing executes  *)
(* on a wiped state, and nothing of it is finalized.                       *)
Held(t) == state.accepted = Empty \/ t \in Effects(state.accepted)

(* A row with an effect has it in the states it stands for.                *)
RowInv(t) ==
    /\ row[t].ok /\ row[t].status \in {"ACCEPTED", "FINALIZED"} => Held(t)
    /\ row[t].ok /\ row[t].status = "FINALIZED" => t \in Effects(state.finalized)
    /\ row[t].status \in {"UNDETERMINED", "VALIDATORS_TIMEOUT"} => ~row[t].ok
    /\ row[t].timeoutAppeal => "upheld" \in env

(* What an execution runs on stays what is accepted, unless the execution  *)
(* is an appeal next to another task.  What each place of a task knows of  *)
(* its row and of the states.                                              *)
Alone(w) == task[w].kind = "transaction" \/ "parallel" \notin env
Executing(w) == task[w].pc \in {"run", "save", "write", "status"}
TaskInv(w) ==
    LET k == task[w]
        r == row[k.tx] IN
    /\ k.pc = "start" =>
         /\ k.saved = NoSnapshot
         /\ k.kind = "transaction" => r.status = "PENDING"
         /\ k.kind # "transaction" => r.status = k.was /\ k.was \in Eligible
    /\ Executing(w) =>
         /\ r.status = "PROCESSING"
         /\ k.kind = "appeal" => k.leader /\ k.was = "UNDETERMINED"
         /\ k.kind # "finalization"
         /\ k.late => "upheld" \in env
         /\ k.pc \in {"run", "save", "write"} /\ Alone(w) => k.base = state.accepted
    /\ k.pc \in {"save", "write", "status"} =>
         /\ r.ok = k.ok
         /\ k.outcome \in Eligible
         /\ k.ok => k.outcome = "ACCEPTED" /\ Alone(w)
         /\ k.leader /\ k.outcome = "ACCEPTED" => "upheld" \in env
    /\ k.pc \in {"save", "write"} /\ k.ok => k.base # Empty
    /\ k.pc = "write" => k.ok
    /\ k.pc = "status" /\ k.ok => Held(k.tx)
    /\ k.kind = "appeal" /\ k.was = "ACCEPTED" => k.saved = NoSnapshot
    /\ k.pc = "vote" =>
         /\ r.status = "PROCESSING"
         /\ k.kind = "appeal"
         /\ k.was \in {"ACCEPTED", "VALIDATORS_TIMEOUT"}
         /\ k.was = "ACCEPTED" /\ r.ok => Held(k.tx)
         /\ k.was # "ACCEPTED" => ~r.ok
    /\ k.pc \in {"rollback", "forget", "restore", "clear", "requeue"} => "parallel" \notin env
    /\ k.pc = "restore" => k.kind = "appeal" /\ k.was = "ACCEPTED"
    /\ k.pc = "promote" =>
         /\ k.kind = "finalization"
         /\ r.status = "ACCEPTED" /\ k.was = "ACCEPTED" /\ r.ok
         /\ k.base = state.accepted /\ k.base # Empty
    /\ k.pc = "final" =>
         /\ k.kind = "finalization"
         /\ k.was \in Eligible /\ r.status = k.was
         /\ r.ok => k.tx \in Effects(state.finalized)
RowsInv  == \A t \in Tx : RowInv(t)
TasksInv == \A w \in Workers : TaskInv(w)

(* The state that an append makes.                                         *)
LEMMA AppendHolds ==
    ASSUME NEW s \in States, NEW t \in Tx
    PROVE  /\ Append(s, t) # Empty
           /\ t \in Effects(Append(s, t))
           /\ \A u \in Effects(s) : u \in Effects(Append(s, t))
  <1>1. /\ Len(Append(s, t)) = Len(s) + 1 /\ Append(s, t)[Len(s) + 1] = t
        /\ \A i \in DOMAIN s : Append(s, t)[i] = s[i] /\ i \in DOMAIN Append(s, t)
        /\ Len(s) + 1 \in DOMAIN Append(s, t)
    BY DEF States
  <1>2. Append(s, t) # Empty
    BY <1>1 DEF Empty, States
  <1> QED  BY <1>1, <1>2, Zenon DEF Effects

LEMMA AscendingAppend ==
    ASSUME NEW s \in States, NEW t \in Tx, Ascending(s), \A e \in Effects(s) : e < t
    PROVE  /\ Effects(Append(s, t)) = Effects(s) \cup {t}
           /\ Ascending(Append(s, t))
  <1> DEFINE a == Append(s, t)
             n == Len(s)
  <1>1. /\ DOMAIN s = 1..n /\ DOMAIN a = 1..(n + 1) /\ a[n + 1] = t /\ n \in Nat
        /\ \A i \in 1..n : a[i] = s[i]
    BY DEF States
  <1> HIDE DEF a, n
  <1>2. \A i \in 1..n : s[i] < t
    BY <1>1 DEF Effects
  <1>3. Effects(a) = Effects(s) \cup {t}
    BY <1>1 DEF Effects
  <1>4. ASSUME NEW i \in 1..(n + 1), NEW j \in 1..(n + 1), i < j
        PROVE  a[i] < a[j]
    <2>1. i \in 1..n /\ (j \in 1..n \/ j = n + 1)
      BY <1>1, <1>4
    <2> QED  BY <1>1, <1>2, <1>4, <2>1 DEF Ascending
  <1> QED  BY <1>1, <1>3, <1>4 DEF Ascending, a

(* A claim has no snapshot, so its context is what is accepted.            *)
LEMMA ContextNow == ContextBase(NoSnapshot) = state.accepted
  BY DEF ContextBase

(* What a step does to its own row and task.                               *)
LEMMA OwnStep ==
    ASSUME TypeOK, LeaseInv, Apart, RowsInv, TasksInv, NEW w \in Workers,
           Step(w), ~Ends(w), ~Rollback(w), ~Forget(w)
    PROVE  TaskInv(w)' /\ RowInv(task[w].tx)'
  <1> DEFINE t == task[w].tx
  <1>0. /\ task[w] \in Tasks /\ row[t] \in Rows /\ t \in Tx
        /\ task[w].kind \in Kinds
        /\ TaskInv(w) /\ RowInv(t)
    BY TaskTyped, RowTyped DEF Tasks, RowsInv, TasksInv
  <1>1. CASE Begin(w)
    <2>1. PICK l \in BOOLEAN :
            /\ task'[w] = [task[w] EXCEPT !.pc = "run", !.leader = l,
                                           !.base = ContextBase(task[w].saved),
                                           !.saved = row[t].snapshot,
                                           !.late = row[t].timeoutAppeal]
      BY <1>1, BeginTask, Zenon
    <2>2. /\ env' = env /\ state' = state /\ task[w].pc = "start"
          /\ task[w].kind = "transaction" /\ row'[t].status = "PROCESSING"
          /\ row'[t].ok = row[t].ok /\ row'[t].timeoutAppeal = row[t].timeoutAppeal
      BY <1>1, BeginTask, Zenon DEF Begin, At
    <2>3. /\ task'[w].pc = "run" /\ task'[w].kind = task[w].kind
          /\ task'[w].tx = task[w].tx /\ task'[w].was = task[w].was
          /\ task'[w].base = ContextBase(task[w].saved)
          /\ task'[w].saved = row[t].snapshot /\ task'[w].leader = l
          /\ task'[w].late = row[t].timeoutAppeal
          /\ task'[w].outcome = task[w].outcome /\ task'[w].ok = task[w].ok
      BY <1>0, <2>1, <2>2 DEF Tasks
    <2>4. /\ row'[t].status = "PROCESSING" /\ row'[t].ok = row[t].ok
          /\ row'[t].timeoutAppeal = row[t].timeoutAppeal
      BY <1>0, <2>1, <2>2 DEF Rows
    <2>5. TaskInv(w)'
      BY <1>0, <2>2, <2>3, <2>4, ContextNow
      DEF TaskInv, RowInv, Held, Alone, Executing, Apart, Eligible, Kinds
    <2>6. RowInv(t)'
      BY <1>0, <2>2, <2>3, <2>4 DEF TaskInv, RowInv, Held, Alone, Executing, Apart, Eligible
    <2> QED  BY <2>5, <2>6
  <1>2. CASE Progress(w)
    <2>1. /\ row'[t] = [row[t] EXCEPT !.status = "PROCESSING"]
      BY <1>2, ProgressTask, Zenon
    <2>2. /\ env' = env /\ state' = state /\ task' = task /\ task[w].pc = "run"
      BY <1>2, ProgressTask DEF Progress
    <2>3. /\ task'[w].pc = task[w].pc /\ task'[w].kind = task[w].kind
          /\ task'[w].tx = task[w].tx /\ task'[w].was = task[w].was
          /\ task'[w].base = task[w].base /\ task'[w].saved = task[w].saved
          /\ task'[w].leader = task[w].leader /\ task'[w].late = task[w].late
          /\ task'[w].outcome = task[w].outcome /\ task'[w].ok = task[w].ok
      BY <1>0, <2>1, <2>2 DEF Tasks
    <2>4. /\ row'[t].status = "PROCESSING" /\ row'[t].ok = row[t].ok
          /\ row'[t].timeoutAppeal = row[t].timeoutAppeal
      BY <1>0, <2>1, <2>2 DEF Rows
    <2>5. TaskInv(w)'
      BY <1>0, <2>2, <2>3, <2>4
      DEF TaskInv, RowInv, Held, Alone, Executing, Apart, Eligible, Kinds
    <2>6. RowInv(t)'
      BY <1>0, <2>2, <2>3, <2>4 DEF TaskInv, RowInv, Held, Alone, Executing, Apart, Eligible
    <2> QED  BY <2>5, <2>6
  <1>3. CASE Decide(w)
    <2>1. PICK s \in Eligible, ok \in BOOLEAN :
            /\ ok => s = "ACCEPTED" /\ task[w].base # Empty
            /\ task[w].leader /\ s = "ACCEPTED" => "upheld" \in env
            /\ row'[t] = [row[t] EXCEPT !.receipt = TRUE, !.ok = ok,
                                         !.timeoutAppeal = FALSE]
            /\ task'[w] = [task[w] EXCEPT !.pc = "save", !.outcome = s, !.ok = ok]
      BY <1>3, DecideTask, Zenon
    <2>2. /\ env' = env /\ state' = state /\ task[w].pc = "run"
      BY <1>3, DecideTask DEF Decide
    <2>3. /\ task'[w].pc = "save" /\ task'[w].kind = task[w].kind
          /\ task'[w].tx = task[w].tx /\ task'[w].was = task[w].was
          /\ task'[w].base = task[w].base /\ task'[w].saved = task[w].saved
          /\ task'[w].leader = task[w].leader /\ task'[w].late = task[w].late
          /\ task'[w].outcome = s /\ task'[w].ok = ok
      BY <1>0, <2>1, <2>2 DEF Tasks
    <2>typed. /\ s \in Eligible /\ ok \in BOOLEAN
              /\ ok => s = "ACCEPTED" /\ task[w].base # Empty
              /\ task[w].leader /\ s = "ACCEPTED" => "upheld" \in env
      BY <2>1
    <2>4. /\ row'[t].status = row[t].status /\ row'[t].ok = ok
          /\ row'[t].timeoutAppeal = FALSE
      BY <1>0, <2>1, <2>2 DEF Rows
    <2>5. TaskInv(w)'
      BY <1>0, <2>2, <2>3, <2>4, <2>typed
      DEF TaskInv, RowInv, Held, Alone, Executing, Apart, Eligible, Kinds
    <2>6. RowInv(t)'
      BY <1>0, <2>2, <2>3, <2>4, <2>typed
      DEF TaskInv, RowInv, Held, Alone, Executing, Apart, Eligible
    <2> QED  BY <2>5, <2>6
  <1>4. CASE Save(w)
    <2>1. /\ row'[t] = [row[t] EXCEPT !.snapshot =
                           IF task[w].saved = NoSnapshot THEN task[w].base ELSE task[w].saved]
          /\ task'[w] = [task[w] EXCEPT !.pc = IF task[w].ok THEN "write" ELSE "status"]
      BY <1>4, SaveTask, Zenon
    <2>2. /\ env' = env /\ state' = state /\ task[w].pc = "save"
      BY <1>4, SaveTask DEF Save
    <2>3. /\ task'[w].pc = (IF task[w].ok THEN "write" ELSE "status")
          /\ task'[w].kind = task[w].kind /\ task'[w].tx = task[w].tx
          /\ task'[w].was = task[w].was /\ task'[w].base = task[w].base
          /\ task'[w].saved = task[w].saved /\ task'[w].leader = task[w].leader
          /\ task'[w].late = task[w].late /\ task'[w].outcome = task[w].outcome
          /\ task'[w].ok = task[w].ok
      BY <1>0, <2>1, <2>2 DEF Tasks
    <2>4. /\ row'[t].status = row[t].status /\ row'[t].ok = row[t].ok
          /\ row'[t].timeoutAppeal = row[t].timeoutAppeal
      BY <1>0, <2>1, <2>2 DEF Rows
    <2>5. TaskInv(w)'
      BY <1>0, <2>2, <2>3, <2>4
      DEF TaskInv, RowInv, Held, Alone, Executing, Apart, Eligible, Kinds
    <2>6. RowInv(t)'
      BY <1>0, <2>2, <2>3, <2>4 DEF TaskInv, RowInv, Held, Alone, Executing, Apart, Eligible
    <2> QED  BY <2>5, <2>6
  <1>5. CASE WriteAccepted(w)
    <2>1. /\ task'[w] = [task[w] EXCEPT !.pc = "status"]
      BY <1>5, WriteTask, Zenon
    <2>2. /\ env' = env /\ row' = row /\ task[w].pc = "write"
          /\ state'.accepted = Append(task[w].base, t)
          /\ state'.finalized = state.finalized
      BY <1>5, WriteTask DEF WriteAccepted
    <2>3. /\ task'[w].pc = "status" /\ task'[w].kind = task[w].kind
          /\ task'[w].tx = task[w].tx /\ task'[w].was = task[w].was
          /\ task'[w].base = task[w].base /\ task'[w].saved = task[w].saved
          /\ task'[w].leader = task[w].leader /\ task'[w].late = task[w].late
          /\ task'[w].outcome = task[w].outcome /\ task'[w].ok = task[w].ok
      BY <1>0, <2>1, <2>2 DEF Tasks
    <2>typed. /\ task[w].base \in States
      BY <1>0 DEF Tasks
    <2>4. /\ row'[t].status = row[t].status /\ row'[t].ok = row[t].ok
          /\ row'[t].timeoutAppeal = row[t].timeoutAppeal
      BY <1>0, <2>1, <2>2 DEF Rows
    <2>5. TaskInv(w)'
      BY <1>0, <2>2, <2>3, <2>4, <2>typed, AppendHolds
      DEF TaskInv, RowInv, Held, Alone, Executing, Apart, Eligible, Kinds
    <2>6. RowInv(t)'
      BY <1>0, <2>2, <2>3, <2>4, <2>typed, AppendHolds
      DEF TaskInv, RowInv, Held, Alone, Executing, Apart, Eligible
    <2> QED  BY <2>5, <2>6
  <1>6. CASE Conclude(w)
    <2>1. PICK todo \in SUBSET Tx, pc \in {"rollback", "restore", "end"} :
            /\ task'[w] = [task[w] EXCEPT !.pc = pc, !.todo = todo]
            /\ pc # "end" => /\ task[w].outcome = "ACCEPTED"
                             /\ task[w].kind = "appeal" \/ task[w].late
            /\ pc = "restore" => task[w].kind = "appeal" /\ task[w].was = "ACCEPTED"
      BY <1>6, ConcludeTask, Zenon
    <2>2. /\ env' = env /\ state' = state /\ task[w].pc = "status"
          /\ row'[t].status = task[w].outcome /\ row'[t].ok = row[t].ok
          /\ row'[t].timeoutAppeal = row[t].timeoutAppeal
      BY <1>6, ConcludeTask, Zenon DEF Conclude
    <2>3. /\ task'[w].pc = pc /\ task'[w].kind = task[w].kind
          /\ task'[w].tx = task[w].tx /\ task'[w].was = task[w].was
          /\ task'[w].base = task[w].base /\ task'[w].saved = task[w].saved
          /\ task'[w].leader = task[w].leader /\ task'[w].late = task[w].late
          /\ task'[w].outcome = task[w].outcome /\ task'[w].ok = task[w].ok
      BY <1>0, <2>1, <2>2 DEF Tasks
    <2>typed. /\ pc \in {"rollback", "restore", "end"}
              /\ pc # "end" => task[w].outcome = "ACCEPTED"
              /\ pc # "end" => task[w].kind = "appeal" \/ task[w].late
              /\ pc = "restore" => task[w].kind = "appeal" /\ task[w].was = "ACCEPTED"
      BY <2>1
    <2>4. /\ row'[t].status = task[w].outcome /\ row'[t].ok = row[t].ok
          /\ row'[t].timeoutAppeal = row[t].timeoutAppeal
      BY <1>0, <2>1, <2>2 DEF Rows
    <2>5. TaskInv(w)'
      BY <1>0, <2>2, <2>3, <2>4, <2>typed
      DEF TaskInv, RowInv, Held, Alone, Executing, Apart, Eligible, Kinds
    <2>6. RowInv(t)'
      BY <1>0, <2>2, <2>3, <2>4, <2>typed
      DEF TaskInv, RowInv, Held, Alone, Executing, Apart, Eligible
    <2> QED  BY <2>5, <2>6
  <1>7. CASE AppealFails(w)
    <2>1. /\ row'[t] = [row[t] EXCEPT !.appealed = FALSE]
          /\ task'[w] = [task[w] EXCEPT !.pc = "end"]
      BY <1>7, AppealFailsTask, Zenon
    <2>2. /\ env' = env /\ state' = state /\ task[w].pc = "start"
      BY <1>7, AppealFailsTask DEF AppealFails, At
    <2>3. /\ task'[w].pc = "end" /\ task'[w].kind = task[w].kind
          /\ task'[w].tx = task[w].tx /\ task'[w].was = task[w].was
          /\ task'[w].base = task[w].base /\ task'[w].saved = task[w].saved
          /\ task'[w].leader = task[w].leader /\ task'[w].late = task[w].late
          /\ task'[w].outcome = task[w].outcome /\ task'[w].ok = task[w].ok
      BY <1>0, <2>1, <2>2 DEF Tasks
    <2>4. /\ row'[t].status = row[t].status /\ row'[t].ok = row[t].ok
          /\ row'[t].timeoutAppeal = row[t].timeoutAppeal
      BY <1>0, <2>1, <2>2 DEF Rows
    <2>5. TaskInv(w)'
      BY <1>0, <2>2, <2>3, <2>4
      DEF TaskInv, RowInv, Held, Alone, Executing, Apart, Eligible, Kinds
    <2>6. RowInv(t)'
      BY <1>0, <2>2, <2>3, <2>4 DEF TaskInv, RowInv, Held, Alone, Executing, Apart, Eligible
    <2> QED  BY <2>5, <2>6
  <1>8. CASE LeaderAppeal(w)
    <2>1. /\ row'[t] = [row[t] EXCEPT !.appealed = FALSE, !.flag = "undetermined",
                                       !.status = "PROCESSING"]
          /\ task'[w] = [task[w] EXCEPT !.pc = "run", !.leader = TRUE,
                                         !.base = ContextBase(task[w].saved),
                                         !.saved = row[t].snapshot,
                                         !.late = row[t].timeoutAppeal]
      BY <1>8, LeaderAppealTask, Zenon
    <2>2. /\ env' = env /\ state' = state /\ task[w].pc = "start"
          /\ task[w].kind = "appeal" /\ task[w].was = "UNDETERMINED"
      BY <1>8, LeaderAppealTask, Zenon DEF LeaderAppeal, At
    <2>3. /\ task'[w].pc = "run" /\ task'[w].kind = task[w].kind
          /\ task'[w].tx = task[w].tx /\ task'[w].was = task[w].was
          /\ task'[w].base = ContextBase(task[w].saved)
          /\ task'[w].saved = row[t].snapshot /\ task'[w].leader = TRUE
          /\ task'[w].late = row[t].timeoutAppeal
          /\ task'[w].outcome = task[w].outcome /\ task'[w].ok = task[w].ok
      BY <1>0, <2>1, <2>2 DEF Tasks
    <2>4. /\ row'[t].status = "PROCESSING" /\ row'[t].ok = row[t].ok
          /\ row'[t].timeoutAppeal = row[t].timeoutAppeal
      BY <1>0, <2>1, <2>2 DEF Rows
    <2>5. TaskInv(w)'
      BY <1>0, <2>2, <2>3, <2>4, ContextNow
      DEF TaskInv, RowInv, Held, Alone, Executing, Apart, Eligible, Kinds
    <2>6. RowInv(t)'
      BY <1>0, <2>2, <2>3, <2>4 DEF TaskInv, RowInv, Held, Alone, Executing, Apart, Eligible
    <2> QED  BY <2>5, <2>6
  <1>9. CASE ValidatorAppeal(w)
    <2>1. /\ row'[t] = [row[t] EXCEPT !.status = "PROCESSING",
                 !.appealed = ~(task[w].was = "VALIDATORS_TIMEOUT"),
                 !.flag = IF task[w].was = "VALIDATORS_TIMEOUT" THEN "timeout" ELSE row[t].flag]
          /\ task'[w] = [task[w] EXCEPT !.pc = "vote", !.base = ContextBase(task[w].saved)]
      BY <1>9, ValidatorAppealTask, Zenon
    <2>2. /\ env' = env /\ state' = state /\ task[w].pc = "start"
          /\ task[w].kind = "appeal" /\ task[w].was # "UNDETERMINED"
      BY <1>9, ValidatorAppealTask, Zenon DEF ValidatorAppeal, At
    <2>3. /\ task'[w].pc = "vote" /\ task'[w].kind = task[w].kind
          /\ task'[w].tx = task[w].tx /\ task'[w].was = task[w].was
          /\ task'[w].base = ContextBase(task[w].saved)
          /\ task'[w].saved = task[w].saved /\ task'[w].leader = task[w].leader
          /\ task'[w].late = task[w].late /\ task'[w].outcome = task[w].outcome
          /\ task'[w].ok = task[w].ok
      BY <1>0, <2>1, <2>2 DEF Tasks
    <2>4. /\ row'[t].status = "PROCESSING" /\ row'[t].ok = row[t].ok
          /\ row'[t].timeoutAppeal = row[t].timeoutAppeal
      BY <1>0, <2>1, <2>2 DEF Rows
    <2>5. TaskInv(w)'
      BY <1>0, <2>2, <2>3, <2>4
      DEF TaskInv, RowInv, Held, Alone, Executing, Apart, Eligible, Kinds
    <2>6. RowInv(t)'
      BY <1>0, <2>2, <2>3, <2>4 DEF TaskInv, RowInv, Held, Alone, Executing, Apart, Eligible
    <2> QED  BY <2>5, <2>6
  <1>10. CASE RejectAppeal(w)
    <2>1. /\ row'[t] = [row[t] EXCEPT !.status = task[w].was, !.appealed = FALSE]
          /\ task'[w] = [task[w] EXCEPT !.pc = "end"]
      BY <1>10, RejectTask, Zenon
    <2>2. /\ env' = env /\ state' = state /\ task[w].pc = "vote"
      BY <1>10, RejectTask DEF RejectAppeal
    <2>3. /\ task'[w].pc = "end" /\ task'[w].kind = task[w].kind
          /\ task'[w].tx = task[w].tx /\ task'[w].was = task[w].was
          /\ task'[w].base = task[w].base /\ task'[w].saved = task[w].saved
          /\ task'[w].leader = task[w].leader /\ task'[w].late = task[w].late
          /\ task'[w].outcome = task[w].outcome /\ task'[w].ok = task[w].ok
      BY <1>0, <2>1, <2>2 DEF Tasks
    <2>4. /\ row'[t].status = task[w].was /\ row'[t].ok = row[t].ok
          /\ row'[t].timeoutAppeal = row[t].timeoutAppeal
      BY <1>0, <2>1, <2>2 DEF Rows
    <2>5. TaskInv(w)'
      BY <1>0, <2>2, <2>3, <2>4
      DEF TaskInv, RowInv, Held, Alone, Executing, Apart, Eligible, Kinds
    <2>6. RowInv(t)'
      BY <1>0, <2>2, <2>3, <2>4 DEF TaskInv, RowInv, Held, Alone, Executing, Apart, Eligible
    <2> QED  BY <2>5, <2>6
  <1>11. CASE UpholdAppeal(w)
    <2>1. PICK todo \in SUBSET Tx, pc \in {"rollback", "restore", "end", "clear"} :
            /\ task'[w] = [task[w] EXCEPT !.pc = pc, !.todo = todo]
            /\ pc = "restore" => task[w].kind = "appeal" /\ task[w].was = "ACCEPTED"
      BY <1>11, UpholdTask, Zenon
    <2>2. /\ env' = env /\ state' = state /\ task[w].pc = "vote"
          /\ "upheld" \in env /\ row'[t].status = row[t].status
          /\ row'[t].ok = row[t].ok
      BY <1>11, UpholdTask DEF UpholdAppeal
    <2>3. /\ task'[w].pc = pc /\ task'[w].kind = task[w].kind
          /\ task'[w].tx = task[w].tx /\ task'[w].was = task[w].was
          /\ task'[w].base = task[w].base /\ task'[w].saved = task[w].saved
          /\ task'[w].leader = task[w].leader /\ task'[w].late = task[w].late
          /\ task'[w].outcome = task[w].outcome /\ task'[w].ok = task[w].ok
      BY <1>0, <2>1, <2>2 DEF Tasks
    <2>typed. /\ pc \in {"rollback", "restore", "end", "clear"}
              /\ pc = "restore" => task[w].kind = "appeal" /\ task[w].was = "ACCEPTED"
      BY <2>1
    <2>4. /\ row'[t].status = row[t].status /\ row'[t].ok = row[t].ok
      BY <1>0, <2>1, <2>2 DEF Rows
    <2>5. TaskInv(w)'
      BY <1>0, <2>2, <2>3, <2>4, <2>typed
      DEF TaskInv, RowInv, Held, Alone, Executing, Apart, Eligible, Kinds
    <2>6. RowInv(t)'
      BY <1>0, <2>2, <2>3, <2>4, <2>typed
      DEF TaskInv, RowInv, Held, Alone, Executing, Apart, Eligible
    <2> QED  BY <2>5, <2>6
  <1>12. CASE Restore(w)
    <2>1. /\ task'[w] = [task[w] EXCEPT !.pc = "clear"]
      BY <1>12, RestoreTask, Zenon
    <2>2. /\ env' = env /\ row' = row /\ task[w].pc = "restore"
          /\ state'.accepted = IF task[w].saved # NoSnapshot THEN task[w].saved ELSE Empty
          /\ state'.finalized = state.finalized
      BY <1>12, RestoreTask DEF Restore
    <2>3. /\ task'[w].pc = "clear" /\ task'[w].kind = task[w].kind
          /\ task'[w].tx = task[w].tx /\ task'[w].was = task[w].was
          /\ task'[w].base = task[w].base /\ task'[w].saved = task[w].saved
          /\ task'[w].leader = task[w].leader /\ task'[w].late = task[w].late
          /\ task'[w].outcome = task[w].outcome /\ task'[w].ok = task[w].ok
      BY <1>0, <2>1, <2>2 DEF Tasks
    <2>4. /\ row'[t].status = row[t].status /\ row'[t].ok = row[t].ok
          /\ row'[t].timeoutAppeal = row[t].timeoutAppeal
      BY <1>0, <2>1, <2>2 DEF Rows
    <2>5. TaskInv(w)'
      BY <1>0, <2>2, <2>3, <2>4
      DEF TaskInv, RowInv, Held, Alone, Executing, Apart, Eligible, Kinds
    <2>6. RowInv(t)'
      BY <1>0, <2>2, <2>3, <2>4 DEF TaskInv, RowInv, Held, Alone, Executing, Apart, Eligible
    <2> QED  BY <2>5, <2>6
  <1>13. CASE Clear(w)
    <2>1. /\ row'[t] = [row[t] EXCEPT !.snapshot = NoSnapshot]
          /\ task'[w] = [task[w] EXCEPT !.pc = "requeue"]
      BY <1>13, ClearTask, Zenon
    <2>2. /\ env' = env /\ state' = state /\ task[w].pc = "clear"
      BY <1>13, ClearTask DEF Clear
    <2>3. /\ task'[w].pc = "requeue" /\ task'[w].kind = task[w].kind
          /\ task'[w].tx = task[w].tx /\ task'[w].was = task[w].was
          /\ task'[w].base = task[w].base /\ task'[w].saved = task[w].saved
          /\ task'[w].leader = task[w].leader /\ task'[w].late = task[w].late
          /\ task'[w].outcome = task[w].outcome /\ task'[w].ok = task[w].ok
      BY <1>0, <2>1, <2>2 DEF Tasks
    <2>4. /\ row'[t].status = row[t].status /\ row'[t].ok = row[t].ok
          /\ row'[t].timeoutAppeal = row[t].timeoutAppeal
      BY <1>0, <2>1, <2>2 DEF Rows
    <2>5. TaskInv(w)'
      BY <1>0, <2>2, <2>3, <2>4
      DEF TaskInv, RowInv, Held, Alone, Executing, Apart, Eligible, Kinds
    <2>6. RowInv(t)'
      BY <1>0, <2>2, <2>3, <2>4 DEF TaskInv, RowInv, Held, Alone, Executing, Apart, Eligible
    <2> QED  BY <2>5, <2>6
  <1>14. CASE Requeue(w)
    <2>1. /\ row'[t] = [row[t] EXCEPT !.status = "PENDING"]
          /\ task'[w] = [task[w] EXCEPT !.pc = "end"]
      BY <1>14, RequeueTask, Zenon
    <2>2. /\ env' = env /\ state' = state /\ task[w].pc = "requeue"
      BY <1>14, RequeueTask DEF Requeue
    <2>3. /\ task'[w].pc = "end" /\ task'[w].kind = task[w].kind
          /\ task'[w].tx = task[w].tx /\ task'[w].was = task[w].was
          /\ task'[w].base = task[w].base /\ task'[w].saved = task[w].saved
          /\ task'[w].leader = task[w].leader /\ task'[w].late = task[w].late
          /\ task'[w].outcome = task[w].outcome /\ task'[w].ok = task[w].ok
      BY <1>0, <2>1, <2>2 DEF Tasks
    <2>4. /\ row'[t].status = "PENDING" /\ row'[t].ok = row[t].ok
          /\ row'[t].timeoutAppeal = row[t].timeoutAppeal
      BY <1>0, <2>1, <2>2 DEF Rows
    <2>5. TaskInv(w)'
      BY <1>0, <2>2, <2>3, <2>4
      DEF TaskInv, RowInv, Held, Alone, Executing, Apart, Eligible, Kinds
    <2>6. RowInv(t)'
      BY <1>0, <2>2, <2>3, <2>4 DEF TaskInv, RowInv, Held, Alone, Executing, Apart, Eligible
    <2> QED  BY <2>5, <2>6
  <1>15. CASE ReadAccepted(w)
    <2> DEFINE pc == IF Promotes(w) THEN "promote" ELSE "final"
    <2>1. task'[w] = [task[w] EXCEPT !.pc = pc, !.base = state.accepted]
      BY <1>15, ReadTask, Zenon
    <2>2. /\ env' = env /\ state' = state /\ row' = row
          /\ task[w].pc = "start" /\ task[w].kind = "finalization"
      BY <1>15, ReadTask DEF ReadAccepted, At
    <2>3. Promotes(w) => state.accepted # Empty
      BY <1>15, Zenon DEF ReadAccepted
    <2>4. (pc = "promote" /\ Promotes(w)) \/ (pc = "final" /\ ~Promotes(w))
      OBVIOUS
    <2> HIDE DEF pc
    <2>5. /\ task'[w].pc = pc /\ task'[w].kind = task[w].kind
          /\ task'[w].tx = task[w].tx /\ task'[w].was = task[w].was
          /\ task'[w].base = state.accepted /\ task'[w].saved = task[w].saved
      BY <1>0, <2>1 DEF Tasks
    <2>6. TaskInv(w)'
      <3>1. CASE pc = "promote" /\ Promotes(w)
        <4>1. state.accepted # Empty
          BY <2>3, <3>1, Zenon
        <4>2. task[w].was = "ACCEPTED" /\ row[t].ok
          BY <3>1 DEF Promotes
        <4> QED  BY <1>0, <2>2, <2>5, <3>1, <4>1, <4>2 DEF TaskInv, Executing
      <3>2. CASE pc = "final" /\ ~Promotes(w)
        <4>1. task[w].was # "ACCEPTED" \/ ~row[t].ok
          BY <3>2 DEF Promotes
        <4> QED
          BY <1>0, <2>2, <2>5, <3>2, <4>1 DEF TaskInv, RowInv, Executing, Eligible
      <3> QED  BY <2>4, <3>1, <3>2
    <2>7. RowInv(t)'
      BY <1>0, <2>2, <2>5 DEF RowInv, Held
    <2> QED  BY <2>6, <2>7
  <1>16. CASE MissingAccepted(w)
    <2>1. PICK s \in {"ACCEPTED", "CANCELED"} :
            /\ row'[t] = [row[t] EXCEPT !.status = s]
      BY <1>16, MissingTask, Zenon
    <2>2. /\ env' = env /\ state' = state /\ task[w].pc = "start"
          /\ state.accepted = Empty /\ task'[w] = [task[w] EXCEPT !.pc = "end"]
      BY <1>16, MissingTask DEF MissingAccepted, At
    <2>3. /\ task'[w].pc = "end" /\ task'[w].kind = task[w].kind
          /\ task'[w].tx = task[w].tx /\ task'[w].was = task[w].was
          /\ task'[w].base = task[w].base /\ task'[w].saved = task[w].saved
          /\ task'[w].leader = task[w].leader /\ task'[w].late = task[w].late
          /\ task'[w].outcome = task[w].outcome /\ task'[w].ok = task[w].ok
      BY <1>0, <2>1, <2>2 DEF Tasks
    <2>typed. /\ s \in {"ACCEPTED", "CANCELED"}
      BY <2>1
    <2>4. /\ row'[t].status = s /\ row'[t].ok = row[t].ok
          /\ row'[t].timeoutAppeal = row[t].timeoutAppeal
      BY <1>0, <2>1, <2>2 DEF Rows
    <2>5. TaskInv(w)'
      BY <1>0, <2>2, <2>3, <2>4, <2>typed
      DEF TaskInv, RowInv, Held, Alone, Executing, Apart, Eligible, Kinds
    <2>6. RowInv(t)'
      BY <1>0, <2>2, <2>3, <2>4, <2>typed
      DEF TaskInv, RowInv, Held, Alone, Executing, Apart, Eligible
    <2> QED  BY <2>5, <2>6
  <1>17. CASE Promote(w)
    <2>1. /\ task'[w] = [task[w] EXCEPT !.pc = "final"]
      BY <1>17, PromoteTask, Zenon
    <2>2. /\ env' = env /\ row' = row /\ task[w].pc = "promote"
          /\ state'.finalized = task[w].base /\ state'.accepted = state.accepted
      BY <1>17, PromoteTask DEF Promote
    <2>3. /\ task'[w].pc = "final" /\ task'[w].kind = task[w].kind
          /\ task'[w].tx = task[w].tx /\ task'[w].was = task[w].was
          /\ task'[w].base = task[w].base /\ task'[w].saved = task[w].saved
          /\ task'[w].leader = task[w].leader /\ task'[w].late = task[w].late
          /\ task'[w].outcome = task[w].outcome /\ task'[w].ok = task[w].ok
      BY <1>0, <2>1, <2>2 DEF Tasks
    <2>4. /\ row'[t].status = row[t].status /\ row'[t].ok = row[t].ok
          /\ row'[t].timeoutAppeal = row[t].timeoutAppeal
      BY <1>0, <2>1, <2>2 DEF Rows
    <2>5. TaskInv(w)'
      BY <1>0, <2>2, <2>3, <2>4
      DEF TaskInv, RowInv, Held, Alone, Executing, Apart, Eligible, Kinds
    <2>6. RowInv(t)'
      BY <1>0, <2>2, <2>3, <2>4 DEF TaskInv, RowInv, Held, Alone, Executing, Apart, Eligible
    <2> QED  BY <2>5, <2>6
  <1>18. CASE Finalize(w)
    <2>1. /\ row'[t] = [row[t] EXCEPT !.status = "FINALIZED"]
          /\ task'[w] = [task[w] EXCEPT !.pc = "end"]
      BY <1>18, FinalizeTask, Zenon
    <2>2. /\ env' = env /\ state' = state /\ task[w].pc = "final"
      BY <1>18, FinalizeTask DEF Finalize
    <2>3. /\ task'[w].pc = "end" /\ task'[w].kind = task[w].kind
          /\ task'[w].tx = task[w].tx /\ task'[w].was = task[w].was
          /\ task'[w].base = task[w].base /\ task'[w].saved = task[w].saved
          /\ task'[w].leader = task[w].leader /\ task'[w].late = task[w].late
          /\ task'[w].outcome = task[w].outcome /\ task'[w].ok = task[w].ok
      BY <1>0, <2>1, <2>2 DEF Tasks
    <2>4. /\ row'[t].status = "FINALIZED" /\ row'[t].ok = row[t].ok
          /\ row'[t].timeoutAppeal = row[t].timeoutAppeal
      BY <1>0, <2>1, <2>2 DEF Rows
    <2>5. TaskInv(w)'
      BY <1>0, <2>2, <2>3, <2>4
      DEF TaskInv, RowInv, Held, Alone, Executing, Apart, Eligible, Kinds
    <2>6. RowInv(t)'
      BY <1>0, <2>2, <2>3, <2>4 DEF TaskInv, RowInv, Held, Alone, Executing, Apart, Eligible
    <2> QED  BY <2>5, <2>6
  <1> QED
    BY <1>1, <1>2, <1>3, <1>4, <1>5, <1>6, <1>7, <1>8, <1>9, <1>10, <1>11, <1>12, <1>13, <1>14,
       <1>15, <1>16, <1>17, <1>18,
       Zenon DEF Step, Ends

(* A step of a rollback, which happens only where tasks are alone.         *)
LEMMA RollbackStep ==
    ASSUME TypeOK, LeaseInv, Apart, RowsInv, TasksInv, NEW w \in Workers,
           Rollback(w) \/ Forget(w)
    PROVE  /\ TaskInv(w)' /\ "parallel" \notin env /\ env' = env /\ state' = state
           /\ \A u \in Tx : \/ row'[u] = row[u]
                            \/ row'[u] = [row[u] EXCEPT !.status = "PENDING"]
                            \/ row'[u] = [row[u] EXCEPT !.snapshot = NoSnapshot]
  <1>0. task[w] \in Tasks /\ TaskInv(w)
    BY TaskTyped DEF TasksInv
  <1>1. CASE Rollback(w)
    <2>1. /\ \A u \in Tx : \/ row'[u] = row[u]
                           \/ row'[u] = [row[u] EXCEPT !.status = "PENDING"]
          /\ task'[w] = [task[w] EXCEPT !.pc = "forget"]
      BY <1>1, RollbackTask, Zenon
    <2>2. env' = env /\ state' = state /\ task[w].pc = "rollback"
      BY <1>1 DEF Rollback
    <2>3. /\ task'[w].pc = "forget" /\ task'[w].kind = task[w].kind
          /\ task'[w].was = task[w].was /\ task'[w].saved = task[w].saved
      BY <1>0, <2>1 DEF Tasks
    <2>4. TaskInv(w)' /\ "parallel" \notin env
      BY <1>0, <2>2, <2>3 DEF TaskInv, Executing
    <2> QED  BY <2>1, <2>2, <2>4
  <1>2. CASE Forget(w)
    <2>1. \A u \in Tx : \/ row'[u] = row[u]
                        \/ row'[u] = [row[u] EXCEPT !.snapshot = NoSnapshot]
      BY <1>2, ForgetTask, Zenon
    <2>2. PICK todo \in SUBSET Tx, pc \in {"rollback", "restore", "end"} :
            /\ task'[w] = [task[w] EXCEPT !.pc = pc, !.todo = todo]
            /\ pc = "restore" => task[w].kind = "appeal" /\ task[w].was = "ACCEPTED"
      BY <1>2, ForgetTask, Zenon
    <2>3. env' = env /\ state' = state /\ task[w].pc = "forget"
      BY <1>2 DEF Forget
    <2>4. /\ task'[w].pc = pc /\ task'[w].kind = task[w].kind
          /\ task'[w].was = task[w].was /\ task'[w].saved = task[w].saved
      BY <1>0, <2>2 DEF Tasks
    <2>5. /\ pc \in {"rollback", "restore", "end"}
          /\ pc = "restore" => task[w].kind = "appeal" /\ task[w].was = "ACCEPTED"
      BY <2>2
    <2>6. TaskInv(w)' /\ "parallel" \notin env
      BY <1>0, <2>3, <2>4, <2>5 DEF TaskInv, Executing
    <2> QED  BY <2>1, <2>3, <2>6
  <1> QED  BY <1>1, <1>2

(* What the step of a task does to the states, and to the rows of others.  *)
LEMMA StepState ==
    ASSUME TypeOK, LeaseInv, Apart, RowsInv, TasksInv, NEW w \in Workers,
           Step(w), ~Ends(w)
    PROVE  /\ \/ state' = state
              \/ /\ state'.finalized = state.finalized /\ Alone(w)
                 /\ state'.accepted = Append(state.accepted, task[w].tx)
                 /\ task[w].kind # "finalization" /\ state.accepted # Empty
              \/ /\ state'.finalized = state.finalized /\ "parallel" \notin env
                 /\ state'.accepted = Empty
              \/ /\ state'.finalized = state.accepted /\ task[w].kind = "finalization"
                 /\ state'.accepted = state.accepted /\ state.accepted # Empty
           /\ \A u \in Tx \ {task[w].tx} :
                \/ row'[u] = row[u]
                \/ /\ "parallel" \notin env /\ task[w].pc \in {"rollback", "forget"}
                   /\ \/ row'[u] = [row[u] EXCEPT !.status = "PENDING"]
                      \/ row'[u] = [row[u] EXCEPT !.snapshot = NoSnapshot]
  <1> DEFINE t == task[w].tx
             Untouched == \A u \in Tx \ {t} : row'[u] = row[u]
  <1>0. TaskInv(w)
    BY DEF TasksInv
  <1>1. CASE Rollback(w) \/ Forget(w)
    <2>1. task[w].pc \in {"rollback", "forget"}
      BY <1>1 DEF Rollback, Forget
    <2> QED  BY <1>1, <2>1, RollbackStep, Zenon
  <1>2. CASE WriteAccepted(w)
    <2>1. /\ state'.finalized = state.finalized
          /\ state'.accepted = Append(task[w].base, t)
      BY <1>2, WriteTask, Zenon
    <2>2. row' = row /\ task[w].pc = "write"
      BY <1>2 DEF WriteAccepted
    <2>3. /\ Alone(w) /\ task[w].base = state.accepted
          /\ task[w].kind # "finalization" /\ state.accepted # Empty
      BY <1>0, <2>2 DEF TaskInv, Executing
    <2> QED  BY <2>1, <2>2, <2>3
  <1>3. CASE Restore(w)
    <2>1. /\ state'.finalized = state.finalized
          /\ state'.accepted = IF task[w].saved # NoSnapshot THEN task[w].saved ELSE Empty
      BY <1>3, RestoreTask, Zenon
    <2>2. row' = row /\ task[w].pc = "restore"
      BY <1>3 DEF Restore
    <2>3. "parallel" \notin env /\ task[w].saved = NoSnapshot
      BY <1>0, <2>2 DEF TaskInv
    <2> QED  BY <2>1, <2>2, <2>3
  <1>4. CASE Promote(w)
    <2>1. /\ state'.finalized = task[w].base
          /\ state'.accepted = state.accepted
      BY <1>4, PromoteTask, Zenon
    <2>2. row' = row /\ task[w].pc = "promote"
      BY <1>4 DEF Promote
    <2>3. /\ task[w].base = state.accepted /\ state.accepted # Empty
          /\ task[w].kind = "finalization"
      BY <1>0, <2>2 DEF TaskInv
    <2> QED  BY <2>1, <2>2, <2>3
  <1>5. CASE Progress(w)
    <2>1. state' = state /\ Untouched
      BY <1>5, ProgressTask, Zenon DEF Progress
    <2> QED  BY <2>1
  <1>6. CASE Begin(w)
    <2>1. state' = state /\ Untouched
      BY <1>6, BeginTask, Zenon DEF Begin
    <2> QED  BY <2>1
  <1>7. CASE Decide(w)
    <2>1. state' = state /\ Untouched
      BY <1>7, DecideTask DEF Decide
    <2> QED  BY <2>1
  <1>8. CASE Save(w)
    <2>1. state' = state /\ Untouched
      BY <1>8, SaveTask DEF Save
    <2> QED  BY <2>1
  <1>9. CASE Conclude(w)
    <2>1. state' = state /\ Untouched
      BY <1>9, ConcludeTask, Zenon DEF Conclude
    <2> QED  BY <2>1
  <1>10. CASE AppealFails(w)
    <2>1. state' = state /\ Untouched
      BY <1>10, AppealFailsTask DEF AppealFails
    <2> QED  BY <2>1
  <1>11. CASE LeaderAppeal(w)
    <2>1. state' = state /\ Untouched
      BY <1>11, LeaderAppealTask, Zenon DEF LeaderAppeal
    <2> QED  BY <2>1
  <1>12. CASE ValidatorAppeal(w)
    <2>1. state' = state /\ Untouched
      BY <1>12, ValidatorAppealTask, Zenon DEF ValidatorAppeal
    <2> QED  BY <2>1
  <1>13. CASE RejectAppeal(w)
    <2>1. state' = state /\ Untouched
      BY <1>13, RejectTask, Zenon DEF RejectAppeal
    <2> QED  BY <2>1
  <1>14. CASE UpholdAppeal(w)
    <2>1. state' = state /\ Untouched
      BY <1>14, UpholdTask DEF UpholdAppeal
    <2> QED  BY <2>1
  <1>15. CASE Clear(w)
    <2>1. state' = state /\ Untouched
      BY <1>15, ClearTask DEF Clear
    <2> QED  BY <2>1
  <1>16. CASE Requeue(w)
    <2>1. state' = state /\ Untouched
      BY <1>16, RequeueTask DEF Requeue
    <2> QED  BY <2>1
  <1>17. CASE ReadAccepted(w)
    <2>1. state' = state /\ row' = row
      BY <1>17 DEF ReadAccepted
    <2> QED  BY <2>1
  <1>18. CASE MissingAccepted(w)
    <2>1. state' = state /\ Untouched
      BY <1>18, MissingTask DEF MissingAccepted
    <2> QED  BY <2>1
  <1>19. CASE Finalize(w)
    <2>1. state' = state /\ Untouched
      BY <1>19, FinalizeTask DEF Finalize
    <2> QED  BY <2>1
  <1> QED
    BY <1>1, <1>2, <1>3, <1>4, <1>5, <1>6, <1>7, <1>8, <1>9, <1>10, <1>11, <1>12, <1>13,
       <1>14, <1>15, <1>16, <1>17, <1>18, <1>19, Zenon DEF Step, Ends

(* Such a step keeps what the rows and the tasks of others know.           *)
LEMMA OtherRow ==
    ASSUME TypeOK, LeaseInv, Apart, RowsInv, TasksInv, NEW w \in Workers,
           Step(w), ~Ends(w), NEW u \in Tx, u # task[w].tx
    PROVE  RowInv(u)'
  <1>1. row[u] \in Rows /\ RowInv(u) /\ env' = env
        /\ state.accepted \in States /\ task[w].tx \in Tx
    BY RowTyped, StepFrame, TaskTyped DEF RowsInv, TypeOK, Tasks
  <1>2. \/ row'[u] = row[u]
        \/ row'[u] = [row[u] EXCEPT !.status = "PENDING"]
        \/ row'[u] = [row[u] EXCEPT !.snapshot = NoSnapshot]
    BY StepState, Zenon
  <1>3. /\ row'[u].status = row[u].status \/ row'[u].status = "PENDING"
        /\ row'[u].ok = row[u].ok /\ row'[u].timeoutAppeal = row[u].timeoutAppeal
    BY <1>1, <1>2 DEF Rows
  <1>4. /\ Held(u) => Held(u)'
        /\ \/ u \in Effects(state.finalized) => u \in Effects(state'.finalized)
           \/ Held(u) => u \in Effects(state'.finalized)
    <2>1. CASE state' = state
      BY <2>1 DEF Held
    <2>2. CASE /\ state'.finalized = state.finalized /\ state.accepted # Empty
               /\ state'.accepted = Append(state.accepted, task[w].tx)
      <3>1. u \in Effects(state.accepted) => u \in Effects(state'.accepted)
        BY <1>1, <2>2, AppendHolds
      <3> QED  BY <2>2, <3>1 DEF Held
    <2>3. CASE state'.finalized = state.finalized /\ state'.accepted = Empty
      BY <2>3 DEF Held
    <2>4. CASE /\ state'.finalized = state.accepted
               /\ state'.accepted = state.accepted /\ state.accepted # Empty
      BY <2>4 DEF Held
    <2> QED  BY <2>1, <2>2, <2>3, <2>4, StepState, Zenon
  <1> QED  BY <1>1, <1>3, <1>4 DEF RowInv

LEMMA OtherTask ==
    ASSUME TypeOK, LeaseInv, Apart, RowsInv, TasksInv, NEW w \in Workers,
           Step(w), ~Ends(w), NEW v \in Workers \ {w}
    PROVE  TaskInv(v)'
  <1> DEFINE t == task[v].tx
  <1>1. /\ task[v] \in Tasks /\ t \in Tx /\ row[t] \in Rows /\ TaskInv(v)
        /\ state.accepted \in States /\ task[w].tx \in Tx
    BY TaskTyped, RowTyped DEF TasksInv, TypeOK, Tasks
  <1>2. env' = env /\ task'[v] = task[v] /\ Working(w)
    BY StepFrame
  <1>3. CASE ~Working(v)
    BY <1>1, <1>2, <1>3 DEF TaskInv, Working, Executing
  <1>4. CASE Working(v)
    <2>1. /\ task[v].tx # task[w].tx /\ "parallel" \in env
          /\ task[v].kind = "appeal" \/ task[w].kind = "appeal"
      BY <1>2, <1>4 DEF LeaseInv
    <2>2. row'[t] = row[t]
      BY <1>1, <2>1, StepState
    <2>3. CASE state' = state
      BY <1>1, <1>2, <2>2, <2>3 DEF TaskInv, Executing, Alone, Held
    <2>4. CASE /\ state'.finalized = state.finalized /\ Alone(w)
               /\ state'.accepted = Append(state.accepted, task[w].tx)
               /\ task[w].kind # "finalization" /\ state.accepted # Empty
      <3>1. task[v].kind = "appeal"
        BY <2>1, <2>4 DEF Alone
      <3>2. Held(t) => t \in Effects(state'.accepted)
        BY <1>1, <2>4, AppendHolds DEF Held
      <3> QED
        BY <1>1, <1>2, <2>1, <2>2, <2>4, <3>1, <3>2 DEF TaskInv, Executing, Alone, Held
    <2>5. CASE /\ state'.finalized = state.accepted /\ task[w].kind = "finalization"
               /\ state'.accepted = state.accepted /\ state.accepted # Empty
      <3>1. task[v].kind = "appeal"
        BY <2>1, <2>5
      <3> QED
        BY <1>1, <1>2, <2>1, <2>2, <2>5, <3>1 DEF TaskInv, Executing, Alone, Held
    <2> QED  BY <2>1, <2>3, <2>4, <2>5, StepState
  <1> QED  BY <1>3, <1>4

(* A row that keeps its effect, or loses its status, keeps its invariant   *)
(* while the states stay.                                                  *)
LEMMA SameStateRow ==
    ASSUME TypeOK, RowsInv, NEW u \in Tx, state' = state, env' = env,
           \/ row'[u] = row[u]
           \/ row'[u] = [row[u] EXCEPT !.status = "PENDING"]
           \/ row'[u] = [row[u] EXCEPT !.status = "CANCELED"]
           \/ row'[u] = [row[u] EXCEPT !.snapshot = NoSnapshot]
           \/ row'[u] = [row[u] EXCEPT !.appealed = TRUE]
           \/ row'[u] = [row[u] EXCEPT !.status = "PENDING", !.receipt = FALSE,
                                       !.timeoutAppeal = FALSE]
    PROVE  RowInv(u)'
  <1>1. row[u] \in Rows /\ RowInv(u)
    BY RowTyped DEF RowsInv
  <1>2. /\ row'[u].status \in {row[u].status, "PENDING", "CANCELED"}
        /\ row'[u].ok = row[u].ok
        /\ row'[u].timeoutAppeal => row[u].timeoutAppeal
    <2>1. CASE row'[u] = row[u]
      BY <2>1
    <2>2. CASE row'[u] = [row[u] EXCEPT !.status = "PENDING"]
      BY <1>1, <2>2 DEF Rows
    <2>3. CASE row'[u] = [row[u] EXCEPT !.status = "CANCELED"]
      BY <1>1, <2>3 DEF Rows
    <2>4. CASE row'[u] = [row[u] EXCEPT !.snapshot = NoSnapshot]
      BY <1>1, <2>4 DEF Rows
    <2>5. CASE row'[u] = [row[u] EXCEPT !.appealed = TRUE]
      BY <1>1, <2>5 DEF Rows
    <2>6. CASE row'[u] = [row[u] EXCEPT !.status = "PENDING", !.receipt = FALSE,
                                        !.timeoutAppeal = FALSE]
      BY <1>1, <2>6 DEF Rows
    <2> QED  BY <2>1, <2>2, <2>3, <2>4, <2>5, <2>6
  <1> QED  BY <1>1, <1>2 DEF RowInv, Held

(* A task whose row keeps its status and its effect keeps its invariant.   *)
LEMMA SameStateTask ==
    ASSUME NEW v, TaskInv(v), state' = state, env' = env, task'[v] = task[v],
           Working(v) => /\ row'[task[v].tx].status = row[task[v].tx].status
                         /\ row'[task[v].tx].ok = row[task[v].tx].ok
    PROVE  TaskInv(v)'
  BY DEF TaskInv, Executing, Alone, Held, Working

FinalInv == Apart => RowsInv /\ TasksInv

(* Every step keeps what rows and tasks know.                              *)
LEMMA FinalStep ==
    ASSUME TypeOK, LeaseInv, FinalInv, Next
    PROVE  FinalInv'
  <1> SUFFICES ASSUME Apart' PROVE (RowsInv /\ TasksInv)'
    BY DEF FinalInv
  <1>1. ASSUME NEW t \in Tx,
               Submit(t) \/ Cancel(t) \/ Appeal(t) \/ Recover(t) \/ ReleaseOrphan(t)
        PROVE  (RowsInv /\ TasksInv)'
    <2>1. /\ env' = env /\ state' = state /\ task' = task
          /\ \A u \in Tx : \/ row'[u] = row[u]
                           \/ row'[u] = [row[u] EXCEPT !.appealed = TRUE]
                           \/ ~Live(u) \/ ~Present(u)
          /\ \A u \in Tx : \/ row'[u] = row[u]
                           \/ row'[u] = [row[u] EXCEPT !.status = "PENDING"]
                           \/ row'[u] = [row[u] EXCEPT !.status = "CANCELED"]
                           \/ row'[u] = [row[u] EXCEPT !.appealed = TRUE]
                           \/ row'[u] = [row[u] EXCEPT !.status = "PENDING",
                                            !.receipt = FALSE, !.timeoutAppeal = FALSE]
      BY <1>1, UserFrame, Zenon
    <2>2. RowsInv /\ TasksInv
      BY <2>1 DEF FinalInv, Apart
    <2>3. \A u \in Tx : RowInv(u)'
      BY <2>1, <2>2, SameStateRow, Zenon
    <2>4. ASSUME NEW v \in Workers
          PROVE  TaskInv(v)'
      <3>1. task[v].tx \in Tx /\ row[task[v].tx] \in Rows
        BY TaskTyped, RowTyped DEF Tasks
      <3>2. ASSUME Working(v)
            PROVE  /\ row'[task[v].tx].status = row[task[v].tx].status
                   /\ row'[task[v].tx].ok = row[task[v].tx].ok
        <4>1. \/ row'[task[v].tx] = row[task[v].tx]
              \/ row'[task[v].tx] = [row[task[v].tx] EXCEPT !.appealed = TRUE]
          BY <2>1, <3>1, <3>2 DEF LeaseInv
        <4> QED  BY <3>1, <4>1 DEF Rows
      <3>3. TaskInv(v) /\ task'[v] = task[v]
        BY <2>1, <2>2 DEF TasksInv
      <3> QED  BY <2>1, <3>2, <3>3, SameStateTask
    <2> QED  BY <2>3, <2>4 DEF RowsInv, TasksInv
  <1>2. ASSUME NEW w \in Workers, Step(w), ~Ends(w)
        PROVE  (RowsInv /\ TasksInv)'
    <2>1. task[w].tx \in Tx /\ env' = env /\ task'[w].tx = task[w].tx
      BY <1>2, TaskTyped, StepFrame DEF Tasks
    <2>2. RowsInv /\ TasksInv /\ Apart
      BY <2>1 DEF FinalInv, Apart
    <2>3. TaskInv(w)'
      <3>1. CASE Rollback(w) \/ Forget(w)
        BY <2>2, <3>1, RollbackStep, Zenon
      <3>2. CASE ~(Rollback(w) \/ Forget(w))
        BY <1>2, <2>2, <3>2, OwnStep, Zenon
      <3> QED  BY <3>1, <3>2
    <2>4. ASSUME NEW u \in Tx PROVE RowInv(u)'
      <3>1. CASE u # task[w].tx
        BY <1>2, <2>2, <3>1, OtherRow, Zenon
      <3>2. CASE u = task[w].tx /\ (Rollback(w) \/ Forget(w))
        <4>1. /\ env' = env /\ state' = state
              /\ \/ row'[u] = row[u]
                 \/ row'[u] = [row[u] EXCEPT !.status = "PENDING"]
                 \/ row'[u] = [row[u] EXCEPT !.snapshot = NoSnapshot]
          BY <2>2, <3>2, RollbackStep, Zenon
        <4> QED  BY <2>2, <4>1, SameStateRow, Zenon
      <3>3. CASE u = task[w].tx /\ ~(Rollback(w) \/ Forget(w))
        <4>1. RowInv(task[w].tx)'
          BY <1>2, <2>2, <3>3, OwnStep, Zenon
        <4> QED  BY <2>1, <3>3, <4>1 DEF RowInv, Held
      <3> QED  BY <3>1, <3>2, <3>3
    <2>5. \A v \in Workers \ {w} : TaskInv(v)'
      BY <1>2, <2>2, OtherTask, Zenon
    <2>6. \A v \in Workers : TaskInv(v)'
      BY <2>3, <2>5, Zenon
    <2> QED  BY <2>4, <2>6 DEF RowsInv, TasksInv
  <1>3. ASSUME NEW w \in Workers, Ends(w)
        PROVE  (RowsInv /\ TasksInv)'
    <2>1. /\ env' = env /\ state' = state /\ Working(w) /\ task'[w] = NoTask
          /\ \A v \in Workers \ {w} : task'[v] = task[v]
          /\ \A u \in Tx \ {task[w].tx} : row'[u] = row[u]
          /\ \A u \in Tx : \/ row'[u] = row[u]
                           \/ row'[u] = [row[u] EXCEPT !.status = "PENDING",
                                            !.receipt = FALSE, !.timeoutAppeal = FALSE]
      BY <1>3, EndFrame, Zenon
    <2>2. RowsInv /\ TasksInv
      BY <2>1 DEF FinalInv, Apart
    <2>3. \A u \in Tx : RowInv(u)'
      BY <2>1, <2>2, SameStateRow, Zenon
    <2>4. TaskInv(w)'
      <3>1. task'[w] = NoTask
        BY <2>1, Zenon
      <3>2. task'[w].pc = "idle" /\ task'[w].kind = "transaction"
        BY <3>1 DEF NoTask
      <3> QED  BY <3>2 DEF TaskInv, Executing
    <2>5. ASSUME NEW v \in Workers \ {w}
          PROVE  TaskInv(v)'
      <3>1. TaskInv(v) /\ task'[v] = task[v] /\ task[v].tx \in Tx
        BY <2>1, <2>2, TaskTyped DEF TasksInv, Tasks
      <3>2. Working(v) => row'[task[v].tx] = row[task[v].tx]
        BY <2>1, <3>1 DEF LeaseInv
      <3> QED  BY <2>1, <3>1, <3>2, SameStateTask
    <2>6. \A v \in Workers : TaskInv(v)'
      BY <2>4, <2>5, Zenon
    <2> QED  BY <2>3, <2>6 DEF RowsInv, TasksInv
  <1>4. ASSUME NEW w \in Workers, NEW kind \in Kinds, NEW t \in Tx, Claim(w, kind, t)
        PROVE  (RowsInv /\ TasksInv)'
    <2>1. /\ env' = env /\ state' = state /\ row' = row
          /\ task'[w].pc = "start" /\ task'[w].kind = kind /\ task'[w].tx = t
          /\ task'[w].was = row[t].status /\ task'[w].saved = NoSnapshot
          /\ \A v \in Workers \ {w} : task'[v] = task[v]
          /\ IF kind = "transaction" THEN row[t].status = "PENDING"
                                     ELSE row[t].status \in Eligible
      BY <1>4, ClaimFrame
    <2>2. RowsInv /\ TasksInv
      BY <2>1 DEF FinalInv, Apart
    <2>3. \A u \in Tx : RowInv(u)'
      BY <2>1, <2>2, SameStateRow, Zenon
    <2>4. TaskInv(w)'
      BY <2>1 DEF TaskInv, Executing
    <2>5. ASSUME NEW v \in Workers \ {w}
          PROVE  TaskInv(v)'
      <3>1. TaskInv(v) /\ task'[v] = task[v]
        BY <2>1, <2>2 DEF TasksInv
      <3> QED  BY <2>1, <3>1, SameStateTask
    <2>6. \A v \in Workers : TaskInv(v)'
      BY <2>4, <2>5, Zenon
    <2> QED  BY <2>3, <2>6 DEF RowsInv, TasksInv
  <1> QED  BY <1>1, <1>2, <1>3, <1>4, Zenon DEF Next

(* The effect of a finalized transaction stays in the finalized state,     *)
(* whatever is finalized, appealed, rolled back or wiped after it.         *)
THEOREM FinalEffectsStay == Spec => []FinalIsKept
  <1> DEFINE Inv == TypeOK /\ LeaseInv /\ FinalInv
  <1>1. Init => Inv
    <2> SUFFICES ASSUME Init PROVE Inv
      OBVIOUS
    <2>1. TypeOK
      BY InitTyped
    <2>2. /\ \A w \in Workers : task[w] = NoTask
          /\ \A t \in Tx : row[t] = NewRow
      BY DEF Init
    <2>3. LeaseInv
      BY <2>2 DEF LeaseInv, Working, NoTask
    <2>4. RowsInv
      BY <2>2 DEF RowsInv, RowInv, NewRow
    <2>5. TasksInv
      BY <2>2 DEF TasksInv, TaskInv, NoTask, Executing
    <2> QED  BY <2>1, <2>3, <2>4, <2>5 DEF FinalInv
  <1>2. Inv /\ [Next]_vars => Inv'
    <2> SUFFICES ASSUME Inv, [Next]_vars PROVE Inv'
      OBVIOUS
    <2>1. CASE UNCHANGED vars
      BY <2>1 DEF vars, TypeOK, LeaseInv, Working, Live, Present, FinalInv, Apart, RowsInv,
                  RowInv, TasksInv, TaskInv, Held, Alone, Executing
    <2>2. CASE Next
      BY <2>2, LeaseStep, FinalStep
    <2> QED  BY <2>1, <2>2
  <1>3. Inv => FinalIsKept
    BY DEF FinalInv, RowsInv, RowInv, FinalIsKept
  <1> QED  BY <1>1, <1>2, <1>3, PTL DEF Spec

-----------------------------------------------------------------------------
(* Why the accepted state is the history.  All that follows is of an       *)
(* Undisturbed execution: no appeal is won, so nothing is undone.          *)

OnIt(w, t)  == Working(w) /\ task[w].tx = t
InFlight(w) == task[w].pc = "status" \/ (task[w].pc = "vote" /\ task[w].was = "ACCEPTED")
Undone      == {"rollback", "forget", "restore", "clear", "requeue"}

(* No task undoes, and one that ends has decided.                          *)
CalmTask(w) ==
    /\ task[w].pc \notin Undone
    /\ task[w].pc = "end" => Decided(task[w].tx)
    /\ Working(w) /\ task[w].kind = "appeal" => "appeal" \in env

(* Only users mark and cancel, and without crashes a row in execution is   *)
(* the row of a task.                                                      *)
CalmMarks(t) ==
    /\ row[t].appealed \/ row[t].flag # "none" => "appeal" \in env
    /\ row[t].status = "CANCELED" => "cancel" \in env
CalmRow(t) ==
    /\ CalmMarks(t)
    /\ row[t].status = "PROCESSING" => "crash" \in env \/ \E w \in Workers : OnIt(w, t)
    /\ Present(t) => \A u \in Tx : u < t => Present(u)

(* What was begun leaves only decided ones behind it, but for those that   *)
(* appeals execute again.                                                  *)
Begun(t) ==
    \/ row[t].status \notin {"ABSENT", "PENDING", "CANCELED"}
    \/ \E w \in Workers : OnIt(w, t) /\ task[w].kind = "transaction"
Past(t) ==
    \/ Decided(t)
    \/ row[t].status = "PROCESSING" /\ \E w \in Workers : OnIt(w, t) /\ task[w].kind = "appeal"
InOrder == \A u \in Tx : Begun(u) => \A t \in Tx : t < u => Past(t)

(* Every effect is that of a transaction that is accepted, or will be by   *)
(* the next step of its task.                                              *)
Accounted(t) ==
    /\ row[t].ok
    /\ \/ row[t].status \in {"ACCEPTED", "FINALIZED"}
       \/ \E w \in Workers : OnIt(w, t) /\ InFlight(w)
Accounts ==
    /\ Effects(state.accepted) \subseteq {0} \cup Tx /\ 0 \in Effects(state.accepted)
    /\ \A t \in Tx : t \in Effects(state.accepted) => Accounted(t)
    /\ Ascending(state.accepted)

CalmInv ==
    /\ state.accepted # Empty
    /\ \A w \in Workers : CalmTask(w)
    /\ \A t \in Tx : CalmRow(t)
HistoryInv == Undisturbed => CalmInv /\ InOrder /\ Accounts

(* Undisturbed executions are Apart.                                       *)
LEMMA CalmIsApart == Undisturbed => Apart
  BY DEF Undisturbed, Apart

(* How a task moves the status of its row, and what it does to its effect. *)
Moves(w) ==
    LET s == row[task[w].tx].status
        n == row'[task[w].tx].status IN
    \/ n = s
    \/ s = "PENDING" /\ task[w].kind = "transaction" /\ n = "PROCESSING"
    \/ s = "PROCESSING" /\ n \in Eligible
    \/ s \in Eligible /\ task[w].kind = "appeal" /\ n = "PROCESSING"
    \/ s \in Eligible /\ n = "FINALIZED"
OwnEffect(w) ==
    /\ row[task[w].tx].ok
    /\ row[task[w].tx].status \in {"ACCEPTED", "FINALIZED"} \/ InFlight(w)

LEMMA CalmOwn ==
    ASSUME TypeOK, LeaseInv, Undisturbed, RowsInv, TasksInv, CalmInv, NEW w \in Workers,
           Step(w), ~Ends(w)
    PROVE  /\ CalmTask(w)' /\ CalmMarks(task[w].tx)' /\ Moves(w)
           /\ task[w].pc = "write" \/ OwnEffect(w) => OwnEffect(w)'
           /\ \/ state'.accepted = state.accepted
              \/ /\ task[w].pc = "write"
                 /\ state'.accepted = Append(task[w].base, task[w].tx)
  <1> DEFINE t == task[w].tx
  <1>0. /\ task[w] \in Tasks /\ row[t] \in Rows /\ t \in Tx
        /\ task[w].kind \in Kinds
        /\ TaskInv(w) /\ RowInv(t) /\ CalmTask(w) /\ CalmMarks(t)
        /\ "upheld" \notin env /\ state.accepted # Empty
    BY TaskTyped, RowTyped DEF Tasks, RowsInv, TasksInv, CalmInv, CalmRow, Undisturbed
  <1>1. CASE Begin(w)
    <2>1. PICK l \in BOOLEAN :
            /\ task'[w] = [task[w] EXCEPT !.pc = "run", !.leader = l,
                                           !.base = ContextBase(task[w].saved),
                                           !.saved = row[t].snapshot,
                                           !.late = row[t].timeoutAppeal]
      BY <1>1, BeginTask, Zenon
    <2>2. /\ env' = env /\ state' = state /\ task[w].pc = "start"
          /\ task[w].kind = "transaction" /\ row'[t].status = "PROCESSING"
          /\ row'[t].ok = row[t].ok /\ row'[t].appealed = FALSE
          /\ row'[t].flag \in {row[t].flag, "none"}
      BY <1>1, BeginTask, Zenon DEF Begin, At
    <2>3. /\ task'[w].pc = "run" /\ task'[w].kind = task[w].kind
          /\ task'[w].tx = task[w].tx /\ task'[w].was = task[w].was
      BY <1>0, <2>1, <2>2 DEF Tasks
    <2>4. /\ row'[t].status = "PROCESSING" /\ row'[t].ok = row[t].ok
          /\ row'[t].appealed = FALSE
      BY <1>0, <2>1, <2>2 DEF Rows
    <2> QED
      BY <1>0, <2>2, <2>3, <2>4
      DEF CalmTask, CalmMarks, TaskInv, RowInv, Executing, Decided, Moves, OwnEffect, InFlight,
          Undone, Eligible, Terminal, Kinds, Working
  <1>2. CASE Progress(w)
    <2>1. /\ row'[t] = [row[t] EXCEPT !.status = "PROCESSING"]
      BY <1>2, ProgressTask, Zenon
    <2>2. /\ env' = env /\ state' = state /\ task' = task /\ task[w].pc = "run"
      BY <1>2, ProgressTask DEF Progress
    <2>3. /\ task'[w].pc = task[w].pc /\ task'[w].kind = task[w].kind
          /\ task'[w].tx = task[w].tx /\ task'[w].was = task[w].was
      BY <1>0, <2>1, <2>2 DEF Tasks
    <2>4. /\ row'[t].status = "PROCESSING" /\ row'[t].ok = row[t].ok
          /\ row'[t].appealed = row[t].appealed /\ row'[t].flag = row[t].flag
      BY <1>0, <2>1, <2>2 DEF Rows
    <2> QED
      BY <1>0, <2>2, <2>3, <2>4
      DEF CalmTask, CalmMarks, TaskInv, RowInv, Executing, Decided, Moves, OwnEffect, InFlight,
          Undone, Eligible, Terminal, Kinds, Working
  <1>3. CASE Decide(w)
    <2>1. PICK s \in Eligible, ok \in BOOLEAN :
            /\ ok => s = "ACCEPTED" /\ task[w].base # Empty
            /\ task[w].leader /\ s = "ACCEPTED" => "upheld" \in env
            /\ row'[t] = [row[t] EXCEPT !.receipt = TRUE, !.ok = ok,
                                         !.timeoutAppeal = FALSE]
            /\ task'[w] = [task[w] EXCEPT !.pc = "save", !.outcome = s, !.ok = ok]
      BY <1>3, DecideTask, Zenon
    <2>2. /\ env' = env /\ state' = state /\ task[w].pc = "run"
      BY <1>3, DecideTask DEF Decide
    <2>3. /\ task'[w].pc = "save" /\ task'[w].kind = task[w].kind
          /\ task'[w].tx = task[w].tx /\ task'[w].was = task[w].was
      BY <1>0, <2>1, <2>2 DEF Tasks
    <2>4. /\ row'[t].status = row[t].status /\ row'[t].ok = ok
          /\ row'[t].appealed = row[t].appealed /\ row'[t].flag = row[t].flag
      BY <1>0, <2>1, <2>2 DEF Rows
    <2> QED
      BY <1>0, <2>2, <2>3, <2>4
      DEF CalmTask, CalmMarks, TaskInv, RowInv, Executing, Decided, Moves, OwnEffect, InFlight,
          Undone, Eligible, Terminal, Kinds, Working
  <1>4. CASE Save(w)
    <2>1. /\ row'[t] = [row[t] EXCEPT !.snapshot =
                           IF task[w].saved = NoSnapshot THEN task[w].base ELSE task[w].saved]
          /\ task'[w] = [task[w] EXCEPT !.pc = IF task[w].ok THEN "write" ELSE "status"]
      BY <1>4, SaveTask, Zenon
    <2>2. /\ env' = env /\ state' = state /\ task[w].pc = "save"
      BY <1>4, SaveTask DEF Save
    <2>3. /\ task'[w].pc = (IF task[w].ok THEN "write" ELSE "status")
          /\ task'[w].kind = task[w].kind /\ task'[w].tx = task[w].tx
          /\ task'[w].was = task[w].was
      BY <1>0, <2>1, <2>2 DEF Tasks
    <2>4. /\ row'[t].status = row[t].status /\ row'[t].ok = row[t].ok
          /\ row'[t].appealed = row[t].appealed /\ row'[t].flag = row[t].flag
      BY <1>0, <2>1, <2>2 DEF Rows
    <2> QED
      BY <1>0, <2>2, <2>3, <2>4
      DEF CalmTask, CalmMarks, TaskInv, RowInv, Executing, Decided, Moves, OwnEffect, InFlight,
          Undone, Eligible, Terminal, Kinds, Working
  <1>5. CASE WriteAccepted(w)
    <2>1. /\ task'[w] = [task[w] EXCEPT !.pc = "status"]
      BY <1>5, WriteTask, Zenon
    <2>2. /\ env' = env /\ row' = row /\ task[w].pc = "write"
          /\ state'.accepted = Append(task[w].base, t)
      BY <1>5, WriteTask DEF WriteAccepted
    <2>3. /\ task'[w].pc = "status" /\ task'[w].kind = task[w].kind
          /\ task'[w].tx = task[w].tx /\ task'[w].was = task[w].was
      BY <1>0, <2>1, <2>2 DEF Tasks
    <2>4. /\ row'[t].status = row[t].status /\ row'[t].ok = row[t].ok
          /\ row'[t].appealed = row[t].appealed /\ row'[t].flag = row[t].flag
      BY <1>0, <2>1, <2>2 DEF Rows
    <2> QED
      BY <1>0, <2>2, <2>3, <2>4
      DEF CalmTask, CalmMarks, TaskInv, RowInv, Executing, Decided, Moves, OwnEffect, InFlight,
          Undone, Eligible, Terminal, Kinds, Working
  <1>6. CASE Conclude(w)
    <2>1. PICK todo \in SUBSET Tx, pc \in {"rollback", "restore", "end"} :
            /\ task'[w] = [task[w] EXCEPT !.pc = pc, !.todo = todo]
            /\ pc # "end" => /\ task[w].outcome = "ACCEPTED"
                             /\ task[w].kind = "appeal" \/ task[w].late
            /\ pc = "restore" => task[w].kind = "appeal" /\ task[w].was = "ACCEPTED"
      BY <1>6, ConcludeTask, Zenon
    <2>2. /\ env' = env /\ state' = state /\ task[w].pc = "status"
          /\ row'[t].status = task[w].outcome /\ row'[t].ok = row[t].ok
          /\ row'[t].appealed = row[t].appealed
          /\ row'[t].flag \in {row[t].flag, "none"}
      BY <1>6, ConcludeTask, Zenon DEF Conclude
    <2>3. /\ task'[w].pc = pc /\ task'[w].kind = task[w].kind
          /\ task'[w].tx = task[w].tx /\ task'[w].was = task[w].was
      BY <1>0, <2>1, <2>2 DEF Tasks
    <2>4. /\ row'[t].status = task[w].outcome /\ row'[t].ok = row[t].ok
          /\ row'[t].appealed = row[t].appealed
      BY <1>0, <2>1, <2>2 DEF Rows
    <2>5. /\ pc \in {"rollback", "restore", "end"}
          /\ pc # "end" => task[w].outcome = "ACCEPTED"
          /\ pc # "end" => task[w].kind = "appeal" \/ task[w].late
      BY <2>1
    <2> QED
      BY <1>0, <2>2, <2>3, <2>4, <2>5
      DEF CalmTask, CalmMarks, TaskInv, RowInv, Executing, Decided, Moves, OwnEffect, InFlight,
          Undone, Eligible, Terminal, Kinds, Working
  <1>7. CASE Rollback(w)
    BY <1>0, <1>7 DEF Rollback, CalmTask, Undone
  <1>8. CASE Forget(w)
    BY <1>0, <1>8 DEF Forget, CalmTask, Undone
  <1>9. CASE AppealFails(w)
    <2>1. /\ row'[t] = [row[t] EXCEPT !.appealed = FALSE]
          /\ task'[w] = [task[w] EXCEPT !.pc = "end"]
      BY <1>9, AppealFailsTask, Zenon
    <2>2. /\ env' = env /\ state' = state /\ task[w].pc = "start"
          /\ task[w].kind = "appeal"
      BY <1>9, AppealFailsTask DEF AppealFails, At
    <2>3. /\ task'[w].pc = "end" /\ task'[w].kind = task[w].kind
          /\ task'[w].tx = task[w].tx /\ task'[w].was = task[w].was
      BY <1>0, <2>1, <2>2 DEF Tasks
    <2>4. /\ row'[t].status = row[t].status /\ row'[t].ok = row[t].ok
          /\ row'[t].appealed = FALSE /\ row'[t].flag = row[t].flag
      BY <1>0, <2>1, <2>2 DEF Rows
    <2> QED
      BY <1>0, <2>2, <2>3, <2>4
      DEF CalmTask, CalmMarks, TaskInv, RowInv, Executing, Decided, Moves, OwnEffect, InFlight,
          Undone, Eligible, Terminal, Kinds, Working
  <1>10. CASE LeaderAppeal(w)
    <2>1. /\ row'[t] = [row[t] EXCEPT !.appealed = FALSE, !.flag = "undetermined",
                                       !.status = "PROCESSING"]
          /\ task'[w] = [task[w] EXCEPT !.pc = "run", !.leader = TRUE,
                                         !.base = ContextBase(task[w].saved),
                                         !.saved = row[t].snapshot,
                                         !.late = row[t].timeoutAppeal]
      BY <1>10, LeaderAppealTask, Zenon
    <2>2. /\ env' = env /\ state' = state /\ task[w].pc = "start"
          /\ task[w].kind = "appeal" /\ task[w].was = "UNDETERMINED"
      BY <1>10, LeaderAppealTask, Zenon DEF LeaderAppeal, At
    <2>3. /\ task'[w].pc = "run" /\ task'[w].kind = task[w].kind
          /\ task'[w].tx = task[w].tx /\ task'[w].was = task[w].was
      BY <1>0, <2>1, <2>2 DEF Tasks
    <2>4. /\ row'[t].status = "PROCESSING" /\ row'[t].ok = row[t].ok
          /\ row'[t].appealed = FALSE /\ row'[t].flag = "undetermined"
      BY <1>0, <2>1, <2>2 DEF Rows
    <2> QED
      BY <1>0, <2>2, <2>3, <2>4
      DEF CalmTask, CalmMarks, TaskInv, RowInv, Executing, Decided, Moves, OwnEffect, InFlight,
          Undone, Eligible, Terminal, Kinds, Working
  <1>11. CASE ValidatorAppeal(w)
    <2>1. /\ row'[t] = [row[t] EXCEPT !.status = "PROCESSING",
                 !.appealed = ~(task[w].was = "VALIDATORS_TIMEOUT"),
                 !.flag = IF task[w].was = "VALIDATORS_TIMEOUT" THEN "timeout" ELSE row[t].flag]
          /\ task'[w] = [task[w] EXCEPT !.pc = "vote", !.base = ContextBase(task[w].saved)]
      BY <1>11, ValidatorAppealTask, Zenon
    <2>2. /\ env' = env /\ state' = state /\ task[w].pc = "start"
          /\ task[w].kind = "appeal" /\ task[w].was # "UNDETERMINED"
      BY <1>11, ValidatorAppealTask, Zenon DEF ValidatorAppeal, At
    <2>3. /\ task'[w].pc = "vote" /\ task'[w].kind = task[w].kind
          /\ task'[w].tx = task[w].tx /\ task'[w].was = task[w].was
      BY <1>0, <2>1, <2>2 DEF Tasks
    <2>4. /\ row'[t].status = "PROCESSING" /\ row'[t].ok = row[t].ok
      BY <1>0, <2>1, <2>2 DEF Rows
    <2> QED
      BY <1>0, <2>2, <2>3, <2>4
      DEF CalmTask, CalmMarks, TaskInv, RowInv, Executing, Decided, Moves, OwnEffect, InFlight,
          Undone, Eligible, Terminal, Kinds, Working
  <1>12. CASE RejectAppeal(w)
    <2>1. /\ row'[t] = [row[t] EXCEPT !.status = task[w].was, !.appealed = FALSE]
          /\ task'[w] = [task[w] EXCEPT !.pc = "end"]
      BY <1>12, RejectTask, Zenon
    <2>2. /\ env' = env /\ state' = state /\ task[w].pc = "vote"
      BY <1>12, RejectTask DEF RejectAppeal
    <2>3. /\ task'[w].pc = "end" /\ task'[w].kind = task[w].kind
          /\ task'[w].tx = task[w].tx /\ task'[w].was = task[w].was
      BY <1>0, <2>1, <2>2 DEF Tasks
    <2>4. /\ row'[t].status = task[w].was /\ row'[t].ok = row[t].ok
          /\ row'[t].appealed = FALSE /\ row'[t].flag = row[t].flag
      BY <1>0, <2>1, <2>2 DEF Rows
    <2> QED
      BY <1>0, <2>2, <2>3, <2>4
      DEF CalmTask, CalmMarks, TaskInv, RowInv, Executing, Decided, Moves, OwnEffect, InFlight,
          Undone, Eligible, Terminal, Kinds, Working
  <1>13. CASE UpholdAppeal(w)
    BY <1>0, <1>13 DEF UpholdAppeal, Undisturbed
  <1>14. CASE Restore(w)
    BY <1>0, <1>14 DEF Restore, CalmTask, Undone
  <1>15. CASE Clear(w)
    BY <1>0, <1>15 DEF Clear, CalmTask, Undone
  <1>16. CASE Requeue(w)
    BY <1>0, <1>16 DEF Requeue, CalmTask, Undone
  <1>17. CASE ReadAccepted(w)
    <2>1. PICK pc \in {"promote", "final"} :
            /\ task'[w] = [task[w] EXCEPT !.pc = pc, !.base = state.accepted]
      BY <1>17, ReadTask, Zenon
    <2>2. /\ env' = env /\ state' = state /\ row' = row /\ task[w].pc = "start"
          /\ task[w].kind = "finalization"
      BY <1>17, ReadTask DEF ReadAccepted, At
    <2>3. /\ task'[w].pc = pc /\ task'[w].kind = task[w].kind
          /\ task'[w].tx = task[w].tx /\ task'[w].was = task[w].was
      BY <1>0, <2>1, <2>2 DEF Tasks
    <2>4. /\ row'[t].status = row[t].status /\ row'[t].ok = row[t].ok
          /\ row'[t].appealed = row[t].appealed /\ row'[t].flag = row[t].flag
      BY <1>0, <2>1, <2>2 DEF Rows
    <2>5. /\ pc \in {"promote", "final"}
      BY <2>1
    <2> QED
      BY <1>0, <2>2, <2>3, <2>4, <2>5
      DEF CalmTask, CalmMarks, TaskInv, RowInv, Executing, Decided, Moves, OwnEffect, InFlight,
          Undone, Eligible, Terminal, Kinds, Working
  <1>18. CASE MissingAccepted(w)
    BY <1>0, <1>18 DEF MissingAccepted, At
  <1>19. CASE Promote(w)
    <2>1. /\ task'[w] = [task[w] EXCEPT !.pc = "final"]
      BY <1>19, PromoteTask, Zenon
    <2>2. /\ env' = env /\ row' = row /\ task[w].pc = "promote"
          /\ state'.accepted = state.accepted
      BY <1>19, PromoteTask DEF Promote
    <2>3. /\ task'[w].pc = "final" /\ task'[w].kind = task[w].kind
          /\ task'[w].tx = task[w].tx /\ task'[w].was = task[w].was
      BY <1>0, <2>1, <2>2 DEF Tasks
    <2>4. /\ row'[t].status = row[t].status /\ row'[t].ok = row[t].ok
          /\ row'[t].appealed = row[t].appealed /\ row'[t].flag = row[t].flag
      BY <1>0, <2>1, <2>2 DEF Rows
    <2> QED
      BY <1>0, <2>2, <2>3, <2>4
      DEF CalmTask, CalmMarks, TaskInv, RowInv, Executing, Decided, Moves, OwnEffect, InFlight,
          Undone, Eligible, Terminal, Kinds, Working
  <1>20. CASE Finalize(w)
    <2>1. /\ row'[t] = [row[t] EXCEPT !.status = "FINALIZED"]
          /\ task'[w] = [task[w] EXCEPT !.pc = "end"]
      BY <1>20, FinalizeTask, Zenon
    <2>2. /\ env' = env /\ state' = state /\ task[w].pc = "final"
      BY <1>20, FinalizeTask DEF Finalize
    <2>3. /\ task'[w].pc = "end" /\ task'[w].kind = task[w].kind
          /\ task'[w].tx = task[w].tx /\ task'[w].was = task[w].was
      BY <1>0, <2>1, <2>2 DEF Tasks
    <2>4. /\ row'[t].status = "FINALIZED" /\ row'[t].ok = row[t].ok
          /\ row'[t].appealed = row[t].appealed /\ row'[t].flag = row[t].flag
      BY <1>0, <2>1, <2>2 DEF Rows
    <2> QED
      BY <1>0, <2>2, <2>3, <2>4
      DEF CalmTask, CalmMarks, TaskInv, RowInv, Executing, Decided, Moves, OwnEffect, InFlight,
          Undone, Eligible, Terminal, Kinds, Working
  <1> QED
    BY <1>1, <1>2, <1>3, <1>4, <1>5, <1>6, <1>7, <1>8, <1>9, <1>10, <1>11, <1>12, <1>13, <1>14,
       <1>15, <1>16, <1>17, <1>18, <1>19, <1>20,
       Zenon DEF Step, Ends

(* A row has one task, so what happens to its effect is what the task does *)
(* to it.                                                                  *)
LEMMA OneTaskOnRow ==
    ASSUME LeaseInv, NEW w \in Workers, Working(w), NEW v \in Workers, OnIt(v, task[w].tx)
    PROVE  v = w
  BY DEF LeaseInv, OnIt

LEMMA OwnAccounted ==
    ASSUME LeaseInv, NEW w \in Workers, Working(w)
    PROVE  Accounted(task[w].tx) <=> OwnEffect(w)
  BY OneTaskOnRow DEF Accounted, OwnEffect, OnIt

(* What a step of users or of recovery does to its row.                    *)
LEMMA UserMoves ==
    ASSUME TypeOK, NEW t \in Tx,
           Submit(t) \/ Cancel(t) \/ Appeal(t) \/ Recover(t) \/ ReleaseOrphan(t)
    PROVE  /\ \A u \in Tx \ {t} : row'[u] = row[u]
           /\ row'[t].ok = row[t].ok /\ row'[t].flag = row[t].flag
           /\ \/ row'[t] = row[t]
              \/ /\ row[t].status = "ABSENT" /\ row'[t].status = "PENDING"
                 /\ row'[t].appealed = row[t].appealed
                 /\ \A u \in Tx : u < t => Present(u)
              \/ /\ row[t].status = "PENDING" /\ row'[t].status = "CANCELED"
                 /\ row'[t].appealed = row[t].appealed /\ "cancel" \in env
              \/ /\ row'[t].status = row[t].status /\ "appeal" \in env
              \/ /\ row[t].status \in {"PENDING", "PROCESSING"} /\ ~Live(t)
                 /\ row'[t].status = "PENDING" /\ row'[t].appealed = row[t].appealed
  <1>0. row[t] \in Rows
    BY RowTyped
  <1>1. CASE Submit(t)
    <2>1. /\ \A u \in Tx \ {t} : row'[u] = row[u]
          /\ row'[t] = [row[t] EXCEPT !.status = "PENDING"]
      BY <1>1, SubmitRow
    <2>2. row[t].status = "ABSENT" /\ \A u \in Tx : u < t => Present(u)
      BY <1>1 DEF Submit, Present
    <2>3. /\ row'[t].status = "PENDING" /\ row'[t].appealed = row[t].appealed
          /\ row'[t].ok = row[t].ok /\ row'[t].flag = row[t].flag
      BY <1>0, <2>1 DEF Rows
    <2> QED  BY <2>1, <2>2, <2>3
  <1>2. CASE Cancel(t)
    <2>1. /\ \A u \in Tx \ {t} : row'[u] = row[u]
          /\ row'[t] = [row[t] EXCEPT !.status = "CANCELED"]
      BY <1>2, CancelRow
    <2>2. row[t].status = "PENDING" /\ "cancel" \in env
      BY <1>2 DEF Cancel
    <2>3. /\ row'[t].status = "CANCELED" /\ row'[t].appealed = row[t].appealed
          /\ row'[t].ok = row[t].ok /\ row'[t].flag = row[t].flag
      BY <1>0, <2>1 DEF Rows
    <2> QED  BY <2>1, <2>2, <2>3
  <1>3. CASE Appeal(t)
    <2>1. /\ \A u \in Tx \ {t} : row'[u] = row[u]
          /\ row'[t] = [row[t] EXCEPT !.appealed = TRUE]
      BY <1>3, AppealRow
    <2>2. "appeal" \in env
      BY <1>3 DEF Appeal
    <2>3. /\ row'[t].status = row[t].status
          /\ row'[t].ok = row[t].ok /\ row'[t].flag = row[t].flag
      BY <1>0, <2>1 DEF Rows
    <2> QED  BY <2>1, <2>2, <2>3
  <1>4. CASE Recover(t)
    <2>1. /\ \A u \in Tx \ {t} : row'[u] = row[u]
          /\ row'[t] = [row[t] EXCEPT !.status = "PENDING", !.receipt = FALSE,
                                      !.timeoutAppeal = FALSE]
      BY <1>4, RecoverRow
    <2>2. row[t].status \in {"PENDING", "PROCESSING"} /\ ~Live(t)
      BY <1>4 DEF Recover, Live
    <2>3. /\ row'[t].status = "PENDING" /\ row'[t].appealed = row[t].appealed
          /\ row'[t].ok = row[t].ok /\ row'[t].flag = row[t].flag
      BY <1>0, <2>1 DEF Rows
    <2> QED  BY <2>1, <2>2, <2>3
  <1>5. CASE ReleaseOrphan(t)
    BY <1>5 DEF ReleaseOrphan
  <1> QED  BY <1>1, <1>2, <1>3, <1>4, <1>5

(* What an end of a task leaves of its row: without a crash the row is     *)
(* decided, and no crash interrupts what the state has.                    *)
LEMMA EndMoves ==
    ASSUME TypeOK, LeaseInv, Undisturbed, TasksInv, CalmInv, NEW w \in Workers, Ends(w)
    PROVE  LET t == task[w].tx IN
           /\ row'[t].ok = row[t].ok /\ row'[t].flag = row[t].flag
           /\ row'[t].appealed = row[t].appealed
           /\ \/ row'[t] = row[t] /\ Decided(t)
              \/ row'[t] = row[t] /\ "crash" \in env
              \/ /\ row[t].status = "PROCESSING" /\ row'[t].status = "PENDING"
                 /\ "crash" \in env
           /\ OwnEffect(w) => /\ row'[t] = row[t]
                              /\ row[t].status \in {"ACCEPTED", "FINALIZED"}
  <1> DEFINE t == task[w].tx
  <1>0. /\ row[t] \in Rows /\ TaskInv(w) /\ CalmTask(w) /\ t \in Tx
        /\ "upheld" \notin env /\ "latecrash" \notin env
        /\ "crash" \in env => "appeal" \notin env
    BY RowTyped, TaskTyped DEF TasksInv, CalmInv, Undisturbed, Tasks
  <1>1. CASE Finish(w)
    <2>1. row' = row /\ task[w].pc = "end"
      BY <1>1 DEF Finish
    <2>2. Decided(t)
      BY <1>0, <2>1 DEF CalmTask
    <2> QED  BY <2>1, <2>2 DEF OwnEffect, InFlight
  <1>2. CASE Crash(w)
    <2>1. /\ row' = row /\ Working(w)
          /\ Fault(IF task[w].pc = "status" /\ task[w].ok THEN "latecrash" ELSE "crash")
      BY <1>2 DEF Crash, Working
    <2>2. ~(task[w].pc = "status" /\ task[w].ok) /\ "crash" \in env
      BY <1>0, <2>1 DEF Fault
    <2>3. task[w].pc # "vote"
      BY <1>0, <2>1, <2>2 DEF TaskInv, CalmTask, Working
    <2>4. task[w].pc = "status" => ~row[t].ok
      BY <1>0, <2>2 DEF TaskInv
    <2> QED  BY <2>1, <2>2, <2>3, <2>4 DEF OwnEffect, InFlight
  <1>3. CASE LeaderError(w)
    <2>1. row'[t] = [row[t] EXCEPT !.status = "PENDING", !.receipt = FALSE,
                                   !.timeoutAppeal = FALSE]
      BY <1>3, ErrorTask, Zenon
    <2>2. task[w].pc = "run" /\ "crash" \in env
      BY <1>3 DEF LeaderError, Fault
    <2>3. row[t].status = "PROCESSING"
      BY <1>0, <2>2 DEF TaskInv, Executing
    <2>4. /\ row'[t].status = "PENDING" /\ row'[t].appealed = row[t].appealed
          /\ row'[t].ok = row[t].ok /\ row'[t].flag = row[t].flag
      BY <1>0, <2>1 DEF Rows
    <2> QED  BY <2>2, <2>3, <2>4 DEF OwnEffect, InFlight
  <1> QED  BY <1>1, <1>2, <1>3 DEF Ends

(* The tasks, by the rows they are on, across the steps.                   *)
LEMMA StepOnIt ==
    ASSUME TypeOK, LeaseInv, NEW w \in Workers, Step(w), ~Ends(w)
    PROVE  \A v \in Workers, u \in Tx : OnIt(v, u)' <=> OnIt(v, u)
  BY StepFrame DEF OnIt, Working

LEMMA EndOnIt ==
    ASSUME TypeOK, LeaseInv, NEW w \in Workers, Ends(w)
    PROVE  \A v \in Workers, u \in Tx :
             OnIt(v, u)' <=> v # w /\ OnIt(v, u)
  <1>1. /\ task'[w] = NoTask /\ \A v \in Workers \ {w} : task'[v] = task[v]
    BY EndFrame
  <1>2. NoTask.pc = "idle"
    BY DEF NoTask
  <1> QED  BY <1>1, <1>2 DEF OnIt, Working

LEMMA ClaimOnIt ==
    ASSUME TypeOK, LeaseInv, NEW w \in Workers, NEW kind \in Kinds, NEW t \in Tx,
           Claim(w, kind, t)
    PROVE  \A v \in Workers, u \in Tx :
             OnIt(v, u)' <=> OnIt(v, u) \/ (v = w /\ u = t)
  BY ClaimFrame DEF OnIt, Working

(* The steps of tasks.                                                     *)
LEMMA TaskHistory ==
    ASSUME TypeOK, LeaseInv, Undisturbed, RowsInv, TasksInv, CalmInv, InOrder, Accounts,
           NEW w \in Workers, Step(w), ~Ends(w)
    PROVE  (CalmInv /\ InOrder /\ Accounts)'
  <1> DEFINE x == task[w].tx
  <1>1. /\ env' = env /\ Working(w) /\ task'[w].tx = x /\ task'[w].kind = task[w].kind
        /\ task'[w].pc # "idle"
        /\ \A v \in Workers \ {w} : task'[v] = task[v]
        /\ \A u \in Tx : Present(u) => Present(u)'
    BY StepFrame
  <1>2. /\ x \in Tx /\ TaskInv(w) /\ task[w].base \in States /\ CalmTask(w)
        /\ task[w].kind \in Kinds
    BY TaskTyped DEF Tasks, TasksInv, CalmInv
  <1>3. /\ CalmTask(w)' /\ CalmMarks(x)' /\ Moves(w)
        /\ task[w].pc = "write" \/ OwnEffect(w) => OwnEffect(w)'
        /\ \/ state'.accepted = state.accepted
           \/ /\ task[w].pc = "write"
              /\ state'.accepted = Append(task[w].base, x)
    BY CalmOwn, Zenon
  <1>4. \A u \in Tx \ {x} : row'[u] = row[u]
    <2>1. Apart /\ task[w].pc \notin {"rollback", "forget"}
      BY <1>2, CalmIsApart DEF CalmTask, Undone
    <2> QED  BY <2>1, StepState, Zenon
  <1>5. \A v \in Workers, u \in Tx : OnIt(v, u)' <=> OnIt(v, u)
    BY StepOnIt
  <1>6. OnIt(w, x)
    BY <1>1 DEF OnIt
  <1>7. CalmInv'
    <2>1. state'.accepted # Empty
      BY <1>2, <1>3, AppendHolds DEF CalmInv
    <2>2. ASSUME NEW v \in Workers PROVE CalmTask(v)'
      <3>1. CASE v = w
        BY <1>3, <3>1
      <3>2. CASE v # w
        <4>1. CalmTask(v) /\ task'[v] = task[v]
          BY <1>1, <3>2 DEF CalmInv
        <4>2. task[v].pc = "end" => Decided(task[v].tx)'
          <5>1. ASSUME task[v].pc = "end" PROVE task[v].tx \in Tx \ {x} /\ Decided(task[v].tx)
            BY <1>1, <3>2, <4>1, <5>1, TaskTyped DEF LeaseInv, Working, CalmTask, Tasks
          <5> QED  BY <1>4, <4>1, <5>1 DEF Decided
        <4> QED  BY <1>1, <4>1, <4>2 DEF CalmTask, Decided, Working
      <3> QED  BY <3>1, <3>2
    <2>3. ASSUME NEW u \in Tx PROVE CalmRow(u)'
      <3>1. CalmMarks(u)'
        <4>1. CASE u = x
          BY <1>1, <1>3, <4>1 DEF CalmMarks
        <4>2. CASE u # x
          BY <1>1, <1>4, <4>2 DEF CalmMarks, CalmInv, CalmRow
        <4> QED  BY <4>1, <4>2
      <3>2. row'[u].status = "PROCESSING" =>
              "crash" \in env' \/ \E v \in Workers : OnIt(v, u)'
        <4>1. CASE u = x
          BY <1>5, <1>6, <4>1
        <4>2. CASE u # x
          BY <1>1, <1>4, <1>5, <4>2 DEF CalmInv, CalmRow
        <4> QED  BY <4>1, <4>2
      <3>3. Present(u)' => Present(u)
        <4>1. CASE u = x
          BY <1>1, <1>2, <4>1 DEF LeaseInv
        <4>2. CASE u # x
          BY <1>4, <4>2 DEF Present
        <4> QED  BY <4>1, <4>2
      <3>4. Present(u)' => \A y \in Tx : y < u => Present(y)'
        BY <1>1, <3>3 DEF CalmInv, CalmRow
      <3> QED  BY <3>1, <3>2, <3>4 DEF CalmRow
    <2> QED  BY <2>1, <2>2, <2>3 DEF CalmInv
  <1>8. InOrder'
    <2>1. ASSUME NEW u \in Tx, Begun(u)' PROVE Begun(u)
      <3>1. CASE u # x
        BY <1>1, <1>4, <1>5, <2>1, <3>1 DEF Begun, OnIt
      <3>2. CASE u = x
        <4>1. CASE row'[x].status = row[x].status
          BY <1>1, <1>5, <2>1, <3>2, <4>1 DEF Begun, OnIt
        <4>2. CASE row'[x].status # row[x].status
          BY <1>3, <1>6, <3>2, <4>2 DEF Begun, Moves, Eligible
        <4> QED  BY <4>1, <4>2
      <3> QED  BY <3>1, <3>2
    <2>2. ASSUME NEW u \in Tx, Past(u) PROVE Past(u)'
      <3>1. CASE u # x
        BY <1>1, <1>4, <1>5, <2>2, <3>1 DEF Past, Decided, OnIt
      <3>2. CASE u = x
        <4>1. CASE row'[x].status = row[x].status
          BY <1>1, <1>5, <2>2, <3>2, <4>1 DEF Past, Decided, OnIt
        <4>2. CASE row'[x].status # row[x].status
          <5>1. \/ row'[x].status \in Eligible \cup Terminal
                \/ row'[x].status = "PROCESSING" /\ task[w].kind = "appeal"
            BY <1>3, <2>2, <3>2, <4>2 DEF Moves, Past, Decided, Eligible, Terminal
          <5> QED  BY <1>1, <1>5, <1>6, <3>2, <5>1 DEF Past, Decided
        <4> QED  BY <4>1, <4>2
      <3> QED  BY <3>1, <3>2
    <2> QED  BY <2>1, <2>2 DEF InOrder
  <1>9. ASSUME NEW u \in Tx, Accounted(u) PROVE Accounted(u)'
    <2>1. CASE u # x
      <3>1. \A v \in Workers : OnIt(v, u) => v # w
        BY <1>6, <2>1 DEF OnIt
      <3>2. \A v \in Workers : OnIt(v, u) /\ InFlight(v) => OnIt(v, u)' /\ InFlight(v)'
        BY <1>1, <1>5, <3>1 DEF InFlight
      <3> QED  BY <1>4, <1>9, <2>1, <3>2 DEF Accounted
    <2>2. CASE u = x
      <3>1. OwnEffect(w)'
        BY <1>1, <1>3, <1>9, <2>2, OwnAccounted
      <3> QED  BY <1>1, <1>5, <1>6, <2>2, <3>1 DEF OwnEffect, Accounted
    <2> QED  BY <2>1, <2>2
  <1>10. Accounts'
    <2>1. CASE state'.accepted = state.accepted
      <3>1. \A u \in Tx : u \in Effects(state.accepted) => Accounted(u)'
        BY <1>9 DEF Accounts
      <3> QED  BY <2>1, <3>1 DEF Accounts
    <2>2. CASE task[w].pc = "write" /\ state'.accepted = Append(task[w].base, x)
      <3>1. /\ row[x].status = "PROCESSING" /\ task[w].kind = "transaction"
            /\ task[w].base = state.accepted
        BY <1>2, <2>2 DEF TaskInv, Executing, Undisturbed, Alone, Kinds
      <3>2. ~Accounted(x)
        BY <1>1, <2>2, <3>1, OwnAccounted DEF OwnEffect, InFlight
      <3>3. ~Past(x)
        BY <1>1, <3>1, OneTaskOnRow DEF Past, Decided, Eligible, Terminal
      <3>4. \A u \in Tx : Accounted(u) => Begun(u)
        <4>1. \A v \in Workers : InFlight(v) => row[task[v].tx].status = "PROCESSING"
          BY DEF TasksInv, TaskInv, Executing, InFlight
        <4> QED  BY <4>1 DEF Accounted, Begun, OnIt
      <3>5. \A e \in Effects(state.accepted) : e < x
        <4>1. ASSUME NEW u \in Tx, u \in Effects(state.accepted)
              PROVE  u < x
          <5>1. Accounted(u) /\ Begun(u) /\ u # x
            BY <3>2, <3>4, <4>1 DEF Accounts
          <5>2. ~(x < u)
            BY <1>2, <3>3, <5>1 DEF InOrder
          <5> QED  BY <1>2, <5>1, <5>2, StateAssumption DEF Tx
        <4>2. 0 < x
          BY <1>2, StateAssumption DEF Tx
        <4> QED  BY <4>1, <4>2 DEF Accounts
      <3>6. /\ Effects(state'.accepted) = Effects(state.accepted) \cup {x}
            /\ Ascending(state'.accepted)
        BY <1>2, <2>2, <3>1, <3>5, AscendingAppend DEF Accounts
      <3>7. ASSUME NEW u \in Tx, u = x PROVE Accounted(u)'
        <4>1. OwnEffect(w)'
          BY <1>3, <2>2
        <4>2. OnIt(w, u)'
          BY <1>2, <1>5, <1>6, <3>7
        <4>3. /\ row'[u].ok
              /\ row'[u].status \in {"ACCEPTED", "FINALIZED"} \/ InFlight(w)'
          BY <1>1, <3>7, <4>1 DEF OwnEffect
        <4> QED  BY <4>2, <4>3 DEF Accounted
      <3>8. \A u \in Tx : u \in Effects(state'.accepted) => Accounted(u)'
        <4>1. ASSUME NEW u \in Tx, u \in Effects(state'.accepted) PROVE Accounted(u)'
          <5>1. u = x \/ u \in Effects(state.accepted)
            BY <3>6, <4>1
          <5>2. CASE u = x
            BY <3>7, <5>2
          <5>3. CASE u \in Effects(state.accepted)
            <6>1. Accounted(u)
              BY <5>3 DEF Accounts
            <6> QED  BY <1>9, <6>1
          <5> QED  BY <5>1, <5>2, <5>3
        <4> QED  BY <4>1
      <3>9. Effects(state'.accepted) \subseteq {0} \cup Tx /\ 0 \in Effects(state'.accepted)
        BY <1>2, <3>6 DEF Accounts
      <3> QED  BY <3>6, <3>8, <3>9 DEF Accounts
    <2> QED  BY <1>3, <2>1, <2>2
  <1> QED  BY <1>7, <1>8, <1>10

(* The steps of users and of recovery.                                     *)
LEMMA UserHistory ==
    ASSUME TypeOK, LeaseInv, CalmInv, InOrder, Accounts, NEW t \in Tx,
           Submit(t) \/ Cancel(t) \/ Appeal(t) \/ Recover(t) \/ ReleaseOrphan(t)
    PROVE  (CalmInv /\ InOrder /\ Accounts)'
  <1>1. /\ env' = env /\ state' = state /\ task' = task
        /\ \A u \in Tx : Present(u) => Present(u)'
    BY UserFrame, Zenon
  <1>2. /\ \A u \in Tx \ {t} : row'[u] = row[u]
        /\ row'[t].ok = row[t].ok /\ row'[t].flag = row[t].flag
    BY UserMoves
  <1>3. \/ row'[t] = row[t]
        \/ /\ row[t].status = "ABSENT" /\ row'[t].status = "PENDING"
           /\ row'[t].appealed = row[t].appealed
           /\ \A u \in Tx : u < t => Present(u)
        \/ /\ row[t].status = "PENDING" /\ row'[t].status = "CANCELED"
           /\ row'[t].appealed = row[t].appealed /\ "cancel" \in env
        \/ /\ row'[t].status = row[t].status /\ "appeal" \in env
        \/ /\ row[t].status \in {"PENDING", "PROCESSING"} /\ ~Live(t)
           /\ row'[t].status = "PENDING" /\ row'[t].appealed = row[t].appealed
    BY UserMoves
  <1>4. \A v \in Workers, u \in Tx : OnIt(v, u)' <=> OnIt(v, u)
    BY <1>1 DEF OnIt, Working
  <1>5. \A v \in Workers : OnIt(v, t) => Live(t)
    BY DEF LeaseInv, OnIt
  <1>6. /\ Decided(t) => row'[t].status = row[t].status
        /\ row[t].status = "PROCESSING" /\ Live(t) => row'[t].status = row[t].status
    BY <1>3 DEF Decided, Eligible, Terminal
  <1>7. ASSUME NEW u \in Tx, Decided(u) PROVE Decided(u)'
    BY <1>2, <1>6, <1>7 DEF Decided
  <1>8. CalmInv'
    <2>1. ASSUME NEW v \in Workers PROVE CalmTask(v)'
      <3>1. task[v].tx \in Tx /\ CalmTask(v)
        BY TaskTyped DEF Tasks, CalmInv
      <3>2. task[v].pc = "end" => Decided(task[v].tx)'
        BY <1>1, <1>7, <3>1 DEF CalmTask, Decided
      <3> QED  BY <1>1, <3>1, <3>2 DEF CalmTask, Decided, Working
    <2>2. ASSUME NEW u \in Tx PROVE CalmRow(u)'
      <3>1. CASE u # t
        BY <1>1, <1>2, <1>4, <3>1 DEF CalmInv, CalmRow, CalmMarks, Present
      <3>2. CASE u = t
        <4>1. CalmMarks(t) /\ CalmRow(t)
          BY DEF CalmInv, CalmRow
        <4>2. CalmMarks(t)'
          BY <1>1, <1>2, <1>3, <4>1 DEF CalmMarks
        <4>3. row'[t].status = "PROCESSING" => row[t].status = "PROCESSING"
          BY <1>3
        <4>4. row'[t].status # "ABSENT" => \A y \in Tx : y < t => Present(y)
          BY <1>3, <4>1 DEF CalmRow, Present
        <4> QED  BY <1>1, <1>4, <3>2, <4>1, <4>2, <4>3, <4>4 DEF CalmRow, Present
      <3> QED  BY <3>1, <3>2
    <2> QED  BY <1>1, <2>1, <2>2 DEF CalmInv
  <1>9. InOrder'
    <2>1. ASSUME NEW u \in Tx, Begun(u)' PROVE Begun(u)
      <3>1. \A v \in Workers : OnIt(v, u)' /\ (task[v].kind = "transaction")' =>
                                 OnIt(v, u) /\ task[v].kind = "transaction"
        BY <1>1, <1>4
      <3>2. row'[u].status \notin {"ABSENT", "PENDING", "CANCELED"} =>
              row[u].status \notin {"ABSENT", "PENDING", "CANCELED"}
        BY <1>2, <1>3
      <3> QED  BY <2>1, <3>1, <3>2 DEF Begun
    <2>2. ASSUME NEW u \in Tx, Past(u) PROVE Past(u)'
      <3>1. CASE Decided(u)
        BY <1>7, <3>1 DEF Past
      <3>2. CASE ~Decided(u)
        <4>1. PICK v \in Workers : OnIt(v, u) /\ task[v].kind = "appeal"
          BY <2>2, <3>2 DEF Past
        <4>2. row[u].status = "PROCESSING"
          BY <2>2, <3>2 DEF Past
        <4>3. row'[u].status = row[u].status
          BY <1>2, <1>5, <1>6, <4>1, <4>2
        <4> QED  BY <1>1, <1>4, <4>1, <4>2, <4>3 DEF Past
      <3> QED  BY <3>1, <3>2
    <2> QED  BY <2>1, <2>2 DEF InOrder
  <1>10. Accounts'
    <2>1. ASSUME NEW u \in Tx, Accounted(u) PROVE Accounted(u)'
      <3>1. row'[u].ok = row[u].ok
        BY <1>2
      <3>2. \A v \in Workers : OnIt(v, u) /\ InFlight(v) => OnIt(v, u)' /\ InFlight(v)'
        BY <1>1, <1>4 DEF InFlight
      <3>3. row[u].status \in {"ACCEPTED", "FINALIZED"} => row'[u].status = row[u].status
        BY <1>2, <1>6 DEF Decided, Eligible, Terminal
      <3> QED  BY <2>1, <3>1, <3>2, <3>3 DEF Accounted
    <2> QED  BY <1>1, <2>1 DEF Accounts
  <1> QED  BY <1>8, <1>9, <1>10

(* The ends of tasks.                                                      *)
LEMMA EndHistory ==
    ASSUME TypeOK, LeaseInv, Undisturbed, TasksInv, CalmInv, InOrder, Accounts,
           NEW w \in Workers, Ends(w)
    PROVE  (CalmInv /\ InOrder /\ Accounts)'
  <1> DEFINE x == task[w].tx
  <1>1. /\ env' = env /\ state' = state /\ Working(w) /\ task'[w] = NoTask
        /\ \A v \in Workers \ {w} : task'[v] = task[v]
        /\ \A u \in Tx \ {x} : row'[u] = row[u]
        /\ \A u \in Tx : Present(u) => Present(u)'
    BY EndFrame
  <1>2. x \in Tx /\ CalmTask(w)
    BY TaskTyped DEF Tasks, CalmInv
  <1>3. /\ row'[x].ok = row[x].ok /\ row'[x].flag = row[x].flag
        /\ row'[x].appealed = row[x].appealed
        /\ \/ row'[x] = row[x] /\ Decided(x)
           \/ row'[x] = row[x] /\ "crash" \in env
           \/ /\ row[x].status = "PROCESSING" /\ row'[x].status = "PENDING"
              /\ "crash" \in env
        /\ OwnEffect(w) => /\ row'[x] = row[x]
                           /\ row[x].status \in {"ACCEPTED", "FINALIZED"}
    BY EndMoves
  <1>4. \A v \in Workers, u \in Tx : OnIt(v, u)' <=> v # w /\ OnIt(v, u)
    BY EndOnIt
  <1>5. OnIt(w, x) /\ \A v \in Workers : OnIt(v, x) => v = w
    BY <1>1, OneTaskOnRow DEF OnIt
  <1>6. "crash" \in env => "appeal" \notin env
    BY DEF Undisturbed
  <1>7. ASSUME NEW u \in Tx, Decided(u) PROVE Decided(u)'
    <2>1. row'[u].status = row[u].status
      BY <1>1, <1>2, <1>3, <1>7 DEF Decided, Eligible, Terminal
    <2> QED  BY <1>7, <2>1 DEF Decided
  <1>8. CalmInv'
    <2>1. ASSUME NEW v \in Workers PROVE CalmTask(v)'
      <3>1. CASE v = w
        BY <1>1, <3>1 DEF CalmTask, NoTask, Undone, Working
      <3>2. CASE v # w
        <4>1. task[v].tx \in Tx /\ CalmTask(v) /\ task'[v] = task[v]
          BY <1>1, <3>2, TaskTyped DEF Tasks, CalmInv
        <4>2. task[v].pc = "end" => Decided(task[v].tx)'
          BY <1>7, <4>1 DEF CalmTask
        <4> QED  BY <1>1, <4>1, <4>2 DEF CalmTask, Decided, Working
      <3> QED  BY <3>1, <3>2
    <2>2. ASSUME NEW u \in Tx PROVE CalmRow(u)'
      <3>0. CalmMarks(u) /\ CalmRow(u)
        BY DEF CalmInv, CalmRow
      <3>1. CalmMarks(u)'
        BY <1>1, <1>3, <3>0 DEF CalmMarks
      <3>2. row'[u].status = "PROCESSING" =>
              "crash" \in env' \/ \E v \in Workers : OnIt(v, u)'
        <4>1. CASE u = x
          BY <1>1, <1>3, <4>1 DEF Decided, Eligible, Terminal
        <4>2. CASE u # x
          BY <1>1, <1>4, <3>0, <4>2 DEF CalmRow, OnIt
        <4> QED  BY <4>1, <4>2
      <3>3. Present(u)' => Present(u)
        BY <1>1, <1>3 DEF Present
      <3>4. Present(u)' => \A y \in Tx : y < u => Present(y)'
        BY <1>1, <3>0, <3>3 DEF CalmRow
      <3> QED  BY <3>1, <3>2, <3>4 DEF CalmRow
    <2> QED  BY <1>1, <2>1, <2>2 DEF CalmInv
  <1>9. InOrder'
    <2>1. ASSUME NEW u \in Tx, Begun(u)' PROVE Begun(u)
      <3>1. \A v \in Workers : OnIt(v, u)' /\ (task[v].kind = "transaction")' =>
                                 OnIt(v, u) /\ task[v].kind = "transaction"
        BY <1>1, <1>4
      <3>2. row'[u].status \notin {"ABSENT", "PENDING", "CANCELED"} =>
              row[u].status \notin {"ABSENT", "PENDING", "CANCELED"}
        BY <1>1, <1>3
      <3> QED  BY <2>1, <3>1, <3>2 DEF Begun
    <2>2. ASSUME NEW u \in Tx, Past(u) PROVE Past(u)'
      <3>1. CASE Decided(u)
        BY <1>7, <3>1 DEF Past
      <3>2. CASE ~Decided(u)
        <4>1. PICK v \in Workers : OnIt(v, u) /\ task[v].kind = "appeal"
          BY <2>2, <3>2 DEF Past
        <4>2. row[u].status = "PROCESSING" /\ "appeal" \in env
          BY <2>2, <3>2, <4>1 DEF Past, CalmInv, CalmTask, OnIt
        <4>3. u # x
          BY <1>3, <1>6, <3>2, <4>2
        <4>4. row'[u] = row[u] /\ v # w /\ task'[v] = task[v]
          BY <1>1, <4>1, <4>3 DEF OnIt
        <4> QED  BY <1>4, <4>1, <4>2, <4>4 DEF Past
      <3> QED  BY <3>1, <3>2
    <2> QED  BY <2>1, <2>2 DEF InOrder
  <1>10. Accounts'
    <2>1. ASSUME NEW u \in Tx, Accounted(u) PROVE Accounted(u)'
      <3>1. CASE u = x
        <4>1. OwnEffect(w)
          BY <1>1, <2>1, <3>1, OwnAccounted
        <4> QED  BY <1>3, <2>1, <3>1, <4>1 DEF Accounted
      <3>2. CASE u # x
        <4>1. row'[u] = row[u]
          BY <1>1, <3>2
        <4>2. \A v \in Workers : OnIt(v, u) /\ InFlight(v) => OnIt(v, u)' /\ InFlight(v)'
          BY <1>1, <1>4, <3>2 DEF InFlight, OnIt
        <4> QED  BY <2>1, <4>1, <4>2 DEF Accounted
      <3> QED  BY <3>1, <3>2
    <2> QED  BY <1>1, <2>1 DEF Accounts
  <1> QED  BY <1>8, <1>9, <1>10

(* The claims.  A transaction is claimed when every older one is decided:  *)
(* the claim waits for those that are pending or worked on, and one that   *)
(* a crash left in execution is found by the gate, or by the order of what *)
(* the gate found before.                                                  *)
LEMMA ClaimHistory ==
    ASSUME TypeOK, LeaseInv, Undisturbed, CalmInv, InOrder, Accounts,
           NEW w \in Workers, NEW kind \in Kinds, NEW t \in Tx, Claim(w, kind, t)
    PROVE  (CalmInv /\ InOrder /\ Accounts)'
  <1>1. /\ env' = env /\ state' = state /\ row' = row /\ ~Working(w)
        /\ task'[w].pc = "start" /\ task'[w].kind = kind /\ task'[w].tx = t
        /\ \A v \in Workers \ {w} : task'[v] = task[v]
        /\ Present(t)
        /\ kind # "transaction" => row[t].status \in Eligible
    BY ClaimFrame
  <1>2. Ready(kind, t)
    BY DEF Claim
  <1>3. \A v \in Workers, u \in Tx : OnIt(v, u)' <=> OnIt(v, u) \/ (v = w /\ u = t)
    BY ClaimOnIt
  <1>4. \A v \in Workers, u \in Tx : OnIt(v, u) => Live(u) /\ task'[v] = task[v]
    BY <1>1 DEF LeaseInv, OnIt
  <1>5. CalmInv'
    <2>1. ASSUME NEW v \in Workers PROVE CalmTask(v)'
      <3>1. CASE v = w
        <4>1. kind = "appeal" => "appeal" \in env
          BY <1>2 DEF Ready, CalmInv, CalmRow, CalmMarks
        <4> QED  BY <1>1, <3>1, <4>1 DEF CalmTask, Undone
      <3>2. CASE v # w
        <4>1. CalmTask(v) /\ task'[v] = task[v]
          BY <1>1, <3>2 DEF CalmInv
        <4> QED  BY <1>1, <4>1 DEF CalmTask, Decided, Working
      <3> QED  BY <3>1, <3>2
    <2>2. ASSUME NEW u \in Tx PROVE CalmRow(u)'
      BY <1>1, <1>3 DEF CalmInv, CalmRow, CalmMarks, Present
    <2> QED  BY <1>1, <2>1, <2>2 DEF CalmInv
  <1>6. InOrder'
    <2>1. ASSUME NEW u \in Tx, Past(u) PROVE Past(u)'
      BY <1>1, <1>3, <1>4, <2>1 DEF Past, Decided
    <2>2. ASSUME NEW u \in Tx, Begun(u)' PROVE Begun(u) \/ (u = t /\ kind = "transaction")
      <3>1. CASE u # t
        <4>1. \A v \in Workers : OnIt(v, u)' /\ (task[v].kind = "transaction")' =>
                                   OnIt(v, u) /\ task[v].kind = "transaction"
          BY <1>3, <1>4, <3>1
        <4> QED  BY <1>1, <2>2, <4>1 DEF Begun
      <3>2. CASE u = t /\ kind # "transaction"
        <4>1. row[u].status \in Eligible
          BY <1>1, <3>2
        <4> QED  BY <4>1 DEF Begun, Eligible
      <3> QED  BY <3>1, <3>2
    <2>3. ASSUME kind = "transaction", NEW x \in Tx, x < t PROVE Past(x)
      <3>1. Present(x)
        BY <1>1, <2>3 DEF CalmInv, CalmRow
      <3>2. x # t /\ ~(t < x)
        BY <2>3, StateAssumption DEF Tx
      <3>3. ~Live(x) /\ row[x].status # "PENDING" /\ MayExecute(t)
        BY <1>2, <2>3, <3>1, <3>2, StateAssumption DEF Ready, Others, Tx
      <3>4. \A v \in Workers : ~OnIt(v, x)
        BY <1>4, <3>3
      <3>5. CASE Decided(x)
        BY <3>5 DEF Past
      <3>6. CASE ~Decided(x)
        <4>1. row[x].status = "PROCESSING"
          BY <3>1, <3>3, <3>6, RowTyped DEF Rows, Status, Present, Decided
        <4>2. "appeal" \notin env /\ "cancel" \notin env
          BY <3>4, <4>1 DEF CalmInv, CalmRow, Undisturbed
        <4> DEFINE y == t - 1
        <4>3. y \in Tx /\ t > 1 /\ (x < y \/ x = y)
          BY <2>3, StateAssumption DEF Tx
        <4>4. Decided(y) /\ row[y].status # "CANCELED"
          BY <3>3, <4>2, <4>3 DEF MayExecute, CalmInv, CalmRow, CalmMarks
        <4>5. Begun(y) /\ x # y
          BY <3>6, <4>4 DEF Begun, Decided, Eligible, Terminal
        <4> QED  BY <4>3, <4>5 DEF InOrder
      <3> QED  BY <3>5, <3>6
    <2> QED  BY <2>1, <2>2, <2>3 DEF InOrder
  <1>7. Accounts'
    <2>1. ASSUME NEW u \in Tx, Accounted(u) PROVE Accounted(u)'
      BY <1>1, <1>3, <1>4, <2>1 DEF Accounted, InFlight
    <2> QED  BY <1>1, <2>1 DEF Accounts
  <1> QED  BY <1>5, <1>6, <1>7

(* Every step keeps the history.                                           *)
LEMMA HistoryStep ==
    ASSUME TypeOK, LeaseInv, FinalInv, HistoryInv, Next
    PROVE  HistoryInv'
  <1> SUFFICES ASSUME Undisturbed' PROVE (CalmInv /\ InOrder /\ Accounts)'
    BY DEF HistoryInv
  <1>1. env' = env => Undisturbed /\ RowsInv /\ TasksInv /\ CalmInv /\ InOrder /\ Accounts
    BY CalmIsApart DEF Undisturbed, HistoryInv, FinalInv
  <1>2. ASSUME NEW t \in Tx,
               Submit(t) \/ Cancel(t) \/ Appeal(t) \/ Recover(t) \/ ReleaseOrphan(t)
        PROVE  (CalmInv /\ InOrder /\ Accounts)'
    <2>1. env' = env
      BY <1>2, UserFrame, Zenon
    <2> QED  BY <1>1, <1>2, <2>1, UserHistory, Zenon
  <1>3. ASSUME NEW w \in Workers, Step(w), ~Ends(w)
        PROVE  (CalmInv /\ InOrder /\ Accounts)'
    <2>1. env' = env
      BY <1>3, StepFrame
    <2> QED  BY <1>1, <1>3, <2>1, TaskHistory
  <1>4. ASSUME NEW w \in Workers, Ends(w)
        PROVE  (CalmInv /\ InOrder /\ Accounts)'
    <2>1. env' = env
      BY <1>4, EndFrame
    <2> QED  BY <1>1, <1>4, <2>1, EndHistory
  <1>5. ASSUME NEW w \in Workers, NEW kind \in Kinds, NEW t \in Tx, Claim(w, kind, t)
        PROVE  (CalmInv /\ InOrder /\ Accounts)'
    <2>1. env' = env
      BY <1>5, ClaimFrame
    <2> QED  BY <1>1, <1>5, <2>1, ClaimHistory
  <1> QED  BY <1>2, <1>3, <1>4, <1>5, Zenon DEF Next

(* Every execution, for any number of transactions and workers: while      *)
(* nobody works on the contract, its accepted state is the effects of the  *)
(* accepted transactions, each once and in the order of their submission.  *)
THEOREM AcceptedStateIsHistory == Spec => []AcceptedIsHistory
  <1> DEFINE Inv == TypeOK /\ LeaseInv /\ FinalInv /\ HistoryInv
  <1>1. Init => Inv
    <2> SUFFICES ASSUME Init PROVE Inv
      OBVIOUS
    <2>1. TypeOK
      BY InitTyped
    <2>2. /\ row = [t \in Tx |-> NewRow] /\ task = [w \in Workers |-> NoTask]
          /\ state.accepted = Deployed
      BY DEF Init
    <2>3. LeaseInv
      BY <2>2 DEF LeaseInv, Working, NoTask
    <2>4. FinalInv
      BY <2>2 DEF FinalInv, RowsInv, RowInv, NewRow, TasksInv, TaskInv, NoTask, Executing
    <2>5. CalmInv
      <3>1. state.accepted # Empty
        BY <2>2 DEF Deployed, Empty
      <3> QED
        BY <2>2, <3>1 DEF CalmInv, CalmTask, CalmRow, CalmMarks, NewRow, NoTask, Undone,
                          Working, Present
    <2>6. InOrder
      BY <2>2 DEF InOrder, Begun, OnIt, Working, NewRow, NoTask
    <2>7. Accounts
      <3>1. Effects(state.accepted) = {0} /\ Ascending(state.accepted)
        BY <2>2 DEF Deployed, Effects, Ascending
      <3> QED  BY <3>1, StateAssumption DEF Accounts, Tx
    <2> QED  BY <2>1, <2>3, <2>4, <2>5, <2>6, <2>7 DEF HistoryInv
  <1>2. Inv /\ [Next]_vars => Inv'
    <2> SUFFICES ASSUME Inv, [Next]_vars PROVE Inv'
      OBVIOUS
    <2>1. CASE UNCHANGED vars
      <3>1. (TypeOK /\ LeaseInv)'
        BY <2>1 DEF vars, TypeOK, LeaseInv, Working, Live, Present
      <3>2. FinalInv'
        BY <2>1 DEF vars, FinalInv, Apart, RowsInv, RowInv, TasksInv, TaskInv, Held, Alone,
                    Executing
      <3>3. HistoryInv'
        BY <2>1 DEF vars, HistoryInv, Undisturbed, CalmInv, CalmTask, CalmRow, CalmMarks,
                    InOrder, Begun, Past, Accounts, Accounted, OnIt, InFlight, Working,
                    Decided, Present
      <3> QED  BY <3>1, <3>2, <3>3
    <2>2. CASE Next
      BY <2>2, LeaseStep, FinalStep, HistoryStep
    <2> QED  BY <2>1, <2>2
  <1>3. Inv => AcceptedIsHistory
    <2> SUFFICES ASSUME Inv, Undisturbed, Quiet
                 PROVE  /\ Effects(state.accepted) = {0} \cup {t \in Tx : Effect(t)}
                        /\ Ascending(state.accepted)
      BY DEF AcceptedIsHistory
    <2>1. /\ CalmInv /\ Accounts /\ RowsInv
      BY CalmIsApart DEF HistoryInv, FinalInv
    <2>2. ASSUME NEW t \in Tx, NEW w \in Workers PROVE ~OnIt(w, t)
      BY DEF OnIt, LeaseInv, Quiet
    <2>3. ASSUME NEW t \in Tx, t \in Effects(state.accepted) PROVE Effect(t)
      BY <2>1, <2>2, <2>3 DEF Accounts, Accounted, Effect
    <2>4. ASSUME NEW t \in Tx, Effect(t) PROVE t \in Effects(state.accepted)
      BY <2>1, <2>4 DEF RowsInv, RowInv, Effect, Held, CalmInv
    <2> QED  BY <2>1, <2>3, <2>4 DEF Accounts
  <1> QED  BY <1>1, <1>2, <1>3, PTL DEF Spec
=============================================================================
