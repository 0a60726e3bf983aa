------------------------ MODULE ValidatorWaveProofs ------------------------
(***************************************************************************)
(* Proofs about a round of validators, for any number of slots, spare      *)
(* validators, replacements and permits: when the early end is taken, the  *)
(* votes not waited for do not matter; no validator votes twice; and a     *)
(* replacement undoes nothing but timeouts.                                *)
(***************************************************************************)
EXTENDS ValidatorWave, FiniteSetTheorems, TLAPS

-----------------------------------------------------------------------------
(* Counting votes.                                                         *)

(* The voters of a kind are among the slots, which are finitely many.      *)
LEMMA VotersAreFew ==
    ASSUME NEW S, IsFiniteSet(S), NEW votes, DOMAIN votes = S, NEW kinds
    PROVE  /\ Voters(votes, kinds) \subseteq S
           /\ IsFiniteSet(Voters(votes, kinds))
           /\ Cardinality(Voters(votes, kinds)) \in Nat
<1>1. Voters(votes, kinds) \subseteq S
    BY DEF Voters
<1>2. IsFiniteSet(Voters(votes, kinds))
    BY <1>1, FS_Subset
<1> QED
    BY <1>1, <1>2, FS_CardinalityType

(* A majority stays one when its voters do.                                *)
LEMMA MajorityGrows ==
    ASSUME NEW S, IsFiniteSet(S), NEW v, NEW c, DOMAIN v = S, DOMAIN c = S, NEW kinds,
           Voters(v, kinds) \subseteq Voters(c, kinds),
           Majority(v, kinds)
    PROVE  Majority(c, kinds)
<1>1. /\ Cardinality(Voters(v, kinds)) \in Nat
      /\ Cardinality(Voters(c, kinds)) \in Nat
      /\ IsFiniteSet(Voters(c, kinds))
    BY VotersAreFew
<1>2. Cardinality(Voters(v, kinds)) <= Cardinality(Voters(c, kinds))
    BY <1>1, FS_Subset
<1>3. Cardinality(S) \in Nat
    BY FS_CardinalityType
<1> QED
    BY <1>1, <1>2, <1>3 DEF Majority

(* Two sides do not both have one.                                         *)
LEMMA OneMajority ==
    ASSUME NEW S, IsFiniteSet(S), NEW c, DOMAIN c = S, NEW K, NEW L, K \cap L = {},
           Majority(c, K)
    PROVE  ~Majority(c, L)
<1> DEFINE A == Voters(c, K)
           B == Voters(c, L)
<1>1. /\ A \subseteq S /\ IsFiniteSet(A) /\ Cardinality(A) \in Nat
      /\ B \subseteq S /\ IsFiniteSet(B) /\ Cardinality(B) \in Nat
    BY VotersAreFew
<1>2. A \cap B = {}
    BY DEF Voters
<1>3. Cardinality(A \cup B) = Cardinality(A) + Cardinality(B) - Cardinality(A \cap B)
    BY <1>1, FS_Union
<1>4. Cardinality(A \cap B) = 0
    BY <1>2, FS_EmptySet
<1>5. Cardinality(A \cup B) <= Cardinality(S)
    BY <1>1, FS_Subset, A \cup B \in SUBSET S
<1>6. Cardinality(S) \in Nat
    BY FS_CardinalityType
<1> HIDE DEF A, B
<1>7. Cardinality(A) + Cardinality(B) <= Cardinality(S)
    BY <1>1, <1>3, <1>4, <1>5
<1>8. 2 * Cardinality(A) > Cardinality(S)
    BY DEF Majority, A
<1>9. ~(2 * Cardinality(B) > Cardinality(S))
    BY <1>1, <1>6, <1>7, <1>8
<1> QED
    BY <1>9 DEF Majority, B

(* What the votes that are in decide alone, every completion decides: a    *)
(* side x does not vote for has its majority without the missing votes.    *)
LEMMA DecidedAlready ==
    ASSUME NEW S, IsFiniteSet(S), NEW v \in [S -> Vote \cup {"none"}],
           NEW kinds, NEW x, x \notin kinds, "none" \notin kinds,
           Majority(Fill(v, x), kinds),
           NEW c \in Completions(v)
    PROVE  Majority(c, kinds)
<1>1. c \in [S -> Vote] /\ \A s \in S : v[s] # "none" => c[s] = v[s]
    BY DEF Completions
<1>2. Fill(v, x) = [s \in S |-> IF v[s] = "none" THEN x ELSE v[s]]
    BY DEF Fill
<1>3. Voters(Fill(v, x), kinds) \subseteq Voters(c, kinds)
    BY <1>1, <1>2 DEF Voters
<1> QED
    BY <1>1, <1>2, <1>3, MajorityGrows

(* _is_quorum_reached looks at completions with one kind of vote only, and *)
(* still every mixed one gives the same result.                            *)
THEOREM QuorumIsSound ==
    ASSUME NEW S, IsFiniteSet(S), NEW v \in [S -> Vote \cup {"none"}],
           QuorumReached(v),
           NEW c \in Completions(v), NEW d \in Completions(v)
    PROVE  Consensus(c) = Consensus(d)
<1>1. DOMAIN c = S /\ DOMAIN d = S
    BY DEF Completions
<1>2. PICK result \in {"MAJORITY_AGREE", "MAJORITY_DISAGREE", "TIMEOUT"} :
          \A x \in {"agree", "disagree", "timeout", "idle"} : Consensus(Fill(v, x)) = result
    BY DEF QuorumReached
<1>3. CASE result = "MAJORITY_AGREE"
    <2>1. Majority(Fill(v, "disagree"), {"agree"})
        BY <1>2, <1>3 DEF Consensus
    <2>2. Majority(c, {"agree"}) /\ Majority(d, {"agree"})
        BY <2>1, DecidedAlready
    <2> QED
        BY <2>2 DEF Consensus
<1>4. CASE result = "MAJORITY_DISAGREE"
    <2>1. Majority(Fill(v, "agree"), {"disagree", "idle"})
        BY <1>2, <1>4 DEF Consensus
    <2>2. Majority(c, {"disagree", "idle"}) /\ Majority(d, {"disagree", "idle"})
        BY <2>1, DecidedAlready
    <2>3. {"disagree", "idle"} \cap {"agree"} = {}
        OBVIOUS
    <2>4. ~Majority(c, {"agree"}) /\ ~Majority(d, {"agree"})
        BY <1>1, <2>2, <2>3, OneMajority
    <2> QED
        BY <2>2, <2>4 DEF Consensus
<1>5. CASE result = "TIMEOUT"
    <2>1. Majority(Fill(v, "agree"), {"timeout"})
        BY <1>2, <1>5 DEF Consensus
    <2>2. Majority(c, {"timeout"}) /\ Majority(d, {"timeout"})
        BY <2>1, DecidedAlready
    <2>3. {"timeout"} \cap {"agree"} = {} /\ {"timeout"} \cap {"disagree", "idle"} = {}
        OBVIOUS
    <2>4. /\ ~Majority(c, {"agree"}) /\ ~Majority(d, {"agree"})
          /\ ~Majority(c, {"disagree", "idle"}) /\ ~Majority(d, {"disagree", "idle"})
        BY <1>1, <2>2, <2>3, OneMajority
    <2> QED
        BY <2>2, <2>4 DEF Consensus
<1> QED
    BY <1>2, <1>3, <1>4, <1>5
-----------------------------------------------------------------------------
(* Types.                                                                  *)

(* The replacement that pop_replacement gives is a validator.              *)
LEMMA ReplacementType ==
    ASSUME pool \subseteq Validator, NEW v \in Validator, PopReplacement(v)
    PROVE  /\ v \in pool
           /\ pool' = pool \ {v}
           /\ pool' \subseteq Validator
    BY DEF PopReplacement

(* TypeOK is not inductive: a second wave counts one cycle more, and that  *)
(* there is one left was checked before the replacements were looked for.  *)
WaveInv ==
    /\ TypeOK
    /\ pc = "replace" => cycles < MaxReplacements

(* A step of a slot keeps the types of the slots and of the pool.          *)
LEMMA RunType ==
    ASSUME WaveInv, NEW s \in Slot, Run(s)
    PROVE  WaveInv'
<1> USE WaveAssumption
<1>1. /\ task \in [Slot -> Tasks] /\ pool \subseteq Validator /\ executing \subseteq Validator
      /\ UNCHANGED <<pc, assigned, results, late, cycles>>
    BY DEF WaveInv, TypeOK, Run, Start, Return, Replace, GiveUp, Break
<1>2. /\ task[s] \in Tasks
      /\ task[s].at \in {"none", "waiting", "running", "done", "failed"}
      /\ task[s].by \in Validator
      /\ task[s].attempt \in 0..MaxReplacements
      /\ task[s].vote \in Vote \cup {"none"}
    BY <1>1 DEF Tasks
<1>3. /\ task' \in [Slot -> Tasks]
      /\ pool' \subseteq Validator
      /\ executing' \subseteq Validator
    <2>1. CASE Start(s)
        BY <2>1, <1>1, <1>2 DEF Start, Tasks
    <2>2. CASE Return(s)
        <3>1. PICK v \in Vote \ {"idle"} :
                  task' = [task EXCEPT ![s].at = "done", ![s].vote = v]
            BY <2>2 DEF Return
        <3>2. /\ executing' \subseteq Validator
              /\ pool' \subseteq Validator
            BY <1>1, <2>2 DEF Return
        <3> QED
            BY <1>1, <1>2, <3>1, <3>2 DEF Tasks
    <2>3. CASE Replace(s)
        <3>1. PICK v \in Validator :
                /\ PopReplacement(v)
                /\ task' = [task EXCEPT ![s].by = v, ![s].attempt = @ + 1]
                /\ executing' = (executing \ {task[s].by}) \cup {v}
            BY <2>3 DEF Replace
        <3>2. task[s].attempt + 1 \in 0..MaxReplacements
            BY <2>3, <1>2 DEF Replace, MayRetry
        <3>3. pool' \subseteq Validator
            BY <1>1, <3>1, ReplacementType
        <3> QED
            BY <1>1, <1>2, <3>1, <3>2, <3>3 DEF Tasks
    <2>4. CASE GiveUp(s)
        BY <2>4, <1>1, <1>2 DEF GiveUp, Tasks, Vote
    <2>5. CASE Break(s)
        BY <2>5, <1>1, <1>2 DEF Break, Tasks
    <2> QED
        BY <2>1, <2>2, <2>3, <2>4, <2>5 DEF Run
<1> QED
    BY <1>1, <1>3 DEF WaveInv, TypeOK

(* The receipts of a wave are receipts.                                    *)
LEMMA GatheredType ==
    ASSUME TypeOK
    PROVE  Gathered \in [Slot -> Results]
<1>1. task \in [Slot -> Tasks] /\ results \in [Slot -> Results]
    BY DEF TypeOK
<1> QED
    BY <1>1 DEF Gathered, Tasks, Results

(* A verdict is an end of the round.                                       *)
LEMMA VerdictType ==
    ASSUME NEW receipts
    PROVE  Verdict(receipts) \in {"reveal", "raised"}
    BY DEF Verdict

(* A fresh task and a slot without a receipt.                              *)
LEMMA FreshType ==
    ASSUME NEW v \in Validator
    PROVE  NewTask(v) \in Tasks /\ NoResult(v) \in Results
    BY WaveAssumption DEF NewTask, NoResult, Tasks, Results

(* A step of the handler keeps every type.                                 *)
LEMMA HandleType ==
    ASSUME WaveInv, Handle
    PROVE  WaveInv'
<1> USE WaveAssumption
<1>1. /\ pc \in {"wave", "replace", "reveal", "raised", "broken"}
      /\ assigned \in [Slot -> Validator] /\ task \in [Slot -> Tasks]
      /\ results \in [Slot -> Results] /\ pool \subseteq Validator
      /\ late \subseteq Slot /\ cycles \in 0..MaxReplacements /\ executing \subseteq Validator
      /\ TypeOK
    BY DEF WaveInv, TypeOK
<1>0. pc = "replace" => cycles < MaxReplacements
    BY DEF WaveInv
<1>2. ASSUME NEW r \in Tasks
      PROVE  [r EXCEPT !.at = "none"] \in Tasks
    BY <1>2 DEF Tasks
<1>3. CASE Collect
    BY <1>1, <1>2, <1>3, GatheredType DEF Collect, WaveInv, TypeOK
<1>4. CASE StopEarly
    <2> DEFINE filled == [s \in Slot |-> IF Gathered[s].vote # "none" THEN Gathered[s]
                            ELSE [by |-> assigned[s], vote |-> "idle", cause |-> "quorum"]]
    <2>1. filled \in [Slot -> Results]
        BY <1>1, GatheredType DEF Results, Vote
    <2>2. /\ results' = filled
          /\ task' = [s \in Slot |-> [task[s] EXCEPT !.at = "none"]]
          /\ pc' = Verdict(filled)
          /\ UNCHANGED <<assigned, pool, late, cycles, executing>>
        BY <1>4 DEF StopEarly
    <2> HIDE DEF filled
    <2>3. pc' \in {"reveal", "raised"}
        BY <2>2, VerdictType
    <2>4. task' \in [Slot -> Tasks]
        BY <1>1, <1>2, <2>2
    <2> QED
        BY <1>1, <2>1, <2>2, <2>3, <2>4 DEF WaveInv, TypeOK
<1>5. CASE Propagate
    BY <1>1, <1>5 DEF Propagate, WaveInv, TypeOK
<1>6. CASE Conclude
    BY <1>1, <1>6, VerdictType DEF Conclude, WaveInv, TypeOK
<1>7. CASE BeginReplacing
    BY <1>1, <1>7 DEF BeginReplacing, WaveInv, TypeOK, TimedOut
<1>8. CASE EndReplacing
    <2>1. CASE \A s \in Slot : results[s].vote # "none"
        BY <1>1, <1>8, <2>1, VerdictType DEF EndReplacing, WaveInv, TypeOK
    <2>2. CASE \E s \in Slot : results[s].vote = "none"
        BY <1>0, <1>1, <1>8, <2>2, FreshType DEF EndReplacing, WaveInv, TypeOK
    <2> QED
        BY <2>1, <2>2
<1>9. ASSUME NEW s \in Slot, ReplaceLate(s)
      PROVE  WaveInv'
    <2>1. late' \subseteq Slot /\ UNCHANGED <<pc, task, cycles, executing>>
        BY <1>1, <1>9 DEF ReplaceLate
    <2>2. /\ assigned' \in [Slot -> Validator] /\ results' \in [Slot -> Results]
          /\ pool' \subseteq Validator
        <3>1. CASE UNCHANGED <<assigned, results, pool>>
            BY <1>1, <3>1
        <3>2. CASE ~UNCHANGED <<assigned, results, pool>>
            <4>1. PICK v \in Validator :
                    /\ PopReplacement(v)
                    /\ assigned' = [assigned EXCEPT ![s] = v]
                    /\ results' = [results EXCEPT ![s] = NoResult(v)]
                BY <1>9, <3>2 DEF ReplaceLate
            <4> QED
                BY <1>1, <4>1, FreshType, ReplacementType
        <3> QED
            BY <3>1, <3>2
    <2> QED
        BY <1>0, <1>1, <2>1, <2>2 DEF WaveInv, TypeOK
<1> QED
    BY <1>3, <1>4, <1>5, <1>6, <1>7, <1>8, <1>9 DEF Handle

(* No counter passes its cap and every slot keeps a receipt and a task of  *)
(* a validator, through every replacement and every end.                   *)
THEOREM WaveTypes == Spec => []TypeOK
<1>1. Init => WaveInv
    BY WaveAssumption DEF Init, WaveInv, TypeOK, Slot, Validator, NewTask, NoResult, Tasks, Results
<1>2. WaveInv /\ [Next]_vars => WaveInv'
    <2> SUFFICES ASSUME WaveInv, [Next]_vars PROVE WaveInv'
        OBVIOUS
    <2>1. CASE Handle
        BY <2>1, HandleType
    <2>2. CASE \E s \in Slot : Run(s)
        BY <2>2, RunType
    <2>3. CASE OrphanEnds
        BY <2>3 DEF OrphanEnds, WaveInv, TypeOK
    <2>4. CASE UNCHANGED vars
        BY <2>4 DEF vars, WaveInv, TypeOK
    <2> QED
        BY <2>1, <2>2, <2>3, <2>4 DEF Next
<1>3. WaveInv => TypeOK
    BY DEF WaveInv
<1> QED
    BY <1>1, <1>2, <1>3, PTL DEF Spec

-----------------------------------------------------------------------------
(* What the handler knows of the receipts at each place.                   *)

Ends == {"reveal", "raised"}

DoneHasVote == \A s \in Slot : task[s].at = "done" => task[s].vote # "none"
ReceiptsAreTaken ==
    pc = "wave" => \A s \in Slot : task[s].at = "none" <=> results[s].vote # "none"
OnlyTimeoutsAreLate ==
    pc = "replace" => /\ \A s \in Slot : task[s].at = "none"
                      /\ \A s \in late : results[s].vote = "timeout"
OwnUntilTheEnd == pc \notin Ends => \A s \in Slot : results[s].cause = "own"
EndIsJustified ==
    pc \in Ends => /\ \A s \in Slot : results[s].vote # "none"
                   /\ (\A s \in Slot : results[s].cause = "own") \/ QuorumReached(Waited)

ReceiptInv ==
    /\ TypeOK
    /\ DoneHasVote /\ ReceiptsAreTaken /\ OnlyTimeoutsAreLate
    /\ OwnUntilTheEnd /\ EndIsJustified

(* A step of a slot touches no receipt.                                    *)
LEMMA RunKeepsReceipts ==
    ASSUME ReceiptInv, TypeOK', NEW u \in Slot, Run(u)
    PROVE  ReceiptInv'
<1>1. task \in [Slot -> Tasks]
    BY DEF ReceiptInv, TypeOK
<1>2. UNCHANGED <<pc, results, late>>
    BY DEF Run, Start, Return, Replace, GiveUp, Break
<1>3. /\ \A s \in Slot \ {u} : task'[s] = task[s]
      /\ task[u].at # "none" /\ task'[u].at # "none"
      /\ task'[u].at = "done" => task'[u].vote # "none"
    <2>1. CASE Start(u)
        BY <2>1, <1>1 DEF Start, Tasks
    <2>2. CASE Return(u)
        <3>1. PICK v \in Vote \ {"idle"} :
                  task' = [task EXCEPT ![u].at = "done", ![u].vote = v]
            BY <2>2 DEF Return
        <3> QED
            BY <2>2, <3>1, <1>1 DEF Return, Tasks, Vote
    <2>3. CASE Replace(u)
        <3>1. PICK v \in Validator :
                  task' = [task EXCEPT ![u].by = v, ![u].attempt = @ + 1]
            BY <2>3 DEF Replace
        <3> QED
            BY <2>3, <3>1, <1>1 DEF Replace, Tasks
    <2>4. CASE GiveUp(u)
        BY <2>4, <1>1 DEF GiveUp, Tasks
    <2>5. CASE Break(u)
        BY <2>5, <1>1 DEF Break, Tasks
    <2> QED
        BY <2>1, <2>2, <2>3, <2>4, <2>5 DEF Run
<1>4. Waited' = Waited
    BY <1>2 DEF Waited
<1>5. DoneHasVote'
    BY <1>3 DEF ReceiptInv, DoneHasVote
<1>6. ReceiptsAreTaken'
    BY <1>2, <1>3 DEF ReceiptInv, ReceiptsAreTaken
<1>7. OnlyTimeoutsAreLate'
    BY <1>2, <1>3 DEF ReceiptInv, OnlyTimeoutsAreLate
<1>8. OwnUntilTheEnd'
    BY <1>2 DEF ReceiptInv, OwnUntilTheEnd
<1>9. EndIsJustified'
    BY <1>2, <1>4 DEF ReceiptInv, EndIsJustified
<1> QED
    BY <1>5, <1>6, <1>7, <1>8, <1>9 DEF ReceiptInv

(* In a wave, the receipts taken together with those of the tasks that are *)
(* done are each validator's own, and the slots without one still run.     *)
LEMMA GatheredReceipts ==
    ASSUME ReceiptInv, pc = "wave"
    PROVE  /\ Gathered \in [Slot -> Results]
           /\ \A s \in Slot :
                /\ Gathered[s].cause = "own"
                /\ task[s].at \in {"none", "done"} <=> Gathered[s].vote # "none"
                /\ results[s].vote # "none" => Gathered[s] = results[s]
<1>1. Gathered \in [Slot -> Results]
    BY GatheredType DEF ReceiptInv
<1>2. \A s \in Slot : results[s].cause = "own"
    BY DEF ReceiptInv, OwnUntilTheEnd, Ends
<1> QED
    BY <1>1, <1>2 DEF ReceiptInv, DoneHasVote, ReceiptsAreTaken, Gathered, At

(* At the end of a wave or of the replacements, nobody's vote is made up.  *)
LEMMA EndWithAllVotes ==
    ASSUME ReceiptInv, TypeOK', UNCHANGED <<results, task>>,
           \A s \in Slot : results[s].vote # "none",
           pc \notin Ends, pc' \in Ends
    PROVE  ReceiptInv'
<1>1. \A s \in Slot : results'[s].cause = "own"
    BY DEF ReceiptInv, OwnUntilTheEnd
<1> QED
    BY <1>1 DEF ReceiptInv, DoneHasVote, ReceiptsAreTaken, OnlyTimeoutsAreLate,
                OwnUntilTheEnd, EndIsJustified, Ends

(* A step of the handler keeps what it knows of the receipts.              *)
LEMMA HandleKeepsReceipts ==
    ASSUME ReceiptInv, TypeOK', Handle
    PROVE  ReceiptInv'
<1>0. /\ task \in [Slot -> Tasks] /\ results \in [Slot -> Results] /\ late \subseteq Slot
      /\ TypeOK
    BY DEF ReceiptInv, TypeOK
<1>1. CASE Collect
    <2>1. /\ pc = "wave" /\ pc' = pc
          /\ results' = Gathered
          /\ task' = [s \in Slot |-> IF s \in At("done") THEN [task[s] EXCEPT !.at = "none"]
                                                         ELSE task[s]]
        BY <1>1 DEF Collect
    <2>2. \A s \in Slot : /\ task'[s].at # "done"
                          /\ task'[s].at = "none" <=> task[s].at \in {"none", "done"}
        BY <1>0, <2>1 DEF At, Tasks
    <2>3. \A s \in Slot : /\ results'[s].cause = "own"
                          /\ task'[s].at = "none" <=> results'[s].vote # "none"
        BY <2>1, <2>2, GatheredReceipts
    <2> QED
        BY <2>1, <2>2, <2>3 DEF ReceiptInv, DoneHasVote, ReceiptsAreTaken,
           OnlyTimeoutsAreLate, OwnUntilTheEnd, EndIsJustified, Ends
<1>2. CASE StopEarly
    <2> DEFINE filled == [s \in Slot |-> IF Gathered[s].vote # "none" THEN Gathered[s]
                            ELSE [by |-> assigned[s], vote |-> "idle", cause |-> "quorum"]]
    <2>1. /\ pc = "wave"
          /\ QuorumReached(VotesOf(Gathered))
          /\ results' = filled
          /\ task' = [s \in Slot |-> [task[s] EXCEPT !.at = "none"]]
          /\ pc' = Verdict(filled)
        BY <1>2 DEF StopEarly
    <2>2. \A s \in Slot :
            /\ Gathered[s].cause = "own"
            /\ filled[s].vote # "none"
            /\ (IF filled[s].cause = "quorum" THEN "none" ELSE filled[s].vote) = Gathered[s].vote
        BY <2>1, GatheredReceipts
    <2> HIDE DEF filled
    <2>3. pc' \in Ends
        BY <2>1, VerdictType DEF Ends
    <2>4. Waited' = VotesOf(Gathered)
        BY <2>1, <2>2 DEF Waited, VotesOf
    <2>5. EndIsJustified'
        BY <2>1, <2>2, <2>4 DEF EndIsJustified
    <2>6. \A s \in Slot : task'[s].at = "none"
        BY <1>0, <2>1 DEF Tasks
    <2> QED
        BY <2>3, <2>5, <2>6 DEF ReceiptInv, DoneHasVote, ReceiptsAreTaken,
           OnlyTimeoutsAreLate, OwnUntilTheEnd, Ends
<1>3. CASE Propagate
    BY <1>3 DEF Propagate, ReceiptInv, DoneHasVote, ReceiptsAreTaken, OnlyTimeoutsAreLate,
       OwnUntilTheEnd, EndIsJustified, Ends
<1>4. CASE Conclude
    <2>1. \A s \in Slot : results[s].vote # "none"
        BY <1>4 DEF Conclude, WaveOver, At, ReceiptInv, ReceiptsAreTaken
    <2>2. pc \notin Ends /\ pc' \in Ends /\ UNCHANGED <<results, task>>
        BY <1>4, VerdictType DEF Conclude, WaveOver, Ends
    <2> QED
        BY <2>1, <2>2, EndWithAllVotes
<1>5. CASE BeginReplacing
    <2>1. \A s \in Slot : task'[s].at = "none"
        BY <1>5 DEF BeginReplacing, WaveOver, At
    <2>2. \A s \in late' : results'[s].vote = "timeout"
        BY <1>5 DEF BeginReplacing, TimedOut
    <2>3. pc = "wave" /\ pc' = "replace" /\ UNCHANGED <<results, task>>
        BY <1>5 DEF BeginReplacing, WaveOver
    <2> QED
        BY <2>1, <2>2, <2>3 DEF ReceiptInv, DoneHasVote, ReceiptsAreTaken,
           OnlyTimeoutsAreLate, OwnUntilTheEnd, EndIsJustified, Ends
<1>6. CASE EndReplacing
    <2>1. pc = "replace" /\ UNCHANGED results
        BY <1>6 DEF EndReplacing
    <2>2. CASE \A s \in Slot : results[s].vote # "none"
        <3>1. UNCHANGED task /\ pc' = Verdict(results)
            BY <1>6, <2>2 DEF EndReplacing
        <3>2. pc \notin Ends /\ pc' \in Ends
            BY <2>1, <3>1, VerdictType DEF Ends
        <3> QED
            BY <2>1, <2>2, <3>1, <3>2, EndWithAllVotes
    <2>3. CASE \E s \in Slot : results[s].vote = "none"
        <3>1. /\ pc' = "wave"
              /\ task' = [s \in Slot |-> IF results[s].vote = "none"
                                         THEN NewTask(assigned[s]) ELSE task[s]]
            BY <1>6, <2>3 DEF EndReplacing
        <3>2. \A s \in Slot : task[s].at = "none"
            BY <2>1 DEF ReceiptInv, OnlyTimeoutsAreLate
        <3>3. \A s \in Slot : /\ task'[s].at # "done"
                              /\ task'[s].at = "none" <=> results'[s].vote # "none"
            BY <2>1, <3>1, <3>2 DEF NewTask
        <3>4. \A s \in Slot : results'[s].cause = "own"
            BY <2>1 DEF ReceiptInv, OwnUntilTheEnd, Ends
        <3> QED
            BY <3>1, <3>3, <3>4 DEF ReceiptInv, DoneHasVote, ReceiptsAreTaken,
               OnlyTimeoutsAreLate, OwnUntilTheEnd, EndIsJustified, Ends
    <2> QED
        BY <2>2, <2>3
<1>7. ASSUME NEW u \in Slot, ReplaceLate(u)
      PROVE  ReceiptInv'
    <2>1. /\ pc = "replace" /\ UNCHANGED <<pc, task>>
          /\ late' = late \ {u}
        BY <1>7 DEF ReplaceLate
    <2>2. /\ \A s \in Slot \ {u} : results'[s] = results[s]
          /\ \A s \in Slot : results'[s].cause = "own"
        <3>1. \A s \in Slot : results[s].cause = "own"
            BY <2>1 DEF ReceiptInv, OwnUntilTheEnd, Ends
        <3>2. CASE UNCHANGED results
            BY <3>1, <3>2
        <3>3. CASE ~UNCHANGED results
            <4>1. PICK v \in Validator : results' = [results EXCEPT ![u] = NoResult(v)]
                BY <1>7, <3>3 DEF ReplaceLate
            <4> QED
                BY <1>0, <3>1, <4>1 DEF NoResult
        <3> QED
            BY <3>2, <3>3
    <2> QED
        BY <1>0, <2>1, <2>2 DEF ReceiptInv, DoneHasVote, ReceiptsAreTaken,
           OnlyTimeoutsAreLate, OwnUntilTheEnd, EndIsJustified, Ends
<1> QED
    BY <1>1, <1>2, <1>3, <1>4, <1>5, <1>6, <1>7 DEF Handle

(* What is known of the receipts is known in every reachable state.        *)
LEMMA ReceiptsAreKnown == Spec => []ReceiptInv
<1>1. Init /\ TypeOK => ReceiptInv
    BY DEF Init, ReceiptInv, DoneHasVote, ReceiptsAreTaken, OnlyTimeoutsAreLate,
       OwnUntilTheEnd, EndIsJustified, Ends, NewTask, NoResult
<1>2. ReceiptInv /\ TypeOK' /\ [Next]_vars => ReceiptInv'
    <2> SUFFICES ASSUME ReceiptInv, TypeOK', [Next]_vars PROVE ReceiptInv'
        OBVIOUS
    <2>1. CASE Handle
        BY <2>1, HandleKeepsReceipts
    <2>2. CASE \E s \in Slot : Run(s)
        BY <2>2, RunKeepsReceipts
    <2>3. CASE OrphanEnds \/ UNCHANGED vars
        <3>1. UNCHANGED <<pc, task, results, late>>
            BY <2>3 DEF OrphanEnds, vars
        <3>2. Waited' = Waited
            BY <3>1 DEF Waited
        <3> QED
            BY <3>1, <3>2 DEF ReceiptInv, DoneHasVote, ReceiptsAreTaken,
               OnlyTimeoutsAreLate, OwnUntilTheEnd, EndIsJustified
    <2> QED
        BY <2>1, <2>2, <2>3 DEF Next
<1> QED
    BY <1>1, <1>2, WaveTypes, PTL DEF Spec

(* The votes that the early end does not wait for cannot change the result *)
(* that RevealingState counts.                                             *)
THEOREM EarlyEndsAreSound == Spec => []EarlyEndIsSound
<1>1. ReceiptInv => EarlyEndIsSound
    <2> SUFFICES ASSUME ReceiptInv, pc \in Ends, NEW c \in Completions(Waited)
                 PROVE  Consensus(c) = Consensus(VotesOf(results))
        BY DEF EarlyEndIsSound, Ends
    <2>1. /\ results \in [Slot -> Results]
          /\ \A s \in Slot : results[s].vote # "none"
        BY DEF ReceiptInv, TypeOK, EndIsJustified
    <2>2. \A s \in Slot : results[s].vote \in Vote
        BY <2>1 DEF Results
    <2>3. Waited \in [Slot -> Vote \cup {"none"}]
        BY <2>2 DEF Waited
    <2>4. VotesOf(results) \in Completions(Waited)
        BY <2>2 DEF VotesOf, Waited, Completions
    <2>5. CASE \A s \in Slot : results[s].cause = "own"
        <3>1. \A s \in Slot : Waited[s] = results[s].vote
            BY <2>5 DEF Waited
        <3>2. c \in [Slot -> Vote] /\ \A s \in Slot : c[s] = results[s].vote
            BY <2>1, <2>3, <3>1 DEF Completions
        <3>3. c = VotesOf(results)
            BY <3>2 DEF VotesOf
        <3> QED
            BY <3>3
    <2>6. CASE QuorumReached(Waited)
        <3>1. IsFiniteSet(Slot)
            BY FS_Interval, WaveAssumption DEF Slot
        <3> QED
            BY <2>3, <2>4, <2>6, <3>1, QuorumIsSound
    <2> QED
        BY <2>5, <2>6 DEF ReceiptInv, EndIsJustified
<1> QED
    BY <1>1, ReceiptsAreKnown, PTL

(* A replacement undoes no vote but a timeout.                             *)
THEOREM VotesAreNotUndone == Spec => VotesStand
<1>1. ReceiptInv /\ [Next]_vars =>
        [\A s \in Slot : results[s].vote \notin {"none", "timeout"}
                            => results'[s] = results[s]]_vars
    <2> SUFFICES ASSUME ReceiptInv, Next, NEW s \in Slot,
                        results[s].vote \notin {"none", "timeout"}
                 PROVE  results'[s] = results[s]
        OBVIOUS
    <2>0. results \in [Slot -> Results]
        BY DEF ReceiptInv, TypeOK
    <2>1. CASE Collect
        BY <2>1, GatheredReceipts DEF Collect
    <2>2. CASE StopEarly
        BY <2>2, GatheredReceipts DEF StopEarly
    <2>3. ASSUME NEW u \in Slot, ReplaceLate(u)
          PROVE  results'[s] = results[s]
        <3>1. u \in late /\ results[u].vote = "timeout"
            BY <2>3 DEF ReplaceLate, ReceiptInv, OnlyTimeoutsAreLate
        <3>2. CASE UNCHANGED results
            BY <3>2
        <3>3. CASE ~UNCHANGED results
            <4>1. PICK v \in Validator : results' = [results EXCEPT ![u] = NoResult(v)]
                BY <2>3, <3>3 DEF ReplaceLate
            <4> QED
                BY <2>0, <3>1, <4>1
        <3> QED
            BY <3>2, <3>3
    <2>4. CASE Propagate \/ Conclude \/ BeginReplacing \/ EndReplacing
        BY <2>4 DEF Propagate, Conclude, BeginReplacing, EndReplacing
    <2>5. CASE OrphanEnds \/ \E u \in Slot : Run(u)
        BY <2>5 DEF OrphanEnds, Run, Start, Return, Replace, GiveUp, Break
    <2> QED
        BY <2>1, <2>2, <2>3, <2>4, <2>5 DEF Next, Handle
<1> QED
    BY <1>1, ReceiptsAreKnown, PTL DEF Spec, VotesStand

-----------------------------------------------------------------------------
(* Who holds which slot.                                                   *)

Held(s) == {assigned[s], task[s].by, results[s].by}

Apart == \A s, u \in Slot : s # u => Held(s) \cap Held(u) = {}
Fresh == \A s \in Slot : Held(s) \cap pool = {}

(* Nobody new comes in.                                                    *)
LEMMA NobodyNew ==
    ASSUME Apart, Fresh, UNCHANGED pool,
           \A s \in Slot : Held(s)' \subseteq Held(s)
    PROVE  Apart' /\ Fresh'
<1>1. Apart'
    <2> SUFFICES ASSUME NEW s \in Slot, NEW u \in Slot, s # u
                 PROVE  Held(s)' \cap Held(u)' = {}
        BY DEF Apart
    <2>1. Held(s) \cap Held(u) = {} /\ Held(s)' \subseteq Held(s) /\ Held(u)' \subseteq Held(u)
        BY DEF Apart
    <2> QED
        BY <2>1
<1>2. Fresh'
    <2> SUFFICES ASSUME NEW s \in Slot PROVE Held(s)' \cap pool' = {}
        BY DEF Fresh
    <2>1. Held(s) \cap pool = {} /\ Held(s)' \subseteq Held(s)
        BY DEF Fresh
    <2> QED
        BY <2>1
<1> QED
    BY <1>1, <1>2

(* One validator leaves the pool for one slot.                             *)
LEMMA OneFromThePool ==
    ASSUME Apart, Fresh, NEW v, v \in pool, pool' = pool \ {v},
           NEW w \in Slot, Held(w)' \subseteq Held(w) \cup {v},
           \A s \in Slot \ {w} : Held(s)' \subseteq Held(s)
    PROVE  Apart' /\ Fresh'
<1>0. \A s \in Slot : v \notin Held(s)
    BY DEF Fresh
<1>1. Apart'
    <2> SUFFICES ASSUME NEW s \in Slot, NEW u \in Slot, s # u
                 PROVE  Held(s)' \cap Held(u)' = {}
        BY DEF Apart
    <2>1. Held(s) \cap Held(u) = {} /\ v \notin Held(s) /\ v \notin Held(u)
        BY <1>0 DEF Apart
    <2>2. CASE s = w
        BY <2>1, <2>2
    <2>3. CASE s # w
        <3>1. Held(s)' \subseteq Held(s) /\ Held(u)' \subseteq Held(u) \cup {v}
            BY <2>3
        <3> QED
            BY <2>1, <3>1
    <2> QED
        BY <2>2, <2>3
<1>2. Fresh'
    <2> SUFFICES ASSUME NEW s \in Slot PROVE Held(s)' \cap pool' = {}
        BY DEF Fresh
    <2>1. Held(s) \cap pool = {} /\ Held(s)' \subseteq Held(s) \cup {v}
        BY DEF Fresh
    <2> QED
        BY <2>1
<1> QED
    BY <1>1, <1>2

HolderInv == TypeOK /\ Apart /\ Fresh

(* A step of a slot changes who holds it only for a fresh validator.       *)
LEMMA RunKeepsHolders ==
    ASSUME HolderInv, TypeOK', NEW w \in Slot, Run(w)
    PROVE  HolderInv'
<1>1. task \in [Slot -> Tasks] /\ pool \subseteq Validator /\ Apart /\ Fresh
    BY DEF HolderInv, TypeOK
<1>2. UNCHANGED <<assigned, results>>
    BY DEF Run, Start, Return, Replace, GiveUp, Break
<1>3. CASE Replace(w)
    <2>1. PICK v \in Validator :
            /\ PopReplacement(v)
            /\ task' = [task EXCEPT ![w].by = v, ![w].attempt = @ + 1]
        BY <1>3 DEF Replace
    <2>2. v \in pool /\ pool' = pool \ {v}
        BY <2>1, <1>1, ReplacementType
    <2>3. \A s \in Slot \ {w} : task'[s].by = task[s].by
        BY <1>1, <2>1 DEF Tasks
    <2>4. task'[w].by = v
        BY <1>1, <2>1 DEF Tasks
    <2>5. Held(w)' \subseteq Held(w) \cup {v} /\ \A s \in Slot \ {w} : Held(s)' \subseteq Held(s)
        BY <1>2, <2>3, <2>4 DEF Held
    <2> QED
        BY <1>1, <2>2, <2>5, OneFromThePool DEF HolderInv
<1>4. CASE ~Replace(w)
    <2>1. UNCHANGED pool /\ \A s \in Slot : task'[s].by = task[s].by
        <3>1. CASE Return(w)
            <4>1. PICK v \in Vote \ {"idle"} :
                      task' = [task EXCEPT ![w].at = "done", ![w].vote = v]
                BY <3>1 DEF Return
            <4> QED
                BY <1>1, <3>1, <4>1 DEF Return, Tasks
        <3>2. CASE Start(w) \/ GiveUp(w) \/ Break(w)
            BY <1>1, <3>2 DEF Start, GiveUp, Break, Tasks
        <3> QED
            BY <1>4, <3>1, <3>2 DEF Run
    <2>2. \A s \in Slot : Held(s)' \subseteq Held(s)
        BY <1>2, <2>1 DEF Held
    <2> QED
        BY <1>1, <2>1, <2>2, NobodyNew DEF HolderInv
<1> QED
    BY <1>3, <1>4

(* So does a step of the handler.                                          *)
LEMMA HandleKeepsHolders ==
    ASSUME HolderInv, TypeOK', Handle
    PROVE  HolderInv'
<1>0. /\ task \in [Slot -> Tasks] /\ results \in [Slot -> Results] /\ Apart /\ Fresh
      /\ assigned \in [Slot -> Validator] /\ pool \subseteq Validator /\ TypeOK
    BY DEF HolderInv, TypeOK
<1>1. \A s \in Slot : Gathered[s].by \in {task[s].by, results[s].by}
    BY DEF Gathered
<1>2. CASE Collect
    <2>1. UNCHANGED <<assigned, pool>> /\ results' = Gathered
        BY <1>2 DEF Collect
    <2>2. \A s \in Slot : task'[s].by = task[s].by
        BY <1>0, <1>2 DEF Collect, Tasks
    <2>3. \A s \in Slot : Held(s)' \subseteq Held(s)
        BY <1>1, <2>1, <2>2 DEF Held
    <2> QED
        BY <1>0, <2>1, <2>3, NobodyNew DEF HolderInv
<1>3. CASE StopEarly
    <2>1. UNCHANGED <<assigned, pool>>
        BY <1>3 DEF StopEarly
    <2>2. \A s \in Slot : task'[s].by = task[s].by
        BY <1>0, <1>3 DEF StopEarly, Tasks
    <2>3. \A s \in Slot : results'[s].by \in {Gathered[s].by, assigned[s]}
        BY <1>3 DEF StopEarly
    <2>4. \A s \in Slot : Held(s)' \subseteq Held(s)
        BY <1>1, <2>1, <2>2, <2>3 DEF Held
    <2> QED
        BY <1>0, <2>1, <2>4, NobodyNew DEF HolderInv
<1>4. CASE Propagate \/ Conclude \/ BeginReplacing
    <2>1. UNCHANGED <<assigned, task, results, pool>>
        BY <1>4 DEF Propagate, Conclude, BeginReplacing
    <2>2. \A s \in Slot : Held(s)' \subseteq Held(s)
        BY <2>1 DEF Held
    <2> QED
        BY <1>0, <2>1, <2>2, NobodyNew DEF HolderInv
<1>5. CASE EndReplacing
    <2>1. UNCHANGED <<assigned, results, pool>>
        BY <1>5 DEF EndReplacing
    <2>2. \A s \in Slot : task'[s].by \in {task[s].by, assigned[s]}
        BY <1>0, <1>5 DEF EndReplacing, NewTask
    <2>3. \A s \in Slot : Held(s)' \subseteq Held(s)
        BY <2>1, <2>2 DEF Held
    <2> QED
        BY <1>0, <2>1, <2>3, NobodyNew DEF HolderInv
<1>6. ASSUME NEW w \in Slot, ReplaceLate(w)
      PROVE  HolderInv'
    <2>1. UNCHANGED task
        BY <1>6 DEF ReplaceLate
    <2>2. CASE UNCHANGED <<assigned, results, pool>>
        <3>1. \A s \in Slot : Held(s)' \subseteq Held(s)
            BY <2>1, <2>2 DEF Held
        <3> QED
            BY <1>0, <2>2, <3>1, NobodyNew DEF HolderInv
    <2>3. CASE ~UNCHANGED <<assigned, results, pool>>
        <3>1. PICK v \in Validator :
                /\ PopReplacement(v)
                /\ assigned' = [assigned EXCEPT ![w] = v]
                /\ results' = [results EXCEPT ![w] = NoResult(v)]
            BY <1>6, <2>3 DEF ReplaceLate
        <3>2. v \in pool /\ pool' = pool \ {v}
            BY <1>0, <3>1, ReplacementType
        <3>3. \A s \in Slot \ {w} : assigned'[s] = assigned[s] /\ results'[s] = results[s]
            BY <1>0, <3>1
        <3>4. assigned'[w] = v /\ results'[w].by = v
            BY <1>0, <3>1 DEF NoResult
        <3>5. /\ Held(w)' \subseteq Held(w) \cup {v}
              /\ \A s \in Slot \ {w} : Held(s)' \subseteq Held(s)
            BY <2>1, <3>3, <3>4 DEF Held
        <3> QED
            BY <1>0, <3>2, <3>5, OneFromThePool DEF HolderInv
    <2> QED
        BY <2>2, <2>3
<1> QED
    BY <1>2, <1>3, <1>4, <1>5, <1>6 DEF Handle

(* No validator has two slots, whatever the replacements: no vote of the   *)
(* round vanishes from the votes kept by address.                          *)
THEOREM ValidatorsVoteOnce == Spec => []OneVoteEach
<1>1. Init /\ TypeOK => HolderInv
    BY WaveAssumption DEF Init, HolderInv, Apart, Fresh, Held, Slot, NewTask, NoResult
<1>2. HolderInv /\ TypeOK' /\ [Next]_vars => HolderInv'
    <2> SUFFICES ASSUME HolderInv, TypeOK', [Next]_vars PROVE HolderInv'
        OBVIOUS
    <2>1. CASE Handle
        BY <2>1, HandleKeepsHolders
    <2>2. CASE \E s \in Slot : Run(s)
        BY <2>2, RunKeepsHolders
    <2>3. CASE OrphanEnds \/ UNCHANGED vars
        <3>1. UNCHANGED <<assigned, task, results, pool>>
            BY <2>3 DEF OrphanEnds, vars
        <3>2. \A s \in Slot : Held(s)' \subseteq Held(s)
            BY <3>1 DEF Held
        <3> QED
            BY <3>1, <3>2, NobodyNew DEF HolderInv
    <2> QED
        BY <2>1, <2>2, <2>3 DEF Next
<1>3. HolderInv => OneVoteEach
    BY DEF HolderInv, Apart, Held, OneVoteEach
<1> QED
    BY <1>1, <1>2, <1>3, WaveTypes, PTL DEF Spec
=============================================================================
