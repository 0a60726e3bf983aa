---------------------------- MODULE AppealPanels ----------------------------
(***************************************************************************)
(* Who votes on one transaction: the validators of its rounds, the new     *)
(* leader of a rotation, the panels of its appeals, and the receipts that  *)
(* the next selection starts from (backend/consensus/base.py and           *)
(* decisions.py, vrf.py).                                                  *)
(*                                                                         *)
(* Validators are numbers.  A shuffle is reduced to who leads: the others  *)
(* of a round differ only in the place of their receipts.  A transaction   *)
(* whose leader timed out is only executed again by a rollback: its        *)
(* appeals raise before they select anyone.                                *)
(***************************************************************************)
EXTENDS Integers, SequencesExt, FiniteSetsExt

CONSTANTS
    MaxValidators,   \* bound: validators that are ever registered
    Envs,            \* what may happen besides votes and appeals, per execution
    Initials,        \* the values of num_of_initial_validators
    MaxRotations,    \* config_rotation_rounds
    MaxAppeals       \* bound: appeals, rollbacks and failed machines

VARIABLES
    env,      \* of this execution: how many validators there are first, what may happen
    known,    \* the validators of the snapshot
    initial,  \* num_of_initial_validators
    tx,       \* the row: its status, consensus_data and appeal_failed
    leaders,  \* the leaders in consensus_history
    round,    \* the round under way
    decided,  \* who took the decision that stands
    jury,     \* who confirmed it last, {} if no appeal of it has failed
    strayed,   \* an appeal of it left receipts that are not those of the table
    spent     \* how much of MaxAppeals

vars == <<env, known, initial, tx, leaders, round, decided, jury, strayed, spent>>

NoRound == [at |-> "none", leader |-> 0, rest |-> <<>>, rotations |-> 0, leaderAppeal |-> FALSE]

Init ==
    /\ env \in Envs
    /\ known = 1..env.registered
    /\ initial \in Initials
    /\ tx = [status |-> "PENDING", leader |-> 0, voters |-> <<>>, failed |-> 0, appealed |-> FALSE]
    /\ leaders = {} /\ round = NoRound
    /\ decided = {} /\ jury = {} /\ strayed = FALSE /\ spent = 0

May(what) == what \in env.may
Spend == spent < MaxAppeals /\ spent' = spent + 1

-----------------------------------------------------------------------------
(* Selection.                                                              *)

(* s[i:] and s[:i] of Python, where a negative i counts from the end.      *)
Cut(s, i) == IF i >= 0 THEN i ELSE Max({0, Len(s) + i})
From(s, i) == SubSeq(s, Cut(s, i) + 1, Len(s))
UpTo(s, i) == SubSeq(s, 1, Min({Cut(s, i), Len(s)}))

Ascending(S) ==
    [i \in 1..Cardinality(S) |-> CHOOSE v \in S : Cardinality({u \in S : u < v}) = i - 1]

(* get_validators_for_transaction: any k of them, or all if there are      *)
(* less.  Those that nothing tells apart come in the order of their numbers. *)
Met == leaders \cup ToSet(tx.voters) \cup decided \cup jury
Samples(k, from) ==
    {Ascending(S) : S \in {S \in SUBSET from :
        /\ Cardinality(S) = Min({k, Cardinality(from)})
        /\ \A v \in S \ Met : \A u \in from \ Met : u < v => u \in S}}

(* get_validators_from_consensus_data: the validators with a receipt that  *)
(* are still registered, each once.                                        *)
Recorded(withLeader) ==
    LET receipts == (IF withLeader THEN <<tx.leader>> ELSE <<>>) \o tx.voters
        found[i \in 0..Len(receipts)] ==
          IF i = 0 THEN <<>>
          ELSE IF receipts[i] \in known \ ToSet(found[i - 1]) THEN Append(found[i - 1], receipts[i])
          ELSE found[i - 1]
    IN found[Len(receipts)]

(* get_used_leader_addresses: the claim of an appeal does not return       *)
(* consensus_history, so a panel is selected as if nobody had led.         *)
ClaimedLeaders == {}

(* get_extra_validators, before any appeal failed: n + 2 new validators.   *)
First(unused) == Samples(Len(Recorded(FALSE)) + 3, unused)

(* Later, n is computed from the receipts; the last panel sits again, with *)
(* new validators.                                                         *)
BaseAfter(failed, votes) ==
    IF failed = 1 THEN (votes + 1 - 2) \div 2 ELSE (votes + 1 - 3) \div (2 * failed - 1)
Base(votes) == BaseAfter(tx.failed, votes)
Later(unused) ==
    LET n == Base(Len(Recorded(FALSE))) IN
    IF n < 0 THEN {}
    ELSE {From(Recorded(FALSE), n - 1) \o new :
             new \in Samples(IF tx.failed = 1 THEN n + 1 ELSE 2 * n, unused)}

(* Nobody left to ask is an error, and the appeal fails.                   *)
Panels ==
    LET unused == (known \ ToSet(Recorded(FALSE))) \ ClaimedLeaders IN
    IF unused = {} THEN {} ELSE IF tx.failed = 0 THEN First(unused) ELSE Later(unused)

(* merge_appeal_validators.                                                *)
MergedAhead(results) ==    \* a defect: the panel comes before those who voted before it
    results \o (IF tx.failed = 0 THEN tx.voters
                ELSE UpTo(tx.voters, (Len(tx.voters) - 1) \div 2 - 1))
Merged(results) ==
    LET n == IF tx.failed = 1 THEN (Len(tx.voters) - 1) \div 2
             ELSE Len(results) - (Len(tx.voters) + 1) IN
    (IF tx.failed = 0 THEN tx.voters ELSE UpTo(tx.voters, n - 1)) \o results

(* The receipts and the panel are those of the table: nobody has two, they *)
(* give an n, and from the third appeal on there were 2n new validators.   *)
ReceiptsAreRight == IsInjective(tx.voters) /\ (tx.failed > 0 => Base(Len(tx.voters)) > 0)
PanelIsFull ==
    LET n == Base(Len(tx.voters))
    IN tx.failed > 1 => Len(round.rest) = Len(From(tx.voters, n - 1)) + 2 * n

-----------------------------------------------------------------------------
(* Rounds.                                                                 *)

(* ProposingState shuffles.                                                *)
Propose(involved, rotations, leaderAppeal) ==
    \E l \in ToSet(involved) :
        round' = [at |-> "vote", leader |-> l, rest |-> Ascending(ToSet(involved) \ {l}),
                  rotations |-> rotations, leaderAppeal |-> leaderAppeal]

(* A leader whose machine fails is replaced by the next validator.         *)
ReplaceLeader ==
    /\ round.at = "vote" /\ round.rest # <<>>
    /\ May("fail") /\ Spend
    /\ round' = [round EXCEPT !.leader = Head(round.rest), !.rest = Tail(@)]
    /\ UNCHANGED <<env, known, initial, tx, leaders, decided, jury, strayed>>

(* PendingState: those with a receipt run it again, the leader among them  *)
(* unless an appeal was upheld.                                            *)
Begin ==
    LET again == IF tx.leader = 0 THEN <<>> ELSE Recorded(~tx.appealed) IN
    /\ tx.status = "PENDING" /\ round.at = "none"
    /\ \E involved \in IF again = <<>> THEN Samples(initial, known) ELSE {again} :
         Propose(involved, 0, FALSE)
    /\ tx' = [tx EXCEPT !.appealed = FALSE]
    /\ UNCHANGED <<env, known, initial, leaders, decided, jury, strayed, spent>>

(* A decision, and the receipts it leaves.                                 *)
Settle(status, voters, failed) ==
    /\ round.at = "vote"
    /\ tx' = [tx EXCEPT !.status = status, !.leader = round.leader, !.voters = voters,
                        !.failed = failed]
    /\ leaders' = leaders \cup {round.leader}
    /\ round' = NoRound
    /\ decided' = {round.leader} \cup ToSet(round.rest)
    /\ jury' = {} /\ strayed' = FALSE
    /\ UNCHANGED <<env, known, initial, spent>>

(* The count of failed appeals is not touched by a decision, ...           *)
LeaderTimeout == Settle("LEADER_TIMEOUT", <<>>, tx.failed)
ValidatorsTimeout == Settle("VALIDATORS_TIMEOUT", round.rest, tx.failed)
(* ... except by those of a leader appeal: one is a failure, the other a   *)
(* success.                                                                *)
Accept == Settle("ACCEPTED", round.rest, IF round.leaderAppeal THEN 0 ELSE tx.failed)

(* add_new_validator needs someone who neither led nor is in the round.    *)
MayRotate ==
    /\ round.rotations < MaxRotations
    /\ Cardinality(leaders \cup {round.leader}) + Len(round.rest) < Cardinality(known)
Undetermined ==
    /\ May("disagree") /\ ~MayRotate
    /\ Settle("UNDETERMINED", round.rest, IF round.leaderAppeal THEN tx.failed + 1 ELSE tx.failed)

Rotate ==
    /\ round.at = "vote"
    /\ May("disagree") /\ MayRotate
    /\ leaders' = leaders \cup {round.leader}
    /\ \E new \in Samples(1, known \ (ToSet(round.rest) \cup leaders')) :
         Propose(new \o round.rest, round.rotations + 1, round.leaderAppeal)
    /\ UNCHANGED <<env, known, initial, tx, decided, jury, strayed, spent>>

-----------------------------------------------------------------------------
(* Appeals, and the rollback that follows the appeal of an older one.      *)

(* process_leader_appeal: all but the leader vote again, with n + 2 others *)
(* (has_appeal_capacity; here the history is read from the row).           *)
LeaderAppeal ==
    /\ round.at = "none" /\ Spend
    /\ tx.status = "UNDETERMINED"
    /\ Len(tx.voters) + Cardinality(leaders) < Cardinality(known)
    /\ \E new \in First((known \ ToSet(Recorded(FALSE))) \ leaders) :
         Propose(Recorded(FALSE) \o new, 0, TRUE)
    /\ UNCHANGED <<env, known, initial, tx, leaders, decided, jury, strayed>>

(* process_validator_appeal.                                               *)
ValidatorAppeal ==
    /\ round.at = "none" /\ Spend
    /\ tx.status \in {"ACCEPTED", "VALIDATORS_TIMEOUT"}
    /\ \E panel \in Panels \ {<<>>} : round' = [NoRound EXCEPT !.at = "judge", !.rest = panel]
    /\ UNCHANGED <<env, known, initial, tx, leaders, decided, jury, strayed>>

(* A juror whose machine fails is replaced by anyone outside the panel:    *)
(* the context of an appeal has no leader, and the pool of replacements    *)
(* does not know who voted before.                                         *)
ReplaceJuror ==
    /\ round.at = "judge"
    /\ May("fail") /\ Spend
    /\ \E i \in DOMAIN round.rest, v \in known \ ToSet(round.rest) :
         round' = [round EXCEPT !.rest[i] = v]
    /\ UNCHANGED <<env, known, initial, tx, leaders, decided, jury, strayed>>

AppealRejected ==
    /\ round.at = "judge"
    /\ tx' = [tx EXCEPT !.voters = Merged(round.rest), !.failed = @ + 1]
    /\ jury' = ToSet(round.rest)
    /\ strayed' = (strayed \/ ~ReceiptsAreRight \/ ~PanelIsFull)
    /\ round' = NoRound
    /\ UNCHANGED <<env, known, initial, leaders, decided, spent>>

AppealUpheld ==
    /\ round.at = "judge"
    /\ tx' = [tx EXCEPT !.voters = Merged(round.rest), !.failed = 0, !.status = "PENDING",
                        !.appealed = TRUE]
    /\ round' = NoRound
    /\ UNCHANGED <<env, known, initial, leaders, decided, jury, strayed, spent>>

Rollback ==
    /\ round.at = "none" /\ tx.status # "PENDING"
    /\ May("rollback") /\ Spend
    /\ tx' = [tx EXCEPT !.status = "PENDING"]
    /\ UNCHANGED <<env, known, initial, leaders, round, decided, jury, strayed>>

(* create_validator.                                                       *)
Join ==
    /\ round.at = "none"
    /\ May("join") /\ Cardinality(known) < MaxValidators
    /\ known' = known \cup {Cardinality(known) + 1}
    /\ UNCHANGED <<env, initial, tx, leaders, round, decided, jury, strayed, spent>>

Next ==
    \/ Begin \/ ReplaceLeader \/ LeaderTimeout \/ ValidatorsTimeout \/ Accept \/ Undetermined
    \/ Rotate \/ LeaderAppeal \/ ValidatorAppeal \/ ReplaceJuror \/ AppealRejected
    \/ AppealUpheld \/ Rollback \/ Join

Spec == Init /\ [][Next]_vars

-----------------------------------------------------------------------------
(* Properties.                                                             *)

(* The panel of an appeal is the one that is due (the table of             *)
(* get_extra_validators): nobody but its leader, whom the claim does not   *)
(* know, has voted on the decision that is appealed, and after an appeal   *)
(* that failed everyone who sat on it sits again.  It depends on numbers   *)
(* that are computed from the receipts and on a count of failed appeals,   *)
(* and does not hold where these are wrong: the count outlives a decision  *)
(* that is taken again after a rollback or a leader appeal, a replaced     *)
(* juror may have two receipts, with few validators n comes out as 0, and  *)
(* it comes out wrong once a third appeal finds less than 2n new ones.     *)
CountIsRight == tx.failed > 0 <=> jury # {}
Due(panel) ==
    CountIsRight /\ ReceiptsAreRight /\ ~strayed =>
        IF jury = {} THEN decided \cap panel \subseteq {tx.leader} ELSE jury \subseteq panel
PanelIsDue ==
    [][round.at = "none" /\ round'.at = "judge" => Due(ToSet(round'.rest))]_vars
=============================================================================
