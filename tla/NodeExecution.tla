--------------------------- MODULE NodeExecution ---------------------------
(***************************************************************************)
(* What the nodes of one transaction context read: ProposingState runs the *)
(* leader, replaced when it fails fatally, and CommittingState then the    *)
(* validators, at once (backend/consensus/base.py).  Each node executes on *)
(* a copy of the snapshot of its contract and reads the other contracts    *)
(* through a _SnapshotView (backend/node/base.py), in a thread for each    *)
(* read, while other workers commit new states of these contracts.         *)
(*                                                                         *)
(* A state of a contract is the number of commits to it.                   *)
(***************************************************************************)
EXTENDS Naturals, Sequences

CONSTANTS
    Validators,     \* the validators of the context; the first leader is 1
    Program,        \* the other contracts that the call reads, in order
    Replacements,   \* MAX_IDLE_REPLACEMENTS
    Commits         \* bound: commits of other workers

VARIABLES
    db,         \* the accepted state of the other contracts
    cache,      \* shared_contract_snapshot_cache of the context, 0 for none
    node,       \* the execution of each node
    threads,    \* reads whose node no longer waits for them
    prop        \* the handlers of the context

vars == <<db, cache, node, threads, prop>>

Node == 1..Validators
Contract == {Program[i] : i \in DOMAIN Program}

NewNode == [at |-> "idle", own |-> [c \in Contract |-> 0], got |-> <<>>, fetched |-> 0,
            retried |-> FALSE, vote |-> "none"]

(* [cut] says whether an attempt of run_genvm may fail while the host is   *)
(* in a read for it, and be retried.                                       *)
Init ==
    /\ db = [c \in Contract |-> 1]
    /\ cache = [c \in Contract |-> 0]
    /\ node = [n \in Node |-> NewNode]
    /\ threads = {}
    /\ \E cut \in BOOLEAN, mode \in {"normal", "leader_only"} :
         prop = [at |-> "proposing", leader |-> 1, attempt |-> 0, cut |-> cut, mode |-> mode,
                 pool |-> IF mode = "normal" THEN [i \in 1..Validators - 1 |-> i + 1] ELSE <<>>,
                 receipt |-> [kind |-> "none", state |-> <<>>]]

-----------------------------------------------------------------------------
(* _SnapshotView.                                                          *)

Wanted(n) == Program[Len(node[n].got) + 1]
Reading(n) == node[n].at = "reading" /\ Len(node[n].got) < Len(Program) /\ node[n].fetched = 0

(* _get_snapshot: the caches of the view and of the context come first.    *)
CachedHere(n, c) == node[n].own[c]  \* a defect: each view has a cache of its own
Cached(n, c) == IF node[n].own[c] # 0 THEN node[n].own[c] ELSE cache[c]

ReadCached(n) ==
    /\ Reading(n) /\ Cached(n, Wanted(n)) # 0
    /\ node' = [node EXCEPT ![n].own[Wanted(n)] = Cached(n, Wanted(n)),
                            ![n].got = Append(@, Cached(n, Wanted(n)))]
    /\ UNCHANGED <<db, cache, threads, prop>>

(* snapshot_factory reads the contract, and what it read is stored later.  *)
Fetch(n) ==
    /\ Reading(n) /\ Cached(n, Wanted(n)) = 0
    /\ node' = [node EXCEPT ![n].fetched = db[Wanted(n)]]
    /\ UNCHANGED <<db, cache, threads, prop>>

Store(n) ==
    /\ node[n].at = "reading" /\ node[n].fetched # 0
    /\ node' = [node EXCEPT ![n].own[Wanted(n)] = node[n].fetched,
                            ![n].got = Append(@, node[n].fetched), ![n].fetched = 0]
    /\ cache' = [cache EXCEPT ![Wanted(n)] = node[n].fetched]
    /\ UNCHANGED <<db, threads, prop>>

(* A thread is not interrupted: it stores what it read.                    *)
StoreLate(t) ==
    /\ cache' = [cache EXCEPT ![t.of] = t.state]
    /\ threads' = threads \ {t}
    /\ UNCHANGED <<db, node, prop>>

Left(n) == IF node[n].fetched = 0 THEN threads
           ELSE threads \cup {[of |-> Wanted(n), state |-> node[n].fetched]}

(* run_genvm_host retries with a copy of the view, its cache included.     *)
Retry(n) ==
    /\ prop.cut /\ node[n].at = "reading" /\ ~node[n].retried
    /\ node' = [node EXCEPT ![n].got = <<>>, ![n].fetched = 0, ![n].retried = TRUE]
    /\ threads' = Left(n)
    /\ UNCHANGED <<db, cache, prop>>

(* AcceptedState of another worker.                                        *)
Commit(c) ==
    /\ db[c] < Commits
    /\ db' = [db EXCEPT ![c] = @ + 1]
    /\ UNCHANGED <<cache, node, threads, prop>>

-----------------------------------------------------------------------------
(* ProposingState.  A receipt is of kind "return" with the state that the  *)
(* node computed, "timeout", or "none" while there is none.                *)

Timeout == [kind |-> "timeout", state |-> <<>>]
ReceiptOf(n) == [kind |-> "return", state |-> node[n].got]
Executed(n) == node[n].at = "reading" /\ Len(node[n].got) = Len(Program)

(* node_factory: a view of its own on the caches of the context.           *)
StartLeader ==
    /\ prop.at = "proposing" /\ node[prop.leader].at = "idle"
    /\ node' = [node EXCEPT ![prop.leader].at = "reading"]
    /\ UNCHANGED <<db, cache, threads, prop>>

(* decide_post_proposal.                                                   *)
AfterProposal(receipt) ==
    IF receipt.kind = "timeout" THEN "leader_timeout"
    ELSE IF prop.mode = "leader_only" THEN "accepted"
    ELSE "committing"

LeaderDone ==
    /\ prop.at = "proposing" /\ Executed(prop.leader)
    /\ prop' = [prop EXCEPT !.at = AfterProposal(ReceiptOf(prop.leader)),
                            !.receipt = ReceiptOf(prop.leader)]
    /\ node' = [node EXCEPT ![prop.leader] = NewNode]
    /\ UNCHANGED <<db, cache, threads>>

(* The slot budget is over, before an attempt or in it; one deadline holds *)
(* for the leader and its replacements.                                    *)
LeaderTimesOut ==
    /\ prop.at = "proposing"
    /\ prop' = [prop EXCEPT !.at = AfterProposal(Timeout), !.receipt = Timeout]
    /\ node' = [node EXCEPT ![prop.leader].at = "done"]
    /\ threads' = Left(prop.leader)
    /\ UNCHANGED <<db, cache>>

(* GenVMInternalError: the machine is gone, and no read is waited for.     *)
LeaderFails(fatal) ==
    /\ prop.at = "proposing"
    /\ node[prop.leader].at = "reading" /\ node[prop.leader].fetched = 0
    /\ node' = [node EXCEPT ![prop.leader].at = "done"]
    /\ prop' = IF ~fatal \/ prop.pool = <<>> \/ prop.attempt = Replacements
               THEN [prop EXCEPT !.at = "raised"]
               ELSE [prop EXCEPT !.leader = Head(prop.pool), !.pool = Tail(prop.pool),
                                 !.attempt = @ + 1]
    /\ UNCHANGED <<db, cache, threads>>

-----------------------------------------------------------------------------
(* CommittingState: the leader, once more, and every validator of the pool.*)

ToRun == {prop.leader} \cup {prop.pool[i] : i \in DOMAIN prop.pool}

StartValidator(n) ==
    /\ prop.at = "committing" /\ n \in ToRun /\ node[n].at = "idle"
    /\ node' = [node EXCEPT ![n].at = "reading"]
    /\ UNCHANGED <<db, cache, threads, prop>>

(* _set_vote; a validator that finds another answer of a language model    *)
(* than its leader disagrees.                                              *)
SetVote(receipt, leader, nondet_disagree) ==
    IF receipt.kind = "timeout" THEN "timeout"
    ELSE IF nondet_disagree THEN "disagree"
    ELSE IF leader.kind # receipt.kind \/ leader.state # receipt.state THEN "violation"
    ELSE "agree"

Votes(n, receipt) ==
    \E disagree \in BOOLEAN :
        node' = [node EXCEPT ![n].at = "done",
                             ![n].vote = SetVote(receipt, prop.receipt, disagree)]

ValidatorDone(n) ==
    /\ prop.at = "committing" /\ Executed(n)
    /\ Votes(n, ReceiptOf(n))
    /\ UNCHANGED <<db, cache, threads, prop>>

(* The slot budget of the validator, or an internal error.                 *)
ValidatorCut(n) ==
    /\ prop.at = "committing" /\ node[n].at = "reading"
    /\ Votes(n, Timeout)
    /\ threads' = Left(n)
    /\ UNCHANGED <<db, cache, prop>>

Next ==
    \/ \E n \in Node : \/ ReadCached(n) \/ Fetch(n) \/ Store(n) \/ Retry(n)
                       \/ StartValidator(n) \/ ValidatorDone(n) \/ ValidatorCut(n)
    \/ \E t \in threads : StoreLate(t)
    \/ \E c \in Contract : Commit(c)
    \/ StartLeader \/ LeaderDone \/ LeaderTimesOut
    \/ \E fatal \in BOOLEAN : LeaderFails(fatal)
Spec == Init /\ [][Next]_vars

-----------------------------------------------------------------------------
(* No validator accuses its leader of a deterministic violation because    *)
(* the two read different states of another contract, whatever was         *)
(* committed between their reads, whichever leader was replaced and        *)
(* whichever node ran out of its slot in a read.  Executions that are cut  *)
(* in a read and retried are excepted: the read of the first attempt may   *)
(* replace, in the cache, what the second one used.                        *)
NoFalseViolation == prop.cut \/ \A n \in Node : node[n].vote # "violation"
=============================================================================
