----------------------------- MODULE MCServices -----------------------------
(***************************************************************************)
(* The components that share no state with each other, checked side by     *)
(* side: each behaviour is one of [part], and the others stand still.      *)
(***************************************************************************)
EXTENDS Integers, Sequences

CONSTANTS
    Tries, Attempts, Machines,                              \* GenvmHost
    Validators, Program, Replacements, Commits,             \* NodeExecution
    FailureThreshold, MinPermits, Sustain, Cooldown,        \* PodHealth
    Managers, Rpc, Changes, Sims,                           \* ValidatorsManager
    Slots, Threshold,                                       \* WorkerService
    Channels, Events,                                       \* Delivery
    Limits, CallLimit, MaxConcurrent, Delay, Horizon, Requests, \* Admission
    MaxValidators, Envs, Initials, MaxRotations, MaxAppeals \* AppealPanels

VARIABLES
    part,
    run, att, vms,                                          \* GenvmHost
    db, cache, node, threads, prop,                         \* NodeExecution
    world, pod,                                             \* PodHealth
    registry, writes, mgr, sim,                             \* ValidatorsManager
    service, manager, leaving,                              \* WorkerService
    sent, wire, link, queue, forwarder, client, got, due,   \* Delivery
    now, key, requests, stage, stamped, zset, calls, allowed,   \* Admission
    env, known, initial, tx, leaders, round, decided, jury, strayed, spent   \* AppealPanels

genvmVars == <<run, att, vms>>
nodeVars == <<db, cache, node, threads, prop>>
podVars == <<world, pod>>
managerVars == <<registry, writes, mgr, sim>>
workerVars == <<service, manager, leaving>>
deliveryVars == <<sent, wire, link, queue, forwarder, client, got, due>>
admissionVars == <<now, key, requests, stage, stamped, zset, calls, allowed>>
panelVars == <<env, known, initial, tx, leaders, round, decided, jury, strayed, spent>>
vars == <<part, genvmVars, nodeVars, podVars, managerVars, workerVars, deliveryVars, admissionVars, panelVars>>

MCProgram == <<1, 2, 1>>
MCLimits == <<[seconds |-> 2, limit |-> 2], [seconds |-> 3, limit |-> 4]>>
MCCallLimit == [seconds |-> 1, limit |-> 1]
MCEnvs == { [registered |-> 4, may |-> {"join"}], [registered |-> 6, may |-> {"fail"}],
            [registered |-> 8, may |-> {"rollback"}], [registered |-> 6, may |-> {"disagree"}] }

Genvm == INSTANCE GenvmHost
Nodes == INSTANCE NodeExecution
Pod == INSTANCE PodHealth
Manager == INSTANCE ValidatorsManager
Worker == INSTANCE WorkerService
Delivery == INSTANCE Delivery
Admission == INSTANCE Admission
Panels == INSTANCE AppealPanels

ASSUME ServicesAssumption ==
    /\ Validators \in Nat \ {0} /\ Program \in Seq(Nodes!Contract)                              \* NodeExecution
    /\ Rpc \in Managers                                                                        \* ValidatorsManager
    /\ \A e \in Envs : e.registered \in Nat                                                   \* AppealPanels
    /\ Delay \in Nat /\ Horizon \in Nat /\ Limits \in Seq([seconds : Nat, limit : Nat])        \* Admission

NoGenvm == run = "off" /\ att = "off" /\ vms = "off"
NoNodes == db = "off" /\ cache = "off" /\ node = "off" /\ threads = "off" /\ prop = "off"
NoPod == world = "off" /\ pod = "off"
NoManager == registry = "off" /\ writes = "off" /\ mgr = "off" /\ sim = "off"
NoWorker == service = "off" /\ manager = "off" /\ leaving = "off"
NoDelivery ==
    /\ sent = "off" /\ wire = "off" /\ link = "off" /\ queue = "off"
    /\ forwarder = "off" /\ client = "off" /\ got = "off" /\ due = "off"
NoAdmission ==
    /\ now = "off" /\ key = "off" /\ requests = "off" /\ stage = "off"
    /\ stamped = "off" /\ zset = "off" /\ calls = "off" /\ allowed = "off"
NoPanels ==
    /\ env = "off" /\ known = "off" /\ initial = "off" /\ tx = "off" /\ leaders = "off"
    /\ round = "off" /\ decided = "off" /\ jury = "off" /\ strayed = "off" /\ spent = "off"

Init ==
    /\ part \in {"genvm", "nodes", "pod", "manager", "worker", "delivery", "admission",
                "panels"}
    /\ IF part = "genvm" THEN Genvm!Init ELSE NoGenvm
    /\ IF part = "nodes" THEN Nodes!Init ELSE NoNodes
    /\ IF part = "pod" THEN Pod!Init ELSE NoPod
    /\ IF part = "manager" THEN Manager!Init ELSE NoManager
    /\ IF part = "worker" THEN Worker!Init ELSE NoWorker
    /\ IF part = "delivery" THEN Delivery!Init ELSE NoDelivery
    /\ IF part = "admission" THEN Admission!Init ELSE NoAdmission
    /\ IF part = "panels" THEN Panels!Init ELSE NoPanels

Next ==
    \/ /\ part = "genvm" /\ Genvm!Next
       /\ UNCHANGED <<part, nodeVars, podVars, managerVars, workerVars, deliveryVars, admissionVars, panelVars>>
    \/ /\ part = "nodes" /\ Nodes!Next
       /\ UNCHANGED <<part, genvmVars, podVars, managerVars, workerVars, deliveryVars, admissionVars, panelVars>>
    \/ /\ part = "pod" /\ Pod!Next
       /\ UNCHANGED <<part, genvmVars, nodeVars, managerVars, workerVars, deliveryVars, admissionVars, panelVars>>
    \/ /\ part = "manager" /\ Manager!Next
       /\ UNCHANGED <<part, genvmVars, nodeVars, podVars, workerVars, deliveryVars, admissionVars, panelVars>>
    \/ /\ part = "worker" /\ Worker!Next
       /\ UNCHANGED <<part, genvmVars, nodeVars, podVars, managerVars, deliveryVars, admissionVars, panelVars>>
    \/ /\ part = "delivery" /\ Delivery!Next
       /\ UNCHANGED <<part, genvmVars, nodeVars, podVars, managerVars, workerVars, admissionVars, panelVars>>
    \/ /\ part = "admission" /\ Admission!Next
       /\ UNCHANGED <<part, genvmVars, nodeVars, podVars, managerVars, workerVars, deliveryVars, panelVars>>
    \/ /\ part = "panels" /\ Panels!Next
       /\ UNCHANGED <<part, genvmVars, nodeVars, podVars, managerVars, workerVars, deliveryVars, admissionVars>>

(* The fairness of each part, as its module states it.                     *)
Fairness ==
    /\ \A v \in Genvm!VM :
        /\ WF_genvmVars(part = "genvm" /\ Genvm!LoseHost(v))
        /\ WF_genvmVars(part = "genvm" /\ (Genvm!Answer(v) \/ Genvm!Finish(v)))
    /\ WF_podVars(part = "pod" /\ Pod!Probe)
    /\ WF_podVars(part = "pod" /\ Pod!Sleep)
    /\ WF_podVars(part = "pod" /\ Pod!Restart)
    /\ WF_podVars(part = "pod" /\ Pod!AskReady)
    /\ WF_podVars(part = "pod" /\ (Pod!CheckRaises \/ Pod!QueueUnknown \/ \E ok \in BOOLEAN : Pod!Check(ok)))
    /\ SF_podVars(part = "pod" /\ Pod!Scans /\ Pod!Check(TRUE))
    /\ WF_workerVars(part = "worker" /\ (Worker!Turn \/ Worker!Drain))
    /\ WF_workerVars(part = "worker" /\ Worker!Drained)
    /\ WF_workerVars(part = "worker" /\ Worker!LoopEnds)
    /\ \A s \in Slots : WF_workerVars(part = "worker" /\ Worker!Overdue(s))
    /\ WF_workerVars(part = "worker" /\ Worker!Health(TRUE))
    /\ WF_workerVars(part = "worker" /\ Worker!Signal)
    /\ WF_workerVars(part = "worker" /\ Worker!Replace)
    /\ \A e \in 1..Events :
        WF_deliveryVars(part = "delivery" /\ \E fails \in BOOLEAN : Delivery!Publish(e, fails))
    /\ WF_deliveryVars(part = "delivery" /\ Delivery!Listen)
    /\ \A c \in Channels :
        /\ WF_deliveryVars(part = "delivery" /\ Delivery!Take(c))
        /\ WF_deliveryVars(part = "delivery" /\ Delivery!Forward(c))

Spec == Init /\ [][Next]_vars /\ Fairness

-----------------------------------------------------------------------------
(* The properties of the modules, each of the behaviours of its part.      *)

(* The result a caller of GenVM gets is one a machine it started returned  *)
(* (base_host.py run_genvm).                                               *)
ServedIsReturned == part = "genvm" => Genvm!ServedIsReturned

(* No machine outlives the call it was started for (base_host.py).         *)
MachinesStop ==
    (part = "genvm" /\ run.at = "ended") ~>
        (part = "genvm" /\ \A v \in Genvm!VM : vms[v].at \in {"none", "ended"})

(* Validators of an honest leader that read the same state never call a    *)
(* violation (node/base.py _SnapshotView, _set_vote).                      *)
NoFalseViolation == part = "nodes" => Nodes!NoFalseViolation

(* A pod whose manager serves comes back to the balancer (health.py).      *)
ReadyAgain == <>[](part = "pod" /\ Pod!Serviceable) => <>[](part = "pod" /\ pod.routed)

(* A queue that does not move is reported again and again (health.py).     *)
StallReported ==
    <>[](part = "pod" /\ Pod!Serviceable /\ world.load = "stalled") =>
        []<>(part = "pod" /\ "no_consensus_progress" \in pod.issues)

(* After the events are through every process uses the validators of the   *)
(* registry (validators/__init__.py Manager).                              *)
NewValidatorsUsed == part = "manager" => Manager!NewValidatorsUsed

(* There is always again a worker that claims (worker_service.py).         *)
WorkGoesOn == part = "worker" ~> (part = "worker" /\ Worker!Claims)

(* What is sent about a transaction reaches the clients that are told they *)
(* are subscribed to it (redis_subscriber.py, broadcast.py, websocket.py). *)
EventsArrive ==
    \A e \in 1..Events :
        (part = "delivery" /\ e \in due) ~> (part = "delivery" /\ (e \in got \/ e \notin due))

(* No window of a rate limit lets more through than its limit              *)
(* (rate_limiter.py).                                                      *)
RateKept == part = "admission" => Admission!RateKept

(* Whoever is due sits on the panel of an appeal (base.py                  *)
(* get_extra_validators, decisions.py merge_appeal_validators).            *)
PanelIsDue ==
    [][part = "panels" /\ round.at = "none" /\ round'.at = "judge" =>
        Panels!Due({round'.rest[i] : i \in DOMAIN round'.rest})]_vars
=============================================================================
