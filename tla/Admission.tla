------------------------------ MODULE Admission ------------------------------
(***************************************************************************)
(* Which JSON-RPC requests are served (backend/protocol_rpc): the sliding  *)
(* windows of an API key, kept in Redis for all processes                  *)
(* (rate_limiter.py), the key's tier in a cache, and for the calls that    *)
(* run GenVM the slots of the process and the calls a contract received    *)
(* lately (endpoints.py). One key, one contract, one process; requests     *)
(* that are alike are counted, not named.                                  *)
(***************************************************************************)
EXTENDS Integers, Sequences, Functions

CONSTANTS
    Limits,         \* the windows of the tier in their order, [seconds, limit] each
    CallLimit,      \* GEN_CALL_RATE_LIMIT_WINDOW and _MAX, [seconds, limit]
    MaxConcurrent,  \* GENVM_MAX_CONCURRENT
    Delay,          \* a request reaches Redis at most so long after it looked at its clock
    Horizon,        \* bound: the time
    Requests        \* bound: the requests

VARIABLES
    now,        \* the time
    key,        \* the key: active in the database, what Redis caches of it, whether it is being deactivated
    requests,   \* how many requests have arrived
    stage,      \* how many requests are at each stage
    stamped,    \* requests on their way to Redis, by the time they carry
    zset,       \* the sorted sets in Redis, as counts by time
    calls,      \* _address_request_log of the contract, as counts by time
    allowed     \* (ghost) the requests the limiter counted and let through, by the time they carry

vars == <<now, key, requests, stage, stamped, zset, calls, allowed>>

Times == 0..Horizon
None == [t \in Times |-> 0]
Total(counts, times) == FoldFunctionOnSet(+, 0, counts, times)
More(counts, t) == [counts EXCEPT ![t] = @ + 1]
Fewer(counts, t) == [counts EXCEPT ![t] = @ - 1]
Since(counts, t) == [u \in Times |-> IF u <= t THEN 0 ELSE counts[u]]

Stages == {"missed", "found", "lost", "admitted", "running"}

Init ==
    /\ now = 0 /\ requests = 0
    /\ key = [active |-> TRUE, cache |-> "none", ending |-> FALSE]
    /\ stage = [s \in Stages |-> 0]
    /\ stamped = None /\ zset = [w \in DOMAIN Limits |-> None]
    /\ calls = None /\ allowed = None

Tick ==
    /\ now < Horizon
    /\ \A t \in Times : stamped[t] > 0 => now < t + Delay
    /\ now' = now + 1
    /\ UNCHANGED <<key, requests, stage, stamped, zset, calls, allowed>>

-----------------------------------------------------------------------------
(* _resolve_api_key.                                                       *)

(* The cache is asked first; an inactive key is refused, an active one     *)
(* goes on to the windows.                                                 *)
Ask ==
    /\ requests < Requests /\ requests' = requests + 1
    /\ CASE key.cache = "active" -> stamped' = More(stamped, now) /\ UNCHANGED stage
         [] key.cache = "inactive" -> UNCHANGED <<stage, stamped>>
         [] OTHER -> stage' = More(stage, "missed") /\ UNCHANGED stamped
    /\ UNCHANGED <<now, key, zset, calls, allowed>>

ReadKey ==
    /\ stage["missed"] > 0
    /\ stage' = More(Fewer(stage, "missed"), IF key.active THEN "found" ELSE "lost")
    /\ UNCHANGED <<now, key, requests, stamped, zset, calls, allowed>>

FillFound ==
    /\ stage["found"] > 0 /\ stage' = Fewer(stage, "found")
    /\ key' = [key EXCEPT !.cache = "active"]
    /\ stamped' = More(stamped, now)
    /\ UNCHANGED <<now, requests, zset, calls, allowed>>

FillLost ==
    /\ stage["lost"] > 0 /\ stage' = Fewer(stage, "lost")
    /\ key' = [key EXCEPT !.cache = "inactive"]
    /\ UNCHANGED <<now, requests, stamped, zset, calls, allowed>>

(* The time to live of the cached tier ends.                               *)
CacheExpires ==
    /\ key.cache # "none" /\ key' = [key EXCEPT !.cache = "none"]
    /\ UNCHANGED <<now, requests, stage, stamped, zset, calls, allowed>>

(* admin_deactivate_api_key deletes what is cached before the transaction  *)
(* that deactivates the key commits.                                       *)
Invalidate ==
    /\ key.active /\ ~key.ending
    /\ key' = [key EXCEPT !.cache = "none", !.ending = TRUE]
    /\ UNCHANGED <<now, requests, stage, stamped, zset, calls, allowed>>

Deactivate ==
    /\ key.ending
    /\ key' = [key EXCEPT !.active = FALSE, !.ending = FALSE]
    /\ UNCHANGED <<now, requests, stage, stamped, zset, calls, allowed>>

-----------------------------------------------------------------------------
(* The script in Redis: the windows are pruned and counted in their order  *)
(* up to the first that is full; a request no window refuses is recorded   *)
(* in all of them.                                                         *)

FullLate(w, t) ==           \* a defect: one too many
    Total(Since(zset[w], t - Limits[w].seconds), Times) > Limits[w].limit
Full(w, t) == Total(Since(zset[w], t - Limits[w].seconds), Times) >= Limits[w].limit

Refuses(t) == {w \in DOMAIN Limits : Full(w, t)}

CheckAndRecord(t) ==
    /\ stamped[t] > 0 /\ stamped' = Fewer(stamped, t)
    /\ zset' = [w \in DOMAIN Limits |->
                  IF \E v \in Refuses(t) : v < w THEN zset[w]
                  ELSE LET pruned == Since(zset[w], t - Limits[w].seconds)
                       IN  IF Refuses(t) = {} THEN More(pruned, t) ELSE pruned]
    /\ IF Refuses(t) = {} THEN stage' = More(stage, "admitted") /\ allowed' = More(allowed, t)
       ELSE UNCHANGED <<stage, allowed>>
    /\ UNCHANGED <<now, key, requests, calls>>

(* A limiter that raises anything but its own refusal lets the request     *)
(* through uncounted (RateLimitMiddleware.dispatch).                       *)
Unavailable(t) ==
    /\ stamped[t] > 0 /\ stamped' = Fewer(stamped, t)
    /\ stage' = More(stage, "admitted")
    /\ UNCHANGED <<now, key, requests, zset, calls, allowed>>

-----------------------------------------------------------------------------
(* _admit_genvm_call and, within it, _check_rate_limit.                    *)

(* No request waits for a slot.                                            *)
Busy ==
    /\ stage["admitted"] > 0 /\ stage["running"] = MaxConcurrent
    /\ stage' = Fewer(stage, "admitted")
    /\ UNCHANGED <<now, key, requests, stamped, zset, calls, allowed>>

Enter ==
    /\ stage["admitted"] > 0 /\ stage["running"] < MaxConcurrent
    /\ LET recent == Since(calls, now - CallLimit.seconds) IN
        IF Total(recent, Times) >= CallLimit.limit
        THEN stage' = Fewer(stage, "admitted") /\ UNCHANGED calls
        ELSE /\ stage' = More(Fewer(stage, "admitted"), "running")
             /\ calls' = More(recent, now)
    /\ UNCHANGED <<now, key, requests, stamped, zset, allowed>>

(* The execution ends, fails or is cancelled: the slot is free.            *)
Leave ==
    /\ stage["running"] > 0 /\ stage' = Fewer(stage, "running")
    /\ UNCHANGED <<now, key, requests, stamped, zset, calls, allowed>>

Next ==
    \/ Tick
    \/ Ask \/ ReadKey \/ FillFound \/ FillLost \/ CacheExpires \/ Deactivate \/ Invalidate
    \/ \E t \in Times : CheckAndRecord(t) \/ Unavailable(t)
    \/ Busy \/ Enter \/ Leave

Spec == Init /\ [][Next]_vars

-----------------------------------------------------------------------------
(* However the processes race, and although a request may be counted later *)
(* than the time it carries, no window lets more requests through than its *)
(* limit, in any stretch of time shorter than the window by that delay;    *)
(* those of a limiter that was unavailable left aside.                     *)
RateKept ==
    \A w \in DOMAIN Limits : \A t \in Times :
        Total(allowed, {u \in Times : u <= t /\ u > t - (Limits[w].seconds - Delay)}) <= Limits[w].limit
=============================================================================
