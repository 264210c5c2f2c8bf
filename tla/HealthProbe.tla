------------------------------ MODULE HealthProbe ------------------------------
(***************************************************************************)
(* GET /api/health: threads of one server that share a probe of the        *)
(* storage and its cached verdict (SupabaseHealthProbe in                  *)
(* src/src/signal_growth/supabase_sink.py, dependency_ready in             *)
(* kakao_runtime.py).  Nothing is locked: two threads may each build a     *)
(* probe, probe the storage at once, and write the verdict of one and the  *)
(* expiry of the other.                                                    *)
(***************************************************************************)
EXTENDS Integers

CONSTANTS
    Poller,         \* threads that serve a health request
    TTL,            \* ttl_seconds
    Longest,        \* ticks SupabaseHealthProbe.__call__ takes at most, probe included
    MaxTime,        \* a bound on the clock
    Nothing

Verdict == {"reachable", "unreachable"}

ASSUME ProbeAssumption ==
    /\ TTL \in Nat /\ Longest \in Nat \ {0} /\ MaxTime \in Nat
    /\ Nothing \notin Poller \union Verdict

VARIABLES
    environment,    \* a member of Environment
    clock,          \* time.monotonic()
    storage,        \* "up" or "down": whether Supabase answers
    lastUp,         \* the last time it did
    current,        \* _HEALTH_PROBE, named by the thread that built it, or Nothing
    cache,          \* [Poller -> [cached, expires]]: what each probe remembers
    at,             \* [Poller -> where the thread is]
    call            \* [Poller -> [began, uses, now, verdict]]: its local variables

probeVars == <<environment, clock, storage, lastUp, current, cache, at, call>>

-----------------------------------------------------------------------------
Empty == [cached |-> Nothing, expires |-> 0]
Idle == [uses |-> Nothing, now |-> 0, verdict |-> Nothing]

(* "invalid": all of it is there, but the URL or the table is unusable.    *)
Environment == {"missing", "invalid", "short keys", "complete"}

configuration_ready == environment # "missing"

(* build_kakao_skill_application asks for two keys of 32 characters as     *)
(* well, and its sink for the same connection.                             *)
skill_application_ready == environment = "complete"

Step(p, from, to) == at[p] = from /\ at' = [at EXCEPT ![p] = to]
Local(p, field, value) == call' = [call EXCEPT ![p][field] = value]
Elsewhere == UNCHANGED <<environment, clock, storage, lastUp>>

(* A request arrives; without configuration nothing is probed.             *)
Ask(p) ==
    /\ Step(p, "idle", IF ~configuration_ready THEN "answering"
                       ELSE IF current = Nothing THEN "building" ELSE "calling")
    /\ UNCHANGED <<current, cache, call>> /\ Elsewhere

(* build_supabase_health_probe, by every thread that saw none.             *)
Build(p) ==
    /\ environment # "invalid"
    /\ Step(p, "building", "calling")
    /\ current' = p
    /\ UNCHANGED <<cache, call>> /\ Elsewhere

(* SupabaseHealthProbe refuses the connection, and the request is answered *)
(* with configuration "invalid".                                           *)
BuildRaises(p) ==
    /\ environment = "invalid"
    /\ Step(p, "building", "answering")
    /\ UNCHANGED <<current, cache, call>> /\ Elsewhere

(* _HEALTH_PROBE(): which probe that is, and what time.                    *)
Enter(p) ==
    /\ Step(p, "calling", "looking")
    /\ call' = [call EXCEPT ![p].uses = current, ![p].now = clock]
    /\ UNCHANGED <<current, cache>> /\ Elsewhere

Cached(p) == cache[call[p].uses]
Fresh(p) == Cached(p).cached # Nothing /\ call[p].now < Cached(p).expires

Look(p) ==
    /\ Step(p, "looking", IF Fresh(p) THEN "hit" ELSE "probing")
    /\ UNCHANGED <<current, cache, call>> /\ Elsewhere

(* return self._cached: by now another thread may have replaced it.        *)
Serve(p) ==
    /\ Step(p, "hit", "answering")
    /\ Local(p, "verdict", Cached(p).cached)
    /\ UNCHANGED <<current, cache>> /\ Elsewhere

(* A read of no rows, which may time out though the storage is up.         *)
Probe(p) ==
    /\ Step(p, "probing", "writing")
    /\ \E verdict \in Verdict :
          /\ verdict = "reachable" => storage = "up"
          /\ Local(p, "verdict", verdict)
    /\ UNCHANGED <<current, cache>> /\ Elsewhere

WriteVerdict(p) ==
    /\ Step(p, "writing", "expiring")
    /\ cache' = [cache EXCEPT ![call[p].uses].cached = call[p].verdict]
    /\ UNCHANGED <<current, call>> /\ Elsewhere

(* Mutant: the TTL runs from the end of the probe.                         *)
ExpireFromNow(p) ==
    /\ Step(p, "expiring", "answering")
    /\ cache' = [cache EXCEPT ![call[p].uses].expires = clock + TTL]
    /\ UNCHANGED <<current, call>> /\ Elsewhere

WriteExpiry(p) ==
    /\ Step(p, "expiring", "answering")
    /\ cache' = [cache EXCEPT ![call[p].uses].expires = call[p].now + TTL]
    /\ UNCHANGED <<current, call>> /\ Elsewhere

(* 200 "configured", or 503 "degraded" or "configuration_required".        *)
Reply(p) ==
    /\ Step(p, "answering", "idle")
    /\ call' = [call EXCEPT ![p] = Idle]
    /\ UNCHANGED <<current, cache>> /\ Elsewhere

(* Time passes, but not past the end of a call that is under way.          *)
Tick ==
    /\ clock < MaxTime
    /\ \A p \in Poller : call[p].uses # Nothing => clock < call[p].now + Longest
    /\ clock' = clock + 1
    /\ lastUp' = IF storage = "up" THEN clock + 1 ELSE lastUp
    /\ UNCHANGED <<environment, storage, current, cache, at, call>>

StorageChanges ==
    /\ storage' = IF storage = "up" THEN "down" ELSE "up"
    /\ lastUp' = clock
    /\ UNCHANGED <<environment, clock, current, cache, at, call>>

ProbeInit ==
    /\ environment \in Environment
    /\ clock = 0
    /\ storage = "up" /\ lastUp = 0
    /\ current = Nothing
    /\ cache = [p \in Poller |-> Empty]
    /\ at = [p \in Poller |-> "idle"]
    /\ call = [p \in Poller |-> Idle]

ServeHealth(p) ==
    \/ Ask(p) \/ Build(p) \/ BuildRaises(p) \/ Enter(p) \/ Look(p)
    \/ Serve(p) \/ Probe(p) \/ WriteVerdict(p) \/ WriteExpiry(p) \/ Reply(p)

ProbeNext == (\E p \in Poller : ServeHealth(p)) \/ Tick \/ StorageChanges

-----------------------------------------------------------------------------
ProbeTypeOK ==
    /\ current \in Poller \union {Nothing}
    /\ \A p \in Poller :
          /\ cache[p].cached \in Verdict \union {Nothing}
          /\ call[p].verdict \in Verdict \union {Nothing}

(***************************************************************************)
(* A green answer is about a storage of now, not of long ago: where        *)
(* /api/health says "configured", the storage answered less than one TTL   *)
(* and the duration of two calls before, even when threads mix the verdict *)
(* of one with the expiry of another (SupabaseHealthProbe.__call__).       *)
(***************************************************************************)
GreenIsRecent ==
    \A p \in Poller :
        at[p] = "answering" /\ call[p].verdict = "reachable" =>
            clock < lastUp + TTL + 2 * Longest

=============================================================================
