------------------------------ MODULE RateLimit ------------------------------
(***************************************************************************)
(* The quota of one tenant on one endpoint, that is one Redis key: the     *)
(* dependency in front of the handlers, the client half of the sliding     *)
(* window limiter, which reads its own clock, and the Lua half, which Redis *)
(* runs atomically and some time later.  Requests come from any number of  *)
(* API processes, whose clocks differ.  Other tenants and endpoints use    *)
(* other keys and never meet this one.                                     *)
(*                                                                         *)
(* Time is counted in ticks of Redis's clock; a stamp is what a process    *)
(* took for the time when it built the request's member.                   *)
(***************************************************************************)
EXTENDS Integers, FiniteSets

CONSTANTS
    Request,   \* requests, each made once
    Limit,     \* rule.limit
    Window,    \* rule.window_seconds, in ticks
    FailOpen,  \* rule.fail_open: TRUE for /ask, FALSE for /documents and /evals/run
    Ahead,     \* a stamp is at most Ahead ticks in the future of the script's run
    Late,      \* and at most Late ticks in its past (clock behind, plus delay)
    MaxTime    \* BOUND on time

ASSUME ConstantsAssumption ==
    /\ IsFiniteSet(Request)
    /\ Limit \in Nat /\ Window \in Nat \ {0}
    /\ FailOpen \in BOOLEAN
    /\ Ahead \in Nat /\ Late \in Nat /\ MaxTime \in Nat

VARIABLES
    now,      \* Redis's clock
    state,    \* what became of each request
    stamp,    \* now_ms of each request, also its score in the sorted set
    zset,     \* the members of the sorted set
    expires,  \* when the key expires (PEXPIRE)
    reset,    \* reset_time of each denied request; the X-RateLimit-Reset header
              \* rounds it down to a second, so it tells no later a time
    ran       \* HISTORY: when the script last added each request, -1 if never

vars == <<now, state, stamp, zset, expires, reset, ran>>

State == {"new", "stamped", "admitted", "denied", "degraded", "unavailable", "error"}

Init ==
    /\ now = Late
    /\ state = [r \in Request |-> "new"]
    /\ stamp = [r \in Request |-> 0]
    /\ zset = {}
    /\ expires = 0
    /\ reset = [r \in Request |-> 0]
    /\ ran = [r \in Request |-> -1]

-----------------------------------------------------------------------------
(* sliding_window.lua                                                      *)

\* A key past its expiry is gone.
Live == IF now < expires THEN zset ELSE {}

\* PLAUSIBLE BUG: a member exactly one window old stays.
KeptOnEdge(clock) == {e \in Live : stamp[e] >= clock - Window}

\* Members ZREMRANGEBYSCORE leaves: those younger than the window.
KeptAt(clock) == {e \in Live : stamp[e] > clock - Window}

\* PLAUSIBLE BUG: old members are never removed.
KeptForever(r) == Live

Kept(r) == KeptAt(stamp[r])

\* PLAUSIBLE BUG: > for >= in the comparison with the limit.
OneTooMany(r) == Cardinality(Kept(r)) <= Limit

HasRoom(r) == Cardinality(Kept(r)) < Limit

\* PLAUSIBLE BUG: PEXPIRE only when the key has no expiry.
AddExpiringOnce(r) ==
    /\ zset' = Kept(r) \cup {r}
    /\ expires' = IF now < expires THEN expires ELSE now + Window
    /\ ran' = [ran EXCEPT ![r] = now]

\* ZADD and PEXPIRE.
Add(r) ==
    /\ zset' = Kept(r) \cup {r}
    /\ expires' = now + Window
    /\ ran' = [ran EXCEPT ![r] = now]

\* A full window only loses its old members.
Purge(r) ==
    /\ zset' = Kept(r)
    /\ UNCHANGED <<expires, ran>>

\* PLAUSIBLE BUG: the time until the oldest member was added.
NegativeReset(r) ==
    LET members == IF Kept(r) = {} THEN {r} ELSE Kept(r)
    IN  (CHOOSE s \in {stamp[e] : e \in members} : \A e \in members : s <= stamp[e]) - now

\* PLAUSIBLE BUG: ZREVRANGE for ZRANGE.
NewestReset(r) ==
    Window + CHOOSE s \in {stamp[e] : e \in Kept(r) \cup {r}} :
                \A e \in Kept(r) \cup {r} : stamp[e] <= s

\* When the oldest member leaves; without members (Limit = 0), a window from now.
ResetTime(r) ==
    LET members == IF Kept(r) = {} THEN {r} ELSE Kept(r)
    IN  Window + CHOOSE s \in {stamp[e] : e \in members} : \A e \in members : s <= stamp[e]

-----------------------------------------------------------------------------
(* rate_limit_dependency                                                   *)

Becomes(r, s) == state' = [state EXCEPT ![r] = s]

\* check: the process reads its clock.
ReadClock(r) ==
    /\ state[r] = "new"
    /\ \E s \in now - Late .. now + Ahead : stamp' = [stamp EXCEPT ![r] = s]
    /\ Becomes(r, "stamped")
    /\ UNCHANGED <<now, zset, expires, reset, ran>>

\* The call may reach Redis now (once more, if an earlier reply was lost).
Arrives(r) == state[r] = "stamped" /\ now <= stamp[r] + Late

\* The script finds room and the request goes on to its handler.
Admit(r) ==
    /\ Arrives(r) /\ HasRoom(r)
    /\ Add(r)
    /\ Becomes(r, "admitted")
    /\ UNCHANGED <<now, stamp, reset>>

\* The window is full: 429, with the time to come back.
Deny(r) ==
    /\ Arrives(r) /\ ~HasRoom(r)
    /\ Purge(r)
    /\ reset' = [reset EXCEPT ![r] = ResetTime(r)]
    /\ Becomes(r, "denied")
    /\ UNCHANGED <<now, stamp>>

\* The script ran but its reply is lost; the client sends it again or gives up.
LoseReply(r) ==
    /\ Arrives(r)
    /\ \/ HasRoom(r) /\ Add(r)
       \/ ~HasRoom(r) /\ Purge(r)
    /\ UNCHANGED <<now, state, stamp, reset>>

\* RedisError: served all the same on an endpoint that fails open, 503 on others.
RaiseRedisError(r) ==
    /\ state[r] = "stamped"
    /\ Becomes(r, IF FailOpen THEN "degraded" ELSE "unavailable")
    /\ UNCHANGED <<now, stamp, zset, expires, reset, ran>>

Tick ==
    /\ now < MaxTime
    /\ now' = now + 1
    /\ UNCHANGED <<state, stamp, zset, expires, reset, ran>>

Next ==
    \/ \E r \in Request : ReadClock(r) \/ Admit(r) \/ Deny(r) \/ LoseReply(r) \/ RaiseRedisError(r)
    \/ Tick

Spec == Init /\ [][Next]_vars

-----------------------------------------------------------------------------
(* Properties                                                              *)

\* Every variable keeps its shape.
TypeOK ==
    /\ now \in Nat
    /\ state \in [Request -> State]
    /\ stamp \in [Request -> Nat]
    /\ zset \subseteq Request
    /\ expires \in Nat
    /\ reset \in [Request -> Nat]
    /\ ran \in [Request -> Nat \cup {-1}]

\* Admitted no longer ago than the window, less the clocks' uncertainty, or served
\* without being counted by an endpoint that should have failed closed.
Charged(r) ==
    \/ state[r] = "admitted" /\ now - ran[r] < Window - Ahead - Late
    \/ state[r] = "degraded" /\ ~FailOpen

\* However the clocks of the processes differ, and whatever replies and outages
\* come, no more than Limit requests are served in any span of real time shorter
\* than the window by the clocks' uncertainty (exactly the window, when clocks
\* agree and calls take no time).
QuotaHolds == Cardinality({r \in Request : Charged(r)}) <= Limit

\* The sorted set never outgrows the limit, however many requests are refused.
StorageBounded == Cardinality(zset) <= Limit

\* Nobody gets in before the earliest time a denied request was told to wait for,
\* the clocks' lead aside: while the promise stands the window stays full.
NoEarlyAdmission ==
    [][\A q, r \in Request :
          state[q] = "denied" /\ state[r] = "stamped" /\ state'[r] = "admitted" =>
              now >= reset[q] - Ahead]_vars

\* A refusal is justified: Limit requests took their place in the window, longer
\* by the clocks' uncertainty, that ends now.
DenialIsJustified ==
    [][\A q \in Request :
          state[q] = "stamped" /\ state'[q] = "denied" =>
              Cardinality({r \in Request : ran[r] >= 0 /\ now - ran[r] < Window + Ahead + Late})
                  >= Limit]_vars

\* Whichever class keeps the count, the limiter, its clients and their clocks keep what
\* a RateLimiter promises: the quota, no refusal without cause, and that nobody gets in
\* before a reset time.
Q == INSTANCE Quota WITH
        Lead <- Ahead, Slack <- Ahead + Late, placed <- ran, promise <- reset,
        fate <- [r \in Request |-> IF state[r] \in {"new", "stamped"} THEN "waiting" ELSE state[r]]

ImplementsQuota == Q!Spec
=============================================================================
