------------------------------ MODULE Limiters ------------------------------
(***************************************************************************)
(* The service with either limiter: get_rate_limiter yields the one on     *)
(* Redis, and a dependency override may put the one in memory in its       *)
(* place.  InMemoryRateLimiter keeps a deque per tenant and endpoint in    *)
(* the process that serves the requests; check never awaits, so it is one  *)
(* step.  It trusts time.time, which may be set back or forward: a reading *)
(* is off by at most Ahead or Late.  The deque need not be sorted then,    *)
(* but members are only dropped at its left end.                           *)
(***************************************************************************)
EXTENDS RateLimit, Sequences

VARIABLES
    inMemory,  \* TRUE: the service has an InMemoryRateLimiter
    events     \* its deque: admitted requests, oldest first

eitherVars == <<vars, inMemory, events>>

EitherInit == Init /\ events = <<>> /\ inMemory \in BOOLEAN

Old(i, clock) == stamp[events[i]] <= clock - Window

\* PLAUSIBLE BUG: the younger members are dropped.
DropsYoung(n, clock) ==
    /\ \A i \in 1 .. n : ~Old(i, clock)
    /\ n < Len(events) => Old(n + 1, clock)

\* The while loop pops the first n events and stops.
Drops(n, clock) ==
    /\ \A i \in 1 .. n : Old(i, clock)
    /\ n < Len(events) => ~Old(n + 1, clock)

Left(n) == SubSeq(events, n + 1, Len(events))

AdmitInMemory(r, n, clock) ==
    /\ Len(Left(n)) < Limit
    /\ events' = Append(Left(n), r)
    /\ stamp' = [stamp EXCEPT ![r] = clock]
    /\ ran' = [ran EXCEPT ![r] = now]
    /\ Becomes(r, "admitted")
    /\ UNCHANGED reset

\* 429; events[0] raises IndexError (500) when the limit is zero.
DenyInMemory(r, n) ==
    /\ Len(Left(n)) >= Limit
    /\ events' = Left(n)
    /\ IF Left(n) = <<>>
         THEN Becomes(r, "error") /\ UNCHANGED reset
         ELSE Becomes(r, "denied") /\ reset' = [reset EXCEPT ![r] = stamp[Left(n)[1]] + Window]
    /\ UNCHANGED <<stamp, ran>>

\* InMemoryRateLimiter.check, between two awaits.
CheckInMemory(r) ==
    /\ state[r] = "new"
    /\ \E clock \in now - Late .. now + Ahead, n \in 0 .. Len(events) :
          /\ Drops(n, clock)
          /\ AdmitInMemory(r, n, clock) \/ DenyInMemory(r, n)
    /\ UNCHANGED <<now, zset, expires>>

EitherNext ==
    /\ UNCHANGED inMemory
    /\ \/ ~inMemory /\ Next /\ UNCHANGED events
       \/ inMemory /\ \E r \in Request : CheckInMemory(r)
       \/ inMemory /\ Tick /\ UNCHANGED events

EitherSpec == EitherInit /\ [][EitherNext]_eitherVars

-----------------------------------------------------------------------------
(* Properties                                                              *)

\* What check would find for a request of this clock.
RoomAt(clock) ==
    IF inMemory
      THEN \A n \in 0 .. Len(events) : Drops(n, clock) => Len(Left(n)) < Limit
      ELSE Cardinality(KeptAt(clock)) < Limit

\* The purge and the reset time agree on when the window ends: a denied request that
\* comes back at its reset time, not a tick later, finds room if nobody took it.
ResetLeavesRoom ==
    [][\A q \in Request :
          state[q] # "denied" /\ state'[q] = "denied" /\ Limit > 0 => RoomAt(reset[q])']_eitherVars
=============================================================================
