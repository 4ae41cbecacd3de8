--------------------------- MODULE LimitersProofs ---------------------------
(***************************************************************************)
(* Both limiters implement Quota, for every number of requests, limit,     *)
(* window, clock uncertainty and bound on time.  The Redis one does by     *)
(* RateLimitProofs; this module proves it of the one in memory.            *)
(***************************************************************************)
EXTENDS Limiters, RateLimitProofs, SequenceTheorems

(* The inductive invariant of the limiter in memory                        *)

MemoryTypeOK == TypeOK /\ events \in Seq(Request)

\* What the stamp and the time of an admission say of each other.
Readings ==
    /\ now >= Late
    /\ \A r \in Request :
          /\ state[r] \in {"new", "admitted", "denied", "error"}
          /\ state[r] # "admitted" => ran[r] = -1
          /\ state[r] = "admitted" => /\ ran[r] \in Nat /\ ran[r] <= now
                                      /\ stamp[r] <= ran[r] + Ahead
                                      /\ ran[r] <= stamp[r] + Late

\* The deque holds admitted requests, each once, in the order of their admission.
DequeOK ==
    /\ Len(events) <= Limit
    /\ \A i \in 1 .. Len(events) :
          /\ state[events[i]] = "admitted"
          /\ \A j \in i + 1 .. Len(events) :
                events[i] # events[j] /\ ran[events[i]] <= ran[events[j]]

\* It has not forgotten anyone too early.
DequeRemembers == \A r \in Request : Recent(r) => \E i \in 1 .. Len(events) : events[i] = r

\* As long as a promise stands the deque is full, behind the head it was read from.
DequeHolds ==
    \A q \in Request : Promised(q) =>
        Len(events) >= Limit /\ events # <<>> /\ stamp[events[1]] >= reset[q] - Window

MemoryInv == MemoryTypeOK /\ Readings /\ DequeOK /\ DequeRemembers /\ DequeHolds

-----------------------------------------------------------------------------
(* The purge                                                               *)

\* A member added less than a window ago, both clocks' errors allowed for, is not old.
LEMMA YoungArithmetic ==
    ASSUME NEW at \in Nat, NEW added \in Nat, NEW time \in Nat,
           NEW clock \in time - Late .. time + Ahead,
           added <= at + Late, time - added < Window - Ahead - Late
    PROVE  ~(at <= clock - Window)
BY ConstantsAssumption

\* A member that is not old was added less than a window and both errors ago.
LEMMA ReadingsArithmetic ==
    ASSUME NEW at \in Nat, NEW added \in Nat, NEW time \in Nat,
           NEW clock \in time - Late .. time + Ahead,
           at > clock - Window, at <= added + Ahead
    PROVE  time - added < Window + (Ahead + Late)
BY ConstantsAssumption

LEMMA LeftIs ==
    ASSUME MemoryTypeOK, NEW n \in 0 .. Len(events)
    PROVE  /\ Left(n) \in Seq(Request) /\ Len(Left(n)) = Len(events) - n
           /\ \A i \in 1 .. Len(events) - n : Left(n)[i] = events[n + i]
           /\ n = 0 => Left(n) = events
BY DEF MemoryTypeOK, Left

LEMMA LeftPositions ==
    ASSUME MemoryTypeOK, NEW n \in 0 .. Len(events)
    PROVE  /\ Left(n) \in Seq(Request) /\ Len(Left(n)) = Len(events) - n /\ Len(Left(n)) \in Nat
           /\ \A i \in 1 .. Len(Left(n)) :
                 /\ Left(n)[i] = events[n + i] /\ n + i \in 1 .. Len(events)
                 /\ Left(n)[i] \in Request
<1> DEFINE L == Left(n)
<1>1. /\ L \in Seq(Request) /\ Len(L) = Len(events) - n /\ Len(events) \in Nat
      /\ \A i \in 1 .. Len(events) - n : L[i] = events[n + i]
  BY LeftIs DEF MemoryTypeOK
<1> HIDE DEF L
<1>2. ASSUME NEW i \in 1 .. Len(L)
      PROVE  L[i] = events[n + i] /\ n + i \in 1 .. Len(events) /\ L[i] \in Request
  BY <1>1
<1>. QED
  BY <1>1, <1>2 DEF L

\* Two members of the deque: all different, the older to the left.
LEMMA DequeOrder ==
    ASSUME DequeOK, NEW a \in 1 .. Len(events), NEW b \in a + 1 .. Len(events)
    PROVE  events[a] # events[b] /\ ran[events[a]] <= ran[events[b]]
BY DEF DequeOK

\* What the purge leaves is in the same order.
LEMMA LeftOrder ==
    ASSUME MemoryTypeOK, DequeOK, NEW n \in 0 .. Len(events)
    PROVE  \A i \in 1 .. Len(Left(n)) :
              /\ state[Left(n)[i]] = "admitted"
              /\ \A j \in i + 1 .. Len(Left(n)) :
                    Left(n)[i] # Left(n)[j] /\ ran[Left(n)[i]] <= ran[Left(n)[j]]
<1> DEFINE L == Left(n)
<1>1. /\ Len(L) = Len(events) - n /\ Len(events) \in Nat /\ n \in Nat
      /\ \A i \in 1 .. Len(events) - n : L[i] = events[n + i]
  BY LeftIs DEF MemoryTypeOK
<1> HIDE DEF L
<1>2. ASSUME NEW i \in 1 .. Len(L)
      PROVE  n + i \in 1 .. Len(events) /\ L[i] = events[n + i]
  BY <1>1
<1>3. ASSUME NEW i \in 1 .. Len(L) PROVE state[L[i]] = "admitted"
  BY <1>2 DEF DequeOK
<1>4. ASSUME NEW i \in 1 .. Len(L), NEW j \in i + 1 .. Len(L)
      PROVE  L[i] # L[j] /\ ran[L[i]] <= ran[L[j]]
  <2>1. j \in 1 .. Len(L)
    BY <1>1
  <2>2. n + j \in (n + i) + 1 .. Len(events)
    BY <1>1
  <2>3. events[n + i] # events[n + j] /\ ran[events[n + i]] <= ran[events[n + j]]
    BY <1>2, <2>2, DequeOrder
  <2>. QED
    BY <1>2, <2>1, <2>3
<1>. QED
  BY <1>3, <1>4 DEF L

\* The purge spares the recent, and all of the deque while a promise stands.
LEMMA PurgeIs ==
    ASSUME MemoryInv, NEW n \in 0 .. Len(events), NEW clock \in now - Late .. now + Ahead,
           Drops(n, clock)
    PROVE  /\ \A r \in Request : Recent(r) => \E i \in 1 .. Len(Left(n)) : Left(n)[i] = r
           /\ (\E q \in Request : Promised(q)) => n = 0
<1> USE ConstantsAssumption
<1>0. /\ MemoryTypeOK /\ TypeOK /\ Readings /\ DequeOK /\ now \in Nat /\ clock \in Int
      /\ Len(events) \in Nat /\ \A i \in 1 .. Len(events) : events[i] \in Request
  BY DEF MemoryInv, MemoryTypeOK, TypeOK
<1>1. ASSUME NEW r \in Request, Recent(r) PROVE \E i \in 1 .. Len(Left(n)) : Left(n)[i] = r
  <2>1. PICK i \in 1 .. Len(events) : events[i] = r
    BY <1>1 DEF MemoryInv, DequeRemembers
  <2>2. state[r] = "admitted" /\ stamp[r] \in Nat /\ ran[r] \in Nat
    BY <1>0, <2>1 DEF DequeOK, Readings, TypeOK
  <2>3. ran[r] <= stamp[r] + Late /\ now - ran[r] < Window - Ahead - Late
    BY <1>0, <1>1, <2>2 DEF Recent, Readings
  <2>4. ~(stamp[r] <= clock - Window)
    BY <1>0, <2>2, <2>3, YoungArithmetic
  <2>5. ~Old(i, clock)
    BY <2>1, <2>4 DEF Old
  <2>6. i > n
    BY <2>5 DEF Drops
  <2>7. i - n \in 1 .. Len(events) - n /\ n + (i - n) = i
    BY <1>0, <2>1, <2>6
  <2>8. Len(Left(n)) = Len(events) - n /\ Left(n)[i - n] = events[n + (i - n)]
    BY <1>0, <2>7, LeftIs
  <2>. QED
    BY <2>1, <2>7, <2>8
<1>2. ASSUME NEW q \in Request, Promised(q) PROVE n = 0
  <2>1. events # <<>> /\ stamp[events[1]] >= reset[q] - Window
    BY <1>2 DEF MemoryInv, DequeHolds
  <2>2. 1 \in 1 .. Len(events) /\ events[1] \in Request
    BY <1>0, <2>1 DEF MemoryTypeOK
  <2>3. stamp[events[1]] \in Nat /\ reset[q] \in Nat
    BY <1>0, <2>2 DEF TypeOK
  <2>4. ~Old(1, clock)
    BY <1>0, <1>2, <2>1, <2>3 DEF Old, Promised
  <2>. QED
    BY <2>4 DEF Drops
<1>. QED
  BY <1>1, <1>2

-----------------------------------------------------------------------------
(* The invariant is inductive                                              *)

LEMMA InitMemory == EitherInit => MemoryInv
<1> SUFFICES ASSUME EitherInit PROVE MemoryInv
  OBVIOUS
<1> USE ConstantsAssumption
<1>1. TypeOK /\ events = <<>> /\ now = Late
  BY InitInv DEF EitherInit, Init, Inv
<1>2. Readings /\ DequeRemembers /\ DequeHolds
  BY DEF EitherInit, Init, Readings, DequeRemembers, DequeHolds, Recent, Added, Promised
<1>. QED
  BY <1>1, <1>2 DEF MemoryInv, MemoryTypeOK, DequeOK

LEMMA AdmitInMemoryInv ==
    ASSUME MemoryInv, NEW r \in Request, NEW n \in 0 .. Len(events),
           NEW clock \in now - Late .. now + Ahead, state[r] = "new",
           Drops(n, clock), AdmitInMemory(r, n, clock), UNCHANGED <<now, zset, expires>>
    PROVE  MemoryInv'
<1> USE ConstantsAssumption
<1>0. MemoryTypeOK /\ TypeOK /\ Readings /\ DequeOK /\ now \in Nat /\ now >= Late
  BY DEF MemoryInv, MemoryTypeOK, TypeOK, Readings
<1> DEFINE L == Left(n)
<1>1. /\ L \in Seq(Request) /\ Len(L) = Len(events) - n /\ Len(L) \in Nat
      /\ \A i \in 1 .. Len(L) : L[i] = events[n + i] /\ n + i \in 1 .. Len(events)
                                /\ L[i] \in Request
  BY <1>0, LeftPositions
<1>2. \A i \in 1 .. Len(L) : state[L[i]] = "admitted" /\ L[i] # r
  BY <1>0, LeftOrder
<1>3. \A i \in 1 .. Len(L) : \A j \in i + 1 .. Len(L) : L[i] # L[j] /\ ran[L[i]] <= ran[L[j]]
  BY <1>0, LeftOrder
<1>4. \A i \in 1 .. Len(L) : ran[L[i]] <= now
  BY <1>0, <1>1, <1>2 DEF Readings
<1>5. /\ events' = Append(L, r) /\ now' = now /\ reset' = reset /\ zset' = zset /\ expires' = expires
      /\ state'[r] = "admitted" /\ stamp'[r] = clock /\ ran'[r] = now
      /\ \A q \in Request : q # r =>
            state'[q] = state[q] /\ stamp'[q] = stamp[q] /\ ran'[q] = ran[q]
  BY <1>0 DEF AdmitInMemory, Becomes, TypeOK
<1>6. clock \in Nat /\ Len(L) < Limit
  BY <1>0 DEF AdmitInMemory
<1> HIDE DEF L
<1>7. /\ Len(events') = Len(L) + 1 /\ events' \in Seq(Request)
      /\ \A i \in 1 .. Len(L) : events'[i] = L[i]
      /\ events'[Len(L) + 1] = r /\ Len(L) + 1 \in 1 .. Len(events')
  <2>1. /\ Append(L, r) \in Seq(Request) /\ Len(Append(L, r)) = Len(L) + 1
        /\ \A i \in 1 .. Len(L) : Append(L, r)[i] = L[i]
        /\ Append(L, r)[Len(L) + 1] = r
    BY <1>1, AppendProperties
  <2>. QED
    BY <1>1, <1>5, <2>1
<1>8. TypeOK'
  <2>1. /\ state' = [state EXCEPT ![r] = "admitted"] /\ stamp' = [stamp EXCEPT ![r] = clock]
        /\ ran' = [ran EXCEPT ![r] = now]
    BY DEF AdmitInMemory, Becomes
  <2>2. /\ state' \in [Request -> State] /\ "admitted" \in State
    BY <1>0, <2>1 DEF TypeOK, State
  <2>. QED
    BY <1>0, <1>5, <1>6, <2>1, <2>2 DEF TypeOK
<1>9. Readings'
  <2>1. stamp'[r] <= ran'[r] + Ahead /\ ran'[r] <= stamp'[r] + Late /\ ran'[r] \in Nat
    BY <1>0, <1>5, <1>6
  <2>2. now' = now /\ ran'[r] <= now'
    BY <1>0, <1>5
  <2> SUFFICES ASSUME NEW q \in Request
               PROVE  /\ state'[q] \in {"new", "admitted", "denied", "error"}
                      /\ state'[q] # "admitted" => ran'[q] = -1
                      /\ state'[q] = "admitted" => /\ ran'[q] \in Nat /\ ran'[q] <= now'
                                                   /\ stamp'[q] <= ran'[q] + Ahead
                                                   /\ ran'[q] <= stamp'[q] + Late
    BY <1>0, <2>2 DEF Readings
  <2>3. CASE q = r
    BY <1>5, <2>1, <2>2, <2>3
  <2>4. CASE q # r
    BY <1>0, <1>5, <2>4 DEF Readings
  <2>. QED
    BY <2>3, <2>4
<1>10. DequeOK'
  <2>1. Len(events') <= Limit
    BY <1>1, <1>6, <1>7
  <2>2. ASSUME NEW i \in 1 .. Len(events')
        PROVE  /\ state'[events'[i]] = "admitted"
               /\ \A j \in i + 1 .. Len(events') :
                    events'[i] # events'[j] /\ ran'[events'[i]] <= ran'[events'[j]]
    <3>1. CASE i = Len(L) + 1
      <4>1. i + 1 .. Len(events') = {}
        BY <1>1, <1>7, <3>1
      <4>2. state'[events'[i]] = "admitted"
        BY <1>5, <1>7, <3>1
      <4>. QED
        BY <4>1, <4>2
    <3>2. CASE i \in 1 .. Len(L)
      <4>1. events'[i] = L[i] /\ L[i] # r /\ L[i] \in Request /\ ran'[L[i]] = ran[L[i]]
        BY <1>1, <1>2, <1>5, <1>7, <3>2
      <4>2. ASSUME NEW j \in i + 1 .. Len(events')
            PROVE  events'[i] # events'[j] /\ ran'[events'[i]] <= ran'[events'[j]]
        <5>1. CASE j = Len(L) + 1
          <6>1. events'[j] = r /\ ran'[r] = now
            BY <1>5, <1>7, <5>1
          <6>2. ran[L[i]] <= now
            BY <1>4, <3>2
          <6>. QED
            BY <4>1, <6>1, <6>2
        <5>2. CASE j \in 1 .. Len(L)
          <6>1. events'[j] = L[j] /\ L[j] # r /\ L[j] \in Request /\ ran'[L[j]] = ran[L[j]]
            BY <1>1, <1>2, <1>5, <1>7, <5>2
          <6>2. j \in i + 1 .. Len(L)
            BY <1>1, <3>2, <5>2
          <6>3. L[i] # L[j] /\ ran[L[i]] <= ran[L[j]]
            BY <1>3, <3>2, <6>2
          <6>. QED
            BY <4>1, <6>1, <6>3
        <5>3. j = Len(L) + 1 \/ j \in 1 .. Len(L)
          <6>1. i \in Nat /\ i >= 1 /\ Len(events') = Len(L) + 1 /\ Len(L) \in Nat
            BY <1>1, <1>7, <3>2
          <6>. QED
            BY <6>1
        <5>. QED
          BY <5>1, <5>2, <5>3
      <4>. QED
        BY <1>2, <1>5, <3>2, <4>1, <4>2
    <3>3. i = Len(L) + 1 \/ i \in 1 .. Len(L)
      <4>1. i \in 1 .. Len(events') /\ Len(events') = Len(L) + 1 /\ Len(L) \in Nat
        BY <1>1, <1>7
      <4>. QED
        BY <4>1
    <3>. QED
      BY <3>1, <3>2, <3>3
  <2>. QED
    BY <2>1, <2>2 DEF DequeOK
<1>11. DequeRemembers'
  <2> SUFFICES ASSUME NEW q \in Request, Recent(q)' PROVE \E i \in 1 .. Len(events') : events'[i] = q
    BY DEF DequeRemembers
  <2>1. CASE q = r
    BY <1>1, <1>7, <2>1
  <2>2. CASE q # r
    <3>1. Recent(q)
      BY <1>5, <2>2 DEF Recent, Added
    <3>2. PICK i \in 1 .. Len(L) : L[i] = q
      BY <3>1, PurgeIs DEF L
    <3>3. i \in 1 .. Len(events') /\ events'[i] = L[i]
      BY <1>1, <1>7
    <3>. QED
      BY <3>2, <3>3
  <2>. QED
    BY <2>1, <2>2
<1>12. DequeHolds'
  <2> SUFFICES ASSUME NEW q \in Request, Promised(q)' PROVE FALSE
    BY DEF DequeHolds
  <2>1. Promised(q)
    BY <1>5 DEF Promised
  <2>2. n = 0 /\ Len(events) >= Limit
    BY <2>1, PurgeIs DEF MemoryInv, DequeHolds
  <2>. QED
    BY <1>1, <1>6, <2>2
<1>. QED
  BY <1>7, <1>8, <1>9, <1>10, <1>11, <1>12 DEF MemoryInv, MemoryTypeOK

LEMMA DenyInMemoryInv ==
    ASSUME MemoryInv, NEW r \in Request, NEW n \in 0 .. Len(events),
           NEW clock \in now - Late .. now + Ahead, state[r] = "new",
           Drops(n, clock), DenyInMemory(r, n), UNCHANGED <<now, zset, expires>>
    PROVE  MemoryInv'
<1> USE ConstantsAssumption
<1>0. MemoryTypeOK /\ TypeOK /\ Readings /\ DequeOK /\ now \in Nat /\ now >= Late
  BY DEF MemoryInv, MemoryTypeOK, TypeOK, Readings
<1> DEFINE L == Left(n)
<1>1. /\ L \in Seq(Request) /\ Len(L) = Len(events) - n /\ Len(L) \in Nat
      /\ \A i \in 1 .. Len(L) : L[i] = events[n + i] /\ n + i \in 1 .. Len(events)
                                /\ L[i] \in Request
      /\ n = 0 => L = events
  BY <1>0, LeftPositions, LeftIs
<1>2. \A i \in 1 .. Len(L) : state[L[i]] = "admitted" /\ L[i] # r
  BY <1>0, LeftOrder
<1>3. \A i \in 1 .. Len(L) : \A j \in i + 1 .. Len(L) : L[i] # L[j] /\ ran[L[i]] <= ran[L[j]]
  BY <1>0, LeftOrder
<1>4. /\ events' = L /\ now' = now /\ stamp' = stamp /\ ran' = ran
      /\ zset' = zset /\ expires' = expires /\ Len(L) >= Limit
      /\ state'[r] \in {"denied", "error"}
      /\ \A q \in Request : q # r => state'[q] = state[q] /\ reset'[q] = reset[q]
      /\ state'[r] = "denied" => L # <<>> /\ reset'[r] = stamp[L[1]] + Window
  BY <1>0 DEF DenyInMemory, Becomes, TypeOK
<1>5. L # <<>> => 1 \in 1 .. Len(L)
  BY <1>1
<1> HIDE DEF L
<1>6. TypeOK'
  <2>1. L # <<>> => stamp[L[1]] + Window \in Nat
    <3>1. L # <<>> => L[1] \in Request
      BY <1>1, <1>5
    <3>2. \A q \in Request : stamp[q] \in Nat
      BY <1>0 DEF TypeOK
    <3>. QED
      BY <3>1, <3>2
  <2>. QED
    BY <1>0, <1>4, <2>1 DEF DenyInMemory, Becomes, TypeOK, State, L
<1>7. Readings'
  BY <1>0, <1>4 DEF Readings
<1>8. DequeOK'
  <2>1. Len(L) <= Limit
    BY <1>0, <1>1 DEF DequeOK
  <2>2. \A i \in 1 .. Len(L) : state'[L[i]] = "admitted"
    BY <1>1, <1>2, <1>4
  <2>. QED
    BY <1>3, <1>4, <2>1, <2>2 DEF DequeOK
<1>9. DequeRemembers'
  <2> SUFFICES ASSUME NEW q \in Request, Recent(q)' PROVE \E i \in 1 .. Len(events') : events'[i] = q
    BY DEF DequeRemembers
  <2>1. Recent(q)
    BY <1>4 DEF Recent, Added
  <2>. QED
    BY <1>4, <2>1, PurgeIs DEF L
<1>10. DequeHolds'
  <2> SUFFICES ASSUME NEW q \in Request, Promised(q)'
               PROVE  Len(L) >= Limit /\ L # <<>> /\ stamp[L[1]] >= reset'[q] - Window
    BY <1>4 DEF DequeHolds
  <2>1. CASE q = r
    <3>1. L # <<>> /\ reset'[q] = stamp[L[1]] + Window
      BY <1>4, <2>1 DEF Promised
    <3>2. stamp[L[1]] \in Nat
      BY <1>0, <1>1, <1>5, <3>1 DEF TypeOK
    <3>. QED
      BY <1>4, <3>1, <3>2
  <2>2. CASE q # r
    <3>1. Promised(q) /\ reset'[q] = reset[q]
      BY <1>4, <2>2 DEF Promised
    <3>2. n = 0
      BY <3>1, PurgeIs
    <3>. QED
      BY <1>1, <3>1, <3>2 DEF MemoryInv, DequeHolds
  <2>. QED
    BY <2>1, <2>2
<1>. QED
  BY <1>1, <1>4, <1>6, <1>7, <1>8, <1>9, <1>10 DEF MemoryInv, MemoryTypeOK

LEMMA TickInMemoryInv == MemoryInv /\ Tick /\ UNCHANGED events => MemoryInv'
<1> SUFFICES ASSUME MemoryInv, Tick, UNCHANGED events PROVE MemoryInv'
  OBVIOUS
<1> USE ConstantsAssumption
<1>0. TypeOK /\ Readings /\ now \in Nat
  BY DEF MemoryInv, MemoryTypeOK, TypeOK
<1>1. now' = now + 1 /\ UNCHANGED <<state, stamp, zset, expires, reset, ran, events>>
  BY DEF Tick
<1>2. TypeOK' /\ Readings' /\ DequeOK'
  BY <1>0, <1>1 DEF MemoryInv, TypeOK, Readings, DequeOK
<1>3. \A q \in Request : /\ Recent(q)' => Recent(q)
                         /\ Promised(q)' => Promised(q)
  BY <1>0, <1>1 DEF Recent, Added, Promised, TypeOK
<1>4. DequeRemembers' /\ DequeHolds'
  BY <1>1, <1>3 DEF MemoryInv, DequeRemembers, DequeHolds
<1>. QED
  BY <1>1, <1>2, <1>4 DEF MemoryInv, MemoryTypeOK

LEMMA StepMemory ==
    ASSUME MemoryInv, inMemory, EitherNext
    PROVE  MemoryInv'
<1>1. CASE \E r \in Request : CheckInMemory(r)
  <2>1. PICK r \in Request : CheckInMemory(r)
    BY <1>1
  <2>2. PICK clock \in now - Late .. now + Ahead, n \in 0 .. Len(events) :
           /\ Drops(n, clock)
           /\ AdmitInMemory(r, n, clock) \/ DenyInMemory(r, n)
    BY <2>1 DEF CheckInMemory
  <2>3. state[r] = "new" /\ UNCHANGED <<now, zset, expires>>
    BY <2>1 DEF CheckInMemory
  <2>. QED
    BY <2>2, <2>3, AdmitInMemoryInv, DenyInMemoryInv
<1>2. CASE Tick /\ UNCHANGED events
  BY <1>2, TickInMemoryInv
<1>. QED
  BY <1>1, <1>2 DEF EitherNext

\* The invariant of the limiter the service was started with.
EitherInv == (inMemory => MemoryInv) /\ (~inMemory => Inv)

THEOREM EitherInvariance == EitherSpec => []EitherInv
<1>1. EitherInit => EitherInv
  BY InitMemory, InitInv DEF EitherInit, EitherInv
<1>2. EitherInv /\ [EitherNext]_eitherVars => EitherInv'
  <2> SUFFICES ASSUME EitherInv, [EitherNext]_eitherVars PROVE EitherInv'
    OBVIOUS
  <2>1. CASE UNCHANGED eitherVars
    BY <2>1 DEF eitherVars, vars, EitherInv, MemoryInv, MemoryTypeOK, Readings, DequeOK,
                DequeRemembers, DequeHolds, Inv, TypeOK, Clocks, Added, Remembered, Recent,
                StorageBounded, Promises, Promised, Blocking
  <2>2. CASE inMemory /\ EitherNext
    BY <2>2, StepMemory DEF EitherInv, EitherNext
  <2>3. CASE ~inMemory /\ EitherNext
    BY <2>3, NextInv DEF EitherInv, EitherNext
  <2>. QED
    BY <2>1, <2>2, <2>3
<1>. QED
  BY <1>1, <1>2, PTL DEF EitherSpec

-----------------------------------------------------------------------------
(* The refinement                                                          *)

LEMMA Positions ==
    ASSUME NEW k \in Nat
    PROVE  IsFiniteSet(1 .. k) /\ Cardinality(1 .. k) = k
<1>0. 1 \in Int /\ k \in Int
  OBVIOUS
<1>1. IsFiniteSet(1 .. k) /\ Cardinality(1 .. k) = IF 1 > k THEN 0 ELSE k - 1 + 1
  BY <1>0, FS_Interval, Zenon
<1>2. (IF 1 > k THEN 0 ELSE k - 1 + 1) = k
  OBVIOUS
<1>. QED
  BY <1>1, <1>2

\* Requests that all stand in a sequence are no more than it is long.
LEMMA CountInSequence ==
    ASSUME NEW s \in Seq(Request), NEW T \in SUBSET Request,
           \A t \in T : \E i \in 1 .. Len(s) : s[i] = t
    PROVE  Cardinality(T) <= Len(s) /\ Cardinality(T) \in Nat
<1> DEFINE f == [t \in T |-> CHOOSE i \in 1 .. Len(s) : s[i] = t]
<1>1. \A t \in T : f[t] \in 1 .. Len(s) /\ s[f[t]] = t
  OBVIOUS
<1>2. f \in [T -> 1 .. Len(s)]
  BY <1>1
<1>3. f \in Injection(T, 1 .. Len(s))
  BY <1>1, <1>2 DEF Injection, IsInjective
<1> HIDE DEF f
<1>4. IsFiniteSet(1 .. Len(s)) /\ Cardinality(1 .. Len(s)) = Len(s)
  BY Positions
<1>5. IsFiniteSet(T) /\ Cardinality(T) <= Cardinality(1 .. Len(s))
  BY <1>3, <1>4, FS_Injection
<1>. QED
  BY <1>4, <1>5, FS_CardinalityType

\* An answer to a request is its fate, and nobody else's.
LEMMA FateBecomes ==
    ASSUME TypeOK, NEW r \in Request, state[r] = "new", NEW s \in {"admitted", "denied"},
           state' = [state EXCEPT ![r] = s]
    PROVE  Fate' = [Fate EXCEPT ![r] = s] /\ Fate[r] = "waiting"
<1>1. state'[r] = s /\ \A q \in Request : q # r => state'[q] = state[q]
  BY DEF TypeOK
<1>2. Fate' = [q \in Request |-> IF q = r THEN s ELSE Fate[q]]
  <2>1. ASSUME NEW q \in Request
        PROVE  (IF state'[q] \in {"new", "stamped"} THEN "waiting" ELSE state'[q])
                 = IF q = r THEN s ELSE Fate[q]
    BY <1>1 DEF Fate
  <2>. QED
    BY <2>1 DEF Fate
<1>3. [Fate EXCEPT ![r] = s] = [q \in Request |-> IF q = r THEN s ELSE Fate[q]]
  BY DEF Fate
<1>. QED
  BY <1>2, <1>3 DEF Fate

\* A sequence without repetition is no longer than a set that holds its elements.
LEMMA SequenceInCount ==
    ASSUME NEW s \in Seq(Request), NEW T \in SUBSET Request,
           \A i \in 1 .. Len(s) : s[i] \in T,
           \A i \in 1 .. Len(s) : \A j \in i + 1 .. Len(s) : s[i] # s[j]
    PROVE  Len(s) <= Cardinality(T) /\ Cardinality(T) \in Nat
<1> DEFINE f == [i \in 1 .. Len(s) |-> s[i]]
<1>1. f \in [1 .. Len(s) -> T]
  OBVIOUS
<1>2. ASSUME NEW i \in 1 .. Len(s), NEW j \in 1 .. Len(s), f[i] = f[j] PROVE i = j
  <2>1. ~(j \in i + 1 .. Len(s)) /\ ~(i \in j + 1 .. Len(s))
    BY <1>2
  <2>. QED
    BY <2>1
<1>3. f \in Injection(1 .. Len(s), T)
  BY <1>1, <1>2 DEF Injection, IsInjective
<1> HIDE DEF f
<1>4. IsFiniteSet(T)
  BY ConstantsAssumption, FS_Subset
<1>5. Cardinality(1 .. Len(s)) <= Cardinality(T)
  BY <1>3, <1>4, FS_Injection
<1>6. Cardinality(1 .. Len(s)) = Len(s)
  BY Positions
<1>. QED
  BY <1>4, <1>5, <1>6, FS_CardinalityType

\* Recent admissions are left in the deque, which had room for one more.
LEMMA AdmitInMemoryQuota ==
    ASSUME MemoryInv, NEW r \in Request, NEW n \in 0 .. Len(events),
           NEW clock \in now - Late .. now + Ahead, state[r] = "new",
           Drops(n, clock), AdmitInMemory(r, n, clock), UNCHANGED <<now, zset, expires>>
    PROVE  Q!Next
<1> USE ConstantsAssumption
<1>0. MemoryTypeOK /\ TypeOK
  BY DEF MemoryInv, MemoryTypeOK
<1> DEFINE Counted == Q!Served \cap Q!Since(Window - (Ahead + Late))
<1>1. ASSUME NEW q \in Counted PROVE \E i \in 1 .. Len(Left(n)) : Left(n)[i] = q
  <2>1. q \in Request /\ ran[q] >= 0 /\ now - ran[q] < Window - (Ahead + Late)
    BY DEF Q!Since, Q!Served
  <2>2. Recent(q)
    BY <1>0, <2>1 DEF Recent, Added, TypeOK
  <2>. QED
    BY <2>1, <2>2, PurgeIs
<1>2. Counted \subseteq Request
  BY DEF Q!Since
<1>3. Left(n) \in Seq(Request)
  BY <1>0, LeftIs
<1> HIDE DEF Counted
<1>4. Cardinality(Counted) <= Len(Left(n)) /\ Cardinality(Counted) \in Nat
  BY <1>1, <1>2, <1>3, CountInSequence
<1>5. Cardinality(Counted) < Limit
  BY <1>3, <1>4 DEF AdmitInMemory
<1>6. state' = [state EXCEPT ![r] = "admitted"] /\ ran' = [ran EXCEPT ![r] = now]
      /\ now' = now /\ reset' = reset
  BY DEF AdmitInMemory, Becomes
<1>7. ASSUME NEW q \in Request, Fate[q] = "denied" PROVE now >= reset[q] - Ahead
  <2> SUFFICES ASSUME ~(now >= reset[q] - Ahead) PROVE FALSE
    OBVIOUS
  <2>1. Promised(q)
    BY <1>0, <1>7 DEF Fate, Promised, TypeOK
  <2>2. n = 0 /\ Len(events) >= Limit
    BY <2>1, PurgeIs DEF MemoryInv, DequeHolds
  <2>3. Len(Left(n)) = Len(events)
    BY <1>0, <2>2, LeftIs
  <2>. QED
    BY <1>0, <2>2, <2>3 DEF AdmitInMemory, MemoryTypeOK
<1>8. Fate' = [Fate EXCEPT ![r] = "admitted"] /\ Fate[r] = "waiting"
  BY <1>0, <1>6, FateBecomes
<1>9. Q!Admit(r)
  BY <1>5, <1>6, <1>7, <1>8, SameCardinality DEF Q!Admit, Q!Becomes, Fate, Counted
<1>. QED
  BY <1>8, <1>9 DEF Q!Next, Fate

\* The head was young enough to stay; whoever stands behind it came later.
LEMMA DenyInMemoryQuota ==
    ASSUME Limit > 0,
           MemoryInv, NEW r \in Request, NEW n \in 0 .. Len(events),
           NEW clock \in now - Late .. now + Ahead, state[r] = "new",
           Drops(n, clock), DenyInMemory(r, n), UNCHANGED <<now, zset, expires>>
    PROVE  Q!Next
<1> USE ConstantsAssumption
<1>0. MemoryTypeOK /\ TypeOK /\ Readings /\ DequeOK /\ now \in Nat /\ clock \in Int
  BY DEF MemoryInv, MemoryTypeOK, TypeOK, Readings
<1> DEFINE L == Left(n)
           Took == Q!Since(Window + (Ahead + Late))
<1>1. /\ L \in Seq(Request) /\ Len(L) = Len(events) - n /\ Len(L) \in Nat
      /\ \A i \in 1 .. Len(L) : L[i] = events[n + i] /\ n + i \in 1 .. Len(events)
                                /\ L[i] \in Request
  BY <1>0, LeftPositions
<1>2. Len(L) >= Limit /\ L # <<>> /\ 1 \in 1 .. Len(L) /\ n < Len(events)
  BY <1>1 DEF DenyInMemory
<1>3. \A i \in 1 .. Len(L) : \A j \in i + 1 .. Len(L) : L[i] # L[j] /\ ran[L[i]] <= ran[L[j]]
  BY <1>0, LeftOrder
<1>4. state[L[1]] = "admitted" /\ stamp[L[1]] > clock - Window
      /\ stamp[L[1]] \in Nat /\ ran[L[1]] \in Nat /\ stamp[L[1]] <= ran[L[1]] + Ahead
  <2>1. L[1] = events[n + 1] /\ n + 1 \in 1 .. Len(events) /\ L[1] \in Request
    BY <1>1, <1>2
  <2>2. state[L[1]] = "admitted" /\ ~Old(n + 1, clock)
    BY <1>0, <1>2, <2>1 DEF DequeOK, Drops
  <2>. QED
    BY <1>0, <2>1, <2>2 DEF Old, Readings, TypeOK
<1>5. ASSUME NEW i \in 1 .. Len(L) PROVE L[i] \in Took
  <2>1. ran[L[1]] <= ran[L[i]]
    <3>1. CASE i = 1
      BY <1>4, <3>1
    <3>2. CASE i \in 2 .. Len(L)
      BY <1>2, <1>3, <3>2
    <3>. QED
      BY <1>1, <3>1, <3>2
  <2>2. ran[L[i]] \in Nat
    <3>1. L[i] \in Request /\ state[L[i]] = "admitted"
      BY <1>0, <1>1 DEF DequeOK
    <3>. QED
      BY <1>0, <3>1 DEF Readings
  <2>3. ran[L[i]] >= 0 /\ now - ran[L[i]] < Window + (Ahead + Late)
    <3>1. now - ran[L[1]] < Window + (Ahead + Late)
      BY <1>0, <1>4, ReadingsArithmetic
    <3>2. now \in Nat /\ ran[L[1]] \in Nat /\ Window \in Nat /\ Ahead \in Nat /\ Late \in Nat
      BY <1>0, <1>4
    <3>. QED
      BY <2>1, <2>2, <3>1, <3>2
  <2>. QED
    BY <1>1, <2>3 DEF Q!Since
<1>6. Took \subseteq Request
  BY DEF Q!Since
<1> HIDE DEF L, Took
<1>7. Len(L) <= Cardinality(Took) /\ Cardinality(Took) \in Nat
  BY <1>1, <1>3, <1>5, <1>6, SequenceInCount
<1>8. Cardinality(Took) >= Limit
  BY <1>1, <1>2, <1>7
<1>9. state' = [state EXCEPT ![r] = "denied"] /\ now' = now /\ ran' = ran
      /\ reset' = [reset EXCEPT ![r] = stamp[L[1]] + Window]
  BY <1>2 DEF DenyInMemory, Becomes, L
<1>10. Fate' = [Fate EXCEPT ![r] = "denied"] /\ Fate[r] = "waiting"
  BY <1>0, <1>9, FateBecomes
<1>11. reset' \in [Request -> Nat] /\ \A q \in Request \ {r} : reset'[q] = reset[q]
  <2>1. stamp[L[1]] + Window \in Nat
    BY <1>4
  <2>2. reset \in [Request -> Nat]
    BY <1>0 DEF TypeOK
  <2>. QED
    BY <1>9, <2>1, <2>2
<1>12. Q!Deny(r)
  BY <1>8, <1>9, <1>10, <1>11, SameCardinality DEF Q!Deny, Q!Becomes, Fate, Took
<1>. QED
  BY <1>10, <1>12 DEF Q!Next, Fate

\* Every step of the service is a step of Quota or leaves what Quota sees unchanged.
LEMMA StepEitherQuota ==
    ASSUME Limit > 0, EitherInv, [EitherNext]_eitherVars
    PROVE  [Q!Next]_(Q!vars)
<1>1. CASE inMemory /\ \E r \in Request : CheckInMemory(r)
  <2>1. PICK r \in Request : CheckInMemory(r)
    BY <1>1
  <2>2. PICK clock \in now - Late .. now + Ahead, n \in 0 .. Len(events) :
           /\ Drops(n, clock)
           /\ AdmitInMemory(r, n, clock) \/ DenyInMemory(r, n)
    BY <2>1 DEF CheckInMemory
  <2>3. state[r] = "new" /\ UNCHANGED <<now, zset, expires>> /\ MemoryInv
    BY <1>1, <2>1 DEF CheckInMemory, EitherInv
  <2>. QED
    BY <2>2, <2>3, AdmitInMemoryQuota, DenyInMemoryQuota
<1>2. CASE Tick
  BY <1>2 DEF Tick, Q!Tick, Q!Next
<1>3. CASE ~inMemory /\ Next
  BY <1>3, StepQuota DEF EitherInv
<1>4. CASE UNCHANGED eitherVars
  BY <1>4 DEF eitherVars, vars, Q!vars
<1>. QED
  BY <1>1, <1>2, <1>3, <1>4 DEF EitherNext

\* Whichever limiter the service was started with, it implements Quota, provided that
\* the limit is not zero (the in-memory one fails on an empty deque then).
THEOREM EitherRefinement ==
    ASSUME Limit > 0
    PROVE  EitherSpec => ImplementsQuota
<1>1. EitherInit => Q!Init
  BY InitQuota DEF EitherInit
<1>2. EitherInv /\ [EitherNext]_eitherVars => [Q!Next]_(Q!vars)
  BY StepEitherQuota
<1>. QED
  BY <1>1, <1>2, EitherInvariance, PTL DEF EitherSpec, ImplementsQuota, Q!Spec

-----------------------------------------------------------------------------
(* The reset time                                                          *)

\* In Redis: of the members a refusal leaves, one is gone at the reset time.
LEMMA ScriptLeavesRoom ==
    ASSUME Inv, NEW q \in Request, Deny(q), Limit > 0
    PROVE  (Cardinality(KeptAt(reset[q])) < Limit)'
<1>1. /\ TypeOK /\ StorageBounded
      /\ ~HasRoom(q) /\ zset' = Kept(q) /\ reset'[q] = ResetTime(q)
      /\ UNCHANGED <<now, stamp, expires>>
  BY DEF Inv, Deny, Purge, TypeOK
<1>2. Kept(q) \subseteq zset
  BY DEF Kept, KeptAt, Live
<1>3. /\ IsFiniteSet(Kept(q)) /\ Cardinality(Kept(q)) \in Nat
      /\ Cardinality(Kept(q)) <= Limit
  BY <1>1, <1>2, Finite, ConstantsAssumption DEF TypeOK, StorageBounded
<1>4. Kept(q) # {}
  BY <1>1, FS_EmptySet, ConstantsAssumption DEF HasRoom
<1>5. PICK e \in Kept(q) : stamp[e] = ResetTime(q) - Window
  BY <1>1, <1>4, ResetTimeIs
<1>6. KeptAt(reset[q])' \subseteq Kept(q) \ {e}
  <2>1. Live' \subseteq Kept(q)
    BY <1>1 DEF Live
  <2>2. KeptAt(reset[q])' = {x \in Live' : stamp[x] > ResetTime(q) - Window}
    BY <1>1 DEF KeptAt
  <2>3. ~(stamp[e] > ResetTime(q) - Window)
    BY <1>1, <1>5, ResetTimeIs, ConstantsAssumption
  <2>. QED
    BY <2>1, <2>2, <2>3
<1>7. IsFiniteSet(Kept(q) \ {e}) /\ Cardinality(Kept(q) \ {e}) = Cardinality(Kept(q)) - 1
  BY <1>3, <1>5, FS_RemoveElement
<1>8. /\ Cardinality(KeptAt(reset[q])') <= Cardinality(Kept(q) \ {e})
      /\ Cardinality(KeptAt(reset[q])') \in Nat
  BY <1>6, <1>7, FS_Subset, FS_CardinalityType
<1>. QED
  BY <1>3, <1>7, <1>8, ConstantsAssumption

\* In memory: the head of the deque is gone at the reset time, whatever is behind it.
LEMMA DequeLeavesRoom ==
    ASSUME MemoryInv, NEW q \in Request, NEW n \in 0 .. Len(events),
           DenyInMemory(q, n), state'[q] = "denied"
    PROVE  (\A k \in 0 .. Len(events) : Drops(k, reset[q]) => Len(Left(k)) < Limit)'
<1>1. /\ MemoryTypeOK /\ DequeOK
      /\ Left(n) \in Seq(Request) /\ Len(Left(n)) = Len(events) - n /\ Len(events) \in Nat
  BY LeftIs DEF MemoryInv, MemoryTypeOK
<1>2. events' = Left(n) /\ stamp' = stamp
  BY DEF DenyInMemory
<1>3. Left(n) # <<>> /\ reset'[q] = stamp[Left(n)[1]] + Window
  BY <1>1 DEF DenyInMemory, Becomes, MemoryTypeOK, TypeOK
<1>4. PICK list \in Seq(Request) : list = Left(n)
  BY <1>1
<1>5. Len(list) \in Nat /\ Len(list) >= 1 /\ Len(list) <= Limit /\ stamp[list[1]] \in Nat
  <2>1. Len(list) = Len(events) - n /\ Len(events) <= Limit /\ n >= 0 /\ n \in Nat
    BY <1>1, <1>4 DEF DequeOK
  <2>2. Len(list) \in Nat /\ Len(list) >= 1
    BY <1>3, <1>4
  <2>3. list[1] \in Request
    BY <2>2
  <2>4. Len(list) <= Limit
    BY <1>1, <2>1, <2>2, ConstantsAssumption
  <2>5. stamp[list[1]] \in Nat
    BY <1>1, <2>3 DEF MemoryTypeOK, TypeOK
  <2>. QED
    BY <2>2, <2>4, <2>5
<1>6. Old(1, reset[q])'
  BY <1>2, <1>3, <1>4, <1>5, ConstantsAssumption DEF Old
<1>7. ASSUME NEW k \in 0 .. Len(list), Drops(k, reset[q])' PROVE k # 0
  BY <1>2, <1>4, <1>5, <1>6, <1>7 DEF Drops
<1>8. ASSUME NEW k \in 0 .. Len(list), Drops(k, reset[q])' PROVE Len(Left(k))' < Limit
  <2>1. k \in Nat /\ k >= 1 /\ k <= Len(list)
    BY <1>7, <1>8
  <2>2. Left(k)' = SubSeq(list, k + 1, Len(list))
    BY <1>2, <1>4 DEF Left
  <2>3. Len(SubSeq(list, k + 1, Len(list))) = Len(list) - k
    BY <1>5, <2>1
  <2>. QED
    BY <1>5, <2>1, <2>2, <2>3, ConstantsAssumption
<1>. QED
  BY <1>2, <1>4, <1>8

\* A request that comes back at its reset time finds room, unless others took it: the oldest
\* member is purged then, not a tick later, in Redis as in memory.
THEOREM ResetSafety == EitherSpec => ResetLeavesRoom
<1>1. ASSUME EitherInv, [EitherNext]_eitherVars, NEW q \in Request,
             state[q] # "denied", state'[q] = "denied", Limit > 0
      PROVE  RoomAt(reset[q])'
  <2>1. CASE inMemory
    <3>1. MemoryInv /\ TypeOK /\ inMemory'
      BY <1>1, <2>1 DEF EitherInv, MemoryInv, MemoryTypeOK, EitherNext, eitherVars
    <3>2. PICK r \in Request : CheckInMemory(r)
      BY <1>1, <2>1 DEF EitherNext, eitherVars, vars, Tick
    <3>3. PICK clock \in now - Late .. now + Ahead, n \in 0 .. Len(events) :
             AdmitInMemory(r, n, clock) \/ DenyInMemory(r, n)
      BY <3>2 DEF CheckInMemory
    <3>4. r = q /\ DenyInMemory(q, n)
      BY <1>1, <3>1, <3>3 DEF AdmitInMemory, DenyInMemory, Becomes, TypeOK
    <3>. QED
      BY <1>1, <3>1, <3>4, DequeLeavesRoom DEF RoomAt
  <2>2. CASE ~inMemory
    <3>1. Inv /\ TypeOK /\ ~inMemory'
      BY <1>1, <2>2 DEF EitherInv, Inv, EitherNext, eitherVars
    <3>2. Next
      BY <1>1, <2>2 DEF EitherNext, eitherVars, vars
    <3>3. Deny(q)
      BY <1>1, <3>1, <3>2 DEF Next, ReadClock, Admit, Deny, LoseReply, RaiseRedisError, Tick,
                              Becomes, TypeOK
    <3>. QED
      BY <1>1, <3>1, <3>3, ScriptLeavesRoom DEF RoomAt
  <2>. QED
    BY <2>1, <2>2
<1>2. EitherInv /\ [EitherNext]_eitherVars =>
        [\A q \in Request :
            state[q] # "denied" /\ state'[q] = "denied" /\ Limit > 0 => RoomAt(reset[q])']_eitherVars
  BY <1>1
<1>. QED
  BY <1>2, EitherInvariance, PTL DEF EitherSpec, ResetLeavesRoom
=============================================================================
