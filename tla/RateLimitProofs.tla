--------------------------- MODULE RateLimitProofs ---------------------------
(***************************************************************************)
(* Proofs about RateLimit, for every number of requests, limit, window,    *)
(* clock uncertainty and bound on time.                                    *)
(***************************************************************************)
EXTENDS RateLimit, FiniteSetTheorems, WellFoundedInduction, TLAPS

\* A non-empty set of naturals has a least element.
LEMMA HasMinimum ==
    ASSUME NEW T \in SUBSET Nat, T # {}
    PROVE  \E m \in T : \A n \in T : m <= n
<1> DEFINE R == OpToRel(<, Nat)
<1>1. IsWellFoundedOn(R, Nat)
  BY NatLessThanWellFounded
<1> HIDE DEF R
<1>2. PICK m \in T : \A n \in T : ~(<<n, m>> \in R)
  BY <1>1, WFMin
<1>3. \A n \in T : <<n, m>> \in R <=> n < m
  BY DEF R, OpToRel
<1>4. \A n \in T : n \in Nat /\ ~(n < m)
  BY <1>2, <1>3
<1>. QED
  BY <1>4

-----------------------------------------------------------------------------
(* The inductive invariant                                                 *)

Added(r) == ran[r] >= 0

\* What the stamp and the time of the last ZADD of a request say of each other.
Clocks ==
    /\ now >= Late
    /\ \A r \in Request :
          /\ state[r] = "new" => ran[r] = -1
          /\ state[r] = "admitted" => Added(r)
          /\ state[r] = "degraded" => FailOpen
          /\ state[r] = "stamped" => stamp[r] <= now + Ahead
          /\ Added(r) => /\ ran[r] <= now
                         /\ stamp[r] <= ran[r] + Ahead
                         /\ ran[r] <= stamp[r] + Late
                         /\ ran[r] + Window <= expires
    /\ \A e \in zset : Added(e)

Recent(r) == Added(r) /\ now - ran[r] < Window - Ahead - Late

\* The sorted set has not forgotten anyone too early.
Remembered == \A r \in Request : Recent(r) => r \in zset

\* Those who keep q out until the time it was told.
Blocking(q) == {e \in zset : stamp[e] >= reset[q] - Window}

Promised(q) == state[q] = "denied" /\ now < reset[q] - Ahead

\* As long as a promise stands, so do the members it was read from.
Promises == \A q \in Request : Promised(q) => Cardinality(Blocking(q)) >= Limit

Inv == TypeOK /\ Clocks /\ Remembered /\ StorageBounded /\ Promises

-----------------------------------------------------------------------------
(* The script                                                              *)

\* Sets of requests are finite, and smaller ones have fewer elements.
LEMMA Finite ==
    ASSUME NEW S \in SUBSET Request, NEW T \in SUBSET S
    PROVE  /\ IsFiniteSet(S) /\ Cardinality(S) \in Nat
           /\ IsFiniteSet(T) /\ Cardinality(T) \in Nat
           /\ Cardinality(T) <= Cardinality(S)
<1>1. IsFiniteSet(S)
  BY ConstantsAssumption, FS_Subset
<1>2. IsFiniteSet(T) /\ Cardinality(T) <= Cardinality(S)
  BY <1>1, FS_Subset
<1>. QED
  BY <1>1, <1>2, FS_CardinalityType

\* ResetTime is when the oldest member leaves the window.
LEMMA ResetTimeIs ==
    ASSUME TypeOK, NEW r \in Request
    PROVE  /\ ResetTime(r) \in Nat
           /\ \A e \in Kept(r) : stamp[e] >= ResetTime(r) - Window
           /\ Kept(r) # {} => \E e \in Kept(r) : stamp[e] = ResetTime(r) - Window
<1> DEFINE members == IF Kept(r) = {} THEN {r} ELSE Kept(r)
           T == {stamp[e] : e \in members}
<1>1. Kept(r) \subseteq Request
  BY DEF Kept, KeptAt, Live, TypeOK
<1>2. members \subseteq Request /\ members # {}
  BY <1>1
<1> HIDE DEF members
<1>3. T \in SUBSET Nat /\ T # {}
  BY <1>2 DEF TypeOK
<1>4. PICK m \in T : \A n \in T : m <= n
  BY <1>3, HasMinimum
<1>5. \E s \in T : \A e \in members : s <= stamp[e]
  BY <1>4
<1> DEFINE least == CHOOSE s \in T : \A e \in members : s <= stamp[e]
<1>6. least \in T /\ \A e \in members : least <= stamp[e]
  BY <1>5
<1>7. ResetTime(r) = Window + least
  BY DEF ResetTime, members
<1> HIDE DEF least, T
<1>8. least \in Nat
  BY <1>3, <1>6
<1>9. Window \in Nat
  BY ConstantsAssumption
<1>10. \A e \in Kept(r) : least <= stamp[e] /\ stamp[e] \in Nat
  BY <1>1, <1>6 DEF members, TypeOK
<1>11. Kept(r) # {} => \E e \in Kept(r) : stamp[e] = least
  BY <1>6 DEF members, T
<1>. QED
  BY <1>7, <1>8, <1>9, <1>10, <1>11

\* Whoever evaluates the script, the purge spares the recent and the blocking.
LEMMA KeptIs ==
    ASSUME TypeOK, Clocks, NEW r \in Request, state[r] = "stamped"
    PROVE  /\ Kept(r) \subseteq zset
           /\ \A e \in zset : Recent(e) => e \in Kept(r)
           /\ \A q \in Request : now < reset[q] - Ahead => Blocking(q) \subseteq Kept(r)
<1> USE ConstantsAssumption
<1>1. Kept(r) \subseteq zset
  BY DEF Kept, KeptAt, Live
<1>2. stamp[r] \in Nat /\ stamp[r] <= now + Ahead /\ now \in Nat
  BY DEF TypeOK, Clocks
<1>3. ASSUME NEW e \in zset
      PROVE  /\ stamp[e] \in Nat /\ ran[e] \in Nat /\ expires \in Nat
             /\ stamp[e] <= ran[e] + Ahead
             /\ ran[e] <= stamp[e] + Late
             /\ ran[e] + Window <= expires
  BY DEF TypeOK, Clocks, Added
<1>4. ASSUME NEW e \in zset, Recent(e) PROVE e \in Kept(r)
  <2>1. now < expires
    BY <1>2, <1>3, <1>4 DEF Recent
  <2>2. stamp[e] > stamp[r] - Window
    BY <1>2, <1>3, <1>4 DEF Recent
  <2>. QED
    BY <2>1, <2>2 DEF Kept, KeptAt, Live
<1>5. ASSUME NEW q \in Request, now < reset[q] - Ahead, NEW e \in Blocking(q) PROVE e \in Kept(r)
  <2>1. e \in zset /\ stamp[e] >= reset[q] - Window /\ reset[q] \in Nat
    BY DEF Blocking, TypeOK
  <2>2. now < expires
    BY <1>2, <1>3, <1>5, <2>1
  <2>3. stamp[e] > stamp[r] - Window
    BY <1>2, <1>3, <1>5, <2>1
  <2>. QED
    BY <2>1, <2>2, <2>3 DEF Kept, KeptAt, Live
<1>. QED
  BY <1>1, <1>4, <1>5

-----------------------------------------------------------------------------
(* Type correctness                                                        *)

LEMMA InitInv == Init => Inv
<1> SUFFICES ASSUME Init PROVE Inv
  OBVIOUS
<1> USE ConstantsAssumption
<1>1. TypeOK
  BY DEF Init, TypeOK, State
<1>2. Clocks /\ Remembered /\ Promises
  BY DEF Init, Clocks, Remembered, Promises, Added, Recent, Promised
<1>3. StorageBounded
  BY FS_EmptySet DEF Init, StorageBounded
<1>. QED
  BY <1>1, <1>2, <1>3 DEF Inv

LEMMA NextTypeOK == TypeOK /\ Clocks /\ [Next]_vars => TypeOK'
<1> SUFFICES ASSUME TypeOK, Clocks, [Next]_vars PROVE TypeOK'
  OBVIOUS
<1> USE ConstantsAssumption
<1>k. \A r \in Request : Kept(r) \subseteq Request
  BY DEF Kept, KeptAt, Live, TypeOK
<1>1. ASSUME NEW r \in Request, ReadClock(r) PROVE TypeOK'
  <2>1. PICK s \in now - Late .. now + Ahead : stamp' = [stamp EXCEPT ![r] = s]
    BY <1>1 DEF ReadClock
  <2>2. s \in Nat
    BY DEF TypeOK, Clocks
  <2>. QED
    BY <1>1, <2>1, <2>2 DEF ReadClock, Becomes, TypeOK, State
<1>2. ASSUME NEW r \in Request, Admit(r) PROVE TypeOK'
  BY <1>2, <1>k DEF Admit, Add, Becomes, TypeOK, State
<1>3. ASSUME NEW r \in Request, Deny(r) PROVE TypeOK'
  BY <1>3, <1>k, ResetTimeIs DEF Deny, Purge, Becomes, TypeOK, State
<1>4. ASSUME NEW r \in Request, LoseReply(r) PROVE TypeOK'
  BY <1>4, <1>k DEF LoseReply, Add, Purge, TypeOK
<1>5. ASSUME NEW r \in Request, RaiseRedisError(r) PROVE TypeOK'
  BY <1>5 DEF RaiseRedisError, Becomes, TypeOK, State
<1>6. CASE Tick
  BY <1>6 DEF Tick, TypeOK
<1>7. CASE UNCHANGED vars
  BY <1>7 DEF vars, TypeOK
<1>. QED
  BY <1>1, <1>2, <1>3, <1>4, <1>5, <1>6, <1>7 DEF Next

-----------------------------------------------------------------------------
(* The rest of the invariant                                               *)

\* One evaluation of the script by r, whatever becomes of r and of its reply.
LEMMA ScriptStep ==
    ASSUME Inv, NEW r \in Request, Arrives(r), TypeOK',
           \/ HasRoom(r) /\ Add(r)
           \/ Purge(r),
           now' = now, stamp' = stamp,
           \A q \in Request : q # r => state'[q] = state[q] /\ reset'[q] = reset[q],
           state'[r] \in {"stamped", "denied"} \/ (state'[r] = "admitted" /\ Add(r)),
           state'[r] = "denied" => ~HasRoom(r) /\ Purge(r) /\ reset'[r] = ResetTime(r)
    PROVE  Inv'
<1> USE ConstantsAssumption
<1>1. TypeOK /\ Clocks /\ state[r] = "stamped" /\ now <= stamp[r] + Late
  BY DEF Inv, Arrives
<1>k. /\ Kept(r) \subseteq zset
      /\ \A e \in zset : Recent(e) => e \in Kept(r)
      /\ \A q \in Request : now < reset[q] - Ahead => Blocking(q) \subseteq Kept(r)
  BY <1>1, KeptIs
<1>z. Kept(r) \subseteq zset' /\ zset' \subseteq Kept(r) \cup {r}
  BY DEF Add, Purge
<1>n. \A q \in Request : /\ stamp[q] \in Nat /\ ran[q] \in Nat \cup {-1} /\ now \in Nat
                        /\ expires \in Nat /\ reset[q] \in Nat
  BY <1>1 DEF TypeOK
<1>r. \A q \in Request : q # r => ran'[q] = ran[q]
  BY <1>1 DEF Add, Purge, TypeOK
<1>2. Clocks'
  <2>1. CASE Purge(r)
    <3>1. \A q \in Request : Added(q)' <=> Added(q)
      BY <2>1 DEF Purge, Added
    <3>2. ran' = ran /\ expires' = expires
      BY <2>1 DEF Purge
    <3>3. \A e \in zset' : Added(e)'
      BY <1>1, <1>k, <2>1, <3>1 DEF Clocks, Purge, TypeOK
    <3>4. Add(r) => ran'[r] = now
      BY <1>1 DEF Add, TypeOK
    <3>5. /\ state'[r] # "new" /\ state'[r] # "degraded"
          /\ state'[r] = "admitted" => Added(r)'
      BY <1>n, <3>4 DEF Added
    <3>6. stamp'[r] <= now' + Ahead /\ now' >= Late
      BY <1>1 DEF Clocks
    <3>7. \A q \in Request : Added(q)' => /\ ran'[q] <= now'
                                          /\ stamp'[q] <= ran'[q] + Ahead
                                          /\ ran'[q] <= stamp'[q] + Late
                                          /\ ran'[q] + Window <= expires'
      BY <1>1, <3>1, <3>2 DEF Clocks
    <3>8. \A q \in Request : q # r => /\ state'[q] = "new" => ran'[q] = -1
                                      /\ state'[q] = "admitted" => Added(q)'
                                      /\ state'[q] = "degraded" => FailOpen
                                      /\ state'[q] = "stamped" => stamp'[q] <= now' + Ahead
      BY <1>1, <3>1, <3>2 DEF Clocks
    <3>. QED
      BY <3>3, <3>5, <3>6, <3>7, <3>8 DEF Clocks, Added
  <2>2. CASE Add(r)
    <3>1. ran'[r] = now /\ expires' = now + Window
      BY <1>1, <2>2 DEF Add, TypeOK
    <3>2. \A q \in Request : Added(q) => ran[q] + Window <= expires'
      BY <1>1, <1>n, <3>1 DEF Clocks, Added
    <3>3. \A q \in Request : q # r => (Added(q)' <=> Added(q))
      BY <1>r DEF Added
    <3>4. Added(r)'
      BY <1>n, <3>1 DEF Added
    <3>5. stamp[r] <= now + Ahead
      BY <1>1 DEF Clocks
    <3>6. \A e \in zset' : Added(e)'
      BY <1>1, <1>k, <1>z, <3>3, <3>4 DEF Clocks, TypeOK
    <3>7. /\ state'[r] # "new" /\ state'[r] # "degraded"
          /\ ran'[r] <= now' /\ stamp'[r] <= ran'[r] + Ahead /\ ran'[r] <= stamp'[r] + Late
          /\ ran'[r] + Window <= expires' /\ stamp'[r] <= now' + Ahead
      BY <1>1, <1>n, <3>1, <3>5
    <3>8. \A q \in Request : q # r =>
             /\ state'[q] = "new" => ran'[q] = -1
             /\ state'[q] = "admitted" => Added(q)'
             /\ state'[q] = "degraded" => FailOpen
             /\ state'[q] = "stamped" => stamp'[q] <= now' + Ahead
             /\ Added(q)' => /\ ran'[q] <= now'
                             /\ stamp'[q] <= ran'[q] + Ahead
                             /\ ran'[q] <= stamp'[q] + Late
                             /\ ran'[q] + Window <= expires'
      BY <1>1, <1>r, <3>2, <3>3 DEF Clocks
    <3>9. now' >= Late
      BY <1>1 DEF Clocks
    <3>. QED
      BY <3>4, <3>6, <3>7, <3>8, <3>9 DEF Clocks, Added
  <2>. QED
    BY <2>1, <2>2
<1>3. Remembered'
  <2> SUFFICES ASSUME NEW q \in Request, Recent(q)' PROVE q \in zset'
    BY DEF Remembered
  <2>1. CASE q = r /\ Add(r)
    BY <2>1 DEF Add
  <2>2. CASE ~(q = r /\ Add(r))
    <3>1. ran'[q] = ran[q]
      BY <1>r, <2>2 DEF Purge
    <3>2. Recent(q)
      BY <3>1 DEF Recent, Added
    <3>. QED
      BY <1>k, <1>z, <3>2 DEF Inv, Remembered
  <2>. QED
    BY <2>1, <2>2
<1>4. StorageBounded'
  <2>1. IsFiniteSet(Kept(r)) /\ Cardinality(Kept(r)) \in Nat /\ Cardinality(Kept(r)) <= Cardinality(zset)
        /\ Cardinality(zset) \in Nat
    BY <1>1, <1>k, Finite DEF TypeOK
  <2>2. CASE Purge(r)
    BY <2>1, <2>2 DEF Purge, StorageBounded, Inv
  <2>3. CASE HasRoom(r) /\ Add(r)
    <3>0. Cardinality(Kept(r) \cup {r}) = IF r \in Kept(r) THEN Cardinality(Kept(r))
                                                         ELSE Cardinality(Kept(r)) + 1
      BY <2>1, FS_AddElement
    <3>1. Cardinality(Kept(r) \cup {r}) <= Cardinality(Kept(r)) + 1
      BY <2>1, <3>0
    <3>2. Cardinality(Kept(r) \cup {r}) \in Nat
      BY <2>1, <3>0
    <3>. QED
      BY <2>1, <2>3, <3>1, <3>2 DEF Add, HasRoom, StorageBounded
  <2>. QED
    BY <2>2, <2>3
<1>5. Promises'
  <2> SUFFICES ASSUME NEW q \in Request, Promised(q)' PROVE (Cardinality(Blocking(q)) >= Limit)'
    BY DEF Promises
  <2>0. zset' \subseteq Request
    BY DEF TypeOK
  <2>1. CASE q # r
    <3>1. Promised(q) /\ reset'[q] = reset[q]
      BY <2>1 DEF Promised
    <3>2. Blocking(q) \subseteq Blocking(q)'
      BY <1>k, <1>z, <3>1 DEF Promised, Blocking
    <3>3. Blocking(q)' \in SUBSET Request
      BY <2>0 DEF Blocking
    <3>4. PICK B, C : B = Blocking(q) /\ C = Blocking(q)'
      OBVIOUS
    <3>5. Cardinality(B) <= Cardinality(C) /\ Cardinality(B) \in Nat /\ Cardinality(C) \in Nat
      BY <3>2, <3>3, <3>4, Finite
    <3>6. Cardinality(B) >= Limit
      BY <3>1, <3>4 DEF Inv, Promises
    <3>. QED
      BY <3>4, <3>5, <3>6
  <2>2. CASE q = r
    <3>1. ~HasRoom(r) /\ zset' = Kept(r) /\ reset'[r] = ResetTime(r)
      BY <2>2 DEF Promised, Purge
    <3>2. Blocking(q)' = Kept(r)
      BY <1>1, <2>2, <3>1, ResetTimeIs DEF Blocking
    <3>3. Cardinality(Kept(r)) \in Nat
      BY <1>1, <1>k, Finite DEF TypeOK
    <3>. QED
      BY <3>1, <3>2, <3>3 DEF HasRoom
  <2>. QED
    BY <2>1, <2>2
<1>. QED
  BY <1>2, <1>3, <1>4, <1>5 DEF Inv

\* A step that leaves the sorted set, its expiry and the time alone, and turns no
\* request into an admitted or a denied one, keeps the invariant.
LEMMA QuietStep ==
    ASSUME Inv, TypeOK', NEW r \in Request, ReadClock(r) \/ RaiseRedisError(r)
    PROVE  Inv'
<1> USE ConstantsAssumption
<1>0. TypeOK /\ Clocks
  BY DEF Inv
<1>1. /\ now' = now /\ zset' = zset /\ expires' = expires /\ reset' = reset /\ ran' = ran
      /\ \A q \in Request : q # r => state'[q] = state[q] /\ stamp'[q] = stamp[q]
      /\ stamp'[r] \in Nat
  BY <1>0 DEF ReadClock, RaiseRedisError, Becomes, TypeOK
<1>2. \A e \in zset : stamp'[e] = stamp[e]
  <2>1. CASE ReadClock(r)
    <3>1. r \notin zset
      BY <1>0, <2>1 DEF ReadClock, Clocks, Added
    <3>. QED
      BY <1>0, <1>1, <3>1 DEF TypeOK
  <2>2. CASE RaiseRedisError(r)
    BY <2>2 DEF RaiseRedisError
  <2>. QED
    BY <2>1, <2>2
<1>3. /\ state'[r] = "stamped" => stamp'[r] <= now' + Ahead
      /\ state'[r] \in {"stamped", "degraded", "unavailable"}
      /\ state'[r] = "degraded" => FailOpen
  <2>1. CASE ReadClock(r)
    BY <1>0, <2>1 DEF ReadClock, Becomes, TypeOK
  <2>2. CASE RaiseRedisError(r)
    BY <1>0, <2>2 DEF RaiseRedisError, Becomes, TypeOK
  <2>. QED
    BY <2>1, <2>2
<1>4. Added(r) => stamp'[r] = stamp[r]
  BY <1>0 DEF ReadClock, RaiseRedisError, Clocks, Added
<1>5. Clocks'
  BY <1>0, <1>1, <1>3, <1>4 DEF Clocks, Added
<1>6. Remembered' /\ StorageBounded'
  BY <1>1 DEF Inv, Remembered, Recent, Added, StorageBounded
<1>7. Promises'
  <2> SUFFICES ASSUME NEW q \in Request, Promised(q)' PROVE (Cardinality(Blocking(q)) >= Limit)'
    BY DEF Promises
  <2>1. Promised(q)
    BY <1>1, <1>3 DEF Promised
  <2>2. Blocking(q)' = Blocking(q)
    BY <1>1, <1>2 DEF Blocking
  <2>. QED
    BY <2>1, <2>2 DEF Inv, Promises
<1>. QED
  BY <1>5, <1>6, <1>7 DEF Inv

LEMMA NextInv == Inv /\ [Next]_vars => Inv'
<1> SUFFICES ASSUME Inv, [Next]_vars PROVE Inv'
  OBVIOUS
<1> USE ConstantsAssumption
<1>0. TypeOK /\ Clocks /\ TypeOK'
  BY NextTypeOK DEF Inv
<1>1. ASSUME NEW r \in Request, ReadClock(r) \/ RaiseRedisError(r) PROVE Inv'
  BY <1>0, <1>1, QuietStep
<1>2. ASSUME NEW r \in Request, Admit(r) PROVE Inv'
  <2>1. /\ Arrives(r) /\ HasRoom(r) /\ Add(r) /\ now' = now /\ stamp' = stamp
        /\ state'[r] = "admitted"
        /\ \A q \in Request : q # r => state'[q] = state[q] /\ reset'[q] = reset[q]
    BY <1>0, <1>2 DEF Admit, Becomes, TypeOK
  <2>. QED
    BY <1>0, <2>1, ScriptStep
<1>3. ASSUME NEW r \in Request, Deny(r) PROVE Inv'
  <2>1. /\ Arrives(r) /\ ~HasRoom(r) /\ Purge(r) /\ now' = now /\ stamp' = stamp
        /\ state'[r] = "denied" /\ reset'[r] = ResetTime(r)
        /\ \A q \in Request : q # r => state'[q] = state[q] /\ reset'[q] = reset[q]
    BY <1>0, <1>3 DEF Deny, Becomes, TypeOK
  <2>. QED
    BY <1>0, <2>1, ScriptStep
<1>4. ASSUME NEW r \in Request, LoseReply(r) PROVE Inv'
  <2>1. /\ Arrives(r) /\ ((HasRoom(r) /\ Add(r)) \/ Purge(r)) /\ now' = now /\ stamp' = stamp
        /\ state'[r] = "stamped"
        /\ \A q \in Request : q # r => state'[q] = state[q] /\ reset'[q] = reset[q]
    BY <1>4 DEF LoseReply, Arrives
  <2>. QED
    BY <1>0, <2>1, ScriptStep
<1>5. CASE Tick
  <2>0. /\ now' = now + 1
        /\ UNCHANGED <<state, stamp, zset, expires, reset, ran>>
        /\ now \in Nat
    BY <1>0, <1>5 DEF Tick, TypeOK
  <2>1. Clocks'
    BY <1>0, <2>0 DEF Clocks, Added, TypeOK
  <2>2. \A q \in Request : Recent(q)' => Recent(q)
    BY <1>0, <2>0 DEF Recent, Added, TypeOK
  <2>3. Remembered' /\ StorageBounded'
    BY <2>0, <2>2 DEF Inv, Remembered, StorageBounded
  <2>4. Promises'
    <3> SUFFICES ASSUME NEW q \in Request, Promised(q)' PROVE (Cardinality(Blocking(q)) >= Limit)'
      BY DEF Promises
    <3>1. Promised(q)
      BY <1>0, <2>0 DEF Promised, TypeOK
    <3>2. Blocking(q)' = Blocking(q)
      BY <2>0 DEF Blocking
    <3>. QED
      BY <3>1, <3>2 DEF Inv, Promises
  <2>. QED
    BY <1>0, <2>1, <2>3, <2>4 DEF Inv
<1>6. CASE UNCHANGED vars
  BY <1>6 DEF vars, Inv, TypeOK, Clocks, Added, Remembered, Recent, StorageBounded, Promises,
              Promised, Blocking
<1>. QED
  BY <1>1, <1>2, <1>3, <1>4, <1>5, <1>6 DEF Next

THEOREM Invariance == Spec => []Inv
  BY InitInv, NextInv, PTL DEF Spec

-----------------------------------------------------------------------------
(* What the limiter promises                                               *)

\* Type correctness: every variable keeps its shape.
THEOREM TypeCorrectness == Spec => []TypeOK
  BY Invariance, PTL DEF Inv

\* The sorted set Redis stores never holds more than Limit members.
THEOREM BoundedStorage == Spec => []StorageBounded
  BY Invariance, PTL DEF Inv

\* Served requests that are recent in real time are all still in the sorted set.
LEMMA InvQuota == Inv => QuotaHolds
<1> SUFFICES ASSUME Inv PROVE QuotaHolds
  OBVIOUS
<1> USE ConstantsAssumption
<1> DEFINE Served == {r \in Request : Charged(r)}
<1>1. Served \subseteq zset
  BY DEF Inv, Clocks, Charged, Remembered, Recent
<1>2. zset \subseteq Request
  BY DEF Inv, TypeOK
<1>3. Cardinality(Served) <= Cardinality(zset) /\ Cardinality(zset) <= Limit
      /\ Cardinality(Served) \in Nat /\ Cardinality(zset) \in Nat
  <2> HIDE DEF Served
  <2>. QED
    BY <1>1, <1>2, Finite DEF Inv, StorageBounded
<1>. QED
  BY <1>3 DEF QuotaHolds

\* No more than Limit requests are served in any span of real time shorter than the
\* window by the clocks' uncertainty.
THEOREM QuotaSafety == Spec => []QuotaHolds
  BY Invariance, InvQuota, PTL

\* While a promise stands the members behind it fill the window of every other request.
LEMMA StepEarly ==
    ASSUME Inv, [Next]_vars, NEW q \in Request, NEW r \in Request,
           state[q] = "denied", state[r] = "stamped", state'[r] = "admitted"
    PROVE  now >= reset[q] - Ahead
<1> USE ConstantsAssumption
<1>0. TypeOK /\ Clocks
  BY DEF Inv
<1>1. Admit(r)
  <2>1. ~UNCHANGED vars /\ ~Tick
    BY DEF vars, Tick
  <2>2. PICK p \in Request : ReadClock(p) \/ Admit(p) \/ Deny(p) \/ LoseReply(p) \/ RaiseRedisError(p)
    BY <2>1 DEF Next
  <2>3. p = r /\ ~ReadClock(p) /\ ~Deny(p) /\ ~LoseReply(p) /\ ~RaiseRedisError(p)
    BY <1>0, <2>2 DEF ReadClock, Admit, Deny, LoseReply, RaiseRedisError, Becomes, TypeOK
  <2>. QED
    BY <2>2, <2>3
<1>2. SUFFICES ASSUME ~(now >= reset[q] - Ahead) PROVE FALSE
  OBVIOUS
<1>3. now < reset[q] - Ahead
  BY <1>0, <1>2 DEF TypeOK
<1>4. Blocking(q) \subseteq Kept(r) /\ Kept(r) \subseteq Request
  BY <1>0, <1>3, KeptIs DEF TypeOK
<1>5. PICK B, K : B = Blocking(q) /\ K = Kept(r)
  OBVIOUS
<1>6. Cardinality(B) <= Cardinality(K) /\ Cardinality(B) \in Nat /\ Cardinality(K) \in Nat
  BY <1>4, <1>5, Finite
<1>7. Cardinality(B) >= Limit
  BY <1>3, <1>5 DEF Inv, Promises, Promised
<1>8. Cardinality(K) < Limit
  BY <1>1, <1>5 DEF Admit, HasRoom
<1>. QED
  BY <1>6, <1>7, <1>8

\* Nobody gets in before the earliest time a denied request was told to wait for.
THEOREM WaitSafety == Spec => NoEarlyAdmission
<1>1. Inv /\ [Next]_vars =>
        [\A q, r \in Request :
            state[q] = "denied" /\ state[r] = "stamped" /\ state'[r] = "admitted" =>
              now >= reset[q] - Ahead]_vars
  BY StepEarly
<1>. QED
  BY <1>1, Invariance, PTL DEF Spec, NoEarlyAdmission

\* The members that keep a request out were all added in the window that ends now.
LEMMA StepDenied ==
    ASSUME Inv, [Next]_vars, NEW q \in Request, state[q] = "stamped", state'[q] = "denied"
    PROVE  Cardinality({r \in Request : ran[r] >= 0 /\ now - ran[r] < Window + Ahead + Late})
             >= Limit
<1> USE ConstantsAssumption
<1> DEFINE Took == {r \in Request : ran[r] >= 0 /\ now - ran[r] < Window + Ahead + Late}
<1>0. TypeOK /\ Clocks
  BY DEF Inv
<1>1. Deny(q)
  <2>1. ~UNCHANGED vars /\ ~Tick
    BY DEF vars, Tick
  <2>2. PICK p \in Request : ReadClock(p) \/ Admit(p) \/ Deny(p) \/ LoseReply(p) \/ RaiseRedisError(p)
    BY <2>1 DEF Next
  <2>3. p = q /\ ~ReadClock(p) /\ ~Admit(p) /\ ~LoseReply(p) /\ ~RaiseRedisError(p)
    BY <1>0, <2>2 DEF ReadClock, Admit, Deny, LoseReply, RaiseRedisError, Becomes, TypeOK
  <2>. QED
    BY <2>2, <2>3
<1>2. ASSUME NEW e \in Kept(q) PROVE e \in Took
  <2>1. e \in zset /\ e \in Request /\ stamp[e] > stamp[q] - Window
    BY <1>0 DEF Kept, KeptAt, Live, TypeOK
  <2>2. ran[e] >= 0 /\ stamp[e] <= ran[e] + Ahead /\ now <= stamp[q] + Late
    BY <1>0, <1>1, <2>1 DEF Clocks, Added, Deny, Arrives
  <2>3. stamp[e] \in Nat /\ stamp[q] \in Nat /\ ran[e] \in Nat \cup {-1} /\ now \in Nat
    BY <1>0, <2>1 DEF TypeOK
  <2>. QED
    BY <2>1, <2>2, <2>3
<1>3. Kept(q) \subseteq Took /\ Took \subseteq Request
  BY <1>2
<1> HIDE DEF Took
<1>4. PICK K : K = Kept(q)
  OBVIOUS
<1>5. Cardinality(K) <= Cardinality(Took) /\ Cardinality(K) \in Nat /\ Cardinality(Took) \in Nat
  BY <1>3, <1>4, Finite
<1>6. ~(Cardinality(K) < Limit)
  BY <1>1, <1>4 DEF Deny, HasRoom
<1>7. Cardinality(Took) >= Limit
  BY <1>5, <1>6
<1>. QED
  BY <1>7 DEF Took

\* A refusal is justified by Limit requests that took their place in the window.
THEOREM DenialSafety == Spec => DenialIsJustified
<1>1. Inv /\ [Next]_vars =>
        [\A q \in Request :
            state[q] = "stamped" /\ state'[q] = "denied" =>
              Cardinality({r \in Request : ran[r] >= 0 /\ now - ran[r] < Window + Ahead + Late})
                  >= Limit]_vars
  BY StepDenied
<1>. QED
  BY <1>1, Invariance, PTL DEF Spec, DenialIsJustified

-----------------------------------------------------------------------------
(* The refinement                                                          *)

\* What became of each request, as Quota sees it.
Fate == [r \in Request |-> IF state[r] \in {"new", "stamped"} THEN "waiting" ELSE state[r]]

\* The two instances of FiniteSets count alike.
LEMMA SameCardinality == \A S : Q!Cardinality(S) = Cardinality(S)
BY DEF Q!Cardinality, Cardinality, Q!IsFiniteSet, IsFiniteSet

LEMMA InitQuota == Init => Q!Init
BY ConstantsAssumption DEF Init, Q!Init

\* Recent admissions are in the sorted set, which had room for one more.
LEMMA AdmitQuota ==
    ASSUME Inv, TypeOK', NEW r \in Request, Admit(r)
    PROVE  Q!Next
<1> USE ConstantsAssumption
<1>0. TypeOK /\ Clocks /\ state[r] = "stamped"
  BY DEF Inv, Admit, Arrives
<1> DEFINE Counted == Q!Served \cap Q!Since(Window - (Ahead + Late))
<1>1. Counted \subseteq Kept(r)
  <2> SUFFICES ASSUME NEW e \in Counted PROVE e \in Kept(r)
    OBVIOUS
  <2>1. e \in Request /\ ran[e] >= 0 /\ now - ran[e] < Window - (Ahead + Late)
    BY DEF Q!Since, Q!Served
  <2>2. Recent(e)
    BY <1>0, <2>1 DEF Recent, Added, TypeOK
  <2>. QED
    BY <1>0, <2>1, <2>2, KeptIs DEF Inv, Remembered
<1>2. Kept(r) \subseteq Request
  BY DEF Kept, KeptAt, Live, Inv, TypeOK
<1> HIDE DEF Counted
<1>3. PICK K : K = Kept(r)
  OBVIOUS
<1>4. Cardinality(Counted) <= Cardinality(K) /\ Cardinality(Counted) \in Nat /\ Cardinality(K) \in Nat
  BY <1>1, <1>2, <1>3, Finite
<1>5. Cardinality(Counted) < Limit
  BY <1>3, <1>4 DEF Admit, HasRoom
<1>6. state' = [state EXCEPT ![r] = "admitted"] /\ ran' = [ran EXCEPT ![r] = now]
      /\ now' = now /\ reset' = reset
  BY DEF Admit, Add, Becomes
<1>7. ASSUME NEW q \in Request, Fate[q] = "denied" PROVE now >= reset[q] - Ahead
  <2>1. state[q] = "denied"
    BY <1>7 DEF Fate
  <2>2. [Next]_vars /\ state'[r] = "admitted"
    BY <1>0, <1>6 DEF Next, TypeOK
  <2>. QED
    BY <1>0, <2>1, <2>2, StepEarly
<1>8. Fate' = [Fate EXCEPT ![r] = "admitted"]
  BY <1>0, <1>6 DEF Fate, TypeOK
<1>9. Fate[r] = "waiting"
  BY <1>0 DEF Fate
<1>10. Q!Admit(r)
  BY <1>5, <1>6, <1>7, <1>8, SameCardinality DEF Q!Admit, Q!Becomes, Fate, Counted
<1>. QED
  BY <1>9, <1>10 DEF Q!Next, Fate

\* The members that keep r out took a place in the window.
LEMMA DenyQuota ==
    ASSUME Inv, TypeOK', NEW r \in Request, Deny(r)
    PROVE  Q!Next
<1> USE ConstantsAssumption
<1>0. TypeOK /\ state[r] = "stamped"
  BY DEF Inv, Deny, Arrives
<1>1. state' = [state EXCEPT ![r] = "denied"] /\ now' = now /\ ran' = ran
      /\ reset' = [reset EXCEPT ![r] = ResetTime(r)]
  BY DEF Deny, Purge, Becomes
<1>2. state'[r] = "denied" /\ [Next]_vars
  BY <1>0, <1>1 DEF Next, TypeOK
<1>3. Cardinality({q \in Request : ran[q] >= 0 /\ now - ran[q] < Window + Ahead + Late}) >= Limit
  BY <1>0, <1>2, StepDenied
<1>4. Window + (Ahead + Late) = Window + Ahead + Late
  OBVIOUS
<1>5. Cardinality(Q!Since(Window + (Ahead + Late))) >= Limit
  BY <1>3, <1>4, SameCardinality DEF Q!Since
<1>6. Fate' = [Fate EXCEPT ![r] = "denied"] /\ Fate[r] = "waiting"
  BY <1>0, <1>1 DEF Fate, TypeOK
<1>7. reset' \in [Request -> Nat] /\ \A q \in Request \ {r} : reset'[q] = reset[q]
  BY <1>0, <1>1 DEF TypeOK
<1>8. Q!Deny(r)
  BY <1>1, <1>5, <1>6, <1>7, SameCardinality DEF Q!Deny, Q!Becomes, Fate
<1>. QED
  BY <1>6, <1>8 DEF Q!Next, Fate

\* Every step is a step of Quota or leaves what Quota sees unchanged.
LEMMA StepQuota ==
    ASSUME Inv, [Next]_vars
    PROVE  [Q!Next]_(Q!vars)
<1> USE ConstantsAssumption
<1>0. TypeOK /\ TypeOK'
  BY NextTypeOK DEF Inv
<1>1. ASSUME NEW r \in Request, ReadClock(r) PROVE UNCHANGED Q!vars
  <2>1. Fate' = Fate
    BY <1>0, <1>1 DEF ReadClock, Becomes, Fate, TypeOK
  <2>. QED
    BY <1>1, <2>1 DEF ReadClock, Q!vars, Fate
<1>2. ASSUME NEW r \in Request, Admit(r) PROVE Q!Next
  BY <1>0, <1>2, AdmitQuota
<1>3. ASSUME NEW r \in Request, Deny(r) PROVE Q!Next
  BY <1>0, <1>3, DenyQuota
<1>4. ASSUME NEW r \in Request, LoseReply(r) PROVE [Q!Next]_(Q!vars)
  <2>1. CASE Add(r)
    <3>1. Fate[r] = "waiting" /\ Fate' = Fate
      BY <1>4 DEF LoseReply, Arrives, Fate
    <3>2. Q!Waste(r)
      BY <1>4, <2>1, <3>1 DEF LoseReply, Add, Q!Waste, Fate
    <3>. QED
      BY <3>1, <3>2 DEF Q!Next, Fate
  <2>2. CASE Purge(r)
    BY <1>4, <2>2 DEF LoseReply, Purge, Q!vars
  <2>. QED
    BY <1>4, <2>1, <2>2 DEF LoseReply
<1>5. ASSUME NEW r \in Request, RaiseRedisError(r) PROVE Q!Next
  <2>1. Fate[r] = "waiting"
        /\ Fate' = [Fate EXCEPT ![r] = IF FailOpen THEN "degraded" ELSE "unavailable"]
    BY <1>0, <1>5 DEF RaiseRedisError, Becomes, Fate, TypeOK
  <2>2. Q!GiveUp(r)
    BY <1>5, <2>1 DEF RaiseRedisError, Q!GiveUp, Q!Becomes, Fate
  <2>. QED
    BY <2>1, <2>2 DEF Q!Next, Fate
<1>6. CASE Tick
  BY <1>6 DEF Tick, Q!Tick, Q!Next
<1>7. CASE UNCHANGED vars
  BY <1>7 DEF vars, Q!vars
<1>. QED
  BY <1>1, <1>2, <1>3, <1>4, <1>5, <1>6, <1>7 DEF Next

\* The Redis limiter implements Quota: whatever the clocks, lost replies and outages,
\* requests are served, refused and told to wait as the abstract limiter may.
THEOREM Refinement == Spec => ImplementsQuota
<1>1. Init => Q!Init
  BY InitQuota
<1>2. Inv /\ [Next]_vars => [Q!Next]_(Q!vars)
  BY StepQuota
<1>. QED
  BY <1>1, <1>2, Invariance, PTL DEF Spec, ImplementsQuota, Q!Spec
=============================================================================
