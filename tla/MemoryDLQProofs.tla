--------------------------- MODULE MemoryDLQProofs ---------------------------
(***************************************************************************)
(* Proofs about MemoryDLQ: ingestion with either dead-letter queue.        *)
(***************************************************************************)
EXTENDS IngestionProofs, MemoryDLQ, FiniteSetTheorems, SequenceTheorems

-----------------------------------------------------------------------------
(* Operators                                                               *)

\* pop(index): one element less, and the ones behind it move up.
LEMMA RemoveAtFacts ==
    ASSUME NEW S, NEW s \in Seq(S), NEW i \in 1 .. Len(s)
    PROVE  /\ RemoveAt(s, i) \in Seq(S)
           /\ Len(RemoveAt(s, i)) = Len(s) - 1
           /\ \A k \in 1 .. Len(s) - 1 : RemoveAt(s, i)[k] = IF k < i THEN s[k] ELSE s[k + 1]
<1> DEFINE front == SubSeq(s, 1, i - 1)
           back == SubSeq(s, i + 1, Len(s))
<1>1. /\ front \in Seq(S) /\ Len(front) = i - 1
      /\ \A k \in 1 .. i - 1 : front[k] = s[k]
  OBVIOUS
<1>2. /\ back \in Seq(S) /\ Len(back) = Len(s) - i
      /\ \A k \in 1 .. Len(s) - i : back[k] = s[i + k]
  OBVIOUS
<1>3. RemoveAt(s, i) = front \o back
  BY DEF RemoveAt
<1>0. Len(s) \in Nat
  OBVIOUS
<1> HIDE DEF front, back
<1>4. /\ front \o back \in Seq(S)
      /\ Len(front \o back) = Len(s) - 1
      /\ \A k \in 1 .. Len(s) - 1 :
            (front \o back)[k] = IF k < i THEN front[k] ELSE back[k - (i - 1)]
  <2>1. /\ front \o back \in Seq(S)
        /\ Len(front \o back) = Len(front) + Len(back)
        /\ \A k \in 1 .. Len(front) + Len(back) :
              (front \o back)[k] = IF k <= Len(front) THEN front[k] ELSE back[k - Len(front)]
    BY <1>1, <1>2, ConcatProperties, Zenon
  <2>. QED
    BY <1>0, <1>1, <1>2, <2>1
<1>5. ASSUME NEW k \in 1 .. Len(s) - 1
      PROVE  (front \o back)[k] = IF k < i THEN s[k] ELSE s[k + 1]
  <2>1. CASE k < i
    BY <1>1, <1>4, <2>1
  <2>2. CASE ~(k < i)
    <3>1. k - (i - 1) \in 1 .. Len(s) - i /\ i + (k - (i - 1)) = k + 1
      BY <2>2
    <3>. QED
      BY <1>2, <1>4, <2>2, <3>1
  <2>. QED
    BY <2>1, <2>2
<1>. QED
  BY <1>3, <1>4, <1>5

\* Of the members only the removed one may be gone.
LEMMA RemoveAtMembers ==
    ASSUME NEW S, NEW s \in Seq(S), NEW i \in 1 .. Len(s)
    PROVE  /\ ToSet(RemoveAt(s, i)) \subseteq ToSet(s)
           /\ \A q \in 1 .. Len(s) : q # i => s[q] \in ToSet(RemoveAt(s, i))
<1> DEFINE r == RemoveAt(s, i)
<1>1. /\ r \in Seq(S) /\ Len(r) = Len(s) - 1
      /\ \A k \in 1 .. Len(s) - 1 : r[k] = IF k < i THEN s[k] ELSE s[k + 1]
  BY RemoveAtFacts
<1> HIDE DEF r
<1>2. DOMAIN r = 1 .. Len(s) - 1 /\ DOMAIN s = 1 .. Len(s) /\ Len(s) \in Nat
  BY <1>1
<1>3. \A k \in DOMAIN r : r[k] \in ToSet(s)
  <2> TAKE k \in DOMAIN r
  <2>1. CASE k < i
    BY <1>1, <1>2, <2>1 DEF ToSet
  <2>2. CASE ~(k < i)
    BY <1>1, <1>2, <2>2 DEF ToSet
  <2>. QED
    BY <2>1, <2>2
<1>4. ASSUME NEW q \in 1 .. Len(s), q # i PROVE s[q] \in ToSet(r)
  <2>1. CASE q < i
    BY <1>1, <1>2, <2>1 DEF ToSet
  <2>2. CASE q > i
    <3>1. q - 1 \in DOMAIN r /\ r[q - 1] = s[q]
      BY <1>1, <1>2, <2>2
    <3>. QED
      BY <3>1 DEF ToSet
  <2>. QED
    BY <1>4, <2>1, <2>2
<1>. QED
  BY <1>3, <1>4 DEF ToSet, r

LEMMA AppendMembers ==
    ASSUME NEW S, NEW s \in Seq(S), NEW e \in S
    PROVE  ToSet(Append(s, e)) = ToSet(s) \cup {e}
<1>1. /\ Len(s) \in Nat /\ DOMAIN s = 1 .. Len(s)
      /\ DOMAIN Append(s, e) = 1 .. Len(s) + 1
      /\ \A k \in 1 .. Len(s) + 1 : Append(s, e)[k] = IF k = Len(s) + 1 THEN e ELSE s[k]
  OBVIOUS
<1>2. \A k \in DOMAIN Append(s, e) : Append(s, e)[k] \in ToSet(s) \cup {e}
  BY <1>1 DEF ToSet
<1>3. \A k \in DOMAIN s : s[k] \in ToSet(Append(s, e))
  BY <1>1 DEF ToSet
<1>4. e \in ToSet(Append(s, e))
  BY <1>1 DEF ToSet
<1>. QED
  BY <1>2, <1>3, <1>4 DEF ToSet

-----------------------------------------------------------------------------
(* The list of the in-memory queue                                         *)

\* InMemoryDLQ replays within one handler, so no process is ever half-way in one.
MemoryOK ==
    inMemory =>
        /\ entries \in Seq(Entry)
        /\ dlq = ToSet(entries)
        /\ \A a \in Api : api[a].pc \in {"idle", "enqueue"}

LEMMA InitMemoryOK == EitherInit => MemoryOK
  BY DEF EitherInit, Init, MemoryOK, IdleApi, ToSet

LEMMA EitherStep ==
    ASSUME [EitherNext]_eitherVars
    PROVE  /\ inMemory' = inMemory
           /\ \/ /\ [Next]_vars /\ entries' = entries
                 /\ inMemory => dlq' = dlq
              \/ inMemory /\ \E w \in Worker : WriteInMemory(w)
              \/ inMemory /\ \E a \in Api, t \in Tenant, p \in DOMAIN entries : ReplayInMemory(a, t, p)
  BY DEF EitherNext, eitherVars, MemoryStep, ListReplay, Next, vars, Continue

\* dlq.write appends one entry, of the worker's job.
LEMMA WriteFacts ==
    ASSUME TypeOK, MemoryOK, inMemory, NEW w \in Worker, WriteInMemory(w)
    PROVE  \E e \in Entry :
              /\ e.job = worker[w].job /\ e.stage = worker[w].pc
              /\ worker[w].pc # "idle" /\ e.job \in Job
              /\ entries' = Append(entries, e)
              /\ dlq' = dlq \cup {e}
<1> DEFINE e == [id |-> Len(entries) + 1, job |-> worker[w].job, stage |-> worker[w].pc]
<1>1. worker[w].pc \in Stage /\ worker[w].pc # "idle" /\ worker[w].job \in Job
  BY BusyType DEF WriteInMemory, Stage
<1>2. e \in Entry
  BY <1>1 DEF MemoryOK, Entry
<1>3. entries' = Append(entries, e) /\ dlq' = ToSet(entries')
  BY DEF WriteInMemory, SetEntries
<1>4. dlq' = dlq \cup {e}
  BY <1>2, <1>3, AppendMembers DEF MemoryOK
<1>5. e.job = worker[w].job /\ e.stage = worker[w].pc
  OBVIOUS
<1>. QED
  BY <1>1, <1>2, <1>3, <1>4, <1>5

\* replay takes one entry out of the list and puts its job, one retry later, on the stream.
LEMMA ReplayFacts ==
    ASSUME TypeOK, MemoryOK, inMemory, NEW a \in Api, NEW t \in Tenant, NEW p \in DOMAIN entries,
           ReplayInMemory(a, t, p)
    PROVE  /\ p \in 1 .. Len(entries)
           /\ entries[p] \in dlq /\ entries[p].job \in Job /\ entries[p].job.retry < MaxRetry
           /\ entries' = RemoveAt(entries, p) /\ entries' \in Seq(Entry) /\ Len(entries') = Len(entries) - 1
           /\ dlq' = ToSet(entries') /\ dlq' \subseteq dlq
           /\ \A f \in dlq : f # entries[p] => f \in dlq'
<1>1. /\ entries \in Seq(Entry) /\ DOMAIN entries = 1 .. Len(entries) /\ p \in 1 .. Len(entries)
      /\ dlq = ToSet(entries)
  BY DEF MemoryOK
<1>2. entries[p] \in dlq /\ entries[p] \in Entry
  BY <1>1 DEF ToSet
<1>3. entries[p].job \in Job /\ entries[p].job.retry < MaxRetry
  BY <1>2 DEF Entry, ReplayInMemory
<1>4. entries' = RemoveAt(entries, p) /\ dlq' = ToSet(entries')
  BY DEF ReplayInMemory, SetEntries, Without
<1>5. entries' \in Seq(Entry) /\ Len(entries') = Len(entries) - 1
  BY <1>1, <1>4, RemoveAtFacts, Zenon
<1>6. /\ dlq' \subseteq dlq
      /\ \A q \in 1 .. Len(entries) : q # p => entries[q] \in dlq'
  BY <1>1, <1>4, RemoveAtMembers, Zenon
<1>7. \A f \in dlq : f # entries[p] => f \in dlq'
  BY <1>1, <1>6 DEF ToSet
<1>. QED
  BY <1>1, <1>2, <1>3, <1>4, <1>5, <1>6, <1>7

LEMMA EitherTypeOK == TypeOK /\ MemoryOK /\ [EitherNext]_eitherVars => TypeOK'
<1> SUFFICES ASSUME TypeOK, MemoryOK, [EitherNext]_eitherVars PROVE TypeOK'
  OBVIOUS
<1>1. ASSUME inMemory, NEW w \in Worker, WriteInMemory(w) PROVE TypeOK'
  <2>1. dlq' \subseteq Entry /\ worker[w].pc # "idle" /\ "ack" \in WorkerPc
    BY <1>1, WriteFacts DEF TypeOK, WorkerPc
  <2>2. /\ worker' \in [Worker -> WorkerState]
        /\ \A v \in Worker : worker'[v].pc # "idle" => worker'[v].job \in Job
    BY <1>1, <2>1, GotoType DEF WriteInMemory
  <2>. QED
    BY <1>1, <2>1, <2>2 DEF WriteInMemory, TypeOK, WorkerState
<1>2. ASSUME inMemory, NEW a \in Api, NEW t \in Tenant, NEW p \in DOMAIN entries, ReplayInMemory(a, t, p)
      PROVE  TypeOK'
  <2>1. dlq' \subseteq Entry
    BY <1>2, ReplayFacts DEF TypeOK
  <2>2. stream' \in [Job -> Nat]
    <3>1. PICK job \in Job : job = Retried(entries[p].job)
      BY <1>2, ReplayFacts, RetriedType
    <3>. QED
      BY <1>2, <3>1 DEF ReplayInMemory, Put, TypeOK
  <2>. QED
    BY <1>2, <2>1, <2>2 DEF ReplayInMemory, TypeOK
<1>. QED
  BY <1>1, <1>2, EitherStep, NextTypeOK

LEMMA NextMemoryOK == TypeOK /\ MemoryOK /\ [EitherNext]_eitherVars => MemoryOK'
<1> SUFFICES ASSUME TypeOK, MemoryOK, [EitherNext]_eitherVars, inMemory
             PROVE  /\ entries' \in Seq(Entry)
                    /\ dlq' = ToSet(entries')
                    /\ \A a \in Api : api'[a].pc \in {"idle", "enqueue"}
  BY EitherStep DEF MemoryOK
<1>1. ASSUME NEW w \in Worker, WriteInMemory(w)
      PROVE  entries' \in Seq(Entry) /\ dlq' = ToSet(entries') /\ api' = api
  BY <1>1, WriteFacts DEF WriteInMemory, SetEntries, MemoryOK
<1>2. ASSUME NEW a \in Api, NEW t \in Tenant, NEW p \in DOMAIN entries, ReplayInMemory(a, t, p)
      PROVE  entries' \in Seq(Entry) /\ dlq' = ToSet(entries') /\ api' = api
  BY <1>2, ReplayFacts DEF ReplayInMemory
<1>3. ASSUME NEW a \in Api, Upload(a) \/ Enqueue(a) \/ ApiAbort(a)
      PROVE  \A b \in Api : api'[b].pc \in {"idle", "enqueue"}
  <2>1. \A b \in Api : b # a => api'[b] = api[b]
    BY <1>3 DEF Upload, Store, Enqueue, ApiAbort, TypeOK
  <2>2. CASE Upload(a)
    BY <2>1, <2>2 DEF Upload, Store, TypeOK, MemoryOK
  <2>3. CASE Enqueue(a) \/ ApiAbort(a)
    BY <2>1, <2>3 DEF Enqueue, ApiAbort, IdleApi, TypeOK, MemoryOK
  <2>. QED
    BY <1>3, <2>2, <2>3
<1>4. ASSUME NEW w \in Worker, Work(w) \/ Failure(w) PROVE api' = api
  BY <1>4 DEF Work, Failure, Take, Load, Mark, Reload, Index, Finish, Fail, Bury, Ack,
              Raise, IndexFails, FinishReplyLost, BuryAgain, WorkerAbort
<1>. QED
  BY <1>1, <1>2, <1>3, <1>4 DEF EitherNext, MemoryStep, ListReplay, eitherVars, vars, MemoryOK

\* Every variable keeps its shape, whichever queue the service has.
THEOREM EitherTypeCorrectness == EitherSpec => [](TypeOK /\ MemoryOK)
<1>1. EitherInit => TypeOK /\ MemoryOK
  BY InitTypeOK, InitMemoryOK DEF EitherInit
<1>. QED
  BY <1>1, EitherTypeOK, NextMemoryOK, PTL DEF EitherSpec

\* Though ids are given again, a replay from the list takes out one entry, and the job of
\* whatever entry is gone is back on the stream: no entry of this or another tenant that
\* had the same id goes with it.
THEOREM ReplayMoves == EitherSpec => ReplayMovesOneEntry
<1>1. TypeOK /\ MemoryOK /\ [EitherNext]_eitherVars =>
        [inMemory =>
          /\ Len(entries') >= Len(entries) - 1
          /\ \A e \in dlq : e \notin dlq' =>
                stream'[Retried(e.job)] = stream[Retried(e.job)] + 1]_eitherVars
  <2> SUFFICES ASSUME TypeOK, MemoryOK, [EitherNext]_eitherVars, inMemory
               PROVE  /\ Len(entries') >= Len(entries) - 1
                      /\ \A e \in dlq : e \notin dlq' =>
                            stream'[Retried(e.job)] = stream[Retried(e.job)] + 1
    OBVIOUS
  <2>0. Len(entries) \in Nat
    BY DEF MemoryOK
  <2>1. ASSUME NEW w \in Worker, WriteInMemory(w)
        PROVE  Len(entries') >= Len(entries) - 1 /\ dlq \subseteq dlq'
    BY <2>0, <2>1, WriteFacts DEF MemoryOK
  <2>2. ASSUME NEW a \in Api, NEW t \in Tenant, NEW p \in DOMAIN entries, ReplayInMemory(a, t, p)
        PROVE  /\ Len(entries') >= Len(entries) - 1
               /\ \A e \in dlq : e \notin dlq' =>
                      stream'[Retried(e.job)] = stream[Retried(e.job)] + 1
    <3>1. /\ Len(entries') = Len(entries) - 1 /\ entries[p].job \in Job /\ entries[p].job.retry < MaxRetry
          /\ \A e \in dlq : e \notin dlq' => e = entries[p]
      BY <2>2, ReplayFacts
    <3>2. PICK job \in Job : job = Retried(entries[p].job)
      BY <3>1, RetriedType
    <3>3. stream'[job] = stream[job] + 1
      BY <2>2, <3>2 DEF ReplayInMemory, Put, TypeOK
    <3>. QED
      BY <2>0, <3>1, <3>2, <3>3
  <2>3. CASE entries' = entries /\ dlq' = dlq
    BY <2>0, <2>3
  <2>. QED
    BY <2>1, <2>2, <2>3, EitherStep
<1>. QED
  BY <1>1, EitherTypeCorrectness, PTL DEF EitherSpec, ReplayMovesOneEntry

-----------------------------------------------------------------------------
(* Jobs, tenants and losses, whichever queue the service has               *)

LEMMA EitherSoundness ==
    TypeOK /\ MemoryOK /\ Soundness /\ [EitherNext]_eitherVars => Soundness'
<1> SUFFICES ASSUME TypeOK, MemoryOK, Soundness, [EitherNext]_eitherVars PROVE Soundness'
  OBVIOUS
<1>1. ASSUME inMemory, NEW w \in Worker, WriteInMemory(w) PROVE Soundness'
  <2>1. /\ documents' = documents /\ stream' = stream /\ api' = api
        /\ \A v \in Worker : v # w => worker'[v] = worker[v]
        /\ worker'[w].pc = "ack" /\ worker'[w].job = worker[w].job
    BY <1>1 DEF WriteInMemory, Goto, TypeOK
  <2>2. PICK e \in Entry : /\ dlq' = dlq \cup {e} /\ worker[w].pc # "idle"
                            /\ e.job = worker[w].job /\ e.stage = worker[w].pc
    BY <1>1, WriteFacts
  <2>3. \A job : Sound(job) => Sound(job)'
    BY <2>1 DEF Sound, Stored, Stray
  <2>4. EntrySound(e)'
    BY <2>2, <2>3 DEF Soundness, WorkerSound, EntrySound, Stray
  <2>5. \A f \in dlq : EntrySound(f)'
    BY <2>3 DEF Soundness, EntrySound, Stray
  <2>6. WorkerSound(w)'
    BY <2>1, <2>2, <2>3 DEF Soundness, WorkerSound, Past
  <2>7. \A v \in Worker : v # w => WorkerSound(v)'
    BY <2>1, <2>3 DEF Soundness, WorkerSound, DocOf, Stored, Stray
  <2>8. (\A a \in Api : ApiSound(a)') /\ \A job \in Job : stream'[job] > 0 => Sound(job)'
    BY <2>1, <2>3 DEF Soundness, ApiSound
  <2>. QED
    BY <2>2, <2>4, <2>5, <2>6, <2>7, <2>8 DEF Soundness
<1>2. ASSUME inMemory, NEW a \in Api, NEW t \in Tenant, NEW p \in DOMAIN entries, ReplayInMemory(a, t, p)
      PROVE  Soundness'
  <2>1. documents' = documents /\ api' = api /\ worker' = worker /\ dlq' \subseteq dlq
    BY <1>2, ReplayFacts DEF ReplayInMemory
  <2>2. \A job : Sound(job) => Sound(job)'
    BY <2>1 DEF Sound, Stored, Stray
  <2>3. PICK job \in Job : job = Retried(entries[p].job) /\ Sound(job)
    BY <1>2, ReplayFacts, RetriedType, RetriedSound DEF Soundness, EntrySound
  <2>4. \A j \in Job : stream'[j] > 0 => stream[j] > 0 \/ j = job
    BY <1>2, <2>3 DEF ReplayInMemory, Put, TypeOK
  <2>5. \A j \in Job : stream'[j] > 0 => Sound(j)'
    BY <2>2, <2>3, <2>4 DEF Soundness
  <2>6. \A w \in Worker : WorkerSound(w)'
    BY <2>1, <2>2 DEF Soundness, WorkerSound, DocOf, Stored, Stray
  <2>7. \A b \in Api : ApiSound(b)'
    BY <2>1, <2>2 DEF Soundness, ApiSound
  <2>8. \A e \in dlq' : EntrySound(e)'
    BY <2>1, <2>2 DEF Soundness, EntrySound, Stray
  <2>. QED
    BY <2>5, <2>6, <2>7, <2>8 DEF Soundness
<1>. QED
  BY <1>1, <1>2, EitherStep, NextSoundness

\* A tenant that asks for an id of the list, which entries of several tenants may have, moves
\* an entry of its own with that id and is answered with its job.  No other tenant's entry
\* goes, and no other tenant's job is queued.
THEOREM ReplayTenancy == EitherSpec => ReplaysStayInTenant
<1>1. ASSUME TypeOK, MemoryOK, EitherNext, replayed' # NoReplay
      PROVE  /\ \E e \in dlq : /\ e.id = replayed'.id /\ e.job.tenant = replayed'.caller
                              /\ replayed'.job = Retried(e.job)
             /\ \A e \in dlq : e \notin dlq' => e.job.tenant = replayed'.caller
             /\ \A j \in Job : stream'[j] # stream[j] => j.tenant = replayed'.caller
  <2>1. PICK a \in Api, t \in Tenant, p \in DOMAIN entries : inMemory /\ ReplayInMemory(a, t, p)
    BY <1>1 DEF EitherNext, ListReplay
  <2>2. PICK e \in dlq : e = entries[p] /\ e.job \in Job /\ e.job.retry < MaxRetry
    BY <1>1, <2>1, ReplayFacts
  <2>3. e.job.tenant = t
    BY <2>1, <2>2 DEF ReplayInMemory, Finds
  <2>4. PICK job \in Job : job = Retried(e.job) /\ job.tenant = t
    BY <2>2, <2>3, RetriedType
  <2>5. replayed' = [caller |-> t, id |-> e.id, job |-> job]
    BY <2>1, <2>2, <2>4 DEF ReplayInMemory
  <2>6. \A f \in dlq : f \notin dlq' => f.job.tenant = t
    BY <1>1, <2>1, <2>2, <2>3, ReplayFacts
  <2>7. \A j \in Job : stream'[j] # stream[j] => j = job
    BY <1>1, <2>1, <2>2, <2>4 DEF ReplayInMemory, Put, TypeOK
  <2>. QED
    BY <2>2, <2>3, <2>4, <2>5, <2>6, <2>7
<1>2. TypeOK /\ MemoryOK /\ [EitherNext]_eitherVars =>
        [LET r == replayed'
         IN  r # NoReplay =>
                /\ \E e \in dlq : /\ e.id = r.id /\ e.job.tenant = r.caller
                                 /\ r.job = Retried(e.job)
                /\ \A e \in dlq : e \notin dlq' => e.job.tenant = r.caller
                /\ \A j \in Job : stream'[j] # stream[j] => j.tenant = r.caller]_eitherVars
  BY <1>1
<1>. QED
  BY <1>2, EitherTypeCorrectness, PTL DEF EitherSpec, ReplaysStayInTenant

\* Whichever queue the service has, a job names a stored document of its tenant, or one a
\* stray job names, and a document is read and a dead letter of Redis replayed only for the
\* tenant it belongs to.
THEOREM EitherOwnership == EitherSpec => [](JobsNameStoredDocuments /\ TenantIsolation)
<1>1. EitherInit => Soundness
  BY InitSoundness DEF EitherInit
<1>. QED
  BY <1>1, EitherSoundness, SoundnessIsBoth, EitherTypeCorrectness, PTL DEF EitherSpec

\* Redis never gives an id twice; the list does.
EitherLinked == ~inMemory => Linked

LEMMA EitherLinkedStays ==
    TypeOK /\ EitherLinked /\ [EitherNext]_eitherVars => EitherLinked'
  BY NextLinked DEF EitherLinked, EitherNext, eitherVars, vars, Linked

LEMMA EitherPoints == MemoryOK /\ EitherLinked => Points
  BY LinkedPoints DEF MemoryOK, EitherLinked, Points

LEMMA EitherNoSilentLoss ==
    TypeOK /\ MemoryOK /\ Soundness /\ Points /\ NoSilentLoss /\ [EitherNext]_eitherVars
        => NoSilentLoss'
<1> SUFFICES ASSUME TypeOK, MemoryOK, Soundness, Points, NoSilentLoss, [EitherNext]_eitherVars
             PROVE  NoSilentLoss'
  OBVIOUS
<1>1. ASSUME inMemory, NEW w \in Worker, WriteInMemory(w) PROVE NoSilentLoss'
  <2>1. /\ documents' = documents /\ stream' = stream /\ api' = api /\ lost' = lost
        /\ \A v \in Worker : v # w => worker'[v] = worker[v]
    BY <1>1 DEF WriteInMemory, Goto, TypeOK
  <2>2. PICK e \in Entry : dlq' = dlq \cup {e} /\ e.job = worker[w].job
    BY <1>1, WriteFacts
  <2>3. \A d \in Doc, f \in dlq' : JobOf(d, f.job) => Keeps(f, d)'
    BY <1>1, <2>1 DEF MemoryOK, Keeps, JobOf
  <2>4. ASSUME NEW d \in Doc, Carried(d) PROVE Carried(d)'
    <3>1. CASE Works(w, d)
      <4>1. Keeps(e, d)' /\ e \in dlq'
        BY <2>2, <2>3, <3>1 DEF Works
      <4>. QED
        BY <4>1 DEF Carried
    <3>2. CASE \E f \in dlq : Keeps(f, d)
      <4>1. \E f \in dlq' : Keeps(f, d)'
        BY <2>2, <2>3, <3>2 DEF Keeps
      <4>. QED
        BY <4>1 DEF Carried
    <3>3. CASE \E v \in Worker : v # w /\ Works(v, d)
      BY <2>1, <3>3 DEF Carried, Works, JobOf
    <3>4. CASE \/ \E a \in Api : Uploads(a, d)
               \/ \E job \in Job : JobOf(d, job) /\ stream[job] > 0
      BY <2>1, <3>4 DEF Carried, Uploads, JobOf
    <3>. QED
      BY <2>4, <3>1, <3>2, <3>3, <3>4 DEF Carried
  <2>. QED
    BY <2>1, <2>4 DEF NoSilentLoss, Stored
<1>2. ASSUME inMemory, NEW a \in Api, NEW t \in Tenant, NEW p \in DOMAIN entries, ReplayInMemory(a, t, p)
      PROVE  NoSilentLoss'
  <2>1. documents' = documents /\ api' = api /\ worker' = worker /\ lost' = lost
    BY <1>2 DEF ReplayInMemory
  <2>2. PICK e \in dlq : e = entries[p] /\ e.job \in Job /\ \A f \in dlq : f # e => f \in dlq'
    BY <1>2, ReplayFacts
  <2>3. PICK job \in Job : job = Retried(e.job) /\ job.doc = e.job.doc /\ job.tenant = e.job.tenant
    BY <1>2, <2>2, ReplayFacts, RetriedType
  <2>4. stream'[job] > 0 /\ \A j \in Job : stream[j] > 0 => stream'[j] > 0
    BY <1>2, <2>2, <2>3 DEF ReplayInMemory, Put, TypeOK
  <2>5. ASSUME NEW d \in Doc, Carried(d) PROVE Carried(d)'
    <3>1. CASE Keeps(e, d)
      BY <2>1, <2>3, <2>4, <3>1 DEF Keeps, JobOf, Carried
    <3>2. CASE \E f \in dlq : f # e /\ Keeps(f, d)
      BY <2>1, <2>2, <3>2 DEF Keeps, JobOf, Carried
    <3>3. CASE \/ \E b \in Api : Uploads(b, d)
               \/ \E j \in Job : JobOf(d, j) /\ stream[j] > 0
               \/ \E v \in Worker : Works(v, d)
      BY <2>1, <2>4, <3>3 DEF Carried, Uploads, JobOf, Works
    <3>. QED
      BY <2>5, <3>1, <3>2, <3>3 DEF Carried
  <2>. QED
    BY <2>1, <2>5 DEF NoSilentLoss, Stored
<1>. QED
  BY <1>1, <1>2, EitherStep, NextNoSilentLoss

\* Neither queue drops the job of a stored document: a dead letter leaves the list only when
\* its job is back on the stream.
THEOREM EitherLossSafety == EitherSpec => []NoSilentLoss
<1>1. EitherInit => Soundness /\ EitherLinked /\ NoSilentLoss
  BY InitSoundness, InitLinked, InitNoSilentLoss DEF EitherInit, EitherLinked
<1>. QED
  BY <1>1, EitherTypeCorrectness, EitherSoundness, EitherLinkedStays, EitherPoints, EitherNoSilentLoss,
     PTL DEF EitherSpec

-----------------------------------------------------------------------------
(* One live job per document: definitions                                  *)

\* The service has one API process.
OneApi == \A a, b \in Api : a = b

\* No call to Redis fails, nor does its reply get lost, and no process dies.
NoneLost == FaultKind \cap {"redis", "crash"} = {}

\* No stray job is one of d.
Unstray(d) == \A s \in StrayJob : ~JobOf(d, s)

\* Whatever holds a live job of d is x, which is of this kind.
Only(d, kind, x) ==
    /\ \A a \in Api : Uploads(a, d) => kind = "upload" /\ a = x
    /\ \A job \in Job : JobOf(d, job) /\ stream[job] > 0 =>
          kind = "stream" /\ job = x /\ stream[job] = 1
    /\ \A w \in Worker : Works(w, d) => kind = "worker" /\ w = x
    /\ \A e \in dlq : Keeps(e, d) => kind = "dead" /\ e = x

One(d) == \E kind, x : Only(d, kind, x)

\* A worker that is the only one on d has seen the row as it is.
Writing == {"mark", "reload", "index", "finish"}

SeenOK(d) ==
    \A w \in Worker :
        worker[w].pc \in Writing /\ DocOf(w) = d =>
            /\ worker[w].pc # "reload" => worker[w].seen = documents[d]
            /\ worker[w].pc # "mark" => documents[d].status = "indexing"

\* The list holds one dead job of d at most.
Listed(d) ==
    inMemory =>
        \A p, q \in DOMAIN entries :
            JobOf(d, entries[p].job) /\ JobOf(d, entries[q].job) => p = q

\* What a replay has read is still in the dead-letter queue when it queues the job.
Replaying ==
    \A a \in Api : api[a].pc = "requeue" =>
        \E e \in dlq : /\ e.id = api[a].id
                      /\ e.job.doc = api[a].job.doc /\ e.job.tenant = api[a].job.tenant

OneInv ==
    /\ Replaying
    /\ \A d \in Doc : Stored(d) /\ Unstray(d) => One(d) /\ SeenOK(d) /\ Listed(d)

-----------------------------------------------------------------------------
(* One live job per document: where it goes                                *)

\* Whoever holds a job of d is the only holder of one.
LEMMA OnlyOne ==
    ASSUME NEW d \in Doc, One(d)
    PROVE  /\ \A a \in Api : Uploads(a, d) => Only(d, "upload", a)
           /\ \A job \in Job : JobOf(d, job) /\ stream[job] > 0 => Only(d, "stream", job)
           /\ \A w \in Worker : Works(w, d) => Only(d, "worker", w)
           /\ \A e \in dlq : Keeps(e, d) => Only(d, "dead", e)
<1>1. PICK kind, x : Only(d, kind, x)
  BY DEF One
<1>. QED
  BY <1>1 DEF Only

\* A step that gives no job of d to anybody.
LEMMA Shrinks ==
    ASSUME TypeOK, NEW d \in Doc, One(d), documents'[d].tenant = documents[d].tenant,
           \A a \in Api : Uploads(a, d)' => Uploads(a, d),
           \A job \in Job : JobOf(d, job) => stream'[job] \in Nat /\ stream'[job] <= stream[job],
           \A w \in Worker : Works(w, d)' => Works(w, d),
           \A e \in dlq' : Keeps(e, d)' => e \in dlq /\ Keeps(e, d)
    PROVE  One(d)'
<1>1. PICK kind, x : Only(d, kind, x)
  BY DEF One
<1>2. \A job \in Job : JobOf(d, job)' /\ stream'[job] > 0 =>
         kind = "stream" /\ job = x /\ stream'[job] = 1
  BY <1>1 DEF Only, JobOf, TypeOK
<1>3. Only(d, kind, x)'
  BY <1>1, <1>2 DEF Only
<1>. QED
  BY <1>3 DEF One

\* Which failures are left when no call to Redis fails and no process dies.
LEMMA Failures ==
    ASSUME NoneLost
    PROVE  /\ \A a \in Api : ~Resend(a) /\ (ApiAbort(a) => api[a].pc = "enqueue")
           /\ \A w \in Worker : ~BuryAgain(w)
           /\ \A w \in Worker : WorkerAbort(w) => worker[w].pc \in {"load", "fail"} \cup Stage
<1>1. ASSUME NEW kinds, Fault(kinds) PROVE ~(kinds \subseteq {"redis", "crash"})
  BY <1>1 DEF Fault, NoneLost
<1>2. ASSUME NEW a \in Api PROVE ~Resend(a) /\ (ApiAbort(a) => api[a].pc = "enqueue")
  BY <1>1 DEF Resend, ApiAbort
<1>3. ASSUME NEW w \in Worker PROVE ~BuryAgain(w)
  BY <1>1 DEF BuryAgain
<1>4. ASSUME NEW w \in Worker, WorkerAbort(w) PROVE worker[w].pc \in {"load", "fail"} \cup Stage
  BY <1>1, <1>4 DEF WorkerAbort, Fatal, Stage
<1>. QED
  BY <1>2, <1>3, <1>4

\* Handlers: an upload hands its job to the stream, a replay the job of its entry.
LEMMA ApiOne ==
    ASSUME OneApi, NoneLost, TypeOK, Replaying, [Next]_vars,
           NEW d \in Doc, Stored(d), One(d), NEW a \in Api,
           Upload(a) \/ Replay(a) \/ Continue(a) \/ Resend(a) \/ ApiAbort(a)
    PROVE  One(d)'
<1>d. documents'[d].tenant = documents[d].tenant /\ \A job : JobOf(d, job)' <=> JobOf(d, job)
  BY RowsStay DEF RowStays, JobOf
<1>a. \A b \in Api : b = a
  BY DEF OneApi
<1>t. \A job \in Job : stream[job] \in Nat
  BY DEF TypeOK
<1>w. worker' = worker /\ \A w \in Worker : Works(w, d)' <=> Works(w, d)
  BY <1>d DEF Upload, Replay, Continue, Resend, ApiAbort, Store, Enqueue, Find, Requeue, Delete, Works
<1>1. ASSUME NEW t \in Tenant, NEW x \in Doc, Store(a, t, x) PROVE One(d)'
  <2>1. x # d /\ stream' = stream /\ dlq' = dlq
    BY <1>1 DEF Store
  <2>2. ~Uploads(a, d)' /\ api[a].pc # "delete"
    BY <1>1, <2>1 DEF Store, Uploads, JobOf, TypeOK
  <2>3. \A e \in dlq : Keeps(e, d)' => Keeps(e, d)
    BY <1>a, <1>d, <2>2 DEF Keeps
  <2>. QED
    BY <1>a, <1>d, <1>t, <1>w, <2>1, <2>2, <2>3, Shrinks
<1>2. CASE Enqueue(a)
  <2>1. PICK job \in Job : job = api[a].job
    BY <1>2 DEF Enqueue, TypeOK
  <2>2. /\ ~Uploads(a, d)' /\ api[a].pc # "delete" /\ dlq' = dlq
        /\ stream' = [stream EXCEPT ![job] = @ + 1]
    BY <1>2, <2>1 DEF Enqueue, Put, Uploads, TypeOK, IdleApi
  <2>3. \A e \in dlq : Keeps(e, d)' => Keeps(e, d)
    BY <1>a, <1>d, <2>2 DEF Keeps
  <2>4. CASE JobOf(d, job)
    <3>1. Only(d, "upload", a)
      BY <1>2, <2>1, <2>4, OnlyOne DEF Enqueue, Uploads
    <3>2. \A j \in Job : JobOf(d, j) /\ stream'[j] > 0 => j = job /\ stream'[j] = 1
      BY <1>t, <2>2, <2>4, <3>1 DEF Only, TypeOK
    <3>3. Only(d, "stream", job)'
      BY <1>a, <1>d, <1>w, <2>2, <2>3, <3>1, <3>2 DEF Only
    <3>. QED
      BY <3>3 DEF One
  <2>5. CASE ~JobOf(d, job)
    <3>1. \A j \in Job : JobOf(d, j) => stream'[j] = stream[j]
      BY <2>2, <2>5 DEF TypeOK
    <3>. QED
      BY <1>a, <1>d, <1>t, <1>w, <2>2, <2>3, <3>1, Shrinks
  <2>. QED
    BY <2>4, <2>5
<1>3. ASSUME NEW t \in Tenant, NEW e \in dlq, Find(a, t, e) PROVE One(d)'
  <2>1. ~Uploads(a, d)' /\ api[a].pc # "delete" /\ stream' = stream /\ dlq' = dlq
    BY <1>3 DEF Find, Uploads, TypeOK
  <2>2. \A f \in dlq : Keeps(f, d)' => Keeps(f, d)
    BY <1>a, <1>d, <2>1 DEF Keeps
  <2>. QED
    BY <1>a, <1>d, <1>t, <1>w, <2>1, <2>2, Shrinks
<1>4. CASE Requeue(a)
  <2>1. PICK job \in Job : job = api[a].job
    BY <1>4 DEF Requeue, TypeOK
  <2>2. /\ ~Uploads(a, d)' /\ api[a].pc = "requeue" /\ dlq' = dlq
        /\ api'[a].pc = "delete" /\ api'[a].id = api[a].id
        /\ stream' = [stream EXCEPT ![job] = @ + 1]
    BY <1>4, <2>1 DEF Requeue, Put, Uploads, TypeOK
  <2>3. \A f \in dlq : Keeps(f, d)' => Keeps(f, d) /\ f.id # api[a].id
    BY <1>a, <1>d, <2>2 DEF Keeps
  <2>4. CASE JobOf(d, job)
    <3>1. PICK e \in dlq : e.id = api[a].id /\ JobOf(d, e.job)
      BY <2>1, <2>2, <2>4 DEF Replaying, JobOf
    <3>2. Only(d, "dead", e)
      BY <1>a, <2>2, <3>1, OnlyOne DEF Keeps
    <3>3. \A f \in dlq : ~Keeps(f, d)'
      BY <2>3, <3>1, <3>2 DEF Only
    <3>4. \A j \in Job : JobOf(d, j) /\ stream'[j] > 0 => j = job /\ stream'[j] = 1
      BY <1>t, <2>2, <2>4, <3>2 DEF Only, TypeOK
    <3>5. Only(d, "stream", job)'
      BY <1>a, <1>d, <1>w, <2>2, <3>2, <3>3, <3>4 DEF Only
    <3>. QED
      BY <3>5 DEF One
  <2>5. CASE ~JobOf(d, job)
    <3>1. \A j \in Job : JobOf(d, j) => stream'[j] = stream[j]
      BY <2>2, <2>5 DEF TypeOK
    <3>. QED
      BY <1>a, <1>d, <1>t, <1>w, <2>2, <2>3, <3>1, Shrinks
  <2>. QED
    BY <2>4, <2>5
<1>5. CASE Delete(a)
  <2>1. /\ ~Uploads(a, d)' /\ stream' = stream /\ dlq' \subseteq dlq
        /\ \A e \in dlq' : e.id # api[a].id
    BY <1>5 DEF Delete, Uploads, TypeOK, IdleApi
  <2>2. \A e \in dlq' : Keeps(e, d)' => Keeps(e, d)
    BY <1>a, <1>d, <2>1 DEF Keeps
  <2>. QED
    BY <1>a, <1>d, <1>t, <1>w, <2>1, <2>2, Shrinks
<1>6. CASE ApiAbort(a)
  <2>1. ~Uploads(a, d)' /\ api[a].pc = "enqueue" /\ stream' = stream /\ dlq' = dlq
    BY <1>6, Failures DEF ApiAbort, Uploads, TypeOK, IdleApi
  <2>2. \A e \in dlq : Keeps(e, d)' => Keeps(e, d)
    BY <1>a, <1>d, <2>1 DEF Keeps
  <2>. QED
    BY <1>a, <1>d, <1>t, <1>w, <2>1, <2>2, Shrinks
<1>. QED
  BY <1>1, <1>2, <1>3, <1>4, <1>5, <1>6, Failures DEF Upload, Replay, Continue

\* A worker's step that leaves the stream and adds no dead letter keeps One(d), if the
\* worker had the job of d before whenever it has it afterwards.
LEMMA WorkerKeeps ==
    ASSUME TypeOK, NEW d \in Doc, One(d), documents'[d].tenant = documents[d].tenant,
           NEW w \in Worker, \A v \in Worker : v # w => worker'[v] = worker[v],
           Works(w, d)' => Works(w, d), api' = api, stream' = stream, dlq' \subseteq dlq
    PROVE  One(d)'
<1>1. \A job : JobOf(d, job)' <=> JobOf(d, job)
  BY DEF JobOf
<1>2. \A v \in Worker : Works(v, d)' => Works(v, d)
  BY <1>1 DEF Works
<1>3. \A a \in Api : Uploads(a, d)' => Uploads(a, d)
  BY <1>1 DEF Uploads
<1>4. \A e \in dlq' : Keeps(e, d)' => e \in dlq /\ Keeps(e, d)
  BY <1>1 DEF Keeps
<1>5. \A job \in Job : stream'[job] \in Nat /\ stream'[job] <= stream[job]
  BY DEF TypeOK
<1>. QED
  BY <1>2, <1>3, <1>4, <1>5, Shrinks

\* A worker's last step on a job of d leaves it in the dead-letter queue.
LEMMA WorkerBuries ==
    ASSUME TypeOK, NEW d \in Doc, One(d), documents'[d].tenant = documents[d].tenant,
           NEW w \in Worker, \A v \in Worker : v # w => worker'[v] = worker[v],
           worker[w].pc \in Stage, worker'[w].pc = "ack",
           api' = api, stream' = stream, NEW e \in dlq', dlq' = dlq \cup {e}, e.job = worker[w].job
    PROVE  One(d)'
<1>1. \A job : JobOf(d, job)' <=> JobOf(d, job)
  BY DEF JobOf
<1>2. ~Works(w, d)' /\ (JobOf(d, e.job) => Works(w, d))
  BY DEF Works, Stage
<1>3. \A v \in Worker : Works(v, d)' => Works(v, d)
  BY <1>1, <1>2 DEF Works
<1>4. \A a \in Api : Uploads(a, d)' => Uploads(a, d)
  BY <1>1 DEF Uploads
<1>5. \A f \in dlq : Keeps(f, d)' => Keeps(f, d)
  BY <1>1 DEF Keeps
<1>6. CASE Works(w, d)
  <2>1. Only(d, "worker", w)
    BY <1>6, OnlyOne
  <2>2. Only(d, "dead", e)'
    BY <1>1, <1>2, <1>3, <1>4, <1>5, <2>1 DEF Only
  <2>. QED
    BY <2>2 DEF One
<1>7. CASE ~Works(w, d)
  <2>1. ~Keeps(e, d)'
    BY <1>1, <1>2, <1>7 DEF Keeps
  <2>2. \A f \in dlq' : Keeps(f, d)' => f \in dlq /\ Keeps(f, d)
    BY <1>5, <2>1
  <2>3. \A job \in Job : stream'[job] \in Nat /\ stream'[job] <= stream[job]
    BY DEF TypeOK
  <2>. QED
    BY <1>3, <1>4, <2>2, <2>3, Shrinks
<1>. QED
  BY <1>6, <1>7

\* Workers: a job comes from the stream and goes back to it or to the dead-letter queue.
LEMMA WorkerOne ==
    ASSUME NoneLost, TypeOK, [Next]_vars,
           NEW d \in Doc, Stored(d), One(d), SeenOK(d), NEW w \in Worker, Work(w) \/ Failure(w)
    PROVE  One(d)'
<1>d. documents'[d].tenant = documents[d].tenant /\ \A job : JobOf(d, job)' <=> JobOf(d, job)
  BY RowsStay DEF RowStays, JobOf
<1>t. \A job \in Job : stream[job] \in Nat
  BY DEF TypeOK
<1>a. api' = api
  BY DEF Work, Failure, Take, Load, Mark, Reload, Index, Finish, Fail, Bury, Ack,
         Raise, IndexFails, FinishReplyLost, BuryAgain, WorkerAbort
<1>v. \A v \in Worker : v # w => worker'[v] = worker[v]
  BY DEF Work, Failure, Goto, TypeOK, Take, Load, Mark, Reload, Index, Finish, Fail, Bury, Ack,
         Raise, IndexFails, FinishReplyLost, BuryAgain, WorkerAbort
<1>u. \A a \in Api : Uploads(a, d)' <=> Uploads(a, d)
  BY <1>a, <1>d DEF Uploads
<1>o. \A v \in Worker : v # w => (Works(v, d)' <=> Works(v, d))
  BY <1>d, <1>v DEF Works
<1>k. \A e \in dlq : Keeps(e, d)' => Keeps(e, d)
  BY <1>a, <1>d DEF Keeps
<1>g. ASSUME NEW pc, Goto(w, pc)
      PROVE  worker'[w].pc = pc /\ worker'[w].job = worker[w].job /\ worker'[w].seen = worker[w].seen
  BY <1>g DEF Goto, TypeOK
<1>1. ASSUME NEW job \in Job, Take(w, job) PROVE One(d)'
  <2>1. /\ worker'[w].pc = "load" /\ worker'[w].job = job /\ dlq' = dlq
        /\ stream[job] > 0 /\ stream' = [stream EXCEPT ![job] = @ - 1]
    BY <1>1 DEF Take, TypeOK
  <2>2. CASE JobOf(d, job)
    <3>1. Only(d, "stream", job)
      BY <2>1, <2>2, OnlyOne
    <3>2. \A j \in Job : JobOf(d, j) => ~(stream'[j] > 0)
      BY <1>t, <2>1, <2>2, <3>1 DEF Only, TypeOK
    <3>3. Only(d, "worker", w)'
      BY <1>d, <1>u, <1>o, <1>k, <2>1, <3>1, <3>2 DEF Only
    <3>. QED
      BY <3>3 DEF One
  <2>3. CASE ~JobOf(d, job)
    <3>1. ~Works(w, d)'
      BY <1>d, <2>1, <2>3 DEF Works
    <3>2. \A j \in Job : stream'[j] \in Nat /\ stream'[j] <= stream[j]
      BY <1>t, <2>1 DEF TypeOK
    <3>. QED
      BY <1>d, <1>u, <1>o, <1>k, <2>1, <3>1, <3>2, Shrinks
  <2>. QED
    BY <2>2, <2>3
<1>2. CASE Load(w) \/ Reload(w)
  <2>1. worker[w].pc \in {"load", "reload"} /\ worker'[w].job = worker[w].job
    BY <1>2 DEF Load, Reload, TypeOK
  <2>2. Works(w, d)' => Works(w, d)
    BY <1>d, <2>1 DEF Works
  <2>. QED
    BY <1>2, <1>a, <1>d, <1>v, <2>2, WorkerKeeps DEF Load, Reload
<1>3. CASE Mark(w) \/ Raise(w) \/ IndexFails(w) \/ FinishReplyLost(w) \/ Fail(w)
  <2>1. worker[w].pc \in Writing \cup {"fail"} /\ worker'[w].job = worker[w].job
    BY <1>3, <1>g DEF Mark, Raise, IndexFails, FinishReplyLost, Fail, Writing
  <2>2. JobOf(d, worker[w].job) => DocOf(w) = d
    BY DEF JobOf, DocOf
  <2>3. JobOf(d, worker[w].job) /\ worker[w].pc \in {"index", "finish"} =>
           worker[w].seen.status = "indexing"
    BY <2>2 DEF SeenOK, Writing
  <2>4. Works(w, d)' => Works(w, d)
    BY <1>d, <2>1, <2>3 DEF Works, Writing
  <2>. QED
    BY <1>3, <1>a, <1>d, <1>v, <2>4, WorkerKeeps DEF Mark, Raise, IndexFails, FinishReplyLost, Fail
<1>4. CASE Index(w)
  <2>1. Works(w, d)' => Works(w, d)
    BY <1>4, <1>d, <1>g DEF Index, Works
  <2>. QED
    BY <1>4, <1>a, <1>d, <1>v, <2>1, WorkerKeeps DEF Index
<1>5. CASE Finish(w) \/ Ack(w)
  <2>1. worker'[w].pc \in {"ack", "idle"}
    <3>1. CASE Finish(w)
      BY <1>g, <3>1 DEF Finish
    <3>2. CASE Ack(w)
      BY <3>2 DEF Ack, IdleWorker, TypeOK
    <3>. QED
      BY <1>5, <3>1, <3>2
  <2>2. ~Works(w, d)'
    BY <2>1 DEF Works, Stage
  <2>. QED
    BY <1>5, <1>a, <1>d, <1>v, <2>2, WorkerKeeps DEF Finish, Ack
<1>6. CASE Bury(w)
  <2>1. PICK e : e = [id |-> dlqId + 1, job |-> worker[w].job, stage |-> worker[w].pc]
    OBVIOUS
  <2>2. /\ dlq' = dlq \cup {e} /\ e \in dlq' /\ e.job = worker[w].job /\ stream' = stream
        /\ worker[w].pc \in Stage /\ worker'[w].pc = "ack"
    BY <1>6, <1>g, <2>1 DEF Bury
  <2>. QED
    BY <1>a, <1>d, <1>v, <2>2, WorkerBuries
<1>7. CASE WorkerAbort(w)
  <2>1. worker'[w].pc = "idle" /\ dlq' = dlq
    BY <1>7 DEF WorkerAbort, IdleWorker, TypeOK
  <2>2. ~Works(w, d)'
    BY <2>1 DEF Works, Stage
  <2>3. CASE ~AckLate
    BY <1>7, <1>a, <1>d, <1>v, <2>1, <2>2, <2>3, WorkerKeeps DEF WorkerAbort
  <2>4. CASE AckLate
    <3>1. PICK job \in Job : job = worker[w].job
      BY <1>7, BusyType DEF WorkerAbort
    <3>2. stream' = [stream EXCEPT ![job] = @ + 1]
      BY <1>7, <2>4, <3>1 DEF WorkerAbort, Put
    <3>3. CASE JobOf(d, job)
      <4>1. Works(w, d)
        BY <1>7, <3>1, <3>3, Failures DEF Works, Stage
      <4>2. Only(d, "worker", w)
        BY <4>1, OnlyOne
      <4>3. \A j \in Job : JobOf(d, j) /\ stream'[j] > 0 => j = job /\ stream'[j] = 1
        BY <1>t, <3>2, <3>3, <4>2 DEF Only, TypeOK
      <4>4. Only(d, "stream", job)'
        BY <1>d, <1>u, <1>o, <1>k, <2>1, <2>2, <4>2, <4>3 DEF Only
      <4>. QED
        BY <4>4 DEF One
    <3>4. CASE ~JobOf(d, job)
      <4>1. \A j \in Job : JobOf(d, j) => stream'[j] = stream[j]
        BY <3>2, <3>4 DEF TypeOK
      <4>. QED
        BY <1>d, <1>t, <1>u, <1>o, <1>k, <2>1, <2>2, <4>1, Shrinks
    <3>. QED
      BY <3>3, <3>4
  <2>. QED
    BY <2>3, <2>4
<1>. QED
  BY <1>1, <1>2, <1>3, <1>4, <1>5, <1>6, <1>7, Failures DEF Work, Failure

-----------------------------------------------------------------------------
(* A worker alone on its document has seen the row as it is                *)

\* A worker that may write the row of d.
Writer(w, d) == worker[w].pc \in Writing \cup {"fail"} /\ DocOf(w) = d

Alone(d) == \A v, w \in Worker : Writer(v, d) /\ Writer(w, d) => v = w

\* Only a writer changes the row of a stored document, and it moves on.
LEMMA RowWriters ==
    ASSUME TypeOK, [Next]_vars, NEW d \in Doc, Stored(d), documents'[d] # documents[d]
    PROVE  \E v \in Worker : Writer(v, d) /\ worker'[v] # worker[v]
<1>1. ASSUME NEW v \in Worker, Mark(v) \/ Finish(v) \/ FinishReplyLost(v) \/ Fail(v)
      PROVE  Writer(v, d) /\ worker'[v] # worker[v]
  <2>1. DocOf(v) = d
    BY <1>1, BusyType DEF Mark, Finish, FinishReplyLost, Fail, Written, TypeOK
  <2>2. worker[v].pc \in {"mark", "finish", "fail"} /\ worker'[v].pc # worker[v].pc
    <3>1. \/ worker[v].pc = "mark" /\ Goto(v, "reload")
          \/ worker[v].pc = "finish" /\ (Goto(v, "ack") \/ Goto(v, "fail"))
          \/ worker[v].pc = "fail" /\ Goto(v, "index_document")
      BY <1>1 DEF Mark, Finish, FinishReplyLost, Fail
    <3>. QED
      BY <3>1 DEF Goto, TypeOK
  <2>. QED
    BY <2>1, <2>2 DEF Writer, Writing
<1>2. ASSUME NEW a \in Api, NEW t \in Tenant, NEW x \in Doc PROVE ~Store(a, t, x)
  BY DEF Store, TypeOK
<1>. QED
  BY <1>1, <1>2
     DEF Next, vars, Upload, Replay, Continue, Work, Failure, Enqueue, Find, Requeue, Delete, Resend,
         ApiAbort, Take, Load, Reload, Index, Bury, Ack, Raise, IndexFails, BuryAgain, WorkerAbort

\* The steps that bring a worker to one of the places of Writing.
LEMMA WritingSteps ==
    ASSUME TypeOK, [Next]_vars, NEW w \in Worker, worker'[w].pc \in Writing, worker'[w] # worker[w]
    PROVE  Load(w) \/ Mark(w) \/ Reload(w) \/ Index(w)
<1>1. ASSUME NEW a \in Api, Upload(a) \/ Replay(a) \/ Continue(a) \/ Resend(a) \/ ApiAbort(a) PROVE FALSE
  BY <1>1 DEF Upload, Replay, Continue, Resend, ApiAbort, Store, Enqueue, Find, Requeue, Delete
<1>2. ASSUME NEW v \in Worker, Work(v) \/ Failure(v) PROVE v = w
  BY <1>2 DEF Work, Failure, Goto, TypeOK, Take, Load, Mark, Reload, Index, Finish, Fail,
              Bury, Ack, Raise, IndexFails, FinishReplyLost, BuryAgain, WorkerAbort
<1>3. worker'[w].pc \notin {"load", "fail", "ack", "idle", "index_document"}
  BY DEF Writing
<1>4. ASSUME NEW pc, Goto(w, pc) PROVE worker'[w].pc = pc
  BY <1>4 DEF Goto, TypeOK
<1>5. ASSUME worker' = [worker EXCEPT ![w] = IdleWorker] PROVE worker'[w].pc = "idle"
  BY <1>5 DEF TypeOK, IdleWorker
<1>6. ~(\E job \in Job : Take(w, job))
  BY <1>3 DEF Take, TypeOK
<1>7. ~Finish(w) /\ ~Fail(w) /\ ~Bury(w) /\ ~Raise(w) /\ ~IndexFails(w) /\ ~FinishReplyLost(w)
  BY <1>3, <1>4 DEF Finish, Fail, Bury, Raise, IndexFails, FinishReplyLost
<1>8. ~Ack(w) /\ ~WorkerAbort(w) /\ ~BuryAgain(w)
  BY <1>3, <1>5 DEF Ack, WorkerAbort, BuryAgain
<1>. QED
  BY <1>1, <1>2, <1>6, <1>7, <1>8 DEF Next, vars, Work, Failure

LEMMA SeenStays ==
    ASSUME TypeOK, Soundness, [Next]_vars, NEW d \in Doc, SeenOK(d), Alone(d)
    PROVE  SeenOK(d)'
<1> SUFFICES ASSUME NEW w \in Worker, worker'[w].pc \in Writing, DocOf(w)' = d
             PROVE  /\ worker'[w].pc # "reload" => worker'[w].seen = documents'[d]
                    /\ worker'[w].pc # "mark" => documents'[d].status = "indexing"
  BY DEF SeenOK
<1>1. CASE worker'[w] = worker[w]
  <2>1. Writer(w, d) /\ Stored(d)
    BY <1>1 DEF Writer, Writing, DocOf, Soundness, WorkerSound, Past
  <2>2. documents'[d] = documents[d]
    BY <1>1, <2>1, RowWriters DEF Alone
  <2>. QED
    BY <1>1, <2>1, <2>2 DEF SeenOK, DocOf
<1>2. CASE Load(w)
  <2>1. worker'[w].pc = "mark" /\ worker'[w].seen = documents[d] /\ documents' = documents
    BY <1>2 DEF Load, TypeOK, DocOf, Writing
  <2>. QED
    BY <2>1
<1>3. CASE Mark(w)
  <2>1. worker'[w].pc = "reload" /\ worker'[w].job = worker[w].job
    BY <1>3 DEF Mark, Goto, TypeOK
  <2>2. worker[w].pc = "mark" /\ DocOf(w) = d
    BY <1>3, <2>1 DEF Mark, DocOf
  <2>3. worker[w].seen = documents[d]
    BY <2>2 DEF SeenOK, Writing
  <2>4. documents' = Written(d, documents[d], "indexing", documents[d].chunk_count, documents[d].error)
    BY <1>3, <2>2, <2>3 DEF Mark
  <2>5. documents'[d].status = "indexing"
    BY <2>4 DEF Written, TypeOK, Row
  <2>. QED
    BY <2>1, <2>5
<1>4. CASE Reload(w)
  <2>1. worker'[w].pc # "reload" /\ worker'[w].seen = documents[d] /\ documents' = documents
        /\ worker[w].pc = "reload" /\ DocOf(w) = d
    BY <1>4 DEF Reload, TypeOK, DocOf
  <2>2. documents[d].status = "indexing"
    BY <2>1 DEF SeenOK, Writing
  <2>. QED
    BY <2>1, <2>2
<1>5. CASE Index(w)
  <2>1. /\ worker[w].pc = "index" /\ DocOf(w) = d /\ documents' = documents
        /\ worker'[w].pc = "finish" /\ worker'[w].seen = worker[w].seen
    BY <1>5 DEF Index, Goto, TypeOK, DocOf
  <2>2. documents[d].status = "indexing" /\ worker[w].seen = documents[d]
    BY <2>1 DEF SeenOK, Writing
  <2>. QED
    BY <2>1, <2>2
<1>. QED
  BY <1>1, <1>2, <1>3, <1>4, <1>5, WritingSteps

\* The single holder of d's job is alone on d.
LEMMA OneIsAlone ==
    ASSUME TypeOK, Soundness, NEW d \in Doc, One(d), SeenOK(d)
    PROVE  Alone(d)
<1>1. ASSUME NEW w \in Worker, Writer(w, d) PROVE Works(w, d)
  <2>1. JobOf(d, worker[w].job)
    BY <1>1, WorkerOnDoc DEF Writer, Writing, Past
  <2>2. worker[w].pc \in {"index", "finish"} => worker[w].seen.status = "indexing"
    BY <1>1 DEF Writer, Writing, SeenOK
  <2>. QED
    BY <1>1, <2>1, <2>2 DEF Works, Writer, Writing
<1>2. PICK kind, x : Only(d, kind, x)
  BY DEF One
<1>. QED
  BY <1>1, <1>2 DEF Alone, Only

-----------------------------------------------------------------------------
(* One live job per document: the invariant                                *)

\* Only an upload makes a document appear.
LEMMA StoreSteps ==
    ASSUME TypeOK, Soundness, [EitherNext]_eitherVars, NEW d \in Doc, ~Stored(d), Stored(d)'
    PROVE  (\E a \in Api, t \in Tenant : Store(a, t, d)) /\ entries' = entries
<1>1. ASSUME NEW w \in Worker, WriteInMemory(w) PROVE FALSE
  BY <1>1 DEF WriteInMemory, Stored
<1>2. ASSUME NEW a \in Api, NEW t \in Tenant, NEW p \in DOMAIN entries, ReplayInMemory(a, t, p) PROVE FALSE
  BY <1>2 DEF ReplayInMemory, Stored
<1>3. [Next]_vars /\ entries' = entries
  BY <1>1, <1>2, EitherStep
<1>4. ASSUME NEW w \in Worker, Mark(w) \/ Finish(w) \/ FinishReplyLost(w) \/ Fail(w) PROVE FALSE
  <2>1. DocOf(w) # d
    BY <1>4 DEF Mark, Finish, FinishReplyLost, Fail, Soundness, WorkerSound, Past
  <2>2. documents'[d] = documents[d]
    BY <1>4, <2>1 DEF Mark, Finish, FinishReplyLost, Fail, Written, TypeOK
  <2>. QED
    BY <2>2 DEF Stored
<1>5. ASSUME NEW a \in Api, NEW t \in Tenant, NEW x \in Doc, Store(a, t, x) PROVE x = d
  BY <1>5 DEF Store, Stored, TypeOK
<1>6. CASE UNCHANGED documents
  BY <1>6 DEF Stored
<1>. QED
  BY <1>3, <1>4, <1>5, <1>6
     DEF Next, vars, Upload, Replay, Continue, Work, Failure, Enqueue, Find, Requeue, Delete, Resend,
         ApiAbort, Take, Load, Reload, Index, Bury, Ack, Raise, IndexFails, BuryAgain, WorkerAbort

\* A document has no job before it is stored, and the one of its upload afterwards.
LEMMA Fresh ==
    ASSUME TypeOK, MemoryOK, Soundness, [EitherNext]_eitherVars,
           NEW d \in Doc, ~Stored(d), Stored(d)', Unstray(d)'
    PROVE  One(d)' /\ SeenOK(d)' /\ Listed(d)'
<1>1. PICK a \in Api, t \in Tenant : Store(a, t, d)
  BY StoreSteps
<1>2. /\ stream' = stream /\ worker' = worker /\ dlq' = dlq /\ entries' = entries /\ inMemory' = inMemory
      /\ documents'[d].tenant = t /\ \A b \in Api : b # a => api'[b] = api[b]
  BY <1>1, StoreSteps, EitherStep DEF Store, TypeOK, NoRow
<1>3. ASSUME NEW job \in Job, JobOf(d, job)' PROVE ~Sound(job)
  BY <1>3 DEF JobOf, Sound, Stray, Unstray
<1>4. \A b \in Api : Uploads(b, d)' => b = a
  <2> SUFFICES ASSUME NEW b \in Api, Uploads(b, d)', b # a PROVE FALSE
    OBVIOUS
  <2>1. PICK job \in Job : job = api[b].job /\ Sound(job)
    BY <1>2 DEF Soundness, ApiSound, Uploads, TypeOK
  <2>. QED
    BY <1>2, <1>3, <2>1 DEF Uploads
<1>5. \A job \in Job : ~(JobOf(d, job)' /\ stream'[job] > 0)
  BY <1>2, <1>3 DEF Soundness
<1>6. \A w \in Worker : ~Works(w, d)'
  <2> SUFFICES ASSUME NEW w \in Worker, Works(w, d)' PROVE FALSE
    OBVIOUS
  <2>1. worker[w].pc # "idle"
    BY <1>2 DEF Works, Stage
  <2>2. PICK job \in Job : job = worker[w].job /\ Sound(job)
    BY <2>1, BusyType DEF Soundness, WorkerSound
  <2>. QED
    BY <1>2, <1>3, <2>2 DEF Works
<1>7. \A e \in dlq : ~JobOf(d, e.job)'
  BY <1>3 DEF Soundness, EntrySound, TypeOK, Entry
<1>8. Only(d, "upload", a)'
  BY <1>2, <1>4, <1>5, <1>6, <1>7 DEF Only, Keeps
<1>9. SeenOK(d)'
  <2>1. \A w \in Worker : worker[w].pc \in Writing => DocOf(w) # d
    BY DEF Soundness, WorkerSound, Writing, Past
  <2>. QED
    BY <1>2, <2>1 DEF SeenOK, DocOf
<1>10. Listed(d)'
  BY <1>2, <1>7 DEF Listed, MemoryOK, ToSet
<1>. QED
  BY <1>8, <1>9, <1>10 DEF One

LEMMA NextReplaying ==
    ASSUME OneApi, TypeOK, MemoryOK, Replaying, [EitherNext]_eitherVars
    PROVE  Replaying'
<1>1. CASE UNCHANGED api /\ dlq \subseteq dlq'
  BY <1>1 DEF Replaying
<1>2. ASSUME NEW a \in Api, NEW t \in Tenant, NEW e \in dlq, Find(a, t, e) PROVE Replaying'
  <2>1. e.job \in Job /\ e.job.retry < MaxRetry
    BY <1>2 DEF Find, TypeOK, Entry
  <2>2. api'[a].id = e.id /\ api'[a].job.doc = e.job.doc /\ api'[a].job.tenant = e.job.tenant /\ dlq' = dlq
    BY <1>2, <2>1, RetriedType DEF Find, TypeOK
  <2>. QED
    BY <2>2 DEF Replaying, OneApi
<1>3. ASSUME NEW a \in Api, Upload(a) \/ Continue(a) \/ ApiAbort(a) PROVE Replaying'
  <2>1. api'[a].pc # "requeue"
    <3>1. CASE Upload(a)
      BY <3>1 DEF Upload, Store, TypeOK
    <3>2. CASE Enqueue(a) \/ Delete(a) \/ ApiAbort(a)
      BY <3>2 DEF Enqueue, Delete, ApiAbort, TypeOK, IdleApi
    <3>3. CASE Requeue(a)
      BY <3>3 DEF Requeue, TypeOK
    <3>. QED
      BY <1>3, <3>1, <3>2, <3>3 DEF Continue
  <2>. QED
    BY <2>1 DEF Replaying, OneApi
<1>4. ASSUME NEW w \in Worker, Work(w) \/ Failure(w) PROVE UNCHANGED api /\ dlq \subseteq dlq'
  BY <1>4 DEF Work, Failure, Take, Load, Mark, Reload, Index, Finish, Fail, Bury, Ack,
              Raise, IndexFails, FinishReplyLost, BuryAgain, WorkerAbort
<1>5. ASSUME inMemory, NEW w \in Worker, WriteInMemory(w) PROVE UNCHANGED api /\ dlq \subseteq dlq'
  BY <1>5, WriteFacts DEF WriteInMemory
<1>6. ASSUME inMemory, NEW a \in Api, NEW t \in Tenant, NEW p \in DOMAIN entries, ReplayInMemory(a, t, p)
      PROVE  Replaying'
  BY <1>6 DEF ReplayInMemory, MemoryOK, Replaying
<1>7. ASSUME NEW a \in Api, Resend(a) PROVE UNCHANGED api /\ dlq \subseteq dlq'
  BY <1>7 DEF Resend
<1>. QED
  BY <1>1, <1>2, <1>3, <1>4, <1>5, <1>6, <1>7, EitherStep DEF Next, vars, Replay

\* What a replay from the list leaves behind: no second job of d, none of the one it took.
LEMMA TakenOut ==
    ASSUME TypeOK, MemoryOK, inMemory, inMemory' = inMemory, NEW d \in Doc, Listed(d),
           NEW a \in Api, NEW t \in Tenant, NEW p \in DOMAIN entries, ReplayInMemory(a, t, p)
    PROVE  /\ Listed(d)'
           /\ JobOf(d, entries[p].job) => entries[p] \notin dlq'
<1> DEFINE q(k) == IF k < p THEN k ELSE k + 1
<1>1. /\ p \in 1 .. Len(entries) /\ entries \in Seq(Entry) /\ DOMAIN entries = 1 .. Len(entries)
      /\ entries' = RemoveAt(entries, p) /\ dlq' = ToSet(entries') /\ Len(entries) \in Nat
      /\ documents' = documents
  BY ReplayFacts DEF MemoryOK, ReplayInMemory
<1>2. /\ DOMAIN entries' = 1 .. Len(entries) - 1
      /\ \A k \in 1 .. Len(entries) - 1 : entries'[k] = IF k < p THEN entries[k] ELSE entries[k + 1]
  <2>1. /\ RemoveAt(entries, p) \in Seq(Entry) /\ Len(RemoveAt(entries, p)) = Len(entries) - 1
        /\ \A k \in 1 .. Len(entries) - 1 :
              RemoveAt(entries, p)[k] = IF k < p THEN entries[k] ELSE entries[k + 1]
    BY <1>1, RemoveAtFacts, Zenon
  <2>2. DOMAIN RemoveAt(entries, p) = 1 .. Len(entries) - 1
    BY <2>1, LenProperties
  <2>. QED
    BY <1>1, <2>1, <2>2
<1>3. \A k \in DOMAIN entries' : q(k) \in DOMAIN entries /\ q(k) # p /\ entries'[k] = entries[q(k)]
  BY <1>1, <1>2
<1>4. \A k, l \in DOMAIN entries' : q(k) = q(l) => k = l
  BY <1>1, <1>2
<1> HIDE DEF q
<1>5. Listed(d)'
  BY <1>1, <1>3, <1>4 DEF Listed, JobOf
<1>6. ASSUME JobOf(d, entries[p].job), entries[p] \in dlq' PROVE FALSE
  <2>1. PICK k \in DOMAIN entries' : entries'[k] = entries[p]
    BY <1>1, <1>6 DEF ToSet
  <2>. QED
    BY <1>3, <1>6, <2>1 DEF Listed
<1>. QED
  BY <1>5, <1>6

\* A worker's dlq.write to the list: its job is the only one of d, so it is the only one listed.
LEMMA WriteOne ==
    ASSUME TypeOK, MemoryOK, inMemory, inMemory' = inMemory,
           NEW d \in Doc, One(d), SeenOK(d), Listed(d), NEW w \in Worker, WriteInMemory(w)
    PROVE  One(d)' /\ SeenOK(d)' /\ Listed(d)'
<1>1. PICK e \in Entry : /\ e.job = worker[w].job /\ entries' = Append(entries, e)
                          /\ dlq' = dlq \cup {e}
  BY WriteFacts
<1>2. /\ documents' = documents /\ stream' = stream /\ api' = api
      /\ \A v \in Worker : v # w => worker'[v] = worker[v]
      /\ worker'[w].pc = "ack" /\ worker[w].pc \in Stage
  BY DEF WriteInMemory, Goto, TypeOK
<1>3. One(d)'
  BY <1>1, <1>2, WorkerBuries
<1>4. SeenOK(d)'
  <2>1. worker'[w].pc \notin Writing
    BY <1>2 DEF Writing
  <2>. QED
    BY <1>2, <2>1 DEF SeenOK, DocOf
<1>5. Listed(d)'
  <2>1. /\ Len(entries) \in Nat /\ DOMAIN entries = 1 .. Len(entries) /\ DOMAIN entries' = 1 .. Len(entries) + 1
        /\ \A k \in 1 .. Len(entries) + 1 : entries'[k] = IF k = Len(entries) + 1 THEN e ELSE entries[k]
    BY <1>1 DEF MemoryOK
  <2>2. ASSUME JobOf(d, e.job) PROVE \A k \in DOMAIN entries : ~JobOf(d, entries[k].job)
    <3>1. Works(w, d)
      BY <1>1, <1>2, <2>2 DEF Works, Stage
    <3>2. \A f \in dlq : ~Keeps(f, d)
      BY <3>1, OnlyOne DEF Only
    <3>. QED
      BY <3>2 DEF Keeps, MemoryOK, ToSet
  <2>3. ASSUME NEW k \in DOMAIN entries', NEW l \in DOMAIN entries',
               JobOf(d, entries'[k].job), JobOf(d, entries'[l].job)
        PROVE  k = l
    <3>1. CASE k = Len(entries) + 1 \/ l = Len(entries) + 1
      BY <2>1, <2>2, <2>3, <3>1
    <3>2. CASE k # Len(entries) + 1 /\ l # Len(entries) + 1
      <4>1. k \in DOMAIN entries /\ l \in DOMAIN entries /\ entries'[k] = entries[k] /\ entries'[l] = entries[l]
        BY <2>1, <3>2
      <4>. QED
        BY <2>3, <4>1 DEF Listed
    <3>. QED
      BY <3>1, <3>2
  <2>. QED
    BY <1>2, <2>3 DEF Listed, JobOf
<1>. QED
  BY <1>3, <1>4, <1>5

\* A replay from the list: the entry's job goes to the stream, and no copy stays behind.
LEMMA ReplayOne ==
    ASSUME TypeOK, MemoryOK, inMemory, inMemory' = inMemory,
           NEW d \in Doc, One(d), SeenOK(d), Listed(d),
           NEW a \in Api, NEW t \in Tenant, NEW p \in DOMAIN entries, ReplayInMemory(a, t, p)
    PROVE  One(d)' /\ SeenOK(d)' /\ Listed(d)'
<1>1. /\ documents' = documents /\ api' = api /\ worker' = worker /\ dlq' \subseteq dlq
      /\ \A job \in Job : stream[job] \in Nat
  BY ReplayFacts DEF ReplayInMemory, TypeOK
<1>2. PICK e \in dlq : e = entries[p] /\ e.job \in Job
  BY ReplayFacts
<1>3. PICK job \in Job : job = Retried(e.job) /\ job.doc = e.job.doc /\ job.tenant = e.job.tenant
  BY <1>2, ReplayFacts, RetriedType
<1>4. stream' = [stream EXCEPT ![job] = @ + 1]
  BY <1>2, <1>3 DEF ReplayInMemory, Put
<1>5. \A x : JobOf(d, x)' <=> JobOf(d, x)
  BY <1>1 DEF JobOf
<1>6. /\ \A b \in Api : Uploads(b, d)' <=> Uploads(b, d)
      /\ \A w \in Worker : Works(w, d)' <=> Works(w, d)
      /\ \A f \in dlq : Keeps(f, d)' <=> Keeps(f, d)
  BY <1>1, <1>5 DEF Uploads, Works, Keeps
<1>7. ASSUME JobOf(d, e.job) PROVE One(d)'
  <2>1. Keeps(e, d)
    BY <1>7 DEF Keeps, MemoryOK
  <2>2. Only(d, "dead", e)
    BY <2>1, OnlyOne
  <2>3. \A f \in dlq' : ~Keeps(f, d)'
    BY <1>1, <1>2, <1>6, <1>7, <2>2, TakenOut DEF Only
  <2>4. \A j \in Job : JobOf(d, j) /\ stream'[j] > 0 => j = job /\ stream'[j] = 1
    BY <1>1, <1>3, <1>4, <1>7, <2>2 DEF Only, TypeOK, JobOf
  <2>5. Only(d, "stream", job)'
    BY <1>5, <1>6, <2>2, <2>3, <2>4 DEF Only
  <2>. QED
    BY <2>5 DEF One
<1>8. ASSUME ~JobOf(d, e.job) PROVE One(d)'
  <2>1. \A j \in Job : JobOf(d, j) => stream'[j] = stream[j]
    BY <1>3, <1>4, <1>8 DEF TypeOK, JobOf
  <2>. QED
    BY <1>1, <1>6, <2>1, Shrinks
<1>9. SeenOK(d)'
  BY <1>1 DEF SeenOK, DocOf
<1>. QED
  BY <1>7, <1>8, <1>9, TakenOut

LEMMA NextOneInv ==
    ASSUME OneApi, NoneLost, TypeOK, MemoryOK, Soundness, OneInv, [EitherNext]_eitherVars
    PROVE  OneInv'
<1> SUFFICES ASSUME NEW d \in Doc, Stored(d)', Unstray(d)'
             PROVE  One(d)' /\ SeenOK(d)' /\ Listed(d)'
  BY NextReplaying DEF OneInv
<1>1. CASE ~Stored(d)
  BY <1>1, Fresh
<1>2. CASE Stored(d)
  <2>0. inMemory' = inMemory
    BY EitherStep
  <2>1. ASSUME documents'[d].tenant = documents[d].tenant PROVE One(d) /\ SeenOK(d) /\ Listed(d)
    BY <1>2, <2>1 DEF OneInv, Unstray, JobOf
  <2>2. ASSUME inMemory, NEW w \in Worker, WriteInMemory(w) PROVE One(d)' /\ SeenOK(d)' /\ Listed(d)'
    <3>1. documents' = documents
      BY <2>2 DEF WriteInMemory
    <3>. QED
      BY <2>0, <2>1, <2>2, <3>1, WriteOne
  <2>3. ASSUME inMemory, NEW a \in Api, NEW t \in Tenant, NEW p \in DOMAIN entries, ReplayInMemory(a, t, p)
        PROVE  One(d)' /\ SeenOK(d)' /\ Listed(d)'
    <3>1. documents' = documents
      BY <2>3 DEF ReplayInMemory
    <3>. QED
      BY <2>0, <2>1, <2>3, <3>1, ReplayOne
  <2>4. CASE [Next]_vars /\ entries' = entries
    <3>1. documents'[d].tenant = documents[d].tenant
      BY <1>2, <2>4, RowsStay DEF RowStays
    <3>2. One(d) /\ SeenOK(d) /\ Listed(d)
      BY <2>1, <3>1
    <3>3. SeenOK(d)'
      BY <2>4, <3>2, OneIsAlone, SeenStays
    <3>4. Listed(d)'
      BY <2>0, <2>4, <3>1, <3>2 DEF Listed, JobOf
    <3>5. One(d)'
      <4>1. CASE UNCHANGED vars
        <5>1. PICK kind, x : Only(d, kind, x)
          BY <3>2 DEF One
        <5>2. Only(d, kind, x)'
          BY <4>1, <5>1 DEF vars, Only, Uploads, JobOf, Works, Keeps
        <5>. QED
          BY <5>2 DEF One
      <4>2. CASE Next
        BY <1>2, <2>4, <3>2, <4>2, ApiOne, WorkerOne DEF Next, OneInv
      <4>. QED
        BY <2>4, <4>1, <4>2
    <3>. QED
      BY <3>3, <3>4, <3>5
  <2>. QED
    BY <2>2, <2>3, <2>4, EitherStep
<1>. QED
  BY <1>1, <1>2

LEMMA InitOneInv == EitherInit => OneInv
  BY DEF EitherInit, Init, OneInv, Replaying, IdleApi, Stored, NoRow

\* A set with one possible element has one element at most.
LEMMA AtMostOne ==
    ASSUME NEW S, NEW x, S \subseteq {x}
    PROVE  Cardinality(S) \in {0, 1} /\ (S = {} => Cardinality(S) = 0)
<1>1. Cardinality({}) = 0 /\ Cardinality({x}) = 1
  BY FS_EmptySet, FS_Singleton
<1>2. S = {} \/ S = {x}
  OBVIOUS
<1>. QED
  BY <1>1, <1>2

LEMMA OneInvCounts == TypeOK /\ OneInv => OneJobPerDocument
<1> SUFFICES ASSUME TypeOK, OneInv, NEW d \in Doc, Stored(d), Unstray(d)
             PROVE  Cardinality({a \in Api : Uploads(a, d)})
                    + Cardinality({p \in Job \X (1..2) : JobOf(d, p[1]) /\ p[2] <= stream[p[1]]})
                    + Cardinality({w \in Worker : Works(w, d)})
                    + Cardinality({e \in dlq : Keeps(e, d)})
                    <= 1
  BY DEF OneJobPerDocument, Unstray
<1> DEFINE U == {a \in Api : Uploads(a, d)}
           Q == {p \in Job \X (1..2) : JobOf(d, p[1]) /\ p[2] <= stream[p[1]]}
           W == {w \in Worker : Works(w, d)}
           K == {e \in dlq : Keeps(e, d)}
<1>1. PICK kind, x : Only(d, kind, x)
  BY DEF OneInv, One
<1>2. /\ U \subseteq {x} /\ (kind # "upload" => U = {})
      /\ W \subseteq {x} /\ (kind # "worker" => W = {})
      /\ K \subseteq {x} /\ (kind # "dead" => K = {})
  BY <1>1 DEF Only
<1>3. Q \subseteq {<<x, 1>>} /\ (kind # "stream" => Q = {})
  <2>1. ASSUME NEW job \in Job, NEW n \in 1 .. 2, JobOf(d, job), n <= stream[job]
        PROVE  kind = "stream" /\ job = x /\ n = 1
    <3>1. stream[job] \in Nat /\ stream[job] > 0
      BY <2>1 DEF TypeOK
    <3>. QED
      BY <1>1, <2>1, <3>1 DEF Only
  <2>2. ASSUME NEW p \in Q PROVE kind = "stream" /\ p = <<x, 1>>
    <3>1. PICK job \in Job, n \in 1 .. 2 : p = <<job, n>> /\ JobOf(d, job) /\ n <= stream[job]
      BY <2>2
    <3>. QED
      BY <2>1, <3>1
  <2>. QED
    BY <2>2
<1> HIDE DEF U, Q, W, K
<1>4. /\ Cardinality(U) \in {0, 1} /\ (kind # "upload" => Cardinality(U) = 0)
      /\ Cardinality(Q) \in {0, 1} /\ (kind # "stream" => Cardinality(Q) = 0)
      /\ Cardinality(W) \in {0, 1} /\ (kind # "worker" => Cardinality(W) = 0)
      /\ Cardinality(K) \in {0, 1} /\ (kind # "dead" => Cardinality(K) = 0)
  BY <1>2, <1>3, AtMostOne
<1>5. Cardinality(U) + Cardinality(Q) + Cardinality(W) + Cardinality(K) <= 1
  BY <1>4
<1>. QED
  BY <1>5 DEF U, Q, W, K

\* Replaying moves a job and never copies it: with one API process, and while no call to Redis
\* fails and no process dies, a document has one live job at most, with any number of workers,
\* whether a job is acknowledged early or late, and whichever dead-letter queue there is.
THEOREM OneJobSafety ==
    ASSUME OneApi, NoneLost
    PROVE  EitherSpec => []OneJobPerDocument
<1>1. EitherInit => Soundness /\ OneInv
  BY InitSoundness, InitOneInv DEF EitherInit
<1>2. TypeOK /\ MemoryOK /\ Soundness /\ OneInv /\ [EitherNext]_eitherVars => OneInv'
  BY NextOneInv
<1>. QED
  BY <1>1, <1>2, EitherTypeCorrectness, EitherSoundness, OneInvCounts, PTL DEF EitherSpec

-----------------------------------------------------------------------------
(* A document's row tells one story                                        *)

\* RowIsCoherent for one document, and what it needs before there is a row.
Coherent(d) ==
    /\ documents[d].status = "indexed" => ~documents[d].error
    /\ documents[d].status = "failed" => documents[d].error
    /\ documents[d].status \in {"absent", "pending"} => held[d].chunks = 0 /\ ~documents[d].error

\* A worker that has seen the row as it is leaves a coherent one.
LEMMA CoherentStays ==
    ASSUME TypeOK, [Next]_vars, NEW d \in Doc, SeenOK(d), Coherent(d)
    PROVE  Coherent(d)'
<1>1. ASSUME NEW a \in Api, NEW t \in Tenant, NEW x \in Doc, Store(a, t, x) PROVE Coherent(d)'
  <2>1. CASE x = d
    <3>1. documents'[d].status = "pending" /\ documents'[d].error = FALSE /\ held' = held
      BY <1>1, <2>1 DEF Store, TypeOK, NoRow
    <3>2. documents[d].status = "absent"
      BY <1>1, <2>1 DEF Store, Stored
    <3>. QED
      BY <3>1, <3>2 DEF Coherent
  <2>2. CASE x # d
    BY <1>1, <2>2 DEF Store, TypeOK, Coherent
  <2>. QED
    BY <2>1, <2>2
<1>2. ASSUME NEW w \in Worker, Mark(w) PROVE Coherent(d)'
  <2>1. CASE DocOf(w) = d
    <3>1. documents' = Written(d, documents[d], "indexing", documents[d].chunk_count, documents[d].error)
      BY <1>2, <2>1 DEF Mark, SeenOK, Writing
    <3>2. documents'[d].status = "indexing"
      BY <3>1 DEF Written, TypeOK, Row
    <3>. QED
      BY <3>2 DEF Coherent
  <2>2. CASE DocOf(w) # d
    BY <1>2, <2>2 DEF Mark, Written, TypeOK, Coherent
  <2>. QED
    BY <2>1, <2>2
<1>3. ASSUME NEW w \in Worker, Finish(w) \/ FinishReplyLost(w) PROVE Coherent(d)'
  <2>1. CASE DocOf(w) = d
    <3>1. documents' = Written(d, documents[d], "indexed", ChunkCount[d], FALSE)
      BY <1>3, <2>1 DEF Finish, FinishReplyLost, SeenOK, Writing
    <3>2. documents'[d].status = "indexed"
      BY <3>1 DEF Written, TypeOK, Row
    <3>3. documents'[d].error = FALSE
      <4> DEFINE er == IF documents[d].error # FALSE THEN FALSE ELSE documents[d].error
      <4>1. documents[d].error \in BOOLEAN /\ d \in DOMAIN documents /\ "error" \in DOMAIN documents[d]
        BY DEF TypeOK, Row
      <4>2. er = FALSE
        BY <4>1
      <4>3. documents'[d].error = er
        BY <3>1, <4>1, Zenon DEF Written
      <4>. QED
        BY <4>2, <4>3
    <3>. QED
      BY <3>2, <3>3 DEF Coherent
  <2>2. CASE DocOf(w) # d
    BY <1>3, <2>2 DEF Finish, FinishReplyLost, Written, TypeOK, Coherent
  <2>. QED
    BY <2>1, <2>2
<1>4. ASSUME NEW w \in Worker, Fail(w) PROVE Coherent(d)'
  <2>1. CASE DocOf(w) = d
    <3>1. documents'[d].status = "failed" /\ documents'[d].error = TRUE
      BY <1>4, <2>1 DEF Fail, TypeOK, Row
    <3>. QED
      BY <3>1 DEF Coherent
  <2>2. CASE DocOf(w) # d
    BY <1>4, <2>2 DEF Fail, TypeOK, Coherent
  <2>. QED
    BY <2>1, <2>2
<1>5. ASSUME NEW w \in Worker, Index(w) \/ IndexFails(w) PROVE Coherent(d)'
  <2>1. documents' = documents /\ worker[w].pc = "index"
    BY <1>5 DEF Index, IndexFails
  <2>2. CASE DocOf(w) = d
    <3>1. documents[d].status = "indexing"
      BY <2>1, <2>2 DEF SeenOK, Writing
    <3>. QED
      BY <2>1, <3>1 DEF Coherent
  <2>3. CASE DocOf(w) # d
    <3>1. held'[d] = held[d]
      BY <1>5, <2>3 DEF Index, IndexFails, Indexed, TypeOK
    <3>. QED
      BY <2>1, <3>1 DEF Coherent
  <2>. QED
    BY <2>2, <2>3
<1>6. CASE UNCHANGED <<documents, held>>
  BY <1>6 DEF Coherent
<1>. QED
  BY <1>1, <1>2, <1>3, <1>4, <1>5, <1>6
     DEF Next, vars, Upload, Replay, Continue, Work, Failure, Enqueue, Find, Requeue, Delete,
         Resend, ApiAbort, Take, Load, Reload, Bury, Ack, Raise, BuryAgain, WorkerAbort

\* The calls of the list write no row and no chunk, and leave the worker at "ack".
LEMMA ListCalls ==
    ASSUME TypeOK, NEW d \in Doc, SeenOK(d), Coherent(d),
           \/ \E w \in Worker : WriteInMemory(w)
           \/ \E a \in Api, t \in Tenant, p \in DOMAIN entries : ReplayInMemory(a, t, p)
    PROVE  SeenOK(d)' /\ Coherent(d)'
<1>1. documents' = documents /\ held' = held
  BY DEF WriteInMemory, ReplayInMemory
<1>2. \A w \in Worker : worker'[w].pc \in Writing => worker'[w] = worker[w]
  BY DEF WriteInMemory, ReplayInMemory, Goto, TypeOK, Writing
<1>. QED
  BY <1>1, <1>2 DEF SeenOK, Coherent, DocOf

LEMMA InitCoherent == EitherInit => \A d \in Doc : SeenOK(d) /\ Coherent(d)
  BY DEF EitherInit, Init, SeenOK, Coherent, IdleWorker, NoRow, NoShare, Writing

LEMMA CoherentRows == (\A d \in Doc : Coherent(d)) => RowIsCoherent
  BY DEF Coherent, RowIsCoherent

\* With one worker a row tells one story, whatever fails, is delivered twice, is replayed twice
\* or was put on the stream by others: "indexed" has no error, "failed" has one, and "pending"
\* means that no worker has touched the document.
THEOREM OneWorkerRows ==
    ASSUME \A v, w \in Worker : v = w
    PROVE  EitherSpec => []RowIsCoherent
<1> DEFINE Rows == \A d \in Doc : SeenOK(d) /\ Coherent(d)
<1>1. ASSUME TypeOK, Soundness, Rows, [EitherNext]_eitherVars, NEW d \in Doc
      PROVE  SeenOK(d)' /\ Coherent(d)'
  <2>1. Alone(d)
    BY DEF Alone
  <2>. QED
    BY <1>1, <2>1, SeenStays, CoherentStays, ListCalls, EitherStep
<1>2. TypeOK /\ Soundness /\ Rows /\ [EitherNext]_eitherVars => Rows'
  BY <1>1
<1>3. EitherInit => Soundness /\ Rows
  BY InitSoundness, InitCoherent DEF EitherInit
<1>4. Rows => RowIsCoherent
  BY CoherentRows
<1> HIDE DEF Rows
<1>. QED
  BY <1>2, <1>3, <1>4, EitherTypeCorrectness, EitherSoundness, PTL DEF EitherSpec

\* With any number of workers it does where each document has one live job at a time.
THEOREM OneJobRows ==
    ASSUME OneApi, NoneLost, StrayJob = {}
    PROVE  EitherSpec => []RowIsCoherent
<1> DEFINE Rows == \A d \in Doc : Coherent(d)
<1>1. ASSUME TypeOK, Soundness, OneInv, Rows, [EitherNext]_eitherVars, NEW d \in Doc
      PROVE  Coherent(d)'
  <2>1. SeenOK(d)
    <3>1. CASE Stored(d)
      BY <1>1, <3>1 DEF OneInv, Unstray
    <3>2. CASE ~Stored(d)
      BY <1>1, <3>2 DEF SeenOK, Writing, Soundness, WorkerSound, Past
    <3>. QED
      BY <3>1, <3>2
  <2>. QED
    BY <1>1, <2>1, CoherentStays, ListCalls, EitherStep
<1>2. TypeOK /\ Soundness /\ OneInv /\ Rows /\ [EitherNext]_eitherVars => Rows'
  BY <1>1
<1>3. EitherInit => Soundness /\ OneInv /\ Rows
  BY InitSoundness, InitOneInv, InitCoherent DEF EitherInit
<1>4. TypeOK /\ MemoryOK /\ Soundness /\ OneInv /\ [EitherNext]_eitherVars => OneInv'
  BY NextOneInv
<1>5. Rows => RowIsCoherent
  BY CoherentRows
<1> HIDE DEF Rows
<1>. QED
  BY <1>2, <1>3, <1>4, <1>5, EitherTypeCorrectness, EitherSoundness, PTL DEF EitherSpec

-----------------------------------------------------------------------------
(* Chunks that are in the index twice                                      *)

\* Where a worker has not indexed its job yet.
Early == {"load", "mark", "reload", "index"}

\* Whatever job of d is still to be indexed was replayed.
AllReplayed(d) ==
    /\ \A a \in Api : ~Uploads(a, d)
    /\ \A job \in Job : JobOf(d, job) /\ stream[job] > 0 => job.retry > 0
    /\ \A w \in Worker : worker[w].pc \in Early /\ JobOf(d, worker[w].job) => worker[w].job.retry > 0

\* A replay queues a job with its retry count raised.
Raised == \A a \in Api : api[a].pc = "requeue" => api[a].job.retry > 0

\* Once d has chunks in the index, only a replay indexes it again.
IndexedBefore(d) == held[d].chunks > 0 => Stored(d) /\ (Unstray(d) => AllReplayed(d))

LEMMA RaisedRetry == ASSUME NEW job \in Job PROVE Retried(job).retry > 0
  BY ConstantsAssumption DEF Retried, Job

LEMMA NextRaised == TypeOK /\ Raised /\ [EitherNext]_eitherVars => Raised'
<1> SUFFICES ASSUME TypeOK, Raised, [EitherNext]_eitherVars, NEW a \in Api, api'[a].pc = "requeue"
             PROVE  api'[a].job.retry > 0
  BY DEF Raised
<1>1. CASE api'[a] = api[a]
  BY <1>1 DEF Raised
<1>2. ASSUME NEW b \in Api, NEW t \in Tenant, NEW e \in dlq, Find(b, t, e)
      PROVE  api'[a] = api[a] \/ api'[a].job.retry > 0
  <2>1. e.job \in Job
    BY DEF TypeOK, Entry
  <2>. QED
    BY <1>2, <2>1, RaisedRetry DEF Find, TypeOK
<1>3. ASSUME NEW b \in Api, Upload(b) \/ Continue(b) \/ Resend(b) \/ ApiAbort(b) PROVE api'[a] = api[a]
  <2>1. b # a => api'[a] = api[a]
    BY <1>3 DEF Upload, Store, Continue, Enqueue, Requeue, Delete, Resend, ApiAbort, TypeOK
  <2>2. CASE Upload(a)
    BY <2>2 DEF Upload, Store, TypeOK
  <2>3. CASE Enqueue(a) \/ Delete(a) \/ ApiAbort(a)
    BY <2>3 DEF Enqueue, Delete, ApiAbort, IdleApi, TypeOK
  <2>4. CASE Requeue(a)
    BY <2>4 DEF Requeue, TypeOK
  <2>5. CASE Resend(a)
    BY <2>5 DEF Resend
  <2>. QED
    BY <1>3, <2>1, <2>2, <2>3, <2>4, <2>5 DEF Continue
<1>4. ASSUME NEW w \in Worker, Work(w) \/ Failure(w) \/ WriteInMemory(w) PROVE api' = api
  BY <1>4 DEF Work, Failure, Take, Load, Mark, Reload, Index, Finish, Fail, Bury, Ack,
              Raise, IndexFails, FinishReplyLost, BuryAgain, WorkerAbort, WriteInMemory
<1>5. ASSUME NEW b \in Api, NEW t \in Tenant, NEW p \in DOMAIN entries, ReplayInMemory(b, t, p)
      PROVE  api' = api
  BY <1>5 DEF ReplayInMemory
<1>. QED
  BY <1>1, <1>2, <1>3, <1>4, <1>5, EitherStep DEF Next, vars, Replay

\* Only index_chunks changes what the index has of d.
LEMMA IndexSteps ==
    ASSUME TypeOK, [EitherNext]_eitherVars, NEW d \in Doc, held'[d] # held[d]
    PROVE  \E w \in Worker : (Index(w) \/ IndexFails(w)) /\ DocOf(w) = d
<1>1. ASSUME NEW w \in Worker, Index(w) \/ IndexFails(w) PROVE DocOf(w) = d
  BY <1>1 DEF Index, IndexFails, Indexed, TypeOK
<1>2. CASE UNCHANGED held
  BY <1>2
<1>3. [Next]_vars
  BY <1>2, EitherStep DEF WriteInMemory, ReplayInMemory
<1>. QED
  BY <1>1, <1>2, <1>3
     DEF Next, vars, Upload, Replay, Continue, Work, Failure, Store, Enqueue, Find, Requeue, Delete,
         Resend, ApiAbort, Take, Load, Mark, Reload, Finish, Fail, Bury, Ack, Raise,
         FinishReplyLost, BuryAgain, WorkerAbort

\* Only the consumer brings a worker to "load".
LEMMA LoadSteps ==
    ASSUME TypeOK, [Next]_vars, NEW w \in Worker, worker'[w].pc = "load", worker'[w] # worker[w]
    PROVE  \E job \in Job : Take(w, job)
<1>1. ASSUME NEW pc, Goto(w, pc), pc # "load" PROVE FALSE
  BY <1>1 DEF Goto, TypeOK
<1>2. ASSUME NEW v \in Worker, Work(v) \/ Failure(v) PROVE v = w
  BY <1>2 DEF Work, Failure, Goto, TypeOK, Take, Load, Mark, Reload, Index, Finish, Fail,
              Bury, Ack, Raise, IndexFails, FinishReplyLost, BuryAgain, WorkerAbort
<1>3. ~Load(w) /\ ~Reload(w) /\ ~Ack(w) /\ ~WorkerAbort(w)
  BY DEF Load, Reload, Ack, WorkerAbort, IdleWorker, TypeOK
<1>4. ~Mark(w) /\ ~Index(w) /\ ~Finish(w) /\ ~Fail(w) /\ ~Bury(w) /\ ~Raise(w) /\ ~IndexFails(w)
      /\ ~FinishReplyLost(w) /\ ~BuryAgain(w)
  BY <1>1 DEF Mark, Index, Finish, Fail, Bury, Raise, IndexFails, FinishReplyLost, BuryAgain
<1>5. ASSUME NEW a \in Api, Upload(a) \/ Replay(a) \/ Continue(a) \/ Resend(a) \/ ApiAbort(a) PROVE FALSE
  BY <1>5 DEF Upload, Replay, Continue, Resend, ApiAbort, Store, Enqueue, Find, Requeue, Delete
<1>. QED
  BY <1>2, <1>3, <1>4, <1>5 DEF Next, vars, Work, Failure

\* No step but a replay gives d another job to index.
LEMMA AllReplayedStays ==
    ASSUME NoneLost, ~AckLate, TypeOK, MemoryOK, Raised, [EitherNext]_eitherVars,
           NEW d \in Doc, Stored(d), AllReplayed(d)
    PROVE  AllReplayed(d)'
<1>1. ASSUME inMemory, NEW w \in Worker, WriteInMemory(w) PROVE AllReplayed(d)'
  <2>1. documents' = documents /\ stream' = stream /\ api' = api
    BY <1>1 DEF WriteInMemory
  <2>2. \A v \in Worker : worker'[v].pc \in Early => worker'[v] = worker[v]
    BY <1>1 DEF WriteInMemory, Goto, TypeOK, Early
  <2>. QED
    BY <2>1, <2>2 DEF AllReplayed, Uploads, JobOf
<1>2. ASSUME inMemory, NEW a \in Api, NEW t \in Tenant, NEW p \in DOMAIN entries, ReplayInMemory(a, t, p)
      PROVE  AllReplayed(d)'
  <2>1. documents' = documents /\ api' = api /\ worker' = worker
    BY <1>2 DEF ReplayInMemory
  <2>2. PICK job \in Job : job = Retried(entries[p].job) /\ job.retry > 0
    BY <1>2, ReplayFacts, RetriedType, RaisedRetry
  <2>3. \A j \in Job : stream'[j] > 0 => stream[j] > 0 \/ j = job
    BY <1>2, <2>2 DEF ReplayInMemory, Put, TypeOK
  <2>. QED
    BY <2>1, <2>2, <2>3 DEF AllReplayed, Uploads, JobOf
<1>3. CASE [Next]_vars
  <2>d. \A job : JobOf(d, job)' <=> JobOf(d, job)
    BY <1>3, RowsStay DEF RowStays, JobOf
  <2>1. ASSUME NEW a \in Api, Uploads(a, d)' PROVE FALSE
    <3>1. api'[a] # api[a]
      BY <2>1, <2>d DEF AllReplayed, Uploads
    <3>2. ASSUME NEW b \in Api, NEW t \in Tenant, NEW x \in Doc, Store(b, t, x) PROVE ~Uploads(a, d)'
      <4>1. x # d
        BY <3>2 DEF Store
      <4>. QED
        BY <2>d, <3>1, <3>2, <4>1 DEF Store, Uploads, JobOf, TypeOK
    <3>3. ASSUME NEW b \in Api, Replay(b) \/ Continue(b) \/ Resend(b) \/ ApiAbort(b)
          PROVE  api'[a].pc # "enqueue"
      BY <3>1, <3>3 DEF Replay, Find, Continue, Enqueue, Requeue, Delete, Resend, ApiAbort, IdleApi, TypeOK
    <3>4. ASSUME NEW w \in Worker, Work(w) \/ Failure(w) PROVE api' = api
      BY <3>4 DEF Work, Failure, Take, Load, Mark, Reload, Index, Finish, Fail, Bury, Ack,
                  Raise, IndexFails, FinishReplyLost, BuryAgain, WorkerAbort
    <3>. QED
      BY <1>3, <2>1, <3>1, <3>2, <3>3, <3>4 DEF Next, vars, Upload, Uploads
  <2>2. ASSUME NEW job \in Job, JobOf(d, job), stream'[job] > 0 PROVE job.retry > 0
    <3>1. CASE stream[job] > 0
      BY <2>2, <3>1 DEF AllReplayed
    <3>2. ASSUME NEW a \in Api, Enqueue(a) PROVE stream[job] > 0
      <4>1. ~JobOf(d, api[a].job)
        BY <3>2 DEF Enqueue, AllReplayed, Uploads
      <4>. QED
        BY <2>2, <3>2, <4>1 DEF Enqueue, Put, TypeOK
    <3>3. ASSUME NEW a \in Api, Requeue(a) PROVE stream[job] > 0 \/ job.retry > 0
      BY <2>2, <3>3 DEF Requeue, Put, Raised, TypeOK
    <3>4. ASSUME NEW w \in Worker, NEW j \in Job, Take(w, j) PROVE stream[job] > 0
      BY <2>2, <3>4 DEF Take, TypeOK
    <3>5. ASSUME UNCHANGED stream PROVE stream[job] > 0
      BY <2>2, <3>5
    <3>. QED
      BY <1>3, <3>1, <3>2, <3>3, <3>4, <3>5, Failures
         DEF Next, vars, Upload, Replay, Continue, Work, Failure, Store, Find, Delete, ApiAbort, Load,
             Mark, Reload, Index, Finish, Fail, Bury, Ack, Raise, IndexFails, FinishReplyLost, WorkerAbort
  <2>3. ASSUME NEW w \in Worker, worker'[w].pc \in Early, JobOf(d, worker'[w].job)
        PROVE  worker'[w].job.retry > 0
    <3>1. CASE worker'[w] = worker[w]
      BY <2>3, <3>1 DEF AllReplayed
    <3>2. ASSUME NEW j \in Job, Take(w, j) PROVE worker'[w].job.retry > 0
      BY <2>3, <3>2 DEF Take, AllReplayed, TypeOK
    <3>3. CASE worker'[w].pc = "load"
      <4>1. worker'[w] = worker[w] \/ \E j \in Job : Take(w, j)
        BY <1>3, <3>3, LoadSteps
      <4>. QED
        BY <3>1, <3>2, <4>1
    <3>4. CASE worker'[w].pc # "load" /\ worker'[w] # worker[w]
      <4>1. worker'[w].pc \in Writing
        BY <2>3, <3>4 DEF Early, Writing
      <4>2. Load(w) \/ Mark(w) \/ Reload(w) \/ Index(w)
        BY <1>3, <3>4, <4>1, WritingSteps
      <4>3. worker'[w].job = worker[w].job /\ (~Index(w) => worker[w].pc \in Early)
        BY <4>2 DEF Load, Mark, Reload, Index, Goto, TypeOK, Early
      <4>4. ~Index(w)
        BY <2>3, <3>4 DEF Index, Goto, TypeOK, Early
      <4>. QED
        BY <2>3, <4>3, <4>4 DEF AllReplayed
    <3>. QED
      BY <3>1, <3>3, <3>4
  <2>. QED
    BY <2>1, <2>2, <2>3, <2>d DEF AllReplayed
<1>. QED
  BY <1>1, <1>2, <1>3, EitherStep

\* The worker that indexes d has its only job, and has done with the index afterwards.
LEMMA NoneIsLeft ==
    ASSUME TypeOK, Soundness, NEW d \in Doc, One(d), SeenOK(d),
           NEW w \in Worker, Index(w) \/ IndexFails(w), DocOf(w) = d
    PROVE  AllReplayed(d)'
<1>1. /\ documents' = documents /\ stream' = stream /\ api' = api
      /\ \A v \in Worker : v # w => worker'[v] = worker[v]
      /\ worker'[w].pc \notin Early /\ worker[w].pc = "index"
  BY DEF Index, IndexFails, Goto, TypeOK, Early
<1>2. ASSUME NEW v \in Worker, worker[v].pc \in Early, JobOf(d, worker[v].job) PROVE Works(v, d)
  <2>1. worker[v].pc = "index" => worker[v].seen.status = "indexing"
    BY <1>2 DEF JobOf, DocOf, SeenOK, Writing
  <2>. QED
    BY <1>2, <2>1 DEF Works, Early
<1>3. Works(w, d)
  <2>1. JobOf(d, worker[w].job)
    BY <1>1, WorkerOnDoc DEF Past
  <2>. QED
    BY <1>1, <1>2, <2>1 DEF Early
<1>4. Only(d, "worker", w)
  BY <1>3, OnlyOne
<1>. QED
  BY <1>1, <1>2, <1>4 DEF AllReplayed, Only, Uploads, JobOf

LEMMA NextIndexedBefore ==
    ASSUME NoneLost, ~AckLate, TypeOK, MemoryOK, Soundness, OneInv, Raised, [EitherNext]_eitherVars,
           NEW d \in Doc, IndexedBefore(d)
    PROVE  IndexedBefore(d)'
<1> SUFFICES ASSUME held'[d].chunks > 0 PROVE Stored(d)' /\ (Unstray(d)' => AllReplayed(d)')
  BY DEF IndexedBefore
<1>1. ASSUME Stored(d) PROVE Stored(d)' /\ (Unstray(d)' => Unstray(d))
  <2>1. RowStays(d)
    BY EitherStep, RowsStay DEF WriteInMemory, ReplayInMemory, RowStays, Stored
  <2>. QED
    BY <1>1, <2>1 DEF RowStays, Unstray, JobOf
<1>2. CASE held'[d] = held[d]
  BY <1>1, <1>2, AllReplayedStays DEF IndexedBefore
<1>3. ASSUME NEW w \in Worker, Index(w) \/ IndexFails(w), DocOf(w) = d
      PROVE  Stored(d)' /\ (Unstray(d)' => AllReplayed(d)')
  <2>1. Stored(d)
    BY <1>3 DEF Soundness, WorkerSound, Past, Index, IndexFails
  <2>. QED
    BY <1>1, <1>3, <2>1, NoneIsLeft DEF OneInv
<1>. QED
  BY <1>2, <1>3, IndexSteps

\* index_chunks appends, so every further run of a job repeats chunks.  Where a job runs once
\* for each time it is queued, with one API process, and while no call to Redis fails and no
\* process dies, such a run is always a replay: with any number of workers, whichever
\* dead-letter queue there is, and whatever fails in Postgres or in the index.
THEOREM RepeatSafety ==
    ASSUME OneApi, NoneLost, ~AckLate
    PROVE  EitherSpec => OnlyReplaysRepeat
<1> DEFINE Before == \A d \in Doc : IndexedBefore(d)
<1>1. EitherInit => Soundness /\ OneInv /\ Raised /\ Before
  BY InitSoundness, InitOneInv
     DEF EitherInit, Init, Raised, IdleApi, IndexedBefore, NoShare
<1>2. TypeOK /\ MemoryOK /\ Soundness /\ OneInv /\ [EitherNext]_eitherVars => OneInv'
  BY NextOneInv
<1>3. TypeOK /\ MemoryOK /\ Soundness /\ OneInv /\ Raised /\ Before /\ [EitherNext]_eitherVars => Before'
  BY NextIndexedBefore
<1>4. ASSUME TypeOK, MemoryOK, Soundness, Before, EitherNext, NEW d \in Doc,
             Stored(d), Unstray(d), ~held[d].twice, held'[d].twice
      PROVE  \E w \in Worker : worker[w].pc = "index" /\ DocOf(w) = d /\ worker[w].job.retry > 0
  <2>1. PICK w \in Worker : (Index(w) \/ IndexFails(w)) /\ DocOf(w) = d
    BY <1>4, IndexSteps
  <2>2. worker[w].pc = "index"
    BY <2>1 DEF Index, IndexFails
  <2>3. \E k : held' = Indexed(d, k)
    BY <2>1 DEF Index, IndexFails
  <2>4. held[d].chunks > 0
    BY <1>4, <2>3 DEF Indexed, TypeOK, Share
  <2>5. JobOf(d, worker[w].job)
    BY <1>4, <2>1, <2>2, WorkerOnDoc DEF Past
  <2>. QED
    BY <1>4, <2>1, <2>2, <2>4, <2>5 DEF IndexedBefore, AllReplayed, Early
<1>5. TypeOK /\ MemoryOK /\ Soundness /\ Before /\ [EitherNext]_eitherVars =>
        [\A d \in Doc :
            Stored(d) /\ (\A s \in StrayJob : ~JobOf(d, s)) /\ ~held[d].twice /\ held'[d].twice =>
               \E w \in Worker :
                  worker[w].pc = "index" /\ DocOf(w) = d /\ worker[w].job.retry > 0]_eitherVars
  BY <1>4 DEF Unstray
<1> HIDE DEF Before
<1>. QED
  BY <1>1, <1>2, <1>3, <1>5, EitherTypeCorrectness, EitherSoundness, NextRaised, PTL
     DEF EitherSpec, OnlyReplaysRepeat
=============================================================================
