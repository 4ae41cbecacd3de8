------------------------------ MODULE MemoryDLQ ------------------------------
(***************************************************************************)
(* Ingestion with either dead-letter queue.  InMemoryDLQ keeps a list in   *)
(* the one process that serves everything, and numbers an entry by the     *)
(* length of the list: once an entry was replayed, ids are given again,    *)
(* to entries of the same or of another tenant.  Its calls do not fail, so *)
(* dlq.write and replay are one step each: replay pops the entry and puts  *)
(* its job on the queue of the same process, with no await and no call     *)
(* that could fail between the two.  It is used with the in-memory         *)
(* ingestion queue, and is as durable as its process: instances in which   *)
(* inMemory may hold have neither "redis" nor "crash" among FaultKind.     *)
(***************************************************************************)
EXTENDS Ingestion, SequencesExt

VARIABLES
    inMemory,  \* TRUE: the service has an InMemoryDLQ
    entries,   \* its list; dlq is the set of its members
    replayed   \* HISTORY: the call of InMemoryDLQ.replay that the last step was:
               \* who asked for which id, and the job it answered with

eitherVars == <<vars, inMemory, entries, replayed>>

NoReplay == [caller |-> None, id |-> 0, job |-> None]

EitherInit == Init /\ entries = <<>> /\ inMemory \in BOOLEAN /\ replayed = NoReplay

SetEntries(list) == entries' = list /\ dlq' = ToSet(list)

\* dlq.write: the id is the entry's place in the list.
WriteInMemory(w) ==
    /\ worker[w].pc \in Stage
    /\ SetEntries(Append(entries, [id |-> Len(entries) + 1, job |-> worker[w].job,
                                   stage |-> worker[w].pc]))
    /\ Goto(w, "ack")
    /\ UNCHANGED <<documents, stream, held, dlqId, api, faults, lost>>

\* PLAUSIBLE BUG: all entries with the id are dropped.
WithoutId(p) == SelectSeq(entries, LAMBDA e : e.id # entries[p].id)

\* self.entries.pop(index)
Without(p) == RemoveAt(entries, p)

\* PLAUSIBLE BUG: the caller has an entry with this id, but the first with it is taken.
FindsAny(p, id, t) ==
    /\ \E q \in DOMAIN entries : entries[q].id = id /\ entries[q].job.tenant = t
    /\ entries[p].id = id
    /\ \A q \in 1 .. p - 1 : entries[q].id # id

\* The entry replay finds: the first with this id that belongs to the caller.
Finds(p, id, t) ==
    LET matches(q) == entries[q].id = id /\ entries[q].job.tenant = t
    IN  matches(p) /\ \A q \in 1 .. p - 1 : ~matches(q)

ReplayInMemory(a, t, p) ==
    /\ api[a].pc = "idle"
    /\ Finds(p, entries[p].id, t)
    /\ entries[p].job.retry < MaxRetry
    /\ SetEntries(Without(p))
    /\ Put(Retried(entries[p].job))
    /\ replayed' = [caller |-> t, id |-> entries[p].id, job |-> Retried(entries[p].job)]
    /\ UNCHANGED <<documents, held, dlqId, api, worker, faults, lost>>

\* What Ingestion does without its dead-letter queue, and InMemoryDLQ.write.
MemoryStep ==
    \/ /\ \/ \E a \in Api : Upload(a) \/ Enqueue(a) \/ ApiAbort(a)
          \/ \E w \in Worker : Work(w) \/ Failure(w)
       /\ UNCHANGED <<dlq, dlqId, entries>>
    \/ \E w \in Worker : WriteInMemory(w)

ListReplay ==
    \E a \in Api, t \in Tenant, p \in DOMAIN entries : ReplayInMemory(a, t, p)

EitherNext ==
    /\ UNCHANGED inMemory
    /\ \/ ~inMemory /\ Next /\ UNCHANGED entries /\ replayed' = NoReplay
       \/ inMemory /\ MemoryStep /\ replayed' = NoReplay
       \/ inMemory /\ ListReplay

EitherSpec == EitherInit /\ [][EitherNext]_eitherVars

-----------------------------------------------------------------------------
\* Ids are given again, so a replay must take out one entry and no other that has
\* its id: the job of every entry that leaves is queued again, one retry later.
ReplayMovesOneEntry ==
    [][inMemory =>
          /\ Len(entries') >= Len(entries) - 1
          /\ \A e \in dlq : e \notin dlq' =>
                stream'[Retried(e.job)] = stream[Retried(e.job)] + 1]_eitherVars

\* An id does not say whose entry it is.  A tenant that replays an id moves an entry
\* of its own with that id and is answered with its job; no other tenant's entry
\* leaves the list and no other tenant's job is queued.
ReplaysStayInTenant ==
    [][LET r == replayed'
       IN  r # NoReplay =>
              /\ \E e \in dlq : /\ e.id = r.id /\ e.job.tenant = r.caller
                               /\ r.job = Retried(e.job)
              /\ \A e \in dlq : e \notin dlq' => e.job.tenant = r.caller
              /\ \A j \in Job : stream'[j] # stream[j] => j.tenant = r.caller]_eitherVars

\* index_chunks appends, so a job that runs again leaves chunks twice.  With one API
\* process, no lost reply and no second delivery, only replaying does it: whatever
\* fails, a job that nobody replayed finds none of its document's chunks in the index.
OnlyReplaysRepeat ==
    [][\A d \in Doc :
          Stored(d) /\ (\A s \in StrayJob : ~JobOf(d, s)) /\ ~held[d].twice /\ held'[d].twice =>
             \E w \in Worker :
                worker[w].pc = "index" /\ DocOf(w) = d /\ worker[w].job.retry > 0]_eitherVars
==============================================================================
