-------------------------------- MODULE Quota --------------------------------
(***************************************************************************)
(* What a RateLimiter of app/rate_limit promises the requests of one       *)
(* tenant to one endpoint, whichever class keeps the count: a request is   *)
(* served only while fewer than Limit others were served in the window     *)
(* that ends now, and refused only when Limit requests took a place in it. *)
(* The limiter may be wrong about the window by the uncertainty of the     *)
(* clocks it reads, and by no more.                                        *)
(***************************************************************************)
EXTENDS Integers, FiniteSets

CONSTANTS
    Request, Limit, Window,
    FailOpen,  \* TRUE: requests are served when the limiter is unavailable
    Lead,      \* how far ahead of the true time a clock may be
    Slack      \* by how much the limiter may misjudge the age of a place

VARIABLES
    now,
    fate,     \* what became of each request
    placed,   \* when each request last took a place in the window, -1 if never
    promise   \* when each denied request was told to come back

vars == <<now, fate, placed, promise>>

Init ==
    /\ now \in Nat
    /\ fate = [r \in Request |-> "waiting"]
    /\ placed = [r \in Request |-> -1]
    /\ promise = [r \in Request |-> 0]

\* Requests that took a place less than span ago.
Since(span) == {r \in Request : placed[r] >= 0 /\ now - placed[r] < span}

Served == {r \in Request : fate[r] = "admitted"}

Becomes(r, f) == fate' = [fate EXCEPT ![r] = f]

\* Nobody is served before the time a denied request was told to wait for.
Admit(r) ==
    /\ placed' = [placed EXCEPT ![r] = now]
    /\ Becomes(r, "admitted")
    /\ Cardinality(Served \cap Since(Window - Slack)) < Limit
    /\ \A q \in Request : fate[q] = "denied" => now >= promise[q] - Lead
    /\ UNCHANGED <<now, promise>>

Deny(r) ==
    /\ Becomes(r, "denied")
    /\ Cardinality(Since(Window + Slack)) >= Limit
    /\ promise' \in [Request -> Nat]
    /\ \A q \in Request \ {r} : promise'[q] = promise[q]
    /\ UNCHANGED <<now, placed>>

\* A place is taken for a request whose answer is lost; it is still to be answered.
Waste(r) ==
    /\ placed' = [placed EXCEPT ![r] = now]
    /\ UNCHANGED <<now, fate, promise>>

\* The limiter is unavailable.
GiveUp(r) ==
    /\ Becomes(r, IF FailOpen THEN "degraded" ELSE "unavailable")
    /\ UNCHANGED <<now, placed, promise>>

Tick == now' = now + 1 /\ UNCHANGED <<fate, placed, promise>>

Next ==
    \/ Tick
    \/ \E r \in Request :
          /\ fate[r] = "waiting"
          /\ Admit(r) \/ Deny(r) \/ Waste(r) \/ GiveUp(r)

Spec == Init /\ [][Next]_vars
=============================================================================
