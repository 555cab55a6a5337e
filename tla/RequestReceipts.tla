--------------------------- MODULE RequestReceipts ---------------------------
(* What the inbox promises a peer that may repeat its request.  A request   *)
(* is admitted, committed to and asked of the backend, each at most once;   *)
(* what the backend then does is its own affair.  The peer is told of a     *)
(* start or an end only when it happened, and is told no less later; until  *)
(* then it may be told that nothing is certain.  A crash loses commitments  *)
(* and work, never what was told.  No processes, no calls, no queue.        *)
EXTENDS Naturals

CONSTANT Requests

VARIABLES
  told,       \* what a lookup says of each request
  committed,  \* requests the inbox is about to ask the backend for
  asked,      \* how often the backend was asked
  taken,      \* requests the backend took
  over        \* requests whose work has come to its end

work == <<committed, asked, taken, over>>
vars == <<told, work>>

Init ==
  /\ told = [r \in Requests |-> "unknown"]
  /\ committed = {} /\ asked = [r \in Requests |-> 0] /\ taken = {} /\ over = {}

Tell(r, news) == told' = [told EXCEPT ![r] = news]

Unsettled(r) == told[r] \in {"open", "queued", "unsure"}

Admit(r) == told[r] = "unknown" /\ Tell(r, "new") /\ UNCHANGED work

(* A request that expires meanwhile may still be asked for.                 *)
Commit(r) ==
  /\ asked[r] = 0 /\ r \notin committed
  /\ \/ told[r] = "new" /\ Tell(r, "open")
     \/ told[r] = "past" /\ UNCHANGED told
  /\ committed' = committed \union {r}
  /\ UNCHANGED <<asked, taken, over>>

Ask(r) ==
  /\ r \in committed /\ committed' = committed \ {r}
  /\ asked' = [asked EXCEPT ![r] = @ + 1]
  /\ UNCHANGED <<told, taken, over>>

(* The backend takes the request, or ends it, or both at once.              *)
Works(r) ==
  /\ asked[r] > 0 /\ r \notin over
  /\ taken' \in {taken, taken \union {r}}
  /\ over' \in {over, over \union {r}}
  /\ UNCHANGED <<committed, asked>>

(* What the peer may be told next, of what has happened by then.            *)
Learns(r) ==
  \/ UNCHANGED told
  \/ Unsettled(r) /\ Tell(r, "unsure")
  \/ Unsettled(r) /\ asked[r] > 0 /\ Tell(r, "queued")
  \/ Unsettled(r) /\ r \in taken' /\ Tell(r, "started")
  \/ (Unsettled(r) \/ told[r] = "started") /\ r \in over' /\ Tell(r, "ended")

Advance(r) == (Works(r) \/ UNCHANGED work) /\ Learns(r)

Expire(r) == Tell(r, "past") /\ UNCHANGED work

Crash ==
  /\ committed' \subseteq committed
  /\ \E ended \in SUBSET {r \in Requests : asked[r] > 0 /\ r \notin over} :
       /\ over' = over \union ended
       /\ \E started \in SUBSET ended : taken' = taken \union started
  /\ UNCHANGED <<told, asked>>

Next ==
  \/ \E r \in Requests : Admit(r) \/ Commit(r) \/ Ask(r) \/ Advance(r) \/ Expire(r)
  \/ Crash

Spec == Init /\ [][Next]_vars
=============================================================================
