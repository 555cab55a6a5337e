------------------------- MODULE DurableTurnRequest -------------------------
(* The inbox that starts a turn, or steers one, for a peer that may repeat *)
(* its request: durable-turn-request-service.ts over the receipts of       *)
(* durable-turn-request-store.ts.  An owner is a process on the profile's  *)
(* database; it has the queue of what it was asked to start in memory.     *)
(*                                                                         *)
(* Each action is one synchronous stretch or one transaction.  A request   *)
(* that is invalid, not authorized, expired or in conflict with its        *)
(* receipt changes nothing and has no action.                              *)
EXTENDS Integers, FiniteSets

CONSTANTS
  Owners, Calls,
  Requests,      \* a caller's id with its createdAt
  Steers,        \* those that steer a running turn
  NoRow,
  MaxPerCaller, MaxTotal,   \* the quotas; there is one caller here
  MaxCrashes     \* bounds how often a process dies and starts again

VARIABLES
  row,       \* the receipt of each request
  stale,     \* requests whose claim is older than STALE_DISPATCH_MS
  expired,   \* requests past createdAt + retention
  call,      \* where each submitOperation is suspended
  doubt,     \* <<o, r>>: o found r not queued and is about to say so
  entry,     \* each request's entry in the queue of its home
  listens,   \* owners whose service hears the queue's events
  asked,     \* how often the backend was asked for the request
  ran,       \* requests the provider took
  crashes

inbox == <<row, stale, doubt>>
queue == <<entry, ran>>
vars  == <<inbox, expired, call, queue, listens, asked, crashes>>

States  == {"accepted", "dispatching", "dispatched", "completed", "uncertain"}
Results == {"none", "queued", "started", "refused"}
Receipt == [state : States, result : Results]

ASSUME InboxAssumption ==
  /\ Owners # {} /\ Steers \subseteq Requests
  /\ NoRow \notin Receipt
  /\ MaxPerCaller \in Nat /\ MaxTotal \in Nat /\ MaxCrashes \in Nat

Idle == [at |-> "idle"]
Busy == [at : {"admitted", "claimed", "asked", "queued", "starting", "started", "refused", "failed"},
         owner : Owners, of : Requests]

Goto(c, at) == call' = [call EXCEPT ![c] = [@ EXCEPT !.at = at]]
Done(c) == call' = [call EXCEPT ![c] = Idle]

-----------------------------------------------------------------------------
(* The receipts.                                                           *)

Rows == {r \in Requests : row[r] # NoRow}

Write(r, receipt) ==
  /\ row' = [row EXCEPT ![r] = receipt]
  /\ stale' = stale \ {r}

\* Mutant: a claim nobody answered is taken again.
ClaimableAgain(receipt) ==
  receipt.result = "none" /\ receipt.state \in {"accepted", "uncertain"}

Claimable(receipt) == receipt.state = "accepted" /\ receipt.result = "none"

Doubted(receipt) == [receipt EXCEPT !.state = "uncertain"]

(* What a lifecycle event of the queue proves.                             *)
\* Mutant: the event's own status is recorded.
ObservedStatus(receipt, event) == [receipt EXCEPT !.state = event]

Observed(receipt, event) ==
  IF receipt.state = "completed" \/ (receipt.state = "dispatched" /\ event # "ended")
  THEN receipt
  ELSE CASE event = "ended"   -> [receipt EXCEPT !.state = "completed"]
         [] event = "started" -> [receipt EXCEPT !.state = "dispatched", !.result = "started"]
         [] event = "failed"  -> Doubted(receipt)

(* observeQueueEvent, of the service in the process that queued r.         *)
Observe(r, event) ==
  IF entry[r].home \in listens /\ row[r] # NoRow /\ Observed(row[r], event) # row[r]
  THEN Write(r, Observed(row[r], event))
  ELSE UNCHANGED <<row, stale>>

(* What the answer to the dispatch makes of the receipt.                   *)
\* Mutant: an entry in the queue counts as started.
AnsweredAsStarted(r, answer) ==
  LET now == row[r] IN
  IF answer = "failed"
  THEN IF now.state \in {"completed", "dispatched"} THEN now ELSE Doubted(now)
  ELSE [now EXCEPT !.result = answer,
                   !.state = IF @ = "completed" THEN @
                             ELSE IF answer = "refused" THEN "uncertain" ELSE "dispatched"]

\* Mutant: the answer is written over what the queue has proved.
AnsweredLast(r, answer) ==
  IF answer \in {"failed", "refused"} THEN Doubted(row[r])
  ELSE [row[r] EXCEPT !.result = answer,
                      !.state = IF answer = "queued" THEN "accepted" ELSE "dispatched"]

Answered(r, answer) ==
  LET now    == row[r]
      proved == now.state \in {"completed", "dispatched"}
  IN  CASE answer = "failed"  -> IF proved THEN now ELSE Doubted(now)
        [] answer = "refused" -> [now EXCEPT !.state = "uncertain", !.result = "refused"]
        [] answer = "started" -> [now EXCEPT !.result = "started",
                                    !.state = IF @ = "completed" THEN @ ELSE "dispatched"]
        [] answer = "queued"  -> [now EXCEPT !.result = IF proved /\ @ # "none" THEN @ ELSE "queued",
                                    !.state = IF proved THEN @ ELSE "accepted"]

-----------------------------------------------------------------------------
(* Lookups and replays.                                                    *)

\* Mutant: what was queued once is taken for queued.
QueuedOnce(o, r) == entry[r].at # "none"

(* readQueuedTurn of the local backend.                                    *)
Queued(o, r) == entry[r] = [at |-> "waiting", home |-> o]

(* reconcile: a queued receipt awaits isQueued, a stale claim is settled.  *)
Reconciled(o, r) ==
  IF row[r].state = "accepted" /\ row[r].result = "queued" /\ ~Queued(o, r)
  THEN doubt' = doubt \union {<<o, r>>} /\ UNCHANGED <<row, stale>>
  ELSE /\ UNCHANGED doubt
       /\ IF row[r].state = "dispatching" /\ r \in stale
          THEN Write(r, Doubted(row[r])) ELSE UNCHANGED <<row, stale>>

(* get, and submit of a request whose receipt says more than its admission. *)
Reconcile(o, r) ==
  /\ r \in Rows \ expired
  /\ Reconciled(o, r)
  /\ listens' = listens \union {o}
  /\ UNCHANGED <<expired, call, queue, asked, crashes>>

(* The entry was not in the queue; the receipt may have moved on.          *)
MarkLost(o, r) ==
  /\ <<o, r>> \in doubt /\ doubt' = doubt \ {<<o, r>>}
  /\ IF r \in Rows /\ row[r].state = "accepted"
     THEN Write(r, Doubted(row[r])) ELSE UNCHANGED <<row, stale>>
  /\ UNCHANGED <<expired, call, queue, listens, asked, crashes>>

-----------------------------------------------------------------------------
(* submitOperation.                                                        *)

Admitted(c, o, r) ==
  /\ call' = [call EXCEPT ![c] = [at |-> "admitted", owner |-> o, of |-> r]]
  /\ listens' = listens \union {o}

(* A new request: expired receipts are pruned, valid ones never are.  Only *)
(* the end of a retention could fall between the check and the             *)
(* transaction of one call, so the two are one step.                       *)
SameScope(r) == IF r \in Steers THEN Steers ELSE Requests \ Steers

Admit(c, o, r) ==
  LET valid == Rows \ expired
  IN  /\ call[c] = Idle /\ r \notin expired \union Rows
      /\ Cardinality(valid) < MaxTotal
      /\ Cardinality(valid \intersect SameScope(r)) < MaxPerCaller
      /\ row' = [s \in Requests |->
                   IF s = r THEN [state |-> "accepted", result |-> "none"]
                   ELSE IF s \in expired THEN NoRow ELSE row[s]]
      /\ stale' = stale \intersect valid
      /\ Admitted(c, o, r)
      /\ UNCHANGED <<doubt, expired, queue, asked, crashes>>

(* A request that was admitted and not claimed is resumed.                 *)
Resume(c, o, r) ==
  /\ call[c] = Idle /\ r \in Rows \ expired
  /\ Claimable(row[r])
  /\ Admitted(c, o, r)
  /\ UNCHANGED <<inbox, expired, queue, asked, crashes>>

Claim(c) ==
  LET r == call[c].of
  IN  /\ call[c].at = "admitted"
      /\ IF r \notin Rows THEN Done(c) /\ UNCHANGED inbox
         ELSE IF Claimable(row[r])
         THEN Goto(c, "claimed") /\ Write(r, [row[r] EXCEPT !.state = "dispatching"]) /\ UNCHANGED doubt
         ELSE Done(c) /\ Reconciled(call[c].owner, r)
      /\ UNCHANGED <<expired, queue, listens, asked, crashes>>

Dispatch(c) ==
  /\ call[c].at = "claimed"
  /\ Goto(c, "asked")
  /\ asked' = [asked EXCEPT ![call[c].of] = @ + 1]
  /\ UNCHANGED <<inbox, expired, queue, listens, crashes>>

Answer(c) ==
  LET r == call[c].of
  IN  /\ call[c].at \in {"queued", "started", "refused", "failed"}
      /\ Done(c)
      /\ IF r \in Rows THEN Write(r, Answered(r, call[c].at)) ELSE UNCHANGED <<row, stale>>
      /\ UNCHANGED <<doubt, expired, queue, listens, asked, crashes>>

-----------------------------------------------------------------------------
(* The backend: the registry and its turn queue, and the provider.  What   *)
(* the provider did before it failed is not known.                         *)

Moves(r, at) == entry' = [entry EXCEPT ![r] = [@ EXCEPT !.at = at]]
Enters(c, at) == entry' = [entry EXCEPT ![call[c].of] = [at |-> at, home |-> call[c].owner]]
TakenOrNot(r) == ran' \in {ran, ran \union {r}}
AsksTurn(c)  == call[c].at = "asked" /\ call[c].of \notin Steers
AsksSteer(c) == call[c].at = "asked" /\ call[c].of \in Steers

RejectTurn(c) ==
  /\ AsksTurn(c) /\ Goto(c, "failed")
  /\ UNCHANGED <<inbox, expired, queue, listens, asked, crashes>>

QueueTurn(c) ==
  /\ AsksTurn(c) /\ Enters(c, "waiting") /\ Goto(c, "queued")
  /\ UNCHANGED <<inbox, expired, ran, listens, asked, crashes>>

BeginTurn(c) ==
  /\ AsksTurn(c) /\ Enters(c, "starting") /\ Goto(c, "starting")
  /\ UNCHANGED <<inbox, expired, ran, listens, asked, crashes>>

(* The queue takes the entry from its FIFO.                                *)
Drain(r) ==
  /\ entry[r].at = "waiting" /\ Moves(r, "draining")
  /\ UNCHANGED <<inbox, expired, call, ran, listens, asked, crashes>>

Awaiting(r) == {c \in Calls : call[c].at = "starting" /\ call[c].of = r}
Return(r, at) ==
  call' = [c \in Calls |-> IF c \in Awaiting(r) THEN [call[c] EXCEPT !.at = at] ELSE call[c]]

(* Every event of a start names its turn.                                  *)
TurnStarts(r) ==
  /\ entry[r].at \in {"starting", "draining"} /\ Moves(r, "running")
  /\ ran' = ran \union {r}
  /\ Observe(r, "started") /\ Return(r, "started")
  /\ UNCHANGED <<doubt, expired, listens, asked, crashes>>

(* A direct start that fails leaves no entry; one from the FIFO is put     *)
(* back and held.                                                          *)
DirectStartFails(r) ==
  /\ entry[r].at = "starting" /\ Moves(r, "gone") /\ TakenOrNot(r)
  /\ Observe(r, "failed") /\ Return(r, "failed")
  /\ UNCHANGED <<doubt, expired, listens, asked, crashes>>

DrainFails(r) ==
  /\ entry[r].at = "draining" /\ Moves(r, "waiting") /\ TakenOrNot(r)
  /\ UNCHANGED <<inbox, expired, call, listens, asked, crashes>>

(* The turn ended, or a queued one is cancelled; or the thread is idle,    *)
(* which proves nothing.                                                   *)
Ends(r) ==
  /\ entry[r].at \in {"running", "waiting"} /\ Moves(r, "gone")
  /\ Observe(r, "ended")
  /\ UNCHANGED <<doubt, expired, call, ran, listens, asked, crashes>>

IdleRelease(r) ==
  /\ entry[r].at = "running" /\ Moves(r, "gone")
  /\ UNCHANGED <<inbox, expired, call, ran, listens, asked, crashes>>

SteerTaken(c) ==
  /\ AsksSteer(c) /\ Goto(c, "started") /\ ran' = ran \union {call[c].of}
  /\ UNCHANGED <<inbox, expired, entry, listens, asked, crashes>>

SteerUnproved(c) ==
  /\ AsksSteer(c) /\ TakenOrNot(call[c].of)
  /\ \E at \in {"refused", "failed"} : Goto(c, at)
  /\ UNCHANGED <<inbox, expired, entry, listens, asked, crashes>>

-----------------------------------------------------------------------------
(* Processes and time.                                                     *)

(* Federation stops: the queue goes on, and nobody hears it until the next *)
(* request makes the service again.                                        *)
Stop(o) ==
  /\ o \in listens /\ listens' = listens \ {o}
  /\ UNCHANGED <<inbox, expired, call, queue, asked, crashes>>

Crash(o) ==
  LET mine     == {r \in Requests : entry[r].home = o /\ entry[r].at # "none"}
      starting == {r \in mine : entry[r].at \in {"starting", "draining"}}
  IN  /\ crashes < MaxCrashes /\ crashes' = crashes + 1
      /\ call' = [c \in Calls |-> IF call[c] # Idle /\ call[c].owner = o THEN Idle ELSE call[c]]
      /\ entry' = [r \in Requests |-> IF r \in mine THEN [entry[r] EXCEPT !.at = "gone"] ELSE entry[r]]
      /\ \E S \in SUBSET starting : ran' = ran \union S
      /\ doubt' = doubt \ ({o} \X Requests)
      /\ listens' = listens \ {o}
      /\ UNCHANGED <<row, stale, expired, asked>>

GoStale(r) ==
  /\ r \in Rows \ stale /\ row[r].state = "dispatching"
  /\ stale' = stale \union {r}
  /\ UNCHANGED <<row, doubt, expired, call, queue, listens, asked, crashes>>

Expire(r) ==
  /\ r \notin expired /\ expired' = expired \union {r}
  /\ UNCHANGED <<inbox, call, queue, listens, asked, crashes>>

-----------------------------------------------------------------------------
Init ==
  /\ row = [r \in Requests |-> NoRow] /\ stale = {} /\ doubt = {}
  /\ expired = {} /\ call = [c \in Calls |-> Idle]
  /\ entry = [r \in Requests |-> [at |-> "none", home |-> CHOOSE o \in Owners : TRUE]]
  /\ ran = {} /\ listens = {} /\ asked = [r \in Requests |-> 0] /\ crashes = 0

Submits(c, o) == \E r \in Requests : Admit(c, o, r) \/ Resume(c, o, r)

Proceeds(c) ==
  \/ Claim(c) \/ Dispatch(c) \/ Answer(c)
  \/ RejectTurn(c) \/ QueueTurn(c) \/ BeginTurn(c) \/ SteerTaken(c) \/ SteerUnproved(c)

Advances(r) ==
  \/ Drain(r) \/ TurnStarts(r) \/ DirectStartFails(r) \/ DrainFails(r) \/ Ends(r) \/ IdleRelease(r)
  \/ GoStale(r) \/ Expire(r)

Next ==
  \/ \E c \in Calls : Proceeds(c) \/ \E o \in Owners : Submits(c, o)
  \/ \E r \in Requests : Advances(r) \/ \E o \in Owners : Reconcile(o, r) \/ MarkLost(o, r)
  \/ \E o \in Owners : Stop(o) \/ Crash(o)

Spec == Init /\ [][Next]_vars

(* The peer goes on asking for its request, the claim grows old, and a     *)
(* process that asked its queue goes on.  Nothing is assumed of backends.  *)
Fairness == \A r \in Requests :
  /\ WF_vars(GoStale(r))
  /\ WF_vars(\E o \in Owners : Reconcile(o, r))
  /\ WF_vars(\E o \in Owners : MarkLost(o, r))

FairSpec == Spec /\ Fairness

-----------------------------------------------------------------------------
(* Properties.                                                             *)

(* Every variable has its type.                                            *)
TypeOK ==
  /\ row \in [Requests -> Receipt \union {NoRow}]
  /\ stale \subseteq Requests /\ expired \subseteq Requests
  /\ call \in [Calls -> Busy \union {Idle}]
  /\ doubt \subseteq Owners \X Requests
  /\ entry \in [Requests -> [at : {"none", "waiting", "starting", "draining", "running", "gone"},
                             home : Owners]]
  /\ ran \subseteq Requests /\ listens \subseteq Owners
  /\ asked \in [Requests -> Nat] /\ crashes \in 0..MaxCrashes

(* Comment of DurableTurnRequestService: a claim is never taken again, so  *)
(* the backend is asked at most once for a request, however often and      *)
(* wherever it is submitted, across crashes, lost answers and expiry.      *)
AtMostOnce == \A r \in Requests : asked[r] <= 1

(* A receipt says no more than what happened: what it calls dispatched the *)
(* provider took, what it calls completed is over, and what it lets a      *)
(* caller resume was never asked for.                                      *)
ReceiptsTellTruth ==
  \A r \in Rows :
    /\ row[r].state = "dispatched" => r \in ran
    /\ row[r].state = "completed" => entry[r].at = "gone"
    /\ row[r].state = "accepted" /\ row[r].result = "none" => asked[r] = 0

(* Proof is kept: no late answer, failure, lookup or event takes back a    *)
(* start or an end that was proved, and a receipt that still counts is     *)
(* never pruned.                                                           *)
ProofIsKept ==
  [][\A r \in Rows \ expired :
       /\ row'[r] # NoRow
       /\ row[r].state = "dispatched" => row'[r].state \in {"dispatched", "completed"}
       /\ row[r].state = "completed" => row'[r].state = "completed"]_vars

(* What a lookup says of a receipt that still counts, and of a request.    *)
News(receipt) ==
  CASE receipt.state = "accepted"    -> IF receipt.result = "none" THEN "new" ELSE "queued"
    [] receipt.state = "dispatching" -> "open"
    [] receipt.state = "dispatched"  -> "started"
    [] receipt.state = "completed"   -> "ended"
    [] receipt.state = "uncertain"   -> "unsure"

Said(r) ==
  IF r \in expired THEN "past" ELSE IF row[r] = NoRow THEN "unknown" ELSE News(row[r])

Told == [r \in Requests |-> Said(r)]
Committed == {r \in Requests : \E c \in Calls : call[c].at = "claimed" /\ call[c].of = r}
Over == {r \in Requests : entry[r].at = "gone"}

Promise == INSTANCE RequestReceipts
  WITH told <- Told, committed <- Committed, taken <- ran, over <- Over

(* The inbox implements RequestReceipts: a receipt goes from admitted to   *)
(* claimed once and never back, no step of claim, dispatch, answer, event  *)
(* or lookup tells more than happened or less than was told, and no work   *)
(* is taken up again after its end.                                        *)
AnswersAsPromised == Promise!Spec

(* A receipt that is neither proved nor given up: its claim is open, or it *)
(* is queued in a queue that no longer has it.                             *)
Adrift(r) ==
  /\ r \in Rows \ expired
  /\ \/ row[r].state = "dispatching"
     \/ /\ row[r].state = "accepted" /\ row[r].result = "queued"
        /\ entry[r].at \in {"running", "gone"}

(* A peer that goes on asking learns: no crash, lost event or answer that  *)
(* never comes leaves a receipt open for ever.                             *)
ReceiptsSettle == \A r \in Requests : Adrift(r) ~> ~Adrift(r)

=============================================================================
