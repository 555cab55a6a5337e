-------------------------- MODULE ScheduledActions --------------------------
(* Messages scheduled for later (scheduled-thread-action-service.ts): rows *)
(* in the profile's database that the schedulers of all the app instances  *)
(* on that profile claim, hand to their own turn queue and follow there.   *)
(*                                                                         *)
(* A scheduler is one launch of the app; it never comes back.  A dispatch  *)
(* is one claim of an action and the promise chain that acts on it; a step *)
(* is the code between two awaits.  The turn queue (ThreadTurnQueue) is    *)
(* seen through what it does with these messages: an entry waits or is     *)
(* held, starts, is put back.  Its lifecycle events are emitted through    *)
(* other listeners first, so each is on its way for a while.               *)
EXTENDS Naturals, FiniteSets

CONSTANTS
  Actions,
  Schedulers, Nobody,
  MaxClaims    \* bounds how often one action is claimed

ASSUME ScheduleAssumption == Nobody \notin Schedulers /\ MaxClaims \in Nat

VARIABLES
  row,      \* scheduled_thread_actions: the record of each action
  due,      \* actions whose scheduledFor has come
  fresh,    \* actions whose claim_expires_at lies ahead
  life,     \* of the scheduler's process: new, up, gone
  fifo,     \* its turn queue: none, waiting or held for each action
  starting, \* <<scheduler, action>>: the queue has asked the backend
  events,   \* lifecycle events on their way
  job,      \* dispatches
  claims,   \* how often an action was claimed
  sent,     \* how often the backend took its message
  torn      \* actions whose claimant died between their turn's start and its record

rows    == <<row, due, fresh>>
queue   == <<fifo, starting, events>>
history == <<sent, torn>>
vars    == <<rows, life, queue, job, claims, history>>

Statuses == {"none", "scheduled", "dispatching", "queued", "held",
             "started", "failed", "cancelled", "gone"}
Claimed  == {"dispatching", "queued"}
Ended    == {"started", "failed", "cancelled"}
Kinds    == {"queued", "held", "started", "failed", "cancelled"}
Rows     == [status : Statuses, owner : Schedulers \union {Nobody},
             manual : BOOLEAN,   \* manualReleaseRequired
             entry  : BOOLEAN]   \* queueEntryId is set
Events   == [from : Schedulers, of : Actions, kind : Kinds]
Dispatches == Actions \X (1..MaxClaims)
Places == {"idle", "submit", "refused", "direct", "placed", "hold", "entered", "release",
           "releasing", "starting", "queued", "held", "started", "failed"}
Jobs == [at : Places, owner : Schedulers \union {Nobody}, timed : BOOLEAN]

Idle == [at |-> "idle", owner |-> Nobody, timed |-> FALSE]
Live == {o \in Schedulers : life[o] = "up"}

-----------------------------------------------------------------------------
(* The transitions of the store.  A mark made for a dispatch also requires *)
(* its scheduler to hold the claim.                                        *)

From(kind) == IF kind = "queued" THEN {"dispatching"}
              ELSE IF kind = "cancelled" THEN Claimed \union {"held"}
              ELSE Claimed

\* Mutant: a start is taken for news of an entry in the queue.
MarkedQueued(r, kind) ==
  IF r.status \notin From(kind) THEN r
  ELSE IF kind \in {"queued", "started"} THEN [r EXCEPT !.status = "queued", !.entry = TRUE]
  ELSE [status |-> kind, owner |-> Nobody, manual |-> r.manual \/ kind = "held",
        entry |-> r.entry \/ kind = "held"]

\* Mutant: the claim is kept when the row leaves the queue.
MarkedWithClaim(r, kind) ==
  IF r.status \notin From(kind) THEN r
  ELSE [r EXCEPT !.status = kind, !.manual = @ \/ kind = "held",
                 !.entry = @ \/ kind \in {"queued", "held"}]

Marked(r, kind) ==
  IF r.status \notin From(kind) THEN r
  ELSE [status |-> kind,
        owner  |-> IF kind = "queued" THEN r.owner ELSE Nobody,
        manual |-> r.manual \/ kind = "held",
        entry  |-> r.entry \/ kind \in {"queued", "held"}]

MarkedFor(o, r, kind) == IF r.owner = o THEN Marked(r, kind) ELSE r

\* Mutant: a dispatch that was cut off is tried again.
RecoveredAgain(r) == [status |-> IF r.manual THEN "held" ELSE "scheduled", owner |-> Nobody,
                      manual |-> r.manual, entry |-> FALSE]

(* recoverExpiredClaims: what becomes of the claim of a dead scheduler.  A *)
(* queued message was lost with the FIFO; of one being dispatched, nobody  *)
(* knows whether the backend took it.                                      *)
Recovered(r) ==
  LET status == IF r.manual THEN "held"
                ELSE IF r.status = "dispatching" THEN "failed" ELSE "scheduled"
  IN  [status |-> status, owner |-> Nobody, manual |-> r.manual,
       entry |-> r.entry /\ status = "failed"]

\* Mutant: only queued work is recovered.
ExpiredQueued(a) == row[a].status = "queued" /\ a \notin fresh

Expired(a) == row[a].status \in Claimed /\ a \notin fresh

-----------------------------------------------------------------------------
(* A process starts, lives and ends.  An end, a quit as well as a crash,   *)
(* takes its FIFO, its events and its dispatches with it; the claims stay. *)
(* What it had asked the backend for may have been taken.                  *)

(* start, and every heartbeat: its own claims are renewed, then expired    *)
(* claims of schedulers whose process is gone are recovered.               *)
\* Mutant: an expired lease is all it takes.
RecoverableExpired(o) == {a \in Actions : Expired(a) /\ row[a].owner # o}

Recoverable(o) == {a \in Actions : Expired(a) /\ row[a].owner # o /\ row[a].owner \notin Live}

Recover(o) ==
  /\ row' = [a \in Actions |-> IF a \in Recoverable(o) THEN Recovered(row[a]) ELSE row[a]]
  /\ fresh' = (fresh \union {a \in Actions : row[a].status \in Claimed /\ row[a].owner = o})
              \ Recoverable(o)

Start(o) ==
  /\ life[o] = "new"
  /\ life' = [life EXCEPT ![o] = "up"]
  /\ Recover(o)
  /\ UNCHANGED <<due, queue, job, claims, history>>

Heartbeat(o) ==
  /\ o \in Live
  /\ Recover(o)
  /\ UNCHANGED <<due, life, queue, job, claims, history>>

End(o) ==
  /\ o \in Live
  /\ life' = [life EXCEPT ![o] = "gone"]
  /\ fifo' = [fifo EXCEPT ![o] = [a \in Actions |-> "none"]]
  /\ starting' = {s \in starting : s[1] # o}
  /\ events' = {e \in events : e.from # o}
  /\ job' = [d \in Dispatches |-> IF job[d].owner = o THEN Idle ELSE job[d]]
  /\ \E taken \in SUBSET {a \in Actions : <<o, a>> \in starting} :
       sent' = [a \in Actions |-> IF a \in taken THEN sent[a] + 1 ELSE sent[a]]
  /\ torn' = torn \union {a \in Actions : row[a].status = "queued" /\ row[a].owner = o /\ sent'[a] > 0}
  /\ UNCHANGED <<rows, claims>>

(* Time passes: an action falls due, a lease runs out, an old row is       *)
(* deleted.  A suspended machine lets any lease run out.                   *)
FallDue(a) ==
  /\ row[a].status = "scheduled" /\ a \notin due
  /\ due' = due \union {a}
  /\ UNCHANGED <<row, fresh, life, queue, job, claims, history>>

Expire(a) ==
  /\ row[a].status \in Claimed /\ a \in fresh
  /\ fresh' = fresh \ {a}
  /\ UNCHANGED <<row, due, life, queue, job, claims, history>>

Prune(a) ==
  /\ row[a].status \in Ended
  /\ row' = [row EXCEPT ![a].status = "gone"]
  /\ UNCHANGED <<due, fresh, life, queue, job, claims, history>>

-----------------------------------------------------------------------------
(* What a person asks for: a later message, or (manual) a steering message *)
(* whose turn had ended.                                                   *)

Create(o, a, manual) ==
  /\ o \in Live /\ row[a].status = "none"
  /\ row' = [row EXCEPT ![a] = [status |-> IF manual THEN "held" ELSE "scheduled",
                                owner |-> Nobody, manual |-> manual, entry |-> FALSE]]
  /\ UNCHANGED <<due, fresh, life, queue, job, claims, history>>

Update(o, a) ==
  /\ o \in Live /\ row[a].status = "scheduled"
  /\ due' \in {due \union {a}, due \ {a}}
  /\ UNCHANGED <<row, fresh, life, queue, job, claims, history>>

(* cancelEntry: the queue drops the entry and says so.                     *)
Emit(o, a, kind) == events' = events \union {[from |-> o, of |-> a, kind |-> kind]}
DropEntry(o, a) ==
  /\ fifo[o][a] # "none"
  /\ fifo' = [fifo EXCEPT ![o][a] = "none"]
  /\ Emit(o, a, "cancelled")
  /\ UNCHANGED starting

(* cancel: of a row that waits in a queue, if it waits in this one; of a   *)
(* held row in any case.                                                   *)
\* Mutant: a queued action can be cancelled in any process.
CancelAnywhere(o, a) ==
  /\ o \in Live
  /\ row[a].status = "queued" \/ (row[a].status = "held" /\ row[a].entry)
  /\ \/ DropEntry(o, a)
     \/ fifo[o][a] = "none" /\ UNCHANGED queue
  /\ row' = [row EXCEPT ![a] = Marked(@, "cancelled")]
  /\ UNCHANGED <<due, fresh, life, job, claims, history>>

CancelQueued(o, a) ==
  /\ o \in Live
  /\ row[a].status = "queued" \/ (row[a].status = "held" /\ row[a].entry)
  /\ DropEntry(o, a)
  /\ row' = [row EXCEPT ![a] = Marked(@, "cancelled")]
  /\ UNCHANGED <<due, fresh, life, job, claims, history>>

Cancel(o, a) ==
  /\ o \in Live
  /\ \/ row[a].status \in {"scheduled", "failed"}
     \/ row[a].status = "held" /\ (row[a].entry => fifo[o][a] = "none")
  /\ row' = [row EXCEPT ![a].status = "cancelled"]
  /\ UNCHANGED <<due, fresh, life, queue, job, claims, history>>

-----------------------------------------------------------------------------
(* Claims and dispatches.  A dispatch begins once the claim is published,  *)
(* which no listener can make fail; a rejection in the registry before     *)
(* that, after which nobody dispatches the claim, is left out.             *)

Claim(o, a, timed) ==
  LET d == <<a, claims[a] + 1>>
  IN  /\ o \in Live /\ claims[a] < MaxClaims
      /\ claims' = [claims EXCEPT ![a] = @ + 1]
      /\ row' = [row EXCEPT ![a].status = "dispatching", ![a].owner = o]
      /\ fresh' = fresh \union {a}
      /\ job' = [job EXCEPT ![d] = [at |-> IF row[a].manual THEN "hold" ELSE "submit",
                                    owner |-> o, timed |-> timed]]
      /\ UNCHANGED <<due, life, queue, history>>

Evaluating(o) == \E d \in Dispatches : job[d].owner = o /\ job[d].timed

(* evaluateDueActions: one action at a time.                               *)
ClaimNextDue(o, a) == row[a].status = "scheduled" /\ a \in due /\ ~Evaluating(o) /\ Claim(o, a, TRUE)
SendNow(o, a) == row[a].status \in {"held", "scheduled"} /\ Claim(o, a, FALSE)

Goes(d, at) == job' = [job EXCEPT ![d].at = at]
Ends(d) == job' = [job EXCEPT ![d] = Idle]

(* A call waits until the listeners have heard what it emitted itself, and *)
(* here for an older event of that kind too: both say the same of the row. *)
Heard(d) ==
  LET kinds == IF job[d].at = "held" THEN {"queued", "held"} ELSE {job[d].at}
  IN  \A e \in events : e.from = job[d].owner /\ e.of = d[1] => e.kind \notin kinds

(* submitTurn of the registry: the assertions, the FIFO, or a direct start. *)
SubmitFails(d) ==
  /\ job[d].at \in {"submit", "hold", "refused"} /\ Goes(d, "failed")
  /\ UNCHANGED <<rows, life, queue, claims, history>>

LockRefuses(d) ==
  /\ job[d].at = "submit" /\ Goes(d, "refused")
  /\ UNCHANGED <<rows, life, queue, claims, history>>

(* The entry joins the FIFO; if the FIFO is held, the entry is too.        *)
Enqueue(d, place) ==
  LET o == job[d].owner  a == d[1]
  IN  /\ job[d].at = "submit"
      /\ fifo' = [fifo EXCEPT ![o][a] = place]
      /\ Emit(o, a, "queued")
      /\ Goes(d, IF place = "held" THEN "held" ELSE "queued")
      /\ UNCHANGED <<rows, life, starting, claims, history>>

StartDirect(d) ==
  /\ job[d].at = "submit" /\ Goes(d, "direct")
  /\ starting' = starting \union {<<job[d].owner, d[1]>>}
  /\ UNCHANGED <<rows, life, fifo, events, claims, history>>

(* submitHeld, of a locked thread's message or of one held before: an      *)
(* entry that is still there is taken as it is.                            *)
SubmitHeld(d) ==
  LET o == job[d].owner  a == d[1]
  IN  /\ job[d].at \in {"refused", "hold"}
      /\ Goes(d, IF job[d].at = "refused" THEN "placed" ELSE "entered")
      /\ IF fifo[o][a] # "none" THEN UNCHANGED queue
         ELSE /\ fifo' = [fifo EXCEPT ![o][a] = "held"]
              /\ Emit(o, a, "queued")
              /\ UNCHANGED starting
      /\ UNCHANGED <<rows, life, claims, history>>

(* What submitHeld answers is read once its listeners and its walk are      *)
(* through: an unlock may have released the entry by then.                  *)
FindPlaced(d) ==
  /\ job[d].at = "placed"
  /\ \A e \in events : e.from = job[d].owner /\ e.of = d[1] => e.kind # "queued"
  /\ Goes(d, IF fifo[job[d].owner][d[1]] = "waiting" THEN "queued" ELSE "held")
  /\ UNCHANGED <<rows, life, queue, claims, history>>

MarkEntered(d) ==
  /\ job[d].at = "entered"
  /\ row' = [row EXCEPT ![d[1]] = MarkedFor(job[d].owner, @, "queued")]
  /\ Goes(d, "release")
  /\ UNCHANGED <<due, fresh, life, queue, claims, history>>

(* releaseEntryWithDisposition.  Other messages of the thread may be ahead *)
(* or run.                                                                 *)
ReleaseNot(d) ==
  LET place == fifo[job[d].owner][d[1]]
  IN  /\ job[d].at = "release"
      /\ IF place = "waiting"
         THEN Goes(d, "held") \/ Ends(d)     \* not_head, not_held
         ELSE Goes(d, "held")                \* not_found, not_head, busy
      /\ UNCHANGED <<rows, life, queue, claims, history>>

ReleaseHold(d) ==
  LET o == job[d].owner  a == d[1]
  IN  /\ job[d].at = "release" /\ fifo[o][a] = "held"
      /\ fifo' = [fifo EXCEPT ![o][a] = "waiting"]
      /\ Emit(o, a, "queued")
      /\ Goes(d, "releasing")
      /\ UNCHANGED <<rows, life, starting, claims, history>>

(* startNext of the release: this entry, if it is still there and the      *)
(* thread is free; otherwise the release reports busy.                     *)
ReleaseStarts(d) ==
  LET o == job[d].owner  a == d[1]
  IN  /\ job[d].at = "releasing" /\ fifo[o][a] = "waiting" /\ <<o, a>> \notin starting
      /\ fifo' = [fifo EXCEPT ![o][a] = "none"]
      /\ starting' = starting \union {<<o, a>>}
      /\ Goes(d, "starting")
      /\ UNCHANGED <<rows, life, events, claims, history>>

ReleaseBusy(d) ==
  /\ job[d].at = "releasing" /\ Goes(d, "held")
  /\ UNCHANGED <<rows, life, queue, claims, history>>

(* The dispatch's own mark.                                                *)
Answer(d) ==
  LET r == row[d[1]]  kind == job[d].at
  IN  /\ kind \in {"queued", "held", "started", "failed"} /\ Heard(d)
      /\ row' = [row EXCEPT ![d[1]] = MarkedFor(job[d].owner, r, kind)]
      /\ Ends(d)
      /\ UNCHANGED <<due, fresh, life, queue, claims, history>>

-----------------------------------------------------------------------------
(* The turn queue and the backend.                                         *)

Deliver(e) ==
  /\ e \in events
  /\ events' = events \ {e}
  /\ row' = [row EXCEPT ![e.of] = Marked(@, e.kind)]
  /\ UNCHANGED <<due, fresh, life, fifo, starting, job, claims, history>>

(* A failure holds the waiting entries; an unlock, or the Retry of the     *)
(* first message, releases the held ones.                                  *)
HoldWaiting(o, a) ==
  /\ fifo[o][a] = "waiting"
  /\ fifo' = [fifo EXCEPT ![o][a] = "held"]
  /\ Emit(o, a, "held")
  /\ UNCHANGED <<rows, life, starting, job, claims, history>>

ReleaseOther(o, a) ==
  /\ fifo[o][a] = "held"
  /\ fifo' = [fifo EXCEPT ![o][a] = "waiting"]
  /\ Emit(o, a, "queued")
  /\ UNCHANGED <<rows, life, starting, job, claims, history>>

CancelEntry(o, a) ==
  /\ DropEntry(o, a)
  /\ UNCHANGED <<rows, life, job, claims, history>>

Drain(o, a) ==
  /\ fifo[o][a] = "waiting" /\ <<o, a>> \notin starting
  /\ fifo' = [fifo EXCEPT ![o][a] = "none"]
  /\ starting' = starting \union {<<o, a>>}
  /\ UNCHANGED <<rows, life, events, job, claims, history>>

Asking(o, a) == {d \in Dispatches : d[1] = a /\ job[d].owner = o /\ job[d].at \in {"direct", "starting"}}
Answered(o, a, at) == job' = [d \in Dispatches |-> IF d \in Asking(o, a) THEN [job[d] EXCEPT !.at = at] ELSE job[d]]

Accept(o, a) ==
  /\ <<o, a>> \in starting
  /\ starting' = starting \ {<<o, a>>}
  /\ sent' = [sent EXCEPT ![a] = @ + 1]
  /\ Emit(o, a, "started")
  /\ Answered(o, a, "started")
  /\ UNCHANGED <<rows, life, fifo, claims, torn>>

(* A direct start that fails leaves no entry; any other is put back, held. *)
Direct(o, a) == \E d \in Asking(o, a) : job[d].at = "direct"

RejectDirect(o, a) ==
  /\ <<o, a>> \in starting /\ Direct(o, a)
  /\ starting' = starting \ {<<o, a>>}
  /\ Emit(o, a, "failed")
  /\ Answered(o, a, "failed")
  /\ UNCHANGED <<rows, life, fifo, claims, history>>

RejectEntry(o, a) ==
  /\ <<o, a>> \in starting /\ ~Direct(o, a)
  /\ starting' = starting \ {<<o, a>>}
  /\ fifo' = [fifo EXCEPT ![o][a] = "held"]
  /\ Emit(o, a, "held")
  /\ Answered(o, a, "held")
  /\ UNCHANGED <<rows, life, claims, history>>

-----------------------------------------------------------------------------
Init ==
  /\ row = [a \in Actions |-> [status |-> "none", owner |-> Nobody, manual |-> FALSE, entry |-> FALSE]]
  /\ due = {} /\ fresh = {}
  /\ life = [o \in Schedulers |-> "new"]
  /\ fifo = [o \in Schedulers |-> [a \in Actions |-> "none"]]
  /\ starting = {} /\ events = {}
  /\ job = [d \in Dispatches |-> Idle]
  /\ claims = [a \in Actions |-> 0]
  /\ sent = [a \in Actions |-> 0] /\ torn = {}

Process(o) == Start(o) \/ Heartbeat(o) \/ End(o)
Time(a) == FallDue(a) \/ Expire(a) \/ Prune(a)
Person(o, a) ==
  \/ \E manual \in BOOLEAN : Create(o, a, manual)
  \/ Update(o, a) \/ Cancel(o, a) \/ CancelQueued(o, a) \/ SendNow(o, a)
Dispatch(d) ==
  \/ SubmitFails(d) \/ LockRefuses(d) \/ Enqueue(d, "waiting") \/ Enqueue(d, "held")
  \/ StartDirect(d) \/ SubmitHeld(d) \/ FindPlaced(d) \/ MarkEntered(d)
  \/ ReleaseNot(d) \/ ReleaseHold(d) \/ ReleaseStarts(d) \/ ReleaseBusy(d) \/ Answer(d)
Queue(o, a) ==
  \/ HoldWaiting(o, a) \/ ReleaseOther(o, a) \/ CancelEntry(o, a) \/ Drain(o, a)
  \/ Accept(o, a) \/ RejectDirect(o, a) \/ RejectEntry(o, a)

Next ==
  \/ \E o \in Schedulers : Process(o)
  \/ \E a \in Actions : Time(a)
  \/ \E o \in Schedulers, a \in Actions : Person(o, a) \/ ClaimNextDue(o, a) \/ Queue(o, a)
  \/ \E d \in Dispatches : Dispatch(d)
  \/ \E e \in Events : Deliver(e)

(* The heartbeat is an interval timer of a running process, and a lease    *)
(* runs out by the clock.                                                  *)
Fairness ==
  /\ \A o \in Schedulers : WF_vars(Heartbeat(o))
  /\ \A a \in Actions : WF_vars(Expire(a))

Spec == Init /\ [][Next]_vars
FairSpec == Spec /\ Fairness

-----------------------------------------------------------------------------
(* A row has a claimant exactly while it is being dispatched or queued;    *)
(* held rows wait for a person, scheduled rows never do.                   *)
TypeOK ==
  /\ row \in [Actions -> Rows]
  /\ \A a \in Actions : /\ row[a].status \in Claimed <=> row[a].owner # Nobody
                        /\ row[a].status \in {"none", "scheduled"} => ~row[a].manual
                        /\ row[a].status = "held" => row[a].manual
  /\ due \subseteq Actions /\ fresh \subseteq Actions
  /\ life \in [Schedulers -> {"new", "up", "gone"}]
  /\ fifo \in [Schedulers -> [Actions -> {"none", "waiting", "held"}]]
  /\ starting \subseteq Live \X Actions
  /\ events \subseteq Events
  /\ job \in [Dispatches -> Jobs]
  /\ claims \in [Actions -> 0..MaxClaims]
  /\ sent \in [Actions -> Nat] /\ torn \subseteq Actions

(* The backend takes a message at most once, unless it was held for a      *)
(* person or a process died between its turn's start and the record of it; *)
(* whatever leases run out, processes die and events come late             *)
(* (recoverExpiredClaims, markStarted).                                    *)
SentOnce == \A a \in Actions : sent[a] <= 1 \/ row[a].manual \/ a \in torn

Holding(a) == {o \in Schedulers : fifo[o][a] # "none" \/ <<o, a>> \in starting}

(* Two app instances on one profile never both have a message in their     *)
(* queues, unless it was held: a second process takes no other's work,     *)
(* even when a sleep let the lease run out (isSchedulerOwnerAlive).        *)
OneQueue ==
  \A a \in Actions : ~row[a].manual => \A o, p \in Holding(a) : o = p

(* A message that was cancelled or reported failed does not wait or start  *)
(* in any process any more, unless it was held (cancel, markFailed).       *)
EndedForGood ==
  \A a \in Actions :
    row[a].status \in {"cancelled", "failed"} /\ ~row[a].manual => Holding(a) = {}

(* A row that a live scheduler claims and goes on renewing is not          *)
(* forgotten: a dispatch acts on it, its queue has it or is starting it,   *)
(* or the event that ends the claim is on its way (renewClaims,            *)
(* handleRegistryEvent).                                                   *)
Backed(o, a) ==
  \/ o \in Holding(a)
  \/ \E e \in events : e.from = o /\ e.of = a /\ e.kind # "queued"
  \/ \E d \in Dispatches : d[1] = a /\ job[d].owner = o /\ job[d].at # "queued"

ClaimBacked ==
  \A a \in Actions : row[a].owner \in Live => Backed(row[a].owner, a)

(* An action as those see it who know neither leases nor queues; one that  *)
(* was held, or torn, is loose.                                            *)
Shown(a) ==
  IF row[a].manual \/ a \in torn THEN [at |-> "loose", by |-> Nobody, sent |-> 0]
  ELSE [at   |-> IF row[a].status \in Claimed THEN "claimed" ELSE row[a].status,
        by   |-> row[a].owner,
        sent |-> sent[a]]

Shows == [a \in Actions |-> Shown(a)]

Delivery == INSTANCE ScheduledDelivery
  WITH Messages <- Actions, Processes <- Schedulers, live <- Live, message <- Shows

(* Scheduled messages implement ScheduledDelivery: only its claimant sends *)
(* a message, once, and only a live one; a row that says started, failed   *)
(* or cancelled is right, unless its claimant died; and what is sent is    *)
(* never scheduled again (markStarted, markFailed, recoverExpiredClaims).  *)
SendsAsPromised == Delivery!Spec

(* A claim whose scheduler is dead is recovered, if another one runs.      *)
DeadClaim(a) == row[a].status \in Claimed /\ row[a].owner \notin Live
DeadClaimsSettle == \A a \in Actions : DeadClaim(a) ~> (~DeadClaim(a) \/ Live = {})

(* A message the backend took is not offered to the person as held, once   *)
(* nothing of it is under way in its running process.                      *)
HandoverRecorded ==
  \A a \in Actions :
    /\ sent[a] > 0 /\ Live # {}
    /\ \A e \in events : e.of # a
    /\ \A d \in Dispatches : d[1] = a => job[d] = Idle
    => row[a].status # "held"

=============================================================================
