-------------------------- MODULE ThreadTurnQueue --------------------------
(***************************************************************************)
(* The turn queue of one thread (thread-turn-queue.ts): messages wait in a *)
(* FIFO and start, one at a time, when the backend's turn ends.            *)
(*                                                                         *)
(* The queue is one JavaScript object; nothing runs in parallel, but every *)
(* `await` hands control to any other promise chain.  A step of this       *)
(* module is the code between two awaits.  task[t] is a suspended promise  *)
(* chain: pc names the await it is at, the other fields are its locals.    *)
(* Every lifecycle event is awaited (`emit`), and its listeners may take   *)
(* any time, so most of the awaits below are emits.                        *)
(*                                                                         *)
(* Entries are numbered in the order they are submitted.  A turn is the    *)
(* pair <<entry, n>> of its entry and the number of the startTurn call.    *)
(***************************************************************************)
EXTENDS QueueAdmission, Sequences, SequencesExt

CONSTANTS
  N,              \* entries submitted, at most
  Tasks,          \* promise chains suspended at once
  MaxStarts,      \* startTurn calls for one entry, at most: the last is accepted
  MaxNotices,     \* outcomes and idle reports on their way at once, at most
  Steers,         \* entries with delivery "queued-steer"
  Batches,        \* the steers that may be grouped with each other
  Continuations,  \* entries a quiet restart put back, waiting at startup
  Ops             \* operations the environment performs

Entries == 1..N
MaxRevision == Cardinality(Tasks) + 2

ASSUME QueueAssumption ==
  /\ N \in Nat /\ MaxStarts \in Nat \ {0} /\ MaxNotices \in Nat
  /\ IsFiniteSet(Tasks) /\ NoAttempt \notin Tasks
  /\ Batches \subseteq Steers /\ Steers \subseteq Entries
  /\ Continuations \subseteq Entries \ Steers
  /\ \A c \in Continuations, e \in Entries \ Continuations : c < e

NoEntry == 0
AnyEntry == Entries \union {NoEntry}
AnyTurn  == AnyEntry \X Nat

Refusals == {"lock", "refused"}            \* messages a start can be rejected with
Reasons  == {"lock", "review", "refused", "failed"}   \* of all failure messages, one
NoReason == "none"
AnyReason == Reasons \union {NoReason}
Statuses == {"completed", "failed", "idle"}

VARIABLES
  queue,          \* queuedEntries: waiting entries, next first
  paused,         \* entries with `paused`
  project,        \* entries with `projectHold`
  held,           \* holdReason of an entry with manualReleaseRequired, or NoReason
  batch,          \* the messages an entry carries (agentMessages)
  edited,         \* entries that lost their agentMessages to an edit
  reasons,        \* heldQueues.reasons, oldest first; << >> when not held
  revision,       \* heldQueues.revision, 0 when not held
  admission,      \* admissions
  running,        \* runningEntries: the turn, or NoTurn
  processed,      \* recentlyProcessedTerminals
  admitted,       \* recentlyAdmittedEntries
  releasing,      \* releasingKeys
  pendingRelease, \* pendingReleaseKeys
  editors,        \* mutationTails, oldest first; dispatchSuspensions is its length
  drain,          \* drainTimers: a drain is due
  closed,
  task,           \* the suspended promise chains
  (* outside the queue *)
  gate,           \* the quiet-restart gate
  active,         \* the backend's turn, as isThreadActive sees it
  starts,         \* turns so far, by entry; those no entry started by NoEntry
  began,          \* whether the backend began the turn that is being started
  notices,        \* turn outcomes and idle reports on their way to releaseThread
  fate,           \* history: where each message got to
  placed          \* history: entries whose place or pause someone chose

fifo     == <<queue, paused, project, held, batch, edited>>
hold     == <<reasons, revision>>
handoff  == <<admission, running, processed, admitted>>
release  == <<releasing, pendingRelease>>
sched    == <<editors, drain, closed>>
provider == <<gate, active, starts, began, notices>>
history  == <<fate, placed>>
vars     == <<fifo, hold, handoff, release, sched, task, provider, history>>

-----------------------------------------------------------------------------
(* Promise chains. *)

IdleTask ==
  [pc |-> "idle", ctx |-> "direct", entry |-> NoEntry, prev |-> NoEntry,
   turn |-> NoTurn, status |-> "idle", early |-> FALSE,
   op |-> "none", i |-> 0, reason |-> NoReason, keep |-> FALSE, then |-> "idle",
   ahead |-> NoReason, kept |-> {}, snap |-> << >>, rev |-> 0]

Free(t) == task[t].pc = "idle"

Goto(tk, pc) ==
  IF pc = "idle" THEN IdleTask
  ELSE [IdleTask EXCEPT !.pc = pc, !.ctx = tk.ctx, !.entry = tk.entry, !.early = tk.early]

ReturnReleasing(t) ==                                      \* mutant
  /\ task' = [task EXCEPT ![t] =
       Goto(@, IF @.ctx = "edit" THEN "left" ELSE "idle")]
  /\ UNCHANGED release

(* The startEntry or startNext a chain awaits returns without a refusal: a *)
(* steer submitted inside an edit leaves the edit, and releaseThread runs  *)
(* its `finally`, which drops an idle report kept meanwhile.               *)
Return(t) ==
  /\ task' = [task EXCEPT ![t] =
       Goto(@, IF @.ctx = "edit" THEN "left" ELSE "idle")]
  /\ IF task[t].ctx = "release"
     THEN releasing' = FALSE /\ pendingRelease' = FALSE
     ELSE UNCHANGED release

(* The FIFO array is dropped when it empties; a loop over it ends there. *)
Detached(tk, q) ==
  IF q = << >> THEN [u \in Tasks |-> [tk[u] EXCEPT !.i = 0]] ELSE tk

-----------------------------------------------------------------------------
(* The FIFO. *)

IndexOf(q, e) == SelectInSeq(q, LAMBDA x : x = e)

InQueue(e) == Contains(queue, e)

NextWaiting(q) == SelectInSeq(q, LAMBDA x : x \notin paused)

HasWaiting == NextWaiting(queue) # 0

Held(e) == held[e] # NoReason

NewestReason == IF reasons = << >> THEN NoReason ELSE Last(reasons)

(* Revisions are only compared: a new one is any that no chain remembers. *)
NewRevision ==
  Min((1..MaxRevision) \ ({revision} \union {task[t].rev : t \in Tasks}))

AddHoldReason(r) ==
  /\ reasons' = Append(RemoveFirst(reasons, r), r)
  /\ revision' = NewRevision

AllReasons(rs, kept) == rs                                 \* mutant

(* The reasons still carried, in order. *)
OnlyReasons(rs, kept) ==
  LET drop(q, r) == IF r \in kept THEN q ELSE RemoveFirst(q, r)
  IN  drop(drop(drop(drop(rs, "lock"), "review"), "refused"), "failed")

SetReasons(rs, rev) ==
  /\ reasons' = rs
  /\ revision' = IF rs = << >> THEN 0 ELSE rev

(* The hold ends once no entry left in the FIFO is held. *)
DropHoldOfHead(q) ==                                       \* mutant
  SetReasons(IF q # << >> /\ Held(q[1]) THEN reasons ELSE << >>, revision)

DropSpentHold(q) ==
  SetReasons(IF \E i \in DOMAIN q : Held(q[i]) THEN reasons ELSE << >>, revision)

RestoreLast(q, e, prev) == Append(q, e)                    \* mutant

RestoreAfter(q, e, prev) ==
  LET p == IndexOf(q, prev)
      w == NextWaiting(q)
  IN  IF prev = NoEntry THEN <<e>> \o q
      ELSE IF p # 0 THEN InsertAt(q, p + 1, e)
      ELSE IF w # 0 THEN InsertAt(q, w, e)
      ELSE Append(q, e)

GateHolds(e) ==
  \/ gate = "quieting"
  \/ gate = "resuming"
  \/ gate = "due" /\ e \notin Continuations

StartsThroughShutGate(e) ==                                \* mutant
  /\ admission.phase = "idle" /\ editors = << >> /\ running = NoTurn
  /\ reasons = << >> /\ ~HasWaiting /\ active = NoTurn

CanStartImmediately(e) ==
  /\ admission.phase = "idle"
  /\ editors = << >>
  /\ running = NoTurn
  /\ reasons = << >>
  /\ ~HasWaiting
  /\ active = NoTurn
  /\ ~GateHolds(e)

ArmDrain == drain' = ~closed

-----------------------------------------------------------------------------
(* Holding the FIFO.  holdQueue walks the array by index and awaits an     *)
(* emit after each entry it holds: tk.i is where the walk goes on.         *)

HoldTargetsPast(q, tk) ==                                  \* mutant
  {j \in DOMAIN q : tk.i # 0 /\ j > tk.i /\ ~(tk.keep /\ Held(q[j]))}

HoldTargets(q, tk) ==
  {j \in DOMAIN q : tk.i # 0 /\ j >= tk.i /\ ~(tk.keep /\ Held(q[j]))}

HoldOnward(t, tk, q) ==
  LET js == HoldTargets(q, tk)
      j  == Min(js)
  IN  IF js = {}
      THEN /\ task' = [task EXCEPT ![t] = Goto(tk, tk.then)]
           /\ UNCHANGED held
      ELSE /\ task' = [task EXCEPT ![t] = [tk EXCEPT !.pc = "holding", !.i = j + 1]]
           /\ held' = [held EXCEPT ![q[j]] = tk.reason]

HoldQueue(t, tk, reason, keep, then) ==
  LET loop == [tk EXCEPT !.reason = reason, !.keep = keep, !.then = then, !.i = 1]
  IN  IF queue = << >>
      THEN /\ task' = [task EXCEPT ![t] = Goto(tk, then)]
           /\ UNCHANGED <<hold, held>>
      ELSE AddHoldReason(reason) /\ HoldOnward(t, loop, queue)

HoldAfterTurnFailure(t, tk, then) ==
  IF /\ NewestReason = "failed"
     /\ \A i \in DOMAIN queue : held[queue[i]] = "failed"
  THEN /\ task' = [task EXCEPT ![t] = Goto(tk, then)]
       /\ UNCHANGED <<hold, held>>
  ELSE HoldQueue(t, tk, "failed", FALSE, then)

(* The emit of one held entry resolved: hold the next. *)
HoldEmitted(t) ==
  /\ task[t].pc = "holding"
  /\ HoldOnward(t, task[t], queue)
  /\ UNCHANGED <<queue, paused, project, batch, edited, hold, handoff, release, sched, provider, history>>

-----------------------------------------------------------------------------
(* Starting an entry. *)

(* rememberAdmittedEntry: what Cancel answers already_admitted for. *)
AdmitOnAnswer(e) == UNCHANGED admitted                     \* mutant

Admit(e) == admitted' = admitted \union {e}

(* An entry that cannot or must not wait: startEntry claims the admission  *)
(* synchronously and awaits startTurn.                                     *)
StartEntry(t, e, ctx) ==
  /\ admission' = Begin(admission, t, "start")
  /\ Admit(e)
  /\ starts' = [starts EXCEPT ![e] = @ + 1]
  /\ began' = FALSE
  /\ task' = [task EXCEPT ![t] =
        [IdleTask EXCEPT !.pc = "starting", !.ctx = ctx, !.entry = e]]

Steerable(e, can) == e \in Steers /\ active # NoTurn /\ can

DispatchableWhileStarting(can) ==                          \* mutant
  LET w == NextWaiting(queue)
  IN  IF /\ editors = << >> /\ w # 0 /\ ~Held(queue[w]) /\ ~GateHolds(queue[w])
         /\ Steerable(queue[w], can) \/ (running = NoTurn /\ active = NoTurn)
      THEN queue[w] ELSE NoEntry

DispatchableWhileRunning(can) ==                           \* mutant
  LET w == NextWaiting(queue)
  IN  IF /\ admission.phase = "idle" /\ editors = << >>
         /\ w # 0 /\ ~Held(queue[w]) /\ ~GateHolds(queue[w])
         /\ Steerable(queue[w], can) \/ active = NoTurn
      THEN queue[w] ELSE NoEntry

(* The entry startNext would take, or NoEntry when it returns "none". *)
Dispatchable(can) ==
  LET w == NextWaiting(queue)
  IN  IF /\ admission.phase = "idle"
         /\ editors = << >>
         /\ w # 0
         /\ ~Held(queue[w])
         /\ ~GateHolds(queue[w])
         /\ Steerable(queue[w], can) \/ (running = NoTurn /\ active = NoTurn)
      THEN queue[w] ELSE NoEntry

Claim(t, ctx, can) ==
  LET e     == Dispatchable(can)
      w     == NextWaiting(queue)
      q     == RemoveAt(queue, w)
      steer == Steerable(e, can)
  IN  /\ e # NoEntry
      /\ queue' = q
      /\ DropSpentHold(q)
      /\ admission' = Begin(admission, t, IF steer THEN "steer" ELSE "start")
      /\ Admit(e)
      /\ starts' = IF steer THEN starts ELSE [starts EXCEPT ![e] = @ + 1]
      /\ began' = FALSE
      /\ task' = [Detached(task, q) EXCEPT ![t] =
            [IdleTask EXCEPT !.pc = IF steer THEN "steering" ELSE "starting",
                             !.ctx = ctx, !.entry = e,
                             !.rev = IF steer THEN revision' ELSE 0,
                             !.prev = IF w > 1 THEN queue[w - 1] ELSE NoEntry]]
      /\ UNCHANGED <<paused, project, held, batch, edited, running, processed, release,
                     gate, active, notices, history>>

-----------------------------------------------------------------------------
(* startEntry, after startTurn answers. *)

FinishWithoutDrain(t) ==                                   \* mutant
  admission' = Settle(admission, t) /\ UNCHANGED sched

(* finally: the admission settles and a drain is scheduled. *)
Finish(t) ==
  /\ admission' = Settle(admission, t)
  /\ ArmDrain
  /\ UNCHANGED <<editors, closed>>

TurnOf(e) == <<e, starts[e]>>

DeliverOne(e) == fate' = [fate EXCEPT ![e] = "delivered"]  \* mutant

Deliver(e) == fate' = [m \in Entries |-> IF m \in batch[e] THEN "delivered" ELSE fate[m]]

(* A turn that ended before its acknowledgement is not made running. *)
RunningAnyway(a, turn) == turn                             \* mutant

RunningAfterStart(a, turn) == IF TerminalOf(a) = {} THEN turn ELSE running

(* startTurn resolved. *)
StartAcknowledged(t) ==
  LET e    == task[t].entry
      turn == TurnOf(e)
      a    == Acknowledge(admission, t, turn)
  IN  /\ task[t].pc = "starting"
      /\ began \/ active = NoTurn
      /\ active' = IF began THEN active ELSE turn
      /\ began' = FALSE
      /\ admission' = a
      /\ running' = RunningAfterStart(a, turn)
      /\ task' = [task EXCEPT ![t].pc = "started", ![t].early = TerminalOf(a) # {}]
      /\ Deliver(e)
      /\ UNCHANGED <<fifo, hold, processed, admitted, release, sched,
                     gate, starts, notices, placed>>

(* The release of one turn: it is no longer running, and a failure holds   *)
(* the FIFO.  `then` is where the chain goes on after settleRelease.       *)
SettleRelease(t, tk, turn, status, then) ==
  LET ended == [tk EXCEPT !.turn = turn, !.status = status, !.then = then]
  IN  /\ processed' = IF turn # NoTurn /\ status # "idle"
                      THEN processed \union {turn} ELSE processed
      /\ IF running # NoTurn /\ turn \in {NoTurn, running}
         THEN /\ running' = NoTurn
              /\ task' = [task EXCEPT ![t] = [ended EXCEPT !.pc = "ended"]]
              /\ UNCHANGED <<hold, held>>
         ELSE /\ UNCHANGED running
              /\ IF status = "failed"
                 THEN HoldAfterTurnFailure(t, ended, then)
                 ELSE /\ task' = [task EXCEPT ![t] = Goto(ended, then)]
                      /\ UNCHANGED <<hold, held>>

(* The emit of "started" resolved: a terminal buffered by now is applied.  *)
StartEmitted(t) ==
  LET tk       == task[t]
      terminal == CHOOSE x \in TerminalOf(admission) : TRUE
  IN  /\ tk.pc = "started"
      /\ IF TerminalOf(admission) = {} \/ admission.attempt # t
         THEN /\ Finish(t)
              /\ Return(t)
              /\ UNCHANGED <<hold, held, running, processed>>
         ELSE /\ IF tk.early
                 THEN /\ processed' = processed \union {terminal.turn}
                      /\ task' = [task EXCEPT ![t] =
                           [tk EXCEPT !.pc = "ended", !.turn = terminal.turn,
                                      !.status = terminal.status, !.then = "finish"]]
                      /\ UNCHANGED <<hold, held, running>>
                 ELSE SettleRelease(t, tk, terminal.turn, terminal.status, "finish")
              /\ UNCHANGED <<admission, sched, release>>
      /\ UNCHANGED <<queue, paused, project, batch, edited, admitted, provider, history>>

(* The emit of "terminal" resolved. *)
TerminalEmitted(t) ==
  LET tk == task[t]
  IN  /\ tk.pc = "ended"
      /\ IF tk.status = "failed"
         THEN HoldAfterTurnFailure(t, tk, tk.then)
         ELSE /\ task' = [task EXCEPT ![t] = Goto(tk, tk.then)]
              /\ UNCHANGED <<hold, held>>
      /\ UNCHANGED <<queue, paused, project, batch, edited, handoff, release, sched, provider, history>>

StartFinished(t) ==
  /\ task[t].pc = "finish"
  /\ Finish(t)
  /\ Return(t)
  /\ UNCHANGED <<fifo, hold, running, processed, admitted, provider, history>>

(* startTurn rejected.  The backend may report a terminal for the turn it  *)
(* refused.                                                                *)
Refuse(t) ==
  LET turn == TurnOf(task[t].entry)
  IN  /\ task[t].pc = "starting"
      /\ starts[task[t].entry] < MaxStarts
      /\ \E told \in BOOLEAN :
           notices' = IF told /\ ~began
                      THEN notices \union {[turn |-> turn, status |-> "failed"]}
                      ELSE notices
      /\ began' = FALSE
      /\ UNCHANGED <<gate, active, starts>>

(* A direct start: the caller gets the error, and the terminal failures    *)
(* that arrived meanwhile hold the FIFO.  Every failure has one reason     *)
(* here, where the code has one for each message, so the second of two     *)
(* such holds changes nothing.                                             *)
DirectStartRejected(t) ==
  LET tk     == task[t]
      failed == {x.turn : x \in {y \in admission.terminals : y.status = "failed"}}
  IN  /\ "reject" \in Ops
      /\ Refuse(t)
      /\ tk.ctx \in {"direct", "edit"}
      /\ admitted' = admitted \ {tk.entry}
      /\ processed' = processed \union failed
      /\ IF failed # {}
         THEN HoldAfterTurnFailure(t, tk, "failed")
         ELSE /\ task' = [task EXCEPT ![t].pc = "failed"]
              /\ UNCHANGED <<hold, held>>
      /\ fate' = [m \in Entries |-> IF m \in batch[tk.entry] THEN "failed" ELSE fate[m]]
      /\ UNCHANGED <<queue, paused, project, batch, edited, admission, running, release, sched, placed>>

(* The emit of "failed" resolved. *)
FailureEmitted(t) ==
  /\ task[t].pc = "failed"
  /\ Finish(t)
  /\ Return(t)
  /\ UNCHANGED <<fifo, hold, running, processed, admitted, provider, history>>

ForgetRefused(t, e) ==                                     \* mutant
  admitted' = admitted \ {e} /\ UNCHANGED queue

PutBackBefore(t, e) ==                                     \* mutant
  queue' = RestoreAfter(queue, task[t].prev, e) /\ admitted' = admitted \ {e}

(* The entry goes back to its place and the FIFO is held for the refusal. *)
PutBack(t, e) ==
  /\ queue' = RestoreAfter(queue, e, task[t].prev)
  /\ admitted' = admitted \ {e}

Block(t, reason) ==
  /\ PutBack(t, task[t].entry)
  /\ AddHoldReason(reason)
  /\ task' = [task EXCEPT ![t].pc = "blocked", ![t].reason = reason, ![t].rev = 0]

(* A queued start: startEntry's finally and startNext's catch. *)
QueuedStartRejected(t, reason) ==
  /\ "reject" \in Ops
  /\ Refuse(t)
  /\ task[t].ctx \in {"drain", "release", "retry"}
  /\ Block(t, reason)
  /\ Finish(t)
  /\ UNCHANGED <<paused, project, held, batch, edited, running, processed, release, history>>

(* The emit of "blocked" resolved: the entries not yet held are held. *)
BlockEmitted(t) ==
  LET tk == task[t]
  IN  /\ tk.pc = "blocked"
      /\ HoldQueue(t, tk, tk.reason, TRUE, IF tk.ctx = "release" THEN "refused" ELSE "idle")
      /\ UNCHANGED <<queue, paused, project, batch, edited, handoff, release, sched, provider, history>>

-----------------------------------------------------------------------------
(* Steering an entry into the running turn. *)

(* steerTurn's acceptance may arrive after the turn it names has ended;    *)
(* nothing reads the turn of an acknowledged steer.                        *)
SteerAccepted(t) ==
  LET e == task[t].entry
  IN  /\ task[t].pc = "steering"
      /\ admission' = Acknowledge(admission, t, active)
      /\ task' = [task EXCEPT ![t].pc = "steered", ![t].rev = 0]
      /\ Deliver(e)
      /\ UNCHANGED <<fifo, hold, running, processed, admitted, release, sched, provider, placed>>

SteerEmitted(t) ==
  /\ task[t].pc = "steered"
  /\ Finish(t)
  /\ Return(t)
  /\ UNCHANGED <<fifo, hold, running, processed, admitted, provider, history>>

(* A steer that was not delivered: finally drains if the thread is idle,   *)
(* and the caller asks for a drain when it is to be tried again.           *)
SteerReturns(retry) ==
  /\ drain' = IF retry \/ active = NoTurn THEN ~closed ELSE drain
  /\ UNCHANGED <<editors, closed>>

(* steerTurn answered "retry" or nothing: a hold that arrived meanwhile    *)
(* covers the entry too.                                                   *)
SteerDeclined(t, retry) ==
  LET tk == [task[t] EXCEPT !.early = retry, !.rev = 0]
  IN  /\ tk.pc = "steering"
      /\ PutBack(t, tk.entry)
      /\ IF reasons # << >> /\ revision # task[t].rev
         THEN /\ AddHoldReason(NewestReason)
              /\ HoldOnward(t, [tk EXCEPT !.reason = NewestReason, !.keep = TRUE,
                                          !.then = "steerBack", !.i = 1], queue')
              /\ UNCHANGED <<admission, sched, release>>
         ELSE /\ SteerReturns(retry)
              /\ admission' = Settle(admission, t)
              /\ Return(t)
              /\ UNCHANGED <<hold, held>>
      /\ UNCHANGED <<paused, project, batch, edited, running, processed, provider, history>>

SteerBack(t) ==
  /\ task[t].pc = "steerBack"
  /\ SteerReturns(task[t].early)
  /\ admission' = Settle(admission, t)
  /\ Return(t)
  /\ UNCHANGED <<fifo, hold, running, processed, admitted, provider, history>>

SteerRejected(t, reason) ==
  /\ "reject" \in Ops
  /\ task[t].pc = "steering"
  /\ Block(t, reason)
  /\ admission' = Settle(admission, t)
  /\ SteerReturns(FALSE)
  /\ UNCHANGED <<paused, project, held, batch, edited, running, processed, release, provider, history>>

-----------------------------------------------------------------------------
(* releaseThread: a turn's outcome, or an idle report that names no turn.  *)

Take(n) ==
  /\ n \in notices
  /\ notices' = notices \ {n}
  /\ UNCHANGED <<gate, active, starts, began>>

Buffers(n) ==
  n.turn # NoTurn /\ admission.phase # "idle" /\ admission.kind = "start"

OfOtherTurn(n) == n.turn # NoTurn /\ running \notin {NoTurn, n.turn}

ReleaseBuffered(n) ==
  /\ Take(n)
  /\ n.turn \notin processed
  /\ Buffers(n)
  /\ admission' = RecordTerminal(admission, n)
  /\ UNCHANGED <<fifo, hold, running, processed, admitted, release, sched, task, history>>

(* The outcome of a turn already processed, of a turn that is not the one  *)
(* running, or one that lands while another release is under way.          *)
ReleaseIgnored(n) ==
  /\ Take(n)
  /\ n.turn # NoTurn
  /\ \/ n.turn \in processed
     \/ ~Buffers(n) /\ (OfOtherTurn(n) \/ releasing)
  /\ UNCHANGED <<fifo, hold, handoff, release, sched, task, history>>

(* An idle report during another release is kept, once. *)
ReleaseCoalesced(n) ==
  /\ Take(n)
  /\ n.turn = NoTurn
  /\ releasing
  /\ pendingRelease' = TRUE
  /\ UNCHANGED <<fifo, hold, handoff, releasing, sched, task, history>>

Release(t, n) ==
  /\ Take(n)
  /\ Free(t)
  /\ n.turn \notin processed
  /\ ~Buffers(n) /\ ~OfOtherTurn(n) /\ ~releasing
  /\ releasing' = TRUE
  /\ SettleRelease(t, [IdleTask EXCEPT !.ctx = "release"], n.turn, n.status, "next")
  /\ UNCHANGED <<queue, paused, project, batch, edited, admission, admitted, pendingRelease,
                 sched, history>>

(* settleRelease, or the clearing of a hold, returned: startNext. *)
StartNext(t) ==
  /\ task[t].pc = "next"
  /\ \E can \in BOOLEAN :
       \/ Claim(t, task[t].ctx, can)
       \/ /\ Dispatchable(can) = NoEntry
          /\ Return(t)
          /\ UNCHANGED <<fifo, hold, handoff, provider, history>>
  /\ UNCHANGED sched

(* releaseThread's finally after a refused start: the idle report that was *)
(* kept meanwhile is replayed.                                             *)
ReleaseRefused(t) ==
  /\ task[t].pc = "refused"
  /\ pendingRelease' = FALSE
  /\ IF pendingRelease
     THEN /\ SettleRelease(t, [IdleTask EXCEPT !.ctx = "release"], NoTurn, "idle", "next")
          /\ UNCHANGED releasing
     ELSE /\ releasing' = FALSE
          /\ task' = [task EXCEPT ![t] = IdleTask]
          /\ UNCHANGED <<hold, held, running, processed>>
  /\ UNCHANGED <<queue, paused, project, batch, edited, admission, admitted, sched, provider, history>>

(* The drain timer. *)
DrainFires ==
  /\ drain
  /\ drain' = FALSE
  /\ \E can \in BOOLEAN :
       \/ \E t \in Tasks : Free(t) /\ Claim(t, "drain", can)
       \/ /\ Dispatchable(can) = NoEntry
          /\ UNCHANGED <<fifo, hold, handoff, release, task, provider, history>>
  /\ UNCHANGED <<editors, closed>>

-----------------------------------------------------------------------------
(* Submissions. *)

Unsent(e) == fate[e] = "unsent" /\ \A d \in 1..(e - 1) : fate[d] # "unsent"

(* submit, on a thread that cannot start it now. *)
Enqueue(e) ==
  /\ "submit" \in Ops /\ Unsent(e) /\ e \notin Steers
  /\ ~CanStartImmediately(e)
  /\ queue' = Append(queue, e)
  /\ held' = [held EXCEPT ![e] = NewestReason]
  /\ fate' = [fate EXCEPT ![e] = "open"]
  /\ UNCHANGED <<paused, project, batch, edited, hold, handoff, release, sched, task, provider, placed>>

(* submit and submitIfIdle, on an idle thread. *)
StartNow(t, e) ==
  /\ "submit" \in Ops /\ Unsent(e) /\ e \notin Steers
  /\ Free(t)
  /\ CanStartImmediately(e)
  /\ StartEntry(t, e, "direct")
  /\ fate' = [fate EXCEPT ![e] = "open"]
  /\ UNCHANGED <<fifo, hold, running, processed, release, sched,
                 gate, active, notices, placed>>

(* submitHeld: on a held FIFO at the back, otherwise in front, though      *)
(* behind the restart continuations.                                       *)
AtFront == 1                                               \* mutant

PlaceOfHeld ==
  LET w == SelectInSeq(queue, LAMBDA x : x \notin Continuations)
  IN  IF reasons # << >> \/ w = 0 THEN Len(queue) + 1 ELSE w

SubmitHeld(t, e, reason) ==
  /\ "held" \in Ops /\ Unsent(e) /\ e \notin Steers
  /\ Free(t)
  /\ AddHoldReason(reason)
  /\ queue' = InsertAt(queue, PlaceOfHeld, e)
  /\ held' = [held EXCEPT ![e] = reason]
  /\ task' = [task EXCEPT ![t] = [IdleTask EXCEPT !.pc = "queuedHeld", !.reason = reason]]
  /\ fate' = [fate EXCEPT ![e] = "open"]
  /\ placed' = placed \union {e}
  /\ UNCHANGED <<paused, project, batch, edited, handoff, release, sched, provider>>

(* The emit of "queued" resolved: the rest of the FIFO is held. *)
HeldEmitted(t) ==
  /\ task[t].pc = "queuedHeld"
  /\ HoldQueue(t, task[t], task[t].reason, TRUE, "idle")
  /\ UNCHANGED <<queue, paused, project, batch, edited, handoff, release, sched, provider, history>>

(* submitProjectHeld: only the entry waits, paused at the back. *)
SubmitProjectHeld(e) ==
  /\ "project" \in Ops /\ Unsent(e) /\ e \notin Steers
  /\ queue' = Append(queue, e)
  /\ paused' = paused \union {e}
  /\ project' = project \union {e}
  /\ fate' = [fate EXCEPT ![e] = "open"]
  /\ placed' = placed \union {e}
  /\ UNCHANGED <<held, batch, edited, hold, handoff, release, sched, task, provider>>

-----------------------------------------------------------------------------
(* Edits: withDispatchSuspended runs them one at a time, in order, and     *)
(* nothing starts until the last one has ended.                            *)

EnterEdit(t, op, e, before) ==
  /\ op \in Ops
  /\ Free(t)
  /\ editors' = Append(editors, t)
  /\ task' = [task EXCEPT ![t] = [IdleTask EXCEPT !.pc = "editing", !.ctx = "edit",
                                  !.op = op, !.entry = e, !.prev = before]]
  /\ UNCHANGED <<fifo, hold, handoff, release, drain, closed, provider>>

EditsEntry(t, e) ==
  /\ InQueue(e)
  /\ \/ \E op \in {"pause", "resume", "input"} : EnterEdit(t, op, e, NoEntry)
     \/ \E before \in AnyEntry : EnterEdit(t, "move", e, before)
  /\ UNCHANGED history

EditsSteer(t, e) ==
  /\ Unsent(e) /\ e \in Steers
  /\ EnterEdit(t, "steer", e, NoEntry)
  /\ fate' = [fate EXCEPT ![e] = "sending"]
  /\ UNCHANGED placed

CanRetry(e) ==
  /\ queue # << >> /\ NextWaiting(queue) # 0 /\ queue[NextWaiting(queue)] = e
  /\ reasons # << >> /\ Held(e)
  /\ admission.phase = "idle" /\ editors = << >> /\ running = NoTurn /\ active = NoTurn

(* releaseEntryWithDisposition: Retry of the entry dispatch would start. *)
Retry(t, e) ==
  /\ CanRetry(e)
  /\ EnterEdit(t, "retry", e, NoEntry)
  /\ UNCHANGED history

MayEdit(t, op) == editors # << >> /\ Head(editors) = t /\ task[t].pc = "editing" /\ task[t].op = op

LeaveWithoutDrain(t, tk) ==                                \* mutant
  /\ editors' = RemoveFirst(editors, t)
  /\ UNCHANGED <<drain, closed>>
  /\ task' = [task EXCEPT ![t] = tk]

LeaveEdit(t, tk) ==
  /\ editors' = RemoveFirst(editors, t)
  /\ drain' = IF Len(editors) = 1 THEN ~closed ELSE drain
  /\ UNCHANGED closed
  /\ task' = [task EXCEPT ![t] = tk]

(* moveEntry, once its turn to edit comes: nothing passes an entry that is *)
(* held or is a restart continuation.                                      *)
Moved(q, e, before) ==
  LET from   == IndexOf(q, e)
      anchor == IF before = NoEntry THEN Len(q) + 1 ELSE IndexOf(q, before)
      fixed(x) == Held(x) \/ x \in Continuations
      passed == IF anchor > from THEN (from + 1)..(anchor - 1) ELSE anchor..(from - 1)
      to     == IF anchor > from THEN anchor - 1 ELSE anchor
  IN  IF from = 0 \/ anchor = 0 \/ before = e \/ fixed(e) \/ \E i \in passed : fixed(q[i])
      THEN q
      ELSE InsertAt(RemoveAt(q, from), to, e)

MoveEntry(t) ==
  LET e == task[t].entry
  IN  /\ MayEdit(t, "move")
      /\ queue' = Moved(queue, e, task[t].prev)
      /\ placed' = IF queue' = queue THEN placed ELSE placed \union {e}
      /\ LeaveEdit(t, IdleTask)
      /\ UNCHANGED <<paused, project, held, batch, edited, hold, handoff, release, provider, fate>>

(* setEntryPaused(entry, true): a held entry does not pause. *)
PauseEntry(t) ==
  LET e == task[t].entry
  IN  /\ MayEdit(t, "pause")
      /\ IF InQueue(e) /\ ~Held(e)
         THEN paused' = paused \union {e} /\ placed' = placed \union {e}
         ELSE UNCHANGED <<paused, placed>>
      /\ LeaveEdit(t, IdleTask)
      /\ UNCHANGED <<queue, project, held, batch, edited, hold, handoff, release, provider, fate>>

(* setEntryPaused(entry, false): a project-held entry takes up the hold of *)
(* the FIFO, which it was put there without.  (If a walk held it before    *)
(* and the FIFO has no hold any more, the code drops holdReason but leaves *)
(* manualReleaseRequired: held without a reason.  Here it keeps the one it *)
(* had; in both it is held.)                                               *)
ResumeEntry(t) ==
  LET e == task[t].entry
  IN  /\ MayEdit(t, "resume")
      /\ IF InQueue(e) /\ e \in paused
         THEN /\ paused' = paused \ {e}
              /\ project' = project \ {e}
              /\ held' = IF e \in project /\ reasons # << >>
                         THEN [held EXCEPT ![e] = NewestReason] ELSE held
         ELSE UNCHANGED <<paused, project, held>>
      /\ LeaveEdit(t, IdleTask)
      /\ UNCHANGED <<queue, batch, edited, hold, handoff, release, provider, history>>

(* An edit that takes any time: the queue only waits for it to end.         *)
InputEdited(t) ==
  /\ MayEdit(t, "input")
  /\ LeaveEdit(t, IdleTask)
  /\ UNCHANGED <<fifo, hold, handoff, release, provider, history>>

(* submitSteer and submitGroupedSteer.  A grouped message joins a waiting  *)
(* batch that is not paused and was not edited.                            *)
JoinableBatch(e) ==
  IF e \in Batches
  THEN SelectInSeq(queue, LAMBDA x : x \in Batches \ edited /\ x \notin paused)
  ELSE 0

SubmitSteer(t) ==
  LET e == task[t].entry
      c == JoinableBatch(e)
      idle == /\ Len(editors) = 1
              /\ ~HasWaiting
              /\ admission.phase = "idle" /\ running = NoTurn /\ reasons = << >>
              /\ active = NoTurn /\ ~GateHolds(e)
      joined == IF c = 0 THEN e ELSE queue[c]
  IN  /\ MayEdit(t, "steer")
      /\ fate' = [fate EXCEPT ![e] = "open"]
      /\ IF idle
         THEN /\ StartEntry(t, e, "edit")
              /\ UNCHANGED <<queue, held, batch>>
         ELSE /\ queue' = IF c = 0 THEN Append(queue, e) ELSE queue
              /\ batch' = [batch EXCEPT ![joined] = @ \union {e}]
              /\ held' = IF reasons = << >> THEN held
                         ELSE [held EXCEPT ![joined] = NewestReason]
              /\ task' = [task EXCEPT ![t].pc = "leaving"]
              /\ UNCHANGED <<admission, admitted, starts, began>>
      /\ UNCHANGED <<paused, project, edited, hold, running, processed, release, sched,
                     gate, active, notices, placed>>

(* The steer's emit, or its start, resolved: the edit ends. *)
SteerLeaves(t, pc) ==
  /\ task[t].pc = pc
  /\ LeaveEdit(t, IdleTask)
  /\ UNCHANGED <<fifo, hold, handoff, release, provider, history>>

(* clearQueueHold walks the FIFO like holdQueue; then Retry starts an entry. *)
ClearOnward(t, tk) ==
  IF tk.i \in DOMAIN queue
  THEN /\ held' = [held EXCEPT ![queue[tk.i]] = NoReason]
       /\ task' = [task EXCEPT ![t] = [tk EXCEPT !.pc = "clearing", !.i = @ + 1]]
       /\ UNCHANGED sched
  ELSE /\ UNCHANGED held
       /\ LeaveEdit(t, [IdleTask EXCEPT !.pc = "next", !.ctx = "retry"])

ClearQueueHold(t) ==
  /\ MayEdit(t, "retry")
  /\ SetReasons(<< >>, 0)
  /\ ClearOnward(t, [task[t] EXCEPT !.i = 1])
  /\ UNCHANGED <<queue, paused, project, batch, edited, handoff, release, provider, history>>

ClearEmitted(t) ==
  /\ task[t].pc = "clearing"
  /\ ClearOnward(t, task[t])
  /\ UNCHANGED <<queue, paused, project, batch, edited, hold, handoff, release, provider, history>>

-----------------------------------------------------------------------------
(* releaseHold after an unlock: entries held for "lock" are released, or   *)
(* take the reason of the nearest entry ahead that is still held.          *)

UnlockOnward(t, tk) ==
  LET onward  == {j \in DOMAIN queue : tk.i # 0 /\ j >= tk.i /\ Held(queue[j])}
      locked  == {j \in onward : held[queue[j]] = "lock"}
      j       == Min(locked)
      skipped == {k \in onward \ locked : locked = {} \/ k < j}
      kept    == tk.kept \union {held[queue[k]] : k \in skipped}
      ahead   == IF skipped = {} THEN tk.ahead ELSE held[queue[Max(skipped)]]
  IN  IF locked # {}
      THEN /\ held' = [held EXCEPT ![queue[j]] = ahead]
           /\ task' = [task EXCEPT ![t] = [tk EXCEPT !.pc = "unlocking", !.i = j + 1,
                                                     !.ahead = ahead, !.kept = kept]]
           /\ UNCHANGED <<hold, sched>>
      ELSE /\ UNCHANGED held
           /\ SetReasons(OnlyReasons(tk.snap, kept), tk.rev)
           /\ task' = [task EXCEPT ![t] = IdleTask]
           /\ ArmDrain
           /\ UNCHANGED <<editors, closed>>

ReleaseHold(t) ==
  /\ "unlock" \in Ops
  /\ Free(t)
  /\ Contains(reasons, "lock")
  /\ UnlockOnward(t, [IdleTask EXCEPT !.i = 1, !.snap = reasons, !.rev = revision])
  /\ UNCHANGED <<queue, paused, project, batch, edited, handoff, release, provider, history>>

UnlockEmitted(t) ==
  /\ task[t].pc = "unlocking"
  /\ UnlockOnward(t, task[t])
  /\ UNCHANGED <<queue, paused, project, batch, edited, handoff, release, provider, history>>

-----------------------------------------------------------------------------
(* Synchronous operations. *)

CancelEntry(e) ==
  LET w == IndexOf(queue, e)
      q == RemoveAt(queue, w)
  IN  /\ "cancel" \in Ops
      /\ InQueue(e)
      /\ queue' = q
      /\ DropSpentHold(q)
      /\ task' = Detached(task, q)
      /\ drain' = IF w = 1 /\ q # << >> THEN ~closed ELSE drain
      /\ fate' = [m \in Entries |-> IF m \in batch[e] THEN "cancelled" ELSE fate[m]]
      /\ held' = [held EXCEPT ![e] = NoReason]
      /\ paused' = paused \ {e}
      /\ project' = project \ {e}
      /\ UNCHANGED <<batch, edited, handoff, release, editors, closed, provider, placed>>

(* updateQueuedEntryInput: the new input stands for the whole batch, and    *)
(* later messages no longer join it.  Edits of other entries, and a sender *)
(* who replaces what it wrote itself (replaceQueuedAgentInput), change     *)
(* nothing here: which of a sender's own texts a batch holds is data.      *)
EditInput(e) ==
  /\ "input" \in Ops
  /\ InQueue(e) /\ e \in Batches
  /\ edited' = edited \union {e}
  /\ UNCHANGED <<queue, paused, project, held, batch, hold, handoff, release, sched,
                 task, provider, history>>

(* scheduleThreadDrain: occupancy outside the queue changed. *)
ScheduleThreadDrain ==
  /\ "occupancy" \in Ops
  /\ ArmDrain
  /\ UNCHANGED <<fifo, hold, handoff, release, editors, closed, task, provider, history>>

Close ==
  /\ "close" \in Ops
  /\ closed' = TRUE
  /\ drain' = FALSE
  /\ UNCHANGED <<fifo, hold, handoff, release, editors, task, provider, history>>

-----------------------------------------------------------------------------
(* The backend and the gate, as the queue's options see them. *)

TurnBegins(t) ==
  /\ task[t].pc = "starting"
  /\ ~began
  /\ active = NoTurn
  /\ active' = TurnOf(task[t].entry)
  /\ began' = TRUE
  /\ UNCHANGED <<fifo, hold, handoff, release, sched, task, gate, starts, notices, history>>

ExternalTurnBegins ==
  /\ "external" \in Ops
  /\ active = NoTurn
  /\ starts[NoEntry] < MaxStarts
  /\ starts' = [starts EXCEPT ![NoEntry] = @ + 1]
  /\ active' = <<NoEntry, starts'[NoEntry]>>
  /\ UNCHANGED <<fifo, hold, handoff, release, sched, task, gate, began, notices, history>>

IdleReport == [turn |-> NoTurn, status |-> "idle"]

Notify(n) ==
  /\ Cardinality(notices) < MaxNotices
  /\ notices' = notices \union {n}
  /\ UNCHANGED <<fifo, hold, handoff, release, sched, task, gate, starts, began, history>>

TurnEnds(status) ==
  /\ active # NoTurn
  /\ status = "failed" => "fail" \in Ops
  /\ active' = NoTurn
  /\ Notify([turn |-> active, status |-> status])

(* Backends report an idle thread on their own, any number of times. *)
IdleReported ==
  /\ "idle" \in Ops
  /\ active = NoTurn
  /\ Notify(IdleReport)
  /\ UNCHANGED active

(* An outcome already processed is reported again. *)
OutcomeRepeated(turn) ==
  /\ "repeat" \in Ops
  /\ turn \in processed
  /\ Notify([turn |-> turn, status |-> "completed"])
  /\ UNCHANGED active

GateMovesSilently(from, to) ==                             \* mutant
  /\ gate \in from
  /\ gate' = to
  /\ UNCHANGED <<fifo, hold, handoff, release, sched, task,
                 active, starts, began, notices, history>>

(* The continuation's dispatch time comes; the gate opens; a quiet restart *)
(* shuts it until the process exits.                                       *)
GateMoves(from, to) ==
  /\ gate \in from
  /\ gate' = to
  /\ IF to = "quieting" THEN UNCHANGED drain ELSE ArmDrain
  /\ UNCHANGED <<fifo, hold, handoff, release, editors, closed, task,
                 active, starts, began, notices, history>>

GateDue    == GateMoves({"resuming"}, "due")
GateOpens  == GateMoves({"resuming", "due"}, "open")
GateQuiets == "quiet" \in Ops /\ GateMoves({"open", "resuming", "due"}, "quieting")

-----------------------------------------------------------------------------
Init ==
  /\ queue \in [1..Cardinality(Continuations) -> Continuations]
  /\ \A i, j \in DOMAIN queue : i < j => queue[i] < queue[j]
  /\ paused = {} /\ project = {}
  /\ held = [e \in Entries |-> NoReason]
  /\ batch = [e \in Entries |-> {e}] /\ edited = {}
  /\ reasons = << >> /\ revision = 0
  /\ admission = IdleAdmission
  /\ running = NoTurn /\ processed = {} /\ admitted = {}
  /\ releasing = FALSE /\ pendingRelease = FALSE
  /\ editors = << >> /\ drain = FALSE /\ closed = FALSE
  /\ task = [t \in Tasks |-> IdleTask]
  /\ gate = IF Continuations = {} THEN "open" ELSE "resuming"
  /\ active = NoTurn
  /\ starts = [e \in AnyEntry |-> 0]
  /\ began = FALSE /\ notices = {}
  /\ fate = [e \in Entries |-> IF e \in Continuations THEN "open" ELSE "unsent"]
  /\ placed = {}

Submission ==
  \/ \E e \in Entries :
       \/ Enqueue(e) \/ SubmitProjectHeld(e) \/ CancelEntry(e) \/ EditInput(e)
  \/ \E t \in Tasks, e \in Entries :
       \/ StartNow(t, e) \/ EditsEntry(t, e) \/ EditsSteer(t, e) \/ Retry(t, e)
       \/ \E r \in {"lock", "review"} : SubmitHeld(t, e, r)
  \/ \E t \in Tasks : ReleaseHold(t)
  \/ ScheduleThreadDrain \/ Close

(* A chain whose promise has resolved goes on before anything else does:   *)
(* JavaScript drains its microtasks before the next event.  An edit runs   *)
(* as soon as the edits before it have ended.                              *)
Ready(t) ==
  \/ task[t].pc \in {"next", "finish", "steerBack", "refused", "left"}
  \/ task[t].pc = "editing" /\ Head(editors) = t /\ task[t].op # "input"

Proceed(t) ==
  \/ StartNext(t) \/ StartFinished(t) \/ SteerBack(t) \/ ReleaseRefused(t)
  \/ MoveEntry(t) \/ PauseEntry(t) \/ ResumeEntry(t) \/ SubmitSteer(t) \/ ClearQueueHold(t)
  \/ SteerLeaves(t, "left")

(* The emit, or the edit, that chain t awaits resolves. *)
Emitted(t) ==
  \/ HoldEmitted(t) \/ HeldEmitted(t) \/ ClearEmitted(t) \/ UnlockEmitted(t)
  \/ StartEmitted(t) \/ TerminalEmitted(t) \/ FailureEmitted(t) \/ BlockEmitted(t)
  \/ SteerEmitted(t) \/ SteerLeaves(t, "leaving") \/ InputEdited(t)

Answer(t) ==
  \/ StartAcknowledged(t)
  \/ DirectStartRejected(t)
  \/ SteerAccepted(t)
  \/ \E r \in Refusals : QueuedStartRejected(t, r) \/ SteerRejected(t, r)
  \/ \E retry \in BOOLEAN : SteerDeclined(t, retry)

Report(n) ==
  \/ ReleaseBuffered(n) \/ ReleaseIgnored(n) \/ ReleaseCoalesced(n)
  \/ \E t \in Tasks : Release(t, n)

Backend ==
  \/ \E t \in Tasks : TurnBegins(t)
  \/ ExternalTurnBegins \/ IdleReported
  \/ \E s \in {"completed", "failed"} : TurnEnds(s)
  \/ \E turn \in processed : OutcomeRepeated(turn)

Next ==
  \/ \E t \in Tasks : Proceed(t)
  \/ /\ ~ \E t \in Tasks : Ready(t)
     /\ \/ Submission
        \/ \E t \in Tasks : Emitted(t) \/ Answer(t)
        \/ \E n \in notices : Report(n)
        \/ DrainFires
        \/ Backend
        \/ GateDue \/ GateOpens \/ GateQuiets

Spec == Init /\ [][Next]_vars

-----------------------------------------------------------------------------
(* Properties. *)

PCs == {"idle", "starting", "started", "ended", "finish", "failed", "blocked",
        "steering", "steered", "steerBack", "holding", "queuedHeld", "clearing",
        "unlocking", "editing", "leaving", "left", "next", "refused"}

(* Where a chain may go on after the walk or the emit it awaits. *)
Onward == {"idle", "finish", "failed", "steerBack", "next", "refused"}

(* The chain works on the entry its locals name, or holds the FIFO for the *)
(* reason they name.                                                       *)
Working  == {"starting", "steering", "editing"}
Blocking == {"blocked", "queuedHeld"}

Edits == {"none", "move", "pause", "resume", "input", "steer", "retry"}

Contexts  == {"direct", "drain", "release", "retry", "edit"}
Revisions == 0..MaxRevision

Chain ==
  [pc : PCs, ctx : Contexts, entry : AnyEntry, prev : AnyEntry,
   turn : AnyTurn, status : Statuses, early : BOOLEAN,
   op : Edits, i : Nat, reason : AnyReason, keep : BOOLEAN, then : Onward,
   ahead : AnyReason, kept : SUBSET Reasons, snap : Seq(Reasons), rev : Revisions]

Outcome == [turn : AnyTurn, status : Statuses]

Admission ==
  [phase : {"idle", "starting", "acknowledged"}, attempt : Tasks \union {NoAttempt},
   kind : {"start", "steer"}, terminals : SUBSET Outcome, turn : AnyTurn]

FifoOK ==
  /\ queue \in Seq(Entries)
  /\ paused \subseteq Entries /\ project \subseteq Entries
  /\ held \in [Entries -> AnyReason]
  /\ batch \in [Entries -> SUBSET Entries] /\ edited \subseteq Entries

HoldOK == reasons \in Seq(Reasons) /\ revision \in Revisions

HandoffOK ==
  /\ admission \in Admission
  /\ running \in AnyTurn /\ processed \subseteq AnyTurn /\ admitted \subseteq Entries

ReleaseOK == releasing \in BOOLEAN /\ pendingRelease \in BOOLEAN

SchedOK ==
  /\ editors \in Seq(Tasks) /\ drain \in BOOLEAN /\ closed \in BOOLEAN

TaskOK ==
  /\ task \in [Tasks -> Chain]
  /\ \A t \in Tasks : /\ task[t].pc \in Working => task[t].entry \in Entries
                      /\ task[t].pc \in Blocking => task[t].reason \in Reasons

ProviderOK ==
  /\ gate \in {"open", "resuming", "due", "quieting"}
  /\ active \in AnyTurn
  /\ starts \in [AnyEntry -> Nat]
  /\ began \in BOOLEAN
  /\ notices \subseteq Outcome

HistoryOK ==
  /\ fate \in [Entries -> {"unsent", "sending", "open", "delivered", "cancelled", "failed"}]
  /\ placed \subseteq Entries

(* Every variable of the queue has its type (the fields of ThreadTurnQueue *)
(* and the locals of its suspended methods).                               *)
TypeOK ==
  /\ FifoOK /\ HoldOK /\ HandoffOK /\ ReleaseOK /\ SchedOK /\ TaskOK /\ ProviderOK /\ HistoryOK

InFlight(t) == task[t].pc \in {"starting", "steering"}

InHandoff(t) ==
  \/ InFlight(t)
  \/ task[t].pc \in {"started", "steered", "finish", "failed", "steerBack"}
  \/ task[t].pc \in {"ended", "holding"} /\ task[t].then \in {"finish", "failed", "steerBack"}

(* Two promise chains never hand entries to the backend at once, and the   *)
(* admission is always the one of the chain that is in the handoff.        *)
OneHandoff ==
  /\ \A t, u \in Tasks : InHandoff(t) /\ InHandoff(u) => t = u
  /\ \A t \in Tasks : InHandoff(t) => admission.phase # "idle" /\ admission.attempt = t
  /\ admission.phase # "idle" => \E t \in Tasks : InHandoff(t)

(* While the backend is asked to start a turn, the queue has no other turn *)
(* running: neither a submit, a drain nor a release starts a second one.   *)
StartsAlone ==
  \A t \in Tasks : task[t].pc = "starting" => running = NoTurn

Carried(m) == {i \in DOMAIN queue : m \in batch[queue[i]]}
Carriers(m) == {t \in Tasks : InFlight(t) /\ m \in batch[task[t].entry]}

(* A message that was accepted and not yet delivered, cancelled or refused *)
(* is in exactly one place: one entry of the FIFO, or one handoff.  The    *)
(* others are in none, so nothing is delivered twice.                      *)
MessageInOnePlace ==
  \A m \in Entries :
    Cardinality(Carried(m)) + Cardinality(Carriers(m)) = IF fate[m] = "open" THEN 1 ELSE 0

(* Cancel never answers not_found for a message that may still reach the  *)
(* model or has: it finds it in the FIFO, or knows that it was admitted.   *)
CancelFindsMessage ==
  \A m \in Entries : fate[m] \in {"open", "delivered"} =>
    \E e \in Entries : m \in batch[e] /\ (InQueue(e) \/ e \in admitted)

(* Where each message is, for a caller who sees neither FIFO nor batches.  *)
Place(m) ==
  IF fate[m] = "open" THEN IF Carriers(m) = {} THEN "waiting" ELSE "asked"
  ELSE IF fate[m] = "sending" THEN "unsent" ELSE fate[m]

Whereabouts == [m \in Entries |-> Place(m)]

Delivery == INSTANCE MessageDelivery
  WITH Messages <- Entries, at <- Whereabouts

(* The queue implements MessageDelivery: one handoff is out at a time, a   *)
(* batch is delivered, put back or refused whole (startEntry, startNext),  *)
(* only what waits is cancelled (cancelEntry), and nothing that came to an *)
(* end is handed over again.                                               *)
DeliversAsPromised == Delivery!Spec

(* Entries wait in the order they were submitted, save those whose place   *)
(* or pause the operator chose: a start that fails puts its entry back     *)
(* where it was.                                                           *)
WaitInOrder ==
  \A i, j \in DOMAIN queue :
    i < j /\ queue[i] \notin placed /\ queue[j] \notin placed => queue[i] < queue[j]

Quiet == \A t \in Tasks : Free(t)

(* When nothing is under way, an entry that waits for Retry is in a FIFO   *)
(* that Retry accepts: heldQueues knows the hold.                          *)
HeldHasHold ==
  Quiet => \A i \in DOMAIN queue : Held(queue[i]) => reasons # << >>

(* A hold is not left behind without an entry it holds. *)
HoldIsSpent ==
  Quiet /\ reasons # << >> => \E i \in DOMAIN queue : Held(queue[i])

(* While holdQueue walks a FIFO after a failed turn, every entry it has    *)
(* passed is held.                                                         *)
WalkHolds ==
  \A t \in Tasks : task[t].pc = "holding" =>
    \A j \in DOMAIN queue : j < task[t].i => Held(queue[j])

(* Once every outcome is delivered and every chain is done, a running      *)
(* entry's turn is really running.                                         *)
NoGhostRunning ==
  Quiet /\ notices = {} /\ running # NoTurn => active = running

(* No wake-up is lost: when nothing is under way and nothing is due, the   *)
(* queue would not start an entry if it looked again.                      *)
NothingForgotten ==
  Quiet /\ notices = {} /\ ~drain /\ ~closed => Dispatchable(FALSE) = NoEntry

(* What waits when a turn has failed does not start while the failure is   *)
(* being published and the FIFO is being held for review.                  *)
PublishesFailure(t) ==
  task[t].status = "failed" /\ task[t].pc \in {"ended", "holding"}

FailureHoldsWaiting ==
  [][(\E t \in Tasks : PublishesFailure(t))
       => \A u \in Tasks : ~(task[u].pc # "starting" /\ task'[u].pc = "starting"
                             /\ InQueue(task'[u].entry))]_vars

(* What a quiet restart put back stays in front of what came later: held   *)
(* deliveries, put-back entries and moves go behind it.                    *)
ContinuationsLead ==
  \A i, j \in DOMAIN queue :
    i < j /\ queue[j] \in Continuations => queue[i] \in Continuations

(* Three interleavings disturb the order.  restoreAfter looks for the entry *)
(* that was ahead when the start began; meanwhile it may be cancelled, or   *)
(* be moved back.  And a steer waits for the edits before it, while later   *)
(* submissions do not.                                                      *)
PredecessorCancelled ==
  \E t \in Tasks, e \in Entries : InFlight(t) /\ task[t].prev = e /\ CancelEntry(e)

PredecessorMovedBack ==
  \E t, u \in Tasks :
    /\ InFlight(t) /\ task[t].prev = task[u].entry
    /\ MoveEntry(u)
    /\ IndexOf(queue, task[t].prev) < IndexOf(queue', task[t].prev)

SteerOvertaken ==
  \E t \in Tasks :
    /\ SubmitSteer(t) /\ queue' # queue
    /\ \E d \in Entries : d > task[t].entry /\ fate[d] = "open"

(* Without them both orders hold. *)
UncancelledSpec == Init /\ [][Next /\ ~PredecessorCancelled]_vars

UndisturbedSpec == Init /\ [][Next /\ ~PredecessorMovedBack /\ ~SteerOvertaken]_vars

(* Two others lose a wake-up.  An outcome is dropped because a release is   *)
(* under way, whose start was refused and which will not look again.  And   *)
(* cancelEntry schedules a drain only when it takes the head of the FIFO,   *)
(* though behind a paused head the next entry to start is a later one.      *)
RefusedRelease(c) ==
  /\ c.ctx = "release"
  /\ c.pc \in {"blocked", "refused"} \/ (c.pc = "holding" /\ c.then = "refused")

OutcomeDropped ==
  \E n \in notices, t \in Tasks :
    /\ ReleaseIgnored(n) /\ n.turn \notin processed /\ ~OfOtherTurn(n)
    /\ RefusedRelease(task[t])

NextCancelled ==
  NextWaiting(queue) > 1 /\ CancelEntry(queue[NextWaiting(queue)])

(* Without them none is lost. *)
AttentiveSpec == Init /\ [][Next /\ ~OutcomeDropped /\ ~NextCancelled]_vars

(* One step makes a ghost: the end of the running turn is dropped because a *)
(* release is under way.                                                    *)
EndDropped == \E n \in notices : ReleaseIgnored(n) /\ n.turn = running

(* Without it no finished turn is believed running. *)
HeededSpec == Init /\ [][Next /\ ~EndDropped]_vars

(* Three steps leave an entry unheld that the walk of a hold has passed: it *)
(* is cancelled, and the next one moves under the index; Retry or an unlock *)
(* takes the hold off it; or an entry that was refused goes back before the *)
(* index.                                                                   *)
Passed(q, e) ==
  \E t \in Tasks, j \in DOMAIN q : task[t].pc = "holding" /\ j < task[t].i /\ q[j] = e

PassedCancelled == \E e \in Entries : Passed(queue, e) /\ CancelEntry(e)

PassedReleased ==
  /\ \E t \in Tasks :
       ClearQueueHold(t) \/ ClearEmitted(t) \/ ReleaseHold(t) \/ UnlockEmitted(t)
  /\ \E e \in Entries : Passed(queue, e) /\ held'[e] = NoReason

PutBackPassed ==
  \E t \in Tasks :
    InFlight(t) /\ PutBack(t, task[t].entry) /\ Passed(queue', task[t].entry)

(* Without them a walk holds what it passes. *)
WalkedSpec == Init /\ [][Next /\ ~PassedCancelled /\ ~PassedReleased /\ ~PutBackPassed]_vars

(* The holds of the entries and of the FIFO come apart in two ways more.    *)
(* Retry or an unlock begins to let go while another walk is suspended; or, *)
(* while it lets go, the entries behind its index or the hold of the FIFO   *)
(* change, and it ends with what it read before.                            *)
LettingGo(c) == c.pc \in {"clearing", "unlocking"}

LetGoInWalk ==
  \E t, u \in Tasks :
    /\ LettingGo(task[t]) \/ task[t].pc = "holding"
    /\ ClearQueueHold(u) \/ ReleaseHold(u)

PassedChanged(c) ==
  \E j \in 1..(c.i - 1) :
    j \notin DOMAIN queue' \/ queue'[j] # queue[j] \/ held'[queue[j]] # held[queue[j]]

LetGoDisturbed ==
  \E t \in Tasks :
    /\ LettingGo(task[t])
    /\ PassedChanged(task[t]) \/ (task'[t].pc = task[t].pc /\ hold' # hold)

(* Without them, and with walks that hold what they pass, they agree. *)
SeparateSpec ==
  Init /\ [][Next /\ ~PassedCancelled /\ ~PutBackPassed /\ ~LetGoInWalk /\ ~LetGoDisturbed]_vars

(* No path hands an entry to the backend while the restart gate holds it:  *)
(* neither a submission, a steer, a drain, a release nor a retry.          *)
StartsThroughGate ==
  [][\A t \in Tasks :
       task'[t].pc \in {"starting", "steering"} /\ task[t].pc # task'[t].pc
         => ~GateHolds(task'[t].entry)]_vars

-----------------------------------------------------------------------------
(* Progress.  Listeners return, the backend answers and ends its turns, and *)
(* the event loop runs every due timer and delivers every event.  The       *)
(* callbacks need strong fairness only because a callback waits here for a  *)
(* free chain; the event loop does not.                                     *)

Fairness ==
  /\ \A t \in Tasks : WF_vars(Proceed(t) \/ Emitted(t) \/ Answer(t))
  /\ SF_vars(DrainFires)
  /\ SF_vars(\E n \in notices : Report(n))
  /\ WF_vars(\E s \in {"completed", "failed"} : TurnEnds(s))

FairSpec == Spec /\ Fairness

(* The queue believes a turn is running whose end it was told and dropped. *)
Ghost == running # NoTurn /\ active # running /\ notices = {}

(* A waiting entry is eventually started, unless it comes to wait for the  *)
(* operator, or behind a turn whose end releaseThread dropped (see         *)
(* NoGhostRunning): no other interleaving of turns, failures, steers and   *)
(* retries strands it.                                                     *)
EveryEntryServed ==
  \A e \in Entries : InQueue(e) ~> ~InQueue(e) \/ Held(e) \/ Ghost
=============================================================================
