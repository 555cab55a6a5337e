---------------------------- MODULE FifoProofs ----------------------------
(* The FIFO, for any number of entries and promise chains: what a quiet     *)
(* restart put back stays in front, and entries wait in the order they were *)
(* submitted, as long as nobody disturbs the place an entry in the handoff  *)
(* would go back to; no wake-up is lost; a walk holds what it passes; and   *)
(* the holds of the entries and of the FIFO agree.                          *)
(*                                                                          *)
(* Order.  A step leaves the FIFO, takes an entry from it for a chain, puts *)
(* the chain's entry back after the one that was ahead, adds an entry,      *)
(* moves one, or drops one.  Both orders need to know of the chain that may *)
(* put an entry back that its place still fits.                             *)
(*                                                                          *)
(* Wake-ups.  A start is owed while an entry could start.  A step begins a  *)
(* handoff or an edit, after which nothing is owed; arms the drain; leaves  *)
(* a chain that will look at the FIFO; or frees no entry and leaves what    *)
(* would have looked.                                                       *)
(*                                                                          *)
(* Walks.  What a step does to the FIFO and the holds leaves all entries    *)
(* held that a walk has passed (Kept); and if a walk goes on, it goes on    *)
(* from where it was (WalkStep).                                            *)
(*                                                                          *)
(* Holds.  A step that lets nothing go is ordinary: an entry keeps its      *)
(* reason or takes one of the FIFO's, and a hold that stays has an entry    *)
(* or a chain that carries it.  Retry and an unlock, when undisturbed and   *)
(* apart from other walks, end with exactly what they have met.             *)
EXTENDS MessageProofs

USE DEF fifo, hold, handoff, release, sched, provider, history, Asks, Moves, Working

(* The chain may put its entry back: it steers, or starts what it took.     *)
Returns(c) ==
  \/ c.pc = "steering"
  \/ c.pc = "starting" /\ c.ctx \in {"drain", "release", "retry"}

SameReturns ==
  \A u \in Tasks : Returns(task'[u]) =>
    Returns(task[u]) /\ task'[u].entry = task[u].entry /\ task'[u].prev = task[u].prev

(* Messages that were not submitted yet. *)
Fresh == {"unsent", "sending"}

SameFresh ==
  \A m \in Entries : \A s \in Fresh : fate'[m] = s <=> fate[m] = s

Sending(x) == Unsent(x) /\ fate' = [fate EXCEPT ![x] = "sending"]

Accepts(x) ==
  /\ \/ Unsent(x)
     \/ \E t \in Tasks : SubmitSteer(t) /\ task[t].entry = x /\ fate[x] = "sending"
  /\ fate' = [fate EXCEPT ![x] = "open"]

Still ==
  /\ UNCHANGED queue /\ SameReturns
  /\ SameFresh \/ \E x \in Entries : Accepts(x) \/ Sending(x)

Takes(t) ==
  /\ \E w \in 1..Len(queue) :
       /\ \A i \in 1..(w - 1) : queue[i] \in paused
       /\ queue' = RemoveAt(queue, w)
       /\ task'[t].entry = queue[w]
       /\ task'[t].prev = IF w > 1 THEN queue[w - 1] ELSE NoEntry
  /\ \A u \in Tasks : Returns(task'[u]) => u = t
  /\ SameFresh

GoesBack(t) ==
  /\ Returns(task[t])
  /\ queue' = RestoreAfter(queue, task[t].entry, task[t].prev)
  /\ \A u \in Tasks : ~Returns(task'[u])
  /\ SameFresh

Waits(x) ==
  /\ Accepts(x) /\ SameReturns
  /\ \/ queue' = InsertAt(queue, Len(queue) + 1, x)
     \/ queue' = InsertAt(queue, PlaceOfHeld, x) /\ x \in placed'

Reorders(t) == MoveEntry(t) /\ SameReturns

Drops(e) == CancelEntry(e) /\ SameReturns /\ SameFresh

FifoStep ==
  \/ Still
  \/ \E t \in Tasks : Takes(t) \/ GoesBack(t) \/ Reorders(t)
  \/ \E e \in Entries : Waits(e) \/ Drops(e)

-----------------------------------------------------------------------------
(* Every step is one of these. *)

LEMMA MovesReturns ==
  ASSUME NEW t \in Tasks, Moves(t)
  PROVE  SameReturns
BY DEF Others, SameReturns, Returns

LEMMA SettledFresh ==
  ASSUME MessageInv, NEW e \in Entries, e \in Waiting(queue) \union Asked(task), NEW s \in Settled,
         fate' = [m \in Entries |-> IF m \in batch[e] THEN s ELSE fate[m]]
  PROVE  SameFresh
<1>1. \A m \in batch[e] : fate[m] = "open"
  BY DEF MessageInv, Carries, Sound
<1> QED BY <1>1 DEF SameFresh, Fresh, Settled

LEMMA EmittedStill ==
  ASSUME MessageInv, NEW t \in Tasks, Emitted(t)
  PROVE  Still
<1>1. UNCHANGED <<queue, fate>>
  BY DEF Emitted, HoldEmitted, HeldEmitted, ClearEmitted, UnlockEmitted, StartEmitted,
         TerminalEmitted, FailureEmitted, BlockEmitted, SteerEmitted, SteerLeaves, InputEdited
<1>2. Moves(t)
  BY HoldEmittedHandoff, BlockedHandoff, ClearHandoff, UnlockHandoff, StartEmittedHandoff,
     TerminalEmittedHandoff, FinishedHandoff, EditHandoff DEF Emitted, Ends, MessageInv
<1> QED BY <1>1, <1>2, MovesReturns DEF Still, SameFresh

LEMMA ReportStill ==
  ASSUME MessageInv, NEW n, Report(n)
  PROVE  Still
<1>1. CASE ReleaseBuffered(n) \/ ReleaseIgnored(n) \/ ReleaseCoalesced(n)
  BY <1>1 DEF ReleaseBuffered, ReleaseIgnored, ReleaseCoalesced, Still, SameFresh, SameReturns
<1>2. ASSUME NEW t \in Tasks, Release(t, n)  PROVE Still
  <2>1. Moves(t) /\ UNCHANGED <<queue, fate>>
    BY <1>2, ReleaseHandoff DEF Release, MessageInv
  <2> QED BY <2>1, MovesReturns DEF Still, SameFresh
<1> QED BY <1>1, <1>2 DEF Report

LEMMA AcceptedStill ==
  ASSUME MessageInv, NEW t \in Tasks, StartAcknowledged(t) \/ SteerAccepted(t)
  PROVE  Still
<1> DEFINE e == task[t].entry
<1>1. /\ Asks(task[t]) /\ e \in Entries /\ UNCHANGED queue
      /\ fate' = [m \in Entries |-> IF m \in batch[e] THEN "delivered" ELSE fate[m]]
  BY MessageParts DEF StartAcknowledged, SteerAccepted, Deliver
<1>2. e \in Asked(task) /\ "delivered" \in Settled
  BY <1>1 DEF Asked, Settled
<1>3. SameFresh
  BY <1>1, <1>2, SettledFresh
<1>4. Moves(t)
  BY AcceptedMoves
<1> QED BY <1>1, <1>3, <1>4, MovesReturns DEF Still

LEMMA FailedStill ==
  ASSUME MessageInv, NEW t \in Tasks, DirectStartRejected(t)
  PROVE  Still
<1> DEFINE e == task[t].entry
<1>1. /\ Asks(task[t]) /\ e \in Entries /\ UNCHANGED queue
      /\ fate' = [m \in Entries |-> IF m \in batch[e] THEN "failed" ELSE fate[m]]
  BY MessageParts DEF DirectStartRejected, Refuse
<1>2. e \in Asked(task) /\ "failed" \in Settled
  BY <1>1 DEF Asked, Settled
<1>3. SameFresh
  BY <1>1, <1>2, SettledFresh
<1>4. Moves(t)
  BY DirectStartRejectedHandoff DEF MessageInv
<1> QED BY <1>1, <1>3, <1>4, MovesReturns DEF Still

LEMMA PutBackGoesBack ==
  ASSUME MessageInv, NEW t \in Tasks, Returns(task[t]), PutBack(t, task[t].entry),
         Moves(t), UNCHANGED fate
  PROVE  GoesBack(t)
<1>1. \A u \in Tasks : Asks(task[u]) => u = t
  BY MessageParts DEF OneHandoff, InHandoff, InFlight, Returns
<1>2. \A u \in Tasks : ~Returns(task'[u])
  BY <1>1 DEF Others, Returns
<1> QED BY <1>2 DEF GoesBack, PutBack, SameFresh

LEMMA AnswerSteps ==
  ASSUME MessageInv, NEW t \in Tasks, Answer(t)
  PROVE  Still \/ GoesBack(t)
<1>1. ASSUME NEW r \in Refusals, QueuedStartRejected(t, r) \/ SteerRejected(t, r)
      PROVE  GoesBack(t)
  <2>1. Returns(task[t]) /\ PutBack(t, task[t].entry) /\ UNCHANGED fate
    BY <1>1 DEF QueuedStartRejected, SteerRejected, Refuse, Block, Returns
  <2>2. Moves(t)
    BY <1>1, RejectedHandoff DEF Ends, MessageInv
  <2> QED BY <2>1, <2>2, PutBackGoesBack
<1>2. ASSUME NEW retry \in BOOLEAN, SteerDeclined(t, retry)
      PROVE  GoesBack(t)
  <2>1. [task[t] EXCEPT !.early = retry, !.rev = 0].pc = task[t].pc
        /\ [task[t] EXCEPT !.early = retry, !.rev = 0].entry = task[t].entry
    BY MessageParts DEF Chain
  <2>2. Returns(task[t]) /\ PutBack(t, task[t].entry) /\ UNCHANGED fate
    BY <1>2, <2>1 DEF SteerDeclined, Returns
  <2>3. Moves(t)
    BY <1>2, SteerDeclinedHandoff DEF MessageInv
  <2> QED BY <2>2, <2>3, PutBackGoesBack
<1> QED BY <1>1, <1>2, AcceptedStill, FailedStill DEF Answer

LEMMA NextWaitingFirst ==
  ASSUME NEW q \in Seq(Entries)
  PROVE  \A i \in 1..Len(q) :
           i < NextWaiting(q) \/ NextWaiting(q) = 0 => q[i] \in paused
<1> DEFINE I == {i \in 1..Len(q) : q[i] \notin paused}
<1>1. I # {} => \A i \in I : Min(I) <= i
  <2>1. I \in SUBSET Nat
    OBVIOUS
  <2> HIDE DEF I
  <2> QED BY <2>1, MinIn
<1>2. I # {} => Min(I) \in 1..Len(q)
  <2>1. I \in SUBSET Nat /\ I \subseteq 1..Len(q)
    OBVIOUS
  <2> HIDE DEF I
  <2> QED BY <2>1, MinIn
<1>3. NextWaiting(q) = IF I # {} THEN Min(I) ELSE 0
  BY DEF NextWaiting, SelectInSeq
<1> QED BY <1>1, <1>2, <1>3

LEMMA BeginsAlone ==
  ASSUME MessageInv, NEW t \in Tasks, Begins(t)
  PROVE  \A u \in Tasks : Returns(task'[u]) => u = t
<1>1. \A u \in Tasks : ~Asks(task[u])
  BY MessageParts DEF OneHandoff, InHandoff, InFlight, Begins
<1> QED BY <1>1 DEF Begins, Others, Returns

LEMMA ClaimTakes ==
  ASSUME MessageInv, NEW t \in Tasks, NEW ctx, NEW can, Claim(t, ctx, can)
  PROVE  Takes(t)
<1> DEFINE w == NextWaiting(queue)
<1>1. queue' = RemoveAt(queue, w) /\ Dispatchable(can) # NoEntry /\ UNCHANGED fate
  BY DEF Claim
<1>2. w \in 1..Len(queue) /\ Dispatchable(can) = queue[w]
  BY <1>1, DispatchableType, MessageParts
<1>3. \A i \in 1..(w - 1) : queue[i] \in paused
  <2>1. Len(queue) \in Nat
    BY MessageParts
  <2> QED BY <1>2, <2>1, NextWaitingFirst, MessageParts
<1>4. task'[t].entry = queue[w] /\ task'[t].prev = IF w > 1 THEN queue[w - 1] ELSE NoEntry
  BY <1>2, ClaimAsks
<1>5. \A u \in Tasks : Returns(task'[u]) => u = t
  BY ClaimHandoff, BeginsAlone DEF MessageInv
<1> HIDE DEF w
<1> QED BY <1>1, <1>2, <1>3, <1>4, <1>5 DEF Takes, SameFresh

(* A start that nothing waits behind does not go back to the FIFO. *)
LEMMA StartsSame ==
  ASSUME MessageInv, NEW t \in Tasks, NEW e, NEW ctx \in {"direct", "edit"},
         StartEntry(t, e, ctx), Begins(t)
  PROVE  SameReturns
<1> DEFINE c == [IdleTask EXCEPT !.pc = "starting", !.ctx = ctx, !.entry = e]
<1>1. task' = [task EXCEPT ![t] = c]
  BY DEF StartEntry
<1>2. c.pc = "starting" /\ c.ctx = ctx
  BY DEF IdleTask
<1> HIDE DEF c
<1>3. ~Returns(task'[t])
  BY <1>1, <1>2, MessageParts, AllParts DEF Returns, TaskOK
<1> QED BY <1>3, BeginsAlone DEF SameReturns

LEMMA StartNowStill ==
  ASSUME MessageInv, NEW t \in Tasks, NEW e \in Entries, StartNow(t, e)
  PROVE  Still
<1>1. /\ StartEntry(t, e, "direct") /\ Unsent(e) /\ fate' = [fate EXCEPT ![e] = "open"]
      /\ UNCHANGED queue
  BY DEF StartNow
<1>2. SameReturns
  BY <1>1, StartNowHandoff, StartsSame DEF MessageInv
<1> QED BY <1>1, <1>2 DEF Still, Accepts

LEMMA AppendIsInsert ==
  ASSUME MessageInv, NEW e \in Entries
  PROVE  Append(queue, e) = InsertAt(queue, Len(queue) + 1, e)
<1>1. queue \in Seq(Entries)
  BY MessageParts
<1>2. SubSeq(queue, 1, Len(queue) + 1 - 1) = queue /\ SubSeq(queue, Len(queue) + 1, Len(queue)) = << >>
  BY <1>1
<1>3. (queue \o <<e>>) \o << >> = Append(queue, e)
  BY <1>1
<1> QED BY <1>2, <1>3 DEF InsertAt

LEMMA EditAskedStill ==
  ASSUME MessageInv, NEW t \in Tasks, NEW e \in Entries,
         EditsEntry(t, e) \/ EditsSteer(t, e) \/ Retry(t, e)
  PROVE  Still
<1>1. PICK op, before : EnterEdit(t, op, e, before)
  BY DEF EditsEntry, EditsSteer, Retry
<1> DEFINE c == [IdleTask EXCEPT !.pc = "editing", !.ctx = "edit",
                                 !.op = op, !.entry = e, !.prev = before]
<1>2. task' = [task EXCEPT ![t] = c] /\ UNCHANGED queue
  BY <1>1 DEF EnterEdit
<1>3. c.pc = "editing"
  BY DEF IdleTask
<1> HIDE DEF c
<1>4. Others(t) /\ task'[t] = c
  BY <1>2, OnlyOne, MessageParts
<1>5. SameReturns
  BY <1>3, <1>4 DEF SameReturns, Others, Returns
<1>6. SameFresh \/ Sending(e)
  BY DEF EditsEntry, EditsSteer, Retry, SameFresh, Sending
<1> QED BY <1>2, <1>5, <1>6 DEF Still

LEMMA SubmissionSteps ==
  ASSUME MessageInv, Submission
  PROVE  FifoStep
<1>1. ASSUME NEW e \in Entries, Enqueue(e) \/ SubmitProjectHeld(e)
      PROVE  Waits(e)
  <2>1. /\ queue' = Append(queue, e) /\ Unsent(e) /\ fate' = [fate EXCEPT ![e] = "open"]
        /\ UNCHANGED task
    BY <1>1 DEF Enqueue, SubmitProjectHeld
  <2> QED BY <2>1, AppendIsInsert DEF Waits, Accepts, SameReturns
<1>2. ASSUME NEW e \in Entries, CancelEntry(e)
      PROVE  Drops(e)
  <2>1. e \in Waiting(queue) /\ "cancelled" \in Settled
    BY <1>2, MessageParts DEF CancelEntry, InQueue, Contains, Waiting, Settled
  <2>2. SameFresh
    BY <1>2, <2>1, SettledFresh DEF CancelEntry
  <2>3. \A u \in Tasks : /\ task'[u].pc = task[u].pc /\ task'[u].entry = task[u].entry
                         /\ task'[u].ctx = task[u].ctx /\ task'[u].prev = task[u].prev
    BY <1>2, DetachedType, AllParts, MessageParts DEF CancelEntry
  <2> QED BY <1>2, <2>2, <2>3 DEF Drops, SameReturns, Returns
<1>3. ASSUME NEW t \in Tasks, NEW e \in Entries, NEW r, SubmitHeld(t, e, r)
      PROVE  Waits(e)
  <2>1. /\ queue' = InsertAt(queue, PlaceOfHeld, e) /\ Unsent(e)
        /\ fate' = [fate EXCEPT ![e] = "open"] /\ e \in placed'
    BY <1>3 DEF SubmitHeld
  <2>2. SameReturns
    BY <1>3, SubmitHeldHandoff, MovesReturns DEF MessageInv
  <2> QED BY <2>1, <2>2 DEF Waits, Accepts
<1>4. ASSUME NEW t \in Tasks, ReleaseHold(t)  PROVE Still
  <2>1. Moves(t) /\ UNCHANGED <<queue, fate>>
    BY <1>4, UnlockHandoff DEF ReleaseHold, MessageInv
  <2> QED BY <2>1, MovesReturns DEF Still, SameFresh
<1>5. CASE (\E e \in Entries : EditInput(e)) \/ ScheduleThreadDrain \/ Close
  BY <1>5 DEF EditInput, ScheduleThreadDrain, Close, FifoStep, Still, SameReturns, SameFresh
<1> QED
  BY <1>1, <1>2, <1>3, <1>4, <1>5, StartNowStill, EditAskedStill DEF Submission, FifoStep

LEMMA SubmitSteerSteps ==
  ASSUME MessageInv, NEW t \in Tasks, SubmitSteer(t)
  PROVE  Still \/ Waits(task[t].entry)
<1> DEFINE e == task[t].entry
           c == JoinableBatch(e)
<1>1. Sends(task[t]) /\ ~Asks(task[t]) /\ e \in Entries
  BY MessageParts DEF SubmitSteer, MayEdit, Sends
<1>2. Accepts(e)
  BY <1>1 DEF MessageInv, Carries, Steering, SubmitSteer, Accepts
<1>3. CASE StartEntry(t, e, "edit") /\ UNCHANGED queue
  <2>1. task'[t].pc = "starting"
    <3>1. [IdleTask EXCEPT !.pc = "starting", !.ctx = "edit", !.entry = e].pc = "starting"
      BY DEF IdleTask
    <3> QED BY <1>3, <3>1, AllParts, MessageParts DEF StartEntry, TaskOK
  <2>2. Begins(t)
    BY <2>1, SubmitSteerHandoff DEF MessageInv
  <2>3. SameReturns
    BY <1>3, <2>2, StartsSame
  <2> QED BY <1>1, <1>2, <1>3, <2>3 DEF Still
<1>4. CASE /\ queue' = IF c = 0 THEN Append(queue, e) ELSE queue
           /\ task' = [task EXCEPT ![t].pc = "leaving"]
  <2>1. Moves(t)
    <3> DEFINE d == [task[t] EXCEPT !.pc = "leaving"]
    <3>1. task' = [task EXCEPT ![t] = d]
      BY <1>4
    <3>2. d.pc = "leaving"
      BY MessageParts DEF Chain
    <3> HIDE DEF d
    <3> QED BY <3>1, <3>2, OnlyOne, MessageParts
  <2>2. SameReturns
    BY <2>1, MovesReturns
  <2>3. CASE c = 0
    BY <1>1, <1>2, <1>4, <2>2, <2>3, AppendIsInsert DEF Waits
  <2>4. CASE c # 0
    BY <1>1, <1>2, <1>4, <2>2, <2>4 DEF Still
  <2> QED BY <2>3, <2>4
<1>5. \/ StartEntry(t, e, "edit") /\ UNCHANGED queue
      \/ /\ queue' = IF c = 0 THEN Append(queue, e) ELSE queue
         /\ task' = [task EXCEPT ![t].pc = "leaving"]
  BY DEF SubmitSteer
<1> QED BY <1>3, <1>4, <1>5

LEMMA ProceedSteps ==
  ASSUME MessageInv, NEW t \in Tasks, Proceed(t)
  PROVE  FifoStep
<1>1. CASE StartNext(t)
  <2>1. CASE \E can \in BOOLEAN : Claim(t, task[t].ctx, can)
    BY <2>1, ClaimTakes DEF FifoStep
  <2>2. CASE Return(t) /\ UNCHANGED <<fifo, history>>
    <3>1. SameReturns
      BY <2>2, ReturnEnds, MovesReturns, MessageParts
    <3> QED BY <2>2, <3>1 DEF FifoStep, Still, SameFresh
  <2> QED BY <1>1, <2>1, <2>2 DEF StartNext
<1>2. CASE \/ StartFinished(t) \/ SteerBack(t) \/ ReleaseRefused(t) \/ PauseEntry(t)
           \/ ResumeEntry(t) \/ ClearQueueHold(t) \/ SteerLeaves(t, "left")
  <2>1. UNCHANGED <<queue, fate>>
    BY <1>2 DEF StartFinished, SteerBack, ReleaseRefused, PauseEntry, ResumeEntry,
                ClearQueueHold, SteerLeaves
  <2>2. Moves(t)
    BY <1>2, FinishedHandoff, ReleaseRefusedHandoff, EditHandoff, ClearHandoff
    DEF Ends, MessageInv
  <2> QED BY <2>1, <2>2, MovesReturns DEF FifoStep, Still, SameFresh
<1>3. CASE MoveEntry(t)
  BY <1>3, EditHandoff, MovesReturns DEF FifoStep, Reorders, MessageInv
<1>4. CASE SubmitSteer(t)
  <2>1. task[t].entry \in Entries
    BY <1>4, MessageParts DEF SubmitSteer, MayEdit
  <2> QED BY <1>4, <2>1, SubmitSteerSteps DEF FifoStep
<1> QED BY <1>1, <1>2, <1>3, <1>4 DEF Proceed

LEMMA FifoSteps ==
  ASSUME MessageInv, [Next]_vars
  PROVE  FifoStep
<1>1. CASE \E t \in Tasks : Proceed(t) \/ Emitted(t) \/ Answer(t)
  BY <1>1, ProceedSteps, EmittedStill, AnswerSteps DEF FifoStep
<1>2. CASE Submission
  BY <1>2, SubmissionSteps
<1>3. CASE \E n \in notices : Report(n)
  BY <1>3, ReportStill DEF FifoStep
<1>4. CASE DrainFires
  <2>1. CASE \E can \in BOOLEAN, t \in Tasks : Claim(t, "drain", can)
    BY <2>1, ClaimTakes DEF FifoStep
  <2>2. CASE UNCHANGED <<queue, fate, task>>
    BY <2>2 DEF FifoStep, Still, SameReturns, SameFresh
  <2> QED BY <1>4, <2>1, <2>2 DEF DrainFires
<1>5. CASE Backend \/ GateDue \/ GateOpens \/ GateQuiets \/ UNCHANGED vars
  <2>1. UNCHANGED <<queue, fate, task>>
    BY <1>5 DEF Backend, TurnBegins, ExternalTurnBegins, IdleReported, TurnEnds,
                OutcomeRepeated, Notify, GateDue, GateOpens, GateQuiets, GateMoves, vars
  <2> QED BY <2>1 DEF FifoStep, Still, SameReturns, SameFresh
<1> QED BY <1>1, <1>2, <1>3, <1>4, <1>5 DEF Next

-----------------------------------------------------------------------------
(* What a quiet restart put back stays in front. *)

Leads(q) ==
  \A i, j \in 1..Len(q) : i < j /\ q[j] \in Continuations => q[i] \in Continuations

(* Entry e, put back after p, does not disturb the order.                   *)
LeadPlace(q, e, p) ==
  /\ p # NoEntry => p \in Waiting(q)
  /\ e \in Continuations => p \in Continuations \union {NoEntry}
  /\ e \notin Continuations =>
       /\ p = NoEntry => \A i \in 1..Len(q) : q[i] \notin Continuations
       /\ \A i, k \in 1..Len(q) : q[k] = p /\ q[i] \in Continuations => i <= k

LeadInv ==
  /\ MessageInv /\ Leads(queue)
  /\ \A c \in Continuations : fate[c] \notin Fresh
  /\ \A t \in Tasks : Returns(task[t]) => LeadPlace(queue, task[t].entry, task[t].prev)

LEMMA InsertLeads ==
  ASSUME NEW q \in Seq(Entries), NEW e \in Entries, NEW i \in 1..(Len(q) + 1), NEW r,
         InsertLaw(q, e, i, r), Leads(q),
         e \in Continuations => \A j \in 1..Len(q) : j < i => q[j] \in Continuations,
         e \notin Continuations => \A j \in 1..Len(q) : j >= i => q[j] \notin Continuations
  PROVE  Leads(r)
<1> SUFFICES ASSUME NEW a \in 1..Len(r), NEW b \in 1..Len(r), a < b, r[b] \in Continuations
             PROVE  r[a] \in Continuations
  BY DEF Leads
<1>1. Len(r) = Len(q) + 1 /\ Len(q) \in Nat
  BY DEF InsertLaw
<1>2. \A k \in 1..(Len(q) + 1) :
        r[k] = IF k < i THEN q[k] ELSE IF k = i THEN e ELSE q[k - 1]
  BY DEF InsertLaw
<1>3. CASE b < i
  BY <1>1, <1>2, <1>3 DEF Leads
<1>4. CASE b = i
  BY <1>1, <1>2, <1>4
<1>5. CASE b > i
  <2>1. r[b] = q[b - 1] /\ b - 1 \in 1..Len(q) /\ b - 1 >= i
    BY <1>1, <1>2, <1>5
  <2>2. CASE a < i
    BY <1>1, <1>2, <2>1, <2>2 DEF Leads
  <2>3. CASE a = i
    BY <1>1, <1>2, <2>1, <2>3
  <2>4. CASE a > i
    <3>1. r[a] = q[a - 1] /\ a - 1 \in 1..Len(q) /\ a - 1 < b - 1
      BY <1>1, <1>2, <2>4
    <3> QED BY <2>1, <3>1 DEF Leads
  <2> QED BY <2>2, <2>3, <2>4
<1> QED BY <1>3, <1>4, <1>5

LEMMA RemoveLeads ==
  ASSUME NEW q \in Seq(Entries), NEW i \in 1..Len(q), NEW r, RemoveLaw(q, i, r), Leads(q)
  PROVE  Leads(r)
<1> SUFFICES ASSUME NEW a \in 1..Len(r), NEW b \in 1..Len(r), a < b, r[b] \in Continuations
             PROVE  r[a] \in Continuations
  BY DEF Leads
<1> DEFINE f(k) == IF k < i THEN k ELSE k + 1
<1>1. Len(r) = Len(q) - 1 /\ Len(q) \in Nat
  BY DEF RemoveLaw
<1>2. f(a) \in 1..Len(q) /\ f(b) \in 1..Len(q) /\ f(a) < f(b)
  BY <1>1
<1>3. r[a] = q[f(a)] /\ r[b] = q[f(b)]
  BY <1>1 DEF RemoveLaw
<1> QED BY <1>2, <1>3 DEF Leads

(* Another entry comes, leaves or moves: the place of e still fits.         *)
LEMMA InsertKeepsLead ==
  ASSUME NEW q \in Seq(Entries), NEW x \in Entries \ Continuations, NEW i \in 1..(Len(q) + 1), NEW r,
         InsertLaw(q, x, i, r), Waiting(r) = Waiting(q) \union {x},
         NEW e, NEW p, x # p, LeadPlace(q, e, p)
  PROVE  LeadPlace(r, e, p)
<1> DEFINE f(k) == IF k < i THEN k ELSE k - 1
<1>1. Len(r) = Len(q) + 1 /\ Len(q) \in Nat
  BY DEF InsertLaw
<1>2. \A k \in 1..Len(r) : k = i \/ (f(k) \in 1..Len(q) /\ r[k] = q[f(k)])
  BY <1>1 DEF InsertLaw
<1>3. r[i] = x
  BY <1>1 DEF InsertLaw
<1>4. ASSUME e \notin Continuations, NEW a \in 1..Len(r), NEW k \in 1..Len(r),
             r[k] = p, r[a] \in Continuations
      PROVE  a <= k
  <2>1. k # i /\ a # i
    BY <1>3, <1>4
  <2>2. f(a) <= f(k)
    BY <1>2, <1>4, <2>1 DEF LeadPlace
  <2> QED BY <1>1, <2>1, <2>2
<1>5. ASSUME e \notin Continuations, p = NoEntry, NEW a \in 1..Len(r)
      PROVE  r[a] \notin Continuations
  BY <1>2, <1>3, <1>5 DEF LeadPlace
<1> QED BY <1>4, <1>5 DEF LeadPlace

LEMMA RemoveKeepsLead ==
  ASSUME NEW q \in Seq(Entries), NEW i \in 1..Len(q), NEW r,
         RemoveLaw(q, i, r), Waiting(r) = Waiting(q) \ {q[i]},
         NEW e, NEW p, q[i] # p, LeadPlace(q, e, p)
  PROVE  LeadPlace(r, e, p)
<1> DEFINE f(k) == IF k < i THEN k ELSE k + 1
<1>1. Len(r) = Len(q) - 1 /\ Len(q) \in Nat
  BY DEF RemoveLaw
<1>2. \A k \in 1..Len(r) : f(k) \in 1..Len(q) /\ r[k] = q[f(k)]
  BY <1>1 DEF RemoveLaw
<1>3. ASSUME e \notin Continuations, NEW a \in 1..Len(r), NEW k \in 1..Len(r),
             r[k] = p, r[a] \in Continuations
      PROVE  a <= k
  <2>1. f(a) <= f(k)
    BY <1>2, <1>3 DEF LeadPlace
  <2> QED BY <1>1, <2>1
<1>4. ASSUME e \notin Continuations, p = NoEntry, NEW a \in 1..Len(r)
      PROVE  r[a] \notin Continuations
  BY <1>2, <1>4 DEF LeadPlace
<1> QED BY <1>3, <1>4 DEF LeadPlace

(* The entry that is taken can go back after the one that was ahead.        *)
LEMMA TakenLead ==
  ASSUME NEW q \in Seq(Entries), Once(q), Leads(q), NEW w \in 1..Len(q), NEW r, RemoveLaw(q, w, r)
  PROVE  LeadPlace(r, q[w], IF w > 1 THEN q[w - 1] ELSE NoEntry)
<1> DEFINE p == IF w > 1 THEN q[w - 1] ELSE NoEntry
<1>1. Len(r) = Len(q) - 1 /\ Len(q) \in Nat /\ w \in Nat
  BY DEF RemoveLaw
<1>2. \A k \in 1..Len(r) : r[k] = IF k < w THEN q[k] ELSE q[k + 1]
  BY <1>1 DEF RemoveLaw
<1>3. w > 1 => w - 1 \in 1..Len(r) /\ r[w - 1] = p /\ w - 1 \in 1..Len(q)
  BY <1>1, <1>2
<1>4. w = 1 => p = NoEntry
  OBVIOUS
<1>5. p # NoEntry => p \in Waiting(r)
  BY <1>1, <1>3 DEF Waiting
<1>6. q[w] \in Continuations => p \in Continuations \union {NoEntry}
  BY <1>1, <1>3, <1>4 DEF Leads
<1>7. ASSUME q[w] \notin Continuations, NEW i \in 1..Len(r), r[i] \in Continuations
      PROVE  i < w
  <2> SUFFICES ASSUME i >= w PROVE FALSE
    BY <1>1
  <2>1. r[i] = q[i + 1] /\ i + 1 \in 1..Len(q) /\ w < i + 1
    BY <1>1, <1>2
  <2> QED BY <1>7, <2>1 DEF Leads
<1>8. ASSUME q[w] \notin Continuations, NEW i \in 1..Len(r), NEW k \in 1..Len(r),
             r[k] = p, r[i] \in Continuations
      PROVE  i <= k
  <2>1. i < w /\ w > 1
    BY <1>1, <1>7, <1>8
  <2>2. q[w - 1] = r[k]
    BY <1>8, <2>1
  <2>3. k = w - 1
    BY <1>1, <1>2, <1>3, <2>1, <2>2 DEF Once
  <2> QED BY <1>1, <2>1, <2>3
<1>9. ASSUME q[w] \notin Continuations, p = NoEntry, NEW i \in 1..Len(r), r[i] \in Continuations
      PROVE  FALSE
  <2>1. i < w
    BY <1>7, <1>9
  <2>2. w > 1 /\ q[w - 1] \in Entries
    BY <1>1, <1>3, <2>1
  <2> QED BY <1>9, <2>2 DEF Entries, NoEntry
<1> HIDE DEF p
<1>10. LeadPlace(r, q[w], p)
  BY <1>5, <1>6, <1>8, <1>9 DEF LeadPlace
<1> QED BY <1>10 DEF p

LEMMA EntriesAreNot == NoEntry \notin Entries
BY DEF Entries, NoEntry

LEMMA RestoreLeads ==
  ASSUME MessageInv, Leads(queue), NEW e \in Entries, NEW p, LeadPlace(queue, e, p)
  PROVE  Leads(RestoreAfter(queue, e, p))
<1> DEFINE k == IndexOf(queue, p)
<1>1. queue \in Seq(Entries) /\ Len(queue) \in Nat
  BY MessageParts
<1>2. ASSUME NEW i \in 1..(Len(queue) + 1)
      PROVE  InsertLaw(queue, e, i, InsertAt(queue, i, e))
  BY <1>1, InsertAtLaw
<1>3. CASE p = NoEntry
  <2>1. RestoreAfter(queue, e, p) = InsertAt(queue, 1, e)
    BY <1>1, <1>3 DEF RestoreAfter, InsertAt
  <2>2. 1 \in 1..(Len(queue) + 1)
    BY <1>1
  <2>3. InsertLaw(queue, e, 1, RestoreAfter(queue, e, p))
    BY <1>2, <2>1, <2>2
  <2> QED BY <1>1, <1>3, <2>2, <2>3, InsertLeads DEF LeadPlace
<1>4. CASE p # NoEntry
  <2>1. k \in 1..Len(queue) /\ queue[k] = p
    <3>1. \E i \in 1..Len(queue) : queue[i] = p
      BY <1>1, <1>4, InWaiting DEF LeadPlace
    <3> QED BY <1>1, <3>1, IndexOfType
  <2>2. RestoreAfter(queue, e, p) = InsertAt(queue, k + 1, e)
    BY <1>4, <2>1 DEF RestoreAfter
  <2> HIDE DEF k
  <2>3. k + 1 \in 1..(Len(queue) + 1)
    BY <1>1, <2>1
  <2>4. InsertLaw(queue, e, k + 1, RestoreAfter(queue, e, p))
    BY <1>2, <2>2, <2>3
  <2>5. ASSUME e \in Continuations, NEW j \in 1..Len(queue), j < k + 1
        PROVE  queue[j] \in Continuations
    <3>1. p \in Continuations
      BY <1>4, <2>5 DEF LeadPlace
    <3>2. j = k \/ j < k
      BY <2>1, <2>5
    <3> QED BY <2>1, <3>1, <3>2 DEF Leads
  <2>6. ASSUME e \notin Continuations, NEW j \in 1..Len(queue), j >= k + 1
        PROVE  queue[j] \notin Continuations
    <3>1. ~(j <= k)
      BY <2>1, <2>6
    <3> QED BY <2>1, <2>6, <3>1 DEF LeadPlace
  <2> QED BY <1>1, <2>3, <2>4, <2>5, <2>6, InsertLeads
<1> QED BY <1>3, <1>4

(* A move takes one entry past others; none is held or a continuation.      *)
LEMMA MovedLaw ==
  ASSUME MessageInv, NEW e, NEW before
  PROVE  \/ Moved(queue, e, before) = queue
         \/ \E from, to \in 1..Len(queue) :
              /\ queue[from] = e /\ e \notin Continuations /\ ~Held(e)
              /\ Moved(queue, e, before) = InsertAt(RemoveAt(queue, from), to, e)
              /\ \A i \in 1..Len(queue) : to <= i /\ i < from =>
                   queue[i] \notin Continuations /\ ~Held(queue[i])
<1> DEFINE from   == IndexOf(queue, e)
           anchor == IF before = NoEntry THEN Len(queue) + 1 ELSE IndexOf(queue, before)
           to     == IF anchor > from THEN anchor - 1 ELSE anchor
<1> SUFFICES ASSUME Moved(queue, e, before) # queue
             PROVE  \E f, g \in 1..Len(queue) :
                      /\ queue[f] = e /\ e \notin Continuations /\ ~Held(e)
                      /\ Moved(queue, e, before) = InsertAt(RemoveAt(queue, f), g, e)
                      /\ \A i \in 1..Len(queue) : g <= i /\ i < f =>
                           queue[i] \notin Continuations /\ ~Held(queue[i])
  OBVIOUS
<1>1. /\ from # 0 /\ anchor # 0 /\ e \notin Continuations /\ ~Held(e)
      /\ Moved(queue, e, before) = InsertAt(RemoveAt(queue, from), to, e)
  BY DEF Moved
<1>2. ~ \E i \in (IF anchor > from THEN (from + 1)..to ELSE anchor..(from - 1)) :
           Held(queue[i]) \/ queue[i] \in Continuations
  BY DEF Moved
<1>3. queue \in Seq(Entries) /\ Len(queue) \in Nat
  BY MessageParts
<1>4. from \in 1..Len(queue) /\ queue[from] = e
  BY <1>1, <1>3, IndexOfType
<1>5. anchor \in 1..(Len(queue) + 1)
  BY <1>1, <1>3, IndexOfType
<1> HIDE DEF from, anchor
<1>6. to \in 1..Len(queue)
  BY <1>3, <1>4, <1>5
<1>7. \A i \in 1..Len(queue) : to <= i /\ i < from =>
        queue[i] \notin Continuations /\ ~Held(queue[i])
  <2>1. anchor > from => \A i \in 1..Len(queue) : ~(to <= i /\ i < from)
    BY <1>3, <1>4, <1>5
  <2>2. ~(anchor > from) => \A i \in 1..Len(queue) : to <= i /\ i < from => i \in anchor..(from - 1)
    BY <1>3, <1>4, <1>5
  <2> QED BY <1>2, <2>1, <2>2
<1> HIDE DEF to
<1> QED BY <1>1, <1>4, <1>6, <1>7

LEMMA MovedLeads ==
  ASSUME MessageInv, Leads(queue), NEW e, NEW before
  PROVE  /\ Leads(Moved(queue, e, before))
         /\ \A g, p : LeadPlace(queue, g, p) => LeadPlace(Moved(queue, e, before), g, p)
<1> SUFFICES ASSUME NEW from \in 1..Len(queue), NEW to \in 1..Len(queue),
                    queue[from] = e, e \notin Continuations,
                    NEW s, s = InsertAt(RemoveAt(queue, from), to, e),
                    \A i \in 1..Len(queue) : to <= i /\ i < from => queue[i] \notin Continuations
             PROVE  Leads(s) /\ \A g, p : LeadPlace(queue, g, p) => LeadPlace(s, g, p)
  BY MovedLaw
<1> DEFINE r == RemoveAt(queue, from)
<1>1. queue \in Seq(Entries) /\ Len(queue) \in Nat /\ e \in Entries /\ Once(queue)
  BY MessageParts DEF MessageInv, Carries
<1>2. RemoveLaw(queue, from, r)
  BY <1>1, RemoveAtLaw
<1>3. r \in Seq(Entries) /\ Len(r) = Len(queue) - 1
  BY <1>2 DEF RemoveLaw
<1>4. Once(r) /\ Waiting(r) = Waiting(queue) \ {e}
  BY <1>1, RemoveWaits
<1> HIDE DEF r
<1>5. to \in 1..(Len(r) + 1)
  BY <1>1, <1>3
<1>6. InsertLaw(r, e, to, s)
  BY <1>1, <1>3, <1>5, InsertAtLaw DEF r
<1>7. Waiting(s) = Waiting(r) \union {e}
  BY <1>1, <1>3, <1>4, <1>5, InsertWaits DEF r
<1>8. Leads(s)
  <2>1. ASSUME NEW j \in 1..Len(r), j >= to
        PROVE  r[j] \notin Continuations
    <3>1. CASE j < from
      <4>1. r[j] = queue[j] /\ j \in 1..Len(queue)
        BY <1>1, <1>2, <1>3, <3>1 DEF RemoveLaw
      <4> QED BY <2>1, <3>1, <4>1
    <3>2. CASE j >= from
      <4>1. r[j] = queue[j + 1] /\ j + 1 \in 1..Len(queue) /\ from < j + 1
        BY <1>1, <1>2, <1>3, <3>2 DEF RemoveLaw
      <4> QED BY <4>1 DEF Leads
    <3> QED BY <1>1, <3>1, <3>2
  <2>2. Leads(r)
    BY <1>1, <1>2, RemoveLeads
  <2> QED BY <1>1, <1>3, <1>5, <1>6, <2>1, <2>2, InsertLeads
<1>9. ASSUME NEW g, NEW p, LeadPlace(queue, g, p)
      PROVE  LeadPlace(s, g, p)
  <2>1. CASE p # e
    <3>1. LeadPlace(r, g, p)
      BY <1>1, <1>2, <1>4, <1>9, <2>1, RemoveKeepsLead
    <3> QED BY <1>1, <1>3, <1>5, <1>6, <1>7, <2>1, <3>1, InsertKeepsLead
  <2>2. CASE p = e
    <3>1. p \in Waiting(s) /\ p # NoEntry /\ p \notin Continuations
      BY <1>1, <1>7, <2>2, EntriesAreNot
    <3>2. g \notin Continuations
      BY <1>9, <3>1 DEF LeadPlace
    <3>3. Len(s) \in Nat
      BY <1>3, <1>6 DEF InsertLaw
    <3>4. ASSUME NEW i \in 1..Len(s), NEW k \in 1..Len(s), s[k] = p, s[i] \in Continuations
          PROVE  i <= k
      BY <1>8, <3>1, <3>3, <3>4 DEF Leads
    <3> QED BY <3>1, <3>2, <3>4 DEF LeadPlace
  <2> QED BY <2>1, <2>2
<1> QED BY <1>8, <1>9

LEMMA PlaceOfHeldType ==
  ASSUME MessageInv
  PROVE  \/ PlaceOfHeld = Len(queue) + 1
         \/ PlaceOfHeld \in 1..Len(queue) /\ queue[PlaceOfHeld] \notin Continuations
<1> DEFINE I == {k \in 1..Len(queue) : queue[k] \notin Continuations}
<1>1. I # {} => Min(I) \in I
  <2>1. I \in SUBSET Nat
    OBVIOUS
  <2> HIDE DEF I
  <2> QED BY <2>1, MinIn
<1>2. SelectInSeq(queue, LAMBDA x : x \notin Continuations) = IF I # {} THEN Min(I) ELSE 0
  BY DEF SelectInSeq
<1> QED BY <1>1, <1>2 DEF PlaceOfHeld

(* submitHeld puts its entry behind all continuations.                      *)
LEMMA HeldPlace ==
  ASSUME MessageInv, Leads(queue)
  PROVE  /\ PlaceOfHeld \in 1..(Len(queue) + 1)
         /\ \A j \in 1..Len(queue) : j >= PlaceOfHeld => queue[j] \notin Continuations
<1> DEFINE w == PlaceOfHeld
<1>1. Len(queue) \in Nat
  BY MessageParts
<1>2. w = Len(queue) + 1 \/ (w \in 1..Len(queue) /\ queue[w] \notin Continuations)
  BY PlaceOfHeldType
<1> HIDE DEF w
<1>3. ASSUME w \in 1..Len(queue), queue[w] \notin Continuations, NEW j \in 1..Len(queue), j >= w
      PROVE  queue[j] \notin Continuations
  <2>1. j = w \/ w < j
    BY <1>3
  <2> QED BY <1>3, <2>1 DEF Leads
<1>4. w \in 1..(Len(queue) + 1) /\ \A j \in 1..Len(queue) : j >= w => queue[j] \notin Continuations
  BY <1>1, <1>2, <1>3
<1> QED BY <1>4 DEF w

LEMMA StayAccepted ==
  ASSUME LeadInv, SameFresh \/ \E x \in Entries : Accepts(x) \/ Sending(x)
  PROVE  \A c \in Continuations : fate'[c] \notin Fresh
<1>1. \A c \in Continuations : c \in Entries /\ fate[c] \notin Fresh
  BY QueueAssumption DEF LeadInv
<1>2. CASE SameFresh
  BY <1>1, <1>2 DEF SameFresh
<1>3. ASSUME NEW x \in Entries, Accepts(x) \/ Sending(x)
      PROVE  \A c \in Continuations : fate'[c] \notin Fresh
  <2>1. fate[x] \in Fresh
    BY <1>3 DEF Accepts, Sending, Unsent, Fresh
  <2>2. \A c \in Entries : c # x => fate'[c] = fate[c]
    BY <1>3, MessageParts DEF Accepts, Sending, LeadInv
  <2> QED BY <1>1, <2>1, <2>2
<1> QED BY <1>2, <1>3

(* A new entry comes to the FIFO. *)
LEMMA Enters ==
  ASSUME MessageInv, NEW x \in Entries, Accepts(x), NEW i \in 1..(Len(queue) + 1),
         queue' = InsertAt(queue, i, x)
  PROVE  /\ fate[x] \in Fresh /\ x \notin Waiting(queue)
         /\ InsertLaw(queue, x, i, queue') /\ Waiting(queue') = Waiting(queue) \union {x}
<1>1. fate[x] \in Fresh
  BY DEF Accepts, Unsent, Fresh
<1>2. x \notin Waiting(queue)
  BY <1>1, FreshIsNotLive DEF MessageInv, Carries, Fresh
<1>3. queue \in Seq(Entries) /\ Once(queue)
  BY MessageParts DEF MessageInv, Carries
<1> QED BY <1>1, <1>2, <1>3, InsertAtLaw, InsertWaits

LEMMA LeadInit == Init => LeadInv
<1> SUFFICES ASSUME Init PROVE LeadInv
  OBVIOUS
<1>1. MessageInv
  BY MessageInit
<1>2. \A i \in 1..Len(queue) : queue[i] \in Continuations
  <2>1. Cardinality(Continuations) \in Nat
    <3>1. IsFiniteSet(Entries)
      BY QueueAssumption, FS_Interval DEF Entries
    <3> QED BY <3>1, QueueAssumption, FS_Subset, FS_CardinalityType
  <2> QED BY <2>1 DEF Init
<1>3. \A c \in Continuations : fate[c] \notin Fresh
  BY QueueAssumption DEF Init, Fresh
<1>4. \A t \in Tasks : ~Returns(task[t])
  BY DEF Init, IdleTask, Returns
<1> QED BY <1>1, <1>2, <1>3, <1>4 DEF LeadInv, Leads

LEMMA LeadWaits ==
  ASSUME LeadInv, NEW x \in Entries, Waits(x)
  PROVE  /\ Leads(queue')
         /\ \A t \in Tasks : Returns(task'[t]) => LeadPlace(queue', task'[t].entry, task'[t].prev)
<1>1. MessageInv /\ Leads(queue) /\ Accepts(x) /\ queue \in Seq(Entries) /\ Len(queue) \in Nat
  BY MessageParts DEF LeadInv, Waits
<1>2. PICK i \in 1..(Len(queue) + 1) :
        /\ queue' = InsertAt(queue, i, x)
        /\ \A j \in 1..Len(queue) : j >= i => queue[j] \notin Continuations
  <2>1. CASE queue' = InsertAt(queue, Len(queue) + 1, x)
    <3>1. /\ Len(queue) + 1 \in 1..(Len(queue) + 1)
          /\ \A j \in 1..Len(queue) : ~(j >= Len(queue) + 1)
      BY <1>1
    <3> QED BY <2>1, <3>1
  <2>2. CASE queue' = InsertAt(queue, PlaceOfHeld, x)
    BY <1>1, <2>2, HeldPlace
  <2> QED BY <2>1, <2>2 DEF Waits
<1>3. /\ fate[x] \in Fresh /\ x \notin Waiting(queue)
      /\ InsertLaw(queue, x, i, queue') /\ Waiting(queue') = Waiting(queue) \union {x}
  BY <1>1, <1>2, Enters
<1>4. x \notin Continuations
  BY <1>3 DEF LeadInv
<1>5. Leads(queue')
  BY <1>1, <1>2, <1>3, <1>4, InsertLeads
<1>6. ASSUME NEW t \in Tasks, Returns(task'[t])
      PROVE  LeadPlace(queue', task'[t].entry, task'[t].prev)
  <2>1. /\ Returns(task[t]) /\ task'[t].entry = task[t].entry /\ task'[t].prev = task[t].prev
    BY <1>6 DEF Waits, SameReturns
  <2>2. LeadPlace(queue, task[t].entry, task[t].prev)
    BY <2>1 DEF LeadInv
  <2>3. x # task[t].prev
    <3>1. task[t].prev # NoEntry => task[t].prev \in Waiting(queue)
      BY <2>2 DEF LeadPlace
    <3> QED BY <1>3, <3>1, EntriesAreNot
  <2> QED BY <1>1, <1>3, <1>4, <2>1, <2>2, <2>3, InsertKeepsLead
<1> QED BY <1>5, <1>6

LEMMA LeadDrops ==
  ASSUME LeadInv, NEW e \in Entries, Drops(e), ~PredecessorCancelled
  PROVE  /\ Leads(queue')
         /\ \A t \in Tasks : Returns(task'[t]) => LeadPlace(queue', task'[t].entry, task'[t].prev)
<1> DEFINE w == IndexOf(queue, e)
<1>1. MessageInv /\ Leads(queue) /\ queue \in Seq(Entries) /\ Once(queue)
  BY MessageParts DEF LeadInv, MessageInv, Carries
<1>2. queue' = RemoveAt(queue, w) /\ InQueue(e) /\ CancelEntry(e)
  BY DEF Drops, CancelEntry
<1>3. w \in 1..Len(queue) /\ queue[w] = e
  BY <1>1, <1>2, IndexOfType DEF InQueue, Contains
<1> HIDE DEF w
<1>4. RemoveLaw(queue, w, queue') /\ Waiting(queue') = Waiting(queue) \ {queue[w]}
  BY <1>1, <1>2, <1>3, RemoveAtLaw, RemoveWaits
<1>5. Leads(queue')
  BY <1>1, <1>3, <1>4, RemoveLeads
<1>6. ASSUME NEW t \in Tasks, Returns(task'[t])
      PROVE  LeadPlace(queue', task'[t].entry, task'[t].prev)
  <2>1. /\ Returns(task[t]) /\ task'[t].entry = task[t].entry /\ task'[t].prev = task[t].prev
    BY <1>6 DEF Drops, SameReturns
  <2>2. LeadPlace(queue, task[t].entry, task[t].prev)
    BY <2>1 DEF LeadInv
  <2>3. queue[w] # task[t].prev
    BY <1>2, <1>3, <2>1 DEF PredecessorCancelled, InFlight, Returns
  <2> QED BY <1>1, <1>3, <1>4, <2>1, <2>2, <2>3, RemoveKeepsLead
<1> QED BY <1>5, <1>6

LEMMA LeadTakes ==
  ASSUME LeadInv, NEW t \in Tasks, Takes(t)
  PROVE  /\ Leads(queue')
         /\ \A u \in Tasks : Returns(task'[u]) => LeadPlace(queue', task'[u].entry, task'[u].prev)
<1>1. MessageInv /\ Leads(queue) /\ queue \in Seq(Entries) /\ Once(queue)
  BY MessageParts DEF LeadInv, MessageInv, Carries
<1>2. PICK w \in 1..Len(queue) :
        /\ queue' = RemoveAt(queue, w) /\ task'[t].entry = queue[w]
        /\ task'[t].prev = IF w > 1 THEN queue[w - 1] ELSE NoEntry
  BY DEF Takes
<1>3. RemoveLaw(queue, w, queue')
  BY <1>1, <1>2, RemoveAtLaw
<1>4. Leads(queue')
  BY <1>1, <1>3, RemoveLeads
<1>5. LeadPlace(queue', task'[t].entry, task'[t].prev)
  BY <1>1, <1>2, <1>3, TakenLead
<1> QED BY <1>4, <1>5 DEF Takes

LEMMA LeadGoesBack ==
  ASSUME LeadInv, NEW t \in Tasks, GoesBack(t)
  PROVE  Leads(queue')
<1>1. LeadPlace(queue, task[t].entry, task[t].prev)
  BY DEF LeadInv, GoesBack
<1>2. task[t].entry \in Entries
  BY MessageParts DEF LeadInv, GoesBack, Returns
<1> QED BY <1>1, <1>2, RestoreLeads DEF LeadInv, GoesBack

LEMMA LeadNext == LeadInv /\ [Next /\ ~PredecessorCancelled]_vars => LeadInv'
<1> SUFFICES ASSUME LeadInv, [Next /\ ~PredecessorCancelled]_vars PROVE LeadInv'
  OBVIOUS
<1> DEFINE Fits == /\ Leads(queue')
                    /\ \A t \in Tasks : Returns(task'[t]) =>
                         LeadPlace(queue', task'[t].entry, task'[t].prev)
           Kept  == SameFresh \/ \E x \in Entries : Accepts(x) \/ Sending(x)
<1>1. MessageInv /\ MessageInv' /\ FifoStep
  BY MessageNext, FifoSteps DEF LeadInv
<1>2. ASSUME Still  PROVE Fits /\ Kept
  BY <1>2 DEF Still, LeadInv, SameReturns
<1>3. ASSUME NEW t \in Tasks, Takes(t)  PROVE Fits /\ Kept
  BY <1>3, LeadTakes DEF Takes
<1>4. ASSUME NEW t \in Tasks, GoesBack(t)  PROVE Fits /\ Kept
  BY <1>4, LeadGoesBack DEF GoesBack
<1>5. ASSUME NEW t \in Tasks, Reorders(t)  PROVE Fits /\ Kept
  <2>1. queue' = Moved(queue, task[t].entry, task[t].prev) /\ UNCHANGED fate
    BY <1>5 DEF Reorders, MoveEntry
  <2> QED BY <1>1, <1>5, <2>1, MovedLeads DEF Reorders, SameReturns, SameFresh, LeadInv
<1>6. ASSUME NEW x \in Entries, Waits(x)  PROVE Fits /\ Kept
  BY <1>6, LeadWaits DEF Waits
<1>7. ASSUME NEW e \in Entries, Drops(e)  PROVE Fits /\ Kept
  <2>1. CASE UNCHANGED vars
    <3>1. Still
      BY <2>1 DEF Still, SameReturns, SameFresh, vars
    <3> QED BY <1>2, <3>1
  <2>2. CASE ~PredecessorCancelled
    BY <1>7, <2>2, LeadDrops DEF Drops
  <2> QED BY <2>1, <2>2
<1>8. Fits /\ Kept
  BY <1>1, <1>2, <1>3, <1>4, <1>5, <1>6, <1>7 DEF FifoStep
<1>9. \A c \in Continuations : fate'[c] \notin Fresh
  BY <1>8, StayAccepted
<1> QED BY <1>1, <1>8, <1>9 DEF LeadInv

(* What a quiet restart put back stays in front of what came later: held    *)
(* deliveries (submitHeld), moves (moveEntry) and entries that a refused    *)
(* start puts back (restoreAfter) go behind it, as long as nobody cancels   *)
(* the entry that was ahead of the one that is being started (cancelEntry). *)
THEOREM ContinuationsStayInFront == UncancelledSpec => []ContinuationsLead
<1>1. Init => LeadInv
  BY LeadInit
<1>2. LeadInv /\ [Next /\ ~PredecessorCancelled]_vars => LeadInv'
  BY LeadNext
<1>3. LeadInv => ContinuationsLead
  <2>1. LeadInv => \A i, j \in 1..Len(queue) :
          i < j /\ queue[j] \in Continuations => queue[i] \in Continuations
    BY DEF LeadInv, Leads
  <2>2. LeadInv => DOMAIN queue = 1..Len(queue)
    BY MessageParts DEF LeadInv
  <2> QED BY <2>1, <2>2 DEF ContinuationsLead
<1> QED BY <1>1, <1>2, <1>3, PTL DEF UncancelledSpec

-----------------------------------------------------------------------------
(* Entries wait in the order they were submitted.                           *)

Ordered(q, P) ==
  \A i, j \in 1..Len(q) : i < j /\ q[i] \notin P /\ q[j] \notin P => q[i] < q[j]

(* Entry e, put back after p, does not disturb the order: it is older than  *)
(* what waits, and all up to p was placed by someone.                       *)
OrderPlace(q, e, p, P) ==
  /\ e \notin P => \A i \in 1..Len(q) : q[i] \notin P => e < q[i]
  /\ p # NoEntry => \A i, k \in 1..Len(q) : q[k] = p /\ i <= k => q[i] \in P

OrderInv ==
  /\ MessageInv /\ Ordered(queue, placed) /\ paused \subseteq placed
  /\ \A c, d \in Entries : c < d /\ fate[d] # "unsent" => fate[c] # "unsent"
  /\ \A t \in Tasks : Returns(task[t]) =>
       /\ OrderPlace(queue, task[t].entry, task[t].prev, placed)
       /\ task[t].prev \in Entries => fate[task[t].prev] \notin Fresh

LEMMA OrderGrows ==
  ASSUME NEW q, NEW P, NEW R, P \subseteq R
  PROVE  /\ Ordered(q, P) => Ordered(q, R)
         /\ \A e, p : OrderPlace(q, e, p, P) => OrderPlace(q, e, p, R)
BY DEF Ordered, OrderPlace

LEMMA InsertOrdered ==
  ASSUME NEW q \in Seq(Entries), NEW e \in Entries, NEW i \in 1..(Len(q) + 1), NEW r, NEW P,
         InsertLaw(q, e, i, r), Ordered(q, P),
         e \notin P => /\ \A j \in 1..Len(q) : j < i /\ q[j] \notin P => q[j] < e
                       /\ \A j \in 1..Len(q) : j >= i /\ q[j] \notin P => e < q[j]
  PROVE  Ordered(r, P)
<1> SUFFICES ASSUME NEW a \in 1..Len(r), NEW b \in 1..Len(r), a < b, r[a] \notin P, r[b] \notin P
             PROVE  r[a] < r[b]
  BY DEF Ordered
<1> DEFINE f(k) == IF k < i THEN k ELSE k - 1
<1>1. Len(r) = Len(q) + 1 /\ Len(q) \in Nat /\ i \in Nat
  BY DEF InsertLaw
<1>2. \A k \in 1..Len(r) : k = i \/ (f(k) \in 1..Len(q) /\ r[k] = q[f(k)])
  BY <1>1 DEF InsertLaw
<1>3. r[i] = e
  BY <1>1 DEF InsertLaw
<1>4. CASE a # i /\ b # i
  <2>1. f(a) < f(b) /\ f(a) \in 1..Len(q) /\ f(b) \in 1..Len(q)
    BY <1>1, <1>2, <1>4
  <2>2. r[a] = q[f(a)] /\ r[b] = q[f(b)]
    BY <1>2, <1>4
  <2> QED BY <2>1, <2>2 DEF Ordered
<1>5. CASE a = i
  <2>1. b - 1 \in 1..Len(q) /\ b - 1 >= i /\ r[b] = q[b - 1]
    BY <1>1, <1>2, <1>5
  <2> QED BY <1>3, <1>5, <2>1
<1>6. CASE b = i
  <2>1. a \in 1..Len(q) /\ a < i /\ r[a] = q[a]
    BY <1>1, <1>2, <1>6
  <2> QED BY <1>3, <1>6, <2>1
<1> QED BY <1>4, <1>5, <1>6

LEMMA RemoveOrdered ==
  ASSUME NEW q \in Seq(Entries), NEW i \in 1..Len(q), NEW r, NEW P,
         RemoveLaw(q, i, r), Ordered(q, P)
  PROVE  /\ Ordered(r, P)
         /\ \A e, p : OrderPlace(q, e, p, P) => OrderPlace(r, e, p, P)
<1> DEFINE f(k) == IF k < i THEN k ELSE k + 1
<1>1. Len(r) = Len(q) - 1 /\ Len(q) \in Nat
  BY DEF RemoveLaw
<1>2. \A k \in 1..Len(r) : f(k) \in 1..Len(q) /\ r[k] = q[f(k)]
  BY <1>1 DEF RemoveLaw
<1>3. Ordered(r, P)
  <2> SUFFICES ASSUME NEW a \in 1..Len(r), NEW b \in 1..Len(r), a < b, r[a] \notin P, r[b] \notin P
               PROVE  r[a] < r[b]
    BY DEF Ordered
  <2>1. f(a) < f(b)
    BY <1>1
  <2> QED BY <1>2, <2>1 DEF Ordered
<1>4. ASSUME NEW e, NEW p, OrderPlace(q, e, p, P)
      PROVE  OrderPlace(r, e, p, P)
  <2>1. ASSUME e \notin P, NEW a \in 1..Len(r), r[a] \notin P  PROVE e < r[a]
    BY <1>2, <1>4, <2>1 DEF OrderPlace
  <2>2. ASSUME p # NoEntry, NEW a \in 1..Len(r), NEW k \in 1..Len(r), r[k] = p, a <= k
        PROVE  r[a] \in P
    <3>1. f(a) <= f(k)
      BY <1>1, <2>2
    <3> QED BY <1>2, <1>4, <2>2, <3>1 DEF OrderPlace
  <2> QED BY <2>1, <2>2 DEF OrderPlace
<1> QED BY <1>3, <1>4

(* An entry comes, at a place someone chose or at the back: the place of e  *)
(* still fits.                                                              *)
LEMMA InsertKeepsOrder ==
  ASSUME NEW q \in Seq(Entries), NEW x \in Entries, NEW i \in 1..(Len(q) + 1), NEW r, NEW P,
         InsertLaw(q, x, i, r), NEW e, NEW p, OrderPlace(q, e, p, P),
         \/ x \in P /\ (x # p \/ \A j \in 1..Len(q) : j < i => q[j] \in P)
         \/ x # p /\ i = Len(q) + 1 /\ e < x,
         x \notin Waiting(q)
  PROVE  OrderPlace(r, e, p, P)
<1> DEFINE f(k) == IF k < i THEN k ELSE k - 1
<1>1. Len(r) = Len(q) + 1 /\ Len(q) \in Nat /\ i \in Nat
  BY DEF InsertLaw
<1>2. \A k \in 1..Len(r) : k = i \/ (f(k) \in 1..Len(q) /\ r[k] = q[f(k)])
  BY <1>1 DEF InsertLaw
<1>3. r[i] = x
  BY <1>1 DEF InsertLaw
<1>4. ASSUME e \notin P, NEW a \in 1..Len(r), r[a] \notin P  PROVE e < r[a]
  BY <1>2, <1>3, <1>4 DEF OrderPlace
<1>5. ASSUME p # NoEntry, NEW a \in 1..Len(r), NEW k \in 1..Len(r), r[k] = p, a <= k
      PROVE  r[a] \in P
  <2>1. CASE x = p
    <3>1. k = i
      BY <1>2, <1>5, <2>1 DEF Waiting
    <3>2. a = i \/ (a < i /\ a \in 1..Len(q) /\ r[a] = q[a])
      BY <1>1, <1>2, <1>5, <3>1
    <3> QED BY <1>3, <2>1, <3>2
  <2>2. CASE x # p
    <3>1. k # i
      BY <1>3, <1>5, <2>2
    <3>2. CASE a = i
      BY <1>1, <1>3, <1>5, <3>1, <3>2
    <3>3. CASE a # i
      <4>1. f(a) <= f(k)
        BY <1>1, <1>5, <3>1, <3>3
      <4> QED BY <1>2, <1>5, <3>1, <3>3, <4>1 DEF OrderPlace
    <3> QED BY <3>2, <3>3
  <2> QED BY <2>1, <2>2
<1> QED BY <1>4, <1>5 DEF OrderPlace

LEMMA TakenOrder ==
  ASSUME NEW q \in Seq(Entries), Once(q), NEW P, Ordered(q, P), NEW w \in 1..Len(q),
         \A i \in 1..(w - 1) : q[i] \in P, NEW r, RemoveLaw(q, w, r)
  PROVE  OrderPlace(r, q[w], IF w > 1 THEN q[w - 1] ELSE NoEntry, P)
<1> DEFINE p == IF w > 1 THEN q[w - 1] ELSE NoEntry
<1>1. Len(r) = Len(q) - 1 /\ Len(q) \in Nat /\ w \in Nat
  BY DEF RemoveLaw
<1>2. \A k \in 1..Len(r) : r[k] = IF k < w THEN q[k] ELSE q[k + 1]
  BY <1>1 DEF RemoveLaw
<1>3. ASSUME q[w] \notin P, NEW a \in 1..Len(r), r[a] \notin P  PROVE q[w] < r[a]
  <2>1. a >= w
    BY <1>1, <1>2, <1>3
  <2>2. r[a] = q[a + 1] /\ a + 1 \in 1..Len(q) /\ w < a + 1
    BY <1>1, <1>2, <2>1
  <2> QED BY <1>3, <2>2 DEF Ordered
<1>4. ASSUME p # NoEntry, NEW a \in 1..Len(r), NEW k \in 1..Len(r), r[k] = p, a <= k
      PROVE  r[a] \in P
  <2>1. w > 1 /\ q[w - 1] = r[k] /\ w - 1 \in 1..Len(q)
    BY <1>1, <1>4
  <2>2. k = w - 1
    BY <1>1, <1>2, <2>1 DEF Once
  <2>3. a \in 1..(w - 1) /\ r[a] = q[a]
    BY <1>1, <1>2, <1>4, <2>1, <2>2
  <2> QED BY <2>3
<1> HIDE DEF p
<1>5. OrderPlace(r, q[w], p, P)
  BY <1>3, <1>4 DEF OrderPlace
<1> QED BY <1>5 DEF p

LEMMA RestoreOrdered ==
  ASSUME MessageInv, Ordered(queue, placed), paused \subseteq placed,
         NEW e \in Entries, NEW p, OrderPlace(queue, e, p, placed)
  PROVE  Ordered(RestoreAfter(queue, e, p), placed)
<1> DEFINE k == IndexOf(queue, p)
           w == NextWaiting(queue)
<1>1. queue \in Seq(Entries) /\ Len(queue) \in Nat
  BY MessageParts
<1>2. ASSUME NEW i \in 1..(Len(queue) + 1),
             \A j \in 1..Len(queue) : j < i => queue[j] \in placed
      PROVE  Ordered(InsertAt(queue, i, e), placed)
  <2>1. InsertLaw(queue, e, i, InsertAt(queue, i, e))
    BY <1>1, InsertAtLaw
  <2> QED BY <1>1, <1>2, <2>1, InsertOrdered DEF OrderPlace
<1>3. CASE p = NoEntry
  <2>1. RestoreAfter(queue, e, p) = InsertAt(queue, 1, e)
    BY <1>1, <1>3 DEF RestoreAfter, InsertAt
  <2>2. 1 \in 1..(Len(queue) + 1) /\ \A j \in 1..Len(queue) : ~(j < 1)
    BY <1>1
  <2> QED BY <1>2, <2>1, <2>2
<1>4. CASE p # NoEntry /\ k # 0
  <2>1. k \in 1..Len(queue) /\ queue[k] = p
    BY <1>1, <1>4, IndexOfType
  <2>2. RestoreAfter(queue, e, p) = InsertAt(queue, k + 1, e)
    BY <1>4 DEF RestoreAfter
  <2> HIDE DEF k
  <2>3. k + 1 \in 1..(Len(queue) + 1)
    BY <1>1, <2>1
  <2>4. \A j \in 1..Len(queue) : j < k + 1 => queue[j] \in placed
    BY <1>1, <1>4, <2>1 DEF OrderPlace
  <2> QED BY <1>2, <2>2, <2>3, <2>4
<1>5. CASE p # NoEntry /\ k = 0 /\ w # 0
  <2>1. w \in 1..Len(queue)
    BY <1>1, <1>5, NextWaitingType
  <2>2. RestoreAfter(queue, e, p) = InsertAt(queue, w, e)
    BY <1>5 DEF RestoreAfter
  <2>3. \A j \in 1..Len(queue) : j < w => queue[j] \in placed
    BY <1>1, NextWaitingFirst
  <2> HIDE DEF w
  <2> QED BY <1>1, <1>2, <2>1, <2>2, <2>3
<1>6. CASE p # NoEntry /\ k = 0 /\ w = 0
  <2>1. RestoreAfter(queue, e, p) = Append(queue, e)
    BY <1>6 DEF RestoreAfter
  <2>2. \A j \in 1..Len(queue) : queue[j] \in placed
    BY <1>1, <1>6, NextWaitingFirst
  <2>3. Len(queue) + 1 \in 1..(Len(queue) + 1)
    BY <1>1
  <2>4. Append(queue, e) = InsertAt(queue, Len(queue) + 1, e)
    BY AppendIsInsert
  <2> QED BY <1>2, <2>1, <2>2, <2>3, <2>4
<1> QED BY <1>3, <1>4, <1>5, <1>6

(* What is paused was placed by someone, and that is never forgotten.       *)
KeepsPlaces == placed \subseteq placed' /\ paused' \subseteq paused \union placed'

LEMMA ProceedPlaces ==
  ASSUME NEW t \in Tasks, Proceed(t)
  PROVE  KeepsPlaces
<1>1. CASE StartNext(t) \/ StartFinished(t) \/ SteerBack(t) \/ ReleaseRefused(t)
  BY <1>1 DEF StartNext, Claim, StartFinished, SteerBack, ReleaseRefused, KeepsPlaces
<1>2. CASE MoveEntry(t) \/ PauseEntry(t) \/ ResumeEntry(t)
  BY <1>2 DEF MoveEntry, PauseEntry, ResumeEntry, KeepsPlaces
<1>3. CASE SubmitSteer(t) \/ ClearQueueHold(t) \/ SteerLeaves(t, "left")
  BY <1>3 DEF SubmitSteer, ClearQueueHold, SteerLeaves, KeepsPlaces
<1> QED BY <1>1, <1>2, <1>3 DEF Proceed

LEMMA SubmissionPlaces ==
  ASSUME Submission
  PROVE  KeepsPlaces
<1>1. ASSUME NEW e \in Entries, Enqueue(e) \/ SubmitProjectHeld(e) \/ CancelEntry(e)  PROVE KeepsPlaces
  BY <1>1 DEF Enqueue, SubmitProjectHeld, CancelEntry, KeepsPlaces
<1>2. ASSUME NEW t \in Tasks, NEW e \in Entries,
             StartNow(t, e) \/ EditsEntry(t, e) \/ EditsSteer(t, e) \/ Retry(t, e)
      PROVE  KeepsPlaces
  BY <1>2 DEF StartNow, EditsEntry, EditsSteer, Retry, EnterEdit, KeepsPlaces
<1>3. ASSUME NEW t \in Tasks, NEW e \in Entries, NEW r, SubmitHeld(t, e, r)  PROVE KeepsPlaces
  BY <1>3 DEF SubmitHeld, KeepsPlaces
<1>4. ASSUME NEW t \in Tasks, ReleaseHold(t)  PROVE KeepsPlaces
  BY <1>4 DEF ReleaseHold, KeepsPlaces
<1>5. CASE (\E e \in Entries : EditInput(e)) \/ ScheduleThreadDrain \/ Close
  BY <1>5 DEF EditInput, ScheduleThreadDrain, Close, KeepsPlaces
<1> QED BY <1>1, <1>2, <1>3, <1>4, <1>5 DEF Submission

LEMMA NextPlaces ==
  ASSUME [Next]_vars
  PROVE  KeepsPlaces
<1>1. ASSUME NEW t \in Tasks, Emitted(t)  PROVE KeepsPlaces
  BY <1>1 DEF Emitted, HoldEmitted, HeldEmitted, ClearEmitted, UnlockEmitted, StartEmitted,
              TerminalEmitted, FailureEmitted, BlockEmitted, SteerEmitted, SteerLeaves, InputEdited,
              KeepsPlaces
<1>2. ASSUME NEW t \in Tasks, Answer(t)  PROVE KeepsPlaces
  BY <1>2 DEF Answer, StartAcknowledged, DirectStartRejected, SteerAccepted, QueuedStartRejected,
              SteerRejected, SteerDeclined, KeepsPlaces
<1>3. ASSUME NEW n, Report(n)  PROVE KeepsPlaces
  BY <1>3 DEF Report, ReleaseBuffered, ReleaseIgnored, ReleaseCoalesced, Release, KeepsPlaces
<1>4. CASE DrainFires
  BY <1>4 DEF DrainFires, Claim, KeepsPlaces
<1>5. CASE Backend \/ GateDue \/ GateOpens \/ GateQuiets \/ UNCHANGED vars
  BY <1>5 DEF Backend, TurnBegins, ExternalTurnBegins, IdleReported, TurnEnds, OutcomeRepeated,
              Notify, GateDue, GateOpens, GateQuiets, GateMoves, vars, KeepsPlaces
<1> QED BY <1>1, <1>2, <1>3, <1>4, <1>5, ProceedPlaces, SubmissionPlaces DEF Next

(* Entries are submitted in their order, and stay submitted.                *)
LEMMA StaySubmitted ==
  ASSUME OrderInv, SameFresh \/ \E x \in Entries : Accepts(x) \/ Sending(x)
  PROVE  /\ \A m \in Entries : fate[m] \notin Fresh => fate'[m] \notin Fresh
         /\ \A c, d \in Entries : c < d /\ fate'[d] # "unsent" => fate'[c] # "unsent"
<1>1. CASE SameFresh
  BY <1>1 DEF SameFresh, Fresh, OrderInv
<1>2. ASSUME NEW x \in Entries, Accepts(x) \/ Sending(x)
      PROVE  /\ \A m \in Entries : fate[m] \notin Fresh => fate'[m] \notin Fresh
             /\ \A c, d \in Entries : c < d /\ fate'[d] # "unsent" => fate'[c] # "unsent"
  <2>1. /\ fate[x] \in Fresh /\ fate'[x] # "unsent"
        /\ \A m \in Entries : m # x => fate'[m] = fate[m]
    BY <1>2, MessageParts DEF Accepts, Sending, Unsent, Fresh, OrderInv
  <2>2. \A c \in Entries : c < x => fate[c] # "unsent"
    <3>1. CASE Unsent(x)
      BY <3>1 DEF Unsent, Entries
    <3>2. CASE fate[x] = "sending"
      BY <3>2 DEF OrderInv
    <3> QED BY <1>2, <3>1, <3>2 DEF Accepts, Sending
  <2>3. \A m \in Entries : fate[m] \notin Fresh => fate'[m] \notin Fresh
    BY <2>1
  <2>4. ASSUME NEW c \in Entries, NEW d \in Entries, c < d, fate'[d] # "unsent"
        PROVE  fate'[c] # "unsent"
    <3>1. CASE d = x
      BY <2>1, <2>2, <2>4, <3>1
    <3>2. CASE d # x
      BY <2>1, <2>4, <3>2 DEF OrderInv
    <3> QED BY <3>1, <3>2
  <2> QED BY <2>3, <2>4
<1> QED BY <1>1, <1>2

(* What a step must keep.                                                   *)
OrderKept ==
  /\ Ordered(queue', placed')
  /\ \A t \in Tasks : Returns(task'[t]) =>
       /\ OrderPlace(queue', task'[t].entry, task'[t].prev, placed')
       /\ task'[t].prev \in Entries => fate'[task'[t].prev] \notin Fresh

LEMMA Lives ==
  ASSUME MessageInv
  PROVE  /\ \A e \in Waiting(queue) : fate[e] = "open"
         /\ \A t \in Tasks : Returns(task[t]) =>
              task[t].entry \in Entries /\ fate[task[t].entry] = "open"
<1>1. \A e \in Waiting(queue) \union Asked(task) : e \in Entries /\ fate[e] = "open"
  BY MessageParts DEF MessageInv, Carries, Sound
<1>2. \A t \in Tasks : Returns(task[t]) => task[t].entry \in Asked(task)
  BY DEF Returns, Asked
<1> QED BY <1>1, <1>2

LEMMA OrderWaits ==
  ASSUME OrderInv, NEW x \in Entries, Waits(x), KeepsPlaces, ~SteerOvertaken
  PROVE  OrderKept
<1>1. /\ MessageInv /\ queue \in Seq(Entries) /\ Len(queue) \in Nat /\ Accepts(x)
      /\ Ordered(queue, placed')
  BY MessageParts, OrderGrows DEF OrderInv, Waits, KeepsPlaces
<1>2. PICK i \in 1..(Len(queue) + 1) :
        queue' = InsertAt(queue, i, x) /\ (x \in placed' \/ i = Len(queue) + 1)
  <2>1. Len(queue) + 1 \in 1..(Len(queue) + 1)
    BY <1>1
  <2>2. PlaceOfHeld \in 1..(Len(queue) + 1)
    BY <1>1, PlaceOfHeldType
  <2> QED BY <2>1, <2>2 DEF Waits
<1>3. /\ fate[x] \in Fresh /\ x \notin Waiting(queue)
      /\ InsertLaw(queue, x, i, queue')
  BY <1>1, <1>2, Enters
<1>4. \A e \in Entries : fate[e] = "open" => e < x
  <2> SUFFICES ASSUME NEW e \in Entries, fate[e] = "open" PROVE e < x
    OBVIOUS
  <2>1. e # x /\ e \in Nat /\ x \in Nat
    BY <1>3 DEF Fresh, Entries
  <2>2. CASE Unsent(x)
    <3>1. ~(x < e)
      BY <2>2 DEF OrderInv, Unsent
    <3> QED BY <2>1, <3>1
  <2>3. CASE \E t \in Tasks : SubmitSteer(t) /\ task[t].entry = x
    <3>1. queue' # queue
      BY <1>1, <1>3 DEF InsertLaw
    <3>2. ~(e > x)
      BY <2>3, <3>1 DEF SteerOvertaken
    <3> QED BY <2>1, <3>2
  <2> QED BY <1>1, <2>2, <2>3 DEF Accepts
<1>5. Ordered(queue', placed')
  <2>1. ASSUME x \notin placed'
        PROVE  /\ \A j \in 1..Len(queue) : j < i /\ queue[j] \notin placed' => queue[j] < x
               /\ \A j \in 1..Len(queue) : j >= i /\ queue[j] \notin placed' => x < queue[j]
    <3>1. \A j \in 1..Len(queue) : queue[j] < x
      BY <1>1, <1>4, Lives DEF Waiting
    <3>2. \A j \in 1..Len(queue) : ~(j >= i)
      BY <1>1, <1>2, <2>1
    <3> QED BY <3>1, <3>2
  <2> QED BY <1>1, <1>3, <2>1, InsertOrdered
<1>6. ASSUME NEW t \in Tasks, Returns(task'[t])
      PROVE  /\ OrderPlace(queue', task'[t].entry, task'[t].prev, placed')
             /\ task'[t].prev \in Entries => fate'[task'[t].prev] \notin Fresh
  <2> DEFINE e == task[t].entry
             p == task[t].prev
  <2>1. Returns(task[t]) /\ task'[t].entry = e /\ task'[t].prev = p
    BY <1>6 DEF Waits, SameReturns
  <2>2. /\ OrderPlace(queue, e, p, placed) /\ e \in Entries /\ fate[e] = "open"
        /\ p \in Entries => fate[p] \notin Fresh
    BY <1>1, <2>1, Lives DEF OrderInv
  <2> HIDE DEF e, p
  <2>3. OrderPlace(queue, e, p, placed')
    BY <2>2, OrderGrows DEF KeepsPlaces
  <2>4. x # p /\ e < x
    BY <1>3, <1>4, <2>2
  <2>5. OrderPlace(queue', e, p, placed')
    BY <1>1, <1>2, <1>3, <2>3, <2>4, InsertKeepsOrder
  <2>6. p \in Entries => fate'[p] \notin Fresh
    BY <1>1, <2>2, StaySubmitted
  <2> QED BY <2>1, <2>5, <2>6
<1> QED BY <1>5, <1>6 DEF OrderKept

LEMMA OrderDrops ==
  ASSUME OrderInv, NEW g \in Entries, Drops(g), KeepsPlaces
  PROVE  OrderKept
<1> DEFINE w == IndexOf(queue, g)
<1>1. MessageInv /\ queue \in Seq(Entries) /\ Ordered(queue, placed')
  BY MessageParts, OrderGrows DEF OrderInv, KeepsPlaces
<1>2. queue' = RemoveAt(queue, w) /\ InQueue(g)
  BY DEF Drops, CancelEntry
<1>3. w \in 1..Len(queue)
  BY <1>1, <1>2, IndexOfType DEF InQueue, Contains
<1> HIDE DEF w
<1>4. RemoveLaw(queue, w, queue')
  BY <1>1, <1>2, <1>3, RemoveAtLaw
<1>5. /\ Ordered(queue', placed')
      /\ \A e, p : OrderPlace(queue, e, p, placed') => OrderPlace(queue', e, p, placed')
  BY <1>1, <1>3, <1>4, RemoveOrdered
<1>6. \A m \in Entries : fate[m] \notin Fresh => fate'[m] \notin Fresh
  BY StaySubmitted DEF Drops
<1>7. ASSUME NEW t \in Tasks, Returns(task'[t])
      PROVE  /\ OrderPlace(queue', task'[t].entry, task'[t].prev, placed')
             /\ task'[t].prev \in Entries => fate'[task'[t].prev] \notin Fresh
  <2>1. /\ Returns(task[t]) /\ task'[t].entry = task[t].entry /\ task'[t].prev = task[t].prev
    BY <1>7 DEF Drops, SameReturns
  <2>2. OrderPlace(queue, task[t].entry, task[t].prev, placed')
    BY <2>1, OrderGrows DEF OrderInv, KeepsPlaces
  <2> QED BY <1>5, <1>6, <2>1, <2>2 DEF OrderInv
<1> QED BY <1>5, <1>7 DEF OrderKept

LEMMA OrderTakes ==
  ASSUME OrderInv, NEW t \in Tasks, Takes(t), KeepsPlaces
  PROVE  OrderKept
<1>1. /\ MessageInv /\ queue \in Seq(Entries) /\ Once(queue) /\ Ordered(queue, placed')
      /\ paused \subseteq placed'
  BY MessageParts, OrderGrows DEF OrderInv, KeepsPlaces, MessageInv, Carries
<1>2. PICK w \in 1..Len(queue) :
        /\ \A i \in 1..(w - 1) : queue[i] \in paused
        /\ queue' = RemoveAt(queue, w) /\ task'[t].entry = queue[w]
        /\ task'[t].prev = IF w > 1 THEN queue[w - 1] ELSE NoEntry
  BY DEF Takes
<1>3. RemoveLaw(queue, w, queue')
  BY <1>1, <1>2, RemoveAtLaw
<1>4. Ordered(queue', placed')
  BY <1>1, <1>3, RemoveOrdered
<1>5. OrderPlace(queue', task'[t].entry, task'[t].prev, placed')
  BY <1>1, <1>2, <1>3, TakenOrder
<1>6. task'[t].prev \in Entries => fate'[task'[t].prev] \notin Fresh
  <2>1. ASSUME task'[t].prev \in Entries
        PROVE  fate'[task'[t].prev] \notin Fresh
    <3>1. w > 1 /\ task'[t].prev = queue[w - 1]
      BY <1>2, <2>1, EntriesAreNot
    <3>2. queue[w - 1] \in Waiting(queue)
      BY <1>1, <3>1 DEF Waiting
    <3>3. fate[task'[t].prev] \notin Fresh
      BY <1>1, <3>1, <3>2, Lives DEF Fresh
    <3> QED BY <2>1, <3>3, StaySubmitted DEF Takes
  <2> QED BY <2>1
<1> QED BY <1>4, <1>5, <1>6 DEF OrderKept, Takes

LEMMA OrderGoesBack ==
  ASSUME OrderInv, NEW t \in Tasks, GoesBack(t), KeepsPlaces
  PROVE  OrderKept
<1>1. OrderPlace(queue, task[t].entry, task[t].prev, placed) /\ task[t].entry \in Entries
  BY Lives DEF OrderInv, GoesBack
<1>2. Ordered(queue', placed)
  BY <1>1, RestoreOrdered DEF OrderInv, GoesBack
<1> QED BY <1>2, OrderGrows DEF OrderKept, GoesBack, KeepsPlaces

(* A move keeps the order of the others.  It keeps the place of the entry   *)
(* in the handoff too, unless it moves back the one that was ahead.         *)
LEMMA MovedOrder ==
  ASSUME OrderInv, NEW g, NEW before, NEW s, s = Moved(queue, g, before), s # queue,
         NEW P, placed \subseteq P, g \in P
  PROVE  /\ Ordered(s, P)
         /\ \A e, p : OrderPlace(queue, e, p, placed) /\ ~(p = g /\ IndexOf(queue, p) < IndexOf(s, p))
                        => OrderPlace(s, e, p, P)
<1>1. PICK from \in 1..Len(queue), to \in 1..Len(queue) :
        queue[from] = g /\ s = InsertAt(RemoveAt(queue, from), to, g)
  BY MovedLaw DEF OrderInv
<1> DEFINE r == RemoveAt(queue, from)
<1>2. queue \in Seq(Entries) /\ Len(queue) \in Nat /\ g \in Entries /\ Once(queue) /\ TypeOK
  BY <1>1, MessageParts DEF OrderInv, MessageInv, Carries
<1>3. RemoveLaw(queue, from, r)
  BY <1>2, RemoveAtLaw
<1>4. r \in Seq(Entries) /\ Len(r) = Len(queue) - 1 /\ Waiting(r) = Waiting(queue) \ {g}
  BY <1>1, <1>2, <1>3, RemoveWaits DEF RemoveLaw
<1>5. Ordered(queue, P)
  BY OrderGrows DEF OrderInv
<1> HIDE DEF r
<1>6. /\ Ordered(r, P)
      /\ \A e, p : OrderPlace(queue, e, p, P) => OrderPlace(r, e, p, P)
  BY <1>2, <1>3, <1>5, RemoveOrdered
<1>7. to \in 1..(Len(r) + 1)
  BY <1>2, <1>4
<1>8. InsertLaw(r, g, to, s)
  BY <1>1, <1>2, <1>4, <1>7, InsertAtLaw DEF r
<1>9. Ordered(s, P)
  BY <1>2, <1>4, <1>6, <1>7, <1>8, InsertOrdered
<1>10. ASSUME NEW e, NEW p, OrderPlace(queue, e, p, placed),
              ~(p = g /\ IndexOf(queue, p) < IndexOf(s, p))
       PROVE  OrderPlace(s, e, p, P)
  <2>1. OrderPlace(queue, e, p, P) /\ OrderPlace(r, e, p, P)
    BY <1>6, <1>10, OrderGrows
  <2>2. g # p \/ \A j \in 1..Len(r) : j < to => r[j] \in P
    <3> SUFFICES ASSUME g = p PROVE \A j \in 1..Len(r) : j < to => r[j] \in P
      OBVIOUS
    <3>1. IndexOf(queue, g) = from
      <4>1. IndexOf(queue, g) \in 1..Len(queue) /\ queue[IndexOf(queue, g)] = queue[from]
        BY <1>1, <1>2, IndexOfType
      <4> QED BY <4>1, <1>2 DEF Once
    <3>2. IndexOf(s, g) = to
      <4>1. s \in Seq(Entries) /\ Len(s) = Len(queue) /\ s[to] = g
        BY <1>2, <1>4, <1>8 DEF InsertLaw
      <4>2. Once(s)
        BY <1>2, MovedWaits
      <4>3. IndexOf(s, g) \in 1..Len(s) /\ s[IndexOf(s, g)] = s[to]
        BY <4>1, IndexOfType
      <4> QED BY <4>1, <4>2, <4>3 DEF Once
    <3>3. to <= from
      BY <1>10, <3>1, <3>2
    <3>4. ASSUME NEW j \in 1..Len(r), j < to  PROVE r[j] \in P
      <4>1. j <= from /\ r[j] = queue[j] /\ j \in 1..Len(queue)
        BY <1>2, <1>3, <1>4, <3>3, <3>4 DEF RemoveLaw
      <4>2. queue[from] = p /\ p # NoEntry
        BY <1>1, <1>2, EntriesAreNot
      <4> QED BY <2>1, <4>1, <4>2 DEF OrderPlace
    <3> QED BY <3>4
  <2>3. g \notin Waiting(r)
    BY <1>4
  <2> QED BY <1>2, <1>4, <1>7, <1>8, <2>1, <2>2, <2>3, InsertKeepsOrder
<1> QED BY <1>9, <1>10

LEMMA OrderReorders ==
  ASSUME OrderInv, NEW t \in Tasks, Reorders(t), ~PredecessorMovedBack
  PROVE  OrderKept
<1> DEFINE g == task[t].entry
<1>1. /\ queue' = Moved(queue, g, task[t].prev) /\ UNCHANGED fate /\ SameReturns
      /\ placed' = IF queue' = queue THEN placed ELSE placed \union {g}
      /\ MoveEntry(t)
  BY DEF Reorders, MoveEntry
<1>2. CASE queue' = queue
  BY <1>1, <1>2 DEF OrderInv, OrderKept, SameReturns
<1>3. CASE queue' # queue
  <2>1. placed \subseteq placed' /\ g \in placed'
    BY <1>1, <1>3
  <2>2. ASSUME NEW u \in Tasks, Returns(task'[u])
        PROVE  /\ OrderPlace(queue, task[u].entry, task[u].prev, placed)
               /\ ~(task[u].prev = g /\ IndexOf(queue, task[u].prev) < IndexOf(queue', task[u].prev))
               /\ task'[u].entry = task[u].entry /\ task'[u].prev = task[u].prev
               /\ task'[u].prev \in Entries => fate'[task'[u].prev] \notin Fresh
    <3>1. /\ Returns(task[u]) /\ task'[u].entry = task[u].entry /\ task'[u].prev = task[u].prev
      BY <1>1, <2>2 DEF SameReturns
    <3>2. ~(task[u].prev = g /\ IndexOf(queue, task[u].prev) < IndexOf(queue', task[u].prev))
      BY <1>1, <3>1 DEF PredecessorMovedBack, Returns, InFlight
    <3> QED BY <1>1, <3>1, <3>2 DEF OrderInv
  <2> HIDE DEF g
  <2> QED BY <1>1, <1>3, <2>1, <2>2, MovedOrder DEF OrderKept
<1> QED BY <1>2, <1>3

LEMMA OrderInit == Init => OrderInv
<1> SUFFICES ASSUME Init PROVE OrderInv
  OBVIOUS
<1>1. MessageInv
  BY MessageInit
<1>2. Ordered(queue, placed)
  <2>1. DOMAIN queue = 1..Len(queue)
    BY <1>1, MessageParts
  <2> QED BY <2>1 DEF Init, Ordered
<1>3. \A c, d \in Entries : c < d /\ fate[d] # "unsent" => fate[c] # "unsent"
  <2> SUFFICES ASSUME NEW c \in Entries, NEW d \in Entries, c < d, fate[d] # "unsent"
               PROVE  fate[c] # "unsent"
    OBVIOUS
  <2>1. d \in Continuations
    BY DEF Init
  <2>2. c \notin Continuations => d < c
    BY <2>1, QueueAssumption
  <2>3. c \in Continuations
    BY <2>2 DEF Entries
  <2> QED BY <2>3 DEF Init
<1>4. \A t \in Tasks : ~Returns(task[t])
  BY DEF Init, IdleTask, Returns
<1>5. paused \subseteq placed
  BY DEF Init
<1> QED BY <1>1, <1>2, <1>3, <1>4, <1>5 DEF OrderInv

LEMMA OrderNext ==
  OrderInv /\ [Next /\ ~PredecessorMovedBack /\ ~SteerOvertaken]_vars => OrderInv'
<1> SUFFICES ASSUME OrderInv, [Next /\ ~PredecessorMovedBack /\ ~SteerOvertaken]_vars
             PROVE  OrderInv'
  OBVIOUS
<1> DEFINE Kept == SameFresh \/ \E x \in Entries : Accepts(x) \/ Sending(x)
<1>1. MessageInv /\ MessageInv' /\ FifoStep /\ KeepsPlaces
  BY MessageNext, FifoSteps, NextPlaces DEF OrderInv
<1>2. ASSUME Still  PROVE OrderKept /\ Kept
  <2>1. Kept /\ queue' = queue /\ SameReturns
    BY <1>2 DEF Still
  <2>2. \A m \in Entries : fate[m] \notin Fresh => fate'[m] \notin Fresh
    BY <2>1, StaySubmitted
  <2>3. Ordered(queue', placed')
    BY <1>1, <2>1, OrderGrows DEF OrderInv, KeepsPlaces
  <2>4. ASSUME NEW t \in Tasks, Returns(task'[t])
        PROVE  /\ OrderPlace(queue', task'[t].entry, task'[t].prev, placed')
               /\ task'[t].prev \in Entries => fate'[task'[t].prev] \notin Fresh
    <3>1. Returns(task[t]) /\ task'[t].entry = task[t].entry /\ task'[t].prev = task[t].prev
      BY <2>1, <2>4 DEF SameReturns
    <3>2. OrderPlace(queue, task[t].entry, task[t].prev, placed')
      BY <1>1, <3>1, OrderGrows DEF OrderInv, KeepsPlaces
    <3> QED BY <2>1, <2>2, <3>1, <3>2 DEF OrderInv
  <2> QED BY <2>1, <2>3, <2>4 DEF OrderKept
<1>3. ASSUME NEW t \in Tasks, Takes(t)  PROVE OrderKept /\ Kept
  BY <1>1, <1>3, OrderTakes DEF Takes
<1>4. ASSUME NEW t \in Tasks, GoesBack(t)  PROVE OrderKept /\ Kept
  BY <1>1, <1>4, OrderGoesBack DEF GoesBack
<1>5. ASSUME UNCHANGED vars  PROVE OrderKept /\ Kept
  <2>1. Still
    BY <1>5 DEF Still, SameReturns, SameFresh, vars
  <2> QED BY <1>2, <2>1
<1>6. ASSUME NEW t \in Tasks, Reorders(t)  PROVE OrderKept /\ Kept
  <2>1. CASE ~PredecessorMovedBack
    <3>1. SameFresh
      BY <1>6 DEF Reorders, MoveEntry, SameFresh
    <3> QED BY <1>6, <2>1, <3>1, OrderReorders
  <2> QED BY <1>5, <2>1
<1>7. ASSUME NEW x \in Entries, Waits(x)  PROVE OrderKept /\ Kept
  <2>1. CASE ~SteerOvertaken
    BY <1>1, <1>7, <2>1, OrderWaits DEF Waits
  <2> QED BY <1>5, <2>1
<1>8. ASSUME NEW e \in Entries, Drops(e)  PROVE OrderKept /\ Kept
  BY <1>1, <1>8, OrderDrops DEF Drops
<1>9. OrderKept /\ Kept
  BY <1>1, <1>2, <1>3, <1>4, <1>6, <1>7, <1>8 DEF FifoStep
<1>10. paused' \subseteq placed'
  BY <1>1 DEF KeepsPlaces, OrderInv
<1>11. \A c, d \in Entries : c < d /\ fate'[d] # "unsent" => fate'[c] # "unsent"
  BY <1>9, StaySubmitted
<1> HIDE DEF Kept
<1> QED BY <1>1, <1>9, <1>10, <1>11 DEF OrderInv, OrderKept

(* Entries wait in the order they were submitted, save those whose place or *)
(* pause someone chose: a start that is refused puts its entry back where   *)
(* it was (restoreAfter), whatever is submitted, cancelled, paused or moved *)
(* meanwhile.  Two interleavings are excluded: the entry that was ahead is  *)
(* moved back while the start is under way (moveEntry), and a steer waits   *)
(* for edits while later messages are queued (submitSteer).                 *)
THEOREM EntriesWaitInOrder == UndisturbedSpec => []WaitInOrder
<1>1. Init => OrderInv
  BY OrderInit
<1>2. OrderInv /\ [Next /\ ~PredecessorMovedBack /\ ~SteerOvertaken]_vars => OrderInv'
  BY OrderNext
<1>3. OrderInv => WaitInOrder
  <2>1. OrderInv => \A i, j \in 1..Len(queue) :
          i < j /\ queue[i] \notin placed /\ queue[j] \notin placed => queue[i] < queue[j]
    BY DEF OrderInv, Ordered
  <2>2. OrderInv => DOMAIN queue = 1..Len(queue)
    BY MessageParts DEF OrderInv
  <2> QED BY <2>1, <2>2 DEF WaitInOrder
<1> QED BY <1>1, <1>2, <1>3, PTL DEF UndisturbedSpec

-----------------------------------------------------------------------------
(* No wake-up is lost: while an entry could start, something is under way  *)
(* or due that will look at the FIFO.                                      *)

(* x is the entry to start next: those ahead of it are paused. *)
IsNext(q, P, x) ==
  \E i \in 1..Len(q) : q[i] = x /\ x \notin P /\ \A j \in 1..(i - 1) : q[j] \in P

MayStart ==
  ~closed /\ admission.phase = "idle" /\ editors = << >> /\ running = NoTurn /\ active = NoTurn

Owed == MayStart /\ \E x \in Entries : IsNext(queue, paused, x) /\ ~Held(x) /\ ~GateHolds(x)

(* A chain that will look at the FIFO, or arm the drain, when it goes on. *)
WillLook(c) == Looks(c) \/ c.pc \in {"clearing", "unlocking"}

(* A report that releaseThread will not take for a repeated one. *)
Heeded(n) == n.turn = NoTurn \/ n.turn \notin processed

Awake ==
  \/ drain
  \/ \E t \in Tasks : WillLook(task[t])
  \/ \E n \in notices : Heeded(n)
  \/ pendingRelease /\ \E t \in Tasks : RefusedRelease(task[t])

WakeInv == MessageInv /\ ReleaseInv /\ TurnInv /\ (Owed => Awake)

WakeKept == Owed' => Awake'

LEMMA WakeParts ==
  ASSUME WakeInv
  PROVE  /\ MessageInv /\ ReleaseInv /\ TurnInv /\ HandoffInv /\ TypeOK /\ OneHandoff
         /\ queue \in Seq(Entries) /\ Once(queue)
         /\ held \in [Entries -> AnyReason] /\ editors \in Seq(Tasks)
         /\ \A t \in Tasks : task[t] \in Chain
<1>1. MessageInv /\ ReleaseInv /\ TurnInv
  BY DEF WakeInv
<1>2. HandoffInv /\ TypeOK /\ OneHandoff /\ queue \in Seq(Entries) /\ Once(queue)
  BY <1>1, MessageParts DEF MessageInv, Carries
<1>3. /\ held \in [Entries -> AnyReason] /\ editors \in Seq(Tasks)
      /\ \A t \in Tasks : task[t] \in Chain
  BY <1>2, AllParts DEF FifoOK, SchedOK
<1> QED BY <1>1, <1>2, <1>3

-----------------------------------------------------------------------------
(* Nothing is owed while a chain is in the handoff, or what is owed will be *)
(* looked at.                                                               *)

LEMMA HandsIsBusy ==
  ASSUME OneHandoff, NEW t \in Tasks, Hands(task[t])
  PROVE  admission.phase # "idle"
BY HandsIsInHandoff DEF OneHandoff

LEMMA HandsKept ==
  ASSUME OneHandoff', NEW t \in Tasks, Hands(task'[t])
  PROVE  WakeKept
<1>1. InHandoff(t)'
  BY HandsIsInHandoff
<1>2. admission'.phase # "idle"
  BY <1>1 DEF OneHandoff
<1> QED BY <1>2 DEF WakeKept, Owed, MayStart

LEMMA BusyKept ==
  ASSUME \/ admission'.phase # "idle" \/ editors' # << >> \/ active' # NoTurn \/ closed'
  PROVE  WakeKept
BY DEF WakeKept, Owed, MayStart

LEMMA ArmedKept ==
  ASSUME drain' = ~closed, UNCHANGED closed
  PROVE  WakeKept
BY DEF WakeKept, Owed, MayStart, Awake

LEMMA LooksKept ==
  ASSUME NEW t \in Tasks, WillLook(task'[t])
  PROVE  WakeKept
BY DEF WakeKept, Awake

(* What the step leaves owed was owed before. *)
LEMMA SameOwed ==
  ASSUME MayStart' => MayStart, UNCHANGED <<queue, paused, gate>>, HeldGrows
  PROVE  Owed' => Owed
<1> SUFFICES ASSUME Owed' PROVE Owed
  OBVIOUS
<1>1. PICK x \in Entries : IsNext(queue, paused, x) /\ ~Held(x)' /\ ~GateHolds(x)
  BY DEF Owed, IsNext, GateHolds
<1> QED BY <1>1 DEF Owed, HeldGrows

(* What was to look at the FIFO still is. *)
StillDue ==
  /\ drain => drain'
  /\ notices \subseteq notices' /\ processed' \subseteq processed
  /\ pendingRelease => pendingRelease'

LEMMA MovedAwake ==
  ASSUME Awake, StillDue, NEW t \in Tasks, Others(t),
         WillLook(task[t]) => WillLook(task'[t]),
         pendingRelease /\ RefusedRelease(task[t]) => RefusedRelease(task'[t])
  PROVE  Awake'
<1>1. \A u \in Tasks : WillLook(task[u]) => WillLook(task'[u])
  BY DEF Others, WillLook, Looks
<1>2. pendingRelease => \A u \in Tasks : RefusedRelease(task[u]) => RefusedRelease(task'[u])
  BY DEF Others, RefusedRelease
<1>3. \A n \in notices : Heeded(n) => n \in notices' /\ Heeded(n)'
  BY DEF StillDue, Heeded
<1> QED BY <1>1, <1>2, <1>3 DEF Awake, StillDue

LEMMA RestsAwake ==
  ASSUME Awake, StillDue,
         \A u \in Tasks : /\ task'[u].pc = task[u].pc /\ task'[u].ctx = task[u].ctx
                          /\ task'[u].then = task[u].then
  PROVE  Awake'
<1>1. \A u \in Tasks : WillLook(task[u]) => WillLook(task'[u])
  BY DEF WillLook, Looks
<1>2. \A u \in Tasks : RefusedRelease(task[u]) => RefusedRelease(task'[u])
  BY DEF RefusedRelease
<1>3. \A n \in notices : Heeded(n) => n \in notices' /\ Heeded(n)'
  BY DEF StillDue, Heeded
<1> QED BY <1>1, <1>2, <1>3 DEF Awake, StillDue

(* A chain that would not have looked moves on, and nothing else changes    *)
(* but that more may be held.                                               *)
LEMMA AsideKept ==
  ASSUME WakeInv, NEW t \in Tasks, Others(t), HeldGrows, StillDue, MayStart' => MayStart,
         UNCHANGED <<queue, paused, gate>>, ~WillLook(task[t]),
         pendingRelease /\ RefusedRelease(task[t]) => RefusedRelease(task'[t])
  PROVE  WakeKept
BY SameOwed, MovedAwake DEF WakeKept, WakeInv

LEMMA NothingMovesKept ==
  ASSUME WakeInv, UNCHANGED <<queue, paused, held, gate, task>>, StillDue, MayStart' => MayStart
  PROVE  WakeKept
<1>1. HeldGrows
  BY DEF HeldGrows, Held
<1> QED BY <1>1, SameOwed, RestsAwake DEF WakeKept, WakeInv

(* What startNext looks for. *)
LEMMA NextWaitingWaits ==
  ASSUME NEW q \in Seq(Entries)
  PROVE  NextWaiting(q) # 0 => q[NextWaiting(q)] \notin paused
<1> DEFINE I == {i \in 1..Len(q) : q[i] \notin paused}
<1>1. I # {} => Min(I) \in I
  <2>1. I \in SUBSET Nat
    OBVIOUS
  <2> HIDE DEF I
  <2> QED BY <2>1, MinIn
<1>2. NextWaiting(q) = IF I # {} THEN Min(I) ELSE 0
  BY DEF NextWaiting, SelectInSeq
<1> QED BY <1>1, <1>2

LEMMA NextIsNext ==
  ASSUME NEW q \in Seq(Entries), NEW i \in 1..Len(q), q[i] \notin paused,
         \A j \in 1..(i - 1) : q[j] \in paused
  PROVE  NextWaiting(q) = i
<1>1. NextWaiting(q) \in 0..Len(q) /\ Len(q) \in Nat
  BY NextWaitingType
<1>2. NextWaiting(q) # 0
  BY NextWaitingFirst
<1>3. ~(i < NextWaiting(q))
  BY <1>1, NextWaitingFirst
<1>4. ~(NextWaiting(q) < i)
  BY <1>1, <1>2, NextWaitingWaits
<1> QED BY <1>1, <1>3, <1>4

LEMMA OwedIsDispatchable ==
  ASSUME queue \in Seq(Entries), Owed, NEW can
  PROVE  Dispatchable(can) # NoEntry
<1>1. PICK x \in Entries : IsNext(queue, paused, x) /\ ~Held(x) /\ ~GateHolds(x)
  BY DEF Owed
<1>2. PICK i \in 1..Len(queue) :
        queue[i] = x /\ x \notin paused /\ \A j \in 1..(i - 1) : queue[j] \in paused
  BY <1>1 DEF IsNext
<1>3. NextWaiting(queue) = i /\ i # 0
  BY <1>2, NextIsNext
<1>4. Dispatchable(can) = x
  BY <1>1, <1>2, <1>3 DEF Dispatchable, Owed, MayStart
<1> QED BY <1>4, EntriesAreNot

LEMMA DispatchableIsOwed ==
  ASSUME queue \in Seq(Entries), Dispatchable(FALSE) # NoEntry, ~closed
  PROVE  Owed
<1> DEFINE w == NextWaiting(queue)
<1>1. /\ admission.phase = "idle" /\ editors = << >> /\ w # 0
      /\ ~Held(queue[w]) /\ ~GateHolds(queue[w])
      /\ running = NoTurn /\ active = NoTurn
  BY DEF Dispatchable, Steerable
<1>2. w \in 1..Len(queue)
  <2>1. w \in 0..Len(queue) /\ Len(queue) \in Nat
    BY NextWaitingType
  <2> HIDE DEF w
  <2> QED BY <1>1, <2>1
<1>3. queue[w] \notin paused /\ queue[w] \in Entries
  BY <1>1, <1>2, NextWaitingWaits
<1>4. \A j \in 1..(w - 1) : queue[j] \in paused
  <2>1. \A j \in 1..Len(queue) : j < w => queue[j] \in paused
    BY NextWaitingFirst
  <2>2. Len(queue) \in Nat
    OBVIOUS
  <2> HIDE DEF w
  <2> QED BY <1>2, <2>1, <2>2
<1>5. IsNext(queue, paused, queue[w])
  BY <1>2, <1>3, <1>4 DEF IsNext
<1> QED BY <1>1, <1>3, <1>5 DEF Owed, MayStart

-----------------------------------------------------------------------------
(* The actions of one chain. *)

LEMMA ClaimKept ==
  ASSUME WakeInv, OneHandoff', NEW t \in Tasks, NEW ctx, NEW can, Claim(t, ctx, can)
  PROVE  WakeKept
BY ClaimHandoff, HandsKept, WakeParts DEF Begins

(* startNext finds nothing to start. *)
LEMMA NoneKept ==
  ASSUME WakeInv, NEW can, Dispatchable(can) = NoEntry,
         UNCHANGED <<fifo, handoff, editors, closed, provider>>
  PROVE  WakeKept
<1>1. ~Owed
  BY OwedIsDispatchable, WakeParts
<1>2. Owed' => Owed
  BY DEF Owed, MayStart, IsNext, Held, GateHolds
<1> QED BY <1>1, <1>2 DEF WakeKept

LEMMA StartNextKept ==
  ASSUME WakeInv, OneHandoff', NEW t \in Tasks, StartNext(t)
  PROVE  WakeKept
BY ClaimKept, NoneKept DEF StartNext

LEMMA FinishedKept ==
  ASSUME NEW t, Finish(t)
  PROVE  WakeKept
BY ArmedKept DEF Finish, ArmDrain

LEMMA SteerReturnsKept ==
  ASSUME NEW retry, SteerReturns(retry), UNCHANGED active
  PROVE  WakeKept
BY ArmedKept, BusyKept DEF SteerReturns

(* Where a walk, or the end of a turn, leaves its chain. *)
LEMMA WalksOn ==
  ASSUME NEW c, NEW ctx, NEW then, Walks(c, ctx, then) \/ Ended(c, ctx, then)
  PROVE  /\ then \in Later => Hands(c)
         /\ then = "next" => WillLook(c)
         /\ then = "refused" /\ ctx = "release" /\ Walks(c, ctx, then) => RefusedRelease(c)
BY DEF Walks, Ended, Hands, Later, WillLook, Looks, RefusedRelease

LEMMA WalkedKept ==
  ASSUME WakeInv, OneHandoff', NEW t \in Tasks, HoldEmitted(t) \/ TerminalEmitted(t)
  PROVE  WakeKept
<1> DEFINE then == task[t].then
<1>1. Walks(task'[t], task[t].ctx, then) /\ HeldGrows /\ Others(t)
  BY WalkedWalks, WakeParts
<1>2. task[t].pc \in {"ended", "holding"}
  BY DEF HoldEmitted, TerminalEmitted
<1>3. then \in Onward /\ (then = "refused" => task[t].ctx = "release")
  BY <1>2, ThenOfRelease, WakeParts
<1>4. CASE then \in Later \union {"next"}
  BY <1>1, <1>4, WalksOn, HandsKept, LooksKept
<1>5. CASE then \in {"idle", "refused"}
  <2>1. ~WillLook(task[t])
    BY <1>2, <1>5 DEF WillLook, Looks
  <2>2. RefusedRelease(task[t]) => RefusedRelease(task'[t])
    BY <1>1, <1>2, <1>3, <1>5, WalksOn DEF RefusedRelease
  <2>3. StillDue /\ (MayStart' => MayStart) /\ UNCHANGED <<queue, paused, gate>>
    BY DEF HoldEmitted, TerminalEmitted, StillDue, MayStart
  <2> QED BY <1>1, <2>1, <2>2, <2>3, AsideKept
<1> QED BY <1>3, <1>4, <1>5 DEF Onward, Later

LEMMA BlockedKept ==
  ASSUME WakeInv, NEW t \in Tasks, BlockEmitted(t) \/ HeldEmitted(t)
  PROVE  WakeKept
<1> DEFINE then == IF Releases(task[t]) THEN "refused" ELSE "idle"
<1>1. Walks(task'[t], task[t].ctx, then) /\ HeldGrows /\ Others(t)
  BY BlockedWalks, WakeParts
<1>2. ~WillLook(task[t])
  BY DEF BlockEmitted, HeldEmitted, WillLook, Looks
<1>3. RefusedRelease(task[t]) => RefusedRelease(task'[t])
  BY <1>1, WalksOn DEF RefusedRelease, Releases
<1>4. UNCHANGED <<queue, paused, handoff, release, sched, provider>>
  BY DEF BlockEmitted, HeldEmitted
<1>5. StillDue /\ (MayStart' => MayStart)
  BY <1>4 DEF StillDue, MayStart
<1> QED BY <1>1, <1>2, <1>3, <1>4, <1>5, AsideKept

LEMMA StartEmittedKept ==
  ASSUME WakeInv, NEW t \in Tasks, StartEmitted(t)
  PROVE  WakeKept
<1>1. CASE Finish(t)
  BY <1>1, FinishedKept
<1>2. CASE UNCHANGED admission
  <2>1. Hands(task[t])
    BY DEF StartEmitted, Hands
  <2> QED BY <1>2, <2>1, HandsIsBusy, BusyKept, WakeParts
<1> QED BY <1>1, <1>2 DEF StartEmitted

LEMMA ReleaseRefusedKept ==
  ASSUME WakeInv, NEW t \in Tasks, ReleaseRefused(t)
  PROVE  WakeKept
<1>1. CASE pendingRelease
  <2>1. Walks(task'[t], "release", "next") \/ Ended(task'[t], "release", "next")
    BY <1>1, ReleaseRefusedWalks, WakeParts
  <2> QED BY <2>1, WalksOn, LooksKept
<1>2. CASE ~pendingRelease
  <2>1. /\ task' = [task EXCEPT ![t] = IdleTask]
        /\ UNCHANGED <<held, running, processed, admission, active, notices, drain>>
        /\ UNCHANGED <<queue, paused, gate, editors, closed>>
    BY <1>2 DEF ReleaseRefused
  <2>2. Others(t)
    BY <2>1, OnlyOne, WakeParts
  <2>3. HeldGrows
    BY <2>1 DEF HeldGrows, Held
  <2>4. ~WillLook(task[t])
    BY DEF ReleaseRefused, WillLook, Looks
  <2>5. StillDue /\ (MayStart' => MayStart)
    BY <1>2, <2>1 DEF StillDue, MayStart
  <2> QED BY <1>2, <2>1, <2>2, <2>3, <2>4, <2>5, AsideKept
<1> QED BY <1>1, <1>2

LEMMA RemoveFirstRest ==
  ASSUME NEW S, NEW s \in Seq(S), NEW e
  PROVE  Len(s) > 1 => RemoveFirst(s, e) # << >>
<1> DEFINE I == {i \in 1..Len(s) : s[i] = e}
<1>1. I # {} => Min(I) \in I
  <2>1. I \in SUBSET Nat
    OBVIOUS
  <2> HIDE DEF I
  <2> QED BY <2>1, MinIn
<1>2. RemoveFirst(s, e) = IF I # {} THEN RemoveAt(s, Min(I)) ELSE s
  BY DEF RemoveFirst, SelectInSeq
<1>3. I # {} => Len(RemoveAt(s, Min(I))) = Len(s) - 1
  <2>1. I # {} => Min(I) \in 1..Len(s)
    BY <1>1
  <2> HIDE DEF I
  <2> QED BY <2>1, RemoveAtType
<1>4. Len(s) \in Nat
  OBVIOUS
<1> HIDE DEF I
<1>5. Len(s) > 1 => Len(RemoveFirst(s, e)) >= 1
  BY <1>2, <1>3, <1>4
<1> QED BY <1>5

(* An edit that ends arms the drain, unless another edit waits. *)
LEMMA LeavesKept ==
  ASSUME WakeInv, NEW t \in Tasks, NEW c, editors # << >>, LeaveEdit(t, c)
  PROVE  WakeKept
<1>1. CASE Len(editors) = 1
  BY <1>1, ArmedKept DEF LeaveEdit
<1>2. CASE Len(editors) # 1
  <2>1. Len(editors) > 1
    <3>1. editors \in Seq(Tasks)
      BY WakeParts
    <3>2. Len(editors) \in Nat /\ Len(editors) # 0
      BY <3>1
    <3>3. \A k \in Nat : k # 0 /\ k # 1 => k > 1
      OBVIOUS
    <3> QED BY <1>2, <3>2, <3>3
  <2>2. editors' # << >>
    BY <2>1, RemoveFirstRest, WakeParts DEF LeaveEdit
  <2> QED BY <2>2, BusyKept
<1> QED BY <1>1, <1>2

LEMMA EditKept ==
  ASSUME WakeInv, NEW t \in Tasks,
         \/ MoveEntry(t) \/ PauseEntry(t) \/ ResumeEntry(t) \/ InputEdited(t) \/ SubmitSteer(t)
         \/ SteerLeaves(t, "left") \/ SteerLeaves(t, "leaving")
  PROVE  WakeKept
<1>1. CASE MoveEntry(t) \/ PauseEntry(t) \/ ResumeEntry(t) \/ InputEdited(t)
  BY <1>1, LeavesKept DEF MoveEntry, PauseEntry, ResumeEntry, InputEdited, MayEdit
<1>2. CASE SubmitSteer(t)
  BY <1>2, BusyKept DEF SubmitSteer, MayEdit
<1>3. ASSUME NEW pc \in {"left", "leaving"}, SteerLeaves(t, pc)  PROVE WakeKept
  <2>1. CASE editors # << >>
    BY <1>3, <2>1, LeavesKept DEF SteerLeaves
  <2>2. CASE editors = << >>
    <3>1. /\ task' = [task EXCEPT ![t] = IdleTask] /\ UNCHANGED <<drain, closed>>
          /\ UNCHANGED <<queue, paused, held, gate, admission, running, active>>
          /\ UNCHANGED <<processed, notices, pendingRelease>>
      BY <1>3, <2>2 DEF SteerLeaves, LeaveEdit
    <3>2. Others(t)
      BY <3>1, OnlyOne, WakeParts
    <3>3. HeldGrows
      BY <3>1 DEF HeldGrows, Held
    <3>4. ~WillLook(task[t]) /\ ~RefusedRelease(task[t])
      BY <1>3 DEF SteerLeaves, WillLook, Looks, RefusedRelease
    <3>5. StillDue /\ (MayStart' => MayStart)
      BY <2>2, <3>1 DEF StillDue, MayStart
    <3> QED BY <3>1, <3>2, <3>3, <3>4, <3>5, AsideKept
  <2> QED BY <2>1, <2>2
<1> QED BY <1>1, <1>2, <1>3

LEMMA UnholdKept ==
  ASSUME WakeInv, NEW t \in Tasks,
         ClearQueueHold(t) \/ ClearEmitted(t) \/ ReleaseHold(t) \/ UnlockEmitted(t)
  PROVE  WakeKept
<1>1. CASE ClearQueueHold(t) \/ ClearEmitted(t)
  BY <1>1, ClearMoves, LooksKept, WakeParts DEF WillLook, Looks
<1>2. CASE ReleaseHold(t) \/ UnlockEmitted(t)
  <2>1. task'[t].pc = "unlocking" \/ ArmDrain
    BY <1>2, UnlockMoves, WakeParts
  <2>2. UNCHANGED closed
    BY <1>2 DEF ReleaseHold, UnlockEmitted, UnlockOnward
  <2> QED BY <2>1, <2>2, LooksKept, ArmedKept DEF WillLook, ArmDrain
<1> QED BY <1>1, <1>2

LEMMA AnswerKept ==
  ASSUME WakeInv, NEW t \in Tasks, Answer(t)
  PROVE  WakeKept
<1>1. task[t].pc \in {"starting", "steering"} => admission.phase # "idle"
  BY HandsIsBusy, WakeParts DEF Hands
<1>2. CASE StartAcknowledged(t) \/ SteerAccepted(t)
  <2>1. admission.phase # "idle" /\ \E turn : admission' = Acknowledge(admission, t, turn)
    BY <1>1, <1>2 DEF StartAcknowledged, SteerAccepted
  <2>2. admission \in Admission
    BY AllParts, WakeParts
  <2>3. admission'.phase # "idle"
    BY <2>1, <2>2, AcknowledgeSame
  <2> QED BY <2>3, BusyKept
<1>3. CASE DirectStartRejected(t)
  BY <1>1, <1>3, BusyKept DEF DirectStartRejected, Refuse
<1>4. ASSUME NEW r, QueuedStartRejected(t, r)  PROVE WakeKept
  BY <1>4, FinishedKept DEF QueuedStartRejected
<1>5. ASSUME NEW r, SteerRejected(t, r)  PROVE WakeKept
  BY <1>5, SteerReturnsKept DEF SteerRejected
<1>6. ASSUME NEW retry, SteerDeclined(t, retry)  PROVE WakeKept
  <2>1. task[t].pc = "steering"
    <3>1. [task[t] EXCEPT !.early = retry, !.rev = 0].pc = task[t].pc
      BY WakeParts DEF Chain
    <3> QED BY <1>6, <3>1 DEF SteerDeclined
  <2>2. UNCHANGED admission \/ (SteerReturns(retry) /\ UNCHANGED active)
    BY <1>6 DEF SteerDeclined
  <2> QED BY <1>1, <2>1, <2>2, BusyKept, SteerReturnsKept
<1> QED BY <1>2, <1>3, <1>4, <1>5, <1>6 DEF Answer

LEMMA ProceedKept ==
  ASSUME WakeInv, OneHandoff', NEW t \in Tasks, Proceed(t)
  PROVE  WakeKept
BY StartNextKept, FinishedKept, SteerReturnsKept, ReleaseRefusedKept, EditKept, UnholdKept
   DEF Proceed, StartFinished, SteerBack

LEMMA EmittedKept ==
  ASSUME WakeInv, OneHandoff', NEW t \in Tasks, Emitted(t)
  PROVE  WakeKept
BY WalkedKept, BlockedKept, StartEmittedKept, FinishedKept, EditKept, UnholdKept
   DEF Emitted, FailureEmitted, SteerEmitted

-----------------------------------------------------------------------------
(* What the backend reports, and what is submitted or cancelled. *)

(* The chain of the release under way will look, is in the handoff, or was  *)
(* refused. *)
LEMMA ReleaserIs ==
  ASSUME WakeInv, releasing
  PROVE  \E t \in Tasks :
           WillLook(task[t]) \/ admission.phase # "idle" \/ RefusedRelease(task[t])
<1>1. PICK t \in Tasks : Releases(task[t])
  BY WakeParts, ReleaseParts DEF Releasers
<1>2. Looks(task[t]) \/ RefusedRelease(task[t]) \/ Hands(task[t])
  BY <1>1, WakeParts, ReleaseParts DEF Proper
<1> QED BY <1>2, HandsIsBusy, WakeParts DEF WillLook

LEMMA ReportKept ==
  ASSUME WakeInv, NEW n \in notices, Report(n), ~OutcomeDropped
  PROVE  WakeKept
<1>1. CASE ReleaseBuffered(n)
  <2>1. admission \in Admission
    BY AllParts, WakeParts
  <2>2. admission'.phase # "idle"
    BY <1>1, <2>1 DEF ReleaseBuffered, Buffers, RecordTerminal, Admission
  <2> QED BY <2>2, BusyKept
<1>2. CASE ReleaseIgnored(n)
  <2>1. /\ notices' = notices \ {n}
        /\ UNCHANGED <<queue, paused, held, gate, task, drain, processed, pendingRelease>>
        /\ UNCHANGED <<closed, admission, editors, running, active, releasing>>
    BY <1>2 DEF ReleaseIgnored, Take
  <2>2. Owed' => Owed
    BY <2>1 DEF Owed, MayStart, IsNext, Held, GateHolds
  <2>3. CASE n.turn \in processed
    <3>1. ~Heeded(n)
      BY <1>2, <2>3 DEF ReleaseIgnored, Heeded
    <3>2. Awake => Awake'
      BY <2>1, <3>1 DEF Awake, Heeded
    <3> QED BY <2>2, <3>2 DEF WakeKept, WakeInv
  <2>4. CASE n.turn \notin processed /\ OfOtherTurn(n)
    <3>1. running' # NoTurn
      BY <2>1, <2>4 DEF OfOtherTurn
    <3> QED BY <3>1 DEF WakeKept, Owed, MayStart
  <2>5. CASE n.turn \notin processed /\ ~OfOtherTurn(n)
    <3>1. releasing
      BY <1>2, <2>5 DEF ReleaseIgnored
    <3>2. PICK t \in Tasks :
            WillLook(task[t]) \/ admission.phase # "idle" \/ RefusedRelease(task[t])
      BY <3>1, ReleaserIs
    <3>3. ~RefusedRelease(task[t])
      BY <1>2, <2>5 DEF OutcomeDropped
    <3> QED BY <2>1, <3>2, <3>3, LooksKept, BusyKept
  <2> QED BY <2>3, <2>4, <2>5
<1>3. CASE ReleaseCoalesced(n)
  <2>1. PICK t \in Tasks :
          WillLook(task[t]) \/ admission.phase # "idle" \/ RefusedRelease(task[t])
    BY <1>3, ReleaserIs DEF ReleaseCoalesced
  <2>2. UNCHANGED <<task, admission>> /\ pendingRelease'
    BY <1>3 DEF ReleaseCoalesced
  <2>3. CASE RefusedRelease(task[t])
    BY <2>2, <2>3 DEF WakeKept, Awake
  <2> QED BY <2>1, <2>2, <2>3, LooksKept, BusyKept
<1>4. ASSUME NEW t \in Tasks, Release(t, n)  PROVE WakeKept
  <2>1. Walks(task'[t], "release", "next") \/ Ended(task'[t], "release", "next")
    BY <1>4, ReportedRelease, WakeParts
  <2> QED BY <2>1, WalksOn, LooksKept
<1> QED BY <1>1, <1>2, <1>3, <1>4 DEF Report

(* An entry that comes to the back. *)
LEMMA AppendedNext ==
  ASSUME NEW q \in Seq(Entries), NEW P, NEW e \in Entries, NEW x, IsNext(Append(q, e), P, x)
  PROVE  \/ IsNext(q, P, x)
         \/ x = e /\ e \notin P /\ \A j \in 1..Len(q) : q[j] \in P
<1> DEFINE r == Append(q, e)
<1>1. Len(q) \in Nat /\ Len(r) = Len(q) + 1 /\ r[Len(q) + 1] = e /\ \A j \in 1..Len(q) : r[j] = q[j]
  OBVIOUS
<1> HIDE DEF r
<1>2. PICK i \in 1..Len(r) : r[i] = x /\ x \notin P /\ \A j \in 1..(i - 1) : r[j] \in P
  BY DEF IsNext, r
<1>3. CASE i \in 1..Len(q)
  <2>1. \A j \in 1..(i - 1) : q[j] \in P
    BY <1>1, <1>2, <1>3
  <2> QED BY <1>1, <1>2, <1>3, <2>1 DEF IsNext
<1>4. CASE i = Len(q) + 1
  <2>1. \A j \in 1..Len(q) : q[j] \in P
    BY <1>1, <1>2, <1>4
  <2> QED BY <1>1, <1>2, <1>4, <2>1
<1> QED BY <1>1, <1>2, <1>3, <1>4

LEMMA FreshIsNowhere ==
  ASSUME MessageInv, NEW e \in Entries, fate[e] \in Fresh
  PROVE  e \notin Waiting(queue)
<1>1. Sound(Waiting(queue) \union Asked(task), batch, fate)
  BY DEF MessageInv, Carries
<1>2. e \notin Waiting(queue) \union Asked(task)
  BY <1>1, FreshIsNotLive DEF Fresh
<1> QED BY <1>2

LEMMA EnqueueKept ==
  ASSUME WakeInv, NEW e \in Entries, Enqueue(e)
  PROVE  WakeKept
<1> SUFFICES ASSUME Owed' PROVE Awake'
  BY DEF WakeKept
<1>1. PICK x \in Entries : IsNext(queue', paused', x) /\ ~Held(x)' /\ ~GateHolds(x)'
  BY DEF Owed
<1>2. /\ queue' = Append(queue, e) /\ held' = [held EXCEPT ![e] = NewestReason]
      /\ UNCHANGED <<paused, gate, admission, editors, running, active, closed, reasons>>
      /\ UNCHANGED <<task, drain, notices, processed, pendingRelease>>
  BY DEF Enqueue
<1>3. MayStart /\ ~GateHolds(x)
  BY <1>1, <1>2 DEF Owed, MayStart, GateHolds
<1>4. CASE x = e /\ \A j \in 1..Len(queue) : queue[j] \in paused
  <2>1. ~HasWaiting
    <3>1. NextWaiting(queue) \in 0..Len(queue) /\ Len(queue) \in Nat
      BY NextWaitingType, WakeParts
    <3>2. NextWaiting(queue) # 0 => queue[NextWaiting(queue)] \notin paused
      BY NextWaitingWaits, WakeParts
    <3> QED BY <1>4, <3>1, <3>2 DEF HasWaiting
  <2>2. NewestReason = NoReason
    BY <1>1, <1>2, <1>4, WakeParts DEF Held
  <2>3. reasons = << >>
    BY <2>2, NewestReasonType, WakeParts DEF Reasons, NoReason
  <2>4. CanStartImmediately(e)
    BY <1>3, <1>4, <2>1, <2>3 DEF CanStartImmediately, MayStart
  <2> QED BY <2>4 DEF Enqueue
<1>5. CASE IsNext(queue, paused, x) /\ x # e
  <2>1. ~Held(x)
    BY <1>1, <1>2, <1>5, WakeParts DEF Held
  <2>2. Owed
    BY <1>3, <1>5, <2>1 DEF Owed
  <2> QED BY <1>2, <2>2, RestsAwake DEF StillDue, WakeInv
<1>6. CASE IsNext(queue, paused, e)
  <2>1. e \in Waiting(queue)
    BY <1>6 DEF IsNext, Waiting
  <2>2. e \notin Waiting(queue)
    BY FreshIsNowhere, WakeParts DEF Enqueue, Unsent, Fresh
  <2> QED BY <2>1, <2>2
<1>7. \/ IsNext(queue, paused, x)
      \/ x = e /\ \A j \in 1..Len(queue) : queue[j] \in paused
  BY <1>1, <1>2, AppendedNext, WakeParts
<1> QED BY <1>4, <1>5, <1>6, <1>7

LEMMA ProjectHeldKept ==
  ASSUME WakeInv, NEW e \in Entries, SubmitProjectHeld(e)
  PROVE  WakeKept
<1> SUFFICES ASSUME Owed' PROVE Awake'
  BY DEF WakeKept
<1>1. PICK x \in Entries : IsNext(queue', paused', x) /\ ~Held(x)' /\ ~GateHolds(x)'
  BY DEF Owed
<1>2. /\ queue' = Append(queue, e) /\ paused' = paused \union {e}
      /\ UNCHANGED <<held, gate, admission, editors, running, active, closed>>
      /\ UNCHANGED <<task, drain, notices, processed, pendingRelease>>
  BY DEF SubmitProjectHeld
<1>3. MayStart /\ ~GateHolds(x) /\ ~Held(x)
  BY <1>1, <1>2 DEF Owed, MayStart, GateHolds, Held
<1>4. IsNext(queue, paused', x)
  BY <1>1, <1>2, AppendedNext, WakeParts
<1>5. e \notin Waiting(queue)
  BY FreshIsNowhere, WakeParts DEF SubmitProjectHeld, Unsent, Fresh
<1>6. IsNext(queue, paused, x)
  <2>1. PICK i \in 1..Len(queue) :
          queue[i] = x /\ x \notin paused' /\ \A j \in 1..(i - 1) : queue[j] \in paused'
    BY <1>4 DEF IsNext
  <2>2. \A j \in 1..(i - 1) : queue[j] # e
    <3>1. \A j \in 1..(i - 1) : j \in 1..Len(queue)
      OBVIOUS
    <3> QED BY <1>5, <3>1 DEF Waiting
  <2> QED BY <1>2, <2>1, <2>2 DEF IsNext
<1>7. Owed
  BY <1>3, <1>6 DEF Owed
<1> QED BY <1>2, <1>7, RestsAwake DEF StillDue, WakeInv

LEMMA SubmitHeldKept ==
  ASSUME WakeInv, NEW t \in Tasks, NEW e \in Entries, NEW r \in {"lock", "review"},
         SubmitHeld(t, e, r)
  PROVE  WakeKept
<1> SUFFICES ASSUME Owed' PROVE Awake'
  BY DEF WakeKept
<1> DEFINE p == PlaceOfHeld
<1>1. PICK x \in Entries : IsNext(queue', paused', x) /\ ~Held(x)' /\ ~GateHolds(x)'
  BY DEF Owed
<1>2. /\ queue' = InsertAt(queue, p, e) /\ held' = [held EXCEPT ![e] = r]
      /\ UNCHANGED <<paused, gate, admission, editors, running, active, closed>>
      /\ UNCHANGED <<drain, notices, processed, pendingRelease>>
      /\ task[t].pc = "idle"
  BY DEF SubmitHeld, Free
<1>3. r # NoReason
  BY DEF NoReason
<1>4. x # e /\ ~Held(x)
  BY <1>1, <1>2, <1>3, WakeParts DEF Held
<1>5. MayStart /\ ~GateHolds(x)
  BY <1>1, <1>2 DEF Owed, MayStart, GateHolds
<1>6. Len(queue) \in Nat /\ p \in 1..(Len(queue) + 1)
  <2>1. Len(queue) \in Nat
    BY WakeParts
  <2> QED BY <2>1, PlaceOfHeldType, WakeParts
<1> HIDE DEF p
<1>7. InsertLaw(queue, e, p, queue')
  BY <1>2, <1>6, InsertAtLaw, WakeParts
<1>8. IsNext(queue, paused, x)
  <2>1. PICK i \in 1..Len(queue') :
          queue'[i] = x /\ x \notin paused /\ \A j \in 1..(i - 1) : queue'[j] \in paused
    BY <1>1, <1>2 DEF IsNext
  <2>2. i \in 1..(Len(queue) + 1) /\ i # p
    BY <1>4, <1>6, <1>7, <2>1 DEF InsertLaw
  <2>3. CASE i < p
    <3>1. i \in 1..Len(queue) /\ queue[i] = x /\ \A j \in 1..(i - 1) : queue[j] = queue'[j]
      BY <1>6, <1>7, <2>1, <2>2, <2>3 DEF InsertLaw
    <3> QED BY <2>1, <3>1 DEF IsNext
  <2>4. CASE p < i
    <3>1. i - 1 \in 1..Len(queue) /\ queue[i - 1] = x
      BY <1>6, <1>7, <2>1, <2>2, <2>4 DEF InsertLaw
    <3>2. ASSUME NEW j \in 1..((i - 1) - 1)  PROVE queue[j] \in paused
      <4>1. CASE j < p
        <5>1. j \in 1..(i - 1) /\ queue[j] = queue'[j]
          BY <1>6, <1>7, <2>2, <4>1 DEF InsertLaw
        <5> QED BY <2>1, <5>1
      <4>2. CASE j >= p
        <5>1. j + 1 \in 1..(i - 1) /\ queue[j] = queue'[j + 1]
          BY <1>6, <1>7, <2>2, <4>2 DEF InsertLaw
        <5> QED BY <2>1, <5>1
      <4> QED BY <1>6, <2>2, <4>1, <4>2
    <3> QED BY <2>1, <3>1, <3>2 DEF IsNext
  <2> QED BY <1>6, <2>2, <2>3, <2>4
<1>9. Owed
  BY <1>4, <1>5, <1>8 DEF Owed
<1>10. Others(t)
  BY SubmitHeldHandoff, WakeParts DEF Moves
<1>11. ~WillLook(task[t]) /\ ~RefusedRelease(task[t])
  BY <1>2 DEF WillLook, Looks, RefusedRelease
<1> QED BY <1>2, <1>9, <1>10, <1>11, MovedAwake DEF StillDue, WakeInv

(* An entry behind the one that is cancelled, or ahead of it, was the next  *)
(* to start before, unless the cancelled one was.                           *)
LEMMA CancelledNext ==
  ASSUME NEW q \in Seq(Entries), Once(q), NEW w \in 1..Len(q), NEW x \in Entries,
         IsNext(RemoveAt(q, w), paused \ {q[w]}, x)
  PROVE  \/ IsNext(q, paused, x) /\ x # q[w]
         \/ NextWaiting(q) = w
<1> DEFINE r == RemoveAt(q, w)
<1>1. RemoveLaw(q, w, r) /\ Len(q) \in Nat
  BY RemoveAtLaw
<1>2. PICK i \in 1..Len(r) :
        r[i] = x /\ x \notin paused \ {q[w]} /\ \A j \in 1..(i - 1) : r[j] \in paused \ {q[w]}
  BY DEF IsNext
<1> HIDE DEF r
<1>3. Len(r) = Len(q) - 1 /\ \A k \in 1..(Len(q) - 1) : r[k] = IF k < w THEN q[k] ELSE q[k + 1]
  BY <1>1 DEF RemoveLaw
<1>4. CASE i < w
  <2>1. i \in 1..Len(q) /\ q[i] = x
    BY <1>1, <1>2, <1>3, <1>4
  <2>2. q[i] # q[w]
    BY <1>4, <2>1 DEF Once
  <2>3. \A j \in 1..(i - 1) : q[j] \in paused
    BY <1>1, <1>2, <1>3, <1>4
  <2> QED BY <1>2, <2>1, <2>2, <2>3 DEF IsNext
<1>5. CASE i >= w
  <2>1. i + 1 \in 1..Len(q) /\ i + 1 # w /\ q[i + 1] = x
    BY <1>1, <1>2, <1>3, <1>5
  <2>2. x # q[w]
    BY <2>1 DEF Once
  <2>3. \A j \in 1..(w - 1) : q[j] \in paused
    BY <1>1, <1>2, <1>3, <1>5
  <2>4. CASE q[w] \in paused
    <3>1. ASSUME NEW j \in 1..((i + 1) - 1)  PROVE q[j] \in paused
      <4>1. CASE j < w
        BY <2>3, <4>1
      <4>2. CASE j > w
        <5>1. j - 1 \in 1..(i - 1) /\ q[j] = r[j - 1]
          BY <1>1, <1>2, <1>3, <4>2
        <5> QED BY <1>2, <5>1
      <4> QED BY <2>4, <4>1, <4>2
    <3> QED BY <1>2, <2>1, <2>2, <3>1 DEF IsNext
  <2>5. CASE q[w] \notin paused
    BY <2>3, <2>5, NextIsNext
  <2> QED BY <2>4, <2>5
<1> QED BY <1>1, <1>2, <1>3, <1>4, <1>5

LEMMA CancelKept ==
  ASSUME WakeInv, NEW e \in Entries, CancelEntry(e), ~NextCancelled
  PROVE  WakeKept
<1> DEFINE w == IndexOf(queue, e)
           q == RemoveAt(queue, w)
<1>1. /\ InQueue(e) /\ queue' = q /\ task' = Detached(task, q) /\ paused' = paused \ {e}
      /\ held' = [held EXCEPT ![e] = NoReason]
      /\ drain' = (IF w = 1 /\ q # << >> THEN ~closed ELSE drain)
      /\ UNCHANGED <<gate, admission, editors, running, active, closed>>
      /\ UNCHANGED <<notices, processed, pendingRelease>>
  BY DEF CancelEntry
<1>2. w \in 1..Len(queue) /\ queue[w] = e
  <2>1. \E k \in 1..Len(queue) : queue[k] = e
    BY <1>1, WakeParts DEF InQueue, Contains
  <2> QED BY <2>1, IndexOfType, WakeParts
<1>3. \A u \in Tasks : /\ task'[u].pc = task[u].pc /\ task'[u].ctx = task[u].ctx
                       /\ task'[u].then = task[u].then
  BY <1>1, DetachedType, AllParts, WakeParts
<1>4. CASE w = 1 /\ q # << >>
  BY <1>1, <1>4, ArmedKept
<1>5. CASE ~(w = 1 /\ q # << >>)
  <2> SUFFICES ASSUME Owed' PROVE Awake'
    BY DEF WakeKept
  <2>1. PICK x \in Entries : IsNext(queue', paused', x) /\ ~Held(x)' /\ ~GateHolds(x)'
    BY DEF Owed
  <2>2. IsNext(q, paused \ {queue[w]}, x)
    BY <1>1, <1>2, <2>1
  <2>3. q # << >>
    BY <2>2 DEF IsNext
  <2> HIDE DEF q
  <2>4. NextWaiting(queue) # w
    <3>1. CancelEntry(queue[w]) /\ w > 1
      BY <1>2, <1>5, <2>3
    <3> QED BY <3>1 DEF NextCancelled
  <2>5. IsNext(queue, paused, x) /\ x # e
    BY <1>2, <2>2, <2>4, CancelledNext, WakeParts DEF q
  <2>6. ~Held(x) /\ MayStart /\ ~GateHolds(x)
    BY <1>1, <2>1, <2>5, WakeParts DEF Held, Owed, MayStart, GateHolds
  <2>7. Owed
    BY <2>5, <2>6 DEF Owed
  <2>8. StillDue
    BY <1>1, <1>5 DEF StillDue
  <2> QED BY <1>3, <2>7, <2>8, RestsAwake DEF WakeInv
<1> QED BY <1>4, <1>5

LEMMA SubmissionKept ==
  ASSUME WakeInv, OneHandoff', Submission, ~NextCancelled
  PROVE  WakeKept
<1>1. ASSUME NEW t \in Tasks, NEW e \in Entries, StartNow(t, e)  PROVE WakeKept
  BY <1>1, StartNowHandoff, HandsKept, WakeParts DEF Begins
<1>2. ASSUME NEW t \in Tasks, NEW e \in Entries, EditsEntry(t, e) \/ EditsSteer(t, e) \/ Retry(t, e)
      PROVE  WakeKept
  <2>1. editors' = Append(editors, t)
    BY <1>2 DEF EditsEntry, EditsSteer, Retry, EnterEdit
  <2>2. editors' # << >>
    BY <2>1, WakeParts
  <2> QED BY <2>2, BusyKept
<1>3. CASE ScheduleThreadDrain \/ Close
  BY <1>3, ArmedKept, BusyKept DEF ScheduleThreadDrain, ArmDrain, Close
<1>4. ASSUME NEW e \in Entries, EditInput(e)  PROVE WakeKept
  BY <1>4, NothingMovesKept DEF EditInput, StillDue, MayStart
<1> QED BY <1>1, <1>2, <1>3, <1>4, EnqueueKept, ProjectHeldKept, CancelKept, SubmitHeldKept, UnholdKept
        DEF Submission

LEMMA DrainKept ==
  ASSUME WakeInv, OneHandoff', DrainFires
  PROVE  WakeKept
<1>1. ASSUME NEW can, NEW t \in Tasks, Claim(t, "drain", can)  PROVE WakeKept
  BY <1>1, ClaimKept
<1>2. ASSUME NEW can, Dispatchable(can) = NoEntry,
             UNCHANGED <<fifo, hold, handoff, release, task, provider, history>>
      PROVE  WakeKept
  BY <1>2, NoneKept DEF DrainFires
<1> QED BY <1>1, <1>2 DEF DrainFires

(* The backend reports an end, or an idle thread, that releaseThread will   *)
(* take.                                                                    *)
LEMMA HeededKept ==
  ASSUME NEW n \in notices', Heeded(n)'
  PROVE  WakeKept
BY DEF WakeKept, Awake

LEMMA BackendKept ==
  ASSUME WakeInv, Backend
  PROVE  WakeKept
<1>1. ASSUME NEW t \in Tasks, TurnBegins(t)  PROVE WakeKept
  <2>1. Hands(task[t]) /\ UNCHANGED admission
    BY <1>1 DEF TurnBegins, Hands
  <2> QED BY <2>1, HandsIsBusy, BusyKept, WakeParts
<1>2. CASE ExternalTurnBegins
  <2>1. starts[NoEntry] \in Nat /\ starts'[NoEntry] = starts[NoEntry] + 1
    <3>1. starts \in [AnyEntry -> Nat] /\ NoEntry \in AnyEntry
      BY TurnParts, WakeParts DEF AnyEntry
    <3> QED BY <1>2, <3>1 DEF ExternalTurnBegins
  <2>2. active' # NoTurn
    BY <1>2, <2>1 DEF ExternalTurnBegins, NoTurn
  <2> QED BY <2>2, BusyKept
<1>3. ASSUME NEW s, TurnEnds(s)  PROVE WakeKept
  <2>1. active # NoTurn => active \notin processed
    BY WakeParts DEF TurnInv, TurnsKnown, Seen
  <2>2. PICK n \in notices' : n.turn = active
    <3>1. [turn |-> active, status |-> s] \in notices'
      BY <1>3 DEF TurnEnds, Notify
    <3>2. [turn |-> active, status |-> s].turn = active
      OBVIOUS
    <3> QED BY <3>1, <3>2
  <2>3. active # NoTurn /\ UNCHANGED processed
    BY <1>3 DEF TurnEnds, Notify
  <2>4. Heeded(n)'
    BY <2>1, <2>2, <2>3 DEF Heeded
  <2> QED BY <2>4, HeededKept
<1>4. CASE IdleReported
  <2>1. IdleReport \in notices' /\ Heeded(IdleReport)'
    BY <1>4 DEF IdleReported, Notify, IdleReport, Heeded
  <2> QED BY <2>1, HeededKept
<1>5. ASSUME NEW turn, OutcomeRepeated(turn)  PROVE WakeKept
  <2>1. UNCHANGED <<queue, paused, held, gate, task>>
    BY <1>5 DEF OutcomeRepeated, Notify
  <2>2. StillDue /\ (MayStart' => MayStart)
    BY <1>5 DEF OutcomeRepeated, Notify, StillDue, MayStart
  <2> QED BY <2>1, <2>2, NothingMovesKept
<1> QED BY <1>1, <1>2, <1>3, <1>4, <1>5 DEF Backend

LEMMA GateKept ==
  ASSUME GateDue \/ GateOpens \/ GateQuiets
  PROVE  WakeKept
<1>1. CASE gate' = "quieting"
  <2>1. \A x \in Entries : GateHolds(x)'
    BY <1>1 DEF GateHolds
  <2> QED BY <2>1 DEF WakeKept, Owed
<1>2. CASE ArmDrain /\ UNCHANGED closed
  BY <1>2, ArmedKept DEF ArmDrain
<1> QED BY <1>1, <1>2 DEF GateDue, GateOpens, GateQuiets, GateMoves

-----------------------------------------------------------------------------
LEMMA WakeInit == Init => WakeInv
<1> SUFFICES ASSUME Init PROVE WakeInv
  OBVIOUS
<1>1. MessageInv /\ ReleaseInv /\ TurnInv
  BY MessageInit, ReleaseInit, TurnsInit
<1>2. CASE Continuations # {}
  BY <1>1, <1>2 DEF Init, Owed, GateHolds, WakeInv
<1>3. CASE Continuations = {}
  <2>1. Cardinality(Continuations) = 0
    BY <1>3, FS_EmptySet
  <2>2. queue = << >>
    BY <2>1 DEF Init
  <2> QED BY <1>1, <2>2 DEF Owed, IsNext, WakeInv
<1> QED BY <1>2, <1>3

LEMMA WakeNext ==
  WakeInv /\ [Next /\ ~OutcomeDropped /\ ~NextCancelled]_vars => WakeInv'
<1> SUFFICES ASSUME WakeInv, [Next /\ ~OutcomeDropped /\ ~NextCancelled]_vars  PROVE WakeInv'
  OBVIOUS
<1>1. MessageInv' /\ ReleaseInv' /\ TurnInv'
  BY WakeParts, MessageNext, ReleaseNext, TurnsNext
<1>2. OneHandoff'
  BY <1>1 DEF TurnInv, HandoffInv
<1>3. CASE UNCHANGED vars
  <2>1. UNCHANGED <<queue, paused, held, gate, task>>
    BY <1>3 DEF vars
  <2>2. StillDue /\ (MayStart' => MayStart)
    BY <1>3 DEF vars, StillDue, MayStart
  <2> QED BY <1>1, <2>1, <2>2, NothingMovesKept DEF WakeInv, WakeKept
<1>4. CASE Next /\ ~OutcomeDropped /\ ~NextCancelled
  <2>1. WakeKept
    BY <1>2, <1>4, ProceedKept, SubmissionKept, EmittedKept, AnswerKept, ReportKept,
       DrainKept, BackendKept, GateKept DEF Next
  <2> QED BY <1>1, <2>1 DEF WakeInv, WakeKept
<1> QED BY <1>3, <1>4

(* No wake-up is lost: when no chain is under way, no report is on its way   *)
(* and no drain is due, startNext would find nothing to start.  Every        *)
(* operation that frees an entry leaves a drain (scheduleDrain), a chain     *)
(* that will call startNext, or a report that releaseThread will take; the   *)
(* two interleavings in which one is lost are excluded: an outcome dropped   *)
(* for a release whose start was refused, and a cancelEntry that takes the   *)
(* next entry to start from behind a paused head.                            *)
THEOREM NoWakeUpIsLost == AttentiveSpec => []NothingForgotten
<1>1. Init => WakeInv
  BY WakeInit
<1>2. WakeInv /\ [Next /\ ~OutcomeDropped /\ ~NextCancelled]_vars => WakeInv'
  BY WakeNext
<1>3. WakeInv => NothingForgotten
  <2> SUFFICES ASSUME WakeInv, Quiet, notices = {}, ~drain, ~closed
               PROVE  Dispatchable(FALSE) = NoEntry
    BY DEF NothingForgotten
  <2>1. \A t \in Tasks : ~WillLook(task[t]) /\ ~RefusedRelease(task[t])
    BY DEF Quiet, Free, WillLook, Looks, RefusedRelease
  <2>2. ~Awake
    BY <2>1 DEF Awake
  <2> QED BY <2>2, DispatchableIsOwed, WakeParts DEF WakeInv
<1> QED BY <1>1, <1>2, <1>3, PTL DEF AttentiveSpec

-----------------------------------------------------------------------------
(* What the walk of a hold has passed is held. *)

(* All entries of q before n are held, and n is no further than its end.    *)
Through(n, q, h) ==
  n <= Len(q) + 1 /\ \A j \in 1..Len(q) : j < n => h[q[j]] # NoReason

WalkInv ==
  /\ MessageInv /\ ReleaseInv
  /\ \A t \in Tasks : task[t].pc = "holding" => Through(task[t].i, queue, held)

(* A chain that walks is where it was, or its array was dropped; or it goes *)
(* on from there or from the start.                                         *)
Stands(u) ==
  task'[u].pc = "holding" => task[u].pc = "holding" /\ task'[u].i \in {task[u].i, 0}

Advances(t) ==
  \E tk \in Chain :
    /\ tk.reason \in Reasons /\ HoldOnward(t, tk, queue')
    /\ tk.i = 1 \/ (task[t].pc = "holding" /\ tk.i = task[t].i)

WalkStep == \A u \in Tasks : Stands(u) \/ Advances(u)

(* No chain but t goes on. *)
Alone(t) == \A u \in Tasks \ {t} : task'[u] = task[u]

LEMMA AloneSteps ==
  ASSUME TypeOK, NEW t \in Tasks, Alone(t), task'[t].pc # "holding" \/ Advances(t)
  PROVE  WalkStep
BY DEF Alone, WalkStep, Stands

LEMMA SameSteps == ASSUME UNCHANGED task PROVE WalkStep
BY DEF WalkStep, Stands

LEMMA SetAlone ==
  ASSUME TypeOK, NEW t \in Tasks, NEW c, task' = [task EXCEPT ![t] = c]
  PROVE  Alone(t) /\ task'[t] = c
BY AllParts DEF Alone, TaskOK

LEMMA SetSteps ==
  ASSUME TypeOK, NEW t \in Tasks, NEW c, task' = [task EXCEPT ![t] = c], c.pc # "holding"
  PROVE  WalkStep
BY SetAlone, AloneSteps

LEMMA GotoSteps ==
  ASSUME TypeOK, NEW t \in Tasks, NEW tk, NEW pc \in Onward \union {"left"},
         task' = [task EXCEPT ![t] = Goto(tk, pc)]
  PROVE  WalkStep
<1>1. Goto(tk, pc).pc # "holding"
  BY GotoHands DEF Onward
<1> QED BY <1>1, SetSteps

LEMMA ReturnSteps ==
  ASSUME TypeOK, NEW t \in Tasks, Return(t)
  PROVE  WalkStep
<1> DEFINE pc == IF task[t].ctx = "edit" THEN "left" ELSE "idle"
<1>1. task' = [task EXCEPT ![t] = Goto(task[t], pc)] /\ pc \in Onward \union {"left"}
  BY DEF Return, Onward
<1> HIDE DEF pc
<1> QED BY <1>1, GotoSteps

LEMMA LeaveSteps ==
  ASSUME TypeOK, NEW t \in Tasks, LeaveEdit(t, IdleTask)
  PROVE  WalkStep
<1>1. IdleTask.pc # "holding"
  BY DEF IdleTask
<1> QED BY <1>1, SetSteps DEF LeaveEdit

LEMMA OnwardSteps ==
  ASSUME TypeOK, NEW t \in Tasks, NEW tk \in Chain, tk.reason \in Reasons,
         HoldOnward(t, tk, queue'), tk.i = 1 \/ (task[t].pc = "holding" /\ tk.i = task[t].i)
  PROVE  WalkStep
<1>1. Advances(t)
  BY DEF Advances
<1>2. Alone(t)
  BY SetAlone DEF HoldOnward
<1> QED BY <1>1, <1>2, AloneSteps

LEMMA HoldQueueSteps ==
  ASSUME TypeOK, NEW t \in Tasks, NEW tk \in Chain, NEW r \in Reasons, NEW keep \in BOOLEAN,
         NEW then \in Onward, HoldQueue(t, tk, r, keep, then), UNCHANGED queue
  PROVE  WalkStep
<1>1. CASE queue = << >>
  BY <1>1, GotoSteps DEF HoldQueue
<1>2. CASE queue # << >>
  <2> DEFINE loop == [tk EXCEPT !.reason = r, !.keep = keep, !.then = then, !.i = 1]
  <2>1. loop \in Chain
    <3>1. r \in AnyReason /\ 1 \in Nat
      BY DEF AnyReason
    <3> QED BY <3>1, FieldType
  <2>2. loop.i = 1 /\ loop.reason = r
    BY DEF Chain
  <2>3. HoldOnward(t, loop, queue')
    BY <1>2 DEF HoldQueue
  <2> HIDE DEF loop
  <2> QED BY <2>1, <2>2, <2>3, OnwardSteps
<1> QED BY <1>1, <1>2

LEMMA FailureSteps ==
  ASSUME TypeOK, NEW t \in Tasks, NEW tk \in Chain, NEW then \in Onward,
         HoldAfterTurnFailure(t, tk, then), UNCHANGED queue
  PROVE  WalkStep
<1>1. "failed" \in Reasons /\ FALSE \in BOOLEAN
  BY DEF Reasons
<1>2. CASE HoldQueue(t, tk, "failed", FALSE, then)
  BY <1>1, <1>2, HoldQueueSteps
<1>3. CASE task' = [task EXCEPT ![t] = Goto(tk, then)]
  BY <1>3, GotoSteps
<1> QED BY <1>2, <1>3 DEF HoldAfterTurnFailure

LEMMA SettleReleaseSteps ==
  ASSUME TypeOK, NEW t \in Tasks, NEW tk \in Chain, NEW turn \in AnyTurn, NEW s \in Statuses,
         NEW then \in Onward, SettleRelease(t, tk, turn, s, then), UNCHANGED queue
  PROVE  WalkStep
<1> DEFINE ended == [tk EXCEPT !.turn = turn, !.status = s, !.then = then]
           c     == [ended EXCEPT !.pc = "ended"]
<1>1. ended \in Chain
  BY FieldType
<1>2. \/ task' = [task EXCEPT ![t] = c]
      \/ HoldAfterTurnFailure(t, ended, then)
      \/ task' = [task EXCEPT ![t] = Goto(ended, then)]
  BY DEF SettleRelease
<1> HIDE DEF ended
<1>3. c.pc # "holding"
  BY <1>1 DEF Chain
<1> HIDE DEF c
<1> QED BY <1>1, <1>2, <1>3, SetSteps, FailureSteps, GotoSteps


LEMMA DetachedWalks ==
  ASSUME TaskOK, NEW q
  PROVE  \A u \in Tasks : /\ Detached(task, q)[u].pc = task[u].pc
                          /\ Detached(task, q)[u].i \in {task[u].i, 0}
<1>1. \A u \in Tasks : [task[u] EXCEPT !.i = 0].i = 0
  BY DEF TaskOK, Chain
<1>2. CASE q = << >>
  <2>1. \A u \in Tasks : Detached(task, q)[u] = [task[u] EXCEPT !.i = 0]
    BY <1>2 DEF Detached
  <2>2. \A u \in Tasks : Detached(task, q)[u].i = 0
    BY <1>1, <2>1
  <2>3. \A u \in Tasks : Detached(task, q)[u].pc = task[u].pc
    BY DetachedType
  <2> QED BY <2>2, <2>3
<1>3. CASE q # << >>
  <2>1. Detached(task, q) = task
    BY <1>3 DEF Detached
  <2> QED BY <2>1
<1> QED BY <1>2, <1>3

LEMMA StartSteps ==
  ASSUME TypeOK, NEW t \in Tasks, NEW e, NEW ctx, StartEntry(t, e, ctx)
  PROVE  WalkStep
<1> DEFINE c == [IdleTask EXCEPT !.pc = "starting", !.ctx = ctx, !.entry = e]
<1>1. task' = [task EXCEPT ![t] = c] /\ c.pc # "holding"
  BY DEF StartEntry, IdleTask
<1> HIDE DEF c
<1> QED BY <1>1, SetSteps

(* Those that take a hold off walk too, but hold nothing. *)
LEMMA UnholdSteps ==
  ASSUME ReleaseInv, NEW t \in Tasks,
         ClearQueueHold(t) \/ ClearEmitted(t) \/ ReleaseHold(t) \/ UnlockEmitted(t)
  PROVE  WalkStep
<1>1. task'[t].pc # "holding"
  <2>1. IdleTask.pc # "holding"
    BY DEF IdleTask
  <2> QED BY <2>1, ClearMoves, UnlockMoves
<1>2. \E c : task' = [task EXCEPT ![t] = c]
  BY DEF ClearQueueHold, ClearEmitted, ClearOnward, LeaveEdit,
         ReleaseHold, UnlockEmitted, UnlockOnward
<1> QED BY <1>1, <1>2, SetAlone, AloneSteps, ReleaseParts

LEMMA ClaimSteps ==
  ASSUME TypeOK, NEW t \in Tasks, NEW ctx, NEW can, Claim(t, ctx, can)
  PROVE  WalkStep
<1> DEFINE q == RemoveAt(queue, NextWaiting(queue))
           d == Detached(task, q)
<1>1. PICK c : task' = [d EXCEPT ![t] = c] /\ c.pc \in {"steering", "starting"}
  <2> DEFINE e     == Dispatchable(can)
             steer == Steerable(e, can)
             c     == [IdleTask EXCEPT !.pc = IF steer THEN "steering" ELSE "starting",
                             !.ctx = ctx, !.entry = e,
                             !.rev = IF steer THEN revision' ELSE 0,
                             !.prev = IF NextWaiting(queue) > 1
                                      THEN queue[NextWaiting(queue) - 1] ELSE NoEntry]
  <2>1. task' = [d EXCEPT ![t] = c]
    BY DEF Claim
  <2>2. c.pc = IF steer THEN "steering" ELSE "starting"
    BY DEF IdleTask
  <2> HIDE DEF c, d, steer, e
  <2> QED BY <2>1, <2>2
<1>2. \A u \in Tasks : d[u].pc = task[u].pc /\ d[u].i \in {task[u].i, 0}
  BY DetachedWalks, AllParts
<1>3. d \in [Tasks -> Chain]
  BY DetachedType, AllParts
<1> HIDE DEF d
<1>4. task'[t] = c /\ \A u \in Tasks \ {t} : task'[u] = d[u]
  BY <1>1, <1>3
<1> QED BY <1>1, <1>2, <1>4 DEF WalkStep, Stands

LEMMA SubmissionWalks ==
  ASSUME ReleaseInv, Submission
  PROVE  WalkStep
<1>1. TypeOK
  BY ReleaseParts
<1>2. ASSUME NEW e \in Entries, Enqueue(e) \/ SubmitProjectHeld(e) PROVE WalkStep
  BY <1>2, SameSteps DEF Enqueue, SubmitProjectHeld
<1>3. ASSUME NEW e \in Entries, CancelEntry(e) PROVE WalkStep
  <2>1. PICK q : task' = Detached(task, q)
    BY <1>3 DEF CancelEntry
  <2> QED BY <1>1, <2>1, DetachedWalks, AllParts DEF WalkStep, Stands
<1>4. ASSUME NEW t \in Tasks, NEW e \in Entries, StartNow(t, e) PROVE WalkStep
  <2>1. StartEntry(t, e, "direct")
    BY <1>4 DEF StartNow
  <2> QED BY <1>1, <2>1, StartSteps
<1>5. ASSUME NEW t \in Tasks, NEW e \in Entries, EditsEntry(t, e) \/ EditsSteer(t, e) \/ Retry(t, e)
      PROVE  WalkStep
  <2>1. PICK op, before : EnterEdit(t, op, e, before)
    BY <1>5 DEF EditsEntry, EditsSteer, Retry
  <2> DEFINE c == [IdleTask EXCEPT !.pc = "editing", !.ctx = "edit",
                                   !.op = op, !.entry = e, !.prev = before]
  <2>2. task' = [task EXCEPT ![t] = c] /\ c.pc # "holding"
    BY <2>1 DEF EnterEdit, IdleTask
  <2> HIDE DEF c
  <2> QED BY <1>1, <2>2, SetSteps
<1>6. ASSUME NEW t \in Tasks, NEW e \in Entries, NEW r, SubmitHeld(t, e, r) PROVE WalkStep
  <2> DEFINE c == [IdleTask EXCEPT !.pc = "queuedHeld", !.reason = r]
  <2>1. task' = [task EXCEPT ![t] = c] /\ c.pc # "holding"
    BY <1>6 DEF SubmitHeld, IdleTask
  <2> HIDE DEF c
  <2> QED BY <1>1, <2>1, SetSteps
<1>7. ASSUME NEW t \in Tasks, ReleaseHold(t) PROVE WalkStep
  BY <1>7, UnholdSteps
<1>8. CASE (\E e \in Entries : EditInput(e)) \/ ScheduleThreadDrain \/ Close
  BY <1>8, SameSteps DEF EditInput, ScheduleThreadDrain, Close
<1> QED BY <1>2, <1>3, <1>4, <1>5, <1>6, <1>7, <1>8 DEF Submission

LEMMA ProceedWalks ==
  ASSUME ReleaseInv, NEW t \in Tasks, Proceed(t)
  PROVE  WalkStep
<1>1. TypeOK
  BY ReleaseParts
<1>2. CASE StartNext(t)
  BY <1>1, <1>2, ClaimSteps, ReturnSteps DEF StartNext
<1>3. CASE StartFinished(t) \/ SteerBack(t)
  BY <1>1, <1>3, ReturnSteps DEF StartFinished, SteerBack
<1>4. CASE ReleaseRefused(t)
  <2>1. CASE pendingRelease
    <3> DEFINE tk == [IdleTask EXCEPT !.ctx = "release"]
    <3>1. tk \in Chain /\ "next" \in Onward
      BY FreshRelease
    <3>2. SettleRelease(t, tk, NoTurn, "idle", "next") /\ UNCHANGED queue
      BY <1>4, <2>1 DEF ReleaseRefused
    <3> HIDE DEF tk
    <3> QED BY <1>1, <3>1, <3>2, NoTurnType, SettleReleaseSteps DEF Statuses
  <2>2. CASE ~pendingRelease
    <3>1. task' = [task EXCEPT ![t] = IdleTask] /\ IdleTask.pc # "holding"
      BY <1>4, <2>2 DEF ReleaseRefused, IdleTask
    <3> QED BY <1>1, <3>1, SetSteps
  <2> QED BY <2>1, <2>2
<1>5. CASE MoveEntry(t) \/ PauseEntry(t) \/ ResumeEntry(t) \/ SteerLeaves(t, "left")
  BY <1>1, <1>5, LeaveSteps DEF MoveEntry, PauseEntry, ResumeEntry, SteerLeaves
<1>6. CASE SubmitSteer(t)
  <2>1. task[t].entry \in Entries
    BY <1>1, <1>6, WorkFacts DEF SubmitSteer, MayEdit
  <2>2. CASE StartEntry(t, task[t].entry, "edit")
    BY <1>1, <2>1, <2>2, StartSteps
  <2>3. CASE task' = [task EXCEPT ![t].pc = "leaving"]
    <3> DEFINE c == [task[t] EXCEPT !.pc = "leaving"]
    <3>1. c.pc # "holding"
      BY ReleaseParts DEF Chain
    <3>2. task' = [task EXCEPT ![t] = c]
      BY <2>3
    <3> HIDE DEF c
    <3> QED BY <1>1, <3>1, <3>2, SetSteps
  <2> QED BY <1>6, <2>2, <2>3 DEF SubmitSteer
<1>7. CASE ClearQueueHold(t)
  BY <1>7, UnholdSteps
<1> QED BY <1>2, <1>3, <1>4, <1>5, <1>6, <1>7 DEF Proceed

LEMMA EmittedWalks ==
  ASSUME ReleaseInv, NEW t \in Tasks, Emitted(t)
  PROVE  WalkStep
<1>1. TypeOK /\ task[t] \in Chain /\ task[t].then \in Onward
  BY ReleaseParts DEF Chain
<1>2. CASE HoldEmitted(t)
  <2>1. task[t].reason \in Reasons
    BY <1>2, ReleaseParts DEF HoldEmitted, Proper
  <2>2. HoldOnward(t, task[t], queue') /\ task[t].pc = "holding"
    BY <1>2 DEF HoldEmitted
  <2> QED BY <1>1, <2>1, <2>2, OnwardSteps
<1>3. CASE HeldEmitted(t) \/ BlockEmitted(t)
  <2>1. task[t].reason \in Reasons
    BY <1>3, ReleaseParts DEF BlockEmitted, HeldEmitted, Blocking
  <2>2. PICK then \in Onward : HoldQueue(t, task[t], task[t].reason, TRUE, then)
    BY <1>3 DEF BlockEmitted, HeldEmitted, Onward
  <2>3. UNCHANGED queue
    BY <1>3 DEF BlockEmitted, HeldEmitted
  <2> QED BY <1>1, <2>1, <2>2, <2>3, HoldQueueSteps
<1>4. CASE ClearEmitted(t) \/ UnlockEmitted(t)
  BY <1>4, UnholdSteps
<1>5. CASE StartEmitted(t)
  <2> DEFINE terminal == CHOOSE x \in TerminalOf(admission) : TRUE
  <2>1. CASE TerminalOf(admission) = {} \/ admission.attempt # t
    BY <1>1, <1>5, <2>1, ReturnSteps DEF StartEmitted
  <2>2. CASE ~(TerminalOf(admission) = {} \/ admission.attempt # t)
    <3>1. terminal \in Outcome
      BY <1>1, <2>2, AllParts, AdmissionType
    <3>2. terminal.turn \in AnyTurn /\ terminal.status \in Statuses /\ "finish" \in Onward
      BY <3>1 DEF Outcome, Onward
    <3>3. CASE task[t].early
      <4> DEFINE c == [task[t] EXCEPT !.pc = "ended", !.turn = terminal.turn,
                                      !.status = terminal.status, !.then = "finish"]
      <4>1. task' = [task EXCEPT ![t] = c]
        BY <1>5, <2>2, <3>3 DEF StartEmitted
      <4>2. c.pc # "holding"
        BY <1>1 DEF Chain
      <4> HIDE DEF c
      <4> QED BY <1>1, <4>1, <4>2, SetSteps
    <3>4. CASE ~task[t].early
      <4>1. SettleRelease(t, task[t], terminal.turn, terminal.status, "finish") /\ UNCHANGED queue
        BY <1>5, <2>2, <3>4 DEF StartEmitted
      <4> HIDE DEF terminal
      <4> QED BY <1>1, <3>2, <4>1, SettleReleaseSteps
    <3> QED BY <3>3, <3>4
  <2> QED BY <2>1, <2>2
<1>6. CASE TerminalEmitted(t)
  <2>1. CASE task[t].status = "failed"
    BY <1>1, <1>6, <2>1, FailureSteps DEF TerminalEmitted
  <2>2. CASE task[t].status # "failed"
    BY <1>1, <1>6, <2>2, GotoSteps DEF TerminalEmitted
  <2> QED BY <2>1, <2>2
<1>7. CASE FailureEmitted(t) \/ SteerEmitted(t)
  BY <1>1, <1>7, ReturnSteps DEF FailureEmitted, SteerEmitted
<1>8. CASE SteerLeaves(t, "leaving") \/ InputEdited(t)
  BY <1>1, <1>8, LeaveSteps DEF SteerLeaves, InputEdited
<1> QED BY <1>2, <1>3, <1>4, <1>5, <1>6, <1>7, <1>8 DEF Emitted

LEMMA AnswerWalks ==
  ASSUME ReleaseInv, NEW t \in Tasks, Answer(t)
  PROVE  WalkStep
<1>1. TypeOK /\ task[t] \in Chain
  BY ReleaseParts
<1>2. CASE StartAcknowledged(t) \/ SteerAccepted(t)
  <2>1. Alone(t)
    BY <1>1, <1>2, AllParts DEF StartAcknowledged, SteerAccepted, Alone, TaskOK
  <2>2. task'[t].pc \in {"started", "steered"}
    BY <1>1, <1>2, AllParts DEF StartAcknowledged, SteerAccepted, TaskOK, Chain
  <2> QED BY <1>1, <2>1, <2>2, AloneSteps
<1>3. CASE DirectStartRejected(t)
  <2>1. CASE task' = [task EXCEPT ![t].pc = "failed"]
    <3>1. Alone(t)
      BY <1>1, <2>1, AllParts DEF Alone, TaskOK
    <3>2. task'[t].pc = "failed"
      BY <1>1, <2>1, AllParts DEF TaskOK, Chain
    <3> QED BY <1>1, <3>1, <3>2, AloneSteps
  <2>2. CASE HoldAfterTurnFailure(t, task[t], "failed")
    <3>1. UNCHANGED queue /\ "failed" \in Onward
      BY <1>3 DEF DirectStartRejected, Onward
    <3> QED BY <1>1, <2>2, <3>1, FailureSteps
  <2> QED BY <1>3, <2>1, <2>2 DEF DirectStartRejected
<1>4. ASSUME NEW r, Block(t, r) PROVE WalkStep
  <2>1. Alone(t)
    BY <1>1, <1>4, AllParts DEF Block, Alone, TaskOK
  <2>2. task'[t].pc = "blocked"
    BY <1>1, <1>4, AllParts DEF Block, TaskOK, Chain
  <2> QED BY <1>1, <2>1, <2>2, AloneSteps
<1>5. ASSUME NEW retry \in BOOLEAN, SteerDeclined(t, retry) PROVE WalkStep
  <2>1. CASE reasons # << >> /\ revision # task[t].rev
    <3> DEFINE tk == [task[t] EXCEPT !.early = retry, !.rev = 0]
               c  == [tk EXCEPT !.reason = NewestReason, !.keep = TRUE,
                                !.then = "steerBack", !.i = 1]
    <3>1. HoldOnward(t, c, queue')
      BY <1>5, <2>1 DEF SteerDeclined
    <3>2. NewestReason \in Reasons /\ NewestReason \in AnyReason
      BY <1>1, <2>1, NewestReasonType
    <3>3. tk \in Chain
      <4>1. 0 \in Revisions
        BY MaxRevisionType DEF Revisions
      <4> QED BY <1>1, <4>1, FieldType
    <3> HIDE DEF tk
    <3>4. c \in Chain
      <4>1. TRUE \in BOOLEAN /\ "steerBack" \in Onward /\ 1 \in Nat
        BY DEF Onward
      <4> QED BY <3>2, <3>3, <4>1, FieldType
    <3>5. c.reason = NewestReason /\ c.i = 1
      BY <3>3 DEF Chain
    <3> HIDE DEF c
    <3> QED BY <1>1, <3>1, <3>2, <3>4, <3>5, OnwardSteps
  <2>2. CASE ~(reasons # << >> /\ revision # task[t].rev)
    <3>1. Return(t)
      BY <1>5, <2>2 DEF SteerDeclined
    <3> QED BY <1>1, <3>1, ReturnSteps
  <2> QED BY <2>1, <2>2
<1> QED BY <1>2, <1>3, <1>4, <1>5 DEF Answer, QueuedStartRejected, SteerRejected

LEMMA ReportWalks ==
  ASSUME ReleaseInv, NEW n \in notices, Report(n)
  PROVE  WalkStep
<1>1. ASSUME NEW t \in Tasks, Release(t, n) PROVE WalkStep
  <2> DEFINE tk == [IdleTask EXCEPT !.ctx = "release"]
  <2>1. n.turn \in AnyTurn /\ n.status \in Statuses
    BY <1>1, TakeType, ReleaseParts DEF Release, Outcome
  <2>2. tk \in Chain /\ "next" \in Onward
    BY FreshRelease
  <2>3. SettleRelease(t, tk, n.turn, n.status, "next") /\ UNCHANGED queue
    BY <1>1 DEF Release
  <2> HIDE DEF tk
  <2> QED BY <2>1, <2>2, <2>3, SettleReleaseSteps, ReleaseParts
<1>2. CASE UNCHANGED task
  BY <1>2, SameSteps
<1> QED BY <1>1, <1>2 DEF Report, ReleaseBuffered, ReleaseIgnored, ReleaseCoalesced

LEMMA WalkSteps ==
  ASSUME ReleaseInv, [Next]_vars
  PROVE  WalkStep
<1>1. CASE UNCHANGED vars
  BY <1>1, SameSteps DEF vars
<1>2. CASE DrainFires
  <2>1. ASSUME NEW t \in Tasks, NEW can \in BOOLEAN, Claim(t, "drain", can) PROVE WalkStep
    BY <2>1, ClaimSteps, ReleaseParts
  <2> QED BY <1>2, <2>1, SameSteps DEF DrainFires
<1>3. CASE Backend
  BY <1>3, SameSteps DEF Backend, TurnBegins, ExternalTurnBegins, IdleReported, TurnEnds,
                         OutcomeRepeated, Notify
<1>4. CASE GateDue \/ GateOpens \/ GateQuiets
  BY <1>4, SameSteps DEF GateDue, GateOpens, GateQuiets, GateMoves
<1> QED BY <1>1, <1>2, <1>3, <1>4, ProceedWalks, EmittedWalks, AnswerWalks, ReportWalks,
           SubmissionWalks DEF Next


-----------------------------------------------------------------------------
(* What has been passed stays held while the FIFO changes. *)

LEMMA HeldThrough ==
  ASSUME NEW q, NEW g, NEW h, NEW n, Through(n, q, g),
         \A j \in 1..Len(q) : j < n /\ g[q[j]] # NoReason => h[q[j]] # NoReason
  PROVE  Through(n, q, h)
BY DEF Through

LEMMA InsertThrough ==
  ASSUME NEW q \in Seq(Entries), NEW e, NEW p \in 1..(Len(q) + 1), NEW r, InsertLaw(q, e, p, r),
         NEW h, NEW n \in Nat, Through(n, q, h), n <= p \/ h[e] # NoReason
  PROVE  Through(n, r, h)
<1>1. Len(q) \in Nat /\ Len(r) = Len(q) + 1 /\ n <= Len(q) + 1
  BY DEF InsertLaw, Through
<1> SUFFICES ASSUME NEW k \in 1..Len(r), k < n  PROVE h[r[k]] # NoReason
  BY <1>1 DEF Through
<1>2. r[k] = IF k < p THEN q[k] ELSE IF k = p THEN e ELSE q[k - 1]
  BY <1>1 DEF InsertLaw
<1>3. CASE k < p
  <2>1. k \in 1..Len(q)
    BY <1>1, <1>3
  <2> QED BY <1>2, <1>3, <2>1 DEF Through
<1>4. CASE k = p
  BY <1>2, <1>4
<1>5. CASE k > p
  <2>1. k - 1 \in 1..Len(q) /\ k - 1 < n
    BY <1>1, <1>5
  <2> QED BY <1>2, <1>5, <2>1 DEF Through
<1> QED BY <1>1, <1>3, <1>4, <1>5

LEMMA RemoveThrough ==
  ASSUME NEW q \in Seq(Entries), NEW w \in 1..Len(q), NEW r, RemoveLaw(q, w, r),
         NEW h, NEW n \in Nat, Through(n, q, h), n <= w
  PROVE  Through(n, r, h)
<1>1. Len(q) \in Nat /\ Len(r) = Len(q) - 1
  BY DEF RemoveLaw
<1> SUFFICES ASSUME NEW k \in 1..Len(r), k < n  PROVE h[r[k]] # NoReason
  BY <1>1 DEF Through
<1>2. r[k] = q[k] /\ k \in 1..Len(q)
  BY <1>1 DEF RemoveLaw
<1> QED BY <1>2 DEF Through

(* No walk has come past an entry that is not held. *)
LEMMA NotPassed ==
  ASSUME NEW q, NEW h, NEW n \in Nat, Through(n, q, h), NEW w \in 1..Len(q), h[q[w]] = NoReason
  PROVE  n <= w
BY DEF Through

LEMMA OnwardThrough ==
  ASSUME TypeOK, NEW t \in Tasks, NEW tk \in Chain, tk.reason \in Reasons,
         NEW q \in Seq(Entries), HoldOnward(t, tk, q),
         tk.i = 1 \/ Through(tk.i, q, held'), task'[t].pc = "holding"
  PROVE  Through(task'[t].i, q, held')
<1> DEFINE J == HoldTargets(q, tk)
           j == Min(J)
           c == [tk EXCEPT !.pc = "holding", !.i = j + 1]
<1>1. tk.i \in Nat /\ tk.then \in Onward /\ Len(q) \in Nat /\ DOMAIN q = 1..Len(q)
  BY DEF Chain
<1>2. J # {}
  <2>1. ASSUME J = {} PROVE FALSE
    <3>1. task'[t] = Goto(tk, tk.then)
      BY <2>1, SetAlone DEF HoldOnward
    <3>2. Goto(tk, tk.then).pc # "holding"
      BY <1>1, GotoHands DEF Onward
    <3> QED BY <3>1, <3>2
  <2> QED BY <2>1
<1>3. task'[t] = c /\ held' = [held EXCEPT ![q[j]] = tk.reason]
  BY <1>2, SetAlone DEF HoldOnward
<1>4. c.i = j + 1
  BY DEF Chain
<1>5. j \in J /\ \A k \in J : j <= k
  <2>1. J \in SUBSET Nat
    BY <1>1 DEF HoldTargets
  <2> HIDE DEF J
  <2> QED BY <1>2, <2>1, MinIn
<1> HIDE DEF j, c
<1>6. j \in 1..Len(q) /\ j >= tk.i
  BY <1>1, <1>5 DEF HoldTargets
<1>7. held \in [Entries -> AnyReason] /\ tk.reason # NoReason
  BY AllParts DEF FifoOK, Reasons, NoReason
<1>8. ASSUME NEW k \in 1..Len(q), k < j + 1
      PROVE  held'[q[k]] # NoReason
  <2>1. q[k] \in Entries /\ q[j] \in Entries
    BY <1>6
  <2>2. CASE k = j
    BY <1>3, <1>7, <2>1, <2>2
  <2>3. CASE k < tk.i
    BY <1>1, <2>3 DEF Through
  <2>4. CASE tk.i <= k /\ k < j
    <3>1. k \notin J
      BY <1>5, <1>6, <2>4
    <3>2. Held(q[k])
      BY <1>1, <1>5, <2>4, <3>1 DEF HoldTargets
    <3> QED BY <1>3, <1>7, <2>1, <3>2 DEF Held
  <2> QED BY <1>1, <1>6, <1>8, <2>2, <2>3, <2>4
<1> QED BY <1>1, <1>3, <1>4, <1>6, <1>8 DEF Through

(* What the walks had passed, they still have. *)
Kept == \A u \in Tasks : task[u].pc = "holding" => Through(task[u].i, queue', held')

LEMMA WalkParts ==
  ASSUME WalkInv
  PROVE  /\ MessageInv /\ ReleaseInv /\ TypeOK
         /\ queue \in Seq(Entries) /\ Len(queue) \in Nat /\ Once(queue)
         /\ held \in [Entries -> AnyReason]
         /\ \A u \in Tasks : task[u] \in Chain /\ task[u].i \in Nat
<1>1. MessageInv /\ ReleaseInv /\ TypeOK /\ queue \in Seq(Entries) /\ Once(queue)
  BY MessageParts DEF WalkInv, MessageInv, Carries
<1>2. held \in [Entries -> AnyReason] /\ \A u \in Tasks : task[u] \in Chain
  BY <1>1, AllParts DEF FifoOK
<1>3. \A u \in Tasks : task[u].i \in Nat
  BY <1>2 DEF Chain
<1> QED BY <1>1, <1>2, <1>3

LEMMA KeptAdvances ==
  ASSUME WalkInv, TypeOK', WalkStep, Kept
  PROVE  \A t \in Tasks : task'[t].pc = "holding" => Through(task'[t].i, queue', held')
<1> SUFFICES ASSUME NEW t \in Tasks, task'[t].pc = "holding"
             PROVE  Through(task'[t].i, queue', held')
  OBVIOUS
<1>1. CASE Stands(t)
  <2>1. Through(task[t].i, queue', held')
    BY <1>1 DEF Stands, Kept
  <2>2. Through(0, queue', held')
    <3>1. Len(queue') \in Nat
      BY DEF TypeOK, FifoOK
    <3> QED BY <3>1 DEF Through
  <2> QED BY <1>1, <2>1, <2>2 DEF Stands
<1>2. CASE Advances(t)
  <2>1. PICK tk \in Chain :
          /\ tk.reason \in Reasons /\ HoldOnward(t, tk, queue')
          /\ tk.i = 1 \/ (task[t].pc = "holding" /\ tk.i = task[t].i)
    BY <1>2 DEF Advances
  <2>2. queue' \in Seq(Entries)
    BY DEF TypeOK, FifoOK
  <2>3. tk.i = 1 \/ Through(tk.i, queue', held')
    BY <2>1 DEF Kept
  <2> QED BY <2>1, <2>2, <2>3, OnwardThrough, WalkParts
<1> QED BY <1>1, <1>2 DEF WalkStep

LEMMA SameKept ==
  ASSUME WalkInv, UNCHANGED queue,
         HeldGrows \/ \A e \in Entries : Passed(queue, e) => held'[e] # NoReason
  PROVE  Kept
<1> SUFFICES ASSUME NEW u \in Tasks, task[u].pc = "holding"
             PROVE  Through(task[u].i, queue, held')
  BY DEF Kept
<1>1. Through(task[u].i, queue, held)
  BY DEF WalkInv
<1>2. ASSUME NEW j \in 1..Len(queue), j < task[u].i, held[queue[j]] # NoReason
      PROVE  held'[queue[j]] # NoReason
  <2>1. queue[j] \in Entries /\ j \in DOMAIN queue
    BY WalkParts
  <2>2. Passed(queue, queue[j])
    BY <1>2, <2>1 DEF Passed
  <2> QED BY <1>2, <2>1, <2>2 DEF HeldGrows, Held
<1> QED BY <1>1, <1>2, HeldThrough

LEMMA StillKept == ASSUME WalkInv, UNCHANGED <<queue, held>> PROVE Kept
BY DEF WalkInv, Kept

LEMMA InsertKept ==
  ASSUME WalkInv, NEW e \in Entries, NEW p \in 1..(Len(queue) + 1), queue' = InsertAt(queue, p, e),
         \A x \in Waiting(queue) : Held(x) => held'[x] # NoReason,
         held'[e] # NoReason \/ p = Len(queue) + 1 \/ ~Passed(queue', e)
  PROVE  Kept
<1> SUFFICES ASSUME NEW u \in Tasks, task[u].pc = "holding"
             PROVE  Through(task[u].i, queue', held')
  BY DEF Kept
<1>1. Through(task[u].i, queue, held) /\ task[u].i \in Nat
  BY WalkParts DEF WalkInv
<1>2. Through(task[u].i, queue, held')
  <2>1. \A j \in 1..Len(queue) : queue[j] \in Waiting(queue)
    BY DEF Waiting
  <2> QED BY <1>1, <2>1, HeldThrough DEF Held
<1>3. InsertLaw(queue, e, p, queue')
  BY WalkParts, InsertAtLaw
<1>4. task[u].i <= p \/ held'[e] # NoReason
  <2>1. CASE p = Len(queue) + 1
    BY <1>1, <2>1 DEF Through
  <2>2. CASE ~Passed(queue', e)
    <3>1. p \in DOMAIN queue' /\ queue'[p] = e
      BY <1>3, WalkParts DEF InsertLaw
    <3>2. ~(p < task[u].i)
      BY <2>2, <3>1 DEF Passed
    <3> QED BY <1>1, <3>2, WalkParts
  <2> QED BY <2>1, <2>2
<1> QED BY <1>1, <1>2, <1>3, <1>4, InsertThrough, WalkParts

LEMMA RemoveKept ==
  ASSUME WalkInv, NEW w \in 1..Len(queue), queue' = RemoveAt(queue, w),
         ~Held(queue[w]) \/ ~Passed(queue, queue[w]),
         \A x \in Entries : x # queue[w] => held'[x] = held[x]
  PROVE  Kept
<1> SUFFICES ASSUME NEW u \in Tasks, task[u].pc = "holding"
             PROVE  Through(task[u].i, queue', held')
  BY DEF Kept
<1>1. Through(task[u].i, queue, held) /\ task[u].i \in Nat
  BY WalkParts DEF WalkInv
<1>2. task[u].i <= w
  <2>1. CASE ~Held(queue[w])
    BY <1>1, <2>1, NotPassed DEF Held
  <2>2. CASE ~Passed(queue, queue[w])
    <3>1. w \in DOMAIN queue
      BY WalkParts
    <3>2. ~(w < task[u].i)
      BY <2>2, <3>1 DEF Passed
    <3> QED BY <1>1, <3>2, WalkParts
  <2> QED BY <2>1, <2>2
<1>3. Through(task[u].i, queue, held')
  <2>1. ASSUME NEW j \in 1..Len(queue), j < task[u].i, held[queue[j]] # NoReason
        PROVE  held'[queue[j]] # NoReason
    <3>1. j # w /\ queue[j] \in Entries
      BY <1>1, <1>2, <2>1, WalkParts
    <3>2. queue[j] # queue[w]
      BY <3>1, WalkParts DEF Once
    <3> QED BY <2>1, <3>1, <3>2
  <2> QED BY <1>1, <2>1, HeldThrough
<1>4. RemoveLaw(queue, w, queue')
  BY WalkParts, RemoveAtLaw
<1> QED BY <1>1, <1>2, <1>3, <1>4, RemoveThrough, WalkParts

-----------------------------------------------------------------------------
(* Each step keeps what the walks have passed. *)

LEMMA AppendKept ==
  ASSUME WalkInv, NEW e \in Entries, queue' = Append(queue, e), fate[e] \in Fresh, NEW r,
         held' = held \/ held' = [held EXCEPT ![e] = r]
  PROVE  Kept
<1>1. queue' = InsertAt(queue, Len(queue) + 1, e)
  BY AppendIsInsert, WalkParts
<1>2. e \notin Waiting(queue) /\ Waiting(queue) \subseteq Entries
  BY FreshIsNowhere, WalkParts, MessageParts
<1>3. \A x \in Waiting(queue) : held'[x] = held[x]
  BY <1>2, WalkParts
<1>4. Len(queue) + 1 \in 1..(Len(queue) + 1)
  BY WalkParts
<1> QED BY <1>1, <1>3, <1>4, InsertKept DEF Held

LEMMA SubmitHeldThrough ==
  ASSUME WalkInv, NEW t \in Tasks, NEW e \in Entries, NEW r \in {"lock", "review"},
         SubmitHeld(t, e, r)
  PROVE  Kept
<1>1. queue' = InsertAt(queue, PlaceOfHeld, e) /\ held' = [held EXCEPT ![e] = r]
  BY DEF SubmitHeld
<1>2. PlaceOfHeld \in 1..(Len(queue) + 1)
  BY PlaceOfHeldType, WalkParts
<1>3. r # NoReason
  BY DEF NoReason
<1>4. held'[e] # NoReason /\ \A x \in Waiting(queue) : Held(x) => held'[x] # NoReason
  BY <1>1, <1>3, WalkParts, MessageParts DEF Held
<1> QED BY <1>1, <1>2, <1>4, InsertKept

LEMMA ClaimThrough ==
  ASSUME WalkInv, NEW t, NEW ctx, NEW can, Claim(t, ctx, can)
  PROVE  Kept
<1>1. Dispatchable(can) # NoEntry /\ queue' = RemoveAt(queue, NextWaiting(queue)) /\ held' = held
  BY DEF Claim
<1>2. NextWaiting(queue) \in 1..Len(queue)
  BY <1>1, DispatchableType, WalkParts
<1>3. ~Held(queue[NextWaiting(queue)])
  BY <1>1 DEF Dispatchable
<1> QED BY <1>1, <1>2, <1>3, RemoveKept

LEMMA CancelThrough ==
  ASSUME WalkInv, NEW e \in Entries, CancelEntry(e), ~PassedCancelled
  PROVE  Kept
<1> DEFINE w == IndexOf(queue, e)
<1>1. InQueue(e) /\ queue' = RemoveAt(queue, w) /\ held' = [held EXCEPT ![e] = NoReason]
  BY DEF CancelEntry
<1>2. w \in 1..Len(queue) /\ queue[w] = e
  <2>1. \E k \in 1..Len(queue) : queue[k] = e
    BY <1>1, WalkParts DEF InQueue, Contains
  <2> QED BY <2>1, IndexOfType, WalkParts
<1>3. ~Passed(queue, e)
  BY DEF PassedCancelled
<1>4. \A x \in Entries : x # e => held'[x] = held[x]
  BY <1>1, WalkParts
<1> HIDE DEF w
<1> QED BY <1>1, <1>2, <1>3, <1>4, RemoveKept

LEMMA MoveThrough ==
  ASSUME WalkInv, NEW t \in Tasks, MoveEntry(t)
  PROVE  Kept
<1> DEFINE e == task[t].entry
<1>1. queue' = Moved(queue, e, task[t].prev) /\ held' = held
  BY DEF MoveEntry
<1>2. CASE queue' = queue
  BY <1>1, <1>2, StillKept
<1>3. CASE queue' # queue
  <2>1. PICK from \in 1..Len(queue), to \in 1..Len(queue) :
          /\ queue[from] = e /\ ~Held(e)
          /\ queue' = InsertAt(RemoveAt(queue, from), to, e)
          /\ \A i \in 1..Len(queue) : to <= i /\ i < from => ~Held(queue[i])
    BY <1>1, <1>3, MovedLaw, WalkParts
  <2> DEFINE r == RemoveAt(queue, from)
  <2>2. RemoveLaw(queue, from, r) /\ e \in Entries
    BY <2>1, WalkParts, RemoveAtLaw
  <2> HIDE DEF e
  <2> SUFFICES ASSUME NEW u \in Tasks, task[u].pc = "holding"
               PROVE  Through(task[u].i, queue', held')
    BY DEF Kept
  <2>3. Through(task[u].i, queue, held) /\ task[u].i \in Nat
    BY WalkParts DEF WalkInv
  <2>4. task[u].i <= from
    BY <2>1, <2>3, NotPassed DEF Held
  <2>5. task[u].i <= to
    <3>1. CASE from <= to
      BY <2>3, <2>4, <3>1
    <3>2. CASE to < from
      <4>1. ~Held(queue[to])
        BY <2>1, <3>2
      <4> QED BY <2>3, <4>1, NotPassed DEF Held
    <3> QED BY <3>1, <3>2
  <2>6. Through(task[u].i, r, held) /\ r \in Seq(Entries) /\ Len(r) = Len(queue) - 1
    BY <2>2, <2>3, <2>4, RemoveThrough, WalkParts DEF RemoveLaw
  <2> HIDE DEF r
  <2>7. to \in 1..(Len(r) + 1)
    BY <2>6, WalkParts
  <2>8. InsertLaw(r, e, to, queue')
    BY <2>1, <2>2, <2>6, <2>7, InsertAtLaw DEF r
  <2> QED BY <1>1, <2>3, <2>5, <2>6, <2>7, <2>8, InsertThrough
<1> QED BY <1>2, <1>3

LEMMA PutBackThrough ==
  ASSUME WalkInv, NEW t \in Tasks, InFlight(t), PutBack(t, task[t].entry), ~PutBackPassed,
         HeldGrows
  PROVE  Kept
<1> DEFINE e == task[t].entry
           p == task[t].prev
<1>1. queue' = RestoreAfter(queue, e, p) /\ e \in Entries /\ ~Passed(queue', e)
  BY WalkParts, MessageParts DEF PutBack, PutBackPassed, InFlight, Working
<1>2. PICK i \in 1..(Len(queue) + 1) : queue' = InsertAt(queue, i, e)
  <2>1. IndexOf(queue, p) \in 0..Len(queue) /\ NextWaiting(queue) \in 0..Len(queue)
    BY WalkParts, IndexOfType, NextWaitingType
  <2>2. /\ 1 \in 1..(Len(queue) + 1) /\ Len(queue) + 1 \in 1..(Len(queue) + 1)
        /\ IndexOf(queue, p) # 0 => IndexOf(queue, p) + 1 \in 1..(Len(queue) + 1)
        /\ NextWaiting(queue) # 0 => NextWaiting(queue) \in 1..(Len(queue) + 1)
    BY <2>1, WalkParts
  <2>3. <<e>> \o queue = InsertAt(queue, 1, e)
    BY <1>1, WalkParts DEF InsertAt
  <2>4. Append(queue, e) = InsertAt(queue, Len(queue) + 1, e)
    BY <1>1, WalkParts, AppendIsInsert
  <2> QED BY <1>1, <2>2, <2>3, <2>4, Zenon DEF RestoreAfter
<1>3. \A x \in Waiting(queue) : Held(x) => held'[x] # NoReason
  BY WalkParts, MessageParts DEF HeldGrows, Held
<1> HIDE DEF e
<1> QED BY <1>1, <1>2, <1>3, InsertKept

LEMMA SubmissionThrough ==
  ASSUME WalkInv, Submission, ~PassedCancelled, ~PassedReleased
  PROVE  Kept
<1>1. ASSUME NEW e \in Entries, Enqueue(e) PROVE Kept
  BY <1>1, AppendKept DEF Enqueue, Unsent, Fresh
<1>2. ASSUME NEW e \in Entries, SubmitProjectHeld(e) PROVE Kept
  BY <1>2, AppendKept DEF SubmitProjectHeld, Unsent, Fresh
<1>3. ASSUME NEW t \in Tasks, NEW e \in Entries,
             StartNow(t, e) \/ EditsEntry(t, e) \/ EditsSteer(t, e) \/ Retry(t, e)
      PROVE  Kept
  BY <1>3, StillKept DEF StartNow, EditsEntry, EditsSteer, Retry, EnterEdit, fifo
<1>4. ASSUME NEW t \in Tasks, ReleaseHold(t) PROVE Kept
  BY <1>4, SameKept DEF ReleaseHold, PassedReleased
<1>5. CASE (\E e \in Entries : EditInput(e)) \/ ScheduleThreadDrain \/ Close
  BY <1>5, StillKept DEF EditInput, ScheduleThreadDrain, Close, fifo
<1> QED BY <1>1, <1>2, <1>3, <1>4, <1>5, CancelThrough, SubmitHeldThrough DEF Submission

LEMMA SteerThrough ==
  ASSUME WalkInv, NEW t \in Tasks, SubmitSteer(t)
  PROVE  Kept
<1> DEFINE e == task[t].entry
           c == JoinableBatch(e)
<1>1. /\ Sends(task[t]) /\ e \in Entries
      /\ \/ UNCHANGED <<queue, held>>
         \/ /\ queue' = IF c = 0 THEN Append(queue, e) ELSE queue
            /\ held' = IF reasons = << >> THEN held
                       ELSE [held EXCEPT ![IF c = 0 THEN e ELSE queue[c]] = NewestReason]
  BY WalkParts, MessageParts DEF SubmitSteer, MayEdit, Sends
<1>2. fate[e] \in Fresh
  BY <1>1, WalkParts DEF MessageInv, Carries, Steering, Fresh
<1>3. c \in 0..Len(queue)
  BY JoinableBatchType, WalkParts
<1> HIDE DEF e, c
<1>4. CASE UNCHANGED <<queue, held>>
  BY <1>4, StillKept
<1>5. CASE queue' = Append(queue, e) /\ (held' = held \/ held' = [held EXCEPT ![e] = NewestReason])
  BY <1>1, <1>2, <1>5, AppendKept
<1>6. CASE /\ c # 0 /\ queue' = queue /\ reasons # << >>
           /\ held' = [held EXCEPT ![queue[c]] = NewestReason]
  <2>1. NewestReason # NoReason
    BY <1>6, NewestReasonType, WalkParts DEF Reasons, NoReason
  <2>2. HeldGrows
    BY <1>6, <2>1, WalkParts DEF HeldGrows, Held
  <2> QED BY <1>6, <2>2, SameKept
<1> QED BY <1>1, <1>4, <1>5, <1>6

LEMMA ProceedThrough ==
  ASSUME WalkInv, NEW t \in Tasks, Proceed(t), ~PassedReleased
  PROVE  Kept
<1>1. CASE StartNext(t)
  <2>1. ASSUME NEW can \in BOOLEAN, Claim(t, task[t].ctx, can) PROVE Kept
    BY <2>1, ClaimThrough
  <2> QED BY <1>1, <2>1, StillKept DEF StartNext, fifo
<1>2. CASE StartFinished(t) \/ SteerBack(t) \/ PauseEntry(t) \/ SteerLeaves(t, "left")
  BY <1>2, StillKept DEF StartFinished, SteerBack, PauseEntry, SteerLeaves, fifo
<1>3. CASE ReleaseRefused(t)
  <2>1. CASE pendingRelease
    BY <1>3, <2>1, ReleaseRefusedWalks, SameKept, WalkParts DEF ReleaseRefused
  <2> QED BY <1>3, <2>1, StillKept DEF ReleaseRefused
<1>4. CASE ResumeEntry(t)
  <2>1. NewestReason # NoReason \/ reasons = << >>
    BY NewestReasonType, WalkParts DEF Reasons, NoReason
  <2>2. HeldGrows
    BY <1>4, <2>1, WalkParts DEF ResumeEntry, HeldGrows, Held
  <2> QED BY <1>4, <2>2, SameKept DEF ResumeEntry
<1>5. CASE ClearQueueHold(t)
  BY <1>5, SameKept DEF ClearQueueHold, PassedReleased
<1> QED BY <1>1, <1>2, <1>3, <1>4, <1>5, MoveThrough, SteerThrough DEF Proceed

LEMMA EmittedThrough ==
  ASSUME WalkInv, NEW t \in Tasks, Emitted(t), ~PassedReleased
  PROVE  Kept
<1>1. CASE HoldEmitted(t) \/ TerminalEmitted(t)
  BY <1>1, WalkedWalks, SameKept, WalkParts DEF HoldEmitted, TerminalEmitted
<1>2. CASE BlockEmitted(t) \/ HeldEmitted(t)
  BY <1>2, BlockedWalks, SameKept, WalkParts DEF BlockEmitted, HeldEmitted
<1>3. CASE ClearEmitted(t) \/ UnlockEmitted(t)
  BY <1>3, SameKept DEF ClearEmitted, UnlockEmitted, PassedReleased
<1>4. CASE StartEmitted(t)
  <2>1. UNCHANGED queue
    BY <1>4 DEF StartEmitted
  <2>2. HeldGrows
    <3> DEFINE x == CHOOSE y \in TerminalOf(admission) : TRUE
    <3>1. CASE UNCHANGED held
      BY <3>1 DEF HeldGrows, Held
    <3>2. CASE TerminalOf(admission) # {} /\ SettleRelease(t, task[t], x.turn, x.status, "finish")
      <4>1. x \in Outcome
        BY <3>2, AllParts, AdmissionType, WalkParts
      <4>2. x.turn \in AnyTurn /\ x.status \in Statuses /\ "finish" \in Onward
        BY <4>1 DEF Outcome, Onward
      <4> HIDE DEF x
      <4> QED BY <3>2, <4>2, SettleReleaseWalks, WalkParts
    <3> QED BY <1>4, <3>1, <3>2 DEF StartEmitted
  <2> QED BY <2>1, <2>2, SameKept
<1>5. CASE FailureEmitted(t) \/ SteerEmitted(t) \/ SteerLeaves(t, "leaving") \/ InputEdited(t)
  BY <1>5, StillKept DEF FailureEmitted, SteerEmitted, SteerLeaves, InputEdited, fifo
<1> QED BY <1>1, <1>2, <1>3, <1>4, <1>5 DEF Emitted

LEMMA AnswerThrough ==
  ASSUME WalkInv, NEW t \in Tasks, Answer(t), ~PutBackPassed
  PROVE  Kept
<1>1. CASE StartAcknowledged(t) \/ SteerAccepted(t)
  BY <1>1, StillKept DEF StartAcknowledged, SteerAccepted, fifo
<1>2. CASE DirectStartRejected(t)
  <2>1. CASE HoldAfterTurnFailure(t, task[t], "failed")
    BY <1>2, <2>1, FailureWalks, SameKept, WalkParts DEF DirectStartRejected, Onward
  <2> QED BY <1>2, <2>1, StillKept DEF DirectStartRejected
<1>3. ASSUME NEW r, QueuedStartRejected(t, r) \/ SteerRejected(t, r) PROVE Kept
  <2>1. PutBack(t, task[t].entry) /\ InFlight(t) /\ UNCHANGED held
    BY <1>3 DEF QueuedStartRejected, SteerRejected, Block, Refuse, InFlight
  <2> QED BY <2>1, PutBackThrough DEF HeldGrows, Held
<1>4. ASSUME NEW retry \in BOOLEAN, SteerDeclined(t, retry) PROVE Kept
  <2> DEFINE tk == [task[t] EXCEPT !.early = retry, !.rev = 0]
             c  == [tk EXCEPT !.reason = NewestReason, !.keep = TRUE,
                              !.then = "steerBack", !.i = 1]
  <2>1. tk.pc = task[t].pc /\ tk.entry = task[t].entry
    BY WalkParts DEF Chain
  <2>2. PutBack(t, task[t].entry) /\ InFlight(t)
    BY <1>4, <2>1 DEF SteerDeclined, InFlight
  <2>3. CASE reasons # << >> /\ revision # task[t].rev
    <3>1. HoldOnward(t, c, queue')
      BY <1>4, <2>3 DEF SteerDeclined
    <3>2. NewestReason \in Reasons /\ NewestReason \in AnyReason
      BY <2>3, NewestReasonType, WalkParts
    <3>3. tk \in Chain
      <4>1. 0 \in Revisions
        BY MaxRevisionType DEF Revisions
      <4> QED BY <4>1, FieldType, WalkParts
    <3> HIDE DEF tk
    <3>4. c \in Chain
      <4>1. TRUE \in BOOLEAN /\ "steerBack" \in Onward /\ 1 \in Nat
        BY DEF Onward
      <4> QED BY <3>2, <3>3, <4>1, FieldType
    <3>5. c.reason = NewestReason
      BY <3>3 DEF Chain
    <3> HIDE DEF c
    <3>6. HeldGrows
      BY <3>1, <3>2, <3>4, <3>5, HoldOnwardWalks, WalkParts
    <3> QED BY <2>2, <3>6, PutBackThrough
  <2>4. CASE ~(reasons # << >> /\ revision # task[t].rev)
    <3>1. HeldGrows
      BY <1>4, <2>4 DEF SteerDeclined, HeldGrows, Held
    <3> QED BY <2>2, <3>1, PutBackThrough
  <2> QED BY <2>3, <2>4
<1> QED BY <1>1, <1>2, <1>3, <1>4 DEF Answer

LEMMA ReportThrough ==
  ASSUME WalkInv, NEW n \in notices, Report(n)
  PROVE  Kept
<1>1. ASSUME NEW t \in Tasks, Release(t, n) PROVE Kept
  BY <1>1, ReportedRelease, SameKept, WalkParts DEF Release
<1> QED BY <1>1, StillKept DEF Report, ReleaseBuffered, ReleaseIgnored, ReleaseCoalesced, fifo

LEMMA NextThrough ==
  ASSUME WalkInv, [Next /\ ~PassedCancelled /\ ~PassedReleased /\ ~PutBackPassed]_vars
  PROVE  Kept
<1>1. CASE UNCHANGED vars
  BY <1>1, StillKept DEF vars, fifo
<1> SUFFICES ASSUME Next, ~PassedCancelled, ~PassedReleased, ~PutBackPassed PROVE Kept
  BY <1>1
<1>2. CASE DrainFires
  <2>1. ASSUME NEW t \in Tasks, NEW can \in BOOLEAN, Claim(t, "drain", can) PROVE Kept
    BY <2>1, ClaimThrough
  <2> QED BY <1>2, <2>1, StillKept DEF DrainFires, fifo
<1>3. CASE Backend
  BY <1>3, StillKept DEF Backend, TurnBegins, ExternalTurnBegins, IdleReported, TurnEnds,
                         OutcomeRepeated, Notify, fifo
<1>4. CASE GateDue \/ GateOpens \/ GateQuiets
  BY <1>4, StillKept DEF GateDue, GateOpens, GateQuiets, GateMoves, fifo
<1> QED BY <1>2, <1>3, <1>4, ProceedThrough, EmittedThrough, AnswerThrough, ReportThrough,
           SubmissionThrough DEF Next

LEMMA WalkInit == Init => WalkInv
<1> SUFFICES ASSUME Init PROVE WalkInv
  OBVIOUS
<1>1. MessageInv /\ ReleaseInv
  BY MessageInit, ReleaseInit
<1>2. \A t \in Tasks : task[t].pc = "idle"
  BY DEF Init, IdleTask
<1> QED BY <1>1, <1>2 DEF WalkInv

LEMMA WalkNext ==
  WalkInv /\ [Next /\ ~PassedCancelled /\ ~PassedReleased /\ ~PutBackPassed]_vars => WalkInv'
<1> SUFFICES ASSUME WalkInv, [Next /\ ~PassedCancelled /\ ~PassedReleased /\ ~PutBackPassed]_vars
             PROVE  WalkInv'
  OBVIOUS
<1>1. [Next]_vars
  OBVIOUS
<1>2. MessageInv' /\ ReleaseInv'
  BY <1>1, MessageNext, ReleaseNext, WalkParts
<1>3. TypeOK'
  BY <1>1, TypeNext, WalkParts
<1>4. WalkStep
  BY <1>1, WalkSteps, WalkParts
<1>5. Kept
  BY NextThrough
<1>6. \A t \in Tasks : task'[t].pc = "holding" => Through(task'[t].i, queue', held')
  BY <1>3, <1>4, <1>5, KeptAdvances
<1> QED BY <1>2, <1>6 DEF WalkInv, Through

(* While holdQueue walks the FIFO, every entry behind the index of the walk *)
(* is held, whatever starts, steers, moves and submissions interleave with  *)
(* its emits, unless an entry it has passed is cancelled, has its hold      *)
(* taken off by Retry or an unlock, or one that was refused is put back     *)
(* among them (holdQueue, cancelEntry, clearQueueHold, restoreAfter).       *)
THEOREM WalksHoldWhatTheyPass == WalkedSpec => []WalkHolds
<1>1. Init => WalkInv
  BY WalkInit
<1>2. WalkInv /\ [Next /\ ~PassedCancelled /\ ~PassedReleased /\ ~PutBackPassed]_vars => WalkInv'
  BY WalkNext
<1>3. WalkInv => WalkHolds
  BY WalkParts DEF WalkInv, WalkHolds, Through, Held
<1> QED BY <1>1, <1>2, <1>3, PTL DEF WalkedSpec

-----------------------------------------------------------------------------
(* The reasons of a hold: each of them is there once. *)

LEMMA AppendOnce ==
  ASSUME NEW S, NEW s \in Seq(S), Once(s), NEW e \in S, e \notin Waiting(s)
  PROVE  Once(Append(s, e)) /\ Waiting(Append(s, e)) = Waiting(s) \union {e}
<1> DEFINE r == Append(s, e)
<1>1. /\ Len(s) \in Nat /\ Len(r) = Len(s) + 1 /\ r[Len(s) + 1] = e
      /\ \A i \in 1..Len(s) : r[i] = s[i]
  OBVIOUS
<1>2. \A i \in 1..Len(s) : s[i] # e
  BY DEF Waiting
<1> HIDE DEF r
<1>3. Once(r)
  BY <1>1, <1>2 DEF Once
<1>4. Waiting(r) = Waiting(s) \union {e}
  <2>1. \A i \in 1..Len(s) : i \in 1..Len(r)
    BY <1>1
  <2>2. \A i \in 1..Len(r) : i \in 1..Len(s) \/ i = Len(s) + 1
    BY <1>1
  <2>3. Len(s) + 1 \in 1..Len(r)
    BY <1>1
  <2> QED BY <1>1, <2>1, <2>2, <2>3 DEF Waiting
<1> QED BY <1>3, <1>4 DEF r

LEMMA RemoveFirstOnce ==
  ASSUME NEW S, NEW s \in Seq(S), Once(s), NEW e
  PROVE  /\ Once(RemoveFirst(s, e)) /\ Waiting(RemoveFirst(s, e)) = Waiting(s) \ {e}
         /\ RemoveFirst(s, e) \in Seq(S)
<1> DEFINE I == {i \in 1..Len(s) : s[i] = e}
           r == RemoveFirst(s, e)
<1>1. CASE I = {}
  <2>1. r = s
    BY <1>1 DEF RemoveFirst
  <2>2. e \notin Waiting(s)
    BY <1>1 DEF Waiting
  <2> QED BY <2>1, <2>2
<1>2. CASE I # {}
  <2>1. Min(I) \in I
    <3>1. I \in SUBSET Nat
      OBVIOUS
    <3> HIDE DEF I
    <3> QED BY <1>2, <3>1, MinIn
  <2>2. PICK w \in 1..Len(s) : s[w] = e /\ r = RemoveAt(s, w)
    BY <1>2, <2>1 DEF RemoveFirst, SelectInSeq
  <2>3. r \in Seq(S) /\ Once(r) /\ Waiting(r) = Waiting(s) \ {e}
    BY <2>2, RemoveAtType, RemoveOnce
  <2> QED BY <2>3
<1> QED BY <1>1, <1>2

(* A hold that is added to gets a reason and a revision nobody remembers.   *)
LEMMA HoldAdded ==
  ASSUME TypeOK, Once(reasons), NEW r \in Reasons, AddHoldReason(r)
  PROVE  /\ hold' # hold /\ Once(reasons')
         /\ Waiting(reasons') = Waiting(reasons) \union {r}
<1>1. reasons \in Seq(Reasons) /\ TaskOK
  BY AllParts DEF HoldOK
<1> DEFINE s == RemoveFirst(reasons, r)
<1>2. s \in Seq(Reasons) /\ Once(s) /\ Waiting(s) = Waiting(reasons) \ {r}
  BY <1>1, RemoveFirstOnce
<1>3. reasons' = Append(s, r) /\ revision' = NewRevision
  BY DEF AddHoldReason
<1> HIDE DEF s
<1>4. Once(reasons') /\ Waiting(reasons') = Waiting(reasons) \union {r}
  BY <1>2, <1>3, AppendOnce
<1>5. revision' # revision
  BY <1>1, <1>3, NewRevisionType DEF TaskOK
<1> QED BY <1>4, <1>5

LEMMA OnlyReasonsOnce ==
  ASSUME NEW s \in Seq(Reasons), Once(s), NEW K
  PROVE  Once(OnlyReasons(s, K)) /\ Waiting(OnlyReasons(s, K)) = Waiting(s) \intersect K
<1> DEFINE drop(q, r) == IF r \in K THEN q ELSE RemoveFirst(q, r)
           a == drop(s, "lock")
           b == drop(a, "review")
           c == drop(b, "refused")
           d == drop(c, "failed")
<1>1. \A q \in Seq(Reasons) : \A r : Once(q) =>
        /\ drop(q, r) \in Seq(Reasons) /\ Once(drop(q, r))
        /\ Waiting(drop(q, r)) = Waiting(q) \ ({r} \ K)
  BY RemoveFirstOnce
<1>2. OnlyReasons(s, K) = d
  BY DEF OnlyReasons
<1> HIDE DEF drop
<1>3. a \in Seq(Reasons) /\ Once(a) /\ Waiting(a) = Waiting(s) \ ({"lock"} \ K)
  BY <1>1
<1> HIDE DEF a
<1>4. b \in Seq(Reasons) /\ Once(b) /\ Waiting(b) = Waiting(a) \ ({"review"} \ K)
  BY <1>1, <1>3
<1> HIDE DEF b
<1>5. c \in Seq(Reasons) /\ Once(c) /\ Waiting(c) = Waiting(b) \ ({"refused"} \ K)
  BY <1>1, <1>4
<1> HIDE DEF c
<1>6. Once(d) /\ Waiting(d) = Waiting(c) \ ({"failed"} \ K)
  BY <1>1, <1>5
<1> HIDE DEF d
<1>7. Waiting(s) \subseteq Reasons
  BY DEF Waiting
<1> QED BY <1>2, <1>3, <1>4, <1>5, <1>6, <1>7 DEF Reasons
-----------------------------------------------------------------------------
(* The holds of the entries, the hold of the FIFO and the walks agree.      *)

Walking(c) == LettingGo(c) \/ c.pc = "holding"

(* Chains that have told heldQueues of a hold, or will tell it how one ends.*)
Settling == {"blocked", "queuedHeld", "unlocking"}

AnyHeld == \E e \in Waiting(queue) : Held(e)

(* An unlock knows every reason it has passed, and meets no others.         *)
Collected(c) ==
  /\ c.snap = reasons
  /\ \A j \in 1..(c.i - 1) : Held(queue[j]) => held[queue[j]] \in c.kept
  /\ \A r \in c.kept : \E j \in 1..(c.i - 1) : held[queue[j]] = r
  /\ c.ahead \in c.kept \union {NoReason}

Fits(c) ==
  /\ c.pc = "holding" /\ c.i # 0 => c.i >= 2 /\ c.reason \in Waiting(reasons)
  /\ LettingGo(c) => c.i \in 2..(Len(queue) + 1)
  /\ c.pc = "clearing" => reasons = << >> /\ \A j \in 1..(c.i - 1) : ~Held(queue[j])
  /\ c.pc = "unlocking" => Collected(c)

Apart == \A t, u \in Tasks : LettingGo(task[t]) /\ Walking(task[u]) => t = u

Agreed ==
  /\ Once(reasons)
  /\ \A e \in Entries : Held(e) =>
       /\ e \in Waiting(queue)
       /\ held[e] \in Waiting(reasons) \/ \E t \in Tasks : task[t].pc = "clearing"
  /\ reasons # << >> =>
       queue # << >> /\ (AnyHeld \/ \E t \in Tasks : task[t].pc \in Settling)
  /\ \A t \in Tasks : Fits(task[t])
  /\ Apart

AgreeInv == WalkInv /\ Agreed

(* A step of a chain that lets nothing go.  Every chain stays, or leaves    *)
(* what it did; or holds on, for a reason the FIFO is held for.  An entry   *)
(* keeps its reason or takes one of the FIFO's.  And the FIFO's hold gets   *)
(* a reason, or is dropped when nothing is held.                            *)
Same(u) ==
  task'[u] = task[u] \/ (queue' = << >> /\ task'[u] = [task[u] EXCEPT !.i = 0])

Leaves(u) == ~LettingGo(task[u]) /\ ~Walking(task'[u])

Holds(u) ==
  /\ ~LettingGo(task[u]) /\ (task[u].pc = "holding" \/ hold' # hold)
  /\ task'[u].pc = "holding" /\ task'[u].i >= 2 /\ task'[u].reason \in Waiting(reasons')

EntriesAgree ==
  \A e \in Entries : held'[e] # NoReason =>
    e \in Waiting(queue') /\ (held'[e] = held[e] \/ held'[e] \in Waiting(reasons'))

HoldAgrees ==
  \/ reasons' = reasons
  \/ hold' # hold /\ Once(reasons') /\ Waiting(reasons) \subseteq Waiting(reasons')
  \/ reasons' = << >> /\ \A e \in Waiting(queue') : held'[e] = NoReason

StillCarried ==
  reasons' # << >> =>
    \/ \E e \in Waiting(queue') : held'[e] # NoReason
    \/ queue' # << >> /\ \E u \in Tasks : task'[u].pc \in {"blocked", "queuedHeld"}
    \/ /\ UNCHANGED reasons /\ (queue # << >> => queue' # << >>) /\ HeldGrows
       /\ \A u \in Tasks : task[u].pc \in Settling => task'[u].pc = task[u].pc

Ordinary ==
  /\ \A u \in Tasks : Same(u) \/ Leaves(u) \/ Holds(u)
  /\ EntriesAgree /\ HoldAgrees /\ StillCarried

LEMMA AgreeParts ==
  ASSUME AgreeInv
  PROVE  /\ WalkInv /\ Agreed /\ TypeOK /\ MessageInv /\ ReleaseInv
         /\ queue \in Seq(Entries) /\ Len(queue) \in Nat /\ Once(queue)
         /\ held \in [Entries -> AnyReason] /\ reasons \in Seq(Reasons)
         /\ \A u \in Tasks : task[u] \in Chain /\ task[u].i \in Nat
         /\ Waiting(queue) \subseteq Entries
BY WalkParts, AllParts, MessageParts DEF AgreeInv, HoldOK

(* A chain that lets go stays as it is, undisturbed.                        *)
LEMMA LetGoStays ==
  ASSUME AgreeInv, ~LetGoDisturbed, NEW t \in Tasks, LettingGo(task[t]), Same(t)
  PROVE  /\ task'[t] = task[t] /\ reasons' = reasons /\ hold' = hold
         /\ \A j \in 1..(task[t].i - 1) :
              /\ j \in 1..Len(queue) /\ j \in DOMAIN queue' /\ queue'[j] = queue[j]
              /\ held'[queue[j]] = held[queue[j]]
         /\ 1 \in 1..(task[t].i - 1)
<1>1. ~PassedChanged(task[t])
  BY DEF LetGoDisturbed
<1>2. task[t].i \in 2..(Len(queue) + 1)
  BY AgreeParts DEF Agreed, Fits
<1>3. 1 \in 1..(task[t].i - 1) /\ \A j \in 1..(task[t].i - 1) : j \in 1..Len(queue)
  BY <1>2, AgreeParts
<1>4. \A j \in 1..(task[t].i - 1) :
        j \in DOMAIN queue' /\ queue'[j] = queue[j] /\ held'[queue[j]] = held[queue[j]]
  BY <1>1 DEF PassedChanged
<1>5. task'[t] = task[t]
  <2>1. queue' # << >>
    BY <1>3, <1>4
  <2> QED BY <2>1 DEF Same
<1>6. hold' = hold
  BY <1>5 DEF LetGoDisturbed
<1> QED BY <1>3, <1>4, <1>5, <1>6

LEMMA OrdinaryAgrees ==
  ASSUME AgreeInv, WalkInv', Ordinary, ~LetGoDisturbed
  PROVE  Agreed'
<1>1. \A t \in Tasks : LettingGo(task'[t]) => LettingGo(task[t]) /\ Same(t)
  <2> SUFFICES ASSUME NEW t \in Tasks, LettingGo(task'[t])
               PROVE  LettingGo(task[t]) /\ Same(t)
    OBVIOUS
  <2>1. Same(t)
    BY DEF Ordinary, Leaves, Holds, Walking, LettingGo
  <2>2. [task[t] EXCEPT !.i = 0].pc = task[t].pc
    BY AgreeParts DEF Chain
  <2> QED BY <2>1, <2>2 DEF Same, LettingGo
<1>2. \A t \in Tasks : LettingGo(task[t]) => Same(t)
  BY DEF Ordinary, Leaves, Holds
<1>3. /\ queue' \in Seq(Entries) /\ Len(queue') \in Nat /\ reasons' \in Seq(Reasons)
      /\ Waiting(queue') \subseteq Entries /\ held' \in [Entries -> AnyReason]
  <2>1. TypeOK'
    BY DEF WalkInv, ReleaseInv, HandoffInv
  <2>2. queue' \in Seq(Entries) /\ reasons' \in Seq(Reasons) /\ held' \in [Entries -> AnyReason]
    BY <2>1 DEF TypeOK, FifoOK, HoldOK
  <2> QED BY <2>2 DEF Waiting
<1>4. Once(reasons')
  <2>1. Once(<< >>)
    BY DEF Once
  <2> QED BY <2>1, AgreeParts DEF Ordinary, HoldAgrees, Agreed
<1>5. \A e \in Entries : held'[e] # NoReason =>
        /\ e \in Waiting(queue')
        /\ held'[e] \in Waiting(reasons') \/ \E t \in Tasks : task'[t].pc = "clearing"
  <2> SUFFICES ASSUME NEW e \in Entries, held'[e] # NoReason, held'[e] \notin Waiting(reasons')
               PROVE  \E t \in Tasks : task'[t].pc = "clearing"
    BY DEF Ordinary, EntriesAgree
  <2>1. e \in Waiting(queue') /\ held'[e] = held[e]
    BY DEF Ordinary, EntriesAgree
  <2>2. held[e] \notin Waiting(reasons)
    BY <2>1 DEF Ordinary, HoldAgrees
  <2>3. PICK t \in Tasks : task[t].pc = "clearing"
    BY <2>1, <2>2, AgreeParts DEF Agreed, Held
  <2>4. task'[t] = task[t]
    BY <1>2, <2>3, LetGoStays DEF LettingGo
  <2> QED BY <2>3, <2>4
<1>6. reasons' # << >> =>
        /\ queue' # << >>
        /\ \/ \E e \in Waiting(queue') : held'[e] # NoReason
           \/ \E t \in Tasks : task'[t].pc \in Settling
  <2> SUFFICES ASSUME reasons' # << >>
               PROVE  /\ queue' # << >>
                      /\ \/ \E e \in Waiting(queue') : held'[e] # NoReason
                         \/ \E t \in Tasks : task'[t].pc \in Settling
    OBVIOUS
  <2>1. CASE \E e \in Waiting(queue') : held'[e] # NoReason
    <3>1. queue' # << >>
      BY <2>1 DEF Waiting
    <3> QED BY <2>1, <3>1
  <2>2. CASE queue' # << >> /\ \E u \in Tasks : task'[u].pc \in {"blocked", "queuedHeld"}
    BY <2>2 DEF Settling
  <2>3. CASE /\ UNCHANGED reasons /\ (queue # << >> => queue' # << >>) /\ HeldGrows
             /\ \A u \in Tasks : task[u].pc \in Settling => task'[u].pc = task[u].pc
    <3>1. queue # << >> /\ (AnyHeld \/ \E t \in Tasks : task[t].pc \in Settling)
      BY <2>3, AgreeParts DEF Agreed
    <3>2. CASE AnyHeld
      <4>1. PICK e \in Waiting(queue) : Held(e)
        BY <3>2 DEF AnyHeld
      <4>2. e \in Entries /\ held'[e] # NoReason
        BY <2>3, <4>1, AgreeParts DEF HeldGrows, Held
      <4>3. e \in Waiting(queue')
        BY <4>2 DEF Ordinary, EntriesAgree
      <4> QED BY <2>3, <3>1, <4>2, <4>3
    <3> QED BY <2>3, <3>1, <3>2
  <2> QED BY <2>1, <2>2, <2>3 DEF Ordinary, StillCarried
<1>7. ASSUME NEW t \in Tasks PROVE Fits(task[t])'
  <2>1. CASE task'[t].pc = "holding"
    <3> SUFFICES ASSUME task'[t].i # 0
                 PROVE  task'[t].i >= 2 /\ task'[t].reason \in Waiting(reasons')
      BY <2>1 DEF Fits, LettingGo
    <3>1. CASE Holds(t)
      BY <3>1 DEF Holds
    <3>2. CASE Same(t)
      <4>1. task'[t] = task[t]
        <5>1. [task[t] EXCEPT !.i = 0].i = 0
          BY AgreeParts DEF Chain
        <5> QED BY <3>2, <5>1 DEF Same
      <4>2. task[t].i >= 2 /\ task[t].reason \in Waiting(reasons)
        BY <2>1, <4>1, AgreeParts DEF Agreed, Fits
      <4>3. ~(reasons' = << >> /\ \A e \in Waiting(queue') : held'[e] = NoReason)
        <5>1. Through(task'[t].i, queue', held')
          BY <2>1 DEF WalkInv, Through
        <5>2. 1 \in 1..Len(queue') /\ 1 < task'[t].i
          BY <1>3, <4>1, <4>2, <5>1, AgreeParts DEF Through
        <5>3. held'[queue'[1]] # NoReason /\ queue'[1] \in Waiting(queue')
          BY <5>1, <5>2 DEF Through, Waiting
        <5> QED BY <5>3
      <4> QED BY <4>1, <4>2, <4>3 DEF Ordinary, HoldAgrees
    <3> QED BY <2>1, <3>1, <3>2 DEF Ordinary, Leaves, Walking
  <2>2. CASE LettingGo(task'[t])
    <3>1. LettingGo(task[t]) /\ Same(t)
      BY <1>1, <2>2
    <3>2. /\ task'[t] = task[t] /\ reasons' = reasons
          /\ \A j \in 1..(task[t].i - 1) :
               /\ j \in 1..Len(queue) /\ j \in DOMAIN queue' /\ queue'[j] = queue[j]
               /\ held'[queue[j]] = held[queue[j]]
      BY <3>1, LetGoStays
    <3>3. Fits(task[t]) /\ task[t].i \in 2..(Len(queue) + 1)
      BY <3>1, AgreeParts DEF Agreed, Fits
    <3>4. task[t].i \in 2..(Len(queue') + 1)
      <4>1. task[t].i - 1 \in 1..(task[t].i - 1)
        BY <3>3, AgreeParts
      <4>2. task[t].i - 1 \in 1..Len(queue')
        BY <1>3, <3>2, <4>1
      <4> QED BY <1>3, <3>3, <4>2, AgreeParts
    <3>5. \A j \in 1..(task[t].i - 1) : held'[queue'[j]] = held[queue[j]]
      BY <3>2
    <3> QED BY <2>2, <3>2, <3>3, <3>4, <3>5 DEF Fits, Collected, LettingGo, Held
  <2> QED BY <2>1, <2>2 DEF Fits, LettingGo
<1>8. ASSUME NEW t \in Tasks, NEW u \in Tasks, LettingGo(task'[t]), Walking(task'[u])
      PROVE  t = u
  <2>1. LettingGo(task[t]) /\ hold' = hold
    BY <1>1, <1>8, LetGoStays
  <2>2. Walking(task[u])
    <3>1. [task[u] EXCEPT !.i = 0].pc = task[u].pc
      BY AgreeParts DEF Chain
    <3> QED BY <1>8, <2>1, <3>1 DEF Ordinary, Same, Leaves, Holds, Walking, LettingGo
  <2> QED BY <2>1, <2>2, AgreeParts DEF Agreed, Apart
<1> QED BY <1>4, <1>5, <1>6, <1>7, <1>8 DEF Agreed, Apart, AnyHeld, Held
-----------------------------------------------------------------------------
(* What the operations of the queue do to the holds.                        *)

(* No chain but t goes on, and t was not at a walk and does not begin one.  *)
Passes(t) ==
  /\ Alone(t) /\ task[t].pc \notin Settling \union {"clearing"} /\ ~Walking(task'[t])

LEMMA CarriedOn ==
  ASSUME AgreeInv, UNCHANGED reasons, UNCHANGED task \/ \E t \in Tasks : Passes(t),
         EntriesAgree, HeldGrows, queue # << >> => queue' # << >>
  PROVE  Ordinary
<1>1. \A u \in Tasks : Same(u) \/ Leaves(u)
  BY DEF Passes, Alone, Same, Leaves, Settling, LettingGo
<1>2. \A u \in Tasks : task[u].pc \in Settling => task'[u].pc = task[u].pc
  BY DEF Passes, Alone
<1> QED BY <1>1, <1>2 DEF Ordinary, HoldAgrees, StillCarried

LEMMA RestOrdinary ==
  ASSUME AgreeInv, UNCHANGED <<queue, held, hold>>, UNCHANGED task \/ \E t \in Tasks : Passes(t)
  PROVE  Ordinary
<1>1. EntriesAgree /\ HeldGrows
  BY AgreeParts DEF EntriesAgree, HeldGrows, Agreed, Held
<1> QED BY <1>1, CarriedOn

LEMMA SetPasses ==
  ASSUME TypeOK, NEW t \in Tasks, task[t].pc \notin Settling \union {"clearing"},
         NEW c, task' = [task EXCEPT ![t] = c], ~Walking(c)
  PROVE  Passes(t)
BY SetAlone DEF Passes

LEMMA GotoPasses ==
  ASSUME TypeOK, NEW t \in Tasks, task[t].pc \notin Settling \union {"clearing"},
         NEW tk, NEW pc \in Onward \union {"left"}, task' = [task EXCEPT ![t] = Goto(tk, pc)]
  PROVE  Passes(t)
<1>1. ~Walking(Goto(tk, pc))
  BY GotoHands DEF Onward, Walking, LettingGo
<1> QED BY <1>1, SetPasses

LEMMA ReturnPasses ==
  ASSUME TypeOK, NEW t \in Tasks, task[t].pc \notin Settling \union {"clearing"}, Return(t)
  PROVE  Passes(t)
<1> DEFINE pc == IF task[t].ctx = "edit" THEN "left" ELSE "idle"
<1>1. task' = [task EXCEPT ![t] = Goto(task[t], pc)] /\ pc \in Onward \union {"left"}
  BY DEF Return, Onward
<1> HIDE DEF pc
<1> QED BY <1>1, GotoPasses

LEMMA LeavePasses ==
  ASSUME TypeOK, NEW t \in Tasks, task[t].pc = "editing" \/ task[t].pc \in {"leaving", "left"},
         LeaveEdit(t, IdleTask)
  PROVE  Passes(t)
<1>1. ~Walking(IdleTask)
  BY DEF IdleTask, Walking, LettingGo
<1> QED BY <1>1, SetPasses DEF LeaveEdit, Settling

LEMMA StartPasses ==
  ASSUME TypeOK, NEW t \in Tasks, NEW e, NEW ctx, StartEntry(t, e, ctx),
         task[t].pc \notin Settling \union {"clearing"}
  PROVE  Passes(t)
<1> DEFINE c == [IdleTask EXCEPT !.pc = "starting", !.ctx = ctx, !.entry = e]
<1>1. task' = [task EXCEPT ![t] = c] /\ ~Walking(c)
  BY DEF StartEntry, IdleTask, Walking, LettingGo
<1> HIDE DEF c
<1> QED BY <1>1, SetPasses

(* holdQueue: the walk stops at an entry that it holds, or ends.            *)
LEMMA HoldsOnward ==
  ASSUME TypeOK, NEW t \in Tasks, NEW tk \in Chain, NEW q \in Seq(Entries),
         HoldOnward(t, tk, q)
  PROVE  /\ Alone(t)
         /\ \/ HoldTargets(q, tk) = {} /\ held' = held /\ ~Walking(task'[t])
            \/ \E j \in 1..Len(q) :
                 /\ j \in HoldTargets(q, tk) /\ held' = [held EXCEPT ![q[j]] = tk.reason]
                 /\ task'[t].pc = "holding" /\ task'[t].i = j + 1
                 /\ task'[t].reason = tk.reason
<1> DEFINE J == HoldTargets(q, tk)
           j == Min(J)
           c == [tk EXCEPT !.pc = "holding", !.i = j + 1]
<1>1. tk.then \in Onward /\ Len(q) \in Nat /\ DOMAIN q = 1..Len(q)
  BY DEF Chain
<1>2. CASE J = {}
  <2>1. task' = [task EXCEPT ![t] = Goto(tk, tk.then)] /\ held' = held
    BY <1>2 DEF HoldOnward
  <2>2. ~Walking(Goto(tk, tk.then))
    BY <1>1, GotoHands DEF Onward, Walking, LettingGo
  <2> HIDE DEF J
  <2> QED BY <1>2, <2>1, <2>2, SetAlone DEF J
<1>3. CASE J # {}
  <2>1. task' = [task EXCEPT ![t] = c] /\ held' = [held EXCEPT ![q[j]] = tk.reason]
    BY <1>3 DEF HoldOnward
  <2>2. c.pc = "holding" /\ c.i = j + 1 /\ c.reason = tk.reason
    BY DEF Chain
  <2>3. j \in J /\ J \subseteq 1..Len(q)
    <3>1. J \in SUBSET Nat /\ J \subseteq 1..Len(q)
      BY <1>1 DEF HoldTargets
    <3> HIDE DEF J
    <3> QED BY <1>3, <3>1, MinIn
  <2> HIDE DEF c, j
  <2>4. Alone(t) /\ task'[t] = c
    BY <2>1, SetAlone
  <2> QED BY <2>1, <2>2, <2>3, <2>4
<1> QED BY <1>2, <1>3

LEMMA WalkBegins ==
  ASSUME AgreeInv, NEW t \in Tasks, ~LettingGo(task[t]),
         NEW tk \in Chain, tk.i = 1, tk.reason \in Reasons, AddHoldReason(tk.reason),
         queue' \in Seq(Entries), Waiting(queue) \subseteq Waiting(queue'), queue' # << >>,
         HoldOnward(t, tk, queue')
  PROVE  Ordinary
<1>1. /\ hold' # hold /\ Once(reasons')
      /\ Waiting(reasons') = Waiting(reasons) \union {tk.reason}
  BY HoldAdded, AgreeParts DEF Agreed
<1>2. HoldAgrees
  BY <1>1 DEF HoldAgrees
<1>3. 1 \in 1..Len(queue') /\ queue'[1] \in Waiting(queue')
  <2>1. Len(queue') # 0 /\ Len(queue') \in Nat
    OBVIOUS
  <2>2. 1 \in 1..Len(queue')
    BY <2>1
  <2> QED BY <2>2 DEF Waiting
<1>4. \A e \in Entries : held[e] # NoReason => e \in Waiting(queue')
  BY AgreeParts DEF Agreed, Held
<1>5. Alone(t)
  BY HoldsOnward, AgreeParts
<1>6. CASE HoldTargets(queue', tk) = {} /\ held' = held /\ ~Walking(task'[t])
  <2>1. Held(queue'[1])
    BY <1>3, <1>6 DEF HoldTargets
  <2>2. StillCarried
    BY <1>3, <1>6, <2>1 DEF StillCarried, Held
  <2>3. EntriesAgree
    BY <1>4, <1>6 DEF EntriesAgree
  <2>4. \A u \in Tasks : Same(u) \/ Leaves(u)
    BY <1>5, <1>6 DEF Alone, Same, Leaves
  <2> QED BY <1>2, <2>2, <2>3, <2>4 DEF Ordinary
<1>7. ASSUME NEW j \in 1..Len(queue'), held' = [held EXCEPT ![queue'[j]] = tk.reason],
             task'[t].pc = "holding", task'[t].i = j + 1, task'[t].reason = tk.reason
      PROVE  Ordinary
  <2>1. queue'[j] \in Waiting(queue') /\ queue'[j] \in Entries
    BY DEF Waiting
  <2>2. tk.reason # NoReason
    BY DEF Reasons, NoReason
  <2>3. held'[queue'[j]] = tk.reason /\ \A e \in Entries : e # queue'[j] => held'[e] = held[e]
    BY <1>7, <2>1, AgreeParts
  <2>4. StillCarried
    BY <2>1, <2>2, <2>3 DEF StillCarried
  <2>5. EntriesAgree
    BY <1>1, <1>4, <2>1, <2>3 DEF EntriesAgree
  <2>6. Holds(t)
    BY <1>1, <1>7 DEF Holds
  <2>7. \A u \in Tasks : Same(u) \/ Holds(u)
    BY <1>5, <2>6 DEF Alone, Same
  <2> QED BY <1>2, <2>4, <2>5, <2>7 DEF Ordinary
<1> QED BY <1>6, <1>7, HoldsOnward, AgreeParts

LEMMA WalkGoesOn ==
  ASSUME AgreeInv, NEW t \in Tasks, HoldEmitted(t)
  PROVE  Ordinary
<1>1. /\ task[t].pc = "holding" /\ HoldOnward(t, task[t], queue)
      /\ UNCHANGED <<queue, reasons, revision>>
  BY DEF HoldEmitted
<1>2. Alone(t) /\ ~LettingGo(task[t]) /\ task[t].pc \notin Settling
  BY <1>1, HoldsOnward, AgreeParts DEF LettingGo, Settling
<1>3. \A e \in Entries : held[e] # NoReason => e \in Waiting(queue)
  BY AgreeParts DEF Agreed, Held
<1>4. CASE held' = held /\ ~Walking(task'[t])
  <2>1. Passes(t)
    BY <1>1, <1>2, <1>4 DEF Passes, Settling
  <2> QED BY <1>1, <1>4, <2>1, RestOrdinary
<1>5. ASSUME NEW j \in 1..Len(queue), j \in HoldTargets(queue, task[t]),
             held' = [held EXCEPT ![queue[j]] = task[t].reason],
             task'[t].pc = "holding", task'[t].i = j + 1, task'[t].reason = task[t].reason
      PROVE  Ordinary
  <2>1. queue[j] \in Waiting(queue) /\ queue[j] \in Entries
    BY AgreeParts DEF Waiting
  <2>2. task[t].reason \in Waiting(reasons) /\ task[t].reason # NoReason
    <3>1. task[t].i # 0
      BY <1>5 DEF HoldTargets
    <3>2. task[t].reason \in Waiting(reasons)
      BY <1>1, <3>1, AgreeParts DEF Agreed, Fits
    <3>3. task[t].reason \in Reasons
      BY <3>2, AgreeParts DEF Waiting
    <3> QED BY <3>2, <3>3 DEF Reasons, NoReason
  <2>3. /\ held'[queue[j]] = task[t].reason
        /\ \A e \in Entries : e # queue[j] => held'[e] = held[e]
    BY <1>5, <2>1, AgreeParts
  <2>4. EntriesAgree /\ HeldGrows
    BY <1>1, <1>3, <2>1, <2>2, <2>3 DEF EntriesAgree, HeldGrows, Held
  <2>5. StillCarried
    BY <1>1, <1>2, <2>4 DEF StillCarried, Alone
  <2>6. Holds(t)
    BY <1>1, <1>2, <1>5, <2>2 DEF Holds
  <2>7. \A u \in Tasks : Same(u) \/ Holds(u)
    BY <1>2, <2>6 DEF Alone, Same
  <2> QED BY <1>1, <2>4, <2>5, <2>7 DEF Ordinary, HoldAgrees
<1> QED BY <1>1, <1>4, <1>5, HoldsOnward, AgreeParts

LEMMA HoldQueueOrdinary ==
  ASSUME AgreeInv, NEW t \in Tasks, ~LettingGo(task[t]), NEW tk \in Chain, NEW r \in Reasons,
         NEW keep \in BOOLEAN, NEW then \in Onward, HoldQueue(t, tk, r, keep, then),
         UNCHANGED queue
  PROVE  Ordinary
<1>1. CASE queue = << >>
  <2>1. /\ task' = [task EXCEPT ![t] = Goto(tk, then)]
        /\ UNCHANGED <<reasons, revision, held>>
    BY <1>1 DEF HoldQueue
  <2>2. ~Walking(Goto(tk, then))
    BY GotoHands DEF Onward, Walking, LettingGo
  <2>3. \A u \in Tasks : Same(u) \/ Leaves(u)
    BY <2>1, <2>2, SetAlone, AgreeParts DEF Alone, Same, Leaves
  <2>4. reasons = << >>
    BY <1>1, AgreeParts DEF Agreed
  <2>5. EntriesAgree
    BY <2>1, AgreeParts DEF EntriesAgree, Agreed, Held
  <2> QED BY <2>1, <2>3, <2>4, <2>5 DEF Ordinary, HoldAgrees, StillCarried
<1>2. CASE queue # << >>
  <2> DEFINE loop == [tk EXCEPT !.reason = r, !.keep = keep, !.then = then, !.i = 1]
  <2>1. loop \in Chain
    <3>1. r \in AnyReason /\ 1 \in Nat
      BY DEF AnyReason
    <3> QED BY <3>1, FieldType
  <2>2. loop.i = 1 /\ loop.reason = r
    BY DEF Chain
  <2>3. AddHoldReason(r) /\ HoldOnward(t, loop, queue')
    BY <1>2 DEF HoldQueue
  <2> HIDE DEF loop
  <2> QED BY <1>2, <2>1, <2>2, <2>3, WalkBegins, AgreeParts
<1> QED BY <1>1, <1>2

LEMMA FailureOrdinary ==
  ASSUME AgreeInv, NEW t \in Tasks, task[t].pc \notin Settling \union {"clearing"},
         NEW tk \in Chain, NEW then \in Onward, HoldAfterTurnFailure(t, tk, then), UNCHANGED queue
  PROVE  Ordinary
<1>1. "failed" \in Reasons /\ FALSE \in BOOLEAN /\ ~LettingGo(task[t])
  BY DEF Reasons, LettingGo, Settling
<1>2. CASE HoldQueue(t, tk, "failed", FALSE, then)
  BY <1>1, <1>2, HoldQueueOrdinary
<1>3. CASE task' = [task EXCEPT ![t] = Goto(tk, then)] /\ UNCHANGED <<hold, held>>
  <2>1. Passes(t)
    BY <1>3, GotoPasses, AgreeParts
  <2> QED BY <1>3, <2>1, RestOrdinary
<1> QED BY <1>2, <1>3 DEF HoldAfterTurnFailure

LEMMA SettleReleaseOrdinary ==
  ASSUME AgreeInv, NEW t \in Tasks, task[t].pc \notin Settling \union {"clearing"},
         NEW tk \in Chain, NEW turn \in AnyTurn, NEW s \in Statuses,
         NEW then \in Onward, SettleRelease(t, tk, turn, s, then), UNCHANGED queue
  PROVE  Ordinary
<1> DEFINE ended == [tk EXCEPT !.turn = turn, !.status = s, !.then = then]
           c     == [ended EXCEPT !.pc = "ended"]
<1>1. ended \in Chain
  BY FieldType
<1>2. \/ task' = [task EXCEPT ![t] = c] /\ UNCHANGED <<hold, held>>
      \/ HoldAfterTurnFailure(t, ended, then)
      \/ task' = [task EXCEPT ![t] = Goto(ended, then)] /\ UNCHANGED <<hold, held>>
  BY DEF SettleRelease
<1> HIDE DEF ended
<1>3. ~Walking(c)
  BY <1>1 DEF Chain, Walking, LettingGo
<1> HIDE DEF c
<1>4. CASE task' = [task EXCEPT ![t] = c] /\ UNCHANGED <<hold, held>>
  BY <1>3, <1>4, SetPasses, RestOrdinary, AgreeParts
<1>5. CASE HoldAfterTurnFailure(t, ended, then)
  BY <1>1, <1>5, FailureOrdinary
<1>6. CASE task' = [task EXCEPT ![t] = Goto(ended, then)] /\ UNCHANGED <<hold, held>>
  BY <1>6, GotoPasses, RestOrdinary, AgreeParts
<1> QED BY <1>2, <1>4, <1>5, <1>6
LEMMA NewestReasonIn ==
  ASSUME TypeOK, reasons # << >>
  PROVE  NewestReason \in Waiting(reasons) /\ NewestReason # NoReason
<1>1. reasons \in Seq(Reasons)
  BY AllParts DEF HoldOK
<1>2. Len(reasons) \in 1..Len(reasons) /\ NewestReason = reasons[Len(reasons)]
  BY <1>1 DEF NewestReason, Last
<1>3. NewestReason \in Reasons
  BY <1>1, <1>2
<1> QED BY <1>2, <1>3 DEF Waiting, Reasons, NoReason

LEMMA SomeWait ==
  ASSUME NEW q \in Seq(Entries)
  PROVE  q # << >> <=> Waiting(q) # {}
<1>1. Len(q) \in Nat /\ (q # << >> => Len(q) # 0)
  OBVIOUS
<1>2. q # << >> => 1 \in 1..Len(q)
  BY <1>1
<1> QED BY <1>2 DEF Waiting

LEMMA AppendOrdinary ==
  ASSUME AgreeInv, NEW e \in Entries, fate[e] \in Fresh, queue' = Append(queue, e),
         UNCHANGED hold, UNCHANGED task \/ \E t \in Tasks : Passes(t),
         held' = held \/ held' = [held EXCEPT ![e] = NewestReason]
  PROVE  Ordinary
<1>1. e \notin Waiting(queue)
  BY FreshIsNowhere, AgreeParts
<1>2. Waiting(queue') = Waiting(queue) \union {e} /\ queue' # << >>
  <2>1. Waiting(queue') = Waiting(queue) \union {e} /\ queue' \in Seq(Entries)
    BY <1>1, AppendWaits, AgreeParts
  <2> QED BY <2>1, SomeWait
<1>3. NewestReason = NoReason \/ NewestReason \in Waiting(reasons)
  BY NewestReasonIn, AgreeParts DEF NewestReason
<1>4. ~Held(e)
  BY <1>1, AgreeParts DEF Agreed
<1>5. \A x \in Entries : held'[x] = held[x] \/ (x = e /\ held'[x] = NewestReason)
  BY AgreeParts
<1>6. \A x \in Entries : Held(x) => x \in Waiting(queue)
  BY AgreeParts DEF Agreed
<1>7. EntriesAgree
  BY <1>2, <1>3, <1>5, <1>6 DEF EntriesAgree, Held
<1>8. HeldGrows
  BY <1>4, <1>5 DEF HeldGrows, Held
<1> QED BY <1>2, <1>7, <1>8, CarriedOn

LEMMA SubmitHeldOrdinary ==
  ASSUME AgreeInv, NEW t \in Tasks, NEW e \in Entries, NEW r \in {"lock", "review"},
         SubmitHeld(t, e, r)
  PROVE  Ordinary
<1>1. /\ task[t].pc = "idle" /\ fate[e] \in Fresh /\ AddHoldReason(r)
      /\ queue' = InsertAt(queue, PlaceOfHeld, e) /\ held' = [held EXCEPT ![e] = r]
  BY DEF SubmitHeld, Free, Unsent, Fresh
<1>2. /\ Waiting(queue') = Waiting(queue) \union {e}
      /\ r \in Reasons /\ r # NoReason
  <2>1. PlaceOfHeld \in 1..(Len(queue) + 1)
    BY PlaceOfHeldType, AgreeParts
  <2>2. e \notin Waiting(queue)
    BY <1>1, FreshIsNowhere, AgreeParts
  <2> QED BY <1>1, <2>1, <2>2, InsertWaits, AgreeParts DEF Reasons, NoReason
<1>3. /\ hold' # hold /\ Once(reasons') /\ Waiting(reasons') = Waiting(reasons) \union {r}
  BY <1>1, <1>2, HoldAdded, AgreeParts DEF Agreed
<1>4. Alone(t) /\ ~Walking(task'[t])
  <2> DEFINE c == [IdleTask EXCEPT !.pc = "queuedHeld", !.reason = r]
  <2>1. task' = [task EXCEPT ![t] = c] /\ ~Walking(c)
    BY DEF SubmitHeld, IdleTask, Walking, LettingGo
  <2> HIDE DEF c
  <2> QED BY <2>1, SetAlone, AgreeParts
<1>5. held'[e] = r /\ \A x \in Entries : x # e => held'[x] = held[x]
  BY <1>1, AgreeParts
<1>6. \A x \in Entries : held[x] # NoReason => x \in Waiting(queue)
  BY AgreeParts DEF Agreed, Held
<1>7. EntriesAgree
  BY <1>2, <1>3, <1>5, <1>6 DEF EntriesAgree
<1>8. StillCarried
  BY <1>2, <1>5 DEF StillCarried
<1>9. \A u \in Tasks : Same(u) \/ Leaves(u)
  BY <1>1, <1>4 DEF Alone, Same, Leaves, LettingGo
<1> QED BY <1>3, <1>7, <1>8, <1>9 DEF Ordinary, HoldAgrees

LEMMA BackInQueue ==
  ASSUME AgreeInv, NEW t \in Tasks, InFlight(t), PutBack(t, task[t].entry)
  PROVE  /\ Waiting(queue') = Waiting(queue) \union {task[t].entry}
         /\ queue' \in Seq(Entries) /\ queue' # << >>
<1> DEFINE e == task[t].entry
<1>1. e \in Entries /\ Asks(task[t])
  BY AgreeParts, MessageParts DEF InFlight
<1>2. e \notin Waiting(queue)
  BY <1>1, AskedOne, AgreeParts, MessageParts DEF MessageInv, Carries
<1>3. queue' = RestoreAfter(queue, e, task[t].prev)
  BY DEF PutBack
<1>4. Waiting(queue') = Waiting(queue) \union {e}
  BY <1>1, <1>2, <1>3, RestoreWaits, AgreeParts
<1>5. queue' \in Seq(Entries)
  BY <1>1, <1>3, RestoreAfterType, AgreeParts
<1> QED BY <1>4, <1>5, SomeWait

LEMMA BlockOrdinary ==
  ASSUME AgreeInv, NEW t \in Tasks, InFlight(t), NEW r \in Refusals, Block(t, r), UNCHANGED held
  PROVE  Ordinary
<1>1. /\ PutBack(t, task[t].entry) /\ AddHoldReason(r)
      /\ task' = [task EXCEPT ![t].pc = "blocked", ![t].reason = r, ![t].rev = 0]
  BY DEF Block
<1>2. Waiting(queue') = Waiting(queue) \union {task[t].entry} /\ queue' # << >>
  BY <1>1, BackInQueue
<1>3. hold' # hold /\ Once(reasons') /\ Waiting(reasons) \subseteq Waiting(reasons')
  <2>1. r \in Reasons
    BY DEF Refusals, Reasons
  <2> QED BY <1>1, <2>1, HoldAdded, AgreeParts DEF Agreed
<1>4. Alone(t) /\ task'[t].pc = "blocked"
  BY <1>1, AgreeParts, AllParts DEF Alone, TaskOK, Chain
<1>5. \A u \in Tasks : Same(u) \/ Leaves(u)
  BY <1>4 DEF Alone, Same, Leaves, LettingGo, Walking, InFlight
<1>6. EntriesAgree
  BY <1>2, AgreeParts DEF EntriesAgree, Agreed, Held
<1>7. StillCarried
  BY <1>2, <1>4 DEF StillCarried
<1> QED BY <1>3, <1>5, <1>6, <1>7 DEF Ordinary, HoldAgrees

LEMMA DeclinedOrdinary ==
  ASSUME AgreeInv, NEW t \in Tasks, NEW retry \in BOOLEAN, SteerDeclined(t, retry)
  PROVE  Ordinary
<1> DEFINE tk == [task[t] EXCEPT !.early = retry, !.rev = 0]
           c  == [tk EXCEPT !.reason = NewestReason, !.keep = TRUE,
                            !.then = "steerBack", !.i = 1]
<1>1. tk.pc = task[t].pc /\ tk.entry = task[t].entry /\ tk \in Chain
  <2>1. 0 \in Revisions
    BY MaxRevisionType DEF Revisions
  <2>2. tk \in Chain
    BY <2>1, FieldType, AgreeParts
  <2>3. tk.pc = task[t].pc /\ tk.entry = task[t].entry
    BY AgreeParts DEF Chain
  <2> QED BY <2>2, <2>3
<1>2. PutBack(t, task[t].entry) /\ InFlight(t) /\ task[t].pc = "steering"
  BY <1>1 DEF SteerDeclined, InFlight
<1>3. /\ Waiting(queue') = Waiting(queue) \union {task[t].entry}
      /\ queue' \in Seq(Entries) /\ queue' # << >>
  BY <1>2, BackInQueue
<1>4. CASE reasons # << >> /\ revision # task[t].rev
  <2>1. HoldOnward(t, c, queue') /\ AddHoldReason(NewestReason)
    BY <1>4 DEF SteerDeclined
  <2>2. NewestReason \in Reasons /\ NewestReason \in AnyReason
    BY <1>4, NewestReasonType, AgreeParts
  <2> HIDE DEF tk
  <2>3. c \in Chain
    <3>1. TRUE \in BOOLEAN /\ "steerBack" \in Onward /\ 1 \in Nat
      BY DEF Onward
    <3> QED BY <1>1, <2>2, <3>1, FieldType
  <2>4. c.reason = NewestReason /\ c.i = 1
    BY <1>1 DEF Chain
  <2> HIDE DEF c
  <2>5. ~LettingGo(task[t])
    BY <1>2 DEF LettingGo
  <2> QED BY <1>3, <2>1, <2>2, <2>3, <2>4, <2>5, WalkBegins
<1>5. CASE ~(reasons # << >> /\ revision # task[t].rev)
  <2>1. Return(t) /\ UNCHANGED <<hold, held>>
    BY <1>5 DEF SteerDeclined
  <2>2. Passes(t)
    BY <1>2, <2>1, ReturnPasses, AgreeParts DEF Settling
  <2>3. EntriesAgree /\ HeldGrows
    BY <1>3, <2>1, AgreeParts DEF EntriesAgree, HeldGrows, Agreed, Held
  <2> QED BY <1>3, <2>1, <2>2, <2>3, CarriedOn
<1> QED BY <1>4, <1>5

(* A hold that no entry left in the FIFO is under is dropped.               *)
LEMMA SpentDropped ==
  ASSUME queue' \in Seq(Entries), DropSpentHold(queue'),
         \A e \in Waiting(queue') : held'[e] = held[e]
  PROVE  HoldAgrees /\ StillCarried
<1>1. CASE \E i \in DOMAIN queue' : Held(queue'[i])
  <2>1. reasons' = reasons
    BY <1>1 DEF DropSpentHold, SetReasons
  <2>2. \E e \in Waiting(queue') : held'[e] # NoReason
    <3>1. PICK i \in 1..Len(queue') : Held(queue'[i])
      BY <1>1
    <3>2. queue'[i] \in Waiting(queue')
      BY DEF Waiting
    <3> QED BY <3>1, <3>2 DEF Held
  <2> QED BY <2>1, <2>2 DEF HoldAgrees, StillCarried
<1>2. CASE ~ \E i \in DOMAIN queue' : Held(queue'[i])
  <2>1. reasons' = << >>
    BY <1>2 DEF DropSpentHold, SetReasons
  <2>2. \A e \in Waiting(queue') : held'[e] = NoReason
    BY <1>2 DEF Waiting, Held
  <2> QED BY <2>1, <2>2 DEF HoldAgrees, StillCarried
<1> QED BY <1>1, <1>2

LEMMA DetachedSame ==
  ASSUME TypeOK, NEW q
  PROVE  \A u \in Tasks :
           \/ Detached(task, q)[u] = task[u]
           \/ q = << >> /\ Detached(task, q)[u] = [task[u] EXCEPT !.i = 0]
BY DEF Detached

LEMMA ClaimOrdinary ==
  ASSUME AgreeInv, NEW t \in Tasks, NEW ctx, NEW can, Claim(t, ctx, can),
         task[t].pc \in {"idle", "next"}
  PROVE  Ordinary
<1> DEFINE w == NextWaiting(queue)
           d == Detached(task, queue')
<1>1. /\ queue' = RemoveAt(queue, w) /\ DropSpentHold(queue') /\ held' = held
      /\ Dispatchable(can) # NoEntry
  BY DEF Claim
<1>2. w \in 1..Len(queue) /\ ~Held(queue[w])
  BY <1>1, DispatchableType, AgreeParts DEF Dispatchable
<1>3. queue' \in Seq(Entries) /\ Waiting(queue') = Waiting(queue) \ {queue[w]}
  BY <1>1, <1>2, RemoveWaits, RemoveAtType, AgreeParts
<1>4. HoldAgrees /\ StillCarried
  BY <1>1, <1>3, SpentDropped
<1>5. EntriesAgree
  BY <1>1, <1>2, <1>3, AgreeParts DEF EntriesAgree, Agreed, Held
<1>6. PICK c : task' = [d EXCEPT ![t] = c] /\ c.pc \in {"steering", "starting"}
  <2> DEFINE e     == Dispatchable(can)
             steer == Steerable(e, can)
             c     == [IdleTask EXCEPT !.pc = IF steer THEN "steering" ELSE "starting",
                             !.ctx = ctx, !.entry = e,
                             !.rev = IF steer THEN revision' ELSE 0,
                             !.prev = IF w > 1 THEN queue[w - 1] ELSE NoEntry]
  <2>1. task' = [d EXCEPT ![t] = c]
    BY DEF Claim
  <2>2. c.pc = IF steer THEN "steering" ELSE "starting"
    BY DEF IdleTask
  <2> HIDE DEF c, d, steer, e
  <2> QED BY <2>1, <2>2
<1>7. \A u \in Tasks : d[u] = task[u] \/ (queue' = << >> /\ d[u] = [task[u] EXCEPT !.i = 0])
  BY DetachedSame, AgreeParts
<1>8. d \in [Tasks -> Chain]
  BY DetachedType, AllParts, AgreeParts
<1> HIDE DEF d
<1>9. task'[t] = c /\ \A u \in Tasks \ {t} : task'[u] = d[u]
  BY <1>6, <1>8
<1>10. \A u \in Tasks : Same(u) \/ Leaves(u)
  BY <1>6, <1>7, <1>9 DEF Same, Leaves, LettingGo, Walking
<1> QED BY <1>4, <1>5, <1>10 DEF Ordinary

LEMMA CancelOrdinary ==
  ASSUME AgreeInv, NEW e \in Entries, CancelEntry(e)
  PROVE  Ordinary
<1> DEFINE w == IndexOf(queue, e)
<1>1. /\ InQueue(e) /\ queue' = RemoveAt(queue, w) /\ held' = [held EXCEPT ![e] = NoReason]
      /\ DropSpentHold(queue') /\ task' = Detached(task, queue')
  BY DEF CancelEntry
<1>2. w \in 1..Len(queue) /\ queue[w] = e
  <2>1. \E k \in 1..Len(queue) : queue[k] = e
    BY <1>1, AgreeParts DEF InQueue, Contains
  <2> QED BY <2>1, IndexOfType, AgreeParts
<1> HIDE DEF w
<1>3. queue' \in Seq(Entries) /\ Waiting(queue') = Waiting(queue) \ {e}
  BY <1>1, <1>2, RemoveWaits, RemoveAtType, AgreeParts
<1>4. held'[e] = NoReason /\ \A x \in Entries : x # e => held'[x] = held[x]
  BY <1>1, AgreeParts
<1>5. HoldAgrees /\ StillCarried
  <2>1. \A x \in Waiting(queue') : held'[x] = held[x]
    BY <1>3, <1>4, AgreeParts
  <2> QED BY <1>1, <1>3, <2>1, SpentDropped
<1>6. EntriesAgree
  BY <1>3, <1>4, AgreeParts DEF EntriesAgree, Agreed, Held
<1>7. \A u \in Tasks : Same(u)
  BY <1>1, DetachedSame, AgreeParts DEF Same
<1> QED BY <1>5, <1>6, <1>7 DEF Ordinary

LEMMA MoveOrdinary ==
  ASSUME AgreeInv, NEW t \in Tasks, MoveEntry(t)
  PROVE  Ordinary
<1>1. /\ queue' = Moved(queue, task[t].entry, task[t].prev) /\ UNCHANGED <<held, hold>>
      /\ task[t].pc = "editing" /\ LeaveEdit(t, IdleTask)
  BY DEF MoveEntry, MayEdit
<1>2. Waiting(queue') = Waiting(queue)
  BY <1>1, MovedWaits, AgreeParts
<1>3. queue # << >> => queue' # << >>
  <2>1. Waiting(<< >>) = {}
    BY DEF Waiting
  <2> QED BY <1>2, <2>1, SomeWait, AgreeParts
<1>4. EntriesAgree /\ HeldGrows
  BY <1>1, <1>2, AgreeParts DEF EntriesAgree, HeldGrows, Agreed, Held
<1> QED BY <1>1, <1>3, <1>4, LeavePasses, CarriedOn, AgreeParts

(* An entry that waits takes up the newest reason of the FIFO.              *)
LEMMA TakesReason ==
  ASSUME AgreeInv, UNCHANGED <<queue, hold>>, UNCHANGED task \/ \E t \in Tasks : Passes(t),
         reasons # << >>, NEW e \in Waiting(queue), held' = [held EXCEPT ![e] = NewestReason]
  PROVE  Ordinary
<1>1. e \in Entries /\ NewestReason \in Waiting(reasons) /\ NewestReason # NoReason
  BY NewestReasonIn, AgreeParts
<1>2. held'[e] = NewestReason /\ \A x \in Entries : x # e => held'[x] = held[x]
  BY <1>1, AgreeParts
<1>3. \A x \in Entries : Held(x) => x \in Waiting(queue)
  BY AgreeParts DEF Agreed
<1>4. EntriesAgree /\ HeldGrows
  BY <1>1, <1>2, <1>3 DEF EntriesAgree, HeldGrows, Held
<1> QED BY <1>4, CarriedOn

LEMMA ResumeOrdinary ==
  ASSUME AgreeInv, NEW t \in Tasks, ResumeEntry(t)
  PROVE  Ordinary
<1> DEFINE e == task[t].entry
<1>1. /\ UNCHANGED <<queue, hold>> /\ task[t].pc = "editing" /\ LeaveEdit(t, IdleTask)
      /\ \/ UNCHANGED held
         \/ InQueue(e) /\ reasons # << >> /\ held' = [held EXCEPT ![e] = NewestReason]
  BY DEF ResumeEntry, MayEdit
<1>2. Passes(t)
  BY <1>1, LeavePasses, AgreeParts
<1>3. InQueue(e) => e \in Waiting(queue)
  BY AgreeParts DEF InQueue, Contains, Waiting
<1> QED BY <1>1, <1>2, <1>3, RestOrdinary, TakesReason

LEMMA SteerOrdinary ==
  ASSUME AgreeInv, NEW t \in Tasks, SubmitSteer(t)
  PROVE  Ordinary
<1> DEFINE e == task[t].entry
           c == JoinableBatch(e)
<1>1. /\ Sends(task[t]) /\ e \in Entries /\ UNCHANGED hold /\ task[t].pc = "editing"
      /\ \/ UNCHANGED <<queue, held>> /\ StartEntry(t, e, "edit")
         \/ /\ queue' = IF c = 0 THEN Append(queue, e) ELSE queue
            /\ held' = IF reasons = << >> THEN held
                       ELSE [held EXCEPT ![IF c = 0 THEN e ELSE queue[c]] = NewestReason]
            /\ task' = [task EXCEPT ![t].pc = "leaving"]
  BY AgreeParts, MessageParts DEF SubmitSteer, MayEdit, Sends
<1>2. fate[e] \in Fresh
  BY <1>1, AgreeParts DEF MessageInv, Carries, Steering, Fresh
<1>3. c # 0 => queue[c] \in Waiting(queue)
  BY JoinableBatchWaits, AgreeParts
<1>4. Passes(t)
  <2>1. CASE StartEntry(t, e, "edit")
    BY <1>1, <2>1, StartPasses, AgreeParts DEF Settling
  <2>2. CASE task' = [task EXCEPT ![t].pc = "leaving"]
    <3>1. Alone(t) /\ task'[t].pc = "leaving"
      BY <2>2, AgreeParts, AllParts DEF Alone, TaskOK, Chain
    <3> QED BY <1>1, <3>1 DEF Passes, Walking, LettingGo, Settling
  <2> QED BY <1>1, <2>1, <2>2
<1> HIDE DEF e, c
<1>5. CASE UNCHANGED <<queue, held>>
  BY <1>1, <1>4, <1>5, RestOrdinary
<1>6. CASE queue' = Append(queue, e) /\ (held' = held \/ held' = [held EXCEPT ![e] = NewestReason])
  BY <1>1, <1>2, <1>4, <1>6, AppendOrdinary
<1>7. CASE /\ c # 0 /\ queue' = queue /\ reasons # << >>
           /\ held' = [held EXCEPT ![queue[c]] = NewestReason]
  BY <1>1, <1>3, <1>4, <1>7, TakesReason
<1> QED BY <1>1, <1>5, <1>6, <1>7
-----------------------------------------------------------------------------
(* Retry and an unlock let go.                                              *)

LEMMA ClearOnwardAgrees ==
  ASSUME AgreeInv, NEW t \in Tasks, NEW tk \in Chain, ClearOnward(t, tk), UNCHANGED queue,
         reasons' = << >>, tk.i \in 1..(Len(queue) + 1),
         \A j \in 1..(tk.i - 1) : ~Held(queue[j]),
         \A u \in Tasks \ {t} : ~Walking(task[u])
  PROVE  Agreed'
<1> DEFINE c == [tk EXCEPT !.pc = "clearing", !.i = @ + 1]
           n == [IdleTask EXCEPT !.pc = "next", !.ctx = "retry"]
<1>1. Once(reasons') /\ Len(queue) \in Nat /\ DOMAIN queue = 1..Len(queue)
  BY AgreeParts DEF Once
<1>2. \A e \in Entries : Held(e) => e \in Waiting(queue)
  BY AgreeParts DEF Agreed
<1>3. CASE tk.i \in DOMAIN queue
  <2>1. held' = [held EXCEPT ![queue[tk.i]] = NoReason] /\ task' = [task EXCEPT ![t] = c]
    BY <1>3 DEF ClearOnward
  <2>2. c.pc = "clearing" /\ c.i = tk.i + 1
    BY DEF Chain
  <2> HIDE DEF c
  <2>3. Alone(t) /\ task'[t] = c
    BY <2>1, SetAlone, AgreeParts
  <2>4. queue[tk.i] \in Entries
    BY <1>3, AgreeParts
  <2>5. /\ held'[queue[tk.i]] = NoReason
        /\ \A e \in Entries : held'[e] = NoReason \/ held'[e] = held[e]
    BY <2>1, <2>4, AgreeParts
  <2>6. \A j \in 1..(c.i - 1) : held'[queue[j]] = NoReason
    <3> SUFFICES ASSUME NEW j \in 1..(c.i - 1) PROVE held'[queue[j]] = NoReason
      OBVIOUS
    <3>1. j = tk.i \/ j \in 1..(tk.i - 1)
      BY <2>2
    <3>2. j \in 1..Len(queue)
      BY <1>1, <1>3, <3>1
    <3>3. queue[j] \in Entries
      BY <3>2, AgreeParts
    <3> QED BY <2>5, <3>1, <3>3 DEF Held
  <2>7. c.i \in 2..(Len(queue) + 1)
    BY <1>1, <1>3, <2>2
  <2>8. Fits(task[t])'
    BY <2>2, <2>3, <2>6, <2>7 DEF Fits, LettingGo, Held
  <2>9. \A u \in Tasks : Fits(task[u])'
    BY <2>3, <2>8 DEF Fits, Alone, Walking, LettingGo
  <2>10. Apart'
    BY <2>3 DEF Apart, Alone, Walking
  <2> QED BY <1>1, <1>2, <2>2, <2>3, <2>5, <2>9, <2>10 DEF Agreed, Held
<1>4. CASE tk.i \notin DOMAIN queue
  <2>1. held' = held /\ task' = [task EXCEPT ![t] = n] /\ n.pc = "next"
    BY <1>4 DEF ClearOnward, LeaveEdit, IdleTask
  <2> HIDE DEF n
  <2>2. Alone(t) /\ task'[t] = n
    BY <2>1, SetAlone, AgreeParts
  <2>3. tk.i = Len(queue) + 1
    BY <1>1, <1>4
  <2>4. \A e \in Entries : ~Held(e)
    <3> SUFFICES ASSUME NEW e \in Entries, Held(e) PROVE FALSE
      OBVIOUS
    <3>1. PICK k \in 1..Len(queue) : queue[k] = e
      BY <1>2 DEF Waiting
    <3>2. k \in 1..(tk.i - 1)
      BY <1>1, <2>3
    <3> QED BY <3>1, <3>2
  <2>5. \A u \in Tasks : ~Walking(task'[u])
    BY <2>1, <2>2 DEF Alone, Walking, LettingGo
  <2>6. (\A u \in Tasks : Fits(task[u])') /\ Apart'
    BY <2>5 DEF Fits, Apart, Walking, LettingGo
  <2> QED BY <1>1, <2>1, <2>4, <2>6 DEF Agreed, Held
<1> QED BY <1>3, <1>4

LEMMA ClearAgrees ==
  ASSUME AgreeInv, NEW t \in Tasks, ClearQueueHold(t) \/ ClearEmitted(t), ~LetGoInWalk
  PROVE  Agreed'
<1>1. CASE ClearQueueHold(t)
  <2> DEFINE tk == [task[t] EXCEPT !.i = 1]
  <2>1. ClearOnward(t, tk) /\ UNCHANGED queue /\ reasons' = << >>
    BY <1>1 DEF ClearQueueHold, SetReasons
  <2>2. tk \in Chain
    BY FieldType, AgreeParts
  <2>3. tk.i = 1
    BY AgreeParts DEF Chain
  <2> HIDE DEF tk
  <2>4. \A u \in Tasks : ~Walking(task[u])
    BY <1>1 DEF LetGoInWalk, Walking
  <2>5. tk.i \in 1..(Len(queue) + 1) /\ 1..(tk.i - 1) = {}
    BY <2>3, AgreeParts
  <2> QED BY <2>1, <2>2, <2>4, <2>5, ClearOnwardAgrees
<1>2. CASE ClearEmitted(t)
  <2>1. /\ task[t].pc = "clearing" /\ ClearOnward(t, task[t])
        /\ UNCHANGED queue /\ reasons' = reasons
    BY <1>2 DEF ClearEmitted
  <2>2. /\ reasons = << >> /\ task[t].i \in 2..(Len(queue) + 1)
        /\ \A j \in 1..(task[t].i - 1) : ~Held(queue[j])
    BY <2>1, AgreeParts DEF Agreed, Fits, LettingGo
  <2>3. \A u \in Tasks \ {t} : ~Walking(task[u])
    BY <2>1, AgreeParts DEF Agreed, Apart, LettingGo
  <2>4. task[t].i \in 1..(Len(queue) + 1)
    BY <2>2, AgreeParts
  <2> QED BY <2>1, <2>2, <2>3, <2>4, ClearOnwardAgrees, AgreeParts
<1> QED BY <1>1, <1>2

LEMMA UnlockOnwardAgrees ==
  ASSUME AgreeInv, NEW t \in Tasks, NEW tk \in Chain, UnlockOnward(t, tk), UNCHANGED queue,
         tk.i \in 1..(Len(queue) + 1), Collected(tk),
         task[t].pc # "clearing", \A u \in Tasks \ {t} : ~Walking(task[u])
  PROVE  Agreed'
<1> DEFINE onward  == {j \in DOMAIN queue : tk.i # 0 /\ j >= tk.i /\ Held(queue[j])}
           locked  == {j \in onward : held[queue[j]] = "lock"}
           j       == Min(locked)
           skipped == {k \in onward \ locked : locked = {} \/ k < j}
           kept    == tk.kept \union {held[queue[k]] : k \in skipped}
           ahead   == IF skipped = {} THEN tk.ahead ELSE held[queue[Max(skipped)]]
<1>1. Len(queue) \in Nat /\ DOMAIN queue = 1..Len(queue) /\ tk.kept \subseteq Reasons
  BY AgreeParts DEF Chain
<1>2. \A e \in Entries : Held(e) => e \in Waiting(queue) /\ held[e] \in Waiting(reasons)
  BY AgreeParts DEF Agreed, Walking, LettingGo
<1>3. \A k \in 1..Len(queue) : queue[k] \in Entries
  BY AgreeParts
<1>4. onward \subseteq 1..Len(queue) /\ locked \subseteq onward /\ skipped \subseteq onward
  BY <1>1
<1>5. \A k \in onward : k >= tk.i /\ Held(queue[k])
  OBVIOUS
<1>6. \A k \in 1..Len(queue) : k >= tk.i /\ Held(queue[k]) => k \in onward
  BY <1>1
<1>7. locked # {} => j \in locked /\ \A k \in locked : j <= k
  <2>1. locked \in SUBSET Nat
    BY <1>1
  <2> HIDE DEF locked
  <2> QED BY <2>1, MinIn
<1>8. \A k \in onward : held[queue[k]] = "lock" => k \in locked
  OBVIOUS
<1>9. \A k \in skipped : k \notin locked /\ (locked = {} \/ k < j)
  OBVIOUS
<1>10. \A k \in onward : k \notin locked /\ (locked = {} \/ k < j) => k \in skipped
  OBVIOUS
<1>11. ahead \in kept \union {NoReason}
  <2>1. CASE skipped = {}
    BY <2>1 DEF Collected
  <2>2. CASE skipped # {}
    <3>1. Max(skipped) \in skipped
      <4>1. skipped \in SUBSET Nat /\ \A k \in skipped : k <= Len(queue)
        BY <1>1
      <4> HIDE DEF skipped
      <4> QED BY <1>1, <2>2, <4>1, MaxIn
    <3> HIDE DEF skipped
    <3> QED BY <2>2, <3>1
  <2> QED BY <2>1, <2>2
<1>12. \A k \in 1..(tk.i - 1) : Held(queue[k]) => held[queue[k]] \in kept
  BY DEF Collected
<1>13. \A k \in skipped : held[queue[k]] \in kept
  OBVIOUS
<1>14. \A r \in kept : \E k \in 1..Len(queue) :
         held[queue[k]] = r /\ Held(queue[k]) /\ (k < tk.i \/ k \in skipped)
  <2> SUFFICES ASSUME NEW r \in kept
               PROVE  \E k \in 1..Len(queue) :
                        held[queue[k]] = r /\ Held(queue[k]) /\ (k < tk.i \/ k \in skipped)
    OBVIOUS
  <2>1. CASE r \in tk.kept
    <3>1. PICK k \in 1..(tk.i - 1) : held[queue[k]] = r
      BY <2>1 DEF Collected
    <3>2. k \in 1..Len(queue) /\ k < tk.i
      BY <1>1
    <3>3. Held(queue[k])
      BY <1>1, <2>1, <3>1 DEF Held, Reasons, NoReason
    <3> QED BY <3>1, <3>2, <3>3
  <2>2. CASE \E k \in skipped : r = held[queue[k]]
    BY <1>4, <1>5, <2>2
  <2> QED BY <2>1, <2>2
<1>15. CASE locked # {}
  <2> DEFINE c == [tk EXCEPT !.pc = "unlocking", !.i = j + 1, !.ahead = ahead, !.kept = kept]
  <2>1. /\ held' = [held EXCEPT ![queue[j]] = ahead] /\ task' = [task EXCEPT ![t] = c]
        /\ reasons' = reasons
    BY <1>15 DEF UnlockOnward
  <2>2. /\ c.pc = "unlocking" /\ c.i = j + 1 /\ c.ahead = ahead /\ c.kept = kept
        /\ c.snap = tk.snap
    BY DEF Chain
  <2> HIDE DEF c, onward, locked, skipped, kept, ahead, j
  <2>3. Alone(t) /\ task'[t] = c
    BY <2>1, SetAlone, AgreeParts
  <2>4. j \in 1..Len(queue) /\ j >= tk.i /\ Held(queue[j])
    BY <1>4, <1>5, <1>7, <1>15
  <2>5. /\ held'[queue[j]] = ahead
        /\ \A e \in Entries : e # queue[j] => held'[e] = held[e]
        /\ \A k \in 1..Len(queue) : k # j => held'[queue[k]] = held[queue[k]]
    <3>1. \A k \in 1..Len(queue) : k # j => queue[k] # queue[j]
      BY <2>4, AgreeParts DEF Once
    <3>2. held' = [held EXCEPT ![queue[j]] = ahead] /\ queue[j] \in Entries
      BY <1>3, <2>1, <2>4
    <3>3. \A e \in Entries : e # queue[j] => held'[e] = held[e]
      BY <3>2, AgreeParts
    <3>4. held'[queue[j]] = ahead
      BY <3>2, AgreeParts
    <3> QED BY <1>3, <3>1, <3>3, <3>4
  <2>6. ahead = NoReason \/ ahead \in Waiting(reasons)
    BY <1>2, <1>3, <1>11, <1>14
  <2>7. \A e \in Entries : held'[e] # NoReason =>
          e \in Waiting(queue) /\ held'[e] \in Waiting(reasons)
    BY <1>2, <2>4, <2>5, <2>6 DEF Held, Waiting
  <2>8. c.i \in 2..(Len(queue) + 1)
    BY <1>1, <2>2, <2>4
  <2>9. \A k \in 1..(c.i - 1) : held'[queue[k]] # NoReason => held'[queue[k]] \in kept
    <3> SUFFICES ASSUME NEW k \in 1..(c.i - 1), held'[queue[k]] # NoReason
                 PROVE  held'[queue[k]] \in kept
      OBVIOUS
    <3>1. k \in 1..Len(queue) /\ (k = j \/ k < j)
      BY <1>1, <2>2, <2>4
    <3>2. CASE k = j
      BY <1>11, <2>5, <3>2
    <3>3. CASE k < j
      <4>1. held'[queue[k]] = held[queue[k]] /\ Held(queue[k])
        BY <2>4, <2>5, <3>1, <3>3 DEF Held
      <4>2. CASE k < tk.i
        <5>1. k \in 1..(tk.i - 1)
          BY <1>1, <3>1, <4>2
        <5> QED BY <1>12, <4>1, <5>1
      <4>3. CASE k >= tk.i
        <5>1. k \in onward
          BY <1>6, <3>1, <4>1, <4>3
        <5>2. k \notin locked
          BY <1>7, <1>15, <2>4, <3>1, <3>3
        <5> QED BY <1>10, <1>13, <3>3, <4>1, <5>1, <5>2
      <4> QED BY <1>1, <3>1, <4>2, <4>3
    <3> QED BY <3>1, <3>2, <3>3
  <2>10. \A r \in kept : \E k \in 1..(c.i - 1) : held'[queue[k]] = r
    <3> SUFFICES ASSUME NEW r \in kept PROVE \E k \in 1..(c.i - 1) : held'[queue[k]] = r
      OBVIOUS
    <3>1. PICK k \in 1..Len(queue) : held[queue[k]] = r /\ (k < tk.i \/ k \in skipped)
      BY <1>14
    <3>2. k < j
      BY <1>1, <1>9, <1>15, <2>4, <3>1
    <3>3. k \in 1..(c.i - 1) /\ k # j
      BY <2>2, <2>4, <3>1, <3>2
    <3> QED BY <2>5, <3>1, <3>3
  <2>11. tk.snap = reasons
    BY DEF Collected
  <2>12. Fits(task[t])'
    BY <1>11, <2>1, <2>2, <2>3, <2>8, <2>9, <2>10, <2>11 DEF Fits, Collected, LettingGo, Held
  <2>13. \A u \in Tasks : Fits(task[u])'
    BY <2>3, <2>12 DEF Fits, Alone, Walking, LettingGo
  <2>14. Apart'
    BY <2>3 DEF Apart, Alone, Walking
  <2>15. queue # << >> /\ task'[t].pc \in Settling
    BY <2>2, <2>3, <2>4 DEF Settling
  <2>16. Once(reasons')
    BY <2>1, AgreeParts DEF Agreed
  <2> QED BY <2>1, <2>7, <2>13, <2>14, <2>15, <2>16 DEF Agreed, Held
<1>16. CASE locked = {}
  <2>1. /\ held' = held /\ task' = [task EXCEPT ![t] = IdleTask]
        /\ reasons' = OnlyReasons(reasons, kept)
    BY <1>16 DEF UnlockOnward, SetReasons, Collected
  <2> HIDE DEF onward, locked, skipped, kept, ahead, j
  <2>2. Once(reasons') /\ Waiting(reasons') = Waiting(reasons) \intersect kept
    BY <2>1, OnlyReasonsOnce, AgreeParts DEF Agreed
  <2>3. \A e \in Entries : Held(e) => e \in Waiting(queue) /\ held[e] \in Waiting(reasons')
    <3> SUFFICES ASSUME NEW e \in Entries, Held(e) PROVE held[e] \in kept
      BY <1>2, <2>2
    <3>1. PICK k \in 1..Len(queue) : queue[k] = e
      BY <1>2 DEF Waiting
    <3>2. CASE k < tk.i
      <4>1. k \in 1..(tk.i - 1)
        BY <1>1, <3>2
      <4> QED BY <1>12, <3>1, <4>1
    <3>3. CASE k >= tk.i
      BY <1>6, <1>10, <1>13, <1>16, <3>1, <3>3
    <3> QED BY <1>1, <3>2, <3>3
  <2>4. reasons' # << >> => queue # << >> /\ AnyHeld
    <3> SUFFICES ASSUME reasons' # << >> PROVE queue # << >> /\ AnyHeld
      OBVIOUS
    <3>1. PICK r : r \in Waiting(reasons')
      <4>1. reasons' \in Seq(Reasons)
        BY <2>1, OnlyReasonsType, AgreeParts
      <4>2. 1 \in 1..Len(reasons')
        <5>1. Len(reasons') # 0 /\ Len(reasons') \in Nat
          BY <4>1
        <5> QED BY <5>1
      <4> QED BY <4>2 DEF Waiting
    <3>2. PICK k \in 1..Len(queue) : Held(queue[k])
      BY <1>14, <2>2, <3>1
    <3>3. queue[k] \in Waiting(queue)
      BY DEF Waiting
    <3>4. queue # << >>
      BY <1>1, <3>2
    <3> QED BY <3>2, <3>3, <3>4 DEF AnyHeld
  <2>5. \A u \in Tasks : ~Walking(task'[u])
    <3>1. Alone(t) /\ task'[t] = IdleTask
      BY <2>1, SetAlone, AgreeParts
    <3>2. ~Walking(IdleTask)
      BY DEF IdleTask, Walking, LettingGo
    <3>3. ~Walking(task'[t])
      BY <3>1, <3>2
    <3>4. \A u \in Tasks \ {t} : ~Walking(task'[u])
      BY <3>1 DEF Alone
    <3> QED BY <3>3, <3>4
  <2>6. (\A u \in Tasks : Fits(task[u])') /\ Apart'
    BY <2>5 DEF Fits, Apart, Walking, LettingGo
  <2> QED BY <2>1, <2>2, <2>3, <2>4, <2>6 DEF Agreed, AnyHeld, Held
<1> QED BY <1>15, <1>16

LEMMA UnlockAgrees ==
  ASSUME AgreeInv, NEW t \in Tasks, ReleaseHold(t) \/ UnlockEmitted(t), ~LetGoInWalk
  PROVE  Agreed'
<1>1. CASE ReleaseHold(t)
  <2> DEFINE tk == [IdleTask EXCEPT !.i = 1, !.snap = reasons, !.rev = revision]
  <2>1. UnlockOnward(t, tk) /\ UNCHANGED queue /\ task[t].pc = "idle"
    BY <1>1 DEF ReleaseHold, Free
  <2>2. tk \in Chain
    BY IdleChain, FieldType, AgreeParts, AllParts DEF HoldOK
  <2>3. tk.i = 1 /\ tk.snap = reasons /\ tk.kept = {} /\ tk.ahead = NoReason
    BY DEF IdleTask
  <2> HIDE DEF tk
  <2>4. \A u \in Tasks : ~Walking(task[u])
    BY <1>1 DEF LetGoInWalk, Walking
  <2>5. tk.i \in 1..(Len(queue) + 1) /\ 1..(tk.i - 1) = {}
    BY <2>3, AgreeParts
  <2>6. Collected(tk)
    BY <2>3, <2>5 DEF Collected
  <2> QED BY <2>1, <2>2, <2>4, <2>5, <2>6, UnlockOnwardAgrees
<1>2. CASE UnlockEmitted(t)
  <2>1. task[t].pc = "unlocking" /\ UnlockOnward(t, task[t]) /\ UNCHANGED queue
    BY <1>2 DEF UnlockEmitted
  <2>2. Collected(task[t]) /\ task[t].i \in 2..(Len(queue) + 1)
    BY <2>1, AgreeParts DEF Agreed, Fits, LettingGo
  <2>3. \A u \in Tasks \ {t} : ~Walking(task[u])
    BY <2>1, AgreeParts DEF Agreed, Apart, LettingGo
  <2>4. task[t].i \in 1..(Len(queue) + 1)
    BY <2>2, AgreeParts
  <2> QED BY <2>1, <2>2, <2>3, <2>4, UnlockOnwardAgrees, AgreeParts
<1> QED BY <1>1, <1>2-----------------------------------------------------------------------------
(* Every step but those of Retry and an unlock is ordinary. *)

LetsGo(t) == ClearQueueHold(t) \/ ClearEmitted(t) \/ ReleaseHold(t) \/ UnlockEmitted(t)

LEMMA EnterEditPasses ==
  ASSUME TypeOK, NEW t \in Tasks, NEW op, NEW e, NEW before, EnterEdit(t, op, e, before)
  PROVE  Passes(t)
<1> DEFINE c == [IdleTask EXCEPT !.pc = "editing", !.ctx = "edit",
                                 !.op = op, !.entry = e, !.prev = before]
<1>1. task[t].pc = "idle" /\ task' = [task EXCEPT ![t] = c]
  BY DEF EnterEdit, Free
<1>2. ~Walking(c)
  BY DEF IdleTask, Walking, LettingGo
<1> HIDE DEF c
<1>3. task[t].pc \notin Settling \union {"clearing"}
  BY <1>1 DEF Settling
<1> QED BY <1>1, <1>2, <1>3, SetPasses

LEMMA SubmissionOrdinary ==
  ASSUME AgreeInv, Submission
  PROVE  Ordinary \/ \E t \in Tasks : LetsGo(t)
<1>1. ASSUME NEW e \in Entries, Enqueue(e) PROVE Ordinary
  BY <1>1, AppendOrdinary DEF Enqueue, Unsent, Fresh
<1>2. ASSUME NEW e \in Entries, SubmitProjectHeld(e) PROVE Ordinary
  BY <1>2, AppendOrdinary DEF SubmitProjectHeld, Unsent, Fresh
<1>3. ASSUME NEW t \in Tasks, NEW e \in Entries, StartNow(t, e) PROVE Ordinary
  <2>1. StartEntry(t, e, "direct") /\ task[t].pc = "idle" /\ UNCHANGED <<queue, held, hold>>
    BY <1>3 DEF StartNow, Free
  <2> QED BY <2>1, StartPasses, RestOrdinary, AgreeParts DEF Settling
<1>4. ASSUME NEW t \in Tasks, NEW e \in Entries,
             EditsEntry(t, e) \/ EditsSteer(t, e) \/ Retry(t, e)
      PROVE  Ordinary
  <2>1. \E op, before : EnterEdit(t, op, e, before)
    BY <1>4 DEF EditsEntry, EditsSteer, Retry
  <2>2. Passes(t)
    BY <2>1, EnterEditPasses, AgreeParts
  <2>3. UNCHANGED <<queue, held, hold>>
    BY <2>1 DEF EnterEdit
  <2> QED BY <2>2, <2>3, RestOrdinary
<1>5. CASE (\E e \in Entries : EditInput(e)) \/ ScheduleThreadDrain \/ Close
  BY <1>5, RestOrdinary DEF EditInput, ScheduleThreadDrain, Close
<1> QED BY <1>1, <1>2, <1>3, <1>4, <1>5, CancelOrdinary, SubmitHeldOrdinary
        DEF Submission, LetsGo

LEMMA ProceedOrdinary ==
  ASSUME AgreeInv, NEW t \in Tasks, Proceed(t)
  PROVE  Ordinary \/ LetsGo(t)
<1>1. CASE StartNext(t)
  <2>1. task[t].pc = "next"
    BY <1>1 DEF StartNext
  <2>2. ASSUME NEW can \in BOOLEAN, Claim(t, task[t].ctx, can) PROVE Ordinary
    BY <2>1, <2>2, ClaimOrdinary
  <2>3. CASE Return(t) /\ UNCHANGED <<queue, held, hold>>
    BY <2>1, <2>3, ReturnPasses, RestOrdinary, AgreeParts DEF Settling
  <2> QED BY <1>1, <2>2, <2>3 DEF StartNext
<1>2. CASE StartFinished(t) \/ SteerBack(t)
  <2>1. Return(t) /\ task[t].pc \in {"finish", "steerBack"} /\ UNCHANGED <<queue, held, hold>>
    BY <1>2 DEF StartFinished, SteerBack
  <2> QED BY <2>1, ReturnPasses, RestOrdinary, AgreeParts DEF Settling
<1>3. CASE PauseEntry(t) \/ SteerLeaves(t, "left")
  <2>1. /\ LeaveEdit(t, IdleTask) /\ task[t].pc \in {"editing", "left"}
        /\ UNCHANGED <<queue, held, hold>>
    BY <1>3 DEF PauseEntry, SteerLeaves, MayEdit
  <2> QED BY <2>1, LeavePasses, RestOrdinary, AgreeParts
<1>4. CASE ReleaseRefused(t)
  <2>1. task[t].pc = "refused" /\ UNCHANGED queue
    BY <1>4 DEF ReleaseRefused
  <2>2. task[t].pc \notin Settling \union {"clearing"}
    BY <2>1 DEF Settling
  <2>3. CASE pendingRelease
    <3>1. NoTurn \in AnyTurn /\ "idle" \in Statuses
      BY NoTurnType DEF Statuses
    <3>2. SettleRelease(t, [IdleTask EXCEPT !.ctx = "release"], NoTurn, "idle", "next")
      BY <1>4, <2>3 DEF ReleaseRefused
    <3> QED BY <2>1, <2>2, <3>1, <3>2, FreshRelease, SettleReleaseOrdinary
  <2>4. CASE ~pendingRelease
    <3>1. task' = [task EXCEPT ![t] = IdleTask] /\ UNCHANGED <<queue, held, hold>>
      BY <1>4, <2>4 DEF ReleaseRefused
    <3>2. ~Walking(IdleTask)
      BY DEF IdleTask, Walking, LettingGo
    <3> QED BY <2>2, <3>1, <3>2, SetPasses, RestOrdinary, AgreeParts
  <2> QED BY <2>3, <2>4
<1> QED BY <1>1, <1>2, <1>3, <1>4, MoveOrdinary, ResumeOrdinary, SteerOrdinary
        DEF Proceed, LetsGo
LEMMA EmittedOrdinary ==
  ASSUME AgreeInv, NEW t \in Tasks, Emitted(t)
  PROVE  Ordinary \/ LetsGo(t)
<1>1. CASE BlockEmitted(t) \/ HeldEmitted(t)
  <2>1. /\ task[t].pc \in Blocking /\ UNCHANGED queue
        /\ \E then \in Onward : HoldQueue(t, task[t], task[t].reason, TRUE, then)
    BY <1>1 DEF BlockEmitted, HeldEmitted, Blocking, Onward
  <2>2. task[t].reason \in Reasons /\ TRUE \in BOOLEAN
    BY <2>1, WorkFacts, AgreeParts
  <2>3. ~LettingGo(task[t])
    BY <2>1 DEF Blocking, LettingGo
  <2> QED BY <2>1, <2>2, <2>3, HoldQueueOrdinary, AgreeParts
<1>2. CASE StartEmitted(t)
  <2> DEFINE x == CHOOSE y \in TerminalOf(admission) : TRUE
             c == [task[t] EXCEPT !.pc = "ended", !.turn = x.turn, !.status = x.status,
                                  !.then = "finish"]
  <2>1. UNCHANGED queue /\ task[t].pc = "started"
    BY <1>2 DEF StartEmitted
  <2>2. task[t].pc \notin Settling \union {"clearing"}
    BY <2>1 DEF Settling
  <2>3. CASE Return(t) /\ UNCHANGED <<hold, held>>
    BY <2>1, <2>2, <2>3, ReturnPasses, RestOrdinary, AgreeParts
  <2>4. CASE task' = [task EXCEPT ![t] = c] /\ UNCHANGED <<hold, held>>
    <3>1. c.pc = "ended"
      BY AgreeParts DEF Chain
    <3>2. ~Walking(c)
      BY <3>1 DEF Walking, LettingGo
    <3> HIDE DEF c
    <3> QED BY <2>1, <2>2, <2>4, <3>2, SetPasses, RestOrdinary, AgreeParts
  <2>5. CASE TerminalOf(admission) # {} /\ SettleRelease(t, task[t], x.turn, x.status, "finish")
    <3>1. x \in Outcome
      BY <2>5, AllParts, AdmissionType, AgreeParts
    <3>2. x.turn \in AnyTurn /\ x.status \in Statuses /\ "finish" \in Onward
      BY <3>1 DEF Outcome, Onward
    <3> HIDE DEF x
    <3> QED BY <2>1, <2>2, <2>5, <3>2, SettleReleaseOrdinary, AgreeParts
  <2> QED BY <1>2, <2>3, <2>4, <2>5 DEF StartEmitted
<1>3. CASE TerminalEmitted(t)
  <2>1. task[t].pc = "ended" /\ UNCHANGED queue
    BY <1>3 DEF TerminalEmitted
  <2>2. task[t].pc \notin Settling \union {"clearing"} /\ task[t].then \in Onward
    BY <2>1, AgreeParts DEF Settling, Chain
  <2>3. CASE HoldAfterTurnFailure(t, task[t], task[t].then)
    BY <2>1, <2>2, <2>3, FailureOrdinary, AgreeParts
  <2>4. CASE task' = [task EXCEPT ![t] = Goto(task[t], task[t].then)] /\ UNCHANGED <<hold, held>>
    BY <2>1, <2>2, <2>4, GotoPasses, RestOrdinary, AgreeParts
  <2> QED BY <1>3, <2>3, <2>4 DEF TerminalEmitted
<1>4. CASE FailureEmitted(t) \/ SteerEmitted(t)
  <2>1. Return(t) /\ task[t].pc \in {"failed", "steered"} /\ UNCHANGED <<queue, held, hold>>
    BY <1>4 DEF FailureEmitted, SteerEmitted
  <2> QED BY <2>1, ReturnPasses, RestOrdinary, AgreeParts DEF Settling
<1>5. CASE SteerLeaves(t, "leaving") \/ InputEdited(t)
  <2>1. /\ LeaveEdit(t, IdleTask) /\ task[t].pc \in {"editing", "leaving"}
        /\ UNCHANGED <<queue, held, hold>>
    BY <1>5 DEF SteerLeaves, InputEdited, MayEdit
  <2> QED BY <2>1, LeavePasses, RestOrdinary, AgreeParts
<1> QED BY <1>1, <1>2, <1>3, <1>4, <1>5, WalkGoesOn DEF Emitted, LetsGo

LEMMA AnswerOrdinary ==
  ASSUME AgreeInv, NEW t \in Tasks, Answer(t)
  PROVE  Ordinary
<1>1. CASE StartAcknowledged(t) \/ SteerAccepted(t)
  <2>1. /\ InFlight(t) /\ UNCHANGED <<queue, held, hold>>
        /\ \/ \E b : task' = [task EXCEPT ![t].pc = "started", ![t].early = b]
           \/ task' = [task EXCEPT ![t].pc = "steered", ![t].rev = 0]
    BY <1>1 DEF StartAcknowledged, SteerAccepted, InFlight
  <2>2. Alone(t) /\ task'[t].pc \in {"started", "steered"}
    BY <2>1, AgreeParts, AllParts DEF Alone, TaskOK, Chain
  <2>3. Passes(t)
    BY <2>1, <2>2 DEF Passes, InFlight, Settling, Walking, LettingGo
  <2> QED BY <2>1, <2>3, RestOrdinary
<1>2. CASE DirectStartRejected(t)
  <2>1. task[t].pc = "starting" /\ UNCHANGED queue
    BY <1>2 DEF DirectStartRejected, Refuse
  <2>2. task[t].pc \notin Settling \union {"clearing"}
    BY <2>1 DEF Settling
  <2>3. CASE HoldAfterTurnFailure(t, task[t], "failed")
    BY <2>1, <2>2, <2>3, FailureOrdinary, AgreeParts DEF Onward
  <2>4. CASE task' = [task EXCEPT ![t].pc = "failed"] /\ UNCHANGED <<hold, held>>
    <3>1. Alone(t) /\ task'[t].pc = "failed"
      BY <2>4, AgreeParts, AllParts DEF Alone, TaskOK, Chain
    <3>2. Passes(t)
      BY <2>2, <3>1 DEF Passes, Walking, LettingGo
    <3> QED BY <2>1, <2>4, <3>2, RestOrdinary
  <2> QED BY <1>2, <2>3, <2>4 DEF DirectStartRejected
<1>3. ASSUME NEW r \in Refusals, QueuedStartRejected(t, r) \/ SteerRejected(t, r) PROVE Ordinary
  <2>1. Block(t, r) /\ InFlight(t) /\ UNCHANGED held
    BY <1>3 DEF QueuedStartRejected, SteerRejected, Refuse, InFlight
  <2> QED BY <2>1, BlockOrdinary
<1> QED BY <1>1, <1>2, <1>3, DeclinedOrdinary DEF Answer

LEMMA ReportOrdinary ==
  ASSUME AgreeInv, NEW n \in notices, Report(n)
  PROVE  Ordinary
<1>1. ASSUME NEW t \in Tasks, Release(t, n) PROVE Ordinary
  <2>1. task[t].pc = "idle" /\ UNCHANGED queue
    BY <1>1 DEF Release, Free
  <2>2. task[t].pc \notin Settling \union {"clearing"}
    BY <2>1 DEF Settling
  <2>3. n.turn \in AnyTurn /\ n.status \in Statuses
    BY AgreeParts, AllParts DEF ProviderOK, Outcome
  <2>4. SettleRelease(t, [IdleTask EXCEPT !.ctx = "release"], n.turn, n.status, "next")
    BY <1>1 DEF Release
  <2> QED BY <2>1, <2>2, <2>3, <2>4, FreshRelease, SettleReleaseOrdinary
<1>2. CASE ReleaseBuffered(n) \/ ReleaseIgnored(n) \/ ReleaseCoalesced(n)
  BY <1>2, RestOrdinary DEF ReleaseBuffered, ReleaseIgnored, ReleaseCoalesced
<1> QED BY <1>1, <1>2 DEF Report

LEMMA NextOrdinary ==
  ASSUME AgreeInv, [Next]_vars
  PROVE  Ordinary \/ \E t \in Tasks : LetsGo(t)
<1>1. CASE UNCHANGED vars
  BY <1>1, RestOrdinary DEF vars
<1>2. CASE DrainFires
  <2>1. ASSUME NEW t \in Tasks, NEW can \in BOOLEAN, Free(t), Claim(t, "drain", can)
        PROVE  Ordinary
    BY <2>1, ClaimOrdinary DEF Free
  <2> QED BY <1>2, <2>1, RestOrdinary DEF DrainFires
<1>3. CASE Backend
  BY <1>3, RestOrdinary DEF Backend, TurnBegins, ExternalTurnBegins, IdleReported, TurnEnds,
                            OutcomeRepeated, Notify
<1>4. CASE GateDue \/ GateOpens \/ GateQuiets
  BY <1>4, RestOrdinary DEF GateDue, GateOpens, GateQuiets, GateMoves
<1> QED BY <1>1, <1>2, <1>3, <1>4, ProceedOrdinary, EmittedOrdinary, AnswerOrdinary,
           ReportOrdinary, SubmissionOrdinary DEF Next

(* A walk that holds is alone while a hold is let go.                       *)
LEMMA LetsGoApart ==
  ASSUME AgreeInv, ~LetGoInWalk, PassedReleased
  PROVE  FALSE
<1>1. PICK t \in Tasks :
        ClearQueueHold(t) \/ ClearEmitted(t) \/ ReleaseHold(t) \/ UnlockEmitted(t)
  BY DEF PassedReleased
<1>2. PICK u \in Tasks : task[u].pc = "holding"
  BY DEF PassedReleased, Passed
<1>3. LettingGo(task[t])
  BY <1>1, <1>2 DEF LetGoInWalk, ClearEmitted, UnlockEmitted, LettingGo
<1>4. t = u
  BY <1>2, <1>3, AgreeParts DEF Agreed, Apart, Walking
<1> QED BY <1>2, <1>3, <1>4 DEF LettingGo

LEMMA AgreeInit == Init => AgreeInv
<1> SUFFICES ASSUME Init PROVE AgreeInv
  OBVIOUS
<1>1. WalkInv
  BY WalkInit
<1>2. \A t \in Tasks : task[t].pc = "idle"
  BY DEF Init, IdleTask
<1>3. reasons = << >> /\ \A e \in Entries : ~Held(e)
  BY DEF Init, Held
<1>4. Once(reasons)
  BY <1>3 DEF Once
<1>5. (\A t \in Tasks : Fits(task[t])) /\ Apart
  BY <1>2 DEF Fits, Apart, LettingGo
<1> QED BY <1>1, <1>3, <1>4, <1>5 DEF AgreeInv, Agreed

LEMMA AgreeNext ==
  /\ AgreeInv
  /\ [Next /\ ~PassedCancelled /\ ~PutBackPassed /\ ~LetGoInWalk /\ ~LetGoDisturbed]_vars
  => AgreeInv'
<1> SUFFICES ASSUME AgreeInv,
                    [Next /\ ~PassedCancelled /\ ~PutBackPassed
                          /\ ~LetGoInWalk /\ ~LetGoDisturbed]_vars
             PROVE  AgreeInv'
  OBVIOUS
<1>1. WalkInv'
  <2>1. [Next /\ ~PassedCancelled /\ ~PassedReleased /\ ~PutBackPassed]_vars
    BY LetsGoApart
  <2> QED BY <2>1, WalkNext, AgreeParts
<1>2. ~LetGoDisturbed \/ UNCHANGED vars
  OBVIOUS
<1>3. CASE UNCHANGED vars
  <2>1. Agreed
    BY DEF AgreeInv
  <2>2. Agreed'
    BY <1>3, <2>1 DEF vars, Agreed, Fits, Collected, Apart, AnyHeld, Held
  <2> QED BY <1>1, <2>2 DEF AgreeInv
<1>4. CASE Ordinary /\ ~LetGoDisturbed
  BY <1>1, <1>4, OrdinaryAgrees DEF AgreeInv
<1>5. ASSUME NEW t \in Tasks, LetsGo(t), ~LetGoInWalk PROVE AgreeInv'
  BY <1>1, <1>5, ClearAgrees, UnlockAgrees DEF AgreeInv, LetsGo
<1>6. [Next]_vars
  OBVIOUS
<1> QED BY <1>3, <1>4, <1>5, <1>6, NextOrdinary

LEMMA QuietAgrees ==
  ASSUME AgreeInv, Quiet
  PROVE  /\ reasons # << >> => \E i \in DOMAIN queue : Held(queue[i])
         /\ \A i \in DOMAIN queue : Held(queue[i]) => reasons # << >>
<1>1. \A t \in Tasks : task[t].pc = "idle"
  BY DEF Quiet, Free
<1>2. reasons # << >> => AnyHeld
  BY <1>1, AgreeParts DEF Agreed, Settling
<1>3. DOMAIN queue = 1..Len(queue) /\ \A i \in 1..Len(queue) : queue[i] \in Entries
  BY AgreeParts
<1>4. \A e \in Entries : Held(e) => held[e] \in Waiting(reasons)
  BY <1>1, AgreeParts DEF Agreed
<1>5. reasons = << >> => Waiting(reasons) = {}
  BY DEF Waiting
<1> QED BY <1>2, <1>3, <1>4, <1>5 DEF AnyHeld, Waiting

(* When nothing is under way, an entry that waits for Retry is in a FIFO    *)
(* whose hold heldQueues knows, so that Retry accepts it (holdQueue,        *)
(* clearQueueHold, releaseHold): whatever else interleaves, unless Retry or *)
(* an unlock begins while another walk is suspended, finds what it has      *)
(* passed or the hold changed when it goes on, or the walk of a hold has an *)
(* entry cancelled or put back behind its index.                            *)
THEOREM HeldEntriesHaveAHold == SeparateSpec => []HeldHasHold
<1>1. Init => AgreeInv
  BY AgreeInit
<1>2. /\ AgreeInv
      /\ [Next /\ ~PassedCancelled /\ ~PutBackPassed /\ ~LetGoInWalk /\ ~LetGoDisturbed]_vars
      => AgreeInv'
  BY AgreeNext
<1>3. AgreeInv => HeldHasHold
  BY QuietAgrees DEF HeldHasHold
<1> QED BY <1>1, <1>2, <1>3, PTL DEF SeparateSpec

(* When nothing is under way, heldQueues has no hold left without an entry  *)
(* it holds, which would keep every later submission from starting: a claim *)
(* or a cancel that takes the last held entry drops the hold, and an unlock *)
(* keeps the reasons it met and no others (dropSpentHold, releaseHold),     *)
(* save for the interleavings named above.                                  *)
THEOREM NoHoldIsLeftBehind == SeparateSpec => []HoldIsSpent
<1>1. Init => AgreeInv
  BY AgreeInit
<1>2. /\ AgreeInv
      /\ [Next /\ ~PassedCancelled /\ ~PutBackPassed /\ ~LetGoInWalk /\ ~LetGoDisturbed]_vars
      => AgreeInv'
  BY AgreeNext
<1>3. AgreeInv => HoldIsSpent
  BY QuietAgrees DEF HoldIsSpent
<1> QED BY <1>1, <1>2, <1>3, PTL DEF SeparateSpec

=============================================================================
