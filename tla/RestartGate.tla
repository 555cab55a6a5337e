---------------------------- MODULE RestartGate ----------------------------
(* The quiet-restart gate of restart-continuation-gate.ts with the timers  *)
(* and the drains BackendRegistry drives it with, from the launch that put *)
(* the continuations of a quiet restart back into their threads' queues.   *)
(* Each entry is alone in its thread's FIFO: 1..C are the continuations,   *)
(* oldest first, the others wait behind the gate on threads of their own.  *)
(*                                                                         *)
(* Time is what is left of it.  Timers count ticks of the event loop's     *)
(* clock; dispatchAt and releaseBy are read against Date.now(), which in   *)
(* one tick moves by some r in Rates: by more when the machine slept, not  *)
(* at all when the clock was set back or rounds the other way.             *)
EXTENDS Integers, FiniteSets, FiniteSetsExt, Functions

CONSTANTS
  C,           \* continuations restored by this launch
  Others,      \* other entries that wait while the gate is shut
  BatchSize, FirstDelay, Interval, Jitter, Grace,   \* RESTART_DISPATCH_DEFAULTS
  Fallback,    \* RESTART_DISPATCH_FALLBACK_MS
  Rates,       \* how far Date.now() may move in a tick of the timers
  MaxSlips     \* bounds the ticks in which it does not move

ASSUME GateAssumption ==
  /\ C \in Nat \ {0} /\ BatchSize \in Nat \ {0}
  /\ {FirstDelay, Interval, Jitter, Grace, Fallback, MaxSlips} \subseteq Nat
  /\ Rates \subseteq Nat
  /\ IsFiniteSet(Others) /\ Others \subseteq Nat \ (0..C)

Continuations == 1..C
Entries == Continuations \union Others

VARIABLES
  phase,      \* RestartGateState.phase
  pending,    \* continuations that have not settled
  at,         \* what is left until a scheduled continuation's dispatchAt
  releaseIn,  \* what is left until releaseBy
  begun,      \* restartDispatchStarted
  fallback, dispatch, deadline,      \* restartGateTimers
  slips,      \* ticks in which Date.now() did not move
  place,      \* where each entry is
  paused,     \* entries the operator paused, waiting or held
  drains,     \* entries whose thread has a drain scheduled
  closed      \* the registry was closed

gate  == <<phase, pending, at, releaseIn, begun>>
timer == <<fallback, dispatch, deadline>>
queue == <<place, paused, drains>>
vars  == <<gate, timer, queue, slips, closed>>

Off == -1                      \* no timer
Now == -MaxSlips - 1           \* not scheduled: never held by its time
Never == 1                     \* Number.POSITIVE_INFINITY: it does not pass

(* Dispatch time of the entry with this many continuations before it.      *)
DispatchTime(i) == FirstDelay + (i \div BatchSize) * Interval

(* restartGateHolds, with Date.now().                                      *)
GateHolds(e) ==
  \/ phase = "quieting"
  \/ phase = "resuming" /\ (e \in Others \/ at[e] > 0)

-----------------------------------------------------------------------------
(* transitionRestartGate and what applyRestartGate does when it opens.     *)

Queued(pl) == {e \in Entries : pl[e] \in {"waiting", "held"}}

DrainContinuations(pl) ==                                  \* mutant
  drains \union (Queued(pl) \intersect Continuations)

DrainAll(pl) == drains \union Queued(pl)

OpenGate(pl) ==
  /\ phase' = "open"
  /\ pending' = {}
  /\ at' = [c \in Continuations |-> Never] /\ releaseIn' = Never
  /\ fallback' = Off /\ dispatch' = [c \in Continuations |-> Off] /\ deadline' = Off
  /\ drains' = DrainAll(pl)
  /\ UNCHANGED begun

SettlingStarts == {"started", "failed", "cancelled"}       \* mutant

Settling == {"started", "failed", "cancelled", "blocked", "held"}

(* A lifecycle event of entry e, after which the entries are at pl and the *)
(* drains are ds if the gate does not open.                                *)
Lifecycle(e, type, pl, ds) ==
  /\ place' = pl
  /\ paused' = {x \in paused : pl[x] # "gone"}
  /\ IF phase = "resuming" /\ e \in pending /\ type \in Settling
     THEN IF pending = {e}
          THEN OpenGate(pl)
          ELSE /\ pending' = pending \ {e}
               /\ drains' = ds
               /\ UNCHANGED <<phase, at, releaseIn, begun, timer>>
     ELSE drains' = ds /\ UNCHANGED <<gate, timer>>
  /\ UNCHANGED <<slips, closed>>

(* The operator's "Start everything now".                                  *)
Release ==
  /\ ~closed /\ phase = "resuming"
  /\ OpenGate(place)
  /\ UNCHANGED <<place, paused, slips, closed>>

(* A quiet restart begins; the timers keep running.                        *)
Quiet ==
  /\ ~closed /\ phase # "quieting"
  /\ phase' = "quieting" /\ pending' = {}
  /\ at' = [c \in Continuations |-> Never] /\ releaseIn' = Never
  /\ UNCHANGED <<begun, timer, queue, slips, closed>>

Close ==
  /\ ~closed
  /\ closed' = TRUE
  /\ fallback' = Off /\ dispatch' = [c \in Continuations |-> Off] /\ deadline' = Off
  /\ UNCHANGED <<gate, queue, slips>>

-----------------------------------------------------------------------------
(* beginRestartContinuationDispatch: once the providers have refreshed, or *)
(* when the fallback timer fires.                                          *)

KeptPending == pending                                     \* mutant

(* Settled continuations that still wait in their FIFO keep a place.       *)
Kept == pending \union (Queued(place) \intersect Continuations)

NoDeadline(in) == Off                                      \* mutant

AfterLastDispatch(in) == in - Grace                        \* mutant

Deadline(in) == in

Plan(jitter) ==
  LET time == [c \in Kept |-> DispatchTime(Cardinality({k \in Kept : k < c})) + jitter[c]]
      in   == Max(Range(time)) + Grace
  IN  /\ at' = [c \in Continuations |-> IF c \in Kept THEN time[c] ELSE Now]
      /\ dispatch' = [c \in Continuations |-> IF c \in Kept THEN time[c] ELSE Off]
      /\ releaseIn' = in
      /\ deadline' = Deadline(in)

BeginDispatch ==
  IF ~begun /\ phase = "resuming"
  THEN /\ begun' = TRUE
       /\ \E jitter \in [Kept -> 0..Jitter] : Plan(jitter)
       /\ UNCHANGED <<phase, pending, queue, slips, closed>>
  ELSE UNCHANGED <<gate, dispatch, deadline, queue, slips, closed>>

ProvidersRefreshed ==
  /\ ~closed /\ ~begun /\ phase = "resuming"
  /\ BeginDispatch
  /\ UNCHANGED fallback

FallbackFires ==
  /\ fallback = 0
  /\ fallback' = Off
  /\ BeginDispatch

DispatchFires(c) ==
  /\ dispatch[c] = 0
  /\ dispatch' = [dispatch EXCEPT ![c] = Off]
  /\ drains' = drains \union {c}
  /\ UNCHANGED <<gate, fallback, deadline, place, paused, slips, closed>>

(* The gate opens only if Date.now() has reached releaseBy as well; the    *)
(* timer is not set again.                                                 *)
DeadlineFires ==
  /\ deadline = 0
  /\ IF phase = "resuming" /\ releaseIn <= 0
     THEN OpenGate(place)
     ELSE /\ deadline' = Off
          /\ UNCHANGED <<gate, fallback, dispatch, drains>>
  /\ UNCHANGED <<place, paused, slips, closed>>

(* One tick of the timers' clock, in which Date.now() moves by r.          *)
CountsPastOff(t) == IF t = 0 THEN t ELSE t - 1           \* mutant

Counts(t) == IF t > 0 THEN t - 1 ELSE t

Passes(left, r) == IF left = Now THEN Now ELSE Max({left - r, -MaxSlips})

Tick(r) ==
  /\ ~closed
  /\ slips' = IF r = 0 THEN slips + 1 ELSE slips
  /\ slips' <= MaxSlips
  /\ fallback' = Counts(fallback) /\ deadline' = Counts(deadline)
  /\ dispatch' = [c \in Continuations |-> Counts(dispatch[c])]
  /\ IF begun /\ phase = "resuming"
     THEN /\ at' = [c \in Continuations |-> Passes(at[c], r)]
          /\ releaseIn' = Passes(releaseIn, r)
     ELSE UNCHANGED <<at, releaseIn>>
  /\ UNCHANGED <<phase, pending, begun, queue, closed>>

-----------------------------------------------------------------------------
(* The queues: one entry per thread, so startNext looks at that entry.     *)

Move(e, to) == [place EXCEPT ![e] = to]

(* The drain's setImmediate: startNext, up to the call of the backend.     *)
Drain(e) ==
  /\ ~closed /\ e \in drains
  /\ drains' = drains \ {e}
  /\ place' = IF place[e] = "waiting" /\ e \notin paused /\ ~GateHolds(e)
               THEN Move(e, "starting") ELSE place
  /\ UNCHANGED <<paused, gate, timer, slips, closed>>

(* The backend accepts the entry, or refuses it: it is blocked, then held  *)
(* (what can come between the two is in ThreadTurnQueue).                  *)
Started(e) ==
  /\ ~closed /\ place[e] = "starting"
  /\ Lifecycle(e, "started", Move(e, "gone"), drains)

Refused(e) ==
  /\ ~closed /\ place[e] = "starting"
  /\ Lifecycle(e, "blocked", Move(e, "held"), drains)

(* The operator cancels the entry, a lock holds it, and Retry or an unlock *)
(* lets it go on.                                                          *)
Cancel(e) ==
  /\ ~closed /\ place[e] \in {"waiting", "held"}
  /\ Lifecycle(e, "cancelled", Move(e, "gone"), drains)

Hold(e) ==
  /\ ~closed /\ place[e] = "waiting"
  /\ Lifecycle(e, "held", Move(e, "held"), drains)

Unhold(e) ==
  /\ ~closed /\ place[e] = "held"
  /\ Lifecycle(e, "queued", Move(e, "waiting"), drains \union {e})

(* The operator pauses a waiting entry, or resumes one wherever a hold put *)
(* it meanwhile.  Dispatch is suspended for that, and when the suspension  *)
(* ends the FIFO is looked at; there is no lifecycle event, so the gate    *)
(* does not hear of it.                                                    *)
SetPaused(e, S) ==
  /\ ~closed
  /\ paused' = S
  /\ drains' = drains \union {e}
  /\ UNCHANGED <<place, gate, timer, slips, closed>>

Pause(e) ==
  /\ place[e] = "waiting" /\ e \notin paused
  /\ SetPaused(e, paused \union {e})

Resume(e) ==
  /\ e \in paused
  /\ SetPaused(e, paused \ {e})

-----------------------------------------------------------------------------
(* The launch has restored its continuations and shut the gate.  Messages  *)
(* and wake-ups that were paused come back paused, continuations do not.   *)
Init ==
  /\ phase = "resuming" /\ pending = Continuations
  /\ at = [c \in Continuations |-> Never] /\ releaseIn = Never
  /\ begun = FALSE
  /\ fallback = Fallback /\ deadline = Off
  /\ dispatch = [c \in Continuations |-> Off]
  /\ slips = 0
  /\ place = [e \in Entries |-> "waiting"]
  /\ paused \in SUBSET Others
  /\ drains = {}
  /\ closed = FALSE

Timers ==
  \/ FallbackFires \/ DeadlineFires
  \/ \E c \in Continuations : DispatchFires(c)

Next ==
  \/ ProvidersRefreshed \/ Timers \/ Release \/ Quiet \/ Close
  \/ \E r \in Rates : Tick(r)
  \/ \E e \in Entries :
       \/ Drain(e) \/ Started(e) \/ Refused(e)
       \/ Cancel(e) \/ Hold(e) \/ Unhold(e) \/ Pause(e) \/ Resume(e)

Spec == Init /\ [][Next]_vars

(* The clock runs and a timer that is due fires.  Nobody has to refresh    *)
(* the providers, answer a start or release the gate.                      *)
FairSpec ==
  /\ Spec
  /\ WF_vars(\E r \in Rates : Tick(r))
  /\ WF_vars(FallbackFires) /\ WF_vars(DeadlineFires)
  /\ \A c \in Continuations : WF_vars(DispatchFires(c))

-----------------------------------------------------------------------------
TypeOK ==
  /\ phase \in {"open", "resuming", "quieting"}
  /\ pending \subseteq Continuations
  /\ at \in [Continuations -> Int] /\ releaseIn \in Int
  /\ {begun, closed} \subseteq BOOLEAN
  /\ {fallback, deadline} \subseteq {Off} \union Nat
  /\ dispatch \in [Continuations -> {Off} \union Nat]
  /\ slips \in 0..MaxSlips
  /\ place \in [Entries -> {"waiting", "starting", "held", "gone"}]
  /\ paused \subseteq Entries /\ drains \subseteq Entries

(* Each continuation the gate waits for is on its way: at the backend, or  *)
(* in its FIFO with a drain or a dispatch timer to come, or the plan is    *)
(* still to be made.  An event the gate misses, or a drain that is not     *)
(* scheduled, would hold every other thread for an entry that nothing      *)
(* starts (trackRestartContinuation, backend-registry.ts:22989-23003).     *)
(* The exception is one the operator paused: that publishes no lifecycle   *)
(* event (setQueuedTurnPaused, 23263-23307), so it stays pending and the   *)
(* others wait for the operator or the deadline.                           *)
PendingOnTheWay ==
  phase = "resuming" /\ ~closed =>
    /\ pending # {}
    /\ \A c \in pending :
         \/ place[c] = "starting"
         \/ /\ place[c] = "waiting"
            /\ c \in paused \/ ~begun \/ dispatch[c] # Off \/ c \in drains

(* While the gate is resuming a continuation starts at a time of the plan, *)
(* not before: one that a lock held keeps its time when the lock is        *)
(* released, so it cannot jump ahead of the stagger                        *)
(* (restart-continuation-gate.ts:38-42).                                   *)
NoneJumps ==
  [][\A c \in Continuations :
       place[c] = "waiting" /\ place'[c] = "starting" /\ phase = "resuming"
         => begun /\ at[c] # Now]_vars

(* A deadline bounds the wait of everything behind the gate: a             *)
(* continuation that never starts holds the rest only so long              *)
(* (restart-continuation-gate.ts:18-20).                                   *)
ResumingEnds == phase = "resuming" ~> phase # "resuming" \/ closed

(* While the gate is resuming, a timer is set whose handler ends it: until *)
(* the dispatch begins the fallback, then the deadline, which comes no     *)
(* sooner than releaseBy and is not used up by a handler that came early   *)
(* (backend-registry.ts:22929-22931, 22976-22986).                         *)
EndIsTimed ==
  phase = "resuming" /\ ~closed =>
    IF begun THEN deadline # Off /\ releaseIn <= deadline ELSE fallback # Off

(* The gate as the queues see it.                                          *)
TimeCame == IF phase = "resuming" THEN {c \in Continuations : at[c] <= 0} ELSE {}

Waiting == {e \in Entries : place[e] = "waiting" /\ e \notin paused}

Asked == {e \in Waiting : e \in drains \/ (e \in TimeCame /\ (dispatch[e] # Off \/ closed))}

Dispatching == INSTANCE GatedDispatch
  WITH due <- TimeCame, waiting <- Waiting, asked <- Asked,
       starting <- {e \in Entries : place[e] = "starting"}

(* As long as Date.now() does not fall behind the timers, the gate hands   *)
(* over entries as GatedDispatch promises, drains included.                *)
DispatchesAsPromised == Dispatching!Spec
=============================================================================
