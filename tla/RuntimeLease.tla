---------------------------- MODULE RuntimeLease ----------------------------
(* The lease that lets one app instance of a profile run the messaging     *)
(* adapters: app-runtime-instance-store.ts and runtime-lease-manager.ts    *)
(* decide who owns it, runtime-messaging-lease.ts and runtime-lease-       *)
(* retry.ts drive the adapters by it, profile.ts shows who is alive.       *)
(*                                                                         *)
(* Times are ages that stop growing once nothing compares them any more.   *)
(* A marker older than Ttl, deleted or never written is Stale.  An         *)
(* instance is one launch of the app; it never comes back.                 *)
EXTENDS Integers, Sequences, FiniteSets

CONSTANTS
  Instances, None,
  Calls,      \* coordinator calls one instance may have under way at a time
  Ttl,        \* PROFILE_RUNTIME_HEARTBEAT_TTL_MS
  Grace,      \* RUNTIME_LEASE_DEAD_OWNER_GRACE_MS
  Retain,     \* APP_RUNTIME_INSTANCE_RETENTION_MS
  MaxLapsed,  \* bounds the instances that go without a fresh marker
  Faults      \* of "crash", "lapse", "reboot", "skew", "pid", "load", "stop"

ASSUME LeaseAssumption ==
  /\ None \notin Instances
  /\ {Ttl, Grace, Retain, MaxLapsed} \subseteq Nat /\ Grace <= Retain

VARIABLES
  life,      \* of the instance: new, up, quitting, released, gone
  age,       \* of its profile marker
  lapsed,    \* instances that ran without a fresh marker at some time
  old,       \* instances started before the last boot of the machine
  predates,  \* <<o, q>>: q takes o's start for earlier than the boot
  exited,    \* age of exitedAt in the instance's row
  waiting,   \* instances whose row says disabled_reason lease_held
  holder, left,       \* the active lease: owner, what is left to expiresAt
  adapters,  \* instances whose messaging adapters run
  call,      \* where each coordinator call is suspended
  current,   \* calls whose generation is the newest of their instance
  queue,     \* lifecycleQueue of each messaging runtime
  timer      \* instances with a RuntimeLeaseRetry timer

process == <<life, age, lapsed, old, predates>>
lease   == <<exited, waiting, holder, left>>
runtime == <<adapters, call, current, queue, timer>>
vars    == <<process, lease, runtime>>

Stale == Ttl + 1
Never == Grace + 1                   \* PID_OWNED_LEASE_EXPIRES_AT
Unrecorded == -2                     \* no row yet
Running == -1                        \* a row without exitedAt
Retired == Retain + 1                \* the row was deleted

HasRow(p) == exited[p] \notin {Unrecorded, Retired}
Exited(p) == exited[p] \in 0..Retain

(* Who is dead for whom.  q reads p's marker and asks the system for its   *)
(* PID, which another program may have by now.                             *)
Alive(p, q) ==
  IF exited[p] # Running THEN {FALSE}
  ELSE IF p = q THEN {TRUE}
  ELSE IF age[p] > Ttl THEN {FALSE}
  ELSE IF life[p] # "gone" THEN {TRUE}
  ELSE IF "pid" \in Faults THEN BOOLEAN ELSE {FALSE}

-----------------------------------------------------------------------------
(* The lease store.                                                        *)

(* recordMessagingState: the instance's row is inserted once, then updated. *)
Record(q, rows) == exited' = [rows EXCEPT ![q] = IF @ = Unrecorded THEN Running ELSE @]
Waits(q, held) ==
  waiting' = IF held /\ exited[q] # Retired THEN waiting \union {q} ELSE waiting \ {q}

(* q owns the lease from now on; or it does not, and expiresAt is set.     *)
TakeOver(q, rows) == holder' = q /\ left' = Never /\ Record(q, rows)
Take(q) == TakeOver(q, exited)
Refuse(q, rows, expiry) == holder' = holder /\ left' = expiry /\ Record(q, rows)

(* acquireLease: the instance of an active lease of another owner.         *)
ReclaimAfterExit(q, p) ==
  LET due == <<p, q>> \in predates \/ exited[p] >= Grace
  IN  /\ Exited(p)
      /\ IF due THEN Take(q) ELSE Refuse(q, exited, Grace - exited[p])

FindAlive(q, p) == HasRow(p) /\ ~Exited(p) /\ TRUE \in Alive(p, q)
                   /\ Refuse(q, exited, left)

\* Mutant: an owner that seems to be of an earlier boot is replaced, alive or not.
ReplaceUnasked(q, p) ==
  /\ HasRow(p) /\ ~Exited(p) /\ <<p, q>> \in predates
  /\ TakeOver(q, [exited EXCEPT ![p] = 0])

ReplaceEarlierBoot(q, p) ==
  /\ HasRow(p) /\ ~Exited(p) /\ FALSE \in Alive(p, q) /\ <<p, q>> \in predates
  /\ TakeOver(q, [exited EXCEPT ![p] = 0])

CondemnOwner(q, p) ==
  /\ HasRow(p) /\ ~Exited(p) /\ FALSE \in Alive(p, q) /\ <<p, q>> \notin predates
  /\ Refuse(q, [exited EXCEPT ![p] = 0], Grace)

OwnerWithoutRow(q, p) ==
  /\ ~HasRow(p)
  /\ CASE left = Never -> Refuse(q, exited, Grace)
       [] left = 0     -> Take(q)
       [] OTHER        -> Refuse(q, exited, left)

Challenge(q, p) ==
  \/ ReclaimAfterExit(q, p)
  \/ FindAlive(q, p)
  \/ ReplaceEarlierBoot(q, p)
  \/ CondemnOwner(q, p)
  \/ OwnerWithoutRow(q, p)

Acquire(q) ==
  CASE holder = None -> Take(q)
    [] holder = q    -> Refuse(q, exited, left)
    [] OTHER         -> Challenge(q, holder)

Release(q) ==
  /\ holder' = IF holder = q THEN None ELSE holder
  /\ UNCHANGED <<exited, left>>

\* Mutant: an owner nobody has marked exited yet is left to others.
RetryAfterExit(q, alive) ==
  \/ holder = None
  \/ holder # None /\ ~HasRow(holder) /\ left \in {0, Never}
  \/ /\ holder # None /\ Exited(holder)
     /\ <<holder, q>> \in predates \/ exited[holder] >= Grace

(* shouldRetryAcquisition, for one answer about the owner's liveness.      *)
ShouldRetry(q, alive) ==
  \/ holder = None
  \/ holder # None /\ ~HasRow(holder) /\ left \in {0, Never}
  \/ /\ holder # None /\ HasRow(holder) /\ ~alive
     /\ ~Exited(holder) \/ <<holder, q>> \in predates \/ exited[holder] >= Grace

-----------------------------------------------------------------------------
(* The coordinator.  Each action is one synchronous stretch of it.         *)

Cancel(p) == timer' = timer \ {p}
Newest(p, c) == (current \ ({p} \X Calls)) \union {<<p, c>>}
Goto(p, c, pc) == call' = [call EXCEPT ![p][c] = pc]

(* Applies the saved settings: at launch, after a change, from Settings.   *)
ApplyLatestConfig(p, c) ==
  /\ life[p] = "up" /\ call[p][c] = "idle"
  /\ Goto(p, c, "loading") /\ current' = Newest(p, c) /\ Cancel(p)
  /\ UNCHANGED <<process, lease, adapters, queue>>

(* disableForSession.                                                      *)
DisableForSession(p, c) ==
  /\ life[p] = "up" /\ call[p][c] = "idle"
  /\ Goto(p, c, "stopping") /\ queue' = [queue EXCEPT ![p] = Append(@, c)]
  /\ current' = Newest(p, c) /\ Cancel(p)
  /\ UNCHANGED <<process, lease, adapters>>

(* The settings are there, but a newer call or a stop superseded this one; *)
(* or they could not be read.                                              *)
LoadInVain(p, c) ==
  /\ call[p][c] = "loading"
  /\ <<p, c>> \in current => "load" \in Faults
  /\ Goto(p, c, "idle")
  /\ UNCHANGED <<process, lease, adapters, current, queue, timer>>

(* applyResolvedConfig, enabled: acquires and starts, or stops and waits.  *)
LoadEnabled(p, c) ==
  /\ call[p][c] = "loading" /\ <<p, c>> \in current
  /\ Acquire(p) /\ Waits(p, holder' # p)
  /\ Goto(p, c, IF holder' = p THEN "applying" ELSE "denied")
  /\ queue' = [queue EXCEPT ![p] = Append(@, c)]
  /\ UNCHANGED <<process, adapters, current, timer>>

\* Mutant: the lease is released before the adapters have stopped.
ReleaseThenStop(p, c) ==
  /\ call[p][c] = "loading" /\ <<p, c>> \in current
  /\ holder' = IF holder = p THEN None ELSE holder
  /\ Record(p, exited) /\ Waits(p, FALSE)
  /\ Goto(p, c, "stopping") /\ queue' = [queue EXCEPT ![p] = Append(@, c)]
  /\ UNCHANGED <<process, left, adapters, current, timer>>

(* applyResolvedConfig, disabled or without adapters to run.               *)
LoadDisabled(p, c) ==
  /\ call[p][c] = "loading" /\ <<p, c>> \in current
  /\ Record(p, exited) /\ Waits(p, FALSE)
  /\ Goto(p, c, "stopping") /\ queue' = [queue EXCEPT ![p] = Append(@, c)]
  /\ UNCHANGED <<process, holder, left, adapters, current, timer>>

(* applyResolvedConfig with allowStart false: Messaging is off in this     *)
(* instance by an override, and there is nothing to stop.                  *)
LoadOverridden(p, c) ==
  /\ call[p][c] = "loading" /\ <<p, c>> \in current
  /\ holder # p /\ p \notin adapters
  /\ Record(p, exited) /\ Waits(p, FALSE)
  /\ Goto(p, c, "idle")
  /\ UNCHANGED <<process, holder, left, adapters, current, queue, timer>>

(* The runtime has done what the call at the head of its queue asked for.  *)
AtHead(p, c) == queue[p] # <<>> /\ Head(queue[p]) = c
AdaptersOf(p, on) == adapters' = IF on THEN adapters \union {p} ELSE adapters \ {p}

Applied(p, c) ==
  /\ AtHead(p, c) /\ call[p][c] = "applying"
  /\ AdaptersOf(p, TRUE) /\ Goto(p, c, "idle")
  /\ queue' = [queue EXCEPT ![p] = Tail(@)]
  /\ UNCHANGED <<process, lease, current, timer>>

ApplyFails(p, c) ==
  /\ AtHead(p, c) /\ call[p][c] = "applying"
  /\ \E on \in BOOLEAN : AdaptersOf(p, on)
  /\ Goto(p, c, "failing") /\ queue' = [queue EXCEPT ![p] = Append(Tail(@), c)]
  /\ UNCHANGED <<process, lease, current, timer>>

StoppedAndReleases(p, c) ==
  /\ AtHead(p, c) /\ call[p][c] \in {"stopping", "failing"}
  /\ AdaptersOf(p, FALSE) /\ Release(p) /\ Waits(p, FALSE) /\ Goto(p, c, "idle")
  /\ queue' = [queue EXCEPT ![p] = Tail(@)]
  /\ UNCHANGED <<process, current, timer>>

StoppedAndWaits(p, c) ==
  /\ AtHead(p, c) /\ call[p][c] = "denied"
  /\ AdaptersOf(p, FALSE) /\ Goto(p, c, "idle")
  /\ queue' = [queue EXCEPT ![p] = Tail(@)]
  /\ timer' = IF <<p, c>> \in current THEN timer \union {p} ELSE timer
  /\ UNCHANGED <<process, lease, current>>

(* runtime.stop() rejects because an adapter's stop did, which is taken to *)
(* have stopped it: the call ends without giving up the lease or, had it   *)
(* been denied, without setting the timer.  After a failed start the       *)
(* rejection is caught, and StoppedAndReleases goes on.                    *)
StopRejected(p, c) ==
  /\ AtHead(p, c) /\ p \in adapters
  /\ call[p][c] = "stopping" \/ (call[p][c] = "denied" /\ "stop" \in Faults)
  /\ AdaptersOf(p, FALSE) /\ Goto(p, c, "idle")
  /\ queue' = [queue EXCEPT ![p] = Tail(@)]
  /\ UNCHANGED <<process, lease, current, timer>>

(* The timer fires and, unless it is too early, calls recover.             *)
RetryFires(p, c) ==
  /\ p \in timer /\ call[p][c] = "idle"
  /\ \E alive \in IF holder = None THEN {FALSE} ELSE Alive(holder, p) :
       ShouldRetry(p, alive)
  /\ Goto(p, c, "loading") /\ current' = Newest(p, c) /\ Cancel(p)
  /\ UNCHANGED <<process, lease, adapters, queue>>

-----------------------------------------------------------------------------
(* Quitting: recovery stops, the lease is released, the adapters stop, the *)
(* instance is marked exited.  Each wait is bounded and may run out.       *)

StopRecovery(p) ==
  /\ life[p] = "up"
  /\ life' = [life EXCEPT ![p] = "quitting"]
  /\ current' = current \ ({p} \X Calls) /\ Cancel(p)
  /\ UNCHANGED <<age, lapsed, old, predates, lease, adapters, call, queue>>

ShutdownSync(p) ==
  /\ life[p] = "quitting"
  /\ life' = [life EXCEPT ![p] = "released"]
  /\ Release(p)
  /\ IF holder = p THEN Waits(p, FALSE) ELSE UNCHANGED waiting
  /\ UNCHANGED <<age, lapsed, old, predates, runtime>>

DisposeRuntime(p) ==
  /\ life[p] = "released" /\ queue[p] = <<>> /\ p \in adapters
  /\ AdaptersOf(p, FALSE)
  /\ UNCHANGED <<process, lease, call, current, queue, timer>>

(* Its process is over, one way or another.                                *)
Ends(S) ==
  /\ life' = [p \in Instances |-> IF p \in S THEN "gone" ELSE life[p]]
  /\ adapters' = adapters \ S /\ timer' = timer \ S
  /\ current' = current \ (S \X Calls)
  /\ call' = [p \in Instances |-> IF p \in S THEN [c \in Calls |-> "idle"] ELSE call[p]]
  /\ queue' = [p \in Instances |-> IF p \in S THEN <<>> ELSE queue[p]]

Exit(p) ==
  /\ life[p] = "released"
  /\ Ends({p})
  /\ exited' = [exited EXCEPT ![p] = IF HasRow(p) THEN 0 ELSE @]
  /\ UNCHANGED <<age, lapsed, old, predates, waiting, holder, left>>

Crash(p) ==
  /\ "crash" \in Faults /\ life[p] \in {"up", "quitting", "released"}
  /\ Ends({p})
  /\ UNCHANGED <<age, lapsed, old, predates, lease>>

Launched == {p \in Instances : life[p] # "new"}

Reboot ==
  /\ "reboot" \in Faults /\ Launched # old
  /\ Ends(Launched) /\ old' = Launched
  /\ UNCHANGED <<age, lapsed, predates, lease>>

-----------------------------------------------------------------------------
(* Processes and time.                                                     *)

(* What an instance takes the others' start times for when the clock was   *)
(* corrected between their start and its own, or not.                      *)
Start(p) ==
  /\ life[p] = "new"
  /\ life' = [life EXCEPT ![p] = "up"]
  /\ age' = [age EXCEPT ![p] = 0]
  /\ IF "skew" \in Faults
     THEN \E S \in SUBSET (Launched \X {p} \union {p} \X Launched) :
            predates' = predates \union S
     ELSE predates' = predates \union (old \X {p})
  /\ UNCHANGED <<lapsed, old, lease, runtime>>

Heartbeat(p) ==
  /\ life[p] \in {"up", "quitting", "released"} /\ age[p] > 0
  /\ age' = [age EXCEPT ![p] = 0]
  /\ UNCHANGED <<life, lapsed, old, predates, lease, runtime>>

(* The process, or the machine, did not run for longer than Ttl, the clock *)
(* was set forward, or a write failed and ended the heartbeat.             *)
Lapse(S) ==
  /\ "lapse" \in Faults /\ S # {} /\ Cardinality(lapsed \union S) <= MaxLapsed
  /\ \A p \in S : life[p] \in {"up", "quitting", "released"} /\ age[p] <= Ttl
  /\ age' = [p \in Instances |-> IF p \in S THEN Stale ELSE age[p]]
  /\ lapsed' = lapsed \union S
  /\ UNCHANGED <<life, old, predates, lease, runtime>>

\* Mutant: an age grows past the last value anything compares.
OlderStill(a, bound) == IF a \in 0..bound THEN a + 1 ELSE a

Older(a, bound) == IF a \in 0..(bound - 1) THEN a + 1 ELSE a

(* An instance that runs writes its marker before it is older than Ttl.    *)
Tick ==
  /\ \A p \in Instances : life[p] \in {"up", "quitting", "released"} => age[p] # Ttl
  /\ age' = [p \in Instances |-> Older(age[p], Stale)]
  /\ exited' = [p \in Instances |-> Older(exited[p], Retain)]
  /\ left' = IF left \in 1..Grace THEN left - 1 ELSE left
  /\ <<age, exited, left>>' # <<age, exited, left>>
  /\ UNCHANGED <<life, lapsed, old, predates, waiting, holder, runtime>>

(* cleanupExpired: an hour after its end an instance's row is deleted; an  *)
(* active lease whose time is over becomes expired.                        *)
RetireRow(p) ==
  /\ exited[p] = Retain
  /\ exited' = [exited EXCEPT ![p] = Retired] /\ waiting' = waiting \ {p}
  /\ UNCHANGED <<process, holder, left, runtime>>

ExpireLease ==
  /\ holder # None /\ left = 0
  /\ holder' = None
  /\ UNCHANGED <<process, exited, waiting, left, runtime>>

-----------------------------------------------------------------------------
Init ==
  /\ life = [p \in Instances |-> "new"] /\ age = [p \in Instances |-> Stale]
  /\ lapsed = {} /\ old = {} /\ predates = {}
  /\ exited = [p \in Instances |-> Unrecorded] /\ waiting = {} /\ holder = None /\ left = Never
  /\ adapters = {} /\ call = [p \in Instances |-> [c \in Calls |-> "idle"]]
  /\ current = {} /\ queue = [p \in Instances |-> <<>>] /\ timer = {}

Coordinate(p) == \E c \in Calls :
  \/ ApplyLatestConfig(p, c) \/ DisableForSession(p, c) \/ RetryFires(p, c)
  \/ LoadInVain(p, c) \/ LoadEnabled(p, c)
  \/ LoadDisabled(p, c) \/ LoadOverridden(p, c)
  \/ Applied(p, c) \/ ApplyFails(p, c)
  \/ StoppedAndReleases(p, c) \/ StoppedAndWaits(p, c) \/ StopRejected(p, c)

Quit(p) == StopRecovery(p) \/ ShutdownSync(p) \/ DisposeRuntime(p) \/ Exit(p)

Next ==
  \/ \E p \in Instances :
       Coordinate(p) \/ Quit(p) \/ Crash(p) \/ Start(p) \/ Heartbeat(p) \/ RetireRow(p)
  \/ \E S \in SUBSET Instances : Lapse(S)
  \/ Reboot \/ Tick \/ ExpireLease

Spec == Init /\ [][Next]_vars

(* stopRuntimeAndRelease releases whatever a newer call did meanwhile: the  *)
(* lease goes although that call has acquired it and starts the adapters.   *)
ReleaseOvertaken(p) ==
  \E c, d \in Calls : StoppedAndReleases(p, c) /\ call[p][d] = "applying"

(* Nobody enables Messaging while it is still being stopped.                *)
OrderlySpec == Init /\ [][Next /\ \A p \in Instances : ~ReleaseOvertaken(p)]_vars

(* Markers are written and time passes; a timer set fires; settings are    *)
(* read, or not, in the end; the adapters start, fail or stop in the end.  *)
Loads(p) == \E c \in Calls : \/ LoadInVain(p, c) \/ LoadEnabled(p, c)
                            \/ LoadDisabled(p, c) \/ LoadOverridden(p, c)
Works(p) == \E c \in Calls : \/ Applied(p, c) \/ ApplyFails(p, c)
                            \/ StoppedAndReleases(p, c) \/ StoppedAndWaits(p, c)
                            \/ StopRejected(p, c)

Fairness ==
  /\ WF_vars(Tick)
  /\ \A p \in Instances : /\ WF_vars(Heartbeat(p)) /\ WF_vars(Loads(p)) /\ WF_vars(Works(p))
                          /\ WF_vars(\E c \in Calls : RetryFires(p, c))

FairSpec == Spec /\ Fairness

-----------------------------------------------------------------------------
(* Properties.                                                             *)

Ages == [Instances -> 0..Stale]

(* Every variable has its type.                                            *)
TypeOK ==
  /\ life \in [Instances -> {"new", "up", "quitting", "released", "gone"}]
  /\ age \in Ages
  /\ lapsed \subseteq Instances /\ old \subseteq Instances
  /\ predates \subseteq Instances \X Instances
  /\ exited \in [Instances -> Unrecorded..Retired]
  /\ waiting \subseteq Instances
  /\ holder \in Instances \union {None} /\ left \in 0..Never
  /\ adapters \subseteq Instances /\ timer \subseteq Instances
  /\ call \in [Instances -> [Calls -> {"idle", "loading", "applying", "denied", "stopping", "failing"}]]
  /\ current \subseteq Instances \X Calls
  /\ queue \in [Instances -> Seq(Calls)]

(* An owner that never went without a fresh marker keeps the lease until   *)
(* its own coordinator gives it up, it quits or it dies: no challenger, no *)
(* clock correction and no cleanup takes it away.                          *)
KeepsLease(p) ==
  (holder = p /\ life[p] \in {"up", "quitting"} /\ life'[p] = life[p] /\ queue'[p] = queue[p])
    => holder' = p

LiveKeepsLease == [][\A p \in Instances \ lapsed : KeepsLease(p)]_vars

(* The adapters of an instance that never went without a fresh marker run  *)
(* only while it owns the lease, so those of two such instances never run  *)
(* at the same time.                                                       *)
RunnersHoldLease ==
  \A p \in adapters \ lapsed : life[p] \in {"up", "quitting"} => holder = p

(* Messaging adapters are single-holder per profile                        *)
(* (src/docs/state-layout.md:116): two instances with fresh markers do not *)
(* run them at the same time, however the calls of each overlap.           *)
SingleHolder ==
  \A p, q \in adapters \ lapsed :
    {life[p], life[q]} \subseteq {"up", "quitting"} => p = q

(* An instance that shows "Waiting to retry Messaging" does not wait for   *)
(* ever for an owner that is gone: the lease changes hands, or its         *)
(* operator no longer wants it.                                            *)
LeaseRecovered ==
  \A p \in Instances : \A q \in Instances \ {p} :
    (holder = p /\ life[p] = "gone" /\ q \in waiting /\ life[q] = "up")
      ~> (holder # p \/ q \notin waiting \/ life[q] # "up")

=============================================================================
