------------------------- MODULE RestartGateProofs -------------------------
(* Proofs about RestartGate, for any number of continuations and entries   *)
(* and any delays.  Whatever the clocks do: its types, and no continuation *)
(* starts ahead of the plan.  While Date.now() does not fall behind the    *)
(* timers: the gate implements GatedDispatch, each continuation it waits   *)
(* for is on its way unless the operator paused it, and a timer that ends  *)
(* the wait is always set.                                                 *)
EXTENDS RestartGate, FiniteSetTheorems, WellFoundedInduction, TLAPS

(* What the proof needs of the types.                                      *)
GateType ==
  /\ pending \subseteq Continuations
  /\ phase # "resuming" => pending = {}
  /\ place \in [Entries -> {"waiting", "starting", "held", "gone"}]

(* The gate waits for somebody, and for nobody that started, left its      *)
(* queue or is held.                                                       *)
PendingWaits ==
  /\ phase = "resuming" => pending # {}
  /\ \A c \in pending : place[c] \in {"waiting", "starting"}

GateInv == GateType /\ PendingWaits

LEMMA InitGate == Init => GateInv
<1> SUFFICES ASSUME Init PROVE GateInv
  OBVIOUS
<1>1. 1 \in Continuations
  BY GateAssumption DEF Continuations
<1>2. QED
  BY <1>1 DEF Init, GateInv, GateType, PendingWaits, Entries

(* Opening the gate leaves nobody to wait for.                             *)
LEMMA OpenKeeps ==
  ASSUME NEW pl \in [Entries -> {"waiting", "starting", "held", "gone"}],
         OpenGate(pl), place' = pl
  PROVE  GateInv'
BY DEF OpenGate, GateInv, GateType, PendingWaits

(* An event that moves entry e keeps the invariant if it settles e, or if  *)
(* e can still start.                                                      *)
LEMMA LifecycleKeeps ==
  ASSUME GateInv, NEW e \in Entries, NEW type, NEW to \in {"waiting", "held", "gone"},
         NEW ds, type \in Settling \/ to = "waiting",
         Lifecycle(e, type, Move(e, to), ds)
  PROVE  GateInv'
<1> DEFINE pl == Move(e, to)
<1>1. pl \in [Entries -> {"waiting", "starting", "held", "gone"}]
  BY DEF Move, GateInv, GateType
<1>2. place' = pl
  BY DEF Lifecycle
<1>3. \A c \in Entries : c # e => pl[c] = place[c]
  BY DEF Move, GateInv, GateType
<1>4. pl[e] = to
  BY DEF Move, GateInv, GateType
<1>5. Continuations \subseteq Entries
  BY DEF Entries
<1> HIDE DEF pl
<1>6. CASE phase = "resuming" /\ e \in pending /\ type \in Settling /\ pending = {e}
  <2>1. OpenGate(pl)
    BY <1>6 DEF Lifecycle, pl
  <2>2. QED
    BY <2>1, <1>1, <1>2, OpenKeeps
<1>7. CASE phase = "resuming" /\ e \in pending /\ type \in Settling /\ pending # {e}
  <2>1. pending' = pending \ {e} /\ phase' = phase
    BY <1>7 DEF Lifecycle
  <2>2. pending' # {}
    BY <2>1, <1>7
  <2>3. QED
    BY <2>1, <2>2, <1>1, <1>2, <1>3, <1>5 DEF GateInv, GateType, PendingWaits
<1>8. CASE ~(phase = "resuming" /\ e \in pending /\ type \in Settling)
  <2>1. pending' = pending /\ phase' = phase
    BY <1>8 DEF Lifecycle, gate
  <2>2. e \in pending => to = "waiting"
    <3> SUFFICES ASSUME e \in pending PROVE to = "waiting"
      OBVIOUS
    <3>1. phase = "resuming"
      BY DEF GateInv, GateType
    <3>2. QED
      BY <3>1, <1>8
  <2>3. QED
    BY <2>1, <2>2, <1>1, <1>2, <1>3, <1>4, <1>5 DEF GateInv, GateType, PendingWaits
<1>9. QED
  BY <1>6, <1>7, <1>8

(* The gate and its timers, without an entry moving.                       *)
LEMMA GateStepKeeps ==
  ASSUME GateInv, ProvidersRefreshed \/ Timers \/ Release \/ Quiet \/ Close
                  \/ \E r \in Rates : Tick(r)
  PROVE  GateInv'
<1>1. CASE OpenGate(place) /\ place' = place
  BY <1>1, OpenKeeps DEF GateInv, GateType
<1>2. CASE UNCHANGED <<phase, pending, place>>
  BY <1>2 DEF GateInv, GateType, PendingWaits
<1>3. CASE Quiet
  BY <1>3 DEF Quiet, GateInv, GateType, PendingWaits, queue
<1>4. BeginDispatch => UNCHANGED <<phase, pending, place>>
  BY DEF BeginDispatch, gate, queue
<1>5. CASE ProvidersRefreshed
  BY <1>5, <1>4, <1>2 DEF ProvidersRefreshed
<1>6. CASE Timers
  <2>1. CASE FallbackFires
    BY <2>1, <1>4, <1>2 DEF FallbackFires
  <2>2. CASE DeadlineFires
    BY <2>2, <1>1, <1>2 DEF DeadlineFires, gate
  <2>3. CASE \E c \in Continuations : DispatchFires(c)
    BY <2>3, <1>2 DEF DispatchFires, gate
  <2>4. QED
    BY <1>6, <2>1, <2>2, <2>3 DEF Timers
<1>7. CASE Release
  BY <1>7, <1>1 DEF Release
<1>8. CASE Close
  BY <1>8, <1>2 DEF Close, gate, queue
<1>9. CASE \E r \in Rates : Tick(r)
  BY <1>9, <1>2 DEF Tick, queue
<1>10. QED
  BY <1>3, <1>5, <1>6, <1>7, <1>8, <1>9

LEMMA EntryStepKeeps ==
  ASSUME GateInv, NEW e \in Entries,
         \/ Drain(e) \/ Started(e) \/ Refused(e)
         \/ Cancel(e) \/ Hold(e) \/ Unhold(e) \/ Pause(e) \/ Resume(e)
  PROVE  GateInv'
<1>1. CASE Drain(e)
  <2>1. phase' = phase /\ pending' = pending
    BY <1>1 DEF Drain, gate
  <2>2. Continuations \subseteq Entries
    BY DEF Entries
  <2>3. CASE place' = place
    BY <2>1, <2>3 DEF GateInv, GateType, PendingWaits
  <2>4. CASE place' = Move(e, "starting")
    BY <2>1, <2>2, <2>4 DEF Move, GateInv, GateType, PendingWaits
  <2>5. QED
    BY <1>1, <2>3, <2>4 DEF Drain
<1>2. CASE Started(e)
  BY <1>2, LifecycleKeeps DEF Started, Settling
<1>3. CASE Refused(e)
  BY <1>3, LifecycleKeeps DEF Refused, Settling
<1>4. CASE Cancel(e)
  BY <1>4, LifecycleKeeps DEF Cancel, Settling
<1>5. CASE Hold(e)
  BY <1>5, LifecycleKeeps DEF Hold, Settling
<1>6. CASE Unhold(e)
  BY <1>6, LifecycleKeeps DEF Unhold
<1>7. CASE Pause(e) \/ Resume(e)
  BY <1>7 DEF Pause, Resume, SetPaused, GateInv, GateType, PendingWaits, gate
<1>8. QED
  BY <1>1, <1>2, <1>3, <1>4, <1>5, <1>6, <1>7

LEMMA StepKeepsGate == GateInv /\ [Next]_vars => GateInv'
<1> SUFFICES ASSUME GateInv, [Next]_vars PROVE GateInv'
  OBVIOUS
<1>1. CASE UNCHANGED vars
  BY <1>1 DEF vars, gate, queue, GateInv, GateType, PendingWaits
<1>2. CASE Next
  BY <1>2, GateStepKeeps, EntryStepKeeps DEF Next
<1>3. QED
  BY <1>1, <1>2

-----------------------------------------------------------------------------
(* The helpers: times are natural numbers, and what is left of them.       *)

LEMMA MaxOfTwo ==
  ASSUME NEW a \in Int, NEW b \in Int
  PROVE  Max({a, b}) = IF a >= b THEN a ELSE b
<1>1. \A x \in {a, b} : (\A y \in {a, b} : x >= y) <=> x = IF a >= b THEN a ELSE b
  OBVIOUS
<1>2. QED
  BY <1>1 DEF Max

LEMMA TimesAreNat == ASSUME NEW i \in Nat PROVE DispatchTime(i) \in Nat
<1>1. i \div BatchSize \in Nat
  BY GateAssumption
<1>2. (i \div BatchSize) * Interval \in Nat
  BY <1>1, GateAssumption
<1>3. QED
  BY <1>2, GateAssumption DEF DispatchTime

LEMMA EarlierAreCounted ==
  ASSUME NEW K, K \subseteq Continuations, NEW c \in Continuations
  PROVE  /\ Cardinality({k \in K : k < c}) \in Nat
         /\ Cardinality({k \in K : k < c}) <= C
<1>1. IsFiniteSet(Continuations) /\ Cardinality(Continuations) = C
  <2>1. C \in Int /\ ~(1 > C)
    BY GateAssumption
  <2>2. /\ IsFiniteSet(1..C)
        /\ Cardinality(1..C) = IF 1 > C THEN 0 ELSE C - 1 + 1
    BY <2>1, 1 \in Int, FS_Interval, Zenon
  <2>3. QED
    BY <2>1, <2>2 DEF Continuations
<1>2. /\ IsFiniteSet({k \in K : k < c})
      /\ Cardinality({k \in K : k < c}) <= Cardinality(Continuations)
  BY <1>1, FS_Subset, {k \in K : k < c} \subseteq Continuations
<1>3. QED
  BY <1>1, <1>2, FS_CardinalityType

(* What is left of a time never grows beyond what has come, and shrinks    *)
(* with the timers unless the clock stands still.                          *)
LEMMA PassesDown ==
  ASSUME NEW left \in Int, NEW r \in Rates
  PROVE  /\ Passes(left, r) \in Int
         /\ left <= 0 => Passes(left, r) <= 0
         /\ r # 0 => Passes(left, r) <= left - 1 \/ Passes(left, r) <= 0
<1>1. left - r \in Int /\ -MaxSlips \in Int /\ Now \in Int /\ Now <= 0 /\ r \in Nat
  BY GateAssumption DEF Now
<1>2. CASE left = Now
  BY <1>1, <1>2 DEF Passes
<1>3. CASE left # Now
  <2>1. Passes(left, r) = IF left - r >= -MaxSlips THEN left - r ELSE -MaxSlips
    BY <1>1, <1>3, MaxOfTwo DEF Passes
  <2>2. QED
    BY <1>1, <2>1, GateAssumption
<1>4. QED
  BY <1>2, <1>3

(* A time that was scheduled never comes to look like none. *)
LEMMA PassesOn ==
  ASSUME NEW left \in Int, left >= Now, NEW r \in Rates
  PROVE  /\ Passes(left, r) \in Int /\ Passes(left, r) >= Now
         /\ Passes(left, r) = Now <=> left = Now
<1>1. CASE left = Now
  BY <1>1, GateAssumption DEF Passes, Now
<1>2. CASE left # Now
  <2>1. left - r \in Int /\ -MaxSlips \in Int
    BY GateAssumption
  <2>2. Passes(left, r) = IF left - r >= -MaxSlips THEN left - r ELSE -MaxSlips
    BY <1>2, <2>1, MaxOfTwo DEF Passes
  <2>3. QED
    BY <2>2, <1>2, GateAssumption DEF Now
<1>3. QED
  BY <1>1, <1>2

LEMMA TimesAreBounded ==
  ASSUME NEW i \in Nat, NEW n \in Nat, i <= n
  PROVE  DispatchTime(i) <= FirstDelay + n * Interval
<1> DEFINE d == i \div BatchSize
<1>1. d \in Nat /\ d <= n
  BY GateAssumption
<1> HIDE DEF d
<1>2. n * Interval = d * Interval + (n - d) * Interval
  BY <1>1, GateAssumption
<1>3. n - d \in Nat
  BY <1>1
<1>4. (n - d) * Interval \in Nat /\ d * Interval \in Nat /\ n * Interval \in Nat
  BY <1>1, <1>3, GateAssumption
<1>5. d * Interval <= n * Interval
  BY <1>2, <1>4
<1>6. QED
  BY <1>4, <1>5, GateAssumption DEF DispatchTime, d

(* A nonempty set of naturals that has a bound has its maximum in it. *)
LEMMA MaxIn ==
  ASSUME NEW S \in SUBSET Nat, S # {}, NEW b \in Nat, \A x \in S : x <= b
  PROVE  Max(S) \in S
<1> DEFINE R == {p \in Nat \X Nat : p[1] < p[2]}
           J == {b - x : x \in S}
<1>1. IsWellFoundedOn(R, Nat)
  <2>1. OpToRel(<, Nat) = R
    BY DEF OpToRel
  <2>2. QED
    BY <2>1, NatLessThanWellFounded
<1>2. J \subseteq Nat /\ J # {}
  <2>1. \A x \in S : b - x \in Nat
    OBVIOUS
  <2>2. QED
    BY <2>1
<1>3. PICK j \in J : \A i \in J : ~(<<i, j>> \in R)
  <2> HIDE DEF R, J
  <2>1. QED
    BY <1>1, <1>2, WFMin
<1>4. PICK m \in S : j = b - m
  BY <1>3
<1>5. \A x \in S : m >= x
  <2> SUFFICES ASSUME NEW x \in S PROVE m >= x
    OBVIOUS
  <2>1. b - x \in J /\ b - x \in Nat /\ j \in Nat
    BY <1>2, <1>3
  <2>2. <<b - x, j>> \in R <=> b - x < j
    BY <2>1
  <2>3. ~(b - x < j)
    BY <1>3, <2>1, <2>2
  <2>4. QED
    BY <1>4, <2>3
<1>6. QED
  BY <1>4, <1>5 DEF Max

(* The times of a plan, and the deadline after the last of them. *)
LEMMA PlanIsNat ==
  ASSUME NEW K, K \subseteq Continuations, K # {}, NEW jitter \in [K -> 0..Jitter]
  PROVE  LET time == [c \in K |-> DispatchTime(Cardinality({k \in K : k < c})) + jitter[c]]
         IN  (\A c \in K : time[c] \in Nat) /\ Max(Range(time)) + Grace \in Nat
<1> DEFINE before(c) == Cardinality({k \in K : k < c})
           time == [c \in K |-> DispatchTime(before(c)) + jitter[c]]
           last == FirstDelay + C * Interval
<1>1. last \in Nat
  <2>1. C * Interval \in Nat
    BY GateAssumption
  <2>2. QED
    BY <2>1, GateAssumption
<1>2. ASSUME NEW c \in K PROVE time[c] \in Nat /\ time[c] <= last + Jitter
  <2>1. c \in Continuations
    OBVIOUS
  <2>2. before(c) \in Nat /\ before(c) <= C
    BY <2>1, EarlierAreCounted
  <2>3. DispatchTime(before(c)) \in Nat /\ DispatchTime(before(c)) <= last
    BY <2>2, TimesAreNat, TimesAreBounded, GateAssumption
  <2>4. jitter[c] \in Nat /\ jitter[c] <= Jitter
    BY GateAssumption
  <2> HIDE DEF before, last
  <2>5. QED
    BY <1>1, <2>3, <2>4, GateAssumption
<1> HIDE DEF before, last
<1>3. Range(time) = {time[c] : c \in K}
  BY DEF Range
<1> HIDE DEF time
<1>4. Range(time) \in SUBSET Nat /\ Range(time) # {} /\ \A x \in Range(time) : x <= last + Jitter
  BY <1>2, <1>3
<1>5. last + Jitter \in Nat
  BY <1>1, GateAssumption
<1>6. Max(Range(time)) \in Nat
  BY <1>4, <1>5, MaxIn
<1>7. Max(Range(time)) + Grace \in Nat
  BY <1>6, GateAssumption
<1>8. QED
  BY <1>2, <1>7 DEF time, before

-----------------------------------------------------------------------------
(* The plan, whatever Date.now() does: types, and a continuation that is   *)
(* held by no time of its own has left its FIFO for good.                  *)

Planned ==
  phase = "resuming" =>
    /\ ~begun => \A c \in Continuations : at[c] = Never /\ place[c] # "starting"
    /\ \A c \in Continuations : at[c] = Now => place[c] = "gone"

PlanInv ==
  /\ TypeOK /\ GateInv
  /\ \A c \in Continuations : at[c] >= Now
  /\ Planned

(* The parts of TypeOK, as the provers like them. *)
LEMMA TypeParts ==
  TypeOK <=>
    /\ phase \in {"open", "resuming", "quieting"}
    /\ pending \subseteq Continuations
    /\ at \in [Continuations -> Int] /\ releaseIn \in Int
    /\ begun \in BOOLEAN /\ closed \in BOOLEAN
    /\ fallback \in {Off} \union Nat /\ deadline \in {Off} \union Nat
    /\ dispatch \in [Continuations -> {Off} \union Nat]
    /\ slips \in 0..MaxSlips
    /\ place \in [Entries -> {"waiting", "starting", "held", "gone"}]
    /\ paused \subseteq Entries /\ drains \subseteq Entries
BY DEF TypeOK

LEMMA InitPlan == Init => PlanInv
<1> SUFFICES ASSUME Init PROVE PlanInv
  OBVIOUS
<1>1. Never \in Int /\ Never >= Now /\ Never # Now
  BY GateAssumption DEF Never, Now
<1>2. TypeOK
  <2>1. Fallback \in Nat /\ 0 \in 0..MaxSlips /\ Off \in {Off} \union Nat
    BY GateAssumption
  <2>2. paused \subseteq Entries
    BY DEF Init, Entries
  <2>3. QED
    BY <1>1, <2>1, <2>2, TypeParts DEF Init
<1>3. \A c \in Continuations : at[c] = Never /\ place[c] # "starting"
  BY DEF Init, Entries
<1>4. QED
  BY <1>1, <1>2, <1>3, InitGate DEF PlanInv, Planned

(* Opening the gate forgets the plan and asks every queue to look. *)
LEMMA OpenKeepsPlan ==
  ASSUME PlanInv, NEW pl \in [Entries -> {"waiting", "starting", "held", "gone"}],
         OpenGate(pl), place' = pl, paused' \subseteq paused, UNCHANGED <<slips, closed>>
  PROVE  PlanInv'
<1>1. Never \in Int /\ Never >= Now
  BY GateAssumption DEF Never, Now
<1>2. DrainAll(pl) \subseteq Entries
  BY DEF DrainAll, Queued, PlanInv, TypeOK
<1>3. TypeOK'
  BY <1>1, <1>2, TypeParts DEF OpenGate, PlanInv, TypeOK
<1>4. QED
  BY <1>1, <1>3, OpenKeeps DEF PlanInv, Planned, OpenGate

(* A step that leaves the plan alone, starts no continuation and returns   *)
(* none that had left.                                                     *)
LEMMA SamePlan ==
  ASSUME PlanInv, TypeOK', GateInv', UNCHANGED <<phase, at, begun>>,
         \A c \in Continuations :
           /\ place[c] = "gone" => place'[c] = "gone"
           /\ place'[c] = "starting" => place[c] = "starting"
  PROVE  PlanInv'
BY DEF PlanInv, Planned

LEMMA BeginKeepsPlan ==
  ASSUME PlanInv, BeginDispatch, fallback' \in {Off} \union Nat
  PROVE  PlanInv'
<1>1. CASE ~(~begun /\ phase = "resuming")
  <2>1. UNCHANGED <<gate, dispatch, deadline, queue, slips, closed>>
    BY <1>1 DEF BeginDispatch
  <2>2. TypeOK'
    BY <2>1, TypeParts DEF PlanInv, TypeOK, gate, queue
  <2>3. GateInv'
    BY <2>1 DEF PlanInv, GateInv, GateType, PendingWaits, gate, queue
  <2>4. QED
    BY <2>1, <2>2, <2>3, SamePlan DEF gate, queue
<1>2. CASE ~begun /\ phase = "resuming"
  <2>1. begun' = TRUE /\ UNCHANGED <<phase, pending, queue, slips, closed>>
    BY <1>2 DEF BeginDispatch
  <2>2. PICK jitter \in [Kept -> 0..Jitter] : Plan(jitter)
    BY <1>2 DEF BeginDispatch
  <2> DEFINE time == [c \in Kept |->
                        DispatchTime(Cardinality({k \in Kept : k < c})) + jitter[c]]
             in == Max(Range(time)) + Grace
  <2>3. Kept \subseteq Continuations /\ Kept # {}
    BY <1>2 DEF Kept, PlanInv, GateInv, GateType, PendingWaits
  <2>4. (\A c \in Kept : time[c] \in Nat) /\ in \in Nat
    BY <2>3, PlanIsNat
  <2>5. /\ at' = [c \in Continuations |-> IF c \in Kept THEN time[c] ELSE Now]
        /\ dispatch' = [c \in Continuations |-> IF c \in Kept THEN time[c] ELSE Off]
        /\ releaseIn' = in /\ deadline' = in
    BY <2>2 DEF Plan, Deadline
  <2> HIDE DEF time, in
  <2>6. \A c \in Continuations : c \notin Kept => place[c] = "gone"
    <3> SUFFICES ASSUME NEW c \in Continuations, c \notin Kept PROVE place[c] = "gone"
      OBVIOUS
    <3>1. place[c] \in {"waiting", "starting", "held", "gone"} /\ c \in Entries
      BY DEF PlanInv, GateInv, GateType, Entries
    <3>2. place[c] # "starting"
      BY <1>2 DEF PlanInv, Planned
    <3>3. QED
      BY <3>1, <3>2 DEF Kept, Queued
  <2>7. TypeOK'
    BY <2>1, <2>4, <2>5, TypeParts, GateAssumption DEF PlanInv, TypeOK, Now, queue
  <2>8. GateInv'
    BY <2>1 DEF PlanInv, GateInv, GateType, PendingWaits, queue
  <2>9. \A c \in Continuations : at'[c] >= Now /\ (at'[c] = Now => place'[c] = "gone")
    BY <2>1, <2>4, <2>5, <2>6, GateAssumption DEF Now, queue
  <2>10. QED
    BY <2>1, <2>7, <2>8, <2>9 DEF PlanInv, Planned
<1>3. QED
  BY <1>1, <1>2

LEMMA TickKeepsPlan ==
  ASSUME PlanInv, NEW r \in Rates, Tick(r)
  PROVE  PlanInv'
<1>1. /\ UNCHANGED <<phase, pending, begun, queue, closed>>
      /\ fallback' = Counts(fallback) /\ deadline' = Counts(deadline)
      /\ dispatch' = [c \in Continuations |-> Counts(dispatch[c])]
      /\ IF begun /\ phase = "resuming"
         THEN /\ at' = [c \in Continuations |-> Passes(at[c], r)]
              /\ releaseIn' = Passes(releaseIn, r)
         ELSE UNCHANGED <<at, releaseIn>>
  BY DEF Tick
<1>2. slips' \in 0..MaxSlips
  BY GateAssumption DEF Tick, PlanInv, TypeOK
<1>3. \A t \in {Off} \union Nat : Counts(t) \in {Off} \union Nat
  BY DEF Counts, Off
<1>4. \A c \in Continuations :
        /\ Passes(at[c], r) \in Int /\ Passes(at[c], r) >= Now
        /\ Passes(at[c], r) = Now <=> at[c] = Now
  BY PassesOn DEF PlanInv, TypeOK
<1>5. Passes(releaseIn, r) \in Int
  BY PassesDown DEF PlanInv, TypeOK
<1>6. TypeOK'
  <2>1. /\ fallback' \in {Off} \union Nat /\ deadline' \in {Off} \union Nat
        /\ dispatch' \in [Continuations -> {Off} \union Nat]
    BY <1>1, <1>3 DEF PlanInv, TypeOK
  <2>2. at' \in [Continuations -> Int] /\ releaseIn' \in Int
    BY <1>1, <1>4, <1>5 DEF PlanInv, TypeOK
  <2>3. QED
    BY <1>1, <1>2, <2>1, <2>2, TypeParts DEF PlanInv, TypeOK, queue
<1>7. GateInv'
  BY <1>1 DEF PlanInv, GateInv, GateType, PendingWaits, queue
<1>8. \A c \in Continuations : at'[c] >= Now /\ (at'[c] = Now <=> at[c] = Now)
  BY <1>1, <1>4 DEF PlanInv
<1>9. Planned'
  BY <1>1, <1>8 DEF PlanInv, Planned, queue
<1>10. QED
  BY <1>6, <1>7, <1>8, <1>9 DEF PlanInv

LEMMA TimersKeepPlan ==
  ASSUME PlanInv, ProvidersRefreshed \/ Timers \/ Release \/ Quiet \/ Close
  PROVE  PlanInv'
<1>1. GateInv'
  BY GateStepKeeps DEF PlanInv
<1>2. Off \in {Off} \union Nat /\ Never \in Int /\ Never >= Now
  BY GateAssumption DEF Never, Now
<1>3. CASE OpenGate(place) /\ UNCHANGED <<place, paused, slips, closed>>
  BY <1>3, OpenKeepsPlan DEF PlanInv, GateInv, GateType
<1>4. CASE ProvidersRefreshed
  BY <1>4, BeginKeepsPlan DEF ProvidersRefreshed, PlanInv, TypeOK
<1>5. CASE FallbackFires
  BY <1>2, <1>5, BeginKeepsPlan DEF FallbackFires
<1>6. CASE DeadlineFires
  <2>1. CASE ~(phase = "resuming" /\ releaseIn <= 0)
    <3>1. /\ UNCHANGED <<gate, fallback, dispatch, drains, place, paused, slips, closed>>
          /\ deadline' = Off
      BY <1>6, <2>1 DEF DeadlineFires
    <3>2. TypeOK'
      BY <1>2, <3>1, TypeParts DEF PlanInv, TypeOK, gate
    <3>3. QED
      BY <1>1, <3>1, <3>2, SamePlan DEF gate
  <2>2. QED
    BY <1>3, <1>6, <2>1 DEF DeadlineFires
<1>7. ASSUME NEW c \in Continuations, DispatchFires(c) PROVE PlanInv'
  <2>1. /\ UNCHANGED <<gate, fallback, deadline, place, paused, slips, closed>>
        /\ dispatch' = [dispatch EXCEPT ![c] = Off] /\ drains' = drains \union {c}
    BY <1>7 DEF DispatchFires
  <2>2. TypeOK'
    BY <1>2, <2>1, TypeParts DEF PlanInv, TypeOK, gate, Entries
  <2>3. QED
    BY <1>1, <2>1, <2>2, SamePlan DEF gate
<1>8. CASE Release
  BY <1>3, <1>8 DEF Release
<1>9. CASE Quiet
  <2>1. TypeOK'
    BY <1>2, <1>9, TypeParts DEF Quiet, PlanInv, TypeOK, timer, queue
  <2>2. QED
    BY <1>1, <1>2, <1>9, <2>1 DEF Quiet, PlanInv, Planned
<1>10. CASE Close
  <2>1. /\ UNCHANGED <<gate, queue, slips>> /\ closed' = TRUE
        /\ fallback' = Off /\ deadline' = Off
        /\ dispatch' = [c \in Continuations |-> Off]
    BY <1>10 DEF Close
  <2>2. TypeOK'
    BY <1>2, <2>1, TypeParts DEF PlanInv, TypeOK, gate, queue
  <2>3. QED
    BY <1>1, <2>1, <2>2, SamePlan DEF gate, queue
<1>11. QED
  BY <1>4, <1>5, <1>6, <1>7, <1>8, <1>9, <1>10 DEF Timers

LEMMA LifecycleKeepsPlan ==
  ASSUME PlanInv, GateInv', NEW e \in Entries, place[e] # "gone",
         NEW type, NEW to \in {"waiting", "held", "gone"},
         NEW ds \in SUBSET Entries, Lifecycle(e, type, Move(e, to), ds)
  PROVE  PlanInv'
<1>1. /\ Move(e, to) \in [Entries -> {"waiting", "starting", "held", "gone"}]
      /\ \A c \in Entries : c # e => Move(e, to)[c] = place[c]
      /\ Move(e, to)[e] = to
  BY DEF Move, PlanInv, TypeOK
<1>2. place' = Move(e, to) /\ paused' \subseteq paused /\ UNCHANGED <<slips, closed>>
  BY DEF Lifecycle
<1>3. CASE OpenGate(Move(e, to))
  BY <1>1, <1>2, <1>3, OpenKeepsPlan
<1>4. CASE /\ UNCHANGED <<phase, at, releaseIn, begun, timer>>
           /\ pending' \subseteq pending /\ drains' = ds
  <2>1. TypeOK'
    BY <1>1, <1>2, <1>4, TypeParts DEF PlanInv, TypeOK, timer
  <2>2. \A c \in Continuations :
          /\ place[c] = "gone" => place'[c] = "gone"
          /\ place'[c] = "starting" => place[c] = "starting"
    BY <1>1, <1>2 DEF Entries
  <2>3. QED
    BY <1>4, <2>1, <2>2, SamePlan
<1>5. QED
  BY <1>3, <1>4 DEF Lifecycle, gate

LEMMA EntryKeepsPlan ==
  ASSUME PlanInv, NEW e \in Entries,
         \/ Drain(e) \/ Started(e) \/ Refused(e)
         \/ Cancel(e) \/ Hold(e) \/ Unhold(e) \/ Pause(e) \/ Resume(e)
  PROVE  PlanInv'
<1>1. GateInv'
  BY EntryStepKeeps DEF PlanInv
<1>2. drains \in SUBSET Entries /\ drains \union {e} \in SUBSET Entries
  BY DEF PlanInv, TypeOK
<1>3. CASE Drain(e)
  <2>1. UNCHANGED <<paused, gate, timer, slips, closed>> /\ drains' \subseteq Entries
    BY <1>2, <1>3 DEF Drain
  <2>2. place' \in [Entries -> {"waiting", "starting", "held", "gone"}]
    BY <1>3 DEF Drain, Move, PlanInv, TypeOK
  <2>3. TypeOK'
    BY <2>1, <2>2, TypeParts DEF PlanInv, TypeOK, gate, timer
  <2>4. \A c \in Continuations : place[c] = "gone" => place'[c] = "gone"
    BY <1>3 DEF Drain, Move, PlanInv, TypeOK, Entries
  <2>5. phase = "resuming" /\ ~begun =>
          \A c \in Continuations : place'[c] # "starting"
    BY <1>3 DEF Drain, Move, GateHolds, PlanInv, Planned, TypeOK, Entries, Never
  <2>6. QED
    BY <1>1, <2>1, <2>3, <2>4, <2>5 DEF PlanInv, Planned, gate
<1>4. CASE Started(e)
  BY <1>1, <1>2, <1>4, LifecycleKeepsPlan DEF Started
<1>5. CASE Refused(e)
  BY <1>1, <1>2, <1>5, LifecycleKeepsPlan DEF Refused
<1>6. CASE Cancel(e)
  BY <1>1, <1>2, <1>6, LifecycleKeepsPlan DEF Cancel
<1>7. CASE Hold(e)
  BY <1>1, <1>2, <1>7, LifecycleKeepsPlan DEF Hold
<1>8. CASE Unhold(e)
  BY <1>1, <1>2, <1>8, LifecycleKeepsPlan DEF Unhold
<1>9. CASE Pause(e) \/ Resume(e)
  <2>1. UNCHANGED <<place, gate, timer, slips, closed>> /\ drains' = drains \union {e}
    BY <1>9 DEF Pause, Resume, SetPaused
  <2>2. paused' \subseteq Entries
    BY <1>9 DEF Pause, Resume, SetPaused, PlanInv, TypeOK
  <2>3. TypeOK'
    BY <1>2, <2>1, <2>2, TypeParts DEF PlanInv, TypeOK, gate, timer
  <2>4. QED
    BY <1>1, <2>1, <2>3, SamePlan DEF gate
<1>10. QED
  BY <1>3, <1>4, <1>5, <1>6, <1>7, <1>8, <1>9

(* What hands an entry to the backend is a drain the gate does not hold. *)
LEMMA OnlyDrainsStart ==
  ASSUME place \in [Entries -> {"waiting", "starting", "held", "gone"}], Next,
         NEW e \in Entries, place[e] # "starting", place'[e] = "starting"
  PROVE  Drain(e) /\ ~GateHolds(e)
<1>1. \A f \in Entries, to \in {"waiting", "starting", "held", "gone"} :
        Move(f, to)[e] = "starting" => f = e /\ to = "starting"
  BY DEF Move
<1>2. place' # place
  OBVIOUS
<1>3. ~(ProvidersRefreshed \/ Timers \/ Release \/ Quiet \/ Close \/ \E r \in Rates : Tick(r))
  BY <1>2 DEF ProvidersRefreshed, Timers, FallbackFires, DeadlineFires, DispatchFires,
              Release, Quiet, Close, Tick, BeginDispatch, queue
<1>4. PICK f \in Entries :
        \/ Drain(f) \/ Started(f) \/ Refused(f)
        \/ Cancel(f) \/ Hold(f) \/ Unhold(f) \/ Pause(f) \/ Resume(f)
  BY <1>3 DEF Next
<1>5. ~(Started(f) \/ Refused(f) \/ Cancel(f) \/ Hold(f) \/ Unhold(f))
  BY <1>1 DEF Started, Refused, Cancel, Hold, Unhold, Lifecycle
<1>6. Drain(f) /\ place' = Move(f, "starting") /\ ~GateHolds(f)
  BY <1>2, <1>4, <1>5 DEF Drain, Pause, Resume, SetPaused
<1>7. QED
  BY <1>1, <1>6

LEMMA StepKeepsPlan == PlanInv /\ [Next]_vars => PlanInv'
<1> SUFFICES ASSUME PlanInv, [Next]_vars PROVE PlanInv'
  OBVIOUS
<1>1. CASE UNCHANGED vars
  <2>1. TypeOK' /\ GateInv'
    BY <1>1, TypeParts DEF vars, gate, timer, queue, PlanInv, TypeOK, GateInv, GateType,
                           PendingWaits
  <2>2. QED
    BY <1>1, <2>1, SamePlan DEF vars, gate, queue
<1>2. CASE Next
  BY <1>2, TickKeepsPlan, TimersKeepPlan, EntryKeepsPlan DEF Next
<1>3. QED
  BY <1>1, <1>2

(* The gate, its plan, its timers and the queues keep their types, for any *)
(* number of continuations, any delays and any clock.                      *)
THEOREM TypeCorrect == Spec => []TypeOK
<1>1. PlanInv => TypeOK
  BY DEF PlanInv
<1>2. QED
  BY InitPlan, StepKeepsPlan, <1>1, PTL DEF Spec

(* While the gate is resuming no continuation starts before the dispatch   *)
(* began, or outside its plan, whatever Date.now() does: of the            *)
(* continuations that the plan leaves out (beginRestartContinuationDispatch *)
(* keeps the settled ones that still wait) none can come back.             *)
THEOREM NoContinuationJumps == Spec => NoneJumps
<1> DEFINE Jump == \A c \in Continuations :
                     place[c] = "waiting" /\ place'[c] = "starting" /\ phase = "resuming"
                       => begun /\ at[c] # Now
<1>1. PlanInv /\ [Next]_vars => [Jump]_vars
  <2> SUFFICES ASSUME PlanInv, Next, NEW c \in Continuations, phase = "resuming",
                      place[c] = "waiting", place'[c] = "starting"
               PROVE  begun /\ at[c] # Now
    OBVIOUS
  <2>1. at[c] # Now
    BY DEF PlanInv, Planned
  <2>2. Drain(c) /\ ~GateHolds(c)
    BY OnlyDrainsStart DEF PlanInv, TypeOK, Entries
  <2>3. begun
    BY <2>2 DEF GateHolds, PlanInv, Planned, Never
  <2>4. QED
    BY <2>1, <2>3
<1>2. QED
  BY InitPlan, StepKeepsPlan, <1>1, PTL DEF Spec, NoneJumps

-----------------------------------------------------------------------------
(* The invariant of the steady gate: a continuation whose time has not     *)
(* come has a timer, which comes no sooner than its time.                  *)

TimerInv ==
  /\ phase \in {"open", "resuming", "quieting"}
  /\ at \in [Continuations -> Int] /\ \A c \in Continuations : at[c] >= Now
  /\ dispatch \in [Continuations -> {Off} \union Nat]
  /\ begun \in BOOLEAN /\ closed \in BOOLEAN
  /\ closed => fallback = Off /\ deadline = Off /\ \A c \in Continuations : dispatch[c] = Off

Timely(c) == IF dispatch[c] = Off THEN at[c] <= 0 ELSE at[c] <= dispatch[c]

ScheduleInv ==
  /\ Planned
  /\ phase = "resuming" /\ begun /\ ~closed => \A c \in Continuations : Timely(c)

SteadyInv == GateInv /\ TimerInv /\ ScheduleInv

Steps == [Dispatching!Next]_(Dispatching!vars)

(* What a step of the gate does to the entries, as GatedDispatch sees it.  *)
LEMMA OpensDispatch ==
  ASSUME SteadyInv, phase = "resuming",
         NEW pl \in [Entries -> {"waiting", "starting", "held", "gone"}],
         NEW S \in {{}} \union {{e} : e \in Entries},
         \A e \in Entries \ S : pl[e] = place[e],
         \A e \in S : pl[e] \in {"held", "gone"},
         place' = pl, closed' = closed, OpenGate(pl),
         \A e \in Entries \ S : pl[e] # "gone" => (e \in paused' <=> e \in paused)
  PROVE  SteadyInv' /\ Steps
<1>1. GateInv'
  BY OpenKeeps
<1>2. TimerInv'
  BY GateAssumption DEF SteadyInv, TimerInv, OpenGate, Never, Off, Now
<1>3. ScheduleInv'
  BY DEF ScheduleInv, Planned, OpenGate
<1>4. Waiting' = Waiting \ S
  BY DEF Waiting
<1>5. Asked' = Waiting'
  BY DEF Asked, Waiting, OpenGate, DrainAll, Queued
<1>6. {e \in Entries : place[e] = "starting"}' = {e \in Entries : place[e] = "starting"} \ S
  OBVIOUS
<1>7. TimeCame' = {} /\ phase' = "open"
  BY DEF TimeCame, OpenGate
<1>8. Dispatching!Opens(S)
  BY <1>4, <1>5, <1>6, <1>7 DEF Dispatching!Opens
<1>9. QED
  BY <1>1, <1>2, <1>3, <1>8 DEF SteadyInv, Steps, Dispatching!Next

LEMMA SameDispatch ==
  ASSUME UNCHANGED <<phase, place, Waiting, TimeCame, Asked>>
  PROVE  Steps
<1>1. UNCHANGED Dispatching!vars
  BY DEF Dispatching!vars
<1>2. QED
  BY <1>1 DEF Steps

-----------------------------------------------------------------------------
(* The dispatch begins: each continuation kept gets a time and a timer.    *)
LEMMA BeginIsDue ==
  ASSUME SteadyInv, BeginDispatch, ~closed
  PROVE  SteadyInv' /\ Steps
<1> SUFFICES ASSUME ~begun, phase = "resuming" PROVE SteadyInv' /\ Steps
  <2>1. CASE ~(~begun /\ phase = "resuming")
    <3>1. UNCHANGED <<gate, dispatch, deadline, queue, slips, closed>>
      BY <2>1 DEF BeginDispatch
    <3>2. UNCHANGED <<Waiting, TimeCame, Asked>>
      BY <3>1 DEF TimeCame, Asked, Waiting, gate, queue
    <3>3. SteadyInv'
      BY <3>1 DEF SteadyInv, GateInv, GateType, PendingWaits, TimerInv, ScheduleInv, Planned,
                  Timely, gate, queue
    <3>4. QED
      BY <3>1, <3>2, <3>3, SameDispatch DEF gate, queue
  <2>2. QED
    BY <2>1
<1>1. /\ begun' = TRUE
      /\ UNCHANGED <<phase, pending, queue, slips, closed>>
  BY DEF BeginDispatch
<1>2. PICK jitter \in [Kept -> 0..Jitter] : Plan(jitter)
  BY DEF BeginDispatch
<1> DEFINE time == [c \in Kept |-> DispatchTime(Cardinality({k \in Kept : k < c})) + jitter[c]]
<1>3. Kept \subseteq Continuations
  BY DEF Kept, SteadyInv, GateInv, GateType
<1>4. \A c \in Kept : time[c] \in Nat
  <2> SUFFICES ASSUME NEW c \in Kept PROVE time[c] \in Nat
    OBVIOUS
  <2>1. Cardinality({k \in Kept : k < c}) \in Nat
    BY <1>3, EarlierAreCounted
  <2>2. DispatchTime(Cardinality({k \in Kept : k < c})) \in Nat
    BY <2>1, TimesAreNat
  <2>3. jitter[c] \in Nat
    BY GateAssumption
  <2>4. QED
    BY <2>2, <2>3
<1>5. /\ at' = [c \in Continuations |-> IF c \in Kept THEN time[c] ELSE Now]
      /\ dispatch' = [c \in Continuations |-> IF c \in Kept THEN time[c] ELSE Off]
  BY <1>2 DEF Plan
<1> HIDE DEF time
<1>6. \A c \in Continuations : c \notin Kept => place[c] = "gone"
  BY <1>3 DEF Kept, Queued, SteadyInv, GateInv, GateType, ScheduleInv, Planned, Entries
<1>7. SteadyInv'
  <2>1. GateInv'
    BY <1>1 DEF SteadyInv, GateInv, GateType, PendingWaits, queue
  <2>2. TimerInv'
    BY <1>1, <1>4, <1>5, GateAssumption DEF SteadyInv, TimerInv, Now, Off
  <2>3. ScheduleInv'
    BY <1>1, <1>3, <1>4, <1>5, <1>6, GateAssumption DEF ScheduleInv, Planned, Timely, Now, Off, queue
  <2>4. QED
    BY <2>1, <2>2, <2>3 DEF SteadyInv
<1>8. TimeCame = {}
  BY DEF TimeCame, SteadyInv, ScheduleInv, Planned, Never
<1>9. Asked' = Asked \union (TimeCame' \intersect Waiting)
  <2>1. \A e \in TimeCame' : e \in Waiting => dispatch'[e] # Off
    BY <1>3, <1>4, <1>5, <1>6 DEF TimeCame, Waiting, Off
  <2>2. QED
    BY <1>1, <1>8, <2>1 DEF Asked, Waiting, queue
<1>10. Dispatching!Due(TimeCame')
  BY <1>1, <1>8, <1>9 DEF Dispatching!Due, Waiting, queue
<1>11. TimeCame' \subseteq Entries
  BY DEF TimeCame, Entries
<1>12. QED
  BY <1>7, <1>10, <1>11 DEF Steps, Dispatching!Next

LEMMA CloseIsSame ==
  ASSUME SteadyInv, Dispatching!FreeIsAsked, Close
  PROVE  SteadyInv' /\ Steps
<1>1. UNCHANGED <<gate, queue>> /\ closed' = TRUE
  BY DEF Close
<1>2. SteadyInv'
  BY <1>1 DEF Close, SteadyInv, GateInv, GateType, PendingWaits, TimerInv, ScheduleInv, Planned,
              gate, queue
<1>3. TimeCame' = TimeCame /\ Waiting' = Waiting
  BY <1>1 DEF TimeCame, Waiting, gate, queue
<1>4. \A e \in Waiting : e \in TimeCame => e \in Asked
  BY DEF Dispatching!FreeIsAsked, Dispatching!Free
<1>5. Asked' = Asked
  BY <1>1, <1>3, <1>4 DEF Asked, queue
<1>6. QED
  BY <1>1, <1>2, <1>3, <1>5, SameDispatch DEF gate, queue

LEMMA QuietQuiets == ASSUME SteadyInv, Quiet PROVE SteadyInv' /\ Steps
<1>1. SteadyInv'
  BY GateAssumption DEF Quiet, SteadyInv, GateInv, GateType, PendingWaits, TimerInv,
                        ScheduleInv, Planned, timer, queue, Never, Now
<1>2. TimeCame' = {} /\ Waiting' = Waiting /\ Asked' \in SUBSET Asked
  BY DEF Quiet, TimeCame, Waiting, Asked, queue
<1>3. Dispatching!Quiets
  BY <1>2 DEF Quiet, Dispatching!Quiets, Waiting, queue
<1>4. QED
  BY <1>1, <1>3 DEF Steps, Dispatching!Next

LEMMA TimersDispatch ==
  ASSUME SteadyInv, ProvidersRefreshed \/ Timers \/ Release
  PROVE  SteadyInv' /\ Steps
<1>1. CASE ProvidersRefreshed
  BY <1>1, BeginIsDue DEF ProvidersRefreshed
<1>2. CASE FallbackFires
  <2>1. ~closed
    BY <1>2 DEF FallbackFires, SteadyInv, TimerInv, Off
  <2>2. QED
    BY <1>2, <2>1, BeginIsDue DEF FallbackFires
<1>3. ASSUME phase = "resuming", OpenGate(place), UNCHANGED <<place, paused, closed>>
      PROVE  SteadyInv' /\ Steps
  <2>1. place \in [Entries -> {"waiting", "starting", "held", "gone"}]
    BY DEF SteadyInv, GateInv, GateType
  <2>2. /\ \A e \in Entries \ {} : place[e] = place[e]
        /\ \A e \in {} : place[e] \in {"held", "gone"}
    OBVIOUS
  <2>3. /\ place' = place /\ closed' = closed /\ {} \in {{}} \union {{e} : e \in Entries}
        /\ \A e \in Entries \ {} : place[e] # "gone" => (e \in paused' <=> e \in paused)
    BY <1>3
  <2>4. QED
    BY <1>3, <2>1, <2>2, <2>3, OpensDispatch, Zenon
<1>4. ASSUME UNCHANGED <<gate, queue, dispatch, fallback, closed>>, deadline' = Off
      PROVE  SteadyInv' /\ Steps
  <2>1. SteadyInv'
    BY <1>4 DEF SteadyInv, GateInv, GateType, PendingWaits, TimerInv, ScheduleInv, Planned,
                Timely, gate, queue
  <2>2. UNCHANGED <<Waiting, TimeCame, Asked>>
    BY <1>4 DEF TimeCame, Asked, Waiting, gate, queue
  <2>3. QED
    BY <1>4, <2>1, <2>2, SameDispatch DEF gate, queue
<1>5. ASSUME NEW c \in Continuations, DispatchFires(c) PROVE SteadyInv' /\ Steps
  <2>1. /\ UNCHANGED <<gate, fallback, deadline, place, paused, closed>>
        /\ dispatch[c] = 0 /\ ~closed
        /\ dispatch' = [dispatch EXCEPT ![c] = Off] /\ drains' = drains \union {c}
    BY <1>5 DEF DispatchFires, SteadyInv, TimerInv, Off
  <2>2. TimerInv'
    BY <2>1 DEF SteadyInv, TimerInv, gate
  <2>3. ScheduleInv'
    BY <2>1 DEF SteadyInv, TimerInv, ScheduleInv, Planned, Timely, gate, Off
  <2>4. SteadyInv'
    BY <2>1, <2>2, <2>3 DEF SteadyInv, GateInv, GateType, PendingWaits, gate
  <2>5. TimeCame' = TimeCame /\ Waiting' = Waiting
    BY <2>1 DEF TimeCame, Waiting, gate
  <2>6. \A e \in Waiting \ {c} : e \in Asked' <=> e \in Asked
    <3> SUFFICES ASSUME NEW e \in Waiting \ {c} PROVE e \in Asked' <=> e \in Asked
      OBVIOUS
    <3>1. e \in TimeCame => (dispatch'[e] = dispatch[e])
      BY <2>1 DEF TimeCame, SteadyInv, TimerInv
    <3>2. e \in drains' <=> e \in drains
      BY <2>1
    <3>3. QED
      BY <2>1, <2>5, <3>1, <3>2 DEF Asked
  <2>7. CASE c \in Waiting
    <3>1. Asked' = Asked \union {c}
      BY <2>1, <2>5, <2>6, <2>7 DEF Asked
    <3>2. Dispatching!Ask(c)
      BY <2>1, <2>5, <2>7, <3>1 DEF Dispatching!Ask, gate
    <3>3. QED
      BY <2>4, <3>2 DEF Steps, Dispatching!Next, Entries
  <2>8. CASE c \notin Waiting
    <3>1. Asked' = Asked
      BY <2>5, <2>6, <2>8 DEF Asked
    <3>2. QED
      BY <2>1, <2>4, <2>5, <3>1, SameDispatch DEF gate
  <2>9. QED
    BY <2>7, <2>8
<1>6. CASE Release
  BY <1>6, <1>3 DEF Release
<1>7. CASE DeadlineFires
  <2>1. CASE phase = "resuming" /\ releaseIn <= 0
    BY <1>7, <2>1, <1>3 DEF DeadlineFires
  <2>2. CASE ~(phase = "resuming" /\ releaseIn <= 0)
    BY <1>7, <2>2, <1>4 DEF DeadlineFires, queue
  <2>3. QED
    BY <2>1, <2>2
<1>8. QED
  BY <1>1, <1>2, <1>5, <1>6, <1>7 DEF Timers

-----------------------------------------------------------------------------
(* A tick: times come, and the timers have not all fired.                  *)
LEMMA TickIsDue ==
  ASSUME SteadyInv, NEW r \in Rates, r # 0, Tick(r)
  PROVE  SteadyInv' /\ Steps
<1>1. /\ UNCHANGED <<phase, pending, begun, queue, closed>> /\ ~closed
      /\ dispatch' = [c \in Continuations |-> Counts(dispatch[c])]
      /\ at' = IF begun /\ phase = "resuming"
               THEN [c \in Continuations |-> Passes(at[c], r)] ELSE at
  BY DEF Tick
<1>2. \A c \in Continuations :
        /\ dispatch'[c] \in {Off} \union Nat
        /\ dispatch'[c] = Off <=> dispatch[c] = Off
  BY <1>1 DEF SteadyInv, TimerInv, Counts, Off
<1>3. ASSUME NEW c \in Continuations, begun, phase = "resuming"
      PROVE  /\ at'[c] \in Int /\ at'[c] >= Now
             /\ at'[c] = Now <=> at[c] = Now
             /\ at[c] <= 0 => at'[c] <= 0
             /\ Timely(c)'
  <2>1. at[c] \in Int /\ at[c] >= Now /\ at'[c] = Passes(at[c], r)
    BY <1>1, <1>3 DEF SteadyInv, TimerInv
  <2>2. /\ at'[c] \in Int /\ at'[c] >= Now
        /\ at'[c] = Now <=> at[c] = Now
        /\ at[c] <= 0 => at'[c] <= 0
        /\ at[c] > 0 => at'[c] <= at[c] - 1 \/ at'[c] <= 0
    BY <2>1, PassesOn, PassesDown
  <2>3. Timely(c)
    BY <1>1, <1>3 DEF SteadyInv, ScheduleInv, Planned
  <2>4. dispatch[c] \in {Off} \union Nat /\ dispatch'[c] = Counts(dispatch[c])
    BY <1>1 DEF SteadyInv, TimerInv
  <2>5. CASE dispatch[c] = Off
    BY <2>2, <2>3, <2>4, <2>5 DEF Timely, Counts, Off
  <2>6. CASE dispatch[c] \in Nat
    BY <2>1, <2>2, <2>3, <2>4, <2>6 DEF Timely, Counts, Off
  <2>7. QED
    BY <2>2, <2>4, <2>5, <2>6
<1>4. TimerInv'
  BY <1>1, <1>2, <1>3 DEF SteadyInv, TimerInv
<1>5. ScheduleInv'
  BY <1>1, <1>3 DEF SteadyInv, ScheduleInv, Planned, queue
<1>6. SteadyInv'
  BY <1>1, <1>4, <1>5 DEF SteadyInv, GateInv, GateType, PendingWaits, queue
<1>7. Waiting' = Waiting
  BY <1>1 DEF Waiting, queue
<1>8. CASE ~(begun /\ phase = "resuming")
  <2>1. TimeCame' = TimeCame
    BY <1>1, <1>8 DEF TimeCame
  <2>2. TimeCame = {}
    BY <1>8 DEF TimeCame, SteadyInv, ScheduleInv, Planned, Never
  <2>3. Asked' = Asked
    BY <1>1, <1>7, <2>1, <2>2 DEF Asked, queue
  <2>4. QED
    BY <1>1, <1>6, <1>7, <2>1, <2>3, SameDispatch DEF queue
<1>9. CASE begun /\ phase = "resuming"
  <2>1. TimeCame \subseteq TimeCame'
    BY <1>1, <1>3, <1>9 DEF TimeCame
  <2>2. \A c \in TimeCame' \ TimeCame : dispatch[c] # Off
    BY <1>1, <1>9 DEF TimeCame, SteadyInv, TimerInv, ScheduleInv, Planned, Timely
  <2>3. \A c \in TimeCame' : c \in Continuations
    BY DEF TimeCame
  <2>4. Asked' = Asked \union ((TimeCame' \ TimeCame) \intersect Waiting)
    BY <1>1, <1>2, <1>7, <2>1, <2>2, <2>3 DEF Asked, queue
  <2>5. Dispatching!Due(TimeCame' \ TimeCame)
    BY <1>1, <1>9, <1>7, <2>1, <2>4 DEF Dispatching!Due, queue
  <2>6. TimeCame' \ TimeCame \in SUBSET Entries
    BY <2>3 DEF Entries
  <2>7. QED
    BY <1>6, <2>5, <2>6 DEF Steps, Dispatching!Next
<1>10. QED
  BY <1>8, <1>9

-----------------------------------------------------------------------------
(* The entries: a drain that starts one or leaves it, and the events.      *)

LEMMA DrainDispatches ==
  ASSUME SteadyInv, NEW e \in Entries, Drain(e)
  PROVE  SteadyInv' /\ Steps
<1>1. /\ UNCHANGED <<paused, gate, timer, closed>> /\ ~closed
      /\ e \in drains /\ drains' = drains \ {e}
      /\ place \in [Entries -> {"waiting", "starting", "held", "gone"}]
  BY DEF Drain, SteadyInv, GateInv, GateType
<1>2. TimeCame' = TimeCame
  BY <1>1 DEF TimeCame, gate
<1>3. TimerInv'
  BY <1>1 DEF SteadyInv, TimerInv, gate, timer
<1>4. GateInv'
  BY EntryStepKeeps DEF SteadyInv
<1>5. CASE place[e] = "waiting" /\ e \notin paused /\ ~GateHolds(e)
  <2>1. place' = Move(e, "starting")
    BY <1>5 DEF Drain
  <2>2. Dispatching!Free(e)
    BY <1>5 DEF GateHolds, Dispatching!Free, TimeCame, SteadyInv, TimerInv, Entries
  <2>3. phase = "resuming" /\ e \in Continuations => begun
    BY <1>5 DEF GateHolds, SteadyInv, ScheduleInv, Planned, Never
  <2>4. ScheduleInv'
    <3> SUFFICES ASSUME phase = "resuming" PROVE ScheduleInv'
      BY <1>1 DEF ScheduleInv, Planned, gate
    <3>1. UNCHANGED <<phase, at, begun, dispatch, closed>>
      BY <1>1 DEF gate, timer
    <3>2. e \in Continuations
      BY <1>5 DEF GateHolds, Entries
    <3>3. \A c \in Continuations : at'[c] = Now => place'[c] = "gone"
      BY <1>1, <1>5, <2>1, <3>1 DEF Move, SteadyInv, ScheduleInv, Planned, Entries
    <3>4. QED
      BY <2>3, <3>1, <3>2, <3>3 DEF SteadyInv, ScheduleInv, Planned, Timely
  <2>5. Waiting' = Waiting \ {e}
    BY <1>1, <2>1 DEF Waiting, Move
  <2>6. Asked' = Asked \ {e}
    BY <1>1, <1>2, <2>5 DEF Asked, timer
  <2>7. {x \in Entries : place[x] = "starting"}'
          = {x \in Entries : place[x] = "starting"} \union {e}
    BY <1>1, <2>1 DEF Move
  <2>8. e \in Asked
    BY <1>1, <1>5 DEF Asked, Waiting
  <2>9. Dispatching!Starts(e)
    BY <1>1, <1>2, <2>2, <2>5, <2>6, <2>7, <2>8 DEF Dispatching!Starts, gate
  <2>10. QED
    BY <1>3, <1>4, <2>4, <2>9 DEF SteadyInv, Steps, Dispatching!Next
<1>6. CASE ~(place[e] = "waiting" /\ e \notin paused /\ ~GateHolds(e))
  <2>1. place' = place
    BY <1>6 DEF Drain
  <2>2. ScheduleInv'
    BY <1>1, <2>1 DEF SteadyInv, ScheduleInv, Planned, Timely, gate, timer
  <2>3. Waiting' = Waiting
    BY <1>1, <2>1 DEF Waiting
  <2>4. CASE e \in Waiting
    <3>1. GateHolds(e)
      BY <1>6, <2>4 DEF Waiting
    <3>2. e \notin TimeCame
      BY <3>1, GateAssumption DEF GateHolds, TimeCame, SteadyInv, TimerInv, Continuations
    <3>3. ~Dispatching!Free(e)
      BY <3>1, <3>2 DEF GateHolds, Dispatching!Free
    <3>4. Asked' = Asked \ {e}
      BY <1>1, <1>2, <2>3, <3>2 DEF Asked, timer
    <3>5. Dispatching!Stays(e)
      BY <1>1, <1>2, <2>1, <2>3, <2>4, <3>3, <3>4 DEF Dispatching!Stays, Asked, gate
    <3>6. QED
      BY <1>3, <1>4, <2>2, <3>5 DEF SteadyInv, Steps, Dispatching!Next
  <2>5. CASE e \notin Waiting
    <3>1. Asked' = Asked
      BY <1>1, <1>2, <2>3, <2>5 DEF Asked, timer
    <3>2. QED
      BY <1>1, <1>2, <1>3, <1>4, <2>1, <2>2, <2>3, <3>1, SameDispatch DEF SteadyInv, gate
  <2>6. QED
    BY <2>4, <2>5
<1>7. QED
  BY <1>5, <1>6

(* An event that takes entry e out of its FIFO or ends its start.          *)
LEMMA LeavesDispatch ==
  ASSUME SteadyInv, NEW e \in Entries, NEW type \in Settling, NEW to \in {"held", "gone"},
         ~closed, place[e] # "gone", Lifecycle(e, type, Move(e, to), drains)
  PROVE  SteadyInv' /\ Steps
<1>1. /\ place \in [Entries -> {"waiting", "starting", "held", "gone"}]
      /\ Move(e, to) \in [Entries -> {"waiting", "starting", "held", "gone"}]
      /\ \A x \in Entries \ {e} : Move(e, to)[x] = place[x]
      /\ Move(e, to)[e] = to
  BY DEF Move, SteadyInv, GateInv, GateType
<1>2. /\ place' = Move(e, to) /\ closed' = closed
      /\ paused' = {x \in paused : Move(e, to)[x] # "gone"}
  BY DEF Lifecycle
<1>3. GateInv'
  BY LifecycleKeeps DEF SteadyInv
<1>4. CASE phase = "resuming" /\ OpenGate(Move(e, to))
  <2>1. \A x \in {e} : Move(e, to)[x] \in {"held", "gone"}
    BY <1>1
  <2>2. {e} \in {{}} \union {{x} : x \in Entries}
    OBVIOUS
  <2>3. \A x \in Entries \ {e} :
          Move(e, to)[x] # "gone" => (x \in paused' <=> x \in paused)
    BY <1>1, <1>2
  <2>4. QED
    BY <1>1, <1>2, <1>4, <2>1, <2>2, <2>3, OpensDispatch, Zenon
<1>5. CASE UNCHANGED <<phase, at, begun, timer, drains>>
  <2>1. TimerInv'
    BY <1>2, <1>5 DEF SteadyInv, TimerInv, timer
  <2>2. \A c \in Continuations : place'[c] = "starting" => place[c] = "starting"
    BY <1>1, <1>2 DEF Entries
  <2>3. \A c \in Continuations : place[c] = "gone" => place'[c] = "gone"
    BY <1>1, <1>2 DEF Entries
  <2>4. ScheduleInv'
    BY <1>2, <1>5, <2>2, <2>3 DEF SteadyInv, ScheduleInv, Planned, Timely, timer
  <2>5. TimeCame' = TimeCame
    BY <1>5 DEF TimeCame
  <2>6. Waiting' = Waiting \ {e}
    BY <1>1, <1>2 DEF Waiting
  <2>7. Asked' = Asked \ {e}
    BY <1>2, <1>5, <2>5, <2>6 DEF Asked, timer
  <2>8. {x \in Entries : place[x] = "starting"}'
          = {x \in Entries : place[x] = "starting"} \ {e}
    BY <1>1, <1>2
  <2>9. CASE e \in Waiting \union {x \in Entries : place[x] = "starting"}
    <3>1. Dispatching!Leaves(e)
      BY <1>5, <2>5, <2>6, <2>7, <2>8, <2>9 DEF Dispatching!Leaves
    <3>2. QED
      BY <1>3, <2>1, <2>4, <3>1 DEF SteadyInv, Steps, Dispatching!Next
  <2>10. CASE e \notin Waiting \union {x \in Entries : place[x] = "starting"}
    <3>1. UNCHANGED Dispatching!vars
      BY <1>5, <2>5, <2>6, <2>7, <2>8, <2>10 DEF Dispatching!vars, Asked
    <3>2. QED
      BY <1>3, <2>1, <2>4, <3>1 DEF SteadyInv, Steps
  <2>11. QED
    BY <2>9, <2>10
<1>6. QED
  BY <1>4, <1>5 DEF Lifecycle, gate

LEMMA UnholdReturns ==
  ASSUME SteadyInv, NEW e \in Entries, Unhold(e)
  PROVE  SteadyInv' /\ Steps
<1>1. /\ UNCHANGED <<gate, timer, closed>> /\ ~closed /\ place[e] = "held"
      /\ place' = Move(e, "waiting") /\ drains' = drains \union {e}
      /\ paused' = {x \in paused : Move(e, "waiting")[x] # "gone"}
  BY DEF Unhold, Lifecycle, Settling
<1>2. place \in [Entries -> {"waiting", "starting", "held", "gone"}]
  BY DEF SteadyInv, GateInv, GateType
<1>3. GateInv'
  BY EntryStepKeeps DEF SteadyInv
<1>4. TimerInv'
  BY <1>1 DEF SteadyInv, TimerInv, gate, timer
<1>5. ScheduleInv'
  BY <1>1, <1>2 DEF SteadyInv, ScheduleInv, Planned, Timely, Move, gate, timer, Entries
<1>6. TimeCame' = TimeCame
  BY <1>1 DEF TimeCame, gate
<1>7. e \notin Waiting
  BY <1>1 DEF Waiting
<1>8. /\ {x \in Entries : place[x] = "starting"}' = {x \in Entries : place[x] = "starting"}
      /\ e \notin {x \in Entries : place[x] = "starting"}
  BY <1>1, <1>2 DEF Move
<1>9. \A x \in Entries : x # e => (x \in Waiting' <=> x \in Waiting)
  BY <1>1, <1>2 DEF Waiting, Move
<1>10. CASE e \in paused
  <2>1. Waiting' = Waiting
    BY <1>1, <1>2, <1>7, <1>9, <1>10 DEF Waiting, Move
  <2>2. Asked' = Asked
    BY <1>1, <1>6, <1>7, <2>1 DEF Asked, timer
  <2>3. UNCHANGED Dispatching!vars
    BY <1>1, <1>6, <1>8, <2>1, <2>2 DEF Dispatching!vars, gate
  <2>4. QED
    BY <1>3, <1>4, <1>5, <2>3 DEF SteadyInv, Steps
<1>11. CASE e \notin paused
  <2>1. Waiting' = Waiting \union {e}
    BY <1>1, <1>2, <1>9, <1>11 DEF Waiting, Move
  <2>2. Asked' = Asked \union {e}
    BY <1>1, <1>6, <1>7, <2>1 DEF Asked, timer
  <2>3. Dispatching!Returns(e)
    BY <1>1, <1>6, <1>7, <1>8, <2>1, <2>2 DEF Dispatching!Returns, gate
  <2>4. QED
    BY <1>3, <1>4, <1>5, <2>3 DEF SteadyInv, Steps, Dispatching!Next
<1>12. QED
  BY <1>10, <1>11

(* The operator's pause takes an entry from the gate, and resuming it      *)
(* gives it back unless a hold came meanwhile.                             *)
LEMMA PauseDispatches ==
  ASSUME SteadyInv, NEW e \in Entries, Pause(e) \/ Resume(e)
  PROVE  SteadyInv' /\ Steps
<1>1. /\ UNCHANGED <<place, gate, timer, closed>> /\ drains' = drains \union {e}
      /\ \A x \in Entries \ {e} : x \in paused' <=> x \in paused
  BY DEF Pause, Resume, SetPaused
<1>2. SteadyInv'
  BY <1>1 DEF SteadyInv, GateInv, GateType, PendingWaits, TimerInv, ScheduleInv, Planned, Timely,
              gate, timer
<1>3. TimeCame' = TimeCame
  BY <1>1 DEF TimeCame, gate
<1>4. {x \in Entries : place[x] = "starting"}' = {x \in Entries : place[x] = "starting"}
  BY <1>1
<1>5. CASE Pause(e)
  <2>1. e \in Waiting /\ Waiting' = Waiting \ {e}
    BY <1>1, <1>5 DEF Pause, SetPaused, Waiting
  <2>2. Asked' = Asked \ {e}
    BY <1>1, <1>3, <2>1 DEF Asked, timer
  <2>3. e \notin {x \in Entries : place[x] = "starting"}
    BY <2>1 DEF Waiting
  <2>4. Dispatching!Leaves(e)
    BY <1>1, <1>3, <1>4, <2>1, <2>2, <2>3 DEF Dispatching!Leaves, gate
  <2>5. QED
    BY <1>2, <2>4 DEF Steps, Dispatching!Next
<1>6. CASE Resume(e) /\ place[e] = "waiting"
  <2>1. e \notin Waiting /\ Waiting' = Waiting \union {e}
    BY <1>1, <1>6 DEF Resume, SetPaused, Waiting
  <2>2. Asked' = Asked \union {e}
    BY <1>1, <1>3, <2>1 DEF Asked, timer
  <2>3. Dispatching!Returns(e)
    BY <1>1, <1>3, <1>4, <1>6, <2>1, <2>2 DEF Dispatching!Returns, gate
  <2>4. QED
    BY <1>2, <2>3 DEF Steps, Dispatching!Next
<1>7. CASE Resume(e) /\ place[e] # "waiting"
  <2>1. Waiting' = Waiting /\ e \notin Waiting
    BY <1>1, <1>7 DEF Waiting
  <2>2. Asked' = Asked
    BY <1>1, <1>3, <2>1 DEF Asked, timer
  <2>3. QED
    BY <1>1, <1>2, <1>3, <2>1, <2>2, SameDispatch DEF gate
<1>8. QED
  BY <1>5, <1>6, <1>7

-----------------------------------------------------------------------------
LEMMA InitDispatch == Init => SteadyInv /\ Dispatching!Init
<1> SUFFICES ASSUME Init PROVE SteadyInv /\ Dispatching!Init
  OBVIOUS
<1>1. TimerInv /\ ScheduleInv
  <2>1. Never \in Int /\ Never >= Now /\ Never # Now
    BY GateAssumption DEF Never, Now
  <2>2. at = [c \in Continuations |-> Never] /\ dispatch = [c \in Continuations |-> Off]
    BY DEF Init
  <2>3. TimerInv
    BY <2>1, <2>2 DEF Init, TimerInv
  <2>4. ScheduleInv
    BY <2>1, <2>2 DEF Init, ScheduleInv, Planned, Entries
  <2>5. QED
    BY <2>3, <2>4
<1>2. TimeCame = {} /\ Waiting \in SUBSET Entries /\ Asked = {}
  BY DEF Init, TimeCame, Waiting, Asked, Never
<1>3. {e \in Entries : place[e] = "starting"} = {}
  BY DEF Init
<1>4. Dispatching!Init
  BY <1>2, <1>3 DEF Init, Dispatching!Init
<1>5. QED
  BY <1>1, <1>4, InitGate DEF SteadyInv

LEMMA StepDispatches ==
  ASSUME 0 \notin Rates, SteadyInv, Dispatching!FreeIsAsked, [Next]_vars
  PROVE  SteadyInv' /\ Steps
<1>1. CASE UNCHANGED vars
  <2>1. SteadyInv'
    BY <1>1 DEF vars, gate, timer, queue, SteadyInv, GateInv, GateType, PendingWaits,
                TimerInv, ScheduleInv, Planned, Timely
  <2>2. UNCHANGED <<Waiting, TimeCame, Asked>>
    BY <1>1 DEF vars, gate, timer, queue, TimeCame, Asked, Waiting
  <2>3. QED
    BY <1>1, <2>1, <2>2, SameDispatch DEF vars, gate, queue
<1>2. CASE ProvidersRefreshed \/ Timers \/ Release
  BY <1>2, TimersDispatch
<1>3. CASE Quiet
  BY <1>3, QuietQuiets
<1>4. CASE Close
  BY <1>4, CloseIsSame
<1>5. CASE \E r \in Rates : Tick(r)
  BY <1>5, TickIsDue
<1>6. ASSUME NEW e \in Entries,
             \/ Drain(e) \/ Started(e) \/ Refused(e)
             \/ Cancel(e) \/ Hold(e) \/ Unhold(e) \/ Pause(e) \/ Resume(e)
      PROVE  SteadyInv' /\ Steps
  <2>1. CASE Drain(e)
    BY <2>1, DrainDispatches
  <2>2. CASE Started(e)
    BY <2>2, LeavesDispatch DEF Started, Settling
  <2>3. CASE Refused(e)
    BY <2>3, LeavesDispatch DEF Refused, Settling
  <2>4. CASE Cancel(e)
    BY <2>4, LeavesDispatch DEF Cancel, Settling
  <2>5. CASE Hold(e)
    BY <2>5, LeavesDispatch DEF Hold, Settling
  <2>6. CASE Unhold(e)
    BY <2>6, UnholdReturns
  <2>7. CASE Pause(e) \/ Resume(e)
    BY <2>7, PauseDispatches
  <2>8. QED
    BY <1>6, <2>1, <2>2, <2>3, <2>4, <2>5, <2>6, <2>7
<1>7. QED
  BY <1>1, <1>2, <1>3, <1>4, <1>5, <1>6 DEF Next

(* GatedDispatch keeps asked what it leaves free, whatever the gate does.   *)
LEMMA DispatchStep ==
  ASSUME Dispatching!DispatchInv, [Dispatching!Next]_(Dispatching!vars)
  PROVE  Dispatching!DispatchInv'
<1> USE DEF Dispatching!DispatchInv, Dispatching!TypeOK, Dispatching!FreeIsAsked, Dispatching!Free
<1>1. ASSUME NEW S \in SUBSET Entries, Dispatching!Due(S) PROVE Dispatching!DispatchInv'
  BY <1>1 DEF Dispatching!Due
<1>2. ASSUME NEW S \in SUBSET Entries, Dispatching!Opens(S) PROVE Dispatching!DispatchInv'
  BY <1>2 DEF Dispatching!Opens
<1>3. CASE Dispatching!Quiets
  BY <1>3 DEF Dispatching!Quiets
<1>4. ASSUME NEW e \in Entries, Dispatching!Ask(e) PROVE Dispatching!DispatchInv'
  BY <1>4 DEF Dispatching!Ask
<1>5. ASSUME NEW e \in Entries, Dispatching!Stays(e) PROVE Dispatching!DispatchInv'
  BY <1>5 DEF Dispatching!Stays
<1>6. ASSUME NEW e \in Entries, Dispatching!Starts(e) PROVE Dispatching!DispatchInv'
  BY <1>6 DEF Dispatching!Starts
<1>7. ASSUME NEW e \in Entries, Dispatching!Leaves(e) PROVE Dispatching!DispatchInv'
  BY <1>7 DEF Dispatching!Leaves
<1>8. ASSUME NEW e \in Entries, Dispatching!Returns(e) PROVE Dispatching!DispatchInv'
  BY <1>8 DEF Dispatching!Returns
<1>9. CASE UNCHANGED Dispatching!vars
  BY <1>9 DEF Dispatching!vars
<1>10. QED
  BY <1>1, <1>2, <1>3, <1>4, <1>5, <1>6, <1>7, <1>8, <1>9 DEF Dispatching!Next

SafeDispatch == SteadyInv /\ Dispatching!DispatchInv

LEMMA DispatchSafely ==
  /\ Init => SafeDispatch
  /\ 0 \notin Rates => (SafeDispatch /\ [Next]_vars => SafeDispatch' /\ Steps)
<1>1. Dispatching!Init => Dispatching!DispatchInv
  BY DEF Dispatching!Init, Dispatching!DispatchInv, Dispatching!TypeOK,
         Dispatching!FreeIsAsked, Dispatching!Free
<1>2. ASSUME 0 \notin Rates, SafeDispatch, [Next]_vars
      PROVE  SafeDispatch' /\ Steps
  <2>1. SteadyInv' /\ Steps
    BY <1>2, StepDispatches DEF SafeDispatch, Dispatching!DispatchInv
  <2>2. Dispatching!DispatchInv'
    BY <1>2, <2>1, DispatchStep DEF SafeDispatch, Steps
  <2>3. QED
    BY <2>1, <2>2 DEF SafeDispatch
<1>3. QED
  BY <1>1, <1>2, InitDispatch DEF SafeDispatch

(* As long as Date.now() does not fall behind the timers, the gate with    *)
(* its clocks and timers does only what GatedDispatch allows: an entry     *)
(* starts only when it is free.                                            *)
THEOREM DispatchesWhileSteady ==
  ASSUME 0 \notin Rates
  PROVE  Spec => DispatchesAsPromised
<1>1. Init => SafeDispatch /\ Dispatching!Init
  BY DispatchSafely, InitDispatch
<1>2. SafeDispatch /\ [Next]_vars => SafeDispatch' /\ [Dispatching!Next]_(Dispatching!vars)
  BY DispatchSafely DEF Steps
<1>3. QED
  BY <1>1, <1>2, PTL DEF Spec, DispatchesAsPromised, Dispatching!Spec

(* And none is forgotten: an entry that waits and that the gate leaves     *)
(* free has a dispatch timer, or a drain of its FIFO is due (drainAll,     *)
(* backend-registry.ts:22720, 22971).                                      *)
THEOREM FreeEntriesAreAsked ==
  ASSUME 0 \notin Rates
  PROVE  Spec => []Dispatching!FreeIsAsked
<1>1. Init => SafeDispatch
  BY DispatchSafely
<1>2. SafeDispatch /\ [Next]_vars => SafeDispatch'
  BY DispatchSafely
<1>3. SafeDispatch => Dispatching!FreeIsAsked
  BY DEF SafeDispatch, Dispatching!DispatchInv
<1>4. QED
  BY <1>1, <1>2, <1>3, PTL DEF Spec

(* Nothing strands a continuation but the operator's pause: as long as     *)
(* Date.now() does not fall behind the timers, each one that a resuming    *)
(* gate waits for is at the backend, or has a drain or a dispatch timer to *)
(* come, or waits for the plan, or is paused (setQueuedTurnPaused, which   *)
(* settles nothing, backend-registry.ts:23263-23307).  So whichever event  *)
(* takes one out of its queue or holds it has settled it.                  *)
THEOREM PendingOnTheWayWhileSteady ==
  ASSUME 0 \notin Rates
  PROVE  Spec => []PendingOnTheWay
<1>1. Init => SafeDispatch
  BY DispatchSafely
<1>2. SafeDispatch /\ [Next]_vars => SafeDispatch'
  BY DispatchSafely
<1>3. SafeDispatch => PendingOnTheWay
  <2> SUFFICES ASSUME SafeDispatch, phase = "resuming", ~closed
               PROVE  PendingOnTheWay
    BY DEF PendingOnTheWay
  <2>1. pending # {} /\ pending \subseteq Continuations
    BY DEF SafeDispatch, SteadyInv, GateInv, GateType, PendingWaits
  <2>2. ASSUME NEW c \in pending, place[c] # "starting", c \notin paused, begun, dispatch[c] = Off
        PROVE  c \in drains
    <3>1. c \in Continuations /\ c \in Entries /\ place[c] = "waiting"
      BY <2>1, <2>2 DEF SafeDispatch, SteadyInv, GateInv, PendingWaits, Entries
    <3>2. at[c] <= 0
      BY <2>2, <3>1 DEF SafeDispatch, SteadyInv, ScheduleInv, Timely
    <3>3. c \in Waiting /\ c \in TimeCame
      BY <2>2, <3>1, <3>2 DEF Waiting, TimeCame
    <3>4. c \in Asked
      BY <3>3 DEF SafeDispatch, Dispatching!DispatchInv, Dispatching!FreeIsAsked,
                  Dispatching!Free
    <3>5. QED
      BY <2>2, <3>4 DEF Asked
  <2>3. \A c \in pending : place[c] \in {"waiting", "starting"}
    BY DEF SafeDispatch, SteadyInv, GateInv, PendingWaits
  <2>4. QED
    BY <2>1, <2>2, <2>3 DEF PendingOnTheWay
<1>4. QED
  BY <1>1, <1>2, <1>3, PTL DEF Spec

-----------------------------------------------------------------------------
(* The end of the wait is timed, if Date.now() does not stand still.       *)

(* A step between two events of the timers.                                *)
LEMMA SameEnd ==
  ASSUME EndIsTimed, phase' = "resuming" => phase = "resuming",
         ~closed' => ~closed, UNCHANGED <<begun, deadline, fallback, releaseIn>>
  PROVE  EndIsTimed'
BY DEF EndIsTimed

LEMMA OpenEnds == ASSUME NEW pl, OpenGate(pl) PROVE EndIsTimed'
BY DEF OpenGate, EndIsTimed

(* The dispatch sets the deadline for the time it gives releaseBy. *)
LEMMA BeginTimesEnd ==
  ASSUME PlanInv, EndIsTimed, BeginDispatch
  PROVE  EndIsTimed'
<1>1. CASE ~(~begun /\ phase = "resuming")
  BY <1>1 DEF BeginDispatch, EndIsTimed, gate
<1>2. CASE ~begun /\ phase = "resuming"
  <2>1. begun' = TRUE /\ \E jitter \in [Kept -> 0..Jitter] : Plan(jitter)
    BY <1>2 DEF BeginDispatch
  <2>2. PICK jitter \in [Kept -> 0..Jitter] : Plan(jitter)
    BY <2>1
  <2>3. deadline' = releaseIn'
    BY <2>2 DEF Plan, Deadline
  <2>4. Kept \subseteq Continuations /\ Kept # {}
    BY <1>2 DEF Kept, PlanInv, GateInv, GateType, PendingWaits
  <2>5. releaseIn' \in Nat
    BY <2>2, <2>4, PlanIsNat DEF Plan
  <2>6. QED
    BY <2>1, <2>3, <2>5 DEF EndIsTimed, Off
<1>3. QED
  BY <1>1, <1>2

LEMMA TickTimesEnd ==
  ASSUME PlanInv, EndIsTimed, NEW r \in Rates, r # 0, Tick(r)
  PROVE  EndIsTimed'
<1> SUFFICES ASSUME phase = "resuming", ~closed PROVE EndIsTimed'
  BY DEF Tick, EndIsTimed
<1>1. /\ fallback' = Counts(fallback) /\ deadline' = Counts(deadline) /\ begun' = begun
      /\ begun => releaseIn' = Passes(releaseIn, r)
  BY DEF Tick
<1>2. /\ fallback \in {Off} \union Nat /\ deadline \in {Off} \union Nat
      /\ releaseIn \in Int
  BY DEF PlanInv, TypeOK
<1>3. CASE begun
  <2>1. deadline # Off /\ releaseIn <= deadline
    BY <1>3 DEF EndIsTimed
  <2>2. /\ Passes(releaseIn, r) \in Int
        /\ releaseIn <= 0 => Passes(releaseIn, r) <= 0
        /\ Passes(releaseIn, r) <= releaseIn - 1 \/ Passes(releaseIn, r) <= 0
    BY <1>2, PassesDown
  <2>3. QED
    BY <1>1, <1>2, <1>3, <2>1, <2>2 DEF EndIsTimed, Counts, Off
<1>4. CASE ~begun
  BY <1>1, <1>2, <1>4 DEF EndIsTimed, Counts, Off
<1>5. QED
  BY <1>3, <1>4

LEMMA StepTimesEnd ==
  ASSUME 0 \notin Rates, PlanInv, EndIsTimed, [Next]_vars
  PROVE  EndIsTimed'
<1>1. CASE UNCHANGED vars
  BY <1>1, SameEnd DEF vars, gate, timer
<1>2. CASE ProvidersRefreshed
  BY <1>2, BeginTimesEnd DEF ProvidersRefreshed
<1>3. CASE Timers
  <2>1. CASE FallbackFires
    BY <2>1, BeginTimesEnd DEF FallbackFires
  <2>2. CASE DeadlineFires
    <3>1. CASE phase = "resuming" /\ releaseIn <= 0
      BY <2>2, <3>1, OpenEnds DEF DeadlineFires
    <3>2. CASE ~(phase = "resuming" /\ releaseIn <= 0)
      <4>1. deadline = 0 /\ UNCHANGED <<gate, fallback, closed>>
        BY <2>2, <3>2 DEF DeadlineFires
      <4>2. phase = "resuming" /\ begun /\ ~closed => releaseIn <= 0
        BY <4>1 DEF EndIsTimed
      <4>3. QED
        BY <3>2, <4>1, <4>2 DEF EndIsTimed, gate
    <3>3. QED
      BY <3>1, <3>2
  <2>3. CASE \E c \in Continuations : DispatchFires(c)
    BY <2>3, SameEnd DEF DispatchFires, gate
  <2>4. QED
    BY <1>3, <2>1, <2>2, <2>3 DEF Timers
<1>4. CASE Release
  BY <1>4, OpenEnds DEF Release
<1>5. CASE Quiet \/ Close
  BY <1>5 DEF Quiet, Close, EndIsTimed
<1>6. CASE \E r \in Rates : Tick(r)
  BY <1>6, TickTimesEnd
<1>7. ASSUME NEW e \in Entries, NEW type, NEW pl, NEW ds, Lifecycle(e, type, pl, ds)
      PROVE  EndIsTimed'
  BY <1>7, SameEnd, OpenEnds DEF Lifecycle, gate, timer
<1>8. ASSUME NEW e \in Entries,
             \/ Drain(e) \/ Started(e) \/ Refused(e)
             \/ Cancel(e) \/ Hold(e) \/ Unhold(e) \/ Pause(e) \/ Resume(e)
      PROVE  EndIsTimed'
  <2>1. CASE Drain(e)
    BY <2>1, SameEnd DEF Drain, gate, timer
  <2>2. CASE Started(e) \/ Refused(e) \/ Cancel(e) \/ Hold(e) \/ Unhold(e)
    BY <2>2, <1>7 DEF Started, Refused, Cancel, Hold, Unhold
  <2>3. CASE Pause(e) \/ Resume(e)
    BY <2>3, SameEnd DEF Pause, Resume, SetPaused, gate, timer
  <2>4. QED
    BY <1>8, <2>1, <2>2, <2>3
<1>9. QED
  BY <1>1, <1>2, <1>3, <1>4, <1>5, <1>6, <1>8 DEF Next

(* If Date.now() never stands still while the timers run, then as long as  *)
(* the gate is resuming a timer is set whose handler opens it or begins    *)
(* the dispatch: no handler finds that it came too early and is not set    *)
(* again (the finding of GateClockSlips, for a clock that does stand still). *)
THEOREM EndIsTimedWhileSteady ==
  ASSUME 0 \notin Rates
  PROVE  Spec => []EndIsTimed
<1>1. Init => EndIsTimed
  BY GateAssumption DEF Init, EndIsTimed, Off
<1>2. PlanInv /\ EndIsTimed /\ [Next]_vars => EndIsTimed'
  BY StepTimesEnd
<1>3. QED
  BY InitPlan, StepKeepsPlan, <1>1, <1>2, PTL DEF Spec
=============================================================================
