------------------------- MODULE RuntimeLeaseProofs -------------------------
(* An owner of the lease that never goes without a fresh marker keeps it,  *)
(* and as long as no release overtakes a start, only the owner runs the    *)
(* adapters; for any number of instances and coordinator calls, any Ttl,   *)
(* Grace and Retain, and under every fault of the model.                   *)
EXTENDS RuntimeLease, TLAPS

USE DEF process, lease, runtime

Active(p) == life[p] \in {"up", "quitting", "released"}

(* An instance that never lapsed has a fresh marker and nobody has marked  *)
(* it exited; when it owns the lease, nothing limits its ownership.        *)
Fresh    == \A p \in Instances \ lapsed : Active(p) => age[p] <= Ttl
Unmarked == \A p \in Instances \ lapsed : Active(p) => exited[p] \in {Unrecorded, Running}
Owned    == \A p \in Instances \ lapsed :
              Active(p) /\ holder = p => exited[p] = Running /\ left = Never

(* An instance that was not launched has left no trace; one whose          *)
(* coordinator is at work is running.                                      *)
Untouched == \A p \in Instances : life[p] = "new" => holder # p /\ exited[p] = Unrecorded
Working   == \A p \in Instances :
               (p \in timer \/ \E c \in Calls : call[p][c] # "idle") => Active(p)

LeaseInv == TypeOK /\ Fresh /\ Unmarked /\ Owned /\ Untouched /\ Working

-----------------------------------------------------------------------------
(* Acquisition.                                                            *)

(* Whatever the outcome, acquireLease leaves a well-typed lease.           *)
LEMMA AcquireType ==
  ASSUME TypeOK, NEW q \in Instances, Acquire(q)
  PROVE  /\ exited' \in [Instances -> Unrecorded..Retired]
         /\ holder' \in Instances \union {None}
         /\ left' \in 0..Never
<1>1. \A rows \in [Instances -> Unrecorded..Retired] :
        Record(q, rows) => exited' \in [Instances -> Unrecorded..Retired]
  BY LeaseAssumption DEF Record, Unrecorded, Running, Retired
<1>2. \A rows \in [Instances -> Unrecorded..Retired], p \in Instances :
        [rows EXCEPT ![p] = 0] \in [Instances -> Unrecorded..Retired]
  BY LeaseAssumption DEF Unrecorded, Retired
<1>3. Never \in 0..Never /\ Grace \in 0..Never
  BY LeaseAssumption DEF Never
<1>4. Take(q) => /\ exited' \in [Instances -> Unrecorded..Retired]
                 /\ holder' \in Instances \union {None} /\ left' \in 0..Never
  BY <1>1, <1>3 DEF Take, TakeOver, TypeOK
<1>5. \A expiry \in 0..Never : Refuse(q, exited, expiry) =>
        /\ exited' \in [Instances -> Unrecorded..Retired]
        /\ holder' \in Instances \union {None} /\ left' \in 0..Never
  BY <1>1 DEF Refuse, TypeOK
<1>6. CASE holder \in {None, q}
  BY <1>4, <1>5, <1>6 DEF Acquire, TypeOK
<1>7. CASE holder \notin {None, q}
  <2> DEFINE p == holder
  <2>0. p \in Instances /\ Challenge(q, p)
    BY <1>7 DEF Acquire, TypeOK
  <2>1. CASE ReclaimAfterExit(q, p)
    <3>1. exited[p] < Grace => Grace - exited[p] \in 0..Never
      BY <2>0, <2>1, LeaseAssumption DEF ReclaimAfterExit, Exited, Never
    <3>2. exited[p] \in Int
      BY <2>0, LeaseAssumption DEF TypeOK, Unrecorded, Retired
    <3>3. \/ Take(q)
          \/ exited[p] < Grace /\ Refuse(q, exited, Grace - exited[p])
      BY <2>1, <3>2, LeaseAssumption DEF ReclaimAfterExit
    <3>. QED BY <3>1, <3>3, <1>4, <1>5
  <2>2. CASE FindAlive(q, p)
    BY <2>2, <1>5 DEF FindAlive, TypeOK
  <2>3. CASE ReplaceEarlierBoot(q, p)
    BY <2>0, <2>3, <1>1, <1>2, <1>3 DEF ReplaceEarlierBoot, TakeOver, TypeOK
  <2>4. CASE CondemnOwner(q, p)
    BY <2>0, <2>4, <1>1, <1>2, <1>3 DEF CondemnOwner, Refuse, TypeOK
  <2>5. CASE OwnerWithoutRow(q, p)
    <3>1. left \in 0..Never
      BY DEF TypeOK
    <3>2. Take(q) \/ Refuse(q, exited, Grace) \/ Refuse(q, exited, left)
      BY <2>5 DEF OwnerWithoutRow
    <3>. QED BY <3>1, <3>2, <1>3, <1>4, <1>5
  <2>. QED BY <2>0, <2>1, <2>2, <2>3, <2>4, <2>5 DEF Challenge
<1>. QED BY <1>6, <1>7

(* No challenger takes the lease from, or marks exited, an owner that is   *)
(* active and never lapsed.                                                *)
LEMMA AcquireSpares ==
  ASSUME LeaseInv, NEW q \in Instances, Active(q), Acquire(q)
  PROVE  /\ \A p \in Instances \ lapsed : Active(p) =>
              /\ exited'[p] \in {Unrecorded, Running}
              /\ holder = p => holder' = p
              /\ holder' = p => exited'[p] = Running /\ left' = Never
         /\ \A p \in Instances : life[p] = "new" => holder' # p /\ exited'[p] = Unrecorded
<1> USE DEF LeaseInv
<1>t. /\ exited \in [Instances -> Unrecorded..Retired] /\ holder \in Instances \union {None}
      /\ Running # Unrecorded /\ Running \in Int /\ Unrecorded \in Int
      /\ None \notin Instances
  BY LeaseAssumption DEF TypeOK, Running, Unrecorded
<1>0. life[q] # "new"
  BY DEF Active
<1>1. ASSUME Take(q)
      PROVE  /\ holder' = q /\ left' = Never
             /\ exited' = [exited EXCEPT ![q] = IF @ = Unrecorded THEN Running ELSE @]
  BY <1>1 DEF Take, TakeOver, Record
<1>2. CASE holder = None
  BY <1>1, <1>2, <1>t, <1>0 DEF Acquire, Unmarked, Untouched
<1>3. CASE holder = q
  <2>1. Refuse(q, exited, left)
    BY <1>3, <1>t DEF Acquire
  <2>2. /\ holder' = holder /\ left' = left
        /\ exited' = [exited EXCEPT ![q] = IF @ = Unrecorded THEN Running ELSE @]
    BY <2>1 DEF Refuse, Record
  <2>. QED BY <1>3, <2>2, <1>t, <1>0 DEF Unmarked, Owned, Untouched
<1>4. CASE holder \notin {None, q}
  <2> DEFINE p == holder
  <2>0. p \in Instances /\ Challenge(q, p) /\ p # q /\ life[p] # "new"
    BY <1>4, <1>t DEF Acquire, Untouched
  <2>1. CASE p \notin lapsed /\ Active(p)
    <3>1. exited[p] = Running /\ left = Never /\ age[p] <= Ttl /\ life[p] # "gone"
      BY <2>0, <2>1 DEF Owned, Fresh, Active
    <3>a. Ttl \in Int /\ age[p] \in Int
      BY <2>0, LeaseAssumption DEF TypeOK, Ages, Stale
    <3>b. ~(age[p] > Ttl)
      BY <3>1, <3>a
    <3>2. Alive(p, q) = {TRUE}
      BY <2>0, <3>1, <3>b DEF Alive
    <3>3. HasRow(p) /\ ~Exited(p)
      BY <3>1, LeaseAssumption DEF HasRow, Exited, Running, Unrecorded, Retired
    <3>4. Refuse(q, exited, left)
      BY <2>0, <3>2, <3>3 DEF Challenge, ReclaimAfterExit, FindAlive,
           ReplaceEarlierBoot, CondemnOwner, OwnerWithoutRow
    <3>5. /\ holder' = holder /\ left' = left
          /\ exited' = [exited EXCEPT ![q] = IF @ = Unrecorded THEN Running ELSE @]
      BY <3>4 DEF Refuse, Record
    <3>. QED BY <3>1, <3>5, <2>0, <1>t, <1>0 DEF Unmarked, Owned, Untouched
  <2>2. CASE ~(p \notin lapsed /\ Active(p))
    <3>1. /\ \/ holder' = p
             \/ holder' = q /\ left' = Never
          /\ \A r \in Instances : exited'[r] =
               IF r = q THEN IF exited[q] = Unrecorded THEN Running ELSE exited[q]
               ELSE IF r = p THEN exited'[p] ELSE exited[r]
      BY <2>0, <1>t DEF Challenge, ReclaimAfterExit, FindAlive, ReplaceEarlierBoot,
           CondemnOwner, OwnerWithoutRow, Take, TakeOver, Refuse, Record
    <3>. QED BY <3>1, <2>2, <2>0, <1>t, <1>0 DEF Unmarked, Owned, Untouched
  <2>. QED BY <2>1, <2>2
<1>. QED BY <1>2, <1>3, <1>4

-----------------------------------------------------------------------------
(* Types.                                                                  *)

LEMMA RecordType ==
  ASSUME TypeOK, NEW p \in Instances, Record(p, exited)
  PROVE  exited' \in [Instances -> Unrecorded..Retired]
BY LeaseAssumption DEF TypeOK, Record, Unrecorded, Running, Retired

LEMMA WaitsType ==
  ASSUME TypeOK, NEW p \in Instances, NEW held, Waits(p, held)
  PROVE  waiting' \subseteq Instances
BY DEF TypeOK, Waits

LEMMA CoordinateType ==
  ASSUME TypeOK, NEW p \in Instances, Coordinate(p)
  PROVE  TypeOK'
<1> USE DEF TypeOK
<1> PICK c \in Calls :
      \/ ApplyLatestConfig(p, c) \/ DisableForSession(p, c) \/ RetryFires(p, c)
      \/ LoadInVain(p, c) \/ LoadEnabled(p, c)
      \/ LoadDisabled(p, c) \/ LoadOverridden(p, c)
      \/ Applied(p, c) \/ ApplyFails(p, c)
      \/ StoppedAndReleases(p, c) \/ StoppedAndWaits(p, c) \/ StopRejected(p, c)
  BY DEF Coordinate
<1>q. /\ Append(queue[p], c) \in Seq(Calls)
      /\ queue[p] # <<>> => Tail(queue[p]) \in Seq(Calls) /\ Append(Tail(queue[p]), c) \in Seq(Calls)
  OBVIOUS
<1>n. Newest(p, c) \subseteq Instances \X Calls
  BY DEF Newest
<1>1. CASE ApplyLatestConfig(p, c)
  BY <1>1, <1>n DEF ApplyLatestConfig, Goto, Cancel
<1>2. CASE DisableForSession(p, c)
  BY <1>2, <1>n, <1>q DEF DisableForSession, Goto, Cancel
<1>3. CASE RetryFires(p, c)
  BY <1>3, <1>n DEF RetryFires, Goto, Cancel
<1>4. CASE LoadInVain(p, c)
  BY <1>4 DEF LoadInVain, Goto
<1>5. CASE LoadEnabled(p, c)
  <2>1. /\ exited' \in [Instances -> Unrecorded..Retired]
        /\ holder' \in Instances \union {None} /\ left' \in 0..Never
    BY <1>5, AcquireType DEF LoadEnabled
  <2>2. waiting' \subseteq Instances
    BY <1>5, WaitsType DEF LoadEnabled
  <2>. QED BY <2>1, <2>2, <1>5, <1>q DEF LoadEnabled, Goto
<1>6. CASE LoadDisabled(p, c)
  <2>1. exited' \in [Instances -> Unrecorded..Retired] /\ waiting' \subseteq Instances
    BY <1>6, RecordType, WaitsType DEF LoadDisabled
  <2>. QED BY <2>1, <1>6, <1>q DEF LoadDisabled, Goto
<1>7. CASE Applied(p, c)
  BY <1>7, <1>q DEF Applied, AtHead, AdaptersOf, Goto
<1>8. CASE ApplyFails(p, c)
  BY <1>8, <1>q DEF ApplyFails, AtHead, AdaptersOf, Goto
<1>9. CASE StoppedAndReleases(p, c)
  <2>1. waiting' \subseteq Instances
    BY <1>9, WaitsType DEF StoppedAndReleases
  <2>. QED BY <2>1, <1>9, <1>q DEF StoppedAndReleases, AtHead, AdaptersOf, Goto, Release
<1>10. CASE StoppedAndWaits(p, c)
  BY <1>10, <1>q DEF StoppedAndWaits, AtHead, AdaptersOf, Goto
<1>11. CASE LoadOverridden(p, c)
  <2>1. exited' \in [Instances -> Unrecorded..Retired] /\ waiting' \subseteq Instances
    BY <1>11, RecordType, WaitsType DEF LoadOverridden
  <2>. QED BY <2>1, <1>11 DEF LoadOverridden, Goto
<1>12. CASE StopRejected(p, c)
  BY <1>12, <1>q DEF StopRejected, AtHead, AdaptersOf, Goto
<1>. QED BY <1>1, <1>2, <1>3, <1>4, <1>5, <1>6, <1>7, <1>8, <1>9, <1>10, <1>11, <1>12

LEMMA EndsType ==
  ASSUME TypeOK, NEW S \in SUBSET Instances, Ends(S)
  PROVE  /\ life' \in [Instances -> {"new", "up", "quitting", "released", "gone"}]
         /\ adapters' \subseteq Instances /\ timer' \subseteq Instances
         /\ current' \subseteq Instances \X Calls
         /\ call' \in [Instances -> [Calls -> {"idle", "loading", "applying", "denied", "stopping", "failing"}]]
         /\ queue' \in [Instances -> Seq(Calls)]
<1>1. <<>> \in Seq(Calls)
  OBVIOUS
<1>2. [c \in Calls |-> "idle"] \in
        [Calls -> {"idle", "loading", "applying", "denied", "stopping", "failing"}]
  OBVIOUS
<1>. QED BY <1>1, <1>2 DEF TypeOK, Ends

LEMMA QuitType ==
  ASSUME TypeOK, NEW p \in Instances, Quit(p)
  PROVE  TypeOK'
<1>1. CASE StopRecovery(p)
  BY <1>1 DEF TypeOK, StopRecovery, Cancel
<1>2. CASE ShutdownSync(p)
  BY <1>2 DEF TypeOK, ShutdownSync, Release, Waits
<1>3. CASE DisposeRuntime(p)
  BY <1>3 DEF TypeOK, DisposeRuntime, AdaptersOf
<1>4. CASE Exit(p)
  <2>1. [exited EXCEPT ![p] = IF HasRow(p) THEN 0 ELSE @] \in [Instances -> Unrecorded..Retired]
    BY LeaseAssumption DEF TypeOK, Unrecorded, Retired
  <2>. QED BY <1>4, <2>1, EndsType DEF Exit, TypeOK
<1>. QED BY <1>1, <1>2, <1>3, <1>4 DEF Quit

LEMMA TickType ==
  ASSUME TypeOK, Tick
  PROVE  TypeOK'
<1>1. \A a \in 0..Stale : Older(a, Stale) \in 0..Stale
  BY LeaseAssumption DEF Older, Stale
<1>2. \A a \in Unrecorded..Retired : Older(a, Retain) \in Unrecorded..Retired
  BY LeaseAssumption DEF Older, Unrecorded, Retired
<1>3. left' \in 0..Never
  BY LeaseAssumption DEF Tick, TypeOK, Never
<1>4. age' \in Ages
  BY <1>1 DEF Tick, TypeOK, Ages
<1>5. exited' \in [Instances -> Unrecorded..Retired]
  BY <1>2 DEF Tick, TypeOK
<1>. QED BY <1>3, <1>4, <1>5 DEF Tick, TypeOK

(* Every step keeps the types.                                             *)
LEMMA TypeStep == TypeOK /\ [Next]_vars => TypeOK'
<1> SUFFICES ASSUME TypeOK, [Next]_vars PROVE TypeOK'
  OBVIOUS
<1>a. 0 \in 0..Stale /\ Stale \in 0..Stale /\ Retired \in Unrecorded..Retired
  BY LeaseAssumption DEF Stale, Retired, Unrecorded
<1>1. ASSUME NEW p \in Instances, Coordinate(p) PROVE TypeOK'
  BY <1>1, CoordinateType
<1>2. ASSUME NEW p \in Instances, Quit(p) PROVE TypeOK'
  BY <1>2, QuitType
<1>3. ASSUME NEW p \in Instances, Crash(p) PROVE TypeOK'
  BY <1>3, EndsType DEF Crash, TypeOK
<1>4. ASSUME NEW p \in Instances, Start(p) PROVE TypeOK'
  <2>1. predates' \subseteq Instances \X Instances
    BY <1>4 DEF Start, TypeOK, Launched
  <2>. QED BY <2>1, <1>4, <1>a DEF Start, TypeOK, Ages
<1>5. ASSUME NEW p \in Instances, Heartbeat(p) PROVE TypeOK'
  BY <1>5, <1>a DEF Heartbeat, TypeOK, Ages
<1>6. ASSUME NEW p \in Instances, RetireRow(p) PROVE TypeOK'
  BY <1>6, <1>a DEF RetireRow, TypeOK
<1>7. ASSUME NEW S \in SUBSET Instances, Lapse(S) PROVE TypeOK'
  BY <1>7, <1>a DEF Lapse, TypeOK, Ages
<1>8. CASE Reboot
  <2>1. Launched \in SUBSET Instances
    BY DEF Launched
  <2>. QED BY <2>1, <1>8, EndsType DEF Reboot, TypeOK
<1>9. CASE Tick
  BY <1>9, TickType
<1>10. CASE ExpireLease
  BY <1>10 DEF ExpireLease, TypeOK
<1>11. CASE UNCHANGED vars
  BY <1>11 DEF vars, TypeOK
<1>. QED BY <1>1, <1>2, <1>3, <1>4, <1>5, <1>6, <1>7, <1>8, <1>9, <1>10, <1>11 DEF Next

LEMMA TypeInit == Init => TypeOK
<1>1. <<>> \in Seq(Calls)
  OBVIOUS
<1>2. Stale \in 0..Stale /\ Unrecorded \in Unrecorded..Retired /\ Never \in 0..Never
  BY LeaseAssumption DEF Stale, Unrecorded, Retired, Never
<1>. QED BY <1>1, <1>2 DEF Init, TypeOK, Ages

(* Every variable keeps its type, for any number of instances and calls.   *)
THEOREM TypeCorrect == Spec => []TypeOK
BY TypeInit, TypeStep, PTL DEF Spec

-----------------------------------------------------------------------------
(* The inductive invariant, and what a step may do to an owner.            *)

(* The instances that never lapsed and are active keep their lease.        *)
Keeps == \A p \in Instances \ lapsed : KeepsLease(p)
Good  == LeaseInv' /\ Keeps

(* The parts of the invariant but the types.                               *)
Parts == Fresh' /\ Unmarked' /\ Owned' /\ Untouched' /\ Working'

LEMMA CoordinateGood ==
  ASSUME LeaseInv, NEW p \in Instances, Coordinate(p)
  PROVE  Parts /\ Keeps
<1> USE DEF LeaseInv, Parts
<1> PICK c \in Calls :
      \/ ApplyLatestConfig(p, c) \/ DisableForSession(p, c) \/ RetryFires(p, c)
      \/ LoadInVain(p, c) \/ LoadEnabled(p, c)
      \/ LoadDisabled(p, c) \/ LoadOverridden(p, c)
      \/ Applied(p, c) \/ ApplyFails(p, c)
      \/ StoppedAndReleases(p, c) \/ StoppedAndWaits(p, c) \/ StopRejected(p, c)
  BY DEF Coordinate
<1>0. UNCHANGED process
  BY DEF ApplyLatestConfig, DisableForSession, RetryFires, LoadInVain, LoadEnabled,
     LoadDisabled, LoadOverridden, Applied, ApplyFails, StoppedAndReleases,
     StoppedAndWaits, StopRejected
<1>1. Active(p)
  BY DEF Working, Active, ApplyLatestConfig, DisableForSession, RetryFires, LoadInVain,
     LoadEnabled, LoadDisabled, LoadOverridden, Applied, ApplyFails, StoppedAndReleases,
     StoppedAndWaits, StopRejected
<1>2. Fresh'
  BY <1>0 DEF Fresh, Active
<1>3. Working'
  <2>1. /\ \A r \in Instances \ {p} : call'[r] = call[r]
        /\ timer' \subseteq timer \union {p}
    BY DEF TypeOK, Goto, Cancel, ApplyLatestConfig, DisableForSession, RetryFires, LoadInVain,
       LoadEnabled, LoadDisabled, LoadOverridden, Applied, ApplyFails, StoppedAndReleases,
       StoppedAndWaits, StopRejected
  <2>. QED BY <2>1, <1>0, <1>1 DEF Working, Active
<1>4. CASE LoadEnabled(p, c)
  <2>1. Acquire(p)
    BY <1>4 DEF LoadEnabled
  <2>. QED BY <2>1, <1>0, <1>1, <1>2, <1>3, AcquireSpares
           DEF Unmarked, Owned, Untouched, Keeps, KeepsLease, Active
<1>5. CASE LoadDisabled(p, c) \/ LoadOverridden(p, c)
  <2>1. /\ exited' = [exited EXCEPT ![p] = IF @ = Unrecorded THEN Running ELSE @]
        /\ UNCHANGED <<holder, left>>
    BY <1>5 DEF LoadDisabled, LoadOverridden, Record
  <2>2. exited \in [Instances -> Unrecorded..Retired]
    BY DEF TypeOK
  <2>. QED BY <2>1, <2>2, <1>0, <1>1, <1>2, <1>3
           DEF Unmarked, Owned, Untouched, Keeps, KeepsLease, Active
<1>6. CASE StoppedAndReleases(p, c)
  <2>1. /\ UNCHANGED <<exited, left>>
        /\ holder' = IF holder = p THEN None ELSE holder
        /\ queue[p] # <<>> /\ queue' = [queue EXCEPT ![p] = Tail(@)]
    BY <1>6 DEF StoppedAndReleases, Release, AtHead
  <2>2. queue'[p] # queue[p]
    <3>1. queue[p] \in Seq(Calls) /\ queue'[p] = Tail(queue[p])
      BY <2>1 DEF TypeOK
    <3>2. Len(Tail(queue[p])) # Len(queue[p])
      BY <3>1, <2>1
    <3>. QED BY <3>1, <3>2
  <2>. QED BY <2>1, <2>2, <1>0, <1>2, <1>3, LeaseAssumption
           DEF Unmarked, Owned, Untouched, Keeps, KeepsLease, Active
<1>7. CASE ~(LoadEnabled(p, c) \/ LoadDisabled(p, c) \/ LoadOverridden(p, c)
             \/ StoppedAndReleases(p, c))
  <2>1. UNCHANGED <<exited, holder, left>>
    BY <1>7 DEF ApplyLatestConfig, DisableForSession, RetryFires, LoadInVain,
       Applied, ApplyFails, StoppedAndWaits, StopRejected
  <2>. QED BY <2>1, <1>0, <1>2, <1>3
           DEF Unmarked, Owned, Untouched, Keeps, KeepsLease, Active
<1>. QED BY <1>4, <1>5, <1>6, <1>7

(* The end of some processes leaves nothing of theirs at work.             *)
LEMMA EndsWorking ==
  ASSUME LeaseInv, NEW S \in SUBSET Instances, Ends(S)
  PROVE  /\ Working'
         /\ \A p \in Instances : /\ Active(p)' => Active(p) /\ p \notin S
                                 /\ life'[p] = "new" => life[p] = "new"
BY DEF LeaseInv, TypeOK, Working, Active, Ends

LEMMA QuitGood ==
  ASSUME LeaseInv, NEW p \in Instances, Quit(p)
  PROVE  Parts /\ Keeps
<1> USE DEF LeaseInv, Parts
<1>1. CASE StopRecovery(p)
  BY <1>1 DEF TypeOK, StopRecovery, Cancel, Fresh, Unmarked, Owned, Untouched, Working,
     Active, Keeps, KeepsLease
<1>2. CASE ShutdownSync(p)
  BY <1>2, LeaseAssumption DEF TypeOK, ShutdownSync, Release, Fresh, Unmarked, Owned,
     Untouched, Working, Active, Keeps, KeepsLease
<1>3. CASE DisposeRuntime(p)
  BY <1>3 DEF TypeOK, DisposeRuntime, Fresh, Unmarked, Owned, Untouched, Working,
     Active, Keeps, KeepsLease
<1>4. CASE Exit(p)
  <2>1. /\ Ends({p}) /\ life[p] = "released" /\ UNCHANGED <<age, lapsed, holder, left>>
        /\ \A r \in Instances \ {p} : exited'[r] = exited[r]
    BY <1>4 DEF Exit, TypeOK
  <2>2. Working' /\ \A r \in Instances : /\ Active(r)' => Active(r) /\ r \notin {p}
                                         /\ life'[r] = "new" => life[r] = "new"
    BY <2>1, EndsWorking
  <2>. QED BY <2>1, <2>2 DEF Fresh, Unmarked, Owned, Untouched, Keeps, KeepsLease
<1>. QED BY <1>1, <1>2, <1>3, <1>4 DEF Quit

LEMMA TickGood ==
  ASSUME LeaseInv, Tick
  PROVE  Parts /\ Keeps
<1> USE DEF LeaseInv, Parts
<1>1. \A p \in Instances \ lapsed : Active(p) => age'[p] <= Ttl
  <2> SUFFICES ASSUME NEW p \in Instances \ lapsed, Active(p) PROVE age'[p] <= Ttl
    OBVIOUS
  <2>1. age[p] \in 0..Stale /\ age[p] <= Ttl /\ age[p] # Ttl /\ age'[p] = Older(age[p], Stale)
    BY DEF Tick, Fresh, TypeOK, Ages, Active
  <2>. QED BY <2>1, LeaseAssumption DEF Older, Stale
<1>2. \A p \in Instances : exited[p] \in {Unrecorded, Running} => exited'[p] = exited[p]
  BY LeaseAssumption DEF Tick, Older, Unrecorded, Running
<1>3. left = Never => left' = Never
  BY LeaseAssumption DEF Tick, Never
<1>4. UNCHANGED <<life, lapsed, holder, runtime>>
  BY DEF Tick
<1>. QED BY <1>1, <1>2, <1>3, <1>4
         DEF Fresh, Unmarked, Owned, Untouched, Working, Active, Keeps, KeepsLease

(* Every step keeps the invariant, and the owners that never lapsed.       *)
LEMMA Step == LeaseInv /\ [Next]_vars => Good
<1> SUFFICES ASSUME LeaseInv, [Next]_vars PROVE Parts /\ Keeps
  BY TypeStep DEF LeaseInv, Parts, Good
<1> USE DEF LeaseInv, Parts
<1>1. ASSUME NEW p \in Instances, Coordinate(p) PROVE Parts /\ Keeps
  BY <1>1, CoordinateGood
<1>2. ASSUME NEW p \in Instances, Quit(p) PROVE Parts /\ Keeps
  BY <1>2, QuitGood
<1>3. ASSUME NEW p \in Instances, Crash(p) PROVE Parts /\ Keeps
  <2>1. /\ Ends({p}) /\ UNCHANGED <<age, lapsed, lease>>
    BY <1>3 DEF Crash
  <2>. QED BY <2>1, EndsWorking DEF Fresh, Unmarked, Owned, Untouched, Keeps, KeepsLease
<1>4. ASSUME NEW p \in Instances, Start(p) PROVE Parts /\ Keeps
  <2>1. /\ life[p] = "new" /\ life' = [life EXCEPT ![p] = "up"] /\ age' = [age EXCEPT ![p] = 0]
        /\ UNCHANGED <<lapsed, lease, runtime>>
    BY <1>4 DEF Start
  <2>. QED BY <2>1, LeaseAssumption DEF TypeOK, Ages, Fresh, Unmarked, Owned, Untouched, Working,
           Active, Keeps, KeepsLease
<1>5. ASSUME NEW p \in Instances, Heartbeat(p) PROVE Parts /\ Keeps
  BY <1>5, LeaseAssumption DEF Heartbeat, TypeOK, Ages, Fresh, Unmarked, Owned, Untouched, Working,
     Active, Keeps, KeepsLease
<1>6. ASSUME NEW p \in Instances, RetireRow(p) PROVE Parts /\ Keeps
  <2>1. /\ exited[p] = Retain /\ UNCHANGED <<process, holder, left, runtime>>
        /\ \A r \in Instances \ {p} : exited'[r] = exited[r]
    BY <1>6 DEF RetireRow, TypeOK
  <2>2. exited[p] \notin {Unrecorded, Running}
    BY <2>1, LeaseAssumption DEF Unrecorded, Running
  <2>3. life[p] # "new" /\ (Active(p) => p \in lapsed)
    BY <2>2 DEF Unmarked, Untouched
  <2>. QED BY <2>1, <2>3 DEF Fresh, Unmarked, Owned, Untouched, Working, Active, Keeps, KeepsLease
<1>7. ASSUME NEW S \in SUBSET Instances, Lapse(S) PROVE Parts /\ Keeps
  BY <1>7 DEF Lapse, TypeOK, Ages, Fresh, Unmarked, Owned, Untouched, Working,
     Active, Keeps, KeepsLease
<1>8. CASE Reboot
  <2>1. /\ Launched \in SUBSET Instances /\ Ends(Launched) /\ UNCHANGED <<age, lapsed, lease>>
    BY <1>8 DEF Reboot, Launched
  <2>. QED BY <2>1, EndsWorking DEF Fresh, Unmarked, Owned, Untouched, Keeps, KeepsLease
<1>9. CASE Tick
  BY <1>9, TickGood
<1>10. CASE ExpireLease
  <2>1. left # Never
    BY <1>10, LeaseAssumption DEF ExpireLease, Never
  <2>. QED BY <1>10, <2>1, LeaseAssumption DEF ExpireLease, TypeOK, Fresh, Unmarked, Owned, Untouched,
           Working, Active, Keeps, KeepsLease
<1>11. CASE UNCHANGED vars
  BY <1>11 DEF vars, Fresh, Unmarked, Owned, Untouched, Working, Active, Keeps, KeepsLease
<1>. QED BY <1>1, <1>2, <1>3, <1>4, <1>5, <1>6, <1>7, <1>8, <1>9, <1>10, <1>11 DEF Next

LEMMA InvInit == Init => LeaseInv
<1> SUFFICES ASSUME Init PROVE LeaseInv
  OBVIOUS
<1>1. TypeOK
  BY TypeInit
<1>2. Fresh /\ Unmarked /\ Owned /\ Untouched /\ Working
  BY LeaseAssumption DEF Init, Fresh, Unmarked, Owned, Untouched, Working, Active
<1>. QED BY <1>1, <1>2 DEF LeaseInv

(* An owner that never went without a fresh marker loses the lease only    *)
(* when its own coordinator gives it up, when it quits or when it dies.    *)
THEOREM LiveOwnerKeepsLease == Spec => LiveKeepsLease
<1>1. LeaseInv /\ [Next]_vars => LeaseInv'
  BY Step DEF Good
<1>2. LeaseInv /\ [Next]_vars => [Keeps]_vars
  BY Step DEF Good
<1>3. [Keeps]_vars => [\A p \in Instances \ lapsed : KeepsLease(p)]_vars
  BY DEF Keeps
<1>. QED BY InvInit, <1>1, <1>2, <1>3, PTL DEF Spec, LiveKeepsLease

-----------------------------------------------------------------------------
(* Who runs the adapters, however many coordinator calls overlap.          *)

Serving(p) == life[p] \in {"up", "quitting"}
Applying(p) == \E c \in Calls : call[p][c] = "applying"

(* The adapters, and what is about to start them, are backed by the lease. *)
Runs   == \A p \in adapters : Active(p)
Backed == \A p \in Instances \ lapsed :
            Serving(p) /\ (p \in adapters \/ Applying(p)) => holder = p

RunnerInv == LeaseInv /\ Runs /\ Backed

(* What a step may not do to an instance, for its adapters to be backed.   *)
LEMMA StaysBacked ==
  ASSUME Backed, NEW p \in Instances \ lapsed', lapsed \subseteq lapsed',
         p \in adapters' => p \in adapters, Applying(p)' => Applying(p),
         Serving(p)' => Serving(p), holder = p => holder' = p
  PROVE  Serving(p)' /\ (p \in adapters' \/ Applying(p)') => holder' = p
BY DEF Backed

LEMMA CoordinateBacked ==
  ASSUME RunnerInv, Keeps, NEW q \in Instances, Coordinate(q), ~ReleaseOvertaken(q)
  PROVE  Runs' /\ Backed'
<1> PICK c \in Calls :
      \/ ApplyLatestConfig(q, c) \/ DisableForSession(q, c) \/ RetryFires(q, c)
      \/ LoadInVain(q, c) \/ LoadEnabled(q, c)
      \/ LoadDisabled(q, c) \/ LoadOverridden(q, c)
      \/ Applied(q, c) \/ ApplyFails(q, c)
      \/ StoppedAndReleases(q, c) \/ StoppedAndWaits(q, c) \/ StopRejected(q, c)
  BY DEF Coordinate
<1> USE DEF ApplyLatestConfig, DisableForSession, RetryFires, LoadInVain, LoadEnabled,
            LoadDisabled, LoadOverridden, Applied, ApplyFails, StoppedAndReleases,
            StoppedAndWaits, StopRejected
<1>1. /\ UNCHANGED <<life, lapsed>>
      /\ adapters' \in {adapters, adapters \union {q}, adapters \ {q}}
      /\ \A p \in Instances \ {q} : call'[p] = call[p] /\ queue'[p] = queue[p]
  BY DEF RunnerInv, LeaseInv, TypeOK, Goto, AdaptersOf
<1>2. Active(q)
  BY DEF RunnerInv, LeaseInv, Working, Active
<1>3. Runs'
  BY <1>1, <1>2 DEF RunnerInv, Runs, Active
<1>4. ASSUME NEW p \in Instances \ lapsed, p # q
      PROVE  Serving(p)' /\ (p \in adapters' \/ Applying(p)') => holder' = p
  <2>1. Serving(p) /\ holder = p => holder' = p
    BY <1>1, <1>4 DEF Keeps, KeepsLease, Serving
  <2>2. p \in adapters' => p \in adapters
    BY <1>1, <1>4
  <2>3. (Applying(p)' => Applying(p)) /\ (Serving(p)' => Serving(p))
    BY <1>1, <1>4 DEF Applying, Serving
  <2>. QED BY <2>1, <2>2, <2>3 DEF RunnerInv, Backed
<1>5. ASSUME q \notin lapsed, Serving(q), q \in adapters' \/ Applying(q)'
      PROVE  holder' = q
  <2>a. call \in [Instances -> [Calls -> {"idle", "loading", "applying", "denied", "stopping", "failing"}]]
    BY DEF RunnerInv, LeaseInv, TypeOK
  <2>b. \E pc : Goto(q, c, pc)
    OBVIOUS
  <2>c. PICK pc : call' = [call EXCEPT ![q][c] = pc]
    BY <2>b DEF Goto
  <2>1. \A d \in Calls \ {c} : call'[q][d] = call[q][d]
    BY <2>a, <2>c
  <2>2. q \in adapters \/ Applying(q) => holder = q
    BY <1>5 DEF RunnerInv, Backed
  <2>3. CASE ApplyLatestConfig(q, c) \/ DisableForSession(q, c) \/ RetryFires(q, c)
             \/ LoadInVain(q, c) \/ LoadDisabled(q, c) \/ LoadOverridden(q, c)
    <3>1. adapters' = adapters /\ holder' = holder
      BY <2>3
    <3>2. call'[q][c] # "applying"
      <4>1. \E to \in {"idle", "loading", "stopping"} : call' = [call EXCEPT ![q][c] = to]
        BY <2>3 DEF Goto
      <4>. QED BY <2>a, <4>1
    <3>. QED BY <1>5, <2>1, <2>2, <3>1, <3>2 DEF Applying
  <2>4. CASE LoadEnabled(q, c)
    <3>1. holder = q => holder' = q
      BY <1>2, <1>5, <2>4, AcquireSpares DEF RunnerInv
    <3>2. call'[q][c] = "applying" => holder' = q
      BY <2>4 DEF RunnerInv, LeaseInv, TypeOK, Goto
    <3>3. adapters' = adapters
      BY <2>4
    <3>. QED BY <1>5, <2>1, <2>2, <3>1, <3>2, <3>3 DEF Applying
  <2>5. CASE Applied(q, c) \/ ApplyFails(q, c)
    BY <2>2, <2>5 DEF Applying
  <2>6. CASE StoppedAndReleases(q, c)
    <3>1. q \notin adapters' /\ call'[q][c] # "applying"
      BY <2>6 DEF RunnerInv, LeaseInv, TypeOK, Goto, AdaptersOf
    <3>2. ~Applying(q)'
      BY <2>1, <2>6, <3>1 DEF Applying, ReleaseOvertaken
    <3>. QED BY <1>5, <3>1, <3>2
  <2>7. CASE StoppedAndWaits(q, c) \/ StopRejected(q, c)
    <3>1. q \notin adapters' /\ call'[q][c] # "applying" /\ holder' = holder
      BY <2>7 DEF RunnerInv, LeaseInv, TypeOK, Goto, AdaptersOf
    <3>. QED BY <1>5, <2>1, <2>2, <3>1 DEF Applying
  <2>. QED BY <2>3, <2>4, <2>5, <2>6, <2>7
<1>. QED BY <1>1, <1>3, <1>4, <1>5 DEF Backed, Serving

(* The other steps start no adapters, and take the lease from no instance  *)
(* that goes on serving.                                                   *)
LEMMA OthersBacked ==
  ASSUME RunnerInv, LeaseInv', Keeps, lapsed \subseteq lapsed', adapters' \subseteq adapters,
         \A p \in Instances :
           /\ Active(p) => Active(p)' \/ p \notin adapters'
           /\ Serving(p)' => /\ Serving(p) \/ life[p] = "new"
                             /\ (life'[p] = life[p] /\ queue'[p] = queue[p]) \/ holder' = holder
                             /\ Applying(p)' => Applying(p)
  PROVE  Runs' /\ Backed'
<1>1. Runs'
  BY DEF RunnerInv, LeaseInv, TypeOK, Runs
<1>2. ASSUME NEW p \in Instances \ lapsed', Serving(p)', p \in adapters' \/ Applying(p)'
      PROVE  holder' = p
  <2>1. p \in adapters \/ Applying(p)
    BY <1>2
  <2>2. life[p] # "new"
    BY <2>1 DEF RunnerInv, LeaseInv, Working, Applying, Runs, Active
  <2>3. Serving(p) /\ holder = p
    BY <1>2, <2>1, <2>2 DEF RunnerInv, Backed
  <2>. QED BY <1>2, <2>3 DEF Keeps, KeepsLease, Serving
<1>. QED BY <1>1, <1>2 DEF Backed

LEMMA EndsBacked ==
  ASSUME RunnerInv, LeaseInv', Keeps, UNCHANGED <<lapsed, holder>>,
         NEW S \in SUBSET Instances, Ends(S)
  PROVE  Runs' /\ Backed'
<1>1. \A p \in Instances :
        /\ p \in S => life'[p] = "gone" /\ p \notin adapters'
        /\ p \notin S => life'[p] = life[p] /\ call'[p] = call[p]
  BY DEF Ends, RunnerInv, LeaseInv, TypeOK
<1>2. adapters' \subseteq adapters
  BY DEF Ends
<1>. QED BY <1>1, <1>2, OthersBacked DEF Active, Serving, Applying

LEMMA RunnerStep ==
  RunnerInv /\ [Next /\ \A p \in Instances : ~ReleaseOvertaken(p)]_vars => RunnerInv'
<1> SUFFICES ASSUME RunnerInv, [Next /\ \A p \in Instances : ~ReleaseOvertaken(p)]_vars
             PROVE  Runs' /\ Backed'
  BY Step DEF RunnerInv, Good
<1>0. LeaseInv' /\ Keeps
  BY Step DEF RunnerInv, Good
<1> USE DEF RunnerInv, LeaseInv
<1>1. ASSUME NEW q \in Instances, Coordinate(q), ~ReleaseOvertaken(q) PROVE Runs' /\ Backed'
  BY <1>0, <1>1, CoordinateBacked
<1>2. ASSUME NEW q \in Instances, Quit(q) PROVE Runs' /\ Backed'
  <2>1. CASE StopRecovery(q)
    BY <1>0, <2>1, OthersBacked DEF StopRecovery, TypeOK, Active, Serving, Applying
  <2>2. CASE ShutdownSync(q)
    BY <1>0, <2>2, OthersBacked DEF ShutdownSync, TypeOK, Active, Serving, Applying
  <2>3. CASE DisposeRuntime(q)
    BY <1>0, <2>3, OthersBacked DEF DisposeRuntime, AdaptersOf, TypeOK, Active, Serving, Applying
  <2>4. CASE Exit(q)
    BY <1>0, <2>4, EndsBacked DEF Exit
  <2>. QED BY <1>2, <2>1, <2>2, <2>3, <2>4 DEF Quit
<1>3. ASSUME NEW q \in Instances, Crash(q) PROVE Runs' /\ Backed'
  BY <1>0, <1>3, EndsBacked DEF Crash
<1>4. CASE Reboot
  BY <1>0, <1>4, EndsBacked DEF Reboot, Launched
<1>5. ASSUME NEW q \in Instances, Start(q) PROVE Runs' /\ Backed'
  BY <1>0, <1>5, OthersBacked DEF Start, TypeOK, Active, Serving, Applying
<1>6. ASSUME UNCHANGED <<life, runtime>>, lapsed \subseteq lapsed' PROVE Runs' /\ Backed'
  BY <1>0, <1>6, OthersBacked DEF Active, Serving, Applying
<1>7. ASSUME NEW q \in Instances, Heartbeat(q) \/ RetireRow(q) PROVE Runs' /\ Backed'
  BY <1>6, <1>7 DEF Heartbeat, RetireRow
<1>8. ASSUME NEW S \in SUBSET Instances, Lapse(S) PROVE Runs' /\ Backed'
  BY <1>6, <1>8 DEF Lapse
<1>9. CASE Tick \/ ExpireLease \/ UNCHANGED vars
  BY <1>6, <1>9 DEF Tick, ExpireLease, vars
<1>. QED BY <1>1, <1>2, <1>3, <1>4, <1>5, <1>7, <1>8, <1>9 DEF Next

(* If no instance enables Messaging while it is still stopping it, the     *)
(* adapters of an instance with a fresh marker run only under its lease,   *)
(* whatever calls overlap otherwise, crash or quit: an overtaken release   *)
(* is the only way to run them without (stopRuntimeAndRelease).            *)
THEOREM OrderlyRunnersHoldLease == OrderlySpec => []RunnersHoldLease
<1>1. Init => RunnerInv
  BY InvInit DEF Init, RunnerInv, Runs, Backed, Applying
<1>2. RunnerInv => RunnersHoldLease
  BY DEF RunnerInv, LeaseInv, TypeOK, Backed, RunnersHoldLease, Serving
<1>. QED BY <1>1, <1>2, RunnerStep, PTL DEF OrderlySpec

(* So two instances with fresh markers never run the adapters at once.     *)
THEOREM OrderlySingleHolder == OrderlySpec => []SingleHolder
<1>1. RunnersHoldLease => SingleHolder
  BY DEF RunnersHoldLease, SingleHolder
<1>. QED BY <1>1, OrderlyRunnersHoldLease, PTL

=============================================================================
