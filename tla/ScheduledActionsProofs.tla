----------------------- MODULE ScheduledActionsProofs -----------------------
(* A live claim is never forgotten, and a message that was not held is     *)
(* sent once, from one queue, and never after it ended: for any number of  *)
(* actions, schedulers and claims.                                         *)
EXTENDS ScheduledActions, TLAPS

USE DEF rows, queue, history

-----------------------------------------------------------------------------
(* Types.                                                                  *)

(* What a queue, an event or a dispatch says of a process: it runs.  A     *)
(* claimant has run.                                                       *)
Following ==
  /\ \A o \in Schedulers, a \in Actions : fifo[o][a] # "none" => o \in Live
  /\ \A e \in events : e.from \in Live
  /\ \A d \in Dispatches :
       IF job[d].at = "idle" THEN job[d].owner = Nobody ELSE job[d].owner \in Live
  /\ \A a \in Actions : row[a].owner # Nobody => life[row[a].owner] # "new"

(* The parts of TypeOK and Following a step can disturb together.          *)
RowTyped(r) ==
  /\ r \in Rows
  /\ r.status \in Claimed <=> r.owner # Nobody
  /\ r.status \in {"none", "scheduled"} => ~r.manual
  /\ r.status = "held" => r.manual
RowsTyped ==
  /\ row \in [Actions -> Rows]
  /\ \A a \in Actions : RowTyped(row[a])
  /\ \A a \in Actions : row[a].owner # Nobody => life[row[a].owner] # "new"
TimeTyped == due \subseteq Actions /\ fresh \subseteq Actions
JobsTyped ==
  /\ job \in [Dispatches -> Jobs]
  /\ \A d \in Dispatches :
       IF job[d].at = "idle" THEN job[d].owner = Nobody ELSE job[d].owner \in Live
QueueTyped ==
  /\ fifo \in [Schedulers -> [Actions -> {"none", "waiting", "held"}]]
  /\ starting \subseteq Live \X Actions
  /\ events \subseteq Events
  /\ \A o \in Schedulers, a \in Actions : fifo[o][a] # "none" => o \in Live
  /\ \A e \in events : e.from \in Live
LifeTyped == life \in [Schedulers -> {"new", "up", "gone"}]
PastTyped ==
  /\ claims \in [Actions -> 0..MaxClaims]
  /\ sent \in [Actions -> Nat] /\ torn \subseteq Actions
Typed == RowsTyped /\ TimeTyped /\ JobsTyped /\ QueueTyped /\ LifeTyped /\ PastTyped

LEMMA TypedIsTypeOK == Typed <=> TypeOK /\ Following
BY DEF Typed, RowTyped, RowsTyped, TimeTyped, JobsTyped, QueueTyped, LifeTyped, PastTyped,
       TypeOK, Following

LEMMA MarkedTyped ==
  ASSUME ScheduleAssumption, NEW r, RowTyped(r), NEW kind \in Kinds
  PROVE  /\ RowTyped(Marked(r, kind))
         /\ Marked(r, kind).owner \in {r.owner, Nobody}
         /\ Marked(r, kind).manual = (r.manual \/ (r.status \in Claimed /\ kind = "held"))
         /\ Marked(r, kind).status \in {r.status, kind}
         /\ r.status \in Claimed /\ kind # "queued" => Marked(r, kind).owner = Nobody
<1>1. CASE r.status \notin From(kind)
  <2>1. r.status \notin Claimed \/ kind = "queued"
    BY <1>1 DEF From, Kinds
  <2>2. r.status \in Claimed => kind # "held"
    BY <2>1
  <2>3. r.manual \in BOOLEAN
    BY DEF RowTyped, Rows
  <2>4. QED
    BY <1>1, <2>1, <2>2, <2>3 DEF Marked
<1>2. CASE r.status \in From(kind)
  <2> DEFINE m == [status |-> kind,
                   owner  |-> IF kind = "queued" THEN r.owner ELSE Nobody,
                   manual |-> r.manual \/ kind = "held",
                   entry  |-> r.entry \/ kind \in {"queued", "held"}]
  <2>1. Marked(r, kind) = m
    BY <1>2 DEF Marked
  <2>2. r \in Rows /\ kind \in Statuses
    BY DEF RowTyped, Kinds, Statuses
  <2>3. m \in Rows
    BY <2>2 DEF Rows
  <2>4. kind = "queued" => r.status \in Claimed
    BY <1>2 DEF From, Claimed
  <2>5. kind = "held" => r.status \in Claimed
    BY <1>2 DEF From
  <2>6. kind \in Claimed <=> kind = "queued"
    BY DEF Kinds, Claimed
  <2>7. RowTyped(m)
    BY <2>3, <2>4, <2>6 DEF RowTyped, Kinds
  <2>8. QED
    BY <2>1, <2>5, <2>7
<1>3. QED
  BY <1>1, <1>2

LEMMA RecoveredTyped ==
  ASSUME ScheduleAssumption, NEW r, RowTyped(r)
  PROVE  /\ RowTyped(Recovered(r)) /\ Recovered(r).owner = Nobody
         /\ Recovered(r).manual = r.manual
         /\ Recovered(r).status \in {"held", "failed", "scheduled"}
         /\ ~r.manual /\ r.status = "dispatching" => Recovered(r).status = "failed"
         /\ ~r.manual => Recovered(r).status # "held"
BY DEF RowTyped, Recovered, Rows, Statuses, Claimed

(* A mark of one row keeps the rows' types.                                *)
LEMMA MarkRows ==
  ASSUME ScheduleAssumption, RowsTyped, UNCHANGED life, NEW a \in Actions, NEW kind \in Kinds,
         row' = [row EXCEPT ![a] = Marked(@, kind)]
  PROVE  RowsTyped'
<1>1. RowTyped(row[a]) /\ RowTyped(Marked(row[a], kind)) /\ Marked(row[a], kind).owner \in {row[a].owner, Nobody}
  BY MarkedTyped DEF RowsTyped
<1>2. Marked(row[a], kind) \in Rows
  BY <1>1 DEF RowTyped
<1>3. QED
  BY <1>1, <1>2 DEF RowsTyped

LEMMA MarkRowsFor ==
  ASSUME ScheduleAssumption, RowsTyped, UNCHANGED life, NEW a \in Actions, NEW kind \in Kinds, NEW o,
         row' = [row EXCEPT ![a] = MarkedFor(o, @, kind)]
  PROVE  RowsTyped'
<1>1. CASE row[a].owner = o
  BY <1>1, MarkRows DEF MarkedFor
<1>2. CASE row[a].owner # o
  BY <1>2 DEF MarkedFor, RowsTyped
<1>3. QED
  BY <1>1, <1>2

(* A dispatch that goes on keeps the types of the dispatches.              *)
LEMMA JobOwner ==
  ASSUME JobsTyped, NEW d \in Dispatches, job[d].at # "idle"
  PROVE  job[d].owner \in Live /\ job[d].owner \in Schedulers /\ d[1] \in Actions
BY DEF JobsTyped, Live, Dispatches

LEMMA GoesTyped ==
  ASSUME JobsTyped, UNCHANGED life, NEW d \in Dispatches, job[d].at # "idle",
         NEW at \in Places, at # "idle", Goes(d, at)
  PROVE  JobsTyped'
<1>1. job[d] \in Jobs /\ job[d].owner \in Live
  BY DEF JobsTyped
<1>2. [job[d] EXCEPT !.at = at] \in Jobs
  BY <1>1 DEF Jobs
<1>3. QED
  BY <1>1, <1>2 DEF JobsTyped, Goes, Live, Jobs

LEMMA EndsTyped ==
  ASSUME JobsTyped, UNCHANGED life, NEW d \in Dispatches, Ends(d)
  PROVE  JobsTyped'
<1>1. Idle \in Jobs /\ Idle.at = "idle" /\ Idle.owner = Nobody
  BY DEF Idle, Jobs, Places
<1>2. QED
  BY <1>1 DEF JobsTyped, Ends, Live

LEMMA AnsweredTyped ==
  ASSUME JobsTyped, UNCHANGED life, NEW o \in Schedulers, NEW a \in Actions,
         NEW at \in {"started", "failed", "held"}, Answered(o, a, at)
  PROVE  JobsTyped'
<1>1. \A d \in Asking(o, a) : [job[d] EXCEPT !.at = at] \in Jobs /\ job[d].owner \in Live
  BY DEF JobsTyped, Asking, Jobs, Places
<1>2. QED
  BY <1>1 DEF JobsTyped, Answered, Live, Jobs

(* A step of the queue of a live process keeps the queue's types.          *)
LEMMA EmitTyped ==
  ASSUME QueueTyped, UNCHANGED life, NEW o \in Live, NEW a \in Actions, NEW kind \in Kinds,
         Emit(o, a, kind)
  PROVE  events' \subseteq Events /\ \A e \in events' : e.from \in Live'
<1>1. o \in Schedulers
  BY DEF Live
<1>2. [from |-> o, of |-> a, kind |-> kind] \in Events
  BY <1>1 DEF Events
<1>3. QED
  BY <1>2 DEF QueueTyped, Emit, Live

LEMMA PlaceTyped ==
  ASSUME QueueTyped, UNCHANGED life, NEW o \in Live, NEW a \in Actions,
         NEW place \in {"none", "waiting", "held"}, fifo' = [fifo EXCEPT ![o][a] = place]
  PROVE  /\ fifo' \in [Schedulers -> [Actions -> {"none", "waiting", "held"}]]
         /\ \A p \in Schedulers, b \in Actions : fifo'[p][b] # "none" => p \in Live'
<1>1. o \in Schedulers /\ Live' = Live
  BY DEF Live
<1>2. QED
  BY <1>1 DEF QueueTyped

(* One lemma for each kind of step.                                        *)
LEMMA ProcessTypes ==
  ASSUME ScheduleAssumption, Typed, NEW o \in Schedulers, Process(o)
  PROVE  Typed'
<1>1. Recover(o) /\ (life' = life \/ (life[o] = "new" /\ life' = [life EXCEPT ![o] = "up"]))
        => RowsTyped' /\ fresh' \subseteq Actions
  <2> SUFFICES ASSUME Recover(o),
                      life' = life \/ (life[o] = "new" /\ life' = [life EXCEPT ![o] = "up"])
               PROVE  RowsTyped' /\ fresh' \subseteq Actions
    OBVIOUS
  <2>1. \A a \in Actions : /\ RowTyped(row[a]) /\ RowTyped(Recovered(row[a]))
                           /\ Recovered(row[a]).owner = Nobody
    BY RecoveredTyped DEF Typed, RowsTyped
  <2>2. \A a \in Actions : row'[a] = row[a] \/ row'[a] = Recovered(row[a])
    BY DEF Recover
  <2>3. row' \in [Actions -> Rows] /\ \A a \in Actions : RowTyped(row'[a])
    BY <2>1, <2>2 DEF Recover, RowTyped
  <2>4. \A a \in Actions : row'[a].owner # Nobody => life'[row'[a].owner] # "new"
    BY <2>1, <2>2 DEF Typed, RowsTyped, LifeTyped, RowTyped, Rows
  <2>5. QED
    BY <2>3, <2>4 DEF Recover, RowsTyped, Typed, TimeTyped
<1>2. CASE Start(o)
  <2>1. Live' = Live \union {o}
    BY <1>2 DEF Start, Live, Typed, LifeTyped
  <2>2. QED
    BY <1>1, <1>2, <2>1 DEF Start, Typed, TimeTyped, JobsTyped, QueueTyped, LifeTyped, PastTyped
<1>3. CASE Heartbeat(o)
  BY <1>1, <1>3 DEF Heartbeat, Typed, TimeTyped, JobsTyped, QueueTyped, LifeTyped, PastTyped, Live
<1>4. CASE End(o)
  <2>1. Live' = Live \ {o} /\ LifeTyped'
    BY <1>4 DEF End, Live, Typed, LifeTyped
  <2>2. RowsTyped' /\ TimeTyped'
    BY <1>4 DEF End, Typed, RowsTyped, TimeTyped, LifeTyped, RowTyped
  <2>3. JobsTyped'
    <3>1. Idle \in Jobs /\ Idle.at = "idle" /\ Idle.owner = Nobody
      BY DEF Idle, Jobs, Places
    <3>2. job' = [d \in Dispatches |-> IF job[d].owner = o THEN Idle ELSE job[d]]
      BY <1>4 DEF End
    <3>3. QED
      BY <2>1, <3>1, <3>2 DEF Typed, JobsTyped
  <2>4. QueueTyped'
    BY <1>4, <2>1 DEF End, Typed, QueueTyped
  <2>5. PastTyped'
    BY <1>4 DEF End, Typed, PastTyped
  <2>6. QED
    BY <2>1, <2>2, <2>3, <2>4, <2>5 DEF Typed
<1>5. QED
  BY <1>2, <1>3, <1>4 DEF Process

(* A step that touches only the rows, or the times.                        *)
LEMMA RowTypes ==
  ASSUME ScheduleAssumption, Typed, NEW a \in Actions, NEW r, row' = [row EXCEPT ![a] = r],
         RowTyped(r), r.owner \in {row[a].owner, Nobody}, UNCHANGED life
  PROVE  RowsTyped'
BY DEF Typed, RowsTyped, RowTyped

LEMMA TimeTypes ==
  ASSUME ScheduleAssumption, Typed, NEW a \in Actions, Time(a)
  PROVE  Typed'
<1> USE DEF Typed, TimeTyped, JobsTyped, QueueTyped, LifeTyped, PastTyped, RowsTyped, Live
<1>1. CASE FallDue(a)
  BY <1>1 DEF FallDue
<1>2. CASE Expire(a)
  BY <1>2 DEF Expire
<1>3. CASE Prune(a)
  <2>1. RowTyped([row[a] EXCEPT !.status = "gone"])
    <3>1. RowTyped(row[a]) /\ row[a].owner = Nobody
      BY <1>3 DEF Prune, RowTyped, Claimed, Ended
    <3>2. [row[a] EXCEPT !.status = "gone"] \in Rows
      BY <3>1 DEF RowTyped, Rows, Statuses
    <3>3. QED
      BY <3>1, <3>2 DEF RowTyped, Rows, Claimed
  <2>2. RowsTyped'
    BY <1>3, <2>1, RowTypes DEF Prune, RowTyped, Rows
  <2>3. QED
    BY <1>3, <2>2 DEF Prune
<1>4. QED
  BY <1>1, <1>2, <1>3 DEF Time

LEMMA DropTypes ==
  ASSUME Typed, UNCHANGED life, NEW o \in Schedulers, NEW a \in Actions, DropEntry(o, a)
  PROVE  QueueTyped'
<1>1. o \in Live /\ Live' = Live
  BY DEF DropEntry, Typed, QueueTyped, Live
<1>2. events' \subseteq Events /\ \A e \in events' : e.from \in Live'
  BY <1>1, EmitTyped DEF DropEntry, Typed, Kinds
<1>3. QED
  BY <1>1, <1>2, PlaceTyped DEF DropEntry, Typed, QueueTyped

LEMMA ClaimTypes ==
  ASSUME ScheduleAssumption, Typed, NEW o \in Schedulers, NEW a \in Actions, NEW timed \in BOOLEAN,
         row[a].status \in {"scheduled", "held"}, Claim(o, a, timed)
  PROVE  Typed'
<1>1. o \in Live /\ Live' = Live /\ life[o] = "up" /\ o # Nobody
  BY DEF Claim, Live, ScheduleAssumption
<1>2. claims[a] + 1 \in 1..MaxClaims /\ claims' \in [Actions -> 0..MaxClaims]
  BY DEF Claim, Typed, PastTyped, ScheduleAssumption
<1>3. RowsTyped'
  <2>1. RowTyped([row[a] EXCEPT !.status = "dispatching", !.owner = o])
    BY <1>1 DEF Typed, RowsTyped, RowTyped, Rows, Statuses, Claimed
  <2>2. QED
    BY <1>1, <2>1 DEF Claim, Typed, RowsTyped, RowTyped
<1>4. JobsTyped'
  <2> DEFINE d == <<a, claims[a] + 1>>
             j == [at |-> IF row[a].manual THEN "hold" ELSE "submit", owner |-> o, timed |-> timed]
  <2>1. j \in Jobs /\ j.at # "idle"
    BY DEF Jobs, Places
  <2>2. d \in Dispatches /\ job' = [job EXCEPT ![d] = j]
    BY <1>2 DEF Claim, Dispatches
  <2>3. QED
    BY <1>1, <2>1, <2>2 DEF Typed, JobsTyped
<1>5. QED
  BY <1>1, <1>2, <1>3, <1>4 DEF Claim, Typed, TimeTyped, QueueTyped, LifeTyped, PastTyped

LEMMA PersonTypes ==
  ASSUME ScheduleAssumption, Typed, NEW o \in Schedulers, NEW a \in Actions, Person(o, a)
  PROVE  Typed'
<1> USE DEF Typed, TimeTyped, JobsTyped, QueueTyped, LifeTyped, PastTyped, RowsTyped, Live
<1>1. ASSUME NEW manual \in BOOLEAN, Create(o, a, manual)
      PROVE  Typed'
  <2> DEFINE r == [status |-> IF manual THEN "held" ELSE "scheduled", owner |-> Nobody,
                   manual |-> manual, entry |-> FALSE]
  <2>1. RowTyped(r)
    BY DEF RowTyped, Rows, Statuses, Claimed
  <2>2. RowsTyped'
    BY <1>1, <2>1, RowTypes DEF Create
  <2>3. QED
    BY <1>1, <2>2 DEF Create
<1>2. CASE Update(o, a)
  BY <1>2 DEF Update
<1>3. CASE Cancel(o, a)
  <2>1. RowTyped([row[a] EXCEPT !.status = "cancelled"])
    BY <1>3 DEF Cancel, RowTyped, Rows, Statuses, Claimed
  <2>2. RowsTyped'
    BY <1>3, <2>1, RowTypes DEF Cancel, RowTyped, Rows
  <2>3. QED
    BY <1>3, <2>2 DEF Cancel
<1>4. CASE CancelQueued(o, a)
  <2>1. RowsTyped' /\ QueueTyped'
    BY <1>4, MarkRows, DropTypes DEF CancelQueued, Kinds
  <2>2. QED
    BY <1>4, <2>1 DEF CancelQueued
<1>5. CASE SendNow(o, a)
  BY <1>5, ClaimTypes DEF SendNow
<1>6. QED
  BY <1>1, <1>2, <1>3, <1>4, <1>5 DEF Person

(* A dispatch: what it does to the queue, to itself and to its row.        *)
LEMMA DispatchTypes ==
  ASSUME ScheduleAssumption, Typed, NEW d \in Dispatches, Dispatch(d)
  PROVE  Typed'
<1> DEFINE o == job[d].owner
           a == d[1]
<1>1. UNCHANGED <<life, due, fresh, claims, history>> /\ job[d].at # "idle"
  BY DEF Dispatch, SubmitFails, LockRefuses, Enqueue, StartDirect, SubmitHeld, FindPlaced,
         MarkEntered, ReleaseNot, ReleaseHold, ReleaseStarts, ReleaseBusy, Answer
<1>2. o \in Live /\ o \in Schedulers /\ a \in Actions /\ Live' = Live
  BY <1>1, JobOwner DEF Typed, Live
<1>3. ASSUME RowsTyped', JobsTyped', QueueTyped'
      PROVE  Typed'
  BY <1>1, <1>3 DEF Typed, TimeTyped, LifeTyped, PastTyped
<1>4. UNCHANGED row => RowsTyped'
  BY <1>1 DEF Typed, RowsTyped
<1>5. UNCHANGED queue => QueueTyped'
  BY <1>2 DEF Typed, QueueTyped
<1>6. \A at \in Places : at # "idle" /\ Goes(d, at) => JobsTyped'
  BY <1>1, GoesTyped DEF Typed
<1>7. Ends(d) => JobsTyped'
  BY <1>1, EndsTyped DEF Typed
<1>8. \A place \in {"none", "waiting", "held"}, kind \in Kinds :
        fifo' = [fifo EXCEPT ![o][a] = place] /\ Emit(o, a, kind) /\ UNCHANGED starting => QueueTyped'
  <2> SUFFICES ASSUME NEW place \in {"none", "waiting", "held"}, NEW kind \in Kinds,
                      fifo' = [fifo EXCEPT ![o][a] = place], Emit(o, a, kind), UNCHANGED starting
               PROVE  QueueTyped'
    OBVIOUS
  <2>1. events' \subseteq Events /\ \A e \in events' : e.from \in Live'
    BY <1>1, <1>2, EmitTyped DEF Typed
  <2>2. QED
    BY <1>1, <1>2, <2>1, PlaceTyped DEF Typed, QueueTyped
<1>9. CASE SubmitFails(d) \/ LockRefuses(d) \/ FindPlaced(d) \/ ReleaseBusy(d) \/ ReleaseNot(d)
  <2>1. UNCHANGED row /\ UNCHANGED queue
    BY <1>9 DEF SubmitFails, LockRefuses, FindPlaced, ReleaseBusy, ReleaseNot
  <2>2. \/ Goes(d, "failed") \/ Goes(d, "refused") \/ Goes(d, "queued") \/ Goes(d, "held")
        \/ Ends(d)
    BY <1>9 DEF SubmitFails, LockRefuses, FindPlaced, ReleaseBusy, ReleaseNot
  <2>3. JobsTyped'
    BY <1>6, <1>7, <2>2 DEF Places
  <2>4. QED
    BY <1>3, <1>4, <1>5, <2>1, <2>3
<1>10. CASE \E place \in {"waiting", "held"} : Enqueue(d, place)
  <2>1. PICK place \in {"waiting", "held"} : Enqueue(d, place)
    BY <1>10
  <2>2. UNCHANGED row /\ QueueTyped'
    BY <1>8, <2>1 DEF Enqueue, Kinds
  <2>3. Goes(d, "held") \/ Goes(d, "queued")
    BY <2>1 DEF Enqueue
  <2>4. QED
    BY <1>3, <1>4, <1>6, <2>2, <2>3 DEF Places
<1>11. CASE StartDirect(d)
  <2>1. QueueTyped'
    BY <1>2, <1>11 DEF StartDirect, Typed, QueueTyped
  <2>2. UNCHANGED row /\ Goes(d, "direct")
    BY <1>11 DEF StartDirect
  <2>3. QED
    BY <1>3, <1>4, <1>6, <2>1, <2>2 DEF Places
<1>12. CASE SubmitHeld(d)
  <2>1. QueueTyped'
    BY <1>5, <1>8, <1>12 DEF SubmitHeld, Kinds
  <2>2. UNCHANGED row /\ (Goes(d, "placed") \/ Goes(d, "entered"))
    BY <1>12 DEF SubmitHeld
  <2>3. QED
    BY <1>3, <1>4, <1>6, <2>1, <2>2 DEF Places
<1>13. CASE MarkEntered(d)
  <2>1. RowsTyped'
    BY <1>1, <1>2, <1>13, MarkRowsFor DEF MarkEntered, Kinds, Typed
  <2>2. UNCHANGED queue /\ Goes(d, "release")
    BY <1>13 DEF MarkEntered
  <2>3. QED
    BY <1>3, <1>5, <1>6, <2>1, <2>2 DEF Places
<1>14. CASE ReleaseHold(d)
  <2>1. UNCHANGED row /\ Goes(d, "releasing") /\ QueueTyped'
    BY <1>8, <1>14 DEF ReleaseHold, Kinds
  <2>2. QED
    BY <1>3, <1>4, <1>6, <2>1 DEF Places
<1>15. CASE ReleaseStarts(d)
  <2>1. fifo' = [fifo EXCEPT ![o][a] = "none"] /\ starting' = starting \union {<<o, a>>} /\ UNCHANGED events
    BY <1>15 DEF ReleaseStarts
  <2>2. QueueTyped'
    BY <1>1, <1>2, <2>1, PlaceTyped DEF Typed, QueueTyped
  <2>3. UNCHANGED row /\ Goes(d, "starting")
    BY <1>15 DEF ReleaseStarts
  <2>4. QED
    BY <1>3, <1>4, <1>6, <2>2, <2>3 DEF Places
<1>16. CASE Answer(d)
  <2>1. RowsTyped'
    BY <1>1, <1>2, <1>16, MarkRowsFor DEF Answer, Kinds, Typed
  <2>2. UNCHANGED queue /\ Ends(d)
    BY <1>16 DEF Answer
  <2>3. QED
    BY <1>3, <1>5, <1>7, <2>1, <2>2
<1>17. QED
  BY <1>9, <1>10, <1>11, <1>12, <1>13, <1>14, <1>15, <1>16 DEF Dispatch

LEMMA QueueTypes ==
  ASSUME ScheduleAssumption, Typed, NEW o \in Schedulers, NEW a \in Actions, Queue(o, a)
  PROVE  Typed'
<1>1. UNCHANGED <<rows, life, claims, torn>>
  BY DEF Queue, HoldWaiting, ReleaseOther, CancelEntry, Drain, Accept, RejectDirect, RejectEntry
<1>2. o \in Live /\ Live' = Live
  BY <1>1 DEF Queue, HoldWaiting, ReleaseOther, CancelEntry, DropEntry, Drain, Accept,
              RejectDirect, RejectEntry, Typed, QueueTyped, Live
<1>3. ASSUME JobsTyped', QueueTyped', sent' \in [Actions -> Nat]
      PROVE  Typed'
  BY <1>1, <1>3 DEF Typed, RowsTyped, TimeTyped, LifeTyped, PastTyped
<1>4. UNCHANGED job => JobsTyped'
  BY <1>2 DEF Typed, JobsTyped
<1>5. UNCHANGED sent => sent' \in [Actions -> Nat]
  BY DEF Typed, PastTyped
<1>6. \A kind \in Kinds : Emit(o, a, kind) =>
        events' \subseteq Events /\ \A e \in events' : e.from \in Live'
  BY <1>1, <1>2, EmitTyped DEF Typed
<1>7. \A place \in {"none", "waiting", "held"} : fifo' = [fifo EXCEPT ![o][a] = place] =>
        /\ fifo' \in [Schedulers -> [Actions -> {"none", "waiting", "held"}]]
        /\ \A p \in Schedulers, b \in Actions : fifo'[p][b] # "none" => p \in Live'
  BY <1>1, <1>2, PlaceTyped DEF Typed
<1>8. \A at \in {"started", "failed", "held"} : Answered(o, a, at) => JobsTyped'
  BY <1>1, AnsweredTyped DEF Typed
<1>9. CASE HoldWaiting(o, a) \/ ReleaseOther(o, a)
  <2>1. QueueTyped'
    BY <1>2, <1>6, <1>7, <1>9 DEF HoldWaiting, ReleaseOther, Typed, QueueTyped, Kinds
  <2>2. QED
    BY <1>3, <1>4, <1>5, <1>9, <2>1 DEF HoldWaiting, ReleaseOther
<1>10. CASE CancelEntry(o, a)
  BY <1>1, <1>3, <1>4, <1>5, <1>10, DropTypes DEF CancelEntry
<1>11. CASE Drain(o, a)
  <2>1. QueueTyped'
    BY <1>2, <1>7, <1>11 DEF Drain, Typed, QueueTyped
  <2>2. QED
    BY <1>3, <1>4, <1>5, <1>11, <2>1 DEF Drain
<1>12. CASE Accept(o, a)
  <2>1. QueueTyped'
    BY <1>2, <1>6, <1>12 DEF Accept, Typed, QueueTyped, Kinds
  <2>2. sent' \in [Actions -> Nat]
    BY <1>12 DEF Accept, Typed, PastTyped
  <2>3. JobsTyped'
    BY <1>8, <1>12 DEF Accept
  <2>4. QED
    BY <1>3, <2>1, <2>2, <2>3
<1>13. CASE RejectDirect(o, a)
  <2>1. QueueTyped'
    BY <1>2, <1>6, <1>13 DEF RejectDirect, Typed, QueueTyped, Kinds
  <2>2. JobsTyped'
    BY <1>8, <1>13 DEF RejectDirect
  <2>3. QED
    BY <1>3, <1>5, <1>13, <2>1, <2>2 DEF RejectDirect
<1>14. CASE RejectEntry(o, a)
  <2>1. QueueTyped'
    BY <1>2, <1>6, <1>7, <1>14 DEF RejectEntry, Typed, QueueTyped, Kinds
  <2>2. JobsTyped'
    BY <1>8, <1>14 DEF RejectEntry
  <2>3. QED
    BY <1>3, <1>5, <1>14, <2>1, <2>2 DEF RejectEntry
<1>15. QED
  BY <1>9, <1>10, <1>11, <1>12, <1>13, <1>14 DEF Queue

LEMMA DeliverTypes ==
  ASSUME ScheduleAssumption, Typed, NEW e \in Events, Deliver(e)
  PROVE  Typed'
<1>1. e.of \in Actions /\ e.kind \in Kinds
  BY DEF Events
<1>2. RowsTyped'
  BY <1>1, MarkRows DEF Deliver, Typed
<1>3. QED
  BY <1>2 DEF Deliver, Typed, TimeTyped, JobsTyped, QueueTyped, LifeTyped, PastTyped, Live

LEMMA NextTypes ==
  ASSUME ScheduleAssumption, Typed, [Next]_vars
  PROVE  Typed'
<1>1. CASE UNCHANGED vars
  BY <1>1 DEF vars, Typed, RowsTyped, TimeTyped, JobsTyped, QueueTyped, LifeTyped, PastTyped, Live
<1>2. ASSUME NEW o \in Schedulers, NEW a \in Actions, ClaimNextDue(o, a)
      PROVE  Typed'
  BY <1>2, ClaimTypes DEF ClaimNextDue
<1>3. QED
  BY <1>1, <1>2, ProcessTypes, TimeTypes, PersonTypes, DispatchTypes, QueueTypes, DeliverTypes DEF Next

LEMMA InitTypes ==
  ASSUME ScheduleAssumption, Init
  PROVE  Typed
<1>1. \A a \in Actions : RowTyped(row[a])
  BY DEF Init, RowTyped, Rows, Statuses, Claimed
<1>2. RowsTyped
  BY <1>1 DEF Init, RowsTyped, RowTyped
<1>3. JobsTyped
  BY DEF Init, JobsTyped, Idle, Jobs, Places
<1>4. QED
  BY <1>2, <1>3, ScheduleAssumption
     DEF Init, Typed, TimeTyped, QueueTyped, LifeTyped, PastTyped, Live

(* Every row, queue, event and dispatch keeps its type; a row has a        *)
(* claimant exactly while it is dispatched or queued, and what a queue, an *)
(* event or a dispatch belongs to is a process that runs (transition).     *)
THEOREM TypeCorrect == Spec => [](TypeOK /\ Following)
<1>1. Init => Typed
  BY InitTypes, ScheduleAssumption
<1>2. Typed /\ [Next]_vars => Typed'
  BY NextTypes, ScheduleAssumption
<1>3. Typed => TypeOK /\ Following
  BY TypedIsTypeOK
<1>4. QED
  BY <1>1, <1>2, <1>3, PTL DEF Spec

-----------------------------------------------------------------------------
(* Live claims are backed.  Only a claim gives a row an owner, and a step  *)
(* that takes away what backs a claim leaves something else that does.     *)
OwnersKept == \A a \in Actions : row'[a].owner \in {row[a].owner, Nobody}
BackingKept ==
  \A p \in Live, a \in Actions : Backed(p, a) /\ row'[a].owner = p => Backed(p, a)'

LEMMA KeptIsBacked ==
  ASSUME ScheduleAssumption, Typed, ClaimBacked, OwnersKept, BackingKept,
         \A p \in Live' : p \in Live \/ life[p] = "new"
  PROVE  ClaimBacked'
<1> SUFFICES ASSUME NEW a \in Actions, NEW p \in Live', p = row'[a].owner
             PROVE  Backed(p, a)'
  BY DEF ClaimBacked
<1>1. p # Nobody
  BY DEF Live, ScheduleAssumption
<1>2. p = row[a].owner
  BY <1>1 DEF OwnersKept
<1>3. p \in Live
  BY <1>1, <1>2 DEF Typed, RowsTyped
<1>4. Backed(p, a)
  BY <1>2, <1>3 DEF ClaimBacked
<1>5. QED
  BY <1>3, <1>4 DEF BackingKept

(* A dispatch that goes on, without an entry of its own, still acts.       *)
LEMMA StepBacks ==
  ASSUME Typed, NEW d \in Dispatches, NEW at \in Places, at # "queued", Goes(d, at),
         NEW p \in Live, NEW a \in Actions, Backed(p, a),
         p \in Holding(a) => p \in Holding(a)', events \subseteq events'
  PROVE  Backed(p, a)'
<1>1. job \in [Dispatches -> Jobs]
  BY DEF Typed, JobsTyped
<1>2. \A c \in Dispatches : /\ job'[c].owner = job[c].owner
                            /\ job[c].at # "queued" => job'[c].at # "queued"
  BY <1>1 DEF Goes, Jobs
<1>3. QED
  BY <1>2 DEF Backed

LEMMA ProcessBacks ==
  ASSUME ScheduleAssumption, Typed, ClaimBacked, NEW o \in Schedulers, Process(o)
  PROVE  ClaimBacked'
<1>1. Recover(o) => OwnersKept
  <2>1. \A a \in Actions : Recovered(row[a]).owner = Nobody
    BY DEF Recovered
  <2>2. QED
    BY <2>1 DEF Recover, OwnersKept
<1>2. CASE Start(o) \/ Heartbeat(o)
  <2>1. BackingKept
    BY <1>2 DEF Start, Heartbeat, BackingKept, Backed, Holding
  <2>2. \A p \in Live' : p \in Live \/ life[p] = "new"
    BY <1>2 DEF Start, Heartbeat, Live, Typed, LifeTyped
  <2>3. OwnersKept
    BY <1>1, <1>2 DEF Start, Heartbeat
  <2>4. QED
    BY <2>1, <2>2, <2>3, KeptIsBacked
<1>3. CASE End(o)
  <2> SUFFICES ASSUME NEW a \in Actions, NEW p \in Live', p = row'[a].owner
               PROVE  Backed(p, a)'
    BY DEF ClaimBacked
  <2>1. p = row[a].owner /\ p \in Live /\ p # o
    BY <1>3 DEF End, Live, Typed, LifeTyped
  <2>2. Backed(p, a) /\ p \in Schedulers
    BY <2>1 DEF ClaimBacked, Live
  <2>3. fifo'[p][a] = fifo[p][a] /\ (<<p, a>> \in starting => <<p, a>> \in starting')
    BY <1>3, <2>1, <2>2 DEF End, Typed, QueueTyped
  <2>4. p \in Holding(a) => p \in Holding(a)'
    BY <2>2, <2>3 DEF Holding
  <2>5. \A e \in events : e.from = p => e \in events'
    BY <1>3, <2>1 DEF End
  <2>6. \A d \in Dispatches : job[d].owner = p => job'[d] = job[d]
    BY <1>3, <2>1 DEF End
  <2>7. QED
    BY <2>2, <2>4, <2>5, <2>6 DEF Backed
<1>4. QED
  BY <1>2, <1>3 DEF Process

LEMMA TimeBacks ==
  ASSUME ScheduleAssumption, Typed, ClaimBacked, NEW a \in Actions, Time(a)
  PROVE  ClaimBacked'
<1>1. OwnersKept
  BY DEF Time, FallDue, Expire, Prune, OwnersKept, Typed, RowsTyped, Rows
<1>2. UNCHANGED <<life, queue, job>>
  BY DEF Time, FallDue, Expire, Prune
<1>3. BackingKept /\ Live' = Live
  BY <1>2 DEF BackingKept, Backed, Holding, Live
<1>4. QED
  BY <1>1, <1>3, KeptIsBacked

LEMMA MarkKeepsOwners ==
  ASSUME ScheduleAssumption, Typed, NEW a \in Actions, NEW kind \in Kinds, NEW o,
         \/ row' = [row EXCEPT ![a] = Marked(@, kind)]
         \/ row' = [row EXCEPT ![a] = MarkedFor(o, @, kind)]
  PROVE  /\ OwnersKept
         /\ row' = [row EXCEPT ![a] = Marked(@, kind)] /\ kind # "queued" => row'[a].owner = Nobody
         /\ row' = [row EXCEPT ![a] = MarkedFor(o, @, kind)] /\ kind # "queued" => row'[a].owner # o \/ o = Nobody
         /\ \A b \in Actions : b # a => row'[b] = row[b]
<1>1. RowTyped(row[a])
  BY DEF Typed, RowsTyped
<1>2. /\ Marked(row[a], kind).owner \in {row[a].owner, Nobody}
      /\ row[a].status \in Claimed /\ kind # "queued" => Marked(row[a], kind).owner = Nobody
      /\ row[a].status \notin Claimed => row[a].owner = Nobody
  BY <1>1, MarkedTyped DEF RowTyped
<1>3. QED
  BY <1>2 DEF OwnersKept, MarkedFor, Typed, RowsTyped

LEMMA PersonBacks ==
  ASSUME ScheduleAssumption, Typed, ClaimBacked, NEW o \in Schedulers, NEW a \in Actions,
         Person(o, a) \/ ClaimNextDue(o, a)
  PROVE  ClaimBacked'
<1>1. CASE \E timed \in BOOLEAN : Claim(o, a, timed)
  <2>1. PICK timed \in BOOLEAN : Claim(o, a, timed)
    BY <1>1
  <2> SUFFICES ASSUME NEW b \in Actions, NEW p \in Live', p = row'[b].owner
               PROVE  Backed(p, b)'
    BY DEF ClaimBacked
  <2> DEFINE d == <<a, claims[a] + 1>>
  <2>2. d \in Dispatches
    BY <2>1 DEF Claim, Dispatches, Typed, PastTyped, ScheduleAssumption
  <2>3. job'[d].owner = o /\ job'[d].at # "queued" /\ UNCHANGED <<life, queue>>
    BY <2>1, <2>2 DEF Claim, Typed, JobsTyped
  <2>4. CASE b = a
    <3>1. p = o
      BY <2>1, <2>4 DEF Claim, Typed, RowsTyped, Rows
    <3>2. QED
      BY <2>2, <2>3, <2>4, <3>1 DEF Backed
  <2>5. CASE b # a
    <3>1. row'[b] = row[b] /\ Live' = Live
      BY <2>1, <2>3, <2>5 DEF Claim, Typed, RowsTyped, Live
    <3>2. Backed(p, b)
      BY <3>1 DEF ClaimBacked
    <3>3. \A c \in Dispatches : c[1] = b => job'[c] = job[c]
      BY <2>1, <2>2, <2>5 DEF Claim
    <3>4. QED
      BY <2>3, <3>1, <3>2, <3>3 DEF Backed, Holding
  <2>6. QED
    BY <2>4, <2>5
<1>2. CASE Update(o, a) \/ Cancel(o, a) \/ \E manual \in BOOLEAN : Create(o, a, manual)
  <2>1. OwnersKept /\ UNCHANGED <<life, queue, job>>
    BY <1>2 DEF Update, Cancel, Create, OwnersKept, Typed, RowsTyped, Rows
  <2>2. BackingKept /\ Live' = Live
    BY <2>1 DEF BackingKept, Backed, Holding, Live
  <2>3. QED
    BY <2>1, <2>2, KeptIsBacked
<1>3. CASE CancelQueued(o, a)
  <2>1. OwnersKept /\ row'[a].owner = Nobody
    BY <1>3, MarkKeepsOwners DEF CancelQueued, Kinds
  <2>2. Live' = Live
    BY <1>3 DEF CancelQueued, Live
  <2>3. BackingKept
    <3> SUFFICES ASSUME NEW p \in Live, NEW b \in Actions, Backed(p, b), row'[b].owner = p
                 PROVE  Backed(p, b)'
      BY DEF BackingKept
    <3>1. b # a
      BY <2>1 DEF Live, ScheduleAssumption
    <3>2. events \subseteq events' /\ UNCHANGED <<job, starting>>
      BY <1>3 DEF CancelQueued, DropEntry, Emit
    <3>3. \A q \in Schedulers : fifo'[q][b] = fifo[q][b]
      BY <1>3, <3>1 DEF CancelQueued, DropEntry, Typed, QueueTyped
    <3>4. QED
      BY <3>2, <3>3 DEF Backed, Holding
  <2>4. QED
    BY <2>1, <2>2, <2>3, KeptIsBacked
<1>4. QED
  BY <1>1, <1>2, <1>3 DEF Person, SendNow, ClaimNextDue

LEMMA DispatchBacks ==
  ASSUME ScheduleAssumption, Typed, ClaimBacked, NEW d \in Dispatches, Dispatch(d)
  PROVE  ClaimBacked'
<1> DEFINE o == job[d].owner
<1>1. UNCHANGED life /\ job[d].at # "idle"
  BY DEF Dispatch, SubmitFails, LockRefuses, Enqueue, StartDirect, SubmitHeld, FindPlaced,
         MarkEntered, ReleaseNot, ReleaseHold, ReleaseStarts, ReleaseBusy, Answer
<1>2. o \in Live /\ o \in Schedulers /\ d[1] \in Actions /\ Live' = Live
  BY <1>1, JobOwner DEF Typed, Live
<1>3. events \subseteq events'
  BY DEF Dispatch, SubmitFails, LockRefuses, Enqueue, StartDirect, SubmitHeld, FindPlaced,
         MarkEntered, ReleaseNot, ReleaseHold, ReleaseStarts, ReleaseBusy, Answer, Emit
<1>4. \A p \in Live, a \in Actions : p \in Holding(a) => p \in Holding(a)'
  <2>1. \A place \in {"waiting", "held"} : fifo' = [fifo EXCEPT ![o][d[1]] = place] =>
          \A p \in Schedulers, a \in Actions : fifo[p][a] # "none" => fifo'[p][a] # "none"
    BY <1>2 DEF Typed, QueueTyped
  <2>2. CASE ReleaseStarts(d)
    <3>1. \A p \in Schedulers, a \in Actions :
            fifo[p][a] # "none" => fifo'[p][a] # "none" \/ (p = o /\ a = d[1])
      BY <1>2, <2>2 DEF ReleaseStarts, Typed, QueueTyped
    <3>2. starting' = starting \union {<<o, d[1]>>}
      BY <2>2 DEF ReleaseStarts
    <3>3. QED
      BY <3>1, <3>2 DEF Holding
  <2>3. CASE ~ReleaseStarts(d)
    <3>1. /\ starting \subseteq starting'
          /\ fifo' = fifo \/ \E place \in {"waiting", "held"} : fifo' = [fifo EXCEPT ![o][d[1]] = place]
      BY <2>3 DEF Dispatch, SubmitFails, LockRefuses, Enqueue, StartDirect, SubmitHeld, FindPlaced,
                  MarkEntered, ReleaseNot, ReleaseHold, ReleaseBusy, Answer
    <3>2. QED
      BY <2>1, <3>1 DEF Holding
  <2>4. QED
    BY <2>2, <2>3
<1>5. ASSUME NEW at \in Places, at # "queued", Goes(d, at)
      PROVE  BackingKept
  BY <1>3, <1>4, <1>5, StepBacks DEF BackingKept
<1>6. ASSUME Goes(d, "queued"), o \in Holding(d[1])'
      PROVE  BackingKept
  <2> SUFFICES ASSUME NEW p \in Live, NEW a \in Actions, Backed(p, a), row'[a].owner = p
               PROVE  Backed(p, a)'
    BY DEF BackingKept
  <2>1. CASE p = o /\ a = d[1]
    BY <1>6, <2>1 DEF Backed
  <2>2. CASE ~(p = o /\ a = d[1])
    <3>1. \A c \in Dispatches : c[1] = a /\ job[c].owner = p => job'[c] = job[c]
      BY <1>6, <2>2 DEF Goes
    <3>2. QED
      BY <1>3, <1>4, <3>1 DEF Backed
  <2>3. QED
    BY <2>1, <2>2
<1>7. ASSUME Ends(d), \/ o \in Holding(d[1])'
                      \/ row'[d[1]].owner # o
                      \/ job[d].at = "queued"
      PROVE  BackingKept
  <2> SUFFICES ASSUME NEW p \in Live, NEW a \in Actions, Backed(p, a), row'[a].owner = p
               PROVE  Backed(p, a)'
    BY DEF BackingKept
  <2>1. CASE p = o /\ a = d[1] /\ o \in Holding(d[1])'
    BY <2>1 DEF Backed
  <2>2. CASE p = o /\ a = d[1] /\ job[d].at = "queued"
    <3>1. \A c \in Dispatches : job[c].at # "queued" => job'[c] = job[c]
      BY <1>7, <2>2 DEF Ends
    <3>2. QED
      BY <1>3, <1>4, <3>1 DEF Backed
  <2>3. CASE ~(p = o /\ a = d[1])
    <3>1. \A c \in Dispatches : c[1] = a /\ job[c].owner = p => job'[c] = job[c]
      BY <1>7, <2>3 DEF Ends
    <3>2. QED
      BY <1>3, <1>4, <3>1 DEF Backed
  <2>4. QED
    BY <1>7, <2>1, <2>2, <2>3
<1>8. UNCHANGED row => OwnersKept
  BY DEF OwnersKept
<1>9. ASSUME OwnersKept, BackingKept
      PROVE  ClaimBacked'
  BY <1>2, <1>9, KeptIsBacked
<1>10. CASE SubmitFails(d) \/ LockRefuses(d) \/ StartDirect(d) \/ SubmitHeld(d)
            \/ ReleaseHold(d) \/ ReleaseStarts(d) \/ ReleaseBusy(d)
  <2>1. UNCHANGED row /\ \E at \in Places : at # "queued" /\ Goes(d, at)
    BY <1>10 DEF SubmitFails, LockRefuses, StartDirect, SubmitHeld, ReleaseHold, ReleaseStarts,
                 ReleaseBusy, Places
  <2>2. QED
    BY <1>5, <1>8, <1>9, <2>1
<1>11. CASE \E place \in {"waiting", "held"} : Enqueue(d, place)
  <2>1. PICK place \in {"waiting", "held"} : Enqueue(d, place)
    BY <1>11
  <2>2. o \in Holding(d[1])'
    BY <1>2, <2>1 DEF Enqueue, Holding, Typed, QueueTyped
  <2>3. UNCHANGED row /\ (Goes(d, "queued") \/ Goes(d, "held"))
    BY <2>1 DEF Enqueue
  <2>4. QED
    BY <1>5, <1>6, <1>8, <1>9, <2>2, <2>3 DEF Places
<1>12. CASE FindPlaced(d)
  <2>1. UNCHANGED <<row, queue>>
    BY <1>12 DEF FindPlaced
  <2>2. CASE fifo[o][d[1]] = "waiting"
    <3>1. Goes(d, "queued") /\ o \in Holding(d[1])'
      BY <1>2, <1>12, <2>1, <2>2 DEF FindPlaced, Holding
    <3>2. QED
      BY <1>6, <1>8, <1>9, <2>1, <3>1
  <2>3. CASE fifo[o][d[1]] # "waiting"
    <3>1. Goes(d, "held")
      BY <1>12, <2>3 DEF FindPlaced
    <3>2. QED
      BY <1>5, <1>8, <1>9, <2>1, <3>1 DEF Places
  <2>4. QED
    BY <2>2, <2>3
<1>13. CASE MarkEntered(d)
  <2>1. OwnersKept
    BY <1>2, <1>13, MarkKeepsOwners DEF MarkEntered, Kinds
  <2>2. Goes(d, "release")
    BY <1>13 DEF MarkEntered
  <2>3. QED
    BY <1>5, <1>9, <2>1, <2>2 DEF Places
<1>14. CASE ReleaseNot(d)
  <2>1. UNCHANGED <<row, queue>>
    BY <1>14 DEF ReleaseNot
  <2>2. Goes(d, "held") \/ (Ends(d) /\ fifo[o][d[1]] = "waiting")
    BY <1>14 DEF ReleaseNot
  <2>3. fifo[o][d[1]] = "waiting" => o \in Holding(d[1])'
    BY <1>2, <2>1 DEF Holding
  <2>4. QED
    BY <1>5, <1>7, <1>8, <1>9, <2>1, <2>2, <2>3 DEF Places
<1>15. CASE Answer(d)
  <2>1. OwnersKept
    BY <1>2, <1>15, MarkKeepsOwners DEF Answer, Kinds
  <2>2. job[d].at = "queued" \/ row'[d[1]].owner # o
    BY <1>2, <1>15, MarkKeepsOwners DEF Answer, Kinds, Live, ScheduleAssumption
  <2>3. BackingKept
    BY <1>7, <1>15, <2>2 DEF Answer
  <2>4. QED
    BY <1>9, <2>1, <2>3
<1>16. QED
  BY <1>10, <1>11, <1>12, <1>13, <1>14, <1>15 DEF Dispatch

LEMMA QueueBacks ==
  ASSUME ScheduleAssumption, Typed, ClaimBacked, NEW o \in Schedulers, NEW b \in Actions, Queue(o, b)
  PROVE  ClaimBacked'
<1>1. UNCHANGED <<row, life>> /\ Live' = Live
  BY DEF Queue, HoldWaiting, ReleaseOther, CancelEntry, DropEntry, Drain, Accept, RejectDirect,
         RejectEntry, Live
<1>2. events \subseteq events'
  BY DEF Queue, HoldWaiting, ReleaseOther, CancelEntry, DropEntry, Drain, Accept, RejectDirect,
         RejectEntry, Emit
<1>3. \A c \in Dispatches : /\ job'[c].owner = job[c].owner
                            /\ job[c].at # "queued" => job'[c].at # "queued"
  <2>1. job' = job \/ \E at \in {"started", "failed", "held"} : Answered(o, b, at)
    BY DEF Queue, HoldWaiting, ReleaseOther, CancelEntry, DropEntry, Drain, Accept, RejectDirect,
           RejectEntry
  <2>2. QED
    BY <2>1 DEF Answered, Typed, JobsTyped, Jobs
<1>4. \A p \in Schedulers, a \in Actions : ~(p = o /\ a = b) =>
        fifo'[p][a] = fifo[p][a] /\ (<<p, a>> \in starting => <<p, a>> \in starting')
  BY DEF Queue, HoldWaiting, ReleaseOther, CancelEntry, DropEntry, Drain, Accept, RejectDirect,
         RejectEntry, Typed, QueueTyped
<1>5. \/ o \in Holding(b)'
      \/ \E e \in events' : e.from = o /\ e.of = b /\ e.kind # "queued"
  <2>1. CASE HoldWaiting(o, b) \/ ReleaseOther(o, b)
    BY <2>1 DEF HoldWaiting, ReleaseOther, Holding, Typed, QueueTyped
  <2>2. CASE CancelEntry(o, b) \/ Accept(o, b) \/ RejectDirect(o, b) \/ RejectEntry(o, b)
    <3>1. PICK kind \in {"cancelled", "started", "failed", "held"} : Emit(o, b, kind)
      BY <2>2 DEF CancelEntry, DropEntry, Accept, RejectDirect, RejectEntry
    <3>2. [from |-> o, of |-> b, kind |-> kind] \in events'
      BY <3>1 DEF Emit
    <3>3. QED
      BY <3>2
  <2>3. CASE Drain(o, b)
    BY <2>3 DEF Drain, Holding
  <2>4. QED
    BY <2>1, <2>2, <2>3 DEF Queue
<1>6. BackingKept
  <2> SUFFICES ASSUME NEW p \in Live, NEW a \in Actions, Backed(p, a)
               PROVE  Backed(p, a)'
    BY DEF BackingKept
  <2>1. CASE p = o /\ a = b
    BY <1>5, <2>1 DEF Backed
  <2>2. CASE ~(p = o /\ a = b)
    <3>1. p \in Holding(a) => p \in Holding(a)'
      BY <1>4, <2>2 DEF Holding
    <3>2. QED
      BY <1>2, <1>3, <3>1 DEF Backed
  <2>3. QED
    BY <2>1, <2>2
<1>7. QED
  BY <1>1, <1>6, KeptIsBacked DEF OwnersKept

LEMMA DeliverBacks ==
  ASSUME ScheduleAssumption, Typed, ClaimBacked, NEW e \in Events, Deliver(e)
  PROVE  ClaimBacked'
<1>1. e.of \in Actions /\ e.kind \in Kinds /\ row' = [row EXCEPT ![e.of] = Marked(@, e.kind)]
  BY DEF Deliver, Events
<1>2. OwnersKept /\ (e.kind # "queued" => row'[e.of].owner = Nobody)
  BY <1>1, MarkKeepsOwners
<1>3. events' = events \ {e} /\ UNCHANGED <<life, fifo, starting, job>> /\ Live' = Live
  BY DEF Deliver, Live
<1>4. BackingKept
  <2> SUFFICES ASSUME NEW p \in Live, NEW a \in Actions, Backed(p, a), row'[a].owner = p
               PROVE  Backed(p, a)'
    BY DEF BackingKept
  <2>1. e.kind = "queued" \/ e.of # a
    BY <1>2 DEF Live, ScheduleAssumption
  <2>2. QED
    BY <1>3, <2>1 DEF Backed, Holding
<1>5. QED
  BY <1>2, <1>3, <1>4, KeptIsBacked

LEMMA NextBacks ==
  ASSUME ScheduleAssumption, Typed, ClaimBacked, [Next]_vars
  PROVE  ClaimBacked'
<1>1. CASE UNCHANGED vars
  BY <1>1 DEF vars, ClaimBacked, Backed, Holding, Live
<1>2. QED
  BY <1>1, ProcessBacks, TimeBacks, PersonBacks, DispatchBacks, QueueBacks, DeliverBacks DEF Next

(* As long as its scheduler lives, and so renews the claim, a claimed      *)
(* message is acted on by a dispatch, is in the queue or being started, or *)
(* the event that ends its claim is on its way (renewClaims, dispatch,     *)
(* handleRegistryEvent).                                                   *)
THEOREM ClaimsAreBacked == Spec => []ClaimBacked
<1>1. Init => Typed /\ ClaimBacked
  BY InitTypes, ScheduleAssumption DEF Init, ClaimBacked, Live
<1>2. Typed /\ ClaimBacked /\ [Next]_vars => (Typed /\ ClaimBacked)'
  BY NextTypes, NextBacks, ScheduleAssumption
<1>3. QED
  BY <1>1, <1>2, PTL DEF Spec

-----------------------------------------------------------------------------
(* Messages that were never held.  Such a message has one dispatch and one *)
(* place at a time, with the scheduler that claims it; before its claim    *)
(* and after its end there is nothing of it left that could start it.      *)
Traced(o, a) ==
  \/ fifo[o][a] # "none" \/ <<o, a>> \in starting
  \/ \E e \in events : e.from = o /\ e.of = a
  \/ \E d \in Dispatches : d[1] = a /\ job[d].owner = o

Out(a) == \A o \in Schedulers : fifo[o][a] = "none" /\ <<o, a>> \notin starting
Past(a) == Out(a) /\ \A d \in Dispatches : d[1] = a => job[d].at \notin {"submit", "refused"}
Final == {"started", "failed", "cancelled"}

AtClaimant(a) ==
  \A o \in Schedulers : Traced(o, a) =>
    /\ row[a].status \notin {"none", "scheduled"}
    /\ row[a].status \in Claimed => o = row[a].owner
OneDispatch(a) ==
  \A c, d \in Dispatches :
    c[1] = a /\ d[1] = a /\ job[c].at # "idle" /\ job[d].at # "idle" => c = d
InPlace(a) ==
  \A d \in Dispatches : d[1] = a =>
    /\ job[d].at \notin {"hold", "entered", "release", "releasing", "starting"}
    /\ job[d].at \in {"submit", "refused"} => Out(a) /\ \A e \in events : e.of # a
    /\ job[d].at = "direct" => <<job[d].owner, a>> \in starting
    /\ job[d].at \in {"started", "failed"} => Out(a)
StartsOut(a) == \A o \in Schedulers : <<o, a>> \in starting => fifo[o][a] = "none"
PastEnd(a) == row[a].status \in Ended \union {"gone"} => Past(a)
PastNews(a) == \A e \in events : e.of = a /\ e.kind \in Final => Past(a)
PastSend(a) ==
  sent[a] > 0 /\ a \notin torn =>
    Past(a) /\ sent[a] = 1 /\ row[a].status \notin {"none", "scheduled"}
TornQueued(a) ==
  row[a].status = "queued" /\ row[a].owner \notin Live /\ sent[a] > 0 => a \in torn

Single(a) ==
  /\ AtClaimant(a) /\ OneDispatch(a) /\ InPlace(a) /\ StartsOut(a)
  /\ PastEnd(a) /\ PastNews(a) /\ PastSend(a) /\ TornQueued(a)
Timely(a) == row[a].manual \/ Single(a)
AllTimely == \A a \in Actions : Timely(a)

(* A step that leaves an action alone.                                     *)
Unmoved(a) ==
  /\ row'[a] = row[a] /\ sent'[a] = sent[a] /\ (a \in torn' <=> a \in torn)
  /\ \A o \in Schedulers : fifo'[o][a] = fifo[o][a] /\ (<<o, a>> \in starting' <=> <<o, a>> \in starting)
  /\ \A e : e.of = a => (e \in events' <=> e \in events)
  /\ \A d \in Dispatches : d[1] = a => job'[d] = job[d]
  /\ Live \subseteq Live'

LEMMA UnmovedStays ==
  ASSUME Typed, NEW a \in Actions, Unmoved(a), Timely(a)
  PROVE  Timely(a)'
<1>1. CASE row[a].manual
  BY <1>1 DEF Unmoved, Timely
<1>2. CASE Single(a)
  <2>1. Out(a)' <=> Out(a)
    BY DEF Unmoved, Out
  <2>2. Past(a)' <=> Past(a)
    BY <2>1 DEF Unmoved, Past
  <2>3. AtClaimant(a)'
    BY <1>2 DEF Single, Unmoved, AtClaimant, Traced
  <2>4. OneDispatch(a)' /\ StartsOut(a)'
    BY <1>2 DEF Single, Unmoved, OneDispatch, StartsOut
  <2>5. InPlace(a)'
    <3>1. \A d \in Dispatches : job[d].at = "direct" => job[d].owner \in Schedulers
      BY JobOwner DEF Typed
    <3>2. QED
      BY <1>2, <2>1, <3>1 DEF Single, Unmoved, InPlace
  <2>6. PastEnd(a)' /\ PastNews(a)' /\ PastSend(a)' /\ TornQueued(a)'
    BY <1>2, <2>2 DEF Single, Unmoved, PastEnd, PastNews, PastSend, TornQueued
  <2>7. QED
    BY <2>3, <2>4, <2>5, <2>6 DEF Single, Timely
<1>3. QED
  BY <1>1, <1>2 DEF Timely

(* What starts, waits or may yet be submitted is claimed by its process,   *)
(* has not been sent, and no news of its end is on the way.                *)
LEMMA StillToCome ==
  ASSUME Typed, NEW a \in Actions, ~row[a].manual, Single(a), ~Past(a)
  PROVE  /\ row[a].status \in Claimed
         /\ \A o \in Schedulers : Traced(o, a) => o = row[a].owner
         /\ \A e \in events : e.of = a => e.kind \notin Final
         /\ a \in torn \/ sent[a] = 0
<1>1. \E o \in Schedulers : Traced(o, a)
  <2>1. CASE ~Out(a)
    BY <2>1 DEF Out, Traced
  <2>2. CASE \E d \in Dispatches : d[1] = a /\ job[d].at \in {"submit", "refused"}
    BY <2>2, JobOwner DEF Traced, Typed
  <2>3. QED
    BY <2>1, <2>2 DEF Past
<1>2. row[a].status \notin {"none", "scheduled", "held"} \union Ended \union {"gone"}
  BY <1>1 DEF Single, AtClaimant, PastEnd, Typed, RowsTyped, RowTyped
<1>3. row[a].status \in Claimed
  BY <1>2 DEF Typed, RowsTyped, Rows, Statuses, Ended, Claimed
<1>4. QED
  BY <1>3 DEF Single, AtClaimant, PastNews, PastSend, Typed, PastTyped

LEMMA NowhereElse ==
  ASSUME Typed, NEW a \in Actions, ~row[a].manual, Single(a), ~Past(a), NEW o \in Live, Traced(o, a)
  PROVE  /\ row[a].owner = o /\ row[a].status \in Claimed
         /\ \A p \in Schedulers : p # o => fifo[p][a] = "none" /\ <<p, a>> \notin starting
         /\ \A e \in events : e.of = a => e.kind \notin Final /\ e.from = o
         /\ \A c \in Dispatches : c[1] = a /\ job[c].at # "idle" => job[c].owner = o
         /\ a \in torn \/ sent[a] = 0
<1>1. o \in Schedulers
  BY DEF Live
<1>2. row[a].owner = o /\ \A p \in Schedulers : p # o => ~Traced(p, a)
  BY <1>1, StillToCome
<1>3. \A e \in events : e.from \in Schedulers
  BY DEF Typed, QueueTyped, Events
<1>4. \A c \in Dispatches : job[c].at # "idle" => job[c].owner \in Schedulers
  BY JobOwner DEF Typed
<1>5. QED
  BY <1>2, <1>3, <1>4, StillToCome DEF Traced

(* What leaves the queue unstarted, or starts, is over.                    *)
LEMMA NoEarly ==
  ASSUME Typed, NEW a \in Actions, Single(a), ~Out(a)
  PROVE  \A d \in Dispatches : d[1] = a =>
           job[d].at \in {"idle", "direct", "placed", "queued", "held"}
BY DEF Single, InPlace, Typed, JobsTyped, Jobs, Places

LEMMA GoesAt ==
  ASSUME Typed, NEW d \in Dispatches, NEW at, Goes(d, at)
  PROVE  \A c \in Dispatches : /\ job'[c].owner = job[c].owner
                               /\ job'[c].at = IF c = d THEN at ELSE job[c].at
BY DEF Goes, Typed, JobsTyped, Jobs

(* The queue's own steps.                                                  *)
LEMMA QueueTimely ==
  ASSUME ScheduleAssumption, Typed, AllTimely, NEW o \in Schedulers, NEW a \in Actions, Queue(o, a)
  PROVE  AllTimely'
<1>1. UNCHANGED <<row, life, torn>> /\ Live' = Live
  BY DEF Queue, HoldWaiting, ReleaseOther, CancelEntry, DropEntry, Drain, Accept, RejectDirect,
         RejectEntry, Live
<1>2. ASSUME NEW b \in Actions, b # a
      PROVE  Timely(b)'
  <2>1. \A p \in Schedulers : /\ fifo'[p][b] = fifo[p][b]
                              /\ <<p, b>> \in starting' <=> <<p, b>> \in starting
    BY <1>2 DEF Queue, HoldWaiting, ReleaseOther, CancelEntry, DropEntry, Drain, Accept,
                RejectDirect, RejectEntry, Typed, QueueTyped
  <2>2. \A e : e.of = b => (e \in events' <=> e \in events)
    <3>1. events' = events \/ \E kind \in Kinds : events' = events \union {[from |-> o, of |-> a, kind |-> kind]}
      BY DEF Queue, HoldWaiting, ReleaseOther, CancelEntry, DropEntry, Drain, Accept,
             RejectDirect, RejectEntry, Emit, Kinds
    <3>2. QED
      BY <1>2, <3>1
  <2>3. \A d \in Dispatches : d[1] = b => job'[d] = job[d]
    BY <1>2 DEF Queue, HoldWaiting, ReleaseOther, CancelEntry, DropEntry, Drain, Accept,
                RejectDirect, RejectEntry, Answered, Asking
  <2>4. sent'[b] = sent[b]
    BY <1>2 DEF Queue, HoldWaiting, ReleaseOther, CancelEntry, DropEntry, Drain, Accept,
                RejectDirect, RejectEntry, Typed, PastTyped
  <2>5. QED
    BY <1>1, <2>1, <2>2, <2>3, <2>4, UnmovedStays DEF Unmoved, AllTimely
<1>3. ASSUME ~row[a].manual
      PROVE  Timely(a)'
  <2>1. Single(a)
    BY <1>3 DEF AllTimely, Timely
  <2>2. o \in Live /\ Traced(o, a) /\ ~Out(a)
    BY DEF Queue, HoldWaiting, ReleaseOther, CancelEntry, DropEntry, Drain, Accept,
           RejectDirect, RejectEntry, Typed, QueueTyped, Live, Traced, Out
  <2>3. /\ row[a].owner = o /\ row[a].status \in Claimed
        /\ \A p \in Schedulers : p # o => fifo[p][a] = "none" /\ <<p, a>> \notin starting
        /\ \A e \in events : e.of = a => e.kind \notin Final /\ e.from = o
        /\ \A c \in Dispatches : c[1] = a /\ job[c].at # "idle" => job[c].owner = o
        /\ a \in torn \/ sent[a] = 0
    BY <1>3, <2>1, <2>2, NowhereElse DEF Past
  <2>4. \A d \in Dispatches : d[1] = a => job[d].at \in {"idle", "direct", "placed", "queued", "held"}
    BY <2>1, <2>2, NoEarly
  <2>5. fifo' \in [Schedulers -> [Actions -> {"none", "waiting", "held"}]]
    BY QueueTypes DEF Typed, QueueTyped
  <2>6. \A c \in Dispatches : /\ job'[c].owner = job[c].owner
                              /\ job[c].at = "idle" <=> job'[c].at = "idle"
    <3>1. job' = job \/ \E at \in {"started", "failed", "held"} : Answered(o, a, at)
      BY DEF Queue, HoldWaiting, ReleaseOther, CancelEntry, DropEntry, Drain, Accept, RejectDirect,
             RejectEntry
    <3>2. QED
      BY <3>1 DEF Answered, Asking, Typed, JobsTyped, Jobs
  <2>7. OneDispatch(a)'
    BY <2>1, <2>6 DEF Single, OneDispatch
  <2>8. TornQueued(a)'
    BY <1>1, <2>2, <2>3 DEF TornQueued
  <2>9. AtClaimant(a)'
    <3>1. \A p \in Schedulers : Traced(p, a)' => p = o
      <4>1. \A e \in events' : e.of = a => e.from = o
        BY <2>3 DEF Queue, HoldWaiting, ReleaseOther, CancelEntry, DropEntry, Drain, Accept,
                    RejectDirect, RejectEntry, Emit
      <4>2. \A p \in Schedulers : p # o => fifo'[p][a] = "none" /\ <<p, a>> \notin starting'
        BY <2>3 DEF Queue, HoldWaiting, ReleaseOther, CancelEntry, DropEntry, Drain, Accept,
                    RejectDirect, RejectEntry, Typed, QueueTyped
      <4>3. \A p \in Schedulers, d \in Dispatches : d[1] = a /\ job'[d].owner = p => p = o
        BY <2>3, <2>6 DEF Typed, JobsTyped, ScheduleAssumption
      <4>4. QED
        BY <4>1, <4>2, <4>3 DEF Traced
    <3>2. QED
      BY <1>1, <2>3, <3>1 DEF AtClaimant, Claimed
  (* The message is still in the queue, or being started from it.          *)
  <2>10. CASE HoldWaiting(o, a) \/ ReleaseOther(o, a) \/ Drain(o, a) \/ RejectEntry(o, a)
    <3>1. \A e \in events' : e.of = a => e.kind \notin Final
      BY <2>3, <2>10 DEF HoldWaiting, ReleaseOther, Drain, RejectEntry, Emit, Final
    <3>2. job' = job
      <4>1. CASE RejectEntry(o, a)
        <5>1. Asking(o, a) = {}
          BY <2>4, <4>1 DEF RejectEntry, Direct, Asking
        <5>2. QED
          BY <4>1, <5>1 DEF RejectEntry, Answered, Typed, JobsTyped
      <4>2. QED
        BY <2>10, <4>1 DEF HoldWaiting, ReleaseOther, Drain
    <3>3. StartsOut(a)'
      BY <2>1, <2>10 DEF Single, StartsOut, HoldWaiting, ReleaseOther, Drain, RejectEntry, Typed, QueueTyped
    <3>4. \A d \in Dispatches : d[1] = a /\ job[d].at = "direct" => <<job[d].owner, a>> \in starting'
      BY <2>1, <2>10 DEF Single, InPlace, HoldWaiting, ReleaseOther, Drain, RejectEntry, Direct, Asking
    <3>5. InPlace(a)'
      BY <2>4, <3>2, <3>4 DEF InPlace
    <3>6. sent' = sent
      BY <2>10 DEF HoldWaiting, ReleaseOther, Drain, RejectEntry
    <3>7. PastEnd(a)' /\ PastNews(a)' /\ PastSend(a)'
      BY <1>1, <2>3, <3>1, <3>6 DEF PastEnd, PastNews, PastSend, Claimed, Ended
    <3>8. QED
      BY <2>7, <2>8, <2>9, <3>3, <3>5, <3>7 DEF Single, Timely
  (* It has left the queue.                                                *)
  <2>11. CASE CancelEntry(o, a) \/ Accept(o, a) \/ RejectDirect(o, a)
    <3>1. Out(a)'
      <4>1. \A p \in Schedulers : p # o => fifo'[p][a] = "none" /\ <<p, a>> \notin starting'
        BY <2>3, <2>11 DEF CancelEntry, DropEntry, Accept, RejectDirect, Typed, QueueTyped
      <4>2. fifo'[o][a] = "none" /\ <<o, a>> \notin starting'
        BY <2>1, <2>11 DEF Single, StartsOut, CancelEntry, DropEntry, Accept, RejectDirect, Typed, QueueTyped
      <4>3. QED
        BY <4>1, <4>2 DEF Out
    <3>2. \A d \in Dispatches : d[1] = a => job'[d].at \in {"idle", "placed", "queued", "held", "started", "failed"}
      <4>1. CASE CancelEntry(o, a)
        <5>1. \A d \in Dispatches : d[1] = a => job[d].at # "direct"
          BY <2>1, <2>3, <4>1 DEF Single, InPlace, StartsOut, CancelEntry, DropEntry
        <5>2. QED
          BY <2>4, <4>1, <5>1 DEF CancelEntry
      <4>2. CASE Accept(o, a) \/ RejectDirect(o, a)
        <5>1. Answered(o, a, "started") \/ Answered(o, a, "failed")
          BY <4>2 DEF Accept, RejectDirect
        <5>2. \A d \in Dispatches : d[1] = a /\ job[d].at = "direct" => d \in Asking(o, a)
          BY <2>3 DEF Asking
        <5>3. QED
          BY <2>4, <5>1, <5>2 DEF Answered, Typed, JobsTyped, Jobs
      <4>3. QED
        BY <2>11, <4>1, <4>2
    <3>3. InPlace(a)' /\ StartsOut(a)' /\ Past(a)'
      BY <3>1, <3>2 DEF InPlace, StartsOut, Past, Out
    <3>4. sent'[a] \in {sent[a], sent[a] + 1}
      BY <2>11 DEF CancelEntry, Accept, RejectDirect, Typed, PastTyped
    <3>5. PastEnd(a)' /\ PastNews(a)' /\ PastSend(a)'
      BY <1>1, <2>3, <3>3, <3>4 DEF PastEnd, PastNews, PastSend, Claimed, Typed, PastTyped
    <3>6. QED
      BY <2>7, <2>8, <2>9, <3>3, <3>5 DEF Single, Timely
  <2>12. QED
    BY <2>10, <2>11 DEF Queue
<1>4. QED
  BY <1>1, <1>2, <1>3 DEF AllTimely, Timely

(* Dispatches.                                                             *)
LEMMA DispatchElsewhere ==
  ASSUME ScheduleAssumption, Typed, AllTimely, NEW d \in Dispatches, Dispatch(d),
         NEW b \in Actions, b # d[1]
  PROVE  Timely(b)'
<1>1. UNCHANGED <<life, history>> /\ Live' = Live
  BY DEF Dispatch, SubmitFails, LockRefuses, Enqueue, StartDirect, SubmitHeld, FindPlaced,
         MarkEntered, ReleaseNot, ReleaseHold, ReleaseStarts, ReleaseBusy, Answer, Live
<1>2. row'[b] = row[b]
  BY DEF Dispatch, SubmitFails, LockRefuses, Enqueue, StartDirect, SubmitHeld, FindPlaced,
         MarkEntered, ReleaseNot, ReleaseHold, ReleaseStarts, ReleaseBusy, Answer, Typed, RowsTyped
<1>3. \A p \in Schedulers : /\ fifo'[p][b] = fifo[p][b]
                            /\ <<p, b>> \in starting' <=> <<p, b>> \in starting
  BY DEF Dispatch, SubmitFails, LockRefuses, Enqueue, StartDirect, SubmitHeld, FindPlaced,
         MarkEntered, ReleaseNot, ReleaseHold, ReleaseStarts, ReleaseBusy, Answer, Typed, QueueTyped
<1>4. \A e : e.of = b => (e \in events' <=> e \in events)
  <2>1. events' = events \/ Emit(job[d].owner, d[1], "queued")
    BY DEF Dispatch, SubmitFails, LockRefuses, Enqueue, StartDirect, SubmitHeld, FindPlaced,
           MarkEntered, ReleaseNot, ReleaseHold, ReleaseStarts, ReleaseBusy, Answer
  <2>2. QED
    BY <2>1 DEF Emit
<1>5. \A c \in Dispatches : c[1] = b => job'[c] = job[c]
  <2>1. Ends(d) \/ \E at \in Places : Goes(d, at)
    BY DEF Dispatch, SubmitFails, LockRefuses, Enqueue, StartDirect, SubmitHeld, FindPlaced,
           MarkEntered, ReleaseNot, ReleaseHold, ReleaseStarts, ReleaseBusy, Answer, Places
  <2>2. QED
    BY <2>1 DEF Goes, Ends, Typed, JobsTyped
<1>6. QED
  BY <1>1, <1>2, <1>3, <1>4, <1>5, UnmovedStays DEF Unmoved, AllTimely

(* A dispatch that submits the message finds nothing else of it.           *)
LEMMA SubmitTimely ==
  ASSUME ScheduleAssumption, Typed, NEW d \in Dispatches, ~row[d[1]].manual, Single(d[1]),
         job[d].at \in {"submit", "refused"},
         SubmitFails(d) \/ LockRefuses(d) \/ Enqueue(d, "waiting") \/ Enqueue(d, "held")
           \/ StartDirect(d) \/ SubmitHeld(d)
  PROVE  Single(d[1])'
<1> DEFINE o == job[d].owner
           a == d[1]
<1>1. o \in Live /\ o \in Schedulers /\ a \in Actions
  BY JobOwner DEF Typed
<1>2. UNCHANGED <<row, life, history>> /\ Live' = Live
  BY DEF SubmitFails, LockRefuses, Enqueue, StartDirect, SubmitHeld, Live
<1>3. Traced(o, a) /\ ~Past(a)
  BY DEF Traced, Past
<1>4. /\ row[a].owner = o /\ row[a].status \in Claimed /\ (a \in torn \/ sent[a] = 0)
      /\ \A c \in Dispatches : c[1] = a /\ job[c].at # "idle" => job[c].owner = o
  BY <1>1, <1>3, NowhereElse
<1>5. Out(a) /\ \A e \in events : e.of # a
  BY DEF Single, InPlace
<1>6. PICK at \in {"failed", "refused", "queued", "held", "direct", "placed"} : Goes(d, at)
  BY DEF SubmitFails, LockRefuses, Enqueue, StartDirect, SubmitHeld
<1>7. \A c \in Dispatches : /\ job'[c].owner = job[c].owner
                            /\ job'[c].at = IF c = d THEN at ELSE job[c].at
  BY <1>6, GoesAt
<1>8. \A c \in Dispatches : c[1] = a /\ c # d => job[c].at = "idle"
  BY DEF Single, OneDispatch
<1>9. OneDispatch(a)'
  BY <1>7, <1>8 DEF OneDispatch
<1>10. \A e \in events' : e.of = a => e.from = o /\ e.kind = "queued"
  BY <1>5 DEF SubmitFails, LockRefuses, Enqueue, StartDirect, SubmitHeld, Emit
<1>11. \A p \in Schedulers : p # o => fifo'[p][a] = "none" /\ <<p, a>> \notin starting'
  BY <1>5 DEF Out, SubmitFails, LockRefuses, Enqueue, StartDirect, SubmitHeld, Typed, QueueTyped
<1>12. AtClaimant(a)'
  <2>1. \A p \in Schedulers, c \in Dispatches : c[1] = a /\ job'[c].owner = p => p = o
    BY <1>4, <1>7 DEF Typed, JobsTyped, ScheduleAssumption
  <2>2. \A p \in Schedulers : Traced(p, a)' => p = o
    BY <1>10, <1>11, <2>1 DEF Traced
  <2>3. QED
    BY <1>2, <1>4, <2>2 DEF AtClaimant, Claimed
<1>13. TornQueued(a)'
  BY <1>1, <1>2, <1>4 DEF TornQueued
<1>14. PastEnd(a)' /\ PastNews(a)' /\ PastSend(a)'
  BY <1>2, <1>4, <1>10 DEF PastEnd, PastNews, PastSend, Final, Claimed, Ended
<1>15. StartsOut(a)'
  BY <1>5 DEF Out, StartsOut, SubmitFails, LockRefuses, Enqueue, StartDirect, SubmitHeld
<1>16. InPlace(a)'
  <2> SUFFICES ASSUME NEW c \in Dispatches, c[1] = a
               PROVE  /\ job'[c].at \notin {"hold", "entered", "release", "releasing", "starting"}
                      /\ job'[c].at \in {"submit", "refused"} => Out(a)' /\ \A e \in events' : e.of # a
                      /\ job'[c].at = "direct" => <<job'[c].owner, a>> \in starting'
                      /\ job'[c].at \in {"started", "failed"} => Out(a)'
    BY DEF InPlace
  <2>1. CASE c # d
    BY <1>7, <1>8, <2>1
  <2>2. CASE c = d
    <3>1. job'[c].at = at /\ job'[c].owner = o
      BY <1>7, <2>2
    <3>2. at = "direct" => <<o, a>> \in starting'
      BY <1>6, <1>1 DEF SubmitFails, LockRefuses, Enqueue, StartDirect, SubmitHeld, Goes, Typed, JobsTyped, Jobs
    <3>3. at \in {"refused", "failed"} => UNCHANGED queue
      BY <3>1, <1>7 DEF SubmitFails, LockRefuses, Enqueue, StartDirect, SubmitHeld, Goes, Typed, JobsTyped, Jobs
    <3>4. at \in {"refused", "failed"} => Out(a)' /\ \A e \in events' : e.of # a
      BY <1>5, <3>3 DEF Out
    <3>5. QED
      BY <3>1, <3>2, <3>4
  <2>3. QED
    BY <2>1, <2>2
<1>17. QED
  BY <1>9, <1>12, <1>13, <1>14, <1>15, <1>16 DEF Single

LEMMA DispatchTimely ==
  ASSUME ScheduleAssumption, Typed, AllTimely, NEW d \in Dispatches, Dispatch(d)
  PROVE  AllTimely'
<1> DEFINE o == job[d].owner
           a == d[1]
<1>1. UNCHANGED <<life, history>> /\ Live' = Live /\ job[d].at # "idle"
  BY DEF Dispatch, SubmitFails, LockRefuses, Enqueue, StartDirect, SubmitHeld, FindPlaced,
         MarkEntered, ReleaseNot, ReleaseHold, ReleaseStarts, ReleaseBusy, Answer, Live
<1>2. o \in Live /\ o \in Schedulers /\ a \in Actions
  BY <1>1, JobOwner DEF Typed
<1>3. row[a].manual => row'[a].manual
  <2>1. RowTyped(row[a])
    BY <1>2 DEF Typed, RowsTyped
  <2>2. \A kind \in Kinds : row[a].manual => Marked(row[a], kind).manual
    BY <2>1, MarkedTyped
  <2>3. \A kind \in Kinds : row[a].manual => MarkedFor(o, row[a], kind).manual
    BY <2>2 DEF MarkedFor
  <2>4. row' = row \/ \E kind \in Kinds : row' = [row EXCEPT ![a] = MarkedFor(o, @, kind)]
    BY DEF Dispatch, SubmitFails, LockRefuses, Enqueue, StartDirect, SubmitHeld, FindPlaced,
           MarkEntered, ReleaseNot, ReleaseHold, ReleaseStarts, ReleaseBusy, Answer, Kinds
  <2>5. QED
    BY <1>2, <2>3, <2>4 DEF Typed, RowsTyped
<1>4. ASSUME ~row[a].manual
      PROVE  Timely(a)'
  <2>1. Single(a)
    BY <1>2, <1>4 DEF AllTimely, Timely
  <2>2. job[d].at \notin {"hold", "entered", "release", "releasing", "starting"}
    BY <2>1 DEF Single, InPlace
  <2>3. CASE job[d].at \in {"submit", "refused"}
    <3>1. SubmitFails(d) \/ LockRefuses(d) \/ Enqueue(d, "waiting") \/ Enqueue(d, "held")
            \/ StartDirect(d) \/ SubmitHeld(d)
      BY <2>3 DEF Dispatch, FindPlaced, MarkEntered, ReleaseNot, ReleaseHold, ReleaseStarts,
                  ReleaseBusy, Answer
    <3>2. QED
      BY <1>4, <2>1, <2>3, <3>1, SubmitTimely DEF Timely
  <2>4. CASE FindPlaced(d)
    <3>1. PICK at \in {"queued", "held"} : Goes(d, at)
      BY <2>4 DEF FindPlaced
    <3>2. \A c \in Dispatches : /\ job'[c].owner = job[c].owner
                                /\ job'[c].at = IF c = d THEN at ELSE job[c].at
      BY <3>1, GoesAt
    <3>3. UNCHANGED <<row, queue>> /\ job[d].at = "placed"
      BY <2>4 DEF FindPlaced
    <3>4. (Out(a)' <=> Out(a)) /\ (Past(a) => Past(a)')
      BY <3>2, <3>3 DEF Out, Past
    <3>5. AtClaimant(a)' /\ OneDispatch(a)' /\ StartsOut(a)'
      BY <2>1, <3>2, <3>3 DEF Single, AtClaimant, Traced, OneDispatch, StartsOut
    <3>6. InPlace(a)'
      BY <2>1, <3>2, <3>3, <3>4 DEF Single, InPlace
    <3>7. PastEnd(a)' /\ PastNews(a)' /\ PastSend(a)' /\ TornQueued(a)'
      BY <1>1, <2>1, <3>3, <3>4 DEF Single, PastEnd, PastNews, PastSend, TornQueued
    <3>8. QED
      BY <3>5, <3>6, <3>7 DEF Single, Timely
  <2>5. CASE Answer(d)
    <3> DEFINE kind == job[d].at
    <3>1. kind \in {"queued", "held", "started", "failed"} /\ UNCHANGED queue
          /\ row' = [row EXCEPT ![a] = MarkedFor(o, @, kind)] /\ Ends(d)
      BY <2>5 DEF Answer
    <3>2. \A c \in Dispatches : job'[c] = IF c = d THEN Idle ELSE job[c]
      BY <3>1 DEF Ends, Typed, JobsTyped
    <3>3. Idle.at = "idle" /\ Idle.owner = Nobody
      BY DEF Idle
    <3>4. (Out(a)' <=> Out(a)) /\ (Past(a) => Past(a)')
      BY <3>1, <3>2, <3>3 DEF Out, Past
    <3>5. OneDispatch(a)' /\ StartsOut(a)' /\ PastNews(a)'
      BY <2>1, <3>1, <3>2, <3>3, <3>4 DEF Single, OneDispatch, StartsOut, PastNews
    <3>6. InPlace(a)'
      BY <2>1, <3>1, <3>2, <3>3, <3>4 DEF Single, InPlace
    <3>7. \A p \in Schedulers : Traced(p, a)' => Traced(p, a)
      BY <3>1, <3>2, <3>3, ScheduleAssumption DEF Traced, ScheduleAssumption
    <3>8. CASE row'[a] = row[a]
      BY <1>1, <2>1, <3>4, <3>5, <3>6, <3>7, <3>8
         DEF Single, AtClaimant, PastEnd, PastSend, TornQueued, Timely
    <3>9. CASE row'[a] # row[a]
      <4>1. row[a].owner = o /\ row'[a] = Marked(row[a], kind) /\ row[a].status \in From(kind)
        BY <1>2, <3>1, <3>9 DEF MarkedFor, Marked, Typed, RowsTyped
      <4>2. row'[a].status = kind /\ (kind = "held" => row'[a].manual)
            /\ (kind = "queued" => row'[a].owner = o) /\ row[a].status \in Claimed
        <5>1. row'[a] = [status |-> kind,
                         owner  |-> IF kind = "queued" THEN row[a].owner ELSE Nobody,
                         manual |-> row[a].manual \/ kind = "held",
                         entry  |-> row[a].entry \/ kind \in {"queued", "held"}]
          BY <4>1 DEF Marked
        <5>2. row[a].status \in Claimed
          BY <3>1, <4>1 DEF From, Claimed
        <5>3. kind = "held" => row'[a].manual
          <6>1. RowTyped(row[a])
            BY <1>2 DEF Typed, RowsTyped
          <6>2. Marked(row[a], kind).manual = (row[a].manual \/ (row[a].status \in Claimed /\ kind = "held"))
            BY <3>1, <6>1, MarkedTyped DEF Kinds
          <6>3. QED
            BY <4>1, <5>2, <6>2
        <5>4. QED
          BY <4>1, <5>1, <5>2, <5>3
      <4>3. CASE kind = "held"
        BY <4>2, <4>3 DEF Timely
      <4>4. CASE kind = "queued"
        <5>1. AtClaimant(a)' /\ PastEnd(a)' /\ TornQueued(a)'
          BY <1>1, <1>2, <2>1, <3>7, <4>1, <4>2, <4>4
             DEF Single, AtClaimant, PastEnd, TornQueued, Claimed, Ended
        <5>2. PastSend(a)'
          BY <1>1, <2>1, <3>4, <4>2, <4>4 DEF Single, PastSend
        <5>3. QED
          BY <3>5, <3>6, <5>1, <5>2 DEF Single, Timely
      <4>5. CASE kind \in {"started", "failed"}
        <5>1. Past(a)
          <6>1. Out(a)
            BY <2>1, <4>5 DEF Single, InPlace
          <6>2. \A c \in Dispatches : c[1] = a /\ c # d => job[c].at = "idle"
            BY <1>1, <2>1 DEF Single, OneDispatch
          <6>3. QED
            BY <4>5, <6>1, <6>2 DEF Past
        <5>2. AtClaimant(a)' /\ PastEnd(a)' /\ TornQueued(a)'
          BY <2>1, <3>4, <4>2, <4>5, <5>1 DEF AtClaimant, PastEnd, TornQueued, Claimed, Ended
        <5>3. PastSend(a)'
          BY <1>1, <2>1, <3>4, <4>2, <4>5 DEF Single, PastSend
        <5>4. QED
          BY <3>5, <3>6, <5>2, <5>3 DEF Single, Timely
      <4>6. QED
        BY <3>1, <4>3, <4>4, <4>5
    <3>10. QED
      BY <3>8, <3>9
  <2>6. QED
    BY <2>2, <2>3, <2>4, <2>5 DEF Dispatch, SubmitFails, LockRefuses, Enqueue, StartDirect,
       SubmitHeld, MarkEntered, ReleaseNot, ReleaseHold, ReleaseStarts, ReleaseBusy
<1>5. QED
  BY <1>2, <1>3, <1>4, DispatchElsewhere DEF AllTimely, Timely

(* The events of the queue.                                                *)
LEMMA DeliverTimely ==
  ASSUME ScheduleAssumption, Typed, AllTimely, NEW e \in Events, Deliver(e)
  PROVE  AllTimely'
<1> DEFINE a == e.of
           kind == e.kind
<1>1. a \in Actions /\ kind \in Kinds /\ e \in events /\ e.from \in Schedulers
  BY DEF Deliver, Events
<1>2. events' = events \ {e} /\ row' = [row EXCEPT ![a] = Marked(@, kind)]
      /\ UNCHANGED <<life, fifo, starting, job, sent, torn>> /\ Live' = Live
  BY DEF Deliver, Live
<1>3. RowTyped(row[a]) /\ row'[a] = Marked(row[a], kind) /\ e.from \in Live
  BY <1>1, <1>2 DEF Typed, RowsTyped, QueueTyped
<1>4. ASSUME NEW b \in Actions, b # a
      PROVE  Timely(b)'
  <2>1. row'[b] = row[b] /\ \A f : f.of = b => (f \in events' <=> f \in events)
    BY <1>2, <1>4 DEF Typed, RowsTyped
  <2>2. QED
    BY <1>2, <2>1, UnmovedStays DEF Unmoved, AllTimely
<1>5. row'[a].manual = (row[a].manual \/ (row[a].status \in Claimed /\ kind = "held"))
  BY <1>1, <1>3, MarkedTyped
<1>6. ASSUME ~row'[a].manual
      PROVE  Single(a)'
  <2>1. Single(a)
    BY <1>1, <1>5, <1>6, <1>3 DEF AllTimely, Timely, RowTyped, Rows
  <2>2. (Out(a)' <=> Out(a)) /\ (Past(a)' <=> Past(a))
    BY <1>2 DEF Out, Past
  <2>3. OneDispatch(a)' /\ StartsOut(a)' /\ PastNews(a)' /\ InPlace(a)'
    BY <1>2, <2>1, <2>2 DEF Single, OneDispatch, StartsOut, PastNews, InPlace
  <2>4. \A p \in Schedulers : Traced(p, a)' => Traced(p, a)
    BY <1>2 DEF Traced
  <2>5. Traced(e.from, a)
    BY <1>1 DEF Traced
  <2>6. CASE row'[a] = row[a]
    BY <1>2, <2>1, <2>2, <2>3, <2>4, <2>6
       DEF Single, AtClaimant, PastEnd, PastSend, TornQueued
  <2>7. CASE row'[a] # row[a]
    <3>1. row[a].status \in From(kind) /\ row'[a].status = kind
          /\ (kind = "queued" => row'[a].owner = row[a].owner)
      BY <1>3, <2>7 DEF Marked
    <3>2. kind # "held"
      BY <1>5, <1>6, <3>1 DEF From
    <3>3. PastSend(a)'
      BY <1>2, <2>1, <2>2, <3>1, <1>1 DEF Single, PastSend, Kinds
    <3>4. CASE kind = "queued"
      <4>1. row[a].status \in Claimed /\ row[a].owner = e.from
        BY <1>1, <2>1, <2>5, <3>1, <3>4 DEF From, Claimed, Single, AtClaimant
      <4>2. AtClaimant(a)' /\ PastEnd(a)' /\ TornQueued(a)'
        BY <1>2, <1>3, <2>1, <2>4, <3>1, <3>4, <4>1
           DEF Single, AtClaimant, PastEnd, TornQueued, Claimed, Ended
      <4>3. QED
        BY <2>3, <3>3, <4>2 DEF Single
    <3>5. CASE kind \in Final
      <4>1. Past(a)
        BY <1>1, <2>1, <3>5 DEF Single, PastNews
      <4>2. AtClaimant(a)' /\ PastEnd(a)' /\ TornQueued(a)'
        BY <2>2, <3>1, <3>5, <4>1 DEF AtClaimant, PastEnd, TornQueued, Claimed, Final
      <4>3. QED
        BY <2>3, <3>3, <4>2 DEF Single
    <3>6. QED
      BY <1>1, <3>2, <3>4, <3>5 DEF Kinds, Final
  <2>8. QED
    BY <2>6, <2>7
<1>7. QED
  BY <1>1, <1>4, <1>6 DEF AllTimely, Timely

(* Time, the person and the claims.                                        *)
LEMMA TimeTimely ==
  ASSUME ScheduleAssumption, Typed, AllTimely, NEW a \in Actions, Time(a)
  PROVE  AllTimely'
<1>1. UNCHANGED <<life, queue, job, history>> /\ Live' = Live
  BY DEF Time, FallDue, Expire, Prune, Live
<1>2. \A b \in Actions : row'[b] = row[b] => Timely(b)'
  BY <1>1, UnmovedStays DEF Unmoved, AllTimely
<1>3. CASE Prune(a)
  <2>1. row'[a].status = "gone" /\ row'[a].manual = row[a].manual /\ row[a].status \in Ended
        /\ \A b \in Actions : b # a => row'[b] = row[b]
    BY <1>3 DEF Prune, Typed, RowsTyped, Rows
  <2>2. ASSUME Single(a)
        PROVE  Single(a)'
    <3>1. Past(a) /\ (Past(a)' <=> Past(a)) /\ (Out(a)' <=> Out(a))
      BY <1>1, <2>1, <2>2 DEF Single, PastEnd, Past, Out
    <3>2. OneDispatch(a)' /\ StartsOut(a)' /\ PastNews(a)' /\ InPlace(a)'
      BY <1>1, <2>2, <3>1 DEF Single, OneDispatch, StartsOut, PastNews, InPlace
    <3>3. AtClaimant(a)' /\ PastEnd(a)' /\ TornQueued(a)' /\ PastSend(a)'
      BY <1>1, <2>1, <2>2, <3>1 DEF Single, AtClaimant, PastEnd, TornQueued, PastSend, Claimed
    <3>4. QED
      BY <3>2, <3>3 DEF Single
  <2>3. QED
    BY <1>2, <2>1, <2>2 DEF AllTimely, Timely
<1>4. CASE FallDue(a) \/ Expire(a)
  BY <1>2, <1>4 DEF FallDue, Expire, AllTimely
<1>5. QED
  BY <1>3, <1>4 DEF Time

(* Of a message that is not claimed and never was held, nothing is left    *)
(* that could start it.                                                    *)
LEMMA Nothing ==
  ASSUME Typed, NEW a \in Actions, Single(a), row[a].status \in {"none", "scheduled"}
  PROVE  /\ Out(a) /\ (\A e \in events : e.of # a)
         /\ \A d \in Dispatches : d[1] = a => job[d].at = "idle"
         /\ a \in torn \/ sent[a] = 0
<1>1. \A o \in Schedulers : ~Traced(o, a)
  BY DEF Single, AtClaimant
<1>2. \A e \in events : e.from \in Schedulers
  BY DEF Typed, QueueTyped, Events
<1>3. \A d \in Dispatches : job[d].at # "idle" => job[d].owner \in Schedulers
  BY JobOwner DEF Typed
<1>4. Out(a)
  BY <1>1 DEF Traced, Out
<1>5. \A e \in events : e.of # a
  BY <1>1, <1>2 DEF Traced
<1>6. \A d \in Dispatches : d[1] = a => job[d].at = "idle"
  BY <1>1, <1>3 DEF Traced
<1>7. a \in torn \/ sent[a] = 0
  BY DEF Single, PastSend, Typed, PastTyped
<1>8. QED
  BY <1>4, <1>5, <1>6, <1>7

LEMMA ClaimTimely ==
  ASSUME ScheduleAssumption, Typed, AllTimely, NEW o \in Schedulers, NEW a \in Actions,
         NEW timed \in BOOLEAN, row[a].status \in {"scheduled", "held"}, Claim(o, a, timed)
  PROVE  AllTimely'
<1> DEFINE d == <<a, claims[a] + 1>>
<1>1. d \in Dispatches /\ o \in Live /\ UNCHANGED <<life, queue, history>> /\ Live' = Live
  BY DEF Claim, Dispatches, Typed, PastTyped, ScheduleAssumption, Live
<1>2. row'[a].status = "dispatching" /\ row'[a].owner = o /\ row'[a].manual = row[a].manual
      /\ \A b \in Actions : b # a => row'[b] = row[b]
  BY DEF Claim, Typed, RowsTyped, Rows
<1>3. job' = [job EXCEPT ![d] = [at |-> IF row[a].manual THEN "hold" ELSE "submit", owner |-> o, timed |-> timed]]
  BY DEF Claim
<1>4. ASSUME NEW b \in Actions, b # a
      PROVE  Timely(b)'
  <2>1. \A c \in Dispatches : c[1] = b => job'[c] = job[c]
    BY <1>1, <1>3, <1>4 DEF Typed, JobsTyped
  <2>2. QED
    BY <1>1, <1>2, <1>4, <2>1, UnmovedStays DEF Unmoved, AllTimely
<1>5. ASSUME ~row[a].manual
      PROVE  Single(a)'
  <2>1. row[a].status = "scheduled" /\ Single(a)
    BY <1>5 DEF AllTimely, Timely, Typed, RowsTyped, RowTyped
  <2>2. /\ Out(a) /\ (\A e \in events : e.of # a)
        /\ \A c \in Dispatches : c[1] = a => job[c].at = "idle"
        /\ a \in torn \/ sent[a] = 0
    BY <2>1, Nothing
  <2>3. job'[d].at = "submit" /\ job'[d].owner = o
        /\ \A c \in Dispatches : c # d => job'[c] = job[c]
    BY <1>1, <1>3, <1>5 DEF Typed, JobsTyped
  <2>4. Out(a)'
    BY <1>1, <2>2 DEF Out
  <2>5. OneDispatch(a)' /\ InPlace(a)' /\ StartsOut(a)'
    BY <1>1, <2>2, <2>3, <2>4 DEF OneDispatch, InPlace, StartsOut, Out
  <2>6. \A p \in Schedulers : Traced(p, a)' => p = o
    BY <1>1, <2>2, <2>3 DEF Traced, Out, Typed, JobsTyped, ScheduleAssumption
  <2>7. AtClaimant(a)' /\ PastEnd(a)' /\ TornQueued(a)'
    BY <1>2, <2>6 DEF AtClaimant, PastEnd, TornQueued, Ended
  <2>8. PastNews(a)' /\ PastSend(a)'
    BY <1>1, <2>2 DEF PastNews, PastSend
  <2>9. QED
    BY <2>5, <2>7, <2>8 DEF Single
<1>6. QED
  BY <1>2, <1>4, <1>5 DEF AllTimely, Timely

LEMMA PersonTimely ==
  ASSUME ScheduleAssumption, Typed, AllTimely, NEW o \in Schedulers, NEW a \in Actions,
         Person(o, a) \/ ClaimNextDue(o, a)
  PROVE  AllTimely'
<1>1. CASE SendNow(o, a) \/ ClaimNextDue(o, a)
  BY <1>1, ClaimTimely DEF SendNow, ClaimNextDue
<1>2. CASE Update(o, a)
  <2>1. \A b \in Actions : Unmoved(b)
    BY <1>2 DEF Update, Unmoved, Live
  <2>2. QED
    BY <2>1, UnmovedStays DEF AllTimely
<1>3. CASE Cancel(o, a) \/ \E manual \in BOOLEAN : Create(o, a, manual)
  <2>1. UNCHANGED <<life, queue, job, history>> /\ Live' = Live
    BY <1>3 DEF Cancel, Create, Live
  <2>2. \A b \in Actions : b # a => row'[b] = row[b]
    BY <1>3 DEF Cancel, Create, Typed, RowsTyped
  <2>3. ASSUME ~row'[a].manual
        PROVE  Single(a)'
    <3>1. /\ row'[a].status \in {"cancelled", "scheduled"} /\ row[a].status \in {"none", "scheduled", "failed", "held"}
          /\ row'[a].status = "scheduled" => row[a].status = "none"
      <4>1. CASE Cancel(o, a)
        BY <4>1 DEF Cancel, Typed, RowsTyped, Rows
      <4>2. ASSUME NEW manual \in BOOLEAN, Create(o, a, manual)
            PROVE  row'[a].status = "scheduled" /\ row[a].status = "none"
        <5>1. row'[a] = [status |-> IF manual THEN "held" ELSE "scheduled", owner |-> Nobody,
                         manual |-> manual, entry |-> FALSE]
          BY <4>2 DEF Create, Typed, RowsTyped
        <5>2. ~manual
          BY <2>3, <5>1
        <5>3. QED
          BY <4>2, <5>1, <5>2 DEF Create
      <4>3. QED
        BY <1>3, <4>1, <4>2
    <3>2. ~row[a].manual
      BY <1>3, <2>3 DEF Cancel, Create, Typed, RowsTyped, Rows, RowTyped
    <3>3. Single(a) /\ row[a].status # "held"
      BY <3>2 DEF AllTimely, Timely, Typed, RowsTyped, RowTyped
    <3>4. Past(a)
      <4>1. CASE row[a].status \in {"none", "scheduled"}
        BY <3>3, <4>1, Nothing DEF Past
      <4>2. CASE row[a].status = "failed"
        BY <3>3, <4>2 DEF Single, PastEnd, Ended
      <4>3. QED
        BY <3>1, <3>3, <4>1, <4>2
    <3>5. (Past(a)' <=> Past(a)) /\ (Out(a)' <=> Out(a))
      BY <2>1 DEF Past, Out
    <3>6. OneDispatch(a)' /\ StartsOut(a)' /\ PastNews(a)' /\ InPlace(a)'
      BY <2>1, <3>3, <3>5 DEF Single, OneDispatch, StartsOut, PastNews, InPlace
    <3>7. \A p \in Schedulers : Traced(p, a)' <=> Traced(p, a)
      BY <2>1 DEF Traced
    <3>8. AtClaimant(a)' /\ PastEnd(a)' /\ TornQueued(a)' /\ PastSend(a)'
      BY <2>1, <3>1, <3>3, <3>4, <3>5, <3>7 DEF Single, AtClaimant, PastEnd, TornQueued, PastSend, Claimed
    <3>9. QED
      BY <3>6, <3>8 DEF Single
  <2>4. \A b \in Actions : b # a => Timely(b)'
    BY <2>1, <2>2, UnmovedStays DEF Unmoved, AllTimely
  <2>5. QED
    BY <2>3, <2>4 DEF AllTimely, Timely
<1>4. CASE CancelQueued(o, a)
  <2>1. UNCHANGED <<life, starting, job, history>> /\ Live' = Live /\ fifo[o][a] # "none"
        /\ fifo' = [fifo EXCEPT ![o][a] = "none"] /\ Emit(o, a, "cancelled")
    BY <1>4 DEF CancelQueued, DropEntry, Live
  <2>2. RowTyped(row[a]) /\ row' = [row EXCEPT ![a] = Marked(@, "cancelled")]
    BY <1>4 DEF CancelQueued, Typed, RowsTyped
  <2>3. /\ row'[a].manual = row[a].manual
        /\ \A b \in Actions : b # a => row'[b] = row[b]
    <3>1. Marked(row[a], "cancelled").manual = (row[a].manual \/ (row[a].status \in Claimed /\ "cancelled" = "held"))
      BY <2>2, MarkedTyped DEF Kinds
    <3>2. row[a].manual \in BOOLEAN
      BY <2>2 DEF RowTyped, Rows
    <3>3. QED
      BY <2>2, <3>1, <3>2 DEF Typed, RowsTyped
  <2>4. ASSUME NEW b \in Actions, b # a
        PROVE  Timely(b)'
    <3>1. \A p \in Schedulers : fifo'[p][b] = fifo[p][b]
      BY <2>1, <2>4 DEF Typed, QueueTyped
    <3>2. \A e : e.of = b => (e \in events' <=> e \in events)
      BY <2>1, <2>4 DEF Emit
    <3>3. QED
      BY <2>1, <2>3, <2>4, <3>1, <3>2, UnmovedStays DEF Unmoved, AllTimely
  <2>5. ASSUME ~row[a].manual
        PROVE  Single(a)'
    <3>1. Single(a) /\ row[a].status = "queued"
      BY <1>4, <2>2, <2>5 DEF AllTimely, Timely, CancelQueued, RowTyped
    <3>2. row'[a].status = "cancelled"
      BY <2>2, <3>1 DEF Marked, From, Claimed, Typed, RowsTyped
    <3>3. o \in Live /\ Traced(o, a) /\ ~Out(a)
      BY <2>1 DEF Typed, QueueTyped, Traced, Out
    <3>4. /\ \A p \in Schedulers : p # o => fifo[p][a] = "none" /\ <<p, a>> \notin starting
          /\ \A c \in Dispatches : c[1] = a /\ job[c].at # "idle" => job[c].owner = o
          /\ a \in torn \/ sent[a] = 0
      BY <2>5, <3>1, <3>3, NowhereElse DEF Past
    <3>5. \A c \in Dispatches : c[1] = a => job[c].at \in {"idle", "placed", "queued", "held"}
      <4>1. \A c \in Dispatches : c[1] = a => job[c].at # "direct"
        BY <2>1, <3>1, <3>4 DEF Single, InPlace, StartsOut
      <4>2. QED
        BY <3>1, <3>3, <4>1, NoEarly
    <3>6. Out(a)'
      BY <2>1, <3>1, <3>4 DEF Out, Single, StartsOut, Typed, QueueTyped
    <3>7. Past(a)' /\ InPlace(a)' /\ StartsOut(a)' /\ OneDispatch(a)'
      BY <2>1, <3>1, <3>5, <3>6 DEF Past, InPlace, StartsOut, Out, Single, OneDispatch
    <3>8. AtClaimant(a)' /\ PastEnd(a)' /\ PastNews(a)' /\ PastSend(a)' /\ TornQueued(a)'
      BY <2>1, <3>2, <3>4, <3>7 DEF AtClaimant, PastEnd, PastNews, PastSend, TornQueued, Claimed
    <3>9. QED
      BY <3>7, <3>8 DEF Single
  <2>6. QED
    BY <2>3, <2>4, <2>5 DEF AllTimely, Timely
<1>5. QED
  BY <1>1, <1>2, <1>3, <1>4 DEF Person

(* Processes.                                                              *)
LEMMA RecoverTimely ==
  ASSUME ScheduleAssumption, Typed, AllTimely, NEW o \in Schedulers, Recover(o),
         UNCHANGED <<queue, job, history>>, Live \subseteq Live'
  PROVE  AllTimely'
<1> SUFFICES ASSUME NEW a \in Actions
             PROVE  Timely(a)'
  BY DEF AllTimely
<1>1. CASE a \notin Recoverable(o)
  <2>1. Unmoved(a)
    BY <1>1 DEF Recover, Unmoved
  <2>2. QED
    BY <2>1, UnmovedStays DEF AllTimely
<1>2. CASE a \in Recoverable(o)
  <2>1. row'[a] = Recovered(row[a]) /\ row[a].status \in Claimed /\ row[a].owner \notin Live /\ RowTyped(row[a])
    BY <1>2 DEF Recover, Recoverable, Expired, Typed, RowsTyped
  <2>2. row'[a].manual = row[a].manual
    BY <2>1, RecoveredTyped
  <2>3. ASSUME ~row[a].manual
        PROVE  Single(a)'
    <3>1. Single(a)
      BY <2>3 DEF AllTimely, Timely
    <3>2. row'[a].status = IF row[a].status = "dispatching" THEN "failed" ELSE "scheduled"
      BY <2>1, <2>3 DEF Recovered
    <3>3. \A p \in Live : ~Traced(p, a)
      BY <2>1, <3>1 DEF Single, AtClaimant, Live
    <3>4. \A p \in Schedulers : ~Traced(p, a)
      <4>1. \A p \in Schedulers : Traced(p, a) => p \in Live
        <5>1. \A d \in Dispatches : job[d].owner \in Schedulers => job[d].owner \in Live
          BY DEF Typed, JobsTyped, ScheduleAssumption
        <5>2. QED
          BY <5>1 DEF Typed, QueueTyped, Traced
      <4>2. QED
        BY <3>3, <4>1
    <3>5. /\ Out(a) /\ (\A e \in events : e.of # a)
          /\ \A d \in Dispatches : d[1] = a => job[d].at = "idle"
      <4>1. \A e \in events : e.from \in Schedulers
        BY DEF Typed, QueueTyped, Events
      <4>2. \A d \in Dispatches : job[d].at # "idle" => job[d].owner \in Schedulers
        BY JobOwner DEF Typed
      <4>3. QED
        BY <3>4, <4>1, <4>2 DEF Traced, Out
    <3>6. /\ Past(a)' /\ OneDispatch(a)' /\ StartsOut(a)' /\ PastNews(a)' /\ InPlace(a)'
          /\ \A p \in Schedulers : ~Traced(p, a)'
      BY <3>4, <3>5 DEF Past, Out, OneDispatch, StartsOut, PastNews, InPlace, Traced
    <3>7. PastSend(a)'
      <4>1. CASE row[a].status = "dispatching"
        BY <3>1, <3>2, <3>6, <4>1 DEF Single, PastSend
      <4>2. CASE row[a].status = "queued"
        <5>1. a \in torn \/ ~(sent[a] > 0)
          BY <2>1, <3>1, <4>2 DEF Single, TornQueued
        <5>2. QED
          BY <5>1 DEF PastSend
      <4>3. QED
        BY <2>1, <4>1, <4>2 DEF Claimed
    <3>8. AtClaimant(a)' /\ PastEnd(a)' /\ TornQueued(a)'
      BY <3>2, <3>6 DEF AtClaimant, PastEnd, TornQueued
    <3>9. QED
      BY <3>6, <3>7, <3>8 DEF Single
  <2>4. QED
    BY <2>2, <2>3 DEF AllTimely, Timely
<1>3. QED
  BY <1>1, <1>2

LEMMA EndTimely ==
  ASSUME ScheduleAssumption, Typed, AllTimely, NEW o \in Schedulers, End(o)
  PROVE  AllTimely'
<1> SUFFICES ASSUME NEW a \in Actions, ~row[a].manual
             PROVE  Single(a)'
  BY DEF AllTimely, Timely, End
<1>1. Single(a) /\ Live' = Live \ {o} /\ row' = row /\ o \in Live
  BY DEF AllTimely, Timely, End, Live, Typed, LifeTyped
<1>2. /\ \A p \in Schedulers : /\ fifo'[p][a] = IF p = o THEN "none" ELSE fifo[p][a]
                               /\ <<p, a>> \in starting' <=> <<p, a>> \in starting /\ p # o
      /\ events' = {e \in events : e.from # o}
      /\ \A d \in Dispatches : job'[d] = IF job[d].owner = o THEN Idle ELSE job[d]
  BY DEF End, Typed, QueueTyped
<1>3. Idle.at = "idle" /\ Idle.owner = Nobody /\ Nobody \notin Schedulers
  BY DEF Idle, ScheduleAssumption
<1>4. (Out(a) => Out(a)') /\ (Past(a) => Past(a)')
  BY <1>2, <1>3 DEF Out, Past
<1>5. \A p \in Schedulers : Traced(p, a)' => Traced(p, a) /\ p # o
  BY <1>2, <1>3 DEF Traced
<1>6. OneDispatch(a)' /\ StartsOut(a)'
  BY <1>1, <1>2, <1>3 DEF Single, OneDispatch, StartsOut
<1>7. PastNews(a)' /\ PastEnd(a)' /\ AtClaimant(a)'
  BY <1>1, <1>2, <1>4, <1>5 DEF Single, PastNews, PastEnd, AtClaimant
<1>8. InPlace(a)'
  <2>1. \A d \in Dispatches : job[d].at = "direct" => job[d].owner \in Schedulers
    BY JobOwner DEF Typed
  <2>2. QED
    BY <1>1, <1>2, <1>3, <1>4, <2>1 DEF Single, InPlace
<1>9. sent'[a] = sent[a] \/ (<<o, a>> \in starting /\ sent'[a] = sent[a] + 1)
  BY DEF End, Typed, PastTyped
<1>10. torn \subseteq torn' /\ (row[a].status = "queued" /\ row[a].owner = o /\ sent'[a] > 0 => a \in torn')
  BY DEF End
<1>11. CASE sent'[a] = sent[a]
  <2>1. PastSend(a)'
    BY <1>1, <1>4, <1>10, <1>11 DEF Single, PastSend
  <2>2. TornQueued(a)'
    BY <1>1, <1>10, <1>11 DEF Single, TornQueued
  <2>3. QED
    BY <1>6, <1>7, <1>8, <2>1, <2>2 DEF Single
<1>12. CASE <<o, a>> \in starting /\ sent'[a] = sent[a] + 1
  <2>1. Traced(o, a) /\ ~Past(a)
    BY <1>12 DEF Traced, Past, Out
  <2>2. /\ row[a].owner = o /\ row[a].status \in Claimed
        /\ \A p \in Schedulers : p # o => fifo[p][a] = "none" /\ <<p, a>> \notin starting
        /\ \A c \in Dispatches : c[1] = a /\ job[c].at # "idle" => job[c].owner = o
        /\ a \in torn \/ sent[a] = 0
    BY <1>1, <2>1, NowhereElse
  <2>3. Past(a)'
    BY <1>2, <1>3, <2>2 DEF Past, Out
  <2>4. PastSend(a)'
    BY <1>1, <1>10, <1>12, <2>2, <2>3 DEF PastSend, Claimed, Typed, PastTyped
  <2>5. TornQueued(a)'
    BY <1>1, <1>10, <2>2 DEF TornQueued
  <2>6. QED
    BY <1>6, <1>7, <1>8, <2>4, <2>5 DEF Single
<1>13. QED
  BY <1>9, <1>11, <1>12

LEMMA NextTimely ==
  ASSUME ScheduleAssumption, Typed, AllTimely, [Next]_vars
  PROVE  AllTimely'
<1>1. CASE UNCHANGED vars
  <2>1. \A a \in Actions : Unmoved(a)
    BY <1>1 DEF vars, Unmoved, Live
  <2>2. QED
    BY <2>1, UnmovedStays DEF AllTimely
<1>2. ASSUME NEW o \in Schedulers, Process(o)
      PROVE  AllTimely'
  <2>1. CASE Start(o)
    BY <2>1, RecoverTimely DEF Start, Live, Typed, LifeTyped
  <2>2. CASE Heartbeat(o)
    BY <2>2, RecoverTimely DEF Heartbeat, Live
  <2>3. QED
    BY <1>2, <2>1, <2>2, EndTimely DEF Process
<1>3. QED
  BY <1>1, <1>2, TimeTimely, PersonTimely, DispatchTimely, QueueTimely, DeliverTimely DEF Next

LEMMA InitTimely ==
  ASSUME ScheduleAssumption, Init
  PROVE  AllTimely
<1> SUFFICES ASSUME NEW a \in Actions
             PROVE  Single(a)
  BY DEF AllTimely, Timely
<1>1. \A d \in Dispatches : job[d].at = "idle" /\ job[d].owner = Nobody
  BY DEF Init, Idle
<1>2. \A o \in Schedulers : ~Traced(o, a)
  BY <1>1 DEF Init, Traced, ScheduleAssumption
<1>3. Out(a) /\ Past(a)
  BY <1>1 DEF Init, Out, Past
<1>4. QED
  BY <1>1, <1>2, <1>3 DEF Init, Single, AtClaimant, OneDispatch, InPlace, StartsOut, PastEnd,
       PastNews, PastSend, TornQueued, Ended

LEMMA AlwaysTimely == Spec => [](Typed /\ AllTimely)
<1>1. Init => Typed /\ AllTimely
  BY InitTypes, InitTimely, ScheduleAssumption
<1>2. Typed /\ AllTimely /\ [Next]_vars => (Typed /\ AllTimely)'
  BY NextTypes, NextTimely, ScheduleAssumption
<1>3. QED
  BY <1>1, <1>2, PTL DEF Spec

(* A message is sent at most once, unless it was held or its process died  *)
(* between the start and its record: whatever leases run out, however      *)
(* often it is claimed, in whatever order answers and events come          *)
(* (claim, markStarted, recoverExpiredClaims).                             *)
THEOREM MessagesAreSentOnce == Spec => []SentOnce
<1>1. Typed /\ AllTimely => SentOnce
  BY DEF SentOnce, AllTimely, Timely, Single, PastSend, Typed, PastTyped
<1>2. QED
  BY <1>1, AlwaysTimely, PTL

(* A message that was not held waits in one process's queue, or is started *)
(* from there: an expired lease alone never makes another process take it  *)
(* (recoverExpiredClaims, isSchedulerOwnerAlive).                          *)
THEOREM OneQueueHolds == Spec => []OneQueue
<1>1. Typed /\ AllTimely => OneQueue
  <2> SUFFICES ASSUME Typed, AllTimely, NEW a \in Actions, ~row[a].manual,
                      NEW o \in Holding(a), NEW p \in Holding(a)
               PROVE  o = p
    BY DEF OneQueue
  <2>1. Single(a) /\ o \in Schedulers /\ p \in Schedulers
    BY DEF AllTimely, Timely, Holding
  <2>2. ~Past(a) /\ Traced(o, a) /\ Traced(p, a)
    BY <2>1 DEF Holding, Past, Out, Traced
  <2>3. QED
    BY <2>1, <2>2, StillToCome
<1>2. QED
  BY <1>1, AlwaysTimely, PTL

(* After a message was cancelled or reported failed, no process has it in  *)
(* its queue or starts it, unless it was held (cancel, markFailed).        *)
THEOREM EndsAreForGood == Spec => []EndedForGood
<1>1. Typed /\ AllTimely => EndedForGood
  BY DEF EndedForGood, AllTimely, Timely, Single, PastEnd, Past, Out, Holding, Ended
<1>2. QED
  BY <1>1, AlwaysTimely, PTL

-----------------------------------------------------------------------------
(* ScheduledDelivery.  What an event or a dispatch says of a message's end *)
(* is true: it says started of one that was sent, and failed or cancelled  *)
(* of one that was not.                                                    *)
IsLoose(a) == row[a].manual \/ a \in torn
Truthful(a) ==
  /\ \A e \in events : e.of = a /\ e.kind \in Final => (e.kind = "started" <=> sent[a] = 1)
  /\ \A d \in Dispatches : d[1] = a /\ job[d].at \in {"started", "failed"} =>
       (job[d].at = "started" <=> sent[a] = 1)
AllTruthful == \A a \in Actions : IsLoose(a) \/ Truthful(a)

LEMMA LooseStays ==
  ASSUME ScheduleAssumption, Typed, Next, NEW a \in Actions, IsLoose(a)
  PROVE  IsLoose(a)'
<1>1. a \in torn => a \in torn'
  <2>1. ASSUME NEW o \in Schedulers, Process(o)
        PROVE  torn \subseteq torn'
    BY <2>1 DEF Process, Start, Heartbeat, End
  <2>2. ASSUME NEW b \in Actions, Time(b)
        PROVE  torn \subseteq torn'
    BY <2>2 DEF Time, FallDue, Expire, Prune
  <2>3. ASSUME NEW o \in Schedulers, NEW b \in Actions, Person(o, b) \/ ClaimNextDue(o, b)
        PROVE  torn \subseteq torn'
    BY <2>3 DEF Person, Create, Update, Cancel, CancelQueued, SendNow, ClaimNextDue, Claim
  <2>4. ASSUME NEW o \in Schedulers, NEW b \in Actions, Queue(o, b)
        PROVE  torn \subseteq torn'
    BY <2>4 DEF Queue, HoldWaiting, ReleaseOther, CancelEntry, Drain, Accept, RejectDirect, RejectEntry
  <2>5. ASSUME NEW d \in Dispatches, Dispatch(d)
        PROVE  torn \subseteq torn'
    BY <2>5 DEF Dispatch, SubmitFails, LockRefuses, Enqueue, StartDirect, SubmitHeld, FindPlaced,
                MarkEntered, ReleaseNot, ReleaseHold, ReleaseStarts, ReleaseBusy, Answer
  <2>6. ASSUME NEW e \in Events, Deliver(e)
        PROVE  torn \subseteq torn'
    BY <2>6 DEF Deliver
  <2>7. QED
    BY <2>1, <2>2, <2>3, <2>4, <2>5, <2>6 DEF Next
<1>2. RowTyped(row[a]) /\ row \in [Actions -> Rows]
  BY DEF Typed, RowsTyped
<1>3. \A o : \A kind \in Kinds : row[a].manual => /\ Marked(row[a], kind).manual
                                                   /\ MarkedFor(o, row[a], kind).manual
  BY <1>2, MarkedTyped DEF MarkedFor
<1>4. ASSUME row[a].manual
      PROVE  row'[a].manual
  <2>1. ASSUME NEW o \in Schedulers, Process(o)
        PROVE  row'[a].manual
    <3>1. CASE Recover(o)
      BY <1>2, <1>4, <3>1, RecoveredTyped DEF Recover
    <3>2. QED
      BY <1>4, <2>1, <3>1 DEF Process, Start, Heartbeat, End
  <2>2. ASSUME NEW b \in Actions, Time(b)
        PROVE  row'[a].manual
    BY <1>2, <1>4, <2>2 DEF Time, FallDue, Expire, Prune, Rows
  <2>3. ASSUME NEW o \in Schedulers, NEW b \in Actions, Person(o, b) \/ ClaimNextDue(o, b)
        PROVE  row'[a].manual
    <3>1. CASE \E manual \in BOOLEAN : Create(o, b, manual)
      <4>1. b # a
        BY <1>2, <1>4, <3>1 DEF Create, RowTyped
      <4>2. QED
        BY <1>2, <1>4, <3>1, <4>1 DEF Create
    <3>2. CASE Update(o, b) \/ Cancel(o, b)
      BY <1>2, <1>4, <3>2 DEF Update, Cancel, Rows
    <3>3. CASE CancelQueued(o, b)
      BY <1>2, <1>3, <1>4, <3>3 DEF CancelQueued, Kinds
    <3>4. CASE SendNow(o, b) \/ ClaimNextDue(o, b)
      BY <1>2, <1>4, <3>4 DEF SendNow, ClaimNextDue, Claim, Rows
    <3>5. QED
      BY <2>3, <3>1, <3>2, <3>3, <3>4 DEF Person
  <2>4. ASSUME NEW o \in Schedulers, NEW b \in Actions, Queue(o, b)
        PROVE  row'[a].manual
    BY <1>4, <2>4 DEF Queue, HoldWaiting, ReleaseOther, CancelEntry, Drain, Accept, RejectDirect, RejectEntry
  <2>5. ASSUME NEW d \in Dispatches, Dispatch(d)
        PROVE  row'[a].manual
    <3>1. row' = row \/ \E kind \in Kinds : row' = [row EXCEPT ![d[1]] = MarkedFor(job[d].owner, @, kind)]
      BY <2>5 DEF Dispatch, SubmitFails, LockRefuses, Enqueue, StartDirect, SubmitHeld, FindPlaced,
             MarkEntered, ReleaseNot, ReleaseHold, ReleaseStarts, ReleaseBusy, Answer, Kinds
    <3>2. QED
      BY <1>2, <1>3, <1>4, <3>1
  <2>6. ASSUME NEW e \in Events, Deliver(e)
        PROVE  row'[a].manual
    BY <1>2, <1>3, <1>4, <2>6 DEF Deliver, Events
  <2>7. QED
    BY <2>1, <2>2, <2>3, <2>4, <2>5, <2>6 DEF Next
<1>5. QED
  BY <1>1, <1>4 DEF IsLoose

(* A step that sends nothing and tells no news of the message.             *)
LEMMA TruthStays ==
  ASSUME NEW a \in Actions, Truthful(a), sent'[a] = sent[a],
         \A e \in events' : e.of = a /\ e.kind \in Final => e \in events,
         \A d \in Dispatches : d[1] = a /\ job'[d].at \in {"started", "failed"} => job'[d].at = job[d].at
  PROVE  Truthful(a)'
BY DEF Truthful


LEMMA QueueTruthful ==
  ASSUME ScheduleAssumption, Typed, AllTimely, NEW o \in Schedulers, NEW b \in Actions, Queue(o, b),
         NEW a \in Actions, ~IsLoose(a), Truthful(a)
  PROVE  Truthful(a)'
<1>1. CASE a # b
  <2>1. sent'[a] = sent[a]
    BY <1>1 DEF Queue, HoldWaiting, ReleaseOther, CancelEntry, DropEntry, Drain, Accept, RejectDirect,
                RejectEntry, Typed, PastTyped
  <2>2. \A e \in events' : e.of = a => e \in events
    <3>1. events' = events \/ \E kind \in Kinds : events' = events \union {[from |-> o, of |-> b, kind |-> kind]}
      BY DEF Queue, HoldWaiting, ReleaseOther, CancelEntry, DropEntry, Drain, Accept, RejectDirect,
             RejectEntry, Emit, Kinds
    <3>2. QED
      BY <1>1, <3>1
  <2>3. \A d \in Dispatches : d[1] = a => job'[d] = job[d]
    BY <1>1 DEF Queue, HoldWaiting, ReleaseOther, CancelEntry, DropEntry, Drain, Accept,
                RejectDirect, RejectEntry, Answered, Asking
  <2>4. QED
    BY <2>1, <2>2, <2>3, TruthStays
<1>2. CASE a = b
  <2>1. ~row[a].manual /\ a \notin torn /\ Single(a)
    BY DEF IsLoose, AllTimely, Timely
  <2>2. o \in Live /\ Traced(o, a) /\ ~Out(a)
    BY <1>2 DEF Queue, HoldWaiting, ReleaseOther, CancelEntry, DropEntry, Drain, Accept, RejectDirect,
                RejectEntry, Typed, QueueTyped, Live, Traced, Out
  <2>3. sent[a] = 0 /\ \A e \in events : e.of = a => e.kind \notin Final
    BY <2>1, <2>2, NowhereElse DEF Past
  <2>4. \A d \in Dispatches : d[1] = a => job[d].at \notin {"started", "failed"}
    BY <2>1, <2>2, NoEarly
  <2>5. CASE HoldWaiting(o, b) \/ ReleaseOther(o, b) \/ Drain(o, b) \/ CancelEntry(o, b)
    <3>1. UNCHANGED <<job, sent>> /\ \A e \in events' : e.of = a => e.kind # "started"
      BY <2>3, <2>5 DEF HoldWaiting, ReleaseOther, Drain, CancelEntry, DropEntry, Emit, Final
    <3>2. QED
      BY <2>3, <2>4, <3>1 DEF Truthful
  <2>6. CASE Accept(o, b)
    <3>1. sent'[a] = 1 /\ \A e \in events' : e.of = a /\ e.kind \in Final => e.kind = "started"
      BY <1>2, <2>3, <2>6 DEF Accept, Emit, Typed, PastTyped
    <3>2. \A d \in Dispatches : d[1] = a => job'[d].at # "failed"
      BY <2>4, <2>6 DEF Accept, Answered, Typed, JobsTyped, Jobs
    <3>3. QED
      BY <3>1, <3>2 DEF Truthful
  <2>7. CASE RejectDirect(o, b) \/ RejectEntry(o, b)
    <3>1. sent' = sent /\ \A e \in events' : e.of = a => e.kind # "started"
      BY <2>3, <2>7 DEF RejectDirect, RejectEntry, Emit, Final
    <3>2. \A d \in Dispatches : d[1] = a => job'[d].at # "started"
      <4>1. Answered(o, b, "failed") \/ Answered(o, b, "held")
        BY <2>7 DEF RejectDirect, RejectEntry
      <4>2. QED
        BY <2>4, <4>1 DEF Answered, Typed, JobsTyped, Jobs
    <3>3. QED
      BY <2>3, <3>1, <3>2 DEF Truthful
  <2>8. QED
    BY <2>5, <2>6, <2>7 DEF Queue
<1>3. QED
  BY <1>1, <1>2

LEMMA DispatchTruthful ==
  ASSUME ScheduleAssumption, Typed, AllTimely, NEW d \in Dispatches, Dispatch(d),
         NEW a \in Actions, ~IsLoose(a), Truthful(a)
  PROVE  Truthful(a)'
<1>1. UNCHANGED sent
  BY DEF Dispatch, SubmitFails, LockRefuses, Enqueue, StartDirect, SubmitHeld, FindPlaced,
         MarkEntered, ReleaseNot, ReleaseHold, ReleaseStarts, ReleaseBusy, Answer
<1>2. \A e \in events' : e.kind \in Final => e \in events
  <2>1. events' = events \/ Emit(job[d].owner, d[1], "queued")
    BY DEF Dispatch, SubmitFails, LockRefuses, Enqueue, StartDirect, SubmitHeld, FindPlaced,
           MarkEntered, ReleaseNot, ReleaseHold, ReleaseStarts, ReleaseBusy, Answer
  <2>2. QED
    BY <2>1 DEF Emit, Final
<1>3. CASE SubmitFails(d) /\ d[1] = a
  <2>1. ~row[a].manual /\ a \notin torn /\ Single(a)
    BY DEF IsLoose, AllTimely, Timely
  <2>2. job[d].at \in {"submit", "refused"} /\ ~Past(a)
    BY <1>3, <2>1 DEF SubmitFails, Single, InPlace, Past
  <2>3. sent[a] = 0 /\ \A e \in events : e.of = a => e.kind \notin Final
    BY <2>1, <2>2, StillToCome
  <2>4. \A c \in Dispatches : job'[c].at = IF c = d THEN "failed" ELSE job[c].at
    BY <1>3, GoesAt DEF SubmitFails
  <2>5. \A c \in Dispatches : c[1] = a => job'[c].at # "started"
    <3>1. \A c \in Dispatches : c[1] = a /\ c # d => job[c].at = "idle"
      BY <1>3, <2>1, <2>2 DEF Single, OneDispatch
    <3>2. QED
      BY <2>4, <3>1
  <2>6. QED
    BY <1>1, <1>2, <2>3, <2>5 DEF Truthful
<1>4. CASE ~SubmitFails(d) \/ d[1] # a
  <2>1. \A c \in Dispatches : c[1] = a /\ job'[c].at \in {"started", "failed"} => job'[c].at = job[c].at
    <3>1. CASE d[1] # a
      <4>1. Ends(d) \/ \E at \in Places : Goes(d, at)
        BY DEF Dispatch, SubmitFails, LockRefuses, Enqueue, StartDirect, SubmitHeld, FindPlaced,
               MarkEntered, ReleaseNot, ReleaseHold, ReleaseStarts, ReleaseBusy, Answer, Places
      <4>2. QED
        BY <3>1, <4>1 DEF Goes, Ends, Typed, JobsTyped
    <3>2. CASE ~SubmitFails(d)
      <4>1. Ends(d) \/ \E at \in Places \ {"started", "failed"} : Goes(d, at)
        BY <3>2 DEF Dispatch, LockRefuses, Enqueue, StartDirect, SubmitHeld, FindPlaced,
               MarkEntered, ReleaseNot, ReleaseHold, ReleaseStarts, ReleaseBusy, Answer, Places
      <4>2. \A at \in Places \ {"started", "failed"} : Goes(d, at) =>
              \A c \in Dispatches : job'[c].at = IF c = d THEN at ELSE job[c].at
        BY GoesAt
      <4>3. Idle.at = "idle"
        BY DEF Idle
      <4>4. Ends(d) => \A c \in Dispatches : job'[c] = IF c = d THEN Idle ELSE job[c]
        BY DEF Ends, Typed, JobsTyped
      <4>5. QED
        BY <4>1, <4>2, <4>3, <4>4
    <3>3. QED
      BY <1>4, <3>1, <3>2
  <2>2. QED
    BY <1>1, <1>2, <2>1, TruthStays
<1>5. QED
  BY <1>3, <1>4

LEMMA EndTruthful ==
  ASSUME ScheduleAssumption, Typed, AllTimely, NEW o \in Schedulers, End(o),
         NEW a \in Actions, ~IsLoose(a), Truthful(a)
  PROVE  Truthful(a)'
<1>1. events' = {e \in events : e.from # o} /\ o \in Live
  BY DEF End
<1>2. \A d \in Dispatches : job'[d] = IF job[d].owner = o THEN Idle ELSE job[d]
  BY DEF End
<1>3. Idle.at = "idle"
  BY DEF Idle
<1>4. sent'[a] = sent[a] \/ <<o, a>> \in starting
  BY DEF End
<1>5. CASE sent'[a] = sent[a]
  BY <1>1, <1>2, <1>3, <1>5, TruthStays
<1>6. CASE <<o, a>> \in starting
  <2>1. ~row[a].manual /\ Single(a)
    BY DEF IsLoose, AllTimely, Timely
  <2>2. Traced(o, a) /\ ~Past(a)
    BY <1>6 DEF Traced, Past, Out
  <2>3. /\ \A e \in events : e.of = a => e.from = o
        /\ \A c \in Dispatches : c[1] = a /\ job[c].at # "idle" => job[c].owner = o
    BY <1>1, <2>1, <2>2, NowhereElse
  <2>4. QED
    BY <1>1, <1>2, <1>3, <2>3 DEF Truthful
<1>7. QED
  BY <1>4, <1>5, <1>6

LEMMA PersonTruthful ==
  ASSUME ScheduleAssumption, Typed, AllTimely, NEW o \in Schedulers, NEW b \in Actions,
         Person(o, b) \/ ClaimNextDue(o, b), NEW a \in Actions, ~IsLoose(a), Truthful(a)
  PROVE  Truthful(a)'
<1>1. CASE Update(o, b) \/ Cancel(o, b) \/ \E manual \in BOOLEAN : Create(o, b, manual)
  BY <1>1, TruthStays DEF Update, Cancel, Create
<1>2. CASE SendNow(o, b) \/ ClaimNextDue(o, b)
  <2> DEFINE d == <<b, claims[b] + 1>>
  <2>1. PICK timed \in BOOLEAN : Claim(o, b, timed)
    BY <1>2 DEF SendNow, ClaimNextDue
  <2>2. d \in Dispatches /\ UNCHANGED <<sent, events>>
    BY <2>1 DEF Claim, Dispatches, Typed, PastTyped, ScheduleAssumption
  <2>3. \A c \in Dispatches : job'[c] = job[c] \/ job'[c].at \in {"hold", "submit"}
    BY <2>1, <2>2 DEF Claim, Typed, JobsTyped
  <2>4. \A c \in Dispatches : job'[c].at \in {"started", "failed"} => job'[c].at = job[c].at
    BY <2>3
  <2>5. QED
    BY <2>2, <2>4, TruthStays
<1>3. CASE CancelQueued(o, b)
  <2>1. UNCHANGED <<job, sent>> /\ events' = events \union {[from |-> o, of |-> b, kind |-> "cancelled"]}
        /\ fifo[o][b] # "none"
    BY <1>3 DEF CancelQueued, DropEntry, Emit
  <2>2. CASE a # b
    BY <2>1, <2>2, TruthStays
  <2>3. CASE a = b
    <3>1. ~row[a].manual /\ a \notin torn /\ Single(a)
      BY DEF IsLoose, AllTimely, Timely
    <3>2. ~Out(a) /\ ~Past(a)
      BY <2>1, <2>3 DEF Past, Out
    <3>3. sent[a] = 0 /\ \A e \in events : e.of = a => e.kind \notin Final
      BY <3>1, <3>2, StillToCome
    <3>4. \A d \in Dispatches : d[1] = a => job[d].at \notin {"started", "failed"}
      BY <3>1, <3>2, NoEarly
    <3>5. QED
      BY <2>1, <3>3, <3>4 DEF Truthful, Final
  <2>4. QED
    BY <2>2, <2>3
<1>4. QED
  BY <1>1, <1>2, <1>3 DEF Person

LEMMA NextTruthful ==
  ASSUME ScheduleAssumption, Typed, AllTimely, AllTruthful, [Next]_vars
  PROVE  AllTruthful'
<1> SUFFICES ASSUME NEW a \in Actions
             PROVE  IsLoose(a)' \/ Truthful(a)'
  BY DEF AllTruthful
<1>1. CASE UNCHANGED vars
  BY <1>1 DEF vars, AllTruthful, IsLoose, Truthful
<1>2. CASE Next /\ IsLoose(a)
  BY <1>2, LooseStays
<1>3. CASE Next /\ ~IsLoose(a)
  <2>1. Truthful(a)
    BY <1>3 DEF AllTruthful
  <2>2. ASSUME NEW o \in Schedulers, Process(o)
        PROVE  Truthful(a)'
    <3>1. CASE Start(o) \/ Heartbeat(o)
      BY <2>1, <3>1, TruthStays DEF Start, Heartbeat
    <3>2. QED
      BY <1>3, <2>1, <2>2, <3>1, EndTruthful DEF Process
  <2>3. ASSUME NEW b \in Actions, Time(b)
        PROVE  Truthful(a)'
    BY <2>1, <2>3, TruthStays DEF Time, FallDue, Expire, Prune
  <2>4. ASSUME NEW e \in Events, Deliver(e)
        PROVE  Truthful(a)'
    BY <2>1, <2>4, TruthStays DEF Deliver
  <2>5. QED
    BY <1>3, <2>1, <2>2, <2>3, <2>4, PersonTruthful, DispatchTruthful, QueueTruthful DEF Next
<1>4. QED
  BY <1>1, <1>2, <1>3


(* What a step means to ScheduledDelivery.                                 *)
Delivered == [Delivery!Next]_<<Live, Shows>>
Faithful  == Typed /\ AllTimely /\ AllTruthful
Unseen    == [at |-> "loose", by |-> Nobody, sent |-> 0]
Place(r)  == IF r.status \in Claimed THEN "claimed" ELSE r.status

LEMMA ShownAs ==
  ASSUME NEW a \in Actions
  PROVE  /\ Shows[a] = Shown(a)
         /\ IsLoose(a) => Shown(a) = Unseen
         /\ ~IsLoose(a) => Shown(a) = [at |-> Place(row[a]), by |-> row[a].owner, sent |-> sent[a]]
         /\ IsLoose(a)' => Shown(a)' = Unseen
         /\ ~IsLoose(a)' => Shown(a)' = [at |-> Place(row'[a]), by |-> row'[a].owner, sent |-> sent'[a]]
BY DEF Shows, Shown, IsLoose, Unseen, Place

(* A step of one action.                                                   *)
Only(a) == Live' = Live /\ \A b \in Actions : b # a => Shown(b)' = Shown(b)

LEMMA RowOnly ==
  ASSUME NEW a \in Actions, UNCHANGED <<life, history>>, \A b \in Actions : b # a => row'[b] = row[b]
  PROVE  Only(a)
BY DEF Only, Shown, Live

LEMMA ShowsOnly ==
  ASSUME NEW a \in Actions, Only(a), NEW m, Shown(a)' = m
  PROVE  Shows' = [Shows EXCEPT ![a] = m]
BY DEF Only, Shows

LEMMA OnlyActs ==
  ASSUME NEW a \in Actions, Only(a), Delivery!Acts(a)
  PROVE  Delivered
BY DEF Only, Delivered, Delivery!Next

LEMMA SameShown ==
  ASSUME NEW a \in Actions, Only(a), Shown(a)' = Shown(a)
  PROVE  Delivered
BY DEF Only, Delivered, Shows

LEMMA NothingShown ==
  ASSUME UNCHANGED <<row, life, history>>
  PROVE  Delivered
BY DEF Delivered, Shows, Shown, Live

(* A mark of a row that its claimant makes, and that is true.              *)
LEMMA MarkDelivers ==
  ASSUME ScheduleAssumption, Typed, UNCHANGED <<life, history>>, NEW a \in Actions, NEW kind \in Kinds,
         row' = [row EXCEPT ![a] = Marked(@, kind)],
         ~IsLoose(a) /\ row[a].status \in Claimed =>
           row[a].owner \in Live /\ (kind \in Final => (kind = "started" <=> sent[a] = 1))
  PROVE  Delivered
<1>1. Only(a)
  BY RowOnly DEF Typed, RowsTyped
<1>2. RowTyped(row[a]) /\ row'[a] = Marked(row[a], kind)
  BY DEF Typed, RowsTyped
<1>3. CASE row'[a] = row[a]
  <2>1. Shown(a)' = Shown(a)
    BY <1>3 DEF Shown
  <2>2. QED
    BY <1>1, <2>1, SameShown
<1>4. CASE IsLoose(a)
  <2>1. row[a].manual => row'[a].manual
    <3>1. Marked(row[a], kind).manual = (row[a].manual \/ (row[a].status \in Claimed /\ kind = "held"))
      BY <1>2, MarkedTyped
    <3>2. QED
      BY <1>2, <3>1
  <2>2. IsLoose(a)'
    BY <1>4, <2>1 DEF IsLoose
  <2>3. QED
    BY <1>1, <1>4, <2>2, SameShown, ShownAs
<1>5. CASE row'[a] # row[a] /\ ~IsLoose(a)
  <2>1. row[a].status \in From(kind) /\ ~row[a].manual /\ a \notin torn
    BY <1>2, <1>5 DEF Marked, IsLoose
  <2>2. row[a].status \in Claimed
    BY <1>2, <2>1 DEF From, RowTyped, Claimed
  <2>3. row'[a] = [status |-> kind,
                   owner  |-> IF kind = "queued" THEN row[a].owner ELSE Nobody,
                   manual |-> row[a].manual \/ kind = "held",
                   entry  |-> row[a].entry \/ kind \in {"queued", "held"}]
    BY <1>2, <2>1 DEF Marked
  <2>4. row'[a].status = kind /\ (row'[a].manual <=> kind = "held")
        /\ row'[a].owner = IF kind = "queued" THEN row[a].owner ELSE Nobody
    <3>1. row'[a].status = kind /\ row'[a].owner = IF kind = "queued" THEN row[a].owner ELSE Nobody
      BY <2>3
    <3>2. row'[a].manual = (row[a].manual \/ kind = "held")
      BY <2>3
    <3>3. QED
      BY <2>1, <3>1, <3>2
  <2>5. IsLoose(a)' <=> kind = "held"
    BY <2>1, <2>4 DEF IsLoose
  <2>6. Shown(a) = [at |-> "claimed", by |-> row[a].owner, sent |-> sent[a]] /\ Shows[a] = Shown(a)
    BY <1>5, <2>2, ShownAs DEF Place
  <2>7. Delivery!Led(a)
    BY <1>5, <2>2, <2>6 DEF Delivery!Led
  <2>8. CASE kind = "queued"
    <3>1. Shown(a)' = Shown(a)
      BY <2>4, <2>5, <2>6, <2>8, ShownAs DEF Place, Claimed
    <3>2. QED
      BY <1>1, <3>1, SameShown
  <2>9. CASE kind = "held"
    <3>1. Shown(a)' = Unseen
      BY <2>5, <2>9, ShownAs
    <3>2. Shows' = [Shows EXCEPT ![a] = Unseen]
      BY <1>1, <3>1, ShowsOnly
    <3>3. Delivery!Loosen(a)
      BY <2>7, <3>2 DEF Delivery!Loosen, Delivery!Loose, Unseen
    <3>4. QED
      BY <1>1, <3>3, OnlyActs DEF Delivery!Acts
  <2>10. CASE kind \in Final
    <3>1. Shown(a)' = [at |-> kind, by |-> Nobody, sent |-> sent[a]]
      BY <2>4, <2>5, <2>10, ShownAs DEF Place, Claimed, Final
    <3>2. Shown(a)' = Delivery!Put(a, kind, Nobody)
      BY <2>6, <3>1 DEF Delivery!Put
    <3>3. Shows' = [Shows EXCEPT ![a] = Delivery!Put(a, kind, Nobody)]
      BY <1>1, <3>2, ShowsOnly
    <3>4. kind = "started" <=> Shows[a].sent = 1
      BY <1>5, <2>2, <2>6, <2>10
    <3>5. Delivery!Report(a, kind)
      BY <2>7, <3>3, <3>4 DEF Delivery!Report
    <3>6. QED
      BY <1>1, <2>10, <3>5, OnlyActs DEF Delivery!Acts, Delivery!Endings, Final
  <2>11. QED
    BY <2>8, <2>9, <2>10 DEF Kinds, Final
<1>6. QED
  BY <1>3, <1>4, <1>5

LEMMA MarkForDelivers ==
  ASSUME ScheduleAssumption, Typed, UNCHANGED <<life, history>>, NEW a \in Actions, NEW kind \in Kinds,
         NEW o \in Live, row' = [row EXCEPT ![a] = MarkedFor(o, @, kind)],
         ~IsLoose(a) => (kind \in Final => (kind = "started" <=> sent[a] = 1))
  PROVE  Delivered
<1>1. CASE row[a].owner = o
  <2>1. row' = [row EXCEPT ![a] = Marked(@, kind)]
    BY <1>1 DEF MarkedFor
  <2>2. QED
    BY <1>1, <2>1, MarkDelivers
<1>2. CASE row[a].owner # o
  <2>1. row' = row
    BY <1>2 DEF MarkedFor, Typed, RowsTyped
  <2>2. QED
    BY <2>1, NothingShown
<1>3. QED
  BY <1>1, <1>2

LEMMA DeliverDelivers ==
  ASSUME ScheduleAssumption, Faithful, NEW e \in Events, Deliver(e)
  PROVE  Delivered
<1> DEFINE a == e.of
<1>1. a \in Actions /\ e.kind \in Kinds /\ e \in events /\ UNCHANGED <<life, history>>
      /\ row' = [row EXCEPT ![a] = Marked(@, e.kind)]
  BY DEF Deliver, Events
<1>2. e.from \in Live /\ e.from \in Schedulers /\ Traced(e.from, a)
  BY <1>1 DEF Faithful, Typed, QueueTyped, Traced, Events
<1>3. ASSUME ~IsLoose(a), row[a].status \in Claimed
      PROVE  row[a].owner \in Live /\ (e.kind \in Final => (e.kind = "started" <=> sent[a] = 1))
  <2>1. Single(a) /\ Truthful(a)
    BY <1>1, <1>3 DEF Faithful, AllTimely, Timely, AllTruthful, IsLoose
  <2>2. row[a].owner = e.from
    BY <1>2, <1>3, <2>1 DEF Single, AtClaimant
  <2>3. QED
    BY <1>1, <1>2, <2>1, <2>2 DEF Truthful
<1>4. QED
  BY <1>1, <1>3, MarkDelivers DEF Faithful

LEMMA DispatchDelivers ==
  ASSUME ScheduleAssumption, Faithful, NEW d \in Dispatches, Dispatch(d)
  PROVE  Delivered
<1> DEFINE o == job[d].owner
           a == d[1]
<1>1. UNCHANGED <<life, history>> /\ job[d].at # "idle"
  BY DEF Dispatch, SubmitFails, LockRefuses, Enqueue, StartDirect, SubmitHeld, FindPlaced,
         MarkEntered, ReleaseNot, ReleaseHold, ReleaseStarts, ReleaseBusy, Answer
<1>2. o \in Live /\ a \in Actions
  BY <1>1, JobOwner DEF Faithful, Typed
<1>3. CASE Answer(d)
  <2>1. job[d].at \in Kinds /\ row' = [row EXCEPT ![a] = MarkedFor(o, @, job[d].at)]
        /\ (job[d].at \in Final => job[d].at \in {"started", "failed"})
    BY <1>3 DEF Answer, Kinds, Final
  <2>2. ~IsLoose(a) => (job[d].at \in Final => (job[d].at = "started" <=> sent[a] = 1))
    BY <1>2, <2>1 DEF Faithful, AllTruthful, Truthful
  <2>3. QED
    BY <1>1, <1>2, <2>1, <2>2, MarkForDelivers DEF Faithful
<1>4. CASE MarkEntered(d)
  <2>1. row' = [row EXCEPT ![a] = MarkedFor(o, @, "queued")]
    BY <1>4 DEF MarkEntered
  <2>2. QED
    BY <1>1, <1>2, <2>1, MarkForDelivers DEF Faithful, Kinds, Final
<1>5. CASE UNCHANGED row
  BY <1>1, <1>5, NothingShown
<1>6. QED
  BY <1>3, <1>4, <1>5 DEF Dispatch, SubmitFails, LockRefuses, Enqueue, StartDirect, SubmitHeld,
       FindPlaced, ReleaseNot, ReleaseHold, ReleaseStarts, ReleaseBusy

LEMMA QueueDelivers ==
  ASSUME ScheduleAssumption, Faithful, NEW o \in Schedulers, NEW a \in Actions, Queue(o, a)
  PROVE  Delivered
<1>1. CASE UNCHANGED sent
  <2>1. UNCHANGED <<row, life, history>>
    BY <1>1 DEF Queue, HoldWaiting, ReleaseOther, CancelEntry, Drain, Accept, RejectDirect, RejectEntry
  <2>2. QED
    BY <2>1, NothingShown
<1>2. CASE Accept(o, a)
  <2>1. UNCHANGED <<row, life, torn>> /\ <<o, a>> \in starting /\ sent' = [sent EXCEPT ![a] = @ + 1]
    BY <1>2 DEF Accept
  <2>2. Only(a)
    BY <2>1 DEF Only, Shown, Live, Faithful, Typed, PastTyped
  <2>3. IsLoose(a)' <=> IsLoose(a)
    BY <2>1 DEF IsLoose
  <2>4. CASE IsLoose(a)
    BY <2>2, <2>3, <2>4, ShownAs, SameShown
  <2>5. CASE ~IsLoose(a)
    <3>1. ~row[a].manual /\ a \notin torn /\ Single(a)
      BY <2>5 DEF IsLoose, Faithful, AllTimely, Timely
    <3>2. o \in Live /\ Traced(o, a) /\ ~Past(a)
      BY <2>1 DEF Faithful, Typed, QueueTyped, Traced, Past, Out
    <3>3. row[a].owner = o /\ row[a].status \in Claimed /\ sent[a] = 0
      BY <3>1, <3>2, NowhereElse DEF Faithful
    <3>4. Shows[a] = [at |-> "claimed", by |-> o, sent |-> 0]
      BY <2>5, <3>3, ShownAs DEF Place
    <3>5. sent'[a] = 1
      BY <2>1, <3>3 DEF Faithful, Typed, PastTyped
    <3>6. Shown(a)' = [at |-> "claimed", by |-> o, sent |-> 1]
      BY <2>1, <2>3, <2>5, <3>3, <3>5, ShownAs DEF Place
    <3>7. Shown(a)' = [Shows[a] EXCEPT !.sent = 1]
      BY <3>4, <3>6
    <3>8. Shows' = [Shows EXCEPT ![a] = [Shows[a] EXCEPT !.sent = 1]]
      BY <2>2, <3>7, ShowsOnly
    <3>9. Delivery!Send(a)
      BY <3>2, <3>4, <3>8 DEF Delivery!Send, Delivery!Led
    <3>10. QED
      BY <2>2, <3>9, OnlyActs DEF Delivery!Acts
  <2>6. QED
    BY <2>4, <2>5
<1>3. QED
  BY <1>1, <1>2 DEF Queue, HoldWaiting, ReleaseOther, CancelEntry, Drain, RejectDirect, RejectEntry

LEMMA ClaimDelivers ==
  ASSUME ScheduleAssumption, Faithful, NEW o \in Schedulers, NEW a \in Actions, NEW timed \in BOOLEAN,
         row[a].status \in {"scheduled", "held"}, Claim(o, a, timed)
  PROVE  Delivered
<1>1. o \in Live /\ UNCHANGED <<life, history>> /\ RowTyped(row[a])
  BY DEF Claim, Faithful, Typed, RowsTyped
<1>2. row'[a].status = "dispatching" /\ row'[a].owner = o /\ row'[a].manual = row[a].manual
      /\ \A b \in Actions : b # a => row'[b] = row[b]
  BY DEF Claim, Faithful, Typed, RowsTyped, Rows
<1>3. Only(a) /\ (IsLoose(a)' <=> IsLoose(a))
  BY <1>1, <1>2, RowOnly DEF IsLoose
<1>4. CASE IsLoose(a)
  BY <1>3, <1>4, ShownAs, SameShown
<1>5. CASE ~IsLoose(a)
  <2>1. row[a].status = "scheduled"
    BY <1>1, <1>5 DEF RowTyped, IsLoose
  <2>2. Shows[a] = [at |-> "scheduled", by |-> row[a].owner, sent |-> sent[a]]
    BY <1>5, <2>1, ShownAs DEF Place, Claimed
  <2>3. Shown(a)' = [at |-> "claimed", by |-> o, sent |-> sent[a]]
    BY <1>1, <1>2, <1>3, <1>5, ShownAs DEF Place, Claimed
  <2>4. Shown(a)' = Delivery!Put(a, "claimed", o)
    BY <2>2, <2>3 DEF Delivery!Put
  <2>5. Shows' = [Shows EXCEPT ![a] = Delivery!Put(a, "claimed", o)]
    BY <1>3, <2>4, ShowsOnly
  <2>6. Delivery!Claim(o, a)
    BY <1>1, <2>2, <2>5 DEF Delivery!Claim
  <2>7. QED
    BY <1>3, <2>6, OnlyActs DEF Delivery!Acts
<1>6. QED
  BY <1>4, <1>5

LEMMA CreateDelivers ==
  ASSUME ScheduleAssumption, Faithful, NEW o \in Schedulers, NEW a \in Actions, NEW manual \in BOOLEAN,
         Create(o, a, manual)
  PROVE  Delivered
<1>1. UNCHANGED <<life, history>> /\ row[a].status = "none" /\ RowTyped(row[a]) /\ row[a].owner = Nobody
  BY DEF Create, Faithful, Typed, RowsTyped, RowTyped, Claimed
<1>2. row'[a].status = (IF manual THEN "held" ELSE "scheduled") /\ row'[a].owner = Nobody
      /\ row'[a].manual = manual /\ \A b \in Actions : b # a => row'[b] = row[b]
  BY DEF Create, Faithful, Typed, RowsTyped
<1>3. Only(a)
  BY <1>1, <1>2, RowOnly
<1>4. ~row[a].manual
  BY <1>1 DEF RowTyped
<1>5. CASE a \in torn
  <2>1. IsLoose(a) /\ IsLoose(a)'
    BY <1>1, <1>5 DEF IsLoose
  <2>2. QED
    BY <1>3, <2>1, ShownAs, SameShown
<1>6. CASE a \notin torn
  <2>1. ~IsLoose(a) /\ (IsLoose(a)' <=> manual)
    BY <1>1, <1>2, <1>4, <1>6 DEF IsLoose
  <2>2. Shows[a] = [at |-> "none", by |-> Nobody, sent |-> sent[a]]
    BY <1>1, <2>1, ShownAs DEF Place, Claimed
  <2>3. CASE manual
    <3>1. Shows' = [Shows EXCEPT ![a] = Unseen]
      BY <1>3, <2>1, <2>3, ShownAs, ShowsOnly
    <3>2. Delivery!Loosen(a)
      BY <2>2, <3>1 DEF Delivery!Loosen, Delivery!Loose, Unseen
    <3>3. QED
      BY <1>3, <3>2, OnlyActs DEF Delivery!Acts
  <2>4. CASE ~manual
    <3>1. Shown(a)' = [at |-> "scheduled", by |-> Nobody, sent |-> sent[a]]
      BY <1>1, <1>2, <2>1, <2>4, ShownAs DEF Place, Claimed
    <3>2. Shown(a)' = [Shows[a] EXCEPT !.at = "scheduled"]
      BY <2>2, <3>1
    <3>3. Shows' = [Shows EXCEPT ![a].at = "scheduled"]
      BY <1>3, <3>2, ShowsOnly
    <3>4. Delivery!Schedule(a)
      BY <2>2, <3>3 DEF Delivery!Schedule
    <3>5. QED
      BY <1>3, <3>4, OnlyActs DEF Delivery!Acts
  <2>5. QED
    BY <2>3, <2>4
<1>7. QED
  BY <1>5, <1>6

(* A row that ends, or is deleted, without a claim.                        *)
LEMMA LeavesShown ==
  ASSUME ScheduleAssumption, Faithful, UNCHANGED <<life, history>>, NEW a \in Actions,
         NEW status \in Statuses \ Claimed, row[a].status \notin Claimed,
         row' = [row EXCEPT ![a].status = status]
  PROVE  /\ Only(a) /\ (IsLoose(a)' <=> IsLoose(a))
         /\ IsLoose(a) => Delivered
         /\ ~IsLoose(a) => /\ Shows[a].at = row[a].status
                           /\ Shows' = [Shows EXCEPT ![a].at = status]
<1>1. row'[a].status = status /\ row'[a].owner = row[a].owner /\ row'[a].manual = row[a].manual
      /\ \A b \in Actions : b # a => row'[b] = row[b]
  BY DEF Faithful, Typed, RowsTyped, Rows
<1>2. Only(a) /\ (IsLoose(a)' <=> IsLoose(a))
  BY <1>1, RowOnly DEF IsLoose
<1>3. IsLoose(a) => Delivered
  BY <1>2, ShownAs, SameShown
<1>4. ASSUME ~IsLoose(a)
      PROVE  Shows[a].at = row[a].status /\ Shows' = [Shows EXCEPT ![a].at = status]
  <2>1. Shows[a] = [at |-> row[a].status, by |-> row[a].owner, sent |-> sent[a]]
    BY <1>4, ShownAs DEF Place
  <2>2. Shown(a)' = [at |-> status, by |-> row[a].owner, sent |-> sent[a]]
    BY <1>1, <1>2, <1>4, ShownAs DEF Place
  <2>3. Shown(a)' = [Shows[a] EXCEPT !.at = status]
    BY <2>1, <2>2
  <2>4. QED
    BY <1>2, <2>1, <2>3, ShowsOnly
<1>5. QED
  BY <1>2, <1>3, <1>4

LEMMA TimeDelivers ==
  ASSUME ScheduleAssumption, Faithful, NEW a \in Actions, Time(a)
  PROVE  Delivered
<1>1. CASE Prune(a)
  <2>1. /\ row[a].status \in Ended /\ row[a].status \notin Claimed /\ UNCHANGED <<life, history>>
        /\ row' = [row EXCEPT ![a].status = "gone"] /\ "gone" \in Statuses \ Claimed
    BY <1>1 DEF Prune, Ended, Claimed, Statuses
  <2>2. CASE IsLoose(a)
    BY <2>1, <2>2, LeavesShown
  <2>3. CASE ~IsLoose(a)
    <3>1. Only(a) /\ Shows[a].at = row[a].status /\ Shows' = [Shows EXCEPT ![a].at = "gone"]
      BY <2>1, <2>3, LeavesShown
    <3>2. Delivery!Forget(a)
      BY <2>1, <3>1 DEF Delivery!Forget, Delivery!Endings, Ended
    <3>3. QED
      BY <3>1, <3>2, OnlyActs DEF Delivery!Acts
  <2>4. QED
    BY <2>2, <2>3
<1>2. CASE FallDue(a) \/ Expire(a)
  BY <1>2, NothingShown DEF FallDue, Expire
<1>3. QED
  BY <1>1, <1>2 DEF Time

LEMMA CancelDelivers ==
  ASSUME ScheduleAssumption, Faithful, NEW o \in Schedulers, NEW a \in Actions, Cancel(o, a)
  PROVE  Delivered
<1>1. /\ row[a].status \in {"scheduled", "failed", "held"} /\ row[a].status \notin Claimed
      /\ UNCHANGED <<life, history>> /\ row' = [row EXCEPT ![a].status = "cancelled"]
      /\ "cancelled" \in Statuses \ Claimed
  BY DEF Cancel, Claimed, Statuses
<1>2. CASE IsLoose(a)
  BY <1>1, <1>2, LeavesShown
<1>3. CASE ~IsLoose(a)
  <2>1. Only(a) /\ Shows[a].at = row[a].status /\ Shows' = [Shows EXCEPT ![a].at = "cancelled"]
    BY <1>1, <1>3, LeavesShown
  <2>2. row[a].status # "held"
    BY <1>3 DEF IsLoose, Faithful, Typed, RowsTyped, RowTyped
  <2>3. Delivery!Withdraw(a)
    BY <1>1, <2>1, <2>2 DEF Delivery!Withdraw
  <2>4. QED
    BY <2>1, <2>3, OnlyActs DEF Delivery!Acts
<1>4. QED
  BY <1>2, <1>3

LEMMA CancelQueuedDelivers ==
  ASSUME ScheduleAssumption, Faithful, NEW o \in Schedulers, NEW a \in Actions, CancelQueued(o, a)
  PROVE  Delivered
<1>1. UNCHANGED <<life, history>> /\ row' = [row EXCEPT ![a] = Marked(@, "cancelled")]
      /\ fifo[o][a] # "none" /\ o \in Live
  BY DEF CancelQueued, DropEntry
<1>2. ASSUME ~IsLoose(a)
      PROVE  row[a].owner \in Live /\ sent[a] = 0
  <2>1. ~row[a].manual /\ a \notin torn /\ Single(a)
    BY <1>2 DEF IsLoose, Faithful, AllTimely, Timely
  <2>2. Traced(o, a) /\ ~Past(a)
    BY <1>1 DEF Traced, Past, Out
  <2>3. QED
    BY <1>1, <2>1, <2>2, NowhereElse DEF Faithful
<1>3. QED
  <2>1. "cancelled" \in Kinds /\ "cancelled" # "started"
    BY DEF Kinds
  <2>2. ~IsLoose(a) /\ row[a].status \in Claimed =>
          row[a].owner \in Live /\ ("cancelled" \in Final => ("cancelled" = "started" <=> sent[a] = 1))
    BY <1>2, <2>1
  <2>3. QED
    BY <1>1, <2>1, <2>2, MarkDelivers DEF Faithful

LEMMA PersonDelivers ==
  ASSUME ScheduleAssumption, Faithful, NEW o \in Schedulers, NEW a \in Actions,
         Person(o, a) \/ ClaimNextDue(o, a)
  PROVE  Delivered
<1>1. CASE Update(o, a)
  BY <1>1, NothingShown DEF Update
<1>2. CASE SendNow(o, a) \/ ClaimNextDue(o, a)
  BY <1>2, ClaimDelivers DEF SendNow, ClaimNextDue
<1>3. QED
  BY <1>1, <1>2, CreateDelivers, CancelDelivers, CancelQueuedDelivers DEF Person

(* The claims of dead processes: what was queued was not sent, or is torn. *)
LEMMA RecoverDelivers ==
  ASSUME ScheduleAssumption, Faithful, NEW o \in Schedulers, Recover(o), UNCHANGED history,
         Live' \in {Live} \union {Live \union {p} : p \in Schedulers \ Live}
  PROVE  Delivered
<1> DEFINE Left(status) == {a \in Recoverable(o) : ~IsLoose(a) /\ row[a].status = status}
<1>1. \A a \in Recoverable(o) : /\ a \in Actions /\ row[a].status \in Claimed /\ row[a].owner \notin Live
                                /\ RowTyped(row[a]) /\ row'[a] = Recovered(row[a])
  BY DEF Recover, Recoverable, Expired, Faithful, Typed, RowsTyped
<1>2. \A a \in Actions : a \notin Recoverable(o) => row'[a] = row[a]
  BY DEF Recover
<1>3. \A a \in Actions : row'[a].manual = row[a].manual
  BY <1>1, <1>2, RecoveredTyped
<1>4. \A a \in Actions : IsLoose(a)' <=> IsLoose(a)
  BY <1>3 DEF IsLoose
<1>5. PICK again, failed : again = Left("queued") /\ failed = Left("dispatching")
  OBVIOUS
<1>6. \A a \in again \union failed : Shows[a] = [at |-> "claimed", by |-> row[a].owner, sent |-> sent[a]]
  BY <1>1, <1>5, ShownAs DEF Place
<1>7. again \subseteq Delivery!Orphans /\ failed \subseteq Delivery!Orphans
  <2>1. ASSUME NEW a \in again \union failed
        PROVE  a \in Actions /\ row[a].owner \notin Live /\ Shows[a].at = "claimed" /\ Shows[a].by = row[a].owner
    <3>1. Shows[a] = [at |-> "claimed", by |-> row[a].owner, sent |-> sent[a]]
      BY <1>6, <2>1
    <3>2. a \in Actions /\ row[a].owner \notin Live
      BY <1>1, <1>5, <2>1
    <3>3. QED
      BY <3>1, <3>2
  <2>2. QED
    BY <2>1 DEF Delivery!Orphans
<1>8. \A a \in again : Shows[a].sent = 0
  <2> SUFFICES ASSUME NEW a \in again
               PROVE  Shows[a].sent = 0
    OBVIOUS
  <2>1. a \in Actions /\ ~IsLoose(a) /\ row[a].status = "queued" /\ row[a].owner \notin Live
    BY <1>1, <1>5
  <2>2. Single(a) /\ a \notin torn /\ sent[a] \in Nat
    BY <2>1 DEF IsLoose, Faithful, AllTimely, Timely, Typed, PastTyped
  <2>3. sent[a] = 0
    BY <2>1, <2>2 DEF Single, TornQueued
  <2>4. Shows[a] = [at |-> "claimed", by |-> row[a].owner, sent |-> sent[a]]
    BY <1>6
  <2>5. QED
    BY <2>3, <2>4
<1>9. ASSUME NEW a \in Actions
      PROVE  Shown(a)' = IF a \in again THEN Delivery!Put(a, "scheduled", Nobody)
                         ELSE IF a \in failed THEN Delivery!Put(a, "failed", Nobody)
                         ELSE Shows[a]
  <2>1. CASE a \in again \union failed
    <3>1. ~IsLoose(a) /\ ~row[a].manual /\ a \in Recoverable(o)
          /\ row[a].status = IF a \in again THEN "queued" ELSE "dispatching"
      BY <1>5, <2>1 DEF IsLoose
    <3>2. row'[a] = Recovered(row[a])
      BY <1>1, <3>1
    <3>3. row'[a].status = (IF a \in again THEN "scheduled" ELSE "failed") /\ row'[a].owner = Nobody
      BY <3>1, <3>2 DEF Recovered
    <3>4. Shown(a)' = [at |-> IF a \in again THEN "scheduled" ELSE "failed", by |-> Nobody, sent |-> sent[a]]
      BY <1>4, <3>1, <3>3, ShownAs DEF Place, Claimed
    <3>5. Shows[a] = [at |-> "claimed", by |-> row[a].owner, sent |-> sent[a]]
      BY <1>6, <2>1
    <3>6. CASE a \in again
      <4>1. Delivery!Put(a, "scheduled", Nobody)
              = [at |-> "scheduled", by |-> Nobody, sent |-> sent[a]]
        BY <3>5 DEF Delivery!Put
      <4>2. QED
        BY <3>4, <3>6, <4>1
    <3>7. CASE a \notin again /\ a \in failed
      <4>1. Delivery!Put(a, "failed", Nobody)
              = [at |-> "failed", by |-> Nobody, sent |-> sent[a]]
        BY <3>5 DEF Delivery!Put
      <4>2. QED
        BY <3>4, <3>7, <4>1
    <3>8. QED
      BY <2>1, <3>6, <3>7
  <2>2. CASE a \in Recoverable(o) /\ a \notin again \union failed
    <3>1. IsLoose(a)
      BY <1>1, <1>5, <2>2 DEF Claimed
    <3>2. QED
      BY <1>4, <2>2, <3>1, ShownAs
  <2>3. CASE a \notin Recoverable(o)
    <3>1. a \notin again /\ a \notin failed
      BY <1>5, <2>3
    <3>2. Shown(a)' = Shown(a)
      BY <1>2, <2>3 DEF Shown
    <3>3. QED
      BY <3>1, <3>2, ShownAs
  <2>4. QED
    BY <2>1, <2>2, <2>3
<1>10. Shows' = [m \in Actions |->
          IF m \in again THEN Delivery!Put(m, "scheduled", Nobody)
          ELSE IF m \in failed THEN Delivery!Put(m, "failed", Nobody)
          ELSE Shows[m]]
  BY <1>9 DEF Shows
<1>11. Delivery!Recover
  BY <1>7, <1>8, <1>10 DEF Delivery!Recover
<1>12. QED
  BY <1>11 DEF Delivered, Delivery!Next

(* An end loses what was queued and sent, or just being sent.              *)
LEMMA EndDelivers ==
  ASSUME ScheduleAssumption, Faithful, NEW o \in Schedulers, End(o)
  PROVE  Delivered
<1>1. Live' = Live \ {o} /\ row' = row /\ o \in Live
  BY DEF End, Live, Faithful, Typed, LifeTyped
<1>2. torn' = torn \union {a \in Actions : row[a].status = "queued" /\ row[a].owner = o /\ sent'[a] > 0}
  BY DEF End
<1>3. \A a \in Actions : sent'[a] = sent[a] \/ (<<o, a>> \in starting /\ sent'[a] = sent[a] + 1)
  BY DEF End
<1>4. PICK lost, taken : /\ lost = {a \in Actions : ~IsLoose(a) /\ a \in torn'}
                         /\ taken = {a \in Actions : ~IsLoose(a) /\ sent'[a] # sent[a]}
  OBVIOUS
<1>5. \A a \in lost : row[a].status = "queued" /\ row[a].owner = o
  BY <1>2, <1>4 DEF IsLoose
<1>6. \A a \in taken : row[a].status \in Claimed /\ row[a].owner = o /\ sent[a] = 0 /\ sent'[a] = 1
  <2> SUFFICES ASSUME NEW a \in taken
               PROVE  row[a].status \in Claimed /\ row[a].owner = o /\ sent[a] = 0 /\ sent'[a] = 1
    OBVIOUS
  <2>1. a \in Actions /\ ~IsLoose(a) /\ <<o, a>> \in starting /\ sent'[a] = sent[a] + 1
    BY <1>3, <1>4
  <2>2. ~row[a].manual /\ a \notin torn /\ Single(a)
    BY <2>1 DEF IsLoose, Faithful, AllTimely, Timely
  <2>3. Traced(o, a) /\ ~Past(a)
    BY <2>1 DEF Traced, Past, Out
  <2>4. row[a].owner = o /\ row[a].status \in Claimed /\ sent[a] = 0
    BY <1>1, <2>1, <2>2, <2>3, NowhereElse DEF Faithful
  <2>5. QED
    BY <2>1, <2>4
<1>7. \A a \in lost \union taken :
        a \in Actions /\ Shows[a] = [at |-> "claimed", by |-> o, sent |-> sent[a]]
  BY <1>4, <1>5, <1>6, ShownAs DEF Place, Claimed
<1>8. lost \subseteq Delivery!LedBy(o) /\ taken \subseteq Delivery!LedBy(o)
  <2>1. ASSUME NEW a \in lost \union taken
        PROVE  a \in Actions /\ Shows[a].at = "claimed" /\ Shows[a].by = o
    <3>1. a \in Actions /\ Shows[a] = [at |-> "claimed", by |-> o, sent |-> sent[a]]
      BY <1>7, <2>1
    <3>2. QED
      BY <3>1
  <2>2. QED
    BY <1>1, <2>1 DEF Delivery!LedBy, Delivery!Led
<1>9. \A a \in taken : Shows[a].sent = 0
  <2> SUFFICES ASSUME NEW a \in taken
               PROVE  Shows[a].sent = 0
    OBVIOUS
  <2>1. Shows[a] = [at |-> "claimed", by |-> o, sent |-> sent[a]] /\ sent[a] = 0
    BY <1>6, <1>7
  <2>2. QED
    BY <2>1
<1>10. ASSUME NEW a \in Actions
       PROVE  Shown(a)' = IF a \in lost THEN Unseen
                          ELSE IF a \in taken THEN [Shows[a] EXCEPT !.sent = 1]
                          ELSE Shows[a]
  <2>1. CASE IsLoose(a)
    <3>1. IsLoose(a)' /\ a \notin lost /\ a \notin taken
      BY <1>1, <1>2, <1>4, <2>1 DEF IsLoose
    <3>2. QED
      BY <2>1, <3>1, ShownAs
  <2>2. CASE a \in lost
    <3>1. IsLoose(a)'
      BY <1>4, <2>2 DEF IsLoose
    <3>2. QED
      BY <2>2, <3>1, ShownAs
  <2>3. CASE ~IsLoose(a) /\ a \notin lost
    <3>1. ~IsLoose(a)'
      BY <1>1, <1>4, <2>3 DEF IsLoose
    <3>2. CASE a \in taken
      <4>1. Shown(a)' = [at |-> "claimed", by |-> o, sent |-> 1]
        BY <1>1, <1>6, <3>1, <3>2, ShownAs DEF Place
      <4>2. Shows[a] = [at |-> "claimed", by |-> o, sent |-> sent[a]]
        BY <1>7, <3>2
      <4>3. Shown(a)' = [Shows[a] EXCEPT !.sent = 1]
        BY <4>1, <4>2
      <4>4. QED
        BY <2>3, <3>2, <4>3
    <3>3. CASE a \notin taken
      <4>1. sent'[a] = sent[a]
        BY <1>4, <2>3, <3>3
      <4>2. Shown(a)' = Shown(a)
        BY <1>1, <2>3, <3>1, <4>1, ShownAs
      <4>3. QED
        BY <2>3, <3>3, <4>2, ShownAs
    <3>4. QED
      BY <3>2, <3>3
  <2>4. QED
    BY <2>1, <2>2, <2>3
<1>11. Shows' = [m \in Actions |-> IF m \in lost THEN Unseen
                                   ELSE IF m \in taken THEN [Shows[m] EXCEPT !.sent = 1]
                                   ELSE Shows[m]]
  BY <1>10 DEF Shows
<1>12. Delivery!Die(o)
  BY <1>1, <1>8, <1>9, <1>11 DEF Delivery!Die, Delivery!Loose, Unseen
<1>13. QED
  BY <1>12 DEF Delivered, Delivery!Next

LEMMA StepDelivers == ScheduleAssumption /\ Faithful /\ [Next]_vars => Delivered /\ Faithful'
<1> SUFFICES ASSUME ScheduleAssumption, Faithful, [Next]_vars
             PROVE  Delivered /\ Faithful'
  OBVIOUS
<1>1. Faithful'
  BY NextTypes, NextTimely, NextTruthful DEF Faithful
<1>2. CASE UNCHANGED vars
  BY <1>1, <1>2, NothingShown DEF vars
<1>3. ASSUME NEW o \in Schedulers, Process(o)
      PROVE  Delivered
  <2>1. CASE Start(o)
    <3>1. Live' = Live \union {o} /\ o \notin Live
      BY <2>1 DEF Start, Live, Faithful, Typed, LifeTyped
    <3>2. QED
      BY <2>1, <3>1, RecoverDelivers DEF Start
  <2>2. CASE Heartbeat(o)
    BY <2>2, RecoverDelivers DEF Heartbeat, Live
  <2>3. QED
    BY <1>3, <2>1, <2>2, EndDelivers DEF Process
<1>4. QED
  BY <1>1, <1>2, <1>3, TimeDelivers, PersonDelivers, DispatchDelivers, QueueDelivers, DeliverDelivers
     DEF Next

LEMMA InitDelivers == ScheduleAssumption /\ Init => Faithful /\ Delivery!Init
<1> SUFFICES ASSUME ScheduleAssumption, Init
             PROVE  Faithful /\ Delivery!Init
  OBVIOUS
<1>1. Faithful
  BY InitTypes, InitTimely DEF Faithful, AllTruthful, Truthful, Init, Idle
<1>2. \A a \in Actions : Shown(a) = [at |-> "none", by |-> Nobody, sent |-> 0]
  BY DEF Init, Shown, Claimed
<1>3. QED
  BY <1>1, <1>2 DEF Init, Delivery!Init, Shows, Live

(* The whole of the scheduled messages, with their leases, queues, events  *)
(* and dispatches, implements ScheduledDelivery for any actions and        *)
(* schedulers: only a live claimant sends, and once; what a row says of    *)
(* its end is true; what was sent is not scheduled again (claim,           *)
(* handleRegistryEvent, recoverExpiredClaims).                             *)
THEOREM MessagesGoAsPromised == Spec => SendsAsPromised
<1>1. Init => Faithful /\ Delivery!Init
  BY InitDelivers, ScheduleAssumption
<1>2. Faithful /\ [Next]_vars => [Delivery!Next]_(Delivery!vars) /\ Faithful'
  BY StepDelivers, ScheduleAssumption DEF Delivered, Delivery!vars
<1>3. QED
  BY <1>1, <1>2, PTL DEF Spec, SendsAsPromised, Delivery!Spec

=============================================================================
