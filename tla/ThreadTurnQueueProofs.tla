----------------------- MODULE ThreadTurnQueueProofs -----------------------
(* Theorems about ThreadTurnQueue, for any number of entries, promise      *)
(* chains, startTurn calls and notices.                                    *)
EXTENDS ThreadTurnQueue, TLAPS, SequenceTheorems, FiniteSetTheorems, WellFoundedInduction

-----------------------------------------------------------------------------
(* The helpers on sequences and numbers return what they should. *)

(* A nonempty set of naturals has its minimum in it. *)
LEMMA MinIn ==
  ASSUME NEW I \in SUBSET Nat, I # {}
  PROVE  Min(I) \in I /\ \A j \in I : Min(I) <= j
<1> DEFINE R == {p \in Nat \X Nat : p[1] < p[2]}
<1>1. IsWellFoundedOn(R, Nat)
  <2>1. OpToRel(<, Nat) = R
    BY DEF OpToRel
  <2> QED BY <2>1, NatLessThanWellFounded
<1>2. PICK x \in I : \A y \in I : ~ (<<y, x>> \in R)
  <2> HIDE DEF R
  <2> QED BY <1>1, WFMin
<1>3. ASSUME NEW y \in I  PROVE x <= y
  <2>1. <<y, x>> \in R <=> y < x
    OBVIOUS
  <2> QED BY <1>2, <2>1
<1> QED BY <1>3 DEF Min

(* Putting an element into a sequence, and taking one out, leaves a sequence. *)
LEMMA InsertAtType ==
  ASSUME NEW S, NEW s \in Seq(S), NEW e \in S, NEW i \in 1..(Len(s) + 1)
  PROVE  InsertAt(s, i, e) \in Seq(S)
BY DEF InsertAt

LEMMA RemoveAtType ==
  ASSUME NEW S, NEW s \in Seq(S), NEW i \in 1..Len(s)
  PROVE  RemoveAt(s, i) \in Seq(S) /\ Len(RemoveAt(s, i)) = Len(s) - 1
<1> DEFINE a == SubSeq(s, 1, i - 1)
           b == SubSeq(s, i + 1, Len(s))
<1>1. a \in Seq(S) /\ Len(a) = i - 1
  OBVIOUS
<1>2. b \in Seq(S) /\ Len(b) = Len(s) - i
  OBVIOUS
<1>3. RemoveAt(s, i) = a \o b
  BY DEF RemoveAt
<1> HIDE DEF a, b
<1> QED BY <1>1, <1>2, <1>3

LEMMA RemoveFirstType ==
  ASSUME NEW S, NEW s \in Seq(S), NEW e
  PROVE  RemoveFirst(s, e) \in Seq(S)
<1>1. CASE \E i \in 1..Len(s) : s[i] = e
  <2> DEFINE I == {i \in 1..Len(s) : s[i] = e}
  <2>1. Min(I) \in 1..Len(s)
    <3>1. I \in SUBSET Nat /\ I # {} /\ I \subseteq 1..Len(s)
      BY <1>1
    <3> HIDE DEF I
    <3> QED BY <3>1, MinIn
  <2>2. RemoveFirst(s, e) = RemoveAt(s, Min(I))
    BY <1>1 DEF RemoveFirst, SelectInSeq
  <2> QED BY <2>1, <2>2, RemoveAtType
<1> QED BY <1>1 DEF RemoveFirst

(* The index of an entry, and of the next waiting one, is in the FIFO or 0. *)
LEMMA IndexOfType ==
  ASSUME NEW q \in Seq(Entries), NEW e
  PROVE  /\ IndexOf(q, e) \in 0..Len(q)
         /\ IndexOf(q, e) # 0 => q[IndexOf(q, e)] = e
         /\ (\E i \in 1..Len(q) : q[i] = e) => IndexOf(q, e) # 0
<1> DEFINE I == {i \in 1..Len(q) : q[i] = e}
<1>1. I # {} => Min(I) \in I
  <2>1. I \in SUBSET Nat
    OBVIOUS
  <2> HIDE DEF I
  <2> QED BY <2>1, MinIn
<1>2. IndexOf(q, e) = IF I # {} THEN Min(I) ELSE 0
  BY DEF IndexOf, SelectInSeq
<1> QED BY <1>1, <1>2

LEMMA NextWaitingType ==
  ASSUME NEW q \in Seq(Entries)
  PROVE  NextWaiting(q) \in 0..Len(q)
<1> DEFINE I == {i \in 1..Len(q) : q[i] \notin paused}
<1>1. I # {} => Min(I) \in I
  <2>1. I \in SUBSET Nat
    OBVIOUS
  <2> HIDE DEF I
  <2> QED BY <2>1, MinIn
<1>2. NextWaiting(q) = IF I # {} THEN Min(I) ELSE 0
  BY DEF NextWaiting, SelectInSeq
<1> QED BY <1>1, <1>2

-----------------------------------------------------------------------------
(* A new revision is one of the finitely many, and there is one to take.   *)
LEMMA MaxRevisionType == MaxRevision \in Nat /\ MaxRevision > 0
BY QueueAssumption, FS_CardinalityType DEF MaxRevision

LEMMA NewRevisionType ==
  ASSUME task \in [Tasks -> Chain]
  PROVE  NewRevision \in Revisions /\ NewRevision # revision
<1> DEFINE T == {task[t].rev : t \in Tasks}
           Used == T \union {revision}
           Left == (1..MaxRevision) \ Used
<1>1. IsFiniteSet(T) /\ Cardinality(T) <= Cardinality(Tasks)
  <2> DEFINE f == [t \in Tasks |-> task[t].rev]
  <2>1. f \in Surjection(Tasks, T)
    BY DEF Surjection
  <2> HIDE DEF f, T
  <2> QED BY <2>1, QueueAssumption, FS_Surjection
<1>2. IsFiniteSet(Used) /\ Cardinality(Used) <= Cardinality(Tasks) + 1
  <2> HIDE DEF T
  <2>1. Cardinality(T) \in Nat
    BY <1>1, FS_CardinalityType
  <2>2. Cardinality(Tasks) \in Nat
    BY QueueAssumption, FS_CardinalityType
  <2>3. IsFiniteSet(T \union {revision})
        /\ Cardinality(T \union {revision}) \in {Cardinality(T), Cardinality(T) + 1}
    BY <1>1, FS_AddElement
  <2> QED BY <1>1, <2>1, <2>2, <2>3
<1>3. Cardinality(1..MaxRevision) = MaxRevision
  BY MaxRevisionType, FS_Interval
<1>4. Left # {}
  <2> SUFFICES ASSUME 1..MaxRevision \subseteq Used PROVE FALSE
    OBVIOUS
  <2> HIDE DEF Used
  <2>1. Cardinality(1..MaxRevision) <= Cardinality(Used)
    BY <1>2, FS_Subset
  <2>2. Cardinality(Used) \in Nat /\ Cardinality(Tasks) \in Nat
    BY <1>2, QueueAssumption, FS_CardinalityType
  <2> QED BY <1>2, <1>3, <2>1, <2>2 DEF MaxRevision
<1>5. NewRevision = Min(Left)
  <2>1. Used = {revision} \union T
    OBVIOUS
  <2> QED BY <2>1 DEF NewRevision
<1>6. Left \in SUBSET Nat /\ Left \subseteq Revisions /\ revision \notin Left
  BY MaxRevisionType DEF Revisions
<1> HIDE DEF Left
<1> QED BY <1>4, <1>5, <1>6, MinIn

-----------------------------------------------------------------------------
(* The states a suspended chain can be moved to. *)

LEMMA NoTurnType == NoTurn \in AnyTurn
BY DEF NoTurn, AnyTurn, AnyEntry, NoEntry

LEMMA IdleChain == IdleTask \in Chain
BY MaxRevisionType, NoTurnType
DEF IdleTask, Chain, PCs, Onward, Contexts, Edits, Statuses, AnyEntry, AnyReason, Revisions

(* Each local of a chain may be set to any value of its type. *)
LEMMA FieldType ==
  ASSUME NEW tk \in Chain
  PROVE  /\ \A x \in PCs : [tk EXCEPT !.pc = x] \in Chain
         /\ \A x \in Onward : [tk EXCEPT !.then = x] \in Chain
         /\ \A x \in Contexts : [tk EXCEPT !.ctx = x] \in Chain
         /\ \A x \in AnyEntry : [tk EXCEPT !.entry = x] \in Chain /\ [tk EXCEPT !.prev = x] \in Chain
         /\ \A x \in AnyTurn : [tk EXCEPT !.turn = x] \in Chain
         /\ \A x \in Statuses : [tk EXCEPT !.status = x] \in Chain
         /\ \A x \in BOOLEAN : [tk EXCEPT !.early = x] \in Chain /\ [tk EXCEPT !.keep = x] \in Chain
         /\ \A x \in Edits : [tk EXCEPT !.op = x] \in Chain
         /\ \A x \in Nat : [tk EXCEPT !.i = x] \in Chain
         /\ \A x \in AnyReason : [tk EXCEPT !.reason = x] \in Chain /\ [tk EXCEPT !.ahead = x] \in Chain
         /\ \A x \in SUBSET Reasons : [tk EXCEPT !.kept = x] \in Chain
         /\ \A x \in Seq(Reasons) : [tk EXCEPT !.snap = x] \in Chain
         /\ \A x \in Revisions : [tk EXCEPT !.rev = x] \in Chain
<1>1. \A x \in PCs : [tk EXCEPT !.pc = x] \in Chain
  BY DEF Chain
<1>2. \A x \in Onward : [tk EXCEPT !.then = x] \in Chain
  BY DEF Chain
<1>3. \A x \in Contexts : [tk EXCEPT !.ctx = x] \in Chain
  BY DEF Chain
<1>4. \A x \in AnyEntry : [tk EXCEPT !.entry = x] \in Chain
  BY DEF Chain
<1>5. \A x \in AnyEntry : [tk EXCEPT !.prev = x] \in Chain
  BY DEF Chain
<1>6. \A x \in AnyTurn : [tk EXCEPT !.turn = x] \in Chain
  BY DEF Chain
<1>7. \A x \in Statuses : [tk EXCEPT !.status = x] \in Chain
  BY DEF Chain
<1>8. \A x \in BOOLEAN : [tk EXCEPT !.early = x] \in Chain
  BY DEF Chain
<1>9. \A x \in BOOLEAN : [tk EXCEPT !.keep = x] \in Chain
  BY DEF Chain
<1>10. \A x \in Edits : [tk EXCEPT !.op = x] \in Chain
  BY DEF Chain
<1>11. \A x \in Nat : [tk EXCEPT !.i = x] \in Chain
  BY DEF Chain
<1>12. \A x \in AnyReason : [tk EXCEPT !.reason = x] \in Chain
  BY DEF Chain
<1>13. \A x \in AnyReason : [tk EXCEPT !.ahead = x] \in Chain
  BY DEF Chain
<1>14. \A x \in SUBSET Reasons : [tk EXCEPT !.kept = x] \in Chain
  BY DEF Chain
<1>15. \A x \in Seq(Reasons) : [tk EXCEPT !.snap = x] \in Chain
  BY DEF Chain
<1>16. \A x \in Revisions : [tk EXCEPT !.rev = x] \in Chain
  BY DEF Chain
<1> QED
  BY <1>1, <1>2, <1>3, <1>4, <1>5, <1>6, <1>7, <1>8, <1>9, <1>10, <1>11, <1>12,
     <1>13, <1>14, <1>15, <1>16

(* A chain that does not work on an entry may replace any other.           *)
Loose == {c \in Chain : c.pc \notin Working /\ (c.pc \in Blocking => c.reason \in Reasons)}
Plain == PCs \ (Working \union Blocking)

LEMMA MoveOn ==
  ASSUME TaskOK, NEW t \in Tasks, NEW c \in Loose, task' = [task EXCEPT ![t] = c]
  PROVE  TaskOK'
BY DEF TaskOK, Loose

LEMMA PcLoose ==
  ASSUME NEW tk \in Chain, NEW pc \in Plain
  PROVE  [tk EXCEPT !.pc = pc] \in Loose
<1>1. [tk EXCEPT !.pc = pc] \in Chain
  BY FieldType DEF Plain
<1>2. [tk EXCEPT !.pc = pc].pc = pc
  BY DEF Chain
<1> QED BY <1>1, <1>2 DEF Loose, Plain

LEMMA WalkType ==
  ASSUME NEW tk \in Chain, NEW pc \in Plain, NEW i \in Nat
  PROVE  [tk EXCEPT !.pc = pc, !.i = i] \in Loose
<1> DEFINE c == [tk EXCEPT !.pc = pc, !.i = i]
<1>1. c \in Chain
  BY FieldType DEF Plain
<1>2. c.pc = pc
  BY DEF Chain
<1> QED BY <1>1, <1>2 DEF Loose, Plain

LEMMA GotoType ==
  ASSUME NEW tk \in Chain, NEW pc \in Onward \union {"left"}
  PROVE  Goto(tk, pc) \in Loose
<1>1. tk.ctx \in Contexts /\ tk.entry \in AnyEntry /\ tk.early \in BOOLEAN
  BY DEF Chain
<1>2. pc \in Plain /\ "idle" \in Plain
  BY DEF Plain, PCs, Onward, Working, Blocking
<1> DEFINE c == [IdleTask EXCEPT !.pc = pc, !.ctx = tk.ctx, !.entry = tk.entry, !.early = tk.early]
<1>3. c \in Chain
  BY <1>1, <1>2, IdleChain, FieldType DEF Plain
<1>4. c.pc = pc
  BY IdleChain DEF Chain
<1>5. IdleTask.pc = "idle"
  BY DEF IdleTask
<1> HIDE DEF c
<1>6. Goto(tk, pc) = IF pc = "idle" THEN IdleTask ELSE c
  BY DEF Goto, c
<1> QED BY <1>2, <1>3, <1>4, <1>5, <1>6, IdleChain DEF Loose, Plain

-----------------------------------------------------------------------------
(* Holding the FIFO keeps the types of what it changes. *)

HeldOK == held \in [Entries -> AnyReason]

LEMMA AddHoldReasonType ==
  ASSUME HoldOK, TaskOK, NEW r \in Reasons, AddHoldReason(r)
  PROVE  HoldOK'
<1>1. RemoveFirst(reasons, r) \in Seq(Reasons)
  BY RemoveFirstType DEF HoldOK
<1>2. revision' \in Revisions
  BY NewRevisionType DEF AddHoldReason, TaskOK
<1> QED BY <1>1, <1>2 DEF AddHoldReason, HoldOK

LEMMA HoldOnwardType ==
  ASSUME TaskOK, HeldOK, NEW t \in Tasks, NEW tk \in Chain, NEW q \in Seq(Entries),
         HoldOnward(t, tk, q)
  PROVE  TaskOK' /\ HeldOK'
<1>1. tk.then \in Onward /\ tk.i \in Nat /\ tk.reason \in AnyReason
  BY DEF Chain
<1>2. CASE HoldTargets(q, tk) = {}
  <2>1. task' = [task EXCEPT ![t] = Goto(tk, tk.then)] /\ UNCHANGED held
    BY <1>2 DEF HoldOnward
  <2> QED BY <1>1, <2>1, GotoType, MoveOn DEF HeldOK
<1>3. CASE HoldTargets(q, tk) # {}
  <2> DEFINE j == Min(HoldTargets(q, tk))
  <2>1. j \in DOMAIN q /\ j \in Nat
    <3>1. HoldTargets(q, tk) \in SUBSET Nat /\ HoldTargets(q, tk) \subseteq DOMAIN q
      BY DEF HoldTargets
    <3> QED BY <1>3, <3>1, MinIn
  <2>2. [tk EXCEPT !.pc = "holding", !.i = j + 1] \in Loose
    <3>1. "holding" \in Plain
      BY DEF Plain, PCs, Working, Blocking
    <3> HIDE DEF j
    <3>2. j + 1 \in Nat
      BY <2>1
    <3> QED BY <3>1, <3>2, WalkType
  <2>3. /\ task' = [task EXCEPT ![t] = [tk EXCEPT !.pc = "holding", !.i = j + 1]]
        /\ held' = [held EXCEPT ![q[j]] = tk.reason]
    BY <1>3 DEF HoldOnward
  <2> HIDE DEF j
  <2> QED BY <1>1, <2>1, <2>2, <2>3, MoveOn DEF HeldOK
<1> QED BY <1>2, <1>3

LEMMA HoldQueueType ==
  ASSUME TaskOK, HeldOK, HoldOK, queue \in Seq(Entries), NEW t \in Tasks,
         NEW tk \in Chain, NEW r \in Reasons, NEW keep \in BOOLEAN,
         NEW then \in Onward, HoldQueue(t, tk, r, keep, then)
  PROVE  TaskOK' /\ HeldOK' /\ HoldOK'
<1>1. CASE queue = << >>
  <2>1. task' = [task EXCEPT ![t] = Goto(tk, then)] /\ UNCHANGED <<hold, held>>
    BY <1>1 DEF HoldQueue
  <2> QED BY <2>1, GotoType, MoveOn DEF HeldOK, HoldOK, hold
<1>2. CASE queue # << >>
  <2> DEFINE loop == [tk EXCEPT !.reason = r, !.keep = keep, !.then = then, !.i = 1]
  <2>1. loop \in Chain
    <3>1. r \in AnyReason /\ 1 \in Nat
      BY DEF AnyReason
    <3> QED BY <3>1, FieldType
  <2>2. AddHoldReason(r) /\ HoldOnward(t, loop, queue)
    BY <1>2 DEF HoldQueue
  <2> HIDE DEF loop
  <2> QED BY <2>1, <2>2, AddHoldReasonType, HoldOnwardType
<1> QED BY <1>1, <1>2

LEMMA HoldAfterTurnFailureType ==
  ASSUME TaskOK, HeldOK, HoldOK, queue \in Seq(Entries), NEW t \in Tasks,
         NEW tk \in Chain, NEW then \in Onward, HoldAfterTurnFailure(t, tk, then)
  PROVE  TaskOK' /\ HeldOK' /\ HoldOK'
<1>1. "failed" \in Reasons /\ FALSE \in BOOLEAN
  BY DEF Reasons
<1>2. CASE HoldQueue(t, tk, "failed", FALSE, then)
  BY <1>1, <1>2, HoldQueueType
<1>3. CASE task' = [task EXCEPT ![t] = Goto(tk, then)] /\ UNCHANGED <<hold, held>>
  BY <1>3, GotoType, MoveOn DEF HeldOK, HoldOK, hold
<1> QED BY <1>2, <1>3 DEF HoldAfterTurnFailure

(* A hold that ends, or is cut down to the reasons still carried. *)
LEMMA SetReasonsType ==
  ASSUME NEW rs \in Seq(Reasons), NEW rev \in Revisions, SetReasons(rs, rev)
  PROVE  HoldOK'
<1>1. 0 \in Revisions
  BY MaxRevisionType DEF Revisions
<1> QED BY <1>1 DEF SetReasons, HoldOK

LEMMA DropSpentHoldType ==
  ASSUME HoldOK, NEW q, DropSpentHold(q)
  PROVE  HoldOK'
<1>1. << >> \in Seq(Reasons)
  OBVIOUS
<1> QED BY <1>1, SetReasonsType DEF DropSpentHold, HoldOK

LEMMA OnlyReasonsType ==
  ASSUME NEW rs \in Seq(Reasons), NEW kept
  PROVE  OnlyReasons(rs, kept) \in Seq(Reasons)
<1> DEFINE drop(q, r) == IF r \in kept THEN q ELSE RemoveFirst(q, r)
<1>1. \A q \in Seq(Reasons) : \A r : drop(q, r) \in Seq(Reasons)
  BY RemoveFirstType
<1>2. OnlyReasons(rs, kept) =
        drop(drop(drop(drop(rs, "lock"), "review"), "refused"), "failed")
  BY DEF OnlyReasons
<1> HIDE DEF drop
<1> QED BY <1>1, <1>2

-----------------------------------------------------------------------------
(* The admission stays an admission. *)

LEMMA AdmissionType ==
  ASSUME NEW a \in Admission, NEW t \in Tasks
  PROVE  /\ IdleAdmission \in Admission
         /\ Begin(a, t, "start") \in Admission /\ Begin(a, t, "steer") \in Admission
         /\ \A n \in Outcome : RecordTerminal(a, n) \in Admission
         /\ \A u \in AnyTurn : Acknowledge(a, t, u) \in Admission
         /\ Settle(a, t) \in Admission
         /\ TerminalOf(a) \subseteq Outcome
<1>1. IdleAdmission \in Admission
  BY NoTurnType DEF IdleAdmission, Admission
<1>2. \A x \in {"start", "steer"} : Begin(a, t, x) \in Admission
  BY <1>1 DEF Begin, Admission
<1>3. \A n \in Outcome : RecordTerminal(a, n) \in Admission
  BY DEF RecordTerminal, Admission
<1>4. \A u \in AnyTurn : Acknowledge(a, t, u) \in Admission
  BY DEF Acknowledge, Admission
<1>5. Settle(a, t) \in Admission
  BY <1>1 DEF Settle
<1>6. TerminalOf(a) \subseteq Outcome
  BY DEF TerminalOf, Admission
<1> QED BY <1>1, <1>2, <1>3, <1>4, <1>5, <1>6

-----------------------------------------------------------------------------
(* Every action keeps the types. *)

USE DEF fifo, hold, handoff, release, sched, provider, history

LEMMA TypeInit == Init => TypeOK
<1> SUFFICES ASSUME Init PROVE TypeOK
  OBVIOUS
<1>1. FifoOK
  <2>1. queue \in Seq(Entries)
    <3>1. Cardinality(Continuations) \in Nat /\ Continuations \subseteq Entries
      <4>1. IsFiniteSet(Entries)
        BY QueueAssumption, FS_Interval DEF Entries
      <4> QED BY <4>1, QueueAssumption, FS_Subset, FS_CardinalityType
    <3>2. queue \in [1..Cardinality(Continuations) -> Continuations]
      BY DEF Init
    <3> QED BY <3>1, <3>2
  <2> QED BY <2>1 DEF Init, FifoOK, AnyReason
<1>2. HoldOK /\ HandoffOK
  <2>1. 0 \in Revisions
    BY MaxRevisionType DEF Revisions
  <2>2. IdleAdmission \in Admission
    BY NoTurnType DEF IdleAdmission, Admission
  <2> QED BY <2>1, <2>2, NoTurnType DEF Init, HoldOK, HandoffOK
<1>3. ReleaseOK /\ SchedOK /\ ProviderOK /\ HistoryOK
  <2>1. SchedOK /\ ReleaseOK
    <3>1. << >> \in Seq(Tasks)
      OBVIOUS
    <3> QED BY <3>1 DEF Init, SchedOK, ReleaseOK
  <2>3. HistoryOK
    BY DEF Init, HistoryOK
  <2>2. 0 \in Nat
    OBVIOUS
  <2> QED BY <2>1, <2>2, <2>3, NoTurnType DEF Init, ProviderOK
<1>4. TaskOK
  <2>1. IdleTask.pc \notin Working /\ IdleTask.pc \notin Blocking
    BY DEF IdleTask, Working, Blocking
  <2> QED BY <2>1, IdleChain DEF Init, TaskOK
<1> QED BY <1>1, <1>2, <1>3, <1>4 DEF TypeOK, TaskOK

(* The parts of the state an action leaves alone keep their types. *)
LEMMA Unchanged ==
  ASSUME TypeOK
  PROVE  /\ UNCHANGED fifo => FifoOK'
         /\ UNCHANGED <<queue, paused, project, batch, edited>> /\ HeldOK' => FifoOK'
         /\ UNCHANGED hold => HoldOK'
         /\ UNCHANGED handoff => HandoffOK'
         /\ UNCHANGED <<running, processed, admitted>> /\ admission' \in Admission => HandoffOK'
         /\ UNCHANGED release => ReleaseOK'
         /\ UNCHANGED sched => SchedOK'
         /\ UNCHANGED <<editors, closed>> /\ drain' \in BOOLEAN => SchedOK'
         /\ UNCHANGED provider => ProviderOK'
         /\ UNCHANGED history => HistoryOK'
         /\ UNCHANGED task => TaskOK'
<1>1. UNCHANGED fifo => FifoOK'
  BY DEF TypeOK, FifoOK
<1>2. UNCHANGED <<queue, paused, project, batch, edited>> /\ HeldOK' => FifoOK'
  BY DEF TypeOK, FifoOK, HeldOK
<1>3. UNCHANGED hold => HoldOK'
  BY DEF TypeOK, HoldOK
<1>4. UNCHANGED handoff => HandoffOK'
  BY DEF TypeOK, HandoffOK
<1>5. UNCHANGED <<running, processed, admitted>> /\ admission' \in Admission => HandoffOK'
  BY DEF TypeOK, HandoffOK
<1>6. UNCHANGED release => ReleaseOK'
  BY DEF TypeOK, ReleaseOK
<1>7. UNCHANGED sched => SchedOK'
  BY DEF TypeOK, SchedOK
<1>8. UNCHANGED <<editors, closed>> /\ drain' \in BOOLEAN => SchedOK'
  BY DEF TypeOK, SchedOK
<1>9. UNCHANGED provider => ProviderOK'
  BY DEF TypeOK, ProviderOK
<1>10. UNCHANGED history => HistoryOK'
  BY DEF TypeOK, HistoryOK
<1>11. UNCHANGED task => TaskOK'
  BY DEF TypeOK, TaskOK
<1> QED BY <1>1, <1>2, <1>3, <1>4, <1>5, <1>6, <1>7, <1>8, <1>9, <1>10, <1>11

LEMMA AllParts ==
  ASSUME TypeOK
  PROVE  /\ FifoOK /\ HoldOK /\ HandoffOK /\ ReleaseOK /\ SchedOK /\ ProviderOK /\ HistoryOK
         /\ TaskOK /\ HeldOK /\ queue \in Seq(Entries)
         /\ admission \in Admission
         /\ \A t \in Tasks : task[t] \in Chain
BY DEF TypeOK, TaskOK, HeldOK, FifoOK, HandoffOK

LEMMA WorkFacts ==
  ASSUME TypeOK, NEW t \in Tasks
  PROVE  /\ task[t].pc \in Working => task[t].entry \in Entries
         /\ task[t].pc \in Blocking => task[t].reason \in Reasons
BY Zenon DEF TypeOK, TaskOK

(* What several actions have in common. *)
LEMMA ReturnType ==
  ASSUME TypeOK, NEW t \in Tasks, Return(t)
  PROVE  TaskOK' /\ ReleaseOK'
<1> DEFINE pc == IF task[t].ctx = "edit" THEN "left" ELSE "idle"
<1>1. pc \in Onward \union {"left"}
  BY DEF Onward
<1>2. TaskOK'
  <2>1. task' = [task EXCEPT ![t] = Goto(task[t], pc)]
    BY DEF Return
  <2> QED BY <1>1, <2>1, AllParts, GotoType, MoveOn
<1>3. ReleaseOK'
  BY AllParts DEF Return, ReleaseOK
<1> QED BY <1>2, <1>3

LEMMA FinishType ==
  ASSUME TypeOK, NEW t \in Tasks, Finish(t)
  PROVE  admission' \in Admission /\ SchedOK'
<1>1. admission' \in Admission
  BY AllParts, AdmissionType DEF Finish
<1>2. SchedOK'
  BY AllParts DEF Finish, ArmDrain, SchedOK
<1> QED BY <1>1, <1>2

LEMMA SteerReturnsType ==
  ASSUME TypeOK, NEW b \in BOOLEAN, SteerReturns(b)
  PROVE  SchedOK'
BY AllParts DEF SteerReturns, SchedOK

LEMMA SettleReleaseType ==
  ASSUME TypeOK, NEW t \in Tasks, NEW tk \in Chain, NEW u \in AnyTurn,
         NEW s \in Statuses, NEW then \in Onward,
         SettleRelease(t, tk, u, s, then)
  PROVE  TaskOK' /\ HeldOK' /\ HoldOK' /\ running' \in AnyTurn /\ processed' \subseteq AnyTurn
<1> DEFINE ended == [tk EXCEPT !.turn = u, !.status = s, !.then = then]
<1>1. ended \in Chain
  BY FieldType DEF Plain
<1>2. processed' \subseteq AnyTurn
  BY AllParts DEF SettleRelease, HandoffOK
<1>3. CASE running # NoTurn /\ u \in {NoTurn, running}
  <2>1. [ended EXCEPT !.pc = "ended"] \in Loose
    <3>1. "ended" \in Plain
      BY DEF Plain, PCs, Working, Blocking
    <3> HIDE DEF ended
    <3> QED BY <1>1, <3>1, PcLoose
  <2>2. /\ running' = NoTurn
        /\ task' = [task EXCEPT ![t] = [ended EXCEPT !.pc = "ended"]]
        /\ UNCHANGED <<hold, held>>
    BY <1>3 DEF SettleRelease
  <2> HIDE DEF ended
  <2> QED BY <1>2, <2>1, <2>2, AllParts, NoTurnType, MoveOn DEF HeldOK, HoldOK, hold
<1>4. CASE ~(running # NoTurn /\ u \in {NoTurn, running}) /\ s = "failed"
  <2>1. HoldAfterTurnFailure(t, ended, then) /\ UNCHANGED running
    BY <1>4 DEF SettleRelease
  <2> HIDE DEF ended
  <2> QED BY <1>1, <1>2, <2>1, AllParts, HoldAfterTurnFailureType DEF HandoffOK
<1>5. CASE ~(running # NoTurn /\ u \in {NoTurn, running}) /\ s # "failed"
  <2>1. task' = [task EXCEPT ![t] = Goto(ended, then)] /\ UNCHANGED <<hold, held, running>>
    BY <1>5 DEF SettleRelease
  <2> HIDE DEF ended
  <2> QED BY <1>1, <1>2, <2>1, AllParts, GotoType, MoveOn DEF HeldOK, HoldOK, HandoffOK
<1> QED BY <1>3, <1>4, <1>5

LEMMA HoldEmittedType ==
  ASSUME TypeOK, NEW t \in Tasks, HoldEmitted(t)
  PROVE  TypeOK'
<1>1. TaskOK' /\ HeldOK'
  BY AllParts, HoldOnwardType DEF HoldEmitted
<1> QED BY <1>1, Unchanged DEF HoldEmitted, TypeOK, TaskOK

LEMMA StartAcknowledgedType ==
  ASSUME TypeOK, NEW t \in Tasks, StartAcknowledged(t)
  PROVE  TypeOK'
<1> DEFINE e == task[t].entry
           turn == TurnOf(e)
           a == Acknowledge(admission, t, turn)
<1>1. task[t] \in Chain /\ e \in AnyEntry
  BY AllParts DEF Chain
<1>2. turn \in AnyTurn
  BY <1>1, AllParts DEF TurnOf, AnyTurn, ProviderOK
<1>3. a \in Admission
  BY <1>2, AllParts, AdmissionType
<1>4. HandoffOK'
  <2> HIDE DEF turn
  <2>1. running' \in AnyTurn /\ admission' = a
    BY <1>2, AllParts DEF StartAcknowledged, RunningAfterStart, HandoffOK, turn
  <2> QED BY <1>3, <2>1, AllParts DEF StartAcknowledged, HandoffOK
<1>5. TaskOK'
  <2> DEFINE c == [task[t] EXCEPT !.pc = "started", !.early = TerminalOf(a) # {}]
  <2>1. "started" \in Plain /\ (TerminalOf(a) # {}) \in BOOLEAN
    BY DEF Plain, PCs, Working, Blocking
  <2>2. c \in Chain /\ c.pc = "started"
    <3>1. c \in Chain
      BY <1>1, <2>1, FieldType DEF Plain
    <3>2. c.pc = "started"
      BY <1>1 DEF Chain
    <3> QED BY <3>1, <3>2
  <2>3. task' = [task EXCEPT ![t] = c]
    BY DEF StartAcknowledged
  <2> HIDE DEF c
  <2> QED BY <2>1, <2>2, <2>3, AllParts, MoveOn DEF Loose, Plain
<1>6. ProviderOK'
  <2> HIDE DEF turn
  <2> QED BY <1>2, AllParts DEF StartAcknowledged, ProviderOK, turn
<1>7. HistoryOK'
  BY AllParts DEF StartAcknowledged, HistoryOK, Deliver
<1> QED BY <1>4, <1>5, <1>6, <1>7, Unchanged DEF StartAcknowledged, TypeOK, TaskOK

LEMMA StartEmittedType ==
  ASSUME TypeOK, NEW t \in Tasks, StartEmitted(t)
  PROVE  TypeOK'
<1> DEFINE tk == task[t]
           terminal == CHOOSE x \in TerminalOf(admission) : TRUE
<1>1. tk \in Chain
  BY AllParts
<1>2. CASE TerminalOf(admission) = {} \/ admission.attempt # t
  <2>1. /\ Finish(t) /\ Return(t)
        /\ UNCHANGED <<hold, held, running, processed>>
        /\ UNCHANGED <<queue, paused, project, batch, edited, admitted, provider, history>>
    BY <1>2 DEF StartEmitted
  <2> QED BY <2>1, FinishType, ReturnType, Unchanged DEF TypeOK, TaskOK
<1>3. CASE ~(TerminalOf(admission) = {} \/ admission.attempt # t)
  <2>1. terminal.turn \in AnyTurn /\ terminal.status \in Statuses
    BY <1>3, AllParts, AdmissionType DEF Outcome
  <2>2. "finish" \in Onward /\ "ended" \in Plain
    BY DEF Plain, PCs, Working, Blocking, Onward
  <2>3. TaskOK' /\ HeldOK' /\ HoldOK' /\ running' \in AnyTurn /\ processed' \subseteq AnyTurn
    <3> HIDE DEF terminal
    <3>1. CASE tk.early
      <4> DEFINE c == [tk EXCEPT !.pc = "ended", !.turn = terminal.turn,
                                 !.status = terminal.status, !.then = "finish"]
      <4>1. c \in Chain
        BY <1>1, <2>1, <2>2, FieldType DEF Plain
      <4>2. c.pc = "ended"
        BY <1>1 DEF Chain
      <4>3. /\ processed' = processed \union {terminal.turn}
            /\ task' = [task EXCEPT ![t] = c]
            /\ UNCHANGED <<hold, held, running>>
        BY <1>3, <3>1 DEF StartEmitted, terminal
      <4> HIDE DEF c
      <4> QED BY <2>1, <2>2, <4>1, <4>2, <4>3, AllParts, MoveOn
                 DEF Loose, Plain, HeldOK, HoldOK, HandoffOK
    <3>2. CASE ~tk.early
      <4>1. SettleRelease(t, tk, terminal.turn, terminal.status, "finish")
        BY <1>3, <3>2 DEF StartEmitted, terminal
      <4> QED BY <1>1, <2>1, <2>2, <4>1, SettleReleaseType
    <3> QED BY <3>1, <3>2
  <2>4. /\ UNCHANGED <<admission, sched, release>>
        /\ UNCHANGED <<queue, paused, project, batch, edited, admitted, provider, history>>
    BY <1>3 DEF StartEmitted
  <2>5. HandoffOK'
    BY <2>3, <2>4, AllParts DEF HandoffOK
  <2> QED BY <2>3, <2>4, <2>5, Unchanged DEF TypeOK, TaskOK
<1> QED BY <1>2, <1>3

LEMMA TerminalEmittedType ==
  ASSUME TypeOK, NEW t \in Tasks, TerminalEmitted(t)
  PROVE  TypeOK'
<1>1. task[t] \in Chain /\ task[t].then \in Onward
  BY AllParts DEF Chain
<1>2. TaskOK' /\ HeldOK' /\ HoldOK'
  <2>1. CASE task[t].status = "failed"
    BY <1>1, <2>1, AllParts, HoldAfterTurnFailureType DEF TerminalEmitted
  <2>2. CASE task[t].status # "failed"
    BY <1>1, <2>2, AllParts, GotoType, MoveOn DEF TerminalEmitted, HeldOK, HoldOK
  <2> QED BY <2>1, <2>2
<1> QED BY <1>2, Unchanged DEF TerminalEmitted, TypeOK, TaskOK

LEMMA StartFinishedType ==
  ASSUME TypeOK, NEW t \in Tasks, StartFinished(t) \/ FailureEmitted(t) \/ SteerEmitted(t)
  PROVE  TypeOK'
<1>1. /\ Finish(t) /\ Return(t)
      /\ UNCHANGED <<fifo, hold, running, processed, admitted, provider, history>>
  BY DEF StartFinished, FailureEmitted, SteerEmitted
<1> QED BY <1>1, FinishType, ReturnType, Unchanged DEF TypeOK, TaskOK

LEMMA RefuseType ==
  ASSUME TypeOK, NEW t \in Tasks, Refuse(t)
  PROVE  ProviderOK' /\ TurnOf(task[t].entry) \in AnyTurn
<1>1. TurnOf(task[t].entry) \in AnyTurn
  BY AllParts DEF TurnOf, AnyTurn, ProviderOK, Chain
<1>2. [turn |-> TurnOf(task[t].entry), status |-> "failed"] \in Outcome
  BY <1>1 DEF Outcome, Statuses
<1> QED BY <1>1, <1>2, AllParts DEF Refuse, ProviderOK

LEMMA DirectStartRejectedType ==
  ASSUME TypeOK, NEW t \in Tasks, DirectStartRejected(t)
  PROVE  TypeOK'
<1> DEFINE failed == {x.turn : x \in {y \in admission.terminals : y.status = "failed"}}
<1>1. ProviderOK'
  BY RefuseType DEF DirectStartRejected
<1>2. failed \subseteq AnyTurn
  BY AllParts DEF Admission, Outcome
<1>3. TaskOK' /\ HeldOK' /\ HoldOK'
  <2>1. "failed" \in Onward /\ "failed" \in Plain /\ task[t] \in Chain
    BY AllParts DEF Plain, PCs, Working, Blocking, Onward
  <2>2. CASE failed # {}
    <3>1. HoldAfterTurnFailure(t, task[t], "failed")
      BY <2>2 DEF DirectStartRejected
    <3> QED BY <2>1, <3>1, AllParts, HoldAfterTurnFailureType
  <2>3. CASE failed = {}
    <3>1. task' = [task EXCEPT ![t].pc = "failed"] /\ UNCHANGED <<hold, held>>
      BY <2>3 DEF DirectStartRejected
    <3>2. [task[t] EXCEPT !.pc = "failed"] \in Loose
      BY <2>1, PcLoose
    <3> QED BY <3>1, <3>2, AllParts, MoveOn DEF HeldOK, HoldOK, hold
  <2> QED BY <2>2, <2>3
<1>4. /\ processed' = processed \union failed
      /\ admitted' = admitted \ {task[t].entry}
      /\ UNCHANGED <<queue, paused, project, batch, edited, admission, running, release, sched, placed>>
  BY DEF DirectStartRejected
<1>5. HandoffOK'
  <2> HIDE DEF failed
  <2> QED BY <1>2, <1>4, AllParts DEF HandoffOK
<1>6. HistoryOK'
  BY AllParts DEF DirectStartRejected, HistoryOK
<1> QED BY <1>1, <1>3, <1>4, <1>5, <1>6, Unchanged DEF TypeOK, TaskOK

(* An entry handed to the backend, and one put back, is an entry. *)
LEMMA RestoreAfterType ==
  ASSUME TypeOK, NEW e \in Entries, NEW prev
  PROVE  RestoreAfter(queue, e, prev) \in Seq(Entries)
<1>1. IndexOf(queue, prev) \in 0..Len(queue) /\ NextWaiting(queue) \in 0..Len(queue)
  BY AllParts, IndexOfType, NextWaitingType
<1>2. \A i \in 1..(Len(queue) + 1) : InsertAt(queue, i, e) \in Seq(Entries)
  BY AllParts, InsertAtType
<1>3. <<e>> \o queue \in Seq(Entries) /\ Append(queue, e) \in Seq(Entries)
  BY AllParts
<1>4. Len(queue) \in Nat
  BY AllParts
<1> QED BY <1>1, <1>2, <1>3, <1>4 DEF RestoreAfter

LEMMA BlockType ==
  ASSUME TypeOK, NEW t \in Tasks, task[t].pc \in Working, NEW r \in Reasons,
         Block(t, r), UNCHANGED <<paused, project, held, batch, edited>>
  PROVE  FifoOK' /\ HoldOK' /\ TaskOK' /\ admitted' \subseteq Entries
<1>1. task[t] \in Chain /\ task[t].entry \in Entries
  BY AllParts, WorkFacts
<1>2. queue' \in Seq(Entries) /\ admitted' \subseteq Entries
  BY <1>1, RestoreAfterType, AllParts DEF Block, PutBack, HandoffOK
<1>3. HoldOK'
  BY AllParts, AddHoldReasonType DEF Block
<1>4. TaskOK'
  <2> DEFINE c == [task[t] EXCEPT !.pc = "blocked", !.reason = r, !.rev = 0]
  <2>1. "blocked" \in PCs \ Working /\ r \in AnyReason /\ 0 \in Revisions
    BY MaxRevisionType DEF Plain, PCs, Working, Blocking, AnyReason, Revisions
  <2>2. c \in Chain
    BY <1>1, <2>1, FieldType DEF Plain
  <2>3. c.pc = "blocked" /\ c.reason = r
    BY <1>1 DEF Chain
  <2>4. task' = [task EXCEPT ![t] = c]
    BY DEF Block
  <2> HIDE DEF c
  <2> QED BY <2>1, <2>2, <2>3, <2>4, AllParts, MoveOn DEF Loose, Plain
<1> QED BY <1>2, <1>3, <1>4, AllParts DEF FifoOK

LEMMA QueuedStartRejectedType ==
  ASSUME TypeOK, NEW t \in Tasks, NEW r \in Refusals, QueuedStartRejected(t, r)
  PROVE  TypeOK'
<1>1. ProviderOK'
  BY RefuseType DEF QueuedStartRejected
<1>2. FifoOK' /\ HoldOK' /\ TaskOK' /\ admitted' \subseteq Entries
  <2>1. r \in Reasons /\ task[t].pc \in Working
    BY DEF QueuedStartRejected, Refuse, Refusals, Reasons, Working
  <2> QED BY <2>1, BlockType DEF QueuedStartRejected
<1>3. admission' \in Admission /\ SchedOK'
  BY FinishType DEF QueuedStartRejected
<1>4. HandoffOK'
  BY <1>2, <1>3, AllParts DEF QueuedStartRejected, HandoffOK
<1> QED BY <1>1, <1>2, <1>3, <1>4, Unchanged DEF QueuedStartRejected, TypeOK

LEMMA BlockEmittedType ==
  ASSUME TypeOK, NEW t \in Tasks, BlockEmitted(t)
  PROVE  TypeOK'
<1>1. (IF task[t].ctx = "release" THEN "refused" ELSE "idle") \in Onward
  BY DEF Onward
<1>2. task[t].reason \in Reasons
  BY WorkFacts DEF BlockEmitted, Blocking
<1>3. TaskOK' /\ HeldOK' /\ HoldOK'
  BY <1>1, <1>2, AllParts, HoldQueueType DEF BlockEmitted
<1> QED BY <1>3, Unchanged DEF BlockEmitted, TypeOK

(* Steering. *)

LEMMA SteerAcceptedType ==
  ASSUME TypeOK, NEW t \in Tasks, SteerAccepted(t)
  PROVE  TypeOK'
<1>1. task[t] \in Chain /\ active \in AnyTurn
  BY AllParts DEF ProviderOK
<1>2. admission' \in Admission
  BY <1>1, AllParts, AdmissionType DEF SteerAccepted
<1>3. TaskOK'
  <2> DEFINE c == [task[t] EXCEPT !.pc = "steered", !.rev = 0]
  <2>1. "steered" \in Plain /\ 0 \in Revisions
    BY MaxRevisionType DEF Plain, PCs, Working, Blocking, Revisions
  <2>2. c \in Chain
    BY <1>1, <2>1, FieldType DEF Plain
  <2>3. c.pc = "steered"
    BY <1>1 DEF Chain
  <2>4. task' = [task EXCEPT ![t] = c]
    BY DEF SteerAccepted
  <2> HIDE DEF c
  <2> QED BY <2>1, <2>2, <2>3, <2>4, AllParts, MoveOn DEF Loose, Plain
<1>4. HistoryOK'
  BY AllParts DEF SteerAccepted, Deliver, HistoryOK
<1> QED BY <1>2, <1>3, <1>4, Unchanged DEF SteerAccepted, TypeOK

LEMMA SteerDeclinedType ==
  ASSUME TypeOK, NEW t \in Tasks, NEW retry \in BOOLEAN, SteerDeclined(t, retry)
  PROVE  TypeOK'
<1> DEFINE tk == [task[t] EXCEPT !.early = retry, !.rev = 0]
           loop == [tk EXCEPT !.reason = NewestReason, !.keep = TRUE,
                              !.then = "steerBack", !.i = 1]
<1>1. task[t] \in Chain /\ task[t].entry \in Entries
  BY AllParts, WorkFacts DEF SteerDeclined, Working, Chain
<1>2. tk \in Chain /\ tk.entry = task[t].entry
  <2>1. 0 \in Revisions
    BY MaxRevisionType DEF Revisions
  <2>2. tk \in Chain
    BY <1>1, <2>1, FieldType
  <2>3. tk.entry = task[t].entry
    BY <1>1 DEF Chain
  <2> QED BY <2>2, <2>3
<1>3. PutBack(t, task[t].entry)
  <2> HIDE DEF tk
  <2> QED BY <1>2 DEF SteerDeclined, tk
<1> HIDE DEF tk
<1>4. queue' \in Seq(Entries) /\ admitted' \subseteq Entries
  BY <1>1, <1>3, RestoreAfterType, AllParts DEF PutBack, HandoffOK
<1>5. CASE reasons # << >> /\ revision # task[t].rev
  <2>1. /\ AddHoldReason(NewestReason) /\ HoldOnward(t, loop, queue')
        /\ UNCHANGED <<admission, sched, release>>
    BY <1>5 DEF SteerDeclined, tk
  <2>2. NewestReason \in Reasons
    BY <1>5, AllParts DEF NewestReason, HoldOK, Last
  <2>3. loop \in Chain
    <3>1. NewestReason \in AnyReason /\ "steerBack" \in Onward /\ 1 \in Nat
      BY <2>2 DEF AnyReason, Onward
    <3> QED BY <1>2, <3>1, FieldType
  <2> HIDE DEF loop
  <2>4. HoldOK' /\ TaskOK' /\ HeldOK'
    BY <1>4, <2>1, <2>2, <2>3, AllParts, AddHoldReasonType, HoldOnwardType
  <2>5. UNCHANGED <<paused, project, batch, edited, running, processed, provider, history>>
    BY DEF SteerDeclined
  <2> QED BY <1>4, <2>1, <2>4, <2>5, AllParts, Unchanged DEF TypeOK, FifoOK, HandoffOK, HeldOK
<1>6. CASE ~(reasons # << >> /\ revision # task[t].rev)
  <2>1. /\ SteerReturns(retry)
        /\ admission' = Settle(admission, t)
        /\ Return(t)
        /\ UNCHANGED <<hold, held>>
        /\ UNCHANGED <<paused, project, batch, edited, running, processed, provider, history>>
    BY <1>6 DEF SteerDeclined
  <2>2. admission' \in Admission
    BY <2>1, AllParts, AdmissionType
  <2> QED BY <1>4, <2>1, <2>2, SteerReturnsType, ReturnType, AllParts, Unchanged
             DEF TypeOK, FifoOK, HandoffOK
<1> QED BY <1>5, <1>6

LEMMA SteerBackType ==
  ASSUME TypeOK, NEW t \in Tasks, SteerBack(t)
  PROVE  TypeOK'
<1>1. task[t].early \in BOOLEAN
  BY AllParts DEF Chain
<1>2. admission' \in Admission
  BY AllParts, AdmissionType DEF SteerBack
<1> QED BY <1>1, <1>2, SteerReturnsType, ReturnType, Unchanged DEF SteerBack, TypeOK

LEMMA SteerRejectedType ==
  ASSUME TypeOK, NEW t \in Tasks, NEW r \in Refusals, SteerRejected(t, r)
  PROVE  TypeOK'
<1>1. FifoOK' /\ HoldOK' /\ TaskOK' /\ admitted' \subseteq Entries
  <2>1. r \in Reasons /\ task[t].pc \in Working
    BY DEF SteerRejected, Refusals, Reasons, Working
  <2> QED BY <2>1, BlockType DEF SteerRejected
<1>2. SchedOK'
  BY SteerReturnsType DEF SteerRejected
<1>3. HandoffOK'
  BY <1>1, AllParts, AdmissionType DEF SteerRejected, HandoffOK
<1> QED BY <1>1, <1>2, <1>3, Unchanged DEF SteerRejected, TypeOK

(* releaseThread. *)

LEMMA TakeType ==
  ASSUME TypeOK, NEW n, Take(n)
  PROVE  n \in Outcome /\ ProviderOK'
BY AllParts DEF Take, ProviderOK

LEMMA ReleaseIgnoredType ==
  ASSUME TypeOK, NEW n, ReleaseBuffered(n) \/ ReleaseIgnored(n) \/ ReleaseCoalesced(n)
  PROVE  TypeOK'
<1>1. n \in Outcome /\ ProviderOK'
  BY TakeType DEF ReleaseBuffered, ReleaseIgnored, ReleaseCoalesced
<1>2. CASE ReleaseBuffered(n)
  <2>1. admission' \in Admission
    <3>1. RecordTerminal(admission, n) \in Admission
      BY <1>1, AllParts DEF RecordTerminal, Admission
    <3> QED BY <1>2, <3>1 DEF ReleaseBuffered
  <2> QED BY <1>1, <1>2, <2>1, Unchanged DEF ReleaseBuffered, TypeOK
<1>3. CASE ReleaseIgnored(n)
  BY <1>1, <1>3, Unchanged DEF ReleaseIgnored, TypeOK
<1>4. CASE ReleaseCoalesced(n)
  <2>1. ReleaseOK'
    BY <1>4, AllParts DEF ReleaseCoalesced, ReleaseOK
  <2> QED BY <1>1, <1>4, <2>1, Unchanged DEF ReleaseCoalesced, TypeOK
<1> QED BY <1>2, <1>3, <1>4

(* A release starts from a fresh chain, which may be settled at once. *)
LEMMA FreshRelease ==
  [IdleTask EXCEPT !.ctx = "release"] \in Chain /\ "next" \in Onward
BY IdleChain, FieldType DEF Contexts, Onward

LEMMA ReleaseType ==
  ASSUME TypeOK, NEW t \in Tasks, NEW n, Release(t, n)
  PROVE  TypeOK'
<1>1. n \in Outcome /\ ProviderOK'
  BY TakeType DEF Release
<1>2. n.turn \in AnyTurn /\ n.status \in Statuses
  BY <1>1 DEF Outcome
<1>3. TaskOK' /\ HeldOK' /\ HoldOK' /\ running' \in AnyTurn /\ processed' \subseteq AnyTurn
  BY <1>2, FreshRelease, SettleReleaseType DEF Release
<1>4. HandoffOK' /\ ReleaseOK'
  <2>1. HandoffOK'
    BY <1>3, AllParts DEF Release, HandoffOK
  <2>2. ReleaseOK'
    BY AllParts DEF Release, ReleaseOK
  <2> QED BY <2>1, <2>2
<1> QED BY <1>1, <1>3, <1>4, Unchanged DEF Release, TypeOK

LEMMA ReleaseRefusedType ==
  ASSUME TypeOK, NEW t \in Tasks, ReleaseRefused(t)
  PROVE  TypeOK'
<1>1. CASE pendingRelease
  <2>1. SettleRelease(t, [IdleTask EXCEPT !.ctx = "release"], NoTurn, "idle", "next")
        /\ UNCHANGED releasing
    BY <1>1 DEF ReleaseRefused
  <2>2. TaskOK' /\ HeldOK' /\ HoldOK' /\ running' \in AnyTurn /\ processed' \subseteq AnyTurn
    BY <2>1, FreshRelease, NoTurnType, SettleReleaseType DEF Statuses
  <2>3. HandoffOK'
    BY <2>2, AllParts DEF ReleaseRefused, HandoffOK
  <2>4. ReleaseOK'
    BY <2>1, AllParts DEF ReleaseRefused, ReleaseOK
  <2> QED BY <2>2, <2>3, <2>4, Unchanged DEF ReleaseRefused, TypeOK
<1>2. CASE ~pendingRelease
  <2>1. releasing' = FALSE /\ pendingRelease' = FALSE
        /\ task' = [task EXCEPT ![t] = IdleTask]
        /\ UNCHANGED <<hold, held, running, processed>>
        /\ UNCHANGED <<queue, paused, project, batch, edited, admission, admitted, sched, provider, history>>
    BY <1>2 DEF ReleaseRefused
  <2>2. IdleTask \in Loose
    BY IdleChain DEF IdleTask, Loose, Working, Blocking
  <2>3. TaskOK'
    BY <2>1, <2>2, AllParts, MoveOn
  <2>4. ReleaseOK'
    BY <2>1 DEF ReleaseOK
  <2> QED BY <2>1, <2>3, <2>4, Unchanged DEF TypeOK
<1> QED BY <1>1, <1>2

(* Claims. *)

(* An array that empties ends the walks over it. *)
LEMMA DetachedType ==
  ASSUME TaskOK, NEW q
  PROVE  /\ Detached(task, q) \in [Tasks -> Chain]
         /\ \A u \in Tasks : /\ Detached(task, q)[u].pc = task[u].pc
                             /\ Detached(task, q)[u].entry = task[u].entry
                             /\ Detached(task, q)[u].reason = task[u].reason
                             /\ Detached(task, q)[u].then = task[u].then
                             /\ Detached(task, q)[u].op = task[u].op
                             /\ Detached(task, q)[u].ctx = task[u].ctx
                             /\ Detached(task, q)[u].prev = task[u].prev
                             /\ Detached(task, q)[u].early = task[u].early
<1>1. \A u \in Tasks : [task[u] EXCEPT !.i = 0] \in Chain
  BY FieldType DEF TaskOK
<1>2. \A u \in Tasks : /\ [task[u] EXCEPT !.i = 0].pc = task[u].pc
                       /\ [task[u] EXCEPT !.i = 0].entry = task[u].entry
                       /\ [task[u] EXCEPT !.i = 0].reason = task[u].reason
                       /\ [task[u] EXCEPT !.i = 0].then = task[u].then
                       /\ [task[u] EXCEPT !.i = 0].op = task[u].op
                       /\ [task[u] EXCEPT !.i = 0].ctx = task[u].ctx
                       /\ [task[u] EXCEPT !.i = 0].prev = task[u].prev
                       /\ [task[u] EXCEPT !.i = 0].early = task[u].early
  BY DEF TaskOK, Chain
<1>3. CASE q = << >>
  <2>1. Detached(task, q) = [u \in Tasks |-> [task[u] EXCEPT !.i = 0]]
    BY <1>3 DEF Detached
  <2> QED BY <1>1, <1>2, <2>1
<1>4. CASE q # << >>
  <2>1. Detached(task, q) = task
    BY <1>4 DEF Detached
  <2> QED BY <2>1 DEF TaskOK
<1> QED BY <1>3, <1>4

LEMMA DispatchableType ==
  ASSUME TypeOK, NEW can, Dispatchable(can) # NoEntry
  PROVE  /\ NextWaiting(queue) \in 1..Len(queue)
         /\ Dispatchable(can) = queue[NextWaiting(queue)]
         /\ Dispatchable(can) \in Entries
<1>1. NextWaiting(queue) \in 0..Len(queue)
  BY AllParts, NextWaitingType
<1>2. NextWaiting(queue) # 0 /\ Dispatchable(can) = queue[NextWaiting(queue)]
  BY DEF Dispatchable
<1> QED BY <1>1, <1>2, AllParts

LEMMA ClaimType ==
  ASSUME TypeOK, NEW t \in Tasks, NEW ctx \in Contexts, NEW can, Claim(t, ctx, can)
  PROVE  FifoOK' /\ HoldOK' /\ HandoffOK' /\ ReleaseOK' /\ TaskOK' /\ ProviderOK' /\ HistoryOK'
<1> DEFINE e     == Dispatchable(can)
           w     == NextWaiting(queue)
           q     == RemoveAt(queue, w)
           steer == Steerable(e, can)
           c     == [IdleTask EXCEPT !.pc = IF steer THEN "steering" ELSE "starting",
                                     !.ctx = ctx, !.entry = e,
                                     !.rev = IF steer THEN revision' ELSE 0,
                                     !.prev = IF w > 1 THEN queue[w - 1] ELSE NoEntry]
<1>1. /\ queue' = q /\ DropSpentHold(q)
      /\ admission' = Begin(admission, t, IF steer THEN "steer" ELSE "start")
      /\ Admit(e)
      /\ starts' = IF steer THEN starts ELSE [starts EXCEPT ![e] = @ + 1]
      /\ began' = FALSE
      /\ task' = [Detached(task, q) EXCEPT ![t] = c]
      /\ UNCHANGED <<paused, project, held, batch, edited, running, processed, release,
                     gate, active, notices, history>>
      /\ e # NoEntry
  BY DEF Claim
<1>2. w \in 1..Len(queue) /\ e \in Entries
  BY <1>1, DispatchableType
<1>3. HoldOK'
  BY <1>1, AllParts, DropSpentHoldType
<1>4. c \in Chain /\ c.pc \in {"steering", "starting"} /\ c.entry = e
  <2>1. (IF steer THEN "steering" ELSE "starting") \in PCs
    BY DEF PCs
  <2>2. e \in AnyEntry
    BY <1>2 DEF AnyEntry
  <2>3. (IF steer THEN revision' ELSE 0) \in Revisions
    BY <1>3, MaxRevisionType DEF HoldOK, Revisions
  <2>4. (IF w > 1 THEN queue[w - 1] ELSE NoEntry) \in AnyEntry
    <3> HIDE DEF w
    <3> QED BY <1>2, AllParts DEF AnyEntry
  <2> HIDE DEF e, w, steer
  <2>5. c \in Chain
    BY <2>1, <2>2, <2>3, <2>4, IdleChain, FieldType
  <2>6. c.pc = (IF steer THEN "steering" ELSE "starting") /\ c.entry = e
    BY IdleChain DEF Chain
  <2> QED BY <2>5, <2>6
<1> HIDE DEF c
<1>5. TaskOK'
  <2> DEFINE d == Detached(task, q)
  <2>1. /\ d \in [Tasks -> Chain]
        /\ \A u \in Tasks : d[u].pc = task[u].pc /\ d[u].entry = task[u].entry
                            /\ d[u].reason = task[u].reason
    BY AllParts, DetachedType
  <2>2. c.pc \notin Blocking
    BY <1>4 DEF Blocking
  <2>3. task' = [d EXCEPT ![t] = c]
    BY <1>1
  <2> HIDE DEF d, e, q
  <2> QED BY <1>2, <1>4, <2>1, <2>2, <2>3, WorkFacts DEF TaskOK
<1>6. FifoOK'
  <2>1. q \in Seq(Entries)
    BY <1>2, AllParts, RemoveAtType
  <2> HIDE DEF q
  <2> QED BY <1>1, <2>1, AllParts DEF FifoOK
<1>7. HandoffOK'
  <2>1. admission' \in Admission
    BY <1>1, AllParts, AdmissionType
  <2> HIDE DEF e
  <2> QED BY <1>1, <1>2, <2>1, AllParts DEF HandoffOK, Admit
<1>8. ProviderOK'
  <2>1. starts' \in [AnyEntry -> Nat]
    <3>1. starts \in [AnyEntry -> Nat] /\ e \in AnyEntry
      BY <1>2, AllParts DEF ProviderOK, AnyEntry
    <3>2. starts' = IF steer THEN starts ELSE [starts EXCEPT ![e] = starts[e] + 1]
      BY <1>1
    <3> HIDE DEF e, steer
    <3> QED BY <3>1, <3>2
  <2> QED BY <1>1, <2>1, AllParts DEF ProviderOK
<1> QED BY <1>1, <1>3, <1>5, <1>6, <1>7, <1>8, Unchanged

LEMMA StartNextType ==
  ASSUME TypeOK, NEW t \in Tasks, StartNext(t)
  PROVE  TypeOK'
<1>1. UNCHANGED sched
  BY DEF StartNext
<1>2. PICK can \in BOOLEAN :
        \/ Claim(t, task[t].ctx, can)
        \/ Return(t) /\ UNCHANGED <<fifo, hold, handoff, provider, history>>
  BY DEF StartNext
<1>3. CASE Claim(t, task[t].ctx, can)
  <2>1. task[t].ctx \in Contexts
    BY AllParts DEF Chain
  <2> QED BY <1>1, <1>3, <2>1, ClaimType, Unchanged DEF TypeOK
<1>4. CASE Return(t) /\ UNCHANGED <<fifo, hold, handoff, provider, history>>
  BY <1>1, <1>4, ReturnType, Unchanged DEF TypeOK
<1> QED BY <1>2, <1>3, <1>4

LEMMA DrainFiresType ==
  ASSUME TypeOK, DrainFires
  PROVE  TypeOK'
<1>1. SchedOK'
  BY AllParts DEF DrainFires, SchedOK
<1>2. PICK can \in BOOLEAN :
        \/ \E t \in Tasks : Claim(t, "drain", can)
        \/ UNCHANGED <<fifo, hold, handoff, release, task, provider, history>>
  BY DEF DrainFires
<1>3. CASE \E t \in Tasks : Claim(t, "drain", can)
  <2>1. PICK t \in Tasks : Claim(t, "drain", can)
    BY <1>3
  <2> QED BY <1>1, <2>1, ClaimType DEF TypeOK, Contexts
<1>4. CASE UNCHANGED <<fifo, hold, handoff, release, task, provider, history>>
  BY <1>1, <1>4, Unchanged DEF TypeOK
<1> QED BY <1>2, <1>3, <1>4

(* Submissions. *)

LEMMA NewestReasonType ==
  ASSUME TypeOK
  PROVE  NewestReason \in AnyReason /\ (reasons # << >> => NewestReason \in Reasons)
BY AllParts DEF NewestReason, HoldOK, Last, AnyReason

LEMMA StartEntryType ==
  ASSUME TypeOK, NEW t \in Tasks, NEW e \in Entries, NEW ctx \in Contexts, StartEntry(t, e, ctx)
  PROVE  /\ TaskOK' /\ admission' \in Admission /\ admitted' \subseteq Entries
         /\ starts' \in [AnyEntry -> Nat] /\ began' \in BOOLEAN
<1> DEFINE c == [IdleTask EXCEPT !.pc = "starting", !.ctx = ctx, !.entry = e]
<1>1. /\ admission' = Begin(admission, t, "start")
      /\ Admit(e)
      /\ starts' = [starts EXCEPT ![e] = starts[e] + 1]
      /\ began' = FALSE
      /\ task' = [task EXCEPT ![t] = c]
  BY DEF StartEntry
<1>2. c \in Chain /\ c.pc = "starting" /\ c.entry = e
  <2>1. "starting" \in PCs /\ e \in AnyEntry
    BY DEF PCs, AnyEntry
  <2>2. c \in Chain
    BY <2>1, IdleChain, FieldType
  <2>3. c.pc = "starting" /\ c.entry = e
    BY IdleChain DEF Chain
  <2> QED BY <2>2, <2>3
<1> HIDE DEF c
<1>3. TaskOK'
  <2>1. c.pc \notin Blocking
    BY <1>2 DEF Blocking
  <2> QED BY <1>1, <1>2, <2>1, AllParts DEF TaskOK
<1>4. starts' \in [AnyEntry -> Nat]
  <2>1. starts \in [AnyEntry -> Nat] /\ e \in AnyEntry
    BY AllParts DEF ProviderOK, AnyEntry
  <2> QED BY <1>1, <2>1
<1>5. admission' \in Admission
  BY <1>1, AllParts, AdmissionType
<1> QED BY <1>1, <1>3, <1>4, <1>5, AllParts DEF HandoffOK, Admit

LEMMA EnqueueType ==
  ASSUME TypeOK, NEW e \in Entries, Enqueue(e)
  PROVE  TypeOK'
<1>1. FifoOK'
  <2>1. queue' \in Seq(Entries)
    BY AllParts DEF Enqueue
  <2>2. held' \in [Entries -> AnyReason]
    BY NewestReasonType, AllParts DEF Enqueue, HeldOK
  <2> QED BY <2>1, <2>2, AllParts DEF Enqueue, FifoOK
<1>2. HistoryOK'
  BY AllParts DEF Enqueue, HistoryOK
<1> QED BY <1>1, <1>2, Unchanged DEF Enqueue, TypeOK

LEMMA StartNowType ==
  ASSUME TypeOK, NEW t \in Tasks, NEW e \in Entries, StartNow(t, e)
  PROVE  TypeOK'
<1>1. /\ TaskOK' /\ admission' \in Admission /\ admitted' \subseteq Entries
      /\ starts' \in [AnyEntry -> Nat] /\ began' \in BOOLEAN
  BY StartEntryType DEF StartNow, Contexts
<1>2. /\ fate' = [fate EXCEPT ![e] = "open"]
      /\ UNCHANGED <<fifo, hold, running, processed, release, sched, gate, active, notices, placed>>
  BY DEF StartNow
<1>3. HandoffOK'
  BY <1>1, <1>2, AllParts DEF HandoffOK
<1>4. ProviderOK'
  BY <1>1, <1>2, AllParts DEF ProviderOK
<1>5. HistoryOK'
  BY <1>2, AllParts DEF HistoryOK
<1> QED BY <1>1, <1>2, <1>3, <1>4, <1>5, Unchanged DEF TypeOK

LEMMA SubmitHeldType ==
  ASSUME TypeOK, NEW t \in Tasks, NEW e \in Entries, NEW r \in {"lock", "review"},
         SubmitHeld(t, e, r)
  PROVE  TypeOK'
<1> DEFINE c == [IdleTask EXCEPT !.pc = "queuedHeld", !.reason = r]
<1>1. r \in Reasons /\ r \in AnyReason
  BY DEF Reasons, AnyReason
<1>2. /\ AddHoldReason(r)
      /\ queue' = InsertAt(queue, PlaceOfHeld, e)
      /\ held' = [held EXCEPT ![e] = r]
      /\ task' = [task EXCEPT ![t] = c]
      /\ fate' = [fate EXCEPT ![e] = "open"]
      /\ placed' = placed \union {e}
      /\ UNCHANGED <<paused, project, batch, edited, handoff, release, sched, provider>>
  BY DEF SubmitHeld
<1>3. HoldOK'
  BY <1>1, <1>2, AllParts, AddHoldReasonType
<1>4. PlaceOfHeld \in 1..(Len(queue) + 1)
  <2> DEFINE I == {i \in 1..Len(queue) : queue[i] \notin Continuations}
             w == SelectInSeq(queue, LAMBDA x : x \notin Continuations)
  <2>1. I # {} => Min(I) \in I
    <3>1. I \in SUBSET Nat
      OBVIOUS
    <3> HIDE DEF I
    <3> QED BY <3>1, MinIn
  <2>2. w = IF I # {} THEN Min(I) ELSE 0
    BY DEF SelectInSeq
  <2>3. w \in 0..Len(queue)
    BY <2>1, <2>2, AllParts
  <2>4. PlaceOfHeld = IF reasons # << >> \/ w = 0 THEN Len(queue) + 1 ELSE w
    BY DEF PlaceOfHeld
  <2> HIDE DEF w
  <2> QED BY <2>3, <2>4, AllParts
<1>5. FifoOK'
  <2>1. queue' \in Seq(Entries)
    BY <1>2, <1>4, AllParts, InsertAtType
  <2>2. held' \in [Entries -> AnyReason]
    BY <1>1, <1>2, AllParts DEF HeldOK
  <2> QED BY <1>2, <2>1, <2>2, AllParts DEF FifoOK
<1>6. TaskOK'
  <2>1. "queuedHeld" \in PCs /\ "queuedHeld" \notin Working
    BY DEF PCs, Working
  <2>2. c \in Chain
    BY <1>1, <2>1, IdleChain, FieldType
  <2>3. c.pc = "queuedHeld" /\ c.reason = r
    BY IdleChain DEF Chain
  <2> HIDE DEF c
  <2> QED BY <1>1, <1>2, <2>1, <2>2, <2>3, AllParts, MoveOn DEF Loose
<1>7. HistoryOK'
  BY <1>2, AllParts DEF HistoryOK
<1> QED BY <1>2, <1>3, <1>5, <1>6, <1>7, Unchanged DEF TypeOK

LEMMA HeldEmittedType ==
  ASSUME TypeOK, NEW t \in Tasks, HeldEmitted(t)
  PROVE  TypeOK'
<1>1. task[t].reason \in Reasons
  BY WorkFacts DEF HeldEmitted, Blocking
<1>2. TaskOK' /\ HeldOK' /\ HoldOK'
  BY <1>1, AllParts, HoldQueueType DEF HeldEmitted, Onward
<1> QED BY <1>2, Unchanged DEF HeldEmitted, TypeOK

LEMMA SubmitProjectHeldType ==
  ASSUME TypeOK, NEW e \in Entries, SubmitProjectHeld(e)
  PROVE  TypeOK'
<1>1. FifoOK'
  BY AllParts DEF SubmitProjectHeld, FifoOK
<1>2. HistoryOK'
  BY AllParts DEF SubmitProjectHeld, HistoryOK
<1> QED BY <1>1, <1>2, Unchanged DEF SubmitProjectHeld, TypeOK

(* Edits. *)

LEMMA EnterEditType ==
  ASSUME TypeOK, NEW t \in Tasks, NEW op \in Edits, NEW e \in Entries,
         NEW before \in AnyEntry, EnterEdit(t, op, e, before)
  PROVE  FifoOK' /\ HoldOK' /\ HandoffOK' /\ ReleaseOK' /\ SchedOK' /\ TaskOK' /\ ProviderOK'
<1> DEFINE c == [IdleTask EXCEPT !.pc = "editing", !.ctx = "edit",
                                 !.op = op, !.entry = e, !.prev = before]
<1>1. c \in Chain /\ c.pc = "editing" /\ c.entry = e
  <2>1. "editing" \in PCs /\ "edit" \in Contexts /\ e \in AnyEntry
    BY DEF PCs, Contexts, AnyEntry
  <2>2. c \in Chain
    BY <2>1, IdleChain, FieldType
  <2>3. c.pc = "editing" /\ c.entry = e
    BY IdleChain DEF Chain
  <2> QED BY <2>2, <2>3
<1>2. /\ task' = [task EXCEPT ![t] = c]
      /\ editors' = Append(editors, t)
      /\ UNCHANGED <<fifo, hold, handoff, release, drain, closed, provider>>
  BY DEF EnterEdit
<1> HIDE DEF c
<1>3. TaskOK'
  <2>1. c.pc \notin Blocking
    BY <1>1 DEF Blocking
  <2> QED BY <1>1, <1>2, <2>1, AllParts DEF TaskOK
<1>4. SchedOK'
  BY <1>2, AllParts DEF SchedOK
<1> QED BY <1>2, <1>3, <1>4, Unchanged

LEMMA StartsEditType ==
  ASSUME TypeOK, NEW t \in Tasks, NEW e \in Entries,
         EditsEntry(t, e) \/ EditsSteer(t, e) \/ Retry(t, e)
  PROVE  TypeOK'
<1>1. NoEntry \in AnyEntry
  BY DEF AnyEntry
<1>2. CASE EditsEntry(t, e)
  <2>1. PICK op \in Edits, before \in AnyEntry : EnterEdit(t, op, e, before)
    BY <1>1, <1>2 DEF EditsEntry, Edits
  <2>2. UNCHANGED history
    BY <1>2 DEF EditsEntry
  <2> QED BY <2>1, <2>2, EnterEditType, Unchanged DEF TypeOK
<1>3. CASE EditsSteer(t, e)
  <2>1. EnterEdit(t, "steer", e, NoEntry) /\ "steer" \in Edits
    BY <1>3 DEF EditsSteer, Edits
  <2>2. HistoryOK'
    BY <1>3, AllParts DEF EditsSteer, HistoryOK
  <2> QED BY <1>1, <2>1, <2>2, EnterEditType DEF TypeOK
<1>4. CASE Retry(t, e)
  <2>1. EnterEdit(t, "retry", e, NoEntry) /\ "retry" \in Edits /\ UNCHANGED history
    BY <1>4 DEF Retry, Edits
  <2> QED BY <1>1, <2>1, EnterEditType, Unchanged DEF TypeOK
<1> QED BY <1>2, <1>3, <1>4

LEMMA LeaveEditType ==
  ASSUME TypeOK, NEW t \in Tasks, NEW c \in Loose, LeaveEdit(t, c)
  PROVE  TaskOK' /\ SchedOK'
<1>1. TaskOK'
  BY AllParts, MoveOn DEF LeaveEdit
<1>2. editors' \in Seq(Tasks)
  BY AllParts, RemoveFirstType DEF LeaveEdit, SchedOK
<1>3. drain' \in BOOLEAN /\ closed' \in BOOLEAN
  BY AllParts DEF LeaveEdit, SchedOK
<1> QED BY <1>1, <1>2, <1>3 DEF SchedOK

LEMMA IdleLoose == IdleTask \in Loose
BY IdleChain DEF IdleTask, Loose, Working, Blocking

LEMMA MoveEntryType ==
  ASSUME TypeOK, NEW t \in Tasks, MoveEntry(t)
  PROVE  TypeOK'
<1> DEFINE e      == task[t].entry
           before == task[t].prev
<1>1. e \in Entries
  BY WorkFacts DEF MoveEntry, MayEdit, Working
<1>2. Moved(queue, e, before) \in Seq(Entries)
  <2> DEFINE from   == IndexOf(queue, e)
             anchor == IF before = NoEntry THEN Len(queue) + 1 ELSE IndexOf(queue, before)
             to     == IF anchor > from THEN anchor - 1 ELSE anchor
             q      == RemoveAt(queue, from)
  <2> HIDE DEF e, before
  <2>1. from \in 0..Len(queue) /\ anchor \in 0..(Len(queue) + 1) /\ Len(queue) \in Nat
    BY AllParts, IndexOfType
  <2>2. Moved(queue, e, before) = queue
        \/ (from # 0 /\ anchor # 0 /\ before # e /\ Moved(queue, e, before) = InsertAt(q, to, e))
    BY DEF Moved
  <2>3. ASSUME from # 0, anchor # 0, before # e
        PROVE  InsertAt(q, to, e) \in Seq(Entries)
    <3>1. q \in Seq(Entries) /\ Len(q) = Len(queue) - 1
      <4>1. from \in 1..Len(queue)
        <5> HIDE DEF from
        <5> QED BY <2>1, <2>3
      <4> QED BY <4>1, AllParts, RemoveAtType
    <3>2. from # anchor
      <4>1. queue[from] = e
        BY <2>3, AllParts, IndexOfType
      <4>2. before # NoEntry => queue[anchor] = before
        BY <2>3, AllParts, IndexOfType
      <4> HIDE DEF from
      <4> QED BY <2>1, <2>3, <4>1, <4>2
    <3>3. to \in 1..(Len(q) + 1)
      <4> HIDE DEF from, anchor, q
      <4> QED BY <2>1, <2>3, <3>1, <3>2
    <3> HIDE DEF q, to
    <3> QED BY <1>1, <3>1, <3>3, InsertAtType DEF e
  <2> QED BY <2>2, <2>3, AllParts
<1>3. /\ queue' = Moved(queue, e, before)
      /\ placed' = IF queue' = queue THEN placed ELSE placed \union {e}
      /\ LeaveEdit(t, IdleTask)
      /\ UNCHANGED <<paused, project, held, batch, edited, hold, handoff, release, provider, fate>>
  BY DEF MoveEntry
<1>4. FifoOK'
  <2> HIDE DEF e, before
  <2> QED BY <1>2, <1>3, AllParts DEF FifoOK
<1>5. HistoryOK'
  BY <1>1, <1>3, AllParts DEF HistoryOK
<1> QED BY <1>3, <1>4, <1>5, IdleLoose, LeaveEditType, Unchanged DEF TypeOK

LEMMA PauseEntryType ==
  ASSUME TypeOK, NEW t \in Tasks, PauseEntry(t)
  PROVE  TypeOK'
<1>1. task[t].entry \in Entries
  BY WorkFacts DEF PauseEntry, MayEdit, Working
<1>2. paused' \subseteq Entries /\ placed' \subseteq Entries
  BY <1>1, AllParts DEF PauseEntry, FifoOK, HistoryOK
<1>3. FifoOK' /\ HistoryOK'
  BY <1>2, AllParts DEF PauseEntry, FifoOK, HistoryOK
<1>4. LeaveEdit(t, IdleTask) /\ UNCHANGED <<hold, handoff, release, provider>>
  BY DEF PauseEntry
<1> QED BY <1>3, <1>4, IdleLoose, LeaveEditType, Unchanged DEF TypeOK

LEMMA ResumeEntryType ==
  ASSUME TypeOK, NEW t \in Tasks, ResumeEntry(t)
  PROVE  TypeOK'
<1>1. FifoOK'
  <2>1. held' \in [Entries -> AnyReason]
    BY AllParts, NewestReasonType DEF ResumeEntry, HeldOK
  <2>2. paused' \subseteq Entries /\ project' \subseteq Entries
    BY AllParts DEF ResumeEntry, FifoOK
  <2> QED BY <2>1, <2>2, AllParts DEF ResumeEntry, FifoOK
<1>2. LeaveEdit(t, IdleTask) /\ UNCHANGED <<hold, handoff, release, provider, history>>
  BY DEF ResumeEntry
<1> QED BY <1>1, <1>2, IdleLoose, LeaveEditType, Unchanged DEF TypeOK

LEMMA EditLeavesType ==
  ASSUME TypeOK, NEW t \in Tasks, InputEdited(t) \/ \E pc : SteerLeaves(t, pc)
  PROVE  TypeOK'
<1>1. LeaveEdit(t, IdleTask) /\ UNCHANGED <<fifo, hold, handoff, release, provider, history>>
  BY DEF InputEdited, SteerLeaves
<1> QED BY <1>1, IdleLoose, LeaveEditType, Unchanged DEF TypeOK

LEMMA JoinableBatchType ==
  ASSUME TypeOK, NEW e
  PROVE  JoinableBatch(e) \in 0..Len(queue)
<1> DEFINE I == {i \in 1..Len(queue) : queue[i] \in Batches \ edited /\ queue[i] \notin paused}
           w == SelectInSeq(queue, LAMBDA x : x \in Batches \ edited /\ x \notin paused)
<1>1. I # {} => Min(I) \in I
  <2>1. I \in SUBSET Nat
    OBVIOUS
  <2> HIDE DEF I
  <2> QED BY <2>1, MinIn
<1>2. w = IF I # {} THEN Min(I) ELSE 0
  BY DEF SelectInSeq
<1>3. w \in 0..Len(queue)
  BY <1>1, <1>2, AllParts
<1>4. JoinableBatch(e) = IF e \in Batches THEN w ELSE 0
  BY DEF JoinableBatch
<1> HIDE DEF w
<1> QED BY <1>3, <1>4, AllParts

LEMMA SubmitSteerType ==
  ASSUME TypeOK, NEW t \in Tasks, SubmitSteer(t)
  PROVE  TypeOK'
<1> DEFINE e      == task[t].entry
           c      == JoinableBatch(e)
           joined == IF c = 0 THEN e ELSE queue[c]
<1>1. e \in Entries
  BY WorkFacts DEF SubmitSteer, MayEdit, Working
<1>2. joined \in Entries
  <2>1. c \in 0..Len(queue)
    BY JoinableBatchType
  <2> HIDE DEF c
  <2> QED BY <1>1, <2>1, AllParts
<1>3. HistoryOK'
  BY <1>1, AllParts DEF SubmitSteer, HistoryOK
<1>4. UNCHANGED <<paused, project, edited, hold, running, processed, release, sched,
                  gate, active, notices, placed>>
  BY DEF SubmitSteer
<1>5. CASE StartEntry(t, e, "edit") /\ UNCHANGED <<queue, held, batch>>
  <2>1. /\ TaskOK' /\ admission' \in Admission /\ admitted' \subseteq Entries
        /\ starts' \in [AnyEntry -> Nat] /\ began' \in BOOLEAN
    BY <1>1, <1>5, StartEntryType DEF Contexts
  <2>2. HandoffOK'
    BY <1>4, <2>1, AllParts DEF HandoffOK
  <2>3. ProviderOK'
    BY <1>4, <2>1, AllParts DEF ProviderOK
  <2>4. FifoOK'
    BY <1>4, <1>5, Unchanged
  <2> QED BY <1>3, <1>4, <2>1, <2>2, <2>3, <2>4, Unchanged DEF TypeOK
<1>6. CASE ~(StartEntry(t, e, "edit") /\ UNCHANGED <<queue, held, batch>>)
  <2>1. /\ queue' = IF c = 0 THEN Append(queue, e) ELSE queue
        /\ batch' = [batch EXCEPT ![joined] = @ \union {e}]
        /\ held' = IF reasons = << >> THEN held ELSE [held EXCEPT ![joined] = NewestReason]
        /\ task' = [task EXCEPT ![t].pc = "leaving"]
        /\ UNCHANGED <<admission, admitted, starts, began>>
    BY <1>6 DEF SubmitSteer
  <2> HIDE DEF e, c, joined
  <2>2. queue' \in Seq(Entries) /\ batch' \in [Entries -> SUBSET Entries]
        /\ held' \in [Entries -> AnyReason]
    <3>1. queue' \in Seq(Entries)
      BY <1>1, <2>1, AllParts
    <3>2. batch' \in [Entries -> SUBSET Entries]
      BY <1>1, <1>2, <2>1, AllParts DEF FifoOK
    <3>3. held' \in [Entries -> AnyReason]
      BY <1>2, <2>1, AllParts, NewestReasonType DEF HeldOK
    <3> QED BY <3>1, <3>2, <3>3
  <2>3. FifoOK'
    BY <1>4, <2>2, AllParts DEF FifoOK
  <2>4. TaskOK'
    <3>1. "leaving" \in Plain /\ task[t] \in Chain
      BY AllParts DEF Plain, PCs, Working, Blocking
    <3>2. [task[t] EXCEPT !.pc = "leaving"] \in Loose
      BY <3>1, PcLoose
    <3> QED BY <2>1, <3>2, AllParts, MoveOn
  <2> QED BY <1>3, <1>4, <2>1, <2>3, <2>4, Unchanged DEF TypeOK
<1> QED BY <1>5, <1>6

(* Retry clears the hold; an unlock lifts it entry by entry. *)

LEMMA ClearOnwardType ==
  ASSUME TypeOK, NEW t \in Tasks, NEW tk \in Chain, ClearOnward(t, tk)
  PROVE  TaskOK' /\ HeldOK' /\ SchedOK'
<1>1. tk.i \in Nat
  BY DEF Chain
<1>2. CASE tk.i \in DOMAIN queue
  <2>1. /\ held' = [held EXCEPT ![queue[tk.i]] = NoReason]
        /\ task' = [task EXCEPT ![t] = [tk EXCEPT !.pc = "clearing", !.i = tk.i + 1]]
        /\ UNCHANGED sched
    BY <1>2 DEF ClearOnward
  <2>2. HeldOK'
    BY <1>2, <2>1, AllParts DEF HeldOK, AnyReason
  <2>3. "clearing" \in Plain /\ tk.i + 1 \in Nat
    BY <1>1 DEF Plain, PCs, Working, Blocking
  <2>4. [tk EXCEPT !.pc = "clearing", !.i = tk.i + 1] \in Loose
    BY <2>3, WalkType
  <2> QED BY <2>1, <2>2, <2>4, AllParts, MoveOn, Unchanged
<1>3. CASE tk.i \notin DOMAIN queue
  <2> DEFINE c == [IdleTask EXCEPT !.pc = "next", !.ctx = "retry"]
  <2>1. "next" \in Plain /\ "retry" \in Contexts
    BY DEF Plain, PCs, Working, Blocking, Contexts
  <2>2. c \in Chain
    BY <2>1, IdleChain, FieldType DEF Plain
  <2>3. c.pc = "next"
    BY IdleChain DEF Chain
  <2>4. UNCHANGED held /\ LeaveEdit(t, c)
    BY <1>3 DEF ClearOnward
  <2> HIDE DEF c
  <2>5. c \in Loose
    BY <2>1, <2>2, <2>3 DEF Loose, Plain
  <2> QED BY <2>4, <2>5, AllParts, LeaveEditType DEF HeldOK
<1> QED BY <1>2, <1>3

LEMMA ClearType ==
  ASSUME TypeOK, NEW t \in Tasks, ClearQueueHold(t) \/ ClearEmitted(t)
  PROVE  TypeOK'
<1>1. CASE ClearQueueHold(t)
  <2>1. [task[t] EXCEPT !.i = 1] \in Chain
    BY AllParts, FieldType
  <2>2. TaskOK' /\ HeldOK' /\ SchedOK'
    BY <1>1, <2>1, ClearOnwardType DEF ClearQueueHold
  <2>3. HoldOK'
    <3>1. << >> \in Seq(Reasons) /\ 0 \in Revisions
      BY MaxRevisionType DEF Revisions
    <3> QED BY <1>1, <3>1, SetReasonsType DEF ClearQueueHold
  <2> QED BY <1>1, <2>2, <2>3, Unchanged DEF ClearQueueHold, TypeOK
<1>2. CASE ClearEmitted(t)
  <2>1. TaskOK' /\ HeldOK' /\ SchedOK'
    BY <1>2, AllParts, ClearOnwardType DEF ClearEmitted
  <2> QED BY <1>2, <2>1, Unchanged DEF ClearEmitted, TypeOK
<1> QED BY <1>1, <1>2

LEMMA MaxIn ==
  ASSUME NEW I \in SUBSET Nat, NEW b \in Nat, I # {}, \A i \in I : i <= b
  PROVE  Max(I) \in I
<1> DEFINE J == {b - i : i \in I}
<1>1. J \in SUBSET Nat /\ J # {}
  <2>1. \A i \in I : b - i \in Nat
    OBVIOUS
  <2> QED BY <2>1
<1>2. Min(J) \in J /\ \A j \in J : Min(J) <= j
  <2> HIDE DEF J
  <2> QED BY <1>1, MinIn
<1>3. PICK m \in I : Min(J) = b - m
  BY <1>2
<1>4. \A i \in I : i <= m
  <2> TAKE i \in I
  <2>1. b - i \in J
    OBVIOUS
  <2>2. b - m <= b - i
    <3> HIDE DEF J
    <3> QED BY <1>2, <1>3, <2>1
  <2> QED BY <2>2
<1> QED BY <1>4 DEF Max

LEMMA UnlockOnwardType ==
  ASSUME TypeOK, NEW t \in Tasks, NEW tk \in Chain, UnlockOnward(t, tk)
  PROVE  TaskOK' /\ HeldOK' /\ HoldOK' /\ SchedOK'
<1> DEFINE onward  == {j \in DOMAIN queue : tk.i # 0 /\ j >= tk.i /\ Held(queue[j])}
           locked  == {j \in onward : held[queue[j]] = "lock"}
           j       == Min(locked)
           skipped == {k \in onward \ locked : locked = {} \/ k < j}
           kept    == tk.kept \union {held[queue[k]] : k \in skipped}
           ahead   == IF skipped = {} THEN tk.ahead ELSE held[queue[Max(skipped)]]
<1>1. /\ tk.snap \in Seq(Reasons) /\ tk.rev \in Revisions
      /\ tk.kept \in SUBSET Reasons /\ tk.ahead \in AnyReason
  BY DEF Chain
<1>2. onward \in SUBSET (1..Len(queue)) /\ \A k \in onward : held[queue[k]] \in Reasons
  <2>1. \A k \in 1..Len(queue) : held[queue[k]] \in AnyReason
    BY AllParts DEF HeldOK
  <2> QED BY <2>1, AllParts DEF Held, AnyReason
<1>3. locked \subseteq onward /\ skipped \subseteq onward
  OBVIOUS
<1>4. locked # {} => j \in 1..Len(queue)
  <2>1. locked \in SUBSET Nat /\ locked \subseteq 1..Len(queue)
    <3> HIDE DEF onward, locked
    <3> QED BY <1>2, <1>3
  <2> HIDE DEF locked
  <2> QED BY <2>1, MinIn
<1>5. kept \in SUBSET Reasons /\ ahead \in AnyReason
  <2>1. skipped # {} => Max(skipped) \in skipped
    <3>1. skipped \in SUBSET Nat /\ \A k \in skipped : k <= Len(queue)
      <4> HIDE DEF onward, skipped
      <4> QED BY <1>2, <1>3
    <3>2. Len(queue) \in Nat
      BY AllParts
    <3> HIDE DEF skipped
    <3> QED BY <3>1, <3>2, MaxIn
  <2> HIDE DEF onward, skipped
  <2> QED BY <1>1, <1>2, <1>3, <2>1 DEF AnyReason
<1>6. CASE locked # {}
  <2> DEFINE c == [tk EXCEPT !.pc = "unlocking", !.i = j + 1, !.ahead = ahead, !.kept = kept]
  <2>1. /\ held' = [held EXCEPT ![queue[j]] = ahead]
        /\ task' = [task EXCEPT ![t] = c]
        /\ UNCHANGED <<hold, sched>>
    BY <1>6 DEF UnlockOnward
  <2> HIDE DEF onward, locked, j, skipped, kept, ahead
  <2>2. "unlocking" \in Plain /\ j + 1 \in Nat
    BY <1>4, <1>6 DEF Plain, PCs, Working, Blocking
  <2>3. c \in Chain
    BY <1>5, <2>2, FieldType DEF Plain
  <2>4. c.pc = "unlocking"
    BY DEF Chain
  <2> HIDE DEF c
  <2>5. TaskOK'
    BY <2>1, <2>2, <2>3, <2>4, AllParts, MoveOn DEF Loose, Plain
  <2>6. HeldOK'
    BY <1>4, <1>5, <1>6, <2>1, AllParts DEF HeldOK
  <2> QED BY <2>1, <2>5, <2>6, Unchanged
<1>7. CASE locked = {}
  <2>1. /\ UNCHANGED held
        /\ SetReasons(OnlyReasons(tk.snap, kept), tk.rev)
        /\ task' = [task EXCEPT ![t] = IdleTask]
        /\ ArmDrain
        /\ UNCHANGED <<editors, closed>>
    BY <1>7 DEF UnlockOnward
  <2> HIDE DEF kept
  <2>2. HoldOK'
    BY <1>1, <2>1, OnlyReasonsType, SetReasonsType
  <2>3. SchedOK'
    BY <2>1, AllParts DEF ArmDrain, SchedOK
  <2> QED BY <2>1, <2>2, <2>3, AllParts, IdleLoose, MoveOn DEF HeldOK
<1> QED BY <1>6, <1>7

LEMMA UnlockType ==
  ASSUME TypeOK, NEW t \in Tasks, ReleaseHold(t) \/ UnlockEmitted(t)
  PROVE  TypeOK'
<1>1. PICK tk \in Chain : UnlockOnward(t, tk)
  <2>1. CASE ReleaseHold(t)
    <3> DEFINE tk == [IdleTask EXCEPT !.i = 1, !.snap = reasons, !.rev = revision]
    <3>1. tk \in Chain
      BY IdleChain, FieldType, AllParts DEF HoldOK
    <3>2. UnlockOnward(t, tk)
      BY <2>1 DEF ReleaseHold
    <3> QED BY <3>1, <3>2
  <2>2. CASE UnlockEmitted(t)
    BY <2>2, AllParts DEF UnlockEmitted
  <2> QED BY <2>1, <2>2
<1>2. UNCHANGED <<queue, paused, project, batch, edited, handoff, release, provider, history>>
  BY DEF ReleaseHold, UnlockEmitted
<1> QED BY <1>1, <1>2, UnlockOnwardType, Unchanged DEF TypeOK

(* Synchronous operations, the backend and the gate. *)

LEMMA EditInputType ==
  ASSUME TypeOK, NEW e \in Entries, EditInput(e)
  PROVE  TypeOK'
<1>1. FifoOK'
  BY AllParts DEF EditInput, FifoOK
<1> QED BY <1>1, Unchanged DEF EditInput, TypeOK

LEMMA CancelEntryType ==
  ASSUME TypeOK, NEW e \in Entries, CancelEntry(e)
  PROVE  TypeOK'
<1> DEFINE w == IndexOf(queue, e)
           q == RemoveAt(queue, w)
<1>1. w \in 1..Len(queue)
  <2>1. \E i \in 1..Len(queue) : queue[i] = e
    BY AllParts DEF CancelEntry, InQueue, Contains
  <2> QED BY <2>1, AllParts, IndexOfType
<1>2. q \in Seq(Entries)
  BY <1>1, AllParts, RemoveAtType
<1>3. /\ queue' = q /\ DropSpentHold(q) /\ task' = Detached(task, q)
      /\ drain' = (IF w = 1 /\ q # << >> THEN ~closed ELSE drain)
      /\ fate' = [m \in Entries |-> IF m \in batch[e] THEN "cancelled" ELSE fate[m]]
      /\ held' = [held EXCEPT ![e] = NoReason]
      /\ paused' = paused \ {e}
      /\ project' = project \ {e}
      /\ UNCHANGED <<batch, edited, handoff, release, editors, closed, provider, placed>>
  BY DEF CancelEntry
<1> HIDE DEF w, q
<1>4. FifoOK'
  <2>1. held' \in [Entries -> AnyReason]
    BY <1>3, AllParts DEF HeldOK, AnyReason
  <2> QED BY <1>2, <1>3, <2>1, AllParts DEF FifoOK
<1>5. HoldOK'
  BY <1>3, AllParts, DropSpentHoldType
<1>6. TaskOK'
  <2> DEFINE d == Detached(task, q)
  <2>1. /\ d \in [Tasks -> Chain]
        /\ \A u \in Tasks : d[u].pc = task[u].pc /\ d[u].entry = task[u].entry
                            /\ d[u].reason = task[u].reason
    BY AllParts, DetachedType
  <2>2. task' = d
    BY <1>3
  <2> HIDE DEF d
  <2> QED BY <2>1, <2>2, WorkFacts DEF TaskOK
<1>7. HistoryOK'
  BY <1>3, AllParts DEF HistoryOK
<1>8. SchedOK'
  BY <1>3, AllParts DEF SchedOK
<1> QED BY <1>3, <1>4, <1>5, <1>6, <1>7, <1>8, Unchanged DEF TypeOK

LEMMA SchedulingType ==
  ASSUME TypeOK, ScheduleThreadDrain \/ Close
  PROVE  TypeOK'
<1>1. SchedOK'
  BY AllParts DEF ScheduleThreadDrain, Close, ArmDrain, SchedOK
<1>2. UNCHANGED <<fifo, hold, handoff, release, task, provider, history>>
  BY DEF ScheduleThreadDrain, Close
<1> QED BY <1>1, <1>2, Unchanged DEF TypeOK

LEMMA TurnBeginsType ==
  ASSUME TypeOK, NEW t \in Tasks, TurnBegins(t)
  PROVE  TypeOK'
<1>1. TurnOf(task[t].entry) \in AnyTurn
  BY AllParts DEF TurnOf, AnyTurn, ProviderOK, Chain
<1>2. ProviderOK'
  BY <1>1, AllParts DEF TurnBegins, ProviderOK
<1> QED BY <1>2, Unchanged DEF TurnBegins, TypeOK

LEMMA ExternalTurnBeginsType ==
  ASSUME TypeOK, ExternalTurnBegins
  PROVE  TypeOK'
<1>1. starts' \in [AnyEntry -> Nat] /\ NoEntry \in AnyEntry
  <2>1. starts \in [AnyEntry -> Nat] /\ NoEntry \in AnyEntry
    BY AllParts DEF ProviderOK, AnyEntry
  <2>2. starts' = [starts EXCEPT ![NoEntry] = starts[NoEntry] + 1]
    BY DEF ExternalTurnBegins
  <2> QED BY <2>1, <2>2
<1>2. active' \in AnyTurn
  BY <1>1 DEF ExternalTurnBegins, AnyTurn
<1>3. ProviderOK'
  BY <1>1, <1>2, AllParts DEF ExternalTurnBegins, ProviderOK
<1> QED BY <1>3, Unchanged DEF ExternalTurnBegins, TypeOK

LEMMA NotifyType ==
  ASSUME TypeOK, NEW n \in Outcome, Notify(n), active' \in AnyTurn
  PROVE  TypeOK'
<1>1. ProviderOK'
  BY AllParts DEF Notify, ProviderOK
<1> QED BY <1>1, Unchanged DEF Notify, TypeOK

LEMMA NoticesType ==
  ASSUME TypeOK,
         \/ \E s \in {"completed", "failed"} : TurnEnds(s)
         \/ IdleReported
         \/ \E turn \in processed : OutcomeRepeated(turn)
  PROVE  TypeOK'
<1>1. active \in AnyTurn /\ processed \subseteq AnyTurn /\ NoTurn \in AnyTurn
  BY AllParts, NoTurnType DEF ProviderOK, HandoffOK
<1>2. \A u \in AnyTurn : \A s \in Statuses : [turn |-> u, status |-> s] \in Outcome
  BY DEF Outcome
<1>3. \E n \in Outcome : Notify(n) /\ active' \in AnyTurn
  <2>1. CASE \E s \in {"completed", "failed"} : TurnEnds(s)
    BY <1>1, <1>2, <2>1 DEF TurnEnds, Statuses
  <2>2. CASE IdleReported
    BY <1>1, <1>2, <2>2 DEF IdleReported, IdleReport, Statuses
  <2>3. CASE \E turn \in processed : OutcomeRepeated(turn)
    BY <1>1, <1>2, <2>3 DEF OutcomeRepeated, Statuses
  <2> QED BY <2>1, <2>2, <2>3
<1> QED BY <1>3, NotifyType

LEMMA GateMovesType ==
  ASSUME TypeOK, GateDue \/ GateOpens \/ GateQuiets
  PROVE  TypeOK'
<1>1. \E to \in {"open", "due", "quieting"} : \E from : GateMoves(from, to)
  BY DEF GateDue, GateOpens, GateQuiets
<1>2. ProviderOK'
  BY <1>1, AllParts DEF GateMoves, ProviderOK
<1>3. drain' \in BOOLEAN
  BY <1>1, AllParts DEF GateMoves, ArmDrain, SchedOK
<1> QED BY <1>1, <1>2, <1>3, Unchanged DEF GateMoves, TypeOK

LEMMA StutterType == TypeOK /\ UNCHANGED vars => TypeOK'
<1> SUFFICES ASSUME TypeOK, UNCHANGED vars PROVE TypeOK'
  OBVIOUS
<1> QED BY Unchanged DEF vars, TypeOK

(* Every step keeps every type. *)
LEMMA TypeNext == TypeOK /\ [Next]_vars => TypeOK'
<1> SUFFICES ASSUME TypeOK, [Next]_vars PROVE TypeOK'
  OBVIOUS
<1>1. ASSUME NEW t \in Tasks, Proceed(t)  PROVE TypeOK'
  BY <1>1, StartNextType, StartFinishedType, SteerBackType, ReleaseRefusedType, MoveEntryType,
     PauseEntryType, ResumeEntryType, SubmitSteerType, ClearType, EditLeavesType DEF Proceed
<1>2. ASSUME Submission  PROVE TypeOK'
  BY <1>2, EnqueueType, SubmitProjectHeldType, CancelEntryType, EditInputType,
     StartNowType, StartsEditType, SubmitHeldType, UnlockType, SchedulingType DEF Submission
<1>3. ASSUME NEW t \in Tasks, Emitted(t)  PROVE TypeOK'
  BY <1>3, HoldEmittedType, HeldEmittedType, ClearType, UnlockType, StartEmittedType,
     TerminalEmittedType, StartFinishedType, BlockEmittedType, EditLeavesType DEF Emitted
<1>4. ASSUME NEW t \in Tasks, Answer(t)  PROVE TypeOK'
  BY <1>4, StartAcknowledgedType, DirectStartRejectedType, SteerAcceptedType,
     QueuedStartRejectedType, SteerRejectedType, SteerDeclinedType DEF Answer
<1>5. ASSUME NEW n \in notices, Report(n)  PROVE TypeOK'
  BY <1>5, ReleaseIgnoredType, ReleaseType DEF Report
<1>6. ASSUME Backend  PROVE TypeOK'
  BY <1>6, TurnBeginsType, ExternalTurnBeginsType, NoticesType DEF Backend
<1> QED BY <1>1, <1>2, <1>3, <1>4, <1>5, <1>6, DrainFiresType, GateMovesType, StutterType DEF Next

(* Every variable of the queue, and every local of a suspended promise     *)
(* chain, has its type in every reachable state: in particular a chain     *)
(* that starts, steers or edits has an entry to do it with.                *)
THEOREM TypeCorrect == Spec => []TypeOK
BY TypeInit, TypeNext, PTL DEF Spec

=============================================================================
