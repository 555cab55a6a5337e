---------------------- MODULE DurableTurnRequestProofs ----------------------
(* The inbox asks the backend at most once for a request, and its receipts *)
(* say only what happened: for any number of processes, calls, requests    *)
(* and crashes.                                                            *)
EXTENDS DurableTurnRequest, TLAPS

USE DEF inbox, queue

-----------------------------------------------------------------------------
(* Types.                                                                  *)

LEMMA ReceiptType ==
  ASSUME TypeOK, NEW r \in Requests, row[r] # NoRow
  PROVE  /\ row[r] \in Receipt
         /\ Doubted(row[r]) \in Receipt
         /\ [row[r] EXCEPT !.state = "dispatching"] \in Receipt
         /\ \A event \in {"started", "ended", "failed"} : Observed(row[r], event) \in Receipt
         /\ \A at \in {"queued", "started", "refused", "failed"} : Answered(r, at) \in Receipt
<1>1. row[r] \in Receipt
  BY DEF TypeOK
<1>2. row[r].state \in States /\ row[r].result \in Results
  BY <1>1 DEF Receipt
<1>3. \A s \in States, x \in Results :
        /\ [row[r] EXCEPT !.state = s] \in Receipt
        /\ [row[r] EXCEPT !.result = x, !.state = s] \in Receipt
        /\ [row[r] EXCEPT !.state = s, !.result = x] \in Receipt
  BY <1>1 DEF Receipt
<1>4. \A event \in {"started", "ended", "failed"} : Observed(row[r], event) \in Receipt
  BY <1>1, <1>2, <1>3 DEF Observed, Doubted, States, Results
<1>5. \A at \in {"queued", "started", "refused", "failed"} : Answered(r, at) \in Receipt
  BY <1>1, <1>2, <1>3 DEF Answered, Doubted, States, Results
<1>6. \A s \in States : [row[r] EXCEPT !.state = s] \in Receipt
  BY <1>1 DEF Receipt
<1>7. QED
  BY <1>1, <1>4, <1>5, <1>6 DEF Doubted, States

(* A step that writes receipts keeps their type.                           *)
RowsTyped == /\ row' \in [Requests -> Receipt \union {NoRow}] /\ stale' \subseteq Requests

LEMMA WriteType ==
  ASSUME TypeOK, NEW r \in Requests, NEW x \in Receipt, Write(r, x)
  PROVE  RowsTyped
BY DEF TypeOK, Write, RowsTyped

LEMMA ObserveType ==
  ASSUME TypeOK, NEW r \in Requests, NEW event \in {"started", "ended", "failed"}, Observe(r, event)
  PROVE  RowsTyped
<1>1. CASE row[r] # NoRow /\ Write(r, Observed(row[r], event))
  BY <1>1, ReceiptType, WriteType
<1>2. CASE UNCHANGED <<row, stale>>
  BY <1>2 DEF TypeOK, RowsTyped
<1>3. QED
  BY <1>1, <1>2 DEF Observe

LEMMA ReconcileType ==
  ASSUME TypeOK, NEW o \in Owners, NEW r \in Requests, row[r] # NoRow, Reconciled(o, r)
  PROVE  RowsTyped /\ doubt' \subseteq Owners \X Requests
<1>1. CASE Write(r, Doubted(row[r])) /\ UNCHANGED doubt
  BY <1>1, ReceiptType, WriteType DEF TypeOK
<1>2. CASE UNCHANGED <<row, stale>>
  BY <1>2 DEF TypeOK, RowsTyped, Reconciled
<1>3. QED
  BY <1>1, <1>2 DEF Reconciled

(* A step that moves calls keeps their type.                               *)
CallsTyped == call' \in [Calls -> Busy \union {Idle}]

LEMMA CallType ==
  ASSUME TypeOK, NEW c \in Calls
  PROVE  /\ Done(c) => CallsTyped
         /\ call[c].at # "idle" => call[c] \in Busy /\ call[c].owner \in Owners /\ call[c].of \in Requests
         /\ \A at \in {"claimed", "asked", "queued", "starting", "started", "refused", "failed"} :
              call[c].at # "idle" /\ Goto(c, at) => CallsTyped
<1>1. call[c] \in Busy \union {Idle}
  BY DEF TypeOK
<1>2. call[c].at # "idle" => call[c] \in Busy /\ call[c].owner \in Owners /\ call[c].of \in Requests
  BY <1>1 DEF Busy, Idle
<1>3. \A at \in {"claimed", "asked", "queued", "starting", "started", "refused", "failed"} :
        call[c] \in Busy => [call[c] EXCEPT !.at = at] \in Busy
  BY DEF Busy
<1>4. QED
  BY <1>2, <1>3 DEF TypeOK, Done, Goto, CallsTyped

LEMMA ReturnType ==
  ASSUME TypeOK, NEW r \in Requests, NEW at \in {"started", "failed"}, Return(r, at)
  PROVE  CallsTyped
<1>1. \A c \in Calls : c \in Awaiting(r) => [call[c] EXCEPT !.at = at] \in Busy
  BY CallType DEF Awaiting, Busy
<1>2. QED
  BY <1>1 DEF Return, CallsTyped, TypeOK

(* A step that moves entries keeps their type.                             *)
EntryStates == {"none", "waiting", "starting", "draining", "running", "gone"}
EntriesTyped == entry' \in [Requests -> [at : EntryStates, home : Owners]]

LEMMA EntryType ==
  ASSUME TypeOK, NEW r \in Requests, NEW at \in EntryStates
  PROVE  /\ [entry[r] EXCEPT !.at = at] \in [at : EntryStates, home : Owners]
         /\ Moves(r, at) => EntriesTyped
<1>1. entry[r] \in [at : EntryStates, home : Owners]
  BY DEF TypeOK, EntryStates
<1>2. [entry[r] EXCEPT !.at = at] \in [at : EntryStates, home : Owners]
  BY <1>1
<1>3. QED
  BY <1>2 DEF TypeOK, Moves, EntriesTyped, EntryStates

LEMMA SubmitType ==
  ASSUME TypeOK, InboxAssumption, NEW c \in Calls, NEW o \in Owners, NEW r \in Requests,
         Admit(c, o, r) \/ Resume(c, o, r)
  PROVE  TypeOK'
<1>1. [at |-> "admitted", owner |-> o, of |-> r] \in Busy
  BY DEF Busy
<1>2. Admitted(c, o, r) => CallsTyped /\ listens' \subseteq Owners
  BY <1>1 DEF Admitted, TypeOK, CallsTyped
<1>3. [state |-> "accepted", result |-> "none"] \in Receipt
  BY DEF Receipt, States, Results
<1>4. CASE Admit(c, o, r)
  BY <1>2, <1>3, <1>4 DEF Admit, TypeOK, CallsTyped
<1>5. CASE Resume(c, o, r)
  BY <1>2, <1>5 DEF Resume, TypeOK, CallsTyped
<1>6. QED
  BY <1>4, <1>5

LEMMA CallStepType ==
  ASSUME TypeOK, InboxAssumption, NEW c \in Calls, Proceeds(c)
  PROVE  TypeOK'
<1> DEFINE r == call[c].of
           o == call[c].owner
<1>1. call[c].at # "idle" => r \in Requests /\ o \in Owners /\ call[c] \in Busy
  BY CallType
<1>2. CASE Claim(c)
  <2>1. r \in Requests /\ o \in Owners
    BY <1>1, <1>2 DEF Claim
  <2>2. CallsTyped
    BY <1>2, CallType DEF Claim
  <2>3. RowsTyped /\ doubt' \subseteq Owners \X Requests
    <3>1. CASE UNCHANGED inbox
      BY <3>1 DEF TypeOK, RowsTyped
    <3>2. CASE r \in Rows /\ Write(r, [row[r] EXCEPT !.state = "dispatching"]) /\ UNCHANGED doubt
      BY <2>1, <3>2, ReceiptType, WriteType DEF Rows, TypeOK
    <3>3. CASE r \in Rows /\ Reconciled(o, r)
      BY <2>1, <3>3, ReconcileType DEF Rows
    <3>4. QED
      BY <1>2, <3>1, <3>2, <3>3 DEF Claim
  <2>4. QED
    BY <1>2, <2>2, <2>3 DEF Claim, TypeOK, CallsTyped, RowsTyped
<1>3. CASE Dispatch(c)
  BY <1>1, <1>3, CallType DEF Dispatch, TypeOK, CallsTyped
<1>4. CASE Answer(c)
  <2>1. r \in Requests /\ call[c].at \in {"queued", "started", "refused", "failed"}
    BY <1>1, <1>4 DEF Answer
  <2>2. RowsTyped
    <3>1. CASE r \in Rows /\ Write(r, Answered(r, call[c].at))
      BY <2>1, <3>1, ReceiptType, WriteType DEF Rows
    <3>2. CASE UNCHANGED <<row, stale>>
      BY <3>2 DEF TypeOK, RowsTyped
    <3>3. QED
      BY <1>4, <3>1, <3>2 DEF Answer
  <2>3. QED
    BY <1>4, <2>2, CallType DEF Answer, TypeOK, CallsTyped, RowsTyped
<1>5. CASE RejectTurn(c)
  BY <1>5, CallType DEF RejectTurn, AsksTurn, TypeOK, CallsTyped
<1>6. CASE QueueTurn(c) \/ BeginTurn(c)
  <2>1. r \in Requests /\ o \in Owners
    BY <1>1, <1>6 DEF QueueTurn, BeginTurn, AsksTurn
  <2>2. CallsTyped
    BY <1>6, CallType DEF QueueTurn, BeginTurn, AsksTurn
  <2>3. EntriesTyped
    BY <1>6, <2>1 DEF QueueTurn, BeginTurn, Enters, TypeOK, EntriesTyped, EntryStates
  <2>4. QED
    BY <1>6, <2>2, <2>3 DEF QueueTurn, BeginTurn, TypeOK, CallsTyped, EntriesTyped, EntryStates
<1>7. CASE SteerTaken(c)
  BY <1>1, <1>7, CallType DEF SteerTaken, AsksSteer, TypeOK, CallsTyped
<1>8. CASE SteerUnproved(c)
  <2>1. r \in Requests /\ CallsTyped
    BY <1>1, <1>8, CallType DEF SteerUnproved, AsksSteer
  <2>2. QED
    BY <1>8, <2>1 DEF SteerUnproved, TakenOrNot, TypeOK, CallsTyped
<1>9. QED
  BY <1>2, <1>3, <1>4, <1>5, <1>6, <1>7, <1>8 DEF Proceeds

LEMMA AdvanceType ==
  ASSUME TypeOK, NEW r \in Requests, Advances(r)
  PROVE  TypeOK'
<1>1. CASE Drain(r)
  BY <1>1, EntryType DEF Drain, TypeOK, EntriesTyped, EntryStates
<1>2. CASE TurnStarts(r)
  <2>1. RowsTyped /\ CallsTyped /\ EntriesTyped
    BY <1>2, ObserveType, ReturnType, EntryType DEF TurnStarts, EntryStates
  <2>2. QED
    BY <1>2, <2>1 DEF TurnStarts, TypeOK, RowsTyped, CallsTyped, EntriesTyped, EntryStates
<1>3. CASE DirectStartFails(r)
  <2>1. RowsTyped /\ CallsTyped /\ EntriesTyped
    BY <1>3, ObserveType, ReturnType, EntryType DEF DirectStartFails, EntryStates
  <2>2. QED
    BY <1>3, <2>1 DEF DirectStartFails, TakenOrNot, TypeOK, RowsTyped, CallsTyped, EntriesTyped, EntryStates
<1>4. CASE DrainFails(r)
  BY <1>4, EntryType DEF DrainFails, TakenOrNot, TypeOK, EntriesTyped, EntryStates
<1>5. CASE Ends(r)
  <2>1. RowsTyped /\ EntriesTyped
    BY <1>5, ObserveType, EntryType DEF Ends, EntryStates
  <2>2. QED
    BY <1>5, <2>1 DEF Ends, TypeOK, RowsTyped, EntriesTyped, EntryStates
<1>6. CASE IdleRelease(r)
  BY <1>6, EntryType DEF IdleRelease, TypeOK, EntriesTyped, EntryStates
<1>7. CASE GoStale(r) \/ Expire(r)
  BY <1>7 DEF GoStale, Expire, TypeOK
<1>8. QED
  BY <1>1, <1>2, <1>3, <1>4, <1>5, <1>6, <1>7 DEF Advances

LEMMA ProcessType ==
  ASSUME TypeOK, InboxAssumption, NEW o \in Owners,
         Stop(o) \/ Crash(o) \/ \E r \in Requests : Reconcile(o, r) \/ MarkLost(o, r)
  PROVE  TypeOK'
<1>1. CASE Stop(o)
  BY <1>1 DEF Stop, TypeOK
<1>2. CASE Crash(o)
  <2>1. EntriesTyped
    <3>1. \A r \in Requests : [entry[r] EXCEPT !.at = "gone"] \in [at : EntryStates, home : Owners]
      BY EntryType DEF EntryStates
    <3>2. QED
      BY <1>2, <3>1 DEF Crash, TypeOK, EntriesTyped, EntryStates
  <2>2. CallsTyped
    BY <1>2 DEF Crash, TypeOK, CallsTyped
  <2>3. crashes' \in 0..MaxCrashes
    BY <1>2 DEF Crash, TypeOK, InboxAssumption
  <2>4. QED
    BY <1>2, <2>1, <2>2, <2>3 DEF Crash, TypeOK, EntriesTyped, EntryStates, CallsTyped
<1>3. ASSUME NEW r \in Requests, Reconcile(o, r)
      PROVE  TypeOK'
  <2>1. RowsTyped /\ doubt' \subseteq Owners \X Requests
    BY <1>3, ReconcileType DEF Reconcile, Rows
  <2>2. QED
    BY <1>3, <2>1 DEF Reconcile, TypeOK, RowsTyped
<1>4. ASSUME NEW r \in Requests, MarkLost(o, r)
      PROVE  TypeOK'
  <2>1. RowsTyped
    <3>1. CASE r \in Rows /\ Write(r, Doubted(row[r]))
      BY <3>1, ReceiptType, WriteType DEF Rows
    <3>2. CASE UNCHANGED <<row, stale>>
      BY <3>2 DEF TypeOK, RowsTyped
    <3>3. QED
      BY <1>4, <3>1, <3>2 DEF MarkLost
  <2>2. QED
    BY <1>4, <2>1 DEF MarkLost, TypeOK, RowsTyped
<1>5. QED
  BY <1>1, <1>2, <1>3, <1>4

LEMMA InitType == InboxAssumption /\ Init => TypeOK
BY DEF InboxAssumption, Init, TypeOK, Idle

LEMMA StepType == InboxAssumption /\ TypeOK /\ [Next]_vars => TypeOK'
<1> SUFFICES ASSUME InboxAssumption, TypeOK, [Next]_vars PROVE TypeOK'
  OBVIOUS
<1>1. CASE UNCHANGED vars
  BY <1>1 DEF vars, TypeOK
<1>2. ASSUME NEW c \in Calls, Proceeds(c) \/ \E o \in Owners : Submits(c, o)
      PROVE  TypeOK'
  BY <1>2, CallStepType, SubmitType DEF Submits
<1>3. ASSUME NEW r \in Requests, Advances(r) \/ \E o \in Owners : Reconcile(o, r) \/ MarkLost(o, r)
      PROVE  TypeOK'
  BY <1>3, AdvanceType, ProcessType
<1>4. ASSUME NEW o \in Owners, Stop(o) \/ Crash(o)
      PROVE  TypeOK'
  BY <1>4, ProcessType
<1>5. QED
  BY <1>1, <1>2, <1>3, <1>4 DEF Next

(* Every variable of the inbox, the queue behind it and the calls keeps    *)
(* its type.                                                               *)
THEOREM TypeCorrect == Spec => []TypeOK
<1>1. Init => TypeOK
  BY InitType, InboxAssumption
<1>2. TypeOK /\ [Next]_vars => TypeOK'
  BY StepType, InboxAssumption
<1>3. QED
  BY <1>1, <1>2, PTL DEF Spec

-----------------------------------------------------------------------------
(* The claim.                                                              *)

(* A call that took the claim of r and has not written its answer.         *)
Holds(c, r) == call[c].at \notin {"idle", "admitted"} /\ call[c].of = r

(* A request somebody may yet claim: it is new or was admitted only.       *)
Unspent(r) ==
  \/ row[r] = NoRow /\ r \notin expired
  \/ row[r] # NoRow /\ Claimable(row[r])

(* A claim has one holder, and nothing came of it before the holder asked. *)
OneHolder   == \A r \in Requests, c, d \in Calls : Holds(c, r) /\ Holds(d, r) => c = d
HolderFirst == \A r \in Requests, c \in Calls : Holds(c, r) =>
                 /\ call[c].at = "claimed" => asked[r] = 0
                 /\ call[c].at # "claimed" => asked[r] = 1
                 /\ call[c].at \in {"claimed", "asked"} => entry[r].at = "none"
Untouched   == \A r \in Requests : Unspent(r) =>
                 asked[r] = 0 /\ entry[r].at = "none" /\ \A c \in Calls : ~Holds(c, r)

ClaimInv == OneHolder /\ HolderFirst /\ Untouched /\ AtMostOnce

(* The parts of a step the claim depends on.                               *)
SpendsNone == \A r \in Requests : Unspent(r)' => Unspent(r)
Onward(c)  == \/ call'[c].at = call[c].at
              \/ call[c].at # "claimed" /\ call'[c].at \notin {"claimed", "asked"}

(* A step that leaves the backend unasked, gives nobody a claim, keeps the *)
(* places of the claims' entries and makes nothing claimable is harmless.  *)
LEMMA ClaimFrame ==
  ASSUME TypeOK, ClaimInv, UNCHANGED asked, SpendsNone,
         \A c \in Calls, r \in Requests : Holds(c, r)' => Holds(c, r) /\ Onward(c),
         \A r \in Requests : entry[r].at = "none" => entry'[r].at = "none"
  PROVE  ClaimInv'
<1>1. OneHolder'
  BY DEF ClaimInv, OneHolder
<1>2. HolderFirst'
  BY DEF ClaimInv, HolderFirst, Onward
<1>3. Untouched'
  BY DEF ClaimInv, Untouched, SpendsNone
<1>4. QED
  BY <1>1, <1>2, <1>3 DEF ClaimInv, AtMostOnce

(* What the inbox writes is never claimable.                               *)
LEMMA NotClaimable ==
  ASSUME TypeOK, NEW r \in Requests, row[r] # NoRow
  PROVE  /\ ~Claimable(Doubted(row[r]))
         /\ ~Claimable([row[r] EXCEPT !.state = "dispatching"])
         /\ \A at \in {"queued", "started", "refused", "failed"} : ~Claimable(Answered(r, at))
         /\ \A event \in {"started", "ended", "failed"} :
              Claimable(Observed(row[r], event)) => Claimable(row[r])
<1>1. row[r].state \in States /\ row[r].result \in Results /\ row[r] \in Receipt
  BY DEF TypeOK, Receipt
<1>2. \A at \in {"queued", "started", "refused", "failed"} : ~Claimable(Answered(r, at))
  BY <1>1 DEF Claimable, Answered, Doubted, Receipt, States, Results
<1>3. \A event \in {"started", "ended", "failed"} :
              Claimable(Observed(row[r], event)) => Claimable(row[r])
  BY <1>1 DEF Claimable, Observed, Doubted, Receipt, States, Results
<1>4. QED
  BY <1>1, <1>2, <1>3 DEF Claimable, Doubted, Receipt

(* So a write makes nothing claimable, nor does a step that writes none.   *)
LEMMA WriteSpends ==
  ASSUME TypeOK, NEW r \in Requests, row[r] # NoRow, expired \subseteq expired', NEW x,
         row' = [row EXCEPT ![r] = x], Claimable(x) => Claimable(row[r]), x # NoRow
  PROVE  SpendsNone
BY DEF SpendsNone, Unspent, TypeOK

LEMMA SameSpends == ASSUME row' = row, expired \subseteq expired' PROVE SpendsNone
BY DEF SpendsNone, Unspent

LEMMA ObserveSpends ==
  ASSUME TypeOK, InboxAssumption, NEW r \in Requests, NEW event \in {"started", "ended", "failed"},
         Observe(r, event), expired \subseteq expired'
  PROVE  SpendsNone
<1>1. CASE row[r] # NoRow /\ Write(r, Observed(row[r], event))
  <2>1. Observed(row[r], event) # NoRow
    BY <1>1, ReceiptType, InboxAssumption DEF InboxAssumption
  <2>2. QED
    BY <1>1, <2>1, NotClaimable, WriteSpends DEF Write
<1>2. CASE UNCHANGED <<row, stale>>
  BY <1>2, SameSpends
<1>3. QED
  BY <1>1, <1>2 DEF Observe

LEMMA ReconcileSpends ==
  ASSUME TypeOK, InboxAssumption, NEW o \in Owners, NEW r \in Requests, row[r] # NoRow,
         Reconciled(o, r), expired \subseteq expired'
  PROVE  SpendsNone
<1>1. CASE Write(r, Doubted(row[r]))
  <2>1. Doubted(row[r]) # NoRow
    BY ReceiptType DEF InboxAssumption
  <2>2. QED
    BY <1>1, <2>1, NotClaimable, WriteSpends DEF Write
<1>2. CASE UNCHANGED <<row, stale>>
  BY <1>2, SameSpends
<1>3. QED
  BY <1>1, <1>2 DEF Reconciled

LEMMA SubmitClaim ==
  ASSUME TypeOK, InboxAssumption, ClaimInv, NEW c \in Calls, NEW o \in Owners, NEW r \in Requests,
         Admit(c, o, r) \/ Resume(c, o, r)
  PROVE  ClaimInv'
<1>1. \A d \in Calls, s \in Requests : Holds(d, s)' => Holds(d, s) /\ Onward(d)
  BY DEF Admit, Resume, Admitted, Holds, Onward, TypeOK, Idle
<1>2. UNCHANGED <<asked, entry, expired>>
  BY DEF Admit, Resume
<1>3. SpendsNone
  <2>1. CASE Admit(c, o, r)
    <3>1. \A s \in Requests : row'[s] # NoRow => s = r \/ row'[s] = row[s]
      BY <2>1 DEF Admit
    <3>2. \A s \in Requests : row'[s] = NoRow => row[s] = NoRow \/ s \in expired
      BY <2>1, InboxAssumption DEF Admit, TypeOK, InboxAssumption, Receipt, States, Results
    <3>3. Unspent(r)
      BY <2>1 DEF Admit, Unspent, Rows
    <3>4. QED
      BY <1>2, <3>1, <3>2, <3>3 DEF SpendsNone, Unspent
  <2>2. CASE Resume(c, o, r)
    BY <2>2, SameSpends DEF Resume
  <2>3. QED
    BY <2>1, <2>2
<1>4. QED
  BY <1>1, <1>2, <1>3, ClaimFrame

LEMMA CallStepClaim ==
  ASSUME TypeOK, InboxAssumption, ClaimInv, NEW c \in Calls, Proceeds(c)
  PROVE  ClaimInv'
<1> DEFINE r == call[c].of
<1>0. call[c].at # "idle" /\ r \in Requests /\ call[c].owner \in Owners /\ call[c] \in Busy
  BY CallType DEF Proceeds, Claim, Dispatch, Answer, RejectTurn, QueueTurn, BeginTurn,
                  SteerTaken, SteerUnproved, AsksTurn, AsksSteer
<1>1. \A at : Goto(c, at) =>
        /\ call'[c].at = at /\ call'[c].of = r
        /\ \A d \in Calls \ {c} : call'[d] = call[d]
  BY <1>0 DEF Goto, TypeOK, Busy
<1>2. Done(c) => call'[c].at = "idle" /\ \A d \in Calls \ {c} : call'[d] = call[d]
  BY DEF Done, Idle, TypeOK
<1>3. CASE Claim(c)
  <2>1. CASE r \in Rows /\ Claimable(row[r])
    <3>1. Unspent(r) /\ row[r] # NoRow /\ Goto(c, "claimed")
          /\ Write(r, [row[r] EXCEPT !.state = "dispatching"])
      BY <1>3, <2>1 DEF Claim, Unspent, Rows
    <3>2. UNCHANGED <<asked, entry, expired>>
      BY <1>3 DEF Claim
    <3>3. /\ asked[r] = 0 /\ entry[r].at = "none"
          /\ \A d \in Calls : ~Holds(d, r)
      BY <1>0, <3>1 DEF ClaimInv, Untouched
    <3>4. \A d \in Calls, s \in Requests : Holds(d, s)' =>
            (d = c /\ s = r) \/ (d # c /\ s # r /\ Holds(d, s))
      BY <1>1, <3>1, <3>3 DEF Holds
    <3>5. row'[r] = [row[r] EXCEPT !.state = "dispatching"] /\ \A s \in Requests \ {r} : row'[s] = row[s]
      BY <1>0, <3>1 DEF Write, TypeOK
    <3>6. \A s \in Requests : Unspent(s)' => Unspent(s) /\ s # r
      <4>1. row'[r] # NoRow
        BY <1>0, <3>1, <3>5, ReceiptType DEF InboxAssumption
      <4>2. ~Claimable(row'[r])
        BY <1>0, <3>1, <3>5, NotClaimable
      <4>3. QED
        BY <1>0, <3>2, <3>5, <4>1, <4>2 DEF Unspent
    <3>7. OneHolder'
      BY <3>4 DEF ClaimInv, OneHolder
    <3>8. HolderFirst'
      BY <1>1, <3>1, <3>2, <3>3, <3>4 DEF ClaimInv, HolderFirst
    <3>9. Untouched'
      BY <3>2, <3>4, <3>6 DEF ClaimInv, Untouched
    <3>10. QED
      BY <3>2, <3>7, <3>8, <3>9 DEF ClaimInv, AtMostOnce
  <2>2. CASE ~(r \in Rows /\ Claimable(row[r]))
    <3>1. Done(c) /\ UNCHANGED <<asked, entry, expired>>
      BY <1>3, <2>2 DEF Claim
    <3>2. \A d \in Calls, s \in Requests : Holds(d, s)' => Holds(d, s) /\ Onward(d)
      BY <1>2, <3>1 DEF Holds, Onward
    <3>3. SpendsNone
      <4>1. CASE UNCHANGED inbox
        BY <3>1, <4>1, SameSpends
      <4>2. CASE r \in Rows /\ Reconciled(call[c].owner, r)
        BY <1>0, <3>1, <4>2, ReconcileSpends DEF Rows
      <4>3. QED
        BY <1>3, <2>2, <4>1, <4>2 DEF Claim
    <3>4. QED
      BY <3>1, <3>2, <3>3, ClaimFrame
  <2>3. QED
    BY <2>1, <2>2
<1>4. CASE Dispatch(c)
  <2>1. call[c].at = "claimed" /\ Holds(c, r) /\ Goto(c, "asked") /\ UNCHANGED <<row, entry, expired>>
    BY <1>4 DEF Dispatch, Holds
  <2>2. asked[r] = 0 /\ entry[r].at = "none" /\ ~Unspent(r)
    BY <1>0, <2>1 DEF ClaimInv, HolderFirst, Untouched
  <2>3. asked'[r] = 1 /\ \A s \in Requests \ {r} : asked'[s] = asked[s]
    BY <1>0, <1>4, <2>2 DEF Dispatch, TypeOK
  <2>4. \A d \in Calls, s \in Requests : Holds(d, s)' => Holds(d, s) /\ (s = r => d = c)
    BY <1>1, <2>1 DEF Holds, ClaimInv, OneHolder
  <2>5. OneHolder'
    BY <2>4 DEF ClaimInv, OneHolder
  <2>6. HolderFirst'
    BY <1>1, <2>1, <2>2, <2>3, <2>4 DEF ClaimInv, HolderFirst, Holds
  <2>7. Untouched'
    BY <2>1, <2>2, <2>3, <2>4 DEF ClaimInv, Untouched, Unspent
  <2>8. QED
    BY <2>3, <2>5, <2>6, <2>7 DEF ClaimInv, AtMostOnce
<1>5. CASE Answer(c)
  <2>1. \A d \in Calls, s \in Requests : Holds(d, s)' => Holds(d, s) /\ Onward(d)
    BY <1>2, <1>5 DEF Holds, Answer, Onward
  <2>2. SpendsNone
    <3>1. CASE row[r] # NoRow /\ Write(r, Answered(r, call[c].at))
      <4>1. call[c].at \in {"queued", "started", "refused", "failed"} /\ UNCHANGED expired
        BY <1>5 DEF Answer
      <4>2. Answered(r, call[c].at) # NoRow
        BY <1>0, <3>1, <4>1, ReceiptType DEF InboxAssumption
      <4>3. QED
        BY <1>0, <3>1, <4>1, <4>2, NotClaimable, WriteSpends DEF Write
    <3>2. CASE UNCHANGED row
      BY <1>5, <3>2, SameSpends DEF Answer
    <3>3. QED
      BY <1>5, <3>1, <3>2 DEF Answer, Rows
  <2>3. QED
    BY <1>5, <2>1, <2>2, ClaimFrame DEF Answer
<1>6. CASE RejectTurn(c) \/ SteerTaken(c) \/ SteerUnproved(c)
  <2>1. call[c].at = "asked" /\ \E at \in {"failed", "started", "refused"} : Goto(c, at)
    BY <1>6 DEF RejectTurn, SteerTaken, SteerUnproved, AsksTurn, AsksSteer
  <2>2. \A d \in Calls, s \in Requests : Holds(d, s)' => Holds(d, s) /\ Onward(d)
    BY <1>1, <2>1 DEF Holds, Onward
  <2>3. UNCHANGED <<row, expired, entry, asked>>
    BY <1>6 DEF RejectTurn, SteerTaken, SteerUnproved
  <2>4. QED
    BY <2>2, <2>3, SameSpends, ClaimFrame
<1>7. CASE QueueTurn(c) \/ BeginTurn(c)
  <2>1. /\ call[c].at = "asked" /\ Holds(c, r) /\ UNCHANGED <<row, expired, asked>>
        /\ \E at \in {"queued", "starting"} : Goto(c, at)
        /\ \A s \in Requests \ {r} : entry'[s] = entry[s]
    BY <1>7 DEF QueueTurn, BeginTurn, AsksTurn, Holds, Enters, TypeOK
  <2>2. \A d \in Calls, s \in Requests : Holds(d, s)' =>
          Holds(d, s) /\ Onward(d) /\ (s = r => d = c)
    BY <1>0, <1>1, <2>1 DEF Holds, Onward, ClaimInv, OneHolder
  <2>3. \A s \in Requests : Unspent(s)' => Unspent(s) /\ s # r
    BY <1>0, <2>1 DEF Unspent, ClaimInv, Untouched
  <2>4. OneHolder'
    BY <2>2 DEF ClaimInv, OneHolder
  <2>5. HolderFirst'
    BY <1>1, <2>1, <2>2 DEF ClaimInv, HolderFirst, Onward
  <2>6. Untouched'
    BY <2>1, <2>2, <2>3 DEF ClaimInv, Untouched
  <2>7. QED
    BY <2>1, <2>4, <2>5, <2>6 DEF ClaimInv, AtMostOnce
<1>8. QED
  BY <1>3, <1>4, <1>5, <1>6, <1>7 DEF Proceeds

LEMMA AdvanceClaim ==
  ASSUME TypeOK, InboxAssumption, ClaimInv, NEW r \in Requests, Advances(r)
  PROVE  ClaimInv'
<1>1. \A d \in Calls, s \in Requests : Holds(d, s)' => Holds(d, s) /\ Onward(d)
  <2>1. CASE UNCHANGED call
    BY <2>1 DEF Holds, Onward
  <2>2. \A at \in {"started", "failed"} : Return(r, at) =>
          \A d \in Calls : \/ call'[d] = call[d]
                           \/ call[d].at = "starting" /\ call'[d].at = at /\ call'[d].of = call[d].of
    <3>1. \A d \in Calls : d \in Awaiting(r) => call[d] \in Busy
      BY CallType DEF Awaiting
    <3>2. QED
      BY <3>1 DEF Return, Awaiting, Busy
  <2>3. QED
    BY <2>1, <2>2 DEF Holds, Onward, Advances, Drain, TurnStarts, DirectStartFails, DrainFails, Ends,
                      IdleRelease, GoStale, Expire
<1>2. \A s \in Requests : entry[s].at = "none" => entry'[s].at = "none"
  BY DEF Advances, Drain, TurnStarts, DirectStartFails, DrainFails, Ends, IdleRelease, GoStale,
         Expire, Moves, TypeOK
<1>3. UNCHANGED asked /\ expired \subseteq expired'
  BY DEF Advances, Drain, TurnStarts, DirectStartFails, DrainFails, Ends, IdleRelease, GoStale, Expire
<1>4. SpendsNone
  <2>1. CASE \E event \in {"started", "ended", "failed"} : Observe(r, event)
    BY <1>3, <2>1, ObserveSpends
  <2>2. CASE UNCHANGED row
    BY <1>3, <2>2, SameSpends
  <2>3. QED
    BY <2>1, <2>2 DEF Advances, Drain, TurnStarts, DirectStartFails, DrainFails, Ends, IdleRelease,
                      GoStale, Expire
<1>5. QED
  BY <1>1, <1>2, <1>3, <1>4, ClaimFrame

LEMMA ProcessClaim ==
  ASSUME TypeOK, InboxAssumption, ClaimInv, NEW o \in Owners,
         Stop(o) \/ Crash(o) \/ \E r \in Requests : Reconcile(o, r) \/ MarkLost(o, r)
  PROVE  ClaimInv'
<1>1. \A d \in Calls, s \in Requests : Holds(d, s)' => Holds(d, s) /\ Onward(d)
  <2>1. \A d \in Calls : call'[d] = call[d] \/ call'[d].at = "idle"
    <3>1. Idle.at = "idle"
      BY DEF Idle
    <3>2. QED
      BY <3>1 DEF Stop, Crash, Reconcile, MarkLost
  <2>2. QED
    BY <2>1 DEF Holds, Onward
<1>2. \A s \in Requests : entry[s].at = "none" => entry'[s].at = "none"
  BY DEF Stop, Crash, Reconcile, MarkLost
<1>3. UNCHANGED <<asked, expired>>
  BY DEF Stop, Crash, Reconcile, MarkLost
<1>4. SpendsNone
  <2>1. ASSUME NEW r \in Requests, Reconcile(o, r)
        PROVE  SpendsNone
    BY <1>3, <2>1, ReconcileSpends DEF Reconcile, Rows
  <2>2. ASSUME NEW r \in Requests, MarkLost(o, r)
        PROVE  SpendsNone
    <3>1. CASE row[r] # NoRow /\ Write(r, Doubted(row[r]))
      <4>1. Doubted(row[r]) # NoRow
        BY <3>1, ReceiptType DEF InboxAssumption
      <4>2. QED
        BY <1>3, <3>1, <4>1, NotClaimable, WriteSpends DEF Write
    <3>2. CASE UNCHANGED row
      BY <1>3, <3>2, SameSpends
    <3>3. QED
      BY <2>2, <3>1, <3>2 DEF MarkLost, Rows
  <2>3. CASE UNCHANGED row
    BY <1>3, <2>3, SameSpends
  <2>4. QED
    BY <2>1, <2>2, <2>3 DEF Stop, Crash
<1>5. QED
  BY <1>1, <1>2, <1>3, <1>4, ClaimFrame

LEMMA StepClaim == InboxAssumption /\ TypeOK /\ ClaimInv /\ [Next]_vars => ClaimInv'
<1> SUFFICES ASSUME InboxAssumption, TypeOK, ClaimInv, [Next]_vars PROVE ClaimInv'
  OBVIOUS
<1>1. CASE UNCHANGED vars
  <2>1. UNCHANGED <<row, expired, call, entry, asked>>
    BY <1>1 DEF vars
  <2>2. QED
    BY <2>1, SameSpends, ClaimFrame DEF Holds, Onward
<1>2. ASSUME NEW c \in Calls, Proceeds(c) \/ \E o \in Owners : Submits(c, o)
      PROVE  ClaimInv'
  BY <1>2, CallStepClaim, SubmitClaim DEF Submits
<1>3. ASSUME NEW r \in Requests, Advances(r) \/ \E o \in Owners : Reconcile(o, r) \/ MarkLost(o, r)
      PROVE  ClaimInv'
  BY <1>3, AdvanceClaim, ProcessClaim
<1>4. ASSUME NEW o \in Owners, Stop(o) \/ Crash(o)
      PROVE  ClaimInv'
  BY <1>4, ProcessClaim
<1>5. QED
  BY <1>1, <1>2, <1>3, <1>4 DEF Next

LEMMA InitClaim == Init => ClaimInv
BY DEF Init, ClaimInv, OneHolder, HolderFirst, Untouched, AtMostOnce, Holds, Idle

(* A claim is never taken twice, so the backend is asked at most once for  *)
(* a request.                                                              *)
THEOREM AskedAtMostOnce == Spec => []AtMostOnce
<1>1. Init => TypeOK /\ ClaimInv
  BY InitType, InitClaim, InboxAssumption
<1>2. TypeOK /\ ClaimInv /\ [Next]_vars => (TypeOK /\ ClaimInv)'
  BY StepType, StepClaim, InboxAssumption
<1>3. ClaimInv => AtMostOnce
  BY DEF ClaimInv
<1>4. QED
  BY <1>1, <1>2, <1>3, PTL DEF Spec

-----------------------------------------------------------------------------
(* The receipts.                                                           *)

Is(r, states) == row[r] # NoRow /\ row[r].state \in states
Proofs == {"dispatched", "completed"}

(* A call that says started or refused is right; a receipt proves only     *)
(* what happened; and nobody proves a steer but the call that holds it.    *)
CallsTrue    == \A r \in Requests, c \in Calls : Holds(c, r) =>
                  /\ call[c].at = "started" => r \in ran
                  /\ call[c].at = "refused" => r \in Steers
ReceiptsTrue == \A r \in Requests :
                  /\ Is(r, {"dispatched"}) => r \in ran
                  /\ Is(r, {"completed"}) => entry[r].at = "gone"
SteersTrue   == \A r \in Steers :
                  /\ entry[r].at = "none"
                  /\ \A c \in Calls : Holds(c, r) => ~Is(r, Proofs)

TruthInv == CallsTrue /\ ReceiptsTrue /\ SteersTrue

(* What a step may do to a receipt, to a call and to an entry.             *)
Kept(r) == row[r] # NoRow => \/ row'[r] = NoRow /\ r \in expired
                             \/ /\ row'[r] # NoRow
                                /\ Is(r, Proofs) => Is(r, Proofs)'
                                /\ Is(r, {"completed"}) => Is(r, {"completed"})'
Earned(r) == /\ Is(r, {"dispatched"})' => Is(r, {"dispatched"}) \/ r \in ran'
             /\ Is(r, {"completed"})' => Is(r, {"completed"}) \/ entry'[r].at = "gone"
ByHolder(r) == r \in Steers /\ Is(r, Proofs)' /\ ~Is(r, Proofs) => \A c \in Calls : ~Holds(c, r)'
RowsTrue == \A r \in Requests : Kept(r) /\ Earned(r) /\ ByHolder(r)

CallTrue(c, r) ==
  /\ Holds(c, r) \/ ~Is(r, Proofs)'
  /\ call'[c].at = "started" => r \in ran' \/ (Holds(c, r) /\ call[c].at = "started")
  /\ call'[c].at = "refused" => r \in Steers
EntryTrue(r) == /\ entry[r].at = "gone" => entry'[r].at = "gone"
                /\ r \in Steers => entry'[r].at = entry[r].at

LEMMA TruthFrame ==
  ASSUME InboxAssumption, TruthInv, RowsTrue, ran \subseteq ran',
         \A c \in Calls, r \in Requests : Holds(c, r)' => CallTrue(c, r),
         \A r \in Requests : EntryTrue(r)
  PROVE  TruthInv'
<1>1. CallsTrue'
  BY DEF CallTrue, TruthInv, CallsTrue
<1>2. ReceiptsTrue'
  BY DEF RowsTrue, Earned, TruthInv, ReceiptsTrue, EntryTrue
<1>3. SteersTrue'
  <2>1. ASSUME NEW r \in Steers PROVE r \in Requests /\ entry'[r].at = "none"
    BY <2>1 DEF InboxAssumption, TruthInv, SteersTrue, EntryTrue
  <2>2. ASSUME NEW r \in Steers, NEW c \in Calls, Holds(c, r)', Is(r, Proofs)'
        PROVE  FALSE
    <3>1. Holds(c, r)
      BY <2>1, <2>2 DEF CallTrue
    <3>2. ~Is(r, Proofs)
      BY <3>1 DEF TruthInv, SteersTrue
    <3>3. QED
      BY <2>1, <2>2, <3>2 DEF RowsTrue, ByHolder
  <2>3. QED
    BY <2>1, <2>2 DEF SteersTrue
<1>4. QED
  BY <1>1, <1>2, <1>3 DEF TruthInv

LEMMA SameRows == ASSUME row' = row PROVE RowsTrue
BY DEF RowsTrue, Kept, Earned, ByHolder, Is, Proofs

(* One receipt is written.                                                 *)
LEMMA WriteTrue ==
  ASSUME TypeOK, NEW r \in Requests, NEW x, row[r] # NoRow, row' = [row EXCEPT ![r] = x], x # NoRow,
         Is(r, Proofs) => x.state \in Proofs /\ (row[r].state = "completed" => x.state = "completed"),
         x.state = "dispatched" => row[r].state = "dispatched" \/ r \in ran',
         x.state = "completed" => row[r].state = "completed" \/ entry'[r].at = "gone",
         r \in Steers /\ x.state \in Proofs /\ ~Is(r, Proofs) => \A c \in Calls : ~Holds(c, r)'
  PROVE  RowsTrue
<1>1. row'[r] = x /\ \A s \in Requests \ {r} : row'[s] = row[s]
  BY DEF TypeOK
<1>2. Kept(r) /\ Earned(r) /\ ByHolder(r)
  BY <1>1 DEF Kept, Earned, ByHolder, Is, Proofs
<1>3. \A s \in Requests \ {r} : Kept(s) /\ Earned(s) /\ ByHolder(s)
  BY <1>1 DEF Kept, Earned, ByHolder, Is, Proofs
<1>4. QED
  BY <1>2, <1>3 DEF RowsTrue

LEMMA DoubtTrue ==
  ASSUME TypeOK, InboxAssumption, NEW r \in Requests, row[r] # NoRow, ~Is(r, Proofs),
         Write(r, Doubted(row[r]))
  PROVE  RowsTrue
<1>1. Doubted(row[r]) # NoRow /\ Doubted(row[r]).state = "uncertain"
  BY ReceiptType DEF InboxAssumption, Doubted, TypeOK, Receipt
<1>2. QED
  BY <1>1, WriteTrue DEF Write, Proofs

LEMMA ReconcileTrue ==
  ASSUME TypeOK, InboxAssumption, NEW o \in Owners, NEW r \in Requests, row[r] # NoRow, Reconciled(o, r)
  PROVE  RowsTrue
<1>1. CASE row[r].state = "dispatching" /\ Write(r, Doubted(row[r]))
  BY <1>1, DoubtTrue DEF Is, Proofs
<1>2. CASE UNCHANGED <<row, stale>>
  BY <1>2, SameRows
<1>3. QED
  BY <1>1, <1>2 DEF Reconciled

LEMMA ObserveTrue ==
  ASSUME TypeOK, InboxAssumption, NEW r \in Requests \ Steers,
         NEW event \in {"started", "ended", "failed"}, Observe(r, event),
         event = "started" => r \in ran', event = "ended" => entry'[r].at = "gone"
  PROVE  RowsTrue
<1> DEFINE x == Observed(row[r], event)
<1>1. CASE row[r] # NoRow /\ Write(r, x)
  <2>1. row[r] \in Receipt /\ x \in Receipt
    BY <1>1, ReceiptType
  <2>2. x # NoRow
    BY <2>1 DEF InboxAssumption
  <2>3. /\ Is(r, Proofs) => x.state \in Proofs /\ (row[r].state = "completed" => x.state = "completed")
        /\ x.state = "dispatched" => row[r].state = "dispatched" \/ event = "started"
        /\ x.state = "completed" => row[r].state = "completed" \/ event = "ended"
    <3>1. CASE row[r].state = "completed"
      <4>1. x = row[r]
        BY <3>1 DEF Observed
      <4>2. QED
        BY <3>1, <4>1 DEF Is, Proofs
    <3>2. CASE row[r].state # "completed" /\ event = "ended"
      BY <2>1, <3>2 DEF Observed, Is, Proofs, Receipt
    <3>3. CASE row[r].state # "completed" /\ event = "started"
      BY <2>1, <3>3 DEF Observed, Is, Proofs, Receipt
    <3>4. CASE row[r].state # "completed" /\ event = "failed"
      BY <2>1, <3>4 DEF Observed, Doubted, Is, Proofs, Receipt
    <3>5. QED
      BY <3>1, <3>2, <3>3, <3>4
  <2>4. row' = [row EXCEPT ![r] = x]
    BY <1>1 DEF Write
  <2>5. QED
    BY <1>1, <2>2, <2>3, <2>4, WriteTrue
<1>2. CASE UNCHANGED <<row, stale>>
  BY <1>2, SameRows
<1>3. QED
  BY <1>1, <1>2 DEF Observe

LEMMA SubmitTrue ==
  ASSUME TypeOK, InboxAssumption, TruthInv, NEW c \in Calls, NEW o \in Owners, NEW r \in Requests,
         Admit(c, o, r) \/ Resume(c, o, r)
  PROVE  TruthInv' /\ RowsTrue
<1>1. \A d \in Calls, s \in Requests : Holds(d, s)' => Holds(d, s) /\ call'[d] = call[d]
  BY DEF Admit, Resume, Admitted, Holds, TypeOK
<1>2. UNCHANGED <<entry, ran>>
  BY DEF Admit, Resume
<1>3. RowsTrue
  <2>1. CASE Admit(c, o, r)
    <3>1. \A s \in Requests : Is(s, Proofs)' => row'[s] = row[s]
      BY <2>1 DEF Admit, Is, Proofs
    <3>2. \A s \in Requests : row[s] # NoRow => row'[s] = row[s] \/ (row'[s] = NoRow /\ s \in expired)
      BY <2>1 DEF Admit, Rows
    <3>3. QED
      BY <3>1, <3>2 DEF RowsTrue, Kept, Earned, ByHolder, Is, Proofs
  <2>2. CASE Resume(c, o, r)
    BY <2>2, SameRows DEF Resume
  <2>3. QED
    BY <2>1, <2>2
<1>4. \A d \in Calls, s \in Requests : Holds(d, s)' => CallTrue(d, s)
  BY <1>1, <1>2 DEF TruthInv, CallsTrue, CallTrue
<1>5. \A s \in Requests : EntryTrue(s)
  BY <1>2 DEF EntryTrue
<1>6. QED
  BY <1>2, <1>3, <1>4, <1>5, TruthFrame

LEMMA CallStepTrue ==
  ASSUME TypeOK, InboxAssumption, ClaimInv, TruthInv, NEW c \in Calls, Proceeds(c)
  PROVE  TruthInv' /\ RowsTrue
<1> DEFINE r == call[c].of
<1>0. call[c].at # "idle" /\ r \in Requests /\ call[c].owner \in Owners /\ call[c] \in Busy
  BY CallType DEF Proceeds, Claim, Dispatch, Answer, RejectTurn, QueueTurn, BeginTurn,
                  SteerTaken, SteerUnproved, AsksTurn, AsksSteer
<1>1. \A at : Goto(c, at) =>
        /\ call'[c].at = at /\ call'[c].of = r
        /\ \A d \in Calls \ {c} : call'[d] = call[d]
  BY <1>0 DEF Goto, TypeOK, Busy
<1>2. Done(c) => call'[c].at = "idle" /\ \A d \in Calls \ {c} : call'[d] = call[d]
  BY DEF Done, Idle, TypeOK
<1>3. ran \subseteq ran'
  BY DEF Proceeds, Claim, Dispatch, Answer, RejectTurn, QueueTurn, BeginTurn, SteerTaken,
         SteerUnproved, TakenOrNot
<1>4. ASSUME NEW d \in Calls, NEW s \in Requests, Holds(d, s)', call'[d] = call[d]
      PROVE  CallTrue(d, s)
  BY <1>3, <1>4 DEF Holds, CallTrue, TruthInv, CallsTrue
<1>5. ASSUME Done(c), UNCHANGED entry, RowsTrue
      PROVE  TruthInv'
  <2>1. \A d \in Calls, s \in Requests : Holds(d, s)' => CallTrue(d, s)
    BY <1>2, <1>4, <1>5 DEF Holds
  <2>2. \A s \in Requests : EntryTrue(s)
    BY <1>5 DEF EntryTrue
  <2>3. QED
    BY <1>3, <1>5, <2>1, <2>2, TruthFrame
<1>6. ASSUME NEW at \in {"asked", "queued", "starting", "started", "refused", "failed"}, Goto(c, at),
             call[c].at # "admitted", UNCHANGED row, \A s \in Requests : EntryTrue(s),
             at = "started" => r \in ran', at = "refused" => r \in Steers
      PROVE  TruthInv' /\ RowsTrue
  <2>1. \A d \in Calls, s \in Requests : Holds(d, s)' => CallTrue(d, s)
    BY <1>0, <1>1, <1>4, <1>6 DEF Holds, CallTrue
  <2>2. RowsTrue
    BY <1>6, SameRows
  <2>3. QED
    BY <1>3, <1>6, <2>1, <2>2, TruthFrame
<1>7. CASE Claim(c)
  <2>1. CASE row[r] # NoRow /\ Claimable(row[r]) /\ Goto(c, "claimed")
             /\ Write(r, [row[r] EXCEPT !.state = "dispatching"])
    <3> DEFINE x == [row[r] EXCEPT !.state = "dispatching"]
    <3>1. x # NoRow /\ x.state = "dispatching" /\ ~Is(r, Proofs)
      BY <1>0, <2>1, ReceiptType DEF InboxAssumption, Claimable, Is, Proofs, Receipt
    <3>2. row' = [row EXCEPT ![r] = x] /\ UNCHANGED entry
      BY <1>7, <2>1 DEF Write, Claim
    <3>3. RowsTrue
      BY <1>0, <2>1, <3>1, <3>2, WriteTrue DEF Proofs
    <3>4. row'[r].state = "dispatching"
      BY <1>0, <3>1, <3>2 DEF TypeOK
    <3>5. \A d \in Calls, s \in Requests : Holds(d, s)' => CallTrue(d, s)
      BY <1>1, <1>4, <2>1, <3>4 DEF Holds, CallTrue, Is, Proofs
    <3>6. QED
      BY <1>3, <3>2, <3>3, <3>5, TruthFrame DEF EntryTrue
  <2>2. CASE Done(c) /\ (UNCHANGED inbox \/ (r \in Rows /\ Reconciled(call[c].owner, r)))
    <3>1. RowsTrue
      BY <1>0, <2>2, SameRows, ReconcileTrue DEF Rows
    <3>2. QED
      BY <1>5, <1>7, <2>2, <3>1 DEF Claim
  <2>3. QED
    BY <1>0, <1>7, <2>1, <2>2 DEF Claim, Rows
<1>8. CASE Dispatch(c)
  BY <1>6, <1>8 DEF Dispatch, EntryTrue
<1>9. CASE Answer(c)
  <2>1. call[c].at \in {"queued", "started", "refused", "failed"} /\ Done(c) /\ Holds(c, r) /\ UNCHANGED entry
    BY <1>9 DEF Answer, Holds
  <2>2. RowsTrue
    <3>1. ASSUME NEW s \in Requests, s = r, row[s] # NoRow, Write(s, Answered(s, call[c].at))
          PROVE  RowsTrue
      <4> DEFINE x == Answered(s, call[c].at)
      <4>1. x \in Receipt /\ row[s] \in Receipt /\ x # NoRow
        BY <2>1, <3>1, ReceiptType DEF InboxAssumption
      <4>2. /\ call[c].at = "started" => s \in ran'
            /\ call[c].at = "refused" => s \in Steers /\ ~Is(s, Proofs)
        BY <1>3, <2>1, <3>1 DEF TruthInv, CallsTrue, SteersTrue, Holds
      <4>3. \A d \in Calls : ~Holds(d, s)'
        BY <1>2, <2>1, <3>1 DEF ClaimInv, OneHolder, Holds
      <4>4. /\ Is(s, Proofs) => x.state \in Proofs /\ (row[s].state = "completed" => x.state = "completed")
            /\ x.state = "dispatched" => row[s].state = "dispatched" \/ call[c].at = "started"
            /\ x.state = "completed" => row[s].state = "completed"
        BY <2>1, <3>1, <4>1, <4>2 DEF Answered, Doubted, Is, Proofs, Receipt
      <4>5. QED
        BY <3>1, <4>1, <4>2, <4>3, <4>4, WriteTrue DEF Write
    <3>2. CASE UNCHANGED row
      BY <3>2, SameRows
    <3>3. QED
      BY <1>0, <1>9, <3>1, <3>2 DEF Answer, Rows
  <2>3. QED
    BY <1>5, <2>1, <2>2
<1>10. CASE RejectTurn(c)
  BY <1>6, <1>10 DEF RejectTurn, AsksTurn, EntryTrue
<1>11. CASE QueueTurn(c) \/ BeginTurn(c)
  <2>1. /\ call[c].at = "asked" /\ Holds(c, r) /\ UNCHANGED row /\ r \notin Steers
        /\ \E at \in {"queued", "starting"} : Goto(c, at)
        /\ \A s \in Requests \ {r} : entry'[s] = entry[s]
    BY <1>11 DEF QueueTurn, BeginTurn, AsksTurn, Holds, Enters, TypeOK
  <2>2. entry[r].at = "none"
    BY <1>0, <2>1 DEF ClaimInv, HolderFirst
  <2>3. \A s \in Requests : EntryTrue(s)
    BY <2>1, <2>2 DEF EntryTrue
  <2>4. QED
    BY <1>6, <2>1, <2>3
<1>12. CASE SteerTaken(c)
  <2>1. r \in ran' /\ call[c].at = "asked" /\ Goto(c, "started") /\ UNCHANGED <<row, entry>>
    BY <1>12 DEF SteerTaken, AsksSteer
  <2>2. QED
    BY <1>6, <2>1 DEF EntryTrue
<1>13. CASE SteerUnproved(c)
  <2>1. r \in Steers /\ call[c].at = "asked" /\ UNCHANGED <<row, entry>>
        /\ \E at \in {"refused", "failed"} : Goto(c, at)
    BY <1>13 DEF SteerUnproved, AsksSteer
  <2>2. QED
    BY <1>6, <2>1 DEF EntryTrue
<1>14. QED
  BY <1>7, <1>8, <1>9, <1>10, <1>11, <1>12, <1>13 DEF Proceeds

LEMMA AdvanceTrue ==
  ASSUME TypeOK, InboxAssumption, TruthInv, NEW r \in Requests, Advances(r)
  PROVE  TruthInv' /\ RowsTrue
<1>1. ran \subseteq ran'
  BY DEF Advances, Drain, TurnStarts, DirectStartFails, DrainFails, Ends, IdleRelease, GoStale, Expire,
         TakenOrNot
<1>2. \A s \in Requests : EntryTrue(s)
  <2>1. CASE UNCHANGED entry
    BY <2>1 DEF EntryTrue
  <2>2. CASE /\ entry[r].at \notin {"none", "gone"}
             /\ \E at \in EntryStates : Moves(r, at)
    BY <2>2 DEF Moves, EntryTrue, TruthInv, SteersTrue, TypeOK
  <2>3. QED
    BY <2>1, <2>2 DEF Advances, Drain, TurnStarts, DirectStartFails, DrainFails, Ends, IdleRelease,
                      GoStale, Expire, EntryStates
<1>3. ASSUME NEW at \in {"started", "failed"}, Return(r, at), at = "started" => r \in ran'
      PROVE  \A d \in Calls, s \in Requests : Holds(d, s)' => CallTrue(d, s)
  <2>1. \A d \in Calls : \/ call'[d] = call[d]
                         \/ /\ call[d].at = "starting" /\ call[d].of = r
                            /\ call'[d].at = at /\ call'[d].of = r
    <3>1. \A d \in Calls : d \in Awaiting(r) => call[d] \in Busy
      BY CallType DEF Awaiting
    <3>2. QED
      BY <1>3, <3>1 DEF Return, Awaiting, Busy
  <2>2. QED
    BY <1>1, <1>3, <2>1 DEF Holds, CallTrue, TruthInv, CallsTrue
<1>4. UNCHANGED call => \A d \in Calls, s \in Requests : Holds(d, s)' => CallTrue(d, s)
  BY <1>1 DEF Holds, CallTrue, TruthInv, CallsTrue
<1>5. r \in Steers => entry[r].at = "none"
  BY DEF TruthInv, SteersTrue
<1>6. \A at \in EntryStates : Moves(r, at) => entry'[r].at = at
  BY DEF Moves, TypeOK
<1>7. CASE UNCHANGED <<row, call>>
  BY <1>1, <1>2, <1>4, <1>7, SameRows, TruthFrame
<1>8. CASE TurnStarts(r)
  <2>1. r \notin Steers /\ r \in ran'
    BY <1>5, <1>8 DEF TurnStarts
  <2>2. RowsTrue
    BY <1>8, <2>1, ObserveTrue DEF TurnStarts
  <2>3. QED
    BY <1>1, <1>2, <1>3, <1>8, <2>1, <2>2, TruthFrame DEF TurnStarts
<1>9. CASE DirectStartFails(r)
  <2>1. r \notin Steers
    BY <1>5, <1>9 DEF DirectStartFails
  <2>2. RowsTrue
    BY <1>9, <2>1, ObserveTrue DEF DirectStartFails
  <2>3. QED
    BY <1>1, <1>2, <1>3, <1>9, <2>1, <2>2, TruthFrame DEF DirectStartFails
<1>10. CASE Ends(r)
  <2>1. r \notin Steers /\ entry'[r].at = "gone"
    BY <1>5, <1>6, <1>10 DEF Ends, EntryStates
  <2>2. RowsTrue
    BY <1>10, <2>1, ObserveTrue DEF Ends
  <2>3. QED
    BY <1>1, <1>2, <1>4, <1>10, <2>2, TruthFrame DEF Ends
<1>11. QED
  BY <1>7, <1>8, <1>9, <1>10 DEF Advances, Drain, DrainFails, IdleRelease, GoStale, Expire

LEMMA ProcessTrue ==
  ASSUME TypeOK, InboxAssumption, TruthInv, NEW o \in Owners,
         Stop(o) \/ Crash(o) \/ \E r \in Requests : Reconcile(o, r) \/ MarkLost(o, r)
  PROVE  TruthInv' /\ RowsTrue
<1>1. ran \subseteq ran'
  BY DEF Stop, Crash, Reconcile, MarkLost
<1>2. \A d \in Calls, s \in Requests : Holds(d, s)' => CallTrue(d, s)
  <2>1. Idle.at = "idle"
    BY DEF Idle
  <2>2. \A d \in Calls : call'[d] = call[d] \/ call'[d].at = "idle"
    BY <2>1 DEF Stop, Crash, Reconcile, MarkLost
  <2>3. QED
    BY <1>1, <2>2 DEF Holds, CallTrue, TruthInv, CallsTrue
<1>3. \A s \in Requests : EntryTrue(s)
  <2>1. CASE UNCHANGED entry
    BY <2>1 DEF EntryTrue
  <2>2. CASE Crash(o)
    <3>1. \A s \in Requests : \/ entry'[s] = entry[s]
                             \/ (entry'[s].at = "gone" /\ entry[s].at # "none")
      BY <2>2 DEF Crash, TypeOK
    <3>2. QED
      BY <3>1 DEF EntryTrue, TruthInv, SteersTrue
  <2>3. QED
    BY <2>1, <2>2 DEF Stop, Reconcile, MarkLost
<1>4. RowsTrue
  <2>1. ASSUME NEW r \in Requests, Reconcile(o, r)
        PROVE  RowsTrue
    BY <2>1, ReconcileTrue DEF Reconcile, Rows
  <2>2. ASSUME NEW r \in Requests, MarkLost(o, r)
        PROVE  RowsTrue
    <3>1. CASE row[r] # NoRow /\ row[r].state = "accepted" /\ Write(r, Doubted(row[r]))
      BY <3>1, DoubtTrue DEF Is, Proofs
    <3>2. CASE UNCHANGED row
      BY <3>2, SameRows
    <3>3. QED
      BY <2>2, <3>1, <3>2 DEF MarkLost, Rows
  <2>3. CASE UNCHANGED row
    BY <2>3, SameRows
  <2>4. QED
    BY <2>1, <2>2, <2>3 DEF Stop, Crash
<1>5. QED
  BY <1>1, <1>2, <1>3, <1>4, TruthFrame

LEMMA StepTrue ==
  InboxAssumption /\ TypeOK /\ ClaimInv /\ TruthInv /\ [Next]_vars => TruthInv' /\ RowsTrue
<1> SUFFICES ASSUME InboxAssumption, TypeOK, ClaimInv, TruthInv, [Next]_vars
             PROVE  TruthInv' /\ RowsTrue
  OBVIOUS
<1>1. CASE UNCHANGED vars
  <2>1. UNCHANGED <<row, expired, call, entry, ran>>
    BY <1>1 DEF vars
  <2>2. RowsTrue
    BY <2>1, SameRows
  <2>3. QED
    BY <2>1, <2>2, TruthFrame DEF Holds, CallTrue, EntryTrue, TruthInv, CallsTrue
<1>2. ASSUME NEW c \in Calls, Proceeds(c) \/ \E o \in Owners : Submits(c, o)
      PROVE  TruthInv' /\ RowsTrue
  BY <1>2, CallStepTrue, SubmitTrue DEF Submits
<1>3. ASSUME NEW r \in Requests, Advances(r) \/ \E o \in Owners : Reconcile(o, r) \/ MarkLost(o, r)
      PROVE  TruthInv' /\ RowsTrue
  BY <1>3, AdvanceTrue, ProcessTrue
<1>4. ASSUME NEW o \in Owners, Stop(o) \/ Crash(o)
      PROVE  TruthInv' /\ RowsTrue
  BY <1>4, ProcessTrue
<1>5. QED
  BY <1>1, <1>2, <1>3, <1>4 DEF Next

LEMMA InitTrue == InboxAssumption /\ Init => TruthInv
BY DEF InboxAssumption, Init, TruthInv, CallsTrue, ReceiptsTrue, SteersTrue, Holds, Is, Idle

Inv == TypeOK /\ ClaimInv /\ TruthInv

LEMMA InvHolds == Spec => []Inv
<1>1. Init => Inv
  BY InitType, InitClaim, InitTrue, InboxAssumption DEF Inv
<1>2. Inv /\ [Next]_vars => Inv'
  BY StepType, StepClaim, StepTrue, InboxAssumption DEF Inv
<1>3. QED
  BY <1>1, <1>2, PTL DEF Spec

(* A receipt says no more than what happened to its request.               *)
THEOREM ReceiptsAreTrue == Spec => []ReceiptsTellTruth
<1>1. Inv => ReceiptsTellTruth
  BY DEF Inv, ReceiptsTellTruth, Rows, TruthInv, ReceiptsTrue, Is, ClaimInv, Untouched, Unspent, Claimable
<1>2. QED
  BY <1>1, InvHolds, PTL

(* No step takes back a proof, or prunes a receipt that still counts.      *)
THEOREM ProofsAreKept == Spec => ProofIsKept
<1> DEFINE Keeps == \A r \in Rows \ expired :
             /\ row'[r] # NoRow
             /\ row[r].state = "dispatched" => row'[r].state \in {"dispatched", "completed"}
             /\ row[r].state = "completed" => row'[r].state = "completed"
<1>1. Inv /\ [Next]_vars => [Keeps]_vars
  <2>1. RowsTrue => Keeps
    BY DEF RowsTrue, Kept, Is, Proofs, Rows
  <2>2. QED
    BY <2>1, StepTrue, InboxAssumption DEF Inv
<1>2. QED
  BY <1>1, InvHolds, PTL DEF Spec, ProofIsKept

-----------------------------------------------------------------------------
(* The inbox implements RequestReceipts.                                   *)

(* What is queued was asked for, and what is doubted was claimed before.   *)
Entered == \A r \in Requests : entry[r].at # "none" => asked[r] > 0
Spent   == \A d \in doubt : ~Unspent(d[2])

LEMMA TypedBits ==
  ASSUME TypeOK
  PROVE  /\ \A r \in Requests : /\ asked[r] \in Nat
                                /\ row[r] # NoRow => row[r] \in Receipt
         /\ \A d \in doubt : d[2] \in Requests
         /\ \A c \in Calls : call[c].at # "idle" => call[c].of \in Requests
BY CallType DEF TypeOK

LEMMA EnteredStep == TypeOK /\ ClaimInv /\ Entered /\ [Next]_vars => Entered'
<1> SUFFICES ASSUME TypeOK, ClaimInv, Entered, [Next]_vars PROVE Entered'
  OBVIOUS
<1>1. \A r \in Requests : asked[r] \in Nat
  BY TypedBits
<1>2. ASSUME UNCHANGED asked,
             \A r \in Requests : entry'[r].at # "none" => entry[r].at # "none"
      PROVE  Entered'
  BY <1>2 DEF Entered
<1>3. CASE UNCHANGED vars
  BY <1>3 DEF vars, Entered
<1>4. ASSUME NEW c \in Calls, Proceeds(c)
      PROVE  Entered'
  <2>1. CASE Dispatch(c)
    BY <1>1, <2>1, TypedBits DEF Dispatch, Entered, TypeOK
  <2>2. CASE QueueTurn(c) \/ BeginTurn(c)
    <3>1. call[c].of \in Requests /\ asked[call[c].of] = 1 /\ UNCHANGED asked
      BY <2>2, TypedBits DEF QueueTurn, BeginTurn, AsksTurn, ClaimInv, HolderFirst, Holds
    <3>2. \A r \in Requests \ {call[c].of} : entry'[r] = entry[r]
      BY <2>2 DEF QueueTurn, BeginTurn, Enters, TypeOK
    <3>3. QED
      BY <3>1, <3>2 DEF Entered
  <2>3. QED
    BY <1>2, <1>4, <2>1, <2>2
    DEF Proceeds, Claim, Answer, RejectTurn, SteerTaken, SteerUnproved
<1>5. ASSUME NEW c \in Calls, NEW o \in Owners, Submits(c, o)
      PROVE  Entered'
  BY <1>2, <1>5 DEF Submits, Admit, Resume
<1>6. ASSUME NEW r \in Requests, Advances(r)
      PROVE  Entered'
  <2>1. \A at : Moves(r, at) => \A s \in Requests \ {r} : entry'[s] = entry[s]
    BY DEF Moves, TypeOK
  <2>2. /\ UNCHANGED asked
        /\ UNCHANGED entry \/ (entry[r].at # "none" /\ \E at : Moves(r, at))
    BY <1>6 DEF Advances, Drain, TurnStarts, DirectStartFails, DrainFails, Ends, IdleRelease, GoStale, Expire
  <2>3. QED
    BY <1>2, <2>1, <2>2
<1>7. ASSUME NEW o \in Owners, Stop(o) \/ Crash(o) \/ \E r \in Requests : Reconcile(o, r) \/ MarkLost(o, r)
      PROVE  Entered'
  BY <1>2, <1>7 DEF Stop, Crash, Reconcile, MarkLost
<1>8. QED
  BY <1>3, <1>4, <1>5, <1>6, <1>7 DEF Next

(* No step makes a request claimable that was not.                         *)
LEMMA StepSpends == InboxAssumption /\ TypeOK /\ ClaimInv /\ [Next]_vars => SpendsNone
<1> SUFFICES ASSUME InboxAssumption, TypeOK, ClaimInv, [Next]_vars PROVE SpendsNone
  OBVIOUS
<1>1. CASE UNCHANGED row
  <2>1. expired \subseteq expired'
    BY DEF Next, vars, Proceeds, Submits, Advances, Claim, Dispatch, Answer, RejectTurn, QueueTurn,
           BeginTurn, SteerTaken, SteerUnproved, Admit, Resume, Drain, TurnStarts, DirectStartFails,
           DrainFails, Ends, IdleRelease, GoStale, Expire, Reconcile, MarkLost, Stop, Crash
  <2>2. QED
    BY <1>1, <2>1, SameSpends
<1>2. ASSUME NEW r \in Requests, row[r] # NoRow, NEW x \in Receipt, Claimable(x) => Claimable(row[r]),
             Write(r, x), UNCHANGED expired
      PROVE  SpendsNone
  BY <1>2, WriteSpends DEF Write, InboxAssumption
<1>3. ASSUME NEW r \in Requests, row[r] # NoRow, Write(r, Doubted(row[r])), UNCHANGED expired
      PROVE  SpendsNone
  BY <1>2, <1>3, ReceiptType, NotClaimable
<1>4. ASSUME NEW c \in Calls, NEW o \in Owners, NEW r \in Requests, Admit(c, o, r)
      PROVE  SpendsNone
  <2>1. \A s \in Requests : row'[s] # NoRow => s = r \/ row'[s] = row[s]
    BY <1>4 DEF Admit
  <2>2. \A s \in Requests : row'[s] = NoRow => row[s] = NoRow \/ s \in expired
    BY <1>4 DEF Admit, TypeOK, InboxAssumption, Receipt, States, Results
  <2>3. Unspent(r) /\ UNCHANGED expired
    BY <1>4 DEF Admit, Unspent, Rows
  <2>4. QED
    BY <2>1, <2>2, <2>3 DEF SpendsNone, Unspent
<1>5. ASSUME NEW c \in Calls, Claim(c) \/ Answer(c)
      PROVE  SpendsNone
  <2>1. call[c].of \in Requests /\ UNCHANGED expired
    BY <1>5, TypedBits DEF Claim, Answer
  <2>2. ASSUME NEW r \in Requests, row[r] # NoRow, Write(r, [row[r] EXCEPT !.state = "dispatching"])
        PROVE  SpendsNone
    BY <1>2, <2>1, <2>2, ReceiptType, NotClaimable
  <2>3. ASSUME NEW r \in Requests, row[r] # NoRow, NEW at \in {"queued", "started", "refused", "failed"},
               Write(r, Answered(r, at))
        PROVE  SpendsNone
    BY <1>2, <2>1, <2>3, ReceiptType, NotClaimable
  <2>4. QED
    BY <1>1, <1>3, <1>5, <2>1, <2>2, <2>3 DEF Claim, Answer, Reconciled, Rows
<1>6. ASSUME NEW r \in Requests, NEW event \in {"started", "failed", "ended"}, Observe(r, event), UNCHANGED expired
      PROVE  SpendsNone
  BY <1>6, ObserveSpends
<1>7. QED
  BY <1>1, <1>3, <1>4, <1>5, <1>6
  DEF Next, vars, Proceeds, Submits, Advances, Dispatch, RejectTurn, QueueTurn,
      BeginTurn, SteerTaken, SteerUnproved, Resume, Drain, TurnStarts, DirectStartFails,
      DrainFails, Ends, IdleRelease, GoStale, Expire, Reconcile, MarkLost, Stop, Crash,
      Reconciled, Rows

LEMMA SpentStep == InboxAssumption /\ TypeOK /\ ClaimInv /\ Spent /\ [Next]_vars => Spent'
<1> SUFFICES ASSUME InboxAssumption, TypeOK, ClaimInv, Spent, [Next]_vars PROVE Spent'
  OBVIOUS
<1>1. SpendsNone
  BY StepSpends
<1>2. CASE doubt' \subseteq doubt
  BY <1>1, <1>2, TypedBits DEF Spent, SpendsNone
<1>3. ASSUME NEW o \in Owners, NEW r \in Requests, r \in Rows, Reconciled(o, r)
      PROVE  Spent'
  <2>1. ASSUME doubt' = doubt \union {<<o, r>>}, ~Unspent(r)
        PROVE  Spent'
    BY <1>1, <2>1, TypedBits DEF Spent, SpendsNone
  <2>2. row[r].result = "queued" => ~Unspent(r)
    BY <1>3 DEF Unspent, Claimable, Rows
  <2>3. QED
    BY <1>2, <1>3, <2>1, <2>2 DEF Reconciled
<1>4. ASSUME NEW c \in Calls, Claim(c)
      PROVE  Spent'
  <2>1. call[c].of \in Requests /\ call[c].owner \in Owners
    BY <1>4, CallType DEF Claim
  <2>2. QED
    BY <1>2, <1>3, <1>4, <2>1 DEF Claim
<1>5. QED
  BY <1>2, <1>3, <1>4
  DEF Next, vars, Proceeds, Submits, Advances, Dispatch, Answer, RejectTurn, QueueTurn,
      BeginTurn, SteerTaken, SteerUnproved, Admit, Resume, Drain, TurnStarts, DirectStartFails,
      DrainFails, Ends, IdleRelease, GoStale, Expire, Reconcile, MarkLost, Stop, Crash

RefInv == Inv /\ Entered /\ Spent

Promised == [Promise!Next]_<<Told, Committed, asked, ran, Over>>

(* What the peer is told is a function of the receipts and of time.        *)
LEMMA SameTold == ASSUME UNCHANGED <<row, expired>> PROVE Told' = Told
BY DEF Told, Said

LEMMA WriteTells ==
  ASSUME TypeOK, NEW r \in Requests, NEW x, row[r] # NoRow, x # NoRow,
         row' = [row EXCEPT ![r] = x], UNCHANGED expired
  PROVE  /\ Told[r] = Said(r)
         /\ r \in expired => Told' = Told
         /\ r \notin expired => Said(r) = News(row[r]) /\ Promise!Tell(r, News(x))
<1>1. row'[r] = x /\ \A s \in Requests \ {r} : row'[s] = row[s]
  BY DEF TypeOK
<1>2. \A s \in Requests \ {r} : Said(s)' = Said(s)
  BY <1>1 DEF Said
<1>3. Said(r)' = IF r \in expired THEN "past" ELSE News(x)
  BY <1>1 DEF Said
<1>4. r \in expired => Said(r) = "past"
  BY DEF Said
<1>5. Told' = [s \in Requests |-> Said(s)']
  BY DEF Told
<1>6. r \in expired => \A s \in Requests : Said(s)' = Said(s)
  BY <1>2, <1>3, <1>4
<1>7. r \in expired => Told' = Told
  BY <1>5, <1>6 DEF Told
<1>8. r \notin expired => Told' = [Told EXCEPT ![r] = News(x)]
  BY <1>2, <1>3, <1>5 DEF Told
<1>9. QED
  BY <1>7, <1>8 DEF Told, Said, Promise!Tell

Open == {"open", "queued", "unsure"}

(* A receipt may be written if the peer learns nothing false from it.      *)
Honest(r, x) ==
  \/ News(x) = News(row[r])
  \/ /\ News(row[r]) \in Open
     /\ \/ News(x) = "unsure"
        \/ News(x) = "queued" /\ asked[r] > 0
        \/ News(x) = "started" /\ r \in ran'
        \/ News(x) = "ended" /\ entry'[r].at = "gone"
  \/ News(row[r]) = "started" /\ News(x) = "ended" /\ entry'[r].at = "gone"

LEMMA HonestWrite ==
  ASSUME TypeOK, NEW r \in Requests, NEW x, row[r] # NoRow, x # NoRow,
         row' = [row EXCEPT ![r] = x], UNCHANGED expired, Honest(r, x)
  PROVE  Promise!Learns(r)
<1>1. CASE r \in expired
  BY <1>1, WriteTells DEF Promise!Learns
<1>2. CASE r \notin expired
  <2>1. Told[r] = News(row[r]) /\ Promise!Tell(r, News(x))
    BY <1>2, WriteTells
  <2>2. CASE News(x) = News(row[r])
    <3>1. Told' = [Told EXCEPT ![r] = Told[r]]
      BY <2>1, <2>2 DEF Promise!Tell
    <3>2. Told' = Told
      BY <3>1 DEF Told
    <3>3. QED
      BY <3>2 DEF Promise!Learns
  <2>3. CASE News(row[r]) \in Open
    <3>1. Promise!Unsettled(r)
      BY <2>1, <2>3 DEF Promise!Unsettled, Open
    <3>2. entry'[r].at = "gone" => r \in Over'
      BY DEF Over
    <3>3. QED
      BY <2>1, <2>2, <2>3, <3>1, <3>2 DEF Honest, Promise!Learns, Open
  <2>4. CASE News(row[r]) = "started" /\ News(x) = "ended" /\ entry'[r].at = "gone"
    <3>1. r \in Over'
      BY <2>4 DEF Over
    <3>2. QED
      BY <2>1, <2>4, <3>1 DEF Promise!Learns
  <2>5. QED
    BY <2>2, <2>3, <2>4 DEF Honest
<1>3. QED
  BY <1>1, <1>2

(* The states of receipts, as the peer hears them.                         *)
LEMMA NewsOf ==
  ASSUME NEW x \in Receipt
  PROVE  /\ x.state = "accepted" => News(x) = IF x.result = "none" THEN "new" ELSE "queued"
         /\ x.state = "dispatching" => News(x) = "open"
         /\ x.state = "dispatched" => News(x) = "started"
         /\ x.state = "completed" => News(x) = "ended"
         /\ x.state = "uncertain" => News(x) = "unsure"
         /\ x.state \notin Proofs /\ ~Claimable(x) => News(x) \in Open
         /\ x.state \in States
<1>1. x.state \in States
  BY DEF Receipt
<1>2. x.state \in {"accepted", "dispatching", "dispatched", "completed", "uncertain"}
  BY <1>1 DEF States
<1>3. /\ x.state = "accepted" => News(x) = IF x.result = "none" THEN "new" ELSE "queued"
      /\ x.state = "dispatching" => News(x) = "open"
      /\ x.state = "dispatched" => News(x) = "started"
      /\ x.state = "completed" => News(x) = "ended"
      /\ x.state = "uncertain" => News(x) = "unsure"
  BY DEF News
<1>4. x.state \notin Proofs /\ ~Claimable(x) => News(x) \in Open
  BY <1>2, <1>3 DEF Proofs, Claimable, Open
<1>5. QED
  BY <1>1, <1>3, <1>4

LEMMA DoubtLearns ==
  ASSUME TypeOK, InboxAssumption, NEW r \in Requests, row[r] # NoRow, row[r].state \notin Proofs,
         ~Claimable(row[r]), Write(r, Doubted(row[r])), UNCHANGED expired
  PROVE  Promise!Learns(r)
<1>1. row[r] \in Receipt /\ Doubted(row[r]) \in Receipt /\ Doubted(row[r]) # NoRow
  BY ReceiptType DEF InboxAssumption
<1>2. Doubted(row[r]).state = "uncertain"
  BY <1>1 DEF Doubted, Receipt
<1>3. Honest(r, Doubted(row[r]))
  BY <1>1, <1>2, NewsOf DEF Honest
<1>4. QED
  BY <1>1, <1>3, HonestWrite DEF Write

LEMMA ReconcileLearns ==
  ASSUME TypeOK, InboxAssumption, NEW o \in Owners, NEW r \in Requests, row[r] # NoRow,
         Reconciled(o, r), UNCHANGED expired
  PROVE  Promise!Learns(r)
<1>1. CASE row[r].state = "dispatching" /\ Write(r, Doubted(row[r]))
  BY <1>1, DoubtLearns DEF Proofs, Claimable
<1>2. CASE UNCHANGED <<row, stale>>
  BY <1>2, SameTold DEF Promise!Learns
<1>3. QED
  BY <1>1, <1>2 DEF Reconciled

LEMMA ObserveLearns ==
  ASSUME TypeOK, InboxAssumption, ClaimInv, NEW r \in Requests, NEW event \in {"started", "ended", "failed"},
         entry[r].at # "none", Observe(r, event), UNCHANGED expired,
         event = "started" => r \in ran', event = "ended" => entry'[r].at = "gone"
  PROVE  Promise!Learns(r)
<1> DEFINE x == Observed(row[r], event)
<1>1. CASE row[r] # NoRow /\ x # row[r] /\ Write(r, x)
  <2>1. row[r] \in Receipt /\ x \in Receipt /\ x # NoRow
    BY <1>1, ReceiptType DEF InboxAssumption
  <2>2. ~Claimable(row[r])
    BY <1>1 DEF ClaimInv, Untouched, Unspent
  <2>3. row[r].state # "completed" /\ (row[r].state = "dispatched" => event = "ended")
    BY <1>1 DEF Observed
  <2>4. /\ event = "ended" => x.state = "completed"
        /\ event = "started" => x.state = "dispatched"
        /\ event = "failed" => x.state = "uncertain"
    BY <2>1, <2>3 DEF Observed, Doubted, Receipt
  <2>5. Honest(r, x)
    BY <2>1, <2>2, <2>3, <2>4, NewsOf DEF Honest, Proofs
  <2>6. QED
    BY <1>1, <2>1, <2>5, HonestWrite DEF Write
<1>2. CASE UNCHANGED <<row, stale>>
  BY <1>2, SameTold DEF Promise!Learns
<1>3. QED
  BY <1>1, <1>2 DEF Observe

(* What is under way, for a peer that sees neither calls nor queue.        *)
LEMMA WorkBits ==
  ASSUME RefInv
  PROVE  /\ TypeOK /\ ClaimInv /\ TruthInv
         /\ \A r \in Requests : /\ asked[r] \in Nat
                                /\ entry[r].at # "none" => asked[r] > 0
                                /\ row[r] # NoRow => row[r] \in Receipt
         /\ \A c \in Calls : call[c].at # "idle" => call[c].of \in Requests
BY TypedBits DEF RefInv, Inv, Entered

LEMMA SameCommitted ==
  ASSUME \A c \in Calls : (call[c].at = "claimed" \/ call'[c].at = "claimed") => call'[c] = call[c]
  PROVE  Committed' = Committed
BY DEF Committed

LEMMA SameOver ==
  ASSUME \A r \in Requests : entry'[r].at = "gone" <=> entry[r].at = "gone"
  PROVE  Over' = Over
BY DEF Over

LEMMA CallMoves ==
  ASSUME TypeOK, NEW c \in Calls, call[c].at # "idle"
  PROVE  /\ \A at : Goto(c, at) =>
              /\ call'[c].at = at /\ call'[c].of = call[c].of
              /\ \A d \in Calls \ {c} : call'[d] = call[d]
         /\ Done(c) => call'[c].at = "idle" /\ \A d \in Calls \ {c} : call'[d] = call[d]
<1>1. call[c] \in Busy
  BY CallType
<1>2. QED
  BY <1>1 DEF Goto, Done, Idle, TypeOK, Busy

LEMMA CallLeavesCommitted ==
  ASSUME TypeOK, NEW c \in Calls, call[c].at \notin {"idle", "claimed"},
         Done(c) \/ \E at : at # "claimed" /\ Goto(c, at)
  PROVE  Committed' = Committed
BY CallMoves, SameCommitted

LEMMA SubmitPromised ==
  ASSUME RefInv, InboxAssumption, NEW c \in Calls, NEW o \in Owners, NEW r \in Requests,
         Admit(c, o, r) \/ Resume(c, o, r)
  PROVE  Promised
<1>1. UNCHANGED <<entry, ran, asked, expired>>
  BY DEF Admit, Resume
<1>2. Committed' = Committed
  <2>1. call[c].at = "idle" /\ call'[c].at = "admitted" /\ \A d \in Calls \ {c} : call'[d] = call[d]
    BY WorkBits DEF Admit, Resume, Admitted, Idle, TypeOK
  <2>2. QED
    BY <2>1, SameCommitted
<1>3. Over' = Over
  BY <1>1 DEF Over
<1>4. CASE Admit(c, o, r)
  <2>1. Told[r] = "unknown"
    BY <1>4 DEF Admit, Told, Said, Rows
  <2>2. Said(r)' = "new"
    <3>1. row'[r] = [state |-> "accepted", result |-> "none"] /\ r \notin expired'
      BY <1>1, <1>4 DEF Admit
    <3>2. row'[r] # NoRow
      BY <3>1 DEF InboxAssumption, Receipt, States, Results
    <3>3. QED
      BY <3>1, <3>2 DEF Said, News
  <2>3. \A s \in Requests \ {r} : Said(s)' = Said(s)
    BY <1>1, <1>4 DEF Admit, Said
  <2>4. Told' = [Told EXCEPT ![r] = "new"]
    BY <2>2, <2>3 DEF Told
  <2>5. Promise!Admit(r)
    BY <1>1, <1>2, <1>3, <2>1, <2>4 DEF Promise!Admit, Promise!Tell, Promise!work
  <2>6. QED
    BY <2>5 DEF Promised, Promise!Next
<1>5. CASE Resume(c, o, r)
  BY <1>1, <1>2, <1>3, <1>5, SameTold DEF Resume, Promised
<1>6. QED
  BY <1>4, <1>5

(* A step of a request that does no more than the backend may, and tells   *)
(* no more.                                                                *)
LEMMA AdvancePromised ==
  ASSUME NEW r \in Requests, Promise!Works(r) \/ UNCHANGED <<Committed, asked, ran, Over>>, Promise!Learns(r)
  PROVE  Promised
BY DEF Promised, Promise!Next, Promise!Advance, Promise!work

LEMMA CallPromised ==
  ASSUME RefInv, InboxAssumption, NEW c \in Calls, Proceeds(c)
  PROVE  Promised
<1> DEFINE r == call[c].of
<1>0. call[c].at # "idle" /\ r \in Requests
  BY WorkBits DEF Proceeds, Claim, Dispatch, Answer, RejectTurn, QueueTurn, BeginTurn,
                  SteerTaken, SteerUnproved, AsksTurn, AsksSteer
<1>1. TypeOK /\ ClaimInv /\ TruthInv /\ asked[r] \in Nat
  BY <1>0, WorkBits
<1>2. CASE Claim(c)
  <2>1. UNCHANGED <<asked, entry, ran, expired>>
    BY <1>2 DEF Claim
  <2>2. Over' = Over
    BY <2>1 DEF Over
  <2>3. CASE row[r] # NoRow /\ Claimable(row[r])
    <3> DEFINE x == [row[r] EXCEPT !.state = "dispatching"]
    <3>1. Goto(c, "claimed") /\ Write(r, x)
      BY <1>0, <1>2, <2>3 DEF Claim, Rows
    <3>2. asked[r] = 0 /\ \A d \in Calls : ~Holds(d, r)
      BY <1>0, <1>1, <2>3 DEF ClaimInv, Untouched, Unspent
    <3>3. r \notin Committed
      BY <3>2 DEF Committed, Holds
    <3>4. Committed' = Committed \union {r}
      <4>1. call[c].at = "admitted" /\ call'[c].at = "claimed" /\ call'[c].of = r
            /\ \A d \in Calls \ {c} : call'[d] = call[d]
        BY <1>0, <1>1, <1>2, <3>1, CallMoves DEF Claim
      <4>2. QED
        BY <1>0, <4>1 DEF Committed
    <3>5. x \in Receipt /\ x # NoRow /\ row[r] \in Receipt /\ x.state = "dispatching"
      BY <1>0, <1>1, <2>3, ReceiptType DEF InboxAssumption, Receipt
    <3>6. News(row[r]) = "new" /\ News(x) = "open"
      BY <2>3, <3>5, NewsOf DEF Claimable
    <3>7. row' = [row EXCEPT ![r] = x]
      BY <3>1 DEF Write
    <3>8. (Told[r] = "new" /\ Promise!Tell(r, "open")) \/ (Told[r] = "past" /\ Told' = Told)
      <4>1. r \in expired => Told[r] = "past" /\ Told' = Told
        BY <1>0, <1>1, <2>1, <2>3, <3>5, <3>7, WriteTells DEF Said
      <4>2. r \notin expired => Told[r] = "new" /\ Promise!Tell(r, "open")
        BY <1>0, <1>1, <2>1, <2>3, <3>5, <3>6, <3>7, WriteTells
      <4>3. QED
        BY <4>1, <4>2
    <3>9. Promise!Commit(r)
      BY <2>1, <2>2, <3>2, <3>3, <3>4, <3>8 DEF Promise!Commit
    <3>10. QED
      BY <1>0, <3>9 DEF Promised, Promise!Next
  <2>4. CASE ~(row[r] # NoRow /\ Claimable(row[r]))
    <3>1. Done(c) /\ call[c].at = "admitted"
          /\ (UNCHANGED inbox \/ (row[r] # NoRow /\ Reconciled(call[c].owner, r)))
      BY <1>0, <1>2, <2>4 DEF Claim, Rows
    <3>2. Committed' = Committed
      BY <1>1, <3>1, CallLeavesCommitted
    <3>3. call[c].owner \in Owners
      BY <1>0, <1>1, CallType
    <3>4. Promise!Learns(r)
      <4>1. CASE UNCHANGED inbox
        BY <2>1, <4>1, SameTold DEF Promise!Learns
      <4>2. CASE row[r] # NoRow /\ Reconciled(call[c].owner, r)
        BY <1>0, <1>1, <2>1, <3>3, <4>2, ReconcileLearns
      <4>3. QED
        BY <3>1, <4>1, <4>2
    <3>5. QED
      BY <1>0, <2>1, <2>2, <3>2, <3>4, AdvancePromised
  <2>5. QED
    BY <2>3, <2>4
<1>3. CASE Dispatch(c)
  <2>1. UNCHANGED <<row, expired, entry, ran>> /\ Goto(c, "asked") /\ call[c].at = "claimed"
    BY <1>3 DEF Dispatch
  <2>2. Told' = Told /\ Over' = Over
    BY <2>1, SameTold DEF Over
  <2>3. r \in Committed
    BY <1>0, <2>1 DEF Committed
  <2>4. Committed' = Committed \ {r}
    <3>1. call'[c].at = "asked" /\ \A d \in Calls \ {c} : call'[d] = call[d]
      BY <1>0, <1>1, <2>1, CallMoves
    <3>2. \A d \in Calls : call[d].at = "claimed" /\ call[d].of = r => d = c
      BY <1>0, <1>1, <2>1 DEF ClaimInv, OneHolder, Holds
    <3>3. QED
      BY <2>1, <3>1, <3>2 DEF Committed
  <2>5. Promise!Ask(r)
    BY <1>3, <2>1, <2>2, <2>3, <2>4 DEF Dispatch, Promise!Ask
  <2>6. QED
    BY <1>0, <2>5 DEF Promised, Promise!Next
<1>4. CASE Answer(c)
  <2>1. UNCHANGED <<asked, entry, ran, expired>>
        /\ call[c].at \in {"queued", "started", "refused", "failed"} /\ Done(c)
    BY <1>4 DEF Answer
  <2>2. Over' = Over /\ Committed' = Committed
    BY <1>1, <2>1, CallLeavesCommitted DEF Over
  <2>3. Promise!Learns(r)
    <3>1. CASE row[r] # NoRow /\ Write(r, Answered(r, call[c].at))
      <4> DEFINE x == Answered(r, call[c].at)
      <4>1. row[r] \in Receipt /\ x \in Receipt /\ x # NoRow
        BY <1>0, <1>1, <2>1, <3>1, ReceiptType DEF InboxAssumption
      <4>2. /\ asked[r] = 1 /\ ~Claimable(row[r])
            /\ call[c].at = "started" => r \in ran'
            /\ call[c].at = "refused" => row[r].state \notin Proofs
        BY <1>0, <1>1, <2>1, <3>1
        DEF ClaimInv, HolderFirst, Untouched, Unspent, Holds, TruthInv, CallsTrue, SteersTrue, Is
      <4>3. \/ row[r].state \in Proofs /\ x.state = row[r].state
            \/ x.state = "uncertain" /\ row[r].state \notin Proofs
            \/ x.state = "dispatched" /\ r \in ran' /\ row[r].state # "completed"
            \/ x.state = "accepted" /\ x.result = "queued" /\ row[r].state \notin Proofs
        BY <2>1, <4>1, <4>2 DEF Answered, Doubted, Receipt, Proofs
      <4>4. Honest(r, x)
        BY <4>1, <4>2, <4>3, NewsOf DEF Honest, Proofs
      <4>5. QED
        BY <1>0, <1>1, <2>1, <3>1, <4>1, <4>4, HonestWrite DEF Write
    <3>2. CASE UNCHANGED <<row, stale>>
      BY <2>1, <3>2, SameTold DEF Promise!Learns
    <3>3. QED
      BY <1>0, <1>4, <3>1, <3>2 DEF Answer, Rows
  <2>4. QED
    BY <1>0, <2>1, <2>2, <2>3, AdvancePromised
<1>5. CASE RejectTurn(c) \/ QueueTurn(c) \/ BeginTurn(c)
  <2>1. /\ UNCHANGED <<row, expired, asked, ran>> /\ call[c].at = "asked"
        /\ \E at \in {"failed", "queued", "starting"} : Goto(c, at)
    BY <1>5 DEF RejectTurn, QueueTurn, BeginTurn, AsksTurn
  <2>2. Committed' = Committed /\ Told' = Told
    BY <1>1, <2>1, SameTold, CallLeavesCommitted
  <2>3. Over' = Over
    <3>1. entry[r].at = "none"
      BY <1>0, <1>1, <2>1 DEF ClaimInv, HolderFirst, Holds
    <3>2. UNCHANGED entry \/ (/\ entry'[r].at \in {"waiting", "starting"}
                              /\ \A s \in Requests \ {r} : entry'[s] = entry[s])
      BY <1>0, <1>1, <1>5 DEF RejectTurn, QueueTurn, BeginTurn, Enters, TypeOK
    <3>3. QED
      BY <3>1, <3>2, SameOver
  <2>4. QED
    BY <2>1, <2>2, <2>3 DEF Promised
<1>6. CASE SteerTaken(c) \/ SteerUnproved(c)
  <2>1. /\ UNCHANGED <<row, expired, asked, entry>> /\ call[c].at = "asked" /\ r \in Steers
        /\ \E at \in {"started", "refused", "failed"} : Goto(c, at)
        /\ ran' \in {ran, ran \union {r}}
    BY <1>6 DEF SteerTaken, SteerUnproved, AsksSteer, TakenOrNot
  <2>2. Committed' = Committed /\ Told' = Told /\ Over' = Over
    BY <1>1, <2>1, SameTold, CallLeavesCommitted DEF Over
  <2>3. asked[r] > 0 /\ r \notin Over
    BY <1>0, <1>1, <2>1 DEF ClaimInv, HolderFirst, Holds, TruthInv, SteersTrue, Over
  <2>4. Promise!Works(r) /\ Promise!Learns(r)
    BY <2>1, <2>2, <2>3 DEF Promise!Works, Promise!Learns
  <2>5. QED
    BY <1>0, <2>4, AdvancePromised
<1>7. QED
  BY <1>2, <1>3, <1>4, <1>5, <1>6 DEF Proceeds

LEMMA EntryPromised ==
  ASSUME RefInv, InboxAssumption, NEW r \in Requests, Advances(r)
  PROVE  Promised
<1>0. TypeOK /\ ClaimInv /\ TruthInv /\ (entry[r].at # "none" => asked[r] > 0)
  BY WorkBits
<1>1. UNCHANGED asked
  BY DEF Advances, Drain, TurnStarts, DirectStartFails, DrainFails, Ends, IdleRelease, GoStale, Expire
<1>2. \A at : Moves(r, at) => entry'[r].at = at /\ \A s \in Requests \ {r} : entry'[s] = entry[s]
  BY <1>0 DEF Moves, TypeOK
<1>3. \A at : Moves(r, at) /\ entry[r].at # "gone" => Over' \in {Over, Over \union {r}}
  BY <1>2 DEF Over
<1>4. Committed' = Committed
  <2>1. \A at \in {"started", "failed"} : Return(r, at) =>
          \A d \in Calls : call'[d] = call[d] \/ (call[d].at = "starting" /\ call'[d].at = at)
    <3>1. \A d \in Calls : d \in Awaiting(r) => call[d] \in Busy
      BY <1>0, CallType DEF Awaiting
    <3>2. QED
      BY <3>1 DEF Return, Awaiting, Busy
  <2>2. UNCHANGED call \/ \E at \in {"started", "failed"} : Return(r, at)
    BY DEF Advances, Drain, TurnStarts, DirectStartFails, DrainFails, Ends, IdleRelease, GoStale, Expire
  <2>3. QED
    BY <2>1, <2>2, SameCommitted
<1>5. ASSUME entry[r].at \notin {"none", "gone"}, ran' \in {ran, ran \union {r}}, \E at : Moves(r, at)
      PROVE  Promise!Works(r)
  <2>1. asked[r] > 0 /\ r \notin Over
    BY <1>0, <1>5 DEF Over
  <2>2. QED
    BY <1>1, <1>3, <1>4, <1>5, <2>1 DEF Promise!Works
<1>6. CASE Drain(r) \/ DrainFails(r) \/ IdleRelease(r)
  <2>1. Promise!Works(r)
    BY <1>5, <1>6 DEF Drain, DrainFails, IdleRelease, TakenOrNot
  <2>2. Promise!Learns(r)
    BY <1>6, SameTold DEF Drain, DrainFails, IdleRelease, Promise!Learns
  <2>3. QED
    BY <2>1, <2>2, AdvancePromised
<1>7. CASE TurnStarts(r) \/ DirectStartFails(r) \/ Ends(r)
  <2>1. Promise!Works(r)
    BY <1>5, <1>7 DEF TurnStarts, DirectStartFails, Ends, TakenOrNot
  <2>2. UNCHANGED expired /\ entry[r].at # "none"
    BY <1>7 DEF TurnStarts, DirectStartFails, Ends
  <2>3. CASE TurnStarts(r)
    BY <1>0, <2>1, <2>2, <2>3, ObserveLearns, AdvancePromised DEF TurnStarts
  <2>4. CASE DirectStartFails(r)
    BY <1>0, <2>1, <2>2, <2>4, ObserveLearns, AdvancePromised DEF DirectStartFails
  <2>5. CASE Ends(r)
    BY <1>0, <1>2, <2>1, <2>2, <2>5, ObserveLearns, AdvancePromised DEF Ends
  <2>6. QED
    BY <1>7, <2>3, <2>4, <2>5
<1>8. CASE GoStale(r)
  <2>1. UNCHANGED <<row, expired, ran, entry>>
    BY <1>8 DEF GoStale
  <2>2. QED
    BY <1>1, <1>4, <2>1, SameTold DEF Promised, Over
<1>9. CASE Expire(r)
  <2>1. UNCHANGED <<row, ran, entry>> /\ expired' = expired \union {r}
    BY <1>9 DEF Expire
  <2>2. Said(r)' = "past" /\ \A s \in Requests \ {r} : Said(s)' = Said(s)
    BY <2>1 DEF Said
  <2>3. Told' = [Told EXCEPT ![r] = "past"]
    BY <2>2 DEF Told
  <2>4. Promise!Expire(r)
    BY <1>1, <1>4, <2>1, <2>3 DEF Promise!Expire, Promise!Tell, Promise!work, Over
  <2>5. QED
    BY <2>4 DEF Promised, Promise!Next
<1>10. QED
  BY <1>6, <1>7, <1>8, <1>9 DEF Advances

LEMMA ProcessPromised ==
  ASSUME RefInv, InboxAssumption, NEW o \in Owners,
         Stop(o) \/ Crash(o) \/ \E r \in Requests : Reconcile(o, r) \/ MarkLost(o, r)
  PROVE  Promised
<1>0. TypeOK /\ ClaimInv /\ TruthInv
  BY WorkBits
<1>1. CASE Stop(o)
  <2>1. UNCHANGED <<row, expired, call, asked, ran, entry>>
    BY <1>1 DEF Stop
  <2>2. QED
    BY <2>1, SameTold DEF Promised, Committed, Over
<1>2. ASSUME NEW r \in Requests, UNCHANGED <<expired, call, asked, ran, entry>>, Promise!Learns(r)
      PROVE  Promised
  <2>1. UNCHANGED <<Committed, asked, ran, Over>>
    BY <1>2 DEF Committed, Over
  <2>2. QED
    BY <1>2, <2>1, AdvancePromised
<1>3. ASSUME NEW r \in Requests, Reconcile(o, r)
      PROVE  Promised
  <2>1. UNCHANGED <<expired, call, asked, ran, entry>> /\ row[r] # NoRow /\ Reconciled(o, r)
    BY <1>3 DEF Reconcile, Rows
  <2>2. QED
    BY <1>0, <1>2, <2>1, ReconcileLearns
<1>4. ASSUME NEW r \in Requests, MarkLost(o, r)
      PROVE  Promised
  <2>1. UNCHANGED <<expired, call, asked, ran, entry>>
    BY <1>4 DEF MarkLost
  <2>2. ~Unspent(r)
    BY <1>4 DEF MarkLost, RefInv, Spent
  <2>3. CASE row[r] # NoRow /\ row[r].state = "accepted" /\ Write(r, Doubted(row[r]))
    BY <1>0, <1>2, <2>1, <2>2, <2>3, DoubtLearns DEF Unspent, Proofs
  <2>4. CASE UNCHANGED <<row, stale>>
    BY <1>2, <2>1, <2>4, SameTold DEF Promise!Learns
  <2>5. QED
    BY <1>4, <2>3, <2>4 DEF MarkLost, Rows
<1>5. CASE Crash(o)
  <2> DEFINE mine == {r \in Requests : entry[r].home = o /\ entry[r].at # "none"}
             ended == {r \in mine : entry[r].at # "gone"}
  <2>1. UNCHANGED <<row, expired, asked>>
    BY <1>5 DEF Crash
  <2>2. \A r \in Requests : entry'[r] = IF r \in mine THEN [entry[r] EXCEPT !.at = "gone"] ELSE entry[r]
    BY <1>5 DEF Crash
  <2>3. \A r \in Requests : r \in mine => [entry[r] EXCEPT !.at = "gone"].at = "gone"
    BY <1>0 DEF TypeOK
  <2>4. \A r \in Requests : entry'[r].at = "gone" <=> (entry[r].at = "gone" \/ r \in ended)
    BY <2>2, <2>3
  <2>5. Over' = Over \union ended
    BY <2>4 DEF Over
  <2>6. ended \in SUBSET {r \in Requests : asked[r] > 0 /\ r \notin Over}
    BY WorkBits DEF Over
  <2>7. \E started \in SUBSET ended : ran' = ran \union started
    BY <1>5 DEF Crash
  <2>8. Committed' \subseteq Committed
    <3>1. \A c \in Calls : call'[c] = call[c] \/ call'[c].at = "idle"
      BY <1>5 DEF Crash, Idle
    <3>2. QED
      BY <3>1 DEF Committed
  <2>9. Promise!Crash
    BY <2>1, <2>5, <2>6, <2>7, <2>8, SameTold DEF Promise!Crash
  <2>10. QED
    BY <2>9 DEF Promised, Promise!Next
<1>6. QED
  BY <1>1, <1>3, <1>4, <1>5

LEMMA StepPromised == InboxAssumption /\ RefInv /\ [Next]_vars => Promised /\ RefInv'
<1> SUFFICES ASSUME InboxAssumption, RefInv, [Next]_vars PROVE Promised /\ RefInv'
  OBVIOUS
<1>1. RefInv'
  BY StepType, StepClaim, StepTrue, EnteredStep, SpentStep DEF RefInv, Inv
<1>2. CASE UNCHANGED vars
  <2>1. UNCHANGED <<row, expired, call, asked, ran, entry>>
    BY <1>2 DEF vars
  <2>2. QED
    BY <1>1, <2>1, SameTold DEF Promised, Committed, Over
<1>3. CASE Next
  BY <1>1, <1>3, CallPromised, SubmitPromised, EntryPromised, ProcessPromised DEF Next, Submits
<1>4. QED
  BY <1>2, <1>3

LEMMA InitPromised == InboxAssumption /\ Init => RefInv /\ Promise!Init
<1> SUFFICES ASSUME InboxAssumption, Init PROVE RefInv /\ Promise!Init
  OBVIOUS
<1>1. RefInv
  BY InitType, InitClaim, InitTrue DEF RefInv, Inv, Entered, Spent, Init
<1>2. Told = [r \in Requests |-> "unknown"]
  BY DEF Init, Told, Said
<1>3. Committed = {} /\ Over = {}
  BY DEF Init, Committed, Over, Idle
<1>4. QED
  BY <1>1, <1>2, <1>3 DEF Init, Promise!Init

(* The inbox, with its suspended calls, queues, events, lookups, crashes   *)
(* and expiring receipts, implements RequestReceipts for any processes,    *)
(* calls, requests and quotas (submitOperation, observeQueueEvent,         *)
(* reconcile).                                                             *)
THEOREM PeersAreAnswered == Spec => AnswersAsPromised
<1>1. Init => RefInv /\ Promise!Init
  BY InitPromised, InboxAssumption
<1>2. RefInv /\ [Next]_vars => [Promise!Next]_(Promise!vars) /\ RefInv'
  BY StepPromised, InboxAssumption DEF Promised, Promise!vars, Promise!work
<1>3. QED
  BY <1>1, <1>2, PTL DEF Spec, AnswersAsPromised, Promise!Spec

=============================================================================
