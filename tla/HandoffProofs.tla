---------------------------- MODULE HandoffProofs ----------------------------
(* The queue hands one entry at a time to the backend, for any number of    *)
(* entries and promise chains.                                              *)
(*                                                                          *)
(* A step keeps the chain that is in the handoff, begins the handoff of one *)
(* when the admission is idle, or ends the handoff of the chain whose       *)
(* admission it is.  The lemmas say which of the three each action does.    *)
(*                                                                          *)
(* Two more facts about the chains and the turns they ask for follow, for   *)
(* the proofs that build on this one: one releaseThread runs at a time      *)
(* (ReleaseInv), and nobody knows the end of a turn before it has ended     *)
(* (TurnInv).  The second leads to the last theorem: a turn that is over is *)
(* believed running only when its end was dropped (HearInv).                *)
EXTENDS ThreadTurnQueueProofs

USE DEF fifo, hold, handoff, release, sched, provider, history

(* A chain in the handoff goes on there after the walk or emit it awaits.   *)
Later == {"finish", "failed", "steerBack"}

Hands(c) ==
  \/ c.pc \in {"starting", "steering", "started", "steered"} \union Later
  \/ c.pc \in {"ended", "holding"} /\ c.then \in Later

Asks(c) == c.pc \in {"starting", "steering"}

HandoffInv == TypeOK /\ OneHandoff /\ StartsAlone

(* What a step may do to the handoff. *)
Others(t) ==
  \A u \in Tasks \ {t} :
    /\ Hands(task'[u]) <=> Hands(task[u])
    /\ task'[u].pc = task[u].pc /\ task'[u].entry = task[u].entry /\ task'[u].op = task[u].op
    /\ task'[u].ctx = task[u].ctx /\ task'[u].prev = task[u].prev
    /\ task'[u].then = task[u].then /\ task'[u].reason = task[u].reason
    /\ task'[u].early = task[u].early

(* Chain t moves on to where it neither asks the backend nor edits.         *)
Moves(t) == Others(t) /\ task'[t].pc \notin Working

SameChain(t) ==
  /\ Others(t)
  /\ Hands(task'[t]) <=> Hands(task[t])
  /\ ~Asks(task'[t])

SameAdmission ==
  /\ admission'.phase = "idle" <=> admission.phase = "idle"
  /\ admission'.attempt = admission.attempt

NoNewRunning == running' \in {running, NoTurn}

Keeps(t) == SameChain(t) /\ SameAdmission /\ NoNewRunning

Begins(t) ==
  /\ admission.phase = "idle"
  /\ admission'.phase # "idle" /\ admission'.attempt = t
  /\ Others(t) /\ Hands(task'[t])
  /\ task'[t].pc = "starting" => running = NoTurn
  /\ running' = running
  /\ ~GateHolds(task'[t].entry)

Ends(t) ==
  /\ Hands(task[t])
  /\ admission' = Settle(admission, t)
  /\ Moves(t) /\ ~Hands(task'[t])
  /\ running' \in {running, NoTurn}

ThroughGate ==
  \A t \in Tasks : Asks(task'[t]) /\ task[t].pc # task'[t].pc => ~GateHolds(task'[t].entry)

(* What every step achieves. *)
Good == OneHandoff' /\ StartsAlone' /\ ThroughGate

USE DEF Asks, Moves, Working

LEMMA HandsIsInHandoff ==
  \A t \in Tasks : (InHandoff(t) <=> Hands(task[t])) /\ (InHandoff(t)' <=> Hands(task'[t]))
BY DEF InHandoff, InFlight, Hands, Later

LEMMA KeepsHandoff ==
  ASSUME OneHandoff, StartsAlone, NEW t \in Tasks, Keeps(t)
  PROVE  Good
<1>1. \A u \in Tasks : InHandoff(u)' <=> InHandoff(u)
  BY HandsIsInHandoff DEF Keeps, SameChain, Others
<1>2. OneHandoff'
  BY <1>1 DEF OneHandoff, Keeps, SameAdmission
<1>3. StartsAlone'
  BY DEF StartsAlone, Keeps, SameChain, Others, NoNewRunning
<1>4. ThroughGate
  BY DEF ThroughGate, Keeps, SameChain, Others
<1> QED BY <1>2, <1>3, <1>4 DEF Good

LEMMA BeginsHandoff ==
  ASSUME OneHandoff, StartsAlone, NEW t \in Tasks, Begins(t)
  PROVE  Good
<1>1. \A u \in Tasks : ~Hands(task[u])
  BY HandsIsInHandoff DEF OneHandoff, Begins
<1>2. \A u \in Tasks : InHandoff(u)' <=> u = t
  BY <1>1, HandsIsInHandoff DEF Begins, Others
<1>3. OneHandoff'
  BY <1>2 DEF OneHandoff, Begins
<1>4. StartsAlone'
  <2> SUFFICES ASSUME NEW u \in Tasks, task'[u].pc = "starting" PROVE running' = NoTurn
    BY DEF StartsAlone
  <2>1. u = t
    BY <1>2, HandsIsInHandoff DEF Hands
  <2> QED BY <2>1 DEF Begins
<1>5. ThroughGate
  BY DEF ThroughGate, Begins, Others
<1> QED BY <1>3, <1>4, <1>5 DEF Good

LEMMA EndsHandoff ==
  ASSUME OneHandoff, StartsAlone, NEW t \in Tasks, Ends(t)
  PROVE  Good
<1>1. InHandoff(t)
  BY HandsIsInHandoff DEF Ends
<1>2. admission' = IdleAdmission
  BY <1>1 DEF OneHandoff, Ends, Settle
<1>3. \A u \in Tasks : ~InHandoff(u)'
  BY <1>1, HandsIsInHandoff DEF OneHandoff, Ends, Others
<1>4. OneHandoff'
  BY <1>2, <1>3 DEF OneHandoff, IdleAdmission
<1>5. StartsAlone'
  BY <1>3, HandsIsInHandoff DEF StartsAlone, Hands
<1>6. ThroughGate
  BY <1>3, HandsIsInHandoff DEF ThroughGate, Hands
<1> QED BY <1>4, <1>5, <1>6 DEF Good

(* One chain moves on; the others stay where they are. *)
LEMMA OnlyOne ==
  ASSUME TypeOK, NEW t \in Tasks, NEW c, task' = [task EXCEPT ![t] = c]
  PROVE  Others(t) /\ task'[t] = c
BY DEF Others, TypeOK, TaskOK

LEMMA GotoHands ==
  ASSUME NEW tk, NEW pc \in Onward \union {"left"}
  PROVE  (Hands(Goto(tk, pc)) <=> pc \in Later) /\ Goto(tk, pc).pc = pc
<1> DEFINE c == [IdleTask EXCEPT !.pc = pc, !.ctx = tk.ctx, !.entry = tk.entry, !.early = tk.early]
<1>1. c.pc = pc
  BY DEF IdleTask
<1>2. IdleTask.pc = "idle"
  BY DEF IdleTask
<1> HIDE DEF c
<1>3. Goto(tk, pc) = IF pc = "idle" THEN IdleTask ELSE c
  BY DEF Goto, c
<1> QED BY <1>1, <1>2, <1>3 DEF Hands, Later, Onward

LEMMA RestsHandoff ==
  ASSUME OneHandoff, StartsAlone, UNCHANGED task, SameAdmission, NoNewRunning
  PROVE  Good
<1>1. \A u \in Tasks : InHandoff(u)' <=> InHandoff(u)
  BY DEF InHandoff, InFlight
<1>2. OneHandoff'
  BY <1>1 DEF OneHandoff, SameAdmission
<1>3. StartsAlone'
  BY DEF StartsAlone, NoNewRunning
<1> QED BY <1>2, <1>3 DEF Good, ThroughGate

(* A walk over the FIFO, and the release of a turn, leave a chain in the   *)
(* handoff exactly when it goes on there.                                  *)
Onwards(t, then) ==
  Moves(t) /\ (Hands(task'[t]) <=> then \in Later)

LEMMA GotoOnwards ==
  ASSUME TypeOK, NEW t \in Tasks, NEW tk, NEW then \in Onward \union {"left"},
         task' = [task EXCEPT ![t] = Goto(tk, then)]
  PROVE  Onwards(t, then)
<1>1. Others(t) /\ task'[t] = Goto(tk, then)
  BY OnlyOne
<1>2. then \notin Working
  BY DEF Onward
<1> QED BY <1>1, <1>2, GotoHands DEF Onwards

LEMMA HoldOnwardOnwards ==
  ASSUME TypeOK, NEW t \in Tasks, NEW tk \in Chain, NEW q, HoldOnward(t, tk, q)
  PROVE  Onwards(t, tk.then)
<1>1. tk.then \in Onward
  BY DEF Chain
<1>2. CASE task' = [task EXCEPT ![t] = Goto(tk, tk.then)]
  BY <1>1, <1>2, GotoOnwards
<1>3. CASE \E j : task' = [task EXCEPT ![t] = [tk EXCEPT !.pc = "holding", !.i = j]]
  <2>1. PICK j : task' = [task EXCEPT ![t] = [tk EXCEPT !.pc = "holding", !.i = j]]
    BY <1>3
  <2> DEFINE c == [tk EXCEPT !.pc = "holding", !.i = j]
  <2>2. c.pc = "holding" /\ c.then = tk.then
    BY DEF Chain
  <2>3. Others(t) /\ task'[t] = c
    BY <2>1, OnlyOne
  <2> HIDE DEF c
  <2> QED BY <2>2, <2>3 DEF Onwards, Hands, Later
<1> QED BY <1>2, <1>3 DEF HoldOnward

LEMMA HoldQueueOnwards ==
  ASSUME TypeOK, NEW t \in Tasks, NEW tk \in Chain, NEW r \in Reasons, NEW keep \in BOOLEAN,
         NEW then \in Onward, HoldQueue(t, tk, r, keep, then)
  PROVE  Onwards(t, then)
<1>1. CASE queue = << >>
  BY <1>1, GotoOnwards DEF HoldQueue
<1>2. CASE queue # << >>
  <2> DEFINE loop == [tk EXCEPT !.reason = r, !.keep = keep, !.then = then, !.i = 1]
  <2>1. loop \in Chain
    <3>1. r \in AnyReason /\ 1 \in Nat
      BY DEF AnyReason
    <3> QED BY <3>1, FieldType
  <2>2. loop.then = then
    BY DEF Chain
  <2>3. HoldOnward(t, loop, queue)
    BY <1>2 DEF HoldQueue
  <2> HIDE DEF loop
  <2> QED BY <2>1, <2>2, <2>3, HoldOnwardOnwards
<1> QED BY <1>1, <1>2

LEMMA FailureOnwards ==
  ASSUME TypeOK, NEW t \in Tasks, NEW tk \in Chain, NEW then \in Onward,
         HoldAfterTurnFailure(t, tk, then)
  PROVE  Onwards(t, then)
<1>1. "failed" \in Reasons /\ FALSE \in BOOLEAN
  BY DEF Reasons
<1>2. CASE HoldQueue(t, tk, "failed", FALSE, then)
  BY <1>1, <1>2, HoldQueueOnwards
<1>3. CASE task' = [task EXCEPT ![t] = Goto(tk, then)]
  BY <1>3, GotoOnwards
<1> QED BY <1>2, <1>3 DEF HoldAfterTurnFailure

LEMMA SettleReleaseOnwards ==
  ASSUME TypeOK, NEW t \in Tasks, NEW tk \in Chain, NEW u \in AnyTurn,
         NEW s \in Statuses, NEW then \in Onward, SettleRelease(t, tk, u, s, then)
  PROVE  Onwards(t, then) /\ NoNewRunning
<1> DEFINE ended == [tk EXCEPT !.turn = u, !.status = s, !.then = then]
           c     == [ended EXCEPT !.pc = "ended"]
<1>1. ended \in Chain /\ ended.then = then
  <2>1. ended \in Chain
    BY FieldType
  <2>2. ended.then = then
    BY DEF Chain
  <2> QED BY <2>1, <2>2
<1> HIDE DEF ended
<1>2. NoNewRunning
  BY DEF SettleRelease, NoNewRunning
<1>3. CASE task' = [task EXCEPT ![t] = c]
  <2>1. c.pc = "ended" /\ c.then = then
    BY <1>1 DEF Chain
  <2>2. Others(t) /\ task'[t] = c
    BY <1>3, OnlyOne
  <2> HIDE DEF c
  <2> QED BY <1>2, <2>1, <2>2 DEF Onwards, Hands, Later
<1>4. CASE HoldAfterTurnFailure(t, ended, then)
  BY <1>1, <1>2, <1>4, FailureOnwards
<1>5. CASE task' = [task EXCEPT ![t] = Goto(ended, then)]
  BY <1>2, <1>5, GotoOnwards
<1> QED BY <1>3, <1>4, <1>5 DEF SettleRelease, ended

(* An action whose chain was in the handoff exactly when it goes on there. *)
LEMMA OnwardsKeeps ==
  ASSUME NEW t \in Tasks, NEW then, Onwards(t, then), Hands(task[t]) <=> then \in Later,
         SameAdmission, NoNewRunning
  PROVE  Keeps(t) /\ Moves(t)
BY DEF Onwards, Keeps, SameChain

(* A chain that is only moved between states outside the handoff. *)
LEMMA OutsideKeeps ==
  ASSUME TypeOK, NEW t \in Tasks, NEW c, task' = [task EXCEPT ![t] = c],
         ~Hands(task[t]), ~Hands(c), UNCHANGED <<admission, running>>
  PROVE  Keeps(t) /\ (c.pc \notin Working => Moves(t))
<1>1. Others(t) /\ task'[t] = c
  BY OnlyOne
<1>2. ~Asks(c)
  BY DEF Hands
<1> QED BY <1>1, <1>2 DEF Keeps, SameChain, SameAdmission, NoNewRunning

LEMMA ReturnEnds ==
  ASSUME TypeOK, NEW t \in Tasks, Return(t)
  PROVE  Moves(t) /\ ~Hands(task'[t])
<1> DEFINE pc == IF task[t].ctx = "edit" THEN "left" ELSE "idle"
<1>1. pc \in Onward \union {"left"} /\ pc \notin Later
  BY DEF Onward, Later
<1>2. task' = [task EXCEPT ![t] = Goto(task[t], pc)]
  BY DEF Return
<1> HIDE DEF pc
<1> QED BY <1>1, <1>2, GotoOnwards DEF Onwards

-----------------------------------------------------------------------------
(* Actions of a chain in the handoff. *)

LEMMA AcknowledgeSame ==
  ASSUME NEW a \in Admission, NEW t, NEW turn
  PROVE  /\ Acknowledge(a, t, turn).phase = "idle" <=> a.phase = "idle"
         /\ Acknowledge(a, t, turn).attempt = a.attempt
BY DEF Acknowledge, Admission

LEMMA AcknowledgedHandoff ==
  ASSUME HandoffInv, NEW t \in Tasks, StartAcknowledged(t)
  PROVE  Good
<1> DEFINE c == [task[t] EXCEPT !.pc = "started",
                               !.early = TerminalOf(admission') # {}]
<1>1. task[t].pc = "starting" /\ InHandoff(t)
  BY DEF StartAcknowledged, InHandoff, InFlight
<1>2. SameAdmission
  BY AllParts, AcknowledgeSame DEF StartAcknowledged, SameAdmission, HandoffInv
<1>3. task' = [task EXCEPT ![t] = c]
  BY DEF StartAcknowledged
<1>4. c.pc = "started"
  BY AllParts DEF HandoffInv, Chain
<1> HIDE DEF c
<1>5. Others(t) /\ task'[t] = c
  BY <1>3, OnlyOne DEF HandoffInv
<1>6. \A u \in Tasks : Hands(task'[u]) <=> Hands(task[u])
  BY <1>1, <1>4, <1>5 DEF Others, Hands
<1>7. OneHandoff'
  <2>1. \A u \in Tasks : InHandoff(u)' <=> InHandoff(u)
    BY <1>6, HandsIsInHandoff
  <2> QED BY <1>2, <2>1 DEF OneHandoff, SameAdmission, HandoffInv
<1>8. StartsAlone'
  <2> SUFFICES ASSUME NEW u \in Tasks, task'[u].pc = "starting" PROVE FALSE
    BY DEF StartsAlone
  <2>1. u # t
    BY <1>4, <1>5
  <2>2. InHandoff(u)
    BY <1>6, HandsIsInHandoff DEF Hands
  <2> QED BY <1>1, <2>1, <2>2 DEF OneHandoff, HandoffInv
<1>9. ThroughGate
  BY <1>4, <1>5 DEF ThroughGate, Others
<1> QED BY <1>7, <1>8, <1>9 DEF Good

LEMMA StartEmittedHandoff ==
  ASSUME HandoffInv, NEW t \in Tasks, StartEmitted(t)
  PROVE  (Keeps(t) \/ Ends(t)) /\ Moves(t)
<1> DEFINE tk       == task[t]
           terminal == CHOOSE x \in TerminalOf(admission) : TRUE
<1>1. Hands(tk) /\ tk \in Chain
  BY AllParts DEF StartEmitted, Hands, HandoffInv
<1>2. CASE TerminalOf(admission) = {} \/ admission.attempt # t
  <2>1. Finish(t) /\ Return(t) /\ UNCHANGED running
    BY <1>2 DEF StartEmitted
  <2> QED BY <1>1, <2>1, ReturnEnds DEF Finish, Ends, HandoffInv
<1>3. CASE ~(TerminalOf(admission) = {} \/ admission.attempt # t)
  <2>1. terminal.turn \in AnyTurn /\ terminal.status \in Statuses
    BY <1>3, AllParts, AdmissionType DEF Outcome, HandoffInv
  <2>2. "finish" \in Onward /\ "finish" \in Later
    BY DEF Onward, Later
  <2>3. SameAdmission
    BY <1>3 DEF StartEmitted, SameAdmission
  <2>4. CASE tk.early
    <3> DEFINE c == [tk EXCEPT !.pc = "ended", !.turn = terminal.turn,
                               !.status = terminal.status, !.then = "finish"]
    <3>1. task' = [task EXCEPT ![t] = c] /\ UNCHANGED running
      BY <1>3, <2>4 DEF StartEmitted
    <3>2. c.pc = "ended" /\ c.then = "finish"
      BY <1>1 DEF Chain
    <3>3. Others(t) /\ task'[t] = c
      BY <3>1, OnlyOne DEF HandoffInv
    <3> HIDE DEF c
    <3> QED BY <1>1, <2>2, <2>3, <3>1, <3>2, <3>3 DEF Keeps, SameChain, Hands, NoNewRunning
  <2>5. CASE ~tk.early
    <3>1. SettleRelease(t, tk, terminal.turn, terminal.status, "finish")
      BY <1>3, <2>5 DEF StartEmitted
    <3> HIDE DEF terminal
    <3>2. Onwards(t, "finish") /\ NoNewRunning
      BY <1>1, <2>1, <2>2, <3>1, SettleReleaseOnwards DEF HandoffInv
    <3> QED BY <1>1, <2>2, <2>3, <3>2, OnwardsKeeps
  <2> QED BY <2>4, <2>5
<1> QED BY <1>2, <1>3

LEMMA TerminalEmittedHandoff ==
  ASSUME HandoffInv, NEW t \in Tasks, TerminalEmitted(t)
  PROVE  Keeps(t) /\ Moves(t)
<1>1. task[t] \in Chain /\ task[t].then \in Onward
  BY AllParts DEF Chain, HandoffInv
<1>2. Onwards(t, task[t].then)
  <2>1. CASE task[t].status = "failed"
    BY <1>1, <2>1, FailureOnwards DEF TerminalEmitted, HandoffInv
  <2>2. CASE task[t].status # "failed"
    BY <1>1, <2>2, GotoOnwards DEF TerminalEmitted, HandoffInv
  <2> QED BY <2>1, <2>2
<1>3. Hands(task[t]) <=> task[t].then \in Later
  BY DEF TerminalEmitted, Hands, Later
<1> QED BY <1>2, <1>3, OnwardsKeeps DEF TerminalEmitted, SameAdmission, NoNewRunning

LEMMA FinishedHandoff ==
  ASSUME HandoffInv, NEW t \in Tasks,
         StartFinished(t) \/ FailureEmitted(t) \/ SteerEmitted(t) \/ SteerBack(t)
  PROVE  Ends(t)
<1>1. Hands(task[t])
  BY DEF StartFinished, FailureEmitted, SteerEmitted, SteerBack, Hands, Later
<1>2. admission' = Settle(admission, t) /\ Return(t) /\ UNCHANGED running
  BY DEF StartFinished, FailureEmitted, SteerEmitted, SteerBack, Finish
<1> QED BY <1>1, <1>2, ReturnEnds DEF Ends, HandoffInv

LEMMA DirectStartRejectedHandoff ==
  ASSUME HandoffInv, NEW t \in Tasks, DirectStartRejected(t)
  PROVE  Keeps(t) /\ Moves(t)
<1>1. task[t] \in Chain /\ Hands(task[t])
  BY AllParts DEF HandoffInv, DirectStartRejected, Refuse, Hands
<1>2. "failed" \in Onward /\ "failed" \in Later
  BY DEF Onward, Later
<1>3. \/ HoldAfterTurnFailure(t, task[t], "failed")
      \/ task' = [task EXCEPT ![t].pc = "failed"]
  BY DEF DirectStartRejected
<1>4. Onwards(t, "failed")
  <2>1. CASE HoldAfterTurnFailure(t, task[t], "failed")
    BY <1>1, <1>2, <2>1, FailureOnwards DEF HandoffInv
  <2>2. CASE task' = [task EXCEPT ![t].pc = "failed"]
    <3> DEFINE c == [task[t] EXCEPT !.pc = "failed"]
    <3>1. c.pc = "failed"
      BY <1>1 DEF Chain
    <3>2. task' = [task EXCEPT ![t] = c]
      BY <2>2
    <3> HIDE DEF c
    <3>3. Others(t) /\ task'[t] = c
      BY <3>2, OnlyOne DEF HandoffInv
    <3> QED BY <1>2, <3>1, <3>3 DEF Onwards, Hands
  <2> QED BY <1>3, <2>1, <2>2
<1> QED BY <1>1, <1>2, <1>4, OnwardsKeeps
        DEF DirectStartRejected, SameAdmission, NoNewRunning

LEMMA BlockEnds ==
  ASSUME HandoffInv, NEW t \in Tasks, NEW r, task[t].pc \in {"starting", "steering"},
         Block(t, r), admission' = Settle(admission, t), UNCHANGED running
  PROVE  Ends(t)
<1> DEFINE c == [task[t] EXCEPT !.pc = "blocked", !.reason = r, !.rev = 0]
<1>1. c.pc = "blocked"
  BY AllParts DEF HandoffInv, Chain
<1>2. task' = [task EXCEPT ![t] = c]
  BY DEF Block
<1> HIDE DEF c
<1>3. Others(t) /\ task'[t] = c
  BY <1>2, OnlyOne DEF HandoffInv
<1> QED BY <1>1, <1>3 DEF Ends, Hands, Later

LEMMA RejectedHandoff ==
  ASSUME HandoffInv, NEW t \in Tasks, NEW r, QueuedStartRejected(t, r) \/ SteerRejected(t, r)
  PROVE  Ends(t)
<1>1. task[t].pc \in {"starting", "steering"}
  BY DEF QueuedStartRejected, SteerRejected, Refuse
<1>2. Block(t, r) /\ admission' = Settle(admission, t) /\ UNCHANGED running
  BY DEF QueuedStartRejected, SteerRejected, Finish
<1> QED BY <1>1, <1>2, BlockEnds

LEMMA SteerAcceptedHandoff ==
  ASSUME HandoffInv, NEW t \in Tasks, SteerAccepted(t)
  PROVE  Keeps(t) /\ Moves(t)
<1> DEFINE c == [task[t] EXCEPT !.pc = "steered", !.rev = 0]
<1>1. c.pc = "steered"
  BY AllParts DEF HandoffInv, Chain
<1>2. task' = [task EXCEPT ![t] = c]
  BY DEF SteerAccepted
<1> HIDE DEF c
<1>3. Others(t) /\ task'[t] = c
  BY <1>2, OnlyOne DEF HandoffInv
<1>4. SameAdmission
  BY AllParts, AcknowledgeSame DEF SteerAccepted, SameAdmission, HandoffInv
<1> QED BY <1>1, <1>3, <1>4 DEF SteerAccepted, Keeps, SameChain, Hands, NoNewRunning

LEMMA SteerDeclinedHandoff ==
  ASSUME HandoffInv, NEW t \in Tasks, NEW retry \in BOOLEAN, SteerDeclined(t, retry)
  PROVE  (Keeps(t) \/ Ends(t)) /\ Moves(t)
<1>1. Hands(task[t]) /\ task[t] \in Chain /\ UNCHANGED running
  BY AllParts DEF SteerDeclined, Hands, HandoffInv, Chain
<1>2. CASE reasons # << >> /\ revision # task[t].rev
  <2> DEFINE tk   == [task[t] EXCEPT !.early = retry, !.rev = 0]
             loop == [tk EXCEPT !.reason = NewestReason, !.keep = TRUE,
                                !.then = "steerBack", !.i = 1]
  <2>1. HoldOnward(t, loop, queue') /\ SameAdmission
    BY <1>2 DEF SteerDeclined, SameAdmission
  <2>2. "steerBack" \in Onward /\ "steerBack" \in Later
    BY DEF Onward, Later
  <2>3. tk \in Chain
    <3>1. 0 \in Revisions
      BY MaxRevisionType DEF Revisions
    <3> QED BY <1>1, <3>1, FieldType
  <2> HIDE DEF tk
  <2>4. loop \in Chain
    <3>1. NewestReason \in AnyReason /\ 1 \in Nat
      BY NewestReasonType DEF HandoffInv
    <3> QED BY <2>2, <2>3, <3>1, FieldType
  <2>5. loop.then = "steerBack"
    BY <2>3 DEF Chain
  <2> HIDE DEF loop
  <2>6. Onwards(t, "steerBack")
    BY <2>1, <2>4, <2>5, HoldOnwardOnwards DEF HandoffInv
  <2> QED BY <1>1, <2>1, <2>2, <2>6, OnwardsKeeps DEF NoNewRunning
<1>3. CASE ~(reasons # << >> /\ revision # task[t].rev)
  <2>1. admission' = Settle(admission, t) /\ Return(t)
    BY <1>3 DEF SteerDeclined
  <2> QED BY <1>1, <2>1, ReturnEnds DEF Ends, HandoffInv
<1> QED BY <1>2, <1>3

LEMMA HoldEmittedHandoff ==
  ASSUME HandoffInv, NEW t \in Tasks, HoldEmitted(t)
  PROVE  Keeps(t) /\ Moves(t)
<1>1. Onwards(t, task[t].then)
  BY AllParts, HoldOnwardOnwards DEF HoldEmitted, HandoffInv
<1>2. Hands(task[t]) <=> task[t].then \in Later
  BY DEF HoldEmitted, Hands, Later
<1> QED BY <1>1, <1>2, OnwardsKeeps DEF HoldEmitted, SameAdmission, NoNewRunning

-----------------------------------------------------------------------------
(* Actions of a chain outside the handoff. *)

LEMMA BlockedHandoff ==
  ASSUME HandoffInv, NEW t \in Tasks, BlockEmitted(t) \/ HeldEmitted(t)
  PROVE  Keeps(t) /\ Moves(t)
<1>1. \E then \in {"refused", "idle"} : HoldQueue(t, task[t], task[t].reason, TRUE, then)
  BY DEF BlockEmitted, HeldEmitted
<1>2. task[t].reason \in Reasons /\ task[t] \in Chain
  BY WorkFacts, AllParts DEF BlockEmitted, HeldEmitted, Blocking, HandoffInv
<1>3. ~Hands(task[t])
  BY DEF BlockEmitted, HeldEmitted, Hands, Later
<1>4. PICK then \in {"refused", "idle"} : HoldQueue(t, task[t], task[t].reason, TRUE, then)
  BY <1>1
<1>5. then \in Onward /\ then \notin Later
  BY DEF Onward, Later
<1>6. Onwards(t, then)
  BY <1>2, <1>4, <1>5, HoldQueueOnwards DEF HandoffInv
<1> QED BY <1>3, <1>5, <1>6, OnwardsKeeps
        DEF BlockEmitted, HeldEmitted, SameAdmission, NoNewRunning

LEMMA ReleaseHandoff ==
  ASSUME HandoffInv, NEW t \in Tasks, NEW n, Release(t, n)
  PROVE  Keeps(t) /\ Moves(t)
<1>1. n.turn \in AnyTurn /\ n.status \in Statuses
  BY TakeType DEF Release, Outcome, HandoffInv
<1>2. Onwards(t, "next") /\ NoNewRunning
  BY <1>1, FreshRelease, SettleReleaseOnwards DEF Release, HandoffInv
<1>3. ~Hands(task[t]) /\ "next" \notin Later
  BY DEF Release, Free, Hands, Later
<1> QED BY <1>2, <1>3, OnwardsKeeps DEF Release, SameAdmission

LEMMA ReleaseRefusedHandoff ==
  ASSUME HandoffInv, NEW t \in Tasks, ReleaseRefused(t)
  PROVE  Keeps(t) /\ Moves(t)
<1>1. ~Hands(task[t]) /\ "next" \notin Later
  BY DEF ReleaseRefused, Hands, Later
<1>2. CASE pendingRelease
  <2>1. SettleRelease(t, [IdleTask EXCEPT !.ctx = "release"], NoTurn, "idle", "next")
    BY <1>2 DEF ReleaseRefused
  <2>2. Onwards(t, "next") /\ NoNewRunning
    BY <2>1, FreshRelease, NoTurnType, SettleReleaseOnwards DEF Statuses, HandoffInv
  <2> QED BY <1>1, <2>2, OnwardsKeeps DEF ReleaseRefused, SameAdmission
<1>3. CASE ~pendingRelease
  <2>1. task' = [task EXCEPT ![t] = IdleTask] /\ UNCHANGED <<admission, running>>
    BY <1>3 DEF ReleaseRefused
  <2>2. ~Hands(IdleTask) /\ IdleTask.pc \notin Working
    BY DEF IdleTask, Hands, Later
  <2> QED BY <1>1, <2>1, <2>2, OutsideKeeps DEF HandoffInv
<1> QED BY <1>2, <1>3

LEMMA EditHandoff ==
  ASSUME HandoffInv, NEW t \in Tasks,
         \/ MoveEntry(t) \/ PauseEntry(t) \/ ResumeEntry(t) \/ InputEdited(t)
         \/ SteerLeaves(t, "left") \/ SteerLeaves(t, "leaving")
  PROVE  Keeps(t) /\ Moves(t)
<1>1. LeaveEdit(t, IdleTask) /\ UNCHANGED <<admission, running>>
  BY DEF MoveEntry, PauseEntry, ResumeEntry, InputEdited, SteerLeaves
<1>2. ~Hands(task[t])
  BY DEF MoveEntry, PauseEntry, ResumeEntry, InputEdited, SteerLeaves, MayEdit, Hands, Later
<1>3. ~Hands(IdleTask) /\ IdleTask.pc \notin Working
  BY DEF IdleTask, Hands, Later
<1> QED BY <1>1, <1>2, <1>3, OutsideKeeps DEF LeaveEdit, HandoffInv

LEMMA ClearOnwardHandoff ==
  ASSUME HandoffInv, NEW t \in Tasks, NEW tk \in Chain, ~Hands(task[t]),
         ClearOnward(t, tk), UNCHANGED <<admission, running>>
  PROVE  Keeps(t) /\ Moves(t)
<1>1. CASE \E i : task' = [task EXCEPT ![t] = [tk EXCEPT !.pc = "clearing", !.i = i]]
  <2>1. PICK i : task' = [task EXCEPT ![t] = [tk EXCEPT !.pc = "clearing", !.i = i]]
    BY <1>1
  <2>2. [tk EXCEPT !.pc = "clearing", !.i = i].pc = "clearing"
    BY DEF Chain
  <2>3. ~Hands([tk EXCEPT !.pc = "clearing", !.i = i])
    BY <2>2 DEF Hands, Later
  <2> QED BY <2>1, <2>2, <2>3, OutsideKeeps DEF HandoffInv
<1>2. CASE LeaveEdit(t, [IdleTask EXCEPT !.pc = "next", !.ctx = "retry"])
  <2>1. /\ ~Hands([IdleTask EXCEPT !.pc = "next", !.ctx = "retry"])
        /\ [IdleTask EXCEPT !.pc = "next", !.ctx = "retry"].pc \notin Working
    BY DEF IdleTask, Hands, Later
  <2> QED BY <1>2, <2>1, OutsideKeeps DEF LeaveEdit, HandoffInv
<1> QED BY <1>1, <1>2 DEF ClearOnward

LEMMA ClearHandoff ==
  ASSUME HandoffInv, NEW t \in Tasks, ClearQueueHold(t) \/ ClearEmitted(t)
  PROVE  Keeps(t) /\ Moves(t)
<1>1. ~Hands(task[t]) /\ UNCHANGED <<admission, running>>
  BY DEF ClearQueueHold, ClearEmitted, MayEdit, Hands, Later
<1>2. CASE ClearQueueHold(t)
  <2>1. [task[t] EXCEPT !.i = 1] \in Chain
    BY AllParts, FieldType DEF HandoffInv
  <2> QED BY <1>1, <1>2, <2>1, ClearOnwardHandoff DEF ClearQueueHold
<1>3. CASE ClearEmitted(t)
  BY <1>1, <1>3, AllParts, ClearOnwardHandoff DEF ClearEmitted, HandoffInv
<1> QED BY <1>2, <1>3

LEMMA UnlockHandoff ==
  ASSUME HandoffInv, NEW t \in Tasks, ReleaseHold(t) \/ UnlockEmitted(t)
  PROVE  Keeps(t) /\ Moves(t)
<1>1. ~Hands(task[t]) /\ UNCHANGED <<admission, running>>
  BY DEF ReleaseHold, UnlockEmitted, Free, Hands, Later
<1>2. PICK tk \in Chain : UnlockOnward(t, tk)
  <2>1. CASE ReleaseHold(t)
    <3>1. [IdleTask EXCEPT !.i = 1, !.snap = reasons, !.rev = revision] \in Chain
      BY IdleChain, FieldType, AllParts DEF HoldOK, HandoffInv
    <3> QED BY <2>1, <3>1 DEF ReleaseHold
  <2>2. CASE UnlockEmitted(t)
    BY <2>2, AllParts DEF UnlockEmitted, HandoffInv
  <2> QED BY <2>1, <2>2
<1>3. \/ task' = [task EXCEPT ![t] = IdleTask]
      \/ \E i, a, k : task' = [task EXCEPT ![t] = [tk EXCEPT !.pc = "unlocking", !.i = i,
                                                            !.ahead = a, !.kept = k]]
  <2> DEFINE onward  == {j \in DOMAIN queue : tk.i # 0 /\ j >= tk.i /\ Held(queue[j])}
             locked  == {j \in onward : held[queue[j]] = "lock"}
             skipped == {k \in onward \ locked : locked = {} \/ k < Min(locked)}
             kept    == tk.kept \union {held[queue[k]] : k \in skipped}
             ahead   == IF skipped = {} THEN tk.ahead ELSE held[queue[Max(skipped)]]
  <2>1. CASE locked # {}
    <3>1. task' = [task EXCEPT ![t] = [tk EXCEPT !.pc = "unlocking", !.i = Min(locked) + 1,
                                                 !.ahead = ahead, !.kept = kept]]
      BY <1>2, <2>1 DEF UnlockOnward
    <3> HIDE DEF locked, ahead, kept
    <3> QED BY <3>1
  <2>2. CASE locked = {}
    BY <1>2, <2>2 DEF UnlockOnward
  <2> QED BY <2>1, <2>2
<1>4. CASE task' = [task EXCEPT ![t] = IdleTask]
  <2>1. ~Hands(IdleTask) /\ IdleTask.pc \notin Working
    BY DEF IdleTask, Hands, Later
  <2> QED BY <1>1, <1>4, <2>1, OutsideKeeps DEF HandoffInv
<1>5. CASE \E i, a, k : task' = [task EXCEPT ![t] = [tk EXCEPT !.pc = "unlocking", !.i = i,
                                                              !.ahead = a, !.kept = k]]
  <2>1. PICK i, a, k : task' = [task EXCEPT ![t] = [tk EXCEPT !.pc = "unlocking", !.i = i,
                                                              !.ahead = a, !.kept = k]]
    BY <1>5
  <2> DEFINE c == [tk EXCEPT !.pc = "unlocking", !.i = i, !.ahead = a, !.kept = k]
  <2>2. c.pc = "unlocking"
    BY DEF Chain
  <2>3. ~Hands(c)
    <3> HIDE DEF c
    <3> QED BY <2>2 DEF Hands, Later
  <2> QED BY <1>1, <2>1, <2>2, <2>3, OutsideKeeps DEF HandoffInv
<1> QED BY <1>3, <1>4, <1>5

LEMMA SubmitHeldHandoff ==
  ASSUME HandoffInv, NEW t \in Tasks, NEW e, NEW r, SubmitHeld(t, e, r)
  PROVE  Keeps(t) /\ Moves(t)
<1>1. /\ ~Hands([IdleTask EXCEPT !.pc = "queuedHeld", !.reason = r])
      /\ [IdleTask EXCEPT !.pc = "queuedHeld", !.reason = r].pc \notin Working
  BY DEF IdleTask, Hands, Later
<1>2. ~Hands(task[t])
  BY DEF SubmitHeld, Free, Hands, Later
<1> QED BY <1>1, <1>2, OutsideKeeps DEF SubmitHeld, HandoffInv

LEMMA StartsEditHandoff ==
  ASSUME HandoffInv, NEW t \in Tasks, NEW e,
         EditsEntry(t, e) \/ EditsSteer(t, e) \/ Retry(t, e)
  PROVE  Keeps(t)
<1>1. PICK op, before : EnterEdit(t, op, e, before)
  BY DEF EditsEntry, EditsSteer, Retry
<1> DEFINE c == [IdleTask EXCEPT !.pc = "editing", !.ctx = "edit",
                                 !.op = op, !.entry = e, !.prev = before]
<1>2. ~Hands(c)
  BY DEF IdleTask, Hands, Later
<1>3. ~Hands(task[t])
  BY <1>1 DEF EnterEdit, Free, Hands, Later
<1>4. task' = [task EXCEPT ![t] = c] /\ UNCHANGED <<admission, running>>
  BY <1>1 DEF EnterEdit
<1> HIDE DEF c
<1> QED BY <1>2, <1>3, <1>4, OutsideKeeps DEF HandoffInv

-----------------------------------------------------------------------------
(* Actions that begin a handoff find the admission idle. *)

LEMMA BeginIdle ==
  ASSUME NEW a, a.phase = "idle", NEW t, NEW kind
  PROVE  Begin(a, t, kind).phase # "idle" /\ Begin(a, t, kind).attempt = t
BY DEF Begin, IdleAdmission

LEMMA StartEntryBegins ==
  ASSUME HandoffInv, NEW t \in Tasks, NEW e, NEW ctx, StartEntry(t, e, ctx),
         admission.phase = "idle", running = NoTurn, ~GateHolds(e), UNCHANGED running
  PROVE  Begins(t)
<1> DEFINE c == [IdleTask EXCEPT !.pc = "starting", !.ctx = ctx, !.entry = e]
<1>1. task' = [task EXCEPT ![t] = c] /\ admission' = Begin(admission, t, "start")
  BY DEF StartEntry
<1>2. c.pc = "starting" /\ c.entry = e
  BY DEF IdleTask
<1> HIDE DEF c
<1>3. Others(t) /\ task'[t] = c
  BY <1>1, OnlyOne DEF HandoffInv
<1> QED BY <1>1, <1>2, <1>3, BeginIdle DEF Begins, Hands

LEMMA StartNowHandoff ==
  ASSUME HandoffInv, NEW t \in Tasks, NEW e, StartNow(t, e)
  PROVE  Begins(t)
BY StartEntryBegins DEF StartNow, CanStartImmediately

LEMMA SubmitSteerHandoff ==
  ASSUME HandoffInv, NEW t \in Tasks, SubmitSteer(t)
  PROVE  Begins(t) \/ (Keeps(t) /\ Moves(t))
<1>1. \/ /\ StartEntry(t, task[t].entry, "edit")
         /\ admission.phase = "idle" /\ running = NoTurn /\ ~GateHolds(task[t].entry)
      \/ task' = [task EXCEPT ![t].pc = "leaving"] /\ UNCHANGED admission
  BY DEF SubmitSteer
<1>2. UNCHANGED running /\ task[t].pc = "editing"
  BY DEF SubmitSteer, MayEdit
<1>3. CASE /\ StartEntry(t, task[t].entry, "edit")
           /\ admission.phase = "idle" /\ running = NoTurn /\ ~GateHolds(task[t].entry)
  BY <1>2, <1>3, StartEntryBegins
<1>4. CASE task' = [task EXCEPT ![t].pc = "leaving"] /\ UNCHANGED admission
  <2> DEFINE c == [task[t] EXCEPT !.pc = "leaving"]
  <2>1. c.pc = "leaving"
    BY AllParts DEF Chain, HandoffInv
  <2>2. task' = [task EXCEPT ![t] = c]
    BY <1>4
  <2> HIDE DEF c
  <2>3. ~Hands(c) /\ ~Hands(task[t])
    BY <1>2, <2>1 DEF Hands, Later
  <2> QED BY <1>2, <1>4, <2>1, <2>2, <2>3, OutsideKeeps DEF HandoffInv
<1> QED BY <1>1, <1>3, <1>4

LEMMA ClaimHandoff ==
  ASSUME HandoffInv, NEW t \in Tasks, NEW ctx, NEW can, Claim(t, ctx, can)
  PROVE  Begins(t)
<1> DEFINE e     == Dispatchable(can)
           q     == RemoveAt(queue, NextWaiting(queue))
           steer == Steerable(e, can)
           kind  == IF steer THEN "steer" ELSE "start"
           d     == Detached(task, q)
<1>1. PICK c : /\ c.pc = (IF steer THEN "steering" ELSE "starting")
               /\ c.entry = e
               /\ task' = [d EXCEPT ![t] = c]
  <2> DEFINE c == [IdleTask EXCEPT !.pc = IF steer THEN "steering" ELSE "starting",
                                   !.ctx = ctx, !.entry = e,
                                   !.rev = IF steer THEN revision' ELSE 0,
                                   !.prev = IF NextWaiting(queue) > 1
                                            THEN queue[NextWaiting(queue) - 1] ELSE NoEntry]
  <2>1. task' = [d EXCEPT ![t] = c]
    BY DEF Claim
  <2> HIDE DEF steer, e, d
  <2>2. c.pc = (IF steer THEN "steering" ELSE "starting") /\ c.entry = e
    BY DEF IdleTask
  <2> QED BY <2>1, <2>2
<1>2. admission' = Begin(admission, t, kind) /\ UNCHANGED running /\ e # NoEntry
  BY DEF Claim
<1>3. admission.phase = "idle" /\ (~steer => running = NoTurn) /\ ~GateHolds(e)
  BY <1>2 DEF Dispatchable
<1>4. /\ d \in [Tasks -> Chain]
      /\ \A u \in Tasks : /\ d[u].pc = task[u].pc /\ d[u].then = task[u].then
                          /\ d[u].entry = task[u].entry /\ d[u].op = task[u].op
                          /\ d[u].ctx = task[u].ctx /\ d[u].prev = task[u].prev
                          /\ d[u].reason = task[u].reason /\ d[u].early = task[u].early
  BY AllParts, DetachedType DEF HandoffInv
<1> HIDE DEF d, steer, q, e
<1>5. Others(t) /\ task'[t] = c
  BY <1>1, <1>4 DEF Others, Hands
<1>6. admission'.phase # "idle" /\ admission'.attempt = t
  BY <1>2, <1>3, BeginIdle
<1> QED BY <1>1, <1>2, <1>3, <1>5, <1>6 DEF Begins, Hands

-----------------------------------------------------------------------------
(* Actions of no chain. *)

LEMMA CancelEntryHandoff ==
  ASSUME HandoffInv, NEW e, CancelEntry(e)
  PROVE  Good
<1>1. \A u \in Tasks : task'[u].pc = task[u].pc /\ task'[u].then = task[u].then
  BY AllParts, DetachedType DEF CancelEntry, HandoffInv
<1>2. UNCHANGED <<admission, running>>
  BY DEF CancelEntry
<1>3. \A u \in Tasks : InHandoff(u)' <=> InHandoff(u)
  BY <1>1 DEF InHandoff, InFlight
<1>4. OneHandoff' /\ StartsAlone'
  BY <1>1, <1>2, <1>3 DEF OneHandoff, StartsAlone, HandoffInv
<1> QED BY <1>1, <1>4 DEF Good, ThroughGate

LEMMA BufferedHandoff ==
  ASSUME HandoffInv, NEW n, ReleaseBuffered(n)
  PROVE  Good
<1>1. SameAdmission
  BY AllParts DEF ReleaseBuffered, RecordTerminal, Admission, SameAdmission, HandoffInv
<1> QED BY <1>1, RestsHandoff DEF ReleaseBuffered, NoNewRunning, HandoffInv

LEMMA ElsewhereHandoff ==
  ASSUME HandoffInv, UNCHANGED <<task, admission, running>>
  PROVE  Good
BY RestsHandoff DEF SameAdmission, NoNewRunning, HandoffInv

-----------------------------------------------------------------------------
LEMMA HandoffInit == Init => HandoffInv
<1> SUFFICES ASSUME Init PROVE HandoffInv
  OBVIOUS
<1>1. \A t \in Tasks : ~Hands(task[t]) /\ task[t].pc # "starting"
  BY DEF Init, IdleTask, Hands, Later
<1>2. OneHandoff
  BY <1>1, HandsIsInHandoff DEF OneHandoff, Init, IdleAdmission
<1> QED BY <1>1, <1>2, TypeInit DEF HandoffInv, StartsAlone

LEMMA HandoffNext == HandoffInv /\ [Next]_vars => HandoffInv' /\ ThroughGate
<1> SUFFICES ASSUME HandoffInv, [Next]_vars PROVE HandoffInv' /\ ThroughGate
  OBVIOUS
<1>1. TypeOK'
  BY TypeNext DEF HandoffInv
<1>2. ASSUME NEW t \in Tasks, Keeps(t) \/ Begins(t) \/ Ends(t)
      PROVE  Good
  BY <1>2, KeepsHandoff, BeginsHandoff, EndsHandoff DEF HandoffInv
<1>3. ASSUME NEW t \in Tasks, Proceed(t)  PROVE Good
  <2>1. CASE StartNext(t)
    <3>1. CASE \E can \in BOOLEAN : Claim(t, task[t].ctx, can)
      BY <1>2, <3>1, ClaimHandoff
    <3>2. CASE Return(t) /\ UNCHANGED handoff
      <4>1. Others(t) /\ ~Hands(task'[t])
        BY <3>2, ReturnEnds DEF HandoffInv
      <4>2. ~Hands(task[t])
        BY <2>1 DEF StartNext, Hands, Later
      <4>3. Keeps(t)
        BY <3>2, <4>1, <4>2 DEF Keeps, SameChain, SameAdmission, NoNewRunning, Hands
      <4> QED BY <1>2, <4>3
    <3> QED BY <2>1, <3>1, <3>2 DEF StartNext
  <2>2. CASE StartFinished(t) \/ SteerBack(t)
    BY <1>2, <2>2, FinishedHandoff
  <2>3. CASE ReleaseRefused(t)
    BY <1>2, <2>3, ReleaseRefusedHandoff
  <2>4. CASE MoveEntry(t) \/ PauseEntry(t) \/ ResumeEntry(t) \/ SteerLeaves(t, "left")
    BY <1>2, <2>4, EditHandoff
  <2>5. CASE SubmitSteer(t)
    BY <1>2, <2>5, SubmitSteerHandoff
  <2>6. CASE ClearQueueHold(t)
    BY <1>2, <2>6, ClearHandoff
  <2> QED BY <1>3, <2>1, <2>2, <2>3, <2>4, <2>5, <2>6 DEF Proceed
<1>4. ASSUME Submission  PROVE Good
  <2>1. CASE \E e \in Entries : Enqueue(e) \/ SubmitProjectHeld(e)
    BY <2>1, ElsewhereHandoff DEF Enqueue, SubmitProjectHeld
  <2>2. CASE \E e \in Entries : CancelEntry(e)
    BY <2>2, CancelEntryHandoff
  <2>3. CASE \E t \in Tasks, e \in Entries : StartNow(t, e)
    BY <1>2, <2>3, StartNowHandoff
  <2>4. CASE \E t \in Tasks, e \in Entries : EditsEntry(t, e) \/ EditsSteer(t, e) \/ Retry(t, e)
    BY <1>2, <2>4, StartsEditHandoff
  <2>5. CASE \E t \in Tasks, e \in Entries : \E r \in {"lock", "review"} : SubmitHeld(t, e, r)
    BY <1>2, <2>5, SubmitHeldHandoff
  <2>6. CASE \E t \in Tasks : ReleaseHold(t)
    BY <1>2, <2>6, UnlockHandoff
  <2>7. CASE (\E e \in Entries : EditInput(e)) \/ ScheduleThreadDrain \/ Close
    BY <2>7, ElsewhereHandoff DEF EditInput, ScheduleThreadDrain, Close
  <2> QED BY <1>4, <2>1, <2>2, <2>3, <2>4, <2>5, <2>6, <2>7 DEF Submission
<1>5. ASSUME NEW t \in Tasks, Emitted(t)  PROVE Good
  BY <1>2, <1>5, HoldEmittedHandoff, BlockedHandoff, ClearHandoff, UnlockHandoff,
     StartEmittedHandoff, TerminalEmittedHandoff, FinishedHandoff, EditHandoff DEF Emitted
<1>6. ASSUME NEW t \in Tasks, Answer(t)  PROVE Good
  BY <1>2, <1>6, AcknowledgedHandoff, DirectStartRejectedHandoff, SteerAcceptedHandoff,
     RejectedHandoff, SteerDeclinedHandoff DEF Answer
<1>7. ASSUME NEW n \in notices, Report(n)  PROVE Good
  <2>1. CASE ReleaseIgnored(n) \/ ReleaseCoalesced(n)
    BY <2>1, ElsewhereHandoff DEF ReleaseIgnored, ReleaseCoalesced
  <2> QED BY <1>2, <1>7, <2>1, BufferedHandoff, ReleaseHandoff DEF Report
<1>8. ASSUME DrainFires  PROVE Good
  <2>1. CASE \E can \in BOOLEAN, t \in Tasks : Claim(t, "drain", can)
    BY <1>2, <2>1, ClaimHandoff
  <2>2. CASE UNCHANGED <<task, admission, running>>
    BY <2>2, ElsewhereHandoff
  <2> QED BY <1>8, <2>1, <2>2 DEF DrainFires
<1>9. ASSUME Backend \/ GateDue \/ GateOpens \/ GateQuiets \/ UNCHANGED vars
      PROVE  Good
  <2>1. UNCHANGED <<task, admission, running>>
    BY <1>9 DEF Backend, TurnBegins, ExternalTurnBegins, IdleReported, TurnEnds,
                OutcomeRepeated, Notify, GateDue, GateOpens, GateQuiets, GateMoves, vars
  <2> QED BY <2>1, ElsewhereHandoff
<1>10. Good
  BY <1>3, <1>4, <1>5, <1>6, <1>7, <1>8, <1>9 DEF Next
<1> QED BY <1>1, <1>10 DEF HandoffInv, Good

(* Two promise chains never hand entries to the backend at once, and the   *)
(* admission is the one of the chain in the handoff (startEntry, startNext *)
(* and the methods they await).                                            *)
THEOREM HandoffIsExclusive == Spec => []OneHandoff
<1>1. HandoffInv => OneHandoff
  BY DEF HandoffInv
<1> QED BY <1>1, HandoffInit, HandoffNext, PTL DEF Spec

(* No chain asks the backend for a turn while the queue has one running,   *)
(* whichever path started it: a submit, a drain, a release or a retry.     *)
THEOREM StartsNeverOverlap == Spec => []StartsAlone
<1>1. HandoffInv => StartsAlone
  BY DEF HandoffInv
<1> QED BY <1>1, HandoffInit, HandoffNext, PTL DEF Spec

(* No path hands an entry to the backend while the restart gate holds it:  *)
(* every claim of the admission (submit, submitSteer, startNext) asks the  *)
(* gate in the same step.                                                  *)
THEOREM StartsRespectGate == Spec => StartsThroughGate
<1>1. HandoffInv /\ [Next]_vars =>
        [\A t \in Tasks :
           task'[t].pc \in {"starting", "steering"} /\ task[t].pc # task'[t].pc
             => ~GateHolds(task'[t].entry)]_vars
  BY HandoffNext DEF ThroughGate
<1> QED BY <1>1, HandoffInit, HandoffNext, PTL DEF Spec, StartsThroughGate

-----------------------------------------------------------------------------
(* One chain at a time runs releaseThread.  It is in the handoff, or will   *)
(* look at the FIFO, or its start was refused.                              *)

Releases(c) == c.ctx = "release"

Looks(c) == c.pc = "next" \/ (c.pc \in {"ended", "holding"} /\ c.then = "next")

GivesUp(c) == c.pc = "refused" \/ (c.pc \in {"ended", "holding"} /\ c.then = "refused")

Proper(c) ==
  /\ Releases(c) => Looks(c) \/ RefusedRelease(c) \/ Hands(c)
  /\ GivesUp(c) => Releases(c)
  /\ c.pc = "holding" => c.reason \in Reasons

Releasers ==
  /\ \A t \in Tasks : Proper(task[t])
  /\ \A t, u \in Tasks : Releases(task[t]) /\ Releases(task[u]) => t = u
  /\ releasing <=> \E t \in Tasks : Releases(task[t])

ReleaseInv == HandoffInv /\ Releasers

(* What a step may do to the release. *)
KeepsRelease(t) ==
  /\ Others(t) /\ Proper(task'[t]) /\ UNCHANGED releasing
  /\ Releases(task'[t]) <=> Releases(task[t])

EndsRelease(t) ==
  /\ Others(t) /\ Proper(task'[t]) /\ ~Releases(task'[t])
  /\ IF Releases(task[t]) THEN ~releasing' ELSE UNCHANGED releasing

BeginsRelease(t) ==
  /\ Others(t) /\ Proper(task'[t]) /\ Releases(task'[t])
  /\ ~releasing /\ releasing'

LEMMA OthersProper ==
  ASSUME Releasers, NEW t \in Tasks, Others(t)
  PROVE  \A u \in Tasks \ {t} : Proper(task'[u]) /\ (Releases(task'[u]) <=> Releases(task[u]))
BY DEF Releasers, Others, Proper, Releases, Looks, GivesUp, RefusedRelease

LEMMA ReleaseGoesOn ==
  ASSUME Releasers, NEW t \in Tasks, KeepsRelease(t) \/ EndsRelease(t) \/ BeginsRelease(t)
  PROVE  Releasers'
<1>1. Others(t) /\ Proper(task'[t])
  BY DEF KeepsRelease, EndsRelease, BeginsRelease
<1>2. \A u \in Tasks : Proper(task'[u])
  BY <1>1, OthersProper
<1>3. \A u \in Tasks \ {t} : Releases(task'[u]) <=> Releases(task[u])
  BY <1>1, OthersProper
<1>4. \A u, v \in Tasks : Releases(task'[u]) /\ Releases(task'[v]) => u = v
  BY <1>3 DEF Releasers, KeepsRelease, EndsRelease, BeginsRelease
<1>5. releasing' <=> \E u \in Tasks : Releases(task'[u])
  BY <1>3 DEF Releasers, KeepsRelease, EndsRelease, BeginsRelease
<1> QED BY <1>2, <1>4, <1>5 DEF Releasers

(* No chain moves. *)
LEMMA ReleaseRests ==
  ASSUME Releasers, UNCHANGED releasing,
         \A u \in Tasks : /\ task'[u].pc = task[u].pc /\ task'[u].ctx = task[u].ctx
                          /\ task'[u].then = task[u].then /\ task'[u].reason = task[u].reason
  PROVE  Releasers'
<1>1. \A u \in Tasks : Releases(task'[u]) <=> Releases(task[u])
  BY DEF Releases
<1>2. \A u \in Tasks : Proper(task'[u])
  BY DEF Releasers, Proper, Releases, Looks, GivesUp, RefusedRelease, Hands
<1> QED BY <1>1, <1>2 DEF Releasers

(* A chain goes on at `then`, at once or after it walked the FIFO. *)
Walks(c, ctx, then) ==
  \/ then = "idle" /\ c = IdleTask
  \/ then # "idle" /\ c.pc = then /\ c.ctx = ctx
  \/ c.pc = "holding" /\ c.then = then /\ c.ctx = ctx /\ c.reason \in Reasons

Ended(c, ctx, then) == c.pc = "ended" /\ c.then = then /\ c.ctx = ctx

HeldGrows == \A x \in Entries : Held(x) => Held(x)'

LEMMA IdleProper == Proper(IdleTask) /\ ~Releases(IdleTask)
BY DEF IdleTask, Proper, Releases, GivesUp

LEMMA WalksProper ==
  ASSUME NEW c, NEW ctx, NEW then \in Onward,
         Walks(c, ctx, then) \/ (Ended(c, ctx, then) /\ then # "refused"),
         ctx = "release" => then \in Later \union {"next", "refused"},
         then = "refused" => ctx = "release"
  PROVE  Proper(c) /\ (Releases(c) <=> ctx = "release")
<1>1. CASE then = "idle" /\ c = IdleTask
  BY <1>1, IdleProper DEF Later
<1>2. CASE ~(then = "idle" /\ c = IdleTask)
  BY <1>2 DEF Walks, Ended, Proper, Releases, Looks, GivesUp, RefusedRelease, Hands, Later, Onward
<1> QED BY <1>1, <1>2

LEMMA GotoWalks ==
  ASSUME TypeOK, NEW t \in Tasks, NEW tk, NEW then \in Onward,
         task' = [task EXCEPT ![t] = Goto(tk, then)]
  PROVE  Walks(task'[t], tk.ctx, then)
<1> DEFINE c == [IdleTask EXCEPT !.pc = then, !.ctx = tk.ctx, !.entry = tk.entry, !.early = tk.early]
<1>1. c.pc = then /\ c.ctx = tk.ctx
  BY DEF IdleTask
<1> HIDE DEF c
<1>2. Goto(tk, then) = IF then = "idle" THEN IdleTask ELSE c
  BY DEF Goto, c
<1>3. task'[t] = Goto(tk, then)
  BY OnlyOne
<1> QED BY <1>1, <1>2, <1>3 DEF Walks

LEMMA HoldOnwardWalks ==
  ASSUME TypeOK, NEW t \in Tasks, NEW tk \in Chain, tk.reason \in Reasons, NEW q,
         HoldOnward(t, tk, q)
  PROVE  Walks(task'[t], tk.ctx, tk.then) /\ HeldGrows
<1>1. tk.then \in Onward
  BY DEF Chain
<1>2. CASE HoldTargets(q, tk) = {}
  <2>1. task' = [task EXCEPT ![t] = Goto(tk, tk.then)] /\ UNCHANGED held
    BY <1>2 DEF HoldOnward
  <2> QED BY <1>1, <2>1, GotoWalks DEF HeldGrows, Held
<1>3. CASE HoldTargets(q, tk) # {}
  <2>1. PICK j : /\ task' = [task EXCEPT ![t] = [tk EXCEPT !.pc = "holding", !.i = j + 1]]
                 /\ held' = [held EXCEPT ![q[j]] = tk.reason]
    BY <1>3 DEF HoldOnward
  <2> DEFINE c == [tk EXCEPT !.pc = "holding", !.i = j + 1]
  <2>2. c.pc = "holding" /\ c.then = tk.then /\ c.ctx = tk.ctx /\ c.reason = tk.reason
    BY DEF Chain
  <2>3. task'[t] = c
    BY <2>1, OnlyOne
  <2> HIDE DEF c
  <2>4. HeldGrows
    <3>1. tk.reason # NoReason
      BY DEF Reasons, NoReason
    <3>2. held \in [Entries -> AnyReason]
      BY AllParts DEF FifoOK
    <3> QED BY <2>1, <3>1, <3>2 DEF HeldGrows, Held
  <2> QED BY <2>2, <2>3, <2>4 DEF Walks
<1> QED BY <1>2, <1>3

LEMMA HoldQueueWalks ==
  ASSUME TypeOK, NEW t \in Tasks, NEW tk \in Chain, NEW r \in Reasons, NEW keep \in BOOLEAN,
         NEW then \in Onward, HoldQueue(t, tk, r, keep, then)
  PROVE  Walks(task'[t], tk.ctx, then) /\ HeldGrows
<1>1. CASE queue = << >>
  BY <1>1, GotoWalks DEF HoldQueue, HeldGrows, Held
<1>2. CASE queue # << >>
  <2> DEFINE loop == [tk EXCEPT !.reason = r, !.keep = keep, !.then = then, !.i = 1]
  <2>1. loop \in Chain
    <3>1. r \in AnyReason /\ 1 \in Nat
      BY DEF AnyReason
    <3> QED BY <3>1, FieldType
  <2>2. loop.then = then /\ loop.reason = r /\ loop.ctx = tk.ctx
    BY DEF Chain
  <2>3. HoldOnward(t, loop, queue)
    BY <1>2 DEF HoldQueue
  <2> HIDE DEF loop
  <2> QED BY <2>1, <2>2, <2>3, HoldOnwardWalks
<1> QED BY <1>1, <1>2

LEMMA FailureWalks ==
  ASSUME TypeOK, NEW t \in Tasks, NEW tk \in Chain, NEW then \in Onward,
         HoldAfterTurnFailure(t, tk, then)
  PROVE  Walks(task'[t], tk.ctx, then) /\ HeldGrows
<1>1. "failed" \in Reasons /\ FALSE \in BOOLEAN
  BY DEF Reasons
<1>2. CASE HoldQueue(t, tk, "failed", FALSE, then)
  BY <1>1, <1>2, HoldQueueWalks
<1>3. CASE task' = [task EXCEPT ![t] = Goto(tk, then)] /\ UNCHANGED held
  BY <1>3, GotoWalks DEF HeldGrows, Held
<1> QED BY <1>2, <1>3 DEF HoldAfterTurnFailure

LEMMA SettleReleaseWalks ==
  ASSUME TypeOK, NEW t \in Tasks, NEW tk \in Chain, NEW u \in AnyTurn,
         NEW s \in Statuses, NEW then \in Onward, SettleRelease(t, tk, u, s, then)
  PROVE  /\ Walks(task'[t], tk.ctx, then) \/ Ended(task'[t], tk.ctx, then)
         /\ HeldGrows /\ Others(t)
<1> DEFINE ended == [tk EXCEPT !.turn = u, !.status = s, !.then = then]
           c     == [ended EXCEPT !.pc = "ended"]
<1>1. ended \in Chain /\ ended.then = then /\ ended.ctx = tk.ctx
  <2>1. ended \in Chain
    BY FieldType
  <2>2. ended.then = then /\ ended.ctx = tk.ctx
    BY DEF Chain
  <2> QED BY <2>1, <2>2
<1> HIDE DEF ended
<1>2. Others(t)
  BY SettleReleaseOnwards DEF Onwards
<1>3. CASE task' = [task EXCEPT ![t] = c] /\ UNCHANGED held
  <2>1. c.pc = "ended" /\ c.then = then /\ c.ctx = tk.ctx
    BY <1>1 DEF Chain
  <2>2. task'[t] = c
    BY <1>3, OnlyOne
  <2> HIDE DEF c
  <2> QED BY <1>2, <1>3, <2>1, <2>2 DEF Ended, HeldGrows, Held
<1>4. CASE HoldAfterTurnFailure(t, ended, then)
  BY <1>1, <1>2, <1>4, FailureWalks
<1>5. CASE task' = [task EXCEPT ![t] = Goto(ended, then)] /\ UNCHANGED held
  BY <1>1, <1>2, <1>5, GotoWalks DEF HeldGrows, Held
<1> QED BY <1>3, <1>4, <1>5 DEF SettleRelease, ended

LEMMA ReturnReleases ==
  ASSUME TypeOK, NEW t \in Tasks, Return(t)
  PROVE  EndsRelease(t)
<1> DEFINE tk == task[t]
           c  == [IdleTask EXCEPT !.pc = "left", !.ctx = tk.ctx, !.entry = tk.entry, !.early = tk.early]
<1>1. Others(t)
  BY ReturnEnds DEF Moves
<1>2. task' = [task EXCEPT ![t] = Goto(tk, IF tk.ctx = "edit" THEN "left" ELSE "idle")]
  BY DEF Return
<1>3. CASE tk.ctx = "edit"
  <2>1. task'[t] = c
    <3>1. task' = [task EXCEPT ![t] = Goto(tk, "left")]
      BY <1>2, <1>3
    <3>2. task'[t] = Goto(tk, "left")
      BY <3>1, OnlyOne
    <3> QED BY <3>2 DEF Goto
  <2>2. c.pc = "left" /\ c.ctx = "edit"
    BY <1>3 DEF IdleTask
  <2> HIDE DEF c
  <2> QED BY <1>1, <1>3, <2>1, <2>2
          DEF Return, EndsRelease, Proper, Releases, GivesUp
<1>4. CASE tk.ctx # "edit"
  <2>1. task' = [task EXCEPT ![t] = Goto(tk, "idle")]
    BY <1>2, <1>4
  <2>2. task'[t] = IdleTask
    BY <2>1, OnlyOne DEF Goto
  <2> QED BY <1>1, <2>2, IdleProper DEF Return, EndsRelease, Releases
<1> QED BY <1>3, <1>4

LEMMA ReleaseParts ==
  ASSUME ReleaseInv
  PROVE  /\ TypeOK /\ HandoffInv /\ OneHandoff /\ Releasers
         /\ \A t \in Tasks : task[t] \in Chain /\ Proper(task[t])
         /\ \A t \in Tasks : task[t].pc \in Blocking => task[t].reason \in Reasons
BY AllParts, WorkFacts DEF ReleaseInv, HandoffInv, Releasers

(* The chain is moved to state c. *)
LEMMA MovedRelease ==
  ASSUME ReleaseInv, NEW t \in Tasks, NEW c, task' = [task EXCEPT ![t] = c],
         Proper(c), Releases(c) <=> Releases(task[t]), UNCHANGED releasing
  PROVE  KeepsRelease(t)
BY ReleaseParts, OnlyOne DEF KeepsRelease

LEMMA WalkKeepsRelease ==
  ASSUME ReleaseInv, NEW t \in Tasks, NEW then \in Onward, Others(t), UNCHANGED releasing,
         \/ Walks(task'[t], task[t].ctx, then)
         \/ Ended(task'[t], task[t].ctx, then) /\ then # "refused",
         task[t].ctx = "release" => then \in Later \union {"next", "refused"},
         then = "refused" => task[t].ctx = "release"
  PROVE  KeepsRelease(t)
BY WalksProper DEF KeepsRelease, Releases

LEMMA StartEmittedRelease ==
  ASSUME ReleaseInv, NEW t \in Tasks, StartEmitted(t)
  PROVE  KeepsRelease(t) \/ EndsRelease(t)
<1> DEFINE tk       == task[t]
           terminal == CHOOSE x \in TerminalOf(admission) : TRUE
<1>1. tk \in Chain
  BY ReleaseParts
<1>2. CASE TerminalOf(admission) = {} \/ admission.attempt # t
  BY <1>2, ReleaseParts, ReturnReleases DEF StartEmitted
<1>3. CASE ~(TerminalOf(admission) = {} \/ admission.attempt # t)
  <2>1. terminal.turn \in AnyTurn /\ terminal.status \in Statuses
    BY <1>3, AllParts, ReleaseParts, AdmissionType DEF Outcome
  <2>2. "finish" \in Onward /\ "finish" \in Later /\ UNCHANGED releasing
    BY <1>3 DEF StartEmitted, Onward, Later
  <2>3. CASE tk.early
    <3> DEFINE c == [tk EXCEPT !.pc = "ended", !.turn = terminal.turn,
                               !.status = terminal.status, !.then = "finish"]
    <3>1. task' = [task EXCEPT ![t] = c]
      BY <1>3, <2>3 DEF StartEmitted
    <3>2. Ended(c, tk.ctx, "finish")
      BY <1>1 DEF Chain, Ended
    <3> HIDE DEF c
    <3>3. Others(t) /\ task'[t] = c
      BY <3>1, OnlyOne, ReleaseParts
    <3> QED BY <2>2, <3>2, <3>3, WalkKeepsRelease
  <2>4. CASE ~tk.early
    <3>1. SettleRelease(t, tk, terminal.turn, terminal.status, "finish")
      BY <1>3, <2>4 DEF StartEmitted
    <3> HIDE DEF terminal
    <3>2. /\ Walks(task'[t], tk.ctx, "finish") \/ Ended(task'[t], tk.ctx, "finish")
          /\ Others(t)
      BY <1>1, <2>1, <2>2, <3>1, SettleReleaseWalks, ReleaseParts
    <3> QED BY <2>2, <3>2, WalkKeepsRelease
  <2> QED BY <2>3, <2>4
<1> QED BY <1>2, <1>3

(* What a walk, or the end of a turn, may still lead a releaseThread to. *)
LEMMA ThenOfRelease ==
  ASSUME ReleaseInv, NEW t \in Tasks, task[t].pc \in {"ended", "holding"}
  PROVE  /\ task[t].then \in Onward
         /\ task[t].ctx = "release" => task[t].then \in Later \union {"next", "refused"}
         /\ task[t].then = "refused" => task[t].ctx = "release"
         /\ task[t].pc = "ended" => task[t].then # "refused"
<1>1. task[t].then \in Onward /\ Proper(task[t])
  BY ReleaseParts DEF Chain
<1> QED BY <1>1 DEF Proper, Releases, Looks, RefusedRelease, GivesUp, Hands, Later

LEMMA WalkedWalks ==
  ASSUME ReleaseInv, NEW t \in Tasks, HoldEmitted(t) \/ TerminalEmitted(t)
  PROVE  Walks(task'[t], task[t].ctx, task[t].then) /\ HeldGrows /\ Others(t)
<1>1. task[t] \in Chain /\ TypeOK /\ task[t].then \in Onward
  BY ReleaseParts DEF Chain
<1>2. Others(t)
  BY HoldEmittedHandoff, TerminalEmittedHandoff, ReleaseParts DEF Moves
<1>3. CASE HoldEmitted(t)
  <2>1. task[t].reason \in Reasons
    BY <1>3, ReleaseParts DEF HoldEmitted, Proper
  <2> QED BY <1>1, <1>2, <1>3, <2>1, HoldOnwardWalks DEF HoldEmitted
<1>4. CASE TerminalEmitted(t) /\ task[t].status = "failed"
  BY <1>1, <1>2, <1>4, FailureWalks DEF TerminalEmitted
<1>5. CASE TerminalEmitted(t) /\ task[t].status # "failed"
  BY <1>1, <1>2, <1>5, GotoWalks DEF TerminalEmitted, HeldGrows, Held
<1> QED BY <1>3, <1>4, <1>5

LEMMA WalkedRelease ==
  ASSUME ReleaseInv, NEW t \in Tasks, HoldEmitted(t) \/ TerminalEmitted(t)
  PROVE  KeepsRelease(t)
<1>1. Walks(task'[t], task[t].ctx, task[t].then) /\ Others(t)
  BY WalkedWalks
<1>2. task[t].pc \in {"ended", "holding"} /\ UNCHANGED releasing
  BY DEF HoldEmitted, TerminalEmitted
<1> QED BY <1>1, <1>2, ThenOfRelease, WalkKeepsRelease

(* The chain holds the FIFO after a refusal, or after submitHeld. *)
LEMMA BlockedWalks ==
  ASSUME ReleaseInv, NEW t \in Tasks, BlockEmitted(t) \/ HeldEmitted(t)
  PROVE  /\ HeldGrows /\ Others(t)
         /\ Walks(task'[t], task[t].ctx, IF Releases(task[t]) THEN "refused" ELSE "idle")
<1> DEFINE then == IF Releases(task[t]) THEN "refused" ELSE "idle"
<1>1. then \in Onward /\ task[t] \in Chain /\ TypeOK
  BY ReleaseParts DEF Onward
<1>2. Others(t)
  BY BlockedHandoff, ReleaseParts DEF Moves
<1>3. task[t].reason \in Reasons
  BY ReleaseParts DEF BlockEmitted, HeldEmitted, Blocking
<1>4. HoldQueue(t, task[t], task[t].reason, TRUE, then)
  <2>1. CASE BlockEmitted(t)
    BY <2>1 DEF BlockEmitted, Releases
  <2>2. CASE HeldEmitted(t)
    <3>1. ~Releases(task[t])
      BY <2>2, ReleaseParts DEF HeldEmitted, Proper, Looks, RefusedRelease, Hands, Later
    <3> QED BY <2>2, <3>1 DEF HeldEmitted
  <2> QED BY <2>1, <2>2
<1> HIDE DEF then
<1>5. Walks(task'[t], task[t].ctx, then) /\ HeldGrows
  BY <1>1, <1>3, <1>4, HoldQueueWalks
<1> QED BY <1>2, <1>5 DEF then

LEMMA BlockedRelease ==
  ASSUME ReleaseInv, NEW t \in Tasks, BlockEmitted(t) \/ HeldEmitted(t)
  PROVE  KeepsRelease(t)
<1>1. /\ Walks(task'[t], task[t].ctx, IF Releases(task[t]) THEN "refused" ELSE "idle")
      /\ Others(t) /\ UNCHANGED releasing
  BY BlockedWalks DEF BlockEmitted, HeldEmitted
<1>2. "refused" \in Onward /\ "idle" \in Onward
  BY DEF Onward
<1> QED BY <1>1, <1>2, WalkKeepsRelease DEF Releases

LEMMA FinishedRelease ==
  ASSUME ReleaseInv, NEW t \in Tasks,
         StartFinished(t) \/ FailureEmitted(t) \/ SteerEmitted(t) \/ SteerBack(t)
  PROVE  EndsRelease(t)
BY ReturnReleases, ReleaseParts DEF StartFinished, FailureEmitted, SteerEmitted, SteerBack

LEMMA DirectStartRejectedRelease ==
  ASSUME ReleaseInv, NEW t \in Tasks, DirectStartRejected(t)
  PROVE  KeepsRelease(t)
<1>1. task[t] \in Chain /\ task[t].ctx # "release" /\ UNCHANGED releasing
  BY ReleaseParts DEF DirectStartRejected
<1>2. Others(t)
  BY DirectStartRejectedHandoff, ReleaseParts DEF Moves
<1>3. "failed" \in Onward
  BY DEF Onward
<1>4. Walks(task'[t], task[t].ctx, "failed")
  <2>1. CASE HoldAfterTurnFailure(t, task[t], "failed")
    BY <1>1, <1>3, <2>1, FailureWalks, ReleaseParts
  <2>2. CASE task' = [task EXCEPT ![t].pc = "failed"]
    <3> DEFINE c == [task[t] EXCEPT !.pc = "failed"]
    <3>1. c.pc = "failed" /\ c.ctx = task[t].ctx
      BY <1>1 DEF Chain
    <3>2. task' = [task EXCEPT ![t] = c]
      BY <2>2
    <3> HIDE DEF c
    <3>3. task'[t] = c
      BY <3>2, OnlyOne, ReleaseParts
    <3> QED BY <3>1, <3>3 DEF Walks
  <2> QED BY <2>1, <2>2 DEF DirectStartRejected
<1> QED BY <1>1, <1>2, <1>3, <1>4, WalkKeepsRelease DEF Releases

LEMMA AnsweredRelease ==
  ASSUME ReleaseInv, NEW t \in Tasks, StartAcknowledged(t) \/ SteerAccepted(t)
  PROVE  KeepsRelease(t)
<1>1. PICK c : /\ c.pc \in {"started", "steered"} /\ c.ctx = task[t].ctx
               /\ task' = [task EXCEPT ![t] = c]
  <2>1. CASE StartAcknowledged(t)
    <3> DEFINE c == [task[t] EXCEPT !.pc = "started", !.early = TerminalOf(admission') # {}]
    <3>1. c.pc = "started" /\ c.ctx = task[t].ctx
      BY ReleaseParts DEF Chain
    <3>2. task' = [task EXCEPT ![t] = c]
      BY <2>1 DEF StartAcknowledged
    <3> QED BY <3>1, <3>2
  <2>2. CASE SteerAccepted(t)
    <3> DEFINE c == [task[t] EXCEPT !.pc = "steered", !.rev = 0]
    <3>1. c.pc = "steered" /\ c.ctx = task[t].ctx
      BY ReleaseParts DEF Chain
    <3>2. task' = [task EXCEPT ![t] = c]
      BY <2>2 DEF SteerAccepted
    <3> QED BY <3>1, <3>2
  <2> QED BY <2>1, <2>2
<1>2. Proper(c) /\ UNCHANGED releasing
  BY <1>1 DEF StartAcknowledged, SteerAccepted, Proper, GivesUp, Hands
<1> QED BY <1>1, <1>2, MovedRelease DEF Releases

LEMMA RejectedRelease ==
  ASSUME ReleaseInv, NEW t \in Tasks, NEW r, QueuedStartRejected(t, r) \/ SteerRejected(t, r)
  PROVE  KeepsRelease(t)
<1> DEFINE c == [task[t] EXCEPT !.pc = "blocked", !.reason = r, !.rev = 0]
<1>1. c.pc = "blocked" /\ c.ctx = task[t].ctx
  BY ReleaseParts DEF Chain
<1>2. task' = [task EXCEPT ![t] = c] /\ UNCHANGED releasing
  BY DEF QueuedStartRejected, SteerRejected, Block
<1> HIDE DEF c
<1>3. Proper(c)
  BY <1>1 DEF Proper, Releases, RefusedRelease, GivesUp
<1> QED BY <1>1, <1>2, <1>3, MovedRelease DEF Releases

LEMMA SteerDeclinedRelease ==
  ASSUME ReleaseInv, NEW t \in Tasks, NEW retry \in BOOLEAN, SteerDeclined(t, retry)
  PROVE  KeepsRelease(t) \/ EndsRelease(t)
<1>1. CASE reasons # << >> /\ revision # task[t].rev
  <2> DEFINE tk   == [task[t] EXCEPT !.early = retry, !.rev = 0]
             loop == [tk EXCEPT !.reason = NewestReason, !.keep = TRUE,
                                !.then = "steerBack", !.i = 1]
  <2>1. HoldOnward(t, loop, queue') /\ UNCHANGED releasing
    BY <1>1 DEF SteerDeclined
  <2>2. "steerBack" \in Onward /\ "steerBack" \in Later /\ "steerBack" # "refused"
    BY DEF Onward, Later
  <2>3. tk \in Chain /\ tk.ctx = task[t].ctx
    <3>1. 0 \in Revisions
      BY MaxRevisionType DEF Revisions
    <3>2. tk \in Chain
      BY <3>1, ReleaseParts, FieldType
    <3>3. tk.ctx = task[t].ctx
      BY ReleaseParts DEF Chain
    <3> QED BY <3>2, <3>3
  <2> HIDE DEF tk
  <2>4. NewestReason \in Reasons
    BY <1>1, NewestReasonType, ReleaseParts
  <2>5. loop \in Chain
    <3>1. NewestReason \in AnyReason /\ 1 \in Nat
      BY NewestReasonType, ReleaseParts
    <3> QED BY <2>2, <2>3, <3>1, FieldType
  <2>6. loop.then = "steerBack" /\ loop.ctx = task[t].ctx /\ loop.reason = NewestReason
    BY <2>3 DEF Chain
  <2> HIDE DEF loop
  <2>7. Walks(task'[t], task[t].ctx, "steerBack")
    BY <2>1, <2>4, <2>5, <2>6, HoldOnwardWalks, ReleaseParts
  <2>8. Others(t)
    BY SteerDeclinedHandoff, ReleaseParts DEF Moves
  <2> QED BY <2>1, <2>2, <2>7, <2>8, WalkKeepsRelease
<1>2. CASE ~(reasons # << >> /\ revision # task[t].rev)
  <2>1. Return(t)
    BY <1>2 DEF SteerDeclined
  <2> QED BY <2>1, ReturnReleases, ReleaseParts
<1> QED BY <1>1, <1>2

(* A chain that is idle, edits or leaves an edit does not run releaseThread. *)
LEMMA NoRelease ==
  ASSUME ReleaseInv, NEW t \in Tasks,
         task[t].pc \in {"idle", "editing", "leaving", "left", "queuedHeld"}
  PROVE  ~Releases(task[t])
BY ReleaseParts DEF Proper, Looks, RefusedRelease, Hands, Later

LEMMA ReportedRelease ==
  ASSUME ReleaseInv, NEW t \in Tasks, NEW n, Release(t, n)
  PROVE  /\ Walks(task'[t], "release", "next") \/ Ended(task'[t], "release", "next")
         /\ HeldGrows /\ BeginsRelease(t)
<1> DEFINE tk == [IdleTask EXCEPT !.ctx = "release"]
<1>1. n.turn \in AnyTurn /\ n.status \in Statuses
  BY TakeType, ReleaseParts DEF Release, Outcome
<1>2. tk \in Chain /\ tk.ctx = "release" /\ "next" \in Onward
  <2>1. tk.ctx = "release"
    BY DEF IdleTask
  <2> QED BY <2>1, FreshRelease
<1>3. SettleRelease(t, tk, n.turn, n.status, "next")
  BY DEF Release
<1> HIDE DEF tk
<1>4. /\ Walks(task'[t], "release", "next") \/ Ended(task'[t], "release", "next")
      /\ HeldGrows /\ Others(t)
  BY <1>1, <1>2, <1>3, SettleReleaseWalks, ReleaseParts
<1>5. Proper(task'[t]) /\ Releases(task'[t])
  BY <1>2, <1>4, WalksProper
<1> QED BY <1>4, <1>5 DEF BeginsRelease, Release

LEMMA ReleaseRefusedWalks ==
  ASSUME ReleaseInv, NEW t \in Tasks, ReleaseRefused(t), pendingRelease
  PROVE  /\ Walks(task'[t], "release", "next") \/ Ended(task'[t], "release", "next")
         /\ HeldGrows /\ Others(t)
<1> DEFINE tk == [IdleTask EXCEPT !.ctx = "release"]
<1>1. tk \in Chain /\ tk.ctx = "release" /\ "next" \in Onward
  <2>1. tk.ctx = "release"
    BY DEF IdleTask
  <2> QED BY <2>1, FreshRelease
<1>2. SettleRelease(t, tk, NoTurn, "idle", "next")
  BY DEF ReleaseRefused
<1> HIDE DEF tk
<1> QED BY <1>1, <1>2, NoTurnType, SettleReleaseWalks, ReleaseParts DEF Statuses

LEMMA ReleaseRefusedRelease ==
  ASSUME ReleaseInv, NEW t \in Tasks, ReleaseRefused(t)
  PROVE  KeepsRelease(t) \/ EndsRelease(t)
<1>1. Releases(task[t])
  BY ReleaseParts DEF ReleaseRefused, Proper, GivesUp
<1>2. CASE pendingRelease
  <2>1. Walks(task'[t], "release", "next") \/ Ended(task'[t], "release", "next")
    BY <1>2, ReleaseRefusedWalks
  <2>2. Proper(task'[t]) /\ Releases(task'[t])
    BY <2>1, WalksProper DEF Onward
  <2> QED BY <1>1, <1>2, <2>2, ReleaseRefusedWalks DEF KeepsRelease, ReleaseRefused
<1>3. CASE ~pendingRelease
  <2>1. task' = [task EXCEPT ![t] = IdleTask] /\ ~releasing'
    BY <1>3 DEF ReleaseRefused
  <2>2. Others(t) /\ task'[t] = IdleTask
    BY <2>1, OnlyOne, ReleaseParts
  <2> QED BY <1>1, <2>1, <2>2, IdleProper DEF EndsRelease
<1> QED BY <1>2, <1>3

LEMMA EditRelease ==
  ASSUME ReleaseInv, NEW t \in Tasks,
         \/ MoveEntry(t) \/ PauseEntry(t) \/ ResumeEntry(t) \/ InputEdited(t)
         \/ SteerLeaves(t, "left") \/ SteerLeaves(t, "leaving")
  PROVE  KeepsRelease(t)
<1>1. task' = [task EXCEPT ![t] = IdleTask] /\ UNCHANGED releasing
  BY DEF MoveEntry, PauseEntry, ResumeEntry, InputEdited, SteerLeaves, LeaveEdit
<1>2. ~Releases(task[t])
  BY NoRelease DEF MoveEntry, PauseEntry, ResumeEntry, InputEdited, SteerLeaves, MayEdit
<1> QED BY <1>1, <1>2, IdleProper, MovedRelease

(* What clearQueueHold and releaseHold leave their chain at. *)
LEMMA ClearMoves ==
  ASSUME ReleaseInv, NEW t \in Tasks, ClearQueueHold(t) \/ ClearEmitted(t)
  PROVE  /\ Others(t) /\ UNCHANGED releasing
         /\ \/ task'[t].pc = "clearing" /\ task'[t].ctx = task[t].ctx
            \/ task'[t].pc = "next" /\ task'[t].ctx = "retry"
<1>1. PICK tk \in Chain : ClearOnward(t, tk) /\ tk.ctx = task[t].ctx
  <2>1. CASE ClearQueueHold(t)
    <3> DEFINE c == [task[t] EXCEPT !.i = 1]
    <3>1. c \in Chain
      BY ReleaseParts, FieldType
    <3>2. c.ctx = task[t].ctx
      BY ReleaseParts DEF Chain
    <3>3. ClearOnward(t, c)
      BY <2>1 DEF ClearQueueHold
    <3> QED BY <3>1, <3>2, <3>3
  <2>2. CASE ClearEmitted(t)
    BY <2>2, ReleaseParts DEF ClearEmitted
  <2> QED BY <2>1, <2>2
<1>2. UNCHANGED releasing /\ Others(t)
  BY ClearHandoff, ReleaseParts DEF ClearQueueHold, ClearEmitted, Moves
<1>3. CASE tk.i \in DOMAIN queue
  <2> DEFINE c == [tk EXCEPT !.pc = "clearing", !.i = @ + 1]
  <2>1. task' = [task EXCEPT ![t] = c]
    BY <1>1, <1>3 DEF ClearOnward
  <2>2. c.pc = "clearing" /\ c.ctx = tk.ctx
    BY DEF Chain
  <2> HIDE DEF c
  <2>3. task'[t] = c
    BY <2>1, OnlyOne, ReleaseParts
  <2> QED BY <1>1, <1>2, <2>2, <2>3
<1>4. CASE tk.i \notin DOMAIN queue
  <2> DEFINE c == [IdleTask EXCEPT !.pc = "next", !.ctx = "retry"]
  <2>1. task' = [task EXCEPT ![t] = c]
    BY <1>1, <1>4 DEF ClearOnward, LeaveEdit
  <2>2. c.pc = "next" /\ c.ctx = "retry"
    BY DEF IdleTask
  <2> HIDE DEF c
  <2>3. task'[t] = c
    BY <2>1, OnlyOne, ReleaseParts
  <2> QED BY <1>2, <2>2, <2>3
<1> QED BY <1>3, <1>4

LEMMA UnlockMoves ==
  ASSUME ReleaseInv, NEW t \in Tasks, ReleaseHold(t) \/ UnlockEmitted(t)
  PROVE  /\ Others(t) /\ UNCHANGED releasing
         /\ \/ /\ task'[t].pc = "unlocking"
               /\ Releases(task'[t]) <=> Releases(task[t])
            \/ task'[t] = IdleTask /\ ArmDrain
<1>1. PICK tk \in Chain : UnlockOnward(t, tk) /\ (tk.ctx = "release" <=> Releases(task[t]))
  <2>1. CASE ReleaseHold(t)
    <3> DEFINE c == [IdleTask EXCEPT !.i = 1, !.snap = reasons, !.rev = revision]
    <3>1. c \in Chain
      BY IdleChain, FieldType, AllParts, ReleaseParts DEF HoldOK
    <3>2. c.ctx = "direct"
      BY DEF IdleTask
    <3>3. UnlockOnward(t, c) /\ ~Releases(task[t])
      BY <2>1, NoRelease DEF ReleaseHold, Free
    <3> QED BY <3>1, <3>2, <3>3
  <2>2. CASE UnlockEmitted(t)
    BY <2>2, ReleaseParts DEF UnlockEmitted, Releases
  <2> QED BY <2>1, <2>2
<1>2. UNCHANGED releasing /\ Others(t)
  BY UnlockHandoff, ReleaseParts DEF ReleaseHold, UnlockEmitted, Moves
<1>3. \/ task' = [task EXCEPT ![t] = IdleTask] /\ ArmDrain
      \/ \E i, a, k : task' = [task EXCEPT ![t] = [tk EXCEPT !.pc = "unlocking", !.i = i,
                                                            !.ahead = a, !.kept = k]]
  <2> DEFINE onward  == {j \in DOMAIN queue : tk.i # 0 /\ j >= tk.i /\ Held(queue[j])}
             locked  == {j \in onward : held[queue[j]] = "lock"}
             skipped == {k \in onward \ locked : locked = {} \/ k < Min(locked)}
             kept    == tk.kept \union {held[queue[k]] : k \in skipped}
             ahead   == IF skipped = {} THEN tk.ahead ELSE held[queue[Max(skipped)]]
  <2>1. CASE locked # {}
    <3>1. task' = [task EXCEPT ![t] = [tk EXCEPT !.pc = "unlocking", !.i = Min(locked) + 1,
                                                 !.ahead = ahead, !.kept = kept]]
      BY <1>1, <2>1 DEF UnlockOnward
    <3> HIDE DEF locked, ahead, kept
    <3> QED BY <3>1
  <2>2. CASE locked = {}
    BY <1>1, <2>2 DEF UnlockOnward
  <2> QED BY <2>1, <2>2
<1>4. CASE task' = [task EXCEPT ![t] = IdleTask] /\ ArmDrain
  BY <1>2, <1>4, OnlyOne, ReleaseParts
<1>5. CASE \E i, a, k : task' = [task EXCEPT ![t] = [tk EXCEPT !.pc = "unlocking", !.i = i,
                                                              !.ahead = a, !.kept = k]]
  <2>1. PICK i, a, k : task' = [task EXCEPT ![t] = [tk EXCEPT !.pc = "unlocking", !.i = i,
                                                              !.ahead = a, !.kept = k]]
    BY <1>5
  <2> DEFINE c == [tk EXCEPT !.pc = "unlocking", !.i = i, !.ahead = a, !.kept = k]
  <2>2. c.pc = "unlocking" /\ c.ctx = tk.ctx
    BY DEF Chain
  <2>3. task' = [task EXCEPT ![t] = c]
    BY <2>1
  <2> HIDE DEF c
  <2>4. task'[t] = c
    BY <2>3, OnlyOne, ReleaseParts
  <2> QED BY <1>1, <1>2, <2>2, <2>4 DEF Releases
<1> QED BY <1>3, <1>4, <1>5

LEMMA WalksBackRelease ==
  ASSUME ReleaseInv, NEW t \in Tasks,
         ClearQueueHold(t) \/ ClearEmitted(t) \/ ReleaseHold(t) \/ UnlockEmitted(t)
  PROVE  KeepsRelease(t)
<1>1. CASE ClearQueueHold(t) \/ ClearEmitted(t)
  <2>1. ~Releases(task[t])
    BY <1>1, ReleaseParts DEF ClearQueueHold, ClearEmitted, MayEdit, Proper, Looks,
                              RefusedRelease, Hands, Later
  <2>2. Proper(task'[t]) /\ ~Releases(task'[t])
    BY <1>1, <2>1, ClearMoves DEF Proper, Releases, GivesUp
  <2> QED BY <1>1, <2>1, <2>2, ClearMoves DEF KeepsRelease
<1>2. CASE ReleaseHold(t) \/ UnlockEmitted(t)
  <2>1. ~Releases(task[t])
    BY <1>2, ReleaseParts DEF ReleaseHold, UnlockEmitted, Free, Proper, Looks,
                              RefusedRelease, Hands, Later
  <2>2. Proper(task'[t]) /\ ~Releases(task'[t])
    BY <1>2, <2>1, UnlockMoves, IdleProper DEF Proper, GivesUp
  <2> QED BY <1>2, <2>1, <2>2, UnlockMoves DEF KeepsRelease
<1> QED BY <1>1, <1>2

(* A chain that is not in a release turns to something else that is none.  *)
LEMMA TurnsRelease ==
  ASSUME ReleaseInv, NEW t \in Tasks, NEW c, task' = [task EXCEPT ![t] = c],
         c.pc \in {"starting", "editing", "queuedHeld", "leaving"}, c.ctx # "release",
         task[t].pc \in {"idle", "editing"}, UNCHANGED releasing
  PROVE  KeepsRelease(t)
<1>1. Proper(c) /\ ~Releases(c)
  BY DEF Proper, Releases, GivesUp
<1> QED BY <1>1, NoRelease, MovedRelease

LEMMA StartEntryRelease ==
  ASSUME ReleaseInv, NEW t \in Tasks, NEW e, NEW ctx \in {"direct", "edit"},
         StartEntry(t, e, ctx), task[t].pc \in {"idle", "editing"}, UNCHANGED releasing
  PROVE  KeepsRelease(t)
<1> DEFINE c == [IdleTask EXCEPT !.pc = "starting", !.ctx = ctx, !.entry = e]
<1>1. c.pc = "starting" /\ c.ctx = ctx
  BY DEF IdleTask
<1>2. task' = [task EXCEPT ![t] = c]
  BY DEF StartEntry
<1> HIDE DEF c
<1> QED BY <1>1, <1>2, TurnsRelease

LEMMA SubmitSteerRelease ==
  ASSUME ReleaseInv, NEW t \in Tasks, SubmitSteer(t)
  PROVE  KeepsRelease(t)
<1>1. task[t].pc = "editing" /\ UNCHANGED releasing
  BY DEF SubmitSteer, MayEdit
<1>2. CASE StartEntry(t, task[t].entry, "edit")
  BY <1>1, <1>2, StartEntryRelease
<1>3. CASE task' = [task EXCEPT ![t].pc = "leaving"]
  <2> DEFINE c == [task[t] EXCEPT !.pc = "leaving"]
  <2>1. c.pc = "leaving" /\ c.ctx = task[t].ctx
    BY ReleaseParts DEF Chain
  <2>2. task' = [task EXCEPT ![t] = c]
    BY <1>3
  <2> HIDE DEF c
  <2> QED BY <1>1, <2>1, <2>2, NoRelease, TurnsRelease DEF Releases
<1> QED BY <1>2, <1>3 DEF SubmitSteer

LEMMA SubmittedRelease ==
  ASSUME ReleaseInv, NEW t \in Tasks, NEW e,
         \/ StartNow(t, e) \/ EditsEntry(t, e) \/ EditsSteer(t, e) \/ Retry(t, e)
         \/ \E r : SubmitHeld(t, e, r)
  PROVE  KeepsRelease(t)
<1>1. CASE StartNow(t, e)
  BY <1>1, StartEntryRelease DEF StartNow, Free
<1>2. ASSUME NEW op, NEW before, EnterEdit(t, op, e, before)  PROVE KeepsRelease(t)
  <2> DEFINE c == [IdleTask EXCEPT !.pc = "editing", !.ctx = "edit",
                                   !.op = op, !.entry = e, !.prev = before]
  <2>1. c.pc = "editing" /\ c.ctx = "edit"
    BY DEF IdleTask
  <2>2. task' = [task EXCEPT ![t] = c] /\ Free(t) /\ UNCHANGED releasing
    BY <1>2 DEF EnterEdit
  <2> HIDE DEF c
  <2> QED BY <2>1, <2>2, TurnsRelease DEF Free
<1>3. ASSUME NEW r, SubmitHeld(t, e, r)  PROVE KeepsRelease(t)
  <2> DEFINE c == [IdleTask EXCEPT !.pc = "queuedHeld", !.reason = r]
  <2>1. c.pc = "queuedHeld" /\ c.ctx = "direct"
    BY DEF IdleTask
  <2>2. task' = [task EXCEPT ![t] = c] /\ Free(t) /\ UNCHANGED releasing
    BY <1>3 DEF SubmitHeld
  <2> HIDE DEF c
  <2> QED BY <2>1, <2>2, TurnsRelease DEF Free
<1> QED BY <1>1, <1>2, <1>3 DEF EditsEntry, EditsSteer, Retry

LEMMA ClaimRelease ==
  ASSUME ReleaseInv, NEW t \in Tasks, NEW ctx, NEW can, Claim(t, ctx, can),
         ctx = "release" <=> Releases(task[t])
  PROVE  KeepsRelease(t)
<1> DEFINE e == Dispatchable(can)
           d == Detached(task, RemoveAt(queue, NextWaiting(queue)))
<1>1. PICK c : /\ c.pc \in {"starting", "steering"} /\ c.ctx = ctx
               /\ task' = [d EXCEPT ![t] = c]
  <2> DEFINE c == [IdleTask EXCEPT !.pc = IF Steerable(e, can) THEN "steering" ELSE "starting",
                                   !.ctx = ctx, !.entry = e,
                                   !.rev = IF Steerable(e, can) THEN revision' ELSE 0,
                                   !.prev = IF NextWaiting(queue) > 1
                                            THEN queue[NextWaiting(queue) - 1] ELSE NoEntry]
  <2>1. task' = [d EXCEPT ![t] = c]
    BY DEF Claim
  <2> HIDE DEF e, d
  <2>2. c.pc = (IF Steerable(e, can) THEN "steering" ELSE "starting") /\ c.ctx = ctx
    BY DEF IdleTask
  <2> QED BY <2>1, <2>2
<1>2. d \in [Tasks -> Chain]
  BY AllParts, ReleaseParts, DetachedType
<1>3. Others(t)
  BY ClaimHandoff, ReleaseParts DEF Begins
<1> HIDE DEF d
<1>4. task'[t] = c
  BY <1>1, <1>2
<1>5. Proper(c) /\ (Releases(c) <=> Releases(task[t]))
  BY <1>1 DEF Proper, Releases, GivesUp, Hands
<1> QED BY <1>3, <1>4, <1>5 DEF KeepsRelease, Claim

-----------------------------------------------------------------------------
LEMMA ReleaseInit == Init => ReleaseInv
<1> SUFFICES ASSUME Init PROVE ReleaseInv
  OBVIOUS
<1>1. \A t \in Tasks : task[t] = IdleTask
  BY DEF Init
<1> QED BY <1>1, HandoffInit, IdleProper DEF ReleaseInv, Releasers, Init

LEMMA ReleaseNext == ReleaseInv /\ [Next]_vars => ReleaseInv'
<1> SUFFICES ASSUME ReleaseInv, [Next]_vars PROVE ReleaseInv'
  OBVIOUS
<1>1. HandoffInv'
  BY HandoffNext DEF ReleaseInv
<1>2. ASSUME NEW t \in Tasks, KeepsRelease(t) \/ EndsRelease(t) \/ BeginsRelease(t)
      PROVE  Releasers'
  BY <1>2, ReleaseGoesOn DEF ReleaseInv
<1>3. ASSUME NEW t \in Tasks, Proceed(t)  PROVE Releasers'
  <2>1. CASE StartNext(t)
    <3>1. CASE \E can \in BOOLEAN : Claim(t, task[t].ctx, can)
      BY <1>2, <3>1, ClaimRelease DEF Releases
    <3>2. CASE Return(t)
      BY <1>2, <3>2, ReturnReleases, ReleaseParts
    <3> QED BY <2>1, <3>1, <3>2 DEF StartNext
  <2> QED BY <1>2, <1>3, <2>1, FinishedRelease, ReleaseRefusedRelease, EditRelease,
             SubmitSteerRelease, WalksBackRelease DEF Proceed
<1>4. ASSUME Submission  PROVE Releasers'
  <2>1. CASE \E e \in Entries : Enqueue(e) \/ SubmitProjectHeld(e)
    BY <2>1, ReleaseRests, ReleaseParts DEF Enqueue, SubmitProjectHeld
  <2>2. CASE \E e \in Entries : CancelEntry(e)
    <3>1. \A u \in Tasks : /\ task'[u].pc = task[u].pc /\ task'[u].ctx = task[u].ctx
                           /\ task'[u].then = task[u].then /\ task'[u].reason = task[u].reason
      BY <2>2, AllParts, ReleaseParts, DetachedType DEF CancelEntry
    <3> QED BY <2>2, <3>1, ReleaseRests, ReleaseParts DEF CancelEntry
  <2>3. CASE \E t \in Tasks, e \in Entries :
               \/ StartNow(t, e) \/ EditsEntry(t, e) \/ EditsSteer(t, e) \/ Retry(t, e)
               \/ \E r \in {"lock", "review"} : SubmitHeld(t, e, r)
    BY <1>2, <2>3, SubmittedRelease
  <2>4. CASE \E t \in Tasks : ReleaseHold(t)
    BY <1>2, <2>4, WalksBackRelease
  <2>5. CASE (\E e \in Entries : EditInput(e)) \/ ScheduleThreadDrain \/ Close
    BY <2>5, ReleaseRests, ReleaseParts DEF EditInput, ScheduleThreadDrain, Close
  <2> QED BY <1>4, <2>1, <2>2, <2>3, <2>4, <2>5 DEF Submission
<1>5. ASSUME NEW t \in Tasks, Emitted(t)  PROVE Releasers'
  BY <1>2, <1>5, WalkedRelease, BlockedRelease, WalksBackRelease, StartEmittedRelease,
     FinishedRelease, EditRelease DEF Emitted
<1>6. ASSUME NEW t \in Tasks, Answer(t)  PROVE Releasers'
  BY <1>2, <1>6, AnsweredRelease, DirectStartRejectedRelease, RejectedRelease,
     SteerDeclinedRelease DEF Answer
<1>7. ASSUME NEW n \in notices, Report(n)  PROVE Releasers'
  <2>1. CASE ReleaseBuffered(n) \/ ReleaseIgnored(n) \/ ReleaseCoalesced(n)
    BY <2>1, ReleaseRests, ReleaseParts DEF ReleaseBuffered, ReleaseIgnored, ReleaseCoalesced
  <2> QED BY <1>2, <1>7, <2>1, ReportedRelease DEF Report
<1>8. ASSUME DrainFires  PROVE Releasers'
  <2>1. CASE \E can \in BOOLEAN, t \in Tasks : Free(t) /\ Claim(t, "drain", can)
    BY <1>2, <2>1, ClaimRelease, NoRelease DEF Free
  <2>2. CASE UNCHANGED <<release, task>>
    BY <2>2, ReleaseRests, ReleaseParts
  <2> QED BY <1>8, <2>1, <2>2 DEF DrainFires
<1>9. ASSUME Backend \/ GateDue \/ GateOpens \/ GateQuiets \/ UNCHANGED vars
      PROVE  Releasers'
  <2>1. UNCHANGED <<task, releasing>>
    BY <1>9 DEF Backend, TurnBegins, ExternalTurnBegins, IdleReported, TurnEnds,
                OutcomeRepeated, Notify, GateDue, GateOpens, GateQuiets, GateMoves, vars
  <2> QED BY <2>1, ReleaseRests, ReleaseParts
<1>10. Releasers'
  BY <1>3, <1>4, <1>5, <1>6, <1>7, <1>8, <1>9 DEF Next
<1> QED BY <1>1, <1>10 DEF ReleaseInv

-----------------------------------------------------------------------------
(* The outcome of a turn is not known before the turn is over: the turn the *)
(* backend runs, and the one it is asked to start, are not among those the  *)
(* queue was told the outcome of.                                           *)

Seen == processed \union {n.turn : n \in notices} \union {x.turn : x \in admission.terminals}

Asking(t) == task[t].pc = "starting" /\ ~began

TurnsKnown ==
  /\ \A u \in Seen : u[2] <= starts[u[1]]
  /\ active # NoTurn => active \notin Seen /\ active[2] <= starts[active[1]]
  /\ \A t \in Tasks : Asking(t) =>
       TurnOf(task[t].entry) \notin Seen /\ TurnOf(task[t].entry) # active

TurnInv == HandoffInv /\ TurnsKnown

(* What a step may do to the turns. *)
NoNewAsking == \A t \in Tasks : Asking(t)' => Asking(t) /\ task'[t].entry = task[t].entry

NoneAsking == \A t \in Tasks : ~Asking(t)'

TurnsKept ==
  /\ NoNewAsking /\ UNCHANGED starts /\ active' \in {active, NoTurn}
  /\ Seen' \subseteq Seen \union {NoTurn}

TurnOver ==
  /\ NoNewAsking /\ UNCHANGED starts /\ active' = NoTurn
  /\ Seen' \subseteq Seen \union {active}

TurnTakenUp(t) ==
  /\ Asking(t) /\ NoneAsking /\ UNCHANGED starts /\ active' = TurnOf(task[t].entry)
  /\ Seen' \subseteq Seen

TurnRefused(t) ==
  /\ Asking(t) /\ NoneAsking /\ UNCHANGED <<starts, active>>
  /\ Seen' \subseteq Seen \union {TurnOf(task[t].entry)}

TurnAsked(e) ==
  /\ starts' = [starts EXCEPT ![e] = @ + 1] /\ UNCHANGED active
  /\ \A t \in Tasks : Asking(t)' => task'[t].entry = e
  /\ Seen' \subseteq Seen

TurnElsewhere ==
  /\ NoNewAsking /\ starts' = [starts EXCEPT ![NoEntry] = @ + 1]
  /\ active' = <<NoEntry, starts'[NoEntry]>> /\ Seen' \subseteq Seen

TurnStep ==
  \/ TurnsKept \/ TurnOver \/ TurnElsewhere
  \/ \E t \in Tasks : TurnTakenUp(t) \/ TurnRefused(t)
  \/ \E e \in Entries : TurnAsked(e)

LEMMA TurnParts ==
  ASSUME TurnInv
  PROVE  /\ TypeOK /\ HandoffInv /\ OneHandoff
         /\ starts \in [AnyEntry -> Nat] /\ active \in AnyTurn
         /\ Seen \subseteq AnyTurn
         /\ \A t \in Tasks : task[t] \in Chain
         /\ \A t \in Tasks : task[t].pc \in Working => task[t].entry \in Entries
<1>1. HandoffInv /\ TypeOK /\ OneHandoff
  BY DEF TurnInv, HandoffInv
<1>2. starts \in [AnyEntry -> Nat] /\ active \in AnyTurn /\ notices \subseteq Outcome
  BY <1>1, AllParts DEF ProviderOK
<1>3. processed \subseteq AnyTurn /\ admission.terminals \subseteq Outcome
  BY <1>1, AllParts DEF HandoffOK, Admission
<1>4. Seen \subseteq AnyTurn
  BY <1>2, <1>3 DEF Seen, Outcome
<1> QED BY <1>1, <1>2, <1>4, AllParts, WorkFacts

(* The turn of an entry. *)
LEMMA TurnOfIs ==
  ASSUME TurnInv, NEW e \in Entries
  PROVE  /\ TurnOf(e) \in AnyTurn /\ TurnOf(e)[1] = e /\ TurnOf(e)[2] = starts[e]
         /\ TurnOf(e) # NoTurn /\ e # NoEntry /\ e \in AnyEntry
<1>1. e \in AnyEntry /\ e # NoEntry /\ e # 0
  BY QueueAssumption DEF Entries, AnyEntry, NoEntry
<1>2. starts[e] \in Nat
  BY <1>1, TurnParts
<1> QED BY <1>1, <1>2 DEF TurnOf, AnyTurn, NoTurn

LEMMA TurnsGoOn ==
  ASSUME TurnInv, TurnStep
  PROVE  TurnsKnown'
<1>1. /\ starts \in [AnyEntry -> Nat] /\ active \in AnyTurn /\ Seen \subseteq AnyTurn
      /\ \A t \in Tasks : Asking(t) => task[t].entry \in Entries
  BY TurnParts DEF Asking
<1>2. NoTurn[1] = NoEntry /\ NoTurn[2] = 0 /\ NoEntry \in AnyEntry
  BY DEF NoTurn, NoEntry, AnyEntry
<1>3. \A u \in AnyTurn : u[1] \in AnyEntry /\ u[2] \in Nat
  BY DEF AnyTurn
<1>4. \A e \in Entries : TurnOf(e) # NoTurn /\ e \in AnyEntry /\ e # NoEntry
                         /\ TurnOf(e)[1] = e /\ TurnOf(e)[2] = starts[e]
  BY TurnOfIs
<1>5. starts[NoEntry] \in Nat
  BY <1>1, <1>2
<1>6. CASE TurnsKept
  <2>1. \A t \in Tasks : Asking(t)' => TurnOf(task[t].entry)' = TurnOf(task[t].entry)
    BY <1>6 DEF TurnsKept, NoNewAsking, TurnOf
  <2> QED BY <1>1, <1>2, <1>4, <1>5, <1>6, <2>1 DEF TurnsKept, TurnInv, TurnsKnown, NoNewAsking
<1>7. CASE TurnOver
  <2>1. \A t \in Tasks : Asking(t)' => TurnOf(task[t].entry)' = TurnOf(task[t].entry)
    BY <1>7 DEF TurnOver, NoNewAsking, TurnOf
  <2> QED BY <1>1, <1>2, <1>4, <1>5, <1>7, <2>1 DEF TurnOver, TurnInv, TurnsKnown, NoNewAsking
<1>8. ASSUME NEW t \in Tasks, TurnTakenUp(t)  PROVE TurnsKnown'
  <2>1. TurnOf(task[t].entry)[2] = starts[task[t].entry] /\ TurnOf(task[t].entry)[1] = task[t].entry
    BY <1>1, <1>4, <1>8 DEF TurnTakenUp
  <2>2. starts[task[t].entry] <= starts[task[t].entry]
    BY <1>1, <1>4, <1>8 DEF TurnTakenUp
  <2> QED BY <1>1, <1>8, <2>1, <2>2 DEF TurnTakenUp, TurnInv, TurnsKnown, NoneAsking
<1>9. ASSUME NEW t \in Tasks, TurnRefused(t)  PROVE TurnsKnown'
  <2>1. TurnOf(task[t].entry)[2] = starts[task[t].entry] /\ TurnOf(task[t].entry)[1] = task[t].entry
    BY <1>1, <1>4, <1>9 DEF TurnRefused
  <2>2. starts[task[t].entry] <= starts[task[t].entry]
    BY <1>1, <1>4, <1>9 DEF TurnRefused
  <2> QED BY <1>1, <1>9, <2>1, <2>2 DEF TurnRefused, TurnInv, TurnsKnown, NoneAsking
<1>10. ASSUME NEW e \in Entries, TurnAsked(e)  PROVE TurnsKnown'
  <2>1. \A x \in AnyEntry : starts[x] \in Nat /\ starts'[x] \in Nat /\ starts[x] <= starts'[x]
    BY <1>1, <1>10 DEF TurnAsked
  <2>2. starts'[e] = starts[e] + 1
    BY <1>1, <1>4, <1>10 DEF TurnAsked
  <2>3. \A u \in Seen' : u \in AnyTurn /\ u[2] <= starts[u[1]]
    BY <1>1, <1>10 DEF TurnAsked, TurnInv, TurnsKnown
  <2>4. \A u \in Seen' : u[2] <= starts'[u[1]]
    BY <1>3, <2>1, <2>3
  <2>5. active' # NoTurn => active' \notin Seen' /\ active'[2] <= starts[active'[1]]
    BY <1>10 DEF TurnAsked, TurnInv, TurnsKnown
  <2>6. active' # NoTurn => active'[2] <= starts'[active'[1]]
    BY <1>1, <1>3, <1>10, <2>1, <2>5 DEF TurnAsked
  <2>7. <<e, starts'[e]>> \notin Seen'
    BY <1>4, <2>1, <2>2, <2>3
  <2>8. <<e, starts'[e]>> # active'
    BY <1>1, <1>2, <1>4, <1>10, <2>1, <2>2, <2>5 DEF TurnAsked
  <2>9. \A t \in Tasks : Asking(t)' => TurnOf(task[t].entry)' = <<e, starts'[e]>>
    BY <1>10 DEF TurnAsked, TurnOf
  <2> QED BY <2>4, <2>5, <2>6, <2>7, <2>8, <2>9 DEF TurnsKnown
<1>11. CASE TurnElsewhere
  <2>1. \A x \in AnyEntry : starts[x] \in Nat /\ starts'[x] \in Nat /\ starts[x] <= starts'[x]
    BY <1>1, <1>11 DEF TurnElsewhere
  <2>2. starts'[NoEntry] = starts[NoEntry] + 1
    BY <1>1, <1>2, <1>11 DEF TurnElsewhere
  <2>3. \A u \in Seen' : u \in AnyTurn /\ u[2] <= starts[u[1]]
    BY <1>1, <1>11 DEF TurnElsewhere, TurnInv, TurnsKnown
  <2>4. \A u \in Seen' : u[2] <= starts'[u[1]]
    BY <1>3, <2>1, <2>3
  <2>5. active' \notin Seen' /\ active'[2] <= starts'[active'[1]]
    BY <1>2, <1>5, <1>11, <2>1, <2>2, <2>3 DEF TurnElsewhere
  <2>6. \A t \in Tasks : Asking(t)' =>
          /\ task[t].entry \in Entries /\ task'[t].entry = task[t].entry
          /\ TurnOf(task[t].entry) \notin Seen'
    BY <1>1, <1>11 DEF TurnElsewhere, NoNewAsking, TurnInv, TurnsKnown
  <2>7. \A e \in Entries : starts'[e] = starts[e]
    BY <1>1, <1>4, <1>11 DEF TurnElsewhere
  <2>8. \A t \in Tasks : Asking(t)' => TurnOf(task[t].entry)' = TurnOf(task[t].entry)
    BY <2>6, <2>7 DEF TurnOf
  <2>9. \A t \in Tasks : Asking(t)' => TurnOf(task[t].entry) # active'
    BY <1>4, <1>11, <2>6 DEF TurnElsewhere
  <2> QED BY <2>4, <2>5, <2>6, <2>8, <2>9 DEF TurnsKnown
<1> QED BY <1>6, <1>7, <1>8, <1>9, <1>10, <1>11 DEF TurnStep

(* A chain goes on, and the backend is asked nothing. *)
LEMMA MovesTurns ==
  ASSUME NEW t \in Tasks, Others(t), task'[t].pc # "starting",
         UNCHANGED <<starts, active, began>>, Seen' \subseteq Seen \union {NoTurn}
  PROVE  TurnsKept
BY DEF TurnsKept, NoNewAsking, Asking, Others

LEMMA RestsTurns ==
  ASSUME TurnInv, UNCHANGED <<starts, began>>, active' \in {active, NoTurn},
         \A u \in Tasks : task'[u].pc = task[u].pc /\ task'[u].entry = task[u].entry,
         Seen' \subseteq Seen \union {NoTurn}
  PROVE  TurnsKept
BY DEF TurnsKept, NoNewAsking, Asking

(* The admission forgets the outcomes it kept, or keeps them. *)
LEMMA FewerTerminals ==
  ASSUME NEW a, NEW t, NEW kind
  PROVE  /\ Settle(a, t).terminals \subseteq a.terminals
         /\ Begin(a, t, kind).terminals \subseteq a.terminals
<1>1. IdleAdmission.terminals = {}
  BY DEF IdleAdmission
<1>2. [IdleAdmission EXCEPT !.phase = "starting", !.attempt = t, !.kind = kind].terminals = {}
  BY DEF IdleAdmission
<1> QED BY <1>1, <1>2 DEF Settle, Begin

LEMMA SameTerminals ==
  ASSUME NEW a \in Admission, NEW t, NEW turn
  PROVE  Acknowledge(a, t, turn).terminals = a.terminals
BY DEF Acknowledge, Admission

LEMMA SeenKept ==
  ASSUME processed' \subseteq Seen \union {NoTurn}, notices' \subseteq notices,
         admission'.terminals \subseteq admission.terminals
  PROVE  Seen' \subseteq Seen \union {NoTurn}
BY DEF Seen

LEMMA EmittedTurns ==
  ASSUME TurnInv, NEW t \in Tasks, Emitted(t)
  PROVE  TurnsKept
<1>1. UNCHANGED <<starts, active, began, notices>>
  BY DEF Emitted, HoldEmitted, HeldEmitted, ClearEmitted, UnlockEmitted, StartEmitted,
         TerminalEmitted, FailureEmitted, BlockEmitted, SteerEmitted, SteerLeaves, InputEdited
<1>2. Moves(t)
  BY HoldEmittedHandoff, BlockedHandoff, ClearHandoff, UnlockHandoff, StartEmittedHandoff,
     TerminalEmittedHandoff, FinishedHandoff, EditHandoff, TurnParts DEF Emitted, Ends
<1>3. admission'.terminals \subseteq admission.terminals
  <2>1. admission' \in {admission, Settle(admission, t)}
    BY DEF Emitted, HoldEmitted, HeldEmitted, ClearEmitted, UnlockEmitted, StartEmitted, Finish,
           TerminalEmitted, FailureEmitted, BlockEmitted, SteerEmitted, SteerLeaves, InputEdited
  <2> QED BY <2>1, FewerTerminals
<1>4. processed' \subseteq Seen
  <2>1. CASE UNCHANGED processed
    BY <2>1 DEF Seen
  <2>2. CASE StartEmitted(t) /\ ~UNCHANGED processed
    <3> DEFINE terminal == CHOOSE x \in TerminalOf(admission) : TRUE
    <3>1. TerminalOf(admission) # {} /\ processed' = processed \union {terminal.turn}
      BY <2>2 DEF StartEmitted, SettleRelease
    <3>2. terminal \in admission.terminals
      BY <3>1 DEF TerminalOf
    <3> HIDE DEF terminal
    <3> QED BY <3>1, <3>2 DEF Seen
  <2>3. StartEmitted(t) \/ UNCHANGED processed
    BY DEF Emitted, HoldEmitted, HeldEmitted, ClearEmitted, UnlockEmitted,
           TerminalEmitted, FailureEmitted, BlockEmitted, SteerEmitted, SteerLeaves, InputEdited
  <2> QED BY <2>1, <2>2, <2>3
<1> QED BY <1>1, <1>2, <1>3, <1>4, SeenKept, MovesTurns

LEMMA StartEntryTurns ==
  ASSUME TurnInv, NEW t \in Tasks, NEW e \in Entries, NEW ctx, StartEntry(t, e, ctx), Begins(t),
         UNCHANGED <<processed, notices, active>>
  PROVE  TurnAsked(e)
<1> DEFINE c == [IdleTask EXCEPT !.pc = "starting", !.ctx = ctx, !.entry = e]
<1>1. c.entry = e
  BY DEF IdleTask
<1>2. task'[t] = c
  <2>1. task' = [task EXCEPT ![t] = c]
    BY DEF StartEntry
  <2> HIDE DEF c
  <2> QED BY <2>1, OnlyOne, TurnParts
<1> HIDE DEF c
<1>3. \A u \in Tasks : task'[u].pc = "starting" => u = t
  BY HandsIsInHandoff, TurnParts DEF Begins, Others, Hands, OneHandoff
<1>4. admission'.terminals \subseteq admission.terminals
  BY FewerTerminals DEF StartEntry
<1>5. Seen' \subseteq Seen
  BY <1>4 DEF Seen
<1> QED BY <1>1, <1>2, <1>3, <1>5 DEF TurnAsked, StartEntry, Asking

LEMMA ClaimTurns ==
  ASSUME TurnInv, NEW t \in Tasks, NEW ctx, NEW can, Claim(t, ctx, can)
  PROVE  TurnsKept \/ \E e \in Entries : TurnAsked(e)
<1> DEFINE e == Dispatchable(can)
           d == Detached(task, RemoveAt(queue, NextWaiting(queue)))
           steer == Steerable(e, can)
<1>1. PICK c : /\ c.pc = IF steer THEN "steering" ELSE "starting"
               /\ c.entry = e /\ task' = [d EXCEPT ![t] = c]
  <2> DEFINE c == [IdleTask EXCEPT !.pc = IF steer THEN "steering" ELSE "starting",
                                   !.ctx = ctx, !.entry = e,
                                   !.rev = IF steer THEN revision' ELSE 0,
                                   !.prev = IF NextWaiting(queue) > 1
                                            THEN queue[NextWaiting(queue) - 1] ELSE NoEntry]
  <2>1. task' = [d EXCEPT ![t] = c]
    BY DEF Claim
  <2> HIDE DEF e, d, steer
  <2>2. c.pc = (IF steer THEN "steering" ELSE "starting") /\ c.entry = e
    BY DEF IdleTask
  <2> QED BY <2>1, <2>2
<1>2. d \in [Tasks -> Chain]
  BY AllParts, TurnParts, DetachedType
<1>3. Begins(t)
  BY ClaimHandoff, TurnParts
<1>4. \A u \in Tasks : task'[u].pc = "starting" => u = t
  BY <1>3, HandsIsInHandoff, TurnParts DEF Begins, Others, Hands, OneHandoff
<1>5. e \in Entries
  BY DispatchableType, TurnParts DEF Claim
<1>6. \E kind : admission' = Begin(admission, t, kind)
  BY DEF Claim
<1>7. Seen' \subseteq Seen
  <2>1. admission'.terminals \subseteq admission.terminals
    BY <1>6, FewerTerminals
  <2> QED BY <2>1 DEF Seen, Claim
<1>8. /\ UNCHANGED active
      /\ starts' = IF steer THEN starts ELSE [starts EXCEPT ![e] = @ + 1]
  BY DEF Claim
<1> HIDE DEF d, e, steer
<1>9. task'[t] = c
  BY <1>1, <1>2
<1>10. CASE steer
  <2>1. NoNewAsking
    BY <1>1, <1>4, <1>9, <1>10 DEF NoNewAsking, Asking
  <2> QED BY <1>7, <1>8, <1>10, <2>1 DEF TurnsKept
<1>11. CASE ~steer
  <2>1. TurnAsked(e)
    BY <1>1, <1>4, <1>7, <1>8, <1>9, <1>11 DEF TurnAsked, Asking
  <2> QED BY <1>5, <2>1
<1> QED BY <1>10, <1>11

LEMMA ProceedTurns ==
  ASSUME TurnInv, NEW t \in Tasks, Proceed(t)
  PROVE  TurnStep
<1>1. CASE StartNext(t)
  <2>1. CASE \E can \in BOOLEAN : Claim(t, task[t].ctx, can)
    BY <2>1, ClaimTurns DEF TurnStep
  <2>2. CASE Return(t) /\ UNCHANGED <<handoff, provider>>
    <3>1. Others(t) /\ task'[t].pc # "starting"
      BY <2>2, ReturnEnds, TurnParts
    <3>2. TurnsKept
      BY <2>2, <3>1, MovesTurns DEF Seen
    <3> QED BY <3>2 DEF TurnStep
  <2> QED BY <1>1, <2>1, <2>2 DEF StartNext
<1>2. CASE StartFinished(t) \/ SteerBack(t)
  <2>1. admission'.terminals \subseteq admission.terminals
    BY <1>2, FewerTerminals DEF StartFinished, SteerBack, Finish
  <2>2. Others(t) /\ task'[t].pc # "starting"
    BY <1>2, FinishedHandoff, TurnParts DEF Ends
  <2>3. Seen' \subseteq Seen /\ UNCHANGED <<starts, active, began>>
    BY <1>2, <2>1 DEF StartFinished, SteerBack, Seen
  <2> QED BY <2>2, <2>3, MovesTurns DEF TurnStep
<1>3. CASE ReleaseRefused(t)
  <2>1. Others(t) /\ task'[t].pc # "starting"
    BY <1>3, ReleaseRefusedHandoff, TurnParts
  <2>2. Seen' \subseteq Seen /\ UNCHANGED <<starts, active, began>>
    BY <1>3 DEF ReleaseRefused, SettleRelease, Seen
  <2> QED BY <2>1, <2>2, MovesTurns DEF TurnStep
<1>4. CASE \/ MoveEntry(t) \/ PauseEntry(t) \/ ResumeEntry(t) \/ SteerLeaves(t, "left")
           \/ ClearQueueHold(t)
  <2>1. Others(t) /\ task'[t].pc # "starting"
    BY <1>4, EditHandoff, ClearHandoff, TurnParts
  <2>2. Seen' \subseteq Seen /\ UNCHANGED <<starts, active, began>>
    BY <1>4 DEF MoveEntry, PauseEntry, ResumeEntry, SteerLeaves, ClearQueueHold, Seen
  <2> QED BY <2>1, <2>2, MovesTurns DEF TurnStep
<1>5. CASE SubmitSteer(t)
  <2>1. task[t].entry \in Entries /\ UNCHANGED <<processed, notices, active>>
    BY <1>5, TurnParts DEF SubmitSteer, MayEdit
  <2>2. CASE /\ StartEntry(t, task[t].entry, "edit")
             /\ admission.phase = "idle" /\ running = NoTurn /\ ~GateHolds(task[t].entry)
    <3>1. UNCHANGED running
      BY <1>5 DEF SubmitSteer
    <3>2. Begins(t)
      BY <2>2, <3>1, StartEntryBegins, TurnParts
    <3> QED BY <2>1, <2>2, <3>2, StartEntryTurns DEF TurnStep
  <2>3. CASE task' = [task EXCEPT ![t].pc = "leaving"] /\ UNCHANGED <<admission, starts, began>>
    <3> DEFINE c == [task[t] EXCEPT !.pc = "leaving"]
    <3>1. c.pc = "leaving"
      BY TurnParts DEF Chain
    <3>2. task' = [task EXCEPT ![t] = c]
      BY <2>3
    <3> HIDE DEF c
    <3>3. Others(t) /\ task'[t] = c
      BY <3>2, OnlyOne, TurnParts
    <3>4. Seen' \subseteq Seen
      BY <2>1, <2>3 DEF Seen
    <3> QED BY <2>1, <2>3, <3>1, <3>3, <3>4, MovesTurns DEF TurnStep
  <2> QED BY <1>5, <2>2, <2>3 DEF SubmitSteer
<1> QED BY <1>1, <1>2, <1>3, <1>4, <1>5 DEF Proceed

(* The chain that asks the backend is the only one in the handoff. *)
LEMMA NoneAsks ==
  ASSUME TurnInv, NEW t \in Tasks, Hands(task[t]), Others(t), task'[t].pc # "starting"
  PROVE  NoneAsking
<1>1. \A u \in Tasks \ {t} : ~Hands(task[u])
  BY HandsIsInHandoff, TurnParts DEF OneHandoff
<1>2. \A u \in Tasks : task'[u].pc # "starting"
  BY <1>1 DEF Others, Hands
<1> QED BY <1>2 DEF NoneAsking, Asking

LEMMA RefusedTurns ==
  ASSUME TurnInv, NEW t \in Tasks, Refuse(t), Moves(t),
         processed' \subseteq Seen, admission'.terminals \subseteq admission.terminals
  PROVE  TurnStep
<1>1. NoneAsking
  BY NoneAsks DEF Refuse, Hands
<1>2. UNCHANGED <<starts, active>>
  BY DEF Refuse
<1>3. CASE notices' = notices
  <2>1. Seen' \subseteq Seen
    BY <1>3 DEF Seen
  <2> QED BY <1>1, <1>2, <2>1 DEF TurnStep, TurnsKept, NoNewAsking, NoneAsking
<1>4. CASE notices' = notices \union {[turn |-> TurnOf(task[t].entry), status |-> "failed"]} /\ ~began
  <2>1. Seen' \subseteq Seen \union {TurnOf(task[t].entry)}
    <3>1. \A n \in notices' : n.turn \in {m.turn : m \in notices} \union {TurnOf(task[t].entry)}
      BY <1>4
    <3> QED BY <3>1 DEF Seen
  <2>2. Asking(t)
    BY <1>4 DEF Refuse, Asking
  <2> QED BY <1>1, <1>2, <2>1, <2>2 DEF TurnStep, TurnRefused
<1> QED BY <1>3, <1>4 DEF Refuse

LEMMA AnswerTurns ==
  ASSUME TurnInv, NEW t \in Tasks, Answer(t)
  PROVE  TurnStep
<1>1. CASE StartAcknowledged(t)
  <2> DEFINE c == [task[t] EXCEPT !.pc = "started", !.early = TerminalOf(admission') # {}]
  <2>1. c.pc = "started"
    BY TurnParts DEF Chain
  <2>2. task' = [task EXCEPT ![t] = c]
    BY <1>1 DEF StartAcknowledged
  <2> HIDE DEF c
  <2>3. Others(t) /\ task'[t] = c
    BY <2>2, OnlyOne, TurnParts
  <2>4. NoneAsking
    BY <1>1, <2>1, <2>3, NoneAsks DEF StartAcknowledged, Hands
  <2>5. admission'.terminals = admission.terminals
    <3>1. admission \in Admission
      BY AllParts, TurnParts
    <3> QED BY <1>1, <3>1, SameTerminals DEF StartAcknowledged
  <2>6. Seen' \subseteq Seen /\ UNCHANGED starts
    BY <1>1, <2>5 DEF StartAcknowledged, Seen
  <2>7. CASE began
    BY <1>1, <2>4, <2>6, <2>7
       DEF StartAcknowledged, TurnStep, TurnsKept, NoNewAsking, NoneAsking
  <2>8. CASE ~began
    BY <1>1, <2>4, <2>6, <2>8 DEF StartAcknowledged, TurnStep, TurnTakenUp, Asking
  <2> QED BY <2>7, <2>8
<1>2. CASE DirectStartRejected(t)
  <2>1. Moves(t) /\ Refuse(t)
    BY <1>2, DirectStartRejectedHandoff, TurnParts DEF DirectStartRejected
  <2>2. processed' \subseteq Seen /\ admission'.terminals \subseteq admission.terminals
    BY <1>2 DEF DirectStartRejected, Seen
  <2> QED BY <2>1, <2>2, RefusedTurns
<1>3. ASSUME NEW r, QueuedStartRejected(t, r)  PROVE TurnStep
  <2>1. Moves(t) /\ Refuse(t)
    BY <1>3, RejectedHandoff, TurnParts DEF QueuedStartRejected, Ends
  <2>2. admission'.terminals \subseteq admission.terminals
    BY <1>3, FewerTerminals DEF QueuedStartRejected, Finish
  <2>3. processed' \subseteq Seen
    BY <1>3 DEF QueuedStartRejected, Seen
  <2> QED BY <2>1, <2>2, <2>3, RefusedTurns
<1>4. ASSUME NEW r, NEW retry \in BOOLEAN,
             SteerAccepted(t) \/ SteerRejected(t, r) \/ SteerDeclined(t, retry)
      PROVE  TurnStep
  <2>1. Moves(t) /\ UNCHANGED <<starts, active, began, processed, notices>>
    BY <1>4, SteerAcceptedHandoff, RejectedHandoff, SteerDeclinedHandoff, TurnParts
       DEF SteerAccepted, SteerRejected, SteerDeclined, Ends
  <2>2. admission'.terminals \subseteq admission.terminals
    <3>1. admission \in Admission
      BY AllParts, TurnParts
    <3>2. \/ admission' \in {admission, Settle(admission, t)}
          \/ admission' = Acknowledge(admission, t, active)
      BY <1>4 DEF SteerAccepted, SteerRejected, SteerDeclined
    <3>3. CASE admission' \in {admission, Settle(admission, t)}
      BY <3>3, FewerTerminals
    <3>4. CASE admission' = Acknowledge(admission, t, active)
      BY <3>1, <3>4, SameTerminals
    <3> QED BY <3>2, <3>3, <3>4
  <2>3. Seen' \subseteq Seen
    BY <2>1, <2>2 DEF Seen
  <2> QED BY <2>1, <2>3, MovesTurns DEF TurnStep
<1> QED BY <1>1, <1>2, <1>3, <1>4 DEF Answer

LEMMA ReportTurns ==
  ASSUME TurnInv, NEW n, Report(n)
  PROVE  TurnStep
<1>1. n \in notices /\ n.turn \in Seen /\ notices' \subseteq notices
  BY DEF Report, ReleaseBuffered, ReleaseIgnored, ReleaseCoalesced, Release, Take, Seen
<1>2. UNCHANGED <<starts, active, began>>
  BY DEF Report, ReleaseBuffered, ReleaseIgnored, ReleaseCoalesced, Release, Take
<1>3. CASE ReleaseIgnored(n) \/ ReleaseCoalesced(n)
  <2>1. Seen' \subseteq Seen /\ UNCHANGED task
    BY <1>1, <1>3 DEF ReleaseIgnored, ReleaseCoalesced, Seen
  <2> QED BY <1>2, <2>1, RestsTurns DEF TurnStep
<1>4. CASE ReleaseBuffered(n)
  <2>1. \A x \in admission'.terminals : x \in admission.terminals \union {n}
    BY <1>4, AllParts, TurnParts DEF ReleaseBuffered, RecordTerminal, Admission
  <2>2. Seen' \subseteq Seen
    BY <1>1, <1>4, <2>1 DEF ReleaseBuffered, Seen
  <2> QED BY <1>2, <1>4, <2>2, RestsTurns DEF TurnStep, ReleaseBuffered
<1>5. ASSUME NEW t \in Tasks, Release(t, n)  PROVE TurnStep
  <2>1. Moves(t)
    BY <1>5, ReleaseHandoff, TurnParts
  <2>2. processed' \subseteq Seen
    BY <1>1, <1>5 DEF Release, SettleRelease, Seen
  <2>3. Seen' \subseteq Seen
    BY <1>1, <1>5, <2>2 DEF Release, Seen
  <2> QED BY <1>2, <2>1, <2>3, MovesTurns DEF TurnStep
<1> QED BY <1>3, <1>4, <1>5 DEF Report

LEMMA SubmissionTurns ==
  ASSUME TurnInv, Submission
  PROVE  TurnStep
<1>1. ASSUME \/ \E e \in Entries : Enqueue(e) \/ SubmitProjectHeld(e) \/ EditInput(e)
             \/ ScheduleThreadDrain \/ Close
      PROVE  TurnStep
  <2>1. UNCHANGED <<starts, active, began, processed, notices, admission, task>>
    BY <1>1 DEF Enqueue, SubmitProjectHeld, EditInput, ScheduleThreadDrain, Close
  <2>2. Seen' \subseteq Seen
    BY <2>1 DEF Seen
  <2> QED BY <2>1, <2>2, RestsTurns DEF TurnStep
<1>2. ASSUME NEW e \in Entries, CancelEntry(e)  PROVE TurnStep
  <2>1. UNCHANGED <<starts, active, began, processed, notices, admission>>
    BY <1>2 DEF CancelEntry
  <2>2. \A u \in Tasks : task'[u].pc = task[u].pc /\ task'[u].entry = task[u].entry
    BY <1>2, AllParts, TurnParts, DetachedType DEF CancelEntry
  <2>3. Seen' \subseteq Seen
    BY <2>1 DEF Seen
  <2> QED BY <2>1, <2>2, <2>3, RestsTurns DEF TurnStep
<1>3. ASSUME NEW t \in Tasks, NEW e \in Entries, StartNow(t, e)  PROVE TurnStep
  <2>1. Begins(t)
    BY <1>3, StartNowHandoff, TurnParts
  <2> QED BY <1>3, <2>1, StartEntryTurns DEF StartNow, TurnStep
<1>4. ASSUME NEW t \in Tasks, NEW c, task' = [task EXCEPT ![t] = c], c.pc # "starting",
             UNCHANGED <<starts, active, began, processed, notices, admission>>
      PROVE  TurnStep
  <2>1. Others(t) /\ task'[t] = c
    BY <1>4, OnlyOne, TurnParts
  <2>2. Seen' \subseteq Seen
    BY <1>4 DEF Seen
  <2> QED BY <1>4, <2>1, <2>2, MovesTurns DEF TurnStep
<1>5. ASSUME NEW t \in Tasks, NEW e \in Entries, EditsEntry(t, e) \/ EditsSteer(t, e) \/ Retry(t, e)
      PROVE  TurnStep
  <2>1. PICK op, before : EnterEdit(t, op, e, before)
    BY <1>5 DEF EditsEntry, EditsSteer, Retry
  <2> DEFINE c == [IdleTask EXCEPT !.pc = "editing", !.ctx = "edit",
                                   !.op = op, !.entry = e, !.prev = before]
  <2>2. c.pc = "editing"
    BY DEF IdleTask
  <2>3. /\ task' = [task EXCEPT ![t] = c]
        /\ UNCHANGED <<starts, active, began, processed, notices, admission>>
    BY <2>1 DEF EnterEdit
  <2> HIDE DEF c
  <2> QED BY <1>4, <2>2, <2>3
<1>6. ASSUME NEW t \in Tasks, NEW e \in Entries, NEW r, SubmitHeld(t, e, r)  PROVE TurnStep
  <2> DEFINE c == [IdleTask EXCEPT !.pc = "queuedHeld", !.reason = r]
  <2>1. c.pc = "queuedHeld"
    BY DEF IdleTask
  <2>2. /\ task' = [task EXCEPT ![t] = c]
        /\ UNCHANGED <<starts, active, began, processed, notices, admission>>
    BY <1>6 DEF SubmitHeld
  <2> HIDE DEF c
  <2> QED BY <1>4, <2>1, <2>2
<1>7. ASSUME NEW t \in Tasks, ReleaseHold(t)  PROVE TurnStep
  <2>1. Moves(t)
    BY <1>7, UnlockHandoff, TurnParts
  <2>2. UNCHANGED <<starts, active, began, processed, notices, admission>>
    BY <1>7 DEF ReleaseHold
  <2>3. Seen' \subseteq Seen
    BY <2>2 DEF Seen
  <2> QED BY <2>1, <2>2, <2>3, MovesTurns DEF TurnStep
<1> QED BY <1>1, <1>2, <1>3, <1>5, <1>6, <1>7, RestsTurns DEF Submission

LEMMA BackendTurns ==
  ASSUME TurnInv, Backend
  PROVE  TurnStep
<1>1. UNCHANGED <<task, processed, admission>>
  BY DEF Backend, TurnBegins, ExternalTurnBegins, IdleReported, TurnEnds, OutcomeRepeated, Notify
<1>2. ASSUME NEW t \in Tasks, TurnBegins(t)  PROVE TurnStep
  <2>1. Asking(t) /\ NoneAsking
    BY <1>2 DEF TurnBegins, Asking, NoneAsking
  <2>2. Seen' \subseteq Seen
    BY <1>1, <1>2 DEF TurnBegins, Seen
  <2> QED BY <1>2, <2>1, <2>2 DEF TurnStep, TurnTakenUp, TurnBegins
<1>3. CASE ExternalTurnBegins
  <2>1. Seen' \subseteq Seen /\ NoNewAsking
    BY <1>1, <1>3 DEF ExternalTurnBegins, Seen, NoNewAsking, Asking
  <2> QED BY <1>3, <2>1 DEF TurnStep, TurnElsewhere, ExternalTurnBegins
<1>4. ASSUME NEW n, Notify(n)
      PROVE  Seen' \subseteq Seen \union {n.turn} /\ NoNewAsking /\ UNCHANGED <<starts, began>>
  <2>1. \A m \in notices' : m.turn \in {x.turn : x \in notices} \union {n.turn}
    BY <1>4 DEF Notify
  <2> QED BY <1>1, <1>4, <2>1 DEF Notify, Seen, NoNewAsking, Asking
<1>5. ASSUME NEW s, TurnEnds(s)  PROVE TurnStep
  BY <1>4, <1>5 DEF TurnEnds, TurnStep, TurnOver
<1>6. CASE IdleReported
  BY <1>4, <1>6 DEF IdleReported, IdleReport, TurnStep, TurnsKept
<1>7. ASSUME NEW turn \in processed, OutcomeRepeated(turn)  PROVE TurnStep
  <2>1. turn \in Seen
    BY DEF Seen
  <2> QED BY <1>4, <1>7, <2>1 DEF OutcomeRepeated, TurnStep, TurnsKept
<1> QED BY <1>2, <1>3, <1>5, <1>6, <1>7 DEF Backend

LEMMA TurnsInit == Init => TurnInv
<1> SUFFICES ASSUME Init PROVE TurnInv
  OBVIOUS
<1>1. Seen = {} /\ active = NoTurn /\ \A t \in Tasks : task[t].pc = "idle"
  BY DEF Init, Seen, IdleAdmission, IdleTask
<1> QED BY <1>1, HandoffInit DEF TurnInv, TurnsKnown, Asking

LEMMA TurnsNext == TurnInv /\ [Next]_vars => TurnInv'
<1> SUFFICES ASSUME TurnInv, [Next]_vars PROVE TurnInv'
  OBVIOUS
<1>1. HandoffInv'
  BY HandoffNext DEF TurnInv
<1>2. ASSUME DrainFires  PROVE TurnStep
  <2>1. ASSUME NEW can \in BOOLEAN, NEW t \in Tasks, Claim(t, "drain", can)  PROVE TurnStep
    BY <2>1, ClaimTurns DEF TurnStep
  <2>2. ASSUME UNCHANGED <<handoff, task, provider>>  PROVE TurnStep
    <3>1. Seen' \subseteq Seen
      BY <2>2 DEF Seen
    <3> QED BY <2>2, <3>1, RestsTurns DEF TurnStep
  <2> QED BY <1>2, <2>1, <2>2 DEF DrainFires
<1>3. CASE GateDue \/ GateOpens \/ GateQuiets \/ UNCHANGED vars
  <2>1. UNCHANGED <<handoff, task, active, starts, began, notices>>
    BY <1>3 DEF GateDue, GateOpens, GateQuiets, GateMoves, vars
  <2> QED BY <1>1, <2>1, RestsTurns, TurnsGoOn DEF TurnInv, TurnStep, Seen
<1>4. CASE TurnStep
  BY <1>1, <1>4, TurnsGoOn DEF TurnInv
<1> QED BY <1>2, <1>3, <1>4, ProceedTurns, EmittedTurns, AnswerTurns, ReportTurns,
           SubmissionTurns, BackendTurns DEF Next, TurnStep

-----------------------------------------------------------------------------
(* A turn the queue takes for running is one whose end it has not heard and *)
(* will hear: the backend runs it, its outcome is under way, or the         *)
(* admission keeps the outcome.  The same is true of a turn that began      *)
(* before startTurn answered.                                               *)

Told(u) ==
  active = u \/ (\E n \in notices : n.turn = u) \/ (\E x \in admission.terminals : x.turn = u)

Awaited(u) == u \notin processed /\ Told(u)

Believed == running # NoTurn => Awaited(running)

Begun == \A t \in Tasks : task[t].pc = "starting" /\ began => Awaited(TurnOf(task[t].entry))

(* Whose outcomes the admission keeps: a start's, and when a turn runs, the *)
(* one it acknowledged, of which it had none then.                          *)
Keeping ==
  /\ admission.phase = "idle" \/ admission.kind = "steer" => admission.terminals = {}
  /\ \A t \in Tasks : task[t].pc = "starting" =>
       admission.kind = "start" /\ admission.phase = "starting"
  /\ running # NoTurn /\ admission.phase # "idle" /\ admission.kind = "start" =>
       /\ admission.phase = "acknowledged" /\ admission.turn = running
       /\ \E t \in Tasks : task[t].pc = "started" /\ ~task[t].early

Hears == Believed /\ Begun /\ Keeping

HearInv == TurnInv /\ Hears

LEMMA HearParts ==
  ASSUME HearInv
  PROVE  /\ TypeOK /\ HandoffInv /\ OneHandoff /\ StartsAlone /\ TurnInv /\ TurnsKnown
         /\ Believed /\ Begun /\ Keeping
         /\ admission \in Admission
         /\ \A t \in Tasks : task[t] \in Chain
         /\ \A t \in Tasks : task[t].pc = "starting" => task[t].entry \in Entries
         /\ \A t \in Tasks : task[t].pc = "starting" => TurnOf(task[t].entry) # NoTurn
<1>1. TurnInv /\ HandoffInv /\ TypeOK /\ OneHandoff /\ StartsAlone /\ TurnsKnown
  BY DEF HearInv, TurnInv, HandoffInv
<1>2. Believed /\ Begun /\ Keeping
  BY DEF HearInv, Hears
<1>3. \A t \in Tasks : task[t].pc = "starting" => task[t].entry \in Entries
  BY <1>1, WorkFacts
<1>4. \A t \in Tasks : task[t].pc = "starting" => TurnOf(task[t].entry) # NoTurn
  BY <1>1, <1>3, TurnOfIs
<1> QED BY <1>1, <1>2, <1>3, <1>4, AllParts

(* A chain in the handoff is the only one, and its outcomes are a start's.  *)
LEMMA AloneInHandoff ==
  ASSUME HearInv, NEW t \in Tasks, Hands(task[t])
  PROVE  /\ admission.phase # "idle" /\ admission.attempt = t
         /\ \A u \in Tasks : Hands(task[u]) => u = t
         /\ \A u \in Tasks \ {t} : task[u].pc \notin {"starting", "started"}
         /\ task[t].pc # "started" /\ admission.kind = "start" => running = NoTurn
         /\ task[t].early => running = NoTurn \/ admission.kind # "start"
<1>1. /\ admission.phase # "idle" /\ admission.attempt = t
      /\ \A u \in Tasks : Hands(task[u]) => u = t
  BY HearParts, HandsIsInHandoff DEF OneHandoff
<1>2. \A u \in Tasks \ {t} : task[u].pc \notin {"starting", "started"}
  BY <1>1 DEF Hands
<1>3. running # NoTurn /\ admission.kind = "start" => task[t].pc = "started" /\ ~task[t].early
  BY <1>1, <1>2, HearParts DEF Keeping
<1> QED BY <1>1, <1>2, <1>3

(* What a step may do to the chains that begin a turn. *)
ChainsStay ==
  \A u \in Tasks :
    /\ task'[u].pc = "starting" => task[u].pc = "starting" /\ task'[u].entry = task[u].entry
    /\ task[u].pc = "started" => task'[u].pc = "started" /\ task'[u].early = task[u].early

NoneStarts == \A u \in Tasks : task'[u].pc # "starting"

LEMMA OthersStay ==
  ASSUME NEW t \in Tasks, Others(t), task[t].pc # "started", task'[t].pc # "starting"
  PROVE  ChainsStay
BY DEF Others, ChainsStay

(* No turn is begun, ended or reported. *)
TurnsAsTheyAre == UNCHANGED <<processed, active, notices>>

Calm ==
  /\ ChainsStay /\ TurnsAsTheyAre
  /\ UNCHANGED <<running, starts, began, admission>>

(* The handoff of chain t ends. *)
Settles(t) ==
  /\ Ends(t) /\ UNCHANGED <<running, processed, active>> /\ notices \subseteq notices'
  /\ task[t].pc = "started" => TerminalOf(admission) = {}

(* The handoff of chain t begins. *)
HandsOver(t) ==
  /\ Begins(t) /\ TurnsAsTheyAre /\ ~began'
  /\ \E kind : /\ admission' = Begin(admission, t, kind)
               /\ task'[t].pc = "starting" <=> kind = "start"

(* The turn that was running is over. *)
Stops == running' = NoTurn /\ NoneStarts /\ UNCHANGED admission

Frees ==
  /\ running' = NoTurn /\ ChainsStay /\ UNCHANGED <<admission, active, began, starts>>
  /\ (\E u \in Tasks : task[u].pc = "starting") =>
       UNCHANGED processed /\ \A n \in notices : n.turn # NoTurn => n \in notices'

LEMMA CalmHears ==
  ASSUME HearInv, Calm
  PROVE  Hears'
<1>1. \A u : Awaited(u) => Awaited(u)'
  BY DEF Calm, TurnsAsTheyAre, Awaited, Told
<1>2. Believed'
  BY <1>1, HearParts DEF Calm, Believed
<1>3. Begun'
  <2> SUFFICES ASSUME NEW u \in Tasks, task'[u].pc = "starting", began'
               PROVE  Awaited(TurnOf(task[u].entry))'
    BY DEF Begun
  <2>1. TurnOf(task[u].entry)' = TurnOf(task[u].entry)
    BY DEF Calm, ChainsStay, TurnOf
  <2>2. Awaited(TurnOf(task[u].entry))
    BY HearParts DEF Begun, Calm, ChainsStay
  <2> QED BY <2>1, <2>2 DEF Calm, TurnsAsTheyAre, Awaited, Told
<1>4. Keeping'
  BY HearParts DEF Calm, ChainsStay, Keeping
<1> QED BY <1>2, <1>3, <1>4 DEF Hears

LEMMA SettlesHears ==
  ASSUME HearInv, NEW t \in Tasks, Settles(t)
  PROVE  Hears'
<1>1. Hands(task[t]) /\ ~Hands(task'[t]) /\ Others(t)
  BY DEF Settles, Ends
<1>2. admission' = IdleAdmission
  BY <1>1, AloneInHandoff DEF Settles, Ends, Settle
<1>3. IdleAdmission.phase = "idle" /\ IdleAdmission.terminals = {}
  BY DEF IdleAdmission
<1>4. NoneStarts
  BY <1>1, AloneInHandoff DEF NoneStarts, Others, Hands
<1>5. Keeping'
  BY <1>2, <1>3, <1>4 DEF Keeping, NoneStarts
<1>6. Believed'
  <2> SUFFICES ASSUME running # NoTurn PROVE Awaited(running)'
    BY DEF Believed, Settles
  <2>1. Awaited(running)
    BY HearParts DEF Believed
  <2>2. ASSUME NEW x \in admission.terminals, x.turn = running  PROVE FALSE
    <3>1. admission.kind # "steer" /\ admission.kind = "start" /\ admission.phase # "idle"
      BY <2>2, HearParts DEF Keeping, Admission
    <3>2. task[t].pc = "started"
      BY <1>1, <3>1, AloneInHandoff
    <3>3. admission.phase = "acknowledged" /\ admission.turn = running
      BY <3>1, HearParts DEF Keeping
    <3> QED BY <2>2, <3>2, <3>3 DEF Settles, TerminalOf
  <2> QED BY <2>1, <2>2 DEF Awaited, Told, Settles
<1> QED BY <1>4, <1>5, <1>6 DEF Hears, Begun, NoneStarts

LEMMA HandsOverHears ==
  ASSUME HearInv, NEW t \in Tasks, HandsOver(t)
  PROVE  Hears'
<1>1. PICK kind : /\ admission' = Begin(admission, t, kind)
                  /\ task'[t].pc = "starting" <=> kind = "start"
  BY DEF HandsOver
<1>2. admission.phase = "idle" /\ Others(t) /\ running' = running
  BY DEF HandsOver, Begins
<1>3. admission'.phase = "starting" /\ admission'.kind = kind /\ admission'.terminals = {}
  BY <1>1, <1>2 DEF Begin, IdleAdmission
<1>4. \A u \in Tasks : task'[u].pc = "starting" => u = t
  <2>1. \A u \in Tasks : ~Hands(task[u])
    BY <1>2, HearParts, HandsIsInHandoff DEF OneHandoff
  <2> QED BY <1>2, <2>1 DEF Others, Hands
<1>5. Keeping'
  <2>1. kind = "start" => running' = NoTurn
    BY <1>1, <1>2 DEF HandsOver, Begins
  <2> QED BY <1>1, <1>3, <1>4, <2>1 DEF Keeping
<1>6. Believed'
  <2>1. admission.terminals = {}
    BY <1>2, HearParts DEF Keeping
  <2> QED BY <1>2, <2>1, HearParts DEF Believed, Awaited, Told, HandsOver, TurnsAsTheyAre
<1> QED BY <1>5, <1>6 DEF Hears, Begun, HandsOver

LEMMA StopsHears ==
  ASSUME HearInv, Stops
  PROVE  Hears'
BY HearParts DEF Stops, NoneStarts, Hears, Believed, Begun, Keeping

LEMMA FreesHears ==
  ASSUME HearInv, Frees
  PROVE  Hears'
<1>1. Keeping'
  BY HearParts DEF Frees, ChainsStay, Keeping
<1>2. Begun'
  <2> SUFFICES ASSUME NEW u \in Tasks, task'[u].pc = "starting", began'
               PROVE  Awaited(TurnOf(task[u].entry))'
    BY DEF Begun
  <2>1. TurnOf(task[u].entry)' = TurnOf(task[u].entry) /\ task[u].pc = "starting"
    BY DEF Frees, ChainsStay, TurnOf
  <2>2. Awaited(TurnOf(task[u].entry)) /\ TurnOf(task[u].entry) # NoTurn
    BY <2>1, HearParts DEF Begun, Frees
  <2> QED BY <2>1, <2>2 DEF Frees, Awaited, Told
<1> QED BY <1>1, <1>2 DEF Hears, Believed, Frees

(* A chain goes on, or none does, and the rest stays. *)
LEMMA CalmMove ==
  ASSUME NEW t \in Tasks, Others(t), task[t].pc # "started", task'[t].pc # "starting",
         UNCHANGED <<handoff, active, starts, began, notices>>
  PROVE  Calm
BY OthersStay DEF Calm, TurnsAsTheyAre

LEMMA CalmRest ==
  ASSUME UNCHANGED <<handoff, active, starts, began, notices>>,
         \A u \in Tasks : /\ task'[u].pc = task[u].pc /\ task'[u].entry = task[u].entry
                          /\ task'[u].early = task[u].early
  PROVE  Calm
BY DEF Calm, TurnsAsTheyAre, ChainsStay

LEMMA StartEmittedHears ==
  ASSUME HearInv, NEW t \in Tasks, StartEmitted(t)
  PROVE  Hears'
<1> DEFINE terminal == CHOOSE x \in TerminalOf(admission) : TRUE
<1>1. Hands(task[t]) /\ task[t].pc = "started" /\ UNCHANGED <<active, notices>>
  BY DEF StartEmitted, Hands
<1>2. admission.attempt = t /\ admission.phase # "idle"
  BY <1>1, AloneInHandoff
<1>3. CASE TerminalOf(admission) = {}
  <2>1. Finish(t) /\ Return(t) /\ UNCHANGED <<running, processed>>
    BY <1>3 DEF StartEmitted
  <2>2. Moves(t) /\ ~Hands(task'[t])
    BY <2>1, ReturnEnds, HearParts
  <2>3. Settles(t)
    BY <1>1, <1>3, <2>1, <2>2 DEF Settles, Ends, Finish
  <2> QED BY <2>3, SettlesHears
<1>4. CASE TerminalOf(admission) # {}
  <2>1. terminal \in admission.terminals /\ terminal.turn = admission.turn
    BY <1>4 DEF TerminalOf
  <2>2. admission.kind = "start"
    BY <2>1, HearParts DEF Keeping, Admission
  <2>3. UNCHANGED admission
    BY <1>2, <1>4 DEF StartEmitted
  <2>4. NoneStarts
    <3>1. Moves(t)
      BY StartEmittedHandoff, HearParts
    <3> QED BY <1>1, <3>1, AloneInHandoff DEF NoneStarts, Others
  <2>5. running' = NoTurn
    <3>1. CASE task[t].early
      <4>1. running = NoTurn
        BY <1>1, <2>2, <3>1, AloneInHandoff
      <4> QED BY <1>2, <1>4, <3>1, <4>1 DEF StartEmitted
    <3>2. CASE ~task[t].early
      <4>1. SettleRelease(t, task[t], terminal.turn, terminal.status, "finish")
        BY <1>2, <1>4, <3>2 DEF StartEmitted
      <4>2. running # NoTurn => terminal.turn = running
        BY <1>2, <2>1, <2>2, HearParts DEF Keeping
      <4> HIDE DEF terminal
      <4> QED BY <4>1, <4>2 DEF SettleRelease
    <3> QED BY <3>1, <3>2
  <2> QED BY <2>3, <2>4, <2>5, StopsHears DEF Stops
<1> QED BY <1>3, <1>4

LEMMA FinishedHears ==
  ASSUME HearInv, NEW t \in Tasks,
         StartFinished(t) \/ FailureEmitted(t) \/ SteerEmitted(t) \/ SteerBack(t)
  PROVE  Hears'
<1>1. Ends(t)
  BY FinishedHandoff, HearParts
<1>2. UNCHANGED <<running, processed, active, notices>> /\ task[t].pc # "started"
  BY DEF StartFinished, FailureEmitted, SteerEmitted, SteerBack
<1> QED BY <1>1, <1>2, SettlesHears DEF Settles

LEMMA EmittedHears ==
  ASSUME HearInv, NEW t \in Tasks, Emitted(t)
  PROVE  Hears'
<1>1. CASE \/ HoldEmitted(t) \/ HeldEmitted(t) \/ ClearEmitted(t) \/ UnlockEmitted(t)
           \/ TerminalEmitted(t) \/ BlockEmitted(t) \/ SteerLeaves(t, "leaving") \/ InputEdited(t)
  <2>1. Moves(t)
    BY <1>1, HoldEmittedHandoff, BlockedHandoff, ClearHandoff, UnlockHandoff,
       TerminalEmittedHandoff, EditHandoff, HearParts
  <2>2. UNCHANGED <<handoff, active, starts, began, notices>>
    BY <1>1 DEF HoldEmitted, HeldEmitted, ClearEmitted, UnlockEmitted, TerminalEmitted,
                BlockEmitted, SteerLeaves, InputEdited
  <2>3. task[t].pc # "started"
    BY <1>1 DEF HoldEmitted, HeldEmitted, ClearEmitted, UnlockEmitted, TerminalEmitted,
                BlockEmitted, SteerLeaves, InputEdited, MayEdit
  <2> QED BY <2>1, <2>2, <2>3, CalmMove, CalmHears
<1> QED BY <1>1, StartEmittedHears, FinishedHears DEF Emitted

LEMMA AcknowledgedHears ==
  ASSUME HearInv, NEW t \in Tasks, StartAcknowledged(t)
  PROVE  Hears'
<1> DEFINE turn == TurnOf(task[t].entry)
           c    == [task[t] EXCEPT !.pc = "started", !.early = TerminalOf(admission') # {}]
<1>1. task[t].pc = "starting" /\ Hands(task[t]) /\ running = NoTurn
  BY HearParts DEF StartAcknowledged, Hands, StartsAlone
<1>2. admission.phase = "starting" /\ admission.kind = "start" /\ admission.attempt = t
  BY <1>1, AloneInHandoff, HearParts DEF Keeping
<1>3. /\ admission' = [admission EXCEPT !.phase = "acknowledged", !.turn = turn]
      /\ running' = IF TerminalOf(admission') = {} THEN turn ELSE NoTurn
  BY <1>1, <1>2 DEF StartAcknowledged, Acknowledge, RunningAfterStart
<1>4. /\ admission'.phase = "acknowledged" /\ admission'.turn = turn
      /\ admission'.kind = "start" /\ admission'.terminals = admission.terminals
  BY <1>2, <1>3, HearParts DEF Admission
<1>5. task' = [task EXCEPT ![t] = c]
  BY DEF StartAcknowledged
<1>6. c.pc = "started" /\ c.early = (TerminalOf(admission') # {})
  BY HearParts DEF Chain
<1> HIDE DEF c
<1>7. Others(t) /\ task'[t] = c
  BY <1>5, OnlyOne, HearParts
<1>8. NoneStarts
  BY <1>1, <1>6, <1>7, AloneInHandoff DEF NoneStarts, Others
<1>9. began => UNCHANGED active
  BY DEF StartAcknowledged
<1>10. UNCHANGED <<processed, notices>>
  BY DEF StartAcknowledged
<1>11. Believed'
  <2> SUFFICES ASSUME running' # NoTurn PROVE running' \notin processed' /\ Told(running)'
    BY DEF Believed, Awaited
  <2>1. running' = turn
    BY <1>3
  <2>2. CASE began
    <3>1. Awaited(turn)
      BY <1>1, <2>2, HearParts DEF Begun
    <3> HIDE DEF turn
    <3> QED BY <1>4, <1>9, <1>10, <2>1, <2>2, <3>1 DEF Awaited, Told
  <2>3. CASE ~began
    <3>1. turn \notin processed
      BY <1>1, <2>3, HearParts DEF TurnsKnown, Asking, Seen
    <3>2. active' = turn
      BY <2>3 DEF StartAcknowledged
    <3> HIDE DEF turn
    <3> QED BY <1>10, <2>1, <3>1, <3>2 DEF Told
  <2> QED BY <2>2, <2>3
<1>12. Keeping'
  <2>1. running' # NoTurn => running' = turn /\ task'[t].pc = "started" /\ ~task'[t].early
    BY <1>3, <1>6, <1>7
  <2> HIDE DEF turn
  <2> QED BY <1>4, <1>8, <2>1 DEF Keeping, NoneStarts
<1> QED BY <1>8, <1>11, <1>12 DEF Hears, Begun, NoneStarts

LEMMA SteerAcceptedHears ==
  ASSUME HearInv, NEW t \in Tasks, SteerAccepted(t)
  PROVE  Hears'
<1>1. /\ task[t].pc = "steering" /\ Hands(task[t])
      /\ UNCHANGED <<running, processed, active, notices>>
  BY DEF SteerAccepted, Hands
<1>2. /\ admission'.terminals = admission.terminals
      /\ admission'.kind = admission.kind
      /\ admission'.phase = "idle" <=> admission.phase = "idle"
  BY HearParts DEF SteerAccepted, Acknowledge, Admission
<1>3. Moves(t)
  BY SteerAcceptedHandoff, HearParts
<1>4. NoneStarts
  BY <1>1, <1>3, AloneInHandoff DEF NoneStarts, Others
<1>5. admission.kind = "start" => running = NoTurn
  BY <1>1, AloneInHandoff
<1>6. Keeping'
  BY <1>1, <1>2, <1>4, <1>5, HearParts DEF Keeping, NoneStarts
<1>7. Believed'
  BY <1>1, <1>2, HearParts DEF Believed, Awaited, Told
<1> QED BY <1>4, <1>6, <1>7 DEF Hears, Begun, NoneStarts

LEMMA AnswerHears ==
  ASSUME HearInv, NEW t \in Tasks, Answer(t)
  PROVE  Hears'
<1>1. CASE DirectStartRejected(t)
  <2>1. task[t].pc = "starting" /\ Hands(task[t]) /\ UNCHANGED <<running, admission>>
    BY <1>1 DEF DirectStartRejected, Refuse, Hands
  <2>2. running = NoTurn /\ Moves(t)
    BY <1>1, <2>1, DirectStartRejectedHandoff, HearParts DEF StartsAlone
  <2>3. NoneStarts
    BY <2>1, <2>2, AloneInHandoff DEF NoneStarts, Others
  <2> QED BY <2>1, <2>2, <2>3, StopsHears DEF Stops
<1>2. ASSUME NEW r, QueuedStartRejected(t, r) \/ SteerRejected(t, r)  PROVE Hears'
  <2>1. Ends(t)
    BY <1>2, RejectedHandoff, HearParts
  <2>2. /\ UNCHANGED <<running, processed, active>> /\ notices \subseteq notices'
        /\ task[t].pc # "started"
    BY <1>2 DEF QueuedStartRejected, SteerRejected, Refuse
  <2> QED BY <2>1, <2>2, SettlesHears DEF Settles
<1>3. ASSUME NEW retry \in BOOLEAN, SteerDeclined(t, retry)  PROVE Hears'
  <2>1. /\ task[t].pc = "steering" /\ Hands(task[t])
        /\ UNCHANGED <<running, processed, active, starts, began, notices>>
    BY <1>3, HearParts DEF SteerDeclined, Hands, Chain
  <2>2. Moves(t)
    BY <1>3, SteerDeclinedHandoff, HearParts
  <2>3. CASE UNCHANGED admission
    <3>1. ChainsStay
      BY <2>1, <2>2, OthersStay
    <3> QED BY <2>1, <2>3, <3>1, CalmHears DEF Calm, TurnsAsTheyAre
  <2>4. CASE admission' = Settle(admission, t) /\ Return(t)
    <3>1. ~Hands(task'[t])
      BY <2>4, ReturnEnds, HearParts
    <3> QED BY <2>1, <2>2, <2>4, <3>1, SettlesHears DEF Settles, Ends
  <2> QED BY <1>3, <2>3, <2>4 DEF SteerDeclined
<1> QED BY <1>1, <1>2, <1>3, AcknowledgedHears, SteerAcceptedHears DEF Answer

LEMMA ClaimHears ==
  ASSUME HearInv, NEW t \in Tasks, NEW ctx, NEW can, Claim(t, ctx, can)
  PROVE  Hears'
<1> DEFINE e     == Dispatchable(can)
           steer == Steerable(e, can)
           d     == Detached(task, RemoveAt(queue, NextWaiting(queue)))
<1>1. PICK c : /\ c.pc = IF steer THEN "steering" ELSE "starting"
               /\ task' = [d EXCEPT ![t] = c]
  <2> DEFINE c == [IdleTask EXCEPT !.pc = IF steer THEN "steering" ELSE "starting",
                                   !.ctx = ctx, !.entry = e,
                                   !.rev = IF steer THEN revision' ELSE 0,
                                   !.prev = IF NextWaiting(queue) > 1
                                            THEN queue[NextWaiting(queue) - 1] ELSE NoEntry]
  <2>1. task' = [d EXCEPT ![t] = c]
    BY DEF Claim
  <2> HIDE DEF e, d, steer
  <2>2. c.pc = IF steer THEN "steering" ELSE "starting"
    BY DEF IdleTask
  <2> QED BY <2>1, <2>2
<1>2. d \in [Tasks -> Chain]
  BY AllParts, HearParts, DetachedType
<1>3. Begins(t)
  BY ClaimHandoff, HearParts
<1>4. admission' = Begin(admission, t, IF steer THEN "steer" ELSE "start")
  BY DEF Claim
<1>5. TurnsAsTheyAre /\ ~began'
  BY DEF Claim, TurnsAsTheyAre
<1> HIDE DEF d, e, steer
<1>6. task'[t] = c
  BY <1>1, <1>2
<1>7. HandsOver(t)
  BY <1>1, <1>3, <1>4, <1>5, <1>6 DEF HandsOver
<1> QED BY <1>7, HandsOverHears

LEMMA StartEntryHears ==
  ASSUME HearInv, NEW t \in Tasks, NEW e, NEW ctx, StartEntry(t, e, ctx), Begins(t),
         UNCHANGED <<processed, active, notices>>
  PROVE  Hears'
<1> DEFINE c == [IdleTask EXCEPT !.pc = "starting", !.ctx = ctx, !.entry = e]
<1>1. task' = [task EXCEPT ![t] = c] /\ admission' = Begin(admission, t, "start") /\ ~began'
  BY DEF StartEntry
<1>2. c.pc = "starting"
  BY DEF IdleTask
<1> HIDE DEF c
<1>3. task'[t].pc = "starting"
  BY <1>1, <1>2, OnlyOne, HearParts
<1> QED BY <1>1, <1>3, HandsOverHears DEF HandsOver, TurnsAsTheyAre

(* The release of turn x, or of whichever turn is running. *)
LEMMA SettleReleaseStops ==
  ASSUME NEW t \in Tasks, NEW tk, NEW x, NEW s, NEW then, SettleRelease(t, tk, x, s, then),
         running = NoTurn \/ x \in {NoTurn, running}
  PROVE  running' = NoTurn /\ (x = NoTurn => UNCHANGED processed)
BY DEF SettleRelease

LEMMA ReleaseRefusedHears ==
  ASSUME HearInv, NEW t \in Tasks, ReleaseRefused(t)
  PROVE  Hears'
<1>1. UNCHANGED <<admission, active, starts, began, notices>> /\ task[t].pc = "refused"
  BY DEF ReleaseRefused
<1>2. Moves(t)
  BY ReleaseRefusedHandoff, HearParts
<1>3. ChainsStay
  BY <1>1, <1>2, OthersStay
<1>4. CASE pendingRelease
  <2>1. running' = NoTurn /\ UNCHANGED processed
    BY <1>4, SettleReleaseStops DEF ReleaseRefused
  <2> QED BY <1>1, <1>3, <2>1, FreesHears DEF Frees
<1>5. CASE ~pendingRelease
  <2>1. UNCHANGED <<running, processed>>
    BY <1>5 DEF ReleaseRefused
  <2> QED BY <1>1, <1>3, <2>1, CalmHears DEF Calm, TurnsAsTheyAre
<1> QED BY <1>4, <1>5

LEMMA ProceedHears ==
  ASSUME HearInv, NEW t \in Tasks, Proceed(t)
  PROVE  Hears'
<1>1. CASE StartNext(t)
  <2>1. CASE \E can \in BOOLEAN : Claim(t, task[t].ctx, can)
    BY <2>1, ClaimHears
  <2>2. CASE Return(t) /\ UNCHANGED <<handoff, provider>>
    <3>1. Moves(t) /\ task[t].pc # "started"
      BY <1>1, <2>2, ReturnEnds, HearParts DEF StartNext
    <3> QED BY <2>2, <3>1, CalmMove, CalmHears
  <2> QED BY <1>1, <2>1, <2>2 DEF StartNext
<1>2. CASE \/ MoveEntry(t) \/ PauseEntry(t) \/ ResumeEntry(t) \/ SteerLeaves(t, "left")
           \/ ClearQueueHold(t)
  <2>1. Moves(t)
    BY <1>2, EditHandoff, ClearHandoff, HearParts
  <2>2. UNCHANGED <<handoff, active, starts, began, notices>> /\ task[t].pc # "started"
    BY <1>2 DEF MoveEntry, PauseEntry, ResumeEntry, SteerLeaves, ClearQueueHold, MayEdit
  <2> QED BY <2>1, <2>2, CalmMove, CalmHears
<1>3. CASE SubmitSteer(t)
  <2>1. UNCHANGED <<running, processed, active, notices>> /\ task[t].pc = "editing"
    BY <1>3 DEF SubmitSteer, MayEdit
  <2>2. CASE /\ StartEntry(t, task[t].entry, "edit")
             /\ admission.phase = "idle" /\ running = NoTurn /\ ~GateHolds(task[t].entry)
    <3>1. Begins(t)
      BY <2>1, <2>2, StartEntryBegins, HearParts
    <3> QED BY <2>1, <2>2, <3>1, StartEntryHears
  <2>3. CASE /\ task' = [task EXCEPT ![t].pc = "leaving"]
             /\ UNCHANGED <<admission, admitted, starts, began>>
    <3> DEFINE c == [task[t] EXCEPT !.pc = "leaving"]
    <3>1. c.pc = "leaving"
      BY HearParts DEF Chain
    <3>2. task' = [task EXCEPT ![t] = c]
      BY <2>3
    <3> HIDE DEF c
    <3>3. Others(t) /\ task'[t] = c
      BY <3>2, OnlyOne, HearParts
    <3> QED BY <2>1, <2>3, <3>1, <3>3, CalmMove, CalmHears
  <2> QED BY <1>3, <2>2, <2>3 DEF SubmitSteer
<1> QED BY <1>1, <1>2, <1>3, FinishedHears, ReleaseRefusedHears DEF Proceed

LEMMA SubmissionHears ==
  ASSUME HearInv, Submission
  PROVE  Hears'
<1>1. ASSUME \/ \E e \in Entries : Enqueue(e) \/ SubmitProjectHeld(e) \/ EditInput(e)
             \/ ScheduleThreadDrain \/ Close
      PROVE  Hears'
  <2>1. UNCHANGED <<handoff, active, starts, began, notices, task>>
    BY <1>1 DEF Enqueue, SubmitProjectHeld, EditInput, ScheduleThreadDrain, Close
  <2> QED BY <2>1, CalmRest, CalmHears
<1>2. ASSUME NEW e \in Entries, CancelEntry(e)  PROVE Hears'
  <2>1. UNCHANGED <<handoff, active, starts, began, notices>>
    BY <1>2 DEF CancelEntry
  <2>2. \A u \in Tasks : /\ task'[u].pc = task[u].pc /\ task'[u].entry = task[u].entry
                         /\ task'[u].early = task[u].early
    BY <1>2, AllParts, HearParts, DetachedType DEF CancelEntry
  <2> QED BY <2>1, <2>2, CalmRest, CalmHears
<1>3. ASSUME NEW t \in Tasks, NEW e \in Entries, StartNow(t, e)  PROVE Hears'
  <2>1. Begins(t)
    BY <1>3, StartNowHandoff, HearParts
  <2> QED BY <1>3, <2>1, StartEntryHears DEF StartNow
<1>4. ASSUME NEW t \in Tasks, NEW c, task' = [task EXCEPT ![t] = c], c.pc # "starting",
             Free(t), UNCHANGED <<handoff, active, starts, began, notices>>
      PROVE  Hears'
  <2>1. Others(t) /\ task'[t] = c
    BY <1>4, OnlyOne, HearParts
  <2> QED BY <1>4, <2>1, CalmMove, CalmHears DEF Free
<1>5. ASSUME NEW t \in Tasks, NEW e \in Entries, EditsEntry(t, e) \/ EditsSteer(t, e) \/ Retry(t, e)
      PROVE  Hears'
  <2>1. PICK op, before : EnterEdit(t, op, e, before)
    BY <1>5 DEF EditsEntry, EditsSteer, Retry
  <2> DEFINE c == [IdleTask EXCEPT !.pc = "editing", !.ctx = "edit",
                                   !.op = op, !.entry = e, !.prev = before]
  <2>2. c.pc = "editing"
    BY DEF IdleTask
  <2>3. /\ task' = [task EXCEPT ![t] = c] /\ Free(t)
        /\ UNCHANGED <<handoff, active, starts, began, notices>>
    BY <2>1 DEF EnterEdit
  <2> HIDE DEF c
  <2> QED BY <1>4, <2>2, <2>3
<1>6. ASSUME NEW t \in Tasks, NEW e \in Entries, NEW r, SubmitHeld(t, e, r)  PROVE Hears'
  <2> DEFINE c == [IdleTask EXCEPT !.pc = "queuedHeld", !.reason = r]
  <2>1. c.pc = "queuedHeld"
    BY DEF IdleTask
  <2>2. /\ task' = [task EXCEPT ![t] = c] /\ Free(t)
        /\ UNCHANGED <<handoff, active, starts, began, notices>>
    BY <1>6 DEF SubmitHeld
  <2> HIDE DEF c
  <2> QED BY <1>4, <2>1, <2>2
<1>7. ASSUME NEW t \in Tasks, ReleaseHold(t)  PROVE Hears'
  <2>1. Moves(t)
    BY <1>7, UnlockHandoff, HearParts
  <2>2. UNCHANGED <<handoff, active, starts, began, notices>> /\ task[t].pc # "started"
    BY <1>7 DEF ReleaseHold, Free
  <2> QED BY <2>1, <2>2, CalmMove, CalmHears
<1> QED BY <1>1, <1>2, <1>3, <1>5, <1>6, <1>7 DEF Submission

(* The step leaves the queue as it is: it hears of every turn it waits for. *)
LEMMA RestHears ==
  ASSUME HearInv, UNCHANGED <<running, task, processed>>,
         UNCHANGED <<starts, began>>, Keeping',
         \A u : u # NoTurn /\ Told(u) =>
           \/ Told(u)'
           \/ u # running /\ \A t \in Tasks : task[t].pc = "starting" => u # TurnOf(task[t].entry)
  PROVE  Hears'
<1>1. Believed'
  BY HearParts DEF Believed, Awaited
<1>2. Begun'
  <2> SUFFICES ASSUME NEW t \in Tasks, task[t].pc = "starting", began
               PROVE  Awaited(TurnOf(task[t].entry))'
    BY DEF Begun
  <2>1. TurnOf(task[t].entry)' = TurnOf(task[t].entry)
    BY DEF TurnOf
  <2>2. Awaited(TurnOf(task[t].entry)) /\ TurnOf(task[t].entry) # NoTurn
    BY HearParts DEF Begun
  <2>3. \A u : u = TurnOf(task[t].entry) => u \notin processed' /\ Told(u)'
    BY <2>2 DEF Awaited
  <2> QED BY <2>1, <2>3 DEF Awaited, Told
<1> QED BY <1>1, <1>2 DEF Hears

LEMMA ReportHears ==
  ASSUME HearInv, ~EndDropped, NEW n, Report(n)
  PROVE  Hears'
<1>1. /\ n \in notices /\ notices' = notices \ {n}
      /\ UNCHANGED <<active, starts, began>>
  BY DEF Report, ReleaseBuffered, ReleaseIgnored, ReleaseCoalesced, Release, Take
<1>2. ASSUME NEW t \in Tasks, task[t].pc = "starting", ~Buffers(n)  PROVE n.turn = NoTurn
  BY <1>2, HearParts DEF Buffers, Keeping
<1>3. CASE ReleaseIgnored(n) \/ ReleaseCoalesced(n)
  <2>1. UNCHANGED <<handoff, task>>
    BY <1>3 DEF ReleaseIgnored, ReleaseCoalesced
  <2>2. Keeping'
    BY <2>1, HearParts DEF Keeping
  <2>3. n.turn # NoTurn => n.turn # running
    BY <1>1, <1>3 DEF EndDropped, ReleaseCoalesced
  <2>4. ASSUME NEW t \in Tasks, task[t].pc = "starting", n.turn # NoTurn,
               n.turn = TurnOf(task[t].entry), Told(n.turn), ~Told(n.turn)'
        PROVE  FALSE
    <3>1. ReleaseIgnored(n) /\ n.turn \in processed
      BY <1>2, <1>3, <2>4 DEF ReleaseIgnored, ReleaseCoalesced
    <3>2. CASE began
      BY <2>4, <3>1, <3>2, HearParts DEF Begun, Awaited
    <3>3. CASE ~began
      BY <2>4, <3>1, <3>3, HearParts DEF TurnsKnown, Asking, Seen
    <3> QED BY <3>2, <3>3
  <2>5. \A u : u # NoTurn /\ Told(u) /\ u # n.turn => Told(u)'
    BY <1>1, <2>1 DEF Told
  <2>6. \A u : u # NoTurn /\ Told(u) =>
          \/ Told(u)'
          \/ u # running /\ \A t \in Tasks : task[t].pc = "starting" => u # TurnOf(task[t].entry)
    BY <2>3, <2>4, <2>5
  <2> QED BY <1>1, <2>1, <2>2, <2>6, RestHears
<1>4. CASE ReleaseBuffered(n)
  <2>1. admission' = RecordTerminal(admission, n) /\ Buffers(n) /\ UNCHANGED <<running, task, processed>>
    BY <1>4 DEF ReleaseBuffered
  <2>2. /\ admission'.phase = admission.phase /\ admission'.kind = admission.kind
        /\ admission'.turn = admission.turn
        /\ admission'.terminals \in {admission.terminals, admission.terminals \union {n}}
        /\ \E x \in admission'.terminals : x.turn = n.turn
    BY <2>1, HearParts DEF RecordTerminal, Buffers, Admission
  <2>3. Keeping'
    BY <2>1, <2>2, HearParts DEF Keeping, Buffers
  <2>4. \A u : Told(u) => Told(u)'
    BY <1>1, <2>2 DEF Told
  <2> QED BY <1>1, <2>1, <2>3, <2>4, RestHears
<1>5. ASSUME NEW t \in Tasks, Release(t, n)  PROVE Hears'
  <2>1. Moves(t) /\ task[t].pc = "idle" /\ UNCHANGED admission /\ ~Buffers(n)
    BY <1>5, ReleaseHandoff, HearParts DEF Release, Free
  <2>2. ChainsStay
    BY <2>1, OthersStay
  <2>3. running' = NoTurn /\ (n.turn = NoTurn => UNCHANGED processed)
    BY <1>5, SettleReleaseStops DEF Release, OfOtherTurn
  <2> QED BY <1>1, <1>2, <2>1, <2>2, <2>3, FreesHears DEF Frees
<1> QED BY <1>3, <1>4, <1>5 DEF Report

LEMMA BackendHears ==
  ASSUME HearInv, Backend
  PROVE  Hears'
<1>1. UNCHANGED <<task, running, processed, admission>>
  BY DEF Backend, TurnBegins, ExternalTurnBegins, IdleReported, TurnEnds, OutcomeRepeated, Notify
<1>2. Keeping'
  BY <1>1, HearParts DEF Keeping
<1>3. ASSUME NEW t \in Tasks, TurnBegins(t)  PROVE Hears'
  <2>1. /\ task[t].pc = "starting" /\ ~began /\ active' = TurnOf(task[t].entry)
        /\ Hands(task[t]) /\ UNCHANGED <<starts, notices>>
    BY <1>3 DEF TurnBegins, Hands
  <2>2. running = NoTurn
    BY <2>1, HearParts DEF StartsAlone
  <2>3. TurnOf(task[t].entry) \notin processed
    BY <2>1, HearParts DEF TurnsKnown, Asking, Seen
  <2>4. Begun'
    <3> SUFFICES ASSUME NEW u \in Tasks, task[u].pc = "starting"
                 PROVE  Awaited(TurnOf(task[u].entry))'
      BY <1>1 DEF Begun
    <3>1. u = t
      BY <2>1, AloneInHandoff
    <3>2. TurnOf(task[u].entry)' = active'
      BY <1>1, <2>1, <3>1 DEF TurnOf
    <3> QED BY <1>1, <2>1, <2>3, <3>1, <3>2 DEF Awaited, Told
  <2> QED BY <1>1, <1>2, <2>2, <2>4 DEF Hears, Believed
<1>4. CASE ExternalTurnBegins
  <2>1. active = NoTurn /\ UNCHANGED <<began, notices>>
        /\ \A e \in Entries : starts'[e] = starts[e]
    <3>1. starts \in [AnyEntry -> Nat]
      BY HearParts, TurnParts
    <3>2. \A e \in Entries : e \in AnyEntry /\ e # NoEntry
      BY TurnOfIs, HearParts
    <3> QED BY <1>4, <3>1, <3>2 DEF ExternalTurnBegins
  <2>2. \A u : u # NoTurn /\ Awaited(u) => Awaited(u)'
    BY <1>1, <2>1 DEF Awaited, Told
  <2>3. Believed'
    BY <1>1, <2>2, HearParts DEF Believed
  <2>4. Begun'
    <3> SUFFICES ASSUME NEW u \in Tasks, task[u].pc = "starting", began
                 PROVE  Awaited(TurnOf(task[u].entry))'
      BY <1>1, <2>1 DEF Begun
    <3>1. TurnOf(task[u].entry)' = TurnOf(task[u].entry)
      BY <1>1, <2>1, HearParts DEF TurnOf
    <3>2. Awaited(TurnOf(task[u].entry)) /\ TurnOf(task[u].entry) # NoTurn
      BY HearParts DEF Begun
    <3> QED BY <1>1, <2>1, <3>1, <3>2 DEF Awaited, Told
  <2> QED BY <1>2, <2>3, <2>4 DEF Hears
<1>5. ASSUME NEW n, Notify(n), active' = active \/ n.turn = active
      PROVE  Hears'
  <2>1. UNCHANGED <<starts, began>>
    BY <1>5 DEF Notify
  <2>2. notices \subseteq notices' /\ n \in notices'
    BY <1>5 DEF Notify
  <2>3. \A u : Told(u) => Told(u)'
    BY <1>1, <1>5, <2>2 DEF Told
  <2> QED BY <1>1, <1>2, <2>1, <2>3, RestHears
<1>6. ASSUME NEW s, TurnEnds(s)  PROVE Hears'
  BY <1>5, <1>6 DEF TurnEnds
<1>7. CASE IdleReported
  BY <1>5, <1>7 DEF IdleReported
<1>8. ASSUME NEW turn \in processed, OutcomeRepeated(turn)  PROVE Hears'
  BY <1>5, <1>8 DEF OutcomeRepeated
<1> QED BY <1>3, <1>4, <1>6, <1>7, <1>8 DEF Backend

LEMMA HearsInit == Init => HearInv
<1> SUFFICES ASSUME Init PROVE HearInv
  OBVIOUS
<1>1. running = NoTurn /\ admission.phase = "idle" /\ admission.terminals = {}
  BY DEF Init, IdleAdmission
<1>2. \A t \in Tasks : task[t].pc = "idle"
  BY DEF Init, IdleTask
<1> QED BY <1>1, <1>2, TurnsInit DEF HearInv, Hears, Believed, Begun, Keeping

LEMMA HearsNext == HearInv /\ [Next /\ ~EndDropped]_vars => HearInv'
<1> SUFFICES ASSUME HearInv, [Next /\ ~EndDropped]_vars PROVE HearInv'
  OBVIOUS
<1>1. TurnInv'
  BY TurnsNext DEF HearInv
<1>2. ASSUME DrainFires  PROVE Hears'
  <2>1. CASE \E can \in BOOLEAN, t \in Tasks : Claim(t, "drain", can)
    BY <2>1, ClaimHears
  <2>2. CASE UNCHANGED <<handoff, task, provider>>
    BY <2>2, CalmRest, CalmHears
  <2> QED BY <1>2, <2>1, <2>2 DEF DrainFires
<1>3. ASSUME GateDue \/ GateOpens \/ GateQuiets \/ UNCHANGED vars  PROVE Hears'
  <2>1. UNCHANGED <<handoff, task, active, starts, began, notices>>
    BY <1>3 DEF GateDue, GateOpens, GateQuiets, GateMoves, vars
  <2> QED BY <2>1, CalmRest, CalmHears
<1>4. ASSUME Next, ~EndDropped  PROVE Hears'
  BY <1>2, <1>3, <1>4, ProceedHears, EmittedHears, AnswerHears, ReportHears,
     SubmissionHears, BackendHears DEF Next
<1>5. Hears'
  BY <1>3, <1>4
<1> QED BY <1>1, <1>5 DEF HearInv

LEMMA HeardNoGhost == HearInv => NoGhostRunning
<1> SUFFICES ASSUME HearInv, Quiet, notices = {}, running # NoTurn PROVE active = running
  BY DEF NoGhostRunning
<1>1. \A t \in Tasks : ~Hands(task[t])
  BY DEF Quiet, Free, Hands, Later
<1>2. admission.phase = "idle"
  BY <1>1, HearParts, HandsIsInHandoff DEF OneHandoff
<1> QED BY <1>2, HearParts DEF Believed, Awaited, Told, Keeping

(* Once every outcome is delivered and every chain is done, a running      *)
(* entry's turn is really running, as long as releaseThread does not drop  *)
(* the end of the running turn while another release is under way: outcomes *)
(* that come before the acknowledgement, late or twice, idle reports and    *)
(* refusals leave no turn behind (startEntry, settleRelease, releaseThread).*)
THEOREM RunningTurnsRun == HeededSpec => []NoGhostRunning
BY HearsInit, HearsNext, HeardNoGhost, PTL DEF HeededSpec
=============================================================================
