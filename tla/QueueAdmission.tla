--------------------------- MODULE QueueAdmission ---------------------------
(***************************************************************************)
(* The handoff of one queue entry to the backend, as a state machine       *)
(* (queue-admission.ts).  An admission is idle, starting (the backend has  *)
(* been asked and has not answered) or acknowledged (it answered with a    *)
(* turn, and the queue is still publishing that).  The attempt names the   *)
(* promise chain that began it; a late answer of another chain is ignored. *)
(*                                                                         *)
(* A terminal is the outcome of a turn: [turn |-> t, status |-> s].  The   *)
(* terminals that arrive during an admission are kept, the first one of    *)
(* each turn, because only the acknowledgement says which turn they end.   *)
(***************************************************************************)
EXTENDS Naturals

CONSTANT NoAttempt

NoTurn    == <<0, 0>>

IdleAdmission ==
  [phase |-> "idle", attempt |-> NoAttempt, kind |-> "start",
   terminals |-> {}, turn |-> NoTurn]

Begin(a, attempt, kind) ==
  IF a.phase = "idle"
  THEN [IdleAdmission EXCEPT !.phase = "starting", !.attempt = attempt, !.kind = kind]
  ELSE a

RecordTerminal(a, terminal) ==
  IF a.phase = "idle" \/ \E x \in a.terminals : x.turn = terminal.turn
  THEN a
  ELSE [a EXCEPT !.terminals = @ \union {terminal}]

Acknowledge(a, attempt, turn) ==
  IF a.phase = "starting" /\ a.attempt = attempt
  THEN [a EXCEPT !.phase = "acknowledged", !.turn = turn]
  ELSE a

Settle(a, attempt) ==
  IF a.phase # "idle" /\ a.attempt = attempt THEN IdleAdmission ELSE a

(* The terminal of the acknowledged turn: at most one record. *)
TerminalOf(a) ==
  IF a.phase = "acknowledged" THEN {x \in a.terminals : x.turn = a.turn} ELSE {}
=============================================================================
