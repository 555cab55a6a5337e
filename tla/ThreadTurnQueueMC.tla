------------------------- MODULE ThreadTurnQueueMC -------------------------
(* ThreadTurnQueue with a small number of promise chains, which are        *)
(* interchangeable: nothing orders them.                                   *)
EXTENDS ThreadTurnQueue

(* Which entries were edited matters while a message may still join them.  *)
Joining == \E m \in Batches : fate[m] \in {"unsent", "sending"}

View ==
  <<queue, paused, project, held, batch, hold, handoff, release, sched, task, provider, history,
    IF Joining THEN edited \intersect {m \in Entries : fate[m] = "open"} ELSE {}>>

TaskSymmetry == Permutations(Tasks)
=============================================================================
