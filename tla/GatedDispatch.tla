--------------------------- MODULE GatedDispatch ---------------------------
(* What the turn queues rely on of the quiet-restart gate, one entry per   *)
(* thread: an entry is handed to the backend only while the gate leaves it *)
(* free, and whenever an entry comes to be free while it waits, its        *)
(* thread's FIFO is asked to look again.  No clock, no timer, no schedule. *)
CONSTANT Entries

VARIABLES
  phase,      \* "open", "resuming" or "quieting"
  due,        \* while resuming: the entries whose time has come
  waiting,    \* entries in their FIFO that nothing but the gate holds back
  asked,      \* of those, the ones whose FIFO is going to be looked at
  starting    \* entries at the backend

vars == <<phase, due, waiting, asked, starting>>

Free(e) == phase = "open" \/ e \in due

Init ==
  /\ phase = "resuming"
  /\ due = {}
  /\ waiting \in SUBSET Entries
  /\ asked = {}
  /\ starting = {}

(* The times of some entries come.                                         *)
Due(S) ==
  /\ phase = "resuming"
  /\ due' = due \union S
  /\ asked' = asked \union (S \intersect waiting)
  /\ UNCHANGED <<phase, waiting, starting>>

(* The gate opens, by itself or as one entry, the last it waited for,      *)
(* leaves its FIFO or the backend.                                         *)
Opens(gone) ==
  /\ phase = "resuming"
  /\ phase' = "open"
  /\ due' = {}
  /\ waiting' = waiting \ gone
  /\ asked' = waiting'
  /\ starting' = starting \ gone

Quiets ==
  /\ phase # "quieting"
  /\ phase' = "quieting"
  /\ due' = {}
  /\ asked' \in SUBSET asked
  /\ UNCHANGED <<waiting, starting>>

Ask(e) ==
  /\ e \in waiting
  /\ asked' = asked \union {e}
  /\ UNCHANGED <<phase, due, waiting, starting>>

(* A FIFO is looked at and its entry stays.                                *)
Stays(e) ==
  /\ e \in asked /\ ~Free(e)
  /\ asked' = asked \ {e}
  /\ UNCHANGED <<phase, due, waiting, starting>>

Starts(e) ==
  /\ e \in asked /\ Free(e)
  /\ waiting' = waiting \ {e}
  /\ asked' = asked \ {e}
  /\ starting' = starting \union {e}
  /\ UNCHANGED <<phase, due>>

(* An entry is cancelled, held or paused, or the backend answers for it.   *)
Leaves(e) ==
  /\ e \in waiting \union starting
  /\ waiting' = waiting \ {e}
  /\ asked' = asked \ {e}
  /\ starting' = starting \ {e}
  /\ UNCHANGED <<phase, due>>

(* A hold or a pause ends, and the FIFO is looked at.                      *)
Returns(e) ==
  /\ e \notin waiting \union starting
  /\ waiting' = waiting \union {e}
  /\ asked' = asked \union {e}
  /\ UNCHANGED <<phase, due, starting>>

Next ==
  \/ \E S \in SUBSET Entries : Due(S)
  \/ \E S \in {{}} \union {{e} : e \in Entries} : Opens(S)
  \/ Quiets
  \/ \E e \in Entries :
       Ask(e) \/ Stays(e) \/ Starts(e) \/ Leaves(e) \/ Returns(e)

Spec == Init /\ [][Next]_vars

-----------------------------------------------------------------------------
TypeOK ==
  /\ phase \in {"open", "resuming", "quieting"}
  /\ due \subseteq Entries
  /\ waiting \subseteq Entries
  /\ asked \subseteq waiting
  /\ starting \subseteq Entries \ waiting

(* No entry is forgotten by the gate: one that waits and is free has its   *)
(* FIFO asked to look, so drainAll and the dispatch timers leave none that *)
(* nothing will start (backend-registry.ts:22720, 22971).                  *)
FreeIsAsked == \A e \in waiting : Free(e) => e \in asked

DispatchInv == TypeOK /\ FreeIsAsked
=============================================================================
