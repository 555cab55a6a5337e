--------------------------- MODULE MessageDelivery ---------------------------
(* What a turn queue promises for the messages it accepts.  A message waits *)
(* until the backend is asked to take it, alone or grouped with others, and *)
(* nothing else is asked meanwhile.  The backend takes all it was asked for *)
(* or none: then all wait again, or the caller is told that they failed.    *)
(* Only what waits can be cancelled, and what was taken, cancelled or       *)
(* failed is never handed over again.  No FIFO, no holds, no await.         *)
CONSTANT Messages

VARIABLE at     \* where each message is

At(place) == {m \in Messages : at[m] = place}

Move(M, place) == at' = [m \in Messages |-> IF m \in M THEN place ELSE at[m]]

(* Some messages wait from the start: a quiet restart put them back.        *)
Init ==
  \E kept \in SUBSET Messages :
    at = [m \in Messages |-> IF m \in kept THEN "waiting" ELSE "unsent"]

Accept(m) == Move({m}, "waiting")

NothingAsked == At("asked") = {}

(* A message that need not wait.                                            *)
AskAtOnce(m) == NothingAsked /\ Move({m}, "asked")

Ask(M) == NothingAsked /\ Move(M, "asked")

Deliver == Move(At("asked"), "delivered")

PutBack == Move(At("asked"), "waiting")

Fail == Move(At("asked"), "failed")

Cancel(M) == Move(M, "cancelled")

Next ==
  \/ \E m \in At("unsent") : Accept(m) \/ AskAtOnce(m)
  \/ \E M \in SUBSET At("waiting") : Ask(M) \/ Cancel(M)
  \/ Deliver \/ PutBack \/ Fail

Spec == Init /\ [][Next]_at
=============================================================================
