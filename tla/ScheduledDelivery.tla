-------------------------- MODULE ScheduledDelivery --------------------------
(* What the processes of a profile promise for a message scheduled for       *)
(* later.  One process claims it, hands it over at most once, and says what  *)
(* became of it; whoever finds its claimant dead gives up, or schedules it   *)
(* again if it was not handed over.  A message that a person holds, or that  *)
(* its claimant handed over as it died, is loose: nothing is promised for it *)
(* any more.  No leases, no queue, no events, no await.                      *)
EXTENDS Naturals

CONSTANTS Messages, Processes, Nobody

VARIABLES
  live,      \* the processes that run
  message    \* of each: where it is, who claims it, how often it was sent

vars == <<live, message>>

Loose  == [at |-> "loose", by |-> Nobody, sent |-> 0]
Endings == {"started", "failed", "cancelled"}

Init ==
  /\ live = {}
  /\ message = [m \in Messages |-> [at |-> "none", by |-> Nobody, sent |-> 0]]

Led(m)   == message[m].at = "claimed" /\ message[m].by \in live
LedBy(o) == {m \in Messages : Led(m) /\ message[m].by = o}
Orphans  == {m \in Messages : message[m].at = "claimed" /\ message[m].by \notin live}

Put(m, at, by) == [at |-> at, by |-> by, sent |-> message[m].sent]

Schedule(m) == message[m].at = "none" /\ message' = [message EXCEPT ![m].at = "scheduled"]

Claim(o, m) ==
  /\ o \in live /\ message[m].at = "scheduled"
  /\ message' = [message EXCEPT ![m] = Put(m, "claimed", o)]

Send(m) == Led(m) /\ message[m].sent = 0 /\ message' = [message EXCEPT ![m].sent = 1]

(* The claimant tells the truth: started if it was sent, else not.          *)
Report(m, ending) ==
  /\ Led(m) /\ (ending = "started" <=> message[m].sent = 1)
  /\ message' = [message EXCEPT ![m] = Put(m, ending, Nobody)]

Withdraw(m) ==
  /\ message[m].at \in {"scheduled", "failed"}
  /\ message' = [message EXCEPT ![m].at = "cancelled"]

Forget(m) == message[m].at \in Endings /\ message' = [message EXCEPT ![m].at = "gone"]

(* Held from the start, or by its claimant.                                 *)
Loosen(m) == (message[m].at = "none" \/ Led(m)) /\ message' = [message EXCEPT ![m] = Loose]

(* A process looks for the claims of dead ones, maybe as it starts.         *)
Recover ==
  /\ live' \in {live} \union {live \union {o} : o \in Processes \ live}
  /\ \E again \in SUBSET Orphans, failed \in SUBSET Orphans :
       /\ \A m \in again : message[m].sent = 0
       /\ message' = [m \in Messages |->
            IF m \in again THEN Put(m, "scheduled", Nobody)
            ELSE IF m \in failed THEN Put(m, "failed", Nobody)
            ELSE message[m]]

(* What a process was about to send as it died may have been sent.          *)
Die(o) ==
  /\ live' = live \ {o}
  /\ \E lost \in SUBSET LedBy(o), taken \in SUBSET LedBy(o) :
       /\ \A m \in taken : message[m].sent = 0
       /\ message' = [m \in Messages |->
            IF m \in lost THEN Loose
            ELSE IF m \in taken THEN [message[m] EXCEPT !.sent = 1]
            ELSE message[m]]

Acts(m) ==
  \/ Schedule(m) \/ Send(m) \/ Withdraw(m) \/ Forget(m) \/ Loosen(m)
  \/ \E o \in Processes : Claim(o, m)
  \/ \E ending \in Endings : Report(m, ending)

Next ==
  \/ UNCHANGED live /\ \E m \in Messages : Acts(m)
  \/ Recover
  \/ \E o \in Processes : Die(o)

Spec == Init /\ [][Next]_vars
=============================================================================
