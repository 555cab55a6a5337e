---------------------------- MODULE MessageProofs ----------------------------
(* Every accepted message is in one place: an entry of the FIFO or the entry *)
(* the backend is asked to take.  For any number of entries, promise chains  *)
(* and messages.                                                             *)
(*                                                                           *)
(* An entry is live while it waits or is asked for.  The messages of the     *)
(* live entries are the open ones, and no two live entries share one.  A     *)
(* step keeps the live entries, adds one with its own message, adds a        *)
(* message to one, or takes one away and settles all its messages.           *)
EXTENDS HandoffProofs

USE DEF fifo, hold, handoff, release, sched, provider, history, Asks, Moves, Working

Waiting(q) == {q[i] : i \in 1..Len(q)}

Once(q) == \A i, j \in 1..Len(q) : q[i] = q[j] => i = j

Asked(tk) == {tk[t].entry : t \in {u \in Tasks : Asks(tk[u])}}

(* A chain that is about to submit a steer. *)
Sends(c) == c.pc = "editing" /\ c.op = "steer"

(* The live entries carry the open messages, each of them once; an entry    *)
(* that was not submitted yet carries only its own.                         *)
Sound(L, b, f) ==
  /\ \A e \in L : \A m \in b[e] : f[m] = "open"
  /\ \A m \in Entries : f[m] = "open" => \E e \in L : m \in b[e]
  /\ \A e, g \in L : b[e] \cap b[g] # {} => e = g
  /\ \A e \in Entries : e \in b[e]
  /\ \A e \in Entries : f[e] \in {"unsent", "sending"} => b[e] = {e}

(* One chain submits a steer, and it was not submitted before. *)
Steering(tk, f) ==
  /\ \A t \in Tasks : Sends(tk[t]) => f[tk[t].entry] = "sending"
  /\ \A t, u \in Tasks : Sends(tk[t]) /\ Sends(tk[u]) /\ tk[t].entry = tk[u].entry => t = u

(* What the backend was asked to take, and what it took, is remembered. *)
Known(A, ad, b, f) ==
  /\ A \subseteq ad
  /\ \A m \in Entries : f[m] = "delivered" => \E e \in ad : m \in b[e]

Carries ==
  /\ Once(queue) /\ Waiting(queue) \cap Asked(task) = {}
  /\ Sound(Waiting(queue) \union Asked(task), batch, fate)
  /\ Steering(task, fate)
  /\ Known(Asked(task), admitted, batch, fate)

MessageInv == HandoffInv /\ Carries

-----------------------------------------------------------------------------
(* The operations on the FIFO, as operations on the set of waiting entries. *)

LEMMA InWaiting ==
  ASSUME NEW q \in Seq(Entries), NEW x
  PROVE  x \in Waiting(q) <=> \E k \in 1..Len(q) : q[k] = x
BY DEF Waiting

(* Where the entries are after one is put in at i, or taken out there. *)
InsertLaw(q, e, i, r) ==
  /\ r \in Seq(Entries) /\ Len(r) = Len(q) + 1
  /\ \A k \in 1..(Len(q) + 1) :
       r[k] = IF k < i THEN q[k] ELSE IF k = i THEN e ELSE q[k - 1]

RemoveLaw(q, i, r) ==
  /\ r \in Seq(Entries) /\ Len(r) = Len(q) - 1
  /\ \A k \in 1..(Len(q) - 1) : r[k] = IF k < i THEN q[k] ELSE q[k + 1]

LEMMA InsertAtLaw ==
  ASSUME NEW q \in Seq(Entries), NEW e \in Entries, NEW i \in 1..(Len(q) + 1)
  PROVE  InsertLaw(q, e, i, InsertAt(q, i, e))
<1> DEFINE a == SubSeq(q, 1, i - 1)
           b == SubSeq(q, i, Len(q))
           c == a \o <<e>>
<1>1. a \in Seq(Entries) /\ Len(a) = i - 1 /\ \A k \in 1..(i - 1) : a[k] = q[k]
  OBVIOUS
<1>2. b \in Seq(Entries) /\ Len(b) = Len(q) + 1 - i
      /\ \A k \in 1..(Len(q) + 1 - i) : b[k] = q[i + k - 1]
  OBVIOUS
<1>3. InsertAt(q, i, e) = c \o b
  BY DEF InsertAt
<1> HIDE DEF a, b
<1>4. c \in Seq(Entries) /\ Len(c) = i /\ c[i] = e /\ \A k \in 1..(i - 1) : c[k] = q[k]
  BY <1>1
<1> HIDE DEF c
<1>5. c \o b \in Seq(Entries) /\ Len(c \o b) = Len(q) + 1
  <2>1. c \o b \in Seq(Entries) /\ Len(c \o b) = Len(c) + Len(b)
    BY <1>2, <1>4, ConcatProperties
  <2> QED BY <1>2, <1>4, <2>1
<1>6. ASSUME NEW k \in 1..(Len(q) + 1)
      PROVE  (c \o b)[k] = IF k < i THEN q[k] ELSE IF k = i THEN e ELSE q[k - 1]
  <2>1. (c \o b)[k] = IF k <= i THEN c[k] ELSE b[k - i]
    BY <1>2, <1>4
  <2>2. k > i => b[k - i] = q[k - 1]
    <3> SUFFICES ASSUME k > i PROVE b[k - i] = q[k - 1]
      OBVIOUS
    <3>1. k - i \in 1..(Len(q) + 1 - i) /\ i + (k - i) - 1 = k - 1
      OBVIOUS
    <3> QED BY <1>2, <3>1
  <2> QED BY <1>4, <2>1, <2>2
<1> QED BY <1>3, <1>5, <1>6 DEF InsertLaw

LEMMA RemoveAtMoves ==
  ASSUME NEW S, NEW q \in Seq(S), NEW i \in 1..Len(q)
  PROVE  /\ RemoveAt(q, i) \in Seq(S) /\ Len(RemoveAt(q, i)) = Len(q) - 1
         /\ \A k \in 1..(Len(q) - 1) : RemoveAt(q, i)[k] = IF k < i THEN q[k] ELSE q[k + 1]
<1> DEFINE a == SubSeq(q, 1, i - 1)
           b == SubSeq(q, i + 1, Len(q))
<1>1. a \in Seq(S) /\ Len(a) = i - 1 /\ \A k \in 1..(i - 1) : a[k] = q[k]
  OBVIOUS
<1>2. b \in Seq(S) /\ Len(b) = Len(q) - i
      /\ \A k \in 1..(Len(q) - i) : b[k] = q[i + k]
  OBVIOUS
<1>3. RemoveAt(q, i) = a \o b
  BY DEF RemoveAt
<1> HIDE DEF a, b
<1>4. a \o b \in Seq(S) /\ Len(a \o b) = Len(q) - 1
  <2>1. a \o b \in Seq(S) /\ Len(a \o b) = Len(a) + Len(b)
    BY <1>1, <1>2, ConcatProperties
  <2> QED BY <1>1, <1>2, <2>1
<1>5. ASSUME NEW k \in 1..(Len(q) - 1)
      PROVE  (a \o b)[k] = IF k < i THEN q[k] ELSE q[k + 1]
  <2>1. (a \o b)[k] = IF k <= i - 1 THEN a[k] ELSE b[k - (i - 1)]
    BY <1>1, <1>2
  <2>2. k >= i => b[k - (i - 1)] = q[k + 1]
    <3> SUFFICES ASSUME k >= i PROVE b[k - (i - 1)] = q[k + 1]
      OBVIOUS
    <3>1. k - (i - 1) \in 1..(Len(q) - i) /\ i + (k - (i - 1)) = k + 1
      OBVIOUS
    <3> QED BY <1>2, <3>1
  <2> QED BY <1>1, <2>1, <2>2
<1> QED BY <1>3, <1>4, <1>5

LEMMA RemoveAtLaw ==
  ASSUME NEW q \in Seq(Entries), NEW i \in 1..Len(q)
  PROVE  RemoveLaw(q, i, RemoveAt(q, i))
BY RemoveAtMoves DEF RemoveLaw

(* What is taken out is gone, and the rest is still there once. *)
LEMMA RemoveOnce ==
  ASSUME NEW S, NEW s \in Seq(S), Once(s), NEW w \in 1..Len(s)
  PROVE  Once(RemoveAt(s, w)) /\ Waiting(RemoveAt(s, w)) = Waiting(s) \ {s[w]}
<1> DEFINE r == RemoveAt(s, w)
<1>1. /\ Len(s) \in Nat /\ Len(r) = Len(s) - 1
      /\ \A k \in 1..(Len(s) - 1) : r[k] = IF k < w THEN s[k] ELSE s[k + 1]
  BY RemoveAtMoves
<1> HIDE DEF r
<1>2. Once(r)
  <2> SUFFICES ASSUME NEW i \in 1..Len(r), NEW j \in 1..Len(r), r[i] = r[j] PROVE i = j
    BY DEF Once
  <2> DEFINE f(k) == IF k < w THEN k ELSE k + 1
  <2>1. f(i) \in 1..Len(s) /\ f(j) \in 1..Len(s) /\ s[f(i)] = s[f(j)]
    BY <1>1
  <2>2. f(i) = f(j)
    BY <2>1 DEF Once
  <2> QED BY <1>1, <2>2
<1>3. ASSUME NEW x \in Waiting(r) PROVE x \in Waiting(s) \ {s[w]}
  <2>1. PICK k \in 1..Len(r) : x = r[k]
    BY <1>3 DEF Waiting
  <2> DEFINE m == IF k < w THEN k ELSE k + 1
  <2>2. m \in 1..Len(s) /\ m # w /\ x = s[m]
    BY <1>1, <2>1
  <2>3. x # s[w]
    BY <2>2 DEF Once
  <2> QED BY <2>2, <2>3 DEF Waiting
<1>4. ASSUME NEW x \in Waiting(s) \ {s[w]} PROVE x \in Waiting(r)
  <2>1. PICK k \in 1..Len(s) : x = s[k]
    BY <1>4 DEF Waiting
  <2>2. k # w
    BY <1>4, <2>1
  <2> DEFINE m == IF k < w THEN k ELSE k - 1
  <2>3. m \in 1..Len(r) /\ r[m] = x
    BY <1>1, <2>1, <2>2
  <2> QED BY <2>3 DEF Waiting
<1> QED BY <1>2, <1>3, <1>4 DEF r

LEMMA InsertWaits ==
  ASSUME NEW q \in Seq(Entries), Once(q), NEW e \in Entries, e \notin Waiting(q),
         NEW i \in 1..(Len(q) + 1)
  PROVE  Once(InsertAt(q, i, e)) /\ Waiting(InsertAt(q, i, e)) = Waiting(q) \union {e}
<1> DEFINE r == InsertAt(q, i, e)
<1>a. InsertLaw(q, e, i, r)
  BY InsertAtLaw
<1> HIDE DEF r
<1>1. Len(r) = Len(q) + 1
  BY <1>a DEF InsertLaw
<1>2. \A k \in 1..(Len(q) + 1) :
        r[k] = IF k < i THEN q[k] ELSE IF k = i THEN e ELSE q[k - 1]
  BY <1>a DEF InsertLaw
<1>3. Once(r)
  <2>1. \A k \in 1..Len(q) : q[k] # e
    BY DEF Waiting
  <2> SUFFICES ASSUME NEW k \in 1..Len(r), NEW l \in 1..Len(r), r[k] = r[l]  PROVE k = l
    BY DEF Once
  <2>2. k \in 1..(Len(q) + 1) /\ l \in 1..(Len(q) + 1)
    BY <1>1
  <2>3. CASE k = i
    <3>1. l < i => l \in 1..Len(q)
      BY <2>2
    <3>2. l > i => l - 1 \in 1..Len(q)
      BY <2>2
    <3> QED BY <1>2, <2>1, <2>2, <2>3, <3>1, <3>2
  <2>4. CASE l = i
    <3>1. k < i => k \in 1..Len(q)
      BY <2>2
    <3>2. k > i => k - 1 \in 1..Len(q)
      BY <2>2
    <3> QED BY <1>2, <2>1, <2>2, <2>4, <3>1, <3>2
  <2>5. CASE k # i /\ l # i
    <3> DEFINE src(x) == IF x < i THEN x ELSE x - 1
    <3>1. src(k) \in 1..Len(q) /\ src(l) \in 1..Len(q)
      BY <2>2, <2>5
    <3>2. r[k] = q[src(k)] /\ r[l] = q[src(l)]
      BY <1>2, <2>2, <2>5
    <3>3. src(k) = src(l)
      BY <3>1, <3>2 DEF Once
    <3> QED BY <2>2, <2>5, <3>3
  <2> QED BY <2>3, <2>4, <2>5
<1>4. Waiting(r) = Waiting(q) \union {e}
  <2>1. \A k \in 1..Len(q) : \E l \in 1..Len(r) : r[l] = q[k]
    <3> TAKE k \in 1..Len(q)
    <3>1. CASE k < i
      BY <1>1, <1>2, <3>1
    <3>2. CASE k >= i
      <4>1. k + 1 \in 1..Len(r) /\ r[k + 1] = q[k]
        BY <1>1, <1>2, <3>2
      <4> QED BY <4>1
    <3> QED BY <3>1, <3>2
  <2>2. i \in 1..Len(r) /\ r[i] = e
    BY <1>1, <1>2
  <2>3. \A l \in 1..Len(r) : r[l] = e \/ \E k \in 1..Len(q) : r[l] = q[k]
    <3> TAKE l \in 1..Len(r)
    <3>1. CASE l < i
      BY <1>1, <1>2, <3>1
    <3>2. CASE l > i
      <4>1. l - 1 \in 1..Len(q) /\ r[l] = q[l - 1]
        BY <1>1, <1>2, <3>2
      <4> QED BY <4>1
    <3> QED BY <2>2, <3>1, <3>2
  <2>4. r \in Seq(Entries)
    BY <1>a DEF InsertLaw
  <2>5. ASSUME NEW x  PROVE x \in Waiting(r) <=> x \in Waiting(q) \/ x = e
    <3>1. x \in Waiting(r) => x \in Waiting(q) \/ x = e
      <4> SUFFICES ASSUME x \in Waiting(r) PROVE x \in Waiting(q) \/ x = e
        OBVIOUS
      <4>1. PICK l \in 1..Len(r) : r[l] = x
        BY <2>4, InWaiting
      <4> QED BY <2>3, <4>1, InWaiting
    <3>2. x \in Waiting(q) => x \in Waiting(r)
      BY <2>1, <2>4, InWaiting, Zenon
    <3>3. e \in Waiting(r)
      BY <2>2, <2>4, InWaiting, Zenon
    <3> QED BY <3>1, <3>2, <3>3
  <2> QED BY <2>5
<1> QED BY <1>3, <1>4 DEF r

LEMMA AppendWaits ==
  ASSUME NEW q \in Seq(Entries), Once(q), NEW e \in Entries, e \notin Waiting(q)
  PROVE  Once(Append(q, e)) /\ Waiting(Append(q, e)) = Waiting(q) \union {e}
<1> DEFINE r == Append(q, e)
<1>1. Len(q) + 1 \in 1..(Len(q) + 1)
  OBVIOUS
<1>2. InsertAt(q, Len(q) + 1, e) = r
  <2> DEFINE a == SubSeq(q, 1, (Len(q) + 1) - 1)
             b == SubSeq(q, Len(q) + 1, Len(q))
  <2>1. a = q /\ b = << >>
    OBVIOUS
  <2>2. InsertAt(q, Len(q) + 1, e) = a \o <<e>> \o b
    BY DEF InsertAt
  <2> HIDE DEF a, b
  <2>3. q \o <<e>> = r /\ r \o << >> = r
    OBVIOUS
  <2> QED BY <2>1, <2>2, <2>3
<1> HIDE DEF r
<1>3. /\ Once(InsertAt(q, Len(q) + 1, e))
      /\ Waiting(InsertAt(q, Len(q) + 1, e)) = Waiting(q) \union {e}
  BY <1>1, InsertWaits
<1> QED BY <1>2, <1>3, Zenon DEF r

LEMMA RemoveWaits ==
  ASSUME NEW q \in Seq(Entries), Once(q), NEW i \in 1..Len(q)
  PROVE  Once(RemoveAt(q, i)) /\ Waiting(RemoveAt(q, i)) = Waiting(q) \ {q[i]}
BY RemoveOnce

(* A refused entry goes back to where it was, and is in the FIFO once. *)
LEMMA RestoreWaits ==
  ASSUME TypeOK, Once(queue), NEW e \in Entries, e \notin Waiting(queue), NEW prev
  PROVE  /\ Once(RestoreAfter(queue, e, prev))
         /\ Waiting(RestoreAfter(queue, e, prev)) = Waiting(queue) \union {e}
<1>1. IndexOf(queue, prev) \in 0..Len(queue) /\ NextWaiting(queue) \in 0..Len(queue)
  BY AllParts, IndexOfType, NextWaitingType
<1>2. \A i \in 1..(Len(queue) + 1) :
        Once(InsertAt(queue, i, e)) /\ Waiting(InsertAt(queue, i, e)) = Waiting(queue) \union {e}
  BY AllParts, InsertWaits
<1>3. Once(Append(queue, e)) /\ Waiting(Append(queue, e)) = Waiting(queue) \union {e}
  BY AllParts, AppendWaits
<1>4. <<e>> \o queue = InsertAt(queue, 1, e)
  BY AllParts DEF InsertAt
<1>5. \/ \E i \in 1..(Len(queue) + 1) : RestoreAfter(queue, e, prev) = InsertAt(queue, i, e)
      \/ RestoreAfter(queue, e, prev) = Append(queue, e)
  <2>1. /\ 1 \in 1..(Len(queue) + 1)
        /\ IndexOf(queue, prev) # 0 => IndexOf(queue, prev) + 1 \in 1..(Len(queue) + 1)
        /\ NextWaiting(queue) # 0 => NextWaiting(queue) \in 1..(Len(queue) + 1)
    BY <1>1, AllParts
  <2> QED BY <1>4, <2>1 DEF RestoreAfter
<1> QED BY <1>2, <1>3, <1>5, Zenon

(* A move changes the order only. *)
LEMMA MovedWaits ==
  ASSUME TypeOK, Once(queue), NEW e, NEW before
  PROVE  Once(Moved(queue, e, before)) /\ Waiting(Moved(queue, e, before)) = Waiting(queue)
<1> DEFINE from   == IndexOf(queue, e)
           anchor == IF before = NoEntry THEN Len(queue) + 1 ELSE IndexOf(queue, before)
           to     == IF anchor > from THEN anchor - 1 ELSE anchor
           r      == RemoveAt(queue, from)
<1>1. CASE Moved(queue, e, before) = queue
  BY <1>1
<1>2. CASE Moved(queue, e, before) # queue
  <2>1. from # 0 /\ anchor # 0 /\ Moved(queue, e, before) = InsertAt(r, to, e)
    BY <1>2 DEF Moved
  <2>2. from \in 1..Len(queue) /\ queue[from] = e
    BY <2>1, AllParts, IndexOfType
  <2>3. anchor \in 1..(Len(queue) + 1)
    BY <2>1, AllParts, IndexOfType
  <2>4. r \in Seq(Entries) /\ Len(r) = Len(queue) - 1
    BY <2>2, AllParts, RemoveAtType
  <2>5. Once(r) /\ Waiting(r) = Waiting(queue) \ {e}
    BY <2>2, AllParts, RemoveWaits
  <2>6. Len(queue) \in Nat /\ e \in Waiting(queue) /\ e \in Entries
    BY <2>2, AllParts DEF Waiting
  <2> HIDE DEF from, anchor, r
  <2>7. to \in 1..(Len(r) + 1)
    BY <2>2, <2>3, <2>4, <2>6
  <2> HIDE DEF to
  <2>8. Once(InsertAt(r, to, e)) /\ Waiting(InsertAt(r, to, e)) = Waiting(r) \union {e}
    BY <2>4, <2>5, <2>6, <2>7, InsertWaits
  <2>9. Waiting(r) \union {e} = Waiting(queue)
    BY <2>5, <2>6
  <2> QED BY <2>1, <2>8, <2>9, Zenon
<1> QED BY <1>1, <1>2

-----------------------------------------------------------------------------
(* What may happen to the live entries. *)

Fates == {"unsent", "sending", "open", "delivered", "cancelled", "failed"}
Settled == {"delivered", "cancelled", "failed"}

(* A message that was not submitted is in no live entry. *)
LEMMA FreshIsNotLive ==
  ASSUME NEW L, NEW b, NEW f, Sound(L, b, f), NEW e \in Entries, f[e] \in {"unsent", "sending"}
  PROVE  e \notin L /\ b[e] = {e} /\ \A x \in L : e \notin b[x]
BY DEF Sound

(* A new entry, with its own message. *)
LEMMA SoundEnters ==
  ASSUME NEW L \in SUBSET Entries, NEW b, NEW f \in [Entries -> Fates], Sound(L, b, f),
         NEW e \in Entries, f[e] \in {"unsent", "sending"}
  PROVE  Sound(L \union {e}, b, [f EXCEPT ![e] = "open"])
BY FreshIsNotLive DEF Sound

(* A message that joins the batch of a live entry. *)
LEMMA SoundJoins ==
  ASSUME NEW L \in SUBSET Entries, NEW b \in [Entries -> SUBSET Entries],
         NEW f \in [Entries -> Fates], Sound(L, b, f),
         NEW e \in Entries, f[e] \in {"unsent", "sending"}, NEW x \in L
  PROVE  Sound(L, [b EXCEPT ![x] = @ \union {e}], [f EXCEPT ![e] = "open"])
<1> DEFINE c == [b EXCEPT ![x] = @ \union {e}]
           g == [f EXCEPT ![e] = "open"]
<1>1. e \notin L /\ \A y \in L : e \notin b[y]
  BY FreshIsNotLive
<1>2. \A y \in Entries : \A m : m \in c[y] <=> m \in b[y] \/ (y = x /\ m = e)
  OBVIOUS
<1>3. \A m \in Entries : g[m] = IF m = e THEN "open" ELSE f[m]
  OBVIOUS
<1>4. f[x] = "open"
  BY DEF Sound
<1>9. \A y \in Entries : y # x => c[y] = b[y]
  OBVIOUS
<1>10. \A y \in Entries : b[y] \subseteq Entries
  OBVIOUS
<1> HIDE DEF c, g
<1>5. \A y \in L : \A m \in c[y] : g[m] = "open"
  BY <1>2, <1>3, <1>10 DEF Sound
<1>6. ASSUME NEW m \in Entries, g[m] = "open"  PROVE \E y \in L : m \in c[y]
  <2>1. CASE m = e
    BY <1>2, <2>1
  <2>2. CASE m # e
    <3>1. PICK y \in L : m \in b[y]
      BY <1>3, <1>6, <2>2 DEF Sound
    <3> QED BY <1>2, <3>1
  <2> QED BY <2>1, <2>2
<1>7. ASSUME NEW y \in L, NEW z \in L, c[y] \cap c[z] # {}  PROVE y = z
  <2>1. PICK m : m \in c[y] /\ m \in c[z]
    BY <1>7
  <2>2. CASE m = e
    BY <1>1, <1>2, <2>1, <2>2
  <2>3. CASE m # e
    <3>1. m \in b[y] \cap b[z]
      BY <1>2, <2>1, <2>3
    <3> QED BY <3>1 DEF Sound
  <2> QED BY <2>2, <2>3
<1>8. \A y \in Entries : y \in c[y]
  BY <1>2 DEF Sound
<1>11. \A y \in Entries : g[y] \in {"unsent", "sending"} => c[y] = {y}
  <2> SUFFICES ASSUME NEW y \in Entries, g[y] \in {"unsent", "sending"} PROVE c[y] = {y}
    OBVIOUS
  <2>1. f[y] \in {"unsent", "sending"} /\ y # x
    BY <1>3, <1>4
  <2> QED BY <1>9, <2>1 DEF Sound
<1> QED BY <1>5, <1>6, <1>7, <1>8, <1>11 DEF Sound, c, g

(* An entry that leaves takes its messages along. *)
LEMMA SoundLeaves ==
  ASSUME NEW L \in SUBSET Entries, NEW b \in [Entries -> SUBSET Entries],
         NEW f \in [Entries -> Fates], Sound(L, b, f), NEW e \in L, NEW s \in Settled
  PROVE  Sound(L \ {e}, b, [m \in Entries |-> IF m \in b[e] THEN s ELSE f[m]])
<1> DEFINE g == [m \in Entries |-> IF m \in b[e] THEN s ELSE f[m]]
<1>1. \A m \in Entries : g[m] = IF m \in b[e] THEN s ELSE f[m]
  OBVIOUS
<1>2. s \notin {"open", "unsent", "sending"}
  BY DEF Settled
<1> HIDE DEF g
<1>3. \A y \in L \ {e} : \A m \in b[y] : g[m] = "open"
  BY <1>1 DEF Sound
<1>4. \A m \in Entries : g[m] = "open" => \E y \in L \ {e} : m \in b[y]
  BY <1>1, <1>2 DEF Sound
<1>5. \A y \in Entries : g[y] \in {"unsent", "sending"} => b[y] = {y}
  BY <1>1, <1>2 DEF Sound
<1> QED BY <1>3, <1>4, <1>5 DEF Sound, g

(* A steer that is on its way to the FIFO. *)
LEMMA SoundSends ==
  ASSUME NEW L, NEW b, NEW f \in [Entries -> Fates], Sound(L, b, f),
         NEW e \in Entries, f[e] = "unsent"
  PROVE  Sound(L, b, [f EXCEPT ![e] = "sending"])
BY FreshIsNotLive DEF Sound

-----------------------------------------------------------------------------
(* What may happen to the chains. *)

LEMMA AskedKept ==
  ASSUME NEW t \in Tasks, Others(t), ~Asks(task[t]), ~Asks(task'[t])
  PROVE  Asked(task') = Asked(task)
<1>1. \A u \in Tasks : Asks(task'[u]) <=> Asks(task[u])
  BY DEF Others
<1>2. \A u \in Tasks : Asks(task[u]) => task'[u].entry = task[u].entry
  BY DEF Others
<1> QED BY <1>1, <1>2 DEF Asked

(* Only one chain asks. *)
LEMMA AskedOne ==
  ASSUME OneHandoff, NEW t \in Tasks, Asks(task[t])
  PROVE  Asked(task) = {task[t].entry}
<1>1. \A u \in Tasks : Asks(task[u]) => u = t
  BY DEF OneHandoff, InHandoff, InFlight
<1> QED BY <1>1 DEF Asked

LEMMA AskedEnds ==
  ASSUME OneHandoff, NEW t \in Tasks, Others(t), Asks(task[t]), ~Asks(task'[t])
  PROVE  Asked(task) = {task[t].entry} /\ Asked(task') = {}
<1>1. \A u \in Tasks : ~Asks(task'[u])
  BY DEF OneHandoff, InHandoff, InFlight, Others
<1> QED BY <1>1, AskedOne DEF Asked

LEMMA AskedBegins ==
  ASSUME OneHandoff, NEW t \in Tasks, Begins(t), Asks(task'[t])
  PROVE  Asked(task) = {} /\ Asked(task') = {task'[t].entry}
<1>1. \A u \in Tasks : ~Asks(task[u])
  BY DEF OneHandoff, InHandoff, InFlight, Begins
<1>2. \A u \in Tasks : Asks(task'[u]) <=> u = t
  BY <1>1 DEF Begins, Others
<1> QED BY <1>1, <1>2 DEF Asked

(* Chain t moves on to no steer, and the steer it was to submit may be out. *)
LEMMA SteeringKept ==
  ASSUME Steering(task, fate), NEW t \in Tasks, Others(t), ~Sends(task'[t]),
         \A u \in Tasks : task[u].pc \in Working => task[u].entry \in Entries,
         \A m \in Entries :
           fate[m] = "sending" /\ ~(Sends(task[t]) /\ m = task[t].entry) => fate'[m] = "sending"
  PROVE  Steering(task', fate')
<1>1. \A u \in Tasks : Sends(task'[u]) =>
        u # t /\ Sends(task[u]) /\ task'[u].entry = task[u].entry
  BY DEF Others, Sends
<1>2. ASSUME NEW u \in Tasks, Sends(task'[u])  PROVE fate'[task'[u].entry] = "sending"
  <2>1. task[u].entry \in Entries /\ fate[task[u].entry] = "sending"
    BY <1>1, <1>2 DEF Steering, Sends
  <2>2. ~(Sends(task[t]) /\ task[u].entry = task[t].entry)
    BY <1>1, <1>2 DEF Steering
  <2> QED BY <1>1, <1>2, <2>1, <2>2
<1>3. \A u, v \in Tasks :
        Sends(task'[u]) /\ Sends(task'[v]) /\ task'[u].entry = task'[v].entry => u = v
  BY <1>1 DEF Steering
<1> QED BY <1>2, <1>3 DEF Steering

LEMMA MessageParts ==
  ASSUME MessageInv
  PROVE  /\ TypeOK /\ HandoffInv /\ OneHandoff
         /\ queue \in Seq(Entries) /\ batch \in [Entries -> SUBSET Entries]
         /\ fate \in [Entries -> Fates] /\ admitted \subseteq Entries
         /\ Waiting(queue) \subseteq Entries /\ Asked(task) \subseteq Entries
         /\ \A t \in Tasks : task[t] \in Chain
         /\ \A t \in Tasks : task[t].pc \in Working => task[t].entry \in Entries
<1>1. HandoffInv /\ TypeOK /\ OneHandoff
  BY DEF MessageInv, HandoffInv
<1>2. /\ queue \in Seq(Entries) /\ batch \in [Entries -> SUBSET Entries]
      /\ fate \in [Entries -> Fates] /\ admitted \subseteq Entries
  BY <1>1, AllParts DEF FifoOK, HistoryOK, HandoffOK, Fates
<1>3. \A t \in Tasks : task[t] \in Chain /\ (task[t].pc \in Working => task[t].entry \in Entries)
  BY <1>1, AllParts, WorkFacts
<1>4. Waiting(queue) \subseteq Entries
  BY <1>2 DEF Waiting
<1>5. Asked(task) \subseteq Entries
  BY <1>3 DEF Asked
<1> QED BY <1>1, <1>2, <1>3, <1>4, <1>5

-----------------------------------------------------------------------------
(* The steps of MessageDelivery, one for each thing that may happen to the  *)
(* live entries.                                                            *)

PlaceIn(A, b, f, m) ==
  IF f[m] = "open" THEN IF \E e \in A : m \in b[e] THEN "asked" ELSE "waiting"
  ELSE IF f[m] = "sending" THEN "unsent" ELSE f[m]

Places(A, b, f) == [m \in Entries |-> PlaceIn(A, b, f, m)]

Delivers == [Delivery!Next]_Whereabouts

LEMMA WhereaboutsArePlaces ==
  /\ Whereabouts = Places(Asked(task), batch, fate)
  /\ Whereabouts' = Places(Asked(task'), batch', fate')
<1>1. \A m \in Entries :
        (Carriers(m) = {}) <=> ~ \E e \in Asked(task) : m \in batch[e]
  BY DEF Carriers, InFlight, Asked
<1>2. \A m \in Entries :
        (Carriers(m)' = {}) <=> ~ \E e \in Asked(task') : m \in batch'[e]
  BY DEF Carriers, InFlight, Asked
<1>3. \A m \in Entries : Place(m) = PlaceIn(Asked(task), batch, fate, m)
  BY <1>1 DEF Place, PlaceIn
<1>4. \A m \in Entries : Place(m)' = PlaceIn(Asked(task'), batch', fate', m)
  BY <1>2 DEF Place, PlaceIn
<1> QED BY <1>3, <1>4 DEF Whereabouts, Places

LEMMA StaysPut ==
  ASSUME \A m \in Entries : PlaceIn(Asked(task'), batch', fate', m) = PlaceIn(Asked(task), batch, fate, m)
  PROVE  Delivers
<1>1. Places(Asked(task'), batch', fate') = Places(Asked(task), batch, fate)
  BY DEF Places
<1> QED BY <1>1, WhereaboutsArePlaces DEF Delivers

LEMMA SamePlaces ==
  ASSUME UNCHANGED <<batch, fate>>, Asked(task') = Asked(task)
  PROVE  Delivers
BY StaysPut

LEMMA Movement ==
  ASSUME NEW M, NEW p,
         \A m \in Entries : PlaceIn(Asked(task'), batch', fate', m)
                              = IF m \in M THEN p ELSE PlaceIn(Asked(task), batch, fate, m)
  PROVE  Delivery!Move(M, p)
<1>1. \A m \in Entries : Whereabouts[m] = PlaceIn(Asked(task), batch, fate, m)
  BY WhereaboutsArePlaces DEF Places
<1>2. Places(Asked(task'), batch', fate')
        = [m \in Entries |-> IF m \in M THEN p ELSE Whereabouts[m]]
  BY <1>1 DEF Places
<1> QED BY <1>2, WhereaboutsArePlaces DEF Delivery!Move

LEMMA AtPlace ==
  ASSUME NEW p
  PROVE  Delivery!At(p) = {m \in Entries : PlaceIn(Asked(task), batch, fate, m) = p}
<1>1. \A m \in Entries : Whereabouts[m] = PlaceIn(Asked(task), batch, fate, m)
  BY WhereaboutsArePlaces DEF Places
<1> QED BY <1>1 DEF Delivery!At

(* With nothing asked nothing is on its way; with one entry asked, its      *)
(* messages are.                                                            *)
LEMMA NoneAsked ==
  ASSUME MessageInv, Asked(task) = {}
  PROVE  Delivery!NothingAsked
<1>1. \A m \in Entries : PlaceIn(Asked(task), batch, fate, m) # "asked"
  BY MessageParts DEF PlaceIn, Fates
<1> QED BY <1>1, AtPlace DEF Delivery!NothingAsked

LEMMA OneAsked ==
  ASSUME MessageInv, NEW e, Asked(task) = {e}
  PROVE  Delivery!At("asked") = batch[e]
<1>1. batch[e] \subseteq Entries /\ \A m \in batch[e] : fate[m] = "open"
  BY MessageParts DEF MessageInv, Carries, Sound
<1>2. \A m \in Entries : PlaceIn(Asked(task), batch, fate, m) = "asked" <=> m \in batch[e]
  BY <1>1, MessageParts DEF PlaceIn, Fates
<1> QED BY <1>1, <1>2, AtPlace

(* The messages of a waiting entry wait.                                    *)
LEMMA WaitingPlaces ==
  ASSUME MessageInv, NEW e \in Waiting(queue)
  PROVE  batch[e] \subseteq Delivery!At("waiting")
<1>1. batch[e] \subseteq Entries /\ \A m \in batch[e] : fate[m] = "open"
  BY MessageParts DEF MessageInv, Carries, Sound
<1>2. \A g \in Asked(task) : batch[e] \cap batch[g] = {}
  BY DEF MessageInv, Carries, Sound
<1>3. \A m \in batch[e] : PlaceIn(Asked(task), batch, fate, m) = "waiting"
  BY <1>1, <1>2 DEF PlaceIn
<1> QED BY <1>1, <1>3, AtPlace

LEMMA ClaimedDelivers ==
  ASSUME MessageInv, UNCHANGED <<batch, fate>>, NEW e \in Waiting(queue),
         Asked(task) = {}, Asked(task') = {e}
  PROVE  Delivers
<1>1. \A m \in batch[e] : fate[m] = "open"
  BY DEF MessageInv, Carries, Sound
<1>2. Delivery!Move(batch[e], "asked")
  BY <1>1, Movement DEF PlaceIn
<1>3. batch[e] \in SUBSET Delivery!At("waiting")
  BY WaitingPlaces
<1>4. Delivery!Ask(batch[e])
  BY <1>2, NoneAsked DEF Delivery!Ask
<1> QED BY <1>3, <1>4 DEF Delivers, Delivery!Next

LEMMA PutBackDelivers ==
  ASSUME MessageInv, UNCHANGED <<batch, fate>>, NEW e, Asked(task) = {e}, Asked(task') = {}
  PROVE  Delivers
<1>1. \A m \in batch[e] : fate[m] = "open"
  BY DEF MessageInv, Carries, Sound
<1>2. Delivery!Move(batch[e], "waiting")
  BY <1>1, Movement DEF PlaceIn
<1>3. Delivery!PutBack
  BY <1>2, OneAsked DEF Delivery!PutBack
<1> QED BY <1>3 DEF Delivers, Delivery!Next

(* A message is accepted: it waits, alone or in a batch, or is asked for.   *)
LEMMA AcceptedDelivers ==
  ASSUME MessageInv, NEW e \in Entries, fate[e] \in {"unsent", "sending"},
         fate' = [fate EXCEPT ![e] = "open"],
         \/ Asked(task') = Asked(task) /\ \A g \in Asked(task) : batch'[g] = batch[g]
         \/ UNCHANGED batch /\ Asked(task) = {} /\ Asked(task') = {e}
  PROVE  Delivers
<1> DEFINE L == Waiting(queue) \union Asked(task)
<1>1. batch[e] = {e} /\ \A g \in Asked(task) : e \notin batch[g]
  <2>1. Sound(L, batch, fate)
    BY DEF MessageInv, Carries
  <2> QED BY <2>1, FreshIsNotLive
<1>2. \A m \in Entries : fate'[m] = IF m = e THEN "open" ELSE fate[m]
  BY MessageParts
<1>3. e \in Delivery!At("unsent")
  <2>1. PlaceIn(Asked(task), batch, fate, e) = "unsent"
    BY DEF PlaceIn
  <2> QED BY <2>1, AtPlace
<1>4. CASE Asked(task') = Asked(task) /\ \A g \in Asked(task) : batch'[g] = batch[g]
  <2>1. Delivery!Move({e}, "waiting")
    BY <1>1, <1>2, <1>4, Movement DEF PlaceIn
  <2> QED BY <1>3, <2>1 DEF Delivers, Delivery!Next, Delivery!Accept
<1>5. CASE UNCHANGED batch /\ Asked(task) = {} /\ Asked(task') = {e}
  <2>1. Delivery!Move({e}, "asked")
    BY <1>1, <1>2, <1>5, Movement DEF PlaceIn
  <2> QED BY <1>3, <1>5, <2>1, NoneAsked DEF Delivers, Delivery!Next, Delivery!AskAtOnce
<1> QED BY <1>4, <1>5

LEMMA LeavesDelivers ==
  ASSUME MessageInv, UNCHANGED batch, NEW e \in Entries, NEW s \in Settled,
         fate' = [m \in Entries |-> IF m \in batch[e] THEN s ELSE fate[m]],
         \/ s = "cancelled" /\ e \in Waiting(queue) /\ Asked(task') = Asked(task)
         \/ s \in {"delivered", "failed"} /\ Asked(task) = {e} /\ Asked(task') = {}
  PROVE  Delivers
<1>1. \A m \in Entries : fate'[m] = IF m \in batch[e] THEN s ELSE fate[m]
  OBVIOUS
<1>2. s \notin {"open", "sending"} /\ batch[e] \in SUBSET Entries
  BY MessageParts DEF Settled
<1>3. Delivery!Move(batch[e], s)
  <2>1. \A m \in Entries \ batch[e] :
          PlaceIn(Asked(task'), batch', fate', m) = PlaceIn(Asked(task), batch, fate, m)
    BY <1>1 DEF PlaceIn
  <2>2. \A m \in batch[e] : PlaceIn(Asked(task'), batch', fate', m) = s
    BY <1>1, <1>2 DEF PlaceIn
  <2> QED BY <2>1, <2>2, Movement
<1>4. CASE s = "cancelled" /\ e \in Waiting(queue)
  BY <1>2, <1>3, <1>4, WaitingPlaces DEF Delivers, Delivery!Next, Delivery!Cancel
<1>5. CASE s \in {"delivered", "failed"} /\ Asked(task) = {e}
  BY <1>3, <1>5, OneAsked DEF Delivers, Delivery!Next, Delivery!Deliver, Delivery!Fail
<1> QED BY <1>4, <1>5

(* Every message is kept, and MessageDelivery allows the step.              *)
Fulfils == Carries' /\ Delivers

-----------------------------------------------------------------------------
(* Steps that keep every message where it is. *)

LEMMA KeptCarries ==
  ASSUME MessageInv, UNCHANGED <<batch, fate, admitted>>, Steering(task', fate'),
         Once(queue'), Waiting(queue') = Waiting(queue), Asked(task') = Asked(task)
  PROVE  Fulfils
<1>1. Carries'
  BY DEF MessageInv, Carries
<1> QED BY <1>1, SamePlaces DEF Fulfils

LEMMA RestsCarries ==
  ASSUME MessageInv, NEW t \in Tasks, Others(t), ~Asks(task[t]), ~Asks(task'[t]),
         ~Sends(task'[t]), UNCHANGED <<queue, batch, fate, admitted>>
  PROVE  Fulfils
<1>1. Asked(task') = Asked(task)
  BY AskedKept
<1>2. Steering(task, fate)
  BY DEF MessageInv, Carries
<1>3. Steering(task', fate')
  BY <1>2, MessageParts, SteeringKept
<1>4. Once(queue') /\ Waiting(queue') = Waiting(queue)
  BY DEF MessageInv, Carries
<1> QED BY <1>1, <1>3, <1>4, KeptCarries

LEMMA ElsewhereCarries ==
  ASSUME MessageInv, UNCHANGED <<queue, batch, fate, admitted, task>>
  PROVE  Fulfils
<1>1. Carries'
  BY DEF MessageInv, Carries
<1> QED BY <1>1, SamePlaces DEF Fulfils

(* An entry goes from the FIFO to the backend, and back. *)
LEMMA ClaimedCarries ==
  ASSUME MessageInv, UNCHANGED <<batch, fate>>, Steering(task', fate'),
         NEW e \in Waiting(queue), Once(queue'), Waiting(queue') = Waiting(queue) \ {e},
         Asked(task) = {}, Asked(task') = {e}, admitted' = admitted \union {e}
  PROVE  Fulfils
<1>1. Waiting(queue') \union Asked(task') = Waiting(queue) \union Asked(task)
  OBVIOUS
<1>2. Known(Asked(task'), admitted', batch', fate')
  BY DEF MessageInv, Carries, Known
<1>3. Carries'
  BY <1>1, <1>2 DEF MessageInv, Carries
<1> QED BY <1>3, ClaimedDelivers DEF Fulfils

LEMMA PutBackCarries ==
  ASSUME MessageInv, UNCHANGED <<batch, fate>>, Steering(task', fate'),
         NEW e, Once(queue'), Waiting(queue') = Waiting(queue) \union {e},
         Asked(task) = {e}, Asked(task') = {}, admitted' = admitted \ {e}
  PROVE  Fulfils
<1>1. Waiting(queue') \union Asked(task') = Waiting(queue) \union Asked(task)
  OBVIOUS
<1>2. Known(Asked(task'), admitted', batch', fate')
  BY DEF MessageInv, Carries, Known, Sound
<1>3. Carries'
  BY <1>1, <1>2 DEF MessageInv, Carries
<1> QED BY <1>3, PutBackDelivers DEF Fulfils

(* An entry is submitted, to the FIFO or at once to the backend. *)
LEMMA EntersCarries ==
  ASSUME MessageInv, UNCHANGED batch, Steering(task', fate'),
         NEW e \in Entries, fate[e] \in {"unsent", "sending"}, fate' = [fate EXCEPT ![e] = "open"],
         \/ /\ Once(queue') /\ Waiting(queue') = Waiting(queue) \union {e}
            /\ Asked(task') = Asked(task) /\ UNCHANGED admitted
         \/ /\ UNCHANGED queue /\ Asked(task) = {} /\ Asked(task') = {e}
            /\ admitted' = admitted \union {e}
  PROVE  Fulfils
<1> DEFINE L == Waiting(queue) \union Asked(task)
<1>1. L \in SUBSET Entries /\ fate \in [Entries -> Fates] /\ Sound(L, batch, fate)
  BY MessageParts DEF MessageInv, Carries
<1>2. e \notin L
  BY <1>1, FreshIsNotLive
<1>3. Sound(L \union {e}, batch, fate')
  BY <1>1, SoundEnters
<1>4. Waiting(queue') \union Asked(task') = L \union {e}
  OBVIOUS
<1>5. Waiting(queue') \cap Asked(task') = {} /\ Once(queue')
  BY <1>2 DEF MessageInv, Carries
<1>6. Known(Asked(task'), admitted', batch', fate')
  BY <1>1 DEF MessageInv, Carries, Known
<1> HIDE DEF L
<1>7. Carries'
  BY <1>3, <1>4, <1>5, <1>6 DEF Carries
<1>8. Delivers
  BY AcceptedDelivers
<1> QED BY <1>7, <1>8 DEF Fulfils

(* A steer joins a waiting batch. *)
LEMMA JoinsCarries ==
  ASSUME MessageInv, UNCHANGED <<queue, admitted>>, Asked(task') = Asked(task),
         Steering(task', fate'), NEW x \in Waiting(queue),
         NEW e \in Entries, fate[e] \in {"unsent", "sending"}, fate' = [fate EXCEPT ![e] = "open"],
         batch' = [batch EXCEPT ![x] = @ \union {e}]
  PROVE  Fulfils
<1> DEFINE L == Waiting(queue) \union Asked(task)
<1>1. /\ L \in SUBSET Entries /\ fate \in [Entries -> Fates] /\ Sound(L, batch, fate)
      /\ batch \in [Entries -> SUBSET Entries] /\ x \in L
  BY MessageParts DEF MessageInv, Carries
<1>2. Sound(L, batch', fate')
  BY <1>1, SoundJoins
<1>3. Known(Asked(task'), admitted', batch', fate')
  <2>1. \A y \in Entries : batch[y] \subseteq batch'[y]
    BY <1>1
  <2>2. \A m \in Entries : fate'[m] = "delivered" => fate[m] = "delivered"
    BY <1>1
  <2> QED BY <2>1, <2>2, MessageParts DEF MessageInv, Carries, Known
<1> HIDE DEF L
<1>4. Waiting(queue') \union Asked(task') = L
  BY DEF L
<1>5. Carries'
  BY <1>2, <1>3, <1>4 DEF MessageInv, Carries
<1>6. \A g \in Asked(task) : batch'[g] = batch[g]
  BY <1>1, MessageParts DEF MessageInv, Carries
<1>7. Delivers
  BY <1>6, AcceptedDelivers
<1> QED BY <1>5, <1>7 DEF Fulfils

(* An entry is cancelled, delivered or refused, with all its messages. *)
LEMMA LeavesCarries ==
  ASSUME MessageInv, UNCHANGED batch, Steering(task', fate'),
         NEW e \in Entries, NEW s \in Settled,
         fate' = [m \in Entries |-> IF m \in batch[e] THEN s ELSE fate[m]],
         \/ /\ s = "cancelled" /\ e \in Waiting(queue)
            /\ Once(queue') /\ Waiting(queue') = Waiting(queue) \ {e}
            /\ Asked(task') = Asked(task) /\ UNCHANGED admitted
         \/ /\ s = "delivered" /\ UNCHANGED <<queue, admitted>>
            /\ Asked(task) = {e} /\ Asked(task') = {}
         \/ /\ s = "failed" /\ UNCHANGED queue /\ admitted' = admitted \ {e}
            /\ Asked(task) = {e} /\ Asked(task') = {}
  PROVE  Fulfils
<1> DEFINE L == Waiting(queue) \union Asked(task)
<1>1. /\ L \in SUBSET Entries /\ fate \in [Entries -> Fates] /\ Sound(L, batch, fate)
      /\ batch \in [Entries -> SUBSET Entries] /\ e \in L
  BY MessageParts DEF MessageInv, Carries
<1>2. Sound(L \ {e}, batch, fate')
  BY <1>1, SoundLeaves
<1>3. Waiting(queue') \union Asked(task') = L \ {e}
  BY DEF MessageInv, Carries
<1>4. Waiting(queue') \cap Asked(task') = {} /\ Once(queue')
  BY DEF MessageInv, Carries
<1>5. Known(Asked(task'), admitted', batch', fate')
  <2>1. \A m \in Entries : fate[m] = "delivered" => m \notin batch[e]
    BY <1>1 DEF Sound
  <2>2. CASE s = "delivered" /\ Asked(task) = {e} /\ Asked(task') = {} /\ UNCHANGED admitted
    <3>1. e \in admitted
      BY <2>2 DEF MessageInv, Carries, Known
    <3> QED BY <2>2, <3>1, MessageParts DEF MessageInv, Carries, Known
  <2>3. CASE s # "delivered"
    <3>1. \A m \in Entries : fate'[m] = "delivered" => fate[m] = "delivered"
      BY <2>3
    <3> QED BY <2>1, <2>3, <3>1 DEF MessageInv, Carries, Known
  <2> QED BY <2>2, <2>3
<1> HIDE DEF L
<1>6. Carries'
  BY <1>2, <1>3, <1>4, <1>5 DEF Carries
<1>7. Delivers
  BY LeavesDelivers
<1> QED BY <1>6, <1>7 DEF Fulfils

-----------------------------------------------------------------------------
(* Every action keeps MessageInv: the steps of a chain in the handoff. *)

LEMMA EmittedCarries ==
  ASSUME MessageInv, NEW t \in Tasks, Emitted(t)
  PROVE  Fulfils
<1>1. UNCHANGED <<queue, batch, fate, admitted>>
  BY DEF Emitted, HoldEmitted, HeldEmitted, ClearEmitted, UnlockEmitted, StartEmitted,
         TerminalEmitted, FailureEmitted, BlockEmitted, SteerEmitted, SteerLeaves, InputEdited
<1>2. Moves(t)
  BY HoldEmittedHandoff, BlockedHandoff, ClearHandoff, UnlockHandoff, StartEmittedHandoff,
     TerminalEmittedHandoff, FinishedHandoff, EditHandoff DEF Emitted, Ends, MessageInv
<1>3. ~Asks(task[t])
  BY DEF Emitted, HoldEmitted, HeldEmitted, ClearEmitted, UnlockEmitted, StartEmitted,
         TerminalEmitted, FailureEmitted, BlockEmitted, SteerEmitted, SteerLeaves, InputEdited,
         MayEdit
<1> QED BY <1>1, <1>2, <1>3, RestsCarries DEF Sends

LEMMA ReleaseCarries ==
  ASSUME MessageInv, NEW n, Report(n)
  PROVE  Fulfils
<1>1. CASE ReleaseBuffered(n) \/ ReleaseIgnored(n) \/ ReleaseCoalesced(n)
  BY <1>1, ElsewhereCarries DEF ReleaseBuffered, ReleaseIgnored, ReleaseCoalesced
<1>2. ASSUME NEW t \in Tasks, Release(t, n)  PROVE Fulfils
  <2>1. Moves(t) /\ ~Asks(task[t]) /\ UNCHANGED <<queue, batch, fate, admitted>>
    BY <1>2, ReleaseHandoff DEF Release, Free, MessageInv
  <2> QED BY <2>1, RestsCarries DEF Sends
<1> QED BY <1>1, <1>2 DEF Report

LEMMA AcceptedMoves ==
  ASSUME MessageInv, NEW t \in Tasks, StartAcknowledged(t) \/ SteerAccepted(t)
  PROVE  Others(t) /\ task'[t].pc \in {"started", "steered"}
<1>1. CASE StartAcknowledged(t)
  <2>1. PICK c : c.pc = "started" /\ task' = [task EXCEPT ![t] = c]
    <3> DEFINE c == [task[t] EXCEPT !.pc = "started", !.early = TerminalOf(admission') # {}]
    <3>1. task' = [task EXCEPT ![t] = c]
      BY <1>1 DEF StartAcknowledged
    <3>2. c.pc = "started"
      BY MessageParts DEF Chain
    <3> QED BY <3>1, <3>2
  <2> QED BY <2>1, OnlyOne, MessageParts
<1>2. CASE SteerAccepted(t)
  <2>1. PICK c : c.pc = "steered" /\ task' = [task EXCEPT ![t] = c]
    <3> DEFINE c == [task[t] EXCEPT !.pc = "steered", !.rev = 0]
    <3>1. task' = [task EXCEPT ![t] = c]
      BY <1>2 DEF SteerAccepted
    <3>2. c.pc = "steered"
      BY MessageParts DEF Chain
    <3> QED BY <3>1, <3>2
  <2> QED BY <2>1, OnlyOne, MessageParts
<1> QED BY <1>1, <1>2

(* A start or a steer is accepted: the entry's messages are delivered. *)
LEMMA AcceptedCarries ==
  ASSUME MessageInv, NEW t \in Tasks, StartAcknowledged(t) \/ SteerAccepted(t)
  PROVE  Fulfils
<1> DEFINE e == task[t].entry
<1>1. /\ Asks(task[t]) /\ e \in Entries /\ UNCHANGED <<queue, batch, admitted>>
      /\ fate' = [m \in Entries |-> IF m \in batch[e] THEN "delivered" ELSE fate[m]]
  BY MessageParts DEF StartAcknowledged, SteerAccepted, Deliver
<1>2. Others(t) /\ task'[t].pc \in {"started", "steered"}
  BY AcceptedMoves
<1>3. Asked(task) = {e} /\ Asked(task') = {}
  BY <1>1, <1>2, AskedEnds, MessageParts
<1>4. Steering(task', fate')
  <2>1. \A m \in batch[e] : fate[m] = "open"
    BY <1>3 DEF MessageInv, Carries, Sound
  <2>2. \A m \in Entries : fate[m] = "sending" => fate'[m] = "sending"
    BY <1>1, <2>1
  <2> QED BY <1>2, <2>2, SteeringKept, MessageParts DEF MessageInv, Carries, Sends
<1>5. "delivered" \in Settled
  BY DEF Settled
<1> HIDE DEF e
<1> QED BY <1>1, <1>3, <1>4, <1>5, LeavesCarries

(* A direct start is refused: the caller is told, the messages are gone. *)
LEMMA FailedCarries ==
  ASSUME MessageInv, NEW t \in Tasks, DirectStartRejected(t)
  PROVE  Fulfils
<1> DEFINE e == task[t].entry
<1>1. /\ Asks(task[t]) /\ e \in Entries /\ UNCHANGED <<queue, batch>>
      /\ admitted' = admitted \ {e}
      /\ fate' = [m \in Entries |-> IF m \in batch[e] THEN "failed" ELSE fate[m]]
  BY MessageParts DEF DirectStartRejected, Refuse
<1>2. Moves(t)
  BY DirectStartRejectedHandoff DEF MessageInv
<1>3. Asked(task) = {e} /\ Asked(task') = {}
  BY <1>1, <1>2, AskedEnds, MessageParts
<1>4. Steering(task', fate')
  <2>1. \A m \in batch[e] : fate[m] = "open"
    BY <1>3 DEF MessageInv, Carries, Sound
  <2>2. \A m \in Entries : fate[m] = "sending" => fate'[m] = "sending"
    BY <1>1, <2>1
  <2> QED BY <1>2, <2>2, SteeringKept, MessageParts DEF MessageInv, Carries, Sends
<1>5. "failed" \in Settled
  BY DEF Settled
<1> HIDE DEF e
<1> QED BY <1>1, <1>3, <1>4, <1>5, LeavesCarries

(* A queued start or a steer is refused or declined: the entry goes back.  *)
LEMMA PutBackKeepsMessages ==
  ASSUME MessageInv, NEW t \in Tasks, NEW e, e = task[t].entry, Asks(task[t]),
         PutBack(t, e), Moves(t), UNCHANGED <<batch, fate>>
  PROVE  Fulfils
<1>1. e \in Entries
  BY MessageParts
<1>2. Asked(task) = {e} /\ Asked(task') = {}
  BY AskedEnds, MessageParts
<1>3. e \notin Waiting(queue) /\ Once(queue)
  BY <1>2 DEF MessageInv, Carries
<1>4. Once(queue') /\ Waiting(queue') = Waiting(queue) \union {e}
  BY <1>1, <1>3, RestoreWaits, MessageParts DEF PutBack
<1>5. Steering(task', fate')
  BY SteeringKept, MessageParts DEF MessageInv, Carries, Sends
<1> QED BY <1>2, <1>4, <1>5, PutBackCarries DEF PutBack

LEMMA AnsweredCarries ==
  ASSUME MessageInv, NEW t \in Tasks, Answer(t)
  PROVE  Fulfils
<1>1. CASE StartAcknowledged(t) \/ SteerAccepted(t)
  BY <1>1, AcceptedCarries
<1>2. CASE DirectStartRejected(t)
  BY <1>2, FailedCarries
<1>3. ASSUME NEW r \in Refusals, QueuedStartRejected(t, r) \/ SteerRejected(t, r)
      PROVE  Fulfils
  <2>1. Asks(task[t]) /\ PutBack(t, task[t].entry) /\ UNCHANGED <<batch, fate>>
    BY <1>3 DEF QueuedStartRejected, SteerRejected, Refuse, Block
  <2>2. Moves(t)
    BY <1>3, RejectedHandoff DEF Ends, MessageInv
  <2> QED BY <2>1, <2>2, PutBackKeepsMessages
<1>4. ASSUME NEW retry \in BOOLEAN, SteerDeclined(t, retry)
      PROVE  Fulfils
  <2>1. [task[t] EXCEPT !.early = retry, !.rev = 0].pc = task[t].pc
        /\ [task[t] EXCEPT !.early = retry, !.rev = 0].entry = task[t].entry
    BY MessageParts DEF Chain
  <2>2. Asks(task[t]) /\ PutBack(t, task[t].entry) /\ UNCHANGED <<batch, fate>>
    BY <1>4, <2>1 DEF SteerDeclined
  <2>3. Moves(t)
    BY <1>4, SteerDeclinedHandoff DEF MessageInv
  <2> QED BY <2>2, <2>3, PutBackKeepsMessages
<1> QED BY <1>1, <1>2, <1>3, <1>4 DEF Answer

-----------------------------------------------------------------------------
(* Claims, submissions and edits. *)

LEMMA ClaimAsks ==
  ASSUME NEW t \in Tasks, NEW ctx, NEW can, MessageInv, Claim(t, ctx, can)
  PROVE  /\ Asks(task'[t]) /\ task'[t].entry = Dispatchable(can)
         /\ task'[t].prev = IF NextWaiting(queue) > 1
                            THEN queue[NextWaiting(queue) - 1] ELSE NoEntry
<1> DEFINE e == Dispatchable(can)
           d == Detached(task, RemoveAt(queue, NextWaiting(queue)))
           p == IF NextWaiting(queue) > 1 THEN queue[NextWaiting(queue) - 1] ELSE NoEntry
<1>1. PICK c : Asks(c) /\ c.entry = e /\ c.prev = p /\ task' = [d EXCEPT ![t] = c]
  <2> DEFINE c == [IdleTask EXCEPT !.pc = IF Steerable(e, can) THEN "steering" ELSE "starting",
                                   !.ctx = ctx, !.entry = e,
                                   !.rev = IF Steerable(e, can) THEN revision' ELSE 0,
                                   !.prev = p]
  <2>1. task' = [d EXCEPT ![t] = c]
    BY DEF Claim
  <2> HIDE DEF e, d, p
  <2>2. c.pc = (IF Steerable(e, can) THEN "steering" ELSE "starting") /\ c.entry = e /\ c.prev = p
    BY DEF IdleTask
  <2> QED BY <2>1, <2>2
<1>2. d \in [Tasks -> Chain]
  BY DetachedType, AllParts, MessageParts
<1> HIDE DEF d
<1> QED BY <1>1, <1>2

LEMMA ClaimCarries ==
  ASSUME MessageInv, NEW t \in Tasks, NEW ctx, NEW can, Claim(t, ctx, can)
  PROVE  Fulfils
<1> DEFINE e == Dispatchable(can)
           w == NextWaiting(queue)
<1>1. /\ queue' = RemoveAt(queue, w) /\ e # NoEntry
      /\ admitted' = admitted \union {e} /\ UNCHANGED <<batch, fate>>
  BY DEF Claim, Admit
<1>2. w \in 1..Len(queue) /\ e = queue[w]
  BY <1>1, DispatchableType, MessageParts
<1>3. e \in Waiting(queue)
  BY <1>2 DEF Waiting
<1>4. Once(queue') /\ Waiting(queue') = Waiting(queue) \ {e}
  BY <1>1, <1>2, RemoveWaits, MessageParts DEF MessageInv, Carries
<1>5. Begins(t)
  BY ClaimHandoff DEF MessageInv
<1>6. Asks(task'[t]) /\ task'[t].entry = e
  BY ClaimAsks
<1>7. Asked(task) = {} /\ Asked(task') = {e}
  BY <1>5, <1>6, AskedBegins, MessageParts
<1>8. Steering(task', fate')
  BY <1>1, <1>5, <1>6, SteeringKept, MessageParts DEF Begins, MessageInv, Carries, Sends
<1> HIDE DEF e, w
<1> QED BY <1>1, <1>3, <1>4, <1>7, <1>8, ClaimedCarries

LEMMA StartEntryAsks ==
  ASSUME MessageInv, NEW t \in Tasks, NEW e, NEW ctx, StartEntry(t, e, ctx)
  PROVE  Asks(task'[t]) /\ task'[t].entry = e /\ admitted' = admitted \union {e}
<1> DEFINE c == [IdleTask EXCEPT !.pc = "starting", !.ctx = ctx, !.entry = e]
<1>1. task' = [task EXCEPT ![t] = c] /\ admitted' = admitted \union {e}
  BY DEF StartEntry, Admit
<1>2. c.pc = "starting" /\ c.entry = e
  BY DEF IdleTask
<1> HIDE DEF c
<1> QED BY <1>1, <1>2, AllParts, MessageParts DEF TaskOK

(* A chain that was not asking begins with a fresh entry. *)
LEMMA StartsCarries ==
  ASSUME MessageInv, NEW t \in Tasks, NEW e \in Entries, NEW ctx, StartEntry(t, e, ctx), Begins(t),
         fate[e] \in {"unsent", "sending"}, fate' = [fate EXCEPT ![e] = "open"],
         fate[e] = "unsent" \/ (Sends(task[t]) /\ task[t].entry = e),
         UNCHANGED <<queue, batch>>
  PROVE  Fulfils
<1>1. Asks(task'[t]) /\ task'[t].entry = e /\ admitted' = admitted \union {e}
  BY StartEntryAsks
<1>2. Asked(task) = {} /\ Asked(task') = {e}
  BY <1>1, AskedBegins, MessageParts
<1>3. Steering(task', fate')
  BY <1>1, SteeringKept, MessageParts DEF Begins, MessageInv, Carries, Sends
<1> QED BY <1>1, <1>2, <1>3, EntersCarries

LEMMA StartNowCarries ==
  ASSUME MessageInv, NEW t \in Tasks, NEW e \in Entries, StartNow(t, e)
  PROVE  Fulfils
<1>1. /\ StartEntry(t, e, "direct") /\ fate[e] = "unsent" /\ fate' = [fate EXCEPT ![e] = "open"]
      /\ UNCHANGED <<queue, batch>>
  BY DEF StartNow, Unsent
<1>2. Begins(t)
  BY StartNowHandoff DEF MessageInv
<1> QED BY <1>1, <1>2, StartsCarries

(* A submission that waits: at the back, or put in where it is held. *)
LEMMA WaitsCarries ==
  ASSUME MessageInv, NEW e \in Entries, fate[e] = "unsent", fate' = [fate EXCEPT ![e] = "open"],
         UNCHANGED <<batch, admitted>>,
         \/ UNCHANGED task
         \/ \E t \in Tasks : Moves(t) /\ ~Asks(task[t]),
         \/ queue' = Append(queue, e)
         \/ \E i \in 1..(Len(queue) + 1) : queue' = InsertAt(queue, i, e)
  PROVE  Fulfils
<1>1. e \notin Waiting(queue) /\ Once(queue)
  BY FreshIsNotLive DEF MessageInv, Carries
<1>2. Once(queue') /\ Waiting(queue') = Waiting(queue) \union {e}
  <2>1. CASE queue' = Append(queue, e)
    BY <1>1, <2>1, AppendWaits, MessageParts
  <2>2. ASSUME NEW i \in 1..(Len(queue) + 1), queue' = InsertAt(queue, i, e)
        PROVE  Once(queue') /\ Waiting(queue') = Waiting(queue) \union {e}
    BY <1>1, <2>2, InsertWaits, MessageParts
  <2> QED BY <2>1, <2>2
<1>3. \A m \in Entries : fate[m] = "sending" => fate'[m] = "sending"
  BY MessageParts
<1>4. CASE UNCHANGED task
  <2>1. \A u \in Tasks : Sends(task[u]) => task[u].entry \in Entries
    BY MessageParts DEF Sends
  <2>2. Steering(task', fate')
    BY <1>3, <1>4, <2>1 DEF MessageInv, Carries, Steering
  <2> QED BY <1>2, <1>4, <2>2, EntersCarries
<1>5. ASSUME NEW t \in Tasks, Moves(t), ~Asks(task[t])  PROVE Fulfils
  <2>1. Asked(task') = Asked(task)
    BY <1>5, AskedKept
  <2>2. Steering(task', fate')
    BY <1>3, <1>5, SteeringKept, MessageParts DEF MessageInv, Carries, Sends
  <2> QED BY <1>2, <2>1, <2>2, EntersCarries
<1> QED BY <1>4, <1>5

LEMMA SubmitHeldCarries ==
  ASSUME MessageInv, NEW t \in Tasks, NEW e \in Entries, NEW r, SubmitHeld(t, e, r)
  PROVE  Fulfils
<1>1. PlaceOfHeld \in 1..(Len(queue) + 1)
  <2> DEFINE I == {k \in 1..Len(queue) : queue[k] \notin Continuations}
  <2>1. I # {} => Min(I) \in I
    <3>1. I \in SUBSET Nat
      OBVIOUS
    <3> HIDE DEF I
    <3> QED BY <3>1, MinIn
  <2>2. SelectInSeq(queue, LAMBDA x : x \notin Continuations) = IF I # {} THEN Min(I) ELSE 0
    BY DEF SelectInSeq
  <2>3. Len(queue) \in Nat
    BY MessageParts
  <2> QED BY <2>1, <2>2, <2>3 DEF PlaceOfHeld
<1>2. /\ queue' = InsertAt(queue, PlaceOfHeld, e) /\ fate[e] = "unsent"
      /\ fate' = [fate EXCEPT ![e] = "open"] /\ UNCHANGED <<batch, admitted>>
      /\ ~Asks(task[t])
  BY DEF SubmitHeld, Unsent, Free
<1>3. Moves(t)
  BY SubmitHeldHandoff DEF MessageInv
<1> QED BY <1>1, <1>2, <1>3, WaitsCarries

(* An edit is asked for: of a waiting entry, or to submit a steer. *)
LEMMA StartsEditCarries ==
  ASSUME MessageInv, NEW t \in Tasks, NEW e \in Entries,
         EditsEntry(t, e) \/ EditsSteer(t, e) \/ Retry(t, e)
  PROVE  Fulfils
<1>1. PICK op, before : /\ EnterEdit(t, op, e, before)
                         /\ \/ op # "steer" /\ UNCHANGED fate
                            \/ op = "steer" /\ EditsSteer(t, e)
  <2>1. CASE EditsEntry(t, e)
    BY <2>1 DEF EditsEntry
  <2>2. CASE EditsSteer(t, e)
    BY <2>2 DEF EditsSteer
  <2>3. CASE Retry(t, e)
    BY <2>3 DEF Retry
  <2> QED BY <2>1, <2>2, <2>3
<1> DEFINE c == [IdleTask EXCEPT !.pc = "editing", !.ctx = "edit",
                                 !.op = op, !.entry = e, !.prev = before]
<1>2. task' = [task EXCEPT ![t] = c] /\ ~Asks(task[t]) /\ UNCHANGED <<queue, batch, admitted>>
  BY <1>1 DEF EnterEdit, Free
<1>3. c.pc = "editing" /\ c.op = op /\ c.entry = e
  BY DEF IdleTask
<1> HIDE DEF c
<1>4. Others(t) /\ task'[t] = c
  BY <1>2, OnlyOne, MessageParts
<1>5. Asked(task') = Asked(task)
  BY <1>2, <1>3, <1>4, AskedKept
<1>6. CASE op # "steer" /\ UNCHANGED fate
  BY <1>2, <1>3, <1>4, <1>6, RestsCarries DEF Sends
<1>7. CASE EditsSteer(t, e)
  <2>1. fate[e] = "unsent" /\ fate' = [fate EXCEPT ![e] = "sending"]
    BY <1>7 DEF EditsSteer, Unsent
  <2>2. Steering(task', fate')
    <3>1. \A u \in Tasks : Sends(task[u]) => task[u].entry \in Entries /\ task[u].entry # e
      BY <2>1, MessageParts DEF MessageInv, Carries, Steering, Sends
    <3>2. \A u \in Tasks \ {t} : /\ Sends(task'[u]) <=> Sends(task[u])
                                 /\ task'[u].entry = task[u].entry
      BY <1>4 DEF Others, Sends
    <3> QED BY <1>3, <1>4, <2>1, <3>1, <3>2, MessageParts DEF MessageInv, Carries, Steering
  <2>3. Sound(Waiting(queue) \union Asked(task), batch, fate')
    BY <2>1, SoundSends, MessageParts DEF MessageInv, Carries
  <2>4. Known(Asked(task), admitted, batch, fate')
    BY <2>1, MessageParts DEF MessageInv, Carries, Known
  <2>5. Carries'
    BY <1>2, <1>5, <2>2, <2>3, <2>4 DEF MessageInv, Carries
  <2>6. Delivers
    <3>1. \A m \in Entries : fate'[m] = IF m = e THEN "sending" ELSE fate[m]
      BY <2>1, MessageParts
    <3>2. \A m \in Entries :
            PlaceIn(Asked(task), batch, fate', m) = PlaceIn(Asked(task), batch, fate, m)
      BY <2>1, <3>1 DEF PlaceIn
    <3> QED BY <1>2, <1>5, <3>2, StaysPut
  <2> QED BY <2>5, <2>6 DEF Fulfils
<1> QED BY <1>1, <1>6, <1>7

LEMMA CancelCarries ==
  ASSUME MessageInv, NEW e \in Entries, CancelEntry(e)
  PROVE  Fulfils
<1> DEFINE w == IndexOf(queue, e)
           q == RemoveAt(queue, w)
<1>1. /\ InQueue(e) /\ queue' = q /\ task' = Detached(task, q) /\ UNCHANGED <<batch, admitted>>
      /\ fate' = [m \in Entries |-> IF m \in batch[e] THEN "cancelled" ELSE fate[m]]
  BY DEF CancelEntry
<1>2. w \in 1..Len(queue) /\ queue[w] = e
  <2>1. \E k \in 1..Len(queue) : queue[k] = e
    BY <1>1, MessageParts DEF InQueue, Contains
  <2> QED BY <2>1, IndexOfType, MessageParts
<1>3. e \in Waiting(queue)
  BY <1>2 DEF Waiting
<1>4. Once(queue') /\ Waiting(queue') = Waiting(queue) \ {e}
  BY <1>1, <1>2, RemoveWaits, MessageParts DEF MessageInv, Carries
<1>5. \A u \in Tasks : /\ task'[u].pc = task[u].pc /\ task'[u].entry = task[u].entry
                       /\ task'[u].op = task[u].op
  BY <1>1, DetachedType, AllParts, MessageParts
<1> HIDE DEF q, w
<1>6. Asked(task') = Asked(task)
  BY <1>5 DEF Asked
<1>7. Steering(task', fate')
  <2>1. \A m \in batch[e] : fate[m] = "open"
    BY <1>3 DEF MessageInv, Carries, Sound
  <2>2. \A m \in Entries : fate[m] = "sending" => fate'[m] = "sending"
    BY <1>1, <2>1
  <2>3. \A u \in Tasks : Sends(task[u]) => task[u].entry \in Entries
    BY MessageParts DEF Sends
  <2> QED BY <1>5, <2>2, <2>3 DEF MessageInv, Carries, Steering, Sends
<1>8. "cancelled" \in Settled
  BY DEF Settled
<1> QED BY <1>1, <1>3, <1>4, <1>6, <1>7, <1>8, LeavesCarries

LEMMA SubmissionCarries ==
  ASSUME MessageInv, Submission
  PROVE  Fulfils
<1>1. ASSUME NEW e \in Entries, Enqueue(e) \/ SubmitProjectHeld(e)
      PROVE  Fulfils
  <2>1. /\ queue' = Append(queue, e) /\ fate[e] = "unsent" /\ fate' = [fate EXCEPT ![e] = "open"]
        /\ UNCHANGED <<batch, admitted, task>>
    BY <1>1 DEF Enqueue, SubmitProjectHeld, Unsent
  <2> QED BY <2>1, WaitsCarries
<1>2. ASSUME NEW t \in Tasks, ReleaseHold(t)  PROVE Fulfils
  <2>1. Moves(t) /\ ~Asks(task[t]) /\ UNCHANGED <<queue, batch, fate, admitted>>
    BY <1>2, UnlockHandoff DEF ReleaseHold, Free, MessageInv
  <2> QED BY <2>1, RestsCarries DEF Sends
<1>3. CASE (\E e \in Entries : EditInput(e)) \/ ScheduleThreadDrain \/ Close
  BY <1>3, ElsewhereCarries DEF EditInput, ScheduleThreadDrain, Close
<1> QED
  BY <1>1, <1>2, <1>3, CancelCarries, StartNowCarries, StartsEditCarries, SubmitHeldCarries
  DEF Submission

LEMMA JoinableBatchWaits ==
  ASSUME MessageInv, NEW e, JoinableBatch(e) # 0
  PROVE  queue[JoinableBatch(e)] \in Waiting(queue)
<1> DEFINE I == {k \in 1..Len(queue) : queue[k] \in Batches \ edited /\ queue[k] \notin paused}
<1>1. JoinableBatch(e) = IF e \in Batches /\ I # {} THEN Min(I) ELSE 0
  BY DEF JoinableBatch, SelectInSeq
<1>2. I # {} => Min(I) \in I
  <2>1. I \in SUBSET Nat
    OBVIOUS
  <2> HIDE DEF I
  <2> QED BY <2>1, MinIn
<1> QED BY <1>1, <1>2 DEF Waiting

LEMMA SubmitSteerCarries ==
  ASSUME MessageInv, NEW t \in Tasks, SubmitSteer(t)
  PROVE  Fulfils
<1> DEFINE e == task[t].entry
           c == JoinableBatch(e)
           j == IF c = 0 THEN e ELSE queue[c]
<1>1. Sends(task[t]) /\ ~Asks(task[t]) /\ e \in Entries
  BY MessageParts DEF SubmitSteer, MayEdit, Sends
<1>2. fate[e] = "sending"
  BY <1>1 DEF MessageInv, Carries, Steering
<1>3. fate' = [fate EXCEPT ![e] = "open"]
  BY DEF SubmitSteer
<1>4. CASE StartEntry(t, e, "edit") /\ UNCHANGED <<queue, batch>>
  <2>1. task'[t].pc = "starting"
    <3>1. [IdleTask EXCEPT !.pc = "starting", !.ctx = "edit", !.entry = e].pc = "starting"
      BY DEF IdleTask
    <3> QED BY <1>4, <3>1, AllParts, MessageParts DEF StartEntry, TaskOK
  <2>2. Begins(t)
    BY <2>1, SubmitSteerHandoff DEF MessageInv
  <2> QED BY <1>1, <1>2, <1>3, <1>4, <2>2, StartsCarries
<1>5. CASE /\ queue' = IF c = 0 THEN Append(queue, e) ELSE queue
           /\ batch' = [batch EXCEPT ![j] = @ \union {e}]
           /\ task' = [task EXCEPT ![t].pc = "leaving"] /\ UNCHANGED admitted
  <2>1. Others(t) /\ task'[t].pc = "leaving"
    <3> DEFINE d == [task[t] EXCEPT !.pc = "leaving"]
    <3>1. task' = [task EXCEPT ![t] = d]
      BY <1>5
    <3>2. d.pc = "leaving"
      BY MessageParts DEF Chain
    <3> HIDE DEF d
    <3> QED BY <3>1, <3>2, OnlyOne, MessageParts
  <2>2. Asked(task') = Asked(task)
    BY <1>1, <2>1, AskedKept
  <2>3. Steering(task', fate')
    BY <1>1, <1>3, <2>1, SteeringKept, MessageParts DEF MessageInv, Carries, Sends
  <2>4. CASE c = 0
    <3>1. e \notin Waiting(queue) /\ batch[e] = {e}
      BY <1>1, <1>2, FreshIsNotLive DEF MessageInv, Carries
    <3>2. UNCHANGED batch
      BY <1>1, <1>5, <2>4, <3>1, MessageParts
    <3>3. Once(queue') /\ Waiting(queue') = Waiting(queue) \union {e}
      BY <1>1, <1>5, <2>4, <3>1, AppendWaits, MessageParts DEF MessageInv, Carries
    <3> HIDE DEF e, c, j
    <3> QED BY <1>1, <1>2, <1>3, <1>5, <2>2, <2>3, <3>2, <3>3, EntersCarries
  <2>5. CASE c # 0
    <3>1. j \in Waiting(queue)
      BY <2>5, JoinableBatchWaits
    <3>2. UNCHANGED queue
      BY <1>5, <2>5
    <3> HIDE DEF e, c, j
    <3> QED BY <1>1, <1>2, <1>3, <1>5, <2>2, <2>3, <3>1, <3>2, JoinsCarries
  <2> QED BY <2>4, <2>5
<1>6. \/ StartEntry(t, e, "edit") /\ UNCHANGED <<queue, batch>>
      \/ /\ queue' = IF c = 0 THEN Append(queue, e) ELSE queue
         /\ batch' = [batch EXCEPT ![j] = @ \union {e}]
         /\ task' = [task EXCEPT ![t].pc = "leaving"] /\ UNCHANGED admitted
  BY DEF SubmitSteer
<1> QED BY <1>4, <1>5, <1>6

LEMMA MoveEntryCarries ==
  ASSUME MessageInv, NEW t \in Tasks, MoveEntry(t)
  PROVE  Fulfils
<1>1. Moves(t)
  BY EditHandoff DEF MessageInv
<1>2. /\ ~Asks(task[t]) /\ queue' = Moved(queue, task[t].entry, task[t].prev)
      /\ UNCHANGED <<batch, fate, admitted>>
  BY DEF MoveEntry, MayEdit
<1>3. Once(queue') /\ Waiting(queue') = Waiting(queue)
  BY <1>2, MovedWaits, MessageParts DEF MessageInv, Carries
<1>4. Asked(task') = Asked(task)
  BY <1>1, <1>2, AskedKept
<1>5. Steering(task', fate')
  BY <1>1, <1>2, SteeringKept, MessageParts DEF MessageInv, Carries, Sends
<1> QED BY <1>2, <1>3, <1>4, <1>5, KeptCarries

LEMMA ProceedCarries ==
  ASSUME MessageInv, NEW t \in Tasks, Proceed(t)
  PROVE  Fulfils
<1>1. CASE StartNext(t)
  <2>1. CASE \E can \in BOOLEAN : Claim(t, task[t].ctx, can)
    BY <2>1, ClaimCarries
  <2>2. CASE Return(t) /\ UNCHANGED <<fifo, hold, handoff, provider, history>>
    <3>1. Moves(t) /\ ~Asks(task[t])
      BY <1>1, <2>2, ReturnEnds, MessageParts DEF StartNext
    <3> QED BY <2>2, <3>1, RestsCarries DEF Sends
  <2> QED BY <1>1, <2>1, <2>2 DEF StartNext
<1>2. CASE \/ StartFinished(t) \/ SteerBack(t) \/ ReleaseRefused(t) \/ PauseEntry(t)
           \/ ResumeEntry(t) \/ ClearQueueHold(t) \/ SteerLeaves(t, "left")
  <2>1. UNCHANGED <<queue, batch, fate, admitted>>
    BY <1>2 DEF StartFinished, SteerBack, ReleaseRefused, PauseEntry, ResumeEntry,
                ClearQueueHold, SteerLeaves
  <2>2. ~Asks(task[t])
    BY <1>2 DEF StartFinished, SteerBack, ReleaseRefused, PauseEntry, ResumeEntry,
                ClearQueueHold, SteerLeaves, MayEdit
  <2>3. Moves(t)
    BY <1>2, FinishedHandoff, ReleaseRefusedHandoff, EditHandoff, ClearHandoff
    DEF Ends, MessageInv
  <2> QED BY <2>1, <2>2, <2>3, RestsCarries DEF Sends
<1> QED BY <1>1, <1>2, MoveEntryCarries, SubmitSteerCarries DEF Proceed

-----------------------------------------------------------------------------
LEMMA MessageInit == Init => MessageInv
<1> SUFFICES ASSUME Init PROVE MessageInv
  OBVIOUS
<1>1. HandoffInv
  BY HandoffInit
<1>2. \A t \in Tasks : ~Asks(task[t]) /\ ~Sends(task[t])
  BY DEF Init, IdleTask, Sends
<1>3. Asked(task) = {} /\ Steering(task, fate)
  BY <1>2 DEF Asked, Steering
<1>4. Cardinality(Continuations) \in Nat /\ IsFiniteSet(Continuations)
      /\ Continuations \subseteq Entries
  <2>1. IsFiniteSet(Entries)
    BY QueueAssumption, FS_Interval DEF Entries
  <2> QED BY <2>1, QueueAssumption, FS_Subset, FS_CardinalityType
<1>5. /\ queue \in [1..Cardinality(Continuations) -> Continuations]
      /\ Len(queue) = Cardinality(Continuations)
      /\ \A i, j \in 1..Len(queue) : i < j => queue[i] < queue[j]
  BY <1>4 DEF Init
<1>6. Once(queue)
  <2>1. \A i \in 1..Len(queue) : queue[i] \in Continuations
    BY <1>5
  <2>2. Continuations \subseteq Nat
    BY <1>4 DEF Entries
  <2> SUFFICES ASSUME NEW i \in 1..Len(queue), NEW j \in 1..Len(queue), queue[i] = queue[j]
               PROVE  i = j
    BY DEF Once
  <2>5. queue[i] \in Nat /\ queue[j] \in Nat
    BY <2>1, <2>2
  <2>3. ~(i < j) /\ ~(j < i)
    <3>1. i < j => queue[i] < queue[j]
      BY <1>5
    <3>2. j < i => queue[j] < queue[i]
      BY <1>5
    <3> QED BY <2>5, <3>1, <3>2
  <2>4. i \in Nat /\ j \in Nat
    BY <1>4, <1>5
  <2> QED BY <2>3, <2>4
<1>7. Waiting(queue) = Continuations
  <2>1. queue \in Injection(1..Cardinality(Continuations), Continuations)
    <3>1. \A i, j \in 1..Cardinality(Continuations) : queue[i] = queue[j] => i = j
      BY <1>5, <1>6 DEF Once
    <3> QED BY <1>5, <3>1 DEF Injection, IsInjective
  <2>2. queue \in Surjection(1..Cardinality(Continuations), Continuations)
    <3>1. /\ IsFiniteSet(1..Cardinality(Continuations))
          /\ Cardinality(1..Cardinality(Continuations)) = Cardinality(Continuations)
      BY <1>4, FS_Interval
    <3> QED BY <1>4, <2>1, <3>1, FS_Injection DEF Bijection
  <2>3. \A e \in Continuations : \E i \in 1..Len(queue) : queue[i] = e
    BY <1>5, <2>2 DEF Surjection
  <2> QED BY <1>5, <2>3 DEF Waiting
<1>8. Sound(Waiting(queue) \union Asked(task), batch, fate)
  BY <1>3, <1>4, <1>7 DEF Sound, Init
<1>9. Known(Asked(task), admitted, batch, fate)
  BY <1>3 DEF Known, Init
<1> QED BY <1>1, <1>3, <1>6, <1>8, <1>9 DEF MessageInv, Carries

LEMMA MessageNext == MessageInv /\ [Next]_vars => MessageInv' /\ Delivers
<1> SUFFICES ASSUME MessageInv, [Next]_vars PROVE MessageInv' /\ Delivers
  OBVIOUS
<1>1. HandoffInv'
  BY HandoffNext DEF MessageInv
<1> SUFFICES Fulfils
  BY <1>1 DEF MessageInv, Fulfils
<1>2. CASE \E t \in Tasks : Proceed(t) \/ Emitted(t) \/ Answer(t)
  BY <1>2, ProceedCarries, EmittedCarries, AnsweredCarries
<1>3. CASE Submission
  BY <1>3, SubmissionCarries
<1>4. CASE \E n \in notices : Report(n)
  BY <1>4, ReleaseCarries
<1>5. CASE DrainFires
  <2>1. CASE \E can \in BOOLEAN, t \in Tasks : Claim(t, "drain", can)
    BY <2>1, ClaimCarries
  <2>2. CASE UNCHANGED <<queue, batch, fate, admitted, task>>
    BY <2>2, ElsewhereCarries
  <2> QED BY <1>5, <2>1, <2>2 DEF DrainFires
<1>6. CASE Backend \/ GateDue \/ GateOpens \/ GateQuiets \/ UNCHANGED vars
  <2>1. UNCHANGED <<queue, batch, fate, admitted, task>>
    BY <1>6 DEF Backend, TurnBegins, ExternalTurnBegins, IdleReported, TurnEnds,
                OutcomeRepeated, Notify, GateDue, GateOpens, GateQuiets, GateMoves, vars
  <2> QED BY <2>1, ElsewhereCarries
<1> QED BY <1>2, <1>3, <1>4, <1>5, <1>6 DEF Next

(* An open message has one carrier, which waits or is asked for, once.     *)
LEMMA OnePlace == MessageInv => MessageInOnePlace
<1> SUFFICES ASSUME MessageInv, NEW m \in Entries
             PROVE  Cardinality(Carried(m)) + Cardinality(Carriers(m))
                      = IF fate[m] = "open" THEN 1 ELSE 0
  BY DEF MessageInOnePlace
<1> DEFINE L == Waiting(queue) \union Asked(task)
<1>0. /\ Sound(L, batch, fate) /\ Once(queue) /\ Waiting(queue) \cap Asked(task) = {}
      /\ OneHandoff /\ DOMAIN queue = 1..Len(queue) /\ L \subseteq Entries
  BY MessageParts DEF MessageInv, Carries
<1>1. \A i \in Carried(m) : i \in 1..Len(queue) /\ queue[i] \in Waiting(queue) /\ m \in batch[queue[i]]
  BY <1>0 DEF Carried, Waiting
<1>2. \A t \in Carriers(m) : Asks(task[t]) /\ t \in Tasks
                             /\ task[t].entry \in Asked(task) /\ m \in batch[task[t].entry]
  BY DEF Carriers, InFlight, Asked
<1>3. CASE fate[m] # "open"
  <2>1. \A e \in L : m \notin batch[e]
    BY <1>0, <1>3 DEF Sound
  <2>2. Carried(m) = {} /\ Carriers(m) = {}
    BY <1>1, <1>2, <2>1
  <2> QED BY <1>3, <2>2, FS_EmptySet
<1>4. CASE fate[m] = "open"
  <2>1. PICK e \in L : m \in batch[e]
    BY <1>0, <1>4 DEF Sound
  <2>2. \A g \in L : m \in batch[g] => g = e
    BY <1>0, <2>1 DEF Sound
  <2>3. CASE e \in Waiting(queue)
    <3>1. PICK i \in 1..Len(queue) : queue[i] = e
      BY <2>3 DEF Waiting
    <3>2. Carried(m) = {i}
      <4>1. i \in Carried(m)
        BY <1>0, <2>1, <3>1 DEF Carried
      <4>2. \A k \in Carried(m) : k = i
        BY <1>0, <1>1, <2>2, <3>1 DEF Once
      <4> QED BY <4>1, <4>2
    <3>3. Carriers(m) = {}
      BY <1>0, <1>2, <2>2, <2>3
    <3>4. Cardinality(Carried(m)) = 1 /\ Cardinality(Carriers(m)) = 0
      BY <3>2, <3>3, FS_EmptySet, FS_Singleton
    <3> QED BY <1>4, <3>4
  <2>4. CASE e \in Asked(task)
    <3>1. PICK t \in Tasks : Asks(task[t]) /\ task[t].entry = e
      BY <2>4 DEF Asked
    <3>2. Carriers(m) = {t}
      <4>1. t \in Carriers(m)
        BY <2>1, <3>1 DEF Carriers, InFlight
      <4>2. \A u \in Carriers(m) : u = t
        BY <1>0, <1>2, <3>1 DEF OneHandoff, InHandoff, InFlight
      <4> QED BY <4>1, <4>2
    <3>3. Carried(m) = {}
      BY <1>0, <1>1, <2>2, <2>4
    <3>4. Cardinality(Carried(m)) = 0 /\ Cardinality(Carriers(m)) = 1
      BY <3>2, <3>3, FS_EmptySet, FS_Singleton
    <3> QED BY <1>4, <3>4
  <2> QED BY <2>3, <2>4
<1> QED BY <1>3, <1>4

(* Cancel finds an open message in the FIFO or among the admitted entries,  *)
(* where a delivered one stays.                                             *)
LEMMA CancelFinds == MessageInv => CancelFindsMessage
<1> SUFFICES ASSUME MessageInv, NEW m \in Entries, fate[m] \in {"open", "delivered"}
             PROVE  \E e \in Entries : m \in batch[e] /\ (InQueue(e) \/ e \in admitted)
  BY DEF CancelFindsMessage
<1>1. CASE fate[m] = "open"
  <2>1. PICK e \in Waiting(queue) \union Asked(task) : m \in batch[e]
    BY <1>1 DEF MessageInv, Carries, Sound
  <2>2. e \in Waiting(queue) => InQueue(e)
    BY MessageParts DEF Waiting, InQueue, Contains
  <2>3. e \in Asked(task) => e \in admitted
    BY DEF MessageInv, Carries, Known
  <2> QED BY <2>1, <2>2, <2>3, MessageParts
<1>2. CASE fate[m] = "delivered"
  BY <1>2, MessageParts DEF MessageInv, Carries, Known
<1> QED BY <1>1, <1>2

(* A message that was accepted and not yet delivered, cancelled or refused  *)
(* is in one entry of the FIFO or in one handoff, and any other message is  *)
(* in none: whatever is cancelled, moved, steered, refused and put back     *)
(* meanwhile (submit, startNext, restoreAfter, cancelEntry, submitSteer).   *)
THEOREM MessagesInOnePlace == Spec => []MessageInOnePlace
BY MessageInit, MessageNext, OnePlace, PTL DEF Spec

(* Cancel never answers not_found for a message that may still reach the    *)
(* model or has: it is in the FIFO, or its entry is remembered as admitted  *)
(* (cancelEntry, rememberAdmittedEntry).                                    *)
THEOREM CancelsFindMessages == Spec => []CancelFindsMessage
BY MessageInit, MessageNext, CancelFinds, PTL DEF Spec

LEMMA DeliveryInit == Init => Delivery!Init
<1> SUFFICES ASSUME Init PROVE Delivery!Init
  OBVIOUS
<1>1. Asked(task) = {}
  BY DEF Init, Asked, Asks, IdleTask
<1>2. Whereabouts = [m \in Entries |-> IF m \in Continuations THEN "waiting" ELSE "unsent"]
  BY <1>1, WhereaboutsArePlaces DEF Init, Places, PlaceIn
<1>3. Continuations \in SUBSET Entries
  BY QueueAssumption
<1> QED BY <1>2, <1>3 DEF Delivery!Init

(* The queue, its FIFO, holds, edits and interleaved chains, implements     *)
(* MessageDelivery for any number of entries, chains and batches: one       *)
(* handoff is out at a time and settles all of its messages, only what      *)
(* waits is cancelled, and nothing that came to an end is handed over again *)
(* (startEntry, startNext, restoreAfter, cancelEntry, submitSteer).         *)
THEOREM QueueDelivers == Spec => DeliversAsPromised
<1>1. MessageInv /\ [Next]_vars => [Delivery!Next]_Whereabouts
  BY MessageNext DEF Delivers
<1> QED
  BY <1>1, MessageInit, MessageNext, DeliveryInit, PTL
  DEF Spec, DeliversAsPromised, Delivery!Spec
=============================================================================
