---- MODULE LiveProofs ----
(***************************************************************************)
(* Proofs about the two components that share the run of MCLive.           *)
(*                                                                         *)
(* SessionController, for any events, priorities, calls, closing tasks and *)
(* interruptions: SessionSafe.  The argument is about four pieces of state *)
(* that every step changes together: what arrived, what is queued, what    *)
(* was taken and what was recorded (Log), and the events that the calls    *)
(* hold (Holds).                                                           *)
(*                                                                         *)
(* TeamShutdown, and the workflow of TeamWorkflows inside it, for any      *)
(* responders, roles, crashes and work items: TeamSafe and IdleStopsAtOnce.*)
(* Every record that is stored or that a handler keeps over an await       *)
(* explains its own status (Explained), and whatever it says beside the    *)
(* transport was stored once (wfSaid); so no stale write can bring in a    *)
(* consent that nobody gave.                                               *)
(***************************************************************************)
EXTENDS SessionController, TeamShutdown, SequenceTheorems, TLAPS, WellFoundedInduction

Elements(s) == {s[i] : i \in 1..Len(s)}

\* x arrived before y, as far as both arrived.
Earlier(a, x, y) == \A m, n \in 1..Len(a) : a[m] = x /\ a[n] = y => m < n

Distinct(a) == \A m, n \in 1..Len(a) : a[m] = a[n] => m = n

\* The queue is sorted by priority and then by arrival.
Sorted(q, a) ==
  \A i, j \in 1..Len(q) : i < j =>
    /\ q[i] # q[j]
    /\ Priority[q[i]] >= Priority[q[j]]
    /\ Priority[q[i]] = Priority[q[j]] => Earlier(a, q[i], q[j])

\* y may follow x in the transcript.
MayFollow(a, x, y) ==
  \A m, n \in 1..Len(a) : a[n] = x /\ a[m] = y /\ m < n => Priority[x] > Priority[y]

\* What arrived, and where it is: queued (q) or taken (tk), and recorded in t.
Log(q, a, t, tk) ==
  /\ q \in Seq(Events) /\ a \in Seq(Events) /\ t \in Seq(Events) /\ tk \in SUBSET Events
  /\ Distinct(a)
  /\ Sorted(q, a)
  /\ \A i \in 1..Len(q) : q[i] \in Elements(a) /\ q[i] \notin tk
  /\ tk \subseteq Elements(a)
  /\ \A i \in 1..Len(t) : t[i] \in tk
  /\ \A n \in 1..Len(a) : a[n] \in tk \/ \E i \in 1..Len(q) : q[i] = a[n]
  /\ \A i, j \in 1..Len(t) : i < j => MayFollow(a, t[i], t[j])
  /\ \A i \in 1..Len(t), j \in 1..Len(q) : MayFollow(a, t[i], q[j])

CallStates == [pc : CallState, event : SUBSET Events, drain : BOOLEAN]

\* A prompt that reopens the session holds an event that has not arrived yet, a draining
\* call one that was taken, and no other call holds any.
HoldsRight(cl, a, tk) ==
  /\ cl.pc = "reopening" => cl.event \cap Elements(a) = {}
  /\ cl.pc \in Draining => cl.event # {} /\ cl.event \subseteq tk
  /\ cl.pc \notin Draining \cup {"reopening"} => cl.event = {}

Holds(cs, a, tk) ==
  /\ cs \in [Calls -> CallStates]
  /\ \A c \in Calls : HoldsRight(cs[c], a, tk)
  /\ \A c, d \in Calls : c # d => cs[c].event \cap cs[d].event = {}

\* SessionEnd was dispatched by a close that is under way or over.
EndsOnce ==
  /\ ended \in 0..1
  /\ ended = 1 => closed \/ closeTask # {}
  /\ \A k \in Closers : closer[k] = "callback" => closed

IndInv ==
  /\ TypeOK
  /\ Log(queue, arrived, transcript, taken)
  /\ Holds(call, arrived, taken)
  /\ RunningHasDrain
  /\ EndsOnce

----
(* What arrived, is queued, taken and recorded                             *)

\* A set of natural numbers that is not empty has a least element.
LEMMA LeastNatural ==
  ASSUME NEW S \in SUBSET Nat, S # {}
  PROVE  \E x \in S : \A y \in S : x <= y
<1>1. PICK x \in S : \A y \in S : ~ (<<y, x>> \in OpToRel(<, Nat))
  BY NatLessThanWellFounded, WFMin, Zenon
<1>2. \A y \in S : ~ (y < x)
  BY <1>1, Zenon DEF OpToRel
<1> QED BY <1>2

\* What the sorted queue holds, the new event among them: every position holds an old
\* event, the ones of at least the new one's priority before it and the rest behind it.
QueuedAt(q, e, i) ==
  \/ /\ i \in 1..Len(q) /\ Queued(q, e)[i] = q[i] /\ Priority[q[i]] >= Priority[e]
  \/ /\ i - 1 \in 1..Len(q) /\ Queued(q, e)[i] = q[i - 1] /\ Priority[q[i - 1]] < Priority[e]
     /\ i \in 1..Len(q) => Priority[q[i]] < Priority[e]
  \/ /\ Queued(q, e)[i] = e
     /\ \A j \in 1..Len(q) : IF j < i THEN Priority[q[j]] >= Priority[e]
                                      ELSE Priority[q[j]] < Priority[e]

LEMMA QueuedElements ==
  ASSUME NEW q \in Seq(Events), NEW e \in Events,
         \A i, j \in 1..Len(q) : i < j => Priority[q[i]] >= Priority[q[j]]
  PROVE  /\ Queued(q, e) \in Seq(Events)
         /\ Len(Queued(q, e)) = Len(q) + 1
         /\ \A i \in 1..(Len(q) + 1) : QueuedAt(q, e, i)
         /\ \A j \in 1..Len(q) : \E i \in 1..(Len(q) + 1) : Queued(q, e)[i] = q[j]
         /\ \E i \in 1..(Len(q) + 1) : Queued(q, e)[i] = e
<1> DEFINE r == Queued(q, e)
           n == Len(q)
<1>0. \A x \in Events : Priority[x] \in Nat
  BY SessionAssumption
<1>1. n \in Nat /\ \A i \in 1..n : q[i] \in Events /\ Priority[q[i]] \in Nat
  BY <1>0
<1>2. r \in [1..(n + 1) -> Events]
  BY <1>1 DEF Queued
<1>3. r \in Seq(Events) /\ Len(r) = n + 1
  BY <1>1, <1>2, IsASeq, LenProperties
<1>4. \A i \in 1..(n + 1) :
        r[i] = IF i <= n /\ Priority[q[i]] >= Priority[e] THEN q[i]
               ELSE IF i > 1 /\ Priority[q[i - 1]] < Priority[e] THEN q[i - 1] ELSE e
  BY DEF Queued
<1> HIDE DEF r
<1>5. ASSUME NEW i \in 1..(n + 1)
      PROVE  QueuedAt(q, e, i)
  <2>1. CASE i <= n /\ Priority[q[i]] >= Priority[e]
    BY <1>1, <1>4, <2>1 DEF QueuedAt, r
  <2>2. CASE ~(i <= n /\ Priority[q[i]] >= Priority[e]) /\ i > 1 /\ Priority[q[i - 1]] < Priority[e]
    <3>1. i - 1 \in 1..n /\ r[i] = q[i - 1]
      BY <1>1, <1>4, <2>2
    <3>2. i \in 1..n => Priority[q[i]] < Priority[e]
      BY <1>0, <1>1, <2>2
    <3> QED BY <3>1, <3>2, <2>2 DEF QueuedAt, r
  <2>3. CASE ~(i <= n /\ Priority[q[i]] >= Priority[e]) /\ ~(i > 1 /\ Priority[q[i - 1]] < Priority[e])
    <3>1. r[i] = e
      BY <1>4, <2>3
    <3>2. ASSUME NEW j \in 1..n
          PROVE  IF j < i THEN Priority[q[j]] >= Priority[e] ELSE Priority[q[j]] < Priority[e]
      <4>1. CASE j < i
        <5>1. i - 1 \in 1..n /\ Priority[q[i - 1]] >= Priority[e]
          BY <1>0, <1>1, <2>3, <4>1
        <5>2. Priority[q[j]] >= Priority[q[i - 1]]
          BY <1>1, <4>1, <5>1
        <5> QED BY <1>0, <1>1, <4>1, <5>1, <5>2
      <4>2. CASE ~(j < i)
        <5>1. i \in 1..n /\ Priority[q[i]] < Priority[e]
          BY <1>0, <1>1, <2>3, <4>2
        <5>2. Priority[q[i]] >= Priority[q[j]]
          BY <1>1, <4>2, <5>1
        <5> QED BY <1>0, <1>1, <4>2, <5>1, <5>2
      <4> QED BY <4>1, <4>2
    <3> QED BY <3>1, <3>2 DEF QueuedAt, r
  <2> QED BY <2>1, <2>2, <2>3
<1>6. ASSUME NEW j \in 1..n
      PROVE  \E i \in 1..(n + 1) : r[i] = q[j]
  <2>1. CASE Priority[q[j]] >= Priority[e]
    BY <1>1, <1>4, <2>1
  <2>2. CASE ~(Priority[q[j]] >= Priority[e])
    <3>1. j + 1 \in 1..(n + 1) /\ (j + 1) - 1 = j /\ j + 1 > 1
      BY <1>1
    <3>2. ~(j + 1 <= n /\ Priority[q[j + 1]] >= Priority[e])
      BY <1>0, <1>1, <2>2, <3>1
    <3>3. Priority[q[j]] < Priority[e]
      BY <1>0, <1>1, <2>2
    <3>4. r[j + 1] = q[j]
      BY <1>4, <3>1, <3>2, <3>3
    <3> QED BY <3>1, <3>4
  <2> QED BY <2>1, <2>2
<1>7. \E i \in 1..(n + 1) : r[i] = e
  <2> DEFINE S == {i \in 1..(n + 1) : i = n + 1 \/ Priority[q[i]] < Priority[e]}
  <2>1. S \in SUBSET Nat /\ n + 1 \in S
    BY <1>1
  <2>2. PICK i \in S : \A j \in S : i <= j
    BY <2>1, LeastNatural
  <2>3. ~(i <= n /\ Priority[q[i]] >= Priority[e])
    BY <1>0, <1>1, <2>1, <2>2
  <2>4. ~(i > 1 /\ Priority[q[i - 1]] < Priority[e])
    <3>1. SUFFICES ASSUME i > 1, Priority[q[i - 1]] < Priority[e] PROVE FALSE
      OBVIOUS
    <3>2. i - 1 \in S
      BY <1>1, <2>2, <3>1
    <3> QED BY <1>1, <2>2, <3>2
  <2>5. i \in 1..(n + 1)
    OBVIOUS
  <2> HIDE DEF S
  <2>6. r[i] = e
    BY <1>4, <2>3, <2>4, <2>5
  <2> QED BY <2>5, <2>6
<1> QED BY <1>3, <1>5, <1>6, <1>7 DEF r

\* A sequence of distinct events after a new one arrived.
LEMMA ArrivalAppends ==
  ASSUME NEW a \in Seq(Events), NEW e \in Events, e \notin Elements(a), Distinct(a)
  PROVE  /\ Append(a, e) \in Seq(Events)
         /\ Elements(Append(a, e)) = Elements(a) \cup {e}
         /\ Distinct(Append(a, e))
         /\ Len(Append(a, e)) = Len(a) + 1
         /\ \A i \in 1..(Len(a) + 1) : Append(a, e)[i] = IF i = Len(a) + 1 THEN e ELSE a[i]
<1> DEFINE b == Append(a, e)
           n == Len(a)
<1>1. b \in Seq(Events) /\ Len(b) = n + 1 /\ n \in Nat
  BY AppendProperties, LenProperties
<1>2. \A i \in 1..(n + 1) : b[i] = IF i = n + 1 THEN e ELSE a[i]
  BY AppendProperties
<1>3. \A i \in 1..n : a[i] # e
  BY DEF Elements
<1> HIDE DEF b
<1>4. Elements(b) = Elements(a) \cup {e}
  <2>1. ASSUME NEW x \in Elements(b) PROVE x \in Elements(a) \cup {e}
    <3>1. PICK i \in 1..(n + 1) : x = b[i]
      BY <1>1 DEF Elements
    <3>2. i = n + 1 \/ i \in 1..n
      BY <1>1
    <3> QED BY <1>1, <1>2, <3>1, <3>2 DEF Elements
  <2>2. ASSUME NEW x \in Elements(a) PROVE x \in Elements(b)
    <3>1. PICK i \in 1..n : x = a[i]
      BY DEF Elements
    <3>2. i \in 1..(n + 1) /\ i # n + 1
      BY <1>1
    <3> QED BY <1>1, <1>2, <3>1, <3>2 DEF Elements
  <2>3. e \in Elements(b)
    <3>1. n + 1 \in 1..(n + 1) /\ b[n + 1] = e
      BY <1>1, <1>2
    <3> QED BY <1>1, <3>1 DEF Elements
  <2> QED BY <2>1, <2>2, <2>3
<1>5. Distinct(b)
  BY <1>1, <1>2, <1>3 DEF Distinct
<1> QED BY <1>1, <1>2, <1>4, <1>5 DEF b

\* What two events have to do with each other does not change when a third one arrives.
LEMMA ArrivalKeepsOrder ==
  ASSUME NEW a \in Seq(Events), NEW e \in Events, NEW x, NEW y, x # e, y # e
  PROVE  /\ Earlier(a, x, y) => Earlier(Append(a, e), x, y)
         /\ MayFollow(a, x, y) => MayFollow(Append(a, e), x, y)
<1> DEFINE b == Append(a, e)
           n == Len(a)
<1>1. n \in Nat /\ Len(b) = n + 1
  BY AppendProperties, LenProperties
<1>2. \A i \in 1..(n + 1) : b[i] = IF i = n + 1 THEN e ELSE a[i]
  BY AppendProperties
<1> HIDE DEF b
<1>3. \A i \in 1..(n + 1) : b[i] = x \/ b[i] = y => i \in 1..n /\ b[i] = a[i]
  BY <1>1, <1>2
<1>4. Earlier(a, x, y) => Earlier(b, x, y)
  BY <1>1, <1>3 DEF Earlier
<1>5. MayFollow(a, x, y) => MayFollow(b, x, y)
  BY <1>1, <1>3 DEF MayFollow
<1> QED BY <1>4, <1>5 DEF b

\* A new event is the last to arrive.
LEMMA ArrivalIsLast ==
  ASSUME NEW a \in Seq(Events), NEW e \in Events, e \notin Elements(a), NEW x, x # e
  PROVE  Earlier(Append(a, e), x, e) /\ MayFollow(Append(a, e), x, e)
<1> DEFINE b == Append(a, e)
           n == Len(a)
<1>1. n \in Nat /\ Len(b) = n + 1
  BY AppendProperties, LenProperties
<1>2. \A i \in 1..(n + 1) : b[i] = IF i = n + 1 THEN e ELSE a[i]
  BY AppendProperties
<1>3. \A i \in 1..n : a[i] # e
  BY DEF Elements
<1> HIDE DEF b
<1>4. \A i \in 1..(n + 1) : b[i] = x => i < n + 1
  BY <1>1, <1>2
<1>5. \A i \in 1..(n + 1) : b[i] = e => i = n + 1
  BY <1>1, <1>2, <1>3
<1>6. \A i \in 1..(n + 1) : ~(n + 1 < i)
  BY <1>1
<1>7. Earlier(b, x, e) /\ MayFollow(b, x, e)
  BY <1>1, <1>4, <1>5, <1>6 DEF Earlier, MayFollow
<1> QED BY <1>7 DEF b

LEMMA QueuedLog ==
  ASSUME NEW q, NEW a, NEW t, NEW tk, Log(q, a, t, tk),
         NEW e \in Events, e \notin Elements(a)
  PROVE  Log(Queued(q, e), Append(a, e), t, tk)
<1> DEFINE r == Queued(q, e)
           b == Append(a, e)
           n == Len(q)
<1>1. /\ q \in Seq(Events) /\ a \in Seq(Events) /\ t \in Seq(Events) /\ tk \in SUBSET Events
      /\ Distinct(a) /\ Sorted(q, a) /\ tk \subseteq Elements(a)
      /\ \A i \in 1..n : q[i] \in Elements(a) /\ q[i] \notin tk
      /\ \A i \in 1..Len(t) : t[i] \in tk
      /\ \A i \in 1..Len(a) : a[i] \in tk \/ \E j \in 1..n : q[j] = a[i]
      /\ \A i, j \in 1..Len(t) : i < j => MayFollow(a, t[i], t[j])
      /\ \A i \in 1..Len(t), j \in 1..n : MayFollow(a, t[i], q[j])
  BY DEF Log
<1>a. a \in Seq(Events) /\ Distinct(a)
  BY <1>1
<1>2. /\ b \in Seq(Events)
      /\ Elements(b) = Elements(a) \cup {e}
      /\ Distinct(b)
      /\ Len(b) = Len(a) + 1
      /\ \A i \in 1..(Len(a) + 1) : b[i] = IF i = Len(a) + 1 THEN e ELSE a[i]
  BY <1>a, ArrivalAppends, Zenon
<1>3. \A x, y : x # e /\ y # e => /\ Earlier(a, x, y) => Earlier(b, x, y)
                                  /\ MayFollow(a, x, y) => MayFollow(b, x, y)
  BY <1>a, ArrivalKeepsOrder
<1>4. \A x : x # e => Earlier(b, x, e) /\ MayFollow(b, x, e)
  BY <1>a, ArrivalIsLast
<1>5. \A x \in Events : Priority[x] \in Nat
  BY SessionAssumption
<1>6. \A i, j \in 1..n : i < j => Priority[q[i]] >= Priority[q[j]]
  BY <1>1 DEF Sorted
<1>b. q \in Seq(Events)
  BY <1>1
<1>7. /\ r \in Seq(Events)
      /\ Len(r) = n + 1
      /\ \A i \in 1..(n + 1) : QueuedAt(q, e, i)
      /\ \A j \in 1..n : \E i \in 1..(n + 1) : r[i] = q[j]
      /\ \E i \in 1..(n + 1) : r[i] = e
  BY <1>b, <1>6, QueuedElements, Zenon
<1>8. n \in Nat /\ Len(a) \in Nat /\ \A i \in 1..n : q[i] \in Events /\ q[i] # e /\ Priority[q[i]] \in Nat
  BY <1>1, <1>5
<1>9. \A i \in 1..(n + 1) :
        \/ /\ i \in 1..n /\ r[i] = q[i] /\ Priority[q[i]] >= Priority[e]
        \/ /\ i - 1 \in 1..n /\ r[i] = q[i - 1] /\ Priority[q[i - 1]] < Priority[e]
           /\ i \in 1..n => Priority[q[i]] < Priority[e]
        \/ /\ r[i] = e
           /\ \A j \in 1..n : IF j < i THEN Priority[q[j]] >= Priority[e]
                                       ELSE Priority[q[j]] < Priority[e]
  BY <1>7 DEF QueuedAt
<1> HIDE DEF r, b, n
<1>10. \A i \in 1..(n + 1) : r[i] = e \/ \E k \in 1..n : r[i] = q[k]
  BY <1>9
<1>11. Sorted(r, b)
  <2> SUFFICES ASSUME NEW i \in 1..(n + 1), NEW j \in 1..(n + 1), i < j
               PROVE  /\ r[i] # r[j]
                      /\ Priority[r[i]] >= Priority[r[j]]
                      /\ Priority[r[i]] = Priority[r[j]] => Earlier(b, r[i], r[j])
    BY <1>7 DEF Sorted
  <2>1. \A k, l \in 1..n : k < l => /\ q[k] # q[l]
                                    /\ Priority[q[k]] >= Priority[q[l]]
                                    /\ Priority[q[k]] = Priority[q[l]] => Earlier(b, q[k], q[l])
    BY <1>1, <1>3, <1>8 DEF Sorted, n
  <2>2. CASE i \in 1..n /\ r[i] = q[i] /\ Priority[q[i]] >= Priority[e]
    <3>1. CASE j \in 1..n /\ r[j] = q[j]
      BY <2>1, <2>2, <3>1
    <3>2. CASE j - 1 \in 1..n /\ r[j] = q[j - 1] /\ Priority[q[j - 1]] < Priority[e]
      BY <1>5, <1>8, <2>2, <3>2
    <3>3. CASE r[j] = e
      BY <1>4, <1>5, <1>8, <2>2, <3>3
    <3> QED BY <1>9, <3>1, <3>2, <3>3
  <2>3. CASE i - 1 \in 1..n /\ r[i] = q[i - 1] /\ Priority[q[i - 1]] < Priority[e]
    <3>0. i - 1 < j
      BY <1>8
    <3>1. CASE j \in 1..n /\ r[j] = q[j] /\ Priority[q[j]] >= Priority[e]
      BY <1>5, <1>8, <2>1, <2>3, <3>0, <3>1
    <3>2. CASE j - 1 \in 1..n /\ r[j] = q[j - 1]
      <4>1. i - 1 < j - 1
        BY <1>8
      <4> QED BY <2>1, <2>3, <3>2, <4>1
    <3>3. CASE \A k \in 1..n : IF k < j THEN Priority[q[k]] >= Priority[e]
                                        ELSE Priority[q[k]] < Priority[e]
      BY <1>5, <1>8, <2>3, <3>0, <3>3
    <3> QED BY <1>9, <3>1, <3>2, <3>3
  <2>4. CASE r[i] = e /\ \A k \in 1..n : IF k < i THEN Priority[q[k]] >= Priority[e]
                                                 ELSE Priority[q[k]] < Priority[e]
    <3>1. CASE j \in 1..n /\ r[j] = q[j] /\ Priority[q[j]] >= Priority[e]
      <4>1. ~(j < i)
        BY <1>8
      <4> QED BY <1>5, <1>8, <2>4, <3>1, <4>1
    <3>2. CASE j - 1 \in 1..n /\ r[j] = q[j - 1] /\ Priority[q[j - 1]] < Priority[e]
      BY <1>5, <1>8, <2>4, <3>2
    <3>3. CASE \A k \in 1..n : IF k < j THEN Priority[q[k]] >= Priority[e]
                                        ELSE Priority[q[k]] < Priority[e]
      <4>1. i \in 1..n /\ ~(i < i)
        BY <1>8
      <4> QED BY <1>5, <1>8, <2>4, <3>3, <4>1
    <3> QED BY <1>9, <3>1, <3>2, <3>3
  <2> QED BY <1>9, <2>2, <2>3, <2>4
<1>12. \A i \in 1..Len(r) : r[i] \in Elements(b) /\ r[i] \notin tk
  BY <1>1, <1>2, <1>7, <1>10 DEF n
<1>13. \A k \in 1..Len(b) : b[k] \in tk \/ \E i \in 1..Len(r) : r[i] = b[k]
  <2> SUFFICES ASSUME NEW k \in 1..(Len(a) + 1), b[k] \notin tk
               PROVE  \E i \in 1..(n + 1) : r[i] = b[k]
    BY <1>2, <1>7
  <2>1. CASE k = Len(a) + 1
    BY <1>2, <1>7, <2>1 DEF r, n
  <2>2. CASE k # Len(a) + 1
    <3>1. k \in 1..Len(a) /\ b[k] = a[k]
      BY <1>2, <1>8, <2>2
    <3>2. PICK j \in 1..n : q[j] = a[k]
      BY <1>1, <3>1 DEF n
    <3> QED BY <1>7, <3>1, <3>2 DEF r, n
  <2> QED BY <2>1, <2>2
<1>14. \A i \in 1..Len(t) : t[i] # e
  BY <1>1
<1>15. \A i, j \in 1..Len(t) : i < j => MayFollow(b, t[i], t[j])
  BY <1>1, <1>3, <1>14
<1>16. \A i \in 1..Len(t), j \in 1..Len(r) : MayFollow(b, t[i], r[j])
  <2> SUFFICES ASSUME NEW i \in 1..Len(t), NEW j \in 1..(n + 1)
               PROVE  MayFollow(b, t[i], r[j])
    BY <1>7
  <2>1. CASE r[j] = e
    BY <1>4, <1>14, <2>1
  <2>2. CASE \E k \in 1..n : r[j] = q[k]
    BY <1>1, <1>3, <1>8, <1>14, <2>2 DEF n
  <2> QED BY <1>10, <2>1, <2>2
<1>17. r \in Seq(Events) /\ b \in Seq(Events) /\ tk \subseteq Elements(b)
  BY <1>1, <1>2, <1>7
<1>18. Log(r, b, t, tk)
  BY <1>1, <1>2, <1>11, <1>12, <1>13, <1>15, <1>16, <1>17 DEF Log
<1> QED BY <1>18 DEF r, b

\* Popping the head of the queue: it is taken, and recorded unless it is local.
LEMMA PopLog ==
  ASSUME NEW q, NEW a, NEW t, NEW tk, Log(q, a, t, tk), q # <<>>
  PROVE  /\ Log(Tail(q), a, IF Recorded(Head(q)) THEN Append(t, Head(q)) ELSE t,
                tk \cup {Head(q)})
         /\ Head(q) \in Events /\ Head(q) \in Elements(a) /\ Head(q) \notin tk
<1> DEFINE e == Head(q)
           r == Tail(q)
           n == Len(q)
           u == IF Recorded(e) THEN Append(t, e) ELSE t
<1>1. /\ q \in Seq(Events) /\ a \in Seq(Events) /\ t \in Seq(Events) /\ tk \in SUBSET Events
      /\ Distinct(a) /\ Sorted(q, a) /\ tk \subseteq Elements(a)
      /\ \A i \in 1..n : q[i] \in Elements(a) /\ q[i] \notin tk
      /\ \A i \in 1..Len(t) : t[i] \in tk
      /\ \A i \in 1..Len(a) : a[i] \in tk \/ \E j \in 1..n : q[j] = a[i]
      /\ \A i, j \in 1..Len(t) : i < j => MayFollow(a, t[i], t[j])
      /\ \A i \in 1..Len(t), j \in 1..n : MayFollow(a, t[i], q[j])
  BY DEF Log
<1>2. q \in Seq(Events) /\ t \in Seq(Events)
  BY <1>1
<1>3. n \in Nat /\ 1 \in 1..n /\ e = q[1] /\ e \in Events
  BY <1>2, EmptySeq, LenProperties, HeadTailProperties, SMT
<1>4. r \in Seq(Events) /\ Len(r) = n - 1 /\ \A i \in 1..(n - 1) : r[i] = q[i + 1] /\ i + 1 \in 1..n
  BY <1>2, <1>3, HeadTailProperties
<1>5. /\ u \in Seq(Events)
      /\ \A i \in 1..Len(u) :
           \/ i \in 1..Len(t) /\ u[i] = t[i]
           \/ i = Len(t) + 1 /\ u[i] = e
  <2>1. Len(t) \in Nat
    BY <1>2
  <2>2. CASE Recorded(e)
    <3>1. u = Append(t, e)
      BY <2>2
    <3>2. /\ Append(t, e) \in Seq(Events)
          /\ Len(Append(t, e)) = Len(t) + 1
          /\ \A i \in 1..(Len(t) + 1) : Append(t, e)[i] = IF i = Len(t) + 1 THEN e ELSE t[i]
      BY <1>2, <1>3, AppendProperties
    <3> HIDE DEF u
    <3> QED BY <2>1, <3>1, <3>2
  <2>3. CASE ~Recorded(e)
    <3>1. u = t
      BY <2>3
    <3> HIDE DEF u
    <3> QED BY <1>2, <3>1
  <2> QED BY <2>2, <2>3
<1> HIDE DEF r, e, u, n
<1>16. \A i, j \in 1..n : i < j =>
         /\ q[i] # q[j]
         /\ Priority[q[i]] >= Priority[q[j]]
         /\ Priority[q[i]] = Priority[q[j]] => Earlier(a, q[i], q[j])
  BY <1>1 DEF Sorted, n
<1>6. Sorted(r, a)
  <2> SUFFICES ASSUME NEW i \in 1..(n - 1), NEW j \in 1..(n - 1), i < j
               PROVE  /\ r[i] # r[j]
                      /\ Priority[r[i]] >= Priority[r[j]]
                      /\ Priority[r[i]] = Priority[r[j]] => Earlier(a, r[i], r[j])
    BY <1>4 DEF Sorted
  <2>1. /\ r[i] = q[i + 1] /\ i + 1 \in 1..n
        /\ r[j] = q[j + 1] /\ j + 1 \in 1..n
    BY <1>4
  <2>2. i + 1 < j + 1
    BY <1>3
  <2> QED BY <1>16, <2>1, <2>2
<1>7. \A i \in 1..(n - 1) : r[i] \in Elements(a) /\ r[i] \notin tk \cup {e}
  <2> TAKE i \in 1..(n - 1)
  <2>1. r[i] = q[i + 1] /\ i + 1 \in 1..n
    BY <1>4
  <2>2. q[1] # q[i + 1]
    <3>1. 1 < i + 1
      BY <1>3
    <3> QED BY <1>16, <1>3, <2>1, <3>1
  <2>3. q[i + 1] \in Elements(a) /\ q[i + 1] \notin tk
    BY <1>1, <2>1 DEF n
  <2> QED BY <1>3, <2>1, <2>2, <2>3
<1>8. e \in Elements(a) /\ e \notin tk
  BY <1>1, <1>3 DEF n
<1>9. \A i \in 1..Len(u) : u[i] \in tk \cup {e}
  BY <1>1, <1>5
<1>10. \A i \in 1..Len(a) : a[i] \in tk \cup {e} \/ \E j \in 1..Len(r) : r[j] = a[i]
  <2> SUFFICES ASSUME NEW i \in 1..Len(a), a[i] \notin tk, a[i] # e
               PROVE  \E j \in 1..(n - 1) : r[j] = a[i]
    BY <1>4
  <2>1. PICK j \in 1..n : q[j] = a[i]
    BY <1>1 DEF n
  <2>2. j # 1
    BY <1>3, <2>1
  <2>3. j - 1 \in 1..(n - 1) /\ (j - 1) + 1 = j
    BY <1>3, <2>2
  <2> QED BY <1>4, <2>1, <2>3
<1>11. \A j \in 1..(n - 1) : MayFollow(a, e, r[j])
  <2> TAKE j \in 1..(n - 1)
  <2>1. r[j] = q[j + 1] /\ j + 1 \in 1..n
    BY <1>4
  <2>2. /\ Priority[e] >= Priority[r[j]]
        /\ Priority[e] = Priority[r[j]] => Earlier(a, e, r[j])
    <3>1. 1 < j + 1
      BY <1>3
    <3> QED BY <1>16, <1>3, <2>1, <3>1
  <2>3. Priority[e] \in Nat /\ Priority[r[j]] \in Nat
    BY <1>3, <1>4, SessionAssumption
  <2>4. Len(a) \in Nat
    BY <1>1
  <2> QED BY <2>2, <2>3, <2>4 DEF MayFollow, Earlier
<1>12. \A i \in 1..Len(t) : MayFollow(a, t[i], e)
  BY <1>1, <1>3 DEF n
<1>13. \A i, j \in 1..Len(u) : i < j => MayFollow(a, u[i], u[j])
  <2> SUFFICES ASSUME NEW i \in 1..Len(u), NEW j \in 1..Len(u), i < j
               PROVE  MayFollow(a, u[i], u[j])
    OBVIOUS
  <2>1. Len(t) \in Nat
    BY <1>2
  <2>2. i \in 1..Len(t) /\ u[i] = t[i]
    BY <1>5, <2>1
  <2> QED BY <1>1, <1>5, <1>12, <2>2
<1>14. \A i \in 1..Len(u), j \in 1..Len(r) : MayFollow(a, u[i], r[j])
  <2> SUFFICES ASSUME NEW i \in 1..Len(u), NEW j \in 1..(n - 1)
               PROVE  MayFollow(a, u[i], r[j])
    BY <1>4
  <2>1. CASE i \in 1..Len(t) /\ u[i] = t[i]
    BY <1>1, <1>4, <2>1 DEF n
  <2>2. CASE u[i] = e
    BY <1>11, <2>2
  <2> QED BY <1>5, <2>1, <2>2
<1>15. Log(r, a, u, tk \cup {e})
  BY <1>1, <1>3, <1>4, <1>5, <1>6, <1>7, <1>8, <1>9, <1>10, <1>13, <1>14 DEF Log
<1> QED BY <1>3, <1>8, <1>15 DEF r, e, u

----
(* What the calls hold                                                      *)

With(cs, c, h) == [cs EXCEPT ![c] = h]

LEMMA HoldsUpdate ==
  ASSUME NEW cs, NEW a, NEW tk, Holds(cs, a, tk), NEW c \in Calls,
         NEW h \in CallStates, HoldsRight(h, a, tk),
         \A d \in Calls : d # c => h.event \cap cs[d].event = {}
  PROVE  /\ Holds(With(cs, c, h), a, tk)
         /\ With(cs, c, h)[c] = h
         /\ \A d \in Calls : d # c => With(cs, c, h)[d] = cs[d]
<1> DEFINE ds == With(cs, c, h)
<1>1. /\ cs \in [Calls -> CallStates]
      /\ \A d \in Calls : HoldsRight(cs[d], a, tk)
      /\ \A d, f \in Calls : d # f => cs[d].event \cap cs[f].event = {}
  BY DEF Holds
<1>2. ds \in [Calls -> CallStates] /\ ds[c] = h /\ \A d \in Calls : d # c => ds[d] = cs[d]
  BY <1>1 DEF With
<1> HIDE DEF ds
<1>3. \A d \in Calls : HoldsRight(ds[d], a, tk)
  <2> TAKE d \in Calls
  <2>1. CASE d = c
    BY <1>2, <2>1
  <2>2. CASE d # c
    BY <1>1, <1>2, <2>2
  <2> QED BY <2>1, <2>2
<1>4. \A d, f \in Calls : d # f => ds[d].event \cap ds[f].event = {}
  <2> SUFFICES ASSUME NEW d \in Calls, NEW f \in Calls, d # f
               PROVE  ds[d].event \cap ds[f].event = {}
    OBVIOUS
  <2>1. CASE d = c
    BY <1>2, <2>1
  <2>2. CASE f = c
    BY <1>2, <2>2
  <2>3. CASE d # c /\ f # c
    BY <1>1, <1>2, <2>3
  <2> QED BY <2>1, <2>2, <2>3
<1>5. Holds(ds, a, tk)
  BY <1>2, <1>3, <1>4 DEF Holds
<1> QED BY <1>2, <1>5 DEF ds

\* A call that holds nothing afterwards.
LEMMA HoldsNothing ==
  ASSUME NEW cs, NEW a, NEW tk, Holds(cs, a, tk), NEW c \in Calls,
         NEW h \in CallStates, h.event = {}, h.pc \notin Draining
  PROVE  /\ Holds(With(cs, c, h), a, tk)
         /\ With(cs, c, h)[c] = h
         /\ \A d \in Calls : d # c => With(cs, c, h)[d] = cs[d]
<1>1. HoldsRight(h, a, tk)
  BY DEF HoldsRight
<1> QED BY <1>1, HoldsUpdate

\* An event arrives that no call holds.
LEMMA HoldsArrival ==
  ASSUME NEW cs, NEW a \in Seq(Events), NEW tk, Holds(cs, a, tk), Distinct(a),
         NEW e \in Events, e \notin Elements(a), \A c \in Calls : e \notin cs[c].event
  PROVE  Holds(cs, Append(a, e), tk)
<1>1. Elements(Append(a, e)) = Elements(a) \cup {e}
  BY ArrivalAppends
<1>2. \A c \in Calls : HoldsRight(cs[c], Append(a, e), tk)
  BY <1>1 DEF Holds, HoldsRight
<1> QED BY <1>2 DEF Holds

\* A call takes a queued event: nobody held it.
LEMMA HoldsTaken ==
  ASSUME NEW cs, NEW a, NEW tk, Holds(cs, a, tk), NEW c \in Calls,
         NEW e \in Events, e \in Elements(a), e \notin tk,
         NEW h \in CallStates, h.pc = "admitting", h.event = {e}
  PROVE  /\ Holds(With(cs, c, h), a, tk \cup {e})
         /\ \A d \in Calls : d # c => With(cs, c, h)[d] = cs[d]
<1>1. Holds(cs, a, tk \cup {e})
  BY DEF Holds, HoldsRight
<1>2. HoldsRight(h, a, tk \cup {e})
  BY DEF HoldsRight, Draining
<1>3. \A d \in Calls : h.event \cap cs[d].event = {}
  BY DEF Holds, HoldsRight
<1> QED BY <1>1, <1>2, <1>3, HoldsUpdate

LEMMA IdleHolds ==
  /\ Idle \in CallStates /\ Idle.event = {} /\ Idle.pc \notin Draining /\ Idle.pc # "reopening"
  /\ \A b \in BOOLEAN : LET h == [Idle EXCEPT !.pc = "starting", !.drain = b]
                        IN  h \in CallStates /\ h.event = {} /\ h.pc \notin Draining
  /\ LET h == [Idle EXCEPT !.pc = "armed"]
     IN  h \in CallStates /\ h.event = {} /\ h.pc \notin Draining
  /\ \A e \in Events, p \in CallState :
       LET h == [Idle EXCEPT !.pc = p, !.event = {e}]
       IN  h \in CallStates /\ h.pc = p /\ h.event = {e}
BY DEF Idle, CallStates, CallState, Draining

\* The head of the drain loop.
LEMMA LoopStep ==
  ASSUME NEW q, NEW a, Log(q, a, transcript, taken), Holds(call, a, taken),
         NEW c \in Calls, NEW st, NEW act \in SUBSET Events, Loop(c, q, st, act)
  PROVE  /\ Log(queue', a, transcript', taken')
         /\ Holds(call', a, taken')
         /\ status' = st
         /\ active' \in SUBSET Events
         /\ \A d \in Calls : d # c => call'[d] = call[d]
<1>1. CASE q = <<>>
  <2>1. /\ call' = [call EXCEPT ![c] = Idle] /\ queue' = q /\ active' = act /\ status' = st
        /\ transcript' = transcript /\ taken' = taken
    BY <1>1 DEF Loop
  <2>2. Holds(call', a, taken) /\ \A d \in Calls : d # c => call'[d] = call[d]
    <3>1. Idle \in CallStates /\ Idle.event = {} /\ Idle.pc \notin Draining
      BY IdleHolds
    <3>2. /\ Holds(With(call, c, Idle), a, taken)
          /\ \A d \in Calls : d # c => With(call, c, Idle)[d] = call[d]
      BY <3>1, HoldsNothing
    <3> QED BY <2>1, <3>2 DEF With
  <2> QED BY <2>1, <2>2
<1>2. CASE q # <<>>
  <2> DEFINE e == Head(q)
             h == [Idle EXCEPT !.pc = "admitting", !.event = {e}]
  <2>1. /\ call' = [call EXCEPT ![c] = h]
        /\ queue' = Tail(q)
        /\ active' = IF Admits(e) THEN act ELSE {}
        /\ transcript' = IF Recorded(e) THEN Append(transcript, e) ELSE transcript
        /\ taken' = taken \cup {e}
        /\ status' = st
    BY <1>2 DEF Loop
  <2>2. /\ Log(queue', a, transcript', taken')
        /\ e \in Events /\ e \in Elements(a) /\ e \notin taken
    BY <1>2, <2>1, PopLog
  <2>3. h \in CallStates /\ h.pc = "admitting" /\ h.event = {e}
    BY <2>2, IdleHolds DEF CallState
  <2> HIDE DEF e, h
  <2>4. Holds(call', a, taken') /\ \A d \in Calls : d # c => call'[d] = call[d]
    <3>1. /\ Holds(With(call, c, h), a, taken \cup {e})
          /\ \A d \in Calls : d # c => With(call, c, h)[d] = call[d]
      BY <2>2, <2>3, HoldsTaken
    <3> QED BY <2>1, <3>1 DEF With
  <2> QED BY <2>1, <2>2, <2>4
<1> QED BY <1>1, <1>2

----
(* The inductive invariant                                                  *)

LEMMA InitIndInv ==
  ASSUME Init
  PROVE  IndInv
<1>1. TypeOK
  <2>1. call \in [Calls -> CallStates]
    BY IdleHolds DEF Init
  <2> QED BY <2>1, EmptySeq DEF Init, TypeOK, Status, CallStates
<1>2. Log(queue, arrived, transcript, taken)
  BY DEF Init, Log, Distinct, Sorted, Elements
<1>3. Holds(call, arrived, taken)
  BY IdleHolds DEF Init, Holds, HoldsRight, Draining
<1>4. RunningHasDrain /\ EndsOnce
  BY DEF Init, RunningHasDrain, EndsOnce
<1> QED BY <1>1, <1>2, <1>3, <1>4 DEF IndInv

\* The state around the queue and the calls.
Around ==
  /\ closed \in BOOLEAN
  /\ closeTask \in SUBSET Closers
  /\ closer \in [Closers -> {"idle", "closing", "callback", "after", "joined", "done"}]
  /\ awaited \in [Closers -> SUBSET Closers]
  /\ interrupts \in Nat
  /\ wanted \in SUBSET Events
  /\ dropped \in SUBSET Events
  /\ failed \in SUBSET Events
  /\ ended \in Nat

LEMMA IndInvParts ==
  ASSUME IndInv
  PROVE  /\ status \in Status /\ active \in SUBSET Events
         /\ Log(queue, arrived, transcript, taken)
         /\ Holds(call, arrived, taken)
         /\ Around /\ RunningHasDrain /\ EndsOnce
         /\ arrived \in Seq(Events) /\ Distinct(arrived)
         /\ call \in [Calls -> CallStates]
BY DEF IndInv, TypeOK, Around, Log, Holds

LEMMA IndInvNext ==
  ASSUME status' \in Status, active' \in SUBSET Events,
         Log(queue', arrived', transcript', taken'), Holds(call', arrived', taken'),
         Around', RunningHasDrain', EndsOnce'
  PROVE  IndInv'
BY DEF IndInv, TypeOK, Around, Log, Holds, CallStates

\* The drain loop goes on with what the step around it left in the queue.
LEMMA LoopKeeps ==
  ASSUME IndInv, NEW c \in Calls, NEW q, NEW st \in Status, NEW act \in SUBSET Events,
         Log(q, arrived', transcript, taken), Holds(call, arrived', taken),
         Loop(c, q, st, act),
         st = "running" => status = "running" /\ call[c].pc \notin {"turn", "ending"},
         UNCHANGED failed, Around', EndsOnce'
  PROVE  IndInv'
<1>1. /\ Log(queue', arrived', transcript', taken')
      /\ Holds(call', arrived', taken')
      /\ status' = st
      /\ active' \in SUBSET Events
      /\ \A d \in Calls : d # c => call'[d] = call[d]
  BY LoopStep
<1>2. RunningHasDrain'
  BY <1>1, IndInvParts DEF RunningHasDrain
<1> QED BY <1>1, <1>2, IndInvNext

LEMMA SubmitStep ==
  ASSUME IndInv, NEW c \in Calls, NEW e \in Events, NEW drain \in BOOLEAN,
         Submit(c, e, drain)
  PROVE  IndInv'
<1>1. /\ status \in Status /\ active \in SUBSET Events
      /\ Log(queue, arrived, transcript, taken)
      /\ Holds(call, arrived, taken)
      /\ arrived \in Seq(Events) /\ Distinct(arrived)
      /\ call \in [Calls -> CallStates]
  BY IndInvParts
<1>2. e \notin Elements(arrived) /\ \A d \in Calls : e \notin call[d].event
  BY DEF Submit, Submitted, Elements
<1>3. arrived' = Append(arrived, e) /\ UNCHANGED <<dropped, failed, interrupts>>
  BY DEF Submit
<1>4. Log(Queued(queue, e), arrived', transcript, taken)
  BY <1>1, <1>2, <1>3, QueuedLog
<1>5. Holds(call, arrived', taken)
  BY <1>1, <1>2, <1>3, HoldsArrival
<1>6. Around' /\ EndsOnce'
  BY IndInvParts DEF Submit, CloseVars, Around, EndsOnce
<1>7. CASE /\ status = "idle"
           /\ queue' = Queued(queue, e)
           /\ call' = [call EXCEPT ![c] = [Idle EXCEPT !.pc = "starting", !.drain = drain]]
           /\ UNCHANGED <<status, active, transcript, taken>>
  <2> DEFINE h == [Idle EXCEPT !.pc = "starting", !.drain = drain]
  <2>1. h \in CallStates /\ h.event = {} /\ h.pc \notin Draining
    BY IdleHolds
  <2>2. call' = With(call, c, h)
    BY <1>7 DEF With
  <2> HIDE DEF h
  <2>3. Holds(call', arrived', taken)
    BY <1>5, <2>1, <2>2, HoldsNothing
  <2>4. RunningHasDrain'
    BY <1>7 DEF RunningHasDrain
  <2> QED BY <1>1, <1>4, <1>6, <1>7, <2>3, <2>4, IndInvNext
<1>8. CASE /\ queue' = Queued(queue, e)
           /\ UNCHANGED <<status, active, call, transcript, taken>>
  <2>1. RunningHasDrain'
    BY <1>3, <1>8, IndInvParts DEF RunningHasDrain
  <2> QED BY <1>1, <1>4, <1>5, <1>6, <1>8, <2>1, IndInvNext
<1>9. CASE status # "running" /\ Loop(c, Queued(queue, e), status, active)
  BY <1>1, <1>3, <1>4, <1>5, <1>6, <1>9, LoopKeeps
<1> QED BY <1>7, <1>8, <1>9 DEF Submit

LEMMA DeliverStep ==
  ASSUME IndInv, NEW c \in Calls, NEW e \in Events, Deliver(c, e)
  PROVE  IndInv'
<1>1. CASE /\ closed \/ status \in {"interrupted"} \cup ClosedStatus
           /\ dropped' = dropped \cup {e}
           /\ UNCHANGED <<status, active, queue, call, transcript, interrupts, arrived,
                          wanted, taken, failed>>
           /\ UNCHANGED CloseVars
  BY <1>1, IndInvParts, IndInvNext DEF CloseVars, Around, EndsOnce, RunningHasDrain
<1>2. CASE Submit(c, e, status = "waiting")
  <2>1. (status = "waiting") \in BOOLEAN
    OBVIOUS
  <2> QED BY <1>2, <2>1, SubmitStep
<1> QED BY <1>1, <1>2 DEF Deliver

LEMMA FinishStartStep ==
  ASSUME IndInv, NEW c \in Calls, FinishStart(c)
  PROVE  IndInv'
<1>1. /\ status \in Status /\ active \in SUBSET Events
      /\ Log(queue, arrived, transcript, taken)
      /\ Holds(call, arrived, taken)
  BY IndInvParts
<1>2. /\ call[c].pc = "starting"
      /\ UNCHANGED <<interrupts, arrived, wanted, dropped, failed>>
      /\ UNCHANGED CloseVars
  BY DEF FinishStart
<1>3. Around' /\ EndsOnce'
  BY <1>2, IndInvParts DEF CloseVars, Around, EndsOnce
<1>4. CASE Loop(c, queue, "ready", active)
  <2>1. "ready" \in Status
    BY DEF Status
  <2> QED BY <1>1, <1>2, <1>3, <1>4, <2>1, LoopKeeps
<1>5. CASE /\ status' = "ready"
           /\ call' = [call EXCEPT ![c] = Idle]
           /\ UNCHANGED <<active, queue, transcript, taken>>
  <2>1. Idle \in CallStates /\ Idle.event = {} /\ Idle.pc \notin Draining
    BY IdleHolds
  <2>2. Holds(call', arrived', taken')
    BY <1>1, <1>2, <1>5, <2>1, HoldsNothing DEF With
  <2>3. status' \in Status /\ RunningHasDrain'
    BY <1>5 DEF Status, RunningHasDrain
  <2> QED BY <1>1, <1>2, <1>3, <1>5, <2>2, <2>3, IndInvNext
<1> QED BY <1>4, <1>5 DEF FinishStart

LEMMA PromptStep ==
  ASSUME IndInv, NEW c \in Calls, NEW e \in Events, Prompt(c, e)
  PROVE  IndInv'
<1>1. /\ status \in Status /\ active \in SUBSET Events
      /\ Log(queue, arrived, transcript, taken)
      /\ Holds(call, arrived, taken)
      /\ call \in [Calls -> CallStates]
  BY IndInvParts
<1>2. e \notin Elements(arrived) /\ \A d \in Calls : e \notin call[d].event
  BY DEF Prompt, Submitted, Elements
<1> DEFINE h == [Idle EXCEPT !.pc = "reopening", !.event = {e}]
<1>3. h \in CallStates /\ h.pc = "reopening" /\ h.event = {e}
  BY IdleHolds DEF CallState
<1>4. /\ call[c].pc = "idle" /\ call' = With(call, c, h)
      /\ UNCHANGED <<status, active, queue, transcript, interrupts, arrived, wanted, taken,
                     dropped, failed>>
      /\ UNCHANGED CloseVars
  BY DEF Prompt, With
<1> HIDE DEF h
<1>5. HoldsRight(h, arrived, taken)
  BY <1>2, <1>3 DEF HoldsRight, Draining
<1>6. /\ Holds(With(call, c, h), arrived, taken)
      /\ \A d \in Calls : d # c => With(call, c, h)[d] = call[d]
  BY <1>1, <1>2, <1>3, <1>5, HoldsUpdate
<1>7. Holds(call', arrived', taken') /\ \A d \in Calls : d # c => call'[d] = call[d]
  BY <1>4, <1>6
<1>8. Around' /\ EndsOnce'
  BY <1>4, IndInvParts DEF CloseVars, Around, EndsOnce
<1>9. RunningHasDrain'
  BY <1>4, <1>7, IndInvParts DEF RunningHasDrain
<1> QED BY <1>1, <1>4, <1>7, <1>8, <1>9, IndInvNext

LEMMA FinishReopeningStep ==
  ASSUME IndInv, NEW c \in Calls, FinishReopening(c)
  PROVE  IndInv'
<1>1. /\ status \in Status /\ active \in SUBSET Events
      /\ Log(queue, arrived, transcript, taken)
      /\ Holds(call, arrived, taken)
      /\ arrived \in Seq(Events) /\ Distinct(arrived)
      /\ call \in [Calls -> CallStates]
  BY IndInvParts
<1>2. PICK e \in call[c].event :
        /\ queue' = Queued(queue, e)
        /\ arrived' = Append(arrived, e)
        /\ wanted' = wanted \cup {e}
  BY DEF FinishReopening
<1> DEFINE h == [Idle EXCEPT !.pc = "armed"]
<1>3. h \in CallStates /\ h.event = {} /\ h.pc \notin Draining
  BY IdleHolds
<1>4. /\ call[c].pc = "reopening" /\ status' = "ready" /\ active' = {}
      /\ call' = With(call, c, h)
      /\ UNCHANGED <<transcript, interrupts, taken, dropped, failed>>
      /\ UNCHANGED CloseVars
  BY DEF FinishReopening, With
<1> HIDE DEF h
<1>5. /\ Holds(With(call, c, h), arrived, taken)
      /\ With(call, c, h)[c] = h
      /\ \A d \in Calls : d # c => With(call, c, h)[d] = call[d]
  BY <1>1, <1>3, HoldsNothing
<1>6. e \in Events /\ e \notin Elements(arrived)
  BY <1>1, <1>4 DEF Holds, HoldsRight, CallStates
<1>7. \A d \in Calls : e \notin With(call, c, h)[d].event
  BY <1>1, <1>3, <1>5 DEF Holds
<1>8. Holds(call', arrived', taken')
  BY <1>1, <1>2, <1>4, <1>5, <1>6, <1>7, HoldsArrival
<1>9. Log(queue', arrived', transcript', taken')
  BY <1>1, <1>2, <1>4, <1>6, QueuedLog
<1>10. Around' /\ EndsOnce'
  BY <1>2, <1>4, <1>6, IndInvParts DEF CloseVars, Around, EndsOnce
<1>11. status' \in Status /\ active' \in SUBSET Events /\ RunningHasDrain'
  BY <1>4 DEF Status, RunningHasDrain
<1> QED BY <1>8, <1>9, <1>10, <1>11, IndInvNext

LEMMA AdvanceStep ==
  ASSUME IndInv, NEW c \in Calls, Advance(c)
  PROVE  IndInv'
<1>1. /\ status \in Status /\ active \in SUBSET Events
      /\ Log(queue, arrived, transcript, taken)
      /\ Holds(call, arrived, taken)
  BY IndInvParts
<1>2. /\ call[c].pc = "armed" /\ Loop(c, queue, status, active)
      /\ UNCHANGED <<interrupts, arrived, wanted, dropped, failed>>
      /\ UNCHANGED CloseVars
  BY DEF Advance
<1>3. Around' /\ EndsOnce'
  BY <1>2, IndInvParts DEF CloseVars, Around, EndsOnce
<1> QED BY <1>1, <1>2, <1>3, LoopKeeps

\* A draining call that goes from one suspension to the next with the event it holds.
LEMMA GoesOn ==
  ASSUME IndInv, NEW c \in Calls, NEW p \in Draining, call[c].pc \in Draining,
         call' = [call EXCEPT ![c].pc = p], UNCHANGED <<arrived, taken>>
  PROVE  Holds(call', arrived', taken') /\ call'[c].pc = p
<1> DEFINE h == [call[c] EXCEPT !.pc = p]
<1>1. /\ Holds(call, arrived, taken)
      /\ call \in [Calls -> CallStates]
  BY IndInvParts
<1>2. h \in CallStates /\ h.pc = p /\ h.event = call[c].event
  BY <1>1 DEF CallStates, CallState, Draining
<1>3. call' = With(call, c, h)
  BY DEF With
<1> HIDE DEF h
<1>4. HoldsRight(h, arrived, taken)
  BY <1>1, <1>2 DEF Holds, HoldsRight, Draining
<1>5. \A d \in Calls : d # c => h.event \cap call[d].event = {}
  BY <1>1, <1>2 DEF Holds
<1>6. Holds(With(call, c, h), arrived, taken) /\ With(call, c, h)[c] = h
  BY <1>1, <1>2, <1>4, <1>5, HoldsUpdate
<1> QED BY <1>2, <1>3, <1>6

LEMMA FinishAdmissionStep ==
  ASSUME IndInv, NEW c \in Calls, FinishAdmission(c)
  PROVE  IndInv'
<1>1. /\ status \in Status /\ active \in SUBSET Events
      /\ Log(queue, arrived, transcript, taken)
      /\ Holds(call, arrived, taken)
      /\ call \in [Calls -> CallStates]
  BY IndInvParts
<1>2. /\ call[c].pc = "admitting"
      /\ UNCHANGED <<interrupts, arrived, wanted, dropped, failed>>
      /\ UNCHANGED CloseVars
  BY DEF FinishAdmission
<1>3. Around' /\ EndsOnce'
  BY <1>2, IndInvParts DEF CloseVars, Around, EndsOnce
<1> DEFINE st == IF status = "waiting" THEN status ELSE "ready"
<1>4. CASE Loop(c, queue, st, active)
  <2>1. st \in Status /\ st # "running"
    BY DEF Status
  <2> HIDE DEF st
  <2> QED BY <1>1, <1>2, <1>3, <1>4, <2>1, LoopKeeps
<1>5. CASE \E e \in call[c].event :
             /\ status' = "running"
             /\ active' = {e}
             /\ call' = [call EXCEPT ![c].pc = "turn"]
             /\ UNCHANGED <<queue, transcript, taken>>
  <2>1. Holds(call', arrived', taken') /\ call'[c].pc = "turn"
    BY <1>2, <1>5, GoesOn DEF Draining
  <2>2. status' \in Status /\ active' \in SUBSET Events /\ RunningHasDrain'
    BY <1>1, <1>5, <2>1 DEF Status, RunningHasDrain, CallStates
  <2> QED BY <1>1, <1>2, <1>3, <1>5, <2>1, <2>2, IndInvNext
<1> QED BY <1>4, <1>5 DEF FinishAdmission

LEMMA TurnEndsStep ==
  ASSUME IndInv, NEW c \in Calls, NEW hint \in {"none", "waiting", "interrupted"},
         TurnEnds(c, hint)
  PROVE  IndInv'
<1>1. /\ status \in Status /\ active \in SUBSET Events
      /\ Log(queue, arrived, transcript, taken)
  BY IndInvParts
<1>2. /\ call[c].pc = "turn"
      /\ status' = IF hint = "none" THEN status ELSE hint
      /\ call' = [call EXCEPT ![c].pc = "ending"]
      /\ wanted' = IF hint = "interrupted" THEN {} ELSE wanted
      /\ UNCHANGED <<active, queue, transcript, interrupts, arrived, taken, dropped, failed>>
      /\ UNCHANGED CloseVars
  BY DEF TurnEnds
<1>3. Around' /\ EndsOnce'
  BY <1>2, IndInvParts DEF CloseVars, Around, EndsOnce
<1>4. Holds(call', arrived', taken') /\ call'[c].pc = "ending"
  BY <1>2, GoesOn DEF Draining
<1>5. status' \in Status /\ RunningHasDrain'
  BY <1>1, <1>2, <1>4 DEF Status, RunningHasDrain
<1> QED BY <1>1, <1>2, <1>3, <1>4, <1>5, IndInvNext

\* A call that stops where it is.
LEMMA Stops ==
  ASSUME IndInv, NEW c \in Calls, call' = [call EXCEPT ![c] = Idle],
         UNCHANGED <<arrived, taken>>
  PROVE  Holds(call', arrived', taken')
<1>1. Idle \in CallStates /\ Idle.event = {} /\ Idle.pc \notin Draining
  BY IdleHolds
<1> QED BY <1>1, IndInvParts, HoldsNothing DEF With

LEMMA FinishTurnStep ==
  ASSUME IndInv, NEW c \in Calls, FinishTurn(c)
  PROVE  IndInv'
<1>1. /\ status \in Status /\ active \in SUBSET Events
      /\ Log(queue, arrived, transcript, taken)
      /\ Holds(call, arrived, taken)
  BY IndInvParts
<1>2. /\ call[c].pc = "ending"
      /\ UNCHANGED <<interrupts, arrived, wanted, dropped, failed>>
      /\ UNCHANGED CloseVars
  BY DEF FinishTurn
<1>3. Around' /\ EndsOnce'
  BY <1>2, IndInvParts DEF CloseVars, Around, EndsOnce
<1> DEFINE st == IF status = "waiting" THEN status ELSE "ready"
<1>4. CASE Loop(c, queue, st, {})
  <2>1. st \in Status /\ st # "running"
    BY DEF Status
  <2> HIDE DEF st
  <2> QED BY <1>1, <1>2, <1>3, <1>4, <2>1, LoopKeeps
<1>5. CASE /\ status = "interrupted"
           /\ call' = [call EXCEPT ![c] = Idle]
           /\ active' = {}
           /\ UNCHANGED <<status, queue, transcript, taken>>
  <2>1. Holds(call', arrived', taken')
    BY <1>2, <1>5, Stops
  <2>2. RunningHasDrain'
    BY <1>5 DEF RunningHasDrain
  <2> QED BY <1>1, <1>2, <1>3, <1>5, <2>1, <2>2, IndInvNext
<1> QED BY <1>4, <1>5 DEF FinishTurn

LEMMA HandlingRaisesStep ==
  ASSUME IndInv, NEW c \in Calls, HandlingRaises(c)
  PROVE  IndInv'
<1>1. /\ status \in Status /\ active \in SUBSET Events
      /\ Log(queue, arrived, transcript, taken)
      /\ Holds(call, arrived, taken)
      /\ call \in [Calls -> CallStates]
  BY IndInvParts
<1>2. /\ call[c].pc \in Draining
      /\ failed' = failed \cup call[c].event
      /\ call' = [call EXCEPT ![c] = Idle]
      /\ UNCHANGED <<status, active, queue, transcript, interrupts, arrived, wanted, taken,
                     dropped>>
      /\ UNCHANGED CloseVars
  BY DEF HandlingRaises
<1>3. call[c].event # {} /\ call[c].event \in SUBSET Events
  BY <1>1, <1>2 DEF Holds, HoldsRight, CallStates
<1>4. Around' /\ EndsOnce'
  BY <1>2, <1>3, IndInvParts DEF CloseVars, Around, EndsOnce
<1>5. Holds(call', arrived', taken')
  BY <1>2, Stops
<1>6. RunningHasDrain'
  BY <1>2, <1>3 DEF RunningHasDrain
<1> QED BY <1>1, <1>2, <1>4, <1>5, <1>6, IndInvNext

LEMMA InterruptStep ==
  ASSUME IndInv, Interrupt
  PROVE  IndInv'
<1>1. /\ status' = "interrupted" /\ wanted' = {} /\ interrupts' = interrupts + 1
      /\ UNCHANGED <<active, queue, call, transcript, arrived, taken, dropped, failed>>
      /\ UNCHANGED CloseVars
  BY DEF Interrupt
<1>2. Around' /\ EndsOnce'
  BY <1>1, IndInvParts DEF CloseVars, Around, EndsOnce
<1>3. status' \in Status /\ RunningHasDrain'
  BY <1>1 DEF Status, RunningHasDrain
<1> QED BY <1>1, <1>2, <1>3, IndInvParts, IndInvNext

LEMMA CloseStartsStep ==
  ASSUME IndInv, NEW k \in Closers, CloseStarts(k)
  PROVE  IndInv'
<1>1. /\ ~closed /\ closeTask = {} /\ closeTask' = {k}
      /\ closer' = [closer EXCEPT ![k] = "closing"]
      /\ ended' = ended + 1
      /\ UNCHANGED <<status, active, wanted, closed, awaited>>
      /\ UNCHANGED SessionVars
  BY DEF CloseStarts
<1>2. Around /\ EndsOnce
  BY IndInvParts
<1>3. Around'
  BY <1>1, <1>2 DEF SessionVars, Around
<1>4. EndsOnce'
  BY <1>1, <1>2 DEF EndsOnce, Around
<1>5. RunningHasDrain'
  BY <1>1, IndInvParts DEF SessionVars, RunningHasDrain
<1> QED BY <1>1, <1>3, <1>4, <1>5, IndInvParts, IndInvNext DEF SessionVars

LEMMA CloseJoinsStep ==
  ASSUME IndInv, NEW k \in Closers, CloseJoins(k)
  PROVE  IndInv'
<1>1. /\ closer' = [closer EXCEPT ![k] = "joined"]
      /\ awaited' = [awaited EXCEPT ![k] = closeTask]
      /\ UNCHANGED <<status, active, wanted, closed, closeTask, ended>>
      /\ UNCHANGED SessionVars
  BY DEF CloseJoins
<1>2. Around /\ EndsOnce
  BY IndInvParts
<1>3. Around' /\ EndsOnce'
  BY <1>1, <1>2 DEF SessionVars, Around, EndsOnce
<1>4. RunningHasDrain'
  BY <1>1, IndInvParts DEF SessionVars, RunningHasDrain
<1> QED BY <1>1, <1>3, <1>4, IndInvParts, IndInvNext DEF SessionVars

LEMMA CloseStepStep ==
  ASSUME IndInv, NEW k \in Closers, CloseStep(k)
  PROVE  IndInv'
<1>1. Around /\ EndsOnce
  BY IndInvParts
<1>2. ASSUME NEW final \in ClosedStatus \cup {"interrupted"}, CloseFinally(k, final)
      PROVE  IndInv'
  <2>1. /\ closer' = [closer EXCEPT ![k] = "callback"]
        /\ closed' = TRUE /\ active' = {} /\ status' = final
        /\ wanted' = IF final = "interrupted" THEN {} ELSE wanted
        /\ UNCHANGED <<closeTask, awaited, ended>>
        /\ UNCHANGED SessionVars
    BY <1>2 DEF CloseFinally
  <2>2. Around' /\ EndsOnce'
    BY <1>1, <2>1 DEF SessionVars, Around, EndsOnce
  <2>3. status' \in Status /\ RunningHasDrain'
    BY <2>1 DEF Status, ClosedStatus, RunningHasDrain
  <2> QED BY <2>1, <2>2, <2>3, IndInvParts, IndInvNext DEF SessionVars
<1>3. CASE CloseReturns(k)
  <2>1. /\ closer[k] = "callback" /\ closer' = [closer EXCEPT ![k] = "after"]
        /\ closeTask' = {}
        /\ UNCHANGED <<status, active, wanted, closed, awaited, ended>>
        /\ UNCHANGED SessionVars
    BY <1>3 DEF CloseReturns
  <2>2. Around' /\ EndsOnce'
    BY <1>1, <2>1 DEF SessionVars, Around, EndsOnce
  <2>3. RunningHasDrain'
    BY <2>1, IndInvParts DEF SessionVars, RunningHasDrain
  <2> QED BY <2>1, <2>2, <2>3, IndInvParts, IndInvNext DEF SessionVars
<1>4. CASE CloserEnds(k)
  <2>1. /\ closer' = [closer EXCEPT ![k] = "done"]
        /\ awaited' = [awaited EXCEPT ![k] = {}]
        /\ UNCHANGED <<status, active, wanted, closed, closeTask, ended>>
        /\ UNCHANGED SessionVars
    BY <1>4 DEF CloserEnds
  <2>2. Around' /\ EndsOnce'
    BY <1>1, <2>1 DEF SessionVars, Around, EndsOnce
  <2>3. RunningHasDrain'
    BY <2>1, IndInvParts DEF SessionVars, RunningHasDrain
  <2> QED BY <2>1, <2>2, <2>3, IndInvParts, IndInvNext DEF SessionVars
<1> QED BY <1>2, <1>3, <1>4 DEF CloseStep

LEMMA NextIndInv ==
  ASSUME IndInv, [Next]_vars
  PROVE  IndInv'
<1>1. ASSUME NEW c \in Calls, NEW e \in Events \ ChildRuns, NEW drain \in BOOLEAN,
             Submit(c, e, drain)
      PROVE  IndInv'
  BY <1>1, SubmitStep
<1>2. ASSUME NEW c \in Calls, NEW e \in Events \ ChildRuns, Prompt(c, e)
      PROVE  IndInv'
  BY <1>2, PromptStep
<1>3. ASSUME NEW c \in Calls, NEW e \in ChildRuns, Deliver(c, e)
      PROVE  IndInv'
  BY <1>3, DeliverStep, SessionAssumption
<1>4. ASSUME NEW c \in Calls, CallStep(c)
      PROVE  IndInv'
  <2>1. ASSUME NEW hint \in {"none", "waiting", "interrupted"}, TurnEnds(c, hint)
        PROVE  IndInv'
    BY <2>1, TurnEndsStep
  <2>2. CASE FinishStart(c)
    BY <2>2, FinishStartStep
  <2>3. CASE FinishReopening(c)
    BY <2>3, FinishReopeningStep
  <2>4. CASE Advance(c)
    BY <2>4, AdvanceStep
  <2>5. CASE FinishAdmission(c)
    BY <2>5, FinishAdmissionStep
  <2>6. CASE FinishTurn(c)
    BY <2>6, FinishTurnStep
  <2> QED BY <1>4, <2>1, <2>2, <2>3, <2>4, <2>5, <2>6 DEF CallStep
<1>5. ASSUME NEW c \in Calls, HandlingRaises(c)
      PROVE  IndInv'
  BY <1>5, HandlingRaisesStep
<1>6. CASE Interrupt
  BY <1>6, InterruptStep
<1>7. ASSUME NEW k \in Closers, CloseStarts(k) \/ CloseJoins(k) \/ CloseStep(k)
      PROVE  IndInv'
  BY <1>7, CloseStartsStep, CloseJoinsStep, CloseStepStep
<1>8. CASE UNCHANGED vars
  BY <1>8 DEF vars, IndInv, TypeOK, RunningHasDrain, EndsOnce
<1> QED BY <1>1, <1>2, <1>3, <1>4, <1>5, <1>6, <1>7, <1>8 DEF Next

----
(* What follows from it                                                    *)

\* No event is in two hands: the queue holds an event once, none that was taken, and no
\* two calls hold the same one.
LEMMA IndInvSafe ==
  ASSUME IndInv
  PROVE  SessionSafe
<1>1. /\ Log(queue, arrived, transcript, taken)
      /\ Holds(call, arrived, taken)
      /\ RunningHasDrain /\ EndsOnce
  BY IndInvParts
<1>2. \A i \in 1..Len(queue) : queue[i] \notin taken
  BY <1>1 DEF Log
<1>3. \A i, j \in 1..Len(queue) : queue[i] = queue[j] => i = j
  <2>1. \A i, j \in 1..Len(queue) : i < j => queue[i] # queue[j]
    BY <1>1 DEF Log, Sorted
  <2>2. \A i, j \in 1..Len(queue) : i < j \/ j < i \/ i = j
    OBVIOUS
  <2> QED BY <2>1, <2>2
<1>4. HandledOnce
  BY <1>1, <1>2, <1>3 DEF HandledOnce, Holds
<1>5. NothingLost
  BY <1>1 DEF NothingLost, Log
<1>6. OvertakenByPriorityOnly
  BY <1>1 DEF OvertakenByPriorityOnly, Log, MayFollow
<1>7. SessionEndsOnce
  BY <1>1 DEF EndsOnce, SessionEndsOnce
<1> QED BY <1>1, <1>4, <1>5, <1>6, <1>7 DEF SessionSafe, IndInv

\* The queue stays sorted and together with what was taken complete, a draining call holds an
\* event that was taken and belongs to no other call, a running session has a drain, and
\* SessionEnd goes with a close under way or over (controller.py, the whole drain loop).
THEOREM SessionInductive == Spec => []IndInv
<1>1. Init => IndInv
  BY InitIndInv
<1>2. IndInv /\ [Next]_vars => IndInv'
  BY NextIndInv
<1> QED BY <1>1, <1>2, PTL DEF Spec

\* However many tasks submit to, prompt, drain, interrupt and close one session, in any
\* order, each event is handled once, none is lost, the transcript deviates from the order
\* of arrival only where a higher priority overtakes, a running session has a task that
\* drains it, and SessionEnd is dispatched once.
THEOREM SessionSafety == Spec => []SessionSafe
<1>1. IndInv => SessionSafe
  BY IndInvSafe
<1> QED BY <1>1, SessionInductive, PTL

----
(* The workflow and the shutdown of a teammate. *)

Transport == {"transport_request", "transport_response"}

\* The history of a record accounts for its status.
Explained(r) ==
    /\ r \in WfRecord
    /\ r.status = "waiting_host" => "approve" \in r.hist
    /\ r.kind = "permission" =>
         /\ r.status = "completed" => {"approve", "host_allow"} \subseteq r.hist
         /\ r.status # "completed" => "host_allow" \notin r.hist
         /\ r.status = "rejected" => r.hist \cap {"reject", "host_deny"} # {}
         /\ r.status \in {"timed_out", "forced_closed"} => "deadline_expired" \in r.hist
    /\ r.kind = "shutdown" =>
         /\ r.status \in {"pending", "acknowledged", "completed", "forced_closed"}
         /\ "host_allow" \notin r.hist
         /\ r.status = "completed" => "complete" \in r.hist
         /\ r.status = "forced_closed" => r.hist \cap {"force_close", "deadline_expired"} # {}

\* A record of the one workflow there is, every decision of which was stored.
Sound(r, kind, said) == Explained(r) /\ r.kind = kind /\ r.hist \subseteq said \cup Transport

Records ==
    /\ Exists => Sound(wfRec, wfRec.kind, wfSaid)
    /\ \A c \in WfCallers \cup {"deadline"} :
         wfCopy[c] # NoRec => Sound(wfCopy[c], wfRec.kind, wfSaid)
    /\ ~Exists => wfTimer = "none"

\* Where the callers are, and what they keep there.
Handlers ==
    /\ \A c \in WfCallers : wfPc[c] = "emit" => wfCopy[c] # NoRec
    /\ wfPc["requester"] \in {"request", "request2"} => wfCopy["requester"] # NoRec
    /\ wfPc["requester"] = "idle" => wfRec = NoRec
    /\ wfTimer = "emitting" => wfCopy["deadline"] # NoRec /\ Closed(wfCopy["deadline"])
    /\ wfPc["requester"] \in {"poll", "ask", "record", "emit"} => wfRec.kind = "permission"

\* What the bridge and the waiter were told.
Verdicts ==
    /\ "host_allow" \in wfSaid => wfPc["requester"] \in {"emit", "done", "gone"} /\ wfHost = "allow"
    /\ wfOutcome # "none" => wfPc["requester"] \in {"done", "gone"}
    /\ GrantNeedsBoth
    /\ wfPc["requester"] = "done" /\ wfRec.kind = "shutdown" =>
         wfAnswer \in {"completed", "forced_closed"}

WfInv == WfTypeOK /\ Records /\ Handlers /\ Verdicts

Closing == {"complete", "force_close", "deadline_expired"}

TmInv ==
    /\ TmTypeOK
    /\ tmWf => wfRec.kind = "shutdown" /\ tmState \in {"stopping", "stopped"}
    /\ tmAt["remover"] # "off" \/ tmAt["worker"] \notin {"off", "loop", "run"}
         => wfRec.kind = "shutdown"
    /\ tmAt["remover"] = "off" =>
         /\ tmState \in {"idle", "active"} /\ ~tmGraceful
         /\ tmAt["worker"] \in {"off", "loop", "run"}
         /\ tmBusy <=> tmAt["worker"] = "run"
    /\ tmAt["worker"] = "run" => ~tmSeen["worker"].wf
    /\ tmGraceful => tmAt["worker"] # "run" /\ tmState \in {"stopping", "stopped", "removed"}
    /\ StoppedAfterClose
    /\ \A p \in Parties : tmAt[p] = "cs_write" => wfSaid \cap Closing # {}
    /\ tmAt["remover"] = "end" =>
         /\ tmItems = 0
         /\ wfPc["requester"] = "done"
         /\ wfAnswer = "completed" \/ tmAt["worker"] = "off"

TeamInv == WfInv /\ TmInv

----
(* Records                                                                 *)

\* The transport adds itself to the history and changes nothing else.
LEMMA SentExplained ==
    ASSUME NEW r, Explained(r), NEW a \in Transport
    PROVE  /\ Explained(Mutate(r, a, r.status))
           /\ Mutate(r, a, r.status).kind = r.kind
           /\ Mutate(r, a, r.status).status = r.status
           /\ Mutate(r, a, r.status).hist = r.hist \cup {a}
BY DEF Explained, Mutate, WfRecord, Transport, WfActions

LEMMA ExpiredExplained ==
    ASSUME NEW r, Explained(r), ~Closed(r)
    PROVE  /\ Explained(Expired(r))
           /\ Expired(r).kind = r.kind
           /\ Closed(Expired(r))
           /\ Expired(r).hist = r.hist \cup {"deadline_expired"}
BY DEF Explained, Expired, Mutate, Closed, WfRecord, WfKinds, WfStatus, WfTerminal, WfActions

LEMMA AnswerExplained ==
    ASSUME NEW r, Explained(r), NEW a \in AllowedActions(r)
    PROVE  /\ Explained(ApplyAction(r, a))
           /\ ApplyAction(r, a).kind = r.kind
           /\ ApplyAction(r, a).hist = r.hist \cup {a}
           /\ a \in {"approve", "reject", "acknowledge", "complete"}
           /\ a \in WfActions
<1>1. r \in WfRecord
  BY DEF Explained
<1>2. CASE r.kind = "permission"
  <2>1. r.status = "pending" /\ a \in {"approve", "reject"}
    BY <1>2 DEF AllowedActions
  <2>2. CASE a = "approve"
    BY <1>1, <1>2, <2>1, <2>2 DEF Explained, ApplyAction, Mutate, WfRecord, WfStatus, WfActions
  <2>3. CASE a = "reject"
    BY <1>1, <1>2, <2>1, <2>3
       DEF Explained, ApplyAction, Mutate, WfRecord, WfStatus, WfTerminal, WfActions
  <2> QED BY <2>1, <2>2, <2>3
<1>3. CASE r.kind = "shutdown"
  <2>1. r.status \in {"pending", "acknowledged"} /\ a \in {"acknowledge", "complete"}
    BY <1>3 DEF AllowedActions
  <2>2. CASE a = "acknowledge"
    BY <1>1, <1>3, <2>1, <2>2 DEF Explained, ApplyAction, Mutate, WfRecord, WfStatus, WfActions
  <2>3. CASE a = "complete"
    BY <1>1, <1>3, <2>1, <2>3
       DEF Explained, ApplyAction, Mutate, WfRecord, WfStatus, WfTerminal, WfActions
  <2> QED BY <2>1, <2>2, <2>3
<1> QED BY <1>1, <1>2, <1>3 DEF WfRecord, WfKinds

LEMMA ForcedExplained ==
    ASSUME NEW r, Explained(r), ~Closed(r), r.kind = "shutdown"
    PROVE  LET s == Mutate(r, "force_close", "forced_closed")
           IN  Explained(s) /\ s.kind = r.kind /\ s.hist = r.hist \cup {"force_close"}
BY DEF Explained, Mutate, Closed, WfRecord, WfStatus, WfTerminal, WfActions

LEMMA HostExplained ==
    ASSUME NEW r, Explained(r), r.kind = "permission", r.status = "waiting_host"
    PROVE  /\ LET s == Mutate(r, "host_allow", "completed")
              IN  Explained(s) /\ s.kind = r.kind /\ s.hist = r.hist \cup {"host_allow"}
           /\ LET s == Mutate(r, "host_deny", "rejected")
              IN  Explained(s) /\ s.kind = r.kind /\ s.hist = r.hist \cup {"host_deny"}
BY DEF Explained, Mutate, WfRecord, WfStatus, WfTerminal, WfActions

LEMMA NoRecIsNone == NoRec \notin WfRecord /\ NoRec.kind = "none" /\ ~Closed(NoRec)
BY DEF NoRec, WfRecord, WfKinds, Closed, WfTerminal

\* A record is stored, and one handler's copy changes.
LEMMA RecordsStep ==
    ASSUME WfInv, Exists, NEW c \in WfCallers \cup {"deadline"}, NEW x,
           Sound(wfRec', wfRec.kind, wfSaid'), wfSaid \subseteq wfSaid',
           x = NoRec \/ Sound(x, wfRec.kind, wfSaid'),
           wfCopy' = [wfCopy EXCEPT ![c] = x]
    PROVE  /\ Records' /\ wfRec' \in WfRecord /\ wfRec'.kind = wfRec.kind
           /\ wfCopy' \in [WfCallers \cup {"deadline"} -> WfRecord \cup {NoRec}]
           /\ wfCopy'[c] = x
           /\ \A d \in WfCallers \cup {"deadline"} : d # c => wfCopy'[d] = wfCopy[d]
<1>1. wfCopy \in [WfCallers \cup {"deadline"} -> WfRecord \cup {NoRec}]
  BY DEF WfInv, WfTypeOK
<1>2. x \in WfRecord \cup {NoRec}
  BY DEF Sound, Explained
<1>3. /\ wfCopy' \in [WfCallers \cup {"deadline"} -> WfRecord \cup {NoRec}]
      /\ wfCopy'[c] = x
      /\ \A d \in WfCallers \cup {"deadline"} : d # c => wfCopy'[d] = wfCopy[d]
  BY <1>1, <1>2
<1>4. wfRec' \in WfRecord /\ wfRec'.kind = wfRec.kind
  BY DEF Sound, Explained
<1>5. \A d \in WfCallers \cup {"deadline"} :
        wfCopy'[d] # NoRec => Sound(wfCopy'[d], wfRec.kind, wfSaid')
  <2> TAKE d \in WfCallers \cup {"deadline"}
  <2>1. CASE d = c
    BY <1>3, <2>1
  <2>2. CASE d # c
    BY <1>3, <2>2 DEF WfInv, Records, Sound
  <2> QED BY <2>1, <2>2
<1>6. Records'
  BY <1>4, <1>5, NoRecIsNone DEF Records, Exists
<1> QED BY <1>3, <1>4, <1>6

\* One handler's copy is made or dropped and the record is left alone.
LEMMA CopyStep ==
    ASSUME WfInv, Exists, NEW c \in WfCallers \cup {"deadline"}, NEW x,
           UNCHANGED <<wfRec, wfSaid>>,
           x = NoRec \/ Sound(x, wfRec.kind, wfSaid),
           wfCopy' = [wfCopy EXCEPT ![c] = x]
    PROVE  /\ Records' /\ wfRec' \in WfRecord /\ wfRec'.kind = wfRec.kind
           /\ wfCopy' \in [WfCallers \cup {"deadline"} -> WfRecord \cup {NoRec}]
           /\ wfCopy'[c] = x
           /\ \A d \in WfCallers \cup {"deadline"} : d # c => wfCopy'[d] = wfCopy[d]
BY RecordsStep DEF WfInv, Records, Sound

\* Without a record nobody has a copy of one.
LEMMA NobodyCopies ==
    ASSUME WfInv
    PROVE  /\ Exists => Sound(wfRec, wfRec.kind, wfSaid)
           /\ \A c \in WfCallers \cup {"deadline"} :
                wfCopy[c] # NoRec => Exists /\ Sound(wfCopy[c], wfRec.kind, wfSaid)
BY NoRecIsNone DEF WfInv, Records, Sound, Explained, WfRecord, WfKinds, Exists

----
(* The workflow                                                            *)

\* What no step of a shutdown workflow takes back.
Kept ==
    /\ wfRec.kind = "shutdown" => wfRec'.kind = "shutdown"
    /\ wfSaid \subseteq wfSaid'
    /\ wfPc["requester"] = "done" /\ wfRec.kind = "shutdown" =>
         wfPc'["requester"] = "done" /\ wfAnswer' = wfAnswer

LEMMA WfInitInv == WfInit => WfInv
<1> SUFFICES ASSUME WfInit PROVE WfInv
  OBVIOUS
<1>1. \A c \in WfCallers \cup {"deadline"} : wfCopy[c] = NoRec
  BY DEF WfInit
<1>2. \A c \in WfCallers : wfPc[c] = "idle"
  BY DEF WfInit
<1>3. WfTypeOK
  <2>1. /\ wfPc \in [WfCallers -> {"idle", "request", "request2", "created", "poll",
                                   "ask", "record", "emit", "parked", "done", "gone"}]
        /\ wfCopy \in [WfCallers \cup {"deadline"} -> WfRecord \cup {NoRec}]
    BY DEF WfInit
  <2>2. wfLock \in WfLockers /\ wfCrashes \in 0..WfMaxCrashes
    BY WfAssumption DEF WfInit, WfLockers
  <2> QED BY <2>1, <2>2 DEF WfInit, WfTypeOK
<1>4. Records /\ Handlers /\ Verdicts
  BY <1>1, <1>2, WfAssumption DEF WfInit, Records, Handlers, Verdicts, GrantNeedsBoth, Exists,
     WfCallers
<1> QED BY <1>3, <1>4 DEF WfInv

\* The types in the form the steps use them.
LEMMA WfTypes ==
    ASSUME WfInv
    PROVE  /\ wfRec \in WfRecord \cup {NoRec} /\ wfDue \in BOOLEAN /\ wfLock \in WfLockers
           /\ wfPc \in [WfCallers -> {"idle", "request", "request2", "created", "poll",
                                      "ask", "record", "emit", "parked", "done", "gone"}]
           /\ wfCopy \in [WfCallers \cup {"deadline"} -> WfRecord \cup {NoRec}]
           /\ wfTimer \in {"none", "armed", "emitting"}
           /\ wfAnswer \in {"none"} \cup WfTerminal
           /\ wfHost \in {"none", "allow", "deny"} /\ wfOutcome \in {"none", "allow", "deny"}
           /\ wfSaid \subseteq WfActions /\ wfCrashes \in 0..WfMaxCrashes
           /\ "requester" \in WfCallers /\ "deadline" \notin WfCallers
           /\ Responders \subseteq WfCallers /\ "requester" \notin Responders
BY WfAssumption DEF WfInv, WfTypeOK, WfCallers

LEMMA CreateStep ==
    ASSUME WfInv, NEW k \in WfKinds, CreateWorkflow(k)
    PROVE  WfInv' /\ Kept
<1> DEFINE r == [kind |-> k, status |-> "pending", hist |-> {}]
<1>1. /\ wfPc["requester"] = "idle" /\ ~Exists
      /\ wfRec' = r /\ wfTimer' = "armed"
      /\ wfCopy' = [wfCopy EXCEPT !["requester"] = r]
      /\ wfPc' = [wfPc EXCEPT !["requester"] = "request"]
      /\ UNCHANGED <<wfDue, wfLock, wfHost, wfOutcome, wfAnswer, wfSaid, wfCrashes>>
  BY DEF CreateWorkflow
<1>2. Sound(r, k, wfSaid) /\ r \in WfRecord /\ r # NoRec
  BY NoRecIsNone DEF Sound, Explained, WfRecord, WfKinds, WfStatus, WfActions
<1>3. r.kind = k
  OBVIOUS
<1> HIDE DEF r
<1>4. \A c \in WfCallers \cup {"deadline"} : wfCopy'[c] = IF c = "requester" THEN r ELSE NoRec
  BY <1>1, WfTypes, NobodyCopies
<1>5. WfTypeOK'
  BY <1>1, <1>2, WfTypes DEF WfTypeOK
<1>6. Records'
  BY <1>1, <1>2, <1>3, <1>4 DEF Records, Exists
<1>7. Handlers'
  BY <1>1, <1>2, <1>4, WfTypes DEF WfInv, Handlers
<1>8. Verdicts'
  BY <1>1, WfTypes DEF WfInv, Verdicts, GrantNeedsBoth
<1>9. Kept
  BY <1>1, NoRecIsNone DEF Kept, Exists
<1> QED BY <1>5, <1>6, <1>7, <1>8, <1>9 DEF WfInv

LEMMA EmitRequestStep ==
    ASSUME WfInv, EmitRequest
    PROVE  WfInv' /\ Kept
<1> DEFINE r == wfCopy["requester"]
           s == Mutate(r, "transport_request", r.status)
<1>1. /\ wfPc["requester"] \in {"request", "request2"}
      /\ \/ wfRec' = s /\ wfCopy' = [wfCopy EXCEPT !["requester"] = s]
         \/ UNCHANGED <<wfRec, wfCopy>>
      /\ wfPc' = [wfPc EXCEPT !["requester"] = AfterRequest(@, r.kind)]
      /\ UNCHANGED <<wfDue, wfTimer, wfLock, wfHost, wfOutcome, wfAnswer, wfSaid, wfCrashes>>
  BY DEF EmitRequest
<1>2. r # NoRec /\ Exists /\ Sound(r, wfRec.kind, wfSaid)
  BY <1>1, WfTypes, NobodyCopies DEF WfInv, Handlers
<1>3. Sound(s, wfRec.kind, wfSaid) /\ s # NoRec
  BY <1>2, SentExplained, NoRecIsNone DEF Sound, Transport, Explained
<1>4. r.kind = wfRec.kind /\ wfRec.kind \in WfKinds
  BY <1>2 DEF Sound, Explained, WfRecord
<1> HIDE DEF r, s
<1>5. /\ wfPc'["requester"] \in {"request2", "created", "poll"}
      /\ wfPc'["requester"] = "poll" => wfRec.kind = "permission"
      /\ wfPc' \in [WfCallers -> {"idle", "request", "request2", "created", "poll",
                                  "ask", "record", "emit", "parked", "done", "gone"}]
      /\ \A c \in Responders : wfPc'[c] = wfPc[c]
  BY <1>1, <1>4, WfTypes DEF AfterRequest, WfKinds
<1>6. /\ Records' /\ wfRec' \in WfRecord /\ wfRec'.kind = wfRec.kind
      /\ wfCopy' \in [WfCallers \cup {"deadline"} -> WfRecord \cup {NoRec}]
      /\ wfCopy'["requester"] # NoRec
      /\ \A d \in WfCallers \cup {"deadline"} : d # "requester" => wfCopy'[d] = wfCopy[d]
  <2>1. CASE wfRec' = s /\ wfCopy' = [wfCopy EXCEPT !["requester"] = s]
    BY <1>1, <1>2, <1>3, <2>1, WfTypes, RecordsStep
  <2>2. CASE UNCHANGED <<wfRec, wfCopy>>
    BY <1>1, <1>2, <2>2, WfTypes DEF WfInv, Records, Exists, r
  <2> QED BY <1>1, <2>1, <2>2
<1>7. WfTypeOK'
  BY <1>1, <1>5, <1>6, WfTypes DEF WfTypeOK
<1>8. Handlers'
  BY <1>1, <1>2, <1>5, <1>6, WfTypes DEF WfInv, Handlers, WfCallers
<1>9. Verdicts'
  BY <1>1, <1>5, WfTypes DEF WfInv, Verdicts, GrantNeedsBoth
<1>10. Kept
  BY <1>1, <1>6 DEF Kept
<1> QED BY <1>6, <1>7, <1>8, <1>9, <1>10 DEF WfInv

\* A handler stores a transition of the record and keeps a copy of it.
LEMMA DecideStep ==
    ASSUME WfInv, Exists, NEW c \in WfCallers \cup {"deadline"}, NEW r, NEW a \in WfActions,
           Explained(r), r.kind = wfRec.kind, r.hist = wfRec.hist \cup {a}, Decide(c, r)
    PROVE  /\ Records' /\ wfRec' = r /\ wfRec' \in WfRecord /\ wfRec'.kind = wfRec.kind
           /\ wfCopy' \in [WfCallers \cup {"deadline"} -> WfRecord \cup {NoRec}]
           /\ wfCopy'[c] = r /\ r # NoRec
           /\ \A d \in WfCallers \cup {"deadline"} : d # c => wfCopy'[d] = wfCopy[d]
           /\ wfLock' = c
           /\ wfSaid \subseteq wfSaid' /\ wfSaid' \subseteq WfActions
           /\ "host_allow" \in wfSaid' => "host_allow" \in wfSaid \/ a = "host_allow"
<1>1. /\ wfRec' = r /\ wfCopy' = [wfCopy EXCEPT ![c] = r]
      /\ wfLock' = c /\ wfSaid' = wfSaid \cup r.hist
  BY DEF Decide
<1>2. Sound(wfRec, wfRec.kind, wfSaid)
  BY DEF WfInv, Records
<1>3. Sound(r, wfRec.kind, wfSaid')
  BY <1>1 DEF Sound
<1>4. r.hist \subseteq WfActions /\ r # NoRec
  BY NoRecIsNone DEF Explained, WfRecord
<1>5. /\ wfSaid' \subseteq WfActions /\ wfSaid \subseteq wfSaid'
      /\ "host_allow" \in wfSaid' => "host_allow" \in wfSaid \/ a = "host_allow"
  BY <1>1, <1>2, <1>4, WfTypes DEF Sound, Transport
<1>6. /\ Records' /\ wfRec' \in WfRecord /\ wfRec'.kind = wfRec.kind
      /\ wfCopy' \in [WfCallers \cup {"deadline"} -> WfRecord \cup {NoRec}]
      /\ wfCopy'[c] = r
      /\ \A d \in WfCallers \cup {"deadline"} : d # c => wfCopy'[d] = wfCopy[d]
  BY <1>1, <1>3, <1>5, RecordsStep
<1> QED BY <1>1, <1>4, <1>5, <1>6

\* It writes its copy back after the response was sent, and drops it.
LEMMA EmitStep ==
    ASSUME WfInv, NEW c \in WfCallers \cup {"deadline"}, wfCopy[c] # NoRec,
           EmitResponse(c), UNCHANGED wfSaid, wfCopy' = [wfCopy EXCEPT ![c] = NoRec]
    PROVE  /\ Exists /\ Sound(wfCopy[c], wfRec.kind, wfSaid)
           /\ Records' /\ wfRec' \in WfRecord /\ wfRec'.kind = wfRec.kind
           /\ wfCopy' \in [WfCallers \cup {"deadline"} -> WfRecord \cup {NoRec}]
           /\ \A d \in WfCallers \cup {"deadline"} : d # c => wfCopy'[d] = wfCopy[d]
<1>1. Exists /\ Sound(wfCopy[c], wfRec.kind, wfSaid) /\ Sound(wfRec, wfRec.kind, wfSaid)
  BY NobodyCopies
<1>2. Sound(wfRec', wfRec.kind, wfSaid')
  <2>1. CASE wfRec' = Mutate(wfCopy[c], "transport_response", wfCopy[c].status)
    BY <1>1, <2>1, SentExplained DEF Sound, Transport
  <2>2. CASE UNCHANGED wfRec
    BY <1>1, <2>2
  <2> QED BY <2>1, <2>2 DEF EmitResponse
<1> QED BY <1>1, <1>2, RecordsStep

LEMMA RespondStep ==
    ASSUME WfInv, NEW c \in Responders, NEW a, Respond(c, a)
    PROVE  WfInv' /\ Kept /\ a \in wfSaid'
<1> DEFINE r == ApplyAction(wfRec, a)
<1>1. /\ Exists /\ wfPc[c] = "idle" /\ a \in AllowedActions(wfRec)
      /\ Decide(c, r)
      /\ wfTimer' = TimerAfter(wfRec')
      /\ wfPc' = [wfPc EXCEPT ![c] = "emit"]
      /\ UNCHANGED <<wfDue, wfHost, wfOutcome, wfAnswer, wfCrashes>>
  BY DEF Respond
<1>2. /\ Explained(r) /\ r.kind = wfRec.kind /\ r.hist = wfRec.hist \cup {a}
      /\ a \in WfActions /\ a # "host_allow"
  BY <1>1, AnswerExplained DEF WfInv, Records, Sound
<1> HIDE DEF r
<1>3. /\ Records' /\ wfRec' = r /\ wfRec' \in WfRecord /\ wfRec'.kind = wfRec.kind
      /\ wfCopy' \in [WfCallers \cup {"deadline"} -> WfRecord \cup {NoRec}]
      /\ wfCopy'[c] = r /\ r # NoRec
      /\ \A d \in WfCallers \cup {"deadline"} : d # c => wfCopy'[d] = wfCopy[d]
      /\ wfLock' = c
      /\ wfSaid \subseteq wfSaid' /\ wfSaid' \subseteq WfActions
      /\ "host_allow" \in wfSaid' => "host_allow" \in wfSaid
  BY <1>1, <1>2, WfTypes, DecideStep
<1>4. wfTimer' \in {"none", "armed"}
  BY <1>1 DEF TimerAfter
<1>5. WfTypeOK'
  BY <1>1, <1>3, <1>4, WfTypes DEF WfTypeOK, WfLockers
<1>6. Handlers'
  BY <1>1, <1>3, <1>4, WfTypes DEF WfInv, Handlers, Exists
<1>7. Verdicts'
  BY <1>1, <1>3, WfTypes DEF WfInv, Verdicts, GrantNeedsBoth
<1>8. Kept /\ a \in wfSaid'
  BY <1>1, <1>2, <1>3, WfTypes DEF Kept, Decide
<1> QED BY <1>3, <1>5, <1>6, <1>7, <1>8 DEF WfInv

LEMMA ForceCloseStep ==
    ASSUME WfInv, NEW c \in Responders, ForceClose(c)
    PROVE  WfInv' /\ Kept
<1> DEFINE r == Mutate(wfRec, "force_close", "forced_closed")
<1>1. /\ Exists /\ wfPc[c] = "idle" /\ wfRec.kind = "shutdown" /\ ~Closed(wfRec)
      /\ Decide(c, r)
      /\ wfTimer' = "none"
      /\ wfPc' = [wfPc EXCEPT ![c] = "emit"]
      /\ UNCHANGED <<wfDue, wfHost, wfOutcome, wfAnswer, wfCrashes>>
  BY DEF ForceClose
<1>2. Explained(r) /\ r.kind = wfRec.kind /\ r.hist = wfRec.hist \cup {"force_close"}
  BY <1>1, ForcedExplained DEF WfInv, Records, Sound
<1>3. "force_close" \in WfActions
  BY DEF WfActions
<1> HIDE DEF r
<1>4. /\ Records' /\ wfRec' = r /\ wfRec' \in WfRecord /\ wfRec'.kind = wfRec.kind
      /\ wfCopy' \in [WfCallers \cup {"deadline"} -> WfRecord \cup {NoRec}]
      /\ wfCopy'[c] = r /\ r # NoRec
      /\ \A d \in WfCallers \cup {"deadline"} : d # c => wfCopy'[d] = wfCopy[d]
      /\ wfLock' = c
      /\ wfSaid \subseteq wfSaid' /\ wfSaid' \subseteq WfActions
      /\ "host_allow" \in wfSaid' => "host_allow" \in wfSaid
  BY <1>1, <1>2, <1>3, WfTypes, DecideStep
<1>5. WfTypeOK'
  BY <1>1, <1>4, WfTypes DEF WfTypeOK, WfLockers
<1>6. Handlers'
  BY <1>1, <1>4, WfTypes DEF WfInv, Handlers, Exists
<1>7. Verdicts'
  BY <1>1, <1>4, WfTypes DEF WfInv, Verdicts, GrantNeedsBoth
<1>8. Kept
  BY <1>1, <1>4, WfTypes DEF Kept
<1> QED BY <1>4, <1>5, <1>6, <1>7, <1>8 DEF WfInv

\* What a waiter of a shutdown is told.
LEMMA ClosedShutdown ==
    ASSUME NEW r, Explained(r), Closed(r)
    PROVE  /\ r.status \in WfTerminal
           /\ r.kind = "shutdown" => r.status \in {"completed", "forced_closed"}
                                     /\ r.hist \cap Closing # {}
BY DEF Explained, Closed, WfTerminal, Closing

LEMMA FinishRespondStep ==
    ASSUME WfInv, NEW c \in Responders, FinishRespond(c)
    PROVE  WfInv' /\ Kept
<1> DEFINE pc == [wfPc EXCEPT ![c] = "idle"]
           r == wfCopy[c]
<1>1. /\ wfPc[c] = "emit" /\ EmitResponse(c)
      /\ \/ /\ Closed(r) /\ wfTimer' = "none" /\ Wake(r, pc)
         \/ /\ UNCHANGED <<wfTimer, wfAnswer>> /\ wfPc' = pc
      /\ wfLock' = ReleasedBy(c)
      /\ wfCopy' = [wfCopy EXCEPT ![c] = NoRec]
      /\ UNCHANGED <<wfDue, wfHost, wfOutcome, wfSaid, wfCrashes>>
  BY DEF FinishRespond
<1>2. c \in WfCallers /\ c # "requester" /\ c # "deadline" /\ wfCopy[c] # NoRec
  BY <1>1, WfTypes DEF WfInv, Handlers
<1>3. /\ Exists /\ Sound(r, wfRec.kind, wfSaid)
      /\ Records' /\ wfRec' \in WfRecord /\ wfRec'.kind = wfRec.kind
      /\ wfCopy' \in [WfCallers \cup {"deadline"} -> WfRecord \cup {NoRec}]
      /\ \A d \in WfCallers \cup {"deadline"} : d # c => wfCopy'[d] = wfCopy[d]
  BY <1>1, <1>2, EmitStep
<1>4. pc["requester"] = wfPc["requester"] /\ pc[c] = "idle"
      /\ \A d \in WfCallers : d # c => pc[d] = wfPc[d]
  BY <1>2, WfTypes
<1>5. /\ wfPc' \in [WfCallers -> {"idle", "request", "request2", "created", "poll",
                                  "ask", "record", "emit", "parked", "done", "gone"}]
      /\ wfPc'[c] = "idle"
      /\ \A d \in Responders : d # c => wfPc'[d] = wfPc[d]
      /\ wfAnswer' \in {"none"} \cup WfTerminal
      /\ wfTimer' \in {"none", wfTimer}
      /\ \/ wfPc'["requester"] = wfPc["requester"] /\ wfAnswer' = wfAnswer
         \/ /\ wfPc["requester"] = "parked" /\ wfPc'["requester"] = "done"
            /\ wfRec.kind = "shutdown" => wfAnswer' \in {"completed", "forced_closed"}
  <2>1. CASE /\ Closed(r) /\ wfTimer' = "none" /\ Wake(r, pc) /\ wfPc["requester"] = "parked"
    <3>1. wfPc' = [pc EXCEPT !["requester"] = "done"] /\ wfAnswer' = r.status
      BY <1>4, <2>1 DEF Wake
    <3>2. r.status \in WfTerminal /\ (wfRec.kind = "shutdown" => r.status \in {"completed", "forced_closed"})
      BY <1>3, <2>1, ClosedShutdown DEF Sound
    <3> HIDE DEF r
    <3> QED BY <1>2, <2>1, <3>1, <3>2, WfTypes
  <2>2. CASE wfPc' = pc /\ UNCHANGED wfAnswer /\ wfTimer' \in {"none", wfTimer}
    BY <1>2, <1>4, <2>2, WfTypes
  <2> QED BY <1>1, <1>4, <2>1, <2>2 DEF Wake
<1>6. WfTypeOK'
  BY <1>1, <1>2, <1>3, <1>5, WfTypes DEF WfTypeOK, WfLockers, ReleasedBy
<1>7. Handlers'
  BY <1>1, <1>2, <1>3, <1>5, WfTypes DEF WfInv, Handlers, WfCallers, Exists
<1>8. Verdicts'
  BY <1>1, <1>3, <1>5 DEF WfInv, Verdicts, GrantNeedsBoth
<1>9. Kept
  BY <1>1, <1>3, <1>5 DEF Kept
<1> QED BY <1>3, <1>6, <1>7, <1>8, <1>9 DEF WfInv

LEMMA PassDeadlineStep ==
    ASSUME WfInv, PassDeadline
    PROVE  WfInv' /\ Kept
BY DEF PassDeadline, WfInv, WfTypeOK, Records, Exists, Handlers, Verdicts, GrantNeedsBoth, Kept

LEMMA DeadlineFiresStep ==
    ASSUME WfInv, DeadlineFires
    PROVE  WfInv' /\ Kept
<1>1. CASE /\ wfTimer' = "none"
           /\ UNCHANGED <<wfRec, wfCopy, wfLock, wfSaid>>
           /\ UNCHANGED <<wfDue, wfPc, wfHost, wfOutcome, wfAnswer, wfCrashes>>
  BY <1>1 DEF WfInv, WfTypeOK, Records, Exists, Handlers, Verdicts, GrantNeedsBoth, Kept
<1>2. CASE /\ wfTimer = "armed" /\ ~Closed(wfRec) /\ Decide("deadline", Expired(wfRec))
           /\ wfTimer' = "emitting"
           /\ UNCHANGED <<wfDue, wfPc, wfHost, wfOutcome, wfAnswer, wfCrashes>>
  <2> DEFINE r == Expired(wfRec)
  <2>1. Exists
    BY <1>2 DEF WfInv, Records
  <2>2. /\ Explained(r) /\ r.kind = wfRec.kind /\ Closed(r)
        /\ r.hist = wfRec.hist \cup {"deadline_expired"}
    BY <1>2, <2>1, ExpiredExplained DEF WfInv, Records, Sound
  <2>3. "deadline_expired" \in WfActions
    BY DEF WfActions
  <2>4. Decide("deadline", r)
    BY <1>2
  <2> HIDE DEF r
  <2>5. /\ Records' /\ wfRec' = r /\ wfRec' \in WfRecord /\ wfRec'.kind = wfRec.kind
        /\ wfCopy' \in [WfCallers \cup {"deadline"} -> WfRecord \cup {NoRec}]
        /\ wfCopy'["deadline"] = r /\ r # NoRec
        /\ \A d \in WfCallers \cup {"deadline"} : d # "deadline" => wfCopy'[d] = wfCopy[d]
        /\ wfLock' = "deadline"
        /\ wfSaid \subseteq wfSaid' /\ wfSaid' \subseteq WfActions
        /\ "host_allow" \in wfSaid' => "host_allow" \in wfSaid
    BY <2>1, <2>2, <2>3, <2>4, DecideStep
  <2>6. WfTypeOK'
    BY <1>2, <2>5, WfTypes DEF WfTypeOK, WfLockers
  <2>7. Handlers'
    BY <1>2, <2>1, <2>2, <2>5, WfTypes DEF WfInv, Handlers, Exists
  <2>8. Verdicts'
    BY <1>2, <2>5 DEF WfInv, Verdicts, GrantNeedsBoth
  <2>9. Kept
    BY <1>2, <2>5 DEF Kept
  <2> QED BY <2>5, <2>6, <2>7, <2>8, <2>9 DEF WfInv
<1> QED BY <1>1, <1>2 DEF DeadlineFires

LEMMA DeadlineEmitsStep ==
    ASSUME WfInv, DeadlineEmits
    PROVE  WfInv' /\ Kept
<1> DEFINE r == wfCopy["deadline"]
<1>1. /\ wfTimer = "emitting" /\ EmitResponse("deadline") /\ wfTimer' = "none"
      /\ wfLock' = ReleasedBy("deadline")
      /\ wfCopy' = [wfCopy EXCEPT !["deadline"] = NoRec]
      /\ Wake(r, wfPc)
      /\ UNCHANGED <<wfDue, wfHost, wfOutcome, wfSaid, wfCrashes>>
  BY DEF DeadlineEmits
<1>2. r # NoRec /\ Closed(r)
  BY <1>1 DEF WfInv, Handlers
<1>3. /\ Exists /\ Sound(r, wfRec.kind, wfSaid)
      /\ Records' /\ wfRec' \in WfRecord /\ wfRec'.kind = wfRec.kind
      /\ wfCopy' \in [WfCallers \cup {"deadline"} -> WfRecord \cup {NoRec}]
      /\ \A d \in WfCallers \cup {"deadline"} : d # "deadline" => wfCopy'[d] = wfCopy[d]
  BY <1>1, <1>2, EmitStep
<1>4. r.status \in WfTerminal /\ (wfRec.kind = "shutdown" => r.status \in {"completed", "forced_closed"})
  BY <1>2, <1>3, ClosedShutdown DEF Sound
<1> HIDE DEF r
<1>5. /\ wfPc' \in [WfCallers -> {"idle", "request", "request2", "created", "poll",
                                  "ask", "record", "emit", "parked", "done", "gone"}]
      /\ \A d \in Responders : wfPc'[d] = wfPc[d]
      /\ wfAnswer' \in {"none"} \cup WfTerminal
      /\ \/ wfPc'["requester"] = wfPc["requester"] /\ wfAnswer' = wfAnswer
         \/ /\ wfPc["requester"] = "parked" /\ wfPc'["requester"] = "done"
            /\ wfRec.kind = "shutdown" => wfAnswer' \in {"completed", "forced_closed"}
  BY <1>1, <1>4, WfTypes DEF Wake
<1>6. WfTypeOK'
  BY <1>1, <1>3, <1>5, WfTypes DEF WfTypeOK, WfLockers, ReleasedBy
<1>7. Handlers'
  BY <1>1, <1>3, <1>5, WfTypes DEF WfInv, Handlers, WfCallers, Exists
<1>8. Verdicts'
  BY <1>1, <1>3, <1>5 DEF WfInv, Verdicts, GrantNeedsBoth
<1>9. Kept
  BY <1>1, <1>3, <1>5 DEF Kept
<1> QED BY <1>3, <1>6, <1>7, <1>8, <1>9 DEF WfInv

\* The record as a reader leaves it.
LEMMA ReadRecord ==
    ASSUME WfInv, Exists, NEW r, r = IF wfDue /\ ~Closed(wfRec) THEN Expired(wfRec) ELSE wfRec
    PROVE  /\ Explained(r) /\ r.kind = wfRec.kind /\ r.hist \subseteq WfActions
           /\ Sound(r, wfRec.kind, wfSaid \cup r.hist)
           /\ "host_allow" \in wfSaid \cup r.hist => "host_allow" \in wfSaid
<1>1. Sound(wfRec, wfRec.kind, wfSaid)
  BY DEF WfInv, Records
<1>2. CASE wfDue /\ ~Closed(wfRec)
  <2>1. /\ Explained(r) /\ r.kind = wfRec.kind /\ r.hist = wfRec.hist \cup {"deadline_expired"}
    BY <1>1, <1>2, ExpiredExplained DEF Sound
  <2> QED BY <1>1, <2>1 DEF Sound, Explained, WfRecord, Transport
<1>3. CASE r = wfRec
  BY <1>1, <1>3 DEF Sound, Explained, WfRecord, Transport
<1> QED BY <1>2, <1>3

LEMMA ObserveStep ==
    ASSUME WfInv, Observe
    PROVE  /\ WfInv' /\ Kept /\ Exists
           /\ Sound(wfRec', wfRec.kind, wfSaid')
           /\ UNCHANGED <<wfPc, wfAnswer>>
<1> DEFINE r == IF wfDue /\ ~Closed(wfRec) THEN Expired(wfRec) ELSE wfRec
<1>1. /\ Exists /\ wfRec' = r /\ wfSaid' = wfSaid \cup r.hist /\ wfTimer' = TimerAfter(r)
      /\ wfLock' = ReleasedBy("deadline")
      /\ wfCopy' = [wfCopy EXCEPT !["deadline"] = NoRec]
      /\ UNCHANGED <<wfDue, wfPc, wfHost, wfOutcome, wfAnswer, wfCrashes>>
  BY DEF Observe
<1>2. /\ Explained(r) /\ r.kind = wfRec.kind /\ r.hist \subseteq WfActions
      /\ Sound(r, wfRec.kind, wfSaid \cup r.hist)
      /\ "host_allow" \in wfSaid \cup r.hist => "host_allow" \in wfSaid
  BY <1>1, ReadRecord
<1> HIDE DEF r
<1>3. /\ Records' /\ wfRec' \in WfRecord /\ wfRec'.kind = wfRec.kind
      /\ wfCopy' \in [WfCallers \cup {"deadline"} -> WfRecord \cup {NoRec}]
      /\ wfCopy'["deadline"] = NoRec
      /\ \A d \in WfCallers \cup {"deadline"} : d # "deadline" => wfCopy'[d] = wfCopy[d]
  BY <1>1, <1>2, RecordsStep
<1>4. wfTimer' \in {"none", "armed"}
  BY <1>1 DEF TimerAfter
<1>5. WfTypeOK'
  BY <1>1, <1>2, <1>3, <1>4, WfTypes DEF WfTypeOK, WfLockers, ReleasedBy
<1>6. Handlers'
  BY <1>1, <1>3, <1>4, WfTypes DEF WfInv, Handlers, Exists
<1>7. Verdicts'
  BY <1>1, <1>2, <1>3 DEF WfInv, Verdicts, GrantNeedsBoth
<1>8. Kept
  BY <1>1, <1>3 DEF Kept
<1> QED BY <1>1, <1>2, <1>3, <1>5, <1>6, <1>7, <1>8 DEF WfInv

LEMMA AwaitTerminalStep ==
    ASSUME WfInv, AwaitTerminal
    PROVE  WfInv' /\ Kept
<1>1. /\ wfPc["requester"] = "created"
      /\ UNCHANGED <<wfRec, wfDue, wfTimer, wfLock, wfCopy, wfHost, wfOutcome, wfSaid, wfCrashes>>
      /\ \/ /\ Closed(wfRec) /\ wfPc' = [wfPc EXCEPT !["requester"] = "done"]
            /\ wfAnswer' = wfRec.status
         \/ wfPc' = [wfPc EXCEPT !["requester"] = "parked"] /\ UNCHANGED wfAnswer
  BY DEF AwaitTerminal
<1>2. /\ wfPc' \in [WfCallers -> {"idle", "request", "request2", "created", "poll",
                                  "ask", "record", "emit", "parked", "done", "gone"}]
      /\ wfPc'["requester"] \in {"done", "parked"}
      /\ \A d \in Responders : wfPc'[d] = wfPc[d]
  BY <1>1, WfTypes
<1>3. Closed(wfRec) => /\ wfRec.status \in WfTerminal
                       /\ wfRec.kind = "shutdown" => wfRec.status \in {"completed", "forced_closed"}
  BY ClosedShutdown, NoRecIsNone DEF WfInv, Records, Sound, Exists
<1>4. wfAnswer' \in {"none"} \cup WfTerminal
      /\ (wfPc'["requester"] = "done" /\ wfRec.kind = "shutdown"
            => wfAnswer' \in {"completed", "forced_closed"})
  BY <1>1, <1>3, WfTypes
<1>5. WfTypeOK'
  BY <1>1, <1>2, <1>4, WfTypes DEF WfTypeOK
<1>6. Handlers' /\ Records'
  BY <1>1, <1>2, WfTypes DEF WfInv, Handlers, Records, Exists, WfCallers
<1>7. Verdicts'
  BY <1>1, <1>2, <1>4 DEF WfInv, Verdicts, GrantNeedsBoth
<1>8. Kept
  BY <1>1 DEF Kept
<1> QED BY <1>5, <1>6, <1>7, <1>8 DEF WfInv


\* The bridge asks only before the host's consent is stored.
LEMMA NotYetAllowed ==
    ASSUME WfInv, wfPc["requester"] \in {"poll", "ask", "record"}
    PROVE  /\ Exists /\ wfRec.kind = "permission" /\ wfRec.status # "completed"
           /\ "host_allow" \notin wfSaid /\ wfOutcome = "none"
           /\ Sound(wfRec, wfRec.kind, wfSaid)
<1>1. wfRec.kind = "permission" /\ Exists /\ Sound(wfRec, wfRec.kind, wfSaid)
  BY NoRecIsNone DEF WfInv, Handlers, Records, Exists
<1>2. "host_allow" \notin wfSaid /\ wfOutcome = "none"
  BY DEF WfInv, Verdicts
<1>3. wfRec.status # "completed"
  BY <1>1, <1>2 DEF Sound, Explained, Transport
<1> QED BY <1>1, <1>2, <1>3

LEMMA BridgeResolvedStep ==
    ASSUME WfInv, BridgeResolved
    PROVE  WfInv' /\ Kept
<1>1. /\ wfPc["requester"] = "poll"
      /\ \/ wfPc' = [wfPc EXCEPT !["requester"] = "ask"] /\ UNCHANGED wfOutcome
         \/ /\ wfPc' = [wfPc EXCEPT !["requester"] = "done"]
            /\ wfOutcome' = IF wfRec.status = "completed" THEN "allow" ELSE "deny"
      /\ UNCHANGED <<wfRec, wfDue, wfTimer, wfLock, wfCopy, wfHost, wfAnswer, wfSaid, wfCrashes>>
  BY DEF BridgeResolved
<1>2. /\ Exists /\ wfRec.kind = "permission" /\ wfRec.status # "completed"
      /\ "host_allow" \notin wfSaid /\ wfOutcome = "none"
  BY <1>1, NotYetAllowed
<1>3. /\ wfPc' \in [WfCallers -> {"idle", "request", "request2", "created", "poll",
                                  "ask", "record", "emit", "parked", "done", "gone"}]
      /\ \/ wfPc'["requester"] = "ask" /\ wfOutcome' = "none"
         \/ wfPc'["requester"] = "done" /\ wfOutcome' = "deny"
      /\ \A d \in Responders : wfPc'[d] = wfPc[d]
  BY <1>1, <1>2, WfTypes
<1>4. WfTypeOK'
  BY <1>1, <1>3, WfTypes DEF WfTypeOK
<1>5. Handlers' /\ Records'
  BY <1>1, <1>2, <1>3, WfTypes DEF WfInv, Handlers, Records, Exists, WfCallers
<1>6. Verdicts'
  BY <1>1, <1>2, <1>3 DEF Verdicts, GrantNeedsBoth
<1>7. Kept
  BY <1>1, <1>2 DEF Kept
<1> QED BY <1>4, <1>5, <1>6, <1>7 DEF WfInv

LEMMA HostAnswersStep ==
    ASSUME WfInv, NEW answer \in {"allow", "deny"}, HostAnswers(answer)
    PROVE  WfInv' /\ Kept
<1>1. /\ wfPc["requester"] = "ask" /\ wfHost' = answer
      /\ wfPc' = [wfPc EXCEPT !["requester"] = "record"]
      /\ UNCHANGED <<wfRec, wfDue, wfTimer, wfLock, wfCopy, wfOutcome, wfAnswer, wfSaid, wfCrashes>>
  BY DEF HostAnswers
<1>2. /\ Exists /\ wfRec.kind = "permission"
      /\ "host_allow" \notin wfSaid /\ wfOutcome = "none"
  BY <1>1, NotYetAllowed
<1>3. /\ wfPc' \in [WfCallers -> {"idle", "request", "request2", "created", "poll",
                                  "ask", "record", "emit", "parked", "done", "gone"}]
      /\ wfPc'["requester"] = "record"
      /\ \A d \in Responders : wfPc'[d] = wfPc[d]
  BY <1>1, WfTypes
<1>4. WfTypeOK'
  BY <1>1, <1>3, WfTypes DEF WfTypeOK
<1>5. Handlers' /\ Records'
  BY <1>1, <1>2, <1>3, WfTypes DEF WfInv, Handlers, Records, Exists, WfCallers
<1>6. Verdicts'
  BY <1>1, <1>2, <1>3 DEF Verdicts, GrantNeedsBoth
<1>7. Kept
  BY <1>1, <1>2 DEF Kept
<1> QED BY <1>4, <1>5, <1>6, <1>7 DEF WfInv

LEMMA RecordHostOutcomeStep ==
    ASSUME WfInv, RecordHostOutcome
    PROVE  WfInv' /\ Kept
<1>1. /\ wfPc["requester"] = "record"
      /\ UNCHANGED <<wfDue, wfHost, wfAnswer, wfCrashes>>
  BY DEF RecordHostOutcome
<1>2. /\ Exists /\ wfRec.kind = "permission" /\ wfRec.status # "completed"
      /\ "host_allow" \notin wfSaid /\ wfOutcome = "none"
      /\ Sound(wfRec, wfRec.kind, wfSaid)
  BY <1>1, NotYetAllowed
<1>3. \/ /\ wfPc' = [wfPc EXCEPT !["requester"] = "done"] /\ wfOutcome' = "deny"
         /\ UNCHANGED <<wfRec, wfCopy, wfLock, wfTimer, wfSaid>>
      \/ /\ wfRec.status = "waiting_host"
         /\ Decide("requester", IF wfHost = "allow"
                                THEN Mutate(wfRec, "host_allow", "completed")
                                ELSE Mutate(wfRec, "host_deny", "rejected"))
         /\ wfTimer' = "none"
         /\ wfPc' = [wfPc EXCEPT !["requester"] = "emit"]
         /\ UNCHANGED wfOutcome
      \/ /\ wfPc' = [wfPc EXCEPT !["requester"] = "gone"]
         /\ UNCHANGED <<wfRec, wfCopy, wfLock, wfTimer, wfOutcome, wfSaid>>
  <2>1. Closed(wfRec) => wfRec.status # "waiting_host"
    BY DEF Closed, WfTerminal
  <2>2. CASE Closed(wfRec)
    BY <1>2, <2>1, <2>2 DEF RecordHostOutcome
  <2>3. CASE wfRec.status = "waiting_host"
    BY <2>1, <2>3 DEF RecordHostOutcome
  <2>4. CASE ~Closed(wfRec) /\ wfRec.status # "waiting_host"
    BY <2>4 DEF RecordHostOutcome
  <2> QED BY <2>2, <2>3, <2>4
<1>4. CASE /\ wfPc'["requester"] \in {"done", "gone"} /\ wfOutcome' \in {"none", "deny"}
           /\ \E place \in {"done", "gone"} : wfPc' = [wfPc EXCEPT !["requester"] = place]
           /\ UNCHANGED <<wfRec, wfCopy, wfLock, wfTimer, wfSaid>>
  <2>1. /\ wfPc' \in [WfCallers -> {"idle", "request", "request2", "created", "poll",
                                    "ask", "record", "emit", "parked", "done", "gone"}]
        /\ \A d \in Responders : wfPc'[d] = wfPc[d]
    BY <1>4, WfTypes
  <2>2. WfTypeOK'
    BY <1>1, <1>4, <2>1, WfTypes DEF WfTypeOK
  <2>3. Handlers' /\ Records'
    BY <1>2, <1>4, <2>1, WfTypes DEF WfInv, Handlers, Records, Exists, WfCallers
  <2>4. Verdicts'
    BY <1>1, <1>2, <1>4 DEF Verdicts, GrantNeedsBoth
  <2>5. Kept
    BY <1>1, <1>2, <1>4 DEF Kept
  <2> QED BY <2>2, <2>3, <2>4, <2>5 DEF WfInv
<1>5. CASE /\ wfRec.status = "waiting_host"
           /\ Decide("requester", IF wfHost = "allow"
                                  THEN Mutate(wfRec, "host_allow", "completed")
                                  ELSE Mutate(wfRec, "host_deny", "rejected"))
           /\ wfTimer' = "none"
           /\ wfPc' = [wfPc EXCEPT !["requester"] = "emit"]
           /\ UNCHANGED wfOutcome
  <2> DEFINE r == IF wfHost = "allow" THEN Mutate(wfRec, "host_allow", "completed")
                                      ELSE Mutate(wfRec, "host_deny", "rejected")
             a == IF wfHost = "allow" THEN "host_allow" ELSE "host_deny"
  <2>1. Explained(r) /\ r.kind = wfRec.kind /\ r.hist = wfRec.hist \cup {a}
    BY <1>2, <1>5, HostExplained DEF Sound
  <2>2. a \in WfActions /\ (a = "host_allow" => wfHost = "allow") /\ Decide("requester", r)
    BY <1>5 DEF WfActions
  <2> HIDE DEF r, a
  <2>3. /\ Records' /\ wfRec' = r /\ wfRec' \in WfRecord /\ wfRec'.kind = wfRec.kind
        /\ wfCopy' \in [WfCallers \cup {"deadline"} -> WfRecord \cup {NoRec}]
        /\ wfCopy'["requester"] = r /\ r # NoRec
        /\ \A d \in WfCallers \cup {"deadline"} : d # "requester" => wfCopy'[d] = wfCopy[d]
        /\ wfLock' = "requester"
        /\ wfSaid \subseteq wfSaid' /\ wfSaid' \subseteq WfActions
        /\ "host_allow" \in wfSaid' => "host_allow" \in wfSaid \/ a = "host_allow"
    BY <1>2, <2>1, <2>2, WfTypes, DecideStep
  <2>4. /\ wfPc' \in [WfCallers -> {"idle", "request", "request2", "created", "poll",
                                    "ask", "record", "emit", "parked", "done", "gone"}]
        /\ wfPc'["requester"] = "emit"
        /\ \A d \in Responders : wfPc'[d] = wfPc[d]
    BY <1>5, WfTypes
  <2>5. WfTypeOK'
    BY <1>1, <1>5, <2>3, <2>4, WfTypes DEF WfTypeOK, WfLockers
  <2>6. Handlers'
    BY <1>2, <1>5, <2>3, <2>4, WfTypes DEF WfInv, Handlers, WfCallers
  <2>7. Verdicts'
    BY <1>1, <1>2, <1>5, <2>2, <2>3, <2>4 DEF Verdicts, GrantNeedsBoth
  <2>8. Kept
    BY <1>1, <1>2, <2>3 DEF Kept
  <2> QED BY <2>3, <2>5, <2>6, <2>7, <2>8 DEF WfInv
<1> QED BY <1>2, <1>3, <1>4, <1>5, WfTypes

LEMMA FinishHostOutcomeStep ==
    ASSUME WfInv, FinishHostOutcome
    PROVE  WfInv' /\ Kept
<1> DEFINE r == wfCopy["requester"]
<1>1. /\ wfPc["requester"] = "emit" /\ EmitResponse("requester")
      /\ wfLock' = ReleasedBy("requester")
      /\ wfOutcome' = IF r.status = "completed" THEN "allow" ELSE "deny"
      /\ wfPc' = [wfPc EXCEPT !["requester"] = "done"]
      /\ wfCopy' = [wfCopy EXCEPT !["requester"] = NoRec]
      /\ UNCHANGED <<wfDue, wfTimer, wfHost, wfAnswer, wfSaid, wfCrashes>>
  BY DEF FinishHostOutcome
<1>2. r # NoRec /\ wfRec.kind = "permission"
  BY <1>1, WfTypes DEF WfInv, Handlers
<1>3. /\ Exists /\ Sound(r, wfRec.kind, wfSaid)
      /\ Records' /\ wfRec' \in WfRecord /\ wfRec'.kind = wfRec.kind
      /\ wfCopy' \in [WfCallers \cup {"deadline"} -> WfRecord \cup {NoRec}]
      /\ \A d \in WfCallers \cup {"deadline"} : d # "requester" => wfCopy'[d] = wfCopy[d]
  BY <1>1, <1>2, WfTypes, EmitStep
<1>4. r.status = "completed" => {"approve", "host_allow"} \subseteq wfSaid
  BY <1>2, <1>3 DEF Sound, Explained, Transport
<1> HIDE DEF r
<1>5. /\ wfPc' \in [WfCallers -> {"idle", "request", "request2", "created", "poll",
                                  "ask", "record", "emit", "parked", "done", "gone"}]
      /\ wfPc'["requester"] = "done"
      /\ \A d \in Responders : wfPc'[d] = wfPc[d]
  BY <1>1, WfTypes
<1>6. WfTypeOK'
  BY <1>1, <1>3, <1>5, WfTypes DEF WfTypeOK, WfLockers, ReleasedBy
<1>7. Handlers'
  BY <1>1, <1>2, <1>3, <1>5, WfTypes DEF WfInv, Handlers, WfCallers
<1>8. Verdicts'
  BY <1>1, <1>2, <1>3, <1>4, <1>5 DEF WfInv, Verdicts, GrantNeedsBoth
<1>9. Kept
  BY <1>1, <1>2, <1>3 DEF Kept
<1> QED BY <1>3, <1>6, <1>7, <1>8, <1>9 DEF WfInv

LEMMA CrashStep ==
    ASSUME WfInv, wfRec.kind = "permission", CrashAndRecover
    PROVE  WfInv' /\ Kept
<1> DEFINE r == IF wfDue /\ ~Closed(wfRec) THEN Expired(wfRec) ELSE wfRec
<1>1. /\ Exists /\ wfCrashes < WfMaxCrashes /\ wfCrashes' = wfCrashes + 1
      /\ wfRec' = r /\ wfSaid' = wfSaid \cup r.hist /\ wfTimer' = TimerAfter(r)
      /\ wfLock' = "nobody"
      /\ wfPc' = [c \in WfCallers |-> IF c = "requester" THEN "gone" ELSE "idle"]
      /\ wfCopy' = [c \in WfCallers \cup {"deadline"} |-> NoRec]
      /\ UNCHANGED <<wfDue, wfHost, wfOutcome, wfAnswer>>
  BY DEF CrashAndRecover
<1>2. /\ Explained(r) /\ r.kind = wfRec.kind /\ r.hist \subseteq WfActions
      /\ Sound(r, wfRec.kind, wfSaid \cup r.hist)
      /\ "host_allow" \in wfSaid \cup r.hist => "host_allow" \in wfSaid
  BY <1>1, ReadRecord
<1> HIDE DEF r
<1>3. /\ wfPc' \in [WfCallers -> {"idle", "request", "request2", "created", "poll",
                                  "ask", "record", "emit", "parked", "done", "gone"}]
      /\ \A c \in WfCallers : wfPc'[c] = IF c = "requester" THEN "gone" ELSE "idle"
      /\ wfCopy' \in [WfCallers \cup {"deadline"} -> WfRecord \cup {NoRec}]
      /\ \A c \in WfCallers \cup {"deadline"} : wfCopy'[c] = NoRec
  BY <1>1
<1>4. wfTimer' \in {"none", "armed"} /\ wfCrashes' \in 0..WfMaxCrashes
  BY <1>1, WfTypes, WfAssumption DEF TimerAfter
<1>5. wfRec' \in WfRecord /\ wfRec' # NoRec
  BY <1>1, <1>2, NoRecIsNone DEF Explained
<1>6. WfTypeOK'
  BY <1>1, <1>2, <1>3, <1>4, <1>5, WfTypes DEF WfTypeOK, WfLockers
<1>7. Records'
  BY <1>1, <1>2, <1>3, <1>5 DEF Records, Exists
<1>8. Handlers'
  BY <1>3, <1>4, WfTypes DEF Handlers
<1>9. Verdicts'
  BY <1>1, <1>2, <1>3, WfTypes DEF WfInv, Verdicts, GrantNeedsBoth
<1>10. Kept
  BY <1>1 DEF Kept
<1> QED BY <1>6, <1>7, <1>8, <1>9, <1>10 DEF WfInv

\* The service and the bridge, with everything but the answers.
LEMMA ServiceStep ==
    ASSUME WfInv, WfService
    PROVE  WfInv' /\ Kept
BY CreateStep, EmitRequestStep, FinishRespondStep, PassDeadlineStep, DeadlineFiresStep,
   DeadlineEmitsStep, ObserveStep, BridgeResolvedStep, HostAnswersStep, RecordHostOutcomeStep,
   FinishHostOutcomeStep
   DEF WfService, Bridge

LEMMA AnswersStep ==
    ASSUME WfInv, NEW c \in Responders, WfAnswers(c)
    PROVE  WfInv' /\ Kept
BY RespondStep, ForceCloseStep DEF WfAnswers

----
(* The removal                                                             *)

LEMMA TmTypes ==
    ASSUME TmInv
    PROVE  /\ tmState \in TmStates /\ tmWf \in BOOLEAN /\ tmBusy \in BOOLEAN
           /\ tmGraceful \in BOOLEAN /\ tmItems \in 0..TmItems
           /\ tmAt \in [Parties -> Places]
           /\ tmSeen \in [Parties -> [wf : BOOLEAN, busy : BOOLEAN]]
           /\ Parties \subseteq Responders
           /\ \A p \in Parties : p = "remover" \/ p = "worker"
BY TmAssumption DEF TmInv, TmTypeOK, Parties

LEMMA GoesTo ==
    ASSUME TmInv, NEW p \in Parties, NEW place \in Places, Goes(p, place)
    PROVE  /\ tmAt' \in [Parties -> Places] /\ tmAt'[p] = place
           /\ p = "remover" => tmAt'["worker"] = tmAt["worker"]
           /\ p = "worker" => tmAt'["remover"] = tmAt["remover"]
BY TmTypes DEF Goes, Parties

LEMMA ReadsIt ==
    ASSUME TmInv, NEW p \in Parties, NEW wf \in BOOLEAN, NEW busy \in BOOLEAN,
           Reads(p, wf, busy)
    PROVE  /\ tmSeen' \in [Parties -> [wf : BOOLEAN, busy : BOOLEAN]]
           /\ tmSeen'[p].wf = wf
           /\ p = "remover" => tmSeen'["worker"] = tmSeen["worker"]
BY TmTypes DEF Reads, Parties

\* A step of the workflow leaves the removal as it is.
LEMMA WorkflowKeeps ==
    ASSUME TmInv, Kept, UNCHANGED tmVars
    PROVE  TmInv'
<1>1. TmTypeOK'
  BY DEF TmInv, TmTypeOK, tmVars
<1>2. /\ tmWf' => wfRec'.kind = "shutdown" /\ tmState' \in {"stopping", "stopped"}
      /\ tmAt'["remover"] # "off" \/ tmAt'["worker"] \notin {"off", "loop", "run"}
           => wfRec'.kind = "shutdown"
  BY DEF TmInv, Kept, tmVars
<1>3. /\ tmAt'["remover"] = "off" =>
         /\ tmState' \in {"idle", "active"} /\ ~tmGraceful'
         /\ tmAt'["worker"] \in {"off", "loop", "run"}
         /\ tmBusy' <=> tmAt'["worker"] = "run"
      /\ tmAt'["worker"] = "run" => ~tmSeen'["worker"].wf
      /\ tmGraceful' => tmAt'["worker"] # "run" /\ tmState' \in {"stopping", "stopped", "removed"}
  BY DEF TmInv, tmVars
<1>4. /\ StoppedAfterClose'
      /\ \A p \in Parties : tmAt'[p] = "cs_write" => wfSaid' \cap Closing # {}
  BY DEF TmInv, StoppedAfterClose, Kept, tmVars
<1>5. tmAt'["remover"] = "end" =>
         /\ tmItems' = 0
         /\ wfPc'["requester"] = "done"
         /\ wfAnswer' = "completed" \/ tmAt'["worker"] = "off"
  BY DEF TmInv, Kept, tmVars
<1> QED BY <1>1, <1>2, <1>3, <1>4, <1>5 DEF TmInv

LEMMA EnsureRunnerStep ==
    ASSUME TmInv, EnsureRunner
    PROVE  TmInv'
<1>1. /\ tmAt["worker"] = "off" /\ tmItems > 0 /\ Goes("worker", "loop")
      /\ UNCHANGED <<wfVars, tmState, tmWf, tmBusy, tmItems, tmSeen, tmGraceful>>
  BY DEF EnsureRunner
<1>2. /\ tmAt' \in [Parties -> Places] /\ tmAt'["worker"] = "loop"
      /\ tmAt'["remover"] = tmAt["remover"]
  BY <1>1, GoesTo DEF Parties, Places
<1>3. TmTypeOK'
  BY <1>1, <1>2, TmTypes DEF TmTypeOK
<1> QED BY <1>1, <1>2, <1>3, TmTypes DEF TmInv, StoppedAfterClose, wfVars

LEMMA NextWorkItemStep ==
    ASSUME TmInv, NextWorkItem
    PROVE  TmInv' /\ (tmGraceful => UNCHANGED tmItems)
<1>1. /\ tmAt["worker"] = "loop" /\ tmState # "removed"
      /\ UNCHANGED wfVars /\ UNCHANGED tmGraceful
  BY DEF NextWorkItem
<1>2. CASE /\ tmState \in {"stopping", "stopped"}
           /\ Goes("worker", IF tmWf /\ ~tmBusy THEN "check" ELSE "off")
           /\ UNCHANGED <<tmState, tmWf, tmBusy, tmItems, tmSeen>>
  <2> DEFINE place == IF tmWf /\ ~tmBusy THEN "check" ELSE "off"
  <2>1. place \in {"check", "off"} /\ place \in Places /\ (place = "check" => tmWf)
    BY DEF Places
  <2> HIDE DEF place
  <2>2. Goes("worker", place)
    BY <1>2 DEF place
  <2>3. /\ tmAt' \in [Parties -> Places] /\ tmAt'["worker"] = place
        /\ tmAt'["remover"] = tmAt["remover"]
    BY <2>1, <2>2, GoesTo DEF Parties
  <2>4. TmTypeOK'
    BY <1>1, <1>2, <2>3, TmTypes DEF TmTypeOK
  <2> QED BY <1>1, <1>2, <2>1, <2>3, <2>4, TmTypes DEF TmInv, StoppedAfterClose, wfVars
<1>3. CASE /\ tmState \notin {"stopping", "stopped"}
           /\ tmItems = 0
           /\ Snapshot("idle", FALSE, FALSE)
           /\ Goes("worker", "off")
           /\ UNCHANGED <<tmItems, tmSeen>>
  <2>1. /\ tmAt' \in [Parties -> Places] /\ tmAt'["worker"] = "off"
        /\ tmAt'["remover"] = tmAt["remover"]
    BY <1>3, GoesTo DEF Parties, Places
  <2>2. TmTypeOK'
    BY <1>1, <1>3, <2>1, TmTypes DEF TmTypeOK, Snapshot, TmStates
  <2> QED BY <1>1, <1>3, <2>1, <2>2, TmTypes DEF TmInv, StoppedAfterClose, Snapshot, wfVars
<1>4. CASE /\ tmState \notin {"stopping", "stopped"}
           /\ tmItems > 0
           /\ tmItems' = tmItems - 1
           /\ Snapshot("active", tmWf, TRUE)
           /\ Reads("worker", tmWf, TRUE)
           /\ Goes("worker", "run")
  <2>1. ~tmGraceful /\ ~tmWf /\ tmAt["remover"] # "end"
    BY <1>1, <1>4, TmTypes DEF TmInv
  <2>2. /\ tmAt' \in [Parties -> Places] /\ tmAt'["worker"] = "run"
        /\ tmAt'["remover"] = tmAt["remover"]
    BY <1>4, GoesTo DEF Parties, Places
  <2>3. /\ tmSeen' \in [Parties -> [wf : BOOLEAN, busy : BOOLEAN]]
        /\ tmSeen'["worker"].wf = tmWf
    BY <1>4, ReadsIt, TmTypes DEF Parties
  <2>4. tmItems' \in 0..TmItems
    BY <1>4, TmTypes, TmAssumption
  <2>5. TmTypeOK'
    BY <1>1, <1>4, <2>2, <2>3, <2>4, TmTypes DEF TmTypeOK, Snapshot, TmStates
  <2> QED BY <1>1, <1>4, <2>1, <2>2, <2>3, <2>5, TmTypes
          DEF TmInv, StoppedAfterClose, Snapshot, wfVars
<1> QED BY <1>2, <1>3, <1>4 DEF NextWorkItem

LEMMA WorkItemEndsStep ==
    ASSUME TmInv, WorkItemEnds
    PROVE  TmInv'
<1>1. /\ tmAt["worker"] = "run" /\ ~tmSeen["worker"].wf /\ ~tmGraceful
      /\ Snapshot("idle", FALSE, FALSE)
      /\ Goes("worker", "loop") \/ Goes("worker", "off")
      /\ UNCHANGED <<wfVars, tmItems, tmSeen, tmGraceful>>
  BY DEF WorkItemEnds, TmInv
<1>2. /\ tmAt' \in [Parties -> Places] /\ tmAt'["worker"] \in {"loop", "off"}
      /\ tmAt'["remover"] = tmAt["remover"]
  BY <1>1, GoesTo DEF Parties, Places
<1>3. TmTypeOK'
  BY <1>1, <1>2, TmTypes DEF TmTypeOK, Snapshot, TmStates
<1> QED BY <1>1, <1>2, <1>3, TmTypes DEF TmInv, StoppedAfterClose, Snapshot, wfVars

\* A party that answers, or reads, moves on while the workflow is a shutdown.
LEMMA PartyMoves ==
    ASSUME TmInv, Kept, NEW p \in Parties, NEW place \in Places \ {"end", "loop", "run"},
           tmAt[p] \notin {"off", "loop", "run", "end"},
           p = "remover" => place # "off",
           place = "cs_write" => wfSaid' \cap Closing # {},
           Goes(p, place),
           UNCHANGED <<tmState, tmWf, tmBusy, tmItems, tmGraceful>>,
           tmSeen' \in [Parties -> [wf : BOOLEAN, busy : BOOLEAN]],
           p = "remover" => tmSeen'["worker"] = tmSeen["worker"]
    PROVE  TmInv'
<1>1. /\ tmAt' \in [Parties -> Places] /\ tmAt'[p] = place
      /\ p = "remover" => tmAt'["worker"] = tmAt["worker"]
      /\ p = "worker" => tmAt'["remover"] = tmAt["remover"]
  BY GoesTo
<1>2. wfRec.kind = "shutdown" /\ wfRec'.kind = "shutdown" /\ tmAt["remover"] # "off"
  BY TmTypes DEF TmInv, Kept
<1>3. TmTypeOK'
  BY <1>1, TmTypes DEF TmTypeOK
<1>4. StoppedAfterClose'
  BY DEF TmInv, Kept, StoppedAfterClose
<1>5. tmAt'["worker"] # "run" \/ (p = "remover" /\ tmAt["worker"] = "run")
  BY <1>1, TmTypes
<1>6. tmAt'["worker"] = "run" => ~tmSeen'["worker"].wf
  BY <1>1, <1>5, TmTypes DEF TmInv
<1>7. ASSUME NEW q \in Parties, tmAt'[q] = "cs_write" PROVE wfSaid' \cap Closing # {}
  <2>1. CASE q = p
    BY <1>1, <1>7, <2>1
  <2>2. CASE q # p
    BY <1>1, <1>7, <2>2, TmTypes DEF TmInv, Kept
  <2> QED BY <2>1, <2>2
<1>8. tmAt'["remover"] = "end" =>
         /\ tmItems' = 0
         /\ wfPc'["requester"] = "done"
         /\ wfAnswer' = "completed" \/ tmAt'["worker"] = "off"
  BY <1>1, <1>2, TmTypes DEF TmInv, Kept
<1> QED BY <1>1, <1>2, <1>3, <1>4, <1>5, <1>6, <1>7, <1>8, TmTypes DEF TmInv

LEMMA CompleteShutdownStep ==
    ASSUME TeamInv, NEW p \in Parties, CompleteShutdown(p)
    PROVE  TeamInv' /\ UNCHANGED tmItems
<1>1. /\ tmAt[p] = "check" /\ WfInv /\ TmInv /\ wfRec.kind = "shutdown"
      /\ UNCHANGED <<tmState, tmWf, tmBusy, tmItems, tmGraceful>>
  BY TmTypes DEF CompleteShutdown, TeamInv, TmInv
<1>2. CASE Goes(p, After(p)) /\ UNCHANGED <<wfVars, tmSeen>>
  <2>1. WfInv' /\ Kept
    BY <1>1, <1>2 DEF WfInv, WfTypeOK, Records, Exists, Handlers, Verdicts, GrantNeedsBoth,
       Kept, wfVars
  <2>2. After(p) \in Places \ {"end", "loop", "run"} /\ (p = "remover" => After(p) # "off")
        /\ After(p) # "cs_write"
    BY DEF After, Places
  <2> QED BY <1>1, <1>2, <2>1, <2>2, PartyMoves, TmTypes DEF TeamInv
<1>3. CASE /\ Observe
           /\ Reads(p, tmWf, tmBusy)
           /\ Goes(p, CASE Closed(wfRec')            -> "cs_write"
                        [] wfRec'.status = "pending" -> "cs_ack"
                        [] OTHER                     -> "cs_done")
  <2> DEFINE place == CASE Closed(wfRec')            -> "cs_write"
                        [] wfRec'.status = "pending" -> "cs_ack"
                        [] OTHER                     -> "cs_done"
  <2>1. WfInv' /\ Kept /\ Sound(wfRec', wfRec.kind, wfSaid')
    BY <1>1, <1>3, ObserveStep
  <2>2. place = IF Closed(wfRec') THEN "cs_write"
                ELSE IF wfRec'.status = "pending" THEN "cs_ack" ELSE "cs_done"
    BY DEF Closed, WfTerminal
  <2>3. Goes(p, place)
    BY <1>3
  <2> HIDE DEF place
  <2>4. place \in Places \ {"end", "loop", "run"} /\ place # "off"
    BY <2>2 DEF Places
  <2>5. place = "cs_write" => wfSaid' \cap Closing # {}
    BY <1>1, <2>1, <2>2, ClosedShutdown DEF Sound, Transport, Closing
  <2>6. /\ tmSeen' \in [Parties -> [wf : BOOLEAN, busy : BOOLEAN]]
        /\ p = "remover" => tmSeen'["worker"] = tmSeen["worker"]
    BY <1>1, <1>3, ReadsIt, TmTypes
  <2> QED BY <1>1, <2>1, <2>3, <2>4, <2>5, <2>6, PartyMoves DEF TeamInv
<1> QED BY <1>2, <1>3 DEF CompleteShutdown

LEMMA AnswerStep ==
    ASSUME TeamInv, NEW p \in Parties, Answer(p)
    PROVE  TeamInv' /\ UNCHANGED tmItems
<1> DEFINE place == CASE tmAt[p] = "ack"     -> "check"
                      [] tmAt[p] = "cs_ack"  -> "cs_done"
                      [] tmAt[p] = "cs_done" -> "cs_write"
<1>1. /\ tmAt[p] \in {"ack", "cs_ack", "cs_done"} /\ WfInv /\ TmInv
      /\ Respond(p, ActionOf(tmAt[p])) /\ Goes(p, place)
      /\ UNCHANGED <<tmState, tmWf, tmBusy, tmItems, tmSeen, tmGraceful>>
  BY DEF Answer, TeamInv
<1>2. WfInv' /\ Kept /\ ActionOf(tmAt[p]) \in wfSaid'
  BY <1>1, RespondStep, TmTypes
<1>3. /\ place \in Places \ {"end", "loop", "run"} /\ place # "off"
      /\ place = "cs_write" => ActionOf(tmAt[p]) = "complete"
  BY <1>1 DEF ActionOf, Places
<1> HIDE DEF place
<1>4. place = "cs_write" => wfSaid' \cap Closing # {}
  BY <1>2, <1>3 DEF Closing
<1> QED BY <1>1, <1>2, <1>3, <1>4, TmTypes, PartyMoves DEF TeamInv

LEMMA QuietWorkflow ==
    ASSUME WfInv, UNCHANGED wfVars
    PROVE  WfInv' /\ Kept
BY DEF WfInv, WfTypeOK, Records, Exists, Handlers, Verdicts, GrantNeedsBoth, Kept, wfVars

LEMMA AnswerRefusedStep ==
    ASSUME TeamInv, NEW p \in Parties, AnswerRefused(p)
    PROVE  TeamInv' /\ UNCHANGED tmItems
<1> DEFINE place == IF p = "remover" THEN "failed" ELSE "off"
<1>1. /\ tmAt[p] \in {"ack", "cs_ack", "cs_done"} /\ WfInv /\ TmInv /\ Goes(p, place)
      /\ UNCHANGED <<wfVars, tmState, tmWf, tmBusy, tmItems, tmSeen, tmGraceful>>
  BY DEF AnswerRefused, TeamInv
<1>2. place \in Places \ {"end", "loop", "run"} /\ (p = "remover" => place # "off")
      /\ place # "cs_write"
  BY DEF Places
<1> HIDE DEF place
<1> QED BY <1>1, <1>2, TmTypes, QuietWorkflow, PartyMoves DEF TeamInv

LEMMA WriteStoppedStep ==
    ASSUME TeamInv, NEW p \in Parties, WriteStopped(p)
    PROVE  TeamInv' /\ UNCHANGED tmItems
<1>1. /\ tmAt[p] = "cs_write" /\ WfInv /\ TmInv
      /\ Snapshot("stopped", tmSeen[p].wf, FALSE) /\ Goes(p, After(p))
      /\ UNCHANGED <<wfVars, tmItems, tmSeen, tmGraceful>>
  BY DEF WriteStopped, TeamInv
<1>2. After(p) = (IF p = "remover" THEN "wait" ELSE "off") /\ After(p) \in Places
  BY DEF After, Places
<1>3. /\ tmAt' \in [Parties -> Places] /\ tmAt'[p] = After(p)
      /\ p = "remover" => tmAt'["worker"] = tmAt["worker"]
      /\ p = "worker" => tmAt'["remover"] = tmAt["remover"]
  BY <1>1, <1>2, GoesTo
<1>4. wfRec.kind = "shutdown" /\ wfSaid \cap Closing # {} /\ tmAt["remover"] # "off"
  BY <1>1, TmTypes DEF TmInv
<1>5. TmTypeOK'
  BY <1>1, <1>3, TmTypes DEF TmTypeOK, Snapshot, TmStates
<1>6. StoppedAfterClose'
  BY <1>1, <1>4 DEF StoppedAfterClose, Closing, wfVars
<1>7. ASSUME NEW q \in Parties, tmAt'[q] = "cs_write" PROVE wfSaid' \cap Closing # {}
  BY <1>1, <1>4 DEF wfVars
<1>8. tmAt'["worker"] = "run" => p = "remover" /\ tmAt["worker"] = "run"
  BY <1>1, <1>2, <1>3, TmTypes
<1>9. tmAt'["remover"] = "end" =>
         /\ tmItems' = 0
         /\ wfPc'["requester"] = "done"
         /\ wfAnswer' = "completed" \/ tmAt'["worker"] = "off"
  BY <1>1, <1>2, <1>3, TmTypes DEF TmInv, wfVars
<1>10. tmAt'["remover"] # "off"
  BY <1>1, <1>2, <1>3, <1>4, TmTypes
<1>11. /\ tmWf' => wfRec'.kind = "shutdown" /\ tmState' \in {"stopping", "stopped"}
       /\ wfRec'.kind = "shutdown"
       /\ tmAt'["worker"] = "run" => ~tmSeen'["worker"].wf
       /\ tmGraceful' => tmAt'["worker"] # "run" /\ tmState' \in {"stopping", "stopped", "removed"}
  BY <1>1, <1>4, <1>8 DEF Snapshot, TmInv, wfVars
<1>12. TmInv'
  BY <1>5, <1>6, <1>7, <1>9, <1>10, <1>11 DEF TmInv
<1> QED BY <1>1, <1>12, QuietWorkflow DEF TeamInv

LEMMA BeginShutdownStep ==
    ASSUME TeamInv, BeginShutdown
    PROVE  TeamInv' /\ UNCHANGED tmItems
<1> DEFINE place == IF wfRec'.status = "pending" THEN "ack" ELSE "check"
<1>1. /\ tmAt["remover"] = "off" /\ wfRec.kind = "shutdown" /\ WfInv /\ TmInv
      /\ Snapshot("stopping", TRUE, tmBusy)
      /\ Reads("remover", TRUE, tmBusy)
      /\ tmGraceful' = ~tmBusy
      /\ Observe /\ Goes("remover", place)
      /\ UNCHANGED tmItems
  BY DEF BeginShutdown, TeamInv
<1>2. place \in {"ack", "check"} /\ place \in Places
  BY DEF Places
<1> HIDE DEF place
<1>3. WfInv' /\ Kept
  BY <1>1, ObserveStep
<1>4. /\ tmAt' \in [Parties -> Places] /\ tmAt'["remover"] = place
      /\ tmAt'["worker"] = tmAt["worker"]
  BY <1>1, <1>2, GoesTo DEF Parties
<1>5. /\ tmSeen' \in [Parties -> [wf : BOOLEAN, busy : BOOLEAN]]
      /\ tmSeen'["worker"] = tmSeen["worker"]
  BY <1>1, ReadsIt, TmTypes DEF Parties
<1>6. TmTypeOK'
  BY <1>1, <1>4, <1>5, TmTypes DEF TmTypeOK, Snapshot, TmStates
<1>7. /\ tmAt["worker"] \in {"off", "loop", "run"}
      /\ tmBusy <=> tmAt["worker"] = "run"
      /\ tmAt["worker"] = "run" => ~tmSeen["worker"].wf
      /\ wfRec'.kind = "shutdown"
  BY <1>1, <1>3 DEF TmInv, Kept
<1>8. /\ StoppedAfterClose'
      /\ \A q \in Parties : tmAt'[q] # "cs_write"
  BY <1>1, <1>2, <1>4, <1>7, TmTypes DEF StoppedAfterClose, Snapshot
<1>9. TmInv'
  BY <1>1, <1>2, <1>4, <1>5, <1>6, <1>7, <1>8 DEF TmInv, Snapshot
<1> QED BY <1>1, <1>3, <1>9 DEF TeamInv

LEMMA RemoveTeammateStep ==
    ASSUME TeamInv, RemoveTeammate
    PROVE  TeamInv' /\ tmState' = "removed"
<1>1. /\ tmAt["remover"] = "wait" /\ wfPc["requester"] = "done" /\ WfInv /\ TmInv
      /\ Snapshot("removed", FALSE, FALSE) /\ tmItems' = 0
      /\ tmAt' = [p \in Parties |->
                    IF p = "remover" THEN "end"
                    ELSE IF wfAnswer \in {"forced_closed", "timed_out"} THEN "off"
                    ELSE tmAt[p]]
      /\ UNCHANGED <<wfVars, tmSeen, tmGraceful>>
  BY DEF RemoveTeammate, TeamInv
<1>2. wfRec.kind = "shutdown" /\ wfAnswer \in {"completed", "forced_closed"}
  BY <1>1 DEF TmInv, WfInv, Verdicts
<1>3. /\ tmAt'["remover"] = "end"
      /\ tmAt'["worker"] = IF wfAnswer = "completed" THEN tmAt["worker"] ELSE "off"
  BY <1>1, <1>2 DEF Parties
<1>4. tmAt' \in [Parties -> Places]
  <2>1. \A p \in Parties : tmAt'[p] \in Places
    BY <1>3, TmTypes, <1>1 DEF Places, Parties
  <2> QED BY <1>1, <2>1
<1>5. TmTypeOK'
  <2>1. tmItems' \in 0..TmItems
    BY <1>1, TmAssumption
  <2> QED BY <1>1, <1>4, <2>1, TmTypes DEF TmTypeOK, Snapshot, TmStates
<1>6. /\ StoppedAfterClose'
      /\ \A q \in Parties : tmAt'[q] = "cs_write" => wfSaid' \cap Closing # {}
  BY <1>1, <1>3, TmTypes DEF TmInv, StoppedAfterClose, Snapshot, wfVars
<1>7. /\ ~tmWf' /\ wfRec'.kind = "shutdown"
      /\ tmAt'["worker"] = "run" => ~tmSeen'["worker"].wf
      /\ tmGraceful' => tmAt'["worker"] # "run" /\ tmState' = "removed"
      /\ tmItems' = 0 /\ wfPc'["requester"] = "done"
      /\ wfAnswer' = "completed" \/ tmAt'["worker"] = "off"
  BY <1>1, <1>2, <1>3 DEF TmInv, Snapshot, wfVars
<1>8. TmInv'
  BY <1>3, <1>5, <1>6, <1>7 DEF TmInv
<1> QED BY <1>1, <1>8, QuietWorkflow DEF TeamInv, Snapshot

----
(* The theorems                                                            *)

\* A removed teammate keeps nothing; one that was told to stop takes nothing.
Idles == tmGraceful /\ tmState # "removed" => tmItems' = tmItems \/ tmState' = "removed"

LEMMA PartyStep ==
    ASSUME TeamInv, NEW p \in Parties, Party(p)
    PROVE  TeamInv' /\ UNCHANGED tmItems
<1>1. CASE FinishRespond(p) /\ UNCHANGED tmVars
  BY <1>1, TmTypes, FinishRespondStep, WorkflowKeeps DEF TeamInv, tmVars
<1> QED BY <1>1, CompleteShutdownStep, AnswerStep, AnswerRefusedStep, WriteStoppedStep DEF Party

LEMMA TeamStep ==
    ASSUME TeamInv, TeamNext
    PROVE  TeamInv' /\ Idles
<1>1. CASE UNCHANGED tmVars /\ WfInv' /\ Kept
  BY <1>1, WorkflowKeeps DEF TeamInv, Idles, tmVars
<1>2. CASE WfService /\ UNCHANGED tmVars
  BY <1>1, <1>2, ServiceStep DEF TeamInv
<1>3. CASE \E c \in Responders \ Parties : WfAnswers(c) /\ UNCHANGED tmVars
  BY <1>1, <1>3, AnswersStep DEF TeamInv
<1>4. CASE wfRec.kind = "permission" /\ CrashAndRecover /\ UNCHANGED tmVars
  BY <1>1, <1>4, CrashStep DEF TeamInv
<1>5. CASE EnsureRunner
  BY <1>5, EnsureRunnerStep, QuietWorkflow DEF TeamInv, EnsureRunner, Idles
<1>6. CASE NextWorkItem
  BY <1>6, NextWorkItemStep, QuietWorkflow DEF TeamInv, NextWorkItem, Idles
<1>7. CASE WorkItemEnds
  BY <1>7, WorkItemEndsStep, QuietWorkflow DEF TeamInv, WorkItemEnds, Idles
<1>8. CASE \E p \in Parties : Party(p)
  BY <1>8, PartyStep DEF Idles
<1>9. CASE BeginShutdown
  BY <1>9, BeginShutdownStep DEF Idles
<1>10. CASE WaitForTerminal
  BY <1>1, <1>10, AwaitTerminalStep DEF TeamInv, WaitForTerminal
<1>11. CASE RemoveTeammate
  BY <1>11, RemoveTeammateStep DEF Idles
<1> QED BY <1>2, <1>3, <1>4, <1>5, <1>6, <1>7, <1>8, <1>9, <1>10, <1>11 DEF TeamNext, RemoveMember

LEMMA TeamInit == TmInit => TeamInv
<1> SUFFICES ASSUME TmInit PROVE TeamInv
  OBVIOUS
<1>1. WfInit
  BY DEF TmInit
<1>2. TmTypeOK
  <2>1. tmItems \in 0..TmItems
    BY TmAssumption DEF TmInit
  <2>2. /\ tmAt \in [Parties -> Places]
        /\ tmSeen \in [Parties -> [wf : BOOLEAN, busy : BOOLEAN]]
    BY DEF TmInit, Places
  <2> QED BY <2>1, <2>2 DEF TmInit, TmTypeOK, TmStates
<1>3. TmInv
  BY <1>2 DEF TmInit, TmInv, StoppedAfterClose, Parties
<1> QED BY <1>1, <1>3, WfInitInv DEF TeamInv

\* The invariant is inductive: whatever a handler kept over an await, the
\* service, the removal and the drain loop leave it true.
THEOREM TeamInductive == TeamSpec => []TeamInv
<1>1. TeamInv /\ UNCHANGED teamVars => TeamInv'
  <2> SUFFICES ASSUME TeamInv, UNCHANGED teamVars PROVE TeamInv'
    OBVIOUS
  <2> QED BY QuietWorkflow, WorkflowKeeps DEF TeamInv, teamVars
<1>2. TeamInv /\ [TeamNext]_teamVars => TeamInv'
  BY <1>1, TeamStep
<1> QED BY TeamInit, <1>2, PTL DEF TeamSpec

\* Whoever answers, reads, closes or forces the workflow of a teammate's
\* permission or removal (team_workflows.py, team_control_plane.py), the grant
\* had both consents, the history explains the status, and a teammate that is
\* stopped or gone was asked to and runs nothing.
THEOREM TeamSafety == TeamSpec => []TeamSafe
<1>1. TeamInv => TeamSafe
  <2> SUFFICES ASSUME TeamInv PROVE TeamSafe
    OBVIOUS
  <2>1. HistoryExplainsStatus
    <3>1. SUFFICES ASSUME Exists
                   PROVE  /\ wfRec.status = "waiting_host" => "approve" \in wfRec.hist
                          /\ wfRec.kind = "permission" /\ wfRec.status = "completed"
                               => {"approve", "host_allow"} \subseteq wfRec.hist
                          /\ wfRec.kind = "permission" /\ wfRec.status # "completed"
                               => "host_allow" \notin wfRec.hist
                          /\ Closed(wfRec) =>
                               wfRec.hist \ {"transport_request", "acknowledge", "approve"} # {}
      BY DEF HistoryExplainsStatus
    <3>2. Explained(wfRec)
      BY <3>1 DEF TeamInv, WfInv, Records, Sound
    <3>3. wfRec.kind \in {"permission", "shutdown"}
      BY <3>2 DEF Explained, WfRecord, WfKinds
    <3>4. Closed(wfRec) => wfRec.hist \cap {"complete", "force_close", "deadline_expired",
                                            "host_allow", "reject", "host_deny"} # {}
      BY <3>2, <3>3 DEF Explained, Closed, WfTerminal
    <3> QED BY <3>2, <3>3, <3>4 DEF Explained
  <2>2. ForcedOutIsQuiet
    BY DEF TeamInv, TmInv, ForcedOutIsQuiet
  <2> QED BY <2>1, <2>2 DEF TeamInv, WfInv, TmInv, Verdicts, TeamSafe
<1> QED BY TeamInductive, <1>1, PTL

\* A teammate that had nothing attached when remove_member marked it stopping
\* takes no work item any more, although its drain loop runs beside the removal.
THEOREM IdleStops == TeamSpec => IdleStopsAtOnce
<1>1. TeamInv /\ [TeamNext]_teamVars => [Idles]_teamVars
  BY TeamStep
<1> QED BY TeamInductive, <1>1, PTL DEF TeamSpec, IdleStopsAtOnce, Idles
====
