-------------------------- MODULE TrackerQueueProofs --------------------------
(***************************************************************************)
(* Safety of the tracker's queue for every capacity, batch size, number of *)
(* attempts and number of events.  The handlers are functions of the       *)
(* tracker's state, so the proof is about a state t: Sound(t) is the       *)
(* inductive invariant, Resting(t) what holds where flush() looks at the   *)
(* queue without a batch in its hands, and each function is shown to take  *)
(* one to the other.                                                       *)
(***************************************************************************)
EXTENDS TrackerQueue, SequenceTheorems, TLAPS

\* The events of s are increasing and lie after lo, up to hi.
Window(s, lo, hi) ==
    /\ Increasing(s)
    /\ \A i \in 1 .. Len(s) : lo < s[i] /\ s[i] <= hi

Total(q, b, s, d, r, h) == q + b + s + d + r + h
Counted(t) == t.made = Total(Len(t.queue), Len(t.batch), t.sent, t.dropped, t.refused, t.thrown)

Resting(t) ==
    /\ t \in Tracker
    /\ t.batch = <<>>
    /\ Counted(t)
    /\ t.answered <= t.made
    /\ Window(t.queue, t.answered, t.made)
    /\ Len(t.queue) <= MaxQueue

Sound(t) ==
    /\ t \in Tracker
    /\ t.pc = "wait" => t.attempt < Attempts
    /\ Counted(t)
    /\ t.answered <= t.made
    /\ Window(t.batch \o t.queue, t.answered, t.made)
    /\ Len(t.queue) <= MaxQueue
    /\ Len(t.batch) <= MaxBatch
    /\ t.pc = "idle" <=> t.batch = <<>>
    /\ t.destroyed /\ t.pc = "idle" /\ t.thrown = 0 => t.queue = <<>>

-----------------------------------------------------------------------------
\* Windows of sequences.

\* A sequence that picks elements of another one in order inherits its window.
LEMMA WindowPick ==
    ASSUME NEW s \in Seq(Nat), NEW u \in Seq(Nat), NEW lo \in Nat, NEW hi \in Nat, Window(s, lo, hi),
           NEW f \in [1 .. Len(u) -> 1 .. Len(s)],
           \A i, j \in 1 .. Len(u) : i < j => f[i] < f[j],
           \A i \in 1 .. Len(u) : u[i] = s[f[i]]
    PROVE  Window(u, lo, hi)
<1>1. ASSUME NEW i \in 1 .. Len(u), NEW j \in 1 .. Len(u), i < j
      PROVE  u[i] < u[j]
  <2>1. f[i] < f[j] /\ f[i] \in 1 .. Len(s) /\ f[j] \in 1 .. Len(s)
    BY <1>1
  <2>2. s[f[i]] < s[f[j]]
    BY <2>1 DEF Window, Increasing
  <2> QED
    BY <2>2
<1>2. \A i \in 1 .. Len(u) : lo < u[i] /\ u[i] <= hi
  BY DEF Window
<1> QED
  BY <1>1, <1>2 DEF Window, Increasing

LEMMA WindowPrefix ==
    ASSUME NEW s \in Seq(Nat), NEW lo \in Nat, NEW hi \in Nat, Window(s, lo, hi), NEW n \in 0 .. Len(s)
    PROVE  /\ SubSeq(s, 1, n) \in Seq(Nat)
           /\ Len(SubSeq(s, 1, n)) = n
           /\ Window(SubSeq(s, 1, n), lo, hi)
<1>1. \A i \in 1 .. n : s[i] \in Nat
  BY ElementOfSeq
<1>2. /\ SubSeq(s, 1, n) \in Seq(Nat)
      /\ Len(SubSeq(s, 1, n)) = n
      /\ \A i \in 1 .. n : SubSeq(s, 1, n)[i] = s[i]
  BY <1>1, SubSeqProperties
<1> DEFINE f == [i \in 1 .. n |-> i]
<1>3. /\ f \in [1 .. Len(SubSeq(s, 1, n)) -> 1 .. Len(s)]
      /\ \A i, j \in 1 .. Len(SubSeq(s, 1, n)) : i < j => f[i] < f[j]
      /\ \A i \in 1 .. Len(SubSeq(s, 1, n)) : SubSeq(s, 1, n)[i] = s[f[i]]
  BY <1>2
<1>4. Window(SubSeq(s, 1, n), lo, hi)
  <2> HIDE DEF f
  <2> QED
    BY <1>2, <1>3, WindowPick
<1> QED
  BY <1>2, <1>4

LEMMA WindowRest ==
    ASSUME NEW s \in Seq(Nat), NEW lo \in Nat, NEW hi \in Nat, Window(s, lo, hi), NEW n \in 0 .. Len(s)
    PROVE  /\ Rest(s, n) \in Seq(Nat)
           /\ Len(Rest(s, n)) = Len(s) - n
           /\ Window(Rest(s, n), lo, hi)
           /\ n > 0 => Window(Rest(s, n), s[n], hi)
<1>1. \A i \in 1 .. Len(s) : s[i] \in Nat
  BY ElementOfSeq
<1>2. /\ Rest(s, n) \in Seq(Nat)
      /\ Len(Rest(s, n)) = Len(s) - n
      /\ \A i \in 1 .. Len(s) - n : Rest(s, n)[i] = s[n + i]
  BY <1>1, SubSeqProperties DEF Rest
<1> DEFINE f == [i \in 1 .. Len(Rest(s, n)) |-> n + i]
<1>3. /\ f \in [1 .. Len(Rest(s, n)) -> 1 .. Len(s)]
      /\ \A i, j \in 1 .. Len(Rest(s, n)) : i < j => f[i] < f[j]
      /\ \A i \in 1 .. Len(Rest(s, n)) : Rest(s, n)[i] = s[f[i]]
  BY <1>2, SMTT(30)
<1>4. Window(Rest(s, n), lo, hi)
  <2> HIDE DEF f
  <2> QED
    BY <1>2, <1>3, WindowPick
<1>5. ASSUME n > 0, NEW i \in 1 .. Len(Rest(s, n))
      PROVE  s[n] < Rest(s, n)[i]
  <2>1. n \in 1 .. Len(s) /\ n + i \in 1 .. Len(s) /\ n < n + i /\ Rest(s, n)[i] = s[n + i]
    BY <1>2, <1>5, SMTT(30)
  <2> QED
    BY <2>1 DEF Window, Increasing
<1> QED
  BY <1>2, <1>4, <1>5 DEF Window

LEMMA WindowAppend ==
    ASSUME NEW s \in Seq(Nat), NEW lo \in Nat, NEW hi \in Nat, Window(s, lo, hi), lo <= hi
    PROVE  /\ Append(s, hi + 1) \in Seq(Nat)
           /\ Len(Append(s, hi + 1)) = Len(s) + 1
           /\ Window(Append(s, hi + 1), lo, hi + 1)
<1>1. \A i \in 1 .. Len(s) : s[i] \in Nat
  BY ElementOfSeq
<1>2. /\ Append(s, hi + 1) \in Seq(Nat)
      /\ Len(Append(s, hi + 1)) = Len(s) + 1
      /\ \A i \in 1 .. Len(s) + 1 : Append(s, hi + 1)[i] = IF i = Len(s) + 1 THEN hi + 1 ELSE s[i]
  BY AppendProperties
<1>3. \A i \in 1 .. Len(s) : Append(s, hi + 1)[i] = s[i]
  BY <1>2
<1>4. ASSUME NEW i \in 1 .. Len(s) + 1, NEW j \in 1 .. Len(s) + 1, i < j
      PROVE  Append(s, hi + 1)[i] < Append(s, hi + 1)[j]
  <2>1. i \in 1 .. Len(s) /\ s[i] <= hi /\ Append(s, hi + 1)[i] = s[i]
    BY <1>3, <1>4 DEF Window
  <2>2. CASE j = Len(s) + 1
    BY <1>1, <1>2, <2>1, <2>2
  <2>3. CASE j # Len(s) + 1
    <3>1. j \in 1 .. Len(s) /\ Append(s, hi + 1)[j] = s[j]
      BY <1>3, <2>3
    <3> QED
      BY <1>4, <2>1, <3>1 DEF Window, Increasing
  <2> QED
    BY <2>2, <2>3
<1>5. ASSUME NEW i \in 1 .. Len(s) + 1
      PROVE  lo < Append(s, hi + 1)[i] /\ Append(s, hi + 1)[i] <= hi + 1
  <2>1. CASE i = Len(s) + 1
    BY <1>2, <2>1
  <2>2. CASE i # Len(s) + 1
    <3>1. i \in 1 .. Len(s) /\ Append(s, hi + 1)[i] = s[i] /\ lo < s[i] /\ s[i] <= hi
      BY <1>3, <2>2 DEF Window
    <3> QED
      BY <1>1, <3>1
  <2> QED
    BY <2>1, <2>2
<1> QED
  BY <1>2, <1>4, <1>5 DEF Window, Increasing

\* Losing the first element of the queue behind a batch.
LEMMA WindowTail ==
    ASSUME NEW b \in Seq(Nat), NEW q \in Seq(Nat), NEW lo \in Nat, NEW hi \in Nat,
           Window(b \o q, lo, hi), q # <<>>
    PROVE  Tail(q) \in Seq(Nat) /\ Len(Tail(q)) = Len(q) - 1 /\ Window(b \o Tail(q), lo, hi)
<1>1. /\ Tail(q) \in Seq(Nat)
      /\ Len(Tail(q)) = Len(q) - 1
      /\ \A i \in 1 .. Len(q) - 1 : Tail(q)[i] = q[i + 1]
  BY HeadTailProperties
<1>2. /\ Len(b \o q) = Len(b) + Len(q)
      /\ \A i \in 1 .. Len(b) + Len(q) : (b \o q)[i] = IF i <= Len(b) THEN b[i] ELSE q[i - Len(b)]
  BY ConcatProperties
<1>3. /\ Len(b \o Tail(q)) = Len(b) + Len(q) - 1
      /\ \A i \in 1 .. Len(b) + Len(q) - 1 :
            (b \o Tail(q))[i] = IF i <= Len(b) THEN b[i] ELSE Tail(q)[i - Len(b)]
  BY <1>1, ConcatProperties
<1>4. Len(b) \in Nat /\ Len(q) \in Nat
  OBVIOUS
<1>5. \A i \in 1 .. Len(b) + Len(q) - 1 :
          (b \o Tail(q))[i] = IF i <= Len(b) THEN (b \o q)[i] ELSE (b \o q)[i + 1]
  <2> TAKE i \in 1 .. Len(b) + Len(q) - 1
  <2>1. CASE i <= Len(b)
    BY <2>1, <1>2, <1>3, <1>4
  <2>2. CASE i > Len(b)
    <3>1. i - Len(b) \in 1 .. Len(q) - 1 /\ i + 1 \in 1 .. Len(b) + Len(q) /\ ~(i + 1 <= Len(b))
      BY <2>2, <1>4
    <3>2. Tail(q)[i - Len(b)] = q[i - Len(b) + 1]
      BY <3>1, <1>1
    <3>3. (b \o q)[i + 1] = q[i + 1 - Len(b)]
      BY <3>1, <1>2
    <3>4. i + 1 - Len(b) = i - Len(b) + 1
      BY <1>4
    <3> QED
      BY <2>2, <3>2, <3>3, <3>4, <1>3, <1>4
  <2> QED
    BY <2>1, <2>2, <1>4
<1>6. b \o q \in Seq(Nat) /\ b \o Tail(q) \in Seq(Nat)
  BY <1>1, ConcatProperties
<1> DEFINE u == b \o Tail(q)
           f == [i \in 1 .. Len(u) |-> IF i <= Len(b) THEN i ELSE i + 1]
<1>7. /\ f \in [1 .. Len(u) -> 1 .. Len(b \o q)]
      /\ \A i, j \in 1 .. Len(u) : i < j => f[i] < f[j]
      /\ \A i \in 1 .. Len(u) : u[i] = (b \o q)[f[i]]
  <2>1. Len(u) = Len(b) + Len(q) - 1 /\ Len(b \o q) = Len(b) + Len(q)
    BY <1>2, <1>3
  <2>2. \A i \in 1 .. Len(u) : u[i] = IF i <= Len(b) THEN (b \o q)[i] ELSE (b \o q)[i + 1]
    BY <1>5, <2>1
  <2> HIDE DEF u
  <2>3. f \in [1 .. Len(u) -> 1 .. Len(b \o q)]
    BY <1>4, <2>1
  <2>4. \A i, j \in 1 .. Len(u) : i < j => f[i] < f[j]
    BY <1>4, <2>1
  <2>5. \A i \in 1 .. Len(u) : u[i] = (b \o q)[f[i]]
    BY <2>2
  <2> QED
    BY <2>3, <2>4, <2>5
<1>8. Window(u, lo, hi)
  <2> HIDE DEF f
  <2> QED
    BY <1>6, <1>7, WindowPick
<1> QED
  BY <1>1, <1>8

\* What is behind an answered batch is younger than the batch.
LEMMA WindowBehind ==
    ASSUME NEW b \in Seq(Nat), NEW q \in Seq(Nat), NEW lo \in Nat, NEW hi \in Nat,
           Window(b \o q, lo, hi), b # <<>>
    PROVE  b[Len(b)] \in Nat /\ b[Len(b)] <= hi /\ Window(q, b[Len(b)], hi)
<1>1. Len(b) \in Nat \ {0} /\ Len(q) \in Nat
  BY EmptySeq
<1>2. /\ Len(b \o q) = Len(b) + Len(q)
      /\ \A i \in 1 .. Len(b) + Len(q) : (b \o q)[i] = IF i <= Len(b) THEN b[i] ELSE q[i - Len(b)]
  BY ConcatProperties
<1>3. b[Len(b)] \in Nat
  BY <1>1, ElementOfSeq
<1>4. (b \o q)[Len(b)] = b[Len(b)]
  BY <1>1, <1>2
<1>5. \A i \in 1 .. Len(q) : q[i] = (b \o q)[Len(b) + i]
  <2> TAKE i \in 1 .. Len(q)
  <2>1. Len(b) + i \in 1 .. Len(b) + Len(q) /\ ~(Len(b) + i <= Len(b)) /\ Len(b) + i - Len(b) = i
    BY <1>1
  <2> QED
    BY <2>1, <1>2
<1>6. /\ Len(b) \in 1 .. Len(b \o q)
      /\ \A i \in 1 .. Len(q) : Len(b) + i \in 1 .. Len(b \o q) /\ Len(b) < Len(b) + i
  BY <1>1, <1>2
<1>7. b \o q \in Seq(Nat)
  BY ConcatProperties
<1>8. ASSUME NEW i \in 1 .. Len(q), NEW j \in 1 .. Len(q), i < j
      PROVE  q[i] < q[j]
  <2>1. Len(b) + i < Len(b) + j
    BY <1>1, <1>8
  <2> QED
    BY <2>1, <1>5, <1>6 DEF Window, Increasing
<1>9. \A i \in 1 .. Len(q) : b[Len(b)] < q[i] /\ q[i] <= hi
  BY <1>4, <1>5, <1>6 DEF Window, Increasing
<1>10. b[Len(b)] <= hi
  BY <1>4, <1>6 DEF Window
<1> QED
  BY <1>3, <1>8, <1>9, <1>10 DEF Window, Increasing

LEMMA Split ==
    ASSUME NEW s \in Seq(Nat), NEW n \in 1 .. Len(s)
    PROVE  SubSeq(s, 1, n) \o Rest(s, n) = s
<1>1. Len(s) \in Nat
  OBVIOUS
<1>2. /\ 1 \in 1 .. Len(s) + 1 /\ n \in 1 - 1 .. Len(s) /\ Len(s) \in n .. Len(s)
  BY <1>1
<1>3. SubSeq(s, 1, n) \o SubSeq(s, n + 1, Len(s)) = SubSeq(s, 1, Len(s))
  BY <1>2, ConcatAdjacentSubSeq
<1> QED
  BY <1>3, SubSeqFull DEF Rest

LEMMA AppendBehind ==
    ASSUME NEW b \in Seq(Nat), NEW q \in Seq(Nat), NEW e \in Nat
    PROVE  b \o Append(q, e) = Append(b \o q, e)
<1>1. <<e>> \in Seq(Nat) /\ b \o q \in Seq(Nat)
  BY ConcatProperties
<1>2. Append(q, e) = q \o <<e>> /\ Append(b \o q, e) = (b \o q) \o <<e>>
  BY <1>1, AppendIsConcat
<1>3. (b \o q) \o <<e>> = b \o (q \o <<e>>)
  BY <1>1, ConcatAssociative
<1> QED
  BY <1>2, <1>3

-----------------------------------------------------------------------------
\* What the updates of the flush loop and of emit() leave.

IdleWith(t, queue, thrown, dropped) ==
    [Idle(t) EXCEPT !.queue = queue, !.thrown = thrown, !.dropped = dropped]

\* u is t with these fields.
Became(u, t, queue, batch, pc, made, thrown, dropped) ==
    /\ u \in Tracker
    /\ u.queue = queue /\ u.batch = batch /\ u.pc = pc
    /\ u.made = made /\ u.thrown = thrown /\ u.dropped = dropped
    /\ u.sent = t.sent /\ u.refused = t.refused /\ u.answered = t.answered
    /\ u.destroyed = t.destroyed

LEMMA IdleUpdate ==
    ASSUME NEW t \in Tracker, NEW queue \in Seq(Nat), NEW thrown \in Nat, NEW dropped \in Nat
    PROVE  Became(IdleWith(t, queue, thrown, dropped), t, queue, <<>>, "idle", t.made, thrown, dropped)
<1>1. <<>> \in Seq(Nat) /\ 0 \in 0 .. Attempts
  BY TrackerAssumption
<1>2. Idle(t) \in Tracker
  <2>1. \A b \in Seq(Nat), a \in 0 .. Attempts :
            [t EXCEPT !.batch = b, !.pc = "idle", !.reason = "normal", !.attempt = a] \in Tracker
    BY DEF Tracker, Reason
  <2> QED
    BY <1>1, <2>1 DEF Idle
<1>3. /\ Idle(t).batch = <<>> /\ Idle(t).pc = "idle"
      /\ Idle(t).made = t.made /\ Idle(t).sent = t.sent /\ Idle(t).refused = t.refused
      /\ Idle(t).answered = t.answered /\ Idle(t).destroyed = t.destroyed
  BY DEF Idle, Tracker
<1> QED
  BY <1>2, <1>3 DEF Tracker, IdleWith, Became

TakeWith(t, queue, batch, way, reason) ==
    [t EXCEPT !.queue = queue, !.batch = batch, !.pc = way, !.reason = reason, !.attempt = 1]

LEMMA TakeUpdate ==
    ASSUME NEW t \in Tracker, NEW queue \in Seq(Nat), NEW batch \in Seq(Nat), NEW way \in {"beacon", "post"},
           NEW reason \in Reason
    PROVE  Became(TakeWith(t, queue, batch, way, reason), t, queue, batch, way, t.made, t.thrown, t.dropped)
<1>1. 1 \in 0 .. Attempts
  BY TrackerAssumption
<1>2. \A a \in 0 .. Attempts :
          [t EXCEPT !.queue = queue, !.batch = batch, !.pc = way, !.reason = reason, !.attempt = a] \in Tracker
  BY DEF Tracker
<1> QED
  BY <1>1, <1>2 DEF Tracker, TakeWith, Became

EmitWith(t, queue, made, dropped) ==
    [t EXCEPT !.queue = queue, !.made = made, !.dropped = dropped]

LEMMA EmitUpdate ==
    ASSUME NEW t \in Tracker, NEW queue \in Seq(Nat), NEW made \in Nat, NEW dropped \in Nat
    PROVE  /\ Became(EmitWith(t, queue, made, dropped), t, queue, t.batch, t.pc, made, t.thrown, dropped)
           /\ EmitWith(t, queue, made, dropped).attempt = t.attempt
  BY DEF Tracker, EmitWith, Became

-----------------------------------------------------------------------------
\* The functions of the flush loop.

\* The fields of a tracker, one fact each.
LEMMA Fields ==
    ASSUME NEW t \in Tracker
    PROVE  /\ t.queue \in Seq(Nat) /\ Len(t.queue) \in Nat
           /\ t.batch \in Seq(Nat) /\ Len(t.batch) \in Nat
           /\ t.made \in Nat /\ t.sent \in Nat /\ t.dropped \in Nat /\ t.refused \in Nat
           /\ t.thrown \in Nat /\ t.answered \in Nat
           /\ t.reason \in Reason
  BY DEF Tracker

\* What is kept of a sequence, and what is lost.
LEMMA Kept ==
    ASSUME NEW destroyed, NEW a \in Nat, NEW k, k = IF destroyed THEN 0 ELSE Smaller(MaxQueue, a)
    PROVE  k \in Nat /\ k \in 0 .. a /\ k <= MaxQueue /\ (destroyed => k = 0) /\ a - k \in Nat
  BY TrackerAssumption DEF Smaller

\* The count after events go from the queue and the batch to droppedEvents.
DropsKeep(q, b, s, d, r, h, k) == Total(q, b, s, d, r, h) = Total(k, 0, s, d + ((b + q) - k), r, h)

LEMMA Overflowed ==
    ASSUME NEW q \in Nat, NEW b \in Nat, NEW s \in Nat, NEW d \in Nat, NEW r \in Nat, NEW h \in Nat,
           NEW k \in 0 .. b + q
    PROVE  DropsKeep(q, b, s, d, r, h, k)
  BY DEF Total, DropsKeep

\* The count after an event is made, whether or not the queue is full.
MakesOne(q, b, s, d, r, h) ==
    Total(q, b, s, d, r, h) + 1 = Total((IF q >= MaxQueue THEN q - 1 ELSE q) + 1, b, s,
                                        IF q >= MaxQueue THEN d + 1 ELSE d, r, h)

LEMMA Made ==
    ASSUME NEW q \in Nat, NEW b \in Nat, NEW s \in Nat, NEW d \in Nat, NEW r \in Nat, NEW h \in Nat
    PROVE  MakesOne(q, b, s, d, r, h)
<1>1. MaxQueue \in Nat
  BY TrackerAssumption
<1>2. CASE q >= MaxQueue
  BY <1>1, <1>2 DEF Total, MakesOne
<1>3. CASE ~(q >= MaxQueue)
  BY <1>1, <1>3 DEF Total, MakesOne
<1> QED
  BY <1>2, <1>3

\* The count after a batch is taken, or thrown away.
TakesSome(q, n, s, d, r, h) ==
    /\ Total(q, 0, s, d, r, h) = Total(q - n, n, s, d, r, h)
    /\ Total(q, 0, s, d, r, h) = Total(q - n, 0, s, d, r, h + n)

LEMMA Moved ==
    ASSUME NEW q \in Nat, NEW s \in Nat, NEW d \in Nat, NEW r \in Nat, NEW h \in Nat, NEW n \in 0 .. q
    PROVE  TakesSome(q, n, s, d, r, h)
  BY DEF Total, TakesSome

LEMMA TakeSound ==
    ASSUME NEW t, Resting(t), t.queue # <<>>, NEW reason \in Reason, NEW fits \in 1 .. MaxBatch,
           NEW way \in {"beacon", "post", "throw"}
    PROVE  Sound(Take(t, reason, fits, way))
<1> DEFINE u == Take(t, reason, fits, way)
<1>1. t \in Tracker /\ Counted(t) /\ t.batch = <<>>
  BY DEF Resting
<1>2. t.queue \in Seq(Nat) /\ t.answered \in Nat /\ t.made \in Nat
  BY <1>1, Fields
<1>3. Len(t.queue) \in Nat \ {0}
  BY <1>2, EmptySeq
<1>4. t.answered <= t.made /\ Window(t.queue, t.answered, t.made) /\ Len(t.queue) <= MaxQueue
  BY DEF Resting
<1>5. PICK n : /\ n = Smaller(fits, Len(t.queue))
               /\ n \in 1 .. Len(t.queue) /\ n <= MaxBatch
  BY <1>3, TrackerAssumption DEF Smaller
<1>6. n \in Nat \ {0} /\ n \in 0 .. Len(t.queue)
  BY <1>3, <1>5
<1>7. PICK first : first = SubSeq(t.queue, 1, n) /\ first \in Seq(Nat) /\ Len(first) = n
  BY <1>2, <1>4, <1>6, WindowPrefix
<1>8. PICK rest : /\ rest = Rest(t.queue, n)
                  /\ rest \in Seq(Nat)
                  /\ Len(rest) = Len(t.queue) - n
                  /\ Window(rest, t.answered, t.made)
  BY <1>2, <1>4, <1>6, WindowRest
<1>9. first \o rest = t.queue
  BY <1>2, <1>5, <1>7, <1>8, Split
<1>10. first # <<>>
  BY <1>6, <1>7, EmptySeq
<1>11. u = IF way = "throw"
           THEN [Idle(t) EXCEPT !.queue = rest, !.thrown = @ + n]
           ELSE [t EXCEPT !.queue = rest, !.batch = first, !.pc = way, !.reason = reason, !.attempt = 1]
  BY <1>5, <1>7, <1>8 DEF Take
<1>12. Len(rest) <= MaxQueue
  BY <1>3, <1>4, <1>6, <1>8, TrackerAssumption
<1>13. t.made = Total(Len(t.queue), 0, t.sent, t.dropped, t.refused, t.thrown)
  <2>1. Len(<<>>) = 0
    OBVIOUS
  <2> QED
    BY <1>1, <2>1 DEF Counted
<1>14. /\ t.made = Total(Len(t.queue) - n, n, t.sent, t.dropped, t.refused, t.thrown)
       /\ t.made = Total(Len(t.queue) - n, 0, t.sent, t.dropped, t.refused, t.thrown + n)
  <2>1. t.sent \in Nat /\ t.dropped \in Nat /\ t.refused \in Nat /\ t.thrown \in Nat
    BY <1>1, Fields
  <2>2. Len(t.queue) \in Nat /\ n \in 0 .. Len(t.queue)
    BY <1>3, <1>6
  <2>3. TakesSome(Len(t.queue), n, t.sent, t.dropped, t.refused, t.thrown)
    BY <2>1, <2>2, Moved
  <2> QED
    BY <1>13, <2>3 DEF TakesSome
<1> HIDE DEF u
<1>15. CASE way = "throw"
  <2>1. Idle(t).thrown = t.thrown /\ Idle(t).dropped = t.dropped
    BY <1>1 DEF Idle, Tracker
  <2>2. u = IdleWith(t, rest, t.thrown + n, t.dropped)
    BY <1>1, <1>11, <1>15, <2>1 DEF Idle, Tracker, IdleWith
  <2>3. t.dropped \in Nat /\ t.thrown \in Nat
    BY <1>1, Fields
  <2>4. t.thrown + n \in Nat /\ t.thrown + n # 0
    BY <1>6, <2>3
  <2>5. /\ u \in Tracker
        /\ u.queue = rest /\ u.batch = <<>> /\ u.pc = "idle"
        /\ u.thrown = t.thrown + n /\ u.dropped = t.dropped
        /\ u.made = t.made /\ u.sent = t.sent /\ u.refused = t.refused /\ u.answered = t.answered
    <3>1. Became(u, t, rest, <<>>, "idle", t.made, t.thrown + n, t.dropped)
      BY <1>1, <1>8, <2>2, <2>3, <2>4, IdleUpdate
    <3> QED
      BY <3>1 DEF Became
  <2>6. Counted(u)
    BY <1>8, <1>14, <2>5 DEF Counted
  <2>7. <<>> \o rest = rest
    BY <1>8, ConcatEmptySeq
  <2>8. Len(<<>>) <= MaxBatch
    BY TrackerAssumption
  <2> QED
    BY <1>4, <1>8, <1>12, <2>4, <2>5, <2>6, <2>7, <2>8 DEF Sound, u
<1>16. CASE way # "throw"
  <2>1. u = TakeWith(t, rest, first, way, reason) /\ way \in {"beacon", "post"}
    BY <1>11, <1>16 DEF TakeWith
  <2>2. /\ u \in Tracker
        /\ u.queue = rest /\ u.batch = first /\ u.pc = way
        /\ u.made = t.made /\ u.sent = t.sent /\ u.dropped = t.dropped /\ u.refused = t.refused
        /\ u.thrown = t.thrown /\ u.answered = t.answered
    <3>1. Became(u, t, rest, first, way, t.made, t.thrown, t.dropped)
      BY <1>1, <1>7, <1>8, <2>1, TakeUpdate
    <3> QED
      BY <3>1 DEF Became
  <2>3. u.pc \notin {"idle", "wait"}
    BY <2>1, <2>2
  <2>4. Counted(u)
    BY <1>7, <1>8, <1>14, <2>2 DEF Counted
  <2>5. Window(u.batch \o u.queue, u.answered, u.made)
    BY <1>4, <1>9, <2>2
  <2> QED
    BY <1>4, <1>5, <1>7, <1>10, <1>12, <2>2, <2>3, <2>4, <2>5 DEF Sound, u
<1> QED
  BY <1>15, <1>16

LEMMA IdleSound ==
    ASSUME NEW t, Resting(t), t.queue = <<>>
    PROVE  Sound(Idle(t))
<1> DEFINE u == Idle(t)
<1>1. t \in Tracker
  BY DEF Resting
<1>2. t.queue \in Seq(Nat) /\ t.thrown \in Nat /\ t.dropped \in Nat
  BY <1>1, Fields
<1>3. u = IdleWith(t, t.queue, t.thrown, t.dropped)
  BY <1>1 DEF Idle, Tracker, IdleWith
<1>4. <<>> \o t.queue = t.queue
  BY <1>2, ConcatEmptySeq
<1> HIDE DEF u
<1>5. /\ u \in Tracker
      /\ u.queue = t.queue /\ u.batch = <<>> /\ u.pc = "idle"
      /\ u.thrown = t.thrown /\ u.dropped = t.dropped
      /\ u.made = t.made /\ u.sent = t.sent /\ u.refused = t.refused /\ u.answered = t.answered
  <2>1. Became(u, t, t.queue, <<>>, "idle", t.made, t.thrown, t.dropped)
    BY <1>1, <1>2, <1>3, IdleUpdate
  <2> QED
    BY <2>1 DEF Became
<1> QED
  BY <1>4, <1>5, TrackerAssumption DEF Resting, Sound, Counted, u

LEMMA FlushSound ==
    ASSUME NEW t, Sound(t), NEW reason \in Reason, NEW fits \in 1 .. MaxBatch,
           NEW way \in {"beacon", "post", "throw"}
    PROVE  Sound(Flush(t, reason, fits, way))
<1>1. CASE t.destroyed \/ t.pc # "idle" \/ t.queue = <<>>
  BY <1>1 DEF Flush
<1>2. CASE ~(t.destroyed \/ t.pc # "idle" \/ t.queue = <<>>)
  <2>1. t.batch = <<>> /\ <<>> \o t.queue = t.queue
    BY <1>2, ConcatEmptySeq DEF Sound, Tracker
  <2>2. Resting(t)
    BY <2>1 DEF Sound, Resting
  <2> QED
    BY <1>2, <2>2, TakeSound DEF Flush
<1> QED
  BY <1>1, <1>2

LEMMA LoopSound ==
    ASSUME NEW t, Resting(t), NEW fits \in 1 .. MaxBatch, NEW way \in {"beacon", "post", "throw"}
    PROVE  Sound(Loop(t, fits, way))
<1>1. CASE t.queue = <<>>
  BY <1>1, IdleSound DEF Loop
<1>2. CASE t.queue # <<>>
  <2>1. t.reason \in Reason
    BY DEF Resting, Tracker
  <2> QED
    BY <1>2, <2>1, TakeSound DEF Loop
<1> QED
  BY <1>1, <1>2

LEMMA ExhaustedSound ==
    ASSUME NEW t, Sound(t)
    PROVE  Sound(Exhausted(t))
<1> DEFINE u == Exhausted(t)
<1>1. /\ t \in Tracker /\ Counted(t) /\ t.answered <= t.made
      /\ Window(t.batch \o t.queue, t.answered, t.made)
  BY DEF Sound
<1>2. t.batch \in Seq(Nat) /\ t.queue \in Seq(Nat)
  BY <1>1, Fields
<1>3. Len(t.batch) \in Nat /\ Len(t.queue) \in Nat
  BY <1>1, Fields
<1>4. t.answered \in Nat /\ t.made \in Nat /\ t.dropped \in Nat /\ t.thrown \in Nat
  BY <1>1, Fields
<1>5. PICK all : all = t.batch \o t.queue
  OBVIOUS
<1>6. all \in Seq(Nat) /\ Len(all) = Len(t.batch) + Len(t.queue)
  BY <1>2, <1>5, ConcatProperties
<1>7. PICK b, q : b = Len(t.batch) /\ q = Len(t.queue)
  OBVIOUS
<1>8. PICK a : a = b + q /\ a \in Nat
  <2>1. b \in Nat /\ q \in Nat
    BY <1>3, <1>7
  <2> QED
    BY <2>1
<1>9. PICK kept : kept = IF t.destroyed THEN 0 ELSE Smaller(MaxQueue, a)
  OBVIOUS
<1>10. /\ kept \in Nat /\ kept \in 0 .. a /\ kept <= MaxQueue
       /\ t.destroyed => kept = 0
       /\ a - kept \in Nat
  BY <1>8, <1>9, Kept
<1>11. PICK queue : queue = SubSeq(all, 1, kept)
  OBVIOUS
<1>12. queue \in Seq(Nat) /\ Len(queue) = kept /\ Window(queue, t.answered, t.made)
  BY <1>1, <1>4, <1>5, <1>6, <1>7, <1>8, <1>10, <1>11, WindowPrefix
<1>13. u = IdleWith(t, queue, t.thrown, t.dropped + (a - kept))
  <2>1. u = [Idle(t) EXCEPT !.queue = queue, !.dropped = @ + (a - kept)]
    BY <1>5, <1>6, <1>7, <1>8, <1>9, <1>11 DEF Exhausted
  <2>2. Idle(t).thrown = t.thrown /\ Idle(t).dropped = t.dropped
    BY <1>1 DEF Idle, Tracker
  <2> HIDE DEF u
  <2> QED
    BY <1>1, <2>1, <2>2 DEF Idle, Tracker, IdleWith
<1>14. t.dropped + (a - kept) \in Nat
  BY <1>4, <1>10
<1>15. <<>> \o queue = queue
  BY <1>12, ConcatEmptySeq
<1>16. t.destroyed => queue = <<>>
  BY <1>10, <1>12, EmptySeq
<1> HIDE DEF u
<1>17. Became(u, t, queue, <<>>, "idle", t.made, t.thrown, t.dropped + (a - kept))
  BY <1>1, <1>4, <1>12, <1>13, <1>14, IdleUpdate
<1>18. Counted(u)
  <2>1. t.made = Total(Len(t.queue), Len(t.batch), t.sent, t.dropped, t.refused, t.thrown)
    BY <1>1 DEF Counted
  <2>2. t.sent \in Nat /\ t.refused \in Nat
    BY <1>1, Fields
  <2>3. t.made = Total(kept, 0, t.sent, t.dropped + (a - kept), t.refused, t.thrown)
    <3>1. b \in Nat /\ q \in Nat /\ kept \in 0 .. b + q
      BY <1>3, <1>7, <1>8, <1>10
    <3>2. DropsKeep(q, b, t.sent, t.dropped, t.refused, t.thrown, kept)
      <4>1. t.dropped \in Nat /\ t.thrown \in Nat
        BY <1>4
      <4> QED
        BY <2>2, <3>1, <4>1, Overflowed
    <3> QED
      BY <1>7, <1>8, <2>1, <3>2 DEF DropsKeep
  <2> QED
    BY <1>12, <1>17, <2>3 DEF Counted, Became
<1>19. Len(<<>>) <= MaxBatch
  BY TrackerAssumption
<1> QED
  BY <1>1, <1>10, <1>12, <1>15, <1>16, <1>17, <1>18, <1>19 DEF Sound, Became, u

-----------------------------------------------------------------------------
\* Emission.

LEMMA EmitSound ==
    ASSUME NEW t, Sound(t), NEW fits \in 1 .. MaxBatch
    PROVE  Sound(Emit(t, fits))
<1>1. /\ t \in Tracker /\ Counted(t) /\ t.answered <= t.made /\ Len(t.queue) <= MaxQueue
      /\ Window(t.batch \o t.queue, t.answered, t.made)
  BY DEF Sound
<1>2. t.batch \in Seq(Nat) /\ t.queue \in Seq(Nat) /\ Len(t.batch) \in Nat /\ Len(t.queue) \in Nat
  BY <1>1, Fields
<1>3. t.answered \in Nat /\ t.made \in Nat /\ t.dropped \in Nat
  BY <1>1, Fields
<1>4. Len(t.queue) >= MaxQueue => t.queue # <<>>
  BY <1>2, TrackerAssumption
<1>5. PICK left : /\ left = IF Len(t.queue) >= MaxQueue THEN Tail(t.queue) ELSE t.queue
                  /\ left \in Seq(Nat)
                  /\ Len(left) = IF Len(t.queue) >= MaxQueue THEN Len(t.queue) - 1 ELSE Len(t.queue)
                  /\ Window(t.batch \o left, t.answered, t.made)
  <2>1. CASE Len(t.queue) >= MaxQueue
    BY <1>1, <1>2, <1>3, <1>4, <2>1, WindowTail
  <2>2. CASE ~(Len(t.queue) >= MaxQueue)
    BY <1>1, <1>2, <2>2
  <2> QED
    BY <2>1, <2>2
<1>6. Len(left) \in Nat /\ Len(left) < MaxQueue
  BY <1>1, <1>2, <1>5, TrackerAssumption
<1>7. PICK e : e = t.made + 1 /\ e \in Nat
  BY <1>3
<1>8. PICK queue : queue = Append(left, e) /\ queue \in Seq(Nat) /\ Len(queue) = Len(left) + 1
  <2>1. \A q \in Seq(Nat), n \in Nat : Append(q, n) \in Seq(Nat) /\ Len(Append(q, n)) = Len(q) + 1
    BY AppendProperties
  <2> QED
    BY <1>5, <1>7, <2>1
<1>9. Window(t.batch \o queue, t.answered, e)
  <2>1. PICK waiting : waiting = t.batch \o left /\ waiting \in Seq(Nat)
    BY <1>2, <1>5, ConcatProperties
  <2>2. t.batch \o queue = Append(waiting, e)
    <3>1. left \in Seq(Nat) /\ e \in Nat
      BY <1>5, <1>7
    <3>2. t.batch \o Append(left, e) = Append(t.batch \o left, e)
      BY <1>2, <3>1, AppendBehind
    <3> QED
      BY <1>8, <2>1, <3>2
  <2>3. Window(Append(waiting, t.made + 1), t.answered, t.made + 1)
    BY <1>1, <1>3, <1>5, <2>1, WindowAppend
  <2> QED
    BY <1>7, <2>2, <2>3
<1>10. PICK dropped : /\ dropped = IF Len(t.queue) >= MaxQueue THEN t.dropped + 1 ELSE t.dropped
                      /\ dropped \in Nat
  BY <1>3
<1>11. PICK u : u = EmitWith(t, queue, e, dropped)
  OBVIOUS
<1>12. Emit(t, fits) = IF t.destroyed THEN t
                       ELSE IF Len(queue) >= MaxBatch THEN Flush(u, "normal", fits, "post")
                       ELSE u
  BY <1>1, <1>5, <1>7, <1>8, <1>10, <1>11 DEF Emit, EmitWith
<1>13. CASE ~t.destroyed
  <2>1. Became(u, t, queue, t.batch, t.pc, e, t.thrown, dropped) /\ u.attempt = t.attempt
    <3>1. queue \in Seq(Nat)
      BY <1>8
    <3>2. dropped \in Nat
      BY <1>10
    <3> QED
      BY <1>1, <1>7, <1>11, <3>1, <3>2, EmitUpdate
  <2>2. Counted(u)
    <3>1. t.made = Total(Len(t.queue), Len(t.batch), t.sent, t.dropped, t.refused, t.thrown)
      BY <1>1 DEF Counted
    <3>2. t.sent \in Nat /\ t.refused \in Nat /\ t.thrown \in Nat
      BY <1>1, Fields
    <3>3. Len(t.batch) \in Nat /\ Len(t.queue) \in Nat /\ t.dropped \in Nat
      BY <1>1, Fields
    <3>4. PICK q : q = Len(t.queue) /\ q \in Nat
      BY <3>3
    <3>5. Len(queue) = (IF q >= MaxQueue THEN q - 1 ELSE q) + 1
      BY <1>5, <1>8, <3>4
    <3>6. dropped = IF q >= MaxQueue THEN t.dropped + 1 ELSE t.dropped
      BY <1>10, <3>4
    <3>7. MakesOne(q, Len(t.batch), t.sent, t.dropped, t.refused, t.thrown)
      BY <3>2, <3>3, <3>4, Made
    <3>8. e = Total(Len(queue), Len(t.batch), t.sent, dropped, t.refused, t.thrown)
      BY <1>7, <3>1, <3>4, <3>5, <3>6, <3>7 DEF MakesOne
    <3> QED
      BY <2>1, <3>8 DEF Counted, Became
  <2>3. u.answered <= u.made /\ Len(u.queue) <= MaxQueue
    <3>1. t.answered <= e /\ Len(queue) <= MaxQueue
      BY <1>1, <1>3, <1>6, <1>7, <1>8, TrackerAssumption
    <3> QED
      BY <2>1, <3>1 DEF Became
  <2>4. Window(u.batch \o u.queue, u.answered, u.made)
    BY <1>9, <2>1 DEF Became
  <2>5. Sound(u)
    BY <1>13, <2>1, <2>2, <2>3, <2>4 DEF Sound, Became
  <2>6. Sound(Flush(u, "normal", fits, "post"))
    BY <2>5, FlushSound DEF Reason
  <2> QED
    BY <1>12, <2>5, <2>6
<1> QED
  BY <1>12, <1>13

LEMMA SettleSound ==
    ASSUME NEW t, Sound(t), NEW count \in 0 .. 2, NEW fits \in 1 .. MaxBatch
    PROVE  Sound(Settle(t, count, fits))
  BY EmitSound DEF Settle

-----------------------------------------------------------------------------
\* The answer to a batch.

AnswerWith(t, sent, refused, answered) ==
    [t EXCEPT !.sent = sent, !.refused = refused, !.answered = answered, !.batch = <<>>]

AnswerLeaves(u, t, sent, refused, answered) ==
    /\ u \in Tracker
    /\ u.batch = <<>> /\ u.queue = t.queue /\ u.made = t.made
    /\ u.sent = sent /\ u.refused = refused /\ u.answered = answered
    /\ u.dropped = t.dropped /\ u.thrown = t.thrown

LEMMA AnswerUpdate ==
    ASSUME NEW t \in Tracker, NEW sent \in Nat, NEW refused \in Nat, NEW answered \in Nat
    PROVE  AnswerLeaves(AnswerWith(t, sent, refused, answered), t, sent, refused, answered)
<1>1. <<>> \in Seq(Nat)
  OBVIOUS
<1>2. \A b \in Seq(Nat) :
          [t EXCEPT !.sent = sent, !.refused = refused, !.answered = answered, !.batch = b] \in Tracker
  BY DEF Tracker
<1> QED
  BY <1>1, <1>2 DEF Tracker, AnswerWith, AnswerLeaves

\* The count after the events of the batch go to sentEvents or are refused.
Answers(q, b, s, d, r, h) ==
    /\ Total(q, b, s, d, r, h) = Total(q, 0, s + b, d, r, h)
    /\ Total(q, b, s, d, r, h) = Total(q, 0, s, d, r + b, h)
    /\ s + b \in Nat /\ r + b \in Nat

LEMMA Answered ==
    ASSUME NEW q \in Nat, NEW b \in Nat, NEW s \in Nat, NEW d \in Nat, NEW r \in Nat, NEW h \in Nat
    PROVE  Answers(q, b, s, d, r, h)
  BY DEF Total, Answers

LEMMA AnsweredResting ==
    ASSUME NEW t, Sound(t), t.batch # <<>>, NEW sent, NEW refused,
           \/ sent = t.sent + Len(t.batch) /\ refused = t.refused
           \/ sent = t.sent /\ refused = t.refused + Len(t.batch)
    PROVE  Resting(AnswerWith(t, sent, refused, Youngest(t)))
<1> DEFINE u == AnswerWith(t, sent, refused, Youngest(t))
<1>1. /\ t \in Tracker /\ Counted(t) /\ Len(t.queue) <= MaxQueue
      /\ Window(t.batch \o t.queue, t.answered, t.made)
  BY DEF Sound
<1>2. t.batch \in Seq(Nat) /\ t.queue \in Seq(Nat) /\ t.answered \in Nat /\ t.made \in Nat
  BY <1>1, Fields
<1>3. Youngest(t) \in Nat /\ Youngest(t) <= t.made /\ Window(t.queue, Youngest(t), t.made)
  BY <1>1, <1>2, WindowBehind DEF Youngest
<1>4. Len(t.batch) \in Nat /\ Len(t.queue) \in Nat /\ t.dropped \in Nat /\ t.thrown \in Nat
  BY <1>1, Fields
<1>5. t.sent \in Nat /\ t.refused \in Nat
  BY <1>1, Fields
<1>6. t.made = Total(Len(t.queue), Len(t.batch), t.sent, t.dropped, t.refused, t.thrown)
  BY <1>1 DEF Counted
<1>7. /\ sent \in Nat /\ refused \in Nat
      /\ t.made = Total(Len(t.queue), 0, sent, t.dropped, refused, t.thrown)
  <2>1. /\ t.made = Total(Len(t.queue), 0, t.sent + Len(t.batch), t.dropped, t.refused, t.thrown)
        /\ t.made = Total(Len(t.queue), 0, t.sent, t.dropped, t.refused + Len(t.batch), t.thrown)
        /\ t.sent + Len(t.batch) \in Nat /\ t.refused + Len(t.batch) \in Nat
    <3>1. Answers(Len(t.queue), Len(t.batch), t.sent, t.dropped, t.refused, t.thrown)
      BY <1>4, <1>5, Answered
    <3> QED
      BY <1>6, <3>1 DEF Answers
  <2> QED
    BY <1>5, <2>1
<1>8. AnswerLeaves(u, t, sent, refused, Youngest(t))
  BY <1>1, <1>3, <1>7, AnswerUpdate
<1> HIDE DEF u
<1>9. Counted(u)
  <2>1. Len(<<>>) = 0
    OBVIOUS
  <2> QED
    BY <1>7, <1>8, <2>1 DEF Counted, AnswerLeaves
<1> QED
  BY <1>1, <1>3, <1>8, <1>9 DEF Resting, AnswerLeaves, u

-----------------------------------------------------------------------------
\* destroy() leaves nothing behind a flush that did not start.

LEMMA TakeBusy ==
    ASSUME NEW t \in Tracker, NEW reason \in Reason, NEW fits \in 1 .. MaxBatch, t.queue # <<>>,
           NEW way \in {"beacon", "post", "throw"}
    PROVE  LET u == Take(t, reason, fits, way) IN u.pc # "idle" \/ u.thrown # 0
<1>1. t.thrown \in Nat /\ Len(t.queue) \in Nat \ {0}
  BY EmptySeq DEF Tracker
<1>2. PICK n : n = Smaller(fits, Len(t.queue)) /\ n \in Nat \ {0}
  BY <1>1, TrackerAssumption DEF Smaller
<1>3. CASE way = "throw"
  <2>1. Take(t, reason, fits, way).thrown = t.thrown + n
    BY <1>2, <1>3 DEF Take, Idle, Tracker
  <2> QED
    BY <1>1, <1>2, <2>1
<1>4. CASE way # "throw"
  BY <1>4 DEF Take, Tracker
<1> QED
  BY <1>3, <1>4

LEMMA FlushBusy ==
    ASSUME NEW t, Sound(t), ~t.destroyed, NEW reason \in Reason, NEW fits \in 1 .. MaxBatch,
           NEW way \in {"beacon", "post", "throw"}
    PROVE  LET u == Flush(t, reason, fits, way) IN u.pc = "idle" /\ u.thrown = 0 => u.queue = <<>>
<1>1. t \in Tracker
  BY DEF Sound
<1>2. CASE t.pc # "idle" \/ t.queue = <<>>
  BY <1>2 DEF Flush
<1>3. CASE ~(t.pc # "idle" \/ t.queue = <<>>)
  BY <1>1, <1>3, TakeBusy DEF Flush
<1> QED
  BY <1>2, <1>3

LEMMA TakeAlive ==
    ASSUME NEW t \in Tracker, NEW reason, NEW fits, NEW way
    PROVE  Take(t, reason, fits, way).destroyed = t.destroyed
  BY DEF Take, Idle, Tracker

LEMMA EmitAlive ==
    ASSUME NEW t, Sound(t), ~t.destroyed, NEW fits \in 1 .. MaxBatch
    PROVE  ~Emit(t, fits).destroyed
<1>1. t \in Tracker
  BY DEF Sound
<1>2. PICK queue, dropped : Emit(t, fits) =
          IF Len(queue) >= MaxBatch THEN Flush(EmitWith(t, queue, t.made + 1, dropped), "normal", fits, "post")
          ELSE EmitWith(t, queue, t.made + 1, dropped)
  <2> DEFINE full == Len(t.queue) >= MaxQueue
             queue == Append(IF full THEN Tail(t.queue) ELSE t.queue, t.made + 1)
             dropped == IF full THEN t.dropped + 1 ELSE t.dropped
  <2>1. [t EXCEPT !.queue = queue, !.made = @ + 1, !.dropped = IF full THEN @ + 1 ELSE @]
          = EmitWith(t, queue, t.made + 1, dropped)
    BY <1>1 DEF EmitWith, Tracker
  <2> QED
    BY <2>1 DEF Emit
<1>3. PICK u : u = EmitWith(t, queue, t.made + 1, dropped)
  OBVIOUS
<1>4. u.destroyed = t.destroyed /\ u.reason = t.reason
  BY <1>1, <1>3 DEF EmitWith, Tracker
<1>5. ~Flush(u, "normal", fits, "post").destroyed
  <2>1. CASE u.pc # "idle" \/ u.queue = <<>>
    BY <1>4, <2>1 DEF Flush
  <2>2. CASE ~(u.pc # "idle" \/ u.queue = <<>>)
    <3>1. Flush(u, "normal", fits, "post") = Take(u, "normal", fits, "post")
      BY <1>4, <2>2 DEF Flush
    <3>2. DOMAIN u = DOMAIN t
      BY <1>1, <1>3 DEF EmitWith, Tracker
    <3>3. Take(u, "normal", fits, "post").destroyed = u.destroyed
      BY <1>1, <1>3 DEF Take, EmitWith, Tracker
    <3> QED
      BY <1>4, <3>1, <3>3
  <2> QED
    BY <2>1, <2>2
<1> QED
  BY <1>2, <1>3, <1>4, <1>5

LEMMA SettleAlive ==
    ASSUME NEW t, Sound(t), ~t.destroyed, NEW count \in 0 .. 2, NEW fits \in 1 .. MaxBatch
    PROVE  ~Settle(t, count, fits).destroyed
  BY EmitSound, EmitAlive DEF Settle

LEMMA DestroySound ==
    ASSUME NEW t, Sound(t), t.pc = "idle" /\ t.thrown = 0 => t.queue = <<>>
    PROVE  Sound([t EXCEPT !.destroyed = TRUE])
<1> DEFINE u == [t EXCEPT !.destroyed = TRUE]
<1>1. t \in Tracker
  BY DEF Sound
<1>2. /\ u \in Tracker
      /\ u.queue = t.queue /\ u.batch = t.batch /\ u.pc = t.pc /\ u.attempt = t.attempt
      /\ u.made = t.made /\ u.sent = t.sent /\ u.dropped = t.dropped /\ u.refused = t.refused
      /\ u.thrown = t.thrown /\ u.answered = t.answered
  BY <1>1 DEF Tracker
<1> HIDE DEF u
<1> QED
  BY <1>2 DEF Sound, Counted, u

-----------------------------------------------------------------------------
\* The steps.

LEMMA InitSound == Init => Sound(tracker)
<1> SUFFICES ASSUME Init PROVE Sound(tracker)
  OBVIOUS
<1>1. <<>> \in Seq(Nat) /\ Len(<<>>) = 0 /\ <<>> \o <<>> = <<>> /\ 0 \in 0 .. Attempts
  BY TrackerAssumption
<1>2. tracker \in Tracker
  BY <1>1 DEF Init, Tracker, Reason
<1>3. Window(<<>>, 0, 0)
  BY DEF Window, Increasing
<1>4. 0 = Total(0, 0, 0, 0, 0, 0)
  BY DEF Total
<1>5. Counted(tracker)
  BY <1>1, <1>4 DEF Init, Counted
<1>6. /\ tracker.batch = <<>> /\ tracker.queue = <<>> /\ tracker.pc = "idle"
      /\ tracker.answered = 0 /\ tracker.made = 0
  BY DEF Init
<1>7. 0 <= MaxQueue /\ 0 <= MaxBatch
  BY TrackerAssumption
<1> QED
  BY <1>1, <1>2, <1>3, <1>5, <1>6, <1>7 DEF Sound

LEMMA RejectSound ==
    ASSUME Sound(tracker), RejectEvent
    PROVE  Sound(tracker')
<1>1. tracker \in Tracker /\ Counted(tracker)
  BY DEF Sound
<1>2. tracker.made \in Nat /\ tracker.dropped \in Nat
  BY <1>1, Fields
<1>3. PICK m, d : m = tracker.made + 1 /\ m \in Nat /\ d = tracker.dropped + 1 /\ d \in Nat
  BY <1>2
<1>4. tracker' = [tracker EXCEPT !.made = m, !.dropped = d]
  BY <1>1, <1>3 DEF RejectEvent, Tracker
<1>5. /\ tracker' \in Tracker
      /\ tracker'.queue = tracker.queue /\ tracker'.batch = tracker.batch /\ tracker'.pc = tracker.pc
      /\ tracker'.attempt = tracker.attempt /\ tracker'.made = m /\ tracker'.sent = tracker.sent
      /\ tracker'.dropped = d /\ tracker'.refused = tracker.refused /\ tracker'.thrown = tracker.thrown
      /\ tracker'.answered = tracker.answered /\ tracker'.destroyed = tracker.destroyed
  BY <1>1, <1>3, <1>4 DEF Tracker
<1>6. Counted(tracker')
  <2>1. \A q, b, s, r, h \in Nat : Total(q, b, s, tracker.dropped, r, h) + 1 = Total(q, b, s, d, r, h)
    BY <1>2, <1>3 DEF Total
  <2>2. /\ Len(tracker.queue) \in Nat /\ Len(tracker.batch) \in Nat
        /\ tracker.sent \in Nat /\ tracker.refused \in Nat /\ tracker.thrown \in Nat
    BY <1>1, Fields
  <2>3. Total(Len(tracker.queue), Len(tracker.batch), tracker.sent, tracker.dropped, tracker.refused, tracker.thrown) + 1
           = Total(Len(tracker.queue), Len(tracker.batch), tracker.sent, d, tracker.refused, tracker.thrown)
    BY <2>1, <2>2, SMTT(30)
  <2> QED
    BY <1>1, <1>3, <1>5, <2>3 DEF Counted
<1>7. Window(tracker.batch \o tracker.queue, tracker.answered, m) /\ tracker.answered <= m
  <2>1. tracker.batch \o tracker.queue \in Seq(Nat)
    BY <1>1, Fields, ConcatProperties
  <2>2. PICK s : s = tracker.batch \o tracker.queue /\ s \in Seq(Nat)
    BY <2>1
  <2>3. Window(s, tracker.answered, tracker.made) /\ tracker.answered <= tracker.made
    BY <2>2 DEF Sound
  <2>4. \A i \in 1 .. Len(s) : s[i] \in Nat
    BY <2>2, ElementOfSeq
  <2>5. tracker.answered \in Nat
    BY <1>1, Fields
  <2>6. Window(s, tracker.answered, m)
    BY <1>2, <1>3, <2>3, <2>4, <2>5 DEF Window
  <2> QED
    BY <1>2, <1>3, <2>2, <2>3, <2>5, <2>6
<1> QED
  BY <1>5, <1>6, <1>7 DEF Sound

LEMMA WaitSound ==
    ASSUME Sound(tracker), tracker.pc = "post", tracker.attempt < Attempts,
           tracker' = [tracker EXCEPT !.pc = "wait"]
    PROVE  Sound(tracker')
<1>1. tracker \in Tracker
  BY DEF Sound
<1>2. /\ tracker' \in Tracker
      /\ tracker'.queue = tracker.queue /\ tracker'.batch = tracker.batch /\ tracker'.pc = "wait"
      /\ tracker'.attempt = tracker.attempt /\ tracker'.made = tracker.made /\ tracker'.sent = tracker.sent
      /\ tracker'.dropped = tracker.dropped /\ tracker'.refused = tracker.refused
      /\ tracker'.thrown = tracker.thrown /\ tracker'.answered = tracker.answered
      /\ tracker'.destroyed = tracker.destroyed
  BY <1>1 DEF Tracker
<1> QED
  BY <1>2 DEF Sound, Counted

LEMMA RetrySound ==
    ASSUME Sound(tracker), Retry
    PROVE  Sound(tracker')
<1>1. tracker \in Tracker /\ tracker.attempt < Attempts
  BY DEF Sound, Retry
<1>2. PICK a : a = tracker.attempt + 1 /\ a \in 0 .. Attempts
  <2>1. tracker.attempt \in 0 .. Attempts
    BY <1>1 DEF Tracker
  <2> QED
    BY <1>1, <2>1, TrackerAssumption
<1>3. tracker' = [tracker EXCEPT !.pc = "post", !.attempt = a]
  BY <1>1, <1>2 DEF Retry, Tracker
<1>4. /\ tracker' \in Tracker
      /\ tracker'.queue = tracker.queue /\ tracker'.batch = tracker.batch /\ tracker'.pc = "post"
      /\ tracker'.made = tracker.made /\ tracker'.sent = tracker.sent
      /\ tracker'.dropped = tracker.dropped /\ tracker'.refused = tracker.refused
      /\ tracker'.thrown = tracker.thrown /\ tracker'.answered = tracker.answered
      /\ tracker'.destroyed = tracker.destroyed
  BY <1>1, <1>2, <1>3 DEF Tracker
<1> QED
  BY <1>4 DEF Sound, Counted, Retry

LEMMA NextSound == Sound(tracker) /\ [Next]_tracker => Sound(tracker')
<1> SUFFICES ASSUME Sound(tracker), [Next]_tracker PROVE Sound(tracker')
  OBVIOUS
<1>1. ASSUME NEW fits \in 1 .. MaxBatch, EmitEvent(fits)
      PROVE  Sound(tracker')
  BY <1>1, EmitSound DEF EmitEvent
<1>2. ASSUME NEW fits \in 1 .. MaxBatch, NEW reason \in Reason, NEW way \in Ways(reason),
             FlushQueue(reason, fits, way)
      PROVE  Sound(tracker')
  <2>1. way \in {"beacon", "post", "throw"}
    BY DEF Ways
  <2> QED
    BY <1>2, <2>1, FlushSound DEF FlushQueue
<1>3. ASSUME NEW fits \in 1 .. MaxBatch, NEW count \in 0 .. 2, NEW way \in Ways("lifecycle"),
             HidePage(count, fits, way)
      PROVE  Sound(tracker')
  <2>1. way \in {"beacon", "post", "throw"} /\ "lifecycle" \in Reason
    BY DEF Ways, Reason
  <2>2. Sound(Settle(tracker, count, fits))
    BY SettleSound
  <2> QED
    BY <1>3, <2>1, <2>2, FlushSound DEF HidePage
<1>4. ASSUME NEW fits \in 1 .. MaxBatch, NEW count \in 0 .. 2, NEW way \in Ways("lifecycle"),
             Destroy(count, fits, way)
      PROVE  Sound(tracker')
  <2>1. way \in {"beacon", "post", "throw"} /\ "lifecycle" \in Reason
    BY DEF Ways, Reason
  <2>2. PICK t : t = Settle(tracker, count, fits)
    OBVIOUS
  <2>3. Sound(t) /\ ~t.destroyed
    BY <1>4, <2>2, SettleSound, SettleAlive DEF Destroy
  <2>4. PICK u : u = Flush(t, "lifecycle", fits, way)
    OBVIOUS
  <2>5. Sound(u)
    BY <2>1, <2>3, <2>4, FlushSound
  <2>6. u.pc = "idle" /\ u.thrown = 0 => u.queue = <<>>
    BY <2>1, <2>3, <2>4, FlushBusy
  <2>7. tracker' = [u EXCEPT !.destroyed = TRUE]
    BY <1>4, <2>2, <2>4 DEF Destroy
  <2> QED
    BY <2>5, <2>6, <2>7, DestroySound
<1>5. CASE RejectEvent
  BY <1>5, RejectSound
<1>6. ASSUME NEW fits \in 1 .. MaxBatch, NEW way \in {"beacon", "post", "throw"},
             Sent(fits, way) \/ Refused(fits, way)
      PROVE  Sound(tracker')
  <2>1. tracker \in Tracker /\ tracker.batch # <<>>
    BY <1>6 DEF Sound, Sent, Refused
  <2>2. PICK sent, refused :
          /\ \/ sent = tracker.sent + Len(tracker.batch) /\ refused = tracker.refused
             \/ sent = tracker.sent /\ refused = tracker.refused + Len(tracker.batch)
          /\ tracker' = Loop(AnswerWith(tracker, sent, refused, Youngest(tracker)), fits, way)
    <3>1. CASE Sent(fits, way)
      <4>1. [tracker EXCEPT !.sent = @ + Len(tracker.batch), !.answered = Youngest(tracker), !.batch = <<>>]
              = AnswerWith(tracker, tracker.sent + Len(tracker.batch), tracker.refused, Youngest(tracker))
        BY <2>1 DEF Tracker, AnswerWith
      <4> QED
        BY <3>1, <4>1 DEF Sent
    <3>2. CASE Refused(fits, way)
      <4>1. [tracker EXCEPT !.refused = @ + Len(tracker.batch), !.answered = Youngest(tracker), !.batch = <<>>]
              = AnswerWith(tracker, tracker.sent, tracker.refused + Len(tracker.batch), Youngest(tracker))
        BY <2>1 DEF Tracker, AnswerWith
      <4> QED
        BY <3>2, <4>1 DEF Refused
    <3> QED
      BY <1>6, <3>1, <3>2
  <2>3. Resting(AnswerWith(tracker, sent, refused, Youngest(tracker)))
    BY <2>1, <2>2, AnsweredResting
  <2> QED
    BY <2>2, <2>3, LoopSound
<1>7. CASE Failed
  <2>1. CASE tracker.attempt < Attempts
    BY <1>7, <2>1, WaitSound DEF Failed
  <2>2. CASE ~(tracker.attempt < Attempts)
    BY <1>7, <2>2, ExhaustedSound DEF Failed
  <2> QED
    BY <2>1, <2>2
<1>8. CASE Retry
  BY <1>8, RetrySound
<1>9. CASE UNCHANGED tracker
  BY <1>9
<1> QED
  BY <1>1, <1>2, <1>3, <1>4, <1>5, <1>6, <1>7, <1>8, <1>9 DEF Next, Host, Answer

\* The inductive invariant of the tracker.
TrackerSound == Sound(tracker)

LEMMA SoundMeans ==
    TrackerSound => TypeOK /\ Accounted /\ InOrder /\ Bounded /\ NothingLeftBehind
  BY DEF TrackerSound, Sound, TypeOK, Accounted, Counted, Total, InOrder, Window, Waiting, Bounded, NothingLeftBehind

\* Sound is an invariant of the tracker.
LEMMA AlwaysSound == Spec => []TrackerSound
<1>1. Init => TrackerSound
  BY InitSound DEF TrackerSound
<1>2. TrackerSound /\ [Next]_tracker => TrackerSound'
  BY NextSound DEF TrackerSound
<1> QED
  BY <1>1, <1>2, PTL DEF Spec

(***************************************************************************)
(* Every event given to emit() is accounted for, whatever the interleaving *)
(* of emissions, lifecycle handlers, failed sends and destroy().           *)
(***************************************************************************)
THEOREM TrackerAccounts == Spec => [](TypeOK /\ Accounted)
  BY AlwaysSound, SoundMeans, PTL

(***************************************************************************)
(* Events leave in the order they were made and an answered event never    *)
(* leaves again.                                                           *)
(***************************************************************************)
THEOREM TrackerInOrder == Spec => []InOrder
  BY AlwaysSound, SoundMeans, PTL

(***************************************************************************)
(* The memory of the SDK is bounded, and a destroyed tracker that is not   *)
(* flushing holds nothing.                                                 *)
(***************************************************************************)
THEOREM TrackerBounded == Spec => [](Bounded /\ NothingLeftBehind)
  BY AlwaysSound, SoundMeans, PTL

=============================================================================
