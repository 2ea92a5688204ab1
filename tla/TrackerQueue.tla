----------------------------- MODULE TrackerQueue -----------------------------
(***************************************************************************)
(* The event queue of the browser SDK (class BrowserTracker): emission,    *)
(* the flush loop suspended in send(), the page's lifecycle handlers and   *)
(* destroy().  JavaScript runs one handler at a time, so each action is    *)
(* one uninterrupted stretch of the code: it ends where send() awaits.     *)
(*                                                                         *)
(* Events are numbered in the order they are made.  How many of them fit   *)
(* the byte limit of a batch, whether the batch is small enough for a      *)
(* beacon, and what the browser and the server answer are free choices.    *)
(***************************************************************************)
EXTENDS Naturals, Sequences

CONSTANTS
    MaxQueue,   \* trackerConfig.maximumQueueSize
    MaxBatch,   \* CONTRACT_LIMITS.maximumEventsPerBatch
    Attempts,   \* posts of one send()
    MaxEvents   \* bound: events made

ASSUME TrackerAssumption ==
    /\ MaxQueue \in Nat \ {0}
    /\ MaxBatch \in Nat \ {0}
    /\ Attempts \in Nat \ {0}
    /\ MaxEvents \in Nat

VARIABLE tracker

Reason == {"normal", "lifecycle"}

\* The fields of BrowserTracker.  flushing is pc # "idle"; batch is the local
\* variable pending of flush(), taken out of the queue while send() runs.
Tracker ==
    [queue: Seq(Nat), batch: Seq(Nat),
     pc: {"idle", "beacon", "post", "wait"},  \* where flush() is suspended
     reason: Reason, attempt: 0 .. Attempts,
     made: Nat,       \* events given to emit()
     sent: Nat,       \* diagnostics.sentEvents
     dropped: Nat,    \* diagnostics.droppedEvents
     refused: Nat,    \* events of batches answered 4xx
     thrown: Nat,     \* events of batches whose beacon threw
     answered: Nat,   \* the youngest event of an answered batch
     destroyed: BOOLEAN]

Init ==
    tracker = [queue |-> <<>>, batch |-> <<>>, pc |-> "idle", reason |-> "normal", attempt |-> 0,
               made |-> 0, sent |-> 0, dropped |-> 0, refused |-> 0, thrown |-> 0, answered |-> 0,
               destroyed |-> FALSE]

-----------------------------------------------------------------------------
\* The flush loop.

\* How a batch leaves: a lifecycle flush tries a beacon, which may be queued,
\* may be refused or too large (and is posted), or may throw.
Ways(reason) == IF reason = "normal" THEN {"post"} ELSE {"beacon", "post", "throw"}

Smaller(m, n) == IF m <= n THEN m ELSE n
Rest(s, k) == SubSeq(s, k + 1, Len(s))

\* Suspended nowhere: the finally of flush().
Idle(t) == [t EXCEPT !.batch = <<>>, !.pc = "idle", !.reason = "normal", !.attempt = 0]

\* nextBatch(), and send() up to its first await.
Take(t, reason, fits, way) ==
    LET n == Smaller(fits, Len(t.queue))
        rest == Rest(t.queue, n)
    IN  IF way = "throw"
        THEN [Idle(t) EXCEPT !.queue = rest, !.thrown = @ + n]
        ELSE [t EXCEPT !.queue = rest, !.batch = SubSeq(t.queue, 1, n),
                       !.pc = way, !.reason = reason, !.attempt = 1]

\* Mutant: a flush may start while another one is suspended.
FlushMutant(t, reason, fits, way) ==
    IF t.destroyed \/ t.queue = <<>> THEN t ELSE Take(t, reason, fits, way)

\* flush(): one at a time, and none after destroy().
Flush(t, reason, fits, way) ==
    IF t.destroyed \/ t.pc # "idle" \/ t.queue = <<>> THEN t ELSE Take(t, reason, fits, way)

\* Mutant: the loop ends when the tracker is destroyed.
LoopMutant(t, fits, way) ==
    IF t.queue = <<>> \/ t.destroyed THEN Idle(t) ELSE Take(t, t.reason, fits, way)

\* The loop of flush() goes on after an answer, whether or not the tracker has
\* been destroyed in the meantime.
Loop(t, fits, way) ==
    IF t.queue = <<>> THEN Idle(t) ELSE Take(t, t.reason, fits, way)

\* Mutant: the batch goes to the back of the queue, the oldest are dropped.
ExhaustedMutant(t) ==
    LET all == t.queue \o t.batch
        kept == IF t.destroyed THEN 0 ELSE Smaller(MaxQueue, Len(all))
    IN  [Idle(t) EXCEPT !.queue = SubSeq(all, 1, kept), !.dropped = @ + (Len(all) - kept)]

\* Mutant: the batch is put back without looking at the capacity.
ExhaustedGrowMutant(t) == [Idle(t) EXCEPT !.queue = t.batch \o t.queue]

\* Every attempt failed: the batch goes back to the front and the youngest
\* events give way; a destroyed tracker keeps nothing.
Exhausted(t) ==
    LET all == t.batch \o t.queue
        kept == IF t.destroyed THEN 0 ELSE Smaller(MaxQueue, Len(all))
    IN  [Idle(t) EXCEPT !.queue = SubSeq(all, 1, kept), !.dropped = @ + (Len(all) - kept)]

-----------------------------------------------------------------------------
\* Emission.

\* emit() of an event that passes its checks: a full queue loses its oldest
\* event, and a queue that holds a whole batch is flushed.
Emit(t, fits) ==
    LET full == Len(t.queue) >= MaxQueue
        queue == Append(IF full THEN Tail(t.queue) ELSE t.queue, t.made + 1)
        u == [t EXCEPT !.queue = queue, !.made = @ + 1, !.dropped = IF full THEN @ + 1 ELSE @]
    IN  IF t.destroyed THEN t
        ELSE IF Len(queue) >= MaxBatch THEN Flush(u, "normal", fits, "post")
        ELSE u

\* What a handler settles before it flushes: an open form and the visible page,
\* either, or nothing.
Settle(t, count, fits) ==
    IF count = 0 THEN t ELSE IF count = 1 THEN Emit(t, fits) ELSE Emit(Emit(t, fits), fits)

\* The host records an event.
EmitEvent(fits) ==
    /\ ~tracker.destroyed
    /\ tracker.made < MaxEvents
    /\ tracker' = Emit(tracker, fits)

\* emit() drops what beforeSend, the credential check or the size check rejects.
RejectEvent ==
    /\ ~tracker.destroyed
    /\ tracker.made < MaxEvents
    /\ tracker' = [tracker EXCEPT !.made = @ + 1, !.dropped = @ + 1]

\* The interval timer, or a call of the public flush().
FlushQueue(reason, fits, way) ==
    /\ ~tracker.destroyed
    /\ tracker.pc = "idle" /\ tracker.queue # <<>>
    /\ tracker' = Flush(tracker, reason, fits, way)

\* pagehide, or visibilitychange to hidden.
HidePage(count, fits, way) ==
    /\ ~tracker.destroyed
    /\ tracker.made + count <= MaxEvents
    /\ tracker' = Flush(Settle(tracker, count, fits), "lifecycle", fits, way)

\* Mutant: nothing is flushed.
DestroyMutant(count, fits, way) ==
    /\ ~tracker.destroyed
    /\ tracker.made + count <= MaxEvents
    /\ tracker' = [Settle(tracker, count, fits) EXCEPT !.destroyed = TRUE]

\* destroy() marks the tracker after its last flush has started.
Destroy(count, fits, way) ==
    /\ ~tracker.destroyed
    /\ tracker.made + count <= MaxEvents
    /\ tracker' = [Flush(Settle(tracker, count, fits), "lifecycle", fits, way) EXCEPT !.destroyed = TRUE]

-----------------------------------------------------------------------------
\* What send() is suspended on.

Youngest(t) == t.batch[Len(t.batch)]

\* The beacon was queued, or a post was answered 2xx.
Sent(fits, way) ==
    /\ tracker.pc \in {"beacon", "post"}
    /\ way \in Ways(tracker.reason)
    /\ tracker' = Loop([tracker EXCEPT !.sent = @ + Len(tracker.batch),
                                       !.answered = Youngest(tracker), !.batch = <<>>], fits, way)

\* 4xx: the batch is given up and the loop goes on.
Refused(fits, way) ==
    /\ tracker.pc = "post"
    /\ way \in Ways(tracker.reason)
    /\ tracker' = Loop([tracker EXCEPT !.refused = @ + Len(tracker.batch),
                                       !.answered = Youngest(tracker), !.batch = <<>>], fits, way)

\* 5xx, or no answer.
Failed ==
    /\ tracker.pc = "post"
    /\ tracker' = IF tracker.attempt < Attempts THEN [tracker EXCEPT !.pc = "wait"] ELSE Exhausted(tracker)

\* Mutant: the attempts are not counted.
RetryMutant ==
    /\ tracker.pc = "wait"
    /\ tracker' = [tracker EXCEPT !.pc = "post"]

\* The pause between two attempts ends.
Retry ==
    /\ tracker.pc = "wait"
    /\ tracker' = [tracker EXCEPT !.pc = "post", !.attempt = @ + 1]

Host ==
    \E fits \in 1 .. MaxBatch :
        \/ EmitEvent(fits)
        \/ \E reason \in Reason : \E way \in Ways(reason) : FlushQueue(reason, fits, way)
        \/ \E count \in 0 .. 2, way \in Ways("lifecycle") :
              HidePage(count, fits, way) \/ Destroy(count, fits, way)

Answer ==
    \E fits \in 1 .. MaxBatch, way \in {"beacon", "post", "throw"} : Sent(fits, way) \/ Refused(fits, way)

Next == Host \/ RejectEvent \/ Answer \/ Failed \/ Retry

Spec == Init /\ [][Next]_tracker

\* A promise settles, a timer fires, and the interval timer flushes a live tracker.
Settles == WF_tracker(Answer \/ Failed) /\ WF_tracker(Retry)
Ticks == \E fits \in 1 .. MaxBatch : FlushQueue("normal", fits, "post")
LiveSpec == Spec /\ Settles /\ WF_tracker(Ticks)

-----------------------------------------------------------------------------
\* The fields of the tracker have their types; in particular no send() makes more
\* than its attempts.
TypeOK == tracker \in Tracker

Waiting == tracker.batch \o tracker.queue

(***************************************************************************)
(* Every event given to emit() is waiting, or counted by exactly one of    *)
(* the outcomes: overflow in emit, overflow after a failed flush, a flush  *)
(* that a destroy overtakes and a batch in flight neither lose an event    *)
(* unseen nor count it twice (droppedEvents and sentEvents are reported to *)
(* the server as the coverage of the page's data).                         *)
(***************************************************************************)
Accounted ==
    tracker.made = Len(tracker.queue) + Len(tracker.batch)
                   + tracker.sent + tracker.dropped + tracker.refused + tracker.thrown

(***************************************************************************)
(* Events leave in the order they were made, whatever is put back, and an  *)
(* event whose batch has been answered is never handed to the network      *)
(* again (flush, Exhausted, the overflow rules of emit).                   *)
(***************************************************************************)
Increasing(s) == \A i, j \in 1 .. Len(s) : i < j => s[i] < s[j]
InOrder ==
    /\ Increasing(Waiting)
    /\ \A i \in 1 .. Len(Waiting) : tracker.answered < Waiting[i] /\ Waiting[i] <= tracker.made

(***************************************************************************)
(* The memory the SDK holds is bounded: the queue by its capacity, what is *)
(* in flight by one batch, and a batch is held only while a flush runs.    *)
(***************************************************************************)
Bounded ==
    /\ Len(tracker.queue) <= MaxQueue
    /\ Len(tracker.batch) <= MaxBatch
    /\ tracker.pc = "idle" <=> tracker.batch = <<>>

(***************************************************************************)
(* A destroyed tracker that is not flushing holds nothing, unless a        *)
(* beacon threw in its last flush: what destroy() found is sent, refused   *)
(* or counted as dropped.                                                  *)
(***************************************************************************)
NothingLeftBehind ==
    tracker.destroyed /\ tracker.pc = "idle" /\ tracker.thrown = 0 => tracker.queue = <<>>

(***************************************************************************)
(* A destroyed tracker does not work in the background for ever, however   *)
(* the network behaves: the attempts of its last flush are finite.         *)
(***************************************************************************)
DestroyEnds == tracker.destroyed ~> tracker.pc = "idle"

(***************************************************************************)
(* When a network that is tried again and again answers at last, an event  *)
(* does not stay in the queue: it is sent, refused or dropped, also the    *)
(* one that exhausted flushes keep putting back, and also after destroy()  *)
(* (unless a beacon threw).                                                *)
(***************************************************************************)
IsWaiting(e) == \E i \in 1 .. Len(Waiting) : Waiting[i] = e
Delivered ==
    SF_tracker(Answer) =>
        \A e \in 1 .. MaxEvents : IsWaiting(e) ~> (~IsWaiting(e) \/ tracker.thrown > 0)

=============================================================================
