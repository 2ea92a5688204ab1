----------------------- MODULE DiagnosticReceiptsProofs -----------------------
(***************************************************************************)
(* Safety of DiagnosticReceipts for any number of events, pages, requests, *)
(* consumers, policies and minutes; of its readers; and of the evidence    *)
(* itself, before it is sent (RequestEvidence), for any size of the ring,  *)
(* window, number of requests, page views and trackers.                    *)
(***************************************************************************)
EXTENDS DiagnosticReading, FiniteSetTheorems, SequenceTheorems, TLAPS

\* The number of kept envelopes of a page is a natural number: there are
\* finitely many events, so the counter of a rate window stays a number.
LEMMA PageCount ==
    ASSUME NEW p \in Pages, NEW kept \in SUBSET Events
    PROVE  Cardinality(OnPage(p, kept)) \in Nat
<1>1. OnPage(p, kept) \subseteq Events
    BY DEF OnPage
<1>2. IsFiniteSet(OnPage(p, kept))
    BY <1>1, FS_Subset, ReceiptAssumption
<1> QED BY <1>2, FS_CardinalityType

\* Adding to one entry of a row of counters leaves it a row of counters.
LEMMA CounterAdds ==
    ASSUME NEW D, NEW f \in [D -> Nat], NEW i \in D, NEW n \in Nat
    PROVE  [f EXCEPT ![i] = @ + n] \in [D -> Nat]
<1>1. f[i] + n \in Nat
    OBVIOUS
<1> QED BY <1>1

\* What admission decides of a new event: a receipt state other than "none" and
\* an envelope status; only captured evidence becomes pending, and an event with
\* a tombstone is deleted from the start.
LEMMA AdmissionDecides ==
    ASSUME TypeOK, NEW r \in Requests, NEW kept \in SUBSET Candidates(r), NEW e \in Events
    PROVE  /\ Decision(r, kept, e) \in ReceiptState \ {"none", "ready", "write_failed"}
           /\ Outcome(r, kept, e) \in Status
           /\ Decision(r, kept, e) = "pending" => Client[e] = "captured" /\ e \notin deletions
           /\ e \in deletions /\ e \in New(r) => Decision(r, kept, e) = "deleted"
           /\ Decision(r, kept, e) = "deleted" => e \in deletions
           /\ Outcome(r, kept, e) = "captured" => Decision(r, kept, e) = "pending" \/ Client[e] = "captured"
<1> USE ReceiptAssumption
<1>1. Client[e] \in Status
    OBVIOUS
<1>2. policy \in Policy /\ policy.refuses[e] \in {"no", "too_large", "policy_suppressed"}
    BY DEF TypeOK, Policy
<1>3. /\ Verdict(e) \in {"pending", "rate_limited", "too_large", "unavailable", "disabled", "deleted", "policy_suppressed"}
      /\ Verdict(e) = "pending" => Client[e] = "captured" /\ e \notin deletions
      /\ e \in deletions <=> Verdict(e) = "deleted"
    BY <1>1, <1>2 DEF Verdict, Status
<1> QED BY <1>1, <1>3 DEF Decision, Outcome, Candidates, Absent, ReceiptState, Writable, Suppressed, Status

\* Every variable keeps its type: among others a receipt is never left in a state
\* the consumer does not know, and an envelope always has one of the contract's
\* statuses.
THEOREM TypeCorrect == Spec => []TypeOK
<1> USE ReceiptAssumption
<1>1. Init => TypeOK
    BY DEF Init, TypeOK, NoInput, IdleRequest, IdleWorker, Status, ReceiptState, Request, Consumer
<1>2. TypeOK /\ [Next]_vars => TypeOK'
  <2> SUFFICES ASSUME TypeOK, [Next]_vars PROVE TypeOK'
    OBVIOUS
  <2>1. ASSUME NEW r \in Requests, NEW batch \in SUBSET Events, Receive(r, batch) PROVE TypeOK'
    <3>1. [pc |-> "received", batch |-> batch, minute |-> minute,
           input |-> [e \in Events |-> IF e \in batch THEN Attribution(e) ELSE 0],
           diagnostic |-> Client] \in Request
      BY DEF Attribution, TypeOK, Request
    <3>2. req' \in [Requests -> Request]
      BY <2>1, <3>1 DEF Receive, TypeOK
    <3> QED BY <2>1, <3>2 DEF Receive, TypeOK, receiptVars
  <2>2. ASSUME NEW r \in Requests, NEW kept \in SUBSET Candidates(r), Admit(r, kept) PROVE TypeOK'
    <3>1. state' \in [Events -> ReceiptState] /\ storage' \in [Events -> Status]
      BY <2>2, AdmissionDecides DEF Admit, TypeOK
    <3>2. req[r] \in Request
      BY DEF TypeOK
    <3>3. input' \in [Events -> Nat] /\ createdAt' \in [Events -> 0 .. MaxMinute]
      BY <2>2, <3>2 DEF Admit, TypeOK, Request
    <3>4. kept \in SUBSET Events
      BY <3>2 DEF Candidates, New, Request
    <3>5. ASSUME NEW p \in Pages
          PROVE  [admitted[p] EXCEPT ![req[r].minute] = @ + Cardinality(OnPage(p, kept))]
                    \in [0 .. MaxMinute -> Nat]
      <4>1. admitted[p] \in [0 .. MaxMinute -> Nat]
        BY DEF TypeOK
      <4>2. Cardinality(OnPage(p, kept)) \in Nat
        BY <3>4, PageCount
      <4>3. req[r].minute \in 0 .. MaxMinute
        BY <3>2 DEF Request
      <4> QED BY <4>1, <4>2, <4>3, CounterAdds
    <3>6. admitted' \in [Pages -> [0 .. MaxMinute -> Nat]]
      BY <2>2, <3>5 DEF Admit
    <3>7. \A e \in Events : Replayed(e) \in Status
      BY DEF Replayed, Absent, Status
    <3> DEFINE published == [e \in Events |-> IF e \in New(r) THEN Outcome(r, kept, e)
                                             ELSE IF e \in req[r].batch THEN Replayed(e)
                                             ELSE Client[e]]
    <3>8. published \in [Events -> Status]
      BY <3>7, AdmissionDecides
    <3>9. req' = [req EXCEPT ![r] = [req[r] EXCEPT !.pc = "admitted", !.diagnostic = published]]
      BY <2>2, <3>2 DEF Admit, TypeOK, Request
    <3> HIDE DEF published
    <3>10. req' \in [Requests -> Request]
      BY <3>2, <3>8, <3>9 DEF TypeOK, Request
    <3> QED BY <2>2, <3>1, <3>3, <3>6, <3>10 DEF Admit, TypeOK
  <2>3. ASSUME NEW r \in Requests, Refuse(r) \/ Publish(r) \/ Fail(r) PROVE TypeOK'
    <3>1. Envelope(r) \subseteq Message
      BY DEF Envelope, Message, TypeOK, Request
    <3>2. IdleRequest \in Request
      BY DEF IdleRequest, NoInput, Request
    <3> QED BY <2>3, <3>1, <3>2 DEF Refuse, Publish, Fail, TypeOK, receiptVars
  <2>4. ASSUME NEW w \in Workers, Persist(w) PROVE TypeOK'
    <3>1. IdleWorker \in Consumer
      BY DEF IdleWorker, ReceiptState, Status, Consumer
    <3>2. worker[w] \in Consumer
      BY DEF TypeOK
    <3>3. \A p \in {"insert", "inserted", "failed"} : [worker[w] EXCEPT !.pc = p] \in Consumer
      BY <3>2 DEF Consumer
    <3>4. {m.event : m \in worker[w].holds} \subseteq Events
      BY <3>2 DEF Consumer, Message
    <3>5. ASSUME NEW m \in log, ReadReceipt(w, m) PROVE TypeOK'
      <4>1. [pc |-> "read", holds |-> {m}, state |-> state[m.event], storage |-> storage[m.event]] \in Consumer
        BY DEF TypeOK, Message, Consumer
      <4>2. worker' \in [Workers -> Consumer]
        BY <3>5, <4>1 DEF ReadReceipt, TypeOK
      <4> QED BY <3>5, <4>2 DEF ReadReceipt, TypeOK, receiptVars, apiVars
    <3>6. ASSUME CheckReceipt(w) \/ Crash(w) PROVE TypeOK'
      <4>1. worker' = [worker EXCEPT ![w] = IdleWorker] \/ worker' = [worker EXCEPT ![w].pc = "insert"]
        BY <3>6 DEF CheckReceipt, Crash
      <4>2. worker' \in [Workers -> Consumer]
        BY <3>1, <3>3, <4>1 DEF TypeOK
      <4> QED BY <3>6, <4>2 DEF CheckReceipt, Crash, TypeOK, receiptVars, apiVars
    <3>7. ASSUME InsertDetail(w) \/ FailInsert(w) PROVE TypeOK'
      <4>1. worker' = [worker EXCEPT ![w].pc = "inserted"] \/ worker' = [worker EXCEPT ![w].pc = "failed"]
        BY <3>7 DEF InsertDetail, FailInsert
      <4>2. worker' \in [Workers -> Consumer]
        BY <3>3, <4>1 DEF TypeOK
      <4>3. details' \subseteq Events
        BY <3>4, <3>7 DEF InsertDetail, FailInsert, TypeOK
      <4> QED BY <3>7, <4>2, <4>3 DEF InsertDetail, FailInsert, TypeOK, receiptVars, apiVars
    <3>8. ASSUME MarkReady(w) \/ MarkFailed(w) PROVE TypeOK'
      <4>1. worker' \in [Workers -> Consumer]
        BY <3>1, <3>8 DEF MarkReady, MarkFailed, TypeOK
      <4>2. state' \in [Events -> ReceiptState]
        BY <3>8 DEF MarkReady, MarkFailed, SetState, TypeOK, ReceiptState, Writable
      <4> QED BY <3>8, <4>1, <4>2 DEF MarkReady, MarkFailed, TypeOK, apiVars
    <3> QED BY <2>4, <3>5, <3>6, <3>7, <3>8 DEF Persist
  <2>5. ASSUME Operate PROVE TypeOK'
    <3>1. ASSUME NEW p \in Policies, PublishPolicy(p) PROVE TypeOK'
      BY <3>1 DEF PublishPolicy, TypeOK, receiptVars
    <3>2. ASSUME NEW e \in Deletable, Remove(e) PROVE TypeOK'
      BY <3>2 DEF Remove, TypeOK, ReceiptState, Suppressed
    <3>3. ASSUME SweepDetails \/ SweepAbort PROVE TypeOK'
      <4>1. order # <<>> => Head(order) \in Events
        BY HeadTailProperties DEF TypeOK
      <4> QED BY <3>3, <4>1 DEF SweepDetails, SweepAbort, TypeOK, receiptVars
    <3>6. ASSUME SweepMark PROVE TypeOK'
      <4>1. order' \in Seq(Events)
        BY <3>6, HeadTailProperties, AppendProperties DEF SweepMark, TypeOK
      <4> QED BY <3>6, <4>1 DEF SweepMark, TypeOK, receiptVars
    <3>4. ASSUME NEW S \in SUBSET Events, CleanReceipts(S) PROVE TypeOK'
      <4>1. admitted' \in [Pages -> [0 .. MaxMinute -> Nat]]
        BY <3>4 DEF CleanReceipts, TypeOK
      <4> QED BY <3>4, <4>1 DEF CleanReceipts, TypeOK, ReceiptState
    <3>5. ASSUME PublishDirectory PROVE TypeOK'
      BY <3>5 DEF PublishDirectory, TypeOK, receiptVars
    <3> QED BY <2>5, <3>1, <3>2, <3>3, <3>4, <3>5, <3>6 DEF Operate
  <2>6. ASSUME Time PROVE TypeOK'
    <3>1. ASSUME Tick PROVE TypeOK'
      BY <3>1 DEF Tick, TypeOK, receiptVars
    <3>2. ASSUME NEW e \in Events, Expire(e) \/ DropDetail(e) \/ Retire(e) PROVE TypeOK'
      BY <3>2 DEF Expire, DropDetail, Retire, TypeOK, receiptVars
    <3> QED BY <2>6, <3>1, <3>2 DEF Time
  <2>7. ASSUME UNCHANGED vars PROVE TypeOK'
    BY <2>7 DEF vars, TypeOK, receiptVars
  <2> QED BY <2>1, <2>2, <2>3, <2>4, <2>5, <2>6, <2>7 DEF Next, Api
<1> QED BY <1>1, <1>2, PTL DEF Spec

-----------------------------------------------------------------------------
\* What a retry publishes of an event that has a receipt: the envelope of the
\* first admission, except that evidence deleted since may be published as
\* unavailable, which a consumer never compares.
LEMMA ReplayDigested ==
    ASSUME TypeOK, ReceiptsDecided, NEW e \in Events, state[e] # "none"
    PROVE  Digested(e, Replayed(e))
<1>1. state[e] \in ReceiptState \ {"none"}
    BY DEF TypeOK
<1>2. CASE state[e] = "deleted"
    BY <1>2 DEF ReceiptsDecided, Digested
<1>3. CASE state[e] \in Writable \cup {"ready", "unavailable"}
    BY <1>3 DEF ReceiptsDecided, Digested, Replayed, Writable, Suppressed
<1>4. CASE state[e] \in Suppressed \ {"unavailable", "deleted"}
    BY <1>4 DEF ReceiptsDecided, Digested, Replayed, Suppressed
<1> QED BY <1>1, <1>2, <1>3, <1>4 DEF ReceiptState

\* Admission keeps the invariant: it decides new events only, and every envelope
\* it sends on is the one its receipt digests.
LEMMA AdmitConsistent ==
    ASSUME TypeOK, Consistent, NEW r \in Requests, NEW kept \in SUBSET Candidates(r), Admit(r, kept)
    PROVE  Consistent'
<1> USE DEF Consistent
<1>1. req[r] \in Request
    BY DEF TypeOK
<1>2. New(r) \subseteq Events /\ \A e \in New(r) : state[e] = "none" /\ e \in req[r].batch
    BY <1>1 DEF New, Request
<1>3. ASSUME NEW e \in New(r)
      PROVE  /\ state'[e] = Decision(r, kept, e) /\ storage'[e] = Outcome(r, kept, e)
             /\ state'[e] \in ReceiptState \ {"none", "ready", "write_failed"}
             /\ age[e] # "retired" /\ e \notin details
             /\ \A m \in log : m.event = e => e \in deletions
    <2>1. state'[e] = Decision(r, kept, e) /\ storage'[e] = Outcome(r, kept, e)
        BY <1>2, <1>3 DEF Admit
    <2> QED BY <1>2, <1>3, <2>1, AdmissionDecides DEF RetiredIsGone, DetailsHaveReceipt, LogDigested, Digested
<1>4. \A e \in Events \ New(r) : state'[e] = state[e] /\ storage'[e] = storage[e]
    BY DEF Admit
<1>5. UNCHANGED <<deletions, details, age, log, worker>>
    BY DEF Admit
<1>6. /\ \A q \in Requests : req'[q].batch = req[q].batch
      /\ \A q \in Requests \ {r} : req'[q] = req[q]
      /\ \A e \in Events : req'[r].diagnostic[e] = IF e \in New(r) THEN Outcome(r, kept, e)
                                ELSE IF e \in req[r].batch THEN Replayed(e) ELSE Client[e]
    BY <1>1 DEF Admit, TypeOK, Request
<1>7. ReceiptsDecided'
    <2>1. ASSUME NEW e \in New(r)
          PROVE  /\ state'[e] = "pending" => storage'[e] = "captured" /\ Client[e] = "captured"
                 /\ state'[e] = "unavailable" => storage'[e] = Client[e]
                 /\ state'[e] \in Suppressed \ {"unavailable", "deleted"}
                       => storage'[e] \in {Client[e], Absent(state'[e])}
                 /\ state'[e] = "deleted" => e \in deletions
        <3>1. Decision(r, kept, e) = "unavailable" => Client[e] = "unavailable"
            BY <1>2, ReceiptAssumption DEF Decision, Verdict, TypeOK, Policy
        <3> QED BY <1>2, <1>3, <2>1, <3>1, AdmissionDecides DEF Outcome, Suppressed
    <2> QED BY <1>3, <1>4, <1>5, <2>1 DEF ReceiptsDecided, Writable
<1>8. RetiredIsGone'
    BY <1>5, <1>6 DEF RetiredIsGone
<1>9. RequestsDigested'
    <2>1. ASSUME NEW q \in Requests \ {r}, req[q].pc = "admitted", NEW e \in req[q].batch
          PROVE  Digested(e, req[q].diagnostic[e])'
        <3>1. e \in Events
            BY <2>1 DEF TypeOK, Request
        <3>2. Digested(e, req[q].diagnostic[e])
            BY <2>1 DEF RequestsDigested
        <3> QED BY <1>2, <1>4, <1>5, <1>6, <3>1, <3>2 DEF Digested
    <2>2. ASSUME NEW e \in req[r].batch PROVE Digested(e, req[r].diagnostic[e])'
        <3>1. e \in Events
            BY <1>1 DEF Request
        <3>2. CASE e \in New(r)
            BY <1>3, <1>6, <3>1, <3>2 DEF Digested
        <3>3. CASE e \notin New(r)
            <4>1. state[e] # "none"
                BY <2>2, <3>3 DEF New
            <4>2. Digested(e, Replayed(e))
                BY <3>1, <4>1, ReplayDigested
            <4> QED BY <1>4, <1>5, <1>6, <2>2, <3>1, <3>3, <4>2 DEF Digested
        <3> QED BY <3>2, <3>3
    <2> QED BY <1>6, <2>1, <2>2 DEF RequestsDigested
<1>10. LogDigested'
    <2>1. \A m \in log : m.event \in Events
        BY DEF TypeOK, Message
    <2> QED BY <1>3, <1>4, <1>5, <2>1 DEF LogDigested, Digested
<1>11. ConsumersHoldCaptured'
    <2>1. \A w \in Workers : \A m \in worker[w].holds : m.event \in Events
        BY DEF TypeOK, Consumer, Message
    <2> QED BY <1>2, <1>4, <1>5, <2>1 DEF ConsumersHoldCaptured
<1>12. DetailsHaveReceipt' /\ WithheldNeverStored'
    <2>1. details \subseteq Events
        BY DEF TypeOK
    <2> QED BY <1>3, <1>4, <1>5, <2>1 DEF DetailsHaveReceipt, WithheldNeverStored
<1>13. NeverMismatch'
    BY <1>5 DEF NeverMismatch, Mismatch
<1>14. TombstoneFinal'
    BY <1>2, <1>3, <1>4, <1>5, AdmissionDecides DEF TombstoneFinal, TypeOK
<1> QED BY <1>7, <1>8, <1>9, <1>10, <1>11, <1>12, <1>13, <1>14

\* The other steps of a request keep the invariant: an envelope enters the log
\* only as its receipt digests it.
LEMMA RequestConsistent ==
    ASSUME TypeOK, Consistent, NEW r \in Requests,
           (\E batch \in SUBSET Events : Receive(r, batch)) \/ Refuse(r) \/ Publish(r) \/ Fail(r)
    PROVE  Consistent'
<1> USE DEF Consistent
<1>1. UNCHANGED <<state, storage, deletions, details, age, worker>>
    BY DEF Receive, Refuse, Publish, Fail, receiptVars
<1>2. /\ \A q \in Requests \ {r} : req'[q] = req[q]
      /\ req'[r].pc # "admitted"
      /\ \A e \in req'[r].batch : age[e] # "retired"
    BY DEF Receive, Refuse, Publish, Fail, TypeOK, IdleRequest
<1>3. \A m \in log' : m \in log \/ (req[r].pc = "admitted" /\ m \in Envelope(r))
    BY DEF Receive, Refuse, Publish, Fail
<1>4. \A m \in Envelope(r) : m.event \in req[r].batch /\ m.diagnostic = req[r].diagnostic[m.event]
    BY DEF Envelope
<1>5. RetiredIsGone'
    BY <1>1, <1>2, <1>3, <1>4 DEF RetiredIsGone
<1>6. RequestsDigested'
    BY <1>1, <1>2 DEF RequestsDigested, Digested
<1>7. LogDigested'
    BY <1>1, <1>3, <1>4 DEF LogDigested, RequestsDigested, Digested
<1> QED BY <1>1, <1>5, <1>6, <1>7
        DEF ReceiptsDecided, ConsumersHoldCaptured, DetailsHaveReceipt, NeverMismatch,
            Mismatch, WithheldNeverStored, TombstoneFinal

\* A consumer's step keeps the invariant, whatever happened to the receipt since
\* the consumer read it: the update it issues does not touch a decided receipt.
LEMMA PersistConsistent ==
    ASSUME TypeOK, Consistent, NEW w \in Workers, Persist(w)
    PROVE  Consistent'
<1> USE DEF Consistent
<1>1. UNCHANGED <<storage, deletions, age, req, log>>
    BY DEF Persist, ReadReceipt, CheckReceipt, InsertDetail, FailInsert, MarkReady, MarkFailed, Crash,
           receiptVars, apiVars
<1>2. \A e \in Events : \/ state'[e] = state[e]
                        \/ state[e] \in Writable /\ state'[e] \in {"ready", "write_failed"}
    BY DEF Persist, ReadReceipt, CheckReceipt, InsertDetail, FailInsert, MarkReady, MarkFailed, Crash,
           receiptVars, SetState
<1>3. \A e \in Events : state[e] # "none" => state'[e] # "none"
    BY <1>2
<1>4. \A v \in Workers \ {w} : worker'[v] = worker[v]
    BY DEF Persist, ReadReceipt, CheckReceipt, InsertDetail, FailInsert, MarkReady, MarkFailed, Crash, TypeOK
<1>5. worker[w] \in Consumer /\ \A m \in log \cup worker[w].holds : m.event \in Events
    BY DEF TypeOK, Consumer, Message
<1>6. /\ \A m \in worker'[w].holds : m \in worker[w].holds \/ m \in log
      /\ worker'[w].pc \in {"insert", "inserted", "failed"} => worker'[w].state \in Writable
      /\ worker'[w].pc = "read" => \A m \in worker'[w].holds : m.event \in deletions \/ ~Mismatch(w, m)'
      /\ \A m \in worker'[w].holds : worker'[w].state \in Writable =>
            /\ Client[m.event] = "captured" /\ storage[m.event] = "captured" /\ state[m.event] # "none"
    <2>1. CASE \E m \in log : ReadReceipt(w, m)
        BY <1>5, <2>1 DEF ReadReceipt, TypeOK, LogDigested, Digested, Mismatch, ReceiptsDecided
    <2>2. CASE CheckReceipt(w) \/ Crash(w) \/ MarkReady(w) \/ MarkFailed(w)
        <3>1. worker'[w] = IdleWorker \/ (worker'[w] = [worker[w] EXCEPT !.pc = "insert"] /\ worker[w].state \in Writable)
            BY <2>2 DEF CheckReceipt, Crash, MarkReady, MarkFailed, TypeOK
        <3> QED BY <1>5, <3>1 DEF IdleWorker, Consumer, ConsumersHoldCaptured
    <2>3. CASE InsertDetail(w) \/ FailInsert(w)
        <3>1. /\ worker[w].pc \in {"insert", "inserted"}
              /\ \E p \in {"inserted", "failed"} : worker'[w] = [worker[w] EXCEPT !.pc = p]
            BY <2>3 DEF InsertDetail, FailInsert, TypeOK
        <3> QED BY <1>5, <3>1 DEF Consumer, ConsumersHoldCaptured
    <2> QED BY <2>1, <2>2, <2>3 DEF Persist
<1>7. \A e \in details' : e \in details \/ \E m \in worker[w].holds : m.event = e /\ worker[w].state \in Writable
    BY DEF Persist, ReadReceipt, CheckReceipt, InsertDetail, FailInsert, MarkReady, MarkFailed, Crash,
           ConsumersHoldCaptured
<1>8. ReceiptsDecided' /\ TombstoneFinal'
    BY <1>1, <1>2 DEF ReceiptsDecided, TombstoneFinal, Writable, Suppressed, TypeOK
<1>9. RetiredIsGone'
    BY <1>1, <1>4, <1>6 DEF RetiredIsGone
<1>10. RequestsDigested' /\ LogDigested'
    <2>1. \A r \in Requests : req[r].batch \subseteq Events
        BY DEF TypeOK, Request
    <2> QED BY <1>1, <1>3, <1>5, <2>1 DEF RequestsDigested, LogDigested, Digested
<1>11. ConsumersHoldCaptured'
    <2>1. \A v \in Workers : \A m \in worker[v].holds : m.event \in Events
        BY DEF TypeOK, Consumer, Message
    <2>2. ASSUME NEW v \in Workers
          PROVE  /\ worker'[v].pc \in {"insert", "inserted", "failed"} => worker'[v].state \in Writable
                 /\ \A m \in worker'[v].holds : worker'[v].state \in Writable =>
                      /\ Client[m.event] = "captured" /\ storage'[m.event] = "captured" /\ state'[m.event] # "none"
        <3>1. CASE v = w
            BY <1>1, <1>3, <1>5, <1>6, <3>1
        <3>2. CASE v # w
            BY <1>1, <1>3, <1>4, <2>1, <3>2 DEF ConsumersHoldCaptured
        <3> QED BY <3>1, <3>2
    <2> QED BY <2>2 DEF ConsumersHoldCaptured
<1>12. DetailsHaveReceipt' /\ WithheldNeverStored'
    <2>1. details \subseteq Events
        BY DEF TypeOK
    <2> QED BY <1>1, <1>3, <1>5, <1>7, <2>1 DEF DetailsHaveReceipt, WithheldNeverStored, ConsumersHoldCaptured
<1>13. NeverMismatch'
    <2>1. \A v \in Workers \ {w} : \A m : Mismatch(v, m)' <=> Mismatch(v, m)
        BY <1>4 DEF Mismatch
    <2> QED BY <1>1, <1>4, <1>6, <2>1 DEF NeverMismatch
<1> QED BY <1>8, <1>9, <1>10, <1>11, <1>12, <1>13

\* Administration, cleanup and time keep the invariant: a tombstone only weakens
\* what is asked of its event, and only receipts nothing refers to are purged.
LEMMA OperateConsistent ==
    ASSUME TypeOK, Consistent, Operate \/ Time \/ UNCHANGED vars
    PROVE  Consistent'
<1> USE DEF Consistent
<1>1. CASE (\E p \in Policies : PublishPolicy(p)) \/ SweepMark \/ SweepAbort \/ PublishDirectory \/ Tick \/ UNCHANGED vars
    <2>1. UNCHANGED <<state, storage, deletions, details, age, req, log, worker>>
        BY <1>1 DEF PublishPolicy, SweepMark, SweepAbort, PublishDirectory, Tick, vars, receiptVars
    <2> QED BY <2>1 DEF ReceiptsDecided, RetiredIsGone, RequestsDigested, LogDigested, Digested,
                ConsumersHoldCaptured, DetailsHaveReceipt, NeverMismatch, Mismatch, WithheldNeverStored, TombstoneFinal
<1>2. CASE SweepDetails \/ \E e \in Events : DropDetail(e)
    <2>1. details' \subseteq details /\ UNCHANGED <<state, storage, deletions, age, req, log, worker>>
        BY <1>2 DEF SweepDetails, DropDetail, receiptVars
    <2> QED BY <2>1 DEF ReceiptsDecided, RetiredIsGone, RequestsDigested, LogDigested, Digested,
                ConsumersHoldCaptured, DetailsHaveReceipt, NeverMismatch, Mismatch, WithheldNeverStored, TombstoneFinal
<1>3. ASSUME NEW e \in Deletable, Remove(e) PROVE Consistent'
    <2>1. /\ deletions' = deletions \cup {e}
          /\ \A x \in Events \ {e} : state'[x] = state[x]
          /\ state'[e] = IF state[e] = "none" THEN "none" ELSE "deleted"
          /\ UNCHANGED <<storage, details, age, req, log, worker>>
        BY <1>3, ReceiptAssumption DEF Remove, TypeOK
    <2>2. \A x \in Events : state'[x] = "none" <=> state[x] = "none"
        BY <2>1
    <2>3. /\ \A r \in Requests : req[r].batch \subseteq Events
          /\ \A m \in log : m.event \in Events
          /\ \A w \in Workers : \A m \in worker[w].holds : m.event \in Events
        BY DEF TypeOK, Request, Consumer, Message
    <2>4. ReceiptsDecided'
        <3>1. \A x \in Events \ {e} : state[x] = "deleted" => x \in deletions
            BY DEF ReceiptsDecided
        <3>2. state'[e] = "deleted" \/ state'[e] = "none"
            BY <2>1
        <3> QED BY <2>1, <3>1, <3>2 DEF ReceiptsDecided, Writable, Suppressed
    <2>8. TombstoneFinal'
        BY <2>1, ReceiptAssumption DEF TombstoneFinal, TypeOK
    <2>5. RetiredIsGone' /\ RequestsDigested' /\ LogDigested'
        BY <2>1, <2>2, <2>3 DEF RetiredIsGone, RequestsDigested, LogDigested, Digested
    <2>6. ConsumersHoldCaptured' /\ NeverMismatch'
        BY <2>1, <2>2, <2>3 DEF ConsumersHoldCaptured, NeverMismatch, Mismatch
    <2>7. DetailsHaveReceipt' /\ WithheldNeverStored'
        BY <2>1, <2>2 DEF DetailsHaveReceipt, WithheldNeverStored, TypeOK
    <2> QED BY <2>4, <2>5, <2>6, <2>7, <2>8
<1>4. ASSUME NEW S \in SUBSET Events, CleanReceipts(S) PROVE Consistent'
    <2>1. /\ \A x \in Events : IF x \in S THEN age[x] = "retired" /\ state'[x] = "none" ELSE state'[x] = state[x]
          /\ UNCHANGED <<storage, deletions, details, age, req, log, worker>>
        BY <1>4 DEF CleanReceipts
    <2>2. /\ \A r \in Requests : req[r].batch \cap S = {}
          /\ \A m \in log : m.event \notin S
          /\ \A w \in Workers : \A m \in worker[w].holds : m.event \notin S
        BY <2>1 DEF RetiredIsGone
    <2>3. /\ \A r \in Requests : req[r].batch \subseteq Events
          /\ \A m \in log : m.event \in Events
          /\ \A w \in Workers : \A m \in worker[w].holds : m.event \in Events
        BY DEF TypeOK, Request, Consumer, Message
    <2>4. ReceiptsDecided' /\ TombstoneFinal'
        BY <2>1 DEF ReceiptsDecided, TombstoneFinal, Writable, Suppressed, TypeOK
    <2>5. RetiredIsGone' /\ RequestsDigested' /\ LogDigested'
        BY <2>1, <2>2, <2>3 DEF RetiredIsGone, RequestsDigested, LogDigested, Digested
    <2>6. ConsumersHoldCaptured' /\ NeverMismatch'
        BY <2>1, <2>2, <2>3 DEF ConsumersHoldCaptured, NeverMismatch, Mismatch
    <2>7. DetailsHaveReceipt' /\ WithheldNeverStored'
        BY <2>1 DEF DetailsHaveReceipt, WithheldNeverStored, TypeOK
    <2> QED BY <2>4, <2>5, <2>6, <2>7
<1>5. ASSUME NEW e \in Events, Expire(e) \/ Retire(e) PROVE Consistent'
    <2>1. /\ \A x \in Events \ {e} : age'[x] = age[x]
          /\ age[e] # "retired"
          /\ log' \subseteq log
          /\ UNCHANGED <<state, storage, deletions, details, req, worker>>
        BY <1>5 DEF Expire, Retire, receiptVars, TypeOK
    <2>2. age'[e] = "retired" => /\ \A r \in Requests : e \notin req[r].batch
                                 /\ \A w \in Workers : \A m \in worker[w].holds : m.event # e
                                 /\ \A m \in log' : m.event # e
        BY <1>5 DEF Expire, Retire, TypeOK
    <2>3. RetiredIsGone'
        BY <2>1, <2>2 DEF RetiredIsGone
    <2>4. DetailsHaveReceipt'
        BY <2>1 DEF DetailsHaveReceipt, TypeOK
    <2> QED BY <2>1, <2>3, <2>4 DEF ReceiptsDecided, RequestsDigested, LogDigested, Digested,
                ConsumersHoldCaptured, NeverMismatch, Mismatch, WithheldNeverStored, TombstoneFinal
<1> QED BY <1>1, <1>2, <1>3, <1>4, <1>5 DEF Operate, Time

\* The receipts, the requests, the log and the consumers stay consistent.
LEMMA ConsistentStep ==
    ASSUME TypeOK, Consistent, [Next]_vars
    PROVE  Consistent'
<1>1. ASSUME NEW r \in Requests, Api(r) PROVE Consistent'
    BY <1>1, AdmitConsistent, RequestConsistent DEF Api
<1> QED BY <1>1, PersistConsistent, OperateConsistent DEF Next

\* Along the whole way the envelope of an event matches its receipt (admit, publish, persist).
THEOREM Consistency == Spec => [](TypeOK /\ Consistent)
<1>1. Init => Consistent
    BY ReceiptAssumption
       DEF Init, Consistent, ReceiptsDecided, RetiredIsGone, RequestsDigested, LogDigested, ConsumersHoldCaptured,
           DetailsHaveReceipt, NeverMismatch, WithheldNeverStored, TombstoneFinal, IdleRequest, IdleWorker,
           Writable, Suppressed
<1>2. TypeOK /\ Consistent /\ [Next]_vars => Consistent'
    BY ConsistentStep
<1> QED BY <1>1, <1>2, TypeCorrect, PTL DEF Spec

\* A consumer never meets an envelope that differs from its receipt, withheld
\* evidence is never stored, and no deletion is undone by a consumer that was late.
THEOREM EvidenceSafe == Spec => [](NeverMismatch /\ WithheldNeverStored /\ TombstoneFinal)
<1>1. TypeOK /\ Consistent => NeverMismatch /\ WithheldNeverStored /\ TombstoneFinal
    BY DEF Consistent
<1> QED BY <1>1, Consistency, PTL

\* A retry never rewrites the digests or the first admission of its receipt.
THEOREM FirstAdmission == Spec => FirstAdmissionKept
<1>1. TypeOK /\ [Next]_vars =>
        [\A e \in Events : state[e] # "none" /\ state'[e] # "none" =>
            /\ storage'[e] = storage[e] /\ input'[e] = input[e] /\ createdAt'[e] = createdAt[e]]_vars
    <2> SUFFICES ASSUME TypeOK, Next, NEW e \in Events, state[e] # "none"
                 PROVE  storage'[e] = storage[e] /\ input'[e] = input[e] /\ createdAt'[e] = createdAt[e]
        OBVIOUS
    <2>1. ASSUME NEW r \in Requests, Api(r) PROVE storage'[e] = storage[e] /\ input'[e] = input[e] /\ createdAt'[e] = createdAt[e]
        BY <2>1 DEF Api, Receive, Admit, New, Refuse, Publish, Fail, receiptVars
    <2>2. (\E w \in Workers : Persist(w)) \/ Operate \/ Time => UNCHANGED <<storage, input, createdAt>>
        BY DEF Persist, ReadReceipt, CheckReceipt, InsertDetail, FailInsert, MarkReady, MarkFailed, Crash,
               Operate, PublishPolicy, Remove, SweepDetails, SweepMark, SweepAbort, CleanReceipts,
               PublishDirectory, Time, Tick, Expire, DropDetail, Retire, receiptVars
    <2> QED BY <2>1, <2>2 DEF Next
<1> QED BY <1>1, TypeCorrect, PTL DEF Spec, FirstAdmissionKept

-----------------------------------------------------------------------------
\* Only admission and the purge give or take a receipt; a step of another kind
\* leaves its first admission and the counters alone.
LEMMA ReceiptSteps ==
    ASSUME TypeOK, [Next]_vars
    PROVE  \/ \E r \in Requests : \E kept \in SUBSET Candidates(r) : Admit(r, kept)
           \/ \E S \in SUBSET Events : CleanReceipts(S)
           \/ /\ UNCHANGED <<storage, createdAt, admitted>>
              /\ \A e \in Events : state'[e] = "none" <=> state[e] = "none"
<1>1. CASE \E r \in Requests : Api(r)
    BY <1>1 DEF Api, Receive, Refuse, Publish, Fail, receiptVars
<1>2. CASE \E w \in Workers : Persist(w)
    BY <1>2 DEF Persist, ReadReceipt, CheckReceipt, InsertDetail, FailInsert, MarkReady, MarkFailed, Crash,
           SetState, TypeOK, Writable, receiptVars, apiVars
<1>3. CASE Operate
    BY <1>3 DEF Operate, PublishPolicy, Remove, SweepDetails, SweepMark, SweepAbort, PublishDirectory,
           TypeOK, receiptVars
<1>4. CASE Time \/ UNCHANGED vars
    BY <1>4 DEF Time, Tick, Expire, DropDetail, Retire, vars, receiptVars
<1> QED BY <1>1, <1>2, <1>3, <1>4 DEF Next

\* Only its own step changes a consumer.
LEMMA WorkerSteps ==
    ASSUME TypeOK, [Next]_vars, NEW w \in Workers, worker'[w] # worker[w]
    PROVE  Persist(w)
<1>1. CASE ~\E v \in Workers : Persist(v)
    BY <1>1 DEF Next, Api, Receive, Admit, Refuse, Publish, Fail, Operate, PublishPolicy, Remove,
       SweepDetails, SweepMark, SweepAbort, CleanReceipts, PublishDirectory, Time, Tick, Expire,
       DropDetail, Retire, vars
<1>2. CASE \E v \in Workers : Persist(v)
    <2>1. PICK v \in Workers : Persist(v)
        BY <1>2
    <2>2. \A u \in Workers \ {v} : worker'[u] = worker[u]
        <3>1. CASE \E m \in log : ReadReceipt(v, m) BY <3>1 DEF ReadReceipt, TypeOK
        <3>2. CASE CheckReceipt(v) BY <3>2 DEF CheckReceipt, TypeOK
        <3>3. CASE InsertDetail(v) \/ FailInsert(v) BY <3>3 DEF InsertDetail, FailInsert, TypeOK
        <3>4. CASE MarkReady(v) \/ MarkFailed(v) \/ Crash(v) BY <3>4 DEF MarkReady, MarkFailed, Crash, TypeOK
        <3> QED BY <2>1, <3>1, <3>2, <3>3, <3>4 DEF Persist
    <2> QED BY <2>1, <2>2
<1> QED BY <1>1, <1>2

\* A consumer drops the message it holds or takes a single one from the log.
LEMMA OneMessage ==
    ASSUME TypeOK, OneAtATime, [Next]_vars
    PROVE  OneAtATime'
<1>1. ASSUME NEW w \in Workers
      PROVE  \A m, n \in worker'[w].holds : m.event = n.event
    <2>1. CASE worker'[w] = worker[w]
        BY <2>1 DEF OneAtATime
    <2>2. CASE worker'[w] # worker[w]
        <3>1. \/ worker'[w].holds = worker[w].holds
              \/ worker'[w].holds = {}
              \/ \E m : worker'[w].holds = {m}
            <4>1. CASE \E m \in log : ReadReceipt(w, m)
                <5>1. PICK m \in log : ReadReceipt(w, m)
                    BY <4>1
                <5>2. worker'[w].holds = {m}
                    BY <5>1 DEF ReadReceipt, TypeOK
                <5> QED BY <5>2
            <4>2. CASE CheckReceipt(w)
                <5>1. worker' = [worker EXCEPT ![w].pc = "insert"] \/ worker' = [worker EXCEPT ![w] = IdleWorker]
                    BY <4>2 DEF CheckReceipt
                <5> QED BY <5>1 DEF TypeOK, Consumer, IdleWorker
            <4>3. CASE InsertDetail(w) \/ FailInsert(w) BY <4>3 DEF InsertDetail, FailInsert, TypeOK, Consumer
            <4>4. CASE MarkReady(w) \/ MarkFailed(w) \/ Crash(w)
                BY <4>4 DEF MarkReady, MarkFailed, Crash, TypeOK, IdleWorker
            <4> QED BY <2>2, WorkerSteps, <4>1, <4>2, <4>3, <4>4 DEF Persist
        <3> QED BY <3>1 DEF OneAtATime
    <2> QED BY <2>1, <2>2
<1> QED BY <1>1 DEF OneAtATime

\* Age moves from live to expired to retired, and only what has a receipt expires.
LEMMA AgeSteps ==
    ASSUME TypeOK, [Next]_vars, NEW e \in Events
    PROVE  \/ age'[e] = age[e]
           \/ age[e] = "live" /\ age'[e] = "expired" /\ state[e] # "none" /\ state' = state
           \/ /\ age[e] = "expired" /\ age'[e] = "retired" /\ createdAt[e] + WindowKeep < minute
              /\ UNCHANGED <<state, createdAt, minute>>
<1>1. CASE Time
    BY <1>1 DEF Time, Tick, Expire, DropDetail, Retire, TypeOK, receiptVars
<1>2. CASE ~Time
    BY <1>2 DEF Next, Api, Receive, Admit, Refuse, Publish, Fail, Operate, PublishPolicy, Remove,
           SweepDetails, SweepMark, SweepAbort, CleanReceipts, PublishDirectory, Persist, ReadReceipt,
           CheckReceipt, InsertDetail, FailInsert, MarkReady, MarkFailed, Crash, apiVars, vars
<1> QED BY <1>1, <1>2

-----------------------------------------------------------------------------
\* The abstract life of evidence.  A step that leaves the receipt's state, its
\* tombstone and its age alone is not seen.
LEMMA NotSeen ==
    ASSUME NEW e \in Events, state'[e] = state[e], e \in deletions' <=> e \in deletions, age'[e] = age[e]
    PROVE  Seen(e)' = Seen(e)
BY DEF Seen

\* A single event that is seen otherwise is one entry of the evidence changed.
LEMMA OneSeen ==
    ASSUME NEW e \in Events, NEW s, Seen(e)' = s, \A x \in Events \ {e} : Seen(x)' = Seen(x)
    PROVE  [x \in Events |-> Seen(x)]' = [[x \in Events |-> Seen(x)] EXCEPT ![e] = s]
OBVIOUS

\* An admission decides each of its new events once.
LEMMA AdmitDecides ==
    ASSUME TypeOK, Consistent, NEW r \in Requests, NEW kept \in SUBSET Candidates(r), Admit(r, kept)
    PROVE  Evidence!Decide
<1>1. UNCHANGED <<deletions, age>>
    BY DEF Admit
<1>2. ASSUME NEW e \in Events
      PROVE  \/ Seen(e)' = Seen(e)
             \/ Seen(e) = "unknown" /\ Seen(e)' \in {"kept", "withheld"}
    <2>1. CASE e \notin New(r)
        <3>1. state'[e] = state[e]
            BY <2>1 DEF Admit
        <3> QED BY <1>1, <3>1, NotSeen
    <2>2. CASE e \in New(r)
        <3>1. state'[e] = Decision(r, kept, e) /\ state[e] = "none"
            BY <2>2 DEF Admit, New
        <3>2. /\ Decision(r, kept, e) \in ReceiptState \ {"none", "ready", "write_failed"}
              /\ Decision(r, kept, e) = "deleted" => e \in deletions
            BY AdmissionDecides
        <3> QED BY <1>1, <3>1, <3>2 DEF Seen, ReceiptState, Writable, Suppressed
    <2> QED BY <2>1, <2>2
<1>3. \A e \in Events : Seen(e)' \in {"unknown", "kept", "withheld", "readable", "deleted", "expired"}
    BY DEF Seen
<1> QED BY <1>2, <1>3 DEF Evidence!Decide

\* A consumer makes evidence readable that was kept, of the one event it holds.
LEMMA PersistStores ==
    ASSUME TypeOK, Consistent, OneAtATime, NEW w \in Workers, Persist(w)
    PROVE  \/ \E e \in Events : Evidence!Store(e)
           \/ UNCHANGED [e \in Events |-> Seen(e)]
<1>1. UNCHANGED <<deletions, age>>
    BY DEF Persist, ReadReceipt, CheckReceipt, InsertDetail, FailInsert, MarkReady, MarkFailed, Crash, apiVars
<1>2. CASE ~MarkReady(w)
    <2>1. \A e \in Events : state'[e] = state[e] \/ (state[e] \in Writable /\ state'[e] \in Writable)
        BY <1>2 DEF Persist, ReadReceipt, CheckReceipt, InsertDetail, FailInsert, MarkFailed, Crash, receiptVars,
               SetState, Writable
    <2>2. \A e \in Events : Seen(e)' = Seen(e)
        BY <1>1, <2>1 DEF Seen, Writable
    <2> QED BY <2>2
<1>3. CASE MarkReady(w)
    <2>1. \A e \in Events : state'[e] = IF state[e] \in Writable /\ \E m \in worker[w].holds : m.event = e
                                        THEN "ready" ELSE state[e]
        BY <1>3 DEF MarkReady, SetState
    <2>2. CASE \E e \in Events : state[e] \in Writable /\ (\E m \in worker[w].holds : m.event = e) /\ age[e] = "live"
        <3>1. PICK e \in Events : state[e] \in Writable /\ (\E m \in worker[w].holds : m.event = e) /\ age[e] = "live"
            BY <2>2
        <3>2. \A x \in Events \ {e} : state'[x] = state[x]
            BY <2>1, <3>1 DEF OneAtATime
        <3>3. \A x \in Events \ {e} : Seen(x)' = Seen(x)
            BY <1>1, <3>2, NotSeen
        <3>4. e \notin deletions
            BY <3>1 DEF Consistent, TombstoneFinal, Writable
        <3>5. Seen(e) = "kept" /\ Seen(e)' = "readable"
            BY <1>1, <2>1, <3>1, <3>4 DEF Seen, Writable
        <3>6. Evidence!Store(e)
            BY <3>3, <3>5, OneSeen DEF Evidence!Store
        <3> QED BY <3>6
    <2>3. CASE ~\E e \in Events : state[e] \in Writable /\ (\E m \in worker[w].holds : m.event = e) /\ age[e] = "live"
        <3>1. \A e \in Events : state'[e] = state[e] \/ (age[e] # "live" /\ state[e] # "none" /\ state'[e] # "none")
            BY <2>1, <2>3 DEF Writable
        <3>2. \A e \in Events : Seen(e)' = Seen(e)
            BY <1>1, <3>1 DEF Seen
        <3> QED BY <3>2
    <2> QED BY <2>2, <2>3
<1> QED BY <1>2, <1>3

\* Deletion, expiry and the purge are what the abstract life allows, the purge
\* because only events past their 90 days lose their receipt.
LEMMA OperateSeen ==
    ASSUME TypeOK, Operate \/ Time
    PROVE  \/ \E e \in Events : Evidence!Delete(e) \/ Evidence!Expire(e)
           \/ UNCHANGED [e \in Events |-> Seen(e)]
<1>1. ASSUME NEW e \in Deletable, Remove(e)
      PROVE  \E x \in Events : Evidence!Delete(x)
    <2>1. e \in Events /\ Seen(e)' = "deleted"
        BY <1>1, ReceiptAssumption DEF Remove, Seen
    <2>2. \A x \in Events \ {e} : Seen(x)' = Seen(x)
        BY <1>1 DEF Remove, Seen, TypeOK
    <2>3. Evidence!Delete(e)
        BY <2>1, <2>2, OneSeen DEF Evidence!Delete
    <2> QED BY <2>1, <2>3
<1>2. ASSUME NEW S \in SUBSET Events, CleanReceipts(S)
      PROVE  UNCHANGED [e \in Events |-> Seen(e)]
    <2>1. \A e \in Events : Seen(e)' = Seen(e)
        BY <1>2 DEF CleanReceipts, Seen
    <2> QED BY <2>1
<1>3. ASSUME NEW e \in Events, Expire(e)
      PROVE  Evidence!Expire(e) \/ UNCHANGED [x \in Events |-> Seen(x)]
    <2>1. \A x \in Events \ {e} : Seen(x)' = Seen(x)
        BY <1>3 DEF Expire, Seen, TypeOK, receiptVars
    <2>2. age'[e] = "expired" /\ age[e] = "live" /\ state[e] # "none" /\ UNCHANGED <<state, deletions>>
        BY <1>3 DEF Expire, TypeOK, receiptVars
    <2>3. CASE e \in deletions
        <3>1. Seen(e)' = Seen(e)
            BY <2>2, <2>3 DEF Seen
        <3> QED BY <2>1, <3>1
    <2>4. CASE e \notin deletions
        <3>1. Seen(e)' = "expired" /\ Seen(e) \in {"kept", "withheld", "readable"}
            BY <2>2, <2>4 DEF Seen
        <3> QED BY <2>1, <3>1, OneSeen DEF Evidence!Expire
    <2> QED BY <2>3, <2>4
<1>4. ASSUME NEW e \in Events, Retire(e)
      PROVE  UNCHANGED [x \in Events |-> Seen(x)]
    <2>1. \A x \in Events : Seen(x)' = Seen(x)
        BY <1>4 DEF Retire, Seen, TypeOK, receiptVars
    <2> QED BY <2>1
<1>5. ASSUME \/ \E p \in Policies : PublishPolicy(p)
             \/ SweepDetails \/ SweepMark \/ SweepAbort \/ PublishDirectory \/ Tick
             \/ \E e \in Events : DropDetail(e)
      PROVE  UNCHANGED [x \in Events |-> Seen(x)]
    <2>1. UNCHANGED <<state, deletions, age>>
        BY <1>5 DEF PublishPolicy, SweepDetails, SweepMark, SweepAbort, PublishDirectory, Tick, DropDetail, receiptVars
    <2>2. \A x \in Events : Seen(x)' = Seen(x)
        BY <2>1 DEF Seen
    <2> QED BY <2>2
<1> QED BY <1>1, <1>2, <1>3, <1>4, <1>5 DEF Operate, Time

\* Every step of the pipeline is a step of the abstract life of evidence, or is
\* not seen by a reader: evidence is decided once, becomes readable only if it
\* was kept, and is never seen again once it is deleted or has expired.
THEOREM EvidenceImplemented == Spec => EvidenceSpec
<1>1. Init => Evidence!Init /\ OneAtATime
    BY DEF Init, Evidence!Init, Seen, OneAtATime, IdleWorker
<1>2. TypeOK /\ OneAtATime /\ [Next]_vars => OneAtATime'
    BY OneMessage
<1>3. TypeOK /\ Consistent /\ OneAtATime /\ [Next]_vars
        => [Evidence!Next]_([e \in Events |-> Seen(e)])
    <2> SUFFICES ASSUME TypeOK, Consistent, OneAtATime, [Next]_vars
                 PROVE  Evidence!Next \/ UNCHANGED [e \in Events |-> Seen(e)]
        OBVIOUS
    <2>1. ASSUME NEW r \in Requests, Api(r)
          PROVE  Evidence!Decide \/ UNCHANGED [e \in Events |-> Seen(e)]
        <3>1. CASE \E kept \in SUBSET Candidates(r) : Admit(r, kept)
            BY <3>1, AdmitDecides
        <3>2. CASE ~\E kept \in SUBSET Candidates(r) : Admit(r, kept)
            <4>1. UNCHANGED <<state, deletions, age>>
                BY <2>1, <3>2 DEF Api, Receive, Refuse, Publish, Fail, receiptVars
            <4>2. \A x \in Events : Seen(x)' = Seen(x)
                BY <4>1 DEF Seen
            <4> QED BY <4>2
        <3> QED BY <3>1, <3>2
    <2>2. ASSUME UNCHANGED vars
          PROVE  UNCHANGED [e \in Events |-> Seen(e)]
        <3>1. \A x \in Events : Seen(x)' = Seen(x)
            BY <2>2 DEF vars, receiptVars, Seen
        <3> QED BY <3>1
    <2> QED BY <2>1, <2>2, PersistStores, OperateSeen DEF Next, Evidence!Next
<1> QED BY <1>1, <1>2, <1>3, Consistency, PTL DEF Spec, EvidenceSpec, Evidence!Spec

-----------------------------------------------------------------------------
\* The budget of a page.

LEMMA KeptCount ==
    ASSUME NEW p \in Pages, NEW w \in 0 .. MaxMinute
    PROVE  IsFiniteSet(Kept(p, w)) /\ Cardinality(Kept(p, w)) \in Nat
<1>1. Kept(p, w) \subseteq Events
    BY DEF Kept
<1>2. IsFiniteSet(Kept(p, w))
    BY <1>1, FS_Subset, ReceiptAssumption
<1> QED BY <1>2, FS_CardinalityType

\* An admission keeps the raw envelopes of the candidates it chose and no other,
\* in the window of its request.
LEMMA AdmitKeeps ==
    ASSUME TypeOK, NEW r \in Requests, NEW kept \in SUBSET Candidates(r), Admit(r, kept),
           NEW p \in Pages, NEW w \in 0 .. MaxMinute
    PROVE  /\ Kept(p, w)' = IF w = req[r].minute THEN Kept(p, w) \cup OnPage(p, kept) ELSE Kept(p, w)
           /\ Kept(p, w) \cap OnPage(p, kept) = {}
<1>1. req[r] \in Request
    BY DEF TypeOK
<1>2. New(r) \subseteq Events /\ kept \subseteq New(r) /\ \A e \in New(r) : state[e] = "none"
    BY <1>1 DEF New, Candidates, Request
<1>3. ASSUME NEW e \in New(r)
      PROVE  /\ state'[e] # "none" /\ createdAt'[e] = req[r].minute
             /\ storage'[e] = "captured" <=> e \in kept
    <2>1. /\ state'[e] = Decision(r, kept, e) /\ storage'[e] = Outcome(r, kept, e)
          /\ createdAt'[e] = req[r].minute
        BY <1>2, <1>3 DEF Admit
    <2>2. Decision(r, kept, e) # "none" /\ Client[e] \in Status
        BY <1>2, AdmissionDecides, ReceiptAssumption
    <2>3. e \in kept => Decision(r, kept, e) = "pending" /\ Client[e] = "captured"
        BY <1>2, <1>3, AdmissionDecides DEF Decision, Candidates
    <2>4. e \notin kept => Decision(r, kept, e) # "pending"
        BY <1>3 DEF Decision, Candidates
    <2>5. e \notin kept => Decision(r, kept, e) # "captured"
        BY <1>2, AdmissionDecides DEF ReceiptState, Writable, Suppressed
    <2>6. storage'[e] = "captured" <=> e \in kept
        BY <2>1, <2>2, <2>3, <2>4, <2>5 DEF Outcome, Absent
    <2> QED BY <2>1, <2>2, <2>6
<1>4. \A e \in Events \ New(r) : state'[e] = state[e] /\ storage'[e] = storage[e] /\ createdAt'[e] = createdAt[e]
    BY DEF Admit
<1>5. Kept(p, w)' = {e \in Events : PageOf[e] = p /\ state'[e] # "none" /\ storage'[e] = "captured" /\ createdAt'[e] = w}
    BY DEF Kept
<1>6. Kept(p, w)' = IF w = req[r].minute THEN Kept(p, w) \cup OnPage(p, kept) ELSE Kept(p, w)
    BY <1>2, <1>3, <1>4, <1>5 DEF Kept, OnPage
<1>7. Kept(p, w) \cap OnPage(p, kept) = {}
    BY <1>2 DEF Kept, OnPage
<1> QED BY <1>6, <1>7

\* What admission keeps fits in what is left of the page's minute.
LEMMA BudgetFits ==
    ASSUME TypeOK, NEW r \in Requests, NEW kept \in SUBSET Candidates(r), WithinBudget(r, kept), NEW p \in Pages,
           admitted[p][req[r].minute] <= PageLimit
    PROVE  /\ Cardinality(OnPage(p, kept)) \in Nat
           /\ admitted[p][req[r].minute] \in Nat
           /\ admitted[p][req[r].minute] + Cardinality(OnPage(p, kept)) <= PageLimit
<1>1. req[r] \in Request /\ admitted[p] \in [0 .. MaxMinute -> Nat] /\ policy \in Policy /\ PageLimit \in Nat
    BY ReceiptAssumption DEF TypeOK
<1>2. Candidates(r) \subseteq Events
    BY <1>1 DEF Candidates, New, Request
<1>3. Cardinality(OnPage(p, kept)) \in Nat /\ Cardinality(OnPage(p, Candidates(r))) \in Nat
    BY <1>2, PageCount
<1>4. admitted[p][req[r].minute] \in Nat
    BY <1>1 DEF Request
<1>5. Limit \in Nat /\ Limit <= PageLimit
    BY <1>1 DEF Limit, Policy
<1>6. Cardinality(OnPage(p, kept)) = IF Cardinality(OnPage(p, Candidates(r))) <= Left(p, req[r].minute)
                                     THEN Cardinality(OnPage(p, Candidates(r))) ELSE Left(p, req[r].minute)
    BY DEF WithinBudget
<1>7. Cardinality(OnPage(p, kept)) <= Left(p, req[r].minute)
    BY <1>3, <1>4, <1>5, <1>6 DEF Left
<1> QED BY <1>1, <1>3, <1>4, <1>5, <1>7 DEF Left

\* Admission counts what it keeps.
LEMMA AdmitCounts ==
    ASSUME TypeOK, CommitsInWindow, BudgetExact, NEW r \in Requests, NEW kept \in SUBSET Candidates(r), Admit(r, kept)
    PROVE  BudgetExact'
<1>1. req[r] \in Request /\ kept \in SUBSET Events /\ minute' = minute
    BY DEF TypeOK, Candidates, New, Request, Admit
<1>2. req[r].minute \in 0 .. MaxMinute /\ req[r].minute + WindowKeep >= minute
    BY <1>1, ReceiptAssumption DEF Admit, CommitsInWindow, Request, TypeOK
<1>3. ASSUME NEW p \in Pages, NEW w \in 0 .. MaxMinute
      PROVE  /\ Cardinality(Kept(p, w)') <= PageLimit
             /\ w + WindowKeep >= minute => admitted'[p][w] = Cardinality(Kept(p, w)')
    <2>1. admitted[p] \in [0 .. MaxMinute -> Nat]
        BY DEF TypeOK
    <2>2. admitted'[p] = [admitted[p] EXCEPT ![req[r].minute] = @ + Cardinality(OnPage(p, kept))]
        BY DEF Admit
    <2>3. CASE w # req[r].minute
        <3>1. admitted'[p][w] = admitted[p][w]
            BY <2>1, <2>2, <2>3
        <3>2. Kept(p, w)' = Kept(p, w)
            BY <2>3, AdmitKeeps
        <3> QED BY <3>1, <3>2 DEF BudgetExact
    <2>4. CASE w = req[r].minute
        <3>1. admitted[p][w] = Cardinality(Kept(p, w)) /\ Cardinality(Kept(p, w)) <= PageLimit
            BY <1>2, <2>4 DEF BudgetExact
        <3>2. admitted'[p][w] = admitted[p][w] + Cardinality(OnPage(p, kept))
            BY <1>2, <2>1, <2>2, <2>4
        <3>3. Kept(p, w)' = Kept(p, w) \cup OnPage(p, kept) /\ Kept(p, w) \cap OnPage(p, kept) = {}
            BY <2>4, AdmitKeeps
        <3>4. IsFiniteSet(Kept(p, w)) /\ Cardinality(Kept(p, w)) \in Nat
            BY KeptCount
        <3>5. OnPage(p, kept) \subseteq Events
            BY <1>1 DEF OnPage
        <3>6. IsFiniteSet(OnPage(p, kept)) /\ Cardinality(OnPage(p, kept)) \in Nat
            BY <1>1, <3>5, PageCount, FS_Subset, ReceiptAssumption
        <3>7. Cardinality(Kept(p, w) \cup OnPage(p, kept)) = Cardinality(Kept(p, w)) + Cardinality(OnPage(p, kept))
            BY <3>3, <3>4, <3>6, FS_Union, FS_EmptySet
        <3>8. admitted[p][w] + Cardinality(OnPage(p, kept)) <= PageLimit
            BY <2>4, <3>1, BudgetFits DEF Admit
        <3> QED BY <3>1, <3>2, <3>3, <3>7, <3>8
    <2> QED BY <2>3, <2>4
<1> QED BY <1>1, <1>3 DEF BudgetExact

\* The purge forgets counters of windows that are not counted any more, and
\* receipts of such windows.
LEMMA PurgeCounts ==
    ASSUME TypeOK, RetiredIsUncounted, BudgetExact, NEW S \in SUBSET Events, CleanReceipts(S)
    PROVE  BudgetExact'
<1>1. minute' = minute /\ minute \in Nat
    BY ReceiptAssumption DEF CleanReceipts, TypeOK
<1>2. ASSUME NEW p \in Pages, NEW w \in 0 .. MaxMinute
      PROVE  /\ Cardinality(Kept(p, w)') <= PageLimit
             /\ w + WindowKeep >= minute => admitted'[p][w] = Cardinality(Kept(p, w)')
    <2>1. Kept(p, w)' = Kept(p, w) \ S
        BY DEF Kept, CleanReceipts
    <2>2. Kept(p, w)' \in SUBSET Kept(p, w) /\ IsFiniteSet(Kept(p, w)) /\ Cardinality(Kept(p, w)) \in Nat
        BY <2>1, KeptCount
    <2>3. IsFiniteSet(Kept(p, w)') /\ Cardinality(Kept(p, w)') <= Cardinality(Kept(p, w))
        BY <2>2, FS_Subset
    <2>4. Cardinality(Kept(p, w)') \in Nat
        BY <2>3, FS_CardinalityType
    <2>5. Cardinality(Kept(p, w)') <= PageLimit
        BY <2>2, <2>3, <2>4, ReceiptAssumption DEF BudgetExact
    <2>6. ASSUME w + WindowKeep >= minute PROVE admitted'[p][w] = Cardinality(Kept(p, w)')
        <3>1. \A e \in S : createdAt[e] # w
            BY <1>1, <2>6, ReceiptAssumption DEF CleanReceipts, RetiredIsUncounted
        <3>2. Kept(p, w)' = Kept(p, w)
            BY <2>1, <3>1 DEF Kept
        <3>3. admitted'[p][w] = admitted[p][w]
            BY <1>1, <2>6, ReceiptAssumption DEF CleanReceipts
        <3> QED BY <2>6, <3>2, <3>3 DEF BudgetExact
    <2> QED BY <2>5, <2>6
<1> QED BY <1>1, <1>2 DEF BudgetExact

\* The clock does not leave behind a request that is about to commit, and what
\* is past its 90 days stays uncounted.
LEMMA WindowSteps ==
    ASSUME TypeOK, Consistent, CommitsInWindow, RetiredIsUncounted, [Next]_vars
    PROVE  CommitsInWindow' /\ RetiredIsUncounted' /\ minute' \in Nat /\ minute' >= minute
<1> USE ReceiptAssumption
<1>1. minute \in Nat /\ minute' \in Nat /\ minute' >= minute
    <2>1. minute \in Nat
        BY DEF TypeOK
    <2>2. CASE Tick
        BY <2>1, <2>2 DEF Tick
    <2>3. CASE ~Tick
        <3>1. minute' = minute
            BY <2>3 DEF Next, Api, Receive, Admit, Refuse, Publish, Fail, Persist, ReadReceipt, CheckReceipt,
               InsertDetail, FailInsert, MarkReady, MarkFailed, Crash, apiVars, Operate, PublishPolicy, Remove,
               SweepDetails, SweepMark, SweepAbort, CleanReceipts, PublishDirectory, Time, Expire,
               DropDetail, Retire, vars
        <3> QED BY <2>1, <3>1
    <2> QED BY <2>2, <2>3
<1>2. CommitsInWindow'
    <2>1. CASE \E r \in Requests : Api(r)
        <3>1. PICK r \in Requests : Api(r)
            BY <2>1
        <3>2. minute' = minute /\ \A q \in Requests \ {r} : req'[q] = req[q]
            BY <3>1 DEF Api, Receive, Admit, Refuse, Publish, Fail, TypeOK
        <3>3. req'[r].pc = "received" => req'[r].minute = minute
            BY <3>1 DEF Api, Receive, Admit, Refuse, Publish, Fail, TypeOK, IdleRequest, Request
        <3> QED BY <1>1, <3>2, <3>3 DEF CommitsInWindow
    <2>2. CASE Tick
        <3>1. \A r \in Requests : req[r].minute \in Nat
            BY DEF TypeOK, Request
        <3> QED BY <1>1, <2>2, <3>1 DEF Tick, CommitsInWindow
    <2>3. CASE ~Tick /\ ~\E r \in Requests : Api(r)
        <3>1. UNCHANGED <<minute, req>>
            BY <2>3 DEF Next, Persist, ReadReceipt, CheckReceipt,
               InsertDetail, FailInsert, MarkReady, MarkFailed, Crash, apiVars, Operate, PublishPolicy, Remove,
               SweepDetails, SweepMark, SweepAbort, CleanReceipts, PublishDirectory, Time, Expire,
               DropDetail, Retire, vars
        <3> QED BY <3>1 DEF CommitsInWindow
    <2> QED BY <2>1, <2>2, <2>3
<1>3. ASSUME NEW e \in Events, age'[e] = "retired" PROVE createdAt'[e] + WindowKeep < minute'
    <2>1. CASE age[e] = "retired"
        <3>1. createdAt[e] + WindowKeep < minute /\ createdAt[e] \in Nat
            BY <2>1 DEF RetiredIsUncounted, TypeOK
        <3>2. createdAt'[e] = createdAt[e]
            <4>1. CASE \E r \in Requests : \E kept \in SUBSET Candidates(r) : Admit(r, kept)
                <5>1. PICK r \in Requests : \E kept \in SUBSET Candidates(r) : Admit(r, kept)
                    BY <4>1
                <5>2. e \notin New(r)
                    BY <2>1 DEF New, Consistent, RetiredIsGone
                <5> QED BY <5>1, <5>2 DEF Admit
            <4> QED BY <4>1, ReceiptSteps DEF CleanReceipts
        <3> QED BY <1>1, <3>1, <3>2
    <2>2. CASE age[e] # "retired"
        BY <1>3, <2>2, AgeSteps
    <2> QED BY <2>1, <2>2
<1> QED BY <1>1, <1>2, <1>3 DEF RetiredIsUncounted

\* The raw envelopes of a page and a minute stay within the page's limit, and the
\* counter of a window in use is their number, whatever requests race or repeat.
THEOREM BudgetIsExact == Spec => []BudgetExact
<1> DEFINE Counted == BudgetExact /\ CommitsInWindow /\ RetiredIsUncounted
<1>1. Init => Counted
    <2> SUFFICES ASSUME Init PROVE Counted
        OBVIOUS
    <2>1. \A p \in Pages, w \in 0 .. MaxMinute : Kept(p, w) = {} /\ admitted[p][w] = 0
        BY DEF Init, Kept
    <2>2. \A p \in Pages, w \in 0 .. MaxMinute : Cardinality(Kept(p, w)) = 0 /\ admitted[p][w] = 0
        BY <2>1, FS_EmptySet
    <2>3. BudgetExact
        BY <2>2, ReceiptAssumption DEF BudgetExact
    <2> QED BY <2>3 DEF Init, CommitsInWindow, RetiredIsUncounted, IdleRequest
<1>2. TypeOK /\ Consistent /\ Counted /\ [Next]_vars => Counted'
    <2> SUFFICES ASSUME TypeOK, Consistent, Counted, [Next]_vars PROVE BudgetExact'
        BY WindowSteps
    <2>1. CASE \E r \in Requests : \E kept \in SUBSET Candidates(r) : Admit(r, kept)
        BY <2>1, AdmitCounts
    <2>2. CASE \E S \in SUBSET Events : CleanReceipts(S)
        BY <2>2, PurgeCounts
    <2>3. CASE /\ UNCHANGED <<storage, createdAt, admitted>>
               /\ \A e \in Events : state'[e] = "none" <=> state[e] = "none"
        <3>1. \A p \in Pages, w \in 0 .. MaxMinute : Kept(p, w)' = Kept(p, w)
            BY <2>3 DEF Kept
        <3>2. minute \in Nat /\ minute' \in Nat /\ minute' >= minute
            BY WindowSteps, ReceiptAssumption DEF TypeOK
        <3> QED BY <2>3, <3>1, <3>2, ReceiptAssumption DEF BudgetExact
    <2> QED BY <2>1, <2>2, <2>3, ReceiptSteps
<1> QED BY <1>1, <1>2, Consistency, PTL DEF Spec

-----------------------------------------------------------------------------
\* What is ready can be read.

\* Tombstones stay, and the cleanup's order is made of them.
LEMMA SweepSteps ==
    ASSUME TypeOK, SweepsTombstones, [Next]_vars
    PROVE  SweepsTombstones' /\ deletions \subseteq deletions'
<1>1. ASSUME NEW e \in Deletable, Remove(e) PROVE SweepsTombstones' /\ deletions \subseteq deletions'
    <2>1. deletions' = deletions \cup {e}
        BY <1>1 DEF Remove
    <2>2. order \in Seq(deletions')
        BY <2>1 DEF SweepsTombstones
    <2>3. order' \in Seq(deletions')
        BY <1>1, <2>1, <2>2, AppendProperties DEF Remove
    <2> QED BY <2>1, <2>3 DEF SweepsTombstones
<1>2. ASSUME SweepMark PROVE SweepsTombstones' /\ deletions \subseteq deletions'
    <2>1. order' \in Seq(deletions) /\ deletions' = deletions
        BY <1>2, HeadTailProperties, AppendProperties DEF SweepMark, SweepsTombstones
    <2> QED BY <2>1 DEF SweepsTombstones
<1>3. CASE UNCHANGED <<order, deletions>>
    BY <1>3 DEF SweepsTombstones
<1>4. \/ \E e \in Deletable : Remove(e)
      \/ SweepMark
      \/ UNCHANGED <<order, deletions>>
    BY DEF Next, Api, Receive, Admit, Refuse, Publish, Fail, Persist, ReadReceipt, CheckReceipt,
           InsertDetail, FailInsert, MarkReady, MarkFailed, Crash, apiVars, Operate, PublishPolicy,
           SweepDetails, SweepAbort, CleanReceipts, PublishDirectory, Time, Tick, Expire,
           DropDetail, Retire, vars
<1> QED BY <1>1, <1>2, <1>3, <1>4

\* A row is removed for its tombstone or its own age.
LEMMA DetailSteps ==
    ASSUME TypeOK, SweepsTombstones, [Next]_vars, NEW e \in details, e \notin details'
    PROVE  (e \in deletions /\ deletions' = deletions) \/ (age[e] # "live" /\ age' = age)
<1>1. CASE SweepDetails
    <2>1. Head(order) \in deletions
        BY <1>1, HeadTailProperties DEF SweepDetails, SweepsTombstones
    <2> QED BY <1>1, <2>1 DEF SweepDetails
<1>2. CASE \E x \in Events : DropDetail(x)
    BY <1>2 DEF DropDetail
<1>3. CASE ~SweepDetails /\ ~\E x \in Events : DropDetail(x)
    <2>1. details \subseteq details'
        BY <1>3 DEF Next, Api, Receive, Admit, Refuse, Publish, Fail, Persist, ReadReceipt, CheckReceipt,
           InsertDetail, FailInsert, MarkReady, MarkFailed, Crash, receiptVars, apiVars, Operate, PublishPolicy, Remove,
           SweepMark, SweepAbort, CleanReceipts, PublishDirectory, Time, Tick, Expire, Retire, vars
    <2> QED BY <2>1
<1> QED BY <1>1, <1>2, <1>3

\* An event whose evidence is there, deleted or expired stays so.
Settled(e) == e \in details \/ e \in deletions \/ age[e] # "live"

LEMMA SettledStays ==
    ASSUME TypeOK, SweepsTombstones, [Next]_vars, NEW e \in Events, Settled(e)
    PROVE  Settled(e)'
<1>1. deletions \subseteq deletions'
    BY SweepSteps
<1>2. age[e] # "live" => age'[e] # "live"
    BY AgeSteps
<1>3. e \in details => e \in details' \/ e \in deletions \/ age[e] # "live"
    BY DetailSteps
<1> QED BY <1>1, <1>2, <1>3 DEF Settled

\* What a consumer was acknowledged is settled.
LEMMA AcknowledgedSteps ==
    ASSUME TypeOK, SweepsTombstones, AcknowledgedIsThere, [Next]_vars
    PROVE  AcknowledgedIsThere'
<1>1. ASSUME NEW w \in Workers, worker'[w].pc = "inserted", NEW m \in worker'[w].holds
      PROVE  Settled(m.event)'
    <2>1. CASE worker'[w] = worker[w]
        <3>1. m.event \in Events
            BY <1>1, <2>1 DEF TypeOK, Consumer, Message
        <3>2. Settled(m.event)
            BY <1>1, <2>1 DEF AcknowledgedIsThere, Settled
        <3> QED BY <3>1, <3>2, SettledStays
    <2>2. CASE worker'[w] # worker[w]
        <3>1. InsertDetail(w)
            <4>1. CASE \E q \in log : ReadReceipt(w, q) BY <1>1, <4>1 DEF ReadReceipt, TypeOK
            <4>2. CASE CheckReceipt(w) BY <1>1, <4>2 DEF CheckReceipt, TypeOK, Consumer, IdleWorker
            <4>3. CASE FailInsert(w) BY <1>1, <4>3 DEF FailInsert, TypeOK, Consumer
            <4>4. CASE MarkReady(w) \/ MarkFailed(w) \/ Crash(w)
                BY <1>1, <4>4 DEF MarkReady, MarkFailed, Crash, TypeOK, IdleWorker
            <4> QED BY <2>2, WorkerSteps, <4>1, <4>2, <4>3, <4>4 DEF Persist
        <3>2. worker'[w].holds = worker[w].holds
            BY <3>1 DEF InsertDetail, TypeOK, Consumer
        <3>3. m.event \in details'
            BY <1>1, <3>1, <3>2 DEF InsertDetail
        <3> QED BY <3>3 DEF Settled
    <2> QED BY <2>1, <2>2
<1> QED BY <1>1 DEF AcknowledgedIsThere, Settled

\* A receipt becomes ready only when the consumer that wrote its row marks it.
LEMMA ReadySteps ==
    ASSUME TypeOK, [Next]_vars, NEW e \in Events, state'[e] = "ready"
    PROVE  \/ state[e] = "ready"
           \/ /\ state[e] \in Writable /\ UNCHANGED <<details, age>>
              /\ \E w \in Workers : worker[w].pc = "inserted" /\ \E m \in worker[w].holds : m.event = e
<1>1. CASE \E r \in Requests : Api(r)
    <2>1. PICK r \in Requests : Api(r)
        BY <1>1
    <2>2. CASE \E kept \in SUBSET Candidates(r) : Admit(r, kept)
        BY <2>2, AdmissionDecides DEF Admit
    <2> QED BY <2>1, <2>2 DEF Api, Receive, Refuse, Publish, Fail, receiptVars
<1>2. CASE \E w \in Workers : Persist(w)
    BY <1>2 DEF Persist, ReadReceipt, CheckReceipt, InsertDetail, FailInsert, MarkReady, MarkFailed, Crash,
           SetState, receiptVars
<1>3. CASE Operate
    BY <1>3 DEF Operate, PublishPolicy, Remove, SweepDetails, SweepMark, SweepAbort, CleanReceipts, PublishDirectory,
           TypeOK, receiptVars
<1>4. CASE Time \/ UNCHANGED vars
    BY <1>4 DEF Time, Tick, Expire, DropDetail, Retire, vars, receiptVars
<1> QED BY <1>1, <1>2, <1>3, <1>4 DEF Next

LEMMA SweepsOnlyTombstones == Spec => []SweepsTombstones
<1>1. Init => SweepsTombstones
    BY DEF Init, SweepsTombstones
<1> QED BY <1>1, SweepSteps, TypeCorrect, PTL DEF Spec

\* A receipt that is ready has its row until the row's own TTL, although the cleanup
\* deletes rows, and a consumer marks a receipt, some time after it looked at it.
THEOREM ReadyIsThere == Spec => []ReadyHasDetail
<1>1. Init => SweepsTombstones /\ AcknowledgedIsThere /\ ReadyHasDetail
    <2> SUFFICES ASSUME Init PROVE SweepsTombstones /\ AcknowledgedIsThere /\ ReadyHasDetail
        OBVIOUS
    <2>1. SweepsTombstones
        BY DEF Init, SweepsTombstones
    <2> QED BY <2>1 DEF Init, AcknowledgedIsThere, ReadyHasDetail, IdleWorker
<1>2. TypeOK /\ Consistent /\ SweepsTombstones /\ AcknowledgedIsThere /\ ReadyHasDetail /\ [Next]_vars
        => SweepsTombstones' /\ AcknowledgedIsThere' /\ ReadyHasDetail'
    <2> SUFFICES ASSUME TypeOK, Consistent, SweepsTombstones, AcknowledgedIsThere, ReadyHasDetail, [Next]_vars,
                        Consistent', NEW e \in Events, state'[e] = "ready", age'[e] = "live"
                 PROVE  e \in details'
        <3> QED BY ConsistentStep, SweepSteps, AcknowledgedSteps DEF ReadyHasDetail
    <2>1. age[e] = "live" /\ deletions \subseteq deletions'
        BY AgeSteps, SweepSteps
    <2>2. e \notin deletions
        BY <2>1 DEF Consistent, TombstoneFinal
    <2>3. Settled(e)
        <3>1. CASE state[e] = "ready"
            BY <2>1, <3>1 DEF ReadyHasDetail, Settled
        <3>2. CASE state[e] # "ready"
            BY <3>2, ReadySteps DEF AcknowledgedIsThere, Settled
        <3> QED BY <3>1, <3>2
    <2> QED BY <2>1, <2>2, <2>3, DetailSteps DEF Settled
<1> QED BY <1>1, <1>2, Consistency, PTL DEF Spec
-----------------------------------------------------------------------------
\* Reading.

\* Why nothing of an event may be shown any more.
Gone(c, e) == e \in deletions \/ (c.receipt # "none" /\ age[e] # "live")

\* A fact without a receipt.
HasFact(e) == e \in plain \/ \E m \in log : m.event = e

Reads(c) == c.pc # "idle" /\ c.kind # "search"
Early == {"open export", "open", "receipt", "base"}
Searching == {"controller", "enter", "facts", "eligible", "texts", "current", "leave", "audit search"}

\* What a call holds fits the place where it is.
Fits(c) ==
    /\ c.kind = "search" /\ c.pc # "idle" <=> c.pc \in Searching \/ (c.pc = "answer" /\ c.kind = "search")
    /\ c.pc \in {"open export", "exporting", "close export", "export deleted", "audit export"} => c.kind = "export"
    /\ c.pc \in Early => c.state = "" /\ c.holds = "nothing"
    /\ c.pc \in Early \ {"base"} => c.receipt = "none"
    /\ c.base => c.pc \in {"deleted", "detail"}
    /\ c.pc \in {"deleted", "detail"} => c.holds = "nothing"
    /\ c.state = "ready" => c.receipt = "ready"
    /\ c.holds = "legacy" => c.receipt = "none"
    /\ c.holds = "detail" /\ c.kind # "search" => c.receipt = "ready"
    /\ c.kind = "search" => c.receipt = "none" /\ c.holds # "legacy"
    /\ c.pc = "answer" => c.audited

\* What is held was allowed and readable at one moment, or has gone and is about to be found gone; what
\* is held was allowed and readable at one moment.
Checking(c) == (c.kind = "read" /\ c.pc = "recheck") \/ c.pc = "export deleted"
Checked(c) ==
    \/ c.kind = "read" /\ c.pc \in {"audit", "answer"}
    \/ c.kind = "export" /\ c.pc \in {"audit export", "answer"}

Sound(c, s, e) ==
    /\ c.receipt = "ready" => Gone(c, e) \/ state[e] = "ready"
    /\ c.base \/ c.holds = "legacy" => HasFact(e)
    /\ c.receipt = "ready" /\ c.pc \notin Early =>
         c.state \in {"ready", "deleted", "expired"} \/ (Gone(c, e) /\ c.pc \in {"again", "recheck"})
    /\ c.holds # "nothing" /\ Checking(c) => Gone(c, e) \/ <<e, c.holds>> \in s
    /\ c.holds # "nothing" /\ Checked(c) => <<e, c.holds>> \in s

\* A search has found what was readable.
HasFound(c, s) == c.pc \in {"leave", "audit search", "answer"} => c.event \X {"detail"} \subseteq s

CallInvariant ==
    /\ Fits(call)
    /\ call.pc # "idle" => SeenNow \subseteq seen
    /\ Reads(call) => \A e \in Events : call.event = {e} => Sound(call, seen, e)
    /\ call.kind = "search" => HasFound(call, seen)

\* The event of a read or an export.
LEMMA HereIs ==
    ASSUME NEW e \in Events, call.event = {e}
    PROVE  Here = e
BY DEF Here

\* What was read of an event can be read as long as it has not gone.
LEMMA HeldIsReadable ==
    ASSUME ReadyHasDetail, NEW c, NEW e \in Events, Fits(c), Reads(c), c.holds \in {"detail", "legacy"},
           c.receipt = "ready" => Gone(c, e) \/ state[e] = "ready",
           c.base \/ c.holds = "legacy" => HasFact(e), ~Gone(c, e)
    PROVE  <<e, c.holds>> \in ReadableNow
<1>1. CASE c.holds = "detail"
    <2>1. c.receipt = "ready" /\ state[e] = "ready" /\ age[e] = "live" /\ e \notin deletions
        BY <1>1 DEF Fits, Reads, Gone
    <2>2. e \in details
        BY <2>1 DEF ReadyHasDetail
    <2>3. <<e, "detail">> \in ReadableNow
        BY <2>1, <2>2 DEF ReadableNow
    <2> QED BY <1>1, <2>3
<1>2. CASE c.holds = "legacy"
    <2>1. HasFact(e) /\ e \notin deletions
        BY <1>2 DEF Gone
    <2>2. <<e, "legacy">> \in ReadableNow
        BY <2>1 DEF ReadableNow, HasFact
    <2> QED BY <1>2, <2>2
<1> QED BY <1>1, <1>2

\* The pipeline: a call that waits remains sound.
LEMMA ReceiptStaysReady ==
    ASSUME TypeOK, [Next]_vars, NEW e \in Events, state[e] = "ready"
    PROVE  state'[e] = "ready" \/ e \in deletions' \/ age'[e] # "live"
<1>1. CASE \E r \in Requests : Api(r)
    <2>1. PICK r \in Requests : Api(r)
        BY <1>1
    <2>2. ASSUME NEW kept \in SUBSET Candidates(r), Admit(r, kept)
          PROVE  state'[e] = "ready"
        BY <2>2 DEF Admit, New
    <2> QED BY <2>1, <2>2 DEF Api, Receive, Refuse, Publish, Fail, receiptVars
<1>2. CASE \E w \in Workers : Persist(w)
    BY <1>2 DEF Persist, ReadReceipt, CheckReceipt, InsertDetail, FailInsert, MarkReady, MarkFailed, Crash,
           SetState, Writable, receiptVars
<1>3. CASE Operate
    <2>1. CASE \E x \in Deletable : Remove(x)
        BY <2>1 DEF Remove, TypeOK
    <2>2. CASE \E S \in SUBSET Events : CleanReceipts(S)
        BY <2>2 DEF CleanReceipts
    <2> QED BY <1>3, <2>1, <2>2 DEF Operate, PublishPolicy, SweepDetails, SweepMark, SweepAbort, PublishDirectory,
               receiptVars
<1>4. CASE Time \/ UNCHANGED vars
    BY <1>4 DEF Time, Tick, Expire, DropDetail, Retire, vars, receiptVars
<1> QED BY <1>1, <1>2, <1>3, <1>4 DEF Next

\* The log keeps the messages of an event that is not retired.
LEMMA LogStays ==
    ASSUME TypeOK, [Next]_vars, NEW m \in log, m \notin log'
    PROVE  age[m.event] # "retired" /\ age'[m.event] = "retired"
<1>1. CASE \E e \in Events : Retire(e)
    BY <1>1 DEF Retire, TypeOK
<1>2. CASE ~\E e \in Events : Retire(e)
    <2>1. log \subseteq log'
        BY <1>2 DEF Next, Api, Receive, Admit, Refuse, Publish, Fail, Persist, ReadReceipt, CheckReceipt,
           InsertDetail, FailInsert, MarkReady, MarkFailed, Crash, receiptVars, apiVars, Operate, PublishPolicy, Remove,
           SweepDetails, SweepMark, SweepAbort, CleanReceipts, PublishDirectory, Time, Tick, Expire, DropDetail, vars
    <2> QED BY <2>1
<1> QED BY <1>1, <1>2

\* What has gone stays gone, and what is ready or a fact stays so until it has.
LEMMA WaitingCall ==
    ASSUME TypeOK, SweepsTombstones, [Next]_vars, NEW c, NEW e \in Events, UNCHANGED plain,
           age'[e] = "retired" => age[e] = "retired"
    PROVE  /\ Gone(c, e) => Gone(c, e)'
           /\ state[e] = "ready" /\ c.receipt = "ready" => Gone(c, e)' \/ state'[e] = "ready"
           /\ HasFact(e) => HasFact(e)'
<1>1. deletions \subseteq deletions'
    BY SweepSteps
<1>2. age[e] # "live" => age'[e] # "live"
    BY AgeSteps
<1>3. Gone(c, e) => Gone(c, e)'
    BY <1>1, <1>2 DEF Gone
<1>4. state[e] = "ready" /\ c.receipt = "ready" => Gone(c, e)' \/ state'[e] = "ready"
    BY ReceiptStaysReady DEF Gone
<1>5. HasFact(e) => HasFact(e)'
    BY LogStays DEF HasFact
<1> QED BY <1>3, <1>4, <1>5

\* The moments of a call are remembered.
Grown(c, s) == seen \subseteq s /\ (c.kind = "search" \/ Allowed(c.kind) => ReadableNow \subseteq s)

\* A read or an export that goes on from a call that is sound.
Reading(c, e) ==
    /\ call \in Call /\ e \in Events /\ call.event = {e} /\ Reads(call) /\ Fits(call) /\ Sound(call, seen, e)
    /\ c \in Call

Goes(c, s, e) == c.event = {e} /\ Reads(c) /\ Fits(c) /\ Sound(c, s, e)

LEMMA OpenGoes ==
    ASSUME NEW c, NEW s, NEW e, Reading(c, e), Grown(c, s),
           \/ call.pc = "open export" /\ c = [call EXCEPT !.pc = "open"]
           \/ call.pc = "open" /\ c = [call EXCEPT !.pc = "receipt"]
    PROVE  Goes(c, s, e)
<1>1. /\ c.kind = call.kind /\ c.event = call.event /\ c.receipt = call.receipt /\ c.base = call.base
      /\ c.state = call.state /\ c.holds = call.holds /\ c.audited = call.audited /\ c.pc \in {"open", "receipt"}
    BY DEF Reading, Call
<1>2. Fits(c)
    BY <1>1 DEF Reading, Reads, Fits, Early, Searching
<1>3. Sound(c, s, e)
    BY <1>1 DEF Reading, Fits, Sound, Early, Checking, Checked
<1> QED BY <1>1, <1>2, <1>3 DEF Goes, Reading, Reads

LEMMA QueryReceiptGoes ==
    ASSUME NEW c, NEW s, NEW e, Reading(c, e), Grown(c, s), call.pc = "receipt",
           c = [call EXCEPT !.pc = "base", !.receipt = state[e]]
    PROVE  Goes(c, s, e)
<1>1. /\ c.kind = call.kind /\ c.event = call.event /\ c.receipt = state[e] /\ c.base = call.base
      /\ c.state = call.state /\ c.holds = call.holds /\ c.audited = call.audited /\ c.pc = "base"
    BY ZenonT(30) DEF Reading, Call
<1>2. Fits(c)
    BY <1>1 DEF Reading, Reads, Fits, Early, Searching
<1>3. Sound(c, s, e)
    BY <1>1 DEF Reading, Fits, Sound, Early, Checking, Checked
<1> QED BY <1>1, <1>2, <1>3 DEF Goes, Reading, Reads

\* What the base facts make of the receipt.
Answered(e, base, answer, receipt) ==
    /\ base \in BOOLEAN /\ (base => HasFact(e))
    /\ answer = IF call.receipt = "none" THEN (IF base THEN "unknown" ELSE "not_found")
                ELSE IF age[e] # "live" THEN "expired" ELSE call.receipt
    /\ receipt = IF call.receipt \in {"none", "ready"} THEN call.receipt ELSE "other"

\* And what of the call.
BaseRead(c, base, answer, receipt) ==
    /\ call.pc = "base"
    /\ c.kind = call.kind /\ c.event = call.event /\ c.holds = call.holds /\ c.audited = call.audited
    /\ c.pc = "deleted" /\ c.base = base /\ c.receipt = receipt /\ c.state = answer

LEMMA QueryBaseGoes ==
    ASSUME NEW c, NEW s, NEW e, Reading(c, e), Grown(c, s), NEW base, NEW answer, NEW receipt,
           Answered(e, base, answer, receipt), BaseRead(c, base, answer, receipt)
    PROVE  Goes(c, s, e)
<1> USE DEF Answered, BaseRead
<1>1. /\ c.kind = call.kind /\ c.event = call.event /\ c.holds = call.holds /\ c.audited = call.audited
      /\ c.pc = "deleted" /\ c.base = base /\ c.receipt = receipt /\ c.state = answer
    OBVIOUS
<1>2. (receipt = "none" <=> call.receipt = "none") /\ (receipt = "ready" <=> call.receipt = "ready")
    OBVIOUS
<1>3. (answer = "ready" => receipt = "ready") /\ (receipt = "ready" => answer \in {"ready", "expired"})
    OBVIOUS
<1>4. Fits(c)
    BY <1>1, <1>2, <1>3 DEF Reading, Reads, Fits, Early, Searching
<1>5. Sound(c, s, e)
    <2>1. c.receipt = "ready" => Gone(c, e) \/ state[e] = "ready"
        BY <1>2 DEF Reading, Sound, Gone
    <2>2. c.base \/ c.holds = "legacy" => HasFact(e)
        BY <1>1 DEF Reading, Sound
    <2>3. c.receipt = "ready" => c.state \in {"ready", "deleted", "expired"}
        BY <1>2, <1>3
    <2> QED BY <1>1, <2>1, <2>2, <2>3 DEF Sound, Checking, Checked
<1> QED BY <1>1, <1>4, <1>5 DEF Goes, Reading, Reads

LEMMA IsDeletedGoes ==
    ASSUME NEW c, NEW s, NEW e, Reading(c, e), Grown(c, s), call.pc = "deleted",
           c = [call EXCEPT !.pc = "detail", !.state = IF e \in deletions THEN "deleted" ELSE @]
    PROVE  Goes(c, s, e)
<1>1. /\ c.kind = call.kind /\ c.event = call.event /\ c.holds = call.holds /\ c.audited = call.audited
      /\ c.pc = "detail" /\ c.base = call.base /\ c.receipt = call.receipt
      /\ c.state = "deleted" \/ c.state = call.state
    BY ZenonT(30) DEF Reading, Call
<1>2. Fits(c)
    BY <1>1 DEF Reading, Reads, Fits, Early, Searching
<1>3. Sound(c, s, e)
    BY <1>1 DEF Reading, Sound, Early, Checking, Checked, Gone
<1> QED BY <1>1, <1>2, <1>3 DEF Goes, Reading, Reads

\* What is ready and is not there has gone.
LEMMA QueryDetailGoes ==
    ASSUME NEW c, NEW s, NEW e, Reading(c, e), Grown(c, s), ReadyHasDetail, call.pc = "detail", NEW there \in BOOLEAN,
           there <=> e \in details /\ age[e] = "live", NEW holds,
           holds = IF call.state = "ready" /\ there THEN "detail"
                   ELSE IF call.receipt = "none" /\ call.base /\ call.state # "deleted" THEN "legacy"
                   ELSE "nothing",
           NEW answer, answer = IF call.state = "ready" /\ ~there THEN "unavailable" ELSE call.state,
           NEW pc, pc = IF holds = "nothing" THEN "again" ELSE "map",
           c.kind = call.kind, c.event = call.event, c.holds = holds, c.audited = call.audited,
           c.pc = pc, c.base = FALSE, c.receipt = call.receipt, c.state = answer
    PROVE  Goes(c, s, e)
<1>1. /\ c.kind = call.kind /\ c.event = call.event /\ c.holds = holds /\ c.audited = call.audited
      /\ c.base = FALSE /\ c.receipt = call.receipt /\ c.state = answer /\ c.pc = pc
    OBVIOUS
<1>2. c.state = IF call.state = "ready" /\ ~there THEN "unavailable" ELSE call.state
    BY <1>1
<1>3. c.pc = IF holds = "nothing" THEN "again" ELSE "map"
    BY <1>1
<1>4. Fits(c)
    BY <1>1, <1>2, <1>3 DEF Reading, Reads, Fits, Early, Searching
<1>5. Sound(c, s, e)
    <2>1. c.receipt = "ready" => Gone(c, e) \/ state[e] = "ready"
        BY <1>1 DEF Reading, Sound, Gone
    <2>2. c.base \/ c.holds = "legacy" => HasFact(e)
        BY <1>1 DEF Reading, Sound
    <2>3. c.receipt = "ready" =>
            c.state \in {"ready", "deleted", "expired"} \/ (Gone(c, e) /\ c.pc \in {"again", "recheck"})
        <3>1. CASE call.state = "ready" /\ ~there
            <4>1. holds = "nothing" \/ call.receipt = "none"
                BY <3>1
            <4>2. c.receipt = "ready" => Gone(c, e)
                BY <2>1, <3>1 DEF Reading, ReadyHasDetail, Gone
            <4> QED BY <1>1, <1>3, <4>1, <4>2
        <3>2. CASE ~(call.state = "ready" /\ ~there)
            BY <1>1, <1>2, <3>2 DEF Reading, Sound, Early
        <3> QED BY <3>1, <3>2
    <2> QED BY <1>3, <2>1, <2>2, <2>3 DEF Sound, Checking, Checked
<1> QED BY <1>1, <1>3, <1>4, <1>5 DEF Goes, Reading, Reads

\* Authorized: what has not gone was readable at a moment at which the reader was allowed to read.
LEMMA AllowedGoes ==
    ASSUME NEW c, NEW s, NEW e, Reading(c, e), Grown(c, s), ReadyHasDetail,
           \/ call.pc = "map" /\ c = [call EXCEPT !.pc = "again"]
           \/ call.pc = "again" /\ Allowed("read") /\ c = [call EXCEPT !.pc = "recheck"]
           \/ call.pc = "close export" /\ Allowed("export") /\ c = [call EXCEPT !.pc = "export deleted"]
    PROVE  Goes(c, s, e)
<1>1. /\ c.kind = call.kind /\ c.event = call.event /\ c.holds = call.holds /\ c.audited = call.audited
      /\ c.base = call.base /\ c.receipt = call.receipt /\ c.state = call.state
      /\ c.pc \in {"again", "recheck", "export deleted"} /\ (c.pc = "export deleted" => call.pc = "close export")
    BY ZenonT(30) DEF Reading, Call
<1>2. Fits(c)
    BY <1>1 DEF Reading, Reads, Fits, Early, Searching
<1>3. Sound(c, s, e)
    <2>1. /\ c.receipt = "ready" => Gone(c, e) \/ state[e] = "ready"
          /\ c.base \/ c.holds = "legacy" => HasFact(e)
        BY <1>1 DEF Reading, Sound, Gone
    <2>2. c.receipt = "ready" =>
            c.state \in {"ready", "deleted", "expired"} \/ (Gone(c, e) /\ c.pc \in {"again", "recheck"})
        <3>1. call.pc \in {"again", "map"} => c.pc \in {"again", "recheck"}
            BY DEF Reading, Call
        <3>2. call.pc \in {"again", "map", "close export"}
            OBVIOUS
        <3> QED BY <1>1, <3>1, <3>2 DEF Reading, Sound, Early, Gone
    <2>3. c.holds # "nothing" /\ Checking(c) => Gone(c, e) \/ <<e, c.holds>> \in s
        <3> SUFFICES ASSUME c.holds # "nothing", Checking(c), ~Gone(c, e)
                     PROVE  <<e, c.holds>> \in s
            OBVIOUS
        <3>1. c.holds \in {"detail", "legacy"}
            BY DEF Reading, Call
        <3>2. Reads(c)
            BY <1>1 DEF Reading, Reads
        <3>3. e \in Events
            BY DEF Reading
        <3>4. <<e, c.holds>> \in ReadableNow
            BY <1>2, <2>1, <3>1, <3>2, <3>3, HeldIsReadable
        <3>5. Allowed(c.kind)
            <4>1. CASE call.pc = "close export"
                BY <1>1, <4>1 DEF Reading, Fits
            <4>2. CASE call.pc # "close export"
                <5>1. c.pc # "export deleted"
                    BY <4>2 DEF Reading, Call
                <5>2. c.kind = "read" /\ c.pc = "recheck"
                    BY <5>1 DEF Checking
                <5>3. call.pc = "again"
                    BY <4>2, <5>2 DEF Reading, Call
                <5> QED BY <5>2, <5>3
            <4> QED BY <4>1, <4>2
        <3> QED BY <3>4, <3>5 DEF Grown
    <2>4. ~Checked(c)
        BY <1>1 DEF Checked
    <2> QED BY <2>1, <2>2, <2>3, <2>4 DEF Sound
<1> QED BY <1>1, <1>2, <1>3 DEF Goes, Reading, Reads

\* The tombstones looked at again: what is answered had not gone when the reader was allowed to read it.
LEMMA RecheckGoes ==
    ASSUME NEW c, NEW s, NEW e, Reading(c, e), Grown(c, s), call.pc = "recheck",
           NEW gone \in BOOLEAN, gone <=> Gone(call, e),
           NEW holds, holds = IF gone THEN "nothing" ELSE call.holds,
           NEW answer, IF gone THEN answer \in {"deleted", "expired"} ELSE answer = call.state,
           c.kind = call.kind, c.event = call.event, c.holds = holds, c.audited = call.audited,
           c.pc = "audit", c.base = call.base, c.receipt = call.receipt, c.state = answer
    PROVE  Goes(c, s, e)
<1>1. /\ c.kind = call.kind /\ c.event = call.event /\ c.holds = holds /\ c.audited = call.audited
      /\ c.base = call.base /\ c.receipt = call.receipt /\ c.state = answer /\ c.pc = "audit"
    OBVIOUS
<1>2. Fits(c)
    BY <1>1 DEF Reading, Reads, Fits, Early, Searching
<1>3. Sound(c, s, e)
    <2>1. /\ c.receipt = "ready" => Gone(c, e) \/ state[e] = "ready"
          /\ c.base \/ c.holds = "legacy" => HasFact(e)
        BY <1>1 DEF Reading, Sound, Gone
    <2>2. c.receipt = "ready" => c.state \in {"ready", "deleted", "expired"}
        BY <1>1 DEF Reading, Sound, Early
    <2>3. c.holds # "nothing" /\ Checked(c) => <<e, c.holds>> \in s
        <3> SUFFICES ASSUME c.holds # "nothing", Checked(c) PROVE <<e, c.holds>> \in s
            OBVIOUS
        <3>1. ~gone /\ c.holds = call.holds
            BY <1>1
        <3>2. call.kind = "read"
            BY <1>1 DEF Checked
        <3>3. Checking(call)
            BY <3>2 DEF Checking
        <3>4. <<e, call.holds>> \in seen
            BY <3>1, <3>3 DEF Reading, Sound
        <3> QED BY <3>1, <3>4 DEF Grown
    <2> QED BY <1>1, <2>1, <2>2, <2>3 DEF Sound, Checking
<1> QED BY <1>1, <1>2, <1>3 DEF Goes, Reading, Reads

\* The audit's row, and the audit of an export.
LEMMA AuditGoes ==
    ASSUME NEW c, NEW s, NEW e, Reading(c, e), Grown(c, s), NEW audited \in BOOLEAN, NEW pc,
           \/ call.pc = "audit" /\ audited /\ pc = IF call.kind = "export" THEN "exporting" ELSE "answer"
           \/ call.pc = "exporting" /\ pc = "close export"
           \/ call.pc = "export deleted" /\ ~Gone(call, e) /\ pc = "audit export"
           \/ call.pc = "audit export" /\ audited /\ pc = "answer",
           c.kind = call.kind, c.event = call.event, c.holds = call.holds, c.audited = audited,
           c.pc = pc, c.base = call.base, c.receipt = call.receipt, c.state = call.state
    PROVE  Goes(c, s, e)
<1>1. /\ c.kind = call.kind /\ c.event = call.event /\ c.holds = call.holds /\ c.audited = audited
      /\ c.base = call.base /\ c.receipt = call.receipt /\ c.state = call.state /\ c.pc = pc
      /\ c.pc \in {"exporting", "answer", "close export", "audit export"}
    OBVIOUS
<1>2. c.kind \in {"read", "export"}
    BY <1>1 DEF Reading, Reads, Call
<1>3. Fits(c)
    BY <1>1, <1>2 DEF Reading, Reads, Fits, Early, Searching
<1>4. Sound(c, s, e)
    <2>1. /\ c.receipt = "ready" => Gone(c, e) \/ state[e] = "ready"
          /\ c.base \/ c.holds = "legacy" => HasFact(e)
        BY <1>1 DEF Reading, Sound, Gone
    <2>2. c.receipt = "ready" => c.state \in {"ready", "deleted", "expired"}
        BY <1>1 DEF Reading, Sound, Early
    <2>3. c.holds # "nothing" /\ Checked(c) => <<e, c.holds>> \in s
        <3> SUFFICES ASSUME c.holds # "nothing", Checked(c) PROVE <<e, c.holds>> \in s
            OBVIOUS
        <3>1. call.holds # "nothing" /\ seen \subseteq s
            BY <1>1 DEF Grown
        <3>2. CASE call.pc \in {"audit", "audit export"}
            <4>1. c.pc \in {"exporting", "answer"} /\ (call.pc = "audit" /\ call.kind = "export" => c.pc = "exporting")
                BY <1>1, <3>2
            <4>2. Checked(call)
                BY <1>1, <3>2, <4>1 DEF Checked, Reading, Fits
            <4>3. <<e, call.holds>> \in seen
                BY <3>1, <4>2 DEF Reading, Sound
            <4> QED BY <1>1, <3>1, <4>3
        <3>3. CASE call.pc = "export deleted" /\ ~Gone(call, e)
            <4>1. <<e, call.holds>> \in seen
                BY <3>1, <3>3 DEF Reading, Sound, Checking
            <4> QED BY <1>1, <3>1, <4>1
        <3>4. CASE call.pc = "exporting"
            BY <1>1, <3>4 DEF Checked
        <3> QED BY <3>2, <3>3, <3>4
    <2> QED BY <1>1, <2>1, <2>2, <2>3 DEF Sound, Checking
<1> QED BY <1>1, <1>2, <1>3, <1>4 DEF Goes, Reading, Reads

-----------------------------------------------------------------------------
\* The call and what it holds keep their types.
CallTyped ==
    /\ plain \subseteq Events /\ grant \in {"none", "read", "export"} /\ call \in Call
    /\ seen \subseteq Events \X {"detail", "legacy"}
    /\ call.pc = "base" => call.receipt # "other"
    /\ call.texts \subseteq call.ids
    /\ call.pc \in {"controller", "enter", "facts", "eligible"} => call.texts = {}
    /\ call.pc # "idle" /\ call.kind # "search" => \E e \in Events : call.event = {e}

\* A read or an export has one event and is nowhere in a search.
LEMMA ReadsOneEvent ==
    ASSUME CallTyped, CallInvariant, call.pc # "idle", call.pc \notin Searching \cup {"answer"}
    PROVE  Reads(call) /\ \E e \in Events : call.event = {e} /\ Here = e /\ Sound(call, seen, e)
<1>1. Reads(call)
    BY DEF CallInvariant, Fits, Reads
<1>2. PICK e \in Events : call.event = {e}
    BY <1>1 DEF CallTyped, Reads
<1>3. Here = e
    BY <1>2, HereIs
<1> QED BY <1>1, <1>2, <1>3 DEF CallInvariant

LEMMA NoCallTyped == NoCall \in Call
BY DEF NoCall, Call, Places, ReceiptState

LEMMA ReadTyped ==
    ASSUME TypeOK, CallTyped, CallInvariant, Read
    PROVE  \/ call' = NoCall
           \/ /\ call' \in Call /\ call'.texts = call.texts /\ call'.ids = call.ids /\ call'.event = call.event
              /\ call'.kind = call.kind /\ call'.pc \notin Searching \cup {"idle"}
              /\ call'.pc = "base" => call'.receipt # "other"
<1>1. call \in Call /\ state \in [Events -> ReceiptState]
    BY DEF TypeOK, CallTyped
<1>2. CASE OpenExport \/ Open \/ Map \/ Again \/ CloseExport
    <2>1. PICK pc \in {"open", "receipt", "again", "recheck", "export deleted"} : call' = NoCall \/ Goto(pc)
        BY <1>2 DEF OpenExport, Open, Map, Again, CloseExport, Authorize, Reject
    <2>2. CASE call' = [call EXCEPT !.pc = pc]
        BY <1>1, <2>2 DEF Call, Places, Searching
    <2> QED BY <2>1, <2>2 DEF Goto
<1>3. CASE QueryReceipt
    <2>1. Here \in Events
        BY <1>3, ReadsOneEvent DEF QueryReceipt, Searching
    <2>2. state[Here] \in ReceiptState
        BY <1>1, <2>1
    <2> QED BY <1>1, <1>3, <2>2 DEF QueryReceipt, Call, Places, Searching, ReceiptState, Writable, Suppressed
<1>4. CASE QueryBase
    <2>1. PICK base \in BOOLEAN :
              call' = [call EXCEPT !.pc = "deleted", !.base = base,
                  !.state = IF call.receipt = "none" THEN (IF base THEN "unknown" ELSE "not_found")
                            ELSE IF age[Here] # "live" THEN "expired" ELSE call.receipt,
                  !.receipt = IF @ \in {"none", "ready"} THEN @ ELSE "other"]
        BY <1>4 DEF QueryBase
    <2>2. PICK answer : answer = IF call.receipt = "none" THEN (IF base THEN "unknown" ELSE "not_found")
                                 ELSE IF age[Here] # "live" THEN "expired" ELSE call.receipt
        OBVIOUS
    <2>3. PICK receipt : receipt = IF call.receipt \in {"none", "ready"} THEN call.receipt ELSE "other"
        OBVIOUS
    <2>4. call' = [call EXCEPT !.pc = "deleted", !.base = base, !.state = answer, !.receipt = receipt]
        BY <2>1, <2>2, <2>3
    <2>5. call.receipt \in ReceiptState
        BY <1>1, <1>4 DEF QueryBase, CallTyped, Call
    <2>6. answer \in ReceiptState \cup {"", "unknown", "not_found", "expired"}
        BY <2>2, <2>5
    <2>7. receipt \in ReceiptState \cup {"other"}
        BY <2>3 DEF ReceiptState
    <2> QED BY <1>1, <2>4, <2>6, <2>7, ZenonT(30) DEF Call, Places, Searching
<1>5. CASE IsDeleted
    <2>1. PICK answer \in {"deleted", call.state} : call' = [call EXCEPT !.pc = "detail", !.state = answer]
        BY <1>5 DEF IsDeleted
    <2> QED BY <1>1, <2>1 DEF Call, Places, Searching, ReceiptState, Suppressed
<1>6. CASE QueryDetail
    <2>1. PICK answer \in {"unavailable", call.state}, holds \in {"detail", "legacy", "nothing"}, pc \in {"again", "map"} :
              call' = [call EXCEPT !.holds = holds, !.base = FALSE, !.state = answer, !.pc = pc]
        BY <1>6 DEF QueryDetail
    <2> QED BY <1>1, <2>1 DEF Call, Places, Searching, ReceiptState, Suppressed
<1>7. CASE Recheck
    <2>1. PICK answer \in {"deleted", "expired", call.state}, holds \in {"nothing", call.holds} :
              call' = [call EXCEPT !.pc = "audit", !.holds = holds, !.state = answer]
        BY <1>7 DEF Recheck
    <2> QED BY <1>1, <2>1 DEF Call, Places, Searching, ReceiptState, Suppressed
<1>8. CASE Audit \/ Exporting \/ AuditExport
    <2>1. \/ call' = NoCall
          \/ \E audited \in BOOLEAN, pc \in {"exporting", "answer", "close export"} :
                 call' = [call EXCEPT !.audited = audited, !.pc = pc]
        BY <1>8 DEF Audit, Exporting, AuditExport, Reject
    <2>2. ASSUME NEW audited \in BOOLEAN, NEW pc \in {"exporting", "answer", "close export"},
                 call' = [call EXCEPT !.audited = audited, !.pc = pc]
          PROVE  /\ call' \in Call /\ call'.texts = call.texts /\ call'.ids = call.ids
                 /\ call'.event = call.event /\ call'.kind = call.kind /\ call'.pc \notin Searching \cup {"idle", "base"}
        BY <1>1, <2>2 DEF Call, Places, Searching
    <2> QED BY <2>1, <2>2
<1>9. CASE ExportDeleted
    <2>1. call' = NoCall \/ call' = [call EXCEPT !.pc = "audit export"]
        BY <1>9 DEF ExportDeleted, Goto, Reject
    <2> QED BY <1>1, <2>1, ZenonT(30) DEF Call, Places, Searching
<1> QED BY <1>2, <1>3, <1>4, <1>5, <1>6, <1>7, <1>8, <1>9 DEF Read

\* One step of a read or an export.
LEMMA ReadGoes ==
    ASSUME TypeOK, CallTyped, CallInvariant, ReadyHasDetail, Read, NEW s, Grown(call', s)
    PROVE  call' = NoCall \/ \E e \in Events : Goes(call', s, e)
<1> SUFFICES ASSUME call' # NoCall PROVE \E e \in Events : Goes(call', s, e)
    OBVIOUS
<1>1. PICK c : c = call'
    OBVIOUS
<1>2. /\ c \in Call /\ c.event = call.event /\ c.kind = call.kind /\ Grown(c, s)
    BY <1>1, ReadTyped
<1>3. call.pc # "idle" /\ call.pc \notin Searching \cup {"answer"}
    BY DEF Read, OpenExport, Open, Map, Again, CloseExport, QueryReceipt, QueryBase, IsDeleted, QueryDetail, Recheck,
           Audit, Exporting, ExportDeleted, AuditExport, Searching
<1>4. PICK e \in Events : call.event = {e} /\ Here = e /\ Sound(call, seen, e) /\ Reads(call)
    BY <1>3, ReadsOneEvent
<1>5. Reading(c, e)
    BY <1>2, <1>4 DEF Reading, CallTyped, CallInvariant
<1>6. CASE OpenExport \/ Open
    BY <1>1, <1>2, <1>4, <1>5, <1>6, OpenGoes DEF OpenExport, Open, Authorize, Reject, Goto
<1>7. CASE Map \/ Again \/ CloseExport
    <2>1. \/ call.pc = "map" /\ c = [call EXCEPT !.pc = "again"]
          \/ call.pc = "again" /\ Allowed("read") /\ c = [call EXCEPT !.pc = "recheck"]
          \/ call.pc = "close export" /\ Allowed("export") /\ c = [call EXCEPT !.pc = "export deleted"]
        BY <1>1, <1>7 DEF Map, Again, CloseExport, Authorize, Reject, Goto
    <2>2. Goes(c, s, e)
        BY <1>2, <1>5, <2>1, AllowedGoes
    <2> QED BY <1>1, <2>2
<1>8. CASE QueryReceipt
    <2>1. call.pc = "receipt" /\ c = [call EXCEPT !.pc = "base", !.receipt = state[e]]
        BY <1>1, <1>4, <1>8 DEF QueryReceipt
    <2>2. Goes(c, s, e)
        BY <1>2, <1>5, <2>1, QueryReceiptGoes
    <2> QED BY <1>1, <2>2
<1>9. CASE QueryBase
    <2>1. PICK base \in BOOLEAN :
            /\ base => HasFact(e)
            /\ c = [call EXCEPT !.pc = "deleted", !.base = base,
                  !.state = IF call.receipt = "none" THEN (IF base THEN "unknown" ELSE "not_found")
                            ELSE IF age[e] # "live" THEN "expired" ELSE call.receipt,
                  !.receipt = IF @ \in {"none", "ready"} THEN @ ELSE "other"]
        BY <1>1, <1>4, <1>9 DEF QueryBase, HasFact
    <2>2. PICK answer : answer = IF call.receipt = "none" THEN (IF base THEN "unknown" ELSE "not_found")
                                 ELSE IF age[e] # "live" THEN "expired" ELSE call.receipt
        OBVIOUS
    <2>3. PICK receipt : receipt = IF call.receipt \in {"none", "ready"} THEN call.receipt ELSE "other"
        OBVIOUS
    <2>4. c = [call EXCEPT !.pc = "deleted", !.base = base, !.state = answer, !.receipt = receipt]
        BY <2>1, <2>2, <2>3
    <2>5. /\ c.kind = call.kind /\ c.event = call.event /\ c.holds = call.holds /\ c.audited = call.audited
          /\ c.pc = "deleted" /\ c.base = base /\ c.receipt = receipt /\ c.state = answer
        BY <2>4 DEF CallTyped, Call
    <2>6. call.pc = "base"
        BY <1>9 DEF QueryBase
    <2>7. Answered(e, base, answer, receipt) /\ BaseRead(c, base, answer, receipt)
        BY <2>1, <2>2, <2>3, <2>5, <2>6 DEF Answered, BaseRead
    <2>8. Goes(c, s, e)
        BY <1>2, <1>5, <2>7, QueryBaseGoes
    <2> QED BY <1>1, <2>8
<1>10. CASE IsDeleted
    <2>1. call.pc = "deleted" /\ c = [call EXCEPT !.pc = "detail", !.state = IF e \in deletions THEN "deleted" ELSE @]
        BY <1>1, <1>4, <1>10 DEF IsDeleted
    <2>2. Goes(c, s, e)
        BY <1>2, <1>5, <2>1, IsDeletedGoes
    <2> QED BY <1>1, <2>2
<1>11. CASE QueryDetail
    <2>1. PICK there \in BOOLEAN : there <=> e \in details /\ age[e] = "live"
        OBVIOUS
    <2>2. PICK holds : holds = IF call.state = "ready" /\ there THEN "detail"
                               ELSE IF call.receipt = "none" /\ call.base /\ call.state # "deleted" THEN "legacy"
                               ELSE "nothing"
        OBVIOUS
    <2>3. PICK answer : answer = IF call.state = "ready" /\ ~there THEN "unavailable" ELSE call.state
        OBVIOUS
    <2>4. PICK pc : pc = IF holds = "nothing" THEN "again" ELSE "map"
        OBVIOUS
    <2>5. c = [call EXCEPT !.holds = holds, !.base = FALSE, !.state = answer, !.pc = pc]
        BY <1>1, <1>4, <1>11, <2>1, <2>2, <2>3, <2>4 DEF QueryDetail
    <2>6. /\ c.kind = call.kind /\ c.event = call.event /\ c.holds = holds /\ c.audited = call.audited
          /\ c.pc = pc /\ c.base = FALSE /\ c.receipt = call.receipt /\ c.state = answer
        BY <2>5 DEF CallTyped, Call
    <2>7. call.pc = "detail"
        BY <1>11 DEF QueryDetail
    <2>8. Goes(c, s, e)
        BY <1>2, <1>5, <2>1, <2>2, <2>3, <2>4, <2>6, <2>7, QueryDetailGoes
    <2> QED BY <1>1, <2>8
<1>12. CASE Recheck
    <2>1. PICK gone \in BOOLEAN : gone <=> Gone(call, e)
        OBVIOUS
    <2>2. PICK holds : holds = IF gone THEN "nothing" ELSE call.holds
        OBVIOUS
    <2>3. gone <=> e \in deletions \/ Late
        BY <1>4, <2>1 DEF Gone, Late
    <2>4. PICK answer : /\ IF gone THEN answer \in {"deleted", "expired"} ELSE answer = call.state
                        /\ c = [call EXCEPT !.pc = "audit", !.holds = holds, !.state = answer]
        <3>1. CASE gone
            BY <1>1, <1>4, <1>12, <2>2, <2>3, <3>1 DEF Recheck
        <3>2. CASE ~gone
            <4>1. c = [call EXCEPT !.pc = "audit"]
                BY <1>1, <1>4, <1>12, <2>3, <3>2 DEF Recheck
            <4>2. c = [call EXCEPT !.pc = "audit", !.holds = holds, !.state = call.state]
                BY <2>2, <3>2, <4>1 DEF CallTyped, Call
            <4> QED BY <3>2, <4>2
        <3> QED BY <3>1, <3>2
    <2>5. /\ c.kind = call.kind /\ c.event = call.event /\ c.holds = holds /\ c.audited = call.audited
          /\ c.pc = "audit" /\ c.base = call.base /\ c.receipt = call.receipt /\ c.state = answer
        BY <2>4 DEF CallTyped, Call
    <2>6. call.pc = "recheck"
        BY <1>12 DEF Recheck
    <2>7. Goes(c, s, e)
        BY <1>2, <1>5, <2>1, <2>2, <2>4, <2>5, <2>6, RecheckGoes
    <2> QED BY <1>1, <2>7
<1>13. CASE Audit \/ Exporting \/ ExportDeleted \/ AuditExport
    <2>1. PICK audited \in BOOLEAN, pc \in Places :
            /\ \/ call.pc = "audit" /\ audited /\ pc = IF call.kind = "export" THEN "exporting" ELSE "answer"
               \/ call.pc = "exporting" /\ pc = "close export"
               \/ call.pc = "export deleted" /\ ~Gone(call, e) /\ pc = "audit export"
               \/ call.pc = "audit export" /\ audited /\ pc = "answer"
            /\ c = [call EXCEPT !.audited = audited, !.pc = pc]
        <3>1. CASE Audit
            <4>1. PICK pc \in Places : pc = IF call.kind = "export" THEN "exporting" ELSE "answer"
                BY DEF Places
            <4> QED BY <1>1, <3>1, <4>1 DEF Audit
        <3>2. CASE Exporting
            <4>1. call.pc = "exporting" /\ c = [call EXCEPT !.pc = "close export", !.audited = FALSE]
                BY <1>1, <3>2 DEF Exporting, Reject
            <4>2. c = [call EXCEPT !.audited = FALSE, !.pc = "close export"]
                BY <4>1
            <4> QED BY <4>1, <4>2 DEF Places
        <3>3. CASE ExportDeleted
            <4>1. call.pc = "export deleted" /\ ~Gone(call, e) /\ c = [call EXCEPT !.pc = "audit export"]
                BY <1>1, <1>4, <3>3 DEF ExportDeleted, Gone, Late, Reject, Goto
            <4>2. call.audited \in BOOLEAN /\ c = [call EXCEPT !.audited = call.audited, !.pc = "audit export"]
                BY <4>1 DEF CallTyped, Call
            <4> QED BY <4>1, <4>2 DEF Places
        <3>4. CASE AuditExport
            BY <1>1, <3>4 DEF AuditExport, Places
        <3> QED BY <1>13, <3>1, <3>2, <3>3, <3>4
    <2>2. /\ c.kind = call.kind /\ c.event = call.event /\ c.holds = call.holds /\ c.audited = audited
          /\ c.pc = pc /\ c.base = call.base /\ c.receipt = call.receipt /\ c.state = call.state
        BY <2>1 DEF CallTyped, Call
    <2>3. Goes(c, s, e)
        BY <1>2, <1>5, <2>1, <2>2, AuditGoes
    <2> QED BY <1>1, <2>3
<1> QED BY <1>6, <1>7, <1>8, <1>9, <1>10, <1>11, <1>12, <1>13 DEF Read

LEMMA ReadableTyped == ReadableNow \subseteq Events \X {"detail", "legacy"}
BY DEF ReadableNow

\* No call is under way any more.
LEMMA NoCallSteps ==
    ASSUME call' = NoCall, Remember, plain' \subseteq Events, grant' \in {"none", "read", "export"}
    PROVE  CallTyped' /\ CallInvariant'
<1>1. /\ call'.pc = "idle" /\ call'.kind = "read" /\ call'.state = "" /\ call'.receipt = "none"
      /\ call'.holds = "nothing" /\ call'.base = FALSE /\ call'.texts = {}
    BY DEF NoCall
<1>2. seen' = {}
    BY <1>1 DEF Remember
<1>3. CallTyped'
    BY <1>1, <1>2, NoCallTyped DEF CallTyped
<1>4. Fits(call')
    BY <1>1 DEF Fits, Searching, Early
<1> QED BY <1>1, <1>3, <1>4 DEF CallInvariant, Reads

\* While nothing but the call changes, what it may show is remembered.
LEMMA RememberedStep ==
    ASSUME UNCHANGED <<vars, plain, grant>>, Remember, CallTyped, call'.pc # "idle"
    PROVE  /\ Grown(call', seen') /\ SeenNow' \subseteq seen' /\ seen' \subseteq Events \X {"detail", "legacy"}
<1>1. ReadableNow' = ReadableNow
    BY DEF ReadableNow, vars, receiptVars
<1>2. seen' = seen \cup (IF call'.kind = "search" \/ Allowed(call'.kind) THEN ReadableNow ELSE {})
    BY <1>1 DEF Remember, SeenNow, Allowed
<1>3. SeenNow' = IF call'.kind = "search" \/ Allowed(call'.kind) THEN ReadableNow ELSE {}
    BY <1>1 DEF SeenNow, Allowed
<1> QED BY <1>2, <1>3, ReadableTyped DEF Grown, CallTyped

\* A call that goes on is sound.
LEMMA GoesOn ==
    ASSUME UNCHANGED <<vars, plain, grant>>, NEW e \in Events, Goes(call', seen', e), SeenNow' \subseteq seen'
    PROVE  CallInvariant'
<1>1. call'.event = {e} /\ Reads(call') /\ Fits(call') /\ Sound(call', seen', e)
    BY DEF Goes
<1>2. Sound(call, seen, e)'
    BY <1>1 DEF Sound, Gone, HasFact, vars, receiptVars
<1>3. ASSUME NEW x \in Events, call'.event = {x}
      PROVE  Sound(call, seen, x)'
    <2>1. x = e
        BY <1>1, <1>3
    <2> QED BY <1>2, <2>1
<1> QED BY <1>1, <1>3 DEF CallInvariant, Reads

LEMMA ReadSteps ==
    ASSUME TypeOK, CallTyped, CallInvariant, ReadyHasDetail, Read, Remember
    PROVE  CallTyped' /\ CallInvariant'
<1>1. UNCHANGED <<vars, plain, grant>>
    BY DEF Read
<1>2. CASE call' = NoCall
    BY <1>1, <1>2, NoCallSteps DEF CallTyped
<1>3. CASE call' # NoCall
    <2>1. /\ call' \in Call /\ call'.texts = call.texts /\ call'.ids = call.ids /\ call'.event = call.event
          /\ call'.kind = call.kind /\ call'.pc \notin Searching \cup {"idle"}
          /\ call'.pc = "base" => call'.receipt # "other"
        BY <1>3, ReadTyped
    <2>2. Grown(call', seen') /\ SeenNow' \subseteq seen' /\ seen' \subseteq Events \X {"detail", "legacy"}
        BY <1>1, <2>1, RememberedStep
    <2>3. PICK e \in Events : Goes(call', seen', e)
        BY <1>3, <2>2, ReadGoes
    <2>4. CallInvariant'
        BY <1>1, <2>2, <2>3, GoesOn
    <2>5. CallTyped'
        BY <1>1, <2>1, <2>2, <2>3 DEF CallTyped, Goes, Searching
    <2> QED BY <2>4, <2>5
<1> QED BY <1>2, <1>3

LEMMA BeginSteps ==
    ASSUME CallTyped, Remember, BeginSearch \/ \E e \in Events : BeginRead(e)
    PROVE  CallTyped' /\ CallInvariant'
<1>1. UNCHANGED <<vars, plain, grant>>
    BY DEF BeginSearch, BeginRead
<1>2. CASE BeginSearch
    <2>1. call' = [NoCall EXCEPT !.kind = "search", !.pc = "controller"]
        BY <1>2 DEF BeginSearch
    <2>2. /\ call' \in Call /\ call'.pc = "controller" /\ call'.kind = "search" /\ call'.state = ""
          /\ call'.receipt = "none" /\ call'.holds = "nothing" /\ call'.base = FALSE /\ call'.texts = {}
        BY <2>1, NoCallTyped DEF NoCall, Call, Places
    <2>3. Grown(call', seen') /\ SeenNow' \subseteq seen' /\ seen' \subseteq Events \X {"detail", "legacy"}
        BY <1>1, <2>2, RememberedStep
    <2>4. CallTyped'
        BY <1>1, <2>2, <2>3 DEF CallTyped
    <2>5. Fits(call') /\ HasFound(call', seen')
        BY <2>2 DEF Fits, Searching, Early, HasFound
    <2> QED BY <2>2, <2>3, <2>4, <2>5 DEF CallInvariant, Reads
<1>3. CASE \E e \in Events : BeginRead(e)
    <2>1. PICK e \in Events, kind \in {"read", "export"}, pc \in {"open export", "open"} :
              /\ call' = [NoCall EXCEPT !.kind = kind, !.event = {e}, !.pc = pc]
              /\ pc = "open export" => kind = "export"
        BY <1>3 DEF BeginRead
    <2>2. /\ call' \in Call /\ call'.pc = pc /\ call'.kind = kind /\ call'.state = "" /\ call'.event = {e}
          /\ call'.receipt = "none" /\ call'.holds = "nothing" /\ call'.base = FALSE /\ call'.texts = {}
        BY <2>1, NoCallTyped DEF NoCall, Call, Places
    <2>3. Grown(call', seen') /\ SeenNow' \subseteq seen' /\ seen' \subseteq Events \X {"detail", "legacy"}
        BY <1>1, <2>2, RememberedStep
    <2>4. CallTyped'
        BY <1>1, <2>2, <2>3 DEF CallTyped
    <2>5. Fits(call') /\ Sound(call', seen', e)
        BY <2>1, <2>2 DEF Fits, Searching, Early, Sound
    <2>6. Goes(call', seen', e)
        BY <2>2, <2>5 DEF Goes, Reads
    <2>7. CallInvariant'
        BY <1>1, <2>3, <2>6, GoesOn
    <2> QED BY <2>4, <2>7
<1> QED BY <1>2, <1>3

\* What is ready and live is readable.
LEMMA EligibleIsReadable ==
    ASSUME ReadyHasDetail, TombstoneFinal, NEW e \in Events, state[e] = "ready", age[e] = "live"
    PROVE  <<e, "detail">> \in ReadableNow
BY DEF ReadyHasDetail, TombstoneFinal, ReadableNow

\* A search that goes on.
LEMMA SearchGoes ==
    ASSUME UNCHANGED <<vars, plain, grant>>, Remember, CallTyped, CallInvariant, call.kind = "search",
           call.pc \in Searching, NEW c, c = call', c \in Call,
           c.kind = call.kind, c.receipt = call.receipt, c.base = call.base, c.state = call.state,
           c.pc \in (Searching \ {"controller"}) \cup {"answer"}, c.holds \in {"detail", call.holds},
           c.texts \subseteq c.ids, c.pc \in {"enter", "facts", "eligible"} => c.texts = {}, c.pc = "answer" => c.audited,
           HasFound(c, seen)
    PROVE  CallTyped' /\ CallInvariant'
<1>1. c.kind = "search" /\ c.pc \notin {"idle", "controller"}
    BY DEF Searching
<1>2. Grown(c, seen') /\ SeenNow' \subseteq seen' /\ seen' \subseteq Events \X {"detail", "legacy"}
    BY <1>1, RememberedStep
<1>3. CallTyped'
    BY <1>1, <1>2 DEF CallTyped, Searching
<1>4. Fits(c)
    BY <1>1 DEF CallInvariant, Fits, Searching, Early
<1>5. HasFound(c, seen')
    BY <1>2 DEF HasFound, Grown
<1> QED BY <1>1, <1>2, <1>3, <1>4, <1>5 DEF CallInvariant, Reads

\* One step of a search.
LEMMA SearchSteps ==
    ASSUME TypeOK, CallTyped, CallInvariant, ReadyHasDetail, TombstoneFinal, Search, Remember
    PROVE  CallTyped' /\ CallInvariant'
<1>1. UNCHANGED <<vars, plain, grant>>
    BY DEF Search
<1>2. CASE call' = NoCall
    BY <1>1, <1>2, NoCallSteps DEF CallTyped
<1>3. CASE call' # NoCall
    <2>1. call.pc \in Searching /\ call.kind = "search" /\ call \in Call
        BY DEF Search, Controller, Enter, QueryFacts, QueryEligible, QueryTexts, QueryCurrent, LeaveSearch, AuditSearch,
               Searching, CallInvariant, Fits, CallTyped
    <2>2. /\ call.texts \subseteq call.ids /\ HasFound(call, seen)
          /\ call.pc \in {"controller", "enter", "facts", "eligible"} => call.texts = {}
        BY <2>1 DEF CallTyped, CallInvariant
    <2>3. PICK c : c = call'
        OBVIOUS
    <2>4. CASE Controller \/ Enter \/ LeaveSearch
        <3>1. PICK pc \in {"enter", "facts", "audit search"} :
                /\ c = [call EXCEPT !.pc = pc]
                /\ \/ call.pc = "controller" /\ pc = "enter"
                   \/ call.pc = "enter" /\ pc = "facts"
                   \/ call.pc = "leave" /\ pc = "audit search"
            BY <1>3, <2>3, <2>4 DEF Controller, Enter, LeaveSearch, Authorize, Reject, Goto
        <3>2. /\ c \in Call /\ c.pc = pc /\ c.kind = call.kind /\ c.receipt = call.receipt /\ c.base = call.base
              /\ c.state = call.state /\ c.holds = call.holds /\ c.texts = call.texts /\ c.ids = call.ids
              /\ c.event = call.event
            BY <2>1, <3>1 DEF Call, Places
        <3>3. HasFound(c, seen)
            BY <2>2, <3>1, <3>2 DEF HasFound
        <3> QED BY <1>1, <2>1, <2>2, <2>3, <3>1, <3>2, <3>3, SearchGoes DEF Searching
    <2>5. CASE QueryFacts
        <3>1. PICK ids \in SUBSET (plain \cup {m.event : m \in log}) :
                call.pc = "facts" /\ c = [call EXCEPT !.pc = "eligible", !.ids = ids]
            BY <2>3, <2>5 DEF QueryFacts
        <3>2. ids \subseteq Events
            BY <3>1 DEF CallTyped, TypeOK, Message
        <3>3. /\ c \in Call /\ c.pc = "eligible" /\ c.kind = call.kind /\ c.receipt = call.receipt /\ c.base = call.base
              /\ c.state = call.state /\ c.holds = call.holds /\ c.texts = call.texts /\ c.ids = ids
            BY <2>1, <3>1, <3>2 DEF Call, Places
        <3> QED BY <1>1, <2>1, <2>2, <2>3, <3>1, <3>3, SearchGoes DEF Searching, HasFound
    <2>6. CASE QueryEligible
        <3>1. PICK ids : ids = Eligible(call.ids)
            OBVIOUS
        <3>2. call.pc = "eligible" /\ c = [call EXCEPT !.pc = "texts", !.ids = ids]
            BY <2>3, <2>6, <3>1 DEF QueryEligible
        <3>3. ids \subseteq Events
            BY <2>1, <3>1 DEF Call, Eligible
        <3>4. /\ c \in Call /\ c.pc = "texts" /\ c.kind = call.kind /\ c.receipt = call.receipt /\ c.base = call.base
              /\ c.state = call.state /\ c.holds = call.holds /\ c.texts = call.texts /\ c.ids = ids
            BY <2>1, <3>2, <3>3 DEF Call, Places
        <3> QED BY <1>1, <2>1, <2>2, <2>3, <3>2, <3>4, SearchGoes DEF Searching, HasFound
    <2>7. CASE QueryTexts
        <3>1. PICK texts : texts = {e \in call.ids \cap details : age[e] = "live"}
            OBVIOUS
        <3>2. call.pc = "texts" /\ c = [call EXCEPT !.pc = "current", !.texts = texts]
            BY <2>3, <2>7, <3>1 DEF QueryTexts
        <3>3. texts \subseteq call.ids /\ call.ids \subseteq Events
            BY <2>1, <3>1 DEF Call
        <3>4. /\ c \in Call /\ c.pc = "current" /\ c.kind = call.kind /\ c.receipt = call.receipt /\ c.base = call.base
              /\ c.state = call.state /\ c.holds = call.holds /\ c.texts = texts /\ c.ids = call.ids
            BY <2>1, <3>2, <3>3 DEF Call, Places
        <3> QED BY <1>1, <2>1, <2>2, <2>3, <3>2, <3>3, <3>4, SearchGoes DEF Searching, HasFound
    <2>8. CASE QueryCurrent
        <3>1. PICK event \in SUBSET (call.texts \cap Eligible(call.ids)) :
                call.pc = "current" /\ c = [call EXCEPT !.pc = "leave", !.event = event]
            BY <2>3, <2>8 DEF QueryCurrent
        <3>2. event \subseteq Events
            BY <2>1, <3>1 DEF Call, Eligible
        <3>3. /\ c \in Call /\ c.pc = "leave" /\ c.kind = call.kind /\ c.receipt = call.receipt /\ c.base = call.base
              /\ c.state = call.state /\ c.holds = call.holds /\ c.texts = call.texts /\ c.ids = call.ids
              /\ c.event = event
            BY <2>1, <3>1, <3>2 DEF Call, Places
        <3>4. ReadableNow \subseteq seen
            BY <2>1, <3>1 DEF CallInvariant, SeenNow
        <3>5. ASSUME NEW e \in event PROVE <<e, "detail">> \in seen
            BY <3>1, <3>2, <3>4, <3>5, EligibleIsReadable DEF Eligible
        <3>6. HasFound(c, seen)
            BY <3>3, <3>5 DEF HasFound
        <3> QED BY <1>1, <2>1, <2>2, <2>3, <3>1, <3>3, <3>6, SearchGoes DEF Searching
    <2>9. CASE AuditSearch
        <3>1. call.pc = "audit search" /\ c = [call EXCEPT !.audited = TRUE, !.holds = "detail", !.pc = "answer"]
            BY <2>3, <2>9 DEF AuditSearch
        <3>2. /\ c \in Call /\ c.pc = "answer" /\ c.kind = call.kind /\ c.receipt = call.receipt /\ c.base = call.base
              /\ c.state = call.state /\ c.holds = "detail" /\ c.texts = call.texts /\ c.ids = call.ids
              /\ c.event = call.event /\ c.audited = TRUE
            BY <2>1, <3>1 DEF Call, Places
        <3>3. HasFound(c, seen)
            BY <2>2, <3>1, <3>2 DEF HasFound
        <3> QED BY <1>1, <2>1, <2>2, <2>3, <3>1, <3>2, <3>3, SearchGoes DEF Searching
    <2> QED BY <2>4, <2>5, <2>6, <2>7, <2>8, <2>9 DEF Search
<1> QED BY <1>2, <1>3

\* A call that waits, while the pipeline goes on or the grant changes.
LEMMA WaitingSteps ==
    ASSUME CallTyped, CallInvariant, UNCHANGED <<plain, call>>, grant' \in {"none", "read", "export"}, Remember,
           \A e \in Events : call.event = {e} =>
               /\ Gone(call, e) => Gone(call, e)'
               /\ state[e] = "ready" /\ call.receipt = "ready" => Gone(call, e)' \/ state'[e] = "ready"
               /\ HasFact(e) => HasFact(e)'
    PROVE  CallTyped' /\ CallInvariant'
<1>1. CASE call.pc = "idle"
    <2>1. seen' = {}
        BY <1>1 DEF Remember
    <2>2. Fits(call')
        BY DEF CallInvariant, Fits
    <2> QED BY <1>1, <2>1, <2>2 DEF CallTyped, CallInvariant, Reads, HasFound
<1>2. CASE call.pc # "idle"
    <2>1. seen' = seen \cup SeenNow'
        BY <1>2 DEF Remember
    <2>2. SeenNow' \subseteq Events \X {"detail", "legacy"}
        BY DEF SeenNow, ReadableNow
    <2>3. CallTyped'
        BY <2>1, <2>2 DEF CallTyped
    <2>4. Fits(call')
        BY DEF CallInvariant, Fits
    <2>5. ASSUME NEW e \in Events, Reads(call), call.event = {e}
          PROVE  Sound(call, seen, e)'
        <3>1. Sound(call, seen, e)
            BY <2>5 DEF CallInvariant
        <3>2. /\ Gone(call, e) => Gone(call, e)'
              /\ state[e] = "ready" /\ call.receipt = "ready" => Gone(call, e)' \/ state'[e] = "ready"
              /\ HasFact(e) => HasFact(e)'
            BY <2>5
        <3> QED BY <2>1, <3>1, <3>2 DEF Sound, Checking, Checked
    <2>6. call.kind = "search" => HasFound(call, seen)'
        BY <2>1 DEF CallInvariant, HasFound
    <2> QED BY <2>1, <2>3, <2>4, <2>5, <2>6 DEF CallInvariant, Reads
<1> QED BY <1>1, <1>2

LEMMA CallSteps ==
    ASSUME TypeOK, CallTyped, CallInvariant, ReadyHasDetail, TombstoneFinal, SweepsTombstones,
           [ReadingNext]_<<vars, readingVars>>
    PROVE  CallTyped' /\ CallInvariant'
<1>1. CASE \/ (BeginSearch \/ \E e \in Events : BeginRead(e)) /\ Remember
           \/ Read /\ Remember
           \/ Search /\ Remember
    BY <1>1, BeginSteps, ReadSteps, SearchSteps
<1>2. CASE (Answer \/ Break) /\ Remember
    BY <1>2, NoCallSteps DEF Answer, Break, Reject, CallTyped
<1>3. CASE (\E capabilities \in {"none", "read", "export"} : Grant(capabilities)) /\ Remember
    <2>1. UNCHANGED <<vars, plain, call>> /\ grant' \in {"none", "read", "export"}
        BY <1>3 DEF Grant
    <2>2. ASSUME NEW e \in Events
          PROVE  /\ Gone(call, e) => Gone(call, e)'
                 /\ state[e] = "ready" /\ call.receipt = "ready" => Gone(call, e)' \/ state'[e] = "ready"
                 /\ HasFact(e) => HasFact(e)'
        BY <2>1 DEF Gone, HasFact, vars, receiptVars
    <2> QED BY <1>3, <2>1, <2>2, WaitingSteps
<1>4. CASE Pipeline /\ Remember
    <2>1. /\ [Next]_vars /\ UNCHANGED <<plain, grant, call>>
          /\ \A e \in call.event : age'[e] = "retired" => age[e] = "retired"
        BY <1>4 DEF Pipeline
    <2>2. ASSUME NEW e \in Events, call.event = {e}
          PROVE  /\ Gone(call, e) => Gone(call, e)'
                 /\ state[e] = "ready" /\ call.receipt = "ready" => Gone(call, e)' \/ state'[e] = "ready"
                 /\ HasFact(e) => HasFact(e)'
        <3>1. PICK c : c = call
            OBVIOUS
        <3>2. /\ Gone(c, e) => Gone(c, e)'
              /\ state[e] = "ready" /\ c.receipt = "ready" => Gone(c, e)' \/ state'[e] = "ready"
              /\ HasFact(e) => HasFact(e)'
            BY <2>1, <2>2, WaitingCall
        <3> QED BY <2>1, <3>1, <3>2 DEF Gone
    <2> QED BY <1>4, <2>1, <2>2, WaitingSteps DEF CallTyped
<1>5. CASE UNCHANGED <<vars, readingVars>>
    <2>1. UNCHANGED <<state, deletions, age, log, details, plain, grant, call, seen>>
        BY <1>5 DEF vars, receiptVars, readingVars
    <2>2. CallTyped'
        BY <2>1 DEF CallTyped
    <2>3. Fits(call') /\ SeenNow' = SeenNow
        BY <2>1 DEF CallInvariant, Fits, SeenNow, ReadableNow, Allowed
    <2>4. ASSUME NEW e \in Events, Reads(call), call.event = {e}
          PROVE  Sound(call, seen, e)'
        BY <2>1, <2>4 DEF CallInvariant, Sound, Gone, HasFact
    <2> QED BY <2>1, <2>2, <2>3, <2>4 DEF CallInvariant, Reads, HasFound
<1> QED BY <1>1, <1>2, <1>3, <1>4, <1>5 DEF ReadingNext

\* The pipeline under the reads is the one the theorems above are about.
LEMMA ReadingIsSpec == ReadingSpec => Spec
<1>1. ReadingInit => Init
    BY DEF ReadingInit
<1>2. [ReadingNext]_<<vars, readingVars>> => [Next]_vars
    BY DEF ReadingNext, BeginRead, BeginSearch, Read, Search, Answer, Break, Grant, Pipeline, readingVars
<1> QED BY <1>1, <1>2, PTL DEF ReadingSpec, Spec

LEMMA CallsAreSound == ReadingSpec => [](TypeOK /\ CallTyped /\ CallInvariant)
<1>1. ReadingInit => CallTyped /\ CallInvariant
    <2> SUFFICES ASSUME ReadingInit PROVE CallTyped /\ CallInvariant
        OBVIOUS
    <2>1. /\ call.pc = "idle" /\ call.kind = "read" /\ call.state = "" /\ call.receipt = "none" /\ seen = {}
          /\ call.holds = "nothing" /\ call.base = FALSE /\ call.texts = {}
        BY DEF ReadingInit, NoCall
    <2>2. CallTyped
        BY <2>1, NoCallTyped DEF ReadingInit, CallTyped
    <2>3. Fits(call)
        BY <2>1 DEF Fits, Searching, Early
    <2> QED BY <2>1, <2>2, <2>3 DEF CallInvariant, Reads
<1>2. TypeOK /\ Consistent /\ ReadyHasDetail /\ SweepsTombstones /\ CallTyped /\ CallInvariant
        /\ [ReadingNext]_<<vars, readingVars>> => CallTyped' /\ CallInvariant'
    BY CallSteps DEF Consistent
<1> QED BY <1>1, <1>2, ReadingIsSpec, Consistency, ReadyIsThere, SweepsOnlyTombstones, PTL DEF ReadingSpec

\* The evidence in an answer was readable, and its reader allowed to have it, at one moment of the call,
\* although the event may be deleted or expire, and the reader lose the grant, between any two queries
\* of a read, an export or a search; and whoever gets an answer is in the audit's trail.
THEOREM ReadsAtOneMoment == ReadingSpec => []ReadAtOneMoment
<1>1. CallTyped /\ CallInvariant => ReadAtOneMoment
    <2> SUFFICES ASSUME CallTyped, CallInvariant, call.pc = "answer", call.holds # "nothing"
                 PROVE  call.audited /\ call.event \X {call.holds} \subseteq seen
        BY DEF ReadAtOneMoment
    <2>1. call.audited
        BY DEF CallInvariant, Fits
    <2>2. CASE call.kind = "search"
        <3>1. call.holds = "detail" /\ HasFound(call, seen)
            BY <2>2 DEF CallInvariant, CallTyped, Call, Fits
        <3> QED BY <2>1, <3>1 DEF HasFound
    <2>3. CASE call.kind # "search"
        <3>1. PICK e \in Events : call.event = {e}
            BY <2>3 DEF CallTyped
        <3>2. Sound(call, seen, e) /\ Checked(call)
            BY <2>3, <3>1 DEF CallInvariant, Reads, CallTyped, Call, Checked
        <3>3. <<e, call.holds>> \in seen
            BY <3>2 DEF Sound
        <3> QED BY <2>1, <3>1, <3>3
    <2> QED BY <2>2, <2>3
<1> QED BY <1>1, CallsAreSound, PTL

\* No reader is told that evidence whose receipt the call found ready is unavailable.
THEOREM ReadyIsAnswered == ReadingSpec => []ReadyIsFound
<1>1. CallTyped /\ CallInvariant => ReadyIsFound
    <2> SUFFICES ASSUME CallTyped, CallInvariant, call.pc = "answer", call.receipt = "ready"
                 PROVE  call.state \in {"ready", "deleted", "expired"}
        BY DEF ReadyIsFound
    <2>1. call.kind # "search"
        BY DEF CallInvariant, Fits
    <2>2. PICK e \in Events : call.event = {e}
        BY <2>1 DEF CallTyped
    <2>3. Sound(call, seen, e)
        BY <2>1, <2>2 DEF CallInvariant, Reads
    <2> QED BY <2>3 DEF Sound, Early
<1> QED BY <1>1, CallsAreSound, PTL

\* The variables of the readers keep their types.
THEOREM ReadingTyped == ReadingSpec => []ReadingTypeOK
<1>1. TypeOK /\ CallTyped => ReadingTypeOK
    BY DEF CallTyped, ReadingTypeOK
<1> QED BY <1>1, CallsAreSound, PTL
-----------------------------------------------------------------------------
\* What the SDK freezes with an error: RequestEvidence, an instance of its own variables.

CONSTANTS Entries, Pending, Window, MaxCalls, MaxPages, MaxEpochs, MaxTime
VARIABLES now, alive, epoch, page, pageId, allowed, records, refs, calls, sequence, evidence

Ring == INSTANCE RequestEvidence

RequestRecord == [id : Nat, at : Int, page : Int, result : {"pending", "success", "http", "network", "business"},
                  request : BOOLEAN, body : Nat, epoch : Int, permitted : BOOLEAN]
FetchCall == [id : Nat, local : Nat, answered : BOOLEAN]

\* A record of this page view and tracker, whose text is its own and was allowed.
Own(r) ==
    /\ r \in RequestRecord /\ r.id \in 1 .. sequence /\ r.page = pageId /\ r.epoch = epoch
    /\ r.body \in {0, r.id} /\ (r.result = "success" /\ r.body # 0 => r.permitted)
AllOwn(R) ==
    /\ \A r \in R : Own(r)
    /\ \A r, s \in R : r.id = s.id => r = s
\* A call that is awaited is of one request, whose record has no text yet.
CallOpen(c) ==
    /\ c \in FetchCall /\ c.id \in 1 .. sequence /\ c.local \in {0, c.id}
    /\ \A d \in calls : d.id = c.id => d = c
    /\ \A r \in records : r.id = c.local => r.body = 0

RecordsSound ==
    /\ sequence \in Nat /\ now \in Int /\ page \in Int /\ pageId \in Int /\ epoch \in Int
    /\ alive \in BOOLEAN /\ allowed \in BOOLEAN
    /\ AllOwn(records) /\ (alive \/ records = {})
    /\ \A c \in calls : CallOpen(c)
    /\ Ring!EvidenceBelongs

-----------------------------------------------------------------------------
\* What is kept was there.
LEMMA KeepsFewer ==
    ASSUME NEW rs, Ring!Keep(rs)
    PROVE  records' \subseteq rs /\ pageId' = page /\ \A r \in records' : now - r.at <= Window
BY DEF Ring!Keep, Ring!Bounded, Ring!Evict, Ring!Recent

\* A record is replaced by one with the same id.
LEMMA InsteadOwn ==
    ASSUME AllOwn(records), NEW r \in records, NEW new, Own(new), new.id = r.id, NEW R, R \subseteq Ring!Instead(r, new),
           UNCHANGED <<sequence, pageId, epoch>>, records' = R
    PROVE  AllOwn(records)' /\ \A s \in records' : s = new \/ s \in records \ {r}
<1>1. \A s \in R : s = new \/ s \in records \ {r}
    BY DEF Ring!Instead
<1>2. \A s \in R : Own(s)
    BY <1>1 DEF AllOwn
<1>3. \A s \in R : Own(s)'
    BY <1>2 DEF Own
<1>4. \A s, t \in R : s.id = t.id => s = t
    BY <1>1 DEF AllOwn
<1> QED BY <1>1, <1>3, <1>4 DEF AllOwn

\* Fewer records and calls are as sound.
LEMMA FewerSound ==
    ASSUME RecordsSound, records' \subseteq records, calls' \subseteq calls, UNCHANGED <<sequence, epoch>>,
           pageId' = pageId \/ records' = {}
    PROVE  AllOwn(records)' /\ (\A c \in calls : CallOpen(c))'
<1>1. ASSUME NEW r \in records' PROVE Own(r)'
    BY DEF RecordsSound, AllOwn, Own
<1>2. \A r, s \in records' : r.id = s.id => r = s
    BY DEF RecordsSound, AllOwn
<1>3. ASSUME NEW c \in calls' PROVE CallOpen(c)'
    BY DEF RecordsSound, CallOpen
<1> QED BY <1>1, <1>2, <1>3 DEF AllOwn

\* A fetch is one more request, and may be one more record (begin).
LEMMA FetchSound ==
    ASSUME RecordsSound, NEW e, Ring!Fetch(e)
    PROVE  RecordsSound'
<1>1. PICK rs : rs = Ring!Recent(Ring!Reset(records))
    OBVIOUS
<1>2. PICK begun \in BOOLEAN : begun <=> /\ e = epoch /\ alive
                                         /\ Ring!Cardinality({r \in rs : r.result = "pending"}) < Pending
    OBVIOUS
<1>3. PICK c : c = [id |-> sequence', local |-> IF begun THEN sequence' ELSE 0, answered |-> FALSE]
    OBVIOUS
<1>4. /\ sequence' = sequence + 1 /\ calls' = calls \cup {c}
      /\ IF e = epoch /\ alive THEN Ring!Keep(IF begun THEN rs \cup {Ring!Record(sequence')} ELSE rs)
         ELSE UNCHANGED <<records, refs, pageId>>
      /\ UNCHANGED <<now, alive, epoch, page, allowed, evidence>>
    BY <1>1, <1>2, <1>3 DEF Ring!Fetch
<1>5. /\ sequence \in Nat /\ now \in Int /\ page \in Int /\ pageId \in Int /\ epoch \in Int
      /\ alive \in BOOLEAN /\ allowed \in BOOLEAN /\ AllOwn(records) /\ (alive \/ records = {})
    BY DEF RecordsSound
<1>6. sequence' \in Nat /\ sequence' > sequence /\ 1 .. sequence \subseteq 1 .. sequence'
      /\ sequence' \in 1 .. sequence' /\ sequence' \notin 1 .. sequence
    BY <1>4, <1>5
<1>7. c \in FetchCall /\ c.id = sequence' /\ c.local \in {0, sequence'} /\ (c.local = sequence' => begun)
    BY <1>3, <1>6 DEF FetchCall
<1>8. PICK new : new = Ring!Record(sequence')
    OBVIOUS
<1>9. /\ new \in RequestRecord /\ new.id = sequence' /\ new.page = page /\ new.epoch = epoch /\ new.body = 0
    BY <1>5, <1>6, <1>8 DEF Ring!Record, RequestRecord
<1>10. rs \subseteq records /\ (page = pageId \/ rs = {})
    BY <1>1 DEF Ring!Recent, Ring!Reset
<1>11. records' \subseteq records \cup {new} /\ pageId' \in {page, pageId}
       /\ (\A r \in records' : r \in records => pageId' = pageId)
       /\ (new \in records' => pageId' = page)
       /\ (~alive => records' = {})
    <2>1. CASE e = epoch /\ alive
        <3>1. PICK k : k = IF begun THEN rs \cup {new} ELSE rs
            OBVIOUS
        <3>2. Ring!Keep(k)
            BY <1>4, <1>8, <2>1, <3>1
        <3>3. records' \subseteq k /\ pageId' = page
            BY <3>2, KeepsFewer
        <3>4. new \notin records
            BY <1>5, <1>6, <1>9 DEF AllOwn, Own
        <3> QED BY <1>10, <2>1, <3>1, <3>3, <3>4
    <2>2. CASE ~(e = epoch /\ alive)
        <3>1. new \notin records
            BY <1>5, <1>6, <1>9 DEF AllOwn, Own
        <3> QED BY <1>4, <1>5, <2>2, <3>1
    <2> QED BY <2>1, <2>2
<1>12. ASSUME NEW r \in records' PROVE Own(r)'
    <2>1. CASE r \in records
        BY <1>4, <1>5, <1>6, <1>11, <2>1 DEF AllOwn, Own
    <2>2. CASE r = new
        BY <1>4, <1>6, <1>9, <1>11, <2>2 DEF Own
    <2> QED BY <1>11, <2>1, <2>2
<1>13. \A r, s \in records' : r.id = s.id => r = s
    <2>1. \A r \in records : r.id # sequence'
        BY <1>5, <1>6 DEF AllOwn, Own
    <2> QED BY <1>5, <1>9, <1>11, <2>1 DEF AllOwn
<1>14. ASSUME NEW d \in calls' PROVE CallOpen(d)'
    <2>1. \A x \in calls : x.id \in 1 .. sequence
        BY DEF RecordsSound, CallOpen
    <2>2. CASE d \in calls
        <3>1. CallOpen(d)
            BY <2>2 DEF RecordsSound
        <3>2. d.id # sequence' /\ d.local # sequence' /\ d.id \in 1 .. sequence'
            BY <1>6, <3>1 DEF CallOpen
        <3>3. \A x \in calls' : x.id = d.id => x = d
            BY <1>4, <1>7, <3>1, <3>2 DEF CallOpen
        <3>4. \A r \in records' : r.id = d.local => r.body = 0
            BY <1>9, <1>11, <3>1 DEF CallOpen
        <3> QED BY <3>1, <3>2, <3>3, <3>4 DEF CallOpen
    <2>3. CASE d = c
        <3>1. \A x \in calls' : x.id = c.id => x = c
            BY <1>4, <1>6, <1>7, <2>1
        <3>2. \A r \in records' : r.id = c.local => r.body = 0
            <4>1. \A r \in records : r.id # 0 /\ r.id # sequence'
                BY <1>5, <1>6 DEF AllOwn, Own
            <4> QED BY <1>7, <1>9, <1>11, <4>1
        <3> QED BY <1>6, <1>7, <2>3, <3>1, <3>2 DEF CallOpen
    <2> QED BY <1>4, <2>2, <2>3
<1>15. AllOwn(records)' /\ (\A d \in calls : CallOpen(d))'
    BY <1>12, <1>13, <1>14 DEF AllOwn
<1>16. Ring!EvidenceBelongs'
    BY <1>4 DEF RecordsSound, Ring!EvidenceBelongs
<1> QED BY <1>4, <1>5, <1>6, <1>11, <1>15, <1>16 DEF RecordsSound

\* An answer changes the result of its own record (finish).
LEMMA AnswerSound ==
    ASSUME RecordsSound, NEW c, NEW result \in {"success", "http", "network"}, Ring!Answer(c, result)
    PROVE  RecordsSound'
<1>1. /\ c \in calls /\ UNCHANGED <<now, alive, epoch, page, allowed, sequence, evidence>>
      /\ calls' = (calls \ {c}) \cup (IF result \in {"success", "http"} THEN {[c EXCEPT !.answered = TRUE]} ELSE {})
    BY DEF Ring!Answer
<1>2. CallOpen(c) /\ c \in FetchCall
    BY <1>1 DEF RecordsSound, CallOpen
<1>3. PICK d : d = [c EXCEPT !.answered = TRUE]
    OBVIOUS
<1>4. d \in FetchCall /\ d.id = c.id /\ d.local = c.local
    BY <1>2, <1>3 DEF FetchCall
<1>5. calls' \subseteq (calls \ {c}) \cup {d}
    BY <1>1, <1>3
<1>6. \A x \in calls' : /\ x \in FetchCall /\ x.id \in 1 .. sequence /\ x.local \in {0, x.id}
                        /\ \A y \in calls' : y.id = x.id => y = x
                        /\ \E z \in calls : z.local = x.local
    BY <1>1, <1>2, <1>4, <1>5 DEF RecordsSound, CallOpen
<1>7. \/ UNCHANGED <<records, pageId>>
      \/ records' = {} /\ pageId' = page
      \/ /\ UNCHANGED pageId
         /\ \E r \in records : r.id = c.local /\ records' = Ring!Recent(Ring!Instead(r, [r EXCEPT !.result = result])) /\ alive
    BY DEF Ring!Answer
<1>8. AllOwn(records)' /\ (\A z \in calls : \A s \in records' : s.id = z.local => s.body = 0)
      /\ (alive' \/ records' = {}) /\ pageId' \in Int
    <2>1. CASE UNCHANGED <<records, pageId>> \/ (records' = {} /\ pageId' = page)
        BY <1>1, <2>1 DEF RecordsSound, AllOwn, Own, CallOpen
    <2>2. CASE /\ UNCHANGED pageId
               /\ \E r \in records : r.id = c.local /\ records' = Ring!Recent(Ring!Instead(r, [r EXCEPT !.result = result])) /\ alive
        <3>1. PICK r \in records : r.id = c.local /\ records' = Ring!Recent(Ring!Instead(r, [r EXCEPT !.result = result])) /\ alive
            BY <2>2
        <3>2. PICK new : new = [r EXCEPT !.result = result]
            OBVIOUS
        <3>3. Own(r) /\ r.body = 0
            BY <1>2, <3>1 DEF RecordsSound, AllOwn, CallOpen
        <3>4. Own(new) /\ new.id = r.id /\ new.body = 0
            BY <3>2, <3>3 DEF Own, RequestRecord
        <3>5. records' \subseteq Ring!Instead(r, new)
            BY <3>1, <3>2 DEF Ring!Recent
        <3>6. AllOwn(records)' /\ \A s \in records' : s = new \/ s \in records \ {r}
            BY <1>1, <2>2, <3>4, <3>5, InsteadOwn DEF RecordsSound
        <3> QED BY <1>1, <2>2, <3>1, <3>4, <3>6 DEF RecordsSound, CallOpen
    <2> QED BY <1>7, <2>1, <2>2
<1>9. (\A x \in calls : CallOpen(x))'
    BY <1>1, <1>6, <1>8 DEF CallOpen
<1>10. Ring!EvidenceBelongs'
    BY <1>1 DEF RecordsSound, Ring!EvidenceBelongs
<1> QED BY <1>1, <1>8, <1>9, <1>10 DEF RecordsSound

\* The text of a response goes to the record of its request, and only once (responseText).
LEMMA ResponseTextSound ==
    ASSUME RecordsSound, NEW c, NEW businessFailure \in BOOLEAN, Ring!ResponseText(c, businessFailure)
    PROVE  RecordsSound'
<1>1. /\ c \in calls /\ UNCHANGED <<now, alive, epoch, page, allowed, sequence, evidence>>
      /\ calls' = calls \ {c}
    BY DEF Ring!ResponseText
<1>2. CallOpen(c) /\ c \in FetchCall
    BY <1>1 DEF RecordsSound, CallOpen
<1>3. Ring!EvidenceBelongs'
    BY <1>1 DEF RecordsSound, Ring!EvidenceBelongs
<1>4. CASE UNCHANGED <<records, pageId>> \/ (records' = {} /\ pageId' = page)
    <2>1. AllOwn(records)' /\ (\A d \in calls : CallOpen(d))'
        BY <1>1, <1>4, FewerSound
    <2> QED BY <1>1, <1>3, <1>4, <2>1 DEF RecordsSound
<1>5. ASSUME NEW r \in records, NEW result, NEW collects \in BOOLEAN, alive, page = pageId, r.id = c.local,
             result = (IF businessFailure THEN "business" ELSE r.result),
             collects <=> result # "success" \/ allowed,
             Ring!Keep(Ring!Instead(r, [r EXCEPT !.result = result, !.body = IF collects THEN c.id ELSE @,
                                       !.permitted = IF collects THEN allowed ELSE @]))
      PROVE  RecordsSound'
    <2>1. PICK new : new = [r EXCEPT !.result = result, !.body = IF collects THEN c.id ELSE @,
                                     !.permitted = IF collects THEN allowed ELSE @]
        OBVIOUS
    <2>2. Own(r) /\ r.body = 0 /\ r \in RequestRecord /\ r.id \in 1 .. sequence
        BY <1>2, <1>5 DEF RecordsSound, AllOwn, CallOpen, Own
    <2>3. c.id = r.id
        BY <1>2, <1>5, <2>2 DEF CallOpen, RecordsSound
    <2>4. PICK b \in Nat, p \in BOOLEAN : b = (IF collects THEN c.id ELSE r.body)
                                          /\ p = IF collects THEN allowed ELSE r.permitted
        BY <1>2, <2>2 DEF FetchCall, RequestRecord, RecordsSound
    <2>5. new = [r EXCEPT !.result = result, !.body = b, !.permitted = p]
        BY <2>1, <2>2, <2>4 DEF RequestRecord
    <2>6. result \in {"pending", "success", "http", "network", "business"}
        BY <1>5, <2>2 DEF RequestRecord
    <2>7. /\ new \in RequestRecord /\ new.id = r.id /\ new.page = r.page /\ new.epoch = r.epoch
          /\ new.body = b /\ new.result = result /\ new.permitted = p
        BY <2>2, <2>5, <2>6 DEF RequestRecord
    <2>8. result = "success" /\ b # 0 => p
        BY <1>5, <2>2, <2>4
    <2>9. b \in {0, r.id}
        BY <2>2, <2>3, <2>4
    <2>10. Own(new)
        BY <2>2, <2>7, <2>8, <2>9 DEF Own
    <2>11. records' \subseteq Ring!Instead(r, new) /\ pageId' = pageId
        BY <1>5, <2>1, KeepsFewer
    <2>12. AllOwn(records)' /\ \A s \in records' : s = new \/ s \in records \ {r}
        BY <1>1, <2>7, <2>10, <2>11, InsteadOwn DEF RecordsSound
    <2>13. ASSUME NEW d \in calls' PROVE CallOpen(d)'
        <3>1. d \in calls /\ d # c /\ CallOpen(d)
            BY <1>1 DEF RecordsSound
        <3>2. d.local # r.id
            BY <1>1, <2>2, <2>3, <3>1 DEF CallOpen, RecordsSound
        <3>3. \A s \in records' : s.id = d.local => s.body = 0
            BY <2>7, <2>12, <3>1, <3>2 DEF CallOpen
        <3> QED BY <1>1, <3>1, <3>3 DEF CallOpen
    <2> QED BY <1>1, <1>3, <1>5, <2>11, <2>12, <2>13 DEF RecordsSound
<1>6. CASE \E r \in records :
             LET result == IF businessFailure THEN "business" ELSE r.result
                 collects == result # "success" \/ allowed IN
             /\ r.id = c.local /\ alive /\ page = pageId
             /\ Ring!Keep(Ring!Instead(r, [r EXCEPT !.result = result, !.body = IF collects THEN c.id ELSE @,
                                          !.permitted = IF collects THEN allowed ELSE @]))
    <2>1. PICK r \in records :
             LET result == IF businessFailure THEN "business" ELSE r.result
                 collects == result # "success" \/ allowed IN
             /\ r.id = c.local /\ alive /\ page = pageId
             /\ Ring!Keep(Ring!Instead(r, [r EXCEPT !.result = result, !.body = IF collects THEN c.id ELSE @,
                                          !.permitted = IF collects THEN allowed ELSE @]))
        BY <1>6
    <2>2. PICK result : result = IF businessFailure THEN "business" ELSE r.result
        OBVIOUS
    <2>3. PICK collects \in BOOLEAN : collects = (result # "success" \/ allowed)
        BY DEF RecordsSound
    <2> QED BY <1>5, <2>1, <2>2, <2>3
<1> QED BY <1>4, <1>6 DEF Ring!ResponseText

\* What an error freezes are the records there are (errorDiagnostics).
LEMMA CaptureErrorSound ==
    ASSUME RecordsSound, Ring!CaptureError
    PROVE  RecordsSound'
<1>1. /\ alive /\ Ring!Keep(Ring!Reset(records)) /\ UNCHANGED <<now, alive, epoch, page, allowed, calls, sequence>>
      /\ evidence' = [page |-> page, epoch |-> epoch, at |-> now, records |-> Ring!Frozen(records'), allowed |-> allowed]
    BY DEF Ring!CaptureError
<1>2. records' \subseteq records /\ pageId' = page /\ (page = pageId \/ records' = {})
      /\ \A r \in records' : now - r.at <= Window
    BY <1>1, KeepsFewer DEF Ring!Reset
<1>3. AllOwn(records)' /\ (\A d \in calls : CallOpen(d))'
    BY <1>1, <1>2, FewerSound
<1>4. /\ evidence'.page = page /\ evidence'.epoch = epoch /\ evidence'.at = now /\ evidence'.allowed = allowed
      /\ evidence'.records = Ring!Frozen(records')
    BY <1>1
<1>5. ASSUME NEW s \in Ring!Frozen(records')
      PROVE  \E r \in records' :
               /\ s.id = r.id /\ s.at = r.at /\ s.page = r.page /\ s.epoch = r.epoch /\ s.body = r.body
               /\ s.result = r.result /\ s.permitted = r.permitted
               /\ (s.result = "success" => (s.request => allowed))
               /\ s = IF r.result = "success" /\ ~allowed THEN [r EXCEPT !.request = FALSE] ELSE r
    <2>1. PICK r \in records' : s = IF r.result = "success" /\ ~allowed THEN [r EXCEPT !.request = FALSE] ELSE r
        BY <1>1 DEF Ring!Frozen
    <2>2. r \in RequestRecord
        BY <1>3 DEF AllOwn, Own
    <2> QED BY <2>1, <2>2 DEF RequestRecord
<1>6. Ring!EvidenceBelongs'
    <2>1. ASSUME NEW s \in Ring!Frozen(records')
          PROVE  /\ s.page = page /\ s.epoch = epoch /\ now - s.at <= Window /\ s.body \in {0, s.id}
                 /\ s.result = "success" => (s.request => allowed) /\ (s.body # 0 => s.permitted)
        <3>1. PICK r \in records' :
               /\ s.id = r.id /\ s.at = r.at /\ s.page = r.page /\ s.epoch = r.epoch /\ s.body = r.body
               /\ s.result = r.result /\ s.permitted = r.permitted
               /\ (s.result = "success" => (s.request => allowed))
            BY <1>5
        <3>2. Own(r) /\ page = pageId
            BY <1>2 DEF RecordsSound, AllOwn
        <3> QED BY <1>2, <3>1, <3>2 DEF Own
    <2>2. ASSUME NEW s \in Ring!Frozen(records'), NEW t \in Ring!Frozen(records'), s.id = t.id PROVE s = t
        <3>1. PICK r \in records' :
                /\ s.id = r.id
                /\ s = IF r.result = "success" /\ ~allowed THEN [r EXCEPT !.request = FALSE] ELSE r
            BY <1>5
        <3>2. PICK u \in records' :
                /\ t.id = u.id
                /\ t = IF u.result = "success" /\ ~allowed THEN [u EXCEPT !.request = FALSE] ELSE u
            BY <1>5
        <3>3. r = u
            BY <1>3, <2>2, <3>1, <3>2 DEF AllOwn
        <3> QED BY <3>1, <3>2, <3>3
    <2> QED BY <1>4, <2>1, <2>2 DEF Ring!EvidenceBelongs
<1> QED BY <1>1, <1>2, <1>3, <1>6 DEF RecordsSound

\* Another page view, tracker, policy or time takes no record over.
LEMMA OthersSound ==
    ASSUME RecordsSound, Ring!Navigate \/ Ring!Stop \/ Ring!Start \/ Ring!ChangePolicy \/ Ring!Tick \/ UNCHANGED Ring!vars
    PROVE  RecordsSound'
<1>1. UNCHANGED <<calls, sequence, evidence>>
    BY DEF Ring!Navigate, Ring!Stop, Ring!Start, Ring!ChangePolicy, Ring!Tick, Ring!vars
<1>2. Ring!EvidenceBelongs'
    BY <1>1 DEF RecordsSound, Ring!EvidenceBelongs
<1>3. CASE Ring!Start
    <2>1. records = {} /\ records' = {}
        BY <1>3 DEF Ring!Start, RecordsSound
    <2>2. AllOwn(records)' /\ (\A c \in calls : CallOpen(c))'
        BY <1>1, <2>1 DEF AllOwn, RecordsSound, CallOpen
    <2> QED BY <1>1, <1>2, <1>3, <2>1, <2>2 DEF Ring!Start, RecordsSound
<1>4. CASE Ring!Navigate \/ Ring!Stop \/ Ring!ChangePolicy \/ Ring!Tick \/ UNCHANGED Ring!vars
    <2>1. records' \subseteq records /\ UNCHANGED <<pageId, epoch>> /\ (alive' \/ records' = {})
          /\ alive' \in BOOLEAN /\ allowed' \in BOOLEAN /\ now' \in Int /\ page' \in Int
        <3>1. CASE Ring!Navigate
            BY <3>1 DEF Ring!Navigate, RecordsSound
        <3>2. CASE Ring!Stop
            BY <3>2 DEF Ring!Stop, RecordsSound
        <3>3. CASE Ring!ChangePolicy
            BY <3>3 DEF Ring!ChangePolicy, RecordsSound
        <3>4. CASE Ring!Tick
            BY <3>4 DEF Ring!Tick, RecordsSound
        <3>5. CASE UNCHANGED Ring!vars
            BY <3>5 DEF Ring!vars, RecordsSound
        <3> QED BY <1>4, <3>1, <3>2, <3>3, <3>4, <3>5
    <2>2. AllOwn(records)' /\ (\A c \in calls : CallOpen(c))'
        BY <1>1, <2>1, FewerSound
    <2> QED BY <1>1, <1>2, <2>1, <2>2 DEF RecordsSound
<1> QED BY <1>3, <1>4

\* There are no records at first.
LEMMA RecordsBegin == ASSUME Ring!Init PROVE RecordsSound
<1>1. evidence.records = {}
    BY DEF Ring!Init, Ring!Nothing
<1> QED BY <1>1 DEF Ring!Init, RecordsSound, AllOwn, Ring!EvidenceBelongs

\* The evidence of an error is of its own page view, tracker and window; each text is that of its
\* own request; what is there of a success was allowed (errorDiagnostics, finish, responseText).
THEOREM EvidenceIsOwn == Ring!Spec => []Ring!EvidenceBelongs
<1>1. Ring!Init => RecordsSound
    BY RecordsBegin
<1>2. RecordsSound /\ [Ring!Next]_Ring!vars => RecordsSound'
    <2> SUFFICES ASSUME RecordsSound, [Ring!Next]_Ring!vars PROVE RecordsSound'
        OBVIOUS
    <2>1. CASE Ring!Next
        <3>1. CASE \E e \in 1 .. epoch : Ring!Fetch(e)
            BY <3>1, FetchSound
        <3>2. CASE \E c \in calls : \/ \E result \in {"success", "http", "network"} : Ring!Answer(c, result)
                                    \/ \E businessFailure \in BOOLEAN : Ring!ResponseText(c, businessFailure)
            BY <3>2, AnswerSound, ResponseTextSound
        <3> QED BY <2>1, <3>1, <3>2, CaptureErrorSound, OthersSound DEF Ring!Next
    <2> QED BY <2>1, OthersSound
<1>3. RecordsSound => Ring!EvidenceBelongs
    BY DEF RecordsSound
<1> QED BY <1>1, <1>2, <1>3, PTL DEF Ring!Spec
=============================================================================
