------------------------- MODULE MCDiagnosticReceipts -------------------------
(***************************************************************************)
(* Instances of DiagnosticReceipts for TLC.                                *)
(***************************************************************************)
EXTENDS DiagnosticReceipts, TLC

CONSTANTS e1, e2, e3, page

Symmetry == Permutations(Requests) \cup Permutations(Workers)

TwoEvents == {e1, e2}
OnePage == [e \in Events |-> page]
Captured == [e \in Events |-> "captured"]
FirstUnavailable == [e \in Events |-> IF e = e1 THEN "unavailable" ELSE "captured"]

Nothing == [e \in Events |-> "no"]
Collect == [enabled |-> TRUE, refuses |-> Nothing, perMinute |-> 20]
Off == [enabled |-> FALSE, refuses |-> Nothing, perMinute |-> 20]

OnlyCollect == {Collect}
CollectOrOff == {Collect, Off}

\* The environment of the liveness run: one policy, one directory and one minute, so that
\* no event is retired and no request conflicts.  The other runs publish and let time pass.
SettledNext ==
    \/ \E r \in Requests :
         \/ \E batch \in SUBSET Events : Receive(r, batch)
         \/ \E kept \in SUBSET Candidates(r) : Admit(r, kept)
         \/ Publish(r)
         \/ Fail(r)
    \/ \E w \in Workers : Persist(w)
    \/ \E e \in Deletable : Remove(e)
    \/ SweepDetails
    \/ SweepMark
    \/ SweepAbort
    \/ \E S \in SUBSET Events : CleanReceipts(S)
    \/ \E e \in Events : Expire(e) \/ DropDetail(e)

SettledSpec == Init /\ [][SettledNext]_vars /\ Delivery /\ Sweeping
=============================================================================
