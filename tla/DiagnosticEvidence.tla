-------------------------- MODULE DiagnosticEvidence --------------------------
(***************************************************************************)
(* What the diagnostic pipeline promises of each event's raw evidence, as  *)
(* a reader of the detail page sees it: a decision to keep or to withhold  *)
(* it is taken once; only kept evidence becomes readable; deletion is      *)
(* final, also for an event that has not arrived yet; and what has expired *)
(* is never readable again.                                                *)
(***************************************************************************)
CONSTANT Events

VARIABLE evidence

Init == evidence = [e \in Events |-> "unknown"]

\* One admission decides any number of new events at once.
Decide ==
    evidence' \in {f \in [Events -> {"unknown", "kept", "withheld", "readable", "deleted", "expired"}] :
        \A e \in Events : f[e] = evidence[e] \/ (evidence[e] = "unknown" /\ f[e] \in {"kept", "withheld"})}

Store(e) == evidence[e] = "kept" /\ evidence' = [evidence EXCEPT ![e] = "readable"]

Delete(e) == evidence' = [evidence EXCEPT ![e] = "deleted"]

Expire(e) ==
    /\ evidence[e] \in {"kept", "withheld", "readable"}
    /\ evidence' = [evidence EXCEPT ![e] = "expired"]

Next == Decide \/ \E e \in Events : Store(e) \/ Delete(e) \/ Expire(e)

Spec == Init /\ [][Next]_evidence
=============================================================================
