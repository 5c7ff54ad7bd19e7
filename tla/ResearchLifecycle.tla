------------------------- MODULE ResearchLifecycle --------------------------
(***************************************************************************)
(* What Research Mode promises about one record, whoever calls what and    *)
(* when: a drafted plan is approved before it runs, the plan text is fixed *)
(* once it runs, it runs at most once, and a report exists only from the   *)
(* completion of that run.  A stop is advice: a run past its last check    *)
(* still completes.                                                        *)
(***************************************************************************)
CONSTANTS Authors, None

VARIABLES status, plan, report

vars == <<status, plan, report>>

Init == status = "absent" /\ plan = None /\ report = FALSE

Create ==
    /\ status = "absent"
    /\ status' = "plan_ready" /\ plan' \in Authors
    /\ UNCHANGED report

Approve ==
    /\ status \in {"plan_ready", "rejected"}
    /\ status' = "approved" /\ plan' \in Authors
    /\ UNCHANGED report

Reject ==
    /\ status \in {"plan_ready", "rejected"}
    /\ status' = "rejected"
    /\ UNCHANGED <<plan, report>>

Start ==
    /\ status = "approved"
    /\ status' = "running"
    /\ UNCHANGED <<plan, report>>

Finish(outcome) ==
    /\ status \in {"running", "stopped"}
    /\ status' = outcome
    /\ report' = (outcome = "completed")
    /\ UNCHANGED plan

Delete ==
    /\ status \notin {"absent", "deleted"}
    /\ status' = "deleted"
    /\ UNCHANGED <<plan, report>>

Next ==
    \/ Create \/ Approve \/ Reject \/ Start \/ Delete
    \/ \E outcome \in {"completed", "failed", "stopped"} : Finish(outcome)

Spec == Init /\ [][Next]_vars
=============================================================================
