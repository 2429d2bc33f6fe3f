----------------------------- MODULE RunContract -----------------------------
(***************************************************************************)
(* What a caller of PipelineEngine.run() is promised, whatever happens     *)
(* inside: a run row gets one final status, exactly that status is         *)
(* announced, `done` settles with it and not before, and a run that was    *)
(* begun does settle.                                                      *)
(***************************************************************************)

VARIABLES
    status,     \* the run row's status
    event,      \* the status in the RUN_COMPLETE event
    handle      \* what the caller holds: nothing yet, a rejection, a result

vars == <<status, event, handle>>

Outcomes == {"SUCCESS", "FAILED", "ABORTED"}

Init == status = "none" /\ event = "none" /\ handle = "none"

Begin ==
    /\ status = "none" /\ handle = "none"
    /\ status' = "RUNNING"
    /\ UNCHANGED <<event, handle>>

Reject ==
    /\ status = "none" /\ handle = "none"
    /\ handle' = "rejected"
    /\ UNCHANGED <<status, event>>

(* Without a catalog to clean up, `done` settles in the same turn.          *)
Conclude(s) ==
    /\ status = "RUNNING"
    /\ status' = s
    /\ event' = s
    /\ handle' \in {handle, s}

Settle ==
    /\ status \in Outcomes /\ handle = "none"
    /\ handle' = status
    /\ UNCHANGED <<status, event>>

Progress == Settle \/ \E s \in Outcomes : Conclude(s)

Next == Begin \/ Reject \/ Progress

Spec == Init /\ [][Next]_vars /\ WF_vars(Progress)

=============================================================================
