--------------------------- MODULE FanOutPromise ---------------------------
(***************************************************************************)
(* What the lifecycle takes a fan-out for: every recipient gets one        *)
(* verdict, in any order, and once all have theirs the newsletter becomes  *)
(* a draft again if every one was rejected, and is settled otherwise.      *)
(* Dispatch, RevertSending, MarkSent and MarkScheduled of SendLifecycle    *)
(* are these steps with the row added.                                     *)
(***************************************************************************)
CONSTANT Recipients

VARIABLES
    mail,      \* the verdict on each recipient's message
    outcome    \* sending, draft or settled

vars == <<mail, outcome>>

Init ==
    /\ mail = [r \in Recipients |-> "todo"]
    /\ outcome = "sending"

Dispatch(r, verdict) ==
    /\ outcome = "sending"
    /\ mail[r] = "todo"
    /\ mail' = [mail EXCEPT ![r] = verdict]
    /\ UNCHANGED outcome

Settle ==
    /\ outcome = "sending"
    /\ \A r \in Recipients : mail[r] # "todo"
    /\ outcome' = IF \A r \in Recipients : mail[r] = "failed" THEN "draft" ELSE "settled"
    /\ UNCHANGED mail

Next ==
    \/ \E r \in Recipients, verdict \in {"sent", "failed", "unknown"} : Dispatch(r, verdict)
    \/ Settle

Spec == Init /\ [][Next]_vars
=============================================================================
