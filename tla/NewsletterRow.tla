--------------------------- MODULE NewsletterRow ---------------------------
(***************************************************************************)
(* The row of a newsletter, as all that share nothing else rely on it:     *)
(* what a statement may make of it, whoever issues it.  The version counts *)
(* the statements; the content is written only while the row is a draft;   *)
(* a batch is armed by a claim and leaves the row when the claim is taken  *)
(* back, and none is ever armed twice.                                     *)
(***************************************************************************)
EXTENDS Integers

CONSTANTS Batches, Contents, NoBatch

VARIABLES
    status, version, content, batch,
    spent        \* batches that no later claim will arm

row == <<status, version, content, batch>>

Init ==
    /\ \/ status = "none" /\ version = 0
       \/ status = "draft" /\ version = 1
    /\ content \in Contents /\ batch = NoBatch
    /\ spent \subseteq Batches

Write(newStatus, newBatch) ==
    status' = newStatus /\ version' = version + 1 /\ batch' = newBatch

Insert ==
    /\ status = "none"
    /\ Write("draft", NoBatch) /\ content' \in Contents

Edit ==
    /\ status = "draft"
    /\ Write("draft", NoBatch) /\ content' \in Contents

Delete ==
    /\ status = "draft"
    /\ status' = "gone" /\ UNCHANGED <<version, content, batch>>

Claim ==
    /\ status = "draft"
    /\ Write("sending", NoBatch) /\ UNCHANGED content

Arm ==
    /\ status = "draft"
    /\ batch' \in Batches \ (spent \cup {NoBatch}) /\ batch' \in spent'
    /\ Write("sending", batch') /\ UNCHANGED content

Settle ==
    /\ status \in {"sending", "scheduled"}
    /\ Write("sent", batch) /\ UNCHANGED content

Schedule ==
    /\ status = "sending" /\ batch # NoBatch
    /\ Write("scheduled", batch) /\ UNCHANGED content

TakeBack ==
    /\ status \in {"sending", "scheduled"}
    /\ Write("draft", NoBatch) /\ UNCHANGED content

Statement ==
    \/ Insert \/ Edit \/ Delete
    \/ Claim \/ Arm
    \/ Settle \/ Schedule \/ TakeBack

Next == spent \subseteq spent' /\ (Statement \/ UNCHANGED row)

Spec == Init /\ [][Next]_<<row, spent>>
=============================================================================
