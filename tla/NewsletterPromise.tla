------------------------- MODULE NewsletterPromise -------------------------
(***************************************************************************)
(* What sending a newsletter promises its author and its readers, with no  *)
(* word of rows, versions, jobs, replicas or providers: it is edited while *)
(* it is a draft; once it is out every recipient gets at most one copy, of *)
(* the letter that is still stored; it becomes a draft again only while    *)
(* nobody has a copy; a sent newsletter stays sent.                        *)
(***************************************************************************)
CONSTANTS Letters, Recipients

VARIABLES
    phase,    \* draft, out (accepted for sending), sent or gone
    stored,   \* the letter the service shows
    inbox     \* <<recipient, letter>>: the copies people have received

vars == <<phase, stored, inbox>>

Readers == {copy[1] : copy \in inbox}

Init ==
    /\ phase = "draft"
    /\ stored \in Letters
    /\ inbox = {}

Edit ==
    /\ phase = "draft"
    /\ stored' \in Letters
    /\ UNCHANGED <<phase, inbox>>

Accept ==
    /\ phase = "draft"
    /\ phase' = "out"
    /\ UNCHANGED <<stored, inbox>>

Deliver(r) ==
    /\ phase \in {"out", "sent"}
    /\ r \notin Readers
    /\ inbox' = inbox \cup {<<r, stored>>}
    /\ UNCHANGED <<phase, stored>>

Withdraw ==
    /\ phase = "out"
    /\ inbox = {}
    /\ phase' = "draft"
    /\ UNCHANGED <<stored, inbox>>

Settle ==
    /\ phase = "out"
    /\ phase' = "sent"
    /\ UNCHANGED <<stored, inbox>>

Delete ==
    /\ phase = "draft"
    /\ phase' = "gone"
    /\ UNCHANGED <<stored, inbox>>

Next ==
    \/ Edit
    \/ Accept
    \/ \E r \in Recipients : Deliver(r)
    \/ Withdraw
    \/ Settle
    \/ Delete

Spec == Init /\ [][Next]_vars
=============================================================================
