------------------------- MODULE EngagementPromise -------------------------
(***************************************************************************)
(* What the engagement store promises those who read reports, with no word *)
(* of transactions, locks, redeliveries, replicas or crashes: an open or a *)
(* click is counted once, together with its figures; the first delivery    *)
(* and the first failure of a message stand; who is told that a batch is   *)
(* applied need not send it again; and of a send that is taken back        *)
(* nothing remains and nothing returns.                                    *)
(***************************************************************************)
EXTENDS Integers

CONSTANTS Messages, Groups, GroupOf, Events, Batches,
          Instants    \* at which something may have happened

VARIABLES
    listed,      \* the messages a listing shows
    figures,     \* of each message
    counted,     \* the opens and clicks in the figures
    withdrawn,   \* groups whose send was taken back
    applied      \* batches whose sender was told that they are applied

vars == <<listed, figures, counted, withdrawn, applied>>

HitKinds == {"open", "click"}
Blank == [delivered |-> 0, failed |-> 0,
          count |-> [k \in HitKinds |-> 0], last |-> [k \in HitKinds |-> 0]]

Init ==
    /\ listed = {}
    /\ figures = [m \in Messages |-> Blank]
    /\ counted = {} /\ withdrawn = {} /\ applied = {}

Withdrawn(m) == GroupOf[m] \in withdrawn

(* A message is listed from the first thing that is known of it.           *)
Record(m, f) ==
    /\ ~Withdrawn(m)
    /\ listed' = listed \cup {m}
    /\ figures' = [figures EXCEPT ![m] = f]
    /\ UNCHANGED <<withdrawn, applied>>

Accept(m) == Record(m, figures[m]) /\ UNCHANGED counted

Deliver(m, at) ==
    /\ figures[m].delivered = 0
    /\ Record(m, [figures[m] EXCEPT !.delivered = at])
    /\ UNCHANGED counted

Fail(m, at) ==
    /\ figures[m].failed = 0
    /\ Record(m, [figures[m] EXCEPT !.failed = at])
    /\ UNCHANGED counted

Later(a, b) == IF a < b THEN b ELSE a

Count(e) ==
    /\ e.kind \in HitKinds /\ e \notin counted
    /\ counted' = counted \cup {e}
    /\ Record(e.email, [figures[e.email] EXCEPT !.count[e.kind] = @ + 1,
                                                !.last[e.kind] = Later(@, e.at)])

Of(g) == {m \in Messages : GroupOf[m] = g}

TakeBack(g) ==
    /\ withdrawn' = withdrawn \cup {g}
    /\ listed' = listed \ Of(g)
    /\ figures' = [m \in Messages |-> IF m \in Of(g) THEN Blank ELSE figures[m]]
    /\ counted' = {e \in counted : e.email \notin Of(g)}
    /\ UNCHANGED applied

(* What need not be sent again.                                            *)
Kept(e) ==
    \/ Withdrawn(e.email)
    \/ e.kind = "delivered" /\ figures[e.email].delivered # 0
    \/ e.kind = "failed" /\ figures[e.email].failed # 0
    \/ e.kind \in HitKinds /\ e \in counted
    \/ e.kind = "other"

Acknowledge(b) ==
    /\ \A i \in DOMAIN b : Kept(b[i])
    /\ applied' = applied \cup {b}
    /\ UNCHANGED <<listed, figures, counted, withdrawn>>

Next ==
    \/ \E m \in Messages : Accept(m)
    \/ \E m \in Messages, at \in Instants : Deliver(m, at) \/ Fail(m, at)
    \/ \E e \in Events : Count(e)
    \/ \E g \in Groups : TakeBack(g)
    \/ \E b \in Batches : Acknowledge(b)

Spec == Init /\ [][Next]_vars
=============================================================================
