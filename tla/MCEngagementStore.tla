------------------------- MODULE MCEngagementStore -------------------------
(* EngagementStore with two groups of one message each; the batches repeat *)
(* an event, report an open out of order and contradict each other about   *)
(* delivery.                                                               *)
EXTENDS EngagementStore, TLC

CONSTANTS m1, m2, g1, g2

MCGroupOf == m1 :> g1 @@ m2 :> g2

Arrived == [id |-> 1, kind |-> "delivered", email |-> m1, at |-> 1]
Opened  == [id |-> 2, kind |-> "open", email |-> m1, at |-> 2]
Earlier == [id |-> 3, kind |-> "open", email |-> m1, at |-> 1]
Clicked == [id |-> 2, kind |-> "click", email |-> m2, at |-> 2]
Bounced == [id |-> 4, kind |-> "failed", email |-> m1, at |-> 2]
Again   == [id |-> 5, kind |-> "delivered", email |-> m1, at |-> 2]
Queued  == [id |-> 6, kind |-> "other", email |-> m2, at |-> 1]

MCEvents  == {Arrived, Opened, Earlier, Clicked, Bounced, Again, Queued}
MCBatches == {<<Queued, Arrived, Opened>>, <<Earlier, Bounced>>, <<Again, Opened, Clicked>>}

Symmetry == Permutations(Writers)
=============================================================================
