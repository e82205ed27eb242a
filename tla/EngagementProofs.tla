-------------------------- MODULE EngagementProofs --------------------------
(***************************************************************************)
(* The engagement store's safety, for every number of writers, messages,   *)
(* groups and batches.                                                     *)
(*                                                                         *)
(* The argument: a transaction that has read holds its group's lock, so    *)
(* what it read is still so when it commits (Locked, Snapshot); hence the  *)
(* tombstone check and the purge exclude each other, and a batch that has  *)
(* reported no error so far has stored every event before the current one, *)
(* or found its group reverted (Progress).                                 *)
(***************************************************************************)
EXTENDS EngagementStore, FiniteSetTheorems, TLAPS

(* A transaction under way holds the lock of its group.                    *)
Locked ==
    \A w \in Writers : stage[w] # "none" =>
        todo[w] # << >> /\ Now(w).op # "other" /\ lock[Now(w).group] = w

(* What a transaction has read is still so.                                *)
Snapshot ==
    \A w \in Writers : stage[w] = "read" =>
        /\ dead[w] = (Now(w).group \in tombs)
        /\ doomed[w] = {m \in Messages : GroupOf[m] = Now(w).group /\ row[m] # NONE}

Safe(e) == Stored(e) \/ GroupOf[e.email] \in tombs

(* A batch's remaining writes are its last events, and without an error so *)
(* far the others are stored.                                              *)
Done(w) == Len(job[w]) - Len(todo[w])

Progress ==
    \A w \in Writers : job[w] \in Batches =>
        /\ Len(todo[w]) <= Len(job[w])
        /\ \A i \in 1..Len(todo[w]) : todo[w][i] = EventWrite(job[w][Done(w) + i])
        /\ ~failed[w] => \A i \in 1..Done(w) : Safe(job[w][i])

Inv ==
    /\ TypeOK
    /\ IsFiniteSet(hits)
    /\ Locked
    /\ Snapshot
    /\ RollupMatchesEvents
    /\ RevertedLeavesNothing
    /\ Progress
    /\ AckedIsStored

USE DEF tables, work, trans, HitKinds, HitEvents, EventKinds

-----------------------------------------------------------------------------
(* Writes and queues.                                                      *)

(* A write that concerns a message carries that message's group.           *)
LEMMA WriteFacts ==
  ASSUME NEW x \in Writes
  PROVE  /\ x.group \in Groups
         /\ x.op \in HitKinds => /\ x.event \in Events /\ x.email = x.event.email
                                 /\ x.op = x.event.kind /\ x.email \in Messages
                                 /\ x.event.at \in Nat \ {0} /\ x = EventWrite(x.event)
         /\ x.op \in {"sent", "delivered", "failed"} =>
              x.email \in Messages /\ x.event.at \in Nat \ {0}
         /\ x.op # "revert" => x.group = GroupOf[x.email]
<1>1. CASE \E e \in Events : x = EventWrite(e)
  BY <1>1, EventAssumption, GroupAssumption DEF EventWrite, Write
<1>2. CASE \E op \in {"sent", "failed"}, m \in Messages : x = PostWrite(op, m)
  BY <1>2, GroupAssumption DEF PostWrite, Write
<1>3. CASE \E g \in Groups : x = PurgeWrite(g)
  BY <1>3 DEF PurgeWrite, Write
<1> QED
  BY <1>1, <1>2, <1>3 DEF Writes

(* The first write of a queue, and what remains after it.                  *)
LEMMA QueueFacts ==
  ASSUME TypeOK, NEW w \in Writers, todo[w] # << >>
  PROVE  /\ Now(w) \in Writes
         /\ Now(w) = todo[w][1]
         /\ Tail(todo[w]) \in Seq(Writes)
         /\ Len(todo[w]) \in Nat \ {0}
         /\ Len(Tail(todo[w])) = Len(todo[w]) - 1
         /\ \A i \in 1..Len(Tail(todo[w])) : Tail(todo[w])[i] = todo[w][i + 1]
<1>1. todo[w] \in Seq(Writes)
  BY DEF TypeOK
<1> QED
  BY <1>1 DEF Now

(* Two transactions under way are of different groups.                     *)
LEMMA Exclusive ==
  ASSUME Locked, NEW w \in Writers, NEW v \in Writers, v # w,
         stage[w] # "none", stage[v] # "none"
  PROVE  Now(w).group # Now(v).group
  BY DEF Locked

(* A batch becomes a queue of writes.                                      *)
LEMMA BatchFacts ==
  ASSUME NEW b \in Batches
  PROVE  /\ b \in Seq(Events)
         /\ Len(b) \in Nat
         /\ DOMAIN b = 1..Len(b)
         /\ [i \in DOMAIN b |-> EventWrite(b[i])] \in Seq(Writes)
         /\ Len([i \in DOMAIN b |-> EventWrite(b[i])]) = Len(b)
<1>1. b \in Seq(Events)
  BY BatchAssumption
<1>2. \A i \in 1..Len(b) : EventWrite(b[i]) \in Writes
  BY <1>1 DEF Writes
<1> QED
  BY <1>1, <1>2

-----------------------------------------------------------------------------
(* What every step keeps.                                                  *)

(* Stored, without its CASE.                                               *)
LEMMA StoredCases ==
  ASSUME NEW e \in Events
  PROVE  Stored(e) <=>
           /\ e.kind \in {"delivered", "failed"} => row[e.email] # NONE
           /\ e.kind = "delivered" => row[e.email].delivered # 0
           /\ e.kind = "failed" => row[e.email].failed # 0
           /\ e.kind \in HitKinds => e \in hits
  BY EventAssumption DEF Stored

(* A step that leaves the tables alone keeps what is said of them alone.   *)
LEMMA TablesKept ==
  ASSUME Inv, UNCHANGED tables, UNCHANGED acked
  PROVE  /\ IsFiniteSet(hits')
         /\ RollupMatchesEvents'
         /\ RevertedLeavesNothing'
         /\ AckedIsStored'
         /\ \A e \in Events : Safe(e) => Safe(e)'
<1>1. IsFiniteSet(hits')
  BY DEF Inv
<1>2. RollupMatchesEvents'
  <2>1. \A m, k : HitsOf(m, k)' = HitsOf(m, k)
    BY DEF HitsOf
  <2> QED
    BY <2>1 DEF Inv, RollupMatchesEvents
<1>3. RevertedLeavesNothing'
  BY DEF Inv, RevertedLeavesNothing
<1>4. \A e : Stored(e)' = Stored(e)
  BY DEF Stored
<1>5. AckedIsStored'
  BY <1>4 DEF Inv, AckedIsStored
<1> QED
  BY <1>1, <1>2, <1>3, <1>4, <1>5 DEF Safe

(* The end of a transaction, whatever it did to its own group, leaves the  *)
(* transactions of other groups their locks and what they have read.       *)
LEMMA EndKeepsOthers ==
  ASSUME Inv, NEW w \in Writers, todo[w] # << >>, End(w),
         row' \in [Messages -> RowType \cup {NONE}],
         UNCHANGED tables \/ stage[w] = "read",
         \A m \in Messages : GroupOf[m] # Now(w).group => row'[m] = row[m],
         \A g \in Groups : g # Now(w).group => (g \in tombs' <=> g \in tombs)
  PROVE  Locked' /\ Snapshot'
<1> DEFINE Others == {v \in Writers : v # w}
<1>1. stage'[w] = "none"
  BY DEF End, Inv, TypeOK
<1>2. ASSUME NEW v \in Others
      PROVE  /\ stage'[v] = stage[v] /\ todo'[v] = todo[v] /\ Now(v)' = Now(v)
             /\ dead'[v] = dead[v] /\ doomed'[v] = doomed[v]
             /\ \A g \in Groups : lock[g] = v => lock'[g] = v
  BY DEF End, Released, Now, Inv, TypeOK
<1>3. ASSUME NEW v \in Others, stage[v] # "none"
      PROVE  todo[v] # << >> /\ Now(v).op # "other" /\ Now(v).group \in Groups /\ lock[Now(v).group] = v
  BY <1>3, QueueFacts, WriteFacts DEF Inv, Locked
<1>4. Locked'
  BY <1>1, <1>2, <1>3 DEF Locked
<1>5. ASSUME NEW v \in Others, stage[v] = "read"
      PROVE  /\ dead[v] = (Now(v).group \in tombs')
             /\ doomed[v] = {m \in Messages : GroupOf[m] = Now(v).group /\ row'[m] # NONE}
  <2>1. CASE UNCHANGED tables
    BY <1>5, <2>1 DEF Inv, Snapshot
  <2>2. CASE stage[w] = "read"
    <3>1. Now(v).group # Now(w).group
      BY <1>5, <2>2, Exclusive DEF Inv
    <3>2. dead[v] = (Now(v).group \in tombs')
      BY <1>3, <1>5, <3>1 DEF Inv, Snapshot
    <3>3. \A m \in Messages : GroupOf[m] = Now(v).group => row'[m] = row[m]
      BY <3>1
    <3> QED
      BY <1>5, <3>2, <3>3 DEF Inv, Snapshot
  <2> QED
    BY <2>1, <2>2
<1>6. Snapshot'
  BY <1>1, <1>2, <1>5 DEF Snapshot
<1> QED
  BY <1>4, <1>6

(* The next write of a batch is done: stored, or the batch has failed.     *)
LEMMA EndProgresses ==
  ASSUME Inv, NEW w \in Writers, todo[w] # << >>,
         todo' = [todo EXCEPT ![w] = Tail(@)], job' = job,
         \A v \in Writers : v # w => failed'[v] = failed[v],
         ~failed'[w] /\ job[w] \in Batches => ~failed[w],
         \A e \in Events : Safe(e) => Safe(e)',
         \A e \in Events : Now(w) = EventWrite(e) /\ ~failed'[w] /\ job[w] \in Batches => Safe(e)'
  PROVE  Progress'
<1> SUFFICES ASSUME NEW v \in Writers, job[v] \in Batches
             PROVE  /\ Len(todo'[v]) <= Len(job[v])
                    /\ \A i \in 1..Len(todo'[v]) : todo'[v][i] = EventWrite(job[v][Done(v)' + i])
                    /\ ~failed'[v] => \A i \in 1..Done(v)' : Safe(job[v][i])'
  BY DEF Progress
<1>1. /\ job[v] \in Seq(Events) /\ Len(job[v]) \in Nat
      /\ todo[v] \in Seq(Writes) /\ Len(todo[v]) \in Nat
  <2>1. todo[v] \in Seq(Writes)
    BY DEF Inv, TypeOK
  <2>2. job[v] \in Seq(Events) /\ Len(job[v]) \in Nat
    BY BatchFacts
  <2> QED
    BY <2>1, <2>2
<1>2. /\ Len(todo[v]) <= Len(job[v])
      /\ \A i \in 1..Len(todo[v]) : todo[v][i] = EventWrite(job[v][Done(v) + i])
      /\ ~failed[v] => \A i \in 1..Done(v) : Safe(job[v][i])
  BY DEF Inv, Progress
<1>3. Done(v) \in Nat /\ Done(v) + Len(todo[v]) = Len(job[v])
  BY <1>1, <1>2 DEF Done
<1>4. \A i \in 1..Len(job[v]) : job[v][i] \in Events
  BY <1>1
<1>5. CASE v # w
  <2>1. todo'[v] = todo[v] /\ Done(v)' = Done(v) /\ failed'[v] = failed[v]
    BY <1>5 DEF Done, Inv, TypeOK
  <2>2. \A i \in 1..Done(v) : i \in 1..Len(job[v])
    BY <1>1, <1>3
  <2> QED
    BY <1>2, <1>4, <2>1, <2>2
<1>6. CASE v = w
  <2>1. todo'[w] = Tail(todo[w])
    BY DEF Inv, TypeOK
  <2>2. Done(w)' = Done(w) + 1 /\ Len(todo'[w]) = Len(todo[w]) - 1 /\ Len(todo[w]) >= 1
    <3>1. /\ Len(todo[w]) \in Nat \ {0} /\ Len(todo'[w]) = Len(todo[w]) - 1
          /\ job'[w] = job[w]
      BY <2>1, QueueFacts DEF Inv
    <3>2. Done(w)' = Len(job[w]) - Len(todo'[w])
      BY <3>1 DEF Done
    <3>3. Done(w)' = Len(job[w]) - (Len(todo[w]) - 1)
      BY <3>1, <3>2
    <3>4. Done(w) = Len(job[w]) - Len(todo[w]) /\ Len(job[w]) \in Nat
      BY <1>1, <1>6 DEF Done
    <3> QED
      BY <3>1, <3>3, <3>4
  <2>3. \A i \in 1..Len(todo'[w]) : todo'[w][i] = todo[w][i + 1]
    BY <2>1, QueueFacts DEF Inv
  <2>4. Done(w) \in Nat /\ Len(todo[w]) \in Nat /\ Done(w) + Len(todo[w]) = Len(job[w])
    BY <1>1, <1>6, <1>3
  <2>5. \A i \in 1..Len(todo'[w]) : todo'[w][i] = EventWrite(job[w][Done(w)' + i])
    <3> SUFFICES ASSUME NEW i \in 1..Len(todo'[w])
                 PROVE  todo'[w][i] = EventWrite(job[w][Done(w)' + i])
      OBVIOUS
    <3>1. i \in Nat /\ i >= 1 /\ i <= Len(todo'[w])
      BY <2>2, <2>4
    <3>2. i + 1 \in 1..Len(todo[w])
      BY <2>2, <2>4, <3>1
    <3>3. Done(w) + (i + 1) = Done(w)' + i
      BY <2>2, <2>4, <3>1
    <3>4. todo[w][i + 1] = EventWrite(job[w][Done(w) + (i + 1)])
      BY <1>2, <1>6, <3>2
    <3> QED
      BY <2>3, <3>3, <3>4
  <2>6. ASSUME ~failed'[w], NEW i \in 1..Done(w)'
        PROVE  Safe(job[w][i])'
    <3>1. i \in 1..Len(job[w]) /\ job[w][i] \in Events
      BY <1>1, <1>6, <1>3, <1>4, <2>2
    <3>2. CASE i \in 1..Done(w)
      BY <1>2, <1>6, <2>6, <3>1, <3>2
    <3>3. CASE i = Done(w) + 1
      <4>1. Now(w) = EventWrite(job[w][i])
        <5>1. 1 \in 1..Len(todo[w])
          BY <2>2, <2>4
        <5>2. todo[w][1] = EventWrite(job[w][Done(w) + 1])
          BY <1>2, <1>6, <5>1
        <5> QED
          BY <3>3, <5>2, QueueFacts DEF Inv
      <4> QED
        BY <1>6, <2>6, <3>1, <4>1
    <3> QED
      BY <1>6, <1>3, <2>2, <3>2, <3>3
  <2> QED
    BY <1>1, <1>2, <1>6, <2>2, <2>5, <2>6
<1> QED
  BY <1>5, <1>6

-----------------------------------------------------------------------------
(* The steps outside the tables.                                           *)

(* Work that arrives: an idle writer gets a queue, for a batch its events. *)
LEMMA StartKeeps ==
  ASSUME Inv, NEW w \in Writers, Idle(w),
         NEW j \in Batches \cup Groups \cup {NONE}, NEW q \in Seq(Writes),
         job' = [job EXCEPT ![w] = j], todo' = [todo EXCEPT ![w] = q],
         posted' \subseteq Messages, UNCHANGED <<tables, trans, failed, acked>>,
         j \in Batches => /\ Len(q) = Len(j)
                          /\ \A i \in 1..Len(q) : q[i] = EventWrite(j[i])
  PROVE  Inv'
<1>1. TypeOK'
  BY DEF Inv, TypeOK
<1>2. stage[w] = "none"
  BY DEF Inv, TypeOK, Locked, Idle
<1>3. Locked' /\ Snapshot'
  <2>1. \A v \in Writers : stage[v] # "none" => Now(v)' = Now(v) /\ todo'[v] = todo[v]
    BY <1>2 DEF Now, Inv, TypeOK
  <2> QED
    BY <2>1 DEF Inv, Locked, Snapshot
<1>4. Progress'
  <2>1. \A e : Safe(e)' = Safe(e)
    BY DEF Safe, Stored
  <2>2. ASSUME NEW v \in Writers, v # w
        PROVE  todo'[v] = todo[v] /\ job'[v] = job[v] /\ Done(v)' = Done(v)
    BY <2>2 DEF Inv, TypeOK, Done
  <2>3. todo'[w] = q /\ job'[w] = j
    BY DEF Inv, TypeOK
  <2>4. ASSUME j \in Batches
        PROVE  /\ Done(w)' = 0 /\ Len(q) \in Nat /\ Len(q) = Len(j)
               /\ \A i \in 1..Len(q) : q[i] = EventWrite(j[0 + i])
    <3>1. Len(q) \in Nat /\ Done(w)' = Len(q) - Len(q)
      BY <2>3, <2>4 DEF Done
    <3> QED
      BY <2>4, <3>1
  <2> QED
    BY <2>1, <2>2, <2>3, <2>4 DEF Inv, Progress
<1> QED
  BY <1>1, <1>3, <1>4, TablesKept DEF Inv

LEMMA PostKeeps ==
  ASSUME Inv, NEW w \in Writers, NEW m \in Messages, NEW op \in {"sent", "failed"},
         Post(w, m, op)
  PROVE  Inv'
<1>1. <<PostWrite(op, m)>> \in Seq(Writes)
  BY DEF Writes
<1>2. job' = [job EXCEPT ![w] = NONE] /\ NONE \notin Batches
  BY NoneAssumption DEF Inv, TypeOK, Post, Idle
<1>3. posted' \subseteq Messages
  BY DEF Inv, TypeOK, Post
<1> QED
  BY <1>1, <1>2, <1>3, StartKeeps DEF Post

LEMMA DeliverKeeps ==
  ASSUME Inv, NEW w \in Writers, NEW b \in Batches, Deliver(w, b)
  PROVE  Inv'
<1> DEFINE q == [i \in DOMAIN b |-> EventWrite(b[i])]
<1>1. q \in Seq(Writes) /\ Len(q) = Len(b) /\ \A i \in 1..Len(q) : q[i] = EventWrite(b[i])
  BY BatchFacts
<1>2. posted' \subseteq Messages
  BY DEF Inv, TypeOK, Deliver
<1> QED
  BY <1>1, <1>2, StartKeeps DEF Deliver

LEMMA PurgeKeeps ==
  ASSUME Inv, NEW w \in Writers, NEW g \in Groups, Purge(w, g)
  PROVE  Inv'
<1>1. <<PurgeWrite(g)>> \in Seq(Writes) /\ g \notin Batches
  BY BatchAssumption DEF Writes
<1>2. posted' \subseteq Messages
  BY DEF Inv, TypeOK, Purge
<1> QED
  BY <1>1, <1>2, StartKeeps DEF Purge

(* The reply: a batch without an error has no event left that is not safe. *)
LEMMA FinishKeeps ==
  ASSUME Inv, NEW w \in Writers, Finish(w)
  PROVE  Inv'
<1>1. TypeOK'
  BY DEF Inv, TypeOK, Finish
<1>2. Locked' /\ Snapshot'
  <2>1. \A v : Now(v)' = Now(v)
    BY DEF Now, Finish
  <2> QED
    BY <2>1 DEF Inv, Locked, Snapshot, Finish
<1>3. \A e : Safe(e)' = Safe(e)
  BY DEF Safe, Stored, Finish
<1>4. Progress'
  <2>1. job'[w] \notin Batches
    BY NoneAssumption DEF Inv, TypeOK, Finish
  <2>2. ASSUME NEW v \in Writers, v # w
        PROVE  job'[v] = job[v] /\ Done(v)' = Done(v) /\ failed'[v] = failed[v]
    BY <2>2 DEF Inv, TypeOK, Done, Finish
  <2> QED
    BY <1>3, <2>1, <2>2 DEF Inv, Progress, Finish
<1>5. AckedIsStored'
  <2>1. \A b \in acked : \A i \in DOMAIN b : Safe(b[i])
    BY DEF Inv, AckedIsStored, Safe
  <2>2. ASSUME Reply(w) \in Batches
        PROVE  \A i \in DOMAIN Reply(w) : Safe(Reply(w)[i])
    <3>1. Reply(w) = job[w] /\ ~failed[w] /\ job[w] \in Batches
      BY <2>2, NoneAssumption DEF Reply
    <3>2. Len(todo[w]) = 0
      BY DEF Finish
    <3>3. Done(w) = Len(job[w]) /\ DOMAIN job[w] = 1..Len(job[w])
      BY <3>1, <3>2, BatchFacts DEF Done
    <3> QED
      BY <3>1, <3>3 DEF Inv, Progress
  <2>3. \A b \in acked' : \A i \in DOMAIN b : Safe(b[i])'
    BY <1>3, <2>1, <2>2 DEF Finish
  <2> QED
    BY <2>3 DEF AckedIsStored, Safe
<1>6. RollupMatchesEvents' /\ RevertedLeavesNothing' /\ IsFiniteSet(hits')
  <2>1. \A m, k : HitsOf(m, k)' = HitsOf(m, k)
    BY DEF HitsOf, Finish
  <2> QED
    BY <2>1 DEF Inv, RollupMatchesEvents, RevertedLeavesNothing, Finish
<1> QED
  BY <1>1, <1>2, <1>4, <1>5, <1>6 DEF Inv

(* The lock is granted only while nobody holds it.                         *)
LEMMA LockKeeps ==
  ASSUME Inv, NEW w \in Writers, Lock(w)
  PROVE  Inv'
<1>1. Now(w).group \in Groups
  BY QueueFacts, WriteFacts DEF Inv, Lock
<1>2. TypeOK'
  BY <1>1 DEF Inv, TypeOK, Lock
<1>3. \A v : Now(v)' = Now(v)
  BY DEF Now, Lock
<1>4. ASSUME NEW v \in Writers, v # w
      PROVE  /\ stage'[v] = stage[v]
             /\ \A g \in Groups : lock[g] = v => lock'[g] = v
  BY <1>1, <1>4, NoneAssumption DEF Inv, TypeOK, Lock, LockGate
<1>5. ASSUME NEW v \in Writers, v # w, stage[v] # "none"
      PROVE  Now(v).group \in Groups
  BY <1>5, QueueFacts, WriteFacts DEF Inv, Locked
<1>6. Locked'
  <2>1. stage'[w] = "locked" /\ lock'[Now(w).group] = w
    BY <1>1 DEF Inv, TypeOK, Lock
  <2> QED
    BY <1>3, <1>4, <1>5, <2>1 DEF Inv, Locked, Lock
<1>7. Snapshot'
  <2>1. stage'[w] = "locked"
    BY DEF Inv, TypeOK, Lock
  <2> QED
    BY <1>3, <1>4, <2>1 DEF Inv, Snapshot, Lock
<1>8. Progress'
  BY TablesKept, <1>2 DEF Inv, Progress, Done, Safe, Stored, Lock
<1> QED
  BY <1>2, <1>6, <1>7, <1>8, TablesKept DEF Inv, Lock

(* What the transaction reads is so.                                       *)
LEMMA ReadKeeps ==
  ASSUME Inv, NEW w \in Writers, Read(w)
  PROVE  Inv'
<1>1. TypeOK'
  BY DEF Inv, TypeOK, Read
<1>2. \A v : Now(v)' = Now(v)
  BY DEF Now, Read
<1>3. Locked'
  BY <1>2 DEF Inv, TypeOK, Locked, Read
<1>4. Snapshot'
  <2>1. /\ dead'[w] = (Now(w).group \in tombs)
        /\ doomed'[w] = {m \in Messages : GroupOf[m] = Now(w).group /\ row[m] # NONE}
    BY DEF Inv, TypeOK, Read
  <2>2. ASSUME NEW v \in Writers, v # w
        PROVE  stage'[v] = stage[v] /\ dead'[v] = dead[v] /\ doomed'[v] = doomed[v]
    BY <2>2 DEF Inv, TypeOK, Read
  <2> QED
    BY <1>2, <2>1, <2>2 DEF Inv, Snapshot, Read
<1>5. Progress'
  BY DEF Inv, Progress, Done, Safe, Stored, Read
<1> QED
  BY <1>1, <1>3, <1>4, <1>5, TablesKept DEF Inv, Read

(* The type of what End changes.                                           *)
LEMMA EndTypes ==
  ASSUME TypeOK, NEW w \in Writers, todo[w] # << >>, End(w)
  PROVE  /\ lock' \in [Groups -> Writers \cup {NONE}]
         /\ todo' \in [Writers -> Seq(Writes)]
         /\ stage' \in [Writers -> {"none", "locked", "read"}]
         /\ dead' \in [Writers -> BOOLEAN]
         /\ doomed' \in [Writers -> SUBSET Messages]
  BY QueueFacts DEF TypeOK, End, Released

(* A rolled back write fails the batch it is part of.                      *)
LEMMA FailKeeps ==
  ASSUME Inv, NEW w \in Writers, Fail(w)
  PROVE  Inv'
<1>1. todo[w] # << >> /\ End(w)
  BY DEF Fail
<1>2. TypeOK'
  BY <1>1, EndTypes DEF Inv, TypeOK, Fail, End
<1>3. \A e \in Events : Safe(e) => Safe(e)'
  BY TablesKept DEF Fail, End
<1>4. Locked' /\ Snapshot'
  BY <1>1, EndKeepsOthers DEF Inv, TypeOK, Fail
<1>5. Progress'
  <2>1. /\ failed'[w] = (job[w] # NONE)
        /\ \A v \in Writers : v # w => failed'[v] = failed[v]
    BY DEF Inv, TypeOK, Fail
  <2>2. job[w] \in Batches => failed'[w]
    BY <2>1, NoneAssumption
  <2> QED
    BY <1>1, <1>3, <2>1, <2>2, EndProgresses DEF End
<1> QED
  BY <1>2, <1>4, <1>5, TablesKept DEF Inv, Fail, End

(* An event that is not tracked needs nothing to be stored.                *)
LEMMA SkipKeeps ==
  ASSUME Inv, NEW w \in Writers, Skip(w)
  PROVE  Inv'
<1>1. TypeOK'
  BY QueueFacts DEF Inv, TypeOK, Skip
<1>2. stage[w] = "none"
  BY DEF Inv, TypeOK, Locked, Skip
<1>3. Locked' /\ Snapshot'
  <2>1. \A v \in Writers : stage[v] # "none" => Now(v)' = Now(v) /\ todo'[v] = todo[v]
    BY <1>2 DEF Now, Inv, TypeOK, Skip
  <2> QED
    BY <2>1 DEF Inv, Locked, Snapshot, Skip
<1>4. Progress'
  <2>1. \A e \in Events : Safe(e) => Safe(e)'
    BY TablesKept DEF Skip
  <2>2. ASSUME NEW e \in Events, Now(w) = EventWrite(e)
        PROVE  Safe(e)'
    <3>1. e.kind = "other"
      BY <2>2 DEF EventWrite, Write, Skip
    <3> QED
      BY <3>1 DEF Safe, Stored
  <2> QED
    BY <2>1, <2>2, EndProgresses DEF Skip
<1> QED
  BY <1>1, <1>3, <1>4, TablesKept DEF Inv, Skip

(* A crash rolls back, and forgets the batch.                              *)
LEMMA CrashKeeps ==
  ASSUME Inv, NEW w \in Writers, Crash(w)
  PROVE  Inv'
<1>1. TypeOK'
  BY DEF Inv, TypeOK, Crash, Released
<1>2. stage'[w] = "none" /\ job'[w] = NONE
  BY DEF Inv, TypeOK, Crash
<1>3. ASSUME NEW v \in Writers, v # w
      PROVE  /\ stage'[v] = stage[v] /\ todo'[v] = todo[v] /\ Now(v)' = Now(v)
             /\ dead'[v] = dead[v] /\ doomed'[v] = doomed[v]
             /\ job'[v] = job[v] /\ failed'[v] = failed[v] /\ Done(v)' = Done(v)
             /\ \A g \in Groups : lock[g] = v => lock'[g] = v
  BY <1>3 DEF Inv, TypeOK, Crash, Released, Now, Done
<1>4. ASSUME NEW v \in Writers, v # w, stage[v] # "none"
      PROVE  Now(v).group \in Groups
  BY <1>4, QueueFacts, WriteFacts DEF Inv, Locked
<1>5. Locked'
  BY <1>2, <1>3, <1>4 DEF Inv, Locked
<1>6. Snapshot'
  <2>1. row' = row /\ tombs' = tombs
    BY DEF Crash
  <2> QED
    BY <1>2, <1>3, <2>1 DEF Inv, Snapshot
<1>7. Progress'
  <2>1. \A e : Safe(e)' = Safe(e)
    BY DEF Safe, Stored, Crash
  <2> QED
    BY <1>2, <1>3, <2>1, NoneAssumption DEF Inv, Progress
<1> QED
  BY <1>1, <1>5, <1>6, <1>7, TablesKept DEF Inv, Crash

-----------------------------------------------------------------------------
(* The commits.                                                            *)

(* A commit that touches only its own group, keeps what is safe and makes  *)
(* the write's event safe.                                                 *)
LEMMA CommitKeeps ==
  ASSUME Inv, NEW w \in Writers, Commits(w),
         row' \in [Messages -> RowType \cup {NONE}],
         hits' \subseteq HitEvents, IsFiniteSet(hits'), tombs' \subseteq Groups,
         \A m \in Messages : GroupOf[m] # Now(w).group => row'[m] = row[m],
         \A g \in Groups : g # Now(w).group => (g \in tombs' <=> g \in tombs),
         RollupMatchesEvents', RevertedLeavesNothing',
         \A e \in Events : Safe(e) => Safe(e)',
         \A e \in Events : Now(w) = EventWrite(e) => Safe(e)'
  PROVE  Inv'
<1>1. todo[w] # << >> /\ stage[w] = "read" /\ End(w) /\ UNCHANGED failed
  BY DEF Inv, Locked, Commits
<1>2. TypeOK'
  BY <1>1, EndTypes DEF Inv, TypeOK, End
<1>3. Locked' /\ Snapshot'
  BY <1>1, EndKeepsOthers
<1>4. Progress'
  BY <1>1, EndProgresses DEF End
<1>5. AckedIsStored'
  <2>1. \A b \in acked : \A i \in DOMAIN b : b[i] \in Events /\ Safe(b[i])
    <3>1. \A b \in acked : b \in Seq(Events)
      BY BatchAssumption DEF Inv, TypeOK
    <3> QED
      BY <3>1 DEF Inv, AckedIsStored, Safe
  <2>2. \A b \in acked' : \A i \in DOMAIN b : Safe(b[i])'
    BY <1>1, <2>1 DEF End
  <2> QED
    BY <2>2 DEF AckedIsStored, Safe
<1> QED
  BY <1>2, <1>3, <1>4, <1>5 DEF Inv

(* What the transaction knows when it commits.                             *)
LEMMA CommitFacts ==
  ASSUME Inv, NEW w \in Writers, Commits(w)
  PROVE  /\ Now(w) \in Writes
         /\ dead[w] <=> Now(w).group \in tombs
         /\ doomed[w] = {m \in Messages : GroupOf[m] = Now(w).group /\ row[m] # NONE}
<1>1. todo[w] # << >> /\ stage[w] = "read"
  BY DEF Inv, Locked, Commits
<1> QED
  BY <1>1, QueueFacts DEF Inv, Snapshot, TypeOK

(* A write to a tombstoned group is dropped, and its event is safe.        *)
LEMMA DroppedKeeps ==
  ASSUME Inv, NEW w \in Writers, Commits(w), Now(w).op # "revert", UNCHANGED tables,
         \A e \in Events : Now(w) = EventWrite(e) => Safe(e)
  PROVE  Inv'
<1>1. UNCHANGED acked
  BY DEF Commits, End
<1>2. \A e \in Events : Safe(e) => Safe(e)'
  BY <1>1, TablesKept
<1>3. row' \in [Messages -> RowType \cup {NONE}] /\ hits' \subseteq HitEvents /\ tombs' \subseteq Groups
  BY DEF Inv, TypeOK
<1> QED
  BY <1>1, <1>2, <1>3, TablesKept, CommitKeeps

(* A row, or the blank row in its place, counts the message's events.      *)
LEMMA RowFacts ==
  ASSUME Inv, NEW m \in Messages
  PROVE  /\ Row(m) \in RowType
         /\ \A k \in HitKinds :
              /\ Row(m).count[k] = Cardinality(HitsOf(m, k))
              /\ \A e \in HitsOf(m, k) : e.at <= Row(m).last[k]
              /\ IF HitsOf(m, k) = {} THEN Row(m).last[k] = 0
                 ELSE \E e \in HitsOf(m, k) : e.at = Row(m).last[k]
<1>1. CASE row[m] = NONE
  <2>1. Row(m) = Blank
    BY <1>1 DEF Row
  <2>2. \A k \in HitKinds : HitsOf(m, k) = {} /\ Cardinality(HitsOf(m, k)) = 0
    BY <1>1, FS_EmptySet DEF Inv, RollupMatchesEvents
  <2> QED
    BY <2>1, <2>2 DEF Blank, RowType
<1>2. CASE row[m] # NONE
  BY <1>2 DEF Inv, TypeOK, RollupMatchesEvents, Row
<1> QED
  BY <1>1, <1>2

(* A row whose counters are left alone.                                    *)
LEMMA RowUpdated ==
  ASSUME Inv, NEW m \in Messages, NEW r \in RowType,
         r.count = Row(m).count, r.last = Row(m).last,
         row' = [row EXCEPT ![m] = r], UNCHANGED hits
  PROVE  RollupMatchesEvents'
<1>1. \A n, k : HitsOf(n, k)' = HitsOf(n, k)
  BY DEF HitsOf
<1>2. row'[m] = r /\ \A n \in Messages : n # m => row'[n] = row[n]
  BY DEF Inv, TypeOK
<1>3. \A k \in HitKinds :
        /\ r.count[k] = Cardinality(HitsOf(m, k))
        /\ \A e \in HitsOf(m, k) : e.at <= r.last[k]
        /\ IF HitsOf(m, k) = {} THEN r.last[k] = 0
           ELSE \E e \in HitsOf(m, k) : e.at = r.last[k]
  BY RowFacts
<1> QED
  BY <1>1, <1>2, <1>3, RowAssumption DEF Inv, RollupMatchesEvents

(* A row that one write changes without touching its counters.             *)
LEMMA RowKeeps ==
  ASSUME Inv, NEW w \in Writers, Commits(w), ~dead[w],
         NEW m \in Messages, m = Now(w).email, Now(w).op # "revert",
         NEW r \in RowType, r.count = Row(m).count, r.last = Row(m).last,
         row[m] # NONE /\ row[m].delivered # 0 => r.delivered # 0,
         row[m] # NONE /\ row[m].failed # 0 => r.failed # 0,
         row' = [row EXCEPT ![m] = r], UNCHANGED <<hits, tombs>>,
         \A e \in Events : Now(w) = EventWrite(e) => Safe(e)'
  PROVE  Inv'
<1>1. Now(w).group = GroupOf[m] /\ GroupOf[m] \notin tombs
  BY CommitFacts, WriteFacts
<1>2. row'[m] = r /\ \A n \in Messages : n # m => row'[n] = row[n]
  BY DEF Inv, TypeOK
<1>3. row' \in [Messages -> RowType \cup {NONE}] /\ hits' \subseteq HitEvents
      /\ IsFiniteSet(hits') /\ tombs' \subseteq Groups
  BY DEF Inv, TypeOK
<1>4. RollupMatchesEvents'
  BY RowUpdated
<1>5. RevertedLeavesNothing'
  BY <1>1, <1>2 DEF Inv, RevertedLeavesNothing
<1>6. ASSUME NEW e \in Events, Safe(e)
      PROVE  Safe(e)'
  <2>1. CASE Stored(e)
    <3>1. e.email \in Messages
      BY EventAssumption
    <3>2. Stored(e)'
      BY <1>2, <2>1, <3>1, RowAssumption, EventAssumption DEF Stored
    <3> QED
      BY <3>2 DEF Safe
  <2>2. CASE GroupOf[e.email] \in tombs
    BY <2>2 DEF Safe
  <2> QED
    BY <1>6, <2>1, <2>2 DEF Safe
<1>7. \A n \in Messages : GroupOf[n] # Now(w).group => row'[n] = row[n]
  BY <1>1, <1>2
<1> QED
  BY <1>3, <1>4, <1>5, <1>6, <1>7, CommitKeeps

LEMMA CommitSentKeeps ==
  ASSUME Inv, NEW w \in Writers, CommitSent(w)
  PROVE  Inv'
<1> DEFINE m == Now(w).email
<1>1. \A e \in Events : Now(w) # EventWrite(e)
  BY EventAssumption DEF CommitSent, EventWrite, Write
<1>2. CASE dead[w]
  BY <1>1, <1>2, DroppedKeeps DEF CommitSent
<1>3. CASE ~dead[w]
  <2>1. m \in Messages /\ Row(m) \in RowType
    BY CommitFacts, WriteFacts, RowFacts DEF CommitSent
  <2>2. row[m] # NONE => Row(m) = row[m]
    BY DEF Row
  <2> QED
    BY <1>1, <1>3, <2>1, <2>2, RowKeeps DEF CommitSent, Recorded
<1> QED
  BY <1>2, <1>3

LEMMA CommitDeliveredKeeps ==
  ASSUME Inv, NEW w \in Writers, CommitDelivered(w)
  PROVE  Inv'
<1> DEFINE m == Now(w).email
           r == [Row(m) EXCEPT !.delivered = IF @ = 0 THEN Now(w).event.at ELSE @]
<1>1. Now(w) \in Writes /\ m \in Messages /\ Now(w).event.at \in Nat \ {0}
      /\ Now(w).group = GroupOf[m]
  BY CommitFacts, WriteFacts DEF CommitDelivered
<1>2. ASSUME NEW e \in Events, Now(w) = EventWrite(e)
      PROVE  e.kind = "delivered" /\ e.email = m
  BY <1>2 DEF CommitDelivered, EventWrite, Write
<1>3. CASE dead[w]
  BY <1>1, <1>2, <1>3, CommitFacts, DroppedKeeps DEF CommitDelivered, Safe
<1>4. CASE ~dead[w]
  <2>1. Row(m) \in RowType /\ (row[m] # NONE => Row(m) = row[m])
    BY <1>1, RowFacts DEF Row
  <2>2. /\ r \in RowType /\ r.count = Row(m).count /\ r.last = Row(m).last
        /\ r.delivered # 0 /\ r.failed = Row(m).failed
    BY <1>1, <2>1 DEF RowType
  <2>3. row' = [row EXCEPT ![m] = r] /\ row'[m] = r
    BY <1>1, <1>4 DEF CommitDelivered, Inv, TypeOK
  <2>4. \A e \in Events : Now(w) = EventWrite(e) => Safe(e)'
    BY <1>2, <2>2, <2>3, RowAssumption DEF Safe, Stored
  <2>5. Commits(w) /\ Now(w).op # "revert" /\ UNCHANGED <<hits, tombs>>
    BY DEF CommitDelivered
  <2> HIDE DEF r
  <2> QED
    BY <1>1, <1>4, <2>1, <2>2, <2>3, <2>4, <2>5, RowKeeps
<1> QED
  BY <1>3, <1>4

LEMMA CommitFailedKeeps ==
  ASSUME Inv, NEW w \in Writers, CommitFailed(w)
  PROVE  Inv'
<1> DEFINE m == Now(w).email
           r == [Row(m) EXCEPT !.failed = IF @ = 0 THEN Now(w).event.at ELSE @]
<1>1. Now(w) \in Writes /\ m \in Messages /\ Now(w).event.at \in Nat \ {0}
      /\ Now(w).group = GroupOf[m]
  BY CommitFacts, WriteFacts DEF CommitFailed
<1>2. ASSUME NEW e \in Events, Now(w) = EventWrite(e)
      PROVE  e.kind = "failed" /\ e.email = m
  BY <1>2 DEF CommitFailed, EventWrite, Write
<1>3. CASE dead[w]
  BY <1>1, <1>2, <1>3, CommitFacts, DroppedKeeps DEF CommitFailed, Safe
<1>4. CASE ~dead[w]
  <2>1. Row(m) \in RowType /\ (row[m] # NONE => Row(m) = row[m])
    BY <1>1, RowFacts DEF Row
  <2>2. /\ r \in RowType /\ r.count = Row(m).count /\ r.last = Row(m).last
        /\ r.failed # 0 /\ r.delivered = Row(m).delivered
    BY <1>1, <2>1 DEF RowType
  <2>3. row' = [row EXCEPT ![m] = r] /\ row'[m] = r
    BY <1>1, <1>4 DEF CommitFailed, Inv, TypeOK
  <2>4. \A e \in Events : Now(w) = EventWrite(e) => Safe(e)'
    BY <1>2, <2>2, <2>3, RowAssumption DEF Safe, Stored
  <2>5. Commits(w) /\ Now(w).op # "revert" /\ UNCHANGED <<hits, tombs>>
    BY DEF CommitFailed
  <2> HIDE DEF r
  <2> QED
    BY <1>1, <1>4, <2>1, <2>2, <2>3, <2>4, <2>5, RowKeeps
<1> QED
  BY <1>3, <1>4

(* A rollup counts one event more and touches nothing else.                *)
LEMMA RolledUpFacts ==
  ASSUME NEW q \in RowType, NEW e, e.kind \in HitKinds, e.at \in Nat
  PROVE  /\ RolledUp(q, e) \in RowType
         /\ RolledUp(q, e).delivered = q.delivered /\ RolledUp(q, e).failed = q.failed
         /\ RolledUp(q, e).count[e.kind] = q.count[e.kind] + 1
         /\ RolledUp(q, e).last[e.kind] = Later(q.last[e.kind], e.at)
         /\ \A k \in HitKinds : k # e.kind => /\ RolledUp(q, e).count[k] = q.count[k]
                                             /\ RolledUp(q, e).last[k] = q.last[k]
<1> DEFINE r == RolledUp(q, e)
<1>1. /\ r.delivered = q.delivered /\ r.failed = q.failed
      /\ r.count = [q.count EXCEPT ![e.kind] = @ + 1]
      /\ r.last = [q.last EXCEPT ![e.kind] = Later(@, e.at)]
  BY DEF RolledUp, RowType
<1>2. Later(q.last[e.kind], e.at) \in Nat
  BY DEF Later, RowType
<1>3. r.count \in [HitKinds -> Nat] /\ r.last \in [HitKinds -> Nat]
  BY <1>1, <1>2 DEF RowType
<1>4. r \in RowType
  <2>1. r = [[q EXCEPT !.count = r.count] EXCEPT !.last = r.last]
    BY <1>1 DEF RolledUp, RowType
  <2> HIDE DEF r
  <2> QED
    BY <1>3, <2>1 DEF RowType
<1> QED
  BY <1>1, <1>4 DEF RowType

(* A new open or click: the event and the rollup together.                 *)
LEMMA NewHitKeeps ==
  ASSUME Inv, NEW w \in Writers, Commits(w),
         NEW e \in Events, Now(w) = EventWrite(e), e.kind \in HitKinds, IsNew(e),
         NEW m \in Messages, m = e.email, GroupOf[m] \notin tombs,
         NEW r, r = RolledUp(Row(m), e),
         hits' = hits \cup {e}, row' = [row EXCEPT ![m] = r], UNCHANGED tombs
  PROVE  Inv'
<1>1. e \notin hits /\ e.at \in Nat \ {0} /\ Now(w).group = GroupOf[m]
  BY EventAssumption DEF IsNew, EventWrite, Write
<1>2. Row(m) \in RowType /\ (row[m] # NONE => Row(m) = row[m])
  BY RowFacts DEF Row
<1>3. /\ r \in RowType /\ r # NONE
      /\ r.delivered = Row(m).delivered /\ r.failed = Row(m).failed
      /\ r.count[e.kind] = Row(m).count[e.kind] + 1
      /\ r.last[e.kind] = Later(Row(m).last[e.kind], e.at)
      /\ \A k \in HitKinds : k # e.kind =>
            r.count[k] = Row(m).count[k] /\ r.last[k] = Row(m).last[k]
  BY <1>1, <1>2, RolledUpFacts, RowAssumption
<1>4. row'[m] = r /\ \A n \in Messages : n # m => row'[n] = row[n]
  BY <1>1 DEF Inv, TypeOK
<1>5. /\ row' \in [Messages -> RowType \cup {NONE}] /\ hits' \subseteq HitEvents
      /\ IsFiniteSet(hits') /\ tombs' \subseteq Groups
  <2>1. IsFiniteSet(hits')
    BY <1>1, FS_AddElement DEF Inv
  <2> QED
    BY <1>1, <1>3, <2>1 DEF Inv, TypeOK
<1>6. HitsOf(m, e.kind)' = HitsOf(m, e.kind) \cup {e}
      /\ e \notin HitsOf(m, e.kind) /\ IsFiniteSet(HitsOf(m, e.kind))
  <2>1. HitsOf(m, e.kind) \subseteq hits
    BY DEF HitsOf
  <2>2. IsFiniteSet(HitsOf(m, e.kind))
    BY <2>1, FS_Subset DEF Inv
  <2> QED
    BY <1>1, <2>2 DEF HitsOf
<1>7. \A n \in Messages, k \in HitKinds :
         n # m \/ k # e.kind => HitsOf(n, k)' = HitsOf(n, k)
  BY <1>1 DEF HitsOf
<1>8. RollupMatchesEvents'
  <2>1. ASSUME NEW n \in Messages, NEW k \in HitKinds, n # m
        PROVE  row'[n] = row[n] /\ HitsOf(n, k)' = HitsOf(n, k)
    BY <1>4, <1>7, <2>1
  <2>2. ASSUME NEW k \in HitKinds, k # e.kind
        PROVE  /\ r.count[k] = Cardinality(HitsOf(m, k)')
               /\ \A f \in HitsOf(m, k)' : f.at <= r.last[k]
               /\ IF HitsOf(m, k)' = {} THEN r.last[k] = 0
                  ELSE \E f \in HitsOf(m, k)' : f.at = r.last[k]
    BY <1>3, <1>7, <2>2, RowFacts
  <2>3. /\ r.count[e.kind] = Cardinality(HitsOf(m, e.kind)')
        /\ \A f \in HitsOf(m, e.kind)' : f.at <= r.last[e.kind]
        /\ \E f \in HitsOf(m, e.kind)' : f.at = r.last[e.kind]
    <3>1. Cardinality(HitsOf(m, e.kind)') = Cardinality(HitsOf(m, e.kind)) + 1
      BY <1>6, FS_AddElement
    <3>2. Row(m).last[e.kind] \in Nat /\ \A f \in HitsOf(m, e.kind) : f.at \in Nat
      BY <1>2, EventAssumption DEF RowType, HitsOf, Inv, TypeOK
    <3>3. \A f \in HitsOf(m, e.kind) : f.at <= Row(m).last[e.kind]
      BY RowFacts
    <3>4. \A f \in HitsOf(m, e.kind)' : f.at <= r.last[e.kind]
      BY <1>1, <1>3, <1>6, <3>2, <3>3 DEF Later
    <3>5. \E f \in HitsOf(m, e.kind)' : f.at = r.last[e.kind]
      <4>1. CASE Row(m).last[e.kind] < e.at
        BY <1>3, <1>6, <4>1 DEF Later
      <4>2. CASE ~(Row(m).last[e.kind] < e.at) /\ HitsOf(m, e.kind) # {}
        BY <1>3, <1>6, <4>2, RowFacts DEF Later
      <4>3. CASE HitsOf(m, e.kind) = {}
        BY <1>1, <1>3, <1>6, <4>3, RowFacts DEF Later
      <4> QED
        BY <4>1, <4>2, <4>3
    <3> QED
      BY <1>3, <3>1, <3>4, <3>5, RowFacts
  <2> QED
    BY <1>3, <1>4, <2>1, <2>2, <2>3 DEF Inv, RollupMatchesEvents
<1>9. RevertedLeavesNothing'
  BY <1>1, <1>4 DEF Inv, RevertedLeavesNothing
<1>10. \A f \in Events : Safe(f) => Safe(f)'
  BY <1>1, <1>2, <1>3, <1>4, EventAssumption DEF Safe, Stored
<1>11. Safe(e)'
  BY <1>1 DEF Safe, Stored
<1>12. \A n \in Messages : GroupOf[n] # Now(w).group => row'[n] = row[n]
  BY <1>1, <1>4
<1>13. \A f \in Events : Now(w) = EventWrite(f) => Safe(f)'
  <2>1. \A f : EventWrite(f) = EventWrite(e) => f = e
    BY DEF EventWrite, Write
  <2> QED
    BY <1>11, <2>1
<1> QED
  BY <1>5, <1>8, <1>9, <1>10, <1>12, <1>13, CommitKeeps

(* A new open or click is counted once, a known one not again.             *)
LEMMA CommitHitKeeps ==
  ASSUME Inv, NEW w \in Writers, CommitHit(w)
  PROVE  Inv'
<1>1. PICK e \in Events : Now(w) = EventWrite(e) /\ e.kind \in HitKinds
  BY CommitFacts, WriteFacts DEF CommitHit
<1>2. /\ Commits(w) /\ Now(w).op # "revert" /\ Now(w).event = e
      /\ Now(w).group = GroupOf[e.email]
      /\ \A f \in Events : Now(w) = EventWrite(f) => f = e
  BY <1>1 DEF CommitHit, EventWrite, Write
<1>3. CASE dead[w]
  <2>1. Safe(e)
    BY <1>2, <1>3, CommitFacts DEF Safe
  <2> QED
    BY <1>2, <1>3, <2>1, DroppedKeeps DEF CommitHit
<1>4. CASE ~dead[w] /\ ~IsNew(e)
  <2>1. e \in hits
    BY <1>1, <1>4, IdAssumption DEF Inv, TypeOK, IsNew
  <2>2. Safe(e)
    BY <1>1, <2>1 DEF Safe, Stored
  <2> QED
    BY <1>2, <1>4, <2>2, DroppedKeeps DEF CommitHit
<1>5. CASE ~dead[w] /\ IsNew(e)
  <2>1. e.email \in Messages /\ GroupOf[e.email] \notin tombs
    BY <1>2, <1>5, CommitFacts, EventAssumption
  <2>2. /\ hits' = hits \cup {e} /\ UNCHANGED tombs
        /\ row' = [row EXCEPT ![e.email] = RolledUp(Row(e.email), e)]
    BY <1>2, <1>5 DEF CommitHit
  <2> QED
    BY <1>1, <1>2, <1>5, <2>1, <2>2, NewHitKeeps
<1> QED
  BY <1>3, <1>4, <1>5

(* A purge takes every row of its group, and with them every event.        *)
LEMMA CommitRevertKeeps ==
  ASSUME Inv, NEW w \in Writers, CommitRevert(w)
  PROVE  Inv'
<1> DEFINE g == Now(w).group
<1>1. /\ Commits(w) /\ g \in Groups /\ Now(w).op = "revert"
      /\ doomed[w] = {m \in Messages : GroupOf[m] = g /\ row[m] # NONE}
  BY CommitFacts, WriteFacts DEF CommitRevert
<1>2. /\ tombs' = tombs \cup {g} /\ hits' = hits \ DoomedHits(w)
      /\ row' = [m \in Messages |-> IF m \in doomed[w] THEN NONE ELSE row[m]]
  BY DEF CommitRevert
<1> HIDE DEF g
<1>3. /\ row' \in [Messages -> RowType \cup {NONE}] /\ hits' \subseteq HitEvents
      /\ tombs' \subseteq Groups
  BY <1>1, <1>2 DEF Inv, TypeOK
<1>4. IsFiniteSet(hits')
  BY <1>2, FS_Subset DEF Inv
<1>5. \A m \in Messages : GroupOf[m] = g => row'[m] = NONE
  BY <1>1, <1>2
<1>6. \A m \in Messages : GroupOf[m] # g => row'[m] = row[m] /\ m \notin doomed[w]
  BY <1>1, <1>2
<1>7. RollupMatchesEvents'
  <2>1. \A m \in Messages, k \in HitKinds :
           IF m \in doomed[w] THEN HitsOf(m, k)' = {} ELSE HitsOf(m, k)' = HitsOf(m, k)
    BY <1>2 DEF HitsOf, DoomedHits
  <2>2. \A m \in Messages : IF m \in doomed[w] THEN row'[m] = NONE ELSE row'[m] = row[m]
    BY <1>2
  <2> QED
    BY <2>1, <2>2 DEF Inv, RollupMatchesEvents
<1>8. RevertedLeavesNothing'
  <2>1. ASSUME NEW m \in Messages, GroupOf[m] = g, NEW e \in hits', e.email = m
        PROVE  FALSE
    <3>1. e \in hits /\ e \in Events /\ m \notin doomed[w] /\ e.kind \in EventKinds
      BY <1>2, <2>1, EventAssumption DEF DoomedHits, Inv, TypeOK
    <3>2. row[m] = NONE
      BY <1>1, <2>1, <3>1
    <3>3. e.kind \in HitKinds
      BY <3>1 DEF Inv, TypeOK
    <3>4. HitsOf(m, e.kind) = {}
      BY <3>2, <3>3 DEF Inv, RollupMatchesEvents
    <3> QED
      BY <2>1, <3>1, <3>4 DEF HitsOf
  <2>2. \A m \in Messages : GroupOf[m] = g => row'[m] = NONE /\ \A e \in hits' : e.email # m
    BY <1>5, <2>1
  <2>3. \A m \in Messages : GroupOf[m] # g /\ GroupOf[m] \in tombs' =>
           row'[m] = NONE /\ \A e \in hits' : e.email # m
    BY <1>2, <1>6 DEF Inv, RevertedLeavesNothing
  <2> QED
    BY <2>2, <2>3 DEF RevertedLeavesNothing
<1>9. \A e \in Events : Safe(e) => Safe(e)'
  <2> SUFFICES ASSUME NEW e \in Events, Safe(e)
               PROVE  Safe(e)'
    OBVIOUS
  <2>1. CASE GroupOf[e.email] \in tombs \cup {g}
    BY <1>2, <2>1 DEF Safe
  <2>2. CASE GroupOf[e.email] \notin tombs \cup {g}
    <3>1. row'[e.email] = row[e.email] /\ (e \in hits => e \in hits')
      BY <1>2, <1>6, <2>2, EventAssumption DEF DoomedHits
    <3> QED
      BY <2>2, <3>1, EventAssumption DEF Safe, Stored
  <2> QED
    BY <2>1, <2>2
<1>10. \A e \in Events : Now(w) # EventWrite(e)
  BY <1>1, EventAssumption DEF EventWrite, Write
<1>11. /\ \A m \in Messages : GroupOf[m] # Now(w).group => row'[m] = row[m]
       /\ \A h \in Groups : h # Now(w).group => (h \in tombs' <=> h \in tombs)
  BY <1>2, <1>6 DEF g
<1> QED
  BY <1>1, <1>3, <1>4, <1>7, <1>8, <1>9, <1>10, <1>11, CommitKeeps

-----------------------------------------------------------------------------
(* The specification.                                                      *)

LEMMA InitInv == Init => Inv
<1> SUFFICES ASSUME Init PROVE Inv
  OBVIOUS
<1>1. TypeOK
  BY DEF Init, TypeOK
<1>2. IsFiniteSet(hits)
  BY FS_EmptySet DEF Init
<1>3. Progress
  BY NoneAssumption DEF Init, Progress
<1> QED
  BY <1>1, <1>2, <1>3 DEF Init, Inv, Locked, Snapshot, RollupMatchesEvents, HitsOf,
     RevertedLeavesNothing, AckedIsStored

LEMMA NextInv == Inv /\ [Next]_vars => Inv'
<1> SUFFICES ASSUME Inv, [Next]_vars PROVE Inv'
  OBVIOUS
<1>1. CASE UNCHANGED vars
  <2>1. \A v : Now(v)' = Now(v) /\ Done(v)' = Done(v)
    BY <1>1 DEF vars, Now, Done
  <2>2. \A e : Safe(e)' = Safe(e)
    BY <1>1 DEF vars, Safe, Stored
  <2>3. TypeOK' /\ Locked' /\ Snapshot' /\ Progress'
    BY <1>1, <2>1, <2>2 DEF vars, Inv, TypeOK, Locked, Snapshot, Progress
  <2> QED
    BY <1>1, <2>3, TablesKept DEF vars, Inv
<1>2. ASSUME NEW w \in Writers, Commit(w)
      PROVE  Inv'
  BY <1>2, CommitSentKeeps, CommitDeliveredKeeps, CommitFailedKeeps, CommitHitKeeps,
     CommitRevertKeeps DEF Commit
<1> QED
  BY <1>1, <1>2, PostKeeps, DeliverKeeps, PurgeKeeps, FinishKeeps, LockKeeps, ReadKeeps,
     FailKeeps, SkipKeeps, CrashKeeps DEF Next

LEMMA Invariance == Spec => []Inv
  BY InitInv, NextInv, PTL DEF Spec

(* Every variable keeps its type, for any writers, messages and batches.   *)
THEOREM TypeCorrect == Spec => []TypeOK
<1>1. Inv => TypeOK
  BY DEF Inv
<1> QED
  BY <1>1, Invariance, PTL

(* The counters and last instants of a row, rolled up by ApplyOpen and     *)
(* ApplyClick, are those of the events they have stored.                   *)
THEOREM RollupMatchesEventsHolds == Spec => []RollupMatchesEvents
<1>1. Inv => RollupMatchesEvents
  BY DEF Inv
<1> QED
  BY <1>1, Invariance, PTL

(* No webhook write survives, or follows, RevertGroup of its group.        *)
THEOREM RevertedLeavesNothingHolds == Spec => []RevertedLeavesNothing
<1>1. Inv => RevertedLeavesNothing
  BY DEF Inv
<1> QED
  BY <1>1, Invariance, PTL

(* A batch answered 204 is stored, but for reverted groups.                *)
THEOREM AckedIsStoredHolds == Spec => []AckedIsStored
<1>1. Inv => AckedIsStored
  BY DEF Inv
<1> QED
  BY <1>1, Invariance, PTL

-----------------------------------------------------------------------------
(* Nothing but the purge of its group makes a row forget: the dispatcher's *)
(* own record, written late, wipes out no delivery or open that the        *)
(* webhook stored before it, and no first instant is overwritten.          *)
Remembers(m) ==
    row[m] # NONE /\ GroupOf[m] \notin tombs' =>
        /\ row'[m] # NONE
        /\ row[m].delivered # 0 => row'[m].delivered = row[m].delivered
        /\ row[m].failed # 0 => row'[m].failed = row[m].failed
        /\ \A k \in HitKinds : row'[m].count[k] >= row[m].count[k]

OnlyRevertForgets == [][\A m \in Messages : Remembers(m)]_vars

(* A write changes one row, and keeps what it held.                        *)
LEMMA CommitRemembers ==
  ASSUME Inv, NEW w \in Writers, Commit(w), NEW m \in Messages
  PROVE  Remembers(m)
<1> SUFFICES ASSUME row[m] # NONE, GroupOf[m] \notin tombs', row'[m] # row[m]
             PROVE  /\ row'[m] # NONE
                    /\ row[m].delivered # 0 => row'[m].delivered = row[m].delivered
                    /\ row[m].failed # 0 => row'[m].failed = row[m].failed
                    /\ \A k \in HitKinds : row'[m].count[k] >= row[m].count[k]
  BY DEF Remembers, Inv, TypeOK, RowType
<1>1. Row(m) = row[m] /\ row[m] \in RowType
  BY DEF Row, Inv, TypeOK
<1>2. CASE CommitSent(w)
  BY <1>1, <1>2 DEF CommitSent, Recorded, Inv, TypeOK
<1>3. CASE CommitDelivered(w)
  <2>1. /\ m = Now(w).email
        /\ row'[m] = [row[m] EXCEPT !.delivered = IF @ = 0 THEN Now(w).event.at ELSE @]
    BY <1>1, <1>3 DEF CommitDelivered, Inv, TypeOK
  <2>2. /\ row'[m].count = row[m].count
        /\ row[m].delivered # 0 => row'[m].delivered = row[m].delivered
        /\ row[m].failed # 0 => row'[m].failed = row[m].failed
    BY <1>1, <2>1 DEF RowType
  <2>3. Now(w).event.at \in Nat \ {0}
    BY <1>3, CommitFacts, WriteFacts DEF CommitDelivered
  <2>4. row'[m] \in RowType
    BY <1>1, <2>1, <2>3 DEF RowType
  <2> QED
    BY <1>1, <2>2, <2>4, RowAssumption DEF RowType
<1>4. CASE CommitFailed(w)
  <2>1. /\ m = Now(w).email
        /\ row'[m] = [row[m] EXCEPT !.failed = IF @ = 0 THEN Now(w).event.at ELSE @]
    BY <1>1, <1>4 DEF CommitFailed, Inv, TypeOK
  <2>2. /\ row'[m].count = row[m].count
        /\ row[m].delivered # 0 => row'[m].delivered = row[m].delivered
        /\ row[m].failed # 0 => row'[m].failed = row[m].failed
    BY <1>1, <2>1 DEF RowType
  <2>3. Now(w).event.at \in Nat \ {0}
    BY <1>4, CommitFacts, WriteFacts DEF CommitFailed
  <2>4. row'[m] \in RowType
    BY <1>1, <2>1, <2>3 DEF RowType
  <2> QED
    BY <1>1, <2>2, <2>4, RowAssumption DEF RowType
<1>5. CASE CommitHit(w)
  <2> DEFINE e == Now(w).event
  <2>1. /\ e \in Events /\ e.kind \in HitKinds /\ e.at \in Nat \ {0}
    BY <1>5, CommitFacts, WriteFacts DEF CommitHit
  <2>2. m = e.email /\ row'[m] = RolledUp(row[m], e)
    BY <1>1, <1>5 DEF CommitHit, Inv, TypeOK
  <2> QED
    BY <1>1, <2>1, <2>2, RolledUpFacts, RowAssumption DEF RowType
<1>6. CASE CommitRevert(w)
  BY <1>6, CommitFacts DEF CommitRevert, Inv, TypeOK
<1> QED
  BY <1>2, <1>3, <1>4, <1>5, <1>6 DEF Commit

(* RecordSent, ApplyDelivered and ApplyFailed keep what a row holds.       *)
THEOREM OnlyRevertForgetsHolds == Spec => OnlyRevertForgets
<1>1. Inv /\ [Next]_vars => [\A m \in Messages : Remembers(m)]_vars
  <2> SUFFICES ASSUME Inv, Next, NEW m \in Messages
               PROVE  Remembers(m)
    OBVIOUS
  <2>1. CASE UNCHANGED tables
    BY <2>1 DEF Remembers, Inv, TypeOK, RowType
  <2>2. CASE \E w \in Writers : Commit(w)
    BY <2>2, CommitRemembers
  <2> QED
    BY <2>1, <2>2 DEF Next, Post, Deliver, Purge, Lock, Read, Fail, Skip, Crash, Finish
<1> QED
  BY <1>1, Invariance, PTL DEF Spec, OnlyRevertForgets

-----------------------------------------------------------------------------
(* The store implements EngagementPromise: a transaction takes effect as   *)
(* its commit, since what it read is still so; all other steps stutter.    *)

Listed  == {m \in Messages : row[m] # NONE}
Figures == [m \in Messages |-> Row(m)]

(* What readers see of the tables.                                         *)
Seen == <<Listed, Figures, hits, tombs, acked>>

LEMMA SameTables ==
  ASSUME UNCHANGED <<row, hits, tombs, acked>>
  PROVE  UNCHANGED Seen
<1>1. \A m : Row(m)' = Row(m)
  BY DEF Row
<1> QED
  BY <1>1 DEF Seen, Listed, Figures

(* A commit that sets the row of one message.                              *)
LEMMA RowRecords ==
  ASSUME Inv, NEW m \in Messages, GroupOf[m] \notin tombs, NEW r \in RowType,
         row' = [row EXCEPT ![m] = r], UNCHANGED <<tombs, acked>>
  PROVE  /\ Promise!Record(m, r)
         /\ Listed' = Listed \cup {m} /\ Figures' = [Figures EXCEPT ![m] = r]
<1>1. row'[m] = r /\ \A n \in Messages : n # m => row'[n] = row[n]
  BY DEF Inv, TypeOK
<1>2. r # NONE
  BY RowAssumption
<1>3. Listed' = Listed \cup {m}
  BY <1>1, <1>2 DEF Listed
<1>4. Row(m)' = r /\ \A n \in Messages : n # m => Row(n)' = Row(n)
  BY <1>1, <1>2 DEF Row
<1>5. Figures' = [Figures EXCEPT ![m] = r]
  BY <1>4 DEF Figures
<1> QED
  BY <1>3, <1>5 DEF Promise!Record, Promise!Withdrawn, Listed, Figures

LEMMA RowUnaltered ==
  ASSUME Inv, NEW m \in Messages, GroupOf[m] \notin tombs,
         row' = [row EXCEPT ![m] = Row(m)], UNCHANGED <<hits, tombs, acked>>
  PROVE  Promise!Accept(m)
<1>1. Row(m) \in RowType
  BY RowFacts
<1>2. Figures[m] = Row(m)
  BY DEF Figures
<1>3. Listed' = Listed \cup {m} /\ Figures' = [Figures EXCEPT ![m] = Figures[m]]
  BY <1>1, <1>2, RowRecords
<1> QED
  BY <1>3 DEF Promise!Accept, Promise!Record, Promise!Withdrawn, Listed, Figures

(* A write that is not a purge finds its group as its reader would.        *)
LEMMA WriteFinds ==
  ASSUME Inv, NEW w \in Writers, Commits(w), ~dead[w],
         Now(w).op \in {"sent", "delivered", "failed"}
  PROVE  /\ Now(w).email \in Messages
         /\ GroupOf[Now(w).email] \notin tombs
         /\ Now(w).event.at \in Nat \ {0}
         /\ Now(w).event.at \in {1} \cup {e.at : e \in Events}
<1>1. Now(w) \in Writes
  BY CommitFacts
<1>2. Now(w).op # "revert"
  OBVIOUS
<1>3. Now(w).event.at \in {1} \cup {e.at : e \in Events}
  BY <1>1, <1>2 DEF Writes, EventWrite, PostWrite, PurgeWrite, Write
<1> QED
  BY <1>1, <1>3, CommitFacts, WriteFacts

LEMMA SentPromised ==
  ASSUME Inv, NEW w \in Writers, CommitSent(w)
  PROVE  Promise!Next \/ UNCHANGED Seen
<1>1. Commits(w) /\ UNCHANGED <<hits, tombs, acked>>
  BY DEF CommitSent, Commits, End
<1>2. CASE dead[w]
  BY <1>1, <1>2, SameTables DEF CommitSent
<1>3. CASE ~dead[w]
  BY <1>1, <1>3, WriteFinds, RowUnaltered DEF CommitSent, Recorded, Promise!Next
<1> QED
  BY <1>2, <1>3

LEMMA DeliveredPromised ==
  ASSUME Inv, NEW w \in Writers, CommitDelivered(w)
  PROVE  Promise!Next \/ UNCHANGED Seen
<1>1. Commits(w) /\ UNCHANGED <<hits, tombs, acked>>
  BY DEF CommitDelivered, Commits, End
<1>2. CASE dead[w]
  BY <1>1, <1>2, SameTables DEF CommitDelivered
<1>3. CASE ~dead[w]
  <2>1. PICK m \in Messages, at \in {1} \cup {e.at : e \in Events} :
          /\ m = Now(w).email /\ at = Now(w).event.at
          /\ GroupOf[m] \notin tombs /\ at \in Nat \ {0}
    BY <1>1, <1>3, WriteFinds DEF CommitDelivered
  <2>2. row' = [row EXCEPT ![m] = [Row(m) EXCEPT !.delivered = IF @ = 0 THEN at ELSE @]]
    BY <1>3, <2>1 DEF CommitDelivered
  <2>3. Row(m) \in RowType /\ Figures[m] = Row(m)
    BY <2>1, RowFacts DEF Figures
  <2>4. CASE Row(m).delivered = 0
    <3>1. [Row(m) EXCEPT !.delivered = at] \in RowType
      BY <2>1, <2>3 DEF RowType
    <3>2. row' = [row EXCEPT ![m] = [Row(m) EXCEPT !.delivered = at]]
      BY <2>2, <2>4
    <3>3. /\ Listed' = Listed \cup {m}
          /\ Figures' = [Figures EXCEPT ![m] = [Figures[m] EXCEPT !.delivered = at]]
      BY <1>1, <2>1, <2>3, <3>1, <3>2, RowRecords
    <3>4. Figures[m].delivered = 0
      BY <2>3, <2>4
    <3>5. Promise!Deliver(m, at)
      BY <1>1, <2>1, <3>3, <3>4
         DEF Promise!Deliver, Promise!Record, Promise!Withdrawn, Listed, Figures
    <3> QED
      BY <2>1, <3>5 DEF Promise!Next
  <2>5. CASE Row(m).delivered # 0
    <3>1. [Row(m) EXCEPT !.delivered = IF @ = 0 THEN at ELSE @] = Row(m)
      BY <2>3, <2>5 DEF RowType
    <3> QED
      BY <1>1, <2>1, <2>2, <3>1, RowUnaltered DEF Promise!Next
  <2> QED
    BY <2>4, <2>5
<1> QED
  BY <1>2, <1>3

LEMMA FailedPromised ==
  ASSUME Inv, NEW w \in Writers, CommitFailed(w)
  PROVE  Promise!Next \/ UNCHANGED Seen
<1>1. Commits(w) /\ UNCHANGED <<hits, tombs, acked>>
  BY DEF CommitFailed, Commits, End
<1>2. CASE dead[w]
  BY <1>1, <1>2, SameTables DEF CommitFailed
<1>3. CASE ~dead[w]
  <2>1. PICK m \in Messages, at \in {1} \cup {e.at : e \in Events} :
          /\ m = Now(w).email /\ at = Now(w).event.at
          /\ GroupOf[m] \notin tombs /\ at \in Nat \ {0}
    BY <1>1, <1>3, WriteFinds DEF CommitFailed
  <2>2. row' = [row EXCEPT ![m] = [Row(m) EXCEPT !.failed = IF @ = 0 THEN at ELSE @]]
    BY <1>3, <2>1 DEF CommitFailed
  <2>3. Row(m) \in RowType /\ Figures[m] = Row(m)
    BY <2>1, RowFacts DEF Figures
  <2>4. CASE Row(m).failed = 0
    <3>1. [Row(m) EXCEPT !.failed = at] \in RowType
      BY <2>1, <2>3 DEF RowType
    <3>2. row' = [row EXCEPT ![m] = [Row(m) EXCEPT !.failed = at]]
      BY <2>2, <2>4
    <3>3. /\ Listed' = Listed \cup {m}
          /\ Figures' = [Figures EXCEPT ![m] = [Figures[m] EXCEPT !.failed = at]]
      BY <1>1, <2>1, <2>3, <3>1, <3>2, RowRecords
    <3>4. Figures[m].failed = 0
      BY <2>3, <2>4
    <3>5. Promise!Fail(m, at)
      BY <1>1, <2>1, <3>3, <3>4
         DEF Promise!Fail, Promise!Record, Promise!Withdrawn, Listed, Figures
    <3> QED
      BY <2>1, <3>5 DEF Promise!Next
  <2>5. CASE Row(m).failed # 0
    <3>1. [Row(m) EXCEPT !.failed = IF @ = 0 THEN at ELSE @] = Row(m)
      BY <2>3, <2>5 DEF RowType
    <3> QED
      BY <1>1, <2>1, <2>2, <3>1, RowUnaltered DEF Promise!Next
  <2> QED
    BY <2>4, <2>5
<1> QED
  BY <1>2, <1>3

(* A new event is counted, together with its figures; a repeated one, or   *)
(* one of a reverted group, is not.                                        *)
LEMMA HitPromised ==
  ASSUME Inv, NEW w \in Writers, CommitHit(w)
  PROVE  Promise!Next \/ UNCHANGED Seen
<1>1. PICK e \in Events : Now(w) = EventWrite(e) /\ e.kind \in HitKinds
  BY CommitFacts, WriteFacts DEF CommitHit
<1>2. /\ Commits(w) /\ Now(w).event = e /\ Now(w).group = GroupOf[e.email]
      /\ UNCHANGED <<tombs, acked>>
  BY <1>1 DEF CommitHit, EventWrite, Write, Commits, End
<1>3. CASE dead[w] \/ ~IsNew(e)
  BY <1>2, <1>3, SameTables DEF CommitHit
<1>4. CASE ~dead[w] /\ IsNew(e)
  <2>1. e.email \in Messages /\ GroupOf[e.email] \notin tombs /\ e.at \in Nat
    BY <1>2, <1>4, CommitFacts, EventAssumption
  <2>2. hits' = hits \cup {e} /\ row' = [row EXCEPT ![e.email] = RolledUp(Row(e.email), e)]
    BY <1>2, <1>4 DEF CommitHit
  <2>3. e \notin hits
    BY <1>4 DEF IsNew
  <2>4. Row(e.email) \in RowType /\ Figures[e.email] = Row(e.email)
    BY <2>1, RowFacts DEF Figures
  <2>5. RolledUp(Row(e.email), e) \in RowType
    BY <1>1, <2>1, <2>4, RolledUpFacts
  <2>6. /\ Listed' = Listed \cup {e.email}
        /\ Figures' = [Figures EXCEPT ![e.email] = RolledUp(Row(e.email), e)]
    BY <1>2, <2>1, <2>2, <2>5, RowRecords
  <2>7. RolledUp(Row(e.email), e) =
          [Figures[e.email] EXCEPT !.count[e.kind] = @ + 1,
                                   !.last[e.kind] = Promise!Later(@, e.at)]
    BY <2>4 DEF RolledUp, Later, Promise!Later
  <2>8. Promise!Count(e)
    BY <1>1, <1>2, <2>1, <2>2, <2>3, <2>6, <2>7
       DEF Promise!Count, Promise!HitKinds, HitKinds, Promise!Record, Promise!Withdrawn,
           Listed, Figures
  <2> QED
    BY <2>8 DEF Promise!Next
<1> QED
  BY <1>3, <1>4

LEMMA RevertPromised ==
  ASSUME Inv, NEW w \in Writers, CommitRevert(w)
  PROVE  Promise!Next
<1>1. PICK g \in Groups :
      /\ g = Now(w).group /\ Commits(w) /\ UNCHANGED acked
      /\ doomed[w] = {m \in Messages : GroupOf[m] = g /\ row[m] # NONE}
  BY CommitFacts, WriteFacts DEF CommitRevert, Commits, End
<1>2. /\ tombs' = tombs \cup {g} /\ hits' = hits \ DoomedHits(w)
      /\ row' = [m \in Messages |-> IF m \in doomed[w] THEN NONE ELSE row[m]]
  BY <1>1 DEF CommitRevert
<1> DEFINE Of == Promise!Of(g)
<1>3. Of = {m \in Messages : GroupOf[m] = g}
  BY DEF Promise!Of
<1> HIDE DEF Of
<1>4. /\ \A m \in Of : row'[m] = NONE
      /\ \A m \in Messages \ Of : row'[m] = row[m]
  BY <1>1, <1>2, <1>3
<1>5. Listed' = Listed \ Of
  BY <1>3, <1>4 DEF Listed
<1>6. Blank = Promise!Blank
  BY DEF Blank, Promise!Blank, Promise!HitKinds
<1>7. \A m \in Messages : Row(m)' = IF m \in Of THEN Promise!Blank ELSE Row(m)
  BY <1>3, <1>4, <1>6 DEF Row
<1>8. Figures' = [m \in Messages |-> IF m \in Of THEN Promise!Blank ELSE Figures[m]]
  BY <1>7 DEF Figures
<1>9. hits' = {e \in hits : e.email \notin Of}
  <2>1. ASSUME NEW e \in hits PROVE e.email \in doomed[w] <=> e.email \in Of
    <3>1. e \in Events /\ e.kind \in HitKinds /\ e.email \in Messages
      BY EventAssumption DEF Inv, TypeOK
    <3>2. row[e.email] # NONE
      BY <3>1 DEF Inv, RollupMatchesEvents, HitsOf
    <3> QED
      BY <1>1, <1>3, <3>1, <3>2
  <2> QED
    BY <1>2, <2>1 DEF DoomedHits
<1>10. Promise!TakeBack(g)
  BY <1>1, <1>2, <1>5, <1>8, <1>9 DEF Promise!TakeBack, Of, Listed, Figures
<1> QED
  BY <1>1, <1>10 DEF Promise!Next

(* A batch that is answered 204 is kept, event by event.                   *)
LEMMA FinishPromised ==
  ASSUME Inv, NEW w \in Writers, Finish(w)
  PROVE  Promise!Next \/ UNCHANGED Seen
<1>1. UNCHANGED <<row, hits, tombs>> /\ acked' = acked \cup ({Reply(w)} \cap Batches)
  BY DEF Finish
<1>2. CASE Reply(w) \notin Batches
  BY <1>1, <1>2, SameTables
<1>3. CASE Reply(w) \in Batches
  <2>1. Reply(w) = job[w] /\ ~failed[w]
    BY <1>3, NoneAssumption DEF Reply
  <2>2. PICK b \in Batches : b = Reply(w)
    BY <1>3
  <2>3. \A i \in DOMAIN b : Safe(b[i]) /\ b[i] \in Events
    <3>1. b \in Seq(Events) /\ Len(b) \in Nat /\ DOMAIN b = 1..Len(b)
      BY BatchFacts
    <3>2. ~failed[w] => \A i \in 1..Done(w) : Safe(job[w][i])
      BY <2>1, <2>2 DEF Inv, Progress
    <3>3. Done(w) = Len(b)
      BY <2>1, <2>2, <3>1 DEF Done, Finish
    <3> QED
      BY <2>1, <2>2, <3>1, <3>2, <3>3
  <2>4. ASSUME NEW e \in Events, Safe(e) PROVE Promise!Kept(e)
    <3>1. e.email \in Messages /\ e.kind \in EventKinds
      BY EventAssumption
    <3>2. Figures[e.email] = Row(e.email)
      BY <3>1 DEF Figures
    <3>3. CASE GroupOf[e.email] \in tombs
      BY <3>3 DEF Promise!Kept, Promise!Withdrawn
    <3>4. CASE Stored(e)
      BY <3>1, <3>2, <3>4, StoredCases
         DEF Promise!Kept, Promise!HitKinds, Figures, Row
    <3> QED
      BY <2>4, <3>3, <3>4 DEF Safe
  <2>5. \A m : Row(m)' = Row(m)
    BY <1>1 DEF Row
  <2>6. Promise!Acknowledge(b)
    BY <1>1, <1>3, <2>2, <2>3, <2>4, <2>5 DEF Promise!Acknowledge
  <2> QED
    BY <1>3, <2>6 DEF Promise!Next
<1> QED
  BY <1>2, <1>3

(* RecordSent, ApplyDelivered, ApplyFailed, ApplyOpen, ApplyClick and      *)
(* RevertGroup, and ServeHTTP's answers, keep the promise for any number   *)
(* of writers, whatever is redelivered, fails or crashes between them.     *)
THEOREM StoreImplementsPromise == Spec => ImplementsEngagement
<1>1. Init => Promise!Init
  <2> SUFFICES ASSUME Init PROVE Promise!Init
    OBVIOUS
  <2>1. \A m \in Messages : row[m] = NONE /\ Row(m) = Blank
    BY DEF Init, Row
  <2> QED
    BY <2>1 DEF Init, Promise!Init, Promise!Blank, Promise!HitKinds, Blank
<1>2. Inv /\ [Next]_vars => [Promise!Next]_(Promise!vars)
  <2> SUFFICES ASSUME Inv, [Next]_vars
               PROVE  Promise!Next \/ UNCHANGED Seen
    BY DEF Promise!vars, Seen, Listed, Figures
  <2>1. CASE \E w \in Writers : Commit(w)
    BY <2>1, SentPromised, DeliveredPromised, FailedPromised, HitPromised, RevertPromised
       DEF Commit
  <2>2. CASE \E w \in Writers : Finish(w)
    BY <2>2, FinishPromised
  <2>3. CASE UNCHANGED <<row, hits, tombs, acked>>
    BY <2>3, SameTables
  <2> QED
    BY <2>1, <2>2, <2>3 DEF Next, Post, Deliver, Purge, Lock, Read, Fail, End, Skip, Crash, vars
<1> QED
  BY <1>1, <1>2, Invariance, PTL DEF Spec, ImplementsEngagement, Promise!Spec
=============================================================================
