-------------------------- MODULE EngagementStore --------------------------
(***************************************************************************)
(* The engagement the service keeps for mail sent through SendGrid: one    *)
(* row per message, the open and click events behind its counters, and a   *)
(* tombstone for every group whose send was taken back.                    *)
(*                                                                         *)
(* Three kinds of work write it, on any number of replicas: the dispatcher *)
(* records what it posted, the event webhook applies batches that SendGrid *)
(* delivers again and again until one is acknowledged (and sometimes after *)
(* that), and a revert or a cancel purges a group.  Every write is a       *)
(* transaction that takes the group's advisory lock, reads, and then       *)
(* commits or fails; between those points others run.                      *)
(*                                                                         *)
(* An operator named ...Fault is the operator below it with one plausible  *)
(* mistake, kept to show that the checks notice the mistake.               *)
(***************************************************************************)
EXTENDS Integers, Sequences, FiniteSets

CONSTANTS
    Writers,    \* goroutines that work on the store
    Messages,   \* email_ids
    Groups,     \* group_ids
    GroupOf,    \* the group_id custom argument of each message
    Events,     \* webhook events: [id, kind, email, at]
    Batches,    \* webhook deliveries: sequences of events
    NONE        \* no row, no owner, no job

EventKinds == {"delivered", "failed", "open", "click", "other"}
HitKinds   == {"open", "click"}
HitEvents  == {e \in Events : e.kind \in HitKinds}

ASSUME GroupAssumption == GroupOf \in [Messages -> Groups]
ASSUME EventAssumption ==
    \A e \in Events : e.kind \in EventKinds /\ e.email \in Messages /\ e.at \in Nat \ {0}
(* SendGrid gives every open, and every click, an sg_event_id of its own. *)
ASSUME IdAssumption ==
    \A e, f \in Events : e.kind \in HitKinds /\ e.kind = f.kind /\ e.id = f.id => e = f
ASSUME BatchAssumption == Batches \subseteq Seq(Events) /\ Batches \cap Groups = {}
ASSUME NoneAssumption == NONE \notin Writers \cup Groups \cup Batches

VARIABLES
    row,      \* sendgrid_recipient_engagement, by email_id
    hits,     \* sendgrid_open_events and sendgrid_click_events
    tombs,    \* sendgrid_reverted_groups
    lock,     \* who holds a group's advisory lock
    job,      \* the batch, or the group to purge, a writer works on
    todo,     \* the writes it still has to do
    stage,    \* of its current transaction: none, locked or read
    dead,     \* the tombstone check of that transaction
    doomed,   \* the messages its DELETEs select
    failed,   \* the webhook's applyErr
    posted,   \* messages the dispatcher has recorded or tried to
    acked     \* batches answered with 2xx

tables == <<row, hits, tombs>>
work   == <<job, todo, failed>>
trans  == <<lock, stage, dead, doomed>>
vars   == <<tables, work, trans, posted, acked>>

(* A write: what it does, the message or NONE, the group, the event.       *)
Write(op, m, g, e) == [op |-> op, email |-> m, group |-> g, event |-> e]
EventWrite(e)    == Write(e.kind, e.email, GroupOf[e.email], e)
PostWrite(op, m) == Write(op, m, GroupOf[m], [at |-> 1])
PurgeWrite(g)    == Write("revert", NONE, g, NONE)

Writes ==
    {EventWrite(e) : e \in Events}
        \cup {PostWrite(op, m) : op \in {"sent", "failed"}, m \in Messages}
        \cup {PurgeWrite(g) : g \in Groups}

(* A row none of whose optional columns is set; 0 is a NULL timestamp.     *)
BlankFault == [delivered |-> 0, failed |-> 0,
               count |-> [k \in {"open"} |-> 0], last |-> [k \in HitKinds |-> 0]]
Blank == [delivered |-> 0, failed |-> 0,
          count |-> [k \in HitKinds |-> 0], last |-> [k \in HitKinds |-> 0]]

RowType == [delivered : Nat, failed : Nat,
            count : [HitKinds -> Nat], last : [HitKinds -> Nat]]

ASSUME RowAssumption == NONE \notin RowType

TypeOK ==
    /\ row \in [Messages -> RowType \cup {NONE}]
    /\ hits \subseteq HitEvents
    /\ tombs \subseteq Groups
    /\ lock \in [Groups -> Writers \cup {NONE}]
    /\ job \in [Writers -> Batches \cup Groups \cup {NONE}]
    /\ todo \in [Writers -> Seq(Writes)]
    /\ stage \in [Writers -> {"none", "locked", "read"}]
    /\ dead \in [Writers -> BOOLEAN]
    /\ doomed \in [Writers -> SUBSET Messages]
    /\ failed \in [Writers -> BOOLEAN]
    /\ posted \subseteq Messages
    /\ acked \subseteq Batches

Init ==
    /\ row = [m \in Messages |-> NONE]
    /\ hits = {} /\ tombs = {}
    /\ lock = [g \in Groups |-> NONE]
    /\ job = [w \in Writers |-> NONE]
    /\ todo = [w \in Writers |-> << >>]
    /\ stage = [w \in Writers |-> "none"]
    /\ dead = [w \in Writers |-> FALSE]
    /\ doomed = [w \in Writers |-> {}]
    /\ failed = [w \in Writers |-> FALSE]
    /\ posted = {} /\ acked = {}

-----------------------------------------------------------------------------
(* Work arrives.                                                           *)

Idle(w) == job[w] = NONE /\ todo[w] = << >>

(* SendEmail, once per message: recordSent after an acceptance,            *)
(* recordFailed after a definitive rejection, nothing when in doubt.  Its  *)
(* clock reads 1; only that a time is set matters.                         *)
Post(w, m, op) ==
    /\ Idle(w)
    /\ m \notin posted
    /\ posted' = posted \cup {m}
    /\ todo' = [todo EXCEPT ![w] = <<PostWrite(op, m)>>]
    /\ UNCHANGED <<tables, trans, job, failed, acked>>

(* SendGrid posts a batch to the webhook, for the first time or again.     *)
Deliver(w, b) ==
    /\ Idle(w)
    /\ job' = [job EXCEPT ![w] = b]
    /\ todo' = [todo EXCEPT ![w] = [i \in DOMAIN b |-> EventWrite(b[i])]]
    /\ UNCHANGED <<tables, trans, failed, posted, acked>>

(* PurgeEngagement, after a revert or a cancelled schedule.                *)
Purge(w, g) ==
    /\ Idle(w)
    /\ job' = [job EXCEPT ![w] = g]
    /\ todo' = [todo EXCEPT ![w] = <<PurgeWrite(g)>>]
    /\ UNCHANGED <<tables, trans, failed, posted, acked>>

(* ServeHTTP answers 204 when every event was applied, 500 otherwise.      *)
ReplyFault(w) == job[w]
Reply(w) == IF failed[w] THEN NONE ELSE job[w]

Finish(w) ==
    /\ job[w] # NONE /\ todo[w] = << >>
    /\ acked' = acked \cup ({Reply(w)} \cap Batches)
    /\ job' = [job EXCEPT ![w] = NONE]
    /\ failed' = [failed EXCEPT ![w] = FALSE]
    /\ UNCHANGED <<tables, trans, todo, posted>>

-----------------------------------------------------------------------------
(* One transaction.                                                        *)

Now(w) == Head(todo[w])

(* pg_advisory_xact_lock of the group, by the writer or by the insert      *)
(* trigger; it waits while another transaction holds it.                   *)
LockGateFault(g) == TRUE
LockGate(g) == lock[g] = NONE

Lock(w) ==
    /\ todo[w] # << >> /\ stage[w] = "none"
    /\ Now(w).op # "other"
    /\ LockGate(Now(w).group)
    /\ lock' = [lock EXCEPT ![Now(w).group] = w]
    /\ stage' = [stage EXCEPT ![w] = "locked"]
    /\ UNCHANGED <<tables, work, dead, doomed, posted, acked>>

(* The tombstone check of a write, or the rows a purge will delete.        *)
Read(w) ==
    /\ stage[w] = "locked"
    /\ dead' = [dead EXCEPT ![w] = Now(w).group \in tombs]
    /\ doomed' = [doomed EXCEPT ![w] =
                    {m \in Messages : GroupOf[m] = Now(w).group /\ row[m] # NONE}]
    /\ stage' = [stage EXCEPT ![w] = "read"]
    /\ UNCHANGED <<tables, work, lock, posted, acked>>

Released(w) == [g \in Groups |-> IF lock[g] = w THEN NONE ELSE lock[g]]

(* The transaction ends and its writer goes on with the next write.        *)
End(w) ==
    /\ lock' = Released(w)
    /\ stage' = [stage EXCEPT ![w] = "none"]
    /\ todo' = [todo EXCEPT ![w] = Tail(@)]
    /\ dead' = [dead EXCEPT ![w] = FALSE]
    /\ doomed' = [doomed EXCEPT ![w] = {}]
    /\ UNCHANGED <<job, posted, acked>>

Commits(w) == stage[w] = "read" /\ End(w) /\ UNCHANGED failed

Row(m) == IF row[m] = NONE THEN Blank ELSE row[m]
Later(a, b) == IF a < b THEN b ELSE a

(* RecordSent: ON CONFLICT DO NOTHING. *)
RecordedFault(m) == Blank
Recorded(m) == Row(m)

CommitSent(w) ==
    /\ Commits(w) /\ Now(w).op = "sent"
    /\ row' = IF dead[w] THEN row ELSE [row EXCEPT ![Now(w).email] = Recorded(Now(w).email)]
    /\ UNCHANGED <<hits, tombs>>

(* ApplyDelivered and ApplyFailed: the first one wins, and either creates  *)
(* the row when RecordSent did not.                                        *)
CommitDelivered(w) ==
    /\ Commits(w) /\ Now(w).op = "delivered"
    /\ row' = IF dead[w] THEN row ELSE
                [row EXCEPT ![Now(w).email] =
                    [Row(Now(w).email) EXCEPT !.delivered =
                        IF @ = 0 THEN Now(w).event.at ELSE @]]
    /\ UNCHANGED <<hits, tombs>>

CommitFailed(w) ==
    /\ Commits(w) /\ Now(w).op = "failed"
    /\ row' = IF dead[w] THEN row ELSE
                [row EXCEPT ![Now(w).email] =
                    [Row(Now(w).email) EXCEPT !.failed =
                        IF @ = 0 THEN Now(w).event.at ELSE @]]
    /\ UNCHANGED <<hits, tombs>>

(* ApplyOpen and ApplyClick: the event, keyed by sg_event_id, and the      *)
(* rollup of a new event, in one transaction.                              *)
IsNewFault(e) == TRUE
IsNew(e) == \A f \in hits : f.id # e.id \/ f.kind # e.kind

RolledUp(r, e) ==
    [r EXCEPT !.count[e.kind] = @ + 1, !.last[e.kind] = Later(@, e.at)]

CommitHit(w) ==
    /\ Commits(w) /\ Now(w).op \in HitKinds
    /\ LET e == Now(w).event IN
       IF dead[w] \/ ~IsNew(e) THEN UNCHANGED tables
       ELSE /\ hits' = hits \cup {e}
            /\ row' = [row EXCEPT ![e.email] = RolledUp(Row(e.email), e)]
            /\ UNCHANGED tombs

(* RevertGroup: the tombstone, then the events of the group's rows, then   *)
(* the rows.  Deleting the rows first would leave the events' DELETE       *)
(* nothing to join to.                                                     *)
DoomedHits(w) == {e \in hits : e.email \in doomed[w]}

CommitRevert(w) ==
    /\ Commits(w) /\ Now(w).op = "revert"
    /\ tombs' = tombs \cup {Now(w).group}
    /\ hits' = hits \ DoomedHits(w)
    /\ row' = [m \in Messages |-> IF m \in doomed[w] THEN NONE ELSE row[m]]

(* A statement, the wait for the lock, or the commit fails: nothing of the *)
(* transaction remains.                                                    *)
Fail(w) ==
    /\ todo[w] # << >> /\ Now(w).op # "other"
    /\ End(w)
    /\ failed' = [failed EXCEPT ![w] = job[w] # NONE]
    /\ UNCHANGED tables

(* apply returns nil for an event type that is not tracked. *)
Skip(w) ==
    /\ todo[w] # << >> /\ Now(w).op = "other"
    /\ todo' = [todo EXCEPT ![w] = Tail(@)]
    /\ UNCHANGED <<tables, trans, job, failed, posted, acked>>

(* The pod dies: its open transaction is rolled back, nobody is answered.  *)
Crash(w) ==
    /\ ~Idle(w)
    /\ lock' = Released(w)
    /\ stage' = [stage EXCEPT ![w] = "none"]
    /\ job' = [job EXCEPT ![w] = NONE]
    /\ todo' = [todo EXCEPT ![w] = << >>]
    /\ dead' = [dead EXCEPT ![w] = FALSE]
    /\ doomed' = [doomed EXCEPT ![w] = {}]
    /\ failed' = [failed EXCEPT ![w] = FALSE]
    /\ UNCHANGED <<tables, posted, acked>>

-----------------------------------------------------------------------------
Commit(w) ==
    \/ CommitSent(w)
    \/ CommitDelivered(w)
    \/ CommitFailed(w)
    \/ CommitHit(w)
    \/ CommitRevert(w)

Next ==
    \E w \in Writers :
        \/ \E m \in Messages, op \in {"sent", "failed"} : Post(w, m, op)
        \/ \E b \in Batches : Deliver(w, b)
        \/ \E g \in Groups : Purge(w, g)
        \/ Lock(w)
        \/ Read(w)
        \/ Commit(w)
        \/ Fail(w)
        \/ Skip(w)
        \/ Crash(w)
        \/ Finish(w)

Spec == Init /\ [][Next]_vars

-----------------------------------------------------------------------------
(* What the store promises.                                                *)

HitsOf(m, k) == {e \in hits : e.email = m /\ e.kind = k}

(* The counters of a row are the number of its recorded events and its     *)
(* last instants the latest of them, so totals never exceed the daily      *)
(* series; an event without a row, which no listing would ever show and    *)
(* no purge find, does not exist.                                          *)
RollupMatchesEvents ==
    \A m \in Messages, k \in HitKinds :
        IF row[m] = NONE THEN HitsOf(m, k) = {}
        ELSE /\ row[m].count[k] = Cardinality(HitsOf(m, k))
             /\ \A e \in HitsOf(m, k) : e.at <= row[m].last[k]
             /\ IF HitsOf(m, k) = {} THEN row[m].last[k] = 0
                ELSE \E e \in HitsOf(m, k) : e.at = row[m].last[k]

(* No row and no event of a reverted group exists, whatever webhook was    *)
(* under way while the group was purged or arrives later.                  *)
RevertedLeavesNothing ==
    \A m \in Messages : GroupOf[m] \in tombs =>
        row[m] = NONE /\ \A e \in hits : e.email # m

(* What SendGrid was told is applied is stored, or its group is reverted:  *)
(* it will not be delivered again.                                         *)
Stored(e) ==
    LET r == row[e.email] IN
    CASE e.kind = "delivered" -> r # NONE /\ r.delivered # 0
      [] e.kind = "failed"    -> r # NONE /\ r.failed # 0
      [] e.kind \in HitKinds  -> e \in hits
      [] OTHER                -> TRUE

AckedIsStored ==
    \A b \in acked : \A i \in DOMAIN b :
        Stored(b[i]) \/ GroupOf[b[i].email] \in tombs

(* The store seen by those who read reports: what each commit makes of the *)
(* tables is one step of the promise, and everything else is none.         *)
Promise == INSTANCE EngagementPromise WITH
    listed    <- {m \in Messages : row[m] # NONE},
    figures   <- [m \in Messages |-> Row(m)],
    counted   <- hits,
    withdrawn <- tombs,
    applied   <- acked,
    Instants  <- {1} \cup {e.at : e \in Events}

(* Whatever interleaves, is redelivered, fails or crashes, reports draw on *)
(* a store that counts each event once, forgets nothing but what is taken  *)
(* back, and acknowledges only what it keeps.                              *)
ImplementsEngagement == Promise!Spec
=============================================================================
