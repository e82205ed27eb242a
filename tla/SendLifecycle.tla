--------------------------- MODULE SendLifecycle ---------------------------
(***************************************************************************)
(* One newsletter row and everything that moves it: send and schedule      *)
(* requests with their detached fan-out jobs, cancel-schedule requests,    *)
(* autosaves, deletes and the recovery sweep, on any number of replicas.   *)
(*                                                                         *)
(* The row is read and written by separate SQL statements, so every        *)
(* request is split where the code lets another request in: after a read,  *)
(* after a provider call, after a committed UPDATE.  Each UPDATE is one    *)
(* step, guarded by its WHERE clause (the *Gate operators).  Clocks are    *)
(* left out: a sweep whose age or due-time test might pass may run at any  *)
(* moment, which allows more behaviours than the code has.                 *)
(*                                                                         *)
(* An operator named ...Fault is not part of the system: it is the         *)
(* operator below it with one plausible mistake, kept to show that the     *)
(* checks notice the mistake.                                              *)
(***************************************************************************)
EXTENDS Integers

CONSTANTS
    Sends,        \* send and schedule requests; each mints its own group_id
                  \* and, when it arms a schedule, its own batch_id: the
                  \* request itself stands for both
    Cancels,      \* cancel-schedule requests
    Edits,        \* PUT requests (autosaves)
    Recipients,   \* committee members the audience is resolved from
    NONE,         \* SQL NULL, and the content of a row nobody has edited
    CanSchedule   \* some pod's provider implements port.ScheduledSender and
                  \* port.EngagementPurger: EMAIL_PROVIDER=sendgrid.  A pod
                  \* whose provider does not, as after a switch, refuses to
                  \* schedule and, without SendGrid credentials, to cancel,
                  \* and skips purges

ASSUME NoneAssumption == NONE \notin Sends \cup Edits
ASSUME ProviderAssumption == CanSchedule \in BOOLEAN

VARIABLES
    status, version, group, batch,   \* columns of the newsletters row
    timed,                           \* scheduled_at IS NOT NULL
    content,                         \* the edit that wrote subject and body
    pc,           \* where each send request (then its job) is
    armed,        \* the request's in.Schedule
    seen,         \* version the request read, then the one it claimed
    letter,       \* content the request rendered
    mail,         \* what the job knows of each recipient's message
    cpc, target,  \* cancel requests: where, and the group and batch read
    epc, base,    \* edits: where, and the If-Match version
    accepted,     \* recipients whose message of a send the provider took
    cancelled,    \* batches the provider has cancelled
    purged,       \* groups whose engagement was deleted and tombstoned
    usurped       \* auxiliary: claims undone by another request's job

rowVars    == <<status, version, group, batch, timed, content>>
sendVars   == <<pc, armed, seen, letter, mail>>
cancelVars == <<cpc, target>>
editVars   == <<epc, base>>
outside    == <<accepted, cancelled, purged>>
vars == <<rowVars, sendVars, cancelVars, editVars, outside, usurped>>

Statuses == {"draft", "sending", "scheduled", "sent", "gone"}
Outcomes == {"none", "todo", "sent", "failed", "unknown"}
Claimed  == {"sending", "scheduled", "sent"}

TypeOK ==
    /\ status \in Statuses
    /\ version \in Nat \ {0}
    /\ group \in Sends \cup {NONE}
    /\ batch \in Sends \cup {NONE}
    /\ timed \in BOOLEAN
    /\ content \in Edits \cup {NONE}
    /\ pc \in [Sends -> {"idle", "read", "fanout", "cleanup", "done"}]
    /\ armed \in [Sends -> BOOLEAN]
    /\ seen \in [Sends -> Nat]
    /\ letter \in [Sends -> Edits \cup {NONE}]
    /\ mail \in [Sends -> [Recipients -> Outcomes]]
    /\ cpc \in [Cancels -> {"idle", "read", "revert", "purge", "done"}]
    /\ target \in [Cancels -> Sends \cup {NONE}]
    /\ epc \in [Edits -> {"idle", "fetched", "read", "checked", "done"}]
    /\ base \in [Edits -> Nat]
    /\ accepted \in [Sends -> SUBSET Recipients]
    /\ cancelled \subseteq Sends
    /\ purged \subseteq Sends
    /\ usurped \subseteq Sends

(***************************************************************************)
(* A row that CreateDraft has just inserted, with or without a saved       *)
(* scheduled_at, and requests that have not arrived.                       *)
(***************************************************************************)
Init ==
    /\ status = "draft" /\ version = 1
    /\ group = NONE /\ batch = NONE
    /\ timed \in BOOLEAN
    /\ content = NONE
    /\ pc = [s \in Sends |-> "idle"]
    /\ armed = [s \in Sends |-> FALSE]
    /\ seen = [s \in Sends |-> 0]
    /\ letter = [s \in Sends |-> NONE]
    /\ mail = [s \in Sends |-> [r \in Recipients |-> "none"]]
    /\ cpc = [c \in Cancels |-> "idle"]
    /\ target = [c \in Cancels |-> NONE]
    /\ epc = [e \in Edits |-> "idle"]
    /\ base = [e \in Edits |-> 0]
    /\ accepted = [s \in Sends |-> {}]
    /\ cancelled = {} /\ purged = {} /\ usurped = {}

-----------------------------------------------------------------------------
(* The WHERE clauses of the repository's UPDATE statements.                *)

ClaimGateFault(v) == status = "draft"
ClaimGateReadOnlyFault(v) == status # "gone"
ClaimGate(v) == status = "draft" /\ version = v

SettleGateFault(v) == status = "sending"
SettleGate(v) == status = "sending" /\ version = v

CancelGateFault(b) == status \in {"scheduled", "sending"}
CancelGate(b) == status \in {"scheduled", "sending"} /\ batch = b

EditGateFault(v) == TRUE
EditGate(v) == version = v

RecoverGateFault == status = "sending" /\ batch = NONE
RecoverGate == status = "sending"

RecoveredStatusFault == IF timed THEN "scheduled" ELSE "sent"
RecoveredStatus == IF batch = NONE THEN "sent" ELSE "scheduled"

DeleteGateFault == batch = NONE
DeleteGate == status = "draft"

(* Trigger reject_armed_scheduled_mutation: a statement that does not set  *)
(* app.allow_armed_mutation may not touch a row with a batch.              *)
Unarmed == batch = NONE

-----------------------------------------------------------------------------
(* A send or schedule request.                                             *)

Answered(s) == \A r \in Recipients : mail[s][r] # "todo"
Nobody(s)   == \A r \in Recipients : mail[s][r] = "none"

(* Nothing was accepted and nothing is ambiguous: fanOut's sent and        *)
(* unknown counters are both zero.                                         *)
AllRejectedFault(s) == \A r \in Recipients : mail[s][r] # "sent"
AllRejected(s) == \A r \in Recipients : mail[s][r] \in {"none", "failed"}

(* SendNewsletter reads the row, refuses anything but a draft, resolves    *)
(* the audience and renders the letter from what it read.  A schedule      *)
(* needs the provider's support.                                           *)
ReadDraft(s, schedule, audience) ==
    /\ pc[s] = "idle"
    /\ status = "draft"
    /\ schedule => CanSchedule
    /\ pc' = [pc EXCEPT ![s] = "read"]
    /\ armed' = [armed EXCEPT ![s] = schedule]
    /\ seen' = [seen EXCEPT ![s] = version]
    /\ letter' = [letter EXCEPT ![s] = content]
    /\ mail' = [mail EXCEPT ![s] =
                  [r \in Recipients |-> IF r \in audience THEN "todo" ELSE "none"]]
    /\ UNCHANGED <<rowVars, cancelVars, editVars, outside, usurped>>

(* MarkSending: the duplicate-send guard.  group_id, and for a schedule    *)
(* batch_id and scheduled_at, are written by the same UPDATE.  The job     *)
(* keeps the version the UPDATE returned.                                  *)
Claim(s) ==
    /\ pc[s] = "read"
    /\ ClaimGate(seen[s])
    /\ armed[s] \/ Unarmed
    /\ status' = "sending"
    /\ version' = version + 1
    /\ group' = s
    /\ batch' = IF armed[s] THEN s ELSE batch
    /\ timed' = (armed[s] \/ timed)
    /\ pc' = [pc EXCEPT ![s] = "fanout"]
    /\ seen' = [seen EXCEPT ![s] = version + 1]
    /\ UNCHANGED <<content, armed, letter, mail, cancelVars, editVars, outside, usurped>>

(* One worker of fanOut: the provider accepts the message, rejects it for  *)
(* certain, or gives no answer (port.ErrAmbiguousSend).  A recipient that  *)
(* never got a worker slot before the job's deadline counts as rejected.   *)
Dispatch(s, r, reply) ==
    /\ pc[s] = "fanout"
    /\ mail[s][r] = "todo"
    /\ mail' = [mail EXCEPT ![s][r] = reply]
    /\ accepted' = IF reply = "sent" THEN [accepted EXCEPT ![s] = @ \cup {r}] ELSE accepted
    /\ UNCHANGED <<rowVars, pc, armed, seen, letter, cancelVars, editVars, cancelled, purged, usurped>>

(* A message without an answer reaches the provider after all, perhaps     *)
(* long after the job gave up on it.                                       *)
AcceptUnanswered(s, r) ==
    /\ mail[s][r] = "unknown"
    /\ accepted' = [accepted EXCEPT ![s] = @ \cup {r}]
    /\ UNCHANGED <<rowVars, sendVars, cancelVars, editVars, cancelled, purged, usurped>>

(* runSendJob settles: scheduled when this request armed a schedule, sent  *)
(* otherwise.  An empty audience is settled sent inside the request,       *)
(* whether or not it armed a schedule.                                     *)
MarkScheduled(s) ==
    /\ pc[s] = "fanout" /\ Answered(s) /\ ~AllRejected(s)
    /\ armed[s]
    /\ SettleGate(seen[s])
    /\ status' = "scheduled"
    /\ version' = version + 1
    /\ pc' = [pc EXCEPT ![s] = "done"]
    /\ UNCHANGED <<group, batch, timed, content, armed, seen, letter, mail>>
    /\ UNCHANGED <<cancelVars, editVars, outside, usurped>>

MarkSent(s) ==
    /\ pc[s] = "fanout" /\ Answered(s)
    /\ Nobody(s) \/ (~armed[s] /\ ~AllRejected(s))
    /\ SettleGate(seen[s])
    /\ status' = "sent"
    /\ version' = version + 1
    /\ pc' = [pc EXCEPT ![s] = "done"]
    /\ UNCHANGED <<group, batch, timed, content, armed, seen, letter, mail>>
    /\ UNCHANGED <<cancelVars, editVars, outside, usurped>>

(* Every recipient was rejected: RevertSending returns the row to draft.   *)
(* Its UPDATE is gated on the status alone, so it undoes whichever claim   *)
(* the row carries; usurped records the ones that were not the job's own.  *)
RevertGateFault == TRUE
RevertGate == status = "sending"

RevertSending(s) ==
    /\ pc[s] = "fanout" /\ Answered(s) /\ AllRejected(s) /\ ~Nobody(s)
    /\ RevertGate
    /\ status' = "draft"
    /\ version' = version + 1
    /\ group' = NONE /\ batch' = NONE
    /\ usurped' = usurped \cup ({group} \ {s})
    /\ pc' = [pc EXCEPT ![s] = "cleanup"]
    /\ UNCHANGED <<timed, content, armed, seen, letter, mail, cancelVars, editVars, outside>>

(* After a revert: cancel the batch if there is one, then delete the       *)
(* group's engagement.  Each call may fail, and is only logged.            *)
Cleanup(s, cancels, purges) ==
    /\ pc[s] = "cleanup"
    /\ cancels => armed[s]
    /\ purges => CanSchedule
    /\ cancelled' = IF cancels THEN cancelled \cup {s} ELSE cancelled
    /\ purged' = IF purges THEN purged \cup {s} ELSE purged
    /\ pc' = [pc EXCEPT ![s] = "done"]
    /\ UNCHANGED <<rowVars, armed, seen, letter, mail, cancelVars, editVars, accepted, usurped>>

(* The request returns an error, an UPDATE misses its row or fails, or the *)
(* pod dies: the request or job ends where it is and nothing is undone.    *)
GiveUp(s) ==
    /\ pc[s] \in {"read", "fanout", "cleanup"}
    /\ pc' = [pc EXCEPT ![s] = "done"]
    /\ UNCHANGED <<rowVars, armed, seen, letter, mail, cancelVars, editVars, outside, usurped>>

-----------------------------------------------------------------------------
(* A cancel-schedule request.                                              *)

(* CancelScheduled reads an armed row, scheduled or still sending.         *)
ReadArmed(c) ==
    /\ cpc[c] = "idle"
    /\ status \in {"scheduled", "sending"}
    /\ batch # NONE
    /\ cpc' = [cpc EXCEPT ![c] = "read"]
    /\ target' = [target EXCEPT ![c] = batch]
    /\ UNCHANGED <<rowVars, sendVars, editVars, outside, usurped>>

(* The provider is asked first.  A call that reports an error ends the     *)
(* request, although the cancellation may have taken effect.               *)
CancelBatch(c) ==
    /\ cpc[c] = "read"
    /\ cancelled' = cancelled \cup {target[c]}
    /\ \E next \in {"revert", "done"} : cpc' = [cpc EXCEPT ![c] = next]
    /\ UNCHANGED <<rowVars, sendVars, target, editVars, accepted, purged, usurped>>

(* RevertScheduled: gated on the batch that was cancelled, not on the      *)
(* version, and keeps scheduled_at.                                        *)
RevertScheduled(c) ==
    /\ cpc[c] = "revert"
    /\ CancelGate(target[c])
    /\ status' = "draft"
    /\ version' = version + 1
    /\ group' = NONE /\ batch' = NONE
    /\ cpc' = [cpc EXCEPT ![c] = "purge"]
    /\ UNCHANGED <<timed, content, sendVars, target, editVars, outside, usurped>>

PurgeCancelled(c) ==
    /\ cpc[c] = "purge"
    /\ purged' = purged \cup {target[c]}
    /\ cpc' = [cpc EXCEPT ![c] = "done"]
    /\ UNCHANGED <<rowVars, sendVars, target, editVars, accepted, cancelled, usurped>>

GiveUpCancel(c) ==
    /\ cpc[c] \in {"read", "revert", "purge"}
    /\ cpc' = [cpc EXCEPT ![c] = "done"]
    /\ UNCHANGED <<rowVars, sendVars, target, editVars, outside, usurped>>

-----------------------------------------------------------------------------
(* An edit: the client fetches the newsletter and later sends the version  *)
(* it saw as If-Match.                                                     *)

FetchForEdit(e) ==
    /\ epc[e] = "idle"
    /\ status # "gone"
    /\ epc' = [epc EXCEPT ![e] = "fetched"]
    /\ base' = [base EXCEPT ![e] = version]
    /\ UNCHANGED <<rowVars, sendVars, cancelVars, outside, usurped>>

(* UpdateDraft's own read and its status checks. *)
ReadForEdit(e) ==
    /\ epc[e] = "fetched"
    /\ status = "draft"
    /\ epc' = [epc EXCEPT ![e] = "read"]
    /\ UNCHANGED <<rowVars, sendVars, cancelVars, base, outside, usurped>>

(* The repository's read that refuses an armed row. *)
CheckUnarmed(e) ==
    /\ epc[e] = "read"
    /\ batch = NONE
    /\ epc' = [epc EXCEPT ![e] = "checked"]
    /\ UNCHANGED <<rowVars, sendVars, cancelVars, base, outside, usurped>>

(* The UPDATE: gated on the version, and by the trigger.  scheduled_at is  *)
(* replaced by what the request carried.                                   *)
CommitEdit(e, withTime) ==
    /\ epc[e] = "checked"
    /\ status # "gone"
    /\ EditGate(base[e])
    /\ Unarmed
    /\ content' = e
    /\ timed' = withTime
    /\ version' = version + 1
    /\ epc' = [epc EXCEPT ![e] = "done"]
    /\ UNCHANGED <<status, group, batch, sendVars, cancelVars, base, outside, usurped>>

(* DeleteDraft: the DELETE repeats the status check of the read before it. *)
DeleteDraft ==
    /\ status # "gone"
    /\ DeleteGate
    /\ Unarmed
    /\ status' = "gone"
    /\ UNCHANGED <<version, group, batch, timed, content>>
    /\ UNCHANGED <<sendVars, cancelVars, editVars, outside, usurped>>

-----------------------------------------------------------------------------
(* The sweep every replica runs at start-up and every five minutes.        *)

RecoverStuckSending ==
    /\ RecoverGate
    /\ status' = RecoveredStatus
    /\ version' = version + 1
    /\ UNCHANGED <<group, batch, timed, content>>
    /\ UNCHANGED <<sendVars, cancelVars, editVars, outside, usurped>>

SettleDueScheduled ==
    /\ status = "scheduled" /\ timed
    /\ status' = "sent"
    /\ version' = version + 1
    /\ UNCHANGED <<group, batch, timed, content>>
    /\ UNCHANGED <<sendVars, cancelVars, editVars, outside, usurped>>

-----------------------------------------------------------------------------
SendStep(s) ==
    \/ \E schedule \in BOOLEAN, audience \in SUBSET Recipients :
          ReadDraft(s, schedule, audience)
    \/ Claim(s)
    \/ \E r \in Recipients, reply \in {"sent", "failed", "unknown"} : Dispatch(s, r, reply)
    \/ \E r \in Recipients : AcceptUnanswered(s, r)
    \/ MarkScheduled(s)
    \/ MarkSent(s)
    \/ RevertSending(s)
    \/ \E cancels, purges \in BOOLEAN : Cleanup(s, cancels, purges)
    \/ GiveUp(s)

CancelStep(c) ==
    \/ ReadArmed(c)
    \/ CancelBatch(c)
    \/ RevertScheduled(c)
    \/ PurgeCancelled(c)
    \/ GiveUpCancel(c)

EditStep(e) ==
    \/ FetchForEdit(e)
    \/ ReadForEdit(e)
    \/ CheckUnarmed(e)
    \/ \E withTime \in BOOLEAN : CommitEdit(e, withTime)

Next ==
    \/ \E s \in Sends : SendStep(s)
    \/ \E c \in Cancels : CancelStep(c)
    \/ \E e \in Edits : EditStep(e)
    \/ DeleteDraft
    \/ RecoverStuckSending
    \/ SettleDueScheduled

Spec == Init /\ [][Next]_vars

(* Only the sweep is owed progress: it runs again after every restart,     *)
(* while a request, a job or a provider call may be lost for ever.         *)
SweptSpec == Spec /\ WF_vars(RecoverStuckSending) /\ WF_vars(SettleDueScheduled)

-----------------------------------------------------------------------------
(* What the lifecycle promises.                                            *)

(* The message of send s to r has reached, or will reach, r: the provider  *)
(* took it and its batch was not cancelled.                                *)
Delivered(s, r) == r \in accepted[s] /\ s \notin cancelled
Live(s) == \E r \in Recipients : Delivered(s, r)

(* The CHECK constraints of the newsletters table hold after every UPDATE, *)
(* and a row that is not claimed carries no trace of a send.               *)
ClaimColumns ==
    /\ status \in Claimed <=> group # NONE
    /\ batch # NONE => batch = group /\ timed
    /\ status = "scheduled" => batch # NONE

(* runSendJob and the contract: a newsletter anyone got, or will get, is   *)
(* never a draft that can be edited, deleted and sent again.               *)
DeliveredNeverDraft ==
    \A s \in Sends : Live(s) => group = s /\ status \in Claimed

(* Nobody gets two copies of one newsletter, whatever retries, replicas,   *)
(* crashes and unanswered provider calls did.                              *)
AtMostOneCopy ==
    \A s, t \in Sends, r \in Recipients :
        Delivered(s, r) /\ Delivered(t, r) => s = t

(* SendNewsletter's duplicate-send guard: once a claim succeeded, no other *)
(* request's fan-out runs for this newsletter.                             *)
OneFanOut ==
    \A s, t \in Sends : pc[s] = "fanout" /\ pc[t] = "fanout" => s = t

(* With scheduling the last promises hold but for one cause: a job that    *)
(* outlived its cancelled claim and reverted a later one.                  *)
OnlyStaleRevertStrands ==
    \A s \in Sends : Live(s) /\ s \notin usurped => group = s /\ status \in Claimed

OnlyStaleRevertDuplicates ==
    \A s, t \in Sends, r \in Recipients :
        Delivered(s, r) /\ Delivered(t, r) => s = t \/ s \in usurped \/ t \in usurped

(* What the row shows while a send is under way and ever after is the      *)
(* letter that send rendered: no edit lands between the read, the claim    *)
(* and the fan-out.                                                        *)
StoredIsMailed == status \in Claimed => content = letter[group]

(* Deleting engagement after a revert or a cancel never loses the figures  *)
(* of mail somebody received, nor of the send the row carries.             *)
PurgedIsDead == \A s \in purged : ~Live(s) /\ group # s

(* A sent newsletter stays sent, with the same content and engagement.     *)
SentIsFinal ==
    [][status = "sent" => status' = "sent" /\ group' = group /\ content' = content]_vars

(* A job's terminal UPDATE settles the claim the job made, never a later   *)
(* claim of the same row.                                                  *)
JobSettlesOwnClaim ==
    [][\A s \in Sends : pc[s] = "fanout" /\ pc'[s] = "done" /\ status' # status
                            => group = s]_vars

(* CancelScheduled and the contract: while no cancel is between the        *)
(* provider's answer and the row's update, a scheduled row is truthful,    *)
(* its batch is still armed.                                               *)
TruthfullyScheduled ==
    status = "scheduled" /\ (\A c \in Cancels : cpc[c] # "revert")
        => batch \notin cancelled

(* Whatever crashed, a claimed newsletter is eventually sent or a draft    *)
(* again: none stays in sending or scheduled.                              *)
EveryClaimSettles ==
    status \in {"sending", "scheduled"} ~> status \in {"sent", "draft", "gone"}

(* The service seen from outside.                                          *)
Phase == IF status \in {"sending", "scheduled"} THEN "out" ELSE status
Copies == {copy \in Recipients \X (Edits \cup {NONE}) :
              \E s \in Sends : Delivered(s, copy[1]) /\ copy[2] = letter[s]}

Promise == INSTANCE NewsletterPromise WITH
    Letters <- Edits \cup {NONE}, phase <- Phase, stored <- content, inbox <- Copies

(* Without scheduling, the lifecycle implements the promise.               *)
ImplementsPromise == Promise!Spec

(* The row, whatever requests, jobs and sweeps interleave, goes only where *)
(* NewsletterRow, and with it the other components, expect it to go.       *)
TheRow == INSTANCE NewsletterRow WITH
    Batches <- Sends, Contents <- Edits \cup {NONE}, NoBatch <- NONE,
    spent <- {s \in Sends : pc[s] \notin {"idle", "read"}}

KeepsRow == TheRow!Spec
=============================================================================
