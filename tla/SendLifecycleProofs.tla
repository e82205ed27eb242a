------------------------ MODULE SendLifecycleProofs ------------------------
(***************************************************************************)
(* The lifecycle, for every number of requests and recipients.             *)
(*                                                                         *)
(* The argument: a send whose mail the provider may hold keeps the row     *)
(* (Holding) until its batch is cancelled or another job's revert takes    *)
(* the row away.  That rests on the optimistic lock (a job whose version   *)
(* is current owns the claim, a reader whose version is current read what  *)
(* is stored: Locking) and on the order of a cancel (provider before row:  *)
(* Cancelling).                                                            *)
(*                                                                         *)
(* The last sections leave the row: the sweep settles every claim, each    *)
(* send keeps FanOutPromise, and the reports of a newsletter lose nothing  *)
(* by the purges of others.                                                *)
(***************************************************************************)
EXTENDS SendLifecycle, TLAPS

(* Some message of s was, or may have been, taken by the provider. *)
Possible(s) == \E r \in Recipients : mail[s][r] \in {"sent", "unknown"}

(* group_id and batch_id follow the status and the claiming request. *)
Columns ==
    /\ status \in Claimed <=> group # NONE
    /\ group = NONE => batch = NONE
    /\ group # NONE =>
          /\ batch = IF armed[group] THEN group ELSE NONE
          /\ armed[group] => timed
          /\ pc[group] \in {"fanout", "done"}
    /\ status = "scheduled" => batch # NONE

(* What holding the row's current version tells a request. *)
Locking ==
    /\ \A s \in Sends :
          /\ seen[s] <= version
          /\ pc[s] = "read" /\ seen[s] = version
                => letter[s] = content /\ status \in {"draft", "gone"}
          /\ pc[s] = "fanout" /\ seen[s] = version
                => group = s /\ status = "sending"
    /\ \A e \in Edits :
          /\ base[e] <= version
          /\ epc[e] \in {"read", "checked"} /\ base[e] = version
                => status \in {"draft", "gone"}

Stored == group # NONE => content = letter[group]

(* The provider holds nothing a job has not counted as sent or unknown. *)
Ledger ==
    \A s \in Sends : \A r \in Recipients :
        /\ r \in accepted[s] => mail[s][r] \in {"sent", "unknown"}
        /\ pc[s] \in {"idle", "read"} => mail[s][r] \in {"none", "todo"}

Started(s) == pc[s] \notin {"idle", "read"}

Cancelling ==
    /\ \A c \in Cancels : cpc[c] # "idle" =>
          target[c] # NONE /\ armed[target[c]] /\ Started(target[c])
    /\ \A c \in Cancels : cpc[c] \in {"revert", "purge"} => target[c] \in cancelled
    /\ \A c \in Cancels : cpc[c] = "purge" => group # target[c]
    /\ \A s \in cancelled : armed[s] /\ Started(s)

Purging ==
    /\ \A s \in Sends : pc[s] = "cleanup" => AllRejected(s) /\ group # s
    /\ \A s \in purged :
          /\ group # s
          /\ s \in cancelled \/ (AllRejected(s) /\ pc[s] = "done")
          /\ Started(s)

Holding ==
    \A s \in Sends :
        (pc[s] = "fanout" \/ Possible(s)) /\ s \notin usurped \cup cancelled => group = s

Unscheduled ==
    ~CanSchedule => usurped = {} /\ \A s \in Sends : ~armed[s]

Inv ==
    /\ TypeOK
    /\ Columns
    /\ Locking
    /\ Stored
    /\ Ledger
    /\ Cancelling
    /\ Purging
    /\ Holding
    /\ Unscheduled

(* Every step keeps the invariant: one lemma per action, one step in it    *)
(* per part the action can disturb.                                        *)

USE DEF rowVars, sendVars, cancelVars, editVars, outside

(* A request reads the draft: nothing of it is in flight yet.              *)
LEMMA ReadDraftKeeps ==
  ASSUME Inv, NEW s \in Sends, NEW schedule \in BOOLEAN, NEW audience \in SUBSET Recipients,
         ReadDraft(s, schedule, audience)
  PROVE  Inv'
<1>1. TypeOK'
  BY SMT DEF Inv, TypeOK, Outcomes, ReadDraft
<1>2. Columns'
  BY SMT DEF Inv, Columns, ReadDraft
<1>3. Locking'
  BY SMT DEF Inv, TypeOK, Locking, ReadDraft
<1>4. Stored'
  BY SMT DEF Inv, Stored, ReadDraft
<1>5. Ledger'
  BY SMT DEF Inv, Ledger, ReadDraft
<1>6. Cancelling'
  BY SMT DEF Inv, Cancelling, Started, ReadDraft
<1>7. Purging'
  BY SMT DEF Inv, Purging, Started, AllRejected, ReadDraft
<1>8. Holding'
  BY SMT DEF Inv, Holding, Possible, ReadDraft
<1>9. Unscheduled'
  BY SMT DEF Inv, Unscheduled, ReadDraft
<1> QED
  BY <1>1, <1>2, <1>3, <1>4, <1>5, <1>6, <1>7, <1>8, <1>9 DEF Inv

(* The claim finds the version it read, so no other send holds the row.    *)
LEMMA ClaimKeeps ==
  ASSUME Inv, NEW s \in Sends,
         Claim(s)
  PROVE  Inv'
<1>1. TypeOK'
  BY SMT DEF Inv, TypeOK, Statuses, Claim
<1>2. Unscheduled'
  BY SMT DEF Inv, Unscheduled, Claim
<1>3. Columns'
  BY NoneAssumption, SMT DEF Inv, TypeOK, Columns, Claimed, Claim, ClaimGate
<1>4. Locking'
  BY SMT DEF Inv, TypeOK, Locking, Claim
<1>5. Stored'
  BY SMT DEF Inv, Stored, Locking, Claim, ClaimGate
<1>6. Ledger'
  BY SMT DEF Inv, Ledger, Claim
<1>7. Cancelling'
  BY SMT DEF Inv, Cancelling, Started, Claim
<1>8. Purging'
  BY SMT DEF Inv, Purging, Started, AllRejected, Claim
<1>9. Holding'
  BY NoneAssumption, SMT DEF Inv, Holding, Columns, Possible, Claimed, Claim, ClaimGate
<1> QED
  BY <1>1, <1>2, <1>3, <1>4, <1>5, <1>6, <1>7, <1>8, <1>9 DEF Inv

(* A message is answered while its job runs.                               *)
LEMMA DispatchKeeps ==
  ASSUME Inv, NEW s \in Sends, NEW r \in Recipients, NEW reply \in {"sent", "failed", "unknown"},
         Dispatch(s, r, reply)
  PROVE  Inv'
<1>1. TypeOK'
  BY SMT DEF Inv, TypeOK, Outcomes, Dispatch
<1>2. Columns' /\ Locking' /\ Stored' /\ Cancelling' /\ Unscheduled'
  BY SMT DEF Inv, Columns, Locking, Stored, Cancelling, Unscheduled, Started, Dispatch
<1>3. Ledger'
  BY SMT DEF Inv, TypeOK, Ledger, Dispatch
<1>4. Purging'
  BY SMT DEF Inv, Purging, Started, AllRejected, Dispatch
<1>5. Holding'
  BY SMT DEF Inv, Holding, Possible, Dispatch
<1> QED
  BY <1>1, <1>2, <1>3, <1>4, <1>5 DEF Inv

(* An unanswered message was already counted as possible mail.             *)
LEMMA AcceptUnansweredKeeps ==
  ASSUME Inv, NEW s \in Sends, NEW r \in Recipients,
         AcceptUnanswered(s, r)
  PROVE  Inv'
<1>1. TypeOK'
  BY SMT DEF Inv, TypeOK, AcceptUnanswered
<1>2. Columns' /\ Locking' /\ Stored' /\ Cancelling' /\ Purging' /\ Holding' /\ Unscheduled'
  BY SMT DEF Inv, Columns, Locking, Stored, Cancelling, Purging, Holding, Unscheduled, Started, AllRejected, Possible, AcceptUnanswered
<1>3. Ledger'
  BY SMT DEF Inv, Ledger, AcceptUnanswered
<1> QED
  BY <1>1, <1>2, <1>3 DEF Inv

(* A job settles: its version is current, so the claim is its own.         *)
LEMMA MarkScheduledKeeps ==
  ASSUME Inv, NEW s \in Sends,
         MarkScheduled(s)
  PROVE  Inv'
<1>1. TypeOK'
  BY SMT DEF Inv, TypeOK, Statuses, MarkScheduled
<1>2. Stored' /\ Unscheduled'
  BY SMT DEF Inv, Stored, Unscheduled, MarkScheduled
<1>3. Columns'
  BY SMT DEF Inv, Columns, Locking, Claimed, MarkScheduled, SettleGate
<1>4. Locking'
  BY SMT DEF Inv, TypeOK, Locking, MarkScheduled
<1>5. Ledger'
  BY SMT DEF Inv, Ledger, MarkScheduled
<1>6. Cancelling'
  BY SMT DEF Inv, Cancelling, Started, MarkScheduled
<1>7. Purging'
  BY SMT DEF Inv, Purging, Started, AllRejected, MarkScheduled
<1>8. Holding'
  BY SMT DEF Inv, Holding, Possible, MarkScheduled
<1> QED
  BY <1>1, <1>2, <1>3, <1>4, <1>5, <1>6, <1>7, <1>8 DEF Inv

LEMMA MarkSentKeeps ==
  ASSUME Inv, NEW s \in Sends,
         MarkSent(s)
  PROVE  Inv'
<1>1. TypeOK'
  BY SMT DEF Inv, TypeOK, Statuses, MarkSent
<1>2. Stored' /\ Unscheduled'
  BY SMT DEF Inv, Stored, Unscheduled, MarkSent
<1>3. Columns'
  BY SMT DEF Inv, Columns, Claimed, MarkSent, SettleGate
<1>4. Locking'
  BY SMT DEF Inv, TypeOK, Locking, MarkSent
<1>5. Ledger'
  BY SMT DEF Inv, Ledger, MarkSent
<1>6. Cancelling'
  BY SMT DEF Inv, Cancelling, Started, MarkSent
<1>7. Purging'
  BY SMT DEF Inv, Purging, Started, AllRejected, MarkSent
<1>8. Holding'
  BY SMT DEF Inv, Holding, Possible, MarkSent
<1> QED
  BY <1>1, <1>2, <1>3, <1>4, <1>5, <1>6, <1>7, <1>8 DEF Inv

(* A revert frees the row; a claim it undoes is its own or usurped.        *)
LEMMA RevertSendingKeeps ==
  ASSUME Inv, NEW s \in Sends,
         RevertSending(s)
  PROVE  Inv'
<1>1. TypeOK'
  BY SMT DEF Inv, TypeOK, Columns, Claimed, Statuses, RevertSending, RevertGate
<1>2. Columns'
  BY SMT DEF Columns, Claimed, RevertSending
<1>3. Locking'
  BY SMT DEF Inv, TypeOK, Locking, RevertSending
<1>4. Stored'
  BY SMT DEF Stored, RevertSending
<1>5. Ledger'
  BY SMT DEF Inv, Ledger, RevertSending
<1>6. Cancelling'
  BY SMT DEF Inv, Cancelling, Started, RevertSending
<1>7. Purging'
  BY NoneAssumption, SMT DEF Inv, TypeOK, Purging, Started, AllRejected, RevertSending
<1>8. Holding'
  BY NoneAssumption, SMT DEF Inv, TypeOK, Holding, Possible, AllRejected, RevertSending
<1>9. Unscheduled'
  BY SMT DEF Inv, Unscheduled, Cancelling, Holding, RevertSending
<1> QED
  BY <1>1, <1>2, <1>3, <1>4, <1>5, <1>6, <1>7, <1>8, <1>9 DEF Inv

LEMMA CleanupKeeps ==
  ASSUME Inv, NEW s \in Sends, NEW cancels \in BOOLEAN, NEW purges \in BOOLEAN,
         Cleanup(s, cancels, purges)
  PROVE  Inv'
<1>1. TypeOK'
  BY SMT DEF Inv, TypeOK, Cleanup
<1>2. Stored' /\ Unscheduled'
  BY SMT DEF Inv, Stored, Unscheduled, Cleanup
<1>3. Columns'
  BY SMT DEF Inv, Columns, Cleanup
<1>4. Locking'
  BY SMT DEF Inv, Locking, Cleanup
<1>5. Ledger'
  BY SMT DEF Inv, Ledger, Cleanup
<1>6. Cancelling'
  BY SMT DEF Inv, Cancelling, Started, Cleanup
<1>7. Purging'
  BY SMT DEF Inv, TypeOK, Purging, Started, AllRejected, Cleanup
<1>8. Holding'
  BY SMT DEF Inv, Holding, Possible, Cleanup
<1> QED
  BY <1>1, <1>2, <1>3, <1>4, <1>5, <1>6, <1>7, <1>8 DEF Inv

LEMMA GiveUpKeeps ==
  ASSUME Inv, NEW s \in Sends,
         GiveUp(s)
  PROVE  Inv'
<1>1. TypeOK'
  BY SMT DEF Inv, TypeOK, GiveUp
<1>2. Stored' /\ Unscheduled'
  BY SMT DEF Inv, Stored, Unscheduled, GiveUp
<1>3. Columns'
  BY SMT DEF Inv, Columns, GiveUp
<1>4. Locking'
  BY SMT DEF Inv, Locking, GiveUp
<1>5. Ledger'
  BY SMT DEF Inv, Ledger, GiveUp
<1>6. Cancelling'
  BY SMT DEF Inv, Cancelling, Started, GiveUp
<1>7. Purging'
  BY SMT DEF Inv, Purging, Started, AllRejected, GiveUp
<1>8. Holding'
  BY SMT DEF Inv, Holding, Possible, GiveUp
<1> QED
  BY <1>1, <1>2, <1>3, <1>4, <1>5, <1>6, <1>7, <1>8 DEF Inv

LEMMA ReadArmedKeeps ==
  ASSUME Inv, NEW c \in Cancels,
         ReadArmed(c)
  PROVE  Inv'
<1>1. TypeOK'
  BY SMT DEF Inv, TypeOK, ReadArmed
<1>2. Columns' /\ Locking' /\ Stored' /\ Ledger' /\ Purging' /\ Holding' /\ Unscheduled'
  BY SMT DEF Inv, Columns, Locking, Stored, Ledger, Purging, Holding, Unscheduled, Started, AllRejected, Possible, ReadArmed
<1>3. Cancelling'
  BY SMT DEF Inv, TypeOK, Cancelling, Columns, Started, ReadArmed
<1> QED
  BY <1>1, <1>2, <1>3 DEF Inv

LEMMA CancelBatchKeeps ==
  ASSUME Inv, NEW c \in Cancels,
         CancelBatch(c)
  PROVE  Inv'
<1>1. TypeOK'
  BY SMT DEF Inv, TypeOK, Cancelling, CancelBatch
<1>2. Columns' /\ Locking' /\ Stored' /\ Ledger' /\ Unscheduled'
  BY SMT DEF Inv, Columns, Locking, Stored, Ledger, Unscheduled, CancelBatch
<1>3. Cancelling'
  BY SMT DEF Inv, Cancelling, Started, CancelBatch
<1>4. Purging'
  BY SMT DEF Inv, Purging, Started, AllRejected, CancelBatch
<1>5. Holding'
  BY SMT DEF Inv, Holding, Possible, CancelBatch
<1> QED
  BY <1>1, <1>2, <1>3, <1>4, <1>5 DEF Inv

(* The row's batch is the cancelled one, so its send is not live.          *)
LEMMA RevertScheduledKeeps ==
  ASSUME Inv, NEW c \in Cancels,
         RevertScheduled(c)
  PROVE  Inv'
<1>1. TypeOK'
  BY SMT DEF Inv, TypeOK, Statuses, RevertScheduled
<1>2. Ledger' /\ Unscheduled'
  BY SMT DEF Inv, Ledger, Unscheduled, RevertScheduled
<1>3. Columns'
  BY SMT DEF Columns, Claimed, RevertScheduled
<1>4. Locking'
  BY SMT DEF Inv, TypeOK, Locking, RevertScheduled
<1>5. Stored'
  BY SMT DEF Stored, RevertScheduled
<1>6. Cancelling'
  BY SMT DEF Inv, Cancelling, Started, RevertScheduled
<1>7. Purging'
  BY NoneAssumption, SMT DEF Inv, TypeOK, Purging, Started, AllRejected, RevertScheduled
<1>8. Holding'
  BY SMT DEF Inv, Holding, Columns, Cancelling, Possible, RevertScheduled, CancelGate
<1> QED
  BY <1>1, <1>2, <1>3, <1>4, <1>5, <1>6, <1>7, <1>8 DEF Inv

LEMMA PurgeCancelledKeeps ==
  ASSUME Inv, NEW c \in Cancels,
         PurgeCancelled(c)
  PROVE  Inv'
<1>1. TypeOK'
  BY SMT DEF Inv, TypeOK, Cancelling, PurgeCancelled
<1>2. Columns' /\ Locking' /\ Stored' /\ Ledger' /\ Holding' /\ Unscheduled'
  BY SMT DEF Inv, Columns, Locking, Stored, Ledger, Holding, Unscheduled, Possible, PurgeCancelled
<1>3. Cancelling'
  BY SMT DEF Inv, Cancelling, Started, PurgeCancelled
<1>4. Purging'
  BY SMT DEF Inv, Purging, Cancelling, Started, AllRejected, PurgeCancelled
<1> QED
  BY <1>1, <1>2, <1>3, <1>4 DEF Inv

LEMMA GiveUpCancelKeeps ==
  ASSUME Inv, NEW c \in Cancels,
         GiveUpCancel(c)
  PROVE  Inv'
<1>1. TypeOK'
  BY SMT DEF Inv, TypeOK, GiveUpCancel
<1>2. Columns' /\ Locking' /\ Stored' /\ Ledger' /\ Purging' /\ Holding' /\ Unscheduled'
  BY SMT DEF Inv, Columns, Locking, Stored, Ledger, Purging, Holding, Unscheduled, Started, AllRejected, Possible, GiveUpCancel
<1>3. Cancelling'
  BY SMT DEF Inv, Cancelling, Started, GiveUpCancel
<1> QED
  BY <1>1, <1>2, <1>3 DEF Inv

LEMMA FetchForEditKeeps ==
  ASSUME Inv, NEW e \in Edits,
         FetchForEdit(e)
  PROVE  Inv'
<1>1. TypeOK'
  BY SMT DEF Inv, TypeOK, FetchForEdit
<1>2. Columns' /\ Stored' /\ Ledger' /\ Cancelling' /\ Purging' /\ Holding' /\ Unscheduled'
  BY SMT DEF Inv, Columns, Stored, Ledger, Cancelling, Purging, Holding, Unscheduled, Started, AllRejected, Possible, FetchForEdit
<1>3. Locking'
  BY SMT DEF Inv, TypeOK, Locking, FetchForEdit
<1> QED
  BY <1>1, <1>2, <1>3 DEF Inv

LEMMA ReadForEditKeeps ==
  ASSUME Inv, NEW e \in Edits,
         ReadForEdit(e)
  PROVE  Inv'
<1>1. TypeOK'
  BY SMT DEF Inv, TypeOK, ReadForEdit
<1>2. Columns' /\ Stored' /\ Ledger' /\ Cancelling' /\ Purging' /\ Holding' /\ Unscheduled'
  BY SMT DEF Inv, Columns, Stored, Ledger, Cancelling, Purging, Holding, Unscheduled, Started, AllRejected, Possible, ReadForEdit
<1>3. Locking'
  BY SMT DEF Inv, Locking, ReadForEdit
<1> QED
  BY <1>1, <1>2, <1>3 DEF Inv

LEMMA CheckUnarmedKeeps ==
  ASSUME Inv, NEW e \in Edits,
         CheckUnarmed(e)
  PROVE  Inv'
<1>1. TypeOK'
  BY SMT DEF Inv, TypeOK, CheckUnarmed
<1>2. Columns' /\ Stored' /\ Ledger' /\ Cancelling' /\ Purging' /\ Holding' /\ Unscheduled'
  BY SMT DEF Inv, Columns, Stored, Ledger, Cancelling, Purging, Holding, Unscheduled, Started, AllRejected, Possible, CheckUnarmed
<1>3. Locking'
  BY SMT DEF Inv, Locking, CheckUnarmed
<1> QED
  BY <1>1, <1>2, <1>3 DEF Inv

(* An edit that commits has the version of a draft.                        *)
LEMMA CommitEditKeeps ==
  ASSUME Inv, NEW e \in Edits, NEW withTime \in BOOLEAN,
         CommitEdit(e, withTime)
  PROVE  Inv'
<1>1. TypeOK'
  BY SMT DEF Inv, TypeOK, CommitEdit
<1>2. Ledger' /\ Cancelling' /\ Purging' /\ Holding' /\ Unscheduled'
  BY SMT DEF Inv, Ledger, Cancelling, Purging, Holding, Unscheduled, Started, AllRejected, Possible, CommitEdit
<1>3. Columns'
  BY SMT DEF Inv, Columns, Locking, Claimed, CommitEdit, EditGate
<1>4. Locking'
  BY SMT DEF Inv, TypeOK, Locking, CommitEdit
<1>5. Stored'
  BY SMT DEF Inv, Stored, Columns, Locking, Claimed, CommitEdit, EditGate
<1> QED
  BY <1>1, <1>2, <1>3, <1>4, <1>5 DEF Inv

LEMMA DeleteDraftKeeps ==
  ASSUME Inv, DeleteDraft
  PROVE  Inv'
<1>1. TypeOK'
  BY SMT DEF Inv, TypeOK, Statuses, DeleteDraft
<1>2. Stored' /\ Ledger' /\ Cancelling' /\ Purging' /\ Holding' /\ Unscheduled'
  BY SMT DEF Inv, Stored, Ledger, Cancelling, Purging, Holding, Unscheduled, Started, AllRejected, Possible, DeleteDraft
<1>3. Columns'
  BY SMT DEF Inv, Columns, Claimed, DeleteDraft, DeleteGate
<1>4. Locking'
  BY SMT DEF Inv, Locking, DeleteDraft, DeleteGate
<1> QED
  BY <1>1, <1>2, <1>3, <1>4 DEF Inv

(* The sweep moves a claimed row to another claimed status.                *)
LEMMA RecoverStuckSendingKeeps ==
  ASSUME Inv, RecoverStuckSending
  PROVE  Inv'
<1>1. TypeOK'
  BY SMT DEF Inv, TypeOK, Statuses, RecoverStuckSending, RecoveredStatus
<1>2. Stored' /\ Ledger' /\ Cancelling' /\ Purging' /\ Holding' /\ Unscheduled'
  BY SMT DEF Inv, Stored, Ledger, Cancelling, Purging, Holding, Unscheduled, Started, AllRejected, Possible, RecoverStuckSending
<1>3. Columns'
  BY SMT DEF Inv, Columns, Claimed, RecoverStuckSending, RecoverGate, RecoveredStatus
<1>4. Locking'
  BY SMT DEF Inv, TypeOK, Locking, RecoverStuckSending
<1> QED
  BY <1>1, <1>2, <1>3, <1>4 DEF Inv

LEMMA SettleDueScheduledKeeps ==
  ASSUME Inv, SettleDueScheduled
  PROVE  Inv'
<1>1. TypeOK'
  BY SMT DEF Inv, TypeOK, Statuses, SettleDueScheduled
<1>2. Stored' /\ Ledger' /\ Cancelling' /\ Purging' /\ Holding' /\ Unscheduled'
  BY SMT DEF Inv, Stored, Ledger, Cancelling, Purging, Holding, Unscheduled, Started, AllRejected, Possible, SettleDueScheduled
<1>3. Columns'
  BY SMT DEF Inv, Columns, Claimed, SettleDueScheduled
<1>4. Locking'
  BY SMT DEF Inv, TypeOK, Locking, SettleDueScheduled
<1> QED
  BY <1>1, <1>2, <1>3, <1>4 DEF Inv

(* Together: the invariant holds at the start and every step keeps it.     *)
LEMMA InitInv == Init => Inv
<1> SUFFICES ASSUME Init PROVE Inv
  OBVIOUS
<1>1. TypeOK
  BY DEF Init, TypeOK, Statuses, Outcomes
<1>2. Columns /\ Locking /\ Stored
  BY NoneAssumption DEF Init, Columns, Locking, Stored, Claimed
<1>3. Ledger /\ Cancelling /\ Purging /\ Holding /\ Unscheduled
  BY DEF Init, Ledger, Cancelling, Purging, Holding, Possible, Unscheduled
<1> QED
  BY <1>1, <1>2, <1>3 DEF Inv

LEMMA NextInv == Inv /\ [Next]_vars => Inv'
<1> SUFFICES ASSUME Inv, [Next]_vars PROVE Inv'
  OBVIOUS
<1>1. ASSUME NEW s \in Sends, SendStep(s) PROVE Inv'
  BY <1>1, ReadDraftKeeps, ClaimKeeps, DispatchKeeps, AcceptUnansweredKeeps, MarkScheduledKeeps,
     MarkSentKeeps, RevertSendingKeeps, CleanupKeeps, GiveUpKeeps DEF SendStep
<1>2. ASSUME NEW c \in Cancels, CancelStep(c) PROVE Inv'
  BY <1>2, ReadArmedKeeps, CancelBatchKeeps, RevertScheduledKeeps, PurgeCancelledKeeps,
     GiveUpCancelKeeps DEF CancelStep
<1>3. ASSUME NEW e \in Edits, EditStep(e) PROVE Inv'
  BY <1>3, FetchForEditKeeps, ReadForEditKeeps, CheckUnarmedKeeps, CommitEditKeeps DEF EditStep
<1>4. CASE UNCHANGED vars
  BY <1>4 DEF vars, Inv, TypeOK, Columns, Locking, Stored, Ledger, Cancelling, Purging, Holding,
     Unscheduled, Started, AllRejected, Possible
<1> QED
  BY <1>1, <1>2, <1>3, <1>4, DeleteDraftKeeps, RecoverStuckSendingKeeps, SettleDueScheduledKeeps
  DEF Next

LEMMA SpecInv == Spec => []Inv
  BY InitInv, NextInv, PTL DEF Spec

-----------------------------------------------------------------------------
(* What follows in every reachable state.                                  *)

LEMMA LivePossible ==
  ASSUME Inv, NEW s \in Sends, Live(s)
  PROVE  Possible(s) /\ s \notin cancelled
  BY DEF Inv, Ledger, Live, Delivered, Possible

LEMMA InvClaimColumns == Inv => ClaimColumns
  BY DEF Inv, TypeOK, Columns, ClaimColumns, Claimed

LEMMA InvStoredIsMailed == Inv => StoredIsMailed
  BY DEF Inv, Columns, Stored, StoredIsMailed

LEMMA InvOnlyStaleRevertStrands == Inv => OnlyStaleRevertStrands
<1> SUFFICES ASSUME Inv, NEW s \in Sends, Live(s), s \notin usurped
             PROVE  group = s /\ status \in Claimed
  BY DEF OnlyStaleRevertStrands
<1>1. group = s
  BY LivePossible DEF Inv, Holding
<1> QED
  BY <1>1, NoneAssumption DEF Inv, Columns

LEMMA InvOnlyStaleRevertDuplicates == Inv => OnlyStaleRevertDuplicates
<1> SUFFICES ASSUME Inv, NEW s \in Sends, NEW t \in Sends, NEW r \in Recipients,
                    Delivered(s, r), Delivered(t, r), s \notin usurped, t \notin usurped
             PROVE  s = t
  BY DEF OnlyStaleRevertDuplicates
<1>1. Live(s) /\ Live(t)
  BY DEF Live
<1>2. group = s /\ group = t
  BY <1>1, InvOnlyStaleRevertStrands DEF OnlyStaleRevertStrands
<1> QED
  BY <1>2

LEMMA InvPurgedIsDead == Inv => PurgedIsDead
<1> SUFFICES ASSUME Inv, NEW s \in purged PROVE ~Live(s) /\ group # s
  BY DEF PurgedIsDead
<1>1. s \in Sends
  BY DEF Inv, TypeOK
<1>2. ~AllRejected(s) \/ ~Possible(s)
  BY <1>1 DEF AllRejected, Possible
<1> QED
  BY <1>1, <1>2, LivePossible DEF Inv, Purging

-----------------------------------------------------------------------------
(* While no cancel request is made, because the provider cannot schedule   *)
(* or because nobody asks, no job is ever stale: the only batches dropped  *)
(* are those that a job drops after it has reverted its own claim.         *)

Uncancelled == ~CanSchedule \/ Cancels = {}

Calm ==
    /\ usurped = {}
    /\ \A s \in cancelled : AllRejected(s) /\ pc[s] = "done" /\ group # s

LEMMA NoCancelStep ==
  ASSUME Inv, Uncancelled, NEW c \in Cancels, CancelStep(c)
  PROVE  FALSE
<1>1. cpc[c] = "idle" /\ batch = NONE
  BY DEF Uncancelled, Inv, TypeOK, Columns, Cancelling, Unscheduled
<1> QED
  BY <1>1 DEF CancelStep, ReadArmed, CancelBatch, RevertScheduled, PurgeCancelled, GiveUpCancel

LEMMA CalmStep ==
  ASSUME Inv, Uncancelled, Calm, [Next]_vars
  PROVE  Calm'
<1>1. ASSUME NEW s \in Sends, SendStep(s) PROVE Calm'
  <2>1. ASSUME NEW schedule \in BOOLEAN, NEW audience \in SUBSET Recipients,
               ReadDraft(s, schedule, audience)
        PROVE  Calm'
    BY <2>1 DEF ReadDraft, Calm, AllRejected, Inv, TypeOK
  <2>2. CASE Claim(s)
    BY <2>2 DEF Claim, Calm, AllRejected, Inv, TypeOK
  <2>3. ASSUME NEW r \in Recipients, NEW reply \in {"sent", "failed", "unknown"},
               Dispatch(s, r, reply)
        PROVE  Calm'
    BY <2>3 DEF Dispatch, Calm, AllRejected, Inv, TypeOK
  <2>4. ASSUME NEW r \in Recipients, AcceptUnanswered(s, r) PROVE Calm'
    BY <2>4 DEF AcceptUnanswered, Calm, AllRejected
  <2>5. CASE MarkScheduled(s)
    BY <2>5 DEF MarkScheduled, Calm, AllRejected, Inv, TypeOK
  <2>6. CASE MarkSent(s)
    BY <2>6 DEF MarkSent, Calm, AllRejected, Inv, TypeOK
  <2>7. CASE RevertSending(s)
    <3>1. s \notin cancelled /\ group = s
      BY <2>7 DEF RevertSending, Calm, Inv, Holding
    <3>2. usurped' = {} /\ cancelled' = cancelled /\ group' = NONE
      BY <2>7, <3>1 DEF RevertSending, Calm
    <3> QED
      BY <2>7, <3>1, <3>2, NoneAssumption DEF RevertSending, Calm, AllRejected, Inv, TypeOK
  <2>8. ASSUME NEW cancels \in BOOLEAN, NEW purges \in BOOLEAN, Cleanup(s, cancels, purges)
        PROVE  Calm'
    BY <2>8 DEF Cleanup, Calm, AllRejected, Inv, TypeOK, Purging
  <2>9. CASE GiveUp(s)
    BY <2>9 DEF GiveUp, Calm, AllRejected, Inv, TypeOK
  <2> QED
    BY <1>1, <2>1, <2>2, <2>3, <2>4, <2>5, <2>6, <2>7, <2>8, <2>9 DEF SendStep
<1>2. ASSUME NEW e \in Edits, EditStep(e) PROVE Calm'
  BY <1>2 DEF EditStep, FetchForEdit, ReadForEdit, CheckUnarmed, CommitEdit, Calm, AllRejected
<1>3. CASE DeleteDraft \/ RecoverStuckSending \/ SettleDueScheduled \/ UNCHANGED vars
  BY <1>3 DEF DeleteDraft, RecoverStuckSending, SettleDueScheduled, vars, Calm, AllRejected
<1> QED
  BY <1>1, <1>2, <1>3, NoCancelStep DEF Next

LEMMA SpecCalm ==
  ASSUME Uncancelled PROVE Spec => [](Inv /\ Calm)
<1>1. Init => Calm
  BY DEF Init, Calm
<1>2. Inv /\ Calm /\ [Next]_vars => Calm'
  BY CalmStep
<1> QED
  BY <1>1, <1>2, SpecInv, PTL DEF Spec

-----------------------------------------------------------------------------
(* The theorems.                                                           *)

(* Every variable keeps its type, whatever interleaves or crashes.         *)
THEOREM TypeCorrect == Spec => []TypeOK
<1>1. Inv => TypeOK
  BY DEF Inv
<1> QED
  BY <1>1, SpecInv, PTL

(* The table's CHECK constraints never fail an UPDATE of the repository.   *)
THEOREM ClaimColumnsHold == Spec => []ClaimColumns
  BY SpecInv, InvClaimColumns, PTL

(* The stored letter is the mailed letter: the optimistic lock closes the  *)
(* window between SendNewsletter's read and its claim, and UpdateDraft's.  *)
THEOREM StoredIsMailedHolds == Spec => []StoredIsMailed
  BY SpecInv, InvStoredIsMailed, PTL

(* PurgeEngagement never deletes the figures of mail somebody received.    *)
THEOREM PurgedIsDeadHolds == Spec => []PurgedIsDead
  BY SpecInv, InvPurgedIsDead, PTL

(* With scheduling, a newsletter people got is back in draft only if a     *)
(* stale job's RevertSending undid its claim.                              *)
THEOREM OnlyStaleRevertStrandsHolds == Spec => []OnlyStaleRevertStrands
  BY SpecInv, InvOnlyStaleRevertStrands, PTL

(* With scheduling, only such a revert leads to a second copy.             *)
THEOREM OnlyStaleRevertDuplicatesHolds == Spec => []OnlyStaleRevertDuplicates
  BY SpecInv, InvOnlyStaleRevertDuplicates, PTL

(* Without a cancel a newsletter people got is never a draft again.        *)
THEOREM DeliveredNeverDraftHolds ==
  ASSUME ~CanSchedule \/ Cancels = {} PROVE Spec => []DeliveredNeverDraft
<1>1. Inv /\ Calm => DeliveredNeverDraft
  BY InvOnlyStaleRevertStrands DEF Calm, OnlyStaleRevertStrands, DeliveredNeverDraft
<1>2. Uncancelled
  BY DEF Uncancelled
<1> QED
  BY <1>1, <1>2, SpecCalm, PTL

(* Without a cancel nobody gets two copies, for any number of requests,    *)
(* replicas, retries and crashes.                                          *)
THEOREM AtMostOneCopyHolds ==
  ASSUME ~CanSchedule \/ Cancels = {} PROVE Spec => []AtMostOneCopy
<1>1. Inv /\ Calm => AtMostOneCopy
  BY InvOnlyStaleRevertDuplicates DEF Calm, OnlyStaleRevertDuplicates, AtMostOneCopy
<1>2. Uncancelled
  BY DEF Uncancelled
<1> QED
  BY <1>1, <1>2, SpecCalm, PTL

(* Without a cancel the claim keeps every other fan-out out.               *)
THEOREM OneFanOutHolds ==
  ASSUME ~CanSchedule \/ Cancels = {} PROVE Spec => []OneFanOut
<1>1. Inv /\ Calm => OneFanOut
  BY DEF Inv, Calm, Holding, OneFanOut
<1>2. Uncancelled
  BY DEF Uncancelled
<1> QED
  BY <1>1, <1>2, SpecCalm, PTL

(* A sent newsletter is never edited, sent again, deleted or given another *)
(* group: an edit or a job that could do it holds an old version.          *)
LEMMA StepSentIsFinal ==
  ASSUME Inv, [Next]_vars, status = "sent"
  PROVE  status' = "sent" /\ group' = group /\ content' = content
<1>1. ASSUME NEW s \in Sends, SendStep(s)
      PROVE  status' = "sent" /\ group' = group /\ content' = content
  BY <1>1 DEF SendStep, ReadDraft, Claim, ClaimGate, Dispatch, AcceptUnanswered, MarkScheduled,
     MarkSent, SettleGate, RevertSending, RevertGate, Cleanup, GiveUp
<1>2. ASSUME NEW c \in Cancels, CancelStep(c)
      PROVE  status' = "sent" /\ group' = group /\ content' = content
  BY <1>2 DEF CancelStep, ReadArmed, CancelBatch, RevertScheduled, CancelGate, PurgeCancelled,
     GiveUpCancel
<1>3. ASSUME NEW e \in Edits, EditStep(e)
      PROVE  status' = "sent" /\ group' = group /\ content' = content
  BY <1>3 DEF EditStep, FetchForEdit, ReadForEdit, CheckUnarmed, CommitEdit, EditGate, Inv, Locking
<1> QED
  BY <1>1, <1>2, <1>3 DEF Next, vars, DeleteDraft, DeleteGate, RecoverStuckSending, RecoverGate,
     SettleDueScheduled

THEOREM SentIsFinalHolds == Spec => SentIsFinal
  BY SpecInv, StepSentIsFinal, PTL DEF Spec, SentIsFinal

(* MarkSent and MarkScheduled never settle a later claim of the row.       *)
LEMMA StepJobSettlesOwnClaim ==
  ASSUME Inv, [Next]_vars, NEW t \in Sends,
         pc[t] = "fanout", pc'[t] = "done", status' # status
  PROVE  group = t
<1>1. ASSUME NEW s \in Sends, SendStep(s) PROVE group = t
  BY <1>1 DEF SendStep, ReadDraft, Claim, Dispatch, AcceptUnanswered, MarkScheduled,
     MarkSent, SettleGate, RevertSending, Cleanup, GiveUp, Inv, TypeOK, Locking
<1> QED
  BY <1>1 DEF Next, vars, CancelStep, ReadArmed, CancelBatch, RevertScheduled, PurgeCancelled,
     GiveUpCancel, EditStep, FetchForEdit, ReadForEdit, CheckUnarmed, CommitEdit, DeleteDraft,
     RecoverStuckSending, SettleDueScheduled

THEOREM JobSettlesOwnClaimHolds == Spec => JobSettlesOwnClaim
<1>1. Inv /\ [Next]_vars =>
        \A s \in Sends : pc[s] = "fanout" /\ pc'[s] = "done" /\ status' # status => group = s
  BY StepJobSettlesOwnClaim
<1> QED
  BY <1>1, SpecInv, PTL DEF Spec, JobSettlesOwnClaim

-----------------------------------------------------------------------------
(* What TruthfullyScheduled leaves of the truth: a claimed row's batch is  *)
(* dropped by a cancel request, one that has yet to revert the row or that *)
(* ended without doing so.  A job's own cleanup never does it.             *)

DroppedByACancel ==
    \A s \in cancelled : group = s =>
        \E c \in Cancels : target[c] = s /\ cpc[c] \in {"revert", "done"}

JobsDropOnlyWhatTheyReverted ==
    [][\A s \in cancelled' \ cancelled : group = s =>
          \E c \in Cancels : CancelBatch(c) /\ target[c] = s]_vars

LEMMA StepDropsByCancel ==
  ASSUME Inv, Next, NEW t \in cancelled' \ cancelled, group = t
  PROVE  \E c \in Cancels : CancelBatch(c) /\ target[c] = t
<1>1. ASSUME NEW s \in Sends, SendStep(s) PROVE FALSE
  <2>1. PICK cancels \in BOOLEAN, purges \in BOOLEAN : Cleanup(s, cancels, purges)
    BY <1>1 DEF SendStep, ReadDraft, Claim, Dispatch, AcceptUnanswered, MarkScheduled, MarkSent,
       RevertSending, GiveUp
  <2> QED
    BY <2>1 DEF Cleanup, Inv, Purging
<1>2. ASSUME NEW c \in Cancels, CancelStep(c) PROVE CancelBatch(c) /\ target[c] = t
  BY <1>2 DEF CancelStep, ReadArmed, CancelBatch, RevertScheduled, PurgeCancelled, GiveUpCancel
<1>3. cancelled' = cancelled \/ (\E s \in Sends : SendStep(s)) \/ (\E c \in Cancels : CancelStep(c))
  BY DEF Next, EditStep, FetchForEdit, ReadForEdit, CheckUnarmed, CommitEdit, DeleteDraft,
     RecoverStuckSending, SettleDueScheduled
<1> QED
  BY <1>1, <1>2, <1>3

(* Only CancelScheduled drops the batch of a row that still carries it.    *)
THEOREM JobsDropOnlyWhatTheyRevertedHolds == Spec => JobsDropOnlyWhatTheyReverted
<1>1. Inv /\ [Next]_vars =>
        [\A s \in cancelled' \ cancelled : group = s =>
            \E c \in Cancels : CancelBatch(c) /\ target[c] = s]_vars
  BY StepDropsByCancel
<1> QED
  BY <1>1, SpecInv, PTL DEF Spec, JobsDropOnlyWhatTheyReverted

(* A cancel that has asked the provider stays where the row can blame it,  *)
(* until it has reverted the row.                                          *)
LEMMA StepDroppedByACancel ==
  ASSUME Inv, DroppedByACancel, [Next]_vars
  PROVE  DroppedByACancel'
<1> SUFFICES ASSUME NEW t \in cancelled', group' = t
             PROVE  \E c \in Cancels : target'[c] = t /\ cpc'[c] \in {"revert", "done"}
  BY DEF DroppedByACancel
<1>1. t \in Sends /\ t # NONE
  BY NextInv, NoneAssumption DEF Inv, TypeOK
<1>2. CASE group # t
  <2>1. PICK s \in Sends : Claim(s) /\ s = t
    BY <1>1, <1>2 DEF Next, vars, SendStep, ReadDraft, Claim, Dispatch, AcceptUnanswered,
       MarkScheduled, MarkSent, RevertSending, Cleanup, GiveUp, CancelStep, ReadArmed, CancelBatch,
       RevertScheduled, PurgeCancelled, GiveUpCancel, EditStep, FetchForEdit, ReadForEdit,
       CheckUnarmed, CommitEdit, DeleteDraft, RecoverStuckSending, SettleDueScheduled
  <2> QED
    BY <2>1 DEF Claim, Inv, Cancelling, Started
<1>3. CASE group = t /\ t \in cancelled
  <2>1. PICK c \in Cancels : target[c] = t /\ cpc[c] \in {"revert", "done"}
    BY <1>3 DEF DroppedByACancel
  <2>2. ASSUME NEW b \in Cancels, CancelStep(b)
        PROVE  target'[c] = t /\ cpc'[c] \in {"revert", "done"}
    BY <1>1, <2>1, <2>2 DEF CancelStep, ReadArmed, CancelBatch, RevertScheduled, PurgeCancelled,
       GiveUpCancel, Inv, TypeOK
  <2>3. ASSUME UNCHANGED cancelVars
        PROVE  target'[c] = t /\ cpc'[c] \in {"revert", "done"}
    BY <2>1, <2>3
  <2>4. UNCHANGED cancelVars \/ \E b \in Cancels : CancelStep(b)
    BY DEF Next, vars, SendStep, ReadDraft, Claim, Dispatch, AcceptUnanswered, MarkScheduled,
       MarkSent, RevertSending, Cleanup, GiveUp, EditStep, FetchForEdit, ReadForEdit,
       CheckUnarmed, CommitEdit, DeleteDraft, RecoverStuckSending, SettleDueScheduled
  <2> QED
    BY <2>2, <2>3, <2>4
<1>4. CASE group = t /\ t \notin cancelled
  <2>1. Next
    BY <1>4 DEF vars
  <2>2. PICK c \in Cancels : CancelBatch(c) /\ target[c] = t
    BY <1>4, <2>1, StepDropsByCancel
  <2> QED
    BY <2>2 DEF CancelBatch, Inv, TypeOK
<1> QED
  BY <1>2, <1>3, <1>4

THEOREM DroppedByACancelHolds == Spec => []DroppedByACancel
<1>1. Init => DroppedByACancel
  BY DEF Init, DroppedByACancel
<1>2. Inv /\ DroppedByACancel /\ [Next]_vars => DroppedByACancel'
  BY StepDroppedByACancel
<1> QED
  BY <1>1, <1>2, SpecInv, PTL DEF Spec

-----------------------------------------------------------------------------
(* Without a cancel the service implements NewsletterPromise: the claim    *)
(* accepts, the provider's first acceptance delivers, a revert withdraws,  *)
(* the job or the sweep settles; everything else stutters.                 *)

LEMMA CopiesKept ==
  ASSUME UNCHANGED <<accepted, cancelled, letter>>
  PROVE  Copies' = Copies
  BY DEF Copies, Delivered

LEMMA ReadDraftStutters ==
  ASSUME Inv, NEW s \in Sends, NEW schedule \in BOOLEAN, NEW audience \in SUBSET Recipients,
         ReadDraft(s, schedule, audience)
  PROVE  UNCHANGED <<Phase, content, Copies>>
<1>1. accepted[s] = {}
  BY DEF Inv, TypeOK, Ledger, ReadDraft
<1>2. \A t \in Sends \ {s} : letter'[t] = letter[t]
  BY DEF ReadDraft, Inv, TypeOK
<1>3. Copies' = Copies
  BY <1>1, <1>2 DEF Copies, Delivered, ReadDraft, outside
<1> QED
  BY <1>3 DEF Phase, ReadDraft, rowVars

(* The provider takes the message of s to r: nobody had sent r a copy, and *)
(* the copy is of the stored letter.                                       *)
LEMMA AcceptDelivers ==
  ASSUME Inv, Calm, NEW s \in Sends, NEW r \in Recipients, group = s, s \notin cancelled,
         accepted' = [accepted EXCEPT ![s] = @ \cup {r}], r \notin accepted[s],
         UNCHANGED <<rowVars, letter, cancelled>>
  PROVE  Promise!Deliver(r)
<1>1. \A t \in cancelled : ~Possible(t)
  BY DEF Calm, AllRejected, Possible
<1>2. ASSUME NEW t \in Sends \ {s}, NEW q \in Recipients, q \in accepted[t] PROVE FALSE
  <2>1. Possible(t)
    BY <1>2 DEF Inv, Ledger, Possible
  <2> QED
    BY <1>1, <2>1 DEF Inv, Calm, Holding
<1>3. status \in Claimed /\ content = letter[s]
  BY NoneAssumption DEF Inv, Columns, Stored
<1>4. Phase' = Phase /\ content' = content /\ Phase \in {"out", "sent"}
  BY <1>3 DEF Phase, rowVars, Claimed
<1>5. r \notin Promise!Readers
  BY <1>2 DEF Promise!Readers, Copies, Delivered
<1>6. <<r, content>> \in Recipients \X (Edits \cup {NONE})
  BY DEF Inv, TypeOK
<1>7. \A t \in Sends, q \in Recipients :
         Delivered(t, q)' <=> Delivered(t, q) \/ (t = s /\ q = r)
  BY DEF Delivered, Inv, TypeOK
<1>8. Copies' = Copies \cup {<<r, content>>}
  BY <1>3, <1>6, <1>7 DEF Copies
<1> QED
  BY <1>4, <1>5, <1>8 DEF Promise!Deliver

LEMMA DispatchDelivers ==
  ASSUME Inv, Calm, NEW s \in Sends, NEW r \in Recipients,
         NEW reply \in {"sent", "failed", "unknown"}, Dispatch(s, r, reply)
  PROVE  Promise!Deliver(r) \/ UNCHANGED <<Phase, content, Copies>>
<1>1. CASE reply = "sent"
  <2>1. group = s /\ s \notin cancelled
    BY DEF Inv, Calm, Holding, Dispatch
  <2>2. r \notin accepted[s]
    BY DEF Inv, Ledger, Dispatch
  <2> QED
    BY <1>1, <2>1, <2>2, AcceptDelivers DEF Dispatch
<1>2. CASE reply # "sent"
  BY <1>2, CopiesKept DEF Dispatch, Phase, rowVars
<1> QED
  BY <1>1, <1>2

LEMMA AcceptUnansweredDelivers ==
  ASSUME Inv, Calm, NEW s \in Sends, NEW r \in Recipients, AcceptUnanswered(s, r)
  PROVE  Promise!Deliver(r) \/ UNCHANGED <<Phase, content, Copies>>
<1>1. CASE r \notin accepted[s]
  <2>1. group = s /\ s \notin cancelled
    BY DEF Inv, Calm, AllRejected, Holding, Possible, AcceptUnanswered
  <2> QED
    BY <1>1, <2>1, AcceptDelivers DEF AcceptUnanswered, sendVars
<1>2. CASE r \in accepted[s]
  <2>1. accepted' = accepted
    BY <1>2 DEF AcceptUnanswered, Inv, TypeOK
  <2> QED
    BY <2>1, CopiesKept DEF AcceptUnanswered, Phase, rowVars, sendVars
<1> QED
  BY <1>1, <1>2

(* A job reverts the row only when nobody has a copy. *)
LEMMA RevertSendingWithdraws ==
  ASSUME Inv, Calm, NEW s \in Sends, RevertSending(s)
  PROVE  Promise!Withdraw
<1>1. group = s /\ usurped = {} /\ \A t \in cancelled : ~Possible(t)
  BY DEF Inv, Calm, Holding, RevertSending, AllRejected, Possible
<1>2. ASSUME NEW t \in Sends, NEW r \in Recipients, r \in accepted[t] PROVE FALSE
  <2>1. Possible(t) /\ mail[t][r] \in {"sent", "unknown"}
    BY <1>2 DEF Inv, Ledger, Possible
  <2>2. t = s
    BY <1>1, <2>1 DEF Inv, Holding
  <2> QED
    BY <2>1, <2>2 DEF RevertSending, AllRejected
<1>3. Copies = {} /\ Copies' = {}
  BY <1>2 DEF Copies, Delivered, RevertSending, outside
<1> QED
  BY <1>3 DEF RevertSending, RevertGate, Phase, Promise!Withdraw

(* What a job cancels after its revert holds no message anyone may get.    *)
LEMMA CleanupStutters ==
  ASSUME Inv, NEW s \in Sends, NEW cancels \in BOOLEAN, NEW purges \in BOOLEAN,
         Cleanup(s, cancels, purges)
  PROVE  UNCHANGED <<Phase, content, Copies>>
<1>1. accepted[s] = {}
  BY DEF Inv, TypeOK, Ledger, Purging, AllRejected, Cleanup
<1>2. Copies' = Copies
  BY <1>1 DEF Copies, Delivered, Cleanup
<1> QED
  BY <1>2 DEF Phase, Cleanup, rowVars

LEMMA StepImplementsPromise ==
  ASSUME Inv, Calm, Uncancelled, [Next]_vars
  PROVE  Promise!Next \/ UNCHANGED <<Phase, content, Copies>>
<1> USE DEF rowVars, sendVars, outside
<1>1. ASSUME NEW s \in Sends, SendStep(s)
      PROVE  Promise!Next \/ UNCHANGED <<Phase, content, Copies>>
  <2>1. CASE Claim(s)
    BY <2>1, CopiesKept DEF Claim, ClaimGate, Phase, Promise!Next, Promise!Accept
  <2>2. CASE MarkScheduled(s)
    BY <2>2, CopiesKept DEF MarkScheduled, SettleGate, Phase
  <2>3. CASE MarkSent(s)
    BY <2>3, CopiesKept DEF MarkSent, SettleGate, Phase, Promise!Next, Promise!Settle
  <2>5. CASE GiveUp(s)
    BY <2>5, CopiesKept DEF GiveUp, Phase
  <2> QED
    BY <1>1, <2>1, <2>2, <2>3, <2>5, ReadDraftStutters, DispatchDelivers, CleanupStutters,
       AcceptUnansweredDelivers, RevertSendingWithdraws DEF SendStep, Promise!Next
<1>2. ASSUME NEW c \in Cancels, CancelStep(c)
      PROVE  UNCHANGED <<Phase, content, Copies>>
  BY <1>2, NoCancelStep
<1>3. ASSUME NEW e \in Edits, EditStep(e)
      PROVE  Promise!Next \/ UNCHANGED <<Phase, content, Copies>>
  <2>1. ASSUME NEW withTime \in BOOLEAN, CommitEdit(e, withTime)
        PROVE  Promise!Edit
    <3>1. status = "draft"
      BY <2>1 DEF CommitEdit, EditGate, Inv, Locking
    <3> QED
      BY <2>1, <3>1, CopiesKept DEF CommitEdit, Phase, Promise!Edit
  <2>2. CASE FetchForEdit(e) \/ ReadForEdit(e) \/ CheckUnarmed(e)
    BY <2>2, CopiesKept DEF FetchForEdit, ReadForEdit, CheckUnarmed, Phase
  <2> QED
    BY <1>3, <2>1, <2>2 DEF EditStep, Promise!Next
<1>4. CASE DeleteDraft
  BY <1>4, CopiesKept DEF DeleteDraft, DeleteGate, Phase, Promise!Next, Promise!Delete
<1>5. CASE RecoverStuckSending
  BY <1>5, CopiesKept DEF RecoverStuckSending, RecoverGate, RecoveredStatus, Phase, Promise!Next,
     Promise!Settle
<1>6. CASE SettleDueScheduled
  BY <1>6, CopiesKept DEF SettleDueScheduled, Phase, Promise!Next, Promise!Settle
<1>7. CASE UNCHANGED vars
  BY <1>7, CopiesKept DEF vars, Phase
<1> QED
  BY <1>1, <1>2, <1>3, <1>4, <1>5, <1>6, <1>7 DEF Next

(* For every number of requests, crashes and unanswered calls, and with or *)
(* without scheduling, a service that nobody asks to cancel a schedule     *)
(* keeps the promise: one letter, one copy each, back to draft only while  *)
(* nobody has a copy.                                                      *)
THEOREM UncancelledImplementsPromise ==
  ASSUME ~CanSchedule \/ Cancels = {} PROVE Spec => ImplementsPromise
<1>1. Init => Promise!Init
  BY DEF Init, Promise!Init, Phase, Copies, Delivered
<1>2. Uncancelled
  BY DEF Uncancelled
<1>3. Inv /\ Calm /\ [Next]_vars => [Promise!Next]_(Promise!vars)
  BY <1>2, StepImplementsPromise DEF Promise!vars
<1> QED
  BY <1>1, <1>2, <1>3, SpecCalm, PTL DEF Spec, ImplementsPromise, Promise!Spec

-----------------------------------------------------------------------------
(* The row goes where NewsletterRow lets it go.                            *)

Spent == {s \in Sends : pc[s] \notin {"idle", "read"}}

LEMMA NobodyUnclaims ==
  ASSUME Inv, [Next]_vars
  PROVE  Spent \subseteq Spent'
<1>1. ASSUME NEW s \in Sends, SendStep(s) PROVE Spent \subseteq Spent'
  <2>1. \A t \in Sends : pc[t] \notin {"idle", "read"} => pc'[t] \notin {"idle", "read"}
    BY <1>1 DEF SendStep, ReadDraft, Claim, Dispatch, AcceptUnanswered, MarkScheduled, MarkSent,
       RevertSending, Cleanup, GiveUp, sendVars, Inv, TypeOK
  <2> QED
    BY <2>1 DEF Spent
<1>2. CASE pc' = pc
  BY <1>2 DEF Spent
<1> QED
  BY <1>1, <1>2 DEF Next, CancelStep, ReadArmed, CancelBatch, RevertScheduled, PurgeCancelled,
     GiveUpCancel, EditStep, FetchForEdit, ReadForEdit, CheckUnarmed, CommitEdit, DeleteDraft,
     RecoverStuckSending, SettleDueScheduled, sendVars, vars

(* The statements of a send request and of its job.                        *)
LEMMA SendKeepsRow ==
  ASSUME Inv, NEW s \in Sends, SendStep(s)
  PROVE  TheRow!Statement \/ UNCHANGED rowVars
<1>1. CASE Claim(s)
  <2>1. /\ status = "draft" /\ batch = NONE /\ pc[s] = "read" /\ pc'[s] = "fanout"
        /\ status' = "sending" /\ version' = version + 1 /\ content' = content
        /\ batch' = IF armed[s] THEN s ELSE batch
    BY <1>1 DEF Claim, ClaimGate, Inv, TypeOK, Columns, Claimed
  <2>2. CASE armed[s]
    BY <2>1, <2>2, NoneAssumption DEF TheRow!Statement, TheRow!Arm, TheRow!Write
  <2>3. CASE ~armed[s]
    BY <2>1, <2>3 DEF TheRow!Statement, TheRow!Claim, TheRow!Write
  <2> QED
    BY <2>2, <2>3
<1>2. CASE MarkScheduled(s)
  <2>1. status = "sending" /\ group = s
    BY <1>2 DEF MarkScheduled, SettleGate, Inv, Locking
  <2>2. batch = s
    BY <1>2, <2>1, NoneAssumption DEF MarkScheduled, Inv, Columns
  <2> QED
    BY <1>2, <2>1, <2>2, NoneAssumption
       DEF MarkScheduled, TheRow!Statement, TheRow!Schedule, TheRow!Write
<1>3. CASE MarkSent(s)
  BY <1>3 DEF MarkSent, SettleGate, TheRow!Statement, TheRow!Settle, TheRow!Write
<1>4. CASE RevertSending(s)
  BY <1>4 DEF RevertSending, RevertGate, TheRow!Statement, TheRow!TakeBack, TheRow!Write
<1> QED
  BY <1>1, <1>2, <1>3, <1>4
     DEF SendStep, ReadDraft, Dispatch, AcceptUnanswered, Cleanup, GiveUp, rowVars

(* The statements of cancels, edits, a delete and the sweep.               *)
LEMMA OthersKeepRow ==
  ASSUME Inv,
         \/ \E c \in Cancels : CancelStep(c)
         \/ \E e \in Edits : EditStep(e)
         \/ DeleteDraft \/ RecoverStuckSending \/ SettleDueScheduled
  PROVE  TheRow!Statement \/ UNCHANGED rowVars
<1>1. ASSUME NEW c \in Cancels, CancelStep(c)
      PROVE  TheRow!Statement \/ UNCHANGED rowVars
  <2>1. CASE RevertScheduled(c)
    BY <2>1 DEF RevertScheduled, CancelGate, TheRow!Statement, TheRow!TakeBack, TheRow!Write
  <2> QED
    BY <1>1, <2>1 DEF CancelStep, ReadArmed, CancelBatch, PurgeCancelled, GiveUpCancel
<1>2. ASSUME NEW e \in Edits, EditStep(e)
      PROVE  TheRow!Statement \/ UNCHANGED rowVars
  <2>1. ASSUME NEW withTime \in BOOLEAN, CommitEdit(e, withTime)
        PROVE  TheRow!Statement
    <3>1. status = "draft"
      BY <2>1 DEF CommitEdit, EditGate, Inv, Locking
    <3> QED
      BY <2>1, <3>1 DEF CommitEdit, Unarmed, TheRow!Statement, TheRow!Edit, TheRow!Write
  <2> QED
    BY <1>2, <2>1 DEF EditStep, FetchForEdit, ReadForEdit, CheckUnarmed
<1>3. CASE DeleteDraft
  BY <1>3 DEF DeleteDraft, DeleteGate, TheRow!Statement, TheRow!Delete
<1>4. CASE RecoverStuckSending
  BY <1>4 DEF RecoverStuckSending, RecoverGate, RecoveredStatus, TheRow!Statement,
     TheRow!Settle, TheRow!Schedule, TheRow!Write
<1>5. CASE SettleDueScheduled
  BY <1>5 DEF SettleDueScheduled, TheRow!Statement, TheRow!Settle, TheRow!Write
<1> QED
  BY <1>1, <1>2, <1>3, <1>4, <1>5

(* MarkSending, MarkSent, MarkScheduled, RevertSending, RevertScheduled,   *)
(* Update, Delete and the sweep change the row only as NewsletterRow has   *)
(* it: whatever a request or a job knew when it issued its statement, the  *)
(* content is written in drafts only, a scheduled row has a batch, and no  *)
(* batch is armed twice.                                                   *)
THEOREM LifecycleKeepsRow == Spec => KeepsRow
<1>1. Init => TheRow!Init
  BY DEF Init, TheRow!Init
<1>2. Inv /\ [Next]_vars => [TheRow!Next]_<<TheRow!row, Spent>>
  <2> SUFFICES ASSUME Inv, [Next]_vars PROVE TheRow!Next
    OBVIOUS
  <2>1. TheRow!Statement \/ UNCHANGED rowVars
    BY SendKeepsRow, OthersKeepRow DEF Next, vars
  <2> QED
    BY <2>1, NobodyUnclaims DEF TheRow!Next, TheRow!row, Spent, rowVars
<1> QED
  BY <1>1, <1>2, SpecInv, PTL DEF Spec, KeepsRow, TheRow!Spec, Spent

-----------------------------------------------------------------------------
(* Every claim settles.  SweptSpec's fairness says that a sweep that could *)
(* always change the row does.  SweepGoesOn says it with the WHERE clauses *)
(* in place of ENABLED, which is what they are: again and again the sweep  *)
(* finds no row to recover, or it recovers one; and likewise for due rows. *)

SweepGoesOn ==
    /\ []<>~RecoverGate \/ []<><<RecoverStuckSending>>_vars
    /\ []<>~(status = "scheduled" /\ timed) \/ []<><<SettleDueScheduled>>_vars

(* Nothing takes a scheduled newsletter back to sending: a claim needs a   *)
(* draft.                                                                  *)
LEMMA ScheduledIsNotSending ==
  ASSUME Inv, status = "scheduled", [Next]_vars
  PROVE  status' # "sending"
<1>1. ASSUME NEW s \in Sends, SendStep(s) PROVE status' # "sending"
  BY <1>1 DEF SendStep, ReadDraft, Claim, ClaimGate, Dispatch, AcceptUnanswered, MarkScheduled,
     MarkSent, RevertSending, Cleanup, GiveUp
<1> QED
  BY <1>1 DEF Next, vars, CancelStep, ReadArmed, CancelBatch, RevertScheduled, PurgeCancelled,
     GiveUpCancel, EditStep, FetchForEdit, ReadForEdit, CheckUnarmed, CommitEdit, DeleteDraft,
     RecoverStuckSending, RecoverGate, SettleDueScheduled

(* RecoverStuckSending and SettleDueScheduled leave no newsletter in       *)
(* sending or scheduled for ever, whatever crashed and whatever else moves *)
(* the row meanwhile: a row in sending is settled or scheduled, and a      *)
(* scheduled one is due at some time, because it has a scheduled_at.       *)
THEOREM EveryClaimSettlesWhenSwept == Spec /\ SweepGoesOn => EveryClaimSettles
<1> DEFINE Open == status = "sending"
           Due == status = "scheduled"
           Over == status \in {"sent", "draft", "gone"}
<1>1. Inv => Open \/ Due \/ Over
  BY DEF Inv, TypeOK, Statuses
<1>2. <<RecoverStuckSending>>_vars => Due' \/ Over'
  BY DEF RecoverStuckSending, RecoveredStatus
<1>3. Inv /\ Due /\ [Next]_vars => ~Open'
  BY ScheduledIsNotSending
<1>4. <<SettleDueScheduled>>_vars => Over'
  BY DEF SettleDueScheduled
<1>5. Inv => (Due <=> status = "scheduled" /\ timed)
  BY DEF Inv, TypeOK, Columns
<1>6. Open <=> RecoverGate
  BY DEF RecoverGate
<1>7. Open \/ Due <=> status \in {"sending", "scheduled"}
  OBVIOUS
<1>8. Over <=> status \in {"sent", "draft", "gone"}
  OBVIOUS
<1> HIDE DEF Open, Due, Over
<1>9. SweepGoesOn /\ []Inv /\ [][Next]_vars => (Open \/ Due ~> Over)
  BY <1>1, <1>2, <1>3, <1>4, <1>5, <1>6, PTL DEF SweepGoesOn
<1> QED
  BY <1>7, <1>8, <1>9, SpecInv, PTL DEF Spec, EveryClaimSettles

-----------------------------------------------------------------------------
(* The jobs keep FanOutPromise, as the pool of SendJob does.  A job's row  *)
(* may be moved on by others, so what the job itself made of it is written *)
(* down: outcome[s] is what the terminal UPDATE of s, if it came to one,   *)
(* left in the row.                                                        *)

VARIABLE outcome

Terminates(s) == pc[s] = "fanout" /\ pc'[s] # "fanout" /\ status' # status

RecordOutcome ==
    outcome' = [s \in Sends |->
                   IF Terminates(s)
                   THEN IF status' = "draft" THEN "draft" ELSE "settled"
                   ELSE outcome[s]]

RecordedInit == Init /\ outcome = [s \in Sends |-> "sending"]
RecordedNext == Next /\ RecordOutcome
RecordedSpec == RecordedInit /\ [][RecordedNext]_<<vars, outcome>>

Addressed(s) == {r \in Recipients : mail[s][r] # "none"}

(* The fan-out of send s to the audience its request resolved.             *)
Verdicts(s, audience) ==
    [r \in audience |-> IF mail[s][r] = "none" THEN "todo" ELSE mail[s][r]]

FanOut(s, audience) == INSTANCE FanOutPromise WITH
    Recipients <- audience, mail <- Verdicts(s, audience), outcome <- outcome[s]

Undecided ==
    /\ outcome \in [Sends -> {"sending", "draft", "settled"}]
    /\ \A s \in Sends : pc[s] \in {"idle", "read", "fanout"} => outcome[s] = "sending"

(* The promise's guards are those of Dispatch and of the terminal UPDATEs, *)
(* so the lifecycle leaves out nothing a fan-out may do.                   *)
LEMMA FanOutGuards ==
  ASSUME NEW s \in Sends, NEW audience, Addressed(s) = audience
  PROVE  /\ \A r \in Recipients :
               mail[s][r] = "todo" <=> r \in audience /\ Verdicts(s, audience)[r] = "todo"
         /\ Answered(s) <=> \A r \in audience : Verdicts(s, audience)[r] # "todo"
         /\ AllRejected(s) <=> \A r \in audience : Verdicts(s, audience)[r] = "failed"
         /\ Nobody(s) <=> audience = {}
  BY DEF Addressed, Verdicts, Answered, AllRejected, Nobody

LEMMA StepsApart ==
  ASSUME Inv, NEW s \in Sends, NEW t \in Sends, t # s, SendStep(t)
  PROVE  mail'[s] = mail[s] /\ pc'[s] = pc[s]
  BY DEF SendStep, ReadDraft, Claim, Dispatch, AcceptUnanswered, MarkScheduled, MarkSent,
     RevertSending, Cleanup, GiveUp, Inv, TypeOK

LEMMA OnlySendsMail ==
  ASSUME Next, \A t \in Sends : ~SendStep(t)
  PROVE  mail' = mail /\ pc' = pc
<1>1. \/ \E c \in Cancels : CancelStep(c)
      \/ \E e \in Edits : EditStep(e)
      \/ DeleteDraft \/ RecoverStuckSending \/ SettleDueScheduled
  BY DEF Next
<1> QED
  BY <1>1 DEF CancelStep, ReadArmed, CancelBatch, RevertScheduled, PurgeCancelled, GiveUpCancel,
     EditStep, FetchForEdit, ReadForEdit, CheckUnarmed, CommitEdit, DeleteDraft,
     RecoverStuckSending, SettleDueScheduled, sendVars

LEMMA StepUndecided ==
  ASSUME Inv, Undecided, [RecordedNext]_<<vars, outcome>>
  PROVE  Undecided'
<1>1. CASE UNCHANGED <<vars, outcome>>
  BY <1>1 DEF Undecided, vars, sendVars
<1>2. CASE RecordedNext
  <2>1. \A s \in Sends : pc'[s] \in {"idle", "read", "fanout"} =>
           pc[s] \in {"idle", "read", "fanout"} /\ ~Terminates(s)
    <3>1. ASSUME NEW t \in Sends, SendStep(t),
                 NEW s \in Sends, pc'[s] \in {"idle", "read", "fanout"}
          PROVE  pc[s] \in {"idle", "read", "fanout"} /\ (pc[s] = "fanout" => pc'[s] = "fanout")
      BY <3>1 DEF SendStep, ReadDraft, Claim, Dispatch, AcceptUnanswered, MarkScheduled, MarkSent,
         RevertSending, Cleanup, GiveUp, Inv, TypeOK
    <3>2. pc' = pc \/ \E t \in Sends : SendStep(t)
      BY <1>2, OnlySendsMail DEF RecordedNext
    <3> QED
      BY <3>1, <3>2 DEF Terminates
  <2> QED
    BY <1>2, <2>1 DEF Undecided, RecordedNext, RecordOutcome
<1> QED
  BY <1>1, <1>2

(* A step of anybody else leaves the verdicts and the outcome alone.       *)
LEMMA OthersLeaveFanOut ==
  ASSUME Inv, NEW s \in Sends, NEW audience \in SUBSET Recipients,
         [RecordedNext]_<<vars, outcome>>, ~SendStep(s), Undecided
  PROVE  UNCHANGED <<Verdicts(s, audience), outcome[s]>>
<1>1. mail'[s] = mail[s] /\ pc'[s] = pc[s]
  <2>1. ASSUME NEW t \in Sends, SendStep(t) PROVE mail'[s] = mail[s] /\ pc'[s] = pc[s]
    <3>1. t # s
      BY <2>1
    <3> QED
      BY <2>1, <3>1, StepsApart
  <2>2. (mail' = mail /\ pc' = pc) \/ \E t \in Sends : SendStep(t)
    BY OnlySendsMail DEF RecordedNext, vars, sendVars
  <2> QED
    BY <2>1, <2>2
<1>2. outcome'[s] = outcome[s]
  BY <1>1 DEF RecordedNext, RecordOutcome, Terminates
<1> QED
  BY <1>1, <1>2 DEF Verdicts

(* The steps of the job itself.                                            *)
LEMMA JobKeepsFanOut ==
  ASSUME Inv, Undecided, NEW s \in Sends, NEW audience \in SUBSET Recipients, audience # {},
         Started(s) => Addressed(s) = audience, SendStep(s), RecordOutcome
  PROVE  [FanOut(s, audience)!Next]_(FanOut(s, audience)!vars)
<1> DEFINE Promised == [FanOut(s, audience)!Next]_(FanOut(s, audience)!vars)
<1>1. ASSUME UNCHANGED <<Verdicts(s, audience), outcome[s]>> PROVE Promised
  BY <1>1 DEF FanOut!vars
<1>2. ASSUME NEW schedule \in BOOLEAN, NEW members \in SUBSET Recipients,
             ReadDraft(s, schedule, members)
      PROVE  Promised
  <2>1. \A r \in Recipients : mail[s][r] \in {"none", "todo"} /\ mail'[s][r] \in {"none", "todo"}
    BY <1>2 DEF ReadDraft, Inv, TypeOK, Ledger
  <2>2. ~Terminates(s)
    BY <1>2 DEF ReadDraft, Terminates
  <2> QED
    BY <1>1, <2>1, <2>2 DEF Verdicts, RecordOutcome
<1>3. CASE Claim(s) \/ (\E r \in Recipients : AcceptUnanswered(s, r))
             \/ (\E cancels, purges \in BOOLEAN : Cleanup(s, cancels, purges)) \/ GiveUp(s)
  <2>1. mail' = mail /\ ~Terminates(s)
    BY <1>3 DEF Claim, AcceptUnanswered, Cleanup, GiveUp, Terminates
  <2> QED
    BY <1>1, <2>1 DEF Verdicts, RecordOutcome
<1>4. ASSUME NEW r \in Recipients, NEW reply \in {"sent", "failed", "unknown"},
             Dispatch(s, r, reply)
      PROVE  Promised
  <2>1. Addressed(s) = audience
    BY <1>4 DEF Dispatch, Started
  <2>2. r \in audience /\ Verdicts(s, audience)[r] = "todo"
    BY <1>4, <2>1, FanOutGuards DEF Dispatch
  <2>3. Verdicts(s, audience)' = [Verdicts(s, audience) EXCEPT ![r] = reply]
    BY <1>4, <2>2 DEF Dispatch, Verdicts, Inv, TypeOK
  <2>4. outcome[s] = "sending" /\ outcome'[s] = outcome[s]
    BY <1>4 DEF Dispatch, Undecided, RecordOutcome, Terminates
  <2>5. FanOut(s, audience)!Dispatch(r, reply)
    BY <2>2, <2>3, <2>4 DEF FanOut!Dispatch
  <2> QED
    BY <2>2, <2>5 DEF FanOut!Next
<1>5. CASE MarkScheduled(s) \/ MarkSent(s) \/ RevertSending(s)
  <2>1. Addressed(s) = audience /\ outcome[s] = "sending" /\ Answered(s) /\ ~Nobody(s)
    BY <1>5, FanOutGuards DEF MarkScheduled, MarkSent, RevertSending, Started, Undecided
  <2>2. Verdicts(s, audience)' = Verdicts(s, audience)
    BY <1>5 DEF MarkScheduled, MarkSent, RevertSending, Verdicts
  <2>3. Terminates(s)
    BY <1>5 DEF MarkScheduled, MarkSent, RevertSending, SettleGate, RevertGate, Terminates, Inv,
       TypeOK
  <2>4. status' = "draft" <=> AllRejected(s)
    BY <1>5, <2>1 DEF MarkScheduled, MarkSent, RevertSending
  <2>5. outcome'[s] = IF AllRejected(s) THEN "draft" ELSE "settled"
    BY <2>3, <2>4 DEF RecordOutcome
  <2>6. FanOut(s, audience)!Settle
    BY <2>1, <2>2, <2>5, FanOutGuards DEF FanOut!Settle
  <2> QED
    BY <2>6 DEF FanOut!Next
<1> QED
  BY <1>2, <1>3, <1>4, <1>5 DEF SendStep

(* Every accepted send is the fan-out that FanOutPromise describes, among  *)
(* all the other requests, jobs, cancels and sweeps, and whatever they do  *)
(* to the row: one verdict for each recipient its request resolved, then a *)
(* terminal UPDATE that fits all of them, or none if the job is lost.  (An *)
(* empty audience starts no fan-out.)                                      *)
THEOREM JobsKeepFanOutPromise ==
  ASSUME NEW s \in Sends, NEW audience \in SUBSET Recipients, audience # {}
  PROVE  RecordedSpec /\ [](Started(s) => Addressed(s) = audience) => FanOut(s, audience)!Spec
<1>1. RecordedInit => FanOut(s, audience)!Init /\ Undecided
  BY DEF RecordedInit, Init, FanOut!Init, Verdicts, Undecided
<1>2. Inv /\ [RecordedNext]_<<vars, outcome>> => Inv'
  BY NextInv DEF RecordedNext, vars
<1>3. Inv /\ Undecided /\ (Started(s) => Addressed(s) = audience)
        /\ [RecordedNext]_<<vars, outcome>>
      => [FanOut(s, audience)!Next]_(FanOut(s, audience)!vars)
  <2> SUFFICES ASSUME Inv, Undecided, Started(s) => Addressed(s) = audience,
                      [RecordedNext]_<<vars, outcome>>
               PROVE  [FanOut(s, audience)!Next]_(FanOut(s, audience)!vars)
    OBVIOUS
  <2>1. CASE SendStep(s) /\ RecordedNext
    BY <2>1, JobKeepsFanOut DEF RecordedNext
  <2>2. CASE ~SendStep(s)
    BY <2>2, OthersLeaveFanOut DEF FanOut!vars
  <2>3. CASE UNCHANGED <<vars, outcome>>
    BY <2>3 DEF FanOut!vars, Verdicts, vars
  <2> QED
    BY <2>1, <2>2, <2>3
<1>4. RecordedInit => Inv
  BY InitInv DEF RecordedInit
<1> QED
  BY <1>1, <1>2, <1>3, <1>4, StepUndecided, PTL DEF RecordedSpec, FanOut!Spec

-----------------------------------------------------------------------------
(* The lifecycle beside the engagement store, which EngagementPromise      *)
(* stands for (EngagementProofs shows that the tables keep it).  The two   *)
(* meet in the purge.  PurgeEngagement is called by a job that has         *)
(* reverted (runSendJob) and by a cancel that has (CancelScheduled), and   *)
(* by nobody else; its transaction may commit after its caller has given   *)
(* up, or never.  asked are the groups it has been called for.             *)

CONSTANTS Messages, GroupOf, Events, Batches, Instants

VARIABLES asked, listed, figures, counted, withdrawn, applied

Reports == INSTANCE EngagementPromise WITH Groups <- Sends

Asks ==
    asked' = asked \cup {s \in Sends : pc'[s] = "cleanup"}
                   \cup {s \in Sends : \E c \in Cancels : cpc'[c] = "purge" /\ target'[c] = s}

AskedSpec == Init /\ asked = {} /\ [][Next /\ Asks]_<<vars, asked>>

(* Nothing that the store may be asked to forget is mail that arrives, or  *)
(* mail of the row's send.                                                 *)
AskedIsDead ==
    /\ asked \subseteq Sends /\ purged \subseteq asked
    /\ \A s \in Sends : pc[s] = "cleanup" => s \in asked
    /\ \A c \in Cancels : cpc[c] = "purge" => target[c] \in asked
    /\ \A s \in asked :
          /\ group # s /\ Started(s)
          /\ s \in cancelled \/ (AllRejected(s) /\ pc[s] \in {"cleanup", "done"})

LEMMA DeadStaysDead ==
  ASSUME Inv, Next, NEW s \in Sends,
         group # s, Started(s), s \in cancelled \/ (AllRejected(s) /\ pc[s] \in {"cleanup", "done"})
  PROVE  /\ group' # s /\ Started(s)'
         /\ s \in cancelled' \/ (AllRejected(s)' /\ pc'[s] \in {"cleanup", "done"})
<1>1. ASSUME NEW t \in Sends, SendStep(t)
      PROVE  /\ group' # s /\ Started(s)'
             /\ s \in cancelled' \/ (AllRejected(s)' /\ pc'[s] \in {"cleanup", "done"})
  <2>1. group' # s
    BY <1>1, NoneAssumption DEF SendStep, ReadDraft, Claim, Dispatch, AcceptUnanswered, MarkScheduled,
       MarkSent, RevertSending, Cleanup, GiveUp, Started
  <2>2. Started(s)' /\ cancelled \subseteq cancelled'
    BY <1>1 DEF SendStep, ReadDraft, Claim, Dispatch, AcceptUnanswered, MarkScheduled,
       MarkSent, RevertSending, Cleanup, GiveUp, Started, Inv, TypeOK
  <2>3. AllRejected(s) /\ pc[s] \in {"cleanup", "done"}
          => AllRejected(s)' /\ pc'[s] \in {"cleanup", "done"}
    BY <1>1 DEF SendStep, ReadDraft, Claim, Dispatch, AcceptUnanswered, MarkScheduled,
       MarkSent, RevertSending, Cleanup, GiveUp, AllRejected, Inv, TypeOK
  <2> QED
    BY <2>1, <2>2, <2>3
<1>2. ASSUME \A t \in Sends : ~SendStep(t)
      PROVE  /\ group' # s /\ Started(s)'
             /\ s \in cancelled' \/ (AllRejected(s)' /\ pc'[s] \in {"cleanup", "done"})
  <2>1. mail' = mail /\ pc' = pc
    BY <1>2, OnlySendsMail
  <2>2. group' # s /\ cancelled \subseteq cancelled'
    BY <1>2, NoneAssumption DEF Next, CancelStep, ReadArmed, CancelBatch, RevertScheduled,
       PurgeCancelled, GiveUpCancel, EditStep, FetchForEdit, ReadForEdit, CheckUnarmed, CommitEdit,
       DeleteDraft, RecoverStuckSending, SettleDueScheduled
  <2> QED
    BY <2>1, <2>2 DEF Started, AllRejected
<1> QED
  BY <1>1, <1>2

LEMMA StepAsks ==
  ASSUME Inv, AskedIsDead, [Next /\ Asks]_<<vars, asked>>
  PROVE  AskedIsDead'
<1>1. CASE UNCHANGED <<vars, asked>>
  BY <1>1 DEF AskedIsDead, vars, Started, AllRejected
<1>2. CASE Next /\ Asks
  <2>1. Inv'
    BY <1>2, NextInv
  <2>2. asked' \subseteq Sends /\ asked \subseteq asked'
    BY <1>2 DEF Asks, AskedIsDead
  <2>3. \A s \in Sends : pc'[s] = "cleanup" => s \in asked'
    BY <1>2 DEF Asks
  <2>4. \A c \in Cancels : cpc'[c] = "purge" => target'[c] \in asked'
    <3>1. \A c \in Cancels : cpc'[c] = "purge" => target'[c] \in Sends
      BY <2>1 DEF Inv, TypeOK, Cancelling
    <3> QED
      BY <1>2, <3>1 DEF Asks
  <2>5. purged' \subseteq asked'
    <3>1. ASSUME NEW t \in Sends, SendStep(t)
          PROVE  purged' = purged \/ (pc[t] = "cleanup" /\ purged' \subseteq purged \cup {t})
      BY <3>1 DEF SendStep, ReadDraft, Claim, Dispatch, AcceptUnanswered, MarkScheduled,
         MarkSent, RevertSending, Cleanup, GiveUp
    <3>2. ASSUME NEW c \in Cancels, CancelStep(c) PROVE purged' \subseteq asked
      BY <3>2 DEF CancelStep, ReadArmed, CancelBatch, RevertScheduled,
         PurgeCancelled, GiveUpCancel, AskedIsDead
    <3>3. ASSUME ~ \E t \in Sends : SendStep(t), ~ \E c \in Cancels : CancelStep(c)
          PROVE  purged' = purged
      BY <1>2, <3>3 DEF Next, EditStep, FetchForEdit, ReadForEdit, CheckUnarmed, CommitEdit,
         DeleteDraft, RecoverStuckSending, SettleDueScheduled
    <3> QED
      BY <2>2, <3>1, <3>2, <3>3 DEF AskedIsDead
  <2>6. ASSUME NEW s \in asked'
        PROVE  /\ group' # s /\ Started(s)'
               /\ s \in cancelled' \/ (AllRejected(s)' /\ pc'[s] \in {"cleanup", "done"})
    <3>1. CASE s \in asked
      BY <1>2, <2>2, <3>1, DeadStaysDead DEF AskedIsDead
    <3>2. CASE s \in Sends /\ pc'[s] = "cleanup"
      BY <2>1, <3>2 DEF Inv, Purging, Started
    <3>3. ASSUME NEW c \in Cancels, cpc'[c] = "purge", target'[c] = s
          PROVE  group' # s /\ Started(s)' /\ s \in cancelled'
      BY <2>1, <3>3 DEF Inv, Cancelling, Started
    <3> QED
      BY <1>2, <3>1, <3>2, <3>3 DEF Asks
  <2> QED
    BY <2>2, <2>3, <2>4, <2>5, <2>6 DEF AskedIsDead
<1> QED
  BY <1>1, <1>2

(* What the store knows of message m stays: it is listed, its first        *)
(* delivery and failure stand, its opens and clicks and their figures only *)
(* grow.                                                                   *)
NoLess(f, g) ==
    /\ f.delivered # 0 => g.delivered = f.delivered
    /\ f.failed # 0 => g.failed = f.failed
    /\ \A k \in Reports!HitKinds : f.count[k] <= g.count[k] /\ f.last[k] <= g.last[k]

Keeps(m) ==
    /\ m \in listed => m \in listed'
    /\ NoLess(figures[m], figures'[m])
    /\ \A e \in counted : e.email = m => e \in counted'

Figures ==
    [delivered : Nat, failed : Nat, count : [Reports!HitKinds -> Nat],
     last : [Reports!HitKinds -> Nat]]

(* The row's send, and every send whose mail arrives.                      *)
Current(m) == GroupOf[m] = group \/ (GroupOf[m] \in Sends /\ Live(GroupOf[m]))

LEMMA AskedAreNotCurrent ==
  ASSUME Inv, AskedIsDead, NEW m \in Messages, Current(m)
  PROVE  GroupOf[m] \notin asked
<1> SUFFICES ASSUME GroupOf[m] \in asked PROVE FALSE
  OBVIOUS
<1> DEFINE s == GroupOf[m]
<1>1. s \in Sends /\ group # s
  BY DEF AskedIsDead
<1>2. Live(s)
  BY <1>1 DEF Current
<1>3. s \in cancelled \/ AllRejected(s)
  BY DEF AskedIsDead
<1> QED
  BY <1>1, <1>2, <1>3 DEF Live, Delivered, AllRejected, Inv, Ledger

LEMMA HigherKeeps ==
  ASSUME NEW f \in Figures, NEW more \in [Reports!HitKinds -> Nat],
         NEW later \in [Reports!HitKinds -> Nat],
         \A k \in Reports!HitKinds : f.count[k] <= more[k] /\ f.last[k] <= later[k],
         NEW g, g = [delivered |-> f.delivered, failed |-> f.failed, count |-> more, last |-> later]
  PROVE  g \in Figures /\ NoLess(f, g)
  BY DEF Figures, NoLess

LEMMA CountingKeeps ==
  ASSUME NEW f \in Figures, NEW kind \in Reports!HitKinds, NEW at \in Nat, NEW g,
         g = [f EXCEPT !.count[kind] = @ + 1, !.last[kind] = Reports!Later(@, at)]
  PROVE  g \in Figures /\ NoLess(f, g)
<1> DEFINE more == [f.count EXCEPT ![kind] = @ + 1]
           later == [f.last EXCEPT ![kind] = Reports!Later(@, at)]
<1>1. f.count \in [Reports!HitKinds -> Nat] /\ f.last \in [Reports!HitKinds -> Nat]
  BY DEF Figures
<1>2. more \in [Reports!HitKinds -> Nat] /\ \A k \in Reports!HitKinds : f.count[k] <= more[k]
  BY <1>1
<1>3. later \in [Reports!HitKinds -> Nat] /\ \A k \in Reports!HitKinds : f.last[k] <= later[k]
  BY <1>1 DEF Reports!Later
<1>4. g = [delivered |-> f.delivered, failed |-> f.failed, count |-> more, last |-> later]
  BY DEF Figures
<1> HIDE DEF more, later
<1> QED
  BY <1>2, <1>3, <1>4, HigherKeeps

LEMMA FiguresKeep ==
  ASSUME figures \in [Messages -> Figures], Instants \subseteq Nat,
         \A e \in Events : e.email \in Messages /\ e.at \in Nat,
         [Reports!Next]_(Reports!vars)
  PROVE  /\ figures' \in [Messages -> Figures]
         /\ \A m \in Messages : Reports!Withdrawn(m)' \/ Keeps(m)
<1>0. \A f \in Figures : NoLess(f, f)
  BY DEF NoLess, Figures
<1>1. ASSUME NEW m \in Messages, NEW f \in Figures, Reports!Record(m, f),
             NoLess(figures[m], f), counted \subseteq counted'
      PROVE  figures' \in [Messages -> Figures] /\ \A n \in Messages : Keeps(n)
  <2>1. figures' = [figures EXCEPT ![m] = f] /\ listed \subseteq listed'
    BY <1>1 DEF Reports!Record
  <2>2. \A n \in Messages : NoLess(figures[n], figures'[n])
    BY <1>0, <1>1, <2>1
  <2> QED
    BY <1>1, <2>1, <2>2 DEF Keeps
<1>2. ASSUME NEW m \in Messages, Reports!Accept(m)
      PROVE  figures' \in [Messages -> Figures] /\ \A n \in Messages : Keeps(n)
  BY <1>0, <1>1, <1>2 DEF Reports!Accept
<1>3. ASSUME NEW m \in Messages, NEW at \in Instants, Reports!Deliver(m, at)
      PROVE  figures' \in [Messages -> Figures] /\ \A n \in Messages : Keeps(n)
  <2> DEFINE f == [figures[m] EXCEPT !.delivered = at]
  <2>1. Reports!Record(m, f) /\ figures[m].delivered = 0 /\ counted' = counted
    BY <1>3 DEF Reports!Deliver
  <2>2. f \in Figures /\ NoLess(figures[m], f)
    BY <2>1 DEF Figures, NoLess
  <2> HIDE DEF f
  <2> QED
    BY <1>1, <2>1, <2>2
<1>4. ASSUME NEW m \in Messages, NEW at \in Instants, Reports!Fail(m, at)
      PROVE  figures' \in [Messages -> Figures] /\ \A n \in Messages : Keeps(n)
  <2> DEFINE f == [figures[m] EXCEPT !.failed = at]
  <2>1. Reports!Record(m, f) /\ figures[m].failed = 0 /\ counted' = counted
    BY <1>4 DEF Reports!Fail
  <2>2. f \in Figures /\ NoLess(figures[m], f)
    BY <2>1 DEF Figures, NoLess
  <2> HIDE DEF f
  <2> QED
    BY <1>1, <2>1, <2>2
<1>5. ASSUME NEW e \in Events, Reports!Count(e)
      PROVE  figures' \in [Messages -> Figures] /\ \A n \in Messages : Keeps(n)
  <2> DEFINE f == [figures[e.email] EXCEPT !.count[e.kind] = @ + 1,
                                           !.last[e.kind] = Reports!Later(@, e.at)]
  <2>1. e.kind \in Reports!HitKinds /\ counted \subseteq counted' /\ Reports!Record(e.email, f)
    BY <1>5 DEF Reports!Count
  <2>2. e.email \in Messages /\ figures[e.email] \in Figures /\ e.at \in Nat
    OBVIOUS
  <2>3. f \in Figures /\ NoLess(figures[e.email], f)
    BY <2>1, <2>2, CountingKeeps, Zenon
  <2> HIDE DEF f
  <2> QED
    BY <1>1, <2>1, <2>2, <2>3
<1>6. ASSUME NEW g \in Sends, Reports!TakeBack(g)
      PROVE  /\ figures' \in [Messages -> Figures]
             /\ \A n \in Messages : Reports!Withdrawn(n)' \/ Keeps(n)
  <2>1. Reports!Blank \in Figures
    BY DEF Reports!Blank, Figures
  <2>2. figures' \in [Messages -> Figures]
    BY <1>6, <2>1 DEF Reports!TakeBack
  <2>3. ASSUME NEW n \in Messages, GroupOf[n] # g PROVE Keeps(n)
    BY <1>0, <1>6, <2>3 DEF Reports!TakeBack, Reports!Of, Keeps
  <2>4. ASSUME NEW n \in Messages, GroupOf[n] = g PROVE Reports!Withdrawn(n)'
    BY <1>6, <2>4 DEF Reports!TakeBack, Reports!Withdrawn
  <2> QED
    BY <2>2, <2>3, <2>4
<1>7. ASSUME UNCHANGED <<listed, figures, counted>>
      PROVE  figures' \in [Messages -> Figures] /\ \A n \in Messages : Keeps(n)
  BY <1>0, <1>7 DEF Keeps
<1> QED
  BY <1>2, <1>3, <1>4, <1>5, <1>6, <1>7
     DEF Reports!Next, Reports!Acknowledge, Reports!vars

(* As long as only PurgeEngagement takes a group back, no report of a      *)
(* newsletter loses anything: of the send the row carries, and of every    *)
(* send whose mail arrives, no message is withdrawn and what is known of   *)
(* it only grows, whichever jobs and cancels revert, purge late, fail      *)
(* halfway or overtake each other.                                         *)
THEOREM ReportsOnlyGrow ==
  ASSUME NEW m \in Messages, Instants \subseteq Nat,
         \A e \in Events : e.email \in Messages /\ e.at \in Nat
  PROVE  AskedSpec /\ Reports!Spec /\ [](withdrawn \subseteq asked)
            => /\ [](Current(m) => ~Reports!Withdrawn(m))
               /\ [][Current(m)' => Keeps(m)]_<<vars, asked, Reports!vars>>
<1> DEFINE Known == figures \in [Messages -> Figures]
<1>1. Init /\ asked = {} => Inv /\ AskedIsDead
  BY InitInv DEF AskedIsDead, Init
<1>2. Inv /\ [Next /\ Asks]_<<vars, asked>> => Inv'
  BY NextInv DEF vars
<1>3. Inv /\ AskedIsDead /\ [Next /\ Asks]_<<vars, asked>> => AskedIsDead'
  BY StepAsks
<1>4. Reports!Init => Known
  BY DEF Reports!Init, Reports!Blank, Figures
<1>5. Known /\ [Reports!Next]_(Reports!vars) => Known'
  BY FiguresKeep
<1>6. Inv /\ AskedIsDead /\ withdrawn \subseteq asked => (Current(m) => ~Reports!Withdrawn(m))
  BY AskedAreNotCurrent DEF Reports!Withdrawn
<1>7. Known /\ [Reports!Next]_(Reports!vars) /\ (Current(m) => ~Reports!Withdrawn(m))'
        => (Current(m)' => Keeps(m))
  BY FiguresKeep
<1>8. Known /\ [Reports!Next]_(Reports!vars) /\ (Current(m) => ~Reports!Withdrawn(m))'
        => [Current(m)' => Keeps(m)]_<<vars, asked, Reports!vars>>
  BY <1>7
<1> HIDE DEF Known
<1> QED
  BY <1>1, <1>2, <1>3, <1>4, <1>5, <1>6, <1>8, PTL DEF AskedSpec, Reports!Spec
=============================================================================
