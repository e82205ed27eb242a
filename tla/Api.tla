-------------------------------- MODULE Api --------------------------------
(***************************************************************************)
(* The HTTP API as its callers meet it: requests that carry the ETag of    *)
(* something a caller was shown, are refused by the middleware, the        *)
(* decoder, the service or the repository, or take effect; replies that    *)
(* are lost; and callers, or proxies between, that send a request again.   *)
(* One newsletter, several replicas: nothing but its row is shared.  It is *)
(* asked for within its own project; within another it does not exist, and *)
(* such a request is answered not_found and changes nothing.               *)
(*                                                                         *)
(* A request reads the row and later writes it by one guarded statement; a *)
(* statement that finds no row is explained by another read, which may see *)
(* the row moved on.  A pod that dies leaves its requests where they are.  *)
(* The requests of others, the fan-out jobs and the sweep are the steps    *)
(* of OthersWrite: each is one statement, whatever led to it.              *)
(***************************************************************************)
EXTENDS Integers

CONSTANTS
    MaxCalls,      \* bound on the requests followed
    MaxVersion     \* bound on the version up to which others write

ASSUME ApiAssumption == MaxCalls \in Nat /\ MaxVersion \in Nat

VARIABLES
    stored,     \* the row; a content, and a batch, is named by the version of
                \* the row that the statement writing it produced
    calls,      \* the requests, resent ones included
    started,    \* how many of them have been sent
    shown       \* the representations callers have been given

apiVars == <<stored, calls, started, shown>>

Calls    == 1..MaxCalls
Sending  == {"send", "schedule"}
Guarded  == Sending \cup {"put", "cancel"}    \* those that require If-Match
Writes   == Guarded \cup {"create", "delete"}

Unsaved == [status |-> "none", version |-> 0, content |-> 0, batch |-> 0]
Saved == [status |-> "draft", version |-> 1, content |-> 1, batch |-> 0]

(* A reply's body and its ETag.                                            *)
View(row) == [version |-> row.version, content |-> row.content]

Call(stage, op, etag, basis, intent) ==
    [stage |-> stage, op |-> op, etag |-> etag, basis |-> basis, intent |-> intent,
     read |-> Unsaved, code |-> "none", did |-> FALSE, held |-> 0]

NoCall == Call("unused", "delete", 0, 0, 0)

APInit ==
    /\ \/ stored = Unsaved /\ shown = {}
       \/ stored = Saved /\ shown = {View(Saved)}
    /\ calls = [a \in Calls |-> NoCall]
    /\ started = 0

----------------------------------------------------------------------------
(* Answers.                                                                *)

(* classifyError: the status of every error a handler returns.             *)
HTTPStatus ==
    [ok |-> 200, unauthorized |-> 401, not_found |-> 404, version_mismatch |-> 412,
     already_sent |-> 409, send_in_progress |-> 409, scheduled |-> 409,
     cancel_window_closed |-> 409, invalid_request |-> 400,
     unprocessable_entity |-> 422, service_unavailable |-> 503, internal_error |-> 500]

Codes == DOMAIN HTTPStatus

(* What a request may be refused for before the service sees it.           *)
Flaws(op) ==
    {"none", "bearer token"}
    \cup (IF op = "create" THEN {} ELSE {"newsletter id"})
    \cup (IF op \in Guarded THEN {"If-Match"} ELSE {})
    \cup (IF op \in {"create", "put", "schedule"} THEN {"body"} ELSE {})

FlawCode(flaw) ==
    IF flaw = "none" THEN "ok"
    ELSE IF flaw = "bearer token" THEN "unauthorized" ELSE "invalid_request"

(* The sentinel error of a row that is no draft.                           *)
StatusCode(row) ==
    CASE row.status \in {"none", "gone"} -> "not_found"
      [] row.status = "sent"             -> "already_sent"
      [] row.status = "sending"          -> "send_in_progress"
      [] row.status = "scheduled"        -> "scheduled"
      [] row.status = "draft"            -> "ok"

(* If-Match "0" asks for no particular version.                            *)
StaleFault(r, row) == FALSE
Stale(r, row) == r.etag # 0 /\ row.version # r.etag

(* What the service makes of the row it reads, before it does anything.    *)
ReadCode(r, row) ==
    CASE r.op = "create" -> "ok"
      [] r.op \in {"put", "delete"} -> StatusCode(row)
      [] r.op \in Sending ->
             IF StatusCode(row) = "ok" /\ Stale(r, row) THEN "version_mismatch"
             ELSE StatusCode(row)
      [] r.op = "cancel" ->
             IF row.status \in {"none", "gone", "sent"} THEN StatusCode(row)
             ELSE IF row.batch = 0 THEN "invalid_request"
             ELSE IF Stale(r, row) THEN "version_mismatch" ELSE "ok"

Ended(r, code) == [r EXCEPT !.stage = "ended", !.code = code, !.read = Unsaved]

Proceed(a, r) == calls' = [calls EXCEPT ![a] = r] /\ UNCHANGED started

----------------------------------------------------------------------------
(* Callers.                                                                *)

(* A call that has been decoded, or refused for a flaw.                    *)
Receive(r, flaw) ==
    /\ started < MaxCalls
    /\ started' = started + 1
    /\ calls' = [calls EXCEPT ![started + 1] =
                   IF FlawCode(flaw) = "ok" THEN r ELSE Ended(r, FlawCode(flaw))]
    /\ UNCHANGED <<stored, shown>>

Known(op) == IF op \in Guarded THEN {View(Unsaved)} \cup shown ELSE {View(Unsaved)}

(* A caller acts on something it was shown, sends no usable If-Match, or   *)
(* makes up the ETag "0".  The newsletter followed is the one of a single  *)
(* create; any other makes another newsletter.                             *)
Ask(op, flaw) ==
    /\ op = "create" <=> stored.status = "none"
    /\ op = "create" => \A a \in Calls : calls[a].stage \in {"unused", "ended"}
    /\ \E view \in IF flaw = "If-Match" THEN {View(Unsaved)} ELSE Known(op) :
           Receive(Call("sent", op, view.version, view.content, started + 1), flaw)

(* The same request again, whether or not the first is still under way.    *)
AskAgain(a) ==
    /\ calls[a].stage # "unused" /\ calls[a].op # "create"
    /\ Receive(Call("sent", calls[a].op, calls[a].etag, calls[a].basis, calls[a].intent), "none")

----------------------------------------------------------------------------
(* Handlers.                                                               *)

GetNewsletter ==
    /\ stored.status \notin {"none", "gone"}
    /\ shown' = shown \cup {View(stored)}
    /\ UNCHANGED <<stored, calls, started>>

(* The service's read, and what it keeps of it.                            *)
Kept(op, row) == IF op \in Sending \cup {"cancel"} THEN row ELSE Unsaved

ReadRow(a) ==
    LET code == ReadCode(calls[a], stored) IN
    /\ calls[a].stage = "sent"
    /\ Proceed(a, IF code = "ok" THEN [calls[a] EXCEPT !.stage = "read",
                                                     !.read = Kept(calls[a].op, stored)]
                  ELSE Ended(calls[a], code))
    /\ UNCHANGED <<stored, shown>>

(* Validation, rendering, the audience, the schedule window, the cancel    *)
(* window, a provider or the database refuses before anything is written.  *)
(* A committee that is not found is answered as a newsletter that is not;  *)
(* committees are asked once the row has been read and found a draft.      *)
Declines(r) ==
    {"internal_error"}
    \cup (IF r.op \in Sending \cup {"create", "put"}
          THEN {"invalid_request", "unprocessable_entity"} ELSE {})
    \cup (IF r.op \in Sending \cup {"cancel"} THEN {"service_unavailable"} ELSE {})
    \cup (IF r.op \in Sending /\ r.stage = "read" THEN {"not_found"} ELSE {})
    \cup (IF r.op = "cancel" THEN {"cancel_window_closed"} ELSE {})

Decline(a) ==
    /\ calls[a].stage \in {"sent", "read", "checked"}
    /\ \E code \in Declines(calls[a]) : Proceed(a, Ended(calls[a], code))
    /\ UNCHANGED <<stored, shown>>

(* What a request still does between its read and its write: Update's own  *)
(* read of the row, and CancelScheduledBatch.                              *)
Check(a) ==
    /\ calls[a].stage = "read"
    /\ calls[a].op \in {"put", "cancel"}
    /\ Proceed(a, IF calls[a].op = "put" /\ stored.batch # 0
                  THEN Ended(calls[a], "invalid_request")
                  ELSE [calls[a] EXCEPT !.stage = "checked"])
    /\ UNCHANGED <<stored, shown>>

Ready(r) == r.stage = IF r.op \in {"put", "cancel"} THEN "checked" ELSE "read"

(* The WHERE clause of each statement.                                     *)
Hits(r, row) ==
    CASE r.op = "create"     -> row.status = "none"
      [] r.op = "put"        -> row.status # "gone" /\ row.version = r.etag
      [] r.op = "delete"     -> row.status = "draft"
      [] r.op \in Sending    -> row.status = "draft" /\ row.version = r.read.version
      [] r.op = "cancel"     -> /\ row.status \in {"scheduled", "sending"}
                                /\ row.batch = r.read.batch

(* The row it leaves.                                                      *)
Written(op, row) ==
    LET next == [row EXCEPT !.version = @ + 1] IN
    CASE op = "create"   -> Saved
      [] op = "put"      -> [next EXCEPT !.content = next.version]
      [] op = "delete"   -> [row EXCEPT !.status = "gone"]
      [] op = "send"     -> [next EXCEPT !.status = "sending"]
      [] op = "schedule" -> [next EXCEPT !.status = "sending", !.batch = next.version]
      [] op = "cancel"   -> [next EXCEPT !.status = "draft", !.batch = 0]

Reply(r, row) == IF r.op = "delete" THEN {} ELSE {View(row)}

(* The statement takes effect, and is answered with the row it returned;   *)
(* or the acknowledgement of the commit is lost.  A send without           *)
(* recipients goes on to settle the row itself.                            *)
Commit(a) ==
    LET r == calls[a]
        done == [r EXCEPT !.did = TRUE,
                          !.held = IF r.op \in Sending THEN r.read.content ELSE stored.content]
    IN
    /\ Ready(r) /\ Hits(r, stored)
    /\ stored' = Written(r.op, stored)
    /\ \/ Proceed(a, Ended(done, "ok")) /\ shown' = shown \cup Reply(r, stored')
       \/ Proceed(a, Ended(done, "internal_error")) /\ UNCHANGED shown
       \/ /\ r.op \in Sending
          /\ Proceed(a, [done EXCEPT !.stage = "claimed", !.read = stored'])
          /\ UNCHANGED shown

(* With a DELETE whose affected rows nobody counts.                        *)
MissFault(a) ==
    /\ Ready(calls[a]) /\ ~Hits(calls[a], stored)
    /\ Proceed(a, IF calls[a].op = "delete" THEN Ended(calls[a], "ok")
                  ELSE [calls[a] EXCEPT !.stage = "missed"])
    /\ UNCHANGED <<stored, shown>>

Miss(a) ==
    /\ Ready(calls[a]) /\ ~Hits(calls[a], stored)
    /\ Proceed(a, [calls[a] EXCEPT !.stage = "missed"])
    /\ UNCHANGED <<stored, shown>>

(* The read that explains a miss, or fails.                                *)
MissCode(op, row) ==
    IF row.status \in {"none", "gone"} THEN "not_found"
    ELSE IF op = "put" THEN "version_mismatch"
    ELSE IF StatusCode(row) # "ok" THEN StatusCode(row)
    ELSE IF op = "delete" THEN "send_in_progress" ELSE "version_mismatch"

Explain(a) ==
    /\ calls[a].stage = "missed"
    /\ \E code \in {MissCode(calls[a].op, stored), "internal_error"} :
           Proceed(a, Ended(calls[a], code))
    /\ UNCHANGED <<stored, shown>>

(* MarkSent inside the request, for an empty audience; it misses when the  *)
(* sweep, or a cancel of the batch, was faster.                            *)
SettleEmpty(a) ==
    LET ours == stored.status = "sending" /\ stored.version = calls[a].read.version IN
    /\ calls[a].stage = "claimed"
    /\ \/ /\ ours
          /\ stored' = [stored EXCEPT !.status = "sent", !.version = @ + 1]
          /\ Proceed(a, Ended(calls[a], "ok"))
          /\ shown' = shown \cup {View(stored')}
       \/ /\ ~ours
          /\ Proceed(a, [calls[a] EXCEPT !.stage = "missed"])
          /\ UNCHANGED <<stored, shown>>
       \/ /\ Proceed(a, Ended(calls[a], "internal_error"))
          /\ UNCHANGED <<stored, shown>>

(* What a statement of another request, of a fan-out job or of the sweep   *)
(* makes of the row.  An armed claim of nobody is settled as sent.         *)
Settled(row, status) == [row EXCEPT !.status = status, !.version = @ + 1]

Moves(row) ==
    CASE row.status = "draft" ->
             {Written(op, row) : op \in {"put", "delete"} \cup Sending}
      [] row.status = "sending" ->
             {Written("cancel", row), Settled(row, "sent")}
             \cup (IF row.batch = 0 THEN {} ELSE {Settled(row, "scheduled")})
      [] row.status = "scheduled" -> {Written("cancel", row), Settled(row, "sent")}
      [] OTHER -> {}

OthersWrite ==
    /\ stored.version < MaxVersion
    /\ stored' \in Moves(stored)
    /\ UNCHANGED <<calls, started, shown>>

APNext ==
    \/ \E op \in Writes : \E flaw \in Flaws(op) : Ask(op, flaw)
    \/ \E a \in Calls :
           \/ AskAgain(a) \/ ReadRow(a) \/ Decline(a) \/ Check(a)
           \/ Commit(a) \/ Miss(a) \/ Explain(a) \/ SettleEmpty(a)
    \/ GetNewsletter \/ OthersWrite

APSpec == APInit /\ [][APNext]_apiVars

----------------------------------------------------------------------------
(* Properties.                                                             *)

RowType == [status : {"none", "draft", "sending", "scheduled", "sent", "gone"},
            version : Nat, content : Nat, batch : Nat]

APTypeOK ==
    /\ stored \in RowType
    /\ started \in 0..MaxCalls
    /\ shown \subseteq [version : Nat, content : Nat]
    /\ calls \in [Calls ->
           [stage : {"unused", "sent", "read", "checked", "missed", "claimed", "ended"},
            op : Writes, etag : Nat, basis : Nat, intent : 0..MaxCalls,
            read : RowType, code : Codes \cup {"none"}, did : BOOLEAN, held : Nat]]

(* A request acts on exactly the content its caller was shown under the    *)
(* ETag it carries, and acts once, however often it is sent, delayed or    *)
(* answered late; If-Match "0", which asks for no version, apart.          *)
ActsOnceOnWhatWasSeen ==
    \A a \in Calls : calls[a].did /\ calls[a].op \in Guarded /\ calls[a].etag # 0 =>
        /\ calls[a].held = calls[a].basis
        /\ \A b \in Calls \ {a} : calls[b].did => calls[b].intent # calls[a].intent

(* An answer tells what happened: ok, that the request took effect; a      *)
(* refusal, that it changed nothing, but for a send without recipients     *)
(* that another actor settled; already_sent, that the newsletter is sent   *)
(* for good; version_mismatch, that the ETag is one of the past;           *)
(* not_found, that the newsletter is gone for good, but for a send or a    *)
(* schedule, which may mean one of its committees, and then left the       *)
(* newsletter as it was.                                                   *)
AnswersAreTrue ==
    \A a \in Calls :
        LET r == calls[a] IN
        /\ r.code = "ok" => r.did
        /\ r.did /\ r.code # "none" =>
               r.code = "ok" \/ HTTPStatus[r.code] >= 500 \/ r.op \in Sending
        /\ r.code = "already_sent" => stored.status = "sent"
        /\ r.code = "not_found" => stored.status = "gone" \/ (r.op \in Sending /\ ~r.did)
        /\ r.code = "version_mismatch" =>
               stored.status = "gone" \/ stored.version > r.etag

(* Whatever these requests and those of others do to the row, it is what   *)
(* NewsletterRow lets a statement do.                                      *)
TheRow == INSTANCE NewsletterRow WITH
    Batches <- Nat, Contents <- Nat, NoBatch <- 0,
    status <- stored.status, version <- stored.version,
    content <- stored.content, batch <- stored.batch, spent <- 1..stored.version

KeepsRow == TheRow!Spec
=============================================================================
