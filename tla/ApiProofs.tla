----------------------------- MODULE ApiProofs -----------------------------
(***************************************************************************)
(* Retries and answers of the API, for any number of requests.             *)
(*                                                                         *)
(* The argument: every statement advances the row, and all a request knows *)
(* of it is tied to a version (or, for a cancel, to a batch) that the row  *)
(* never has again once it has moved on.  Followed says what is known of   *)
(* one request; it survives whatever else advances the row.                *)
(***************************************************************************)
EXTENDS Api, TLAPS

Underway(r) == r.stage \in {"read", "checked"}

RowOK(row) ==
    /\ row.batch <= row.version
    /\ row.batch # 0 => row.status \in {"sending", "scheduled", "sent"}
    /\ row.status = "none" <=> row.version = 0
    /\ row.status = "none" => row = Unsaved

(* What one statement may make of the row.                                 *)
Advances(row, next) ==
    \/ next = row
    \/ row.status = "draft" /\ next = [row EXCEPT !.status = "gone"]
    \/ /\ row.status \notin {"gone", "sent"}
       /\ next.version = row.version + 1
       /\ next.status \notin {"none", "gone"}
       /\ next.batch \in {0, row.batch, next.version}
       /\ next.content = row.content \/ (row.batch = 0 /\ next.batch = 0)

(* A version names a content.                                              *)
Remembers(version, content, row) ==
    /\ version <= row.version
    /\ version # 0 /\ version = row.version => content = row.content

(* What is true of a request and the row until it has answered.            *)
Reading(r, row) ==
    /\ r.op \in Guarded => Remembers(r.etag, r.basis, row)
    /\ r.op = "put" /\ Underway(r) /\ row.version = r.etag => row.status \in {"draft", "gone"}
    /\ r.op \in Sending \cup {"cancel"} /\ Underway(r) =>
           /\ r.read.version # 0
           /\ Remembers(r.read.version, r.read.content, row)
           /\ r.etag # 0 => r.etag = r.read.version /\ r.basis = r.read.content
    /\ r.op \in Sending /\ Underway(r) /\ row.version = r.read.version =>
           row.status \in {"draft", "gone"}
    /\ r.op = "cancel" /\ Underway(r) =>
           /\ r.read.batch # 0 /\ r.read.batch <= row.version
           /\ row.version = r.read.version =>
                  row.status \in {"scheduled", "sending"} /\ row.batch = r.read.batch
           /\ row.batch = r.read.batch => row.content = r.read.content
    /\ r.op = "create" => r.stage \in {"unused", "sent", "read", "ended"}
    /\ r.stage = "missed" /\ r.op # "delete" => row.status = "gone" \/ row.version > r.etag

(* What a request has done.                                                *)
Acted(r, row) ==
    /\ r.stage = "claimed" =>
           /\ r.did /\ r.op \in Sending /\ r.code = "none"
           /\ r.read.version <= row.version
           /\ row.version = r.read.version => row.status = "sending"
    /\ Underway(r) \/ r.stage = "sent" => ~r.did
    /\ r.stage \in {"sent", "read", "checked", "missed"} => r.code = "none"
    /\ r.stage = "missed" /\ r.did => r.op \in Sending
    /\ r.did /\ r.op \in Guarded => row.version > r.etag
    /\ r.did /\ r.op \in Guarded /\ r.etag # 0 => r.held = r.basis

(* The answer is true, as AnswersAreTrue has it.                           *)
Answered(r, row) ==
    /\ r.code = "ok" => r.did
    /\ r.did /\ r.code # "none" => r.code \in {"ok", "internal_error"} \/ r.op \in Sending
    /\ r.code = "already_sent" => row.status = "sent"
    /\ r.code = "not_found" => row.status = "gone" \/ (r.op \in Sending /\ ~r.did)
    /\ r.code = "version_mismatch" => row.status = "gone" \/ row.version > r.etag

Followed(r, row) ==
    /\ row.status = "none" /\ r.stage # "unused" => r.op = "create"
    /\ Reading(r, row)
    /\ Acted(r, row)
    /\ Answered(r, row)

(* Two sendings of one request.                                            *)
Resent(r, s) ==
    r.stage # "unused" /\ s.stage # "unused" /\ r.intent = s.intent =>
        r.op = s.op /\ r.etag = s.etag /\ r.basis = s.basis

Once(r, s, row) ==
    r.did /\ r.op \in Guarded /\ r.etag # 0 /\ r.intent = s.intent =>
        /\ ~s.did
        /\ s.op = "cancel" /\ Underway(s) => row.batch # s.read.batch

(* The one create, while it lasts, is the one that makes the row.          *)
Creates(r) == r.op = "create" /\ r.stage \in {"sent", "read"}

CallType ==
    [stage : {"unused", "sent", "read", "checked", "missed", "claimed", "ended"},
     op : Writes, etag : Nat, basis : Nat, intent : 0..MaxCalls,
     read : RowType, code : Codes \cup {"none"}, did : BOOLEAN, held : Nat]

Inv ==
    /\ APTypeOK
    /\ RowOK(stored)
    /\ \A view \in shown : Remembers(view.version, view.content, stored)
    /\ \A a \in Calls : Followed(calls[a], stored)
    /\ \A a \in Calls : IF a > started THEN calls[a] = NoCall
                        ELSE calls[a].stage # "unused" /\ calls[a].intent \in 1..started
    /\ \A a, b \in Calls : Resent(calls[a], calls[b])
    /\ \A a \in Calls : \A b \in Calls \ {a} : Once(calls[a], calls[b], stored)
    /\ \A a \in Calls : Creates(calls[a]) => stored.status = "none"
    /\ \A a, b \in Calls : Creates(calls[a]) /\ Creates(calls[b]) => a = b

USE DEF Underway, Remembers, Creates

----------------------------------------------------------------------------
(* The row.                                                                *)

LEMMA WrittenRows ==
    ASSUME NEW row \in RowType
    PROVE  LET version == row.version + 1
               Row(status, content, batch) ==
                   [status |-> status, version |-> version, content |-> content, batch |-> batch]
           IN  /\ Written("create", row) = Saved
               /\ Written("put", row) = Row(row.status, version, row.batch)
               /\ Written("delete", row) = [row EXCEPT !.status = "gone"]
               /\ Written("send", row) = Row("sending", row.content, row.batch)
               /\ Written("schedule", row) = Row("sending", row.content, version)
               /\ Written("cancel", row) = Row("draft", row.content, 0)
               /\ \A status \in {"scheduled", "sent"} :
                      Settled(row, status) = Row(status, row.content, row.batch)
  <1>1. Written("create", row) = Saved
    BY DEF Written
  <1>2. Written("delete", row) = [row EXCEPT !.status = "gone"]
    BY DEF Written
  <1>3. [row EXCEPT !.version = @ + 1] = [status |-> row.status, version |-> row.version + 1,
                                         content |-> row.content, batch |-> row.batch]
    BY DEF RowType
  <1>4. Written("put", row) = [status |-> row.status, version |-> row.version + 1,
                               content |-> row.version + 1, batch |-> row.batch]
    BY <1>3 DEF Written
  <1>5. Written("send", row) = [status |-> "sending", version |-> row.version + 1,
                                content |-> row.content, batch |-> row.batch]
    BY <1>3 DEF Written
  <1>6. Written("schedule", row) = [status |-> "sending", version |-> row.version + 1,
                                    content |-> row.content, batch |-> row.version + 1]
    BY <1>3 DEF Written
  <1>7. Written("cancel", row) = [status |-> "draft", version |-> row.version + 1,
                                  content |-> row.content, batch |-> 0]
    BY <1>3 DEF Written
  <1>8. ASSUME NEW next \in {"scheduled", "sent"}
        PROVE  Settled(row, next) = [status |-> next, version |-> row.version + 1,
                                     content |-> row.content, batch |-> row.batch]
    <2>1. [row EXCEPT !.status = next] = [status |-> next, version |-> row.version,
                                          content |-> row.content, batch |-> row.batch]
      BY DEF RowType
    <2>2. Settled(row, next) = [[row EXCEPT !.status = next] EXCEPT !.version = row.version + 1]
      BY DEF Settled
    <2> QED
      BY <2>1, <2>2
  <1> QED
    BY <1>1, <1>2, <1>4, <1>5, <1>6, <1>7, <1>8

LEMMA BumpAdvances ==
    ASSUME NEW row \in RowType, RowOK(row), row.status \notin {"gone", "sent"},
           NEW next \in RowType, next.version = row.version + 1,
           next.status \notin {"none", "gone"},
           next.batch \in {0, row.batch, next.version},
           next.batch # 0 => next.status # "draft",
           next.content = row.content \/ (row.batch = 0 /\ next.batch = 0)
    PROVE  Advances(row, next) /\ RowOK(next)
  BY DEF RowType, RowOK, Advances

LEMMA DeleteAdvances ==
    ASSUME NEW row \in RowType, RowOK(row), row.status = "draft"
    PROVE  /\ Written("delete", row) \in RowType
           /\ Advances(row, Written("delete", row))
           /\ RowOK(Written("delete", row))
  BY WrittenRows DEF RowType, RowOK, Advances

LEMMA MovesAdvance ==
    ASSUME NEW row \in RowType, RowOK(row), NEW next \in Moves(row)
    PROVE  next \in RowType /\ Advances(row, next) /\ RowOK(next)
  <1>1. CASE row.status = "draft"
    <2>1. Moves(row) = {Written("put", row), Written("delete", row),
                        Written("send", row), Written("schedule", row)}
      BY <1>1 DEF Moves, Sending
    <2>2. row.batch = 0
      BY <1>1 DEF RowOK, RowType
    <2>3. CASE next = Written("delete", row)
      BY <1>1, <2>3, DeleteAdvances
    <2>4. CASE next # Written("delete", row)
      <3>1. /\ next \in RowType /\ next.version = row.version + 1
            /\ next.status \in {"draft", "sending"}
            /\ next.batch \in {0, next.version} /\ (next.batch # 0 => next.status # "draft")
            /\ next.content = row.content \/ next.batch = 0
        BY <1>1, <2>1, <2>2, <2>4, WrittenRows DEF RowType
      <3> QED
        BY <1>1, <2>2, <3>1, BumpAdvances
    <2> QED
      BY <2>3, <2>4
  <1>2. CASE row.status \in {"sending", "scheduled"}
    <2>1. next \in {Written("cancel", row), Settled(row, "sent"), Settled(row, "scheduled")}
      BY <1>2 DEF Moves
    <2>2. /\ next \in RowType /\ next.version = row.version + 1
          /\ next.status \in {"draft", "sent", "scheduled"}
          /\ next.batch \in {0, row.batch} /\ (next.batch # 0 => next.status # "draft")
          /\ next.content = row.content
      BY <1>2, <2>1, WrittenRows DEF RowType
    <2> QED
      BY <1>2, <2>2, BumpAdvances
  <1> QED
    BY <1>1, <1>2 DEF Moves, RowType

LEMMA WrittenAdvances ==
    ASSUME NEW row \in RowType, RowOK(row), NEW r \in CallType, Followed(r, row),
           Ready(r), Hits(r, row)
    PROVE  /\ Written(r.op, row) \in RowType
           /\ Advances(row, Written(r.op, row))
           /\ RowOK(Written(r.op, row))
  <1>1. CASE r.op = "create"
    <2>1. row = Unsaved
      BY <1>1 DEF Hits, RowOK, Sending
    <2>2. Written(r.op, row) = Saved
      BY <1>1, WrittenRows
    <2> QED
      BY <2>1, <2>2 DEF RowType, RowOK, Advances, Unsaved, Saved
  <1>2. CASE r.op \in {"put", "delete"} \cup Sending
    <2>1. row.status = "draft"
      BY <1>2 DEF Hits, Ready, Followed, Reading, CallType, Sending
    <2>2. Written(r.op, row) \in Moves(row)
      BY <1>2, <2>1 DEF Moves
    <2> QED
      BY <2>2, MovesAdvance
  <1>3. CASE r.op = "cancel"
    <2>1. row.status \in {"scheduled", "sending"}
      BY <1>3 DEF Hits, Sending
    <2>2. Written(r.op, row) \in Moves(row)
      BY <1>3, <2>1 DEF Moves
    <2> QED
      BY <2>2, MovesAdvance
  <1> QED
    BY <1>1, <1>2, <1>3 DEF CallType, Writes, Guarded, Sending

LEMMA RemembersAdvance ==
    ASSUME NEW row \in RowType, NEW next \in RowType, Advances(row, next),
           NEW version \in Nat, NEW content, Remembers(version, content, row)
    PROVE  Remembers(version, content, next)
  BY DEF RowType, Advances

LEMMA FollowedAdvances ==
    ASSUME NEW row \in RowType, NEW next \in RowType, RowOK(row), Advances(row, next),
           NEW r \in CallType, Followed(r, row), Creates(r) => next.status = "none"
    PROVE  Followed(r, next)
  <1> USE DEF RowType, CallType, Advances
  <1>1. Reading(r, next)
    <2>1. r.op \in Guarded => Remembers(r.etag, r.basis, next)
      BY RemembersAdvance DEF Followed, Reading
    <2>2. r.op = "put" /\ Underway(r) /\ next.version = r.etag => next.status \in {"draft", "gone"}
      BY DEF Followed, Reading, Guarded
    <2>3. r.op \in Sending \cup {"cancel"} /\ Underway(r) =>
              /\ r.read.version # 0
              /\ Remembers(r.read.version, r.read.content, next)
              /\ r.etag # 0 => r.etag = r.read.version /\ r.basis = r.read.content
      BY RemembersAdvance DEF Followed, Reading
    <2>4. r.op \in Sending /\ Underway(r) /\ next.version = r.read.version =>
              next.status \in {"draft", "gone"}
      BY DEF Followed, Reading
    <2>5. r.op = "cancel" /\ Underway(r) =>
              /\ r.read.batch # 0 /\ r.read.batch <= next.version
              /\ next.version = r.read.version =>
                     next.status \in {"scheduled", "sending"} /\ next.batch = r.read.batch
              /\ next.batch = r.read.batch => next.content = r.read.content
      <3>1. CASE row.status = "draft" /\ next = [row EXCEPT !.status = "gone"]
        BY <3>1 DEF Followed, Reading, RowOK
      <3>2. CASE next.version = row.version + 1
        BY <3>2 DEF Followed, Reading, RowOK
      <3> QED
        BY <3>1, <3>2 DEF Followed, Reading
    <2>6. r.op = "create" => r.stage \in {"unused", "sent", "read", "ended"}
      BY DEF Followed, Reading
    <2>7. r.stage = "missed" /\ r.op # "delete" => next.status = "gone" \/ next.version > r.etag
      BY DEF Followed, Reading
    <2> QED
      BY <2>1, <2>2, <2>3, <2>4, <2>5, <2>6, <2>7 DEF Reading
  <1>2. Acted(r, next)
    BY DEF Followed, Acted
  <1>3. Answered(r, next)
    BY DEF Followed, Answered
  <1>4. next.status = "none" /\ r.stage # "unused" => r.op = "create"
    BY DEF Followed
  <1> QED
    BY <1>1, <1>2, <1>3, <1>4 DEF Followed

LEMMA OnceAdvances ==
    ASSUME NEW row \in RowType, NEW next \in RowType, RowOK(row), Advances(row, next),
           NEW r \in CallType, NEW s \in CallType, Followed(s, row), Once(r, s, row)
    PROVE  Once(r, s, next)
  BY DEF RowType, CallType, Advances, Once, Followed, Reading

----------------------------------------------------------------------------
(* One request takes a step.                                               *)

LEMMA InvFacts ==
    ASSUME Inv
    PROVE  /\ stored \in RowType /\ RowOK(stored)
           /\ calls \in [Calls -> CallType]
           /\ started \in 0..MaxCalls /\ MaxCalls \in Nat
           /\ shown \subseteq [version : Nat, content : Nat]
           /\ \A a \in Calls : Followed(calls[a], stored)
  BY ApiAssumption DEF Inv, APTypeOK, CallType

LEMMA UnusedCall ==
    /\ NoCall.stage = "unused" /\ NoCall.op = "delete" /\ NoCall.code = "none"
    /\ NoCall.did = FALSE /\ NoCall.intent = 0 /\ NoCall \in CallType
  <1>1. NoCall = [stage |-> "unused", op |-> "delete", etag |-> 0, basis |-> 0, intent |-> 0,
                  read |-> Unsaved, code |-> "none", did |-> FALSE, held |-> 0]
    BY DEF NoCall, Call
  <1> QED
    BY <1>1, ApiAssumption DEF CallType, RowType, Unsaved, Writes, Guarded, Sending

LEMMA Turn ==
    ASSUME Inv, NEW a \in Calls, NEW r \in CallType, calls[a].stage # "unused",
           calls' = [calls EXCEPT ![a] = r], UNCHANGED started,
           r.stage # "unused", r.op = calls[a].op, r.etag = calls[a].etag,
           r.basis = calls[a].basis, r.intent = calls[a].intent,
           stored' \in RowType, RowOK(stored'), Advances(stored, stored'),
           Followed(r, stored'), shown' \subseteq [version : Nat, content : Nat],
           \A view \in shown' : Remembers(view.version, view.content, stored'),
           Creates(r) => Creates(calls[a]) /\ stored' = stored,
           stored' # stored => stored.status # "none" \/ Creates(calls[a]),
           \A b \in Calls \ {a} : /\ Once(r, calls[b], stored')
                                 /\ Once(calls[b], r, stored')
    PROVE  Inv'
  <1>1. /\ calls'[a] = r
        /\ \A b \in Calls \ {a} : calls'[b] = calls[b]
        /\ calls' \in [Calls -> CallType]
    BY InvFacts
  <1>2. APTypeOK'
    BY <1>1, InvFacts DEF APTypeOK, CallType
  <1>3. \A b \in Calls \ {a} : Creates(calls[b]) => stored'.status = "none"
    BY InvFacts DEF Inv
  <1>4. \A b \in Calls : Followed(calls[b], stored)' 
    <2>1. ASSUME NEW b \in Calls \ {a} PROVE Followed(calls[b], stored')
      BY <1>3, InvFacts, FollowedAdvances
    <2> QED
      BY <1>1, <2>1
  <1>5. \A b \in Calls : IF b > started THEN calls'[b] = NoCall
                         ELSE calls'[b].stage # "unused" /\ calls'[b].intent \in 1..started
    <2>1. ~(a > started)
      BY UnusedCall, InvFacts DEF Inv
    <2> QED
      BY <1>1, <2>1 DEF Inv
  <1>6. \A b, c \in Calls : Resent(calls[b], calls[c])'
    BY <1>1 DEF Inv, Resent
  <1>7. \A b \in Calls : \A c \in Calls \ {b} : Once(calls[b], calls[c], stored)'
    <2>1. ASSUME NEW b \in Calls \ {a}, NEW c \in Calls \ {a}, b # c
          PROVE  Once(calls[b], calls[c], stored')
      BY <2>1, InvFacts, OnceAdvances DEF Inv
    <2> QED
      BY <1>1, <2>1
  <1>8. /\ \A b \in Calls : Creates(calls[b])' => stored'.status = "none"
        /\ \A b, c \in Calls : Creates(calls[b])' /\ Creates(calls[c])' => b = c
    BY <1>1, <1>3 DEF Inv
  <1> QED
    BY <1>2, <1>4, <1>5, <1>6, <1>7, <1>8 DEF Inv

(* A step of a request that leaves the row alone.                          *)
LEMMA Quiet ==
    ASSUME Inv, NEW a \in Calls, NEW r \in CallType, calls[a].stage # "unused",
           calls' = [calls EXCEPT ![a] = r], UNCHANGED <<started, stored, shown>>,
           r.stage # "unused", r.op = calls[a].op, r.etag = calls[a].etag,
           r.basis = calls[a].basis, r.intent = calls[a].intent, r.did = calls[a].did,
           Followed(r, stored), Creates(r) => Creates(calls[a]),
           r.op = "cancel" /\ Underway(r) /\ r.etag # 0 =>
               r.etag = stored.version \/ (Underway(calls[a]) /\ r.read = calls[a].read)
    PROVE  Inv'
  <1>1. Advances(stored, stored)
    BY DEF Advances
  <1>2. ASSUME NEW b \in Calls \ {a}
        PROVE  Once(r, calls[b], stored) /\ Once(calls[b], r, stored)
    <2>1. Once(calls[a], calls[b], stored) /\ Once(calls[b], calls[a], stored)
      BY DEF Inv
    <2>2. Once(r, calls[b], stored)
      BY <2>1 DEF Once
    <2>3. ASSUME calls[b].did, calls[b].op \in Guarded, calls[b].etag # 0,
                 calls[b].intent = r.intent, r.op = "cancel", Underway(r)
          PROVE  stored.batch # r.read.batch
      <3>1. calls[b].stage # "unused"
        BY <2>3, UnusedCall, InvFacts DEF Inv, Calls
      <3>2. calls[b].etag = r.etag
        BY <2>3, <3>1 DEF Inv, Resent
      <3>3. stored.version > calls[b].etag
        BY <2>3, InvFacts DEF Followed, Acted
      <3> QED
        BY <2>1, <2>3, <3>2, <3>3, InvFacts DEF Once, CallType, RowType
    <2> QED
      BY <2>1, <2>2, <2>3 DEF Once
  <1> QED
    BY <1>1, <1>2, InvFacts, Turn DEF Inv

(* A new request is noted.                                                 *)
LEMMA Received ==
    ASSUME Inv, NEW r \in CallType, started < MaxCalls, started' = started + 1,
           calls' = [calls EXCEPT ![started + 1] = r], UNCHANGED <<stored, shown>>,
           r.stage \notin {"unused", "read", "checked"}, ~r.did, r.intent \in 1..(started + 1),
           Followed(r, stored), ~Creates(r) \/ \A b \in Calls : ~Creates(calls[b]),
           Creates(r) => stored.status = "none",
           \/ r.intent = started + 1
           \/ \E a \in Calls : /\ calls[a].stage # "unused" /\ calls[a].intent = r.intent
                               /\ calls[a].op = r.op /\ calls[a].etag = r.etag
                               /\ calls[a].basis = r.basis
    PROVE  Inv'
  <1> DEFINE n == started + 1
  <1>1. /\ n \in Calls /\ calls'[n] = r
        /\ \A b \in Calls \ {n} : calls'[b] = calls[b]
        /\ calls' \in [Calls -> CallType]
        /\ started' \in 0..MaxCalls
    BY InvFacts DEF Calls
  <1>2. APTypeOK'
    BY <1>1, InvFacts DEF APTypeOK, CallType
  <1>3. \A b \in Calls : IF b > started' THEN calls'[b] = NoCall
                         ELSE calls'[b].stage # "unused" /\ calls'[b].intent \in 1..started'
    BY <1>1, InvFacts DEF Inv, Calls
  <1>4. \A b \in Calls : calls[b].stage # "unused" => calls[b].intent \in 1..started
    BY UnusedCall, InvFacts DEF Inv, Calls
  <1>5. ASSUME NEW b \in Calls
        PROVE  Resent(r, calls[b]) /\ Resent(calls[b], r)
    <2>1. CASE r.intent = n
      BY <1>4, <2>1, InvFacts DEF Resent
    <2>2. CASE r.intent # n
      <3>1. PICK a \in Calls : /\ calls[a].stage # "unused" /\ calls[a].intent = r.intent
                               /\ calls[a].op = r.op /\ calls[a].etag = r.etag
                               /\ calls[a].basis = r.basis
        BY <2>2
      <3> QED
        BY <3>1 DEF Inv, Resent
    <2> QED
      BY <2>1, <2>2
  <1>6. \A b, c \in Calls : Resent(calls[b], calls[c])'
    BY <1>1, <1>5 DEF Inv, Resent
  <1>7. \A b \in Calls : \A c \in Calls \ {b} : Once(calls[b], calls[c], stored)'
    BY <1>1 DEF Inv, Once
  <1> QED
    BY <1>1, <1>2, <1>3, <1>6, <1>7 DEF Inv, Calls

----------------------------------------------------------------------------
(* The steps.                                                              *)

LEMMA EndedType ==
    ASSUME NEW r \in CallType, NEW code \in Codes
    PROVE  /\ Ended(r, code) \in CallType
           /\ Ended(r, code).stage = "ended" /\ Ended(r, code).code = code
           /\ Ended(r, code).op = r.op /\ Ended(r, code).etag = r.etag
           /\ Ended(r, code).basis = r.basis /\ Ended(r, code).intent = r.intent
           /\ Ended(r, code).did = r.did /\ Ended(r, code).held = r.held
  BY DEF CallType, RowType, Ended, Unsaved

LEMMA CodeNames ==
    Codes = {"ok", "unauthorized", "not_found", "version_mismatch", "already_sent",
             "send_in_progress", "scheduled", "cancel_window_closed", "invalid_request",
             "unprocessable_entity", "service_unavailable", "internal_error"}
  BY DEF Codes, HTTPStatus

(* A request that answers without touching the row.                        *)
LEMMA Answer ==
    ASSUME Inv, NEW a \in Calls, NEW code \in Codes,
           calls[a].stage \notin {"unused", "ended"},
           Proceed(a, Ended(calls[a], code)), UNCHANGED <<stored, shown>>,
           Answered(Ended(calls[a], code), stored)
    PROVE  Inv'
  <1> DEFINE r == Ended(calls[a], code)
  <1>1. calls[a] \in CallType /\ Followed(calls[a], stored)
    BY InvFacts
  <1>2. Reading(r, stored) /\ Acted(r, stored)
    BY <1>1, EndedType DEF Followed, Reading, Acted
  <1>3. Followed(r, stored)
    BY <1>1, <1>2, EndedType DEF Followed
  <1> QED
    BY <1>1, <1>3, EndedType, Quiet DEF Proceed

LEMMA InitInv == APInit => Inv
  <1> SUFFICES ASSUME APInit PROVE Inv
    OBVIOUS
  <1>1. APTypeOK
    BY UnusedCall, ApiAssumption DEF APInit, APTypeOK, CallType, RowType, Unsaved, Saved, View
  <1>2. RowOK(stored) /\ \A view \in shown : Remembers(view.version, view.content, stored)
    BY DEF APInit, RowOK, Unsaved, Saved, View
  <1>3. \A a \in Calls : calls[a] = NoCall
    BY DEF APInit
  <1>4. Followed(NoCall, stored)
    BY UnusedCall DEF Followed, Reading, Acted, Answered, Guarded, Sending
  <1>5. /\ \A a, b \in Calls : Resent(calls[a], calls[b])
        /\ \A a \in Calls : \A b \in Calls \ {a} : Once(calls[a], calls[b], stored)
        /\ \A a \in Calls : ~Creates(calls[a])
    BY <1>3, UnusedCall DEF Resent, Once
  <1>6. \A a \in Calls : a > started
    BY DEF APInit, Calls
  <1> QED
    BY <1>1, <1>2, <1>3, <1>4, <1>5, <1>6 DEF Inv

LEMMA AskStep ==
    ASSUME Inv, NEW op \in Writes, NEW flaw \in Flaws(op), Ask(op, flaw)
    PROVE  Inv'
  <1>1. PICK view \in {View(Unsaved)} \cup (IF op \in Guarded THEN shown ELSE {}) :
            Receive(Call("sent", op, view.version, view.content, started + 1), flaw)
    BY DEF Ask, Known
  <1> DEFINE s == Call("sent", op, view.version, view.content, started + 1)
             r == IF FlawCode(flaw) = "ok" THEN s ELSE Ended(s, FlawCode(flaw))
  <1>2. /\ started < MaxCalls /\ started' = started + 1
        /\ calls' = [calls EXCEPT ![started + 1] = r] /\ UNCHANGED <<stored, shown>>
    BY <1>1 DEF Receive
  <1>3. /\ view.version \in Nat /\ view.content \in Nat
        /\ op \in Guarded => Remembers(view.version, view.content, stored)
    BY InvFacts DEF Inv, View, Unsaved, RowType
  <1>4. /\ s.op = op /\ s.etag = view.version /\ s.basis = view.content /\ s.intent = started + 1
        /\ s.stage = "sent" /\ s.code = "none" /\ s.did = FALSE
    BY DEF Call
  <1>5. s \in CallType
    BY <1>2, <1>3, InvFacts DEF Call, CallType, RowType, Unsaved
  <1>6. FlawCode(flaw) \in {"ok", "unauthorized", "invalid_request"}
    BY DEF FlawCode
  <1>7. /\ r \in CallType /\ r.op = op /\ r.etag = view.version /\ r.basis = view.content
        /\ r.intent = started + 1 /\ r.did = FALSE /\ r.stage \in {"sent", "ended"}
        /\ r.stage = "sent" => r.code = "none"
        /\ r.code \in {"none", "unauthorized", "invalid_request"}
    BY <1>4, <1>5, <1>6, CodeNames, EndedType
  <1>8. Reading(r, stored) /\ Acted(r, stored) /\ Answered(r, stored)
    BY <1>3, <1>7 DEF Reading, Acted, Answered
  <1>9. Followed(r, stored)
    BY <1>7, <1>8 DEF Followed, Ask
  <1>10. ~Creates(r) \/ \A b \in Calls : ~Creates(calls[b])
    BY <1>7 DEF Ask
  <1>11. Creates(r) => stored.status = "none"
    BY <1>7 DEF Ask
  <1>12. r.intent \in 1..(started + 1)
    BY <1>2, <1>7, InvFacts
  <1> HIDE DEF r
  <1> QED
    BY <1>2, <1>7, <1>9, <1>10, <1>11, <1>12, Received

LEMMA AskAgainStep ==
    ASSUME Inv, NEW a \in Calls, AskAgain(a)
    PROVE  Inv'
  <1> DEFINE r == Call("sent", calls[a].op, calls[a].etag, calls[a].basis, calls[a].intent)
  <1>1. /\ started < MaxCalls /\ started' = started + 1
        /\ calls' = [calls EXCEPT ![started + 1] = r] /\ UNCHANGED <<stored, shown>>
        /\ calls[a].stage # "unused" /\ calls[a].op # "create"
    BY DEF AskAgain, Receive, FlawCode
  <1>2. /\ r.op = calls[a].op /\ r.etag = calls[a].etag /\ r.basis = calls[a].basis
        /\ r.intent = calls[a].intent
        /\ r.stage = "sent" /\ r.code = "none" /\ r.did = FALSE
    BY DEF Call
  <1>3. calls[a] \in CallType /\ Followed(calls[a], stored)
    BY InvFacts
  <1>4. calls[a].intent \in 1..started
    BY <1>1, UnusedCall, InvFacts DEF Inv, Calls
  <1>5. r \in CallType
    BY <1>3 DEF Call, CallType, RowType, Unsaved
  <1>6. Reading(r, stored) /\ Acted(r, stored) /\ Answered(r, stored)
    BY <1>1, <1>2, <1>3 DEF Followed, Reading, Acted, Answered
  <1>7. Followed(r, stored)
    BY <1>1, <1>2, <1>3, <1>6 DEF Followed
  <1>8. r.intent \in 1..(started + 1)
    BY <1>2, <1>4, InvFacts
  <1> QED
    BY <1>1, <1>2, <1>5, <1>7, <1>8, Received

LEMMA ReadRowStep ==
    ASSUME Inv, NEW a \in Calls, ReadRow(a)
    PROVE  Inv'
  <1> DEFINE code == ReadCode(calls[a], stored)
             r == [calls[a] EXCEPT !.stage = "read", !.read = Kept(calls[a].op, stored)]
  <1>1. /\ calls[a] \in CallType /\ Followed(calls[a], stored) /\ calls[a].stage = "sent"
        /\ stored \in RowType /\ RowOK(stored)
    BY InvFacts DEF ReadRow
  <1>2. /\ calls[a].op \in Writes
        /\ stored.status \in {"none", "draft", "sending", "scheduled", "sent", "gone"}
    BY <1>1 DEF CallType, RowType
  <1>3. CASE code = "ok"
    <2>1. /\ r \in CallType /\ r.stage = "read" /\ r.op = calls[a].op
          /\ r.etag = calls[a].etag /\ r.basis = calls[a].basis
          /\ r.intent = calls[a].intent /\ r.did = calls[a].did /\ r.code = calls[a].code
          /\ r.held = calls[a].held /\ r.read = Kept(calls[a].op, stored)
      BY <1>1 DEF CallType, Kept, RowType, Unsaved
    <2>2. stored.status = "none" => calls[a].op = "create"
      BY <1>1 DEF Followed
    <2>3. /\ r.op \in {"put", "delete"} \cup Sending => stored.status = "draft"
          /\ r.op = "cancel" => /\ stored.status \in {"scheduled", "sending"}
                                /\ stored.batch # 0
      <3>1. CASE r.op \in {"put", "delete"}
        BY <1>2, <1>3, <2>1, <3>1 DEF ReadCode, StatusCode, Sending
      <3>2. CASE r.op \in Sending
        BY <1>2, <1>3, <2>1, <3>2 DEF ReadCode, StatusCode, Sending
      <3>3. CASE r.op = "cancel"
        BY <1>1, <1>2, <1>3, <2>1, <3>3 DEF ReadCode, StatusCode, Sending, RowOK
      <3> QED
        BY <3>1, <3>2, <3>3
    <2>4. r.op \in Sending \cup {"cancel"} =>
              r.read = stored /\ (r.etag # 0 => r.etag = stored.version)
      BY <1>2, <1>3, <2>1, <2>3 DEF Kept, ReadCode, StatusCode, Stale, Sending
    <2>5. Reading(r, stored)
      BY <1>1, <2>1, <2>2, <2>3, <2>4
         DEF Followed, Reading, RowOK, RowType, CallType, Guarded, Sending
    <2>6. Acted(r, stored) /\ Answered(r, stored)
      BY <1>1, <2>1 DEF Followed, Acted, Answered
    <2>7. Followed(r, stored)
      BY <1>1, <2>1, <2>5, <2>6 DEF Followed
    <2>8. Proceed(a, r) /\ UNCHANGED <<stored, shown>>
      BY <1>3 DEF ReadRow
    <2> QED
      BY <1>1, <2>1, <2>4, <2>7, <2>8, Quiet DEF Proceed
  <1>4. CASE code # "ok"
    <2>1. code \in Codes
      BY <1>2, CodeNames DEF ReadCode, StatusCode, Writes, Guarded, Sending
    <2>2. calls[a].op # "create" /\ stored.status # "none"
      BY <1>1, <1>4 DEF ReadCode, Followed, Sending
    <2>3. /\ code = "already_sent" => stored.status = "sent"
          /\ code = "not_found" => stored.status = "gone"
          /\ code = "version_mismatch" => calls[a].op \in Guarded /\ Stale(calls[a], stored)
      BY <1>2, <2>2 DEF ReadCode, StatusCode, Writes, Guarded, Sending
    <2>4. code = "version_mismatch" => stored.version > calls[a].etag
      BY <1>1, <2>3 DEF Stale, Followed, Reading, CallType, RowType
    <2>5. ~calls[a].did
      BY <1>1 DEF Followed, Acted
    <2>6. Answered(Ended(calls[a], code), stored)
      BY <1>1, <1>4, <2>1, <2>3, <2>4, <2>5, EndedType DEF Answered
    <2>7. Proceed(a, Ended(calls[a], code)) /\ UNCHANGED <<stored, shown>>
      BY <1>4 DEF ReadRow
    <2> QED
      BY <1>1, <2>1, <2>6, <2>7, Answer
  <1> QED
    BY <1>3, <1>4

LEMMA DeclineStep ==
    ASSUME Inv, NEW a \in Calls, Decline(a)
    PROVE  Inv'
  <1>1. PICK code \in Declines(calls[a]) : Proceed(a, Ended(calls[a], code))
    BY DEF Decline
  <1>2. /\ code \in {"internal_error", "invalid_request", "unprocessable_entity",
                     "service_unavailable", "not_found", "cancel_window_closed"}
        /\ code = "not_found" => calls[a].op \in Sending
    BY DEF Declines
  <1>3. code \in Codes
    BY <1>2, CodeNames
  <1>4. calls[a] \in CallType /\ ~calls[a].did
    BY InvFacts DEF Decline, Followed, Acted
  <1>5. Answered(Ended(calls[a], code), stored)
    BY <1>2, <1>3, <1>4, EndedType DEF Answered
  <1> QED
    BY <1>1, <1>3, <1>5, Answer DEF Decline

LEMMA CheckStep ==
    ASSUME Inv, NEW a \in Calls, Check(a)
    PROVE  Inv'
  <1> DEFINE r == [calls[a] EXCEPT !.stage = "checked"]
  <1>1. /\ calls[a] \in CallType /\ Followed(calls[a], stored)
        /\ calls[a].stage = "read" /\ calls[a].op \in {"put", "cancel"}
    BY InvFacts DEF Check
  <1>2. CASE Proceed(a, Ended(calls[a], "invalid_request"))
    <2>1. Answered(Ended(calls[a], "invalid_request"), stored)
      BY <1>1, CodeNames, EndedType DEF Answered, Followed, Acted
    <2> QED
      BY <1>1, <1>2, <2>1, CodeNames, Answer DEF Check
  <1>3. CASE Proceed(a, r)
    <2>1. /\ r \in CallType /\ r.stage = "checked" /\ r.op = calls[a].op
          /\ r.etag = calls[a].etag /\ r.basis = calls[a].basis
          /\ r.intent = calls[a].intent /\ r.did = calls[a].did /\ r.code = calls[a].code
          /\ r.held = calls[a].held /\ r.read = calls[a].read
      BY <1>1 DEF CallType
    <2>2. Reading(r, stored) /\ Acted(r, stored) /\ Answered(r, stored)
      BY <1>1, <2>1 DEF Followed, Reading, Acted, Answered
    <2>3. Followed(r, stored)
      BY <1>1, <2>1, <2>2 DEF Followed
    <2> HIDE DEF r
    <2> QED
      BY <1>1, <1>3, <2>1, <2>3, Quiet DEF Proceed, Check
  <1> QED
    BY <1>2, <1>3 DEF Check

LEMMA MissStep ==
    ASSUME Inv, NEW a \in Calls, Miss(a)
    PROVE  Inv'
  <1> DEFINE r == [calls[a] EXCEPT !.stage = "missed"]
  <1>1. /\ calls[a] \in CallType /\ Followed(calls[a], stored) /\ Underway(calls[a])
        /\ stored \in RowType /\ ~Hits(calls[a], stored)
    BY InvFacts DEF Miss, Ready
  <1>2. /\ r \in CallType /\ r.stage = "missed" /\ r.op = calls[a].op
        /\ r.etag = calls[a].etag /\ r.basis = calls[a].basis
        /\ r.intent = calls[a].intent /\ r.did = calls[a].did /\ r.code = calls[a].code
        /\ r.held = calls[a].held /\ r.read = calls[a].read
    BY <1>1 DEF CallType
  <1>3. r.op # "create"
    <2> SUFFICES ASSUME calls[a].op = "create" PROVE FALSE
      BY <1>2
    <2>1. stored.status = "none"
      BY <1>1 DEF Inv, Followed, Reading
    <2> QED
      BY <1>1, <2>1 DEF Hits, Sending
  <1>4. r.op # "delete" => stored.status = "gone" \/ stored.version > r.etag
    <2>1. CASE r.op = "put"
      <3>1. ~(stored.status # "gone" /\ stored.version = r.etag)
        BY <1>1, <1>2, <2>1 DEF Hits, Sending
      <3> QED
        BY <1>1, <1>2, <2>1, <3>1 DEF Guarded, Followed, Reading, CallType, RowType
    <2>2. CASE r.op \in Sending
      <3>1. ~(stored.status = "draft" /\ stored.version = r.read.version)
        BY <1>1, <1>2, <2>2 DEF Hits, Sending
      <3> QED
        BY <1>1, <1>2, <2>2, <3>1 DEF Followed, Reading, CallType, RowType
    <2>3. CASE r.op = "cancel"
      <3>1. ~(stored.status \in {"scheduled", "sending"} /\ stored.batch = r.read.batch)
        BY <1>1, <1>2, <2>3 DEF Hits, Sending
      <3> QED
        BY <1>1, <1>2, <2>3, <3>1 DEF Followed, Reading, CallType, RowType
    <2> QED
      BY <1>2, <1>3, <2>1, <2>2, <2>3 DEF CallType, Writes, Guarded
  <1>5. Reading(r, stored) /\ Acted(r, stored) /\ Answered(r, stored)
    BY <1>1, <1>2, <1>3, <1>4 DEF Followed, Reading, Acted, Answered
  <1>6. Followed(r, stored)
    BY <1>1, <1>2, <1>5 DEF Followed
  <1>7. Proceed(a, r) /\ UNCHANGED <<stored, shown>>
    BY DEF Miss
  <1> HIDE DEF r
  <1> QED
    BY <1>1, <1>2, <1>6, <1>7, Quiet DEF Proceed

LEMMA ExplainStep ==
    ASSUME Inv, NEW a \in Calls, Explain(a)
    PROVE  Inv'
  <1>1. PICK code \in {MissCode(calls[a].op, stored), "internal_error"} :
            Proceed(a, Ended(calls[a], code))
    BY DEF Explain
  <1>2. /\ calls[a] \in CallType /\ Followed(calls[a], stored) /\ calls[a].stage = "missed"
        /\ stored \in RowType
    BY InvFacts DEF Explain
  <1>3. /\ stored.status # "none"
        /\ stored.status \in {"draft", "sending", "scheduled", "sent", "gone"}
    BY <1>2 DEF Followed, Reading, RowType
  <1>4. code \in Codes
    BY <1>3, CodeNames DEF MissCode, StatusCode
  <1>5. /\ code # "ok"
        /\ code = "already_sent" => stored.status = "sent"
        /\ code = "not_found" => stored.status = "gone"
        /\ code = "version_mismatch" => calls[a].op # "delete"
    BY <1>3 DEF MissCode, StatusCode
  <1>6. calls[a].did => calls[a].op \in Sending
    BY <1>2 DEF Followed, Acted
  <1>7. calls[a].op # "delete" => stored.status = "gone" \/ stored.version > calls[a].etag
    BY <1>2 DEF Followed, Reading
  <1>8. Answered(Ended(calls[a], code), stored)
    BY <1>2, <1>4, <1>5, <1>6, <1>7, EndedType DEF Answered
  <1> QED
    BY <1>1, <1>2, <1>4, <1>8, Answer DEF Explain

(* A statement takes effect once for all sendings of a request.            *)
LEMMA FirstTime ==
    ASSUME Inv, NEW a \in Calls, NEW b \in Calls \ {a}, Ready(calls[a]),
           Hits(calls[a], stored), calls[a].op \in Guarded, calls[a].etag # 0,
           calls[a].intent = calls[b].intent
    PROVE  /\ ~calls[b].did
           /\ calls[b].op = calls[a].op /\ calls[b].etag = calls[a].etag
  <1>1. /\ calls[a] \in CallType /\ Followed(calls[a], stored) /\ Underway(calls[a])
        /\ calls[b] \in CallType /\ Followed(calls[b], stored) /\ stored \in RowType
    BY InvFacts DEF Ready
  <1>2. calls[b].stage # "unused"
    BY <1>1, UnusedCall, InvFacts DEF Inv, Calls
  <1>3. calls[b].op = calls[a].op /\ calls[b].etag = calls[a].etag
    BY <1>1, <1>2 DEF Inv, Resent
  <1>4. ASSUME calls[b].did PROVE FALSE
    <2>1. stored.version > calls[a].etag
      BY <1>1, <1>3, <1>4 DEF Followed, Acted
    <2>2. CASE calls[a].op = "put"
      BY <1>1, <2>1, <2>2 DEF Hits, Sending, CallType, RowType
    <2>3. CASE calls[a].op \in Sending
      <3>1. stored.version = calls[a].read.version
        BY <2>3 DEF Hits, Sending
      <3> QED
        BY <1>1, <2>1, <2>3, <3>1 DEF Followed, Reading, CallType, RowType
    <2>4. CASE calls[a].op = "cancel"
      <3>1. stored.batch = calls[a].read.batch
        BY <2>4 DEF Hits, Sending
      <3>2. Once(calls[b], calls[a], stored)
        BY DEF Inv
      <3> QED
        BY <1>1, <1>3, <1>4, <2>4, <3>1, <3>2 DEF Once
    <2> QED
      BY <2>2, <2>3, <2>4 DEF Guarded
  <1> QED
    BY <1>3, <1>4

LEMMA CommitStep ==
    ASSUME Inv, NEW a \in Calls, Commit(a)
    PROVE  Inv'
  <1> DEFINE kept == IF calls[a].op \in Sending THEN calls[a].read.content ELSE stored.content
             done == [calls[a] EXCEPT !.did = TRUE, !.held = kept]
             claim == [done EXCEPT !.stage = "claimed", !.read = stored']
  <1>1. /\ calls[a] \in CallType /\ Followed(calls[a], stored) /\ Underway(calls[a])
        /\ stored \in RowType /\ RowOK(stored) /\ Ready(calls[a]) /\ Hits(calls[a], stored)
        /\ stored' = Written(calls[a].op, stored)
    BY InvFacts DEF Commit, Ready
  <1>2. stored' \in RowType /\ Advances(stored, stored') /\ RowOK(stored')
    BY <1>1, WrittenAdvances
  <1>3. kept \in Nat
    BY <1>1 DEF CallType, RowType
  <1>4. /\ done \in CallType /\ done.did /\ done.held = kept
        /\ done.op = calls[a].op /\ done.etag = calls[a].etag /\ done.basis = calls[a].basis
        /\ done.intent = calls[a].intent /\ done.stage = calls[a].stage
        /\ done.code = calls[a].code
    BY <1>1, <1>3 DEF CallType
  <1>5. /\ calls[a].op \in Guarded => stored'.version > calls[a].etag
        /\ calls[a].op \in Guarded /\ calls[a].etag # 0 => kept = calls[a].basis
        /\ calls[a].op \in Sending => stored'.status = "sending"
        /\ calls[a].op = "cancel" => stored'.batch = 0 /\ calls[a].read.batch # 0
    <2>1. CASE calls[a].op = "put"
      <3>1. stored.status # "gone" /\ stored.version = calls[a].etag
        BY <1>1, <2>1 DEF Hits, Sending
      <3>2. stored'.version = stored.version + 1
        BY <1>1, <2>1, WrittenRows
      <3> QED
        BY <1>1, <2>1, <3>1, <3>2 DEF Followed, Reading, Guarded, Sending, CallType, RowType
    <2>2. CASE calls[a].op \in Sending
      <3>1. stored.version = calls[a].read.version
        BY <1>1, <2>2 DEF Hits, Sending
      <3>2. stored'.version = stored.version + 1 /\ stored'.status = "sending"
        BY <1>1, <2>2, WrittenRows DEF Sending
      <3> QED
        BY <1>1, <2>2, <3>1, <3>2 DEF Followed, Reading, Guarded, Sending, CallType, RowType
    <2>3. CASE calls[a].op = "cancel"
      <3>1. stored.batch = calls[a].read.batch
        BY <1>1, <2>3 DEF Hits, Sending
      <3>2. stored'.version = stored.version + 1 /\ stored'.batch = 0
        BY <1>1, <2>3, WrittenRows
      <3> QED
        BY <1>1, <2>3, <3>1, <3>2 DEF Followed, Reading, Guarded, Sending, CallType, RowType
    <2> QED
      BY <2>1, <2>2, <2>3 DEF Guarded, Sending
  <1>6. /\ calls[a].op \in Guarded => Remembers(calls[a].etag, calls[a].basis, stored')
        /\ stored'.status # "none"
    <2>1. calls[a].op \in Guarded => Remembers(calls[a].etag, calls[a].basis, stored')
      BY <1>1, <1>2, <1>5 DEF CallType, RowType
    <2>2. stored'.status # "none"
      BY <1>1, WrittenRows
         DEF CallType, Writes, Guarded, Sending, Saved, Hits, RowType, Followed
    <2> QED
      BY <2>1, <2>2
  <1>7. ASSUME NEW r \in CallType, calls' = [calls EXCEPT ![a] = r], UNCHANGED started,
               r.did, r.held = kept, r.op = calls[a].op, r.etag = calls[a].etag,
               r.basis = calls[a].basis, r.intent = calls[a].intent,
               r.stage \in {"ended", "claimed"},
               r.stage = "ended" => r.code \in {"ok", "internal_error"},
               r.stage = "claimed" => /\ r.op \in Sending /\ r.read = stored'
                                      /\ r.code = calls[a].code,
               shown' \in {shown, shown \cup Reply(calls[a], stored')}
        PROVE  Inv'
    <2>1. Reading(r, stored')
      BY <1>6, <1>7 DEF Reading, Sending
    <2>2. Acted(r, stored') /\ Answered(r, stored')
      BY <1>1, <1>2, <1>5, <1>7 DEF Followed, Acted, Answered, RowType
    <2>3. Followed(r, stored')
      BY <1>6, <2>1, <2>2 DEF Followed
    <2>4. shown' \subseteq [version : Nat, content : Nat]
      BY <1>2, <1>7, InvFacts DEF Reply, View, RowType
    <2>5. \A view \in shown' : Remembers(view.version, view.content, stored')
      <3>1. ASSUME NEW view \in shown PROVE Remembers(view.version, view.content, stored')
        BY <1>1, <1>2, InvFacts, RemembersAdvance DEF Inv
      <3>2. Remembers(View(stored').version, View(stored').content, stored')
        BY <1>2 DEF View, RowType
      <3> QED
        BY <1>7, <3>1, <3>2 DEF Reply
    <2>6. stored' # stored => stored.status # "none" \/ Creates(calls[a])
      BY <1>1 DEF Followed, Reading
    <2>7. ASSUME NEW b \in Calls \ {a}
          PROVE  Once(r, calls[b], stored') /\ Once(calls[b], r, stored')
      <3>1. ASSUME r.op \in Guarded, r.etag # 0, r.intent = calls[b].intent
            PROVE  /\ ~calls[b].did
                   /\ calls[b].op = r.op
        BY <1>1, <1>7, <3>1, FirstTime
      <3>2. Once(r, calls[b], stored')
        <4> SUFFICES ASSUME r.op \in Guarded, r.etag # 0, r.intent = calls[b].intent
                     PROVE  /\ ~calls[b].did
                            /\ calls[b].op = "cancel" /\ Underway(calls[b]) =>
                                   stored'.batch # calls[b].read.batch
          BY DEF Once
        <4>1. Followed(calls[b], stored)
          BY InvFacts
        <4> QED
          BY <1>5, <1>7, <3>1, <4>1 DEF Followed, Reading
      <3>3. Once(calls[b], r, stored')
        <4> SUFFICES ASSUME calls[b].did, calls[b].op \in Guarded, calls[b].etag # 0,
                            calls[b].intent = r.intent
                     PROVE  FALSE
          BY DEF Once
        <4>1. calls[b].stage # "unused"
          BY UnusedCall, InvFacts DEF Inv, Calls
        <4>2. r.op = calls[b].op /\ r.etag = calls[b].etag
          BY <1>1, <1>7, <4>1 DEF Inv, Resent
        <4> QED
          BY <3>1, <4>2
      <3> QED
        BY <3>2, <3>3
    <2> QED
      BY <1>1, <1>2, <1>7, <2>3, <2>4, <2>5, <2>6, <2>7, Turn
  <1>8. CASE \/ Proceed(a, Ended(done, "ok")) /\ shown' = shown \cup Reply(calls[a], stored')
             \/ Proceed(a, Ended(done, "internal_error")) /\ UNCHANGED shown
    <2> HIDE DEF done, kept
    <2> QED
      BY <1>4, <1>7, <1>8, CodeNames, EndedType DEF Proceed
  <1>9. CASE calls[a].op \in Sending /\ Proceed(a, claim) /\ UNCHANGED shown
    <2>1. /\ claim \in CallType /\ claim.did /\ claim.held = kept
          /\ claim.op = calls[a].op /\ claim.etag = calls[a].etag
          /\ claim.basis = calls[a].basis /\ claim.intent = calls[a].intent
          /\ claim.stage = "claimed" /\ claim.code = calls[a].code /\ claim.read = stored'
      <3> HIDE DEF done, kept
      <3> QED
        BY <1>2, <1>4 DEF CallType
    <2> HIDE DEF claim, kept
    <2> QED
      BY <1>7, <1>9, <2>1 DEF Proceed
  <1> QED
    BY <1>8, <1>9 DEF Commit

LEMMA SettleEmptyStep ==
    ASSUME Inv, NEW a \in Calls, SettleEmpty(a)
    PROVE  Inv'
  <1>1. /\ calls[a] \in CallType /\ Followed(calls[a], stored) /\ calls[a].stage = "claimed"
        /\ stored \in RowType /\ RowOK(stored)
    BY InvFacts DEF SettleEmpty
  <1>2. /\ calls[a].did /\ calls[a].op \in Sending /\ calls[a].code = "none"
        /\ stored.version > calls[a].etag
    BY <1>1 DEF Followed, Acted, Guarded
  <1>3. CASE /\ stored.status = "sending"
             /\ stored' = [stored EXCEPT !.status = "sent", !.version = @ + 1]
             /\ Proceed(a, Ended(calls[a], "ok"))
             /\ shown' = shown \cup {View(stored')}
    <2> DEFINE r == Ended(calls[a], "ok")
    <2>1. stored' = [status |-> "sent", version |-> stored.version + 1,
                     content |-> stored.content, batch |-> stored.batch]
      BY <1>1, <1>3, WrittenRows DEF Settled
    <2>2. stored' \in RowType /\ Advances(stored, stored') /\ RowOK(stored')
      <3>1. stored' \in RowType
        BY <1>1, <2>1 DEF RowType
      <3> QED
        BY <1>1, <1>3, <2>1, <3>1, BumpAdvances
    <2>3. /\ r \in CallType /\ r.stage = "ended" /\ r.code = "ok" /\ r.op = calls[a].op
          /\ r.etag = calls[a].etag /\ r.basis = calls[a].basis /\ r.intent = calls[a].intent
          /\ r.did = calls[a].did /\ r.held = calls[a].held
      BY <1>1, CodeNames, EndedType
    <2>4. Followed(calls[a], stored')
      BY <1>1, <2>2, FollowedAdvances
    <2>5. Followed(r, stored')
      <3> HIDE DEF r
      <3>1. Reading(r, stored') /\ Acted(r, stored') /\ Answered(r, stored')
        BY <1>2, <2>3, <2>4 DEF Followed, Reading, Acted, Answered
      <3> QED
        BY <2>1, <3>1 DEF Followed
    <2>6. shown' \subseteq [version : Nat, content : Nat]
      BY <1>3, <2>2, InvFacts DEF View, RowType
    <2>7. \A view \in shown' : Remembers(view.version, view.content, stored')
      <3>1. ASSUME NEW view \in shown PROVE Remembers(view.version, view.content, stored')
        BY <1>1, <2>2, InvFacts, RemembersAdvance DEF Inv
      <3>2. Remembers(View(stored').version, View(stored').content, stored')
        BY <2>2 DEF View, RowType
      <3> QED
        BY <1>3, <3>1, <3>2
    <2>8. ASSUME NEW b \in Calls \ {a}
          PROVE  Once(r, calls[b], stored') /\ Once(calls[b], r, stored')
      <3>1. Once(calls[a], calls[b], stored') /\ Once(calls[b], calls[a], stored')
        BY <1>1, <2>2, InvFacts, OnceAdvances DEF Inv
      <3> QED
        BY <2>3, <3>1 DEF Once
    <2>9. calls' = [calls EXCEPT ![a] = r] /\ UNCHANGED started
      BY <1>3 DEF Proceed
    <2> HIDE DEF r
    <2> QED
      BY <1>1, <1>3, <2>2, <2>3, <2>5, <2>6, <2>7, <2>8, <2>9, Turn
  <1>4. CASE Proceed(a, [calls[a] EXCEPT !.stage = "missed"]) /\ UNCHANGED <<stored, shown>>
    <2> DEFINE r == [calls[a] EXCEPT !.stage = "missed"]
    <2>1. /\ r \in CallType /\ r.stage = "missed" /\ r.op = calls[a].op
          /\ r.etag = calls[a].etag /\ r.basis = calls[a].basis
          /\ r.intent = calls[a].intent /\ r.did = calls[a].did /\ r.code = calls[a].code
          /\ r.held = calls[a].held /\ r.read = calls[a].read
      BY <1>1 DEF CallType
    <2>2. Reading(r, stored) /\ Acted(r, stored) /\ Answered(r, stored)
      BY <1>1, <1>2, <2>1 DEF Followed, Reading, Acted, Answered, Sending
    <2>3. Followed(r, stored)
      BY <1>1, <2>1, <2>2 DEF Followed
    <2> HIDE DEF r
    <2> QED
      BY <1>1, <1>4, <2>1, <2>3, Quiet DEF Proceed, r
  <1>5. CASE Proceed(a, Ended(calls[a], "internal_error")) /\ UNCHANGED <<stored, shown>>
    <2>1. Answered(Ended(calls[a], "internal_error"), stored)
      BY <1>1, <1>2, CodeNames, EndedType DEF Answered
    <2> QED
      BY <1>1, <1>5, <2>1, CodeNames, Answer
  <1> QED
    BY <1>3, <1>4, <1>5 DEF SettleEmpty

LEMMA GetNewsletterStep ==
    ASSUME Inv, GetNewsletter
    PROVE  Inv'
  <1>1. /\ stored' = stored /\ calls' = calls /\ started' = started
        /\ shown' = shown \cup {View(stored)}
    BY DEF GetNewsletter
  <1>2. View(stored) \in [version : Nat, content : Nat]
    BY InvFacts DEF View, RowType
  <1>3. Remembers(View(stored).version, View(stored).content, stored)
    BY InvFacts DEF View, RowType
  <1> QED
    BY <1>1, <1>2, <1>3 DEF Inv, APTypeOK

LEMMA OthersWriteStep ==
    ASSUME Inv, OthersWrite
    PROVE  Inv'
  <1>1. /\ stored' \in RowType /\ Advances(stored, stored') /\ RowOK(stored')
        /\ calls' = calls /\ started' = started /\ shown' = shown
        /\ stored.status # "none"
    BY InvFacts, MovesAdvance DEF OthersWrite, Moves
  <1>2. APTypeOK'
    BY <1>1 DEF Inv, APTypeOK
  <1>3. \A view \in shown : Remembers(view.version, view.content, stored')
    <2> SUFFICES ASSUME NEW view \in shown
                 PROVE  Remembers(view.version, view.content, stored')
      OBVIOUS
    <2> QED
      BY <1>1, InvFacts, RemembersAdvance DEF Inv
  <1>4. \A a \in Calls : ~Creates(calls[a])
    BY <1>1 DEF Inv
  <1>5. \A a \in Calls : Followed(calls[a], stored')
    BY <1>1, <1>4, InvFacts, FollowedAdvances
  <1>6. \A a \in Calls : \A b \in Calls \ {a} : Once(calls[a], calls[b], stored')
    BY <1>1, InvFacts, OnceAdvances DEF Inv
  <1> QED
    BY <1>1, <1>2, <1>3, <1>4, <1>5, <1>6 DEF Inv, Resent

LEMMA StepInv == Inv /\ [APNext]_apiVars => Inv'
  <1> SUFFICES ASSUME Inv, [APNext]_apiVars PROVE Inv'
    OBVIOUS
  <1>1. ASSUME NEW op \in Writes, NEW flaw \in Flaws(op), Ask(op, flaw) PROVE Inv'
    BY <1>1, AskStep
  <1>2. ASSUME NEW a \in Calls,
               \/ AskAgain(a) \/ ReadRow(a) \/ Decline(a) \/ Check(a)
               \/ Commit(a) \/ Miss(a) \/ Explain(a) \/ SettleEmpty(a)
        PROVE  Inv'
    BY <1>2, AskAgainStep, ReadRowStep, DeclineStep, CheckStep,
       CommitStep, MissStep, ExplainStep, SettleEmptyStep
  <1>3. CASE GetNewsletter \/ OthersWrite
    BY <1>3, GetNewsletterStep, OthersWriteStep
  <1>4. CASE UNCHANGED apiVars
    BY <1>4 DEF apiVars, Inv, APTypeOK, Resent, Once
  <1> QED
    BY <1>1, <1>2, <1>3, <1>4 DEF APNext

LEMMA SpecInv == APSpec => []Inv
  BY InitInv, StepInv, PTL DEF APSpec

----------------------------------------------------------------------------
(* The theorems.                                                           *)

(* Whatever is sent again, delayed or answered late, a request acts once,  *)
(* and on the content its caller was shown under the ETag it carries.      *)
THEOREM ActsOnceOnWhatWasSeenHolds == APSpec => []ActsOnceOnWhatWasSeen
  <1>1. Inv => ActsOnceOnWhatWasSeen
    <2> SUFFICES ASSUME Inv, NEW a \in Calls, calls[a].did, calls[a].op \in Guarded,
                        calls[a].etag # 0
                 PROVE  /\ calls[a].held = calls[a].basis
                        /\ \A b \in Calls \ {a} :
                               calls[b].did => calls[b].intent # calls[a].intent
      BY DEF ActsOnceOnWhatWasSeen
    <2>1. calls[a].held = calls[a].basis
      BY InvFacts DEF Followed, Acted
    <2>2. ASSUME NEW b \in Calls \ {a}, calls[b].did
          PROVE  calls[b].intent # calls[a].intent
      BY <2>2 DEF Inv, Once
    <2> QED
      BY <2>1, <2>2
  <1> QED
    BY <1>1, SpecInv, PTL

(* What the API answers is so, and the answers that say for good stay so;  *)
(* a not_found given to a send or a schedule may speak of a committee, and *)
(* then nothing was done (classifyError, resolveRecipients).               *)
THEOREM AnswersAreTrueHolds == APSpec => []AnswersAreTrue
  <1>1. Inv => AnswersAreTrue
    <2> SUFFICES ASSUME Inv, NEW a \in Calls
                 PROVE  LET r == calls[a] IN
                        /\ r.code = "ok" => r.did
                        /\ r.did /\ r.code # "none" =>
                               r.code = "ok" \/ HTTPStatus[r.code] >= 500 \/ r.op \in Sending
                        /\ r.code = "already_sent" => stored.status = "sent"
                        /\ r.code = "not_found" =>
                               stored.status = "gone" \/ (r.op \in Sending /\ ~r.did)
                        /\ r.code = "version_mismatch" =>
                               stored.status = "gone" \/ stored.version > r.etag
      BY DEF AnswersAreTrue
    <2>1. Answered(calls[a], stored)
      BY InvFacts DEF Followed
    <2>2. HTTPStatus["internal_error"] >= 500
      BY DEF HTTPStatus
    <2> QED
      BY <2>1, <2>2 DEF Answered
  <1> QED
    BY <1>1, SpecInv, PTL

(* The row, the requests and what was shown have their types.              *)
THEOREM ApiTypesHold == APSpec => []APTypeOK
  <1>1. Inv => APTypeOK
    BY DEF Inv
  <1> QED
    BY <1>1, SpecInv, PTL

----------------------------------------------------------------------------
(* The row goes where NewsletterRow lets it go, and others may take it     *)
(* wherever NewsletterRow lets it go.                                      *)

(* A statement of NewsletterRow on a row that exists, its new content and  *)
(* its new batch named by the version it produces.                         *)
NamedStatement ==
    \/ TheRow!Edit /\ stored'.content = stored'.version
    \/ TheRow!Arm /\ stored'.batch = stored'.version
    \/ TheRow!Delete \/ TheRow!Claim
    \/ TheRow!Settle \/ TheRow!Schedule \/ TheRow!TakeBack

LEMMA SameRecord ==
    ASSUME NEW row \in RowType, NEW next \in RowType,
           next.status = row.status, next.version = row.version,
           next.content = row.content, next.batch = row.batch
    PROVE  next = row
  BY DEF RowType

LEMMA MovesAreStatements ==
    ASSUME stored \in RowType, RowOK(stored), stored' \in Moves(stored)
    PROVE  NamedStatement
  <1>1. CASE stored.status = "draft"
    <2>1. Moves(stored) = {Written("put", stored), Written("delete", stored),
                           Written("send", stored), Written("schedule", stored)}
      BY <1>1 DEF Moves, Sending
    <2>2. stored.batch = 0
      BY <1>1 DEF RowOK, RowType
    <2>3. CASE stored' = Written("delete", stored)
      <3>1. stored' = [stored EXCEPT !.status = "gone"]
        BY <2>3, WrittenRows
      <3> QED
        BY <1>1, <3>1 DEF NamedStatement, TheRow!Delete, RowType
    <2>4. CASE stored' = Written("put", stored)
      BY <1>1, <2>2, <2>4, WrittenRows DEF NamedStatement, TheRow!Edit, TheRow!Write, RowType
    <2>5. CASE stored' = Written("send", stored)
      BY <1>1, <2>2, <2>5, WrittenRows DEF NamedStatement, TheRow!Claim, TheRow!Write, RowType
    <2>6. CASE stored' = Written("schedule", stored)
      BY <1>1, <2>2, <2>6, WrittenRows DEF NamedStatement, TheRow!Arm, TheRow!Write, RowType
    <2> QED
      BY <2>1, <2>3, <2>4, <2>5, <2>6
  <1>2. CASE stored.status \in {"sending", "scheduled"}
    <2>1. CASE stored' = Written("cancel", stored)
      BY <1>2, <2>1, WrittenRows DEF NamedStatement, TheRow!TakeBack, TheRow!Write
    <2>2. CASE stored' = Settled(stored, "sent")
      BY <1>2, <2>2, WrittenRows DEF NamedStatement, TheRow!Settle, TheRow!Write
    <2>3. CASE stored' = Settled(stored, "scheduled") /\ stored.status = "sending"
               /\ stored.batch # 0
      BY <1>2, <2>3, WrittenRows DEF NamedStatement, TheRow!Schedule, TheRow!Write
    <2> QED
      BY <1>2, <2>1, <2>2, <2>3 DEF Moves
  <1> QED
    BY <1>1, <1>2 DEF Moves, RowType

LEMMA StatementsAreMoves ==
    ASSUME stored \in RowType, RowOK(stored), stored' \in RowType, NamedStatement
    PROVE  stored' \in Moves(stored)
  <1>1. CASE stored.status = "draft"
    <2>1. Moves(stored) = {Written("put", stored), Written("delete", stored),
                           Written("send", stored), Written("schedule", stored)}
      BY <1>1 DEF Moves, Sending
    <2>2. stored.batch = 0
      BY <1>1 DEF RowOK, RowType
    <2>3. CASE TheRow!Edit /\ stored'.content = stored'.version
      <3>1. Written("put", stored) =
                [status |-> "draft", version |-> stored.version + 1,
                 content |-> stored.version + 1, batch |-> 0]
        BY <1>1, <2>2, WrittenRows
      <3>2. Written("put", stored) \in RowType
        BY <3>1 DEF RowType
      <3>3. stored' = Written("put", stored)
        BY <2>3, <3>1, <3>2, SameRecord DEF TheRow!Edit, TheRow!Write
      <3> QED
        BY <2>1, <3>3
    <2>4. CASE TheRow!Arm /\ stored'.batch = stored'.version
      <3>1. stored' = Written("schedule", stored)
        BY <1>1, <2>4, WrittenRows DEF TheRow!Arm, TheRow!Write, RowType
      <3> QED
        BY <2>1, <3>1
    <2>5. CASE TheRow!Delete
      <3>1. stored' = [stored EXCEPT !.status = "gone"]
        BY <2>5 DEF TheRow!Delete, RowType
      <3> QED
        BY <2>1, <3>1, WrittenRows
    <2>6. CASE TheRow!Claim
      <3>1. stored' = Written("send", stored)
        BY <1>1, <2>2, <2>6, WrittenRows DEF TheRow!Claim, TheRow!Write, RowType
      <3> QED
        BY <2>1, <3>1
    <2> QED
      BY <1>1, <2>3, <2>4, <2>5, <2>6
         DEF NamedStatement, TheRow!Settle, TheRow!Schedule, TheRow!TakeBack
  <1>2. CASE stored.status # "draft"
    <2>1. CASE TheRow!Settle
      <3>1. stored' = Settled(stored, "sent")
        BY <2>1, WrittenRows DEF TheRow!Settle, TheRow!Write, RowType
      <3> QED
        BY <2>1, <3>1 DEF Moves, TheRow!Settle
    <2>2. CASE TheRow!Schedule
      <3>1. stored' = Settled(stored, "scheduled")
        BY <2>2, WrittenRows DEF TheRow!Schedule, TheRow!Write, RowType
      <3> QED
        BY <2>2, <3>1 DEF Moves, TheRow!Schedule
    <2>3. CASE TheRow!TakeBack
      <3>1. stored' = Written("cancel", stored)
        BY <2>3, WrittenRows DEF TheRow!TakeBack, TheRow!Write, RowType
      <3> QED
        BY <2>3, <3>1 DEF Moves, TheRow!TakeBack
    <2> QED
      BY <1>2, <2>1, <2>2, <2>3
         DEF NamedStatement, TheRow!Edit, TheRow!Arm, TheRow!Delete, TheRow!Claim
  <1> QED
    BY <1>1, <1>2

(* What Moves lets other requests, jobs and sweeps do to the row is what   *)
(* NewsletterRow lets any statement do, neither less nor more.             *)
THEOREM OthersDoWhatRowsDo ==
    ASSUME stored \in RowType, RowOK(stored), stored' \in RowType
    PROVE  stored' \in Moves(stored) <=> NamedStatement
  BY MovesAreStatements, StatementsAreMoves

LEMMA CommitKeepsRow ==
    ASSUME Inv, NEW a \in Calls, Commit(a)
    PROVE  TheRow!Statement
  <1> DEFINE r == calls[a]
  <1>1. /\ stored \in RowType /\ RowOK(stored) /\ r \in CallType /\ Followed(r, stored)
        /\ Ready(r) /\ Hits(r, stored) /\ stored' = Written(r.op, stored)
    BY InvFacts DEF Commit
  <1> HIDE DEF r
  <1>2. CASE r.op = "create"
    <2>1. stored = Unsaved
      BY <1>1, <1>2 DEF Hits, RowOK, Sending
    <2>2. stored' = Saved
      BY <1>1, <1>2, WrittenRows
    <2> QED
      BY <2>1, <2>2 DEF Unsaved, Saved, TheRow!Statement, TheRow!Insert, TheRow!Write
  <1>3. CASE r.op # "create"
    <2>1. stored' \in Moves(stored)
      <3>1. CASE r.op = "cancel"
        <4>1. stored.status \in {"scheduled", "sending"}
          BY <1>1, <3>1 DEF Hits, Sending
        <4> QED
          BY <1>1, <3>1, <4>1 DEF Moves
      <3>2. CASE r.op \in {"put", "delete"} \cup Sending
        <4>1. stored.status = "draft"
          BY <1>1, <3>2 DEF Hits, Ready, Followed, Reading, CallType, Sending
        <4> QED
          BY <1>1, <3>2, <4>1 DEF Moves
      <3> QED
        BY <1>1, <1>3, <3>1, <3>2 DEF CallType, Writes, Guarded, Sending
    <2> QED
      BY <1>1, <2>1, MovesAreStatements DEF NamedStatement, TheRow!Statement
  <1> QED
    BY <1>2, <1>3

LEMMA SettleEmptyKeepsRow ==
    ASSUME Inv, NEW a \in Calls, SettleEmpty(a)
    PROVE  TheRow!Statement \/ stored' = stored
  <1>1. CASE stored' = stored
    BY <1>1
  <1>2. CASE stored.status = "sending" /\
             stored' = [stored EXCEPT !.status = "sent", !.version = @ + 1]
    <2>1. stored \in RowType
      BY InvFacts
    <2> QED
      BY <1>2, <2>1 DEF RowType, TheRow!Statement, TheRow!Settle, TheRow!Write
  <1> QED
    BY <1>1, <1>2 DEF SettleEmpty

(* The row keeps to NewsletterRow whatever is sent, sent again, delayed or *)
(* lost: a request that acts late finds its statement's WHERE clause false *)
(* or the row as its statement expects it.                                 *)
THEOREM ApiKeepsRow == APSpec => KeepsRow
  <1>1. APInit => TheRow!Init
    BY DEF APInit, Saved, Unsaved, TheRow!Init
  <1>2. Inv /\ [APNext]_apiVars =>
            [TheRow!Next]_<<TheRow!row, 1..stored.version>>
    <2> SUFFICES ASSUME Inv, [APNext]_apiVars PROVE TheRow!Next
      OBVIOUS
    <2>1. TheRow!Statement \/ stored' = stored
      <3>1. ASSUME NEW a \in Calls, Commit(a) \/ SettleEmpty(a)
            PROVE  TheRow!Statement \/ stored' = stored
        BY <3>1, CommitKeepsRow, SettleEmptyKeepsRow
      <3>2. CASE OthersWrite
        BY <3>2, InvFacts, MovesAreStatements DEF OthersWrite, NamedStatement, TheRow!Statement
      <3> QED
        BY <3>1, <3>2 DEF APNext, apiVars, Ask, AskAgain, Receive, ReadRow, Decline, Check, Miss,
           Explain, GetNewsletter
    <2>2. stored.version \in Nat /\ stored'.version \in Nat /\ stored.version <= stored'.version
      <3>1. stored \in RowType
        BY InvFacts
      <3> QED
        BY <2>1, <3>1 DEF RowType, TheRow!Statement, TheRow!Insert, TheRow!Edit, TheRow!Delete,
           TheRow!Claim, TheRow!Arm, TheRow!Settle, TheRow!Schedule, TheRow!TakeBack, TheRow!Write
    <2> QED
      BY <2>1, <2>2 DEF TheRow!Next, TheRow!row
  <1> QED
    BY <1>1, <1>2, SpecInv, PTL DEF APSpec, KeepsRow, TheRow!Spec
=============================================================================
