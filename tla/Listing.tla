------------------------------ MODULE Listing ------------------------------
(***************************************************************************)
(* Newsletters paged by project or by committee while they are written,    *)
(* sent, reverted and deleted; and what readers leave on them: shares,     *)
(* page views and opens, each at most once per user.                       *)
(*                                                                         *)
(* Timestamps are those of the transactions that wrote them, which may     *)
(* commit in another order than they began: a write may carry any time.    *)
(***************************************************************************)
EXTENDS Integers, FiniteSets

CONSTANTS
    Times,         \* of updated_at and sent_at: numbers
    Ids,           \* newsletter ids, ordered: numbers
    PageSize,
    Filters,       \* a client may list by
    Readers,       \* principals that are neither blank nor anonymous
    Channels,      \* a share may go to
    MaxWrites,     \* bound on the writes and the readers' requests explored
    FirstRows      \* what a newsletter may be at first

RowStatuses == {"draft", "scheduled", "sending", "sent"}

(* ours: of the project that is listed; member: the listed committee is    *)
(* one of its committees.                                                  *)
ListRows == [ours : BOOLEAN, member : BOOLEAN, status : RowStatuses,
             updated : Times, sent : Times]

Gone == [gone |-> TRUE]

ASSUME ListingAssumption ==
    /\ Times \subseteq Nat /\ Ids \subseteq Nat /\ IsFiniteSet(Ids)
    /\ Filters \subseteq {"", "committee"} \cup RowStatuses
    /\ PageSize \in Nat \ {0} /\ MaxWrites \in Nat
    /\ FirstRows \subseteq ListRows \cup {Gone}

VARIABLES
    rows,         \* newsletters
    marks,        \* newsletter_shares, newsletter_page_views, newsletter_opens
    requested,    \* requests to leave a mark, checked and not yet inserted
    walk,         \* a client following page tokens
    seen,         \* how often each newsletter came up in the walk
    eligible,     \* matched when the walk began, and not written since
    figures,      \* newsletters the last page showed counts for
    writes

listingVars == <<rows, marks, requested, walk, seen, eligible, figures, writes>>

Mark(what, id, reader) == [what |-> what, of |-> id, by |-> reader]

Left == Channels \cup {"view"}

Exists(id) == rows[id] # Gone

NoWalk == [filter |-> "none", from |-> {}]

LIInit ==
    /\ rows \in [Ids -> FirstRows]
    /\ marks = {}
    /\ requested = {}
    /\ walk = NoWalk
    /\ seen = [id \in Ids |-> 0]
    /\ eligible = {}
    /\ figures = {}
    /\ writes = 0

LITypeOK ==
    /\ rows \in [Ids -> ListRows \cup {Gone}]
    /\ marks \subseteq [what : Left \cup {"open"}, of : Ids, by : Readers]
    /\ requested \subseteq [what : Left \cup {"open"}, of : Ids, by : Readers]
    /\ walk \in [filter : Filters \cup {"none", "done"}, from : SUBSET (Times \X Ids)]
    /\ seen \in [Ids -> Nat]
    /\ eligible \subseteq Ids
    /\ figures \subseteq Ids
    /\ writes \in 0..MaxWrites

----------------------------------------------------------------------------
(* Writes of newsletters, of whose guards only the status matters here.    *)

Write(id, row) ==
    /\ writes < MaxWrites
    /\ writes' = writes + 1
    /\ rows' = [rows EXCEPT ![id] = row]
    /\ eligible' = eligible \ {id}
    /\ UNCHANGED <<requested, walk, seen, figures>>

CreateRow(id, row) ==
    /\ ~Exists(id)
    /\ row.status = "draft"
    /\ Write(id, row)
    /\ UNCHANGED marks

EditDraft(id, at) ==
    /\ Exists(id) /\ rows[id].status = "draft"
    /\ Write(id, [rows[id] EXCEPT !.updated = at])
    /\ UNCHANGED marks

(* Any transition of a send; sent_at is the pod's clock or the moment the  *)
(* newsletter was scheduled for, not the time of the write.                *)
ChangeStatus(id, to, at, sentAt) ==
    /\ Exists(id)
    /\ <<rows[id].status, to>> \in
           {"draft"} \X {"sending"} \cup {"sending"} \X {"draft", "scheduled", "sent"}
           \cup {"scheduled"} \X {"draft", "sent"}
    /\ Write(id, [rows[id] EXCEPT !.status = to, !.updated = at,
                                  !.sent = IF to = "sent" THEN sentAt ELSE @])
    /\ UNCHANGED marks

(* The marks go with the row they reference: ON DELETE CASCADE.            *)
DeleteDraft(id) ==
    /\ Exists(id) /\ rows[id].status = "draft"
    /\ Write(id, Gone)
    /\ marks' = {m \in marks : m.of # id}

----------------------------------------------------------------------------
(* Pages.                                                                  *)

(* The Sent tab shows what is still being mailed as well.                  *)
ListStatuses(filter) ==
    CASE filter = ""          -> RowStatuses
      [] filter = "sent"      -> {"sent", "sending"}
      [] filter = "committee" -> {"sent"}
      [] OTHER                -> {filter}

Matching(filter) ==
    {id \in Ids : /\ Exists(id)
                  /\ rows[id].status \in ListStatuses(filter)
                  /\ IF filter = "committee" THEN rows[id].member ELSE rows[id].ours}

SortKey(filter, id) == <<IF filter = "committee" THEN rows[id].sent ELSE rows[id].updated, id>>

KeyBelow(a, b) == a[1] < b[1] \/ (a[1] = b[1] /\ a[2] < b[2])

(* What comes after the key of a page token; the first page has no token.  *)
BeyondFault(filter, cursor) ==
    {id \in Matching(filter) : \A key \in cursor : SortKey(filter, id)[1] < key[1]}
Beyond(filter, cursor) ==
    {id \in Matching(filter) : \A key \in cursor : KeyBelow(SortKey(filter, id), key)}

Rank(filter, id, among) ==
    Cardinality({other \in among : KeyBelow(SortKey(filter, id), SortKey(filter, other))})

StartWalk(filter) ==
    /\ walk.filter \in {"none", "done"}
    /\ walk' = [filter |-> filter, from |-> {}]
    /\ seen' = [id \in Ids |-> 0]
    /\ eligible' = Matching(filter)
    /\ UNCHANGED <<rows, marks, requested, figures, writes>>

Page(filter, found) == {id \in found : Rank(filter, id, found) < PageSize}

LastOf(filter, page) ==
    CHOOSE id \in page : \A other \in page \ {id} :
        KeyBelow(SortKey(filter, id), SortKey(filter, other))

(* One row more than a page is read, to tell whether there is another; the *)
(* token is the key of the last row shown.  Counts are read after the page *)
(* for the rows it found sent, or left out altogether when that fails.     *)
NextPage ==
    /\ walk.filter \in Filters
    /\ LET found == Beyond(walk.filter, walk.from)
           page  == Page(walk.filter, found)
       IN  /\ walk' = IF Cardinality(found) > PageSize
                      THEN [walk EXCEPT !.from =
                              {SortKey(walk.filter, LastOf(walk.filter, page))}]
                      ELSE [walk EXCEPT !.filter = "done"]
           /\ seen' = [id \in Ids |-> IF id \in page THEN seen[id] + 1 ELSE seen[id]]
           /\ figures' \in {{}, {id \in page : rows[id].status = "sent"}}
    /\ UNCHANGED <<rows, marks, requested, eligible, writes>>

----------------------------------------------------------------------------
(* Marks.                                                                  *)

MarkableFault(id) == rows[id].status # "draft"
Markable(id) == rows[id].status = "sent"

Requested(mark) ==
    /\ writes < MaxWrites
    /\ writes' = writes + 1
    /\ requested' = requested \cup {mark}
    /\ UNCHANGED <<rows, marks, walk, seen, eligible, figures>>

(* RecordShare and RecordPageView, up to their insert.                     *)
CheckMark(what, id, reader) ==
    /\ what \in Left
    /\ Exists(id) /\ rows[id].ours /\ Markable(id)
    /\ Requested(Mark(what, id, reader))

(* OpenPixel: drafts too, so that a test send can light up the pixel; and  *)
(* another project's, when the read that would tell fails and the next one *)
(* does not.                                                               *)
CheckOpen(id, reader) ==
    /\ Exists(id)
    /\ Requested(Mark("open", id, reader))

(* ON CONFLICT DO NOTHING; a newsletter deleted meanwhile fails the insert.*)
InsertMark(mark) ==
    /\ mark \in requested
    /\ requested' = requested \ {mark}
    /\ marks' = IF Exists(mark.of) THEN marks \cup {mark} ELSE marks
    /\ UNCHANGED <<rows, walk, seen, eligible, figures, writes>>

EraseReader(reader, kinds) ==
    /\ marks' = {m \in marks : m.by # reader \/ m.what \notin kinds}
    /\ marks' # marks
    /\ UNCHANGED <<rows, requested, walk, seen, eligible, figures, writes>>

DeleteUserShares(reader)    == EraseReader(reader, Channels)
DeleteUserPageViews(reader) == EraseReader(reader, {"view"})

----------------------------------------------------------------------------
LINext ==
    \/ \E id \in Ids :
          \/ \E row \in FirstRows \ {Gone} : CreateRow(id, row)
          \/ \E at \in Times : EditDraft(id, at)
          \/ \E to \in RowStatuses, at, sentAt \in Times : ChangeStatus(id, to, at, sentAt)
          \/ DeleteDraft(id)
          \/ \E reader \in Readers : \/ CheckOpen(id, reader)
                                     \/ \E what \in Left : CheckMark(what, id, reader)
    \/ \E filter \in Filters : StartWalk(filter)
    \/ NextPage
    \/ \E mark \in requested : InsertMark(mark)
    \/ \E reader \in Readers : DeleteUserShares(reader) \/ DeleteUserPageViews(reader)

LISpec == LIInit /\ [][LINext]_listingVars

----------------------------------------------------------------------------
(* Properties.                                                             *)

(* A walk through the pages shows every newsletter that matched when it    *)
(* began and was not written meanwhile exactly once, however many others   *)
(* share its timestamp, move, appear or go between two pages.  In a        *)
(* committee's list, whose order never changes, nothing comes up twice.    *)
PagingMissesNothing ==
    /\ \A id \in eligible : seen[id] <= 1
    /\ walk.filter = "done" => \A id \in eligible : seen[id] = 1
    /\ walk.filter = "committee" => \A id \in Ids : seen[id] <= 1

(* Shares and page views, inserted some time after their newsletter was    *)
(* looked at, and the counts a page shows of them, belong to newsletters   *)
(* that are sent now: never to one that was reverted or deleted between    *)
(* the look and the insert.  An open belongs to one that exists.           *)
MarksBelongToSent ==
    /\ \A m \in marks : /\ Exists(m.of)
                        /\ m.what # "open" => rows[m.of].status = "sent"
    /\ \A id \in figures : Exists(id) /\ rows[id].status = "sent"
=============================================================================
