--------------------------- MODULE ListingProofs ---------------------------
(***************************************************************************)
(* Keyset pagination and readers' marks for any number of newsletters,     *)
(* writes and readers and any page size.                                   *)
(***************************************************************************)
EXTENDS Listing, FiniteSetTheorems, WellFoundedInduction, TLAPS

----------------------------------------------------------------------------
(* Keys are strictly and totally ordered; a set of newsletters that is not *)
(* empty has a first and a last.                                           *)

Keys == Nat \X Nat

LEMMA KeyOrder ==
    ASSUME NEW a \in Keys, NEW b \in Keys, NEW c \in Keys
    PROVE  /\ ~KeyBelow(a, a)
           /\ KeyBelow(a, b) /\ KeyBelow(b, c) => KeyBelow(a, c)
           /\ a # b => KeyBelow(a, b) \/ KeyBelow(b, a)
  <1>1. PICK x \in Nat, y \in Nat : a = <<x, y>>
    BY DEF Keys
  <1>2. PICK u \in Nat, v \in Nat : b = <<u, v>>
    BY DEF Keys
  <1>3. PICK s \in Nat, t \in Nat : c = <<s, t>>
    BY DEF Keys
  <1> QED
    BY <1>1, <1>2, <1>3 DEF KeyBelow

LEMMA Extremes ==
    ASSUME NEW S, IsFiniteSet(S), S # {}, NEW key \in [S -> Keys],
           \A x, y \in S : key[x] = key[y] => x = y
    PROVE  /\ \E x \in S : \A y \in S \ {x} : KeyBelow(key[x], key[y])
           /\ \E x \in S : \A y \in S : ~KeyBelow(key[x], key[y])
  <1> DEFINE under(x) == {y \in S : KeyBelow(key[y], key[x])}
             over(x)  == {y \in S : KeyBelow(key[x], key[y])}
             R == StrictSubsetOrdering(S)
             F == FiniteSubsetsOf(S)
  <1>1. F = SUBSET S /\ IsWellFoundedOn(R, F)
    BY FS_FiniteSubsetsOfFinite, FS_StrictSubsetOrderingWellFounded
  <1>2. \A x, y, z \in S : /\ ~KeyBelow(key[x], key[x])
                           /\ KeyBelow(key[x], key[y]) /\ KeyBelow(key[y], key[z])
                                => KeyBelow(key[x], key[z])
                           /\ x # y => KeyBelow(key[x], key[y]) \/ KeyBelow(key[y], key[x])
    BY KeyOrder
  <1>3. \E x \in S : \A y \in S : ~KeyBelow(key[y], key[x])
    <2> DEFINE T == {under(x) : x \in S}
    <2>a. \A x \in S : under(x) \in SUBSET S
      OBVIOUS
    <2>b. \E x \in S : TRUE
      OBVIOUS
    <2> HIDE DEF under
    <2>1. T \subseteq F /\ T # {}
      BY <1>1, <2>a, <2>b
    <2> USE DEF under
    <2> HIDE DEF R, F, T
    <2>2. PICK u \in T : \A v \in T : <<v, u>> \notin R
      BY <1>1, <2>1, WFMin
    <2>3. PICK x \in S : u = under(x)
      BY DEF T
    <2>4. ASSUME NEW y \in S, KeyBelow(key[y], key[x]) PROVE FALSE
      <3>1. under(y) \subseteq under(x) /\ y \in under(x) /\ y \notin under(y)
        BY <1>2, <2>4
      <3>2. under(y) \in T /\ under(y) \in SUBSET S /\ under(x) \in SUBSET S
        BY DEF T
      <3> QED
        BY <2>2, <2>3, <3>1, <3>2 DEF R, StrictSubsetOrdering
    <2> QED
      BY <2>4
  <1>4. \E x \in S : \A y \in S : ~KeyBelow(key[x], key[y])
    <2> DEFINE T == {over(x) : x \in S}
    <2>a. \A x \in S : over(x) \in SUBSET S
      OBVIOUS
    <2>b. \E x \in S : TRUE
      OBVIOUS
    <2> HIDE DEF over
    <2>1. T \subseteq F /\ T # {}
      BY <1>1, <2>a, <2>b
    <2> USE DEF over
    <2> HIDE DEF R, F, T
    <2>2. PICK u \in T : \A v \in T : <<v, u>> \notin R
      BY <1>1, <2>1, WFMin
    <2>3. PICK x \in S : u = over(x)
      BY DEF T
    <2>4. ASSUME NEW y \in S, KeyBelow(key[x], key[y]) PROVE FALSE
      <3>1. over(y) \subseteq over(x) /\ y \in over(x) /\ y \notin over(y)
        BY <1>2, <2>4
      <3>2. over(y) \in T /\ over(y) \in SUBSET S /\ over(x) \in SUBSET S
        BY DEF T
      <3> QED
        BY <2>2, <2>3, <3>1, <3>2 DEF R, StrictSubsetOrdering
    <2> QED
      BY <2>4
  <1> QED
    BY <1>2, <1>3, <1>4

----------------------------------------------------------------------------
(* What a page holds, and what it leaves for the next.                     *)

LEMMA PageSizeFacts == PageSize \in Nat /\ PageSize > 0
  <1>1. PageSize \in Nat \ {0}
    BY ListingAssumption
  <1> QED
    BY <1>1

LEMMA KeyFacts ==
    ASSUME LITypeOK, NEW filter, NEW id \in Ids, Exists(id)
    PROVE  /\ rows[id] \in ListRows
           /\ SortKey(filter, id) \in Times \X Ids
           /\ SortKey(filter, id) \in Keys
           /\ SortKey(filter, id)[2] = id
  BY ListingAssumption DEF LITypeOK, Exists, SortKey, ListRows, Keys

LEMMA Ranks ==
    ASSUME LITypeOK, NEW filter, NEW found, found \subseteq {id \in Ids : Exists(id)}
    PROVE  /\ IsFiniteSet(found) /\ Cardinality(found) \in Nat
           /\ \A x \in found : /\ Rank(filter, x, found) \in Nat
                               /\ Rank(filter, x, found) < Cardinality(found)
           /\ \A x, y \in found :
                  KeyBelow(SortKey(filter, x), SortKey(filter, y))
                      => Rank(filter, y, found) < Rank(filter, x, found)
           /\ \A x \in found :
                  (\A y \in found : ~KeyBelow(SortKey(filter, x), SortKey(filter, y)))
                      => Rank(filter, x, found) = 0
  <1> DEFINE over(x) == {y \in found : KeyBelow(SortKey(filter, x), SortKey(filter, y))}
  <1>1. IsFiniteSet(found)
    BY ListingAssumption, FS_Subset
  <1>2. \A x \in found : over(x) \in SUBSET found /\ IsFiniteSet(over(x))
    BY <1>1, FS_Subset
  <1>3. \A x \in found : Rank(filter, x, found) = Cardinality(over(x))
    BY DEF Rank
  <1>4. \A x, y, z \in found :
            /\ ~KeyBelow(SortKey(filter, x), SortKey(filter, x))
            /\ KeyBelow(SortKey(filter, x), SortKey(filter, y))
                 /\ KeyBelow(SortKey(filter, y), SortKey(filter, z))
                 => KeyBelow(SortKey(filter, x), SortKey(filter, z))
    BY KeyFacts, KeyOrder
  <1>5. ASSUME NEW x \in found
        PROVE  Rank(filter, x, found) \in Nat /\ Rank(filter, x, found) < Cardinality(found)
    <2>1. over(x) # found
      BY <1>4
    <2>2. over(x) \in SUBSET found /\ IsFiniteSet(over(x))
      BY <1>2
    <2> HIDE DEF over
    <2>3. Cardinality(over(x)) <= Cardinality(found) /\ Cardinality(over(x)) # Cardinality(found)
      BY <1>1, <2>1, <2>2, FS_Subset
    <2>4. Cardinality(over(x)) \in Nat /\ Cardinality(found) \in Nat
      BY <1>1, <2>2, FS_CardinalityType
    <2> QED
      BY <1>3, <2>3, <2>4
  <1>6. ASSUME NEW x \in found, NEW y \in found,
               KeyBelow(SortKey(filter, x), SortKey(filter, y))
        PROVE  Rank(filter, y, found) < Rank(filter, x, found)
    <2>1. over(y) \in SUBSET over(x) /\ y \in over(x) /\ y \notin over(y)
      BY <1>4, <1>6
    <2>2. Cardinality(over(y)) <= Cardinality(over(x)) /\ Cardinality(over(y)) # Cardinality(over(x))
      BY <1>2, <2>1, FS_Subset
    <2> QED
      BY <1>2, <1>3, <2>2, FS_CardinalityType
  <1>7. ASSUME NEW x \in found,
               \A y \in found : ~KeyBelow(SortKey(filter, x), SortKey(filter, y))
        PROVE  Rank(filter, x, found) = 0
    <2>1. over(x) = {}
      BY <1>7
    <2> QED
      BY <1>3, <2>1, FS_EmptySet
  <1>8. Cardinality(found) \in Nat
    BY <1>1, FS_CardinalityType
  <1> QED
    BY <1>1, <1>5, <1>6, <1>7, <1>8

(* A full page ends with its least key, and everything else comes after    *)
(* that; a page that is not full holds everything.                         *)
LEMMA PageFacts ==
    ASSUME LITypeOK, NEW filter, NEW found, found \subseteq {id \in Ids : Exists(id)}
    PROVE  LET page == Page(filter, found)
               last == LastOf(filter, page)
           IN  /\ page \subseteq found
               /\ Cardinality(found) > PageSize =>
                      /\ last \in page
                      /\ \A id \in page : ~KeyBelow(SortKey(filter, id), SortKey(filter, last))
                      /\ \A id \in found \ page :
                             KeyBelow(SortKey(filter, id), SortKey(filter, last))
               /\ ~(Cardinality(found) > PageSize) => page = found
  <1> DEFINE page == Page(filter, found)
             last == LastOf(filter, page)
             key == [id \in found |-> SortKey(filter, id)]
  <1>1. page \subseteq found
    BY DEF Page
  <1>2. ASSUME Cardinality(found) > PageSize
        PROVE  /\ last \in page
               /\ \A id \in page : ~KeyBelow(SortKey(filter, id), SortKey(filter, last))
               /\ \A id \in found \ page : KeyBelow(SortKey(filter, id), SortKey(filter, last))
    <2>1. found # {}
      BY <1>2, PageSizeFacts, FS_EmptySet
    <2>2. /\ key \in [found -> Keys]
          /\ \A x, y \in found : key[x] = key[y] => x = y
      BY KeyFacts
    <2>3. PICK top \in found : \A y \in found : ~KeyBelow(key[top], key[y])
      BY <2>1, <2>2, Ranks, Extremes
    <2>4. top \in page
      BY <2>2, <2>3, Ranks, PageSizeFacts DEF Page
    <2>5. \E x \in page : \A y \in page \ {x} : KeyBelow(SortKey(filter, x), SortKey(filter, y))
      <3> DEFINE some == [id \in page |-> SortKey(filter, id)]
      <3>1. IsFiniteSet(page)
        BY <1>1, Ranks, FS_Subset
      <3>2. some \in [page -> Keys] /\ \A x, y \in page : some[x] = some[y] => x = y
        BY <1>1, <2>2
      <3> HIDE DEF some, page
      <3>3. \E x \in page : \A y \in page \ {x} : KeyBelow(some[x], some[y])
        BY <2>4, <3>1, <3>2, Extremes
      <3> QED
        BY <3>3 DEF some
    <2>6. last \in page /\ \A y \in page \ {last} :
              KeyBelow(SortKey(filter, last), SortKey(filter, y))
      BY <2>5 DEF LastOf
    <2>7. \A id \in page : ~KeyBelow(SortKey(filter, id), SortKey(filter, last))
      BY <1>1, <2>6, KeyFacts, KeyOrder
    <2>8. ASSUME NEW id \in found \ page
          PROVE  KeyBelow(SortKey(filter, id), SortKey(filter, last))
      <3>1. Rank(filter, last, found) < PageSize /\ last \in found
        BY <1>1, <2>6 DEF Page
      <3>2. ~(Rank(filter, id, found) < PageSize)
        BY DEF Page
      <3>3. ~KeyBelow(SortKey(filter, last), SortKey(filter, id))
        <4> HIDE DEF page, last
        <4>1. /\ Rank(filter, id, found) \in Nat /\ Rank(filter, last, found) \in Nat
              /\ KeyBelow(SortKey(filter, last), SortKey(filter, id))
                     => Rank(filter, id, found) < Rank(filter, last, found)
          BY <3>1, Ranks
        <4> QED
          BY <3>1, <3>2, <4>1, PageSizeFacts
      <3>4. id # last /\ SortKey(filter, id) # SortKey(filter, last)
        BY <2>6, <3>1, KeyFacts
      <3> QED
        BY <3>1, <3>3, <3>4, KeyFacts, KeyOrder
    <2> QED
      BY <2>6, <2>7, <2>8
  <1>3. ASSUME ~(Cardinality(found) > PageSize) PROVE page = found
    BY <1>3, Ranks, PageSizeFacts DEF Page
  <1> QED
    BY <1>1, <1>2, <1>3

----------------------------------------------------------------------------
(* The inductive invariant.                                                *)

Sent(id) == Exists(id) /\ rows[id].status = "sent"

(* What is marked, about to be marked or counted stays sent.               *)
Marked ==
    /\ \A m \in marks \cup requested : m.what # "open" => Sent(m.of)
    /\ \A m \in marks : Exists(m.of)
    /\ \A id \in figures : Sent(id)

(* What has come up so far is what the cursor leaves behind.               *)
Upcoming(id) == id \in Beyond(walk.filter, walk.from)

Walked ==
    /\ walk.filter = "none" => eligible = {}
    /\ walk.filter = "done" => \A id \in eligible : seen[id] = 1
    /\ walk.filter \in Filters =>
           \A id \in eligible :
               id \in Matching(walk.filter) /\ seen[id] = IF Upcoming(id) THEN 0 ELSE 1
    /\ walk.filter = "committee" =>
           \A id \in Ids :
               \/ seen[id] = 0
               \/ seen[id] = 1 /\ id \in Matching("committee") /\ ~Upcoming(id)

Inv == LITypeOK /\ Marked /\ Walked

LEMMA Bounds == MaxWrites \in Nat /\ FirstRows \subseteq ListRows \cup {Gone}
  BY ListingAssumption

LEMMA FilterNames == "none" \notin Filters /\ "done" \notin Filters
  BY ListingAssumption DEF RowStatuses

LEMMA InitInv == LIInit => Inv
  <1> SUFFICES ASSUME LIInit PROVE Inv
    OBVIOUS
  <1>1. LITypeOK
    <2>1. rows \in [Ids -> ListRows \cup {Gone}]
      BY Bounds DEF LIInit
    <2>2. writes \in 0..MaxWrites
      BY Bounds DEF LIInit
    <2> QED
      BY <2>1, <2>2 DEF LIInit, LITypeOK, NoWalk
  <1> QED
    BY <1>1, FilterNames DEF LIInit, Inv, Marked, Walked, NoWalk

----------------------------------------------------------------------------
(* A write of a newsletter that is not sent.                               *)

LEMMA WriteTypes ==
    ASSUME LITypeOK, NEW id \in Ids, NEW row \in ListRows \cup {Gone}, Write(id, row),
           marks' \subseteq marks
    PROVE  LITypeOK'
  <1>1. writes' \in 0..MaxWrites
    BY Bounds DEF LITypeOK, Write
  <1> QED
    BY <1>1 DEF LITypeOK, Write

LEMMA WriteStep ==
    ASSUME Inv, NEW id \in Ids, NEW row \in ListRows \cup {Gone}, Write(id, row),
           ~Sent(id), marks' \subseteq marks, row = Gone => \A m \in marks' : m.of # id
    PROVE  Inv'
  <1>1. LITypeOK'
    BY WriteTypes DEF Inv
  <1>2. \A other \in Ids \ {id} : /\ rows'[other] = rows[other]
                                  /\ Exists(other)' <=> Exists(other)
                                  /\ Sent(other)' <=> Sent(other)
    BY DEF Inv, LITypeOK, Write, Exists, Sent
  <1>3. rows'[id] = row
    BY DEF Inv, LITypeOK, Write
  <1>4. Marked'
    <2>1. ASSUME NEW m \in marks' \cup requested', m.what # "open" PROVE Sent(m.of)'
      <3>1. m \in marks \cup requested /\ m.of \in Ids
        BY DEF Inv, LITypeOK, Write
      <3>2. Sent(m.of)
        BY <2>1, <3>1 DEF Inv, Marked
      <3> QED
        BY <1>2, <3>1, <3>2
    <2>2. ASSUME NEW m \in marks' PROVE Exists(m.of)'
      <3>1. m.of \in Ids /\ Exists(m.of)
        BY DEF Inv, LITypeOK, Marked
      <3>2. CASE m.of = id
        BY <1>3, <3>2 DEF Exists
      <3> QED
        BY <1>2, <3>1, <3>2
    <2>3. ASSUME NEW other \in figures' PROVE Sent(other)'
      <3>1. other \in Ids /\ Sent(other)
        BY DEF Inv, LITypeOK, Marked, Write
      <3> QED
        BY <1>2, <3>1
    <2> QED
      BY <2>1, <2>2, <2>3 DEF Marked
  <1>5. Walked'
    <2>1. walk' = walk /\ seen' = seen /\ eligible' = eligible \ {id}
      BY DEF Write
    <2>2. ASSUME NEW filter, NEW other \in Ids \ {id}
          PROVE  /\ (other \in Matching(filter))' <=> other \in Matching(filter)
                 /\ SortKey(filter, other)' = SortKey(filter, other)
      BY <1>2 DEF Matching, SortKey
    <2>3. \A other \in Ids \ {id} :
              /\ Upcoming(other)' <=> Upcoming(other)
              /\ (other \in Matching(walk.filter))' <=> other \in Matching(walk.filter)
              /\ (other \in Matching("committee"))' <=> other \in Matching("committee")
      BY <2>1, <2>2 DEF Upcoming, Beyond
    <2>4. eligible' \subseteq Ids \ {id}
      BY <2>1 DEF Inv, LITypeOK
    <2>5. walk.filter = "committee" => seen[id] = 0
      BY DEF Inv, Walked, Matching, ListStatuses, Sent
    <2> QED
      BY <2>1, <2>3, <2>4, <2>5 DEF Inv, Walked
  <1> QED
    BY <1>1, <1>4, <1>5 DEF Inv

LEMMA WriteActions ==
    ASSUME Inv, NEW id \in Ids,
           \/ \E row \in FirstRows \ {Gone} : CreateRow(id, row)
           \/ \E at \in Times : EditDraft(id, at)
           \/ \E to \in RowStatuses, at, sentAt \in Times : ChangeStatus(id, to, at, sentAt)
           \/ DeleteDraft(id)
    PROVE  Inv'
  <1>1. ASSUME NEW row \in FirstRows \ {Gone}, CreateRow(id, row) PROVE Inv'
    BY <1>1, WriteStep, ListingAssumption DEF CreateRow, Sent
  <1>2. Exists(id) => rows[id] \in ListRows
    BY DEF Inv, LITypeOK, Exists
  <1>3. \A row \in ListRows : row # Gone
    BY DEF ListRows, Gone
  <1>4. ASSUME NEW at \in Times, EditDraft(id, at) PROVE Inv'
    <2>1. [rows[id] EXCEPT !.updated = at] \in ListRows
      BY <1>2, <1>4 DEF EditDraft, ListRows
    <2> QED
      BY <1>3, <1>4, <2>1, WriteStep DEF EditDraft, Sent
  <1>5. ASSUME NEW to \in RowStatuses, NEW at \in Times, NEW sentAt \in Times,
               ChangeStatus(id, to, at, sentAt)
        PROVE  Inv'
    <2> DEFINE row == [rows[id] EXCEPT !.status = to, !.updated = at,
                                       !.sent = IF to = "sent" THEN sentAt ELSE @]
    <2>1. row \in ListRows
      BY <1>2, <1>5 DEF ChangeStatus, ListRows
    <2>2. ~Sent(id) /\ Write(id, row) /\ marks' = marks
      BY <1>5 DEF ChangeStatus, Sent
    <2> QED
      BY <1>3, <2>1, <2>2, WriteStep
  <1>6. ASSUME DeleteDraft(id) PROVE Inv'
    <2>1. ~Sent(id) /\ Write(id, Gone) /\ marks' = {m \in marks : m.of # id}
      BY <1>6 DEF DeleteDraft, Sent
    <2> QED
      BY <2>1, WriteStep
  <1> QED
    BY <1>1, <1>4, <1>5, <1>6

----------------------------------------------------------------------------
(* Steps that write no newsletter.                                         *)

LEMMA MarkSteps ==
    ASSUME Inv, rows' = rows, UNCHANGED <<walk, seen, eligible, figures>>,
           LITypeOK', Marked'
    PROVE  Inv'
  BY DEF Inv, Walked, Upcoming, Beyond, Matching, Exists, SortKey

LEMMA CheckSteps ==
    ASSUME Inv, NEW mark \in [what : Left \cup {"open"}, of : Ids, by : Readers],
           mark.what # "open" => Sent(mark.of), Requested(mark)
    PROVE  Inv'
  <1>1. LITypeOK'
    <2>1. writes' \in 0..MaxWrites
      BY Bounds DEF Inv, LITypeOK, Requested
    <2> QED
      BY <2>1 DEF Inv, LITypeOK, Requested
  <1>2. Marked'
    BY DEF Inv, Marked, Requested, Sent, Exists
  <1> QED
    BY <1>1, <1>2, MarkSteps DEF Requested

LEMMA InsertSteps ==
    ASSUME Inv, NEW mark \in requested, InsertMark(mark)
    PROVE  Inv'
  <1>1. LITypeOK'
    BY DEF Inv, LITypeOK, InsertMark
  <1>2. Marked'
    BY DEF Inv, Marked, InsertMark, Sent, Exists
  <1> QED
    BY <1>1, <1>2, MarkSteps DEF InsertMark

LEMMA EraseSteps ==
    ASSUME Inv, NEW reader, NEW kinds, EraseReader(reader, kinds)
    PROVE  Inv'
  <1>1. LITypeOK'
    BY DEF Inv, LITypeOK, EraseReader
  <1>2. Marked'
    BY DEF Inv, Marked, EraseReader, Sent, Exists
  <1> QED
    BY <1>1, <1>2, MarkSteps DEF EraseReader

----------------------------------------------------------------------------
(* Paging.                                                                 *)

LEMMA StartSteps ==
    ASSUME Inv, NEW filter \in Filters, StartWalk(filter)
    PROVE  Inv'
  <1>1. LITypeOK'
    BY DEF Inv, LITypeOK, StartWalk, Matching
  <1>2. Marked'
    BY DEF Inv, Marked, StartWalk, Sent, Exists
  <1>3. \A id \in Ids : seen'[id] = 0
    BY DEF StartWalk
  <1>4. Walked'
    <2>1. /\ walk'.filter = filter /\ walk'.from = {} /\ rows' = rows
          /\ eligible' = Matching(filter)
      BY DEF StartWalk
    <2>2. \A id \in eligible' : id \in Matching(filter)' /\ Upcoming(id)' /\ id \in Ids
      BY <2>1 DEF Upcoming, Beyond, Matching, Exists
    <2> QED
      BY <1>3, <2>1, <2>2, FilterNames DEF Walked
  <1> QED
    BY <1>1, <1>2, <1>4 DEF Inv

LEMMA PageSteps ==
    ASSUME Inv, NextPage
    PROVE  Inv'
  <1> DEFINE found == Beyond(walk.filter, walk.from)
             page  == Page(walk.filter, found)
             last  == LastOf(walk.filter, page)
             key(id) == SortKey(walk.filter, id)
  <1>1. found \subseteq {id \in Ids : Exists(id)} /\ found \subseteq Matching(walk.filter)
    BY DEF Beyond, Matching
  <1>2. /\ page \subseteq found
        /\ Cardinality(found) > PageSize =>
               /\ last \in page
               /\ \A id \in page : ~KeyBelow(key(id), key(last))
               /\ \A id \in found \ page : KeyBelow(key(id), key(last))
        /\ ~(Cardinality(found) > PageSize) => page = found
    BY <1>1, PageFacts DEF Inv
  <1>3. /\ walk.filter \in Filters
        /\ walk' = IF Cardinality(found) > PageSize
                   THEN [walk EXCEPT !.from = {key(last)}]
                   ELSE [walk EXCEPT !.filter = "done"]
        /\ seen' = [id \in Ids |-> IF id \in page THEN seen[id] + 1 ELSE seen[id]]
        /\ figures' \in {{}, {id \in page : rows[id].status = "sent"}}
        /\ UNCHANGED <<rows, marks, requested, eligible, writes>>
    BY DEF NextPage
  <1> HIDE DEF page, last, found
  <1>4. page \subseteq Ids
    BY <1>1, <1>2
  <1>5. Cardinality(found) > PageSize => key(last) \in Times \X Ids
    BY <1>1, <1>2, KeyFacts DEF Inv
  <1>6. LITypeOK'
    <2>1. seen' \in [Ids -> Nat]
      BY <1>3 DEF Inv, LITypeOK
    <2>2. walk' \in [filter : Filters \cup {"none", "done"}, from : SUBSET (Times \X Ids)]
      BY <1>3, <1>5 DEF Inv, LITypeOK
    <2> QED
      BY <1>3, <1>4, <2>1, <2>2 DEF Inv, LITypeOK
  <1>7. Marked'
    BY <1>1, <1>2, <1>3 DEF Inv, Marked, Sent, Exists
  <1>8. CASE ~(Cardinality(found) > PageSize)
    <2>1. walk'.filter = "done" /\ page = found
      BY <1>2, <1>3, <1>8 DEF Inv, LITypeOK
    <2>2. \A id \in eligible' : seen'[id] = 1
      BY <1>3, <2>1 DEF Inv, Walked, Upcoming, LITypeOK, found
    <2> QED
      BY <1>6, <1>7, <2>1, <2>2, FilterNames DEF Inv, Walked
  <1>9. CASE Cardinality(found) > PageSize
    <2>1. walk'.filter = walk.filter /\ walk'.from = {key(last)}
      BY <1>3, <1>9 DEF Inv, LITypeOK
    <2>2. \A id \in Ids : /\ (id \in Matching(walk.filter))' <=> id \in Matching(walk.filter)
                          /\ (id \in Matching("committee"))' <=> id \in Matching("committee")
                          /\ key(id)' = SortKey(walk'.filter, id)
                          /\ SortKey(walk.filter, id)' = SortKey(walk.filter, id)
      BY <1>3, <2>1 DEF Matching, Exists, SortKey
    <2>3. \A id \in Ids : Upcoming(id)' <=> id \in Matching(walk.filter) /\ KeyBelow(key(id), key(last))
      BY <1>3, <2>1 DEF Upcoming, Beyond, Matching, Exists, SortKey
    <2>4. ASSUME NEW id \in Matching(walk.filter)
          PROVE  Upcoming(id)' <=> Upcoming(id) /\ id \notin page
      <3>1. id \in Ids /\ Exists(id) /\ last \in found /\ last \in Ids /\ Exists(last)
        BY <1>1, <1>2, <1>9 DEF Matching
      <3>2. CASE id \in found
        BY <1>2, <1>9, <2>3, <3>1, <3>2 DEF Upcoming, found
      <3>3. CASE id \notin found
        <4>1. PICK cursor \in walk.from : ~KeyBelow(key(id), cursor)
          BY <3>3 DEF found, Beyond
        <4>2. KeyBelow(key(last), cursor)
          BY <3>1, <4>1 DEF found, Beyond
        <4>3. cursor \in Keys /\ key(id) \in Keys /\ key(last) \in Keys
          BY <3>1, <4>1, KeyFacts, ListingAssumption DEF Inv, LITypeOK, Keys
        <4>4. ~KeyBelow(key(id), key(last))
          BY <4>1, <4>2, <4>3, KeyOrder
        <4> QED
          BY <2>3, <3>1, <3>3, <4>4 DEF Upcoming, found
      <3> QED
        BY <3>2, <3>3
    <2>5. \A id \in eligible' : /\ id \in Matching(walk.filter)
                                /\ seen'[id] = IF Upcoming(id)' THEN 0 ELSE 1
      <3> SUFFICES ASSUME NEW id \in eligible
                   PROVE  /\ id \in Matching(walk.filter)
                          /\ seen'[id] = IF Upcoming(id)' THEN 0 ELSE 1
        BY <1>3
      <3>1. id \in Ids /\ id \in Matching(walk.filter) /\ seen[id] = IF Upcoming(id) THEN 0 ELSE 1
        BY <1>3 DEF Inv, Walked, LITypeOK
      <3>2. id \in page => Upcoming(id)
        BY <1>2 DEF Upcoming, found
      <3>3. Upcoming(id)' <=> Upcoming(id) /\ id \notin page
        BY <2>4, <3>1
      <3>4. seen'[id] = IF id \in page THEN seen[id] + 1 ELSE seen[id]
        BY <1>3, <3>1
      <3> QED
        BY <3>1, <3>2, <3>3, <3>4
    <2>6. walk.filter = "committee" =>
              \A id \in Ids :
                  \/ seen'[id] = 0
                  \/ seen'[id] = 1 /\ id \in Matching("committee") /\ ~Upcoming(id)'
      <3> SUFFICES ASSUME walk.filter = "committee", NEW id \in Ids
                   PROVE  \/ seen'[id] = 0
                          \/ seen'[id] = 1 /\ id \in Matching("committee") /\ ~Upcoming(id)'
        OBVIOUS
      <3>1. \/ seen[id] = 0
            \/ seen[id] = 1 /\ id \in Matching("committee") /\ ~Upcoming(id)
        BY DEF Inv, Walked
      <3>2. CASE id \in page
        <4>1. Upcoming(id) /\ id \in Matching("committee")
          BY <1>1, <1>2, <3>2 DEF Upcoming, found
        <4> QED
          BY <1>3, <2>4, <3>1, <3>2, <4>1
      <3>3. CASE id \notin page
        BY <1>3, <2>4, <3>1, <3>3
      <3> QED
        BY <3>2, <3>3
    <2>7. walk.filter \notin {"none", "done"}
      BY <1>3, FilterNames
    <2>8. \A id \in eligible' : id \in Ids
      BY <1>6 DEF LITypeOK
    <2>9. Walked'
      BY <2>1, <2>2, <2>5, <2>6, <2>7, <2>8 DEF Walked
    <2> QED
      BY <1>6, <1>7, <2>9 DEF Inv
  <1> QED
    BY <1>8, <1>9

----------------------------------------------------------------------------
LEMMA StepInv == Inv /\ [LINext]_listingVars => Inv'
  <1> SUFFICES ASSUME Inv, [LINext]_listingVars PROVE Inv'
    OBVIOUS
  <1>1. ASSUME NEW id \in Ids, NEW reader \in Readers, CheckOpen(id, reader) PROVE Inv'
    BY <1>1, CheckSteps DEF CheckOpen, Mark
  <1>2. ASSUME NEW id \in Ids, NEW reader \in Readers, NEW what \in Left,
               CheckMark(what, id, reader)
        PROVE  Inv'
    BY <1>2, CheckSteps DEF CheckMark, Mark, Markable, Sent
  <1>3. CASE UNCHANGED listingVars
    BY <1>3 DEF listingVars, Inv, LITypeOK, Marked, Walked, Sent, Upcoming, Beyond,
                Matching, Exists, SortKey
  <1> QED
    BY <1>1, <1>2, <1>3, WriteActions, StartSteps, PageSteps, InsertSteps, EraseSteps
       DEF LINext, DeleteUserShares, DeleteUserPageViews

LEMMA SpecInv == LISpec => []Inv
  BY InitInv, StepInv, PTL DEF LISpec

(* The keyset cursor shows what is neither written nor gone exactly once,  *)
(* for any number of newsletters, page size and equal timestamps.          *)
THEOREM PagingMissesNothingHolds == LISpec => []PagingMissesNothing
  <1>1. Inv => PagingMissesNothing
    <2> SUFFICES ASSUME Inv PROVE PagingMissesNothing
      OBVIOUS
    <2>1. walk.filter \in Filters \cup {"none", "done"}
      BY DEF Inv, LITypeOK
    <2>2. \A id \in eligible : seen[id] <= 1
      BY <2>1 DEF Inv, Walked
    <2>3. walk.filter = "committee" => \A id \in Ids : seen[id] <= 1
      BY DEF Inv, Walked
    <2> QED
      BY <2>2, <2>3 DEF Inv, Walked, PagingMissesNothing
  <1> QED
    BY <1>1, SpecInv, PTL

(* A mark checked against a sent newsletter finds it sent when inserted.   *)
THEOREM MarksBelongToSentHolds == LISpec => []MarksBelongToSent
  <1>1. Inv => MarksBelongToSent
    BY DEF Inv, Marked, MarksBelongToSent, Sent
  <1> QED
    BY <1>1, SpecInv, PTL

(* Every variable of the listing component keeps its type.                 *)
THEOREM ListingTypesHold == LISpec => []LITypeOK
  BY SpecInv, PTL DEF Inv
=============================================================================
