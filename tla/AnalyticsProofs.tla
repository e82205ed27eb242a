-------------------------- MODULE AnalyticsProofs --------------------------
(***************************************************************************)
(* What a report, a listing and a page of totals say, for any newsletters, *)
(* people, hours, links and bounds.                                        *)
(*                                                                         *)
(* The argument: nothing in the world is ever forgotten, so a figure read  *)
(* between the beginning of a request and its answer lies between the      *)
(* figures of the two moments.  The invariant states those bounds for all  *)
(* that a request has read so far, step by step; WorldGrows shows that     *)
(* they widen as events arrive and a send finishes, and one lemma for each *)
(* read that it establishes its own.  They rest on lemmas of the queries:  *)
(* counts, daily series and the latest hour grow with the events, and the  *)
(* most recent opens overtake each one that they leave out.                *)
(***************************************************************************)
EXTENDS Analytics, FiniteSetTheorems, WellFoundedInduction, TLAPS

----------------------------------------------------------------------------
(* The queries.                                                            *)

(* A finite set of naturals has a greatest element: one that the fewest    *)
(* others exceed.                                                          *)
LEMMA GreatestExists ==
    ASSUME NEW S \in SUBSET Nat, IsFiniteSet(S), S # {}
    PROVE  \E most \in S : \A x \in S : x <= most
  <1> DEFINE Above(x) == {y \in S : y > x}
             Counts == {Cardinality(Above(x)) : x \in S}
  <1>1. \A x \in S : IsFiniteSet(Above(x)) /\ Cardinality(Above(x)) \in Nat
    BY FS_Subset, FS_CardinalityType
  <1>2. PICK least \in Counts : \A other \in Counts : ~(other < least)
    <2>1. Counts \in SUBSET Nat /\ Counts # {}
      BY <1>1
    <2>2. \E x \in Counts : \A y \in Counts : <<y, x>> \notin OpToRel(<, Nat)
      BY <2>1, NatLessThanWellFounded, WFMin
    <2> QED
      BY <2>1, <2>2 DEF OpToRel
  <1>3. PICK most \in S : least = Cardinality(Above(most))
    OBVIOUS
  <1>4. ASSUME NEW x \in S, x > most
        PROVE  FALSE
    <2> x \in Nat /\ most \in Nat /\ \A y \in S : y \in Nat
      OBVIOUS
    <2>1. Above(x) \in SUBSET Above(most) /\ Above(x) # Above(most)
      <3>1. x \in Above(most) /\ x \notin Above(x)
        BY <1>4
      <3>2. \A y \in S : y > x => y > most
        BY <1>4
      <3> QED
        BY <3>1, <3>2
    <2>2. Cardinality(Above(x)) < Cardinality(Above(most))
      BY <1>1, <2>1, FS_Subset
    <2> QED
      BY <1>2, <1>3, <2>2
  <1> QED
    BY <1>4

LEMMA LastIsGreatest ==
    ASSUME NEW events, IsFiniteSet(events), \A e \in events : e.at \in Nat
    PROVE  /\ Last(events) \in Nat
           /\ \A e \in events : e.at <= Last(events)
           /\ events = {} => Last(events) = 0
           /\ events # {} => \E e \in events : Last(events) = e.at
  <1>1. CASE events = {}
    BY <1>1 DEF Last
  <1>2. CASE events # {}
    <2> DEFINE Ats == {e.at : e \in events}
               f == [e \in events |-> e.at]
    <2>1. f \in Surjection(events, Ats)
      BY DEF Surjection
    <2>2. IsFiniteSet(Ats)
      BY <2>1, FS_Surjection
    <2>3. \E at \in Ats : \A x \in Ats : x <= at
      BY <1>2, <2>2, GreatestExists
    <2>4. \E at \in Ats : \A e \in events : at >= e.at
      BY <2>3
    <2>5. Last(events) = CHOOSE at \in Ats : \A e \in events : at >= e.at
      BY <1>2 DEF Last
    <2>6. Last(events) \in Ats /\ \A e \in events : Last(events) >= e.at
      BY <2>4, <2>5
    <2> QED
      BY <1>2, <2>6
  <1> QED
    BY <1>1, <1>2

LEMMA LastGrows ==
    ASSUME NEW more, IsFiniteSet(more), \A e \in more : e.at \in Nat,
           NEW events \in SUBSET more
    PROVE  Last(events) <= Last(more)
  <1>1. IsFiniteSet(events)
    BY FS_Subset
  <1> Last(more) \in Nat
    BY LastIsGreatest
  <1>2. CASE events = {}
    BY <1>1, <1>2, LastIsGreatest
  <1>3. CASE events # {}
    <2>1. PICK e \in events : Last(events) = e.at
      BY <1>1, <1>3, LastIsGreatest
    <2> QED
      BY <2>1, LastIsGreatest
  <1> QED
    BY <1>2, <1>3

LEMMA UniqueGrows ==
    ASSUME NEW more, IsFiniteSet(more), NEW events \in SUBSET more
    PROVE  /\ IsFiniteSet(Unique(events)) /\ Cardinality(Unique(events)) \in Nat
           /\ Unique(events) \subseteq Unique(more)
           /\ Cardinality(Unique(events)) <= Cardinality(Unique(more))
           /\ Cardinality(Unique(events)) <= Cardinality(events)
  <1> DEFINE f == [e \in more |-> e.by]
             g == [e \in events |-> e.by]
  <1>1. f \in Surjection(more, Unique(more)) /\ g \in Surjection(events, Unique(events))
    BY DEF Surjection, Unique
  <1>2. IsFiniteSet(Unique(more)) /\ IsFiniteSet(events)
    BY <1>1, FS_Surjection, FS_Subset
  <1>3. Cardinality(Unique(events)) <= Cardinality(events)
    BY <1>1, <1>2, FS_Surjection
  <1>4. Unique(events) \in SUBSET Unique(more)
    BY DEF Unique
  <1> QED
    BY <1>2, <1>3, <1>4, FS_Subset, FS_CardinalityType

----------------------------------------------------------------------------
(* What a store may be, and the order in which it grows.                   *)

Fields == {"total", "delivered", "failed", "opens", "uniqueOpens", "clicks", "uniqueClicks"}

Tallies == [Fields -> Nat]

OpenEvents == [by : People, at : Hours]

ClickEvents == [by : People, at : Hours, url : URLs]

Stores ==
    [recorded : SUBSET People, delivered : SUBSET People, failed : SUBSET People,
     opens : SUBSET OpenEvents, clicks : SUBSET ClickEvents]

StoreOK(s) ==
    /\ s \in Stores
    /\ IsFiniteSet(s.recorded) /\ s.delivered \subseteq s.recorded /\ s.failed \subseteq s.recorded
    /\ IsFiniteSet(s.opens) /\ \A e \in s.opens : e.by \in s.recorded
    /\ IsFiniteSet(s.clicks) /\ \A e \in s.clicks : e.by \in s.recorded

OpensOK(events) == events \subseteq OpenEvents /\ IsFiniteSet(events)

Grew(before, after) ==
    /\ before.recorded \subseteq after.recorded
    /\ before.delivered \subseteq after.delivered /\ before.failed \subseteq after.failed
    /\ before.opens \subseteq after.opens /\ before.clicks \subseteq after.clicks

LEMMA HoursArePositive == \A at \in Hours : at \in Nat /\ at > 0
  <1>1. Hours \subseteq Nat \ {0}
    BY AnalyticsAssumption
  <1> QED
    BY <1>1

LEMMA EmptyIsStore == StoreOK(Empty)
  BY FS_EmptySet DEF StoreOK, Stores, Empty

LEMMA OpensAreStore ==
    ASSUME NEW opens, OpensOK(opens)
    PROVE  LET s == [Empty EXCEPT !.opens = opens]
           IN  s = [recorded |-> {}, delivered |-> {}, failed |-> {}, opens |-> opens, clicks |-> {}]
  BY DEF Empty

(* The figures of a store are numbers, and none falls as the store grows.  *)
LEMMA ScalarsOfSets ==
    ASSUME NEW s, s = [recorded |-> s.recorded, delivered |-> s.delivered, failed |-> s.failed,
                       opens |-> s.opens, clicks |-> s.clicks],
           IsFiniteSet(s.recorded), IsFiniteSet(s.delivered), IsFiniteSet(s.failed),
           IsFiniteSet(s.opens), IsFiniteSet(s.clicks)
    PROVE  Scalars(s) \in Tallies
  <1>1. /\ Cardinality(s.recorded) \in Nat /\ Cardinality(s.delivered) \in Nat
        /\ Cardinality(s.failed) \in Nat /\ Cardinality(s.opens) \in Nat
        /\ Cardinality(s.clicks) \in Nat
    BY FS_CardinalityType
  <1>2. Cardinality(Unique(s.opens)) \in Nat /\ Cardinality(Unique(s.clicks)) \in Nat
    BY UniqueGrows
  <1> QED
    BY <1>1, <1>2 DEF Scalars, Tallies, Fields

LEMMA ScalarsGrow ==
    ASSUME NEW before, NEW after, Grew(before, after),
           IsFiniteSet(after.recorded), IsFiniteSet(after.delivered), IsFiniteSet(after.failed),
           IsFiniteSet(after.opens), IsFiniteSet(after.clicks)
    PROVE  \A field \in Fields :
              /\ Scalars(before)[field] \in Nat /\ Scalars(after)[field] \in Nat
              /\ Scalars(before)[field] <= Scalars(after)[field]
  <1>1. /\ Cardinality(before.recorded) \in Nat /\ Cardinality(after.recorded) \in Nat
        /\ Cardinality(before.recorded) <= Cardinality(after.recorded)
        /\ Cardinality(before.delivered) \in Nat /\ Cardinality(after.delivered) \in Nat
        /\ Cardinality(before.delivered) <= Cardinality(after.delivered)
    BY FS_Subset, FS_CardinalityType DEF Grew
  <1>2. /\ Cardinality(before.failed) \in Nat /\ Cardinality(after.failed) \in Nat
        /\ Cardinality(before.failed) <= Cardinality(after.failed)
        /\ Cardinality(before.opens) \in Nat /\ Cardinality(after.opens) \in Nat
        /\ Cardinality(before.opens) <= Cardinality(after.opens)
        /\ Cardinality(before.clicks) \in Nat /\ Cardinality(after.clicks) \in Nat
        /\ Cardinality(before.clicks) <= Cardinality(after.clicks)
    BY FS_Subset, FS_CardinalityType DEF Grew
  <1>3. /\ Cardinality(Unique(before.opens)) \in Nat /\ Cardinality(Unique(after.opens)) \in Nat
        /\ Cardinality(Unique(before.opens)) <= Cardinality(Unique(after.opens))
    BY UniqueGrows DEF Grew
  <1>4. /\ Cardinality(Unique(before.clicks)) \in Nat /\ Cardinality(Unique(after.clicks)) \in Nat
        /\ Cardinality(Unique(before.clicks)) <= Cardinality(Unique(after.clicks))
    BY UniqueGrows DEF Grew
  <1> QED
    BY <1>1, <1>2, <1>3, <1>4 DEF Scalars, Fields

(* A day's events of a smaller set are fewer; and where every day shows    *)
(* none there are none.                                                    *)
Within(low, daily, high) ==
    \A day \in Days : /\ daily[day].all \in Nat /\ daily[day].unique \in Nat
                      /\ Between(low[day].all, daily[day].all, high[day].all)
                      /\ Between(low[day].unique, daily[day].unique, high[day].unique)

LEMMA SeriesCounts ==
    ASSUME NEW events, IsFiniteSet(events), NEW day \in Days
    PROVE  /\ Series(events)[day].all = Cardinality({e \in events : Day(e.at) = day})
           /\ Series(events)[day].unique = Cardinality(Unique({e \in events : Day(e.at) = day}))
           /\ Series(events)[day].all \in Nat /\ Series(events)[day].unique \in Nat
  <1> DEFINE then == {e \in events : Day(e.at) = day}
  <1>1. IsFiniteSet(then) /\ Cardinality(then) \in Nat
    BY FS_Subset, FS_CardinalityType
  <1>2. Cardinality(Unique(then)) \in Nat
    BY <1>1, UniqueGrows
  <1>3. Series(events)[day] = [all |-> Cardinality(then), unique |-> Cardinality(Unique(then))]
    BY DEF Series
  <1> QED
    BY <1>1, <1>2, <1>3

LEMMA SeriesGrows ==
    ASSUME NEW more, IsFiniteSet(more), NEW events \in SUBSET more, NEW day \in Days
    PROVE  /\ Series(events)[day].all <= Series(more)[day].all
           /\ Series(events)[day].unique <= Series(more)[day].unique
  <1> DEFINE Then(some) == {e \in some : Day(e.at) = day}
  <1>1. IsFiniteSet(events)
    BY FS_Subset
  <1>2. IsFiniteSet(Then(more)) /\ Then(events) \in SUBSET Then(more)
    BY FS_Subset
  <1>3. Cardinality(Then(events)) <= Cardinality(Then(more))
    BY <1>2, FS_Subset
  <1>4. Cardinality(Unique(Then(events))) <= Cardinality(Unique(Then(more)))
    BY <1>2, UniqueGrows
  <1> QED
    BY <1>1, <1>3, <1>4, SeriesCounts

LEMMA SeriesBetween ==
    ASSUME NEW high, IsFiniteSet(high), NEW read \in SUBSET high, NEW low \in SUBSET read
    PROVE  Within(Series(low), Series(read), Series(high))
  <1> SUFFICES ASSUME NEW day \in Days
               PROVE  /\ Series(read)[day].all \in Nat /\ Series(read)[day].unique \in Nat
                      /\ Between(Series(low)[day].all, Series(read)[day].all, Series(high)[day].all)
                      /\ Between(Series(low)[day].unique, Series(read)[day].unique,
                                 Series(high)[day].unique)
    BY DEF Within
  <1>1. IsFiniteSet(read)
    BY FS_Subset
  <1>2. Series(read)[day].all \in Nat /\ Series(read)[day].unique \in Nat
    BY <1>1, SeriesCounts
  <1>3. /\ Series(low)[day].all <= Series(read)[day].all
        /\ Series(low)[day].unique <= Series(read)[day].unique
    BY <1>1, SeriesGrows
  <1>4. /\ Series(read)[day].all <= Series(high)[day].all
        /\ Series(read)[day].unique <= Series(high)[day].unique
    BY SeriesGrows
  <1> QED
    BY <1>2, <1>3, <1>4 DEF Between

LEMMA NothingShownNothingThere ==
    ASSUME NEW low, IsFiniteSet(low), \A e \in low : e.at \in Hours, NEW high,
           Within(Series(low), NoSeries, high)
    PROVE  low = {}
  <1> SUFFICES ASSUME NEW e \in low PROVE FALSE
    OBVIOUS
  <1> DEFINE then == {f \in low : Day(f.at) = Day(e.at)}
  <1>1. Day(e.at) \in Days
    BY DEF Days
  <1>2. IsFiniteSet(then) /\ Cardinality(then) \in Nat
    BY FS_Subset, FS_CardinalityType
  <1>3. Cardinality(then) > 0
    BY <1>2, FS_EmptySet
  <1>4. Series(low)[Day(e.at)].all = Cardinality(then)
    BY <1>1, SeriesCounts
  <1>5. NoSeries[Day(e.at)].all = 0
    <2>1. {f \in {} : Day(f.at) = Day(e.at)} = {}
      OBVIOUS
    <2>2. NoSeries[Day(e.at)].all = Cardinality({f \in {} : Day(f.at) = Day(e.at)})
      BY <1>1, FS_EmptySet, SeriesCounts DEF NoSeries
    <2> QED
      BY <2>1, <2>2, FS_EmptySet
  <1>6. Series(low)[Day(e.at)].all <= NoSeries[Day(e.at)].all
    BY <1>1 DEF Within, Between
  <1> QED
    BY <1>2, <1>3, <1>4, <1>5, <1>6

(* An open that the listing leaves out was overtaken by as many later ones *)
(* of its recipient, among those that it shows, as it may show.  Otherwise *)
(* the latest that is left out of those after it had too few after it.     *)
LEMMA RecentIsSome ==
    ASSUME NEW events, NEW cap
    PROVE  MostRecent(events, cap) \subseteq events
  BY DEF MostRecent

LEMMA OvertakenByTheRecent ==
    ASSUME NEW events, IsFiniteSet(events), \A e \in events : e.at \in Nat,
           NEW cap \in Nat, NEW e \in events, e \notin MostRecent(events, cap)
    PROVE  Cardinality({f \in MostRecent(events, cap) : f.by = e.by /\ f.at >= e.at}) >= cap
  <1> DEFINE Recent == MostRecent(events, cap)
             After(f) == {later \in events : later.by = f.by /\ later.at > f.at}
             shown == {f \in Recent : f.by = e.by /\ f.at >= e.at}
             kept == After(e) \cap Recent
             lost == After(e) \ Recent
  <1>1. \A f \in events : IsFiniteSet(After(f)) /\ Cardinality(After(f)) \in Nat
    BY FS_Subset, FS_CardinalityType
  <1>2. \A f \in events : f \in Recent <=> Cardinality(After(f)) < cap
    BY DEF MostRecent
  <1>3. Recent \subseteq events
    BY RecentIsSome
  <1>4. /\ IsFiniteSet(shown) /\ IsFiniteSet(kept) /\ IsFiniteSet(lost)
        /\ Cardinality(shown) \in Nat /\ Cardinality(kept) \in Nat
    <2>1. shown \in SUBSET events /\ kept \in SUBSET events /\ lost \in SUBSET events
      BY <1>3
    <2> HIDE DEF shown, kept, lost
    <2> QED
      BY <2>1, FS_Subset, FS_CardinalityType
  <1>5. kept \subseteq shown
    OBVIOUS
  <1>6. SUFFICES ASSUME Cardinality(shown) < cap
                 PROVE  FALSE
    BY <1>4 DEF Recent
  <1>7. Cardinality(kept) < cap
    <2> HIDE DEF shown, kept
    <2> QED
      BY <1>4, <1>5, <1>6, FS_Subset
  <1>8. lost # {}
    <2>1. Cardinality(After(e)) >= cap
      BY <1>1, <1>2
    <2>2. ASSUME lost = {}
          PROVE  kept = After(e)
      BY <2>2
    <2> QED
      BY <1>1, <1>4, <1>7, <2>1, <2>2
  <1>9. PICK f \in lost : \A g \in lost : g.at <= f.at
    <2>1. \A g \in lost : g.at \in Nat
      BY <1>3
    <2> HIDE DEF lost
    <2> QED
      BY <1>4, <1>8, <2>1, LastIsGreatest
  <1>10. f \in events /\ f.by = e.by /\ f.at > e.at /\ f \notin Recent
    OBVIOUS
  <1>11. After(f) \subseteq kept
    <2> SUFFICES ASSUME NEW g \in After(f)
                 PROVE  g \in kept
      OBVIOUS
    <2>1. g \in events /\ g.by = e.by /\ g.at > f.at
      BY <1>10
    <2>2. g \in After(e)
      BY <1>10, <2>1
    <2>3. g \notin lost
      BY <1>9, <1>10, <2>1
    <2> QED
      BY <2>2, <2>3
  <1>12. Cardinality(After(f)) < cap
    <2> HIDE DEF kept, After
    <2> QED
      BY <1>1, <1>4, <1>7, <1>10, <1>11, FS_Subset
  <1> QED
    BY <1>2, <1>10, <1>12

(* As many as were mailed, of those who were mailed, is everyone.          *)
LEMMA AsManyIsAll ==
    ASSUME NEW all, IsFiniteSet(all), NEW some \in SUBSET all,
           Cardinality(some) >= Cardinality(all)
    PROVE  some = all
  BY FS_Subset, FS_CardinalityType

----------------------------------------------------------------------------
(* The inductive invariant.                                                *)

Measured == {"opens", "uniqueOpens", "clicks", "uniqueClicks"}

(* The world: what each mailing may be, and what stood when the request    *)
(* began is still there.                                                   *)
WorldOK ==
    /\ mailing \in [Mailings -> Rows \cup {[row EXCEPT !.status = "sent"] : row \in Rows}]
    /\ store \in [Mailings -> Stores]
    /\ \A n \in Mailings : StoreOK(store[n]) /\ store[n].recorded = mailing[n].recorded
    /\ viewed \in [Mailings -> SUBSET OpenEvents]
    /\ \A n \in Mailings : OpensOK(viewed[n])
    /\ \A n \in Mailings : Grew(begun.store[n], store[n]) /\ begun.viewed[n] \subseteq viewed[n]

(* Of the row that a request read only the status can have changed.        *)
MetaOK(n, meta) ==
    /\ n \in Mailings
    /\ meta.provider = mailing[n].provider
    /\ meta.audience = mailing[n].audience

(* What the local queries answered.                                        *)
LocalTally(n, tally) ==
    /\ tally \in Tallies
    /\ tally.total = Snapshot(mailing[n]) /\ tally.delivered = Snapshot(mailing[n])
    /\ \A field \in Measured :
          Between(LocalOf(begun.viewed[n])[field], tally[field], LocalOf(viewed[n])[field])

LocalLast(n, last) == last \in Nat /\ Between(Last(begun.viewed[n]), last, Last(viewed[n]))

LocalSeries(n, local) ==
    /\ local.failedOf = {}
    /\ Within(Series(begun.viewed[n]), local.daily, Series(viewed[n]))

(* The tally once the provider was asked for its figures.                  *)
TallyOK(n, tally) ==
    /\ tally \in Tallies
    /\ Between(tally.delivered, tally.total, Snapshot(mailing[n]))
    /\ TallyHolds(n, tally)

(* The provider's detail, so far.                                          *)
IsDetail(d) ==
    DOMAIN d = {"uniqueOpens", "uniqueClicks", "daily", "dailyClicks", "links", "lastOpen",
                "lastClick", "failedOf"}

DetailOK(n, d) ==
    /\ IsDetail(d)
    /\ d.uniqueOpens \in Nat /\ d.uniqueOpens <= Cardinality(Unique(store[n].opens))
    /\ d.uniqueClicks \in Nat /\ d.uniqueClicks <= Cardinality(Unique(store[n].clicks))
    /\ d.lastOpen \in Nat /\ d.lastOpen <= Last(store[n].opens)
    /\ d.lastClick \in Nat /\ d.lastClick <= Last(store[n].clicks)
    /\ d.failedOf \subseteq store[n].failed

DailyFrom(n, known, daily) == Within(Series(known), daily, Series(store[n].opens))

PartOfDetail(n, d, asked) ==
    /\ DetailOK(n, d)
    /\ asked \in 0..7
    /\ asked <= 2 => d.daily = NoSeries
    /\ asked > 2 => DailyFrom(n, begun.store[n].opens, d.daily)

TotalOK(n, total) ==
    /\ total \in Nat
    /\ Between(Cardinality(IF n \in heard THEN begun.store[n].opens ELSE begun.viewed[n]),
               total, Greater(Cardinality(viewed[n]), Cardinality(store[n].opens)))

(* What the request has read, step by step.                                *)
AskingDetail == {"step", "of", "meta", "tally", "last", "local", "detail", "asked"}

ReportUnderWay ==
    /\ inquiry.step \in {"meta", "daily", "scalar"} =>
          MetaOK(inquiry.of, inquiry.meta) /\ heard = {}
    /\ inquiry.step \in {"daily", "scalar"} =>
          LocalTally(inquiry.of, inquiry.tally) /\ LocalLast(inquiry.of, inquiry.last)
    /\ inquiry.step = "scalar" => LocalSeries(inquiry.of, inquiry.local)
    /\ inquiry.step = "detail" =>
          /\ DOMAIN inquiry = AskingDetail
          /\ MetaOK(inquiry.of, inquiry.meta) /\ heard \subseteq {"scalar"}
          /\ TallyOK(inquiry.of, inquiry.tally) /\ LocalLast(inquiry.of, inquiry.last)
          /\ LocalSeries(inquiry.of, inquiry.local)
          /\ PartOfDetail(inquiry.of, inquiry.detail, inquiry.asked)

ListingUnderWay ==
    /\ inquiry.step \in {"records", "opens", "clicks"} =>
          MetaOK(inquiry.of, inquiry.meta) /\ heard = {}
    /\ inquiry.step \in {"opens", "clicks"} =>
          /\ DOMAIN inquiry = {"step", "of", "meta", "shown"}
          /\ DOMAIN inquiry.shown = {"recorded", "delivered", "failed", "opens", "clicks"}
          /\ inquiry.shown.recorded \subseteq store[inquiry.of].recorded
    /\ inquiry.step = "clicks" =>
          /\ begun.store[inquiry.of].opens \subseteq inquiry.shown.opens
          /\ inquiry.shown.opens \subseteq store[inquiry.of].opens

SentOf(meta) == {n \in DOMAIN meta : meta[n].status = "sent"}

PageUnderWay ==
    /\ inquiry.step \in {"opens of page", "totals"} =>
          \A n \in DOMAIN inquiry.meta : MetaOK(n, inquiry.meta[n])
    /\ inquiry.step = "opens of page" => heard = {}
    /\ inquiry.step = "totals" =>
          /\ "counts" \in heard
          /\ DOMAIN inquiry = {"step", "meta", "asking", "totals"}
          /\ inquiry.asking \subseteq SentOf(inquiry.meta)
          /\ inquiry.totals \in [SentOf(inquiry.meta) -> Nat]
          /\ \A n \in SentOf(inquiry.meta) : TotalOK(n, inquiry.totals[n])

Steps == {"idle", "meta", "daily", "scalar", "detail", "records", "opens", "clicks",
          "opens of page", "totals", "report", "listing", "page", "failed"}

AnalyticsInv ==
    /\ WorldOK
    /\ inquiry.step \in Steps
    /\ heard \subseteq {"scalar", "detail", "counts"} \cup Mailings
    /\ ReportUnderWay
    /\ ListingUnderWay
    /\ PageUnderWay
    /\ ReportIsOfThisMailing
    /\ CompleteMeansEveryone

----------------------------------------------------------------------------
(* What the invariant says of one mailing.                                 *)

LEMMA RowFacts ==
    ASSUME WorldOK, NEW n \in Mailings
    PROVE  /\ mailing[n] \in MailingRows
           /\ mailing[n].home = "sendgrid" <=> mailing[n].provider = "sendgrid"
           /\ mailing[n].provider \in {"sendgrid", "email-service", ""}
           /\ IsFiniteSet(mailing[n].audience)
           /\ mailing[n].recorded \subseteq mailing[n].audience
  <1>1. Rows \subseteq MailingRows /\ MailingRows \subseteq MailingRows
    BY AnalyticsAssumption
  <1>2. PICK row \in Rows : mailing[n] = row \/ mailing[n] = [row EXCEPT !.status = "sent"]
    BY DEF WorldOK
  <1>3. /\ row \in MailingRows /\ IsFiniteSet(row.audience) /\ row.recorded \subseteq row.audience
        /\ row.provider = row.home \/ (row.provider = "" /\ row.home = "email-service")
    BY AnalyticsAssumption
  <1>4. row.home \in {"email-service", "sendgrid"}
    BY <1>3 DEF MailingRows, Providers
  <1>5. /\ mailing[n].provider = row.provider /\ mailing[n].home = row.home
        /\ mailing[n].audience = row.audience /\ mailing[n].recorded = row.recorded
        /\ mailing[n] \in MailingRows
    BY <1>2, <1>3 DEF MailingRows
  <1> QED
    BY <1>3, <1>4, <1>5

LEMMA StoreFacts ==
    ASSUME NEW s, StoreOK(s)
    PROVE  /\ IsFiniteSet(s.recorded) /\ IsFiniteSet(s.delivered) /\ IsFiniteSet(s.failed)
           /\ IsFiniteSet(s.opens) /\ IsFiniteSet(s.clicks)
           /\ \A e \in s.opens : e.at \in Hours /\ e.at \in Nat
           /\ \A e \in s.clicks : e.at \in Hours /\ e.at \in Nat
           /\ s = [recorded |-> s.recorded, delivered |-> s.delivered, failed |-> s.failed,
                   opens |-> s.opens, clicks |-> s.clicks]
  <1>1. /\ s \in Stores /\ IsFiniteSet(s.recorded) /\ IsFiniteSet(s.opens) /\ IsFiniteSet(s.clicks)
        /\ s.delivered \in SUBSET s.recorded /\ s.failed \in SUBSET s.recorded
    BY DEF StoreOK
  <1>2. IsFiniteSet(s.delivered) /\ IsFiniteSet(s.failed)
    BY <1>1, FS_Subset
  <1>3. /\ \A e \in s.opens : e.at \in Hours
        /\ \A e \in s.clicks : e.at \in Hours
    BY <1>1 DEF Stores, OpenEvents, ClickEvents
  <1> QED
    BY <1>1, <1>2, <1>3, HoursArePositive DEF Stores

LEMMA StoreGrows ==
    ASSUME NEW before, NEW after, StoreOK(after), Grew(before, after)
    PROVE  \A field \in Fields :
              /\ Scalars(before)[field] \in Nat /\ Scalars(after)[field] \in Nat
              /\ Scalars(before)[field] <= Scalars(after)[field]
  BY StoreFacts, ScalarsGrow

LEMMA OpensFacts ==
    ASSUME NEW events, OpensOK(events)
    PROVE  IsFiniteSet(events) /\ \A e \in events : e.at \in Hours /\ e.at \in Nat
  BY HoursArePositive DEF OpensOK, OpenEvents

LEMMA LocalGrows ==
    ASSUME NEW more, OpensOK(more), NEW events \in SUBSET more
    PROVE  /\ LocalOf(more) \in Tallies
           /\ \A field \in Fields :
                 /\ LocalOf(events)[field] \in Nat /\ LocalOf(more)[field] \in Nat
                 /\ LocalOf(events)[field] <= LocalOf(more)[field]
  <1> DEFINE Of(some) ==
               [recorded |-> {}, delivered |-> {}, failed |-> {}, opens |-> some, clicks |-> {}]
  <1>1. LocalOf(more) = Scalars(Of(more)) /\ LocalOf(events) = Scalars(Of(events))
    BY DEF LocalOf, Empty
  <1>2. IsFiniteSet(more) /\ IsFiniteSet({})
    BY FS_EmptySet DEF OpensOK
  <1>3. Scalars(Of(more)) \in Tallies
    BY <1>2, ScalarsOfSets
  <1>4. Grew(Of(events), Of(more))
    BY DEF Grew
  <1>5. \A field \in Fields :
              /\ Scalars(Of(events))[field] \in Nat /\ Scalars(Of(more))[field] \in Nat
              /\ Scalars(Of(events))[field] <= Scalars(Of(more))[field]
    BY <1>2, <1>4, ScalarsGrow
  <1> QED
    BY <1>1, <1>3, <1>5

----------------------------------------------------------------------------
(* The world moves on: what a request has read stays within its bounds,    *)
(* for nothing is ever forgotten.                                          *)
WorldMoves ==
    /\ WorldOK'
    /\ \A n \in Mailings :
          /\ Grew(store[n], store'[n]) /\ viewed[n] \subseteq viewed'[n]
          /\ mailing'[n].provider = mailing[n].provider /\ mailing'[n].home = mailing[n].home
          /\ mailing'[n].audience = mailing[n].audience
    /\ inquiry.step \notin {"report", "listing", "page", "failed"}
    /\ UNCHANGED <<inquiry, begun, heard>>

LEMMA TalliesStay ==
    ASSUME WorldOK, WorldMoves, NEW n \in Mailings, NEW tally
    PROVE  /\ LocalTally(n, tally) => LocalTally(n, tally)'
           /\ TallyOK(n, tally) => TallyOK(n, tally)'
  <1> Measured \subseteq Fields
    BY DEF Measured, Fields
  <1>1. Snapshot(mailing'[n]) = Snapshot(mailing[n])
    BY DEF WorldMoves, Snapshot
  <1>2. \A field \in Fields :
           /\ LocalOf(viewed[n])[field] \in Nat /\ LocalOf(viewed'[n])[field] \in Nat
           /\ LocalOf(viewed[n])[field] <= LocalOf(viewed'[n])[field]
           /\ LocalOf(begun.viewed[n])[field] \in Nat
    <2>1. /\ OpensOK(viewed[n]) /\ OpensOK(viewed'[n]) /\ viewed[n] \in SUBSET viewed'[n]
          /\ begun.viewed[n] \in SUBSET viewed[n]
      BY DEF WorldOK, WorldMoves
    <2> QED
      BY <2>1, LocalGrows
  <1>3. \A field \in Fields :
           /\ Scalars(store[n])[field] \in Nat /\ Scalars(store'[n])[field] \in Nat
           /\ Scalars(store[n])[field] <= Scalars(store'[n])[field]
           /\ Scalars(begun.store[n])[field] \in Nat
    <2>1. StoreOK(store[n]) /\ StoreOK(store'[n]) /\ Grew(store[n], store'[n]) /\ Grew(begun.store[n], store[n])
      BY DEF WorldOK, WorldMoves
    <2> QED
      BY <2>1, StoreGrows
  <1>4. ASSUME LocalTally(n, tally)
        PROVE  LocalTally(n, tally)'
    <2>1. begun' = begun
      BY DEF WorldMoves
    <2> QED
      BY <1>1, <1>2, <1>4, <2>1 DEF LocalTally, Between, Tallies
  <1>5. ASSUME TallyOK(n, tally)
        PROVE  TallyOK(n, tally)'
    <2>1. begun' = begun /\ heard' = heard /\ mailing'[n].home = mailing[n].home
      BY DEF WorldMoves
    <2>2. ASSUME NEW field \in Measured, NEW low \in Nat,
                 Between(low, tally[field], Greater(LocalOf(viewed[n])[field], Scalars(store[n])[field]))
          PROVE  Between(low, tally[field], Greater(LocalOf(viewed'[n])[field], Scalars(store'[n])[field]))
      <3>1. tally[field] \in Nat
        BY <1>5 DEF TallyOK, Tallies
      <3> QED
        BY <1>2, <1>3, <2>2, <3>1 DEF Between, Greater
    <2>3. TallyHolds(n, tally)'
      <3> SUFFICES ASSUME NEW field \in Measured
                   PROVE  Between(Greater(LocalOf(begun.viewed[n])[field],
                                          IF "scalar" \in heard /\ (FromSendGrid(n) \/ field \in {"opens", "uniqueOpens"})
                                          THEN Scalars(begun.store[n])[field] ELSE 0),
                                  tally[field],
                                  Greater(LocalOf(viewed'[n])[field], Scalars(store'[n])[field]))
        BY <2>1 DEF TallyHolds, Measured, FromSendGrid
      <3> DEFINE low == Greater(LocalOf(begun.viewed[n])[field],
                                IF "scalar" \in heard /\ (FromSendGrid(n) \/ field \in {"opens", "uniqueOpens"})
                                THEN Scalars(begun.store[n])[field] ELSE 0)
      <3>1. low \in Nat
        BY <1>2, <1>3 DEF Greater
      <3>2. Between(low, tally[field], Greater(LocalOf(viewed[n])[field], Scalars(store[n])[field]))
        BY <1>5 DEF TallyOK, TallyHolds, Measured
      <3> QED
        BY <2>2, <3>1, <3>2
    <2> QED
      BY <1>1, <1>5, <2>3 DEF TallyOK
  <1> QED
    BY <1>4, <1>5

LEMMA PartsStay ==
    ASSUME WorldOK, WorldMoves, NEW n \in Mailings
    PROVE  /\ \A last : LocalLast(n, last) => LocalLast(n, last)'
           /\ \A local : LocalSeries(n, local) => LocalSeries(n, local)'
           /\ \A d, asked : PartOfDetail(n, d, asked) => PartOfDetail(n, d, asked)'
           /\ \A total : TotalOK(n, total) => TotalOK(n, total)'
  <1>1. begun' = begun /\ heard' = heard
    BY DEF WorldMoves
  <1>2. /\ OpensOK(viewed[n]) /\ OpensOK(viewed'[n]) /\ viewed[n] \in SUBSET viewed'[n]
        /\ begun.viewed[n] \in SUBSET viewed[n]
    BY DEF WorldOK, WorldMoves
  <1>3. StoreOK(store[n]) /\ StoreOK(store'[n]) /\ Grew(store[n], store'[n])
    BY DEF WorldOK, WorldMoves
  <1>4. /\ store[n].opens \in SUBSET store'[n].opens /\ store[n].clicks \in SUBSET store'[n].clicks
        /\ store[n].failed \subseteq store'[n].failed
    BY <1>3 DEF Grew
  <1>5. /\ IsFiniteSet(store'[n].opens) /\ IsFiniteSet(store'[n].clicks)
        /\ IsFiniteSet(store[n].opens) /\ IsFiniteSet(store[n].clicks)
        /\ \A e \in store'[n].opens : e.at \in Nat
        /\ \A e \in store'[n].clicks : e.at \in Nat
        /\ \A e \in store[n].opens : e.at \in Nat
        /\ \A e \in store[n].clicks : e.at \in Nat
    BY <1>3, StoreFacts
  <1>6. /\ Last(viewed[n]) \in Nat /\ Last(viewed'[n]) \in Nat /\ Last(viewed[n]) <= Last(viewed'[n])
        /\ Last(begun.viewed[n]) \in Nat
    <2>1. IsFiniteSet(begun.viewed[n])
      BY <1>2, OpensFacts, FS_Subset
    <2> QED
      BY <1>2, <2>1, OpensFacts, LastGrows, LastIsGreatest
  <1>7. /\ Last(store[n].opens) \in Nat /\ Last(store'[n].opens) \in Nat
        /\ Last(store[n].opens) <= Last(store'[n].opens)
    BY <1>4, <1>5, LastGrows, LastIsGreatest
  <1>8. /\ Last(store[n].clicks) \in Nat /\ Last(store'[n].clicks) \in Nat
        /\ Last(store[n].clicks) <= Last(store'[n].clicks)
    BY <1>4, <1>5, LastGrows, LastIsGreatest
  <1>9. ASSUME NEW last, LocalLast(n, last)
        PROVE  LocalLast(n, last)'
    BY <1>1, <1>6, <1>9 DEF LocalLast, Between
  <1>10. ASSUME NEW low, NEW daily, NEW more, IsFiniteSet(more), NEW events \in SUBSET more,
                NEW known, IsFiniteSet(known), low = Series(known),
                Within(low, daily, Series(events))
         PROVE  Within(low, daily, Series(more))
    <2> SUFFICES ASSUME NEW day \in Days
                 PROVE  /\ daily[day].all \in Nat /\ daily[day].unique \in Nat
                        /\ Between(low[day].all, daily[day].all, Series(more)[day].all)
                        /\ Between(low[day].unique, daily[day].unique, Series(more)[day].unique)
      BY DEF Within
    <2>1. IsFiniteSet(events)
      BY <1>10, FS_Subset
    <2>2. /\ Series(events)[day].all \in Nat /\ Series(events)[day].unique \in Nat
          /\ Series(more)[day].all \in Nat /\ Series(more)[day].unique \in Nat
          /\ Series(known)[day].all \in Nat /\ Series(known)[day].unique \in Nat
      BY <1>10, <2>1, SeriesCounts
    <2>3. /\ Series(events)[day].all <= Series(more)[day].all
          /\ Series(events)[day].unique <= Series(more)[day].unique
      BY <1>10, SeriesGrows
    <2> QED
      BY <1>10, <2>2, <2>3 DEF Within, Between
  <1>11. ASSUME NEW local, LocalSeries(n, local)
         PROVE  LocalSeries(n, local)'
    <2>1. IsFiniteSet(begun.viewed[n]) /\ IsFiniteSet(viewed'[n])
      BY <1>2, OpensFacts, FS_Subset
    <2>2. Within(Series(begun.viewed[n]), local.daily, Series(viewed[n]))
      BY <1>11 DEF LocalSeries
    <2>3. Within(Series(begun.viewed[n]), local.daily, Series(viewed'[n]))
      BY <1>2, <1>10, <2>1, <2>2
    <2> QED
      BY <1>1, <1>11, <2>3 DEF LocalSeries
  <1>12. ASSUME NEW d, NEW asked, PartOfDetail(n, d, asked)
         PROVE  PartOfDetail(n, d, asked)'
    <2>1. /\ Cardinality(Unique(store[n].opens)) \in Nat /\ Cardinality(Unique(store'[n].opens)) \in Nat
          /\ Cardinality(Unique(store[n].opens)) <= Cardinality(Unique(store'[n].opens))
      BY <1>4, <1>5, UniqueGrows
    <2>2. /\ Cardinality(Unique(store[n].clicks)) \in Nat /\ Cardinality(Unique(store'[n].clicks)) \in Nat
          /\ Cardinality(Unique(store[n].clicks)) <= Cardinality(Unique(store'[n].clicks))
      BY <1>4, <1>5, UniqueGrows
    <2>3. DetailOK(n, d)'
      BY <1>4, <1>7, <1>8, <1>12, <2>1, <2>2 DEF PartOfDetail, DetailOK
    <2>4. ASSUME asked > 2
          PROVE  DailyFrom(n, begun.store[n].opens, d.daily)'
      <3>1. DailyFrom(n, begun.store[n].opens, d.daily)
        BY <1>12, <2>4 DEF PartOfDetail
      <3>2. Within(Series(begun.store[n].opens), d.daily, Series(store[n].opens))
        BY <3>1 DEF DailyFrom
      <3>3. IsFiniteSet(begun.store[n].opens)
        <4>1. begun.store[n].opens \in SUBSET store[n].opens
          BY DEF WorldOK, Grew
        <4> QED
          BY <4>1, <1>5, FS_Subset
      <3>4. Within(Series(begun.store[n].opens), d.daily, Series(store'[n].opens))
        BY <1>4, <1>5, <1>10, <3>2, <3>3
      <3> QED
        BY <1>1, <3>4 DEF DailyFrom
    <2> QED
      BY <1>1, <1>12, <2>3, <2>4 DEF PartOfDetail
  <1>13. ASSUME NEW total, TotalOK(n, total)
         PROVE  TotalOK(n, total)'
    <2>1. /\ Cardinality(viewed[n]) \in Nat /\ Cardinality(viewed'[n]) \in Nat
          /\ Cardinality(viewed[n]) <= Cardinality(viewed'[n])
      BY <1>2, OpensFacts, FS_Subset, FS_CardinalityType
    <2>2. /\ Cardinality(store[n].opens) \in Nat /\ Cardinality(store'[n].opens) \in Nat
          /\ Cardinality(store[n].opens) <= Cardinality(store'[n].opens)
      BY <1>4, <1>5, FS_Subset, FS_CardinalityType
    <2> DEFINE low == Cardinality(IF n \in heard THEN begun.store[n].opens ELSE begun.viewed[n])
    <2>4. low' = low
      BY <1>1
    <2>5. low <= total /\ total <= Greater(Cardinality(viewed[n]), Cardinality(store[n].opens)) /\ total \in Nat
      BY <1>13 DEF TotalOK, Between
    <2>6. total <= Greater(Cardinality(viewed'[n]), Cardinality(store'[n].opens))
      BY <2>1, <2>2, <2>5 DEF Greater
    <2> HIDE DEF low
    <2>7. Between(low', total, Greater(Cardinality(viewed'[n]), Cardinality(store'[n].opens)))
      BY <2>4, <2>5, <2>6 DEF Between
    <2> QED
      BY <2>5, <2>7 DEF TotalOK, low
  <1> QED
    BY <1>9, <1>11, <1>12, <1>13

LEMMA WorldGrows ==
    ASSUME AnalyticsInv, WorldMoves
    PROVE  AnalyticsInv'
  <1> USE DEF AnalyticsInv
  <1>1. inquiry' = inquiry /\ heard' = heard /\ begun' = begun
    BY DEF WorldMoves
  <1>2. \A n, meta : MetaOK(n, meta) => MetaOK(n, meta)'
    BY DEF MetaOK, WorldMoves
  <1>3. ReportUnderWay'
    <2>1. inquiry.step \in {"meta", "daily", "scalar"} => MetaOK(inquiry.of, inquiry.meta)'
      BY <1>1, <1>2 DEF ReportUnderWay
    <2>2. inquiry.step \in {"daily", "scalar"} =>
             LocalTally(inquiry.of, inquiry.tally)' /\ LocalLast(inquiry.of, inquiry.last)'
      BY <1>1, TalliesStay, PartsStay DEF ReportUnderWay, MetaOK
    <2>3. inquiry.step = "scalar" => LocalSeries(inquiry.of, inquiry.local)'
      BY <1>1, PartsStay DEF ReportUnderWay, MetaOK
    <2>4. inquiry.step = "detail" =>
             /\ MetaOK(inquiry.of, inquiry.meta)'
             /\ TallyOK(inquiry.of, inquiry.tally)' /\ LocalLast(inquiry.of, inquiry.last)'
             /\ LocalSeries(inquiry.of, inquiry.local)'
             /\ PartOfDetail(inquiry.of, inquiry.detail, inquiry.asked)'
      <3> SUFFICES ASSUME inquiry.step = "detail"
                   PROVE  /\ MetaOK(inquiry.of, inquiry.meta)'
                          /\ TallyOK(inquiry.of, inquiry.tally)' /\ LocalLast(inquiry.of, inquiry.last)'
                          /\ LocalSeries(inquiry.of, inquiry.local)'
                          /\ PartOfDetail(inquiry.of, inquiry.detail, inquiry.asked)'
        OBVIOUS
      <3>1. /\ MetaOK(inquiry.of, inquiry.meta)
            /\ TallyOK(inquiry.of, inquiry.tally) /\ LocalLast(inquiry.of, inquiry.last)
            /\ LocalSeries(inquiry.of, inquiry.local)
            /\ PartOfDetail(inquiry.of, inquiry.detail, inquiry.asked)
        BY DEF ReportUnderWay
      <3>2. inquiry.of \in Mailings
        BY <3>1 DEF MetaOK
      <3> QED
        BY <1>1, <1>2, <3>1, <3>2, TalliesStay, PartsStay
    <2> QED
      BY <1>1, <2>1, <2>2, <2>3, <2>4 DEF ReportUnderWay
  <1>4. ListingUnderWay'
    <2>1. inquiry.step \in {"records", "opens", "clicks"} => MetaOK(inquiry.of, inquiry.meta)'
      BY <1>1, <1>2 DEF ListingUnderWay
    <2>2. inquiry.step \in {"opens", "clicks"} => Grew(store[inquiry.of], store'[inquiry.of])
      BY DEF ListingUnderWay, MetaOK, WorldMoves
    <2> QED
      BY <1>1, <2>1, <2>2 DEF ListingUnderWay, Grew
  <1>5. PageUnderWay'
    <2>1. inquiry.step \in {"opens of page", "totals"} =>
             \A n \in DOMAIN inquiry.meta : MetaOK(n, inquiry.meta[n])'
      BY <1>1, <1>2 DEF PageUnderWay
    <2>2. inquiry.step = "totals" =>
             \A n \in SentOf(inquiry.meta) : TotalOK(n, inquiry.totals[n])'
      <3> SUFFICES ASSUME inquiry.step = "totals", NEW n \in SentOf(inquiry.meta)
                   PROVE  TotalOK(n, inquiry.totals[n])'
        BY <1>1 DEF SentOf
      <3>1. n \in Mailings /\ TotalOK(n, inquiry.totals[n])
        BY DEF PageUnderWay, SentOf, MetaOK
      <3> QED
        BY <1>1, <3>1, PartsStay
    <2> QED
      BY <1>1, <2>1, <2>2 DEF PageUnderWay, SentOf
  <1>6. ReportIsOfThisMailing' /\ CompleteMeansEveryone'
    BY <1>1 DEF ReportIsOfThisMailing, CompleteMeansEveryone, WorldMoves
  <1> QED
    BY <1>1, <1>3, <1>4, <1>5, <1>6 DEF WorldMoves

----------------------------------------------------------------------------
(* What the world does, and how a request begins.                          *)

LEMMA RecordedMoves ==
    ASSUME WorldOK, NEW n \in Mailings, NEW event,
           NEW field \in {"delivered", "failed", "opens", "clicks"},
           Recorded(n, field, event),
           field \in {"delivered", "failed"} => event \in store[n].recorded,
           field = "opens" => event \in OpenEvents /\ event.by \in store[n].recorded,
           field = "clicks" => event \in ClickEvents /\ event.by \in store[n].recorded
    PROVE  WorldMoves
  <1> DEFINE s == store[n]
             t == [s EXCEPT ![field] = @ \cup {event}]
  <1>1. /\ mailing' = mailing /\ viewed' = viewed
        /\ UNCHANGED <<inquiry, begun, heard>>
        /\ inquiry.step \notin {"report", "listing", "page", "failed"}
    BY DEF Recorded, Room, Answered
  <1>2. StoreOK(s) /\ s \in Stores /\ s.recorded = mailing[n].recorded
    BY DEF WorldOK
  <1>3. t \in Stores
    <2>1. s.recorded \subseteq People
      BY <1>2 DEF Stores
    <2>2. CASE field \in {"delivered", "failed"}
      BY <1>2, <2>1, <2>2 DEF Stores
    <2>3. CASE field = "opens"
      BY <1>2, <2>3 DEF Stores
    <2>4. CASE field = "clicks"
      BY <1>2, <2>4 DEF Stores
    <2> QED
      BY <2>2, <2>3, <2>4
  <1>4. Grew(s, t) /\ t.recorded = s.recorded
    BY <1>2 DEF Grew, Stores
  <1>5. StoreOK(t)
    <2>1. /\ IsFiniteSet(s.opens) /\ IsFiniteSet(s.clicks) /\ IsFiniteSet(s.recorded)
          /\ s.delivered \subseteq s.recorded /\ s.failed \subseteq s.recorded
          /\ \A e \in s.opens : e.by \in s.recorded
          /\ \A e \in s.clicks : e.by \in s.recorded
      BY <1>2 DEF StoreOK
    <2>2. IsFiniteSet(s.opens \cup {event}) /\ IsFiniteSet(s.clicks \cup {event})
      BY <2>1, FS_AddElement
    <2>3. CASE field \in {"delivered", "failed"}
      <3>1. t.opens = s.opens /\ t.clicks = s.clicks
        BY <1>2, <2>3 DEF Stores
      <3>2. t.delivered \subseteq s.recorded /\ t.failed \subseteq s.recorded
        BY <1>2, <2>1, <2>3 DEF Stores
      <3> HIDE DEF s, t
      <3> QED
        BY <1>3, <1>4, <2>1, <3>1, <3>2 DEF StoreOK
    <2>4. CASE field = "opens"
      <3>1. t.opens = s.opens \cup {event} /\ t.clicks = s.clicks
        BY <1>2, <2>4 DEF Stores
      <3>2. t.delivered = s.delivered /\ t.failed = s.failed
        BY <1>2, <2>4 DEF Stores
      <3>3. event.by \in s.recorded
        BY <2>4
      <3> HIDE DEF s, t
      <3> QED
        BY <1>3, <1>4, <2>1, <2>2, <3>1, <3>2, <3>3 DEF StoreOK
    <2>5. CASE field = "clicks"
      <3>1. t.clicks = s.clicks \cup {event} /\ t.opens = s.opens
        BY <1>2, <2>5 DEF Stores
      <3>2. t.delivered = s.delivered /\ t.failed = s.failed
        BY <1>2, <2>5 DEF Stores
      <3>3. event.by \in s.recorded
        BY <2>5
      <3> HIDE DEF s, t
      <3> QED
        BY <1>3, <1>4, <2>1, <2>2, <3>1, <3>2, <3>3 DEF StoreOK
    <2> QED
      BY <2>3, <2>4, <2>5
  <1>6. store' = [store EXCEPT ![n] = t]
    BY DEF Recorded
  <1>7. store' \in [Mailings -> Stores] /\ \A m \in Mailings : store'[m] = IF m = n THEN t ELSE store[m]
    BY <1>3, <1>6 DEF WorldOK
  <1> HIDE DEF t
  <1>8. \A m \in Mailings : Grew(store[m], store'[m])
    BY <1>4, <1>7 DEF Grew
  <1>9. \A m \in Mailings : Grew(begun.store[m], store'[m])
    BY <1>8 DEF WorldOK, Grew
  <1>10. WorldOK'
    BY <1>1, <1>2, <1>4, <1>5, <1>7, <1>9 DEF WorldOK
  <1> QED
    BY <1>1, <1>8, <1>10 DEF WorldMoves

LEMMA OpenEmailMoves ==
    ASSUME WorldOK, NEW n \in Mailings, NEW who \in People, NEW at \in Hours, OpenEmail(n, who, at)
    PROVE  WorldMoves
  <1>1. Open(who, at) \in OpenEvents /\ Open(who, at).by = who
    BY DEF Open, OpenEvents
  <1> QED
    BY <1>1, RecordedMoves DEF OpenEmail

LEMMA ClickLinkMoves ==
    ASSUME WorldOK, NEW n \in Mailings, NEW who \in People, NEW at \in Hours, NEW url \in URLs,
           ClickLink(n, who, at, url)
    PROVE  WorldMoves
  <1>1. Click(who, at, url) \in ClickEvents /\ Click(who, at, url).by = who
    BY DEF Click, ClickEvents
  <1> QED
    BY <1>1, RecordedMoves DEF ClickLink

LEMMA RecordOpenMoves ==
    ASSUME WorldOK, NEW n \in Mailings, NEW who \in People, NEW at \in Hours, RecordOpen(n, who, at)
    PROVE  WorldMoves
  <1>1. /\ mailing' = mailing /\ store' = store
        /\ UNCHANGED <<inquiry, begun, heard>>
        /\ inquiry.step \notin {"report", "listing", "page", "failed"}
    BY DEF RecordOpen, Room, Answered
  <1>2. Open(who, at) \in OpenEvents
    BY DEF Open, OpenEvents
  <1>3. /\ viewed' \in [Mailings -> SUBSET OpenEvents]
        /\ \A m \in Mailings :
              viewed'[m] = IF m = n THEN viewed[m] \cup {Open(who, at)} ELSE viewed[m]
    BY <1>2 DEF RecordOpen, WorldOK
  <1>4. \A m \in Mailings : OpensOK(viewed'[m])
    <2>1. \A m \in Mailings : IsFiniteSet(viewed[m]) /\ viewed[m] \subseteq OpenEvents
      BY DEF WorldOK, OpensOK
    <2>2. IsFiniteSet(viewed[n] \cup {Open(who, at)})
      BY <2>1, FS_AddElement
    <2> QED
      BY <1>2, <1>3, <2>1, <2>2 DEF OpensOK
  <1>5. WorldOK'
    BY <1>1, <1>3, <1>4 DEF WorldOK
  <1> QED
    BY <1>1, <1>3, <1>5 DEF WorldMoves, Grew

LEMMA FinishSendMoves ==
    ASSUME WorldOK, NEW n \in Mailings, FinishSend(n)
    PROVE  WorldMoves
  <1> DEFINE Sent(row) == [row EXCEPT !.status = "sent"]
             Sents == {Sent(row) : row \in Rows}
  <1>1. /\ store' = store /\ viewed' = viewed
        /\ UNCHANGED <<inquiry, begun, heard>>
        /\ inquiry.step \notin {"report", "listing", "page", "failed"}
    BY DEF FinishSend, Answered
  <1>2. mailing \in [Mailings -> Rows \cup Sents]
    BY DEF WorldOK
  <1>3. mailing' = [mailing EXCEPT ![n] = Sent(mailing[n])]
    BY DEF FinishSend
  <1>4. Sent(mailing[n]) \in Sents
    <2>1. CASE mailing[n] \in Rows
      BY <2>1
    <2>2. CASE mailing[n] \in Sents
      <3>1. PICK row \in Rows : mailing[n] = Sent(row)
        BY <2>2
      <3>2. row \in MailingRows
        BY AnalyticsAssumption
      <3>3. Sent(mailing[n]) = Sent(row)
        BY <3>1, <3>2 DEF MailingRows
      <3> QED
        BY <3>3
    <2> QED
      BY <1>2, <2>1, <2>2
  <1>5. mailing[n] \in MailingRows
    BY RowFacts
  <1>6. /\ Sent(mailing[n]).provider = mailing[n].provider /\ Sent(mailing[n]).home = mailing[n].home
        /\ Sent(mailing[n]).audience = mailing[n].audience
        /\ Sent(mailing[n]).recorded = mailing[n].recorded
    BY <1>5 DEF MailingRows
  <1> HIDE DEF Sent
  <1>7. \A m \in Mailings :
           mailing'[m].provider = mailing[m].provider /\ mailing'[m].home = mailing[m].home
           /\ mailing'[m].audience = mailing[m].audience /\ mailing'[m].recorded = mailing[m].recorded
    BY <1>2, <1>3, <1>6
  <1>8. mailing' \in [Mailings -> Rows \cup Sents]
    <2> HIDE DEF Sents
    <2> QED
      BY <1>2, <1>3, <1>4
  <1>9. WorldOK'
    BY <1>1, <1>7, <1>8 DEF WorldOK, Sent
  <1> QED
    BY <1>1, <1>7, <1>9 DEF WorldMoves, Grew

LEMMA BeginKeeps ==
    ASSUME WorldOK, NEW next, Begin(next)
    PROVE  WorldOK' /\ inquiry' = next /\ heard' = {} /\ begun' = World /\ UNCHANGED mailing
  BY DEF Begin, WorldOK, World, Grew

LEMMA ReadingKeeps ==
    ASSUME WorldOK, NEW step, Reading(step)
    PROVE  WorldOK' /\ inquiry.step = step /\ UNCHANGED <<mailing, store, viewed, begun>>
  BY DEF Reading, WorldOK

----------------------------------------------------------------------------
(* The report, step by step.                                               *)

SeriesFrom(n, known, daily) ==
    \/ DailyFrom(n, known, daily)
    \/ known = {} /\ Within(Series(begun.viewed[n]), daily, Series(viewed[n]))

LastOK(n, last) ==
    Between(Last(begun.viewed[n]), last,
            Greater(Last(viewed[n]), Greater(Last(store[n].opens), Last(store[n].clicks))))

ReportOK(n, report) ==
    /\ report.step = "report" /\ report.of = n
    /\ TallyOK(n, report.tally)
    /\ LastOK(n, report.last)
    /\ report.series.failedOf \subseteq store[n].failed

LEMMA WorldNumbers ==
    ASSUME WorldOK, NEW n \in Mailings
    PROVE  /\ Snapshot(mailing[n]) \in Nat
           /\ \A field \in Fields :
                 /\ LocalOf(begun.viewed[n])[field] \in Nat /\ LocalOf(viewed[n])[field] \in Nat
                 /\ LocalOf(begun.viewed[n])[field] <= LocalOf(viewed[n])[field]
                 /\ Scalars(begun.store[n])[field] \in Nat /\ Scalars(store[n])[field] \in Nat
                 /\ Scalars(begun.store[n])[field] <= Scalars(store[n])[field]
           /\ LocalOf(viewed[n]) \in Tallies
           /\ Scalars(store[n]) \in Tallies
           /\ Last(begun.viewed[n]) \in Nat /\ Last(viewed[n]) \in Nat
           /\ Last(begun.viewed[n]) <= Last(viewed[n])
           /\ Last(store[n].opens) \in Nat /\ Last(store[n].clicks) \in Nat
  <1>1. Snapshot(mailing[n]) \in Nat
    BY RowFacts, FS_CardinalityType DEF Snapshot
  <1>2. OpensOK(viewed[n]) /\ begun.viewed[n] \in SUBSET viewed[n]
    BY DEF WorldOK
  <1>3. StoreOK(store[n]) /\ Grew(begun.store[n], store[n])
    BY DEF WorldOK
  <1>4. Last(begun.viewed[n]) <= Last(viewed[n]) /\ Last(viewed[n]) \in Nat
    BY <1>2, OpensFacts, LastGrows, LastIsGreatest
  <1>5. Last(begun.viewed[n]) \in Nat
    <2>1. IsFiniteSet(begun.viewed[n])
      BY <1>2, OpensFacts, FS_Subset
    <2> QED
      BY <1>2, <2>1, OpensFacts, LastIsGreatest
  <1>6. Last(store[n].opens) \in Nat /\ Last(store[n].clicks) \in Nat
    BY <1>3, StoreFacts, LastIsGreatest
  <1>7. Scalars(store[n]) \in Tallies
    BY <1>3, StoreFacts, ScalarsOfSets
  <1>8. \A field \in Fields :
                 /\ LocalOf(begun.viewed[n])[field] \in Nat /\ LocalOf(viewed[n])[field] \in Nat
                 /\ LocalOf(begun.viewed[n])[field] <= LocalOf(viewed[n])[field]
    BY <1>2, LocalGrows
  <1>9. \A field \in Fields :
                 /\ Scalars(begun.store[n])[field] \in Nat /\ Scalars(store[n])[field] \in Nat
                 /\ Scalars(begun.store[n])[field] <= Scalars(store[n])[field]
    BY <1>3, StoreGrows
  <1>10. LocalOf(viewed[n]) \in Tallies
    BY <1>2, LocalGrows
  <1> QED
    BY <1>1, <1>4, <1>5, <1>6, <1>7, <1>8, <1>9, <1>10

(* Where no provider was heard the local figures are an answer.            *)
LEMMA LocalTallyIsTally ==
    ASSUME WorldOK, NEW n \in Mailings, NEW tally, LocalTally(n, tally), "scalar" \notin heard
    PROVE  TallyOK(n, tally)
  <1>1. tally \in Tallies /\ Between(tally.delivered, tally.total, Snapshot(mailing[n]))
    BY WorldNumbers DEF LocalTally, Between
  <1>2. ASSUME NEW field \in Measured
        PROVE  Between(Greater(LocalOf(begun.viewed[n])[field], 0), tally[field],
                       Greater(LocalOf(viewed[n])[field], Scalars(store[n])[field]))
    <2>1. field \in Fields
      BY DEF Measured, Fields
    <2>2. /\ LocalOf(begun.viewed[n])[field] \in Nat /\ LocalOf(viewed[n])[field] \in Nat
          /\ Scalars(store[n])[field] \in Nat
      BY <2>1, WorldNumbers
    <2>3. tally[field] \in Nat
      BY <2>1 DEF LocalTally, Tallies
    <2> QED
      BY <2>2, <2>3 DEF LocalTally, Between, Greater
  <1>3. TallyHolds(n, tally)
    BY <1>2 DEF TallyHolds, Measured
  <1> QED
    BY <1>1, <1>3 DEF TallyOK

LEMMA LastReadIsOK ==
    ASSUME WorldOK, NEW n \in Mailings, NEW last, LocalLast(n, last)
    PROVE  LastOK(n, last)
  BY WorldNumbers DEF LocalLast, LastOK, Between, Greater

LEMMA LocalReport ==
    ASSUME WorldOK, NEW n \in Mailings, NEW tally, TallyOK(n, tally), NEW last, LocalLast(n, last),
           NEW local, LocalSeries(n, local), NEW r, r.of = n, r.tally = tally, r.last = last
    PROVE  /\ ReportOK(n, Report(r, local)) /\ Report(r, local).series = local
           /\ SeriesFrom(n, {}, local.daily)
  <1>1. LastOK(n, last)
    BY LastReadIsOK
  <1>2. SeriesFrom(n, {}, local.daily)
    BY DEF SeriesFrom, LocalSeries
  <1> QED
    BY <1>1, <1>2 DEF ReportOK, Report, LocalSeries

LEMMA DetailedReport ==
    ASSUME WorldOK, NEW n \in Mailings,
           NEW r, DOMAIN r = AskingDetail, r.of = n,
           TallyOK(n, r.tally), LocalLast(n, r.last), LocalSeries(n, r.local),
           NEW d, DetailOK(n, d), NEW known, IsFiniteSet(known), \A e \in known : e.at \in Hours,
           DailyFrom(n, known, d.daily)
    PROVE  /\ ReportOK(n, WithDetail(r, d))
           /\ SeriesFrom(n, known, WithDetail(r, d).series.daily)
           /\ WithDetail(r, d).series.failedOf = d.failedOf
  <1> DEFINE tally == [r.tally EXCEPT !.uniqueOpens = Greater(@, d.uniqueOpens),
                                      !.uniqueClicks = Greater(@, d.uniqueClicks)]
             series == [field \in DOMAIN d |-> IF d[field] = NoDetail[field] THEN r.local[field]
                                               ELSE d[field]]
             last == Greater(r.last, Greater(d.lastOpen, d.lastClick))
  <1>1. WithDetail(r, d) = [step |-> "report", of |-> n, tally |-> tally, last |-> last,
                            series |-> series]
    BY DEF WithDetail, Report, AskingDetail
  <1>2. /\ series.daily = IF d.daily = NoSeries THEN r.local.daily ELSE d.daily
        /\ series.failedOf = IF d.failedOf = {} THEN r.local.failedOf ELSE d.failedOf
    <2>1. DOMAIN d = {"uniqueOpens", "uniqueClicks", "daily", "dailyClicks", "links", "lastOpen",
                      "lastClick", "failedOf"}
      BY DEF DetailOK, IsDetail
    <2>2. NoDetail["daily"] = NoSeries /\ NoDetail["failedOf"] = {}
      BY DEF NoDetail
    <2> QED
      BY <2>1, <2>2
  <1>3. series.failedOf = d.failedOf
    BY <1>2 DEF LocalSeries
  <1>4. SeriesFrom(n, known, series.daily)
    <2>1. CASE d.daily = NoSeries
      <3>1. Within(Series(known), NoSeries, Series(store[n].opens))
        BY <2>1 DEF DailyFrom
      <3>2. known = {}
        BY <3>1, NothingShownNothingThere
      <3> QED
        BY <1>2, <2>1, <3>2 DEF SeriesFrom, LocalSeries
    <2>2. CASE d.daily # NoSeries
      BY <1>2, <2>2 DEF SeriesFrom
    <2> QED
      BY <2>1, <2>2
  <1>5. LastOK(n, last)
    <2>1. /\ d.lastOpen \in Nat /\ d.lastOpen <= Last(store[n].opens)
          /\ d.lastClick \in Nat /\ d.lastClick <= Last(store[n].clicks)
      BY DEF DetailOK
    <2>2. /\ r.last \in Nat /\ Last(begun.viewed[n]) <= r.last /\ r.last <= Last(viewed[n])
      BY DEF LocalLast, Between
    <2> QED
      BY <2>1, <2>2, WorldNumbers DEF LastOK, Between, Greater
  <1>6. TallyOK(n, tally)
    <2>1. /\ d.uniqueOpens \in Nat /\ d.uniqueOpens <= Cardinality(Unique(store[n].opens))
          /\ d.uniqueClicks \in Nat /\ d.uniqueClicks <= Cardinality(Unique(store[n].clicks))
      BY DEF DetailOK
    <2>2. r.tally \in Tallies
      BY DEF TallyOK
    <2>3. /\ tally \in Tallies
          /\ \A field \in Fields \ {"uniqueOpens", "uniqueClicks"} : tally[field] = r.tally[field]
          /\ tally["uniqueOpens"] = Greater(r.tally["uniqueOpens"], d.uniqueOpens)
          /\ tally["uniqueClicks"] = Greater(r.tally["uniqueClicks"], d.uniqueClicks)
      BY <2>1, <2>2 DEF Tallies, Fields, Greater
    <2>4. Between(tally.delivered, tally.total, Snapshot(mailing[n]))
      BY <2>3 DEF TallyOK, Fields
    <2>5. /\ Scalars(store[n])["uniqueOpens"] = Cardinality(Unique(store[n].opens))
          /\ Scalars(store[n])["uniqueClicks"] = Cardinality(Unique(store[n].clicks))
      BY DEF Scalars
    <2> HIDE DEF tally
    <2>6. ASSUME NEW field \in Measured, NEW low \in Nat,
                 Between(low, r.tally[field], Greater(LocalOf(viewed[n])[field], Scalars(store[n])[field]))
          PROVE  Between(low, tally[field], Greater(LocalOf(viewed[n])[field], Scalars(store[n])[field]))
      <3>1. field \in Fields /\ r.tally[field] \in Nat /\ tally[field] \in Nat
        BY <2>2, <2>3 DEF Measured, Fields, Tallies
      <3>2. LocalOf(viewed[n])[field] \in Nat /\ Scalars(store[n])[field] \in Nat
        BY <3>1, WorldNumbers
      <3>3. CASE field \in {"opens", "clicks"}
        BY <2>3, <2>6, <3>3 DEF Fields
      <3>4. CASE field = "uniqueOpens"
        BY <2>1, <2>3, <2>5, <2>6, <3>1, <3>2, <3>4 DEF Between, Greater
      <3>5. CASE field = "uniqueClicks"
        BY <2>1, <2>3, <2>5, <2>6, <3>1, <3>2, <3>5 DEF Between, Greater
      <3> QED
        BY <3>3, <3>4, <3>5 DEF Measured
    <2>7. TallyHolds(n, tally)
      <3> SUFFICES ASSUME NEW field \in Measured
                   PROVE  Between(Greater(LocalOf(begun.viewed[n])[field],
                                          IF "scalar" \in heard /\ (FromSendGrid(n) \/ field \in {"opens", "uniqueOpens"})
                                          THEN Scalars(begun.store[n])[field] ELSE 0),
                                  tally[field],
                                  Greater(LocalOf(viewed[n])[field], Scalars(store[n])[field]))
        BY DEF TallyHolds, Measured
      <3> DEFINE low == Greater(LocalOf(begun.viewed[n])[field],
                                IF "scalar" \in heard /\ (FromSendGrid(n) \/ field \in {"opens", "uniqueOpens"})
                                THEN Scalars(begun.store[n])[field] ELSE 0)
      <3>0. field \in Fields
        BY DEF Measured, Fields
      <3>1. low \in Nat
        BY <3>0, WorldNumbers DEF Greater
      <3>2. Between(low, r.tally[field], Greater(LocalOf(viewed[n])[field], Scalars(store[n])[field]))
        BY DEF TallyOK, TallyHolds, Measured
      <3> QED
        BY <2>6, <3>1, <3>2
    <2> QED
      BY <2>3, <2>4, <2>7 DEF TallyOK
  <1> HIDE DEF tally, series, last
  <1>7. LET w == WithDetail(r, d)
        IN  w.step = "report" /\ w.of = n /\ w.tally = tally /\ w.last = last /\ w.series = series
    BY <1>1
  <1>8. series.failedOf \subseteq store[n].failed
    BY <1>3 DEF DetailOK
  <1> QED
    BY <1>3, <1>4, <1>5, <1>6, <1>7, <1>8 DEF ReportOK

LEMMA ReportGiven ==
    ASSUME WorldOK, NEW n \in Mailings, NEW report, ReportOK(n, report), inquiry' = report,
           UNCHANGED <<mailing, store, viewed, begun>>,
           heard' \subseteq {"scalar", "detail"}, "scalar" \in heard' <=> "scalar" \in heard,
           SeriesFrom(n, IF "detail" \in heard' THEN begun.store[n].opens ELSE {},
                      report.series.daily),
           "detail" \in heard' => begun.store[n].failed \subseteq report.series.failedOf
    PROVE  AnalyticsInv'
  <1>1. report.step = "report" /\ report.of = n
    BY DEF ReportOK
  <1>2. WorldOK'
    BY DEF WorldOK
  <1>3. Between(report.tally.delivered, report.tally.total, Snapshot(mailing'[n]))
    BY DEF ReportOK, TallyOK
  <1>4. TallyHolds(n, report.tally)'
    <2>1. TallyHolds(n, report.tally)
      BY DEF ReportOK, TallyOK
    <2> QED
      BY <2>1 DEF TallyHolds, FromSendGrid
  <1>5. SeriesHolds(n, report.series.daily)'
    <2> DEFINE known == IF "detail" \in heard' THEN begun.store[n].opens ELSE {}
    <2>1. SeriesFrom(n, known, report.series.daily)
      OBVIOUS
    <2>2. CASE DailyFrom(n, known, report.series.daily)
      BY <2>2 DEF DailyFrom, Within, SeriesHolds
    <2>3. CASE known = {} /\ Within(Series(begun.viewed[n]), report.series.daily, Series(viewed[n]))
      BY <2>3 DEF Within, SeriesHolds
    <2> QED
      BY <2>1, <2>2, <2>3 DEF SeriesFrom
  <1>6. Between(Last(begun'.viewed[n]), report.last,
                Greater(Last(viewed'[n]), Greater(Last(store'[n].opens), Last(store'[n].clicks))))
    BY DEF ReportOK, LastOK
  <1>7. /\ report.series.failedOf \subseteq store'[n].failed
        /\ "detail" \in heard' => begun'.store[n].failed \subseteq report.series.failedOf
    BY DEF ReportOK
  <1>8. ReportIsOfThisMailing'
    BY <1>1, <1>3, <1>4, <1>5, <1>6, <1>7 DEF ReportIsOfThisMailing
  <1> QED
    BY <1>1, <1>2, <1>8 DEF AnalyticsInv, Steps, ReportUnderWay, ListingUnderWay, PageUnderWay,
                            CompleteMeansEveryone

(* Between the row and the local opens nothing was heard from a provider.  *)
LEMMA StartReportKeeps ==
    ASSUME AnalyticsInv, NEW n \in Mailings, StartReport(n)
    PROVE  AnalyticsInv'
  <1>1. WorldOK' /\ heard' = {} /\ UNCHANGED mailing
        /\ inquiry' = [step |-> "meta", of |-> n, meta |-> mailing[n]]
    BY BeginKeeps DEF StartReport, AnalyticsInv
  <1> QED
    BY <1>1 DEF AnalyticsInv, Steps, ReportUnderWay, ListingUnderWay, PageUnderWay, MetaOK,
                ReportIsOfThisMailing, CompleteMeansEveryone

LEMMA ReadLocalTotalsKeeps ==
    ASSUME AnalyticsInv, ReadLocalTotals
    PROVE  AnalyticsInv'
  <1> DEFINE n == inquiry.of
             S == Snapshot(mailing[n])
             tally == [LocalOf(viewed[n]) EXCEPT !.total = S, !.delivered = S]
  <1>1. WorldOK' /\ inquiry.step = "meta" /\ UNCHANGED <<mailing, store, viewed, begun, heard>>
    BY ReadingKeeps DEF AnalyticsInv, ReadLocalTotals
  <1>2. MetaOK(n, inquiry.meta) /\ n \in Mailings /\ heard = {}
    BY <1>1 DEF AnalyticsInv, ReportUnderWay, MetaOK
  <1>3. inquiry' = [step |-> "daily", of |-> n, meta |-> inquiry.meta, tally |-> tally,
                    last |-> Last(viewed[n])]
    BY DEF ReadLocalTotals, LocalOf
  <1>4. LocalTally(n, tally)
    <2>1. LocalOf(viewed[n]) \in Tallies /\ S \in Nat
      BY <1>2, WorldNumbers DEF AnalyticsInv
    <2>2. /\ tally \in Tallies /\ tally.total = S /\ tally.delivered = S
          /\ \A field \in Measured : tally[field] = LocalOf(viewed[n])[field]
      <3> HIDE DEF S
      <3> QED
        BY <2>1 DEF Tallies, Fields, Measured
    <2>3. \A field \in Measured :
             /\ LocalOf(begun.viewed[n])[field] \in Nat /\ LocalOf(viewed[n])[field] \in Nat
             /\ LocalOf(begun.viewed[n])[field] <= LocalOf(viewed[n])[field]
      BY <1>2, WorldNumbers DEF AnalyticsInv, Measured, Fields
    <2> HIDE DEF tally, S
    <2> QED
      BY <2>2, <2>3 DEF LocalTally, Between, S
  <1>5. LocalLast(n, Last(viewed[n]))
    BY <1>2, WorldNumbers DEF AnalyticsInv, LocalLast, Between
  <1>6. /\ inquiry'.step = "daily" /\ inquiry'.of = n /\ inquiry'.meta = inquiry.meta
        /\ inquiry'.tally = tally /\ inquiry'.last = Last(viewed[n])
    BY <1>3
  <1> HIDE DEF tally, n
  <1>7. MetaOK(inquiry.of, inquiry.meta)'
    BY <1>1, <1>2, <1>6 DEF MetaOK
  <1>8. LocalTally(inquiry.of, inquiry.tally)'
    BY <1>1, <1>4, <1>6 DEF LocalTally
  <1>9. LocalLast(inquiry.of, inquiry.last)'
    BY <1>1, <1>5, <1>6 DEF LocalLast
  <1> QED
    BY <1>1, <1>2, <1>6, <1>7, <1>8, <1>9
    DEF AnalyticsInv, Steps, ReportUnderWay, ListingUnderWay, PageUnderWay,
        ReportIsOfThisMailing, CompleteMeansEveryone

LEMMA ReadLocalDailyKeeps ==
    ASSUME AnalyticsInv, ReadLocalDaily
    PROVE  AnalyticsInv'
  <1> DEFINE n == inquiry.of
             local == [NoDetail EXCEPT !.daily = Series(viewed[n])]
  <1>1. WorldOK /\ WorldOK' /\ inquiry.step = "daily"
        /\ UNCHANGED <<mailing, store, viewed, begun, heard>>
    BY ReadingKeeps DEF AnalyticsInv, ReadLocalDaily
  <1>2. /\ MetaOK(n, inquiry.meta) /\ n \in Mailings /\ heard = {}
        /\ LocalTally(n, inquiry.tally) /\ LocalLast(n, inquiry.last)
    BY <1>1 DEF AnalyticsInv, ReportUnderWay, MetaOK
  <1>3. LocalSeries(n, local)
    <2>1. local.daily = Series(viewed[n]) /\ local.failedOf = {}
      BY DEF NoDetail
    <2>2. OpensOK(viewed[n]) /\ begun.viewed[n] \in SUBSET viewed[n]
      BY <1>1, <1>2 DEF WorldOK
    <2>3. Within(Series(begun.viewed[n]), Series(viewed[n]), Series(viewed[n]))
      BY <2>2, OpensFacts, SeriesBetween
    <2> HIDE DEF local
    <2> QED
      BY <2>1, <2>3 DEF LocalSeries
  <1>4. CASE Measurable(inquiry.meta)
    <2>1. inquiry' = [step |-> "scalar", of |-> n, meta |-> inquiry.meta, tally |-> inquiry.tally,
                      last |-> inquiry.last, local |-> local]
      BY <1>4 DEF ReadLocalDaily
    <2>2. /\ inquiry'.step = "scalar" /\ inquiry'.of = n /\ inquiry'.meta = inquiry.meta
          /\ inquiry'.tally = inquiry.tally /\ inquiry'.last = inquiry.last /\ inquiry'.local = local
      BY <2>1
    <2> HIDE DEF local, n
    <2>3. MetaOK(inquiry.of, inquiry.meta)'
      BY <1>1, <1>2, <2>2 DEF MetaOK
    <2>4. LocalTally(inquiry.of, inquiry.tally)'
      BY <1>1, <1>2, <2>2 DEF LocalTally
    <2>5. LocalLast(inquiry.of, inquiry.last)'
      BY <1>1, <1>2, <2>2 DEF LocalLast
    <2>6. LocalSeries(inquiry.of, inquiry.local)'
      BY <1>1, <1>3, <2>2 DEF LocalSeries
    <2> QED
      BY <1>1, <1>2, <2>2, <2>3, <2>4, <2>5, <2>6
      DEF AnalyticsInv, Steps, ReportUnderWay, ListingUnderWay, PageUnderWay,
          ReportIsOfThisMailing, CompleteMeansEveryone
  <1>5. CASE ~Measurable(inquiry.meta)
    <2>1. inquiry' = Report(inquiry, local)
      BY <1>5 DEF ReadLocalDaily
    <2>2. TallyOK(n, inquiry.tally)
      BY <1>1, <1>2, LocalTallyIsTally
    <2> HIDE DEF local
    <2>3. /\ ReportOK(n, Report(inquiry, local)) /\ Report(inquiry, local).series = local
          /\ SeriesFrom(n, {}, local.daily)
      BY <1>1, <1>2, <1>3, <2>2, LocalReport
    <2> HIDE DEF n
    <2> QED
      BY <1>1, <1>2, <2>1, <2>3, ReportGiven
  <1> QED
    BY <1>4, <1>5

(* A provider that fails leaves the local figures, whatever it answered    *)
(* before that.                                                            *)
LEMMA FailScalarKeeps ==
    ASSUME AnalyticsInv, FailScalar
    PROVE  AnalyticsInv'
  <1> DEFINE n == inquiry.of
  <1>1. WorldOK /\ inquiry.step = "scalar" /\ UNCHANGED <<mailing, store, viewed, begun, heard>>
        /\ inquiry' = Report(inquiry, inquiry.local)
    BY ReadingKeeps DEF AnalyticsInv, FailScalar
  <1>2. /\ n \in Mailings /\ heard = {}
        /\ LocalTally(n, inquiry.tally) /\ LocalLast(n, inquiry.last) /\ LocalSeries(n, inquiry.local)
    BY <1>1 DEF AnalyticsInv, ReportUnderWay, MetaOK
  <1>3. TallyOK(n, inquiry.tally)
    BY <1>1, <1>2, LocalTallyIsTally
  <1>4. /\ ReportOK(n, Report(inquiry, inquiry.local))
        /\ Report(inquiry, inquiry.local).series = inquiry.local
        /\ SeriesFrom(n, {}, inquiry.local.daily)
    BY <1>1, <1>2, <1>3, LocalReport
  <1> HIDE DEF n
  <1> QED
    BY <1>1, <1>2, <1>4, ReportGiven

LEMMA DetailStep ==
    ASSUME AnalyticsInv, Reading("detail")
    PROVE  LET n == inquiry.of
           IN  /\ WorldOK /\ inquiry.step = "detail" /\ UNCHANGED <<mailing, store, viewed, begun>>
               /\ n \in Mailings /\ heard \subseteq {"scalar"} /\ MetaOK(n, inquiry.meta)
               /\ DOMAIN inquiry = AskingDetail
               /\ TallyOK(n, inquiry.tally) /\ LocalLast(n, inquiry.last)
               /\ LocalSeries(n, inquiry.local)
               /\ PartOfDetail(n, inquiry.detail, inquiry.asked)
  <1>1. WorldOK /\ inquiry.step = "detail" /\ UNCHANGED <<mailing, store, viewed, begun>>
    BY ReadingKeeps DEF AnalyticsInv
  <1> QED
    BY <1>1 DEF AnalyticsInv, ReportUnderWay, MetaOK

LEMMA FailDetailKeeps ==
    ASSUME AnalyticsInv, FailDetail
    PROVE  AnalyticsInv'
  <1> DEFINE n == inquiry.of
  <1>1. Reading("detail") /\ UNCHANGED heard /\ inquiry' = Report(inquiry, inquiry.local)
    BY DEF FailDetail
  <1>2. /\ WorldOK /\ UNCHANGED <<mailing, store, viewed, begun>>
        /\ n \in Mailings /\ heard \subseteq {"scalar"}
        /\ TallyOK(n, inquiry.tally) /\ LocalLast(n, inquiry.last) /\ LocalSeries(n, inquiry.local)
    BY <1>1, DetailStep
  <1>3. /\ ReportOK(n, Report(inquiry, inquiry.local))
        /\ Report(inquiry, inquiry.local).series = inquiry.local
        /\ SeriesFrom(n, {}, inquiry.local.daily)
    BY <1>2, LocalReport
  <1> HIDE DEF n
  <1> QED
    BY <1>1, <1>2, <1>3, ReportGiven

----------------------------------------------------------------------------
(* What a provider may answer.                                             *)

(* The store that is asked is the one that mailed, unless nobody is.       *)
LEMMA AskedStore ==
    ASSUME WorldOK, NEW n \in Mailings, NEW meta, MetaOK(n, meta)
    PROVE  LET provider == ReaderFor(meta.provider)
           IN  /\ provider = "sendgrid" <=> FromSendGrid(n)
               /\ provider \in {"sendgrid", "email-service"}
               /\ StoreOf(provider, n) = store[n]
  <1>1. /\ mailing[n].home = "sendgrid" <=> mailing[n].provider = "sendgrid"
        /\ mailing[n].provider \in {"sendgrid", "email-service", ""}
        /\ mailing[n].home \in {"sendgrid", "email-service"}
    BY RowFacts DEF MailingRows, Providers
  <1>2. meta.provider = mailing[n].provider
    BY DEF MetaOK
  <1>3. ReaderFor(meta.provider) = IF mailing[n].provider = "sendgrid" THEN "sendgrid"
                                   ELSE "email-service"
    BY <1>1, <1>2 DEF ReaderFor, Providers
  <1> QED
    BY <1>1, <1>3 DEF FromSendGrid, StoreOf

LEMMA Figures ==
    ASSUME WorldOK, NEW n \in Mailings, NEW meta, MetaOK(n, meta),
           NEW e \in GetEngagement(ReaderFor(meta.provider), n)
    PROVE  /\ e \in Tallies
           /\ \A field \in Fields : e[field] <= Scalars(store[n])[field]
           /\ e.delivered <= e.total /\ e.total <= Snapshot(mailing[n])
           /\ FromSendGrid(n) => e = Scalars(store[n])
           /\ e # Scalars(Empty) =>
                 \A field \in {"opens", "uniqueOpens"} : e[field] = Scalars(store[n])[field]
  <1> DEFINE s == store[n]
             bare == [s EXCEPT !.clicks = {}]
  <1>1. StoreOK(s) /\ s.recorded = mailing[n].recorded
    BY DEF WorldOK
  <1>2. e \in {Scalars(s), Scalars(Empty), Scalars(bare)}
        /\ (FromSendGrid(n) => e = Scalars(s)) /\ (~FromSendGrid(n) => e \in {Scalars(Empty), Scalars(bare)})
    BY AskedStore DEF GetEngagement
  <1>3. Scalars(s) \in Tallies /\ \A field \in Fields : Scalars(s)[field] \in Nat
    BY <1>1, StoreFacts, ScalarsOfSets DEF Tallies
  <1>4. bare = [recorded |-> s.recorded, delivered |-> s.delivered, failed |-> s.failed,
                opens |-> s.opens, clicks |-> {}]
    <2>1. s \in Stores
      BY <1>1 DEF StoreOK
    <2> HIDE DEF s
    <2> QED
      BY <2>1 DEF Stores
  <1>5. Grew(bare, s) /\ Grew(Empty, s)
    BY <1>4 DEF Grew, Empty
  <1>6. /\ \A field \in Fields : Scalars(bare)[field] <= Scalars(s)[field]
        /\ \A field \in Fields : Scalars(Empty)[field] <= Scalars(s)[field]
    BY <1>1, <1>5, StoreGrows
  <1>7. Scalars(bare) \in Tallies
    <2> HIDE DEF bare, s
    <2> QED
      BY <1>1, <1>4, FS_EmptySet, StoreFacts, ScalarsOfSets
  <1>8. Scalars(Empty) \in Tallies
    BY EmptyIsStore, StoreFacts, ScalarsOfSets
  <1>9. /\ Cardinality(s.delivered) <= Cardinality(s.recorded)
        /\ Cardinality(s.recorded) <= Snapshot(mailing[n])
    <2>1. s.delivered \in SUBSET s.recorded /\ IsFiniteSet(s.recorded)
      BY <1>1 DEF StoreOK
    <2>2. s.recorded \in SUBSET mailing[n].audience /\ IsFiniteSet(mailing[n].audience)
      BY <1>1, RowFacts
    <2> QED
      BY <2>1, <2>2, FS_Subset DEF Snapshot
  <1>10. /\ Scalars(s).delivered = Cardinality(s.delivered)
         /\ Scalars(s).total = Cardinality(s.recorded)
         /\ Scalars(s).opens = Cardinality(s.opens)
         /\ Scalars(s).uniqueOpens = Cardinality(Unique(s.opens))
    BY DEF Scalars
  <1>11. /\ Scalars(bare).delivered = Cardinality(s.delivered)
         /\ Scalars(bare).total = Cardinality(s.recorded)
         /\ Scalars(bare).opens = Cardinality(s.opens)
         /\ Scalars(bare).uniqueOpens = Cardinality(Unique(s.opens))
    BY <1>4 DEF Scalars
  <1>12. Scalars(Empty).delivered = 0 /\ Scalars(Empty).total = 0
    BY FS_EmptySet DEF Scalars, Empty
  <1>13. 0 <= Snapshot(mailing[n])
    BY WorldNumbers
  <1> HIDE DEF bare, s
  <1>14. /\ e \in Tallies
         /\ \A field \in Fields : e[field] <= Scalars(s)[field]
    BY <1>2, <1>3, <1>6, <1>7, <1>8
  <1>15. e.delivered <= e.total /\ e.total <= Snapshot(mailing[n])
    BY <1>2, <1>9, <1>10, <1>11, <1>12, <1>13
  <1>16. e # Scalars(Empty) => \A field \in {"opens", "uniqueOpens"} : e[field] = Scalars(s)[field]
    BY <1>2, <1>10, <1>11
  <1> QED
    BY <1>2, <1>14, <1>15, <1>16 DEF s

(* The overlay of a provider's figures keeps the tally's bounds.           *)
LEMMA OverlayKeeps ==
    ASSUME WorldOK, NEW n \in Mailings, NEW meta, MetaOK(n, meta), NEW tally, LocalTally(n, tally),
           NEW e \in GetEngagement(ReaderFor(meta.provider), n)
    PROVE  LET over == Overlay(tally, e)
           IN  /\ over \in Tallies
               /\ Between(over.delivered, over.total, Snapshot(mailing[n]))
               /\ \A field \in Measured :
                     /\ Between(LocalOf(begun.viewed[n])[field], over[field],
                                Greater(LocalOf(viewed[n])[field], Scalars(store[n])[field]))
                     /\ e[field] <= over[field]
  <1> DEFINE over == Overlay(tally, e)
  <1>1. /\ e \in Tallies /\ \A field \in Fields : e[field] <= Scalars(store[n])[field]
        /\ e.delivered <= e.total /\ e.total <= Snapshot(mailing[n])
    BY Figures
  <1>2. tally \in Tallies /\ tally.total = Snapshot(mailing[n])
    BY DEF LocalTally
  <1>3. /\ over \in Tallies /\ over.delivered = e.delivered /\ over.total = Greater(tally.total, e.total)
        /\ \A field \in Measured : over[field] = Greater(tally[field], e[field])
    BY <1>1, <1>2 DEF Overlay, Tallies, Fields, Measured, Greater
  <1> HIDE DEF over
  <1>4. Between(over.delivered, over.total, Snapshot(mailing[n]))
    <2>1. Snapshot(mailing[n]) \in Nat
      BY WorldNumbers
    <2>2. e.delivered \in Nat /\ e.total \in Nat
      BY <1>1 DEF Tallies, Fields
    <2> QED
      BY <1>1, <1>2, <1>3, <2>1, <2>2 DEF Between, Greater
  <1>5. ASSUME NEW field \in Measured
        PROVE  /\ Between(LocalOf(begun.viewed[n])[field], over[field],
                          Greater(LocalOf(viewed[n])[field], Scalars(store[n])[field]))
               /\ e[field] <= over[field]
    <2>1. field \in Fields
      BY DEF Measured, Fields
    <2>2. /\ LocalOf(begun.viewed[n])[field] \in Nat /\ LocalOf(viewed[n])[field] \in Nat
          /\ Scalars(store[n])[field] \in Nat
      BY <2>1, WorldNumbers
    <2>3. tally[field] \in Nat /\ e[field] \in Nat
      BY <1>1, <1>2, <2>1 DEF Tallies
    <2>4. Between(LocalOf(begun.viewed[n])[field], tally[field], LocalOf(viewed[n])[field])
      BY DEF LocalTally
    <2> QED
      BY <1>1, <1>3, <2>1, <2>2, <2>3, <2>4 DEF Between, Greater
  <1> QED
    BY <1>3, <1>4, <1>5 DEF over

LEMMA ReadScalarKeeps ==
    ASSUME AnalyticsInv, ReadScalar
    PROVE  AnalyticsInv'
  <1> DEFINE n == inquiry.of
  <1>1. WorldOK /\ WorldOK' /\ inquiry.step = "scalar" /\ UNCHANGED <<mailing, store, viewed, begun>>
    BY ReadingKeeps DEF AnalyticsInv, ReadScalar
  <1>2. /\ MetaOK(n, inquiry.meta) /\ n \in Mailings
        /\ LocalTally(n, inquiry.tally) /\ LocalLast(n, inquiry.last) /\ LocalSeries(n, inquiry.local)
    BY <1>1 DEF AnalyticsInv, ReportUnderWay, MetaOK
  <1>3. PICK e \in GetEngagement(ReaderFor(inquiry.meta.provider), n) :
           /\ inquiry' = [step |-> "detail", of |-> n, meta |-> inquiry.meta,
                          tally |-> Overlay(inquiry.tally, e), last |-> inquiry.last,
                          local |-> inquiry.local, detail |-> NoDetail, asked |-> 0]
           /\ heard' = IF mailing[n].home = "sendgrid" \/ e # Scalars(Empty) THEN {"scalar"} ELSE {}
    BY DEF ReadScalar
  <1> DEFINE over == Overlay(inquiry.tally, e)
  <1>4. /\ over \in Tallies
        /\ Between(over.delivered, over.total, Snapshot(mailing[n]))
        /\ \A field \in Measured :
              /\ Between(LocalOf(begun.viewed[n])[field], over[field],
                         Greater(LocalOf(viewed[n])[field], Scalars(store[n])[field]))
              /\ e[field] <= over[field]
    BY <1>1, <1>2, OverlayKeeps
  <1>5. /\ FromSendGrid(n) => e = Scalars(store[n])
        /\ e # Scalars(Empty) =>
              \A field \in {"opens", "uniqueOpens"} : e[field] = Scalars(store[n])[field]
    BY <1>1, <1>2, Figures
  <1>6. /\ inquiry'.step = "detail" /\ inquiry'.of = n /\ inquiry'.meta = inquiry.meta
        /\ inquiry'.tally = over /\ inquiry'.last = inquiry.last /\ inquiry'.local = inquiry.local
        /\ inquiry'.detail = NoDetail /\ inquiry'.asked = 0
        /\ DOMAIN inquiry' = AskingDetail
    BY <1>3 DEF AskingDetail
  <1> HIDE DEF over, n
  <1>7. TallyHolds(inquiry.of, inquiry.tally)'
    <2> SUFFICES ASSUME NEW field \in Measured
                 PROVE  Between(Greater(LocalOf(begun.viewed[n])[field],
                                        IF "scalar" \in heard' /\ (FromSendGrid(n) \/ field \in {"opens", "uniqueOpens"})
                                        THEN Scalars(begun.store[n])[field] ELSE 0),
                                over[field],
                                Greater(LocalOf(viewed[n])[field], Scalars(store[n])[field]))
      BY <1>1, <1>6 DEF TallyHolds, Measured, FromSendGrid
    <2>1. /\ field \in Fields /\ over[field] \in Nat
      BY <1>4 DEF Measured, Fields, Tallies
    <2>2. /\ LocalOf(begun.viewed[n])[field] \in Nat /\ LocalOf(viewed[n])[field] \in Nat
          /\ Scalars(store[n])[field] \in Nat /\ Scalars(begun.store[n])[field] \in Nat
          /\ Scalars(begun.store[n])[field] <= Scalars(store[n])[field]
      BY <1>1, <1>2, <2>1, WorldNumbers
    <2>3. CASE "scalar" \in heard' /\ (FromSendGrid(n) \/ field \in {"opens", "uniqueOpens"})
      <3>1. e[field] = Scalars(store[n])[field]
        BY <1>3, <1>5, <2>3 DEF FromSendGrid
      <3> QED
        BY <1>4, <2>1, <2>2, <2>3, <3>1 DEF Between, Greater
    <2>4. CASE ~("scalar" \in heard' /\ (FromSendGrid(n) \/ field \in {"opens", "uniqueOpens"}))
      BY <1>4, <2>1, <2>2, <2>4 DEF Between, Greater
    <2> QED
      BY <2>3, <2>4
  <1>8. TallyOK(inquiry.of, inquiry.tally)'
    BY <1>1, <1>4, <1>6, <1>7 DEF TallyOK
  <1>9. MetaOK(inquiry.of, inquiry.meta)'
    BY <1>1, <1>2, <1>6 DEF MetaOK
  <1>10. LocalLast(inquiry.of, inquiry.last)'
    BY <1>1, <1>2, <1>6 DEF LocalLast
  <1>11. LocalSeries(inquiry.of, inquiry.local)'
    BY <1>1, <1>2, <1>6 DEF LocalSeries
  <1>12. PartOfDetail(inquiry.of, inquiry.detail, inquiry.asked)'
    <2>1. StoreOK(store[n])
      BY <1>1, <1>2 DEF WorldOK
    <2>2. /\ Cardinality(Unique(store[n].opens)) \in Nat /\ Cardinality(Unique(store[n].clicks)) \in Nat
          /\ Last(store[n].opens) \in Nat /\ Last(store[n].clicks) \in Nat
      BY <2>1, StoreFacts, UniqueGrows, LastIsGreatest
    <2>3. DetailOK(n, NoDetail)
      BY <2>2 DEF DetailOK, IsDetail, NoDetail
    <2>4. NoDetail.daily = NoSeries
      BY DEF NoDetail
    <2>5. PartOfDetail(n, NoDetail, 0)
      BY <2>3, <2>4 DEF PartOfDetail
    <2> QED
      BY <1>1, <1>6, <2>5 DEF PartOfDetail, DetailOK, DailyFrom
  <1>13. heard' \subseteq {"scalar"}
    BY <1>3
  <1> QED
    BY <1>1, <1>6, <1>8, <1>9, <1>10, <1>11, <1>12, <1>13
    DEF AnalyticsInv, Steps, ReportUnderWay, ListingUnderWay, PageUnderWay,
        ReportIsOfThisMailing, CompleteMeansEveryone

(* A reply by group shows some of what the store knows, and nothing else.  *)
LEMMA ShownIsSome ==
    ASSUME NEW s, s \in Stores, NEW shown \in StatusByGroup(s)
    PROVE  /\ shown.recorded \subseteq s.recorded /\ shown.failed \subseteq s.failed
           /\ shown.opens \subseteq s.opens
  <1>1. PICK there \in SUBSET s.recorded, terse \in {{}, s.recorded} :
           shown = ByGroup(s, there, terse)
    BY DEF StatusByGroup
  <1>2. /\ shown.recorded = there /\ shown.failed = s.failed \cap there
        /\ shown.opens = {e \in s.opens : e.by \in there \ terse}
                         \cup {e \in MostRecent(s.opens, 1) : e.by \in there \cap terse}
    BY <1>1 DEF Stores, ByGroup
  <1> QED
    BY <1>2, RecentIsSome

LEMMA GroupDetail ==
    ASSUME WorldOK, NEW n \in Mailings, NEW shown \in StatusByGroup(store[n])
    PROVE  /\ DetailOK(n, GroupDetailFromRecords(shown))
           /\ DailyFrom(n, {}, GroupDetailFromRecords(shown).daily)
  <1> DEFINE d == GroupDetailFromRecords(shown)
  <1>1. StoreOK(store[n]) /\ store[n] \in Stores
    BY DEF WorldOK
  <1>2. shown.failed \subseteq store[n].failed /\ shown.opens \in SUBSET store[n].opens
    BY <1>1, ShownIsSome
  <1>3. /\ IsFiniteSet(store[n].opens) /\ IsFiniteSet(store[n].clicks)
        /\ \A e \in store[n].opens : e.at \in Nat
        /\ \A e \in store[n].clicks : e.at \in Nat
    BY <1>1, StoreFacts
  <1>4. IsFiniteSet(shown.opens)
    BY <1>2, <1>3, FS_Subset
  <1>5. /\ IsDetail(d)
        /\ d.uniqueOpens = Cardinality(Unique(shown.opens)) /\ d.uniqueClicks = 0
        /\ d.daily = Series(shown.opens) /\ d.lastOpen = Last(shown.opens) /\ d.lastClick = 0
        /\ d.failedOf = shown.failed
    BY DEF GroupDetailFromRecords, NoDetail, IsDetail
  <1>6. /\ Cardinality(Unique(shown.opens)) \in Nat
        /\ Cardinality(Unique(shown.opens)) <= Cardinality(Unique(store[n].opens))
        /\ Cardinality(Unique(store[n].clicks)) \in Nat
    BY <1>2, <1>3, UniqueGrows
  <1>7. /\ Last(shown.opens) \in Nat /\ Last(shown.opens) <= Last(store[n].opens)
        /\ Last(store[n].clicks) \in Nat
    BY <1>2, <1>3, <1>4, LastIsGreatest, LastGrows
  <1>8. Within(Series({}), Series(shown.opens), Series(store[n].opens))
    BY <1>2, <1>3, SeriesBetween
  <1>9. DetailOK(n, d)
    <2> HIDE DEF d
    <2> QED
      BY <1>2, <1>5, <1>6, <1>7 DEF DetailOK
  <1>10. DailyFrom(n, {}, d.daily)
    BY <1>5, <1>8 DEF DailyFrom
  <1> QED
    BY <1>9, <1>10

(* One more query of the store's own detail.                               *)
LEMMA QueriesInOrder ==
    /\ Len(DetailQueries) = 8
    /\ DetailQueries[1] = "uniqueOpens" /\ DetailQueries[2] = "uniqueClicks"
    /\ DetailQueries[3] = "daily" /\ DetailQueries[4] = "dailyClicks"
    /\ DetailQueries[5] = "links" /\ DetailQueries[6] = "lastOpen"
    /\ DetailQueries[7] = "lastClick" /\ DetailQueries[8] = "failedOf"
  BY DEF DetailQueries

LEMMA NextQuery ==
    ASSUME WorldOK, NEW n \in Mailings, NEW d, NEW asked, PartOfDetail(n, d, asked),
           NEW value \in DetailQuery(DetailQueries[asked + 1], store[n])
    PROVE  LET more == [d EXCEPT ![DetailQueries[asked + 1]] = value]
           IN  /\ DetailOK(n, more)
               /\ asked + 1 <= 2 => more.daily = NoSeries
               /\ asked + 1 > 2 => DailyFrom(n, begun.store[n].opens, more.daily)
               /\ asked + 1 = 8 => more.failedOf = store[n].failed
  <1> DEFINE s == store[n]
             query == DetailQueries[asked + 1]
             more == [d EXCEPT ![query] = value]
  <1>1. StoreOK(s) /\ Grew(begun.store[n], s)
    BY DEF WorldOK
  <1>2. /\ IsFiniteSet(s.opens) /\ IsFiniteSet(s.clicks)
        /\ \A e \in s.opens : e.at \in Nat
        /\ \A e \in s.clicks : e.at \in Nat
    BY <1>1, StoreFacts
  <1>3. /\ Cardinality(Unique(s.opens)) \in Nat /\ Cardinality(Unique(s.clicks)) \in Nat
        /\ Last(s.opens) \in Nat /\ Last(s.clicks) \in Nat
    BY <1>2, UniqueGrows, LastIsGreatest
  <1>4. DailyFrom(n, begun.store[n].opens, Series(s.opens))
    <2>1. begun.store[n].opens \in SUBSET s.opens
      BY <1>1 DEF Grew
    <2> QED
      BY <1>2, <2>1, SeriesBetween DEF DailyFrom
  <1>5. /\ DetailOK(n, d) /\ IsDetail(d) /\ asked \in 0..7
        /\ asked <= 2 => d.daily = NoSeries
        /\ asked > 2 => DailyFrom(n, begun.store[n].opens, d.daily)
    BY DEF PartOfDetail, DetailOK
  <1>6. DOMAIN d = {"uniqueOpens", "uniqueClicks", "daily", "dailyClicks", "links", "lastOpen",
                    "lastClick", "failedOf"}
    BY <1>5 DEF IsDetail
  <1>7. IsDetail(more)
    BY <1>5 DEF IsDetail
  <1>8. CASE asked = 0
    <2>1. query = "uniqueOpens" /\ value = Cardinality(Unique(s.opens))
      BY <1>8, QueriesInOrder DEF DetailQuery
    <2> QED
      BY <1>3, <1>5, <1>6, <1>7, <1>8, <2>1 DEF DetailOK
  <1>9. CASE asked = 1
    <2>1. query = "uniqueClicks" /\ value = Cardinality(Unique(s.clicks))
      BY <1>9, QueriesInOrder DEF DetailQuery
    <2> QED
      BY <1>3, <1>5, <1>6, <1>7, <1>9, <2>1 DEF DetailOK
  <1>10. CASE asked = 2
    <2>1. query = "daily" /\ value = Series(s.opens)
      BY <1>10, QueriesInOrder DEF DetailQuery
    <2> QED
      BY <1>4, <1>5, <1>6, <1>7, <1>10, <2>1 DEF DetailOK
  <1>11. CASE asked = 3
    <2>1. query = "dailyClicks"
      BY <1>11, QueriesInOrder
    <2> QED
      BY <1>5, <1>6, <1>7, <1>11, <2>1 DEF DetailOK
  <1>12. CASE asked = 4
    <2>1. query = "links"
      BY <1>12, QueriesInOrder
    <2> QED
      BY <1>5, <1>6, <1>7, <1>12, <2>1 DEF DetailOK
  <1>13. CASE asked = 5
    <2>1. query = "lastOpen" /\ value = Last(s.opens)
      BY <1>13, QueriesInOrder DEF DetailQuery
    <2> QED
      BY <1>3, <1>5, <1>6, <1>7, <1>13, <2>1 DEF DetailOK
  <1>14. CASE asked = 6
    <2>1. query = "lastClick" /\ value = Last(s.clicks)
      BY <1>14, QueriesInOrder DEF DetailQuery
    <2> QED
      BY <1>3, <1>5, <1>6, <1>7, <1>14, <2>1 DEF DetailOK
  <1>15. CASE asked = 7
    <2>1. query = "failedOf" /\ value = s.failed
      BY <1>15, QueriesInOrder DEF DetailQuery
    <2> QED
      BY <1>5, <1>6, <1>7, <1>15, <2>1 DEF DetailOK
  <1> QED
    BY <1>5, <1>8, <1>9, <1>10, <1>11, <1>12, <1>13, <1>14, <1>15

LEMMA ReadDetailKeeps ==
    ASSUME AnalyticsInv, ReadDetail
    PROVE  AnalyticsInv'
  <1> DEFINE n == inquiry.of
             provider == ReaderFor(inquiry.meta.provider)
             query == DetailQueries[inquiry.asked + 1]
  <1>1. Reading("detail")
    BY DEF ReadDetail
  <1>2. /\ WorldOK /\ inquiry.step = "detail" /\ UNCHANGED <<mailing, store, viewed, begun>>
        /\ n \in Mailings /\ heard \subseteq {"scalar"} /\ MetaOK(n, inquiry.meta)
        /\ inquiry.of = n /\ DOMAIN inquiry = AskingDetail
        /\ TallyOK(n, inquiry.tally) /\ LocalLast(n, inquiry.last) /\ LocalSeries(n, inquiry.local)
        /\ PartOfDetail(n, inquiry.detail, inquiry.asked)
    BY <1>1, DetailStep
  <1>3. WorldOK' /\ StoreOf(provider, n) = store[n]
    BY <1>1, <1>2, ReadingKeeps, AskedStore
  <1>4. CASE \E shown \in StatusByGroup(store[n]) :
                inquiry' = WithDetail(inquiry, GroupDetailFromRecords(shown)) /\ UNCHANGED heard
    <2>1. PICK shown \in StatusByGroup(store[n]) :
             inquiry' = WithDetail(inquiry, GroupDetailFromRecords(shown)) /\ UNCHANGED heard
      BY <1>4
    <2> DEFINE d == GroupDetailFromRecords(shown)
    <2>2. DetailOK(n, d) /\ DailyFrom(n, {}, d.daily)
      BY <1>2, GroupDetail
    <2> HIDE DEF d, n
    <2>3. /\ ReportOK(n, WithDetail(inquiry, d))
          /\ SeriesFrom(n, {}, WithDetail(inquiry, d).series.daily)
      BY <1>2, <2>2, FS_EmptySet, DetailedReport
    <2>4. inquiry' = WithDetail(inquiry, d)
      BY <2>1 DEF d
    <2> QED
      BY <1>2, <2>1, <2>3, <2>4, ReportGiven
  <1>5. ASSUME NEW value \in DetailQuery(query, store[n]),
               LET d == [inquiry.detail EXCEPT ![query] = value]
                   done == inquiry.asked + 1 = Len(DetailQueries)
               IN  /\ inquiry' = IF done THEN WithDetail(inquiry, d)
                                 ELSE [inquiry EXCEPT !.detail = d, !.asked = @ + 1]
                   /\ heard' = IF done THEN heard \cup {"detail"} ELSE heard
        PROVE  AnalyticsInv'
    <2> DEFINE d == [inquiry.detail EXCEPT ![query] = value]
    <2>1. /\ DetailOK(n, d)
          /\ inquiry.asked + 1 <= 2 => d.daily = NoSeries
          /\ inquiry.asked + 1 > 2 => DailyFrom(n, begun.store[n].opens, d.daily)
          /\ inquiry.asked + 1 = 8 => d.failedOf = store[n].failed
      <3> HIDE DEF n
      <3> QED
        BY <1>2, NextQuery
    <2>2. inquiry.asked \in 0..7 /\ Len(DetailQueries) = 8
      BY <1>2, QueriesInOrder DEF PartOfDetail
    <2>3. /\ inquiry' = IF inquiry.asked = 7 THEN WithDetail(inquiry, d)
                        ELSE [inquiry EXCEPT !.detail = d, !.asked = @ + 1]
          /\ heard' = IF inquiry.asked = 7 THEN heard \cup {"detail"} ELSE heard
      BY <1>5, <2>2
    <2>4. Grew(begun.store[n], store[n]) /\ StoreOK(store[n])
      BY <1>2 DEF WorldOK
    <2> HIDE DEF d, n
    <2>5. CASE inquiry.asked = 7
      <3> DEFINE known == begun.store[n].opens
      <3>1. IsFiniteSet(known) /\ \A e \in known : e.at \in Hours
        <4>1. known \in SUBSET store[n].opens
          BY <2>4 DEF Grew
        <4> QED
          BY <2>4, <4>1, StoreFacts, FS_Subset
      <3>2. DailyFrom(n, known, d.daily) /\ d.failedOf = store[n].failed
        BY <2>1, <2>5
      <3> HIDE DEF known
      <3>3. /\ ReportOK(n, WithDetail(inquiry, d))
            /\ SeriesFrom(n, known, WithDetail(inquiry, d).series.daily)
            /\ WithDetail(inquiry, d).series.failedOf = d.failedOf
        BY <1>2, <2>1, <3>1, <3>2, DetailedReport
      <3>4. begun.store[n].failed \subseteq d.failedOf
        BY <2>4, <3>2 DEF Grew
      <3>5. /\ heard' \subseteq {"scalar", "detail"} /\ "detail" \in heard'
            /\ "scalar" \in heard' <=> "scalar" \in heard
            /\ inquiry' = WithDetail(inquiry, d)
        BY <1>2, <2>3, <2>5
      <3> QED
        BY <1>2, <3>3, <3>4, <3>5, ReportGiven DEF known
    <2>6. CASE inquiry.asked # 7
      <3>1. inquiry' = [inquiry EXCEPT !.detail = d, !.asked = @ + 1] /\ heard' = heard
        BY <2>3, <2>6
      <3>2. /\ inquiry'.step = "detail" /\ inquiry'.of = n /\ inquiry'.meta = inquiry.meta
            /\ inquiry'.tally = inquiry.tally /\ inquiry'.last = inquiry.last
            /\ inquiry'.local = inquiry.local
            /\ inquiry'.detail = d /\ inquiry'.asked = inquiry.asked + 1
            /\ DOMAIN inquiry' = AskingDetail
        BY <1>2, <3>1 DEF AskingDetail
      <3>3. TallyOK(inquiry.of, inquiry.tally)'
        BY <1>2, <3>1, <3>2 DEF TallyOK, TallyHolds, FromSendGrid
      <3>4. MetaOK(inquiry.of, inquiry.meta)'
        BY <1>2, <3>2 DEF MetaOK
      <3>5. LocalLast(inquiry.of, inquiry.last)'
        BY <1>2, <3>2 DEF LocalLast
      <3>6. LocalSeries(inquiry.of, inquiry.local)'
        BY <1>2, <3>2 DEF LocalSeries
      <3>7. PartOfDetail(n, d, inquiry.asked + 1)
        BY <2>1, <2>2, <2>6 DEF PartOfDetail
      <3>8. PartOfDetail(inquiry.of, inquiry.detail, inquiry.asked)'
        BY <1>2, <3>2, <3>7 DEF PartOfDetail, DetailOK, DailyFrom
      <3> QED
        BY <1>2, <1>3, <3>1, <3>2, <3>3, <3>4, <3>5, <3>6, <3>8
        DEF AnalyticsInv, Steps, ReportUnderWay, ListingUnderWay, PageUnderWay,
            ReportIsOfThisMailing, CompleteMeansEveryone
    <2> QED
      BY <2>5, <2>6
  <1> QED
    BY <1>3, <1>4, <1>5 DEF ReadDetail

----------------------------------------------------------------------------
(* The listing, step by step.                                              *)

LEMMA ListingGiven ==
    ASSUME WorldOK', NEW n \in Mailings, NEW row, row.audience = mailing[n].audience,
           NEW shown, shown.recorded \subseteq mailing[n].audience,
           shown.opens \subseteq store[n].opens,
           inquiry' \in Listing(n, row, shown), WorldOK, UNCHANGED <<mailing, store, viewed, begun>>,
           heard' \subseteq {"detail"},
           "detail" \in heard' => begun.store[n].opens \subseteq shown.opens
    PROVE  AnalyticsInv'
  <1> DEFINE listed == MostRecent(shown.opens, MaxOpensPerRecipient)
  <1>1. /\ inquiry'.step = "listing" /\ inquiry'.of = n /\ inquiry'.due = Snapshot(row)
        /\ inquiry'.listed = shown.recorded /\ inquiry'.opens = listed
        /\ inquiry'.complete = Complete(shown.recorded, row)
    BY DEF Listing
  <1>2. inquiry'.complete => inquiry'.listed = mailing'[n].audience
    <2>1. IsFiniteSet(mailing[n].audience)
      BY RowFacts
    <2>2. inquiry'.complete => Cardinality(shown.recorded) >= Cardinality(mailing[n].audience)
      BY <1>1 DEF Complete, Snapshot
    <2>3. shown.recorded \in SUBSET mailing[n].audience
      OBVIOUS
    <2>4. inquiry'.complete => shown.recorded = mailing[n].audience
      BY <2>1, <2>2, <2>3, AsManyIsAll
    <2> QED
      BY <1>1, <2>4
  <1>3. inquiry'.opens \subseteq store'[n].opens
    BY <1>1, RecentIsSome
  <1>4. ASSUME "detail" \in heard', NEW e \in begun'.store[n].opens, e \notin inquiry'.opens
        PROVE  Cardinality({f \in inquiry'.opens : f.by = e.by /\ f.at >= e.at}) >= MaxOpensPerRecipient
    <2>1. StoreOK(store[n])
      BY DEF WorldOK
    <2>2. IsFiniteSet(shown.opens) /\ \A f \in shown.opens : f.at \in Nat
      BY <2>1, StoreFacts, FS_Subset
    <2>3. e \in shown.opens /\ e \notin listed
      BY <1>1, <1>4
    <2>4. MaxOpensPerRecipient \in Nat
      BY AnalyticsAssumption
    <2>5. Cardinality({f \in listed : f.by = e.by /\ f.at >= e.at}) >= MaxOpensPerRecipient
      BY <2>2, <2>3, <2>4, OvertakenByTheRecent
    <2> QED
      BY <1>1, <2>5
  <1> HIDE DEF listed
  <1>5. CompleteMeansEveryone'
    BY <1>1, <1>2, <1>3, <1>4 DEF CompleteMeansEveryone
  <1> QED
    BY <1>1, <1>5 DEF AnalyticsInv, Steps, ReportUnderWay, ListingUnderWay, PageUnderWay,
                      ReportIsOfThisMailing

LEMMA StartListingKeeps ==
    ASSUME AnalyticsInv, NEW n \in Mailings, StartListing(n)
    PROVE  AnalyticsInv'
  <1>1. /\ WorldOK' /\ heard' = {} /\ UNCHANGED mailing
        /\ inquiry' = IF Measurable(mailing[n])
                      THEN [step |-> "records", of |-> n, meta |-> mailing[n]]
                      ELSE [step |-> "listing", of |-> n, due |-> 0, listed |-> {},
                            complete |-> TRUE, opens |-> {}, named |-> {}]
    BY BeginKeeps DEF StartListing, AnalyticsInv
  <1>2. CASE Measurable(mailing[n])
    <2>1. /\ inquiry'.step = "records" /\ inquiry'.of = n /\ inquiry'.meta = mailing[n]
      BY <1>1, <1>2
    <2>2. MetaOK(inquiry.of, inquiry.meta)'
      BY <1>1, <2>1 DEF MetaOK
    <2> QED
      BY <1>1, <2>1, <2>2 DEF AnalyticsInv, Steps, ReportUnderWay, ListingUnderWay, PageUnderWay,
                              ReportIsOfThisMailing, CompleteMeansEveryone
  <1>3. CASE ~Measurable(mailing[n])
    <2>1. inquiry'.step = "listing" /\ inquiry'.due = 0 /\ inquiry'.opens = {}
      BY <1>1, <1>3
    <2>2. "detail" \notin heard' /\ ~(inquiry'.due > 0)
      BY <1>1, <2>1
    <2>3. inquiry'.opens \subseteq store'[inquiry'.of].opens
      BY <2>1
    <2>4. CompleteMeansEveryone'
      BY <2>2, <2>3 DEF CompleteMeansEveryone
    <2> QED
      BY <1>1, <2>1, <2>4 DEF AnalyticsInv, Steps, ReportUnderWay, ListingUnderWay, PageUnderWay,
                              ReportIsOfThisMailing
  <1> QED
    BY <1>2, <1>3

LEMMA ReadRecordsKeeps ==
    ASSUME AnalyticsInv, ReadRecords
    PROVE  AnalyticsInv'
  <1> DEFINE n == inquiry.of
             provider == ReaderFor(inquiry.meta.provider)
             s == store[n]
             rows == [s EXCEPT !.opens = {}, !.clicks = {}]
  <1>1. /\ WorldOK /\ WorldOK' /\ inquiry.step = "records"
        /\ UNCHANGED <<mailing, store, viewed, begun, heard>>
    BY ReadingKeeps DEF AnalyticsInv, ReadRecords
  <1>2. n \in Mailings /\ MetaOK(n, inquiry.meta) /\ heard = {}
    BY <1>1 DEF AnalyticsInv, ListingUnderWay, MetaOK
  <1>3. StoreOf(provider, n) = s
    BY <1>1, <1>2, AskedStore
  <1>4. s \in Stores /\ s.recorded \subseteq mailing[n].audience
        /\ inquiry.meta.audience = mailing[n].audience
    BY <1>1, <1>2, RowFacts DEF WorldOK, MetaOK
  <1>5. CASE \E shown \in StatusByGroup(s) : inquiry' \in Listing(n, inquiry.meta, shown)
    <2>1. PICK shown \in StatusByGroup(s) : inquiry' \in Listing(n, inquiry.meta, shown)
      BY <1>5
    <2>2. shown.recorded \subseteq s.recorded /\ shown.opens \subseteq s.opens
      BY <1>4, ShownIsSome
    <2> HIDE DEF n
    <2> QED
      BY <1>1, <1>2, <1>4, <2>1, <2>2, ListingGiven
  <1>6. CASE inquiry' = [step |-> "opens", of |-> n, meta |-> inquiry.meta, shown |-> rows]
    <2>1. /\ inquiry'.step = "opens" /\ inquiry'.of = n /\ inquiry'.meta = inquiry.meta
          /\ inquiry'.shown = rows /\ DOMAIN inquiry' = {"step", "of", "meta", "shown"}
      BY <1>6
    <2>2. rows.recorded = s.recorded
          /\ DOMAIN rows = {"recorded", "delivered", "failed", "opens", "clicks"}
      BY <1>4 DEF Stores
    <2>3. MetaOK(inquiry.of, inquiry.meta)'
      BY <1>1, <1>2, <2>1 DEF MetaOK
    <2> HIDE DEF rows
    <2> QED
      BY <1>1, <1>2, <2>1, <2>2, <2>3
      DEF AnalyticsInv, Steps, ReportUnderWay, ListingUnderWay, PageUnderWay,
          ReportIsOfThisMailing, CompleteMeansEveryone
  <1> QED
    BY <1>3, <1>5, <1>6 DEF ReadRecords

LEMMA ReadOpensKeeps ==
    ASSUME AnalyticsInv, ReadOpens
    PROVE  AnalyticsInv'
  <1> DEFINE n == inquiry.of
  <1>1. /\ WorldOK /\ WorldOK' /\ inquiry.step = "opens"
        /\ UNCHANGED <<mailing, store, viewed, begun, heard>>
    BY ReadingKeeps DEF AnalyticsInv, ReadOpens
  <1>2. /\ n \in Mailings /\ MetaOK(n, inquiry.meta) /\ heard = {}
        /\ DOMAIN inquiry = {"step", "of", "meta", "shown"}
        /\ DOMAIN inquiry.shown = {"recorded", "delivered", "failed", "opens", "clicks"}
        /\ inquiry.shown.recorded \subseteq store[n].recorded
    BY <1>1 DEF AnalyticsInv, ListingUnderWay, MetaOK
  <1>3. inquiry' = [inquiry EXCEPT !.step = "clicks", !.shown.opens = store[n].opens]
    BY DEF ReadOpens
  <1>4. /\ inquiry'.step = "clicks" /\ inquiry'.of = n /\ inquiry'.meta = inquiry.meta
        /\ DOMAIN inquiry' = {"step", "of", "meta", "shown"}
        /\ inquiry'.shown = [inquiry.shown EXCEPT !.opens = store[n].opens]
    BY <1>2, <1>3
  <1>5. /\ inquiry'.shown.recorded = inquiry.shown.recorded
        /\ inquiry'.shown.opens = store[n].opens
        /\ DOMAIN inquiry'.shown = {"recorded", "delivered", "failed", "opens", "clicks"}
    BY <1>2, <1>4
  <1>6. begun.store[n].opens \subseteq store[n].opens
    BY <1>1, <1>2 DEF WorldOK, Grew
  <1>7. MetaOK(inquiry.of, inquiry.meta)'
    BY <1>1, <1>2, <1>4 DEF MetaOK
  <1> QED
    BY <1>1, <1>2, <1>4, <1>5, <1>6, <1>7
    DEF AnalyticsInv, Steps, ReportUnderWay, ListingUnderWay, PageUnderWay,
        ReportIsOfThisMailing, CompleteMeansEveryone

LEMMA ReadClicksKeeps ==
    ASSUME AnalyticsInv, ReadClicks
    PROVE  AnalyticsInv'
  <1> DEFINE n == inquiry.of
  <1>1. /\ WorldOK /\ WorldOK' /\ inquiry.step = "clicks"
        /\ UNCHANGED <<mailing, store, viewed, begun>>
        /\ heard' = {"detail"} /\ inquiry' \in Listing(n, inquiry.meta, inquiry.shown)
    BY ReadingKeeps DEF AnalyticsInv, ReadClicks
  <1>2. /\ n \in Mailings /\ MetaOK(n, inquiry.meta)
        /\ inquiry.shown.recorded \subseteq store[n].recorded
        /\ begun.store[n].opens \subseteq inquiry.shown.opens
        /\ inquiry.shown.opens \subseteq store[n].opens
    BY <1>1 DEF AnalyticsInv, ListingUnderWay, MetaOK
  <1>3. store[n].recorded \subseteq mailing[n].audience
        /\ inquiry.meta.audience = mailing[n].audience
    BY <1>1, <1>2, RowFacts DEF WorldOK, MetaOK
  <1> HIDE DEF n
  <1> QED
    BY <1>1, <1>2, <1>3, ListingGiven

LEMMA FailureKeeps ==
    ASSUME AnalyticsInv, FailRecords \/ FailLocal
    PROVE  AnalyticsInv'
  <1>1. WorldOK' /\ heard' = heard /\ inquiry'.step = "failed"
    BY ReadingKeeps DEF AnalyticsInv, FailRecords, FailLocal
  <1> QED
    BY <1>1 DEF AnalyticsInv, Steps, ReportUnderWay, ListingUnderWay, PageUnderWay,
                ReportIsOfThisMailing, CompleteMeansEveryone

----------------------------------------------------------------------------
(* The totals of a page.                                                   *)

LEMMA StartPageKeeps ==
    ASSUME AnalyticsInv, NEW page \in SUBSET Mailings, StartPage(page)
    PROVE  AnalyticsInv'
  <1>1. /\ WorldOK' /\ heard' = {} /\ UNCHANGED mailing
        /\ inquiry' = [step |-> "opens of page", meta |-> [n \in page |-> mailing[n]]]
    BY BeginKeeps DEF StartPage, AnalyticsInv
  <1>2. inquiry'.step = "opens of page" /\ inquiry'.meta = [n \in page |-> mailing[n]]
    BY <1>1
  <1>3. \A n \in DOMAIN inquiry'.meta : MetaOK(n, inquiry.meta[n])'
    BY <1>1, <1>2 DEF MetaOK
  <1> QED
    BY <1>1, <1>2, <1>3 DEF AnalyticsInv, Steps, ReportUnderWay, ListingUnderWay, PageUnderWay,
                            ReportIsOfThisMailing, CompleteMeansEveryone

LEMMA TotalsOfPage ==
    ASSUME WorldOK, NEW n \in Mailings
    PROVE  /\ Cardinality(viewed[n]) \in Nat /\ Cardinality(store[n].opens) \in Nat
           /\ Cardinality(begun.viewed[n]) \in Nat /\ Cardinality(begun.store[n].opens) \in Nat
           /\ Cardinality(begun.viewed[n]) <= Cardinality(viewed[n])
           /\ Cardinality(begun.store[n].opens) <= Cardinality(store[n].opens)
  <1>1. OpensOK(viewed[n]) /\ begun.viewed[n] \in SUBSET viewed[n]
    BY DEF WorldOK
  <1>2. StoreOK(store[n]) /\ begun.store[n].opens \in SUBSET store[n].opens
    BY DEF WorldOK, Grew
  <1> QED
    BY <1>1, <1>2, OpensFacts, StoreFacts, FS_Subset, FS_CardinalityType

LEMMA OpenCountsKeeps ==
    ASSUME AnalyticsInv, OpenCounts
    PROVE  AnalyticsInv'
  <1> DEFINE sent == SentOf(inquiry.meta)
             totals == [n \in sent |-> Cardinality(viewed[n])]
  <1>1. /\ WorldOK /\ WorldOK' /\ inquiry.step = "opens of page"
        /\ UNCHANGED <<mailing, store, viewed, begun>> /\ heard' = {"counts"}
    BY ReadingKeeps DEF AnalyticsInv, OpenCounts
  <1>2. \A n \in DOMAIN inquiry.meta : n \in Mailings /\ MetaOK(n, inquiry.meta[n])
    BY <1>1 DEF AnalyticsInv, PageUnderWay, MetaOK
  <1>11. \A n \in Mailings : n \notin heard'
    BY <1>1, AnalyticsAssumption
  <1>3. inquiry' = [step |-> "totals", meta |-> inquiry.meta, asking |-> sent, totals |-> totals]
    BY DEF OpenCounts, SentOf
  <1>4. /\ inquiry'.step = "totals" /\ inquiry'.meta = inquiry.meta /\ inquiry'.asking = sent
        /\ inquiry'.totals = totals /\ DOMAIN inquiry' = {"step", "meta", "asking", "totals"}
    BY <1>3
  <1>5. \A n \in sent : n \in Mailings
    BY <1>2 DEF SentOf
  <1>6. \A n \in sent :
           /\ totals[n] = Cardinality(viewed[n]) /\ totals[n] \in Nat
           /\ Between(Cardinality(begun.viewed[n]), totals[n],
                      Greater(Cardinality(viewed[n]), Cardinality(store[n].opens)))
    <2> SUFFICES ASSUME NEW n \in sent
                 PROVE  /\ Cardinality(viewed[n]) \in Nat
                        /\ Between(Cardinality(begun.viewed[n]), Cardinality(viewed[n]),
                                   Greater(Cardinality(viewed[n]), Cardinality(store[n].opens)))
      OBVIOUS
    <2>1. /\ Cardinality(viewed[n]) \in Nat /\ Cardinality(store[n].opens) \in Nat
          /\ Cardinality(begun.viewed[n]) \in Nat
          /\ Cardinality(begun.viewed[n]) <= Cardinality(viewed[n])
      BY <1>1, <1>5, TotalsOfPage
    <2>2. Between(Cardinality(begun.viewed[n]), Cardinality(viewed[n]),
                  Greater(Cardinality(viewed[n]), Cardinality(store[n].opens)))
      BY <2>1 DEF Between, Greater
    <2> QED
      BY <2>1, <2>2
  <1>7. \A n \in DOMAIN inquiry'.meta : MetaOK(n, inquiry.meta[n])'
    BY <1>1, <1>2, <1>4 DEF MetaOK
  <1>8. SentOf(inquiry.meta)' = sent
    BY <1>4 DEF SentOf
  <1>9. totals \in [sent -> Nat]
    BY <1>6
  <1> HIDE DEF totals, sent
  <1>10. \A n \in sent : TotalOK(n, inquiry.totals[n])'
    BY <1>1, <1>4, <1>5, <1>6, <1>11 DEF TotalOK
  <1> QED
    BY <1>1, <1>2, <1>4, <1>7, <1>8, <1>9, <1>10
    DEF AnalyticsInv, Steps, ReportUnderWay, ListingUnderWay, PageUnderWay,
        ReportIsOfThisMailing, CompleteMeansEveryone

LEMMA FailOpenCountsKeeps ==
    ASSUME AnalyticsInv, FailOpenCounts
    PROVE  AnalyticsInv'
  <1>1. /\ WorldOK' /\ inquiry.step = "opens of page" /\ heard' = heard
        /\ inquiry' = [step |-> "page", meta |-> inquiry.meta, totals |-> [n \in {} |-> 0]]
    BY ReadingKeeps DEF AnalyticsInv, FailOpenCounts
  <1>2. heard' = {} /\ inquiry'.step = "page" /\ DOMAIN inquiry'.totals = {}
    BY <1>1 DEF AnalyticsInv, PageUnderWay
  <1> QED
    BY <1>1, <1>2 DEF AnalyticsInv, Steps, ReportUnderWay, ListingUnderWay, PageUnderWay,
                      ReportIsOfThisMailing, CompleteMeansEveryone

(* A provider's answer raises one total, or none.                          *)
LEMMA TotalsStep ==
    ASSUME AnalyticsInv, Reading("totals")
    PROVE  /\ WorldOK /\ WorldOK' /\ inquiry.step = "totals"
           /\ UNCHANGED <<mailing, store, viewed, begun>>
           /\ "counts" \in heard
           /\ \A n \in DOMAIN inquiry.meta : n \in Mailings /\ MetaOK(n, inquiry.meta[n])
           /\ DOMAIN inquiry = {"step", "meta", "asking", "totals"}
           /\ inquiry.asking \subseteq SentOf(inquiry.meta)
           /\ inquiry.totals \in [SentOf(inquiry.meta) -> Nat]
           /\ \A n \in SentOf(inquiry.meta) : n \in Mailings /\ TotalOK(n, inquiry.totals[n])
  <1>1. WorldOK /\ WorldOK' /\ inquiry.step = "totals" /\ UNCHANGED <<mailing, store, viewed, begun>>
    BY ReadingKeeps DEF AnalyticsInv
  <1> QED
    BY <1>1 DEF AnalyticsInv, PageUnderWay, MetaOK, SentOf

LEMMA AnsweredTotals ==
    ASSUME AnalyticsInv, Reading("totals"), heard' \subseteq {"scalar", "detail", "counts"} \cup Mailings,
           "counts" \in heard', inquiry'.step = "totals", inquiry'.meta = inquiry.meta,
           DOMAIN inquiry' = {"step", "meta", "asking", "totals"},
           inquiry'.asking \subseteq inquiry.asking,
           inquiry'.totals \in [SentOf(inquiry.meta) -> Nat],
           \A n \in SentOf(inquiry.meta) : TotalOK(n, inquiry.totals[n])'
    PROVE  AnalyticsInv'
  <1>1. /\ WorldOK' /\ UNCHANGED <<mailing, store, viewed, begun>>
        /\ inquiry.asking \subseteq SentOf(inquiry.meta)
        /\ \A n \in DOMAIN inquiry.meta : MetaOK(n, inquiry.meta[n])
    BY TotalsStep
  <1>2. \A n \in DOMAIN inquiry'.meta : MetaOK(n, inquiry.meta[n])'
    BY <1>1 DEF MetaOK
  <1>3. SentOf(inquiry.meta)' = SentOf(inquiry.meta)
    BY DEF SentOf
  <1>4. PageUnderWay'
    BY <1>1, <1>2, <1>3 DEF PageUnderWay
  <1> QED
    BY <1>1, <1>4 DEF AnalyticsInv, Steps, ReportUnderWay, ListingUnderWay,
                      ReportIsOfThisMailing, CompleteMeansEveryone

LEMMA WithProviderOpensKeeps ==
    ASSUME AnalyticsInv, NEW n \in Mailings, WithProviderOpens(n)
    PROVE  AnalyticsInv'
  <1> DEFINE sent == SentOf(inquiry.meta)
  <1>1. Reading("totals") /\ n \in inquiry.asking
    BY DEF WithProviderOpens
  <1>2. /\ WorldOK /\ UNCHANGED <<mailing, store, viewed, begun>>
        /\ \A m \in DOMAIN inquiry.meta : m \in Mailings /\ MetaOK(m, inquiry.meta[m])
        /\ DOMAIN inquiry = {"step", "meta", "asking", "totals"}
        /\ inquiry.step = "totals" /\ inquiry.asking \subseteq sent
        /\ inquiry.totals \in [sent -> Nat]
        /\ \A m \in sent : m \in Mailings /\ TotalOK(m, inquiry.totals[m])
        /\ n \in sent /\ MetaOK(n, inquiry.meta[n]) /\ "counts" \in heard
    BY <1>1, TotalsStep DEF SentOf
  <1>3. heard \subseteq {"scalar", "detail", "counts"} \cup Mailings
    BY DEF AnalyticsInv
  <1> HIDE DEF sent
  <1>4. CASE inquiry' = [inquiry EXCEPT !.asking = @ \ {n}] /\ UNCHANGED heard
    <2>1. /\ inquiry'.step = "totals" /\ inquiry'.meta = inquiry.meta
          /\ inquiry'.asking \subseteq inquiry.asking /\ inquiry'.totals = inquiry.totals
          /\ DOMAIN inquiry' = {"step", "meta", "asking", "totals"}
      BY <1>2, <1>4
    <2>2. \A m \in sent : TotalOK(m, inquiry.totals[m])'
      BY <1>2, <1>4, <2>1 DEF TotalOK
    <2> QED
      BY <1>1, <1>2, <1>3, <1>4, <2>1, <2>2, AnsweredTotals DEF sent
  <1>5. ASSUME NEW e \in GetEngagement(ReaderFor(inquiry.meta[n].provider), n),
               inquiry' = [inquiry EXCEPT !.asking = @ \ {n}, !.totals[n] = Greater(@, e.opens)],
               heard' = IF mailing[n].home = "sendgrid" THEN heard \cup {n} ELSE heard
        PROVE  AnalyticsInv'
    <2> DEFINE raised == Greater(inquiry.totals[n], e.opens)
    <2>1. /\ e \in Tallies /\ e.opens <= Scalars(store[n]).opens
          /\ FromSendGrid(n) => e = Scalars(store[n])
      BY <1>2, Figures DEF Fields
    <2>2. e.opens \in Nat /\ inquiry.totals[n] \in Nat
      BY <1>2, <2>1 DEF Tallies, Fields
    <2>3. raised \in Nat
      BY <2>2 DEF Greater
    <2>4. Scalars(store[n]).opens = Cardinality(store[n].opens)
      BY DEF Scalars
    <2>5. /\ inquiry'.step = "totals" /\ inquiry'.meta = inquiry.meta
          /\ inquiry'.asking \subseteq inquiry.asking
          /\ inquiry'.totals = [inquiry.totals EXCEPT ![n] = raised]
          /\ DOMAIN inquiry' = {"step", "meta", "asking", "totals"}
      BY <1>2, <1>5
    <2>6. inquiry'.totals \in [sent -> Nat] /\ inquiry'.totals[n] = raised
      BY <1>2, <2>3, <2>5
    <2>7. TotalOK(n, inquiry.totals[n])'
      <3> DEFINE low == IF n \in heard' THEN Cardinality(begun.store[n].opens)
                        ELSE Cardinality(begun.viewed[n])
      <3>1. /\ Cardinality(viewed[n]) \in Nat /\ Cardinality(store[n].opens) \in Nat
            /\ Cardinality(begun.viewed[n]) \in Nat /\ Cardinality(begun.store[n].opens) \in Nat
            /\ Cardinality(begun.store[n].opens) <= Cardinality(store[n].opens)
        BY <1>2, TotalsOfPage
      <3>2. /\ Cardinality(IF n \in heard THEN begun.store[n].opens ELSE begun.viewed[n])
                  <= inquiry.totals[n]
            /\ inquiry.totals[n] <= Greater(Cardinality(viewed[n]), Cardinality(store[n].opens))
        BY <1>2 DEF TotalOK, Between
      <3>3. inquiry.totals[n] <= raised /\ e.opens <= raised
        BY <2>2 DEF Greater
      <3>4. raised <= Greater(Cardinality(viewed[n]), Cardinality(store[n].opens))
        BY <2>1, <2>2, <2>4, <3>1, <3>2 DEF Greater
      <3> HIDE DEF raised
      <3>5. low <= raised /\ low \in Nat
        <4>1. CASE FromSendGrid(n)
          <5>1. n \in heard' /\ e.opens = Cardinality(store[n].opens)
            BY <1>5, <2>1, <2>4, <4>1 DEF FromSendGrid
          <5> QED
            BY <2>2, <2>3, <3>1, <3>3, <5>1
        <4>2. CASE ~FromSendGrid(n)
          <5>1. heard' = heard
            BY <1>5, <4>2 DEF FromSendGrid
          <5>2. low <= inquiry.totals[n]
            BY <3>2, <5>1
          <5> QED
            BY <2>2, <2>3, <3>1, <3>3, <5>2
        <4> QED
          BY <4>1, <4>2
      <3>6. low = Cardinality(IF n \in heard' THEN begun.store[n].opens ELSE begun.viewed[n])
        OBVIOUS
      <3> HIDE DEF low
      <3> QED
        BY <1>2, <2>3, <2>6, <3>4, <3>5, <3>6 DEF TotalOK, Between
    <2> HIDE DEF raised
    <2>8. \A m \in sent : TotalOK(m, inquiry.totals[m])'
      <3> SUFFICES ASSUME NEW m \in sent, m # n
                   PROVE  TotalOK(m, inquiry.totals[m])'
        BY <2>7
      <3>1. inquiry'.totals[m] = inquiry.totals[m] /\ (m \in heard' <=> m \in heard)
        BY <1>2, <1>5, <2>5
      <3> QED
        BY <1>2, <3>1 DEF TotalOK
    <2>9. heard' \subseteq {"scalar", "detail", "counts"} \cup Mailings /\ "counts" \in heard'
      BY <1>2, <1>3, <1>5
    <2> QED
      BY <1>1, <2>5, <2>6, <2>8, <2>9, AnsweredTotals DEF sent
  <1> QED
    BY <1>4, <1>5 DEF WithProviderOpens

LEMMA MissProviderOpensKeeps ==
    ASSUME AnalyticsInv, NEW n \in Mailings, MissProviderOpens(n)
    PROVE  AnalyticsInv'
  <1>1. Reading("totals") /\ UNCHANGED heard /\ inquiry' = [inquiry EXCEPT !.asking = @ \ {n}]
    BY DEF MissProviderOpens
  <1>2. /\ UNCHANGED <<mailing, store, viewed, begun>> /\ "counts" \in heard
        /\ DOMAIN inquiry = {"step", "meta", "asking", "totals"} /\ inquiry.step = "totals"
        /\ inquiry.totals \in [SentOf(inquiry.meta) -> Nat]
        /\ \A m \in SentOf(inquiry.meta) : TotalOK(m, inquiry.totals[m])
    BY <1>1, TotalsStep
  <1>3. /\ inquiry'.step = "totals" /\ inquiry'.meta = inquiry.meta
        /\ inquiry'.asking \subseteq inquiry.asking /\ inquiry'.totals = inquiry.totals
        /\ DOMAIN inquiry' = {"step", "meta", "asking", "totals"}
    BY <1>1, <1>2
  <1>4. \A m \in SentOf(inquiry.meta) : TotalOK(m, inquiry.totals[m])'
    BY <1>1, <1>2, <1>3 DEF TotalOK
  <1> QED
    BY <1>1, <1>2, <1>3, <1>4, AnsweredTotals DEF AnalyticsInv

LEMMA AnswerPageKeeps ==
    ASSUME AnalyticsInv, AnswerPage
    PROVE  AnalyticsInv'
  <1>1. /\ Reading("totals") /\ UNCHANGED heard
        /\ inquiry' = [step |-> "page", meta |-> inquiry.meta, totals |-> inquiry.totals]
    BY DEF AnswerPage
  <1>2. /\ WorldOK' /\ UNCHANGED <<mailing, store, viewed, begun>> /\ "counts" \in heard
        /\ inquiry.totals \in [SentOf(inquiry.meta) -> Nat]
        /\ \A m \in SentOf(inquiry.meta) : TotalOK(m, inquiry.totals[m])
    BY <1>1, TotalsStep
  <1>3. inquiry'.step = "page" /\ inquiry'.meta = inquiry.meta /\ inquiry'.totals = inquiry.totals
    BY <1>1
  <1>4. ReportIsOfThisMailing'
    BY <1>1, <1>2, <1>3 DEF ReportIsOfThisMailing, SentOf, TotalOK
  <1> QED
    BY <1>1, <1>2, <1>3, <1>4 DEF AnalyticsInv, Steps, ReportUnderWay, ListingUnderWay,
                                  PageUnderWay, CompleteMeansEveryone

----------------------------------------------------------------------------
(* The theorems.                                                           *)

LEMMA InitHolds == ANInit => AnalyticsInv
  <1> SUFFICES ASSUME ANInit
               PROVE  AnalyticsInv
    OBVIOUS
  <1>1. /\ inquiry.step = "idle" /\ heard = {} /\ begun = World
        /\ mailing \in [Mailings -> Rows] /\ viewed = [n \in Mailings |-> {}]
    BY DEF ANInit, NoInquiry
  <1>2. \A n \in Mailings :
           store[n] = [recorded |-> mailing[n].recorded, delivered |-> {}, failed |-> {},
                       opens |-> {}, clicks |-> {}]
    BY DEF ANInit, Empty
  <1>3. ASSUME NEW n \in Mailings
        PROVE  mailing[n].recorded \subseteq People /\ IsFiniteSet(mailing[n].recorded)
    <2>1. mailing[n] \in Rows
      BY <1>1
    <2>2. /\ mailing[n] \in MailingRows /\ mailing[n].recorded \in SUBSET mailing[n].audience
          /\ IsFiniteSet(mailing[n].audience)
      BY <2>1, AnalyticsAssumption
    <2>3. mailing[n].recorded \subseteq People
      BY <2>2 DEF MailingRows
    <2> QED
      BY <2>2, <2>3, FS_Subset
  <1>4. ASSUME NEW n \in Mailings
        PROVE  store[n] \in Stores /\ StoreOK(store[n]) /\ store[n].recorded = mailing[n].recorded
    <2>1. store[n] = [recorded |-> mailing[n].recorded, delivered |-> {}, failed |-> {},
                      opens |-> {}, clicks |-> {}]
      BY <1>2
    <2>2. mailing[n].recorded \in SUBSET People
      BY <1>3
    <2>3. store[n] \in Stores
      BY <2>1, <2>2 DEF Stores
    <2>4. /\ store[n].recorded = mailing[n].recorded /\ store[n].delivered = {}
          /\ store[n].failed = {} /\ store[n].opens = {} /\ store[n].clicks = {}
      BY <2>1
    <2> QED
      BY <1>3, <2>3, <2>4, FS_EmptySet DEF StoreOK
  <1>5. store \in [Mailings -> Stores]
    BY <1>4 DEF ANInit
  <1>6. \A n \in Mailings : OpensOK(viewed[n]) /\ viewed[n] \subseteq OpenEvents
    BY <1>1, FS_EmptySet DEF OpensOK
  <1>7. WorldOK
    BY <1>1, <1>4, <1>5, <1>6 DEF WorldOK, World, Grew
  <1> QED
    BY <1>1, <1>7 DEF AnalyticsInv, Steps, ReportUnderWay, ListingUnderWay, PageUnderWay,
                      ReportIsOfThisMailing, CompleteMeansEveryone

LEMMA StutterKeeps ==
    ASSUME AnalyticsInv, UNCHANGED analyticsVars
    PROVE  AnalyticsInv'
  <1>1. UNCHANGED <<mailing, store, viewed, inquiry, begun, heard>>
    BY DEF analyticsVars
  <1>2. WorldOK' /\ inquiry'.step \in Steps /\ heard' \subseteq {"scalar", "detail", "counts"} \cup Mailings
    BY <1>1 DEF AnalyticsInv, WorldOK
  <1>3. ReportUnderWay'
    <2>1. ReportUnderWay
      BY DEF AnalyticsInv
    <2> QED
      BY <1>1, <2>1 DEF ReportUnderWay, MetaOK, LocalTally, LocalLast, LocalSeries, TallyOK,
                        TallyHolds, FromSendGrid, PartOfDetail, DetailOK, DailyFrom
  <1>4. ListingUnderWay'
    BY <1>1 DEF AnalyticsInv, ListingUnderWay, MetaOK
  <1>5. PageUnderWay'
    BY <1>1 DEF AnalyticsInv, PageUnderWay, MetaOK, TotalOK
  <1>6. ReportIsOfThisMailing'
    BY <1>1 DEF AnalyticsInv, ReportIsOfThisMailing, TallyHolds, SeriesHolds, FromSendGrid
  <1>7. CompleteMeansEveryone'
    BY <1>1 DEF AnalyticsInv, CompleteMeansEveryone
  <1> QED
    BY <1>2, <1>3, <1>4, <1>5, <1>6, <1>7 DEF AnalyticsInv

LEMMA StepHolds == AnalyticsInv /\ [ANNext]_analyticsVars => AnalyticsInv'
  <1> SUFFICES ASSUME AnalyticsInv, [ANNext]_analyticsVars
               PROVE  AnalyticsInv'
    OBVIOUS
  <1>0. WorldOK
    BY DEF AnalyticsInv
  <1>1. CASE UNCHANGED analyticsVars
    BY <1>1, StutterKeeps
  <1>2. ASSUME NEW n \in Mailings, NEW who \in People, DeliverTo(n, who) \/ Bounce(n, who)
        PROVE  AnalyticsInv'
    BY <1>0, <1>2, RecordedMoves, WorldGrows DEF DeliverTo, Bounce
  <1>3. ASSUME NEW n \in Mailings, NEW who \in People, NEW at \in Hours,
               \/ OpenEmail(n, who, at) \/ RecordOpen(n, who, at)
               \/ \E url \in URLs : ClickLink(n, who, at, url)
        PROVE  AnalyticsInv'
    <2>1. CASE OpenEmail(n, who, at)
      BY <1>0, <2>1, OpenEmailMoves, WorldGrows
    <2>2. CASE RecordOpen(n, who, at)
      BY <1>0, <2>2, RecordOpenMoves, WorldGrows
    <2>3. ASSUME NEW url \in URLs, ClickLink(n, who, at, url)
          PROVE  AnalyticsInv'
      BY <1>0, <2>3, ClickLinkMoves, WorldGrows
    <2> QED
      BY <1>3, <2>1, <2>2, <2>3
  <1>4. ASSUME NEW n \in Mailings, FinishSend(n)
        PROVE  AnalyticsInv'
    BY <1>0, <1>4, FinishSendMoves, WorldGrows
  <1>5. ASSUME NEW n \in Mailings,
               StartReport(n) \/ StartListing(n) \/ WithProviderOpens(n) \/ MissProviderOpens(n)
        PROVE  AnalyticsInv'
    BY <1>5, StartReportKeeps, StartListingKeeps, WithProviderOpensKeeps, MissProviderOpensKeeps
  <1>6. CASE \/ ReadLocalTotals \/ ReadLocalDaily \/ ReadScalar \/ FailScalar \/ ReadDetail
             \/ FailDetail
    BY <1>6, ReadLocalTotalsKeeps, ReadLocalDailyKeeps, ReadScalarKeeps, FailScalarKeeps,
       ReadDetailKeeps, FailDetailKeeps
  <1>7. CASE ReadRecords \/ ReadOpens \/ ReadClicks \/ FailRecords \/ FailLocal
    BY <1>7, ReadRecordsKeeps, ReadOpensKeeps, ReadClicksKeeps, FailureKeeps
  <1>8. ASSUME NEW page \in SUBSET Mailings, StartPage(page)
        PROVE  AnalyticsInv'
    BY <1>8, StartPageKeeps
  <1>9. CASE OpenCounts \/ FailOpenCounts \/ AnswerPage
    BY <1>9, OpenCountsKeeps, FailOpenCountsKeeps, AnswerPageKeeps
  <1> QED
    BY <1>1, <1>2, <1>3, <1>4, <1>5, <1>6, <1>7, <1>8, <1>9 DEF ANNext

(* What a request has read so far is within the bounds that its answer is  *)
(* held to, in every state.                                                *)
THEOREM AnalyticsInvariant == ANSpec => []AnalyticsInv
  BY InitHolds, StepHolds, PTL DEF ANSpec

(* Each figure of a report, and each total of a page, lies between what    *)
(* its sources held when the request began and what they hold as it is     *)
(* answered, and a page whose local count failed carries no total at all   *)
(* (AnalyticsService.Get, TotalOpensForList, totalOpensFor).               *)
THEOREM ReportTheorem == ANSpec => []ReportIsOfThisMailing
  <1>1. AnalyticsInv => ReportIsOfThisMailing
    BY DEF AnalyticsInv
  <1> QED
    BY <1>1, AnalyticsInvariant, PTL

(* A listing that calls itself complete names everyone who was mailed, and *)
(* what it leaves out of a recipient's opens later ones overtook.          *)
THEOREM ListingTheorem == ANSpec => []CompleteMeansEveryone
  <1>1. AnalyticsInv => CompleteMeansEveryone
    BY DEF AnalyticsInv
  <1> QED
    BY <1>1, AnalyticsInvariant, PTL

(* What the stores, the local opens and the requests are.                  *)
THEOREM AnalyticsTypes == ANSpec => []ANTypeOK
  <1>1. AnalyticsInv => ANTypeOK
    <2> SUFFICES ASSUME AnalyticsInv
                 PROVE  ANTypeOK
      OBVIOUS
    <2>1. ASSUME NEW n \in Mailings
          PROVE  /\ store[n].delivered \subseteq store[n].recorded
                 /\ store[n].failed \subseteq store[n].recorded
                 /\ store[n].opens \subseteq [by : store[n].recorded, at : Hours]
                 /\ store[n].clicks \subseteq [by : store[n].recorded, at : Hours, url : URLs]
                 /\ viewed[n] \subseteq [by : People, at : Hours]
                 /\ begun.viewed[n] \subseteq viewed[n]
      <3>1. StoreOK(store[n]) /\ OpensOK(viewed[n]) /\ begun.viewed[n] \subseteq viewed[n]
        BY DEF AnalyticsInv, WorldOK
      <3>2. store[n].opens \subseteq [by : store[n].recorded, at : Hours]
        BY <3>1 DEF StoreOK, Stores, OpenEvents
      <3>3. store[n].clicks \subseteq [by : store[n].recorded, at : Hours, url : URLs]
        BY <3>1 DEF StoreOK, Stores, ClickEvents
      <3> QED
        BY <3>1, <3>2, <3>3 DEF StoreOK, OpensOK, OpenEvents
    <2>2. mailing \in [Mailings -> Rows \cup {[row EXCEPT !.status = "sent"] : row \in Rows}]
      BY DEF AnalyticsInv, WorldOK
    <2>3. inquiry.step \in Steps /\ heard \subseteq {"scalar", "detail", "counts"} \cup Mailings
      BY DEF AnalyticsInv
    <2> QED
      BY <2>1, <2>2, <2>3 DEF ANTypeOK, Steps
  <1> QED
    BY <1>1, AnalyticsInvariant, PTL
=============================================================================
