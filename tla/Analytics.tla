----------------------------- MODULE Analytics -----------------------------
(***************************************************************************)
(* What the service reports of a mailing: the aggregate report, the        *)
(* per-recipient listing and the open totals that decorate a page of       *)
(* newsletters.  Every figure is read by a query of its own, from three    *)
(* places (the row, the local opens, the store of the provider that sent   *)
(* the mailing), while webhooks and pixels go on arriving and the send     *)
(* finishes.                                                               *)
(*                                                                         *)
(* A store is its events: that the rollup columns agree with them is what  *)
(* EngagementStore shows.  Events reach a store in any order.  Reads have  *)
(* no effect on the system, so one request at a time says what many would. *)
(***************************************************************************)
EXTENDS Integers, Sequences, FiniteSets

CONSTANTS
    Mailings,       \* newsletters
    People,         \* recipients and viewers
    Members,        \* of each committee: a function to sets of people
    Hours,          \* when something is opened or clicked, from 1
    URLs,           \* links of a newsletter's body
    Rows,           \* what a newsletter may be when it is first looked at
    MaxOpensPerRecipient,
    MaxTopLinks,
    MaxEvents       \* bound on the events explored

Providers == {"email-service", "sendgrid"}

(* provider: the column, blank in rows older than it.  home: the provider  *)
(* that mailed the newsletter, email-service whenever the column is blank. *)
(* audience: who was mailed, whose number the row keeps; group: the row    *)
(* carries a group id.                                                     *)
MailingRows ==
    [status : {"draft", "sending", "sent"}, provider : Providers \cup {""},
     home : Providers, group : BOOLEAN, audience : SUBSET People, recorded : SUBSET People]

ASSUME AnalyticsAssumption ==
    /\ {"scalar", "detail", "counts"} \cap Mailings = {}    \* the names of reads
    /\ Hours \subseteq Nat \ {0}
    /\ MaxOpensPerRecipient \in Nat \ {0} /\ MaxTopLinks \in Nat /\ MaxEvents \in Nat
    /\ Rows \subseteq MailingRows
    /\ \A row \in Rows :
          /\ row.provider = row.home \/ (row.provider = "" /\ row.home = "email-service")
          /\ IsFiniteSet(row.audience)
          /\ row.recorded \subseteq row.audience

VARIABLES
    mailing,       \* newsletters
    store,         \* what the provider that mailed it knows of each mailing
    viewed,        \* newsletter_opens: who opened it, in which hour
    inquiry,       \* the read under way, or the last one answered
    begun,         \* the stores and the local opens as it began
    heard          \* the reads of it that its provider's store answered, and
                   \* "counts", when the local opens of a page were counted

analyticsVars == <<mailing, store, viewed, inquiry, begun, heard>>

Open(who, at)       == [by |-> who, at |-> at]
Click(who, at, url) == [by |-> who, at |-> at, url |-> url]

Empty == [recorded |-> {}, delivered |-> {}, failed |-> {}, opens |-> {}, clicks |-> {}]

World == [store |-> store, viewed |-> viewed]

NoInquiry == [step |-> "idle"]

ANInit ==
    /\ mailing \in [Mailings -> Rows]
    /\ store = [n \in Mailings |-> [Empty EXCEPT !.recorded = mailing[n].recorded]]
    /\ viewed = [n \in Mailings |-> {}]
    /\ inquiry = NoInquiry
    /\ begun = World
    /\ heard = {}

ANTypeOK ==
    /\ mailing \in [Mailings -> Rows \cup {[row EXCEPT !.status = "sent"] : row \in Rows}]
    /\ \A n \in Mailings :
          /\ \A field \in {"delivered", "failed"} : store[n][field] \subseteq store[n].recorded
          /\ store[n].opens \subseteq [by : store[n].recorded, at : Hours]
          /\ store[n].clicks \subseteq [by : store[n].recorded, at : Hours, url : URLs]
          /\ viewed[n] \subseteq [by : People, at : Hours]
          /\ begun.viewed[n] \subseteq viewed[n]
    /\ inquiry.step \in {"idle", "meta", "daily", "scalar", "detail", "records", "opens",
                         "clicks", "opens of page", "totals", "report", "listing", "page", "failed"}
    /\ heard \subseteq {"scalar", "detail", "counts"} \cup Mailings

----------------------------------------------------------------------------
(* The world outside the request.                                          *)

Answered == {"idle", "report", "listing", "page", "failed"}

(* An answer is compared with the world as it stands when it is given, and *)
(* what comes later only widens the comparison: the world waits for the    *)
(* next request to begin.                                                  *)
Room(n) ==
    /\ inquiry.step \notin Answered \ {"idle"}
    /\ LET s == store[n]
       IN  Cardinality(s.delivered) + Cardinality(s.failed) + Cardinality(s.opens)
           + Cardinality(s.clicks) + Cardinality(viewed[n]) < MaxEvents

Recorded(n, field, event) ==
    /\ Room(n)
    /\ event \notin store[n][field]
    /\ store' = [store EXCEPT ![n][field] = @ \cup {event}]
    /\ UNCHANGED <<mailing, viewed, inquiry, begun, heard>>

DeliverTo(n, who) == who \in store[n].recorded /\ Recorded(n, "delivered", who)

Bounce(n, who) == who \in store[n].recorded /\ Recorded(n, "failed", who)

OpenEmail(n, who, at) == who \in store[n].recorded /\ Recorded(n, "opens", Open(who, at))

ClickLink(n, who, at, url) ==
    who \in store[n].recorded /\ Recorded(n, "clicks", Click(who, at, url))

(* One row per recipient and hour; a second one is dropped.  The pixel asks *)
(* only that the newsletter exists, so that a test send can light it up.   *)
RecordOpen(n, who, at) ==
    /\ Room(n)
    /\ viewed' = [viewed EXCEPT ![n] = @ \cup {Open(who, at)}]
    /\ UNCHANGED <<mailing, store, inquiry, begun, heard>>

FinishSend(n) ==
    /\ mailing[n].status = "sending"
    /\ inquiry.step \notin Answered \ {"idle"}
    /\ mailing' = [mailing EXCEPT ![n].status = "sent"]
    /\ UNCHANGED <<store, viewed, inquiry, begun, heard>>

----------------------------------------------------------------------------
(* Queries.                                                                *)

Unique(events) == {e.by : e \in events}

Day(at) == at \div 2

Days == {Day(at) : at \in Hours}

Series(events) ==
    [day \in Days |-> LET then == {e \in events : Day(e.at) = day}
                      IN  [all |-> Cardinality(then), unique |-> Cardinality(Unique(then))]]

NoSeries == Series({})

Greater(a, b) == IF a > b THEN a ELSE b

(* MAX over no row is NULL, here 0.                                        *)
Last(events) ==
    IF events = {} THEN 0
    ELSE CHOOSE at \in {e.at : e \in events} : \A e \in events : at >= e.at

MostRecent(events, cap) ==
    {e \in events : Cardinality({later \in events : later.by = e.by /\ later.at > e.at}) < cap}

(* GROUP BY url ORDER BY clicks DESC LIMIT: any choice among ties.         *)
TopLinks(clicks) ==
    LET On(url)  == {e \in clicks : e.url = url}
        Count(url) == Cardinality(On(url))
        clicked  == {e.url : e \in clicks}
        Entry(url) == [url |-> url, all |-> Count(url), unique |-> Cardinality(Unique(On(url)))]
        Top(some) == /\ Cardinality(some) <= MaxTopLinks
                     /\ \/ some = clicked
                        \/ Cardinality(some) = MaxTopLinks
                     /\ \A url \in some, other \in clicked \ some : Count(url) >= Count(other)
    IN  {{Entry(url) : url \in some} : some \in {s \in SUBSET clicked : Top(s)}}

(* A group id means something only to the provider that minted it.         *)
StoreOf(provider, n) == IF provider = mailing[n].home THEN store[n] ELSE Empty

ReaderForFault(provider) == "email-service"
ReaderFor(provider) == IF provider \in Providers THEN provider ELSE "email-service"

Scalars(s) ==
    [total        |-> Cardinality(s.recorded),
     delivered    |-> Cardinality(s.delivered),
     failed       |-> Cardinality(s.failed),
     opens        |-> Cardinality(s.opens),
     uniqueOpens  |-> Cardinality(Unique(s.opens)),
     clicks       |-> Cardinality(s.clicks),
     uniqueClicks |-> Cardinality(Unique(s.clicks))]

(* email-service answers empty while it backfills, and its reply carries   *)
(* no click figure.                                                        *)
GetEngagement(provider, n) ==
    LET s == StoreOf(provider, n)
    IN  IF provider = "sendgrid" THEN {Scalars(s)}
        ELSE {Scalars(Empty), Scalars([s EXCEPT !.clicks = {}])}

(* The by-group reply of email-service: some records are missing, and some *)
(* are of the older shape, with the last open only.                        *)
ByGroup(s, there, terse) ==
    [s EXCEPT !.recorded = there, !.delivered = @ \cap there, !.failed = @ \cap there,
              !.clicks = {},
              !.opens = {e \in @ : e.by \in there \ terse}
                        \cup {e \in MostRecent(@, 1) : e.by \in there \cap terse}]

StatusByGroup(s) ==
    {ByGroup(s, there, terse) : there \in SUBSET s.recorded, terse \in {{}, s.recorded}}

NoDetail == [uniqueOpens |-> 0, uniqueClicks |-> 0, daily |-> NoSeries,
             dailyClicks |-> NoSeries, links |-> {}, lastOpen |-> 0, lastClick |-> 0,
             failedOf |-> {}]

GroupDetailFromRecords(s) ==
    [NoDetail EXCEPT !.uniqueOpens = Cardinality(Unique(s.opens)),
                     !.daily = Series(s.opens), !.lastOpen = Last(s.opens),
                     !.failedOf = s.failed]

(* The store's own detail is one query after another, in this order.       *)
DetailQueries == <<"uniqueOpens", "uniqueClicks", "daily", "dailyClicks", "links",
                   "lastOpen", "lastClick", "failedOf">>

DetailQuery(query, s) ==
    CASE query = "uniqueOpens"  -> {Cardinality(Unique(s.opens))}
      [] query = "uniqueClicks" -> {Cardinality(Unique(s.clicks))}
      [] query = "daily"        -> {Series(s.opens)}
      [] query = "dailyClicks"  -> {Series(s.clicks)}
      [] query = "links"        -> TopLinks(s.clicks)
      [] query = "lastOpen"     -> {Last(s.opens)}
      [] query = "lastClick"    -> {Last(s.clicks)}
      [] query = "failedOf"     -> {s.failed}

----------------------------------------------------------------------------
(* The report.                                                             *)

Snapshot(row) == Cardinality(row.audience)

(* A step of a request leaves the world alone.                             *)
Reading(step) == inquiry.step = step /\ UNCHANGED <<mailing, store, viewed, begun>>

Begin(next) ==
    /\ inquiry.step \in Answered
    /\ inquiry' = next
    /\ begun' = World
    /\ heard' = {}
    /\ UNCHANGED <<mailing, store, viewed>>

Measurable(row) == row.status = "sent" /\ row.group

StartReport(n) == Begin([step |-> "meta", of |-> n, meta |-> mailing[n]])

(* The repository reads the row again before it counts the local opens.    *)
ReadLocalTotals ==
    /\ Reading("meta")
    /\ LET n == inquiry.of
       IN  inquiry' =
               [step |-> "daily", of |-> n, meta |-> inquiry.meta,
                tally |-> [Scalars([Empty EXCEPT !.opens = viewed[n]]) EXCEPT
                              !.total = Snapshot(mailing[n]), !.delivered = Snapshot(mailing[n])],
                last |-> Last(viewed[n])]
    /\ UNCHANGED heard

Report(r, series) ==
    [step |-> "report", of |-> r.of, tally |-> r.tally, last |-> r.last, series |-> series]

ReadLocalDaily ==
    /\ Reading("daily")
    /\ LET series == [NoDetail EXCEPT !.daily = Series(viewed[inquiry.of])]
       IN  inquiry' = IF Measurable(inquiry.meta)
                      THEN [step |-> "scalar", of |-> inquiry.of, meta |-> inquiry.meta,
                            tally |-> inquiry.tally, last |-> inquiry.last, local |-> series]
                      ELSE Report(inquiry, series)
    /\ UNCHANGED heard

(* The local figures are not best-effort: without them there is no report. *)
FailLocal ==
    /\ \E step \in {"meta", "daily"} : Reading(step)
    /\ inquiry' = [step |-> "failed"]
    /\ UNCHANGED heard

(* The audience is never lowered; what was delivered and what failed is    *)
(* the provider's to say; of opens and clicks the larger figure stands.    *)
Overlay(tally, e) ==
    [field \in DOMAIN tally |-> IF field \in {"delivered", "failed"} THEN e[field]
                                ELSE Greater(tally[field], e[field])]

ReadScalar ==
    /\ Reading("scalar")
    /\ \E e \in GetEngagement(ReaderFor(inquiry.meta.provider), inquiry.of) :
          /\ inquiry' = [step |-> "detail", of |-> inquiry.of, meta |-> inquiry.meta,
                         tally |-> Overlay(inquiry.tally, e), last |-> inquiry.last,
                         local |-> inquiry.local, detail |-> NoDetail, asked |-> 0]
          /\ heard' = IF mailing[inquiry.of].home = "sendgrid" \/ e # Scalars(Empty)
                      THEN {"scalar"} ELSE {}

FailScalar ==
    /\ Reading("scalar")
    /\ inquiry' = Report(inquiry, inquiry.local)
    /\ UNCHANGED heard

(* A part of the provider's detail replaces the local one unless empty.    *)
WithDetail(r, d) ==
    LET tally == [r.tally EXCEPT !.uniqueOpens = Greater(@, d.uniqueOpens),
                                 !.uniqueClicks = Greater(@, d.uniqueClicks)]
        series == [field \in DOMAIN d |-> IF d[field] = NoDetail[field] THEN r.local[field]
                                          ELSE d[field]]
    IN  Report([r EXCEPT !.tally = tally,
                         !.last = Greater(@, Greater(d.lastOpen, d.lastClick))], series)

ReadDetail ==
    /\ Reading("detail")
    /\ LET provider == ReaderFor(inquiry.meta.provider)
           s == StoreOf(provider, inquiry.of)
           query == DetailQueries[inquiry.asked + 1]
       IN  \/ /\ provider = "email-service"
              /\ \E shown \in StatusByGroup(s) :
                    inquiry' = WithDetail(inquiry, GroupDetailFromRecords(shown))
              /\ UNCHANGED heard
           \/ /\ provider = "sendgrid"
              /\ \E value \in DetailQuery(query, s) :
                    LET d == [inquiry.detail EXCEPT ![query] = value]
                        done == inquiry.asked + 1 = Len(DetailQueries)
                    IN  /\ inquiry' = IF done THEN WithDetail(inquiry, d)
                                      ELSE [inquiry EXCEPT !.detail = d, !.asked = @ + 1]
                        /\ heard' = IF done THEN heard \cup {"detail"} ELSE heard

FailDetail ==
    /\ Reading("detail")
    /\ inquiry' = Report(inquiry, inquiry.local)
    /\ UNCHANGED heard

----------------------------------------------------------------------------
(* The listing of recipients.                                              *)

CompleteFault(listed, row) == listed # {}
Complete(listed, row) == Cardinality(listed) >= Snapshot(row)

(* Names come from the committees that answer, and decide nothing else.    *)
Listing(n, row, shown) ==
    {[step |-> "listing", of |-> n, due |-> Snapshot(row), listed |-> shown.recorded,
      complete |-> Complete(shown.recorded, row),
      opens |-> MostRecent(shown.opens, MaxOpensPerRecipient),
      named |-> shown.recorded \cap UNION {Members[c] : c \in answering}] :
        answering \in SUBSET DOMAIN Members}

StartListing(n) ==
    Begin(IF Measurable(mailing[n])
          THEN [step |-> "records", of |-> n, meta |-> mailing[n]]
          ELSE [step |-> "listing", of |-> n, due |-> 0, listed |-> {}, complete |-> TRUE,
                opens |-> {}, named |-> {}])

(* The store lists its rows, then their opens, then their clicks.          *)
ReadRecords ==
    /\ Reading("records")
    /\ LET provider == ReaderFor(inquiry.meta.provider)
           s == StoreOf(provider, inquiry.of)
           rows == [s EXCEPT !.opens = {}, !.clicks = {}]
       IN  IF provider = "email-service" \/ s.recorded = {}
           THEN \E shown \in StatusByGroup(s) :
                   inquiry' \in Listing(inquiry.of, inquiry.meta, shown)
           ELSE inquiry' = [step |-> "opens", of |-> inquiry.of, meta |-> inquiry.meta,
                            shown |-> rows]
    /\ UNCHANGED heard

ReadOpens ==
    /\ Reading("opens")
    /\ inquiry' = [inquiry EXCEPT !.step = "clicks", !.shown.opens = store[inquiry.of].opens]
    /\ UNCHANGED heard

ReadClicks ==
    /\ Reading("clicks")
    /\ inquiry' \in Listing(inquiry.of, inquiry.meta, inquiry.shown)
    /\ heard' = {"detail"}

(* Unlike the report there is no local answer to fall back on.             *)
FailRecords ==
    /\ \E step \in {"records", "opens", "clicks"} : Reading(step)
    /\ inquiry' = [step |-> "failed"]
    /\ UNCHANGED heard

----------------------------------------------------------------------------
(* The open totals of a page, and of a single newsletter as a page of one. *)

(* Nothing but what was sent when the page was read carries a total.       *)
StartPage(page) ==
    Begin([step |-> "opens of page", meta |-> [n \in page |-> mailing[n]]])

OpenCounts ==
    /\ Reading("opens of page")
    /\ LET sent == {n \in DOMAIN inquiry.meta : inquiry.meta[n].status = "sent"}
       IN  inquiry' = [step |-> "totals", meta |-> inquiry.meta, asking |-> sent,
                       totals |-> [n \in sent |-> Cardinality(viewed[n])]]
    /\ heard' = {"counts"}

(* The one grouped count fails: the page is answered all the same, and no  *)
(* row of it carries a total.  With nothing sent there is no query to fail. *)
FailOpenCounts ==
    /\ Reading("opens of page")
    /\ \E n \in DOMAIN inquiry.meta : inquiry.meta[n].status = "sent"
    /\ inquiry' = [step |-> "page", meta |-> inquiry.meta, totals |-> [n \in {} |-> 0]]
    /\ UNCHANGED heard

WithProviderOpens(n) ==
    /\ Reading("totals")
    /\ n \in inquiry.asking
    /\ IF inquiry.meta[n].group
       THEN \E e \in GetEngagement(ReaderFor(inquiry.meta[n].provider), n) :
               /\ inquiry' = [inquiry EXCEPT !.asking = @ \ {n},
                                             !.totals[n] = Greater(@, e.opens)]
               /\ heard' = IF mailing[n].home = "sendgrid" THEN heard \cup {n} ELSE heard
       ELSE inquiry' = [inquiry EXCEPT !.asking = @ \ {n}] /\ UNCHANGED heard

(* Failed, or past the deadline the page shares.                           *)
MissProviderOpens(n) ==
    /\ Reading("totals")
    /\ n \in inquiry.asking
    /\ inquiry' = [inquiry EXCEPT !.asking = @ \ {n}]
    /\ UNCHANGED heard

AnswerPage ==
    /\ Reading("totals")
    /\ inquiry.asking = {}
    /\ inquiry' = [step |-> "page", meta |-> inquiry.meta, totals |-> inquiry.totals]
    /\ UNCHANGED heard

----------------------------------------------------------------------------
ANNext ==
    \/ \E n \in Mailings :
          \/ \E who \in People : DeliverTo(n, who) \/ Bounce(n, who)
          \/ \E who \in People, at \in Hours :
                \/ OpenEmail(n, who, at) \/ RecordOpen(n, who, at)
                \/ \E url \in URLs : ClickLink(n, who, at, url)
          \/ FinishSend(n)
          \/ StartReport(n) \/ StartListing(n)
          \/ WithProviderOpens(n) \/ MissProviderOpens(n)
    \/ ReadLocalTotals \/ ReadLocalDaily \/ FailLocal
    \/ ReadScalar \/ FailScalar \/ ReadDetail \/ FailDetail
    \/ ReadRecords \/ ReadOpens \/ ReadClicks \/ FailRecords
    \/ \E page \in SUBSET Mailings : StartPage(page)
    \/ OpenCounts \/ FailOpenCounts \/ AnswerPage

ANSpec == ANInit /\ [][ANNext]_analyticsVars

----------------------------------------------------------------------------
(* Properties.                                                             *)

Between(low, value, high) == low <= value /\ value <= high

LocalOf(opens) == Scalars([Empty EXCEPT !.opens = opens])

FromSendGrid(n) == mailing[n].home = "sendgrid"

(* A figure stands between what was known when the request began, of the   *)
(* local opens and of the provider that answered, and what is known now.   *)
TallyHolds(n, tally) ==
    \A field \in {"opens", "uniqueOpens", "clicks", "uniqueClicks"} :
        Between(Greater(LocalOf(begun.viewed[n])[field],
                        IF "scalar" \in heard /\ (FromSendGrid(n) \/ field \in {"opens", "uniqueOpens"})
                        THEN Scalars(begun.store[n])[field] ELSE 0),
                tally[field],
                Greater(LocalOf(viewed[n])[field], Scalars(store[n])[field]))

SeriesHolds(n, daily) ==
    LET Within(low, high) == \A day \in Days : /\ Between(low[day].all, daily[day].all, high[day].all)
                                               /\ Between(low[day].unique, daily[day].unique,
                                                          high[day].unique)
        known == IF "detail" \in heard THEN begun.store[n].opens ELSE {}
    IN  \/ Within(Series(known), Series(store[n].opens))
        \/ known = {} /\ Within(Series(begun.viewed[n]), Series(viewed[n]))

(* Each figure of a report is this mailing's, from one of its two sources, *)
(* and never lower than what either had when the request began: reads      *)
(* spread over several queries and two stores, a read of the wrong store,  *)
(* a failed or partial one never lower the audience, the opens or the      *)
(* clicks, nor invent any.  The totals on a page of newsletters keep the   *)
(* same rule: exactly those that were sent carry one, or, when the local   *)
(* count failed, none, and so no row shows a zero for opens nobody read.   *)
ReportIsOfThisMailing ==
    /\ inquiry.step = "report" =>
          LET n == inquiry.of
          IN  /\ Between(inquiry.tally.delivered, inquiry.tally.total, Snapshot(mailing[n]))
              /\ TallyHolds(n, inquiry.tally)
              /\ SeriesHolds(n, inquiry.series.daily)
              /\ inquiry.series.failedOf \subseteq store[n].failed
              /\ "detail" \in heard => begun.store[n].failed \subseteq inquiry.series.failedOf
              /\ Between(Last(begun.viewed[n]), inquiry.last,
                         Greater(Last(viewed[n]), Greater(Last(store[n].opens),
                                                          Last(store[n].clicks))))
    /\ inquiry.step = "page" =>
          LET sent == {n \in DOMAIN inquiry.meta : inquiry.meta[n].status = "sent"}
          IN  /\ DOMAIN inquiry.totals = IF "counts" \in heard THEN sent ELSE {}
              /\ \A n \in DOMAIN inquiry.totals :
                    Between(Cardinality(IF n \in heard THEN
                                begun.store[n].opens ELSE begun.viewed[n]),
                            inquiry.totals[n],
                            Greater(Cardinality(viewed[n]), Cardinality(store[n].opens)))

(* A listing that calls itself complete names everyone who was mailed,     *)
(* whatever records a provider lost or never wrote, and of a recipient's   *)
(* opens it keeps the latest: one it leaves out was overtaken by as many   *)
(* later ones as it may list.                                              *)
CompleteMeansEveryone ==
    inquiry.step = "listing" =>
        LET n == inquiry.of
            Later(e) == {f \in inquiry.opens : f.by = e.by /\ f.at >= e.at}
        IN  /\ inquiry.complete /\ inquiry.due > 0 => inquiry.listed = mailing[n].audience
            /\ inquiry.opens \subseteq store[n].opens
            /\ "detail" \in heard =>
                  \A e \in begun.store[n].opens :
                      \/ e \in inquiry.opens
                      \/ Cardinality(Later(e)) >= MaxOpensPerRecipient
=============================================================================
