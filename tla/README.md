# The newsletter service in TLA+

A verification development kept beside `lfx-v2-newsletter-service`: TLA+
modules translated from its Go and SQL sources, TLC configurations that check
them on small instances, and TLAPS proofs of the properties that matter most.
Paths below are relative to the repository (`src/` in `PROJECT.json`).

Run the checks with `tlc -workers 2 -config <cfg> <module>` and
`tlapm <module>`; `PROJECT.json` lists the runs, their properties, the source
lines behind every definition, the hazards and the theorems.

## 1. The system

A newsletter is one row of the `newsletters` table. Authors create it as a
draft, autosave it, and send it at once or schedule it; a send is accepted with
202 and carried out by a goroutine that outlives the request. Several replicas
run the same code over one PostgreSQL database; nothing is coordinated except
by SQL.

| Component | State it keeps | Operations | Interacts with |
|---|---|---|---|
| Newsletter lifecycle (`send_orchestrator.go`, `newsletter.go`, `postgres.go`) | the row: status, version, group_id, batch_id, scheduled_at, content | create, update, delete, send, schedule, cancel; `MarkSending`, `MarkSent`, `MarkScheduled`, `RevertSending`, `RevertScheduled` | repository, dispatcher, committee client |
| Recovery sweep (`implementations.go`) | none | `RecoverStuckSending`, `SettleDueScheduled`, every 5 minutes on every replica | the row, behind the jobs' backs |
| Fan-out pool and drain (`send_orchestrator.go`) | semaphore, counters, wait group, job deadline | `fanOut`, `runSendJob`, `Drain` | dispatcher; shutdown |
| Schedule timing | configuration | arm window, cancel window, job deadline, sweep ages | all of the above, through the clock |
| SendGrid dispatcher | none (the provider holds the batches) | `SendEmail`, `CreateBatchID`, `CancelScheduledBatch`, `PurgeEngagement` | SendGrid, engagement store |
| email-service dispatcher (NATS) | none | `SendEmail`, engagement queries | NATS request/reply |
| Engagement store (`sendgrid_engagement.go`, `schema.sql`) | engagement rows, open and click events, tombstones, advisory locks | `RecordSent`, `ApplyDelivered`, `ApplyFailed`, `ApplyOpen`, `ApplyClick`, `RevertGroup` | dispatcher, webhook, reverts and cancels |
| Event webhook (`webhook.go`) | none | apply a batch, reply 204 or 500 | SendGrid redelivers on anything but 2xx |
| Recipient resolution | none | concurrent committee lookups, de-duplication, opt-out filter | committee client, opt-outs |
| Unsubscribe (`unsubscribe.go`) | opt-outs by project and address | subscribe, unsubscribe, token check | recipient resolution |
| Layout and letters (`newsletter.go`, `send_orchestrator.go`, `email_chrome.go`) | body_layout, body_html | render on write, tri-state update, re-render on send, substitution per recipient | the row, the renderer |
| Declarative renderer (`render/declarative/`) | none | bind a layout to its templates, write MJML, put card shadows back | the MJML compiler |
| Analytics (`analytics.go`, `reader.go`) | none | totals, per-recipient detail, daily series | engagement store or email-service |
| Shares, page views, opens | rows with unique keys | insert or ignore | analytics |
| Pagination (`postgres.go`) | the cursor, held by the client | list by `(updated_at, id)` | concurrent updates |
| HTTP layer, NATS lookups, schema application, start-up, observability | none of their own | decoding, authorisation, wiring | everything |

### What is hard

- *Interleaving.* Every request reads, computes for seconds, and writes;
  replicas share only the row. The guard of each UPDATE is all that protects it.
- *Detached jobs.* A job outlives its request, a cancel, even its claim.
- *Ambiguous outcomes.* A provider call without an answer may have sent mail;
  a cancel that reports an error may have worked.
- *Crashes.* A pod may die between any two statements; a sweep settles what is left.
- *Redelivery and reordering.* Webhook batches repeat, overlap, come late, and
  come after the group they belong to was purged.
- *Clocks.* Release time, job deadline, cancel window and sweep age must not overlap.

### What makes each part correct

- Lifecycle: nobody gets two copies; a delivered newsletter is never a draft
  again; what the row shows is what was mailed; a sent newsletter is final;
  every claim is settled.
- Engagement: counters match events; a reverted group leaves nothing; what was
  acknowledged is stored; only a purge forgets.
- Fan-out: every recipient is counted once; a draft comes back only when nobody
  was sent to; the job ends whatever the provider does; a drain leaves no job.
- Timing: a job cannot be overtaken by its own release or by the sweep; a
  cancellation precedes the release.
- Resolution: the whole audience or none of it, nobody who opted out, nobody
  twice.
- Letters: a body derived from a layout is that layout's; every reader can opt
  out, with a link of their own; no placeholder is left for a reader to see.
- Renderer: nothing an author wrote is lost, repeated or moved by the flattening
  MJML asks for, and every card keeps its look.
- Reports: a figure is of the mailing it is shown for and of one of its two
  sources, whatever was read when, and a list that calls itself complete is.
- Listings: a walk through the pages misses no newsletter and shows none twice;
  shares and views belong to newsletters that were sent.
- API: a request acts at most once, on what its caller was shown, and its answer
  is true.

## 2. The modules

| Module | Models | Kind |
|---|---|---|
| `SendLifecycle` | the row with send, schedule, cancel, edit, delete and sweep | detailed specification |
| `NewsletterPromise` | what a newsletter promises author and readers | abstract specification |
| `NewsletterRow` | the row as requests, jobs and sweeps rely on it | abstract specification |
| `SendLifecycleProofs` | inductive invariant, safety, liveness of the sweep, refinements, the meetings with `SendJob` and `EngagementStore` | proofs |
| `SendJob` | one send in its pod: job, workers, provider client, deadline, shutdown | detailed specification |
| `FanOutPromise` | the fan-out, as `SendJob` provides it and `SendLifecycle` takes it | abstract specification |
| `SendJobProofs` | inductive invariant, safety theorems, refinement, progress | proofs |
| `EngagementStore` | engagement tables, advisory lock, webhook batches, purge | detailed specification |
| `EngagementPromise` | what the store promises those who read reports | abstract specification |
| `EngagementProofs` | inductive invariant, safety theorems, refinement | proofs |
| `ScheduleTiming` | one send on one clock: windows, deadlines, ages, release | detailed specification |
| `Audience` | committee lookups, opt-outs and their merge | detailed specification |
| `Letters` | bodies, layouts, chrome and what each recipient gets | detailed specification |
| `Analytics` | the report, the recipient listing and the totals of a page | detailed specification |
| `Listing` | paging under writes; shares, views and opens | detailed specification |
| `Api` | requests with ETags on one newsletter, with retries and lost replies | detailed specification |
| `ScheduleTimingProofs`, `MailingProofs` (`Audience`, `Letters`), `AnalyticsProofs`, `ListingProofs`, `ApiProofs` | inductive invariants and safety theorems | proofs |
| `Renderer` | from a layout to sections, columns and cards | algorithm, one action |
| `MCSendLifecycle`, `MCEngagementStore`, `MCComponents` | instances and symmetry sets | TLC |

An operator whose name ends in `Fault` is not part of the system. It is the
operator it is named after with one plausible mistake; replacing the one by the
other must make a property fail, which `PROJECT.json` records under "mutants".

### SendLifecycle

One row. `status`, `version`, `group`, `batch` and `content` are its columns;
`timed` is `scheduled_at IS NOT NULL`; `content` stands for subject, body and
recipients, named by the edit that wrote them. A send request is its own
`group_id` and `batch_id`, both fresh UUIDs in the code.

A request is split exactly where another may come in between: after each read,
each provider call and each committed statement.

| Action | Code |
|---|---|
| `ReadDraft` | `SendNewsletter` up to the claim: the read, its checks, audience, rendering |
| `Claim` | `MarkSending`, one UPDATE with its WHERE clause and, for unarmed rows, the trigger |
| `Dispatch` | one worker of `fanOut`: accepted, rejected, or no answer (`ErrAmbiguousSend`) |
| `AcceptUnanswered` | the provider delivering what it never answered |
| `MarkScheduled`, `MarkSent`, `RevertSending`, `Cleanup` | `runSendJob` settling |
| `GiveUp`, `GiveUpCancel` | an error return, a missed UPDATE or a crash at that point |
| `ReadArmed`, `CancelBatch`, `RevertScheduled`, `PurgeCancelled` | `CancelScheduled` |
| `FetchForEdit`, `ReadForEdit`, `CheckUnarmed`, `CommitEdit` | GET, then `UpdateDraft` and `Update` |
| `DeleteDraft`, `RecoverStuckSending`, `SettleDueScheduled` | one statement each |

Deliberate over-approximations, each of which only adds behaviours: the sweep
may run at any moment (no clock); a job may be abandoned at any point; a cancel
skips its optional If-Match check; the audience is any subset of the members.
`CanSchedule` says that some pod, at some time, runs a provider that can
schedule. A pod that does not, because `EMAIL_PROVIDER` was switched or is being
rolled out, refuses to schedule (`ReadDraft` is not taken), answers a cancel with
503 unless it has SendGrid credentials (`GiveUpCancel`), and skips the purge; the
sweep asks no provider. So a switch between an arm and its cancel is among the
behaviours.

### EngagementStore

A writer is a goroutine: the dispatcher recording one message, a webhook
request working through a batch, or a purge. `todo` is what it still has to
write. A write is a transaction of three steps: `Lock` (the advisory lock of
the group, taken by `ApplyOpen`, `ApplyClick` and `RevertGroup` themselves and
by the insert trigger for the others), `Read` (the tombstone check, or the rows
a purge selects) and a commit. `Fail` rolls back and makes the reply a 500;
`Crash` rolls back and never replies. `Deliver` may hand the webhook any batch
at any time, so redelivery, duplication and reordering need no machinery of
their own.

`EngagementPromise` is the store without transactions, locks, redelivery or
crashes: messages become listed, a first delivery or failure is noted, an event
is counted together with its figures, a group is taken back for good, and a
batch is acknowledged when everything in it is kept. `ImplementsEngagement` maps
it to the committed tables; a step of the promise is a commit or an answer, and
every other step of a writer stutters.

### SendJob

The goroutines behind one accepted send: the request that starts the job
(`StartJob`), the loop of `fanOut` (`StartWorker`, `Skip`, `EndLoop`,
`WaitReturns`), one worker per recipient that got a slot (`Answer`, `Count`,
`ReleaseSlot`, `WorkerDone`), the end of `runSendJob` (`Settle`, `SettleFails`),
and the main goroutine shutting the pod down (`Stop`, `ServerStops`,
`ServerOverruns`, `DrainReturns`, `DrainTimesOut`, `Exit`). `sem`, `wg` and
`jobs` are the channel and the two WaitGroups; the three counters change under
the mutex, so `Count` is one step. `Take` is the provider, which may take a
message while the call is open or after the client gave up. `Answers` are the
answers a client tells apart; `garbled` exists only over NATS and is the one
`SendEmail` calls a definitive failure without knowing. Once the deadline has
passed the loop's `select` may still pick the free slot, as Go's does.
`SettleFails` covers a database that is closed already.

`FanOutPromise` is what `SendLifecycle` assumes in `Dispatch` and in the guards
of its terminal UPDATEs: a verdict per recipient, then a decision on all of
them. `ImplementsFanOut` shows that the pool provides it, and
`JobsKeepFanOutPromise`, proved, that every send of `SendLifecycle` is such a
fan-out, so the two modules fit together although each is checked by itself.

### ScheduleTiming

`SendLifecycle` has no clock: there the sweep, a release or a cancel may come at
any moment. This module has one, a natural number, and asks which of those
moments the configured durations keep apart. `Configs` is every configuration
that `AppConfigFromEnv` and `NewSendOrchestrator` make of the raw settings,
defaults and floors included. `CheckWindow` is `validateScheduleWindow`, on a pod
whose clock may be `Skew` off; then come `MintBatch`, `ClaimRow` (`MarkSending`,
which stamps `updated_at`), `StartDetachedJob` (the deadline starts here),
`ArmMessage`, `EndFanOut` and `SettleLetter`; beside them `KillPod`, the sweep
(`RecoverStuck`, `SettleDue`), a cancel (`ReadForCancel`, `CancelAtProvider`,
`RevertCancelled`) and the provider's `ReleaseBatch`. `Tick` waits for whatever
the code bounds by a timeout (`Bounded`). What it leaves unbounded takes any
time: the claiming UPDATE, which rides the request's context, a goroutine that is
slow to start, the cancel call of a slow pod. The properties say how much of
that the margins pay for.

### Audience

`resolveRecipients`: `StartResolving` starts a goroutine per committee,
`AnswerLookup` and `FailLookup` are its ends, `WaitForLookups` is `g.Wait` and
`ReadOptOuts` the query of the project's opt-outs with the merging loop (`Merge`:
normalise, drop what is no address, keep the first listing, drop who opted out).
Between any two of them `Unsubscribe` (the public link) and `DeleteOptOut` may
run. An address is a mailbox and a spelling of it. Two history variables name
what the properties compare with: `steadfast`, the opt-outs in force all the
time, and `withheld`, those the query returned.

### Letters

A document is a set of rows, each a place in the email and a token: a text, a
link, a sentinel (`%%UNSUBSCRIBE_URL%%` and the like) to be replaced later, or one
recipient's opt-out link. Pods differ in the templates they embed and in what is
configured, and `Roll` replaces them one by one, so the pod that saves, the one
that saves again and the one that sends need not agree. `CreateDraft` and
`UpdateDraft` with its four branches (`SetLayout`, `ClearLayout`, `KeepLayout`,
`SetBody`) are the tri-state of `body_layout`; `SendNewsletter` renders a layout
again and hands one letter per recipient to the provider; `TestSend` and
`RenderPreview` keep nothing. Every refusal has its status code, in the order of
the code.

### Renderer

The twelve embedded block templates and the default wrapper are trees of
elements; `BindNode`, `BindBlocks` and `BindWrapper` fill them in (`bind.go`),
`PruneHiddenNodes` and `CollectCardShadows` prepare them, `WriteBlock`,
`WriteSection`, `SplitBreakouts`, `CardWithBreakout`, `BreakoutTable`,
`WriteChildren` and `WriteInline` write them as MJML (`mjml.go`), and
`ReconcileCardBorders` puts the shadows back (`postprocess.go`). Each text is known
by the place it was bound to, so that a text that is lost, doubled or moved shows.
Rendering reads nothing but its arguments, so there is one action,
`RenderEdition`; a compiler that rejects its input or exceeds its time is a choice
of 422. Left out: attributes, styles other than a card's radius, background and
shadow, `applyClassStyles`, alignment, escaping, URL checks, the parsing of
templates, the arithmetic of spacing (space is asked for or not), and more than
one list of items per block.

### Analytics

Every query of the report (`StartReport`, `ReadLocalTotals`, `ReadLocalDaily`,
`ReadScalar`, `ReadDetail` with its eight queries), of the recipient listing
(`StartListing`, `ReadRecords`, `ReadOpens`, `ReadClicks`) and of the totals of a
page (`StartPage`, `OpenCounts`, `WithProviderOpens`) is a step, and each may
fail. A failed provider read leaves the local figures; a failed local read of a
report refuses it (`FailLocal`), and of a page leaves out every total and answers
the page all the same (`FailOpenCounts`). In between, deliveries, bounces, opens, clicks and pixels arrive
and sends finish. Both readers are there: SendGrid's own tables, and
email-service's replies, which may be empty, lack records or carry the older
shape. A group id asked of the wrong provider finds nothing. `begun` and `heard`
are history: what was known when the request began, and which reads answered.

### Listing

Newsletters with the columns paging needs, written in between by the steps of the
lifecycle (`CreateRow`, `EditDraft`, `ChangeStatus`, `DeleteDraft`), whose
timestamps are those of transactions and may therefore come in any order.
`StartWalk` and `NextPage` are a client following page tokens through either
listing; a cursor is the key it encodes. A mark is checked (`CheckMark`,
`CheckOpen`) and inserted later (`InsertMark`); `DeleteUserShares` and
`DeleteUserPageViews` erase a reader's. `seen` and `eligible` are history.

### Api

One newsletter and the requests of its callers. `Ask` sends one with an ETag its
caller was shown (or none, or the wildcard "0"), `AskAgain` sends a request
again, whether or not the first is still under way. A request is then `ReadRow`,
for some a second look (`Check`), and one guarded statement: `Commit`, or `Miss`
and the read that explains it (`Explain`); `Decline` is every refusal in between
(a send may thus be answered `not_found` for a committee that is not found),
and `SettleEmpty` the `MarkSent` of a send without recipients. A reply may be lost
after the commit. `OthersWrite` is any statement of other requests, jobs and the
sweep; that it is no more and no less than what `SendLifecycle` does to the row is
proved by way of `NewsletterRow` (section 4). `intent`, `basis`, `held` and `did` are history: who asked for the same
thing, what the caller had seen, and what the request acted on.

### MCComponents

These seven meet each other only through the row. `part` says which of them
runs; the others stand still at one of their initial states, so that the run
explores the sum of their state spaces, not the product.

## 3. The runs

| Run | Instance | What it shows |
|---|---|---|
| `scheduling` | 2 sends, 2 cancels, 1 edit, 1 recipient, SendGrid | all invariants, with the two promises weakened by the one cause `stale_revert` shows |
| `immediate` | 3 sends, 1 edit, 2 recipients, no scheduling | the promises in full; refinement of `NewsletterPromise` |
| `settling` | 2 sends, 1 cancel, fair sweep | every claim is settled |
| `engagement` | 2 writers, 2 groups of one message, 3 overlapping batches | rollups, tombstones, acknowledgement; refinement of `EngagementPromise` |
| `send_job` | 3 recipients, 2 slots, NATS | counters, safe reverts, drain; the job ends; refinement of `FanOutPromise` |
| `components` | each of the seven on an instance of its own | the windows; whole audiences without opt-outs; letters; reports; listings; requests; rendering |
| `stale_revert`, `cancel_doc` | 2 sends, 1 cancel | violated: see findings |
| `drain_doc`, `ambiguous_doc` | 2 recipients, 1 slot | violated: see findings |
| `zero_timeout` | the clock, with `SEND_JOB_TIMEOUT` zero | violated: see findings |
| `shadows` | the renderer | violated: see findings |

*Bounds.* In the first five runs nothing is bounded in the actions; the constants
bound them. Two
sends are needed for any interference between a claim and a later one, and two
cancels for a delayed duplicate of a cancel; with three sends a third request
meets the leftovers of two. The version grows by one per UPDATE, and the
number of requests bounds it. One recipient suffices for scheduling because
`AllRejected`, the only question a job asks of its recipients, then takes both
values; `immediate` has two so that outcomes can differ. In `engagement` two
writers exhaust the ways one transaction can fall between two steps of another;
the batches repeat an open, report one out of order, give two different
delivery times and bounce a delivered message; the second group is there so that
a lock of the wrong scope would show. In `send_job` three recipients make the
loop wait for one of two slots, with a finished worker, a running one and one
not started at the same time; the NATS client gives every answer the SendGrid
client gives, and one more. The proofs then remove the bounds for safety.

In `components` the durations are small numbers (margin 2, slack 3, every timeout 1, buffer 3, six ticks, clocks 1 apart):
each margin can be used up and overrun. Two committees with three
mailboxes, one of them malformed, listed in two spellings, and two resolutions,
so that an opt-out can fall before, within and after one. Two template keys, two
block types, two pods in three deployments that differ in every setting that
matters. One mailing of two people with two events: enough for an event to fall
between any two reads, in either store. Three newsletters in pages of one, with
two writes between the pages and two equal timestamps. Two requests, with others
writing up to version 3 (version 4 was run as well and holds). Editions of up to two blocks out of some twenty filled-in ones, in
which every template, splits, tables, nested containers and spacing occur, and
layouts past the limits. The `MaxWrites`, `MaxEvents`, `MaxRounds`, `MaxCalls`,
`MaxVersion` and `LastMoment` of these modules are the only bounds within
actions, and the proofs leave them arbitrary.

*Symmetry.* Requests of one kind, recipients and writers are
interchangeable: no definition names one. No symmetry is used for liveness.

*Deadlock.* Checked for `engagement`. A lifecycle ends when its finitely many
requests have ended, a job when it has settled, a rendering when it is done and
the bounded components when their bounds are used up, so those runs do not check
it; that a job never gets stuck is `JobEnds`.

*Fairness.* `SweptSpec` assumes weak fairness of the two statements
of the sweep. `startStuckSendRecovery` runs them at start-up and every five
minutes on every replica, and a restarted replica starts again. The fairness of
the second statement takes for granted that the first returns without an error,
which would end the pass: `EveryClaimSettles` says nothing of a database that
refuses the first every time. That no row makes it do so, because every row it
can match satisfies the constraints once settled, is what `ClaimColumns` says.
`SweptSpec` assumes nothing of requests, jobs, provider calls or webhooks, which
a crash may end.
`SendJob`'s `FairSpec`, which asks whether a job ends while its pod lives,
assumes that goroutines are scheduled, that a provider call ends (SendGrid's
HTTP client and the NATS client each have a timeout) and that the last UPDATE
ends (`persistTimeout`). It assumes nothing of the provider, the deadline or the
shutdown.

## 4. The proofs

`SendLifecycleProofs` proves, for any number of requests and recipients, each
safety property of the `scheduling` and `immediate` runs. The promises in full
and the refinement of `NewsletterPromise` (`UncancelledImplementsPromise`) are
proved for every instance in which nobody cancels, whether the provider can
schedule or not: then no job is ever stale and a batch is dropped only by the job
that has reverted its own claim (`Calm`, proved on top of `Inv`).
`Inv` strengthens them by what they rest on: the columns follow the claim
(`Columns`); whoever holds the row's current version knows its state
(`Locking`); the job's account of its recipients covers what the provider took
(`Ledger`); a cancel asks the provider before it touches the row
(`Cancelling`); only dead groups are purged (`Purging`); and so a send whose mail
may exist keeps the row (`Holding`) until its batch is cancelled or another job's
revert takes it away, which needs scheduling (`Unscheduled`). No part is
inductive alone: `Holding` needs `Locking` for the terminal UPDATEs and
`Cancelling` for `RevertScheduled`. There is one lemma per action, with one step
per part.

`NewsletterRow` joins two modules that are checked apart. It lists what a
statement may make of the row, whoever issues it. `LifecycleKeepsRow` shows that
the lifecycle makes nothing else of it, whatever a request, job or cancel had
read when it issued its statement; `ApiKeepsRow` shows the same of the requests
`Api` follows. `OthersDoWhatRowsDo` closes the circle: up to the names of contents
and batches, what `Api` lets others do is exactly what `NewsletterRow` allows. So
the answers `Api` gives are true among the sends, cancels, edits and sweeps of
`SendLifecycle`, and not only among those `Api` made up.

`JobsKeepFanOutPromise` is the other half of `SendJob`'s `ImplementsFanOut`.
Since others may move a job's row on, the history variable `outcome` notes what
the job's own terminal UPDATE left in it. For each send and the audience its
request resolved, verdicts and outcome then go through the steps of
`FanOutPromise` (`JobKeepsFanOut`), whatever all the others do in between
(`OthersLeaveFanOut`). `FanOutGuards` says that the promise's guards and those
of `Dispatch` and the terminal UPDATEs are the same, so `SendLifecycle` leaves
out nothing that a pool which keeps its promise could do.

`ReportsOnlyGrow` joins the lifecycle to `EngagementPromise` at the purge. The
history variable `asked` holds the groups `PurgeEngagement` was called for, from
the moment the caller's revert had committed; the purge itself may commit much
later, when its caller has given up, or never. If the store takes back only such
groups, no message of the send the row carries, or of any send whose mail
arrives, is ever withdrawn, and its figures only grow: what `Analytics` takes
for granted of the stores holds for every mailing that reached somebody, although
stores are purged. It rests on `AskedIsDead`: once asked
for, a group has lost the row for good, and its batch is cancelled or everybody
was rejected.

`EveryClaimSettlesWhenSwept` is a proof of liveness. `ENABLED` is out of the
prover's reach, so `SweepGoesOn` states the fairness of `SweptSpec` with the two
WHERE clauses in its place: again and again there is no row to recover, or a row
is recovered; and the same for due rows. A statement of the sweep is enabled
exactly when its WHERE clause holds, as it always changes status and version.
The argument: `sending` ends in `scheduled` or is over, nothing takes `scheduled`
back to `sending` (`ScheduledIsNotSending`), and a scheduled row has a time
(`Columns`), so it is due at some time.

`EngagementProofs` proves all five properties of the `engagement` run, the
refinement of `EngagementPromise` included, and that only a purge makes a row
forget (`OnlyRevertForgets`). Its `Inv`
says that a transaction under way holds its group's lock (`Locked`), so what it
has read is still so (`Snapshot`), and that a batch without an error so far has
stored every event before the current one (`Progress`). For the refinement the
first of these makes a transaction take effect as one step, at its commit (one
lemma per kind of commit), and the last makes an answer 204 an `Acknowledge`. It assumes what SendGrid
documents, that an `sg_event_id` names one event (`IdAssumption`).

`SendJobProofs` proves the safety of the `send_job` run and its refinement for
any audience and concurrency. Its `Inv` says that the semaphore, the WaitGroup
and the three counters are the cardinalities of the sets they stand for
(`Figures`); with where the loop and the workers are (`Stages`) that makes
`wg.Wait` mean that every worker is done and counters of zero mean that everybody
was rejected. `Truth` relates what the provider took to what its client was
told, `Decision` and `Draining` say when the row and the WaitGroup of the jobs may
change. For SendGrid, which has no `garbled` answer, `SendGridRevertIsSafe` follows.

`JobGetsOn` is about `JobEnds`. What a running job has left to do is a finite set
(`Left`: one member for each step that the worker of a recipient or the job itself
still has before it). Every step shortens it
or leaves it (`StepShortensOrRests`), somebody can always go on, so the job is
never deadlocked (`SomebodyCanGoOn`), and whoever can go on under `JobGoesOn`,
the fairness of `FairSpec` with `ENABLED` written out, shortens it (`LoopMovesOn`,
`WorkerMovesOn`). So `Left` becomes strictly less some time later, or the job has
ended or its pod is gone. That this can happen only finitely often is the one
step that remains: an induction over the size of `Left`, which the prover cannot
do under a temporal operator. TLC checks `JobEnds` as a whole.

Proved and checked by no run are `InFlightBounded` (no more messages are in
flight than the concurrency allows), `CountsFinal` (the counters stand still once
`fanOut` has returned), `OnlyRevertForgets` and, in both modules, `KeepsRow`.

`ScheduleTimingProofs` proves the three timing properties for every setting of
the environment, every clock and every scale of the durations. Its `Inv` relates
the stamps to each other: which have been taken where (`Course`), that the window
was open when it was checked (`Window`), that a running job is within its
deadline and a settling one within its last write (`Deadlines`), and that a
cancel was read before the buffer (`Cancelling`). `ConfigFloors` derives what the
arguments need of `Configs`: the lead covers the job and the margin, the TTL the
raw timeout and the slack, the buffer its minimum.

`MailingProofs` is about `Audience` and `Letters`. It shows that a finished audience is `Merge` of every committee's
answer and of the opt-outs as they were read, and then argues about `Merge`: the
first place a mailbox is listed at exists because places are well ordered. About
letters it goes row by row: what `Replace` binds, it binds everywhere, what a
wrapper or the chrome shows has been bound by the time a letter is handed over,
and a body without a layout is one an author typed.

`AnalyticsProofs` proves both properties of `Analytics` for any newsletters,
recipients, hours and caps; it needs every audience to be finite, as the number
of its recipients is a column (and that no newsletter is called what `heard` calls
a read). What a request reads, it reads at several moments,
so `AnalyticsInv` says of each step of it what is known by then: a figure read
lies between the one of the stores as the request began and that of the stores as
they are (`ReportUnderWay`, `ListingUnderWay`, `PageUnderWay`). Stores forget
nothing (`WorldGrows`), and every query (a count, a count of distinct recipients,
a daily series, the last of a set) grows with its set, so the interval of a
figure read earlier only widens while others are read. The rest is that the maximum of two
figures lies in the union of their intervals (`OverlayKeeps`, `DetailedReport`),
and that the `MaxOpensPerRecipient` most recent opens have overtaken what they
leave out, then and ever after (`OvertakenByTheRecent`).

`ListingProofs` proves paging for any finite set of newsletters and any page
size. The keys are strictly and totally ordered (an id breaks every tie), so a
walk has shown exactly those untouched newsletters that lie above its cursor
(`Walked`), and the last page leaves none below. `Marked` says that only a sent
newsletter is ever marked, and `sent` is final.

`ApiProofs` rests on one idea: whatever a request knows of the row is tied to a
version or a batch the row has at most once. A version only grows, a content is
named by the version that wrote it, and a request that has acted has moved the
row past every ETag that led to it, so a request sent again finds its ETag stale.

The assumptions on constants are named in the modules and evaluated by TLC in
every run. Only model-checked are the last induction of `JobEnds` and, in both
liveness results, that ENABLED is the guard it is replaced by; `Renderer`'s
`LayoutIsKept`, whose recursive operators are beyond the prover; and `TypesOK` of
`MCComponents`, which contains `Renderer`'s: the type invariants of the other six
components in it are proved one by one.

## 5. Findings

- `stale_revert`: `RevertSending` is gated on the status alone. A job whose
  claim was cancelled while it ran, and whose recipients were all rejected,
  reverts the *next* claim of the newsletter; delivered mail then belongs to a
  draft. `OnlyStaleRevertStrands` and `OnlyStaleRevertDuplicates`, proved, say
  that this is the only way.
- `cancel_doc`: a cancellation that SendGrid carried out but that was reported
  as an error leaves a `scheduled` row whose batch will never be released.
  `DroppedByACancel`, proved, says that only such a cancel, or one still under
  way, does that; `JobsDropOnlyWhatTheyReverted` that a job never does.
- `drain_doc`: a comment calls the drain race-free because the server is stopped
  first; when a request outlives the 25 s of `srv.Shutdown`, the drain runs all
  the same and the request's job starts after it. `DrainIsRaceFree`, proved, is
  what remains true.
- `ambiguous_doc`: the port says that an error not marked `ErrAmbiguousSend` is a
  definitive rejection; the NATS client returns closed connections and
  unparseable replies unmarked. `RevertIsSafe`, proved, says that these answers
  are the only way to a draft whose mail was taken.
- `zero_timeout`: start-up keeps the sweep's TTL above `SEND_JOB_TIMEOUT` as it
  was set, while the orchestrator reads zero or less as its default of 30 minutes.
  With such a setting and a small `STUCK_SEND_TTL` the sweep settles rows whose job
  is still mailing, which `config.go` rules out. `SweepSparesLiveJobs`, proved, says
  that a positive setting is enough.
- `shadows`: `collectCardShadows` counts one shadow per authored card, but a card
  whose breakout holds buttons (`hot_take` with a poll of two options,
  `share_the_signal` with a title) is split into two rounded sections, so its
  second half takes the shadow of the next card and every later card that of its
  successor. The test for this case (`render_test.go:1033`) renders `hot_take`
  without a poll, which does not split. `LayoutIsKept`, checked, says that nothing
  else of a card is lost.

Smaller remarks, met while modelling and not worth a run:

- `ports.go:159-161` still describes `RecoverStuckSending` as keyed on
  `scheduled_at`; the code is keyed on `batch_id`, for the reason its own comment gives.
- The settings may ask for a horizon below the minimum lead; then nothing can be
  scheduled at all.
- The committee client's comment promises an empty slice for an empty reply; the
  code returns NotFound. A send is then answered 404 `not_found`, which
  `docs/newsletter-service-contract.md:262` explains as a missing record, although
  the newsletter is there (`send_orchestrator.go:423-426`, `http.go:283-284`).
- A report's daily opens may add up to more than its total when an open arrives
  between the two reads.
- `analytics.go:76-78` speaks of provider-derived fields as zeroed; when the
  engagement read fails, `Delivered` remains the number of recipients
  (`postgres.go:759-771`).
- `OpenPixel` skips its project check when the first read fails and a later one
  does not (`open.go:36-38`).
- `If-Match: "0"` switches the version check of send and cancel off
  (`send_orchestrator.go:393`, `:926`).
- A PUT that races a schedule gets 400 from `postgres.go:231` where
  `docs/newsletter-service-contract.md:163` announces 409.
- A send without recipients that another actor settles may answer 409 or 412
  although it claimed the row; `AnswersAreTrue` says so.
- A list with a `<Text>` inside is dissolved and loses its list markup.

## 6. What is taken as given, and what is not modelled

- `SendLifecycle` takes a definitive rejection to mean that the provider did not
  take the message, which `SendJob` shows to hold but for `garbled` answers.
- SendGrid drops messages of a cancelled batch, also those posted later.
- `SEND_FANOUT_ENABLED=false`, a development switch, is left out.
- `SendLifecycle`, `EngagementStore` and the seven components of `MCComponents`
  are checked apart. Where one takes something of another for granted it is a
  stated assumption of it: any subset as the audience, any moment for the sweep,
  rollups equal to their events. What `Api` takes for granted of the statements of
  others is proved of `SendLifecycle`, and so is what `SendJob` promises of a
  fan-out. `Analytics` lets stores only grow, which by `OnlyRevertForgets` and
  `ReportsOnlyGrow` they do for every send whose mail arrives.
- `Letters` takes a rendered block to be one row; that rendering keeps what a
  block says is `Renderer`'s `LayoutIsKept`. No template is called "none".
- `Listing` takes the ids in use to be finite and every id to be unique.
- A request names a newsletter by its own project. By another's it is answered
  `not_found` right after the read, and nothing changes.
- `Api` leaves out the development mode without users (`RequireUserAuth=false`),
  CORS, health checks, and a second create, which makes another newsletter.
- Tokens and cursors stand for what they encode; one that does not verify or
  decode is refused before anything changes.
- The MJML compiler is an external program: it keeps its input's structure, drops
  shadows, or fails.
- A miss in `postgres.go` is classified on the connection of its own transaction,
  so no request waits for a second one and the pool cannot block itself.
- Signature checks, decoding, NATS encoding, logging, tracing and the Helm chart
  change no state the properties mention.
- Applying `schema.sql` at start-up, and the trigger that keeps pods older than
  `body_layout` from editing a draft that has one, are not modelled; the CHECK
  constraints and the trigger for armed rows are, in `SendLifecycle`.

## 7. Plan

Done: every component of section 1 that keeps state or decides something, as
listed under "components" in `PROJECT.json`, with proofs for all of them but
`Renderer`.

Open, in this order:

1. The layout trigger, with pods older than the column.
2. Cards inside containers in `Renderer`: a nested card loses its section and
   would shift the shadows the other way; nested rows stack.
