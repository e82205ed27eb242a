--------------------------- MODULE ScheduleTiming ---------------------------
(***************************************************************************)
(* The clock behind one send: the arm window, the job's deadline, the age  *)
(* at which the sweep takes over, the cancel window and the provider's     *)
(* release.  SendLifecycle lets all of these happen at any moment; this    *)
(* module asks which of them the configured durations keep apart.          *)
(*                                                                         *)
(* Time is a natural number.  Calls the code bounds by a timeout cannot    *)
(* last longer: Tick waits for them.  What the code leaves unbounded (the  *)
(* claiming UPDATE, which rides the request context, a goroutine that is   *)
(* slow to start, the way from a check to a call) takes any time, and the  *)
(* properties say how much of it the margins absorb.                       *)
(***************************************************************************)
EXTENDS Integers

CONSTANTS
    \* durations fixed in the code
    Margin,             \* minScheduleMinLeadSafetyMargin, 5 minutes
    Slack,              \* minStuckSendSlack, 5 minutes
    PersistTimeout,     \* of the job's terminal write, 30 seconds
    ProviderTimeout,    \* of the SendGrid client, 30 seconds
    RevertTimeout,      \* of the cancel's own write, 10 seconds
    DefaultJobTimeout,  \* 30 minutes
    MinCancelBuffer,    \* and default, 10 minutes
    HorizonCap,         \* SendGrid's send_at limit, 72 hours
    \* what the environment may set; zero or less asks for a default
    RawJobTimeouts, RawStuckTTLs, RawLeads, RawBuffers, RawHorizons,
    \* the world
    Skew,               \* how far two clocks may be apart
    LastMoment          \* bound on the time explored

Durations == {Margin, Slack, PersistTimeout, ProviderTimeout, RevertTimeout,
              DefaultJobTimeout, MinCancelBuffer, HorizonCap}

ASSUME DurationsAssumption == Durations \subseteq Nat
ASSUME RawAssumption ==
    /\ RawJobTimeouts \subseteq Int
    /\ RawStuckTTLs \subseteq Int
    /\ RawLeads \subseteq Int
    /\ RawBuffers \subseteq Int
    /\ RawHorizons \subseteq Int
ASSUME WorldAssumption == Skew \in Nat /\ LastMoment \in Nat

VARIABLES
    config,       \* what start-up made of the environment
    now,
    request,      \* the send or schedule request
    due,          \* scheduled_at of the request, Immediately if it has none
    checkedAt,    \* when the arm window was checked
    claimedAt,    \* updated_at as MarkSending left it
    job, startedAt, settlingAt,
    armedAt,      \* when the provider last took a message, Never
    letter,       \* the row's status
    overtaken,    \* the sweep settled a row whose job was alive
    batch,        \* at the provider: held, cancelled, released
    cancel, cancelReadAt, answeredAt, revertDeadline

requestVars == <<request, due, checkedAt, claimedAt>>
jobVars     == <<job, startedAt, settlingAt, armedAt>>
cancelVars  == <<cancel, cancelReadAt, answeredAt, revertDeadline>>
timingVars  == <<config, now, requestVars, jobVars, letter, overtaken, batch,
                 cancelVars>>

Never == -1
Immediately == 0

Letters == {"draft", "sending", "scheduled", "sent"}
Moments == 0..LastMoment

----------------------------------------------------------------------------
(* Start-up.                                                               *)

AtLeast(value, floor) == IF value < floor THEN floor ELSE value

Or(value, default) == IF value <= 0 THEN default ELSE value

EffectiveJobTimeout(raw) == Or(raw, DefaultJobTimeout)

(* AppConfigFromEnv compares the TTL with SEND_JOB_TIMEOUT as it was set.  *)
EffectiveStuckTTLFault(rawTTL, rawJob) == AtLeast(rawTTL, rawJob)

EffectiveStuckTTL(rawTTL, rawJob) == AtLeast(rawTTL, rawJob + Slack)

(* NewSendOrchestrator raises the lead above the job's own timeout.        *)
EffectiveLead(raw, jobTimeout) ==
    LET least == jobTimeout + Margin IN
        IF raw <= 0 THEN least ELSE AtLeast(raw, least)

EffectiveBuffer(raw) == AtLeast(Or(raw, MinCancelBuffer), MinCancelBuffer)

(* Every configuration the binary starts with.                             *)
Configs ==
    {[rawJob |-> r.job, job |-> EffectiveJobTimeout(r.job),
      ttl |-> EffectiveStuckTTL(r.ttl, r.job),
      lead |-> EffectiveLead(r.lead, EffectiveJobTimeout(r.job)),
      buffer |-> EffectiveBuffer(r.buffer),
      horizon |-> Or(r.horizon, HorizonCap)] :
        r \in {s \in [job : RawJobTimeouts, ttl : RawStuckTTLs, lead : RawLeads,
                      buffer : RawBuffers, horizon : RawHorizons] :
                  s.horizon <= HorizonCap}}

STInit ==
    /\ config \in Configs
    /\ now = 0
    /\ request = "open"
    /\ due = Immediately
    /\ checkedAt = Never
    /\ claimedAt = Never
    /\ job = "none"
    /\ startedAt = Never
    /\ settlingAt = Never
    /\ armedAt = Never
    /\ letter = "draft"
    /\ overtaken = FALSE
    /\ batch = "none"
    /\ cancel = "none"
    /\ cancelReadAt = Never
    /\ answeredAt = Never
    /\ revertDeadline = Never

STTypeOK ==
    /\ config \in [rawJob : Int, job : Int, ttl : Int, lead : Int,
                   buffer : Int, horizon : Int]
    /\ now \in Moments
    /\ request \in {"open", "minting", "minted", "claimed", "accepted", "failed"}
    /\ due \in Nat
    /\ {checkedAt, claimedAt, startedAt, settlingAt, armedAt, cancelReadAt,
        answeredAt} \subseteq (Moments \cup {Never})
    /\ job \in {"none", "running", "settling", "ended", "killed"}
    /\ letter \in Letters
    /\ overtaken \in BOOLEAN
    /\ batch \in {"none", "held", "cancelled", "released"}
    /\ cancel \in {"none", "read", "accepted", "reverted", "failed"}
    /\ revertDeadline \in Nat \cup {Never}

----------------------------------------------------------------------------
(* The request and its job.                                                *)

(* validateScheduleWindow on a pod whose clock shows c; the minting of the *)
(* batch id follows.                                                       *)
WindowOpenFault(at, c) == at > c /\ at <= c + config.horizon

WindowOpen(at, c) == at >= c + config.lead /\ at <= c + config.horizon

CheckWindow(at, c) ==
    /\ request = "open"
    /\ at > 0
    /\ WindowOpen(at, c)
    /\ request' = "minting"
    /\ due' = at
    /\ checkedAt' = now
    /\ UNCHANGED <<config, now, claimedAt, jobVars, letter, overtaken, batch, cancelVars>>

MintBatch ==
    /\ request = "minting"
    /\ \/ request' = "minted" /\ batch' = "held"
       \/ request' = "failed" /\ UNCHANGED batch
    /\ UNCHANGED <<config, now, due, checkedAt, claimedAt, jobVars, letter,
                   overtaken, cancelVars>>

(* MarkSending stamps updated_at.  The pod may die, or the client be gone, *)
(* before the answer is back: the row is claimed and there is no job.      *)
ClaimRow ==
    /\ request = "minted" \/ (request = "open" /\ due = Immediately)
    /\ letter = "draft"
    /\ letter' = "sending"
    /\ claimedAt' = now
    /\ request' \in {"claimed", "failed"}
    /\ UNCHANGED <<config, now, due, checkedAt, jobVars, overtaken, batch, cancelVars>>

(* The job's deadline counts from here.                                    *)
StartDetachedJob ==
    /\ request = "claimed"
    /\ request' = "accepted"
    /\ job' = "running"
    /\ startedAt' = now
    /\ UNCHANGED <<config, now, due, checkedAt, claimedAt, settlingAt, armedAt,
                   letter, overtaken, batch, cancelVars>>

(* The provider takes a message of the fan-out.                            *)
ArmMessage ==
    /\ job = "running"
    /\ armedAt' = now
    /\ UNCHANGED <<config, now, requestVars, job, startedAt, settlingAt, letter,
                   overtaken, batch, cancelVars>>

EndFanOut ==
    /\ job = "running"
    /\ job' = "settling"
    /\ settlingAt' = now
    /\ UNCHANGED <<config, now, requestVars, startedAt, armedAt, letter, overtaken,
                   batch, cancelVars>>

(* MarkScheduled, MarkSent or RevertSending; or its failure.               *)
SettleLetter ==
    /\ job = "settling"
    /\ job' = "ended"
    /\ settlingAt' = Never
    /\ \/ UNCHANGED letter
       \/ /\ letter = "sending"
          /\ letter' = IF armedAt = Never THEN "draft"
                       ELSE IF due = Immediately THEN "sent" ELSE "scheduled"
    /\ UNCHANGED <<config, now, requestVars, startedAt, armedAt, overtaken,
                   batch, cancelVars>>

(* The pod dies: with the request before its job, or with the job.         *)
KillPod ==
    /\ \/ /\ request \in {"minting", "minted", "claimed"}
          /\ request' = "failed"
          /\ UNCHANGED job
       \/ /\ job \in {"running", "settling"}
          /\ job' = "killed"
          /\ UNCHANGED request
    /\ UNCHANGED <<config, now, due, checkedAt, claimedAt, startedAt, settlingAt,
                   armedAt, letter, overtaken, batch, cancelVars>>

----------------------------------------------------------------------------
(* The sweep, on a pod whose clock shows c.                                *)

JobAlive == request = "claimed" \/ job \in {"running", "settling"}

RecoverStuck(c) ==
    /\ letter = "sending"
    /\ claimedAt < c - config.ttl
    /\ letter' = IF due = Immediately THEN "sent" ELSE "scheduled"
    /\ overtaken' = (overtaken \/ JobAlive)
    /\ UNCHANGED <<config, now, requestVars, jobVars, batch, cancelVars>>

SettleDue(c) ==
    /\ letter = "scheduled"
    /\ due <= c
    /\ letter' = "sent"
    /\ UNCHANGED <<config, now, requestVars, jobVars, overtaken, batch, cancelVars>>

----------------------------------------------------------------------------
(* A cancel, on a pod whose clock shows c.                                 *)

CancelWindowOpenFault(c) == c <= due

CancelWindowOpen(c) == c <= due - config.buffer

ReadForCancel(c) ==
    /\ cancel = "none"
    /\ letter \in {"sending", "scheduled"}
    /\ due # Immediately
    /\ CancelWindowOpen(c)
    /\ cancel' = "read"
    /\ cancelReadAt' = now
    /\ UNCHANGED <<config, now, requestVars, jobVars, letter, overtaken, batch,
                   answeredAt, revertDeadline>>

(* The provider answers.  A cancellation discards the messages it still    *)
(* holds; one that comes after the release may be accepted all the same.   *)
CancelAtProvider ==
    /\ cancel = "read"
    /\ answeredAt' = now
    /\ \/ /\ cancel' = "accepted"
          /\ revertDeadline' = now + RevertTimeout
          /\ batch' = IF batch = "held" THEN "cancelled" ELSE batch
       \/ /\ cancel' = "failed"
          /\ UNCHANGED <<revertDeadline, batch>>
    /\ UNCHANGED <<config, now, requestVars, jobVars, letter, overtaken,
                   cancelReadAt>>

(* RevertScheduled takes back a row of this batch that the job or the      *)
(* sweep settled meanwhile, unless they made it sent.                      *)
RevertCancelled ==
    /\ cancel = "accepted"
    /\ \/ /\ letter \in {"sending", "scheduled"}
          /\ letter' = "draft"
          /\ cancel' = "reverted"
       \/ /\ UNCHANGED letter
          /\ cancel' = "failed"
    /\ revertDeadline' = Never
    /\ UNCHANGED <<config, now, requestVars, jobVars, overtaken, batch,
                   cancelReadAt, answeredAt>>

----------------------------------------------------------------------------
(* The provider and the clock.                                             *)

ReleaseBatch ==
    /\ batch = "held"
    /\ armedAt # Never
    /\ now >= due
    /\ batch' = "released"
    /\ UNCHANGED <<config, now, requestVars, jobVars, letter, overtaken, cancelVars>>

BoundedFault ==
    /\ request = "minting" => now < checkedAt + ProviderTimeout
    /\ job = "settling" => now < settlingAt + PersistTimeout
    /\ cancel = "accepted" => now < revertDeadline

(* Time does not pass a timeout of the code.                               *)
Bounded ==
    /\ request = "minting" => now < checkedAt + ProviderTimeout
    /\ job = "running" => now < startedAt + config.job
    /\ job = "settling" => now < settlingAt + PersistTimeout
    /\ cancel = "accepted" => now < revertDeadline

Tick ==
    /\ now < LastMoment
    /\ Bounded
    /\ now' = now + 1
    /\ UNCHANGED <<config, requestVars, jobVars, letter, overtaken, batch, cancelVars>>

Clocks == (now - Skew)..(now + Skew)

STNext ==
    \/ \E at \in Moments, c \in Clocks : CheckWindow(at, c)
    \/ MintBatch \/ ClaimRow \/ StartDetachedJob
    \/ ArmMessage \/ EndFanOut \/ SettleLetter \/ KillPod
    \/ \E c \in Clocks : RecoverStuck(c) \/ SettleDue(c) \/ ReadForCancel(c)
    \/ CancelAtProvider \/ RevertCancelled
    \/ ReleaseBatch \/ Tick

STSpec == STInit /\ [][STNext]_timingVars

----------------------------------------------------------------------------
(* Properties.                                                             *)

(* The minimum lead is the job's timeout and a margin because no message   *)
(* may be armed after its own release time.  It holds as long as minting,  *)
(* claiming and starting the job, and the clocks, take no more than the    *)
(* margin.                                                                 *)
ArmedBeforeRelease ==
    /\ armedAt # Never
    /\ due # Immediately
    /\ startedAt - checkedAt + Skew <= Margin
    => armedAt <= due

(* The sweep settles no row whose job still runs or still writes.  The     *)
(* slack of the TTL pays for the terminal write, for the clocks and for a  *)
(* job that starts late.                                                   *)
JobLag == (IF startedAt = Never THEN now ELSE startedAt) - claimedAt

SweepSparesLiveJobs ==
    /\ overtaken
    /\ config.rawJob > 0
    => JobLag + PersistTimeout + Skew > Slack

(* What config.go says of StuckSendTTL without any condition: "Kept above  *)
(* SendJobTimeout so the sweep never races a live job."                    *)
SweepNeverRaces ==
    overtaken => JobLag + PersistTimeout + Skew > Slack

(* A newsletter is not back in the author's hands after its batch went     *)
(* out: the cancel buffer covers the time the provider takes to answer.    *)
CancelBeatsRelease ==
    /\ cancel = "reverted"
    /\ answeredAt - cancelReadAt < config.buffer - Skew
    => batch # "released"

=============================================================================
