------------------------ MODULE ScheduleTimingProofs ------------------------
(***************************************************************************)
(* The safety of ScheduleTiming for any durations, settings and skew: what *)
(* the margins of the configuration are for.                               *)
(***************************************************************************)
EXTENDS ScheduleTiming, TLAPS

LEMMA ConfigFloors ==
    ASSUME NEW c \in Configs
    PROVE  /\ c \in [rawJob : Int, job : Int, ttl : Int, lead : Int,
                     buffer : Int, horizon : Int]
           /\ c.job >= 0
           /\ c.lead >= c.job + Margin
           /\ c.rawJob > 0 => c.job = c.rawJob /\ c.ttl >= c.job + Slack
           /\ c.buffer >= MinCancelBuffer
  <1> PICK r \in [job : RawJobTimeouts, ttl : RawStuckTTLs, lead : RawLeads,
                  buffer : RawBuffers, horizon : RawHorizons] :
          c = [rawJob |-> r.job, job |-> EffectiveJobTimeout(r.job),
               ttl |-> EffectiveStuckTTL(r.ttl, r.job),
               lead |-> EffectiveLead(r.lead, EffectiveJobTimeout(r.job)),
               buffer |-> EffectiveBuffer(r.buffer),
               horizon |-> Or(r.horizon, HorizonCap)]
    BY DEF Configs
  <1>1. /\ r.job \in Int /\ r.ttl \in Int /\ r.lead \in Int
        /\ r.buffer \in Int /\ r.horizon \in Int
    BY RawAssumption
  <1>2. /\ Margin \in Nat /\ Slack \in Nat /\ DefaultJobTimeout \in Nat
        /\ MinCancelBuffer \in Nat /\ HorizonCap \in Nat
    BY DurationsAssumption DEF Durations
  <1> QED
    BY <1>1, <1>2 DEF EffectiveJobTimeout, EffectiveStuckTTL, EffectiveLead,
                      EffectiveBuffer, Or, AtLeast

----------------------------------------------------------------------------
(* The inductive invariant, by what each part relates.                     *)

Claimed == request \in {"claimed", "accepted", "failed"}

(* The request leaves its moments in this order.                           *)
Course ==
    /\ request = "open" => due = Immediately /\ checkedAt = Never
    /\ request \in {"open", "minting"} => batch = "none"
    /\ due # Immediately => checkedAt # Never
    /\ ~Claimed => claimedAt = Never /\ letter = "draft" /\ ~overtaken
    /\ request # "accepted" => job = "none"
    /\ job = "none" <=> startedAt = Never
    /\ startedAt = Never => armedAt = Never
    /\ letter # "draft" => claimedAt # Never
    /\ startedAt # Never => claimedAt # Never
    /\ request = "claimed" => claimedAt # Never
    /\ overtaken => claimedAt # Never

(* The window, as it was when it was checked.                              *)
Window ==
    due # Immediately => due >= checkedAt - Skew + config.lead

(* What the deadlines bound.                                               *)
Deadlines ==
    /\ job = "running" => now <= startedAt + config.job
    /\ job = "settling" =>
           /\ settlingAt # Never
           /\ settlingAt <= startedAt + config.job
           /\ now <= settlingAt + PersistTimeout
    /\ startedAt <= now
    /\ armedAt # Never => armedAt <= startedAt + config.job

(* How late a cancel that was answered can have been.                      *)
Cancelling ==
    /\ cancel # "none" =>
           /\ Claimed
           /\ cancelReadAt + config.buffer - Skew <= due
    /\ cancel \in {"accepted", "reverted"} =>
           batch \in {"none", "cancelled"} \/ answeredAt >= due
    /\ batch = "released" => now >= due

Inv ==
    /\ STTypeOK
    /\ config \in Configs
    /\ Course
    /\ Window
    /\ Deadlines
    /\ Cancelling
    /\ SweepSparesLiveJobs
----------------------------------------------------------------------------
(* The types, as the provers use them.                                     *)

Stamps == {checkedAt, claimedAt, startedAt, settlingAt, armedAt, cancelReadAt, answeredAt}

LEMMA Constants ==
    /\ Margin \in Nat /\ Slack \in Nat /\ PersistTimeout \in Nat /\ Skew \in Nat
    /\ RevertTimeout \in Nat /\ LastMoment \in Nat /\ ProviderTimeout \in Nat
  BY DurationsAssumption, WorldAssumption DEF Durations

LEMMA Types ==
    ASSUME Inv
    PROVE  /\ now \in Nat /\ due \in Nat
           /\ checkedAt \in Nat \cup {-1} /\ claimedAt \in Nat \cup {-1}
           /\ startedAt \in Nat \cup {-1} /\ settlingAt \in Nat \cup {-1}
           /\ armedAt \in Nat \cup {-1} /\ cancelReadAt \in Nat \cup {-1}
           /\ answeredAt \in Nat \cup {-1}
           /\ config.job \in Nat /\ config.ttl \in Int /\ config.lead \in Int
           /\ config.buffer \in Int /\ config.rawJob \in Int
           /\ config.lead >= config.job + Margin
           /\ config.rawJob > 0 => config.ttl >= config.job + Slack
  BY ConfigFloors, Constants DEF Inv, STTypeOK, Moments, Never

LEMMA InitInv == STInit => Inv
  <1> SUFFICES ASSUME STInit PROVE Inv
    OBVIOUS
  <1>1. config \in [rawJob : Int, job : Int, ttl : Int, lead : Int,
                    buffer : Int, horizon : Int]
    BY ConfigFloors DEF STInit
  <1>2. now \in Moments /\ due \in Nat /\ Stamps \subseteq {Never}
    BY Constants DEF STInit, Moments, Stamps, Immediately
  <1>3. STTypeOK
    BY <1>1, <1>2 DEF STInit, STTypeOK, Stamps, Letters
  <1> QED
    BY <1>3 DEF STInit, Inv, Course, Window, Deadlines, Cancelling, SweepSparesLiveJobs,
                Claimed, Never, Immediately

----------------------------------------------------------------------------
(* One lemma for each part.                                                *)

LEMMA TypeStep ==
    ASSUME Inv, [STNext]_timingVars
    PROVE  STTypeOK' /\ config' = config
  <1> USE DEF Inv, STTypeOK, Letters, Moments, Never, timingVars, requestVars, jobVars, cancelVars
  <1>1. ASSUME NEW at \in Moments, NEW c \in Clocks, CheckWindow(at, c) PROVE STTypeOK' /\ config' = config
    BY <1>1, Constants DEF CheckWindow
  <1>2. CASE MintBatch BY <1>2 DEF MintBatch
  <1>3. CASE ClaimRow BY <1>3 DEF ClaimRow
  <1>4. CASE StartDetachedJob BY <1>4 DEF StartDetachedJob
  <1>5. CASE ArmMessage BY <1>5 DEF ArmMessage
  <1>6. CASE EndFanOut BY <1>6 DEF EndFanOut
  <1>7. CASE SettleLetter BY <1>7 DEF SettleLetter
  <1>8. CASE KillPod BY <1>8 DEF KillPod
  <1>9. ASSUME NEW c \in Clocks, RecoverStuck(c) PROVE STTypeOK' /\ config' = config
    BY <1>9 DEF RecoverStuck
  <1>10. ASSUME NEW c \in Clocks, SettleDue(c) PROVE STTypeOK' /\ config' = config
    BY <1>10 DEF SettleDue
  <1>11. ASSUME NEW c \in Clocks, ReadForCancel(c) PROVE STTypeOK' /\ config' = config
    BY <1>11 DEF ReadForCancel
  <1>12. CASE CancelAtProvider BY <1>12, Constants DEF CancelAtProvider
  <1>13. CASE RevertCancelled BY <1>13 DEF RevertCancelled
  <1>14. CASE ReleaseBatch BY <1>14 DEF ReleaseBatch
  <1>15. CASE Tick BY <1>15, Constants DEF Tick
  <1>16. CASE UNCHANGED timingVars BY <1>16
  <1> QED
    BY <1>1, <1>2, <1>3, <1>4, <1>5, <1>6, <1>7, <1>8, <1>9, <1>10, <1>11, <1>12,
       <1>13, <1>14, <1>15, <1>16 DEF STNext

LEMMA CourseStep ==
    ASSUME Inv, [STNext]_timingVars
    PROVE  Course'
  <1> USE DEF Course, Claimed, Never, Immediately,
              timingVars, requestVars, jobVars, cancelVars
  <1>a. Inv /\ config' = config
    BY TypeStep
  <1>1. ASSUME NEW at \in Moments, NEW c \in Clocks, CheckWindow(at, c) PROVE Course'
    BY <1>1, <1>a, Types, Constants DEF Inv, CheckWindow, WindowOpen, Clocks, Moments
  <1>2. CASE MintBatch
    BY <1>2, <1>a, Types, Constants DEF Inv, MintBatch
  <1>3. CASE ClaimRow
    BY <1>3, <1>a, Types, Constants DEF Inv, ClaimRow
  <1>4. CASE StartDetachedJob
    BY <1>4, <1>a, Types, Constants DEF Inv, StartDetachedJob
  <1>5. CASE ArmMessage
    BY <1>5, <1>a, Types, Constants DEF Inv, ArmMessage
  <1>6. CASE EndFanOut
    BY <1>6, <1>a, Types, Constants DEF Inv, EndFanOut
  <1>7. CASE SettleLetter
    BY <1>7, <1>a, Types, Constants DEF Inv, SettleLetter
  <1>8. CASE KillPod
    BY <1>8, <1>a, Types, Constants DEF Inv, KillPod
  <1>9. ASSUME NEW c \in Clocks, RecoverStuck(c) PROVE Course'
    BY <1>9, <1>a, Types, Constants DEF Inv, RecoverStuck, Clocks, JobAlive
  <1>10. ASSUME NEW c \in Clocks, SettleDue(c) PROVE Course'
    BY <1>10, <1>a, Types, Constants DEF Inv, SettleDue, Clocks
  <1>11. ASSUME NEW c \in Clocks, ReadForCancel(c) PROVE Course'
    BY <1>11, <1>a, Types, Constants DEF Inv, ReadForCancel, Clocks
  <1>12. CASE CancelAtProvider
    BY <1>12, <1>a, Types, Constants DEF Inv, CancelAtProvider
  <1>13. CASE RevertCancelled
    BY <1>13, <1>a, Types, Constants DEF Inv, RevertCancelled
  <1>14. CASE ReleaseBatch
    BY <1>14, <1>a, Types, Constants DEF Inv, ReleaseBatch
  <1>15. CASE Tick
    BY <1>15, <1>a, Types, Constants DEF Inv, Tick
  <1>16. CASE UNCHANGED timingVars
    BY <1>16 DEF Inv
  <1> QED
    BY <1>1, <1>2, <1>3, <1>4, <1>5, <1>6, <1>7, <1>8, <1>9, <1>10, <1>11, <1>12, <1>13, <1>14, <1>15, <1>16 DEF STNext

LEMMA WindowStep ==
    ASSUME Inv, [STNext]_timingVars
    PROVE  Window'
  <1> USE DEF Window, Course, Claimed, Never, Immediately,
              timingVars, requestVars, jobVars, cancelVars
  <1>a. Inv /\ config' = config
    BY TypeStep
  <1>1. ASSUME NEW at \in Moments, NEW c \in Clocks, CheckWindow(at, c) PROVE Window'
    BY <1>1, <1>a, Types, Constants DEF Inv, CheckWindow, WindowOpen, Clocks, Moments
  <1>2. CASE MintBatch
    BY <1>2, <1>a, Types, Constants DEF Inv, MintBatch
  <1>3. CASE ClaimRow
    BY <1>3, <1>a, Types, Constants DEF Inv, ClaimRow
  <1>4. CASE StartDetachedJob
    BY <1>4, <1>a, Types, Constants DEF Inv, StartDetachedJob
  <1>5. CASE ArmMessage
    BY <1>5, <1>a, Types, Constants DEF Inv, ArmMessage
  <1>6. CASE EndFanOut
    BY <1>6, <1>a, Types, Constants DEF Inv, EndFanOut
  <1>7. CASE SettleLetter
    BY <1>7, <1>a, Types, Constants DEF Inv, SettleLetter
  <1>8. CASE KillPod
    BY <1>8, <1>a, Types, Constants DEF Inv, KillPod
  <1>9. ASSUME NEW c \in Clocks, RecoverStuck(c) PROVE Window'
    BY <1>9, <1>a, Types, Constants DEF Inv, RecoverStuck, Clocks
  <1>10. ASSUME NEW c \in Clocks, SettleDue(c) PROVE Window'
    BY <1>10, <1>a, Types, Constants DEF Inv, SettleDue, Clocks
  <1>11. ASSUME NEW c \in Clocks, ReadForCancel(c) PROVE Window'
    BY <1>11, <1>a, Types, Constants DEF Inv, ReadForCancel, Clocks
  <1>12. CASE CancelAtProvider
    BY <1>12, <1>a, Types, Constants DEF Inv, CancelAtProvider
  <1>13. CASE RevertCancelled
    BY <1>13, <1>a, Types, Constants DEF Inv, RevertCancelled
  <1>14. CASE ReleaseBatch
    BY <1>14, <1>a, Types, Constants DEF Inv, ReleaseBatch
  <1>15. CASE Tick
    BY <1>15, <1>a, Types, Constants DEF Inv, Tick
  <1>16. CASE UNCHANGED timingVars
    BY <1>16 DEF Inv
  <1> QED
    BY <1>1, <1>2, <1>3, <1>4, <1>5, <1>6, <1>7, <1>8, <1>9, <1>10, <1>11, <1>12, <1>13, <1>14, <1>15, <1>16 DEF STNext

LEMMA DeadlinesStep ==
    ASSUME Inv, [STNext]_timingVars
    PROVE  Deadlines'
  <1> USE DEF Deadlines, Course, Claimed, Never, Immediately,
              timingVars, requestVars, jobVars, cancelVars
  <1>a. Inv /\ config' = config
    BY TypeStep
  <1>1. ASSUME NEW at \in Moments, NEW c \in Clocks, CheckWindow(at, c) PROVE Deadlines'
    BY <1>1, <1>a, Types, Constants DEF Inv, CheckWindow, WindowOpen, Clocks, Moments
  <1>2. CASE MintBatch
    BY <1>2, <1>a, Types, Constants DEF Inv, MintBatch
  <1>3. CASE ClaimRow
    BY <1>3, <1>a, Types, Constants DEF Inv, ClaimRow
  <1>4. CASE StartDetachedJob
    BY <1>4, <1>a, Types, Constants DEF Inv, StartDetachedJob
  <1>5. CASE ArmMessage
    BY <1>5, <1>a, Types, Constants DEF Inv, ArmMessage
  <1>6. CASE EndFanOut
    BY <1>6, <1>a, Types, Constants DEF Inv, EndFanOut
  <1>7. CASE SettleLetter
    BY <1>7, <1>a, Types, Constants DEF Inv, SettleLetter
  <1>8. CASE KillPod
    BY <1>8, <1>a, Types, Constants DEF Inv, KillPod
  <1>9. ASSUME NEW c \in Clocks, RecoverStuck(c) PROVE Deadlines'
    BY <1>9, <1>a, Types, Constants DEF Inv, RecoverStuck, Clocks
  <1>10. ASSUME NEW c \in Clocks, SettleDue(c) PROVE Deadlines'
    BY <1>10, <1>a, Types, Constants DEF Inv, SettleDue, Clocks
  <1>11. ASSUME NEW c \in Clocks, ReadForCancel(c) PROVE Deadlines'
    BY <1>11, <1>a, Types, Constants DEF Inv, ReadForCancel, Clocks
  <1>12. CASE CancelAtProvider
    BY <1>12, <1>a, Types, Constants DEF Inv, CancelAtProvider
  <1>13. CASE RevertCancelled
    BY <1>13, <1>a, Types, Constants DEF Inv, RevertCancelled
  <1>14. CASE ReleaseBatch
    BY <1>14, <1>a, Types, Constants DEF Inv, ReleaseBatch
  <1>15. CASE Tick
    BY <1>15, <1>a, Types, Constants DEF Inv, Tick, Bounded
  <1>16. CASE UNCHANGED timingVars
    BY <1>16 DEF Inv
  <1> QED
    BY <1>1, <1>2, <1>3, <1>4, <1>5, <1>6, <1>7, <1>8, <1>9, <1>10, <1>11, <1>12, <1>13, <1>14, <1>15, <1>16 DEF STNext

LEMMA CancellingStep ==
    ASSUME Inv, [STNext]_timingVars
    PROVE  Cancelling'
  <1> USE DEF Cancelling, Course, Claimed, Never, Immediately,
              timingVars, requestVars, jobVars, cancelVars
  <1>a. Inv /\ config' = config
    BY TypeStep
  <1>1. ASSUME NEW at \in Moments, NEW c \in Clocks, CheckWindow(at, c) PROVE Cancelling'
    BY <1>1, <1>a, Types, Constants DEF Inv, CheckWindow, WindowOpen, Clocks, Moments
  <1>2. CASE MintBatch
    BY <1>2, <1>a, Types, Constants DEF Inv, MintBatch
  <1>3. CASE ClaimRow
    BY <1>3, <1>a, Types, Constants DEF Inv, ClaimRow
  <1>4. CASE StartDetachedJob
    BY <1>4, <1>a, Types, Constants DEF Inv, StartDetachedJob
  <1>5. CASE ArmMessage
    BY <1>5, <1>a, Types, Constants DEF Inv, ArmMessage
  <1>6. CASE EndFanOut
    BY <1>6, <1>a, Types, Constants DEF Inv, EndFanOut
  <1>7. CASE SettleLetter
    BY <1>7, <1>a, Types, Constants DEF Inv, SettleLetter
  <1>8. CASE KillPod
    BY <1>8, <1>a, Types, Constants DEF Inv, KillPod
  <1>9. ASSUME NEW c \in Clocks, RecoverStuck(c) PROVE Cancelling'
    BY <1>9, <1>a, Types, Constants DEF Inv, RecoverStuck, Clocks
  <1>10. ASSUME NEW c \in Clocks, SettleDue(c) PROVE Cancelling'
    BY <1>10, <1>a, Types, Constants DEF Inv, SettleDue, Clocks
  <1>11. ASSUME NEW c \in Clocks, ReadForCancel(c) PROVE Cancelling'
    BY <1>11, <1>a, Types, Constants DEF Inv, ReadForCancel, Clocks, CancelWindowOpen
  <1>12. CASE CancelAtProvider
    <2>1. Claimed /\ cancelReadAt + config.buffer - Skew <= due
      BY <1>12 DEF CancelAtProvider, Inv
    <2>2. batch' \in {"none", "cancelled"} \/ answeredAt' >= due \/ cancel' = "failed"
      BY <1>12 DEF CancelAtProvider, Inv, STTypeOK
    <2>3. batch' = "released" => now >= due
      BY <1>12 DEF CancelAtProvider, Inv
    <2> QED
      BY <1>12, <1>a, <2>1, <2>2, <2>3 DEF CancelAtProvider
  <1>13. CASE RevertCancelled
    BY <1>13, <1>a, Types, Constants DEF Inv, RevertCancelled
  <1>14. CASE ReleaseBatch
    BY <1>14, <1>a, Types, Constants DEF Inv, ReleaseBatch
  <1>15. CASE Tick
    BY <1>15, <1>a, Types, Constants DEF Inv, Tick
  <1>16. CASE UNCHANGED timingVars
    BY <1>16 DEF Inv
  <1> QED
    BY <1>1, <1>2, <1>3, <1>4, <1>5, <1>6, <1>7, <1>8, <1>9, <1>10, <1>11, <1>12, <1>13, <1>14, <1>15, <1>16 DEF STNext

LEMMA SparingStep ==
    ASSUME Inv, [STNext]_timingVars
    PROVE  SweepSparesLiveJobs'
  <1> USE DEF SweepSparesLiveJobs, JobLag, Deadlines, Course, Claimed, Never, Immediately,
              timingVars, requestVars, jobVars, cancelVars
  <1>a. Inv /\ config' = config
    BY TypeStep
  <1>1. ASSUME NEW at \in Moments, NEW c \in Clocks, CheckWindow(at, c) PROVE SweepSparesLiveJobs'
    BY <1>1, <1>a, Types, Constants DEF Inv, CheckWindow, WindowOpen, Clocks, Moments
  <1>2. CASE MintBatch
    BY <1>2, <1>a, Types, Constants DEF Inv, MintBatch
  <1>3. CASE ClaimRow
    BY <1>3, <1>a, Types, Constants DEF Inv, ClaimRow
  <1>4. CASE StartDetachedJob
    BY <1>4, <1>a, Types, Constants DEF Inv, StartDetachedJob
  <1>5. CASE ArmMessage
    BY <1>5, <1>a, Types, Constants DEF Inv, ArmMessage
  <1>6. CASE EndFanOut
    BY <1>6, <1>a, Types, Constants DEF Inv, EndFanOut
  <1>7. CASE SettleLetter
    BY <1>7, <1>a, Types, Constants DEF Inv, SettleLetter
  <1>8. CASE KillPod
    BY <1>8, <1>a, Types, Constants DEF Inv, KillPod
  <1>9. ASSUME NEW c \in Clocks, RecoverStuck(c) PROVE SweepSparesLiveJobs'
    <2>1. CASE ~JobAlive
      BY <2>1, <1>9, <1>a, Types, Constants DEF Inv, RecoverStuck
    <2>2. CASE JobAlive
      <3>1. claimedAt < now + Skew - config.ttl
        BY <1>9, Types, Constants DEF RecoverStuck, Clocks
      <3>2. config.rawJob > 0 => JobLag + PersistTimeout + Skew > Slack
        BY <2>2, <3>1, Types, Constants DEF Inv, JobAlive
      <3> QED
        BY <3>2, <1>9, <1>a DEF RecoverStuck
    <2> QED
      BY <2>1, <2>2
  <1>10. ASSUME NEW c \in Clocks, SettleDue(c) PROVE SweepSparesLiveJobs'
    BY <1>10, <1>a, Types, Constants DEF Inv, SettleDue, Clocks
  <1>11. ASSUME NEW c \in Clocks, ReadForCancel(c) PROVE SweepSparesLiveJobs'
    BY <1>11, <1>a, Types, Constants DEF Inv, ReadForCancel, Clocks
  <1>12. CASE CancelAtProvider
    BY <1>12, <1>a, Types, Constants DEF Inv, CancelAtProvider
  <1>13. CASE RevertCancelled
    BY <1>13, <1>a, Types, Constants DEF Inv, RevertCancelled
  <1>14. CASE ReleaseBatch
    BY <1>14, <1>a, Types, Constants DEF Inv, ReleaseBatch
  <1>15. CASE Tick
    BY <1>15, <1>a, Types, Constants DEF Inv, Tick
  <1>16. CASE UNCHANGED timingVars
    BY <1>16 DEF Inv
  <1> QED
    BY <1>1, <1>2, <1>3, <1>4, <1>5, <1>6, <1>7, <1>8, <1>9, <1>10, <1>11, <1>12, <1>13, <1>14, <1>15, <1>16 DEF STNext

LEMMA StepInv == Inv /\ [STNext]_timingVars => Inv'
  BY TypeStep, CourseStep, WindowStep, DeadlinesStep, CancellingStep, SparingStep DEF Inv

LEMMA SpecInv == STSpec => []Inv
  BY InitInv, StepInv, PTL DEF STSpec

----------------------------------------------------------------------------
(* No message of a scheduled send is armed after its own release time, for *)
(* any setting of the environment: the lead EffectiveLead enforces.        *)
THEOREM ArmedBeforeReleaseHolds == STSpec => []ArmedBeforeRelease
  <1>1. Inv => ArmedBeforeRelease
    <2> SUFFICES ASSUME Inv, armedAt # Never, due # Immediately,
                        startedAt - checkedAt + Skew <= Margin
                 PROVE  armedAt <= due
      BY DEF ArmedBeforeRelease
    <2>1. armedAt <= startedAt + config.job
      BY DEF Inv, Deadlines
    <2>2. due >= checkedAt - Skew + config.lead
      BY DEF Inv, Window
    <2> QED
      BY <2>1, <2>2, Types, Constants
  <1> QED
    BY <1>1, SpecInv, PTL

(* The sweep leaves a live job alone unless it started later than the      *)
(* slack of the TTL pays for, provided SEND_JOB_TIMEOUT is positive.       *)
THEOREM SweepSparesLiveJobsHolds == STSpec => []SweepSparesLiveJobs
  BY SpecInv, PTL DEF Inv

(* A cancel whose provider answered within the buffer came before the      *)
(* release, for any setting of the environment.                            *)
THEOREM CancelBeatsReleaseHolds == STSpec => []CancelBeatsRelease
  <1>1. Inv => CancelBeatsRelease
    <2> SUFFICES ASSUME Inv, cancel = "reverted", batch = "released",
                        answeredAt - cancelReadAt < config.buffer - Skew
                 PROVE  FALSE
      BY DEF CancelBeatsRelease
    <2>1. cancelReadAt + config.buffer - Skew <= due /\ answeredAt >= due
      BY DEF Inv, Cancelling
    <2> QED
      BY <2>1, Types, Constants
  <1> QED
    BY <1>1, SpecInv, PTL

(* Every variable of the timing component keeps its type.                  *)
THEOREM TimingTypesHold == STSpec => []STTypeOK
  BY SpecInv, PTL DEF Inv
=============================================================================
