--------------------------- MODULE SendJobProofs ---------------------------
(***************************************************************************)
(* The fan-out and the drain, for every audience and every concurrency.    *)
(*                                                                         *)
(* The argument: the semaphore and the WaitGroup count exactly the workers *)
(* that hold them, and the three counters exactly the recipients with that *)
(* verdict (Figures).  So a WaitGroup at zero means that every worker is   *)
(* done (Stages), counters of zero mean that nobody has that verdict, and  *)
(* the decision rests on all of the audience (Decision).  The drain needs  *)
(* no figure, only that jobs.Add precedes the end of the request           *)
(* (Draining).                                                             *)
(***************************************************************************)
EXTENDS SendJob, FiniteSetTheorems, TLAPS

(* The counters of both synchronisers and of the mutex are the sets they   *)
(* stand for.                                                              *)
Figures ==
    /\ sem = Cardinality(InFlight)
    /\ wg = Cardinality(Unfinished)
    /\ sent = Cardinality(Counted("sent"))
    /\ failed = Cardinality(Counted("failed") \cup Skipped)
    /\ unknown = Cardinality(Counted("unknown"))

(* How far the loop, the workers and the job are with one another.         *)
Stages ==
    /\ \A r \in Recipients : worker[r] = "none" <=> r >= next
    /\ \A r \in Recipients :
          answer[r] = "none" <=> worker[r] \in {"none", "calling", "skipped"}
    /\ job = "request" => next = 1
    /\ job \in {"waiting", "returned", "ended"} => next = Total + 1
    /\ job \in {"returned", "ended"} =>
          \A r \in Recipients : worker[r] \in {"done", "skipped"}

(* What the provider took, against what its client was told.               *)
Truth ==
    \A r \in Recipients :
        /\ answer[r] = "rejected" => r \notin taken
        /\ r \in taken => worker[r] \notin {"none", "skipped"}

(* The row leaves sending last, and for a draft on counters of zero.       *)
Decision ==
    /\ row # "sending" => job = "ended"
    /\ row = "draft" => AllRejected

Draining ==
    /\ jobs = IF job \in {"looping", "waiting", "returned"} THEN 1 ELSE 0
    /\ pod = "draining" /\ ~overran => job # "request"
    /\ pod \in {"up", "stopping", "draining"} => ~drained
    /\ DrainIsRaceFree

Inv == TypeOK /\ Figures /\ Stages /\ Truth /\ Decision /\ Draining

-----------------------------------------------------------------------------
(* Counting recipients.                                                    *)

LEMMA Countable ==
  ASSUME NEW S \in SUBSET Recipients
  PROVE  /\ IsFiniteSet(S)
         /\ Cardinality(S) \in 0..Total
         /\ Cardinality(S) = 0 <=> S = {}
<1>1. IsFiniteSet(Recipients) /\ Cardinality(Recipients) = Total
  BY FS_Interval, TotalAssumption DEF Recipients
<1>2. IsFiniteSet(S) /\ Cardinality(S) <= Total
  BY <1>1, FS_Subset
<1>3. Cardinality(S) \in Nat
  BY <1>2, FS_CardinalityType
<1> QED
  BY <1>2, <1>3, FS_EmptySet, TotalAssumption

LEMMA OneMore ==
  ASSUME NEW S \in SUBSET Recipients, NEW r \in Recipients, r \notin S
  PROVE  /\ Cardinality(S \cup {r}) = Cardinality(S) + 1
         /\ Cardinality(S \cup {r}) \in 0..Total
<1>1. IsFiniteSet(S)
  BY Countable
<1>2. S \cup {r} \in SUBSET Recipients
  OBVIOUS
<1> QED
  BY <1>1, <1>2, Countable, FS_AddElement

LEMMA OneLess ==
  ASSUME NEW S \in SUBSET Recipients, NEW r \in S
  PROVE  /\ Cardinality(S \ {r}) = Cardinality(S) - 1
         /\ Cardinality(S \ {r}) \in 0..Total
<1>1. IsFiniteSet(S)
  BY Countable
<1>2. S \ {r} \in SUBSET Recipients
  OBVIOUS
<1> QED
  BY <1>1, <1>2, Countable, FS_RemoveElement

(* The sets the counters stand for are sets of recipients.                 *)
LEMMA Sets ==
  /\ InFlight \in SUBSET Recipients
  /\ Unfinished \in SUBSET Recipients
  /\ \A v : Counted(v) \in SUBSET Recipients
  /\ Skipped \in SUBSET Recipients
  BY DEF InFlight, Unfinished, Counted, Skipped

LEMMA VerdictType ==
  ASSUME NEW a PROVE Verdict(a) \in {"sent", "failed", "unknown"}
  BY DEF Verdict

-----------------------------------------------------------------------------
(* The steps that move a worker.                                           *)

LEMMA StartWorkerFigures ==
  ASSUME Inv, StartWorker
  PROVE  TypeOK' /\ Figures'
<1> USE DEF podVars, loopVars, counters
<1>1. next \in Recipients /\ worker[next] = "none"
  BY TotalAssumption DEF StartWorker, Inv, TypeOK, Stages, Recipients
<1>2. /\ worker' = [worker EXCEPT ![next] = "calling"]
      /\ worker \in [Recipients -> {"none", "calling", "answered", "counted",
                                    "released", "done", "skipped"}]
      /\ answer' = answer
  BY DEF StartWorker, Inv, TypeOK
<1>3. InFlight' = InFlight \cup {next} /\ next \notin InFlight
  BY <1>1, <1>2 DEF InFlight, Recipients
<1>4. Unfinished' = Unfinished \cup {next} /\ next \notin Unfinished
  BY <1>1, <1>2, <1>3 DEF Unfinished, InFlight, Recipients
<1>5. Skipped' = Skipped /\ \A v : Counted(v)' = Counted(v)
  BY <1>1, <1>2 DEF Skipped, Counted, Recipients
<1>6. sem' = Cardinality(InFlight') /\ wg' = Cardinality(Unfinished') /\ wg' \in 0..Total
  BY <1>1, <1>3, <1>4, Sets, OneMore DEF StartWorker, Inv, Figures
<1>7. Figures'
  BY <1>5, <1>6 DEF StartWorker, Inv, Figures
<1>8. sem' \in 0..Concurrency
  BY ConcurrencyAssumption DEF StartWorker, Room, Inv, TypeOK
<1>9. next' \in 1..(Total + 1)
  BY TotalAssumption DEF StartWorker, Inv, TypeOK
<1>10. worker' \in [Recipients -> {"none", "calling", "answered", "counted",
                                   "released", "done", "skipped"}]
  BY <1>2
<1>11. TypeOK'
  BY <1>6, <1>8, <1>9, <1>10 DEF StartWorker, Inv, TypeOK, Recipients, Answers
<1> QED
  BY <1>7, <1>11

LEMMA SkipFigures ==
  ASSUME Inv, Skip
  PROVE  TypeOK' /\ Figures'
<1> USE DEF podVars, loopVars, counters
<1>1. next \in Recipients /\ worker[next] = "none"
  BY TotalAssumption DEF Skip, Inv, TypeOK, Stages, Recipients
<1>2. /\ worker' = [worker EXCEPT ![next] = "skipped"]
      /\ worker \in [Recipients -> {"none", "calling", "answered", "counted",
                                    "released", "done", "skipped"}]
      /\ answer' = answer
  BY DEF Skip, Inv, TypeOK
<1>3. InFlight' = InFlight
  BY <1>1, <1>2 DEF InFlight, Recipients
<1>4. Unfinished' = Unfinished
  BY <1>1, <1>2, <1>3 DEF Unfinished, Recipients
<1>5. Skipped' = Skipped \cup {next} /\ next \notin Skipped
  BY <1>1, <1>2 DEF Skipped, Recipients
<1>6. (\A v : Counted(v)' = Counted(v)) /\ \A v : next \notin Counted(v)
  BY <1>1, <1>2 DEF Counted, Recipients
<1>7. (Counted("failed") \cup Skipped)' = (Counted("failed") \cup Skipped) \cup {next}
  BY <1>5, <1>6
<1>8. failed' = Cardinality((Counted("failed") \cup Skipped)') /\ failed' \in 0..Total
  BY <1>1, <1>5, <1>6, <1>7, Sets, OneMore DEF Skip, Inv, Figures
<1>9. Figures'
  BY <1>3, <1>4, <1>6, <1>8 DEF Skip, Inv, Figures
<1>10. next' \in 1..(Total + 1)
  BY TotalAssumption DEF Skip, Inv, TypeOK
<1>11. worker' \in [Recipients -> {"none", "calling", "answered", "counted",
                                   "released", "done", "skipped"}]
  BY <1>2
<1>12. TypeOK'
  BY <1>8, <1>10, <1>11 DEF Skip, Inv, TypeOK, Recipients, Answers
<1> QED
  BY <1>9, <1>12

LEMMA AnswerFigures ==
  ASSUME Inv, NEW r \in Recipients, NEW a \in Answers, Answer(r, a)
  PROVE  TypeOK' /\ Figures'
<1> USE DEF podVars, loopVars, counters
<1>1. /\ worker[r] = "calling"
      /\ worker' = [worker EXCEPT ![r] = "answered"]
      /\ answer' = [answer EXCEPT ![r] = a]
      /\ worker \in [Recipients -> {"none", "calling", "answered", "counted",
                                    "released", "done", "skipped"}]
      /\ answer \in [Recipients -> Answers \cup {"none"}]
  BY DEF Answer, Inv, TypeOK
<1>2. InFlight' = InFlight
  BY <1>1 DEF InFlight, Recipients
<1>3. Unfinished' = Unfinished
  BY <1>1, <1>2 DEF Unfinished, Recipients
<1>4. Skipped' = Skipped
  BY <1>1 DEF Skipped, Recipients
<1>5. \A v : Counted(v)' = Counted(v)
  BY <1>1 DEF Counted, Recipients
<1>6. Figures'
  BY <1>2, <1>3, <1>4, <1>5 DEF Answer, Inv, Figures
<1>7. /\ worker' \in [Recipients -> {"none", "calling", "answered", "counted",
                                     "released", "done", "skipped"}]
      /\ answer' \in [Recipients -> Answers \cup {"none"}]
  BY <1>1
<1>8. TypeOK'
  BY <1>7 DEF Answer, Inv, TypeOK, Recipients, Answers
<1> QED
  BY <1>6, <1>8

LEMMA CountFigures ==
  ASSUME Inv, NEW r \in Recipients, Count(r)
  PROVE  TypeOK' /\ Figures'
<1> USE DEF podVars, loopVars, counters
<1> DEFINE verdict == Verdict(answer[r])
<1>1. /\ worker[r] = "answered"
      /\ worker' = [worker EXCEPT ![r] = "counted"]
      /\ answer' = answer
      /\ worker \in [Recipients -> {"none", "calling", "answered", "counted",
                                    "released", "done", "skipped"}]
  BY DEF Count, Inv, TypeOK
<1>2. InFlight' = InFlight
  BY <1>1 DEF InFlight, Recipients
<1>3. Unfinished' = Unfinished
  BY <1>1, <1>2 DEF Unfinished, Recipients
<1>4. Skipped' = Skipped /\ r \notin Skipped
  BY <1>1 DEF Skipped, Recipients
<1>5. \A v : /\ r \notin Counted(v)
             /\ Counted(v)' = IF v = verdict THEN Counted(v) \cup {r} ELSE Counted(v)
  BY <1>1 DEF Counted, Recipients
<1>6. sent' = Cardinality(Counted("sent")') /\ sent' \in 0..Total
  BY <1>5, Sets, OneMore DEF Count, Inv, TypeOK, Figures
<1>7. unknown' = Cardinality(Counted("unknown")') /\ unknown' \in 0..Total
  BY <1>5, Sets, OneMore DEF Count, Inv, TypeOK, Figures
<1>8. /\ failed' = Cardinality((Counted("failed") \cup Skipped)')
      /\ failed' \in 0..Total
  <2>1. r \notin Counted("failed") \cup Skipped
    BY <1>4, <1>5
  <2>2. (Counted("failed") \cup Skipped)' =
           IF verdict = "failed" THEN (Counted("failed") \cup Skipped) \cup {r}
                                 ELSE Counted("failed") \cup Skipped
    BY <1>4, <1>5
  <2> QED
    BY <2>1, <2>2, Sets, OneMore DEF Count, Inv, TypeOK, Figures
<1>9. Figures'
  BY <1>2, <1>3, <1>6, <1>7, <1>8 DEF Count, Inv, Figures
<1>10. worker' \in [Recipients -> {"none", "calling", "answered", "counted",
                                   "released", "done", "skipped"}]
  BY <1>1
<1>11. TypeOK'
  BY <1>6, <1>7, <1>8, <1>10 DEF Count, Inv, TypeOK, Recipients, Answers
<1> QED
  BY <1>9, <1>11

LEMMA ReleaseSlotFigures ==
  ASSUME Inv, NEW r \in Recipients, ReleaseSlot(r)
  PROVE  TypeOK' /\ Figures'
<1> USE DEF podVars, loopVars, counters
<1>1. /\ worker[r] = "counted"
      /\ worker' = [worker EXCEPT ![r] = "released"]
      /\ answer' = answer
      /\ worker \in [Recipients -> {"none", "calling", "answered", "counted",
                                    "released", "done", "skipped"}]
  BY DEF ReleaseSlot, Inv, TypeOK
<1>2. InFlight' = InFlight \ {r} /\ r \in InFlight
  BY <1>1 DEF InFlight, Recipients
<1>3. Unfinished' = Unfinished
  BY <1>1, <1>2 DEF Unfinished, InFlight, Recipients
<1>4. Skipped' = Skipped /\ \A v : Counted(v)' = Counted(v)
  BY <1>1 DEF Skipped, Counted, Recipients
<1>5. sem' = Cardinality(InFlight') /\ sem' \in Nat
  BY <1>2, Sets, OneLess, TotalAssumption DEF ReleaseSlot, Inv, Figures
<1>6. Figures'
  BY <1>3, <1>4, <1>5 DEF ReleaseSlot, Inv, Figures
<1>7. sem' \in 0..Concurrency
  BY <1>5, ConcurrencyAssumption DEF ReleaseSlot, Inv, TypeOK
<1>8. worker' \in [Recipients -> {"none", "calling", "answered", "counted",
                                  "released", "done", "skipped"}]
  BY <1>1
<1>9. TypeOK'
  BY <1>7, <1>8 DEF ReleaseSlot, Inv, TypeOK, Recipients, Answers
<1> QED
  BY <1>6, <1>9

LEMMA WorkerDoneFigures ==
  ASSUME Inv, NEW r \in Recipients, WorkerDone(r)
  PROVE  TypeOK' /\ Figures'
<1> USE DEF podVars, loopVars, counters
<1>1. /\ worker[r] = "released"
      /\ worker' = [worker EXCEPT ![r] = "done"]
      /\ answer' = answer
      /\ worker \in [Recipients -> {"none", "calling", "answered", "counted",
                                    "released", "done", "skipped"}]
  BY DEF WorkerDone, Inv, TypeOK
<1>2. InFlight' = InFlight /\ r \notin InFlight
  BY <1>1 DEF InFlight, Recipients
<1>3. Unfinished' = Unfinished \ {r} /\ r \in Unfinished
  BY <1>1, <1>2 DEF Unfinished, Recipients
<1>4. Skipped' = Skipped /\ \A v : Counted(v)' = Counted(v)
  BY <1>1 DEF Skipped, Counted, Recipients
<1>5. wg' = Cardinality(Unfinished') /\ wg' \in 0..Total
  BY <1>3, Sets, OneLess DEF WorkerDone, Inv, Figures
<1>6. Figures'
  BY <1>2, <1>4, <1>5 DEF WorkerDone, Inv, Figures
<1>7. worker' \in [Recipients -> {"none", "calling", "answered", "counted",
                                  "released", "done", "skipped"}]
  BY <1>1
<1>8. TypeOK'
  BY <1>5, <1>7 DEF WorkerDone, Inv, TypeOK, Recipients, Answers
<1> QED
  BY <1>6, <1>8

(* A step that moves no worker keeps the figures.                          *)
LEMMA FiguresKept ==
  ASSUME Inv, UNCHANGED <<sem, wg, worker, answer, sent, failed, unknown>>
  PROVE  Figures'
<1>1. InFlight' = InFlight /\ Unfinished' = Unfinished /\ Skipped' = Skipped
  BY DEF InFlight, Unfinished, Skipped
<1>2. \A v : Counted(v)' = Counted(v)
  BY DEF Counted
<1> QED
  BY <1>1, <1>2 DEF Inv, Figures

-----------------------------------------------------------------------------
(* The invariant, part by part.                                            *)

LEMMA InitInv == Init => Inv
<1> SUFFICES ASSUME Init PROVE Inv
  OBVIOUS
<1>1. TypeOK
  <2>1. next \in 1..(Total + 1) /\ sem \in 0..Concurrency /\ wg \in 0..Total
    BY TotalAssumption, ConcurrencyAssumption DEF Init
  <2>2. sent \in 0..Total /\ failed \in 0..Total /\ unknown \in 0..Total /\ jobs \in 0..1
    BY TotalAssumption DEF Init
  <2> QED
    BY <2>1, <2>2 DEF Init, TypeOK
<1>2. InFlight = {} /\ Unfinished = {} /\ Skipped = {} /\ \A v : Counted(v) = {}
  BY DEF Init, InFlight, Unfinished, Skipped, Counted
<1>3. Figures
  BY <1>2, FS_EmptySet DEF Init, Figures
<1>4. Stages
  BY TotalAssumption DEF Init, Stages, Recipients
<1>5. Truth /\ Decision /\ Draining
  BY DEF Init, Truth, Decision, Draining, DrainIsRaceFree
<1> QED
  BY <1>1, <1>3, <1>4, <1>5 DEF Inv

LEMMA StepFigures ==
  ASSUME Inv, [Next]_vars
  PROVE  TypeOK' /\ Figures'
<1> USE DEF podVars, loopVars, poolVars, counters
<1>1. ASSUME JobStep PROVE TypeOK' /\ Figures'
  <2>1. CASE StartJob
    BY <2>1, FiguresKept DEF StartJob, Inv, TypeOK, Draining, Answers, Recipients
  <2>2. CASE Expire
    BY <2>2, FiguresKept DEF Expire, Inv, TypeOK, Answers, Recipients
  <2>3. CASE EndLoop
    BY <2>3, FiguresKept DEF EndLoop, Inv, TypeOK, Answers, Recipients
  <2>4. CASE WaitReturns
    BY <2>4, FiguresKept DEF WaitReturns, Inv, TypeOK, Answers, Recipients
  <2>5. CASE Settle
    BY <2>5, FiguresKept DEF Settle, Inv, TypeOK, Draining, Answers, Recipients
  <2>6. CASE SettleFails
    BY <2>6, FiguresKept DEF SettleFails, Inv, TypeOK, Draining, Answers, Recipients
  <2> QED
    BY <1>1, <2>1, <2>2, <2>3, <2>4, <2>5, <2>6, StartWorkerFigures, SkipFigures DEF JobStep
<1>2. ASSUME PodStep PROVE TypeOK' /\ Figures'
  <2>1. UNCHANGED <<loopVars, expired, poolVars, answer, counters, row, taken>>
    BY <1>2 DEF PodStep, Stop, ServerStops, ServerOverruns, DrainReturns, DrainTimesOut, Exit
  <2>2. /\ pod' \in {"up", "stopping", "draining", "closing", "gone"}
        /\ overran' \in BOOLEAN
        /\ drained' \in BOOLEAN
    BY <1>2 DEF PodStep, Stop, ServerStops, ServerOverruns, DrainReturns, DrainTimesOut, Exit,
       Inv, TypeOK
  <2> QED
    BY <2>1, <2>2, FiguresKept DEF Inv, TypeOK, Answers, Recipients
<1>3. ASSUME NEW r \in Recipients, WorkerStep(r) PROVE TypeOK' /\ Figures'
  <2>1. CASE Take(r)
    BY <2>1, FiguresKept DEF Take, Inv, TypeOK, Answers, Recipients
  <2> QED
    BY <1>3, <2>1, AnswerFigures, CountFigures, ReleaseSlotFigures, WorkerDoneFigures
       DEF WorkerStep
<1>4. CASE UNCHANGED vars
  BY <1>4, FiguresKept DEF vars, Inv, TypeOK, Answers, Recipients
<1> QED
  BY <1>1, <1>2, <1>3, <1>4 DEF Next

(* wg.Wait() returns when the last worker is done.                         *)
LEMMA WaitMeansDone ==
  ASSUME Inv, WaitReturns
  PROVE  \A r \in Recipients : worker[r] \in {"done", "skipped"}
<1>1. Unfinished = {}
  BY Sets, Countable DEF WaitReturns, Inv, Figures
<1>2. \A r \in Recipients : worker[r] # "none"
  BY TotalAssumption DEF WaitReturns, Inv, Stages, Recipients
<1> QED
  BY <1>1, <1>2 DEF Unfinished, InFlight, Inv, TypeOK

LEMMA StepStages ==
  ASSUME Inv, [Next]_vars
  PROVE  Stages'
<1> USE DEF podVars, loopVars, poolVars, counters, Inv, TypeOK, Stages
<1>1. ASSUME StartWorker \/ Skip PROVE Stages'
  <2>1. next \in Recipients /\ worker[next] = "none" /\ next' = next + 1
    BY <1>1, TotalAssumption DEF StartWorker, Skip, Recipients
  <2>2. /\ \/ worker' = [worker EXCEPT ![next] = "calling"]
           \/ worker' = [worker EXCEPT ![next] = "skipped"]
        /\ UNCHANGED <<job, answer>>
        /\ job = "looping"
    BY <1>1 DEF StartWorker, Skip
  <2>3. \A r \in Recipients : worker'[r] = "none" <=> r >= next'
    BY <2>1, <2>2, TotalAssumption DEF Recipients
  <2>4. \A r \in Recipients :
           answer'[r] = "none" <=> worker'[r] \in {"none", "calling", "skipped"}
    BY <2>1, <2>2 DEF Recipients
  <2> QED
    BY <2>2, <2>3, <2>4
<1>2. CASE StartJob \/ Expire \/ EndLoop \/ Settle \/ SettleFails
  BY <1>2, TotalAssumption DEF StartJob, Expire, EndLoop, Settle, SettleFails
<1>3. CASE WaitReturns
  BY <1>3, WaitMeansDone DEF WaitReturns
<1>4. CASE PodStep
  BY <1>4 DEF PodStep, Stop, ServerStops, ServerOverruns, DrainReturns, DrainTimesOut, Exit
<1>5. ASSUME NEW r \in Recipients, WorkerStep(r) PROVE Stages'
  <2>1. CASE Take(r)
    BY <2>1 DEF Take
  <2>2. ASSUME NEW a \in Answers, Answer(r, a) PROVE Stages'
    <3>1. a # "none"
      BY DEF Answers
    <3> QED
      BY <2>2, <3>1, TotalAssumption DEF Answer, Recipients
  <2>3. CASE Count(r)
    BY <2>3, TotalAssumption DEF Count, Recipients
  <2>4. CASE ReleaseSlot(r)
    BY <2>4, TotalAssumption DEF ReleaseSlot, Recipients
  <2>5. CASE WorkerDone(r)
    BY <2>5, TotalAssumption DEF WorkerDone, Recipients
  <2> QED
    BY <1>5, <2>1, <2>2, <2>3, <2>4, <2>5 DEF WorkerStep
<1>6. CASE UNCHANGED vars
  BY <1>6 DEF vars
<1> QED
  BY <1>1, <1>2, <1>3, <1>4, <1>5, <1>6 DEF Next, JobStep

LEMMA StepTruth ==
  ASSUME Inv, [Next]_vars
  PROVE  Truth'
<1> USE DEF podVars, loopVars, poolVars, counters, Inv, TypeOK, Stages, Truth
<1>1. ASSUME StartWorker \/ Skip PROVE Truth'
  <2>1. next \in Recipients /\ worker[next] = "none"
    BY <1>1, TotalAssumption DEF StartWorker, Skip, Recipients
  <2> QED
    BY <1>1, <2>1 DEF StartWorker, Skip
<1>2. CASE StartJob \/ Expire \/ EndLoop \/ WaitReturns \/ Settle \/ SettleFails
  BY <1>2 DEF StartJob, Expire, EndLoop, WaitReturns, Settle, SettleFails
<1>3. CASE PodStep
  BY <1>3 DEF PodStep, Stop, ServerStops, ServerOverruns, DrainReturns, DrainTimesOut, Exit
<1>4. ASSUME NEW r \in Recipients, WorkerStep(r) PROVE Truth'
  <2>1. CASE Take(r)
    BY <2>1 DEF Take
  <2>2. ASSUME NEW a \in Answers, Answer(r, a) PROVE Truth'
    BY <2>2 DEF Answer
  <2>3. CASE Count(r) \/ ReleaseSlot(r) \/ WorkerDone(r)
    BY <2>3 DEF Count, ReleaseSlot, WorkerDone
  <2> QED
    BY <1>4, <2>1, <2>2, <2>3 DEF WorkerStep
<1>5. CASE UNCHANGED vars
  BY <1>5 DEF vars
<1> QED
  BY <1>1, <1>2, <1>3, <1>4, <1>5 DEF Next, JobStep

(* The counters move only while some worker has not been counted, or the   *)
(* loop still has a recipient to skip.                                     *)
LEMMA CountersMove ==
  ASSUME Inv, [Next]_vars, counters' # counters
  PROVE  job \notin {"returned", "ended"}
<1> USE DEF podVars, loopVars, poolVars, counters
<1>1. CASE Skip
  BY <1>1 DEF Skip
<1>2. ASSUME NEW r \in Recipients, Count(r) PROVE job \notin {"returned", "ended"}
  BY <1>2 DEF Count, Inv, Stages
<1>3. CASE JobStep /\ ~Skip
  BY <1>3 DEF JobStep, StartJob, Expire, StartWorker, EndLoop, WaitReturns, Settle, SettleFails
<1>4. CASE PodStep
  BY <1>4 DEF PodStep, Stop, ServerStops, ServerOverruns, DrainReturns, DrainTimesOut, Exit
<1>5. ASSUME NEW r \in Recipients, WorkerStep(r), ~Count(r)
      PROVE  FALSE
  BY <1>5 DEF WorkerStep, Take, Answer, ReleaseSlot, WorkerDone
<1>6. CASE UNCHANGED vars
  BY <1>6 DEF vars
<1> QED
  BY <1>1, <1>2, <1>3, <1>4, <1>5, <1>6 DEF Next

LEMMA StepDecision ==
  ASSUME Inv, [Next]_vars
  PROVE  Decision'
<1> USE DEF podVars, loopVars, poolVars
<1>1. CASE row' = row /\ (job = "ended" => job' = "ended")
  BY <1>1, CountersMove DEF Inv, Decision, AllRejected, counters
<1>2. CASE Settle
  BY <1>2 DEF Settle, Inv, Decision, AllRejected, counters
<1>3. CASE JobStep /\ ~Settle
  BY <1>1, <1>3 DEF JobStep, StartJob, Expire, StartWorker, Skip, EndLoop, WaitReturns,
     SettleFails
<1>4. CASE PodStep
  BY <1>1, <1>4 DEF PodStep, Stop, ServerStops, ServerOverruns, DrainReturns, DrainTimesOut, Exit
<1>5. ASSUME NEW r \in Recipients, WorkerStep(r) PROVE Decision'
  BY <1>1, <1>5 DEF WorkerStep, Take, Answer, Count, ReleaseSlot, WorkerDone
<1>6. CASE UNCHANGED vars
  BY <1>1, <1>6 DEF vars
<1> QED
  BY <1>2, <1>3, <1>4, <1>5, <1>6 DEF Next

LEMMA StepDraining ==
  ASSUME Inv, [Next]_vars
  PROVE  Draining'
<1> USE DEF podVars, loopVars, poolVars, Inv, TypeOK, Draining, DrainIsRaceFree
<1>1. CASE JobStep
  BY <1>1 DEF JobStep, StartJob, Expire, StartWorker, Skip, EndLoop, WaitReturns, Settle,
     SettleFails
<1>2. CASE PodStep
  <2>1. CASE ServerOverruns
    <3>1. ~overran' => job # "request"
      BY <2>1 DEF ServerOverruns
    <3>2. ~drained
      BY <2>1 DEF ServerOverruns
    <3> QED
      BY <2>1, <3>1, <3>2 DEF ServerOverruns
  <2>2. CASE DrainReturns
    BY <2>2 DEF DrainReturns
  <2> QED
    BY <1>2, <2>1, <2>2 DEF PodStep, Stop, ServerStops, DrainTimesOut, Exit
<1>3. ASSUME NEW r \in Recipients, WorkerStep(r) PROVE Draining'
  BY <1>3 DEF WorkerStep, Take, Answer, Count, ReleaseSlot, WorkerDone
<1>4. CASE UNCHANGED vars
  BY <1>4 DEF vars
<1> QED
  BY <1>1, <1>2, <1>3, <1>4 DEF Next

(* The invariant holds in every state of every run.                        *)
THEOREM SpecInv == Spec => []Inv
<1>1. Inv /\ [Next]_vars => Inv'
  BY StepFigures, StepStages, StepTruth, StepDecision, StepDraining DEF Inv
<1> QED
  BY <1>1, InitInv, PTL DEF Spec

-----------------------------------------------------------------------------
(* The results.                                                            *)

(* Every variable keeps its type: no semaphore or WaitGroup goes below     *)
(* zero or beyond what its channel or the audience can hold.               *)
THEOREM TypeCorrect == Spec => []TypeOK
  BY SpecInv, PTL DEF Inv

(* fanOut's concurrency limit, for every limit and audience.               *)
THEOREM InFlightBoundedHolds == Spec => []InFlightBounded
<1>1. Inv => InFlightBounded
  BY ConcurrencyAssumption DEF Inv, TypeOK, Figures, InFlightBounded
<1> QED
  BY <1>1, SpecInv, PTL

(* Three disjoint sets that make up the audience.                          *)
LEMMA ThreeParts ==
  ASSUME NEW A \in SUBSET Recipients, NEW B \in SUBSET Recipients, NEW C \in SUBSET Recipients,
         A \cap B = {}, A \cap C = {}, B \cap C = {}, A \cup B \cup C = Recipients
  PROVE  Cardinality(A) + Cardinality(B) + Cardinality(C) = Total
<1>1. IsFiniteSet(A) /\ IsFiniteSet(B) /\ IsFiniteSet(C) /\ IsFiniteSet(A \cup B)
  BY Countable
<1>2. Cardinality(A \cup B) = Cardinality(A) + Cardinality(B)
  BY <1>1, Countable, FS_EmptySet, FS_Union, TotalAssumption
<1>3. Cardinality((A \cup B) \cup C) = Cardinality(A \cup B) + Cardinality(C)
  <2> DEFINE D == A \cup B
  <2>1. D \cap C = {} /\ D \in SUBSET Recipients /\ IsFiniteSet(D)
    BY <1>1
  <2>2. Cardinality(D) \in Nat /\ Cardinality(C) \in Nat
    BY <2>1, Countable, TotalAssumption
  <2> HIDE DEF D
  <2>3. Cardinality(D \cup C) = Cardinality(D) + Cardinality(C)
    <3>1. Cardinality(D \cup C) = Cardinality(D) + Cardinality(C) - Cardinality(D \cap C)
      BY <1>1, <2>1, FS_Union
    <3>2. Cardinality(D \cap C) = 0
      BY <2>1, FS_EmptySet
    <3> QED
      BY <2>2, <3>1, <3>2
  <2> QED
    BY <2>3 DEF D
<1>4. Cardinality(Recipients) = Total
  BY FS_Interval, TotalAssumption DEF Recipients
<1> QED
  BY <1>2, <1>3, <1>4

(* fanOut counts every recipient exactly once, for every audience.         *)
THEOREM LedgerAddsUpHolds == Spec => []LedgerAddsUp
<1>1. ASSUME Inv, job \in {"returned", "ended"}
      PROVE  sent + failed + unknown = Total
  <2> DEFINE A == Counted("sent")
             B == Counted("failed") \cup Skipped
             C == Counted("unknown")
  <2>1. A \in SUBSET Recipients /\ B \in SUBSET Recipients /\ C \in SUBSET Recipients
    BY Sets
  <2>2. A \cap B = {} /\ A \cap C = {} /\ B \cap C = {}
    BY DEF Counted, Skipped
  <2>3. A \cup B \cup C = Recipients
    BY <1>1, VerdictType DEF Inv, Stages, Counted, Skipped
  <2>4. Cardinality(A) + Cardinality(B) + Cardinality(C) = Total
    BY <2>1, <2>2, <2>3, ThreeParts
  <2> QED
    BY <1>1, <2>4 DEF Inv, Figures
<1>2. Inv => LedgerAddsUp
  BY <1>1 DEF Inv, Figures, LedgerAddsUp
<1> QED
  BY <1>2, SpecInv, PTL

(* runSendJob decides on final figures.                                    *)
THEOREM CountsFinalHolds == Spec => CountsFinal
<1>1. Inv /\ [Next]_vars => (counters' # counters => job \notin {"returned", "ended"})
  BY CountersMove
<1> QED
  BY <1>1, SpecInv, PTL DEF Spec, CountsFinal

(* Counters of zero mean that every recipient was rejected or skipped.     *)
LEMMA RejectedMeansAll ==
  ASSUME Inv, AllRejected, NEW r \in Recipients
  PROVE  r \notin Counted("sent") /\ r \notin Counted("unknown")
  BY Sets, Countable DEF Inv, Figures, AllRejected

(* A revert never follows a message the provider took, but for those the   *)
(* NATS client reports as rejected without knowing.                        *)
THEOREM RevertIsSafeHolds == Spec => []RevertIsSafe
<1>1. ASSUME Inv, row = "draft", NEW r \in taken PROVE answer[r] = "garbled"
  <2>1. r \in Recipients /\ worker[r] = "done"
    BY <1>1 DEF Inv, TypeOK, Stages, Truth, Decision
  <2>2. Verdict(answer[r]) \notin {"sent", "unknown"}
    BY <1>1, <2>1, RejectedMeansAll DEF Inv, Decision, Counted
  <2>3. answer[r] \in {"accepted", "rejected", "silent", "garbled"}
    BY <1>1, <2>1 DEF Inv, TypeOK, Stages, Answers
  <2> QED
    BY <1>1, <2>1, <2>2, <2>3 DEF Inv, Truth, Verdict
<1>2. Inv => RevertIsSafe
  BY <1>1 DEF RevertIsSafe
<1> QED
  BY <1>2, SpecInv, PTL

(* With SendGrid a revert means that the provider has taken no message.    *)
THEOREM SendGridRevertIsSafe ==
  ASSUME ~OverNats PROVE Spec => [](row = "draft" => taken = {})
<1>1. TypeOK /\ RevertIsSafe => (row = "draft" => taken = {})
  BY DEF TypeOK, RevertIsSafe, Answers
<1> QED
  BY <1>1, TypeCorrect, RevertIsSafeHolds, PTL

(* A drain that succeeds after a clean server stop leaves no job.          *)
THEOREM DrainIsRaceFreeHolds == Spec => []DrainIsRaceFree
  BY SpecInv, PTL DEF Inv, Draining

-----------------------------------------------------------------------------
(* The pool implements the lifecycle's fan-out.                            *)

(* A step that neither counts, skips nor settles leaves the verdicts.      *)
LEMMA MailKept ==
  ASSUME Inv, [Next]_vars, ~Skip, \A r \in Recipients : ~Count(r)
  PROVE  Mail' = Mail
<1> USE DEF podVars, loopVars, poolVars, counters
<1>1. CASE UNCHANGED <<worker, answer>>
  BY <1>1 DEF Mail
<1>2. CASE StartWorker
  <2>1. next \in Recipients /\ worker[next] = "none"
    BY <1>2, TotalAssumption DEF StartWorker, Inv, TypeOK, Stages, Recipients
  <2> QED
    BY <1>2, <2>1 DEF StartWorker, Mail, Inv, TypeOK
<1>3. ASSUME NEW r \in Recipients, NEW a \in Answers, Answer(r, a) PROVE Mail' = Mail
  BY <1>3 DEF Answer, Mail, Inv, TypeOK
<1>4. ASSUME NEW r \in Recipients, ReleaseSlot(r) \/ WorkerDone(r) PROVE Mail' = Mail
  BY <1>4 DEF ReleaseSlot, WorkerDone, Mail, Inv, TypeOK
<1>5. CASE JobStep
  BY <1>1, <1>2, <1>5 DEF JobStep, StartJob, Expire, EndLoop, WaitReturns, Settle, SettleFails
<1>6. CASE PodStep
  BY <1>1, <1>6 DEF PodStep, Stop, ServerStops, ServerOverruns, DrainReturns, DrainTimesOut, Exit
<1>7. ASSUME NEW r \in Recipients, WorkerStep(r) PROVE Mail' = Mail
  BY <1>1, <1>3, <1>4, <1>7 DEF WorkerStep, Take
<1>8. CASE UNCHANGED vars
  BY <1>1, <1>8 DEF vars
<1> QED
  BY <1>5, <1>6, <1>7, <1>8 DEF Next

LEMMA SkipDispatches ==
  ASSUME Inv, Skip
  PROVE  Promise!Dispatch(next, "failed") /\ next \in Recipients
<1>1. next \in Recipients /\ worker[next] = "none"
  BY TotalAssumption DEF Skip, Inv, TypeOK, Stages, Recipients
<1>2. Mail' = [Mail EXCEPT ![next] = "failed"] /\ Mail[next] = "todo"
  BY <1>1 DEF Skip, Mail, Inv, TypeOK
<1> QED
  BY <1>1, <1>2 DEF Skip, Promise!Dispatch, Inv, Decision

LEMMA CountDispatches ==
  ASSUME Inv, NEW r \in Recipients, Count(r)
  PROVE  Promise!Dispatch(r, Verdict(answer[r]))
<1>1. Mail' = [Mail EXCEPT ![r] = Verdict(answer[r])] /\ Mail[r] = "todo"
  BY DEF Count, Mail, Inv, TypeOK
<1>2. row = "sending" /\ row' = row
  BY DEF Count, Inv, Decision, Stages
<1> QED
  BY <1>1, <1>2 DEF Promise!Dispatch

(* What the counters say of the verdicts.                                  *)
LEMMA SettleSettles ==
  ASSUME Inv, Settle
  PROVE  Promise!Settle
<1>1. \A r \in Recipients : worker[r] \in {"done", "skipped"}
  BY DEF Settle, Inv, Stages
<1>2. \A r \in Recipients : Mail[r] \in {"sent", "failed", "unknown"}
  BY <1>1, VerdictType DEF Mail
<1>3. AllRejected <=> \A r \in Recipients : Mail[r] = "failed"
  <2>1. Counted("sent") = {r \in Recipients : Mail[r] = "sent"}
    BY <1>1 DEF Counted, Mail
  <2>2. Counted("unknown") = {r \in Recipients : Mail[r] = "unknown"}
    BY <1>1 DEF Counted, Mail
  <2>3. AllRejected <=> Counted("sent") = {} /\ Counted("unknown") = {}
    BY Sets, Countable DEF Inv, Figures, AllRejected
  <2> QED
    BY <1>2, <2>1, <2>2, <2>3
<1>4. Mail' = Mail
  BY DEF Settle, poolVars, Mail
<1>5. row = "sending"
  BY DEF Settle, Inv, Decision
<1> QED
  BY <1>2, <1>3, <1>4, <1>5 DEF Settle, Promise!Settle

LEMMA RowKept ==
  ASSUME [Next]_vars, ~Settle
  PROVE  row' = row
<1> USE DEF podVars, loopVars, poolVars, counters
<1>1. CASE JobStep
  BY <1>1 DEF JobStep, StartJob, Expire, StartWorker, Skip, EndLoop, WaitReturns, SettleFails
<1>2. CASE PodStep
  BY <1>2 DEF PodStep, Stop, ServerStops, ServerOverruns, DrainReturns, DrainTimesOut, Exit
<1>3. ASSUME NEW r \in Recipients, WorkerStep(r) PROVE row' = row
  BY <1>3 DEF WorkerStep, Take, Answer, Count, ReleaseSlot, WorkerDone
<1> QED
  BY <1>1, <1>2, <1>3 DEF Next, vars

(* The worker pool, with its semaphore, deadline and lost answers, is the  *)
(* fan-out SendLifecycle assumes, for every audience and concurrency.      *)
THEOREM FanOutImplementsPromise == Spec => ImplementsFanOut
<1>1. Init => Promise!Init
  BY DEF Init, Promise!Init, Mail
<1>2. ASSUME Inv, [Next]_vars PROVE [Promise!Next]_(Promise!vars)
  <2>1. CASE Skip
    BY <1>2, <2>1, SkipDispatches DEF Promise!Next
  <2>2. ASSUME NEW r \in Recipients, Count(r) PROVE Promise!Next
    BY <1>2, <2>2, CountDispatches, VerdictType DEF Promise!Next
  <2>3. CASE Settle
    BY <1>2, <2>3, SettleSettles DEF Promise!Next
  <2>4. CASE ~Skip /\ ~Settle /\ \A r \in Recipients : ~Count(r)
    BY <1>2, <2>4, MailKept, RowKept DEF Promise!vars
  <2> QED
    BY <2>1, <2>2, <2>3, <2>4
<1> QED
  BY <1>1, <1>2, SpecInv, PTL DEF Spec, ImplementsFanOut, Promise!Spec

-----------------------------------------------------------------------------
(* The job gets on.  JobEnds needs an induction on what is left to do,     *)
(* which is TLC's; each step of that induction is proved here.             *)

(* What a job in this state and a worker in that one have yet to do.       *)
StagesLeft ==
    CASE job = "request" -> 4 [] job = "looping" -> 3 [] job = "waiting" -> 2
      [] job = "returned" -> 1 [] OTHER -> 0

StepsLeft(r) ==
    CASE worker[r] = "none" -> 5 [] worker[r] = "calling" -> 4 [] worker[r] = "answered" -> 3
      [] worker[r] = "counted" -> 2 [] worker[r] = "released" -> 1 [] OTHER -> 0

(* The job stands at 0, the worker of recipient r at r.                    *)
Owed(i) == IF i = 0 THEN StagesLeft ELSE StepsLeft(i)

Left == {p \in (0..Total) \X (1..5) : p[2] <= Owed(p[1])}

Over == job = "ended" \/ pod = "gone"

(* The fairness of FairSpec with every ENABLED written out.  It owes       *)
(* nothing to the deadline, to the provider or to the shutdown.            *)
WorkerGoesOn(r) ==
    /\ []<>~(Alive /\ worker[r] = "calling") \/ []<><<Answer(r, "silent")>>_vars
    /\ []<>~(Alive /\ worker[r] = "answered") \/ []<><<Count(r)>>_vars
    /\ []<>~(Alive /\ worker[r] = "counted") \/ []<><<ReleaseSlot(r)>>_vars
    /\ []<>~(Alive /\ worker[r] = "released") \/ []<><<WorkerDone(r)>>_vars

Starting   == Alive /\ job = "request"
Placing    == Alive /\ job = "looping" /\ next <= Total /\ Room
Exhausted  == Alive /\ job = "looping" /\ next > Total
AllBack    == Alive /\ job = "waiting" /\ wg = 0
Deciding   == Alive /\ job = "returned"

LoopGoesOn ==
    /\ []<>~Starting \/ []<><<StartJob>>_vars
    /\ []<>~Placing \/ []<><<StartWorker>>_vars
    /\ []<>~Exhausted \/ []<><<EndLoop>>_vars
    /\ []<>~AllBack \/ []<><<WaitReturns>>_vars
    /\ []<>~Deciding \/ []<><<Settle \/ SettleFails>>_vars

JobGoesOn == LoopGoesOn /\ \A r \in Recipients : WorkerGoesOn(r)

Busy(r) == worker[r] \in {"calling", "answered", "counted", "released"}

(* Nobody waits for nobody: a full semaphore is full of workers that can   *)
(* go on, and so is a WaitGroup that is not at zero.                       *)
LEMMA SomebodyCanGoOn ==
  ASSUME Inv, ~Over
  PROVE  \/ Starting \/ Placing \/ Exhausted \/ AllBack \/ Deciding
         \/ \E r \in Recipients : Busy(r)
<1>1. CASE job = "looping" /\ next <= Total /\ ~Room
  <2>1. sem # 0
    BY <1>1, ConcurrencyAssumption DEF Room, Inv, TypeOK
  <2>2. InFlight # {}
    BY <2>1, Sets, Countable DEF Inv, Figures
  <2> QED
    BY <2>2 DEF InFlight, Busy
<1>2. CASE job = "waiting" /\ wg # 0
  <2>1. Unfinished # {}
    BY <1>2, Sets, Countable DEF Inv, Figures
  <2> QED
    BY <2>1 DEF Unfinished, InFlight, Busy
<1>3. job \in {"request", "looping", "waiting", "returned"} /\ Alive
  BY DEF Over, Alive, Inv, TypeOK
<1>4. next <= Total \/ next > Total
  BY TotalAssumption DEF Inv, TypeOK
<1> QED
  BY <1>1, <1>2, <1>3, <1>4 DEF Starting, Placing, Exhausted, AllBack, Deciding

LEMMA LeftIsFinite == IsFiniteSet(Left)
<1>1. IsFiniteSet(0..Total) /\ IsFiniteSet(1..5)
  <2>1. 0 \in Int /\ 1 \in Int /\ 5 \in Int /\ Total \in Int
    BY TotalAssumption
  <2> QED
    BY <2>1, FS_Interval
<1>2. IsFiniteSet((0..Total) \X (1..5))
  BY <1>1, FS_Product
<1>3. Left \subseteq (0..Total) \X (1..5)
  BY DEF Left
<1> QED
  BY <1>2, <1>3, FS_Subset

LEMMA OwedType == \A i : Owed(i) \in 0..5 /\ Owed(i)' \in 0..5
  BY DEF Owed, StagesLeft, StepsLeft

(* One of them has less to do, the others as much as before.               *)
LEMMA LessIsLess ==
  ASSUME NEW n \in 0..Total, Owed(n)' < Owed(n),
         \A i \in 0..Total : i # n => Owed(i)' = Owed(i)
  PROVE  Left' \subseteq Left /\ Left' # Left
<1>1. \A i \in 0..Total : Owed(i)' \in 0..5 /\ Owed(i) \in 0..5
  BY OwedType
<1>2. \A i \in 0..Total : Owed(i)' <= Owed(i)
  BY <1>1
<1>3. Left' = {p \in (0..Total) \X (1..5) : p[2] <= Owed(p[1])'}
  BY DEF Left
<1>4. Left' \subseteq Left
  BY <1>1, <1>2, <1>3 DEF Left
<1>5. <<n, Owed(n)>> \in Left /\ <<n, Owed(n)>> \notin Left'
  BY <1>1, <1>3 DEF Left
<1> QED
  BY <1>4, <1>5

Shorter == Left' \subseteq Left /\ Left' # Left

LEMMA JobShortens ==
  ASSUME worker' = worker, StagesLeft' < StagesLeft
  PROVE  Shorter
<1>1. Owed(0)' < Owed(0) /\ \A i \in 0..Total : i # 0 => Owed(i)' = Owed(i)
  BY DEF Owed, StepsLeft
<1> QED
  BY <1>1, LessIsLess, TotalAssumption DEF Shorter

LEMMA WorkerShortens ==
  ASSUME Inv, NEW r \in Recipients, NEW w,
         job' = job, worker' = [worker EXCEPT ![r] = w], StepsLeft(r)' < StepsLeft(r)
  PROVE  Shorter
<1>1. r \in 0..Total /\ r # 0
  BY TotalAssumption DEF Recipients
<1>2. Owed(r)' < Owed(r)
  BY <1>1 DEF Owed
<1>3. \A i \in 0..Total : i # r => Owed(i)' = Owed(i)
  BY <1>1, TotalAssumption DEF Owed, StagesLeft, StepsLeft, Inv, TypeOK, Recipients
<1> QED
  BY <1>1, <1>2, <1>3, LessIsLess DEF Shorter

(* Each step of the loop and of a worker leaves less to do.                *)
LEMMA LoopShortens ==
  ASSUME Inv, StartJob \/ StartWorker \/ Skip \/ EndLoop \/ WaitReturns \/ Settle \/ SettleFails
  PROVE  Shorter
<1>1. CASE StartWorker \/ Skip
  <2>1. next \in Recipients /\ worker[next] = "none"
    BY <1>1, TotalAssumption DEF StartWorker, Skip, Inv, TypeOK, Stages, Recipients
  <2>2. PICK w \in {"calling", "skipped"} : worker' = [worker EXCEPT ![next] = w]
    BY <1>1 DEF StartWorker, Skip
  <2>3. PICK r \in Recipients : r = next
    BY <2>1
  <2>4. worker'[r] = w /\ job' = job
    BY <1>1, <2>2, <2>3 DEF StartWorker, Skip, Inv, TypeOK
  <2>5. StepsLeft(r)' < StepsLeft(r)
    BY <2>1, <2>3, <2>4 DEF StepsLeft
  <2> QED
    BY <2>2, <2>3, <2>4, <2>5, WorkerShortens
<1>2. CASE StartJob \/ EndLoop \/ WaitReturns \/ Settle \/ SettleFails
  <2>1. worker' = worker /\ StagesLeft' < StagesLeft
    BY <1>2 DEF StartJob, EndLoop, WaitReturns, Settle, SettleFails, poolVars, StagesLeft
  <2> QED
    BY <2>1, JobShortens
<1> QED
  BY <1>1, <1>2

LEMMA WorkerStepShortens ==
  ASSUME Inv, NEW r \in Recipients,
         (\E a \in Answers : Answer(r, a)) \/ Count(r) \/ ReleaseSlot(r) \/ WorkerDone(r)
  PROVE  Shorter
<1>1. PICK w \in {"answered", "counted", "released", "done"} :
         /\ worker' = [worker EXCEPT ![r] = w]
         /\ w = "answered" => worker[r] = "calling"
         /\ w = "counted" => worker[r] = "answered"
         /\ w = "released" => worker[r] = "counted"
         /\ w = "done" => worker[r] = "released"
  BY DEF Answer, Count, ReleaseSlot, WorkerDone
<1>2. worker'[r] = w
  BY <1>1 DEF Inv, TypeOK
<1>3. job' = job
  BY DEF Answer, Count, ReleaseSlot, WorkerDone, loopVars
<1>4. StepsLeft(r)' < StepsLeft(r)
  BY <1>1, <1>2 DEF StepsLeft
<1> QED
  BY <1>1, <1>3, <1>4, WorkerShortens

(* Whatever does not leave less to do leaves the job where it is.          *)
Where == <<job, next, sem, wg, worker>>

LEMMA StepShortensOrRests ==
  ASSUME Inv, [Next]_vars
  PROVE  Shorter \/ Where' = Where
<1>1. CASE JobStep
  BY <1>1, LoopShortens DEF JobStep, Expire, loopVars, poolVars, Where
<1>2. CASE PodStep
  BY <1>2 DEF PodStep, Stop, ServerStops, ServerOverruns, DrainReturns, DrainTimesOut, Exit,
     loopVars, poolVars, Where
<1>3. ASSUME NEW r \in Recipients, WorkerStep(r) PROVE Shorter \/ Where' = Where
  BY <1>3, WorkerStepShortens DEF WorkerStep, Take, loopVars, poolVars, Where
<1>4. CASE UNCHANGED vars
  BY <1>4 DEF vars, loopVars, poolVars, Where
<1> QED
  BY <1>1, <1>2, <1>3, <1>4 DEF Next

Still(L) == Left = L /\ ~Over
Less(L) == Left \subseteq L /\ Left # L

LEMMA StillOrLess ==
  ASSUME Inv, NEW L, Still(L), [Next]_vars
  PROVE  \/ Still(L)' /\ Where' = Where /\ Alive'
         \/ Less(L)' \/ Over'
<1>1. Where' = Where => Left' = Left
  BY DEF Where, Left, Owed, StagesLeft, StepsLeft
<1> QED
  BY <1>1, StepShortensOrRests DEF Still, Less, Shorter, Over, Alive

LEMMA LoopMovesOn ==
  ASSUME NEW L
  PROVE  []Inv /\ [][Next]_vars /\ LoopGoesOn =>
           [](Still(L) /\ (Starting \/ Placing \/ Exhausted \/ AllBack \/ Deciding)
                => <>(Less(L) \/ Over))
<1>1. Inv /\ Still(L) /\ [Next]_vars => Still(L)' \/ Less(L)' \/ Over'
  BY StillOrLess
<1>2. Inv /\ Still(L) /\ [Next]_vars /\ Still(L)' =>
        /\ Starting => Starting'
        /\ Placing => Placing'
        /\ Exhausted => Exhausted'
        /\ AllBack => AllBack'
        /\ Deciding => Deciding'
  <2>1. ASSUME Inv, Still(L), [Next]_vars, Still(L)' PROVE Where' = Where /\ Alive'
    BY <2>1, StillOrLess DEF Still, Less, Over
  <2> QED
    BY <2>1 DEF Where, Starting, Placing, Room, Exhausted, AllBack, Deciding
<1>3. ASSUME Inv, Still(L),
             \/ <<StartJob>>_vars \/ <<StartWorker>>_vars \/ <<EndLoop>>_vars
             \/ <<WaitReturns>>_vars \/ <<Settle \/ SettleFails>>_vars
      PROVE  ~Still(L)'
  BY <1>3, LoopShortens DEF Shorter, Still
<1> QED
  BY <1>1, <1>2, <1>3, PTL DEF LoopGoesOn

LEMMA WorkerMovesOn ==
  ASSUME NEW L, NEW r \in Recipients
  PROVE  []Inv /\ [][Next]_vars /\ WorkerGoesOn(r) =>
           [](Still(L) /\ Busy(r) => <>(Less(L) \/ Over))
<1> DEFINE At(w) == Alive /\ worker[r] = w
<1>1. Inv /\ Still(L) /\ [Next]_vars => Still(L)' \/ Less(L)' \/ Over'
  BY StillOrLess
<1>2. Inv /\ Still(L) /\ [Next]_vars /\ Still(L)' =>
        /\ At("calling") => At("calling")'
        /\ At("answered") => At("answered")'
        /\ At("counted") => At("counted")'
        /\ At("released") => At("released")'
  <2>1. ASSUME Inv, Still(L), [Next]_vars, Still(L)' PROVE Where' = Where /\ Alive'
    BY <2>1, StillOrLess DEF Still, Less, Over
  <2> QED
    BY <2>1 DEF Where
<1>3. ASSUME Inv, Still(L),
             \/ <<Answer(r, "silent")>>_vars \/ <<Count(r)>>_vars
             \/ <<ReleaseSlot(r)>>_vars \/ <<WorkerDone(r)>>_vars
      PROVE  ~Still(L)'
  <2>1. "silent" \in Answers
    BY DEF Answers
  <2> QED
    BY <1>3, <2>1, WorkerStepShortens DEF Shorter, Still
<1>4. Still(L) /\ Busy(r) => At("calling") \/ At("answered") \/ At("counted") \/ At("released")
  BY DEF Busy, Still, Over, Alive
<1>5. WorkerGoesOn(r) =>
        /\ []<>~At("calling") \/ []<><<Answer(r, "silent")>>_vars
        /\ []<>~At("answered") \/ []<><<Count(r)>>_vars
        /\ []<>~At("counted") \/ []<><<ReleaseSlot(r)>>_vars
        /\ []<>~At("released") \/ []<><<WorkerDone(r)>>_vars
  BY DEF WorkerGoesOn
<1> HIDE DEF At
<1> QED
  BY <1>1, <1>2, <1>3, <1>4, <1>5, PTL

(* Whatever a running job has left to do, it has less left some time       *)
(* later, or it has ended, or its pod is gone: no recipient, no answer, no *)
(* full semaphore and no shutdown holds it up for ever.  As what is left   *)
(* is a finite set (LeftIsFinite), that can happen finitely often only.    *)
THEOREM JobGetsOn ==
  Spec /\ JobGoesOn => \A L : (Left = L /\ ~Over) ~> (Left \subseteq L /\ Left # L) \/ Over
<1> SUFFICES ASSUME NEW L
             PROVE  Spec /\ JobGoesOn => (Still(L) ~> Less(L) \/ Over)
  BY DEF Still, Less
<1>1. []Inv /\ [][Next]_vars /\ (\A r \in Recipients : WorkerGoesOn(r)) =>
        \A r \in Recipients : [](Still(L) /\ Busy(r) => <>(Less(L) \/ Over))
  BY WorkerMovesOn
<1>2. (\A r \in Recipients : [](Still(L) /\ Busy(r) => <>(Less(L) \/ Over))) =>
        [](\A r \in Recipients : Still(L) /\ Busy(r) => <>(Less(L) \/ Over))
  OBVIOUS
<1>3. (\A r \in Recipients : Still(L) /\ Busy(r) => <>(Less(L) \/ Over)) =>
        (Still(L) /\ (\E r \in Recipients : Busy(r)) => <>(Less(L) \/ Over))
  OBVIOUS
<1>4. Inv /\ Still(L) =>
        \/ Starting \/ Placing \/ Exhausted \/ AllBack \/ Deciding
        \/ \E r \in Recipients : Busy(r)
  BY SomebodyCanGoOn DEF Still
<1> QED
  BY <1>1, <1>2, <1>3, <1>4, LoopMovesOn, SpecInv, PTL DEF Spec, JobGoesOn
=============================================================================
