------------------------------ MODULE SendJob ------------------------------
(***************************************************************************)
(* One accepted send inside the pod that accepted it: the detached job,    *)
(* fanOut's loop and its workers, the provider client's classification of  *)
(* answers, the job's deadline, and the pod's shutdown (or death) at any   *)
(* point of all that.  It starts where the request's MarkSending has       *)
(* returned, so the row is in sending; what else may happen to the row is  *)
(* SendLifecycle's subject.                                                *)
(*                                                                         *)
(* The goroutines are the request, the job's loop, one worker per          *)
(* recipient that got a slot, and the main goroutine that shuts the pod    *)
(* down.  A step is what a goroutine does between two points where another *)
(* can matter: channel operations, WaitGroup operations, the mutex.        *)
(***************************************************************************)
EXTENDS Integers, FiniteSets

CONSTANTS
    Total,         \* recipients of the send; an empty audience starts no job
    Concurrency,   \* capacity of sem: SEND_CONCURRENCY
    OverNats       \* the provider is email-service, reached over NATS

ASSUME TotalAssumption == Total \in Nat \ {0}
ASSUME ConcurrencyAssumption == Concurrency \in Nat \ {0}
ASSUME OverNatsAssumption == OverNats \in BOOLEAN

VARIABLES
    pod,       \* main: up, stopping, draining, closing, gone
    overran,   \* srv.Shutdown gave up on a request still being served
    drained,   \* Drain returned true
    jobs,      \* counter of the orchestrator's WaitGroup
    job,       \* the request, then its job
    expired,   \* the job's context is done
    next,      \* the recipient the loop is at
    sem, wg,   \* messages in the channel; counter of fanOut's WaitGroup
    worker,    \* where each recipient's worker is
    answer,    \* what SendEmail made of the provider's answer
    sent, failed, unknown,
    row,       \* the newsletter's status as this job leaves it
    taken      \* recipients whose message the provider took

podVars  == <<pod, overran, drained>>
loopVars == <<job, jobs, next>>
poolVars == <<sem, wg, worker>>
counters == <<sent, failed, unknown>>
vars == <<podVars, loopVars, expired, poolVars, answer, counters, row, taken>>

Recipients == 1..Total

(* What SendEmail can see of one message.  accepted: 200, 202; an email_id *)
(* or an empty reply.  rejected: a 4xx, a validation before the post; an   *)
(* error reply, no responders.  silent: a 5xx, a transport error, a        *)
(* timeout, a done context.  garbled, only over NATS: a reply that cannot  *)
(* be parsed, or a connection closed after the request was published.      *)
Answers == {"accepted", "rejected", "silent"}
              \cup (IF OverNats THEN {"garbled"} ELSE {})

TypeOK ==
    /\ pod \in {"up", "stopping", "draining", "closing", "gone"}
    /\ overran \in BOOLEAN
    /\ drained \in BOOLEAN
    /\ jobs \in 0..1
    /\ job \in {"request", "looping", "waiting", "returned", "ended"}
    /\ expired \in BOOLEAN
    /\ next \in 1..(Total + 1)
    /\ sem \in 0..Concurrency
    /\ wg \in 0..Total
    /\ worker \in [Recipients -> {"none", "calling", "answered", "counted",
                                  "released", "done", "skipped"}]
    /\ answer \in [Recipients -> Answers \cup {"none"}]
    /\ sent \in 0..Total
    /\ failed \in 0..Total
    /\ unknown \in 0..Total
    /\ row \in {"sending", "draft", "settled"}
    /\ taken \subseteq Recipients

Init ==
    /\ pod = "up" /\ overran = FALSE /\ drained = FALSE
    /\ jobs = 0 /\ job = "request"
    /\ expired = FALSE
    /\ next = 1
    /\ sem = 0 /\ wg = 0
    /\ worker = [r \in Recipients |-> "none"]
    /\ answer = [r \in Recipients |-> "none"]
    /\ sent = 0 /\ failed = 0 /\ unknown = 0
    /\ row = "sending"
    /\ taken = {}

Alive == pod # "gone"

-----------------------------------------------------------------------------
(* The request and the job's loop.                                         *)

(* jobs.Add(1), then the goroutine; the request can return.                *)
StartJobFault ==
    /\ Alive /\ job = "request"
    /\ job' = "looping"
    /\ UNCHANGED <<podVars, jobs, next, expired, poolVars, answer, counters, row, taken>>
StartJob ==
    /\ Alive /\ job = "request"
    /\ jobs' = jobs + 1
    /\ job' = "looping"
    /\ UNCHANGED <<podVars, next, expired, poolVars, answer, counters, row, taken>>

(* SEND_JOB_TIMEOUT has passed.                                            *)
Expire ==
    /\ Alive /\ jobs = 1 /\ ~expired
    /\ expired' = TRUE
    /\ UNCHANGED <<podVars, loopVars, poolVars, answer, counters, row, taken>>

RoomFault == sem <= Concurrency
Room == sem < Concurrency

(* The select takes the branch of the semaphore: wg.Add(1), a worker.      *)
(* Once the deadline has passed either ready branch may be chosen.         *)
StartWorker ==
    /\ Alive /\ job = "looping" /\ next <= Total
    /\ Room
    /\ sem' = sem + 1
    /\ wg' = wg + 1
    /\ worker' = [worker EXCEPT ![next] = "calling"]
    /\ next' = next + 1
    /\ UNCHANGED <<podVars, job, jobs, expired, answer, counters, row, taken>>

(* The select takes the branch of ctx.Done(): nobody is asked to send, the *)
(* recipient counts as failed.                                             *)
SkipFault ==
    /\ Alive /\ job = "looping" /\ next <= Total
    /\ expired
    /\ failed' = failed + 1
    /\ sem' = sem - 1
    /\ worker' = [worker EXCEPT ![next] = "skipped"]
    /\ next' = next + 1
    /\ UNCHANGED <<podVars, job, jobs, expired, wg, answer, sent, unknown, row, taken>>
Skip ==
    /\ Alive /\ job = "looping" /\ next <= Total
    /\ expired
    /\ failed' = failed + 1
    /\ worker' = [worker EXCEPT ![next] = "skipped"]
    /\ next' = next + 1
    /\ UNCHANGED <<podVars, job, jobs, expired, sem, wg, answer, sent, unknown, row, taken>>

EndLoop ==
    /\ Alive /\ job = "looping" /\ next > Total
    /\ job' = "waiting"
    /\ UNCHANGED <<podVars, jobs, next, expired, poolVars, answer, counters, row, taken>>

WaitReturnsFault ==
    /\ Alive /\ job = "waiting"
    /\ job' = "returned"
    /\ UNCHANGED <<podVars, jobs, next, expired, poolVars, answer, counters, row, taken>>
WaitReturns ==
    /\ Alive /\ job = "waiting"
    /\ wg = 0
    /\ job' = "returned"
    /\ UNCHANGED <<podVars, jobs, next, expired, poolVars, answer, counters, row, taken>>

-----------------------------------------------------------------------------
(* A worker and the provider.                                              *)

(* The provider takes a message: while the call is open, or after the      *)
(* client has given up on an answer.                                       *)
Take(r) ==
    /\ worker[r] = "calling" \/ answer[r] \in {"silent", "garbled"}
    /\ taken' = taken \cup {r}
    /\ UNCHANGED <<podVars, loopVars, expired, poolVars, answer, counters, row>>

Answer(r, a) ==
    /\ Alive /\ worker[r] = "calling"
    /\ a = "accepted" => r \in taken
    /\ a = "rejected" => r \notin taken
    /\ answer' = [answer EXCEPT ![r] = a]
    /\ worker' = [worker EXCEPT ![r] = "answered"]
    /\ UNCHANGED <<podVars, loopVars, expired, sem, wg, counters, row, taken>>

(* SendEmail marks an error as ambiguous or leaves it unmarked.            *)
Verdict(a) ==
    IF a = "accepted" THEN "sent" ELSE IF a = "silent" THEN "unknown" ELSE "failed"

(* Under mu.                                                               *)
CountFault(r) ==
    /\ Alive /\ worker[r] = "answered"
    /\ sent' = IF Verdict(answer[r]) = "sent" THEN sent + 1 ELSE sent
    /\ failed' = IF Verdict(answer[r]) # "sent" THEN failed + 1 ELSE failed
    /\ unknown' = IF Verdict(answer[r]) = "unknown" THEN unknown + 1 ELSE unknown
    /\ worker' = [worker EXCEPT ![r] = "counted"]
    /\ UNCHANGED <<podVars, loopVars, expired, sem, wg, answer, row, taken>>
Count(r) ==
    /\ Alive /\ worker[r] = "answered"
    /\ sent' = IF Verdict(answer[r]) = "sent" THEN sent + 1 ELSE sent
    /\ failed' = IF Verdict(answer[r]) = "failed" THEN failed + 1 ELSE failed
    /\ unknown' = IF Verdict(answer[r]) = "unknown" THEN unknown + 1 ELSE unknown
    /\ worker' = [worker EXCEPT ![r] = "counted"]
    /\ UNCHANGED <<podVars, loopVars, expired, sem, wg, answer, row, taken>>

(* The deferred calls, last one first: <-sem, then wg.Done().              *)
ReleaseSlotFault(r) ==
    /\ Alive /\ worker[r] = "counted"
    /\ answer[r] = "accepted"
    /\ sem' = sem - 1
    /\ worker' = [worker EXCEPT ![r] = "released"]
    /\ UNCHANGED <<podVars, loopVars, expired, wg, answer, counters, row, taken>>
ReleaseSlot(r) ==
    /\ Alive /\ worker[r] = "counted"
    /\ sem' = sem - 1
    /\ worker' = [worker EXCEPT ![r] = "released"]
    /\ UNCHANGED <<podVars, loopVars, expired, wg, answer, counters, row, taken>>

WorkerDone(r) ==
    /\ Alive /\ worker[r] = "released"
    /\ wg' = wg - 1
    /\ worker' = [worker EXCEPT ![r] = "done"]
    /\ UNCHANGED <<podVars, loopVars, expired, sem, answer, counters, row, taken>>

-----------------------------------------------------------------------------
(* The end of runSendJob.                                                  *)

AllRejectedFault == sent = 0
AllRejectedLooseFault == sent = 0 /\ failed > 0
AllRejected == sent = 0 /\ unknown = 0

(* RevertSending, or MarkSent or MarkScheduled; then jobs.Done().          *)
Settle ==
    /\ Alive /\ job = "returned"
    /\ row' = IF AllRejected THEN "draft" ELSE "settled"
    /\ job' = "ended"
    /\ jobs' = jobs - 1
    /\ UNCHANGED <<podVars, next, expired, poolVars, answer, counters, taken>>

(* The UPDATE fails: the database is away or already closed, persistTimeout *)
(* is over, or another actor changed the row.  The sweep has the row.      *)
SettleFails ==
    /\ Alive /\ job = "returned"
    /\ job' = "ended"
    /\ jobs' = jobs - 1
    /\ UNCHANGED <<podVars, next, expired, poolVars, answer, counters, row, taken>>

-----------------------------------------------------------------------------
(* The pod: main's srv.Shutdown, then the deferred Shutdown: Drain, and    *)
(* the NATS and database connections closed.                               *)

Stop ==
    /\ pod = "up"
    /\ pod' = "stopping"
    /\ UNCHANGED <<overran, drained, loopVars, expired, poolVars, answer, counters, row, taken>>

(* No request is being served any more.                                    *)
ServerStops ==
    /\ pod = "stopping" /\ job # "request"
    /\ pod' = "draining"
    /\ UNCHANGED <<overran, drained, loopVars, expired, poolVars, answer, counters, row, taken>>

(* gracefulShutdownSeconds are over: srv.Shutdown returns an error, which  *)
(* main returns, and the deferred Shutdown runs all the same.              *)
ServerOverruns ==
    /\ pod = "stopping"
    /\ pod' = "draining"
    /\ overran' = (job = "request")
    /\ UNCHANGED <<drained, loopVars, expired, poolVars, answer, counters, row, taken>>

(* jobs.Wait() returns, or drainTimeout is over.                           *)
DrainReturns ==
    /\ pod = "draining" /\ jobs = 0
    /\ drained' = TRUE
    /\ pod' = "closing"
    /\ UNCHANGED <<overran, loopVars, expired, poolVars, answer, counters, row, taken>>

DrainTimesOut ==
    /\ pod = "draining"
    /\ pod' = "closing"
    /\ UNCHANGED <<overran, drained, loopVars, expired, poolVars, answer, counters, row, taken>>

(* The process exits, or is killed, or crashes.                            *)
Exit ==
    /\ Alive
    /\ pod' = "gone"
    /\ UNCHANGED <<overran, drained, loopVars, expired, poolVars, answer, counters, row, taken>>

-----------------------------------------------------------------------------
JobStep ==
    \/ StartJob \/ Expire
    \/ StartWorker \/ Skip \/ EndLoop \/ WaitReturns
    \/ Settle \/ SettleFails

WorkerStep(r) ==
    \/ Take(r)
    \/ \E a \in Answers : Answer(r, a)
    \/ Count(r) \/ ReleaseSlot(r) \/ WorkerDone(r)

PodStep ==
    \/ Stop \/ ServerStops \/ ServerOverruns
    \/ DrainReturns \/ DrainTimesOut \/ Exit

Next == JobStep \/ PodStep \/ \E r \in Recipients : WorkerStep(r)

Spec == Init /\ [][Next]_vars

(* Goroutines are scheduled, every provider call has a timeout of its own  *)
(* and persistTimeout bounds the last UPDATE.  The provider owes nothing.  *)
Fairness ==
    /\ WF_vars(StartJob) /\ WF_vars(StartWorker) /\ WF_vars(Skip)
    /\ WF_vars(EndLoop) /\ WF_vars(WaitReturns)
    /\ WF_vars(Settle \/ SettleFails)
    /\ \A r \in Recipients :
          /\ WF_vars(Answer(r, "silent"))
          /\ WF_vars(Count(r)) /\ WF_vars(ReleaseSlot(r)) /\ WF_vars(WorkerDone(r))

FairSpec == Spec /\ Fairness

-----------------------------------------------------------------------------
(* What the fan-out and the shutdown promise.                              *)

InFlight == {r \in Recipients : worker[r] \in {"calling", "answered", "counted"}}
Unfinished == InFlight \cup {r \in Recipients : worker[r] = "released"}
Counted(v) == {r \in Recipients : worker[r] \in {"counted", "released", "done"}
                                    /\ Verdict(answer[r]) = v}
Skipped == {r \in Recipients : worker[r] = "skipped"}

(* fanOut's semaphore: never more than SEND_CONCURRENCY messages of a send *)
(* are on their way to the provider.                                       *)
InFlightBounded == Cardinality(InFlight) <= Concurrency

(* fanOut's result: every recipient is counted once, whether it was sent   *)
(* to, rejected, left without an answer or never reached; once fanOut has  *)
(* returned nobody is missing.                                             *)
LedgerAddsUp ==
    /\ sent = Cardinality(Counted("sent"))
    /\ failed = Cardinality(Counted("failed") \cup Skipped)
    /\ unknown = Cardinality(Counted("unknown"))
    /\ job \in {"returned", "ended"} => sent + failed + unknown = Total

(* No worker is still counting once fanOut has returned, so runSendJob     *)
(* decides on final figures.                                               *)
CountsFinal == [][counters' # counters => job \notin {"returned", "ended"}]_vars

(* runSendJob reverts only when a retry cannot duplicate a message.  The   *)
(* one exception is a message the NATS client reports as rejected without  *)
(* knowing; with SendGrid there is none.                                   *)
RevertIsSafe == row = "draft" => \A r \in taken : answer[r] = "garbled"

(* Drain's true means the job is over, if no request outlived the server.  *)
DrainIsRaceFree == drained /\ ~overran => job = "ended"

(* Shutdown's comment: main stops the server before the drain, so nothing  *)
(* is added to the drained jobs.                                           *)
DrainedMeansIdle == drained => job \in {"request", "ended"}

(* port.ErrAmbiguousSend: an error returned without it is a definitive     *)
(* rejection, the provider did not take the message.                       *)
UnwrappedMeansRejected ==
    \A r \in Recipients :
        answer[r] # "none" /\ Verdict(answer[r]) = "failed" => r \notin taken

(* Whatever the provider does, the job ends, unless its pod dies first.    *)
JobEnds == <>(job = "ended" \/ pod = "gone")

(* The verdicts as SendLifecycle sees them.                                *)
Mail ==
    [r \in Recipients |->
        IF worker[r] = "skipped" THEN "failed"
        ELSE IF worker[r] \in {"counted", "released", "done"} THEN Verdict(answer[r])
        ELSE "todo"]

Promise == INSTANCE FanOutPromise WITH mail <- Mail, outcome <- row

(* The worker pool implements the lifecycle's idea of it.                  *)
ImplementsFanOut == Promise!Spec
=============================================================================
