------------------------------- MODULE Webhooks -------------------------------
(***************************************************************************)
(* Outbound webhooks: a job per incident event posts it to the team's URLs    *)
(* one after another, retrying each, logs a receipt per URL and commits them  *)
(* all at the end; the test button does the same for one URL in a request.    *)
(*                                                                          *)
(* Source: backend/app/workers/webhooker.py, services/webhook_service.py and  *)
(* api/v1/routers/webhooks.py; check_job's enqueueing (workers/checker.py).   *)
(*                                                                          *)
(* One incident of one team.  Each job counts the time it takes: a POST is     *)
(* answered at once or just before the client gives up on it.                 *)
(***************************************************************************)
EXTENDS Naturals, FiniteSets

CONSTANTS
  Hooks,       \* URLs a webhook may be registered for
  NoHook,      \* "no webhook"
  PostTime,    \* TIMEOUT_SECONDS of a POST, 10 s
  FirstPause, SecondPause,  \* BACKOFF_SECONDS, 30 and 120 s; its third is never slept
  JobTimeout,  \* job_timeout, 45 s, of jobs; a request has none
  MaxTroubles  \* bound: failing POSTs of jobs, crashes, lost enqueues

ASSUME HooksAssumption == NoHook \notin Hooks /\ MaxTroubles \in Nat

ASSUME TimesAssumption ==
  PostTime \in Nat /\ FirstPause \in Nat /\ SecondPause \in Nat /\ JobTimeout \in Nat

\* The events of the incident, and a press of the test button.
Jobs == {"open", "recovery", "test"}
Deliveries == Jobs \ {"test"}

Attempts == 3  \* MAX_RETRIES
Backoff == <<FirstPause, SecondPause>>

VARIABLES
  incident,  \* "none", "open", "resolved", "gone"
  active,    \* outbound_webhooks that are active
  job,       \* where each job is
  got,       \* job -> webhooks whose receiver took a POST of it
  receipts,  \* audit_logs, committed
  troubles   \* budget of the bound

hookVars == <<incident, active, job, got, receipts, troubles>>

IdleJob == [at |-> "none", hooks |-> {}, ok |-> {}, failed |-> {}, to |-> NoHook,
            attempt |-> 0, clock |-> 0]

HooksTypeOK ==
  /\ incident \in {"none", "open", "resolved", "gone"}
  /\ active \in SUBSET Hooks
  /\ job \in [Jobs -> [at : {"none", "lost", "queued", "pick", "post", "sleep", "ended"},
                       hooks : SUBSET Hooks, ok : SUBSET Hooks, failed : SUBSET Hooks,
                       to : Hooks \cup {NoHook}, attempt : 0 .. Attempts,
                       clock : 0 .. JobTimeout]]
  /\ got \in [Jobs -> SUBSET Hooks]
  /\ receipts \in SUBSET [job : Jobs, hook : Hooks, ok : BOOLEAN]
  /\ troubles \in 0 .. MaxTroubles

HooksInit ==
  /\ incident = "none"
  /\ active = {}
  /\ job = [j \in Jobs |-> IdleJob]
  /\ got = [j \in Jobs |-> {}]
  /\ receipts = {}
  /\ troubles = MaxTroubles

Trouble == troubles > 0 /\ troubles' = troubles - 1

-----------------------------------------------------------------------------
(* What goes on around the jobs.                                           *)

\* create_webhook and delete_webhook.
CreateHook(h) ==
  /\ h \notin active
  /\ active' = active \cup {h}
  /\ UNCHANGED <<incident, job, got, receipts, troubles>>

DeleteHook(h) ==
  /\ h \in active
  /\ active' = active \ {h}
  /\ UNCHANGED <<incident, job, got, receipts, troubles>>

\* A check commits a change of the incident; the one before was enqueued by then, for
\* the monitor's lock is held until it was.
CommitIncident(k) ==
  /\ \/ k = "open" /\ incident = "none" /\ incident' = "open"
     \/ k = "recovery" /\ incident = "open" /\ job["open"].at # "none" /\ incident' = "resolved"
  /\ UNCHANGED <<active, job, got, receipts, troubles>>

\* The monitor is deleted, and its incident with it.
DeleteIncident ==
  /\ incident \in {"open", "resolved"}
  /\ incident' = "gone"
  /\ UNCHANGED <<active, job, got, receipts, troubles>>

Due(k) == IF k = "open" THEN incident = "open" ELSE incident = "resolved"

\* check_job enqueues after its commit.
Enqueue(k) ==
  /\ Due(k) /\ job[k].at = "none"
  /\ job' = [job EXCEPT ![k].at = "queued"]
  /\ UNCHANGED <<incident, active, got, receipts, troubles>>

\* Redis refuses, or the worker dies before: no sweep makes up for it.
LoseEnqueue(k) ==
  /\ Due(k) /\ job[k].at = "none"
  /\ Trouble
  /\ job' = [job EXCEPT ![k].at = "lost"]
  /\ UNCHANGED <<incident, active, got, receipts>>

\* test_webhook, of an existing webhook.
StartTest(h) ==
  /\ job["test"].at = "none" /\ h \in active
  /\ job' = [job EXCEPT !["test"] = [IdleJob EXCEPT !.at = "pick", !.hooks = {h}]]
  /\ UNCHANGED <<incident, active, got, receipts, troubles>>

-----------------------------------------------------------------------------
(* webhook_delivery_job and deliver.                                       *)

End(j) == [IdleJob EXCEPT !.at = "ended", !.hooks = job[j].hooks]

InTime(j) == j = "test" \/ job[j].clock < JobTimeout

\* The clock of a job after d more units.
After(j, d) == IF j = "test" THEN 0
               ELSE IF job[j].clock + d < JobTimeout THEN job[j].clock + d ELSE JobTimeout

\* The incident, the monitor and the active webhooks are read; the payload is built.
StartJob(k) ==
  /\ job[k].at = "queued"
  /\ job' = [job EXCEPT ![k] =
               IF incident = "gone" \/ active = {} THEN End(k)
               ELSE [IdleJob EXCEPT !.at = "pick", !.hooks = active]]
  /\ UNCHANGED <<incident, active, got, receipts, troubles>>

\* The next webhook of the list, in the order the database gave.
PickHook(j, h) ==
  /\ job[j].at = "pick" /\ InTime(j)
  /\ h \in job[j].hooks \ (job[j].ok \cup job[j].failed)
  /\ job' = [job EXCEPT ![j].at = "post", ![j].to = h, ![j].attempt = 1]
  /\ UNCHANGED <<incident, active, got, receipts, troubles>>

Took(j) == [got EXCEPT ![j] = @ \cup {job[j].to}]

\* Mutant of PostTaken: the pause is made after an answer too.
PostTakenPauses(j, d) ==
  /\ job[j].at = "post" /\ InTime(j)
  /\ got' = Took(j)
  /\ job' = [job EXCEPT ![j].at = "pick", ![j].ok = @ \cup {job[j].to}, ![j].to = NoHook,
                        ![j].attempt = 0, ![j].clock = After(j, d + FirstPause)]
  /\ UNCHANGED <<incident, active, receipts, troubles>>

\* The receiver answers 2xx; the receipt is flushed.
PostTaken(j, d) ==
  /\ job[j].at = "post" /\ InTime(j)
  /\ got' = Took(j)
  /\ job' = [job EXCEPT ![j].at = "pick", ![j].ok = @ \cup {job[j].to}, ![j].to = NoHook,
                        ![j].attempt = 0, ![j].clock = After(j, d)]
  /\ UNCHANGED <<incident, active, receipts, troubles>>

\* Any other answer or none, taken by the receiver or not: the next attempt after a
\* pause, or a "failed" receipt after the last.
PostFails(j, d, taken) ==
  LET next == IF job[j].attempt < Attempts
                THEN [job[j] EXCEPT !.at = "sleep", !.clock = After(j, d)]
                ELSE [job[j] EXCEPT !.at = "pick", !.failed = @ \cup {job[j].to}, !.to = NoHook,
                                    !.attempt = 0, !.clock = After(j, d)] IN
  /\ job[j].at = "post" /\ InTime(j)
  /\ IF j = "test" THEN UNCHANGED troubles ELSE Trouble
  /\ got' = IF taken THEN Took(j) ELSE got
  /\ job' = [job EXCEPT ![j] = next]
  /\ UNCHANGED <<incident, active, receipts>>

Sleep(j) ==
  /\ job[j].at = "sleep" /\ InTime(j)
  /\ job' = [job EXCEPT ![j].at = "post", ![j].attempt = @ + 1,
                        ![j].clock = After(j, Backoff[job[j].attempt])]
  /\ UNCHANGED <<incident, active, got, receipts, troubles>>

\* The one commit, of all receipts.
CommitReceipts(j) ==
  /\ job[j].at = "pick" /\ InTime(j)
  /\ job[j].hooks = job[j].ok \cup job[j].failed
  /\ receipts' = receipts \cup [job : {j}, hook : job[j].ok, ok : {TRUE}]
                          \cup [job : {j}, hook : job[j].failed, ok : {FALSE}]
  /\ job' = [job EXCEPT ![j] = End(j)]
  /\ UNCHANGED <<incident, active, got, troubles>>

\* Mutant of CutJob: what was flushed before the timeout is committed.
CutJobKeeps(k) ==
  /\ job[k].at \in {"pick", "post", "sleep"} /\ ~InTime(k)
  /\ receipts' = receipts \cup [job : {k}, hook : job[k].ok, ok : {TRUE}]
  /\ job' = [job EXCEPT ![k] = End(k)]
  /\ UNCHANGED <<incident, active, got, troubles>>

\* job_timeout: the job fails, is not run again, and its receipts are rolled back.
CutJob(k) ==
  /\ job[k].at \in {"pick", "post", "sleep"} /\ ~InTime(k)
  /\ job' = [job EXCEPT ![k] = End(k)]
  /\ UNCHANGED <<incident, active, got, receipts, troubles>>

Running(k) == job[k].at \in {"pick", "post", "sleep"}

\* The worker dies: its jobs run again from the start, what was posted stays posted.  That
\* it dies after a commit and before ARQ has noted the end of the job is left out.
CrashWorker ==
  /\ \E k \in Deliveries : Running(k)
  /\ Trouble
  /\ job' = [j \in Jobs |-> IF j \in Deliveries /\ Running(j)
                              THEN [IdleJob EXCEPT !.at = "queued"] ELSE job[j]]
  /\ UNCHANGED <<incident, active, got, receipts>>

-----------------------------------------------------------------------------
JobStep(j) ==
  \/ \E h \in Hooks : PickHook(j, h)
  \/ \E d \in {0, PostTime} : PostTaken(j, d) \/ \E taken \in BOOLEAN : PostFails(j, d, taken)
  \/ Sleep(j) \/ CommitReceipts(j)

HooksNext ==
  \/ \E h \in Hooks : CreateHook(h) \/ DeleteHook(h) \/ StartTest(h)
  \/ DeleteIncident \/ CrashWorker
  \/ \E k \in Deliveries :
       CommitIncident(k) \/ Enqueue(k) \/ LoseEnqueue(k) \/ StartJob(k) \/ CutJob(k)
  \/ \E j \in Jobs : JobStep(j)

HooksSpec == HooksInit /\ [][HooksNext]_hookVars

-----------------------------------------------------------------------------
\* The receipts of an event are all there or none is: when one is in the audit log, each
\* webhook its job ran for has exactly one, and who has a "delivered" one took the event,
\* whatever was retried, cut off or run again (webhooker.py:51-67).
ReceiptsAreWhole ==
  \A k \in Deliveries :
    LET logged == {r \in receipts : r.job = k} IN
    /\ \A r \in logged : r.ok => r.hook \in got[k]
    /\ \A r, q \in logged : r.hook = q.hook => r = q
    /\ logged # {} => \A h \in job[k].hooks : \E r \in logged : r.hook = h

\* "3x retry inside webhook_service, one audit_logs row per URL as the delivery receipt"
\* (webhooker.py:4-5): each webhook a job ran for has a receipt, "delivered" or "failed".
\* It is not so: the first two pauses alone are longer than job_timeout.
OneReceiptPerUrl ==
  \A k \in Deliveries :
    job[k].at = "ended" => \A h \in job[k].hooks : \E r \in receipts : r.job = k /\ r.hook = h

\* A queued job is run, its steps go on or are cut off.
HooksFairness == \A k \in Deliveries : WF_hookVars(StartJob(k) \/ JobStep(k) \/ CutJob(k))

\* An event whose job ran, for no more webhooks than can be slow one after the other within
\* job_timeout, gets a "delivered" receipt for each, if nothing fails on the way.  A job with
\* more of them is cut off although every receiver takes its POST (webhooker.py:51).
Affordable == {H \in SUBSET Hooks : Cardinality(H) * PostTime < JobTimeout}

UntroubledEventsAreLogged ==
  \A k \in Deliveries :
    []<>(job[k].hooks \in Affordable =>
           \/ troubles < MaxTroubles
           \/ [job : {k}, hook : job[k].hooks, ok : {TRUE}] \subseteq receipts)
=============================================================================
