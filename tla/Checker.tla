------------------------------ MODULE Checker ------------------------------
(***************************************************************************)
(* Checking monitors: the scheduler, the job queue, check_job with its      *)
(* Redis lock and its database transaction, and the API handlers that write *)
(* the same rows.                                                           *)
(*                                                                          *)
(* Source: backend/app/workers/checker.py, workers/settings.py,             *)
(* services/incident_service.py, services/monitor_service.py and the        *)
(* acknowledge handler of api/v1/routers/incidents.py.                      *)
(*                                                                          *)
(* A job slot is a coroutine a worker process runs check_job in.  Every     *)
(* await of check_job at which another process can be observed separates    *)
(* two actions.  Time is a count of ticks; every clock reading of the code  *)
(* is kept as the time that is left (lock, due, sched) or has passed (age). *)
(***************************************************************************)
EXTENDS FlapLogic

CONSTANTS
  Monitors,     \* monitor ids
  Jobs,         \* job slots of all the worker processes
  Requests,     \* API requests in flight at a time
  NoMonitor,    \* "no monitor", for an idle slot
  LockTTL,      \* LOCK_TTL_SECONDS, in ticks
  JobTimeout,   \* WorkerSettings.job_timeout, in ticks
  CleanupTime,  \* longest run of check_job's finally block after a timeout
  SchedEvery,   \* period of the enqueue_due_monitors cron
  Interval,     \* interval_min, in ticks
  MaxQueue,     \* bound: entries the scheduler keeps waiting per monitor
  MaxFlips,     \* bound: changes of the state of the probed sites
  MaxFaults,    \* bound: crashes, shutdowns and failed Redis calls
  MaxCalls      \* bound: API calls that write

ASSUME MonitorAssumption == NoMonitor \notin Monitors

ASSUME TimeAssumption ==
  /\ LockTTL \in Nat /\ JobTimeout \in Nat /\ CleanupTime \in Nat
  /\ SchedEvery \in Nat /\ Interval \in Nat
  /\ MaxQueue \in Nat /\ MaxFlips \in Nat /\ MaxFaults \in Nat /\ MaxCalls \in Nat

\* The lock outlives every job that took it: 45 s of job_timeout and the
\* cleanup after it fit in the 60 s of LOCK_TTL_SECONDS.
ASSUME LockAssumption == JobTimeout + CleanupTime < LockTTL

VARIABLES
  \* PostgreSQL, committed rows
  live,        \* monitor -> "new", "live" or "deleted"
  paused,      \* monitor -> is_paused
  due,         \* monitor -> ticks until next_check_at
  settings,    \* monitor -> version of url and interval
  checks,      \* monitor -> its two latest checks
  checkedWith, \* monitor -> version of the settings its latest check used
  incidents,   \* monitor -> its incidents
  \* Redis
  lock,        \* monitor -> ticks until lock:monitor:{id} expires, 0 if unset
  queue,       \* monitor -> check_job entries waiting
  alerts,      \* monitor -> telegram_alert_job entries ever queued
  hooks,       \* monitor -> webhook_delivery_job entries ever queued
  sched,       \* ticks until the next run of the scheduler cron
  \* job slots
  pc, mon, age, used, result, plan,
  \* API requests in flight
  req,
  \* surroundings: the probed sites and the budgets of the bounds
  site, flips, faults, calls

dbVars == <<live, paused, due, settings, checks, checkedWith, incidents>>
redisVars == <<lock, queue, alerts, hooks>>
jobVars == <<pc, mon, age, used, result, plan>>
envVars == <<site, flips, faults, calls>>
vars == <<dbVars, redisVars, sched, jobVars, req, envVars>>

Notes == [kind : {"open", "recovery"}, id : Nat]

JobSteps == {"lock", "load", "probe", "save", "flap", "commit", "alert",
             "webhook", "release"}

\* Between the SET NX that succeeded and the DEL of the finally block.
CriticalSteps == JobSteps \ {"lock"}

MonitorOps == {"pause", "resume", "update", "delete"}

NoRequest == [op |-> "none", mon |-> NoMonitor, id |-> 0, saw |-> FALSE]

RequestRecords == [op  : MonitorOps \cup {"ack", "none"},
                   mon : Monitors \cup {NoMonitor},
                   id  : Nat,
                   saw : BOOLEAN]

DbTypeOK ==
  /\ live \in [Monitors -> {"new", "live", "deleted"}]
  /\ paused \in [Monitors -> BOOLEAN]
  /\ due \in [Monitors -> Nat]
  /\ settings \in [Monitors -> Nat]
  /\ checks \in [Monitors -> Seq(ProbeStatuses)]
  /\ checkedWith \in [Monitors -> Nat]
  /\ incidents \in [Monitors -> Seq(Incident)]

RedisTypeOK ==
  /\ lock \in [Monitors -> 0 .. LockTTL]
  /\ queue \in [Monitors -> Nat]
  /\ alerts \in [Monitors -> Seq(Notes)]
  /\ hooks \in [Monitors -> Seq(Notes)]
  /\ sched \in Nat

JobTypeOK ==
  /\ pc \in [Jobs -> JobSteps \cup {"idle"}]
  /\ mon \in [Jobs -> Monitors \cup {NoMonitor}]
  /\ age \in [Jobs -> 0 .. JobTimeout + CleanupTime]
  /\ used \in [Jobs -> Nat]
  /\ result \in [Jobs -> ProbeStatuses]
  /\ plan \in [Jobs -> Plans]
  /\ \A j \in Jobs : pc[j] # "idle" => mon[j] \in Monitors
  /\ \A j \in Jobs : pc[j] \in {"alert", "webhook"} => plan[j] \in Notes

RequestTypeOK ==
  /\ req \in [Requests -> RequestRecords]
  /\ \A r \in Requests : req[r].op # "none" => req[r].mon \in Monitors

EnvTypeOK ==
  /\ site \in [Monitors -> ProbeStatuses]
  /\ flips \in Nat /\ faults \in Nat /\ calls \in Nat

TypeOK == DbTypeOK /\ RedisTypeOK /\ JobTypeOK /\ RequestTypeOK /\ EnvTypeOK

Init ==
  /\ live = [m \in Monitors |-> "new"]
  /\ paused = [m \in Monitors |-> FALSE]
  /\ due = [m \in Monitors |-> 0]
  /\ settings = [m \in Monitors |-> 0]
  /\ checks = [m \in Monitors |-> <<>>]
  /\ checkedWith = [m \in Monitors |-> 0]
  /\ incidents = [m \in Monitors |-> <<>>]
  /\ lock = [m \in Monitors |-> 0]
  /\ queue = [m \in Monitors |-> 0]
  /\ alerts = [m \in Monitors |-> <<>>]
  /\ hooks = [m \in Monitors |-> <<>>]
  /\ sched = 0
  /\ pc = [j \in Jobs |-> "idle"]
  /\ mon = [j \in Jobs |-> NoMonitor]
  /\ age = [j \in Jobs |-> 0]
  /\ used = [j \in Jobs |-> 0]
  /\ result = [j \in Jobs |-> "UP"]
  /\ plan = [j \in Jobs |-> NoPlan]
  /\ req = [r \in Requests |-> NoRequest]
  /\ site \in [Monitors -> ProbeStatuses]
  /\ flips = MaxFlips /\ faults = MaxFaults /\ calls = MaxCalls

-----------------------------------------------------------------------------
(* The scheduler and the queue.                                            *)

\* enqueue_due_monitors.  A Redis failure in the loop leaves the rest of the
\* due monitors to the next run.  There is no job id, so a monitor that is
\* still waiting or being checked is queued again.
EnqueueDueMonitors ==
  LET dueNow == {m \in Monitors : live[m] = "live" /\ ~paused[m] /\ due[m] = 0
                                   /\ queue[m] < MaxQueue}
  IN /\ sched = 0
     /\ sched' = SchedEvery
     /\ \E pushed \in SUBSET dueNow :
          /\ pushed # dueNow => faults > 0
          /\ faults' = IF pushed # dueNow THEN faults - 1 ELSE faults
          /\ queue' = [m \in Monitors |->
                         IF m \in pushed THEN queue[m] + 1 ELSE queue[m]]
     /\ UNCHANGED <<dbVars, lock, alerts, hooks, jobVars, req, site, flips, calls>>

\* An idle slot takes an entry; job_timeout is counted from here.
StartJob(j, m) ==
  /\ pc[j] = "idle" /\ queue[m] > 0
  /\ pc' = [pc EXCEPT ![j] = "lock"]
  /\ mon' = [mon EXCEPT ![j] = m]
  /\ queue' = [queue EXCEPT ![m] = @ - 1]
  /\ UNCHANGED <<dbVars, lock, alerts, hooks, sched, age, used, result, plan, req,
                 envVars>>

\* The slot is free again and forgets the job's locals.
Finish(j) ==
  /\ pc' = [pc EXCEPT ![j] = "idle"]
  /\ mon' = [mon EXCEPT ![j] = NoMonitor]
  /\ age' = [age EXCEPT ![j] = 0]
  /\ used' = [used EXCEPT ![j] = 0]
  /\ result' = [result EXCEPT ![j] = "UP"]
  /\ plan' = [plan EXCEPT ![j] = NoPlan]

\* The job goes on to its next await.
Goto(j, step) ==
  /\ pc' = [pc EXCEPT ![j] = step]
  /\ UNCHANGED <<mon, age>>

-----------------------------------------------------------------------------
(* check_job.                                                              *)

\* Mutant of TakeLock: a lock that lives no longer than the job timeout.
TakeLockShortTTL(j) ==
  /\ pc[j] = "lock" /\ lock[mon[j]] = 0
  /\ lock' = [lock EXCEPT ![mon[j]] = JobTimeout]
  /\ Goto(j, "load")
  /\ UNCHANGED <<dbVars, queue, alerts, hooks, sched, used, result, plan, req, envVars>>

\* SET lock NX EX 60 finds no key.
TakeLock(j) ==
  /\ pc[j] = "lock" /\ lock[mon[j]] = 0
  /\ lock' = [lock EXCEPT ![mon[j]] = LockTTL]
  /\ Goto(j, "load")
  /\ UNCHANGED <<dbVars, queue, alerts, hooks, sched, used, result, plan, req, envVars>>

\* Mutant of SkipLocked: the early return moved into the try block.
SkipLockedInTry(j) ==
  /\ pc[j] = "lock" /\ lock[mon[j]] > 0
  /\ lock' = [lock EXCEPT ![mon[j]] = 0]
  /\ Finish(j)
  /\ UNCHANGED <<dbVars, queue, alerts, hooks, sched, req, envVars>>

\* The key is there: "skipped:locked", outside the try, so without a DEL.
SkipLocked(j) ==
  /\ pc[j] = "lock" /\ lock[mon[j]] > 0
  /\ Finish(j)
  /\ UNCHANGED <<dbVars, redisVars, sched, req, envVars>>

\* Mutant of LoadMonitor: the job probes with settings it remembers.
LoadMonitorCached(j) ==
  LET m == mon[j] IN
  /\ pc[j] = "load"
  /\ IF live[m] = "live" /\ ~paused[m] THEN Goto(j, "probe") ELSE Goto(j, "release")
  /\ UNCHANGED <<dbVars, redisVars, sched, used, result, plan, req, envVars>>

\* db.get(Monitor): a deleted or paused monitor is "skipped:monitor".
LoadMonitor(j) ==
  LET m == mon[j] IN
  /\ pc[j] = "load"
  /\ IF live[m] = "live" /\ ~paused[m]
       THEN /\ Goto(j, "probe")
            /\ used' = [used EXCEPT ![j] = settings[m]]
       ELSE /\ Goto(j, "release")
            /\ UNCHANGED used
  /\ UNCHANGED <<dbVars, redisVars, sched, result, plan, req, envVars>>

\* probe: the request ends within httpx's timeouts, as UP or DOWN; it never raises.
Probe(j) ==
  /\ pc[j] = "probe"
  /\ result' = [result EXCEPT ![j] = site[mon[j]]]
  /\ Goto(j, "save")
  /\ UNCHANGED <<dbVars, redisVars, sched, used, plan, req, envVars>>

\* check_repository.create flushes the INSERT: the foreign key locks the monitor
\* row, or fails when the row is gone, and the job ends with that error.
SaveCheck(j) ==
  /\ pc[j] = "save"
  /\ Goto(j, IF live[mon[j]] = "live" THEN "flap" ELSE "release")
  /\ UNCHANGED <<dbVars, redisVars, sched, used, result, plan, req, envVars>>

\* Mutant of ApplyFlapLogic: the new check is not flushed before the read.
ApplyFlapLogicUnflushed(j) ==
  LET m == mon[j] IN
  /\ pc[j] = "flap"
  /\ plan' = [plan EXCEPT ![j] = FlapPlan(checks[m], incidents[m])]
  /\ Goto(j, "commit")
  /\ UNCHANGED <<dbVars, redisVars, sched, used, result, req, envVars>>

\* apply_flap_logic reads the two latest checks, its own included, and the OPEN
\* incident, as committed at this moment; its first SELECT flushes next_check_at.
ApplyFlapLogic(j) ==
  LET m == mon[j] IN
  /\ pc[j] = "flap"
  /\ plan' = [plan EXCEPT ![j] =
                FlapPlan(LastTwo(Append(checks[m], result[j])), incidents[m])]
  /\ Goto(j, "commit")
  /\ UNCHANGED <<dbVars, redisVars, sched, used, result, req, envVars>>

\* Mutant of Commit: every check goes on to the alert, not only a transition.
CommitAlways(j) ==
  LET m == mon[j] IN
  /\ pc[j] = "commit"
  /\ checks' = [checks EXCEPT ![m] = LastTwo(Append(@, result[j]))]
  /\ checkedWith' = [checkedWith EXCEPT ![m] = used[j]]
  /\ due' = [due EXCEPT ![m] = Interval]
  /\ incidents' = [incidents EXCEPT ![m] = ApplyPlan(@, plan[j])]
  /\ Goto(j, "alert")
  /\ UNCHANGED <<live, paused, settings, redisVars, sched, used, result, plan, req,
                 envVars>>

\* db.commit: the check, next_check_at and the incident become visible at once.
Commit(j) ==
  LET m == mon[j] IN
  /\ pc[j] = "commit"
  /\ checks' = [checks EXCEPT ![m] = LastTwo(Append(@, result[j]))]
  /\ checkedWith' = [checkedWith EXCEPT ![m] = used[j]]
  /\ due' = [due EXCEPT ![m] = Interval]
  /\ incidents' = [incidents EXCEPT ![m] = ApplyPlan(@, plan[j])]
  /\ Goto(j, IF plan[j].kind = "none" THEN "release" ELSE "alert")
  /\ UNCHANGED <<live, paused, settings, redisVars, sched, used, result, plan, req,
                 envVars>>

\* enqueue_job("telegram_alert_job"); a failure is swallowed.
EnqueueAlert(j) ==
  /\ pc[j] = "alert"
  /\ \/ /\ alerts' = [alerts EXCEPT ![mon[j]] = Append(@, plan[j])]
        /\ UNCHANGED faults
     \/ /\ faults > 0
        /\ faults' = faults - 1
        /\ UNCHANGED alerts
  /\ Goto(j, "webhook")
  /\ UNCHANGED <<dbVars, lock, queue, hooks, sched, used, result, plan, req, site,
                 flips, calls>>

\* enqueue_job("webhook_delivery_job"); a failure is swallowed.  The live event
\* and the cache invalidation that follow change nothing modelled here.
EnqueueWebhook(j) ==
  /\ pc[j] = "webhook"
  /\ \/ /\ hooks' = [hooks EXCEPT ![mon[j]] = Append(@, plan[j])]
        /\ UNCHANGED faults
     \/ /\ faults > 0
        /\ faults' = faults - 1
        /\ UNCHANGED hooks
  /\ Goto(j, "release")
  /\ UNCHANGED <<dbVars, lock, queue, alerts, sched, used, result, plan, req, site,
                 flips, calls>>

\* finally: DEL lock, whoever set it.
ReleaseLock(j) ==
  /\ pc[j] = "release"
  /\ lock' = [lock EXCEPT ![mon[j]] = 0]
  /\ Finish(j)
  /\ UNCHANGED <<dbVars, queue, alerts, hooks, sched, req, envVars>>

-----------------------------------------------------------------------------
(* What ends a job early: its timeout, a shutdown, a crash.                *)

\* A cancelled coroutine rolls back and runs its finally block; before the lock
\* was taken there is none.
CancelJob(j) ==
  IF pc[j] = "lock" THEN Finish(j)
  ELSE /\ Goto(j, "release")
       /\ UNCHANGED <<used, result, plan>>

\* wait_for(job_timeout): the job has failed and is not retried.
Timeout(j) ==
  /\ pc[j] \in JobSteps \ {"release"}
  /\ age[j] = JobTimeout
  /\ CancelJob(j)
  /\ UNCHANGED <<dbVars, redisVars, sched, req, envVars>>

\* Mutant of Crash: a crashed job goes on from its commit, announcing again.
CrashResumes(j) ==
  /\ pc[j] \in {"alert", "webhook", "release"} /\ plan[j].kind # "none"
  /\ faults > 0
  /\ faults' = faults - 1
  /\ pc' = [pc EXCEPT ![j] = "alert"]
  /\ age' = [age EXCEPT ![j] = 0]
  /\ UNCHANGED <<dbVars, redisVars, sched, mon, used, result, plan, req, site, flips,
                 calls>>

\* A worker stopping cancels its jobs and leaves their entries in the queue.
Shutdown(j) ==
  /\ pc[j] \in JobSteps \ {"release"}
  /\ faults > 0
  /\ faults' = faults - 1
  /\ queue' = [queue EXCEPT ![mon[j]] = @ + 1]
  /\ CancelJob(j)
  /\ UNCHANGED <<dbVars, lock, alerts, hooks, sched, req, site, flips, calls>>

\* The process dies: no finally block, the lock stays until it expires.  The
\* entry is run again unless this was the last of max_tries.
Crash(j) ==
  /\ pc[j] # "idle"
  /\ faults > 0
  /\ faults' = faults - 1
  /\ \/ queue' = [queue EXCEPT ![mon[j]] = @ + 1]
     \/ UNCHANGED queue
  /\ Finish(j)
  /\ UNCHANGED <<dbVars, lock, alerts, hooks, sched, req, site, flips, calls>>

-----------------------------------------------------------------------------
(* API handlers.  Each reads its row, checks it, and writes it later.      *)

\* create_monitor: due at once.
CreateMonitor(m) ==
  /\ live[m] = "new"
  /\ live' = [live EXCEPT ![m] = "live"]
  /\ UNCHANGED <<paused, due, settings, checks, checkedWith, incidents, redisVars,
                 sched, jobVars, req, envVars>>

\* _owned_monitor, at the start of set_paused, update_monitor and delete_monitor.
ReadMonitor(r, m, op) ==
  /\ req[r].op = "none" /\ live[m] = "live" /\ calls > 0
  /\ calls' = calls - 1
  /\ req' = [req EXCEPT ![r] = [op |-> op, mon |-> m, id |-> 0, saw |-> paused[m]]]
  /\ UNCHANGED <<dbVars, redisVars, sched, jobVars, site, flips, faults>>

\* Mutant of ReadIncident: the handler does not look at the status.
ReadAnyIncident(r, m) ==
  /\ req[r].op = "none" /\ live[m] = "live" /\ calls > 0
  /\ calls' = calls - 1
  /\ \E i \in DOMAIN incidents[m] :
       req' = [req EXCEPT ![r] = [op |-> "ack", mon |-> m, id |-> i, saw |-> FALSE]]
  /\ UNCHANGED <<dbVars, redisVars, sched, jobVars, site, flips, faults>>

\* acknowledge_incident up to its "Only OPEN incidents can be acknowledged".
ReadIncident(r, m) ==
  /\ req[r].op = "none" /\ live[m] = "live" /\ calls > 0
  /\ calls' = calls - 1
  /\ \E i \in OpenIncidents(incidents[m]) :
       req' = [req EXCEPT ![r] = [op |-> "ack", mon |-> m, id |-> i, saw |-> FALSE]]
  /\ UNCHANGED <<dbVars, redisVars, sched, jobVars, site, flips, faults>>

\* A check's open transaction holds the monitor row: from its INSERT of the check
\* against deletion, from its UPDATE of next_check_at against any write.
KeyLocked(m) == \E j \in Jobs : mon[j] = m /\ pc[j] \in {"flap", "commit"}

RowLocked(m) == \E j \in Jobs : mon[j] = m /\ pc[j] = "commit"

EndRequest(r) == req' = [req EXCEPT ![r] = NoRequest]

\* set_paused: the ORM writes is_paused only if it differs from what was read,
\* next_check_at on every resume.
WritePaused(r) ==
  LET m == req[r].mon IN
  /\ req[r].op \in {"pause", "resume"} /\ ~RowLocked(m)
  /\ IF live[m] = "live"
       THEN /\ paused' = [paused EXCEPT ![m] =
                            IF req[r].op = "pause" THEN @ \/ ~req[r].saw
                                                   ELSE @ /\ ~req[r].saw]
            /\ due' = IF req[r].op = "resume" THEN [due EXCEPT ![m] = 0] ELSE due
       ELSE UNCHANGED <<paused, due>>
  /\ EndRequest(r)
  /\ UNCHANGED <<live, settings, checks, checkedWith, incidents, redisVars, sched,
                 jobVars, envVars>>

\* update_monitor with a new url or interval.
WriteSettings(r) ==
  LET m == req[r].mon IN
  /\ req[r].op = "update" /\ ~RowLocked(m)
  /\ IF live[m] = "live"
       THEN /\ settings' = [settings EXCEPT ![m] = @ + 1]
            /\ due' = [due EXCEPT ![m] = 0]
       ELSE UNCHANGED <<settings, due>>
  /\ EndRequest(r)
  /\ UNCHANGED <<live, paused, checks, checkedWith, incidents, redisVars, sched,
                 jobVars, envVars>>

\* delete_monitor: checks and incidents go with the row.
DeleteMonitor(r) ==
  LET m == req[r].mon IN
  /\ req[r].op = "delete" /\ ~KeyLocked(m)
  /\ live' = [live EXCEPT ![m] = "deleted"]
  /\ checks' = [checks EXCEPT ![m] = <<>>]
  /\ incidents' = [incidents EXCEPT ![m] = <<>>]
  /\ EndRequest(r)
  /\ UNCHANGED <<paused, due, settings, checkedWith, redisVars, sched, jobVars, envVars>>

\* acknowledge_incident: an UPDATE by id, whatever the status is by now.
WriteAck(r) ==
  LET m == req[r].mon IN
  /\ req[r].op = "ack"
  /\ incidents' = [incidents EXCEPT ![m] =
                     [i \in DOMAIN @ |-> IF i = req[r].id THEN Acknowledge(@[i]) ELSE @[i]]]
  /\ EndRequest(r)
  /\ UNCHANGED <<live, paused, due, settings, checks, checkedWith, redisVars, sched,
                 jobVars, envVars>>

-----------------------------------------------------------------------------
(* The surroundings.                                                       *)

SiteFlips(m) ==
  /\ flips > 0
  /\ flips' = flips - 1
  /\ site' = [site EXCEPT ![m] = IF @ = "UP" THEN "DOWN" ELSE "UP"]
  /\ UNCHANGED <<dbVars, redisVars, sched, jobVars, req, faults, calls>>

\* A running job meets its deadline: wait_for cancels it on time, and the
\* finally block of a cancelled job takes at most CleanupTime.
WithinDeadline(j) ==
  \/ pc[j] = "idle"
  \/ age[j] < JobTimeout
  \/ pc[j] = "release" /\ age[j] < JobTimeout + CleanupTime

Less(t) == IF t = 0 THEN 0 ELSE t - 1

\* Mutant of Tick: SET NX without EX, a lock that does not expire.
TickNoExpiry ==
  /\ \A j \in Jobs : WithinDeadline(j)
  /\ age' = [j \in Jobs |-> IF pc[j] = "idle" THEN age[j] ELSE age[j] + 1]
  /\ due' = [m \in Monitors |-> Less(due[m])]
  /\ sched' = Less(sched)
  /\ UNCHANGED <<live, paused, settings, checks, checkedWith, incidents, redisVars, pc,
                 mon, used, result, plan, req, envVars>>

Tick ==
  /\ \A j \in Jobs : WithinDeadline(j)
  /\ age' = [j \in Jobs |-> IF pc[j] = "idle" THEN age[j] ELSE age[j] + 1]
  /\ lock' = [m \in Monitors |-> Less(lock[m])]
  /\ due' = [m \in Monitors |-> Less(due[m])]
  /\ sched' = Less(sched)
  /\ UNCHANGED <<live, paused, settings, checks, checkedWith, incidents, queue, alerts,
                 hooks, pc, mon, used, result, plan, req, envVars>>

-----------------------------------------------------------------------------
JobStep(j) ==
  \/ TakeLock(j) \/ SkipLocked(j) \/ LoadMonitor(j) \/ Probe(j) \/ SaveCheck(j)
  \/ ApplyFlapLogic(j) \/ Commit(j) \/ EnqueueAlert(j) \/ EnqueueWebhook(j)
  \/ ReleaseLock(j) \/ Timeout(j) \/ Shutdown(j) \/ Crash(j)
  \/ \E m \in Monitors : StartJob(j, m)

RequestStep(r) ==
  \/ \E m \in Monitors, op \in MonitorOps : ReadMonitor(r, m, op)
  \/ \E m \in Monitors : ReadIncident(r, m)
  \/ WritePaused(r) \/ WriteSettings(r) \/ DeleteMonitor(r) \/ WriteAck(r)

Next ==
  \/ EnqueueDueMonitors
  \/ \E j \in Jobs : JobStep(j)
  \/ \E r \in Requests : RequestStep(r)
  \/ \E m \in Monitors : CreateMonitor(m) \/ SiteFlips(m)
  \/ Tick

Spec == Init /\ [][Next]_vars

-----------------------------------------------------------------------------
(* Safety.                                                                 *)

\* Two workers never check one monitor at the same time (checker.py:4): between
\* its SET NX and its DEL a job is alone, although the DEL names no owner and the
\* key expires by itself.
MutualExclusion ==
  \A j, k \in Jobs :
    j # k /\ pc[j] \in CriticalSteps /\ pc[k] \in CriticalSteps => mon[j] # mon[k]

\* A running job's lock is still there: neither its expiry nor the DEL of another
\* job, cancelled late or restarted, removes it (checker.py:111, 209).
HolderKeepsLock ==
  \A j \in Jobs : pc[j] \in CriticalSteps => lock[mon[j]] > 0

\* No monitor ever has two OPEN incidents: what a transaction read before its
\* commit still decides right, whatever the API and other jobs did meanwhile
\* (incident_service.py:39 "cannot create two incidents").
AtMostOneOpen ==
  \A m \in Monitors : \A i, k \in OpenIncidents(incidents[m]) : i = k

\* The incidents agree with the checks that are stored: after two DOWN some
\* incident is unresolved, after two UP none is OPEN (incident_service.py:35-36).
IncidentsFollowChecks ==
  \A m \in Monitors :
    /\ checks[m] = <<"DOWN", "DOWN">> =>
         \E i \in DOMAIN incidents[m] : incidents[m][i].status # "RESOLVED"
    /\ checks[m] = <<"UP", "UP">> => OpenIncidents(incidents[m]) = {}

\* An alert is queued after the commit of its transition only, and once: no job
\* announces an incident that was rolled back, and no retry announces one again
\* (checker.py:147-160).
Announces(sent, log) ==
  /\ \A n \in DOMAIN sent :
       /\ sent[n].id \in DOMAIN log
       /\ sent[n].kind = "recovery" => log[sent[n].id].resolved
  /\ \A n, k \in DOMAIN sent : n # k => sent[n] # sent[k]

AlertsFollowCommits ==
  \A m \in Monitors : live[m] = "live" =>
    Announces(alerts[m], incidents[m]) /\ Announces(hooks[m], incidents[m])

\* Acknowledgements whose request found the incident OPEN and has not written it yet.
Acking == {<<req[r].mon, req[r].id>> : r \in {q \in Requests : req[q].op = "ack"}}

\* What the log of m keeps of an earlier one.
KeepsHistory(m, old, new) ==
  \A i \in DOMAIN old :
    /\ i \in DOMAIN new
    /\ old[i].acked => new[i].acked
    /\ old[i].resolved => new[i].resolved
    /\ new[i].status = "OPEN" => old[i].status = "OPEN"
    /\ old[i].status = "RESOLVED" /\ new[i].status # "RESOLVED" => <<m, i>> \in Acking

\* No incident leaves the log of a live monitor, none is opened again, and ack_at and
\* resolved_at, once set, stay set.  The status itself is no such history: a RESOLVED
\* incident is taken back by an acknowledgement that found it OPEN, and by nothing else
\* (incidents.py:100-113; see OnlyOpenIsAcked).
HistoryKept ==
  [][\A m \in Monitors :
       live'[m] = "live" => KeepsHistory(m, incidents[m], incidents'[m])]_vars

\* Checking a monitor is recording its checks one by one, each with its incident:
\* check_job, interrupted at any await, appears atomic.
Log == INSTANCE IncidentLog WITH acking <- Acking

ImplementsLog == Log!Spec

-----------------------------------------------------------------------------
(* Liveness.                                                               *)

JobProgress(j) ==
  \/ TakeLock(j) \/ SkipLocked(j) \/ LoadMonitor(j) \/ Probe(j) \/ SaveCheck(j)
  \/ ApplyFlapLogic(j) \/ Commit(j) \/ EnqueueAlert(j) \/ EnqueueWebhook(j)
  \/ ReleaseLock(j)

\* The cron runs, free slots take entries, jobs go on, the clock goes on: what the
\* worker's event loop does as long as one worker is alive.
Fairness ==
  /\ WF_vars(Tick)
  /\ WF_vars(EnqueueDueMonitors)
  /\ \A j \in Jobs :
       /\ WF_vars(\E m \in Monitors : StartJob(j, m))
       /\ WF_vars(JobProgress(j))
       /\ WF_vars(Timeout(j))

FairSpec == Spec /\ Fairness

\* Sites answer before job_timeout, at least from some time on.
PromptSpec == FairSpec /\ <>[][\A j \in Jobs : ~Timeout(j)]_vars

\* A monitor that is due is eventually checked, whatever crashes, shutdowns and
\* lost locks come before, so no crash leaves it locked for good (checker.py:9,
\* checker.py:26, settings.py:53, PROGRESS_LOG.md:396 "crash-safe").
DueIsChecked ==
  \A m \in Monitors :
    live[m] = "live" /\ ~paused[m] /\ due[m] = 0 ~> due[m] > 0 \/ paused[m] \/ live[m] # "live"

\* A changed url or interval is probed with, even when a check in flight during the
\* update overwrites its next_check_at (monitor_service.py:114-116, checker.py:132).
UpdateIsUsed ==
  \A m \in Monitors : \A v \in 1 .. MaxCalls :
    settings[m] = v ~> checkedWith[m] >= v \/ paused[m] \/ live[m] # "live"

-----------------------------------------------------------------------------
(* What the comments and documents say and the code does not keep.         *)

\* "never two incidents for the same outage" (PROGRESS_LOG.md:370): a monitor has
\* at most one unresolved incident.  An acknowledged one is not OPEN, so the next
\* DOWN check of the same outage opens another.
OneIncidentPerOutage ==
  \A m \in Monitors : \A i, k \in DOMAIN incidents[m] :
    incidents[m][i].status # "RESOLVED" /\ incidents[m][k].status # "RESOLVED" => i = k

\* "Only OPEN incidents can be acknowledged" (incidents.py:108; PROGRESS_LOG.md:469 "only
\* OPEN -> ACK"): an incident that shows ACK has no resolved_at.  A check may resolve it
\* between the test for OPEN and the UPDATE, which names the incident only.
OnlyOpenIsAcked ==
  \A m \in Monitors : \A i \in DOMAIN incidents[m] :
    incidents[m][i].status = "ACK" => ~incidents[m][i].resolved

\* "so we never miss a notification" (checker.py:154): when no job is at work on a
\* monitor, every transition of its incidents has been queued for alerting.
EveryTransitionAnnounced ==
  \A m \in Monitors : live[m] = "live" /\ (\A j \in Jobs : mon[j] # m) =>
    \A i \in DOMAIN incidents[m], kind \in {"open", "recovery"} :
      (kind = "recovery" => incidents[m][i].resolved) =>
        \E n \in DOMAIN alerts[m] : alerts[m][n] = [kind |-> kind, id |-> i]
=============================================================================
