--------------------------- MODULE CheckerProofs ---------------------------
(***************************************************************************)
(* The lock of check_job and what rests on it, proved for every number of   *)
(* monitors, job slots and requests and for all time bounds that satisfy    *)
(* LockAssumption.                                                          *)
(*                                                                          *)
(* The lock has no owner: DEL removes whatever is there, and time removes   *)
(* it too.  Mutual exclusion therefore needs an invariant that relates the  *)
(* age of a job to the time its lock has left.                              *)
(***************************************************************************)
EXTENDS Checker, FlapLogicProofs

\* A job past its SET NX has a lock that was set while the job was running.
LockCoversJob ==
  \A j \in Jobs : pc[j] \in CriticalSteps => lock[mon[j]] + age[j] >= LockTTL

\* job_timeout cuts a job off on time; only its cleanup may come later.
OnTime ==
  /\ \A j \in Jobs : pc[j] \in JobSteps \ {"release"} => age[j] <= JobTimeout
  /\ \A j \in Jobs : pc[j] = "idle" => age[j] = 0

LockInv == LockCoversJob /\ OnTime /\ MutualExclusion

\* A transaction that is about to open an incident found none OPEN, and nobody
\* has opened one since.
PlanStillRight ==
  \A j \in Jobs : pc[j] = "commit" /\ plan[j].kind = "open" =>
    OpenIncidents(incidents[mon[j]]) = {}

OpenInv == AtMostOneOpen /\ PlanStillRight

IInv == TypeOK /\ LockInv /\ OpenInv


-----------------------------------------------------------------------------
\* The program starts in the invariant: no job runs, no lock is set, nothing is OPEN.
LEMMA InitIInv == Init => IInv
<1> SUFFICES ASSUME Init PROVE IInv
  OBVIOUS
<1> USE TimeAssumption, LockAssumption DEF Init
<1>1. DbTypeOK
  <2>1. <<>> \in Seq(ProbeStatuses) /\ <<>> \in Seq(Incident)
    BY EmptySeq
  <2> QED BY <2>1 DEF DbTypeOK
<1>2. RedisTypeOK
  <2>1. <<>> \in Seq(Notes)
    BY EmptySeq
  <2> QED BY <2>1 DEF RedisTypeOK
<1>3. JobTypeOK
  BY DEF JobTypeOK, JobSteps, ProbeStatuses, Plans, NoPlan
<1>4. RequestTypeOK
  BY DEF RequestTypeOK, RequestRecords, NoRequest
<1>5. EnvTypeOK
  BY DEF EnvTypeOK
<1>6. LockInv
  BY DEF LockInv, LockCoversJob, OnTime, MutualExclusion, CriticalSteps, JobSteps
<1>7. OpenInv
  BY DEF OpenInv, AtMostOneOpen, PlanStillRight, OpenIncidents
<1> QED BY <1>1, <1>2, <1>3, <1>4, <1>5, <1>6, <1>7 DEF IInv, TypeOK

-----------------------------------------------------------------------------
(* Type correctness, one part of the state at a time.                      *)

\* Replacing one value of a function keeps its range.
LEMMA ExceptType ==
  ASSUME NEW S, NEW T, NEW f \in [S -> T], NEW x, NEW v \in T
  PROVE  [f EXCEPT ![x] = v] \in [S -> T]
  OBVIOUS

\* The parts of the state a step leaves alone keep their types.
LEMMA TypeKept ==
  ASSUME TypeOK
  PROVE  /\ UNCHANGED dbVars => DbTypeOK'
         /\ UNCHANGED <<redisVars, sched>> => RedisTypeOK'
         /\ UNCHANGED jobVars => JobTypeOK'
         /\ UNCHANGED req => RequestTypeOK'
         /\ UNCHANGED envVars => EnvTypeOK'
<1>1. UNCHANGED dbVars => DbTypeOK'
  BY DEF TypeOK, DbTypeOK, dbVars
<1>2. UNCHANGED <<redisVars, sched>> => RedisTypeOK'
  BY DEF TypeOK, RedisTypeOK, redisVars
<1>3. UNCHANGED jobVars => JobTypeOK'
  BY DEF TypeOK, JobTypeOK, jobVars
<1>4. UNCHANGED req => RequestTypeOK'
  BY DEF TypeOK, RequestTypeOK
<1>5. UNCHANGED envVars => EnvTypeOK'
  BY DEF TypeOK, EnvTypeOK, envVars
<1> QED BY <1>1, <1>2, <1>3, <1>4, <1>5

\* A job that goes on keeps the types of the slots' locals.
LEMMA GotoType ==
  ASSUME JobTypeOK, NEW j \in Jobs, pc[j] # "idle", NEW step \in JobSteps, Goto(j, step),
         used' \in [Jobs -> Nat], result' \in [Jobs -> ProbeStatuses],
         plan' \in [Jobs -> Plans],
         \A k \in Jobs : k # j => plan'[k] = plan[k],
         step \in {"alert", "webhook"} => plan'[j] \in Notes
  PROVE  JobTypeOK'
  BY DEF JobTypeOK, Goto

\* A job that ends leaves an empty slot.
LEMMA FinishType ==
  ASSUME JobTypeOK, NEW j \in Jobs, Finish(j)
  PROVE  JobTypeOK'
<1>1. 0 \in 0 .. JobTimeout + CleanupTime /\ NoPlan \in Plans /\ "UP" \in ProbeStatuses
  BY TimeAssumption DEF NoPlan, Plans, ProbeStatuses
<1> QED BY <1>1 DEF JobTypeOK, Finish

\* So does a job that is cancelled by its timeout or by a shutdown.
LEMMA CancelType ==
  ASSUME JobTypeOK, NEW j \in Jobs, pc[j] # "idle", CancelJob(j)
  PROVE  JobTypeOK'
<1>1. CASE pc[j] = "lock"
  BY <1>1, FinishType DEF CancelJob
<1>2. CASE pc[j] # "lock"
  BY <1>2, GotoType DEF CancelJob, JobTypeOK, JobSteps
<1> QED BY <1>1, <1>2

-----------------------------------------------------------------------------
\* Every step of the workers and of the API keeps every variable in its type.
LEMMA TypeStep == IInv /\ [Next]_vars => TypeOK'
<1> SUFFICES ASSUME IInv, [Next]_vars PROVE TypeOK'
  OBVIOUS
<1>0. /\ TypeOK
      /\ DbTypeOK /\ RedisTypeOK /\ JobTypeOK /\ RequestTypeOK /\ EnvTypeOK
  BY DEF IInv, TypeOK
<1> USE <1>0
<1>m. \A j \in Jobs : pc[j] # "idle" => mon[j] \in Monitors
  BY DEF JobTypeOK
<1>r. \A r \in Requests : req[r].op # "none" => req[r].mon \in Monitors
  BY DEF RequestTypeOK
<1>1. ASSUME EnqueueDueMonitors PROVE TypeOK'
  <2>1. UNCHANGED <<dbVars, jobVars, req>>
    BY <1>1 DEF EnqueueDueMonitors
  <2>2. RedisTypeOK'
    BY <1>1, TimeAssumption DEF EnqueueDueMonitors, RedisTypeOK
  <2>3. EnvTypeOK'
    BY <1>1 DEF EnqueueDueMonitors, EnvTypeOK
  <2> QED BY <2>1, <2>2, <2>3, TypeKept DEF TypeOK
<1>2. ASSUME NEW j \in Jobs, NEW m \in Monitors, StartJob(j, m) PROVE TypeOK'
  <2>1. UNCHANGED <<dbVars, req, envVars>>
    BY <1>2 DEF StartJob
  <2>2. RedisTypeOK'
    BY <1>2 DEF StartJob, RedisTypeOK
  <2>3. JobTypeOK'
    BY <1>2 DEF StartJob, JobTypeOK, JobSteps
  <2> QED BY <2>1, <2>2, <2>3, TypeKept DEF TypeOK
<1>3. ASSUME NEW j \in Jobs, TakeLock(j) PROVE TypeOK'
  <2>1. UNCHANGED <<dbVars, req, envVars>>
    BY <1>3 DEF TakeLock
  <2>2. RedisTypeOK'
    BY <1>3, <1>m, TimeAssumption DEF TakeLock, RedisTypeOK
  <2>3. JobTypeOK'
    BY <1>3, GotoType DEF TakeLock, JobTypeOK, JobSteps
  <2> QED BY <2>1, <2>2, <2>3, TypeKept DEF TypeOK
<1>4. ASSUME NEW j \in Jobs, SkipLocked(j) PROVE TypeOK'
  <2>1. UNCHANGED <<dbVars, redisVars, sched, req, envVars>>
    BY <1>4 DEF SkipLocked
  <2>2. JobTypeOK'
    BY <1>4, FinishType DEF SkipLocked
  <2> QED BY <2>1, <2>2, TypeKept DEF TypeOK
<1>5. ASSUME NEW j \in Jobs, LoadMonitor(j) PROVE TypeOK'
  <2>1. UNCHANGED <<dbVars, redisVars, sched, req, envVars>>
    BY <1>5 DEF LoadMonitor
  <2>2. JobTypeOK'
    <3>1. used' \in [Jobs -> Nat]
      BY <1>5, <1>m DEF LoadMonitor, JobTypeOK, DbTypeOK
    <3>2. /\ result' = result /\ plan' = plan /\ pc[j] # "idle"
          /\ Goto(j, "probe") \/ Goto(j, "release")
      BY <1>5 DEF LoadMonitor
    <3>3. result' \in [Jobs -> ProbeStatuses] /\ plan' \in [Jobs -> Plans]
      BY <3>2 DEF JobTypeOK
    <3> QED BY <3>1, <3>2, <3>3, GotoType DEF JobSteps
  <2> QED BY <2>1, <2>2, TypeKept DEF TypeOK
<1>6. ASSUME NEW j \in Jobs, Probe(j) PROVE TypeOK'
  <2>1. UNCHANGED <<dbVars, redisVars, sched, req, envVars>>
    BY <1>6 DEF Probe
  <2>2. JobTypeOK'
    BY <1>6, GotoType DEF Probe, JobTypeOK, EnvTypeOK, JobSteps
  <2> QED BY <2>1, <2>2, TypeKept DEF TypeOK
<1>7. ASSUME NEW j \in Jobs, SaveCheck(j) PROVE TypeOK'
  <2>1. UNCHANGED <<dbVars, redisVars, sched, req, envVars>>
    BY <1>7 DEF SaveCheck
  <2>2. JobTypeOK'
    BY <1>7, GotoType DEF SaveCheck, JobTypeOK, JobSteps
  <2> QED BY <2>1, <2>2, TypeKept DEF TypeOK
<1>8. ASSUME NEW j \in Jobs, ApplyFlapLogic(j) PROVE TypeOK'
  <2>1. UNCHANGED <<dbVars, redisVars, sched, req, envVars>>
    BY <1>8 DEF ApplyFlapLogic
  <2>2. JobTypeOK'
    <3>1. incidents[mon[j]] \in Seq(Incident) /\ pc[j] # "idle"
      BY <1>8, <1>m DEF ApplyFlapLogic, DbTypeOK
    <3>2. FlapPlan(LastTwo(Append(checks[mon[j]], result[j])), incidents[mon[j]]) \in Plans
      BY <1>8, <1>m, <3>1, FlapPlanType DEF IInv, OpenInv, AtMostOneOpen
    <3>3. /\ plan' \in [Jobs -> Plans]
          /\ \A k \in Jobs : k # j => plan'[k] = plan[k]
          /\ Goto(j, "commit")
      BY <1>8, <3>2 DEF ApplyFlapLogic, JobTypeOK
    <3>4. used' \in [Jobs -> Nat] /\ result' \in [Jobs -> ProbeStatuses]
      BY <1>8 DEF ApplyFlapLogic, JobTypeOK
    <3> QED BY <3>1, <3>3, <3>4, GotoType DEF JobSteps
  <2> QED BY <2>1, <2>2, TypeKept DEF TypeOK
<1>9. ASSUME NEW j \in Jobs, Commit(j) PROVE TypeOK'
  <2>1. UNCHANGED <<redisVars, sched, req, envVars>>
    BY <1>9 DEF Commit
  <2>2. DbTypeOK'
    <3>1. /\ mon[j] \in Monitors /\ plan[j] \in Plans
          /\ result[j] \in ProbeStatuses /\ used[j] \in Nat
      BY <1>9, <1>m DEF Commit, JobTypeOK
    <3>2. LastTwo(Append(checks[mon[j]], result[j])) \in Seq(ProbeStatuses)
      BY <3>1, AppendProperties, LastTwoType DEF DbTypeOK
    <3>3. ApplyPlan(incidents[mon[j]], plan[j]) \in Seq(Incident)
      BY <3>1, ApplyPlanType DEF DbTypeOK
    <3> QED BY <1>9, <3>1, <3>2, <3>3, TimeAssumption DEF Commit, DbTypeOK
  <2>3. JobTypeOK'
    BY <1>9, GotoType DEF Commit, JobTypeOK, JobSteps, Plans, Notes
  <2> QED BY <2>1, <2>2, <2>3, TypeKept DEF TypeOK
<1>10. ASSUME NEW j \in Jobs, EnqueueAlert(j) PROVE TypeOK'
  <2>1. UNCHANGED <<dbVars, req>>
    BY <1>10 DEF EnqueueAlert
  <2>2. RedisTypeOK'
    <3>1. mon[j] \in Monitors /\ plan[j] \in Notes
      BY <1>10 DEF EnqueueAlert, JobTypeOK
    <3>2. /\ Append(alerts[mon[j]], plan[j]) \in Seq(Notes)
          /\ Append(hooks[mon[j]], plan[j]) \in Seq(Notes)
      BY <3>1, AppendProperties DEF RedisTypeOK
    <3> QED BY <1>10, <3>1, <3>2 DEF EnqueueAlert, RedisTypeOK
  <2>3. JobTypeOK'
    BY <1>10, GotoType DEF EnqueueAlert, JobTypeOK, JobSteps
  <2>4. EnvTypeOK'
    BY <1>10 DEF EnqueueAlert, EnvTypeOK
  <2> QED BY <2>1, <2>2, <2>3, <2>4, TypeKept DEF TypeOK
<1>11. ASSUME NEW j \in Jobs, EnqueueWebhook(j) PROVE TypeOK'
  <2>1. UNCHANGED <<dbVars, req>>
    BY <1>11 DEF EnqueueWebhook
  <2>2. RedisTypeOK'
    <3>1. mon[j] \in Monitors /\ plan[j] \in Notes
      BY <1>11 DEF EnqueueWebhook, JobTypeOK
    <3>2. /\ Append(alerts[mon[j]], plan[j]) \in Seq(Notes)
          /\ Append(hooks[mon[j]], plan[j]) \in Seq(Notes)
      BY <3>1, AppendProperties DEF RedisTypeOK
    <3> QED BY <1>11, <3>1, <3>2 DEF EnqueueWebhook, RedisTypeOK
  <2>3. JobTypeOK'
    BY <1>11, GotoType DEF EnqueueWebhook, JobTypeOK, JobSteps
  <2>4. EnvTypeOK'
    BY <1>11 DEF EnqueueWebhook, EnvTypeOK
  <2> QED BY <2>1, <2>2, <2>3, <2>4, TypeKept DEF TypeOK
<1>12. ASSUME NEW j \in Jobs, ReleaseLock(j) PROVE TypeOK'
  <2>1. UNCHANGED <<dbVars, req, envVars>>
    BY <1>12 DEF ReleaseLock
  <2>2. RedisTypeOK'
    BY <1>12, <1>m, TimeAssumption DEF ReleaseLock, RedisTypeOK
  <2>3. JobTypeOK'
    BY <1>12, FinishType DEF ReleaseLock
  <2> QED BY <2>1, <2>2, <2>3, TypeKept DEF TypeOK
<1>13. ASSUME NEW j \in Jobs, Timeout(j) PROVE TypeOK'
  <2>1. UNCHANGED <<dbVars, redisVars, sched, req, envVars>>
    BY <1>13 DEF Timeout
  <2>2. JobTypeOK'
    BY <1>13, CancelType DEF Timeout, JobSteps
  <2> QED BY <2>1, <2>2, TypeKept DEF TypeOK
<1>14. ASSUME NEW j \in Jobs, Shutdown(j) PROVE TypeOK'
  <2>1. UNCHANGED <<dbVars, req>>
    BY <1>14 DEF Shutdown
  <2>2. RedisTypeOK'
    BY <1>14, <1>m DEF Shutdown, RedisTypeOK, JobSteps
  <2>3. JobTypeOK'
    BY <1>14, CancelType DEF Shutdown, JobSteps
  <2>4. EnvTypeOK'
    BY <1>14 DEF Shutdown, EnvTypeOK
  <2> QED BY <2>1, <2>2, <2>3, <2>4, TypeKept DEF TypeOK
<1>15. ASSUME NEW j \in Jobs, Crash(j) PROVE TypeOK'
  <2>1. UNCHANGED <<dbVars, req>>
    BY <1>15 DEF Crash
  <2>2. RedisTypeOK'
    <3>1. /\ mon[j] \in Monitors /\ UNCHANGED <<lock, alerts, hooks, sched>>
          /\ queue' = [queue EXCEPT ![mon[j]] = @ + 1] \/ queue' = queue
      BY <1>15, <1>m DEF Crash
    <3>2. CASE queue' = [queue EXCEPT ![mon[j]] = @ + 1]
      BY <3>1, <3>2 DEF RedisTypeOK
    <3>3. CASE queue' = queue
      BY <3>1, <3>3 DEF RedisTypeOK
    <3> QED BY <3>1, <3>2, <3>3
  <2>3. JobTypeOK'
    BY <1>15, FinishType DEF Crash
  <2>4. EnvTypeOK'
    BY <1>15 DEF Crash, EnvTypeOK
  <2> QED BY <2>1, <2>2, <2>3, <2>4, TypeKept DEF TypeOK
<1>16. ASSUME NEW m \in Monitors, CreateMonitor(m) PROVE TypeOK'
  <2>1. UNCHANGED <<redisVars, sched, jobVars, req, envVars>>
    BY <1>16 DEF CreateMonitor
  <2>2. DbTypeOK'
    BY <1>16 DEF CreateMonitor, DbTypeOK
  <2> QED BY <2>1, <2>2, TypeKept DEF TypeOK
<1>17. ASSUME NEW m \in Monitors, SiteFlips(m) PROVE TypeOK'
  <2>1. UNCHANGED <<dbVars, redisVars, sched, jobVars, req>>
    BY <1>17 DEF SiteFlips
  <2>2. EnvTypeOK'
    BY <1>17 DEF SiteFlips, EnvTypeOK, ProbeStatuses
  <2> QED BY <2>1, <2>2, TypeKept DEF TypeOK
<1>18. ASSUME NEW r \in Requests, NEW m \in Monitors, NEW op \in MonitorOps, ReadMonitor(r, m, op) PROVE TypeOK'
  <2>1. UNCHANGED <<dbVars, redisVars, sched, jobVars>>
    BY <1>18 DEF ReadMonitor
  <2>2. RequestTypeOK'
    BY <1>18 DEF ReadMonitor, RequestTypeOK, RequestRecords, MonitorOps, DbTypeOK
  <2>3. EnvTypeOK'
    BY <1>18 DEF ReadMonitor, EnvTypeOK
  <2> QED BY <2>1, <2>2, <2>3, TypeKept DEF TypeOK
<1>19. ASSUME NEW r \in Requests, NEW m \in Monitors, ReadIncident(r, m) PROVE TypeOK'
  <2>1. UNCHANGED <<dbVars, redisVars, sched, jobVars>>
    BY <1>19 DEF ReadIncident
  <2>2. RequestTypeOK'
    <3>1. OpenIncidents(incidents[m]) \subseteq Nat
      BY LenProperties DEF OpenIncidents, DbTypeOK
    <3> QED BY <1>19, <3>1 DEF ReadIncident, RequestTypeOK, RequestRecords
  <2>3. EnvTypeOK'
    BY <1>19 DEF ReadIncident, EnvTypeOK
  <2> QED BY <2>1, <2>2, <2>3, TypeKept DEF TypeOK
<1>20. ASSUME NEW r \in Requests, WritePaused(r) PROVE TypeOK'
  <2>1. UNCHANGED <<redisVars, sched, jobVars, envVars>>
    BY <1>20 DEF WritePaused
  <2>2. DbTypeOK'
    <3>1. paused' \in [Monitors -> BOOLEAN]
      BY <1>20, <1>r DEF WritePaused, DbTypeOK, RequestTypeOK, RequestRecords
    <3>2. due' \in [Monitors -> Nat]
      <4>1. due' = due \/ due' = [due EXCEPT ![req[r].mon] = 0]
        BY <1>20 DEF WritePaused
      <4>2. due \in [Monitors -> Nat]
        BY DEF DbTypeOK
      <4>3. [due EXCEPT ![req[r].mon] = 0] \in [Monitors -> Nat]
        BY <4>2, ExceptType
      <4> QED BY <4>1, <4>2, <4>3
    <3> QED BY <1>20, <3>1, <3>2 DEF WritePaused, DbTypeOK
  <2>3. RequestTypeOK'
    BY <1>20 DEF WritePaused, EndRequest, NoRequest, RequestTypeOK, RequestRecords
  <2> QED BY <2>1, <2>2, <2>3, TypeKept DEF TypeOK
<1>21. ASSUME NEW r \in Requests, WriteSettings(r) PROVE TypeOK'
  <2>1. UNCHANGED <<redisVars, sched, jobVars, envVars>>
    BY <1>21 DEF WriteSettings
  <2>2. DbTypeOK'
    <3>1. /\ req[r].mon \in Monitors
          /\ UNCHANGED <<live, paused, checks, checkedWith, incidents>>
      BY <1>21, <1>r DEF WriteSettings
    <3>2. CASE live[req[r].mon] = "live"
      <4>1. /\ settings' = [settings EXCEPT ![req[r].mon] = settings[req[r].mon] + 1]
            /\ due' = [due EXCEPT ![req[r].mon] = 0]
        BY <1>21, <3>2 DEF WriteSettings
      <4>2. /\ settings \in [Monitors -> Nat] /\ due \in [Monitors -> Nat]
            /\ settings[req[r].mon] + 1 \in Nat
        BY <3>1 DEF DbTypeOK
      <4>3. settings' \in [Monitors -> Nat] /\ due' \in [Monitors -> Nat]
        BY <4>1, <4>2, ExceptType
      <4> QED BY <3>1, <4>3 DEF DbTypeOK
    <3>3. CASE live[req[r].mon] # "live"
      BY <1>21, <3>1, <3>3 DEF WriteSettings, DbTypeOK
    <3> QED BY <3>2, <3>3
  <2>3. RequestTypeOK'
    BY <1>21 DEF WriteSettings, EndRequest, NoRequest, RequestTypeOK, RequestRecords
  <2> QED BY <2>1, <2>2, <2>3, TypeKept DEF TypeOK
<1>22. ASSUME NEW r \in Requests, DeleteMonitor(r) PROVE TypeOK'
  <2>1. UNCHANGED <<redisVars, sched, jobVars, envVars>>
    BY <1>22 DEF DeleteMonitor
  <2>2. DbTypeOK'
    BY <1>22 DEF DeleteMonitor, DbTypeOK, RequestTypeOK
  <2>3. RequestTypeOK'
    BY <1>22 DEF DeleteMonitor, EndRequest, NoRequest, RequestTypeOK, RequestRecords
  <2> QED BY <2>1, <2>2, <2>3, TypeKept DEF TypeOK
<1>23. ASSUME NEW r \in Requests, WriteAck(r) PROVE TypeOK'
  <2>1. UNCHANGED <<redisVars, sched, jobVars, envVars>>
    BY <1>23 DEF WriteAck
  <2>2. DbTypeOK'
    <3>1. req[r].mon \in Monitors /\ incidents[req[r].mon] \in Seq(Incident)
      BY <1>23, <1>r DEF WriteAck, DbTypeOK
    <3>2. [i \in DOMAIN incidents[req[r].mon] |->
             IF i = req[r].id THEN Acknowledge(incidents[req[r].mon][i])
                              ELSE incidents[req[r].mon][i]] \in Seq(Incident)
      BY <3>1, AcknowledgeType
    <3> QED BY <1>23, <3>1, <3>2 DEF WriteAck, DbTypeOK
  <2>3. RequestTypeOK'
    BY <1>23 DEF WriteAck, EndRequest, NoRequest, RequestTypeOK, RequestRecords
  <2> QED BY <2>1, <2>2, <2>3, TypeKept DEF TypeOK
<1>24. ASSUME Tick PROVE TypeOK'
  <2>1. UNCHANGED <<req, envVars>>
    BY <1>24 DEF Tick
  <2>2. DbTypeOK'
    BY <1>24 DEF Tick, DbTypeOK, Less
  <2>3. RedisTypeOK'
    BY <1>24, TimeAssumption DEF Tick, RedisTypeOK, Less
  <2>4. JobTypeOK'
    BY <1>24, TimeAssumption DEF Tick, JobTypeOK, WithinDeadline
  <2> QED BY <2>1, <2>2, <2>3, <2>4, TypeKept DEF TypeOK
<1>25. ASSUME UNCHANGED vars PROVE TypeOK'
  BY <1>25, TypeKept DEF vars, TypeOK
<1> QED BY <1>1, <1>2, <1>3, <1>4, <1>5, <1>6, <1>7, <1>8, <1>9, <1>10, <1>11, <1>12, <1>13, <1>14, <1>15, <1>16, <1>17, <1>18, <1>19, <1>20, <1>21, <1>22, <1>23, <1>24, <1>25 DEF Next, JobStep, RequestStep

-----------------------------------------------------------------------------
(* The lock.                                                               *)

\* A job in its critical section holds an unexpired lock: the lock's time and the
\* job's age add up to at least LockTTL, and the age is below it.
LEMMA CoveredIsHeld == TypeOK /\ LockCoversJob => HolderKeepsLock
<1> SUFFICES ASSUME TypeOK, LockCoversJob, NEW j \in Jobs, pc[j] \in CriticalSteps
             PROVE  lock[mon[j]] > 0
  BY DEF HolderKeepsLock
<1>1. /\ age[j] \in 0 .. JobTimeout + CleanupTime
      /\ mon[j] \in Monitors /\ lock[mon[j]] \in Nat
  BY DEF TypeOK, JobTypeOK, RedisTypeOK, CriticalSteps, JobSteps
<1>2. lock[mon[j]] + age[j] >= LockTTL
  BY DEF LockCoversJob
<1> QED BY <1>1, <1>2, TimeAssumption, LockAssumption

\* A job that goes on within its critical section touches nobody's lock.
LEMMA LockGoto ==
  ASSUME TypeOK, LockInv, NEW j \in Jobs, NEW step \in CriticalSteps, Goto(j, step),
         pc[j] \in CriticalSteps \ {"release"}, lock' = lock
  PROVE  LockInv'
<1>1. /\ pc' = [pc EXCEPT ![j] = step] /\ mon' = mon /\ age' = age /\ lock' = lock
      /\ pc \in [Jobs -> JobSteps \cup {"idle"}]
  BY DEF Goto, TypeOK, JobTypeOK
<1>2. \A k \in Jobs : pc'[k] \in CriticalSteps => pc[k] \in CriticalSteps
  BY <1>1
<1>3. LockCoversJob'
  BY <1>1, <1>2 DEF LockInv, LockCoversJob
<1>4. OnTime'
  BY <1>1 DEF LockInv, OnTime, CriticalSteps, JobSteps
<1>5. MutualExclusion'
  BY <1>1, <1>2 DEF LockInv, MutualExclusion
<1> QED BY <1>3, <1>4, <1>5 DEF LockInv

\* A job that ends, with or without its DEL, leaves the others' locks covered.
LEMMA LockFinish ==
  ASSUME TypeOK, LockInv, NEW j \in Jobs, Finish(j), lock' = lock
  PROVE  LockInv'
<1>1. /\ pc' = [pc EXCEPT ![j] = "idle"] /\ age' = [age EXCEPT ![j] = 0]
      /\ mon' = [mon EXCEPT ![j] = NoMonitor] /\ lock' = lock
      /\ pc \in [Jobs -> JobSteps \cup {"idle"}]
      /\ age \in [Jobs -> 0 .. JobTimeout + CleanupTime]
      /\ mon \in [Jobs -> Monitors \cup {NoMonitor}]
  BY DEF Finish, TypeOK, JobTypeOK
<1>2. \A k \in Jobs : pc'[k] \in JobSteps =>
         k # j /\ pc'[k] = pc[k] /\ mon'[k] = mon[k] /\ age'[k] = age[k]
  BY <1>1 DEF JobSteps
<1>3. LockCoversJob'
  BY <1>1, <1>2 DEF LockInv, LockCoversJob, CriticalSteps
<1>4. OnTime'
  BY <1>1, <1>2 DEF LockInv, OnTime, JobSteps
<1>5. MutualExclusion'
  BY <1>2 DEF LockInv, MutualExclusion, CriticalSteps
<1> QED BY <1>3, <1>4, <1>5 DEF LockInv

\* Cancelling a job leaves the lock to the finally block, so all locks stay covered.
LEMMA LockCancel ==
  ASSUME TypeOK, LockInv, NEW j \in Jobs, CancelJob(j), pc[j] \in JobSteps \ {"release"},
         lock' = lock
  PROVE  LockInv'
<1>1. CASE pc[j] = "lock"
  BY <1>1, LockFinish DEF CancelJob
<1>2. CASE pc[j] # "lock"
  BY <1>2, LockGoto DEF CancelJob, CriticalSteps, JobSteps
<1> QED BY <1>1, <1>2

\* Steps that touch neither a lock nor a job keep the lock invariant.
LEMMA LockKept ==
  ASSUME LockInv, UNCHANGED <<lock, pc, mon, age>>
  PROVE  LockInv'
  BY DEF LockInv, LockCoversJob, OnTime, MutualExclusion

\* Every step keeps locks covering their jobs: an expiry, a DEL or a SET NX never
\* takes the lock of a job that is still at work (checker.py:104-209).
LEMMA LockStep == IInv /\ [Next]_vars => LockInv'
<1> SUFFICES ASSUME IInv, [Next]_vars PROVE LockInv'
  OBVIOUS
<1>0. TypeOK /\ LockInv /\ HolderKeepsLock
  BY CoveredIsHeld DEF IInv, LockInv
<1>t. /\ pc \in [Jobs -> JobSteps \cup {"idle"}]
      /\ mon \in [Jobs -> Monitors \cup {NoMonitor}]
      /\ age \in [Jobs -> 0 .. JobTimeout + CleanupTime]
      /\ lock \in [Monitors -> 0 .. LockTTL]
      /\ \A j \in Jobs : pc[j] # "idle" => mon[j] \in Monitors
  BY <1>0 DEF TypeOK, JobTypeOK, RedisTypeOK
<1>1. ASSUME NEW j \in Jobs, NEW m \in Monitors, StartJob(j, m) PROVE LockInv'
  <2>1. /\ pc[j] = "idle" /\ pc' = [pc EXCEPT ![j] = "lock"]
        /\ mon' = [mon EXCEPT ![j] = m] /\ age' = age /\ lock' = lock
    BY <1>1 DEF StartJob
  <2>2. \A k \in Jobs : pc'[k] \in CriticalSteps =>
          k # j /\ pc'[k] = pc[k] /\ mon'[k] = mon[k]
    BY <2>1, <1>t DEF CriticalSteps
  <2>3. LockCoversJob'
    BY <2>1, <2>2, <1>0 DEF LockInv, LockCoversJob
  <2>4. OnTime'
    BY <2>1, <1>0, <1>t, TimeAssumption DEF LockInv, OnTime, JobSteps
  <2>5. MutualExclusion'
    BY <2>2, <1>0 DEF LockInv, MutualExclusion
  <2> QED BY <2>3, <2>4, <2>5 DEF LockInv
<1>2. ASSUME NEW j \in Jobs, TakeLock(j) PROVE LockInv'
  <2>1. /\ pc[j] = "lock" /\ lock[mon[j]] = 0 /\ mon[j] \in Monitors
        /\ lock' = [lock EXCEPT ![mon[j]] = LockTTL]
        /\ pc' = [pc EXCEPT ![j] = "load"] /\ mon' = mon /\ age' = age
    BY <1>2, <1>t DEF TakeLock, Goto
  <2>2. \A k \in Jobs : k # j /\ pc'[k] \in CriticalSteps =>
          pc[k] \in CriticalSteps /\ mon[k] # mon[j] /\ mon[k] \in Monitors
    BY <2>1, <1>0, <1>t DEF HolderKeepsLock, CriticalSteps, JobSteps
  <2>3. LockCoversJob'
    <3>1. lock'[mon'[j]] + age'[j] >= LockTTL
      BY <2>1, <1>t, TimeAssumption
    <3>2. ASSUME NEW k \in Jobs, k # j, pc'[k] \in CriticalSteps
          PROVE  lock'[mon'[k]] + age'[k] >= LockTTL
      BY <3>2, <2>1, <2>2, <1>t, <1>0 DEF LockInv, LockCoversJob
    <3> QED BY <3>1, <3>2 DEF LockCoversJob
  <2>4. OnTime'
    BY <2>1, <1>0, <1>t DEF LockInv, OnTime, JobSteps
  <2>5. MutualExclusion'
    BY <2>1, <2>2, <1>0 DEF LockInv, MutualExclusion
  <2> QED BY <2>3, <2>4, <2>5 DEF LockInv
<1>3. ASSUME NEW j \in Jobs, ReleaseLock(j) PROVE LockInv'
  <2>1. /\ pc[j] = "release" /\ lock' = [lock EXCEPT ![mon[j]] = 0]
        /\ pc' = [pc EXCEPT ![j] = "idle"] /\ age' = [age EXCEPT ![j] = 0]
        /\ mon' = [mon EXCEPT ![j] = NoMonitor]
    BY <1>3 DEF ReleaseLock, Finish
  <2>2. \A k \in Jobs : pc'[k] \in JobSteps =>
          k # j /\ pc'[k] = pc[k] /\ mon'[k] = mon[k] /\ age'[k] = age[k]
    BY <2>1, <1>t DEF JobSteps
  <2>3. \A k \in Jobs : pc'[k] \in CriticalSteps =>
          pc[k] \in CriticalSteps /\ mon[k] # mon[j] /\ mon[k] \in Monitors
    BY <2>1, <2>2, <1>0, <1>t DEF LockInv, MutualExclusion, CriticalSteps, JobSteps
  <2>4. LockCoversJob'
    BY <2>1, <2>2, <2>3, <1>0, <1>t DEF LockInv, LockCoversJob, CriticalSteps
  <2>5. OnTime'
    BY <2>1, <2>2, <1>0, <1>t DEF LockInv, OnTime, JobSteps
  <2>6. MutualExclusion'
    BY <2>2, <1>0 DEF LockInv, MutualExclusion, CriticalSteps
  <2> QED BY <2>4, <2>5, <2>6 DEF LockInv
<1>4. ASSUME Tick PROVE LockInv'
  <2>1. /\ pc' = pc /\ mon' = mon
        /\ age' = [k \in Jobs |-> IF pc[k] = "idle" THEN age[k] ELSE age[k] + 1]
        /\ lock' = [m \in Monitors |-> Less(lock[m])]
        /\ \A k \in Jobs : WithinDeadline(k)
    BY <1>4 DEF Tick
  <2>2. LockCoversJob'
    <3>1. ASSUME NEW k \in Jobs, pc'[k] \in CriticalSteps
          PROVE  lock'[mon'[k]] + age'[k] >= LockTTL
      <4>1. /\ pc[k] # "idle" /\ mon[k] \in Monitors /\ lock[mon[k]] > 0
            /\ lock[mon[k]] + age[k] >= LockTTL
        BY <3>1, <2>1, <1>0, <1>t
        DEF HolderKeepsLock, LockInv, LockCoversJob, CriticalSteps, JobSteps
      <4>2. lock'[mon'[k]] = lock[mon[k]] - 1 /\ age'[k] = age[k] + 1
        BY <4>1, <2>1, <1>t, TimeAssumption DEF Less
      <4> QED BY <4>1, <4>2, <1>t, TimeAssumption
    <3> QED BY <3>1 DEF LockCoversJob
  <2>3. OnTime'
    BY <2>1, <1>0, <1>t, TimeAssumption DEF LockInv, OnTime, WithinDeadline, JobSteps
  <2>4. MutualExclusion'
    BY <2>1, <1>0 DEF LockInv, MutualExclusion
  <2> QED BY <2>2, <2>3, <2>4 DEF LockInv
<1>5. ASSUME NEW j \in Jobs,
             \/ LoadMonitor(j) \/ Probe(j) \/ SaveCheck(j) \/ ApplyFlapLogic(j)
             \/ Commit(j) \/ EnqueueAlert(j) \/ EnqueueWebhook(j)
      PROVE  LockInv'
  <2>1. /\ pc[j] \in CriticalSteps \ {"release"} /\ lock' = lock
        /\ \E step \in CriticalSteps : Goto(j, step)
    BY <1>5
    DEF LoadMonitor, Probe, SaveCheck, ApplyFlapLogic, Commit, EnqueueAlert,
        EnqueueWebhook, CriticalSteps, JobSteps, redisVars, dbVars
  <2> QED BY <2>1, <1>0, LockGoto
<1>6. ASSUME NEW j \in Jobs, SkipLocked(j) \/ Crash(j) PROVE LockInv'
  BY <1>6, <1>0, LockFinish DEF SkipLocked, Crash, redisVars
<1>7. ASSUME NEW j \in Jobs, Timeout(j) \/ Shutdown(j) PROVE LockInv'
  BY <1>7, <1>0, LockCancel DEF Timeout, Shutdown, redisVars
<1>8. ASSUME \/ EnqueueDueMonitors
             \/ \E r \in Requests : RequestStep(r)
             \/ \E m \in Monitors : CreateMonitor(m) \/ SiteFlips(m)
             \/ UNCHANGED vars
      PROVE  LockInv'
  <2>1. UNCHANGED <<lock, pc, mon, age>>
    BY <1>8
    DEF EnqueueDueMonitors, RequestStep, ReadMonitor, ReadIncident, WritePaused,
        WriteSettings, DeleteMonitor, WriteAck, CreateMonitor, SiteFlips, vars,
        redisVars, jobVars
  <2> QED BY <2>1, <1>0, LockKept
<1> QED BY <1>1, <1>2, <1>3, <1>4, <1>5, <1>6, <1>7, <1>8 DEF Next, JobStep

-----------------------------------------------------------------------------
(* The incidents.                                                          *)

\* A step that opens no incident and brings no job to its commit keeps at most one
\* OPEN incident per monitor.
LEMMA OpenKept ==
  ASSUME TypeOK, OpenInv,
         \A m \in Monitors : OpenIncidents(incidents'[m]) \subseteq OpenIncidents(incidents[m]),
         \A j \in Jobs : pc'[j] = "commit" =>
           pc[j] = "commit" /\ plan'[j] = plan[j] /\ mon'[j] = mon[j]
  PROVE  OpenInv'
<1>1. \A j \in Jobs : pc[j] = "commit" => mon[j] \in Monitors
  BY DEF TypeOK, JobTypeOK
<1>2. AtMostOneOpen'
  BY DEF OpenInv, AtMostOneOpen
<1>3. PlanStillRight'
  BY <1>1 DEF OpenInv, PlanStillRight
<1> QED BY <1>2, <1>3 DEF OpenInv

\* What a job read before its commit still holds at the commit, because no other job
\* is in the critical section of its monitor and acknowledging opens nothing.
LEMMA OpenStep == IInv /\ [Next]_vars => OpenInv'
<1> SUFFICES ASSUME IInv, [Next]_vars PROVE OpenInv'
  OBVIOUS
<1>0. TypeOK /\ OpenInv /\ MutualExclusion
  BY DEF IInv, LockInv
<1>t. /\ pc \in [Jobs -> JobSteps \cup {"idle"}]
      /\ mon \in [Jobs -> Monitors \cup {NoMonitor}]
      /\ plan \in [Jobs -> Plans]
      /\ incidents \in [Monitors -> Seq(Incident)]
      /\ \A j \in Jobs : pc[j] # "idle" => mon[j] \in Monitors
  BY <1>0 DEF TypeOK, JobTypeOK, DbTypeOK
<1>1. ASSUME NEW j \in Jobs, ApplyFlapLogic(j) PROVE OpenInv'
  <2> DEFINE new == FlapPlan(LastTwo(Append(checks[mon[j]], result[j])), incidents[mon[j]])
  <2>1. /\ pc[j] = "flap" /\ mon[j] \in Monitors
        /\ pc' = [pc EXCEPT ![j] = "commit"]
        /\ mon' = mon /\ incidents' = incidents
        /\ plan' = [plan EXCEPT ![j] = new]
    BY <1>1, <1>t DEF ApplyFlapLogic, Goto, dbVars
  <2>2. new.kind = "open" => OpenIncidents(incidents[mon[j]]) = {}
    BY <2>1, <1>0, <1>t, FlapPlanType DEF OpenInv, AtMostOneOpen
  <2>3. PlanStillRight'
    BY <2>1, <2>2, <1>0, <1>t DEF OpenInv, PlanStillRight
  <2>4. AtMostOneOpen'
    BY <2>1, <1>0 DEF OpenInv, AtMostOneOpen
  <2> QED BY <2>3, <2>4 DEF OpenInv
<1>2. ASSUME NEW j \in Jobs, Commit(j) PROVE OpenInv'
  <2> DEFINE old == incidents[mon[j]]
             new == ApplyPlan(old, plan[j])
  <2>1. /\ pc[j] = "commit" /\ mon[j] \in Monitors /\ plan[j] \in Plans
        /\ incidents' = [incidents EXCEPT ![mon[j]] = new]
        /\ mon' = mon /\ plan' = plan
        /\ \E step \in {"release", "alert"} : pc' = [pc EXCEPT ![j] = step]
    BY <1>2, <1>t DEF Commit, Goto
  <2>2. old \in Seq(Incident)
    BY <2>1, <1>t
  <2>3. \A i, k \in OpenIncidents(new) : i = k
    <3>1. CASE plan[j].kind = "open"
      <4>1. OpenIncidents(old) = {}
        BY <3>1, <2>1, <1>0 DEF OpenInv, PlanStillRight
      <4>2. OpenIncidents(new) \subseteq OpenIncidents(old) \cup {Len(old) + 1}
        BY <3>1, <2>1, <2>2, ApplyPlanType
      <4> QED BY <4>1, <4>2
    <3>2. CASE plan[j].kind # "open"
      <4>1. OpenIncidents(new) \subseteq OpenIncidents(old)
        BY <3>2, <2>1, <2>2, ApplyPlanType
      <4> QED BY <4>1, <2>1, <1>0 DEF OpenInv, AtMostOneOpen
    <3> QED BY <3>1, <3>2
  <2>4. AtMostOneOpen'
    BY <2>1, <2>3, <1>0, <1>t DEF OpenInv, AtMostOneOpen
  <2>5. \A k \in Jobs : pc'[k] = "commit" =>
          pc[k] = "commit" /\ mon[k] # mon[j] /\ mon[k] \in Monitors
    BY <2>1, <1>0, <1>t DEF MutualExclusion, CriticalSteps, JobSteps
  <2>6. PlanStillRight'
    BY <2>1, <2>5, <1>0, <1>t DEF OpenInv, PlanStillRight
  <2> QED BY <2>4, <2>6 DEF OpenInv
<1>3. ASSUME NEW r \in Requests, DeleteMonitor(r) PROVE OpenInv'
  <2>1. /\ UNCHANGED <<pc, mon, plan>>
        /\ incidents' = [incidents EXCEPT ![req[r].mon] = <<>>]
    BY <1>3 DEF DeleteMonitor, jobVars
  <2>2. \A m \in Monitors : OpenIncidents(incidents'[m]) \subseteq OpenIncidents(incidents[m])
    BY <2>1, <1>t DEF OpenIncidents
  <2> QED BY <2>1, <2>2, <1>0, OpenKept
<1>4. ASSUME NEW r \in Requests, WriteAck(r) PROVE OpenInv'
  <2> DEFINE old == incidents[req[r].mon]
             new == [i \in DOMAIN old |-> IF i = req[r].id THEN Acknowledge(old[i]) ELSE old[i]]
  <2>1. /\ UNCHANGED <<pc, mon, plan>> /\ req[r].mon \in Monitors
        /\ incidents' = [incidents EXCEPT ![req[r].mon] = new]
    BY <1>4, <1>0 DEF WriteAck, jobVars, TypeOK, RequestTypeOK
  <2>2. OpenIncidents(new) \subseteq OpenIncidents(old)
    <3>1. old \in Seq(Incident)
      BY <2>1, <1>t
    <3> HIDE DEF old
    <3> QED BY <3>1, AcknowledgeType, Zenon
  <2>3. \A m \in Monitors : OpenIncidents(incidents'[m]) \subseteq OpenIncidents(incidents[m])
    BY <2>1, <2>2, <1>t
  <2> QED BY <2>1, <2>3, <1>0, OpenKept
<1>5. ASSUME NEW j \in Jobs,
             \/ TakeLock(j) \/ LoadMonitor(j) \/ Probe(j) \/ SaveCheck(j)
             \/ EnqueueAlert(j) \/ EnqueueWebhook(j)
      PROVE  OpenInv'
  <2>1. /\ UNCHANGED <<incidents, plan, mon>>
        /\ \E step \in JobSteps \ {"commit"} : pc' = [pc EXCEPT ![j] = step]
    BY <1>5
    DEF TakeLock, LoadMonitor, Probe, SaveCheck, EnqueueAlert, EnqueueWebhook, Goto,
        JobSteps, dbVars
  <2> QED BY <2>1, <1>0, <1>t, OpenKept
<1>6. ASSUME NEW j \in Jobs,
             \/ SkipLocked(j) \/ ReleaseLock(j) \/ Timeout(j) \/ Shutdown(j) \/ Crash(j)
             \/ \E m \in Monitors : StartJob(j, m)
      PROVE  OpenInv'
  <2>1. /\ incidents' = incidents
        /\ \E step \in {"idle", "release", "lock"} : pc' = [pc EXCEPT ![j] = step]
        /\ \A k \in Jobs : k # j => plan'[k] = plan[k] /\ mon'[k] = mon[k]
    BY <1>6, <1>t
    DEF SkipLocked, ReleaseLock, Timeout, Shutdown, Crash, StartJob, CancelJob, Finish,
        Goto, dbVars
  <2> QED BY <2>1, <1>0, <1>t, OpenKept
<1>7. ASSUME \/ EnqueueDueMonitors \/ Tick
             \/ \E m \in Monitors : CreateMonitor(m) \/ SiteFlips(m)
             \/ UNCHANGED vars
      PROVE  OpenInv'
  <2>1. UNCHANGED <<incidents, pc, plan, mon>>
    BY <1>7 DEF EnqueueDueMonitors, Tick, CreateMonitor, SiteFlips, vars, dbVars, jobVars
  <2> QED BY <2>1, <1>0, OpenKept
<1>8. ASSUME NEW r \in Requests,
             \/ \E m \in Monitors, op \in MonitorOps : ReadMonitor(r, m, op)
             \/ \E m \in Monitors : ReadIncident(r, m)
             \/ WritePaused(r) \/ WriteSettings(r)
      PROVE  OpenInv'
  <2>1. UNCHANGED <<incidents, pc, plan, mon>>
    BY <1>8 DEF ReadMonitor, ReadIncident, WritePaused, WriteSettings, dbVars, jobVars
  <2> QED BY <2>1, <1>0, OpenKept
<1> QED BY <1>1, <1>2, <1>3, <1>4, <1>5, <1>6, <1>7, <1>8 DEF Next, JobStep, RequestStep

-----------------------------------------------------------------------------
(* The theorems.                                                           *)

\* The inductive invariant holds: locks cover their jobs, jobs end on time, and a
\* decided transaction is still right.
THEOREM Invariant == Spec => []IInv
<1>1. IInv /\ [Next]_vars => IInv'
  BY TypeStep, LockStep, OpenStep DEF IInv
<1> QED BY InitIInv, <1>1, PTL DEF Spec

\* Every variable keeps its type, and a job that announces has an incident to announce
\* (checker.py:136-165).
THEOREM TypeCorrect == Spec => []TypeOK
<1>1. IInv => TypeOK
  BY DEF IInv
<1> QED BY Invariant, <1>1, PTL

\* Two workers never check the same monitor at the same time (checker.py:4), although
\* the lock expires and its DEL checks no owner.
THEOREM MutualExclusionHolds == Spec => []MutualExclusion
<1>1. IInv => MutualExclusion
  BY DEF IInv, LockInv
<1> QED BY Invariant, <1>1, PTL

\* A job between its SET NX and its DEL has an unexpired lock (checker.py:26, 111, 209).
THEOREM HolderKeepsLockHolds == Spec => []HolderKeepsLock
<1>1. IInv => HolderKeepsLock
  BY CoveredIsHeld DEF IInv, LockInv
<1> QED BY Invariant, <1>1, PTL

\* No monitor ever has two OPEN incidents (incident_service.py:39).
THEOREM AtMostOneOpenHolds == Spec => []AtMostOneOpen
<1>1. IInv => AtMostOneOpen
  BY DEF IInv, OpenInv
<1> QED BY Invariant, <1>1, PTL
=============================================================================
