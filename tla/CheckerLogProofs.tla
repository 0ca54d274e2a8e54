-------------------------- MODULE CheckerLogProofs --------------------------
(***************************************************************************)
(* What the stored checks, the incidents and the queued alerts say of one  *)
(* another, and that check_job, however its awaits interleave with other   *)
(* jobs and with the API, implements IncidentLog.                          *)
(*                                                                         *)
(* Between its reads and its commit a transaction holds the monitor's row  *)
(* and its job the monitor's lock, but an acknowledgement may be stored    *)
(* then. The argument is that such a decision is one the flap rule may     *)
(* still make of the log (MayDecide).                                      *)
(***************************************************************************)
EXTENDS CheckerProofs

\* A check is stored and its incident written only for a monitor that is there: the
\* foreign key holds its row from the INSERT on (checker.py:133-136).
WritersHaveMonitor ==
  \A j \in Jobs : pc[j] \in {"flap", "commit"} => live[mon[j]] = "live"

\* What a transaction is about to commit is what the flap rule makes of a log that
\* differs from the stored one by an acknowledgement at most.
PlanFollows ==
  \A j \in Jobs : pc[j] = "commit" =>
    MayDecide(LastTwo(Append(checks[mon[j]], result[j])), incidents[mon[j]], plan[j])

\* An incident is resolved once: neither an OPEN incident nor one that a transaction is
\* about to resolve has been resolved before.
ResolvedOnce ==
  /\ \A m \in Monitors : \A i \in OpenIncidents(incidents[m]) : ~incidents[m][i].resolved
  /\ \A j \in Jobs : pc[j] = "commit" /\ plan[j].kind = "recovery" =>
       ~incidents[mon[j]][plan[j].id].resolved

LogInv == WritersHaveMonitor /\ PlanFollows /\ ResolvedOnce /\ IncidentsFollowChecks

-----------------------------------------------------------------------------
(* The incidents and the checks.                                           *)

\* A step that writes neither checks nor incidents, deletes no monitor and brings no
\* job to its commit.
LEMMA LogKept ==
  ASSUME TypeOK, LogInv, UNCHANGED <<checks, incidents>>,
         \A m \in Monitors : live[m] = "live" => live'[m] = "live",
         \A j \in Jobs : pc'[j] = "flap" => mon'[j] = mon[j] /\ live[mon[j]] = "live",
         \A j \in Jobs : pc'[j] = "commit" =>
           /\ pc[j] = "commit" /\ mon'[j] = mon[j]
           /\ plan'[j] = plan[j] /\ result'[j] = result[j],
         \A j \in Jobs : pc'[j] \in {"flap", "commit"} => mon[j] \in Monitors
  PROVE  LogInv'
<1>1. WritersHaveMonitor'
  BY DEF LogInv, WritersHaveMonitor
<1>2. PlanFollows'
  BY DEF LogInv, PlanFollows
<1>3. ResolvedOnce'
  BY DEF LogInv, ResolvedOnce
<1>4. IncidentsFollowChecks'
  BY DEF LogInv, IncidentsFollowChecks
<1> QED BY <1>1, <1>2, <1>3, <1>4 DEF LogInv

\* At the start there are neither checks nor incidents.
LEMMA InitLogInv == Init => LogInv
<1> SUFFICES ASSUME Init PROVE LogInv
  OBVIOUS
<1>1. WritersHaveMonitor /\ PlanFollows
  BY DEF Init, WritersHaveMonitor, PlanFollows
<1>2. ResolvedOnce
  BY DEF Init, ResolvedOnce, OpenIncidents
<1>3. IncidentsFollowChecks
  BY DEF Init, IncidentsFollowChecks
<1> QED BY <1>1, <1>2, <1>3 DEF LogInv

\* The decision, made of what is stored at that moment (incident_service.py:44-70).
LEMMA LogDecide ==
  ASSUME TypeOK, OpenInv, LogInv, NEW j \in Jobs, ApplyFlapLogic(j)
  PROVE  LogInv'
<1> DEFINE recent == LastTwo(Append(checks[mon[j]], result[j]))
           log == incidents[mon[j]]
<1>1. /\ pc[j] = "flap" /\ mon[j] \in Monitors
      /\ pc' = [pc EXCEPT ![j] = "commit"]
      /\ UNCHANGED <<live, checks, incidents, mon, result>>
      /\ plan' = [plan EXCEPT ![j] = FlapPlan(recent, log)]
      /\ plan \in [Jobs -> Plans] /\ pc \in [Jobs -> JobSteps \cup {"idle"}]
  BY DEF ApplyFlapLogic, Goto, dbVars, TypeOK, JobTypeOK
<1>2. log \in Seq(Incident) /\ \A i, k \in OpenIncidents(log) : i = k
  BY <1>1 DEF TypeOK, DbTypeOK, OpenInv, AtMostOneOpen
<1>3. MayDecide(recent, log, FlapPlan(recent, log))
  BY DEF MayDecide, Sights
<1>4. FlapPlan(recent, log).kind = "recovery" => FlapPlan(recent, log).id \in OpenIncidents(log)
  BY <1>2, FlapPlanType
<1> HIDE DEF recent, log
<1>5. WritersHaveMonitor'
  BY <1>1 DEF LogInv, WritersHaveMonitor
<1>6. PlanFollows'
  <2>1. recent' = recent /\ log' = log
    BY <1>1 DEF recent, log
  <2> QED BY <1>1, <1>3, <2>1 DEF LogInv, PlanFollows, recent, log
<1>7. ResolvedOnce'
  BY <1>1, <1>4 DEF LogInv, ResolvedOnce, log
<1>8. IncidentsFollowChecks'
  BY <1>1 DEF LogInv, IncidentsFollowChecks
<1> QED BY <1>5, <1>6, <1>7, <1>8 DEF LogInv

\* The commit: what it writes follows from the decision, and nobody else is about to
\* commit for the same monitor (checker.py:121-145).
LEMMA LogCommit ==
  ASSUME TypeOK, MutualExclusion, OpenInv, LogInv, NEW j \in Jobs, Commit(j)
  PROVE  LogInv'
<1>1. PICK m, log, recent, new :
        /\ m \in Monitors /\ m = mon[j] /\ log = incidents[m] /\ new = ApplyPlan(log, plan[j])
        /\ recent = LastTwo(Append(checks[m], result[j]))
  BY DEF Commit, TypeOK, JobTypeOK
<1>2. /\ pc[j] = "commit"
      /\ \E step \in {"release", "alert"} : pc' = [pc EXCEPT ![j] = step]
      /\ UNCHANGED <<live, mon, plan, result>>
      /\ checks' = [checks EXCEPT ![m] = recent]
      /\ incidents' = [incidents EXCEPT ![m] = new]
  BY <1>1 DEF Commit, Goto
<1>3. /\ pc \in [Jobs -> JobSteps \cup {"idle"}]
      /\ checks \in [Monitors -> Seq(ProbeStatuses)] /\ incidents \in [Monitors -> Seq(Incident)]
      /\ plan[j] \in Plans
      /\ \A k \in Jobs : pc[k] # "idle" => mon[k] \in Monitors
  BY DEF TypeOK, JobTypeOK, DbTypeOK
<1>4. log \in Seq(Incident) /\ \A i, k \in OpenIncidents(log) : i = k
  BY <1>1, <1>3 DEF OpenInv, AtMostOneOpen
<1>5. MayDecide(recent, log, plan[j])
  BY <1>1, <1>2 DEF LogInv, PlanFollows
<1>6. \A k \in Jobs : pc'[k] \in {"flap", "commit"} =>
         pc[k] = pc'[k] /\ mon[k] # m /\ mon[k] \in Monitors
  BY <1>1, <1>2, <1>3 DEF MutualExclusion, CriticalSteps, JobSteps
<1>7. WritersHaveMonitor'
  BY <1>2, <1>6 DEF LogInv, WritersHaveMonitor
<1>8. PlanFollows'
  BY <1>2, <1>3, <1>6 DEF LogInv, PlanFollows
<1>9. ResolvedOnce'
  <2>1. ASSUME NEW i \in OpenIncidents(new) PROVE ~new[i].resolved
    <3>1. i \in DOMAIN new /\ new[i].status = "OPEN"
      BY DEF OpenIncidents
    <3>2. CASE i \notin DOMAIN log
      <4>1. new[i] = NewIncident
        BY <1>1, <1>3, <1>4, <3>1, <3>2, ApplyPlanAdds
      <4> QED BY <4>1 DEF NewIncident
    <3>3. CASE i \in DOMAIN log
      <4>1. new[i] = log[i]
        BY <1>1, <1>3, <1>4, <3>1, <3>3, ApplyPlanHistory
      <4>2. i \in OpenIncidents(incidents[m]) /\ new[i] = incidents[m][i]
        BY <1>1, <3>1, <3>3, <4>1 DEF OpenIncidents
      <4> QED BY <1>1, <4>2 DEF LogInv, ResolvedOnce
    <3> QED BY <3>2, <3>3
  <2>2. \A n \in Monitors : \A i \in OpenIncidents(incidents'[n]) : ~incidents'[n][i].resolved
    BY <1>2, <1>3, <2>1 DEF LogInv, ResolvedOnce
  <2>3. \A k \in Jobs : pc'[k] = "commit" /\ plan'[k].kind = "recovery" =>
          ~incidents'[mon'[k]][plan'[k].id].resolved
    BY <1>2, <1>3, <1>6 DEF LogInv, ResolvedOnce
  <2> QED BY <2>2, <2>3 DEF ResolvedOnce
<1>10. IncidentsFollowChecks'
  <2>1. Follows(recent, new)
    BY <1>1, <1>3, <1>4, <1>5, OutcomeFollows
  <2>2. \A n \in Monitors : IF n = m THEN checks'[n] = recent /\ incidents'[n] = new
                                     ELSE checks'[n] = checks[n] /\ incidents'[n] = incidents[n]
    BY <1>2, <1>3
  <2> QED BY <2>1, <2>2 DEF LogInv, IncidentsFollowChecks, Follows
<1> QED BY <1>7, <1>8, <1>9, <1>10 DEF LogInv

\* An acknowledgement, whatever was decided before it (routers/incidents.py:108-115).
LEMMA LogAck ==
  ASSUME TypeOK, OpenInv, LogInv, NEW r \in Requests, WriteAck(r)
  PROVE  LogInv'
<1>1. PICK m, log, id, new :
        /\ m \in Monitors /\ m = req[r].mon /\ log = incidents[m] /\ id = req[r].id
        /\ new = [i \in DOMAIN log |-> IF i = id THEN Acknowledge(log[i]) ELSE log[i]]
  BY DEF WriteAck, TypeOK, RequestTypeOK
<1>2. /\ UNCHANGED <<live, checks, pc, mon, plan, result>>
      /\ incidents' = [incidents EXCEPT ![m] = new]
  BY <1>1 DEF WriteAck, jobVars
<1>3. /\ incidents \in [Monitors -> Seq(Incident)]
      /\ \A j \in Jobs : pc[j] # "idle" => mon[j] \in Monitors
  BY DEF TypeOK, JobTypeOK, DbTypeOK
<1>4. log \in Seq(Incident) /\ \A i, k \in OpenIncidents(log) : i = k
  BY <1>1, <1>3 DEF OpenInv, AtMostOneOpen
<1>5. Acknowledged(log, id, new)
  BY <1>1, <1>4, AcknowledgeLeaves, Zenon
<1>6. \A n \in Monitors : incidents'[n] = IF n = m THEN new ELSE incidents[n]
  BY <1>2, <1>3
<1>7. \A i \in DOMAIN log :
         /\ i \in DOMAIN new /\ new[i].resolved = log[i].resolved
         /\ log[i].status # "RESOLVED" => new[i].status # "RESOLVED"
  BY <1>5 DEF Acknowledged
<1>8. DOMAIN new = DOMAIN log /\ OpenIncidents(new) \subseteq OpenIncidents(log)
  BY <1>5 DEF Acknowledged
<1>9. WritersHaveMonitor'
  BY <1>2 DEF LogInv, WritersHaveMonitor
<1>10. PlanFollows'
  <2>1. ASSUME NEW j \in Jobs, pc'[j] = "commit"
        PROVE  MayDecide(LastTwo(Append(checks[mon[j]], result[j])), incidents'[mon[j]], plan[j])
    <3>1. mon[j] \in Monitors /\ MayDecide(LastTwo(Append(checks[mon[j]], result[j])), incidents[mon[j]], plan[j])
      BY <1>2, <1>3, <2>1 DEF LogInv, PlanFollows
    <3>2. CASE mon[j] = m
      BY <1>1, <1>4, <1>5, <1>6, <3>1, <3>2, MayStillDecide
    <3>3. CASE mon[j] # m
      BY <1>6, <3>1, <3>3
    <3> QED BY <3>2, <3>3
  <2> QED BY <1>2, <2>1 DEF PlanFollows
<1>11. ResolvedOnce'
  <2>1. \A n \in Monitors : \A i \in OpenIncidents(incidents'[n]) : ~incidents'[n][i].resolved
    <3>1. \A i \in OpenIncidents(new) : i \in OpenIncidents(log) /\ i \in DOMAIN log
      BY <1>8 DEF OpenIncidents
    <3>2. \A i \in OpenIncidents(log) : ~log[i].resolved
      BY <1>1 DEF LogInv, ResolvedOnce
    <3> QED BY <1>6, <1>7, <3>1, <3>2 DEF LogInv, ResolvedOnce
  <2>2. ASSUME NEW j \in Jobs, pc[j] = "commit", plan[j].kind = "recovery"
        PROVE  ~incidents'[mon[j]][plan[j].id].resolved
    <3>1. mon[j] \in Monitors /\ ~incidents[mon[j]][plan[j].id].resolved
      BY <1>3, <2>2 DEF LogInv, ResolvedOnce
    <3>2. CASE mon[j] = m
      <4>1. plan[j].id \in DOMAIN log
        BY <1>1, <1>4, <2>2, <3>2, MayDecideType DEF LogInv, PlanFollows
      <4> QED BY <1>1, <1>6, <1>7, <3>1, <3>2, <4>1
    <3>3. CASE mon[j] # m
      BY <1>6, <3>1, <3>3
    <3> QED BY <3>2, <3>3
  <2> QED BY <1>2, <2>1, <2>2 DEF ResolvedOnce
<1>12. IncidentsFollowChecks'
  <2>1. ASSUME NEW n \in Monitors PROVE Follows(checks[n], incidents'[n])
    <3>1. Follows(checks[n], incidents[n])
      BY DEF LogInv, IncidentsFollowChecks, Follows
    <3>2. CASE n = m
      BY <1>1, <1>6, <1>7, <1>8, <3>1, <3>2 DEF Follows
    <3>3. CASE n # m
      BY <1>6, <3>1, <3>3
    <3> QED BY <3>2, <3>3
  <2> QED BY <1>2, <2>1 DEF IncidentsFollowChecks, Follows
<1> QED BY <1>9, <1>10, <1>11, <1>12 DEF LogInv

\* A deletion waits for the transactions that hold the monitor's row
\* (monitor_service.py:150-158).
LEMMA LogDelete ==
  ASSUME TypeOK, LogInv, NEW r \in Requests, DeleteMonitor(r)
  PROVE  LogInv'
<1>1. PICK m \in Monitors : m = req[r].mon
  BY DEF DeleteMonitor, TypeOK, RequestTypeOK
<1>2. /\ UNCHANGED <<pc, mon, plan, result>>
      /\ live' = [live EXCEPT ![m] = "deleted"]
      /\ checks' = [checks EXCEPT ![m] = <<>>]
      /\ incidents' = [incidents EXCEPT ![m] = <<>>]
      /\ \A j \in Jobs : pc[j] \in {"flap", "commit"} => mon[j] # m
  BY <1>1 DEF DeleteMonitor, KeyLocked, jobVars
<1>3. /\ \A j \in Jobs : pc[j] # "idle" => mon[j] \in Monitors
      /\ live \in [Monitors -> {"new", "live", "deleted"}]
      /\ checks \in [Monitors -> Seq(ProbeStatuses)] /\ incidents \in [Monitors -> Seq(Incident)]
  BY DEF TypeOK, JobTypeOK, DbTypeOK
<1>4. \A n \in Monitors :
         IF n = m THEN checks'[n] = <<>> /\ incidents'[n] = <<>>
                  ELSE /\ live'[n] = live[n] /\ checks'[n] = checks[n]
                       /\ incidents'[n] = incidents[n]
  BY <1>2, <1>3
<1>5. WritersHaveMonitor'
  BY <1>2, <1>3, <1>4 DEF LogInv, WritersHaveMonitor
<1>6. PlanFollows'
  BY <1>2, <1>3, <1>4 DEF LogInv, PlanFollows
<1>7. OpenIncidents(<<>>) = {}
  BY DEF OpenIncidents
<1>8. ResolvedOnce'
  BY <1>2, <1>3, <1>4, <1>7 DEF LogInv, ResolvedOnce
<1>9. IncidentsFollowChecks'
  BY <1>4, <1>7 DEF LogInv, IncidentsFollowChecks
<1> QED BY <1>5, <1>6, <1>8, <1>9 DEF LogInv

\* Every step of the workers and of the API.
LEMMA LogStep == IInv /\ LogInv /\ [Next]_vars => LogInv'
<1> SUFFICES ASSUME IInv, LogInv, [Next]_vars PROVE LogInv'
  OBVIOUS
<1>0. TypeOK /\ OpenInv /\ MutualExclusion
  BY DEF IInv, LockInv
<1>t. /\ pc \in [Jobs -> JobSteps \cup {"idle"}]
      /\ mon \in [Jobs -> Monitors \cup {NoMonitor}]
      /\ result \in [Jobs -> ProbeStatuses] /\ plan \in [Jobs -> Plans]
      /\ live \in [Monitors -> {"new", "live", "deleted"}]
      /\ \A j \in Jobs : pc[j] # "idle" => mon[j] \in Monitors
      /\ \A j \in Jobs : pc[j] = "flap" => live[mon[j]] = "live"
  BY <1>0 DEF TypeOK, JobTypeOK, DbTypeOK, LogInv, WritersHaveMonitor
<1>1. ASSUME NEW j \in Jobs, ApplyFlapLogic(j) PROVE LogInv'
  BY <1>0, <1>1, LogDecide
<1>2. ASSUME NEW j \in Jobs, Commit(j) PROVE LogInv'
  BY <1>0, <1>2, LogCommit
<1>3. ASSUME NEW r \in Requests, WriteAck(r) PROVE LogInv'
  BY <1>0, <1>3, LogAck
<1>4. ASSUME NEW r \in Requests, DeleteMonitor(r) PROVE LogInv'
  BY <1>0, <1>4, LogDelete
<1>5. ASSUME NEW j \in Jobs, SaveCheck(j) PROVE LogInv'
  <2>1. /\ pc[j] = "save" /\ UNCHANGED <<live, checks, incidents, mon, plan, result>>
        /\ pc' = [pc EXCEPT ![j] = IF live[mon[j]] = "live" THEN "flap" ELSE "release"]
    BY <1>5 DEF SaveCheck, Goto, dbVars
  <2> QED BY <2>1, <1>0, <1>t, LogKept
<1>6. ASSUME NEW j \in Jobs,
             \/ TakeLock(j) \/ LoadMonitor(j) \/ Probe(j) \/ EnqueueAlert(j)
             \/ EnqueueWebhook(j)
      PROVE  LogInv'
  <2>1. /\ UNCHANGED <<live, checks, incidents, mon, plan>>
        /\ \A k \in Jobs : pc[k] = "commit" /\ k # j => result'[k] = result[k]
        /\ \E step \in JobSteps \ {"flap", "commit"} : pc' = [pc EXCEPT ![j] = step]
    BY <1>6, <1>t
    DEF TakeLock, LoadMonitor, Probe, EnqueueAlert, EnqueueWebhook, Goto, JobSteps, dbVars
  <2> QED BY <2>1, <1>0, <1>t, LogKept
<1>7. ASSUME NEW j \in Jobs,
             \/ SkipLocked(j) \/ ReleaseLock(j) \/ Timeout(j) \/ Shutdown(j) \/ Crash(j)
             \/ \E m \in Monitors : StartJob(j, m)
      PROVE  LogInv'
  <2>1. /\ UNCHANGED <<live, checks, incidents>>
        /\ \E step \in {"idle", "release", "lock"} : pc' = [pc EXCEPT ![j] = step]
        /\ \A k \in Jobs : k # j =>
             plan'[k] = plan[k] /\ mon'[k] = mon[k] /\ result'[k] = result[k]
    BY <1>7, <1>t
    DEF SkipLocked, ReleaseLock, Timeout, Shutdown, Crash, StartJob, CancelJob, Finish,
        Goto, dbVars
  <2> QED BY <2>1, <1>0, <1>t, LogKept
<1>8. ASSUME NEW m \in Monitors, CreateMonitor(m) PROVE LogInv'
  <2>1. /\ UNCHANGED <<checks, incidents, pc, mon, plan, result>>
        /\ live' = [live EXCEPT ![m] = "live"]
    BY <1>8 DEF CreateMonitor, jobVars
  <2> QED BY <2>1, <1>0, <1>t, LogKept
<1>9. ASSUME \/ EnqueueDueMonitors \/ Tick
             \/ \E m \in Monitors : SiteFlips(m)
             \/ UNCHANGED vars
      PROVE  LogInv'
  <2>1. UNCHANGED <<live, checks, incidents, pc, mon, plan, result>>
    BY <1>9 DEF EnqueueDueMonitors, Tick, SiteFlips, vars, dbVars, jobVars
  <2> QED BY <2>1, <1>0, <1>t, LogKept
<1>10. ASSUME NEW r \in Requests,
             \/ \E m \in Monitors, op \in MonitorOps : ReadMonitor(r, m, op)
             \/ \E m \in Monitors : ReadIncident(r, m)
             \/ WritePaused(r) \/ WriteSettings(r)
      PROVE  LogInv'
  <2>1. UNCHANGED <<live, checks, incidents, pc, mon, plan, result>>
    BY <1>10 DEF ReadMonitor, ReadIncident, WritePaused, WriteSettings, dbVars, jobVars
  <2> QED BY <2>1, <1>0, <1>t, LogKept
<1> QED BY <1>1, <1>2, <1>3, <1>4, <1>5, <1>6, <1>7, <1>8, <1>9, <1>10
        DEF Next, JobStep, RequestStep

-----------------------------------------------------------------------------
(* The alerts.                                                             *)

\* Nothing was announced of a monitor that does not exist yet.
NothingBefore ==
  /\ \A m \in Monitors : live[m] = "new" => alerts[m] = <<>> /\ hooks[m] = <<>>
  /\ \A j \in Jobs : pc[j] \in {"alert", "webhook"} => live[mon[j]] # "new"

\* A note that is not among those that were sent.
Unsent(note, sent) == \A n \in DOMAIN sent : sent[n] # note

\* A job that is announcing has committed its transition, and has not announced it yet.
AnnouncesNew ==
  \A j \in Jobs : pc[j] \in {"alert", "webhook"} /\ live[mon[j]] = "live" =>
    /\ plan[j].id \in DOMAIN incidents[mon[j]]
    /\ plan[j].kind = "recovery" => incidents[mon[j]][plan[j].id].resolved
    /\ pc[j] = "alert" => Unsent(plan[j], alerts[mon[j]])
    /\ Unsent(plan[j], hooks[mon[j]])

AnnounceInv == NothingBefore /\ AnnouncesNew /\ AlertsFollowCommits

\* What was announced of a log holds of a log that knows at least as much.
LEMMA AnnouncedStays ==
  ASSUME NEW sent, NEW log, NEW new, Announces(sent, log),
         \A i \in DOMAIN log : i \in DOMAIN new /\ (log[i].resolved => new[i].resolved)
  PROVE  Announces(sent, new)
  BY DEF Announces

\* One more note, of an incident the log knows.
LEMMA AnnounceOne ==
  ASSUME NEW sent \in Seq(Notes), NEW log, Announces(sent, log),
         NEW note \in Notes, Unsent(note, sent),
         note.id \in DOMAIN log, note.kind = "recovery" => log[note.id].resolved,
         NEW more, more = Append(sent, note)
  PROVE  Announces(more, log)
<1>1. /\ Len(sent) \in Nat /\ DOMAIN sent = 1 .. Len(sent)
      /\ more \in Seq(Notes) /\ Len(more) = Len(sent) + 1
      /\ \A n \in 1 .. Len(sent) : more[n] = sent[n]
      /\ more[Len(sent) + 1] = note
  BY LenProperties, AppendProperties
<1>2. DOMAIN more = 1 .. Len(sent) + 1
  BY <1>1, LenProperties
<1>3. \A n \in DOMAIN more :
        \/ n \in DOMAIN sent /\ more[n] = sent[n]
        \/ n = Len(sent) + 1 /\ more[n] = note
  BY <1>1, <1>2
<1>4. \A n \in DOMAIN more :
        /\ more[n].id \in DOMAIN log
        /\ more[n].kind = "recovery" => log[more[n].id].resolved
  BY <1>3 DEF Announces
<1>5. \A n, k \in DOMAIN more : n # k => more[n] # more[k]
  BY <1>3 DEF Announces, Unsent
<1> QED BY <1>4, <1>5 DEF Announces

\* A step that queues nothing, writes no incident and commits nothing; a monitor may be
\* created.
LEMMA AnnounceKept ==
  ASSUME TypeOK, AnnounceInv, UNCHANGED <<incidents, alerts, hooks>>,
         \A m \in Monitors : live'[m] = live[m] \/ (live[m] = "new" /\ live'[m] = "live"),
         \A j \in Jobs : pc'[j] = "alert" =>
           pc[j] = "alert" /\ mon'[j] = mon[j] /\ plan'[j] = plan[j],
         \A j \in Jobs : pc'[j] = "webhook" =>
           pc[j] = "webhook" /\ mon'[j] = mon[j] /\ plan'[j] = plan[j]
  PROVE  AnnounceInv'
<1>1. \A j \in Jobs : pc[j] \in {"alert", "webhook"} => mon[j] \in Monitors
  BY DEF TypeOK, JobTypeOK
<1>2. NothingBefore'
  BY <1>1 DEF AnnounceInv, NothingBefore
<1>3. AnnouncesNew'
  BY <1>1 DEF AnnounceInv, AnnouncesNew, NothingBefore
<1>4. AlertsFollowCommits'
  <2>1. ASSUME NEW m \in Monitors, live'[m] = "live"
        PROVE  Announces(alerts[m], incidents[m]) /\ Announces(hooks[m], incidents[m])
    <3>1. CASE live[m] = "live"
      BY <3>1 DEF AnnounceInv, AlertsFollowCommits
    <3>2. CASE live[m] = "new"
      BY <3>2 DEF AnnounceInv, NothingBefore, Announces
    <3> QED BY <2>1, <3>1, <3>2
  <2> QED BY <2>1 DEF AlertsFollowCommits
<1> QED BY <1>2, <1>3, <1>4 DEF AnnounceInv

\* A step of a job that has something to announce; no other job is announcing for
\* the same monitor.
LEMMA AnnounceSend ==
  ASSUME TypeOK, MutualExclusion, AnnounceInv, NEW j \in Jobs,
         EnqueueAlert(j) \/ EnqueueWebhook(j)
  PROVE  AnnounceInv'
<1>1. PICK m \in Monitors, note \in Notes : m = mon[j] /\ note = plan[j]
  BY DEF EnqueueAlert, EnqueueWebhook, TypeOK, JobTypeOK
<1>2. /\ pc[j] \in {"alert", "webhook"} /\ UNCHANGED <<live, incidents, mon, plan>>
      /\ pc' = [pc EXCEPT ![j] = IF pc[j] = "alert" THEN "webhook" ELSE "release"]
      /\ \/ alerts' = alerts
         \/ pc[j] = "alert" /\ alerts' = [alerts EXCEPT ![m] = Append(@, note)]
      /\ \/ hooks' = hooks
         \/ pc[j] = "webhook" /\ hooks' = [hooks EXCEPT ![m] = Append(@, note)]
  <2>1. CASE EnqueueAlert(j)
    BY <1>1, <2>1 DEF EnqueueAlert, Goto, dbVars
  <2>2. CASE EnqueueWebhook(j)
    BY <1>1, <2>2 DEF EnqueueWebhook, Goto, dbVars
  <2> QED BY <2>1, <2>2
<1>3. /\ pc \in [Jobs -> JobSteps \cup {"idle"}]
      /\ alerts \in [Monitors -> Seq(Notes)] /\ hooks \in [Monitors -> Seq(Notes)]
      /\ \A k \in Jobs : pc[k] # "idle" => mon[k] \in Monitors
  BY DEF TypeOK, JobTypeOK, RedisTypeOK
<1>4. live[m] # "new"
  BY <1>1, <1>2 DEF AnnounceInv, NothingBefore
<1>5. \A k \in Jobs : k # j /\ pc'[k] \in {"alert", "webhook"} =>
         pc[k] = pc'[k] /\ mon[k] # m /\ mon[k] \in Monitors
  BY <1>1, <1>2, <1>3 DEF MutualExclusion, CriticalSteps, JobSteps
<1>6. \A n \in Monitors : n # m => alerts'[n] = alerts[n] /\ hooks'[n] = hooks[n]
  BY <1>2, <1>3
<1>7. NothingBefore'
  BY <1>1, <1>2, <1>3, <1>4, <1>6 DEF AnnounceInv, NothingBefore
<1>8. live[m] = "live" =>
        /\ note.id \in DOMAIN incidents[m]
        /\ note.kind = "recovery" => incidents[m][note.id].resolved
        /\ pc[j] = "alert" => Unsent(note, alerts[m])
        /\ Unsent(note, hooks[m])
  BY <1>1, <1>2 DEF AnnounceInv, AnnouncesNew
<1>9. AnnouncesNew'
  <2>1. ASSUME NEW k \in Jobs, k # j, pc'[k] \in {"alert", "webhook"}, live[mon[k]] = "live"
        PROVE  /\ plan[k].id \in DOMAIN incidents[mon[k]]
               /\ plan[k].kind = "recovery" => incidents[mon[k]][plan[k].id].resolved
               /\ pc'[k] = "alert" => Unsent(plan[k], alerts'[mon[k]])
               /\ Unsent(plan[k], hooks'[mon[k]])
    BY <1>5, <1>6, <2>1 DEF AnnounceInv, AnnouncesNew
  <2>2. pc'[j] \in {"alert", "webhook"} => pc'[j] = "webhook" /\ hooks' = hooks
    BY <1>2, <1>3
  <2> QED BY <1>1, <1>2, <1>8, <2>1, <2>2 DEF AnnouncesNew
<1>10. AlertsFollowCommits'
  <2>1. ASSUME live[m] = "live"
        PROVE  Announces(alerts'[m], incidents[m]) /\ Announces(hooks'[m], incidents[m])
    <3>1. /\ Announces(alerts[m], incidents[m]) /\ Announces(hooks[m], incidents[m])
          /\ alerts[m] \in Seq(Notes) /\ hooks[m] \in Seq(Notes)
      BY <1>3, <2>1 DEF AnnounceInv, AlertsFollowCommits
    <3>2. Announces(alerts'[m], incidents[m])
      <4>1. CASE alerts' = alerts
        BY <3>1, <4>1
      <4>2. CASE pc[j] = "alert" /\ alerts' = [alerts EXCEPT ![m] = Append(@, note)]
        <5>1. alerts'[m] = Append(alerts[m], note)
          BY <1>3, <4>2
        <5> QED BY <1>8, <2>1, <3>1, <4>2, <5>1, AnnounceOne
      <4> QED BY <1>2, <4>1, <4>2
    <3>3. Announces(hooks'[m], incidents[m])
      <4>1. CASE hooks' = hooks
        BY <3>1, <4>1
      <4>2. CASE pc[j] = "webhook" /\ hooks' = [hooks EXCEPT ![m] = Append(@, note)]
        <5>1. hooks'[m] = Append(hooks[m], note)
          BY <1>3, <4>2
        <5> QED BY <1>8, <2>1, <3>1, <5>1, AnnounceOne
      <4> QED BY <1>2, <4>1, <4>2
    <3> QED BY <3>2, <3>3
  <2> QED BY <1>2, <1>6, <2>1 DEF AnnounceInv, AlertsFollowCommits
<1> QED BY <1>7, <1>9, <1>10 DEF AnnounceInv

\* The commit of a transition comes before its announcement: the incident is new, or
\* has just been resolved for the first time.
LEMMA AnnounceCommit ==
  ASSUME TypeOK, MutualExclusion, OpenInv, LogInv, AnnounceInv, NEW j \in Jobs, Commit(j)
  PROVE  AnnounceInv'
<1>1. PICK m, note, log, new :
        /\ m \in Monitors /\ note \in Plans /\ m = mon[j] /\ note = plan[j]
        /\ log = incidents[m] /\ new = ApplyPlan(log, note)
  BY DEF Commit, TypeOK, JobTypeOK
<1>2. /\ pc[j] = "commit"
      /\ pc' = [pc EXCEPT ![j] = IF note.kind = "none" THEN "release" ELSE "alert"]
      /\ UNCHANGED <<live, mon, plan, alerts, hooks>>
      /\ incidents' = [incidents EXCEPT ![m] = new]
  BY <1>1 DEF Commit, Goto, redisVars
<1>3. /\ pc \in [Jobs -> JobSteps \cup {"idle"}]
      /\ incidents \in [Monitors -> Seq(Incident)]
      /\ \A k \in Jobs : pc[k] # "idle" => mon[k] \in Monitors
  BY DEF TypeOK, JobTypeOK, DbTypeOK
<1>4. /\ log \in Seq(Incident) /\ \A i, k \in OpenIncidents(log) : i = k
      /\ Len(log) \in Nat /\ DOMAIN log = 1 .. Len(log)
  BY <1>1, <1>3, LenProperties DEF OpenInv, AtMostOneOpen
<1>5. live[m] = "live"
  BY <1>1, <1>2 DEF LogInv, WritersHaveMonitor
<1>6. /\ note.kind = "open" => note.id = Len(log) + 1
      /\ note.kind = "recovery" => note.id \in DOMAIN log /\ ~log[note.id].resolved
  BY <1>1, <1>2, <1>4, MayDecideType DEF LogInv, PlanFollows, ResolvedOnce
<1>7. /\ \A i \in DOMAIN log : i \in DOMAIN new /\ (log[i].resolved => new[i].resolved)
      /\ note.kind # "none" => note.id \in DOMAIN new
      /\ note.kind = "recovery" => new[note.id].resolved
  <2>1. \A i \in DOMAIN log : i \in DOMAIN new /\ (log[i].resolved => new[i].resolved)
    BY <1>1, <1>4, ApplyPlanHistory
  <2>2. note.kind = "recovery" => note.id \in DOMAIN new /\ new[note.id].resolved
    BY <1>1, <1>4, <1>6, ApplyPlanHistory
  <2>3. note.kind = "open" => note.id \in DOMAIN new
    BY <1>1, <1>4, <1>6, ApplyPlanAdds
  <2> QED BY <1>1, <2>1, <2>2, <2>3 DEF Plans
<1>8. Announces(alerts[m], log) /\ Announces(hooks[m], log)
  BY <1>1, <1>5 DEF AnnounceInv, AlertsFollowCommits
<1>9. note.kind # "none" => Unsent(note, alerts[m]) /\ Unsent(note, hooks[m])
  <2>1. Len(log) + 1 \notin DOMAIN log
    BY <1>4
  <2> QED BY <1>1, <1>6, <1>8, <2>1 DEF Unsent, Announces, Plans
<1>10. \A k \in Jobs : k # j /\ pc'[k] \in {"alert", "webhook"} =>
          pc[k] = pc'[k] /\ mon[k] # m /\ mon[k] \in Monitors
  BY <1>1, <1>2, <1>3 DEF MutualExclusion, CriticalSteps, JobSteps
<1>11. \A n \in Monitors : incidents'[n] = IF n = m THEN new ELSE incidents[n]
  BY <1>2, <1>3
<1>12. NothingBefore'
  BY <1>1, <1>2, <1>5, <1>10 DEF AnnounceInv, NothingBefore
<1>13. AnnouncesNew'
  <2>1. ASSUME NEW k \in Jobs, k # j, pc'[k] \in {"alert", "webhook"}, live[mon[k]] = "live"
        PROVE  /\ plan[k].id \in DOMAIN incidents'[mon[k]]
               /\ plan[k].kind = "recovery" => incidents'[mon[k]][plan[k].id].resolved
               /\ pc'[k] = "alert" => Unsent(plan[k], alerts[mon[k]])
               /\ Unsent(plan[k], hooks[mon[k]])
    BY <1>10, <1>11, <2>1 DEF AnnounceInv, AnnouncesNew
  <2>2. pc'[j] \in {"alert", "webhook"} => note.kind # "none"
    BY <1>2, <1>3
  <2> QED BY <1>1, <1>2, <1>7, <1>9, <1>11, <2>1, <2>2 DEF AnnouncesNew
<1>14. AlertsFollowCommits'
  <2>1. Announces(alerts[m], new) /\ Announces(hooks[m], new)
    BY <1>7, <1>8, AnnouncedStays
  <2> QED BY <1>2, <1>11, <2>1 DEF AnnounceInv, AlertsFollowCommits
<1> QED BY <1>12, <1>13, <1>14 DEF AnnounceInv

\* An acknowledgement takes back nothing that was announced.
LEMMA AnnounceAck ==
  ASSUME TypeOK, AnnounceInv, NEW r \in Requests, WriteAck(r)
  PROVE  AnnounceInv'
<1>1. PICK m, log, id, new :
        /\ m \in Monitors /\ m = req[r].mon /\ log = incidents[m] /\ id = req[r].id
        /\ new = [i \in DOMAIN log |-> IF i = id THEN Acknowledge(log[i]) ELSE log[i]]
  BY DEF WriteAck, TypeOK, RequestTypeOK
<1>2. /\ UNCHANGED <<live, alerts, hooks, pc, mon, plan>>
      /\ incidents' = [incidents EXCEPT ![m] = new]
  BY <1>1 DEF WriteAck, jobVars, redisVars
<1>3. /\ incidents \in [Monitors -> Seq(Incident)]
      /\ \A j \in Jobs : pc[j] # "idle" => mon[j] \in Monitors
  BY DEF TypeOK, JobTypeOK, DbTypeOK
<1>4. log \in Seq(Incident)
  BY <1>1, <1>3
<1>5. Acknowledged(log, id, new)
  BY <1>1, <1>4, AcknowledgeLeaves, Zenon
<1>6. \A n \in Monitors : incidents'[n] = IF n = m THEN new ELSE incidents[n]
  BY <1>2, <1>3
<1>7. \A n \in Monitors : \A i \in DOMAIN incidents[n] :
        /\ i \in DOMAIN incidents'[n]
        /\ incidents[n][i].resolved => incidents'[n][i].resolved
  <2>1. \A i \in DOMAIN log : i \in DOMAIN new /\ new[i].resolved = log[i].resolved
    BY <1>5 DEF Acknowledged
  <2> QED BY <1>1, <1>6, <2>1
<1>8. NothingBefore'
  BY <1>2 DEF AnnounceInv, NothingBefore
<1>9. AnnouncesNew'
  BY <1>2, <1>3, <1>7 DEF AnnounceInv, AnnouncesNew
<1>10. AlertsFollowCommits'
  BY <1>2, <1>7, AnnouncedStays DEF AnnounceInv, AlertsFollowCommits
<1> QED BY <1>8, <1>9, <1>10 DEF AnnounceInv

\* A deleted monitor is announced no more of; its note may still be queued.
LEMMA AnnounceDelete ==
  ASSUME TypeOK, AnnounceInv, NEW r \in Requests, DeleteMonitor(r)
  PROVE  AnnounceInv'
<1>1. PICK m \in Monitors : m = req[r].mon
  BY DEF DeleteMonitor, TypeOK, RequestTypeOK
<1>2. /\ UNCHANGED <<alerts, hooks, pc, mon, plan>>
      /\ live' = [live EXCEPT ![m] = "deleted"]
      /\ incidents' = [incidents EXCEPT ![m] = <<>>]
  BY <1>1 DEF DeleteMonitor, jobVars, redisVars
<1>3. /\ \A j \in Jobs : pc[j] # "idle" => mon[j] \in Monitors
      /\ live \in [Monitors -> {"new", "live", "deleted"}]
      /\ incidents \in [Monitors -> Seq(Incident)]
  BY DEF TypeOK, JobTypeOK, DbTypeOK
<1>4. \A n \in Monitors :
         IF n = m THEN live'[n] = "deleted"
                  ELSE live'[n] = live[n] /\ incidents'[n] = incidents[n]
  BY <1>2, <1>3
<1>5. NothingBefore'
  BY <1>2, <1>3, <1>4 DEF AnnounceInv, NothingBefore
<1>6. AnnouncesNew'
  BY <1>2, <1>3, <1>4 DEF AnnounceInv, AnnouncesNew
<1>7. AlertsFollowCommits'
  BY <1>2, <1>4 DEF AnnounceInv, AlertsFollowCommits
<1> QED BY <1>5, <1>6, <1>7 DEF AnnounceInv

\* At the start nothing was announced.
LEMMA InitAnnounceInv == Init => AnnounceInv
  BY DEF Init, AnnounceInv, NothingBefore, AnnouncesNew, AlertsFollowCommits, Announces

\* Every step of the workers and of the API.
LEMMA AnnounceStep == IInv /\ LogInv /\ AnnounceInv /\ [Next]_vars => AnnounceInv'
<1> SUFFICES ASSUME IInv, LogInv, AnnounceInv, [Next]_vars PROVE AnnounceInv'
  OBVIOUS
<1>0. TypeOK /\ OpenInv /\ MutualExclusion
  BY DEF IInv, LockInv
<1>t. /\ pc \in [Jobs -> JobSteps \cup {"idle"}]
      /\ mon \in [Jobs -> Monitors \cup {NoMonitor}]
      /\ plan \in [Jobs -> Plans]
      /\ live \in [Monitors -> {"new", "live", "deleted"}]
  BY <1>0 DEF TypeOK, JobTypeOK, DbTypeOK
<1>1. ASSUME NEW j \in Jobs, EnqueueAlert(j) \/ EnqueueWebhook(j) PROVE AnnounceInv'
  BY <1>0, <1>1, AnnounceSend
<1>2. ASSUME NEW j \in Jobs, Commit(j) PROVE AnnounceInv'
  BY <1>0, <1>2, AnnounceCommit
<1>3. ASSUME NEW r \in Requests, WriteAck(r) PROVE AnnounceInv'
  BY <1>0, <1>3, AnnounceAck
<1>4. ASSUME NEW r \in Requests, DeleteMonitor(r) PROVE AnnounceInv'
  BY <1>0, <1>4, AnnounceDelete
<1>5. ASSUME NEW j \in Jobs,
             \/ TakeLock(j) \/ LoadMonitor(j) \/ Probe(j) \/ SaveCheck(j)
             \/ ApplyFlapLogic(j)
      PROVE  AnnounceInv'
  <2>1. /\ UNCHANGED <<live, incidents, alerts, hooks, mon>>
        /\ \A k \in Jobs : k # j => plan'[k] = plan[k]
        /\ \E step \in JobSteps \ {"alert", "webhook"} : pc' = [pc EXCEPT ![j] = step]
    BY <1>5, <1>t
    DEF TakeLock, LoadMonitor, Probe, SaveCheck, ApplyFlapLogic, Goto, JobSteps, dbVars,
        redisVars
  <2> QED BY <2>1, <1>0, <1>t, AnnounceKept
<1>6. ASSUME NEW j \in Jobs,
             \/ SkipLocked(j) \/ ReleaseLock(j) \/ Timeout(j) \/ Shutdown(j) \/ Crash(j)
             \/ \E m \in Monitors : StartJob(j, m)
      PROVE  AnnounceInv'
  <2>1. /\ UNCHANGED <<live, incidents, alerts, hooks>>
        /\ \E step \in {"idle", "release", "lock"} : pc' = [pc EXCEPT ![j] = step]
        /\ \A k \in Jobs : k # j => plan'[k] = plan[k] /\ mon'[k] = mon[k]
    BY <1>6, <1>t
    DEF SkipLocked, ReleaseLock, Timeout, Shutdown, Crash, StartJob, CancelJob, Finish,
        Goto, dbVars, redisVars
  <2> QED BY <2>1, <1>0, <1>t, AnnounceKept
<1>7. ASSUME NEW m \in Monitors, CreateMonitor(m) PROVE AnnounceInv'
  <2>1. /\ UNCHANGED <<incidents, alerts, hooks, pc, mon, plan>>
        /\ live[m] = "new" /\ live' = [live EXCEPT ![m] = "live"]
    BY <1>7 DEF CreateMonitor, jobVars, redisVars
  <2> QED BY <2>1, <1>0, <1>t, AnnounceKept
<1>8. ASSUME \/ EnqueueDueMonitors \/ Tick
             \/ \E m \in Monitors : SiteFlips(m)
             \/ UNCHANGED vars
      PROVE  AnnounceInv'
  <2>1. UNCHANGED <<live, incidents, alerts, hooks, pc, mon, plan>>
    BY <1>8 DEF EnqueueDueMonitors, Tick, SiteFlips, vars, dbVars, jobVars, redisVars
  <2>2. \A m \in Monitors : live'[m] = live[m]
    BY <2>1
  <2>3. \A j \in Jobs : pc'[j] = pc[j] /\ mon'[j] = mon[j] /\ plan'[j] = plan[j]
    BY <2>1
  <2> QED BY <2>1, <2>2, <2>3, <1>0, AnnounceKept
<1>9. ASSUME NEW r \in Requests,
             \/ \E m \in Monitors, op \in MonitorOps : ReadMonitor(r, m, op)
             \/ \E m \in Monitors : ReadIncident(r, m)
             \/ WritePaused(r) \/ WriteSettings(r)
      PROVE  AnnounceInv'
  <2>1. UNCHANGED <<live, incidents, alerts, hooks, pc, mon, plan>>
    BY <1>9 DEF ReadMonitor, ReadIncident, WritePaused, WriteSettings, dbVars, jobVars,
                redisVars
  <2> QED BY <2>1, <1>0, AnnounceKept
<1> QED BY <1>1, <1>2, <1>3, <1>4, <1>5, <1>6, <1>7, <1>8, <1>9
        DEF Next, JobStep, RequestStep

-----------------------------------------------------------------------------
(* The history of an incident.                                             *)

\* Committing a plan and acknowledging clear neither date and open nothing again; only an
\* acknowledgement takes a resolved incident back, and only deleting a monitor removes its
\* incidents.
LEMMA HistoryStep ==
  ASSUME TypeOK, [Next]_vars, NEW m \in Monitors, live'[m] = "live"
  PROVE  KeepsHistory(m, incidents[m], incidents'[m])
<1>t. /\ incidents \in [Monitors -> Seq(Incident)]
      /\ live \in [Monitors -> {"new", "live", "deleted"}]
  BY DEF TypeOK, DbTypeOK
<1>1. ASSUME incidents'[m] = incidents[m] PROVE KeepsHistory(m, incidents[m], incidents'[m])
  BY <1>1 DEF KeepsHistory
<1>2. ASSUME NEW j \in Jobs, Commit(j) PROVE KeepsHistory(m, incidents[m], incidents'[m])
  <2>1. plan[j] \in Plans /\ incidents' = [incidents EXCEPT ![mon[j]] = ApplyPlan(@, plan[j])]
    BY <1>2 DEF Commit, TypeOK, JobTypeOK
  <2>2. CASE m = mon[j]
    <3>1. incidents'[m] = ApplyPlan(incidents[m], plan[j]) /\ incidents[m] \in Seq(Incident)
      BY <1>t, <2>1, <2>2
    <3>2. \A i \in DOMAIN incidents[m] :
            incidents[m][i].status = "RESOLVED" => incidents'[m][i].status = "RESOLVED"
      BY <2>1, <3>1, ApplyPlanHistory
    <3> QED BY <2>1, <3>1, <3>2, ApplyPlanHistory DEF KeepsHistory
  <2> QED BY <1>1, <1>t, <2>1, <2>2
<1>3. ASSUME NEW r \in Requests, WriteAck(r) PROVE KeepsHistory(m, incidents[m], incidents'[m])
  <2>1. PICK log, id, new :
          /\ log = incidents[m] /\ id = req[r].id
          /\ new = [i \in DOMAIN log |-> IF i = id THEN Acknowledge(log[i]) ELSE log[i]]
    OBVIOUS
  <2>2. incidents' = [incidents EXCEPT ![req[r].mon] =
          [i \in DOMAIN @ |-> IF i = req[r].id THEN Acknowledge(@[i]) ELSE @[i]]]
    BY <1>3 DEF WriteAck
  <2>3. CASE m = req[r].mon
    <3>1. incidents'[m] = new
      BY <1>t, <2>1, <2>2, <2>3
    <3>2. log \in Seq(Incident)
      BY <1>t, <2>1
    <3>3. Acknowledged(log, id, new)
      BY <2>1, <3>2, AcknowledgeLeaves, Zenon
    <3>4. <<m, id>> \in Acking
      BY <1>3, <2>1, <2>3 DEF WriteAck, Acking
    <3>5. \A i \in DOMAIN log : i # id => new[i] = log[i]
      BY <2>1
    <3>6. ASSUME NEW i \in DOMAIN log
          PROVE  /\ i \in DOMAIN new
                 /\ log[i].acked => new[i].acked
                 /\ log[i].resolved => new[i].resolved
                 /\ new[i].status = "OPEN" => log[i].status = "OPEN"
                 /\ log[i].status = "RESOLVED" /\ new[i].status # "RESOLVED" =>
                      <<m, i>> \in Acking
      <4>1. CASE i = id
        BY <3>3, <3>4, <4>1 DEF Acknowledged
      <4>2. CASE i # id
        BY <3>3, <3>5, <4>2 DEF Acknowledged
      <4> QED BY <4>1, <4>2
    <3> QED BY <2>1, <3>1, <3>6 DEF KeepsHistory
  <2> QED BY <1>1, <1>t, <2>2, <2>3
<1>4. ASSUME NEW r \in Requests, DeleteMonitor(r)
      PROVE  KeepsHistory(m, incidents[m], incidents'[m])
  <2>1. /\ live' = [live EXCEPT ![req[r].mon] = "deleted"]
        /\ incidents' = [incidents EXCEPT ![req[r].mon] = <<>>]
    BY <1>4 DEF DeleteMonitor
  <2> QED BY <1>1, <1>t, <2>1
<1>5. ASSUME NEW j \in Jobs, JobStep(j), ~Commit(j) PROVE incidents' = incidents
  BY <1>5
  DEF JobStep, TakeLock, SkipLocked, LoadMonitor, Probe, SaveCheck, ApplyFlapLogic,
      EnqueueAlert, EnqueueWebhook, ReleaseLock, Timeout, Shutdown, Crash, StartJob, dbVars
<1>6. ASSUME NEW r \in Requests, RequestStep(r), ~WriteAck(r), ~DeleteMonitor(r)
      PROVE  incidents' = incidents
  BY <1>6 DEF RequestStep, ReadMonitor, ReadIncident, WritePaused, WriteSettings, dbVars
<1>7. ASSUME \/ EnqueueDueMonitors \/ Tick \/ UNCHANGED vars
             \/ \E n \in Monitors : CreateMonitor(n) \/ SiteFlips(n)
      PROVE  incidents' = incidents
  BY <1>7 DEF EnqueueDueMonitors, Tick, CreateMonitor, SiteFlips, vars, dbVars
<1> QED BY <1>1, <1>2, <1>3, <1>4, <1>5, <1>6, <1>7 DEF Next

-----------------------------------------------------------------------------
(* The refinement: check_job, its commit taken as the moment of the check,  *)
(* implements IncidentLog.                                                  *)

\* The flap rule of the abstract specification is the one of the detailed one.
LEMMA LogOperators ==
  ASSUME NEW log, NEW recent, NEW seen, NEW todo, NEW s
  PROVE  /\ Log!LastTwo(s) = LastTwo(s)
         /\ Log!OpenIncidents(log) = OpenIncidents(log)
         /\ Log!FlapPlan(recent, seen) = FlapPlan(recent, seen)
         /\ Log!ApplyPlan(log, todo) = ApplyPlan(log, todo)
         /\ Log!SeenBy(log) = Sights(log)
         /\ Log!ProbeStatuses = ProbeStatuses
<1>1. Log!LastTwo(s) = LastTwo(s)
  BY DEF Log!LastTwo, LastTwo
<1>2. \A x : Log!OpenIncidents(x) = OpenIncidents(x)
  BY DEF Log!OpenIncidents, OpenIncidents
<1>3. Log!FlapPlan(recent, seen) = FlapPlan(recent, seen)
  <2>1. Log!GetOpenIncident(seen) = GetOpenIncident(seen)
    BY <1>2 DEF Log!GetOpenIncident, GetOpenIncident
  <2> QED BY <1>2, <2>1 DEF Log!FlapPlan, FlapPlan, Log!NoPlan, NoPlan
<1>4. Log!ApplyPlan(log, todo) = ApplyPlan(log, todo)
  BY DEF Log!ApplyPlan, ApplyPlan, Log!NewIncident, NewIncident, Log!Resolve, Resolve
<1>5. Log!SeenBy(log) = Sights(log)
  BY <1>2 DEF Log!SeenBy, Sights
<1>6. Log!ProbeStatuses = ProbeStatuses
  BY DEF Log!ProbeStatuses, ProbeStatuses
<1> QED BY <1>1, <1>2, <1>3, <1>4, <1>5, <1>6

\* A request that neither was nor becomes an acknowledgement.
LEMMA AckingKept ==
  ASSUME req \in [Requests -> RequestRecords], NEW r \in Requests, NEW x,
         req' = [req EXCEPT ![r] = x], req[r].op # "ack", x.op # "ack"
  PROVE  Acking' = Acking
<1>1. \A q \in Requests : req'[q] = IF q = r THEN x ELSE req[q]
  OBVIOUS
<1>2. {q \in Requests : req'[q].op = "ack"} = {q \in Requests : req[q].op = "ack"}
  BY <1>1
<1>3. \A q \in {p \in Requests : req[p].op = "ack"} : req'[q] = req[q]
  BY <1>1
<1> QED BY <1>2, <1>3 DEF Acking

\* A request that found an incident OPEN is about to acknowledge it.
LEMMA AckingBegins ==
  ASSUME req \in [Requests -> RequestRecords], NEW r \in Requests, NEW m, NEW i, NEW x,
         req' = [req EXCEPT ![r] = x], req[r].op # "ack",
         x.op = "ack", x.mon = m, x.id = i
  PROVE  Acking' = Acking \cup {<<m, i>>}
<1>1. \A q \in Requests : req'[q] = IF q = r THEN x ELSE req[q]
  OBVIOUS
<1>2. \A a : a \in Acking' <=> \E q \in Requests : req'[q].op = "ack" /\ a = <<req'[q].mon, req'[q].id>>
  BY DEF Acking
<1>3. \A a : a \in Acking <=> \E q \in Requests : req[q].op = "ack" /\ a = <<req[q].mon, req[q].id>>
  BY DEF Acking
<1>4. \A a : a \in Acking' <=> a \in Acking \/ a = <<m, i>>
  BY <1>1, <1>2, <1>3
<1> QED BY <1>4

\* It has acknowledged it; another request may be about to do so too.
LEMMA AckingEnds ==
  ASSUME req \in [Requests -> RequestRecords], NEW r \in Requests, NEW m, NEW i, NEW x,
         req' = [req EXCEPT ![r] = x], req[r].op = "ack", req[r].mon = m, req[r].id = i,
         x.op # "ack"
  PROVE  <<m, i>> \in Acking /\ Acking' \in {Acking, Acking \ {<<m, i>>}}
<1>1. \A q \in Requests : req'[q] = IF q = r THEN x ELSE req[q]
  OBVIOUS
<1>2. \A a : a \in Acking' <=> \E q \in Requests : req'[q].op = "ack" /\ a = <<req'[q].mon, req'[q].id>>
  BY DEF Acking
<1>3. \A a : a \in Acking <=> \E q \in Requests : req[q].op = "ack" /\ a = <<req[q].mon, req[q].id>>
  BY DEF Acking
<1>4. <<m, i>> \in Acking
  BY <1>3
<1>5. \A a : a # <<m, i>> => (a \in Acking' <=> a \in Acking)
  BY <1>1, <1>2, <1>3
<1>6. CASE <<m, i>> \in Acking'
  <2>1. Acking' = Acking
    BY <1>4, <1>5, <1>6
  <2> QED BY <1>4, <2>1
<1>7. CASE <<m, i>> \notin Acking'
  <2>1. Acking' = Acking \ {<<m, i>>}
    BY <1>5, <1>7
  <2> QED BY <1>4, <2>1
<1> QED BY <1>6, <1>7

\* A commit is the recording of a check: its decision is one that may be made of the log.
LEMMA CommitRecords ==
  ASSUME TypeOK, LogInv, NEW j \in Jobs, Commit(j)
  PROVE  Log!Next
<1>1. PICK m, s, log, recent :
        /\ m \in Monitors /\ m = mon[j] /\ s \in ProbeStatuses /\ s = result[j]
        /\ log = incidents[m] /\ recent = LastTwo(Append(checks[m], s))
  BY DEF Commit, TypeOK, JobTypeOK
<1>2. /\ pc[j] = "commit" /\ UNCHANGED <<live, req>>
      /\ checks' = [checks EXCEPT ![m] = recent]
      /\ incidents' = [incidents EXCEPT ![m] = ApplyPlan(log, plan[j])]
  BY <1>1 DEF Commit
<1>3. live[m] = "live"
  BY <1>1, <1>2 DEF LogInv, WritersHaveMonitor
<1>4. PICK seen \in Sights(log) : plan[j] = FlapPlan(recent, seen)
  BY <1>1, <1>2 DEF LogInv, PlanFollows, MayDecide
<1>5. /\ Log!LastTwo(Append(checks[m], s)) = recent
      /\ seen \in Log!SeenBy(incidents[m])
      /\ Log!ApplyPlan(log, Log!FlapPlan(recent, seen)) = ApplyPlan(log, plan[j])
      /\ s \in Log!ProbeStatuses
  BY <1>1, <1>4, LogOperators
<1>6. Acking' = Acking
  BY <1>2 DEF Acking
<1>7. incidents' = [incidents EXCEPT ![m] = Log!ApplyPlan(@, Log!FlapPlan(recent, seen))]
  BY <1>1, <1>2, <1>5
<1>8. Log!Record(m, s)
  BY <1>2, <1>3, <1>5, <1>6, <1>7 DEF Log!Record
<1> QED BY <1>1, <1>5, <1>8 DEF Log!Next

\* An acknowledgement ends with its UPDATE.
LEMMA WriteAckEnds ==
  ASSUME TypeOK, NEW r \in Requests, WriteAck(r)
  PROVE  Log!Next
<1>1. PICK m, i : m \in Monitors /\ m = req[r].mon /\ i = req[r].id
  BY DEF WriteAck, TypeOK, RequestTypeOK
<1>2. /\ req[r].op = "ack" /\ req' = [req EXCEPT ![r] = NoRequest]
      /\ UNCHANGED <<live, checks>>
      /\ incidents' = [incidents EXCEPT ![m] =
           [k \in DOMAIN @ |-> IF k = i THEN Acknowledge(@[k]) ELSE @[k]]]
  BY <1>1 DEF WriteAck, EndRequest
<1>3. req \in [Requests -> RequestRecords] /\ NoRequest.op # "ack"
  BY DEF TypeOK, RequestTypeOK, NoRequest
<1>4. <<m, i>> \in Acking /\ Acking' \in {Acking, Acking \ {<<m, i>>}}
  BY <1>1, <1>2, <1>3, AckingEnds
<1>5. \A x : Log!Acknowledge(x) = Acknowledge(x)
  BY DEF Log!Acknowledge, Acknowledge
<1>6. Log!EndAck(m, i)
  BY <1>2, <1>4, <1>5 DEF Log!EndAck
<1>7. i \in {a[2] : a \in Acking}
  BY <1>4
<1> QED BY <1>1, <1>6, <1>7 DEF Log!Next

\* Every step of the program is a step of the log or changes nothing it shows.
LEMMA LogSimulation ==
  ASSUME TypeOK, LogInv, [Next]_vars
  PROVE  [Log!Next]_<<live, checks, incidents, Acking>>
<1>t. req \in [Requests -> RequestRecords]
  BY DEF TypeOK, RequestTypeOK
<1>1. ASSUME NEW j \in Jobs, Commit(j) PROVE Log!Next
  BY <1>1, CommitRecords
<1>2. ASSUME NEW r \in Requests, WriteAck(r) PROVE Log!Next
  BY <1>2, WriteAckEnds
<1>3. ASSUME NEW r \in Requests, NEW m \in Monitors, ReadIncident(r, m) PROVE Log!Next
  <2>1. PICK i \in OpenIncidents(incidents[m]) :
          req' = [req EXCEPT ![r] = [op |-> "ack", mon |-> m, id |-> i, saw |-> FALSE]]
    BY <1>3 DEF ReadIncident
  <2>2. /\ req[r].op # "ack" /\ live[m] = "live" /\ UNCHANGED <<live, checks, incidents>>
    BY <1>3 DEF ReadIncident, dbVars
  <2>3. Acking' = Acking \cup {<<m, i>>}
    <3>1. PICK x : x = [op |-> "ack", mon |-> m, id |-> i, saw |-> FALSE]
      OBVIOUS
    <3>2. req' = [req EXCEPT ![r] = x] /\ x.op = "ack" /\ x.mon = m /\ x.id = i
      BY <2>1, <3>1
    <3> QED BY <1>t, <2>2, <3>2, AckingBegins
  <2>4. Log!BeginAck(m)
    BY <2>2, <2>3, LogOperators DEF Log!BeginAck
  <2> QED BY <2>4 DEF Log!Next
<1>4. ASSUME NEW r \in Requests, DeleteMonitor(r) PROVE Log!Next
  <2>1. PICK m \in Monitors : m = req[r].mon
    BY <1>4 DEF DeleteMonitor, TypeOK, RequestTypeOK
  <2>2. /\ req[r].op # "ack" /\ req' = [req EXCEPT ![r] = NoRequest] /\ NoRequest.op # "ack"
        /\ live' = [live EXCEPT ![m] = "deleted"]
        /\ checks' = [checks EXCEPT ![m] = <<>>]
        /\ incidents' = [incidents EXCEPT ![m] = <<>>]
    BY <1>4, <2>1 DEF DeleteMonitor, EndRequest, NoRequest
  <2>3. Acking' = Acking
    BY <1>t, <2>2, AckingKept
  <2>4. Log!Delete(m)
    BY <2>2, <2>3 DEF Log!Delete
  <2> QED BY <2>4 DEF Log!Next
<1>5. ASSUME NEW m \in Monitors, CreateMonitor(m) PROVE Log!Next
  <2>1. /\ live[m] = "new" /\ live' = [live EXCEPT ![m] = "live"]
        /\ UNCHANGED <<checks, incidents, req>>
    BY <1>5 DEF CreateMonitor
  <2>2. Acking' = Acking
    BY <2>1 DEF Acking
  <2>3. Log!Create(m)
    BY <2>1, <2>2 DEF Log!Create
  <2> QED BY <2>3 DEF Log!Next
<1>6. ASSUME NEW r \in Requests,
             \/ \E m \in Monitors, op \in MonitorOps : ReadMonitor(r, m, op)
             \/ WritePaused(r) \/ WriteSettings(r)
      PROVE  UNCHANGED <<live, checks, incidents, Acking>>
  <2>1. UNCHANGED <<live, checks, incidents>>
    BY <1>6 DEF ReadMonitor, WritePaused, WriteSettings, dbVars
  <2>2. PICK x : req' = [req EXCEPT ![r] = x] /\ req[r].op # "ack" /\ x.op # "ack"
    BY <1>6 DEF ReadMonitor, WritePaused, WriteSettings, EndRequest, NoRequest, MonitorOps
  <2>3. Acking' = Acking
    BY <1>t, <2>2, AckingKept
  <2> QED BY <2>1, <2>3
<1>7. ASSUME NEW j \in Jobs, JobStep(j), ~Commit(j)
      PROVE  UNCHANGED <<live, checks, incidents, Acking>>
  <2>1. UNCHANGED <<live, checks, incidents, req>>
    BY <1>7
    DEF JobStep, TakeLock, SkipLocked, LoadMonitor, Probe, SaveCheck, ApplyFlapLogic,
        EnqueueAlert, EnqueueWebhook, ReleaseLock, Timeout, Shutdown, Crash, StartJob,
        dbVars
  <2> QED BY <2>1 DEF Acking
<1>8. ASSUME \/ EnqueueDueMonitors \/ Tick \/ UNCHANGED vars
             \/ \E m \in Monitors : SiteFlips(m)
      PROVE  UNCHANGED <<live, checks, incidents, Acking>>
  <2>1. UNCHANGED <<live, checks, incidents, req>>
    BY <1>8 DEF EnqueueDueMonitors, Tick, SiteFlips, vars, dbVars
  <2> QED BY <2>1 DEF Acking
<1> QED BY <1>1, <1>2, <1>3, <1>4, <1>5, <1>6, <1>7, <1>8 DEF Next, RequestStep

-----------------------------------------------------------------------------
(* The theorems.                                                           *)

\* Decisions stay right until their commit, and announcements follow commits.
THEOREM LogInvariant == Spec => [](IInv /\ LogInv /\ AnnounceInv)
<1>1. Init => IInv /\ LogInv /\ AnnounceInv
  BY InitIInv, InitLogInv, InitAnnounceInv
<1>2. IInv /\ LogInv /\ AnnounceInv /\ [Next]_vars => (IInv /\ LogInv /\ AnnounceInv)'
  BY TypeStep, LockStep, OpenStep, LogStep, AnnounceStep DEF IInv
<1> QED BY <1>1, <1>2, PTL DEF Spec

\* The incidents agree with the stored checks (incident_service.py:35-36).
THEOREM IncidentsFollowChecksHolds == Spec => []IncidentsFollowChecks
<1>1. LogInv => IncidentsFollowChecks
  BY DEF LogInv
<1> QED BY LogInvariant, <1>1, PTL

\* What is queued for alerting was committed before, and is queued once
\* (checker.py:147-160).
THEOREM AlertsFollowCommitsHolds == Spec => []AlertsFollowCommits
<1>1. AnnounceInv => AlertsFollowCommits
  BY DEF AnnounceInv
<1> QED BY LogInvariant, <1>1, PTL

\* On a live monitor no incident is lost or opened again and none forgets ack_at or
\* resolved_at; its status leaves RESOLVED only by the write of an acknowledgement whose
\* request had found it OPEN (incident_service.py:49-70, routers/incidents.py:100-113).
THEOREM HistoryKeptHolds == Spec => HistoryKept
<1>1. IInv /\ [Next]_vars =>
        [\A m \in Monitors :
           live'[m] = "live" => KeepsHistory(m, incidents[m], incidents'[m])]_vars
  BY HistoryStep DEF IInv
<1> QED BY Invariant, <1>1, PTL DEF Spec, HistoryKept

\* The program implements IncidentLog: the checks of a monitor are recorded one after
\* another, each with what the flap rule makes of it, however the jobs, the lock's
\* expiry, the crashes and the requests interleave (checker.py:102-209).
THEOREM Refinement == Spec => ImplementsLog
<1>1. Init => Log!Init
  BY DEF Init, Log!Init, Acking, NoRequest
<1>2. IInv /\ LogInv /\ [Next]_vars => [Log!Next]_<<live, checks, incidents, Acking>>
  BY LogSimulation DEF IInv
<1>3. IInv /\ LogInv /\ [Next]_vars => [Log!Next]_Log!logVars
  BY <1>2 DEF Log!logVars
<1>4. Spec => [](IInv /\ LogInv)
  BY LogInvariant, PTL
<1> QED BY <1>1, <1>3, <1>4, PTL DEF Spec, ImplementsLog, Log!Spec
=============================================================================
