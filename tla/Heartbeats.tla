----------------------------- MODULE Heartbeats -----------------------------
(***************************************************************************)
(* Heartbeats: a user's cron pings, and a sweep every minute turns those    *)
(* that fell silent MISSING and tells the team's Telegram channels.         *)
(*                                                                          *)
(* Source: backend/app/workers/heartbeat_checker.py and the ping, create    *)
(* and delete handlers of api/v1/routers/heartbeats.py.                     *)
(*                                                                          *)
(* A sweep is one transaction over all heartbeats.  Each UPDATE it flushes   *)
(* holds the row until the commit, while messages are being sent; what was   *)
(* sent cannot be rolled back.  Sweeps overlap when one is late or rerun.    *)
(* A ping is a read and a write of one row in a transaction of its own.      *)
(***************************************************************************)
EXTENDS Naturals, FiniteSets

CONSTANTS
  Heartbeats,   \* heartbeat ids
  Sweeps,       \* runs of heartbeat_checker that may overlap
  Pings,        \* ping requests in flight at a time
  NoHeartbeat,  \* "no heartbeat", for an idle sweep or request
  Window,       \* period_min + grace_min, in ticks
  MaxPings,     \* bound: pings
  MaxFaults     \* bound: timeouts, crashes and failed statements of sweeps

ASSUME HeartbeatAssumption == NoHeartbeat \notin Heartbeats

ASSUME WindowAssumption ==
  Window \in Nat \ {0} /\ MaxPings \in Nat /\ MaxFaults \in Nat

VARIABLES
  \* PostgreSQL, committed rows
  live,      \* heartbeat -> "new", "live" or "deleted"
  status,    \* heartbeat -> "ALIVE" or "MISSING"
  silence,   \* heartbeat -> ticks since last_ping_at or created_at, up to Window
  \* sweeps
  step,      \* sweep -> "idle", "mark", "send"
  todo,      \* sweep -> silent heartbeats of its snapshot not looked at yet
  marked,    \* sweep -> heartbeats it has updated, uncommitted
  unsent,    \* sweep -> those with a "failed" or "skipped" row, uncommitted
  current,   \* sweep -> the heartbeat it is telling the channels about
  \* ping requests: where each is, its heartbeat, whether it read MISSING
  ping,
  \* heartbeats, since they last came back: whose message reached a channel, and with
  \* a "failed" or "skipped" row in alert_logs
  told, excused,
  \* budgets of the bounds
  pings, faults

rowVars == <<live, status, silence>>
sweepVars == <<step, todo, marked, unsent, current>>
heartbeatVars == <<rowVars, sweepVars, ping, told, excused, pings, faults>>

NoPing == [at |-> "idle", hb |-> NoHeartbeat, wasMissing |-> FALSE]

HeartbeatsTypeOK ==
  /\ live \in [Heartbeats -> {"new", "live", "deleted"}]
  /\ status \in [Heartbeats -> {"ALIVE", "MISSING"}]
  /\ silence \in [Heartbeats -> 0 .. Window]
  /\ step \in [Sweeps -> {"idle", "mark", "send"}]
  /\ todo \in [Sweeps -> SUBSET Heartbeats]
  /\ marked \in [Sweeps -> SUBSET Heartbeats]
  /\ unsent \in [Sweeps -> SUBSET Heartbeats]
  /\ current \in [Sweeps -> Heartbeats \cup {NoHeartbeat}]
  /\ \A s \in Sweeps : step[s] = "send" => current[s] \in Heartbeats
  /\ ping \in [Pings -> [at : {"idle", "write", "recover"},
                         hb : Heartbeats \cup {NoHeartbeat},
                         wasMissing : BOOLEAN]]
  /\ told \in SUBSET Heartbeats /\ excused \in SUBSET Heartbeats
  /\ pings \in 0 .. MaxPings
  /\ faults \in 0 .. MaxFaults

HeartbeatsInit ==
  /\ live = [h \in Heartbeats |-> "new"]
  /\ status = [h \in Heartbeats |-> "ALIVE"]
  /\ silence = [h \in Heartbeats |-> 0]
  /\ step = [s \in Sweeps |-> "idle"]
  /\ todo = [s \in Sweeps |-> {}]
  /\ marked = [s \in Sweeps |-> {}]
  /\ unsent = [s \in Sweeps |-> {}]
  /\ current = [s \in Sweeps |-> NoHeartbeat]
  /\ ping = [p \in Pings |-> NoPing]
  /\ told = {} /\ excused = {}
  /\ pings = MaxPings
  /\ faults = MaxFaults

\* An open transaction has updated the row: other writers wait for its end.
RowLocked(h) == \E s \in Sweeps : h \in marked[s]

-----------------------------------------------------------------------------
(* heartbeat_checker.                                                      *)

EndSweep(s) ==
  /\ step' = [step EXCEPT ![s] = "idle"]
  /\ todo' = [todo EXCEPT ![s] = {}]
  /\ marked' = [marked EXCEPT ![s] = {}]
  /\ unsent' = [unsent EXCEPT ![s] = {}]
  /\ current' = [current EXCEPT ![s] = NoHeartbeat]

\* SELECT the ALIVE ones; those within their window at this moment are passed over.
StartSweep(s) ==
  /\ step[s] = "idle"
  /\ step' = [step EXCEPT ![s] = "mark"]
  /\ todo' = [todo EXCEPT ![s] =
       {h \in Heartbeats : live[h] = "live" /\ status[h] = "ALIVE" /\ silence[h] = Window}]
  /\ UNCHANGED <<rowVars, marked, unsent, current, ping, told, excused, pings, faults>>

\* Mutant of MarkMissing: each heartbeat is committed before its message is sent.
MarkMissingCommitted(s, h) ==
  /\ step[s] = "mark" /\ h \in todo[s] /\ ~RowLocked(h) /\ live[h] = "live"
  /\ status' = [status EXCEPT ![h] = "MISSING"]
  /\ todo' = [todo EXCEPT ![s] = @ \ {h}]
  /\ step' = [step EXCEPT ![s] = "send"]
  /\ current' = [current EXCEPT ![s] = h]
  /\ UNCHANGED <<live, silence, marked, unsent, ping, told, excused, pings, faults>>

\* status = MISSING, flushed by the SELECT of the team's channels.
MarkMissing(s, h) ==
  /\ step[s] = "mark" /\ h \in todo[s] /\ ~RowLocked(h) /\ live[h] = "live"
  /\ marked' = [marked EXCEPT ![s] = @ \cup {h}]
  /\ todo' = [todo EXCEPT ![s] = @ \ {h}]
  /\ step' = [step EXCEPT ![s] = "send"]
  /\ current' = [current EXCEPT ![s] = h]
  /\ UNCHANGED <<rowVars, unsent, ping, told, excused, pings, faults>>

\* The row was deleted since the SELECT: the UPDATE matches nothing, the ORM raises
\* and the whole sweep is rolled back.
MarkFails(s, h) ==
  /\ step[s] = "mark" /\ h \in todo[s] /\ live[h] # "live"
  /\ EndSweep(s)
  /\ UNCHANGED <<rowVars, ping, told, excused, pings, faults>>

\* Every channel is sent the message and gets its "sent" or "failed" row; without a
\* channel there is a "skipped" row.  So somebody is told, or a row says who was not.
SendMissing(s) ==
  /\ step[s] = "send"
  /\ \E reached, missed \in BOOLEAN :
       /\ reached \/ missed
       /\ told' = IF reached THEN told \cup {current[s]} ELSE told
       /\ unsent' = IF missed THEN [unsent EXCEPT ![s] = @ \cup {current[s]}] ELSE unsent
  /\ step' = [step EXCEPT ![s] = "mark"]
  /\ current' = [current EXCEPT ![s] = NoHeartbeat]
  /\ UNCHANGED <<rowVars, todo, marked, ping, excused, pings, faults>>

\* The one commit at the end, of all rows.
CommitSweep(s) ==
  /\ step[s] = "mark" /\ todo[s] = {}
  /\ status' = [h \in Heartbeats |-> IF h \in marked[s] THEN "MISSING" ELSE status[h]]
  /\ excused' = excused \cup unsent[s]
  /\ EndSweep(s)
  /\ UNCHANGED <<live, silence, ping, told, pings, faults>>

\* Mutant of AbortSweep: the session of a cancelled job is not closed.
AbortSweepLeaksSession(s) ==
  /\ step[s] # "idle" /\ faults > 0
  /\ faults' = faults - 1
  /\ step' = [step EXCEPT ![s] = "idle"]
  /\ todo' = [todo EXCEPT ![s] = {}]
  /\ current' = [current EXCEPT ![s] = NoHeartbeat]
  /\ UNCHANGED <<rowVars, marked, unsent, ping, told, excused, pings>>

\* job_timeout, a shutdown, a crash or a failing statement, such as a receipt for a
\* channel deleted meanwhile: everything is rolled back, the messages are out.
AbortSweep(s) ==
  /\ step[s] # "idle" /\ faults > 0
  /\ faults' = faults - 1
  /\ EndSweep(s)
  /\ UNCHANGED <<rowVars, ping, told, excused, pings>>

\* Sweeps s and t wait for each other's rows: PostgreSQL fails the statement of s, and
\* t, which was waiting, gets the row h.
DeadlockVictim(s, t, h) ==
  /\ step[s] = "mark" /\ step[t] = "mark"
  /\ todo[s] \cap marked[t] # {} /\ h \in todo[t] \cap marked[s]
  /\ step' = [step EXCEPT ![s] = "idle", ![t] = "send"]
  /\ todo' = [todo EXCEPT ![s] = {}, ![t] = @ \ {h}]
  /\ marked' = [marked EXCEPT ![s] = {}, ![t] = @ \cup {h}]
  /\ unsent' = [unsent EXCEPT ![s] = {}]
  /\ current' = [current EXCEPT ![s] = NoHeartbeat, ![t] = h]
  /\ UNCHANGED <<rowVars, ping, told, excused, pings, faults>>

-----------------------------------------------------------------------------
(* API handlers.                                                           *)

\* create_heartbeat: ALIVE, never pinged, created now.
CreateHeartbeat(h) ==
  /\ live[h] = "new"
  /\ live' = [live EXCEPT ![h] = "live"]
  /\ UNCHANGED <<status, silence, sweepVars, ping, told, excused, pings, faults>>

\* delete_heartbeat.
DeleteHeartbeat(h) ==
  /\ live[h] = "live" /\ ~RowLocked(h)
  /\ live' = [live EXCEPT ![h] = "deleted"]
  /\ UNCHANGED <<status, silence, sweepVars, ping, told, excused, pings, faults>>

\* ping_heartbeat reads the row by its key.
ReadPing(p, h) ==
  /\ ping[p].at = "idle" /\ live[h] = "live" /\ pings > 0
  /\ pings' = pings - 1
  /\ ping' = [ping EXCEPT ![p] =
                [at |-> "write", hb |-> h, wasMissing |-> status[h] = "MISSING"]]
  /\ UNCHANGED <<rowVars, sweepVars, told, excused, faults>>

\* Its commit: last_ping_at, and status only if it is not the ALIVE that was read,
\* for the ORM writes the columns that differ.  A deleted row is an error.
WritePing(p) ==
  LET h == ping[p].hb
      revives == live[h] = "live" /\ ping[p].wasMissing IN
  /\ ping[p].at = "write" /\ ~RowLocked(h)
  /\ silence' = IF live[h] = "live" THEN [silence EXCEPT ![h] = 0] ELSE silence
  /\ status' = IF revives THEN [status EXCEPT ![h] = "ALIVE"] ELSE status
  /\ ping' = [ping EXCEPT ![p] = IF revives THEN [@ EXCEPT !.at = "recover"] ELSE NoPing]
  /\ told' = IF revives THEN told \ {h} ELSE told
  /\ excused' = IF revives THEN excused \ {h} ELSE excused
  /\ UNCHANGED <<live, sweepVars, pings, faults>>

\* "CRON ALIVE" to the channels, after the commit.
SendRecovery(p) ==
  /\ ping[p].at = "recover"
  /\ ping' = [ping EXCEPT ![p] = NoPing]
  /\ UNCHANGED <<rowVars, sweepVars, told, excused, pings, faults>>

-----------------------------------------------------------------------------
Tick ==
  /\ \E h \in Heartbeats : live[h] = "live" /\ silence[h] < Window
  /\ silence' = [h \in Heartbeats |->
                   IF live[h] = "live" /\ silence[h] < Window THEN silence[h] + 1
                                                              ELSE silence[h]]
  /\ UNCHANGED <<live, status, sweepVars, ping, told, excused, pings, faults>>

\* What a sweep does as soon as it can; MarkMissing waits for its row.
SweepStep(s) ==
  \/ SendMissing(s) \/ CommitSweep(s)
  \/ \E h \in Heartbeats : MarkFails(s, h) \/ \E t \in Sweeps \ {s} : DeadlockVictim(s, t, h)

HeartbeatsNext ==
  \/ \E s \in Sweeps :
       \/ StartSweep(s) \/ SweepStep(s) \/ AbortSweep(s)
       \/ \E h \in Heartbeats : MarkMissing(s, h)
  \/ \E h \in Heartbeats : CreateHeartbeat(h) \/ DeleteHeartbeat(h)
  \/ \E p \in Pings :
       \/ WritePing(p) \/ SendRecovery(p)
       \/ \E h \in Heartbeats : ReadPing(p, h)
  \/ Tick

HeartbeatsSpec == HeartbeatsInit /\ [][HeartbeatsNext]_heartbeatVars

-----------------------------------------------------------------------------
(* Safety.                                                                 *)

\* Whenever the page shows MISSING, its message reached a channel since the heartbeat
\* last came back, or the alert log says that a send failed or was skipped, whatever was
\* rolled back, rerun or pinged in between (heartbeat_checker.py:35-67).  A failed one is
\* not sent again: the next sweep only looks at ALIVE heartbeats.
MissingIsAccountedFor ==
  \A h \in Heartbeats : status[h] = "MISSING" => h \in told \cup excused

\* A heartbeat within its window that no sweep and no ping is working on is ALIVE:
\* "Silence past period+grace = MISSING" (models/heartbeat.py:11).
FreshIsAlive ==
  \A h \in Heartbeats :
    /\ live[h] = "live" /\ silence[h] < Window
    /\ \A s \in Sweeps : step[s] = "idle"
    /\ \A p \in Pings : ping[p].hb # h
    => status[h] = "ALIVE"

-----------------------------------------------------------------------------
(* Liveness.                                                               *)

\* The cron runs every minute (without a heartbeat it finds nothing), a sweep goes on,
\* time passes.  Row locks are granted in the order they were asked for, so of the sweeps
\* that wait for a row that comes free again and again one gets it.
HeartbeatsFairness ==
  /\ WF_heartbeatVars(Tick)
  /\ \A s \in Sweeps :
       WF_heartbeatVars(SweepStep(s) \/ ((\E h \in Heartbeats : live[h] = "live") /\ StartSweep(s)))
  /\ SF_heartbeatVars(\E s \in Sweeps, h \in Heartbeats : MarkMissing(s, h))

\* A silent heartbeat is found out: none stays silent and ALIVE for good, though sweeps are
\* aborted, wait for each other and fail on deleted rows (heartbeat_checker.py:1).
SilenceIsFound ==
  \A h \in Heartbeats :
    []<>~(live[h] = "live" /\ silence[h] = Window /\ status[h] = "ALIVE")
=============================================================================
