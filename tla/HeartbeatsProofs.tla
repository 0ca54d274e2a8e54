-------------------------- MODULE HeartbeatsProofs --------------------------
(***************************************************************************)
(* MissingIsAccountedFor for every number of heartbeats, overlapping sweeps  *)
(* and pings.  The message is sent and its rows are written inside the        *)
(* transaction, so the invariant has to follow a heartbeat from the UPDATE    *)
(* over the message to the commit, and to use that a ping cannot revive a     *)
(* row while a sweep holds it.                                                *)
(***************************************************************************)
EXTENDS Heartbeats, TLAPS

\* What an open sweep has marked it has told, or flushed a "failed" or "skipped" row for,
\* except the one it is about to tell.
MarkedAreTold ==
  \A s \in Sweeps :
    /\ marked[s] \subseteq told \cup unsent[s] \cup {current[s]}
    /\ step[s] # "send" => current[s] = NoHeartbeat
    /\ marked[s] \subseteq Heartbeats

SweepInv == HeartbeatsTypeOK /\ MarkedAreTold /\ MissingIsAccountedFor

\* A sweep that ends without a commit takes back what it marked.
LEMMA EndSweepTold ==
  ASSUME SweepInv, NEW s \in Sweeps, EndSweep(s), UNCHANGED <<told, excused, status>>
  PROVE  MarkedAreTold' /\ MissingIsAccountedFor'
  BY DEF SweepInv, HeartbeatsTypeOK, MarkedAreTold, MissingIsAccountedFor, EndSweep

\* Every step of the sweeps, of the pings and of the clock keeps every variable in its
\* type.
LEMMA SweepTypeStep == SweepInv /\ [HeartbeatsNext]_heartbeatVars => HeartbeatsTypeOK'
<1> SUFFICES ASSUME SweepInv, [HeartbeatsNext]_heartbeatVars PROVE HeartbeatsTypeOK'
  OBVIOUS
<1>0. HeartbeatsTypeOK
  BY DEF SweepInv
<1> USE <1>0, WindowAssumption
<1>1. ASSUME NEW s \in Sweeps, StartSweep(s) PROVE HeartbeatsTypeOK'
  BY <1>1 DEF StartSweep, HeartbeatsTypeOK, rowVars
<1>2. ASSUME NEW s \in Sweeps, NEW h \in Heartbeats, MarkMissing(s, h)
      PROVE  HeartbeatsTypeOK'
  BY <1>2 DEF MarkMissing, HeartbeatsTypeOK, rowVars
<1>3. ASSUME NEW s \in Sweeps, NEW h \in Heartbeats, MarkFails(s, h)
      PROVE  HeartbeatsTypeOK'
  BY <1>3 DEF MarkFails, EndSweep, HeartbeatsTypeOK, rowVars
<1>4. ASSUME NEW s \in Sweeps, SendMissing(s) PROVE HeartbeatsTypeOK'
  <2>1. current[s] \in Heartbeats
    BY <1>4 DEF SendMissing, HeartbeatsTypeOK
  <2>2. /\ told' = told \/ told' = told \cup {current[s]}
        /\ unsent' = unsent \/ unsent' = [unsent EXCEPT ![s] = @ \cup {current[s]}]
    BY <1>4, Zenon DEF SendMissing
  <2>3. told' \in SUBSET Heartbeats /\ unsent' \in [Sweeps -> SUBSET Heartbeats]
    BY <2>1, <2>2 DEF HeartbeatsTypeOK
  <2> QED BY <1>4, <2>3 DEF SendMissing, HeartbeatsTypeOK, rowVars
<1>5. ASSUME NEW s \in Sweeps, CommitSweep(s) PROVE HeartbeatsTypeOK'
  BY <1>5 DEF CommitSweep, EndSweep, HeartbeatsTypeOK
<1>6. ASSUME NEW s \in Sweeps, AbortSweep(s) PROVE HeartbeatsTypeOK'
  BY <1>6 DEF AbortSweep, EndSweep, HeartbeatsTypeOK, rowVars
<1>7. ASSUME NEW s \in Sweeps, NEW t \in Sweeps \ {s}, NEW h \in Heartbeats,
             DeadlockVictim(s, t, h)
      PROVE  HeartbeatsTypeOK'
  BY <1>7 DEF DeadlockVictim, HeartbeatsTypeOK, rowVars
<1>8. ASSUME NEW h \in Heartbeats, CreateHeartbeat(h) \/ DeleteHeartbeat(h)
      PROVE  HeartbeatsTypeOK'
  BY <1>8 DEF CreateHeartbeat, DeleteHeartbeat, HeartbeatsTypeOK, sweepVars
<1>9. ASSUME NEW p \in Pings, NEW h \in Heartbeats, ReadPing(p, h) PROVE HeartbeatsTypeOK'
  BY <1>9 DEF ReadPing, HeartbeatsTypeOK, rowVars, sweepVars
<1>10. ASSUME NEW p \in Pings, WritePing(p) PROVE HeartbeatsTypeOK'
  <2>1. ping[p] \in [at : {"idle", "write", "recover"},
                    hb : Heartbeats \cup {NoHeartbeat}, wasMissing : BOOLEAN]
    BY DEF HeartbeatsTypeOK
  <2>2. ping' \in [Pings -> [at : {"idle", "write", "recover"},
                           hb : Heartbeats \cup {NoHeartbeat}, wasMissing : BOOLEAN]]
    <3>1. [ping[p] EXCEPT !.at = "recover"] \in
            [at : {"idle", "write", "recover"},
             hb : Heartbeats \cup {NoHeartbeat}, wasMissing : BOOLEAN]
      BY <2>1
    <3> QED BY <1>10, <3>1 DEF WritePing, NoPing, HeartbeatsTypeOK
  <2>3. /\ silence' = silence \/ silence' = [silence EXCEPT ![ping[p].hb] = 0]
        /\ status' = status \/ status' = [status EXCEPT ![ping[p].hb] = "ALIVE"]
        /\ told' = told \/ told' = told \ {ping[p].hb}
        /\ excused' = excused \/ excused' = excused \ {ping[p].hb}
    BY <1>10, Zenon DEF WritePing
  <2>4. /\ silence' \in [Heartbeats -> 0 .. Window]
        /\ status' \in [Heartbeats -> {"ALIVE", "MISSING"}]
        /\ told' \in SUBSET Heartbeats /\ excused' \in SUBSET Heartbeats
    BY <2>3 DEF HeartbeatsTypeOK
  <2> QED BY <1>10, <2>2, <2>4 DEF WritePing, HeartbeatsTypeOK, sweepVars
<1>11. ASSUME NEW p \in Pings, SendRecovery(p) PROVE HeartbeatsTypeOK'
  BY <1>11 DEF SendRecovery, NoPing, HeartbeatsTypeOK, rowVars, sweepVars
<1>12. ASSUME Tick PROVE HeartbeatsTypeOK'
  BY <1>12 DEF Tick, HeartbeatsTypeOK, sweepVars
<1>13. ASSUME UNCHANGED heartbeatVars PROVE HeartbeatsTypeOK'
  BY <1>13 DEF heartbeatVars, rowVars, sweepVars, HeartbeatsTypeOK
<1> QED BY <1>1, <1>2, <1>3, <1>4, <1>5, <1>6, <1>7, <1>8, <1>9, <1>10, <1>11, <1>12,
           <1>13 DEF HeartbeatsNext, SweepStep

\* Every step keeps the invariant.
LEMMA SweepInvStep == SweepInv /\ [HeartbeatsNext]_heartbeatVars => SweepInv'
<1> DEFINE Told == MarkedAreTold /\ MissingIsAccountedFor
<1> SUFFICES ASSUME SweepInv, [HeartbeatsNext]_heartbeatVars PROVE Told'
  BY SweepTypeStep DEF SweepInv
<1>0. HeartbeatsTypeOK /\ MarkedAreTold /\ MissingIsAccountedFor
  BY DEF SweepInv
<1> USE <1>0, HeartbeatAssumption
<1>1. ASSUME NEW s \in Sweeps, StartSweep(s) PROVE Told'
  BY <1>1 DEF StartSweep, HeartbeatsTypeOK, MarkedAreTold, MissingIsAccountedFor, rowVars
<1>2. ASSUME NEW s \in Sweeps, NEW h \in Heartbeats, MarkMissing(s, h) PROVE Told'
  <2>1. current[s] = NoHeartbeat /\ marked[s] \subseteq told \cup unsent[s]
    BY <1>2 DEF MarkMissing, MarkedAreTold
  <2> QED BY <1>2, <2>1
          DEF MarkMissing, HeartbeatsTypeOK, MarkedAreTold, MissingIsAccountedFor, rowVars
<1>3. ASSUME NEW s \in Sweeps, AbortSweep(s) \/ \E h \in Heartbeats : MarkFails(s, h)
      PROVE  Told'
  BY <1>3, EndSweepTold DEF AbortSweep, MarkFails, rowVars
<1>4. ASSUME NEW s \in Sweeps, SendMissing(s) PROVE Told'
  <2>1. PICK reached \in BOOLEAN, missed \in BOOLEAN :
          /\ reached \/ missed
          /\ told' = IF reached THEN told \cup {current[s]} ELSE told
          /\ unsent' = IF missed THEN [unsent EXCEPT ![s] = @ \cup {current[s]}] ELSE unsent
    BY <1>4 DEF SendMissing
  <2>2. /\ told \subseteq told' /\ \A t \in Sweeps : unsent[t] \subseteq unsent'[t]
        /\ current[s] \in told' \cup unsent'[s]
    BY <2>1 DEF HeartbeatsTypeOK
  <2>3. /\ marked' = marked /\ status' = status /\ excused' = excused
        /\ current' = [current EXCEPT ![s] = NoHeartbeat]
        /\ step' = [step EXCEPT ![s] = "mark"]
    BY <1>4 DEF SendMissing, rowVars
  <2>4. MarkedAreTold'
    <3> SUFFICES ASSUME NEW t \in Sweeps
                 PROVE  /\ marked[t] \subseteq told' \cup unsent'[t] \cup {current'[t]}
                        /\ step'[t] # "send" => current'[t] = NoHeartbeat
                        /\ marked[t] \subseteq Heartbeats
      BY <2>3 DEF MarkedAreTold
    <3>1. /\ marked[t] \subseteq told \cup unsent[t] \cup {current[t]}
          /\ step[t] # "send" => current[t] = NoHeartbeat
          /\ marked[t] \subseteq Heartbeats
      BY DEF MarkedAreTold
    <3> QED BY <2>2, <2>3, <3>1 DEF HeartbeatsTypeOK
  <2>5. MissingIsAccountedFor'
    BY <2>2, <2>3 DEF MissingIsAccountedFor
  <2> QED BY <2>4, <2>5
<1>5. ASSUME NEW s \in Sweeps, CommitSweep(s) PROVE Told'
  <2>1. marked[s] \subseteq told \cup unsent[s]
    BY <1>5 DEF CommitSweep, MarkedAreTold
  <2>2. MarkedAreTold'
    BY <1>5 DEF CommitSweep, EndSweep, HeartbeatsTypeOK, MarkedAreTold
  <2>3. MissingIsAccountedFor'
    BY <1>5, <2>1 DEF CommitSweep, MissingIsAccountedFor
  <2> QED BY <2>2, <2>3
<1>6. ASSUME NEW s \in Sweeps, NEW t \in Sweeps \ {s}, NEW h \in Heartbeats,
             DeadlockVictim(s, t, h)
      PROVE  Told'
  <2>1. marked[t] \subseteq told \cup unsent[t]
    BY <1>6 DEF DeadlockVictim, MarkedAreTold
  <2> QED BY <1>6, <2>1
          DEF DeadlockVictim, HeartbeatsTypeOK, MarkedAreTold, MissingIsAccountedFor, rowVars
<1>7. ASSUME NEW p \in Pings, WritePing(p) PROVE Told'
  <2> DEFINE h == ping[p].hb
             revives == live[h] = "live" /\ ping[p].wasMissing
  <2>1. UNCHANGED <<step, marked, unsent, current>> /\ \A s \in Sweeps : h \notin marked[s]
    BY <1>7 DEF WritePing, RowLocked, sweepVars
  <2>2. \/ UNCHANGED <<told, excused, status>>
        \/ /\ told' = told \ {h} /\ excused' = excused \ {h}
           /\ status' = [status EXCEPT ![h] = "ALIVE"]
    <3>1. CASE revives
      BY <1>7, <3>1 DEF WritePing
    <3>2. CASE ~revives
      BY <1>7, <3>2 DEF WritePing
    <3> QED BY <3>1, <3>2
  <2> QED BY <2>1, <2>2 DEF HeartbeatsTypeOK, MarkedAreTold, MissingIsAccountedFor
<1>8. ASSUME \/ \E h \in Heartbeats : CreateHeartbeat(h) \/ DeleteHeartbeat(h)
             \/ \E p \in Pings : SendRecovery(p) \/ \E h \in Heartbeats : ReadPing(p, h)
             \/ Tick
             \/ UNCHANGED heartbeatVars
      PROVE  Told'
  <2>1. UNCHANGED <<step, marked, unsent, current, told, excused, status>>
    BY <1>8
    DEF CreateHeartbeat, DeleteHeartbeat, SendRecovery, ReadPing, Tick, heartbeatVars,
        rowVars, sweepVars
  <2> QED BY <2>1 DEF MarkedAreTold, MissingIsAccountedFor
<1> HIDE DEF Told
<1> QED BY <1>1, <1>2, <1>3, <1>4, <1>5, <1>6, <1>7, <1>8 DEF HeartbeatsNext, SweepStep

\* Without heartbeats nothing is marked, told or MISSING.
LEMMA SweepInvInit == HeartbeatsInit => SweepInv
  BY WindowAssumption
  DEF HeartbeatsInit, SweepInv, HeartbeatsTypeOK, MarkedAreTold, MissingIsAccountedFor, NoPing

\* Of every heartbeat that shows MISSING a channel was told, or the alert log says that a
\* send failed or was skipped (heartbeat_checker.py:35-67), however sweeps overlap, abort
\* and race with pings.
THEOREM MissingIsAccountedForHolds == HeartbeatsSpec => []MissingIsAccountedFor
<1>1. SweepInv => MissingIsAccountedFor
  BY DEF SweepInv
<1> QED BY <1>1, SweepInvInit, SweepInvStep, PTL DEF HeartbeatsSpec

\* Rows, sweeps, pings and the clock keep their types.
THEOREM HeartbeatsTypeCorrect == HeartbeatsSpec => []HeartbeatsTypeOK
<1>1. SweepInv => HeartbeatsTypeOK
  BY DEF SweepInv
<1> QED BY <1>1, SweepInvInit, SweepInvStep, PTL DEF HeartbeatsSpec
=============================================================================
