---------------------------- MODULE IncidentLog ----------------------------
(***************************************************************************)
(* What checking a monitor promises, without jobs, locks or transactions:   *)
(* the checks of a monitor are recorded one after another, and each one      *)
(* opens or resolves an incident by the flap rule in the same step.         *)
(*                                                                          *)
(* Acknowledging is the only other writer, and it takes two steps: a request *)
(* that found an incident OPEN writes it later.  A check may therefore have  *)
(* decided before an acknowledgement that is stored by now.                 *)
(***************************************************************************)
EXTENDS FlapLogic

CONSTANT Monitors

VARIABLES live, checks, incidents, acking

logVars == <<live, checks, incidents, acking>>

Init ==
  /\ live = [m \in Monitors |-> "new"]
  /\ checks = [m \in Monitors |-> <<>>]
  /\ incidents = [m \in Monitors |-> <<>>]
  /\ acking = {}

\* create_monitor.
Create(m) ==
  /\ live[m] = "new"
  /\ live' = [live EXCEPT ![m] = "live"]
  /\ UNCHANGED <<checks, incidents, acking>>

\* The log as it is, or as it was before the last acknowledgement.
SeenBy(log) ==
  {log} \cup {[log EXCEPT ![i].status = "OPEN"] :
                i \in {k \in DOMAIN log : log[k].status = "ACK" /\ OpenIncidents(log) = {}}}

\* check_job: one check and what the flap rule makes of it.
Record(m, s) ==
  LET recent == LastTwo(Append(checks[m], s)) IN
  /\ live[m] = "live"
  /\ checks' = [checks EXCEPT ![m] = recent]
  /\ \E seen \in SeenBy(incidents[m]) :
       incidents' = [incidents EXCEPT ![m] = ApplyPlan(@, FlapPlan(recent, seen))]
  /\ UNCHANGED <<live, acking>>

\* acknowledge_incident, its check.
BeginAck(m) ==
  /\ live[m] = "live"
  /\ \E i \in OpenIncidents(incidents[m]) : acking' = acking \cup {<<m, i>>}
  /\ UNCHANGED <<live, checks, incidents>>

\* acknowledge_incident, its write; another request may be about to write the same.
EndAck(m, i) ==
  /\ <<m, i>> \in acking
  /\ incidents' = [incidents EXCEPT ![m] =
                     [k \in DOMAIN @ |-> IF k = i THEN Acknowledge(@[k]) ELSE @[k]]]
  /\ acking' \in {acking, acking \ {<<m, i>>}}
  /\ UNCHANGED <<live, checks>>

\* delete_monitor.
Delete(m) ==
  /\ live' = [live EXCEPT ![m] = "deleted"]
  /\ checks' = [checks EXCEPT ![m] = <<>>]
  /\ incidents' = [incidents EXCEPT ![m] = <<>>]
  /\ UNCHANGED acking

Next ==
  \E m \in Monitors :
    \/ Create(m) \/ BeginAck(m) \/ Delete(m)
    \/ \E s \in ProbeStatuses : Record(m, s)
    \/ \E i \in DOMAIN incidents[m] \cup {a[2] : a \in acking} : EndAck(m, i)

Spec == Init /\ [][Next]_logVars
=============================================================================
