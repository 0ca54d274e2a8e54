----------------------------- MODULE FlapLogic -----------------------------
(***************************************************************************)
(* The flap rule of backend/app/services/incident_service.py as pure        *)
(* operators: which incident a monitor's two most recent checks open or     *)
(* resolve.  Checker applies it step by step inside a worker's transaction, *)
(* IncidentLog applies it atomically.                                       *)
(*                                                                          *)
(* A log of incidents is a sequence ordered by started_at; an incident's    *)
(* identity is its index.  downtime_sec, names and texts are left out.      *)
(***************************************************************************)
EXTENDS Naturals, Sequences

ProbeStatuses == {"UP", "DOWN"}

IncidentStatuses == {"OPEN", "ACK", "RESOLVED"}

\* The columns of an incident row the workers and the API decide on:
\* acked is "ack_at is set", resolved is "resolved_at is set".
Incident == [status : IncidentStatuses, acked : BOOLEAN, resolved : BOOLEAN]

NewIncident == [status |-> "OPEN", acked |-> FALSE, resolved |-> FALSE]

\* _last_two_checks, oldest first: rows older than these are never read again
\* by the flap rule, so the models keep no others.
LastTwo(s) == IF Len(s) <= 2 THEN s ELSE SubSeq(s, Len(s) - 1, Len(s))

OpenIncidents(log) == {i \in DOMAIN log : log[i].status = "OPEN"}

\* get_open_incident: only status OPEN counts, the latest started one wins.
GetOpenIncident(log) ==
  CHOOSE i \in OpenIncidents(log) : \A k \in OpenIncidents(log) : k <= i

\* What a transaction will do to the incidents: the transition, which is also
\* the kind of alert it calls for, and the incident it is about.
NoPlan == [kind |-> "none", id |-> 0]

Plans == [kind : {"none", "open", "recovery"}, id : Nat]

\* Mutant of FlapPlan: two DOWN open an incident even if one is OPEN.
FlapPlanUnguarded(recent, log) ==
  IF recent = <<"DOWN", "DOWN">>
    THEN [kind |-> "open", id |-> Len(log) + 1]
  ELSE IF recent = <<"UP", "UP">> /\ OpenIncidents(log) # {}
    THEN [kind |-> "recovery", id |-> GetOpenIncident(log)]
  ELSE NoPlan

\* apply_flap_logic, the decision.
FlapPlan(recent, log) ==
  IF recent = <<"DOWN", "DOWN">> /\ OpenIncidents(log) = {}
    THEN [kind |-> "open", id |-> Len(log) + 1]
  ELSE IF recent = <<"UP", "UP">> /\ OpenIncidents(log) # {}
    THEN [kind |-> "recovery", id |-> GetOpenIncident(log)]
  ELSE NoPlan

Resolve(incident) == [incident EXCEPT !.status = "RESOLVED", !.resolved = TRUE]

\* Mutant of Acknowledge: the whole row is written as it was read.
AcknowledgeWholeRow(incident) == [status |-> "ACK", acked |-> TRUE, resolved |-> FALSE]

Acknowledge(incident) == [incident EXCEPT !.status = "ACK", !.acked = TRUE]

\* apply_flap_logic, the writes: the UPDATE of a resolution has no condition on
\* the status the row has by then.
ApplyPlan(log, plan) ==
  CASE plan.kind = "open"     -> Append(log, NewIncident)
    [] plan.kind = "recovery" ->
         [i \in DOMAIN log |-> IF i = plan.id THEN Resolve(log[i]) ELSE log[i]]
    [] plan.kind = "none"     -> log
=============================================================================
