-------------------------- MODULE FlapLogicProofs --------------------------
(***************************************************************************)
(* What the operators of the flap rule return, for every log of incidents. *)
(***************************************************************************)
EXTENDS FlapLogic, SequenceTheorems, TLAPS

\* The two latest of a sequence of checks are checks (incident_service.py:22-29).
LEMMA LastTwoType ==
  ASSUME NEW S, NEW s \in Seq(S)
  PROVE  LastTwo(s) \in Seq(S)
<1>1. CASE Len(s) <= 2
  BY <1>1 DEF LastTwo
<1>2. CASE ~(Len(s) <= 2)
  <2>1. Len(s) - 1 \in 1 .. Len(s) + 1 /\ Len(s) \in Len(s) - 2 .. Len(s)
    BY <1>2, LenProperties
  <2>2. SubSeq(s, Len(s) - 1, Len(s)) \in Seq(S)
    BY <2>1, <1>2, LenProperties, SubSeqProperties
  <2> QED BY <2>2, <1>2 DEF LastTwo
<1> QED BY <1>1, <1>2

\* The decision is a plan, and a plan to open or to resolve is one the log allows:
\* nothing OPEN for the first, an OPEN incident for the second
\* (incident_service.py:47-62).
LEMMA FlapPlanType ==
  ASSUME NEW recent, NEW log \in Seq(Incident),
         \A i, k \in OpenIncidents(log) : i = k
  PROVE  /\ FlapPlan(recent, log) \in Plans
         /\ FlapPlan(recent, log).kind = "open" =>
              /\ OpenIncidents(log) = {}
              /\ FlapPlan(recent, log).id = Len(log) + 1
         /\ FlapPlan(recent, log).kind = "recovery" =>
              FlapPlan(recent, log).id \in OpenIncidents(log)
<1>1. Len(log) \in Nat
  BY LenProperties
<1>2. CASE recent = <<"DOWN", "DOWN">> /\ OpenIncidents(log) = {}
  BY <1>1, <1>2 DEF FlapPlan, Plans
<1>3. CASE ~(recent = <<"DOWN", "DOWN">> /\ OpenIncidents(log) = {})
           /\ recent = <<"UP", "UP">> /\ OpenIncidents(log) # {}
  <2>1. PICK i \in OpenIncidents(log) : TRUE
    BY <1>3
  <2>2. OpenIncidents(log) \subseteq Nat
    BY LenProperties DEF OpenIncidents
  <2>3. \A k \in OpenIncidents(log) : k <= i
    BY <2>1, <2>2
  <2>4. GetOpenIncident(log) \in OpenIncidents(log)
    BY <2>1, <2>3 DEF GetOpenIncident
  <2> QED BY <1>3, <2>2, <2>4 DEF FlapPlan, Plans
<1>4. CASE ~(recent = <<"DOWN", "DOWN">> /\ OpenIncidents(log) = {})
           /\ ~(recent = <<"UP", "UP">> /\ OpenIncidents(log) # {})
  BY <1>4 DEF FlapPlan, NoPlan, Plans
<1> QED BY <1>2, <1>3, <1>4

\* A function on an initial segment of the naturals is a sequence.
LEMMA FunctionIsSeq ==
  ASSUME NEW S, NEW n \in Nat, NEW f \in [1 .. n -> S]
  PROVE  f \in Seq(S)
  BY SeqDef

\* Acknowledging an incident of a log leaves a log of the same length and opens
\* nothing (routers/incidents.py:112-113).
LEMMA AcknowledgeType ==
  ASSUME NEW log \in Seq(Incident), NEW id,
         NEW new, new = [i \in DOMAIN log |-> IF i = id THEN Acknowledge(log[i]) ELSE log[i]]
  PROVE  /\ new \in Seq(Incident)
         /\ DOMAIN new = DOMAIN log
         /\ OpenIncidents(new) \subseteq OpenIncidents(log)
<1>1. Len(log) \in Nat /\ DOMAIN log = 1 .. Len(log)
      /\ \A i \in DOMAIN log : log[i] \in Incident
  BY LenProperties, ElementOfSeq
<1>2. \A x \in Incident : Acknowledge(x) \in Incident /\ Acknowledge(x).status = "ACK"
  BY DEF Acknowledge, Incident, IncidentStatuses
<1>3. new \in [1 .. Len(log) -> Incident]
  BY <1>1, <1>2
<1>4. OpenIncidents(new) \subseteq OpenIncidents(log)
  BY <1>1, <1>2 DEF OpenIncidents
<1> QED BY <1>1, <1>3, <1>4, FunctionIsSeq

\* Carrying out a plan leaves a log; an incident becomes OPEN only by opening it, and
\* it is then the last (incident_service.py:49-70).
LEMMA ApplyPlanType ==
  ASSUME NEW log \in Seq(Incident), NEW todo \in Plans
  PROVE  /\ ApplyPlan(log, todo) \in Seq(Incident)
         /\ Len(log) <= Len(ApplyPlan(log, todo))
         /\ todo.kind = "open" =>
              OpenIncidents(ApplyPlan(log, todo)) \subseteq
                OpenIncidents(log) \cup {Len(log) + 1}
         /\ todo.kind # "open" =>
              OpenIncidents(ApplyPlan(log, todo)) \subseteq OpenIncidents(log)
<1> DEFINE new == ApplyPlan(log, todo)
<1>1. Len(log) \in Nat /\ DOMAIN log = 1 .. Len(log)
      /\ \A i \in DOMAIN log : log[i] \in Incident
  BY LenProperties, ElementOfSeq
<1>2. CASE todo.kind = "open"
  <2>1. new = Append(log, NewIncident)
    BY <1>2 DEF ApplyPlan
  <2>2. NewIncident \in Incident
    BY DEF NewIncident, Incident, IncidentStatuses
  <2>3. /\ new \in Seq(Incident) /\ Len(new) = Len(log) + 1
        /\ \A i \in 1 .. Len(log) : new[i] = log[i]
    BY <2>1, <2>2, AppendProperties
  <2>4. DOMAIN new = 1 .. Len(log) + 1
    BY <2>3, LenProperties
  <2>5. OpenIncidents(new) \subseteq OpenIncidents(log) \cup {Len(log) + 1}
    BY <1>1, <2>3, <2>4 DEF OpenIncidents
  <2> QED BY <1>1, <1>2, <2>3, <2>5
<1>3. CASE todo.kind = "recovery"
  <2>1. new = [i \in DOMAIN log |-> IF i = todo.id THEN Resolve(log[i]) ELSE log[i]]
    BY <1>3 DEF ApplyPlan
  <2>2. \A x \in Incident : Resolve(x) \in Incident /\ Resolve(x).status = "RESOLVED"
    BY DEF Resolve, Incident, IncidentStatuses
  <2>3. new \in [1 .. Len(log) -> Incident]
    BY <1>1, <2>1, <2>2
  <2>4. new \in Seq(Incident) /\ Len(new) = Len(log)
    BY <1>1, <2>3, FunctionIsSeq, LenProperties
  <2>5. OpenIncidents(new) \subseteq OpenIncidents(log)
    BY <1>1, <2>1, <2>2 DEF OpenIncidents
  <2> QED BY <1>1, <1>3, <2>4, <2>5
<1>4. CASE todo.kind = "none"
  BY <1>1, <1>4 DEF ApplyPlan
<1> QED BY <1>2, <1>3, <1>4 DEF Plans

\* The decision depends on the two checks, on what is OPEN and on how long the log is,
\* on nothing else the rows say (incident_service.py:45-61).
LEMMA FlapPlanReads ==
  ASSUME NEW recent, NEW a, NEW b, OpenIncidents(a) = OpenIncidents(b), Len(a) = Len(b)
  PROVE  FlapPlan(recent, a) = FlapPlan(recent, b)
  BY DEF FlapPlan, GetOpenIncident

\* A plan to resolve names the incident that is OPEN, two UP with one OPEN make such a
\* plan, and two DOWN with nothing OPEN make one to open.
LEMMA FlapPlanDecides ==
  ASSUME NEW recent, NEW log \in Seq(Incident), NEW open, OpenIncidents(log) \subseteq {open}
  PROVE  /\ recent = <<"DOWN", "DOWN">> =>
              IF OpenIncidents(log) = {} THEN FlapPlan(recent, log).kind = "open"
                                         ELSE FlapPlan(recent, log).kind = "none"
         /\ recent = <<"UP", "UP">> =>
              IF OpenIncidents(log) = {} THEN FlapPlan(recent, log).kind = "none"
                                         ELSE FlapPlan(recent, log) = [kind |-> "recovery", id |-> open]
         /\ FlapPlan(recent, log).kind = "open" => recent = <<"DOWN", "DOWN">>
         /\ FlapPlan(recent, log).kind = "recovery" =>
              recent = <<"UP", "UP">> /\ OpenIncidents(log) = {open}
<1>1. <<"DOWN", "DOWN">> # <<"UP", "UP">>
  OBVIOUS
<1>2. CASE OpenIncidents(log) = {}
  BY <1>1, <1>2 DEF FlapPlan, NoPlan
<1>3. CASE OpenIncidents(log) = {open}
  <2>1. \A i, k \in OpenIncidents(log) : i = k
    BY <1>3
  <2>2. recent = <<"UP", "UP">> => FlapPlan(recent, log) = [kind |-> "recovery", id |-> GetOpenIncident(log)]
    BY <1>1, <1>3 DEF FlapPlan
  <2>3. recent = <<"UP", "UP">> => FlapPlan(recent, log).id = open
    BY <1>3, <2>1, <2>2, FlapPlanType
  <2>4. recent = <<"UP", "UP">> => FlapPlan(recent, log) = [kind |-> "recovery", id |-> open]
    BY <2>2, <2>3
  <2>5. recent # <<"UP", "UP">> => FlapPlan(recent, log).kind = "none"
    BY <1>1, <1>3 DEF FlapPlan, NoPlan
  <2> QED BY <1>1, <1>3, <2>4, <2>5
<1> QED BY <1>2, <1>3

\* What a transaction may have seen of a log that was only acknowledged since: the log,
\* or the log with its acknowledged incident OPEN again.
Sights(log) ==
  {log} \cup {[log EXCEPT ![i].status = "OPEN"] :
                i \in {k \in DOMAIN log : log[k].status = "ACK" /\ OpenIncidents(log) = {}}}

\* A plan that some sight of the log calls for.
MayDecide(recent, log, todo) == \E seen \in Sights(log) : todo = FlapPlan(recent, seen)

\* The log with one acknowledged incident OPEN again.
LEMMA ReopenedLog ==
  ASSUME NEW log \in Seq(Incident), OpenIncidents(log) = {}, NEW k \in DOMAIN log,
         NEW seen, seen = [log EXCEPT ![k].status = "OPEN"]
  PROVE  /\ seen \in Seq(Incident)
         /\ DOMAIN seen = DOMAIN log /\ Len(seen) = Len(log)
         /\ OpenIncidents(seen) = {k}
<1>1. Len(log) \in Nat /\ DOMAIN log = 1 .. Len(log)
      /\ \A i \in DOMAIN log : log[i] \in Incident
  BY LenProperties, ElementOfSeq
<1>2. [log[k] EXCEPT !.status = "OPEN"] \in Incident /\ [log[k] EXCEPT !.status = "OPEN"].status = "OPEN"
  BY <1>1 DEF Incident, IncidentStatuses
<1>3. /\ DOMAIN seen = DOMAIN log
      /\ seen[k] = [log[k] EXCEPT !.status = "OPEN"]
      /\ \A i \in DOMAIN log : i # k => seen[i] = log[i]
  BY <1>1
<1>4. seen \in [1 .. Len(log) -> Incident]
  BY <1>1, <1>2, <1>3
<1>5. seen \in Seq(Incident) /\ Len(seen) = Len(log)
  BY <1>1, <1>4, FunctionIsSeq, LenProperties
<1>6. OpenIncidents(seen) = {k}
  BY <1>1, <1>2, <1>3 DEF OpenIncidents
<1> QED BY <1>3, <1>5, <1>6

\* Every sight of a log is a log of the same length with at most one OPEN incident.
LEMMA SightType ==
  ASSUME NEW log \in Seq(Incident), \A i, k \in OpenIncidents(log) : i = k,
         NEW seen \in Sights(log)
  PROVE  /\ seen \in Seq(Incident) /\ Len(seen) = Len(log) /\ DOMAIN seen = DOMAIN log
         /\ \A i, k \in OpenIncidents(seen) : i = k
         /\ OpenIncidents(log) \subseteq OpenIncidents(seen)
         /\ \A i \in OpenIncidents(seen) : i \in DOMAIN log /\ log[i].status # "RESOLVED"
<1>1. CASE seen = log
  BY <1>1 DEF OpenIncidents
<1>2. ASSUME NEW k \in DOMAIN log, log[k].status = "ACK", OpenIncidents(log) = {},
             seen = [log EXCEPT ![k].status = "OPEN"]
      PROVE  /\ seen \in Seq(Incident) /\ Len(seen) = Len(log) /\ DOMAIN seen = DOMAIN log
             /\ OpenIncidents(seen) = {k}
  BY <1>2, ReopenedLog, Zenon
<1> QED BY <1>1, <1>2 DEF Sights

\* A decision about an incident that was OPEN is one of the sights of a log in which it
\* is acknowledged and nothing is OPEN.
LEMMA SightReopens ==
  ASSUME NEW log \in Seq(Incident), OpenIncidents(log) = {}, NEW k \in DOMAIN log,
         log[k].status = "ACK",
         NEW recent, NEW seen, OpenIncidents(seen) = {k}, Len(seen) = Len(log)
  PROVE  MayDecide(recent, log, FlapPlan(recent, seen))
<1>1. PICK still : still = [log EXCEPT ![k].status = "OPEN"]
  OBVIOUS
<1>2. still \in Sights(log)
  BY <1>1 DEF Sights
<1>3. OpenIncidents(still) = {k} /\ Len(still) = Len(log)
  BY <1>1, ReopenedLog, Zenon
<1>4. FlapPlan(recent, still) = FlapPlan(recent, seen)
  BY <1>3, FlapPlanReads
<1> QED BY <1>2, <1>4 DEF MayDecide

\* What is left of a log when one of its incidents is acknowledged.
Acknowledged(log, id, new) ==
  /\ new \in Seq(Incident) /\ DOMAIN new = DOMAIN log /\ Len(new) = Len(log)
  /\ OpenIncidents(new) = OpenIncidents(log) \ {id}
  /\ \A k \in DOMAIN log :
       /\ k = id \/ log[k].status = "ACK" => new[k].status = "ACK"
       /\ log[k].status # "RESOLVED" => new[k].status # "RESOLVED"
       /\ new[k].status = "OPEN" => log[k].status = "OPEN"
       /\ log[k].acked => new[k].acked
       /\ new[k].resolved = log[k].resolved

\* Acknowledging an entry of the log leaves what Acknowledged says.
LEMMA AcknowledgeLeaves ==
  ASSUME NEW log \in Seq(Incident), NEW id,
         NEW new, new = [i \in DOMAIN log |-> IF i = id THEN Acknowledge(log[i]) ELSE log[i]]
  PROVE  Acknowledged(log, id, new)
<1>1. Len(log) \in Nat /\ DOMAIN log = 1 .. Len(log)
      /\ \A i \in DOMAIN log : log[i] \in Incident
  BY LenProperties, ElementOfSeq
<1>2. \A x \in Incident : /\ Acknowledge(x) \in Incident /\ Acknowledge(x).status = "ACK"
                          /\ Acknowledge(x).acked = TRUE
                          /\ Acknowledge(x).resolved = x.resolved
  BY DEF Acknowledge, Incident, IncidentStatuses
<1>3. new \in Seq(Incident) /\ DOMAIN new = DOMAIN log
  BY AcknowledgeType, Zenon
<1>4. Len(new) = Len(log)
  BY <1>1, <1>3, LenProperties
<1>5. OpenIncidents(new) = OpenIncidents(log) \ {id}
  BY <1>1, <1>2, <1>3 DEF OpenIncidents
<1>6. \A k \in DOMAIN log :
         /\ k = id \/ log[k].status = "ACK" => new[k].status = "ACK"
         /\ log[k].status # "RESOLVED" => new[k].status # "RESOLVED"
         /\ new[k].status = "OPEN" => log[k].status = "OPEN"
         /\ log[k].acked => new[k].acked
         /\ new[k].resolved = log[k].resolved
  BY <1>1, <1>2
<1> QED BY <1>3, <1>4, <1>5, <1>6 DEF Acknowledged

\* An acknowledgement between the read and the commit of a transaction takes no plan
\* back: what was seen then may have been seen still (incidents.py:108-115).
LEMMA SightOfAcknowledged ==
  ASSUME NEW log \in Seq(Incident), \A i, k \in OpenIncidents(log) : i = k,
         NEW id, NEW new, Acknowledged(log, id, new),
         NEW recent, NEW seen \in Sights(log)
  PROVE  MayDecide(recent, new, FlapPlan(recent, seen))
<1> USE DEF Acknowledged
<1>1. ASSUME NEW k \in DOMAIN log, OpenIncidents(seen) = {k}, Len(seen) = Len(log),
             new[k].status = "ACK", OpenIncidents(new) = {}
      PROVE  MayDecide(recent, new, FlapPlan(recent, seen))
  <2>1. new \in Seq(Incident) /\ k \in DOMAIN new /\ Len(seen) = Len(new)
    BY <1>1
  <2> HIDE DEF Acknowledged
  <2> QED BY <1>1, <2>1, SightReopens
<1>2. CASE seen = log /\ id \notin OpenIncidents(log)
  <2>1. OpenIncidents(new) = OpenIncidents(log)
    BY <1>2
  <2>2. FlapPlan(recent, new) = FlapPlan(recent, log)
    BY <2>1, FlapPlanReads
  <2> QED BY <1>2, <2>2 DEF Sights, MayDecide
<1>3. CASE seen = log /\ id \in OpenIncidents(log)
  <2>1. OpenIncidents(log) = {id} /\ id \in DOMAIN log
    BY <1>3 DEF OpenIncidents
  <2> QED BY <1>1, <1>3, <2>1
<1>4. ASSUME NEW k \in DOMAIN log, log[k].status = "ACK", OpenIncidents(log) = {},
             seen = [log EXCEPT ![k].status = "OPEN"]
      PROVE  MayDecide(recent, new, FlapPlan(recent, seen))
  <2> HIDE DEF Acknowledged
  <2>1. OpenIncidents(seen) = {k} /\ Len(seen) = Len(log)
    BY <1>4, ReopenedLog, Zenon
  <2>2. new[k].status = "ACK" /\ OpenIncidents(new) = {}
    BY <1>4 DEF Acknowledged
  <2> QED BY <1>1, <1>4, <2>1, <2>2
<1> QED BY <1>2, <1>3, <1>4 DEF Sights

\* A plan that was right before an acknowledgement is one the rule may still make.
LEMMA MayStillDecide ==
  ASSUME NEW log \in Seq(Incident), \A i, k \in OpenIncidents(log) : i = k,
         NEW id, NEW new, Acknowledged(log, id, new),
         NEW recent, NEW todo, MayDecide(recent, log, todo)
  PROVE  MayDecide(recent, new, todo)
<1>1. PICK seen \in Sights(log) : todo = FlapPlan(recent, seen)
  BY DEF MayDecide
<1> QED BY <1>1, SightOfAcknowledged

\* What a plan is about: an incident that is not there yet, or one that is.
LEMMA MayDecideType ==
  ASSUME NEW log \in Seq(Incident), \A i, k \in OpenIncidents(log) : i = k,
         NEW recent, NEW todo, MayDecide(recent, log, todo)
  PROVE  /\ todo \in Plans
         /\ todo.kind = "open" => todo.id = Len(log) + 1
         /\ todo.kind = "recovery" => todo.id \in DOMAIN log
<1>1. PICK seen \in Sights(log) : todo = FlapPlan(recent, seen)
  BY DEF MayDecide
<1>2. /\ seen \in Seq(Incident) /\ Len(seen) = Len(log)
      /\ \A i, k \in OpenIncidents(seen) : i = k
      /\ \A i \in OpenIncidents(seen) : i \in DOMAIN log
  BY <1>1, SightType, Zenon
<1> QED BY <1>1, <1>2, FlapPlanType

\* What carrying out a plan does to an incident of the log: nothing it knows is lost,
\* nothing is opened again, and the one that recovered is resolved
\* (incident_service.py:49-70).
LEMMA ApplyPlanHistory ==
  ASSUME NEW log \in Seq(Incident), NEW todo \in Plans, NEW i \in DOMAIN log,
         NEW new, new = ApplyPlan(log, todo)
  PROVE  /\ i \in DOMAIN new
         /\ log[i].acked => new[i].acked
         /\ log[i].resolved => new[i].resolved
         /\ new[i].status = "OPEN" => log[i].status = "OPEN"
         /\ todo.kind = "recovery" /\ i = todo.id =>
              new[i].resolved /\ new[i].status = "RESOLVED"
         /\ ~(todo.kind = "recovery" /\ i = todo.id) => new[i] = log[i]
<1>1. Len(log) \in Nat /\ DOMAIN log = 1 .. Len(log) /\ log[i] \in Incident
  BY LenProperties, ElementOfSeq
<1>2. CASE todo.kind = "open"
  <2>1. new = Append(log, NewIncident) /\ NewIncident \in Incident
    BY <1>2 DEF ApplyPlan, NewIncident, Incident, IncidentStatuses
  <2>2. /\ new \in Seq(Incident) /\ Len(new) = Len(log) + 1
        /\ new[i] = log[i]
    BY <1>1, <2>1, AppendProperties
  <2>3. i \in DOMAIN new
    BY <1>1, <2>2, LenProperties
  <2> QED BY <1>2, <2>2, <2>3
<1>3. CASE todo.kind = "recovery"
  <2>1. new = [k \in DOMAIN log |-> IF k = todo.id THEN Resolve(log[k]) ELSE log[k]]
    BY <1>3 DEF ApplyPlan
  <2>2. /\ Resolve(log[i]).resolved = TRUE /\ Resolve(log[i]).status = "RESOLVED"
        /\ Resolve(log[i]).acked = log[i].acked
    BY <1>1 DEF Resolve, Incident
  <2> QED BY <1>3, <2>1, <2>2
<1>4. CASE todo.kind = "none"
  BY <1>4 DEF ApplyPlan
<1> QED BY <1>2, <1>3, <1>4 DEF Plans

\* What a plan adds: an incident that is OPEN, unacknowledged and unresolved, last.
LEMMA ApplyPlanAdds ==
  ASSUME NEW log \in Seq(Incident), NEW todo \in Plans,
         NEW new, new = ApplyPlan(log, todo)
  PROVE  /\ \A i \in DOMAIN new : i \notin DOMAIN log => new[i] = NewIncident
         /\ todo.kind = "open" =>
              Len(log) + 1 \in DOMAIN new /\ new[Len(log) + 1] = NewIncident
         /\ todo.kind # "open" => DOMAIN new = DOMAIN log
<1>1. Len(log) \in Nat /\ DOMAIN log = 1 .. Len(log)
  BY LenProperties
<1>2. CASE todo.kind = "open"
  <2>1. new = Append(log, NewIncident) /\ NewIncident \in Incident
    BY <1>2 DEF ApplyPlan, NewIncident, Incident, IncidentStatuses
  <2>2. /\ new \in Seq(Incident) /\ Len(new) = Len(log) + 1
        /\ new[Len(log) + 1] = NewIncident
    BY <1>1, <2>1, AppendProperties
  <2>3. DOMAIN new = 1 .. Len(log) + 1
    BY <2>2, LenProperties
  <2> QED BY <1>1, <1>2, <2>2, <2>3
<1>3. CASE todo.kind = "recovery"
  BY <1>3 DEF ApplyPlan
<1>4. CASE todo.kind = "none"
  BY <1>4 DEF ApplyPlan
<1> QED BY <1>2, <1>3, <1>4 DEF Plans

\* The incidents a monitor's two latest checks call for.
Follows(recent, log) ==
  /\ recent = <<"DOWN", "DOWN">> => \E i \in DOMAIN log : log[i].status # "RESOLVED"
  /\ recent = <<"UP", "UP">> => OpenIncidents(log) = {}

\* The outcome of a check: two DOWN leave an unresolved incident, two UP leave none
\* OPEN, even when an acknowledgement was stored after the decision
\* (incident_service.py:35-36).
LEMMA OutcomeFollows ==
  ASSUME NEW log \in Seq(Incident), \A i, k \in OpenIncidents(log) : i = k,
         NEW recent, NEW todo \in Plans, MayDecide(recent, log, todo),
         NEW new, new = ApplyPlan(log, todo)
  PROVE  Follows(recent, new)
<1>0. PICK seen \in Sights(log) : todo = FlapPlan(recent, seen)
  BY DEF MayDecide
<1>1. /\ seen \in Seq(Incident) /\ Len(seen) = Len(log)
      /\ \A i, k \in OpenIncidents(seen) : i = k
      /\ OpenIncidents(log) \subseteq OpenIncidents(seen)
      /\ \A i \in OpenIncidents(seen) : i \in DOMAIN log /\ log[i].status # "RESOLVED"
  BY <1>0, SightType, Zenon
<1>2. PICK open : OpenIncidents(seen) \subseteq {open}
  <2>1. CASE OpenIncidents(seen) = {}
    BY <2>1
  <2>2. CASE OpenIncidents(seen) # {}
    <3>1. PICK i \in OpenIncidents(seen) : TRUE
      BY <2>2
    <3> QED BY <3>1, <1>1
  <2> QED BY <2>1, <2>2
<1>3. ASSUME recent = <<"DOWN", "DOWN">>
      PROVE  \E i \in DOMAIN new : new[i].status # "RESOLVED"
  <2>1. CASE OpenIncidents(seen) = {}
    <3>1. todo.kind = "open"
      BY <1>1, <1>2, <1>3, <2>1, <1>0, FlapPlanDecides
    <3>2. Len(log) + 1 \in DOMAIN new /\ new[Len(log) + 1] = NewIncident
      BY <3>1, ApplyPlanAdds
    <3> QED BY <3>2 DEF NewIncident
  <2>2. CASE OpenIncidents(seen) # {}
    <3>1. todo.kind = "none"
      BY <1>1, <1>2, <1>3, <2>2, <1>0, FlapPlanDecides
    <3>2. new = log
      BY <3>1 DEF ApplyPlan
    <3> QED BY <1>1, <2>2, <3>2
  <2> QED BY <2>1, <2>2
<1>4. ASSUME recent = <<"UP", "UP">>
      PROVE  OpenIncidents(new) = {}
  <2>1. CASE OpenIncidents(seen) = {}
    <3>1. todo.kind = "none"
      BY <1>1, <1>2, <1>4, <2>1, <1>0, FlapPlanDecides
    <3>2. new = log
      BY <3>1 DEF ApplyPlan
    <3> QED BY <1>1, <2>1, <3>2
  <2>2. CASE OpenIncidents(seen) # {}
    <3>1. todo.kind = "recovery" /\ todo.id = open
      BY <1>1, <1>2, <1>4, <2>2, <1>0, FlapPlanDecides
    <3>2. /\ DOMAIN new = DOMAIN log
          /\ \A i \in DOMAIN log : i = open => new[i].status = "RESOLVED"
          /\ \A i \in DOMAIN log : new[i].status = "OPEN" => log[i].status = "OPEN"
      BY <3>1, ApplyPlanHistory, ApplyPlanAdds
    <3> QED BY <1>1, <1>2, <3>2 DEF OpenIncidents
  <2> QED BY <2>1, <2>2
<1> QED BY <1>3, <1>4 DEF Follows
=============================================================================
