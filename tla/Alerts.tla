------------------------------- MODULE Alerts -------------------------------
(***************************************************************************)
(* Telegram alerts of incidents: the queue of telegram_alert_job, the job   *)
(* with its maintenance gate, sends and receipts, the deferred escalation    *)
(* and the sweep that makes up for a lost one.                               *)
(*                                                                          *)
(* Source: backend/app/workers/alerter.py, services/alert_service.py and     *)
(* send_message of services/telegram_service.py.  Who opens, acknowledges,   *)
(* resolves and deletes incidents is modelled in detail by Checker; here     *)
(* those are single steps.                                                   *)
(*                                                                          *)
(* A job's receipts are rows of one transaction that is committed after the  *)
(* last send.  Each row locks its channel and its incident against deletion  *)
(* until then, or fails the job if one of them is gone.                      *)
(***************************************************************************)
EXTENDS Naturals, Sequences, FiniteSets

CONSTANTS
  Incidents,   \* incident ids
  Channels,    \* Telegram channels of the team
  Workers,     \* job slots
  NoIncident,  \* "no incident", for an idle slot
  Delay,       \* telegram_escalation_delay_min, in ticks
  MaxQueue,    \* bound: escalations the sweep keeps waiting per incident
  MaxFaults,   \* bound: failed sends, lost enqueues, timeouts and crashes
  MaxChanges   \* bound: maintenance windows and channels that come and go

ASSUME IncidentAssumption == NoIncident \notin Incidents

\* max_jobs of WorkerSettings bounds the slots of a process.
ASSUME WorkersAssumption == IsFiniteSet(Workers)

ASSUME DelayAssumption ==
  /\ Delay \in Nat \ {0}
  /\ MaxQueue \in Nat /\ MaxFaults \in Nat /\ MaxChanges \in Nat

Kinds == {"open", "recovery", "escalation"}

VARIABLES
  \* PostgreSQL, committed rows
  status,     \* incident -> "none", "OPEN", "ACK", "RESOLVED" or "gone"
  age,        \* incident -> ticks since started_at, up to Delay
  resolved,   \* incident -> resolved_at is set
  escalated,  \* incident -> escalated_at is set
  channels,   \* active channels
  window,     \* the maintenance window: it mutes alerts while it is active
  logged,     \* <<incident, kind, channel>> -> "sent" receipts
  \* Redis
  ready,      \* <<incident, kind>> -> jobs waiting
  deferred,   \* incident -> ticks left of its deferred escalations
  \* job slots
  pc, inc, kind,
  todo,       \* slot -> channels it has still to send to
  sent,       \* slot -> channels it has sent to, receipts uncommitted
  failed,     \* slot -> channels that refused, receipts uncommitted
  \* Telegram
  received,   \* <<incident, kind, channel>> -> messages delivered
  \* budgets of the bounds
  faults, changes,
  \* history
  deleted     \* channels that were deleted at some time

dbVars == <<status, age, resolved, escalated, channels, window, logged>>
redisVars == <<ready, deferred>>
jobVars == <<pc, inc, kind, todo, sent, failed>>
vars == <<dbVars, redisVars, jobVars, received, faults, changes, deleted>>

Notes == Incidents \X Kinds \X Channels

TypeOK ==
  /\ status \in [Incidents -> {"none", "OPEN", "ACK", "RESOLVED", "gone"}]
  /\ age \in [Incidents -> 0 .. Delay]
  /\ resolved \in [Incidents -> BOOLEAN]
  /\ escalated \in [Incidents -> BOOLEAN]
  /\ channels \in SUBSET Channels
  /\ window \in {"none", "planned", "active"}
  /\ logged \in [Notes -> Nat]
  /\ ready \in [Incidents \X Kinds -> Nat]
  /\ deferred \in [Incidents -> Seq(0 .. Delay)]
  /\ pc \in [Workers -> {"idle", "gate", "send", "defer", "mark"}]
  /\ inc \in [Workers -> Incidents \cup {NoIncident}]
  /\ kind \in [Workers -> Kinds]
  /\ todo \in [Workers -> SUBSET Channels]
  /\ sent \in [Workers -> SUBSET Channels]
  /\ failed \in [Workers -> SUBSET Channels]
  /\ received \in [Notes -> Nat]
  /\ faults \in 0 .. MaxFaults
  /\ changes \in 0 .. MaxChanges
  /\ deleted \in SUBSET Channels

\* find_active_for_monitor.
Muted == window = "active"

Init ==
  /\ status = [i \in Incidents |-> "none"]
  /\ age = [i \in Incidents |-> 0]
  /\ resolved = [i \in Incidents |-> FALSE]
  /\ escalated = [i \in Incidents |-> FALSE]
  /\ channels \in SUBSET Channels
  /\ window = "none"
  /\ logged = [n \in Notes |-> 0]
  /\ ready = [e \in Incidents \X Kinds |-> 0]
  /\ deferred = [i \in Incidents |-> <<>>]
  /\ pc = [w \in Workers |-> "idle"]
  /\ inc = [w \in Workers |-> NoIncident]
  /\ kind = [w \in Workers |-> "open"]
  /\ todo = [w \in Workers |-> {}]
  /\ sent = [w \in Workers |-> {}]
  /\ failed = [w \in Workers |-> {}]
  /\ received = [n \in Notes |-> 0]
  /\ faults = MaxFaults
  /\ changes = MaxChanges
  /\ deleted = {}

-----------------------------------------------------------------------------
(* telegram_alert_job.                                                     *)

Finish(w) ==
  /\ pc' = [pc EXCEPT ![w] = "idle"]
  /\ inc' = [inc EXCEPT ![w] = NoIncident]
  /\ kind' = [kind EXCEPT ![w] = "open"]
  /\ todo' = [todo EXCEPT ![w] = {}]
  /\ sent' = [sent EXCEPT ![w] = {}]
  /\ failed' = [failed EXCEPT ![w] = {}]

Goto(w, step) ==
  /\ pc' = [pc EXCEPT ![w] = step]
  /\ UNCHANGED <<inc, kind>>

\* A slot takes an entry from the queue, or an escalation whose deferral is over.
Take(i, k) ==
  \/ /\ ready[<<i, k>>] > 0
     /\ ready' = [ready EXCEPT ![<<i, k>>] = @ - 1]
     /\ UNCHANGED deferred
  \/ /\ k = "escalation" /\ deferred[i] # <<>> /\ Head(deferred[i]) = 0
     /\ deferred' = [deferred EXCEPT ![i] = Tail(@)]
     /\ UNCHANGED ready

\* should_escalate; ack_at is set with every ACK.
ShouldEscalate(i) == status[i] = "OPEN" /\ ~escalated[i]

\* Mutant of StartAlert: an escalation is sent as it was scheduled.
StartAlertUnchecked(w, i, k) ==
  /\ pc[w] = "idle"
  /\ Take(i, k)
  /\ IF status[i] # "gone"
       THEN /\ pc' = [pc EXCEPT ![w] = "gate"]
            /\ inc' = [inc EXCEPT ![w] = i]
            /\ kind' = [kind EXCEPT ![w] = k]
       ELSE UNCHANGED <<pc, inc, kind>>
  /\ UNCHANGED <<dbVars, todo, sent, failed, received, faults, changes, deleted>>

\* The job reads its incident: "skipped" if it is gone or need not be escalated.
StartAlert(w, i, k) ==
  /\ pc[w] = "idle"
  /\ Take(i, k)
  /\ IF status[i] # "gone" /\ (k = "escalation" => ShouldEscalate(i))
       THEN /\ pc' = [pc EXCEPT ![w] = "gate"]
            /\ inc' = [inc EXCEPT ![w] = i]
            /\ kind' = [kind EXCEPT ![w] = k]
       ELSE UNCHANGED <<pc, inc, kind>>
  /\ UNCHANGED <<dbVars, todo, sent, failed, received, faults, changes, deleted>>

\* is_in_maintenance and list_active_for_team: with nobody to tell, a "skipped" row
\* is all the job leaves.
Gate(w) ==
  /\ pc[w] = "gate"
  /\ IF Muted \/ channels = {}
       THEN Finish(w)
       ELSE /\ Goto(w, "send")
            /\ todo' = [todo EXCEPT ![w] = channels]
            /\ UNCHANGED <<sent, failed>>
  /\ UNCHANGED <<dbVars, redisVars, received, faults, changes, deleted>>

\* The INSERT of a receipt, right after its send: it needs its channel and incident.
Receipt(w, c, results) ==
  IF c \in channels /\ status[inc[w]] # "gone"
    THEN results
    ELSE Finish(w)

Deliver(w, c, n) ==
  received' = [received EXCEPT ![<<inc[w], kind[w], c>>] = @ + n]

\* Attempts of one send_message.
MaxRetries == 3

\* send_message succeeds at one of its attempts; each one before it whose answer timed out
\* may have been delivered as well.  Such a call counts as one fault.
SendOK(w, c) ==
  /\ pc[w] = "send" /\ c \in todo[w]
  /\ \E n \in 1 .. MaxRetries :
       /\ Deliver(w, c, n)
       /\ n > 1 => faults > 0
       /\ faults' = IF n > 1 THEN faults - 1 ELSE faults
  /\ Receipt(w, c, /\ todo' = [todo EXCEPT ![w] = @ \ {c}]
                   /\ sent' = [sent EXCEPT ![w] = @ \cup {c}]
                   /\ UNCHANGED <<pc, inc, kind, failed>>)
  /\ UNCHANGED <<dbVars, redisVars, changes, deleted>>

\* Mutant of SendFails: the result of the send is not looked at.
SendFailsUnseen(w, c) ==
  /\ pc[w] = "send" /\ c \in todo[w] /\ faults > 0
  /\ faults' = faults - 1
  /\ Receipt(w, c, /\ todo' = [todo EXCEPT ![w] = @ \ {c}]
                   /\ sent' = [sent EXCEPT ![w] = @ \cup {c}]
                   /\ UNCHANGED <<pc, inc, kind, failed>>)
  /\ UNCHANGED <<dbVars, redisVars, received, changes, deleted>>

\* send_message gives up after its attempts, each of which may have timed out after it
\* was delivered.
SendFails(w, c) ==
  /\ pc[w] = "send" /\ c \in todo[w] /\ faults > 0
  /\ faults' = faults - 1
  /\ \E n \in 0 .. MaxRetries : Deliver(w, c, n)
  /\ Receipt(w, c, /\ todo' = [todo EXCEPT ![w] = @ \ {c}]
                   /\ failed' = [failed EXCEPT ![w] = @ \cup {c}]
                   /\ UNCHANGED <<pc, inc, kind, sent>>)
  /\ UNCHANGED <<dbVars, redisVars, changes, deleted>>

\* Mutant of CommitReceipts: an escalation is marked whatever came of its sends.
CommitReceiptsMarks(w) ==
  /\ pc[w] = "send" /\ todo[w] = {}
  /\ logged' = [n \in Notes |->
                  IF n \in {<<inc[w], kind[w], c>> : c \in sent[w]} THEN logged[n] + 1
                                                                   ELSE logged[n]]
  /\ IF kind[w] = "recovery"
       THEN Finish(w)
       ELSE /\ Goto(w, IF kind[w] = "open" THEN "defer" ELSE "mark")
            /\ sent' = [sent EXCEPT ![w] = {}]
            /\ failed' = [failed EXCEPT ![w] = {}]
            /\ UNCHANGED todo
  /\ UNCHANGED <<status, age, resolved, escalated, channels, window, redisVars, received,
                 faults, changes, deleted>>

\* One commit for all receipts; what follows depends on whether any was sent.
CommitReceipts(w) ==
  /\ pc[w] = "send" /\ todo[w] = {}
  /\ logged' = [n \in Notes |->
                  IF n \in {<<inc[w], kind[w], c>> : c \in sent[w]} THEN logged[n] + 1
                                                                   ELSE logged[n]]
  /\ IF kind[w] = "recovery" \/ sent[w] = {}
       THEN Finish(w)
       ELSE /\ Goto(w, IF kind[w] = "open" THEN "defer" ELSE "mark")
            /\ sent' = [sent EXCEPT ![w] = {}]
            /\ failed' = [failed EXCEPT ![w] = {}]
            /\ UNCHANGED todo
  /\ UNCHANGED <<status, age, resolved, escalated, channels, window, redisVars, received,
                 faults, changes, deleted>>

\* Mutant of DeferEscalation: _defer_by in the wrong unit, over at once.
DeferEscalationAtOnce(w) ==
  /\ pc[w] = "defer"
  /\ deferred' = [deferred EXCEPT ![inc[w]] = Append(@, 0)]
  /\ Finish(w)
  /\ UNCHANGED <<dbVars, ready, received, faults, changes, deleted>>

\* Mutant of DeferEscalation: minutes are turned into seconds twice.
DeferEscalationTwice(w) ==
  /\ pc[w] = "defer"
  /\ deferred' = [deferred EXCEPT ![inc[w]] = Append(@, Delay * 60)]
  /\ Finish(w)
  /\ UNCHANGED <<dbVars, ready, received, faults, changes, deleted>>

\* enqueue_job with _defer_by; a failure is swallowed.
DeferEscalation(w) ==
  /\ pc[w] = "defer"
  /\ \/ /\ deferred' = [deferred EXCEPT ![inc[w]] = Append(@, Delay)]
        /\ UNCHANGED faults
     \/ /\ faults > 0
        /\ faults' = faults - 1
        /\ UNCHANGED deferred
  /\ Finish(w)
  /\ UNCHANGED <<dbVars, ready, received, changes, deleted>>

\* escalated_at, in a second commit; the row may be gone.
MarkEscalated(w) ==
  /\ pc[w] = "mark"
  /\ escalated' = [escalated EXCEPT ![inc[w]] = status[inc[w]] # "gone"]
  /\ Finish(w)
  /\ UNCHANGED <<status, age, resolved, channels, window, logged, redisVars, received,
                 faults, changes, deleted>>

\* job_timeout, a crash or a shutdown: uncommitted receipts are gone.  Only a timeout
\* does not run the job again.
Abort(w) ==
  /\ pc[w] # "idle" /\ faults > 0
  /\ faults' = faults - 1
  /\ \/ ready' = [ready EXCEPT ![<<inc[w], kind[w]>>] = @ + 1]
     \/ UNCHANGED ready
  /\ Finish(w)
  /\ UNCHANGED <<dbVars, deferred, received, changes, deleted>>

-----------------------------------------------------------------------------
(* sweep_stale_escalations.                                                *)

\* Mutant of SweepStaleEscalations: the escalated ones instead of the others.
SweepEscalated ==
  LET stale == {i \in Incidents : status[i] = "OPEN" /\ escalated[i] /\ age[i] = Delay
                                    /\ ~Muted /\ ready[<<i, "escalation">>] < MaxQueue}
  IN /\ stale # {}
     /\ ready' = [e \in Incidents \X Kinds |->
                    IF e[1] \in stale /\ e[2] = "escalation" THEN ready[e] + 1 ELSE ready[e]]
     /\ UNCHANGED <<dbVars, deferred, jobVars, received, faults, changes, deleted>>

\* Whoever is OPEN for Delay and not escalated is queued, unless muted or the enqueue
\* fails; the job will look again.
SweepStaleEscalations ==
  LET stale == {i \in Incidents : ShouldEscalate(i) /\ age[i] = Delay
                                    /\ ~Muted /\ ready[<<i, "escalation">>] < MaxQueue}
  IN /\ stale # {}
     /\ \E queued \in SUBSET stale :
          /\ queued # stale => faults > 0
          /\ faults' = IF queued # stale THEN faults - 1 ELSE faults
          /\ ready' = [e \in Incidents \X Kinds |->
                         IF e[1] \in queued /\ e[2] = "escalation" THEN ready[e] + 1
                                                                  ELSE ready[e]]
     /\ UNCHANGED <<dbVars, deferred, jobVars, received, changes, deleted>>

-----------------------------------------------------------------------------
(* The checker and the API.                                                *)

\* check_job announces a transition; the enqueue may have failed.
Announce(i, k) ==
  \/ /\ ready' = [ready EXCEPT ![<<i, k>>] = @ + 1]
     /\ UNCHANGED faults
  \/ /\ faults > 0
     /\ faults' = faults - 1
     /\ UNCHANGED ready

OpenIncident(i) ==
  /\ status[i] = "none"
  /\ status' = [status EXCEPT ![i] = "OPEN"]
  /\ Announce(i, "open")
  /\ UNCHANGED <<age, resolved, escalated, channels, window, logged, deferred, jobVars,
                 received, changes, deleted>>

\* A check resolves an incident it found OPEN, which may have been acknowledged since.
ResolveIncident(i) ==
  /\ status[i] \in {"OPEN", "ACK"} /\ ~resolved[i]
  /\ status' = [status EXCEPT ![i] = "RESOLVED"]
  /\ resolved' = [resolved EXCEPT ![i] = TRUE]
  /\ Announce(i, "recovery")
  /\ UNCHANGED <<age, escalated, channels, window, logged, deferred, jobVars, received,
                 changes, deleted>>

\* acknowledge_incident, which may have read the incident before it was resolved.
AcknowledgeIncident(i) ==
  /\ status[i] \in {"OPEN", "RESOLVED"}
  /\ status' = [status EXCEPT ![i] = "ACK"]
  /\ UNCHANGED <<age, resolved, escalated, channels, window, logged, redisVars, jobVars,
                 received, faults, changes, deleted>>

\* delete_monitor takes its incidents along, once no uncommitted receipt is left.
DeleteIncident(i) ==
  /\ status[i] \notin {"none", "gone"}
  /\ \A w \in Workers : inc[w] = i => sent[w] = {} /\ failed[w] = {}
  /\ status' = [status EXCEPT ![i] = "gone"]
  /\ escalated' = [escalated EXCEPT ![i] = FALSE]
  /\ UNCHANGED <<age, resolved, channels, window, logged, redisVars, jobVars, received,
                 faults, changes, deleted>>

\* create_window: for later, for now, or over already.
CreateWindow ==
  /\ changes > 0 /\ window = "none"
  /\ changes' = changes - 1
  /\ window' \in {"planned", "active", "none"}
  /\ UNCHANGED <<status, age, resolved, escalated, channels, logged, redisVars, jobVars,
                 received, faults, deleted>>

\* delete_window.
DeleteWindow ==
  /\ window # "none"
  /\ window' = "none"
  /\ UNCHANGED <<status, age, resolved, escalated, channels, logged, redisVars, jobVars,
                 received, faults, changes, deleted>>

\* find_active_for_monitor finds the window from starts_at to ends_at.
TurnWindow ==
  /\ window # "none"
  /\ window' = IF window = "planned" THEN "active" ELSE "none"
  /\ UNCHANGED <<status, age, resolved, escalated, channels, logged, redisVars, jobVars,
                 received, faults, changes, deleted>>

\* delete_channel, once no uncommitted receipt is left; create_channel.
DeleteChannel(c) ==
  /\ changes > 0 /\ c \in channels
  /\ \A w \in Workers : c \notin sent[w] \cup failed[w]
  /\ changes' = changes - 1
  /\ channels' = channels \ {c}
  /\ deleted' = deleted \cup {c}
  /\ UNCHANGED <<status, age, resolved, escalated, window, logged, redisVars, jobVars,
                 received, faults>>

CreateChannel(c) ==
  /\ changes > 0 /\ c \notin channels
  /\ changes' = changes - 1
  /\ channels' = channels \cup {c}
  /\ UNCHANGED <<status, age, resolved, escalated, window, logged, redisVars, jobVars,
                 received, faults, deleted>>

-----------------------------------------------------------------------------
Less(t) == IF t = 0 THEN 0 ELSE t - 1

Tick ==
  /\ age' = [i \in Incidents |->
               IF status[i] # "none" /\ age[i] < Delay THEN age[i] + 1 ELSE age[i]]
  /\ deferred' = [i \in Incidents |-> [n \in DOMAIN deferred[i] |-> Less(deferred[i][n])]]
  /\ UNCHANGED <<status, resolved, escalated, channels, window, logged, ready, jobVars,
                 received, faults, changes, deleted>>

JobStep(w) ==
  \/ Gate(w) \/ CommitReceipts(w) \/ DeferEscalation(w) \/ MarkEscalated(w)
  \/ \E c \in Channels : SendOK(w, c)

Next ==
  \/ \E w \in Workers :
       \/ JobStep(w) \/ Abort(w)
       \/ \E i \in Incidents, k \in Kinds : StartAlert(w, i, k)
       \/ \E c \in Channels : SendFails(w, c)
  \/ SweepStaleEscalations
  \/ \E i \in Incidents :
       \/ OpenIncident(i) \/ ResolveIncident(i) \/ AcknowledgeIncident(i)
       \/ DeleteIncident(i)
  \/ CreateWindow \/ DeleteWindow \/ TurnWindow
  \/ \E c \in Channels : DeleteChannel(c) \/ CreateChannel(c)
  \/ Tick

Spec == Init /\ [][Next]_vars

-----------------------------------------------------------------------------
(* Safety.                                                                 *)

\* A "sent" receipt stands for a message that arrived (models/alert_log.py:11).  The other
\* way round, each call that went wrong and each job that was cut off leaves at most the
\* messages of one send_message without a receipt, if neither the incident nor a channel
\* was deleted under a job (alert_service.py:78-96, telegram_service.py:116-150).
ReceiptsMatch ==
  /\ \A n \in Notes : logged[n] <= received[n]
  /\ \A n \in Notes :
       status[n[1]] # "gone" /\ deleted = {} /\ (\A w \in Workers : inc[w] # n[1])
         => received[n] <= logged[n] + MaxRetries * (MaxFaults - faults)

\* escalated_at is only set when somebody was told, so that the sweep goes on otherwise
\* (alerter.py:51-53).
EscalatedWasDelivered ==
  \A i \in Incidents :
    escalated[i] => \E c \in Channels : received[<<i, "escalation", c>>] > 0

\* No escalation arrives before the incident is as old as the message says
\* (telegram_service.py:174), whichever of deferral and sweep queued it.
EscalationNotEarly ==
  [][\A i \in Incidents, c \in Channels :
       received'[<<i, "escalation", c>>] > received[<<i, "escalation", c>>] => age[i] = Delay]_vars

\* An incident that is acknowledged or resolved stays quiet: once no escalation is being
\* sent, none that is still queued or deferred is ever sent (alerter.py:29-31).
Quiet(i) ==
  /\ status[i] \in {"ACK", "RESOLVED", "gone"}
  /\ \A w \in Workers : inc[w] = i => kind[w] # "escalation"

SettledStaysQuiet == [][\A i \in Incidents : Quiet(i) => Quiet(i)']_vars

\* "only once per incident" (alerter.py:29): no channel gets two escalations of one
\* incident.
EscalatedOnce ==
  \A i \in Incidents, c \in Channels : received[<<i, "escalation", c>>] <= 1

-----------------------------------------------------------------------------
(* Liveness.                                                               *)

\* The cron runs, free slots take entries, jobs go on, time passes.
Fairness ==
  /\ WF_vars(Tick)
  /\ WF_vars(SweepStaleEscalations)
  /\ \A w \in Workers :
       /\ WF_vars(JobStep(w))
       /\ WF_vars(\E i \in Incidents, k \in Kinds : StartAlert(w, i, k))

FairSpec == Spec /\ Fairness

\* An incident that stays OPEN for Delay is escalated unless it is muted or nobody can be
\* told, though the deferred job, sends and marks were lost (alerter.py:84).
OpenIsEscalated ==
  \A i \in Incidents :
    status[i] = "OPEN" /\ age[i] = Delay ~>
      escalated[i] \/ status[i] # "OPEN" \/ Muted \/ channels = {}
=============================================================================
