-------------------------- MODULE MCWorkerServices --------------------------
(***************************************************************************)
(* TelegramConnect, Webhooks and Heartbeats for TLC, in one run.            *)
(*                                                                          *)
(* They share no variable, so a property of one holds of their product when  *)
(* it holds of that one beside the others at rest: service says which one     *)
(* runs.  At rest, in its initial state, none has a fair step to take.       *)
(***************************************************************************)
EXTENDS TelegramConnect, Webhooks, Heartbeats

VARIABLE service  \* "connect", "hooks" or "heartbeats"

workerVars == <<service, connectVars, hookVars, heartbeatVars>>

WorkerInit ==
  /\ service \in {"connect", "hooks", "heartbeats"}
  /\ ConnectInit /\ HooksInit /\ HeartbeatsInit

\* Bound on the jobs, which share nothing they write: one at a time, and an incident or
\* a press of the test button.
OneJob ==
  /\ \A j, k \in Deliveries : Running(j)' /\ Running(k) => j = k
  /\ job'["test"].at = "none" \/ incident' = "none"

\* Bound on the webhooks: none is registered once there is an incident.
FewHooks == incident' = "none" \/ active' \subseteq active

\* Bound on what disturbs a link: a poll is cut off or something changes, not both.
OneDisturbance == cuts' + changes' + 1 >= MaxCuts + MaxChanges

WorkerNext ==
  \/ /\ service = "connect" /\ ConnectNext /\ OneDisturbance
     /\ UNCHANGED <<service, hookVars, heartbeatVars>>
  \/ /\ service = "hooks" /\ HooksNext /\ OneJob /\ FewHooks
     /\ UNCHANGED <<service, connectVars, heartbeatVars>>
  \/ /\ service = "heartbeats" /\ HeartbeatsNext
     /\ UNCHANGED <<service, connectVars, hookVars>>

WorkerSpec ==
  /\ WorkerInit /\ [][WorkerNext]_workerVars
  /\ ConnectFairness /\ HooksFairness /\ HeartbeatsFairness

\* Every variable of the three keeps its type.
WorkerTypeOK == ConnectTypeOK /\ HooksTypeOK /\ HeartbeatsTypeOK
=============================================================================
