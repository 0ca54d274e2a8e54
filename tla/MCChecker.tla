------------------------------ MODULE MCChecker -----------------------------
(***************************************************************************)
(* Checker for TLC.                                                        *)
(***************************************************************************)
EXTENDS Checker, TLC

\* Job slots are interchangeable: they are only compared with one another.
JobSymmetry == Permutations(Jobs)

\* Bound on what disturbs the jobs: failures of the worker and of Redis, or API calls,
\* not both in one behaviour.
OneDisturbance == faults' = MaxFaults \/ calls' = MaxCalls

\* Next under that bound: time and the sites take from neither.
OneNext ==
  \/ Tick
  \/ \E m \in Monitors : SiteFlips(m)
  \/ /\ \/ EnqueueDueMonitors
        \/ \E j \in Jobs : JobStep(j)
        \/ \E r \in Requests : RequestStep(r)
        \/ \E m \in Monitors : CreateMonitor(m)
     /\ OneDisturbance

OneSpec == Init /\ [][OneNext]_vars
=============================================================================
