--------------------------- MODULE MCApiServices ---------------------------
(***************************************************************************)
(* StatusPages, Sessions, Analysis, Teams and Export for TLC, in one run.     *)
(*                                                                          *)
(* The five share no variable, so a property of one holds of their product   *)
(* when it holds of the one beside the others at rest: api says which one     *)
(* runs.  At rest, in its initial state, none has a fair step to take.       *)
(***************************************************************************)
EXTENDS StatusPages, Sessions, Analysis, Teams, Export

VARIABLE api  \* "pages", "sessions", "analysis", "teams" or "export"

ApiInit ==
  /\ api \in {"pages", "sessions", "analysis", "teams", "export"}
  /\ StatusInit /\ SessionInit /\ AnalysisInit /\ TeamInit
  /\ ExportInit /\ (api # "export" => what = "checks" /\ rows = {})
  /\ IF api = "sessions" THEN tab[CHOOSE q \in Requests : TRUE] = CHOOSE t \in Tabs : TRUE
                          ELSE tab = [q \in Requests |-> CHOOSE t \in Tabs : TRUE]

\* Bound on the readers: the public page or the dashboard.
OneReader == socket' = "closed" \/ \A r \in DOMAIN fetch : fetch'[r].at = "closed"

\* Bound on the sessions: of a removal, logouts and lost answers one kind at most.
OneUpset ==
  \/ member' /\ ~logouts'
  \/ member' /\ losses' = MaxLosses
  \/ ~logouts' /\ losses' = MaxLosses

ApiNext ==
  /\ UNCHANGED api
  /\ \/ /\ api = "pages" /\ StatusNext /\ OneReader
        /\ UNCHANGED <<sessionVars, analysisVars, teamVars, exportVars>>
     \/ /\ api = "sessions" /\ SessionNext /\ OneUpset
        /\ UNCHANGED <<statusVars, analysisVars, teamVars, exportVars>>
     \/ /\ api = "analysis" /\ AnalysisNext
        /\ UNCHANGED <<statusVars, sessionVars, teamVars, exportVars>>
     \/ /\ api = "teams" /\ TeamNext
        /\ UNCHANGED <<statusVars, sessionVars, analysisVars, exportVars>>
     \/ /\ api = "export" /\ ExportNext
        /\ UNCHANGED <<statusVars, sessionVars, analysisVars, teamVars>>

ApiSpec ==
  /\ ApiInit /\ [][ApiNext]_<<api, statusVars, sessionVars, analysisVars, teamVars, exportVars>>
  /\ StatusFairness

\* Every variable of the five keeps its type.
ApiTypeOK == StatusTypeOK /\ SessionTypeOK /\ AnalysisTypeOK /\ TeamTypeOK /\ ExportTypeOK
=============================================================================
