--------------------------------- MODULE Teams ---------------------------------
(***************************************************************************)
(* A team, its members and its monitors: handlers that look something up and   *)
(* write in a later statement of their transaction, at the same time as others.*)
(*                                                                          *)
(* Source: backend/app/services/monitor_service.py (create, delete),           *)
(* services/team_service.py (invite_member), api/v1/routers/teams.py           *)
(* (remove_member), api/deps.py (get_current_user, require_role),              *)
(* repositories/audit_repository.py; analyze_incident and test_channel.       *)
(*                                                                          *)
(* "create" stands for what a member writes with an audit row, "analyze" for   *)
(* what he writes without: an incident's summary, the log of a test message.   *)
(* A person is one row of users: who is removed and invited again is another.  *)
(***************************************************************************)
EXTENDS Naturals, FiniteSets

CONSTANTS
  People,   \* rows of users
  Owner,    \* the owner, who registered the team
  Calls,    \* requests that may overlap
  Limit,    \* FREE_PLAN_MONITOR_LIMIT
  Slots,    \* rows of monitors
  Nothing   \* no row

ASSUME TeamAssumption ==
  /\ Owner \in People /\ IsFiniteSet(Slots) /\ IsFiniteSet(Calls) /\ Calls # {}
  /\ Limit \in Nat /\ Nothing \notin People \cup Slots

VARIABLES
  users,     \* committed rows of users
  removed,   \* rows of users that were deleted
  monitors,  \* committed rows of monitors
  call       \* each request: where it is, by whom, what it does and to which row

teamVars == <<users, removed, monitors, call>>

Ops == {"create", "delete", "invite", "remove", "analyze"}
OfMembers == {"create", "analyze"}
Audited == Ops \ {"analyze"}
NoCall == [at |-> "idle", by |-> Owner, op |-> "create", row |-> Nothing]

TeamTypeOK ==
  /\ users \in SUBSET People /\ removed \in SUBSET People /\ monitors \in SUBSET Slots
  /\ call \in [Calls -> [at : {"idle", "check", "write", "commit"}, by : People, op : Ops,
                         row : People \cup Slots \cup {Nothing}]]

TeamInit ==
  /\ users = {Owner} /\ removed = {} /\ monitors = {}
  /\ call = [c \in Calls |-> NoCall]

GoOn(c, at) == call' = [call EXCEPT ![c].at = at]
Leave(c) == call' = [call EXCEPT ![c] = NoCall]

-----------------------------------------------------------------------------
\* A request to create names no row yet, one to analyze none of these tables.
Targets(op) ==
  IF op \in OfMembers THEN {Nothing} ELSE IF op = "delete" THEN Slots ELSE People

\* get_current_user and require_role: the rest is for the owner.
Authenticate(c, u, op) ==
  /\ call[c].at = "idle" /\ u \in users
  /\ op \in OfMembers \/ u = Owner
  /\ \E row \in Slots \cup People \cup {Nothing} :
       /\ row \in Targets(op)
       /\ call' = [call EXCEPT ![c] = [at |-> "check", by |-> u, op |-> op, row |-> row]]
  /\ UNCHANGED <<users, removed, monitors>>

\* Mutant of MayWrite: one monitor too many.
MayWriteOneMore(c) ==
  /\ call[c].op = "create" => Cardinality(monitors) <= Limit
  /\ call[c].op = "delete" => call[c].row \in monitors
  /\ call[c].op = "invite" => call[c].row \notin users
  /\ call[c].op = "remove" => call[c].row \in users \ {Owner}

\* What the SELECT before the write is for: the plan limit, the row, the e-mail, the row.
MayWrite(c) ==
  /\ call[c].op = "create" => Cardinality(monitors) < Limit
  /\ call[c].op = "delete" => call[c].row \in monitors
  /\ call[c].op = "invite" => call[c].row \notin users
  /\ call[c].op = "remove" => call[c].row \in users \ {Owner}

Check(c) ==
  /\ call[c].at = "check"
  /\ IF MayWrite(c) THEN GoOn(c, "write") ELSE Leave(c)
  /\ UNCHANGED <<users, removed, monitors>>

\* A new monitor has an id nobody knows, a new person one nobody had; an e-mail that another
\* transaction is inserting waits for it.
NewRow(c, row) ==
  IF call[c].op = "create" THEN row \in Slots \ (monitors \cup {call[d].row : d \in Calls})
  ELSE /\ row = call[c].row
       /\ call[c].op = "invite" =>
            /\ row \notin removed
            /\ \A d \in Calls :
                 ~(call[d].at = "commit" /\ call[d].op = "invite" /\ call[d].row = row)

\* Mutant of Author: the audit row does not name its author.
AuthorUnnamed(c) == TRUE

\* The audit row, where there is one, names its author, whose row it refers to.
Author(c) == call[c].op \in Audited => call[c].by \in users

\* Mutant of Write: a new monitor is not flushed before its audit row and has no id yet.
WriteUnflushed(c) ==
  /\ call[c].at = "write"
  /\ IF Author(c) /\ ~(call[c].op = "invite" /\ call[c].row \in users)
       THEN GoOn(c, "commit") ELSE Leave(c)
  /\ UNCHANGED <<users, removed, monitors>>

\* The rows and the audit row are flushed; the foreign key of its author fails when he is
\* gone and locks his row otherwise, the unique e-mail fails when it is there.
Write(c) ==
  /\ call[c].at = "write"
  /\ \E row \in People \cup Slots \cup {Nothing} :
       /\ NewRow(c, row)
       /\ IF Author(c) /\ ~(call[c].op = "invite" /\ row \in users)
            THEN call' = [call EXCEPT ![c].at = "commit", ![c].row = row] ELSE Leave(c)
  /\ UNCHANGED <<users, removed, monitors>>

\* The DELETE of a user waits for the transactions whose audit row locked the row.
Unlocked(c) ==
  call[c].op = "remove" =>
    \A d \in Calls :
      ~(call[d].at = "commit" /\ call[d].op \in Audited /\ call[d].by = call[c].row)

Commit(c) ==
  LET row == call[c].row IN
  /\ call[c].at = "commit" /\ Unlocked(c)
  /\ \/ call[c].op = "create" /\ monitors' = monitors \cup {row} /\ UNCHANGED <<users, removed>>
     \/ call[c].op = "delete" /\ monitors' = monitors \ {row} /\ UNCHANGED <<users, removed>>
     \/ call[c].op = "invite" /\ users' = users \cup {row} /\ UNCHANGED <<monitors, removed>>
     \/ /\ call[c].op = "remove"
        /\ users' = users \ {row} /\ removed' = removed \cup {row} /\ UNCHANGED monitors
     \/ call[c].op = "analyze" /\ UNCHANGED <<users, removed, monitors>>
  /\ Leave(c)

\* The connection drops: the transaction is rolled back.
Abandon(c) ==
  /\ call[c].at # "idle"
  /\ Leave(c)
  /\ UNCHANGED <<users, removed, monitors>>

-----------------------------------------------------------------------------
TeamNext ==
  \E c \in Calls :
    \/ \E u \in People, op \in Ops : Authenticate(c, u, op)
    \/ Check(c) \/ Write(c) \/ Commit(c) \/ Abandon(c)

TeamSpec == TeamInit /\ [][TeamNext]_teamVars

-----------------------------------------------------------------------------
\* The plan limit is counted in one statement and used in a later one: it can be passed,
\* but by no more monitors than there are other requests at that moment
\* (monitor_service.py:36-42).
PlanLimitBounded == Cardinality(monitors) < Limit + Cardinality(Calls)

\* No transaction with an audit row is about to commit on behalf of a member who has been
\* removed, though his requests were let in before and go on: the row's foreign key stops
\* them or holds the removal up (teams.py:55, "instant login death").  What he writes
\* without one, "analyze", still commits.
AuditedWritesNameMembers ==
  \A c \in Calls :
    call[c].at = "commit" /\ call[c].op \in Audited => call[c].by \in users
=============================================================================
