------------------------------- MODULE Sessions -------------------------------
(***************************************************************************)
(* The sessions of one user in the tabs of a browser: pairs of an access and a *)
(* refresh token, a refresh token that is good for one use, requests of a tab  *)
(* that share one refresh when the access token is refused, and logout.        *)
(*                                                                          *)
(* Source: backend/app/services/auth_service.py, core/security.py,             *)
(* api/deps.py, the member removal of api/v1/routers/teams.py;                 *)
(* frontend/src/lib/api.ts, pages/Login.tsx and Dashboard.tsx (logout).        *)
(*                                                                          *)
(* Tabs share localStorage and nothing else, so their refreshes overlap.       *)
(* Tokens are the number of the pair they were issued in.  The 7 days of a     *)
(* refresh token do not run out here.                                        *)
(***************************************************************************)
EXTENDS Naturals, FiniteSets

CONSTANTS
  Requests,   \* requests at a time
  Tabs,       \* tabs of the browser
  NoRequest,  \* "no refresh is awaited"
  MaxPairs,   \* bound: pairs issued
  MaxLosses   \* bound: answers of refresh that are lost

ASSUME SessionAssumption ==
  /\ NoRequest \notin Requests /\ IsFiniteSet(Requests)
  /\ MaxPairs \in Nat /\ MaxLosses \in Nat

Pairs == 1 .. MaxPairs

VARIABLES
  member,      \* the user exists and is active
  issued,      \* pairs issued so far
  alive,       \* refresh:{user}:{jti} in Redis
  blacklist,   \* jwt:black:{jti} in Redis
  old,         \* access tokens that have expired
  saved,       \* localStorage: access and refresh, 0 when cleared
  tab,         \* request -> the tab it is of, for good
  request,     \* request -> where it is
  refreshing,  \* tab -> the request whose refresh the others await, or NoRequest
  refresh,     \* request -> the refresh it started
  logins,      \* pairs that were issued for a password
  doubled,     \* refreshes whose DEL found the token spent by another
  reused,      \* REFRESH_REUSE_DETECTED was answered
  rejected,    \* a request failed for good, or the page went to /login
  logouts,     \* logout was pressed
  losses       \* budget of the bound

redisVars == <<alive, blacklist>>
tabVars == <<saved, request, refreshing, refresh>>
historyVars == <<logins, doubled, reused, rejected, logouts>>
sessionVars == <<member, issued, redisVars, old, tab, tabVars, historyVars, losses>>

NoTokens == [access |-> 0, refresh |-> 0]
IdleRequest == [at |-> "idle", access |-> 0, retried |-> FALSE, out |-> FALSE]
IdleRefresh == [at |-> "idle", uses |-> 0, got |-> 0]

SessionTypeOK ==
  /\ member \in BOOLEAN /\ issued \in 0 .. MaxPairs
  /\ alive \in SUBSET Pairs /\ blacklist \in SUBSET Pairs /\ old \in SUBSET Pairs
  /\ saved \in [access : 0 .. MaxPairs, refresh : 0 .. MaxPairs]
  /\ request \in [Requests -> [at : {"idle", "sent", "refused", "waiting", "left"},
                               access : 0 .. MaxPairs, retried : BOOLEAN, out : BOOLEAN]]
  /\ tab \in [Requests -> Tabs]
  /\ refreshing \in [Tabs -> Requests \cup {NoRequest}]
  /\ refresh \in [Requests -> [at : {"idle", "check", "spend", "issue", "answered", "failed"},
                               uses : 0 .. MaxPairs, got : 0 .. MaxPairs]]
  /\ logins \in 0 .. MaxPairs /\ doubled \in Nat /\ losses \in 0 .. MaxLosses
  /\ reused \in BOOLEAN /\ rejected \in BOOLEAN /\ logouts \in BOOLEAN

SessionInit ==
  /\ member = TRUE /\ issued = 0 /\ alive = {} /\ blacklist = {} /\ old = {}
  /\ saved = NoTokens
  /\ tab \in [Requests -> Tabs]
  /\ request = [q \in Requests |-> IdleRequest]
  /\ refreshing = [t \in Tabs |-> NoRequest]
  /\ refresh = [q \in Requests |-> IdleRefresh]
  /\ logins = 0 /\ doubled = 0 /\ reused = FALSE /\ rejected = FALSE /\ logouts = FALSE
  /\ losses = MaxLosses

-----------------------------------------------------------------------------
(* Tokens.                                                                 *)

\* _issue_token_pair.
IssuePair ==
  /\ issued < MaxPairs
  /\ issued' = issued + 1
  /\ alive' = alive \cup {issued'}

\* register or login, and the page that saves the pair.
Login ==
  /\ member /\ saved = NoTokens
  /\ IssuePair
  /\ saved' = [access |-> issued', refresh |-> issued']
  /\ logins' = logins + 1
  /\ UNCHANGED <<member, blacklist, old, request, refreshing, refresh, doubled, reused, rejected,
                 logouts, losses>>

\* 15 min pass.  A retry takes less than that.
ExpireAccess(n) ==
  /\ n = saved.access /\ n # 0 /\ n \notin old
  /\ \A q \in Requests : ~(request[q].retried /\ request[q].access = n)
  /\ old' = old \cup {n}
  /\ UNCHANGED <<member, issued, redisVars, tabVars, historyVars, losses>>

\* remove_member: an owner deletes the user.
RemoveMember ==
  /\ member /\ member' = FALSE
  /\ UNCHANGED <<issued, redisVars, old, tabVars, historyVars, losses>>

\* get_current_user.
Accepted(n) == n \notin old /\ n \notin blacklist /\ member

-----------------------------------------------------------------------------
(* Requests of a tab, api.ts.                                              *)

\* The token is what localStorage holds now; out is the request of the logout button.
Send(q, out) ==
  /\ request[q].at = "idle" /\ saved # NoTokens
  /\ request' = [request EXCEPT ![q] =
                   [at |-> "sent", access |-> saved.access, retried |-> FALSE, out |-> out]]
  /\ logouts' = (logouts \/ out)
  /\ UNCHANGED <<member, issued, redisVars, old, saved, refreshing, refresh, logins, doubled,
                 reused, rejected, losses>>

\* The answer of any request; logout blacklists the access token it came with.  The
\* page sends no refresh token, so the refresh key stays.
Answer(q) ==
  /\ request[q].at = "sent" /\ Accepted(request[q].access)
  /\ blacklist' = IF request[q].out THEN blacklist \cup {request[q].access} ELSE blacklist
  /\ request' = [request EXCEPT ![q] = IF request[q].out THEN [IdleRequest EXCEPT !.at = "left"]
                                                         ELSE IdleRequest]
  /\ UNCHANGED <<member, issued, alive, old, saved, refreshing, refresh, historyVars, losses>>

\* 401: once retried it is final; a logout leaves all the same.
Refuse(q) ==
  LET final == request[q].retried IN
  /\ request[q].at = "sent" /\ ~Accepted(request[q].access)
  /\ request' = [request EXCEPT ![q] =
       IF ~final THEN [@ EXCEPT !.at = "refused"]
       ELSE IF request[q].out THEN [IdleRequest EXCEPT !.at = "left"] ELSE IdleRequest]
  /\ rejected' = (rejected \/ final)
  /\ UNCHANGED <<member, issued, redisVars, old, saved, refreshing, refresh, logins, doubled,
                 reused, logouts, losses>>

\* logout's finally: tokens.clear and on to /login, without reloading the page.
LeavePage(q) ==
  /\ request[q].at = "left"
  /\ saved' = NoTokens
  /\ request' = [request EXCEPT ![q] = IdleRequest]
  /\ UNCHANGED <<member, issued, redisVars, old, refreshing, refresh, historyVars, losses>>

\* Mutant of AwaitRefresh: every refused request refreshes for itself.
AwaitRefreshAlone(q) ==
  /\ request[q].at = "refused"
  /\ request' = [request EXCEPT ![q].at = "waiting"]
  /\ refreshing' = [refreshing EXCEPT ![tab[q]] = q]
  /\ refresh' = [refresh EXCEPT ![q] =
                   [IdleRefresh EXCEPT !.at = IF saved.refresh = 0 THEN "failed" ELSE "check",
                                       !.uses = saved.refresh]]
  /\ UNCHANGED <<member, issued, redisVars, old, saved, historyVars, losses>>

\* The interceptor: the refresh that is under way in this tab, or a new one with the refresh
\* token there is now.
AwaitRefresh(q) ==
  /\ request[q].at = "refused"
  /\ request' = [request EXCEPT ![q].at = "waiting"]
  /\ IF refreshing[tab[q]] = NoRequest
       THEN /\ refreshing' = [refreshing EXCEPT ![tab[q]] = q]
            /\ refresh' = [refresh EXCEPT ![q] =
                 [IdleRefresh EXCEPT !.at = IF saved.refresh = 0 THEN "failed" ELSE "check",
                                     !.uses = saved.refresh]]
       ELSE UNCHANGED <<refreshing, refresh>>
  /\ UNCHANGED <<member, issued, redisVars, old, saved, historyVars, losses>>

\* The pair is saved, those of the tab that waited are sent again with it.
TakePair(q) ==
  LET n == refresh[q].got IN
  /\ refresh[q].at = "answered"
  /\ saved' = [access |-> n, refresh |-> n]
  /\ request' = [r \in Requests |->
                   IF request[r].at = "waiting" /\ tab[r] = tab[q]
                     THEN [request[r] EXCEPT !.at = "sent", !.access = n, !.retried = TRUE]
                     ELSE request[r]]
  /\ refresh' = [refresh EXCEPT ![q] = IdleRefresh]
  /\ refreshing' = [refreshing EXCEPT ![tab[q]] = NoRequest]
  /\ UNCHANGED <<member, issued, redisVars, old, historyVars, losses>>

\* No pair: the tokens of all tabs are cleared and this one loads /login anew.
GoToLogin(q) ==
  /\ refresh[q].at = "failed"
  /\ saved' = NoTokens
  /\ request' = [r \in Requests |-> IF tab[r] = tab[q] THEN IdleRequest ELSE request[r]]
  /\ refresh' = [r \in Requests |-> IF tab[r] = tab[q] THEN IdleRefresh ELSE refresh[r]]
  /\ refreshing' = [refreshing EXCEPT ![tab[q]] = NoRequest]
  /\ rejected' = TRUE
  /\ UNCHANGED <<member, issued, redisVars, old, logins, doubled, reused, logouts, losses>>

-----------------------------------------------------------------------------
(* auth_service.refresh.                                                   *)

\* EXISTS: a token that is gone was used before, and every session of the user ends.
CheckRefresh(q) ==
  LET known == refresh[q].uses \in alive IN
  /\ refresh[q].at = "check"
  /\ alive' = IF known THEN alive ELSE {}
  /\ reused' = (reused \/ ~known)
  /\ refresh' = [refresh EXCEPT ![q].at = IF known THEN "spend" ELSE "failed"]
  /\ UNCHANGED <<member, issued, blacklist, old, saved, request, refreshing, logins, doubled,
                 rejected, logouts, losses>>

\* Mutant of SpendRefresh: the old refresh token stays good.
SpendRefreshNever(q) ==
  /\ refresh[q].at = "spend"
  /\ refresh' = [refresh EXCEPT ![q].at = IF member THEN "issue" ELSE "failed"]
  /\ UNCHANGED <<member, issued, redisVars, old, saved, request, refreshing, historyVars, losses>>

\* DEL, whose count of deleted keys is not looked at; the user is looked up, the audit row
\* committed.
SpendRefresh(q) ==
  /\ refresh[q].at = "spend"
  /\ alive' = alive \ {refresh[q].uses}
  /\ doubled' = IF refresh[q].uses \in alive THEN doubled ELSE doubled + 1
  /\ refresh' = [refresh EXCEPT ![q].at = IF member THEN "issue" ELSE "failed"]
  /\ UNCHANGED <<member, issued, blacklist, old, saved, request, refreshing, logins, reused,
                 rejected, logouts, losses>>

\* The new pair, issued after the commit.
AnswerRefresh(q) ==
  /\ refresh[q].at = "issue"
  /\ IssuePair
  /\ refresh' = [refresh EXCEPT ![q].at = "answered", ![q].got = issued']
  /\ UNCHANGED <<member, blacklist, old, saved, request, refreshing, historyVars, losses>>

\* The answer is lost, or the server fails after the DEL: the tab takes it for a refusal.
LoseRefresh(q) ==
  /\ refresh[q].at \in {"issue", "answered"}
  /\ losses > 0 /\ losses' = losses - 1
  /\ refresh' = [refresh EXCEPT ![q].at = "failed"]
  /\ UNCHANGED <<member, issued, redisVars, old, saved, request, refreshing, historyVars>>

-----------------------------------------------------------------------------
RequestStep(q) ==
  \/ \E out \in BOOLEAN : Send(q, out)
  \/ Answer(q) \/ Refuse(q) \/ LeavePage(q) \/ AwaitRefresh(q) \/ TakePair(q) \/ GoToLogin(q)
  \/ CheckRefresh(q) \/ SpendRefresh(q) \/ AnswerRefresh(q) \/ LoseRefresh(q)

SessionNext ==
  /\ UNCHANGED tab
  /\ \/ Login \/ RemoveMember \/ \E n \in Pairs : ExpireAccess(n)
     \/ \E q \in Requests : RequestStep(q)

SessionSpec == SessionInit /\ [][SessionNext]_sessionVars

-----------------------------------------------------------------------------
\* Rotation never turns against its own user in one tab: without a logout, a removal or a
\* lost answer, no refresh token is used twice and nobody is sent to /login, however
\* refusals overlap with a refresh (api.ts:63-85, auth_service.py:115-134).  Two tabs do
\* not share their refreshes, and there it does.
OneTab == \A q, r \in Requests : tab[q] = tab[r]

NobodyIsThrownOut ==
  OneTab /\ member /\ ~logouts /\ losses = MaxLosses =>
    /\ ~reused /\ ~rejected
    /\ logins > 0 => saved # NoTokens

\* Refresh tokens multiply in one way only: more are good than there were logins by no more
\* than the refreshes that found their token good (EXISTS) and lost it to another before
\* they spent it (DEL), whatever else overlapped, was lost or was revoked
\* (auth_service.py:115-136).
SessionsAreCounted == Cardinality(alive) <= logins + doubled
=============================================================================
