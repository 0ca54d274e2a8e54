------------------------------ MODULE StatusPages ------------------------------
(***************************************************************************)
(* Who sees what the checks found: the public status page, cached in Redis    *)
(* for 30 s and deleted by the checks that matter, and the dashboard, which   *)
(* fetches its list every 30 s and keeps a socket open for live events.       *)
(*                                                                          *)
(* Source: backend/app/api/v1/routers/status.py, services/live_service.py,    *)
(* the end of check_job in workers/checker.py, api/ws.py, monitor_service.    *)
(* list_monitors; frontend/src/hooks/useLiveMonitors.ts, pages/StatusPage.tsx *)
(* and pages/Dashboard.tsx.                                                  *)
(*                                                                          *)
(* The data of one team is its version: a page is the versions its first and  *)
(* its last query read, as each is a snapshot of its own.                     *)
(***************************************************************************)
EXTENDS Naturals

CONSTANTS
  Checks,       \* check jobs that may overlap
  Visitors,     \* readers of the public page
  NoPage,       \* "nothing cached"
  MaxVersions,  \* bound: changes of the data
  MaxMishaps    \* bound: jobs cut off, errors of Redis, tokens that expire

ASSUME PagesAssumption == MaxVersions \in Nat /\ MaxMishaps \in Nat

Keys == {"status", "incidents"}   \* public:{slug} and public:{slug}:incidents

VARIABLES
  version,  \* committed data
  check,    \* check job -> the version it has committed and not announced yet, or 0
  due,      \* the newest version whose invalidation went through
  cached,   \* key -> page, and whether an invalidation passed while it was being read
  fetch,    \* visitor, key -> a request for the page
  seen,     \* visitor, key -> the versions the last answer showed
  list,     \* the version of the dashboard's list
  socket,   \* the dashboard's live socket, "waiting" or "open"; "closed" before it is shown
  token,    \* its access token: "first", "renewed" or "expired"
  mishaps   \* budget of the bound

pageVars == <<due, cached, fetch, seen>>
boardVars == <<list, socket, token>>
statusVars == <<version, check, pageVars, boardVars, mishaps>>

Versions == 0 .. MaxVersions
Page == [from : Versions, to : Versions, raced : BOOLEAN]
NewPage == [from |-> 0, to |-> 0, raced |-> FALSE]
IdleFetch == [at |-> "idle", page |-> NewPage]
Shown(page) == [from |-> page.from, to |-> page.to]

StatusTypeOK ==
  /\ version \in Versions /\ due \in Versions /\ list \in Versions
  /\ check \in [Checks -> Versions]
  /\ cached \in [Keys -> Page \cup {NoPage}]
  /\ fetch \in [Visitors \X Keys -> [at : {"closed", "idle", "first", "last", "store"},
                                    page : Page]]
  /\ seen \in [Visitors \X Keys -> [from : Versions, to : Versions]]
  /\ socket \in {"closed", "waiting", "open"} /\ token \in {"first", "renewed", "expired"}
  /\ mishaps \in 0 .. MaxMishaps

StatusInit ==
  /\ version = 0 /\ due = 0 /\ list = 0
  /\ check = [k \in Checks |-> 0]
  /\ cached = [key \in Keys |-> NoPage]
  /\ fetch = [r \in Visitors \X Keys |-> [IdleFetch EXCEPT !.at = "closed"]]
  /\ seen = [r \in Visitors \X Keys |-> Shown(NewPage)]
  /\ socket = "closed" /\ token = "first" /\ mishaps = MaxMishaps

Mishap == mishaps > 0 /\ mishaps' = mishaps - 1

-----------------------------------------------------------------------------
(* check_job and the other writers.                                        *)

\* A check that is DOWN or moves an incident commits: the pages are to be deleted.
CommitCheck(k) ==
  /\ check[k] = 0 /\ version < MaxVersions
  /\ version' = version + 1
  /\ check' = [check EXCEPT ![k] = version']
  /\ UNCHANGED <<pageVars, boardVars, mishaps>>

\* A check that is UP and moves no incident, though the one before was DOWN, a monitor
\* that is created, paused or deleted: nobody deletes the pages.
CommitQuietly ==
  /\ version < MaxVersions
  /\ version' = version + 1
  /\ UNCHANGED <<check, pageVars, boardVars, mishaps>>

Passed(page) == [page EXCEPT !.raced = TRUE]

\* Mutant of Invalidate: the list of incidents is forgotten.
InvalidateStatusOnly(k) ==
  /\ check[k] # 0
  /\ cached' = [cached EXCEPT !["status"] = NoPage]
  /\ fetch' = [r \in DOMAIN fetch |->
                 IF fetch[r].at \in {"last", "store"}
                   THEN [fetch[r] EXCEPT !.page = Passed(@)] ELSE fetch[r]]
  /\ due' = IF check[k] > due THEN check[k] ELSE due
  /\ check' = [check EXCEPT ![k] = 0]
  /\ UNCHANGED <<version, seen, boardVars, mishaps>>

\* publish_check, which reaches nobody, then invalidate_public_cache, one DEL of both keys.
Invalidate(k) ==
  /\ check[k] # 0
  /\ cached' = [key \in Keys |-> NoPage]
  /\ fetch' = [r \in DOMAIN fetch |->
                 IF fetch[r].at \in {"last", "store"}
                   THEN [fetch[r] EXCEPT !.page = Passed(@)] ELSE fetch[r]]
  /\ due' = IF check[k] > due THEN check[k] ELSE due
  /\ check' = [check EXCEPT ![k] = 0]
  /\ UNCHANGED <<version, seen, boardVars, mishaps>>

\* The job is cut off after its commit, or Redis fails: errors are swallowed.
InvalidateFails(k) ==
  /\ check[k] # 0
  /\ Mishap
  /\ check' = [check EXCEPT ![k] = 0]
  /\ UNCHANGED <<version, pageVars, boardVars>>

-----------------------------------------------------------------------------
(* public_status and public_incidents, asked for by the page every 30 s.   *)

\* The page is opened: its two queries start.
OpenPage(v) ==
  /\ fetch[<<v, "status">>].at = "closed"
  /\ fetch' = [r \in DOMAIN fetch |-> IF r[1] = v THEN IdleFetch ELSE fetch[r]]
  /\ UNCHANGED <<version, check, due, cached, seen, boardVars, mishaps>>

\* GET: the cached page is the answer.
AskCache(r) ==
  /\ fetch[r].at = "idle"
  /\ IF cached[r[2]] # NoPage
       THEN seen' = [seen EXCEPT ![r] = Shown(cached[r[2]])] /\ UNCHANGED fetch
       ELSE fetch' = [fetch EXCEPT ![r] = [IdleFetch EXCEPT !.at = "first"]] /\ UNCHANGED seen
  /\ UNCHANGED <<version, check, due, cached, boardVars, mishaps>>

\* The monitors and their latest checks; of the other page, the incidents.
ReadFirst(r) ==
  /\ fetch[r].at = "first"
  /\ fetch' = [fetch EXCEPT ![r].at = "last", ![r].page.from = version]
  /\ UNCHANGED <<version, check, due, cached, seen, boardVars, mishaps>>

\* The open incidents; of the other page, the monitors' names.
ReadLast(r) ==
  /\ fetch[r].at = "last"
  /\ fetch' = [fetch EXCEPT ![r].at = "store", ![r].page.to = version]
  /\ UNCHANGED <<version, check, due, cached, seen, boardVars, mishaps>>

\* SET with ex=STATUS_TTL, over whatever was stored meanwhile, and the answer.
StorePage(r) ==
  /\ fetch[r].at = "store"
  /\ cached' = [cached EXCEPT ![r[2]] = fetch[r].page]
  /\ seen' = [seen EXCEPT ![r] = Shown(fetch[r].page)]
  /\ fetch' = [fetch EXCEPT ![r] = IdleFetch]
  /\ UNCHANGED <<version, check, due, boardVars, mishaps>>

\* The SET fails: the answer all the same.
StorePageFails(r) ==
  /\ fetch[r].at = "store"
  /\ Mishap
  /\ seen' = [seen EXCEPT ![r] = Shown(fetch[r].page)]
  /\ fetch' = [fetch EXCEPT ![r] = IdleFetch]
  /\ UNCHANGED <<version, check, due, cached, boardVars>>

\* Mutant of ExpirePage: pages are stored without a TTL.
ExpirePageNever(key) ==
  /\ cached[key] # NoPage /\ FALSE
  /\ UNCHANGED statusVars

\* STATUS_TTL has passed.
ExpirePage(key) ==
  /\ cached[key] # NoPage
  /\ cached' = [cached EXCEPT ![key] = NoPage]
  /\ UNCHANGED <<version, check, due, fetch, seen, boardVars, mishaps>>

-----------------------------------------------------------------------------
(* The dashboard.                                                          *)

\* The dashboard is opened by a user who is logged in.
OpenBoard ==
  /\ socket = "closed" /\ token # "expired"
  /\ socket' = "waiting"
  /\ list' = version
  /\ UNCHANGED <<version, check, pageVars, token, mishaps>>

\* The list is fetched every 30 s, a new token with it if the old one has expired.
FetchList ==
  /\ socket # "closed"
  /\ list' = version
  /\ token' = IF token = "expired" THEN "renewed" ELSE token
  /\ UNCHANGED <<version, check, pageVars, socket, mishaps>>

ExpireToken ==
  /\ socket # "closed"
  /\ token # "expired"
  /\ Mishap
  /\ token' = "expired"
  /\ UNCHANGED <<version, check, pageVars, list, socket>>

\* Mutant of OpenSocket: the URL is built once, with the token of that moment.
OpenSocketOldUrl ==
  /\ socket = "waiting" /\ token = "first"
  /\ socket' = "open"
  /\ UNCHANGED <<version, check, pageVars, list, token, mishaps>>

\* connect, after the pause of the backoff, with the token there is now; ws_monitors
\* accepts it, says hello and subscribes.
OpenSocket ==
  /\ socket = "waiting" /\ token # "expired"
  /\ socket' = "open"
  /\ UNCHANGED <<version, check, pageVars, list, token, mishaps>>

\* The first pass of ws_monitors' loop: get_message of the asyncio client gives a
\* coroutine that nobody awaits, .get of it raises, and the socket is closed.  No live
\* event is ever forwarded; the page schedules the next connect.
BreakSocket ==
  /\ socket = "open"
  /\ socket' = "waiting"
  /\ UNCHANGED <<version, check, pageVars, list, token, mishaps>>

-----------------------------------------------------------------------------
FetchStep(r) == ReadFirst(r) \/ ReadLast(r) \/ StorePage(r)

StatusNext ==
  \/ CommitQuietly \/ OpenBoard \/ FetchList \/ ExpireToken \/ OpenSocket \/ BreakSocket
  \/ \E k \in Checks : CommitCheck(k) \/ Invalidate(k) \/ InvalidateFails(k)
  \/ \E r \in Visitors \X Keys : AskCache(r) \/ FetchStep(r) \/ StorePageFails(r)
  \/ \E v \in Visitors : OpenPage(v)
  \/ \E key \in Keys : ExpirePage(key)

StatusSpec == StatusInit /\ [][StatusNext]_statusVars

-----------------------------------------------------------------------------
\* A page is cached over its invalidation only by a reader that was on its way when the
\* invalidation passed: whatever was read from scratch shows the incident the worker
\* announced (status.py:8-9, "worker deletes these keys").
InvalidatedStaysOut ==
  \A key \in Keys :
    cached[key] # NoPage => cached[key].from >= due \/ cached[key].raced

\* The TTL runs out, requests go on, the pages and the dashboard ask again.
StatusFairness ==
  /\ \A key \in Keys : WF_statusVars(ExpirePage(key))
  /\ \A r \in Visitors \X Keys : WF_statusVars(AskCache(r)) /\ WF_statusVars(FetchStep(r))
  /\ WF_statusVars(FetchList) /\ WF_statusVars(OpenSocket) /\ WF_statusVars(BreakSocket)

\* Whatever races, invalidations that were lost and changes that nobody announced: once
\* nothing changes any more, the visitors and the dashboard see what is there.
EverybodyCatchesUp ==
  <>[](/\ socket # "closed" => list = version
       /\ \A r \in Visitors \X Keys :
            fetch[r].at # "closed" => seen[r].from = version /\ seen[r].to = version)

\* The live socket of a dashboard is always opened again, though its token expires
\* (useLiveMonitors.ts:30-88).
SocketComesBack == socket = "waiting" ~> socket = "open"
=============================================================================
