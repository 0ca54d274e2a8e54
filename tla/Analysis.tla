------------------------------- MODULE Analysis -------------------------------
(***************************************************************************)
(* The AI explanation of one incident and the counter that limits how often   *)
(* its user may ask: rl:ai:{user} counts the requests of a minute, ai:{id}    *)
(* caches the answer for a day and incidents.ai_summary keeps it for good.    *)
(*                                                                          *)
(* Source: backend/app/core/rate_limit.py, services/ai_service.py,            *)
(* api/v1/routers/incidents.py (analyze, analysis), api/v1/routers/ai.py.     *)
(*                                                                          *)
(* An answer is the number of the call to Gemini that was paid for it.        *)
(***************************************************************************)
EXTENDS Naturals, FiniteSets

CONSTANTS
  Clicks,     \* requests of the user that may overlap
  RateLimit,  \* AI_RATE_LIMIT
  MaxPaid,    \* bound: answers Gemini gives
  MaxBlips    \* bound: errors of Redis, requests that die

ASSUME AnalysisAssumption ==
  IsFiniteSet(Clicks) /\ RateLimit \in Nat \ {0} /\ MaxPaid \in Nat /\ MaxBlips \in Nat

Answers == 0 .. MaxPaid   \* 0: none

VARIABLES
  hits,     \* the counter, 0 when there is none; it stands still beyond the limit
  timed,    \* it has a TTL
  stored,   \* the incident exists
  summary,  \* its ai_summary, committed
  kept,     \* ai:{incident}
  click,    \* where each request is, what it loaded and what it was answered
  paid,     \* answers of Gemini so far
  blips     \* budget of the bound

counterVars == <<hits, timed>>
answerVars == <<stored, summary, kept, paid>>
analysisVars == <<counterVars, answerVars, click, blips>>

Kinds == {"analyze", "analysis", "ask"}
Idle == [at |-> "idle", kind |-> "ask", sees |-> 0, text |-> 0]

AnalysisTypeOK ==
  /\ hits \in 0 .. RateLimit + 1 /\ timed \in BOOLEAN
  /\ stored \in BOOLEAN /\ summary \in Answers /\ kept \in Answers /\ paid \in Answers
  /\ click \in [Clicks -> [at : {"idle", "count", "expire", "load", "cache", "call", "commit",
                                 "store"},
                           kind : Kinds, sees : Answers, text : Answers]]
  /\ blips \in 0 .. MaxBlips

AnalysisInit ==
  /\ hits = 0 /\ timed = FALSE
  /\ stored = TRUE /\ summary = 0 /\ kept = 0 /\ paid = 0
  /\ click = [c \in Clicks |-> Idle]
  /\ blips = MaxBlips

Blip == blips > 0 /\ blips' = blips - 1
GoTo(c, at) == click' = [click EXCEPT ![c].at = at]
End(c) == click' = [click EXCEPT ![c] = Idle]

-----------------------------------------------------------------------------
(* check_rate_limit; the cached read is not counted.                       *)

Ask(c, kind) ==
  /\ click[c].at = "idle"
  /\ click' = [click EXCEPT ![c].kind = kind,
                            ![c].at = IF kind = "analysis" THEN "load" ELSE "count"]
  /\ UNCHANGED <<counterVars, answerVars, blips>>

\* INCR.
Counted == IF hits <= RateLimit THEN hits + 1 ELSE hits

\* The first of a minute sets the TTL, those beyond the limit are refused.
CountHit(c) ==
  /\ click[c].at = "count"
  /\ hits' = Counted
  /\ IF hits' = 1 THEN GoTo(c, "expire")
     ELSE IF hits' > RateLimit THEN End(c) ELSE GoTo(c, "load")
  /\ UNCHANGED <<timed, answerVars, blips>>

\* Mutant of SetTtl: EXPIRE unless the count is 1 still.
SetTtlLater(c) ==
  /\ click[c].at = "expire"
  /\ timed' = (hits > 1)
  /\ GoTo(c, "load")
  /\ UNCHANGED <<hits, answerVars, blips>>

\* EXPIRE.
SetTtl(c) ==
  /\ click[c].at = "expire"
  /\ timed' = TRUE
  /\ GoTo(c, "load")
  /\ UNCHANGED <<hits, answerVars, blips>>

\* INCR or EXPIRE raises, before or after Redis ran it: the request goes on.
CountFails(c) ==
  /\ click[c].at \in {"count", "expire"}
  /\ Blip
  /\ \/ UNCHANGED counterVars
     \/ click[c].at = "count" /\ hits' = Counted /\ UNCHANGED timed
     \/ click[c].at = "expire" /\ timed' = TRUE /\ UNCHANGED hits
  /\ GoTo(c, "load")
  /\ UNCHANGED answerVars

\* The minute is over.
ExpireCounter ==
  /\ timed
  /\ hits' = 0 /\ timed' = FALSE
  /\ UNCHANGED <<answerVars, click, blips>>

-----------------------------------------------------------------------------
(* analyze_for_incident, get_analysis and ask_about_incidents.             *)

\* The guards load the incident, which keeps the summary it has now; a question about no
\* incident needs no model, the others are answered 404.
Load(c) ==
  /\ click[c].at = "load"
  /\ IF stored THEN click' = [click EXCEPT ![c].sees = summary,
                               ![c].at = IF click[c].kind = "ask" THEN "call" ELSE "cache"]
               ELSE End(c)
  /\ UNCHANGED <<counterVars, answerVars, blips>>

\* No answer in the cache: the stored one, or Gemini is asked, or 404.
Miss(c) ==
  IF click[c].sees # 0 THEN click' = [click EXCEPT ![c].text = click[c].sees, ![c].at = "store"]
  ELSE IF click[c].kind = "analyze" THEN GoTo(c, "call") ELSE End(c)

ReadCache(c) ==
  /\ click[c].at = "cache"
  /\ IF kept # 0 THEN End(c) ELSE Miss(c)
  /\ UNCHANGED <<counterVars, answerVars, blips>>

ReadCacheFails(c) ==
  /\ click[c].at = "cache" /\ Blip /\ Miss(c)
  /\ UNCHANGED <<counterVars, answerVars>>

\* call_gemini gives a text.
CallGemini(c) ==
  /\ click[c].at = "call" /\ click[c].kind = "analyze"
  /\ paid < MaxPaid /\ paid' = paid + 1
  /\ click' = [click EXCEPT ![c].text = paid', ![c].at = "commit"]
  /\ UNCHANGED <<counterVars, stored, summary, kept, blips>>

\* A question is answered, or not, and nothing is stored.
AnswerQuestion(c) ==
  /\ click[c].at = "call" /\ click[c].kind = "ask"
  /\ End(c)
  /\ UNCHANGED <<counterVars, answerVars, blips>>

\* No key, a timeout, the quota or an empty text: 502 or 503.
CallFails(c) ==
  /\ click[c].at = "call" /\ click[c].kind = "analyze"
  /\ End(c)
  /\ UNCHANGED <<counterVars, answerVars, blips>>

\* Mutant of CommitSummary: the session is not committed, only the cache gets the answer.
CommitSummaryNever(c) ==
  /\ click[c].at = "commit"
  /\ IF stored THEN GoTo(c, "store") ELSE End(c)
  /\ UNCHANGED <<counterVars, answerVars, blips>>

\* ai_summary is updated and committed; the row may be gone, then the request fails.
CommitSummary(c) ==
  /\ click[c].at = "commit"
  /\ IF stored THEN summary' = click[c].text /\ GoTo(c, "store") ELSE End(c) /\ UNCHANGED summary
  /\ UNCHANGED <<counterVars, stored, kept, paid, blips>>

\* cache_set, and the answer.
StoreAnswer(c) ==
  /\ click[c].at = "store"
  /\ kept' = click[c].text
  /\ End(c)
  /\ UNCHANGED <<counterVars, stored, summary, paid, blips>>

\* The SET fails, or the request dies at any of its steps.
Die(c) ==
  /\ click[c].at # "idle" /\ Blip
  /\ End(c)
  /\ UNCHANGED <<counterVars, answerVars>>

\* CACHE_TTL_SECONDS have passed.
ExpireAnswer ==
  /\ kept # 0 /\ kept' = 0
  /\ UNCHANGED <<counterVars, stored, summary, paid, click, blips>>

\* The incident goes with its monitor; nobody deletes the cached answer.
RemoveIncident ==
  /\ stored
  /\ stored' = FALSE
  /\ UNCHANGED <<counterVars, summary, kept, paid, click, blips>>

-----------------------------------------------------------------------------
AnalysisNext ==
  \/ ExpireCounter \/ ExpireAnswer \/ RemoveIncident
  \/ \E c \in Clicks :
       \/ \E kind \in Kinds : Ask(c, kind)
       \/ CountHit(c) \/ SetTtl(c) \/ CountFails(c) \/ Load(c) \/ ReadCache(c)
       \/ ReadCacheFails(c) \/ CallGemini(c) \/ AnswerQuestion(c) \/ CallFails(c)
       \/ CommitSummary(c) \/ StoreAnswer(c) \/ Die(c)

AnalysisSpec == AnalysisInit /\ [][AnalysisNext]_analysisVars

-----------------------------------------------------------------------------
\* The answer is paid once by each request that was under way before it was stored, and
\* again only for one that was lost with its request: caches that run out and cost nothing
\* (incidents.py:132, "repeat clicks cost $0").
RepeatClicksAreFree == paid <= Cardinality(Clicks) + (MaxBlips - blips)

\* A counter without a TTL would refuse its user for ever ("try again in under a minute",
\* rate_limit.py:23): there is one only while the request that started it is about to set
\* the TTL, or when Redis failed or that request died in between.
CounterRunsOut ==
  hits > 0 /\ ~timed => blips < MaxBlips \/ \E c \in Clicks : click[c].at = "expire"
=============================================================================
