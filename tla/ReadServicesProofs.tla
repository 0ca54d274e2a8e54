------------------------- MODULE ReadServicesProofs -------------------------
(***************************************************************************)
(* The services that read what others write: the cached public page, the   *)
(* AI analysis and its counter, and CSV exports, for any number of         *)
(* readers, clicks and rows.                                               *)
(*                                                                         *)
(* StatusPages: InvalidatedStaysOut is inductive once it also speaks of    *)
(* the pages that are on their way to the cache, and says that nothing is  *)
(* announced before it is committed.                                       *)
(*                                                                         *)
(* Analysis: CounterRunsOut is inductive with the types. For               *)
(* RepeatClicksAreFree, what was paid is charged to the clicks: before an  *)
(* answer is stored to those that are about to store one, afterwards also  *)
(* to those that saw none when they began.                                 *)
(*                                                                         *)
(* Export: a row that was there and was not sent is gone, or among the     *)
(* rows the offset passes over, and these grow only when others go; at the *)
(* cap, the rows that are left are below as many as were sent, of which    *)
(* those that were not there came.                                         *)
(***************************************************************************)
EXTENDS StatusPages, Analysis, Export, FiniteSetTheorems, WellFoundedInduction, TLAPS

-----------------------------------------------------------------------------
(* StatusPages.                                                             *)

\* A page read before the last invalidation was passed by it.
Guarded(page) == page.from >= due \/ page.raced

CommittedFirst == due <= version /\ \A k \in Checks : check[k] <= version

FetchedGuarded ==
  \A r \in Visitors \X Keys : fetch[r].at \in {"last", "store"} => Guarded(fetch[r].page)

PagesInv == StatusTypeOK /\ CommittedFirst /\ FetchedGuarded /\ InvalidatedStaysOut

Fetch == [at : {"closed", "idle", "first", "last", "store"}, page : Page]

-----------------------------------------------------------------------------
\* Versions are numbers, and those of a page are versions.
LEMMA VersionNumbers ==
  ASSUME StatusTypeOK
  PROVE  /\ Versions \subseteq Nat /\ version \in Nat /\ due \in Nat
         /\ \A k \in Checks : check[k] \in Versions /\ check[k] \in Nat
         /\ \A r \in Visitors \X Keys : fetch[r] \in Fetch /\ fetch[r].page.from \in Nat
<1>1. Versions \subseteq Nat
  BY PagesAssumption DEF Versions
<1> QED BY <1>1 DEF StatusTypeOK, Fetch, Page

\* Nothing is cached or announced at first.
LEMMA StatusInitPagesInv == StatusInit => PagesInv
<1> SUFFICES ASSUME StatusInit PROVE PagesInv
  OBVIOUS
<1>0. 0 \in Versions /\ mishaps \in 0 .. MaxMishaps
  BY PagesAssumption DEF Versions, StatusInit
<1>1. NewPage \in Page /\ [IdleFetch EXCEPT !.at = "closed"] \in Fetch
      /\ [IdleFetch EXCEPT !.at = "closed"].at = "closed"
      /\ Shown(NewPage) \in [from : Versions, to : Versions]
  BY <1>0 DEF NewPage, IdleFetch, Page, Fetch, Shown
<1>2. StatusTypeOK
  BY <1>0, <1>1 DEF StatusInit, StatusTypeOK, Fetch
<1>3. CommittedFirst
  BY <1>0 DEF StatusInit, CommittedFirst
<1>4. FetchedGuarded /\ InvalidatedStaysOut
  BY <1>1 DEF StatusInit, FetchedGuarded, InvalidatedStaysOut
<1> QED BY <1>2, <1>3, <1>4 DEF PagesInv

-----------------------------------------------------------------------------
\* A commit: what was read before it is as old as before.
LEMMA CommitCheckStep ==
  ASSUME PagesInv, (\E k \in Checks : CommitCheck(k)) \/ CommitQuietly
  PROVE  PagesInv'
<1>1. /\ StatusTypeOK /\ version < MaxVersions /\ version' = version + 1
      /\ UNCHANGED <<due, cached, fetch, seen, list, socket, token, mishaps>>
      /\ check' = check \/ \E k \in Checks : check' = [check EXCEPT ![k] = version']
  BY DEF PagesInv, CommitCheck, CommitQuietly, pageVars, boardVars
<1>2. version' \in Versions /\ version' >= version
  BY <1>1, PagesAssumption, VersionNumbers DEF Versions
<1>3. check' \in [Checks -> Versions] /\ \A k \in Checks : check'[k] = check[k] \/ check'[k] = version'
  BY <1>1, <1>2 DEF StatusTypeOK
<1>4. StatusTypeOK'
  BY <1>1, <1>2, <1>3 DEF StatusTypeOK
<1>5. CommittedFirst'
  <2>1. due' <= version'
    BY <1>1, <1>2, VersionNumbers DEF PagesInv, CommittedFirst
  <2>2. ASSUME NEW k \in Checks PROVE check'[k] <= version'
    BY <1>1, <1>2, <1>3, VersionNumbers DEF PagesInv, CommittedFirst
  <2> QED BY <2>1, <2>2 DEF CommittedFirst
<1>6. FetchedGuarded' /\ InvalidatedStaysOut'
  BY <1>1 DEF PagesInv, FetchedGuarded, InvalidatedStaysOut, Guarded
<1> QED BY <1>4, <1>5, <1>6 DEF PagesInv

\* An invalidation: the cache is empty, and it passes those on their way.
LEMMA InvalidateStep ==
  ASSUME PagesInv, NEW k \in Checks, Invalidate(k)
  PROVE  PagesInv'
<1>1. /\ StatusTypeOK /\ cached' = [key \in Keys |-> NoPage]
      /\ due' = IF check[k] > due THEN check[k] ELSE due
      /\ check' = [check EXCEPT ![k] = 0]
      /\ UNCHANGED <<version, seen, list, socket, token, mishaps>>
  BY DEF PagesInv, Invalidate, boardVars
<1>2. 0 \in Versions /\ due' \in Versions
  BY <1>1, VersionNumbers, PagesAssumption DEF StatusTypeOK, Versions
<1>3. /\ DOMAIN fetch = Visitors \X Keys
      /\ fetch' \in [Visitors \X Keys -> Fetch]
      /\ \A r \in Visitors \X Keys : fetch'[r].at \in {"last", "store"} => fetch'[r].page.raced
  <2>1. DOMAIN fetch = Visitors \X Keys
    BY <1>1 DEF StatusTypeOK
  <2>2. ASSUME NEW r \in Visitors \X Keys
        PROVE  fetch'[r] \in Fetch /\ (fetch'[r].at \in {"last", "store"} => fetch'[r].page.raced)
    <3>1. fetch[r] \in Fetch /\ fetch[r].page \in Page
      BY <1>1 DEF StatusTypeOK, Fetch
    <3>2. fetch'[r] = IF fetch[r].at \in {"last", "store"}
                        THEN [fetch[r] EXCEPT !.page = Passed(fetch[r].page)] ELSE fetch[r]
      BY <2>1 DEF Invalidate
    <3>3. Passed(fetch[r].page) \in Page /\ Passed(fetch[r].page).raced
      BY <3>1 DEF Passed, Page
    <3> QED BY <3>1, <3>2, <3>3 DEF Fetch
  <2>3. fetch' = [r \in Visitors \X Keys |-> fetch'[r]]
    BY <2>1 DEF Invalidate
  <2> QED BY <2>1, <2>2, <2>3
<1>4. StatusTypeOK'
  BY <1>1, <1>2, <1>3 DEF StatusTypeOK, Fetch
<1>5. CommittedFirst'
  <2>1. due' <= version'
    BY <1>1, VersionNumbers DEF PagesInv, CommittedFirst
  <2>2. ASSUME NEW j \in Checks PROVE check'[j] <= version'
    BY <1>1, VersionNumbers DEF PagesInv, CommittedFirst, StatusTypeOK
  <2> QED BY <2>1, <2>2 DEF CommittedFirst
<1>6. FetchedGuarded' /\ InvalidatedStaysOut'
  BY <1>1, <1>3 DEF FetchedGuarded, InvalidatedStaysOut, Guarded
<1> QED BY <1>4, <1>5, <1>6 DEF PagesInv

\* A reader's own steps: a page is read from the version there is, then kept.
LEMMA ReadStep ==
  ASSUME PagesInv, NEW r \in Visitors \X Keys, ReadFirst(r) \/ ReadLast(r)
  PROVE  PagesInv'
<1> DEFINE new == IF fetch[r].at = "first"
                    THEN [fetch[r] EXCEPT !.at = "last", !.page.from = version]
                    ELSE [fetch[r] EXCEPT !.at = "store", !.page.to = version]
<1>1. /\ StatusTypeOK /\ fetch[r] \in Fetch /\ fetch[r].page \in Page /\ version \in Versions
      /\ fetch[r].at \in {"first", "last"}
      /\ UNCHANGED <<version, check, due, cached, seen, list, socket, token, mishaps>>
  BY DEF PagesInv, StatusTypeOK, Fetch, ReadFirst, ReadLast, boardVars
<1>2. fetch' = [fetch EXCEPT ![r] = new]
  BY DEF ReadFirst, ReadLast
<1>3. /\ new \in Fetch
      /\ fetch[r].at = "first" => new.page.from = version
      /\ fetch[r].at = "last" => /\ new.page.from = fetch[r].page.from
                                 /\ new.page.raced = fetch[r].page.raced
  BY <1>1 DEF Fetch, Page
<1>4. Guarded(new.page)
  <2>1. CASE fetch[r].at = "first"
    BY <1>1, <1>3, <2>1, VersionNumbers DEF PagesInv, CommittedFirst, Guarded
  <2>2. CASE fetch[r].at = "last"
    BY <1>3, <2>2 DEF PagesInv, FetchedGuarded, Guarded
  <2> QED BY <1>1, <2>1, <2>2
<1> HIDE DEF new
<1>5. /\ fetch' \in [Visitors \X Keys -> Fetch] /\ fetch'[r] = new
      /\ \A q \in Visitors \X Keys : q # r => fetch'[q] = fetch[q]
  BY <1>1, <1>2, <1>3 DEF StatusTypeOK, Fetch
<1>6. StatusTypeOK'
  BY <1>1, <1>5 DEF StatusTypeOK, Fetch
<1>7. FetchedGuarded'
  BY <1>1, <1>4, <1>5 DEF PagesInv, FetchedGuarded, Guarded
<1>8. CommittedFirst' /\ InvalidatedStaysOut'
  BY <1>1 DEF PagesInv, CommittedFirst, InvalidatedStaysOut
<1> QED BY <1>6, <1>7, <1>8 DEF PagesInv

\* The page is opened, answered from the cache or missed, stored, or expires.
LEMMA PageStep ==
  ASSUME PagesInv,
         \/ \E v \in Visitors : OpenPage(v)
         \/ \E r \in Visitors \X Keys : AskCache(r) \/ StorePage(r) \/ StorePageFails(r)
         \/ \E key \in Keys : ExpirePage(key)
  PROVE  PagesInv'
<1>0. /\ StatusTypeOK
      /\ UNCHANGED <<version, check, due, list, socket, token>>
      /\ mishaps' = mishaps \/ Mishap
  BY DEF PagesInv, OpenPage, AskCache, StorePage, StorePageFails, ExpirePage, boardVars
<1>1. mishaps' \in 0 .. MaxMishaps
  BY <1>0, PagesAssumption DEF StatusTypeOK, Mishap
<1>2. /\ IdleFetch \in Fetch /\ [IdleFetch EXCEPT !.at = "first"] \in Fetch
      /\ IdleFetch.at = "idle" /\ [IdleFetch EXCEPT !.at = "first"].at = "first"
  <2>1. 0 \in Versions
    BY PagesAssumption DEF Versions
  <2>2. NewPage \in Page
    BY <2>1 DEF NewPage, Page
  <2> QED BY <2>2 DEF IdleFetch, Fetch
<1>3. /\ fetch' \in [Visitors \X Keys -> Fetch]
      /\ \A r \in Visitors \X Keys :
           \/ fetch'[r] = fetch[r] \/ fetch'[r] = IdleFetch
           \/ fetch'[r] = [IdleFetch EXCEPT !.at = "first"]
  <2>0. fetch \in [Visitors \X Keys -> Fetch]
    BY <1>0 DEF StatusTypeOK, Fetch
  <2>1. ASSUME NEW v \in Visitors, OpenPage(v)
        PROVE  fetch' = [r \in Visitors \X Keys |-> IF r[1] = v THEN IdleFetch ELSE fetch[r]]
    BY <2>0, <2>1 DEF OpenPage
  <2>2. ASSUME NEW r \in Visitors \X Keys, AskCache(r) \/ StorePage(r) \/ StorePageFails(r)
        PROVE  \/ fetch' = fetch \/ fetch' = [fetch EXCEPT ![r] = IdleFetch]
               \/ fetch' = [fetch EXCEPT ![r] = [IdleFetch EXCEPT !.at = "first"]]
    BY <2>2 DEF AskCache, StorePage, StorePageFails
  <2>3. ASSUME NEW key \in Keys, ExpirePage(key) PROVE fetch' = fetch
    BY <2>3 DEF ExpirePage
  <2> HIDE DEF IdleFetch
  <2> QED BY <1>2, <2>0, <2>1, <2>2, <2>3
<1>4. seen' \in [Visitors \X Keys -> [from : Versions, to : Versions]]
  <2>1. ASSUME NEW page \in Page PROVE Shown(page) \in [from : Versions, to : Versions]
    BY DEF Page, Shown
  <2>2. ASSUME NEW r \in Visitors \X Keys, AskCache(r) \/ StorePage(r) \/ StorePageFails(r)
        PROVE  \/ seen' = seen
               \/ \E page \in Page : seen' = [seen EXCEPT ![r] = Shown(page)]
    <3>1. r[2] \in Keys /\ fetch[r].page \in Page
          /\ (cached[r[2]] # NoPage => cached[r[2]] \in Page)
      BY <1>0, <2>2 DEF StatusTypeOK
    <3> QED BY <2>2, <3>1 DEF AskCache, StorePage, StorePageFails
  <2>3. ASSUME (\E v \in Visitors : OpenPage(v)) \/ \E key \in Keys : ExpirePage(key)
        PROVE  seen' = seen
    BY <2>3 DEF OpenPage, ExpirePage
  <2>4. seen \in [Visitors \X Keys -> [from : Versions, to : Versions]]
    BY <1>0 DEF StatusTypeOK
  <2>5. ASSUME NEW r \in Visitors \X Keys, NEW p \in [from : Versions, to : Versions]
        PROVE  [seen EXCEPT ![r] = p] \in [Visitors \X Keys -> [from : Versions, to : Versions]]
    BY <2>4
  <2>6. CASE \E r \in Visitors \X Keys : AskCache(r) \/ StorePage(r) \/ StorePageFails(r)
    <3>1. PICK r \in Visitors \X Keys : AskCache(r) \/ StorePage(r) \/ StorePageFails(r)
      BY <2>6
    <3>2. CASE seen' = seen
      BY <2>4, <3>2
    <3>3. ASSUME NEW page \in Page, seen' = [seen EXCEPT ![r] = Shown(page)]
          PROVE  seen' \in [Visitors \X Keys -> [from : Versions, to : Versions]]
      BY <2>1, <2>5, <3>3
    <3> QED BY <2>2, <3>1, <3>2, <3>3
  <2> QED BY <2>3, <2>4, <2>6
<1>5. \A key \in Keys :
        \/ cached'[key] = cached[key] \/ cached'[key] = NoPage
        \/ \E r \in Visitors \X Keys : fetch[r].at = "store" /\ cached'[key] = fetch[r].page
  BY <1>0 DEF StatusTypeOK, OpenPage, AskCache, StorePage, StorePageFails, ExpirePage
<1>6. cached' \in [Keys -> Page \cup {NoPage}]
  <2>1. \A r \in Visitors \X Keys : fetch[r].page \in Page
    BY <1>0 DEF StatusTypeOK
  <2>2. cached' = [key \in Keys |-> cached'[key]]
    BY <1>0 DEF StatusTypeOK, OpenPage, AskCache, StorePage, StorePageFails, ExpirePage
  <2>3. \A key \in Keys : cached'[key] \in Page \cup {NoPage}
    BY <1>0, <1>5, <2>1 DEF StatusTypeOK
  <2> QED BY <2>2, <2>3
<1>7. StatusTypeOK'
  BY <1>0, <1>1, <1>3, <1>4, <1>6 DEF StatusTypeOK, Fetch
<1>8. FetchedGuarded'
  BY <1>0, <1>2, <1>3 DEF PagesInv, FetchedGuarded, Guarded
<1>9. InvalidatedStaysOut'
  BY <1>0, <1>5 DEF PagesInv, FetchedGuarded, Guarded, InvalidatedStaysOut
<1>10. CommittedFirst'
  BY <1>0 DEF PagesInv, CommittedFirst
<1> QED BY <1>7, <1>8, <1>9, <1>10 DEF PagesInv

\* The dashboard, an invalidation that is lost, and nothing at all.
LEMMA OtherPageStep ==
  ASSUME PagesInv,
               \/ OpenBoard \/ FetchList \/ ExpireToken \/ OpenSocket \/ BreakSocket
               \/ \E k \in Checks : InvalidateFails(k)
               \/ UNCHANGED statusVars
  PROVE  PagesInv'
<1>1. /\ StatusTypeOK /\ UNCHANGED <<version, due, cached, fetch, seen>>
      /\ check' = check \/ \E k \in Checks : check' = [check EXCEPT ![k] = 0]
  BY DEF PagesInv, OpenBoard, FetchList, ExpireToken, OpenSocket, BreakSocket, InvalidateFails,
         statusVars, pageVars
<1>2. /\ list' \in {list, version} /\ socket' \in {socket, "waiting", "open"}
      /\ token' \in {token, "renewed", "expired"} /\ (mishaps' = mishaps \/ Mishap)
  BY DEF OpenBoard, FetchList, ExpireToken, OpenSocket, BreakSocket, InvalidateFails,
         statusVars, boardVars
<1>3. mishaps' \in 0 .. MaxMishaps
  BY <1>1, <1>2, PagesAssumption DEF StatusTypeOK, Mishap
<1>4. 0 \in Versions
  BY PagesAssumption DEF Versions
<1>5. check' \in [Checks -> Versions] /\ \A k \in Checks : check'[k] = check[k] \/ check'[k] = 0
  BY <1>1, <1>4 DEF StatusTypeOK
<1>6. StatusTypeOK'
  BY <1>1, <1>2, <1>3, <1>5 DEF StatusTypeOK
<1>7. CommittedFirst'
  BY <1>1, <1>5, VersionNumbers DEF PagesInv, CommittedFirst
<1>8. FetchedGuarded' /\ InvalidatedStaysOut'
  BY <1>1 DEF PagesInv, FetchedGuarded, Guarded, InvalidatedStaysOut
<1> QED BY <1>6, <1>7, <1>8 DEF PagesInv

LEMMA PagesInvStep == PagesInv /\ [StatusNext]_statusVars => PagesInv'
<1> SUFFICES ASSUME PagesInv, [StatusNext]_statusVars PROVE PagesInv'
  OBVIOUS
<1>1. CASE (\E k \in Checks : CommitCheck(k)) \/ CommitQuietly
  BY <1>1, CommitCheckStep
<1>2. CASE \E k \in Checks : Invalidate(k)
  BY <1>2, InvalidateStep
<1>3. CASE \E r \in Visitors \X Keys : ReadFirst(r) \/ ReadLast(r)
  BY <1>3, ReadStep
<1>4. CASE \/ \E v \in Visitors : OpenPage(v)
           \/ \E r \in Visitors \X Keys : AskCache(r) \/ StorePage(r) \/ StorePageFails(r)
           \/ \E key \in Keys : ExpirePage(key)
  BY <1>4, PageStep
<1>5. CASE \/ OpenBoard \/ FetchList \/ ExpireToken \/ OpenSocket \/ BreakSocket
           \/ \E k \in Checks : InvalidateFails(k)
           \/ UNCHANGED statusVars
  BY <1>5, OtherPageStep
<1> QED BY <1>1, <1>2, <1>3, <1>4, <1>5 DEF StatusNext, FetchStep

-----------------------------------------------------------------------------
\* Every behaviour keeps the types, and what makes InvalidatedStaysOut inductive.
THEOREM PagesInvariant == StatusSpec => []PagesInv
<1>1. StatusInit => PagesInv
  BY StatusInitPagesInv
<1>2. PagesInv /\ [StatusNext]_statusVars => PagesInv'
  BY PagesInvStep
<1> QED BY <1>1, <1>2, PTL DEF StatusSpec

\* The cached page is at least as new as the last invalidation, or was read by a request
\* that the invalidation passed, for any number of checks and readers (status.py:60-117).
THEOREM InvalidatedStaysOutHolds == StatusSpec => []InvalidatedStaysOut
<1>1. PagesInv => InvalidatedStaysOut
  BY DEF PagesInv
<1> QED BY <1>1, PagesInvariant, PTL

-----------------------------------------------------------------------------
(* Analysis.                                                                *)

ClickRecord == [at : {"idle", "count", "expire", "load", "cache", "call", "commit", "store"},
                kind : Kinds, sees : Answers, text : Answers]

\* Gemini is called for an analysis only without a summary, and what is committed is a text.
CallsAreNeeded ==
  \A c \in Clicks :
    /\ click[c].at = "call" /\ click[c].kind = "analyze" => click[c].sees = 0
    /\ click[c].at = "commit" => click[c].text # 0

Storing == {c \in Clicks : click[c].at = "commit"}
Unaware == {c \in Clicks : /\ click[c].at \in {"cache", "call"} /\ click[c].kind = "analyze"
                           /\ click[c].sees = 0}
Unanswered == stored /\ summary = 0
Lost == MaxBlips - blips

PaidFor ==
  /\ Unanswered => paid <= Cardinality(Storing) + Lost
  /\ ~Unanswered => paid + Cardinality(Unaware) <= Cardinality(Clicks) + Lost

AInv == AnalysisTypeOK /\ CounterRunsOut /\ CallsAreNeeded /\ PaidFor

-----------------------------------------------------------------------------
\* A finite set without one of its elements.
LEMMA RemoveOne ==
  ASSUME NEW S, NEW x, IsFiniteSet(S)
  PROVE  /\ Cardinality(S \ {x}) \in Nat
         /\ Cardinality(S \ {x}) >= Cardinality(S) - 1
         /\ x \in S => Cardinality(S \ {x}) = Cardinality(S) - 1
<1>1. Cardinality(S \ {x}) = IF x \in S THEN Cardinality(S) - 1 ELSE Cardinality(S)
  BY FS_RemoveElement
<1>2. Cardinality(S) \in Nat /\ Cardinality(S \ {x}) \in Nat
  BY FS_RemoveElement, FS_CardinalityType
<1> QED BY <1>1, <1>2

\* The numbers of PaidFor are numbers, and the two sets have no click in common.
LEMMA ClickCounts ==
  ASSUME AnalysisTypeOK
  PROVE  /\ IsFiniteSet(Storing) /\ Cardinality(Storing) \in Nat
         /\ IsFiniteSet(Unaware) /\ Cardinality(Unaware) \in Nat
         /\ Cardinality(Clicks) \in Nat /\ Cardinality(Storing) <= Cardinality(Clicks)
         /\ Cardinality(Storing) + Cardinality(Unaware) <= Cardinality(Clicks)
         /\ paid \in Nat /\ Lost \in Nat
<1>1. Storing \in SUBSET Clicks /\ Unaware \in SUBSET Clicks /\ Storing \cup Unaware \in SUBSET Clicks
  BY DEF Storing, Unaware
<1>2. IsFiniteSet(Clicks)
  BY AnalysisAssumption
<1>3. /\ IsFiniteSet(Storing) /\ IsFiniteSet(Unaware) /\ IsFiniteSet(Storing \cup Unaware)
      /\ Cardinality(Storing) <= Cardinality(Clicks)
      /\ Cardinality(Storing \cup Unaware) <= Cardinality(Clicks)
  BY <1>1, <1>2, FS_Subset
<1>4. Storing \cap Unaware = {}
  BY DEF Storing, Unaware
<1>5. Cardinality(Storing \cup Unaware) = Cardinality(Storing) + Cardinality(Unaware)
  <2>1. Cardinality(Storing \cup Unaware)
          = Cardinality(Storing) + Cardinality(Unaware) - Cardinality(Storing \cap Unaware)
    BY <1>3, FS_Union
  <2>2. Cardinality(Storing \cap Unaware) = 0
    BY <1>4, FS_EmptySet
  <2>3. Cardinality(Storing) \in Nat /\ Cardinality(Unaware) \in Nat
    BY <1>3, FS_CardinalityType
  <2> QED BY <2>1, <2>2, <2>3
<1>6. Cardinality(Storing) \in Nat /\ Cardinality(Unaware) \in Nat /\ Cardinality(Clicks) \in Nat
  BY <1>2, <1>3, FS_CardinalityType
<1>7. paid \in Nat /\ Lost \in Nat
  BY AnalysisAssumption DEF AnalysisTypeOK, Answers, Lost
<1> QED BY <1>3, <1>5, <1>6, <1>7

\* One click moves: what its new record is and what the others keep.
LEMMA ClickFrame ==
  ASSUME AnalysisTypeOK, NEW c \in Clicks, NEW k \in ClickRecord, click' = [click EXCEPT ![c] = k]
  PROVE  /\ click' \in [Clicks -> ClickRecord]
         /\ click'[c] = k
         /\ \A d \in Clicks \ {c} : click'[d] = click[d]
  BY DEF AnalysisTypeOK, ClickRecord

\* Of what is left of a budget, the more is spent the less is left.
LEMMA Spent ==
  ASSUME NEW m \in Nat, NEW a \in 0 .. m, NEW b \in 0 .. m, b <= a
  PROVE  m - b \in Nat /\ m - b >= m - a
  OBVIOUS

\* Blips that happened stay happened.
LEMMA LostGrows ==
  ASSUME AnalysisTypeOK, AnalysisTypeOK', blips' <= blips
  PROVE  Lost' >= Lost /\ Lost' \in Nat /\ (blips' = blips - 1 => Lost' = Lost + 1)
<1>1. blips \in 0 .. MaxBlips /\ blips' \in 0 .. MaxBlips
  BY DEF AnalysisTypeOK
<1>2. MaxBlips \in Nat
  BY AnalysisAssumption
<1>3. Lost' \in Nat /\ Lost' >= Lost
  BY <1>1, <1>2, Spent DEF Lost
<1>4. blips' = blips - 1 => Lost' = Lost + 1
  BY <1>1, <1>2 DEF Lost
<1> QED BY <1>3, <1>4

\* A step that pays nothing and stores nothing, and loses those who stop storing
\* while there is no answer.
LEMMA PaidKept ==
  ASSUME AInv, AnalysisTypeOK', UNCHANGED <<stored, summary, paid>>, blips' <= blips,
         \/ Storing \subseteq Storing'
         \/ ~Unanswered
         \/ blips' = blips - 1 /\ \E c \in Clicks : Storing \ {c} \subseteq Storing',
         ~Unanswered => Unaware' \subseteq Unaware
  PROVE  PaidFor'
<1>0. AnalysisTypeOK
  BY DEF AInv
<1>1. Lost' >= Lost /\ Lost' \in Nat /\ (blips' = blips - 1 => Lost' = Lost + 1)
  BY <1>0, LostGrows
<1>2. /\ IsFiniteSet(Storing') /\ Cardinality(Storing') \in Nat
      /\ IsFiniteSet(Unaware') /\ Cardinality(Unaware') \in Nat
  <2>1. Storing' \in SUBSET Clicks /\ Unaware' \in SUBSET Clicks
    BY DEF Storing, Unaware
  <2> QED BY <2>1, AnalysisAssumption, FS_Subset, FS_CardinalityType
<1>3. Unanswered => Cardinality(Storing') + Lost' >= Cardinality(Storing) + Lost
  <2>1. CASE Storing \subseteq Storing'
    <3>1. Cardinality(Storing) <= Cardinality(Storing')
      BY <1>2, <2>1, FS_Subset
    <3> QED BY <1>0, <1>1, <1>2, <3>1, ClickCounts
  <2>2. ASSUME blips' = blips - 1, NEW c \in Clicks, Storing \ {c} \subseteq Storing'
        PROVE  Cardinality(Storing') + Lost' >= Cardinality(Storing) + Lost
    <3>1. Cardinality(Storing \ {c}) <= Cardinality(Storing')
      BY <1>2, <2>2, FS_Subset
    <3>2. /\ Cardinality(Storing \ {c}) \in Nat
          /\ Cardinality(Storing \ {c}) >= Cardinality(Storing) - 1
      BY <1>0, ClickCounts, RemoveOne
    <3> QED BY <1>0, <1>1, <1>2, <2>2, <3>1, <3>2, ClickCounts
  <2> QED BY <2>1, <2>2
<1>4. ~Unanswered => Cardinality(Unaware') <= Cardinality(Unaware)
  BY <1>0, ClickCounts, FS_Subset
<1>5. Unanswered' = Unanswered
  BY DEF Unanswered
<1> QED BY <1>0, <1>1, <1>2, <1>3, <1>4, <1>5, ClickCounts DEF AInv, PaidFor

\* Nothing is paid for at first.
LEMMA AnalysisInitAInv == AnalysisInit => AInv
<1> SUFFICES ASSUME AnalysisInit PROVE AInv
  OBVIOUS
<1> USE AnalysisAssumption
<1>1. AnalysisTypeOK
  <2>1. Idle \in ClickRecord
    BY DEF Idle, ClickRecord, Kinds, Answers
  <2>2. click \in [Clicks -> ClickRecord]
    BY <2>1 DEF AnalysisInit
  <2>3. /\ hits \in 0 .. RateLimit + 1 /\ blips \in 0 .. MaxBlips
        /\ summary \in Answers /\ kept \in Answers /\ paid \in Answers
    BY DEF AnalysisInit, Answers
  <2>4. timed \in BOOLEAN /\ stored \in BOOLEAN
    BY DEF AnalysisInit
  <2> QED BY <2>2, <2>3, <2>4 DEF AnalysisTypeOK, ClickRecord
<1>2. CounterRunsOut /\ CallsAreNeeded
  BY DEF AnalysisInit, CounterRunsOut, CallsAreNeeded, Idle
<1>3. PaidFor
  BY <1>1, ClickCounts DEF AnalysisInit, PaidFor, Unanswered
<1> QED BY <1>1, <1>2, <1>3 DEF AInv

\* A step of one click that pays nothing and changes no incident.
LEMMA MoveKept ==
  ASSUME AInv, NEW c \in Clicks, NEW k \in ClickRecord, click' = [click EXCEPT ![c] = k],
         UNCHANGED <<stored, summary, paid>>, kept' \in Answers,
         hits' \in 0 .. RateLimit + 1, timed' \in BOOLEAN,
         blips' = blips \/ Blip,
         hits' > 0 /\ ~timed' => \/ blips' < MaxBlips
                                 \/ k.at = "expire"
                                 \/ hits > 0 /\ ~timed /\ click[c].at # "expire",
         k.at = "call" /\ k.kind = "analyze" => k.sees = 0,
         k.at = "commit" => k.text # 0,
         click[c].at = "commit" => k.at = "commit" \/ Blip \/ ~Unanswered,
         ~Unanswered /\ k.at \in {"cache", "call"} /\ k.kind = "analyze" /\ k.sees = 0
           => c \in Unaware
  PROVE  AInv'
<1>1. /\ click' \in [Clicks -> ClickRecord] /\ click'[c] = k
      /\ \A d \in Clicks \ {c} : click'[d] = click[d]
  BY ClickFrame DEF AInv
<1>2. /\ blips' \in 0 .. MaxBlips /\ blips' <= blips
      /\ Blip => blips' = blips - 1 /\ blips' < MaxBlips
  BY AnalysisAssumption DEF AInv, AnalysisTypeOK, Blip
<1>3. AnalysisTypeOK'
  BY <1>1, <1>2 DEF AInv, AnalysisTypeOK, ClickRecord
<1>4. CounterRunsOut'
  <2> SUFFICES ASSUME hits' > 0, ~timed', ~(blips' < MaxBlips)
               PROVE  \E d \in Clicks : click'[d].at = "expire"
    BY DEF CounterRunsOut
  <2>1. CASE k.at = "expire"
    BY <1>1, <2>1
  <2>2. CASE hits > 0 /\ ~timed /\ click[c].at # "expire"
    <3>1. ~(blips < MaxBlips)
      BY <1>2, AnalysisAssumption DEF AInv, AnalysisTypeOK, Blip
    <3>2. PICK d \in Clicks : click[d].at = "expire"
      BY <2>2, <3>1 DEF AInv, CounterRunsOut
    <3> QED BY <1>1, <2>2, <3>2
  <2> QED BY <2>1, <2>2
<1>5. CallsAreNeeded'
  BY <1>1 DEF AInv, CallsAreNeeded
<1>6. \/ Storing \subseteq Storing' \/ ~Unanswered
      \/ blips' = blips - 1 /\ \E d \in Clicks : Storing \ {d} \subseteq Storing'
  <2>1. Storing \ {c} \subseteq Storing'
    BY <1>1 DEF Storing
  <2>2. click[c].at # "commit" \/ k.at = "commit" => Storing \subseteq Storing'
    BY <1>1 DEF Storing
  <2> QED BY <1>2, <2>1, <2>2
<1>7. ~Unanswered => Unaware' \subseteq Unaware
  BY <1>1 DEF Unaware
<1>8. PaidFor'
  BY <1>2, <1>3, <1>6, <1>7, PaidKept
<1> QED BY <1>3, <1>4, <1>5, <1>8 DEF AInv

\* A click that ends: when it was about to store, there was no incident or a blip.
LEMMA ClickEndKept ==
  ASSUME AInv, NEW c \in Clicks, End(c), UNCHANGED <<stored, summary, paid>>, kept' \in Answers,
         hits' \in 0 .. RateLimit + 1, UNCHANGED timed, blips' = blips \/ Blip,
         hits' > 0 /\ ~timed => blips' < MaxBlips \/ (hits > 0 /\ click[c].at # "expire"),
         click[c].at = "commit" => Blip \/ ~Unanswered
  PROVE  AInv'
<1>1. Idle \in ClickRecord /\ Idle.at = "idle"
  BY AnalysisAssumption DEF Idle, ClickRecord, Kinds, Answers
<1>2. timed' \in BOOLEAN
  BY DEF AInv, AnalysisTypeOK
<1>3. click' = [click EXCEPT ![c] = Idle]
  BY DEF End
<1>4. hits' > 0 /\ ~timed' => \/ blips' < MaxBlips
                              \/ Idle.at = "expire"
                              \/ hits > 0 /\ ~timed /\ click[c].at # "expire"
  OBVIOUS
<1>5. /\ Idle.at = "call" /\ Idle.kind = "analyze" => Idle.sees = 0
      /\ Idle.at = "commit" => Idle.text # 0
      /\ click[c].at = "commit" => Idle.at = "commit" \/ Blip \/ ~Unanswered
      /\ ~Unanswered /\ Idle.at \in {"cache", "call"} /\ Idle.kind = "analyze" /\ Idle.sees = 0
           => c \in Unaware
  BY <1>1
<1> HIDE DEF Idle
<1> QED BY <1>1, <1>2, <1>3, <1>4, <1>5, MoveKept


-----------------------------------------------------------------------------
\* Each step of a click.
LEMMA ClickStep ==
  ASSUME AInv, NEW c \in Clicks,
         \/ \E kind \in Kinds : Ask(c, kind)
         \/ CountHit(c) \/ SetTtl(c) \/ CountFails(c) \/ Load(c) \/ ReadCache(c)
         \/ ReadCacheFails(c) \/ AnswerQuestion(c) \/ CallFails(c) \/ StoreAnswer(c) \/ Die(c)
  PROVE  AInv'
<1> USE AnalysisAssumption
<1>0. /\ AnalysisTypeOK /\ CounterRunsOut /\ CallsAreNeeded
      /\ click[c] \in ClickRecord
      /\ hits \in 0 .. RateLimit + 1 /\ timed \in BOOLEAN /\ kept \in Answers /\ summary \in Answers
  BY DEF AInv, AnalysisTypeOK, ClickRecord
<1> DEFINE To(k) == click' = [click EXCEPT ![c] = k]
<1>at. ASSUME NEW at \in {"load", "expire", "count", "cache", "call", "store"}, GoTo(c, at)
       PROVE  /\ To([click[c] EXCEPT !.at = at])
              /\ [click[c] EXCEPT !.at = at] \in ClickRecord
              /\ [click[c] EXCEPT !.at = at].at = at
              /\ [click[c] EXCEPT !.at = at].kind = click[c].kind
              /\ [click[c] EXCEPT !.at = at].sees = click[c].sees
              /\ [click[c] EXCEPT !.at = at].text = click[c].text
  BY <1>0, <1>at DEF ClickRecord, GoTo, AnalysisTypeOK
<1>1. ASSUME NEW kind \in Kinds, Ask(c, kind) PROVE AInv'
  <2> DEFINE k == [click[c] EXCEPT !.kind = kind,
                                   !.at = IF kind = "analysis" THEN "load" ELSE "count"]
  <2>1. k \in ClickRecord /\ k.at \in {"load", "count"}
    BY <1>0 DEF ClickRecord
  <2>2. To(k) /\ click[c].at = "idle" /\ UNCHANGED <<counterVars, answerVars, blips>>
    BY <1>0, <1>1 DEF Ask, AnalysisTypeOK
  <2> HIDE DEF k
  <2> QED BY <1>0, <2>1, <2>2, MoveKept DEF counterVars, answerVars
<1>2. ASSUME CountHit(c) PROVE AInv'
  <2>0. /\ click[c].at = "count" /\ hits' = Counted /\ UNCHANGED <<timed, answerVars, blips>>
        /\ hits' \in 1 .. RateLimit + 1
    BY <1>0, <1>2 DEF CountHit, Counted
  <2>a. hits' \in 0 .. RateLimit + 1 /\ UNCHANGED <<stored, summary, paid, blips>> /\ kept' \in Answers
    BY <1>0, <2>0 DEF answerVars
  <2>b. timed' \in BOOLEAN
    BY <1>0, <2>0, Zenon
  <2>1. CASE hits' = 1
    <3>1. GoTo(c, "expire")
      BY <1>2, <2>1 DEF CountHit
    <3> DEFINE k == [click[c] EXCEPT !.at = "expire"]
    <3>2. /\ To(k) /\ k \in ClickRecord /\ k.at = "expire"
      BY <1>at, <3>1
    <3> HIDE DEF k
    <3> QED BY <1>0, <2>0, <2>a, <2>b, <3>2, MoveKept
  <2>2. CASE hits' # 1
    <3>1. hits > 0
      BY <1>0, <2>0, <2>2 DEF Counted
    <3>2. CASE hits' > RateLimit
      <4>1. End(c)
        BY <1>2, <2>2, <3>2 DEF CountHit
      <4> QED BY <1>0, <2>0, <3>1, <4>1, ClickEndKept DEF answerVars
    <3>3. CASE ~(hits' > RateLimit)
      <4>1. GoTo(c, "load")
        BY <1>2, <2>2, <3>3 DEF CountHit
      <4> DEFINE k == [click[c] EXCEPT !.at = "load"]
      <4>2. To(k) /\ k \in ClickRecord /\ k.at = "load"
        BY <1>at, <4>1
      <4>3. hits' > 0 /\ ~timed' => hits > 0 /\ ~timed /\ click[c].at # "expire"
        BY <2>0, <3>1
      <4> HIDE DEF k
      <4> QED BY <1>0, <2>0, <2>a, <2>b, <4>2, <4>3, MoveKept
    <3> QED BY <3>2, <3>3
  <2> QED BY <2>1, <2>2
<1>3. ASSUME SetTtl(c) PROVE AInv'
  <2>1. /\ click[c].at = "expire" /\ GoTo(c, "load") /\ timed' = TRUE
        /\ UNCHANGED <<hits, answerVars, blips>>
    BY <1>3 DEF SetTtl
  <2> QED BY <1>0, <1>at, <2>1, MoveKept DEF answerVars
<1>4. ASSUME CountFails(c) PROVE AInv'
  <2>1. /\ click[c].at \in {"count", "expire"} /\ GoTo(c, "load") /\ Blip
        /\ UNCHANGED answerVars
    BY <1>4 DEF CountFails
  <2>a. hits' = hits \/ hits' = Counted
    BY <1>4 DEF CountFails, counterVars
  <2>b. timed' = timed \/ timed' = TRUE
    BY <1>4 DEF CountFails, counterVars
  <2>c. hits' \in 0 .. RateLimit + 1
    BY <1>0, <2>a DEF Counted
  <2>2. hits' \in 0 .. RateLimit + 1 /\ timed' \in BOOLEAN
    BY <1>0, <2>b, <2>c, Zenon
  <2>3. blips' < MaxBlips
    BY <1>0, <2>1 DEF Blip, AnalysisTypeOK
  <2> QED BY <1>0, <1>at, <2>1, <2>2, <2>3, MoveKept DEF answerVars
<1>5. ASSUME Load(c) PROVE AInv'
  <2>0. click[c].at = "load" /\ UNCHANGED <<counterVars, answerVars, blips>>
    BY <1>5 DEF Load
  <2>1. CASE stored
    <3> DEFINE k == [click[c] EXCEPT !.sees = summary,
                                     !.at = IF click[c].kind = "ask" THEN "call" ELSE "cache"]
    <3>1. /\ k \in ClickRecord /\ k.sees = summary /\ k.kind = click[c].kind
          /\ k.at = IF click[c].kind = "ask" THEN "call" ELSE "cache"
      BY <1>0 DEF ClickRecord
    <3>2. To(k)
      BY <1>0, <1>5, <2>1 DEF Load, AnalysisTypeOK
    <3> HIDE DEF k
    <3>3. ~Unanswered /\ k.at \in {"cache", "call"} /\ k.kind = "analyze" /\ k.sees = 0
            => c \in Unaware
      BY <2>1, <3>1 DEF Unanswered
    <3> QED BY <1>0, <2>0, <3>1, <3>2, <3>3, MoveKept DEF counterVars, answerVars
  <2>2. CASE ~stored
    <3>1. End(c)
      BY <1>5, <2>2 DEF Load
    <3> QED BY <1>0, <2>0, <3>1, ClickEndKept DEF counterVars, answerVars
  <2> QED BY <2>1, <2>2
<1>6. ASSUME click[c].at = "cache", Miss(c), UNCHANGED <<counterVars, answerVars>>,
             blips' = blips \/ Blip
      PROVE  AInv'
  <2>1. CASE click[c].sees # 0
    <3> DEFINE k == [click[c] EXCEPT !.text = click[c].sees, !.at = "store"]
    <3>1. k \in ClickRecord /\ k.at = "store"
      BY <1>0 DEF ClickRecord
    <3>2. To(k)
      BY <1>0, <1>6, <2>1 DEF Miss, AnalysisTypeOK
    <3> HIDE DEF k
    <3> QED BY <1>0, <1>6, <3>1, <3>2, MoveKept DEF counterVars, answerVars
  <2>2. CASE click[c].sees = 0 /\ click[c].kind = "analyze"
    <3>1. GoTo(c, "call")
      BY <1>6, <2>2 DEF Miss
    <3>2. c \in Unaware
      BY <1>6, <2>2 DEF Unaware
    <3> QED BY <1>0, <1>6, <1>at, <2>2, <3>1, <3>2, MoveKept DEF counterVars, answerVars
  <2>3. CASE click[c].sees = 0 /\ click[c].kind # "analyze"
    <3>1. End(c)
      BY <1>6, <2>3 DEF Miss
    <3> QED BY <1>0, <1>6, <3>1, ClickEndKept DEF counterVars, answerVars
  <2> QED BY <2>1, <2>2, <2>3
<1>7. ASSUME ReadCache(c) PROVE AInv'
  <2>1. CASE kept # 0
    <3>1. End(c) /\ click[c].at = "cache" /\ UNCHANGED <<counterVars, answerVars, blips>>
      BY <1>7, <2>1 DEF ReadCache
    <3> QED BY <1>0, <3>1, ClickEndKept DEF counterVars, answerVars
  <2>2. CASE kept = 0
    BY <1>6, <1>7, <2>2 DEF ReadCache
  <2> QED BY <2>1, <2>2
<1>8. ASSUME ReadCacheFails(c) PROVE AInv'
  BY <1>6, <1>8 DEF ReadCacheFails
<1>9. ASSUME AnswerQuestion(c) \/ CallFails(c) PROVE AInv'
  <2>1. End(c) /\ click[c].at = "call" /\ UNCHANGED <<counterVars, answerVars, blips>>
    BY <1>9 DEF AnswerQuestion, CallFails
  <2> QED BY <1>0, <2>1, ClickEndKept DEF counterVars, answerVars
<1>10. ASSUME StoreAnswer(c) PROVE AInv'
  <2>1. /\ End(c) /\ click[c].at = "store" /\ kept' = click[c].text
        /\ UNCHANGED <<counterVars, stored, summary, paid, blips>>
    BY <1>10 DEF StoreAnswer
  <2>2. kept' \in Answers
    BY <1>0, <2>1 DEF ClickRecord
  <2> QED BY <1>0, <2>1, <2>2, ClickEndKept DEF counterVars
<1>11. ASSUME Die(c) PROVE AInv'
  <2>1. End(c) /\ Blip /\ UNCHANGED <<counterVars, answerVars>>
    BY <1>11 DEF Die
  <2>2. blips' < MaxBlips
    BY <1>0, <2>1 DEF Blip, AnalysisTypeOK
  <2> QED BY <1>0, <2>1, <2>2, ClickEndKept DEF counterVars, answerVars
<1> QED BY <1>1, <1>2, <1>3, <1>4, <1>5, <1>7, <1>8, <1>9, <1>10, <1>11

-----------------------------------------------------------------------------
\* A step after which no answer is wanted: those that were about to store one and those
\* that saw none are different clicks.
LEMMA AnswerFound ==
  ASSUME AInv, AnalysisTypeOK', UNCHANGED <<paid, blips>>, ~Unanswered', Unaware' \subseteq Unaware
  PROVE  PaidFor'
<1>1. AnalysisTypeOK /\ Lost' = Lost
  BY DEF AInv, Lost
<1>2. Cardinality(Unaware') <= Cardinality(Unaware) /\ Cardinality(Unaware') \in Nat
  BY <1>1, ClickCounts, FS_Subset, FS_CardinalityType
<1>3. paid + Cardinality(Unaware) <= Cardinality(Clicks) + Lost
  BY <1>1, ClickCounts DEF AInv, PaidFor
<1>4. paid' + Cardinality(Unaware') <= Cardinality(Clicks) + Lost'
  BY <1>1, <1>2, <1>3, ClickCounts
<1> QED BY <1>4 DEF PaidFor

\* The answer is paid by a click that now is about to store it.
LEMMA CallGeminiKept ==
  ASSUME AInv, NEW c \in Clicks, CallGemini(c)
  PROVE  AInv'
<1> DEFINE k == [click[c] EXCEPT !.text = paid', !.at = "commit"]
<1>0. /\ AnalysisTypeOK /\ click[c] \in ClickRecord
      /\ click[c].at = "call" /\ click[c].kind = "analyze" /\ click[c].sees = 0
      /\ paid \in Nat /\ paid' = paid + 1 /\ paid' \in Answers
      /\ UNCHANGED <<hits, timed, stored, summary, kept, blips>>
  BY AnalysisAssumption
     DEF AInv, AnalysisTypeOK, CallsAreNeeded, CallGemini, counterVars, ClickRecord, Answers
<1>1. k \in ClickRecord /\ k.at = "commit" /\ k.text = paid' /\ click' = [click EXCEPT ![c] = k]
  BY <1>0 DEF CallGemini, ClickRecord, AnalysisTypeOK
<1> HIDE DEF k
<1>2. /\ click' \in [Clicks -> ClickRecord] /\ click'[c] = k
      /\ \A d \in Clicks \ {c} : click'[d] = click[d]
  BY <1>0, <1>1, ClickFrame
<1>3. AnalysisTypeOK'
  BY <1>0, <1>2 DEF AnalysisTypeOK, ClickRecord
<1>4. CounterRunsOut'
  BY <1>0, <1>2 DEF AInv, CounterRunsOut
<1>5. CallsAreNeeded'
  BY <1>0, <1>1, <1>2 DEF AInv, CallsAreNeeded
<1>6. PaidFor'
  <2>1. Storing' = Storing \cup {c} /\ c \notin Storing
    BY <1>0, <1>1, <1>2 DEF Storing
  <2>2. Unaware' = Unaware \ {c} /\ c \in Unaware
    BY <1>0, <1>1, <1>2 DEF Unaware
  <2>3. Cardinality(Storing') = Cardinality(Storing) + 1
    BY <1>0, <2>1, ClickCounts, FS_AddElement
  <2>4. Cardinality(Unaware') = Cardinality(Unaware) - 1
    BY <1>0, <2>2, ClickCounts, RemoveOne
  <2>5. Unanswered' = Unanswered /\ Lost' = Lost
    BY <1>0 DEF Unanswered, Lost
  <2> QED BY <1>0, <2>3, <2>4, <2>5, ClickCounts DEF AInv, PaidFor
<1> QED BY <1>3, <1>4, <1>5, <1>6 DEF AInv

\* The summary is committed, or the incident is gone.
LEMMA CommitSummaryKept ==
  ASSUME AInv, NEW c \in Clicks, CommitSummary(c)
  PROVE  AInv'
<1> DEFINE k == [click[c] EXCEPT !.at = "store"]
<1>0. /\ AnalysisTypeOK /\ click[c] \in ClickRecord
      /\ click[c].at = "commit" /\ click[c].text # 0
      /\ UNCHANGED <<hits, timed, stored, kept, paid, blips>>
  BY DEF AInv, AnalysisTypeOK, CallsAreNeeded, CommitSummary, counterVars, ClickRecord
<1>1. CASE stored
  <2>1. /\ k \in ClickRecord /\ k.at = "store" /\ click' = [click EXCEPT ![c] = k]
        /\ summary' = click[c].text /\ summary' \in Answers
    BY <1>0, <1>1 DEF CommitSummary, GoTo, ClickRecord, AnalysisTypeOK
  <2> HIDE DEF k
  <2>2. /\ click' \in [Clicks -> ClickRecord] /\ click'[c] = k
        /\ \A d \in Clicks \ {c} : click'[d] = click[d]
    BY <1>0, <2>1, ClickFrame
  <2>3. AnalysisTypeOK'
    BY <1>0, <2>1, <2>2 DEF AnalysisTypeOK, ClickRecord
  <2>4. CounterRunsOut' /\ CallsAreNeeded'
    BY <1>0, <2>1, <2>2 DEF AInv, CounterRunsOut, CallsAreNeeded
  <2>5. ~Unanswered' /\ Unaware' \subseteq Unaware
    BY <1>0, <2>1, <2>2 DEF Unanswered, Unaware
  <2>6. PaidFor'
    BY <1>0, <2>3, <2>5, AnswerFound
  <2> QED BY <2>3, <2>4, <2>6 DEF AInv
<1>2. CASE ~stored
  <2>1. End(c) /\ UNCHANGED <<stored, summary, paid>>
    BY <1>0, <1>2 DEF CommitSummary
  <2>2. kept' \in Answers /\ hits' \in 0 .. RateLimit + 1
    BY <1>0 DEF AnalysisTypeOK
  <2> QED BY <1>0, <1>2, <2>1, <2>2, ClickEndKept DEF Unanswered
<1> QED BY <1>1, <1>2

\* The steps of nobody's click, and none at all.
LEMMA OthersKept ==
  ASSUME AInv, \/ ExpireCounter \/ ExpireAnswer \/ RemoveIncident \/ UNCHANGED analysisVars
  PROVE  AInv'
<1>0. AnalysisTypeOK /\ UNCHANGED <<summary, paid, click, blips>>
  BY DEF AInv, ExpireCounter, ExpireAnswer, RemoveIncident, analysisVars, answerVars
<1>1. /\ hits' \in {0, hits} /\ timed' \in {FALSE, timed} /\ kept' \in {0, kept}
      /\ stored' \in {FALSE, stored}
  BY DEF ExpireCounter, ExpireAnswer, RemoveIncident, analysisVars, answerVars, counterVars
<1>2. timed' \in BOOLEAN /\ stored' \in BOOLEAN
  BY <1>0, <1>1, Zenon DEF AnalysisTypeOK
<1>3. hits' \in 0 .. RateLimit + 1 /\ kept' \in Answers
  BY <1>0, <1>1, AnalysisAssumption DEF AnalysisTypeOK, Answers
<1>4. AnalysisTypeOK'
  BY <1>0, <1>2, <1>3 DEF AnalysisTypeOK
<1>5. CounterRunsOut'
  BY <1>0 DEF AInv, CounterRunsOut, ExpireCounter, ExpireAnswer, RemoveIncident, analysisVars,
     counterVars, answerVars
<1>6. CallsAreNeeded'
  BY <1>0 DEF AInv, CallsAreNeeded
<1>7. Storing' = Storing /\ Unaware' = Unaware
  BY <1>0 DEF Storing, Unaware
<1>8. PaidFor'
  <2>1. CASE stored' = stored
    BY <1>0, <1>4, <1>7, <2>1, PaidKept, AnalysisAssumption DEF AnalysisTypeOK
  <2>2. CASE stored' # stored
    BY <1>0, <1>1, <1>4, <1>7, <2>2, AnswerFound DEF Unanswered
  <2> QED BY <2>1, <2>2
<1> QED BY <1>4, <1>5, <1>6, <1>8 DEF AInv

LEMMA AInvStep == AInv /\ [AnalysisNext]_analysisVars => AInv'
<1> SUFFICES ASSUME AInv, [AnalysisNext]_analysisVars PROVE AInv'
  OBVIOUS
<1>1. CASE ExpireCounter \/ ExpireAnswer \/ RemoveIncident \/ UNCHANGED analysisVars
  BY <1>1, OthersKept
<1>2. ASSUME NEW c \in Clicks, CallGemini(c) \/ CommitSummary(c) PROVE AInv'
  BY <1>2, CallGeminiKept, CommitSummaryKept
<1>3. ASSUME NEW c \in Clicks,
             \/ \E kind \in Kinds : Ask(c, kind)
             \/ CountHit(c) \/ SetTtl(c) \/ CountFails(c) \/ Load(c) \/ ReadCache(c)
             \/ ReadCacheFails(c) \/ AnswerQuestion(c) \/ CallFails(c) \/ StoreAnswer(c) \/ Die(c)
      PROVE  AInv'
  BY <1>3, ClickStep
<1> QED BY <1>1, <1>2, <1>3 DEF AnalysisNext

-----------------------------------------------------------------------------
\* The types, the counter's TTL and the account of what was paid hold together in every
\* state of the AI analysis (rate_limit.py:26, incidents.py:144).
THEOREM AnalysisInvariant == AnalysisSpec => []AInv
<1>1. AnalysisInit => AInv
  BY AnalysisInitAInv
<1>2. AInv /\ [AnalysisNext]_analysisVars => AInv'
  BY AInvStep
<1> QED BY <1>1, <1>2, PTL DEF AnalysisSpec

\* The counter of a user runs out (rate_limit.py:26-28), however many of his requests
\* overlap: INCR and EXPIRE are two commands, but the one that started it sets the TTL.
THEOREM CounterRunsOutHolds == AnalysisSpec => []CounterRunsOut
<1>1. AInv => CounterRunsOut
  BY DEF AInv
<1> QED BY <1>1, AnalysisInvariant, PTL

\* What Gemini is paid for one incident is bounded by the clicks that overlap and the
\* requests that are lost, not by how often the user clicks (incidents.py:132-150).
THEOREM RepeatClicksAreFreeHolds == AnalysisSpec => []RepeatClicksAreFree
<1>1. ASSUME AInv PROVE RepeatClicksAreFree
  <2>1. AnalysisTypeOK /\ PaidFor
    BY <1>1 DEF AInv
  <2>2. paid <= Cardinality(Clicks) + Lost
    BY <2>1, ClickCounts DEF PaidFor
  <2> QED BY <2>2 DEF RepeatClicksAreFree, Lost
<1> QED BY <1>1, AnalysisInvariant, PTL

-----------------------------------------------------------------------------
(* Export.                                                                  *)

\* Of a finite set, the members above and below r; the n greatest.
Above(S, r) == {q \in S : q > r}
Below(S, r) == {q \in S : q < r}
Top(S, n) == {r \in S : Cardinality(Above(S, r)) < n}
Chunk(S, n, c) == Top(S, n + c) \ Top(S, n)

\* A row is in neither what is above nor what is below it, and both shrink with it.
LEMMA Around ==
  ASSUME NEW S \in SUBSET Nat, IsFiniteSet(S), NEW r \in S
  PROVE  /\ Above(S, r) \in FiniteSubsetsOf(S) /\ Below(S, r) \in FiniteSubsetsOf(S)
         /\ r \notin Above(S, r) /\ r \notin Below(S, r)
         /\ \A q \in S : q > r => Above(S, q) \subseteq Above(S, r)
         /\ \A q \in S : q < r => Below(S, q) \subseteq Below(S, r)
<1>1. \A q \in S : q \in Nat
  OBVIOUS
<1>2. Above(S, r) \in SUBSET S /\ Below(S, r) \in SUBSET S
  BY DEF Above, Below
<1>3. IsFiniteSet(Above(S, r)) /\ IsFiniteSet(Below(S, r))
  BY <1>2, FS_Subset
<1>4. /\ r \notin Above(S, r) /\ r \notin Below(S, r)
      /\ \A q \in S : q > r => Above(S, q) \subseteq Above(S, r)
      /\ \A q \in S : q < r => Below(S, q) \subseteq Below(S, r)
  <2>1. \A p, q \in S : /\ ~(q > q) /\ ~(q < q)
                        /\ p > q /\ q > r => p > r
                        /\ p < q /\ q < r => p < r
    BY <1>1
  <2> QED BY <2>1 DEF Above, Below
<1> QED BY <1>2, <1>3, <1>4 DEF FiniteSubsetsOf

\* A finite set of numbers has a greatest and a least one.
LEMMA Extremes ==
  ASSUME NEW S \in SUBSET Nat, IsFiniteSet(S), S # {}
  PROVE  /\ \E m \in S : \A q \in S : q <= m
         /\ \E m \in S : \A q \in S : m <= q
<1>0. \A q \in S : q \in Nat
  OBVIOUS
<1>1. IsWellFoundedOn(StrictSubsetOrdering(S), FiniteSubsetsOf(S))
  BY FS_StrictSubsetOrderingWellFounded
<1>2. \E m \in S : \A q \in S : q <= m
  <2> DEFINE F == {Above(S, r) : r \in S}
  <2>0. \A r \in S : Above(S, r) \in FiniteSubsetsOf(S)
    BY Around
  <2>1. F \subseteq FiniteSubsetsOf(S) /\ F # {}
    BY <2>0
  <2>2. PICK x \in F : \A y \in F : ~(<<y, x>> \in StrictSubsetOrdering(S))
    BY <1>1, <2>1, WFMin, Zenon
  <2>3. PICK m \in S : x = Above(S, m)
    BY <2>2
  <2>4. ASSUME NEW q \in S, q > m PROVE FALSE
    <3>1. /\ Above(S, q) \subseteq Above(S, m) /\ q \in Above(S, m) /\ q \notin Above(S, q)
          /\ Above(S, q) \in SUBSET S /\ Above(S, m) \in SUBSET S
      BY <2>4, Around DEF Above
    <3>2. <<Above(S, q), Above(S, m)>> \in StrictSubsetOrdering(S)
      BY <3>1 DEF StrictSubsetOrdering
    <3> QED BY <2>2, <2>3, <3>2
  <2> QED BY <1>0, <2>4
<1>3. \E m \in S : \A q \in S : m <= q
  <2> DEFINE F == {Below(S, r) : r \in S}
  <2>0. \A r \in S : Below(S, r) \in FiniteSubsetsOf(S)
    BY Around
  <2>1. F \subseteq FiniteSubsetsOf(S) /\ F # {}
    BY <2>0
  <2>2. PICK x \in F : \A y \in F : ~(<<y, x>> \in StrictSubsetOrdering(S))
    BY <1>1, <2>1, WFMin, Zenon
  <2>3. PICK m \in S : x = Below(S, m)
    BY <2>2
  <2>4. ASSUME NEW q \in S, q < m PROVE FALSE
    <3>1. /\ Below(S, q) \subseteq Below(S, m) /\ q \in Below(S, m) /\ q \notin Below(S, q)
          /\ Below(S, q) \in SUBSET S /\ Below(S, m) \in SUBSET S
      BY <2>4, Around DEF Below
    <3>2. <<Below(S, q), Below(S, m)>> \in StrictSubsetOrdering(S)
      BY <3>1 DEF StrictSubsetOrdering
    <3> QED BY <2>2, <2>3, <3>2
  <2> QED BY <1>0, <2>4
<1> QED BY <1>2, <1>3

\* The n greatest are at most n, fewer only when there are no more; none of them is below
\* one that is not among them.
LEMMA TopCounts ==
  ASSUME NEW S \in SUBSET Nat, IsFiniteSet(S), NEW n \in Nat
  PROVE  /\ Top(S, n) \in SUBSET S /\ IsFiniteSet(Top(S, n))
         /\ Cardinality(Top(S, n)) \in Nat /\ Cardinality(Top(S, n)) <= n
         /\ Top(S, n) # S => Cardinality(Top(S, n)) = n
         /\ \A r \in Top(S, n), q \in S \ Top(S, n) : r > q
<1>0. \A q \in S : q \in Nat
  OBVIOUS
<1>1. Top(S, n) \in SUBSET S
  BY DEF Top
<1>2. IsFiniteSet(Top(S, n)) /\ Cardinality(Top(S, n)) \in Nat
  BY <1>1, FS_Subset, FS_CardinalityType
<1>3. \A r \in S : IsFiniteSet(Above(S, r)) /\ Cardinality(Above(S, r)) \in Nat
  BY Around, FS_CardinalityType DEF FiniteSubsetsOf
<1>4. ASSUME NEW r \in Top(S, n), NEW q \in S \ Top(S, n) PROVE r > q
  <2> SUFFICES ASSUME ~(r > q) PROVE FALSE
    OBVIOUS
  <2>0. r \in S /\ q \in S /\ r # q
    BY <1>1, <1>4
  <2>1. r \in S /\ q > r
    BY <1>0, <2>0
  <2>2. Above(S, q) \in SUBSET Above(S, r)
    BY <2>1, Around
  <2>3. Cardinality(Above(S, q)) <= Cardinality(Above(S, r))
    BY <1>3, <2>1, <2>2, FS_Subset
  <2> QED BY <1>3, <2>1, <2>3 DEF Top
<1>5. Cardinality(Top(S, n)) <= n
  <2>1. CASE Top(S, n) = {}
    BY <2>1, FS_EmptySet
  <2>2. CASE Top(S, n) # {}
    <3>1. PICK m \in Top(S, n) : \A q \in Top(S, n) : m <= q
      BY <1>1, <1>2, <2>2, Extremes
    <3>2. m \in S /\ Top(S, n) \ {m} \in SUBSET Above(S, m)
      <4>1. \A q \in Top(S, n) : q \in Nat /\ m \in Nat
        BY <1>0, <1>1
      <4>2. \A q \in Top(S, n) \ {m} : q > m
        BY <3>1, <4>1
      <4> QED BY <1>1, <4>2 DEF Above
    <3>3. Cardinality(Top(S, n) \ {m}) <= Cardinality(Above(S, m))
      BY <1>3, <3>2, FS_Subset
    <3>4. Cardinality(Top(S, n) \ {m}) = Cardinality(Top(S, n)) - 1
      BY <1>2, FS_RemoveElement
    <3>5. Cardinality(Above(S, m)) < n
      BY DEF Top
    <3> QED BY <1>2, <1>3, <3>2, <3>3, <3>4, <3>5
  <2> QED BY <2>1, <2>2
<1>6. ASSUME Top(S, n) # S PROVE Cardinality(Top(S, n)) >= n
  <2> DEFINE R == S \ Top(S, n)
  <2>1. R # {} /\ R \in SUBSET S
    BY <1>1, <1>6
  <2>2. R \in SUBSET Nat /\ IsFiniteSet(R)
    BY <2>1, FS_Subset
  <2>3. PICK m \in R : \A q \in R : q <= m
    BY <2>1, <2>2, Extremes
  <2>4. Above(S, m) \in SUBSET Top(S, n)
    <3>1. \A q \in S : q \in Nat /\ m \in Nat
      BY <1>0, <2>1
    <3>2. \A q \in R : ~(q > m)
      BY <2>3, <3>1
    <3> QED BY <3>2 DEF Above
  <2>5. Cardinality(Above(S, m)) <= Cardinality(Top(S, n))
    BY <1>2, <2>4, FS_Subset
  <2>6. m \in S /\ ~(Cardinality(Above(S, m)) < n)
    BY <2>1 DEF Top
  <2> QED BY <1>2, <1>3, <2>5, <2>6
<1> QED BY <1>1, <1>2, <1>4, <1>5, <1>6

\* The pages asked for before a whole number of chunks.
LEMMA Pages ==
  ASSUME NEW k \in Nat, NEW c \in Nat \ {0}
  PROVE  ((k * c) \div c) * c = k * c
OBVIOUS

-----------------------------------------------------------------------------
\* Of the rows A that are to be sent, those that are gone or that an offset of n passes over.
MissedOf(S, A, n) == {r \in A : r \in S => r \in Top(S, n)}

\* The rows that were not there, before one that was.
LaterOf(S, must) == {q \in S \ must : \E r \in must : q > r}

Missed == MissedOf(rows, export.must \ export.seen, export.lines)

EInv ==
  /\ ExportTypeOK /\ came + moves <= MaxMoves /\ ExportAccountsForAll
  /\ export.at = "idle" => export.seen = {} /\ export.lines = 0
  /\ export.at = "open" =>
       /\ Cardinality(export.must) <= MaxExport
       /\ Cardinality(Missed) <= left /\ Cardinality(LaterOf(rows, export.must)) <= came
       /\ what = "checks" => \E k \in Nat : export.lines = k * ChunkSize

Exports == [at : {"idle", "open", "done"}, must : SUBSET Rows, seen : SUBSET Rows,
            lines : 0 .. MaxExport]

\* A set of rows is finite, so that it can be counted.
LEMMA RowSets ==
  ASSUME NEW S \in SUBSET Rows
  PROVE  S \in SUBSET Nat /\ IsFiniteSet(S) /\ Cardinality(S) \in Nat
<1>1. Rows \in SUBSET Nat /\ IsFiniteSet(Rows)
  BY ExportAssumption, FS_Interval DEF Rows
<1> QED BY <1>1, FS_Subset, FS_CardinalityType

\* A union has at most as many members as its parts together.
LEMMA UnionBound ==
  ASSUME NEW X, NEW Y, IsFiniteSet(X), IsFiniteSet(Y)
  PROVE  /\ IsFiniteSet(X \cup Y) /\ Cardinality(X \cup Y) \in Nat
         /\ Cardinality(X \cup Y) <= Cardinality(X) + Cardinality(Y)
<1>1. /\ Cardinality(X) \in Nat /\ Cardinality(Y) \in Nat
      /\ IsFiniteSet(X \cap Y) /\ Cardinality(X \cap Y) \in Nat
  BY FS_CardinalityType, FS_Intersection
<1>2. /\ IsFiniteSet(X \cup Y)
      /\ Cardinality(X \cup Y) = Cardinality(X) + Cardinality(Y) - Cardinality(X \cap Y)
  BY FS_Union
<1>3. Cardinality(X \cup Y) \in Nat
  BY <1>2, FS_CardinalityType
<1> QED BY <1>1, <1>2, <1>3

\* One row more: what was passed over is not more, what was not there is at most the row.
LEMMA ComeCounts ==
  ASSUME NEW S \in SUBSET Rows, NEW r \in Rows, r \notin S, NEW A \in SUBSET Rows,
         NEW must \in SUBSET Rows, NEW n \in Nat
  PROVE  /\ Cardinality(MissedOf(S \cup {r}, A, n)) <= Cardinality(MissedOf(S, A, n))
         /\ Cardinality(LaterOf(S \cup {r}, must)) <= Cardinality(LaterOf(S, must)) + 1
<1>1. /\ MissedOf(S, A, n) \in SUBSET Rows /\ LaterOf(S, must) \in SUBSET Rows
      /\ S \cup {r} \in SUBSET Rows
  BY DEF MissedOf, LaterOf
<1>2. ASSUME NEW q \in S, q \in Top(S \cup {r}, n) PROVE q \in Top(S, n)
  <2>1. Above(S, q) \in SUBSET Above(S \cup {r}, q) /\ Above(S \cup {r}, q) \in SUBSET Rows
    BY <1>1 DEF Above
  <2>2. Cardinality(Above(S, q)) <= Cardinality(Above(S \cup {r}, q))
    BY <2>1, RowSets, FS_Subset
  <2>3. Above(S, q) \in SUBSET Rows
    BY <2>1
  <2>4. Cardinality(Above(S, q)) \in Nat /\ Cardinality(Above(S \cup {r}, q)) \in Nat
    BY <2>1, <2>3, RowSets
  <2>5. Cardinality(Above(S \cup {r}, q)) < n
    BY <1>2 DEF Top
  <2> QED BY <2>2, <2>4, <2>5 DEF Top
<1>3. MissedOf(S \cup {r}, A, n) \in SUBSET MissedOf(S, A, n)
  BY <1>2 DEF MissedOf
<1>4. LaterOf(S \cup {r}, must) \in SUBSET (LaterOf(S, must) \cup {r})
  BY DEF LaterOf
<1>5. Cardinality(MissedOf(S \cup {r}, A, n)) <= Cardinality(MissedOf(S, A, n))
  BY <1>1, <1>3, RowSets, FS_Subset
<1>6. /\ IsFiniteSet(LaterOf(S, must) \cup {r})
      /\ Cardinality(LaterOf(S, must) \cup {r}) <= Cardinality(LaterOf(S, must)) + 1
      /\ Cardinality(LaterOf(S, must) \cup {r}) \in Nat /\ Cardinality(LaterOf(S, must)) \in Nat
  <2>1. IsFiniteSet(LaterOf(S, must)) /\ Cardinality(LaterOf(S, must)) \in Nat
    BY <1>1, RowSets
  <2>2. /\ IsFiniteSet(LaterOf(S, must) \cup {r})
        /\ Cardinality(LaterOf(S, must) \cup {r})
             = IF r \in LaterOf(S, must) THEN Cardinality(LaterOf(S, must))
               ELSE Cardinality(LaterOf(S, must)) + 1
    BY <2>1, FS_AddElement, Zenon
  <2> QED BY <2>1, <2>2
<1>7. /\ Cardinality(LaterOf(S \cup {r}, must)) <= Cardinality(LaterOf(S, must) \cup {r})
      /\ Cardinality(LaterOf(S \cup {r}, must)) \in Nat
  BY <1>4, <1>6, FS_Subset, FS_CardinalityType
<1> QED BY <1>5, <1>6, <1>7

\* Some rows fewer: no more are passed over than went, the n greatest having made room for
\* as many as went from among them.
LEMMA GoCounts ==
  ASSUME NEW S \in SUBSET Rows, NEW gone \in SUBSET S, NEW A \in SUBSET Rows,
         NEW must \in SUBSET Rows, NEW n \in Nat
  PROVE  /\ Cardinality(MissedOf(S \ gone, A, n))
              <= Cardinality(MissedOf(S, A, n)) + Cardinality(gone)
         /\ Cardinality(LaterOf(S \ gone, must)) <= Cardinality(LaterOf(S, must))
<1> DEFINE T == Top(S, n)
           U == Top(S \ gone, n)
           M == MissedOf(S, A, n)
           N == MissedOf(S \ gone, A, n)
<1>1. /\ S \ gone \in SUBSET Rows /\ gone \in SUBSET Rows /\ LaterOf(S, must) \in SUBSET Rows
      /\ M \in SUBSET Rows /\ N \in SUBSET Rows
  BY DEF MissedOf, LaterOf
<1>2. Cardinality(LaterOf(S \ gone, must)) <= Cardinality(LaterOf(S, must))
  <2>1. LaterOf(S \ gone, must) \in SUBSET LaterOf(S, must)
    BY DEF LaterOf
  <2> QED BY <1>1, <2>1, RowSets, FS_Subset
<1>3. T \ gone \in SUBSET U
  <2> SUFFICES ASSUME NEW q \in T \ gone PROVE q \in U
    OBVIOUS
  <2>1. q \in S /\ Cardinality(Above(S, q)) < n
    BY DEF Top
  <2>2. Above(S \ gone, q) \in SUBSET Above(S, q) /\ Above(S, q) \in SUBSET Rows
    BY DEF Above
  <2>3. /\ Cardinality(Above(S \ gone, q)) <= Cardinality(Above(S, q))
        /\ Cardinality(Above(S, q)) \in Nat
    BY <2>2, RowSets, FS_Subset
  <2>4. Above(S \ gone, q) \in SUBSET Rows
    BY <2>2
  <2>5. Cardinality(Above(S \ gone, q)) \in Nat
    BY <2>4, RowSets
  <2> QED BY <2>1, <2>3, <2>5 DEF Top
<1>4. /\ T \in SUBSET S /\ IsFiniteSet(T) /\ Cardinality(T) \in Nat
      /\ T # S => Cardinality(T) = n
      /\ U \in SUBSET (S \ gone) /\ IsFiniteSet(U) /\ Cardinality(U) \in Nat /\ Cardinality(U) <= n
  BY <1>1, RowSets, TopCounts
<1> HIDE DEF T, U
<1>5. Cardinality(U \ T) <= Cardinality(gone \cap T)
  <2>1. CASE T = S
    <3>1. U \ T = {}
      BY <1>4, <2>1
    <3>2. gone \cap T \in SUBSET Rows
      BY <1>1
    <3> QED BY <3>1, <3>2, FS_EmptySet, RowSets
  <2>2. CASE T # S
    <3>1. U \cap T = T \ gone /\ T \cap gone = gone \cap T
      BY <1>3, <1>4
    <3>2. Cardinality(U \ T) = Cardinality(U) - Cardinality(U \cap T)
      BY <1>4, FS_Difference
    <3>3. Cardinality(T \ gone) = Cardinality(T) - Cardinality(T \cap gone)
      BY <1>4, FS_Difference
    <3>4. gone \cap T \in SUBSET Rows
      BY <1>1
    <3>5. Cardinality(gone \cap T) \in Nat
      BY <3>4, RowSets
    <3>6. Cardinality(U \ T) = Cardinality(U) - (Cardinality(T) - Cardinality(gone \cap T))
      BY <3>1, <3>2, <3>3
    <3>7. Cardinality(T) = n
      BY <1>4, <2>2
    <3>8. Cardinality(U) \in Nat /\ Cardinality(U) <= n
      BY <1>4
    <3> QED BY <3>5, <3>6, <3>7, <3>8
  <2> QED BY <2>1, <2>2
<1>6. N \in SUBSET (M \cup ((gone \ T) \cup (U \ T)))
  BY DEF MissedOf, T, U
<1> HIDE DEF M, N
<1>7. /\ IsFiniteSet(M) /\ IsFiniteSet(gone \ T) /\ IsFiniteSet(U \ T)
      /\ Cardinality(M) \in Nat /\ Cardinality(gone \ T) \in Nat /\ Cardinality(U \ T) \in Nat
  <2>1. gone \ T \in SUBSET Rows /\ U \ T \in SUBSET Rows
    BY <1>1, <1>4
  <2> QED BY <1>1, <2>1, RowSets
<1>8. Cardinality(gone \ T) = Cardinality(gone) - Cardinality(gone \cap T)
  <2>1. IsFiniteSet(gone)
    BY <1>1, RowSets
  <2> QED BY <2>1, FS_Difference
<1>9. /\ IsFiniteSet((gone \ T) \cup (U \ T)) /\ Cardinality((gone \ T) \cup (U \ T)) \in Nat
       /\ Cardinality((gone \ T) \cup (U \ T)) <= Cardinality(gone \ T) + Cardinality(U \ T)
  BY <1>7, UnionBound
<1>10. /\ IsFiniteSet(M \cup ((gone \ T) \cup (U \ T)))
       /\ Cardinality(M \cup ((gone \ T) \cup (U \ T))) \in Nat
       /\ Cardinality(M \cup ((gone \ T) \cup (U \ T)))
            <= Cardinality(M) + Cardinality((gone \ T) \cup (U \ T))
  BY <1>7, <1>9, UnionBound
<1>11. /\ Cardinality(N) <= Cardinality(M \cup ((gone \ T) \cup (U \ T)))
       /\ Cardinality(N) \in Nat
  BY <1>6, <1>10, FS_Subset, FS_CardinalityType
<1>12. Cardinality(gone) \in Nat /\ Cardinality(gone \cap T) \in Nat
  <2>1. gone \cap T \in SUBSET Rows
    BY <1>1
  <2> QED BY <1>1, <2>1, RowSets
<1>13. Cardinality(N) <= Cardinality(M) + Cardinality(gone)
  BY <1>5, <1>7, <1>8, <1>9, <1>10, <1>11, <1>12
<1> QED BY <1>2, <1>13 DEF M, N

\* A chunk after the n greatest is full, or it is all that is left.
LEMMA ChunkCounts ==
  ASSUME NEW S \in SUBSET Rows, NEW n \in Nat, NEW c \in Nat
  PROVE  /\ Chunk(S, n, c) \in SUBSET S /\ Cardinality(Chunk(S, n, c)) \in Nat
         /\ Cardinality(Chunk(S, n, c)) <= c
         /\ Cardinality(Chunk(S, n, c)) < c => Chunk(S, n, c) = S \ Top(S, n)
         /\ Top(S, n + c) = Top(S, n) \cup Chunk(S, n, c)
<1> DEFINE chunk == Chunk(S, n, c)
<1>0. chunk = Top(S, n + c) \ Top(S, n)
  BY DEF Chunk
<1> HIDE DEF chunk
<1>1. /\ Top(S, n) \in SUBSET S /\ IsFiniteSet(Top(S, n)) /\ Cardinality(Top(S, n)) \in Nat
      /\ Top(S, n) # S => Cardinality(Top(S, n)) = n
  BY RowSets, TopCounts
<1>2. /\ Top(S, n + c) \in SUBSET S /\ IsFiniteSet(Top(S, n + c))
      /\ Cardinality(Top(S, n + c)) \in Nat /\ Cardinality(Top(S, n + c)) <= n + c
      /\ Top(S, n + c) # S => Cardinality(Top(S, n + c)) = n + c
  <2>1. n + c \in Nat
    OBVIOUS
  <2> QED BY <2>1, RowSets, TopCounts
<1>3. Top(S, n) \in SUBSET Top(S, n + c)
  <2> SUFFICES ASSUME NEW r \in Top(S, n) PROVE r \in Top(S, n + c)
    OBVIOUS
  <2>1. r \in S /\ Cardinality(Above(S, r)) < n /\ Above(S, r) \in SUBSET Rows
    BY DEF Top, Above
  <2>2. Cardinality(Above(S, r)) \in Nat
    BY <2>1, RowSets
  <2>3. Cardinality(Above(S, r)) < n + c
    BY <2>1, <2>2
  <2> QED BY <2>1, <2>3 DEF Top
<1>4. chunk \in SUBSET S /\ chunk \in SUBSET Rows /\ Top(S, n + c) = Top(S, n) \cup chunk
  BY <1>0, <1>2, <1>3
<1>5. Cardinality(chunk) \in Nat
  BY <1>4, RowSets
<1>6. Cardinality(chunk) = Cardinality(Top(S, n + c)) - Cardinality(Top(S, n))
  <2>1. Top(S, n + c) \cap Top(S, n) = Top(S, n)
    BY <1>3
  <2>2. Cardinality(Top(S, n + c) \ Top(S, n))
          = Cardinality(Top(S, n + c)) - Cardinality(Top(S, n + c) \cap Top(S, n))
    BY <1>2, FS_Difference
  <2> QED BY <1>0, <2>1, <2>2
<1>7. CASE Top(S, n) = S
  <2>1. chunk = {} /\ chunk = S \ Top(S, n)
    BY <1>0, <1>2, <1>7
  <2>2. Cardinality(chunk) = 0
    BY <2>1, FS_EmptySet
  <2>3. Cardinality(chunk) \in Nat /\ Cardinality(chunk) <= c
    BY <2>2
  <2> QED BY <1>4, <2>1, <2>3 DEF chunk
<1>8. CASE Top(S, n) # S
  <2>1. Cardinality(chunk) = Cardinality(Top(S, n + c)) - n
    BY <1>1, <1>6, <1>8
  <2>2. Cardinality(chunk) <= c
    BY <1>2, <2>1
  <2>3. Cardinality(chunk) < c => Cardinality(Top(S, n + c)) # n + c
    BY <1>2, <2>1
  <2>4. Cardinality(chunk) < c => chunk = S \ Top(S, n)
    BY <1>0, <1>2, <2>3
  <2> QED BY <1>4, <1>5, <2>2, <2>4 DEF chunk
<1> QED BY <1>7, <1>8

\* What a last chunk, cut to k, leaves out is below all that it and those before it passed.
LEMMA LeftOut ==
  ASSUME NEW S \in SUBSET Rows, NEW n \in Nat, NEW k \in Nat, NEW c \in Nat,
         Cardinality(Top(Chunk(S, n, c), k)) < c,
         Top(S, n) \cup Top(Chunk(S, n, c), k) # S
  PROVE  /\ Cardinality(Top(Chunk(S, n, c), k)) = k
         /\ Top(S, n) \cup Top(Chunk(S, n, c), k) \in SUBSET S
         /\ Cardinality(Top(S, n) \cup Top(Chunk(S, n, c), k)) = n + k
         /\ \A u \in Top(S, n) \cup Top(Chunk(S, n, c), k),
               d \in S \ (Top(S, n) \cup Top(Chunk(S, n, c), k)) : u > d
<1> DEFINE chunk == Chunk(S, n, c)
           sent == Top(chunk, k)
           U == Top(S, n) \cup sent
<1>1. /\ chunk \in SUBSET S /\ Cardinality(chunk) \in Nat
      /\ Cardinality(chunk) < c => chunk = S \ Top(S, n)
      /\ Top(S, n + c) = Top(S, n) \cup chunk
  BY ChunkCounts
<1>2. /\ Top(S, n) \in SUBSET S /\ IsFiniteSet(Top(S, n))
      /\ Top(S, n) # S => Cardinality(Top(S, n)) = n
      /\ \A u \in Top(S, n), d \in S \ Top(S, n) : u > d
  BY RowSets, TopCounts
<1>3. \A u \in Top(S, n + c), d \in S \ Top(S, n + c) : u > d
  <2>1. n + c \in Nat
    OBVIOUS
  <2> QED BY <2>1, RowSets, TopCounts
<1>4. /\ sent \in SUBSET chunk /\ IsFiniteSet(sent) /\ Cardinality(sent) \in Nat
      /\ sent # chunk => Cardinality(sent) = k
      /\ \A u \in sent, d \in chunk \ sent : u > d
  <2>1. chunk \in SUBSET Rows
    BY <1>1
  <2>2. chunk \in SUBSET Nat /\ IsFiniteSet(chunk)
    BY <2>1, RowSets
  <2> QED BY <2>2, TopCounts
<1>5. Top(S, n) \cap sent = {}
  BY <1>4 DEF Chunk
<1>6. Cardinality(sent) < c /\ U # S
  OBVIOUS
<1> HIDE DEF chunk, sent
<1>7. sent # chunk
  BY <1>1, <1>2, <1>6
<1>8. Top(S, n) # S /\ U \in SUBSET S
  BY <1>1, <1>2, <1>4, <1>6
<1>9. Cardinality(U) = n + k
  <2>1. Cardinality(U) = Cardinality(Top(S, n)) + Cardinality(sent)
                           - Cardinality(Top(S, n) \cap sent)
    BY <1>2, <1>4, FS_Union
  <2>2. Cardinality(Top(S, n) \cap sent) = 0
    BY <1>5, FS_EmptySet
  <2>3. Cardinality(Top(S, n)) = n /\ Cardinality(sent) = k
    BY <1>2, <1>4, <1>7, <1>8
  <2> QED BY <2>1, <2>2, <2>3
<1>10. ASSUME NEW u \in U, NEW d \in S \ U PROVE u > d
  <2>1. CASE u \in Top(S, n)
    BY <1>2, <1>10, <2>1
  <2>2. CASE u \in sent /\ d \in chunk
    BY <1>4, <1>10, <2>2
  <2>3. CASE u \in sent /\ d \notin chunk
    BY <1>1, <1>3, <1>4, <1>10, <2>3
  <2> QED BY <2>1, <2>2, <2>3
<1> QED BY <1>4, <1>7, <1>8, <1>9, <1>10 DEF chunk, sent

\* Nothing is among the 0 greatest.
LEMMA TopOfNone ==
  ASSUME NEW S \in SUBSET Rows
  PROVE  Top(S, 0) = {}
<1>1. \A r \in S : Above(S, r) \in SUBSET Rows
  BY DEF Above
<1>2. \A r \in S : Cardinality(Above(S, r)) \in Nat
  BY <1>1, RowSets
<1> QED BY <1>2 DEF Top

\* Of m rows that were to be sent, no more are below the m that were passed than there are
\* rows that came before them.
LEMMA PushedOut ==
  ASSUME NEW S \in SUBSET Rows, NEW must \in SUBSET Rows, NEW m \in Nat, NEW U \in SUBSET S,
         Cardinality(U) = m, Cardinality(must) <= m, \A u \in U, d \in S \ U : u > d,
         NEW c \in Nat, Cardinality(LaterOf(S, must)) <= c
  PROVE  Cardinality((must \cap S) \ U) <= c
<1> DEFINE D == (must \cap S) \ U
<1>1. CASE D = {}
  BY <1>1, FS_EmptySet
<1>2. CASE D # {}
  <2>1. PICK d \in D : TRUE
    BY <1>2
  <2>2. U \ must \in SUBSET LaterOf(S, must) /\ LaterOf(S, must) \in SUBSET Rows
    BY <2>1 DEF LaterOf
  <2>3. /\ Cardinality(U \ must) <= Cardinality(LaterOf(S, must))
        /\ Cardinality(U \ must) \in Nat /\ Cardinality(LaterOf(S, must)) \in Nat
    <3>1. U \ must \in SUBSET Rows
      OBVIOUS
    <3> QED BY <2>2, <3>1, RowSets, FS_Subset
  <2>4. D \in SUBSET (must \ U) /\ must \ U \in SUBSET Rows /\ U \in SUBSET Rows
        /\ U \cap must \in SUBSET Rows /\ D \in SUBSET Rows /\ U \cap must = must \cap U
    OBVIOUS
  <2>5. Cardinality(D) <= Cardinality(must \ U)
    BY <2>4, RowSets, FS_Subset
  <2>6. Cardinality(must \ U) = Cardinality(must) - Cardinality(U \cap must)
    BY <2>4, RowSets, FS_Difference
  <2>7. Cardinality(U \ must) = m - Cardinality(U \cap must)
    BY <2>4, RowSets, FS_Difference
  <2>8. /\ Cardinality(D) \in Nat /\ Cardinality(U \cap must) \in Nat /\ Cardinality(must) \in Nat
        /\ Cardinality(must \ U) \in Nat
    BY <2>4, RowSets
  <2> HIDE DEF D
  <2>9. Cardinality(D) <= c
    BY <2>3, <2>5, <2>6, <2>7, <2>8
  <2> QED BY <2>9 DEF D
<1> QED BY <1>1, <1>2

-----------------------------------------------------------------------------
\* What the invariant of the exports says of the values.
LEMMA ExportFacts ==
  ASSUME EInv
  PROVE  /\ rows \in SUBSET Rows /\ export \in Exports /\ left \in Nat /\ came \in Nat
         /\ export.must \in SUBSET Rows /\ export.seen \in SUBSET Rows
         /\ export.lines \in 0 .. MaxExport /\ export.lines \in Nat /\ moves \in Nat
         /\ what \in {"checks", "incidents"} /\ came + moves <= MaxMoves
BY ExportAssumption DEF EInv, ExportTypeOK, Exports

\* The first SELECT begins with all rows that must be sent still to come.
LEMMA StartExportKept ==
  ASSUME EInv, StartExport
  PROVE  EInv'
<1>1. /\ rows \in SUBSET Rows /\ export \in Exports /\ came \in Nat /\ left \in Nat
      /\ export.at = "idle" /\ export.seen = {} /\ export.lines = 0
      /\ UNCHANGED <<what, rows, moves, came, left>>
  BY ExportFacts DEF EInv, StartExport
<1>2. PICK must : must = Top(rows, MaxExport)
  OBVIOUS
<1>3. Select(0, MaxExport) = must
  <2>1. \A r \in rows : Newer(r) = Above(rows, r) /\ Cardinality(Above(rows, r)) \in Nat
    <3>1. \A r \in rows : Above(rows, r) \in SUBSET Rows
      BY <1>1 DEF Above
    <3> QED BY <3>1, RowSets DEF Newer, Above
  <2>2. 0 + MaxExport = MaxExport
    BY ExportAssumption
  <2> QED BY <1>2, <2>1, <2>2 DEF Select, Top
<1>4. /\ must \in SUBSET rows /\ Cardinality(must) <= MaxExport
      /\ \A r \in must, q \in rows \ must : r > q
  BY <1>1, <1>2, RowSets, TopCounts, ExportAssumption
<1>5. PICK x \in Exports : x = [export EXCEPT !.at = "open", !.must = must]
  BY <1>1, <1>4 DEF Exports
<1>6. x.at = "open" /\ x.must = must /\ x.seen = {} /\ x.lines = 0
  BY <1>1, <1>5 DEF Exports
<1>7. export' = x
  BY <1>3, <1>5 DEF StartExport
<1>8. MissedOf(rows, must \ {}, 0) = {} /\ LaterOf(rows, must) = {}
  <2>1. Top(rows, 0) = {}
    BY <1>1, TopOfNone
  <2>2. MissedOf(rows, must \ {}, 0) = {}
    BY <1>4, <2>1 DEF MissedOf
  <2>3. \A r \in must, q \in rows \ must : ~(q > r)
    <3>1. \A r \in rows : r \in Nat
      BY <1>1 DEF Rows
    <3> QED BY <1>4, <3>1
  <2> QED BY <2>2, <2>3 DEF LaterOf
<1>9. Cardinality(Missed)' <= left /\ Cardinality(LaterOf(rows, export.must))' <= came
  BY <1>1, <1>6, <1>7, <1>8, FS_EmptySet DEF Missed
<1>10. ExportTypeOK'
  BY <1>1, <1>5, <1>7 DEF EInv, ExportTypeOK, Exports
<1>11. \E k \in Nat : x.lines = k * ChunkSize
  BY <1>6, ExportAssumption
<1> QED BY <1>1, <1>4, <1>6, <1>7, <1>9, <1>10, <1>11 DEF EInv, ExportAccountsForAll

\* The end of an export: what it did not send went, or was pushed out by what came.
LEMMA ExportEndKept ==
  ASSUME EInv, export.at = "open", NEW sent \in SUBSET Rows,
         sent = Top(Chunk(rows, export.lines, ChunkSize), MaxExport - export.lines),
         Cardinality(sent) < ChunkSize
  PROVE  Cardinality(export.must \ (export.seen \cup sent))
           <= left + (IF export.lines + Cardinality(sent) = MaxExport THEN came ELSE 0)
<1> DEFINE U == Top(rows, export.lines) \cup sent
           D == (export.must \cap rows) \ U
<1>1. /\ rows \in SUBSET Rows /\ left \in Nat /\ came \in Nat /\ export.lines \in Nat
      /\ export.must \in SUBSET Rows /\ export.lines \in 0 .. MaxExport /\ MaxExport \in Nat
      /\ ChunkSize \in Nat
  BY ExportFacts, ExportAssumption
<1>2. /\ Cardinality(export.must) <= MaxExport
      /\ Cardinality(Missed) <= left /\ Cardinality(LaterOf(rows, export.must)) <= came
  BY DEF EInv
<1>3. export.must \ (export.seen \cup sent) \in SUBSET (Missed \cup D)
  BY DEF Missed, MissedOf
<1>4. Missed \in SUBSET Rows /\ D \in SUBSET Rows
  BY <1>1 DEF Missed, MissedOf
<1>5. D # {} => export.lines + Cardinality(sent) = MaxExport /\ Cardinality(D) <= came
  <2> SUFFICES ASSUME D # {}
               PROVE  export.lines + Cardinality(sent) = MaxExport /\ Cardinality(D) <= came
    OBVIOUS
  <2>1. U # rows
    OBVIOUS
  <2>2. PICK n \in Nat, k \in Nat : n = export.lines /\ k = MaxExport - export.lines
    BY <1>1
  <2>3. PICK V \in SUBSET Rows : V = Top(rows, n) \cup Top(Chunk(rows, n, ChunkSize), k) /\ V = U
    BY <1>1, <2>2 DEF Top
  <2>4. /\ Cardinality(sent) = k /\ V \in SUBSET rows /\ Cardinality(V) = n + k
        /\ \A u \in V, d \in rows \ V : u > d
    <3>1. /\ sent = Top(Chunk(rows, n, ChunkSize), k)
          /\ Cardinality(Top(Chunk(rows, n, ChunkSize), k)) < ChunkSize
          /\ Top(rows, n) \cup Top(Chunk(rows, n, ChunkSize), k) # rows
      BY <2>1, <2>2, <2>3
    <3>2. /\ Cardinality(Top(Chunk(rows, n, ChunkSize), k)) = k
          /\ Top(rows, n) \cup Top(Chunk(rows, n, ChunkSize), k) \in SUBSET rows
          /\ Cardinality(Top(rows, n) \cup Top(Chunk(rows, n, ChunkSize), k)) = n + k
          /\ \A u \in Top(rows, n) \cup Top(Chunk(rows, n, ChunkSize), k),
                d \in rows \ (Top(rows, n) \cup Top(Chunk(rows, n, ChunkSize), k)) : u > d
      <4> HIDE DEF U, D
      <4> QED BY <1>1, <3>1, LeftOut
    <3> QED BY <2>3, <3>1, <3>2
  <2>5. Cardinality((export.must \cap rows) \ V) <= came
    BY <1>1, <1>2, <2>2, <2>4, PushedOut
  <2> QED BY <1>1, <2>2, <2>3, <2>4, <2>5
<1> HIDE DEF D, U
<1>6. /\ Cardinality(Missed) \in Nat /\ Cardinality(D) \in Nat
      /\ Cardinality(export.must \ (export.seen \cup sent)) \in Nat
      /\ Cardinality(export.must \ (export.seen \cup sent)) <= Cardinality(Missed) + Cardinality(D)
  <2>1. /\ IsFiniteSet(Missed \cup D) /\ Cardinality(Missed \cup D) \in Nat
        /\ Cardinality(Missed \cup D) <= Cardinality(Missed) + Cardinality(D)
    BY <1>4, RowSets, UnionBound
  <2>2. /\ Cardinality(export.must \ (export.seen \cup sent)) <= Cardinality(Missed \cup D)
        /\ Cardinality(export.must \ (export.seen \cup sent)) \in Nat
    BY <1>3, <2>1, FS_Subset, FS_CardinalityType
  <2>3. Cardinality(Missed) \in Nat /\ Cardinality(D) \in Nat
    BY <1>4, RowSets
  <2> QED BY <2>1, <2>2, <2>3
<1>7. CASE D = {}
  <2>1. Cardinality(D) = 0
    BY <1>7, FS_EmptySet
  <2> QED BY <1>1, <1>2, <1>6, <2>1
<1>8. CASE D # {}
  <2>1. export.lines + Cardinality(sent) = MaxExport /\ Cardinality(D) <= came
    BY <1>5, <1>8
  <2> QED BY <1>1, <1>2, <1>6, <2>1
<1> QED BY <1>7, <1>8

\* What the SELECTs return, and what the cap leaves of it.
LEMMA Selected ==
  ASSUME EInv
  PROVE  /\ \A n, c \in Nat : Select(n, c) = Chunk(rows, n, c)
         /\ \A chunk, k : Capped(chunk, k) = Top(chunk, k)
<1>1. rows \in SUBSET Rows
  BY ExportFacts
<1>2. \A r \in rows : Newer(r) = Above(rows, r) /\ Cardinality(Above(rows, r)) \in Nat
  <2>1. \A r \in rows : Above(rows, r) \in SUBSET Rows
    BY <1>1 DEF Above
  <2> QED BY <2>1, RowSets DEF Newer, Above
<1>3. ASSUME NEW n \in Nat, NEW c \in Nat PROVE Select(n, c) = Chunk(rows, n, c)
  <2>1. \A r \in rows : (n <= Cardinality(Above(rows, r))) <=> ~(Cardinality(Above(rows, r)) < n)
    BY <1>2
  <2> QED BY <1>2, <2>1 DEF Select, Chunk, Top
<1>4. \A chunk, k : Capped(chunk, k) = Top(chunk, k)
  BY DEF Capped, Top, Above
<1> QED BY <1>3, <1>4

\* A SELECT at the offset sends the rows that come next; those it left out before stay
\* accounted for.
LEMMA SendKept ==
  ASSUME EInv, SendRows(Chunk(rows, export.lines, ChunkSize))
  PROVE  EInv'
<1>1. /\ rows \in SUBSET Rows /\ export \in Exports /\ left \in Nat /\ came \in Nat
      /\ export.lines \in Nat /\ export.lines \in 0 .. MaxExport /\ MaxExport \in Nat
      /\ export.must \in SUBSET Rows /\ export.seen \in SUBSET Rows
      /\ export.at = "open" /\ UNCHANGED <<what, rows, moves, came, left>>
      /\ ChunkSize \in Nat /\ ChunkSize # 0
  BY ExportFacts, ExportAssumption DEF SendRows
<1>2. PICK n \in Nat, k \in Nat, c \in Nat :
        n = export.lines /\ k = MaxExport - export.lines /\ c = ChunkSize
  BY <1>1
<1>3. PICK chunk, sent : chunk = Chunk(rows, n, c) /\ sent = Top(chunk, k)
  OBVIOUS
<1>4. /\ chunk \in SUBSET rows /\ Cardinality(chunk) \in Nat /\ Cardinality(chunk) <= c
      /\ Top(rows, n + c) = Top(rows, n) \cup chunk
  BY <1>1, <1>3, ChunkCounts
<1>5. chunk \in SUBSET Rows /\ chunk \in SUBSET Nat /\ IsFiniteSet(chunk)
  <2>1. chunk \in SUBSET Rows
    BY <1>1, <1>4
  <2> QED BY <2>1, RowSets
<1>6. /\ sent \in SUBSET chunk /\ sent \in SUBSET Rows
      /\ Cardinality(sent) \in Nat /\ Cardinality(sent) <= k
      /\ Cardinality(sent) <= Cardinality(chunk)
      /\ Cardinality(chunk) = Cardinality(sent) => sent = chunk
  <2>1. sent \in SUBSET chunk /\ Cardinality(sent) <= k /\ Cardinality(sent) \in Nat
    BY <1>3, <1>5, TopCounts
  <2> QED BY <1>5, <2>1, FS_Subset
<1>7. sent = IF n < MaxExport THEN Capped(chunk, MaxExport - n) ELSE {}
  <2>1. CASE n < MaxExport
    BY <1>2, <1>3, <2>1, Selected
  <2>2. CASE ~(n < MaxExport)
    <3>1. k = 0
      BY <1>1, <1>2, <2>2
    <3> QED BY <1>3, <1>5, <2>2, <3>1, TopOfNone
  <2> QED BY <2>1, <2>2
<1>8. export' = [export EXCEPT !.seen = @ \cup sent, !.lines = n + Cardinality(sent),
                               !.at = IF Cardinality(sent) < c THEN "done" ELSE "open"]
  BY <1>2, <1>3, <1>7 DEF SendRows
<1>9. n + Cardinality(sent) \in 0 .. MaxExport /\ n + Cardinality(sent) \in Nat
  BY <1>1, <1>2, <1>6
<1>10. PICK x \in Exports :
         x = [export EXCEPT !.seen = @ \cup sent, !.lines = n + Cardinality(sent),
                            !.at = IF Cardinality(sent) < c THEN "done" ELSE "open"]
  BY <1>1, <1>6, <1>9 DEF Exports
<1>11. /\ x.must = export.must /\ x.seen = export.seen \cup sent
       /\ x.lines = n + Cardinality(sent)
       /\ x.at = IF Cardinality(sent) < c THEN "done" ELSE "open"
  BY <1>1, <1>10 DEF Exports
<1>12. export' = x
  BY <1>8, <1>10
<1>13. ExportTypeOK' /\ (came + moves <= MaxMoves)'
  BY <1>1, <1>12 DEF EInv, ExportTypeOK, Exports
<1>14. CASE Cardinality(sent) < c
  <2>1. x.at = "done"
    BY <1>11, <1>14
  <2>2. sent = Top(Chunk(rows, export.lines, ChunkSize), MaxExport - export.lines)
        /\ Cardinality(sent) < ChunkSize
    BY <1>2, <1>3, <1>14
  <2>3. Cardinality(export.must \ (export.seen \cup sent))
          <= left + (IF export.lines + Cardinality(sent) = MaxExport THEN came ELSE 0)
    BY <1>1, <1>6, <2>2, ExportEndKept
  <2>4. ExportAccountsForAll'
    BY <1>1, <1>2, <1>11, <1>12, <2>3 DEF ExportAccountsForAll
  <2> QED BY <1>12, <1>13, <2>1, <2>4 DEF EInv
<1>15. CASE ~(Cardinality(sent) < c)
  <2>1. Cardinality(sent) = c /\ Cardinality(chunk) = c /\ sent = chunk /\ x.at = "open"
    BY <1>4, <1>6, <1>11, <1>15
  <2>2. MissedOf(rows, x.must \ x.seen, x.lines) \in SUBSET Missed
    BY <1>2, <1>4, <1>11, <2>1 DEF Missed, MissedOf
  <2>3. Missed \in SUBSET Rows
    BY <1>1 DEF Missed, MissedOf
  <2>4. Cardinality(MissedOf(rows, x.must \ x.seen, x.lines)) <= Cardinality(Missed)
    BY <2>2, <2>3, RowSets, FS_Subset
  <2>5. /\ Cardinality(MissedOf(rows, x.must \ x.seen, x.lines)) \in Nat
        /\ Cardinality(Missed) \in Nat
    <3>1. MissedOf(rows, x.must \ x.seen, x.lines) \in SUBSET Rows
      BY <2>2, <2>3
    <3> QED BY <2>3, <3>1, RowSets
  <2>6. Cardinality(Missed) <= left
    BY <1>1 DEF EInv
  <2>7. Cardinality(Missed)' <= left
    <3>1. Missed' = MissedOf(rows, x.must \ x.seen, x.lines)
      BY <1>1, <1>12 DEF Missed
    <3> QED BY <1>1, <2>4, <2>5, <2>6, <3>1
  <2>8. what = "checks" => \E i \in Nat : x.lines = i * ChunkSize
    <3> SUFFICES ASSUME what = "checks" PROVE \E i \in Nat : x.lines = i * ChunkSize
      OBVIOUS
    <3>1. PICK i \in Nat : n = i * c
      BY <1>1, <1>2 DEF EInv
    <3>2. (i + 1) * c = i * c + c /\ i + 1 \in Nat
      OBVIOUS
    <3>3. x.lines = (i + 1) * c
      BY <1>11, <2>1, <3>1, <3>2
    <3> QED BY <1>2, <3>2, <3>3
  <2>9. Cardinality(x.must) <= MaxExport /\ Cardinality(LaterOf(rows, x.must)) <= came
    BY <1>1, <1>11 DEF EInv
  <2>10. ExportAccountsForAll'
    BY <1>12, <2>1 DEF ExportAccountsForAll
  <2> QED BY <1>1, <1>12, <1>13, <2>1, <2>7, <2>8, <2>9, <2>10 DEF EInv
<1> QED BY <1>14, <1>15

\* The chunks of checks are whole pages, so the page starts where the last one ended.
LEMMA SendChecksKept ==
  ASSUME EInv, SendChecks
  PROVE  EInv'
<1>1. PICK n \in Nat, k \in Nat, c \in Nat \ {0} :
        n = export.lines /\ c = ChunkSize /\ n = k * c
  <2>1. what = "checks" /\ export.at = "open"
    BY DEF SendChecks, SendRows
  <2> QED BY <2>1, ExportFacts, ExportAssumption DEF EInv
<1>2. (n \div c) * c = n
  BY <1>1, Pages
<1>3. ChecksAfter(n) = Chunk(rows, n, ChunkSize)
  BY <1>1, <1>2, Selected DEF ChecksAfter
<1> QED BY <1>1, <1>3, SendKept DEF SendChecks

LEMMA SendIncidentsKept ==
  ASSUME EInv, SendIncidents
  PROVE  EInv'
<1>1. IncidentsAfter(export.lines) = Chunk(rows, export.lines, ChunkSize)
  BY Selected, ExportFacts, ExportAssumption DEF IncidentsAfter
<1> QED BY <1>1, SendKept DEF SendIncidents

\* A row that comes moves at most one row over the offset or out of the cap.
LEMMA ComeKept ==
  ASSUME EInv, export.at = "open", NEW r \in Rows, Come(r)
  PROVE  EInv'
<1>1. /\ rows \in SUBSET Rows /\ export \in Exports /\ left \in Nat /\ came \in Nat
      /\ export.must \in SUBSET Rows /\ export.seen \in SUBSET Rows /\ moves \in Nat
      /\ export.lines \in Nat /\ came + moves <= MaxMoves /\ MaxMoves \in Nat
  BY ExportFacts, ExportAssumption
<1>2. /\ r \notin rows /\ rows' = rows \cup {r} /\ came' = came + 1 /\ moves > 0
      /\ moves' = moves - 1 /\ UNCHANGED <<what, export, left>>
  BY DEF Come
<1>3. PICK A \in SUBSET Rows, must \in SUBSET Rows, n \in Nat :
        A = export.must \ export.seen /\ must = export.must /\ n = export.lines
  BY <1>1
<1>4. /\ Cardinality(MissedOf(rows \cup {r}, A, n)) <= Cardinality(MissedOf(rows, A, n))
      /\ Cardinality(LaterOf(rows \cup {r}, must)) <= Cardinality(LaterOf(rows, must)) + 1
  BY <1>1, <1>2, ComeCounts
<1>5. /\ Cardinality(MissedOf(rows, A, n)) <= left /\ Cardinality(LaterOf(rows, must)) <= came
  BY <1>3 DEF EInv, Missed
<1>6. /\ Cardinality(MissedOf(rows, A, n)) \in Nat /\ Cardinality(LaterOf(rows, must)) \in Nat
      /\ Cardinality(MissedOf(rows \cup {r}, A, n)) \in Nat
      /\ Cardinality(LaterOf(rows \cup {r}, must)) \in Nat
  <2>1. /\ MissedOf(rows, A, n) \in SUBSET Rows /\ LaterOf(rows, must) \in SUBSET Rows
        /\ MissedOf(rows \cup {r}, A, n) \in SUBSET Rows
        /\ LaterOf(rows \cup {r}, must) \in SUBSET Rows
    BY <1>1 DEF MissedOf, LaterOf
  <2> QED BY <2>1, RowSets
<1>7. /\ Cardinality(MissedOf(rows \cup {r}, A, n)) <= left
      /\ Cardinality(LaterOf(rows \cup {r}, must)) <= came + 1
  BY <1>1, <1>4, <1>5, <1>6
<1>8. Cardinality(Missed)' <= left' /\ Cardinality(LaterOf(rows, export.must))' <= came'
  BY <1>2, <1>3, <1>7 DEF Missed
<1>9. came' + moves' <= MaxMoves /\ came' \in 0 .. MaxMoves /\ moves' \in 0 .. MaxMoves
  BY <1>1, <1>2
<1>10. ExportTypeOK'
  BY <1>1, <1>2, <1>9 DEF EInv, ExportTypeOK
<1>11. ExportAccountsForAll'
  BY <1>2 DEF ExportAccountsForAll
<1> QED BY <1>2, <1>8, <1>9, <1>10, <1>11 DEF EInv

\* When rows go, as many at most come to lie before the offset as left counts.
LEMMA GoKept ==
  ASSUME EInv, export.at = "open", NEW gone \in SUBSET rows, Go(gone)
  PROVE  EInv'
<1>1. /\ rows \in SUBSET Rows /\ export \in Exports /\ left \in Nat /\ came \in Nat
      /\ export.must \in SUBSET Rows /\ export.seen \in SUBSET Rows /\ moves \in Nat
      /\ export.lines \in Nat /\ came + moves <= MaxMoves /\ MaxMoves \in Nat
  BY ExportFacts, ExportAssumption
<1>2. /\ rows' = rows \ gone /\ left' = left + Cardinality(gone) /\ moves > 0
      /\ moves' = moves - 1 /\ UNCHANGED <<what, export, came>>
  BY DEF Go
<1>3. PICK A \in SUBSET Rows, must \in SUBSET Rows, n \in Nat :
        A = export.must \ export.seen /\ must = export.must /\ n = export.lines
  BY <1>1
<1>4. /\ Cardinality(MissedOf(rows \ gone, A, n))
           <= Cardinality(MissedOf(rows, A, n)) + Cardinality(gone)
      /\ Cardinality(LaterOf(rows \ gone, must)) <= Cardinality(LaterOf(rows, must))
  BY <1>1, GoCounts
<1>5. /\ Cardinality(MissedOf(rows, A, n)) <= left /\ Cardinality(LaterOf(rows, must)) <= came
  BY <1>3 DEF EInv, Missed
<1>6. /\ Cardinality(MissedOf(rows, A, n)) \in Nat /\ Cardinality(LaterOf(rows, must)) \in Nat
      /\ Cardinality(MissedOf(rows \ gone, A, n)) \in Nat /\ Cardinality(gone) \in Nat
      /\ Cardinality(LaterOf(rows \ gone, must)) \in Nat
  <2>1. /\ MissedOf(rows, A, n) \in SUBSET Rows /\ LaterOf(rows, must) \in SUBSET Rows
        /\ MissedOf(rows \ gone, A, n) \in SUBSET Rows /\ gone \in SUBSET Rows
        /\ LaterOf(rows \ gone, must) \in SUBSET Rows
    BY <1>1 DEF MissedOf, LaterOf
  <2> QED BY <2>1, RowSets
<1>7. /\ Cardinality(MissedOf(rows \ gone, A, n)) <= left + Cardinality(gone)
      /\ Cardinality(LaterOf(rows \ gone, must)) <= came
  BY <1>1, <1>4, <1>5, <1>6
<1>8. Cardinality(Missed)' <= left' /\ Cardinality(LaterOf(rows, export.must))' <= came'
  BY <1>2, <1>3, <1>7 DEF Missed
<1>9. came' + moves' <= MaxMoves /\ moves' \in 0 .. MaxMoves /\ left' \in Nat
  BY <1>1, <1>2, <1>6
<1>10. ExportTypeOK'
  BY <1>1, <1>2, <1>9 DEF EInv, ExportTypeOK
<1>11. ExportAccountsForAll'
  BY <1>2 DEF ExportAccountsForAll
<1> QED BY <1>2, <1>8, <1>9, <1>10, <1>11 DEF EInv

LEMMA EInvStep ==
  ASSUME EInv, [ExportNext]_exportVars
  PROVE  EInv'
<1>1. CASE UNCHANGED exportVars
  BY <1>1 DEF exportVars, EInv, ExportTypeOK, Missed, ExportAccountsForAll
<1> QED BY <1>1, StartExportKept, SendChecksKept, SendIncidentsKept, ComeKept, GoKept DEF ExportNext

LEMMA InitEInv == ExportInit => EInv
<1> SUFFICES ASSUME ExportInit PROVE EInv
  OBVIOUS
<1>1. rows \in SUBSET Rows
  <2>1. PICK n \in 0 .. MaxRow : rows = 1 .. n
    BY DEF ExportInit
  <2>2. 1 .. n \in SUBSET Rows
    BY ExportAssumption DEF Rows
  <2> QED BY <2>1, <2>2
<1>2. ExportTypeOK
  BY <1>1, ExportAssumption DEF ExportInit, ExportTypeOK
<1> QED BY <1>2, ExportAssumption DEF ExportInit, EInv, ExportAccountsForAll

\* Every export, however large the chunks and the cap and whatever comes and goes meanwhile.
THEOREM ExportInvariant == ExportSpec => []EInv
<1>1. ExportInit => EInv
  BY InitEInv
<1>2. EInv /\ [ExportNext]_exportVars => EInv'
  BY EInvStep
<1> QED BY <1>1, <1>2, PTL DEF ExportSpec

\* An export accounts for all rows it began with.
THEOREM ExportAccountsForAllHolds == ExportSpec => []ExportAccountsForAll
<1>1. EInv => ExportAccountsForAll
  BY DEF EInv
<1> QED BY <1>1, ExportInvariant, PTL

=============================================================================
