------------------------- MODULE ApiServicesProofs -------------------------
(***************************************************************************)
(* Sessions and teams for any number of requests, tabs, pairs of tokens     *)
(* and people, and the five services of the API beside one another.        *)
(*                                                                         *)
(* Sessions: a tab refreshes once at a time, tabs refresh at once. A       *)
(* refresh that has spent its token and not issued the new pair counts as  *)
(* the pair it owes, and one that spent nothing is counted in doubled, so  *)
(* that no more pairs are alive than logins and doubled say. While one tab *)
(* is used and nobody was removed, logged out or cut off from an answer,   *)
(* it has the pair that was issued last, unless its refresh is at it.      *)
(*                                                                         *)
(* Teams: AuditedWritesNameMembers is kept by the lock that the audit row  *)
(* puts on its author; for PlanLimitBounded, requests that passed the      *)
(* limit and have not committed are counted with the monitors there are.   *)
(***************************************************************************)
EXTENDS MCApiServices, ReadServicesProofs

-----------------------------------------------------------------------------
(* Sessions.                                                                *)

\* What is used as a token is one.
RealTokens ==
  /\ saved # NoTokens => saved.access \in Pairs
  /\ \A q \in Requests : request[q].at = "sent" => request[q].access \in Pairs
  /\ \A q \in Requests : refresh[q].at = "answered" => refresh[q].got \in Pairs

\* A tab has one refresh at a time, the one that its refused requests wait for.
OneRefresh == \A q \in Requests : refresh[q].at # "idle" <=> refreshing[tab[q]] = q

\* Refreshes that have spent their token and not issued the new pair.
Issuing == {q \in Requests : refresh[q].at = "issue"}

PairsCounted ==
  /\ alive \in SUBSET (1 .. issued)
  /\ Cardinality(alive) + Cardinality(Issuing) <= logins + doubled

\* One tab is used, and no logout, no removal and no lost answer so far.
Calm == OneTab /\ member /\ ~logouts /\ losses = MaxLosses

\* The tab has the pair that was issued last, unless a refresh is at it.
Settled ==
  /\ ~reused /\ ~rejected /\ blacklist = {}
  /\ saved.access = saved.refresh /\ saved.access <= issued /\ old \subseteq 1 .. saved.access
  /\ logins = 0 <=> saved = NoTokens
  /\ (\A q \in Requests : refresh[q].at = "idle") /\ saved # NoTokens => saved.refresh \in alive

RequestSettled(q) ==
  /\ request[q].at # "left" /\ ~request[q].out
  /\ request[q].at # "idle" => logins > 0
  /\ request[q].retried => request[q].access \notin old

RefreshSettled(q) ==
  /\ refresh[q].at # "failed"
  /\ refresh[q].at # "idle" => logins > 0
  /\ refresh[q].at \in {"check", "spend"} => refresh[q].uses \in alive
  /\ refresh[q].at = "answered" =>
       refresh[q].got \in alive /\ refresh[q].got = issued /\ saved.access < issued

AllSettled == Settled /\ \A q \in Requests : RequestSettled(q) /\ RefreshSettled(q)

Store == OneRefresh /\ PairsCounted

SInv ==
  /\ SessionTypeOK /\ RealTokens /\ logins <= issued
  /\ Store
  /\ Calm => AllSettled

-----------------------------------------------------------------------------
RequestStates == [at : {"idle", "sent", "refused", "waiting", "left"}, access : 0 .. MaxPairs,
                  retried : BOOLEAN, out : BOOLEAN]
RefreshStates == [at : {"idle", "check", "spend", "issue", "answered", "failed"},
                  uses : 0 .. MaxPairs, got : 0 .. MaxPairs]

\* The tab's own types, with those of the token store.
TabTypes ==
  /\ saved \in [access : 0 .. MaxPairs, refresh : 0 .. MaxPairs]
  /\ request \in [Requests -> RequestStates]
  /\ tab \in [Requests -> Tabs]
  /\ refreshing \in [Tabs -> Requests \cup {NoRequest}]
  /\ refresh \in [Requests -> RefreshStates]

StoreTypes ==
  /\ member \in BOOLEAN /\ issued \in 0 .. MaxPairs
  /\ alive \in SUBSET Pairs /\ blacklist \in SUBSET Pairs /\ old \in SUBSET Pairs
  /\ logins \in 0 .. MaxPairs /\ doubled \in Nat /\ losses \in 0 .. MaxLosses
  /\ reused \in BOOLEAN /\ rejected \in BOOLEAN /\ logouts \in BOOLEAN

\* The types, in what the tab keeps and what the server keeps.
LEMMA SessionTypes ==
  /\ SessionTypeOK <=> TabTypes /\ StoreTypes
  /\ SessionTypeOK' <=> TabTypes' /\ StoreTypes'
BY DEF SessionTypeOK, TabTypes, StoreTypes, RequestStates, RefreshStates

\* The records of the tab that a step can write.
LEMMA TabRecords ==
  ASSUME MaxPairs \in Nat
  PROVE  /\ IdleRequest \in RequestStates /\ IdleRequest.at = "idle"
         /\ ~IdleRequest.retried /\ ~IdleRequest.out
         /\ [IdleRequest EXCEPT !.at = "left"] \in RequestStates
         /\ [IdleRequest EXCEPT !.at = "left"].at = "left"
         /\ IdleRefresh \in RefreshStates /\ IdleRefresh.at = "idle"
         /\ NoTokens \in [access : 0 .. MaxPairs, refresh : 0 .. MaxPairs]
         /\ \A x \in {"check", "failed"}, n \in 0 .. MaxPairs :
              /\ [IdleRefresh EXCEPT !.at = x, !.uses = n] \in RefreshStates
              /\ [IdleRefresh EXCEPT !.at = x, !.uses = n].at = x
              /\ [IdleRefresh EXCEPT !.at = x, !.uses = n].uses = n
<1>1. /\ IdleRequest \in RequestStates /\ IdleRequest.at = "idle"
      /\ ~IdleRequest.retried /\ ~IdleRequest.out
  BY DEF IdleRequest, RequestStates
<1>2. /\ [IdleRequest EXCEPT !.at = "left"] \in RequestStates
      /\ [IdleRequest EXCEPT !.at = "left"].at = "left"
  BY <1>1 DEF RequestStates
<1>3. IdleRefresh \in RefreshStates /\ IdleRefresh.at = "idle"
  BY DEF IdleRefresh, RefreshStates
<1>4. NoTokens \in [access : 0 .. MaxPairs, refresh : 0 .. MaxPairs]
  BY DEF NoTokens
<1>5. ASSUME NEW x \in {"check", "failed"}, NEW n \in 0 .. MaxPairs
      PROVE  /\ [IdleRefresh EXCEPT !.at = x, !.uses = n] \in RefreshStates
             /\ [IdleRefresh EXCEPT !.at = x, !.uses = n].at = x
             /\ [IdleRefresh EXCEPT !.at = x, !.uses = n].uses = n
  BY <1>3 DEF RefreshStates
<1> QED BY <1>1, <1>2, <1>3, <1>4, <1>5

\* Every step writes values of their types, and a login issues a pair.
LEMMA SessionTypeKept ==
  ASSUME SessionTypeOK, RealTokens, logins <= issued, [SessionNext]_sessionVars
  PROVE  SessionTypeOK' /\ logins' <= issued'
<1>0. TabTypes /\ StoreTypes /\ MaxPairs \in Nat /\ MaxLosses \in Nat
  BY SessionTypes, SessionAssumption
<1>r. /\ IdleRequest \in RequestStates /\ [IdleRequest EXCEPT !.at = "left"] \in RequestStates
      /\ IdleRefresh \in RefreshStates
      /\ NoTokens \in [access : 0 .. MaxPairs, refresh : 0 .. MaxPairs]
      /\ \A x \in {"check", "failed"}, n \in 0 .. MaxPairs :
           [IdleRefresh EXCEPT !.at = x, !.uses = n] \in RefreshStates
  BY <1>0, TabRecords
<1>t. tab' = tab
  BY DEF SessionNext, sessionVars
<1> USE <1>t
<1> SUFFICES TabTypes' /\ StoreTypes' /\ logins' <= issued'
  BY SessionTypes
<1>1. CASE Login
  <2>1. issued \in 0 .. MaxPairs /\ issued < MaxPairs /\ issued' = issued + 1
        /\ logins' = logins + 1 /\ logins \in 0 .. MaxPairs
    BY <1>0, <1>1 DEF Login, IssuePair, StoreTypes
  <2>2. issued' \in 0 .. MaxPairs /\ logins' <= issued' /\ logins' \in 0 .. MaxPairs
        /\ issued' \in Pairs
    BY <1>0, <2>1 DEF Pairs
  <2>3. StoreTypes'
    BY <1>0, <1>1, <2>2 DEF Login, IssuePair, StoreTypes
  <2>4. TabTypes'
    BY <1>0, <1>1, <2>2 DEF Login, TabTypes
  <2> QED BY <2>2, <2>3, <2>4
<1>2. CASE RemoveMember \/ \E n \in Pairs : ExpireAccess(n)
  BY <1>0, <1>2 DEF RemoveMember, ExpireAccess, redisVars, tabVars, historyVars, TabTypes, StoreTypes
<1>3. ASSUME NEW q \in Requests, NEW out \in BOOLEAN, Send(q, out)
      PROVE  TabTypes' /\ StoreTypes' /\ logins' <= issued'
  <2>1. [at |-> "sent", access |-> saved.access, retried |-> FALSE, out |-> out] \in RequestStates
    BY <1>0 DEF TabTypes, RequestStates
  <2>2. TabTypes'
    BY <1>0, <1>3, <2>1 DEF Send, TabTypes
  <2> QED BY <1>0, <1>3, <2>2 DEF Send, StoreTypes, redisVars
<1>4. ASSUME NEW q \in Requests, Answer(q) \/ Refuse(q) \/ LeavePage(q)
      PROVE  TabTypes' /\ StoreTypes' /\ logins' <= issued'
  <2>1. request[q] \in RequestStates
    BY <1>0 DEF TabTypes
  <2>2. [request[q] EXCEPT !.at = "refused"] \in RequestStates /\ request[q].access \in 0 .. MaxPairs
    BY <2>1 DEF RequestStates
  <2>3. PICK x \in RequestStates : request' = [request EXCEPT ![q] = x]
    BY <1>r, <1>4, <2>2 DEF Answer, Refuse, LeavePage
  <2>4. saved' \in {saved, NoTokens} /\ UNCHANGED <<refreshing, refresh>>
    BY <1>4 DEF Answer, Refuse, LeavePage
  <2>5. TabTypes'
    BY <1>0, <1>r, <2>3, <2>4 DEF TabTypes
  <2>6. blacklist' \in SUBSET Pairs /\ rejected' \in BOOLEAN
    BY <1>0, <1>4, <2>2 DEF Answer, Refuse, LeavePage, StoreTypes, redisVars, historyVars, RealTokens
  <2>7. StoreTypes' /\ logins' <= issued'
    BY <1>0, <1>4, <2>6 DEF Answer, Refuse, LeavePage, StoreTypes, redisVars, historyVars
  <2> QED BY <2>5, <2>7
<1>5. ASSUME NEW q \in Requests, AwaitRefresh(q)
      PROVE  TabTypes' /\ StoreTypes' /\ logins' <= issued'
  <2>1. [request[q] EXCEPT !.at = "waiting"] \in RequestStates /\ saved.refresh \in 0 .. MaxPairs
    BY <1>0 DEF TabTypes, RequestStates
  <2>2. PICK x \in RequestStates : request' = [request EXCEPT ![q] = x]
    BY <1>5, <2>1 DEF AwaitRefresh
  <2>3. \/ UNCHANGED <<refreshing, refresh>>
        \/ /\ refreshing' = [refreshing EXCEPT ![tab[q]] = q]
           /\ \E y \in RefreshStates : refresh' = [refresh EXCEPT ![q] = y]
    BY <1>r, <1>5, <2>1 DEF AwaitRefresh
  <2>4. TabTypes'
    BY <1>0, <1>5, <2>2, <2>3 DEF TabTypes, AwaitRefresh
  <2>5. StoreTypes' /\ logins' <= issued'
    BY <1>0, <1>5 DEF AwaitRefresh, StoreTypes, redisVars, historyVars
  <2> QED BY <2>4, <2>5
<1>6. ASSUME NEW q \in Requests, TakePair(q)
      PROVE  TabTypes' /\ StoreTypes' /\ logins' <= issued'
  <2>1. PICK n \in 0 .. MaxPairs : n = refresh[q].got
    BY <1>0 DEF TabTypes, RefreshStates
  <2>2. \A r \in Requests :
          [request[r] EXCEPT !.at = "sent", !.access = n, !.retried = TRUE] \in RequestStates
    BY <1>0 DEF TabTypes, RequestStates
  <2>3. \A r \in Requests : request[r] \in RequestStates
    BY <1>0 DEF TabTypes
  <2>4. request' \in [Requests -> RequestStates]
    BY <1>6, <2>1, <2>2, <2>3 DEF TakePair
  <2>5. TabTypes'
    BY <1>0, <1>r, <1>6, <2>1, <2>4 DEF TabTypes, TakePair
  <2> QED BY <1>0, <1>6, <2>5 DEF TakePair, StoreTypes, redisVars, historyVars
<1>7. ASSUME NEW q \in Requests, GoToLogin(q)
      PROVE  TabTypes' /\ StoreTypes' /\ logins' <= issued'
  <2>1. TabTypes'
    BY <1>0, <1>r, <1>7, SessionAssumption DEF TabTypes, GoToLogin
  <2> QED BY <1>0, <1>7, <2>1 DEF GoToLogin, StoreTypes, redisVars
<1>8. ASSUME NEW q \in Requests,
             CheckRefresh(q) \/ SpendRefresh(q) \/ AnswerRefresh(q) \/ LoseRefresh(q)
      PROVE  TabTypes' /\ StoreTypes' /\ logins' <= issued'
  <2>1. /\ issued' \in 0 .. MaxPairs /\ issued <= issued' /\ logins' = logins
        /\ issued' # issued => issued' \in Pairs
    BY <1>0, <1>8 DEF CheckRefresh, SpendRefresh, AnswerRefresh, LoseRefresh, IssuePair, StoreTypes,
         Pairs, historyVars
  <2>a. alive' \in SUBSET Pairs
    BY <1>0, <1>8, <2>1 DEF CheckRefresh, SpendRefresh, AnswerRefresh, LoseRefresh, IssuePair,
         StoreTypes, redisVars
  <2>b. reused' \in BOOLEAN
    BY <1>0, <1>8 DEF CheckRefresh, SpendRefresh, AnswerRefresh, LoseRefresh, StoreTypes, historyVars
  <2>c. losses' \in 0 .. MaxLosses
    BY <1>0, <1>8 DEF CheckRefresh, SpendRefresh, AnswerRefresh, LoseRefresh, StoreTypes
  <2>2. StoreTypes'
    BY <1>0, <1>8, <2>1, <2>a, <2>b, <2>c DEF CheckRefresh, SpendRefresh, AnswerRefresh, LoseRefresh, IssuePair,
         StoreTypes, redisVars, historyVars
  <2>3. PICK y \in RefreshStates : refresh' = [refresh EXCEPT ![q] = y]
    <3>1. refresh[q] \in RefreshStates
      BY <1>0 DEF TabTypes
    <3>2. \A x \in {"spend", "issue", "answered", "failed"} :
            [refresh[q] EXCEPT !.at = x] \in RefreshStates
      BY <3>1 DEF RefreshStates
    <3>3. [refresh[q] EXCEPT !.at = "answered", !.got = issued'] \in RefreshStates
      BY <2>1, <3>1 DEF RefreshStates
    <3> QED BY <1>8, <3>2, <3>3 DEF CheckRefresh, SpendRefresh, AnswerRefresh, LoseRefresh
  <2>4. TabTypes'
    BY <1>0, <1>8, <2>3 DEF CheckRefresh, SpendRefresh, AnswerRefresh, LoseRefresh, TabTypes
  <2>5. logins' <= issued'
    BY <1>0, <2>1 DEF StoreTypes
  <2> QED BY <2>2, <2>4, <2>5
<1>9. CASE UNCHANGED sessionVars
  BY <1>0, <1>9 DEF sessionVars, redisVars, tabVars, historyVars, TabTypes, StoreTypes
<1> QED BY <1>1, <1>2, <1>3, <1>4, <1>5, <1>6, <1>7, <1>8, <1>9 DEF SessionNext, RequestStep

\* Refresh tokens as a finite set.
LEMMA AliveCounts ==
  ASSUME NEW m \in Nat, NEW S \in SUBSET (1 .. m)
  PROVE  /\ Cardinality(S) \in Nat
         /\ \A n : Cardinality(S \cup {n}) <= Cardinality(S) + 1
         /\ \A n \in S : Cardinality(S \ {n}) = Cardinality(S) - 1
         /\ Cardinality({}) = 0
<1>1. IsFiniteSet(S)
  <2>1. IsFiniteSet(1 .. m)
    BY FS_Interval
  <2> QED BY <2>1, FS_Subset
<1>2. Cardinality(S) \in Nat
  BY <1>1, FS_CardinalityType
<1>3. \A n : Cardinality(S \cup {n}) <= Cardinality(S) + 1
  <2> TAKE n
  <2>1. Cardinality(S \cup {n}) = IF n \in S THEN Cardinality(S) ELSE Cardinality(S) + 1
    BY <1>1, FS_AddElement
  <2> QED BY <1>2, <2>1
<1>4. \A n \in S : Cardinality(S \ {n}) = Cardinality(S) - 1
  BY <1>1, FS_RemoveElement
<1> QED BY <1>2, <1>3, <1>4, FS_EmptySet

\* The refreshes that owe a pair, before a step and after.
LEMMA IssuingCounts ==
  /\ Cardinality(Issuing) \in Nat /\ Cardinality(Issuing') \in Nat
  /\ Issuing' \subseteq Issuing => Cardinality(Issuing') <= Cardinality(Issuing)
  /\ \A q : Issuing' = Issuing \cup {q} => Cardinality(Issuing') <= Cardinality(Issuing) + 1
  /\ \A q \in Issuing : Issuing' = Issuing \ {q} => Cardinality(Issuing') = Cardinality(Issuing) - 1
<1>1. Issuing \in SUBSET Requests /\ Issuing' \in SUBSET Requests
  BY DEF Issuing
<1>2. IsFiniteSet(Issuing) /\ IsFiniteSet(Issuing')
  BY <1>1, FS_Subset, SessionAssumption
<1>3. Cardinality(Issuing) \in Nat /\ Cardinality(Issuing') \in Nat
  BY <1>2, FS_CardinalityType
<1>4. Issuing' \subseteq Issuing => Cardinality(Issuing') <= Cardinality(Issuing)
  BY <1>2, FS_Subset
<1>5. ASSUME NEW q, Issuing' = Issuing \cup {q}
      PROVE  Cardinality(Issuing') <= Cardinality(Issuing) + 1
  <2> DEFINE S == Issuing
             T == Issuing'
  <2> HIDE DEF S, T
  <2>1. Cardinality(S \cup {q}) = IF q \in S THEN Cardinality(S) ELSE Cardinality(S) + 1
    BY <1>2, FS_AddElement DEF S
  <2>2. Cardinality(S) \in Nat /\ T = S \cup {q}
    BY <1>3, <1>5 DEF S, T
  <2>3. Cardinality(T) <= Cardinality(S) + 1
    BY <2>1, <2>2
  <2> QED BY <2>3 DEF S, T
<1>6. ASSUME NEW q \in Issuing, Issuing' = Issuing \ {q}
      PROVE  Cardinality(Issuing') = Cardinality(Issuing) - 1
  BY <1>2, <1>6, FS_RemoveElement
<1> QED BY <1>3, <1>4, <1>5, <1>6

\* A step that issues and spends nothing.
LEMMA TokensFrame ==
  ASSUME Store, issued \in Nat, logins \in Nat, doubled \in Nat,
         UNCHANGED <<issued, alive, logins, doubled>>, OneRefresh',
         \A q \in Requests : refresh'[q].at = "issue" => refresh[q].at = "issue"
  PROVE  Store'
<1>1. Issuing' \subseteq Issuing
  BY DEF Issuing
<1>2. Cardinality(alive') = Cardinality(alive) /\ Cardinality(alive) \in Nat
  BY AliveCounts DEF Store, PairsCounted
<1> QED BY <1>1, <1>2, IssuingCounts DEF Store, PairsCounted

\* Every step keeps one refresh of a tab at a time and counts the pairs that are alive.
LEMMA TokensKept == SessionTypeOK /\ Store /\ [SessionNext]_sessionVars => Store'
<1> SUFFICES ASSUME SessionTypeOK, Store, [SessionNext]_sessionVars PROVE Store'
  OBVIOUS
<1>a. /\ OneRefresh /\ PairsCounted /\ issued \in Nat /\ logins \in Nat /\ doubled \in Nat
      /\ tab' = tab
  BY DEF SessionTypeOK, Store, SessionNext, sessionVars
<1>b. Cardinality(alive) \in Nat
  BY <1>a, AliveCounts DEF PairsCounted
<1>0. /\ OneRefresh /\ PairsCounted /\ issued \in Nat /\ logins \in Nat /\ doubled \in Nat
      /\ Cardinality(alive) \in Nat /\ refresh \in [Requests -> RefreshStates]
      /\ tab' = tab /\ tab \in [Requests -> Tabs]
      /\ refreshing \in [Tabs -> Requests \cup {NoRequest}]
  BY <1>a, <1>b, SessionTypes DEF TabTypes
<1>1. CASE Login
  <2>1. UNCHANGED <<refresh, refreshing, doubled>> /\ issued' = issued + 1 /\ logins' = logins + 1
        /\ alive' = alive \cup {issued'}
    BY <1>1 DEF Login, IssuePair
  <2>2. OneRefresh' /\ Issuing' = Issuing
    BY <1>0, <2>1 DEF OneRefresh, Issuing
  <2>3. alive' \in SUBSET (1 .. issued')
    BY <1>0, <2>1 DEF PairsCounted
  <2>4. Cardinality(alive') <= Cardinality(alive) + 1 /\ Cardinality(alive') \in Nat
    <3>1. issued' \in Nat
      BY <1>0, <2>1
    <3>2. Cardinality(alive') \in Nat
      BY <2>3, <3>1, AliveCounts
    <3>3. Cardinality(alive \cup {issued'}) <= Cardinality(alive) + 1
      BY <1>0, AliveCounts DEF PairsCounted
    <3> QED BY <2>1, <3>2, <3>3
  <2> QED BY <1>0, <2>1, <2>2, <2>3, <2>4, IssuingCounts DEF Store, PairsCounted
<1>2. CASE \/ RemoveMember \/ \E n \in Pairs : ExpireAccess(n)
           \/ \E q \in Requests : \/ \E out \in BOOLEAN : Send(q, out)
                                  \/ Answer(q) \/ Refuse(q) \/ LeavePage(q)
           \/ UNCHANGED sessionVars
  <2>1. UNCHANGED <<refresh, refreshing, issued, alive, logins, doubled>>
    BY <1>2 DEF RemoveMember, ExpireAccess, Send, Answer, Refuse, LeavePage, sessionVars, redisVars,
                tabVars, historyVars
  <2> QED BY <1>0, <2>1, TokensFrame DEF OneRefresh
<1>3. ASSUME NEW q \in Requests, AwaitRefresh(q) \/ TakePair(q) \/ GoToLogin(q) PROVE Store'
  <2>1. UNCHANGED <<issued, alive, logins, doubled>>
    BY <1>3 DEF AwaitRefresh, TakePair, GoToLogin, redisVars, historyVars
  <2>2. \/ UNCHANGED <<refreshing, refresh>>
        \/ /\ refreshing[tab[q]] = NoRequest /\ refreshing' = [refreshing EXCEPT ![tab[q]] = q]
           /\ \E y \in RefreshStates : /\ y.at \in {"check", "failed"}
                                       /\ refresh' = [refresh EXCEPT ![q] = y]
        \/ /\ refreshing[tab[q]] = q /\ refreshing' = [refreshing EXCEPT ![tab[q]] = NoRequest]
           /\ \E y \in RefreshStates : y.at = "idle" /\ refresh' = [refresh EXCEPT ![q] = y]
        \/ /\ refreshing' = [refreshing EXCEPT ![tab[q]] = NoRequest]
           /\ \A r \in Requests : IF tab[r] = tab[q] THEN refresh'[r].at = "idle"
                                                     ELSE refresh'[r] = refresh[r]
    <3>1. IdleRefresh.at = "idle" /\ IdleRefresh \in RefreshStates
      BY SessionAssumption, TabRecords DEF IdleRefresh
    <3>2. TabTypes
      BY SessionTypes
    <3>3. CASE AwaitRefresh(q)
      <4>1. \A x \in {"check", "failed"}, n \in 0 .. MaxPairs :
              /\ [IdleRefresh EXCEPT !.at = x, !.uses = n] \in RefreshStates
              /\ [IdleRefresh EXCEPT !.at = x, !.uses = n].at = x
        BY SessionAssumption, TabRecords DEF IdleRefresh
      <4>2. saved.refresh \in 0 .. MaxPairs
        BY <3>2 DEF TabTypes
      <4> QED BY <3>3, <4>1, <4>2 DEF AwaitRefresh
    <3>4. CASE TakePair(q)
      BY <1>0, <3>1, <3>4 DEF TakePair, OneRefresh
    <3>5. CASE GoToLogin(q)
      BY <3>1, <3>5 DEF GoToLogin
    <3> QED BY <1>3, <3>3, <3>4, <3>5
  <2>3. OneRefresh'
    <3> SUFFICES ASSUME NEW r \in Requests
                 PROVE  refresh'[r].at # "idle" <=> refreshing'[tab[r]] = r
      BY <1>0 DEF OneRefresh
    <3>1. (refresh[r].at # "idle" <=> refreshing[tab[r]] = r) /\ tab[r] \in Tabs /\ tab[q] \in Tabs
      BY <1>0 DEF OneRefresh
    <3> QED BY <1>0, <2>2, <3>1, SessionAssumption
  <2>4. \A r \in Requests : refresh'[r].at = "issue" => refresh[r].at = "issue"
    BY <1>0, <2>2
  <2> QED BY <1>0, <2>1, <2>3, <2>4, TokensFrame
<1>4. ASSUME NEW q \in Requests,
             CheckRefresh(q) \/ SpendRefresh(q) \/ AnswerRefresh(q) \/ LoseRefresh(q)
      PROVE  Store'
  <2>1. /\ refresh[q].at # "idle" /\ refresh'[q].at # "idle"
        /\ UNCHANGED <<refreshing, logins>>
        /\ \A r \in Requests \ {q} : refresh'[r] = refresh[r]
    <3>1. /\ refresh[q].at \in {"check", "spend", "issue", "answered"}
          /\ UNCHANGED <<refreshing, logins>>
      BY <1>4 DEF CheckRefresh, SpendRefresh, AnswerRefresh, LoseRefresh, historyVars
    <3>2. \A x \in {"spend", "issue", "answered", "failed"} :
            /\ [refresh[q] EXCEPT !.at = x].at = x
            /\ [refresh[q] EXCEPT !.at = x, !.got = issued'].at = x
      BY <1>0 DEF RefreshStates
    <3>3. PICK y : y.at # "idle" /\ refresh' = [refresh EXCEPT ![q] = y]
      <4>1. CASE AnswerRefresh(q)
        <5>1. refresh' = [refresh EXCEPT ![q] = [refresh[q] EXCEPT !.at = "answered", !.got = issued']]
          BY <4>1 DEF AnswerRefresh
        <5> QED BY <3>2, <5>1
      <4>2. CASE ~AnswerRefresh(q)
        <5>1. PICK x \in {"spend", "issue", "answered", "failed"} :
                refresh' = [refresh EXCEPT ![q] = [refresh[q] EXCEPT !.at = x]]
          BY <1>4, <4>2 DEF CheckRefresh, SpendRefresh, LoseRefresh
        <5> QED BY <3>2, <5>1
      <4> QED BY <4>1, <4>2
    <3> QED BY <1>0, <3>1, <3>3
  <2>2. OneRefresh'
    BY <1>0, <2>1 DEF OneRefresh
  <2>4. CASE CheckRefresh(q)
    <3>1. /\ refresh[q].at = "check" /\ issued' = issued /\ alive' \in {alive, {}}
          /\ refresh'[q].at # "issue" /\ doubled' = doubled
      BY <1>0, <2>4 DEF CheckRefresh
    <3>2. Issuing' \subseteq Issuing /\ alive' \in SUBSET (1 .. issued')
      BY <1>0, <2>1, <3>1 DEF Issuing, PairsCounted
    <3>3. Cardinality(alive') <= Cardinality(alive) /\ Cardinality(alive') \in Nat
      <4>1. Cardinality({}) = 0
        BY FS_EmptySet
      <4>2. CASE alive' = alive
        BY <1>0, <4>2
      <4>3. CASE alive' = {}
        BY <1>0, <4>1, <4>3
      <4> QED BY <3>1, <4>2, <4>3
    <3> QED BY <1>0, <2>1, <2>2, <3>1, <3>2, <3>3, IssuingCounts DEF Store, PairsCounted
  <2>5. CASE SpendRefresh(q)
    <3>1. /\ refresh[q].at = "spend" /\ issued' = issued /\ alive' = alive \ {refresh[q].uses}
          /\ doubled' = IF refresh[q].uses \in alive THEN doubled ELSE doubled + 1
          /\ refresh'[q].at \in {"issue", "failed"}
      BY <1>0, <2>5 DEF SpendRefresh
    <3>2. alive' \in SUBSET (1 .. issued')
      BY <1>0, <3>1 DEF PairsCounted
    <3>3. /\ Cardinality(Issuing') <= Cardinality(Issuing) + 1
          /\ Cardinality(Issuing) \in Nat /\ Cardinality(Issuing') \in Nat
      <4>1. Issuing' \subseteq Issuing \/ Issuing' = Issuing \cup {q}
        BY <2>1, <3>1 DEF Issuing
      <4> QED BY <4>1, IssuingCounts
    <3>4. CASE refresh[q].uses \in alive
      <4>1. Cardinality(alive') = Cardinality(alive) - 1 /\ Cardinality(alive') \in Nat
        BY <1>0, <3>1, <3>2, <3>4, AliveCounts DEF PairsCounted
      <4> QED BY <1>0, <2>1, <2>2, <3>1, <3>2, <3>3, <3>4, <4>1 DEF Store, PairsCounted
    <3>5. CASE refresh[q].uses \notin alive
      <4>1. alive' = alive /\ doubled' = doubled + 1
        BY <3>1, <3>5
      <4>2. Cardinality(alive') = Cardinality(alive)
        BY <4>1
      <4> QED BY <1>0, <2>1, <2>2, <3>1, <3>2, <3>3, <4>1, <4>2 DEF Store, PairsCounted
    <3> QED BY <3>4, <3>5
  <2>6. CASE AnswerRefresh(q)
    <3>1. /\ refresh[q].at = "issue" /\ issued' = issued + 1 /\ alive' = alive \cup {issued'}
          /\ refresh'[q].at = "answered" /\ doubled' = doubled
      BY <1>0, <2>6 DEF AnswerRefresh, IssuePair, historyVars
    <3>2. alive' \in SUBSET (1 .. issued')
      BY <1>0, <3>1 DEF PairsCounted
    <3>3. Cardinality(alive') <= Cardinality(alive) + 1 /\ Cardinality(alive') \in Nat
      <4>1. issued' \in Nat
        BY <1>0, <3>1
      <4>2. Cardinality(alive') \in Nat
        BY <3>2, <4>1, AliveCounts
      <4>3. Cardinality(alive \cup {issued'}) <= Cardinality(alive) + 1
        BY <1>0, AliveCounts DEF PairsCounted
      <4> QED BY <3>1, <4>2, <4>3
    <3>4. q \in Issuing /\ Issuing' = Issuing \ {q}
      BY <2>1, <3>1 DEF Issuing
    <3>5. Cardinality(Issuing') = Cardinality(Issuing) - 1 /\ Cardinality(Issuing) \in Nat
      BY <3>4, IssuingCounts
    <3> QED BY <1>0, <2>1, <2>2, <3>1, <3>2, <3>3, <3>5 DEF Store, PairsCounted
  <2>7. CASE LoseRefresh(q)
    <3>1. UNCHANGED <<issued, alive, logins, doubled>> /\ refresh'[q].at = "failed"
      BY <1>0, <2>7 DEF LoseRefresh, redisVars, historyVars
    <3> QED BY <1>0, <2>1, <2>2, <3>1, TokensFrame
  <2> QED BY <1>4, <2>4, <2>5, <2>6, <2>7
<1> QED BY <1>1, <1>2, <1>3, <1>4 DEF SessionNext, RequestStep

\* Nobody sends or saves a token that was not issued.
LEMMA RealTokensKept ==
  ASSUME SessionTypeOK, SessionTypeOK', RealTokens, [SessionNext]_sessionVars
  PROVE  RealTokens'
<1>0. /\ TabTypes /\ StoreTypes /\ TabTypes' /\ MaxPairs \in Nat
      /\ IdleRequest.at = "idle" /\ [IdleRequest EXCEPT !.at = "left"].at = "left"
      /\ IdleRefresh.at = "idle"
  BY SessionTypes, SessionAssumption, TabRecords
<1>i. issued \in Nat /\ (issued < MaxPairs => issued + 1 \in Pairs)
  BY <1>0 DEF StoreTypes, Pairs
<1>1. CASE Login
  <2>1. issued' \in Pairs
    BY <1>1, <1>i DEF Login, IssuePair
  <2> QED BY <1>1, <2>1 DEF Login, RealTokens
<1>2. CASE RemoveMember \/ (\E n \in Pairs : ExpireAccess(n)) \/ UNCHANGED sessionVars
  BY <1>2 DEF RemoveMember, ExpireAccess, sessionVars, tabVars, RealTokens
<1>3. ASSUME NEW q \in Requests, NEW out \in BOOLEAN, Send(q, out) PROVE RealTokens'
  BY <1>0, <1>3 DEF Send, RealTokens, TabTypes
<1>4. ASSUME NEW q \in Requests, Answer(q) \/ Refuse(q) \/ LeavePage(q) PROVE RealTokens'
  <2>1. \A r \in Requests : request'[r].at = "sent" => request'[r] = request[r]
    <3>1. [request[q] EXCEPT !.at = "refused"].at = "refused"
      BY <1>0 DEF TabTypes, RequestStates
    <3>2. \E x : x.at # "sent" /\ request' = [request EXCEPT ![q] = x]
      BY <1>0, <1>4, <3>1 DEF Answer, Refuse, LeavePage
    <3> QED BY <1>0, <3>2 DEF TabTypes
  <2>2. saved' \in {saved, NoTokens} /\ UNCHANGED refresh
    BY <1>4 DEF Answer, Refuse, LeavePage
  <2> QED BY <2>1, <2>2 DEF RealTokens
<1>5. ASSUME NEW q \in Requests, AwaitRefresh(q) PROVE RealTokens'
  <2>1. \A r \in Requests : request'[r].at = "sent" => request'[r] = request[r]
    BY <1>0, <1>5 DEF AwaitRefresh, TabTypes
  <2>2. \A r \in Requests : refresh'[r].at = "answered" => refresh'[r] = refresh[r]
    <3>1. PICK n \in 0 .. MaxPairs : n = saved.refresh
      BY <1>0 DEF TabTypes
    <3>2. \A x \in {"check", "failed"} : [IdleRefresh EXCEPT !.at = x, !.uses = n].at = x
      <4>1. IdleRefresh \in RefreshStates
        BY <1>0, TabRecords
      <4> QED BY <4>1 DEF RefreshStates
    <3>3. \/ UNCHANGED refresh
          \/ \E y : y.at # "answered" /\ refresh' = [refresh EXCEPT ![q] = y]
      BY <1>5, <3>1, <3>2 DEF AwaitRefresh
    <3> QED BY <1>0, <3>3 DEF TabTypes
  <2> QED BY <1>5, <2>1, <2>2 DEF RealTokens, AwaitRefresh
<1>6. ASSUME NEW q \in Requests, TakePair(q) PROVE RealTokens'
  <2>1. PICK n \in Pairs : n = refresh[q].got
    BY <1>6 DEF TakePair, RealTokens
  <2>2. \A r \in Requests : request'[r].at = "sent" => request'[r] = request[r] \/ request'[r].access = n
    <3>1. \A r \in Requests :
            [request[r] EXCEPT !.at = "sent", !.access = n, !.retried = TRUE].access = n
      BY <1>0 DEF TabTypes, RequestStates
    <3>2. \A r \in Requests :
            \/ request'[r] = request[r]
            \/ request'[r] = [request[r] EXCEPT !.at = "sent", !.access = n, !.retried = TRUE]
      BY <1>6, <2>1 DEF TakePair
    <3> QED BY <3>1, <3>2
  <2>3. \A r \in Requests : refresh'[r].at = "answered" => refresh'[r] = refresh[r]
    BY <1>0, <1>6 DEF TakePair, TabTypes
  <2>4. saved'.access = n
    BY <1>6, <2>1 DEF TakePair
  <2> QED BY <2>1, <2>2, <2>3, <2>4 DEF RealTokens
<1>7. ASSUME NEW q \in Requests, GoToLogin(q) PROVE RealTokens'
  BY <1>0, <1>7 DEF GoToLogin, RealTokens
<1>8. ASSUME NEW q \in Requests,
             CheckRefresh(q) \/ SpendRefresh(q) \/ AnswerRefresh(q) \/ LoseRefresh(q)
      PROVE  RealTokens'
  <2>1. UNCHANGED <<saved, request>>
    BY <1>8 DEF CheckRefresh, SpendRefresh, AnswerRefresh, LoseRefresh
  <2>2. \A r \in Requests :
          refresh'[r].at = "answered" => refresh'[r] = refresh[r] \/ refresh'[r].got \in Pairs
    <3>1. CASE AnswerRefresh(q)
      <4>1. issued' \in Pairs
        BY <1>i, <3>1 DEF AnswerRefresh, IssuePair
      <4>2. refresh'[q].got = issued' /\ \A r \in Requests \ {q} : refresh'[r] = refresh[r]
        BY <1>0, <3>1 DEF AnswerRefresh, TabTypes, RefreshStates
      <4> QED BY <4>1, <4>2
    <3>2. CASE ~AnswerRefresh(q)
      BY <1>0, <1>8, <3>2 DEF CheckRefresh, SpendRefresh, LoseRefresh, TabTypes, RefreshStates
    <3> QED BY <3>1, <3>2
  <2> QED BY <2>1, <2>2 DEF RealTokens
<1> QED BY <1>1, <1>2, <1>3, <1>4, <1>5, <1>6, <1>7, <1>8 DEF SessionNext, RequestStep

-----------------------------------------------------------------------------
(* The calm tab.                                                           *)

\* Calm is not regained.
LEMMA CalmBefore ==
  ASSUME SessionTypeOK, [SessionNext]_sessionVars, Calm'
  PROVE  Calm /\ UNCHANGED <<member, losses, logouts, tab>>
<1>0. losses \in Nat /\ losses <= MaxLosses /\ MaxLosses \in Nat /\ losses' = MaxLosses
  BY SessionAssumption DEF SessionTypeOK, Calm
<1>1. losses' = losses \/ (losses > 0 /\ losses' = losses - 1)
  BY DEF SessionNext, RequestStep, Login, RemoveMember, ExpireAccess, Send, Answer, Refuse, LeavePage, AwaitRefresh,
     TakePair, GoToLogin, CheckRefresh, SpendRefresh, AnswerRefresh, LoseRefresh, sessionVars
<1>2. losses' = losses
  BY <1>0, <1>1
<1>3. member' => member' = member /\ member
  BY DEF SessionNext, RequestStep, Login, RemoveMember, ExpireAccess, Send, Answer, Refuse, LeavePage, AwaitRefresh,
     TakePair, GoToLogin, CheckRefresh, SpendRefresh, AnswerRefresh, LoseRefresh, sessionVars,
     SessionTypeOK
<1>4. logouts => logouts'
  BY DEF SessionNext, RequestStep, Login, RemoveMember, ExpireAccess, Send, Answer, Refuse, LeavePage, AwaitRefresh,
     TakePair, GoToLogin, CheckRefresh, SpendRefresh, AnswerRefresh, LoseRefresh, sessionVars,
     historyVars
<1>5. logouts \in BOOLEAN /\ logouts' \in BOOLEAN
  BY DEF SessionNext, RequestStep, Login, RemoveMember, ExpireAccess, Send, Answer, Refuse, LeavePage, AwaitRefresh,
     TakePair, GoToLogin, CheckRefresh, SpendRefresh, AnswerRefresh, LoseRefresh, sessionVars,
     historyVars, SessionTypeOK
<1>6. tab' = tab
  BY DEF SessionNext, sessionVars
<1> QED BY <1>2, <1>3, <1>4, <1>5, <1>6 DEF Calm, OneTab

\* What a calm tab is before one of its steps.
CalmTab ==
  /\ SessionTypeOK /\ RealTokens /\ Store /\ AllSettled
  /\ Calm /\ Calm' /\ UNCHANGED <<member, losses, logouts, tab>>

\* Requests and refreshes that stay, or come to their end.
LEMMA TabFrame ==
  ASSUME CalmTab, Settled', logins' = logins,
         \A q \in Requests :
           request'[q] = request[q] \/ (~request'[q].out /\ ~request'[q].retried
                                          /\ request'[q].at \in {"idle", "refused"}),
         \A q \in Requests : request'[q].at # "idle" => request[q].at # "idle",
         UNCHANGED <<refresh, alive, issued, saved, old>>
  PROVE  AllSettled'
<1> SUFFICES ASSUME NEW q \in Requests PROVE RequestSettled(q)' /\ RefreshSettled(q)'
  BY DEF AllSettled
<1>1. RequestSettled(q) /\ RefreshSettled(q)
  BY DEF CalmTab, AllSettled
<1> QED BY <1>1 DEF RequestSettled, RefreshSettled

\* What a calm tab was before a step, in the terms the steps are written in.
LEMMA CalmFacts ==
  ASSUME CalmTab
  PROVE  /\ issued \in Nat /\ logins \in Nat /\ Settled /\ OneRefresh /\ TabTypes
         /\ request \in [Requests -> RequestStates] /\ refresh \in [Requests -> RefreshStates]
         /\ member /\ member' /\ ~logouts /\ ~logouts'
         /\ \A q \in Requests : RequestSettled(q) /\ RefreshSettled(q)
         /\ logins > 0 => /\ saved # NoTokens /\ saved.access \in Nat /\ saved.access # 0
                          /\ saved.refresh = saved.access
         /\ logins = 0 => /\ saved = NoTokens /\ old = {}
                          /\ \A q \in Requests : request[q].at = "idle" /\ refresh[q].at = "idle"
         /\ saved.access \in 0 .. MaxPairs /\ saved.refresh \in 0 .. MaxPairs
         /\ OneTab /\ tab' = tab
         /\ \A q, r \in Requests : refresh[q].at # "idle" /\ r # q => refresh[r].at = "idle"
         /\ \A q \in Requests :
              refreshing[tab[q]] = NoRequest => \A r \in Requests : refresh[r].at = "idle"
<1>1. /\ TabTypes /\ StoreTypes /\ Settled /\ OneRefresh
      /\ \A q \in Requests : RequestSettled(q) /\ RefreshSettled(q)
  BY SessionTypes DEF CalmTab, AllSettled, Store
<1>2. issued \in Nat /\ logins \in Nat
  BY <1>1 DEF StoreTypes
<1>3. member /\ member' /\ ~logouts /\ ~logouts'
  BY DEF CalmTab, Calm
<1>4. /\ request \in [Requests -> RequestStates] /\ refresh \in [Requests -> RefreshStates]
      /\ saved.access \in 0 .. MaxPairs /\ saved.refresh \in 0 .. MaxPairs
  BY <1>1 DEF TabTypes
<1>5. logins > 0 => /\ saved # NoTokens /\ saved.access \in Nat /\ saved.access # 0
                    /\ saved.refresh = saved.access
  BY <1>1, <1>2 DEF Settled, CalmTab, RealTokens, Pairs
<1>6. logins = 0 => saved = NoTokens /\ old = {}
  <2>1. ASSUME saved = NoTokens PROVE old = {}
    <3>1. saved.access = 0
      BY <2>1 DEF NoTokens
    <3> QED BY <1>1, <3>1 DEF Settled
  <2> QED BY <1>1, <2>1 DEF Settled
<1>7. logins = 0 => \A q \in Requests : request[q].at = "idle" /\ refresh[q].at = "idle"
  BY <1>1 DEF RequestSettled, RefreshSettled
<1>8. OneTab /\ tab' = tab
  BY DEF CalmTab, Calm
<1>9. \A q, r \in Requests : refresh[q].at # "idle" /\ r # q => refresh[r].at = "idle"
  BY <1>1, <1>8 DEF OneRefresh, OneTab
<1>10. \A q \in Requests :
         refreshing[tab[q]] = NoRequest => \A r \in Requests : refresh[r].at = "idle"
  BY <1>1, <1>8, SessionAssumption DEF OneRefresh, OneTab
<1> QED BY <1>1, <1>2, <1>3, <1>4, <1>5, <1>6, <1>7, <1>8, <1>9, <1>10

\* The steps of the requests, of the server beside the tab, and of the refresh
\* keep a calm tab settled.
LEMMA CalmRequests ==
  ASSUME CalmTab, NEW q \in Requests,
         \/ \E out \in BOOLEAN : Send(q, out)
         \/ Answer(q) \/ Refuse(q) \/ LeavePage(q)
  PROVE  AllSettled'
<1>0. /\ request \in [Requests -> RequestStates] /\ member /\ ~logouts'
      /\ Settled /\ RequestSettled(q) /\ logins \in Nat /\ MaxPairs \in Nat
  BY CalmFacts, SessionAssumption
<1>1. ASSUME NEW out \in BOOLEAN, Send(q, out) PROVE AllSettled'
  <2>1. out = FALSE /\ logins > 0
    BY <1>0, <1>1 DEF Send, Settled
  <2>2. /\ request'[q].at = "sent" /\ ~request'[q].retried /\ ~request'[q].out
        /\ \A r \in Requests \ {q} : request'[r] = request[r]
    BY <1>0, <1>1, <2>1 DEF Send
  <2>3. UNCHANGED <<refresh, refreshing, alive, blacklist, issued, saved, old, logins, reused, rejected>>
    BY <1>1 DEF Send, redisVars
  <2>4. Settled'
    BY <1>0, <2>3 DEF Settled
  <2>5. ASSUME NEW r \in Requests PROVE RequestSettled(r)' /\ RefreshSettled(r)'
    <3>1. RequestSettled(r) /\ RefreshSettled(r)
      BY CalmFacts
    <3> QED BY <2>1, <2>2, <2>3, <3>1 DEF RequestSettled, RefreshSettled
  <2> QED BY <2>4, <2>5 DEF AllSettled
<1>2. CASE Answer(q)
  <2>1. blacklist' = blacklist /\ request' = [request EXCEPT ![q] = IdleRequest]
    BY <1>0, <1>2 DEF Answer, RequestSettled
  <2>2. UNCHANGED <<refresh, refreshing, alive, issued, saved, old, logins, reused, rejected>>
    BY <1>2 DEF Answer, historyVars
  <2>3. Settled'
    BY <1>0, <2>1, <2>2 DEF Settled
  <2>4. IdleRequest.at = "idle" /\ ~IdleRequest.retried /\ ~IdleRequest.out
    BY <1>0, TabRecords
  <2> QED BY <1>0, <2>1, <2>2, <2>3, <2>4, TabFrame
<1>3. CASE Refuse(q)
  <2>1. ~request[q].retried
    BY <1>0, <1>3 DEF Refuse, Accepted, RequestSettled, Settled
  <2>2. /\ request' = [request EXCEPT ![q] = [@ EXCEPT !.at = "refused"]]
        /\ UNCHANGED <<refresh, refreshing, alive, blacklist, issued, saved, old, logins, reused>>
    BY <1>3, <2>1 DEF Refuse, redisVars
  <2>3. ~rejected'
    BY <1>0, <1>3, <2>1 DEF Refuse, Settled
  <2>4. Settled'
    BY <1>0, <2>2, <2>3 DEF Settled
  <2>5. /\ request'[q].at = "refused" /\ ~request'[q].retried /\ ~request'[q].out
        /\ \A r \in Requests \ {q} : request'[r] = request[r]
    BY <1>0, <2>1, <2>2 DEF RequestStates, RequestSettled
  <2>6. request[q].at # "idle"
    BY <1>3 DEF Refuse
  <2> QED BY <2>2, <2>4, <2>5, <2>6, TabFrame
<1>4. CASE LeavePage(q)
  BY <1>0, <1>4 DEF LeavePage, RequestSettled
<1> QED BY <1>1, <1>2, <1>3, <1>4

LEMMA CalmStore ==
  ASSUME CalmTab, Login \/ RemoveMember \/ (\E n \in Pairs : ExpireAccess(n)) \/ UNCHANGED sessionVars
  PROVE  AllSettled'
<1>0. /\ issued \in Nat /\ logins \in Nat /\ Settled /\ member' /\ saved.access \in 0 .. MaxPairs
      /\ \A q \in Requests : RequestSettled(q) /\ RefreshSettled(q)
  BY CalmFacts
<1>1. CASE Login
  <2>1. /\ logins = 0 /\ issued' = issued + 1 /\ alive' = alive \cup {issued'}
        /\ saved' = [access |-> issued', refresh |-> issued'] /\ logins' = logins + 1
        /\ UNCHANGED <<blacklist, old, request, refreshing, refresh, reused, rejected>>
    BY <1>0, <1>1 DEF Login, IssuePair, Settled
  <2>2. saved'.access = issued' /\ saved'.refresh = issued' /\ issued' # 0
    BY <1>0, <2>1
  <2>3. saved' # NoTokens
    BY <2>2 DEF NoTokens
  <2>4. old = {} /\ \A q \in Requests : request[q].at = "idle" /\ refresh[q].at = "idle"
    BY <2>1, CalmFacts
  <2>5. Settled'
    BY <1>0, <2>1, <2>2, <2>3, <2>4 DEF Settled
  <2>6. ASSUME NEW q \in Requests PROVE RequestSettled(q)' /\ RefreshSettled(q)'
    BY <1>0, <2>1, <2>4 DEF RequestSettled, RefreshSettled
  <2> QED BY <2>5, <2>6 DEF AllSettled
<1>2. CASE RemoveMember
  BY <1>0, <1>2 DEF RemoveMember
<1>3. ASSUME NEW n \in Pairs, ExpireAccess(n) PROVE AllSettled'
  <2>1. /\ n = saved.access /\ n # 0 /\ old' = old \cup {n}
        /\ \A q \in Requests : ~(request[q].retried /\ request[q].access = n)
        /\ UNCHANGED <<blacklist, saved, alive, issued, logins, request, refreshing, refresh, reused,
                       rejected>>
    BY <1>3 DEF ExpireAccess, redisVars, tabVars, historyVars
  <2>2. n \in 1 .. saved.access /\ old \subseteq 1 .. saved.access
    BY <1>0, <2>1 DEF Pairs, Settled
  <2>3. old' \subseteq 1 .. saved'.access
    BY <2>1, <2>2
  <2>4. Settled'
    BY <1>0, <2>1, <2>3 DEF Settled
  <2>5. ASSUME NEW q \in Requests PROVE RequestSettled(q)' /\ RefreshSettled(q)'
    BY <1>0, <2>1 DEF RequestSettled, RefreshSettled
  <2> QED BY <2>4, <2>5 DEF AllSettled
<1>4. CASE UNCHANGED sessionVars
  <2>1. UNCHANGED <<blacklist, old, saved, alive, issued, logins, request, refreshing, refresh, reused,
                    rejected>>
    BY <1>4 DEF sessionVars, redisVars, tabVars, historyVars
  <2> QED BY <1>0, <2>1 DEF AllSettled, Settled, RequestSettled, RefreshSettled
<1> QED BY <1>1, <1>2, <1>3, <1>4

LEMMA CalmRefresh ==
  ASSUME CalmTab, NEW q \in Requests,
         \/ AwaitRefresh(q) \/ TakePair(q) \/ GoToLogin(q)
         \/ CheckRefresh(q) \/ SpendRefresh(q) \/ AnswerRefresh(q) \/ LoseRefresh(q)
  PROVE  AllSettled'
<1>0. /\ issued \in Nat /\ logins \in Nat /\ Settled /\ OneRefresh
      /\ request \in [Requests -> RequestStates] /\ refresh \in [Requests -> RefreshStates]
      /\ member /\ RequestSettled(q) /\ RefreshSettled(q)
      /\ \A r \in Requests : RequestSettled(r) /\ RefreshSettled(r)
      /\ saved.access \in 0 .. MaxPairs /\ saved.refresh \in 0 .. MaxPairs /\ MaxPairs \in Nat
      /\ OneTab
      /\ \A r \in Requests \ {q} : refresh[q].at # "idle" => refresh[r].at = "idle"
  BY CalmFacts, SessionAssumption
<1>1. CASE AwaitRefresh(q)
  <2>1. PICK n \in 0 .. MaxPairs : n = saved.refresh
    BY <1>0
  <2>2. logins > 0 /\ saved # NoTokens /\ n # 0
    <3>1. logins > 0
      BY <1>0, <1>1 DEF AwaitRefresh, RequestSettled
    <3> QED BY <2>1, <3>1, CalmFacts
  <2>3. /\ UNCHANGED <<issued, alive, blacklist, old, saved, logins, reused, rejected>>
        /\ request' = [request EXCEPT ![q].at = "waiting"]
        /\ \/ UNCHANGED refresh
           \/ /\ \A r \in Requests : refresh[r].at = "idle"
              /\ refresh' = [refresh EXCEPT ![q] = [IdleRefresh EXCEPT !.at = "check", !.uses = n]]
    BY <1>1, <2>1, <2>2, CalmFacts DEF AwaitRefresh, redisVars, historyVars
  <2>4. [IdleRefresh EXCEPT !.at = "check", !.uses = n].at = "check"
        /\ [IdleRefresh EXCEPT !.at = "check", !.uses = n].uses = n
    <3>1. IdleRefresh \in RefreshStates
      BY <1>0, TabRecords
    <3> QED BY <3>1 DEF RefreshStates
  <2>5. Settled'
    BY <1>0, <2>3, <2>4 DEF Settled
  <2>6. (\A r \in Requests : refresh[r].at = "idle") => n \in alive
    BY <1>0, <2>1, <2>2 DEF Settled
  <2>7. ASSUME NEW r \in Requests PROVE RefreshSettled(r)'
    <3>1. RefreshSettled(r)
      BY <1>0
    <3>2. \/ refresh'[r] = refresh[r]
          \/ refresh'[r].at = "check" /\ refresh'[r].uses \in alive
      BY <1>0, <2>3, <2>4, <2>6
    <3> QED BY <2>2, <2>3, <3>1, <3>2 DEF RefreshSettled
  <2>8. ASSUME NEW r \in Requests PROVE RequestSettled(r)'
    <3>1. RequestSettled(r)
      BY <1>0
    <3>2. \/ request'[r] = request[r]
          \/ /\ request'[r].at = "waiting" /\ request'[r].out = request[r].out
             /\ request'[r].retried = request[r].retried /\ request'[r].access = request[r].access
      BY <1>0, <2>3 DEF RequestStates
    <3> QED BY <2>2, <2>3, <3>1, <3>2 DEF RequestSettled
  <2> QED BY <2>5, <2>7, <2>8 DEF AllSettled
<1>2. CASE TakePair(q)
  <2>1. PICK n \in Nat : n = refresh[q].got
    BY <1>0 DEF RefreshStates
  <2>2. /\ n \in alive /\ n = issued /\ saved.access < n /\ logins > 0
        /\ \A r \in Requests \ {q} : refresh[r].at = "idle"
    BY <1>0, <1>2, <2>1 DEF TakePair, RefreshSettled
  <2>3. /\ UNCHANGED <<issued, alive, blacklist, old, logins, reused, rejected>>
        /\ saved' = [access |-> n, refresh |-> n]
        /\ refresh' = [refresh EXCEPT ![q] = IdleRefresh]
        /\ \A r \in Requests :
             \/ request'[r] = request[r]
             \/ /\ request[r].at = "waiting"
                /\ request'[r] = [request[r] EXCEPT !.at = "sent", !.access = n, !.retried = TRUE]
    BY <1>2, <2>1 DEF TakePair, redisVars, historyVars
  <2>4. saved'.access = n /\ saved'.refresh = n /\ saved' # NoTokens /\ n \notin old
    <3>1. saved'.access = n /\ saved'.refresh = n
      BY <2>3
    <3>2. n # 0
      BY <1>0, <2>1, <2>2
    <3> QED BY <1>0, <2>2, <3>1, <3>2 DEF NoTokens, Settled
  <2>a. old \subseteq 1 .. n
    <3>1. old \subseteq 1 .. saved.access
      BY <1>0 DEF Settled
    <3>2. 1 .. saved.access \subseteq 1 .. n
      BY <1>0, <2>2
    <3> QED BY <3>1, <3>2
  <2>5. Settled'
    <3>0. UNCHANGED <<issued, alive, blacklist, old, logins, reused, rejected>>
      BY <2>3
    <3>1. ~reused' /\ ~rejected' /\ blacklist' = {} /\ logins' # 0
      BY <1>0, <2>2, <3>0 DEF Settled
    <3>2. old' \subseteq 1 .. saved'.access
      BY <2>3, <2>4, <2>a
    <3>3. saved'.access <= issued' /\ saved'.refresh \in alive'
      BY <1>0, <2>2, <2>4, <3>0
    <3> QED BY <2>4, <3>1, <3>2, <3>3 DEF Settled
  <2>6. ASSUME NEW r \in Requests PROVE RefreshSettled(r)'
    <3>1. IdleRefresh.at = "idle"
      BY <1>0, TabRecords
    <3>2. refresh'[r].at = "idle"
      BY <1>0, <2>2, <2>3, <3>1
    <3> QED BY <3>2 DEF RefreshSettled
  <2>7. ASSUME NEW r \in Requests PROVE RequestSettled(r)'
    <3>1. RequestSettled(r)
      BY <1>0
    <3>2. \/ request'[r] = request[r]
          \/ /\ request'[r].at = "sent" /\ request'[r].out = request[r].out
             /\ request'[r].access = n
      BY <1>0, <2>3 DEF RequestStates
    <3> QED BY <2>2, <2>3, <2>4, <3>1, <3>2 DEF RequestSettled
  <2> QED BY <2>5, <2>6, <2>7 DEF AllSettled
<1>3. CASE GoToLogin(q)
  BY <1>0, <1>3 DEF GoToLogin, RefreshSettled
<1>4. CASE LoseRefresh(q)
  <2>1. losses' = losses - 1 /\ losses' = losses /\ losses \in Nat
    BY <1>4 DEF LoseRefresh, CalmTab, SessionTypeOK
  <2> QED BY <2>1
<1>5. CASE CheckRefresh(q) \/ SpendRefresh(q) \/ AnswerRefresh(q)
  <2>1. /\ UNCHANGED <<request, saved, old, blacklist, logins, rejected>>
        /\ logins > 0
        /\ \A r \in Requests \ {q} : refresh'[r] = refresh[r] /\ refresh[r].at = "idle"
    BY <1>0, <1>5 DEF CheckRefresh, SpendRefresh, AnswerRefresh, RefreshSettled,
       historyVars
  <2>2. /\ issued' \in {issued, issued + 1} /\ ~reused'
        /\ refresh'[q].at \in {"spend", "issue", "answered"}
        /\ refresh'[q].at = "spend" => refresh'[q].uses \in alive'
        /\ refresh'[q].at = "answered" =>
             refresh'[q].got \in alive' /\ refresh'[q].got = issued' /\ issued' = issued + 1
    <3>1. CASE CheckRefresh(q)
      <4>1. refresh[q].uses \in alive
        BY <1>0, <3>1 DEF CheckRefresh, RefreshSettled
      <4>2. refresh' = [refresh EXCEPT ![q].at = "spend"] /\ alive' = alive /\ issued' = issued
        BY <3>1, <4>1 DEF CheckRefresh
      <4>3. ~reused'
        BY <1>0, <3>1, <4>1 DEF CheckRefresh, Settled
      <4> QED BY <1>0, <4>1, <4>2, <4>3 DEF RefreshStates
    <3>2. CASE SpendRefresh(q)
      <4>1. refresh' = [refresh EXCEPT ![q].at = "issue"] /\ issued' = issued /\ ~reused'
        BY <1>0, <3>2 DEF SpendRefresh, Settled, historyVars
      <4> QED BY <1>0, <4>1 DEF RefreshStates
    <3>3. CASE AnswerRefresh(q)
      <4>1. /\ refresh' = [refresh EXCEPT ![q].at = "answered", ![q].got = issued']
            /\ issued' = issued + 1 /\ alive' = alive \cup {issued'} /\ ~reused'
        BY <1>0, <3>3 DEF AnswerRefresh, IssuePair, Settled, historyVars
      <4> QED BY <1>0, <4>1 DEF RefreshStates
    <3> QED BY <1>5, <3>1, <3>2, <3>3
  <2>3. Settled'
    BY <1>0, <2>1, <2>2 DEF Settled
  <2>4. ASSUME NEW r \in Requests PROVE RequestSettled(r)'
    BY <1>0, <2>1 DEF RequestSettled
  <2>5. ASSUME NEW r \in Requests PROVE RefreshSettled(r)'
    <3>1. CASE r = q
      BY <1>0, <2>1, <2>2, <3>1 DEF RefreshSettled, Settled
    <3>2. CASE r # q
      BY <2>1, <3>2 DEF RefreshSettled
    <3> QED BY <3>1, <3>2
  <2> QED BY <2>3, <2>4, <2>5 DEF AllSettled
<1> QED BY <1>1, <1>2, <1>3, <1>4, <1>5

LEMMA SInvStep == SInv /\ [SessionNext]_sessionVars => SInv'
<1> SUFFICES ASSUME SInv, [SessionNext]_sessionVars PROVE SInv'
  OBVIOUS
<1>1. SessionTypeOK' /\ logins' <= issued'
  BY SessionTypeKept DEF SInv
<1>2. RealTokens' /\ Store'
  BY <1>1, RealTokensKept, TokensKept DEF SInv
<1>3. ASSUME Calm' PROVE AllSettled'
  <2>1. CalmTab
    BY <1>3, CalmBefore DEF SInv, CalmTab
  <2> QED BY <2>1, CalmRequests, CalmStore, CalmRefresh DEF SessionNext, RequestStep
<1> QED BY <1>1, <1>2, <1>3 DEF SInv

\* Before the first login there is nothing to settle.
LEMMA InitSInv == SessionInit => SInv
<1> SUFFICES ASSUME SessionInit PROVE SInv
  OBVIOUS
<1> USE SessionAssumption DEF SessionInit
<1>1. IdleRequest \in RequestStates /\ IdleRequest.at = "idle" /\ ~IdleRequest.retried /\ ~IdleRequest.out
  BY TabRecords
<1>2. /\ IdleRefresh \in RefreshStates /\ IdleRefresh.at = "idle"
      /\ NoTokens \in [access : 0 .. MaxPairs, refresh : 0 .. MaxPairs]
  BY TabRecords
<1>3. SessionTypeOK
  <2>1. TabTypes
    BY <1>1, <1>2 DEF TabTypes
  <2>2. member \in BOOLEAN /\ reused \in BOOLEAN /\ rejected \in BOOLEAN /\ logouts \in BOOLEAN
    OBVIOUS
  <2>3. StoreTypes
    BY <2>2 DEF StoreTypes
  <2> QED BY <2>1, <2>3, SessionTypes
<1>4. RealTokens /\ OneRefresh /\ Issuing = {}
  BY <1>1, <1>2 DEF RealTokens, OneRefresh, Issuing
<1>5. PairsCounted
  BY <1>4, FS_EmptySet DEF PairsCounted
<1>6. NoTokens.access = 0 /\ NoTokens.refresh = 0
  BY DEF NoTokens
<1>7. Settled
  BY <1>6 DEF Settled
<1>8. \A q \in Requests : RequestSettled(q) /\ RefreshSettled(q)
  BY <1>1, <1>2 DEF RequestSettled, RefreshSettled
<1> QED BY <1>3, <1>4, <1>5, <1>7, <1>8 DEF SInv, Store, AllSettled

\* Store and tab agree after any interleaving of requests, refusals, refreshes, lost answers
\* and a logout (auth_service.py:108-160, api.ts:42-99).
THEOREM SessionsInvariant == SessionSpec => []SInv
<1> QED BY InitSInv, SInvStep, PTL DEF SessionSpec

\* More refresh tokens are good than there were logins by no more than the refreshes whose
\* token another spent between their EXISTS and their DEL, for any number of tabs
\* (auth_service.py:115-136).
THEOREM SessionsAreCountedHolds == SessionSpec => []SessionsAreCounted
<1>1. SInv => SessionsAreCounted
  <2> SUFFICES ASSUME SInv PROVE Cardinality(alive) <= logins + doubled
    BY DEF SessionsAreCounted
  <2>1. logins \in Nat /\ doubled \in Nat /\ issued \in Nat /\ alive \in SUBSET (1 .. issued)
        /\ Cardinality(alive) + Cardinality(Issuing) <= logins + doubled
    BY DEF SInv, Store, PairsCounted, SessionTypeOK
  <2>2. Cardinality(alive) \in Nat
    BY <2>1, AliveCounts
  <2> QED BY <2>1, <2>2, IssuingCounts
<1> QED BY <1>1, SessionsInvariant, PTL

\* In one tab, without a logout, a removal or a lost answer, no refresh token is used twice
\* and nobody is sent to /login, however many requests are refused at once and however
\* they overlap with the refresh (api.ts:63-85, auth_service.py:115-134).
THEOREM NobodyIsThrownOutHolds == SessionSpec => []NobodyIsThrownOut
<1>1. SInv => NobodyIsThrownOut
  <2> SUFFICES ASSUME SInv, Calm
               PROVE  ~reused /\ ~rejected /\ (logins > 0 => saved # NoTokens)
    BY DEF NobodyIsThrownOut, Calm
  <2> QED BY DEF SInv, AllSettled, Settled
<1> QED BY <1>1, SessionsInvariant, PTL

-----------------------------------------------------------------------------
(* Teams.                                                                   *)

\* A request to create is about to commit a slot, invited and removed are people.
RowsFit ==
  \A c \in Calls :
    /\ call[c].op = "create" /\ call[c].at = "commit" => call[c].row \in Slots
    /\ call[c].op \in {"invite", "remove"} => call[c].row \in People

\* Requests to create that passed the limit and have not committed.
Creating == {c \in Calls : call[c].op = "create" /\ call[c].at \in {"write", "commit"}}

RoomLeft == Cardinality(monitors) + Cardinality(Creating) < Limit + Cardinality(Calls)

TInv == TeamTypeOK /\ RowsFit /\ AuditedWritesNameMembers /\ RoomLeft

CallRecord == [at : {"idle", "check", "write", "commit"}, by : People, op : Ops,
               row : People \cup Slots \cup {Nothing}]

\* The team begins with its admin and nobody removed.
LEMMA TeamInitTInv == TeamInit => TInv
<1> SUFFICES ASSUME TeamInit PROVE TInv
  OBVIOUS
<1> USE TeamAssumption
<1>1. TeamTypeOK
  BY DEF TeamInit, TeamTypeOK, NoCall, Ops
<1>2. RowsFit /\ AuditedWritesNameMembers
  BY DEF TeamInit, RowsFit, AuditedWritesNameMembers, NoCall
<1>3. RoomLeft
  <2>1. Creating = {} /\ monitors = {}
    BY DEF TeamInit, Creating, NoCall
  <2>2. Cardinality({}) = 0 /\ Cardinality(Calls) \in Nat /\ Cardinality(Calls) # 0
    BY FS_EmptySet, FS_CardinalityType
  <2> QED BY <2>1, <2>2 DEF RoomLeft
<1> QED BY <1>1, <1>2, <1>3 DEF TInv

\* What a step does to one request and what it leaves alone.
LEMMA CallFrame ==
  ASSUME TInv, NEW c \in Calls, NEW k \in CallRecord, call' = [call EXCEPT ![c] = k]
  PROVE  /\ call' \in [Calls -> CallRecord]
         /\ call'[c] = k
         /\ \A d \in Calls \ {c} : call'[d] = call[d]
  BY DEF TInv, TeamTypeOK, CallRecord

\* The numbers RoomLeft adds are numbers.
LEMMA Counts ==
  ASSUME TeamTypeOK
  PROVE  /\ IsFiniteSet(monitors) /\ Cardinality(monitors) \in Nat
         /\ IsFiniteSet(Creating) /\ Cardinality(Creating) \in Nat
         /\ Cardinality(Creating) <= Cardinality(Calls) /\ Cardinality(Calls) \in Nat
<1>1. monitors \in SUBSET Slots /\ Creating \in SUBSET Calls
  BY DEF TeamTypeOK, Creating
<1>2. IsFiniteSet(monitors) /\ IsFiniteSet(Creating) /\ Cardinality(Creating) <= Cardinality(Calls)
  BY <1>1, FS_Subset, TeamAssumption
<1> QED BY <1>2, FS_CardinalityType, TeamAssumption

\* A step that lets nobody past the limit and adds no monitor.
LEMMA RoomKept ==
  ASSUME TInv, monitors' \subseteq monitors, Creating' \subseteq Creating
  PROVE  RoomLeft'
<1>1. /\ Cardinality(monitors') <= Cardinality(monitors) /\ Cardinality(monitors') \in Nat
      /\ Cardinality(Creating') <= Cardinality(Creating) /\ Cardinality(Creating') \in Nat
  BY Counts, FS_Subset, FS_CardinalityType DEF TInv
<1> QED BY <1>1, Counts, TeamAssumption DEF TInv, RoomLeft

\* A request that ends without a commit, or a step that changes nothing.
LEMMA LeaveStep ==
  ASSUME TInv, NEW c \in Calls, Leave(c), UNCHANGED <<users, removed, monitors>>
  PROVE  TInv'
<1>1. NoCall \in CallRecord
  BY TeamAssumption DEF NoCall, CallRecord, Ops
<1>2. /\ call' \in [Calls -> CallRecord] /\ call'[c] = NoCall
      /\ \A d \in Calls \ {c} : call'[d] = call[d]
  BY <1>1, CallFrame DEF Leave
<1>3. TeamTypeOK'
  BY <1>2 DEF TInv, TeamTypeOK, CallRecord
<1>4. RowsFit' /\ AuditedWritesNameMembers'
  BY <1>2 DEF TInv, RowsFit, AuditedWritesNameMembers, NoCall
<1>5. Creating' \subseteq Creating
  BY <1>2 DEF Creating, NoCall
<1> QED BY <1>3, <1>4, <1>5, RoomKept DEF TInv

\* get_current_user reads the row of who asks (deps.py).
LEMMA AuthenticateStep ==
  ASSUME TInv, NEW c \in Calls, NEW u \in People, NEW op \in Ops, Authenticate(c, u, op)
  PROVE  TInv'
<1>1. PICK row \in People \cup Slots \cup {Nothing} :
        /\ op \in {"invite", "remove"} => row \in People
        /\ call' = [call EXCEPT ![c] = [at |-> "check", by |-> u, op |-> op, row |-> row]]
  BY DEF Authenticate, Targets, OfMembers
<1> DEFINE k == [at |-> "check", by |-> u, op |-> op, row |-> row]
<1>2. k \in CallRecord /\ k.at = "check" /\ k.op = op /\ k.row = row
  BY DEF CallRecord
<1> HIDE DEF k
<1>3. /\ call' \in [Calls -> CallRecord] /\ call'[c] = k
      /\ \A d \in Calls \ {c} : call'[d] = call[d]
  BY <1>1, <1>2, CallFrame DEF k
<1>4. UNCHANGED <<users, removed, monitors>>
  BY DEF Authenticate
<1>5. TeamTypeOK'
  BY <1>3, <1>4 DEF TInv, TeamTypeOK, CallRecord
<1>6. RowsFit' /\ AuditedWritesNameMembers'
  BY <1>1, <1>2, <1>3, <1>4 DEF TInv, RowsFit, AuditedWritesNameMembers
<1>7. Creating' \subseteq Creating
  BY <1>2, <1>3 DEF Creating
<1> QED BY <1>4, <1>5, <1>6, <1>7, RoomKept DEF TInv

\* The one step that lets a request past the limit: there is room for one at that moment.
LEMMA CheckStep ==
  ASSUME TInv, NEW c \in Calls, Check(c)
  PROVE  TInv'
<1>0. UNCHANGED <<users, removed, monitors>>
  BY DEF Check
<1>1. CASE ~MayWrite(c)
  BY <1>0, <1>1, LeaveStep DEF Check
<1>2. CASE MayWrite(c)
  <2> DEFINE k == [call[c] EXCEPT !.at = "write"]
  <2>0. call[c] \in CallRecord
    BY DEF TInv, TeamTypeOK, CallRecord
  <2>1. /\ k \in CallRecord /\ k.at = "write" /\ k.op = call[c].op
        /\ k.row = call[c].row /\ k.by = call[c].by
    BY <2>0 DEF CallRecord
  <2>2. call' = [call EXCEPT ![c] = k]
    BY <1>2 DEF Check, GoOn
  <2> HIDE DEF k
  <2>3. /\ call' \in [Calls -> CallRecord] /\ call'[c] = k
        /\ \A d \in Calls \ {c} : call'[d] = call[d]
    BY <2>1, <2>2, CallFrame
  <2>4. TeamTypeOK'
    BY <1>0, <2>3 DEF TInv, TeamTypeOK, CallRecord
  <2>5. RowsFit' /\ AuditedWritesNameMembers'
    BY <1>0, <2>1, <2>3 DEF TInv, RowsFit, AuditedWritesNameMembers
  <2>6. RoomLeft'
    <3>1. CASE call[c].op = "create"
      <4>1. Cardinality(monitors) < Limit
        BY <1>2, <3>1 DEF MayWrite
      <4>2. Cardinality(Creating') <= Cardinality(Calls) /\ Cardinality(Creating') \in Nat
        <5>1. Creating' \in SUBSET Calls
          BY DEF Creating
        <5> QED BY <5>1, FS_Subset, FS_CardinalityType, TeamAssumption
      <4> QED BY <1>0, <4>1, <4>2, Counts, TeamAssumption DEF RoomLeft, TInv
    <3>2. CASE call[c].op # "create"
      <4>1. Creating' \subseteq Creating
        BY <2>1, <2>3, <3>2 DEF Creating
      <4> QED BY <1>0, <4>1, RoomKept
    <3> QED BY <3>1, <3>2
  <2> QED BY <2>4, <2>5, <2>6 DEF TInv
<1> QED BY <1>1, <1>2

\* A flushed write with an audit row has locked the row of its author.
LEMMA WriteStep ==
  ASSUME TInv, NEW c \in Calls, Write(c)
  PROVE  TInv'
<1>0. UNCHANGED <<users, removed, monitors>> /\ call[c].at = "write"
  BY DEF Write
<1>1. PICK row \in People \cup Slots \cup {Nothing} :
        /\ NewRow(c, row)
        /\ \/ Leave(c)
           \/ Author(c) /\ call' = [call EXCEPT ![c].at = "commit", ![c].row = row]
  BY DEF Write
<1>2. CASE Leave(c)
  BY <1>0, <1>2, LeaveStep
<1>3. CASE Author(c) /\ call' = [call EXCEPT ![c].at = "commit", ![c].row = row]
  <2> DEFINE k == [call[c] EXCEPT !.at = "commit", !.row = row]
  <2>0. call[c] \in CallRecord
    BY DEF TInv, TeamTypeOK, CallRecord
  <2>1. /\ k \in CallRecord /\ k.at = "commit" /\ k.op = call[c].op
        /\ k.row = row /\ k.by = call[c].by
    BY <2>0 DEF CallRecord
  <2>2. call' = [call EXCEPT ![c] = k]
    BY <1>3, <2>0 DEF TInv, TeamTypeOK
  <2> HIDE DEF k
  <2>3. /\ call' \in [Calls -> CallRecord] /\ call'[c] = k
        /\ \A d \in Calls \ {c} : call'[d] = call[d]
    BY <2>1, <2>2, CallFrame
  <2>4. TeamTypeOK'
    BY <1>0, <2>3 DEF TInv, TeamTypeOK, CallRecord
  <2>5. /\ call[c].op = "create" => row \in Slots
        /\ call[c].op \in {"invite", "remove"} => row \in People
    BY <1>1 DEF NewRow, TInv, RowsFit
  <2>6. RowsFit'
    BY <2>1, <2>3, <2>5 DEF TInv, RowsFit
  <2>7. AuditedWritesNameMembers'
    BY <1>0, <1>3, <2>1, <2>3 DEF TInv, AuditedWritesNameMembers, Author
  <2>8. Creating' \subseteq Creating
    BY <1>0, <2>1, <2>3 DEF Creating
  <2> QED BY <1>0, <2>4, <2>6, <2>7, <2>8, RoomKept DEF TInv
<1> QED BY <1>1, <1>2, <1>3

\* A request that created is one monitor more and one request less.
LEMMA CommitStep ==
  ASSUME TInv, NEW c \in Calls, Commit(c)
  PROVE  TInv'
<1>0. call[c].at = "commit" /\ Unlocked(c) /\ Leave(c)
  BY DEF Commit
<1>1. NoCall \in CallRecord
  BY TeamAssumption DEF NoCall, CallRecord, Ops
<1>2. /\ call' \in [Calls -> CallRecord] /\ call'[c] = NoCall
      /\ \A d \in Calls \ {c} : call'[d] = call[d]
  BY <1>0, <1>1, CallFrame DEF Leave
<1>3. TeamTypeOK'
  <2>1. monitors' \in SUBSET Slots
    BY <1>0 DEF TInv, TeamTypeOK, RowsFit, Commit
  <2>2. users' \in SUBSET People
    BY DEF TInv, TeamTypeOK, RowsFit, Commit
  <2>3. removed' \in SUBSET People
    BY DEF TInv, TeamTypeOK, RowsFit, Commit
  <2> QED BY <1>2, <2>1, <2>2, <2>3 DEF TeamTypeOK, CallRecord
<1>6. AuditedWritesNameMembers'
  <2> SUFFICES ASSUME NEW d \in Calls, call'[d].at = "commit", call'[d].op \in Audited
               PROVE  call'[d].by \in users'
    BY DEF AuditedWritesNameMembers
  <2>1. d # c /\ call'[d] = call[d]
    BY <1>2 DEF NoCall
  <2>2. call[d].by \in users
    BY <2>1 DEF TInv, AuditedWritesNameMembers
  <2>3. call[c].op = "remove" => call[d].by # call[c].row
    BY <1>0, <2>1 DEF Unlocked
  <2> QED BY <2>1, <2>2, <2>3 DEF Commit
<1>4. RowsFit'
  BY <1>2 DEF TInv, RowsFit, NoCall
<1>5. RoomLeft'
  <2>1. CASE call[c].op = "create"
    <3>1. monitors' = monitors \cup {call[c].row}
      BY <2>1 DEF Commit
    <3>2. Cardinality(monitors') \in Nat /\ Cardinality(monitors') <= Cardinality(monitors) + 1
      <4> DEFINE M == monitors
                 row == call[c].row
      <4>1. TeamTypeOK /\ IsFiniteSet(M) /\ Cardinality(M) \in Nat
        BY Counts DEF TInv
      <4> HIDE DEF M, row
      <4>2. Cardinality(M \cup {row}) = IF row \in M THEN Cardinality(M) ELSE Cardinality(M) + 1
        BY <4>1, FS_AddElement
      <4>3. Cardinality(M \cup {row}) \in Nat /\ Cardinality(M \cup {row}) <= Cardinality(M) + 1
        BY <4>1, <4>2
      <4> QED BY <3>1, <4>3 DEF M, row
    <3>3. Creating' = Creating \ {c} /\ c \in Creating
      BY <1>0, <1>2, <2>1 DEF Creating, NoCall
    <3>4. Cardinality(Creating') = Cardinality(Creating) - 1
      BY <3>3, Counts, FS_RemoveElement DEF TInv
    <3> QED BY <3>2, <3>4, Counts, TeamAssumption DEF TInv, RoomLeft
  <2>2. CASE call[c].op # "create"
    <3>1. monitors' \subseteq monitors
      BY <2>2 DEF Commit
    <3>2. Creating' \subseteq Creating
      BY <1>2 DEF Creating, NoCall
    <3> QED BY <3>1, <3>2, RoomKept
  <2> QED BY <2>1, <2>2
<1> QED BY <1>3, <1>4, <1>5, <1>6 DEF TInv

LEMMA TInvStep == TInv /\ [TeamNext]_teamVars => TInv'
<1> SUFFICES ASSUME TInv, [TeamNext]_teamVars PROVE TInv'
  OBVIOUS
<1>1. CASE UNCHANGED teamVars
  <2>1. TeamTypeOK' /\ RowsFit' /\ AuditedWritesNameMembers'
    BY <1>1 DEF TInv, TeamTypeOK, RowsFit, AuditedWritesNameMembers, teamVars
  <2>2. RoomLeft'
    BY <1>1, RoomKept DEF Creating, teamVars
  <2> QED BY <2>1, <2>2 DEF TInv
<1>2. ASSUME NEW c \in Calls, NEW u \in People, NEW op \in Ops, Authenticate(c, u, op)
      PROVE  TInv'
  BY <1>2, AuthenticateStep
<1>3. ASSUME NEW c \in Calls, Check(c) PROVE TInv'
  BY <1>3, CheckStep
<1>4. ASSUME NEW c \in Calls, Write(c) PROVE TInv'
  BY <1>4, WriteStep
<1>5. ASSUME NEW c \in Calls, Commit(c) PROVE TInv'
  BY <1>5, CommitStep
<1>6. ASSUME NEW c \in Calls, Abandon(c) PROVE TInv'
  BY <1>6, LeaveStep DEF Abandon
<1> QED BY <1>1, <1>2, <1>3, <1>4, <1>5, <1>6 DEF TeamNext

\* The inductive invariant: types, what requests are about, who may commit and the room
\* that is left below the limit and the requests on their way.
THEOREM TeamInvariant == TeamSpec => []TInv
BY TeamInitTInv, TInvStep, PTL DEF TeamSpec

\* Nothing is committed with an audit row on behalf of somebody who was removed
\* (teams.py:51-76, audit_repository.py).
THEOREM AuditedWritesNameMembersHolds == TeamSpec => []AuditedWritesNameMembers
<1>1. TInv => AuditedWritesNameMembers
  BY DEF TInv
<1> QED BY <1>1, TeamInvariant, PTL

\* The plan limit is passed by fewer monitors than there are requests at once
\* (monitor_service.py:36-42).
THEOREM PlanLimitBoundedHolds == TeamSpec => []PlanLimitBounded
<1>1. TInv => PlanLimitBounded
  BY Counts, TeamAssumption DEF TInv, RoomLeft, PlanLimitBounded
<1> QED BY <1>1, TeamInvariant, PTL

-----------------------------------------------------------------------------
(* The five beside one another.                                             *)

\* The five beside one another do what each does by itself, so that all that is proved of one
\* holds of the API: none writes what another reads.
THEOREM ApiParts ==
  ApiSpec => StatusSpec /\ SessionSpec /\ AnalysisSpec /\ TeamSpec /\ ExportSpec
<1>1. ApiInit => StatusInit /\ SessionInit /\ AnalysisInit /\ TeamInit /\ ExportInit
  BY DEF ApiInit
<1>2. [ApiNext]_<<api, statusVars, sessionVars, analysisVars, teamVars, exportVars>> =>
        /\ [StatusNext]_statusVars /\ [SessionNext]_sessionVars /\ [AnalysisNext]_analysisVars
        /\ [TeamNext]_teamVars /\ [ExportNext]_exportVars
  BY DEF ApiNext
<1> QED BY <1>1, <1>2, PTL DEF ApiSpec, StatusSpec, SessionSpec, AnalysisSpec, TeamSpec, ExportSpec

\* Every variable of the five keeps its type.
THEOREM ApiTypesHold == ApiSpec => []ApiTypeOK
<1>1. PagesInv /\ SInv /\ AInv /\ TInv /\ EInv => ApiTypeOK
  BY DEF PagesInv, SInv, AInv, TInv, EInv, ApiTypeOK
<1> QED BY <1>1, ApiParts, PagesInvariant, SessionsInvariant, AnalysisInvariant, TeamInvariant,
          ExportInvariant, PTL

=============================================================================
