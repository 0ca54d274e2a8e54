------------------------ MODULE WorkerServicesProofs ------------------------
(***************************************************************************)
(* Connecting a Telegram chat, webhooks and heartbeats, for any number of   *)
(* links, chats, polls, webhooks and heartbeats, and all beside each other. *)
(*                                                                         *)
(* TelegramConnect: every update below an offset, be it stored, read by a  *)
(* poll or told to Telegram, was dealt with: it brings no link that waits. *)
(* A poll goes past an update only when that is so, and no link waits      *)
(* again. A link was spent before it is connected.                         *)
(*                                                                         *)
(* Webhooks: a job goes to a webhook that has no receipt of it yet, writes *)
(* "delivered" only for a POST the receiver took, and commits once, at its *)
(* end, for all the webhooks it ran for; nothing is proved of the times.   *)
(***************************************************************************)
EXTENDS MCWorkerServices, HeartbeatsProofs, SequenceTheorems, TLAPS

-----------------------------------------------------------------------------
(* TelegramConnect.                                                         *)

Messages == [token : Tokens \cup {NoToken}, chat : Chats]
PollStates == [at : {"idle", "fetch", "loop", "drop", "find", "create", "mark"},
               from : 0 .. MaxUpdates + 1, next : 1 .. MaxUpdates + 1,
               last : 0 .. MaxUpdates, token : Tokens \cup {NoToken},
               row : Rows \cup {NoRow}]

LinkTypes ==
  /\ link \in [Tokens -> {"new", "pending", "spent", "cancelled", "expired"}]
  /\ done \in [Tokens -> Rows \cup {NoRow}]
  /\ rows \in SUBSET Rows /\ linked \in SUBSET Tokens
  /\ page \in [Tokens -> {"closed", "waiting", "asked", "connected", "expired", "cancelled"}]

UpdateTypes ==
  /\ offset \in 0 .. MaxUpdates + 1 /\ forgotten \in 0 .. MaxUpdates
  /\ inbox \in Seq(Messages) /\ Len(inbox) <= MaxUpdates
  /\ poll \in [Polls -> PollStates]

BudgetTypes == cuts \in 0 .. MaxCuts /\ changes \in 0 .. MaxChanges

\* Updates whose link was dealt with, or that bring none.
Spent == {i \in 1 .. Len(inbox) : inbox[i].token # NoToken => link[inbox[i].token] # "pending"}
SpentBelow(n) == \A i \in 1 .. Len(inbox) : i < n => i \in Spent

Middle == {"drop", "find", "create", "mark"}

\* What a poll read as its offset and what it went past was dealt with, within what was
\* sent; it works on the link of its update.
Fits(x) ==
  /\ x.from <= Len(inbox) + 1 /\ x.last <= Len(inbox) /\ x.next <= x.last + 1
  /\ SpentBelow(x.from) /\ SpentBelow(x.next)
  /\ x.at \in Middle =>
       x.next <= x.last /\ x.token = inbox[x.next].token /\ x.token # NoToken
  /\ x.at \in Middle \ {"drop"} => x.next \in Spent

OffsetInv ==
  /\ forgotten <= Len(inbox) /\ offset <= Len(inbox) + 1
  /\ SpentBelow(forgotten + 1) /\ SpentBelow(offset)

\* A link is made before somebody presses Start, and spent before it is connected.
LinkInv ==
  /\ \A i \in 1 .. Len(inbox) : inbox[i].token # NoToken => link[inbox[i].token] # "new"
  /\ \A t \in linked : link[t] \notin {"new", "pending"}

CInv == ConnectTypeOK /\ LinkInv /\ OffsetInv /\ \A p \in Polls : Fits(poll[p])

-----------------------------------------------------------------------------
\* The types, in links, updates and budgets.
LEMMA ConnectTypes ==
  /\ ConnectTypeOK <=> LinkTypes /\ UpdateTypes /\ BudgetTypes
  /\ ConnectTypeOK' <=> LinkTypes' /\ UpdateTypes' /\ BudgetTypes'
BY DEF ConnectTypeOK, LinkTypes, UpdateTypes, BudgetTypes, Messages, PollStates

\* What the types say of the numbers and of a poll.
LEMMA Numbers ==
  ASSUME ConnectTypeOK
  PROVE  /\ Len(inbox) \in Nat /\ offset \in Nat /\ forgotten \in Nat /\ MaxUpdates \in Nat
         /\ Len(inbox) <= MaxUpdates
         /\ \A i \in 1 .. Len(inbox) : inbox[i] \in Messages
         /\ poll \in [Polls -> PollStates]
         /\ \A x \in PollStates : x.from \in Nat /\ x.next \in Nat /\ x.next >= 1 /\ x.last \in Nat
                                    /\ x.last <= MaxUpdates
<1>1. UpdateTypes /\ MaxUpdates \in Nat
  BY ConnectTypes, ConnectAssumption
<1>2. \A x \in PollStates : x.from \in Nat /\ x.next \in Nat /\ x.next >= 1 /\ x.last \in Nat
                              /\ x.last <= MaxUpdates
  BY <1>1 DEF PollStates
<1>3. Len(inbox) \in Nat /\ \A i \in 1 .. Len(inbox) : inbox[i] \in Messages
  BY <1>1, LenProperties, ElementOfSeq DEF UpdateTypes
<1> QED BY <1>1, <1>2, <1>3 DEF UpdateTypes

\* A step after which every link that was dealt with still is, and every message is there.
LinksForward ==
  \A t \in Tokens : /\ link[t] \notin {"new", "pending"} => link'[t] \notin {"new", "pending"}
                    /\ link[t] # "new" => link'[t] # "new"

Steady ==
  /\ LinksForward /\ Len(inbox') \in Nat /\ Len(inbox) <= Len(inbox')
  /\ \A i \in 1 .. Len(inbox) : inbox'[i] = inbox[i]

\* An update that was dealt with stays so, as no link waits again.
LEMMA SpentStays ==
  ASSUME ConnectTypeOK, LinkInv, Steady
  PROVE  Spent \subseteq Spent'
<1> SUFFICES ASSUME NEW i \in 1 .. Len(inbox), i \in Spent PROVE i \in Spent'
  BY DEF Spent
<1>1. i \in 1 .. Len(inbox') /\ inbox'[i] = inbox[i] /\ inbox[i].token \in Tokens \cup {NoToken}
  BY Numbers DEF Steady, Messages
<1>2. inbox[i].token # NoToken => link[inbox[i].token] \notin {"new", "pending"}
  BY DEF Spent, LinkInv
<1> QED BY <1>1, <1>2 DEF Spent, Steady, LinksForward

\* What lies below the number of an update that was there.
LEMMA BelowStays ==
  ASSUME ConnectTypeOK, LinkInv, Steady, NEW n \in Nat, n <= Len(inbox) + 1, SpentBelow(n)
  PROVE  \A i \in 1 .. Len(inbox') : i < n => i \in Spent'
<1> SUFFICES ASSUME NEW i \in 1 .. Len(inbox'), i < n PROVE i \in Spent'
  OBVIOUS
<1>1. i \in 1 .. Len(inbox)
  BY Numbers DEF Steady
<1> QED BY <1>1, SpentStays DEF SpentBelow

\* A poll that fits goes on to fit while links and updates only move on.
LEMMA FitsStays ==
  ASSUME ConnectTypeOK, LinkInv, Steady, NEW x \in PollStates, Fits(x)
  PROVE  Fits(x)'
<1>1. /\ x.from \in Nat /\ x.last \in Nat /\ x.next \in Nat /\ x.next >= 1
      /\ Len(inbox) \in Nat /\ Len(inbox') \in Nat /\ Len(inbox) <= Len(inbox')
      /\ x.from <= Len(inbox) + 1 /\ x.next <= Len(inbox) + 1
  BY Numbers DEF Steady, Fits
<1>2. /\ \A i \in 1 .. Len(inbox') : i < x.from => i \in Spent'
      /\ \A i \in 1 .. Len(inbox') : i < x.next => i \in Spent'
  BY <1>1, BelowStays DEF Fits
<1>3. x.at \in Middle => x.next \in 1 .. Len(inbox) /\ inbox'[x.next] = inbox[x.next]
  BY <1>1 DEF Fits, Steady
<1> QED BY <1>1, <1>2, <1>3, SpentStays DEF Fits, SpentBelow

\* A step that moves one poll at most.
LEMMA AllFit ==
  ASSUME CInv, Steady, NEW p \in Polls, NEW x \in PollStates, Fits(x)',
         poll' = [poll EXCEPT ![p] = x] \/ poll' = poll
  PROVE  poll' \in [Polls -> PollStates] /\ \A q \in Polls : Fits(poll[q])'
<1>1. poll \in [Polls -> PollStates]
  BY Numbers DEF CInv
<1>2. ASSUME NEW q \in Polls PROVE Fits(poll[q])'
  <2>1. PICK y \in PollStates : y = poll[q] /\ Fits(y)
    BY <1>1 DEF CInv
  <2>2. Fits(y)'
    BY <2>1, FitsStays DEF CInv
  <2>3. poll'[q] = x \/ poll'[q] = y
    BY <1>1, <2>1
  <2> QED BY <2>2, <2>3 DEF Fits
<1> QED BY <1>1, <1>2

\* So do the stored offset and what Telegram was told.
LEMMA OffsetStays ==
  ASSUME CInv, Steady, UNCHANGED <<offset, forgotten>>
  PROVE  OffsetInv'
<1>1. /\ forgotten + 1 \in Nat /\ offset \in Nat /\ forgotten \in Nat
      /\ Len(inbox) \in Nat /\ Len(inbox') \in Nat /\ Len(inbox) <= Len(inbox')
      /\ OffsetInv /\ ConnectTypeOK /\ LinkInv
  BY Numbers DEF CInv, Steady
<1>2. PICK n \in Nat, m \in Nat : n = forgotten + 1 /\ m = offset
  BY <1>1
<1>3. n <= Len(inbox) + 1 /\ m <= Len(inbox) + 1 /\ SpentBelow(n) /\ SpentBelow(m)
  BY <1>1, <1>2 DEF OffsetInv
<1>4. /\ \A i \in 1 .. Len(inbox') : i < n => i \in Spent'
      /\ \A i \in 1 .. Len(inbox') : i < m => i \in Spent'
  BY <1>1, <1>3, BelowStays
<1> QED BY <1>1, <1>2, <1>4 DEF OffsetInv, SpentBelow

\* A poll that has read nothing passed over nothing.
LEMMA IdlePollFits ==
  ASSUME ConnectTypeOK
  PROVE  IdlePoll \in PollStates /\ IdlePoll.at = "idle" /\ Fits(IdlePoll)
<1>1. /\ IdlePoll \in PollStates /\ IdlePoll.at = "idle" /\ IdlePoll.from = 0 /\ IdlePoll.next = 1
      /\ IdlePoll.last = 0
  BY ConnectAssumption DEF IdlePoll, PollStates
<1>2. SpentBelow(0) /\ SpentBelow(1)
  BY DEF SpentBelow
<1> QED BY <1>1, <1>2, Numbers DEF Fits, Middle

-----------------------------------------------------------------------------
\* What the page, handlers, TTLs and users do: no poll moves.
LEMMA PageKept ==
  ASSUME CInv,
         \/ \E t \in Tokens :
              CreateLink(t) \/ CancelLink(t) \/ PageStep(t) \/ ExpireLink(t) \/ ExpireDone(t)
         \/ \E c \in Chats : TypeChannel(c)
         \/ \E r \in rows : DeleteChannel(r)
         \/ UNCHANGED connectVars
  PROVE  CInv'
<1>0. /\ LinkTypes /\ UpdateTypes /\ BudgetTypes /\ LinkInv /\ ConnectTypeOK
      /\ UNCHANGED <<offset, inbox, forgotten, poll, linked>>
  BY ConnectTypes DEF CInv, CreateLink, CancelLink, PageStep, ReadConnected, ReadPending, ExpireLink,
     ExpireDone, TypeChannel, DeleteChannel, connectVars, linkVars
<1>1. \/ link' = link
      \/ \E t \in Tokens :
           \/ link[t] = "new" /\ link' = [link EXCEPT ![t] = "pending"]
           \/ \E e \in {"cancelled", "expired"} :
                link[t] = "pending" /\ link' = [link EXCEPT ![t] = e]
  <2>1. ASSUME NEW t \in Tokens, CancelLink(t)
        PROVE  link' = link \/ (link[t] = "pending" /\ link' = [link EXCEPT ![t] = "cancelled"])
    <3>1. CASE link[t] = "pending"
      BY <2>1, <3>1 DEF CancelLink
    <3>2. CASE link[t] # "pending"
      BY <1>0, <2>1, <3>2 DEF CancelLink, LinkTypes
    <3> QED BY <3>1, <3>2
  <2> QED BY <2>1 DEF CreateLink, PageStep, ReadConnected, ReadPending, ExpireLink, ExpireDone,
                      TypeChannel, DeleteChannel, connectVars, linkVars
<1>2. LinkTypes'
  <2>1. link' \in [Tokens -> {"new", "pending", "spent", "cancelled", "expired"}]
    BY <1>0, <1>1 DEF LinkTypes
  <2>2. page' \in [Tokens -> {"closed", "waiting", "asked", "connected", "expired", "cancelled"}]
    BY <1>0 DEF LinkTypes, CreateLink, CancelLink, PageStep, ReadConnected, ReadPending, ExpireLink,
       ExpireDone, TypeChannel, DeleteChannel, connectVars, linkVars
  <2>3. done' \in [Tokens -> Rows \cup {NoRow}]
    BY <1>0 DEF LinkTypes, CreateLink, CancelLink, PageStep, ReadConnected, ReadPending, ExpireLink,
       ExpireDone, TypeChannel, DeleteChannel, connectVars, linkVars
  <2>4. rows' \in SUBSET Rows
    <3>1. \A c \in Chats : [by |-> NoToken, in |-> NoPoll, chat |-> c] \in Rows
      BY DEF Rows
    <3> QED BY <1>0, <3>1 DEF LinkTypes, CreateLink, CancelLink, PageStep, ReadConnected, ReadPending,
       ExpireLink, ExpireDone, TypeChannel, DeleteChannel, connectVars, linkVars
  <2> QED BY <1>0, <2>1, <2>2, <2>3, <2>4 DEF LinkTypes
<1>3. BudgetTypes'
  <2>1. UNCHANGED cuts /\ (changes' = changes \/ (changes > 0 /\ changes' = changes - 1))
    BY DEF CreateLink, CancelLink, PageStep, ReadConnected, ReadPending, ExpireLink,
       ExpireDone, TypeChannel, DeleteChannel, connectVars, linkVars, Change
  <2> QED BY <1>0, <2>1, ConnectAssumption DEF BudgetTypes
<1>4. ConnectTypeOK'
  <2>1. UpdateTypes'
    BY <1>0 DEF UpdateTypes
  <2> QED BY <1>2, <1>3, <2>1, ConnectTypes
<1>5. Steady
  <2>1. LinksForward
    BY <1>0, <1>1 DEF LinksForward, LinkTypes
  <2> QED BY <1>0, <2>1, Numbers DEF Steady
<1>6. LinkInv'
  <2>1. \A i \in 1 .. Len(inbox) : inbox[i].token \in Tokens \cup {NoToken}
    BY <1>0, Numbers DEF Messages
  <2> QED BY <1>0, <1>5, <2>1 DEF LinkInv, Steady, LinksForward, LinkTypes
<1>7. OffsetInv'
  BY <1>0, <1>5, OffsetStays
<1>8. ASSUME NEW p \in Polls PROVE Fits(poll[p])'
  <2>1. PICK x \in PollStates : x = poll[p] /\ Fits(x)
    BY <1>0 DEF UpdateTypes, CInv
  <2>2. Fits(x)'
    BY <1>0, <1>5, <2>1, FitsStays
  <2> QED BY <1>0, <1>5, <2>1, <2>2, AllFit
<1> QED BY <1>4, <1>6, <1>7, <1>8 DEF CInv

\* A message to the bot.
LEMMA MessageKept ==
  ASSUME CInv, NEW t \in Tokens \cup {NoToken}, NEW c \in Chats, SendMessage(t, c)
  PROVE  CInv'
<1> DEFINE m == [token |-> t, chat |-> c]
<1>0. /\ LinkTypes /\ UpdateTypes /\ BudgetTypes /\ LinkInv /\ ConnectTypeOK
      /\ UNCHANGED <<link, done, offset, forgotten, poll, linked, rows, page, cuts, changes>>
      /\ inbox' = Append(inbox, m) /\ Len(inbox) < MaxUpdates
      /\ Len(inbox) \in Nat /\ MaxUpdates \in Nat
  BY ConnectTypes, Numbers DEF CInv, SendMessage, linkVars
<1>1. m \in Messages /\ m.token = t
  BY DEF Messages
<1>2. /\ inbox' \in Seq(Messages) /\ Len(inbox') = Len(inbox) + 1
      /\ \A i \in 1 .. Len(inbox) : inbox'[i] = inbox[i]
      /\ inbox'[Len(inbox) + 1] = m
  BY <1>0, <1>1, AppendProperties DEF UpdateTypes
<1> HIDE DEF m
<1>3. ConnectTypeOK'
  <2>1. UpdateTypes'
    BY <1>0, <1>2 DEF UpdateTypes
  <2>2. LinkTypes' /\ BudgetTypes'
    BY <1>0 DEF LinkTypes, BudgetTypes
  <2> QED BY <2>1, <2>2, ConnectTypes
<1>4. Steady
  BY <1>0, <1>2 DEF Steady, LinksForward
<1>5. LinkInv'
  <2>1. ASSUME NEW i \in 1 .. Len(inbox'), inbox'[i].token # NoToken
        PROVE  link[inbox'[i].token] # "new"
    <3>1. CASE i \in 1 .. Len(inbox)
      BY <1>0, <1>2, <2>1, <3>1 DEF LinkInv
    <3>2. CASE i = Len(inbox) + 1
      BY <1>1, <1>2, <2>1, <3>2 DEF SendMessage
    <3> QED BY <1>0, <1>2, <3>1, <3>2
  <2> QED BY <1>0, <2>1 DEF LinkInv
<1>6. OffsetInv'
  BY <1>0, <1>4, OffsetStays
<1>7. ASSUME NEW p \in Polls PROVE Fits(poll[p])'
  <2>1. PICK x \in PollStates : x = poll[p] /\ Fits(x)
    BY <1>0 DEF UpdateTypes, CInv
  <2>2. Fits(x)'
    BY <1>0, <1>4, <2>1, FitsStays
  <2> QED BY <1>0, <1>4, <2>1, <2>2, AllFit
<1> QED BY <1>3, <1>5, <1>6, <1>7 DEF CInv

-----------------------------------------------------------------------------
\* A step of one poll that neither confirms nor stores an offset.
LEMMA PollMoves ==
  ASSUME CInv, NEW p \in Polls, NEW x \in PollStates, poll' = [poll EXCEPT ![p] = x],
         UNCHANGED <<inbox, offset, forgotten, changes, page>>,
         done' \in [Tokens -> Rows \cup {NoRow}], rows' \in SUBSET Rows,
         cuts' = cuts \/ (cuts > 0 /\ cuts' = cuts - 1),
         \/ link' = link
         \/ \E t \in Tokens : link[t] = "pending" /\ link' = [link EXCEPT ![t] = "spent"],
         linked' \in SUBSET Tokens, \A t \in linked' : link[t] \notin {"new", "pending"},
         Fits(x) \/ Fits(x)'
  PROVE  CInv'
<1>0. LinkTypes /\ UpdateTypes /\ BudgetTypes /\ LinkInv /\ ConnectTypeOK
  BY ConnectTypes DEF CInv
<1>1. Steady
  <2>1. LinksForward
    BY <1>0 DEF LinksForward, LinkTypes
  <2> QED BY <1>0, <2>1, Numbers DEF Steady
<1>2. Fits(x)'
  BY <1>0, <1>1, FitsStays
<1>3. poll' \in [Polls -> PollStates] /\ \A q \in Polls : Fits(poll[q])'
  BY <1>1, <1>2, AllFit
<1>4. LinkTypes'
  BY <1>0 DEF LinkTypes
<1>5. UpdateTypes'
  BY <1>0, <1>3 DEF UpdateTypes
<1>6. BudgetTypes'
  BY <1>0, ConnectAssumption DEF BudgetTypes
<1>7. ConnectTypeOK'
  BY <1>4, <1>5, <1>6, ConnectTypes
<1>8. LinkInv'
  <2>1. \A i \in 1 .. Len(inbox) : inbox[i].token \in Tokens \cup {NoToken}
    BY <1>0, Numbers DEF Messages
  <2> QED BY <1>0, <1>1, <2>1 DEF LinkInv, Steady, LinksForward, LinkTypes
<1>9. OffsetInv'
  BY <1>1, OffsetStays
<1> QED BY <1>3, <1>7, <1>8, <1>9 DEF CInv

\* The polls that end.
LEMMA CutKept ==
  ASSUME CInv, NEW p \in Polls, CutPoll(p)
  PROVE  CInv'
<1>1. IdlePoll \in PollStates /\ Fits(IdlePoll)
  BY IdlePollFits DEF CInv
<1>2. /\ done \in [Tokens -> Rows \cup {NoRow}] /\ rows \in SUBSET Rows /\ linked \in SUBSET Tokens
      /\ \A t \in linked : link[t] \notin {"new", "pending"}
  BY ConnectTypes DEF CInv, LinkTypes, LinkInv
<1> QED BY <1>1, <1>2, PollMoves DEF CutPoll, linkVars

\* What the state of one poll is.
LEMMA OnePoll ==
  ASSUME CInv, NEW p \in Polls
  PROVE  \E y \in PollStates :
           /\ poll[p] = y /\ Fits(y) /\ y.next \in Nat \ {0} /\ y.last \in Nat /\ y.from \in Nat
           /\ y.next <= y.last =>
                y.next \in 1 .. Len(inbox) /\ inbox[y.next] \in Messages
<1>1. PICK y \in PollStates : poll[p] = y /\ Fits(y)
  BY ConnectTypes DEF CInv, UpdateTypes
<1>2. /\ y.next \in Nat /\ y.next >= 1 /\ y.last \in Nat /\ y.last <= Len(inbox)
      /\ y.from \in Nat /\ Len(inbox) \in Nat
  BY <1>1, Numbers DEF CInv, Fits
<1>3. y.next <= y.last => y.next \in 1 .. Len(inbox)
  BY <1>2
<1> QED BY <1>1, <1>2, <1>3, Numbers DEF CInv

\* The poll that goes on to the next update had dealt with this one.
LEMMA NextUpdateFits ==
  ASSUME CInv, NEW p \in Polls, poll[p].next <= poll[p].last, poll[p].next \in Spent
  PROVE  \E x \in PollStates : NextUpdate(p) = [poll EXCEPT ![p] = x] /\ Fits(x)
<1>1. PICK y \in PollStates :
        /\ poll[p] = y /\ Fits(y) /\ y.next \in Nat \ {0} /\ y.last \in Nat /\ y.from \in Nat
  BY OnePoll
<1>2. poll \in [Polls -> PollStates] /\ Len(inbox) \in Nat /\ MaxUpdates \in Nat
      /\ y.last <= MaxUpdates /\ y.next <= y.last
  BY <1>1, Numbers DEF CInv
<1> DEFINE x == [y EXCEPT !.at = "loop", !.next = @ + 1, !.token = NoToken, !.row = NoRow]
<1>3. /\ x \in PollStates /\ x.at = "loop" /\ x.next = y.next + 1 /\ x.from = y.from
      /\ x.last = y.last
  <2>1. y.next + 1 \in 1 .. MaxUpdates + 1
    BY <1>1, <1>2
  <2> QED BY <1>1, <2>1 DEF PollStates
<1>4. NextUpdate(p) = [poll EXCEPT ![p] = x]
  BY <1>1, <1>2 DEF NextUpdate
<1> HIDE DEF x
<1>5. SpentBelow(x.next)
  <2>1. ASSUME NEW i \in 1 .. Len(inbox), i < y.next + 1 PROVE i \in Spent
    <3>1. i < y.next \/ i = y.next
      BY <1>1, <2>1
    <3> QED BY <1>1, <3>1 DEF Fits, SpentBelow
  <2> QED BY <1>3, <2>1 DEF SpentBelow
<1>6. Fits(x)
  BY <1>1, <1>2, <1>3, <1>5 DEF Fits, Middle
<1> QED BY <1>3, <1>4, <1>6

\* One lemma per step of a poll (telegram_poller.py): it keeps CInv.
LEMMA ReadOffsetKept ==
  ASSUME CInv, NEW p \in Polls, ReadOffset(p)
  PROVE  CInv'
<1>1. IdlePoll \in PollStates /\ Fits(IdlePoll)
  BY IdlePollFits DEF CInv
<1>2. offset \in 0 .. MaxUpdates + 1 /\ OffsetInv
  BY ConnectTypes DEF CInv, UpdateTypes
<1>3. PICK x \in PollStates : x = [IdlePoll EXCEPT !.at = "fetch", !.from = offset]
  BY <1>1, <1>2 DEF PollStates
<1>4. x.at = "fetch" /\ x.from = offset /\ x.next = IdlePoll.next /\ x.last = IdlePoll.last
  BY <1>1, <1>3 DEF PollStates
<1>5. Fits(x)
  BY <1>1, <1>2, <1>4 DEF Fits, OffsetInv, Middle
<1>6. /\ done \in [Tokens -> Rows \cup {NoRow}] /\ rows \in SUBSET Rows /\ linked \in SUBSET Tokens
      /\ \A t \in linked : link[t] \notin {"new", "pending"}
  BY ConnectTypes DEF CInv, LinkTypes, LinkInv
<1> QED BY <1>3, <1>5, <1>6, PollMoves DEF ReadOffset, linkVars

LEMMA SkipMessageKept ==
  ASSUME CInv, NEW p \in Polls, SkipMessage(p)
  PROVE  CInv'
<1>1. poll[p].next <= poll[p].last /\ poll[p].next \in Spent
  BY OnePoll DEF SkipMessage, Spent
<1>2. PICK x \in PollStates : NextUpdate(p) = [poll EXCEPT ![p] = x] /\ Fits(x)
  BY <1>1, NextUpdateFits
<1>3. /\ done \in [Tokens -> Rows \cup {NoRow}] /\ rows \in SUBSET Rows /\ linked \in SUBSET Tokens
      /\ \A t \in linked : link[t] \notin {"new", "pending"}
  BY ConnectTypes DEF CInv, LinkTypes, LinkInv
<1> QED BY <1>2, <1>3, PollMoves DEF SkipMessage, linkVars

LEMMA GetLinkKept ==
  ASSUME CInv, NEW p \in Polls, GetLink(p)
  PROVE  CInv'
<1>1. PICK y \in PollStates :
        /\ poll[p] = y /\ Fits(y) /\ y.next \in Nat \ {0} /\ y.last \in Nat /\ y.from \in Nat
        /\ y.next <= y.last =>
             y.next \in 1 .. Len(inbox) /\ inbox[y.next] \in Messages
  BY OnePoll
<1>2. PICK t \in Tokens : t = inbox[y.next].token
  BY <1>1 DEF GetLink, Messages
<1>3. /\ done \in [Tokens -> Rows \cup {NoRow}] /\ rows \in SUBSET Rows /\ linked \in SUBSET Tokens
      /\ \A u \in linked : link[u] \notin {"new", "pending"}
      /\ poll \in [Polls -> PollStates]
  BY ConnectTypes DEF CInv, LinkTypes, UpdateTypes, LinkInv
<1>4. y.next <= y.last /\ y.next \in 1 .. Len(inbox) /\ t # NoToken
  BY <1>1, <1>2, ConnectAssumption DEF GetLink
<1>5. CASE link[t] = "pending"
  <2>1. PICK x \in PollStates : x = [y EXCEPT !.at = "drop", !.token = t]
    BY <1>1 DEF PollStates
  <2>2. x.at = "drop" /\ x.token = t /\ x.next = y.next /\ x.last = y.last /\ x.from = y.from
    BY <1>1, <2>1 DEF PollStates
  <2>3. Fits(x)
    BY <1>1, <1>2, <1>4, <2>2 DEF Fits, Middle
  <2>4. poll' = [poll EXCEPT ![p] = x]
    BY <1>1, <1>2, <1>3, <1>5, <2>1 DEF GetLink
  <2> QED BY <1>3, <2>3, <2>4, PollMoves DEF GetLink, linkVars
<1>6. CASE link[t] # "pending"
  <2>1. y.next \in Spent
    BY <1>2, <1>4, <1>6 DEF Spent
  <2>2. PICK x \in PollStates : NextUpdate(p) = [poll EXCEPT ![p] = x] /\ Fits(x)
    BY <1>1, <1>4, <2>1, NextUpdateFits
  <2>3. poll' = [poll EXCEPT ![p] = x]
    BY <1>1, <1>2, <1>6, <2>2 DEF GetLink
  <2> QED BY <1>3, <2>2, <2>3, PollMoves DEF GetLink, linkVars
<1> QED BY <1>5, <1>6

LEMMA DropLinkKept ==
  ASSUME CInv, NEW p \in Polls, DropLink(p)
  PROVE  CInv'
<1>1. PICK y \in PollStates :
        /\ poll[p] = y /\ Fits(y) /\ y.next \in Nat \ {0} /\ y.last \in Nat /\ y.from \in Nat
        /\ y.next <= y.last =>
             y.next \in 1 .. Len(inbox) /\ inbox[y.next] \in Messages
  BY OnePoll
<1>2. /\ done \in [Tokens -> Rows \cup {NoRow}] /\ rows \in SUBSET Rows /\ linked \in SUBSET Tokens
      /\ \A u \in linked : link[u] \notin {"new", "pending"}
      /\ link \in [Tokens -> {"new", "pending", "spent", "cancelled", "expired"}]
      /\ poll \in [Polls -> PollStates] /\ LinkInv /\ ConnectTypeOK
  BY ConnectTypes DEF CInv, LinkTypes, UpdateTypes, LinkInv
<1>3. /\ y.at = "drop" /\ y.next <= y.last /\ y.next \in 1 .. Len(inbox)
      /\ y.token = inbox[y.next].token /\ y.token # NoToken
  BY <1>1 DEF DropLink, Fits, Middle
<1>4. PICK t \in Tokens : t = y.token /\ t = inbox[y.next].token
  BY <1>1, <1>3 DEF Messages
<1>5. \/ link' = link
      \/ link[t] = "pending" /\ link' = [link EXCEPT ![t] = "spent"]
  <2>1. link' = [link EXCEPT ![t] = IF link[t] = "pending" THEN "spent" ELSE link[t]]
    BY <1>1, <1>4 DEF DropLink
  <2> QED BY <1>2, <2>1
<1>6. link'[t] \notin {"new", "pending"}
  <2>1. link[t] # "new"
    BY <1>2, <1>3, <1>4 DEF LinkInv
  <2>2. link' = [link EXCEPT ![t] = IF link[t] = "pending" THEN "spent" ELSE link[t]]
    BY <1>1, <1>4 DEF DropLink
  <2> QED BY <1>2, <2>1, <2>2
<1>7. PICK x \in PollStates : x = [y EXCEPT !.at = "find"]
  BY <1>1 DEF PollStates
<1>8. x.at = "find" /\ x.token = t /\ x.next = y.next /\ x.last = y.last /\ x.from = y.from
  BY <1>1, <1>4, <1>7 DEF PollStates
<1>9. poll' = [poll EXCEPT ![p] = x] /\ inbox' = inbox
  BY <1>1, <1>2, <1>7 DEF DropLink, Step
<1>10. Steady
  BY <1>2, <1>5, <1>9, Numbers DEF Steady, LinksForward
<1>11. Fits(x)'
  <2>1. Fits(y)'
    BY <1>1, <1>2, <1>10, FitsStays
  <2>2. x.next \in Spent'
    BY <1>3, <1>4, <1>6, <1>8, <1>9 DEF Spent
  <2>3. /\ x.from <= Len(inbox') + 1 /\ x.last <= Len(inbox') /\ x.next <= x.last + 1
        /\ SpentBelow(x.from)' /\ SpentBelow(x.next)'
    BY <1>8, <2>1 DEF Fits, SpentBelow
  <2> QED BY <1>3, <1>4, <1>8, <1>9, <2>2, <2>3 DEF Fits, Middle
<1> QED BY <1>2, <1>5, <1>9, <1>11, PollMoves DEF DropLink

\* What a poll keeps that goes on with an update whose link is spent.
LEMMA MiddleFits ==
  ASSUME CInv, NEW y \in PollStates, Fits(y), y.at \in Middle \ {"drop"},
         NEW x \in PollStates, x.at \in Middle, x.next = y.next, x.last = y.last,
         x.from = y.from, x.token = y.token
  PROVE  Fits(x)
BY DEF Fits, Middle

LEMMA FindChannelKept ==
  ASSUME CInv, NEW p \in Polls, FindChannel(p)
  PROVE  CInv'
<1>1. PICK y \in PollStates : poll[p] = y /\ Fits(y) /\ y.at = "find"
  BY OnePoll DEF FindChannel
<1>2. /\ done \in [Tokens -> Rows \cup {NoRow}] /\ rows \in SUBSET Rows /\ linked \in SUBSET Tokens
      /\ \A u \in linked : link[u] \notin {"new", "pending"}
      /\ poll \in [Polls -> PollStates]
  BY ConnectTypes DEF CInv, LinkTypes, UpdateTypes, LinkInv
<1>3. \E x \in PollStates : poll' = [poll EXCEPT ![p] = x] /\ Fits(x)
  <2>1. CASE poll' = Step(p, "create")
    <3>1. PICK x \in PollStates : x = [y EXCEPT !.at = "create"]
      BY <1>1 DEF PollStates
    <3>2. /\ x.at = "create" /\ x.token = y.token /\ x.next = y.next /\ x.last = y.last
          /\ x.from = y.from
      BY <1>1, <3>1 DEF PollStates
    <3>3. poll' = [poll EXCEPT ![p] = x]
      BY <1>1, <1>2, <2>1, <3>1 DEF Step
    <3> QED BY <1>1, <3>2, <3>3, MiddleFits DEF Middle
  <2>2. CASE \E r \in rows : poll' = [poll EXCEPT ![p].at = "mark", ![p].row = r]
    <3>1. PICK r \in Rows : poll' = [poll EXCEPT ![p].at = "mark", ![p].row = r]
      BY <1>2, <2>2
    <3>2. PICK x \in PollStates : x = [y EXCEPT !.at = "mark", !.row = r]
      BY <1>1 DEF PollStates
    <3>3. /\ x.at = "mark" /\ x.token = y.token /\ x.next = y.next /\ x.last = y.last
          /\ x.from = y.from
      BY <1>1, <3>2 DEF PollStates
    <3>4. poll' = [poll EXCEPT ![p] = x]
      BY <1>1, <1>2, <3>1, <3>2
    <3> QED BY <1>1, <3>3, <3>4, MiddleFits DEF Middle
  <2>3. CASE poll' = [poll EXCEPT ![p] = IdlePoll]
    BY <2>3, IdlePollFits DEF CInv
  <2> QED BY <2>1, <2>2, <2>3 DEF FindChannel, RowsOf
<1>4. PICK x \in PollStates : poll' = [poll EXCEPT ![p] = x] /\ Fits(x)
  BY <1>3
<1> QED BY <1>2, <1>4, PollMoves DEF FindChannel, linkVars

LEMMA CreateChannelKept ==
  ASSUME CInv, NEW p \in Polls, CreateChannel(p)
  PROVE  CInv'
<1>1. PICK y \in PollStates :
        /\ poll[p] = y /\ Fits(y) /\ y.next \in Nat \ {0} /\ y.last \in Nat /\ y.from \in Nat
        /\ y.next <= y.last =>
             y.next \in 1 .. Len(inbox) /\ inbox[y.next] \in Messages
  BY OnePoll
<1>2. /\ done \in [Tokens -> Rows \cup {NoRow}] /\ rows \in SUBSET Rows /\ linked \in SUBSET Tokens
      /\ \A u \in linked : link[u] \notin {"new", "pending"}
      /\ poll \in [Polls -> PollStates]
  BY ConnectTypes DEF CInv, LinkTypes, UpdateTypes, LinkInv
<1>3. y.at = "create" /\ y.next <= y.last
  BY <1>1 DEF CreateChannel, Fits, Middle
<1>4. PICK r \in Rows : r = [by |-> y.token, in |-> p, chat |-> inbox[y.next].chat]
  BY <1>1, <1>3 DEF Rows, Messages, PollStates
<1>5. PICK x \in PollStates : x = [y EXCEPT !.at = "mark", !.row = r]
  BY <1>1 DEF PollStates
<1>6. /\ x.at = "mark" /\ x.token = y.token /\ x.next = y.next /\ x.last = y.last
      /\ x.from = y.from
  BY <1>1, <1>5 DEF PollStates
<1>7. Fits(x)
  BY <1>1, <1>3, <1>6, MiddleFits DEF Middle
<1>8. poll' = [poll EXCEPT ![p] = x] /\ rows' \in SUBSET Rows
  BY <1>1, <1>2, <1>4, <1>5 DEF CreateChannel
<1> QED BY <1>2, <1>7, <1>8, PollMoves DEF CreateChannel, linkVars

LEMMA MarkConnectedKept ==
  ASSUME CInv, NEW p \in Polls, MarkConnected(p)
  PROVE  CInv'
<1>1. PICK y \in PollStates :
        /\ poll[p] = y /\ Fits(y) /\ y.next \in Nat \ {0} /\ y.last \in Nat /\ y.from \in Nat
        /\ y.next <= y.last =>
             y.next \in 1 .. Len(inbox) /\ inbox[y.next] \in Messages
  BY OnePoll
<1>2. /\ done \in [Tokens -> Rows \cup {NoRow}] /\ rows \in SUBSET Rows /\ linked \in SUBSET Tokens
      /\ \A u \in linked : link[u] \notin {"new", "pending"}
      /\ poll \in [Polls -> PollStates] /\ LinkInv
  BY ConnectTypes DEF CInv, LinkTypes, UpdateTypes, LinkInv
<1>3. /\ y.at = "mark" /\ y.next <= y.last /\ y.next \in Spent /\ y.next \in 1 .. Len(inbox)
      /\ y.token = inbox[y.next].token /\ y.token # NoToken
  BY <1>1 DEF MarkConnected, Fits, Middle
<1>4. y.token \in Tokens /\ link[y.token] \notin {"new", "pending"}
  BY <1>1, <1>2, <1>3 DEF Messages, Spent, LinkInv
<1>5. /\ linked' \in SUBSET Tokens /\ \A u \in linked' : link[u] \notin {"new", "pending"}
      /\ done' \in [Tokens -> Rows \cup {NoRow}]
  BY <1>1, <1>2, <1>4 DEF MarkConnected, PollStates
<1>6. PICK x \in PollStates : NextUpdate(p) = [poll EXCEPT ![p] = x] /\ Fits(x)
  BY <1>1, <1>3, NextUpdateFits
<1> QED BY <1>2, <1>5, <1>6, PollMoves DEF MarkConnected

\* A step of one poll that confirms updates or stores an offset, and nothing else.
LEMMA OffsetMoves ==
  ASSUME CInv, NEW p \in Polls, NEW x \in PollStates, poll' = [poll EXCEPT ![p] = x], Fits(x),
         UNCHANGED <<link, done, rows, inbox, page, linked, cuts, changes>>,
         forgotten' \in Nat, forgotten' <= Len(inbox), SpentBelow(forgotten' + 1),
         offset' \in Nat, offset' <= Len(inbox) + 1, SpentBelow(offset')
  PROVE  CInv'
<1>0. LinkTypes /\ UpdateTypes /\ BudgetTypes /\ LinkInv /\ ConnectTypeOK
  BY ConnectTypes DEF CInv
<1>1. Steady
  BY <1>0, Numbers DEF Steady, LinksForward
<1>2. Fits(x)'
  BY <1>0, <1>1, FitsStays
<1>3. poll' \in [Polls -> PollStates] /\ \A q \in Polls : Fits(poll[q])'
  BY <1>1, <1>2, AllFit
<1>4. forgotten' \in 0 .. MaxUpdates /\ offset' \in 0 .. MaxUpdates + 1
  BY <1>0, Numbers
<1>5. LinkTypes' /\ BudgetTypes'
  BY <1>0 DEF LinkTypes, BudgetTypes
<1>6. UpdateTypes'
  BY <1>0, <1>3, <1>4 DEF UpdateTypes
<1>7. LinkInv'
  BY <1>0 DEF LinkInv
<1>8. OffsetInv'
  BY DEF OffsetInv, SpentBelow, Spent
<1> QED BY <1>3, <1>5, <1>6, <1>7, <1>8, ConnectTypes DEF CInv

LEMMA FetchUpdatesKept ==
  ASSUME CInv, NEW p \in Polls, FetchUpdates(p)
  PROVE  CInv'
<1>1. PICK y \in PollStates :
        /\ poll[p] = y /\ Fits(y) /\ y.next \in Nat \ {0} /\ y.last \in Nat /\ y.from \in Nat
  BY OnePoll
<1>2. /\ poll \in [Polls -> PollStates] /\ Len(inbox) \in Nat /\ MaxUpdates \in Nat
      /\ Len(inbox) <= MaxUpdates /\ forgotten \in Nat /\ offset \in Nat
  BY Numbers DEF CInv
<1>3. /\ OffsetInv /\ y.at = "fetch"
  BY <1>1 DEF CInv, FetchUpdates
<1>4. PICK n \in Nat : n = IF y.from > forgotten + 1 THEN y.from - 1 ELSE forgotten
  BY <1>1, <1>2
<1>5. forgotten' = n
  BY <1>1, <1>4 DEF FetchUpdates
<1>6. n <= Len(inbox) /\ SpentBelow(n + 1)
  <2>1. CASE y.from > forgotten + 1
    <3>1. n + 1 = y.from
      BY <1>1, <1>2, <1>4, <2>1
    <3> QED BY <1>1, <1>2, <3>1 DEF Fits
  <2>2. CASE ~(y.from > forgotten + 1)
    <3>1. n = forgotten
      BY <1>4, <2>2
    <3> QED BY <1>3, <3>1 DEF OffsetInv
  <2> QED BY <2>1, <2>2
<1>7. PICK l \in Nat : l = IF n + Batch < Len(inbox) THEN n + Batch ELSE Len(inbox)
  BY <1>2, ConnectAssumption
<1>8. l <= Len(inbox) /\ n <= l /\ l <= MaxUpdates
  BY <1>2, <1>6, <1>7, ConnectAssumption
<1>9. \E x \in PollStates : poll' = [poll EXCEPT ![p] = x] /\ Fits(x)
  <2>1. CASE l > n
    <3>1. n + 1 \in 1 .. MaxUpdates + 1 /\ l \in 0 .. MaxUpdates
      BY <1>2, <1>8, <2>1
    <3>2. PICK x \in PollStates : x = [y EXCEPT !.at = "loop", !.next = n + 1, !.last = l]
      BY <1>1, <3>1 DEF PollStates
    <3>3. x.at = "loop" /\ x.next = n + 1 /\ x.last = l /\ x.from = y.from
      BY <1>1, <3>2 DEF PollStates
    <3>4. Fits(x)
      BY <1>1, <1>6, <1>8, <3>3 DEF Fits, Middle
    <3>5. poll' = [poll EXCEPT ![p] = x]
      BY <1>1, <1>2, <1>4, <1>7, <2>1, <3>2 DEF FetchUpdates
    <3> QED BY <3>4, <3>5
  <2>2. CASE ~(l > n)
    <3>1. poll' = [poll EXCEPT ![p] = IdlePoll]
      BY <1>1, <1>2, <1>4, <1>7, <2>2 DEF FetchUpdates
    <3> QED BY <3>1, IdlePollFits DEF CInv
  <2> QED BY <2>1, <2>2
<1>10. PICK x \in PollStates : poll' = [poll EXCEPT ![p] = x] /\ Fits(x)
  BY <1>9
<1>11. offset <= Len(inbox) + 1 /\ SpentBelow(offset)
  BY <1>3 DEF OffsetInv
<1>12. UNCHANGED <<link, done, offset, rows, inbox, page, linked, cuts, changes>>
  BY DEF FetchUpdates, linkVars
<1>13. /\ forgotten' \in Nat /\ forgotten' <= Len(inbox) /\ SpentBelow(forgotten' + 1)
       /\ offset' \in Nat /\ offset' <= Len(inbox) + 1 /\ SpentBelow(offset')
  BY <1>2, <1>5, <1>6, <1>11, <1>12
<1> QED BY <1>10, <1>12, <1>13, OffsetMoves

LEMMA StoreOffsetKept ==
  ASSUME CInv, NEW p \in Polls, StoreOffset(p)
  PROVE  CInv'
<1>1. PICK y \in PollStates :
        /\ poll[p] = y /\ Fits(y) /\ y.next \in Nat \ {0} /\ y.last \in Nat /\ y.from \in Nat
  BY OnePoll
<1>2. Len(inbox) \in Nat /\ forgotten \in Nat /\ OffsetInv
  BY Numbers DEF CInv
<1>3. y.next > y.last /\ offset' = IF y.last + 1 > y.from THEN y.last + 1 ELSE y.from
  BY <1>1 DEF StoreOffset
<1>4. y.next = y.last + 1 /\ y.last <= Len(inbox) /\ y.from <= Len(inbox) + 1
  BY <1>1, <1>3 DEF Fits
<1>5. SpentBelow(y.last + 1) /\ SpentBelow(y.from)
  BY <1>1, <1>4 DEF Fits
<1>6. offset' \in Nat /\ offset' <= Len(inbox) + 1 /\ SpentBelow(offset')
  <2>1. offset' = y.last + 1 \/ offset' = y.from
    BY <1>3
  <2> QED BY <1>1, <1>2, <1>4, <1>5, <2>1
<1>7. UNCHANGED <<link, done, forgotten, rows, inbox, page, linked, cuts, changes>>
  BY DEF StoreOffset
<1>8. forgotten' \in Nat /\ forgotten' <= Len(inbox) /\ SpentBelow(forgotten' + 1)
  BY <1>2, <1>7 DEF OffsetInv
<1>9. /\ poll' = [poll EXCEPT ![p] = IdlePoll] /\ IdlePoll \in PollStates /\ Fits(IdlePoll)
  BY IdlePollFits DEF CInv, StoreOffset
<1> QED BY <1>6, <1>7, <1>8, <1>9, OffsetMoves

LEMMA CInvStep ==
  ASSUME CInv, [ConnectNext]_connectVars
  PROVE  CInv'
<1>1. CASE \/ \E t \in Tokens :
                CreateLink(t) \/ CancelLink(t) \/ PageStep(t) \/ ExpireLink(t) \/ ExpireDone(t)
           \/ \E c \in Chats : TypeChannel(c)
           \/ \E r \in rows : DeleteChannel(r)
           \/ UNCHANGED connectVars
  BY <1>1, PageKept
<1>2. CASE \E c \in Chats : \E t \in Tokens \cup {NoToken} : SendMessage(t, c)
  BY <1>2, MessageKept
<1>3. ASSUME NEW p \in Polls, ReadOffset(p) \/ PollStep(p) \/ CutPoll(p)
      PROVE  CInv'
  BY <1>3, ReadOffsetKept, FetchUpdatesKept, SkipMessageKept, GetLinkKept, DropLinkKept,
     FindChannelKept, CreateChannelKept, MarkConnectedKept, StoreOffsetKept, CutKept DEF PollStep
<1> QED BY <1>1, <1>2, <1>3 DEF ConnectNext

LEMMA InitCInv == ConnectInit => CInv
<1> SUFFICES ASSUME ConnectInit PROVE CInv
  OBVIOUS
<1>1. inbox = <<>> /\ Len(inbox) = 0 /\ inbox \in Seq(Messages)
  BY EmptySeq DEF ConnectInit
<1>2. IdlePoll \in PollStates /\ IdlePoll.from = 0 /\ IdlePoll.next = 1 /\ IdlePoll.last = 0
      /\ IdlePoll.at = "idle"
  BY ConnectAssumption DEF IdlePoll, PollStates
<1>3. LinkTypes
  BY DEF ConnectInit, LinkTypes
<1>4. UpdateTypes
  BY <1>1, <1>2, ConnectAssumption DEF ConnectInit, UpdateTypes
<1>5. BudgetTypes
  BY ConnectAssumption DEF ConnectInit, BudgetTypes
<1>6. LinkInv
  BY <1>1 DEF ConnectInit, LinkInv
<1>7. OffsetInv
  BY <1>1 DEF ConnectInit, OffsetInv, SpentBelow
<1>8. Fits(IdlePoll)
  BY <1>1, <1>2 DEF Fits, SpentBelow, Middle
<1>9. \A p \in Polls : Fits(poll[p])
  BY <1>8 DEF ConnectInit
<1> QED BY <1>3, <1>4, <1>5, <1>6, <1>7, <1>9, ConnectTypes DEF CInv

\* What the polls know of the links: everything below an offset was dealt with.
THEOREM ConnectInvariant == ConnectSpec => []CInv
<1>1. ConnectInit => CInv
  BY InitCInv
<1>2. CInv /\ [ConnectNext]_connectVars => CInv'
  BY CInvStep
<1> QED BY <1>1, <1>2, PTL DEF ConnectSpec

\* No Start is lost to the offset.
THEOREM ConfirmedStartsAreSpentHolds == ConnectSpec => []ConfirmedStartsAreSpent
<1>1. CInv => ConfirmedStartsAreSpent
  <2> SUFFICES ASSUME CInv, NEW i \in 1 .. Len(inbox), i <= forgotten \/ i < offset,
                      inbox[i].token # NoToken
               PROVE  link[inbox[i].token] # "pending"
    BY DEF ConfirmedStartsAreSpent
  <2>1. i < forgotten + 1 \/ i < offset
    BY Numbers DEF CInv
  <2>2. i \in Spent
    BY <2>1 DEF CInv, OffsetInv, SpentBelow
  <2> QED BY <2>2 DEF Spent
<1> QED BY <1>1, ConnectInvariant, PTL

\* A link is taken up only while it waits, and a connected one waits no more.
LEMMA ConnectedNotTaken ==
  ASSUME CInv, [ConnectNext]_connectVars, NEW t \in linked, ~Held(t)
  PROVE  ~Held(t)'
<1> SUFFICES ASSUME NEW q \in Polls, poll'[q].token = t PROVE FALSE
  BY DEF Held
<1>1. /\ t \in Tokens /\ link[t] \notin {"new", "pending"} /\ poll \in [Polls -> PollStates]
      /\ t # NoToken
  BY ConnectTypes, ConnectAssumption DEF CInv, LinkTypes, UpdateTypes, LinkInv
<1>2. poll[q] \in PollStates /\ poll[q].token # t
  BY <1>1 DEF Held
<1>3. PICK p \in Polls : ReadOffset(p) \/ PollStep(p) \/ CutPoll(p)
  <2>1. poll' # poll
    BY <1>2
  <2> QED BY <2>1 DEF ConnectNext, CreateLink, CancelLink, PageStep, ReadConnected, ReadPending,
                      ExpireLink, ExpireDone, TypeChannel, DeleteChannel, SendMessage, connectVars
<1>4. q = p
  BY <1>1, <1>2, <1>3 DEF ReadOffset, PollStep, FetchUpdates, SkipMessage, GetLink, DropLink,
     FindChannel, CreateChannel, MarkConnected, StoreOffset, CutPoll, Step, NextUpdate
<1>5. PICK y \in PollStates : y = poll[p] /\ y.token # t
  BY <1>2, <1>4
<1>6. poll'[p].token \in {NoToken, y.token} \/ GetLink(p)
  <2>1. IdlePoll.token = NoToken /\ [IdlePoll EXCEPT !.at = "fetch", !.from = offset].token = NoToken
    BY DEF IdlePoll
  <2>2. CASE ReadOffset(p) \/ CutPoll(p) \/ StoreOffset(p)
    BY <1>1, <2>1, <2>2 DEF ReadOffset, CutPoll, StoreOffset
  <2>3. CASE FetchUpdates(p)
    BY <1>1, <1>5, <2>1, <2>3 DEF FetchUpdates, PollStates
  <2>4. CASE SkipMessage(p) \/ MarkConnected(p)
    BY <1>1, <1>5, <2>4 DEF SkipMessage, MarkConnected, NextUpdate, PollStates
  <2>5. CASE DropLink(p) \/ CreateChannel(p)
    BY <1>1, <1>5, <2>5 DEF DropLink, CreateChannel, Step, PollStates
  <2>6. CASE FindChannel(p)
    BY <1>1, <1>5, <2>1, <2>6 DEF FindChannel, Step, PollStates
  <2> QED BY <1>3, <2>2, <2>3, <2>4, <2>5, <2>6 DEF PollStep
<1>7. CASE GetLink(p)
  <2>1. PICK u : u = inbox[y.next].token
    OBVIOUS
  <2>2. CASE link[u] = "pending"
    <3>1. poll'[p].token = u
      BY <1>1, <1>5, <1>7, <2>1, <2>2 DEF GetLink, PollStates
    <3> QED BY <1>1, <1>4, <2>2, <3>1
  <2>3. CASE link[u] # "pending"
    <3>1. poll'[p].token = NoToken
      BY <1>1, <1>5, <1>7, <2>1, <2>3 DEF GetLink, NextUpdate, PollStates
    <3> QED BY <1>1, <1>4, <3>1
  <2> QED BY <2>2, <2>3
<1> QED BY <1>1, <1>4, <1>5, <1>6, <1>7

\* A link is connected once, however often its update is read.
THEOREM ConnectedOnceHolds == ConnectSpec => ConnectedOnce
<1>1. CInv /\ [ConnectNext]_connectVars =>
        [\A t \in Tokens : t \in linked /\ ~Held(t) => ~Held(t)']_connectVars
  BY ConnectedNotTaken
<1> QED BY <1>1, ConnectInvariant, PTL DEF ConnectSpec, ConnectedOnce

-----------------------------------------------------------------------------
(* Webhooks.                                                                *)

JobRecord == [at : {"none", "lost", "queued", "pick", "post", "sleep", "ended"},
              hooks : SUBSET Hooks, ok : SUBSET Hooks, failed : SUBSET Hooks,
              to : Hooks \cup {NoHook}, attempt : 0 .. Attempts, clock : 0 .. JobTimeout]
Receipt == [job : Jobs, hook : Hooks, ok : BOOLEAN]

\* What a job n that was taken by the webhooks g satisfies: it posts to a webhook it has no
\* receipt for, and has one receipt for each of the others it posted to.
Sound(n, g) ==
  /\ n.at \in {"post", "sleep"} => n.to \in Hooks /\ n.to \notin n.ok /\ n.to \notin n.failed
  /\ n.at \in {"post", "sleep"} => n.attempt \in 1 .. Attempts
  /\ n.at = "sleep" => n.attempt < Attempts
  /\ n.ok \subseteq g /\ n.ok \cap n.failed = {}

JobsSound == \A j \in Jobs : Sound(job[j], got[j])

\* The receipts of an event are those of a job that has ended.
ReceiptsAreLast ==
  \A r \in receipts : r.job \in Deliveries => job[r.job].at = "ended"

\* ReceiptsAreWhole for one event.
WholeFor(k) ==
  /\ \A r \in receipts : r.job = k /\ r.ok => r.hook \in got[k]
  /\ \A r, q \in receipts : r.job = k /\ q.job = k /\ r.hook = q.hook => r = q
  /\ (\E r \in receipts : r.job = k) =>
       \A h \in job[k].hooks : \E r \in receipts : r.job = k /\ r.hook = h

HInv == HooksTypeOK /\ JobsSound /\ ReceiptsAreLast /\ ReceiptsAreWhole

-----------------------------------------------------------------------------
\* A job that has not begun, and one that begins again.
LEMMA Idles ==
  /\ IdleJob \in JobRecord /\ IdleJob.at = "none" /\ IdleJob.hooks = {} /\ IdleJob.ok = {}
  /\ IdleJob.failed = {} /\ IdleJob.attempt = 0
  /\ \A g \in SUBSET Hooks : Sound(IdleJob, g)
BY TimesAssumption DEF IdleJob, JobRecord, Sound, Attempts

\* A record that was idle but for its place and its webhooks.
LEMMA Restarted ==
  ASSUME NEW at \in {"none", "lost", "queued", "pick", "ended"}, NEW hooks \in SUBSET Hooks,
         NEW g \in SUBSET Hooks
  PROVE  /\ [IdleJob EXCEPT !.at = at, !.hooks = hooks] \in JobRecord
         /\ Sound([IdleJob EXCEPT !.at = at, !.hooks = hooks], g)
<1> DEFINE n == [IdleJob EXCEPT !.at = at, !.hooks = hooks]
<1>1. IdleJob \in JobRecord /\ IdleJob.failed = {} /\ IdleJob.ok = {} /\ IdleJob.attempt = 0
  BY Idles
<1>2. n \in JobRecord
  BY <1>1 DEF JobRecord
<1>3. n.at = at /\ n.failed = {} /\ n.ok = {} /\ n.attempt = 0
  BY <1>1 DEF JobRecord
<1> HIDE DEF n
<1>4. Sound(n, g)
  BY <1>3 DEF Sound
<1> QED BY <1>2, <1>4 DEF n

\* The numbers of attempts and the place of no webhook.
LEMMA Fields ==
  /\ 0 \in 0 .. Attempts /\ 1 \in 0 .. Attempts /\ 0 \in 0 .. JobTimeout
  /\ NoHook \in Hooks \cup {NoHook}
BY TimesAssumption DEF Attempts

LEMMA HooksInitHInv == HooksInit => HInv
<1> SUFFICES ASSUME HooksInit PROVE HInv
  OBVIOUS
<1>1. HooksTypeOK
  BY Idles, HooksAssumption DEF HooksInit, HooksTypeOK, JobRecord
<1>2. JobsSound
  BY Idles DEF HooksInit, JobsSound
<1>3. ReceiptsAreLast /\ ReceiptsAreWhole
  BY DEF HooksInit, ReceiptsAreLast, ReceiptsAreWhole
<1> QED BY <1>1, <1>2, <1>3 DEF HInv

\* One job moves that has not ended; what receivers took stays taken.
LEMMA JobMoves ==
  ASSUME HInv, HooksTypeOK', NEW j \in Jobs, NEW n \in JobRecord,
         job' = [job EXCEPT ![j] = n], job[j].at # "ended", UNCHANGED receipts,
         \A i \in Jobs : got[i] \subseteq got'[i],
         \A i \in Jobs \ {j} : got'[i] = got[i],
         Sound(n, got'[j])
  PROVE  HInv'
<1>1. /\ job'[j] = n /\ \A i \in Jobs \ {j} : job'[i] = job[i]
  BY DEF HInv, HooksTypeOK
<1>2. JobsSound'
  <2> SUFFICES ASSUME NEW i \in Jobs PROVE Sound(job'[i], got'[i])
    BY DEF JobsSound
  <2>1. CASE i = j
    BY <1>1, <2>1
  <2>2. CASE i # j
    BY <1>1, <2>2 DEF HInv, JobsSound
  <2> QED BY <2>1, <2>2
<1>3. \A r \in receipts : r.job \in Deliveries => r.job \in Jobs \ {j}
  BY DEF HInv, ReceiptsAreLast, Deliveries
<1>4. ReceiptsAreLast'
  BY <1>1, <1>3 DEF HInv, ReceiptsAreLast
<1>5. ReceiptsAreWhole'
  BY <1>1, <1>3 DEF HInv, ReceiptsAreWhole
<1> QED BY <1>2, <1>4, <1>5 DEF HInv

\* The types after a step of one job.
LEMMA JobTypes ==
  ASSUME HooksTypeOK, NEW j \in Jobs, NEW n \in JobRecord, job' = [job EXCEPT ![j] = n],
         UNCHANGED <<incident, active, receipts>>,
         got' = got \/ (job[j].to \in Hooks /\ got' = Took(j)), troubles' = troubles \/ Trouble
  PROVE  /\ HooksTypeOK'
         /\ \A i \in Jobs : got[i] \subseteq got'[i]
         /\ \A i \in Jobs \ {j} : got'[i] = got[i]
<1>1. job' \in [Jobs -> JobRecord]
  BY DEF HooksTypeOK, JobRecord
<1>2. troubles' \in 0 .. MaxTroubles
  BY HooksAssumption DEF HooksTypeOK, Trouble
<1>3. /\ got' \in [Jobs -> SUBSET Hooks]
      /\ \A i \in Jobs : got[i] \subseteq got'[i]
      /\ \A i \in Jobs \ {j} : got'[i] = got[i]
  BY DEF HooksTypeOK, Took
<1> QED BY <1>1, <1>2, <1>3 DEF HooksTypeOK, JobRecord

\* What a state of the types and the invariant says of one job.
LEMMA JobFacts ==
  ASSUME HInv, NEW j \in Jobs
  PROVE  /\ HooksTypeOK /\ job[j] \in JobRecord /\ Sound(job[j], got[j])
         /\ got[j] \in SUBSET Hooks /\ active \in SUBSET Hooks
BY DEF HInv, HooksTypeOK, JobsSound, JobRecord

-----------------------------------------------------------------------------
\* The steps before a job runs, and a test.
LEMMA QueueStep ==
  ASSUME HInv,
         \/ \E h \in Hooks : StartTest(h)
         \/ \E k \in Deliveries : Enqueue(k) \/ LoseEnqueue(k) \/ StartJob(k) \/ CutJob(k)
  PROVE  HInv'
<1>1. ASSUME NEW j \in Jobs, NEW at \in {"none", "lost", "queued", "pick", "ended"},
             NEW hooks \in SUBSET Hooks,
             job' = [job EXCEPT ![j] = [IdleJob EXCEPT !.at = at, !.hooks = hooks]],
             job[j].at # "ended", UNCHANGED <<incident, active, got, receipts>>,
             troubles' = troubles \/ Trouble
      PROVE  HInv'
  <2> DEFINE n == [IdleJob EXCEPT !.at = at, !.hooks = hooks]
  <2>1. n \in JobRecord /\ Sound(n, got[j]) /\ HooksTypeOK
    BY JobFacts, Restarted
  <2>2. job' = [job EXCEPT ![j] = n]
    BY <1>1
  <2> HIDE DEF n
  <2>3. HooksTypeOK'
    BY <1>1, <2>1, <2>2, JobTypes
  <2> QED BY <1>1, <2>1, <2>2, <2>3, JobMoves
<1>2. ASSUME NEW h \in Hooks, StartTest(h) PROVE HInv'
  <2>1. /\ job' = [job EXCEPT !["test"] = [IdleJob EXCEPT !.at = "pick", !.hooks = {h}]]
        /\ job["test"].at # "ended" /\ UNCHANGED <<incident, active, got, receipts, troubles>>
    BY <1>2 DEF StartTest
  <2>2. "test" \in Jobs /\ {h} \in SUBSET Hooks
    BY DEF Jobs
  <2> QED BY <1>1, <2>1, <2>2
<1>3. ASSUME NEW k \in Deliveries, NEW at \in {"queued", "lost"}, job[k].at = "none",
             job' = [job EXCEPT ![k].at = at], UNCHANGED <<incident, active, got, receipts>>,
             troubles' = troubles \/ Trouble
      PROVE  HInv'
  <2> DEFINE n == [job[k] EXCEPT !.at = at]
  <2>0. k \in Jobs
    BY DEF Deliveries
  <2>1. n \in JobRecord /\ Sound(n, got[k]) /\ HooksTypeOK
    BY <2>0, JobFacts DEF JobRecord, Sound
  <2>2. job' = [job EXCEPT ![k] = n]
    BY <1>3
  <2> HIDE DEF n
  <2>3. HooksTypeOK'
    BY <1>3, <2>0, <2>1, <2>2, JobTypes
  <2> QED BY <1>3, <2>0, <2>1, <2>2, <2>3, JobMoves
<1>4. ASSUME NEW k \in Deliveries, Enqueue(k) \/ LoseEnqueue(k) PROVE HInv'
  <2>1. CASE Enqueue(k)
    BY <1>3, <2>1 DEF Enqueue
  <2>2. CASE LoseEnqueue(k)
    BY <1>3, <2>2 DEF LoseEnqueue
  <2> QED BY <1>4, <2>1, <2>2
<1>5. ASSUME NEW k \in Deliveries PROVE k \in Jobs /\ job[k].hooks \in SUBSET Hooks
                                        /\ active \in SUBSET Hooks
  BY JobFacts DEF Deliveries, JobRecord
<1>6. ASSUME NEW k \in Deliveries, StartJob(k) PROVE HInv'
  <2>1. /\ job[k].at # "ended" /\ UNCHANGED <<incident, active, got, receipts, troubles>>
        /\ \/ job' = [job EXCEPT ![k] = End(k)]
           \/ job' = [job EXCEPT ![k] = [IdleJob EXCEPT !.at = "pick", !.hooks = active]]
    BY <1>6 DEF StartJob
  <2> QED BY <1>1, <1>5, <2>1 DEF End
<1>7. ASSUME NEW k \in Deliveries, CutJob(k) PROVE HInv'
  <2>1. /\ job[k].at # "ended" /\ UNCHANGED <<incident, active, got, receipts, troubles>>
        /\ job' = [job EXCEPT ![k] = End(k)]
    BY <1>7 DEF CutJob
  <2> QED BY <1>1, <1>5, <2>1 DEF End
<1> QED BY <1>2, <1>4, <1>6, <1>7

-----------------------------------------------------------------------------
\* The clock of a job stays within its timeout.
LEMMA Clocks ==
  ASSUME HInv, NEW j \in Jobs, NEW d \in Nat
  PROVE  After(j, d) \in 0 .. JobTimeout
<1>1. job[j].clock \in 0 .. JobTimeout
  BY JobFacts DEF JobRecord
<1> QED BY <1>1, TimesAssumption DEF After

\* A POST and a pause leave a job with at most one receipt for each webhook.
LEMMA PostStep ==
  ASSUME HInv, NEW j \in Jobs,
         \/ \E h \in Hooks : PickHook(j, h)
         \/ \E d \in {0, PostTime} : PostTaken(j, d) \/ \E taken \in BOOLEAN : PostFails(j, d, taken)
         \/ Sleep(j)
  PROVE  HInv'
<1>0. /\ HooksTypeOK /\ job[j] \in JobRecord /\ Sound(job[j], got[j]) /\ got[j] \in SUBSET Hooks
      /\ PostTime \in Nat
  BY JobFacts, TimesAssumption
<1>1. ASSUME NEW n \in JobRecord, job' = [job EXCEPT ![j] = n], job[j].at # "ended",
             UNCHANGED <<incident, active, receipts>>, Sound(n, got'[j]),
             got' = got \/ (job[j].to \in Hooks /\ got' = Took(j)), troubles' = troubles \/ Trouble
      PROVE  HInv'
  <2>1. /\ HooksTypeOK'
        /\ \A i \in Jobs : got[i] \subseteq got'[i]
        /\ \A i \in Jobs \ {j} : got'[i] = got[i]
    BY <1>0, <1>1, JobTypes
  <2> QED BY <1>1, <2>1, JobMoves
<1>2. Took(j)[j] = got[j] \cup {job[j].to}
  BY <1>0 DEF Took, HooksTypeOK
<1>3. ASSUME NEW h \in Hooks, PickHook(j, h) PROVE HInv'
  <2> DEFINE n == [job[j] EXCEPT !.at = "post", !.to = h, !.attempt = 1]
  <2>0. n \in JobRecord
    BY <1>0, Fields DEF JobRecord
  <2>a. /\ n.at = "post" /\ n.to = h /\ n.attempt = 1
        /\ n.ok = job[j].ok /\ n.failed = job[j].failed
    BY <1>0 DEF JobRecord
  <2>2. /\ job' = [job EXCEPT ![j] = n] /\ job[j].at # "ended"
        /\ UNCHANGED <<incident, active, got, receipts, troubles>>
    BY <1>3 DEF PickHook
  <2> HIDE DEF n
  <2>3. Sound(n, got[j])
    <3>1. h \notin job[j].ok /\ h \notin job[j].failed
      BY <1>3 DEF PickHook
    <3> QED BY <1>0, <2>a, <3>1 DEF Sound, Attempts
  <2> QED BY <1>1, <2>0, <2>2, <2>3
<1>4. ASSUME NEW d \in {0, PostTime}, PostTaken(j, d) PROVE HInv'
  <2> DEFINE n == [job[j] EXCEPT !.at = "pick", !.ok = @ \cup {job[j].to}, !.to = NoHook,
                                 !.attempt = 0, !.clock = After(j, d)]
  <2>1. job[j].at = "post" /\ job[j].to \in Hooks /\ After(j, d) \in 0 .. JobTimeout
    BY <1>0, <1>4, Clocks DEF PostTaken, Sound
  <2>a. /\ n.at = "pick" /\ n.failed = job[j].failed /\ n.attempt = 0
        /\ n.ok = job[j].ok \cup {job[j].to}
    BY <1>0 DEF JobRecord
  <2>b. n \in JobRecord
    <3>1. job[j].ok \cup {job[j].to} \in SUBSET Hooks
      BY <1>0, <2>1 DEF JobRecord
    <3> QED BY <1>0, <2>1, <3>1, Fields DEF JobRecord
  <2>3. /\ job' = [job EXCEPT ![j] = n] /\ got' = Took(j)
        /\ UNCHANGED <<incident, active, receipts, troubles>>
    BY <1>4 DEF PostTaken
  <2> HIDE DEF n
  <2>2. Sound(n, got[j] \cup {job[j].to})
    BY <1>0, <2>1, <2>a DEF Sound
  <2> QED BY <1>1, <1>2, <2>1, <2>2, <2>3, <2>b
<1>5. ASSUME NEW d \in {0, PostTime}, NEW taken \in BOOLEAN, PostFails(j, d, taken) PROVE HInv'
  <2>1. /\ job[j].at = "post" /\ job[j].to \in Hooks /\ After(j, d) \in 0 .. JobTimeout
        /\ UNCHANGED <<incident, active, receipts>> /\ (troubles' = troubles \/ Trouble)
        /\ got' = got \/ got' = Took(j)
        /\ got[j] \subseteq got'[j]
    BY <1>0, <1>2, <1>5, Clocks DEF PostFails, Sound
  <2>2. CASE job[j].attempt < Attempts
    <3> DEFINE n == [job[j] EXCEPT !.at = "sleep", !.clock = After(j, d)]
    <3>1. job' = [job EXCEPT ![j] = n]
      BY <1>5, <2>2 DEF PostFails
    <3>2. n \in JobRecord
      BY <1>0, <2>1 DEF JobRecord
    <3>3. Sound(n, got'[j])
      BY <1>0, <2>1, <2>2, <1>5 DEF PostFails, JobRecord, Sound, Attempts
    <3> HIDE DEF n
    <3> QED BY <1>1, <2>1, <3>1, <3>2, <3>3
  <2>3. CASE ~(job[j].attempt < Attempts)
    <3> DEFINE n == [job[j] EXCEPT !.at = "pick", !.failed = @ \cup {job[j].to}, !.to = NoHook,
                                   !.attempt = 0, !.clock = After(j, d)]
    <3>1. job' = [job EXCEPT ![j] = n]
      BY <1>5, <2>3 DEF PostFails
    <3>a. n \in JobRecord
      <4>1. job[j].failed \cup {job[j].to} \in SUBSET Hooks
        BY <1>0, <2>1 DEF JobRecord
      <4> QED BY <1>0, <2>1, <4>1, Fields DEF JobRecord
    <3>b. n.at = "pick" /\ n.ok = job[j].ok /\ n.failed = job[j].failed \cup {job[j].to}
      BY <1>0 DEF JobRecord
    <3>2. n \in JobRecord /\ Sound(n, got'[j])
      BY <1>0, <1>5, <2>1, <3>a, <3>b DEF PostFails, Sound
    <3> HIDE DEF n
    <3> QED BY <1>1, <2>1, <3>1, <3>2
  <2> QED BY <2>2, <2>3
<1>6. ASSUME Sleep(j) PROVE HInv'
  <2> DEFINE d == Backoff[job[j].attempt]
  <2> DEFINE n == [job[j] EXCEPT !.at = "post", !.attempt = @ + 1, !.clock = After(j, d)]
  <2>1. job[j].at = "sleep" /\ job[j].attempt \in {1, 2} /\ job[j].to \in Hooks
    BY <1>0, <1>6 DEF Sleep, Sound, Attempts
  <2>2. d \in Nat
    BY <2>1, TimesAssumption DEF Backoff
  <2>3. /\ job' = [job EXCEPT ![j] = n]
        /\ UNCHANGED <<incident, active, got, receipts, troubles>>
    BY <1>6 DEF Sleep
  <2> HIDE DEF d
  <2>4. After(j, d) \in 0 .. JobTimeout
    BY <2>2, Clocks
  <2>a. job[j].attempt + 1 \in 0 .. Attempts
    BY <2>1 DEF Attempts
  <2>5. n \in JobRecord
    BY <1>0, <2>a, <2>4 DEF JobRecord
  <2>6. Sound(n, got[j])
    BY <1>0, <2>1, <2>4 DEF Sound, JobRecord, Attempts
  <2> HIDE DEF n
  <2> QED BY <1>1, <2>1, <2>3, <2>5, <2>6
<1> QED BY <1>3, <1>4, <1>5, <1>6

-----------------------------------------------------------------------------
\* The one commit: each webhook of the job has one receipt.
LEMMA CommitStep ==
  ASSUME HInv, NEW j \in Jobs, CommitReceipts(j)
  PROVE  HInv'
<1> DEFINE n == End(j)
<1>0. /\ HooksTypeOK /\ job[j] \in JobRecord /\ Sound(job[j], got[j]) /\ got[j] \in SUBSET Hooks
      /\ job[j].at = "pick" /\ job[j].hooks = job[j].ok \cup job[j].failed
      /\ UNCHANGED <<incident, active, got, troubles>> /\ job' = [job EXCEPT ![j] = n]
      /\ receipts' = receipts \cup [job : {j}, hook : job[j].ok, ok : {TRUE}]
                              \cup [job : {j}, hook : job[j].failed, ok : {FALSE}]
  BY JobFacts DEF CommitReceipts
<1>1. n \in JobRecord /\ Sound(n, got[j]) /\ n.at = "ended" /\ n.hooks = job[j].hooks
  <2>1. job[j].hooks \in SUBSET Hooks
    BY <1>0 DEF JobRecord
  <2> QED BY <1>0, <2>1, Restarted DEF End, IdleJob
<1> HIDE DEF n
<1>2. /\ job' \in [Jobs -> JobRecord] /\ job'[j] = n /\ \A i \in Jobs \ {j} : job'[i] = job[i]
  BY <1>0, <1>1 DEF HooksTypeOK, JobRecord
<1>3. receipts' \in SUBSET Receipt
  BY <1>0 DEF HooksTypeOK, JobRecord, Receipt
<1>4. HooksTypeOK'
  BY <1>0, <1>2, <1>3 DEF HooksTypeOK, JobRecord, Receipt
<1>5. JobsSound'
  BY <1>0, <1>1, <1>2 DEF HInv, JobsSound
<1>6. \A r \in receipts' : r \in receipts \/ r.job = j
  BY <1>0
<1>7. \A r \in receipts : r.job \in Deliveries => r.job \in Jobs \ {j}
  BY <1>0 DEF HInv, ReceiptsAreLast, Deliveries
<1>8. ReceiptsAreLast'
  BY <1>1, <1>2, <1>6, <1>7 DEF HInv, ReceiptsAreLast
<1>9. ReceiptsAreWhole'
  <2> SUFFICES ASSUME NEW k \in Deliveries
               PROVE  WholeFor(k)'
    BY DEF ReceiptsAreWhole, WholeFor
  <2>1. CASE k = j
    <3>1. \A r \in receipts' : r.job = k =>
            \/ r.ok = TRUE /\ r.hook \in job[j].ok
            \/ r.ok = FALSE /\ r.hook \in job[j].failed
      BY <1>0, <1>7, <2>1
    <3>2. \A h \in job[j].hooks : \E r \in receipts' : r.job = k /\ r.hook = h
      <4> SUFFICES ASSUME NEW h \in job[j].hooks
                   PROVE  \E r \in receipts' : r.job = k /\ r.hook = h
        OBVIOUS
      <4>1. CASE h \in job[j].ok
        BY <1>0, <2>1, <4>1, [job |-> j, hook |-> h, ok |-> TRUE] \in receipts'
      <4>2. CASE h \in job[j].failed
        BY <1>0, <2>1, <4>2, [job |-> j, hook |-> h, ok |-> FALSE] \in receipts'
      <4> QED BY <1>0, <4>1, <4>2
    <3>3. \A r, q \in receipts' : r.job = k /\ q.job = k /\ r.hook = q.hook => r = q
      <4> SUFFICES ASSUME NEW r \in receipts', NEW q \in receipts',
                          r.job = k, q.job = k, r.hook = q.hook
                   PROVE  r = q
        OBVIOUS
      <4>1. r \in Receipt /\ q \in Receipt
        BY <1>3
      <4>a. job[j].ok \cap job[j].failed = {}
        BY <1>0 DEF Sound
      <4>b. /\ \/ r.ok = TRUE /\ r.hook \in job[j].ok
               \/ r.ok = FALSE /\ r.hook \in job[j].failed
            /\ \/ q.ok = TRUE /\ q.hook \in job[j].ok
               \/ q.ok = FALSE /\ q.hook \in job[j].failed
        BY <3>1
      <4>2. r.ok = q.ok
        <5>1. ~(r.hook \in job[j].ok /\ r.hook \in job[j].failed)
          BY <4>a
        <5>2. q.hook = r.hook
          OBVIOUS
        <5> QED BY <4>b, <5>1, <5>2, Zenon
      <4> QED BY <4>1, <4>2 DEF Receipt
    <3>4. \A r \in receipts' : r.job = k /\ r.ok => r.hook \in got'[k]
      BY <1>0, <2>1, <3>1 DEF Sound
    <3> QED BY <1>1, <1>2, <2>1, <3>2, <3>3, <3>4 DEF WholeFor
  <2>2. CASE k # j
    <3>1. \A r \in receipts' : r.job = k => r \in receipts
      BY <1>6, <2>2
    <3>2. job'[k] = job[k] /\ got'[k] = got[k] /\ receipts \subseteq receipts'
      BY <1>0, <1>2, <2>2 DEF Deliveries
    <3>3. WholeFor(k)
      BY DEF HInv, ReceiptsAreWhole, WholeFor
    <3> QED BY <3>1, <3>2, <3>3 DEF WholeFor
  <2> QED BY <2>1, <2>2
<1> QED BY <1>4, <1>5, <1>8, <1>9 DEF HInv

\* A worker dies: the jobs that run are as if never started, and had no receipts.
LEMMA CrashStep ==
  ASSUME HInv, CrashWorker
  PROVE  HInv'
<1> DEFINE n == [IdleJob EXCEPT !.at = "queued"]
<1>0. /\ HooksTypeOK /\ UNCHANGED <<incident, active, got, receipts>> /\ Trouble
      /\ job' = [j \in Jobs |-> IF j \in Deliveries /\ Running(j) THEN n ELSE job[j]]
  BY DEF HInv, CrashWorker
<1>1. n \in JobRecord /\ \A j \in Jobs : Sound(n, got[j])
  BY <1>0, TimesAssumption DEF IdleJob, JobRecord, Sound, Attempts
<1> HIDE DEF n
<1>2. troubles' \in 0 .. MaxTroubles
  BY <1>0, HooksAssumption DEF HooksTypeOK, Trouble
<1>3. HooksTypeOK'
  BY <1>0, <1>1, <1>2 DEF HooksTypeOK, JobRecord
<1>4. JobsSound'
  BY <1>0, <1>1 DEF HInv, JobsSound
<1>5. \A r \in receipts : r.job \in Deliveries => job'[r.job] = job[r.job]
  BY <1>0 DEF HInv, ReceiptsAreLast, Running, Deliveries
<1>6. ReceiptsAreLast' /\ ReceiptsAreWhole'
  BY <1>0, <1>5 DEF HInv, ReceiptsAreLast, ReceiptsAreWhole
<1> QED BY <1>3, <1>4, <1>6 DEF HInv

\* The webhooks and the incident change around the jobs, or nothing does.
LEMMA AroundStep ==
  ASSUME HInv,
         \/ \E h \in Hooks : CreateHook(h) \/ DeleteHook(h)
         \/ DeleteIncident \/ \E k \in Deliveries : CommitIncident(k)
         \/ UNCHANGED hookVars
  PROVE  HInv'
<1>1. /\ HooksTypeOK /\ UNCHANGED <<job, got, receipts, troubles>>
  BY DEF HInv, CreateHook, DeleteHook, DeleteIncident, CommitIncident, hookVars
<1>2. active' \in SUBSET Hooks /\ incident' \in {"none", "open", "resolved", "gone"}
  BY <1>1 DEF HooksTypeOK, CreateHook, DeleteHook, DeleteIncident, CommitIncident, hookVars
<1>3. HooksTypeOK'
  BY <1>1, <1>2 DEF HooksTypeOK
<1> QED BY <1>1, <1>3 DEF HInv, JobsSound, ReceiptsAreLast, ReceiptsAreWhole

LEMMA HInvStep == HInv /\ [HooksNext]_hookVars => HInv'
<1> SUFFICES ASSUME HInv, [HooksNext]_hookVars PROVE HInv'
  OBVIOUS
<1>1. CASE \/ \E h \in Hooks : CreateHook(h) \/ DeleteHook(h)
           \/ DeleteIncident \/ \E k \in Deliveries : CommitIncident(k)
           \/ UNCHANGED hookVars
  BY <1>1, AroundStep
<1>2. CASE \/ \E h \in Hooks : StartTest(h)
           \/ \E k \in Deliveries : Enqueue(k) \/ LoseEnqueue(k) \/ StartJob(k) \/ CutJob(k)
  BY <1>2, QueueStep
<1>3. CASE CrashWorker
  BY <1>3, CrashStep
<1>4. ASSUME NEW j \in Jobs, JobStep(j) PROVE HInv'
  BY <1>4, PostStep, CommitStep DEF JobStep
<1> QED BY <1>1, <1>2, <1>3, <1>4 DEF HooksNext

-----------------------------------------------------------------------------
\* Every behaviour of the jobs keeps the types, and keeps each job sound.
THEOREM HooksInvariant == HooksSpec => []HInv
<1>1. HooksInit => HInv
  BY HooksInitHInv
<1>2. HInv /\ [HooksNext]_hookVars => HInv'
  BY HInvStep
<1> QED BY <1>1, <1>2, PTL DEF HooksSpec

\* When the audit log has a receipt of an event, each webhook its job ran for has exactly one,
\* and the receiver of a "delivered" one took the event, for any number of webhooks and any
\* times (webhooker.py:51-67).
THEOREM ReceiptsAreWholeHolds == HooksSpec => []ReceiptsAreWhole
<1>1. HInv => ReceiptsAreWhole
  BY DEF HInv
<1> QED BY <1>1, HooksInvariant, PTL

-----------------------------------------------------------------------------
(* All beside each other.                                                   *)

\* Beside each other they do what each does by itself, so that all that is proved of one
\* holds of the worker: none writes what another reads.
THEOREM WorkerParts == WorkerSpec => ConnectSpec /\ HooksSpec /\ HeartbeatsSpec
<1>1. WorkerInit => ConnectInit /\ HooksInit /\ HeartbeatsInit
  BY DEF WorkerInit
<1>2. [WorkerNext]_workerVars =>
        /\ [ConnectNext]_connectVars
        /\ [HooksNext]_hookVars
        /\ [HeartbeatsNext]_heartbeatVars
  BY DEF WorkerNext, workerVars
<1> QED BY <1>1, <1>2, PTL DEF WorkerSpec, ConnectSpec, HooksSpec, HeartbeatsSpec

\* Every variable of the three keeps its type.
THEOREM WorkerTypesHold == WorkerSpec => []WorkerTypeOK
<1>1. CInv /\ HInv /\ HeartbeatsTypeOK => WorkerTypeOK
  BY DEF CInv, HInv, WorkerTypeOK
<1> QED BY <1>1, WorkerParts, ConnectInvariant, HooksInvariant, HeartbeatsTypeCorrect, PTL
=============================================================================
