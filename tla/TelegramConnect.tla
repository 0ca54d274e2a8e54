--------------------------- MODULE TelegramConnect ---------------------------
(***************************************************************************)
(* Connecting a Telegram chat without typing its id: the API hands out a     *)
(* one-time link, the user presses Start in a chat, a cron poll of the        *)
(* worker reads the bot's updates, spends the link and makes the channel,     *)
(* and the settings page asks every 3 s how it went.                          *)
(*                                                                          *)
(* Source: backend/app/workers/telegram_poller.py, services/telegram_link_    *)
(* service.py, the handlers of api/v1/routers/notification_channels.py and    *)
(* frontend/src/pages/Settings.tsx.  Telegram and Redis as these use them.    *)
(*                                                                          *)
(* One team.  Polls overlap when one takes longer than the cron's 30 s, and   *)
(* a poll that is cut off leaves behind what it had done so far.              *)
(***************************************************************************)
EXTENDS Naturals, Sequences, FiniteSets

CONSTANTS
  Tokens,      \* connect links
  NoToken,     \* a message that is not "/start <token>"
  Chats,       \* Telegram chats
  Polls,       \* runs of poll_telegram_updates that may overlap
  NoPoll,      \* a row that was typed in
  NoRow,       \* "no channel"
  Batch,       \* getUpdates' limit
  MaxUpdates,  \* bound: messages to the bot
  MaxCuts,     \* bound: polls cut off, failing calls to Telegram
  MaxChanges   \* bound: channels typed in or deleted, cancellations, expiries

ASSUME ConnectAssumption ==
  /\ NoToken \notin Tokens /\ NoPoll \notin Polls
  /\ Batch \in Nat \ {0} /\ MaxUpdates \in Nat /\ MaxCuts \in Nat /\ MaxChanges \in Nat

VARIABLES
  link,       \* tg_link:{token} and, once it is gone, why
  done,       \* tg_link_done:{token}: a row, or NoRow
  offset,     \* tg_update_offset, 0 when it was never stored
  rows,       \* notification_channels of the team
  inbox,      \* messages to the bot, in the order of their update ids from 1
  forgotten,  \* updates up to here were confirmed: Telegram returns them no more
  poll,       \* where each poll is
  page,       \* settings page that waits for the link
  linked,     \* links that were reported connected, ever
  cuts, changes  \* budgets of the bounds

linkVars == <<link, done, offset>>
connectVars == <<linkVars, rows, inbox, forgotten, poll, page, linked, cuts, changes>>

Rows == [by : Tokens \cup {NoToken}, in : Polls \cup {NoPoll}, chat : Chats]

IdlePoll == [at |-> "idle", from |-> 0, next |-> 1, last |-> 0, token |-> NoToken, row |-> NoRow]

ConnectTypeOK ==
  /\ link \in [Tokens -> {"new", "pending", "spent", "cancelled", "expired"}]
  /\ done \in [Tokens -> Rows \cup {NoRow}]
  /\ offset \in 0 .. MaxUpdates + 1 /\ forgotten \in 0 .. MaxUpdates
  /\ rows \in SUBSET Rows
  /\ inbox \in Seq([token : Tokens \cup {NoToken}, chat : Chats]) /\ Len(inbox) <= MaxUpdates
  /\ poll \in [Polls -> [at : {"idle", "fetch", "loop", "drop", "find", "create", "mark"},
                         from : 0 .. MaxUpdates + 1, next : 1 .. MaxUpdates + 1,
                         last : 0 .. MaxUpdates, token : Tokens \cup {NoToken},
                         row : Rows \cup {NoRow}]]
  /\ page \in [Tokens -> {"closed", "waiting", "asked", "connected", "expired", "cancelled"}]
  /\ linked \in SUBSET Tokens
  /\ cuts \in 0 .. MaxCuts /\ changes \in 0 .. MaxChanges

ConnectInit ==
  /\ link = [t \in Tokens |-> "new"] /\ done = [t \in Tokens |-> NoRow] /\ offset = 0
  /\ rows = {} /\ inbox = <<>> /\ forgotten = 0
  /\ poll = [p \in Polls |-> IdlePoll]
  /\ page = [t \in Tokens |-> "closed"]
  /\ linked = {} /\ cuts = MaxCuts /\ changes = MaxChanges

Change == changes > 0 /\ changes' = changes - 1

-----------------------------------------------------------------------------
(* The settings page and the API.                                          *)

\* create_connect_link; the page starts asking.
CreateLink(t) ==
  /\ link[t] = "new"
  /\ link' = [link EXCEPT ![t] = "pending"]
  /\ page' = [page EXCEPT ![t] = "waiting"]
  /\ UNCHANGED <<done, offset, rows, inbox, forgotten, poll, linked, cuts, changes>>

\* cancel_connect_link: the key is deleted, the page stops asking.
CancelLink(t) ==
  /\ Change
  /\ page[t] \in {"waiting", "asked"}
  /\ link' = [link EXCEPT ![t] = IF @ = "pending" THEN "cancelled" ELSE @]
  /\ page' = [page EXCEPT ![t] = "cancelled"]
  /\ UNCHANGED <<done, offset, rows, inbox, forgotten, poll, linked, cuts>>

\* connect_status, first read: a connected channel that still exists ends the waiting.
ReadConnected(t) ==
  /\ page[t] = "waiting"
  /\ page' = [page EXCEPT ![t] = IF done[t] \in rows THEN "connected" ELSE "asked"]
  /\ UNCHANGED <<linkVars, rows, inbox, forgotten, poll, linked, cuts, changes>>

\* Second read: pending, else expired; in between a poll may have spent the link.
ReadPending(t) ==
  /\ page[t] = "asked"
  /\ page' = [page EXCEPT ![t] = IF link[t] = "pending" THEN "waiting" ELSE "expired"]
  /\ UNCHANGED <<linkVars, rows, inbox, forgotten, poll, linked, cuts, changes>>

\* create_channel inserts whatever there is; a second row of the chat typed in while the
\* first is there is the same row here.
TypeChannel(c) ==
  /\ Change
  /\ rows' = rows \cup {[by |-> NoToken, in |-> NoPoll, chat |-> c]}
  /\ UNCHANGED <<linkVars, inbox, forgotten, poll, page, linked, cuts>>

\* delete_channel.
DeleteChannel(r) ==
  /\ Change
  /\ r \in rows
  /\ rows' = rows \ {r}
  /\ UNCHANGED <<linkVars, inbox, forgotten, poll, page, linked, cuts>>

\* The TTLs: 15 min for a link, 10 min for the answer.
ExpireLink(t) ==
  /\ Change
  /\ link[t] = "pending"
  /\ link' = [link EXCEPT ![t] = "expired"]
  /\ UNCHANGED <<done, offset, rows, inbox, forgotten, poll, page, linked, cuts>>

ExpireDone(t) ==
  /\ Change
  /\ done[t] # NoRow
  /\ done' = [done EXCEPT ![t] = NoRow]
  /\ UNCHANGED <<link, offset, rows, inbox, forgotten, poll, page, linked, cuts>>

\* The user: Start of a link that was made, in any chat and any number of times, or
\* some other message.
SendMessage(t, c) ==
  /\ Len(inbox) < MaxUpdates
  /\ t \in Tokens => link[t] # "new"
  /\ inbox' = Append(inbox, [token |-> t, chat |-> c])
  /\ UNCHANGED <<linkVars, rows, forgotten, poll, page, linked, cuts, changes>>

-----------------------------------------------------------------------------
(* poll_telegram_updates.                                                  *)

Step(p, at) == [poll EXCEPT ![p].at = at]
NextUpdate(p) == [poll EXCEPT ![p].at = "loop", ![p].next = @ + 1,
                              ![p].token = NoToken, ![p].row = NoRow]

\* get_offset.
ReadOffset(p) ==
  /\ poll[p].at = "idle"
  /\ poll' = [poll EXCEPT ![p] = [IdlePoll EXCEPT !.at = "fetch", !.from = offset]]
  /\ UNCHANGED <<linkVars, rows, inbox, forgotten, page, linked, cuts, changes>>

\* getUpdates confirms what lies below the offset and returns what follows.
FetchUpdates(p) ==
  LET confirmed == IF poll[p].from > forgotten + 1 THEN poll[p].from - 1 ELSE forgotten
      last == IF confirmed + Batch < Len(inbox) THEN confirmed + Batch ELSE Len(inbox) IN
  /\ poll[p].at = "fetch"
  /\ forgotten' = confirmed
  /\ poll' = [poll EXCEPT ![p] = IF last > confirmed
                THEN [@ EXCEPT !.at = "loop", !.next = confirmed + 1, !.last = last]
                ELSE IdlePoll]
  /\ UNCHANGED <<linkVars, rows, inbox, page, linked, cuts, changes>>

\* Mutant of SkipMessage: a message without a link ends the poll.
SkipMessageRaises(p) ==
  /\ poll[p].at = "loop" /\ poll[p].next <= poll[p].last
  /\ inbox[poll[p].next].token = NoToken
  /\ poll' = [poll EXCEPT ![p] = IdlePoll]
  /\ UNCHANGED <<linkVars, rows, inbox, forgotten, page, linked, cuts, changes>>

\* parse_start_payload finds no token.
SkipMessage(p) ==
  /\ poll[p].at = "loop" /\ poll[p].next <= poll[p].last
  /\ inbox[poll[p].next].token = NoToken
  /\ poll' = NextUpdate(p)
  /\ UNCHANGED <<linkVars, rows, inbox, forgotten, page, linked, cuts, changes>>

\* consume_link, GET: a link that is gone is passed over.
GetLink(p) ==
  LET t == inbox[poll[p].next].token IN
  /\ poll[p].at = "loop" /\ poll[p].next <= poll[p].last /\ t # NoToken
  /\ poll' = IF link[t] = "pending"
               THEN [poll EXCEPT ![p].at = "drop", ![p].token = t] ELSE NextUpdate(p)
  /\ UNCHANGED <<linkVars, rows, inbox, forgotten, page, linked, cuts, changes>>

\* Mutant of DropLink: the link is left to its TTL.
DropLinkNever(p) ==
  /\ poll[p].at = "drop"
  /\ poll' = Step(p, "find")
  /\ UNCHANGED <<linkVars, rows, inbox, forgotten, page, linked, cuts, changes>>

\* consume_link, DEL, of what may be gone by now; the payload counts all the same.
DropLink(p) ==
  /\ poll[p].at = "drop"
  /\ link' = [link EXCEPT ![poll[p].token] = IF @ = "pending" THEN "spent" ELSE @]
  /\ poll' = Step(p, "find")
  /\ UNCHANGED <<done, offset, rows, inbox, forgotten, page, linked, cuts, changes>>

RowsOf(c) == {r \in rows : r.chat = c}

\* find_by_chat_id: none, one, or more than one, which raises and ends the poll.
FindChannel(p) ==
  LET found == RowsOf(inbox[poll[p].next].chat) IN
  /\ poll[p].at = "find"
  /\ \/ found = {} /\ poll' = Step(p, "create")
     \/ \E r \in found : found = {r} /\ poll' = [poll EXCEPT ![p].at = "mark", ![p].row = r]
     \/ Cardinality(found) > 1 /\ poll' = [poll EXCEPT ![p] = IdlePoll]
  /\ UNCHANGED <<linkVars, rows, inbox, forgotten, page, linked, cuts, changes>>

\* The channel and its audit row are committed; the welcome message may fail.
CreateChannel(p) ==
  LET r == [by |-> poll[p].token, in |-> p, chat |-> inbox[poll[p].next].chat] IN
  /\ poll[p].at = "create"
  /\ rows' = rows \cup {r}
  /\ poll' = [poll EXCEPT ![p].at = "mark", ![p].row = r]
  /\ UNCHANGED <<linkVars, inbox, forgotten, page, linked, cuts, changes>>

\* mark_connected, and on to the next update.
MarkConnected(p) ==
  /\ poll[p].at = "mark"
  /\ done' = [done EXCEPT ![poll[p].token] = poll[p].row]
  /\ linked' = linked \cup {poll[p].token}
  /\ poll' = NextUpdate(p)
  /\ UNCHANGED <<link, offset, rows, inbox, forgotten, page, cuts, changes>>

\* Mutant of StoreOffset: the offset is stored once the updates were fetched.
StoreOffsetFirst(p) ==
  /\ poll[p].at = "loop" /\ offset < poll[p].last + 1
  /\ offset' = poll[p].last + 1
  /\ UNCHANGED <<link, done, rows, inbox, forgotten, poll, page, linked, cuts, changes>>

\* Mutant of StoreOffset: the offset is moved past the update after the last one.
StoreOffsetSkips(p) ==
  /\ poll[p].at = "loop" /\ poll[p].next > poll[p].last
  /\ offset' = poll[p].last + 2
  /\ poll' = [poll EXCEPT ![p] = IdlePoll]
  /\ UNCHANGED <<link, done, rows, inbox, forgotten, page, linked, cuts, changes>>

\* After the loop: the largest update id plus one, or what was read if that is larger.
\* A plain SET: of two polls the later one wins.
StoreOffset(p) ==
  /\ poll[p].at = "loop" /\ poll[p].next > poll[p].last
  /\ offset' = IF poll[p].last + 1 > poll[p].from THEN poll[p].last + 1 ELSE poll[p].from
  /\ poll' = [poll EXCEPT ![p] = IdlePoll]
  /\ UNCHANGED <<link, done, rows, inbox, forgotten, page, linked, cuts, changes>>

\* An error of getUpdates, job_timeout, a crash: the poll ends where it is.
CutPoll(p) ==
  /\ poll[p].at # "idle" /\ cuts > 0
  /\ cuts' = cuts - 1
  /\ poll' = [poll EXCEPT ![p] = IdlePoll]
  /\ UNCHANGED <<linkVars, rows, inbox, forgotten, page, linked, changes>>

-----------------------------------------------------------------------------
PollStep(p) ==
  \/ FetchUpdates(p) \/ SkipMessage(p) \/ GetLink(p) \/ DropLink(p) \/ FindChannel(p)
  \/ CreateChannel(p) \/ MarkConnected(p) \/ StoreOffset(p)

PageStep(t) == ReadConnected(t) \/ ReadPending(t)

ConnectNext ==
  \/ \E t \in Tokens :
       CreateLink(t) \/ CancelLink(t) \/ PageStep(t) \/ ExpireLink(t) \/ ExpireDone(t)
  \/ \E c \in Chats : TypeChannel(c) \/ \E t \in Tokens \cup {NoToken} : SendMessage(t, c)
  \/ \E r \in rows : DeleteChannel(r)
  \/ \E p \in Polls : ReadOffset(p) \/ PollStep(p) \/ CutPoll(p)

ConnectSpec == ConnectInit /\ [][ConnectNext]_connectVars

-----------------------------------------------------------------------------
\* No Start is lost to the offset: an update that was confirmed, or will be by the next
\* poll, leaves no link waiting, whatever overlapped or was cut off
\* (telegram_poller.py:109-114, "Advance offset even when no /start found").  A poll cut off
\* between the DEL of its link and the commit of its channel loses one all the same.
ConfirmedStartsAreSpent ==
  \A i \in 1 .. Len(inbox) :
    (i <= forgotten \/ i < offset) /\ inbox[i].token # NoToken => link[inbox[i].token] # "pending"

Held(t) == \E p \in Polls : poll[p].token = t

\* One-time links (telegram_link_service.py:1): a link that was reported connected and
\* that no poll still holds is never taken up again, though its update is read again
\* after a poll was cut off before storing the offset.  Polls that read it before either
\* deleted it both take it.
ConnectedOnce ==
  [][\A t \in Tokens : t \in linked /\ ~Held(t) => ~Held(t)']_connectVars

\* The crons come round while there is something to read, a poll goes on, the page asks
\* every 3 s.  The TTLs are not relied on.
ConnectFairness ==
  /\ \A p \in Polls : WF_connectVars((Len(inbox) > forgotten /\ ReadOffset(p)) \/ PollStep(p))
  /\ \A t \in Tokens : WF_connectVars(PageStep(t))

\* Whoever pressed Start does not wait forever: the page learns the end of it, whatever
\* else was sent to the bot and however polls failed (telegram_poller.py:1-7).
StartEndsWaiting ==
  \A t \in Tokens :
    []<>~(/\ \E i \in 1 .. Len(inbox) : inbox[i].token = t
          /\ page[t] \in {"waiting", "asked"})
=============================================================================
