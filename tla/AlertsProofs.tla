----------------------------- MODULE AlertsProofs -----------------------------
(***************************************************************************)
(* EscalatedWasDelivered, EscalationNotEarly, SettledStaysQuiet and        *)
(* ReceiptsMatch for any number of incidents, channels and job slots. The  *)
(* first two rest on what queue and slots hold: an escalation that waits   *)
(* is of an incident as old as the message says or has the rest of its     *)
(* deferral before it, and what a slot counts as sent has arrived. The     *)
(* last one counts the receipts that slots hold uncommitted.               *)
(***************************************************************************)
EXTENDS Alerts, SequenceTheorems, FiniteSetTheorems, TLAPS

JobTypes ==
  /\ pc \in [Workers -> {"idle", "gate", "send", "defer", "mark"}]
  /\ inc \in [Workers -> Incidents \cup {NoIncident}]
  /\ kind \in [Workers -> Kinds]
  /\ todo \in [Workers -> SUBSET Channels]
  /\ sent \in [Workers -> SUBSET Channels]
  /\ failed \in [Workers -> SUBSET Channels]

DbTypes ==
  /\ status \in [Incidents -> {"none", "OPEN", "ACK", "RESOLVED", "gone"}]
  /\ age \in [Incidents -> 0 .. Delay]
  /\ resolved \in [Incidents -> BOOLEAN]
  /\ escalated \in [Incidents -> BOOLEAN]
  /\ channels \in SUBSET Channels
  /\ window \in {"none", "planned", "active"}

QueueTypes ==
  /\ ready \in [Incidents \X Kinds -> Nat]
  /\ deferred \in [Incidents -> Seq(0 .. Delay)]

NoteTypes == logged \in [Notes -> Nat] /\ received \in [Notes -> Nat]

BoundTypes ==
  faults \in 0 .. MaxFaults /\ changes \in 0 .. MaxChanges /\ deleted \in SUBSET Channels

\* A slot works on an incident that was opened; it escalates none too early, it has counted
\* as sent what arrived, and marks what somebody was told.
Slot(w) ==
  /\ pc[w] # "idle" => inc[w] \in Incidents /\ status[inc[w]] # "none"
  /\ pc[w] # "idle" /\ kind[w] = "escalation" => age[inc[w]] = Delay
  /\ pc[w] = "mark" => \E c \in Channels : received[<<inc[w], "escalation", c>>] > 0
  /\ \A c \in sent[w] : pc[w] = "send" /\ received[<<inc[w], kind[w], c>>] > 0

\* What waits is of an incident that was opened, and escalates no younger one than Delay.
Queue(i) ==
  /\ status[i] = "none" => deferred[i] = <<>> /\ \A k \in Kinds : ready[<<i, k>>] = 0
  /\ ready[<<i, "escalation">>] > 0 => age[i] = Delay
  /\ \A n \in DOMAIN deferred[i] : age[i] + deferred[i][n] >= Delay

NInv ==
  /\ TypeOK
  /\ \A w \in Workers : Slot(w)
  /\ \A i \in Incidents : Queue(i)
  /\ EscalatedWasDelivered

-----------------------------------------------------------------------------
\* TypeOK, in the parts the steps change.
LEMMA TypeParts == TypeOK <=> JobTypes /\ DbTypes /\ QueueTypes /\ NoteTypes /\ BoundTypes
BY DEF TypeOK, JobTypes, DbTypes, QueueTypes, NoteTypes, BoundTypes

LEMMA TypePartsNext ==
  TypeOK' <=> JobTypes' /\ DbTypes' /\ QueueTypes' /\ NoteTypes' /\ BoundTypes'
BY DEF TypeOK, JobTypes, DbTypes, QueueTypes, NoteTypes, BoundTypes

\* What no step takes back.
Forward ==
  /\ \A i \in Incidents : status[i] # "none" => status'[i] # "none"
  /\ \A i \in Incidents : age[i] = Delay => age'[i] = Delay
  /\ \A n \in Notes : received[n] > 0 => received'[n] > 0

SameJob(v) == pc'[v] = pc[v] /\ inc'[v] = inc[v] /\ kind'[v] = kind[v] /\ sent'[v] = sent[v]

\* A slot that does not move goes on in a state that moved forward.
LEMMA SlotFrame ==
  ASSUME NInv, Forward, NEW v \in Workers, SameJob(v)
  PROVE  Slot(v)'
<1>1. Slot(v) /\ kind[v] \in Kinds /\ sent[v] \in SUBSET Channels
  BY DEF NInv, TypeOK
<1>2. ASSUME pc[v] # "idle", NEW k \in Kinds, NEW c \in Channels PROVE <<inc[v], k, c>> \in Notes
  BY <1>1, <1>2 DEF Slot, Notes
<1>3. pc'[v] # "idle" => inc'[v] \in Incidents /\ status'[inc'[v]] # "none"
  BY <1>1 DEF Slot, Forward, SameJob
<1>4. pc'[v] # "idle" /\ kind'[v] = "escalation" => age'[inc'[v]] = Delay
  BY <1>1 DEF Slot, Forward, SameJob
<1>5. pc'[v] = "mark" => \E c \in Channels : received'[<<inc'[v], "escalation", c>>] > 0
  BY <1>1, <1>2 DEF Slot, Forward, SameJob, Kinds
<1>6. \A c \in sent'[v] : pc'[v] = "send" /\ received'[<<inc'[v], kind'[v], c>>] > 0
  BY <1>1, <1>2 DEF Slot, Forward, SameJob
<1> QED BY <1>3, <1>4, <1>5, <1>6 DEF Slot

\* A slot that is done.
LEMMA FinishSlot ==
  ASSUME JobTypes, NEW w \in Workers, Finish(w)
  PROVE  JobTypes' /\ Slot(w)' /\ \A v \in Workers \ {w} : SameJob(v)
<1>1. JobTypes'
  BY DEF JobTypes, Finish, Kinds
<1>2. pc'[w] = "idle" /\ sent'[w] = {}
  BY DEF JobTypes, Finish
<1>3. \A v \in Workers \ {w} : SameJob(v)
  BY DEF JobTypes, Finish, SameJob
<1> QED BY <1>1, <1>2, <1>3 DEF Slot

\* The queue of an incident that is as old as before and has nothing new waiting.
LEMMA QueueFrame ==
  ASSUME NEW i \in Incidents, Queue(i), status'[i] = "none" => status[i] = "none",
         age'[i] = age[i], deferred'[i] = deferred[i],
         \A k \in Kinds : ready'[<<i, k>>] = ready[<<i, k>>]
  PROVE  Queue(i)'
BY DEF Queue, Kinds

\* Marks that were there already, in a state that moved forward.
LEMMA MarksKept ==
  ASSUME NInv, Forward, \A i \in Incidents : escalated'[i] => escalated[i]
  PROVE  EscalatedWasDelivered'
<1> SUFFICES ASSUME NEW i \in Incidents, escalated'[i]
             PROVE  \E c \in Channels : received'[<<i, "escalation", c>>] > 0
  BY DEF EscalatedWasDelivered
<1>1. PICK c \in Channels : received[<<i, "escalation", c>>] > 0
  BY DEF NInv, EscalatedWasDelivered
<1>2. <<i, "escalation", c>> \in Notes
  BY DEF Notes, Kinds
<1> QED BY <1>1, <1>2 DEF Forward

\* Nothing is queued, sent or marked when the system starts.
LEMMA InitNInv == Init => NInv
<1> SUFFICES ASSUME Init PROVE NInv
  OBVIOUS
<1> USE DelayAssumption
<1>1. JobTypes
  BY DEF Init, JobTypes, Kinds
<1>2. DbTypes
  BY DEF Init, DbTypes
<1>3. QueueTypes
  <2>1. <<>> \in Seq(0 .. Delay)
    OBVIOUS
  <2> QED BY <2>1 DEF Init, QueueTypes
<1>4. NoteTypes /\ BoundTypes
  BY DEF Init, NoteTypes, BoundTypes
<1>5. ASSUME NEW w \in Workers PROVE Slot(w)
  BY DEF Init, Slot
<1>6. ASSUME NEW i \in Incidents PROVE Queue(i)
  <2>1. deferred[i] = <<>> /\ \A k \in Kinds : ready[<<i, k>>] = 0
    BY DEF Init
  <2> QED BY <2>1 DEF Queue, Kinds
<1>7. EscalatedWasDelivered
  BY DEF Init, EscalatedWasDelivered
<1> QED BY <1>1, <1>2, <1>3, <1>4, <1>5, <1>6, <1>7, TypeParts DEF NInv

-----------------------------------------------------------------------------
\* A step of one slot that leaves the incidents as old as they were.
LEMMA SlotStep ==
  ASSUME NInv, NEW w \in Workers, JobTypes', QueueTypes', NoteTypes', BoundTypes',
         UNCHANGED <<status, age, resolved, channels, window>>,
         escalated' \in [Incidents -> BOOLEAN], EscalatedWasDelivered',
         \A n \in Notes : received[n] > 0 => received'[n] > 0,
         \A v \in Workers \ {w} : SameJob(v), Slot(w)',
         \A i \in Incidents : Queue(i)'
  PROVE  NInv'
<1>1. TypeOK'
  BY TypeParts, TypePartsNext DEF NInv, DbTypes
<1>2. Forward
  BY DEF Forward
<1>3. \A v \in Workers : Slot(v)'
  BY <1>2, SlotFrame
<1> QED BY <1>1, <1>3 DEF NInv

\* The same when only the slot moves, and messages arrive.
LEMMA SlotMoves ==
  ASSUME NInv, NEW w \in Workers, JobTypes', NoteTypes', BoundTypes',
         UNCHANGED <<status, age, resolved, channels, window, escalated, redisVars>>,
         \A n \in Notes : received[n] > 0 => received'[n] > 0,
         \A v \in Workers \ {w} : SameJob(v), Slot(w)'
  PROVE  NInv'
<1>1. QueueTypes' /\ escalated' \in [Incidents -> BOOLEAN]
  BY TypeParts DEF NInv, QueueTypes, DbTypes, redisVars
<1>2. EscalatedWasDelivered'
  BY MarksKept DEF Forward
<1>3. \A i \in Incidents : Queue(i)'
  BY QueueFrame DEF NInv, redisVars
<1> QED BY <1>1, <1>2, <1>3, SlotStep

\* What is left of a queue without its first entry.
LEMMA TailEntries ==
  ASSUME NEW S, NEW s \in Seq(S), s # <<>>
  PROVE  /\ Tail(s) \in Seq(S) /\ 1 \in DOMAIN s /\ Head(s) = s[1]
         /\ \A n \in DOMAIN Tail(s) : n + 1 \in DOMAIN s /\ Tail(s)[n] = s[n + 1]
<1>1. Len(s) \in Nat /\ Len(s) # 0 /\ DOMAIN s = 1 .. Len(s)
  BY EmptySeq, LenProperties
<1>2. /\ Tail(s) \in Seq(S) /\ Len(Tail(s)) = Len(s) - 1
      /\ \A n \in 1 .. Len(Tail(s)) : Tail(s)[n] = s[n + 1]
  BY HeadTailProperties
<1>3. DOMAIN Tail(s) = 1 .. Len(s) - 1
  BY <1>2, LenProperties
<1>4. Head(s) = s[1]
  OBVIOUS
<1> QED BY <1>1, <1>2, <1>3, <1>4

\* One count of several is one less.
LEMMA OneLess ==
  ASSUME NEW S, NEW f \in [S -> Nat], NEW x \in S, f[x] > 0, NEW g, g = [f EXCEPT ![x] = @ - 1]
  PROVE  g \in [S -> Nat] /\ \A e \in S : g[e] \in Nat /\ f[e] \in Nat /\ g[e] <= f[e]
<1>1. f[x] \in Nat /\ f[x] - 1 \in Nat /\ f[x] - 1 <= f[x]
  OBVIOUS
<1>2. \A e \in S : g[e] = IF e = x THEN f[x] - 1 ELSE f[e]
  OBVIOUS
<1>3. \A e \in S : f[e] \in Nat /\ f[e] <= f[e]
  OBVIOUS
<1>4. \A e \in S : g[e] \in Nat /\ g[e] <= f[e]
  BY <1>1, <1>2, <1>3
<1> QED BY <1>3, <1>4

\* Taking from the queue: what is taken was opened, and is old enough to be escalated.
LEMMA TakeStep ==
  ASSUME NInv, NEW i \in Incidents, NEW k \in Kinds, Take(i, k), UNCHANGED <<status, age>>
  PROVE  /\ QueueTypes' /\ \A j \in Incidents : Queue(j)'
         /\ status[i] # "none"
         /\ k = "escalation" => age[i] = Delay
<1>0. /\ QueueTypes /\ DbTypes /\ Queue(i) /\ \A j \in Incidents : Queue(j)
  BY TypeParts DEF NInv
<1>1. CASE ready[<<i, k>>] > 0 /\ ready' = [ready EXCEPT ![<<i, k>>] = @ - 1] /\ UNCHANGED deferred
  <2>1. <<i, k>> \in Incidents \X Kinds /\ ready[<<i, k>>] \in Nat
    BY <1>0 DEF QueueTypes
  <2>2. QueueTypes'
    BY <1>0, <1>1, <2>1 DEF QueueTypes
  <2>3. \A e \in Incidents \X Kinds : ready'[e] \in Nat /\ ready[e] \in Nat /\ ready'[e] <= ready[e]
    <3>1. PICK x \in Incidents \X Kinds : ready[x] > 0 /\ ready' = [ready EXCEPT ![x] = @ - 1]
      BY <1>1, <2>1
    <3>2. ready \in [Incidents \X Kinds -> Nat]
      BY <1>0 DEF QueueTypes
    <3> QED BY <3>1, <3>2, OneLess
  <2>4. ASSUME NEW j \in Incidents PROVE Queue(j)'
    <3>1. \A l \in Kinds : /\ ready'[<<j, l>>] \in Nat /\ ready[<<j, l>>] \in Nat
                         /\ ready'[<<j, l>>] <= ready[<<j, l>>]
      BY <2>3
    <3>2. status'[j] = "none" => deferred'[j] = <<>> /\ \A l \in Kinds : ready'[<<j, l>>] = 0
      <4>1. ASSUME NEW l \in Kinds, ready[<<j, l>>] = 0 PROVE ready'[<<j, l>>] = 0
        BY <3>1, <4>1
      <4> QED BY <1>0, <1>1, <4>1 DEF Queue
    <3>3. ready'[<<j, "escalation">>] > 0 => age'[j] = Delay
      BY <1>0, <3>1 DEF Queue, Kinds
    <3>4. \A n \in DOMAIN deferred'[j] : age'[j] + deferred'[j][n] >= Delay
      BY <1>0, <1>1 DEF Queue
    <3> QED BY <3>2, <3>3, <3>4 DEF Queue
  <2> QED BY <1>0, <1>1, <2>2, <2>4 DEF Queue
<1>2. CASE /\ k = "escalation" /\ deferred[i] # <<>> /\ Head(deferred[i]) = 0
           /\ deferred' = [deferred EXCEPT ![i] = Tail(@)] /\ UNCHANGED ready
  <2> DEFINE s == deferred[i]
  <2>1. s \in Seq(0 .. Delay) /\ s # <<>>
    BY <1>0, <1>2 DEF QueueTypes
  <2>2. /\ Tail(s) \in Seq(0 .. Delay) /\ 1 \in DOMAIN s /\ s[1] = 0
        /\ \A n \in DOMAIN Tail(s) : n + 1 \in DOMAIN s /\ Tail(s)[n] = s[n + 1]
    BY <1>2, <2>1, TailEntries DEF s
  <2>3. deferred'[i] = Tail(s) /\ \A j \in Incidents \ {i} : deferred'[j] = deferred[j]
    BY <1>0, <1>2 DEF QueueTypes
  <2>4. QueueTypes'
    BY <1>0, <1>2, <2>2 DEF QueueTypes
  <2> HIDE DEF s
  <2>5. age[i] = Delay
    <3>1. age[i] \in 0 .. Delay /\ age[i] + s[1] >= Delay
      BY <1>0, <2>2 DEF DbTypes, Queue, s
    <3> QED BY <2>2, <3>1, DelayAssumption
  <2>6. Queue(i)'
    <3>1. \A n \in DOMAIN deferred'[i] : age'[i] + deferred'[i][n] >= Delay
      BY <1>0, <2>2, <2>3 DEF Queue, s
    <3>2. status'[i] # "none"
      BY <1>0, <1>2 DEF Queue
    <3> QED BY <2>5, <3>1, <3>2 DEF Queue
  <2>7. ASSUME NEW j \in Incidents \ {i} PROVE Queue(j)'
    BY <1>0, <1>2, <2>3, QueueFrame
  <2> QED BY <1>0, <1>2, <2>4, <2>5, <2>6, <2>7 DEF Queue
<1> QED BY <1>1, <1>2 DEF Take

\* Queueing one of them, or none: of an incident that was opened, and an escalation only
\* of one that is old enough.
LEMMA EnqueueStep ==
  ASSUME QueueTypes, \A j \in Incidents : Queue(j), NEW i \in Incidents, NEW k \in Kinds,
         ready' = [ready EXCEPT ![<<i, k>>] = @ + 1] \/ ready' = ready,
         UNCHANGED <<deferred, age>>, ready' # ready => status'[i] # "none",
         \A j \in Incidents : status'[j] = "none" => status[j] = "none",
         k = "escalation" => age[i] = Delay
  PROVE  QueueTypes' /\ \A j \in Incidents : Queue(j)'
<1>1. QueueTypes'
  <2>1. PICK x \in Incidents \X Kinds : ready' = [ready EXCEPT ![x] = @ + 1] \/ ready' = ready
    OBVIOUS
  <2>2. ready \in [Incidents \X Kinds -> Nat]
    BY DEF QueueTypes
  <2>3. ready' \in [Incidents \X Kinds -> Nat]
    BY <2>1, <2>2
  <2> QED BY <2>3 DEF QueueTypes
<1>2. ASSUME NEW j \in Incidents PROVE Queue(j)'
  <2>1. \A l \in Kinds : ready'[<<j, l>>] = ready[<<j, l>>] \/ (j = i /\ l = k /\ ready' # ready)
    <3>1. CASE ready' = ready
      BY <3>1
    <3>2. CASE ready' # ready
      BY <3>2 DEF QueueTypes
    <3> QED BY <3>1, <3>2
  <2>2. status'[j] = "none" => deferred'[j] = <<>> /\ \A l \in Kinds : ready'[<<j, l>>] = 0
    BY <2>1 DEF Queue
  <2>3. ready'[<<j, "escalation">>] > 0 => age'[j] = Delay
    BY <2>1 DEF Queue, Kinds
  <2>4. \A n \in DOMAIN deferred'[j] : age'[j] + deferred'[j][n] >= Delay
    BY DEF Queue
  <2> QED BY <2>2, <2>3, <2>4 DEF Queue
<1> QED BY <1>1, <1>2

\* What is left of the bounds.
LEMMA Faults ==
  ASSUME BoundTypes, faults' = faults \/ (faults > 0 /\ faults' = faults - 1),
         changes' = changes \/ (changes > 0 /\ changes' = changes - 1),
         deleted' \in SUBSET Channels
  PROVE  BoundTypes'
BY DelayAssumption DEF BoundTypes

-----------------------------------------------------------------------------
\* One lemma per action: it keeps the types, the queue and the slots right.
LEMMA StartAlertKept ==
  ASSUME NInv, NEW w \in Workers, NEW i \in Incidents, NEW k \in Kinds, StartAlert(w, i, k)
  PROVE  NInv'
<1>0. /\ JobTypes /\ NoteTypes /\ BoundTypes /\ DbTypes /\ Slot(w)
      /\ UNCHANGED <<dbVars, todo, sent, failed, received, faults, changes, deleted>>
      /\ pc[w] = "idle" /\ Take(i, k)
  BY TypeParts DEF NInv, StartAlert
<1>1. UNCHANGED <<status, age, resolved, channels, window, escalated, logged>>
  BY <1>0 DEF dbVars
<1>2. /\ QueueTypes' /\ \A j \in Incidents : Queue(j)'
      /\ status[i] # "none" /\ (k = "escalation" => age[i] = Delay)
  BY <1>0, <1>1, TakeStep
<1>3. \/ UNCHANGED <<pc, inc, kind>>
      \/ /\ pc' = [pc EXCEPT ![w] = "gate"] /\ inc' = [inc EXCEPT ![w] = i]
         /\ kind' = [kind EXCEPT ![w] = k]
  BY DEF StartAlert
<1>4. JobTypes'
  BY <1>0, <1>3 DEF JobTypes
<1>5. \A v \in Workers \ {w} : SameJob(v)
  BY <1>0, <1>3 DEF JobTypes, SameJob
<1>6. Slot(w)'
  <2>1. sent'[w] = {}
    BY <1>0 DEF Slot
  <2>2. CASE UNCHANGED <<pc, inc, kind>>
    BY <1>0, <2>1, <2>2 DEF Slot
  <2>3. CASE /\ pc' = [pc EXCEPT ![w] = "gate"] /\ inc' = [inc EXCEPT ![w] = i]
             /\ kind' = [kind EXCEPT ![w] = k]
    <3>1. pc'[w] = "gate" /\ inc'[w] = i /\ kind'[w] = k
      BY <1>0, <2>3 DEF JobTypes
    <3> QED BY <1>1, <1>2, <2>1, <3>1 DEF Slot
  <2> QED BY <1>3, <2>2, <2>3
<1>7. EscalatedWasDelivered' /\ escalated' \in [Incidents -> BOOLEAN]
  BY <1>0, <1>1 DEF NInv, EscalatedWasDelivered, DbTypes
<1>8. NoteTypes' /\ BoundTypes'
  BY <1>0, <1>1 DEF NoteTypes, BoundTypes
<1> QED BY <1>0, <1>1, <1>2, <1>4, <1>5, <1>6, <1>7, <1>8, SlotStep

LEMMA GateKept ==
  ASSUME NInv, NEW w \in Workers, Gate(w)
  PROVE  NInv'
<1>0. /\ JobTypes /\ NoteTypes /\ BoundTypes /\ DbTypes /\ Slot(w) /\ pc[w] = "gate"
      /\ UNCHANGED <<redisVars, received, faults, changes, deleted>>
      /\ UNCHANGED <<status, age, resolved, channels, window, escalated, logged>>
  BY TypeParts DEF NInv, Gate, dbVars
<1>1. NoteTypes' /\ BoundTypes'
  BY <1>0 DEF NoteTypes, BoundTypes
<1>2. CASE Finish(w)
  BY <1>0, <1>1, <1>2, FinishSlot, SlotMoves
<1>3. CASE Goto(w, "send") /\ todo' = [todo EXCEPT ![w] = channels] /\ UNCHANGED <<sent, failed>>
  <2>1. JobTypes'
    BY <1>0, <1>3 DEF JobTypes, DbTypes, Goto
  <2>2. pc'[w] = "send" /\ inc'[w] = inc[w] /\ kind'[w] = kind[w] /\ sent'[w] = sent[w]
    BY <1>0, <1>3 DEF JobTypes, Goto
  <2>3. \A v \in Workers \ {w} : SameJob(v)
    BY <1>0, <1>3 DEF JobTypes, Goto, SameJob
  <2>4. Slot(w)'
    BY <1>0, <2>2 DEF Slot
  <2> QED BY <1>0, <1>1, <2>1, <2>3, <2>4, SlotMoves
<1> QED BY <1>2, <1>3 DEF Gate

\* A message arrives, or several, or none.
LEMMA Delivered ==
  ASSUME NoteTypes, NEW w \in Workers, NEW c \in Channels, NEW n \in Nat, Deliver(w, c, n),
         inc[w] \in Incidents, kind[w] \in Kinds
  PROVE  /\ received' \in [Notes -> Nat]
         /\ \A m \in Notes : received[m] > 0 => received'[m] > 0
         /\ n > 0 => received'[<<inc[w], kind[w], c>>] > 0
<1> DEFINE x == <<inc[w], kind[w], c>>
<1>1. x \in Notes /\ received[x] \in Nat
  BY DEF NoteTypes, Notes
<1>2. received' = [received EXCEPT ![x] = received[x] + n]
  BY DEF Deliver
<1> HIDE DEF x
<1>3. received' \in [Notes -> Nat]
  BY <1>1, <1>2 DEF NoteTypes
<1>4. received'[x] = received[x] + n /\ \A m \in Notes \ {x} : received'[m] = received[m]
  BY <1>1, <1>2 DEF NoteTypes
<1>5. received[x] > 0 => received'[x] > 0
  BY <1>1, <1>4
<1>6. n > 0 => received'[x] > 0
  BY <1>1, <1>4
<1> QED BY <1>3, <1>4, <1>5, <1>6 DEF x

LEMMA SendKept ==
  ASSUME NInv, NEW w \in Workers, NEW c \in Channels, SendOK(w, c) \/ SendFails(w, c)
  PROVE  NInv'
<1>0. /\ JobTypes /\ NoteTypes /\ BoundTypes /\ DbTypes /\ Slot(w) /\ pc[w] = "send"
      /\ UNCHANGED <<redisVars, changes, deleted>>
      /\ UNCHANGED <<status, age, resolved, channels, window, escalated, logged>>
      /\ faults' = faults \/ (faults > 0 /\ faults' = faults - 1)
  BY TypeParts DEF NInv, SendOK, SendFails, dbVars
<1>1. inc[w] \in Incidents /\ kind[w] \in Kinds
  BY <1>0 DEF Slot, JobTypes
<1>2. PICK n \in Nat : Deliver(w, c, n) /\ (SendOK(w, c) => n > 0)
  <2>1. CASE SendOK(w, c)
    <3>1. PICK n \in 1 .. MaxRetries : Deliver(w, c, n)
      BY <2>1 DEF SendOK
    <3> QED BY <3>1 DEF MaxRetries
  <2>2. CASE ~SendOK(w, c)
    <3>1. PICK n \in 0 .. MaxRetries : Deliver(w, c, n)
      BY <2>2 DEF SendFails
    <3> QED BY <2>2, <3>1 DEF MaxRetries
  <2> QED BY <2>1, <2>2
<1>3. /\ received' \in [Notes -> Nat]
      /\ \A m \in Notes : received[m] > 0 => received'[m] > 0
      /\ SendOK(w, c) => received'[<<inc[w], kind[w], c>>] > 0
  BY <1>0, <1>1, <1>2, Delivered
<1>4. NoteTypes' /\ BoundTypes'
  BY <1>0, <1>3, Faults DEF NoteTypes, BoundTypes
<1>5. CASE Finish(w)
  BY <1>0, <1>3, <1>4, <1>5, FinishSlot, SlotMoves
<1>6. CASE ~Finish(w)
  <2>1. /\ UNCHANGED <<pc, inc, kind>> /\ todo' = [todo EXCEPT ![w] = @ \ {c}]
        /\ \/ SendOK(w, c) /\ sent' = [sent EXCEPT ![w] = @ \cup {c}] /\ UNCHANGED failed
           \/ failed' = [failed EXCEPT ![w] = @ \cup {c}] /\ UNCHANGED sent
    BY <1>6 DEF SendOK, SendFails, Receipt
  <2>2. JobTypes'
    BY <1>0, <2>1 DEF JobTypes
  <2>3. \A v \in Workers \ {w} : SameJob(v)
    BY <1>0, <2>1 DEF JobTypes, SameJob
  <2>4. \A d \in sent'[w] : received'[<<inc[w], kind[w], d>>] > 0
    <3>1. \A d \in sent'[w] : d \in sent[w] \/ (d = c /\ SendOK(w, c))
      BY <1>0, <2>1 DEF JobTypes
    <3>2. ASSUME NEW d \in sent[w] PROVE received'[<<inc[w], kind[w], d>>] > 0
      <4>1. <<inc[w], kind[w], d>> \in Notes
        BY <1>0, <1>1 DEF JobTypes, Notes
      <4> QED BY <1>0, <1>3, <4>1 DEF Slot
    <3> QED BY <1>3, <3>1, <3>2
  <2>5. Slot(w)'
    BY <1>0, <2>1, <2>4 DEF Slot
  <2> QED BY <1>0, <1>3, <1>4, <2>2, <2>3, <2>5, SlotMoves
<1> QED BY <1>5, <1>6

LEMMA CommitReceiptsKept ==
  ASSUME NInv, NEW w \in Workers, CommitReceipts(w)
  PROVE  NInv'
<1>0. /\ JobTypes /\ NoteTypes /\ BoundTypes /\ DbTypes /\ Slot(w) /\ pc[w] = "send"
      /\ UNCHANGED <<redisVars, received, faults, changes, deleted>>
      /\ UNCHANGED <<status, age, resolved, channels, window, escalated>>
  BY TypeParts DEF NInv, CommitReceipts
<1>1. BoundTypes'
  BY <1>0 DEF BoundTypes
<1>2. NoteTypes'
  <2>1. logged' = [n \in Notes |-> logged'[n]]
    BY DEF CommitReceipts
  <2>2. \A n \in Notes : logged'[n] = logged[n] \/ logged'[n] = logged[n] + 1
    BY DEF CommitReceipts
  <2>3. \A n \in Notes : logged[n] \in Nat
    BY <1>0 DEF NoteTypes
  <2>4. \A n \in Notes : logged'[n] \in Nat
    BY <2>2, <2>3
  <2> QED BY <1>0, <2>1, <2>4 DEF NoteTypes
<1>3. CASE Finish(w)
  BY <1>0, <1>1, <1>2, <1>3, FinishSlot, SlotMoves
<1>4. CASE ~Finish(w)
  <2>1. /\ Goto(w, IF kind[w] = "open" THEN "defer" ELSE "mark")
        /\ sent' = [sent EXCEPT ![w] = {}] /\ failed' = [failed EXCEPT ![w] = {}]
        /\ UNCHANGED todo /\ kind[w] # "recovery" /\ sent[w] # {}
    BY <1>4 DEF CommitReceipts
  <2>2. JobTypes'
    BY <1>0, <2>1 DEF JobTypes, Goto
  <2>3. \A v \in Workers \ {w} : SameJob(v)
    BY <1>0, <2>1 DEF JobTypes, SameJob, Goto
  <2>4. /\ pc'[w] = IF kind[w] = "open" THEN "defer" ELSE "mark"
        /\ inc'[w] = inc[w] /\ kind'[w] = kind[w] /\ sent'[w] = {} /\ kind[w] \in Kinds
    BY <1>0, <2>1 DEF JobTypes, Goto
  <2>5. PICK c \in sent[w] : received[<<inc[w], kind[w], c>>] > 0
    BY <1>0, <2>1 DEF Slot
  <2>6. c \in Channels
    BY <1>0 DEF JobTypes
  <2>7. pc'[w] = "mark" => received'[<<inc'[w], "escalation", c>>] > 0
    BY <1>0, <2>1, <2>4, <2>5 DEF Kinds
  <2>8. Slot(w)'
    BY <1>0, <2>4, <2>6, <2>7 DEF Slot
  <2> QED BY <1>0, <1>1, <1>2, <2>2, <2>3, <2>8, SlotMoves
<1> QED BY <1>3, <1>4

LEMMA DeferKept ==
  ASSUME NInv, NEW w \in Workers, DeferEscalation(w)
  PROVE  NInv'
<1>i. PICK i \in Incidents : i = inc[w] /\ status[i] # "none"
  BY TypeParts DEF NInv, DeferEscalation, Slot
<1>0. /\ JobTypes /\ NoteTypes /\ BoundTypes /\ DbTypes /\ QueueTypes /\ Slot(w) /\ pc[w] = "defer"
      /\ UNCHANGED <<ready, received, changes, deleted>> /\ Finish(w)
      /\ UNCHANGED <<status, age, resolved, channels, window, escalated, logged>>
      /\ faults' = faults \/ (faults > 0 /\ faults' = faults - 1)
      /\ deferred' = deferred \/ deferred' = [deferred EXCEPT ![i] = Append(@, Delay)]
      /\ status[i] # "none"
      /\ \A j \in Incidents : Queue(j)
  BY <1>i, TypeParts DEF NInv, DeferEscalation, dbVars
<1>1. NoteTypes' /\ BoundTypes'
  BY <1>0, Faults DEF NoteTypes, BoundTypes
<1>2. JobTypes' /\ Slot(w)' /\ \A v \in Workers \ {w} : SameJob(v)
  BY <1>0, FinishSlot
<1>3. EscalatedWasDelivered' /\ escalated' \in [Incidents -> BOOLEAN]
  BY <1>0 DEF NInv, EscalatedWasDelivered, DbTypes
<1>4. CASE deferred' = deferred
  <2>1. UNCHANGED redisVars
    BY <1>0, <1>4 DEF redisVars
  <2> QED BY <1>0, <1>1, <1>2, <2>1, SlotMoves
<1>5. CASE deferred' = [deferred EXCEPT ![i] = Append(@, Delay)]
  <2> DEFINE s == deferred[i]
  <2>1. s \in Seq(0 .. Delay) /\ Delay \in 0 .. Delay /\ age[i] \in Nat /\ Delay \in Nat
    BY <1>0, DelayAssumption DEF QueueTypes, DbTypes
  <2>2. /\ Append(s, Delay) \in Seq(0 .. Delay)
        /\ DOMAIN Append(s, Delay) = 1 .. Len(s) + 1 /\ DOMAIN s = 1 .. Len(s) /\ Len(s) \in Nat
        /\ \A n \in 1 .. Len(s) : Append(s, Delay)[n] = s[n]
        /\ Append(s, Delay)[Len(s) + 1] = Delay
    BY <2>1, AppendProperties, LenProperties
  <2>3. deferred'[i] = Append(s, Delay) /\ \A j \in Incidents \ {i} : deferred'[j] = deferred[j]
    BY <1>0, <1>5 DEF QueueTypes
  <2>4. QueueTypes'
    BY <1>0, <1>5, <2>2 DEF QueueTypes
  <2> HIDE DEF s
  <2>5. Queue(i)'
    <3>1. ASSUME NEW n \in DOMAIN deferred'[i] PROVE age'[i] + deferred'[i][n] >= Delay
      <4>1. CASE n \in 1 .. Len(s)
        BY <1>0, <2>2, <2>3, <4>1 DEF Queue, s
      <4>2. CASE n = Len(s) + 1
        BY <1>0, <2>1, <2>2, <2>3, <4>2
      <4> QED BY <2>2, <2>3, <4>1, <4>2
    <3>2. status'[i] # "none" /\ (ready'[<<i, "escalation">>] > 0 => age'[i] = Delay)
      BY <1>0 DEF Queue
    <3> QED BY <3>1, <3>2 DEF Queue
  <2>6. \A j \in Incidents \ {i} : Queue(j)'
    BY <1>0, <2>3, QueueFrame
  <2>7. \A j \in Incidents : Queue(j)'
    BY <2>5, <2>6
  <2> QED BY <1>0, <1>1, <1>2, <1>3, <2>4, <2>7, SlotStep
<1> QED BY <1>0, <1>4, <1>5

LEMMA MarkKept ==
  ASSUME NInv, NEW w \in Workers, MarkEscalated(w)
  PROVE  NInv'
<1>0. /\ JobTypes /\ NoteTypes /\ BoundTypes /\ DbTypes /\ QueueTypes /\ Slot(w) /\ pc[w] = "mark"
      /\ UNCHANGED <<redisVars, received, faults, changes, deleted>> /\ Finish(w)
      /\ UNCHANGED <<status, age, resolved, channels, window, logged>>
      /\ escalated' = [escalated EXCEPT ![inc[w]] = status[inc[w]] # "gone"]
      /\ \A j \in Incidents : Queue(j)
  BY TypeParts DEF NInv, MarkEscalated
<1>1. NoteTypes' /\ BoundTypes' /\ QueueTypes'
  BY <1>0 DEF NoteTypes, BoundTypes, QueueTypes, redisVars
<1>2. JobTypes' /\ Slot(w)' /\ \A v \in Workers \ {w} : SameJob(v)
  BY <1>0, FinishSlot
<1>3. escalated' \in [Incidents -> BOOLEAN]
  BY <1>0 DEF DbTypes
<1>4. \A j \in Incidents : j # inc[w] => escalated'[j] = escalated[j]
  BY <1>0 DEF DbTypes
<1>5. EscalatedWasDelivered'
  BY <1>0, <1>4 DEF NInv, EscalatedWasDelivered, Slot
<1>6. \A j \in Incidents : Queue(j)'
  BY <1>0, QueueFrame DEF redisVars
<1> QED BY <1>0, <1>1, <1>2, <1>3, <1>5, <1>6, SlotStep

LEMMA AbortKept ==
  ASSUME NInv, NEW w \in Workers, Abort(w)
  PROVE  NInv'
<1>0. /\ JobTypes /\ NoteTypes /\ BoundTypes /\ DbTypes /\ QueueTypes /\ Slot(w) /\ pc[w] # "idle"
      /\ UNCHANGED <<deferred, received, changes, deleted>> /\ Finish(w)
      /\ UNCHANGED <<status, age, resolved, channels, window, escalated, logged>>
      /\ faults' = faults \/ (faults > 0 /\ faults' = faults - 1)
      /\ ready' = [ready EXCEPT ![<<inc[w], kind[w]>>] = @ + 1] \/ ready' = ready
      /\ \A j \in Incidents : Queue(j)
  BY TypeParts DEF NInv, Abort, dbVars
<1>1. NoteTypes' /\ BoundTypes'
  BY <1>0, Faults DEF NoteTypes, BoundTypes
<1>2. JobTypes' /\ Slot(w)' /\ \A v \in Workers \ {w} : SameJob(v)
  BY <1>0, FinishSlot
<1>3. EscalatedWasDelivered' /\ escalated' \in [Incidents -> BOOLEAN]
  BY <1>0 DEF NInv, EscalatedWasDelivered, DbTypes
<1>4. /\ inc[w] \in Incidents /\ kind[w] \in Kinds /\ status[inc[w]] # "none"
      /\ kind[w] = "escalation" => age[inc[w]] = Delay
  BY <1>0 DEF Slot, JobTypes
<1>5. QueueTypes' /\ \A j \in Incidents : Queue(j)'
  BY <1>0, <1>4, EnqueueStep
<1> QED BY <1>0, <1>1, <1>2, <1>3, <1>5, SlotStep

-----------------------------------------------------------------------------
\* A step that moves no slot.
LEMMA WorldStep ==
  ASSUME NInv, UNCHANGED jobVars, UNCHANGED <<logged, received>>,
         DbTypes', QueueTypes', BoundTypes', Forward,
         \A i \in Incidents : escalated'[i] => escalated[i],
         \A i \in Incidents : Queue(i)'
  PROVE  NInv'
<1>1. JobTypes' /\ NoteTypes'
  BY TypeParts DEF NInv, JobTypes, NoteTypes, jobVars
<1>2. \A v \in Workers : Slot(v)'
  BY SlotFrame DEF SameJob, jobVars
<1>3. EscalatedWasDelivered'
  BY MarksKept
<1> QED BY <1>1, <1>2, <1>3, TypePartsNext DEF NInv

LEMMA SweepKept ==
  ASSUME NInv, SweepStaleEscalations
  PROVE  NInv'
<1>0. /\ DbTypes /\ QueueTypes /\ BoundTypes /\ \A j \in Incidents : Queue(j)
      /\ UNCHANGED <<dbVars, deferred, jobVars, received, changes, deleted>>
      /\ faults' = faults \/ (faults > 0 /\ faults' = faults - 1)
  BY TypeParts DEF NInv, SweepStaleEscalations
<1>1. UNCHANGED <<status, age, resolved, escalated, channels, window, logged>>
  BY <1>0 DEF dbVars
<1>2. PICK queued \in SUBSET {i \in Incidents : status[i] = "OPEN" /\ age[i] = Delay} :
        ready' = [e \in Incidents \X Kinds |->
                    IF e[1] \in queued /\ e[2] = "escalation" THEN ready[e] + 1 ELSE ready[e]]
  <2> DEFINE stale == {i \in Incidents : ShouldEscalate(i) /\ age[i] = Delay
                                          /\ ~Muted /\ ready[<<i, "escalation">>] < MaxQueue}
  <2>1. stale \subseteq {i \in Incidents : status[i] = "OPEN" /\ age[i] = Delay}
    BY DEF ShouldEscalate
  <2>2. \E queued \in SUBSET stale :
          ready' = [e \in Incidents \X Kinds |->
                      IF e[1] \in queued /\ e[2] = "escalation" THEN ready[e] + 1 ELSE ready[e]]
    BY DEF SweepStaleEscalations
  <2> QED BY <2>1, <2>2
<1>3. DbTypes' /\ BoundTypes' /\ Forward
  BY <1>0, <1>1, Faults DEF DbTypes, Forward, BoundTypes
<1>4. QueueTypes'
  <2>1. \A e \in Incidents \X Kinds : ready[e] \in Nat /\ ready[e] + 1 \in Nat
    BY <1>0 DEF QueueTypes
  <2> QED BY <1>0, <1>2, <2>1 DEF QueueTypes
<1>5. ASSUME NEW j \in Incidents PROVE Queue(j)'
  <2>1. \A l \in Kinds :
          \/ ready'[<<j, l>>] = ready[<<j, l>>]
          \/ l = "escalation" /\ age[j] = Delay /\ status[j] = "OPEN"
    BY <1>2
  <2>2. status'[j] = "none" => deferred'[j] = <<>> /\ \A l \in Kinds : ready'[<<j, l>>] = 0
    BY <1>0, <1>1, <2>1 DEF Queue
  <2>3. ready'[<<j, "escalation">>] > 0 => age'[j] = Delay
    BY <1>0, <1>1, <2>1 DEF Queue, Kinds
  <2>4. \A n \in DOMAIN deferred'[j] : age'[j] + deferred'[j][n] >= Delay
    BY <1>0, <1>1 DEF Queue
  <2> QED BY <2>2, <2>3, <2>4 DEF Queue
<1> QED BY <1>0, <1>1, <1>3, <1>4, <1>5, WorldStep

\* What checks and handlers do to incidents.
LEMMA IncidentKept ==
  ASSUME NInv, NEW i \in Incidents,
         \/ OpenIncident(i) \/ ResolveIncident(i) \/ AcknowledgeIncident(i) \/ DeleteIncident(i)
  PROVE  NInv'
<1>0. /\ DbTypes /\ QueueTypes /\ BoundTypes /\ \A j \in Incidents : Queue(j)
      /\ UNCHANGED <<age, channels, window, logged, deferred, jobVars, received, changes, deleted>>
  BY TypeParts DEF NInv, OpenIncident, ResolveIncident, AcknowledgeIncident, DeleteIncident,
                   redisVars
<1>1. /\ faults' = faults \/ (faults > 0 /\ faults' = faults - 1)
      /\ \E k \in Kinds \ {"escalation"} :
           ready' = [ready EXCEPT ![<<i, k>>] = @ + 1] \/ ready' = ready
  BY DEF OpenIncident, ResolveIncident, AcknowledgeIncident, DeleteIncident, redisVars, Announce,
         Kinds
<1>2. \E s \in {"OPEN", "ACK", "RESOLVED", "gone"} : status' = [status EXCEPT ![i] = s]
  BY DEF OpenIncident, ResolveIncident, AcknowledgeIncident, DeleteIncident
<1>3. /\ resolved' = resolved \/ resolved' = [resolved EXCEPT ![i] = TRUE]
      /\ escalated' = escalated \/ escalated' = [escalated EXCEPT ![i] = FALSE]
  BY DEF OpenIncident, ResolveIncident, AcknowledgeIncident, DeleteIncident
<1>4. DbTypes' /\ status'[i] # "none" /\ \A j \in Incidents \ {i} : status'[j] = status[j]
  BY <1>0, <1>2, <1>3 DEF DbTypes
<1>5. BoundTypes' /\ Forward
  BY <1>0, <1>1, <1>4, Faults DEF Forward, BoundTypes
<1>6. QueueTypes' /\ \A j \in Incidents : Queue(j)'
  BY <1>0, <1>1, <1>4, EnqueueStep
<1>7. \A j \in Incidents : escalated'[j] => escalated[j]
  BY <1>0, <1>3 DEF DbTypes
<1> QED BY <1>0, <1>4, <1>5, <1>6, <1>7, WorldStep

\* Windows and channels come and go, and nothing at all happens.
LEMMA ChangeKept ==
  ASSUME NInv,
         \/ CreateWindow \/ DeleteWindow \/ TurnWindow
         \/ \E c \in Channels : DeleteChannel(c) \/ CreateChannel(c)
         \/ UNCHANGED vars
  PROVE  NInv'
<1>0. /\ DbTypes /\ QueueTypes /\ BoundTypes /\ \A j \in Incidents : Queue(j)
      /\ UNCHANGED <<status, age, resolved, escalated, logged, redisVars, jobVars, received, faults>>
      /\ changes' = changes \/ (changes > 0 /\ changes' = changes - 1)
      /\ deleted' = deleted \/ \E c \in Channels : deleted' = deleted \cup {c}
  BY TypeParts DEF NInv, CreateWindow, DeleteWindow, TurnWindow, DeleteChannel, CreateChannel, vars,
                   dbVars
<1>4. deleted' \in SUBSET Channels
  BY <1>0 DEF BoundTypes
<1>1. channels' \in SUBSET Channels /\ window' \in {"none", "planned", "active"}
  BY <1>0 DEF DbTypes, CreateWindow, DeleteWindow, TurnWindow, DeleteChannel, CreateChannel, vars,
              dbVars
<1>2. DbTypes' /\ QueueTypes' /\ BoundTypes' /\ Forward
  BY <1>0, <1>4, <1>1, Faults DEF DbTypes, QueueTypes, redisVars, Forward
<1>3. \A j \in Incidents : Queue(j)'
  BY <1>0, QueueFrame DEF redisVars
<1> QED BY <1>0, <1>2, <1>3, WorldStep

\* Time passes: what an incident gains in age its deferrals lose.
LEMMA TickKept ==
  ASSUME NInv, Tick
  PROVE  NInv'
<1> USE DelayAssumption
<1>0. /\ DbTypes /\ QueueTypes /\ BoundTypes /\ \A j \in Incidents : Queue(j)
      /\ UNCHANGED <<status, resolved, escalated, channels, window, logged, ready, jobVars,
                     received, faults, changes, deleted>>
  BY TypeParts DEF NInv, Tick
<1>1. ASSUME NEW i \in Incidents
      PROVE  /\ age[i] \in 0 .. Delay
             /\ age'[i] = IF status[i] # "none" /\ age[i] < Delay THEN age[i] + 1 ELSE age[i]
             /\ age'[i] \in 0 .. Delay
             /\ age[i] = Delay => age'[i] = Delay
  <2>1. age[i] \in 0 .. Delay
    BY <1>0 DEF DbTypes
  <2>2. age'[i] = IF status[i] # "none" /\ age[i] < Delay THEN age[i] + 1 ELSE age[i]
    BY DEF Tick
  <2> QED BY <2>1, <2>2
<1>2. ASSUME NEW i \in Incidents
      PROVE  /\ deferred'[i] \in Seq(0 .. Delay)
             /\ DOMAIN deferred'[i] = DOMAIN deferred[i]
             /\ \A n \in DOMAIN deferred[i] :
                  deferred[i][n] \in 0 .. Delay /\ deferred'[i][n] = Less(deferred[i][n])
             /\ deferred[i] = <<>> => deferred'[i] = <<>>
  <2> DEFINE s == deferred[i]
  <2>1. s \in Seq(0 .. Delay)
    BY <1>0 DEF QueueTypes
  <2>2. Len(s) \in Nat /\ DOMAIN s = 1 .. Len(s) /\ \A n \in DOMAIN s : s[n] \in 0 .. Delay
    BY <2>1, LenProperties, ElementOfSeq
  <2>3. deferred'[i] = [n \in DOMAIN s |-> Less(s[n])]
    BY DEF Tick
  <2>4. \A n \in DOMAIN s : Less(s[n]) \in 0 .. Delay
    BY <2>2 DEF Less
  <2>5. deferred'[i] \in Seq(0 .. Delay)
    BY <2>2, <2>3, <2>4
  <2>6. s = <<>> => deferred'[i] = <<>>
    BY <2>2, <2>3, <2>5, EmptySeq, LenProperties
  <2> QED BY <2>2, <2>3, <2>5, <2>6
<1>3. DbTypes'
  <2>1. age' \in [Incidents -> 0 .. Delay]
    BY <1>1 DEF Tick
  <2> QED BY <1>0, <2>1 DEF DbTypes
<1>4. QueueTypes'
  <2>1. deferred' \in [Incidents -> Seq(0 .. Delay)]
    BY <1>2 DEF Tick
  <2> QED BY <1>0, <2>1 DEF QueueTypes
<1>5. BoundTypes' /\ Forward
  BY <1>0, <1>1 DEF BoundTypes, Forward
<1>6. ASSUME NEW i \in Incidents PROVE Queue(i)'
  <2>1. ASSUME NEW n \in DOMAIN deferred'[i] PROVE age'[i] + deferred'[i][n] >= Delay
    <3>1. n \in DOMAIN deferred[i] /\ status[i] # "none"
      <4>1. n \in DOMAIN deferred[i] /\ deferred[i] \in Seq(0 .. Delay)
        BY <1>0, <1>2, <2>1 DEF QueueTypes
      <4>2. deferred[i] # <<>>
        BY <4>1, LenProperties, EmptySeq
      <4> QED BY <1>0, <4>1, <4>2 DEF Queue
    <3> DEFINE d == deferred[i][n]
    <3>2. d \in 0 .. Delay /\ deferred'[i][n] = Less(d) /\ age[i] + d >= Delay
      BY <1>0, <1>2, <3>1 DEF Queue
    <3> HIDE DEF d
    <3> QED BY <1>1, <3>1, <3>2 DEF Less
  <2>2. status'[i] = "none" => deferred'[i] = <<>> /\ \A k \in Kinds : ready'[<<i, k>>] = 0
    BY <1>0, <1>2 DEF Queue
  <2>3. ready'[<<i, "escalation">>] > 0 => age'[i] = Delay
    BY <1>0, <1>1 DEF Queue
  <2> QED BY <2>1, <2>2, <2>3 DEF Queue
<1> QED BY <1>0, <1>3, <1>4, <1>5, <1>6, WorldStep

LEMMA NInvStep == NInv /\ [Next]_vars => NInv'
<1> SUFFICES ASSUME NInv, [Next]_vars PROVE NInv'
  OBVIOUS
<1>1. ASSUME NEW w \in Workers, JobStep(w) \/ Abort(w) PROVE NInv'
  BY <1>1, GateKept, CommitReceiptsKept, DeferKept, MarkKept, SendKept, AbortKept DEF JobStep
<1>2. ASSUME NEW w \in Workers, NEW i \in Incidents, NEW k \in Kinds, StartAlert(w, i, k) PROVE NInv'
  BY <1>2, StartAlertKept
<1>3. ASSUME NEW w \in Workers, NEW c \in Channels, SendFails(w, c) PROVE NInv'
  BY <1>3, SendKept
<1>4. CASE SweepStaleEscalations
  BY <1>4, SweepKept
<1>5. ASSUME NEW i \in Incidents,
             OpenIncident(i) \/ ResolveIncident(i) \/ AcknowledgeIncident(i) \/ DeleteIncident(i)
      PROVE  NInv'
  BY <1>5, IncidentKept
<1>6. CASE \/ CreateWindow \/ DeleteWindow \/ TurnWindow
           \/ \E c \in Channels : DeleteChannel(c) \/ CreateChannel(c)
           \/ UNCHANGED vars
  BY <1>6, ChangeKept
<1>7. CASE Tick
  BY <1>7, TickKept
<1> QED BY <1>1, <1>2, <1>3, <1>4, <1>5, <1>6, <1>7 DEF Next

\* Slots, queues and marks agree, after any interleaving of jobs, sweeps, checks, handlers,
\* lost enqueues, timeouts and crashes (alerter.py:21-115, alert_service.py:32-109).
THEOREM AlertsInvariant == Spec => []NInv
<1> QED BY InitNInv, NInvStep, PTL DEF Spec

\* Every job, row and queue entry keeps its type.
THEOREM AlertsTypeCorrect == Spec => []TypeOK
<1>1. NInv => TypeOK
  BY DEF NInv
<1> QED BY <1>1, AlertsInvariant, PTL

\* An incident is marked as escalated only after its escalation reached a channel, so that
\* the sweep goes on with every other one (alerter.py:51-53).
THEOREM EscalatedWasDeliveredHolds == Spec => []EscalatedWasDelivered
<1>1. NInv => EscalatedWasDelivered
  BY DEF NInv
<1> QED BY <1>1, AlertsInvariant, PTL

\* Only a slot that sends delivers, and only the message of its job.
Sends(i) == \E w \in Workers : pc[w] = "send" /\ inc[w] = i /\ kind[w] = "escalation"

\* An escalation that arrives is one that a slot with its incident sends.
LEMMA SlotsSend ==
  NInv /\ [Next]_vars =>
    \A i \in Incidents, c \in Channels :
      received'[<<i, "escalation", c>>] # received[<<i, "escalation", c>>] => Sends(i)
<1> SUFFICES ASSUME NInv, [Next]_vars, NEW i \in Incidents, NEW c \in Channels,
                    received'[<<i, "escalation", c>>] # received[<<i, "escalation", c>>]
             PROVE  Sends(i)
  OBVIOUS
<1>0. received' # received
  OBVIOUS
<1>1. PICK w \in Workers, d \in Channels : SendOK(w, d) \/ SendFails(w, d)
  BY <1>0 DEF Next, JobStep, vars, dbVars, redisVars, Gate, CommitReceipts, DeferEscalation,
         MarkEscalated, Abort, StartAlert, SweepStaleEscalations, OpenIncident, ResolveIncident,
         AcknowledgeIncident, DeleteIncident, CreateWindow, DeleteWindow, TurnWindow,
         DeleteChannel, CreateChannel, Tick
<1>2. pc[w] = "send" /\ \E n \in 0 .. MaxRetries : Deliver(w, d, n)
  <2>1. CASE SendOK(w, d)
    <3>1. PICK n \in 1 .. MaxRetries : Deliver(w, d, n)
      BY <2>1 DEF SendOK
    <3>2. n \in 0 .. MaxRetries
      BY DEF MaxRetries
    <3> QED BY <2>1, <3>1, <3>2 DEF SendOK
  <2>2. CASE SendFails(w, d)
    BY <2>2 DEF SendFails
  <2> QED BY <1>1, <2>1, <2>2
<1>3. PICK n \in 0 .. MaxRetries :
        received' = [received EXCEPT ![<<inc[w], kind[w], d>>] = @ + n]
  BY <1>2 DEF Deliver
<1>4. received \in [Notes -> Nat] /\ <<i, "escalation", c>> \in Notes
  BY DEF NInv, TypeOK, Notes, Kinds
<1>5. <<i, "escalation", c>> = <<inc[w], kind[w], d>>
  BY <1>3, <1>4
<1>6. i = inc[w] /\ kind[w] = "escalation"
  BY <1>5
<1> QED BY <1>1, <1>2, <1>6 DEF Sends

\* No escalation arrives before its incident is as old as the message says, whether the
\* deferral or the sweep queued it, and after any retry (telegram_service.py:174).
THEOREM EscalationNotEarlyHolds == Spec => EscalationNotEarly
<1>1. NInv /\ [Next]_vars =>
        [\A i \in Incidents, c \in Channels :
           received'[<<i, "escalation", c>>] > received[<<i, "escalation", c>>]
             => age[i] = Delay]_vars
  <2> SUFFICES ASSUME NInv, [Next]_vars, NEW i \in Incidents, NEW c \in Channels,
                      received'[<<i, "escalation", c>>] > received[<<i, "escalation", c>>]
               PROVE  age[i] = Delay
    OBVIOUS
  <2>1. <<i, "escalation", c>> \in Notes /\ received \in [Notes -> Nat]
    BY DEF NInv, TypeOK, Notes, Kinds
  <2>2. received'[<<i, "escalation", c>>] # received[<<i, "escalation", c>>]
    <3>1. received[<<i, "escalation", c>>] \in Nat
      BY <2>1
    <3> QED BY <3>1
  <2>3. Sends(i)
    BY <2>2, SlotsSend
  <2> QED BY <2>3 DEF Sends, NInv, Slot
<1> QED BY <1>1, AlertsInvariant, PTL DEF Spec, EscalationNotEarly

\* A step that changes no job of a slot but that it may come to its end.
Continues == \A w \in Workers : \/ inc'[w] = inc[w] /\ kind'[w] = kind[w]
                                \/ inc'[w] = NoIncident

LEMMA QuietKept ==
  ASSUME NEW i \in Incidents, Quiet(i), Continues,
         status[i] \in {"ACK", "RESOLVED", "gone"} => status'[i] \in {"ACK", "RESOLVED", "gone"}
  PROVE  Quiet(i)'
BY IncidentAssumption DEF Quiet, Continues

LEMMA FinishContinues ==
  ASSUME TypeOK, NEW w \in Workers, Finish(w)
  PROVE  Continues
BY DEF TypeOK, Finish, Continues

\* Once an incident is acknowledged or resolved and no escalation of it is being sent, none
\* that is still queued, deferred or found by the sweep is ever sent (alerter.py:29-31).
THEOREM SettledStaysQuietHolds == Spec => SettledStaysQuiet
<1>1. TypeOK /\ [Next]_vars => [\A i \in Incidents : Quiet(i) => Quiet(i)']_vars
  <2> SUFFICES ASSUME TypeOK, [Next]_vars, NEW i \in Incidents, Quiet(i)
               PROVE  Quiet(i)'
    OBVIOUS
  <2>1. ASSUME NEW w \in Workers, JobStep(w) \/ Abort(w) \/ \E c \in Channels : SendFails(w, c)
        PROVE  Quiet(i)'
    <3>1. UNCHANGED status
      BY <2>1 DEF JobStep, Gate, CommitReceipts, DeferEscalation, MarkEscalated, SendOK, Abort,
                  SendFails, dbVars
    <3>2. Finish(w) \/ UNCHANGED <<inc, kind>>
      BY <2>1 DEF JobStep, Gate, CommitReceipts, DeferEscalation, MarkEscalated, SendOK, Abort,
                  SendFails, Receipt, Goto
    <3>3. Continues
      BY <3>2, FinishContinues DEF Continues
    <3> QED BY <3>1, <3>3, QuietKept
  <2>2. ASSUME NEW w \in Workers, NEW j \in Incidents, NEW k \in Kinds, StartAlert(w, j, k)
        PROVE  Quiet(i)'
    <3>1. UNCHANGED status
      BY <2>2 DEF StartAlert, dbVars
    <3>2. CASE UNCHANGED <<inc, kind>>
      BY <3>1, <3>2, QuietKept DEF Continues
    <3>3. CASE /\ inc' = [inc EXCEPT ![w] = j] /\ kind' = [kind EXCEPT ![w] = k]
               /\ k = "escalation" => status[j] = "OPEN"
      <4>1. ASSUME NEW v \in Workers, inc'[v] = i PROVE kind'[v] # "escalation"
        <5>1. CASE v = w
          BY <3>3, <4>1, <5>1 DEF Quiet, TypeOK
        <5>2. CASE v # w
          BY <3>3, <4>1, <5>2 DEF Quiet, TypeOK
        <5> QED BY <5>1, <5>2
      <4> QED BY <3>1, <4>1 DEF Quiet
    <3> QED BY <2>2, <3>2, <3>3 DEF StartAlert, ShouldEscalate
  <2>3. ASSUME NEW j \in Incidents,
               OpenIncident(j) \/ ResolveIncident(j) \/ AcknowledgeIncident(j) \/ DeleteIncident(j)
        PROVE  Quiet(i)'
    <3>1. UNCHANGED <<inc, kind>>
      BY <2>3 DEF OpenIncident, ResolveIncident, AcknowledgeIncident, DeleteIncident, jobVars
    <3>2. \/ status[j] = "none" \/ \E t \in {"ACK", "RESOLVED", "gone"} : status' = [status EXCEPT ![j] = t]
      BY <2>3 DEF OpenIncident, ResolveIncident, AcknowledgeIncident, DeleteIncident
    <3>3. \A l \in Incidents : l # j => status'[l] = status[l]
      BY <2>3 DEF OpenIncident, ResolveIncident, AcknowledgeIncident, DeleteIncident, TypeOK
    <3>4. status[i] \in {"ACK", "RESOLVED", "gone"} => status'[i] \in {"ACK", "RESOLVED", "gone"}
      BY <3>2, <3>3 DEF TypeOK
    <3> QED BY <3>1, <3>4, QuietKept DEF Continues
  <2>4. CASE \/ SweepStaleEscalations \/ CreateWindow \/ DeleteWindow \/ TurnWindow \/ Tick
             \/ \E c \in Channels : DeleteChannel(c) \/ CreateChannel(c)
             \/ UNCHANGED vars
    <3>1. UNCHANGED <<status, inc, kind>>
      BY <2>4 DEF SweepStaleEscalations, CreateWindow, DeleteWindow, TurnWindow, Tick,
                  DeleteChannel, CreateChannel, vars, dbVars, jobVars
    <3> QED BY <3>1, QuietKept DEF Continues
  <2> QED BY <2>1, <2>2, <2>3, <2>4 DEF Next
<1> QED BY <1>1, AlertsTypeCorrect, PTL DEF Spec, SettledStaysQuiet

-----------------------------------------------------------------------------
(* Receipts.                                                               *)

\* The slot has delivered the message and not committed its receipt.
Holds(w, n) == inc[w] = n[1] /\ kind[w] = n[2] /\ n[3] \in sent[w]

Pending(n) == Cardinality({w \in Workers : Holds(w, n)})

\* A slot sends once to each channel, and to one that is active or was deleted.
Unsent(w) ==
  /\ todo[w] \cap sent[w] = {}
  /\ todo[w] \subseteq channels \cup deleted

\* Messages are receipts, committed or held; what goes beyond them, a bad call or an end
\* before the commit did.
Accounted(n) ==
  /\ logged[n] + Pending(n) <= received[n]
  /\ status[n[1]] # "gone" /\ deleted = {} =>
       received[n] <= logged[n] + Pending(n) + MaxRetries * (MaxFaults - faults)

RInv == (\A w \in Workers : Unsent(w)) /\ \A n \in Notes : Accounted(n)

-----------------------------------------------------------------------------
\* Two sets of slots that differ in one slot at most.
LEMMA DifferInOne ==
  ASSUME NEW S \in SUBSET Workers, NEW T \in SUBSET Workers, NEW w \in Workers,
         \A v \in Workers \ {w} : v \in S <=> v \in T
  PROVE  /\ Cardinality(S) \in Nat /\ Cardinality(T) \in Nat
         /\ (w \in S <=> w \in T) => Cardinality(T) = Cardinality(S)
         /\ w \notin S /\ w \in T => Cardinality(T) = Cardinality(S) + 1
         /\ w \in S /\ w \notin T => Cardinality(S) = Cardinality(T) + 1
<1>1. IsFiniteSet(S) /\ IsFiniteSet(T)
  BY WorkersAssumption, FS_Subset
<1>2. Cardinality(S) \in Nat /\ Cardinality(T) \in Nat
  BY <1>1, FS_CardinalityType
<1>3. (w \in S <=> w \in T) => S = T
  OBVIOUS
<1>4. ASSUME w \notin S, w \in T PROVE Cardinality(T) = Cardinality(S) + 1
  <2>1. T = S \cup {w}
    BY <1>4
  <2> QED BY <1>1, <1>4, <2>1, FS_AddElement
<1>5. ASSUME w \in S, w \notin T PROVE Cardinality(S) = Cardinality(T) + 1
  <2>1. S = T \cup {w}
    BY <1>5
  <2> QED BY <1>1, <1>5, <2>1, FS_AddElement
<1> QED BY <1>2, <1>3, <1>4, <1>5

\* What slots hold changes with the one slot that moves.
LEMMA PendingMoves ==
  ASSUME NEW w \in Workers, \A v \in Workers \ {w} : SameJob(v), NEW n \in Notes
  PROVE  /\ Pending(n) \in Nat /\ Pending(n)' \in Nat
         /\ (Holds(w, n) <=> Holds(w, n)') => Pending(n)' = Pending(n)
         /\ ~Holds(w, n) /\ Holds(w, n)' => Pending(n)' = Pending(n) + 1
         /\ Holds(w, n) /\ ~Holds(w, n)' => Pending(n) = Pending(n)' + 1
<1> DEFINE S == {v \in Workers : Holds(v, n)}
           T == {v \in Workers : Holds(v, n)'}
<1>1. \A v \in Workers \ {w} : v \in S <=> v \in T
  BY DEF SameJob, Holds
<1>2. S \in SUBSET Workers /\ T \in SUBSET Workers
  OBVIOUS
<1>3. (w \in S <=> Holds(w, n)) /\ (w \in T <=> Holds(w, n)')
  OBVIOUS
<1>4. Pending(n) = Cardinality(S) /\ Pending(n)' = Cardinality(T)
  BY DEF Pending
<1> HIDE DEF S, T
<1> QED BY <1>1, <1>2, <1>3, <1>4, DifferInOne

\* The accounts as numbers.
LEMMA Counts ==
  ASSUME TypeOK, NEW n \in Notes
  PROVE  logged[n] \in Nat /\ received[n] \in Nat /\ faults \in Nat /\ faults <= MaxFaults
BY DelayAssumption DEF TypeOK

\* A slot that lets go of a receipt without committing it costs a fault.
LEMMA LetGo ==
  ASSUME NInv, NInv', RInv, NEW w \in Workers, \A v \in Workers \ {w} : SameJob(v),
         UNCHANGED <<logged, received, status, deleted>>,
         NEW n \in Notes, Holds(w, n)' => Holds(w, n),
         faults' = faults \/ (faults > 0 /\ faults' = faults - 1),
         Holds(w, n) /\ ~Holds(w, n)' => faults' = faults - 1
  PROVE  Accounted(n)'
<1>1. /\ logged[n] \in Nat /\ received[n] \in Nat /\ faults \in Nat /\ faults <= MaxFaults
      /\ MaxFaults \in Nat
  BY Counts, DelayAssumption DEF NInv
<1>2. /\ Pending(n) \in Nat /\ Pending(n)' \in Nat
      /\ \/ Pending(n)' = Pending(n)
         \/ Pending(n) = Pending(n)' + 1 /\ faults' = faults - 1
  BY PendingMoves
<1>3. Accounted(n)
  BY DEF RInv
<1>4. logged'[n] = logged[n] /\ received'[n] = received[n]
  OBVIOUS
<1> QED BY <1>1, <1>2, <1>3, <1>4 DEF Accounted, MaxRetries

\* A slot that moves leaves what the others have to send.
LEMMA AllUnsent ==
  ASSUME RInv, NEW w \in Workers, UNCHANGED <<channels, deleted>>, Unsent(w)',
         \A v \in Workers \ {w} : todo'[v] = todo[v] /\ sent'[v] = sent[v]
  PROVE  \A v \in Workers : Unsent(v)'
<1> SUFFICES ASSUME NEW v \in Workers \ {w} PROVE Unsent(v)'
  OBVIOUS
<1> QED BY DEF RInv, Unsent

\* What a finished slot leaves: nothing held, nothing to send.
LEMMA FinishLeaves ==
  ASSUME TypeOK, NEW w \in Workers, Finish(w)
  PROVE  /\ Unsent(w)' /\ \A n \in Notes : ~Holds(w, n)'
         /\ \A v \in Workers \ {w} : SameJob(v) /\ todo'[v] = todo[v] /\ sent'[v] = sent[v]
BY DEF TypeOK, Finish, Unsent, Holds, SameJob

\* Steps of a slot that holds no receipt before or after them, and its end by an abort.
LEMMA NoReceiptKept ==
  ASSUME NInv, NInv', RInv, NEW w \in Workers,
         \/ Gate(w) \/ DeferEscalation(w) \/ MarkEscalated(w) \/ Abort(w)
         \/ \E i \in Incidents, k \in Kinds : StartAlert(w, i, k)
  PROVE  RInv'
<1>0. /\ UNCHANGED <<logged, received, status, channels, deleted>>
      /\ faults' = faults \/ (faults > 0 /\ faults' = faults - 1)
      /\ TypeOK /\ Slot(w) /\ Unsent(w)
  BY DEF Gate, DeferEscalation, MarkEscalated, Abort, StartAlert, dbVars, NInv, RInv
<1>1. CASE Finish(w)
  <2>1. /\ Unsent(w)' /\ \A n \in Notes : ~Holds(w, n)'
        /\ \A v \in Workers \ {w} : SameJob(v) /\ todo'[v] = todo[v] /\ sent'[v] = sent[v]
    BY <1>0, <1>1, FinishLeaves
  <2>2. \A v \in Workers : Unsent(v)'
    BY <1>0, <2>1, AllUnsent
  <2>3. ASSUME NEW n \in Notes PROVE Accounted(n)'
    <3>1. Holds(w, n) => faults' = faults - 1
      <4>1. pc[w] = "send" => faults' = faults - 1
        BY DEF Gate, DeferEscalation, MarkEscalated, Abort, StartAlert
      <4> QED BY <1>0, <4>1 DEF Slot, Holds
    <3> QED BY <1>0, <2>1, <3>1, LetGo
  <2> QED BY <2>2, <2>3 DEF RInv
<1>2. CASE ~Finish(w)
  <2>1. /\ UNCHANGED <<sent, failed>> /\ sent[w] = {}
        /\ UNCHANGED todo \/ todo' = [todo EXCEPT ![w] = channels]
    BY <1>0, <1>2 DEF Gate, DeferEscalation, MarkEscalated, Abort, StartAlert, Slot
  <2>2. \A v \in Workers \ {w} : SameJob(v)
    BY <1>0, <1>2, <2>1 DEF Gate, DeferEscalation, MarkEscalated, Abort, StartAlert, Goto, SameJob,
                            TypeOK
  <2>3. \A v \in Workers \ {w} : todo'[v] = todo[v] /\ sent'[v] = sent[v]
    BY <1>0, <2>1 DEF TypeOK
  <2>4. Unsent(w)'
    BY <1>0, <2>1 DEF Unsent, TypeOK
  <2>5. \A v \in Workers : Unsent(v)'
    BY <1>0, <2>3, <2>4, AllUnsent
  <2>6. ASSUME NEW n \in Notes PROVE Accounted(n)'
    BY <1>0, <2>1, <2>2, LetGo DEF Holds
  <2> QED BY <2>5, <2>6 DEF RInv
<1> QED BY <1>1, <1>2

\* The commit turns what the slot holds into receipts.
LEMMA CommitAccounted ==
  ASSUME NInv, NInv', RInv, NEW w \in Workers, CommitReceipts(w)
  PROVE  RInv'
<1>0. UNCHANGED <<received, status, channels, faults, deleted>> /\ TypeOK /\ Slot(w) /\ Unsent(w)
  BY DEF CommitReceipts, NInv, RInv
<1>1. /\ Unsent(w)' /\ \A n \in Notes : ~Holds(w, n)'
      /\ \A v \in Workers \ {w} : SameJob(v) /\ todo'[v] = todo[v] /\ sent'[v] = sent[v]
  <2>1. CASE Finish(w)
    BY <1>0, <2>1, FinishLeaves
  <2>2. CASE ~Finish(w)
    BY <1>0, <2>2 DEF CommitReceipts, Goto, TypeOK, Unsent, Holds, SameJob
  <2> QED BY <2>1, <2>2
<1>2. \A v \in Workers : Unsent(v)'
  BY <1>0, <1>1, AllUnsent
<1>3. ASSUME NEW n \in Notes PROVE Accounted(n)'
  <2>1. n \in {<<inc[w], kind[w], c>> : c \in sent[w]} <=> Holds(w, n)
    BY DEF Holds, Notes
  <2>2. logged'[n] = IF Holds(w, n) THEN logged[n] + 1 ELSE logged[n]
    BY <2>1 DEF CommitReceipts
  <2>3. /\ logged[n] \in Nat /\ received[n] \in Nat /\ faults \in Nat /\ faults <= MaxFaults
        /\ MaxFaults \in Nat
    BY <1>0, Counts, DelayAssumption
  <2>4. /\ Pending(n) \in Nat /\ Pending(n)' \in Nat
        /\ IF Holds(w, n) THEN Pending(n) = Pending(n)' + 1 ELSE Pending(n)' = Pending(n)
    BY <1>1, PendingMoves
  <2>5. Accounted(n)
    BY DEF RInv
  <2> QED BY <1>0, <2>2, <2>3, <2>4, <2>5 DEF Accounted, MaxRetries
<1> QED BY <1>2, <1>3 DEF RInv

\* A send: the slot holds one more, or the fault is counted.
LEMMA SendAccounted ==
  ASSUME NInv, NInv', RInv, NEW w \in Workers, NEW c \in Channels,
         SendOK(w, c) \/ SendFails(w, c)
  PROVE  RInv'
<1> DEFINE x == <<inc[w], kind[w], c>>
<1>0. /\ UNCHANGED <<logged, status, channels, deleted>> /\ TypeOK /\ Slot(w) /\ Unsent(w)
      /\ pc[w] = "send" /\ c \in todo[w]
  BY DEF SendOK, SendFails, dbVars, NInv, RInv
<1>1. x \in Notes /\ x[1] = inc[w] /\ x[2] = kind[w] /\ x[3] = c
  BY <1>0 DEF Slot, TypeOK, Notes
<1>2. PICK d \in 0 .. MaxRetries :
        /\ received' = [received EXCEPT ![x] = @ + d]
        /\ \/ SendOK(w, c) /\ d = 1 /\ faults' = faults
           \/ SendOK(w, c) /\ d > 1 /\ faults > 0 /\ faults' = faults - 1
           \/ SendFails(w, c) /\ faults > 0 /\ faults' = faults - 1
  <2>1. CASE SendOK(w, c)
    <3>1. PICK d \in 1 .. MaxRetries :
            /\ Deliver(w, c, d)
            /\ d > 1 => faults > 0
            /\ faults' = IF d > 1 THEN faults - 1 ELSE faults
      BY <2>1 DEF SendOK
    <3>2. d \in 0 .. MaxRetries /\ (d = 1 \/ d > 1)
      BY DEF MaxRetries
    <3> QED BY <2>1, <3>1, <3>2 DEF Deliver
  <2>2. CASE SendFails(w, c)
    BY <2>2 DEF SendFails, Deliver
  <2> QED BY <2>1, <2>2
<1>3. ASSUME NEW n \in Notes
      PROVE  /\ logged[n] \in Nat /\ received[n] \in Nat /\ faults \in Nat /\ faults <= MaxFaults
             /\ MaxFaults \in Nat
             /\ received'[n] = IF n = x THEN received[n] + d ELSE received[n]
  <2>1. received \in [Notes -> Nat]
    BY <1>0 DEF TypeOK
  <2> HIDE DEF x
  <2> QED BY <1>0, <1>1, <1>2, <2>1, Counts, DelayAssumption
<1>4. \A n \in Notes : logged'[n] = logged[n] /\ status'[n[1]] = status[n[1]] /\ Accounted(n)
  BY <1>0 DEF RInv
<1>5. ~Holds(w, x)
  BY <1>0, <1>1 DEF Holds, Unsent
<1>6. CASE c \in channels /\ status[inc[w]] # "gone"
  <2>1. /\ UNCHANGED <<pc, inc, kind>> /\ todo' = [todo EXCEPT ![w] = @ \ {c}]
        /\ SendOK(w, c) => sent' = [sent EXCEPT ![w] = @ \cup {c}]
        /\ SendFails(w, c) => UNCHANGED sent
    BY <1>6 DEF SendOK, SendFails, Receipt
  <2>2. \A v \in Workers \ {w} : SameJob(v) /\ todo'[v] = todo[v] /\ sent'[v] = sent[v]
    BY <1>0, <2>1 DEF TypeOK, SameJob
  <2>3. Unsent(w)'
    BY <1>0, <2>1 DEF TypeOK, Unsent
  <2>4. \A v \in Workers : Unsent(v)'
    BY <1>0, <2>2, <2>3, AllUnsent
  <2>5. ASSUME NEW n \in Notes PROVE Holds(w, n)' <=> Holds(w, n) \/ (n = x /\ sent' # sent)
    <3>1. n = x <=> n[1] = inc[w] /\ n[2] = kind[w] /\ n[3] = c
      BY DEF Notes
    <3>2. sent'[w] = IF sent' # sent THEN sent[w] \cup {c} ELSE sent[w]
      BY <1>0, <2>1 DEF TypeOK
    <3> HIDE DEF x
    <3> QED BY <2>1, <3>1, <3>2 DEF Holds
  <2>6. SendOK(w, c) => sent' # sent
    BY <1>0, <2>1 DEF TypeOK, Unsent
  <2> HIDE DEF x
  <2>7. ASSUME NEW n \in Notes PROVE Accounted(n)'
    <3>1. /\ Pending(n) \in Nat /\ Pending(n)' \in Nat
          /\ Pending(n)' = IF n = x /\ sent' # sent THEN Pending(n) + 1 ELSE Pending(n)
      BY <1>5, <2>2, <2>5, PendingMoves
    <3>2. /\ d \in 0 .. 3
          /\ \/ sent' # sent /\ d = 1 /\ faults' = faults
             \/ sent' # sent /\ d > 1 /\ faults' = faults - 1
             \/ sent' = sent /\ faults' = faults - 1
      BY <1>2, <2>1, <2>6 DEF MaxRetries
    <3> QED BY <1>0, <1>3, <1>4, <3>1, <3>2 DEF Accounted, MaxRetries
  <2> QED BY <2>4, <2>7 DEF RInv
<1>7. CASE ~(c \in channels /\ status[inc[w]] # "gone")
  <2>1. Finish(w)
    BY <1>7 DEF SendOK, SendFails, Receipt
  <2>2. /\ Unsent(w)' /\ \A n \in Notes : ~Holds(w, n)'
        /\ \A v \in Workers \ {w} : SameJob(v) /\ todo'[v] = todo[v] /\ sent'[v] = sent[v]
    BY <1>0, <2>1, FinishLeaves
  <2>3. \A v \in Workers : Unsent(v)'
    BY <1>0, <2>2, AllUnsent
  <2>4. deleted = {} => status[inc[w]] = "gone"
    BY <1>0, <1>7 DEF Unsent
  <2> HIDE DEF x
  <2>5. ASSUME NEW n \in Notes PROVE Accounted(n)'
    <3>1. /\ Pending(n) \in Nat /\ Pending(n)' \in Nat /\ Pending(n)' <= Pending(n)
          /\ n[1] # inc[w] => Pending(n)' = Pending(n)
      BY <2>2, PendingMoves DEF Holds
    <3>2. n = x => n[1] = inc[w]
      BY <1>1
    <3> QED BY <1>0, <1>2, <1>3, <1>4, <2>4, <3>1, <3>2 DEF Accounted, MaxRetries
  <2> QED BY <2>3, <2>5 DEF RInv
<1> QED BY <1>6, <1>7

\* What sweep, checks, handlers and time do to the accounts: nothing but that a deleted
\* incident or channel closes them.
LEMMA WorldAccounted ==
  ASSUME NInv, NInv', RInv, UNCHANGED jobVars, UNCHANGED <<logged, received>>,
         \A i \in Incidents : status[i] = "gone" => status'[i] = "gone",
         deleted \subseteq deleted', channels \subseteq channels' \cup deleted',
         faults' <= faults
  PROVE  RInv'
<1>2. \A w \in Workers : Unsent(w)'
  BY DEF RInv, Unsent, jobVars
<1>3. ASSUME NEW n \in Notes PROVE Accounted(n)'
  <2>1. /\ logged[n] \in Nat /\ received[n] \in Nat /\ faults \in Nat /\ faults' \in Nat
        /\ MaxFaults \in Nat /\ n[1] \in Incidents
    BY Counts, DelayAssumption DEF NInv, TypeOK, Notes
  <2>2. Pending(n)' = Pending(n) /\ Pending(n) \in Nat
    <3>1. {w \in Workers : Holds(w, n)}' = {w \in Workers : Holds(w, n)}
      BY DEF Holds, jobVars
    <3>2. Cardinality({w \in Workers : Holds(w, n)}) \in Nat
      BY WorkersAssumption, FS_Subset, FS_CardinalityType
    <3> QED BY <3>1, <3>2 DEF Pending
  <2>3. Accounted(n)
    BY DEF RInv
  <2> QED BY <2>1, <2>2, <2>3 DEF Accounted, MaxRetries
<1> QED BY <1>2, <1>3 DEF RInv

\* Nothing is sent at first.
LEMMA InitRInv == Init => RInv
<1> SUFFICES ASSUME Init PROVE RInv
  OBVIOUS
<1>1. ASSUME NEW n \in Notes PROVE Accounted(n)
  <2>1. {w \in Workers : Holds(w, n)} = {}
    BY DEF Init, Holds
  <2>2. Pending(n) = 0
    BY <2>1, FS_EmptySet DEF Pending
  <2>3. /\ logged[n] = 0 /\ received[n] = 0
        /\ MaxRetries * (MaxFaults - faults) = 0
    BY DelayAssumption DEF Init, MaxRetries
  <2> QED BY <2>2, <2>3 DEF Accounted
<1> QED BY <1>1 DEF Init, RInv, Unsent

\* Every step keeps the accounts.
LEMMA RInvStep == NInv /\ NInv' /\ RInv /\ [Next]_vars => RInv'
<1> SUFFICES ASSUME NInv, NInv', RInv, [Next]_vars PROVE RInv'
  OBVIOUS
<1>1. ASSUME NEW w \in Workers,
             \/ Gate(w) \/ DeferEscalation(w) \/ MarkEscalated(w) \/ Abort(w)
             \/ \E i \in Incidents, k \in Kinds : StartAlert(w, i, k)
      PROVE  RInv'
  BY <1>1, NoReceiptKept
<1>2. ASSUME NEW w \in Workers, CommitReceipts(w) PROVE RInv'
  BY <1>2, CommitAccounted
<1>3. ASSUME NEW w \in Workers, NEW c \in Channels, SendOK(w, c) \/ SendFails(w, c) PROVE RInv'
  BY <1>3, SendAccounted
<1>4. CASE \/ SweepStaleEscalations
           \/ \E i \in Incidents : \/ OpenIncident(i) \/ ResolveIncident(i)
                                   \/ AcknowledgeIncident(i) \/ DeleteIncident(i)
           \/ CreateWindow \/ DeleteWindow \/ TurnWindow
           \/ \E c \in Channels : DeleteChannel(c) \/ CreateChannel(c)
           \/ Tick \/ UNCHANGED vars
  <2>1. faults \in Nat
    BY DEF NInv, TypeOK
  <2>2. UNCHANGED jobVars /\ UNCHANGED <<logged, received>>
    BY <1>4 DEF SweepStaleEscalations, OpenIncident, ResolveIncident, AcknowledgeIncident,
         DeleteIncident, CreateWindow, DeleteWindow, TurnWindow, DeleteChannel, CreateChannel, Tick,
         vars, dbVars
  <2>3. faults' = faults \/ faults' = faults - 1
    BY <1>4 DEF SweepStaleEscalations, OpenIncident, ResolveIncident, AcknowledgeIncident,
         DeleteIncident, CreateWindow, DeleteWindow, TurnWindow, DeleteChannel, CreateChannel, Tick,
         vars, dbVars, redisVars, Announce
  <2>4. deleted \subseteq deleted' /\ channels \subseteq channels' \cup deleted'
    BY <1>4, <2>1 DEF SweepStaleEscalations, OpenIncident, ResolveIncident, AcknowledgeIncident,
         DeleteIncident, CreateWindow, DeleteWindow, TurnWindow, DeleteChannel, CreateChannel, Tick,
         vars, dbVars
  <2>5. \A i \in Incidents : status[i] = "gone" => status'[i] = "gone"
    BY <1>4 DEF SweepStaleEscalations, OpenIncident, ResolveIncident, AcknowledgeIncident,
         DeleteIncident, CreateWindow, DeleteWindow, TurnWindow, DeleteChannel, CreateChannel, Tick,
         vars, dbVars, NInv, TypeOK
  <2> QED BY <2>1, <2>2, <2>4, <2>5, <2>3, WorldAccounted
<1> QED BY <1>1, <1>2, <1>3, <1>4 DEF Next, JobStep

\* At every moment the messages of a note are its receipts, committed or held by a slot,
\* and at most those of one send_message more for each bad call, cut job or failed enqueue,
\* unless its incident or a channel was deleted (alert_service.py:78-109).
THEOREM ReceiptsAccounted == Spec => []RInv
<1>1. NInv /\ NInv' /\ RInv /\ [Next]_vars => RInv'
  BY RInvStep
<1> QED BY InitRInv, <1>1, AlertsInvariant, PTL DEF Spec

\* A "sent" receipt stands for a message that arrived; the messages without one are at most
\* those of one send_message for each fault, as long as neither the incident nor a channel
\* is deleted (models/alert_log.py:11, alert_service.py:78-96, telegram_service.py:116-150).
THEOREM ReceiptsMatchHolds == Spec => []ReceiptsMatch
<1>1. NInv /\ RInv => ReceiptsMatch
  <2> SUFFICES ASSUME NInv, RInv, NEW n \in Notes
               PROVE  /\ logged[n] <= received[n]
                      /\ (/\ status[n[1]] # "gone" /\ deleted = {}
                          /\ \A w \in Workers : inc[w] # n[1])
                           => received[n] <= logged[n] + MaxRetries * (MaxFaults - faults)
    BY DEF ReceiptsMatch
  <2>1. /\ logged[n] \in Nat /\ received[n] \in Nat /\ faults \in Nat /\ faults <= MaxFaults
        /\ MaxFaults \in Nat
    BY Counts, DelayAssumption DEF NInv
  <2>2. Accounted(n)
    BY DEF RInv
  <2>3. Pending(n) \in Nat
    BY WorkersAssumption, FS_Subset, FS_CardinalityType DEF Pending
  <2>4. (\A w \in Workers : inc[w] # n[1]) => Pending(n) = 0
    <3>1. (\A w \in Workers : inc[w] # n[1]) => {w \in Workers : Holds(w, n)} = {}
      BY DEF Holds
    <3> QED BY <3>1, FS_EmptySet DEF Pending
  <2> QED BY <2>1, <2>2, <2>3, <2>4 DEF Accounted, MaxRetries
<1> QED BY <1>1, AlertsInvariant, ReceiptsAccounted, PTL
=============================================================================
