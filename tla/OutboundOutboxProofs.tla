-------------------------- MODULE OutboundOutboxProofs --------------------------
(***************************************************************************)
(* Theorems about OutboundOutbox, for any number of outputs and of   *)
(* turns, any texts and any windows of the history and the chat.           *)
(***************************************************************************)
EXTENDS OutboundOutbox, TLAPS

\* A poll that waits for a drain has an output in hand, and it is kept.
WaitInv ==
  observer.waiting =>
    /\ observer.polling /\ observer.position < observer.last
    /\ Kept(observer.position + 1)

\* Outputs are kept in their order: what comes before a kept one is kept, old or
\* withheld.
OrderInv ==
  \A e, f \in Output : Kept(e) /\ f < e => Kept(f) \/ f \in baseline \cup withheld

MarkInv == \A e \in marked : Kept(e)

\* A message stands for a create that was claimed before, after the item was made;
\* an item that is being tried for the first time has none.
SendInv ==
  \A i \in 1..Len(chat) : chat[i] # 0 =>
    /\ outbox[chat[i]].status \notin {"none", "pending"}
    /\ outbox[chat[i]].since < i
    /\ chat[i] \in batch => outbox[chat[i]].attempts # 1

\* Only a claim takes an item out of its first state, and counts.
RowInv ==
  \A e \in Output :
    /\ outbox[e].since <= Len(chat)
    /\ outbox[e].status \notin {"none", "pending"} => outbox[e].attempts # 0

IInv == TypeOK /\ RowInv /\ WaitInv /\ OrderInv /\ MarkInv /\ NoOutputIsPassed /\ SendInv
    /\ OneMessageInWindow

LEMMA ResumedType ==
  ASSUME NEW o \in ObserverState, NEW p \in 0..MaxOutputs
  PROVE  /\ Resumed(o, p) \in ObserverState
         /\ Resumed(o, p).position = p /\ Resumed(o, p).waiting = FALSE
  <1>1. CASE p < o.last
    BY <1>1 DEF Resumed, ObserverState
  <1>2. CASE ~(p < o.last)
    <2>1. o.waiting \in BOOLEAN /\ 0 \in 0..MaxOutputs
      BY OutboxAssumption DEF ObserverState
    <2> QED
      BY <1>2, <2>1 DEF Resumed, ObserverState
  <1> QED
    BY <1>1, <1>2

LEMMA SavedType ==
  ASSUME NEW o, NEW p, NEW c
  PROVE  Saved(o, p, c) = p \/ Saved(o, p, c) = c
  BY DEF Saved

\* INSERT OR IGNORE by the dedupe key.
LEMMA EnqueuedType ==
  ASSUME TypeOK, NEW e \in Output
  PROVE  /\ Enqueued(e) \in [Output -> Item]
         /\ \A f \in Output : f # e \/ Kept(f) => Enqueued(e)[f] = outbox[f]
         /\ Enqueued(e)[e].status # "none"
         /\ ~Kept(e) => Enqueued(e)[e].status = "pending"
  <1>1. Len(chat) \in Nat /\ outbox \in [Output -> Item]
    BY DEF TypeOK
  <1>2. CASE Kept(e)
    BY <1>1, <1>2 DEF Enqueued, Kept
  <1>3. CASE ~Kept(e)
    <2> DEFINE row == [status |-> "pending", attempts |-> 0, target |-> run, since |-> Len(chat),
                       operation |-> IF run # 0 THEN "edit" ELSE "create"]
    <2>1. row \in Item /\ row.status = "pending"
      BY <1>1, OutboxAssumption DEF Item, Status, TypeOK, TurnsOK
    <2>2. Enqueued(e) = [outbox EXCEPT ![e] = row]
      BY <1>3 DEF Enqueued
    <2> HIDE DEF row
    <2> QED
      BY <1>1, <1>3, <2>1, <2>2 DEF Kept
  <1> QED
    BY <1>2, <1>3

LEMMA ClaimedType ==
  ASSUME NEW table \in [Output -> Item], NEW due
  PROVE  /\ Claimed(table, due) \in [Output -> Item]
         /\ \A e \in Output :
              /\ e \notin due => Claimed(table, due)[e] = table[e]
              /\ e \in due =>
                   /\ Claimed(table, due)[e].status = "claimed"
                   /\ Claimed(table, due)[e].operation = table[e].operation
                   /\ Claimed(table, due)[e].since = table[e].since
                   /\ Claimed(table, due)[e].target = table[e].target
                   /\ Claimed(table, due)[e].attempts = IF table[e].attempts = 0 THEN 1 ELSE 2
  <1> DEFINE row(e) == [table[e] EXCEPT !.status = "claimed",
                                        !.attempts = IF table[e].attempts = 0 THEN 1 ELSE 2]
  <1>1. ASSUME NEW e \in Output
        PROVE  /\ row(e) \in Item /\ row(e).status = "claimed"
               /\ row(e).operation = table[e].operation /\ row(e).since = table[e].since
               /\ row(e).target = table[e].target
               /\ row(e).attempts = (IF table[e].attempts = 0 THEN 1 ELSE 2)
    <2> DEFINE r == table[e]
               n == IF r.attempts = 0 THEN 1 ELSE 2
    <2>1. r \in Item /\ n \in 0..2
      OBVIOUS
    <2>2. row(e) = [r EXCEPT !.status = "claimed", !.attempts = n]
      OBVIOUS
    <2> HIDE DEF n, r, row
    <2>3. /\ row(e) \in Item /\ row(e).status = "claimed"
          /\ row(e).operation = r.operation /\ row(e).since = r.since
          /\ row(e).target = r.target /\ row(e).attempts = n
      BY <2>1, <2>2 DEF Item, Status
    <2> QED
      BY <2>3 DEF n, r
  <1>2. Claimed(table, due) = [e \in Output |-> IF e \in due THEN row(e) ELSE table[e]]
    BY DEF Claimed
  <1> HIDE DEF row
  <1> QED
    BY <1>1, <1>2

LEMMA DueType ==
  ASSUME NEW table, NEW ripe
  PROVE  /\ Due(table, ripe) \subseteq Output
         /\ \A e \in Due(table, ripe) : table[e].status \in {"pending", "claimed", "failed"}
  BY DEF Due

\* The writes of a delivery touch the row of the item and its mark.
LEMMA WritesType ==
  ASSUME TypeOK, NEW e \in Output, NEW id \in Nat, NEW n \in 0..4, Writes(e, id, n),
         outbox[e].status = "claimed"
  PROVE  /\ outbox' \in [Output -> Item]
         /\ \A f \in Output : f # e => outbox'[f] = outbox[f]
         /\ outbox'[e].status = IF n = 4 THEN "delivered" ELSE "claimed"
         /\ outbox'[e].operation = outbox[e].operation /\ outbox'[e].since = outbox[e].since
         /\ outbox'[e].attempts = outbox[e].attempts
         /\ outbox'[e].target = IF n = 0 THEN outbox[e].target ELSE id
         /\ marked' \subseteq marked \cup {e}
  <1>1. outbox \in [Output -> Item] /\ outbox[e] \in Item
    BY DEF TypeOK
  <1> DEFINE row == [outbox[e] EXCEPT !.target = id,
                                      !.status = IF n = 4 THEN "delivered" ELSE "claimed"]
  <1>2. /\ row \in Item /\ row.status = (IF n = 4 THEN "delivered" ELSE "claimed")
        /\ row.operation = outbox[e].operation /\ row.since = outbox[e].since
        /\ row.attempts = outbox[e].attempts /\ row.target = id
    BY <1>1 DEF Item, Status
  <1>3. outbox' = IF n = 0 THEN outbox ELSE [outbox EXCEPT ![e] = row]
    BY DEF Writes
  <1> HIDE DEF row
  <1>4. marked' \subseteq marked \cup {e}
    BY DEF Writes
  <1> QED
    BY <1>1, <1>2, <1>3, <1>4

LEMMA DrainedByType ==
  ASSUME TypeOK, WaitInv, NEW rest \in SUBSET Output, NEW c \in 0..MaxOutputs, DrainedBy(rest, c)
  PROVE  /\ batch' = rest /\ observer' \in ObserverState /\ cursor' \in 0..MaxOutputs
         /\ \/ observer' = observer /\ cursor' = c
            \/ /\ observer.waiting /\ observer'.waiting = FALSE
               /\ observer'.position = observer.position + 1
               /\ cursor' \in {c, observer.position + 1}
  <1>1. CASE rest = {} /\ observer.waiting
    <2>1. observer \in ObserverState /\ observer.position + 1 \in 0..MaxOutputs
      BY <1>1, OutboxAssumption DEF TypeOK, WaitInv, ObserverState
    <2> DEFINE p == observer.position + 1
    <2>2. observer' = Resumed(observer, p) /\ cursor' = Saved(observer, p, c) /\ batch' = rest
      BY <1>1 DEF DrainedBy
    <2> HIDE DEF p
    <2>3. /\ observer' \in ObserverState /\ observer'.position = p /\ observer'.waiting = FALSE
          /\ cursor' \in {c, p}
      BY <2>1, <2>2, ResumedType, SavedType DEF p
    <2> QED
      BY <1>1, <2>1, <2>2, <2>3 DEF p
  <1>2. CASE ~(rest = {} /\ observer.waiting)
    BY <1>2 DEF DrainedBy, TypeOK
  <1> QED
    BY <1>1, <1>2

\* All that comes before a kept output is kept, old or withheld.
LEMMA Covered ==
  ASSUME OrderInv, NEW e \in Output, Kept(e), NEW f \in Output, f <= e
  PROVE  Kept(f) \/ f \in baseline \cup withheld
  BY DEF OrderInv, Output

\* A step that keeps no new output keeps the order if its cursors stay behind
\* what is kept.
LEMMA PassStep ==
  ASSUME IInv, baseline \subseteq baseline', withheld \subseteq withheld',
         \A e \in Output : Kept(e)' <=> Kept(e),
         marked' \subseteq Output, \A e \in marked' : Kept(e),
         \A e \in Output : (e <= observer'.position \/ e <= cursor') => Kept(e)
             \/ e \in baseline' \cup withheld'
  PROVE  OrderInv' /\ MarkInv' /\ NoOutputIsPassed'
  <1>1. OrderInv'
    BY DEF IInv, OrderInv
  <1>2. MarkInv' /\ NoOutputIsPassed'
    BY DEF IInv, MarkInv, NoOutputIsPassed, TypeOK
  <1> QED
    BY <1>1, <1>2

\* A message that is not somebody else's is that of an output.
LEMMA SentType ==
  ASSUME IInv
  PROVE  chat \in Seq(0..MaxOutputs) /\ \A i \in 1..Len(chat) : chat[i] # 0 => chat[i] \in Output
  <1>1. chat \in Seq(0..MaxOutputs)
    BY DEF IInv, TypeOK
  <1>2. \A i \in 1..Len(chat) : chat[i] \in 0..MaxOutputs
    <2> DEFINE S == 0..MaxOutputs
    <2>1. chat \in Seq(S)
      BY <1>1
    <2> HIDE DEF S
    <2>2. \A i \in 1..Len(chat) : chat[i] \in S
      BY <2>1
    <2> QED
      BY <2>2 DEF S
  <1> QED
    BY <1>1, <1>2, OutboxAssumption DEF Output

\* A step that writes nothing to the chat.
LEMMA NothingSent ==
  ASSUME IInv, chat' = chat,
         \A e \in Output : outbox[e].status \notin {"none", "pending"} =>
            /\ outbox'[e].status \notin {"none", "pending"}
            /\ outbox'[e].since = outbox[e].since
            /\ e \in batch' /\ outbox'[e].attempts = 1 => e \in batch /\ outbox[e].attempts = 1
  PROVE  SendInv' /\ OneMessageInWindow'
  <1>1. \A i \in 1..Len(chat) : chat[i] # 0 => chat[i] \in Output
    BY SentType
  <1> QED
    BY <1>1 DEF IInv, SendInv, OneMessageInWindow

\* The one step that does: the message of a create that found none of its own.
LEMMA MessageSent ==
  ASSUME IInv, NEW e \in Output, Turn(e), Sends(e), e \notin batch', batch' \subseteq batch,
         \A f \in Output : f # e => outbox'[f] = outbox[f],
         outbox'[e].status \notin {"none", "pending"}, outbox'[e].since = outbox[e].since,
         outbox'[e].attempts = outbox[e].attempts
  PROVE  SendInv' /\ OneMessageInWindow'
  <1>1. chat \in Seq(0..MaxOutputs) /\ Len(chat) \in Nat /\ outbox[e].attempts \in 0..2
    BY DEF IInv, TypeOK, Item
  <1>0. outbox[e].since <= Len(chat)
    BY DEF IInv, RowInv
  <1>2. chat' = Append(chat, e)
    BY DEF Sends
  <1>3. \A i \in 1..Len(chat) : chat[i] = e => i <= Len(chat) - Listed
    <2> SUFFICES ASSUME NEW i \in 1..Len(chat), chat[i] = e, i > Len(chat) - Listed PROVE FALSE
      BY <1>1, OutboxAssumption
    <2>1. outbox[e].attempts \notin {0, 1} /\ outbox[e].since < i /\ e # 0
      BY DEF IInv, SendInv, RowInv, Turn, Output
    <2>2. Recovering(e) /\ i \in SinceItem(e)
      BY <1>1, <2>1 DEF Recovering, SinceItem, Alike
    <2> QED
      BY <2>2 DEF Sends
  <1>4. /\ Len(chat') = Len(chat) + 1 /\ chat'[Len(chat) + 1] = e
        /\ \A i \in 1..Len(chat) : chat'[i] = chat[i] /\ (chat[i] # 0 => chat[i] \in Output)
    BY <1>1, <1>2, SentType
  <1>5. SendInv'
    <2> SUFFICES ASSUME NEW i \in 1..Len(chat'), chat'[i] # 0
                 PROVE  /\ outbox'[chat'[i]].status \notin {"none", "pending"}
                        /\ outbox'[chat'[i]].since < i
                        /\ chat'[i] \in batch' => outbox'[chat'[i]].attempts # 1
      BY DEF SendInv
    <2>1. CASE i = Len(chat) + 1
      <3>1. outbox[e].since \in Nat
        BY DEF IInv, TypeOK, Item
      <3> QED
        BY <1>0, <1>1, <1>4, <2>1, <3>1
    <2>2. CASE i \in 1..Len(chat)
      <3>1. /\ chat'[i] = chat[i] /\ chat[i] \in Output
            /\ outbox[chat[i]].status \notin {"none", "pending"} /\ outbox[chat[i]].since < i
            /\ chat[i] \in batch => outbox[chat[i]].attempts # 1
        BY <1>4, <2>2 DEF IInv, SendInv
      <3>2. CASE chat[i] = e
        BY <1>4, <2>2, <3>1, <3>2
      <3>3. CASE chat[i] # e
        BY <1>4, <2>2, <3>1, <3>3
      <3> QED
        BY <3>2, <3>3
    <2> QED
      BY <1>1, <1>4, <2>1, <2>2
  <1>6. OneMessageInWindow'
    <2> SUFFICES ASSUME NEW i \in 1..Len(chat'), NEW j \in 1..Len(chat'), i < j,
                        chat'[i] = chat'[j], chat'[i] # 0
                 PROVE  j - i > Listed
      BY DEF OneMessageInWindow
    <2>1. CASE j = Len(chat) + 1
      BY <1>1, <1>3, <1>4, <2>1, OutboxAssumption
    <2>2. CASE j # Len(chat) + 1
      <3>1. i \in 1..Len(chat) /\ j \in 1..Len(chat)
        BY <1>1, <1>4, <2>2
      <3> QED
        BY <1>4, <3>1 DEF IInv, OneMessageInWindow
    <2> QED
      BY <2>1, <2>2
  <1> QED
    BY <1>5, <1>6

(* Every step *)

\* What is behind the cursors stays behind them.
Behind(c) == \A e \in Output : e <= c => Kept(e) \/ e \in baseline \cup withheld

LEMMA QuietStep ==
  ASSUME IInv, UNCHANGED <<chat, outbox, marked>>, baseline \subseteq baseline',
         withheld \subseteq withheld',
         batch' \subseteq batch, TypeOK', WaitInv',
         \A e \in Output : (e <= observer'.position \/ e <= cursor') => Kept(e)
             \/ e \in baseline' \cup withheld'
  PROVE  IInv'
  <1>1. RowInv'
    BY DEF IInv, RowInv
  <1>2. \A e \in Output : Kept(e)' <=> Kept(e)
    BY DEF Kept
  <1>3. OrderInv' /\ MarkInv' /\ NoOutputIsPassed'
    BY <1>2, PassStep DEF IInv, MarkInv, TypeOK
  <1>4. SendInv' /\ OneMessageInWindow'
    BY NothingSent
  <1> QED
    BY <1>1, <1>3, <1>4 DEF IInv

LEMMA OffType == Off \in ObserverState /\ Off.waiting = FALSE /\ Off.position = 0
  BY OutboxAssumption DEF Off, ObserverState

LEMMA InitStep == Init => IInv
  <1> SUFFICES ASSUME Init PROVE IInv
    OBVIOUS
  <1>1. NoItem \in Item /\ NoItem.status = "none" /\ NoItem.since = 0
    BY DEF NoItem, Item, Status
  <1>2. TypeOK
    <2>1. chat \in Seq(0..MaxOutputs) /\ response \in [Run -> 0..MaxOutputs]
      BY OutboxAssumption DEF Init
    <2>2. TurnsOK
      BY OutboxAssumption DEF Init, TurnsOK
    <2> QED
      BY <1>1, <2>1, <2>2, OffType, OutboxAssumption DEF Init, TypeOK
  <1>3. Len(chat) = 0
    BY DEF Init
  <1>4. RowInv /\ OrderInv /\ MarkInv
    BY <1>1, <1>3 DEF Init, RowInv, OrderInv, MarkInv, Kept
  <1>5. WaitInv /\ NoOutputIsPassed
    BY OffType DEF Init, WaitInv, NoOutputIsPassed, Output
  <1>6. SendInv /\ OneMessageInWindow
    BY <1>3 DEF SendInv, OneMessageInWindow
  <1> QED
    BY <1>2, <1>4, <1>5, <1>6 DEF IInv

\* The steps of the gateway's own turns.
TurnStep == CloseRun \/ LaunchTurn \/ EndLaunch \/ FinishTurn

LEMMA TurnsStep == TypeOK /\ [Next]_vars => TurnsOK'
  <1> SUFFICES ASSUME TypeOK, [Next]_vars PROVE TurnsOK'
    OBVIOUS
  <1>1. TurnsOK /\ MaxTurns \in Nat /\ MaxOutputs \in Nat /\ produced \in 0..MaxOutputs
    BY OutboxAssumption DEF TypeOK
  <1>2. CASE UNCHANGED <<run, turnVars>>
    BY <1>1, <1>2 DEF TurnsOK, turnVars
  <1>3. CASE UNCHANGED turnVars /\ run' \in {0, run}
    BY <1>1, <1>3 DEF TurnsOK, turnVars
  <1>4. CASE Restarted /\ turns' = turns
    BY <1>1, <1>4 DEF TurnsOK, Restarted
  <1>5. CASE WithholdOutput
    BY <1>1, <1>5 DEF TurnsOK, WithholdOutput
  <1>6. CASE LaunchTurn \/ FinishTurn
    BY <1>1, <1>6 DEF TurnsOK, LaunchTurn, FinishTurn
  <1>7. CASE EndLaunch
    <2>2. owned' = owned \/ \E e \in Output : owned' = owned \cup {e}
      BY <1>7 DEF EndLaunch
    <2>3. owned' \subseteq Output
      <3>1. owned \subseteq Output
        BY <1>1 DEF TurnsOK
      <3> QED
        BY <2>2, <3>1
    <2> QED
      BY <1>1, <1>7, <2>3 DEF TurnsOK, EndLaunch
  <1>8. CASE StartObserver \/ StartFails \/ Poll \/ ReceiveSessionOutput \/ DrainTimer \/ Produce
    BY <1>2, <1>8 DEF StartObserver, StartFails, Poll, ReceiveSessionOutput, DrainTimer, Produce
  <1>9. CASE FinishRecovery \/ CloseRun
    BY <1>3, <1>9 DEF FinishRecovery, CloseRun
  <1>10. ASSUME NEW e \in Output, Deliver(e) \/ FailOutbound(e) \/ CrashInDelivery(e)
         PROVE  TurnsOK'
    BY <1>2, <1>4, <1>10 DEF Deliver, FailOutbound, CrashInDelivery
  <1>11. CASE Crash \/ OtherMessage
    BY <1>2, <1>4, <1>11 DEF Crash, OtherMessage
  <1>12. CASE UNCHANGED vars
    BY <1>2, <1>12 DEF vars
  <1> QED
    BY <1>5, <1>6, <1>7, <1>8, <1>9, <1>10, <1>11, <1>12 DEF Next

LEMMA RestartStep ==
  ASSUME IInv, TurnsOK', StartObserver \/ StartFails \/ Crash \/ Produce \/ TurnStep
  PROVE  IInv'
  <1>1. TypeOK'
    <2>1. CASE StartObserver
      <3>1. observer' \in ObserverState
        <4>1. /\ cursor \in 0..MaxOutputs
              /\ observer' = [Off EXCEPT !.state = "starting", !.from = cursor, !.position = cursor]
          BY <2>1 DEF StartObserver, IInv, TypeOK
        <4> QED
          BY <4>1, OffType DEF ObserverState
      <3> QED
        BY <2>1, <3>1 DEF StartObserver, chatVars, tableVars, pastVars, drainVars, IInv, TypeOK
    <2>2. CASE StartFails
      BY <2>2, OffType DEF StartFails, chatVars, tableVars, pastVars, drainVars, IInv, TypeOK
    <2>3. CASE Crash
      BY <2>3, OffType, OutboxAssumption DEF Crash, Restarted, chatVars, tableVars, pastVars, IInv,
           TypeOK
    <2>4. CASE Produce
      BY <2>4, OutboxAssumption DEF Produce, chatVars, tableVars, pastVars, drainVars, IInv, TypeOK
    <2>5. CASE TurnStep
      BY <2>5 DEF TurnStep, CloseRun, LaunchTurn, EndLaunch, FinishTurn, chatVars, tableVars,
           pastVars, drainVars, IInv, TypeOK
    <2> QED
      BY <2>1, <2>2, <2>3, <2>4, <2>5
  <1>2. /\ UNCHANGED <<chat, outbox, marked, baseline, withheld, cursor>> /\ batch' \subseteq batch
        /\ \/ observer' = observer
           \/ observer'.waiting = FALSE /\ observer'.position \in {0, cursor}
    BY OffType DEF StartObserver, StartFails, Crash, Produce, TurnStep, CloseRun, Restarted,
                   LaunchTurn, EndLaunch, FinishTurn, chatVars, tableVars, pastVars,
                   drainVars, Off
  <1>3. WaitInv'
    BY <1>2 DEF IInv, WaitInv, Kept
  <1>4. \A e \in Output : (e <= observer'.position \/ e <= cursor') => Kept(e)
        \/ e \in baseline' \cup withheld'
    BY <1>2 DEF IInv, NoOutputIsPassed, Output
  <1> QED
    BY <1>1, <1>2, <1>3, <1>4, QuietStep

LEMMA PollStep ==
  ASSUME IInv, TurnsOK', Poll
  PROVE  IInv'
  <1> DEFINE begun == [observer EXCEPT !.polling = TRUE, !.last = observer.position]
  <1>0. /\ observer \in ObserverState /\ cursor \in 0..MaxOutputs /\ produced \in 0..MaxOutputs
        /\ observer.position \in 0..MaxOutputs /\ observer.waiting = FALSE
    BY DEF IInv, TypeOK, ObserverState, Poll, WaitInv
  <1>1. begun \in ObserverState /\ begun.position = observer.position /\ begun.waiting = FALSE
    BY <1>0 DEF ObserverState
  <1>2. [begun EXCEPT !.last = produced] \in ObserverState
    BY <1>0, <1>1 DEF ObserverState
  <1>3. /\ observer' \in ObserverState /\ observer'.waiting = FALSE
        /\ UNCHANGED <<chat, outbox, marked, batch, produced, response, shown, withheld, finishing>>
        /\ \/ observer.position = 0 /\ observer'.position = produced
              /\ cursor' \in {cursor, produced} /\ baseline' = baseline \cup 1..produced
              /\ withheld' = withheld
           \/ observer'.position = observer.position /\ baseline' = baseline /\ withheld' = withheld
              /\ cursor' \in {cursor, observer.position}
    <2>1. CASE observer.position = 0
      <3>1. /\ observer' = Resumed(begun, produced) /\ cursor' = Saved(begun, produced, cursor)
            /\ baseline' = baseline \cup 1..produced /\ withheld' = withheld
            /\ UNCHANGED <<chat, outbox, marked, batch, produced, response, shown, withheld,
                 finishing>>
        BY <2>1 DEF Poll, chatVars, drainVars
      <3> HIDE DEF begun
      <3>2. observer' \in ObserverState /\ observer'.waiting = FALSE
            /\ observer'.position = produced
        BY <1>0, <1>1, <3>1, ResumedType
      <3>3. cursor' \in {cursor, produced}
        BY <3>1, SavedType
      <3> QED
        BY <2>1, <3>1, <3>2, <3>3
    <2>2. CASE observer.position # 0 /\ observer.position \in Visible
          /\ observer.position < produced
      <3>1. [begun EXCEPT !.last = produced].position = observer.position
            /\ [begun EXCEPT !.last = produced].waiting = FALSE
        BY <1>0, <1>1 DEF ObserverState
      <3>2. /\ observer' = [begun EXCEPT !.last = produced] /\ cursor' = cursor
            /\ baseline' = baseline /\ withheld' = withheld
            /\ UNCHANGED <<chat, outbox, marked, batch, produced, response, shown, withheld,
                 finishing>>
        BY <2>2 DEF Poll, chatVars, drainVars
      <3> HIDE DEF begun
      <3> QED
        BY <1>2, <3>1, <3>2
    <2>3. CASE observer.position # 0 /\ ~(observer.position \in Visible
          /\ observer.position < produced)
      <3>1. /\ observer' = Resumed(begun, observer.position)
            /\ cursor' = Saved(begun, observer.position, cursor) /\ baseline' = baseline
            /\ withheld' = withheld
            /\ UNCHANGED <<chat, outbox, marked, batch, produced, response, shown, withheld,
                 finishing>>
        BY <2>3 DEF Poll, chatVars, drainVars
      <3> HIDE DEF begun
      <3>2. /\ observer' \in ObserverState /\ observer'.waiting = FALSE
            /\ observer'.position = observer.position
        BY <1>0, <1>1, <3>1, ResumedType
      <3>3. cursor' \in {cursor, observer.position}
        BY <3>1, SavedType
      <3> QED
        BY <3>1, <3>2, <3>3
    <2> QED
      BY <2>1, <2>2, <2>3
  <1> HIDE DEF begun
  <1>4. TypeOK'
    <2>1. 1..produced \subseteq Output
      BY <1>0, OutboxAssumption DEF Output
    <2> QED
      BY <1>0, <1>3, <2>1 DEF IInv, TypeOK
  <1>5. WaitInv'
    BY <1>3 DEF WaitInv
  <1>6. \A e \in Output : (e <= observer'.position \/ e <= cursor') => Kept(e)
        \/ e \in baseline' \cup withheld'
    BY <1>0, <1>3 DEF IInv, NoOutputIsPassed, Output
  <1>7. baseline \subseteq baseline' /\ withheld \subseteq withheld'
    BY <1>3
  <1> QED
    BY <1>3, <1>4, <1>5, <1>6, <1>7, QuietStep

LEMMA FinishStep ==
  ASSUME IInv, TurnsOK', FinishRecovery
  PROVE  IInv'
  <1>1. TypeOK /\ WaitInv /\ batch \in SUBSET Output /\ cursor \in 0..MaxOutputs
        /\ DrainedBy(batch, cursor)
    BY DEF IInv, TypeOK, FinishRecovery
  <1>2. /\ batch' = batch /\ observer' \in ObserverState /\ cursor' \in 0..MaxOutputs
        /\ \/ observer' = observer /\ cursor' = cursor
           \/ /\ observer.waiting /\ observer'.waiting = FALSE
              /\ observer'.position = observer.position + 1
              /\ cursor' \in {cursor, observer.position + 1}
    BY <1>1, DrainedByType
  <1>3. UNCHANGED <<chat, outbox, marked, baseline, withheld>>
    BY DEF FinishRecovery, chatVars, pastVars
  <1>4. TypeOK'
    BY <1>2, OutboxAssumption DEF FinishRecovery, chatVars, pastVars, IInv, TypeOK
  <1>5. WaitInv'
    BY <1>2, <1>3 DEF IInv, WaitInv, Kept
  <1>6. \A e \in Output : (e <= observer'.position \/ e <= cursor') => Kept(e)
        \/ e \in baseline' \cup withheld'
    <2>1. observer.waiting => Kept(observer.position + 1) /\ observer.position \in Int
      BY DEF IInv, WaitInv, TypeOK, ObserverState
    <2> QED
      BY <1>2, <1>3, <2>1 DEF IInv, NoOutputIsPassed, Output
  <1> QED
    BY <1>2, <1>3, <1>4, <1>5, <1>6, QuietStep

LEMMA ClaimStep ==
  ASSUME IInv, TurnsOK', DrainTimer
  PROVE  IInv'
  <1>1. PICK ripe \in SUBSET Output : ClaimOutbound(Due(outbox, ripe))
    BY DEF DrainTimer
  <1> DEFINE due == Due(outbox, ripe)
  <1>2. /\ due \subseteq Output /\ batch = {} /\ batch' = due
        /\ outbox' = Claimed(outbox, due)
        /\ \A e \in due : outbox[e].status \in {"pending", "claimed", "failed"}
        /\ UNCHANGED <<produced, chat, response, shown, marked, cursor, baseline, withheld,
             observer, finishing>>
    BY <1>1, DueType DEF DrainTimer, ClaimOutbound, Idle, chatVars, pastVars
  <1> HIDE DEF due
  <1>3. outbox \in [Output -> Item] /\ \A e \in Output : outbox[e].attempts \in 0..2
    BY DEF IInv, TypeOK, Item
  <1>4. /\ outbox' \in [Output -> Item]
        /\ \A e \in Output :
             /\ e \notin due => outbox'[e] = outbox[e]
             /\ e \in due =>
                  /\ outbox'[e].status = "claimed"
                  /\ outbox'[e].since = outbox[e].since
                  /\ outbox'[e].attempts = IF outbox[e].attempts = 0 THEN 1 ELSE 2
    BY <1>2, <1>3, ClaimedType
  <1>5. TypeOK'
    BY <1>2, <1>4 DEF IInv, TypeOK
  <1>6. RowInv'
    BY <1>2, <1>4 DEF IInv, RowInv
  <1>7. \A e \in Output : Kept(e)' <=> Kept(e)
    BY <1>2, <1>4 DEF Kept
  <1>8. WaitInv'
    <2>1. observer.waiting => observer.position + 1 \in Output
      BY OutboxAssumption DEF IInv, WaitInv, TypeOK, ObserverState, Output
    <2> QED
      BY <1>2, <1>7, <2>1 DEF IInv, WaitInv, Kept
  <1>9. OrderInv' /\ MarkInv' /\ NoOutputIsPassed'
    <2>1. \A e \in Output : (e <= observer'.position \/ e <= cursor') => Kept(e)
          \/ e \in baseline' \cup withheld'
      BY <1>2 DEF IInv, NoOutputIsPassed
    <2>2. marked' \subseteq Output /\ \A e \in marked' : Kept(e)
      BY <1>2 DEF IInv, TypeOK, MarkInv
    <2> QED
      BY <1>2, <1>7, <2>1, <2>2, PassStep
  <1>10. SendInv' /\ OneMessageInWindow'
    <2>1. \A e \in Output : outbox[e].status \notin {"none", "pending"} =>
            /\ outbox'[e].status \notin {"none", "pending"}
            /\ outbox'[e].since = outbox[e].since
            /\ e \in batch' /\ outbox'[e].attempts = 1 => e \in batch /\ outbox[e].attempts = 1
      BY <1>2, <1>4 DEF IInv, RowInv
    <2> QED
      BY <1>2, <2>1, NothingSent
  <1> QED
    BY <1>5, <1>6, <1>8, <1>9, <1>10 DEF IInv

\* The output after the observer's cursor is kept.
LEMMA KeepStep ==
  ASSUME IInv, observer.position + 1 \in Output,
         \A f \in Output : Kept(f)' <=> Kept(f) \/ f = observer.position + 1,
         UNCHANGED <<marked, baseline, withheld>>,
         observer'.position \in {observer.position, observer.position + 1},
         cursor' \in {cursor, observer.position + 1}
  PROVE  OrderInv' /\ MarkInv' /\ NoOutputIsPassed'
  <1> DEFINE p == observer.position
  <1>1. p \in Int /\ \A f \in Output : f <= p => Kept(f) \/ f \in baseline \cup withheld
    BY DEF IInv, NoOutputIsPassed, TypeOK, ObserverState
  <1>2. \A f \in Output : f <= p + 1 => Kept(f)' \/ f \in baseline \cup withheld
    BY <1>1 DEF Output
  <1>3. OrderInv'
    <2> SUFFICES ASSUME NEW e \in Output, NEW f \in Output, Kept(e)', f < e
                 PROVE  Kept(f)' \/ f \in baseline \cup withheld
      BY DEF OrderInv
    <2>1. CASE e = p + 1
      BY <1>1, <1>2, <2>1 DEF Output
    <2>2. CASE e # p + 1
      BY <2>2 DEF IInv, OrderInv
    <2> QED
      BY <2>1, <2>2
  <1>4. MarkInv'
    BY DEF IInv, MarkInv, TypeOK
  <1>5. NoOutputIsPassed'
    <2> SUFFICES ASSUME NEW f \in Output, f <= observer'.position \/ f <= cursor'
                 PROVE  Kept(f)' \/ f \in baseline \cup withheld
      BY DEF NoOutputIsPassed
    <2>1. CASE f <= p + 1
      BY <1>2, <2>1
    <2>2. CASE f <= cursor
      BY <2>2 DEF IInv, NoOutputIsPassed
    <2> QED
      BY <1>1, <2>1, <2>2 DEF Output
  <1> QED
    BY <1>3, <1>4, <1>5

LEMMA ReceiveStep ==
  ASSUME IInv, TurnsOK', ReceiveSessionOutput
  PROVE  IInv'
  <1> DEFINE e == observer.position + 1
  <1>1. /\ observer \in ObserverState /\ observer.position \in 0..MaxOutputs
        /\ observer.last \in 0..MaxOutputs
        /\ observer.waiting = FALSE /\ observer.polling /\ e <= observer.last
    BY DEF IInv, TypeOK, ObserverState, ReceiveSessionOutput, InHand
  <1>2. e \in Output /\ e \in 0..MaxOutputs
    BY <1>1, OutboxAssumption DEF Output
  <1>3. UNCHANGED <<produced, chat, response, shown, marked, baseline, withheld, finishing>>
    BY DEF ReceiveSessionOutput, chatVars, pastVars
  <1>4. /\ [observer EXCEPT !.waiting = TRUE] \in ObserverState
        /\ [observer EXCEPT !.waiting = TRUE].position = observer.position
        /\ [observer EXCEPT !.waiting = TRUE].polling
        /\ [observer EXCEPT !.waiting = TRUE].last = observer.last
    BY <1>1 DEF ObserverState
  <1>5. /\ Resumed(observer, e) \in ObserverState
        /\ Resumed(observer, e).position = e /\ Resumed(observer, e).waiting = FALSE
    BY <1>1, <1>2, ResumedType
  <1>6. /\ outbox \in [Output -> Item] /\ Enqueued(e) \in [Output -> Item]
        /\ \A f \in Output : f # e \/ Kept(f) => Enqueued(e)[f] = outbox[f]
        /\ Enqueued(e)[e].status # "none"
        /\ ~Kept(e) => Enqueued(e)[e].status = "pending"
    BY <1>2, EnqueuedType DEF IInv, TypeOK
  <1>7. \A f \in Output : Enqueued(e)[f].since <= Len(chat)
    <2>1. Len(chat) \in Nat
      BY DEF IInv, TypeOK
    <2>2. CASE Kept(e)
      BY <2>2, <1>6 DEF IInv, RowInv
    <2>3. CASE ~Kept(e)
      <3>1. Enqueued(e)[e].since = Len(chat)
        BY <1>2, <1>6, <2>3 DEF Enqueued
      <3> QED
        BY <2>1, <3>1, <1>6 DEF IInv, RowInv
    <2> QED
      BY <2>2, <2>3
  <1>8. CASE e \in marked /\ observer' = Resumed(observer, e) /\ cursor' = e
        /\ UNCHANGED <<outbox, batch>>
    <2>1. TypeOK' /\ WaitInv'
      BY <1>2, <1>3, <1>5, <1>8 DEF IInv, TypeOK, WaitInv
    <2>2. Kept(e)
      BY <1>8 DEF IInv, MarkInv
    <2>3. \A f \in Output : (f <= observer'.position \/ f <= cursor') => Kept(f)
          \/ f \in baseline' \cup withheld'
      BY <1>1, <1>2, <1>3, <1>5, <1>8, <2>2 DEF IInv, NoOutputIsPassed, Output
    <2> QED
      BY <1>3, <1>8, <2>1, <2>3, QuietStep
  <1>9. CASE /\ e \notin marked /\ outbox' = Enqueued(e) /\ UNCHANGED <<cursor, batch>>
             /\ observer' = [observer EXCEPT !.waiting = TRUE]
    <2>1. \A f \in batch : outbox'[f].status = "claimed"
      BY <1>6, <1>9 DEF IInv, TypeOK, Kept
    <2>2. TypeOK'
      BY <1>3, <1>4, <1>6, <1>9, <2>1 DEF IInv, TypeOK
    <2>3. \A f \in Output : Kept(f)' <=> Kept(f) \/ f = e
      BY <1>6, <1>9 DEF Kept
    <2>4. WaitInv'
      BY <1>1, <1>4, <1>6, <1>9 DEF WaitInv, Kept
    <2>5. RowInv'
      BY <1>2, <1>3, <1>6, <1>7, <1>9 DEF IInv, RowInv, Kept
    <2>6. OrderInv' /\ MarkInv' /\ NoOutputIsPassed'
      BY <1>2, <1>3, <1>4, <1>9, <2>3, KeepStep
    <2>7. SendInv' /\ OneMessageInWindow'
      BY <1>3, <1>6, <1>9, NothingSent DEF Kept
    <2> QED
      BY <2>2, <2>4, <2>5, <2>6, <2>7 DEF IInv
  <1>10. ASSUME NEW ripe \in SUBSET Output, e \notin marked, Idle,
                outbox' = Claimed(Enqueued(e), Due(Enqueued(e), ripe)),
                batch' = Due(Enqueued(e), ripe),
                \/ observer' = [observer EXCEPT !.waiting = TRUE] /\ cursor' = cursor
                \/ observer' = Resumed(observer, e) /\ cursor' = Saved(observer, e, cursor)
         PROVE  IInv'
    <2> DEFINE table == Enqueued(e)
               due == Due(table, ripe)
    <2>1. due \subseteq Output /\ \A f \in due : table[f].status \in {"pending", "claimed",
          "failed"}
      BY DueType
    <2>2. batch = {} /\ batch' = due /\ outbox' = Claimed(table, due)
      BY <1>10 DEF Idle
    <2>3. cursor' \in {cursor, e}
      BY <1>10, SavedType
    <2> HIDE DEF due, table
    <2>4. table \in [Output -> Item]
      BY <1>6 DEF table
    <2>5. /\ outbox' \in [Output -> Item]
          /\ \A f \in Output :
               /\ f \notin due => outbox'[f] = table[f]
               /\ f \in due =>
                    /\ outbox'[f].status = "claimed" /\ outbox'[f].since = table[f].since
                    /\ outbox'[f].attempts = IF table[f].attempts = 0 THEN 1 ELSE 2
      BY <2>2, <2>4, ClaimedType
    <2>6. /\ observer' \in ObserverState
          /\ observer'.position \in {observer.position, e}
          /\ observer'.waiting => /\ observer'.polling /\ observer'.position < observer'.last
                                 /\ observer'.position = observer.position
      <3>1. CASE observer' = [observer EXCEPT !.waiting = TRUE]
        BY <1>1, <1>4, <3>1
      <3>2. CASE observer' = Resumed(observer, e)
        BY <1>5, <3>2
      <3> QED
        BY <1>10, <3>1, <3>2
    <2>7. TypeOK'
      BY <1>2, <1>3, <2>1, <2>2, <2>3, <2>5, <2>6 DEF IInv, TypeOK
    <2>8. \A f \in Output : Kept(f)' <=> Kept(f) \/ f = e
      BY <1>6, <2>1, <2>5 DEF Kept, table
    <2>9. WaitInv'
      BY <1>2, <2>6, <2>8 DEF WaitInv, Kept
    <2>10. RowInv'
      <3>1. \A f \in Output : table[f].status \notin {"none", "pending"} => table[f].attempts # 0
        BY <1>6 DEF IInv, RowInv, Kept, table
      <3>2. \A f \in Output : table[f].since <= Len(chat)
        BY <1>7 DEF table
      <3> QED
        BY <1>3, <2>5, <3>1, <3>2 DEF RowInv
    <2>11. OrderInv' /\ MarkInv' /\ NoOutputIsPassed'
      BY <1>2, <1>3, <2>3, <2>6, <2>8, KeepStep
    <2>12. SendInv' /\ OneMessageInWindow'
      <3>1. \A f \in Output : outbox[f].status \notin {"none", "pending"} =>
              table[f] = outbox[f] /\ outbox[f].attempts # 0
        BY <1>6 DEF IInv, RowInv, Kept, table
      <3>2. \A f \in Output : outbox[f].status \notin {"none", "pending"} =>
              /\ outbox'[f].status \notin {"none", "pending"}
              /\ outbox'[f].since = outbox[f].since
              /\ f \in batch' /\ outbox'[f].attempts = 1 => f \in batch /\ outbox[f].attempts = 1
        BY <2>2, <2>5, <3>1
      <3> QED
        BY <1>3, <3>2, NothingSent
    <2> QED
      BY <2>7, <2>9, <2>10, <2>11, <2>12 DEF IInv
  <1> QED
    BY <1>8, <1>9, <1>10 DEF ReceiveSessionOutput

\* What is withheld is passed without being kept.
LEMMA WithholdStep ==
  ASSUME IInv, TurnsOK', WithholdOutput
  PROVE  IInv'
  <1>1. PICK e \in Output :
          /\ InHand(e) /\ withheld' = withheld \cup {e}
          /\ observer' = Resumed(observer, e) /\ cursor' = Saved(observer, e, cursor)
          /\ UNCHANGED <<produced, chatVars, outbox, marked, baseline, drainVars>>
    BY DEF WithholdOutput
  <1>2. /\ observer \in ObserverState /\ observer.position \in 0..MaxOutputs
        /\ e = observer.position + 1 /\ e \in 0..MaxOutputs
    BY <1>1, OutboxAssumption DEF IInv, TypeOK, ObserverState, InHand, Output
  <1>3. /\ observer' \in ObserverState /\ observer'.position = e /\ observer'.waiting = FALSE
        /\ cursor' \in {cursor, e}
    <2>1. observer' = Resumed(observer, e) /\ cursor' = Saved(observer, e, cursor)
      BY <1>1
    <2>2. /\ Resumed(observer, e) \in ObserverState
          /\ Resumed(observer, e).position = e /\ Resumed(observer, e).waiting = FALSE
      BY <1>2, ResumedType
    <2>3. Saved(observer, e, cursor) \in {cursor, e}
      BY SavedType
    <2> QED
      BY <2>1, <2>2, <2>3
  <1>4. TypeOK'
    BY <1>1, <1>2, <1>3 DEF IInv, TypeOK, chatVars, drainVars
  <1>5. WaitInv'
    BY <1>3 DEF WaitInv
  <1>6. \A f \in Output :
          (f <= observer'.position \/ f <= cursor') => Kept(f) \/ f \in baseline' \cup withheld'
    BY <1>1, <1>2, <1>3 DEF IInv, NoOutputIsPassed, Output
  <1> QED
    BY <1>1, <1>4, <1>5, <1>6, QuietStep DEF chatVars, drainVars

\* What others write makes the chat longer, and no other difference.
LEMMA OtherStep ==
  ASSUME IInv, TurnsOK', OtherMessage
  PROVE  IInv'
  <1>1. /\ chat' = Append(chat, 0) /\ chat \in Seq(0..MaxOutputs) /\ Len(chat) \in Nat
        /\ UNCHANGED <<produced, response, shown, outbox, marked, cursor, baseline, withheld,
                       observer, batch, finishing>>
    BY DEF OtherMessage, IInv, TypeOK, tableVars, pastVars, drainVars
  <1>2. /\ chat' \in Seq(0..MaxOutputs) /\ Len(chat') = Len(chat) + 1 /\ chat'[Len(chat) + 1] = 0
        /\ \A i \in 1..Len(chat) : chat'[i] = chat[i]
    BY <1>1, OutboxAssumption
  <1>3. TypeOK' /\ WaitInv'
    BY <1>1, <1>2 DEF IInv, TypeOK, WaitInv, Kept
  <1>4. RowInv'
    BY <1>1, <1>2 DEF IInv, RowInv, TypeOK, Item
  <1>5. OrderInv' /\ MarkInv' /\ NoOutputIsPassed'
    BY <1>1 DEF IInv, OrderInv, MarkInv, NoOutputIsPassed, Kept
  <1>6. \A i \in 1..Len(chat') : chat'[i] # 0 => i \in 1..Len(chat) /\ chat'[i] = chat[i]
    BY <1>1, <1>2
  <1>7. SendInv' /\ OneMessageInWindow'
    BY <1>1, <1>6 DEF IInv, SendInv, OneMessageInWindow
  <1> QED
    BY <1>3, <1>4, <1>5, <1>7 DEF IInv

\* What a call and its writes do to the chat and to the row of its item.
LEMMA CallStep ==
  ASSUME IInv, NEW e \in Output, Turn(e), batch' \subseteq batch \ {e},
         \/ Edits(e) \/ Sends(e) \/ UNCHANGED chatVars,
         outbox' \in [Output -> Item],
         \A f \in Output : f # e => outbox'[f] = outbox[f],
         outbox'[e].status \notin {"none", "pending"}, outbox'[e].since = outbox[e].since,
         outbox'[e].attempts = outbox[e].attempts
  PROVE  /\ chat' \in Seq(0..MaxOutputs) /\ response' \in [Run -> 0..MaxOutputs]
         /\ shown' \subseteq Output
         /\ \A f \in batch' : outbox'[f].status = "claimed"
         /\ RowInv' /\ SendInv' /\ OneMessageInWindow'
         /\ Kept(e) /\ \A f \in Output : Kept(f)' <=> Kept(f)
  <1>1. /\ chat \in Seq(0..MaxOutputs) /\ response \in [Run -> 0..MaxOutputs]
        /\ shown \subseteq Output
        /\ e \in batch /\ outbox[e].status = "claimed" /\ batch \subseteq Output
        /\ Len(chat) \in Nat
        /\ \A f \in batch : outbox[f].status = "claimed"
        /\ \A f \in Output : outbox[f].since \in Nat
    BY DEF IInv, TypeOK, Turn, Item
  <1>2. /\ \/ chat' = chat
           \/ Sends(e) /\ chat' = Append(chat, e)
        /\ response' \in [Run -> 0..MaxOutputs] /\ shown' \subseteq Output
    <2>1. e \in 0..MaxOutputs
      BY OutboxAssumption DEF Output
    <2>2. CASE Edits(e)
      BY <1>1, <2>1, <2>2 DEF Edits
    <2>3. CASE Sends(e)
      BY <1>1, <2>3 DEF Sends
    <2>4. CASE UNCHANGED chatVars
      BY <1>1, <2>4 DEF chatVars
    <2> QED
      BY <2>2, <2>3, <2>4
  <1>3. chat' \in Seq(0..MaxOutputs) /\ Len(chat') \in Nat /\ Len(chat) <= Len(chat')
    <2> DEFINE S == 0..MaxOutputs
    <2>1. chat \in Seq(S) /\ e \in S /\ (chat' = chat \/ chat' = Append(chat, e))
      BY <1>1, <1>2, OutboxAssumption DEF Output
    <2> HIDE DEF S
    <2>2. chat' \in Seq(S) /\ Len(chat') \in Nat /\ Len(chat) <= Len(chat')
      BY <2>1
    <2> QED
      BY <2>2 DEF S
  <1>4. RowInv'
    BY <1>1, <1>3 DEF IInv, RowInv
  <1>5. SendInv' /\ OneMessageInWindow'
    <2>1. CASE chat' = chat
      <3>1. \A f \in Output : outbox[f].status \notin {"none", "pending"} =>
              /\ outbox'[f].status \notin {"none", "pending"}
              /\ outbox'[f].since = outbox[f].since
              /\ f \in batch' /\ outbox'[f].attempts = 1 => f \in batch /\ outbox[f].attempts = 1
        BY <1>1
      <3> QED
        BY <2>1, <3>1, NothingSent
    <2>2. CASE Sends(e)
      BY <2>2, MessageSent
    <2> QED
      BY <1>2, <2>1, <2>2
  <1>6. Kept(e) /\ \A f \in Output : Kept(f)' <=> Kept(f)
    BY <1>1 DEF Kept
  <1>7. \A f \in batch' : outbox'[f].status = "claimed"
    BY <1>1
  <1> QED
    BY <1>2, <1>3, <1>4, <1>5, <1>6, <1>7

\* An item that is delivered moves the cursors to itself or to the next output.
LEMMA DrainStep ==
  ASSUME IInv, TypeOK', RowInv', SendInv', OneMessageInWindow', baseline' = baseline
         /\ withheld' = withheld,
         \A f \in Output : Kept(f)' <=> Kept(f),
         marked' \subseteq Output, \A f \in marked' : Kept(f),
         cursor' = cursor \/ (cursor' \in Output /\ Kept(cursor')),
         \/ observer' = observer
         \/ observer' = Off
         \/ /\ observer.waiting /\ observer'.waiting = FALSE
            /\ observer'.position = observer.position + 1
  PROVE  IInv'
  <1>1. observer.position \in 0..MaxOutputs /\ cursor \in 0..MaxOutputs
    BY DEF IInv, TypeOK, ObserverState
  <1>2. observer.waiting => observer.position + 1 \in Output /\ Kept(observer.position + 1)
    BY <1>1, OutboxAssumption DEF IInv, WaitInv, TypeOK, ObserverState, Output
  <1>3. WaitInv'
    <2>1. CASE observer' = observer
      BY <1>2, <2>1 DEF IInv, WaitInv, Kept
    <2>2. CASE observer'.waiting = FALSE
      BY <2>2 DEF WaitInv
    <2> QED
      BY <2>1, <2>2, OffType
  <1>4. ASSUME NEW f \in Output, f <= cursor'
        PROVE  Kept(f) \/ f \in baseline \cup withheld
    BY <1>4, Covered DEF IInv, NoOutputIsPassed
  <1>5. ASSUME NEW f \in Output, f <= observer'.position
        PROVE  Kept(f) \/ f \in baseline \cup withheld
    BY <1>1, <1>2, <1>5, OffType DEF IInv, NoOutputIsPassed, Output
  <1>6. OrderInv' /\ MarkInv' /\ NoOutputIsPassed'
    BY <1>4, <1>5, PassStep
  <1> QED
    BY <1>3, <1>6 DEF IInv

LEMMA FailStep ==
  ASSUME IInv, TurnsOK', NEW e \in Output, FailOutbound(e)
  PROVE  IInv'
  <1>1. /\ Turn(e) /\ TypeOK /\ WaitInv /\ batch \ {e} \in SUBSET Output /\ cursor \in 0..MaxOutputs
        /\ DrainedBy(batch \ {e}, cursor) /\ outbox \in [Output -> Item] /\ outbox[e] \in Item
    BY DEF FailOutbound, IInv, TypeOK
  <1>2. /\ batch' = batch \ {e} /\ observer' \in ObserverState /\ cursor' \in 0..MaxOutputs
        /\ \/ observer' = observer /\ cursor' = cursor
           \/ /\ observer.waiting /\ observer'.waiting = FALSE
              /\ observer'.position = observer.position + 1
              /\ cursor' \in {cursor, observer.position + 1}
    BY <1>1, DrainedByType
  <1> DEFINE row == [outbox[e] EXCEPT !.status = "failed"]
  <1>3. /\ row \in Item /\ row.status = "failed" /\ row.since = outbox[e].since
        /\ row.attempts = outbox[e].attempts
    BY <1>1 DEF Item, Status
  <1>4. outbox' = [outbox EXCEPT ![e] = row]
    BY DEF FailOutbound
  <1> HIDE DEF row
  <1>5. /\ outbox' \in [Output -> Item]
        /\ \A f \in Output : f # e => outbox'[f] = outbox[f]
        /\ outbox'[e].status \notin {"none", "pending"} /\ outbox'[e].since = outbox[e].since
        /\ outbox'[e].attempts = outbox[e].attempts
    BY <1>1, <1>3, <1>4
  <1>6. Edits(e) \/ Sends(e) \/ UNCHANGED chatVars
    BY DEF FailOutbound
  <1>7. /\ chat' \in Seq(0..MaxOutputs) /\ response' \in [Run -> 0..MaxOutputs]
        /\ shown' \subseteq Output
        /\ \A f \in batch' : outbox'[f].status = "claimed"
        /\ RowInv' /\ SendInv' /\ OneMessageInWindow'
        /\ Kept(e) /\ \A f \in Output : Kept(f)' <=> Kept(f)
    BY <1>1, <1>2, <1>5, <1>6, CallStep
  <1>8. TypeOK'
    BY <1>2, <1>5, <1>7 DEF FailOutbound, IInv, TypeOK, pastVars
  <1>9. /\ marked' = marked /\ baseline' = baseline /\ withheld' = withheld
        /\ marked' \subseteq Output /\ \A f \in marked' : Kept(f)
    BY DEF FailOutbound, IInv, TypeOK, MarkInv, pastVars
  <1>10. cursor' = cursor \/ (cursor' \in Output /\ Kept(cursor'))
    BY <1>2, OutboxAssumption DEF IInv, WaitInv, TypeOK, ObserverState, Output
  <1> QED
    BY <1>2, <1>7, <1>8, <1>9, <1>10, DrainStep

\* A delivery up to its n-th write.
LEMMA WrittenStep ==
  ASSUME IInv, NEW e \in Output, Turn(e), batch' \subseteq batch \ {e},
         NEW id \in 0..(Len(chat) + MaxTurns + 1), NEW n \in 0..4, Performs(e, id), Writes(e, id, n)
  PROVE  /\ outbox' \in [Output -> Item]
         /\ chat' \in Seq(0..MaxOutputs) /\ response' \in [Run -> 0..MaxOutputs]
         /\ shown' \subseteq Output
         /\ \A f \in batch' : outbox'[f].status = "claimed"
         /\ RowInv' /\ SendInv' /\ OneMessageInWindow'
         /\ Kept(e) /\ \A f \in Output : Kept(f)' <=> Kept(f)
         /\ marked' \subseteq Output /\ \A f \in marked' : Kept(f)
  <1>1. TypeOK /\ outbox[e].status = "claimed" /\ id \in Nat /\ marked \subseteq Output
    BY DEF IInv, TypeOK, Turn
  <1>2. Edits(e) \/ Sends(e) \/ UNCHANGED chatVars
    BY DEF Performs
  <1>3. /\ outbox' \in [Output -> Item]
        /\ \A f \in Output : f # e => outbox'[f] = outbox[f]
        /\ outbox'[e].status \notin {"none", "pending"} /\ outbox'[e].since = outbox[e].since
        /\ outbox'[e].attempts = outbox[e].attempts
        /\ marked' \subseteq marked \cup {e}
    BY <1>1, WritesType
  <1>4. /\ chat' \in Seq(0..MaxOutputs) /\ response' \in [Run -> 0..MaxOutputs]
        /\ shown' \subseteq Output
        /\ \A f \in batch' : outbox'[f].status = "claimed"
        /\ RowInv' /\ SendInv' /\ OneMessageInWindow'
        /\ Kept(e) /\ \A f \in Output : Kept(f)' <=> Kept(f)
    BY <1>2, <1>3, CallStep
  <1> QED
    BY <1>1, <1>3, <1>4 DEF IInv, MarkInv

LEMMA DeliverStep ==
  ASSUME IInv, TurnsOK', NEW e \in Output, Deliver(e)
  PROVE  IInv'
  <1>1. PICK id \in 0..(Len(chat) + MaxTurns + 1) : Performs(e, id) /\ Writes(e, id, 4)
    BY DEF Deliver
  <1>2. /\ Turn(e) /\ TypeOK /\ WaitInv /\ batch \ {e} \in SUBSET Output /\ e \in 0..MaxOutputs
        /\ UNCHANGED <<produced, baseline, withheld>>
    BY OutboxAssumption DEF Deliver, IInv, TypeOK, Output, pastVars
  <1>3. /\ batch' = batch \ {e} /\ observer' \in ObserverState /\ cursor' \in 0..MaxOutputs
        /\ finishing' \in 0..MaxOutputs
        /\ \/ observer' = observer /\ cursor' = e
           \/ /\ observer.waiting /\ observer'.waiting = FALSE
              /\ observer'.position = observer.position + 1
              /\ cursor' \in {e, observer.position + 1}
    <2>1. CASE outbox[e].operation = "edit"
      BY <1>2, <2>1 DEF Deliver, TypeOK
    <2>2. CASE outbox[e].operation # "edit"
      <3>1. DrainedBy(batch \ {e}, e) /\ finishing' \in 0..MaxOutputs
        BY <2>2, OutboxAssumption DEF Deliver
      <3> QED
        BY <1>2, <3>1, DrainedByType
    <2> QED
      BY <2>1, <2>2
  <1>4. /\ outbox' \in [Output -> Item]
        /\ chat' \in Seq(0..MaxOutputs) /\ response' \in [Run -> 0..MaxOutputs]
        /\ shown' \subseteq Output
        /\ \A f \in batch' : outbox'[f].status = "claimed"
        /\ RowInv' /\ SendInv' /\ OneMessageInWindow'
        /\ Kept(e) /\ \A f \in Output : Kept(f)' <=> Kept(f)
        /\ marked' \subseteq Output /\ \A f \in marked' : Kept(f)
    BY <1>1, <1>2, <1>3, WrittenStep
  <1>5. TypeOK'
    BY <1>2, <1>3, <1>4 DEF TypeOK
  <1>6. cursor' \in Output /\ Kept(cursor')
    BY <1>3, <1>4, OutboxAssumption DEF IInv, WaitInv, TypeOK, ObserverState, Output
  <1> QED
    BY <1>2, <1>3, <1>4, <1>5, <1>6, DrainStep

LEMMA CrashStep ==
  ASSUME IInv, TurnsOK', NEW e \in Output, CrashInDelivery(e)
  PROVE  IInv'
  <1>1. PICK id \in 0..(Len(chat) + MaxTurns + 1), n \in 0..3 :
          /\ Performs(e, id) /\ Writes(e, id, n)
          /\ cursor' = IF n = 3 THEN e ELSE cursor
    BY DEF CrashInDelivery
  <1>2. /\ Turn(e) /\ TypeOK /\ n \in 0..4 /\ e \in 0..MaxOutputs
        /\ observer' = Off /\ batch' = {} /\ finishing' = 0
        /\ UNCHANGED <<produced, baseline, withheld>>
    BY OutboxAssumption DEF CrashInDelivery, Restarted, IInv, Output, pastVars
  <1>3. /\ outbox' \in [Output -> Item]
        /\ chat' \in Seq(0..MaxOutputs) /\ response' \in [Run -> 0..MaxOutputs]
        /\ shown' \subseteq Output
        /\ \A f \in batch' : outbox'[f].status = "claimed"
        /\ RowInv' /\ SendInv' /\ OneMessageInWindow'
        /\ Kept(e) /\ \A f \in Output : Kept(f)' <=> Kept(f)
        /\ marked' \subseteq Output /\ \A f \in marked' : Kept(f)
    BY <1>1, <1>2, WrittenStep
  <1>4. cursor' \in 0..MaxOutputs /\ (cursor' = cursor \/ (cursor' \in Output /\ Kept(cursor')))
    BY <1>1, <1>2, <1>3 DEF TypeOK
  <1>5. TypeOK'
    BY <1>2, <1>3, <1>4, OffType, OutboxAssumption DEF TypeOK
  <1> QED
    BY <1>2, <1>3, <1>4, <1>5, DrainStep

LEMMA StepInv == IInv /\ [Next]_vars => IInv'
  <1> SUFFICES ASSUME IInv, [Next]_vars PROVE IInv'
    OBVIOUS
  <1>0. TurnsOK'
    BY TurnsStep DEF IInv
  <1>1. CASE Next
    BY <1>0, <1>1, RestartStep, PollStep, FinishStep, ClaimStep, ReceiveStep, WithholdStep,
       OtherStep, DeliverStep, FailStep, CrashStep DEF Next, TurnStep
  <1>2. CASE UNCHANGED vars
    <2>1. UNCHANGED <<produced, chat, response, shown, outbox, marked, cursor, baseline,
                      withheld, observer, batch, finishing>>
      BY <1>2 DEF vars, chatVars, tableVars, pastVars, drainVars
    <2>2. TypeOK' /\ WaitInv'
      BY <1>0, <2>1 DEF IInv, TypeOK, WaitInv, Kept
    <2>3. \A e \in Output : (e <= observer'.position \/ e <= cursor') => Kept(e)
          \/ e \in baseline' \cup withheld'
      BY <2>1 DEF IInv, NoOutputIsPassed
    <2> QED
      BY <2>1, <2>2, <2>3, QuietStep
  <1> QED
    BY <1>1, <1>2

THEOREM Invariance == Spec => []IInv
  BY InitStep, StepInv, PTL DEF Spec

\* The tables, the chat, the observer and the drain keep their types, and what the
\* drain holds is claimed.
THEOREM OutboxTypeCorrect == Spec => []TypeOK
  <1>1. IInv => TypeOK
    BY DEF IInv
  <1> QED
    BY <1>1, Invariance, PTL

\* No output falls behind a cursor without being kept, or withheld by the driver, for
\* any number of turns, crashes, failures and retries in any order.
THEOREM NothingIsPassed == Spec => []NoOutputIsPassed
  <1>1. IInv => NoOutputIsPassed
    BY DEF IInv
  <1> QED
    BY <1>1, Invariance, PTL

\* No output is sent again while its first message is among the last of the chat,
\* though two outputs may say the same.
THEOREM MessagesAreFoundAgain == Spec => []OneMessageInWindow
  <1>1. IInv => OneMessageInWindow
    BY DEF IInv
  <1> QED
    BY <1>1, Invariance, PTL

(* What is delivered *)

\* The places in the chat that the row of a create may come to hold.
Places(e) == IF outbox[e].operation = "create" THEN {0, outbox[e].target} ELSE {0}

\* A claim or a new item leaves what is delivered alone, and the chat with it.
LEMMA TableStep ==
  ASSUME IInv, DrainTimer \/ ReceiveSessionOutput
  PROVE  /\ UNCHANGED <<chat, response, shown>>
         /\ \A e \in Output :
              /\ outbox'[e].operation = "create" => outbox'[e].target \in Places(e)
              /\ outbox'[e].status = "delivered" => outbox'[e] = outbox[e]
              /\ outbox[e].status = "delivered" => outbox'[e] = outbox[e]
  <1>1. UNCHANGED <<chat, response, shown>>
    BY DEF DrainTimer, ReceiveSessionOutput, chatVars
  <1>2. outbox \in [Output -> Item]
    BY DEF IInv, TypeOK
  <1>3. ASSUME NEW table \in [Output -> Item], NEW ripe \in SUBSET Output,
               outbox' = Claimed(table, Due(table, ripe)), NEW e \in Output
        PROVE  /\ outbox'[e].target = table[e].target /\ outbox'[e].operation = table[e].operation
               /\ outbox'[e].status = "delivered" => outbox'[e] = table[e]
               /\ table[e].status = "delivered" => outbox'[e] = table[e]
    <2> DEFINE due == Due(table, ripe)
    <2>1. outbox' = Claimed(table, due) /\ \A f \in due : table[f].status \in {"pending", "claimed",
          "failed"}
      BY <1>3, DueType
    <2> HIDE DEF due
    <2> QED
      BY <2>1, ClaimedType
  <1>4. CASE DrainTimer
    BY <1>1, <1>2, <1>3, <1>4 DEF DrainTimer, ClaimOutbound, Places
  <1>5. CASE ReceiveSessionOutput
    <2> DEFINE p == observer.position + 1
    <2>1. p \in Output
      BY <1>5, OutboxAssumption DEF ReceiveSessionOutput, InHand, IInv, TypeOK, ObserverState,
           Output
    <2>2. Enqueued(p) \in [Output -> Item]
      BY <2>1, EnqueuedType DEF IInv
    <2>3. ASSUME NEW e \in Output
          PROVE  /\ Enqueued(p)[e].operation = "create" => Enqueued(p)[e].target \in Places(e)
                 /\ Enqueued(p)[e].status = "delivered" => Enqueued(p)[e] = outbox[e]
                 /\ outbox[e].status = "delivered" => Enqueued(p)[e] = outbox[e]
      <3>1. CASE Kept(p)
        BY <3>1 DEF Enqueued, Places
      <3>2. CASE ~Kept(p)
        <4>1. Enqueued(p)[p].operation = "create" => Enqueued(p)[p].target = 0
          BY <1>2, <2>1, <3>2 DEF Enqueued
        <4> QED
          BY <2>1, <3>2, <4>1, EnqueuedType DEF IInv, Kept, Places
      <3> QED
        BY <3>1, <3>2
    <2>4. \/ outbox' = outbox
          \/ outbox' = Enqueued(p)
          \/ \E ripe \in SUBSET Output : outbox' = Claimed(Enqueued(p), Due(Enqueued(p), ripe))
      BY <1>5 DEF ReceiveSessionOutput
    <2> SUFFICES ASSUME NEW e \in Output
                 PROVE  /\ outbox'[e].operation = "create" => outbox'[e].target \in Places(e)
                        /\ outbox'[e].status = "delivered" => outbox'[e] = outbox[e]
                        /\ outbox[e].status = "delivered" => outbox'[e] = outbox[e]
      BY <1>1
    <2>5. CASE outbox' = outbox
      BY <2>5 DEF Places
    <2>6. CASE outbox' = Enqueued(p)
      BY <2>3, <2>6
    <2>7. ASSUME NEW ripe \in SUBSET Output, outbox' = Claimed(Enqueued(p), Due(Enqueued(p), ripe))
          PROVE  /\ outbox'[e].operation = "create" => outbox'[e].target \in Places(e)
                 /\ outbox'[e].status = "delivered" => outbox'[e] = outbox[e]
                 /\ outbox[e].status = "delivered" => outbox'[e] = outbox[e]
      BY <1>3, <2>2, <2>3, <2>7
    <2> QED
      BY <2>4, <2>5, <2>6, <2>7
  <1> QED
    BY <1>4, <1>5

Quiet ==
  \/ StartObserver \/ StartFails \/ Poll \/ WithholdOutput \/ FinishRecovery \/ Crash \/ Produce
  \/ TurnStep

LEMMA QuietTable ==
  ASSUME Quiet \/ UNCHANGED vars
  PROVE  UNCHANGED <<chat, response, shown, outbox>>
  BY DEF Quiet, StartObserver, StartFails, Poll, WithholdOutput, FinishRecovery, Crash, Produce,
         TurnStep, CloseRun, LaunchTurn, EndLaunch, FinishTurn,
         vars, chatVars, tableVars

\* The steps of the drain touch an item that is claimed.
LEMMA DrainTable ==
  ASSUME IInv, NEW e \in Output, Deliver(e) \/ FailOutbound(e) \/ CrashInDelivery(e)
  PROVE  /\ outbox[e].status = "claimed"
         /\ Edits(e) \/ Sends(e) \/ UNCHANGED chatVars
         /\ \A f \in Output : f # e => outbox'[f] = outbox[f]
  BY DEF IInv, TypeOK, Deliver, FailOutbound, CrashInDelivery, Turn, Performs, Writes

LEMMA StandStep ==
  ASSUME IInv, [Next]_vars, NEW e \in Output, outbox[e].status = "delivered"
  PROVE  /\ outbox'[e] = outbox[e]
         /\ \A i \in 1..Len(chat') : chat'[i] = e => i <= Len(chat)
         /\ \A r \in Run : response'[r] = e => response[r] = e
  <1>0. chat \in Seq(0..MaxOutputs) /\ Len(chat) \in Nat
    BY DEF IInv, TypeOK
  <1>1. CASE Quiet \/ UNCHANGED vars
    BY <1>0, <1>1, QuietTable
  <1>2. CASE DrainTimer \/ ReceiveSessionOutput
    BY <1>0, <1>2, TableStep
  <1>4. CASE OtherMessage
    <2>1. Len(chat') = Len(chat) + 1 /\ chat'[Len(chat) + 1] = 0 /\ e # 0
      BY <1>0, <1>4 DEF OtherMessage, Output
    <2> QED
      BY <1>0, <1>4, <2>1 DEF OtherMessage, tableVars
  <1>3. ASSUME NEW f \in Output, Deliver(f) \/ FailOutbound(f) \/ CrashInDelivery(f)
        PROVE  /\ outbox'[e] = outbox[e]
               /\ \A i \in 1..Len(chat') : chat'[i] = e => i <= Len(chat)
               /\ \A r \in Run : response'[r] = e => response[r] = e
    <2>1. f # e /\ outbox'[e] = outbox[e] /\ (Edits(f) \/ Sends(f) \/ UNCHANGED chatVars)
      BY <1>3, DrainTable
    <2>2. CASE chat' = Append(chat, f) /\ response' = response
      <3>1. Len(chat') = Len(chat) + 1 /\ chat'[Len(chat) + 1] = f
        BY <1>0, <2>2
      <3> QED
        BY <1>0, <2>1, <2>2, <3>1
    <2>3. CASE chat' = chat /\ (response' = response \/ Edits(f))
      <3>1. response \in [Run -> 0..MaxOutputs]
        BY DEF IInv, TypeOK
      <3>2. \A r \in Run : response'[r] \in {response[r], f}
        BY <2>3, <3>1 DEF Edits
      <3> QED
        BY <1>0, <2>1, <2>3, <3>2
    <2> QED
      BY <2>1, <2>2, <2>3 DEF Edits, Sends, chatVars
  <1> QED
    BY <1>1, <1>2, <1>3, <1>4 DEF Next, Quiet, TurnStep

\* The drain never goes back to what it has acknowledged, whatever the observer
\* hands over again.
THEOREM DeliveriesStand == Spec => DeliveredStands
  <1>1. IInv /\ [Next]_vars =>
          [\A e \in Output : outbox[e].status = "delivered" =>
             /\ outbox'[e] = outbox[e]
             /\ \A i \in 1..Len(chat') : chat'[i] = e => i <= Len(chat)
             /\ \A r \in Run : response'[r] = e => response[r] = e]_vars
    BY StandStep
  <1> QED
    BY <1>1, Invariance, PTL DEF Spec, DeliveredStands

\* Where a create was found or sent, and what a delivered item has done.
ShownInv ==
  \A e \in Output :
    /\ outbox[e].operation = "create" /\ outbox[e].target # 0 =>
         outbox[e].target \in 1..Len(chat) /\ chat[outbox[e].target] = e
    /\ outbox[e].status = "delivered" =>
         IF outbox[e].operation = "edit" THEN e \in shown ELSE outbox[e].target # 0

Distinguished == \A e, f \in Output : TextOf[e] = TextOf[f] => e = f

\* A call of the drain only adds to the chat, and leaves the other items their places.
LEMMA ChatGrows ==
  ASSUME TypeOK, NEW e \in Output, Edits(e) \/ Sends(e) \/ UNCHANGED chatVars
  PROVE  /\ Len(chat) \in Nat /\ Len(chat') \in Nat /\ Len(chat) <= Len(chat')
         /\ \A i \in 1..Len(chat) : chat'[i] = chat[i]
         /\ shown \subseteq shown'
         /\ Sends(e) => Len(chat') = Len(chat) + 1 /\ chat'[Len(chat) + 1] = e
  <1>1. chat \in Seq(0..MaxOutputs) /\ Len(chat) \in Nat
    BY DEF TypeOK
  <1>2. CASE chat' = Append(chat, e) /\ shown' = shown
    BY <1>1, <1>2
  <1>3. CASE chat' = chat /\ shown \subseteq shown' /\ ~Sends(e)
    BY <1>1, <1>3
  <1>4. Sends(e) => chat' = Append(chat, e) /\ shown' = shown
    BY DEF Sends
  <1>5. Edits(e) \/ UNCHANGED chatVars => chat' = chat /\ shown \subseteq shown'
    BY DEF Edits, chatVars
  <1> QED
    BY <1>2, <1>3, <1>4, <1>5

LEMMA ShownCall ==
  ASSUME IInv, ShownInv, Distinguished, NEW e \in Output, outbox[e].status = "claimed",
         NEW id \in 0..(Len(chat) + MaxTurns + 1), NEW n \in 0..4, Performs(e, id), Writes(e, id, n)
  PROVE  ShownInv'
  <1>1. TypeOK /\ Len(chat) \in Nat /\ id \in Nat /\ chat \in Seq(0..MaxOutputs)
    BY DEF IInv, TypeOK
  <1>2. Edits(e) \/ Sends(e) \/ UNCHANGED chatVars
    BY DEF Performs
  <1>3. /\ Len(chat') \in Nat /\ Len(chat) <= Len(chat')
        /\ \A i \in 1..Len(chat) : chat'[i] = chat[i]
        /\ shown \subseteq shown'
        /\ Sends(e) => Len(chat') = Len(chat) + 1 /\ chat'[Len(chat) + 1] = e
    BY <1>1, <1>2, ChatGrows
  <1>4. /\ \A f \in Output : f # e => outbox'[f] = outbox[f]
        /\ outbox'[e].status = (IF n = 4 THEN "delivered" ELSE "claimed")
        /\ outbox'[e].operation = outbox[e].operation
        /\ outbox'[e].target = (IF n = 0 THEN outbox[e].target ELSE id)
    BY <1>1, WritesType
  <1>5. /\ outbox[e].operation = "create" /\ id # 0 => id \in 1..Len(chat') /\ chat'[id] = e
        /\ IF outbox[e].operation = "edit" THEN e \in shown' ELSE id # 0
    <2>1. CASE Edits(e) /\ id = outbox[e].target
      BY <2>1 DEF Edits
    <2>2. CASE Sends(e) /\ id = Len(chat) + 1
      BY <1>1, <1>3, <2>2 DEF Sends
    <2>3. CASE outbox[e].operation = "create" /\ outbox[e].target # 0 /\ id = outbox[e].target
      BY <1>1, <1>3, <2>3 DEF ShownInv
    <2>4. CASE outbox[e].operation = "create" /\ id \in Alike(e)
      <3>1. id \in 1..Len(chat) /\ chat[id] \in Output /\ TextOf[chat[id]] = TextOf[e]
        BY <1>1, <2>4, SentType DEF Alike
      <3>2. chat[id] = e
        BY <3>1 DEF Distinguished
      <3> QED
        BY <1>1, <1>3, <2>4, <3>1, <3>2
    <2> QED
      BY <2>1, <2>2, <2>3, <2>4 DEF Performs
  <1> SUFFICES ASSUME NEW f \in Output
               PROVE  /\ outbox'[f].operation = "create" /\ outbox'[f].target # 0 =>
                           outbox'[f].target \in 1..Len(chat') /\ chat'[outbox'[f].target] = f
                      /\ outbox'[f].status = "delivered" =>
                           IF outbox'[f].operation = "edit" THEN f \in shown' ELSE outbox'[f].target # 0
    BY DEF ShownInv
  <1>6. /\ outbox[f].operation = "create" /\ outbox[f].target # 0 =>
             outbox[f].target \in 1..Len(chat') /\ chat'[outbox[f].target] = f
        /\ outbox[f].status = "delivered" =>
             IF outbox[f].operation = "edit" THEN f \in shown' ELSE outbox[f].target # 0
    BY <1>1, <1>3 DEF ShownInv
  <1>7. CASE f # e
    BY <1>4, <1>6, <1>7
  <1>8. CASE f = e
    BY <1>4, <1>5, <1>6, <1>8
  <1> QED
    BY <1>7, <1>8

LEMMA ShownStep ==
  ASSUME IInv, ShownInv, Distinguished, [Next]_vars
  PROVE  ShownInv'
  <1>1. CASE Quiet \/ UNCHANGED vars
    BY <1>1, QuietTable DEF ShownInv
  <1>2. CASE DrainTimer \/ ReceiveSessionOutput
    <2>1. UNCHANGED <<chat, shown>>
      BY <1>2, TableStep
    <2> SUFFICES ASSUME NEW f \in Output
                 PROVE  /\ outbox'[f].operation = "create" /\ outbox'[f].target # 0 =>
                             outbox'[f].target \in 1..Len(chat) /\ chat[outbox'[f].target] = f
                        /\ outbox'[f].status = "delivered" =>
                             IF outbox'[f].operation = "edit" THEN f \in shown ELSE outbox'[f].target # 0
      BY <2>1 DEF ShownInv
    <2>2. /\ outbox'[f].operation = "create" => outbox'[f].target \in Places(f)
          /\ outbox'[f].status = "delivered" => outbox'[f] = outbox[f]
      BY <1>2, TableStep
    <2> QED
      BY <2>2 DEF ShownInv, Places
  <1>3. ASSUME NEW e \in Output, Deliver(e) \/ CrashInDelivery(e)
        PROVE  ShownInv'
    <2>1. outbox[e].status = "claimed"
      BY <1>3, DrainTable
    <2>2. \E id \in 0..(Len(chat) + MaxTurns + 1), n \in 0..4 : Performs(e, id) /\ Writes(e, id, n)
      <3>1. CASE Deliver(e)
        BY <3>1 DEF Deliver
      <3>2. CASE CrashInDelivery(e)
        BY <3>2 DEF CrashInDelivery
      <3> QED
        BY <1>3, <3>1, <3>2
    <2> QED
      BY <2>1, <2>2, ShownCall
  <1>4. ASSUME NEW e \in Output, FailOutbound(e)
        PROVE  ShownInv'
    <2>1. TypeOK /\ outbox \in [Output -> Item] /\ outbox[e] \in Item /\ Len(chat) \in Nat
      BY DEF IInv, TypeOK
    <2> DEFINE row == [outbox[e] EXCEPT !.status = "failed"]
    <2>2. outbox' = [outbox EXCEPT ![e] = row]
      BY <1>4 DEF FailOutbound
    <2>3. row.status = "failed" /\ row.target = outbox[e].target
          /\ row.operation = outbox[e].operation
      BY <2>1 DEF Item
    <2> HIDE DEF row
    <2>4. /\ \A f \in Output : f # e => outbox'[f] = outbox[f]
          /\ outbox'[e].status = "failed" /\ outbox'[e].target = outbox[e].target
          /\ outbox'[e].operation = outbox[e].operation
      BY <2>1, <2>2, <2>3
    <2>5. /\ Len(chat') \in Nat /\ Len(chat) <= Len(chat')
          /\ \A i \in 1..Len(chat) : chat'[i] = chat[i]
          /\ shown \subseteq shown'
      BY <1>4, <2>1, DrainTable, ChatGrows
    <2> SUFFICES ASSUME NEW f \in Output
                 PROVE  /\ outbox'[f].operation = "create" /\ outbox'[f].target # 0 =>
                             outbox'[f].target \in 1..Len(chat') /\ chat'[outbox'[f].target] = f
                        /\ outbox'[f].status = "delivered" =>
                             IF outbox'[f].operation = "edit" THEN f \in shown' ELSE outbox'[f].target # 0
      BY DEF ShownInv
    <2>6. /\ outbox[f].operation = "create" /\ outbox[f].target # 0 =>
               outbox[f].target \in 1..Len(chat') /\ chat'[outbox[f].target] = f
          /\ outbox[f].status = "delivered" =>
               IF outbox[f].operation = "edit" THEN f \in shown' ELSE outbox[f].target # 0
      BY <2>1, <2>5 DEF ShownInv
    <2> QED
      BY <2>4, <2>6
  <1>5. CASE OtherMessage
    <2>1. /\ Len(chat) \in Nat /\ Len(chat') = Len(chat) + 1
          /\ \A i \in 1..Len(chat) : chat'[i] = chat[i]
          /\ UNCHANGED <<outbox, shown>>
      BY <1>5 DEF OtherMessage, IInv, TypeOK, tableVars
    <2> QED
      BY <2>1 DEF ShownInv
  <1> QED
    BY <1>1, <1>2, <1>3, <1>4, <1>5 DEF Next, Quiet, TurnStep

\* If no two outputs say the same, what is recorded as delivered is in the chat, and
\* in the message that is recorded with it.
THEOREM DeliveriesAreReal ==
  ASSUME Distinguished
  PROVE  Spec => []DeliveredIsShown
  <1>1. Init => ShownInv
    BY DEF Init, ShownInv, NoItem
  <1>2. IInv /\ ShownInv /\ [Next]_vars => ShownInv'
    BY ShownStep
  <1>3. IInv /\ ShownInv => DeliveredIsShown
    BY DEF ShownInv, DeliveredIsShown, IInv, TypeOK, Item
  <1> QED
    BY <1>1, <1>2, <1>3, Invariance, PTL DEF Spec

=============================================================================
