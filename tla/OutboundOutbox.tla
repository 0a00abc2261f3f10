----------------------------- MODULE OutboundOutbox -----------------------------
(***************************************************************************)
(* From what a native session says on its own to the Anytype chat: the     *)
(* observer of src/runtime/openclaw.ts polls the history of the session,   *)
(* src/controller.ts keeps every output in the outbound_outbox table of    *)
(* src/store.ts and drains that table into the chat.                       *)
(*                                                                         *)
(* One session of one route, observed without the channel bridge (the      *)
(* default), and the one controller of its gateway.  Outputs are numbered  *)
(* in the order of the history, those of the gateway's own turns among     *)
(* them; the driver withholds from the controller what comes up while a    *)
(* turn is in flight and what equals the last text of one.  The chat, the  *)
(* session and what others write are external.  A call to the chat may     *)
(* fail before or after it took effect; the process may die at any await   *)
(* and between any two transactions.                                       *)
(***************************************************************************)
EXTENDS Integers, Sequences, FiniteSets

CONSTANTS
  MaxOutputs,   \* bound of the model: assistant messages of the session
  MaxTurns,     \* bound of the model: turns of the gateway in the session
  MaxOthers,    \* bound of the model: messages of others, or replies, in the chat
  TextOf,       \* [1..MaxOutputs -> the text of an output]
  HistoryLimit, \* chat.history's limit, a hundred in the code
  Listed        \* listMessages' limit, a hundred in the code

ASSUME OutboxAssumption ==
  /\ MaxOutputs \in Nat /\ MaxTurns \in Nat /\ MaxOthers \in Nat
  /\ HistoryLimit \in Nat \ {0} /\ Listed \in Nat \ {0}

VARIABLES
  produced,   \* length of the session's history
  run,        \* the run a restart found running in this thread, or 0
  turns,      \* turns of the gateway so far; the last one's run has this number
  phase,      \* the turn under way: is a launch of it in flight in the driver?
  began,      \* the first output the turn under way can have
  owned,      \* outputs whose texts the driver remembers as its own
  chat,       \* messages of the chat in order: the output each was sent for, or 0
  response,   \* for each run, the output that its response was last edited to
  shown,      \* history: outputs a response has shown
  outbox,     \* outbound_outbox, keyed by the output in the dedupe key
  marked,     \* proactive_deliveries
  cursor,     \* session_bindings.event_cursor, 0 for NULL
  baseline,   \* history: outputs that were there before the observer's first
  withheld,   \* history: outputs the driver has kept from the controller
  observer,   \* the observer, its poll and its cursor in memory
  batch,      \* items the drain has claimed and not delivered
  finishing   \* item whose recovered run the drain is finishing, or 0

chatVars  == <<chat, response, shown>>
tableVars == <<outbox, marked, cursor>>
drainVars == <<batch, finishing>>
turnVars  == <<turns, phase, began, owned>>
pastVars  == <<baseline, withheld>>
vars == <<produced, run, turnVars, chatVars, tableVars, pastVars, observer, drainVars>>

Output == 1..MaxOutputs
Run    == 1..MaxTurns
NoItem == [status |-> "none", operation |-> "create", attempts |-> 0, target |-> 0, since |-> 0]
Status == {"none", "pending", "claimed", "failed", "delivered", "dead"}

Item == [status : Status, operation : {"create", "edit"}, attempts : 0..2, target : Nat,
    since : Nat]
ObserverState ==
  [state : {"off", "starting", "on"}, polling : BOOLEAN, waiting : BOOLEAN,
   from : 0..MaxOutputs, position : 0..MaxOutputs, last : 0..MaxOutputs]

(* attempts 2 stands for two and more: the code asks only whether there was *)
(* an earlier one.  since is the length of the chat at created_at; target   *)
(* is target_message_id, 0 for NULL: the place of a message in the chat, or *)
(* for an edit the run whose response it is.  claimed_by is the one         *)
(* controller, or one that has died.                                        *)
TurnsOK ==
  /\ run \in 0..MaxTurns /\ turns \in 0..MaxTurns /\ phase \in {"none", "launched", "ended"}
  /\ began \in 0..(MaxOutputs + 1) /\ owned \subseteq Output

TypeOK ==
  /\ TurnsOK /\ produced \in 0..MaxOutputs
  /\ chat \in Seq(0..MaxOutputs) /\ response \in [Run -> 0..MaxOutputs]
  /\ shown \subseteq Output
  /\ outbox \in [Output -> Item]
  /\ marked \subseteq Output /\ cursor \in 0..MaxOutputs
  /\ baseline \subseteq Output /\ withheld \subseteq Output
  /\ observer \in ObserverState
  /\ batch \subseteq Output /\ finishing \in 0..MaxOutputs
  /\ \A e \in batch : outbox[e].status = "claimed"

Off == [state |-> "off", polling |-> FALSE, waiting |-> FALSE,
        from |-> 0, position |-> 0, last |-> 0]

Init ==
  /\ produced \in 0..MaxOutputs /\ turns \in {0, 1} \cap 0..MaxTurns /\ run \in {0, turns}
  /\ phase = "none" /\ began = 0 /\ owned = {}
  /\ chat = <<>> /\ response = [r \in Run |-> 0] /\ shown = {}
  /\ outbox = [e \in Output |-> NoItem] /\ marked = {} /\ cursor = 0
  /\ baseline = {} /\ withheld = {} /\ observer = Off /\ batch = {} /\ finishing = 0

Kept(e)  == outbox[e].status # "none"
Idle     == batch = {} /\ finishing = 0
Sent(e)  == {i \in 1..Len(chat) : chat[i] = e}

-----------------------------------------------------------------------------
(* The observer *)

\* The poll is over.  A first poll ends startObserver, which saves the cursor
\* if it is not the one the binding had when the observer started.
Resumed(o, p) ==
  IF p < o.last
  THEN [o EXCEPT !.position = p, !.waiting = FALSE]
  ELSE [o EXCEPT !.position = p, !.waiting = FALSE, !.polling = FALSE,
                 !.state = "on", !.from = 0]

Saved(o, p, c) ==
  IF o.state = "starting" /\ p >= o.last /\ p # 0 /\ p # o.from THEN p ELSE c

StartObserver ==
  /\ observer.state = "off"
  /\ observer' = [Off EXCEPT !.state = "starting", !.from = cursor, !.position = cursor]
  /\ UNCHANGED <<produced, run, turnVars, chatVars, tableVars, pastVars, drainVars>>

\* chat.history fails at the start; a later poll that fails changes nothing.
StartFails ==
  /\ observer.state = "starting" /\ ~observer.polling
  /\ observer' = Off
  /\ UNCHANGED <<produced, run, turnVars, chatVars, tableVars, pastVars, drainVars>>

Visible == {e \in 1..produced : e > produced - HistoryLimit}

\* Mistake: the binding takes the last output of a poll before it is handed over.
MutPoll ==
  /\ observer.state # "off" /\ ~observer.polling
  /\ LET begun == [observer EXCEPT !.polling = TRUE, !.last = observer.position]
     IN IF observer.position \in Visible /\ observer.position < produced
        THEN /\ observer' = [begun EXCEPT !.last = produced] /\ cursor' = produced
             /\ baseline' = baseline
        ELSE /\ observer' = Resumed(begun, produced) /\ cursor' = Saved(begun, produced, cursor)
             /\ baseline' = IF observer.position = 0 THEN baseline \cup 1..produced ELSE baseline
  /\ UNCHANGED <<produced, run, turnVars, withheld, chatVars, outbox, marked, drainVars>>

\* Without a cursor all that is there is old; a cursor that the history no
\* longer shows yields nothing.
Poll ==
  /\ observer.state # "off" /\ ~observer.polling
  /\ LET begun == [observer EXCEPT !.polling = TRUE, !.last = observer.position]
     IN IF observer.position = 0
        THEN /\ observer' = Resumed(begun, produced)
             /\ cursor' = Saved(begun, produced, cursor)
             /\ baseline' = baseline \cup 1..produced
        ELSE /\ baseline' = baseline
             /\ IF observer.position \in Visible /\ observer.position < produced
                THEN /\ observer' = [begun EXCEPT !.last = produced]
                     /\ cursor' = cursor
                ELSE /\ observer' = Resumed(begun, observer.position)
                     /\ cursor' = Saved(begun, observer.position, cursor)
  /\ UNCHANGED <<produced, run, turnVars, withheld, chatVars, outbox, marked, drainVars>>

-----------------------------------------------------------------------------
(* The outbox *)

\* INSERT ... ON CONFLICT(dedupe_key) DO NOTHING
Enqueued(e) ==
  IF Kept(e) THEN outbox
  ELSE [outbox EXCEPT ![e] =
          [status |-> "pending", attempts |-> 0, target |-> run, since |-> Len(chat),
           operation |-> IF run # 0 THEN "edit" ELSE "create"]]

\* Leases left by a controller that died run out, and retries come due, at any
\* time; a pending item is always due.
Due(table, ripe) ==
  {e \in Output : \/ table[e].status = "pending"
                  \/ table[e].status \in {"claimed", "failed"} /\ e \in ripe}

Claimed(table, due) ==
  [e \in Output |->
     IF e \in due
     THEN [table[e] EXCEPT !.status = "claimed",
                           !.attempts = IF table[e].attempts = 0 THEN 1 ELSE 2]
     ELSE table[e]]

ClaimOutbound(due) ==
  /\ Idle /\ due # {}
  /\ outbox' = Claimed(outbox, due)
  /\ batch' = due

\* The timer of the constructor.
DrainTimer ==
  /\ \E ripe \in SUBSET Output : ClaimOutbound(Due(outbox, ripe))
  /\ UNCHANGED <<produced, run, turnVars, chatVars, marked, cursor, pastVars, observer, finishing>>

\* The driver takes the next output of the poll for one of the gateway's own:
\* while a launch is in flight whatever it is, and once for each remembered text.
\* Only its cursor in memory moves.
InHand(e)   == observer.polling /\ ~observer.waiting /\ e = observer.position + 1
    /\ e <= observer.last
OwnTexts(e) == {f \in owned : TextOf[f] = TextOf[e]}

WithholdOutput ==
  \E e \in Output :
    /\ InHand(e)
    /\ \/ phase = "launched" /\ owned' = owned
       \/ phase # "launched" /\ \E f \in OwnTexts(e) : owned' = owned \ {f}
    /\ withheld' = withheld \cup {e}
    /\ observer' = Resumed(observer, e) /\ cursor' = Saved(observer, e, cursor)
    /\ UNCHANGED <<produced, run, turns, phase, began, chatVars, outbox, marked, baseline,
         drainVars>>

\* The next output of the poll, if it is not the gateway's own.  One that is
\* marked only moves the cursor; any other is kept, and the poll waits for the
\* drain in flight or for its own.
ReceiveSessionOutput ==
  LET e == observer.position + 1
  IN /\ InHand(e) /\ phase # "launched" /\ OwnTexts(e) = {}
     /\ \/ /\ e \in marked
           /\ observer' = Resumed(observer, e)
           /\ cursor' = e
           /\ UNCHANGED <<outbox, batch>>
        \/ /\ e \notin marked /\ ~Idle
           /\ outbox' = Enqueued(e)
           /\ observer' = [observer EXCEPT !.waiting = TRUE]
           /\ UNCHANGED <<cursor, batch>>
        \/ /\ e \notin marked /\ Idle
           /\ \E ripe \in SUBSET Output :
                LET due == Due(Enqueued(e), ripe)
                IN /\ outbox' = Claimed(Enqueued(e), due)
                   /\ batch' = due
                   /\ IF due # {}
                      THEN /\ observer' = [observer EXCEPT !.waiting = TRUE]
                           /\ cursor' = cursor
                      ELSE /\ observer' = Resumed(observer, e)
                           /\ cursor' = Saved(observer, e, cursor)
     /\ UNCHANGED <<produced, run, turnVars, chatVars, marked, pastVars, finishing>>

-----------------------------------------------------------------------------
(* The drain *)

\* ORDER BY available_at, created_at: first attempts come in their order, a
\* retry comes anywhere among them.
Turn(e) ==
  /\ e \in batch /\ finishing = 0
  /\ outbox[e].attempts = 1 =>
       \A f \in batch : outbox[f].attempts = 1 => e <= f

\* Mistake: the first retry does not search.
MutRecovering(e) == outbox[e].attempts > 2

\* What a retry looks for: an own message with its text among the last ones.
Alike(e)      == {i \in 1..Len(chat) : /\ i > Len(chat) - Listed /\ chat[i] # 0
                                       /\ TextOf[chat[i]] = TextOf[e]}
\* A message older than the item by half a minute or more is not looked at.
SinceItem(e)  == {i \in Alike(e) : i > outbox[e].since}
Recovering(e) == outbox[e].attempts > 1

\* What the chat does with an edit or a message.
Edits(e) ==
  /\ outbox[e].operation = "edit"
  /\ response' = [response EXCEPT ![outbox[e].target] = e]
  /\ shown' = shown \cup {e} /\ chat' = chat
Sends(e) ==
  /\ outbox[e].operation = "create" /\ outbox[e].target = 0
  /\ Recovering(e) => SinceItem(e) = {}
  /\ chat' = Append(chat, e) /\ UNCHANGED <<response, shown>>

\* The id the item is delivered as, with or without a call that succeeded.
Performs(e, id) ==
  \/ Edits(e) /\ id = outbox[e].target
  \/ Sends(e) /\ id = Len(chat) + 1
  \/ /\ outbox[e].operation = "create" /\ outbox[e].target # 0 /\ id = outbox[e].target
     /\ UNCHANGED chatVars
  \/ /\ outbox[e].operation = "create" /\ outbox[e].target = 0 /\ Recovering(e)
     /\ id \in Alike(e)
     /\ UNCHANGED chatVars

\* The first n of the writes after the call: the target, the mark, the
\* binding's cursor, the acknowledgement.
Writes(e, id, n) ==
  /\ outbox' = IF n = 0 THEN outbox
               ELSE [outbox EXCEPT ![e] = [@ EXCEPT !.target = id,
                                           !.status = IF n = 4 THEN "delivered" ELSE "claimed"]]
  /\ marked' = IF n >= 2 THEN marked \cup {e} ELSE marked

\* The drain is done with e; a poll that waits for it goes on when it is the last.
DrainedBy(rest, c) ==
  /\ batch' = rest
  /\ IF rest = {} /\ observer.waiting
     THEN /\ observer' = Resumed(observer, observer.position + 1)
          /\ cursor' = Saved(observer, observer.position + 1, c)
     ELSE /\ observer' = observer
          /\ cursor' = c

Deliver(e) ==
  /\ Turn(e)
  /\ \E id \in 0..(Len(chat) + MaxTurns + 1) : Performs(e, id) /\ Writes(e, id, 4)
  /\ IF outbox[e].operation = "edit"
     THEN /\ finishing' = e /\ batch' = batch \ {e}
          /\ cursor' = e /\ observer' = observer
     ELSE /\ finishing' = 0 /\ DrainedBy(batch \ {e}, e)
  /\ UNCHANGED <<produced, run, turnVars, pastVars>>

\* The working reaction is taken off, then the recovered run is done.
FinishRecovery ==
  /\ finishing # 0
  /\ run' = (IF run = outbox[finishing].target THEN 0 ELSE run) /\ finishing' = 0
  /\ DrainedBy(batch, cursor)
  /\ UNCHANGED <<produced, turnVars, chatVars, outbox, marked, pastVars>>

\* Mistake: two attempts are enough.
MutFailOutbound(e) ==
  /\ Turn(e) /\ (outbox[e].operation = "edit" \/ outbox[e].target = 0)
  /\ \/ Edits(e) \/ Sends(e) \/ UNCHANGED chatVars
  /\ outbox' = [outbox EXCEPT ![e].status = IF @ = "claimed" /\ outbox[e].attempts = 2
                                            THEN "dead" ELSE "failed"]
  /\ DrainedBy(batch \ {e}, cursor)
  /\ UNCHANGED <<produced, run, turnVars, marked, pastVars, finishing>>

\* listMessages, sendMessage or editMessage fails; the last two may have landed.
FailOutbound(e) ==
  /\ Turn(e) /\ (outbox[e].operation = "edit" \/ outbox[e].target = 0)
  /\ \/ Edits(e) \/ Sends(e) \/ UNCHANGED chatVars
  /\ outbox' = [outbox EXCEPT ![e].status = "failed"]
  /\ DrainedBy(batch \ {e}, cursor)
  /\ UNCHANGED <<produced, run, turnVars, marked, pastVars, finishing>>

-----------------------------------------------------------------------------
(* Crashes, the session, the chat and the gateway's own turns *)

\* A turn that is interrupted leaves its run for the restart to find.
Restarted ==
  /\ observer' = Off /\ batch' = {} /\ finishing' = 0
  /\ phase' = "none" /\ began' = 0 /\ owned' = {}
  /\ run' = IF phase = "none" THEN run ELSE turns

Crash ==
  /\ Restarted
  /\ UNCHANGED <<produced, turns, chatVars, tableVars, pastVars>>

\* Between the call and the end of its writes.
CrashInDelivery(e) ==
  /\ Turn(e)
  /\ \E id \in 0..(Len(chat) + MaxTurns + 1), n \in 0..3 :
       /\ Performs(e, id) /\ Writes(e, id, n)
       /\ cursor' = IF n = 3 THEN e ELSE cursor
  /\ Restarted
  /\ UNCHANGED <<produced, turns, pastVars>>

Produce ==
  /\ produced < MaxOutputs
  /\ produced' = produced + 1
  /\ UNCHANGED <<run, turnVars, chatVars, tableVars, pastVars, observer, drainVars>>

\* Somebody else writes in the chat, or a turn of the gateway replies.
OtherMessage ==
  /\ Cardinality({i \in 1..Len(chat) : chat[i] = 0}) < MaxOthers
  /\ chat' = Append(chat, 0)
  /\ UNCHANGED <<produced, run, turnVars, response, shown, tableVars, pastVars, observer,
       drainVars>>

\* A new turn of the thread, or the reconciliation after an hour, closes the run.
CloseRun ==
  /\ run # 0
  /\ run' = 0
  /\ UNCHANGED <<produced, turnVars, chatVars, tableVars, pastVars, observer, drainVars>>

\* The session acknowledges a turn of the gateway; its outputs come after those
\* that were there.
LaunchTurn ==
  /\ phase = "none" /\ run = 0 /\ turns < MaxTurns
  /\ turns' = turns + 1 /\ phase' = "launched" /\ began' = produced + 1
  /\ UNCHANGED <<produced, run, owned, chatVars, tableVars, pastVars, observer, drainVars>>

\* The wait for the turn ends: with a text of the session, which is remembered, or
\* with an error.
EndLaunch ==
  /\ phase = "launched" /\ phase' = "ended"
  /\ owned' = owned \/ \E e \in Output : began <= e /\ e <= produced /\ owned' = owned \cup {e}
  /\ UNCHANGED <<produced, run, turns, began, chatVars, tableVars, pastVars, observer, drainVars>>

\* The controller finishes the run.
FinishTurn ==
  /\ phase = "ended" /\ phase' = "none" /\ began' = 0
  /\ UNCHANGED <<produced, run, turns, owned, chatVars, tableVars, pastVars, observer, drainVars>>

Next ==
  \/ StartObserver \/ StartFails \/ Poll \/ WithholdOutput \/ ReceiveSessionOutput
  \/ DrainTimer \/ FinishRecovery
  \/ \E e \in Output : Deliver(e) \/ FailOutbound(e) \/ CrashInDelivery(e)
  \/ Crash \/ Produce \/ OtherMessage
  \/ CloseRun \/ LaunchTurn \/ EndLaunch \/ FinishTurn

Spec == Init /\ [][Next]_vars

-----------------------------------------------------------------------------
(* Properties *)

\* No output that the observer has gone past, in memory or in the binding, is
\* missing from the outbox, unless it was there before the observer was or the
\* driver took it for one of the gateway's own: a crash between any two writes, a
\* failed delivery that is retried after later ones, and the cursor that then runs
\* backwards lose nothing.  (An output that the session has on its own while a turn
\* is in flight is withheld too, and is lost.)
NoOutputIsPassed ==
  \A e \in Output :
    (e <= observer.position \/ e <= cursor) => Kept(e) \/ e \in baseline \cup withheld

\* An output is written to the chat a second time only when the first message of it
\* has been pushed out of the last Listed messages meanwhile, whatever answers are
\* lost and wherever the process dies: a retry finds any other that landed.
OneMessageInWindow ==
  \A i, j \in 1..Len(chat) : i < j /\ chat[i] = chat[j] /\ chat[i] # 0 => j - i > Listed

\* What is recorded as delivered was delivered: a message holds its place, or the
\* response has shown it.  This is so as long as no two outputs say the same.
DeliveredIsShown ==
  \A e \in Output : outbox[e].status = "delivered" =>
    IF outbox[e].operation = "edit" THEN e \in shown
    ELSE outbox[e].target \in 1..Len(chat) /\ chat[outbox[e].target] = e

\* A delivered output is never touched again, though the cursor may run behind it
\* and the observer hand it over again.
DeliveredStands ==
  [][\A e \in Output : outbox[e].status = "delivered" =>
        /\ outbox'[e] = outbox[e]
        /\ \A i \in 1..Len(chat') : chat'[i] = e => i <= Len(chat)
        /\ \A r \in Run : response'[r] = e => response[r] = e]_vars

\* docs/audit-remediation.md:26: "At-least-once reply delivery".  An output that
\* is recorded as delivered has reached the chat.
AtLeastOnce ==
  \A e \in Output : outbox[e].status = "delivered" => Sent(e) # {} \/ e \in shown

\* The timers drain and poll, an item comes due sooner or later, and a call that
\* is tried again and again succeeds.
Fairness ==
  /\ \A e \in Output :
       /\ SF_vars(DrainTimer /\ e \in batch')
       /\ SF_vars(Deliver(e))
       /\ WF_vars(Deliver(e) \/ FailOutbound(e))
  /\ WF_vars(FinishRecovery)

FairSpec == Spec /\ Fairness

\* What is kept is delivered in the end: no failure is final.
KeptIsDelivered ==
  \A e \in Output : Kept(e) ~> outbox[e].status = "delivered"
=============================================================================
