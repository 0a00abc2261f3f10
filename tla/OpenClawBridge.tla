--------------------------- MODULE OpenClawBridge ---------------------------
(* The OpenClaw driver and the Anytype channel plugin it shares a session
   with (src/runtime/openclaw.ts, packages/openclaw-anytype-channel/src).

   OpenClaw runs turns that the gateway asked for (Mine) and turns for messages
   a host posted to the plugin (In, Ext); a scheduled run leaves the same
   records as these. The plugin keeps a durable row for whatever a run of the
   bound session says, for its end and for every reply sent over the channel.
   The driver polls the rows, hands an output that is not its own to the
   controller and then acknowledges the rows. Two records may stand for one
   output, the run's events and the channel's final message, and only their
   text tells so.                                                             *)
EXTENDS Naturals, Sequences, SequencesExt, FiniteSets

CONSTANTS Mine,        \* runs the gateway asks for
          Ext,         \* runs OpenClaw starts for posted messages
          In,          \* messages a host posts to the plugin
          Text,        \* what can be said
          Says,        \* [Mine \cup Ext -> Text]
          MaxRows,     \* bound: records of the plugin
          MaxFaults    \* bound: lost requests, crashes and restarts

Run == Mine \cup Ext
Nil == "none"

ASSUME BridgeAssumption ==
  /\ Mine \cap Ext = {} /\ Nil \notin Run /\ Says \in [Run -> Text]
  /\ MaxRows \in Nat /\ MaxFaults \in Nat

VARIABLES
  run,        \* OpenClaw: state of each run
  history,    \* OpenClaw: the runs whose words are in the transcript
  row,        \* plugin: bridge_outbound, by rowid
  bound,      \* plugin: the session has its row in bridge_bindings
  registered, \* plugin: bridge_owned_runs
  early,      \* history: the runs that were over when they were registered
  inbound,    \* plugin: bridge_inbound, with the run of the last dispatch
  turn,       \* driver: the turn that is not settled, the run of its generation
  launch,     \* driver: the launch in progress
  ownedRunIds, ownedText,   \* driver: what it knows to be its own
  poll,       \* driver: the delivery in hand and what remains of the page
  observer,   \* driver: afterSequence, runs and recentOutputs
  closing,    \* driver: close() drains its receipts
  told,       \* controller: the runs whose words turns resolved with
  kept,       \* controller: ids of the outputs it keeps
  faults

claw    == <<run, history>>
books   == <<bound, registered, early>>
plugin  == <<row, books, inbound>>
driving   == <<turn, launch>>
owned   == <<ownedRunIds, ownedText>>
polling == <<poll, observer>>
bridgeVars == <<claw, plugin, driving, owned, polling, closing, told, kept, faults>>

Going == {"quiet", "said"}
Over  == {"ended", "mute", "failed", "dead"}
Kind  == {"event", "end", "final"}
Twin  == {"agent-event", "message-final"}

Row == [run : Run, kind : Kind, to : In \cup {Nil}, owned : BOOLEAN, acked : BOOLEAN]
NoGeneration == [stage |-> Nil, run |-> Nil, cursor |-> Nil]
NoLaunch     == [at |-> Nil, run |-> Nil, cursor |-> Nil]
NoPoll       == [at |-> "idle", page |-> {}, hand |-> 0, last |-> 0, echo |-> FALSE]
NoObserver   == [after |-> 0, runs |-> [r \in Run |-> {}], recent |-> [t \in Text |-> Nil]]

BridgeTypeOK ==
  /\ run \in [Run -> {Nil} \cup Going \cup Over]
  /\ history \in Seq(Run)
  /\ row \in Seq(Row)
  /\ bound \in BOOLEAN
  /\ early \subseteq registered /\ registered \subseteq Mine
  /\ inbound \in [In -> [at : {Nil, "pending", "running", "delivered", "failed"},
                        run : Ext \cup {Nil}]]
  /\ turn \in [stage : {Nil, "starting", "open"}, run : Mine \cup {Nil},
              cursor : Run \cup {Nil}]
  /\ launch \in [at : {Nil, "asked", "accepted"}, run : Mine \cup {Nil},
                cursor : Run \cup {Nil}]
  /\ ownedRunIds \subseteq Mine
  /\ ownedText \in [Text -> Nat]
  /\ poll \in [at : {"idle", "next", "output", "ack"}, page : SUBSET DOMAIN row,
               hand : {0} \cup DOMAIN row, last : {0} \cup DOMAIN row, echo : BOOLEAN]
  /\ observer \in [after : {0} \cup DOMAIN row, runs : [Run -> SUBSET DOMAIN row],
                   recent : [Text -> Twin \cup {Nil}]]
  /\ closing \in BOOLEAN
  /\ told \subseteq Run
  /\ kept \subseteq Run \X {"end", "final"}
  /\ faults \in 0 .. MaxFaults

BridgeInit ==
  /\ run = [r \in Run |-> Nil]
  /\ history = <<>>
  /\ row = <<>>
  /\ bound = FALSE
  /\ registered = {}
  /\ early = {}
  /\ inbound = [m \in In |-> [at |-> Nil, run |-> Nil]]
  /\ turn = NoGeneration
  /\ launch = NoLaunch
  /\ ownedRunIds = {}
  /\ ownedText = [t \in Text |-> 0]
  /\ poll = NoPoll
  /\ observer = NoObserver
  /\ closing = FALSE
  /\ told = {}
  /\ kept = {}
  /\ faults = 0

Fault == /\ faults < MaxFaults
         /\ faults' = faults + 1

-----------------------------------------------------------------------------
(* The plugin's records *)

(* putDelivery: the idempotency key is the run's sequence number, or the posted
   message and the reply's text; a key that is there is ignored. *)
Same(d, e) == /\ d.kind = e.kind /\ d.to = e.to
              /\ d.run = e.run \/ (d.to # Nil /\ Says[d.run] = Says[e.run])
Put(r, kind, to, own) ==
  LET d == [run |-> r, kind |-> kind, to |-> to, owned |-> own, acked |-> FALSE]
  IN  /\ Len(row) < MaxRows
      /\ row' = IF \E i \in DOMAIN row : Same(row[i], d) THEN row ELSE Append(row, d)

(* observeAgentEvent: only for a bound session, and owned if the driver has
   registered the run by now. *)
Observe(r, kind) ==
  IF bound THEN Put(r, kind, Nil, r \in registered) ELSE UNCHANGED row

(* acknowledgeDelivery and acknowledgeDeliveries. *)
Acknowledge(ids) ==
  row' = [i \in DOMAIN row |-> [row[i] EXCEPT !.acked = @ \/ i \in ids]]

-----------------------------------------------------------------------------
(* OpenClaw *)

(* Bound: the runs of a session speak one after another. *)
Speak(r) ==
  /\ run[r] = "quiet"
  /\ \A o \in Run : run[o] # "said"
  /\ run' = [run EXCEPT ![r] = "said"]
  /\ Observe(r, "event")
  /\ UNCHANGED <<history, books, inbound, driving, owned, polling, closing, told,
                 kept, faults>>

(* The run's lifecycle event. *)
End(r) ==
  /\ \/ /\ run[r] = "said"
        /\ run' = [run EXCEPT ![r] = "ended"]
        /\ history' = Append(history, r)
     \/ /\ run[r] = "quiet"
        /\ run' = [run EXCEPT ![r] = "mute"]
        /\ UNCHANGED history
  /\ Observe(r, "end")
  /\ UNCHANGED <<books, inbound, driving, owned, polling, closing, told, kept, faults>>

(* The run ends with an error or is aborted. *)
Fail(r) ==
  /\ run[r] \in Going
  /\ Fault
  /\ run' = [run EXCEPT ![r] = "failed"]
  /\ Observe(r, "end")
  /\ UNCHANGED <<history, books, inbound, driving, owned, polling, closing, told, kept>>

(* sendText: the channel's durable final message, once for a run. *)
SendText(r) ==
  /\ run[r] \in {"said", "ended"}
  /\ \A m \in In : inbound[m].run # r
  /\ Put(r, "final", Nil, FALSE)
  /\ UNCHANGED <<claw, books, inbound, driving, owned, polling, closing, told, kept,
                 faults>>

(* OpenClaw restarts, and its plugin with it: what ran is gone without an end,
   and what the plugin was dispatching is still pending. *)
RestartClaw ==
  /\ Fault
  /\ run' = [r \in Run |-> IF run[r] \in Going THEN "dead" ELSE run[r]]
  /\ inbound' = [m \in In |-> IF inbound[m].at = "running"
                              THEN [inbound[m] EXCEPT !.at = "pending"] ELSE inbound[m]]
  /\ UNCHANGED <<history, row, books, driving, owned, polling, closing, told, kept>>

-----------------------------------------------------------------------------
(* Messages that a host posts *)

(* POST /v1/inbound: a new message, or one whose dispatch failed. *)
PostInbound(m) ==
  /\ inbound[m].at \in {Nil, "failed"}
  /\ inbound' = [inbound EXCEPT ![m].at = "pending"]
  /\ UNCHANGED <<claw, row, books, driving, owned, polling, closing, told, kept, faults>>

(* drainInbound takes one message at a time; its dispatch binds the session and
   runs the agent. *)
DispatchInbound(m) ==
  /\ inbound[m].at = "pending"
  /\ \A n \in In : inbound[n].at # "running"
  /\ \E r \in Ext : /\ run[r] = Nil
                    /\ run' = [run EXCEPT ![r] = "quiet"]
                    /\ inbound' = [inbound EXCEPT ![m] = [at |-> "running", run |-> r]]
  /\ bound' = TRUE
  /\ UNCHANGED <<history, row, registered, early, driving, owned, polling, closing, told, kept,
                 faults>>

(* deliverReply. *)
ReplyInbound(m) ==
  /\ inbound[m].at = "running" /\ run[inbound[m].run] = "ended"
  /\ Put(inbound[m].run, "final", m, FALSE)
  /\ UNCHANGED <<claw, books, inbound, driving, owned, polling, closing, told, kept,
                 faults>>

(* markInbound. *)
SettleInbound(m) ==
  /\ inbound[m].at = "running"
  /\ LET r == inbound[m].run
         replied == \E i \in DOMAIN row : row[i].to = m /\ Says[row[i].run] = Says[r]
     IN  \/ /\ run[r] = "mute" \/ (run[r] = "ended" /\ replied)
            /\ inbound' = [inbound EXCEPT ![m].at = "delivered"]
         \/ /\ run[r] = "failed"
            /\ inbound' = [inbound EXCEPT ![m].at = "failed"]
  /\ UNCHANGED <<claw, row, books, driving, owned, polling, closing, told, kept, faults>>

-----------------------------------------------------------------------------
(* A turn of the gateway: start() and steer() *)

(* readTerminalCursor. *)
LastSaid == IF history = <<>> THEN Nil ELSE Last(history)

(* The agent or sessions.steer request reaches OpenClaw. A steer belongs to the
   turn that is open when it is asked. Bound: one turn, and one launch of it at
   a time. *)
Ask(r) ==
  /\ ~ closing
  /\ launch = NoLaunch /\ run[r] = Nil
  /\ launch' = [at |-> "asked", run |-> r, cursor |-> LastSaid]
  /\ run' = [run EXCEPT ![r] = "quiet"]
  /\ \/ /\ turn = NoGeneration /\ \A o \in Mine : run[o] = Nil
        /\ turn' = [NoGeneration EXCEPT !.stage = "starting"]
     \/ /\ turn.stage = "open"
        /\ UNCHANGED turn
  /\ UNCHANGED <<history, plugin, owned, polling, closing, told, kept, faults>>

(* A launch that throws: a start has no turn, a steer leaves it as it was. *)
LaunchThrows ==
  /\ launch' = NoLaunch
  /\ turn' = IF turn.stage = "starting" THEN NoGeneration ELSE turn

(* The request, retried while the gateway reconnects, is given up. *)
AskFails ==
  /\ launch.at = "asked"
  /\ Fault
  /\ LaunchThrows
  /\ UNCHANGED <<claw, plugin, owned, polling, closing, told, kept>>

(* Mutant: the run is left to the plugin to remember. *)
MutAcknowledged ==
  /\ launch.at = "asked"
  /\ launch' = [launch EXCEPT !.at = "accepted"]
  /\ UNCHANGED <<claw, plugin, turn, owned, polling, closing, told, kept, faults>>

(* The acknowledgement names the run, which the driver remembers as its own
   before it tells the plugin. *)
Acknowledged ==
  /\ launch.at = "asked"
  /\ launch' = [launch EXCEPT !.at = "accepted"]
  /\ ownedRunIds' = ownedRunIds \cup {launch.run}
  /\ UNCHANGED <<claw, plugin, turn, ownedText, polling, closing, told, kept, faults>>

Registers ==
  /\ registered' = registered \cup {launch.run}
  /\ early' = IF run[launch.run] \in Over THEN early \cup {launch.run} ELSE early

(* markBridgeOwnedRun and bindBridgeSession, between which no record tells the
   difference; then the generation is active and its run waited for, unless
   the turn that is steered has settled meanwhile. *)
Register ==
  /\ launch.at = "accepted"
  /\ Registers
  /\ bound' = TRUE
  /\ launch' = NoLaunch
  /\ turn' = IF turn = NoGeneration THEN NoGeneration
             ELSE [stage |-> "open", run |-> launch.run, cursor |-> launch.cursor]
  /\ UNCHANGED <<claw, row, inbound, owned, polling, closing, told, kept, faults>>

(* Either request to the plugin fails, before or after it had its effect: the
   run is aborted, if that request gets through. *)
RegisterFails ==
  /\ launch.at = "accepted"
  /\ Fault
  /\ \/ UNCHANGED <<registered, early, bound>>
     \/ Registers /\ UNCHANGED bound
     \/ Registers /\ bound' = TRUE
  /\ LET r == launch.run
     IN  \/ /\ run[r] \in Going
            /\ run' = [run EXCEPT ![r] = "failed"]
            /\ IF bound' THEN Put(r, "end", Nil, r \in registered') ELSE UNCHANGED row
         \/ UNCHANGED <<run, row>>
  /\ LaunchThrows
  /\ UNCHANGED <<history, inbound, owned, polling, closing, told, kept>>

(* The turn resolves with a text, which the driver then knows to be its own. *)
Resolve(r) ==
  /\ told' = told \cup {r}
  /\ ownedText' = [ownedText EXCEPT ![Says[r]] = @ + 1]

(* readTerminalText: the latest text of the transcript but the one it had
   ended with at the launch, whoever said it and however old it is. *)
Readable == LET others == {k \in DOMAIN history : history[k] # turn.cursor}
            IN  {history[k] : k \in {j \in others : \A i \in others : i <= j}}

(* waitForRun has an answer, and with it the run's own words. *)
Answered(r) == run[r] \in {"ended", "mute", "failed"}
Replied(r)  == run[r] = "ended"

(* waitForRun returns for the active generation; older ones are ignored. *)
WaitEnds ==
  /\ turn.stage = "open"
  /\ Answered(turn.run)
  /\ \/ Replied(turn.run) /\ Resolve(turn.run)
     \/ /\ ~ Replied(turn.run)
        /\ \/ \E h \in Readable : Resolve(h)
           \/ Readable = {} /\ UNCHANGED <<told, ownedText>>
  /\ turn' = NoGeneration
  /\ UNCHANGED <<claw, plugin, launch, ownedRunIds, polling, closing, kept, faults>>

(* waitForTerminalText: two minutes of readings. *)
Recover == \E h \in Readable : Resolve(h)

(* agent.wait fails: because the run is gone, with the connection or for good.
   After a reconnect the transcript may still have the answer. *)
WaitFails ==
  /\ turn.stage = "open"
  /\ IF run[turn.run] = "dead" THEN UNCHANGED faults ELSE Fault
  /\ Recover \/ UNCHANGED <<told, ownedText>>
  /\ turn' = NoGeneration
  /\ UNCHANGED <<claw, plugin, launch, ownedRunIds, polling, closing, kept>>

-----------------------------------------------------------------------------
(* The poll: drainBridgeObserver *)

Pending == {i \in DOMAIN row : ~ row[i].acked /\ i > observer.after}

(* The page holds all that is pending: its limit is out of reach. *)
Fetch ==
  /\ poll.at = "idle" /\ ~ closing
  /\ \E last \in Pending :
       /\ \A i \in Pending : i <= last
       /\ poll' = [NoPoll EXCEPT !.at = "next", !.page = Pending, !.last = last]
  /\ UNCHANGED <<claw, plugin, driving, owned, observer, closing, told, kept, faults>>

(* What renderBridgeRun makes of a run's events. *)
Rendered(r, ids) ==
  IF \E i \in ids : row[i].kind = "event" THEN {Says[r]} ELSE {}

(* Mutant: a record of either kind counts as the twin. *)
MutIsTwin(t, kind) == observer.recent[t] # Nil

(* shouldSuppressBridgeTwin: the other kind of record said this before. *)
IsTwin(t, kind) == observer.recent[t] \notin {Nil, kind}
Remember(t, kind) ==
  [observer.recent EXCEPT ![t] = IF IsTwin(t, kind) THEN Nil ELSE kind]

(* Up to its next await the loop sets the events it meets aside for the ends of
   their runs, and stops at the first other delivery, or behind the page. *)
Passed  == {i \in poll.page : \A k \in poll.page : k <= i => row[k].kind = "event"}
Rest    == poll.page \ Passed
Held(r) == observer.runs[r] \cup {i \in Passed : row[i].run = r}
SetAside == [r \in Run |-> Held(r)]

(* The loop meets delivery i, of this kind. *)
Meets(i, kind) ==
  /\ poll.at = "next" /\ ~ closing
  /\ i \in Rest /\ \A k \in Rest : i <= k
  /\ row[i].kind = kind

(* It has the delivery in hand until it is acknowledged. *)
Takes(i, out, echo) ==
  poll' = [poll EXCEPT !.at = IF out THEN "output" ELSE "ack", !.page = Rest \ {i},
                       !.hand = i, !.echo = echo]

(* The end of a run: an output unless it is the driver's own, says nothing or
   is the twin of a final message. *)
TakeEnd(i) ==
  /\ Meets(i, "end")
  /\ LET r    == row[i].run
         own  == row[i].owned \/ r \in ownedRunIds
         said == Rendered(r, Held(r))
         twin == \E t \in said : IsTwin(t, "agent-event")
     IN  /\ Takes(i, ~ own /\ (said # {} \/ run[r] = "failed") /\ ~ twin, FALSE)
         /\ observer' =
              [observer EXCEPT !.runs = [SetAside EXCEPT ![r] = @ \cup {i}],
                               !.recent = IF own \/ said = {} THEN @
                                          ELSE Remember(Says[r], "agent-event")]
  /\ UNCHANGED <<claw, plugin, driving, owned, closing, told, kept, faults>>

(* consumeOwnedTerminalText. *)
Echo(t) == ownedText[t] > 0

(* A final message: an output unless its text is one that a turn of the driver
   resolved with, or is the twin of a run's events. *)
TakeFinal(i) ==
  /\ Meets(i, "final")
  /\ LET t == Says[row[i].run]
     IN  /\ Takes(i, ~ Echo(t) /\ ~ IsTwin(t, "message-final"), Echo(t))
         /\ ownedText' = [ownedText EXCEPT ![t] = IF Echo(t) THEN @ - 1 ELSE @]
         /\ observer' = [observer EXCEPT !.runs = SetAside,
                                         !.recent = IF Echo(t) THEN @
                                                    ELSE Remember(t, "message-final")]
  /\ UNCHANGED <<claw, plugin, driving, ownedRunIds, closing, told, kept, faults>>

EndPage ==
  /\ poll.at = "next" /\ ~ closing
  /\ Rest = {}
  /\ observer' = [observer EXCEPT !.after = poll.last, !.runs = SetAside]
  /\ poll' = NoPoll
  /\ UNCHANGED <<claw, plugin, driving, owned, closing, told, kept, faults>>

(* onOutput returns once the controller keeps the output; an id it has is
   known to it. *)
Output ==
  /\ poll.at = "output"
  /\ kept' = kept \cup {<<row[poll.hand].run, row[poll.hand].kind>>}
  /\ poll' = [poll EXCEPT !.at = "ack"]
  /\ UNCHANGED <<claw, plugin, driving, owned, observer, closing, told, faults>>

(* It throws, and the poll with it: afterSequence stays. *)
OutputFails ==
  /\ poll.at = "output"
  /\ Fault
  /\ poll' = NoPoll
  /\ UNCHANGED <<claw, plugin, driving, owned, observer, closing, told, kept>>

(* What one acknowledgement covers: a run's records together. *)
Receipt == IF row[poll.hand].kind = "end" THEN observer.runs[row[poll.hand].run] ELSE {poll.hand}

Ack ==
  /\ poll.at = "ack"
  /\ Acknowledge(Receipt)
  /\ LET s == row[poll.hand].run
     IN  IF row[poll.hand].kind = "end"
         THEN /\ observer' = [observer EXCEPT !.runs[s] = {}]
              /\ ownedRunIds' = ownedRunIds \ {s}
         ELSE UNCHANGED <<observer, ownedRunIds>>
  /\ poll' = [poll EXCEPT !.at = "next", !.hand = 0, !.echo = FALSE]
  /\ UNCHANGED <<claw, books, inbound, driving, ownedText, closing, told, kept, faults>>

(* The request or its answer is lost: the poll throws, and a text that was
   taken for the driver's own is its own again. *)
AckFails ==
  /\ poll.at = "ack"
  /\ Fault
  /\ Acknowledge(Receipt) \/ UNCHANGED row
  /\ ownedText' = [t \in Text |-> ownedText[t]
                     + (IF poll.echo /\ Says[row[poll.hand].run] = t THEN 1 ELSE 0)]
  /\ poll' = NoPoll
  /\ UNCHANGED <<claw, books, inbound, driving, ownedRunIds, observer, closing, told,
                 kept>>

(* Half a minute passes: twins are forgotten. *)
Forget ==
  /\ \E t \in Text : observer.recent[t] # Nil
  /\ observer' = [observer EXCEPT !.recent = NoObserver.recent]
  /\ UNCHANGED <<claw, plugin, driving, owned, poll, closing, told, kept, faults>>

-----------------------------------------------------------------------------
(* The driver's end *)

(* close(): turns and observers are dropped; an output in delivery and a
   receipt under way may still finish. *)
Close ==
  /\ ~ closing
  /\ Fault
  /\ closing' = TRUE
  /\ turn' = NoGeneration /\ launch' = NoLaunch
  /\ poll' = IF poll.at \in {"output", "ack"} THEN poll ELSE NoPoll
  /\ UNCHANGED <<claw, plugin, owned, observer, told, kept>>

Fresh ==
  /\ closing' = FALSE
  /\ turn' = NoGeneration /\ launch' = NoLaunch
  /\ ownedRunIds' = {} /\ ownedText' = [t \in Text |-> 0]
  /\ poll' = NoPoll /\ observer' = NoObserver

(* The gateway starts again, and observes the session from the first record. *)
RestartGateway ==
  /\ closing /\ poll.at \in {"idle", "next"}
  /\ Fresh
  /\ UNCHANGED <<claw, plugin, told, kept, faults>>

(* It dies, or gives up its drain after ten seconds. *)
Crash ==
  /\ Fault
  /\ Fresh
  /\ UNCHANGED <<claw, plugin, told, kept>>

-----------------------------------------------------------------------------
BridgeNext ==
  \/ \E r \in Run : Speak(r) \/ End(r) \/ Fail(r) \/ SendText(r)
  \/ \E m \in In : PostInbound(m) \/ DispatchInbound(m) \/ ReplyInbound(m) \/ SettleInbound(m)
  \/ RestartClaw
  \/ \E r \in Mine : Ask(r)
  \/ AskFails \/ Acknowledged \/ Register \/ RegisterFails \/ WaitEnds \/ WaitFails
  \/ Fetch \/ (\E i \in DOMAIN row : TakeEnd(i) \/ TakeFinal(i))
  \/ Output \/ OutputFails \/ Ack \/ AckFails \/ EndPage \/ Forget
  \/ Close \/ RestartGateway \/ Crash

BridgeSpec == BridgeInit /\ [][BridgeNext]_bridgeVars

-----------------------------------------------------------------------------
(* Properties *)

Stored(r, kind) == \E i \in DOMAIN row : row[i].run = r /\ row[i].kind = kind
Shown(t) == \/ \E r \in told : Says[r] = t
            \/ \E k \in kept : Says[k[1]] = t

(* The gateway's run ended before the driver had told the plugin of it. *)
Overtook(t) == \E i \in DOMAIN row : /\ row[i].run \in Mine /\ row[i].kind = "end"
                                     /\ ~ row[i].owned /\ Says[row[i].run] = t

(* A record is acknowledged only when nothing is lost with it: what a run that
   is not the gateway's own said, its failure and every final message are in
   the chat by then, as an output or as the answer of a turn, whatever is
   suppressed as a twin or an echo, retried, cut short by a restart or read in
   pages (drainBridgeObserver). Only the twin of a run that ended before its
   launch was acknowledged can be taken for shown too early. *)
NothingIsSwallowed ==
  \A i \in DOMAIN row : row[i].acked =>
    LET r == row[i].run
    IN  /\ row[i].kind = "final" => Shown(Says[r]) \/ Overtook(Says[r])
        /\ (row[i].kind = "end" /\ r \notin Mine) =>
             IF Stored(r, "event") THEN Shown(Says[r]) \/ Overtook(Says[r])
             ELSE run[r] = "failed" => <<r, "end">> \in kept

(* A run whose end the driver hands out as a foreign output is none that it
   has launched and still knows of, and none that was registered with the
   plugin before it ended, whichever of the two restarted in between
   (packages/openclaw-anytype-channel/README.md:68). *)
Followed == {turn.run} \cup IF launch.at = "accepted" THEN {launch.run} ELSE {}
TakenFor(r) == /\ poll.at = "next" /\ poll'.at = "output"
               /\ row[poll'.hand].run = r /\ row[poll'.hand].kind = "end"
OwnRunsAreNotMirrored ==
  [][\A r \in Mine :
       TakenFor(r) => r \notin Followed /\ (r \in registered => r \in early)]_bridgeVars

(* A turn resolves with words said since its launch, its own run's or, when
   these are missing, the transcript's (openclaw.ts "completed without a
   visible text reply"). It does not: readTerminalText passes over one message
   only, the last one of the time of the launch, and returns the one before. *)
Place(r) == CHOOSE k \in DOMAIN history : history[k] = r
AnswersAreNew ==
  [][\A r \in told' \ told : turn.cursor # Nil => Place(r) > Place(turn.cursor)]_bridgeVars

=============================================================================
