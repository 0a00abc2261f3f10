------------------------------ MODULE CodexTurn ------------------------------
(***************************************************************************)
(* The Codex ACP driver (src/runtime/codex-acp.ts) for one session key, as  *)
(* the controller uses it: every turn spawns an agent process, writes who   *)
(* sent the message to the actor file of the key, loads the saved session   *)
(* or makes another, prompts, takes steers while the prompt is under way    *)
(* and ends with the process terminated and the actor file unlinked.        *)
(*                                                                          *)
(* The controller hands over one message at a time, but it may be through   *)
(* with a turn before the turn is through: after a setup that took too      *)
(* long, a run that took too long, or a steer that failed.  What the agent  *)
(* does with a request is external: it answers, refuses, hangs or dies.     *)
(***************************************************************************)
EXTENDS Integers, FiniteSets

CONSTANTS
  Sender,     \* participants of the chat
  Unknown,    \* provenance: "unavailable"
  Timed,      \* whether inactivityTimeoutSeconds or maxRunSeconds is set: by default neither is
  MaxTurns,   \* bound: messages that are no steer, and model commands
  MaxTrouble  \* bound: steers, failures of the agent and of its sessions, restarts of the gateway

ASSUME CodexAssumption ==
  Unknown \notin Sender /\ Timed \in BOOLEAN /\ MaxTurns \in Nat \ {0} /\ MaxTrouble \in Nat

Turn    == 1..MaxTurns
None    == 0
Session == Nat \ {None}
Absent  == "absent"

VARIABLES
  turns,     \* the turns of the key, with the process, the promises and the timers of each
  current,   \* the turn that the controller waits for or has as its active run, or None
  steering,  \* the steer that is under way
  saved,     \* codex_acp_sessions: the session of the key, or None
  failures,  \* repeatedInternalLoadFailures of the key
  file,      \* the actor file of the key: what it says, or Absent
  live,      \* external: the sessions that the agent can load
  broken,    \* external: those that it answers with an internal error
  fresh,     \* external: the last session that was made
  taken,     \* history: the senders of the messages each turn was given
  strikes,   \* history: turns in a row that could not load the saved session for an internal error
  trouble    \* history: how much of it there was

agent == <<live, broken, fresh>>
past  == <<taken, strikes, trouble>>
vars  == <<turns, current, steering, saved, failures, file, agent, past>>

NoTurn  == [kind |-> "none", pc |-> "none", session |-> None, child |-> "none", stop |-> "no",
            start |-> "no", actor |-> Unknown, alone |-> TRUE]
NoSteer == [turn |-> None, from |-> Unknown, at |-> "none"]

\* `start` is the promise that setup settles, `stop` the termination timers,
\* `alone` (history) whether every earlier turn had ended when this one began.
TurnState ==
  [kind : {"none", "prompt", "discover"},
   pc : {"none", "init", "thread", "load", "reload", "new", "model", "prompt", "wrap", "clean",
         "done"},
   session : Session \cup {None}, child : {"none", "alive", "gone"},
   stop : {"no", "asked", "grace", "term"}, start : {"no", "waiting", "ready", "failed"},
   actor : Sender \cup {Unknown}, alone : BOOLEAN]

TypeOK ==
  /\ turns \in [Turn -> TurnState] /\ current \in Turn \cup {None}
  /\ steering \in [turn : Turn \cup {None}, from : Sender \cup {Unknown},
                   at : {"none", "write", "ask"}]
  /\ saved \in Session \cup {None} /\ failures \in Nat
  /\ file \in Sender \cup {Unknown, Absent}
  /\ live \subseteq Session /\ broken \subseteq Session /\ fresh \in Session \cup {None}
  /\ taken \in [Turn -> SUBSET Sender] /\ strikes \in Nat /\ trouble \in 0..MaxTrouble

Init ==
  /\ turns = [t \in Turn |-> NoTurn] /\ current = None /\ steering = NoSteer
  /\ saved = None /\ failures = 0 /\ file = Absent
  /\ live = {} /\ broken = {} /\ fresh = None
  /\ taken = [t \in Turn |-> {}] /\ strikes = 0 /\ trouble = 0

Trouble == trouble < MaxTrouble /\ trouble' = trouble + 1

Alive(t)   == turns[t].child = "alive"
At(t, pcs) == turns[t].pc \in pcs
Prompts(t) == turns[t].kind = "prompt"
Underway   == {t \in Turn : ~ At(t, {"none", "done"})}

Setup == {"init", "thread", "load", "reload", "new", "model"}

\* terminateNow: SIGTERM, and SIGKILL a second later.
Terminated(turn) == [turn EXCEPT !.stop = IF @ # "no" \/ turn.child = "alive" THEN "term" ELSE @]

\* A bare SIGTERM, which the process may ignore.
Asked(turn) == [turn EXCEPT !.stop = IF turn.child = "alive" THEN "asked" ELSE @]

\* How a turn stops its process: a discovery only asks.
Stopped(turn) == IF turn.kind = "prompt" THEN Terminated(turn) ELSE Asked(turn)

\* What a turn does once it throws: start is rejected if it still waits.
Failed(turn) ==
  [Stopped(turn) EXCEPT !.pc = "clean", !.start = IF @ = "waiting" THEN "failed" ELSE @]

\* The controller is through with turn t.
Released(t) == IF current = t THEN None ELSE current

-----------------------------------------------------------------------------
(* A turn begins *)

Idle == current = None /\ steering = NoSteer

NextTurn(t) == At(t, {"none"}) /\ \A u \in 1..(t - 1) : ~ At(u, {"none"})

Spawned(kind, sender) ==
  [NoTurn EXCEPT !.kind = kind, !.pc = "init", !.child = "alive", !.start = "waiting",
                 !.actor = sender, !.alone = (Underway = {})]

\* spawn, then writeActorContext: the file is that of the key.
Begin(t, kind, sender) ==
  /\ Idle /\ NextTurn(t)
  /\ turns' = [turns EXCEPT ![t] = Spawned(kind, sender)]
  /\ current' = t /\ file' = sender
  /\ taken' = [taken EXCEPT ![t] = {sender}]
  /\ UNCHANGED <<steering, saved, failures, agent, strikes, trouble>>

\* The actor file cannot be written: the process is asked to end, nothing else was done.
ActorUnwritten(t, kind, sender) ==
  /\ Idle /\ NextTurn(t) /\ Trouble
  /\ turns' = [turns EXCEPT ![t] = [Asked(Spawned(kind, sender)) EXCEPT
                                      !.pc = "done", !.start = "failed"]]
  /\ UNCHANGED <<current, steering, saved, failures, file, agent, taken, strikes>>

-----------------------------------------------------------------------------
(* Setup: initialize, load or make the session, apply the model *)

\* The saved session is read once, when initialize is answered.
Initialized(t) ==
  /\ At(t, {"init"}) /\ Alive(t)
  /\ \E pc \in IF saved # None THEN {"load"}
               ELSE {"new"} \cup (IF Prompts(t) THEN {"thread"} ELSE {}) :
       turns' = [turns EXCEPT ![t].pc = pc, ![t].session = saved]
  /\ UNCHANGED <<current, steering, saved, failures, file, agent, past>>

\* createCodexDesktopThread: the desktop app makes the session, or cannot.
DesktopThread(t) ==
  /\ At(t, {"thread"})
  /\ \/ /\ fresh' = fresh + 1 /\ live' = live \cup {fresh'} /\ saved' = fresh'
        /\ turns' = [turns EXCEPT ![t].pc = "load", ![t].session = fresh']
     \/ /\ turns' = [turns EXCEPT ![t].pc = "new"]
        /\ UNCHANGED <<fresh, live, saved>>
  /\ UNCHANGED <<current, steering, failures, file, broken, past>>

\* The turn has a session: it is saved at once, and a prompt comes next.
\* A discovery has what it wants, and saves only the session that was saved.
Works(t, session, keep) ==
  /\ saved' = IF keep THEN session ELSE saved
  /\ turns' = [turns EXCEPT ![t] =
       IF Prompts(t) THEN [@ EXCEPT !.pc = "model", !.session = session]
       ELSE [Stopped(@) EXCEPT !.pc = "clean", !.session = session]]
  /\ failures' = IF Prompts(t) THEN 0 ELSE failures
  /\ strikes' = IF Prompts(t) THEN 0 ELSE strikes

Loaded(t) ==
  /\ At(t, {"load", "reload"}) /\ Alive(t) /\ turns[t].session \in live \ broken
  /\ Works(t, turns[t].session, TRUE)
  /\ UNCHANGED <<current, steering, file, agent, taken, trouble>>

Created(t) ==
  /\ At(t, {"new"}) /\ Alive(t)
  /\ fresh' = fresh + 1 /\ live' = live \cup {fresh'}
  /\ Works(t, fresh', Prompts(t))
  /\ UNCHANGED <<current, steering, file, broken, taken, trouble>>

\* One internal error: the load is tried again after 250 ms.
LoadBreaks(t) ==
  /\ At(t, {"load"}) /\ Alive(t) /\ turns[t].session \in live \cap broken
  /\ turns' = [turns EXCEPT ![t].pc = "reload"]
  /\ UNCHANGED <<current, steering, saved, failures, file, agent, past>>

\* Mutant: the first failure already gives way.
GivesWayMutant(count) == count >= 1

GivesWay(count) == count >= 2

\* Another: the turn fails, and the second turn in a row makes another session.
LoadBreaksAgain(t) ==
  /\ At(t, {"reload"}) /\ Alive(t) /\ turns[t].session \in live \cap broken
  /\ failures' = IF Prompts(t) THEN failures + 1 ELSE failures
  /\ strikes' = IF Prompts(t) THEN strikes + 1 ELSE strikes
  /\ IF Prompts(t) /\ GivesWay(failures')
     THEN /\ turns' = [turns EXCEPT ![t].pc = "new"]
          /\ saved' = None /\ UNCHANGED current
     ELSE /\ turns' = [turns EXCEPT ![t] = Failed(@)]
          /\ current' = IF Prompts(t) THEN Released(t) ELSE current
          /\ UNCHANGED saved
  /\ UNCHANGED <<steering, file, agent, taken, trouble>>

\* The agent says that it does not know the session.
LoadUnavailable(t) ==
  /\ At(t, {"load", "reload"}) /\ Alive(t) /\ turns[t].session \notin live
  /\ turns' = [turns EXCEPT ![t].pc = "new"]
  /\ saved' = None
  /\ UNCHANGED <<current, steering, failures, file, agent, past>>

\* The model is set; markReady settles start unless that was given up.
Ready(t) ==
  /\ At(t, {"model"})
  /\ turns' = [turns EXCEPT ![t].pc = "prompt",
                            ![t].start = IF @ = "waiting" THEN "ready" ELSE @]
  /\ UNCHANGED <<current, steering, saved, failures, file, agent, past>>

-----------------------------------------------------------------------------
(* The prompt and the end of the turn *)

PromptEnds(t) ==
  /\ At(t, {"prompt"}) /\ Alive(t)
  /\ turns' = [turns EXCEPT ![t].pc = "wrap"]
  /\ UNCHANGED <<current, steering, saved, failures, file, agent, past>>

\* The desktop project was associated and hydrated, or that failed: all the same.
Wrapped(t) ==
  /\ At(t, {"wrap"})
  /\ turns' = [turns EXCEPT ![t] = [Terminated(@) EXCEPT !.pc = "clean"]]
  /\ UNCHANGED <<current, steering, saved, failures, file, agent, past>>

\* A request fails, as every one does once the process is gone.  A rejected
\* start ends the run at once, everything else when the result settles.
Throws(t) ==
  /\ At(t, (Setup \ {"thread"}) \cup {"prompt"})
  /\ turns' = [turns EXCEPT ![t] = Failed(@)]
  /\ current' = IF Prompts(t) /\ turns[t].start = "waiting" THEN Released(t) ELSE current
  /\ UNCHANGED <<steering, saved, failures, file, agent, taken, strikes>>

RequestFails(t) == Alive(t) /\ Trouble /\ Throws(t)
Disconnected(t) == ~ Alive(t) /\ ~ At(t, {"model"}) /\ Throws(t) /\ UNCHANGED trouble

\* Whether turn t unlinks the file: a discovery that was given up already did.
Unlinks(t) == Prompts(t) \/ turns[t].start # "failed"

\* finally: the file is unlinked and the result settles.
Clean(t) ==
  /\ At(t, {"clean"})
  /\ turns' = [turns EXCEPT ![t].pc = "done"]
  /\ file' = IF Unlinks(t) THEN Absent ELSE file
  /\ current' = Released(t)
  /\ UNCHANGED <<steering, saved, failures, agent, past>>

-----------------------------------------------------------------------------
(* Timers, cancellation and the process *)

\* waitForSetup, and the timeout of a discovery: the turn itself goes on
\* as long as its process does, which a discovery can only ask to end.
SetupTimeout(t) ==
  /\ At(t, Setup) /\ turns[t].start = "waiting"
  /\ turns' = [turns EXCEPT ![t] = [Stopped(@) EXCEPT !.start = "failed"]]
  /\ file' = IF Prompts(t) THEN file ELSE Absent
  /\ current' = Released(t)
  /\ UNCHANGED <<steering, saved, failures, agent, past>>

\* Mutant: the agent is only asked to cancel.
CancelledMutant(turn) == turn

\* cancel: session/cancel, and terminateAfterGrace.
Cancelled(turn) ==
  [turn EXCEPT !.stop = IF turn.child = "alive" /\ @ = "no" THEN "grace" ELSE @]

\* withExecutionTimeouts: no activity for too long, or the maximum is reached.
GiveUp(t) ==
  /\ Timed /\ current = t /\ turns[t].start = "ready" /\ At(t, {"prompt", "wrap"})
  /\ turns' = [turns EXCEPT ![t] = Cancelled(@)]
  /\ current' = None
  /\ UNCHANGED <<steering, saved, failures, file, agent, past>>

GraceOver(t) ==
  /\ turns[t].stop = "grace" /\ Alive(t)
  /\ turns' = [turns EXCEPT ![t] = Terminated(@)]
  /\ UNCHANGED <<current, steering, saved, failures, file, agent, past>>

\* The process ends because it was told to, or dies.
ChildExits(t) ==
  /\ Alive(t)
  /\ IF turns[t].stop \in {"asked", "term"} THEN UNCHANGED trouble ELSE Trouble
  /\ turns' = [turns EXCEPT ![t].child = "gone", ![t].stop = "no"]
  /\ UNCHANGED <<current, steering, saved, failures, file, agent, taken, strikes>>

-----------------------------------------------------------------------------
(* Steering *)

\* A message for the active run; once the prompt is over it waits for the
\* result and starts a turn of its own.
Steer(t, sender) ==
  /\ current = t /\ turns[t].start = "ready" /\ steering = NoSteer
  /\ At(t, {"prompt"}) /\ Trouble
  /\ steering' = [turn |-> t, from |-> sender, at |-> "write"]
  /\ UNCHANGED <<turns, current, saved, failures, file, agent, taken, strikes>>

\* Mutant: the last sender is believed.
ProvenanceMutant(actor, sender) == sender

\* What a turn knows of its sender once it is given a message of another.
Provenance(actor, sender) == IF actor = sender THEN actor ELSE Unknown

SteerWrites ==
  LET t == steering.turn
  IN  /\ steering.at = "write"
      /\ turns' = [turns EXCEPT ![t].actor = Provenance(@, steering.from)]
      /\ file' = turns'[t].actor
      /\ steering' = [steering EXCEPT !.at = "ask"]
      /\ UNCHANGED <<current, saved, failures, agent, past>>

\* _session/steering: the agent takes it while it prompts.
SteerTaken ==
  LET t == steering.turn
  IN  /\ steering.at = "ask" /\ At(t, {"prompt"}) /\ Alive(t)
      /\ taken' = [taken EXCEPT ![t] = @ \cup {steering.from}]
      /\ steering' = NoSteer
      /\ UNCHANGED <<turns, current, saved, failures, file, agent, strikes, trouble>>

\* It is refused, or nobody is there: the run is cancelled if it is still active.
SteerFails ==
  LET t == steering.turn
  IN  /\ steering.at = "ask"
      /\ turns' = IF current = t THEN [turns EXCEPT ![t] = Cancelled(@)] ELSE turns
      /\ current' = Released(t)
      /\ steering' = NoSteer
      /\ UNCHANGED <<saved, failures, file, agent, past>>

-----------------------------------------------------------------------------
(* The agent's sessions and the gateway *)

Lose ==
  /\ saved \in live /\ Trouble
  /\ live' = live \ {saved}
  /\ UNCHANGED <<turns, current, steering, saved, failures, file, broken, fresh, taken, strikes>>

Break ==
  /\ saved \in live \ broken /\ Trouble
  /\ broken' = broken \cup {saved}
  /\ UNCHANGED <<turns, current, steering, saved, failures, file, live, fresh, taken, strikes>>

Mend ==
  /\ broken # {} /\ broken' = {}
  /\ UNCHANGED <<turns, current, steering, saved, failures, file, live, fresh, past>>

\* The gateway dies: its agents with it.  The actor file stays where it is.
Restart ==
  /\ Trouble
  /\ turns' = [t \in Turn |-> IF At(t, {"none"}) THEN turns[t]
                              ELSE [turns[t] EXCEPT !.pc = "done", !.child = "gone", !.stop = "no"]]
  /\ current' = None /\ steering' = NoSteer /\ failures' = 0
  /\ UNCHANGED <<saved, file, agent, taken, strikes>>

-----------------------------------------------------------------------------
Agent(t) ==
  \/ Initialized(t) \/ Loaded(t) \/ Created(t)
  \/ LoadBreaks(t) \/ LoadBreaksAgain(t) \/ LoadUnavailable(t)
  \/ PromptEnds(t) \/ RequestFails(t)

Local(t)  == DesktopThread(t) \/ Ready(t) \/ Wrapped(t) \/ Disconnected(t) \/ Clean(t)
Timers(t) == SetupTimeout(t) \/ GiveUp(t) \/ GraceOver(t)

Next ==
  \/ \E t \in Turn :
       \/ Agent(t) \/ Local(t) \/ Timers(t) \/ ChildExits(t)
       \/ \E p \in Sender :
            \/ Steer(t, p)
            \/ \E k \in {"prompt", "discover"} : Begin(t, k, p) \/ ActorUnwritten(t, k, p)
  \/ SteerWrites \/ SteerTaken \/ SteerFails
  \/ Lose \/ Break \/ Mend \/ Restart

Spec == Init /\ [][Next]_vars

\* Of the agent no more is expected than that SIGKILL ends it: it may ignore
\* a bare SIGTERM and leave a request without an answer.
FairSpec ==
  /\ Spec
  /\ \A t \in Turn :
       /\ WF_vars(Local(t)) /\ WF_vars(SetupTimeout(t)) /\ WF_vars(GiveUp(t))
       /\ WF_vars(GraceOver(t)) /\ WF_vars(turns[t].stop = "term" /\ ChildExits(t))

-----------------------------------------------------------------------------
(* Properties *)

\* The conversation of a chat goes on in the saved session until the agent
\* no longer has it, or two turns in a row could not load it: no failed
\* prompt, no model command and no restart loses it, unless a turn was given
\* up and goes on while others begin.
ContinuityKept ==
  [][saved # None /\ saved' # saved =>
       \/ saved \notin live \/ strikes' >= 2
       \/ \E t \in Underway : ~ turns[t].alone \/ turns[t].start = "failed"]_vars

\* While a turn that began alone is the active one, its tools find the actor
\* file, and it never names anyone but the one sender of all its messages.
SenderIsKnown ==
  \A t \in Turn :
    current = t /\ turns[t].alone /\ At(t, {"load", "reload", "new", "model", "prompt"}) =>
      file = Unknown \/ taken[t] = {file}

\* Every prompt settles and leaves no process behind, whatever the agent
\* does, once the controller is through with it, and with a timer of the run
\* in any case; a discovery, which may stay with an agent that ignores
\* SIGTERM, at least lets the controller go on.
EveryTurnEnds ==
  \A t \in Turn :
    /\ Prompts(t) /\ t \in Underway /\ (Timed \/ current # t) ~>
         turns[t].pc = "done" /\ ~ Alive(t)
    /\ ~ Prompts(t) /\ current = t ~> current # t
=============================================================================
