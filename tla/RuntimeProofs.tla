--------------------------- MODULE RuntimeProofs ---------------------------
(* Proofs about the two runtime drivers.
   The Codex driver, for every number of turns, senders and troubles: the
   conversation goes on in its session and a tool call finds its sender, as
   long as no turn was given up.
   The OpenClaw driver and the channel plugin, for every number of runs,
   posted messages, records and faults: no output of another's is lost with
   an acknowledgement, and no run of the gateway's own is mirrored.          *)
EXTENDS CodexTurn, OpenClawBridge, SequenceTheorems, TLAPS

-----------------------------------------------------------------------------
(* The turns of the Codex driver *)

(* The inductive invariant *)

\* Of two turns under way, one began while the other was.
Overlap == \A t, u \in Underway : t # u => ~ (turns[t].alone /\ turns[u].alone)

\* The active turn is under way; one that began alone still is, and the file is its own.
CurrentOK ==
  current # None =>
    /\ current \in Underway
    /\ turns[current].alone => Underway = {current} /\ file = turns[current].actor

\* A turn that sets up is waited for, unless its setup was given up.
SetupOK ==
  \A t \in Turn : At(t, Setup) /\ turns[t].start # "failed" =>
    current = t /\ turns[t].start = "waiting"

\* Such a turn makes a session only if none is saved, and loads only the saved one.
SessionOK ==
  \A t \in Turn : turns[t].alone /\ turns[t].start # "failed" =>
    /\ At(t, {"thread", "new"}) => saved = None
    /\ At(t, {"load", "reload"}) => saved = turns[t].session /\ saved # None

\* While a steer is under way no other turn is active, and its turn knows that it has no longer
\* one sender.
SteerOK ==
  /\ steering.turn = None <=> steering.at = "none"
  /\ steering.turn # None =>
       /\ current \in {None, steering.turn} /\ turns[steering.turn].start = "ready"
       /\ steering.from \in Sender
  /\ steering.at = "ask" => turns[steering.turn].actor \in {Unknown, steering.from}

\* What a turn knows of its sender is true.
ActorOK == \A t \in Underway : turns[t].actor = Unknown \/ taken[t] = {turns[t].actor}

\* The driver counts no failure that did not happen.
CountOK == failures <= strikes

CodexInv ==
  TypeOK /\ Overlap /\ CurrentOK /\ SetupOK /\ SessionOK /\ SteerOK /\ ActorOK /\ CountOK

-----------------------------------------------------------------------------
(* Rows *)

\* The bounds are numbers, and a turn is not None.
LEMMA Constants ==
  MaxTurns \in Nat /\ MaxTrouble \in Nat /\ Unknown \notin Sender
  /\ (\A t \in Turn : t # None) /\ Turn \subseteq Nat
  BY CodexAssumption DEF Turn, None

\* Settling the start of a turn leaves a turn.
LEMMA StartTyped ==
  ASSUME NEW r \in TurnState, NEW s \in {"no", "waiting", "ready", "failed"}
  PROVE  [r EXCEPT !.start = s] \in TurnState
  BY DEF TurnState

\* The bound of the trouble holds.
LEMMA Troubled == trouble \in 0..MaxTrouble /\ Trouble => trouble' \in 0..MaxTrouble
  BY Constants DEF Trouble

\* What the ways to stop the process, a failure and a cancellation change of a turn.
LEMMA Rows ==
  ASSUME NEW r \in TurnState
  PROVE  /\ /\ Terminated(r) \in TurnState /\ Terminated(r).pc = r.pc
            /\ Terminated(r).session = r.session /\ Terminated(r).start = r.start
            /\ Terminated(r).actor = r.actor /\ Terminated(r).alone = r.alone
         /\ /\ Asked(r) \in TurnState /\ Asked(r).pc = r.pc
            /\ Asked(r).session = r.session /\ Asked(r).start = r.start
            /\ Asked(r).actor = r.actor /\ Asked(r).alone = r.alone
         /\ /\ Stopped(r) \in TurnState /\ Stopped(r).pc = r.pc
            /\ Stopped(r).session = r.session /\ Stopped(r).start = r.start
            /\ Stopped(r).actor = r.actor /\ Stopped(r).alone = r.alone
         /\ /\ Failed(r) \in TurnState /\ Failed(r).pc = "clean"
            /\ Failed(r).start = IF r.start = "waiting" THEN "failed" ELSE r.start
            /\ Failed(r).actor = r.actor /\ Failed(r).alone = r.alone
         /\ /\ Cancelled(r) \in TurnState /\ Cancelled(r).pc = r.pc
            /\ Cancelled(r).session = r.session /\ Cancelled(r).start = r.start
            /\ Cancelled(r).actor = r.actor /\ Cancelled(r).alone = r.alone
<1>1. /\ Terminated(r) \in TurnState /\ Terminated(r).pc = r.pc
      /\ Terminated(r).session = r.session /\ Terminated(r).start = r.start
      /\ Terminated(r).actor = r.actor /\ Terminated(r).alone = r.alone
  BY DEF Terminated, TurnState
<1>2. /\ Asked(r) \in TurnState /\ Asked(r).pc = r.pc
      /\ Asked(r).session = r.session /\ Asked(r).start = r.start
      /\ Asked(r).actor = r.actor /\ Asked(r).alone = r.alone
  BY DEF Asked, TurnState
<1>3. /\ Stopped(r) \in TurnState /\ Stopped(r).pc = r.pc
      /\ Stopped(r).session = r.session /\ Stopped(r).start = r.start
      /\ Stopped(r).actor = r.actor /\ Stopped(r).alone = r.alone
  BY <1>1, <1>2 DEF Stopped
<1>4. /\ Failed(r) \in TurnState /\ Failed(r).pc = "clean"
      /\ Failed(r).start = IF r.start = "waiting" THEN "failed" ELSE r.start
      /\ Failed(r).actor = r.actor /\ Failed(r).alone = r.alone
  <2>1. PICK q \in TurnState : q = Stopped(r)
    BY <1>3
  <2>2. Failed(r) = [q EXCEPT !.pc = "clean", !.start = IF @ = "waiting" THEN "failed" ELSE @]
    BY <2>1 DEF Failed
  <2>3. q.start = r.start /\ q.actor = r.actor /\ q.alone = r.alone
    BY <1>3, <2>1
  <2>4. PICK start \in {"no", "waiting", "ready", "failed"} :
          start = IF q.start = "waiting" THEN "failed" ELSE q.start
    BY DEF TurnState
  <2>5. Failed(r) = [q EXCEPT !.pc = "clean", !.start = start]
    BY <2>2, <2>4
  <2>6. [q EXCEPT !.pc = "clean", !.start = start] \in TurnState
    <3>1. PICK p \in TurnState : p = [q EXCEPT !.pc = "clean"]
      BY DEF TurnState
    <3>2. QED
      BY <3>1, StartTyped
  <2>7. /\ Failed(r).pc = "clean" /\ Failed(r).start = start
        /\ Failed(r).actor = q.actor /\ Failed(r).alone = q.alone
    BY <2>5 DEF TurnState
  <2>8. QED
    BY <2>3, <2>4, <2>5, <2>6, <2>7
<1>5. /\ Cancelled(r) \in TurnState /\ Cancelled(r).pc = r.pc
      /\ Cancelled(r).session = r.session /\ Cancelled(r).start = r.start
      /\ Cancelled(r).actor = r.actor /\ Cancelled(r).alone = r.alone
  BY DEF Cancelled, TurnState
<1>6. QED
  BY <1>1, <1>2, <1>3, <1>4, <1>5

\* Writing one turn leaves the others.
LEMMA OneTurn ==
  ASSUME turns \in [Turn -> TurnState], NEW t \in Turn, NEW entry \in TurnState,
         turns' = [turns EXCEPT ![t] = entry]
  PROVE  /\ turns' \in [Turn -> TurnState] /\ turns'[t] = entry
         /\ \A u \in Turn : turns'[u] = IF u = t THEN entry ELSE turns[u]
  OBVIOUS

\* The other variables have their types.
RestTyped ==
  /\ steering \in [turn : Turn \cup {None}, from : Sender \cup {Unknown},
                   at : {"none", "write", "ask"}]
  /\ saved \in Session \cup {None} /\ failures \in Nat
  /\ file \in Sender \cup {Unknown, Absent}
  /\ live \subseteq Session /\ broken \subseteq Session /\ fresh \in Session \cup {None}
  /\ taken \in [Turn -> SUBSET Sender] /\ strikes \in Nat /\ trouble \in 0..MaxTrouble

\* A turn moves on: it keeps its sender, is not waited for once it is done, waits for its setup
\* as before, loads what is saved, and writes the file only when nobody alone is active.
LEMMA Moves ==
  ASSUME CodexInv, NEW t \in Turn, NEW entry \in TurnState, turns' = [turns EXCEPT ![t] = entry],
         entry.alone = turns[t].alone, entry.actor = turns[t].actor,
         entry.pc = turns[t].pc \/ (t \in Underway /\ entry.pc # "none"),
         current' = current \/ (current = t /\ current' = None),
         entry.pc = "done" => current' # t,
         entry.pc \in Setup /\ entry.start # "failed" =>
           turns[t].pc \in Setup /\ entry.start = turns[t].start /\ current' = current,
         entry.start = turns[t].start \/ turns[t].start = "waiting",
         saved' = saved \/ t \in Underway,
         entry.alone /\ entry.start # "failed" =>
           /\ entry.pc \in {"thread", "new"} => saved' = None
           /\ entry.pc \in {"load", "reload"} => saved' = entry.session /\ saved' # None,
         file' = file \/ (t \in Underway /\ current' # t),
         steering' = steering \/ steering' = NoSteer,
         taken' = taken, failures' <= strikes', RestTyped'
  PROVE  CodexInv'
<1>1. /\ turns' \in [Turn -> TurnState] /\ turns'[t] = entry
      /\ \A u \in Turn : turns'[u] = IF u = t THEN entry ELSE turns[u]
  BY OneTurn DEF CodexInv, TypeOK
<1>2. \A u \in Turn : turns'[u].alone = turns[u].alone /\ turns'[u].actor = turns[u].actor
  BY <1>1
<1>3. \A u \in Turn : u \in Underway' => u \in Underway
  BY <1>1 DEF Underway, At
<1>4. Underway' \subseteq Turn /\ Underway \subseteq Turn
  BY DEF Underway
<1>5. TypeOK'
  BY <1>1 DEF CodexInv, TypeOK, RestTyped
<1>6. Overlap'
  BY <1>2, <1>3, <1>4 DEF CodexInv, Overlap
<1>7. CurrentOK'
  <2> SUFFICES ASSUME current' # None
               PROVE  /\ current' \in Underway'
                      /\ turns'[current'].alone =>
                           Underway' = {current'} /\ file' = turns'[current'].actor
    BY DEF CurrentOK
  <2>1. current' = current /\ current \in Underway /\ current \in Turn
    BY <1>4 DEF CodexInv, CurrentOK
  <2>2. current' \in Underway'
    BY <1>1, <2>1 DEF Underway, At
  <2>3. ASSUME turns'[current'].alone
        PROVE  Underway' = {current'} /\ file' = turns'[current'].actor
    <3>1. Underway = {current} /\ file = turns[current].actor
      BY <1>2, <2>1, <2>3 DEF CodexInv, CurrentOK
    <3>2. Underway' = {current'}
      BY <1>3, <1>4, <2>1, <2>2, <3>1
    <3>3. file' = file
      BY <2>1, <3>1
    <3>4. QED
      BY <1>2, <2>1, <3>1, <3>2, <3>3
  <2>4. QED
    BY <2>2, <2>3
<1>8. SetupOK'
  BY <1>1 DEF CodexInv, SetupOK, At
<1>9. SessionOK'
  <2> SUFFICES ASSUME NEW u \in Turn, turns'[u].alone, turns'[u].start # "failed"
               PROVE  /\ At(u, {"thread", "new"})' => saved' = None
                      /\ At(u, {"load", "reload"})' =>
                           saved' = turns'[u].session /\ saved' # None
    BY DEF SessionOK
  <2>1. CASE u = t
    BY <1>1, <2>1 DEF At
  <2>2. CASE u # t /\ saved' = saved
    BY <1>1, <2>2 DEF CodexInv, SessionOK, At
  <2>3. CASE u # t /\ t \in Underway
    <3>1. turns'[u] = turns[u]
      BY <1>1, <2>3
    <3>2. SUFFICES ASSUME At(u, Setup) PROVE FALSE
      BY <3>1 DEF At, Setup
    <3>3. current = u
      BY <3>1, <3>2 DEF CodexInv, SetupOK
    <3>4. Underway = {u}
      BY <3>1, <3>3, Constants DEF CodexInv, CurrentOK
    <3>5. QED
      BY <2>3, <3>4
  <2>4. QED
    BY <2>1, <2>2, <2>3
<1>10. SteerOK'
  <2>1. CASE steering' = NoSteer
    BY <2>1 DEF SteerOK, NoSteer
  <2>2. CASE steering' = steering
    <3>1. steering.turn \in Turn \cup {None}
      BY DEF CodexInv, TypeOK
    <3>2. steering.turn # None => turns'[steering.turn].start = "ready"
      BY <1>1, <3>1 DEF CodexInv, SteerOK
    <3>3. steering.at = "ask" => turns'[steering.turn].actor = turns[steering.turn].actor
      BY <1>2, <3>1 DEF CodexInv, SteerOK
    <3>4. QED
      BY <2>2, <3>2, <3>3 DEF CodexInv, SteerOK
  <2>3. QED
    BY <2>1, <2>2
<1>11. ActorOK'
  BY <1>2, <1>3, <1>4 DEF CodexInv, ActorOK
<1>12. CountOK'
  BY DEF CountOK
<1>13. QED
  BY <1>5, <1>6, <1>7, <1>8, <1>9, <1>10, <1>11, <1>12 DEF CodexInv

-----------------------------------------------------------------------------
(* Each step of a turn moves it on *)

\* What a turn that was begun is: it is under way until it is done.
LEMMA AtUnderway ==
  ASSUME NEW t \in Turn, NEW pcs, At(t, pcs), "none" \notin pcs, "done" \notin pcs
  PROVE  t \in Underway /\ turns[t].pc \in pcs
  BY DEF At, Underway

\* The driver's own continuations.
LEMMA InitializedMoves ==
  ASSUME CodexInv, NEW t \in Turn, Initialized(t)
  PROVE  CodexInv'
<1>1. turns \in [Turn -> TurnState] /\ turns[t] \in TurnState /\ saved \in Session \cup {None}
  BY DEF CodexInv, TypeOK
<1>2. PICK pc \in {"load", "new", "thread"} :
        /\ pc = "load" <=> saved # None
        /\ turns' = [turns EXCEPT ![t].pc = pc, ![t].session = saved]
  BY DEF Initialized
<1>3. PICK entry \in TurnState : entry = [turns[t] EXCEPT !.pc = pc, !.session = saved]
  BY <1>1 DEF TurnState
<1>4. /\ entry.pc = pc /\ entry.session = saved /\ entry.alone = turns[t].alone
      /\ entry.actor = turns[t].actor /\ entry.start = turns[t].start
  BY <1>1, <1>3 DEF TurnState
<1>5. turns' = [turns EXCEPT ![t] = entry]
  BY <1>2, <1>3
<1>6. t \in Underway /\ turns[t].pc = "init"
  BY AtUnderway DEF Initialized
<1>7. RestTyped' /\ failures' <= strikes'
  BY DEF Initialized, CodexInv, TypeOK, RestTyped, CountOK, agent, past
<1>8. UNCHANGED <<current, steering, saved, file, taken>>
  BY DEF Initialized, past
<1>9. pc # "none" /\ pc # "done" /\ "init" \in Setup /\ (pc = "load" <=> saved # None)
      /\ pc \in {"load", "new", "thread"}
  BY <1>2 DEF Setup
<1>10. QED
  BY <1>1, <1>4, <1>5, <1>6, <1>7, <1>8, <1>9, Moves

LEMMA DesktopThreadMoves ==
  ASSUME CodexInv, NEW t \in Turn, DesktopThread(t)
  PROVE  CodexInv'
<1>1. turns \in [Turn -> TurnState] /\ turns[t] \in TurnState
  BY DEF CodexInv, TypeOK
<1>2. PICK pc \in {"load", "new"}, session \in Session \cup {None} :
        /\ turns' = [turns EXCEPT ![t] = [turns[t] EXCEPT !.pc = pc, !.session = session]]
        /\ pc = "load" => session # None /\ saved' = session
        /\ pc = "new" => saved' = saved
  <2>1. CASE fresh' = fresh + 1 /\ saved' = fresh'
             /\ turns' = [turns EXCEPT ![t].pc = "load", ![t].session = fresh']
    <3>1. fresh' \in Session /\ fresh' # None
      BY <2>1 DEF CodexInv, TypeOK, Session, None
    <3>2. QED
      BY <2>1, <3>1
  <2>2. CASE turns' = [turns EXCEPT ![t].pc = "new"] /\ saved' = saved
    <3>1. [turns[t] EXCEPT !.pc = "new", !.session = turns[t].session]
            = [turns[t] EXCEPT !.pc = "new"]
      BY <1>1 DEF TurnState
    <3>2. turns[t].session \in Session \cup {None}
      BY <1>1 DEF TurnState
    <3>3. QED
      BY <2>2, <3>1, <3>2
  <2>3. QED
    BY <2>1, <2>2 DEF DesktopThread
<1>3. PICK entry \in TurnState : entry = [turns[t] EXCEPT !.pc = pc, !.session = session]
  BY <1>1 DEF TurnState
<1>4. /\ entry.pc = pc /\ entry.session = session /\ entry.alone = turns[t].alone
      /\ entry.actor = turns[t].actor /\ entry.start = turns[t].start
  BY <1>1, <1>3 DEF TurnState
<1>5. turns' = [turns EXCEPT ![t] = entry]
  BY <1>2, <1>3
<1>6. t \in Underway /\ turns[t].pc = "thread"
  BY AtUnderway DEF DesktopThread
<1>7. RestTyped' /\ failures' <= strikes'
  <2>1. /\ fresh' \in Session \cup {None} /\ saved' \in Session \cup {None}
        /\ live' \subseteq Session
    BY DEF DesktopThread, CodexInv, TypeOK, Session, None
  <2>2. UNCHANGED <<current, steering, failures, file, broken, taken, strikes, trouble>>
    BY DEF DesktopThread, past
  <2>3. QED
    BY <2>1, <2>2 DEF CodexInv, TypeOK, RestTyped, CountOK
<1>8. UNCHANGED <<current, steering, file, taken>>
  BY DEF DesktopThread, past
<1>9. entry.alone /\ entry.start # "failed" => saved = None
  BY <1>4, <1>6 DEF CodexInv, SessionOK, At
<1>10. /\ entry.pc # "none" /\ entry.pc # "done" /\ turns[t].pc \in Setup
       /\ entry.alone /\ entry.start # "failed" =>
            /\ entry.pc \in {"thread", "new"} => saved' = None
            /\ entry.pc \in {"load", "reload"} => saved' = entry.session /\ saved' # None
  BY <1>2, <1>4, <1>6, <1>9 DEF Setup
<1>11. QED
  BY <1>4, <1>5, <1>6, <1>7, <1>8, <1>10, Moves

\* A turn has a session and works on, or is a discovery and ends.
LEMMA WorksMoves ==
  ASSUME CodexInv, NEW t \in Turn, At(t, {"load", "reload", "new"}), NEW session \in Session,
         NEW keep, Works(t, session, keep), RestTyped',
         UNCHANGED <<current, steering, file, taken>>
  PROVE  CodexInv'
<1>1. turns \in [Turn -> TurnState] /\ turns[t] \in TurnState
  BY DEF CodexInv, TypeOK
<1>2. PICK entry \in TurnState :
        /\ turns' = [turns EXCEPT ![t] = entry]
        /\ entry.pc \in {"model", "clean"} /\ entry.start = turns[t].start
        /\ entry.alone = turns[t].alone /\ entry.actor = turns[t].actor
  <2>1. PICK r \in TurnState : r = Stopped(turns[t])
    BY <1>1, Rows
  <2>2. /\ r.start = turns[t].start /\ r.alone = turns[t].alone /\ r.actor = turns[t].actor
    BY <1>1, <2>1, Rows
  <2>3. CASE Prompts(t)
    <3>1. PICK entry \in TurnState : entry = [turns[t] EXCEPT !.pc = "model", !.session = session]
      BY <1>1 DEF TurnState
    <3>2. /\ entry.pc = "model" /\ entry.start = turns[t].start
          /\ entry.alone = turns[t].alone /\ entry.actor = turns[t].actor
      BY <1>1, <3>1 DEF TurnState
    <3>3. turns' = [turns EXCEPT ![t] = entry]
      BY <2>3, <3>1 DEF Works
    <3>4. QED
      BY <3>2, <3>3
  <2>4. CASE ~ Prompts(t)
    <3>1. PICK entry \in TurnState : entry = [r EXCEPT !.pc = "clean", !.session = session]
      BY DEF TurnState
    <3>2. /\ entry.pc = "clean" /\ entry.start = r.start
          /\ entry.alone = r.alone /\ entry.actor = r.actor
      BY <3>1 DEF TurnState
    <3>3. turns' = [turns EXCEPT ![t] = entry]
      BY <2>1, <2>4, <3>1 DEF Works
    <3>4. QED
      BY <2>2, <3>2, <3>3
  <2>5. QED
    BY <2>3, <2>4
<1>3. t \in Underway /\ turns[t].pc \in Setup
  BY AtUnderway DEF Setup
<1>4. failures' <= strikes'
  BY DEF Works, CodexInv, CountOK, TypeOK
<1>5. QED
  BY <1>2, <1>3, <1>4, Moves

LEMMA LoadedMoves ==
  ASSUME CodexInv, NEW t \in Turn, Loaded(t)
  PROVE  CodexInv'
<1>1. turns[t].session \in Session /\ At(t, {"load", "reload", "new"})
  BY DEF Loaded, CodexInv, TypeOK, At
<1>2. Works(t, turns[t].session, TRUE) /\ UNCHANGED <<current, steering, file, taken>>
  BY DEF Loaded
<1>3. RestTyped'
  BY <1>1 DEF Loaded, Works, CodexInv, TypeOK, RestTyped, agent
<1>4. QED
  BY <1>1, <1>2, <1>3, WorksMoves

LEMMA CreatedMoves ==
  ASSUME CodexInv, NEW t \in Turn, Created(t)
  PROVE  CodexInv'
<1>1. fresh' \in Session
  BY DEF Created, CodexInv, TypeOK, Session, None
<1>2. At(t, {"load", "reload", "new"}) /\ Works(t, fresh', Prompts(t))
      /\ UNCHANGED <<current, steering, file, taken>>
  BY DEF Created, At
<1>3. RestTyped'
  BY <1>1 DEF Created, Works, CodexInv, TypeOK, RestTyped
<1>4. QED
  BY <1>1, <1>2, <1>3, WorksMoves

\* The next await of a turn: its session and its start stay.
LEMMA StepRow ==
  ASSUME NEW r \in TurnState,
         NEW pc \in {"reload", "new", "prompt", "wrap", "clean", "done"}
  PROVE  /\ [r EXCEPT !.pc = pc] \in TurnState
         /\ [r EXCEPT !.pc = pc].pc = pc /\ [r EXCEPT !.pc = pc].session = r.session
         /\ [r EXCEPT !.pc = pc].start = r.start /\ [r EXCEPT !.pc = pc].alone = r.alone
         /\ [r EXCEPT !.pc = pc].actor = r.actor
  BY DEF TurnState

LEMMA LoadBreaksMoves ==
  ASSUME CodexInv, NEW t \in Turn, LoadBreaks(t)
  PROVE  CodexInv'
<1>1. turns \in [Turn -> TurnState] /\ turns[t] \in TurnState
  BY DEF CodexInv, TypeOK
<1>2. PICK entry \in TurnState : entry = [turns[t] EXCEPT !.pc = "reload"]
  BY <1>1, StepRow
<1>3. /\ entry.pc = "reload" /\ entry.session = turns[t].session /\ entry.start = turns[t].start
      /\ entry.alone = turns[t].alone /\ entry.actor = turns[t].actor
  BY <1>1, <1>2, StepRow
<1>4. turns' = [turns EXCEPT ![t] = entry]
  BY <1>2 DEF LoadBreaks
<1>5. t \in Underway /\ turns[t].pc = "load" /\ "load" \in Setup
  BY AtUnderway DEF LoadBreaks, Setup
<1>6. RestTyped' /\ failures' <= strikes'
  BY DEF LoadBreaks, CodexInv, TypeOK, RestTyped, CountOK, agent, past
<1>7. UNCHANGED <<current, steering, saved, file, taken>>
  BY DEF LoadBreaks, past
<1>8. turns[t].alone /\ turns[t].start # "failed" => saved = turns[t].session /\ saved # None
  BY <1>5 DEF CodexInv, SessionOK, At
<1>9. QED
  BY <1>3, <1>4, <1>5, <1>6, <1>7, <1>8, Moves

LEMMA LoadBreaksAgainMoves ==
  ASSUME CodexInv, NEW t \in Turn, LoadBreaksAgain(t)
  PROVE  CodexInv'
<1>1. turns \in [Turn -> TurnState] /\ turns[t] \in TurnState
  BY DEF CodexInv, TypeOK
<1>2. t \in Underway /\ turns[t].pc = "reload" /\ "reload" \in Setup
  BY AtUnderway DEF LoadBreaksAgain, Setup
<1>3. failures' \in Nat /\ strikes' \in Nat /\ failures' <= strikes'
  BY DEF LoadBreaksAgain, CodexInv, TypeOK, CountOK
<1>4. RestTyped' /\ UNCHANGED <<steering, file, taken>>
  BY <1>3 DEF LoadBreaksAgain, CodexInv, TypeOK, RestTyped, agent
<1>5. CASE turns' = [turns EXCEPT ![t].pc = "new"] /\ saved' = None /\ current' = current
  <2>1. PICK entry \in TurnState : entry = [turns[t] EXCEPT !.pc = "new"]
    BY <1>1, StepRow
  <2>2. /\ entry.pc = "new" /\ entry.start = turns[t].start
        /\ entry.alone = turns[t].alone /\ entry.actor = turns[t].actor
    BY <1>1, <2>1, StepRow
  <2>3. turns' = [turns EXCEPT ![t] = entry]
    BY <1>5, <2>1
  <2>4. QED
    BY <1>2, <1>3, <1>4, <1>5, <2>2, <2>3, Moves
<1>6. CASE /\ turns' = [turns EXCEPT ![t] = Failed(turns[t])] /\ saved' = saved
           /\ current' = IF Prompts(t) THEN Released(t) ELSE current
  <2>1. PICK entry \in TurnState : entry = Failed(turns[t])
    BY <1>1, Rows
  <2>2. /\ entry.pc = "clean" /\ entry.alone = turns[t].alone /\ entry.actor = turns[t].actor
        /\ entry.start = turns[t].start \/ turns[t].start = "waiting"
    BY <1>1, <2>1, Rows
  <2>3. current' = current \/ (current = t /\ current' = None)
    BY <1>6 DEF Released
  <2>4. "clean" \notin Setup
    BY DEF Setup
  <2>5. QED
    BY <1>2, <1>3, <1>4, <1>6, <2>1, <2>2, <2>3, <2>4, Moves
<1>7. QED
  BY <1>5, <1>6 DEF LoadBreaksAgain

LEMMA LoadUnavailableMoves ==
  ASSUME CodexInv, NEW t \in Turn, LoadUnavailable(t)
  PROVE  CodexInv'
<1>1. turns \in [Turn -> TurnState] /\ turns[t] \in TurnState
  BY DEF CodexInv, TypeOK
<1>2. PICK entry \in TurnState : entry = [turns[t] EXCEPT !.pc = "new"]
  BY <1>1, StepRow
<1>3. /\ entry.pc = "new" /\ entry.start = turns[t].start
      /\ entry.alone = turns[t].alone /\ entry.actor = turns[t].actor
  BY <1>1, <1>2, StepRow
<1>4. turns' = [turns EXCEPT ![t] = entry] /\ saved' = None
  BY <1>2 DEF LoadUnavailable
<1>5. t \in Underway /\ turns[t].pc \in Setup
  BY AtUnderway DEF LoadUnavailable, Setup
<1>6. RestTyped' /\ failures' <= strikes'
  BY DEF LoadUnavailable, CodexInv, TypeOK, RestTyped, CountOK, agent, past
<1>7. UNCHANGED <<current, steering, file, taken>>
  BY DEF LoadUnavailable, past
<1>8. QED
  BY <1>3, <1>4, <1>5, <1>6, <1>7, Moves
LEMMA ReadyMoves ==
  ASSUME CodexInv, NEW t \in Turn, Ready(t)
  PROVE  CodexInv'
<1>1. turns \in [Turn -> TurnState] /\ turns[t] \in TurnState
  BY DEF CodexInv, TypeOK
<1>2. PICK start \in {"no", "waiting", "ready", "failed"} :
        /\ start = IF turns[t].start = "waiting" THEN "ready" ELSE turns[t].start
        /\ start = turns[t].start \/ turns[t].start = "waiting"
  BY <1>1 DEF TurnState
<1>3. PICK r \in TurnState : r = [turns[t] EXCEPT !.pc = "prompt"]
  BY <1>1, StepRow
<1>4. PICK entry \in TurnState : entry = [r EXCEPT !.start = start]
  BY StartTyped
<1>5. /\ entry.pc = "prompt" /\ entry.start = start
      /\ entry.alone = turns[t].alone /\ entry.actor = turns[t].actor
  BY <1>1, <1>3, <1>4 DEF TurnState
<1>6. turns' = [turns EXCEPT ![t] = entry]
  BY <1>2, <1>3, <1>4 DEF Ready
<1>7. t \in Underway /\ "prompt" \notin Setup
  BY AtUnderway DEF Ready, Setup
<1>8. RestTyped' /\ failures' <= strikes'
  BY DEF Ready, CodexInv, TypeOK, RestTyped, CountOK, agent, past
<1>9. UNCHANGED <<current, steering, saved, file, taken>>
  BY DEF Ready, past
<1>10. QED
  BY <1>2, <1>5, <1>6, <1>7, <1>8, <1>9, Moves

LEMMA PromptEndsMoves ==
  ASSUME CodexInv, NEW t \in Turn, PromptEnds(t)
  PROVE  CodexInv'
<1>1. turns \in [Turn -> TurnState] /\ turns[t] \in TurnState
  BY DEF CodexInv, TypeOK
<1>2. PICK entry \in TurnState : entry = [turns[t] EXCEPT !.pc = "wrap"]
  BY <1>1, StepRow
<1>3. /\ entry.pc = "wrap" /\ entry.start = turns[t].start
      /\ entry.alone = turns[t].alone /\ entry.actor = turns[t].actor
  BY <1>1, <1>2, StepRow
<1>4. turns' = [turns EXCEPT ![t] = entry]
  BY <1>2 DEF PromptEnds
<1>5. t \in Underway /\ "wrap" \notin Setup
  BY AtUnderway DEF PromptEnds, Setup
<1>6. RestTyped' /\ failures' <= strikes'
  BY DEF PromptEnds, CodexInv, TypeOK, RestTyped, CountOK, agent, past
<1>7. UNCHANGED <<current, steering, saved, file, taken>>
  BY DEF PromptEnds, past
<1>8. QED
  BY <1>3, <1>4, <1>5, <1>6, <1>7, Moves

LEMMA WrappedMoves ==
  ASSUME CodexInv, NEW t \in Turn, Wrapped(t)
  PROVE  CodexInv'
<1>1. turns \in [Turn -> TurnState] /\ turns[t] \in TurnState
  BY DEF CodexInv, TypeOK
<1>2. PICK r \in TurnState : r = Terminated(turns[t])
  BY <1>1, Rows
<1>3. PICK entry \in TurnState : entry = [r EXCEPT !.pc = "clean"]
  BY StepRow
<1>4. /\ entry.pc = "clean" /\ entry.start = turns[t].start
      /\ entry.alone = turns[t].alone /\ entry.actor = turns[t].actor
  BY <1>1, <1>2, <1>3, Rows, StepRow
<1>5. turns' = [turns EXCEPT ![t] = entry]
  BY <1>2, <1>3 DEF Wrapped
<1>6. t \in Underway /\ "clean" \notin Setup
  BY AtUnderway DEF Wrapped, Setup
<1>7. RestTyped' /\ failures' <= strikes'
  BY DEF Wrapped, CodexInv, TypeOK, RestTyped, CountOK, agent, past
<1>8. UNCHANGED <<current, steering, saved, file, taken>>
  BY DEF Wrapped, past
<1>9. QED
  BY <1>4, <1>5, <1>6, <1>7, <1>8, Moves

\* A request fails because the agent says so or because it is gone.
LEMMA ThrowsMoves ==
  ASSUME CodexInv, NEW t \in Turn, Throws(t), trouble' \in 0..MaxTrouble
  PROVE  CodexInv'
<1>1. turns \in [Turn -> TurnState] /\ turns[t] \in TurnState
  BY DEF CodexInv, TypeOK
<1>2. PICK entry \in TurnState : entry = Failed(turns[t])
  BY <1>1, Rows
<1>3. /\ entry.pc = "clean" /\ entry.alone = turns[t].alone /\ entry.actor = turns[t].actor
      /\ entry.start = turns[t].start \/ turns[t].start = "waiting"
  BY <1>1, <1>2, Rows
<1>4. turns' = [turns EXCEPT ![t] = entry]
  BY <1>2 DEF Throws
<1>5. current' = current \/ (current = t /\ current' = None)
  BY DEF Throws, Released
<1>6. t \in Underway /\ "clean" \notin Setup
  BY AtUnderway DEF Throws, Setup
<1>7. RestTyped' /\ failures' <= strikes'
  BY DEF Throws, CodexInv, TypeOK, RestTyped, CountOK, agent
<1>8. UNCHANGED <<steering, saved, file, taken>>
  BY DEF Throws
<1>9. QED
  BY <1>3, <1>4, <1>5, <1>6, <1>7, <1>8, Moves

LEMMA CleanMoves ==
  ASSUME CodexInv, NEW t \in Turn, Clean(t)
  PROVE  CodexInv'
<1>1. turns \in [Turn -> TurnState] /\ turns[t] \in TurnState
  BY DEF CodexInv, TypeOK
<1>2. PICK entry \in TurnState : entry = [turns[t] EXCEPT !.pc = "done"]
  BY <1>1, StepRow
<1>3. /\ entry.pc = "done" /\ entry.start = turns[t].start
      /\ entry.alone = turns[t].alone /\ entry.actor = turns[t].actor
  BY <1>1, <1>2, StepRow
<1>4. turns' = [turns EXCEPT ![t] = entry]
  BY <1>2 DEF Clean
<1>5. t \in Underway /\ "done" \notin Setup
  BY AtUnderway DEF Clean, Setup
<1>6. /\ current' = current \/ (current = t /\ current' = None)
      /\ current' # t
  BY Constants DEF Clean, Released
<1>7. RestTyped' /\ failures' <= strikes'
  BY DEF Clean, CodexInv, TypeOK, RestTyped, CountOK, agent, past
<1>8. UNCHANGED <<steering, saved, taken>>
  BY DEF Clean, past
<1>9. QED
  BY <1>3, <1>4, <1>5, <1>6, <1>7, <1>8, Moves

-----------------------------------------------------------------------------
(* Timers and the process *)

LEMMA SetupTimeoutMoves ==
  ASSUME CodexInv, NEW t \in Turn, SetupTimeout(t)
  PROVE  CodexInv'
<1>1. turns \in [Turn -> TurnState] /\ turns[t] \in TurnState
  BY DEF CodexInv, TypeOK
<1>2. PICK r \in TurnState : r = Stopped(turns[t])
  BY <1>1, Rows
<1>3. PICK entry \in TurnState : entry = [r EXCEPT !.start = "failed"]
  BY StartTyped
<1>4. /\ entry.pc = r.pc /\ entry.start = "failed" /\ entry.alone = r.alone /\ entry.actor = r.actor
  BY <1>3 DEF TurnState
<1>5. /\ r.pc = turns[t].pc /\ r.alone = turns[t].alone /\ r.actor = turns[t].actor
  BY <1>1, <1>2, Rows
<1>6. turns' = [turns EXCEPT ![t] = entry] /\ turns[t].start = "waiting"
  BY <1>2, <1>3 DEF SetupTimeout
<1>7. t \in Underway /\ turns[t].pc \in Setup /\ "done" \notin Setup
  BY AtUnderway DEF SetupTimeout, Setup
<1>8. /\ current' = current \/ (current = t /\ current' = None)
      /\ current' # t
  BY Constants DEF SetupTimeout, Released
<1>9. RestTyped' /\ failures' <= strikes'
  BY DEF SetupTimeout, CodexInv, TypeOK, RestTyped, CountOK, agent, past
<1>10. UNCHANGED <<steering, saved, taken>>
  BY DEF SetupTimeout, past
<1>11. QED
  BY <1>4, <1>5, <1>6, <1>7, <1>8, <1>9, <1>10, Moves

\* A step that concerns the process of a turn, or the controller's wait for one that prompts.
LEMMA Stays ==
  ASSUME CodexInv, NEW t \in Turn, NEW entry \in TurnState, turns' = [turns EXCEPT ![t] = entry],
         entry.pc = turns[t].pc, entry.session = turns[t].session, entry.start = turns[t].start,
         entry.alone = turns[t].alone, entry.actor = turns[t].actor,
         current' = current \/ (current = t /\ current' = None /\ entry.pc \notin Setup),
         steering' = steering \/ steering' = NoSteer,
         trouble' \in 0..MaxTrouble,
         UNCHANGED <<saved, failures, file, agent, taken, strikes>>
  PROVE  CodexInv'
<1>1. entry.pc = "done" => current' # t
  BY Constants DEF CodexInv, CurrentOK, Underway, At
<1>2. entry.alone /\ entry.start # "failed" =>
        /\ entry.pc \in {"thread", "new"} => saved' = None
        /\ entry.pc \in {"load", "reload"} => saved' = entry.session /\ saved' # None
  BY DEF CodexInv, SessionOK, At
<1>3. NoSteer \in [turn : Turn \cup {None}, from : Sender \cup {Unknown},
                   at : {"none", "write", "ask"}]
  BY DEF NoSteer
<1>4. RestTyped' /\ failures' <= strikes'
  BY <1>3 DEF CodexInv, TypeOK, RestTyped, CountOK, agent
<1>5. current' = current \/ (current = t /\ current' = None)
  OBVIOUS
<1>6. entry.pc \in Setup /\ entry.start # "failed" =>
        turns[t].pc \in Setup /\ entry.start = turns[t].start /\ current' = current
  OBVIOUS
<1>7. QED
  BY <1>1, <1>2, <1>4, <1>5, <1>6, Moves

LEMMA GiveUpMoves ==
  ASSUME CodexInv, NEW t \in Turn, GiveUp(t)
  PROVE  CodexInv'
<1>1. turns \in [Turn -> TurnState] /\ turns[t] \in TurnState /\ trouble \in 0..MaxTrouble
  BY DEF CodexInv, TypeOK
<1>2. PICK entry \in TurnState : entry = Cancelled(turns[t])
  BY <1>1, Rows
<1>3. /\ entry.pc = turns[t].pc /\ entry.session = turns[t].session /\ entry.start = turns[t].start
      /\ entry.alone = turns[t].alone /\ entry.actor = turns[t].actor
  BY <1>1, <1>2, Rows
<1>4. turns' = [turns EXCEPT ![t] = entry]
  BY <1>2 DEF GiveUp
<1>5. current = t /\ current' = None /\ turns[t].pc \notin Setup
  BY DEF GiveUp, At, Setup
<1>6. UNCHANGED <<steering, saved, failures, file, agent, taken, strikes, trouble>>
  BY DEF GiveUp, past
<1>7. QED
  BY <1>1, <1>3, <1>4, <1>5, <1>6, Stays

LEMMA GraceOverMoves ==
  ASSUME CodexInv, NEW t \in Turn, GraceOver(t)
  PROVE  CodexInv'
<1>1. turns \in [Turn -> TurnState] /\ turns[t] \in TurnState /\ trouble \in 0..MaxTrouble
  BY DEF CodexInv, TypeOK
<1>2. PICK entry \in TurnState : entry = Terminated(turns[t])
  BY <1>1, Rows
<1>3. /\ entry.pc = turns[t].pc /\ entry.session = turns[t].session /\ entry.start = turns[t].start
      /\ entry.alone = turns[t].alone /\ entry.actor = turns[t].actor
  BY <1>1, <1>2, Rows
<1>4. turns' = [turns EXCEPT ![t] = entry]
  BY <1>2 DEF GraceOver
<1>5. UNCHANGED <<current, steering, saved, failures, file, agent, taken, strikes, trouble>>
  BY DEF GraceOver, past
<1>6. QED
  BY <1>1, <1>3, <1>4, <1>5, Stays

LEMMA ChildExitsMoves ==
  ASSUME CodexInv, NEW t \in Turn, ChildExits(t)
  PROVE  CodexInv'
<1>1. turns \in [Turn -> TurnState] /\ turns[t] \in TurnState
  BY DEF CodexInv, TypeOK
<1>2. PICK entry \in TurnState : entry = [turns[t] EXCEPT !.child = "gone", !.stop = "no"]
  BY <1>1 DEF TurnState
<1>3. /\ entry.pc = turns[t].pc /\ entry.session = turns[t].session /\ entry.start = turns[t].start
      /\ entry.alone = turns[t].alone /\ entry.actor = turns[t].actor
  BY <1>1, <1>2 DEF TurnState
<1>4. turns' = [turns EXCEPT ![t] = entry]
  BY <1>2 DEF ChildExits
<1>5. trouble' \in 0..MaxTrouble
  BY Constants DEF ChildExits, Trouble, CodexInv, TypeOK
<1>6. UNCHANGED <<current, steering, saved, failures, file, agent, taken, strikes>>
  BY DEF ChildExits
<1>7. QED
  BY <1>3, <1>4, <1>5, <1>6, Stays

-----------------------------------------------------------------------------
(* The first step of a turn *)

\* The row of a turn that begins.
LEMMA SpawnedRow ==
  ASSUME NEW kind \in {"prompt", "discover"}, NEW sender \in Sender
  PROVE  /\ Spawned(kind, sender) \in TurnState
         /\ Spawned(kind, sender).pc = "init" /\ Spawned(kind, sender).start = "waiting"
         /\ Spawned(kind, sender).actor = sender
         /\ Spawned(kind, sender).alone = (Underway = {})
<1>1. PICK alone \in BOOLEAN : alone = (Underway = {})
  OBVIOUS
<1>2. Spawned(kind, sender) =
        [NoTurn EXCEPT !.kind = kind, !.pc = "init", !.child = "alive", !.start = "waiting",
                       !.actor = sender, !.alone = alone]
  BY <1>1 DEF Spawned
<1>3. NoTurn \in TurnState
  BY DEF NoTurn, TurnState
<1>4. PICK entry \in TurnState :
        entry = [NoTurn EXCEPT !.kind = kind, !.pc = "init", !.child = "alive"]
  BY <1>3 DEF TurnState
<1>5. PICK next \in TurnState : next = [entry EXCEPT !.start = "waiting"]
  BY StartTyped
<1>6. Spawned(kind, sender) = [next EXCEPT !.actor = sender, !.alone = alone]
  BY <1>2, <1>4, <1>5
<1>7. entry.pc = "init" /\ next.pc = entry.pc /\ next.start = "waiting"
  BY <1>3, <1>4, <1>5 DEF TurnState
<1>8. QED
  BY <1>1, <1>6, <1>7 DEF TurnState

\* A turn begins when none is active and no steer is under way.
LEMMA BeginKeeps ==
  ASSUME CodexInv, NEW t \in Turn, NEW kind \in {"prompt", "discover"}, NEW sender \in Sender,
         Begin(t, kind, sender)
  PROVE  CodexInv'
<1>1. turns \in [Turn -> TurnState] /\ taken \in [Turn -> SUBSET Sender]
  BY DEF CodexInv, TypeOK
<1>2. PICK entry \in TurnState :
        /\ turns' = [turns EXCEPT ![t] = entry] /\ entry.pc = "init" /\ entry.start = "waiting"
        /\ entry.actor = sender /\ (entry.alone <=> Underway = {})
  BY SpawnedRow DEF Begin
<1>3. /\ turns' \in [Turn -> TurnState] /\ turns'[t] = entry
      /\ \A u \in Turn : turns'[u] = IF u = t THEN entry ELSE turns[u]
  BY <1>1, <1>2, OneTurn
<1>4. t \notin Underway /\ Underway' = Underway \cup {t}
  BY <1>2, <1>3 DEF Begin, NextTurn, Underway, At
<1>5. Underway \subseteq Turn
  BY DEF Underway
<1>6. /\ current = None /\ current' = t /\ t # None /\ file' = sender
      /\ steering = NoSteer /\ steering' = NoSteer
      /\ UNCHANGED <<saved, failures, live, broken, fresh, strikes, trouble>>
  BY Constants DEF Begin, Idle, agent
<1>7. /\ taken' \in [Turn -> SUBSET Sender]
      /\ \A u \in Turn : taken'[u] = IF u = t THEN {sender} ELSE taken[u]
  BY <1>1 DEF Begin
<1>8. TypeOK'
  BY <1>3, <1>6, <1>7 DEF CodexInv, TypeOK
<1>9. Overlap'
  <2>1. ASSUME NEW u \in Underway, turns'[t].alone PROVE FALSE
    BY <1>2, <1>3, <2>1
  <2>2. \A u \in Underway : u # t /\ turns'[u] = turns[u]
    BY <1>3, <1>4, <1>5
  <2>3. QED
    BY <1>4, <2>1, <2>2 DEF CodexInv, Overlap
<1>10. CurrentOK'
  <2>1. turns'[t].alone => Underway' = {t}
    BY <1>2, <1>3, <1>4
  <2>2. QED
    BY <1>2, <1>3, <1>4, <1>6, <2>1 DEF CurrentOK
<1>11. \A u \in Turn : u # t => turns'[u] = turns[u]
  BY <1>3
<1>12. SetupOK'
  BY Constants, <1>2, <1>3, <1>6, <1>11 DEF CodexInv, SetupOK, At
<1>13. SessionOK'
  BY <1>2, <1>3, <1>6, <1>11 DEF CodexInv, SessionOK, At
<1>14. SteerOK'
  BY <1>6 DEF SteerOK, NoSteer
<1>15. ActorOK'
  <2>1. turns'[t].actor = sender /\ taken'[t] = {sender}
    BY <1>2, <1>3, <1>7
  <2>2. \A u \in Underway : turns'[u] = turns[u] /\ taken'[u] = taken[u]
    BY <1>3, <1>4, <1>5, <1>7
  <2>3. QED
    BY <1>4, <2>1, <2>2 DEF CodexInv, ActorOK
<1>16. CountOK'
  BY <1>6 DEF CodexInv, CountOK
<1>17. QED
  BY <1>8, <1>9, <1>10, <1>12, <1>13, <1>14, <1>15, <1>16 DEF CodexInv

\* Without its actor file a turn is over before it begins.
LEMMA ActorUnwrittenKeeps ==
  ASSUME CodexInv, NEW t \in Turn, NEW kind \in {"prompt", "discover"}, NEW sender \in Sender,
         ActorUnwritten(t, kind, sender)
  PROVE  CodexInv'
<1>1. turns \in [Turn -> TurnState]
  BY DEF CodexInv, TypeOK
<1>2. PICK entry \in TurnState :
        turns' = [turns EXCEPT ![t] = entry] /\ entry.pc = "done" /\ entry.start = "failed"
  <2>1. PICK r \in TurnState : r = Asked(Spawned(kind, sender))
    BY SpawnedRow, Rows
  <2>2. PICK q \in TurnState : q = [r EXCEPT !.pc = "done"]
    BY StepRow
  <2>3. PICK entry \in TurnState : entry = [q EXCEPT !.start = "failed"]
    BY StartTyped
  <2>4. entry.pc = "done" /\ entry.start = "failed"
    BY <2>2, <2>3 DEF TurnState
  <2>5. turns' = [turns EXCEPT ![t] = entry]
    BY <2>1, <2>2, <2>3 DEF ActorUnwritten
  <2>6. QED
    BY <2>4, <2>5
<1>3. /\ turns' \in [Turn -> TurnState] /\ turns'[t] = entry
      /\ \A u \in Turn : turns'[u] = IF u = t THEN entry ELSE turns[u]
  BY <1>1, <1>2, OneTurn
<1>4. t \notin Underway /\ Underway' = Underway
  BY <1>2, <1>3 DEF ActorUnwritten, NextTurn, Underway, At
<1>5. Underway \subseteq Turn
  BY DEF Underway
<1>6. /\ current = None /\ steering = NoSteer /\ trouble' \in 0..MaxTrouble
      /\ UNCHANGED <<current, steering, saved, failures, file, live, broken, fresh, taken, strikes>>
  BY Constants DEF ActorUnwritten, Idle, Trouble, agent, CodexInv, TypeOK
<1>7. TypeOK'
  BY <1>3, <1>6 DEF CodexInv, TypeOK
<1>8. \A u \in Turn : u # t => turns'[u] = turns[u]
  BY <1>3
<1>9. Overlap' /\ ActorOK'
  BY <1>4, <1>5, <1>6, <1>8 DEF CodexInv, Overlap, ActorOK
<1>10. CurrentOK' /\ CountOK'
  BY <1>6 DEF CodexInv, CurrentOK, CountOK
<1>11. SetupOK' /\ SessionOK'
  BY <1>2, <1>3, <1>6, <1>8 DEF CodexInv, SetupOK, SessionOK, At, Setup
<1>12. SteerOK'
  BY <1>6 DEF SteerOK, NoSteer
<1>13. QED
  BY <1>7, <1>9, <1>10, <1>11, <1>12 DEF CodexInv

-----------------------------------------------------------------------------
(* Steers *)

LEMMA SteerKeeps ==
  ASSUME CodexInv, NEW t \in Turn, NEW sender \in Sender, Steer(t, sender)
  PROVE  CodexInv'
<1>1. /\ current = t /\ t # None /\ turns[t].start = "ready"
      /\ steering' = [turn |-> t, from |-> sender, at |-> "write"]
      /\ UNCHANGED <<turns, current, saved, failures, file, live, broken, fresh, taken, strikes>>
  BY Constants DEF Steer, agent
<1>2. trouble' \in 0..MaxTrouble
  BY Constants DEF Steer, Trouble, CodexInv, TypeOK
<1>3. TypeOK'
  BY <1>1, <1>2 DEF CodexInv, TypeOK
<1>4. Underway' = Underway
  BY <1>1 DEF Underway, At
<1>5. SteerOK'
  BY <1>1 DEF SteerOK
<1>6. Overlap' /\ CurrentOK' /\ ActorOK' /\ CountOK'
  BY <1>1, <1>4 DEF CodexInv, Overlap, CurrentOK, ActorOK, CountOK
<1>7. SetupOK' /\ SessionOK'
  BY <1>1 DEF CodexInv, SetupOK, SessionOK, At
<1>8. QED
  BY <1>3, <1>5, <1>6, <1>7 DEF CodexInv

\* The turn learns that a second sender is heard before the agent is asked.
LEMMA SteerWritesKeeps ==
  ASSUME CodexInv, SteerWrites
  PROVE  CodexInv'
<1> DEFINE t == steering.turn
<1>1. /\ turns \in [Turn -> TurnState] /\ t \in Turn /\ turns[t] \in TurnState
      /\ steering.from \in Sender \cup {Unknown}
  BY DEF SteerWrites, CodexInv, TypeOK, SteerOK
<1>2. PICK actor \in Sender \cup {Unknown} :
        /\ actor = Provenance(turns[t].actor, steering.from)
        /\ actor \in {Unknown, steering.from} /\ actor \in {Unknown, turns[t].actor}
  BY <1>1 DEF Provenance, TurnState
<1>3. PICK entry \in TurnState : entry = [turns[t] EXCEPT !.actor = actor]
  BY <1>1 DEF TurnState
<1>4. /\ entry.actor = actor /\ entry.pc = turns[t].pc /\ entry.start = turns[t].start
      /\ entry.session = turns[t].session /\ entry.alone = turns[t].alone
  BY <1>1, <1>3 DEF TurnState
<1>5. turns' = [turns EXCEPT ![t] = entry]
  BY <1>2, <1>3 DEF SteerWrites
<1>6. /\ turns' \in [Turn -> TurnState] /\ turns'[t] = entry
      /\ \A u \in Turn : turns'[u] = IF u = t THEN entry ELSE turns[u]
  BY <1>1, <1>5, OneTurn
<1>7. /\ file' = actor /\ steering' = [steering EXCEPT !.at = "ask"]
      /\ UNCHANGED <<current, saved, failures, live, broken, fresh, taken, strikes, trouble>>
  BY <1>4, <1>6 DEF SteerWrites, agent, past
<1>8. /\ steering' \in [turn : Turn \cup {None}, from : Sender \cup {Unknown},
                        at : {"none", "write", "ask"}]
      /\ steering'.turn = t /\ steering'.from = steering.from /\ steering'.at = "ask"
  BY <1>7 DEF CodexInv, TypeOK
<1> HIDE DEF t
<1>9. TypeOK'
  BY <1>6, <1>7, <1>8 DEF CodexInv, TypeOK
<1>10. /\ Underway' = Underway /\ Underway \subseteq Turn
       /\ \A u \in Turn : /\ turns'[u].pc = turns[u].pc /\ turns'[u].start = turns[u].start
                          /\ turns'[u].session = turns[u].session
                          /\ turns'[u].alone = turns[u].alone
  BY <1>4, <1>6 DEF Underway, At
<1>11. t # None /\ current \in {None, t} /\ turns[t].start = "ready" /\ steering.from \in Sender
  BY <1>1, Constants DEF CodexInv, SteerOK, t
<1>12. Overlap' /\ CountOK'
  BY <1>7, <1>10 DEF CodexInv, Overlap, CountOK
<1>13. CurrentOK'
  BY <1>4, <1>6, <1>7, <1>10, <1>11 DEF CodexInv, CurrentOK
<1>14. SetupOK' /\ SessionOK'
  BY <1>7, <1>10 DEF CodexInv, SetupOK, SessionOK, At
<1>15. SteerOK'
  BY <1>2, <1>4, <1>6, <1>7, <1>8, <1>11 DEF SteerOK
<1>16. ActorOK'
  BY <1>2, <1>4, <1>6, <1>7, <1>10 DEF CodexInv, ActorOK
<1>17. QED
  BY <1>9, <1>12, <1>13, <1>14, <1>15, <1>16 DEF CodexInv

LEMMA SteerTakenKeeps ==
  ASSUME CodexInv, SteerTaken
  PROVE  CodexInv'
<1>1. PICK t \in Turn : t = steering.turn
  BY DEF SteerTaken, CodexInv, TypeOK, SteerOK
<1>2. /\ steering.from \in Sender /\ taken \in [Turn -> SUBSET Sender]
      /\ turns[t].actor \in {Unknown, steering.from}
  BY <1>1, Constants DEF SteerTaken, CodexInv, TypeOK, SteerOK
<1>3. /\ taken' = [taken EXCEPT ![t] = taken[t] \cup {steering.from}] /\ steering' = NoSteer
      /\ UNCHANGED <<turns, current, saved, failures, file, live, broken, fresh, strikes, trouble>>
  BY <1>1 DEF SteerTaken, agent
<1>4. /\ taken' \in [Turn -> SUBSET Sender]
      /\ \A u \in Turn : taken'[u] = IF u = t THEN taken[t] \cup {steering.from} ELSE taken[u]
  BY <1>2, <1>3
<1>5. TypeOK'
  BY <1>3, <1>4 DEF CodexInv, TypeOK, NoSteer
<1>6. Underway' = Underway /\ Underway \subseteq Turn
  BY <1>3 DEF Underway, At
<1>7. Overlap' /\ CurrentOK' /\ CountOK'
  BY <1>3, <1>6 DEF CodexInv, Overlap, CurrentOK, CountOK
<1>8. SetupOK' /\ SessionOK'
  BY <1>3 DEF CodexInv, SetupOK, SessionOK, At
<1>9. SteerOK'
  BY <1>3 DEF SteerOK, NoSteer
<1>10. ActorOK'
  BY <1>2, <1>3, <1>4, <1>6 DEF CodexInv, ActorOK
<1>11. QED
  BY <1>5, <1>7, <1>8, <1>9, <1>10 DEF CodexInv

LEMMA SteerFailsKeeps ==
  ASSUME CodexInv, SteerFails
  PROVE  CodexInv'
<1>1. PICK t \in Turn : t = steering.turn
  BY DEF SteerFails, CodexInv, TypeOK, SteerOK
<1>2. /\ turns \in [Turn -> TurnState] /\ turns[t] \in TurnState /\ trouble \in 0..MaxTrouble
      /\ turns[t].start = "ready"
  BY <1>1, Constants DEF SteerFails, CodexInv, TypeOK, SteerOK
<1>3. PICK entry \in TurnState : entry = IF current = t THEN Cancelled(turns[t]) ELSE turns[t]
  BY <1>2, Rows
<1>4. /\ entry.pc = turns[t].pc /\ entry.session = turns[t].session /\ entry.start = turns[t].start
      /\ entry.alone = turns[t].alone /\ entry.actor = turns[t].actor
  BY <1>2, <1>3, Rows
<1>5. turns' = [turns EXCEPT ![t] = entry]
  BY <1>1, <1>2, <1>3 DEF SteerFails
<1>6. entry.pc \notin Setup
  BY <1>2, <1>4 DEF CodexInv, SetupOK, At
<1>7. current' = current \/ (current = t /\ current' = None)
  BY <1>1 DEF SteerFails, Released
<1>8. UNCHANGED <<saved, failures, file, agent, taken, strikes, trouble>> /\ steering' = NoSteer
  BY DEF SteerFails, past
<1>9. QED
  BY <1>2, <1>4, <1>5, <1>6, <1>7, <1>8, Stays

-----------------------------------------------------------------------------
(* The agent's sessions and the gateway *)

\* What the agent can load is no business of the driver.
LEMMA AgentKeeps ==
  ASSUME CodexInv, Lose \/ Break \/ Mend
  PROVE  CodexInv'
<1>1. /\ live' \subseteq Session /\ broken' \subseteq Session /\ trouble' \in 0..MaxTrouble
      /\ UNCHANGED <<turns, current, steering, saved, failures, file, fresh, taken, strikes>>
  BY Constants DEF Lose, Break, Mend, Trouble, CodexInv, TypeOK, past
<1>2. Underway' = Underway /\ TypeOK'
  BY <1>1 DEF Underway, At, CodexInv, TypeOK
<1>3. Overlap' /\ CurrentOK' /\ ActorOK' /\ CountOK'
  BY <1>1, <1>2 DEF CodexInv, Overlap, CurrentOK, ActorOK, CountOK
<1>4. SetupOK' /\ SessionOK' /\ SteerOK'
  BY <1>1 DEF CodexInv, SetupOK, SessionOK, SteerOK, At
<1>5. QED
  BY <1>2, <1>3, <1>4 DEF CodexInv

\* Nothing is under way in a gateway that starts.
LEMMA RestartKeeps ==
  ASSUME CodexInv, Restart
  PROVE  CodexInv'
<1>1. turns \in [Turn -> TurnState]
  BY DEF CodexInv, TypeOK
<1>2. \A t \in Turn : /\ turns'[t] \in TurnState
                       /\ turns'[t].pc \in {"none", "done"}
  <2> SUFFICES ASSUME NEW t \in Turn
               PROVE  turns'[t] \in TurnState /\ turns'[t].pc \in {"none", "done"}
    OBVIOUS
  <2>1. CASE turns[t].pc = "none"
    BY <1>1, <2>1 DEF Restart, At
  <2>2. CASE turns[t].pc # "none"
    <3>1. turns'[t] = [turns[t] EXCEPT !.pc = "done", !.child = "gone", !.stop = "no"]
      BY <2>2 DEF Restart, At
    <3>2. turns[t] \in TurnState
      BY <1>1
    <3>3. QED
      BY <3>1, <3>2 DEF TurnState
  <2>3. QED
    BY <2>1, <2>2
<1>3. turns' \in [Turn -> TurnState]
  BY <1>2 DEF Restart
<1>4. Underway' = {}
  BY <1>2 DEF Underway, At
<1>5. /\ current' = None /\ steering' = NoSteer /\ failures' = 0
      /\ UNCHANGED <<saved, file, live, broken, fresh, taken, strikes>>
  BY DEF Restart, agent
<1>6. TypeOK'
  <2>1. trouble' \in 0..MaxTrouble
    BY Troubled DEF Restart, CodexInv, TypeOK
  <2>2. QED
    BY <1>3, <1>5, <2>1 DEF CodexInv, TypeOK, NoSteer
<1>7. Overlap' /\ CurrentOK' /\ ActorOK' /\ CountOK' /\ SteerOK'
  BY <1>4, <1>5 DEF Overlap, CurrentOK, ActorOK, CountOK, SteerOK, NoSteer, CodexInv, TypeOK
<1>8. SetupOK' /\ SessionOK'
  BY <1>2 DEF SetupOK, SessionOK, At, Setup
<1>9. QED
  BY <1>6, <1>7, <1>8 DEF CodexInv

-----------------------------------------------------------------------------
(* The invariant holds *)

LEMMA CodexInit == Init => CodexInv
<1> SUFFICES ASSUME Init PROVE CodexInv
  OBVIOUS
<1>1. \A t \in Turn : turns[t] = NoTurn /\ NoTurn \in TurnState
  BY DEF Init, NoTurn, TurnState
<1>2. Underway = {}
  BY <1>1 DEF Underway, At, NoTurn
<1>3. TypeOK
  BY <1>1, Constants DEF Init, TypeOK, NoSteer
<1>4. Overlap /\ CurrentOK /\ ActorOK /\ CountOK /\ SteerOK
  BY <1>2 DEF Init, Overlap, CurrentOK, ActorOK, CountOK, SteerOK, NoSteer
<1>5. SetupOK /\ SessionOK
  BY <1>1 DEF SetupOK, SessionOK, At, Setup, NoTurn
<1>6. QED
  BY <1>3, <1>4, <1>5 DEF CodexInv

LEMMA CodexNext == CodexInv /\ [Next]_vars => CodexInv'
<1> SUFFICES ASSUME CodexInv, [Next]_vars PROVE CodexInv'
  OBVIOUS
<1>1. ASSUME NEW t \in Turn, Agent(t) PROVE CodexInv'
  <2>1. ASSUME RequestFails(t) PROVE CodexInv'
    BY <2>1, Constants, ThrowsMoves DEF RequestFails, Trouble, CodexInv, TypeOK
  <2>2. QED
    BY <1>1, <2>1, InitializedMoves, LoadedMoves, CreatedMoves, LoadBreaksMoves,
       LoadBreaksAgainMoves, LoadUnavailableMoves, PromptEndsMoves DEF Agent
<1>2. ASSUME NEW t \in Turn, Local(t) PROVE CodexInv'
  <2>1. ASSUME Disconnected(t) PROVE CodexInv'
    BY <2>1, ThrowsMoves DEF Disconnected, CodexInv, TypeOK
  <2>2. QED
    BY <1>2, <2>1, DesktopThreadMoves, ReadyMoves, WrappedMoves, CleanMoves DEF Local
<1>3. ASSUME NEW t \in Turn, Timers(t) \/ ChildExits(t) PROVE CodexInv'
  BY <1>3, SetupTimeoutMoves, GiveUpMoves, GraceOverMoves, ChildExitsMoves DEF Timers
<1>4. ASSUME NEW t \in Turn, NEW p \in Sender,
             \/ Steer(t, p)
             \/ \E k \in {"prompt", "discover"} : Begin(t, k, p) \/ ActorUnwritten(t, k, p)
      PROVE  CodexInv'
  BY <1>4, SteerKeeps, BeginKeeps, ActorUnwrittenKeeps
<1>5. CASE SteerWrites \/ SteerTaken \/ SteerFails
  BY <1>5, SteerWritesKeeps, SteerTakenKeeps, SteerFailsKeeps
<1>6. CASE Lose \/ Break \/ Mend \/ Restart
  BY <1>6, AgentKeeps, RestartKeeps
<1>7. CASE UNCHANGED vars
  BY <1>7 DEF vars, agent, past, CodexInv, TypeOK, Overlap, CurrentOK, SetupOK, SessionOK, SteerOK,
              ActorOK, CountOK, Underway, At
<1>8. QED
  BY <1>1, <1>2, <1>3, <1>4, <1>5, <1>6, <1>7 DEF Next

LEMMA CodexAlways == Spec => []CodexInv
<1>1. QED
  BY CodexInit, CodexNext, PTL DEF Spec

-----------------------------------------------------------------------------
(* Theorems *)

\* Every variable of the driver keeps its type, whatever the agent does.
THEOREM CodexTypeCorrect == Spec => []TypeOK
<1>1. CodexInv => TypeOK
  BY DEF CodexInv
<1>2. QED
  BY <1>1, CodexAlways, PTL

\* A tool call of the active turn, if that began alone, never learns of another than the sender of
\* all its messages: the actor file of src/runtime/codex-acp.ts says so or says that nobody knows.
THEOREM SenderIsAlwaysKnown == Spec => []SenderIsKnown
<1>1. CodexInv => SenderIsKnown
  <2> SUFFICES ASSUME CodexInv, NEW t \in Turn, current = t, turns[t].alone
               PROVE  file = Unknown \/ taken[t] = {file}
    BY DEF SenderIsKnown
  <2>1. t \in Underway /\ file = turns[t].actor
    BY Constants DEF CodexInv, CurrentOK
  <2>2. QED
    BY <2>1 DEF CodexInv, ActorOK
<1>2. QED
  BY <1>1, CodexAlways, PTL

\* The saved session is left only when the agent has lost it or two turns in a row could not load
\* it, as long as every turn under way began alone and none was given up.
LEMMA ContinuityStep ==
  ASSUME CodexInv, Next, saved # None, saved' # saved
  PROVE  \/ saved \notin live \/ strikes' >= 2
         \/ \E t \in Underway : ~ turns[t].alone \/ turns[t].start = "failed"
<1> SUFFICES ASSUME \A t \in Underway : turns[t].alone /\ turns[t].start # "failed"
             PROVE  saved \notin live \/ strikes' >= 2
  OBVIOUS
<1>1. ASSUME NEW t \in Turn, DesktopThread(t) \/ Created(t) PROVE FALSE
  <2>1. t \in Underway /\ At(t, {"thread", "new"})
    BY <1>1 DEF DesktopThread, Created, At, Underway
  <2>2. QED
    BY <2>1 DEF CodexInv, SessionOK
<1>2. ASSUME NEW t \in Turn, Loaded(t) PROVE FALSE
  <2>1. t \in Underway /\ At(t, {"load", "reload"}) /\ saved' = turns[t].session
    BY <1>2 DEF Loaded, Works, At, Underway
  <2>2. QED
    BY <2>1 DEF CodexInv, SessionOK
<1>3. ASSUME NEW t \in Turn, LoadUnavailable(t) PROVE saved \notin live
  <2>1. t \in Underway /\ At(t, {"load", "reload"}) /\ turns[t].session \notin live
    BY <1>3 DEF LoadUnavailable, At, Underway
  <2>2. QED
    BY <2>1 DEF CodexInv, SessionOK
<1>4. ASSUME NEW t \in Turn, LoadBreaksAgain(t) PROVE strikes' >= 2
  <2>1. Prompts(t) /\ failures' >= 2 /\ failures' = failures + 1 /\ strikes' = strikes + 1
    BY <1>4 DEF LoadBreaksAgain, GivesWay
  <2>2. failures \in Nat /\ strikes \in Nat /\ failures <= strikes
    BY DEF CodexInv, TypeOK, CountOK
  <2>3. QED
    BY <2>1, <2>2
<1>5. CASE \E t \in Turn : Agent(t)
  BY <1>1, <1>2, <1>3, <1>4, <1>5
  DEF Agent, Initialized, LoadBreaks, PromptEnds, RequestFails, Throws
<1>6. CASE \E t \in Turn : Local(t)
  BY <1>1, <1>6 DEF Local, Ready, Wrapped, Disconnected, Throws, Clean
<1>7. CASE \E t \in Turn : Timers(t) \/ ChildExits(t)
  BY <1>7 DEF Timers, SetupTimeout, GiveUp, GraceOver, ChildExits
<1>8. CASE \E t \in Turn, p \in Sender :
             \/ Steer(t, p)
             \/ \E k \in {"prompt", "discover"} : Begin(t, k, p) \/ ActorUnwritten(t, k, p)
  BY <1>8 DEF Steer, Begin, ActorUnwritten
<1>9. CASE \/ SteerWrites \/ SteerTaken \/ SteerFails
           \/ Lose \/ Break \/ Mend \/ Restart
  BY <1>9 DEF SteerWrites, SteerTaken, SteerFails, Lose, Break, Mend, Restart
<1>10. QED
  BY <1>5, <1>6, <1>7, <1>8, <1>9 DEF Next

\* The conversation of a chat goes on in its saved session (src/runtime/codex-acp.ts,
\* src/store.ts) until the agent no longer has it or two turns in a row could not load it, except
\* while some turn under way began during another or had its setup given up: of those the
\* theorem says nothing.
THEOREM ContinuityIsKept == Spec => ContinuityKept
<1>1. CodexInv /\ [Next]_vars =>
        [saved # None /\ saved' # saved =>
           \/ saved \notin live \/ strikes' >= 2
           \/ \E t \in Underway : ~ turns[t].alone \/ turns[t].start = "failed"]_vars
  BY ContinuityStep
<1>2. QED
  BY <1>1, CodexAlways, PTL DEF Spec, ContinuityKept

-----------------------------------------------------------------------------
(* The OpenClaw driver and the plugin *)

\* A record that is still to be acknowledged and that the next poll asks for.
Due(i) == ~ row[i].acked /\ i > observer.after

\* What run r said is in the chat, or it is the twin of a run that ended too early.
Said(r) == Shown(Says[r]) \/ Overtook(Says[r])

\* Nothing is lost with the end of run r.
EndSafe(r) == IF Stored(r, "event") THEN Said(r)
              ELSE run[r] = "failed" => <<r, "end">> \in kept

\* Nothing is lost with record i.
RowSafe(i) ==
  \A r \in Run : row[i].run = r =>
    IF row[i].kind = "final" THEN Said(r) ELSE r \notin Mine => EndSafe(r)

\* Every launch, turn and dispatch that is under way has a run.
RunsOK ==
  /\ launch.at # Nil => launch.run \in Mine
  /\ turn.stage = "open" => turn.run \in Mine
  /\ \A m \in In : inbound[m].at = "running" => inbound[m].run \in Ext

\* A run has said something if there is a record of it, and is over if its end is recorded,
\* which it is once, or if any of its events is acknowledged.
RowsOK ==
  \A i \in DOMAIN row :
    /\ row[i].kind = "event" => run[row[i].run] \notin {Nil, "quiet"}
    /\ row[i].kind = "end" =>
         /\ run[row[i].run] \in Over
         /\ \A j \in DOMAIN row : row[j].run = row[i].run =>
              (row[j].kind = "end" => i = j) /\ (row[j].kind = "event" => j < i)
    /\ row[i].kind # "final" /\ row[i].acked => run[row[i].run] \in Over
    /\ row[i].owned => row[i].run \in Mine

\* What is set aside for the end of a run are records of the run.
HeldOK ==
  \A r \in Run : \A i \in observer.runs[r] : row[i].run = r /\ row[i].kind # "final"

\* The delivery in hand is the first of the page, but for events, and still to be acknowledged.
HandOK ==
  /\ poll.at \in {"output", "ack"} <=> poll.hand # 0
  /\ poll.hand # 0 =>
       /\ row[poll.hand].kind # "event" /\ Due(poll.hand) /\ poll.hand <= poll.last
       /\ \A i \in poll.page : i > poll.hand
       /\ row[poll.hand].kind = "end" => poll.hand \in observer.runs[row[poll.hand].run]

\* While a page is read, every record up to its last that is due is in it, in hand or set aside.
PageOK ==
  poll.at # "idle" =>
    /\ poll.last > observer.after
    /\ \A i \in poll.page : /\ i > observer.after /\ i <= poll.last
                            /\ row[i].kind # "event" => Due(i)
    /\ \A i \in DOMAIN row : i <= poll.last /\ i # poll.hand /\ Due(i) =>
         i \in poll.page \/ (row[i].kind = "event" /\ i \in observer.runs[row[i].run])

\* An event is passed over only when it is set aside.
EventsOK ==
  \A i \in DOMAIN row : row[i].kind = "event" /\ ~ row[i].acked =>
     i > observer.after \/ i \in observer.runs[row[i].run]

\* A text that the driver knows to be its own is that of a turn.
Answer(t) == \E r \in told : Says[r] = t
EchoOK ==
  /\ poll.echo => poll.at = "ack"
  /\ \A t \in Text : ownedText[t] > 0 \/ (poll.echo /\ Says[row[poll.hand].run] = t) => Answer(t)

\* The record by which a text is remembered is the first that is due.
Waits(t, kind) ==
  \E i \in DOMAIN row :
    /\ Due(i) /\ Says[row[i].run] = t
    /\ \/ /\ kind = "agent-event" /\ row[i].kind = "end"
          /\ \E r \in Ext : row[i].run = r /\ Stored(r, "event")
       \/ kind = "message-final" /\ row[i].kind = "final"
    /\ \A j \in DOMAIN row : j < i /\ Due(j) => row[j].kind = "event"

\* A text that is remembered is in the chat, or its record will be tried again.
RecentOK ==
  \A t \in Text, kind \in Twin : observer.recent[t] = kind =>
     Shown(t) \/ Overtook(t) \/ (poll.at # "ack" /\ Waits(t, kind))

\* Nothing is lost with what is acknowledged or about to be.
AckedOK ==
  \A i \in DOMAIN row : row[i].acked \/ (poll.at = "ack" /\ i = poll.hand) => RowSafe(i)

\* The driver knows the runs it follows until their end is acknowledged.
Known(r) == \/ r \in ownedRunIds
            \/ /\ run[r] \in Over
               /\ \A i \in DOMAIN row : row[i].run = r /\ row[i].kind = "end" => row[i].acked
Follows(r) == r = turn.run \/ (launch.at = "accepted" /\ r = launch.run)
KnownOK == \A r \in Mine : Follows(r) => Known(r)

\* A run that was registered in time has no end that is not marked as owned.
MarkedOK ==
  \A i \in DOMAIN row : row[i].kind = "end" /\ row[i].run \in registered \ early => row[i].owned

BridgeInv ==
  /\ BridgeTypeOK /\ RunsOK /\ RowsOK /\ HeldOK /\ HandOK /\ PageOK /\ EventsOK /\ EchoOK
  /\ RecentOK /\ AckedOK /\ KnownOK /\ MarkedOK

-----------------------------------------------------------------------------
(* Records *)

\* The records grow at most by one of run r of this kind, owned if r is one of marks.
Grown(r, kind, marks) ==
  /\ row' \in Seq(Row) /\ DOMAIN row \subseteq DOMAIN row'
  /\ \A i \in DOMAIN row : row'[i] = row[i]
  /\ \A i \in DOMAIN row' \ DOMAIN row :
       /\ \A j \in DOMAIN row : j < i
       /\ \A j \in DOMAIN row' \ DOMAIN row : j = i
       /\ row'[i].run = r /\ row'[i].kind = kind /\ ~ row'[i].acked
       /\ row'[i].owned <=> r \in marks

\* Appending a record of the run is such a growth.
LEMMA AppendGrows ==
  ASSUME row \in Seq(Row), NEW d \in Row, NEW r, NEW kind, NEW marks,
         d.run = r, d.kind = kind, ~ d.acked, d.owned <=> r \in marks, row' = Append(row, d)
  PROVE  Grown(r, kind, marks)
<1>1. /\ row' \in Seq(Row) /\ Len(row') = Len(row) + 1 /\ row'[Len(row) + 1] = d
      /\ \A i \in 1 .. Len(row) : row'[i] = row[i]
  BY AppendProperties
<1>2. DOMAIN row = 1 .. Len(row) /\ DOMAIN row' = 1 .. Len(row') /\ Len(row) \in Nat
  BY <1>1, LenProperties
<1> QED
  BY <1>1, <1>2 DEF Grown

\* So is leaving the records alone.
LEMMA SameGrows ==
  ASSUME row \in Seq(Row), row' = row, NEW r, NEW kind, NEW marks
  PROVE  Grown(r, kind, marks)
  BY DEF Grown

\* Put stores what it is given, or nothing if it is there.
LEMMA PutGrows ==
  ASSUME row \in Seq(Row), NEW r \in Run, NEW kind \in Kind, NEW to \in In \cup {Nil}, NEW marks,
         Put(r, kind, to, r \in marks)
  PROVE  Grown(r, kind, marks)
<1> DEFINE d == [run |-> r, kind |-> kind, to |-> to, owned |-> r \in marks, acked |-> FALSE]
<1>1. d.run = r /\ d.kind = kind /\ ~ d.acked
  OBVIOUS
<1>2. d.owned <=> r \in marks
  OBVIOUS
<1>3. d \in Row
  <2>1. (r \in marks) \in BOOLEAN
    OBVIOUS
  <2> QED
    BY <2>1 DEF Row
<1>4. row' = row \/ row' = Append(row, d)
  BY DEF Put
<1> HIDE DEF d
<1> QED
  BY <1>1, <1>2, <1>3, <1>4, AppendGrows, SameGrows

\* A final message is put without an owner.
LEMMA PutFinalGrows ==
  ASSUME row \in Seq(Row), NEW r \in Run, NEW to \in In \cup {Nil}, Put(r, "final", to, FALSE)
  PROVE  Grown(r, "final", {})
<1> DEFINE d == [run |-> r, kind |-> "final", to |-> to, owned |-> FALSE, acked |-> FALSE]
<1>1. d \in Row /\ d.run = r /\ d.kind = "final" /\ ~ d.acked /\ (d.owned <=> r \in {})
  BY DEF Row, Kind
<1>2. row' = row \/ row' = Append(row, d)
  BY DEF Put
<1> HIDE DEF d
<1> QED
  BY <1>1, <1>2, AppendGrows, SameGrows

\* What is done to runs outside the driver: a run that is over stays as it is.
RunsOn ==
  \A q \in Run : /\ run[q] \in Over => run'[q] = run[q]
                 /\ run[q] \notin {Nil, "quiet"} => run'[q] \notin {Nil, "quiet"}

\* What a step that adds at most one record leaves true.
Growth(r, kind, marks) ==
  /\ Grown(r, kind, marks) /\ RunsOn
  /\ UNCHANGED <<polling, kept>> /\ told \subseteq told'
  /\ r \in marks => r \in Mine
  /\ kind = "event" => run[r] = "quiet" /\ run'[r] = "said"
  /\ kind = "end" => run[r] \in Going /\ run'[r] \in Over

\* The records, and what the driver keeps of them, stay in their domain.
LEMMA GrowthTyped ==
  ASSUME BridgeTypeOK, NEW r, NEW kind, NEW marks, Growth(r, kind, marks)
  PROVE  /\ row' \in Seq(Row)
         /\ poll' \in [at : {"idle", "next", "output", "ack"}, page : SUBSET DOMAIN row',
                       hand : {0} \cup DOMAIN row', last : {0} \cup DOMAIN row', echo : BOOLEAN]
         /\ observer' \in [after : {0} \cup DOMAIN row', runs : [Run -> SUBSET DOMAIN row'],
                           recent : [Text -> Twin \cup {Nil}]]
  BY DEF BridgeTypeOK, Growth, Grown, polling

\* What the records are made of.
LEMMA RowTyped ==
  ASSUME BridgeTypeOK
  PROVE  /\ DOMAIN row = 1 .. Len(row) /\ Len(row) \in Nat
         /\ \A i \in DOMAIN row : /\ row[i].run \in Run /\ row[i].kind \in Kind
                                  /\ row[i].owned \in BOOLEAN /\ row[i].acked \in BOOLEAN
                                  /\ i \in Nat /\ i > 0
<1>1. DOMAIN row = 1 .. Len(row) /\ Len(row) \in Nat /\ \A i \in 1 .. Len(row) : row[i] \in Row
  BY LenProperties, ElementOfSeq DEF BridgeTypeOK
<1> QED
  BY <1>1 DEF Row

\* What the driver keeps of them.
LEMMA PollTyped ==
  ASSUME BridgeTypeOK
  PROVE  /\ poll.page \subseteq DOMAIN row /\ poll.hand \in {0} \cup DOMAIN row
         /\ poll.last \in {0} \cup DOMAIN row /\ observer.after \in {0} \cup DOMAIN row
         /\ poll.at \in {"idle", "next", "output", "ack"} /\ poll.echo \in BOOLEAN
         /\ \A r \in Run : observer.runs[r] \subseteq DOMAIN row
         /\ \A t \in Text : observer.recent[t] \in Twin \cup {Nil}
  BY DEF BridgeTypeOK

\* What a run says is a text.
LEMMA SaysTyped == \A r \in Run : Says[r] \in Text
  BY BridgeAssumption

\* What is shown stays shown, and a run that overtook its launch stays known.
LEMMA ShownStays ==
  ASSUME BridgeTypeOK, NEW r, NEW kind, NEW marks, Growth(r, kind, marks), NEW t
  PROVE  /\ Shown(t) => Shown(t)'
         /\ Overtook(t) => Overtook(t)'
  BY DEF Shown, Overtook, Growth, Grown

\* What is stored stays stored, and only the run's own kind is new.
LEMMA StoredStays ==
  ASSUME BridgeTypeOK, NEW r, NEW kind, NEW marks, Growth(r, kind, marks), NEW q, NEW k
  PROVE  /\ Stored(q, k) => Stored(q, k)'
         /\ Stored(q, k)' => Stored(q, k) \/ (q = r /\ k = kind)
  BY DEF Stored, Growth, Grown

\* A record more keeps what is known of the records.
LEMMA GrowthRows ==
  ASSUME BridgeTypeOK, RowsOK, NEW r, NEW kind, NEW marks, Growth(r, kind, marks)
  PROVE  RowsOK'
<1> SUFFICES ASSUME NEW i \in DOMAIN row'
             PROVE  RowsOK!(i)'
  BY DEF RowsOK
<1>1. CASE i \in DOMAIN row
  <2>1. row'[i] = row[i] /\ row[i].run \in Run /\ RowsOK!(i)
    BY <1>1, RowTyped DEF RowsOK, Growth, Grown
  <2>2. ASSUME row[i].kind = "end", NEW j \in DOMAIN row', row'[j].run = row[i].run
        PROVE  (row'[j].kind = "end" => i = j) /\ (row'[j].kind = "event" => j < i)
    <3>1. run[row[i].run] \in Over
      BY <2>1, <2>2
    <3>2. CASE j \in DOMAIN row
      BY <2>1, <2>2, <3>2 DEF Growth, Grown
    <3>3. CASE j \notin DOMAIN row
      BY <2>2, <3>1, <3>3 DEF Growth, Grown, Going, Over
    <3> QED
      BY <3>2, <3>3
  <2> QED
    BY <2>1, <2>2 DEF Growth, RunsOn
<1>2. CASE i \notin DOMAIN row
  <2>1. /\ row'[i].run = r /\ row'[i].kind = kind
        /\ (row'[i].owned <=> r \in marks) /\ ~ row'[i].acked
        /\ \A j \in DOMAIN row' \ DOMAIN row : j = i
    BY <1>2 DEF Growth, Grown
  <2>2. ASSUME kind = "end", NEW j \in DOMAIN row', row'[j].run = r
        PROVE  (row'[j].kind = "end" => i = j) /\ (row'[j].kind = "event" => j < i)
    <3>1. CASE j \in DOMAIN row
      <4>1. row'[j] = row[j] /\ row[j].run = r /\ j < i
        BY <1>2, <2>2, <3>1 DEF Growth, Grown
      <4>2. row[j].kind = "end" => run[r] \in Over
        BY <3>1, <4>1 DEF RowsOK
      <4> QED
        BY <2>2, <4>1, <4>2 DEF Growth, Going, Over
    <3> QED
      BY <2>1, <2>2, <3>1
  <2>3. row'[i].owned => row'[i].run \in Mine
    BY <2>1 DEF Growth
  <2>4. kind = "event" => run'[r] \notin {Nil, "quiet"}
    BY DEF Growth, Nil
  <2> QED
    BY <2>1, <2>2, <2>3, <2>4 DEF Growth
<1> QED
  BY <1>1, <1>2

\* What is set aside stays the run's.
LEMMA GrowthHeld ==
  ASSUME BridgeTypeOK, HeldOK, NEW r, NEW kind, NEW marks, Growth(r, kind, marks)
  PROVE  HeldOK'
<1> SUFFICES ASSUME NEW q \in Run, NEW i \in observer'.runs[q]
             PROVE  row'[i].run = q /\ row'[i].kind # "final"
  BY DEF HeldOK
<1> QED
  BY PollTyped DEF HeldOK, Growth, Grown, polling

\* The delivery in hand stays the one it was.
LEMMA GrowthHand ==
  ASSUME BridgeTypeOK, HandOK, NEW r, NEW kind, NEW marks, Growth(r, kind, marks)
  PROVE  HandOK'
<1>1. poll' = poll /\ observer' = observer
  BY DEF Growth, polling
<1>2. poll.hand # 0 => poll.hand \in DOMAIN row /\ row'[poll.hand] = row[poll.hand]
  BY PollTyped DEF Growth, Grown
<1> QED
  BY <1>1, <1>2 DEF HandOK, Due

\* A record more is behind the page.
LEMMA GrowthPage ==
  ASSUME BridgeTypeOK, PageOK, NEW r, NEW kind, NEW marks, Growth(r, kind, marks)
  PROVE  PageOK'
<1>1. poll' = poll /\ observer' = observer
  BY DEF Growth, polling
<1>2. \A i \in poll.page : row'[i] = row[i]
  BY PollTyped DEF Growth, Grown
<1>3. \A i \in DOMAIN row' \ DOMAIN row : i > poll.last
  BY PollTyped, RowTyped DEF Growth, Grown
<1>4. ASSUME poll.at # "idle", NEW i \in DOMAIN row', i <= poll.last, i # poll.hand, Due(i)'
      PROVE  i \in poll.page \/ (row'[i].kind = "event" /\ i \in observer.runs[row'[i].run])
  <2>1. i \in DOMAIN row
    BY <1>3, <1>4, PollTyped, RowTyped DEF Growth, Grown
  <2>2. row'[i] = row[i] /\ Due(i)
    BY <1>1, <1>4, <2>1 DEF Growth, Grown, Due
  <2> QED
    BY <1>4, <2>1, <2>2 DEF PageOK
<1>5. ASSUME poll.at # "idle", NEW i \in poll.page
      PROVE  i > observer.after /\ i <= poll.last /\ (row'[i].kind # "event" => Due(i)')
  BY <1>1, <1>2, <1>5 DEF PageOK, Due
<1> QED
  BY <1>1, <1>4, <1>5 DEF PageOK

\* An event more is still to be polled.
LEMMA GrowthEvents ==
  ASSUME BridgeTypeOK, EventsOK, NEW r, NEW kind, NEW marks, Growth(r, kind, marks)
  PROVE  EventsOK'
<1>1. poll' = poll /\ observer' = observer
  BY DEF Growth, polling
<1>2. \A i \in DOMAIN row' \ DOMAIN row : i > observer.after
  BY PollTyped, RowTyped DEF Growth, Grown
<1> QED
  BY <1>1, <1>2 DEF EventsOK, Growth, Grown

\* A text that is remembered is shown, or still waits.
LEMMA GrowthRecent ==
  ASSUME BridgeTypeOK, RecentOK, NEW r, NEW kind, NEW marks, Growth(r, kind, marks)
  PROVE  RecentOK'
<1>1. poll' = poll /\ observer' = observer
  BY DEF Growth, polling
<1>2. SUFFICES ASSUME NEW t \in Text, NEW k \in Twin, observer.recent[t] = k
               PROVE  Shown(t)' \/ Overtook(t)' \/ (poll.at # "ack" /\ Waits(t, k)')
  BY <1>1 DEF RecentOK
<1>3. CASE Shown(t) \/ Overtook(t)
  BY <1>3, ShownStays
<1>4. CASE poll.at # "ack" /\ Waits(t, k)
  <2>1. PICK i \in DOMAIN row : Waits(t, k)!(i)
    BY <1>4 DEF Waits
  <2>2. i \in DOMAIN row' /\ row'[i] = row[i] /\ Due(i)'
    BY <1>1, <2>1 DEF Growth, Grown, Due
  <2>3. \A q \in Ext : Stored(q, "event") => Stored(q, "event")'
    BY StoredStays
  <2>4. ASSUME NEW j \in DOMAIN row', j < i, Due(j)'
        PROVE  row'[j].kind = "event"
    <3>1. j \in DOMAIN row
      BY <2>1, <2>4, RowTyped DEF Growth, Grown
    <3>2. row'[j] = row[j] /\ Due(j)
      BY <1>1, <2>4, <3>1 DEF Due, Growth, Grown
    <3> QED
      BY <2>1, <2>4, <3>1, <3>2
  <2> QED
    BY <1>4, <2>1, <2>2, <2>3, <2>4 DEF Waits
<1> QED
  BY <1>2, <1>3, <1>4 DEF RecentOK

\* A record with which nothing is lost stays one.
LEMMA GrowthSafe ==
  ASSUME BridgeTypeOK, RowsOK, NEW r, NEW kind, NEW marks, Growth(r, kind, marks),
         NEW i \in DOMAIN row, RowSafe(i), row[i].kind # "final" => run[row[i].run] \in Over
  PROVE  RowSafe(i)'
<1>1. row'[i] = row[i] /\ kept' = kept
  BY DEF Growth, Grown
<1>2. SUFFICES ASSUME NEW q \in Run, row[i].run = q
               PROVE  IF row[i].kind = "final" THEN Said(q)' ELSE q \notin Mine => EndSafe(q)'
  BY <1>1 DEF RowSafe
<1>3. Said(q) => Said(q)'
  BY ShownStays DEF Said
<1>4. CASE row[i].kind = "final"
  BY <1>2, <1>3, <1>4 DEF RowSafe
<1>5. CASE row[i].kind # "final" /\ q \notin Mine
  <2>1. run[q] \in Over /\ run'[q] = run[q]
    BY <1>2, <1>5 DEF Growth, RunsOn
  <2>2. ~ (q = r /\ kind = "event")
    BY <2>1 DEF Growth, Over
  <2>3. Stored(q, "event")' <=> Stored(q, "event")
    BY <2>2, StoredStays
  <2> QED
    BY <1>1, <1>2, <1>3, <1>5, <2>1, <2>3 DEF RowSafe, EndSafe
<1> QED
  BY <1>4, <1>5

\* Nothing is lost with what is acknowledged.
LEMMA GrowthAcked ==
  ASSUME BridgeTypeOK, RowsOK, HandOK, AckedOK, NEW r, NEW kind, NEW marks, Growth(r, kind, marks)
  PROVE  AckedOK'
<1>1. poll' = poll
  BY DEF Growth, polling
<1>2. SUFFICES ASSUME NEW i \in DOMAIN row', row'[i].acked \/ (poll.at = "ack" /\ i = poll.hand)
               PROVE  RowSafe(i)'
  BY <1>1 DEF AckedOK
<1>3. i \in DOMAIN row /\ row'[i] = row[i] /\ RowSafe(i)
  BY <1>2, PollTyped DEF Growth, Grown, AckedOK, HandOK
<1>4. row[i].kind # "final" => run[row[i].run] \in Over
  BY <1>2, <1>3, RowTyped DEF RowsOK, HandOK, Kind
<1> QED
  BY <1>3, <1>4, GrowthSafe

\* What the driver and the plugin may learn in such a step.
Learns(r, kind, marks) ==
  /\ \A t \in Text : ownedText'[t] > 0 => ownedText[t] > 0 \/ Answer(t)'
  /\ ownedRunIds \subseteq ownedRunIds'
  /\ \A q \in Mine : Follows(q)' => Follows(q) \/ q \in ownedRunIds'
  /\ \A q \in registered' \ early' : q \in registered \ early \/ run[q] \notin Over
  /\ kind = "end" /\ r \in registered' \ early' => r \in marks

\* The driver's own texts stay those of its turns.
LEMMA GrowthEcho ==
  ASSUME BridgeTypeOK, HandOK, EchoOK, NEW r, NEW kind, NEW marks,
         Growth(r, kind, marks), Learns(r, kind, marks)
  PROVE  EchoOK'
<1>1. poll' = poll /\ told \subseteq told'
  BY DEF Growth, polling
<1>2. \A t \in Text : Answer(t) => Answer(t)'
  BY <1>1 DEF Answer
<1>3. poll.echo => poll.hand \in DOMAIN row /\ row'[poll.hand] = row[poll.hand]
  BY PollTyped DEF EchoOK, HandOK, Growth, Grown
<1> QED
  BY <1>1, <1>2, <1>3 DEF EchoOK, Learns

\* The driver knows what it follows.
LEMMA GrowthKnown ==
  ASSUME BridgeTypeOK, KnownOK, NEW r, NEW kind, NEW marks,
         Growth(r, kind, marks), Learns(r, kind, marks)
  PROVE  KnownOK'
<1> SUFFICES ASSUME NEW q \in Mine, Follows(q)', q \notin ownedRunIds'
             PROVE  Known(q)'
  BY DEF KnownOK, Known
<1>1. Follows(q) /\ q \notin ownedRunIds
  BY DEF Learns
<1>2. /\ run[q] \in Over /\ run'[q] = run[q]
      /\ \A i \in DOMAIN row : row[i].run = q /\ row[i].kind = "end" => row[i].acked
  BY <1>1 DEF KnownOK, Known, Growth, RunsOn, Run
<1>3. ~ (r = q /\ kind = "end")
  BY <1>2 DEF Growth, Going, Over
<1> QED
  BY <1>2, <1>3 DEF Known, Growth, Grown

\* An end more is marked as owned if its run is registered.
LEMMA GrowthMarked ==
  ASSUME BridgeTypeOK, RowsOK, MarkedOK, NEW r, NEW kind, NEW marks,
         Growth(r, kind, marks), Learns(r, kind, marks)
  PROVE  MarkedOK'
<1> SUFFICES ASSUME NEW i \in DOMAIN row', row'[i].kind = "end",
                    row'[i].run \in registered' \ early'
             PROVE  row'[i].owned
  BY DEF MarkedOK
<1>1. CASE i \in DOMAIN row
  <2>1. row'[i] = row[i] /\ run[row[i].run] \in Over
    BY <1>1 DEF Growth, Grown, RowsOK
  <2> QED
    BY <1>1, <2>1 DEF Learns, MarkedOK
<1>2. CASE i \notin DOMAIN row
  BY <1>2 DEF Growth, Grown, Learns
<1> QED
  BY <1>1, <1>2

\* A step that adds at most one record keeps the invariant.
LEMMA GrowthKeeps ==
  ASSUME BridgeInv, BridgeTypeOK', RunsOK', NEW r, NEW kind, NEW marks,
         Growth(r, kind, marks), Learns(r, kind, marks)
  PROVE  BridgeInv'
  BY GrowthRows, GrowthHeld, GrowthHand, GrowthPage, GrowthEvents, GrowthRecent, GrowthAcked,
     GrowthEcho, GrowthKnown, GrowthMarked
  DEF BridgeInv

\* A step of OpenClaw or of the plugin teaches the driver nothing.
LEMMA LearnsNothing ==
  ASSUME UNCHANGED <<ownedText, ownedRunIds, turn, launch, registered, early>>,
         NEW r, NEW kind, NEW marks, kind = "end" => marks = registered
  PROVE  Learns(r, kind, marks)
  BY DEF Learns, Follows

-----------------------------------------------------------------------------
(* OpenClaw and the messages that a host posts *)

\* What a run leaves behind, marked by what is registered.
LEMMA ObserveGrows ==
  ASSUME BridgeTypeOK, NEW r \in Run, NEW kind \in Kind, Observe(r, kind)
  PROVE  Grown(r, kind, registered)
  BY PutGrows, SameGrows DEF Observe, BridgeTypeOK

\* The faults stay in their bound.
LEMMA FaultTyped ==
  ASSUME BridgeTypeOK, Fault
  PROVE  faults' \in 0 .. MaxFaults
  BY BridgeAssumption DEF Fault, BridgeTypeOK

\* A run speaks.
LEMMA SpeakKeeps ==
  ASSUME BridgeInv, NEW r \in Run, Speak(r)
  PROVE  BridgeInv'
<1>1. BridgeTypeOK
  BY DEF BridgeInv
<1>2. Grown(r, "event", registered)
  BY <1>1, ObserveGrows DEF Speak, Kind
<1>3. run' \in [Run -> {Nil} \cup Going \cup Over] /\ RunsOn
      /\ run[r] = "quiet" /\ run'[r] = "said"
  BY <1>1 DEF Speak, BridgeTypeOK, RunsOn, Going, Over, Nil
<1>4. Growth(r, "event", registered)
  BY <1>1, <1>2, <1>3 DEF Speak, Growth, Run, BridgeTypeOK
<1>5. BridgeTypeOK'
  BY <1>1, <1>3, <1>4, GrowthTyped
  DEF BridgeTypeOK, Speak, books, driving, owned, polling
<1>6. RunsOK' /\ Learns(r, "event", registered)
  BY LearnsNothing DEF BridgeInv, RunsOK, Speak, books, driving, owned
<1> QED
  BY <1>4, <1>5, <1>6, GrowthKeeps

\* A run ends.
LEMMA EndKeeps ==
  ASSUME BridgeInv, NEW r \in Run, End(r)
  PROVE  BridgeInv'
<1>1. BridgeTypeOK
  BY DEF BridgeInv
<1>2. Grown(r, "end", registered)
  BY <1>1, ObserveGrows DEF End, Kind
<1>3. run' \in [Run -> {Nil} \cup Going \cup Over] /\ RunsOn
      /\ run[r] \in Going /\ run'[r] \in Over
  <2>1. PICK o \in {"ended", "mute"} : run' = [run EXCEPT ![r] = o]
    BY DEF End
  <2>2. run[r] \in Going /\ run \in [Run -> {Nil} \cup Going \cup Over]
    BY <1>1 DEF End, Going, BridgeTypeOK
  <2> QED
    BY <2>1, <2>2 DEF RunsOn, Going, Over, Nil
<1>4. Growth(r, "end", registered)
  BY <1>1, <1>2, <1>3 DEF End, Growth, Run, BridgeTypeOK
<1>5. history' \in Seq(Run)
  <2>1. history \in Seq(Run) /\ history' \in {history, Append(history, r)}
    BY <1>1 DEF End, BridgeTypeOK
  <2> QED
    BY <2>1, AppendProperties
<1>6. BridgeTypeOK'
  BY <1>1, <1>3, <1>4, <1>5, GrowthTyped
  DEF BridgeTypeOK, End, books, driving, owned, polling
<1>7. RunsOK' /\ Learns(r, "end", registered)
  BY LearnsNothing DEF BridgeInv, RunsOK, End, books, driving, owned
<1> QED
  BY <1>4, <1>6, <1>7, GrowthKeeps

\* A run fails.
LEMMA FailKeeps ==
  ASSUME BridgeInv, NEW r \in Run, Fail(r)
  PROVE  BridgeInv'
<1>1. BridgeTypeOK
  BY DEF BridgeInv
<1>2. Grown(r, "end", registered)
  BY <1>1, ObserveGrows DEF Fail, Kind
<1>3. run' \in [Run -> {Nil} \cup Going \cup Over] /\ RunsOn
      /\ run[r] \in Going /\ run'[r] \in Over
  BY <1>1 DEF Fail, BridgeTypeOK, RunsOn, Going, Over, Nil
<1>4. Growth(r, "end", registered)
  BY <1>1, <1>2, <1>3 DEF Fail, Growth, Run, BridgeTypeOK
<1>5. faults' \in 0 .. MaxFaults
  BY <1>1, FaultTyped DEF Fail
<1>6. BridgeTypeOK'
  BY <1>1, <1>3, <1>4, <1>5, GrowthTyped
  DEF BridgeTypeOK, Fail, books, driving, owned, polling
<1>7. RunsOK' /\ Learns(r, "end", registered)
  BY LearnsNothing DEF BridgeInv, RunsOK, Fail, books, driving, owned
<1> QED
  BY <1>4, <1>6, <1>7, GrowthKeeps

\* A run sends its final message.
LEMMA SendTextKeeps ==
  ASSUME BridgeInv, NEW r \in Run, SendText(r)
  PROVE  BridgeInv'
<1>1. BridgeTypeOK
  BY DEF BridgeInv
<1>2. Grown(r, "final", {})
  BY <1>1, PutFinalGrows DEF SendText, BridgeTypeOK
<1>3. Growth(r, "final", {})
  BY <1>1, <1>2 DEF SendText, claw, Growth, RunsOn
<1>4. BridgeTypeOK'
  BY <1>1, <1>3, GrowthTyped
  DEF BridgeTypeOK, SendText, claw, books, driving, owned, polling
<1>5. RunsOK' /\ Learns(r, "final", {})
  BY LearnsNothing DEF BridgeInv, RunsOK, SendText, books, driving, owned
<1> QED
  BY <1>3, <1>4, <1>5, GrowthKeeps

\* A dispatch delivers its reply.
LEMMA ReplyInboundKeeps ==
  ASSUME BridgeInv, NEW m \in In, ReplyInbound(m)
  PROVE  BridgeInv'
<1>1. BridgeTypeOK /\ RunsOK
  BY DEF BridgeInv
<1>2. PICK r \in Run : r = inbound[m].run
  BY <1>1 DEF ReplyInbound, RunsOK, Run
<1>3. Grown(r, "final", {})
  BY <1>1, <1>2, PutFinalGrows DEF ReplyInbound, BridgeTypeOK
<1>4. Growth(r, "final", {})
  BY <1>1, <1>3 DEF ReplyInbound, claw, Growth, RunsOn
<1>5. BridgeTypeOK'
  BY <1>1, <1>4, GrowthTyped
  DEF BridgeTypeOK, ReplyInbound, claw, books, driving, owned, polling
<1>6. RunsOK' /\ Learns(r, "final", {})
  BY LearnsNothing DEF BridgeInv, RunsOK, ReplyInbound, books, driving, owned
<1> QED
  BY <1>4, <1>5, <1>6, GrowthKeeps

\* Steps that leave the records alone.
LEMMA StillKeeps ==
  ASSUME BridgeInv, BridgeTypeOK', RunsOK', RunsOn, row' = row, UNCHANGED <<polling, kept>>,
         told \subseteq told', Learns(Nil, "final", {})
  PROVE  BridgeInv'
<1>1. Growth(Nil, "final", {})
  BY SameGrows DEF BridgeInv, BridgeTypeOK, Growth
<1> QED
  BY <1>1, GrowthKeeps

\* OpenClaw and its plugin restart.
LEMMA RestartClawKeeps ==
  ASSUME BridgeInv, RestartClaw
  PROVE  BridgeInv'
<1>1. BridgeTypeOK /\ RunsOK
  BY DEF BridgeInv
<1>2. run' \in [Run -> {Nil} \cup Going \cup Over] /\ RunsOn
  BY <1>1 DEF RestartClaw, BridgeTypeOK, RunsOn, Going, Over, Nil
<1>3. /\ inbound' \in [In -> [at : {Nil, "pending", "running", "delivered", "failed"},
                              run : Ext \cup {Nil}]]
      /\ \A m \in In : inbound'[m].at # "running"
  BY <1>1 DEF RestartClaw, BridgeTypeOK
<1>4. faults' \in 0 .. MaxFaults
  BY <1>1, FaultTyped DEF RestartClaw
<1>5. BridgeTypeOK' /\ RunsOK'
  BY <1>1, <1>2, <1>3, <1>4
  DEF BridgeTypeOK, RunsOK, RestartClaw, books, driving, owned, polling
<1>6. Learns(Nil, "final", {})
  BY LearnsNothing DEF RestartClaw, books, driving, owned
<1> QED
  BY <1>2, <1>5, <1>6, StillKeeps DEF RestartClaw

\* A message is posted, dispatched or settled.
LEMMA InboundKeeps ==
  ASSUME BridgeInv, NEW m \in In,
         PostInbound(m) \/ DispatchInbound(m) \/ SettleInbound(m)
  PROVE  BridgeInv'
<1>1. BridgeTypeOK /\ RunsOK
  BY DEF BridgeInv
<1>2. /\ run' \in [Run -> {Nil} \cup Going \cup Over] /\ RunsOn
      /\ bound' \in BOOLEAN
      /\ inbound' \in [In -> [at : {Nil, "pending", "running", "delivered", "failed"},
                              run : Ext \cup {Nil}]]
      /\ \A n \in In : inbound'[n].at = "running" => inbound'[n].run \in Ext
  <2>1. CASE PostInbound(m)
    BY <1>1, <2>1 DEF PostInbound, claw, books, BridgeTypeOK, RunsOK, RunsOn
  <2>2. CASE DispatchInbound(m)
    <3>1. PICK r \in Ext : /\ run[r] = Nil /\ run' = [run EXCEPT ![r] = "quiet"]
                           /\ inbound' = [inbound EXCEPT ![m] = [at |-> "running", run |-> r]]
      BY <2>2 DEF DispatchInbound
    <3>2. run' \in [Run -> {Nil} \cup Going \cup Over] /\ RunsOn
      BY <1>1, <3>1 DEF BridgeTypeOK, RunsOn, Going, Over, Nil, Run
    <3>3. /\ inbound' \in [In -> [at : {Nil, "pending", "running", "delivered", "failed"},
                                  run : Ext \cup {Nil}]]
          /\ \A n \in In : inbound'[n].at = "running" => inbound'[n].run \in Ext
      BY <1>1, <3>1 DEF BridgeTypeOK, RunsOK
    <3> QED
      BY <2>2, <3>2, <3>3 DEF DispatchInbound
  <2>3. CASE SettleInbound(m)
    <3>1. PICK at \in {"delivered", "failed"} : inbound' = [inbound EXCEPT ![m].at = at]
      BY <2>3 DEF SettleInbound
    <3>2. /\ inbound' \in [In -> [at : {Nil, "pending", "running", "delivered", "failed"},
                                  run : Ext \cup {Nil}]]
          /\ \A n \in In : inbound'[n].at = "running" => inbound'[n].run \in Ext
      BY <1>1, <3>1 DEF BridgeTypeOK, RunsOK
    <3>3. UNCHANGED <<claw, bound>>
      BY <2>3 DEF SettleInbound, books
    <3> QED
      BY <1>1, <3>2, <3>3 DEF claw, BridgeTypeOK, RunsOn
  <2> QED
    BY <2>1, <2>2, <2>3
<1>3. /\ UNCHANGED <<history, row, registered, early, turn, launch, ownedRunIds, ownedText>>
      /\ UNCHANGED <<poll, observer, closing, told, kept, faults>>
  BY DEF PostInbound, DispatchInbound, SettleInbound, claw, books, driving, owned, polling
<1>4. BridgeTypeOK' /\ RunsOK'
  BY <1>1, <1>2, <1>3 DEF BridgeTypeOK, RunsOK
<1>5. Learns(Nil, "final", {})
  BY <1>3, LearnsNothing
<1> QED
  BY <1>2, <1>3, <1>4, <1>5, StillKeeps DEF polling

-----------------------------------------------------------------------------
(* A turn of the gateway *)

\* The gateway asks for a run.
LEMMA AskKeeps ==
  ASSUME BridgeInv, NEW r \in Mine, Ask(r)
  PROVE  BridgeInv'
<1>1. BridgeTypeOK /\ RunsOK /\ r \in Run
  BY DEF BridgeInv, Run
<1>2. run' \in [Run -> {Nil} \cup Going \cup Over] /\ RunsOn
  BY <1>1 DEF Ask, BridgeTypeOK, RunsOn, Going, Over, Nil
<1>3. LastSaid \in Run \cup {Nil}
  <2>1. CASE history = <<>>
    BY <2>1 DEF LastSaid
  <2>2. CASE history # <<>>
    <3>1. history \in Seq(Run) /\ LastSaid = history[Len(history)]
      BY <1>1, <2>2 DEF LastSaid, Last, BridgeTypeOK
    <3>2. Len(history) \in 1 .. Len(history)
      BY <2>2, <3>1, EmptySeq, LenProperties
    <3> QED
      BY <3>1, <3>2, ElementOfSeq
  <2> QED
    BY <2>1, <2>2
<1>4. /\ launch' = [at |-> "asked", run |-> r, cursor |-> LastSaid]
      /\ turn' \in {turn, [NoGeneration EXCEPT !.stage = "starting"]}
  BY DEF Ask
<1>5. /\ launch' \in [at : {Nil, "asked", "accepted"}, run : Mine \cup {Nil},
                      cursor : Run \cup {Nil}]
      /\ launch'.run \in Mine /\ launch'.at = "asked"
  BY <1>3, <1>4
<1>6. /\ turn' \in [stage : {Nil, "starting", "open"}, run : Mine \cup {Nil},
                    cursor : Run \cup {Nil}]
      /\ turn'.stage = "open" => turn'.run \in Mine
      /\ turn'.run \in {turn.run, Nil}
  BY <1>1, <1>4 DEF NoGeneration, BridgeTypeOK, RunsOK
<1>7. BridgeTypeOK' /\ RunsOK'
  BY <1>1, <1>2, <1>5, <1>6
  DEF BridgeTypeOK, RunsOK, Ask, plugin, books, owned, polling
<1>8. Learns(Nil, "final", {})
  BY <1>5, <1>6, BridgeAssumption DEF Ask, plugin, books, owned, Learns, Follows, Run
<1> QED
  BY <1>1, <1>2, <1>7, <1>8, StillKeeps DEF Ask, plugin

\* A launch that throws leaves no launch, and a turn only if it was steered.
LEMMA LaunchThrowsTyped ==
  ASSUME BridgeTypeOK, RunsOK, LaunchThrows
  PROVE  /\ launch' \in [at : {Nil, "asked", "accepted"}, run : Mine \cup {Nil},
                         cursor : Run \cup {Nil}]
         /\ turn' \in [stage : {Nil, "starting", "open"}, run : Mine \cup {Nil},
                       cursor : Run \cup {Nil}]
         /\ launch'.at = Nil /\ (turn'.stage = "open" => turn'.run \in Mine)
         /\ turn'.run \in {turn.run, Nil}
  BY DEF LaunchThrows, NoLaunch, NoGeneration, BridgeTypeOK, RunsOK, Nil

\* The request is given up.
LEMMA AskFailsKeeps ==
  ASSUME BridgeInv, AskFails
  PROVE  BridgeInv'
<1>1. BridgeTypeOK /\ RunsOK
  BY DEF BridgeInv
<1>2. /\ launch' \in [at : {Nil, "asked", "accepted"}, run : Mine \cup {Nil},
                      cursor : Run \cup {Nil}]
      /\ turn' \in [stage : {Nil, "starting", "open"}, run : Mine \cup {Nil},
                    cursor : Run \cup {Nil}]
      /\ launch'.at = Nil /\ (turn'.stage = "open" => turn'.run \in Mine)
      /\ turn'.run \in {turn.run, Nil}
  BY <1>1, LaunchThrowsTyped DEF AskFails
<1>3. faults' \in 0 .. MaxFaults
  BY <1>1, FaultTyped DEF AskFails
<1>4. BridgeTypeOK' /\ RunsOK' /\ RunsOn
  BY <1>1, <1>2, <1>3
  DEF BridgeTypeOK, RunsOK, RunsOn, AskFails, claw, plugin, books, owned, polling
<1>5. Learns(Nil, "final", {})
  BY <1>2, BridgeAssumption DEF AskFails, plugin, books, owned, Learns, Follows, Run, Nil
<1> QED
  BY <1>4, <1>5, StillKeeps DEF AskFails, plugin

\* The run is acknowledged, and known from here.
LEMMA AcknowledgedKeeps ==
  ASSUME BridgeInv, Acknowledged
  PROVE  BridgeInv'
<1>1. BridgeTypeOK /\ RunsOK /\ launch.run \in Mine
  BY DEF BridgeInv, RunsOK, Acknowledged, Nil
<1>2. /\ launch' \in [at : {Nil, "asked", "accepted"}, run : Mine \cup {Nil},
                      cursor : Run \cup {Nil}]
      /\ launch'.run = launch.run
  BY <1>1 DEF Acknowledged, BridgeTypeOK
<1>3. ownedRunIds' = ownedRunIds \cup {launch.run}
  BY DEF Acknowledged
<1>4. BridgeTypeOK' /\ RunsOK' /\ RunsOn
  BY <1>1, <1>2, <1>3
  DEF BridgeTypeOK, RunsOK, RunsOn, Acknowledged, claw, plugin, books, polling
<1>5. Learns(Nil, "final", {})
  BY <1>2, <1>3 DEF Acknowledged, plugin, books, Learns, Follows
<1> QED
  BY <1>4, <1>5, StillKeeps DEF Acknowledged, plugin

\* It is registered, and followed.
LEMMA RegisterKeeps ==
  ASSUME BridgeInv, Register
  PROVE  BridgeInv'
<1>1. BridgeTypeOK /\ RunsOK /\ launch.run \in Mine
  BY DEF BridgeInv, RunsOK, Register, Nil
<1>2. /\ launch' = NoLaunch
      /\ turn' \in {NoGeneration, [stage |-> "open", run |-> launch.run, cursor |-> launch.cursor]}
  BY DEF Register
<1>3. /\ launch' \in [at : {Nil, "asked", "accepted"}, run : Mine \cup {Nil},
                      cursor : Run \cup {Nil}]
      /\ launch'.at = Nil
  BY <1>2 DEF NoLaunch
<1>4. /\ turn' \in [stage : {Nil, "starting", "open"}, run : Mine \cup {Nil},
                    cursor : Run \cup {Nil}]
      /\ turn'.stage = "open" => turn'.run \in Mine
      /\ turn'.run \in {launch.run, Nil}
  BY <1>1, <1>2 DEF NoGeneration, BridgeTypeOK, Nil
<1>5. early' \subseteq registered' /\ registered' \subseteq Mine
  BY <1>1 DEF Register, Registers, BridgeTypeOK
<1>6. BridgeTypeOK' /\ RunsOK' /\ RunsOn
  BY <1>1, <1>3, <1>4, <1>5
  DEF BridgeTypeOK, RunsOK, RunsOn, Register, claw, owned, polling
<1>7. Learns(Nil, "final", {})
  <2>1. \A p \in registered' \ early' : p \in registered \ early \/ run[p] \notin Over
    BY DEF Register, Registers
  <2>2. \A p \in Mine : Follows(p)' => Follows(p)
    BY <1>3, <1>4, BridgeAssumption DEF Follows, Register, Nil, Run
  <2> QED
    BY <2>1, <2>2 DEF Learns, Register, owned
<1> QED
  BY <1>6, <1>7, StillKeeps DEF Register

\* Registering fails, with or without its effect, and the run may be aborted.
LEMMA RegisterFailsKeeps ==
  ASSUME BridgeInv, RegisterFails
  PROVE  BridgeInv'
<1>1. BridgeTypeOK /\ RunsOK /\ launch.run \in Mine /\ launch.at = "accepted"
  BY DEF BridgeInv, RunsOK, RegisterFails, Nil
<1>2. PICK r \in Mine : r = launch.run
  BY <1>1
<1>3. r \in Run
  BY DEF Run
<1>4. /\ early' \subseteq registered' /\ registered' \subseteq Mine /\ bound' \in BOOLEAN
      /\ \A p \in registered' \ early' : p \in registered \ early \/ run[p] \notin Over
  <2>1. \/ UNCHANGED <<registered, early, bound>>
        \/ Registers /\ bound' \in {bound, TRUE}
    BY DEF RegisterFails
  <2> QED
    BY <1>1, <2>1 DEF Registers, BridgeTypeOK
<1>5. /\ run' \in [Run -> {Nil} \cup Going \cup Over]
      /\ \E kind \in {"end", "final"} : Growth(r, kind, registered')
  <2>1. CASE UNCHANGED <<run, row>>
    <3>1. Growth(r, "final", registered')
      BY <1>1, <1>3, <2>1, SameGrows DEF RegisterFails, BridgeTypeOK, Growth, RunsOn
    <3> QED
      BY <1>1, <2>1, <3>1 DEF BridgeTypeOK
  <2>2. CASE /\ run[r] \in Going
             /\ run' = [run EXCEPT ![r] = "failed"]
             /\ IF bound' THEN Put(r, "end", Nil, r \in registered') ELSE UNCHANGED row
    <3>1. run' \in [Run -> {Nil} \cup Going \cup Over] /\ RunsOn /\ run'[r] \in Over
      BY <1>1, <1>3, <2>2 DEF BridgeTypeOK, RunsOn, Going, Over, Nil
    <3>2. Grown(r, "end", registered')
      BY <1>1, <1>3, <2>2, PutGrows, SameGrows DEF BridgeTypeOK, Kind
    <3>3. Growth(r, "end", registered')
      BY <1>3, <2>2, <3>1, <3>2 DEF RegisterFails, Growth
    <3> QED
      BY <3>1, <3>3
  <2> QED
    BY <1>2, <2>1, <2>2 DEF RegisterFails
<1>6. PICK kind \in {"end", "final"} : Growth(r, kind, registered')
  BY <1>5
<1>7. /\ launch' \in [at : {Nil, "asked", "accepted"}, run : Mine \cup {Nil},
                      cursor : Run \cup {Nil}]
      /\ turn' \in [stage : {Nil, "starting", "open"}, run : Mine \cup {Nil},
                    cursor : Run \cup {Nil}]
      /\ launch'.at = Nil /\ (turn'.stage = "open" => turn'.run \in Mine)
      /\ turn'.run \in {turn.run, Nil}
  BY <1>1, LaunchThrowsTyped DEF RegisterFails
<1>8. faults' \in 0 .. MaxFaults
  BY <1>1, FaultTyped DEF RegisterFails
<1>9. BridgeTypeOK' /\ RunsOK'
  BY <1>1, <1>4, <1>5, <1>6, <1>7, <1>8, GrowthTyped
  DEF BridgeTypeOK, RunsOK, RegisterFails, owned, polling
<1>10. Learns(r, kind, registered')
  BY <1>4, <1>7, BridgeAssumption DEF RegisterFails, owned, Learns, Follows, Run, Nil
<1> QED
  BY <1>6, <1>9, <1>10, GrowthKeeps

\* A turn resolves only with what a run said.
LEMMA ResolveTyped ==
  ASSUME BridgeTypeOK, NEW h \in Run, Resolve(h)
  PROVE  /\ told \subseteq told' /\ told' \subseteq Run /\ ownedText' \in [Text -> Nat]
         /\ \A t \in Text : ownedText'[t] > 0 => ownedText[t] > 0 \/ Answer(t)'
  BY SaysTyped DEF Resolve, Answer, BridgeTypeOK

\* What can be read of the transcript was said by a run.
LEMMA ReadableTyped ==
  ASSUME BridgeTypeOK
  PROVE  Readable \subseteq Run
<1>1. history \in Seq(Run) /\ DOMAIN history = 1 .. Len(history)
  BY LenProperties DEF BridgeTypeOK
<1> QED
  BY <1>1, ElementOfSeq DEF Readable

\* The wait for a run returns or fails.
LEMMA WaitKeeps ==
  ASSUME BridgeInv, WaitEnds \/ WaitFails
  PROVE  BridgeInv'
<1>1. BridgeTypeOK /\ RunsOK /\ turn.run \in Run
  BY DEF BridgeInv, RunsOK, WaitEnds, WaitFails, Run
<1>2. /\ told \subseteq told' /\ told' \subseteq Run /\ ownedText' \in [Text -> Nat]
      /\ \A t \in Text : ownedText'[t] > 0 => ownedText[t] > 0 \/ Answer(t)'
  <2>1. (\E h \in Run : Resolve(h)) \/ UNCHANGED <<told, ownedText>>
    BY <1>1, ReadableTyped DEF WaitEnds, WaitFails, Recover
  <2> QED
    BY <1>1, <2>1, ResolveTyped DEF BridgeTypeOK
<1>3. turn' = NoGeneration /\ faults' \in 0 .. MaxFaults
  BY <1>1, FaultTyped DEF WaitEnds, WaitFails, BridgeTypeOK
<1>4. /\ turn' \in [stage : {Nil, "starting", "open"}, run : Mine \cup {Nil},
                    cursor : Run \cup {Nil}]
      /\ turn'.stage # "open" /\ turn'.run = Nil
  BY <1>3 DEF NoGeneration, Nil
<1>5. UNCHANGED <<claw, plugin, launch, ownedRunIds, polling, closing, kept>>
  BY DEF WaitEnds, WaitFails
<1>6. BridgeTypeOK' /\ RunsOK' /\ RunsOn
  BY <1>1, <1>2, <1>3, <1>4, <1>5
  DEF BridgeTypeOK, RunsOK, RunsOn, claw, plugin, books, polling
<1>7. Learns(Nil, "final", {})
  BY <1>2, <1>4, <1>5, BridgeAssumption DEF plugin, books, Learns, Follows, Run
<1> QED
  BY <1>2, <1>5, <1>6, <1>7, StillKeeps DEF plugin

-----------------------------------------------------------------------------
(* The poll *)

\* The delivery that the loop meets is the first that is due, but for the events it passed.
LEMMA MeetsFirst ==
  ASSUME BridgeInv, NEW i, NEW kind \in {"end", "final"}, Meets(i, kind)
  PROVE  /\ i \in DOMAIN row /\ i \in poll.page /\ row[i].kind = kind /\ Due(i)
         /\ poll.hand = 0
         /\ \A j \in DOMAIN row : j < i /\ Due(j) => row[j].kind = "event"
         /\ \A j \in poll.page : j \in Passed <=> j < i
         /\ \A j \in Passed : row[j].kind = "event"
<1>1. BridgeTypeOK /\ HandOK /\ PageOK /\ poll.at = "next" /\ poll.hand = 0
  BY DEF BridgeInv, HandOK, Meets
<1>2. /\ i \in poll.page /\ i \in DOMAIN row /\ row[i].kind = kind /\ Due(i) /\ i <= poll.last
      /\ i \in Nat
  BY <1>1, PollTyped, RowTyped DEF Meets, Rest, PageOK
<1>3. \A j \in Passed : row[j].kind = "event" /\ j \in Nat /\ j \in poll.page
  BY <1>1, PollTyped, RowTyped DEF Passed
<1>4. ASSUME NEW j \in poll.page
      PROVE  j \in Passed <=> j < i
  <2>1. j \in Nat /\ j \in DOMAIN row
    BY <1>1, PollTyped, RowTyped
  <2>2. j \in Passed => j < i
    BY <1>2, <2>1 DEF Passed
  <2>3. j \notin Passed => i <= j
    BY <2>1 DEF Meets, Rest
  <2> QED
    BY <1>2, <2>1, <2>2, <2>3
<1>5. ASSUME NEW j \in DOMAIN row, j < i, Due(j), row[j].kind # "event"
      PROVE  FALSE
  <2>1. j \in Nat /\ j # 0 /\ poll.last \in Nat
    BY <1>1, PollTyped, RowTyped
  <2>2. j \in poll.page
    BY <1>1, <1>2, <1>5, <2>1 DEF PageOK
  <2> QED
    BY <1>3, <1>4, <1>5, <2>2
<1> QED
  BY <1>1, <1>2, <1>3, <1>4, <1>5

\* The page, the hand and what is set aside when the loop takes a delivery.
Taken(i) ==
  /\ poll'.at \in {"output", "ack"} /\ poll'.page = Rest \ {i} /\ poll'.hand = i
  /\ poll'.last = poll.last /\ observer'.after = observer.after
  /\ \A r \in Run :
       /\ Held(r) \subseteq observer'.runs[r]
       /\ observer'.runs[r] \subseteq
            Held(r) \cup (IF row[i].kind = "end" /\ row[i].run = r THEN {i} ELSE {})
  /\ row[i].kind = "end" => i \in observer'.runs[row[i].run]
  /\ UNCHANGED row

\* Taking a delivery keeps what is known of the page, the hand and the events.
LEMMA TakenKeeps ==
  ASSUME BridgeInv, NEW i, NEW kind \in {"end", "final"}, Meets(i, kind), Taken(i)
  PROVE  HeldOK' /\ HandOK' /\ PageOK' /\ EventsOK'
<1>1. BridgeTypeOK /\ HeldOK /\ PageOK /\ EventsOK /\ poll.at = "next"
  BY DEF BridgeInv, Meets
<1>2. /\ i \in DOMAIN row /\ i \in poll.page /\ row[i].kind = kind /\ Due(i) /\ poll.hand = 0
      /\ \A j \in DOMAIN row : j < i /\ Due(j) => row[j].kind = "event"
      /\ \A j \in poll.page : j \in Passed <=> j < i
      /\ \A j \in Passed : row[j].kind = "event"
  BY MeetsFirst
<1>3. \A j \in DOMAIN row : Due(j)' <=> Due(j)
  BY DEF Due, Taken
<1>4. \A j \in poll.page : j \in DOMAIN row /\ j \in Nat
  BY <1>1, PollTyped, RowTyped
<1>5. HeldOK'
  <2> SUFFICES ASSUME NEW r \in Run, NEW j \in observer'.runs[r]
               PROVE  row[j].run = r /\ row[j].kind # "final"
    BY DEF HeldOK, Taken
  <2>1. j \in Held(r) \/ (j = i /\ row[i].kind = "end" /\ row[i].run = r)
    BY DEF Taken
  <2> QED
    BY <1>1, <1>2, <2>1 DEF Held, HeldOK
<1>6. HandOK'
  <2>1. \A j \in poll'.page : j > i
    BY <1>2, <1>4 DEF Taken, Rest
  <2>2. i # 0 /\ i <= poll.last
    BY <1>1, <1>2, RowTyped DEF PageOK
  <2> QED
    BY <1>2, <1>3, <2>1, <2>2 DEF HandOK, Taken
<1>7. PageOK'
  <2>1. \A j \in poll'.page : /\ j > observer'.after /\ j <= poll'.last
                              /\ row[j].kind # "event" => Due(j)'
    BY <1>1, <1>3, <1>4 DEF PageOK, Taken, Rest
  <2>2. ASSUME NEW j \in DOMAIN row, j <= poll.last, j # i, Due(j)
        PROVE  j \in poll'.page \/ (row[j].kind = "event" /\ j \in observer'.runs[row[j].run])
    <3>1. row[j].run \in Run /\ j \in Nat
      BY <1>1, RowTyped
    <3>2. CASE j \in poll.page
      <4>1. CASE j \in Passed
        BY <1>2, <3>1, <4>1 DEF Held, Taken
      <4>2. CASE j \notin Passed
        BY <2>2, <3>2, <4>2 DEF Taken, Rest
      <4> QED
        BY <4>1, <4>2
    <3>3. CASE row[j].kind = "event" /\ j \in observer.runs[row[j].run]
      BY <3>1, <3>3 DEF Held, Taken
    <3>4. j # poll.hand
      BY <1>1, <1>2, <3>1, RowTyped
    <3> QED
      BY <1>1, <2>2, <3>2, <3>3, <3>4 DEF PageOK
  <2>3. poll'.last > observer'.after
    BY <1>1 DEF PageOK, Taken
  <2> QED
    BY <1>3, <2>1, <2>2, <2>3 DEF PageOK, Taken
<1>8. EventsOK'
  <2> SUFFICES ASSUME NEW j \in DOMAIN row, row[j].kind = "event", ~ row[j].acked
               PROVE  j > observer.after \/ j \in observer'.runs[row[j].run]
    BY DEF EventsOK, Taken
  <2> QED
    BY <1>1, RowTyped DEF EventsOK, Held, Taken
<1> QED
  BY <1>5, <1>6, <1>7, <1>8

\* Only the first delivery that is due, but for events, can be the one a text waits for.
LEMMA OnlyWait ==
  ASSUME BridgeTypeOK, NEW i \in DOMAIN row, row[i].kind # "event", Due(i),
         \A j \in DOMAIN row : j < i /\ Due(j) => row[j].kind = "event",
         NEW t, NEW kind, Waits(t, kind)
  PROVE  /\ Says[row[i].run] = t
         /\ \/ /\ kind = "agent-event" /\ row[i].kind = "end"
               /\ \E r \in Ext : row[i].run = r /\ Stored(r, "event")
            \/ kind = "message-final" /\ row[i].kind = "final"
<1>1. PICK j \in DOMAIN row : Waits(t, kind)!(j)
  BY DEF Waits
<1>2. row[j].kind # "event"
  BY <1>1
<1>3. i \in Nat /\ j \in Nat
  BY RowTyped
<1>4. i = j
  BY <1>1, <1>2, <1>3
<1> QED
  BY <1>1, <1>4

\* What is in the chat depends on these only.
LEMMA SaidStays ==
  ASSUME UNCHANGED <<row, told, kept>>
  PROVE  /\ \A t : (Shown(t)' <=> Shown(t)) /\ (Overtook(t)' <=> Overtook(t))
         /\ \A r : Said(r)' <=> Said(r)
         /\ \A r, k : Stored(r, k)' <=> Stored(r, k)
         /\ UNCHANGED run => \A r : EndSafe(r)' <=> EndSafe(r)
         /\ UNCHANGED run => \A i : RowSafe(i)' <=> RowSafe(i)
<1>1. \A t : (Shown(t)' <=> Shown(t)) /\ (Overtook(t)' <=> Overtook(t))
  BY DEF Shown, Overtook
<1>2. \A r : Said(r)' <=> Said(r)
  BY DEF Said, Shown, Overtook
<1>3. \A r, k : Stored(r, k)' <=> Stored(r, k)
  BY DEF Stored
<1>4. UNCHANGED run => \A r : EndSafe(r)' <=> EndSafe(r)
  BY <1>2, <1>3 DEF EndSafe
<1>5. UNCHANGED run => \A i : RowSafe(i)' <=> RowSafe(i)
  BY <1>2, <1>4 DEF RowSafe
<1> QED
  BY <1>1, <1>2, <1>3, <1>4, <1>5

\* An event of a foreign run is set aside for its end, unless it is long dealt with.
LEMMA EventIsHeld ==
  ASSUME BridgeInv, NEW i, Meets(i, "end"), NEW r \in Run, row[i].run = r, r \notin Mine,
         Stored(r, "event")
  PROVE  EndSafe(r) \/ \E j \in Held(r) : row[j].kind = "event"
<1>1. BridgeTypeOK /\ RowsOK /\ AckedOK /\ EventsOK /\ PageOK /\ poll.at = "next"
  BY DEF BridgeInv, Meets
<1>2. /\ i \in DOMAIN row /\ i \in poll.page /\ row[i].kind = "end"
      /\ poll.hand = 0 /\ \A j \in poll.page : j \in Passed <=> j < i
  BY MeetsFirst
<1>3. PICK j \in DOMAIN row : row[j].run = r /\ row[j].kind = "event"
  BY DEF Stored
<1>4. j < i /\ j \in Nat /\ j # 0 /\ i \in Nat /\ poll.last \in Nat
  BY <1>1, <1>2, <1>3, PollTyped, RowTyped DEF RowsOK
<1>5. CASE row[j].acked
  BY <1>1, <1>3, <1>5 DEF AckedOK, RowSafe
<1>6. CASE j \in observer.runs[r]
  BY <1>3, <1>6 DEF Held
<1>7. CASE ~ row[j].acked /\ j \notin observer.runs[r]
  <2>1. Due(j)
    BY <1>1, <1>3, <1>7 DEF EventsOK, Due
  <2>2. i <= poll.last
    BY <1>1, <1>2 DEF PageOK
  <2>3. j \in poll.page
    BY <1>1, <1>2, <1>3, <1>4, <1>7, <2>1, <2>2 DEF PageOK
  <2> QED
    BY <1>2, <1>3, <1>4, <2>3 DEF Held
<1> QED
  BY <1>5, <1>6, <1>7

\* What is set aside for a run is stored for it.
LEMMA HeldIsStored ==
  ASSUME BridgeInv, NEW r \in Run, NEW j \in Held(r), row[j].kind = "event"
  PROVE  Stored(r, "event")
  BY PollTyped DEF BridgeInv, HeldOK, Held, Passed, Stored

\* What depends on no step of the poll.
LEMMA Unmoved ==
  ASSUME UNCHANGED <<run, row, registered, early, turn, launch, ownedRunIds>>
  PROVE  (RowsOK => RowsOK') /\ (KnownOK => KnownOK') /\ (MarkedOK => MarkedOK')
<1>1. RowsOK => RowsOK'
  BY DEF RowsOK
<1>2. KnownOK => KnownOK'
  BY DEF KnownOK, Known, Follows
<1>3. MarkedOK => MarkedOK'
  BY DEF MarkedOK
<1> QED
  BY <1>1, <1>2, <1>3

\* The end of a run that the loop takes: what is set aside, and whether it is an output.
Own(i, r) == row[i].owned \/ r \in ownedRunIds
Heard(r)  == \E j \in Held(r) : row[j].kind = "event"
Out(i, r) == /\ ~ Own(i, r) /\ (Heard(r) \/ run[r] = "failed")
             /\ ~ (Heard(r) /\ IsTwin(Says[r], "agent-event"))

\* What taking the end of a run does to the page and to what is remembered.
LEMMA TakeEndDoes ==
  ASSUME BridgeInv, NEW i, TakeEnd(i), NEW r \in Run, row[i].run = r
  PROVE  /\ Taken(i) /\ poll'.echo = FALSE
         /\ poll'.at = IF Out(i, r) THEN "output" ELSE "ack"
         /\ poll' \in [at : {"idle", "next", "output", "ack"}, page : SUBSET DOMAIN row,
                       hand : {0} \cup DOMAIN row, last : {0} \cup DOMAIN row, echo : BOOLEAN]
         /\ observer' \in [after : {0} \cup DOMAIN row, runs : [Run -> SUBSET DOMAIN row],
                           recent : [Text -> Twin \cup {Nil}]]
         /\ observer'.recent = IF Own(i, r) \/ ~ Heard(r) THEN observer.recent
                               ELSE Remember(Says[r], "agent-event")
<1> DEFINE said == Rendered(r, Held(r))
           out  == ~ Own(i, r) /\ (said # {} \/ run[r] = "failed")
                     /\ ~ \E t \in said : IsTwin(t, "agent-event")
<1>1. BridgeTypeOK
  BY DEF BridgeInv
<1>2. i \in DOMAIN row /\ row[i].kind = "end"
  BY MeetsFirst DEF TakeEnd
<1>3. said = IF Heard(r) THEN {Says[r]} ELSE {}
  BY DEF Rendered, Heard
<1>4. out <=> Out(i, r)
  BY <1>3 DEF Out
<1>5. /\ poll' = [poll EXCEPT !.at = IF out THEN "output" ELSE "ack", !.page = Rest \ {i},
                              !.hand = i, !.echo = FALSE]
      /\ observer' = [observer EXCEPT !.runs = [SetAside EXCEPT ![r] = @ \cup {i}],
                                      !.recent = IF Own(i, r) \/ said = {} THEN @
                                                 ELSE Remember(Says[r], "agent-event")]
      /\ row' = row
  BY DEF TakeEnd, Takes, Own, plugin
<1>6. /\ SetAside \in [Run -> SUBSET DOMAIN row] /\ Rest \subseteq DOMAIN row
      /\ \A q \in Run : SetAside[q] = Held(q)
  BY <1>1, PollTyped DEF SetAside, Held, Passed, Rest
<1>7. Remember(Says[r], "agent-event") \in [Text -> Twin \cup {Nil}]
  BY <1>1 DEF Remember, BridgeTypeOK, Twin
<1> HIDE DEF said, out
<1>8. /\ poll'.page = Rest \ {i} /\ poll'.hand = i /\ poll'.last = poll.last
      /\ poll'.echo = FALSE /\ poll'.at = IF out THEN "output" ELSE "ack"
      /\ poll' \in [at : {"idle", "next", "output", "ack"}, page : SUBSET DOMAIN row,
                    hand : {0} \cup DOMAIN row, last : {0} \cup DOMAIN row, echo : BOOLEAN]
  BY <1>1, <1>2, <1>5, <1>6 DEF BridgeTypeOK
<1>9. /\ observer'.after = observer.after
      /\ observer'.runs = [SetAside EXCEPT ![r] = @ \cup {i}]
      /\ observer'.recent = IF Own(i, r) \/ said = {} THEN observer.recent
                            ELSE Remember(Says[r], "agent-event")
      /\ observer' \in [after : {0} \cup DOMAIN row, runs : [Run -> SUBSET DOMAIN row],
                        recent : [Text -> Twin \cup {Nil}]]
  <2>1. observer \in [after : {0} \cup DOMAIN row, runs : [Run -> SUBSET DOMAIN row],
                      recent : [Text -> Twin \cup {Nil}]]
    BY <1>1 DEF BridgeTypeOK
  <2>2. [SetAside EXCEPT ![r] = @ \cup {i}] \in [Run -> SUBSET DOMAIN row]
    BY <1>2, <1>6
  <2>3. (IF Own(i, r) \/ said = {} THEN observer.recent ELSE Remember(Says[r], "agent-event"))
          \in [Text -> Twin \cup {Nil}]
    BY <1>7, <2>1
  <2> QED
    BY <1>5, <2>1, <2>2, <2>3
<1>10. Taken(i)
  <2>1. /\ observer'.runs[r] = Held(r) \cup {i}
        /\ \A q \in Run : q # r => observer'.runs[q] = Held(q)
    BY <1>6, <1>9
  <2>2. poll'.at \in {"output", "ack"}
    BY <1>8
  <2> QED
    BY <1>2, <1>5, <1>8, <1>9, <2>1, <2>2 DEF Taken
<1> QED
  BY <1>3, <1>4, <1>8, <1>9, <1>10

\* An end that is suppressed is one with which nothing is lost.
LEMMA TakeEndIsSafe ==
  ASSUME BridgeInv, NEW i, TakeEnd(i), NEW r \in Run, row[i].run = r, ~ Out(i, r)
  PROVE  RowSafe(i)
<1>1. BridgeTypeOK /\ RowsOK /\ RecentOK /\ Meets(i, "end") /\ poll.at = "next"
  BY DEF BridgeInv, TakeEnd, Meets
<1>2. /\ i \in DOMAIN row /\ row[i].kind = "end" /\ Due(i)
      /\ \A j \in DOMAIN row : j < i /\ Due(j) => row[j].kind = "event"
  BY <1>1, MeetsFirst
<1>3. SUFFICES ASSUME r \notin Mine
               PROVE  EndSafe(r)
  BY <1>2 DEF RowSafe
<1>4. ~ Own(i, r)
  BY <1>1, <1>2, <1>3 DEF Own, RowsOK, BridgeTypeOK
<1>5. CASE Heard(r)
  <2>1. Stored(r, "event")
    BY <1>5, HeldIsStored DEF Heard
  <2>2. Says[r] \in Text /\ observer.recent[Says[r]] = "message-final"
    BY <1>1, <1>4, <1>5, SaysTyped, PollTyped DEF Out, IsTwin, Twin
  <2>3. ~ Waits(Says[r], "message-final")
    BY <1>1, <1>2, OnlyWait
  <2>4. Said(r)
    BY <1>1, <2>2, <2>3 DEF RecentOK, Said, Twin
  <2> QED
    BY <2>1, <2>4 DEF EndSafe
<1>6. CASE ~ Heard(r)
  <2>1. run[r] # "failed"
    BY <1>4, <1>6 DEF Out
  <2>2. Stored(r, "event") => EndSafe(r)
    BY <1>1, <1>3, <1>6, EventIsHeld DEF Heard
  <2> QED
    BY <2>1, <2>2 DEF EndSafe
<1> QED
  BY <1>5, <1>6

\* The text that such an end leaves to be remembered is shown or waits for it.
LEMMA TakeEndRecent ==
  ASSUME BridgeInv, NEW i, TakeEnd(i), NEW r \in Run, row[i].run = r
  PROVE  RecentOK'
<1>1. BridgeTypeOK /\ RecentOK /\ Meets(i, "end") /\ poll.at = "next"
  BY DEF BridgeInv, TakeEnd, Meets
<1>2. /\ i \in DOMAIN row /\ row[i].kind = "end" /\ Due(i)
      /\ \A j \in DOMAIN row : j < i /\ Due(j) => row[j].kind = "event"
  BY <1>1, MeetsFirst
<1>3. /\ Taken(i) /\ poll'.at = IF Out(i, r) THEN "output" ELSE "ack"
      /\ observer'.recent = IF Own(i, r) \/ ~ Heard(r) THEN observer.recent
                            ELSE Remember(Says[r], "agent-event")
  BY TakeEndDoes
<1>4. UNCHANGED <<row, told, kept, run>>
  BY DEF TakeEnd, plugin, claw
<1>5. \A j \in DOMAIN row : Due(j)' <=> Due(j)
  BY <1>3 DEF Due, Taken
<1>6. SUFFICES ASSUME NEW t \in Text, NEW k \in Twin, observer'.recent[t] = k,
                      ~ Shown(t), ~ Overtook(t)
               PROVE  poll'.at # "ack" /\ Waits(t, k)'
  BY <1>4, SaidStays DEF RecentOK
<1>7. CASE observer.recent[t] = k
  <2>1. Waits(t, k)
    BY <1>1, <1>6, <1>7 DEF RecentOK
  <2>2. Waits(t, k)'
    BY <1>4, <1>5, <2>1, SaidStays DEF Waits
  <2>3. Says[row[i].run] = t /\ r \in Ext /\ Stored(r, "event")
    BY <1>1, <1>2, <2>1, OnlyWait
  <2>4. Out(i, r)
    BY <1>2, <1>6, <2>3, TakeEndIsSafe, BridgeAssumption DEF RowSafe, EndSafe, Said
  <2> QED
    BY <1>3, <2>2, <2>4
<1>8. CASE observer.recent[t] # k
  <2>1. ~ Own(i, r) /\ Heard(r) /\ observer'.recent = Remember(Says[r], "agent-event")
    BY <1>3, <1>6, <1>8
  <2>2. t = Says[r] /\ ~ IsTwin(t, "agent-event") /\ k = "agent-event"
    BY <1>1, <1>6, <1>8, <2>1 DEF Remember, Twin, Nil, BridgeTypeOK
  <2>3. poll'.at = "output"
    BY <1>3, <2>1, <2>2 DEF Out
  <2>4. r \in Ext
    BY <1>2, <1>6, <2>1, <2>2 DEF Overtook, Own, Run
  <2>5. Stored(r, "event")
    BY <2>1, HeldIsStored DEF Heard
  <2> QED
    BY <1>2, <1>4, <1>5, <2>2, <2>3, <2>4, <2>5, SaidStays DEF Waits
<1> QED
  BY <1>7, <1>8

\* The loop takes the end of a run.
LEMMA TakeEndKeeps ==
  ASSUME BridgeInv, NEW i, TakeEnd(i)
  PROVE  BridgeInv'
<1>1. BridgeTypeOK /\ Meets(i, "end")
  BY DEF BridgeInv, TakeEnd
<1>2. i \in DOMAIN row
  BY <1>1, MeetsFirst
<1>3. PICK r \in Run : r = row[i].run
  BY <1>1, <1>2, RowTyped
<1>4. /\ UNCHANGED <<run, history, row, bound, registered, early, inbound, turn, launch>>
      /\ UNCHANGED <<ownedRunIds, ownedText, closing, told, kept, faults>>
  BY DEF TakeEnd, claw, plugin, books, driving, owned
<1>5. /\ Taken(i) /\ poll'.echo = FALSE
      /\ poll'.at = IF Out(i, r) THEN "output" ELSE "ack"
      /\ poll' \in [at : {"idle", "next", "output", "ack"}, page : SUBSET DOMAIN row,
                    hand : {0} \cup DOMAIN row, last : {0} \cup DOMAIN row, echo : BOOLEAN]
      /\ observer' \in [after : {0} \cup DOMAIN row, runs : [Run -> SUBSET DOMAIN row],
                        recent : [Text -> Twin \cup {Nil}]]
  BY <1>3, TakeEndDoes
<1>6. BridgeTypeOK' /\ RunsOK'
  BY <1>1, <1>4, <1>5 DEF BridgeTypeOK, BridgeInv, RunsOK
<1>7. RowsOK' /\ KnownOK' /\ MarkedOK'
  BY <1>4, Unmoved DEF BridgeInv
<1>8. HeldOK' /\ HandOK' /\ PageOK' /\ EventsOK'
  BY <1>1, <1>5, TakenKeeps
<1>9. EchoOK'
  BY <1>4, <1>5 DEF BridgeInv, EchoOK, Answer
<1>10. RecentOK'
  BY <1>3, TakeEndRecent
<1>11. AckedOK'
  <2> SUFFICES ASSUME NEW j \in DOMAIN row, row[j].acked \/ (poll'.at = "ack" /\ j = i)
               PROVE  RowSafe(j)
    BY <1>4, <1>5, SaidStays DEF AckedOK, Taken
  <2>1. CASE row[j].acked
    BY <2>1 DEF BridgeInv, AckedOK
  <2>2. CASE poll'.at = "ack" /\ j = i
    BY <1>3, <1>5, <2>2, TakeEndIsSafe
  <2> QED
    BY <2>1, <2>2
<1> QED
  BY <1>6, <1>7, <1>8, <1>9, <1>10, <1>11 DEF BridgeInv

\* What taking a final message does.
LEMMA TakeFinalDoes ==
  ASSUME BridgeInv, NEW i, TakeFinal(i), NEW t \in Text, Says[row[i].run] = t
  PROVE  /\ Taken(i) /\ (poll'.echo <=> Echo(t))
         /\ poll'.at = IF ~ Echo(t) /\ ~ IsTwin(t, "message-final") THEN "output" ELSE "ack"
         /\ poll' \in [at : {"idle", "next", "output", "ack"}, page : SUBSET DOMAIN row,
                       hand : {0} \cup DOMAIN row, last : {0} \cup DOMAIN row, echo : BOOLEAN]
         /\ observer' \in [after : {0} \cup DOMAIN row, runs : [Run -> SUBSET DOMAIN row],
                           recent : [Text -> Twin \cup {Nil}]]
         /\ observer'.recent = IF Echo(t) THEN observer.recent ELSE Remember(t, "message-final")
         /\ ownedText' \in [Text -> Nat]
         /\ \A u \in Text : ownedText'[u] <= ownedText[u]
<1>1. BridgeTypeOK
  BY DEF BridgeInv
<1>2. i \in DOMAIN row /\ row[i].kind = "final"
  BY MeetsFirst DEF TakeFinal
<1>3. /\ Takes(i, ~ Echo(t) /\ ~ IsTwin(t, "message-final"), Echo(t))
      /\ observer' = [observer EXCEPT !.runs = SetAside,
                                      !.recent = IF Echo(t) THEN @
                                                 ELSE Remember(t, "message-final")]
      /\ ownedText' = [ownedText EXCEPT ![t] = IF Echo(t) THEN @ - 1 ELSE @]
      /\ row' = row
  BY DEF TakeFinal, plugin
<1>4. /\ SetAside \in [Run -> SUBSET DOMAIN row] /\ Rest \subseteq DOMAIN row
      /\ \A q \in Run : SetAside[q] = Held(q)
  BY <1>1, PollTyped DEF SetAside, Held, Passed, Rest
<1>5. Remember(t, "message-final") \in [Text -> Twin \cup {Nil}]
  BY <1>1 DEF Remember, BridgeTypeOK, Twin
<1>6. /\ poll'.page = Rest \ {i} /\ poll'.hand = i /\ poll'.last = poll.last
      /\ poll'.echo <=> Echo(t)
      /\ poll'.at = IF ~ Echo(t) /\ ~ IsTwin(t, "message-final") THEN "output" ELSE "ack"
      /\ poll' \in [at : {"idle", "next", "output", "ack"}, page : SUBSET DOMAIN row,
                    hand : {0} \cup DOMAIN row, last : {0} \cup DOMAIN row, echo : BOOLEAN]
  <2> DEFINE e == Echo(t)
  <2>1. e \in BOOLEAN
    BY DEF Echo
  <2>2. poll' = [poll EXCEPT !.at = IF ~ e /\ ~ IsTwin(t, "message-final")
                                    THEN "output" ELSE "ack",
                             !.page = Rest \ {i}, !.hand = i, !.echo = e]
    BY <1>3 DEF Takes
  <2> HIDE DEF e
  <2>3. /\ poll'.page = Rest \ {i} /\ poll'.hand = i /\ poll'.last = poll.last
        /\ poll'.echo = e
        /\ poll'.at = IF ~ e /\ ~ IsTwin(t, "message-final") THEN "output" ELSE "ack"
        /\ poll' \in [at : {"idle", "next", "output", "ack"}, page : SUBSET DOMAIN row,
                      hand : {0} \cup DOMAIN row, last : {0} \cup DOMAIN row, echo : BOOLEAN]
    BY <1>1, <1>2, <1>4, <2>1, <2>2 DEF BridgeTypeOK
  <2> QED
    BY <2>3 DEF e
<1>7. /\ observer'.after = observer.after /\ observer'.runs = SetAside
      /\ observer'.recent = IF Echo(t) THEN observer.recent ELSE Remember(t, "message-final")
      /\ observer' \in [after : {0} \cup DOMAIN row, runs : [Run -> SUBSET DOMAIN row],
                        recent : [Text -> Twin \cup {Nil}]]
  BY <1>1, <1>3, <1>4, <1>5 DEF BridgeTypeOK
<1>8. ownedText' \in [Text -> Nat] /\ \A u \in Text : ownedText'[u] <= ownedText[u]
  BY <1>1, <1>3 DEF Echo, BridgeTypeOK
<1>9. Taken(i)
  BY <1>2, <1>3, <1>4, <1>6, <1>7 DEF Taken
<1> QED
  BY <1>6, <1>7, <1>8, <1>9

\* A final message that is suppressed is shown already.
LEMMA TakeFinalIsSafe ==
  ASSUME BridgeInv, NEW i, TakeFinal(i), NEW t \in Text, Says[row[i].run] = t,
         Echo(t) \/ IsTwin(t, "message-final")
  PROVE  RowSafe(i) /\ (Shown(t) \/ Overtook(t))
<1>1. BridgeTypeOK /\ EchoOK /\ RecentOK /\ Meets(i, "final") /\ poll.at = "next"
  BY DEF BridgeInv, TakeFinal, Meets
<1>2. /\ i \in DOMAIN row /\ row[i].kind = "final" /\ Due(i)
      /\ \A j \in DOMAIN row : j < i /\ Due(j) => row[j].kind = "event"
  BY <1>1, MeetsFirst
<1>3. Echo(t) => Shown(t)
  BY <1>1 DEF Echo, EchoOK, Answer, Shown
<1>4. ASSUME IsTwin(t, "message-final")
      PROVE  Shown(t) \/ Overtook(t)
  <2>1. observer.recent[t] = "agent-event"
    BY <1>1, <1>4, PollTyped DEF IsTwin, Twin
  <2>2. ~ Waits(t, "agent-event")
    BY <1>1, <1>2, OnlyWait
  <2> QED
    BY <1>1, <2>1, <2>2 DEF RecentOK, Twin
<1>5. Shown(t) \/ Overtook(t)
  BY <1>3, <1>4
<1> QED
  BY <1>2, <1>5 DEF RowSafe, Said

\* The text that it leaves to be remembered is shown or waits for it.
LEMMA TakeFinalRecent ==
  ASSUME BridgeInv, NEW i, TakeFinal(i), NEW t \in Text, Says[row[i].run] = t
  PROVE  RecentOK'
<1>1. BridgeTypeOK /\ RecentOK /\ Meets(i, "final") /\ poll.at = "next"
  BY DEF BridgeInv, TakeFinal, Meets
<1>2. /\ i \in DOMAIN row /\ row[i].kind = "final" /\ Due(i)
      /\ \A j \in DOMAIN row : j < i /\ Due(j) => row[j].kind = "event"
  BY <1>1, MeetsFirst
<1>3. /\ Taken(i)
      /\ poll'.at = IF ~ Echo(t) /\ ~ IsTwin(t, "message-final") THEN "output" ELSE "ack"
      /\ observer'.recent = IF Echo(t) THEN observer.recent ELSE Remember(t, "message-final")
  BY TakeFinalDoes
<1>4. UNCHANGED <<row, told, kept, run>>
  BY DEF TakeFinal, plugin, claw
<1>5. \A j \in DOMAIN row : Due(j)' <=> Due(j)
  BY <1>3 DEF Due, Taken
<1>6. SUFFICES ASSUME NEW u \in Text, NEW k \in Twin, observer'.recent[u] = k, ~ Shown(u),
                      ~ Overtook(u)
               PROVE  poll'.at # "ack" /\ Waits(u, k)'
  BY <1>4, SaidStays DEF RecentOK
<1>7. CASE observer.recent[u] = k
  <2>1. Waits(u, k)
    BY <1>1, <1>6, <1>7 DEF RecentOK
  <2>2. Waits(u, k)'
    BY <1>4, <1>5, <2>1, SaidStays DEF Waits
  <2>3. u = t
    BY <1>1, <1>2, <2>1, OnlyWait
  <2>4. poll'.at # "ack"
    BY <1>3, <1>6, <2>3, TakeFinalIsSafe
  <2> QED
    BY <2>2, <2>4
<1>8. CASE observer.recent[u] # k
  <2>1. ~ Echo(t) /\ observer'.recent = Remember(t, "message-final")
    BY <1>3, <1>6, <1>8
  <2>2. u = t /\ ~ IsTwin(u, "message-final") /\ k = "message-final"
    BY <1>1, <1>6, <1>8, <2>1 DEF Remember, Twin, Nil, BridgeTypeOK
  <2> QED
    BY <1>2, <1>3, <1>4, <1>5, <2>1, <2>2 DEF Waits
<1> QED
  BY <1>7, <1>8

\* The loop takes a final message.
LEMMA TakeFinalKeeps ==
  ASSUME BridgeInv, NEW i, TakeFinal(i)
  PROVE  BridgeInv'
<1>1. BridgeTypeOK /\ Meets(i, "final")
  BY DEF BridgeInv, TakeFinal
<1>2. i \in DOMAIN row
  BY <1>1, MeetsFirst
<1>3. PICK t \in Text : t = Says[row[i].run]
  BY <1>1, <1>2, RowTyped, SaysTyped
<1>4. /\ UNCHANGED <<run, history, row, bound, registered, early, inbound, turn, launch>>
      /\ UNCHANGED <<ownedRunIds, closing, told, kept, faults>>
  BY DEF TakeFinal, claw, plugin, books, driving
<1>5. /\ Taken(i) /\ (poll'.echo <=> Echo(t))
      /\ poll'.at = IF ~ Echo(t) /\ ~ IsTwin(t, "message-final") THEN "output" ELSE "ack"
      /\ poll' \in [at : {"idle", "next", "output", "ack"}, page : SUBSET DOMAIN row,
                    hand : {0} \cup DOMAIN row, last : {0} \cup DOMAIN row, echo : BOOLEAN]
      /\ observer' \in [after : {0} \cup DOMAIN row, runs : [Run -> SUBSET DOMAIN row],
                        recent : [Text -> Twin \cup {Nil}]]
      /\ ownedText' \in [Text -> Nat]
      /\ \A u \in Text : ownedText'[u] <= ownedText[u]
  BY <1>3, TakeFinalDoes
<1>6. BridgeTypeOK' /\ RunsOK'
  BY <1>1, <1>4, <1>5 DEF BridgeTypeOK, BridgeInv, RunsOK
<1>7. RowsOK' /\ KnownOK' /\ MarkedOK'
  BY <1>4, Unmoved DEF BridgeInv
<1>8. HeldOK' /\ HandOK' /\ PageOK' /\ EventsOK'
  BY <1>1, <1>5, TakenKeeps
<1>9. EchoOK'
  <2>1. \A u \in Text : ownedText'[u] > 0 => ownedText[u] > 0
    BY <1>1, <1>5 DEF BridgeTypeOK
  <2>2. \A u \in Text : ownedText[u] > 0 => Answer(u)
    BY DEF BridgeInv, EchoOK
  <2>3. Echo(t) => Answer(t) /\ poll'.at = "ack"
    BY <1>5, <2>2 DEF Echo
  <2>4. poll'.hand = i
    BY <1>5 DEF Taken
  <2> QED
    BY <1>3, <1>4, <1>5, <2>1, <2>2, <2>3, <2>4 DEF EchoOK, Answer
<1>10. RecentOK'
  BY <1>3, TakeFinalRecent
<1>11. AckedOK'
  <2> SUFFICES ASSUME NEW j \in DOMAIN row, row[j].acked \/ (poll'.at = "ack" /\ j = i)
               PROVE  RowSafe(j)
    BY <1>4, <1>5, SaidStays DEF AckedOK, Taken
  <2>1. CASE row[j].acked
    BY <2>1 DEF BridgeInv, AckedOK
  <2>2. CASE poll'.at = "ack" /\ j = i
    BY <1>3, <1>5, <2>2, TakeFinalIsSafe
  <2> QED
    BY <2>1, <2>2
<1> QED
  BY <1>6, <1>7, <1>8, <1>9, <1>10, <1>11 DEF BridgeInv

\* A poll that is through with its page, or that was given up.
LEMMA IdleKeeps ==
  ASSUME BridgeInv, poll' = NoPoll, UNCHANGED <<claw, row, inbound, told, kept>>,
         BridgeTypeOK', RunsOK',
         HeldOK', EventsOK', RecentOK', KnownOK', MarkedOK',
         \A t \in Text : ownedText'[t] > 0 => Answer(t)
  PROVE  BridgeInv'
<1>1. HandOK' /\ PageOK'
  BY DEF HandOK, PageOK, NoPoll
<1>2. EchoOK'
  BY DEF EchoOK, NoPoll, Answer
<1>3. RowsOK'
  BY DEF BridgeInv, RowsOK, claw
<1>4. AckedOK'
  BY SaidStays DEF BridgeInv, AckedOK, NoPoll, claw
<1> QED
  BY <1>1, <1>2, <1>3, <1>4 DEF BridgeInv

\* No poll is a poll.
LEMMA NoPollTyped ==
  NoPoll \in [at : {"idle", "next", "output", "ack"}, page : SUBSET DOMAIN row,
              hand : {0} \cup DOMAIN row, last : {0} \cup DOMAIN row, echo : BOOLEAN]
  BY DEF NoPoll

\* A page is fetched.
LEMMA FetchKeeps ==
  ASSUME BridgeInv, Fetch
  PROVE  BridgeInv'
<1>1. BridgeTypeOK
  BY DEF BridgeInv
<1>2. PICK last \in Pending :
        /\ \A i \in Pending : i <= last
        /\ poll' = [NoPoll EXCEPT !.at = "next", !.page = Pending, !.last = last]
  BY DEF Fetch
<1>3. Pending = {i \in DOMAIN row : Due(i)}
  BY DEF Pending, Due
<1>4. /\ poll'.at = "next" /\ poll'.page = Pending /\ poll'.last = last /\ poll'.hand = 0
      /\ poll'.echo = FALSE
      /\ poll' \in [at : {"idle", "next", "output", "ack"}, page : SUBSET DOMAIN row,
                    hand : {0} \cup DOMAIN row, last : {0} \cup DOMAIN row, echo : BOOLEAN]
  BY <1>2, <1>3 DEF NoPoll
<1>5. /\ UNCHANGED <<run, history, row, bound, registered, early, inbound, turn, launch>>
      /\ UNCHANGED <<ownedRunIds, ownedText, observer, closing, told, kept, faults>>
  BY DEF Fetch, claw, plugin, books, driving, owned
<1>6. BridgeTypeOK' /\ RunsOK'
  BY <1>1, <1>4, <1>5 DEF BridgeTypeOK, BridgeInv, RunsOK
<1>7. RowsOK' /\ KnownOK' /\ MarkedOK'
  BY <1>5, Unmoved DEF BridgeInv
<1>8. HeldOK' /\ EventsOK'
  BY <1>5 DEF BridgeInv, HeldOK, EventsOK
<1>9. HandOK'
  BY <1>4 DEF HandOK
<1>10. \A i : Due(i)' <=> Due(i)
  BY <1>5 DEF Due
<1>11. PageOK'
  BY <1>2, <1>3, <1>4, <1>5, <1>10 DEF PageOK, Due
<1>12. EchoOK'
  BY <1>4, <1>5 DEF BridgeInv, EchoOK, Answer
<1>13. RecentOK'
  <2>1. \A t, k : Waits(t, k)' <=> Waits(t, k)
    BY <1>5, <1>10, SaidStays DEF Waits
  <2> QED
    BY <1>4, <1>5, <2>1, SaidStays DEF BridgeInv, RecentOK
<1>14. AckedOK'
  BY <1>4, <1>5, SaidStays DEF BridgeInv, AckedOK
<1> QED
  BY <1>6, <1>7, <1>8, <1>9, <1>11, <1>12, <1>13, <1>14 DEF BridgeInv

\* The page is done, and passed over.
LEMMA EndPageKeeps ==
  ASSUME BridgeInv, EndPage
  PROVE  BridgeInv'
<1>1. BridgeTypeOK /\ PageOK /\ HandOK /\ poll.at = "next" /\ poll.hand = 0
  BY DEF BridgeInv, EndPage, HandOK
<1>2. /\ UNCHANGED <<run, history, row, bound, registered, early, inbound, turn, launch>>
      /\ UNCHANGED <<ownedRunIds, ownedText, closing, told, kept, faults>>
      /\ poll' = NoPoll
      /\ observer' = [observer EXCEPT !.after = poll.last, !.runs = SetAside]
  BY DEF EndPage, claw, plugin, books, driving, owned
<1>3. /\ SetAside \in [Run -> SUBSET DOMAIN row]
      /\ \A q \in Run : SetAside[q] = Held(q)
  BY <1>1, PollTyped DEF SetAside, Held, Passed
<1>4. /\ observer'.after = poll.last /\ observer'.runs = SetAside
      /\ observer'.recent = observer.recent
      /\ observer' \in [after : {0} \cup DOMAIN row, runs : [Run -> SUBSET DOMAIN row],
                        recent : [Text -> Twin \cup {Nil}]]
  BY <1>1, <1>2, <1>3 DEF BridgeTypeOK
<1>5. BridgeTypeOK' /\ RunsOK'
  BY <1>1, <1>2, <1>4, NoPollTyped DEF BridgeTypeOK, BridgeInv, RunsOK
<1>6. KnownOK' /\ MarkedOK'
  BY <1>2, Unmoved DEF BridgeInv
<1>7. \A i \in Passed : row[i].kind = "event" /\ i \in DOMAIN row
  BY <1>1, PollTyped, RowTyped DEF Passed
<1>8. poll.page = Passed
  BY DEF EndPage, Rest, Passed
<1>9. HeldOK'
  <2> SUFFICES ASSUME NEW q \in Run, NEW i \in Held(q)
               PROVE  row[i].run = q /\ row[i].kind # "final"
    BY <1>2, <1>3, <1>4 DEF HeldOK
  <2> QED
    BY <1>7 DEF Held, BridgeInv, HeldOK
<1>10. ASSUME NEW i \in DOMAIN row, Due(i)
       PROVE  i > poll.last \/ (row[i].kind = "event" /\ i \in Held(row[i].run))
  <2>1. i \in Nat /\ i # 0 /\ poll.last \in Nat
    BY <1>1, PollTyped, RowTyped
  <2>2. CASE i \in poll.page
    BY <1>7, <1>8, <2>2 DEF Held
  <2>3. CASE i \in observer.runs[row[i].run] /\ row[i].kind = "event"
    BY <2>3 DEF Held
  <2> QED
    BY <1>1, <1>10, <2>1, <2>2, <2>3 DEF PageOK
<1>11. EventsOK'
  <2> SUFFICES ASSUME NEW i \in DOMAIN row, row[i].kind = "event", ~ row[i].acked
               PROVE  i > poll.last \/ i \in Held(row[i].run)
    BY <1>1, <1>2, <1>3, <1>4, RowTyped DEF EventsOK
  <2> QED
    BY <1>10 DEF Due, BridgeInv, EventsOK, Held
<1>12. RecentOK'
  <2> SUFFICES ASSUME NEW t \in Text, NEW k \in Twin, Waits(t, k)
               PROVE  Waits(t, k)'
    BY <1>1, <1>2, <1>4, SaidStays DEF BridgeInv, RecentOK, NoPoll
  <2>1. PICK i \in DOMAIN row : Waits(t, k)!(i)
    BY DEF Waits
  <2>2. i > poll.last
    BY <1>10, <2>1
  <2>3. \A j \in DOMAIN row : Due(j)' => Due(j)
    BY <1>1, <1>2, <1>4, PollTyped, RowTyped DEF PageOK, Due
  <2> QED
    BY <1>2, <1>4, <2>1, <2>2, <2>3, SaidStays DEF Waits, Due
<1> QED
  BY <1>2, <1>5, <1>6, <1>9, <1>11, <1>12, IdleKeeps DEF BridgeInv, EchoOK, claw

\* The delivery in hand is the first that is due, but for events.
LEMMA HandIsFirst ==
  ASSUME BridgeInv, poll.hand # 0
  PROVE  /\ poll.hand \in DOMAIN row /\ row[poll.hand].kind # "event" /\ Due(poll.hand)
         /\ \A j \in DOMAIN row : j < poll.hand /\ Due(j) => row[j].kind = "event"
<1>1. BridgeTypeOK /\ HandOK /\ PageOK /\ poll.at # "idle"
  BY DEF BridgeInv, HandOK
<1>2. /\ poll.hand \in DOMAIN row /\ row[poll.hand].kind # "event" /\ Due(poll.hand)
      /\ poll.hand <= poll.last /\ \A i \in poll.page : i > poll.hand
  BY <1>1, PollTyped DEF HandOK
<1>3. ASSUME NEW j \in DOMAIN row, j < poll.hand, Due(j)
      PROVE  row[j].kind = "event"
  <2>1. j \in Nat /\ poll.last \in Nat /\ poll.hand \in Nat
    BY <1>1, <1>2, PollTyped, RowTyped
  <2>2. j <= poll.last /\ j # poll.hand
    BY <1>2, <1>3, <2>1
  <2>3. j \notin poll.page
    BY <1>2, <1>3, <2>1
  <2> QED
    BY <1>1, <1>3, <2>2, <2>3 DEF PageOK
<1> QED
  BY <1>2, <1>3

\* The controller keeps the output.
LEMMA OutputKeeps ==
  ASSUME BridgeInv, Output
  PROVE  BridgeInv'
<1>1. BridgeTypeOK /\ HandOK /\ RecentOK /\ poll.at = "output" /\ poll.hand # 0
  BY DEF BridgeInv, Output, HandOK
<1>2. /\ poll.hand \in DOMAIN row /\ row[poll.hand].kind # "event" /\ Due(poll.hand)
      /\ \A j \in DOMAIN row : j < poll.hand /\ Due(j) => row[j].kind = "event"
  BY <1>1, HandIsFirst
<1>3. PICK i \in DOMAIN row : i = poll.hand
  BY <1>2
<1>4. PICK r \in Run : r = row[i].run
  BY <1>1, RowTyped
<1>5. PICK k \in {"end", "final"} : k = row[i].kind
  BY <1>1, <1>2, <1>3, RowTyped DEF Kind
<1>6. /\ UNCHANGED <<run, history, row, bound, registered, early, inbound, turn, launch>>
      /\ UNCHANGED <<ownedRunIds, ownedText, observer, closing, told, faults>>
      /\ kept' = kept \cup {<<r, k>>}
      /\ poll' = [poll EXCEPT !.at = "ack"]
  BY <1>3, <1>4, <1>5 DEF Output, claw, plugin, books, driving, owned
<1>7. /\ poll'.at = "ack" /\ poll'.page = poll.page /\ poll'.hand = i /\ poll'.last = poll.last
      /\ poll'.echo = poll.echo
      /\ poll' \in [at : {"idle", "next", "output", "ack"}, page : SUBSET DOMAIN row,
                    hand : {0} \cup DOMAIN row, last : {0} \cup DOMAIN row, echo : BOOLEAN]
  BY <1>1, <1>3, <1>6 DEF BridgeTypeOK
<1>8. kept' \subseteq Run \X {"end", "final"}
  BY <1>1, <1>5, <1>6 DEF BridgeTypeOK
<1>9. BridgeTypeOK' /\ RunsOK'
  <2>1. /\ UNCHANGED <<run, history, row, bound, registered, early, inbound, turn, launch>>
        /\ UNCHANGED <<ownedRunIds, ownedText, observer, closing, told, faults>>
    BY <1>6
  <2>2. BridgeTypeOK'
    BY <1>1, <1>7, <1>8, <2>1 DEF BridgeTypeOK
  <2> QED
    BY <2>1, <2>2 DEF BridgeInv, RunsOK
<1>10. RowsOK' /\ KnownOK' /\ MarkedOK'
  BY <1>6, Unmoved DEF BridgeInv
<1>11. HeldOK' /\ EventsOK'
  BY <1>6 DEF BridgeInv, HeldOK, EventsOK
<1>12. \A j : Due(j)' <=> Due(j)
  BY <1>6 DEF Due
<1>13. HandOK' /\ PageOK'
  BY <1>1, <1>3, <1>6, <1>7, <1>12 DEF BridgeInv, HandOK, PageOK
<1>14. EchoOK'
  BY <1>1, <1>6, <1>7 DEF BridgeInv, EchoOK, Answer
<1>15. Shown(Says[r])' /\ <<r, k>> \in kept'
  <2>1. <<r, k>> \in kept' /\ <<r, k>>[1] = r
    BY <1>6
  <2> QED
    BY <2>1 DEF Shown
<1>16. \A t : (Shown(t) => Shown(t)') /\ (Overtook(t) => Overtook(t)')
  BY <1>6 DEF Shown, Overtook
<1>17. RecentOK'
  <2>1. ASSUME NEW t \in Text, NEW kind \in Twin, Waits(t, kind)
        PROVE  Shown(t)'
    <3>1. Says[r] = t
      BY <1>1, <1>2, <1>3, <1>4, <2>1, OnlyWait
    <3> QED
      BY <1>15, <3>1
  <2>2. observer' = observer
    BY <1>6
  <2> QED
    BY <1>1, <1>16, <2>1, <2>2 DEF RecentOK
<1>18. \A j \in DOMAIN row : RowSafe(j) => RowSafe(j)'
  BY <1>6, <1>16 DEF RowSafe, EndSafe, Said, Stored
<1>19. RowSafe(i)'
  BY <1>4, <1>5, <1>6, <1>15 DEF RowSafe, EndSafe, Said, Stored
<1>20. AckedOK'
  BY <1>6, <1>7, <1>18, <1>19 DEF BridgeInv, AckedOK
<1> QED
  BY <1>9, <1>10, <1>11, <1>13, <1>14, <1>17, <1>20 DEF BridgeInv

\* It does not, and the page is read again.
LEMMA OutputFailsKeeps ==
  ASSUME BridgeInv, OutputFails
  PROVE  BridgeInv'
<1>1. BridgeTypeOK /\ poll.at = "output"
  BY DEF BridgeInv, OutputFails
<1>2. /\ UNCHANGED <<run, history, row, bound, registered, early, inbound, turn, launch>>
      /\ UNCHANGED <<ownedRunIds, ownedText, observer, closing, told, kept>>
      /\ poll' = NoPoll
  BY DEF OutputFails, claw, plugin, books, driving, owned
<1>3. faults' \in 0 .. MaxFaults
  BY <1>1, FaultTyped DEF OutputFails
<1>4. BridgeTypeOK' /\ RunsOK'
  BY <1>1, <1>2, <1>3, NoPollTyped DEF BridgeTypeOK, BridgeInv, RunsOK
<1>5. KnownOK' /\ MarkedOK'
  BY <1>2, Unmoved DEF BridgeInv
<1>6. HeldOK' /\ EventsOK'
  BY <1>2 DEF BridgeInv, HeldOK, EventsOK
<1>7. RecentOK'
  <2>1. \A t, k : Waits(t, k) => Waits(t, k)'
    BY <1>2, SaidStays DEF Waits, Due
  <2> QED
    BY <1>2, <2>1, SaidStays DEF BridgeInv, RecentOK, NoPoll
<1> QED
  BY <1>2, <1>4, <1>5, <1>6, <1>7, IdleKeeps DEF BridgeInv, EchoOK, claw

\* A step of the driver alone stays in the domain with what it changes.
LEMMA StillTyped ==
  ASSUME BridgeTypeOK,
         UNCHANGED <<run, history, row, bound, registered, early, inbound, told, kept>>,
         turn' \in [stage : {Nil, "starting", "open"}, run : Mine \cup {Nil},
                   cursor : Run \cup {Nil}],
         launch' \in [at : {Nil, "asked", "accepted"}, run : Mine \cup {Nil},
                     cursor : Run \cup {Nil}],
         ownedRunIds' \subseteq Mine, ownedText' \in [Text -> Nat],
         poll' \in [at : {"idle", "next", "output", "ack"}, page : SUBSET DOMAIN row,
                   hand : {0} \cup DOMAIN row, last : {0} \cup DOMAIN row, echo : BOOLEAN],
         observer' \in [after : {0} \cup DOMAIN row, runs : [Run -> SUBSET DOMAIN row],
                       recent : [Text -> Twin \cup {Nil}]],
         closing' \in BOOLEAN, faults' \in 0 .. MaxFaults
  PROVE  BridgeTypeOK'
<1>1. DOMAIN row' = DOMAIN row
  OBVIOUS
<1>2. /\ poll' \in [at : {"idle", "next", "output", "ack"}, page : SUBSET DOMAIN row',
                     hand : {0} \cup DOMAIN row', last : {0} \cup DOMAIN row', echo : BOOLEAN]
      /\ observer' \in [after : {0} \cup DOMAIN row', runs : [Run -> SUBSET DOMAIN row'],
                        recent : [Text -> Twin \cup {Nil}]]
  BY <1>1
<1>3. /\ run' \in [Run -> {Nil} \cup Going \cup Over]
      /\ history' \in Seq(Run) /\ row' \in Seq(Row) /\ bound' \in BOOLEAN
      /\ early' \subseteq registered' /\ registered' \subseteq Mine
      /\ inbound' \in [In -> [at : {Nil, "pending", "running", "delivered", "failed"},
                              run : Ext \cup {Nil}]]
      /\ told' \subseteq Run /\ kept' \subseteq Run \X {"end", "final"}
  BY DEF BridgeTypeOK
<1> QED
  BY <1>2, <1>3 DEF BridgeTypeOK

\* The twins are forgotten.
LEMMA ForgetKeeps ==
  ASSUME BridgeInv, Forget
  PROVE  BridgeInv'
<1>1. BridgeTypeOK
  BY DEF BridgeInv
<1>2. /\ UNCHANGED <<run, history, row, bound, registered, early, inbound, turn, launch>>
      /\ UNCHANGED <<ownedRunIds, ownedText, poll, closing, told, kept, faults>>
      /\ observer' = [observer EXCEPT !.recent = NoObserver.recent]
  BY DEF Forget, claw, plugin, books, driving, owned
<1>3. NoObserver.recent = [t \in Text |-> Nil]
  BY DEF NoObserver
<1>4. /\ observer'.after = observer.after /\ observer'.runs = observer.runs
      /\ \A t \in Text : observer'.recent[t] = Nil
      /\ observer' \in [after : {0} \cup DOMAIN row, runs : [Run -> SUBSET DOMAIN row],
                        recent : [Text -> Twin \cup {Nil}]]
  BY <1>1, <1>2, <1>3 DEF BridgeTypeOK
<1>5. BridgeTypeOK' /\ RunsOK'
  <2>1. BridgeTypeOK'
    <3>1. /\ turn \in [stage : {Nil, "starting", "open"}, run : Mine \cup {Nil},
                      cursor : Run \cup {Nil}]
          /\ launch \in [at : {Nil, "asked", "accepted"}, run : Mine \cup {Nil},
                        cursor : Run \cup {Nil}]
          /\ ownedRunIds \subseteq Mine /\ ownedText \in [Text -> Nat]
          /\ poll \in [at : {"idle", "next", "output", "ack"}, page : SUBSET DOMAIN row,
                      hand : {0} \cup DOMAIN row, last : {0} \cup DOMAIN row, echo : BOOLEAN]
          /\ closing \in BOOLEAN /\ faults \in 0 .. MaxFaults
      BY <1>1 DEF BridgeTypeOK
    <3> QED
      BY <1>1, <1>2, <1>4, <3>1, StillTyped
  <2>2. RunsOK'
    BY <1>2 DEF BridgeInv, RunsOK
  <2> QED
    BY <2>1, <2>2
<1>6. RowsOK' /\ KnownOK' /\ MarkedOK'
  BY <1>2, Unmoved DEF BridgeInv
<1>7. HeldOK' /\ EventsOK'
  BY <1>2, <1>4 DEF BridgeInv, HeldOK, EventsOK
<1>8. HandOK' /\ PageOK'
  BY <1>2, <1>4 DEF BridgeInv, HandOK, PageOK, Due
<1>9. EchoOK'
  BY <1>2 DEF BridgeInv, EchoOK, Answer
<1>10. RecentOK'
  BY <1>4 DEF RecentOK, Twin, Nil
<1>11. AckedOK'
  BY <1>2, SaidStays DEF BridgeInv, AckedOK
<1> QED
  BY <1>5, <1>6, <1>7, <1>8, <1>9, <1>10, <1>11 DEF BridgeInv

\* No turn and no launch follow a run.
LEMMA NoTurnTyped ==
  /\ NoGeneration \in [stage : {Nil, "starting", "open"}, run : Mine \cup {Nil},
                       cursor : Run \cup {Nil}]
  /\ NoLaunch \in [at : {Nil, "asked", "accepted"}, run : Mine \cup {Nil},
                   cursor : Run \cup {Nil}]
  /\ NoGeneration.stage # "open" /\ NoLaunch.at = Nil
  /\ turn' = NoGeneration /\ launch' = NoLaunch => \A r \in Mine : ~ Follows(r)'
  BY BridgeAssumption DEF NoGeneration, NoLaunch, Nil, Follows, Run

\* The driver closes.
LEMMA CloseKeeps ==
  ASSUME BridgeInv, Close
  PROVE  BridgeInv'
<1>1. BridgeTypeOK
  BY DEF BridgeInv
<1>2. /\ UNCHANGED <<run, history, row, bound, registered, early, inbound>>
      /\ UNCHANGED <<ownedRunIds, ownedText, observer, told, kept>>
      /\ turn' = NoGeneration /\ launch' = NoLaunch /\ closing' = TRUE
      /\ poll' = IF poll.at \in {"output", "ack"} THEN poll ELSE NoPoll
  BY DEF Close, claw, plugin, books, owned
<1>3. faults' \in 0 .. MaxFaults
  BY <1>1, FaultTyped DEF Close
<1>4. BridgeTypeOK' /\ RunsOK'
  BY <1>1, <1>2, <1>3, NoPollTyped, NoTurnTyped DEF BridgeTypeOK, BridgeInv, RunsOK
<1>5. KnownOK' /\ MarkedOK'
  BY <1>2, NoTurnTyped DEF BridgeInv, KnownOK, MarkedOK
<1>6. HeldOK' /\ EventsOK' /\ RowsOK'
  BY <1>2 DEF BridgeInv, HeldOK, EventsOK, RowsOK
<1>7. RecentOK'
  <2>1. \A t, k : Waits(t, k) => Waits(t, k)'
    BY <1>2, SaidStays DEF Waits, Due
  <2>2. poll'.at = "ack" => poll.at = "ack"
    BY <1>2 DEF NoPoll
  <2> QED
    BY <1>2, <2>1, <2>2, SaidStays DEF BridgeInv, RecentOK
<1>8. CASE poll' = poll
  <2>1. HandOK' /\ PageOK'
    BY <1>2, <1>8 DEF BridgeInv, HandOK, PageOK, Due
  <2>2. EchoOK'
    BY <1>2, <1>8 DEF BridgeInv, EchoOK, Answer
  <2>3. AckedOK'
    BY <1>2, <1>8, SaidStays DEF BridgeInv, AckedOK
  <2> QED
    BY <1>4, <1>5, <1>6, <1>7, <2>1, <2>2, <2>3 DEF BridgeInv
<1>9. CASE poll' = NoPoll
  BY <1>2, <1>4, <1>5, <1>6, <1>7, <1>9, IdleKeeps DEF BridgeInv, EchoOK, claw
<1> QED
  BY <1>2, <1>8, <1>9

\* A driver starts anew, with the records as they are.
LEMMA FreshKeeps ==
  ASSUME BridgeInv, Fresh, UNCHANGED <<claw, plugin, told, kept>>, faults' \in 0 .. MaxFaults
  PROVE  BridgeInv'
<1>1. BridgeTypeOK
  BY DEF BridgeInv
<1>2. /\ UNCHANGED <<run, history, row, bound, registered, early, inbound, told, kept>>
      /\ ownedRunIds' = {} /\ ownedText' = [t \in Text |-> 0]
      /\ turn' = NoGeneration /\ launch' = NoLaunch /\ closing' = FALSE
      /\ poll' = NoPoll /\ observer' = NoObserver
  BY DEF Fresh, claw, plugin, books
<1>3. /\ NoObserver.after = 0 /\ (\A r \in Run : NoObserver.runs[r] = {})
      /\ (\A t \in Text : NoObserver.recent[t] = Nil)
      /\ NoObserver \in [after : {0} \cup DOMAIN row, runs : [Run -> SUBSET DOMAIN row],
                         recent : [Text -> Twin \cup {Nil}]]
  BY DEF NoObserver
<1>4. ownedText' \in [Text -> Nat] /\ \A t \in Text : ownedText'[t] = 0
  BY <1>2
<1>5. BridgeTypeOK' /\ RunsOK'
  <2>1. BridgeTypeOK'
    BY <1>1, <1>2, <1>3, <1>4, NoPollTyped, NoTurnTyped, StillTyped
  <2>2. RunsOK'
    BY <1>2, NoTurnTyped DEF BridgeInv, RunsOK
  <2> QED
    BY <2>1, <2>2
<1>6. KnownOK' /\ MarkedOK'
  BY <1>2, NoTurnTyped DEF BridgeInv, KnownOK, MarkedOK
<1>7. HeldOK' /\ EventsOK'
  BY <1>1, <1>2, <1>3, RowTyped DEF HeldOK, EventsOK
<1>8. RecentOK'
  BY <1>2, <1>3 DEF RecentOK, Twin, Nil
<1> QED
  BY <1>2, <1>4, <1>5, <1>6, <1>7, <1>8, IdleKeeps DEF claw

\* Records are only marked as acknowledged.
Marks(ids) ==
  /\ row' \in Seq(Row) /\ DOMAIN row' = DOMAIN row
  /\ \A i \in DOMAIN row :
       /\ row'[i].run = row[i].run /\ row'[i].kind = row[i].kind
       /\ row'[i].owned <=> row[i].owned
       /\ row'[i].acked <=> row[i].acked \/ i \in ids

\* An acknowledgement does no more than that.
LEMMA AcknowledgeMarks ==
  ASSUME BridgeTypeOK, NEW ids, Acknowledge(ids)
  PROVE  Marks(ids)
<1> DEFINE b(i) == row[i].acked \/ i \in ids
<1>1. \A i : b(i) \in BOOLEAN
  OBVIOUS
<1>2. row' = [i \in DOMAIN row |-> [row[i] EXCEPT !.acked = b(i)]]
  BY DEF Acknowledge
<1>3. DOMAIN row = 1 .. Len(row) /\ Len(row) \in Nat /\ \A i \in DOMAIN row : row[i] \in Row
  BY LenProperties, ElementOfSeq DEF BridgeTypeOK
<1> HIDE DEF b
<1>4. \A i \in DOMAIN row :
        /\ row'[i] \in Row /\ row'[i].run = row[i].run /\ row'[i].kind = row[i].kind
        /\ row'[i].owned = row[i].owned /\ row'[i].acked = b(i)
  BY <1>1, <1>2, <1>3 DEF Row
<1>5. row' \in Seq(Row)
  <2>1. row' \in [1 .. Len(row) -> Row]
    BY <1>2, <1>3, <1>4
  <2> QED
    BY <1>3, <2>1, SeqDef
<1> QED
  BY <1>2, <1>4, <1>5 DEF b, Marks

\* What the receipt covers: the delivery in hand and, if it is an end, the events of its run.
LEMMA ReceiptCovers ==
  ASSUME BridgeInv, poll.at = "ack"
  PROVE  /\ poll.hand \in DOMAIN row /\ poll.hand \in Receipt /\ RowSafe(poll.hand)
         /\ row[poll.hand].kind \in {"end", "final"}
         /\ \A i \in Receipt : /\ i \in DOMAIN row
                               /\ i # poll.hand => row[poll.hand].kind = "end"
                                                   /\ row[i].kind = "event"
                                                   /\ row[i].run = row[poll.hand].run
<1>1. BridgeTypeOK /\ RowsOK /\ HeldOK /\ HandOK /\ AckedOK /\ poll.hand # 0
  BY DEF BridgeInv, HandOK
<1>2. /\ poll.hand \in DOMAIN row /\ row[poll.hand].kind \in {"end", "final"}
      /\ row[poll.hand].run \in Run
  BY <1>1, PollTyped, RowTyped DEF HandOK, Kind
<1>3. RowSafe(poll.hand)
  BY <1>1, <1>2 DEF AckedOK
<1>4. CASE row[poll.hand].kind = "final"
  BY <1>2, <1>3, <1>4 DEF Receipt
<1>5. CASE row[poll.hand].kind = "end"
  <2>1. Receipt = observer.runs[row[poll.hand].run] /\ poll.hand \in Receipt
    BY <1>1, <1>5 DEF Receipt, HandOK
  <2>2. \A i \in Receipt : /\ i \in DOMAIN row /\ row[i].kind \in Kind
                           /\ row[i].run = row[poll.hand].run /\ row[i].kind # "final"
    BY <1>1, <1>2, <2>1, PollTyped, RowTyped DEF HeldOK
  <2>3. \A i \in Receipt : row[i].kind = "end" => i = poll.hand
    BY <1>1, <1>2, <1>5, <2>2 DEF RowsOK
  <2> QED
    BY <1>2, <1>3, <1>5, <2>1, <2>2, <2>3 DEF Kind
<1> QED
  BY <1>2, <1>4, <1>5

\* Nothing is lost with what a receipt covers.
LEMMA ReceiptKeeps ==
  ASSUME BridgeInv, poll.at = "ack", Marks(Receipt),
         UNCHANGED <<claw, registered, early, told, kept>>
  PROVE  /\ RowsOK' /\ MarkedOK'
         /\ \A i \in DOMAIN row : row'[i].acked => RowSafe(i)'
         /\ \A t : (Shown(t) => Shown(t)') /\ (Overtook(t) => Overtook(t)')
<1>1. BridgeTypeOK /\ RowsOK /\ MarkedOK /\ AckedOK /\ run' = run
  BY DEF BridgeInv, claw
<1>2. /\ poll.hand \in DOMAIN row /\ poll.hand \in Receipt /\ RowSafe(poll.hand)
      /\ row[poll.hand].kind \in {"end", "final"}
      /\ \A i \in Receipt : /\ i \in DOMAIN row
                            /\ i # poll.hand => row[poll.hand].kind = "end"
                                                /\ row[i].kind = "event"
                                                /\ row[i].run = row[poll.hand].run
  BY ReceiptCovers
<1>3. RowsOK'
  <2>1. \A i \in Receipt : row[i].kind # "final" => run[row[i].run] \in Over
    BY <1>1, <1>2 DEF RowsOK
  <2>2. SUFFICES ASSUME NEW i \in DOMAIN row
                 PROVE  RowsOK!(i)'
    BY DEF RowsOK, Marks
  <2>3. RowsOK!(i)
    BY <1>1 DEF RowsOK
  <2> QED
    BY <1>1, <2>1, <2>3 DEF Marks
<1>4. MarkedOK'
  BY <1>1 DEF MarkedOK, Marks
<1>5. \A t : (Shown(t)' <=> Shown(t)) /\ (Overtook(t)' <=> Overtook(t))
  BY DEF Shown, Overtook, Marks
<1>6. \A r, k : Stored(r, k)' <=> Stored(r, k)
  BY DEF Stored, Marks
<1>7. \A r : (EndSafe(r)' <=> EndSafe(r)) /\ (Said(r)' <=> Said(r))
  BY <1>1, <1>5, <1>6 DEF EndSafe, Said
<1>8. \A i \in DOMAIN row : RowSafe(i)' <=> RowSafe(i)
  BY <1>7 DEF RowSafe, Marks
<1>9. ASSUME NEW i \in DOMAIN row, row'[i].acked
      PROVE  RowSafe(i)
  <2>1. CASE row[i].acked \/ i = poll.hand
    BY <1>1, <1>2, <2>1 DEF AckedOK
  <2>2. CASE i \in Receipt /\ i # poll.hand
    BY <1>2, <2>2 DEF RowSafe
  <2> QED
    BY <1>9, <2>1, <2>2 DEF Marks
<1> QED
  BY <1>3, <1>4, <1>5, <1>8, <1>9

\* What is remembered when a receipt is due is in the chat.
LEMMA RecentIsShown ==
  ASSUME BridgeInv, poll.at = "ack", NEW t \in Text, NEW k \in Twin, observer.recent[t] = k
  PROVE  Shown(t) \/ Overtook(t)
  BY DEF BridgeInv, RecentOK

\* The receipt gets through.
LEMMA AckKeeps ==
  ASSUME BridgeInv, Ack
  PROVE  BridgeInv'
<1>1. /\ BridgeTypeOK /\ RowsOK /\ HeldOK /\ HandOK /\ PageOK /\ EventsOK /\ KnownOK
      /\ poll.at = "ack" /\ poll.hand # 0
  BY DEF BridgeInv, HandOK, Ack
<1>2. /\ poll.hand \in DOMAIN row /\ poll.hand \in Receipt
      /\ row[poll.hand].kind \in {"end", "final"}
      /\ \A i \in Receipt : /\ i \in DOMAIN row
                            /\ i # poll.hand => row[poll.hand].kind = "end"
                                                /\ row[i].kind = "event"
                                                /\ row[i].run = row[poll.hand].run
  BY <1>1, ReceiptCovers
<1>3. Marks(Receipt)
  BY <1>1, AcknowledgeMarks DEF Ack
<1>4. PICK s \in Run : s = row[poll.hand].run
  BY <1>1, <1>2, RowTyped
<1>5. /\ UNCHANGED <<run, history, bound, registered, early, inbound, turn, launch>>
      /\ UNCHANGED <<ownedText, closing, told, kept, faults>>
      /\ poll' = [poll EXCEPT !.at = "next", !.hand = 0, !.echo = FALSE]
  BY DEF Ack, claw, books, driving
<1>6. /\ poll'.at = "next" /\ poll'.page = poll.page /\ poll'.hand = 0 /\ poll'.last = poll.last
      /\ poll'.echo = FALSE
      /\ poll' \in [at : {"idle", "next", "output", "ack"}, page : SUBSET DOMAIN row,
                    hand : {0} \cup DOMAIN row, last : {0} \cup DOMAIN row, echo : BOOLEAN]
  BY <1>1, <1>5 DEF BridgeTypeOK
<1>7. /\ observer'.after = observer.after /\ observer'.recent = observer.recent
      /\ \A r \in Run : /\ observer'.runs[r] \subseteq observer.runs[r]
                        /\ \/ observer'.runs[r] = observer.runs[r]
                           \/ r = s /\ observer.runs[r] = Receipt
      /\ observer' \in [after : {0} \cup DOMAIN row, runs : [Run -> SUBSET DOMAIN row],
                        recent : [Text -> Twin \cup {Nil}]]
  <2>1. CASE row[poll.hand].kind = "end"
    <3>1. observer' = [observer EXCEPT !.runs[s] = {}] /\ Receipt = observer.runs[s]
      BY <1>4, <2>1 DEF Ack, Receipt
    <3> QED
      BY <1>1, <3>1 DEF BridgeTypeOK
  <2>2. CASE row[poll.hand].kind = "final"
    BY <1>1, <2>2 DEF Ack, BridgeTypeOK
  <2> QED
    BY <1>2, <2>1, <2>2
<1>8. /\ ownedRunIds' \subseteq ownedRunIds
      /\ \A r \in ownedRunIds : r \in ownedRunIds' \/ (r = s /\ row[poll.hand].kind = "end")
  BY <1>4 DEF Ack
<1>9. BridgeTypeOK' /\ RunsOK'
  <2>1. BridgeTypeOK'
    BY <1>1, <1>3, <1>5, <1>6, <1>7, <1>8 DEF BridgeTypeOK, Marks
  <2> QED
    BY <1>5, <2>1 DEF BridgeInv, RunsOK
<1>10. /\ RowsOK' /\ MarkedOK'
       /\ \A i \in DOMAIN row : row'[i].acked => RowSafe(i)'
       /\ \A t : (Shown(t) => Shown(t)') /\ (Overtook(t) => Overtook(t)')
  BY <1>1, <1>3, <1>5, ReceiptKeeps DEF claw
<1>11. HeldOK'
  BY <1>1, <1>3, <1>7, PollTyped DEF HeldOK, Marks
<1>12. HandOK'
  BY <1>6 DEF HandOK
<1>13. \A i \in DOMAIN row : Due(i)' <=> Due(i) /\ i \notin Receipt
  BY <1>3, <1>7 DEF Due, Marks
<1>14. PageOK'
  <2>1. \A i \in poll.page : row[i].kind # "event" => i \notin Receipt
    BY <1>1, <1>2, PollTyped, RowTyped DEF HandOK
  <2>2. ASSUME NEW i \in DOMAIN row, i <= poll.last, Due(i)'
        PROVE  i \in poll.page \/ (row[i].kind = "event" /\ i \in observer'.runs[row[i].run])
    <3>1. Due(i) /\ i # poll.hand /\ i \notin Receipt /\ row[i].run \in Run
      BY <1>1, <1>2, <1>13, <2>2, RowTyped
    <3>2. i \in poll.page \/ (row[i].kind = "event" /\ i \in observer.runs[row[i].run])
      BY <1>1, <2>2, <3>1 DEF PageOK
    <3> QED
      BY <1>7, <3>1, <3>2
  <2>3. \A i \in poll.page : i \in DOMAIN row
    BY <1>1, PollTyped
  <2> QED
    BY <1>1, <1>3, <1>6, <1>7, <1>13, <2>1, <2>2, <2>3 DEF PageOK, Marks
<1>15. EventsOK'
  <2> SUFFICES ASSUME NEW i \in DOMAIN row, row[i].kind = "event", ~ row'[i].acked
               PROVE  i > observer.after \/ i \in observer'.runs[row[i].run]
    BY <1>3, <1>7 DEF EventsOK, Marks
  <2>1. ~ row[i].acked /\ i \notin Receipt /\ row[i].run \in Run
    BY <1>1, <1>3, RowTyped DEF Marks
  <2> QED
    BY <1>1, <1>7, <2>1 DEF EventsOK
<1>16. EchoOK'
  BY <1>5, <1>6 DEF BridgeInv, EchoOK, Answer
<1>17. RecentOK'
  BY <1>1, <1>7, <1>10, RecentIsShown DEF RecentOK
<1>18. AckedOK'
  BY <1>3, <1>6, <1>10 DEF AckedOK, Marks
<1>19. KnownOK'
  <2> SUFFICES ASSUME NEW r \in Mine, Follows(r), r \notin ownedRunIds'
               PROVE  /\ run[r] \in Over
                      /\ \A i \in DOMAIN row : row[i].run = r /\ row[i].kind = "end" => row'[i].acked
    BY <1>3, <1>5 DEF KnownOK, Known, Follows, Marks
  <2>1. CASE r \in ownedRunIds
    <3>1. row[poll.hand].kind = "end" /\ row[poll.hand].run = r
      BY <1>4, <1>8, <2>1
    <3>2. run[r] \in Over
      BY <1>1, <1>2, <3>1 DEF RowsOK
    <3>3. \A i \in DOMAIN row : row[i].run = r /\ row[i].kind = "end" => i = poll.hand
      BY <1>1, <1>2, <3>1 DEF RowsOK
    <3> QED
      BY <1>2, <1>3, <3>2, <3>3 DEF Marks
  <2>2. CASE r \notin ownedRunIds
    BY <1>1, <1>3, <2>2 DEF KnownOK, Known, Marks
  <2> QED
    BY <2>1, <2>2
<1> QED
  BY <1>9, <1>10, <1>11, <1>12, <1>14, <1>15, <1>16, <1>17, <1>18, <1>19 DEF BridgeInv

\* The receipt, or its answer, is lost.
LEMMA AckFailsKeeps ==
  ASSUME BridgeInv, AckFails
  PROVE  BridgeInv'
<1>1. /\ BridgeTypeOK /\ HeldOK /\ EventsOK /\ EchoOK /\ KnownOK /\ poll.at = "ack"
  BY DEF BridgeInv, AckFails
<1>2. Marks(Receipt) \/ row' = row
  BY <1>1, AcknowledgeMarks DEF AckFails
<1>3. /\ row' \in Seq(Row) /\ DOMAIN row' = DOMAIN row
      /\ \A i \in DOMAIN row : /\ row'[i].run = row[i].run /\ row'[i].kind = row[i].kind
                               /\ row[i].acked => row'[i].acked
  BY <1>1, <1>2 DEF Marks, BridgeTypeOK
<1>4. /\ UNCHANGED <<run, history, bound, registered, early, inbound, turn, launch>>
      /\ UNCHANGED <<ownedRunIds, observer, closing, told, kept>>
      /\ poll' = NoPoll
  BY DEF AckFails, claw, books, driving
<1>5. /\ ownedText' \in [Text -> Nat]
      /\ \A t \in Text : ownedText'[t] > 0 => Answer(t)
  BY <1>1 DEF AckFails, EchoOK, BridgeTypeOK
<1>6. faults' \in 0 .. MaxFaults
  BY <1>1, FaultTyped DEF AckFails
<1>7. BridgeTypeOK' /\ RunsOK'
  <2>1. BridgeTypeOK'
    BY <1>1, <1>3, <1>4, <1>5, <1>6, NoPollTyped DEF BridgeTypeOK
  <2> QED
    BY <1>4, <2>1 DEF BridgeInv, RunsOK
<1>8. HeldOK'
  BY <1>1, <1>3, <1>4, PollTyped DEF HeldOK
<1>9. EventsOK'
  BY <1>1, <1>3, <1>4 DEF EventsOK
<1>10. KnownOK'
  BY <1>1, <1>3, <1>4 DEF KnownOK, Known, Follows
<1>11. CASE Marks(Receipt)
  <2>1. /\ RowsOK' /\ MarkedOK'
        /\ \A i \in DOMAIN row : row'[i].acked => RowSafe(i)'
        /\ \A t : (Shown(t) => Shown(t)') /\ (Overtook(t) => Overtook(t)')
    BY <1>1, <1>4, <1>11, ReceiptKeeps DEF claw
  <2>2. RecentOK'
    BY <1>1, <1>4, <2>1, RecentIsShown DEF RecentOK
  <2>3. HandOK' /\ PageOK'
    BY <1>4 DEF HandOK, PageOK, NoPoll
  <2>4. EchoOK'
    BY <1>4, <1>5 DEF EchoOK, NoPoll, Answer
  <2>5. AckedOK'
    BY <1>3, <1>4, <2>1 DEF AckedOK, NoPoll
  <2> QED
    BY <1>7, <1>8, <1>9, <1>10, <2>1, <2>2, <2>3, <2>4, <2>5 DEF BridgeInv
<1>12. CASE row' = row
  <2>1. RecentOK'
    BY <1>1, <1>4, <1>12, RecentIsShown, SaidStays DEF RecentOK
  <2>2. MarkedOK'
    BY <1>4, <1>12 DEF BridgeInv, MarkedOK
  <2> QED
    BY <1>4, <1>5, <1>7, <1>8, <1>9, <1>10, <1>12, <2>1, <2>2, IdleKeeps DEF claw
<1> QED
  BY <1>2, <1>11, <1>12

-----------------------------------------------------------------------------
(* The invariant *)

\* It holds before anything has run.
LEMMA BridgeInitOK ==
  ASSUME BridgeInit
  PROVE  BridgeInv
<1>1. row = <<>> /\ DOMAIN row = {} /\ row \in Seq(Row) /\ history \in Seq(Run)
  BY EmptySeq DEF BridgeInit
<1>2. /\ NoObserver.after = 0 /\ (\A r \in Run : NoObserver.runs[r] = {})
      /\ (\A t \in Text : NoObserver.recent[t] = Nil)
      /\ NoObserver \in [after : {0} \cup DOMAIN row, runs : [Run -> SUBSET DOMAIN row],
                         recent : [Text -> Twin \cup {Nil}]]
  BY DEF NoObserver
<1>3. inbound = [m \in In |-> [at |-> Nil, run |-> Nil]]
  BY DEF BridgeInit
<1>4. BridgeTypeOK
  <2>1. /\ run \in [Run -> {Nil} \cup Going \cup Over]
        /\ inbound \in [In -> [at : {Nil, "pending", "running", "delivered", "failed"},
                              run : Ext \cup {Nil}]]
        /\ ownedText \in [Text -> Nat]
    BY <1>3 DEF BridgeInit
  <2>2. /\ bound \in BOOLEAN /\ early \subseteq registered /\ registered \subseteq Mine
        /\ ownedRunIds \subseteq Mine /\ closing \in BOOLEAN /\ told \subseteq Run
        /\ kept \subseteq Run \X {"end", "final"}
    BY DEF BridgeInit
  <2>3. faults \in 0 .. MaxFaults
    BY BridgeAssumption DEF BridgeInit
  <2>4. turn = NoGeneration /\ launch = NoLaunch /\ poll = NoPoll /\ observer = NoObserver
    BY DEF BridgeInit
  <2> QED
    BY <1>1, <1>2, <2>1, <2>2, <2>3, <2>4, NoPollTyped, NoTurnTyped DEF BridgeTypeOK
<1>5. RunsOK
  BY <1>3, NoTurnTyped DEF RunsOK, BridgeInit, Nil
<1>6. RowsOK /\ HeldOK /\ EventsOK /\ MarkedOK
  BY <1>1, <1>2 DEF RowsOK, HeldOK, EventsOK, MarkedOK, BridgeInit
<1>7. HandOK /\ PageOK
  BY DEF HandOK, PageOK, NoPoll, BridgeInit
<1>8. EchoOK
  BY DEF EchoOK, NoPoll, BridgeInit
<1>9. RecentOK
  BY <1>2 DEF RecentOK, Twin, Nil, BridgeInit
<1>10. AckedOK
  BY <1>1 DEF AckedOK, NoPoll, BridgeInit
<1>11. KnownOK
  BY BridgeAssumption DEF KnownOK, Follows, NoGeneration, NoLaunch, Nil, Run, BridgeInit
<1> QED
  BY <1>4, <1>5, <1>6, <1>7, <1>8, <1>9, <1>10, <1>11 DEF BridgeInv

\* It holds while nothing happens.
LEMMA BridgeStays ==
  ASSUME BridgeInv, UNCHANGED bridgeVars
  PROVE  BridgeInv'
<1>1. UNCHANGED <<claw, plugin, driving, owned, polling, closing, told, kept, faults>>
  BY DEF bridgeVars
<1>2. BridgeTypeOK' /\ RunsOK' /\ RunsOn
  BY <1>1
  DEF BridgeInv, BridgeTypeOK, RunsOK, RunsOn, claw, plugin, books, driving, owned, polling
<1>3. Learns(Nil, "final", {})
  BY <1>1, LearnsNothing DEF plugin, books, driving, owned
<1> QED
  BY <1>1, <1>2, <1>3, StillKeeps DEF plugin

\* Every step keeps it.
LEMMA BridgeStep ==
  ASSUME BridgeInv, [BridgeNext]_bridgeVars
  PROVE  BridgeInv'
<1>1. CASE \E r \in Run : Speak(r) \/ End(r) \/ Fail(r) \/ SendText(r)
  BY <1>1, SpeakKeeps, EndKeeps, FailKeeps, SendTextKeeps
<1>2. CASE \E m \in In : \/ PostInbound(m) \/ DispatchInbound(m)
                         \/ ReplyInbound(m) \/ SettleInbound(m)
  BY <1>2, InboundKeeps, ReplyInboundKeeps
<1>3. CASE RestartClaw \/ (\E r \in Mine : Ask(r))
  BY <1>3, RestartClawKeeps, AskKeeps
<1>4. CASE AskFails \/ Acknowledged \/ Register \/ RegisterFails \/ WaitEnds \/ WaitFails
  BY <1>4, AskFailsKeeps, AcknowledgedKeeps, RegisterKeeps, RegisterFailsKeeps, WaitKeeps
<1>5. CASE Fetch \/ (\E i \in DOMAIN row : TakeEnd(i) \/ TakeFinal(i))
  BY <1>5, FetchKeeps, TakeEndKeeps, TakeFinalKeeps
<1>6. CASE Output \/ OutputFails \/ Ack \/ AckFails \/ EndPage \/ Forget
  BY <1>6, OutputKeeps, OutputFailsKeeps, AckKeeps, AckFailsKeeps, EndPageKeeps, ForgetKeeps
<1>7. CASE Close \/ RestartGateway \/ Crash
  <2>1. BridgeTypeOK
    BY DEF BridgeInv
  <2>2. CASE RestartGateway
    BY <2>1, <2>2, FreshKeeps DEF RestartGateway, BridgeTypeOK
  <2>3. CASE Crash
    BY <2>1, <2>3, FaultTyped, FreshKeeps DEF Crash
  <2> QED
    BY <1>7, <2>2, <2>3, CloseKeeps
<1>8. CASE UNCHANGED bridgeVars
  BY <1>8, BridgeStays
<1> QED
  BY <1>1, <1>2, <1>3, <1>4, <1>5, <1>6, <1>7, <1>8 DEF BridgeNext

\* So it always holds.
LEMMA BridgeAlways == BridgeSpec => []BridgeInv
<1>1. BridgeInit => BridgeInv
  BY BridgeInitOK
<1>2. BridgeInv /\ [BridgeNext]_bridgeVars => BridgeInv'
  BY BridgeStep
<1> QED
  BY <1>1, <1>2, PTL DEF BridgeSpec

\* The bridge stays in its domain: what the driver holds of the plugin's records exists, for
\* any runs, messages and faults.
THEOREM BridgeTypeCorrect == BridgeSpec => []BridgeTypeOK
<1>1. BridgeInv => BridgeTypeOK
  BY DEF BridgeInv
<1> QED
  BY <1>1, BridgeAlways, PTL

\* Nothing a foreign run said or failed with is acknowledged away: by then it is in the chat,
\* whatever drainBridgeObserver suppressed, retried or lost in a restart.
THEOREM NothingIsEverSwallowed == BridgeSpec => []NothingIsSwallowed
<1>1. ASSUME BridgeInv
      PROVE  NothingIsSwallowed
  <2>1. BridgeTypeOK /\ AckedOK
    BY <1>1 DEF BridgeInv
  <2> SUFFICES ASSUME NEW i \in DOMAIN row, row[i].acked
               PROVE  NothingIsSwallowed!(i)!2
    BY DEF NothingIsSwallowed
  <2>2. PICK r \in Run : r = row[i].run
    BY <2>1, RowTyped
  <2>3. IF row[i].kind = "final" THEN Said(r) ELSE r \notin Mine => EndSafe(r)
    BY <2>1, <2>2 DEF AckedOK, RowSafe
  <2> QED
    BY <2>2, <2>3 DEF Said, EndSafe
<1> QED
  BY <1>1, BridgeAlways, PTL

\* Only the end of a run is taken for an output in one step of the loop.
LEMMA OutputIsTaken ==
  ASSUME [BridgeNext]_bridgeVars, NEW r, TakenFor(r), BridgeInv
  PROVE  \E i \in DOMAIN row : TakeEnd(i) /\ row[i].run = r
<1>1. poll.at = "next" /\ poll'.at = "output" /\ poll' # poll
  BY DEF TakenFor
<1>2. ~ UNCHANGED polling /\ ~ UNCHANGED poll
  BY <1>1 DEF polling
<1>3. poll' # NoPoll
  BY <1>1 DEF NoPoll
<1>4. ~ (\E q \in Run : Speak(q) \/ End(q) \/ Fail(q) \/ SendText(q))
  BY <1>2 DEF Speak, End, Fail, SendText
<1>5. ~ (\E m \in In : \/ PostInbound(m) \/ DispatchInbound(m)
                       \/ ReplyInbound(m) \/ SettleInbound(m))
  BY <1>2 DEF PostInbound, DispatchInbound, ReplyInbound, SettleInbound
<1>6. ~ (RestartClaw \/ (\E q \in Mine : Ask(q)))
  BY <1>2 DEF RestartClaw, Ask
<1>7. ~ (AskFails \/ Acknowledged \/ Register \/ RegisterFails \/ WaitEnds \/ WaitFails)
  BY <1>2 DEF AskFails, Acknowledged, Register, RegisterFails, WaitEnds, WaitFails
<1>8. ~ (Fetch \/ Output \/ OutputFails \/ Ack \/ AckFails \/ EndPage \/ Forget)
  BY <1>1, <1>2, <1>3 DEF Fetch, Output, OutputFails, Ack, AckFails, EndPage, Forget
<1>9. ~ (Close \/ RestartGateway \/ Crash)
  BY <1>1, <1>3 DEF Close, RestartGateway, Crash, Fresh
<1>10. ~ UNCHANGED bridgeVars
  BY <1>2 DEF bridgeVars
<1>11. PICK i \in DOMAIN row : TakeEnd(i) \/ TakeFinal(i)
  BY <1>4, <1>5, <1>6, <1>7, <1>8, <1>9, <1>10 DEF BridgeNext
<1>12. poll'.hand = i
  <2>1. BridgeTypeOK
    BY DEF BridgeInv
  <2> QED
    BY <1>11, <2>1 DEF TakeEnd, TakeFinal, Takes, BridgeTypeOK
<1> QED
  BY <1>11, <1>12 DEF TakenFor, TakeFinal, Meets

\* A run of the gateway's own is never mirrored into the chat as another's: not while the
\* driver launches or follows it, and not if it was registered before it ended.
THEOREM OwnRunsAreNeverMirrored == BridgeSpec => OwnRunsAreNotMirrored
<1> DEFINE Hidden == \A r \in Mine :
                       TakenFor(r) => r \notin Followed /\ (r \in registered => r \in early)
<1>1. ASSUME BridgeInv, [BridgeNext]_bridgeVars
      PROVE  Hidden
  <2> SUFFICES ASSUME NEW r \in Mine, TakenFor(r)
               PROVE  r \notin Followed /\ (r \in registered => r \in early)
    OBVIOUS
  <2>1. BridgeTypeOK /\ KnownOK /\ MarkedOK
    BY <1>1 DEF BridgeInv
  <2>2. PICK i \in DOMAIN row : TakeEnd(i) /\ row[i].run = r
    BY <1>1, OutputIsTaken
  <2>3. row[i].kind = "end" /\ Due(i)
    BY <1>1, <2>2, MeetsFirst DEF TakeEnd
  <2>4. Out(i, r)
    BY <1>1, <2>2, TakeEndDoes DEF TakenFor, Run
  <2>5. ~ row[i].owned /\ r \notin ownedRunIds
    BY <2>4 DEF Out, Own
  <2>6. ~ Follows(r)
    BY <2>1, <2>2, <2>3, <2>5 DEF KnownOK, Known, Due
  <2>7. r \notin registered \ early
    BY <2>1, <2>2, <2>3, <2>5 DEF MarkedOK
  <2> QED
    BY <2>6, <2>7 DEF Follows, Followed
<1> HIDE DEF Hidden
<1>2. BridgeInv /\ [BridgeNext]_bridgeVars => [Hidden]_bridgeVars
  BY <1>1
<1>3. BridgeSpec => [][Hidden]_bridgeVars
  BY <1>2, BridgeAlways, PTL DEF BridgeSpec
<1> QED
  BY <1>3 DEF OwnRunsAreNotMirrored, Hidden

=============================================================================
