------------------------------ MODULE RunProjection ------------------------------
(***************************************************************************)
(* src/projection.ts, class RunProjection: how the events of one run become *)
(* messages of a chat, and src/controller.ts persistProjectionCycle with the *)
(* output_cycles of src/store.ts: the rows kept of them.                    *)
(*                                                                          *)
(* Output is cut into cycles, one message each.  Every write to the chat is *)
(* a job of a promise chain: one runs at a time and makes its network calls *)
(* one after another, while events go on changing the cycles.  A text is    *)
(* the set of the chunks in it; a version counts the changes of a cycle, so *)
(* that a message shows one version of one cycle.                           *)
(***************************************************************************)
EXTENDS Integers, FiniteSets, SequencesExt

CONSTANTS
  MaxChunks,     \* bound of the model: chunks of text the runtime streams
  MaxThoughts,   \* bound of the model: thinking, tool and status events
  MaxMoves,      \* bound of the model: steering messages of the run
  MaxLost        \* bound of the model: network calls that fail

ASSUME ProjectionAssumption ==
  MaxChunks \in Nat /\ MaxThoughts \in Nat /\ MaxMoves \in Nat /\ MaxLost \in Nat

VARIABLES
  options,   \* responses.streaming, and whether chunk 1 asks for a native reply
  cycles,    \* cycles; the last is activeCycle
  timer,     \* the cycle the scheduled edit is for, or 0
  closed,    \* closed
  writes,    \* writes: the jobs of the chain, the one under way first
  chat,      \* external: the messages sent, with what each one shows
  reacted,   \* external: triggers that carry the working reaction
  target,    \* reactionTargetId
  response,  \* responseId, the message last created
  rows,      \* output_cycles: state of the row of each cycle
  parts,     \* history: the part of each chunk the runtime streamed
  thoughts,  \* history: thinking, tool and status events
  steering,  \* the runtime took a steering message; move is still to be called
  moves,     \* history: moves
  outcome,   \* what the controller knows of the run's end
  lost,      \* history: network calls that failed
  overtaken, \* history: cycles that an event changed or started while a move was due
  late       \* history: a move began after the run was closed

output   == <<cycles, rows>>
shown    == <<chat, reacted, target, response>>
past     == <<parts, thoughts, moves, lost, overtaken, late>>
projVars == <<options, cycles, timer, closed, writes, chat, reacted, target, response, rows,
              parts, thoughts, steering, moves, outcome, lost, overtaken, late>>

NoCall == [op |-> "none", ver |-> 0, msg |-> 0]
Cycle(state, part, text, reply) ==
  [state |-> state, part |-> part, text |-> text, ver |-> 1, msg |-> 0, reply |-> reply,
   completed |-> FALSE, deleted |-> FALSE, failed |-> FALSE]

\* A write: where it is, the cycle it is at, and where it goes on once that is through.
Job(kind, at, c) ==
  [kind |-> kind, result |-> "none", trigger |-> 0, at |-> at, c |-> c, then |-> "end",
   call |-> NoCall]

Changed(cycle, state, part, text) ==
  [cycle EXCEPT !.state = state, !.part = part, !.text = text, !.ver = @ + 1]

active   == Len(cycles)
Texts    == {c \in 1..active : cycles[c].state = "text" /\ ~cycles[c].deleted}
One      == \E c \in Texts : Texts = {c}
Many     == \E c, d \in Texts : c # d
TextOf(cs) == UNION {cycles[c].text : c \in cs}
Chunks(p, upTo) == {k \in 1..Len(upTo) : upTo[k] = p}

\* Mistake: a write does not wait for the one before it.
MutTurn(j) == j \in 1..2

\* Only the first job of the chain runs (enqueue).
Turn(j) == j = 1

OutputCycle ==
  [state : {"transient", "thinking", "text"}, part : Nat, text : SUBSET Nat, ver : Nat, msg : Nat,
   reply : BOOLEAN, completed : BOOLEAN, deleted : BOOLEAN, failed : BOOLEAN]
Message == [cycle : Nat, ver : Nat, as : {"own", "silent", "gone"}]
WriteStep ==
  {"edit", "create", "previous", "emit", "delete", "unreact", "fork", "react", "conclude",
   "silence", "remove", "spare", "keep", "over", "complete", "rewrite", "words", "notice", "post",
   "failed", "end"}
NetworkCall == {"none", "edit", "create", "recall", "unreact", "react", "delete", "silence", "post"}
QueuedWrite ==
  [kind : {"flush", "create", "move", "finish", "fail"}, result : {"all", "last", "none", "silent"},
   trigger : Nat, at : WriteStep, c : Nat, then : WriteStep,
   call : [op : NetworkCall, ver : Nat, msg : Nat]]

ProjTypeOK ==
  /\ options \in [streaming : BOOLEAN, directive : BOOLEAN]
  /\ cycles \in Seq(OutputCycle) /\ cycles # <<>>
  /\ \A c \in 1..active : cycles[c].msg <= Len(chat)
                            /\ (cycles[c].state # "text" => cycles[c].text = {})
  /\ timer \in 0..active /\ closed \in BOOLEAN
  /\ writes \in Seq(QueuedWrite)
  /\ chat \in Seq(Message) /\ reacted \subseteq Nat /\ target \in Nat
  /\ response \in 1..Len(chat)
  /\ rows \in Seq({"none", "open", "complete", "failed", "deleted"}) /\ Len(rows) = active
  /\ \A c, d \in 1..active : rows[c] = "open" /\ rows[d] = "open" => c = d
  /\ parts \in Seq(Nat) /\ thoughts \in Nat /\ moves \in Nat /\ lost \in Nat
  /\ overtaken \subseteq Nat /\ late \in BOOLEAN /\ steering \in BOOLEAN
  /\ outcome \in {"running", "ending", "done", "silent", "failed", "given up"}

\* create sends the working message; resume takes over one that may have text.
ProjInit ==
  /\ options \in [streaming : BOOLEAN, directive : BOOLEAN]
  /\ \/ cycles = <<[Cycle("transient", 0, {}, FALSE) EXCEPT !.msg = 1]>>
     \/ cycles = <<[Cycle("text", 0, {0}, FALSE) EXCEPT !.msg = 1]>>
  /\ chat = <<[cycle |-> 1, ver |-> 1, as |-> "own"]>>
  /\ timer = 0 /\ closed = FALSE /\ writes = <<>> /\ reacted = {0} /\ target = 0 /\ response = 1
  /\ rows = <<"open">> /\ parts = <<>> /\ thoughts = 0 /\ steering = FALSE /\ moves = 0
  /\ outcome = "running" /\ lost = 0 /\ overtaken = {} /\ late = FALSE

-----------------------------------------------------------------------------
(* Rows *)

\* Mistake: a cycle that failed is still reported as open.
MutSnapshot(cycle) ==
  IF cycle.deleted THEN "deleted" ELSE IF cycle.completed THEN "complete" ELSE "open"

\* The state of a cycle as emitCycle reports it.
Snapshot(cycle) ==
  IF cycle.deleted THEN "deleted" ELSE IF cycle.failed THEN "failed"
  ELSE IF cycle.completed THEN "complete" ELSE "open"

\* persistProjectionCycle: a new row closes the open one; a row that was closed is opened
\* again unless another is open, which the unique index refuses.
Persisted(rs, c, state) ==
  LET others == {d \in 1..Len(rs) \ {c} : rs[d] = "open"} IN
  IF rs[c] = "none"
  THEN IF state = "deleted" THEN rs
       ELSE [d \in 1..Len(rs) |-> IF d = c THEN state ELSE IF d \in others THEN "failed" ELSE rs[d]]
  ELSE IF state = "open" \/ rs[c] = "open"
       THEN IF others = {} THEN [rs EXCEPT ![c] = state] ELSE rs
       ELSE rs

\* emitCycle, of a cycle that has a message.
Emitted(rs, cs, c) == IF cs[c].msg = 0 THEN rs ELSE Persisted(rs, c, Snapshot(cs[c]))

\* Assign the cycles and report cycle c.
Emit(cs, c) == cycles' = cs /\ rows' = Emitted(rows, cs, c)

-----------------------------------------------------------------------------
(* Events.  What follows a reply in a job is done before the next event.    *)

Quiet == writes # <<>> => Head(writes).call.op # "none"

\* schedule: one timer, for the cycle that asked first.
Schedule == timer' = IF options.streaming /\ timer = 0 THEN active ELSE timer

\* A move whose new cycle is not there yet, and whether one is due.
Unforked(job) ==
  job.kind = "move" /\ job.at \in {"previous", "edit", "emit", "delete", "unreact", "fork"}
Moving == \E j \in 1..Len(writes) : Unforked(writes[j])

\* Note the cycle that an event changes or starts while a move is due.
Note == overtaken' = overtaken \cup {c \in {Len(cycles')} : Moving}

\* startCycle: freeze the active cycle, flush it and create a message for the next.
StartCycle(cycle) ==
  /\ timer' = 0
  /\ LET frozen == [cycles EXCEPT ![active].completed = TRUE] IN
       /\ cycles' = Append(frozen, cycle)
       /\ rows' = Append(Emitted(rows, frozen, active), "none")
  /\ writes' = IF options.streaming
               THEN Append(Append(writes, Job("flush", "edit", active)),
                           Job("create", "create", active + 1))
               ELSE writes

\* The part that is streamed.
Part == IF parts = <<>> THEN 1 ELSE Last(parts)

\* updateText: the first text of a cycle, more of its part, or another part.
TextDelta ==
  /\ Quiet /\ ~closed /\ Len(parts) < MaxChunks
  /\ \E p \in {Part, Part + 1},
        replace \in BOOLEAN :
       LET cur  == cycles[active]
           k    == Len(parts) + 1
           text == IF replace THEN Chunks(p, Append(parts, p)) ELSE {k}
       IN /\ parts' = Append(parts, p)
          /\ \/ /\ cur.state # "text"
                /\ Emit([cycles EXCEPT ![active] = Changed(cur, "text", p, text)], active)
                /\ Schedule /\ UNCHANGED writes
             \/ /\ cur.state = "text" /\ cur.part = p
                /\ LET said == IF replace THEN text ELSE cur.text \cup text IN
                     Emit([cycles EXCEPT ![active] = Changed(cur, "text", p, said)], active)
                /\ Schedule /\ UNCHANGED writes
             \/ /\ cur.state = "text" /\ cur.part # p
                /\ StartCycle(Cycle("text", p, text, FALSE))
  /\ Note
  /\ UNCHANGED <<options, closed, shown, thoughts, steering, moves, outcome, lost, late>>

\* updateThinking, updateActivity and updateTransient: anything but text.
Progress ==
  /\ Quiet /\ ~closed /\ thoughts < MaxThoughts /\ thoughts' = thoughts + 1
  /\ LET cur == cycles[active] IN
       \/ cur.state = "text" /\ StartCycle(Cycle("thinking", 0, {}, FALSE))
       \/ /\ cur.state # "text" /\ Schedule /\ UNCHANGED writes
          /\ \E state \in {"thinking", cur.state} :
               LET now == Changed(cur, state, cur.part, cur.text) IN
               Emit([cycles EXCEPT ![active] = now], active)
  /\ Note /\ UNCHANGED <<options, closed, shown, parts, steering, moves, outcome, lost, late>>

\* The timer of schedule runs out.
TimerFires ==
  /\ Quiet /\ timer # 0 /\ timer' = 0
  /\ writes' = Append(writes, Job("flush", "edit", timer))
  /\ UNCHANGED <<options, output, closed, shown, steering, outcome, past>>

-----------------------------------------------------------------------------
(* What the controller asks for *)

\* finish and fail stop the events and drop the scheduled edit.
Close(job) == closed' = TRUE /\ timer' = 0 /\ writes' = Append(writes, job)

FailJob == Job("fail", "unreact", 0)

\* The result of the turn arrives: all that was streamed, its last part, nothing, or silence.
Finish ==
  /\ Quiet /\ ~closed /\ outcome = "running" /\ outcome' = "ending"
  /\ \E result \in {"all", "last", "none", "silent"} :
       Close([Job("finish", "unreact", 0) EXCEPT !.result = result])
  /\ UNCHANGED <<options, output, shown, steering, past>>

\* The turn fails, is replaced by /new or cut short by a stop (fail, interrupt).
Fail ==
  /\ Quiet /\ ~closed /\ outcome = "running" /\ outcome' = "ending"
  /\ Close(FailJob)
  /\ UNCHANGED <<options, output, shown, steering, past>>

\* A further message is handed to the turn ...
Steer ==
  /\ Quiet /\ ~closed /\ ~steering /\ moves < MaxMoves /\ steering' = TRUE
  /\ UNCHANGED <<options, output, timer, closed, writes, shown, outcome, past>>

\* ... and when the runtime has taken it the output moves below it, even if the run has ended.
Move ==
  /\ Quiet /\ steering /\ steering' = FALSE /\ timer' = 0 /\ moves' = moves + 1
  /\ late' = (late \/ closed)
  /\ writes' = Append(writes, [Job("move", "previous", 0) EXCEPT !.trigger = moves + 1])
  /\ UNCHANGED <<options, output, closed, shown, parts, thoughts, outcome, lost, overtaken>>

-----------------------------------------------------------------------------
(* Steps of the write under way *)

Here(j, at) == Turn(j) /\ writes[j].at = at /\ writes[j].call.op = "none"
Go(j, at, c, then) ==
  writes' = [writes EXCEPT ![j] = [@ EXCEPT !.at = at, !.c = c, !.then = then]]
Calling(j, op, ver, msg) ==
  writes' = [writes EXCEPT ![j].call = [op |-> op, ver |-> ver, msg |-> msg]]

\* Where a write goes on: every move, finish and fail takes the reaction away.
Following(job) ==
  IF job.at # "unreact" THEN job.then
  ELSE CASE job.kind = "move" -> "fork" [] job.kind = "finish" -> "conclude" [] OTHER -> "words"
GoneOn(job) == [job EXCEPT !.at = Following(job), !.then = "end", !.call = NoCall]
Through(j) == writes' = [writes EXCEPT ![j] = GoneOn(@)]
OnlyJobs == UNCHANGED <<options, timer, closed, shown, steering, outcome, past>>

\* editCycleNow: an answer that asks for a native reply first recalls the message it has; a
\* cycle without a message gets one.
WantsReply(cycle) ==
  ~cycle.reply /\ cycle.state = "text" /\ options.directive /\ 1 \in cycle.text

EditNow(j) ==
  /\ Here(j, "edit") /\ OnlyJobs /\ UNCHANGED rows
  /\ LET c == writes[j].c
         cycle == cycles[c]
     IN \/ cycle.deleted /\ Through(j) /\ UNCHANGED cycles
        \/ /\ ~cycle.deleted /\ WantsReply(cycle)
           /\ cycles' = [cycles EXCEPT ![c].reply = TRUE]
           /\ IF cycle.msg # 0 THEN Calling(j, "recall", 0, cycle.msg) ELSE UNCHANGED writes
        \/ /\ ~cycle.deleted /\ ~WantsReply(cycle) /\ UNCHANGED cycles
           /\ Calling(j, IF cycle.msg # 0 THEN "edit" ELSE "create", cycle.ver, cycle.msg)

\* createCycleMessageNow
CreateNow(j) ==
  /\ Here(j, "create") /\ OnlyJobs /\ UNCHANGED output
  /\ LET cycle == cycles[writes[j].c] IN
       IF cycle.msg # 0 \/ cycle.deleted THEN Through(j) ELSE Calling(j, "create", cycle.ver, 0)

\* The other calls: reactions, deleting a message, the silent text, a notice.
CallNow(j) ==
  /\ \E op \in {"unreact", "react", "delete", "silence", "post"} :
       /\ Here(j, op)
       /\ Calling(j, op, 1, CASE op = "delete" -> cycles[writes[j].c].msg
                              [] op = "silence" -> response [] OTHER -> 0)
  /\ OnlyJobs /\ UNCHANGED output

\* move: an answer is frozen where it is, a message without one is taken away.
Previous(j) ==
  /\ Here(j, "previous") /\ OnlyJobs /\ UNCHANGED rows
  /\ LET prev == cycles[active] IN
       \/ /\ prev.state = "text" /\ cycles' = [cycles EXCEPT ![active].completed = TRUE]
          /\ Go(j, "edit", active, "emit")
       \/ /\ prev.state # "text" /\ UNCHANGED cycles
          /\ IF prev.msg # 0 /\ ~prev.deleted THEN Go(j, "delete", active, "unreact")
             ELSE Go(j, "unreact", 0, "end")

EmitNow(j) ==
  /\ Here(j, "emit") /\ Go(j, "unreact", 0, "end") /\ Emit(cycles, writes[j].c) /\ OnlyJobs

\* move: a new working message below the steering message.
Fork(j) ==
  /\ Here(j, "fork") /\ Go(j, "create", active + 1, "react")
  /\ cycles' = Append(cycles, Cycle("transient", 0, {}, FALSE)) /\ rows' = Append(rows, "none")
  /\ target' = writes[j].trigger
  /\ UNCHANGED <<options, timer, closed, chat, reacted, response, steering, outcome, past>>

\* The texts the result of the turn stands for.
Terminal(result) ==
  CASE result = "all"  -> 1..Len(parts)
    [] result = "last" -> IF parts = <<>> THEN {} ELSE Chunks(Last(parts), parts)
    [] OTHER           -> {}

\* The answer starts with what the cycles say; joined parts only if they are joined alike.
StartsWith(terminal, text, alike) ==
  alike /\ text \subseteq terminal /\ \A x \in terminal \ text : \A y \in text : x > y

\* The cycle says something else now.
Saying(cycle, text) == Changed(cycle, "text", cycle.part, text)

\* The result of a turn takes the place of the only text, or of the last if one of the two
\* starts with the other and nothing says it all.
Amended(terminal, said) ==
  {c \in 1..active :
     /\ terminal # {}
     /\ \/ c = active /\ One
        \/ /\ Many /\ c \in Texts /\ \A d \in Texts : d <= c /\ cycles[d].text # terminal
           /\ said # terminal
           /\ StartsWith(terminal, cycles[c].text, TRUE)
              \/ StartsWith(cycles[c].text, terminal, TRUE)}

\* finish with an answer: complete the texts by what the result says beyond them.
Answer(j) ==
  LET terminal == Terminal(writes[j].result)
      said     == TextOf(Texts)
  IN \E alike \in IF Many THEN BOOLEAN ELSE {TRUE} :
       LET tail == IF said # {} /\ StartsWith(terminal, said, alike) THEN terminal \ said
                   ELSE terminal
           shownAlready == Texts # {} /\ (tail = {} \/ said = terminal)
       IN \/ /\ cycles[active].state # "text" /\ shownAlready
             /\ \/ /\ cycles[active].msg # 0 /\ ~cycles[active].deleted
                   /\ Go(j, "delete", active, "complete") /\ UNCHANGED cycles
                \/ /\ cycles[active].msg = 0 \/ cycles[active].deleted
                   /\ Go(j, "complete", 0, "end")
                   /\ cycles' = [cycles EXCEPT ![active].deleted = TRUE]
          \/ /\ cycles[active].state # "text" /\ ~shownAlready
             /\ cycles' = [cycles EXCEPT ![active] = Saying(cycles[active], tail)]
             /\ Go(j, "complete", 0, "end")
          \/ /\ cycles[active].state = "text" /\ Go(j, "complete", 0, "end")
             /\ cycles' = [c \in 1..active |-> IF c \in Amended(terminal, said)
                                              THEN Saying(cycles[c], terminal) ELSE cycles[c]]

\* The cycle shows the working text, or a notice.
Blank(cycle) == Changed(cycle, "transient", cycle.part, cycle.text)

\* finish in silence: responses.silentPlaceholder deletes, replaces or keeps what is there.
Silence(j) ==
  LET blank == cycles[active].state # "text" /\ cycles[active].msg # 0 IN
  \/ Go(j, "remove", 0, "end") /\ UNCHANGED cycles
  \/ Go(j, "silence", 0, "spare") /\ UNCHANGED cycles
  \/ blank /\ Go(j, "edit", active, "keep")
       /\ cycles' = [cycles EXCEPT ![active] = Blank(cycles[active])]
  \/ ~blank /\ Go(j, "over", 0, "end") /\ UNCHANGED cycles

Conclude(j) ==
  /\ Here(j, "conclude") /\ OnlyJobs /\ UNCHANGED rows
  /\ IF writes[j].result = "silent" THEN Silence(j) ELSE Answer(j)

\* The loops over the cycles go by the order in which they started.
Earliest(cs, c) == c \in cs /\ \A d \in cs : c <= d

\* finish in silence: the messages to delete, but for the one that shows the silent text.
Unwanted(job) ==
  {c \in job.c + 1..active : cycles[c].msg # 0 /\ ~cycles[c].deleted
                              /\ (job.at = "spare" => cycles[c].msg # response)}

Sweep(j) ==
  /\ \E at \in {"remove", "spare", "keep"} :
       /\ Here(j, at)
       /\ \/ \E c \in Unwanted(writes[j]) : Earliest(Unwanted(writes[j]), c)
                                            /\ Go(j, "delete", c, at)
          \/ Unwanted(writes[j]) = {} /\ Go(j, "over", 0, "end")
  /\ OnlyJobs /\ UNCHANGED output

\* finish in silence: every cycle that is still there is over.
Over(j) ==
  /\ Here(j, "over") /\ OnlyJobs
  /\ LET left == {c \in writes[j].c + 1..active : ~cycles[c].deleted} IN
       \/ \E c \in left : Earliest(left, c) /\ Go(j, "over", c, "end")
                           /\ Emit([cycles EXCEPT ![c].completed = TRUE], c)
       \/ left = {} /\ Go(j, "end", 0, "end") /\ UNCHANGED output

\* finish: the active cycle is over.
Complete(j) ==
  /\ Here(j, "complete") /\ OnlyJobs /\ Go(j, "rewrite", 0, "end")
  /\ Emit([cycles EXCEPT ![active].completed = TRUE], active)

\* Mistake: only the last text is written out at the end.
MutUnwritten(job) == {c \in Texts : c > job.c /\ c = active}

\* finish: every text is written out once more.
Unwritten(job) == {c \in Texts : c > job.c}

Rewrite(j) ==
  /\ Here(j, "rewrite") /\ OnlyJobs /\ UNCHANGED output
  /\ \/ \E c \in Unwritten(writes[j]) : Earliest(Unwritten(writes[j]), c)
                                        /\ Go(j, "edit", c, "rewrite")
     \/ Unwritten(writes[j]) = {} /\ Go(j, "end", 0, "end")

\* fail, interrupt: write the text so far, then writeTerminalNotice.
Words(j) ==
  /\ Here(j, "words") /\ OnlyJobs /\ UNCHANGED output
  /\ IF cycles[active].state = "text" THEN Go(j, "edit", active, "notice")
     ELSE Go(j, "notice", 0, "end")

\* writeTerminalNotice: in the working message if there is one, else in a message of its own.
Notice(j) ==
  /\ Here(j, "notice") /\ OnlyJobs
  /\ LET cur == cycles[active] IN
       \/ /\ cur.state # "text" /\ ~cur.deleted /\ UNCHANGED rows
          /\ cycles' = [cycles EXCEPT ![active] = Blank(cycles[active])]
          /\ Go(j, "edit", active, "failed")
       \/ /\ cur.state = "text" \/ cur.deleted
          /\ Emit([cycles EXCEPT ![active].completed = TRUE], active)
          /\ Go(j, "post", active + 1, "failed")

Failed(j) ==
  /\ Here(j, "failed") /\ OnlyJobs /\ Go(j, "end", 0, "end")
  /\ Emit([cycles EXCEPT ![active].failed = TRUE], active)

-----------------------------------------------------------------------------
(* Network calls *)

\* What a call does to the chat.
Effect(job) ==
  LET call == job.call IN
  /\ chat' = CASE call.op = "edit" -> [chat EXCEPT ![call.msg].ver = call.ver]
               [] call.op \in {"create", "post"} ->
                    Append(chat, [cycle |-> job.c, ver |-> call.ver, as |-> "own"])
               [] call.op \in {"delete", "recall"} -> [chat EXCEPT ![call.msg].as = "gone"]
               [] call.op = "silence" -> [chat EXCEPT ![call.msg].as = "silent"]
               [] OTHER -> chat
  /\ reacted' = CASE call.op = "unreact" -> reacted \ {target}
                  [] call.op = "react"   -> reacted \cup {target}
                  [] OTHER -> reacted

\* A message that is gone cannot be edited.
Refused(call) == call.op = "edit" /\ chat[call.msg].as = "gone"

\* The reply arrives and the write goes on.
Land(j) ==
  LET job  == writes[j]
      call == job.call
      here == Len(chat) + 1
  IN
  /\ Turn(j) /\ call.op # "none" /\ ~Refused(call) /\ Effect(job)
  /\ IF call.op = "recall" THEN writes' = [writes EXCEPT ![j].call = NoCall] ELSE Through(j)
  /\ CASE call.op = "create" -> Emit([cycles EXCEPT ![job.c].msg = here], job.c)
       [] call.op = "recall" -> cycles' = [cycles EXCEPT ![job.c].msg = 0] /\ UNCHANGED rows
       [] call.op = "delete" -> Emit([cycles EXCEPT ![job.c].deleted = TRUE], job.c)
       [] call.op = "post"   ->
            LET notice == [Cycle("transient", 0, {}, FALSE) EXCEPT !.msg = here, !.failed = TRUE]
            IN /\ cycles' = Append(cycles, notice)
               /\ rows' = Persisted(Append(rows, "none"), job.c, "failed")
       [] OTHER -> UNCHANGED output
  /\ response' = IF call.op \in {"create", "post"} THEN here ELSE response
  /\ UNCHANGED <<options, timer, closed, target, steering, outcome, past>>

\* The call fails, with or without its effect; the chain goes on with the next job.
Lose(j) ==
  LET job == writes[j] IN
  /\ Turn(j) /\ job.call.op # "none"
  /\ \/ Refused(job.call) /\ UNCHANGED <<chat, reacted, lost>>
     \/ /\ ~Refused(job.call) /\ lost < MaxLost /\ lost' = lost + 1
        /\ Effect(job) \/ UNCHANGED <<chat, reacted>>
  /\ \/ /\ job.kind = "fail" /\ job.call.op = "unreact"
        /\ Through(j) /\ UNCHANGED <<closed, timer, outcome>>
     \/ /\ job.kind = "fail" /\ job.call.op # "unreact" /\ outcome' = "given up"
        /\ writes' = RemoveAt(writes, j) /\ UNCHANGED <<closed, timer>>
     \/ /\ job.kind = "finish" \/ (job.kind = "move" /\ ~closed)
        /\ outcome' = "ending" /\ closed' = TRUE /\ timer' = 0
        /\ writes' = Append(RemoveAt(writes, j), FailJob)
     \/ /\ job.kind \in {"flush", "create"} \/ (job.kind = "move" /\ closed)
        /\ writes' = RemoveAt(writes, j) /\ UNCHANGED <<closed, timer, outcome>>
  /\ UNCHANGED <<options, output, target, response, parts, thoughts, steering, moves, overtaken,
                 late>>

\* The write is through; its promise settles.
JobEnds(j) ==
  /\ Here(j, "end") /\ writes' = RemoveAt(writes, j)
  /\ outcome' = CASE writes[j].kind = "finish" /\ writes[j].result = "silent" -> "silent"
                  [] writes[j].kind = "finish" /\ writes[j].result # "silent" -> "done"
                  [] writes[j].kind = "fail" -> "failed"
                  [] OTHER -> outcome
  /\ UNCHANGED <<options, output, timer, closed, shown, steering, past>>

Work(j) ==
  \/ EditNow(j) \/ CreateNow(j) \/ CallNow(j) \/ Previous(j) \/ EmitNow(j) \/ Fork(j)
  \/ Conclude(j) \/ Sweep(j) \/ Over(j) \/ Complete(j) \/ Rewrite(j) \/ Words(j) \/ Notice(j)
  \/ Failed(j) \/ Land(j) \/ Lose(j) \/ JobEnds(j)

ProjNext ==
  \/ TextDelta \/ Progress \/ TimerFires \/ Finish \/ Fail \/ Steer \/ Move
  \/ \E j \in 1..Len(writes) : Work(j)

ProjSpec == ProjInit /\ [][ProjNext]_projVars

-----------------------------------------------------------------------------
(* Properties *)

\* The run has ended, no write is under way and no move is to come.
Settled(ends) == outcome \in ends /\ writes = <<>> /\ ~steering /\ ~late

\* When a run is done the chat shows each text in its last version, even if earlier writes
\* failed.  If none failed it shows no other message of the run, no working reaction and, with
\* the whole answer as the result, every chunk that was streamed.  What an event did while a
\* move was due is left out of the latter: the move goes on with the cycle it found, and a
\* cycle started meanwhile gets its message below the new one.
AnswerIsShown ==
  Settled({"done"}) =>
    /\ \A c \in Texts :
         /\ cycles[c].msg # 0
         /\ chat[cycles[c].msg] = [cycle |-> c, ver |-> cycles[c].ver, as |-> "own"]
    /\ lost = 0 =>
         /\ reacted = {}
         /\ \A m \in 1..Len(chat) : chat[m].as = "own" =>
              chat[m].cycle \in overtaken \/ \E c \in Texts : cycles[c].msg = m
         /\ 1..Len(parts) \subseteq TextOf(Texts) \cup TextOf(overtaken)

\* A message never goes back to an older version of what it shows.
EditsNeverGoBack ==
  [][\A m \in 1..Len(chat) : chat'[m].ver >= chat[m].ver]_projVars

\* When a run is over and no write failed so is every row of its output, but for those
\* overtaken by a move: the next run in the thread closes them.
RowsAreClosed ==
  Settled({"done", "silent", "failed"}) /\ lost = 0
     => \A c \in 1..active : rows[c] = "open" => c \in overtaken
=============================================================================
