------------------------------ MODULE ChatController ------------------------------
(***************************************************************************)
(* One chat route (src/gateway.ts runRoute) and the conversation it feeds   *)
(* (src/controller.ts): messages come from the event stream and from        *)
(* catch-up, start runs, steer the one that is active or replace it, and    *)
(* the gateway may die and be started again at any point.                   *)
(*                                                                          *)
(* A route handles one message at a time; the turn of the runtime, the      *)
(* completion of the run and the writes to its response go on beside it.    *)
(* A response is what the chat shows of a run: RunProjection has its inside, *)
(* here each write is one step, in the order they were asked for.           *)
(***************************************************************************)
EXTENDS Integers, FiniteSets, Sequences

CONSTANTS
  MaxMessages,    \* bound of the model: messages of the chat
  Contents,       \* bound of the model: what a message may say, 0 for what it says first
  Edits,          \* bound of the model: which messages are edited, from which version to which
  MaxActivations, \* coordination.maxActivationsPerThread
  MaxTrouble      \* bound of the model: edits, deaths and stops of the gateway, calls that fail and
                  \* outputs of a session without an active run, together

ASSUME ChatAssumption ==
  /\ MaxMessages \in Nat /\ MaxActivations \in Nat \ {0} /\ MaxTrouble \in Nat
  /\ 0 \in Contents

VARIABLES
  kind,       \* what each message is to the agent
  version,    \* external: the version of each message, NoVersion before it is posted
  cursor,     \* cursors: 0 before the route is initialized, then 1 + the last message
  handled,    \* handled_message_versions: the version of each message that was handled
  runs,       \* runs
  bound,      \* session_bindings: state of the binding
  recovery,   \* outbound_outbox: outputs of the session on their way to a response
  responses,  \* external: what each message of the agent shows
  route,      \* runRoute: where the loop is
  events,     \* external: events of the stream that were not read
  work,       \* the message being processed and the await it is at
  active,     \* active: the run that is active, or 0
  turn,       \* the runtime's turn of each run of this process
  fate,       \* the completion of each run of this process
  queue,      \* writes to the response of each run of this process
  trouble,    \* history: how much of it there was
  controls,   \* control_activations
  given,      \* history: the versions of each message a turn took
  excused,    \* history: versions that got a notice or no answer at all
  dropped,    \* history: runs whose row was closed while their response was left as it was
  unrecorded  \* history: working messages that were sent for a message and have no run

table  == <<cursor, handled, runs, bound, recovery, controls>>
memory == <<route, events, work, active, turn, fate, queue>>
chat   == <<kind, version, responses>>
past   == <<trouble, given, excused, dropped, unrecorded>>
vars   == <<kind, version, cursor, handled, runs, bound, recovery, responses, route, events,
            work, active, turn, fate, queue, trouble, controls, given,
            excused, dropped, unrecorded>>

Message == 1..MaxMessages

\* A project or model command is answered by a control message: it is a /new that is refused.
Kinds == {"plain", "new", "ignored"}

\* A version is the second it was written in, which is all that modified_at tells, and what it
\* says, which is all that the fingerprint tells.
NoVersion == [at |-> 0, says |-> 0]
Version   == [at : 0..1 + MaxTrouble, says : Contents]
Ended == {"done", "silent", "failed", "cancelled"}
Run == 1..Len(runs)

NoWork == [step |-> "idle", m |-> 0, v |-> NoVersion, run |-> 0, resume |-> 0]

TypeOK ==
  /\ kind \in [Message -> Kinds]
  /\ version \in [Message -> Version] /\ handled \in [Message -> Version]
  /\ cursor \in 0..1 + MaxMessages /\ bound \in {"none", "resetting", "active"}
  /\ \A r \in Run : runs[r].status \in Ended \cup {"running"}
                    /\ runs[r].response \in 1..Len(responses)
  /\ \A i \in 1..Len(responses) :
       responses[i] \in {"working", "answer", "notice", "gone", "left", "orphan"}
  /\ route.at \in {"off", "restore", "reconcile", "closing", "catchup", "opening",
                  "stream"}
  /\ work.m \in 0..MaxMessages /\ work.run \in 0..Len(runs) /\ active \in 0..Len(runs)
  /\ \A m \in Message : /\ handled[m].at <= version[m].at
                         /\ \A v \in given[m] : v.at \in 1..version[m].at
  /\ Cardinality({r \in Run : runs[r].status = "running"}) <= 1

Init ==
  /\ kind = [m \in Message |-> "ignored"] /\ version = [m \in Message |-> NoVersion]
  /\ handled = [m \in Message |-> NoVersion] /\ cursor = 0
  /\ runs = <<>> /\ bound = "none" /\ recovery = {} /\ responses = <<>>
  /\ route = [at |-> "off", batch |-> <<>>, fresh |-> TRUE, open |-> FALSE, watch |-> FALSE,
              stop |-> FALSE]
  /\ events = <<>> /\ work = NoWork /\ active = 0 /\ turn = <<>> /\ fate = <<>> /\ queue = <<>>
  /\ trouble = 0 /\ controls = 0
  /\ given = [m \in Message |-> {}] /\ excused = [m \in Message |-> {}] /\ dropped = {}
  /\ unrecorded = {}

Troubled == trouble < MaxTrouble /\ trouble' = trouble + 1

\* A call to Anytype or to the runtime succeeds, or fails.
Reaches == UNCHANGED trouble
Misses  == Troubled

-----------------------------------------------------------------------------
(* The chat *)

posted == Cardinality({m \in Message : version[m].at > 0})
Streamed(m, v) == events' = IF route.open THEN Append(events, <<m, v>>) ELSE events

Post ==
  /\ posted < MaxMessages
  /\ \E k \in Kinds : kind' = [kind EXCEPT ![posted + 1] = k]
  /\ LET v == [at |-> 1, says |-> 0] IN
       version' = [version EXCEPT ![posted + 1] = v] /\ Streamed(posted + 1, v)
  /\ Reaches
  /\ UNCHANGED <<responses, table, route, work, active, turn, fate, queue, given, excused,
                 dropped, unrecorded>>

\* An edit leaves the message with another text, in the same second or a later one.
EditMessage(m) ==
  /\ version[m].at > 0 /\ Troubled
  /\ \E v \in Version :
       /\ <<m, version[m], v>> \in Edits /\ v.at \in version[m].at..version[m].at + 1
       /\ version' = [version EXCEPT ![m] = v] /\ Streamed(m, v)
  /\ UNCHANGED <<kind, responses, table, route, work, active, turn, fate, queue, given, excused,
                 dropped, unrecorded>>

-----------------------------------------------------------------------------
(* The route *)

Idle == work = NoWork
Show(i, state) == [responses EXCEPT ![i] = IF @ = "gone" THEN @ ELSE state]
Ends(r, status) == [runs EXCEPT ![r].status = status]

OnlyRoute == UNCHANGED <<chat, runs, bound, recovery, controls, work, active, turn, fate, queue,
                         given, dropped, unrecorded>>

\* The first connection marks what is there as handled; a later one starts from the cursor.
Connect ==
  /\ route.at = "off" /\ ~route.stop /\ route' = [route EXCEPT !.at = "restore"]
  /\ \/ /\ cursor = 0 /\ cursor' = posted + 1 /\ handled' = version
        /\ excused' = [m \in Message |-> {version[m]}]
     \/ cursor # 0 /\ UNCHANGED <<cursor, handled, excused>>
  /\ OnlyRoute /\ Reaches /\ UNCHANGED events

\* restoreObserversForRoute, then reconcileInterruptedRuns once per process.
Restore ==
  /\ route.at = "restore" /\ Reaches
  /\ route' = [route EXCEPT !.at = IF route.fresh THEN "reconcile" ELSE "catchup", !.watch = TRUE]
  /\ OnlyRoute /\ UNCHANGED <<cursor, handled, events, excused>>

\* The runs reconcileInterruptedRuns finds: those of the process before this one.
Interrupted == {r \in Run : runs[r].status = "running"}

\* One whose session may still be heard of is left for later.
Reconcile ==
  /\ route.at = "reconcile" /\ Reaches
  /\ \/ /\ Interrupted = {} \/ bound = "active"
        /\ route' = [route EXCEPT !.at = "catchup", !.fresh = FALSE]
     \/ Interrupted # {} /\ route' = [route EXCEPT !.at = "closing"]
  /\ OnlyRoute /\ UNCHANGED <<cursor, handled, events, excused>>

ReconcileEnds ==
  /\ route.at = "closing" /\ route' = [route EXCEPT !.at = "catchup", !.fresh = FALSE]
  /\ \E r \in Interrupted :
       /\ runs' = Ends(r, "failed")
       /\ \/ Reaches /\ responses' = Show(runs[r].response, "notice")
          \/ Misses /\ responses' = Show(runs[r].response, "left")
  /\ UNCHANGED <<kind, version, cursor, handled, bound, recovery, events, work, active, turn, fate,
                 queue, controls, given, excused, dropped, unrecorded>>

\* catchUp: the messages after the cursor, as they are now.
List ==
  /\ route.at = "catchup" /\ Idle /\ route.batch = <<>> /\ ~route.stop /\ Reaches
  /\ route' = IF cursor > posted
              THEN [route EXCEPT !.at = "opening"]
              ELSE [route EXCEPT !.batch = [i \in 1..posted + 1 - cursor |->
                                              <<cursor + i - 1, version[cursor + i - 1]>>]]
  /\ OnlyRoute /\ UNCHANGED <<cursor, handled, events, excused>>

\* The stream tells of what happens from now on.
OpenStream ==
  /\ route.at = "opening" /\ ~route.stop /\ Reaches
  /\ route' = [route EXCEPT !.at = "stream", !.open = TRUE]
  /\ OnlyRoute /\ UNCHANGED <<cursor, handled, events, excused>>

\* Ten seconds without an event: catch up again.
Resync ==
  /\ route.at = "stream" /\ Idle /\ events = <<>> /\ cursor <= posted /\ ~route.stop /\ Reaches
  /\ route' = [route EXCEPT !.at = "catchup"]
  /\ OnlyRoute /\ UNCHANGED <<cursor, handled, events, excused>>

\* The route gives up its connection and starts again.
Offline == /\ route' = [route EXCEPT !.at = "off", !.batch = <<>>, !.open = FALSE]
           /\ events' = <<>>
Disconnect ==
  /\ route.at \in {"restore", "catchup", "opening", "stream"} /\ Idle /\ Misses /\ Offline
  /\ OnlyRoute /\ UNCHANGED <<cursor, handled, excused>>

-----------------------------------------------------------------------------
(* process: one message *)

\* The next message of the batch, or of the stream.
Incoming == IF route.batch # <<>> THEN Head(route.batch)
            ELSE IF route.at = "stream" /\ events # <<>> /\ ~route.stop THEN Head(events)
            ELSE <<0, NoVersion>>

\* Mistake: a message of the stream moves the cursor too.
MutLeave(m) ==
  /\ work' = NoWork /\ cursor' = m + 1
  /\ \/ route.batch # <<>> /\ route' = [route EXCEPT !.batch = Tail(@)] /\ UNCHANGED events
     \/ route.batch = <<>> /\ events' = Tail(events) /\ UNCHANGED route

\* Leave the message behind: the batch moves the cursor, the stream does not.
Leave(m) ==
  /\ work' = NoWork
  /\ \/ /\ route.batch # <<>> /\ cursor' = m + 1
        /\ route' = [route EXCEPT !.batch = Tail(@)] /\ UNCHANGED events
     \/ route.batch = <<>> /\ events' = Tail(events) /\ UNCHANGED <<cursor, route>>

Excuse(m, v) == excused' = [excused EXCEPT ![m] = @ \cup {v}]
Give(m, v)   == given' = [given EXCEPT ![m] = @ \cup {v}]
Handle(m, v) == handled' = [handled EXCEPT ![m] = v] /\ Leave(m)

\* process throws: the message is not handled, the route starts again from its cursor.
GiveUp == work' = NoWork /\ Offline /\ UNCHANGED <<cursor, handled>>

\* The message goes on to an await of processClaimed.
Await(step, m, v, r, resume) ==
  /\ work' = [step |-> step, m |-> m, v |-> v, run |-> r, resume |-> resume]
  /\ UNCHANGED <<cursor, handled, route, events>>

\* startWithContext up to its first await: a run the table still shows running is closed.
Start(m, v, resume) ==
  LET stale == {r \in Run : runs[r].status = "running"} IN
  /\ Await("prepare", m, v, 0, resume)
  /\ runs' = [r \in Run |-> IF r \in stale THEN [runs[r] EXCEPT !.status = "failed"] ELSE runs[r]]
  /\ dropped' = dropped \cup stale

CircuitOpen == Len(runs) + controls >= MaxActivations

\* Mistake: only the fingerprint tells whether a version was handled.
MutKnown(m, v) == handled[m].at # 0 /\ v.says = handled[m].says

\* isHandled: a version from before the one that was handled, or one that says the same. Of the
\* same second, another one is new, whichever was written first.
Known(m, v) == handled[m].at # 0 /\ (v.at < handled[m].at \/ v.says = handled[m].says)

Skip ==
  LET m == Incoming[1] IN
  /\ Idle /\ m # 0 /\ Known(m, Incoming[2]) /\ Leave(m)
  /\ UNCHANGED <<chat, handled, runs, bound, recovery, controls, active, turn, fate, queue, past>>

\* decideWake: by its author, its mentions and its text.
Wakes(m) == kind[m] # "ignored"

\* A message that does not wake the agent or finds the circuit open is done with. A command
\* asks the network first, a plain message starts a run or goes to the active one.
Take ==
  LET m == Incoming[1]
      v == Incoming[2]
      steers == kind[m] = "plain" /\ active # 0
      settled == ~Wakes(m) \/ (CircuitOpen /\ ~steers)
  IN
  /\ Idle /\ m # 0 /\ ~Known(m, v)
  /\ \/ settled /\ Handle(m, v) /\ Excuse(m, v) /\ UNCHANGED <<runs, dropped>>
     \/ /\ ~settled /\ UNCHANGED excused
        /\ \/ /\ kind[m] = "new" /\ Await("new", m, v, 0, 0) /\ UNCHANGED <<runs, dropped>>
           \/ kind[m] = "plain" /\ ~steers /\ Start(m, v, 0)
           \/ steers /\ Await("steer", m, v, active, 0) /\ UNCHANGED <<runs, dropped>>
  /\ UNCHANGED <<chat, bound, recovery, controls, active, turn, fate, queue, given, unrecorded>>
  /\ Reaches

-----------------------------------------------------------------------------
(* The awaits of processClaimed *)

At(step) == work.step = step
Asked(r, op) == queue' = [queue EXCEPT ![r] = Append(@, op)]
Done(r) == active' = IF active = r THEN 0 ELSE active
OnlyWork == UNCHANGED <<kind, version, unrecorded>>

\* A control message: the project or model command, or /new in a chat that cannot have one.
Control ==
  /\ At("new")
  /\ \/ /\ Reaches /\ controls' = controls + 1
        /\ Handle(work.m, work.v) /\ Excuse(work.m, work.v)
     \/ Misses /\ GiveUp /\ UNCHANGED <<controls, excused>>
  /\ OnlyWork
  /\ UNCHANGED <<runs, bound, recovery, responses, active, turn, fate, queue, given, dropped>>

\* Mistake: the completion is let go, the turn is not told.
MutCancel(r) ==
  /\ UNCHANGED turn /\ fate' = [fate EXCEPT ![r] = IF @ \in {"none", "waiting"} THEN "over" ELSE @]

\* The turn is told to stop; its completion does nothing any more unless it has begun to.
Cancel(r) ==
  /\ turn' = [turn EXCEPT ![r] = IF @ = "live" THEN "cancelled" ELSE @]
  /\ fate' = [fate EXCEPT ![r] = IF @ \in {"none", "waiting"} THEN "over" ELSE @]

\* /new: the active run is replaced.
NewSession ==
  /\ At("new") /\ Reaches
  /\ \/ /\ active # 0 /\ Cancel(active) /\ Asked(active, "interrupt") /\ active' = 0
        /\ Await("replace", work.m, work.v, active, 0) /\ UNCHANGED <<runs, dropped>>
     \/ active = 0 /\ Start(work.m, work.v, 0) /\ UNCHANGED <<active, turn, fate, queue>>
  /\ OnlyWork /\ UNCHANGED <<bound, recovery, responses, controls, given, excused>>

\* The working message is sent, and no run tells of it.
Strays ==
  /\ work.resume = 0 /\ responses' = Append(responses, "orphan")
  /\ unrecorded' = unrecorded \cup {[to |-> work.m, response |-> Len(responses) + 1]}

\* The response is there and the run is in the table. What is searched for among the last
\* messages is a reply to the message, which a working message of a chat is not.
Prepare ==
  LET new == work.resume = 0
      response == IF new THEN Len(responses) + 1 ELSE work.resume
  IN
  /\ At("prepare")
  /\ \/ /\ Reaches
        /\ responses' = IF new THEN Append(responses, "working") ELSE responses
        /\ runs' = Append(runs, [response |-> response, status |-> "running"])
        /\ bound' = IF kind[work.m] = "new" THEN "resetting" ELSE "active"
        /\ turn' = Append(turn, "none") /\ fate' = Append(fate, "none")
        /\ queue' = Append(queue, <<>>)
        /\ Await("launch", work.m, work.v, Len(runs) + 1, work.resume) /\ UNCHANGED unrecorded
     \/ /\ Misses /\ GiveUp /\ (Strays \/ UNCHANGED <<responses, unrecorded>>)
        /\ UNCHANGED <<runs, bound, turn, fate, queue>>
  /\ UNCHANGED <<kind, version, recovery, active, controls, given, excused, dropped>>

\* runtime.start
Launch ==
  LET r == work.run IN
  /\ At("launch")
  /\ \/ /\ Reaches /\ turn' = [turn EXCEPT ![r] = "live"] /\ active' = r /\ bound' = "active"
        /\ Give(work.m, work.v) /\ Await("observe", work.m, work.v, r, 0) /\ UNCHANGED queue
     \/ /\ Misses /\ Asked(r, "fail") /\ Await("failing", work.m, work.v, r, 0)
        /\ UNCHANGED <<turn, active, bound, given>>
  /\ OnlyWork
  /\ UNCHANGED <<runs, recovery, responses, fate, controls, excused, dropped>>

\* ensureObserver is over: the completion is attached, the message is handled.
Observe ==
  /\ At("observe") /\ Reaches
  /\ fate' = [fate EXCEPT ![work.run] = IF @ = "none" THEN "waiting" ELSE @]
  /\ Handle(work.m, work.v)
  /\ OnlyWork
  /\ UNCHANGED <<runs, bound, recovery, responses, active, turn, queue, controls, given, excused,
                 dropped>>

\* The active run is given up because it could not be steered: its failure goes behind the
\* writes that are left.
SteerFailed(r, left) ==
  /\ active = r /\ Cancel(r) /\ Await("failing", work.m, work.v, r, 0)
  /\ queue' = [queue EXCEPT ![r] = Append(left, "fail")]

Steer ==
  LET r == work.run IN
  /\ At("steer")
  /\ \/ /\ turn[r] = "live" /\ Reaches /\ Give(work.m, work.v) /\ Asked(r, "move")
        /\ Await("move", work.m, work.v, r, 0) /\ UNCHANGED <<turn, fate>>
     \/ /\ turn[r] # "live" /\ Reaches /\ Await("await", work.m, work.v, r, 0)
        /\ UNCHANGED <<given, queue, turn, fate>>
     \/ /\ Misses \/ (turn[r] # "live" /\ Reaches)
        /\ SteerFailed(r, queue[r]) /\ UNCHANGED given
  /\ OnlyWork
  /\ UNCHANGED <<runs, bound, recovery, responses, active, controls, excused, dropped>>

\* The run is over: the follow-up starts one of its own.
Restart ==
  /\ At("await") /\ fate[work.run] = "over"
  /\ Start(work.m, work.v, work.resume) /\ Reaches
  /\ OnlyWork
  /\ UNCHANGED <<bound, recovery, responses, active, turn, fate, queue, controls, given,
                 excused>>

-----------------------------------------------------------------------------
(* The turn, the completion of the run and the writes to its response *)

OnlyRun == UNCHANGED <<kind, version, given, controls, unrecorded>>
Routed == UNCHANGED <<cursor, handled, route, events, work, excused, dropped>>

\* The turn ends by itself, breaks, or runs out of its time.
TurnEnds(r) ==
  /\ turn[r] = "live" /\ \E how \in {"ended", "broken"} : turn' = [turn EXCEPT ![r] = how]
  /\ OnlyRun /\ Routed /\ UNCHANGED <<runs, bound, recovery, responses, active, fate, queue>>
  /\ Reaches

\* active.completion: an ended run is not active any more, a failed one until it is written.
Completes(r) ==
  /\ fate[r] = "waiting" /\ turn[r] \in {"ended", "broken"}
  /\ \/ turn[r] = "ended" /\ Done(r) /\ Asked(r, "finish")
        /\ fate' = [fate EXCEPT ![r] = "finishing"]
     \/ turn[r] = "broken" /\ UNCHANGED active /\ Asked(r, "fail")
        /\ fate' = [fate EXCEPT ![r] = "failing"]
  /\ OnlyRun /\ Routed /\ UNCHANGED <<runs, bound, recovery, responses, turn>> /\ Reaches

Next1(r, op) == queue[r] # <<>> /\ Head(queue[r]) = op
Written(r) == queue' = [queue EXCEPT ![r] = Tail(@)]

\* projection.finish, then finishRun
Finish(r) ==
  /\ Next1(r, "finish")
  /\ \/ /\ Reaches /\ Written(r) /\ fate' = [fate EXCEPT ![r] = "over"]
        /\ \/ runs' = Ends(r, "done") /\ responses' = Show(runs[r].response, "answer")
           \/ runs' = Ends(r, "silent") /\ responses' = Show(runs[r].response, "gone")
     \/ /\ Misses /\ fate' = [fate EXCEPT ![r] = "failing"]
        /\ queue' = [queue EXCEPT ![r] = Append(Tail(@), "fail")] /\ UNCHANGED <<runs, responses>>
  /\ OnlyRun /\ Routed /\ UNCHANGED <<bound, recovery, active, turn>>

\* projection.fail, then finishRun: the completion's, or that of a start or steer that failed
Fail(r) ==
  LET mine == At("failing") /\ work.run = r /\ fate[r] # "failing" IN
  /\ Next1(r, "fail") /\ Written(r)
  /\ \/ Reaches /\ responses' = Show(runs[r].response, "notice")
     \/ Misses /\ responses' = Show(runs[r].response, "left")
  /\ runs' = Ends(r, "failed") /\ fate' = [fate EXCEPT ![r] = "over"]
  /\ Done(r)
  /\ IF mine THEN Handle(work.m, work.v) /\ Excuse(work.m, work.v)
     ELSE UNCHANGED <<cursor, handled, route, events, work, excused>>
  /\ OnlyRun /\ UNCHANGED <<bound, recovery, turn, dropped>>

\* projection.interrupt, then finishRun: /new or the stop of the gateway
Interrupt(r) ==
  /\ Next1(r, "interrupt") /\ Written(r)
  /\ \/ Reaches /\ responses' = Show(runs[r].response, "notice")
     \/ Misses /\ responses' = Show(runs[r].response, "left")
  /\ IF At("replace") /\ work.run = r
     THEN Await("prepare", work.m, work.v, 0, 0) /\ UNCHANGED <<dropped, excused>>
     ELSE Routed
  /\ runs' = Ends(r, "cancelled")
  /\ OnlyRun /\ UNCHANGED <<bound, recovery, active, turn, fate>>

\* Mistake: the run keeps its old response.
MutResponded(r, response) == runs

\* updateRunResponse
Responded(r, response) == [runs EXCEPT ![r].response = response]

\* What projection.move leaves above the follow-up: a response that shows text stays.
Left(old, left) == IF responses[old] = "working" THEN Show(old, left) ELSE responses

\* projection.move: a working response below the follow-up. One whose sending fails may be in
\* the chat all the same.
Move(r) ==
  LET new == Len(responses) + 1
      old == runs[r].response
  IN
  /\ Next1(r, "move")
  /\ \/ /\ Reaches /\ Written(r)
        /\ \E left \in {"gone", "answer"} : responses' = Append(Left(old, left), "working")
        /\ runs' = Responded(r, new)
        /\ IF active = r THEN Handle(work.m, work.v)
           ELSE Await("await", work.m, work.v, r, new)
        /\ UNCHANGED <<active, turn, fate>>
     \/ /\ Misses /\ UNCHANGED runs
        /\ \E kept \in {responses, Left(old, "gone")} :
             responses' \in {kept, Append(kept, "orphan")}
        /\ \/ SteerFailed(r, Tail(queue[r]))
           \/ /\ active # r /\ Written(r) /\ Await("await", work.m, work.v, r, 0)
              /\ UNCHANGED <<turn, fate>>
        /\ UNCHANGED active
  /\ OnlyRun /\ UNCHANGED <<bound, recovery, excused, dropped>>

-----------------------------------------------------------------------------
(* Outputs of a session that has no active run: receiveSessionOutput *)

\* The output answers the run the table still shows running: that of an earlier process, or the
\* one that is being started and not yet active.
Output ==
  /\ route.watch /\ bound = "active" /\ active = 0 /\ Troubled
  /\ \E r \in Run, silent \in BOOLEAN :
       /\ runs[r].status = "running"
       /\ recovery' = recovery \cup
                        {[run |-> r, response |-> runs[r].response, silent |-> silent]}
       /\ dropped' = IF work.run = r THEN dropped \cup {r} ELSE dropped
  /\ UNCHANGED <<chat, cursor, handled, runs, bound, controls, memory, given, excused, unrecorded>>

\* drainOutboxOnce, or the silent path of receiveSessionOutput
Recover ==
  \E out \in recovery :
    /\ recovery' = recovery \ {out}
    /\ runs' = Ends(out.run, IF out.silent THEN "silent" ELSE "done")
    /\ responses' = Show(out.response, IF out.silent THEN "gone" ELSE "answer")
    /\ UNCHANGED <<kind, version, cursor, handled, bound, controls, memory, past>>

-----------------------------------------------------------------------------
(* The process *)

Forget ==
  /\ route' = [route EXCEPT !.at = "off", !.batch = <<>>, !.fresh = TRUE, !.open = FALSE,
                           !.watch = FALSE, !.stop = FALSE]
  /\ events' = <<>> /\ work' = NoWork /\ active' = 0
  /\ turn' = [r \in Run |-> "none"] /\ fate' = [r \in Run |-> "none"]
  /\ queue' = [r \in Run |-> <<>>]
  /\ recovery' = {out \in recovery : ~out.silent}

\* The gateway dies, or ends after a stop, and comes back.
Crash ==
  /\ \/ Troubled
     \/ route.stop /\ Reaches
  /\ Forget
  /\ (At("prepare") /\ Strays) \/ UNCHANGED <<responses, unrecorded>>
  /\ UNCHANGED <<kind, version, cursor, handled, runs, bound, controls, given, excused, dropped>>

\* A stop lets the turn end for a while and then interrupts the run that is active.
Stop ==
  /\ ~route.stop /\ Troubled
  /\ route' = [route EXCEPT !.stop = TRUE, !.watch = FALSE]
  /\ UNCHANGED <<chat, table, events, work, active, turn, fate, queue, given, excused,
                 dropped, unrecorded>>

StopCancels ==
  /\ route.stop /\ active # 0
  /\ "interrupt" \notin {queue[active][i] : i \in 1..Len(queue[active])}
  /\ Cancel(active) /\ Asked(active, "interrupt")
  /\ Reaches
  /\ UNCHANGED <<chat, table, route, events, work, active, given, excused, dropped, unrecorded>>

RunStep(r) == TurnEnds(r) \/ Completes(r) \/ Finish(r) \/ Fail(r) \/ Interrupt(r) \/ Move(r)
Next ==
  \/ Post \/ (\E m \in Message : EditMessage(m))
  \/ Connect \/ Restore \/ Reconcile \/ ReconcileEnds \/ List \/ OpenStream \/ Resync \/ Disconnect
  \/ Skip \/ Take \/ Control \/ NewSession \/ Prepare \/ Launch \/ Observe \/ Steer \/ Restart
  \/ (\E r \in Run : RunStep(r)) \/ Output \/ Recover
  \/ Crash \/ Stop \/ StopCancels

Spec == Init /\ [][Next]_vars

-----------------------------------------------------------------------------
(* What must hold *)

\* At most one turn of the conversation runs that nobody told to stop.
OneTurnPerThread == Cardinality({r \in Run : turn[r] = "live"}) <= 1

\* A message behind the cursor was handled, and a version that was handled was given to a turn
\* or let go with the reason in the chat or the log: nothing is passed over.
NoMessageIsLost ==
  \A m \in Message : /\ m < cursor => handled[m] # NoVersion
                     /\ handled[m] # NoVersion => handled[m] \in given[m] \cup excused[m]

\* A working text in the chat is that of a run which the table still shows running, so that its
\* completion, a reconciliation, an output of its session or the next start will find it, or of a
\* run whose row was closed without a word about it: by the start of a new run (startWithContext),
\* or by an output that came before the run was active. Such a text stays for good unless a write
\* of this process is still to come; so do an orphan, which has no run, and one that is left
\* because its last write failed.
PlaceholdersHaveRuns ==
  \A i \in 1..Len(responses) : responses[i] = "working" =>
    \E r \in Run : runs[r].response = i /\ (runs[r].status = "running" \/ r \in dropped)

\* A turn never gets a version of a message that is older, by the second it was written in, after
\* a newer one. Of versions of the same second either may come last.
VersionsAdvance ==
  [][\A m \in Message : \A v \in given'[m] \ given[m] : \A w \in given[m] : w.at <= v.at]_vars

\* ARCHITECTURE.md: "If dispatch stops after Knot creates the immediate reply but before it
\* commits the run record, a retry looks for a bot reply under the same trigger. It resumes that
\* reply instead of posting a duplicate."
OrphanIsResumed ==
  At("launch") /\ work.resume = 0 =>
    \A o \in unrecorded : o.to = work.m => runs[work.run].response = o.response
=============================================================================
