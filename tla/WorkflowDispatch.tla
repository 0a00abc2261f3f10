--------------------------- MODULE WorkflowDispatch ---------------------------
(***************************************************************************)
(* From events to runs: the matcher and the dispatcher of                  *)
(* src/automation/runner.ts with their transactions in                     *)
(* src/automation/runner-store.ts, and the processes that write the tables *)
(* they read: the operator CLI and the definition observer.                *)
(*                                                                         *)
(* Normally one gateway runs.  ProcessLock shows that two can, so the set  *)
(* of gateways is a parameter; they share the database and nothing else.   *)
(* A run is only what the limits ask of it; its steps are WorkflowQueue's. *)
(***************************************************************************)
EXTENDS Integers, FiniteSets

CONSTANTS
  Gateway,          \* gateway processes on one database
  Event,            \* event ids, in the order SQLite compares them
  Workflow,
  Version,          \* immutable versions of the workflows
  WorkflowOf,       \* [Version -> Workflow]
  Target,           \* [Event -> Workflow \cup {NoWorkflow}]: what an event triggers
  NoWorkflow,       \* the target of a control-plane event
  NoVersion,        \* no active version
  Configuration,    \* what a configuration may say of each stored version
  Automatic,        \* T0 versions, approved by the configured policy
  Oversized,        \* versions beyond maximumStepsPerRun or maximumEffectsPerRun
  MaximumConcurrentRuns,
  MaximumRunsPerHour,
  MaximumAttempts,  \* MAXIMUM_DELIVERY_DISPATCH_ATTEMPTS
  BatchSize,        \* runner.batchSize
  MaxTime,          \* bound of the model: event time stamps
  MaxCrashes        \* bound of the model: crashes

ASSUME DispatchAssumption ==
  /\ Event \subseteq Nat /\ IsFiniteSet(Event) /\ IsFiniteSet(Version) /\ IsFiniteSet(Gateway)
  /\ WorkflowOf \in [Version -> Workflow]
  /\ Target \in [Event -> Workflow \cup {NoWorkflow}]
  /\ NoWorkflow \notin Workflow /\ NoVersion \notin Version
  /\ Configuration \subseteq [Version -> {"allowed", "denied", "unreadable"}]
  /\ Automatic \subseteq Version /\ Oversized \subseteq Version
  /\ MaximumConcurrentRuns \in Nat \ {0} /\ MaximumRunsPerHour \in Nat \ {0}
  /\ MaximumAttempts \in Nat \ {0} /\ BatchSize \in Nat \ {0}
  /\ MaxTime \in Nat \ {0} /\ MaxCrashes \in Nat

VARIABLES
  stamp,        \* recordedAt of every event whose writer has started, or 0
  recorded,     \* normalized_events
  late,         \* history: recorded behind an event recorded earlier
  baseline,     \* history: recorded before the matcher was initialized
  handled,      \* history: events the matcher has taken through its transaction
  initialized,  \* workflow_runner_state.matcher_initialized
  cursor,       \* matcher_recorded_at and matcher_event_id
  active,       \* workflow_definitions.active_version_hash
  enabled,      \* no operator override disables the workflow
  decision,     \* the current approval decision of each version
  verdict,      \* the configuration each gateway runs with
  delivery,     \* workflow_deliveries.state, keyed by version and event
  due,          \* deliveries whose next_dispatch_at has come
  deferrals,    \* dispatch_attempt_count
  run,          \* the run of a delivery, as the limits count it
  resumed,      \* history: runs that waited for their source and went on
  recent,       \* runs created within the last hour
  batch,        \* events a gateway has read and not matched
  todo,         \* pending deliveries a gateway has read and not considered
  checked,      \* the delivery a gateway has found ready, or NoDelivery
  up,           \* gateways that run
  crashes

eventVars    == <<stamp, recorded, late, baseline>>
matcherVars  == <<handled, initialized, cursor>>
rulesVars    == <<active, enabled, decision, verdict>>
deliveryVars == <<delivery, due, deferrals>>
runVars      == <<run, resumed, recent>>
turnVars     == <<batch, todo, checked>>
processVars  == <<up, crashes>>
vars == <<eventVars, matcherVars, rulesVars, deliveryVars, runVars, turnVars, processVars>>

Delivery   == {d \in Version \X Event : Target[d[2]] = WorkflowOf[d[1]]}
NoDelivery == <<>>
Owner(d)   == WorkflowOf[d[1]]

Position == (0..MaxTime) \X (Event \cup {0})

TypeOK ==
  /\ stamp \in [Event -> 0..MaxTime]
  /\ recorded \subseteq Event /\ late \subseteq recorded /\ baseline \subseteq recorded
  /\ handled \subseteq recorded /\ initialized \in BOOLEAN /\ cursor \in Position
  /\ active \in [Workflow -> Version \cup {NoVersion}] /\ enabled \in [Workflow -> BOOLEAN]
  /\ decision \in [Version -> {"none", "approved", "rejected"}]
  /\ verdict \in [Gateway -> Configuration]
  /\ delivery \in [Delivery -> {"none", "pending", "dispatched", "cancelled", "dead_letter"}]
  /\ due \subseteq Delivery /\ deferrals \in [Delivery -> 0..MaximumAttempts]
  /\ run \in [Delivery -> {"none", "working", "refetch", "ended"}]
  /\ resumed \subseteq Delivery /\ recent \subseteq Delivery
  /\ batch \in [Gateway -> SUBSET Event] /\ todo \in [Gateway -> SUBSET Delivery]
  /\ checked \in [Gateway -> Delivery \cup {NoDelivery}]
  /\ up \subseteq Gateway /\ crashes \in 0..MaxCrashes

Init ==
  /\ stamp = [e \in Event |-> 0]
  /\ recorded = {} /\ late = {} /\ baseline = {}
  /\ handled = {} /\ initialized = FALSE /\ cursor = <<0, 0>>
  /\ active \in [Workflow -> Version \cup {NoVersion}]
  /\ \A w \in Workflow : active[w] # NoVersion => WorkflowOf[active[w]] = w
  /\ enabled = [w \in Workflow |-> TRUE]
  /\ decision = [v \in Version |-> "none"]
  /\ verdict \in [Gateway -> Configuration]
  /\ delivery = [d \in Delivery |-> "none"] /\ due = {}
  /\ deferrals = [d \in Delivery |-> 0]
  /\ run = [d \in Delivery |-> "none"] /\ resumed = {} /\ recent = {}
  /\ batch = [g \in Gateway |-> {}] /\ todo = [g \in Gateway |-> {}]
  /\ checked = [g \in Gateway |-> NoDelivery]
  /\ up = Gateway /\ crashes = 0

-----------------------------------------------------------------------------
(* The event log *)

PositionOf(e) == <<stamp[e], e>>

\* recorded_at>? OR (recorded_at=? AND event_id>?)
After(p, q) == p[1] > q[1] \/ (p[1] = q[1] /\ p[2] > q[2])

ActiveVersion(v) == active[WorkflowOf[v]] = v /\ enabled[WorkflowOf[v]]

Approved(v) == decision[v] = "approved"

\* The writer of an event reads the clock, which does not run backwards:
\* workflowManualRun once it has found the workflow active and approved,
\* observer.ts when it scans.
Stamp(e) ==
  /\ stamp[e] = 0
  /\ Target[e] # NoWorkflow => \E v \in Version :
       WorkflowOf[v] = Target[e] /\ ActiveVersion(v) /\ Approved(v)
  /\ \E now \in 1..MaxTime :
       /\ \A x \in Event : stamp[x] <= now
       /\ stamp' = [stamp EXCEPT ![e] = now]
  /\ UNCHANGED <<recorded, late, baseline, matcherVars, rulesVars, deliveryVars, runVars, turnVars,
                 processVars>>

\* ... and gets the database's write lock, however much later.
Record(e) ==
  /\ stamp[e] # 0 /\ e \notin recorded
  /\ recorded' = recorded \cup {e}
  /\ late' = IF \E x \in recorded : After(PositionOf(x), PositionOf(e)) THEN late \cup {e} ELSE late
  /\ UNCHANGED <<stamp, baseline, matcherVars, rulesVars, deliveryVars, runVars,
                 turnVars, processVars>>

-----------------------------------------------------------------------------
(* The matcher *)

\* A gateway between the parts of a tick
Idle(g) == g \in up /\ batch[g] = {} /\ todo[g] = {} /\ checked[g] = NoDelivery

Newest(e, S) == \A x \in S \ {e} : After(PositionOf(e), PositionOf(x))
Oldest(e, S) == \A x \in S \ {e} : After(PositionOf(x), PositionOf(e))

\* The first tick of the first process starts behind whatever is recorded.
InitializeMatcher(g) ==
  /\ Idle(g) /\ ~initialized
  /\ initialized' = TRUE
  /\ \/ recorded = {} /\ cursor' = <<0, 0>>
     \/ \E e \in recorded : Newest(e, recorded) /\ cursor' = PositionOf(e)
  /\ baseline' = recorded
  /\ UNCHANGED <<stamp, recorded, late, handled, rulesVars, deliveryVars, runVars, turnVars,
                 processVars>>

NewEvents == {e \in recorded : After(PositionOf(e), cursor)}

\* eventsAfter: ORDER BY recorded_at,event_id LIMIT ?
EventsAfter ==
  {e \in NewEvents : Cardinality({x \in NewEvents : After(PositionOf(e), PositionOf(x))}) < BatchSize}

\* matchEventsOnce reads a page after the cursor ...
ReadEvents(g) ==
  /\ Idle(g) /\ initialized
  /\ EventsAfter # {}
  /\ batch' = [batch EXCEPT ![g] = EventsAfter]
  /\ UNCHANGED <<eventVars, matcherVars, rulesVars, deliveryVars, runVars, todo, checked,
                 processVars>>

\* ensureAutomaticApproval of the versions in S
Ensured(S) ==
  [v \in Version |-> IF v \in S \cap Automatic /\ decision[v] = "none" THEN "approved"
                                                                     ELSE decision[v]]

\* matchesAnyTrigger: a manual run names its workflow, a control-plane event triggers none.
Triggers(e, v) == Target[e] = WorkflowOf[v]

\* The version that an event is delivered to: active, readable and authorized
Matching(g, e) ==
  {v \in Version : Triggers(e, v) /\ ActiveVersion(v) /\ verdict[g][v] = "allowed"}

\* INSERT OR IGNORE, unique by version and event
NewDeliveries(g, e) == {d \in Matching(g, e) \X {e} : delivery[d] = "none"}

Put(f, S, x) == [d \in Delivery |-> IF d \in S THEN x ELSE f[d]]

\* Mutant: the cursor is left to the end of the page.
AdvanceMutant(g, e) == IF batch[g] = {e} THEN PositionOf(e) ELSE cursor

\* Mutant: the cursor takes the end of the page with its first event.
AdvanceToEndMutant(g, e) ==
  PositionOf(CHOOSE n \in batch[g] : \A x \in batch[g] : ~After(PositionOf(x), PositionOf(n)))

\* createDeliveriesAndAdvanceCursor moves the cursor with each event's deliveries.
Advance(g, e) == PositionOf(e)

\* ... and takes it event by event.
MatchEvent(g) ==
  \E e \in batch[g] :
    /\ g \in up /\ Oldest(e, batch[g])
    /\ delivery' = Put(delivery, NewDeliveries(g, e), "pending")
    /\ due' = due \cup NewDeliveries(g, e)
    /\ decision' = Ensured(Matching(g, e))
    /\ handled' = handled \cup {e}
    /\ cursor' = Advance(g, e)
    /\ batch' = [batch EXCEPT ![g] = @ \ {e}]
    /\ UNCHANGED <<eventVars, initialized, active, enabled, verdict, deferrals, runVars, todo,
                   checked, processVars>>

-----------------------------------------------------------------------------
(* The dispatcher *)

Pending(d) == delivery[d] = "pending"

\* dispatchOnce reads a page of due deliveries ...
ReadDeliveries(g) ==
  /\ Idle(g)
  /\ \E S \in SUBSET {d \in due : Pending(d)} :
       /\ S # {}
       /\ Cardinality(S) <= BatchSize
       /\ S # {d \in due : Pending(d)} => Cardinality(S) = BatchSize
       /\ todo' = [todo EXCEPT ![g] = S]
  /\ UNCHANGED <<eventVars, matcherVars, rulesVars, deliveryVars, runVars, batch, checked,
                 processVars>>

\* cancelDelivery and deadLetterDelivery: UPDATE ... WHERE state='pending'
Mark(d, state) == delivery' = IF Pending(d) THEN [delivery EXCEPT ![d] = state] ELSE delivery

\* deferDelivery: the budget of refusals
DeferDelivery(d) ==
  /\ due' = due \ {d}
  /\ deferrals' = IF Pending(d) THEN [deferrals EXCEPT ![d] = @ + 1] ELSE deferrals
  /\ Mark(d, IF deferrals[d] + 1 >= MaximumAttempts THEN "dead_letter" ELSE "pending")

\* Whatever the page said, each delivery is looked at afresh.
Consider(g, d) ==
  LET v == d[1]
  IN  /\ g \in up /\ d \in todo[g] /\ checked[g] = NoDelivery
      /\ todo' = [todo EXCEPT ![g] = @ \ {d}]
      /\ \/ /\ ~ActiveVersion(v)
            /\ Mark(d, "cancelled")
            /\ UNCHANGED <<due, deferrals, decision, checked>>
         \/ /\ ActiveVersion(v) /\ verdict[g][v] = "unreadable"
            /\ Mark(d, "dead_letter")
            /\ UNCHANGED <<due, deferrals, decision, checked>>
         \/ /\ ActiveVersion(v) /\ verdict[g][v] = "denied"
            /\ DeferDelivery(d)
            /\ UNCHANGED <<decision, checked>>
         \/ /\ ActiveVersion(v) /\ verdict[g][v] = "allowed"
            /\ decision' = Ensured({v})
            /\ IF decision'[v] = "approved"
               THEN checked' = [checked EXCEPT ![g] = d] /\ UNCHANGED due
               ELSE due' = due \ {d} /\ UNCHANGED checked
            /\ UNCHANGED <<delivery, deferrals>>
      /\ UNCHANGED <<eventVars, matcherVars, active, enabled, verdict, runVars, batch, processVars>>

RunsOf(w, states) == {d \in Delivery : Owner(d) = w /\ run[d] \in states}

\* Mutant: one run too many.
CapacityMutant(w) ==
  /\ Cardinality(RunsOf(w, {"working"})) <= MaximumConcurrentRuns
  /\ Cardinality({d \in recent : Owner(d) = w}) <= MaximumRunsPerHour

\* Mutant: runs that ended count as concurrent.
StaleCapacityMutant(w) ==
  /\ Cardinality(RunsOf(w, {"working", "ended"})) < MaximumConcurrentRuns
  /\ Cardinality({d \in recent : Owner(d) = w}) < MaximumRunsPerHour

\* A run that only waits for its source does not count as concurrent.
Capacity(w) ==
  /\ Cardinality(RunsOf(w, {"working"})) < MaximumConcurrentRuns
  /\ Cardinality({d \in recent : Owner(d) = w}) < MaximumRunsPerHour

\* dispatchDelivery reads the delivery and its run again.
Dispatchable(d) == run[d] = "none" /\ Pending(d)

\* dispatchDelivery, and deferTransientDelivery when it returns no run
DispatchDelivery(g) ==
  LET d == checked[g]
  IN  /\ g \in up /\ d # NoDelivery
      /\ checked' = [checked EXCEPT ![g] = NoDelivery]
      /\ \/ /\ ~Dispatchable(d)
            /\ UNCHANGED <<delivery, due, run, recent>>
         \/ /\ Dispatchable(d) /\ d[1] \in Oversized
            /\ delivery' = [delivery EXCEPT ![d] = "dead_letter"]
            /\ UNCHANGED <<due, run, recent>>
         \/ /\ Dispatchable(d) /\ d[1] \notin Oversized /\ ~Capacity(Owner(d))
            /\ due' = due \ {d}
            /\ UNCHANGED <<delivery, run, recent>>
         \/ /\ Dispatchable(d) /\ d[1] \notin Oversized /\ Capacity(Owner(d))
            /\ delivery' = [delivery EXCEPT ![d] = "dispatched"]
            /\ run' = [run EXCEPT ![d] = "working"]
            /\ recent' = recent \cup {d}
            /\ UNCHANGED due
      /\ UNCHANGED <<eventVars, matcherVars, rulesVars, deferrals, resumed, batch, todo,
                     processVars>>

\* next_dispatch_at passes.
ComeDue(d) ==
  /\ Pending(d) /\ d \notin due
  /\ due' = due \cup {d}
  /\ UNCHANGED <<eventVars, matcherVars, rulesVars, delivery, deferrals, runVars, turnVars,
                 processVars>>

\* An hour passes since the run was created.
Age(d) ==
  /\ d \in recent
  /\ recent' = recent \ {d}
  /\ UNCHANGED <<eventVars, matcherVars, rulesVars, deliveryVars, run, resumed, turnVars,
                 processVars>>

-----------------------------------------------------------------------------
(* The rest of the system, as far as this module sees it *)

\* Every step of the run that could go on waits for its source.
AwaitSource(d) ==
  /\ run[d] = "working"
  /\ run' = [run EXCEPT ![d] = "refetch"]
  /\ UNCHANGED <<eventVars, matcherVars, rulesVars, deliveryVars, resumed, recent, turnVars,
                 processVars>>

Resume(d) ==
  /\ run[d] = "refetch"
  /\ run' = [run EXCEPT ![d] = "working"]
  /\ resumed' = resumed \cup {d}
  /\ UNCHANGED <<eventVars, matcherVars, rulesVars, deliveryVars, recent, turnVars, processVars>>

EndRun(d) ==
  /\ run[d] \in {"working", "refetch"}
  /\ run' = [run EXCEPT ![d] = "ended"]
  /\ UNCHANGED <<eventVars, matcherVars, rulesVars, deliveryVars, resumed, recent, turnVars,
                 processVars>>

\* The observer activates another version, or archives the workflow.
Activate(w) ==
  /\ \E v \in {x \in Version : WorkflowOf[x] = w} \cup {NoVersion} :
       v # active[w] /\ active' = [active EXCEPT ![w] = v]
  /\ UNCHANGED <<eventVars, matcherVars, enabled, decision, verdict, deliveryVars, runVars,
                 turnVars, processVars>>

\* workflow enable and workflow disable
Override(w) ==
  /\ enabled' = [enabled EXCEPT ![w] = ~@]
  /\ UNCHANGED <<eventVars, matcherVars, active, decision, verdict, deliveryVars, runVars,
                 turnVars, processVars>>

\* workflow approve, reject and revoke; an approval that expires is none.
Decide(v) ==
  /\ \E x \in {"none", "approved", "rejected"} \ {decision[v]} :
       /\ x = "none" => decision[v] = "approved"
       /\ decision' = [decision EXCEPT ![v] = x]
  /\ UNCHANGED <<eventVars, matcherVars, active, enabled, verdict, deliveryVars, runVars,
                 turnVars, processVars>>

Crash(g) ==
  /\ g \in up /\ crashes < MaxCrashes
  /\ crashes' = crashes + 1
  /\ up' = up \ {g}
  /\ batch' = [batch EXCEPT ![g] = {}]
  /\ todo' = [todo EXCEPT ![g] = {}]
  /\ checked' = [checked EXCEPT ![g] = NoDelivery]
  /\ UNCHANGED <<eventVars, matcherVars, rulesVars, deliveryVars, runVars>>

\* The next process reads the configuration, and stored versions, of the day.
Boot(g) ==
  /\ g \notin up
  /\ up' = up \cup {g}
  /\ \E c \in Configuration : verdict' = [verdict EXCEPT ![g] = c]
  /\ UNCHANGED <<eventVars, matcherVars, active, enabled, decision, deliveryVars, runVars, turnVars,
                 crashes>>

GatewayStep(g) ==
  \/ ReadEvents(g) \/ MatchEvent(g) \/ ReadDeliveries(g)
  \/ DispatchDelivery(g) \/ Boot(g)
  \/ \E d \in Delivery : Consider(g, d)

Next ==
  \/ \E e \in Event : Stamp(e) \/ Record(e)
  \/ \E g \in Gateway : InitializeMatcher(g) \/ GatewayStep(g) \/ Crash(g)
  \/ \E d \in Delivery : ComeDue(d) \/ Age(d) \/ AwaitSource(d) \/ Resume(d) \/ EndRun(d)
  \/ \E w \in Workflow : Activate(w) \/ Override(w)
  \/ \E v \in Version : Decide(v)

Spec == Init /\ [][Next]_vars

\* The runner's loop survives every error and polls for ever; timers expire;
\* a run ends at the latest at its deadline (WorkflowQueue, EveryRunEnds).
Fairness ==
  /\ \A g \in Gateway : WF_vars(InitializeMatcher(g)) /\ WF_vars(GatewayStep(g))
  /\ \A d \in Delivery : WF_vars(ComeDue(d)) /\ WF_vars(Age(d)) /\ WF_vars(EndRun(d))

FairSpec == Spec /\ Fairness

-----------------------------------------------------------------------------
(* Safety *)

\* The cursor passes an event only with its deliveries: whatever gateways crash
\* in a page, or overtake each other, no event that was recorded in order, after
\* the matcher began, is behind the cursor without having been matched.
NoEventIsPassed ==
  \A e \in recorded \ (late \cup baseline) :
    ~After(PositionOf(e), cursor) => e \in handled

\* A delivery is dispatched exactly when it has its run, and one that was
\* cancelled or dead-lettered has none: two gateways that read the same page,
\* and a delivery marked after it was dispatched, must not part the two tables.
DispatchedHasRun == \A d \in Delivery : delivery[d] = "dispatched" <=> run[d] # "none"

\* What became of a delivery stands: a gateway that still holds it in a page it
\* read earlier neither dispatches what another cancelled or dead-lettered, nor
\* cancels, dead-letters or defers what another dispatched.
SettledDeliveriesStand ==
  [][\A d \in Delivery :
       delivery[d] \in {"dispatched", "cancelled", "dead_letter"} => delivery'[d] = delivery[d]]_vars

\* Only runs that gave up their slot to wait for a source, and came back, may
\* bring a workflow above its limit of concurrent runs.
ConcurrencyIsLimited ==
  \A w \in Workflow : Cardinality(RunsOf(w, {"working"}) \ resumed) <= MaximumConcurrentRuns

\* One gateway delivers an event to one version of its workflow, though the
\* table's key would allow a delivery for each: after a crash in a page, an
\* event that was matched is not matched again against a newer version.
OneVersionPerEvent ==
  Cardinality(Gateway) = 1 =>
    \A c, d \in Delivery : c[2] = d[2] /\ delivery[c] # "none" /\ delivery[d] # "none" => c = d

(* Liveness *)

\* A delivery stays pending for ever only while it waits for an approval: it is
\* otherwise dispatched, cancelled or dead-lettered, through crashes, full
\* limits, changing versions and refusals.
EveryDeliverySettles ==
  \A d \in Delivery :
    []<>(\/ ~Pending(d)
         \/ \E g \in Gateway :
              ActiveVersion(d[1]) /\ verdict[g][d[1]] = "allowed" /\ ~Approved(d[1]))

(* A claim of the repository that the code does not meet *)

\* docs/workflow-runtime-topology.md, "After the event commits but before a
\* delivery exists": "The startup delivery reconciliation creates the missing
\* delivery."
CommittedEventsAreMatched ==
  \A e \in recorded \ baseline :
    Target[e] # NoWorkflow /\ ~After(PositionOf(e), cursor) => e \in handled

=============================================================================
