--------------------------- MODULE WorkflowEffects ---------------------------
(***************************************************************************)
(* The gateway process that executes the queue: the tick and the workers   *)
(* of src/automation/runner.ts, the effect receipts of                     *)
(* src/automation/executors.ts, process crashes and restarts, and the      *)
(* operator CLI, which writes the same database from another process.      *)
(*                                                                         *)
(* The gateway is one JavaScript thread: a turn runs from one await to the *)
(* next, and only the CLI or a crash can come between two transactions of  *)
(* a turn.  `turn` names the execution whose turn was cut by such a gap.   *)
(* An execution is named by the claim it runs, <<step, token>>.            *)
(***************************************************************************)
EXTENDS WorkflowQueue

CONSTANTS
  EffectStep,   \* steps whose executor makes an external call
  UpsertStep,   \* effect steps whose call depends on a search first
  RefetchStep,  \* steps whose stored definition is redacted
  Workers,      \* runner.workerCount
  Budget,       \* budget.maximumEffectsPerRun
  Policy        \* authority hashes the local configuration may have

ASSUME EffectsAssumption ==
  /\ EffectStep \subseteq Step /\ UpsertStep \subseteq EffectStep /\ RefetchStep \subseteq Step
  /\ IsFiniteSet(EffectStep)
  /\ Workers \in Nat \ {0} /\ Budget \in Nat /\ Policy # {}

VARIABLES
  mode,         \* the gateway process
  sweep,        \* rows left to recoverInterruptedEffects
  turn,         \* the execution in the middle of a turn, or NoTurn
  exec,         \* where each execution is
  claim,        \* what the claim object of each execution remembers
  policy,       \* workflowAuthorityHash(config.automation)
  approved,     \* the authority hash of the current approval, if there is one
  active,       \* the run's version is active and not disabled
  runAuth,      \* workflow_runs.authority_hash
  receipt,      \* workflow_effect_receipts, keyed by step
  calls,        \* external requests sent for the step
  landed        \* the external system carried a request out

gatewayVars == <<mode, sweep, turn, exec, claim>>
rulesVars   == <<policy, approved, active, runAuth>>
effectVars  == <<receipt, calls, landed>>
allVars     == <<vars, gatewayVars, rulesVars, effectVars>>

NoTurn == <<>>
\* "calling" awaits the external system; "orphaned" does so after executeClaim
\* was aborted; the last three are outcomes on their way to settlement.
Outcome   == {"succeeding", "failing", "throwing"}
Working   == {"claimed", "resolving", "executing", "begun", "calling"} \cup Outcome
ExecState == {"none", "orphaned", "ended"} \cup Working

Unwritten    == [state |-> "none", token |-> 0, digest |-> <<>>]
ReceiptState == {"none", "running", "succeeded", "failed", "outcome_unknown"}

EffectsTypeOK ==
  /\ mode \in {"down", "recovering", "up", "stopping"}
  /\ sweep \subseteq EffectStep
  /\ turn \in {NoTurn} \cup (Step \X Token)
  /\ exec \in [Step -> [Token -> ExecState]]
  /\ claim \in [Step -> [Token -> [auth : Policy, hard : Nat]]]
  /\ policy \in Policy /\ approved \subseteq Policy /\ active \in BOOLEAN
  /\ runAuth \in [Run -> Policy]
  /\ receipt \in [EffectStep -> [state : ReceiptState, token : 0..MaxAttempts,
                                 digest : {<<>>} \cup (Policy \X BOOLEAN)]]
  /\ calls \in [EffectStep -> Nat]
  /\ landed \in [EffectStep -> BOOLEAN]

EffectsInit ==
  /\ Init
  /\ mode = "up" /\ sweep = {} /\ turn = NoTurn
  /\ exec = [s \in Step |-> [t \in Token |-> "none"]]
  /\ policy \in Policy /\ approved = {policy} /\ active = TRUE
  /\ claim = [s \in Step |-> [t \in Token |-> [auth |-> policy, hard |-> 0]]]
  /\ runAuth = [r \in Run |-> policy]
  /\ receipt = [s \in EffectStep |-> Unwritten]
  /\ calls = [s \in EffectStep |-> 0]
  /\ landed = [s \in EffectStep |-> FALSE]

-----------------------------------------------------------------------------
(* Helpers *)

\* The thread is free to start a turn.
Free == mode = "up" /\ turn = NoTurn
InTurn(s, t) == mode = "up" /\ turn = <<s, t>>

Goto(s, t, where) == exec' = [exec EXCEPT ![s][t] = where]

\* claimMayExecute: the fence, and the authority, version and cancellation state
MayExecute(s, t) ==
  /\ HoldsLease(s, t)
  /\ runState[RunOf[s]] \in RunActive
  /\ ~cancelRequested[RunOf[s]]
  /\ active

\* preflight, its checks after signal.aborted
Preflight(s, t) ==
  /\ claim[s][t].auth = policy
  /\ policy \in approved
  /\ MayExecute(s, t)

\* executeClaim promises the runner has not seen settle
InFlight == {x \in Step \X Token : exec[x[1]][x[2]] \in Working}

\* The operation digest binds the claim's authority hash and, for an upsert,
\* whether the search found the object.
Digest(s, t) == <<claim[s][t].auth, s \in UpsertStep /\ landed[s]>>

-----------------------------------------------------------------------------
(* The tick *)

\* dispatchOnce for a run whose delivery is authorized and approved
Dispatch(r) ==
  /\ Free /\ active /\ policy \in approved
  /\ DispatchRun(r)
  /\ runAuth' = [runAuth EXCEPT ![r] = policy]
  /\ UNCHANGED <<gatewayVars, policy, approved, active, effectVars>>

\* reauthorizeActiveRuns, for one run
Reauthorize(r) ==
  /\ Free
  /\ runState[r] \in RunActive
  /\ \/ /\ ~active
        /\ CancelRun(r)
        /\ UNCHANGED runAuth
     \/ /\ active /\ policy \notin approved
        /\ PauseRunForApproval(r)
        /\ UNCHANGED runAuth
     \/ /\ active /\ policy \in approved
        /\ ResumeRunWithAuthority(r)
        /\ runAuth' = [runAuth EXCEPT ![r] = policy]
  /\ UNCHANGED <<gatewayVars, policy, approved, active, effectVars>>

\* An aborted executeClaim leaves a sent request behind, and nothing else.
Abandoned(s, t) == IF exec[s][t] = "calling" THEN "orphaned" ELSE "ended"

\* reconcileInFlight aborts one execution; executeClaim's handler records a
\* cancellation, if its fence still holds, and nothing otherwise.
AbortClaim(s, t) ==
  /\ Free
  /\ <<s, t>> \in InFlight
  /\ ~MayExecute(s, t)
  /\ Goto(s, t, Abandoned(s, t))
  /\ \/ cancelRequested[RunOf[s]] /\ FailStep(s, t, FALSE)
     \/ ~(cancelRequested[RunOf[s]] /\ HoldsLease(s, t)) /\ UNCHANGED vars
  /\ UNCHANGED <<mode, sweep, turn, claim, rulesVars, effectVars>>

\* handleRejectedSettlement: a step past its hard deadline is settled, and
\* anything else dead-letters the run.
HandleRejected(s, t) ==
  \/ RecoverTimedOutClaim(s, t)
  \/ /\ ~(stepState[s] \in Held /\ lease[s].token = t /\ lease[s].hard <= now
          /\ runDeadline[RunOf[s]] > now)
     /\ DeadLetterRun(RunOf[s])

\* The deadline timer of executeClaim fires.
TimeOut(s, t) ==
  /\ Free
  /\ <<s, t>> \in InFlight
  /\ claim[s][t].hard <= now
  /\ HandleRejected(s, t)
  /\ Goto(s, t, Abandoned(s, t))
  /\ UNCHANGED <<mode, sweep, turn, claim, rulesVars, effectVars>>

\* The sweeps of expireRunDeadlines and recoverExpiredLeases
Sweep ==
  /\ Free
  /\ \/ \E r \in Run : ExpireRunDeadline(r)
     \/ \E s \in Step : RecoverExpiredLease(s)
  /\ UNCHANGED <<gatewayVars, rulesVars, effectVars>>

\* resumeSourceRefetchSteps, for one step: the source answers and the version
\* is still authorized and approved, or the step is deferred.
Refetch(s) ==
  /\ Free
  /\ s \in RefetchStep
  /\ \/ policy \in approved /\ ResumeSourceRefetchStep(s)
     \/ DeferSourceRefetch(s)
  /\ UNCHANGED <<gatewayVars, rulesVars, effectVars>>

Claim(s) ==
  LET t == attemptCount[s] + 1
  IN  /\ Free
      /\ Cardinality(InFlight) < Workers
      /\ ClaimStep(s)
      /\ Goto(s, t, "claimed")
      /\ claim' = [claim EXCEPT ![s][t] = [auth |-> runAuth[RunOf[s]],
                                           hard |-> NewLease(s).hard]]
      /\ turn' = <<s, t>>
      /\ UNCHANGED <<mode, sweep, rulesVars, effectVars>>

NothingToClaim ==
  /\ Free
  /\ ClaimNothing
  /\ UNCHANGED <<gatewayVars, rulesVars, effectVars>>

-----------------------------------------------------------------------------
(* A worker: executeClaim *)

\* From startStep to the first await
Start(s, t) ==
  /\ InTurn(s, t) /\ exec[s][t] = "claimed"
  /\ \/ StartStep(s, t) /\ Goto(s, t, IF MayExecute(s, t) THEN "resolving" ELSE "ended")
     \/ ~HoldsLease(s, t) /\ Goto(s, t, "ended") /\ UNCHANGED vars
  /\ turn' = NoTurn
  /\ UNCHANGED <<mode, sweep, claim, rulesVars, effectVars>>

\* definitionForExecution, and the authorization that follows it
Resolve(s, t) ==
  /\ Free
  /\ exec[s][t] = "resolving"
  /\ \/ /\ s \in RefetchStep
        /\ \/ RequireSourceRefetch(s, t)
           \/ ~HoldsLease(s, t) /\ UNCHANGED vars
        /\ Goto(s, t, "ended")
     \/ /\ ~(policy \in approved /\ claim[s][t].auth = policy)
        /\ \/ HoldsLease(s, t) /\ PauseRunForApproval(RunOf[s])
           \/ ~HoldsLease(s, t) /\ UNCHANGED vars
        /\ Goto(s, t, "ended")
     \/ /\ policy \in approved /\ claim[s][t].auth = policy
        /\ Goto(s, t, IF MayExecute(s, t) THEN "executing" ELSE "ended")
        /\ UNCHANGED vars
  /\ UNCHANGED <<mode, sweep, turn, claim, rulesVars, effectVars>>

KeepLease(s, t) ==
  /\ Free
  /\ <<s, t>> \in InFlight
  /\ Heartbeat(s, t)
  /\ UNCHANGED <<gatewayVars, rulesVars, effectVars>>

\* What a step without effects comes back with, or an effect step that is
\* refused or whose search throws before the receipt is touched
Compute(s, t) ==
  /\ Free
  /\ exec[s][t] = "executing"
  /\ \E o \in IF s \in EffectStep THEN {"failing", "throwing"} ELSE Outcome : Goto(s, t, o)
  /\ turn' = <<s, t>>
  /\ UNCHANGED <<vars, mode, sweep, claim, rulesVars, effectVars>>

\* The executor returned: completeStep or failStep, and a rejected settlement
Settle(s, t) ==
  /\ InTurn(s, t) /\ exec[s][t] \in Outcome
  /\ \/ /\ HoldsLease(s, t)
        /\ \/ exec[s][t] = "succeeding" /\ CompleteStep(s, t)
           \/ exec[s][t] = "failing" /\ FailStep(s, t, FALSE)
           \/ exec[s][t] = "throwing" /\ FailStep(s, t, TRUE)
     \/ /\ ~HoldsLease(s, t)
        /\ HandleRejected(s, t)
  /\ Goto(s, t, "ended")
  /\ turn' = NoTurn
  /\ UNCHANGED <<mode, sweep, claim, rulesVars, effectVars>>

-----------------------------------------------------------------------------
(* An effect: ClosedWorkflowStepExecutor.effect and WorkflowEffectReceipts *)

OverBudget(s) ==
  /\ receipt[s].state = "none"
  /\ Cardinality({x \in EffectStep : RunOf[x] = RunOf[s] /\ receipt[x].state # "none"}) >= Budget

\* Mutant: an interrupted effect is started again.
StartableMutant(s, t) ==
  \/ receipt[s].state \in {"none", "running", "outcome_unknown"}
  \/ receipt[s].state = "failed" /\ receipt[s].token # t

\* The WHERE clause that moves a receipt to running
Startable(s, t) ==
  \/ receipt[s].state = "none"
  \/ receipt[s].state = "failed" /\ receipt[s].token # t

\* Mutant: the budget is not looked at.
BudgetedMutant(s) == TRUE
Budgeted(s) == ~OverBudget(s)

\* Mutant: an unknown outcome is replayed as if it were a success.
BeginningMutant(s, t) ==
  IF receipt[s].state # "none" /\ receipt[s].digest # Digest(s, t) THEN "throwing"
  ELSE IF receipt[s].state \in {"succeeded", "outcome_unknown"} THEN "succeeding"
  ELSE IF Startable(s, t) THEN "begun"
  ELSE "failing"

\* What receipts.begin returns or throws, past the budget
Beginning(s, t) ==
  IF receipt[s].state # "none" /\ receipt[s].digest # Digest(s, t) THEN "throwing"
  ELSE IF receipt[s].state = "succeeded" THEN "succeeding"
  ELSE IF Startable(s, t) THEN "begun"
  ELSE IF receipt[s].state = "failed" THEN "throwing"
  ELSE "failing"

\* withUpsertLock: the search waits for an abandoned call to the same object.
UpsertLockFree(s) ==
  s \in UpsertStep => \A u \in Token : exec[s][u] \notin {"calling", "orphaned"}

\* An upsert has searched; preflight and receipts.begin
Begin(s, t) ==
  /\ Free
  /\ s \in EffectStep /\ exec[s][t] = "executing"
  /\ UpsertLockFree(s)
  /\ turn' = <<s, t>>
  /\ \/ /\ Preflight(s, t) /\ Budgeted(s)
        /\ Goto(s, t, Beginning(s, t))
        /\ receipt' = IF Beginning(s, t) = "begun"
                      THEN [receipt EXCEPT ![s] = [state |-> "running", token |-> t,
                                                   digest |-> Digest(s, t)]]
                      ELSE receipt
     \/ /\ ~(Preflight(s, t) /\ Budgeted(s))
        /\ Goto(s, t, "failing")
        /\ UNCHANGED receipt
  /\ UNCHANGED <<vars, mode, sweep, claim, rulesVars, calls, landed>>

Recorded(s, state) ==
  [state |-> state, token |-> receipt[s].token, digest |-> receipt[s].digest]

\* complete, failBeforeEffect and outcomeUnknown: one guarded UPDATE
OwnsReceipt(s, t) == receipt[s].state = "running" /\ receipt[s].token = t
SetReceipt(s, t, state) ==
  receipt' = IF OwnsReceipt(s, t)
             THEN [receipt EXCEPT ![s] = Recorded(s, state)]
             ELSE receipt

\* The executor's request goes out; the external system carries it out or not.
Call(s) ==
  /\ calls' = [calls EXCEPT ![s] = @ + 1]
  /\ landed' = [landed EXCEPT ![s] = TRUE] \/ UNCHANGED landed

\* The final preflight: the request is sent, or the receipt fails before it.
Send(s, t) ==
  /\ InTurn(s, t) /\ exec[s][t] = "begun"
  /\ \/ /\ Preflight(s, t)
        /\ Call(s)
        /\ Goto(s, t, "calling")
        /\ turn' = NoTurn
        /\ UNCHANGED receipt
     \/ /\ ~Preflight(s, t)
        /\ SetReceipt(s, t, "failed")
        /\ Goto(s, t, "failing")
        /\ UNCHANGED <<turn, calls, landed>>
  /\ UNCHANGED <<vars, mode, sweep, claim, rulesVars>>

\* Mutant: a request that threw is taken not to have happened.
LostResponseMutant(s, t) == SetReceipt(s, t, "failed")
\* The call threw, whatever the external system did
LostResponse(s, t) == SetReceipt(s, t, "outcome_unknown")

\* The external call settles; an aborted execution only writes its receipt.
Return(s, t) ==
  /\ \/ /\ Free /\ exec[s][t] = "calling"
        /\ turn' = <<s, t>>
        /\ \/ /\ landed[s]
              /\ SetReceipt(s, t, "succeeded")
              /\ Goto(s, t, IF OwnsReceipt(s, t) THEN "succeeding" ELSE "failing")
           \/ LostResponse(s, t) /\ Goto(s, t, "failing")
     \/ /\ mode \in {"up", "stopping"} /\ turn = NoTurn /\ exec[s][t] = "orphaned"
        /\ Goto(s, t, "ended") /\ UNCHANGED turn
        /\ \/ landed[s] /\ SetReceipt(s, t, "succeeded")
           \/ LostResponse(s, t)
  /\ UNCHANGED <<vars, mode, sweep, claim, rulesVars, calls, landed>>

-----------------------------------------------------------------------------
(* The process *)

\* SIGTERM: every execution is aborted, and none is settled.
Shutdown ==
  /\ Free
  /\ mode' = "stopping"
  /\ exec' = [s \in Step |-> [t \in Token |->
                IF exec[s][t] \in Working THEN Abandoned(s, t) ELSE exec[s][t]]]
  /\ UNCHANGED <<vars, sweep, turn, claim, rulesVars, effectVars>>

\* The process dies; a request that was sent may still be carried out.
Crash ==
  /\ mode # "down"
  /\ mode' = "down" /\ sweep' = {} /\ turn' = NoTurn
  /\ exec' = [s \in Step |-> [t \in Token |->
                IF exec[s][t] = "none" THEN "none" ELSE "ended"]]
  /\ UNCHANGED <<vars, claim, rulesVars, effectVars>>

Interrupted == {s \in EffectStep : receipt[s].state \in {"running", "outcome_unknown"}}

\* The next process, with the configuration of the day, lists the receipts
\* without an outcome ...
Boot ==
  /\ mode = "down"
  /\ mode' = "recovering"
  /\ policy' \in Policy
  /\ sweep' = Interrupted
  /\ UNCHANGED <<vars, turn, exec, claim, approved, active, runAuth, effectVars>>

\* ... marks each unknown, dead-letters its run, and then opens for work.
RecoverInterrupted ==
  /\ mode = "recovering"
  /\ \/ \E s \in sweep :
          /\ receipt[s].state = "running"
          /\ receipt' = [receipt EXCEPT ![s] = Recorded(s, "outcome_unknown")]
          /\ UNCHANGED <<vars, mode, sweep>>
     \/ \E s \in sweep :
          /\ receipt[s].state = "outcome_unknown"
          /\ DeadLetterRun(RunOf[s])
          /\ sweep' = sweep \ {s}
          /\ UNCHANGED <<mode, receipt>>
     \/ /\ sweep = {}
        /\ mode' = "up"
        /\ UNCHANGED <<vars, sweep, receipt>>
  /\ UNCHANGED <<turn, exec, claim, rulesVars, calls, landed>>

(* The operator, in a process of its own *)

OperatorCancel(r) ==
  /\ CancelRun(r)
  /\ UNCHANGED <<gatewayVars, rulesVars, effectVars>>

RetrySafe(r) == \A s \in Interrupted : RunOf[s] # r

\* workflowRunMutation with the operator's own reading of the configuration
OperatorRetry(r) ==
  /\ active /\ RetrySafe(r)
  /\ RetryRun(r)
  /\ \E p \in approved : runAuth' = [runAuth EXCEPT ![r] = p]
  /\ UNCHANGED <<gatewayVars, policy, approved, active, effectVars>>

\* The latest decision replaces those before it: an operator's approval, or the
\* automatic one of a T0 workflow
Approve(p) ==
  /\ approved # {p}
  /\ approved' = {p}
  /\ UNCHANGED <<vars, gatewayVars, policy, active, runAuth, effectVars>>

\* The operator rejects or revokes, or the approval expires.
Revoke ==
  /\ approved # {}
  /\ approved' = {}
  /\ UNCHANGED <<vars, gatewayVars, policy, active, runAuth, effectVars>>

\* The operator disables or enables the workflow, or its version is superseded,
\* archived or restored.
SetEnabled ==
  /\ active' = ~active
  /\ UNCHANGED <<vars, gatewayVars, policy, approved, runAuth, effectVars>>

Clock == Tick /\ UNCHANGED <<gatewayVars, rulesVars, effectVars>>

EffectsNext ==
  \/ Clock \/ Sweep \/ NothingToClaim
  \/ Shutdown \/ Crash \/ Boot \/ RecoverInterrupted \/ SetEnabled \/ Revoke
  \/ \E r \in Run : Dispatch(r) \/ Reauthorize(r) \/ OperatorCancel(r) \/ OperatorRetry(r)
  \/ \E s \in Step : Refetch(s) \/ Claim(s)
  \/ \E p \in Policy : Approve(p)
  \/ \E s \in Step, t \in Token :
       \/ AbortClaim(s, t) \/ TimeOut(s, t) \/ Start(s, t) \/ Resolve(s, t)
       \/ KeepLease(s, t) \/ Compute(s, t) \/ Settle(s, t)
       \/ Begin(s, t) \/ Send(s, t) \/ Return(s, t)

EffectsSpec == EffectsInit /\ [][EffectsNext]_allVars

-----------------------------------------------------------------------------
(* Safety *)

\* An external effect is requested at most once for a step of a run, whatever
\* crashes, retries, lost leases and operator retries come between.
EffectAtMostOnce == \A s \in EffectStep : calls[s] <= 1

\* A receipt that says "failed", or is absent, denies the effect truthfully;
\* only such a receipt may be started.
FailedMeansNotSent ==
  \A s \in EffectStep : receipt[s].state \in {"none", "failed"} => calls[s] = 0

\* A run never reports a step done that the external system did not do.
SuccessMeansLanded ==
  \A s \in EffectStep :
    stepState[s] = "succeeded" => receipt[s].state = "succeeded" /\ landed[s]

\* The receipts of a run stay within its effect budget, across all retries.
EffectsWithinBudget ==
  \A r \in Run :
    Cardinality({s \in EffectStep : RunOf[s] = r /\ receipt[s].state # "none"}) <= Budget

\* A recorded outcome is final, and "unknown" above all never becomes "failed"
\* to make the effect retryable.
RecordedOutcomesStand ==
  [][\A s \in EffectStep :
       receipt[s].state \in {"succeeded", "outcome_unknown"} => receipt'[s] = receipt[s]]_allVars

\* Every action above that writes the queue is one of WorkflowQueue's, at the
\* moment the gateway, its crashes or the CLI take it.  That is how the module
\* is built and says nothing of the code; it lets the promises of the queue
\* be used here.
QueueSafety == Init /\ [][Next]_vars

(* Claims of the repository that the code does not meet *)

\* docs/workflow-runtime-topology.md, "After a receipt commits but before the
\* step succeeds": "Recovery reads the receipt and completes the step without
\* repeating the effect."
ReceiptsAreReplayed ==
  \A s \in EffectStep, t \in Token :
    exec[s][t] \in {"failing", "throwing"} /\ MayExecute(s, t) => receipt[s].state # "succeeded"

=============================================================================
