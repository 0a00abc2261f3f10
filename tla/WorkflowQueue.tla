--------------------------- MODULE WorkflowQueue ---------------------------
(***************************************************************************)
(* The durable workflow queue of src/automation/runner-store.ts: runs,     *)
(* their steps, the attempts of each step, leases and fencing tokens.      *)
(* Every public method of the class WorkflowQueue that changes these       *)
(* tables is one SQLite BEGIN IMMEDIATE transaction, so every one of them  *)
(* is one action here.  Callers (the runner, its workers, the operator CLI *)
(* in another process) are not modelled: each action may be called at any  *)
(* moment, with any fencing token that was ever handed out.                *)
(*                                                                         *)
(* Steps are identified by one flat key: a step belongs to the run         *)
(* RunOf[s], and its dependencies are steps of the same run.  The fencing  *)
(* token of a claim (a fresh UUID in the code) is the attempt number,      *)
(* which is just as unique for its step; 0 stands for SQL NULL.            *)
(***************************************************************************)
EXTENDS Integers, FiniteSets

CONSTANTS
  Run,              \* run ids
  Step,             \* step keys, over all runs
  RunOf,            \* [Step -> Run]
  Deps,             \* [Step -> SUBSET Step], dependencies_json
  RunTime,          \* budget.maximumRunSeconds
  StepTimeout,      \* [Step -> Nat], timeout_seconds
  LeaseTime,        \* runner.leaseSeconds
  RetryAttempts,    \* [Step -> Nat], retry.attempts of the step
  RetryDelay,       \* [attempt number -> Nat], the back-off before a retry
  RefetchDelay,     \* back-off of a deferred source refetch
  MaxAttempts,      \* bound of the model: claims of one step
  MaxTime           \* bound of the model: the clock

ASSUME QueueAssumption ==
  /\ RunOf \in [Step -> Run]
  /\ Deps \in [Step -> SUBSET Step]
  /\ \A s \in Step : \A d \in Deps[s] : RunOf[d] = RunOf[s]
  /\ RunTime \in Nat \ {0}
  /\ StepTimeout \in [Step -> Nat \ {0}]
  /\ LeaseTime \in Nat \ {0}
  /\ MaxAttempts \in Nat \ {0}
  /\ MaxTime \in Nat
  /\ RetryAttempts \in [Step -> Nat \ {0}]
  /\ RetryDelay \in [1..MaxAttempts -> Nat]
  /\ RefetchDelay \in Nat

\* A definition has at least one step, and its dependencies have no cycle: the
\* schema refuses any other workflow.  Every set of steps then has one that
\* depends on none of them.
ASSUME GraphAssumption ==
  /\ \A r \in Run : \E s \in Step : RunOf[s] = r
  /\ \A S \in SUBSET Step : S # {} => \E s \in S : Deps[s] \cap S = {}

VARIABLES
  now,              \* the clock every transaction is handed
  runState,         \* workflow_runs.state ("none": no row yet)
  cancelRequested,  \* workflow_runs.cancel_requested_at IS NOT NULL
  runDeadline,      \* workflow_steps.run_deadline_at, equal for a run's steps
  stepState,        \* workflow_steps.state ("none": no row yet)
  availableAt,      \* workflow_steps.available_at
  attemptCount,     \* workflow_steps.attempt_count
  lease,            \* fencing_token, lease_expires_at, lease_hard_expires_at
  refetchCount,     \* workflow_steps.source_refetch_attempt_count
  attempts          \* workflow_attempts.state of every attempt number

runVars  == <<runState, cancelRequested, runDeadline>>
stepVars == <<stepState, availableAt, attemptCount, lease, refetchCount, attempts>>
vars     == <<now, runVars, stepVars>>

-----------------------------------------------------------------------------
(* Types *)

RunActive    == {"pending", "running", "waiting"}
RunTerminal  == {"succeeded", "cancelled", "dead_letter"}
RunStates    == {"none"} \cup RunActive \cup RunTerminal

Held         == {"leased", "running"}
Parked       == {"blocked", "ready", "waiting_retry", "waiting_approval",
                 "source_refetch_required"}
StepTerminal == {"succeeded", "cancelled", "dead_letter"}
StepStates   == {"none"} \cup Held \cup Parked \cup StepTerminal

AttemptStates == {"none", "running", "succeeded", "retry",
                  "source_refetch_required", "failed", "dead_letter"}

Token   == 1..MaxAttempts
Lease   == [token : 0..MaxAttempts, expires : Nat, hard : Nat]
NoLease == [token |-> 0, expires |-> 0, hard |-> 0]

StepsOf(r) == {s \in Step : RunOf[s] = r}

TypeOK ==
  /\ now \in Nat
  /\ runState \in [Run -> RunStates]
  /\ cancelRequested \in [Run -> BOOLEAN]
  /\ runDeadline \in [Run -> Nat]
  /\ stepState \in [Step -> StepStates]
  /\ availableAt \in [Step -> Nat]
  /\ attemptCount \in [Step -> 0..MaxAttempts]
  /\ lease \in [Step -> Lease]
  /\ refetchCount \in [Step -> Nat]
  /\ attempts \in [Step -> [Token -> AttemptStates]]

Init ==
  /\ now = 0
  /\ runState = [r \in Run |-> "none"]
  /\ cancelRequested = [r \in Run |-> FALSE]
  /\ runDeadline = [r \in Run |-> 0]
  /\ stepState = [s \in Step |-> "none"]
  /\ availableAt = [s \in Step |-> 0]
  /\ attemptCount = [s \in Step |-> 0]
  /\ lease = [s \in Step |-> NoLease]
  /\ refetchCount = [s \in Step |-> 0]
  /\ attempts = [s \in Step |-> [t \in Token |-> "none"]]

-----------------------------------------------------------------------------
(* Helpers shared by the transactions *)

Earlier(a, b) == IF a <= b THEN a ELSE b

\* The column f with the value v in every row of S: one UPDATE of a set of rows.
Put(f, S, v) == [x \in Step |-> IF x \in S THEN v ELSE f[x]]

\* The steps of r that a sweeping UPDATE ... state NOT IN (terminal) rewrites.
Unfinished(r) == {s \in StepsOf(r) : stepState[s] \in Held \cup Parked}

\* Mutant: a late worker is not fenced out.
HoldsLeaseMutant(s, t) == stepState[s] \in Held /\ lease[s].expires > now

\* Whether t fences a live lease on s: the WHERE clause of every worker call.
HoldsLease(s, t) ==
  /\ stepState[s] \in Held
  /\ lease[s].token = t
  /\ lease[s].expires > now

DepsSucceeded(s, st) == \A d \in Deps[s] : st[d] = "succeeded"
\* Mutant: a step that is put back is claimable whatever it depends on.
ReadyOrBlockedMutant(s, st) == "ready"
ReadyOrBlocked(s, st) == IF DepsSucceeded(s, st) THEN "ready" ELSE "blocked"

\* UPDATE workflow_attempts ... WHERE fencing_token=t AND state='running'
SettleAttempt(s, t, outcome) ==
  attempts' = [attempts EXCEPT ![s][t] = IF @ = "running" THEN outcome ELSE @]

\* UPDATE workflow_attempts ... WHERE run_id=r AND state='running'
SettleRunningAttempts(r, outcome) ==
  attempts' = [s \in Step |-> [t \in Token |->
                 IF RunOf[s] = r /\ attempts[s][t] = "running"
                 THEN outcome ELSE attempts[s][t]]]

\* Mutant: the run is cancelled while a worker still holds a step.
CancelWhenQuietMutant(r, st) == runState' = [runState EXCEPT ![r] = "cancelled"]

\* finishCancellationInTransaction, the steps having become st
CancelWhenQuiet(r, st) ==
  runState' = IF \E s \in StepsOf(r) : st[s] \in Held
              THEN runState
              ELSE [runState EXCEPT ![r] = "cancelled"]

\* Mutant: the completion unblocks nobody.
UnblockedMutant(r, st) == st

\* unblockDependentsInTransaction, applied to the step states st
Unblocked(r, st) ==
  [x \in Step |-> IF x \in StepsOf(r) /\ st[x] = "blocked" /\ DepsSucceeded(x, st)
                  THEN "ready" ELSE st[x]]

WaitingStates == {"waiting_retry", "waiting_approval", "source_refetch_required"}

\* refreshRunStateInTransaction, the steps having become st
RefreshedRunState(r, st) ==
  IF \A s \in StepsOf(r) : st[s] = "succeeded" THEN "succeeded"
  ELSE IF \E s \in StepsOf(r) : st[s] \in WaitingStates THEN "waiting"
  ELSE "running"

\* promoteRetriesInTransaction: every due retry of every run becomes ready
Promoted ==
  [s \in Step |-> IF stepState[s] = "waiting_retry" /\ availableAt[s] <= now
                  THEN "ready" ELSE stepState[s]]

-----------------------------------------------------------------------------
(* The dispatcher and the workers *)

\* dispatchDelivery, its part that writes the run and its steps
DispatchRun(r) ==
  /\ runState[r] = "none"
  /\ now + RunTime <= MaxTime
  /\ runState' = [runState EXCEPT ![r] = "pending"]
  /\ runDeadline' = [runDeadline EXCEPT ![r] = now + RunTime]
  /\ stepState' = [s \in Step |-> IF s \in StepsOf(r)
                                  THEN IF Deps[s] = {} THEN "ready" ELSE "blocked"
                                  ELSE stepState[s]]
  /\ availableAt' = Put(availableAt, StepsOf(r), now)
  /\ UNCHANGED <<now, cancelRequested, attemptCount, lease, refetchCount, attempts>>

\* Mutant: the claim query forgets cancel_requested_at IS NULL.
ClaimableMutant(s) ==
  /\ Promoted[s] = "ready"
  /\ availableAt[s] <= now
  /\ runDeadline[RunOf[s]] > now
  /\ runState[RunOf[s]] \in RunActive

Claimable(s) ==
  /\ Promoted[s] = "ready"
  /\ availableAt[s] <= now
  /\ runDeadline[RunOf[s]] > now
  /\ ~cancelRequested[RunOf[s]]
  /\ runState[RunOf[s]] \in RunActive

NewLease(s) ==
  LET hard == Earlier(runDeadline[RunOf[s]], now + StepTimeout[s])
  IN  [token |-> attemptCount[s] + 1,
       expires |-> Earlier(now + LeaseTime, hard),
       hard |-> hard]

\* claimStep.  Which claimable step is taken depends on a fairness hint and on
\* timestamps; the model may take any of them.
ClaimStep(s) ==
  /\ Claimable(s)
  /\ attemptCount[s] < MaxAttempts
  /\ stepState' = [Promoted EXCEPT ![s] = "leased"]
  /\ attemptCount' = [attemptCount EXCEPT ![s] = @ + 1]
  /\ lease' = [lease EXCEPT ![s] = NewLease(s)]
  /\ attempts' = [attempts EXCEPT ![s][attemptCount[s] + 1] = "running"]
  /\ runState' = [runState EXCEPT ![RunOf[s]] =
                    IF @ \in {"pending", "waiting"} THEN "running" ELSE @]
  /\ UNCHANGED <<now, cancelRequested, runDeadline, availableAt, refetchCount>>

\* claimStep when it selects nothing still commits the promoted retries.
ClaimNothing ==
  /\ Promoted # stepState
  /\ \A s \in Step : ~Claimable(s)
  /\ stepState' = Promoted
  /\ UNCHANGED <<now, runVars, availableAt, attemptCount, lease, refetchCount, attempts>>

StartStep(s, t) ==
  /\ HoldsLease(s, t)
  /\ stepState[s] = "leased"
  /\ stepState' = [stepState EXCEPT ![s] = "running"]
  /\ UNCHANGED <<now, runVars, availableAt, attemptCount, lease, refetchCount, attempts>>

Heartbeat(s, t) ==
  /\ HoldsLease(s, t)
  /\ lease' = [lease EXCEPT ![s] = [token |-> t,
                                    expires |-> Earlier(now + LeaseTime, lease[s].hard),
                                    hard |-> lease[s].hard]]
  /\ UNCHANGED <<now, runVars, stepState, availableAt, attemptCount, refetchCount, attempts>>

CompleteStep(s, t) ==
  LET r == RunOf[s]
      done == [stepState EXCEPT ![s] = "succeeded"]
  IN  /\ HoldsLease(s, t)
      /\ SettleAttempt(s, t, "succeeded")
      /\ lease' = [lease EXCEPT ![s] = NoLease]
      /\ \/ /\ cancelRequested[r]
            /\ stepState' = done
            /\ CancelWhenQuiet(r, done)
            /\ UNCHANGED availableAt
         \/ /\ ~cancelRequested[r]
            /\ stepState' = Unblocked(r, done)
            /\ availableAt' = Put(availableAt,
                                  {x \in Step : Unblocked(r, done)[x] # done[x]}, now)
            /\ runState' = [runState EXCEPT ![r] = RefreshedRunState(r, Unblocked(r, done))]
      /\ UNCHANGED <<now, cancelRequested, runDeadline, attemptCount, refetchCount>>

-----------------------------------------------------------------------------
(* Failure: the three outcomes failStep and failExpiredLease share *)

\* deadLetterRemainingStepsInTransaction: every unfinished step of r gives up
\* its lease; the attempts of the steps other than the caller's stay as they are.
GiveUpSteps(r) ==
  /\ stepState' = Put(stepState, Unfinished(r), "dead_letter")
  /\ lease' = Put(lease, Unfinished(r), NoLease)

FailCancelled(s) ==
  LET st == [stepState EXCEPT ![s] = "cancelled"]
  IN  /\ stepState' = st
      /\ lease' = [lease EXCEPT ![s] = NoLease]
      /\ CancelWhenQuiet(RunOf[s], st)
      /\ UNCHANGED availableAt

FailRetry(s) ==
  /\ stepState' = [stepState EXCEPT ![s] = "waiting_retry"]
  /\ lease' = [lease EXCEPT ![s] = NoLease]
  /\ availableAt' = [availableAt EXCEPT ![s] = now + RetryDelay[attemptCount[s]]]
  /\ runState' = [runState EXCEPT ![RunOf[s]] = "waiting"]

FailForGood(s) ==
  /\ GiveUpSteps(RunOf[s])
  /\ runState' = [runState EXCEPT ![RunOf[s]] = "dead_letter"]
  /\ UNCHANGED availableAt

FailStep(s, t, retryable) ==
  LET again == retryable /\ attemptCount[s] < RetryAttempts[s]
  IN  /\ HoldsLease(s, t)
      /\ \/ /\ cancelRequested[RunOf[s]]
            /\ SettleAttempt(s, t, "failed")
            /\ FailCancelled(s)
         \/ /\ ~cancelRequested[RunOf[s]] /\ again
            /\ SettleAttempt(s, t, "retry")
            /\ FailRetry(s)
         \/ /\ ~cancelRequested[RunOf[s]] /\ ~again
            /\ SettleAttempt(s, t, "dead_letter")
            /\ FailForGood(s)
      /\ UNCHANGED <<now, cancelRequested, runDeadline, attemptCount, refetchCount>>

\* failExpiredLease: as failStep, for a lease that has run out
FailExpiredLease(s, t) ==
  LET again == attemptCount[s] < RetryAttempts[s]
  IN  /\ stepState[s] \in Held
      /\ lease[s].token = t
      /\ lease[s].expires <= now
      /\ \/ /\ cancelRequested[RunOf[s]]
            /\ SettleAttempt(s, t, "dead_letter")
            /\ FailCancelled(s)
         \/ /\ ~cancelRequested[RunOf[s]] /\ again
            /\ SettleAttempt(s, t, "retry")
            /\ FailRetry(s)
         \/ /\ ~cancelRequested[RunOf[s]] /\ ~again
            /\ SettleAttempt(s, t, "dead_letter")
            /\ FailForGood(s)
      /\ UNCHANGED <<now, cancelRequested, runDeadline, attemptCount, refetchCount>>

\* deadLetterRun: also called for a run that has ended, where it settles the
\* attempts a sibling's failure left running.
DeadLetterRun(r) ==
  /\ runState[r] # "none"
  /\ runState' = [runState EXCEPT ![r] = IF @ \in RunActive THEN "dead_letter" ELSE @]
  /\ GiveUpSteps(r)
  /\ SettleRunningAttempts(r, "dead_letter")
  /\ UNCHANGED <<now, cancelRequested, runDeadline, availableAt, attemptCount, refetchCount>>

\* recoverExpiredLeases, for one expired row; without a readable retry policy
\* the whole run is dead-lettered.
RecoverExpiredLease(s) ==
  /\ stepState[s] \in Held
  /\ lease[s].expires <= now
  /\ \/ FailExpiredLease(s, lease[s].token)
     \/ DeadLetterRun(RunOf[s])

\* recoverTimedOutClaim, called by the worker that holds t
RecoverTimedOutClaim(s, t) ==
  /\ lease[s].hard <= now
  /\ runDeadline[RunOf[s]] > now
  /\ FailExpiredLease(s, t)

\* expireRunDeadlines, for one run
ExpireRunDeadline(r) ==
  /\ runState[r] \in RunActive
  /\ runDeadline[r] <= now
  /\ DeadLetterRun(r)

-----------------------------------------------------------------------------
(* Source refetch *)

RequireSourceRefetch(s, t) ==
  /\ HoldsLease(s, t)
  /\ stepState[s] = "running"
  /\ attempts[s][t] = "running"
  /\ SettleAttempt(s, t, "source_refetch_required")
  /\ stepState' = [stepState EXCEPT ![s] = "source_refetch_required"]
  /\ lease' = [lease EXCEPT ![s] = NoLease]
  /\ availableAt' = [availableAt EXCEPT ![s] = now]
  /\ runState' = [runState EXCEPT ![RunOf[s]] = IF @ \in RunActive THEN "waiting" ELSE @]
  /\ UNCHANGED <<now, cancelRequested, runDeadline, attemptCount, refetchCount>>

ResumeSourceRefetchStep(s) ==
  /\ stepState[s] = "source_refetch_required"
  /\ availableAt[s] <= now
  /\ stepState' = [stepState EXCEPT ![s] = ReadyOrBlocked(s, stepState)]
  /\ availableAt' = [availableAt EXCEPT ![s] = now]
  /\ runState' = [runState EXCEPT ![RunOf[s]] = IF @ = "waiting" THEN "running" ELSE @]
  /\ UNCHANGED <<now, cancelRequested, runDeadline, attemptCount, lease, refetchCount, attempts>>

\* The runner passes retry.attempts of the step as the maximum.
DeferSourceRefetch(s) ==
  /\ stepState[s] = "source_refetch_required"
  /\ availableAt[s] <= now
  /\ refetchCount' = [refetchCount EXCEPT ![s] = @ + 1]
  /\ availableAt' = [availableAt EXCEPT ![s] = now + RefetchDelay]
  /\ \/ /\ refetchCount[s] + 1 < RetryAttempts[s]
        /\ UNCHANGED <<runState, stepState, lease>>
     \/ /\ refetchCount[s] + 1 >= RetryAttempts[s]
        /\ GiveUpSteps(RunOf[s])
        /\ runState' = [runState EXCEPT ![RunOf[s]] = IF @ \in RunActive THEN "dead_letter" ELSE @]
  /\ UNCHANGED <<now, cancelRequested, runDeadline, attemptCount, attempts>>

-----------------------------------------------------------------------------
(* Operator and authority *)

CancelRun(r) ==
  LET st == Put(stepState, {s \in StepsOf(r) : stepState[s] \in Parked}, "cancelled")
  IN  /\ runState[r] \in RunActive
      /\ cancelRequested' = [cancelRequested EXCEPT ![r] = TRUE]
      /\ stepState' = st
      /\ CancelWhenQuiet(r, st)
      /\ UNCHANGED <<now, runDeadline, availableAt, attemptCount, lease, refetchCount, attempts>>

\* retryRun.  That the version is active, the approval current and no receipt
\* of the run unsafe is decided outside this module.
RetryRun(r) ==
  /\ runState[r] = "dead_letter"
  /\ ~cancelRequested[r]
  /\ \A s \in StepsOf(r) : stepState[s] \notin Held
  /\ now + RunTime <= MaxTime
  /\ runState' = [runState EXCEPT ![r] = "pending"]
  /\ runDeadline' = [runDeadline EXCEPT ![r] = now + RunTime]
  /\ LET again == {s \in StepsOf(r) : stepState[s] # "succeeded"}
     IN  /\ stepState' = [s \in Step |-> IF s \in again THEN ReadyOrBlocked(s, stepState)
                                         ELSE stepState[s]]
         /\ availableAt' = Put(availableAt, again, now)
         /\ lease' = Put(lease, again, NoLease)
  /\ UNCHANGED <<now, cancelRequested, attemptCount, refetchCount, attempts>>

\* Mutant: steps in a worker's hands are left to it.
PauseRunForApprovalMutant(r) ==
  /\ runState[r] \in RunActive
  /\ runState' = [runState EXCEPT ![r] = "waiting"]
  /\ stepState' = Put(stepState, {s \in StepsOf(r) : stepState[s] \in Parked}, "waiting_approval")
  /\ UNCHANGED <<now, cancelRequested, runDeadline, availableAt, attemptCount, lease,
                 refetchCount, attempts>>

\* pauseRunForApproval, called for runs that are active or whose claim is current
PauseRunForApproval(r) ==
  /\ runState[r] \in RunActive
  /\ runState' = [runState EXCEPT ![r] = "waiting"]
  /\ stepState' = Put(stepState, Unfinished(r), "waiting_approval")
  /\ lease' = Put(lease, Unfinished(r), NoLease)
  /\ SettleRunningAttempts(r, "retry")
  /\ UNCHANGED <<now, cancelRequested, runDeadline, availableAt, attemptCount, refetchCount>>

ResumeRunWithAuthority(r) ==
  LET waiting == {s \in StepsOf(r) : stepState[s] = "waiting_approval"}
  IN  /\ runState[r] = "waiting"
      /\ waiting # {}
      /\ runState' = [runState EXCEPT ![r] = "running"]
      /\ stepState' = [s \in Step |-> IF s \in waiting THEN ReadyOrBlocked(s, stepState)
                                      ELSE stepState[s]]
      /\ availableAt' = Put(availableAt, waiting, now)
      /\ UNCHANGED <<now, cancelRequested, runDeadline, attemptCount, lease, refetchCount, attempts>>

-----------------------------------------------------------------------------
(* The next-state relation *)

Tick ==
  /\ now < MaxTime
  /\ now' = now + 1
  /\ UNCHANGED <<runVars, stepVars>>

RunStep(r) ==
  \/ DispatchRun(r)
  \/ DeadLetterRun(r)
  \/ ExpireRunDeadline(r)
  \/ CancelRun(r)
  \/ RetryRun(r)
  \/ PauseRunForApproval(r)
  \/ ResumeRunWithAuthority(r)

WorkerStep(s, t) ==
  \/ StartStep(s, t)
  \/ Heartbeat(s, t)
  \/ CompleteStep(s, t)
  \/ \E retryable \in BOOLEAN : FailStep(s, t, retryable)
  \/ RecoverTimedOutClaim(s, t)
  \/ RequireSourceRefetch(s, t)

QueueStep(s) ==
  \/ ClaimStep(s)
  \/ RecoverExpiredLease(s)
  \/ ResumeSourceRefetchStep(s)
  \/ DeferSourceRefetch(s)

Next ==
  \/ Tick
  \/ ClaimNothing
  \/ \E r \in Run : RunStep(r)
  \/ \E s \in Step : QueueStep(s)
  \/ \E s \in Step, t \in Token : WorkerStep(s, t)

Spec == Init /\ [][Next]_vars

-----------------------------------------------------------------------------
(* Safety *)

\* A step is leased or running exactly while its lease columns are set; the
\* token is then that of the latest attempt, which is still open, the lease
\* stays within the step's hard limit and the run's deadline, and the run has
\* not ended.  claimStep, every settlement and every sweep of a run's steps
\* must agree on this for a stale worker to be fenced out.
LeaseMatchesAttempt ==
  \A s \in Step :
    IF stepState[s] \in Held
    THEN /\ lease[s].token = attemptCount[s]
         /\ attemptCount[s] \in Token
         /\ attempts[s][attemptCount[s]] = "running"
         /\ lease[s].expires <= lease[s].hard
         /\ lease[s].hard <= runDeadline[RunOf[s]]
         /\ runState[RunOf[s]] \in RunActive
    ELSE lease[s] = NoLease

\* A step past its dependencies (claimable, claimed, waiting for its own retry
\* or source, or done) has every dependency succeeded, through retries of the
\* run, pauses, and refetches.
DependenciesFirst ==
  \A s \in Step :
    stepState[s] \in Held \cup {"ready", "waiting_retry", "source_refetch_required", "succeeded"}
      => DepsSucceeded(s, stepState)

\* No worker owns a step of a run that has ended, a run that succeeded or was
\* dead-lettered has no unfinished step, and "succeeded" means every step did.
\* (A run cancelled while a claim was asking for its source may keep that step
\* unfinished: requireSourceRefetch does not look at the cancellation.)
EndedRunsAreQuiet ==
  \A r \in Run :
    /\ runState[r] \in RunTerminal => \A s \in StepsOf(r) : stepState[s] \notin Held
    /\ runState[r] \in {"succeeded", "dead_letter"} =>
         \A s \in StepsOf(r) : stepState[s] \in StepTerminal
    /\ runState[r] = "succeeded" => \A s \in StepsOf(r) : stepState[s] = "succeeded"
    /\ runState[r] = "cancelled" => cancelRequested[r]

\* The approval gate is total: while one step waits for approval, its run waits
\* and no sibling can be claimed or is in a worker's hands.
ApprovalGateIsTotal ==
  \A s \in Step : stepState[s] = "waiting_approval" =>
    /\ runState[RunOf[s]] = "waiting"
    /\ \A x \in StepsOf(RunOf[s]) : stepState[x] \in StepTerminal \cup {"waiting_approval"}

\* A step succeeds once, by the attempt its last claim opened.  A late worker
\* whose lease was taken over can not add a second success.
SucceededByLastAttempt ==
  \A s \in Step, t \in Token :
    attempts[s][t] = "succeeded" <=> stepState[s] = "succeeded" /\ t = attemptCount[s]

\* An active run that nobody cancelled can always move: some step is claimable,
\* claimed, or waits for a timer, an approval or its source.
NoRunIsStranded ==
  \A r \in Run : runState[r] \in RunActive /\ ~cancelRequested[r] =>
    \E s \in StepsOf(r) : stepState[s] \in Held \cup (Parked \ {"blocked"})

(* What a step may never do *)

\* A settled attempt is history: no later transaction rewrites its outcome.
AttemptsAreImmutable ==
  [][\A s \in Step, t \in Token :
       attempts[s][t] \notin {"none", "running"} => attempts'[s][t] = attempts[s][t]]_vars

\* Completed steps stay completed, whatever retryRun or a late failure does.
SuccessIsPermanent ==
  [][\A s \in Step : stepState[s] = "succeeded" => stepState'[s] = "succeeded"]_vars

\* A cancellation is never withdrawn, and no step of the run is claimed again.
CancellationIsDurable ==
  [][\A r \in Run : cancelRequested[r] =>
       /\ cancelRequested'[r]
       /\ \A s \in StepsOf(r) : attemptCount'[s] = attemptCount[s]]_vars

=============================================================================
