--------------------------- MODULE WorkflowProofs ---------------------------
(* Proofs about the workflow queue and the runner on top of it, for every   *)
(* set of runs, steps, dependencies and policies, any number of workers and *)
(* every choice of the time, attempt and effect bounds. The durable queue   *)
(* of WorkflowQueue comes first, the effect protocol of WorkflowEffects     *)
(* after it.                                                                *)
EXTENDS WorkflowEffects, FiniteSetTheorems, TLAPS

(* Facts about the constants and the sets of states *)

\* The constants of the queue, as the proofs use them.
LEMMA ConstantTypes ==
  /\ \A s \in Step : RunOf[s] \in Run
  /\ MaxAttempts \in Nat \ {0} /\ RunTime \in Nat /\ LeaseTime \in Nat
  /\ RefetchDelay \in Nat
  /\ \A s \in Step : StepTimeout[s] \in Nat /\ RetryAttempts[s] \in Nat
  /\ \A n \in Token : RetryDelay[n] \in Nat
  BY QueueAssumption DEF Token

\* Every state name the transactions write belongs to its column.
LEMMA StateNames ==
  /\ {"none", "pending", "running", "waiting", "succeeded", "cancelled", "dead_letter"} \subseteq RunStates
  /\ {"none", "leased", "running", "blocked", "ready", "waiting_retry", "waiting_approval",
      "source_refetch_required", "succeeded", "cancelled", "dead_letter"} \subseteq StepStates
  /\ {"none", "running", "succeeded", "retry", "source_refetch_required", "failed",
      "dead_letter"} \subseteq AttemptStates
  BY DEF RunActive, RunTerminal, RunStates, Held, Parked, StepTerminal, StepStates, AttemptStates

\* The cleared lease columns are a lease, with no token.
LEMMA NoLeaseType == NoLease \in Lease /\ NoLease.token = 0
  BY ConstantTypes DEF NoLease, Lease

\* The lease a claim writes: bounded by its hard limit, which the deadline bounds.
LEMMA NewLeaseType ==
  ASSUME TypeOK, NEW s \in Step, attemptCount[s] < MaxAttempts
  PROVE  /\ NewLease(s) \in Lease
         /\ NewLease(s).token = attemptCount[s] + 1
         /\ NewLease(s).expires <= NewLease(s).hard
         /\ NewLease(s).hard <= runDeadline[RunOf[s]]
  BY ConstantTypes DEF NewLease, Earlier, TypeOK, Lease

(* What the helpers write *)

\* Settling one attempt keeps the attempts table well typed.
LEMMA SettleType ==
  ASSUME TypeOK, NEW s \in Step, NEW t \in Token, NEW o \in AttemptStates,
         SettleAttempt(s, t, o)
  PROVE  /\ attempts' \in [Step -> [Token -> AttemptStates]]
         /\ \A x \in Step, n \in Token :
              attempts'[x][n] = IF x = s /\ n = t /\ attempts[x][n] = "running"
                                THEN o ELSE attempts[x][n]
  BY DEF SettleAttempt, TypeOK

\* Settling a run's open attempts keeps the attempts table well typed.
LEMMA SettleRunningType ==
  ASSUME TypeOK, NEW r \in Run, NEW o \in AttemptStates,
         SettleRunningAttempts(r, o)
  PROVE  /\ attempts' \in [Step -> [Token -> AttemptStates]]
         /\ \A x \in Step, n \in Token :
              attempts'[x][n] = IF RunOf[x] = r /\ attempts[x][n] = "running"
                                THEN o ELSE attempts[x][n]
  BY DEF SettleRunningAttempts, TypeOK

\* Promoting due retries keeps the step states well typed.
LEMMA PromotedType ==
  ASSUME TypeOK
  PROVE  /\ Promoted \in [Step -> StepStates]
         /\ \A s \in Step : Promoted[s] = IF stepState[s] = "waiting_retry" /\ availableAt[s] <= now
                                          THEN "ready" ELSE stepState[s]
  BY StateNames DEF TypeOK, Promoted

\* Sweeping a run's unfinished steps keeps steps and leases well typed.
LEMMA GiveUpType ==
  ASSUME TypeOK, NEW r \in Run, GiveUpSteps(r)
  PROVE  /\ stepState' \in [Step -> StepStates]
         /\ lease' \in [Step -> Lease]
         /\ \A s \in Step :
              /\ stepState'[s] = IF s \in Unfinished(r) THEN "dead_letter" ELSE stepState[s]
              /\ lease'[s] = IF s \in Unfinished(r) THEN NoLease ELSE lease[s]
  BY StateNames, NoLeaseType DEF Put, TypeOK, GiveUpSteps

\* Finishing a cancellation keeps the run states well typed.
LEMMA CancelWhenQuietType ==
  ASSUME TypeOK, NEW r \in Run, NEW STATE st, CancelWhenQuiet(r, st)
  PROVE  /\ runState' \in [Run -> RunStates]
         /\ \A q \in Run : runState'[q] = IF q = r /\ \A s \in StepsOf(r) : st[s] \notin Held
                                          THEN "cancelled" ELSE runState[q]
  BY StateNames DEF TypeOK, CancelWhenQuiet

\* Unblocking dependents keeps step and run states well typed.
LEMMA UnblockedType ==
  ASSUME NEW STATE st, st \in [Step -> StepStates], NEW r \in Run
  PROVE  /\ Unblocked(r, st) \in [Step -> StepStates]
         /\ \A x \in Step : Unblocked(r, st)[x] =
              IF x \in StepsOf(r) /\ st[x] = "blocked" /\ DepsSucceeded(x, st)
              THEN "ready" ELSE st[x]
  BY StateNames DEF Unblocked

-----------------------------------------------------------------------------
(* Type correctness *)

\* FailStep and FailExpiredLease settle one attempt and take one of three outcomes.
LEMMA FailureType ==
  ASSUME TypeOK, NEW s \in Step, NEW t \in Token,
         NEW o \in AttemptStates, SettleAttempt(s, t, o),
         UNCHANGED <<now, cancelRequested, runDeadline, attemptCount, refetchCount>>,
         FailCancelled(s) \/ (attemptCount[s] \in Token /\ FailRetry(s)) \/ FailForGood(s)
  PROVE  TypeOK'
<1>1. attempts' \in [Step -> [Token -> AttemptStates]]
  BY SettleType DEF TypeOK
<1>2. CASE FailCancelled(s)
  BY <1>1, <1>2, CancelWhenQuietType, ConstantTypes, StateNames, NoLeaseType DEF FailCancelled, TypeOK
<1>3. CASE attemptCount[s] \in Token /\ FailRetry(s)
  <2>1. now + RetryDelay[attemptCount[s]] \in Nat
    BY <1>3, ConstantTypes DEF TypeOK
  <2>2. QED
    BY <1>1, <1>3, <2>1, ConstantTypes, StateNames, NoLeaseType DEF FailRetry, TypeOK
<1>4. CASE FailForGood(s)
  BY <1>1, <1>4, ConstantTypes, StateNames, GiveUpType DEF FailForGood, TypeOK
<1>5. QED
  BY <1>2, <1>3, <1>4

\* Every transaction of the queue preserves the types of its tables.
LEMMA TypeStep ==
  ASSUME TypeOK, LeaseMatchesAttempt, [Next]_vars
  PROVE  TypeOK'
<1>1. ASSUME Tick PROVE TypeOK'
  BY <1>1 DEF Tick, TypeOK, runVars, stepVars
<1>2. ASSUME ClaimNothing PROVE TypeOK'
  BY <1>2, PromotedType DEF ClaimNothing, TypeOK, runVars
<1>3. ASSUME NEW r \in Run, DispatchRun(r) PROVE TypeOK'
  BY <1>3, ConstantTypes, StateNames DEF Put, DispatchRun, TypeOK
<1>4. ASSUME NEW r \in Run, DeadLetterRun(r) PROVE TypeOK'
  BY <1>4, GiveUpType, SettleRunningType, StateNames DEF DeadLetterRun, TypeOK
<1>5. ASSUME NEW r \in Run, CancelRun(r) PROVE TypeOK'
  BY <1>5, CancelWhenQuietType, StateNames DEF Put, CancelRun, TypeOK
<1>6. ASSUME NEW r \in Run, RetryRun(r) PROVE TypeOK'
  BY <1>6, ConstantTypes, StateNames, NoLeaseType DEF Put, RetryRun, TypeOK, ReadyOrBlocked
<1>7. ASSUME NEW r \in Run, PauseRunForApproval(r) PROVE TypeOK'
  BY <1>7, SettleRunningType, StateNames, NoLeaseType DEF Put, PauseRunForApproval, TypeOK
<1>8. ASSUME NEW r \in Run, ResumeRunWithAuthority(r) PROVE TypeOK'
  BY <1>8, StateNames DEF Put, ResumeRunWithAuthority, TypeOK, ReadyOrBlocked
<1>9. ASSUME NEW s \in Step, ClaimStep(s) PROVE TypeOK'
  <2>1. attemptCount[s] + 1 \in Token /\ attemptCount[s] + 1 \in 0..MaxAttempts
    BY <1>9, ConstantTypes DEF ClaimStep, TypeOK, Token
  <2>2. NewLease(s) \in Lease
    BY <1>9, NewLeaseType DEF ClaimStep
  <2>3. QED
    BY <1>9, <2>1, <2>2, PromotedType, ConstantTypes, StateNames DEF ClaimStep, TypeOK
<1>10. ASSUME NEW s \in Step, ResumeSourceRefetchStep(s) PROVE TypeOK'
  BY <1>10, ConstantTypes, StateNames DEF ResumeSourceRefetchStep, TypeOK, ReadyOrBlocked
<1>11. ASSUME NEW s \in Step, DeferSourceRefetch(s) PROVE TypeOK'
  <2>1. now + RefetchDelay \in Nat
    BY ConstantTypes DEF TypeOK
  <2>2. CASE UNCHANGED <<runState, stepState, lease>>
    BY <1>11, <2>1, <2>2 DEF DeferSourceRefetch, TypeOK
  <2>3. CASE GiveUpSteps(RunOf[s])
              /\ runState' = [runState EXCEPT ![RunOf[s]] = IF @ \in RunActive THEN "dead_letter" ELSE @]
    BY <1>11, <2>1, <2>3, GiveUpType, ConstantTypes, StateNames DEF DeferSourceRefetch, TypeOK
  <2>4. QED
    BY <1>11, <2>2, <2>3 DEF DeferSourceRefetch
<1>12. ASSUME NEW s \in Step, NEW t \in Token, StartStep(s, t) PROVE TypeOK'
  BY <1>12, StateNames DEF StartStep, TypeOK, runVars
<1>13. ASSUME NEW s \in Step, NEW t \in Token, Heartbeat(s, t) PROVE TypeOK'
  <2>1. Earlier(now + LeaseTime, lease[s].hard) \in Nat /\ lease[s].hard \in Nat /\ t \in 0..MaxAttempts
    BY ConstantTypes DEF TypeOK, Lease, Earlier, Token
  <2>2. QED
    BY <1>13, <2>1 DEF Heartbeat, TypeOK, Lease, runVars
<1>14. ASSUME NEW s \in Step, NEW t \in Token, CompleteStep(s, t) PROVE TypeOK'
  <2> DEFINE r == RunOf[s]
             done == [stepState EXCEPT ![s] = "succeeded"]
  <2>1. r \in Run /\ done \in [Step -> StepStates]
    BY ConstantTypes, StateNames DEF TypeOK
  <2>2. attempts' \in [Step -> [Token -> AttemptStates]]
    BY <1>14, SettleType, StateNames DEF CompleteStep
  <2>3. lease' \in [Step -> Lease]
    BY <1>14, NoLeaseType DEF CompleteStep, TypeOK
  <2>4. /\ runState' \in [Run -> RunStates]
        /\ stepState' \in [Step -> StepStates]
        /\ availableAt' \in [Step -> Nat]
    <3>1. CASE cancelRequested[r]
      BY <1>14, <2>1, <3>1, CancelWhenQuietType DEF CompleteStep, TypeOK
    <3>2. CASE ~cancelRequested[r]
      <4>1. RefreshedRunState(r, Unblocked(r, done)) \in RunStates
        BY StateNames DEF RefreshedRunState
      <4>2. Unblocked(r, done) \in [Step -> StepStates]
        BY <2>1, UnblockedType
      <4>3. Put(availableAt, {x \in Step : Unblocked(r, done)[x] # done[x]}, now) \in [Step -> Nat]
        BY DEF Put, TypeOK
      <4>4. /\ runState' = [runState EXCEPT ![r] = RefreshedRunState(r, Unblocked(r, done))]
            /\ stepState' = Unblocked(r, done)
            /\ availableAt' = Put(availableAt, {x \in Step : Unblocked(r, done)[x] # done[x]}, now)
        BY <1>14, <3>2 DEF CompleteStep
      <4>5. QED
        BY <4>1, <4>2, <4>3, <4>4 DEF TypeOK
    <3>3. QED
      BY <3>1, <3>2
  <2>5. QED
    BY <1>14, <2>2, <2>3, <2>4 DEF CompleteStep, TypeOK
<1>15. ASSUME NEW s \in Step, NEW t \in Token, NEW retryable \in BOOLEAN, FailStep(s, t, retryable)
       PROVE TypeOK'
  <2>1. attemptCount[s] \in Token
    BY <1>15 DEF FailStep, HoldsLease, LeaseMatchesAttempt
  <2>2. QED
    BY <1>15, <2>1, FailureType, StateNames DEF FailStep
<1>16. ASSUME NEW s \in Step, NEW t \in Token, FailExpiredLease(s, t) PROVE TypeOK'
  <2>1. attemptCount[s] \in Token
    BY <1>16 DEF FailExpiredLease, LeaseMatchesAttempt
  <2>2. QED
    BY <1>16, <2>1, FailureType, StateNames DEF FailExpiredLease
<1>17. ASSUME NEW s \in Step, NEW t \in Token, RequireSourceRefetch(s, t) PROVE TypeOK'
  BY <1>17, SettleType, ConstantTypes, StateNames, NoLeaseType DEF RequireSourceRefetch, TypeOK
<1>18. CASE UNCHANGED vars
  BY <1>18 DEF vars, runVars, stepVars, TypeOK
<1>19. ASSUME NEW s \in Step, RecoverExpiredLease(s) PROVE TypeOK'
  <2>1. lease[s].token \in Token
    BY <1>19 DEF RecoverExpiredLease, LeaseMatchesAttempt
  <2>2. QED
    BY <1>19, <1>16, <1>4, <2>1, ConstantTypes DEF RecoverExpiredLease
<1>20. QED
  BY <1>1, <1>2, <1>3, <1>4, <1>5, <1>6, <1>7, <1>8, <1>9, <1>10, <1>11, <1>12, <1>13, <1>14,
     <1>15, <1>16, <1>17, <1>18, <1>19
  DEF Next, RunStep, WorkerStep, QueueStep, ExpireRunDeadline, RecoverTimedOutClaim

-----------------------------------------------------------------------------
(* Leases and fencing *)

\* A sweep of r's unfinished steps leaves no step of r held and touches no other.
LEMMA SweptRunIsQuiet ==
  ASSUME TypeOK, NEW r \in Run, NEW s \in Step
  PROVE  /\ s \in Unfinished(r) => RunOf[s] = r
         /\ RunOf[s] = r /\ stepState[s] \in Held => s \in Unfinished(r)
         /\ s \in Unfinished(r) <=> RunOf[s] = r /\ stepState[s] \in Held \cup Parked
  BY DEF Unfinished, StepsOf

\* The three outcomes of a failure leave every lease matched.
LEMMA LeaseAfterFailure ==
  ASSUME TypeOK, LeaseMatchesAttempt, NEW s \in Step, NEW t \in Token,
         NEW o \in AttemptStates, SettleAttempt(s, t, o), stepState[s] \in Held,
         UNCHANGED <<now, cancelRequested, runDeadline, attemptCount, refetchCount>>,
         FailCancelled(s) \/ FailRetry(s) \/ FailForGood(s)
  PROVE  LeaseMatchesAttempt'
<1>1. \A x \in Step, n \in Token : x # s => attempts'[x][n] = attempts[x][n]
  BY SettleType
<1>2. RunOf[s] \in Run
  BY ConstantTypes
<1>3. CASE FailCancelled(s)
  <2>1. ASSUME NEW x \in Step, x # s, stepState[x] \in Held
        PROVE  runState'[RunOf[x]] \in RunActive
    <3> DEFINE st == [stepState EXCEPT ![s] = "cancelled"]
    <3>1. st[x] \in Held
      BY <2>1 DEF TypeOK
    <3>2. CancelWhenQuiet(RunOf[s], st)
      BY <1>3 DEF FailCancelled
    <3>3. runState'[RunOf[x]] = runState[RunOf[x]]
      BY <1>2, <3>1, <3>2, ConstantTypes DEF CancelWhenQuiet, StepsOf, TypeOK
    <3>4. QED
      BY <2>1, <3>3 DEF LeaseMatchesAttempt
  <2>2. QED
    BY <1>1, <1>3, <2>1, ConstantTypes DEF FailCancelled, LeaseMatchesAttempt, TypeOK, Held
<1>4. CASE FailRetry(s)
  BY <1>1, <1>2, <1>4, ConstantTypes DEF FailRetry, LeaseMatchesAttempt, TypeOK, Held, RunActive
<1>5. CASE FailForGood(s)
  <2>1. /\ GiveUpSteps(RunOf[s])
        /\ runState' = [runState EXCEPT ![RunOf[s]] = "dead_letter"]
    BY <1>5 DEF FailForGood
  <2>2. \A x \in Step :
          /\ stepState'[x] = IF x \in Unfinished(RunOf[s]) THEN "dead_letter" ELSE stepState[x]
          /\ lease'[x] = IF x \in Unfinished(RunOf[s]) THEN NoLease ELSE lease[x]
    BY <1>2, <2>1, GiveUpType
  <2>3. SUFFICES ASSUME NEW x \in Step
        PROVE  IF stepState'[x] \in Held
               THEN /\ lease'[x].token = attemptCount'[x]
                    /\ attemptCount'[x] \in Token
                    /\ attempts'[x][attemptCount'[x]] = "running"
                    /\ lease'[x].expires <= lease'[x].hard
                    /\ lease'[x].hard <= runDeadline'[RunOf[x]]
                    /\ runState'[RunOf[x]] \in RunActive
               ELSE lease'[x] = NoLease
    BY DEF LeaseMatchesAttempt
  <2>4. CASE x \in Unfinished(RunOf[s])
    BY <2>2, <2>4 DEF Held
  <2>5. CASE x \notin Unfinished(RunOf[s])
    <3>1. stepState'[x] = stepState[x] /\ lease'[x] = lease[x]
      BY <2>2, <2>5
    <3>2. CASE stepState[x] \in Held
      <4>1. x # s /\ RunOf[x] # RunOf[s]
        BY <2>5, <3>2, <1>2, SweptRunIsQuiet
      <4>2. runState'[RunOf[x]] = runState[RunOf[x]]
        BY <2>1, <4>1, ConstantTypes DEF TypeOK
      <4>3. QED
        BY <1>1, <3>1, <3>2, <4>1, <4>2 DEF LeaseMatchesAttempt
    <3>3. CASE stepState[x] \notin Held
      BY <3>1, <3>3 DEF LeaseMatchesAttempt
    <3>4. QED
      BY <3>2, <3>3
  <2>6. QED
    BY <2>4, <2>5
<1>6. QED
  BY <1>3, <1>4, <1>5

\* Every transaction preserves the match of leases and attempts.
LEMMA LeaseStep ==
  ASSUME TypeOK, LeaseMatchesAttempt, [Next]_vars
  PROVE  LeaseMatchesAttempt'
<1>1. ASSUME Tick PROVE LeaseMatchesAttempt'
  BY <1>1 DEF Tick, LeaseMatchesAttempt, runVars, stepVars
<1>2. ASSUME ClaimNothing PROVE LeaseMatchesAttempt'
  BY <1>2, PromotedType DEF ClaimNothing, LeaseMatchesAttempt, runVars, Held
<1>3. ASSUME NEW r \in Run, DispatchRun(r) PROVE LeaseMatchesAttempt'
  BY <1>3 DEF DispatchRun, LeaseMatchesAttempt, TypeOK, StepsOf, Held, RunActive
<1>4. ASSUME NEW r \in Run, DeadLetterRun(r) PROVE LeaseMatchesAttempt'
  BY <1>4, GiveUpType, SweptRunIsQuiet, SettleRunningType, StateNames
  DEF DeadLetterRun, LeaseMatchesAttempt, TypeOK, Held, RunActive
<1>5. ASSUME NEW r \in Run, CancelRun(r) PROVE LeaseMatchesAttempt'
  <2> DEFINE st == Put(stepState, {s \in StepsOf(r) : stepState[s] \in Parked}, "cancelled")
  <2>1. \A x \in Step : st[x] \in Held <=> stepState[x] \in Held
    BY DEF Put, Held, Parked
  <2>2. \A x \in Step : st[x] \notin Held => stepState[x] \notin Held
    BY <2>1
  <2>3. \A x \in Step : stepState[x] \in Held => runState'[RunOf[x]] \in RunActive
    BY <1>5, <2>1, CancelWhenQuietType, ConstantTypes DEF CancelRun, LeaseMatchesAttempt, StepsOf
  <2>4. QED
    BY <1>5, <2>1, <2>3 DEF CancelRun, LeaseMatchesAttempt
<1>6. ASSUME NEW r \in Run, RetryRun(r) PROVE LeaseMatchesAttempt'
  BY <1>6 DEF RetryRun, LeaseMatchesAttempt, TypeOK, StepsOf, Put, ReadyOrBlocked, Held
<1>7. ASSUME NEW r \in Run, PauseRunForApproval(r) PROVE LeaseMatchesAttempt'
  BY <1>7, SweptRunIsQuiet, SettleRunningType, StateNames
  DEF PauseRunForApproval, Put, LeaseMatchesAttempt, TypeOK, Held, RunActive
<1>8. ASSUME NEW r \in Run, ResumeRunWithAuthority(r) PROVE LeaseMatchesAttempt'
  BY <1>8 DEF ResumeRunWithAuthority, Put, ReadyOrBlocked, LeaseMatchesAttempt, TypeOK, Held, RunActive
<1>9. ASSUME NEW s \in Step, ClaimStep(s) PROVE LeaseMatchesAttempt'
  <2>1. /\ attemptCount[s] + 1 \in Token
        /\ attemptCount'[s] = attemptCount[s] + 1
        /\ attempts'[s][attemptCount[s] + 1] = "running"
        /\ lease'[s] = NewLease(s)
        /\ stepState'[s] = "leased"
        /\ runDeadline' = runDeadline
    BY <1>9, ConstantTypes, PromotedType DEF ClaimStep, TypeOK, Token
  <2>2. runState'[RunOf[s]] \in RunActive
    BY <1>9, ConstantTypes DEF ClaimStep, Claimable, TypeOK, RunActive
  <2>3. \A x \in Step \ {s} :
          /\ attemptCount'[x] = attemptCount[x] /\ lease'[x] = lease[x]
          /\ attempts'[x] = attempts[x]
          /\ stepState'[x] = Promoted[x]
          /\ runState[RunOf[x]] \in RunActive => runState'[RunOf[x]] \in RunActive
    BY <1>9, ConstantTypes, PromotedType DEF ClaimStep, TypeOK, RunActive
  <2>4. \A x \in Step : Promoted[x] \in Held <=> stepState[x] \in Held
    BY PromotedType DEF Held
  <2>5. NewLease(s).token = attemptCount[s] + 1 /\ NewLease(s).expires <= NewLease(s).hard
        /\ NewLease(s).hard <= runDeadline[RunOf[s]]
    BY <1>9, NewLeaseType DEF ClaimStep
  <2>6. "leased" \in Held
    BY DEF Held
  <2>7. QED
    BY <2>1, <2>2, <2>3, <2>4, <2>5, <2>6 DEF LeaseMatchesAttempt
<1>10. ASSUME NEW s \in Step, ResumeSourceRefetchStep(s) PROVE LeaseMatchesAttempt'
  BY <1>10, ConstantTypes DEF ResumeSourceRefetchStep, ReadyOrBlocked, LeaseMatchesAttempt, TypeOK, Held, RunActive
<1>11. ASSUME NEW s \in Step, DeferSourceRefetch(s) PROVE LeaseMatchesAttempt'
  <2>1. CASE UNCHANGED <<runState, stepState, lease>>
    BY <1>11, <2>1 DEF DeferSourceRefetch, LeaseMatchesAttempt
  <2>2. CASE GiveUpSteps(RunOf[s])
              /\ runState' = [runState EXCEPT ![RunOf[s]] = IF @ \in RunActive THEN "dead_letter" ELSE @]
    BY <1>11, <2>2, GiveUpType, SweptRunIsQuiet, ConstantTypes
    DEF DeferSourceRefetch, LeaseMatchesAttempt, TypeOK, Held, RunActive
  <2>3. QED
    BY <1>11, <2>1, <2>2 DEF DeferSourceRefetch
<1>12. ASSUME NEW s \in Step, NEW t \in Token, StartStep(s, t) PROVE LeaseMatchesAttempt'
  BY <1>12 DEF StartStep, HoldsLease, LeaseMatchesAttempt, TypeOK, Held, runVars
<1>13. ASSUME NEW s \in Step, NEW t \in Token, Heartbeat(s, t) PROVE LeaseMatchesAttempt'
  <2>1. Earlier(now + LeaseTime, lease[s].hard) <= lease[s].hard
    BY ConstantTypes DEF TypeOK, Lease, Earlier
  <2>2. QED
    BY <1>13, <2>1 DEF Heartbeat, HoldsLease, LeaseMatchesAttempt, TypeOK, runVars
<1>14. ASSUME NEW s \in Step, NEW t \in Token, CompleteStep(s, t) PROVE LeaseMatchesAttempt'
  <2> DEFINE r == RunOf[s]
             done == [stepState EXCEPT ![s] = "succeeded"]
  <2>1. r \in Run /\ done \in [Step -> StepStates]
    BY ConstantTypes, StateNames DEF TypeOK
  <2>2. \A x \in Step, n \in Token : x # s => attempts'[x][n] = attempts[x][n]
    BY <1>14, SettleType, StateNames DEF CompleteStep
  <2>3. \A x \in Step : Unblocked(r, done)[x] \in Held <=> done[x] \in Held
    BY <2>1, UnblockedType DEF Held
  <2>4. \A x \in Step : done[x] \in Held <=> x # s /\ stepState[x] \in Held
    BY DEF Held, TypeOK
  <2>5. \A x \in Step : stepState'[x] \in Held <=> x # s /\ stepState[x] \in Held
    BY <1>14, <2>3, <2>4 DEF CompleteStep
  <2>6. \A x \in Step : x # s /\ stepState[x] \in Held => runState'[RunOf[x]] \in RunActive
    <3>1. CASE cancelRequested[r]
      <4>1. CancelWhenQuiet(r, done)
        BY <1>14, <3>1 DEF CompleteStep
      <4>2. ASSUME NEW x \in Step, x # s, stepState[x] \in Held
            PROVE  runState'[RunOf[x]] = runState[RunOf[x]]
        BY <2>1, <2>4, <4>1, <4>2, ConstantTypes DEF CancelWhenQuiet, StepsOf, TypeOK
      <4>3. QED
        BY <4>2 DEF LeaseMatchesAttempt
    <3>2. CASE ~cancelRequested[r]
      <4>1. ASSUME NEW x \in Step, x # s, stepState[x] \in Held, RunOf[x] = r
            PROVE  RefreshedRunState(r, Unblocked(r, done)) \in RunActive
        BY <4>1, <2>3, <2>4 DEF RefreshedRunState, StepsOf, RunActive, Held
      <4>2. runState' = [runState EXCEPT ![r] = RefreshedRunState(r, Unblocked(r, done))]
        BY <1>14, <3>2 DEF CompleteStep
      <4>3. QED
        BY <2>1, <4>1, <4>2, ConstantTypes DEF LeaseMatchesAttempt, TypeOK
    <3>3. QED
      BY <3>1, <3>2
  <2>7. QED
    BY <1>14, <2>2, <2>5, <2>6 DEF CompleteStep, LeaseMatchesAttempt, TypeOK
<1>15. ASSUME NEW s \in Step, NEW t \in Token, NEW retryable \in BOOLEAN, FailStep(s, t, retryable)
       PROVE LeaseMatchesAttempt'
  BY <1>15, LeaseAfterFailure, StateNames DEF FailStep, HoldsLease
<1>16. ASSUME NEW s \in Step, NEW t \in Token, FailExpiredLease(s, t) PROVE LeaseMatchesAttempt'
  BY <1>16, LeaseAfterFailure, StateNames DEF FailExpiredLease
<1>17. ASSUME NEW s \in Step, NEW t \in Token, RequireSourceRefetch(s, t) PROVE LeaseMatchesAttempt'
  BY <1>17, SettleType, ConstantTypes, StateNames
  DEF RequireSourceRefetch, LeaseMatchesAttempt, TypeOK, Held, RunActive
<1>18. CASE UNCHANGED vars
  BY <1>18 DEF vars, runVars, stepVars, LeaseMatchesAttempt
<1>19. ASSUME NEW s \in Step, RecoverExpiredLease(s) PROVE LeaseMatchesAttempt'
  <2>1. lease[s].token \in Token
    BY <1>19 DEF RecoverExpiredLease, LeaseMatchesAttempt
  <2>2. QED
    BY <1>19, <1>16, <1>4, <2>1, ConstantTypes DEF RecoverExpiredLease
<1>20. QED
  BY <1>1, <1>2, <1>3, <1>4, <1>5, <1>6, <1>7, <1>8, <1>9, <1>10, <1>11, <1>12, <1>13, <1>14,
     <1>15, <1>16, <1>17, <1>18, <1>19
  DEF Next, RunStep, WorkerStep, QueueStep, ExpireRunDeadline, RecoverTimedOutClaim

-----------------------------------------------------------------------------
(* The invariant of the lease protocol *)

\* Type correctness needs the lease facts (a failing step's attempt number
\* selects its back-off), and the lease facts need the types.
LeaseInv == TypeOK /\ LeaseMatchesAttempt

\* An empty database satisfies the inductive invariant.
LEMMA LeaseInit == Init => LeaseInv
<1>1. Init => TypeOK
  BY NoLeaseType, StateNames, ConstantTypes DEF Init, TypeOK
<1>2. Init => LeaseMatchesAttempt
  BY DEF Init, LeaseMatchesAttempt, Held
<1>3. QED
  BY <1>1, <1>2 DEF LeaseInv

\* The inductive invariant is preserved by every step and by stuttering.
LEMMA LeaseNext == LeaseInv /\ [Next]_vars => LeaseInv'
  BY TypeStep, LeaseStep DEF LeaseInv

\* The types and the lease facts together hold in every reachable state.
LEMMA LeaseAlways == Spec => []LeaseInv
  BY LeaseInit, LeaseNext, PTL DEF Spec

\* Every table column keeps its type, for every set of runs and steps.
THEOREM TypeCorrect == Spec => []TypeOK
<1>1. LeaseInv => TypeOK
  BY DEF LeaseInv
<1>2. QED
  BY <1>1, LeaseAlways, PTL

\* A held step is fenced by the token of its latest, still open attempt, its
\* lease within the step's and the run's limits, and only in an active run;
\* any other step holds no lease.
THEOREM LeasesAreFenced == Spec => []LeaseMatchesAttempt
<1>1. LeaseInv => LeaseMatchesAttempt
  BY DEF LeaseInv
<1>2. QED
  BY <1>1, LeaseAlways, PTL

-----------------------------------------------------------------------------
(* Success *)

\* The steps of a run are written with it.
RunsBeforeSteps == \A s \in Step : runState[RunOf[s]] = "none" => stepState[s] = "none"

\* No step succeeds and no success is taken back.
SuccessUnmoved == \A x \in Step : stepState'[x] = "succeeded" <=> stepState[x] = "succeeded"

\* A failure moves no success.
LEMMA FailureMovesNoSuccess ==
  ASSUME TypeOK, NEW s \in Step, stepState[s] \in Held,
         FailCancelled(s) \/ FailRetry(s) \/ FailForGood(s)
  PROVE  SuccessUnmoved
<1>1. CASE FailCancelled(s)
  BY <1>1 DEF FailCancelled, SuccessUnmoved, TypeOK, Held
<1>2. CASE FailRetry(s)
  BY <1>2 DEF FailRetry, SuccessUnmoved, TypeOK, Held
<1>3. CASE FailForGood(s)
  BY <1>3 DEF FailForGood, GiveUpSteps, Put, Unfinished, SuccessUnmoved, TypeOK, Held, Parked
<1>4. QED
  BY <1>1, <1>2, <1>3

\* What the dispatcher, the sweeps and the operator do to a run moves no success.
LEMMA RunStepsMoveNoSuccess ==
  ASSUME TypeOK, NEW r \in Run, RunStep(r),
         RunsBeforeSteps
  PROVE  SuccessUnmoved
<1>1. CASE DispatchRun(r)
  BY <1>1 DEF DispatchRun, SuccessUnmoved, StepsOf, RunsBeforeSteps
<1>2. CASE DeadLetterRun(r) \/ ExpireRunDeadline(r)
  BY <1>2 DEF ExpireRunDeadline, DeadLetterRun, GiveUpSteps, Put, Unfinished, SuccessUnmoved, TypeOK,
              Held, Parked
<1>3. CASE CancelRun(r)
  BY <1>3 DEF CancelRun, Put, SuccessUnmoved, Parked
<1>4. CASE RetryRun(r)
  BY <1>4 DEF RetryRun, ReadyOrBlocked, SuccessUnmoved
<1>5. CASE PauseRunForApproval(r)
  BY <1>5 DEF PauseRunForApproval, Put, Unfinished, SuccessUnmoved, Held, Parked
<1>6. CASE ResumeRunWithAuthority(r)
  BY <1>6 DEF ResumeRunWithAuthority, ReadyOrBlocked, SuccessUnmoved
<1>7. QED
  BY <1>1, <1>2, <1>3, <1>4, <1>5, <1>6 DEF RunStep

\* Of what a worker does, only a completion moves a success.
LEMMA WorkersMoveNoSuccess ==
  ASSUME TypeOK, NEW s \in Step, NEW t \in Token,
         \/ StartStep(s, t) \/ Heartbeat(s, t)
         \/ \E retryable \in BOOLEAN : FailStep(s, t, retryable)
         \/ RecoverTimedOutClaim(s, t) \/ RequireSourceRefetch(s, t)
  PROVE  SuccessUnmoved
<1>1. CASE StartStep(s, t) \/ Heartbeat(s, t)
  BY <1>1 DEF StartStep, Heartbeat, SuccessUnmoved, TypeOK
<1>2. CASE \E retryable \in BOOLEAN : FailStep(s, t, retryable)
  BY <1>2, FailureMovesNoSuccess DEF FailStep, HoldsLease
<1>3. CASE RecoverTimedOutClaim(s, t)
  BY <1>3, FailureMovesNoSuccess DEF RecoverTimedOutClaim, FailExpiredLease
<1>4. CASE RequireSourceRefetch(s, t)
  BY <1>4 DEF RequireSourceRefetch, SuccessUnmoved, TypeOK
<1>5. QED
  BY <1>1, <1>2, <1>3, <1>4

\* Claims, the lease sweep and the refetch move no success.
LEMMA QueueStepsMoveNoSuccess ==
  ASSUME TypeOK, NEW s \in Step, QueueStep(s)
  PROVE  SuccessUnmoved
<1>1. CASE ClaimStep(s)
  BY <1>1 DEF ClaimStep, Claimable, Promoted, SuccessUnmoved, TypeOK
<1>2. CASE RecoverExpiredLease(s)
  <2>1. CASE FailExpiredLease(s, lease[s].token)
    BY <2>1, FailureMovesNoSuccess DEF FailExpiredLease
  <2>2. CASE DeadLetterRun(RunOf[s])
    BY <2>2 DEF DeadLetterRun, GiveUpSteps, Put, Unfinished, SuccessUnmoved, TypeOK, Held, Parked
  <2>3. QED
    BY <1>2, <2>1, <2>2 DEF RecoverExpiredLease
<1>3. CASE ResumeSourceRefetchStep(s)
  BY <1>3 DEF ResumeSourceRefetchStep, ReadyOrBlocked, SuccessUnmoved, TypeOK
<1>4. CASE DeferSourceRefetch(s)
  BY <1>4 DEF DeferSourceRefetch, GiveUpSteps, Put, Unfinished, SuccessUnmoved, TypeOK, Held, Parked
<1>5. QED
  BY <1>1, <1>2, <1>3, <1>4 DEF QueueStep

\* A completion makes its own step succeed, and no other.
LEMMA CompletionSucceedsAlone ==
  ASSUME TypeOK, NEW s \in Step, NEW t \in Token, CompleteStep(s, t)
  PROVE  \A x \in Step : stepState'[x] = "succeeded" <=> x = s \/ stepState[x] = "succeeded"
<1> DEFINE done == [stepState EXCEPT ![s] = "succeeded"]
<1>1. done \in [Step -> StepStates]
  BY StateNames DEF TypeOK
<1>2. \A x \in Step : done[x] = "succeeded" <=> x = s \/ stepState[x] = "succeeded"
  BY DEF TypeOK
<1>3. stepState' = done \/ stepState' = Unblocked(RunOf[s], done)
  BY DEF CompleteStep
<1> HIDE DEF done
<1>4. \A x \in Step : Unblocked(RunOf[s], done)[x] = "succeeded" <=> done[x] = "succeeded"
  BY <1>1, UnblockedType, ConstantTypes
<1>5. QED
  BY <1>2, <1>3, <1>4

\* A step of the queue moves no success but the one a completion reports.
LEMMA OnlyCompletionSucceeds ==
  ASSUME TypeOK, RunsBeforeSteps, [Next]_vars
  PROVE  SuccessUnmoved \/ \E s \in Step, t \in Token : CompleteStep(s, t)
<1>1. CASE Tick \/ UNCHANGED vars
  BY <1>1 DEF Tick, SuccessUnmoved, vars, runVars, stepVars
<1>2. CASE ClaimNothing
  BY <1>2 DEF ClaimNothing, Promoted, SuccessUnmoved
<1>3. QED
  BY <1>1, <1>2, RunStepsMoveNoSuccess, QueueStepsMoveNoSuccess, WorkersMoveNoSuccess
  DEF Next, WorkerStep

\* A step that creates no row and deletes no run keeps the order of creation.
LEMMA RowsKept ==
  ASSUME RunsBeforeSteps,
         \A x \in Step : runState'[RunOf[x]] = "none" => runState[RunOf[x]] = "none",
         \A x \in Step : runState'[RunOf[x]] = "none" /\ stepState[x] = "none" => stepState'[x] = "none"
  PROVE  RunsBeforeSteps'
  BY DEF RunsBeforeSteps

\* A sweep creates no row.
LEMMA SweepCreatesNoRow ==
  ASSUME TypeOK, NEW r \in Run, GiveUpSteps(r)
  PROVE  \A x \in Step : stepState[x] = "none" => stepState'[x] = "none"
  BY DEF GiveUpSteps, Put, Unfinished, Held, Parked, TypeOK

\* A failure creates no row.
LEMMA FailureCreatesNoRow ==
  ASSUME TypeOK, NEW s \in Step, stepState[s] \in Held,
         FailCancelled(s) \/ FailRetry(s) \/ FailForGood(s)
  PROVE  /\ \A x \in Step : runState'[RunOf[x]] = "none" => runState[RunOf[x]] = "none"
         /\ \A x \in Step : stepState[x] = "none" => stepState'[x] = "none"
<1>1. CASE FailCancelled(s)
  BY <1>1, CancelWhenQuietType, ConstantTypes DEF FailCancelled, TypeOK, Held, CancelWhenQuiet
<1>2. CASE FailRetry(s)
  BY <1>2, ConstantTypes DEF FailRetry, TypeOK, Held
<1>3. CASE FailForGood(s)
  BY <1>3, SweepCreatesNoRow, ConstantTypes DEF FailForGood, TypeOK
<1>4. QED
  BY <1>1, <1>2, <1>3

\* The steps of a run exist only once the run does.
LEMMA RowsStep ==
  ASSUME TypeOK, RunsBeforeSteps, [Next]_vars
  PROVE  RunsBeforeSteps'
<1>1. CASE Tick \/ UNCHANGED vars
  BY <1>1 DEF Tick, RunsBeforeSteps, vars, runVars, stepVars
<1>2. CASE ClaimNothing
  BY <1>2 DEF ClaimNothing, Promoted, RunsBeforeSteps, runVars
<1>3. ASSUME NEW r \in Run, RunStep(r) PROVE RunsBeforeSteps'
  <2>1. CASE DispatchRun(r)
    BY <2>1, ConstantTypes DEF DispatchRun, RunsBeforeSteps, TypeOK, StepsOf
  <2>2. CASE DeadLetterRun(r) \/ ExpireRunDeadline(r)
    <3>1. GiveUpSteps(r) /\ runState[r] # "none"
          /\ runState' = [runState EXCEPT ![r] = IF @ \in RunActive THEN "dead_letter" ELSE @]
      BY <2>2 DEF ExpireRunDeadline, DeadLetterRun
    <3>2. QED
      BY <3>1, SweepCreatesNoRow, RowsKept, ConstantTypes DEF TypeOK
  <2>3. CASE CancelRun(r)
    BY <2>3, RowsKept, ConstantTypes DEF CancelRun, CancelWhenQuiet, Put, Parked, TypeOK
  <2>4. CASE RetryRun(r)
    BY <2>4, ConstantTypes DEF RetryRun, StepsOf, RunsBeforeSteps, TypeOK
  <2>5. CASE PauseRunForApproval(r)
    BY <2>5, RowsKept, ConstantTypes DEF PauseRunForApproval, Put, Unfinished, Held, Parked, TypeOK
  <2>6. CASE ResumeRunWithAuthority(r)
    BY <2>6, RowsKept, ConstantTypes DEF ResumeRunWithAuthority, TypeOK
  <2>7. QED
    BY <1>3, <2>1, <2>2, <2>3, <2>4, <2>5, <2>6 DEF RunStep
<1>4. ASSUME NEW s \in Step, QueueStep(s) PROVE RunsBeforeSteps'
  <2>1. CASE ClaimStep(s)
    BY <2>1, RowsKept, ConstantTypes DEF ClaimStep, Claimable, Promoted, TypeOK, RunActive
  <2>2. CASE FailExpiredLease(s, lease[s].token)
    BY <2>2, FailureCreatesNoRow, RowsKept DEF FailExpiredLease
  <2>3. CASE DeadLetterRun(RunOf[s])
    BY <2>3, <1>3, ConstantTypes DEF RunStep
  <2>4. CASE ResumeSourceRefetchStep(s)
    BY <2>4, RowsKept, ConstantTypes DEF ResumeSourceRefetchStep, TypeOK
  <2>5. CASE DeferSourceRefetch(s)
    <3>1. \A x \in Step : runState'[RunOf[x]] = "none" => runState[RunOf[x]] = "none"
      BY <2>5, ConstantTypes DEF DeferSourceRefetch, TypeOK
    <3>2. \A x \in Step : stepState[x] = "none" => stepState'[x] = "none"
      BY <2>5, SweepCreatesNoRow, ConstantTypes DEF DeferSourceRefetch
    <3>3. QED
      BY <3>1, <3>2, RowsKept
  <2>6. QED
    BY <1>4, <2>1, <2>2, <2>3, <2>4, <2>5 DEF QueueStep, RecoverExpiredLease
<1>5. ASSUME NEW s \in Step, NEW t \in Token, WorkerStep(s, t) PROVE RunsBeforeSteps'
  <2>1. CASE StartStep(s, t) \/ Heartbeat(s, t)
    BY <2>1, RowsKept DEF StartStep, Heartbeat, HoldsLease, Held, TypeOK, runVars
  <2>2. CASE CompleteStep(s, t)
    <3> DEFINE done == [stepState EXCEPT ![s] = "succeeded"]
    <3>1. done \in [Step -> StepStates] /\ stepState[s] # "none"
      BY <2>2, StateNames DEF TypeOK, CompleteStep, HoldsLease, Held
    <3>2. \A x \in Step : stepState[x] = "none" => done[x] = "none"
      BY <3>1 DEF TypeOK
    <3>3. \A x \in Step : runState'[RunOf[x]] = "none" => runState[RunOf[x]] = "none"
      BY <2>2, ConstantTypes DEF CompleteStep, CancelWhenQuiet, RefreshedRunState, TypeOK
    <3>4. stepState' = done \/ stepState' = Unblocked(RunOf[s], done)
      BY <2>2 DEF CompleteStep
    <3> HIDE DEF done
    <3>5. \A x \in Step : Unblocked(RunOf[s], done)[x] = done[x] \/ done[x] = "blocked"
      BY <3>1, UnblockedType, ConstantTypes
    <3>6. QED
      BY <3>2, <3>3, <3>4, <3>5, RowsKept
  <2>3. CASE \E retryable \in BOOLEAN : FailStep(s, t, retryable)
    BY <2>3, FailureCreatesNoRow, RowsKept DEF FailStep, HoldsLease
  <2>4. CASE RecoverTimedOutClaim(s, t)
    BY <2>4, FailureCreatesNoRow, RowsKept DEF RecoverTimedOutClaim, FailExpiredLease
  <2>5. CASE RequireSourceRefetch(s, t)
    BY <2>5, RowsKept, ConstantTypes DEF RequireSourceRefetch, HoldsLease, Held, TypeOK
  <2>6. QED
    BY <1>5, <2>1, <2>2, <2>3, <2>4, <2>5 DEF WorkerStep
<1>6. QED
  BY <1>1, <1>2, <1>3, <1>4, <1>5 DEF Next

\* Completed steps stay completed through retries of the run, pauses, sweeps
\* and late failures.
THEOREM SuccessesStand == Spec => SuccessIsPermanent
<1>1. Init => RunsBeforeSteps
  BY DEF Init, RunsBeforeSteps
<1>2. TypeOK /\ RunsBeforeSteps /\ [Next]_vars => RunsBeforeSteps'
  BY RowsStep
<1>3. TypeOK /\ RunsBeforeSteps /\ [Next]_vars
        => [\A s \in Step : stepState[s] = "succeeded" => stepState'[s] = "succeeded"]_vars
  BY OnlyCompletionSucceeds, CompletionSucceedsAlone DEF SuccessUnmoved
<1>4. QED
  BY <1>1, <1>2, <1>3, TypeCorrect, PTL DEF Spec, SuccessIsPermanent

-----------------------------------------------------------------------------
(* Attempts: a settled one is history, and one of them succeeds *)

\* Attempt numbers are handed out in order: none beyond the count was opened.
AttemptsInOrder ==
  \A s \in Step, t \in Token : t > attemptCount[s] => attempts[s][t] = "none"

\* A step that opens no attempt, and settles open ones as something but a success.
SettlesWithoutSuccess ==
  /\ attemptCount' = attemptCount
  /\ \A x \in Step, n \in Token :
       \/ attempts'[x][n] = attempts[x][n]
       \/ attempts[x][n] = "running" /\ attempts'[x][n] \notin {"none", "succeeded"}

\* What the dispatcher, the sweeps and the operator do to a run only settles attempts.
LEMMA RunStepsSettle ==
  ASSUME TypeOK, NEW r \in Run, RunStep(r)
  PROVE  SettlesWithoutSuccess
<1>1. CASE DispatchRun(r) \/ CancelRun(r) \/ RetryRun(r) \/ ResumeRunWithAuthority(r)
  BY <1>1 DEF DispatchRun, CancelRun, RetryRun, ResumeRunWithAuthority, SettlesWithoutSuccess
<1>2. CASE DeadLetterRun(r) \/ ExpireRunDeadline(r)
  BY <1>2, SettleRunningType, StateNames DEF ExpireRunDeadline, DeadLetterRun, SettlesWithoutSuccess
<1>3. CASE PauseRunForApproval(r)
  BY <1>3, SettleRunningType, StateNames DEF PauseRunForApproval, SettlesWithoutSuccess
<1>4. QED
  BY <1>1, <1>2, <1>3 DEF RunStep

\* Of what a worker does, only a completion settles an attempt as a success.
LEMMA WorkersSettle ==
  ASSUME TypeOK, NEW s \in Step, NEW t \in Token, WorkerStep(s, t), ~CompleteStep(s, t)
  PROVE  SettlesWithoutSuccess
<1>1. CASE StartStep(s, t) \/ Heartbeat(s, t)
  BY <1>1 DEF StartStep, Heartbeat, SettlesWithoutSuccess
<1>2. CASE \E retryable \in BOOLEAN : FailStep(s, t, retryable)
  BY <1>2, SettleType, StateNames DEF FailStep, SettlesWithoutSuccess
<1>3. CASE RecoverTimedOutClaim(s, t)
  BY <1>3, SettleType, StateNames DEF RecoverTimedOutClaim, FailExpiredLease, SettlesWithoutSuccess
<1>4. CASE RequireSourceRefetch(s, t)
  BY <1>4, SettleType, StateNames DEF RequireSourceRefetch, SettlesWithoutSuccess
<1>5. QED
  BY <1>1, <1>2, <1>3, <1>4 DEF WorkerStep

\* The lease sweep and the source refetch only settle attempts.
LEMMA QueueStepsSettle ==
  ASSUME LeaseInv, NEW s \in Step, QueueStep(s), ~ClaimStep(s)
  PROVE  SettlesWithoutSuccess
<1> USE DEF LeaseInv
<1>1. CASE RecoverExpiredLease(s)
  <2>1. lease[s].token \in Token
    BY <1>1 DEF RecoverExpiredLease, LeaseMatchesAttempt
  <2>2. CASE FailExpiredLease(s, lease[s].token)
    BY <2>1, <2>2, SettleType, StateNames DEF FailExpiredLease, SettlesWithoutSuccess
  <2>3. CASE DeadLetterRun(RunOf[s])
    BY <2>3, SettleRunningType, StateNames, ConstantTypes DEF DeadLetterRun, SettlesWithoutSuccess
  <2>4. QED
    BY <1>1, <2>2, <2>3 DEF RecoverExpiredLease
<1>2. CASE ResumeSourceRefetchStep(s) \/ DeferSourceRefetch(s)
  BY <1>2 DEF ResumeSourceRefetchStep, DeferSourceRefetch, SettlesWithoutSuccess
<1>3. QED
  BY <1>1, <1>2 DEF QueueStep

\* Every step settles attempts, completes a step or claims one.
LEMMA AttemptsMove ==
  ASSUME LeaseInv, [Next]_vars
  PROVE  \/ SettlesWithoutSuccess
         \/ \E s \in Step, t \in Token : CompleteStep(s, t)
         \/ \E s \in Step : ClaimStep(s)
<1>1. CASE Tick \/ ClaimNothing \/ UNCHANGED vars
  BY <1>1 DEF Tick, ClaimNothing, vars, runVars, stepVars, SettlesWithoutSuccess
<1>2. QED
  BY <1>1, RunStepsSettle, WorkersSettle, QueueStepsSettle DEF Next, LeaseInv

\* A completion settles the attempt of the latest claim, and leaves the count.
LEMMA CompletionSettlesLast ==
  ASSUME LeaseInv, NEW s \in Step, NEW t \in Token, CompleteStep(s, t)
  PROVE  /\ t = attemptCount[s] /\ attempts[s][t] = "running" /\ stepState[s] # "succeeded"
         /\ attemptCount' = attemptCount
         /\ \A x \in Step, n \in Token :
              attempts'[x][n] = IF x = s /\ n = t THEN "succeeded" ELSE attempts[x][n]
<1>1. stepState[s] \in Held /\ lease[s].token = t /\ SettleAttempt(s, t, "succeeded")
      /\ attemptCount' = attemptCount
  BY DEF CompleteStep, HoldsLease
<1>2. t = attemptCount[s] /\ attempts[s][t] = "running" /\ stepState[s] # "succeeded"
  BY <1>1 DEF LeaseInv, LeaseMatchesAttempt, Held
<1>3. QED
  BY <1>1, <1>2, SettleType, StateNames DEF LeaseInv

\* A claim opens the next attempt of a step that has not succeeded.
LEMMA ClaimOpensNext ==
  ASSUME LeaseInv, NEW s \in Step, ClaimStep(s)
  PROVE  /\ attemptCount[s] + 1 \in Token /\ stepState[s] # "succeeded"
         /\ \A x \in Step :
              attemptCount'[x] = IF x = s THEN attemptCount[s] + 1 ELSE attemptCount[x]
         /\ \A x \in Step, n \in Token :
              attempts'[x][n] = IF x = s /\ n = attemptCount[s] + 1
                                THEN "running" ELSE attempts[x][n]
<1>1. attemptCount[s] + 1 \in Token
  BY ConstantTypes DEF ClaimStep, LeaseInv, TypeOK, Token
<1>2. stepState[s] # "succeeded"
  BY DEF ClaimStep, Claimable, Promoted
<1>3. QED
  BY <1>1, <1>2 DEF ClaimStep, LeaseInv, TypeOK

\* The order of attempts is kept by every step.
LEMMA OrderStep ==
  ASSUME LeaseInv, AttemptsInOrder, [Next]_vars
  PROVE  AttemptsInOrder'
<1>1. CASE SettlesWithoutSuccess
  BY <1>1 DEF SettlesWithoutSuccess, AttemptsInOrder
<1> Token \subseteq Nat /\ \A x \in Step : attemptCount[x] \in Nat
  BY ConstantTypes DEF Token, LeaseInv, TypeOK
<1>2. ASSUME NEW s \in Step, NEW t \in Token, CompleteStep(s, t) PROVE AttemptsInOrder'
  <2>1. /\ t = attemptCount[s] /\ attemptCount' = attemptCount
        /\ \A x \in Step, n \in Token :
             attempts'[x][n] = IF x = s /\ n = t THEN "succeeded" ELSE attempts[x][n]
    BY <1>2, CompletionSettlesLast
  <2>2. QED
    BY <2>1 DEF AttemptsInOrder
<1>3. ASSUME NEW s \in Step, ClaimStep(s) PROVE AttemptsInOrder'
  <2>1. /\ \A x \in Step :
             attemptCount'[x] = IF x = s THEN attemptCount[s] + 1 ELSE attemptCount[x]
        /\ \A x \in Step, n \in Token :
             attempts'[x][n] = IF x = s /\ n = attemptCount[s] + 1
                               THEN "running" ELSE attempts[x][n]
    BY <1>3, ClaimOpensNext
  <2>2. QED
    BY <2>1 DEF AttemptsInOrder
<1>4. QED
  BY <1>1, <1>2, <1>3, AttemptsMove

\* The one success of a step is its latest attempt's, after every step.
LEMMA LastAttemptStep ==
  ASSUME LeaseInv, RunsBeforeSteps, AttemptsInOrder, SucceededByLastAttempt, [Next]_vars
  PROVE  SucceededByLastAttempt'
<1>1. CASE \E s \in Step, t \in Token : CompleteStep(s, t)
  <2>1. PICK s \in Step, t \in Token : CompleteStep(s, t)
    BY <1>1
  <2>2. \A x \in Step : stepState'[x] = "succeeded" <=> x = s \/ stepState[x] = "succeeded"
    BY <2>1, CompletionSucceedsAlone DEF LeaseInv
  <2>3. QED
    BY <2>1, <2>2, CompletionSettlesLast DEF SucceededByLastAttempt
<1>2. CASE ~\E s \in Step, t \in Token : CompleteStep(s, t)
  <2>1. SuccessUnmoved
    BY <1>2, OnlyCompletionSucceeds DEF LeaseInv
  <2>2. CASE SettlesWithoutSuccess
    BY <2>1, <2>2 DEF SettlesWithoutSuccess, SuccessUnmoved, SucceededByLastAttempt
  <2>3. ASSUME NEW s \in Step, ClaimStep(s) PROVE SucceededByLastAttempt'
    BY <2>1, <2>3, ClaimOpensNext DEF SuccessUnmoved, SucceededByLastAttempt
  <2>4. QED
    BY <1>2, <2>2, <2>3, AttemptsMove
<1>3. QED
  BY <1>1, <1>2

\* No settled attempt is reopened or given another outcome by any step.
LEMMA SettledStep ==
  ASSUME LeaseInv, AttemptsInOrder, [Next]_vars,
         NEW s \in Step, NEW t \in Token, attempts[s][t] \notin {"none", "running"}
  PROVE  attempts'[s][t] = attempts[s][t]
<1>1. CASE SettlesWithoutSuccess
  BY <1>1 DEF SettlesWithoutSuccess
<1>2. ASSUME NEW x \in Step, NEW n \in Token, CompleteStep(x, n)
      PROVE  attempts'[s][t] = attempts[s][t]
  BY <1>2, CompletionSettlesLast
<1>3. ASSUME NEW x \in Step, ClaimStep(x) PROVE attempts'[s][t] = attempts[s][t]
  <2>1. attemptCount[x] \in Nat /\ attempts[x][attemptCount[x] + 1] = "none"
    BY <1>3, ClaimOpensNext, ConstantTypes DEF AttemptsInOrder, LeaseInv, TypeOK
  <2>2. QED
    BY <1>3, <2>1, ClaimOpensNext
<1>4. QED
  BY <1>1, <1>2, <1>3, AttemptsMove

\* The invariant of the attempts: the lease facts decide which attempt settles.
AttemptsInv == LeaseInv /\ RunsBeforeSteps /\ AttemptsInOrder /\ SucceededByLastAttempt

\* The invariant of the attempts holds in every reachable state.
LEMMA AttemptsAlways == Spec => []AttemptsInv
<1>1. Init => AttemptsInv
  BY LeaseInit DEF Init, RunsBeforeSteps, AttemptsInOrder, SucceededByLastAttempt, AttemptsInv
<1>2. AttemptsInv /\ [Next]_vars => AttemptsInv'
  BY LeaseNext, RowsStep, OrderStep, LastAttemptStep DEF AttemptsInv, LeaseInv
<1>3. QED
  BY <1>1, <1>2, PTL DEF Spec

\* A step succeeds once, by the attempt of its last claim: a late worker whose
\* lease was taken over adds no second success.
THEOREM LastAttemptSucceeds == Spec => []SucceededByLastAttempt
<1>1. AttemptsInv => SucceededByLastAttempt
  BY DEF AttemptsInv
<1>2. QED
  BY <1>1, AttemptsAlways, PTL

\* A settled attempt is history: no later claim, settlement or sweep rewrites it.
THEOREM SettledAttemptsStand == Spec => AttemptsAreImmutable
<1>1. AttemptsInv /\ [Next]_vars
        => [\A s \in Step, t \in Token :
              attempts[s][t] \notin {"none", "running"} => attempts'[s][t] = attempts[s][t]]_vars
  BY SettledStep DEF AttemptsInv
<1>2. QED
  BY <1>1, AttemptsAlways, PTL DEF Spec, AttemptsAreImmutable

-----------------------------------------------------------------------------
(* Cancellation *)

\* Every step keeps the cancellations and claims nothing of a cancelled run.
LEMMA CancellationStep ==
  ASSUME LeaseInv, [Next]_vars, NEW r \in Run, cancelRequested[r]
  PROVE  /\ cancelRequested'[r]
         /\ \A s \in StepsOf(r) : attemptCount'[s] = attemptCount[s]
<1>1. CASE \E s \in Step : ClaimStep(s)
  <2>1. PICK s \in Step : ClaimStep(s)
    BY <1>1
  <2>2. RunOf[s] # r /\ cancelRequested' = cancelRequested
    BY <2>1 DEF ClaimStep, Claimable
  <2>3. QED
    BY <2>1, <2>2, ClaimOpensNext DEF StepsOf
<1>2. CASE ~\E s \in Step : ClaimStep(s)
  <2>1. \A s \in StepsOf(r) : attemptCount'[s] = attemptCount[s]
    BY <1>2, AttemptsMove, CompletionSettlesLast DEF SettlesWithoutSuccess, StepsOf
  <2>2. CASE \E q \in Run : CancelRun(q)
    BY <2>1, <2>2 DEF CancelRun, LeaseInv, TypeOK
  <2>3. CASE ~\E q \in Run : CancelRun(q)
    <3>1. cancelRequested' = cancelRequested
      <4>1. CASE \E q \in Run : RunStep(q)
        BY <2>3, <4>1
        DEF RunStep, DispatchRun, DeadLetterRun, ExpireRunDeadline, RetryRun, PauseRunForApproval,
            ResumeRunWithAuthority
      <4>2. CASE \E s \in Step, t \in Token : WorkerStep(s, t)
        <5>1. PICK s \in Step, t \in Token : WorkerStep(s, t)
          BY <4>2
        <5>2. CASE \E retryable \in BOOLEAN : FailStep(s, t, retryable)
          BY <5>2 DEF FailStep, FailExpiredLease, runVars
        <5>3. CASE ~\E retryable \in BOOLEAN : FailStep(s, t, retryable)
          BY <5>1, <5>3
          DEF WorkerStep, StartStep, Heartbeat, CompleteStep, FailExpiredLease,
              RecoverTimedOutClaim, RequireSourceRefetch, runVars
        <5>4. QED
          BY <5>2, <5>3
      <4>3. CASE \E s \in Step : QueueStep(s)
        BY <1>2, <4>3
        DEF QueueStep, RecoverExpiredLease, FailExpiredLease, DeadLetterRun,
            ResumeSourceRefetchStep, DeferSourceRefetch, runVars
      <4>4. CASE Tick \/ ClaimNothing \/ UNCHANGED vars
        BY <4>4 DEF Tick, ClaimNothing, vars, runVars, stepVars
      <4>5. QED
        BY <4>1, <4>2, <4>3, <4>4 DEF Next
    <3>2. QED
      BY <2>1, <3>1
  <2>4. QED
    BY <2>2, <2>3
<1>3. QED
  BY <1>1, <1>2

\* A cancellation is never withdrawn, and no step of its run is claimed again.
THEOREM CancellationsStand == Spec => CancellationIsDurable
<1>1. LeaseInv /\ [Next]_vars
        => [\A r \in Run : cancelRequested[r] =>
              /\ cancelRequested'[r]
              /\ \A s \in StepsOf(r) : attemptCount'[s] = attemptCount[s]]_vars
  BY CancellationStep
<1>2. QED
  BY <1>1, LeaseAlways, PTL DEF Spec, CancellationIsDurable

-----------------------------------------------------------------------------
(* Dependencies *)

\* The states of a step that has gone past its dependencies.
PastDeps == Held \cup {"ready", "waiting_retry", "source_refetch_required", "succeeded"}

\* A step that lets no other go past its dependencies before they succeeded.
OnlyWithDeps ==
  \A x \in Step : stepState'[x] \in PastDeps
                    => stepState[x] \in PastDeps \/ DepsSucceeded(x, stepState) \/ DepsSucceeded(x, stepState')

\* A failure lets no step past its dependencies.
LEMMA FailureWithDeps ==
  ASSUME TypeOK, NEW s \in Step, stepState[s] \in Held,
         FailCancelled(s) \/ FailRetry(s) \/ FailForGood(s)
  PROVE  OnlyWithDeps
<1>1. CASE FailCancelled(s)
  BY <1>1 DEF FailCancelled, OnlyWithDeps, PastDeps, TypeOK
<1>2. CASE FailRetry(s)
  BY <1>2 DEF FailRetry, OnlyWithDeps, PastDeps, TypeOK
<1>3. CASE FailForGood(s)
  BY <1>3 DEF FailForGood, GiveUpSteps, Put, OnlyWithDeps, PastDeps, Held
<1>4. QED
  BY <1>1, <1>2, <1>3

\* What the dispatcher, the sweeps and the operator do to a run keeps the order.
LEMMA RunStepsWithDeps ==
  ASSUME TypeOK, NEW r \in Run, RunStep(r)
  PROVE  OnlyWithDeps
<1>1. CASE DispatchRun(r)
  BY <1>1 DEF DispatchRun, OnlyWithDeps, DepsSucceeded, PastDeps, Held
<1>2. CASE DeadLetterRun(r) \/ ExpireRunDeadline(r)
  BY <1>2 DEF ExpireRunDeadline, DeadLetterRun, GiveUpSteps, Put, OnlyWithDeps, PastDeps, Held
<1>3. CASE CancelRun(r) \/ PauseRunForApproval(r)
  BY <1>3 DEF CancelRun, PauseRunForApproval, Put, OnlyWithDeps, PastDeps, Held
<1>4. CASE RetryRun(r) \/ ResumeRunWithAuthority(r)
  BY <1>4 DEF RetryRun, ResumeRunWithAuthority, ReadyOrBlocked, OnlyWithDeps, PastDeps, Held
<1>5. QED
  BY <1>1, <1>2, <1>3, <1>4 DEF RunStep

\* Claims, the lease sweep and the source refetch keep the order.
LEMMA QueueStepsWithDeps ==
  ASSUME TypeOK, NEW s \in Step, QueueStep(s)
  PROVE  OnlyWithDeps
<1>1. CASE ClaimStep(s)
  BY <1>1 DEF ClaimStep, Claimable, Promoted, OnlyWithDeps, PastDeps
<1>2. CASE FailExpiredLease(s, lease[s].token)
  BY <1>2, FailureWithDeps DEF FailExpiredLease
<1>3. CASE DeadLetterRun(RunOf[s])
  BY <1>3 DEF DeadLetterRun, GiveUpSteps, Put, OnlyWithDeps, PastDeps, Held
<1>4. CASE ResumeSourceRefetchStep(s)
  BY <1>4 DEF ResumeSourceRefetchStep, ReadyOrBlocked, OnlyWithDeps, PastDeps, TypeOK, Held
<1>5. CASE DeferSourceRefetch(s)
  BY <1>5 DEF DeferSourceRefetch, GiveUpSteps, Put, OnlyWithDeps, PastDeps, Held
<1>6. QED
  BY <1>1, <1>2, <1>3, <1>4, <1>5 DEF QueueStep, RecoverExpiredLease

\* What a worker does keeps the order: a completion unblocks a step only when
\* the last of its dependencies has succeeded.
LEMMA WorkersWithDeps ==
  ASSUME TypeOK, NEW s \in Step, NEW t \in Token, WorkerStep(s, t)
  PROVE  OnlyWithDeps
<1>1. CASE StartStep(s, t) \/ Heartbeat(s, t)
  BY <1>1 DEF StartStep, Heartbeat, HoldsLease, OnlyWithDeps, PastDeps, TypeOK
<1>2. CASE CompleteStep(s, t)
  <2> DEFINE done == [stepState EXCEPT ![s] = "succeeded"]
  <2>1. done \in [Step -> StepStates]
    BY StateNames DEF TypeOK
  <2>2. \A x \in Step : done[x] \in PastDeps => stepState[x] \in PastDeps
    BY <1>2 DEF CompleteStep, HoldsLease, PastDeps, TypeOK
  <2>3. stepState' = done \/ stepState' = Unblocked(RunOf[s], done)
    BY <1>2 DEF CompleteStep
  <2>4. \A x \in Step : stepState'[x] = "succeeded" <=> done[x] = "succeeded"
    BY <1>2, CompletionSucceedsAlone DEF TypeOK
  <2> HIDE DEF done
  <2>5. ASSUME NEW x \in Step, DepsSucceeded(x, done) PROVE DepsSucceeded(x, stepState')
    BY <2>4, <2>5, QueueAssumption DEF DepsSucceeded
  <2>6. \A x \in Step : Unblocked(RunOf[s], done)[x] = done[x] \/ DepsSucceeded(x, done)
    BY <2>1, UnblockedType, ConstantTypes
  <2>7. QED
    BY <2>2, <2>3, <2>5, <2>6 DEF OnlyWithDeps
<1>3. CASE \E retryable \in BOOLEAN : FailStep(s, t, retryable)
  BY <1>3, FailureWithDeps DEF FailStep, HoldsLease
<1>4. CASE RecoverTimedOutClaim(s, t)
  BY <1>4, FailureWithDeps DEF RecoverTimedOutClaim, FailExpiredLease
<1>5. CASE RequireSourceRefetch(s, t)
  BY <1>5 DEF RequireSourceRefetch, HoldsLease, OnlyWithDeps, PastDeps, TypeOK
<1>6. QED
  BY <1>1, <1>2, <1>3, <1>4, <1>5 DEF WorkerStep

\* Every step keeps the order of the dependencies, since no success is lost.
LEMMA DependenciesStep ==
  ASSUME TypeOK, RunsBeforeSteps, DependenciesFirst, [Next]_vars
  PROVE  DependenciesFirst'
<1>1. \A x \in Step : stepState[x] = "succeeded" => stepState'[x] = "succeeded"
  BY OnlyCompletionSucceeds, CompletionSucceedsAlone DEF SuccessUnmoved
<1>2. OnlyWithDeps
  <2>1. CASE Tick \/ ClaimNothing \/ UNCHANGED vars
    BY <2>1 DEF Tick, ClaimNothing, Promoted, vars, runVars, stepVars, OnlyWithDeps, PastDeps
  <2>2. QED
    BY <2>1, RunStepsWithDeps, QueueStepsWithDeps, WorkersWithDeps DEF Next
<1>3. \A x \in Step : DepsSucceeded(x, stepState) => DepsSucceeded(x, stepState')
  BY <1>1, QueueAssumption DEF DepsSucceeded
<1>4. \A x \in Step : stepState'[x] \in PastDeps => DepsSucceeded(x, stepState')
  BY <1>2, <1>3 DEF OnlyWithDeps, DependenciesFirst, PastDeps
<1>5. QED
  BY <1>4 DEF DependenciesFirst, PastDeps, DepsSucceeded

\* A step past its dependencies has every one succeeded, through retries of the
\* run, pauses, refetches and recovered leases.
THEOREM DependenciesRespected == Spec => []DependenciesFirst
<1>1. Init => DependenciesFirst
  BY DEF Init, DependenciesFirst, Held
<1>2. AttemptsInv /\ DependenciesFirst /\ [Next]_vars => DependenciesFirst'
  BY DependenciesStep DEF AttemptsInv, LeaseInv
<1>3. QED
  BY <1>1, <1>2, AttemptsAlways, PTL DEF Spec

-----------------------------------------------------------------------------
(* Runs: what has ended is quiet, what waits for approval is shut, what is   *)
(* live can move                                                             *)

\* A run and its steps are written together.
RowsTogether(r) == \A s \in StepsOf(r) : stepState[s] = "none" <=> runState[r] = "none"

\* A run that succeeded or was given up has no unfinished step.
EndedWhole(r) ==
  /\ runState[r] \in {"succeeded", "dead_letter"} =>
       \A s \in StepsOf(r) : stepState[s] \in StepTerminal
  /\ runState[r] = "succeeded" => \A s \in StepsOf(r) : stepState[s] = "succeeded"
  /\ runState[r] = "cancelled" => cancelRequested[r]

\* While one step of r waits for approval, the run and all its siblings do.
GateShut(r) ==
  \A s \in StepsOf(r) : stepState[s] = "waiting_approval" =>
    /\ runState[r] = "waiting"
    /\ \A x \in StepsOf(r) : stepState[x] \in StepTerminal \cup {"waiting_approval"}

Live(r) == runState[r] \in RunActive /\ ~cancelRequested[r]

\* Of a live run no step was given up, and those that wait for others have to.
LiveOpen(r) ==
  Live(r) => \A s \in StepsOf(r) :
               /\ stepState[s] \in Held \cup Parked \cup {"succeeded"}
               /\ stepState[s] = "blocked" => ~DepsSucceeded(s, stepState)

\* A run that is live, or that retryRun could revive, has a step left to do.
Unended(r) ==
  runState[r] \in RunActive \cup {"dead_letter"} /\ ~cancelRequested[r]
    => \E s \in StepsOf(r) : stepState[s] # "succeeded"

RunWhole(r) == RowsTogether(r) /\ EndedWhole(r) /\ GateShut(r) /\ LiveOpen(r) /\ Unended(r)

\* A step that leaves r alone, but for retries that have come due.
LeavesAlone(r) ==
  /\ runState'[r] = runState[r]
  /\ cancelRequested'[r] = cancelRequested[r]
  /\ \A s \in StepsOf(r) : \/ stepState'[s] = stepState[s]
                           \/ stepState[s] = "waiting_retry" /\ stepState'[s] = "ready"

\* The dependencies of a step are steps of its run, so what another run does
\* leaves them as they are.
LEMMA SameDeps ==
  ASSUME NEW r \in Run, NEW s \in StepsOf(r),
         \A x \in StepsOf(r) : stepState'[x] = "succeeded" <=> stepState[x] = "succeeded"
  PROVE  DepsSucceeded(s, stepState') <=> DepsSucceeded(s, stepState)
  BY QueueAssumption DEF DepsSucceeded, StepsOf

\* A run that a step leaves alone stays whole.
LEMMA AloneStaysWhole ==
  ASSUME NEW r \in Run, RunWhole(r), LeavesAlone(r)
  PROVE  RunWhole(r)'
<1> USE DEF LeavesAlone, RunWhole
<1>1. \A x \in StepsOf(r) : stepState'[x] = "succeeded" <=> stepState[x] = "succeeded"
  OBVIOUS
<1>2. RowsTogether(r)'
  BY DEF RowsTogether, StepsOf
<1>3. EndedWhole(r)'
  BY DEF EndedWhole, StepsOf, StepTerminal
<1>4. GateShut(r)'
  BY DEF GateShut, StepsOf, StepTerminal
<1>5. LiveOpen(r)'
  <2>1. \A s \in StepsOf(r) : DepsSucceeded(s, stepState') <=> DepsSucceeded(s, stepState)
    BY <1>1, SameDeps
  <2>2. QED
    BY <2>1 DEF LiveOpen, Live, DepsSucceeded, StepsOf, Held, Parked
<1>6. Unended(r)'
  BY <1>1 DEF Unended, StepsOf
<1>7. QED
  BY <1>2, <1>3, <1>4, <1>5, <1>6

\* A step that acts on r, keeps it whole and leaves every other run alone.
ActsOn(r) == RunWhole(r)' /\ \A q \in Run : q # r => LeavesAlone(q)

\* A step of r tells nothing of another run.
LEMMA OtherRuns == ASSUME NEW r \in Run, NEW q \in Run, q # r
                   PROVE  \A s \in StepsOf(q) : s \in Step /\ RunOf[s] # r /\ s \notin StepsOf(r)
  BY DEF StepsOf

\* Sweeping a run that was not yet ended, or was, keeps it whole.
LEMMA SweepActs ==
  ASSUME TypeOK, NEW r \in Run, RunWhole(r), runState[r] # "none", GiveUpSteps(r),
         runState' = [runState EXCEPT ![r] = IF @ \in RunActive THEN "dead_letter" ELSE @],
         cancelRequested' = cancelRequested
  PROVE  ActsOn(r)
<1>1. \A s \in Step : stepState'[s] = IF s \in Unfinished(r) THEN "dead_letter" ELSE stepState[s]
  BY GiveUpType
<1>2. \A q \in Run : q # r => LeavesAlone(q)
  BY <1>1, OtherRuns DEF LeavesAlone, Unfinished, TypeOK
<1>3. \A s \in StepsOf(r) : stepState'[s] \in StepTerminal
                            /\ (stepState'[s] = "succeeded" <=> stepState[s] = "succeeded")
  BY <1>1 DEF RunWhole, RowsTogether, Unfinished, StepsOf, TypeOK, StepStates, StepTerminal, Held,
              Parked
<1>4. runState'[r] = IF runState[r] \in RunActive THEN "dead_letter" ELSE runState[r]
  BY DEF TypeOK
<1>5. RowsTogether(r)' /\ GateShut(r)'
  BY <1>3, <1>4 DEF RowsTogether, GateShut, StepsOf, StepTerminal
<1>6. EndedWhole(r)'
  BY <1>3, <1>4 DEF RunWhole, EndedWhole, StepsOf, RunActive
<1>7. LiveOpen(r)' /\ Unended(r)'
  BY <1>3, <1>4 DEF RunWhole, LiveOpen, Live, Unended, StepsOf, RunActive
<1>8. QED
  BY <1>2, <1>5, <1>6, <1>7 DEF ActsOn, RunWhole

\* Putting steps of a run back, ready or blocked by what they depend on, keeps
\* the run whole when none of its steps is left waiting for approval.
LEMMA PutBackActs ==
  ASSUME TypeOK, NEW r \in Run, RunWhole(r), NEW S \in SUBSET StepsOf(r),
         \A s \in S : stepState[s] \notin {"none", "succeeded"},
         \A s \in StepsOf(r) \ S : stepState[s] # "waiting_approval",
         stepState' = [s \in Step |-> IF s \in S THEN ReadyOrBlocked(s, stepState)
                                      ELSE stepState[s]],
         NEW st \in RunStates \ {"none"}, runState' = [runState EXCEPT ![r] = st],
         cancelRequested' = cancelRequested,
         st \notin {"succeeded", "dead_letter"},
         st = "cancelled" => cancelRequested[r],
         runState[r] # "none" /\ runState[r] # "succeeded",
         st \in RunActive /\ ~cancelRequested[r]
           => \/ runState[r] \in RunActive
              \/ \E s \in StepsOf(r) : stepState[s] # "succeeded"
                 /\ \A x \in StepsOf(r) \ S : stepState[x] = "succeeded"
  PROVE  ActsOn(r)
<1>1. \A s \in StepsOf(r) : s \in Step
  BY DEF StepsOf
<1>2. \A s \in StepsOf(r) :
        stepState'[s] = IF s \in S THEN IF DepsSucceeded(s, stepState) THEN "ready" ELSE "blocked"
                        ELSE stepState[s]
  BY <1>1 DEF ReadyOrBlocked
<1>3. \A s \in StepsOf(r) : stepState'[s] = "succeeded" <=> stepState[s] = "succeeded"
  BY <1>2
<1>4. \A s \in StepsOf(r) : DepsSucceeded(s, stepState') <=> DepsSucceeded(s, stepState)
  BY <1>3, SameDeps
<1>5. runState'[r] = st /\ \A q \in Run : q # r => runState'[q] = runState[q]
  BY DEF TypeOK
<1>6. \A q \in Run : q # r => LeavesAlone(q)
  BY <1>5, OtherRuns DEF LeavesAlone
<1>7. RowsTogether(r)'
  BY <1>2, <1>5 DEF RunWhole, RowsTogether, StepsOf
<1>8. EndedWhole(r)' /\ GateShut(r)'
  BY <1>2, <1>5 DEF EndedWhole, GateShut, StepsOf
<1>9. LiveOpen(r)'
  <2>1. SUFFICES ASSUME st \in RunActive, ~cancelRequested[r], NEW s \in StepsOf(r)
        PROVE  /\ stepState'[s] \in Held \cup Parked \cup {"succeeded"}
               /\ stepState'[s] = "blocked" => ~DepsSucceeded(s, stepState')
    BY <1>5 DEF LiveOpen, Live, DepsSucceeded, StepsOf
  <2>2. CASE s \in S
    BY <1>2, <1>4, <2>2 DEF Parked
  <2>3. CASE s \notin S
    BY <1>2, <1>4, <2>1, <2>3 DEF RunWhole, LiveOpen, Live
  <2>4. QED
    BY <2>2, <2>3
<1>10. Unended(r)'
  BY <1>3, <1>5 DEF RunWhole, Unended, StepsOf
<1>11. QED
  BY <1>6, <1>7, <1>8, <1>9, <1>10 DEF ActsOn, RunWhole

\* Dispatching writes a whole run.
LEMMA DispatchActs ==
  ASSUME TypeOK, NEW r \in Run, RunWhole(r), DispatchRun(r)
  PROVE  ActsOn(r)
<1>1. \A s \in StepsOf(r) : s \in Step /\ stepState'[s] = IF Deps[s] = {} THEN "ready" ELSE "blocked"
  BY DEF DispatchRun, StepsOf
<1>2. runState'[r] = "pending" /\ \A q \in Run : q # r => runState'[q] = runState[q]
  BY DEF DispatchRun, TypeOK
<1>3. \A q \in Run : q # r => LeavesAlone(q)
  BY <1>2, OtherRuns DEF DispatchRun, LeavesAlone
<1>4. RowsTogether(r)' /\ EndedWhole(r)' /\ GateShut(r)'
  BY <1>1, <1>2 DEF RowsTogether, EndedWhole, GateShut, StepsOf
<1>5. LiveOpen(r)'
  <2>1. ASSUME NEW s \in StepsOf(r), stepState'[s] = "blocked" PROVE ~DepsSucceeded(s, stepState')
    <3>1. PICK d \in Deps[s] : d \in StepsOf(r)
      BY <1>1, <2>1, QueueAssumption DEF StepsOf
    <3>2. QED
      BY <1>1, <3>1 DEF DepsSucceeded
  <2>2. QED
    BY <1>1, <2>1 DEF LiveOpen, Live, DepsSucceeded, StepsOf, Parked
<1>6. Unended(r)'
  <2>1. PICK s \in Step : s \in StepsOf(r)
    BY GraphAssumption DEF StepsOf
  <2>2. QED
    BY <1>1, <2>1 DEF Unended, StepsOf
<1>7. QED
  BY <1>3, <1>4, <1>5, <1>6 DEF ActsOn, RunWhole

\* A claim, a start, a heartbeat, a retry or a refetch moves one step within
\* the work in progress, and keeps its run, which stays active, whole.
LEMMA WorkActs ==
  ASSUME TypeOK, NEW s \in Step, RunWhole(RunOf[s]),
         runState[RunOf[s]] \in RunActive,
         stepState[s] \in Held \cup {"ready", "waiting_retry"},
         stepState'[s] \in Held \cup {"waiting_retry", "source_refetch_required"},
         \A x \in Step : x # s => \/ stepState'[x] = stepState[x]
                                  \/ stepState[x] = "waiting_retry" /\ stepState'[x] = "ready",
         NEW st \in RunActive, runState' = [runState EXCEPT ![RunOf[s]] = st],
         cancelRequested' = cancelRequested
  PROVE  ActsOn(RunOf[s])
<1> DEFINE r == RunOf[s]
<1>1. r \in Run /\ s \in StepsOf(r) /\ \A x \in StepsOf(r) : x \in Step
  BY ConstantTypes DEF StepsOf
<1>2. runState'[r] = st /\ \A q \in Run : q # r => runState'[q] = runState[q]
  BY <1>1 DEF TypeOK
<1> HIDE DEF r
<1>3. \A q \in Run : q # r => LeavesAlone(q)
  BY <1>1, <1>2, OtherRuns DEF LeavesAlone
<1>4. \A x \in StepsOf(r) : stepState'[x] = "succeeded" <=> stepState[x] = "succeeded"
  BY <1>1 DEF Held
<1>5. \A x \in StepsOf(r) : stepState[x] # "waiting_approval"
  BY <1>1 DEF RunWhole, GateShut, StepTerminal, Held, r
<1>6. \A x \in StepsOf(r) : stepState'[x] # "waiting_approval" /\ stepState'[x] # "none"
  BY <1>1, <1>5 DEF RunWhole, RowsTogether, Held, RunActive, r
<1>7. RowsTogether(r)' /\ GateShut(r)' /\ EndedWhole(r)'
  BY <1>2, <1>6 DEF RowsTogether, GateShut, EndedWhole, StepsOf, RunActive
<1>8. LiveOpen(r)'
  <2>1. \A x \in StepsOf(r) : DepsSucceeded(x, stepState') <=> DepsSucceeded(x, stepState)
    BY <1>1, <1>4, SameDeps
  <2>2. SUFFICES ASSUME ~cancelRequested[r], NEW x \in StepsOf(r)
        PROVE  /\ stepState'[x] \in Held \cup Parked \cup {"succeeded"}
               /\ stepState'[x] = "blocked" => ~DepsSucceeded(x, stepState')
    BY DEF LiveOpen, Live, DepsSucceeded, StepsOf
  <2>3. CASE x = s
    BY <2>3 DEF Held, Parked
  <2>4. CASE x # s
    <3>1. /\ stepState[x] \in Held \cup Parked \cup {"succeeded"}
          /\ stepState[x] = "blocked" => ~DepsSucceeded(x, stepState)
      BY <2>2 DEF RunWhole, LiveOpen, Live, r
    <3>2. QED
      BY <1>1, <2>1, <2>4, <3>1 DEF Parked
  <2>5. QED
    BY <2>3, <2>4
<1>9. Unended(r)'
  BY <1>1, <1>4 DEF RunWhole, Unended, StepsOf, r
<1>10. QED
  BY <1>3, <1>7, <1>8, <1>9 DEF ActsOn, RunWhole, r

\* Ending one step of a cancelled run, and the run with the last held step.
LEMMA CancelledStepActs ==
  ASSUME TypeOK, NEW s \in Step, RunWhole(RunOf[s]), stepState[s] \in Held,
         runState[RunOf[s]] \in RunActive, cancelRequested[RunOf[s]],
         NEW v \in {"cancelled", "succeeded"},
         stepState' = [stepState EXCEPT ![s] = v],
         CancelWhenQuiet(RunOf[s], stepState'),
         cancelRequested' = cancelRequested
  PROVE  ActsOn(RunOf[s])
<1> DEFINE r == RunOf[s]
<1>1. r \in Run /\ s \in StepsOf(r) /\ \A x \in StepsOf(r) : x \in Step
  BY ConstantTypes DEF StepsOf
<1>2. \A x \in Step : stepState'[x] = IF x = s THEN v ELSE stepState[x]
  BY DEF TypeOK
<1>3. runState'[r] \in RunActive \cup {"cancelled"} /\ \A q \in Run : q # r => runState'[q] = runState[q]
  BY <1>1, CancelWhenQuietType
<1> HIDE DEF r
<1>4. \A q \in Run : q # r => LeavesAlone(q)
  BY <1>1, <1>2, <1>3, OtherRuns DEF LeavesAlone
<1>5. \A x \in StepsOf(r) : stepState[x] # "waiting_approval"
  BY <1>1 DEF RunWhole, GateShut, StepTerminal, Held, r
<1>6. \A x \in StepsOf(r) : stepState'[x] # "waiting_approval" /\ stepState'[x] # "none"
  BY <1>1, <1>2, <1>5 DEF RunWhole, RowsTogether, RunActive, r
<1>7. RowsTogether(r)' /\ GateShut(r)' /\ EndedWhole(r)'
  BY <1>3, <1>6 DEF RowsTogether, GateShut, EndedWhole, StepsOf, RunActive, r
<1>8. LiveOpen(r)' /\ Unended(r)'
  BY DEF LiveOpen, Live, Unended, r
<1>9. QED
  BY <1>4, <1>7, <1>8 DEF ActsOn, RunWhole, r

\* A completion unblocks what waited for it and leaves its run whole: ended if
\* it was the last step, live otherwise.
LEMMA CompletionActs ==
  ASSUME TypeOK, NEW s \in Step, NEW t \in Token, RunWhole(RunOf[s]), CompleteStep(s, t),
         runState[RunOf[s]] \in RunActive
  PROVE  ActsOn(RunOf[s])
<1> DEFINE r == RunOf[s]
           done == [stepState EXCEPT ![s] = "succeeded"]
<1>1. r \in Run /\ s \in StepsOf(r) /\ \A x \in StepsOf(r) : x \in Step
  BY ConstantTypes DEF StepsOf
<1>2. stepState[s] \in Held /\ cancelRequested' = cancelRequested
  BY DEF CompleteStep, HoldsLease
<1>3. CASE cancelRequested[r]
  BY <1>2, <1>3, CancelledStepActs DEF CompleteStep
<1>4. CASE ~cancelRequested[r]
  <2>1. done \in [Step -> StepStates]
        /\ \A x \in Step : done[x] = IF x = s THEN "succeeded" ELSE stepState[x]
    BY StateNames DEF TypeOK
  <2>2. stepState' = Unblocked(r, done)
        /\ runState' = [runState EXCEPT ![r] = RefreshedRunState(r, stepState')]
    BY <1>4 DEF CompleteStep
  <2>3. \A x \in Step : stepState'[x] = "succeeded" <=> done[x] = "succeeded"
    BY <2>1, CompletionSucceedsAlone
  <2> HIDE DEF done, r
  <2>4. \A x \in Step : stepState'[x] = IF x \in StepsOf(r) /\ done[x] = "blocked" /\ DepsSucceeded(x, done)
                                        THEN "ready" ELSE done[x]
    BY <1>1, <2>1, <2>2, UnblockedType
  <2>5. runState'[r] = RefreshedRunState(r, stepState')
        /\ \A q \in Run : q # r => runState'[q] = runState[q]
    BY <1>1, <2>2 DEF TypeOK
  <2>6. \A q \in Run : q # r => LeavesAlone(q)
    BY <1>1, <1>2, <2>1, <2>4, <2>5, OtherRuns DEF LeavesAlone
  <2>7. \A x \in StepsOf(r) : stepState[x] \notin {"none", "waiting_approval"}
    BY <1>1, <1>2 DEF RunWhole, RowsTogether, GateShut, StepTerminal, Held, RunActive, r
  <2>8. \A x \in StepsOf(r) : stepState'[x] \notin {"none", "waiting_approval"}
    BY <1>1, <2>1, <2>4, <2>7
  <2>9. RowsTogether(r)' /\ GateShut(r)'
    BY <2>5, <2>8 DEF RefreshedRunState, RowsTogether, GateShut, StepsOf
  <2>10. EndedWhole(r)'
    BY <2>5 DEF EndedWhole, StepsOf, StepTerminal, RefreshedRunState
  <2>11. LiveOpen(r)'
    <3>1. \A x \in StepsOf(r) : DepsSucceeded(x, stepState') => DepsSucceeded(x, done)
      BY <2>3, QueueAssumption DEF DepsSucceeded, StepsOf
    <3>2. \A x \in StepsOf(r) : done[x] \in Held \cup Parked \cup {"succeeded"}
      BY <1>1, <1>4, <2>1 DEF RunWhole, LiveOpen, Live, r
    <3>3. \A x \in StepsOf(r) :
            /\ stepState'[x] \in Held \cup Parked \cup {"succeeded"}
            /\ stepState'[x] = "blocked" => ~DepsSucceeded(x, stepState')
      BY <1>1, <2>4, <3>1, <3>2 DEF Parked
    <3>4. QED
      BY <3>3 DEF LiveOpen, Live, DepsSucceeded, StepsOf
  <2>12. Unended(r)'
    BY <2>5 DEF Unended, StepsOf, RefreshedRunState, RunActive
  <2>13. QED
    BY <2>6, <2>9, <2>10, <2>11, <2>12 DEF ActsOn, RunWhole, r
<1>5. QED
  BY <1>3, <1>4

\* The three outcomes of a failure keep the run of the failed step whole.
LEMMA FailureActs ==
  ASSUME TypeOK, NEW s \in Step, RunWhole(RunOf[s]), stepState[s] \in Held,
         runState[RunOf[s]] \in RunActive, cancelRequested' = cancelRequested,
         \/ cancelRequested[RunOf[s]] /\ FailCancelled(s)
         \/ FailRetry(s)
         \/ FailForGood(s)
  PROVE  ActsOn(RunOf[s])
<1>1. CASE cancelRequested[RunOf[s]] /\ FailCancelled(s)
  BY <1>1, CancelledStepActs DEF FailCancelled
<1>2. CASE FailRetry(s)
  BY <1>2, WorkActs DEF FailRetry, TypeOK, RunActive
<1>3. CASE FailForGood(s)
  <2>1. runState' = [runState EXCEPT ![RunOf[s]] = IF @ \in RunActive THEN "dead_letter" ELSE @]
    BY <1>3 DEF FailForGood
  <2>2. QED
    BY <1>3, <2>1, SweepActs, ConstantTypes DEF FailForGood, RunActive
<1>4. QED
  BY <1>1, <1>2, <1>3

\* Cancelling a run ends its parked steps, and the run if nothing is held.
LEMMA CancelActs ==
  ASSUME TypeOK, NEW r \in Run, RunWhole(r), CancelRun(r)
  PROVE  ActsOn(r)
<1> DEFINE swept == {s \in StepsOf(r) : stepState[s] \in Parked}
<1>1. \A s \in Step : stepState'[s] = IF s \in swept THEN "cancelled" ELSE stepState[s]
  BY DEF CancelRun, Put
<1>2. CancelWhenQuiet(r, stepState')
  BY DEF CancelRun
<1>3. runState[r] \in RunActive /\ cancelRequested'[r]
      /\ \A q \in Run : q # r => cancelRequested'[q] = cancelRequested[q]
  BY DEF CancelRun, TypeOK
<1>4. runState'[r] \in RunActive \cup {"cancelled"} /\ \A q \in Run : q # r => runState'[q] = runState[q]
  BY <1>2, <1>3, CancelWhenQuietType
<1>5. \A q \in Run : q # r => LeavesAlone(q)
  BY <1>1, <1>3, <1>4, OtherRuns DEF LeavesAlone
<1>6. \A s \in StepsOf(r) : stepState'[s] \notin {"none", "waiting_approval"}
  BY <1>1, <1>3 DEF RunWhole, RowsTogether, StepsOf, Parked, RunActive
<1>7. RowsTogether(r)' /\ GateShut(r)' /\ EndedWhole(r)'
  BY <1>3, <1>4, <1>6 DEF RowsTogether, GateShut, EndedWhole, StepsOf, RunActive
<1>8. LiveOpen(r)' /\ Unended(r)'
  BY <1>3 DEF LiveOpen, Live, Unended
<1>9. QED
  BY <1>5, <1>7, <1>8 DEF ActsOn, RunWhole

\* Pausing a run parks every unfinished step of it for approval.
LEMMA PauseActs ==
  ASSUME TypeOK, NEW r \in Run, RunWhole(r), PauseRunForApproval(r)
  PROVE  ActsOn(r)
<1>1. \A s \in Step : stepState'[s] = IF s \in Unfinished(r) THEN "waiting_approval" ELSE stepState[s]
  BY DEF PauseRunForApproval, Put
<1>2. /\ runState[r] \in RunActive /\ runState'[r] = "waiting" /\ cancelRequested' = cancelRequested
      /\ \A q \in Run : q # r => runState'[q] = runState[q]
  BY DEF PauseRunForApproval, TypeOK
<1>3. \A q \in Run : q # r => LeavesAlone(q)
  BY <1>1, <1>2, OtherRuns DEF LeavesAlone, Unfinished
<1>4. \A s \in StepsOf(r) : stepState'[s] \in StepTerminal \cup {"waiting_approval"}
  BY <1>1, <1>2 DEF RunWhole, RowsTogether, Unfinished, StepsOf, TypeOK, StepStates, StepTerminal,
                    Held, Parked, RunActive
<1>5. \A s \in StepsOf(r) : stepState'[s] = "succeeded" <=> stepState[s] = "succeeded"
  BY <1>1 DEF Unfinished, Held, Parked, StepsOf
<1>6. RowsTogether(r)' /\ GateShut(r)' /\ EndedWhole(r)'
  BY <1>2, <1>4 DEF RowsTogether, GateShut, EndedWhole, StepsOf, StepTerminal
<1>7. LiveOpen(r)'
  <2>1. ~cancelRequested[r] => \A s \in StepsOf(r) : stepState'[s] \in {"succeeded", "waiting_approval"}
    BY <1>1, <1>2 DEF RunWhole, LiveOpen, Live, Unfinished, StepsOf
  <2>2. QED
    BY <1>2, <2>1 DEF LiveOpen, Live, StepsOf, Parked
<1>8. Unended(r)'
  BY <1>2, <1>5 DEF RunWhole, Unended, StepsOf
<1>9. QED
  BY <1>3, <1>6, <1>7, <1>8 DEF ActsOn, RunWhole

\* Reviving a dead-lettered run puts back every step that has not succeeded.
LEMMA RetryActs ==
  ASSUME TypeOK, NEW r \in Run, RunWhole(r), RetryRun(r)
  PROVE  ActsOn(r)
<1> DEFINE S == {s \in StepsOf(r) : stepState[s] # "succeeded"}
<1>1. /\ runState[r] = "dead_letter" /\ ~cancelRequested[r] /\ cancelRequested' = cancelRequested
      /\ runState' = [runState EXCEPT ![r] = "pending"]
      /\ stepState' = [s \in Step |-> IF s \in S THEN ReadyOrBlocked(s, stepState) ELSE stepState[s]]
  BY DEF RetryRun
<1>2. \A s \in S : stepState[s] \notin {"none", "succeeded"}
  BY <1>1 DEF RunWhole, RowsTogether
<1>3. \E s \in StepsOf(r) : stepState[s] # "succeeded"
  BY <1>1 DEF RunWhole, Unended
<1>4. "pending" \in RunStates \ {"none"}
  BY DEF RunStates, RunActive
<1>5. S \in SUBSET StepsOf(r) /\ \A s \in StepsOf(r) \ S : stepState[s] = "succeeded"
  OBVIOUS
<1> HIDE DEF S
<1>6. QED
  BY <1>1, <1>2, <1>3, <1>4, <1>5, PutBackActs

\* Resuming a paused run puts back every step that waits for approval.
LEMMA ResumeActs ==
  ASSUME TypeOK, NEW r \in Run, RunWhole(r), ResumeRunWithAuthority(r)
  PROVE  ActsOn(r)
<1> DEFINE S == {s \in StepsOf(r) : stepState[s] = "waiting_approval"}
<1>1. /\ runState[r] = "waiting" /\ cancelRequested' = cancelRequested
      /\ runState' = [runState EXCEPT ![r] = "running"]
      /\ stepState' = [s \in Step |-> IF s \in S THEN ReadyOrBlocked(s, stepState) ELSE stepState[s]]
  BY DEF ResumeRunWithAuthority
<1>2. "running" \in RunStates \ {"none"} /\ runState[r] \in RunActive
  BY <1>1 DEF RunStates, RunActive
<1>3. /\ S \in SUBSET StepsOf(r)
      /\ \A s \in S : stepState[s] \notin {"none", "succeeded"}
      /\ \A s \in StepsOf(r) \ S : stepState[s] # "waiting_approval"
  OBVIOUS
<1> HIDE DEF S
<1>4. QED
  BY <1>1, <1>2, <1>3, PutBackActs

\* A source that was fetched again puts its step back.
LEMMA RefetchActs ==
  ASSUME TypeOK, NEW s \in Step, RunWhole(RunOf[s]), ResumeSourceRefetchStep(s)
  PROVE  ActsOn(RunOf[s])
<1> DEFINE r == RunOf[s]
           st == IF runState[r] = "waiting" THEN "running" ELSE runState[r]
<1>1. r \in Run /\ s \in StepsOf(r) /\ {s} \in SUBSET StepsOf(r) /\ runState[r] \in RunStates
  BY ConstantTypes DEF StepsOf, TypeOK
<1>2. /\ stepState[s] = "source_refetch_required" /\ cancelRequested' = cancelRequested
      /\ runState' = [runState EXCEPT ![r] = st]
      /\ stepState' = [x \in Step |-> IF x \in {s} THEN ReadyOrBlocked(x, stepState) ELSE stepState[x]]
  BY DEF ResumeSourceRefetchStep, TypeOK
<1>3. runState[r] \notin {"none", "succeeded", "dead_letter"} /\ (runState[r] = "cancelled" => cancelRequested[r])
  BY <1>1, <1>2 DEF RunWhole, RowsTogether, EndedWhole, StepTerminal
<1>4. \A x \in StepsOf(r) : stepState[x] # "waiting_approval"
  BY <1>1, <1>2 DEF RunWhole, GateShut, StepTerminal
<1>5. /\ st \in RunStates \ {"none"} /\ st \notin {"succeeded", "dead_letter"}
      /\ st = "cancelled" => cancelRequested[r]
      /\ st \in RunActive => runState[r] \in RunActive
  BY <1>1, <1>3 DEF RunStates, RunActive
<1>6. \A x \in {s} : stepState[x] \notin {"none", "succeeded"}
  BY <1>2
<1> HIDE DEF st, r
<1>7. ActsOn(r)
  BY <1>1, <1>2, <1>3, <1>4, <1>5, <1>6, PutBackActs DEF r
<1>8. QED
  BY <1>7 DEF r

\* A refetch put off changes no run, until it is given up like any failure.
LEMMA DeferActs ==
  ASSUME TypeOK, NEW s \in Step, RunWhole(RunOf[s]), DeferSourceRefetch(s)
  PROVE  ActsOn(RunOf[s]) \/ \A q \in Run : LeavesAlone(q)
<1>1. stepState[s] = "source_refetch_required" /\ cancelRequested' = cancelRequested
  BY DEF DeferSourceRefetch
<1>2. runState[RunOf[s]] # "none"
  BY <1>1, ConstantTypes DEF RunWhole, RowsTogether, StepsOf
<1>3. CASE UNCHANGED <<runState, stepState, lease>>
  BY <1>1, <1>3 DEF LeavesAlone
<1>4. CASE /\ GiveUpSteps(RunOf[s])
           /\ runState' = [runState EXCEPT ![RunOf[s]] = IF @ \in RunActive THEN "dead_letter" ELSE @]
  BY <1>1, <1>2, <1>4, SweepActs, ConstantTypes
<1>5. QED
  BY <1>3, <1>4 DEF DeferSourceRefetch

\* A claim takes one ready step of an active run, promoting what has come due.
LEMMA ClaimActs ==
  ASSUME TypeOK, NEW s \in Step, RunWhole(RunOf[s]), ClaimStep(s)
  PROVE  ActsOn(RunOf[s])
<1> DEFINE st == IF runState[RunOf[s]] \in {"pending", "waiting"} THEN "running" ELSE runState[RunOf[s]]
<1>1. runState[RunOf[s]] \in RunActive /\ stepState[s] \in Held \cup {"ready", "waiting_retry"}
  BY PromotedType DEF ClaimStep, Claimable
<1>2. stepState'[s] = "leased" /\ \A x \in Step : x # s => stepState'[x] = Promoted[x]
  BY PromotedType DEF ClaimStep
<1>3. st \in RunActive /\ runState' = [runState EXCEPT ![RunOf[s]] = st] /\ cancelRequested' = cancelRequested
  BY <1>1 DEF ClaimStep, RunActive
<1>4. stepState'[s] \in Held \cup {"waiting_retry", "source_refetch_required"}
  BY <1>2 DEF Held
<1>5. \A x \in Step : x # s => \/ stepState'[x] = stepState[x]
                               \/ stepState[x] = "waiting_retry" /\ stepState'[x] = "ready"
  BY <1>2, PromotedType
<1> HIDE DEF st
<1>6. QED
  BY <1>1, <1>3, <1>4, <1>5, WorkActs

\* What a worker does to its claim keeps the run of the claim whole.
LEMMA WorkersAct ==
  ASSUME LeaseInv, NEW s \in Step, NEW t \in Token, RunWhole(RunOf[s]), WorkerStep(s, t)
  PROVE  ActsOn(RunOf[s])
<1>1. stepState[s] \in Held
  BY DEF WorkerStep, StartStep, Heartbeat, CompleteStep, FailStep, RecoverTimedOutClaim,
         FailExpiredLease, RequireSourceRefetch, HoldsLease
<1>2. runState[RunOf[s]] \in RunActive /\ TypeOK
  BY <1>1 DEF LeaseInv, LeaseMatchesAttempt
<1>3. CASE StartStep(s, t) \/ Heartbeat(s, t)
  <2>1. /\ stepState'[s] \in Held /\ \A x \in Step : x # s => stepState'[x] = stepState[x]
        /\ cancelRequested' = cancelRequested /\ runState' = runState
    BY <1>1, <1>2, <1>3 DEF StartStep, Heartbeat, TypeOK, Held, runVars
  <2>2. runState' = [runState EXCEPT ![RunOf[s]] = runState[RunOf[s]]]
    BY <1>2, <2>1 DEF TypeOK
  <2>3. QED
    BY <1>1, <1>2, <2>1, <2>2, WorkActs
<1>4. CASE CompleteStep(s, t)
  BY <1>2, <1>4, CompletionActs
<1>5. CASE \E retryable \in BOOLEAN : FailStep(s, t, retryable)
  BY <1>1, <1>2, <1>5, FailureActs DEF FailStep
<1>6. CASE RecoverTimedOutClaim(s, t)
  BY <1>1, <1>2, <1>6, FailureActs DEF RecoverTimedOutClaim, FailExpiredLease
<1>7. CASE RequireSourceRefetch(s, t)
  <2>1. /\ stepState'[s] = "source_refetch_required"
        /\ \A x \in Step : x # s => stepState'[x] = stepState[x]
        /\ cancelRequested' = cancelRequested
        /\ runState' = [runState EXCEPT ![RunOf[s]] = "waiting"]
    BY <1>2, <1>7 DEF RequireSourceRefetch, TypeOK
  <2>2. "waiting" \in RunActive
    BY DEF RunActive
  <2>3. QED
    BY <1>1, <1>2, <2>1, <2>2, WorkActs
<1>8. QED
  BY <1>3, <1>4, <1>5, <1>6, <1>7 DEF WorkerStep

\* The sweeps, the dispatcher and the operator keep the run they act on whole.
LEMMA RunStepsAct ==
  ASSUME TypeOK, NEW r \in Run, RunWhole(r), RunStep(r)
  PROVE  ActsOn(r)
<1>1. CASE DeadLetterRun(r) \/ ExpireRunDeadline(r)
  BY <1>1, SweepActs DEF ExpireRunDeadline, DeadLetterRun
<1>2. QED
  BY <1>1, DispatchActs, CancelActs, RetryActs, PauseActs, ResumeActs DEF RunStep

\* Claims, the lease sweep and the refetch keep the run of their step whole.
LEMMA QueueStepsAct ==
  ASSUME LeaseInv, NEW s \in Step, RunWhole(RunOf[s]), QueueStep(s)
  PROVE  ActsOn(RunOf[s]) \/ \A q \in Run : LeavesAlone(q)
<1>1. TypeOK /\ RunOf[s] \in Run
  BY ConstantTypes DEF LeaseInv
<1>2. CASE FailExpiredLease(s, lease[s].token)
  BY <1>1, <1>2, FailureActs DEF FailExpiredLease, LeaseInv, LeaseMatchesAttempt
<1>3. CASE DeadLetterRun(RunOf[s])
  BY <1>1, <1>3, RunStepsAct DEF RunStep
<1>4. QED
  BY <1>1, <1>2, <1>3, ClaimActs, RefetchActs, DeferActs DEF QueueStep, RecoverExpiredLease

\* Every step keeps every run whole.
LEMMA WholeStep ==
  ASSUME LeaseInv, \A r \in Run : RunWhole(r), [Next]_vars
  PROVE  \A r \in Run : RunWhole(r)'
<1>1. CASE Tick \/ ClaimNothing \/ UNCHANGED vars
  <2>1. \A q \in Run : LeavesAlone(q)
    BY <1>1 DEF Tick, ClaimNothing, Promoted, vars, runVars, stepVars, LeavesAlone, StepsOf
  <2>2. QED
    BY <2>1, AloneStaysWhole
<1>2. CASE (\E r \in Run : ActsOn(r)) \/ \A q \in Run : LeavesAlone(q)
  BY <1>2, AloneStaysWhole DEF ActsOn
<1>3. QED
  BY <1>1, <1>2, RunStepsAct, QueueStepsAct, WorkersAct, ConstantTypes DEF Next, LeaseInv

\* The invariant of the runs: the types, the leases and every run whole.
RunsInv == LeaseInv /\ \A r \in Run : RunWhole(r)

\* The invariant of the runs holds in every reachable state.
LEMMA RunsAlways == Spec => []RunsInv
<1>1. ASSUME Init PROVE RunsInv
  <2>1. ASSUME NEW r \in Run PROVE RunWhole(r)
    <3>1. runState[r] = "none" /\ \A s \in StepsOf(r) : stepState[s] = "none"
      BY <1>1 DEF Init, StepsOf
    <3>2. QED
      BY <3>1 DEF RunWhole, RowsTogether, EndedWhole, GateShut, LiveOpen, Live, Unended, RunActive
  <2>2. QED
    BY <1>1, <2>1, LeaseInit DEF RunsInv
<1>2. RunsInv /\ [Next]_vars => RunsInv'
  BY LeaseNext, WholeStep DEF RunsInv
<1>3. QED
  BY <1>1, <1>2, PTL DEF Spec

\* No worker owns a step of a run that has ended; a run that succeeded or was
\* dead-lettered has no unfinished step, and succeeded means every step did.
THEOREM EndedRunsStayQuiet == Spec => []EndedRunsAreQuiet
<1>1. RunsInv => EndedRunsAreQuiet
  <2>1. SUFFICES ASSUME RunsInv, NEW r \in Run PROVE
          /\ runState[r] \in RunTerminal => \A s \in StepsOf(r) : stepState[s] \notin Held
          /\ EndedWhole(r)
    BY DEF EndedRunsAreQuiet, EndedWhole
  <2>2. runState[r] \in RunTerminal => \A s \in StepsOf(r) : stepState[s] \notin Held
    BY <2>1 DEF RunsInv, LeaseInv, LeaseMatchesAttempt, StepsOf, RunActive, RunTerminal
  <2>3. QED
    BY <2>1, <2>2 DEF RunsInv, RunWhole
<1>2. QED
  BY <1>1, RunsAlways, PTL

\* While one step waits for approval, its run waits and no sibling can be
\* claimed or is in a worker's hands.
THEOREM GateStaysTotal == Spec => []ApprovalGateIsTotal
<1>1. RunsInv => ApprovalGateIsTotal
  <2>1. SUFFICES ASSUME RunsInv, NEW s \in Step, stepState[s] = "waiting_approval" PROVE
          /\ runState[RunOf[s]] = "waiting"
          /\ \A x \in StepsOf(RunOf[s]) : stepState[x] \in StepTerminal \cup {"waiting_approval"}
    BY DEF ApprovalGateIsTotal
  <2>2. RunOf[s] \in Run /\ s \in StepsOf(RunOf[s])
    BY ConstantTypes DEF StepsOf
  <2>3. QED
    BY <2>1, <2>2 DEF RunsInv, RunWhole, GateShut
<1>2. QED
  BY <1>1, RunsAlways, PTL

\* An active run that nobody cancelled can always move.  Among its steps that
\* have not succeeded there is one, the dependencies being acyclic, that waits
\* for none of the others; it is therefore not blocked.
THEOREM RunsAreNotStranded == Spec => []NoRunIsStranded
<1>1. RunsInv => NoRunIsStranded
  <2>1. SUFFICES ASSUME RunsInv, NEW r \in Run, runState[r] \in RunActive, ~cancelRequested[r]
                 PROVE  \E s \in StepsOf(r) : stepState[s] \in Held \cup (Parked \ {"blocked"})
    BY DEF NoRunIsStranded
  <2> DEFINE left == {s \in StepsOf(r) : stepState[s] # "succeeded"}
  <2>2. left \in SUBSET Step /\ left # {}
    BY <2>1 DEF RunsInv, RunWhole, Unended, StepsOf
  <2>3. PICK s \in left : Deps[s] \cap left = {}
    BY <2>2, GraphAssumption
  <2>4. DepsSucceeded(s, stepState)
    BY <2>3, QueueAssumption DEF DepsSucceeded, StepsOf
  <2>5. QED
    BY <2>1, <2>3, <2>4 DEF RunsInv, RunWhole, LiveOpen, Live
<1>2. QED
  BY <1>1, RunsAlways, PTL


-----------------------------------------------------------------------------
(* The gateway implements the abstract queue *)

\* A settlement the queue rejected is one of two steps of the queue.
LEMMA RejectedIsQueueStep ==
  ASSUME NEW s \in Step, NEW t \in Token, HandleRejected(s, t)
  PROVE  Next
  BY ConstantTypes DEF HandleRejected, Next, WorkerStep, RunStep

\* The steps of a tick do to the queue what one queue transaction does.
LEMMA TickIsQueueStep ==
  ASSUME Sweep \/ NothingToClaim \/ Clock
         \/ (\E r \in Run : Dispatch(r) \/ Reauthorize(r) \/ OperatorCancel(r) \/ OperatorRetry(r))
         \/ (\E s \in Step : Refetch(s) \/ Claim(s))
  PROVE  Next
<1>1. CASE Sweep \/ NothingToClaim \/ Clock
  BY <1>1 DEF Sweep, NothingToClaim, Clock, Next, RunStep, QueueStep
<1>2. CASE \E r \in Run : Dispatch(r) \/ Reauthorize(r) \/ OperatorCancel(r) \/ OperatorRetry(r)
  BY <1>2 DEF Dispatch, Reauthorize, OperatorCancel, OperatorRetry, Next, RunStep
<1>3. CASE \E s \in Step : Refetch(s) \/ Claim(s)
  BY <1>3 DEF Refetch, Claim, Next, QueueStep
<1>4. QED
  BY <1>1, <1>2, <1>3

\* An execution does to the queue what one queue transaction does, or nothing.
LEMMA WorkerIsQueueStep ==
  ASSUME NEW s \in Step, NEW t \in Token,
         AbortClaim(s, t) \/ TimeOut(s, t) \/ Start(s, t) \/ Resolve(s, t)
         \/ KeepLease(s, t) \/ Compute(s, t) \/ Settle(s, t)
         \/ Begin(s, t) \/ Send(s, t) \/ Return(s, t)
  PROVE  Next \/ UNCHANGED vars
<1>1. WorkerStep(s, t) => Next
  BY DEF Next
<1>2. CASE AbortClaim(s, t)
  BY <1>1, <1>2 DEF AbortClaim, WorkerStep
<1>3. CASE TimeOut(s, t)
  BY <1>3, RejectedIsQueueStep DEF TimeOut
<1>4. CASE Start(s, t)
  BY <1>1, <1>4 DEF Start, WorkerStep
<1>5. CASE Resolve(s, t)
  <2>1. PauseRunForApproval(RunOf[s]) => Next
    BY ConstantTypes DEF Next, RunStep
  <2>2. QED
    BY <1>1, <1>5, <2>1 DEF Resolve, WorkerStep
<1>6. CASE KeepLease(s, t)
  BY <1>1, <1>6 DEF KeepLease, WorkerStep
<1>7. CASE Settle(s, t)
  BY <1>1, <1>7, RejectedIsQueueStep DEF Settle, WorkerStep
<1>8. CASE Compute(s, t) \/ Begin(s, t) \/ Send(s, t) \/ Return(s, t)
  BY <1>8 DEF Compute, Begin, Send, Call, Return
<1>9. QED
  BY <1>2, <1>3, <1>4, <1>5, <1>6, <1>7, <1>8

\* Every step of the gateway, of its crashes and of the CLI is a step of the
\* abstract queue or leaves it alone.
LEMMA QueueRefinement == EffectsTypeOK /\ [EffectsNext]_allVars => [Next]_vars
<1> SUFFICES ASSUME EffectsTypeOK, [EffectsNext]_allVars PROVE [Next]_vars
  OBVIOUS
<1>1. ASSUME UNCHANGED allVars PROVE UNCHANGED vars
  BY <1>1 DEF allVars
<1>2. ASSUME Shutdown \/ Crash \/ Boot \/ SetEnabled \/ Revoke \/ (\E p \in Policy : Approve(p))
      PROVE  UNCHANGED vars
  BY <1>2 DEF Shutdown, Crash, Boot, SetEnabled, Revoke, Approve
<1>3. ASSUME RecoverInterrupted PROVE Next \/ UNCHANGED vars
  <2>1. \A s \in Step : DeadLetterRun(RunOf[s]) => Next
    BY ConstantTypes DEF Next, RunStep
  <2>2. QED
    BY <1>3, <2>1, EffectsAssumption DEF RecoverInterrupted, EffectsTypeOK
<1>4. QED
  BY <1>1, <1>2, <1>3, TickIsQueueStep, WorkerIsQueueStep DEF EffectsNext

-----------------------------------------------------------------------------
(* Type correctness *)

\* The constants of the gateway, as the proofs use them.
LEMMA EffectConstants == EffectStep \subseteq Step /\ Policy # {}
  BY EffectsAssumption

\* The names of the places an execution may be in.
LEMMA ExecNames ==
  /\ {"none", "orphaned", "ended", "claimed", "resolving", "executing", "begun", "calling",
      "succeeding", "failing", "throwing"} = ExecState
  /\ Working = ExecState \ {"none", "orphaned", "ended"}
  BY DEF ExecState, Working, Outcome

\* An aborted execution is in a known place.
LEMMA AbandonedType ==
  ASSUME NEW s \in Step, NEW t \in Token
  PROVE  Abandoned(s, t) \in {"orphaned", "ended"}
  BY DEF Abandoned

\* Moving one execution moves no other.
LEMMA GotoType ==
  ASSUME EffectsTypeOK, NEW s \in Step, NEW t \in Token, NEW w \in ExecState, Goto(s, t, w)
  PROVE  /\ exec' \in [Step -> [Token -> ExecState]]
         /\ \A x \in Step, u \in Token :
              exec'[x][u] = IF x = s /\ u = t THEN w ELSE exec[x][u]
  BY DEF Goto, EffectsTypeOK

\* A guarded update of one receipt writes that receipt or nothing.
LEMMA SetReceiptType ==
  ASSUME EffectsTypeOK, NEW s \in EffectStep, NEW t \in Token, NEW o \in ReceiptState,
         SetReceipt(s, t, o)
  PROVE  /\ receipt' \in [EffectStep -> [state : ReceiptState, token : 0..MaxAttempts,
                                         digest : {<<>>} \cup (Policy \X BOOLEAN)]]
         /\ \A x \in EffectStep : x # s \/ ~OwnsReceipt(s, t) => receipt'[x] = receipt[x]
         /\ OwnsReceipt(s, t) => receipt'[s].state = o /\ receipt'[s].token = t
  BY DEF SetReceipt, Recorded, OwnsReceipt, EffectsTypeOK

\* A digest is a policy and a flag.
LEMMA DigestType ==
  ASSUME EffectsTypeOK, NEW s \in EffectStep, NEW t \in Token
  PROVE  Digest(s, t) \in Policy \X BOOLEAN
<1>1. claim[s][t].auth \in Policy
  BY EffectConstants DEF EffectsTypeOK
<1>2. (s \in UpsertStep /\ landed[s]) \in BOOLEAN
  OBVIOUS
<1>3. QED
  BY <1>1, <1>2 DEF Digest

\* The steps of the tick, the CLI and the clock keep the gateway well typed.
LEMMA TickTypes ==
  ASSUME TypeOK, EffectsTypeOK,
         Sweep \/ NothingToClaim \/ Clock \/ SetEnabled \/ Revoke \/ (\E p \in Policy : Approve(p))
         \/ (\E r \in Run : Dispatch(r) \/ Reauthorize(r) \/ OperatorCancel(r) \/ OperatorRetry(r))
         \/ (\E s \in Step : Refetch(s) \/ Claim(s))
  PROVE  EffectsTypeOK'
<1>1. CASE Sweep \/ NothingToClaim \/ Clock \/ SetEnabled \/ Revoke \/ (\E p \in Policy : Approve(p))
  BY <1>1 DEF Sweep, NothingToClaim, Clock, SetEnabled, Revoke, Approve, EffectsTypeOK,
              gatewayVars, rulesVars, effectVars
<1>2. ASSUME NEW r \in Run, Dispatch(r) \/ Reauthorize(r) \/ OperatorCancel(r) \/ OperatorRetry(r)
      PROVE  EffectsTypeOK'
  BY <1>2 DEF Dispatch, Reauthorize, OperatorCancel, OperatorRetry, EffectsTypeOK,
              gatewayVars, rulesVars, effectVars
<1>3. ASSUME NEW s \in Step, Refetch(s) PROVE EffectsTypeOK'
  BY <1>3 DEF Refetch, EffectsTypeOK, gatewayVars, rulesVars, effectVars
<1>4. ASSUME NEW s \in Step, Claim(s) PROVE EffectsTypeOK'
  <2> DEFINE t == attemptCount[s] + 1
  <2>1. attemptCount[s] < MaxAttempts /\ Claim(s)
    BY <1>4 DEF Claim, ClaimStep
  <2>2. t \in Token
    BY <2>1, ConstantTypes DEF TypeOK, Token
  <2>3. exec' \in [Step -> [Token -> ExecState]]
    BY <2>1, <2>2, GotoType, ExecNames DEF Claim
  <2>4. claim' \in [Step -> [Token -> [auth : Policy, hard : Nat]]]
    <3>1. runAuth[RunOf[s]] \in Policy
      BY ConstantTypes DEF EffectsTypeOK
    <3>2. NewLease(s).hard \in Nat
      BY <2>1, NewLeaseType DEF Lease
    <3> DEFINE c == [auth |-> runAuth[RunOf[s]], hard |-> NewLease(s).hard]
    <3>3. c \in [auth : Policy, hard : Nat]
      BY <3>1, <3>2
    <3>4. claim' = [claim EXCEPT ![s][t] = c]
      BY <2>1 DEF Claim
    <3> HIDE DEF c, t
    <3>5. QED
      BY <2>2, <3>3, <3>4 DEF EffectsTypeOK
  <2>5. turn' = <<s, t>>
    BY <2>1 DEF Claim
  <2>6. QED
    BY <2>1, <2>2, <2>3, <2>4, <2>5 DEF Claim, EffectsTypeOK, rulesVars, effectVars
<1>5. QED
  BY <1>1, <1>2, <1>3, <1>4

\* The steps of one execution keep the gateway well typed.
LEMMA WorkerTypes ==
  ASSUME EffectsTypeOK, NEW s \in Step, NEW t \in Token,
         AbortClaim(s, t) \/ TimeOut(s, t) \/ Start(s, t) \/ Resolve(s, t)
         \/ KeepLease(s, t) \/ Compute(s, t) \/ Settle(s, t)
  PROVE  EffectsTypeOK'
<1>1. CASE AbortClaim(s, t) \/ TimeOut(s, t)
  <2>1. exec' \in [Step -> [Token -> ExecState]]
    BY <1>1, AbandonedType, GotoType, ExecNames DEF AbortClaim, TimeOut
  <2>2. QED
    BY <1>1, <2>1 DEF AbortClaim, TimeOut, EffectsTypeOK, rulesVars, effectVars
<1>2. CASE Start(s, t) \/ Settle(s, t) \/ Resolve(s, t)
  <2>1. exec' \in [Step -> [Token -> ExecState]]
    BY <1>2, GotoType, ExecNames DEF Start, Settle, Resolve
  <2>2. QED
    BY <1>2, <2>1 DEF Start, Settle, Resolve, EffectsTypeOK, rulesVars, effectVars
<1>3. CASE KeepLease(s, t)
  BY <1>3 DEF KeepLease, EffectsTypeOK, gatewayVars, rulesVars, effectVars
<1>4. CASE Compute(s, t)
  <2>1. exec' \in [Step -> [Token -> ExecState]]
    BY <1>4, GotoType, ExecNames DEF Compute, Outcome
  <2>2. QED
    BY <1>4, <2>1 DEF Compute, EffectsTypeOK, rulesVars, effectVars
<1>5. QED
  BY <1>1, <1>2, <1>3, <1>4

\* The steps of an effect keep the gateway well typed.
LEMMA EffectTypes ==
  ASSUME EffectsTypeOK, NEW s \in Step, NEW t \in Token, s \in EffectStep,
         Begin(s, t) \/ Send(s, t) \/ Return(s, t)
  PROVE  EffectsTypeOK'
<1> DEFINE Receipts == [EffectStep -> [state : ReceiptState, token : 0..MaxAttempts,
                                       digest : {<<>>} \cup (Policy \X BOOLEAN)]]
<1>1. {"running", "failed", "succeeded", "outcome_unknown"} \subseteq ReceiptState
  BY DEF ReceiptState
<1>2. receipt \in Receipts
  BY DEF EffectsTypeOK
<1>3. CASE Begin(s, t)
  <2>1. Beginning(s, t) \in ExecState
    BY ExecNames DEF Beginning
  <2>2. exec' \in [Step -> [Token -> ExecState]]
    BY <1>3, <2>1, GotoType, ExecNames DEF Begin
  <2>3. receipt' \in Receipts
    <3> DEFINE d == Digest(s, t)
    <3>1. d \in Policy \X BOOLEAN
      BY DigestType
    <3>2. receipt' = [receipt EXCEPT ![s] = [state |-> "running", token |-> t, digest |-> d]]
          \/ receipt' = receipt
      BY <1>3 DEF Begin
    <3>3. t \in 0..MaxAttempts
      BY ConstantTypes DEF Token
    <3> HIDE DEF d
    <3>4. QED
      BY <1>1, <1>2, <3>1, <3>2, <3>3
  <2>4. QED
    BY <1>3, <2>2, <2>3 DEF Begin, EffectsTypeOK, rulesVars
<1>4. CASE Send(s, t)
  <2>1. exec' \in [Step -> [Token -> ExecState]]
    BY <1>4, GotoType, ExecNames DEF Send, Call
  <2>2. receipt' \in Receipts
    BY <1>1, <1>2, <1>4, SetReceiptType DEF Send, Call
  <2>3. /\ calls' \in [EffectStep -> Nat]
        /\ landed' \in [EffectStep -> BOOLEAN]
    <3> DEFINE n == calls[s] + 1
    <3>1. n \in Nat /\ (calls' = [calls EXCEPT ![s] = n] \/ calls' = calls)
      BY <1>4 DEF Send, Call, EffectsTypeOK
    <3>2. landed' = [landed EXCEPT ![s] = TRUE] \/ landed' = landed
      BY <1>4 DEF Send, Call
    <3> HIDE DEF n
    <3>3. calls' \in [EffectStep -> Nat]
      BY <3>1 DEF EffectsTypeOK
    <3>4. landed' \in [EffectStep -> BOOLEAN]
      BY <3>2 DEF EffectsTypeOK
    <3>5. QED
      BY <3>3, <3>4
  <2>4. turn' \in {NoTurn} \cup (Step \X Token)
    BY <1>4 DEF Send, Call, EffectsTypeOK
  <2>5. QED
    BY <1>4, <2>1, <2>2, <2>3, <2>4 DEF Send, Call, EffectsTypeOK, rulesVars
<1>5. CASE Return(s, t)
  <2>1. exec' \in [Step -> [Token -> ExecState]]
    BY <1>5, GotoType, ExecNames DEF Return
  <2>2. receipt' \in Receipts
    BY <1>1, <1>5, SetReceiptType DEF Return, LostResponse
  <2>3. turn' \in {NoTurn} \cup (Step \X Token)
    BY <1>5 DEF Return, EffectsTypeOK
  <2>4. QED
    BY <1>5, <2>1, <2>2, <2>3 DEF Return, EffectsTypeOK, rulesVars
<1>6. QED
  BY <1>3, <1>4, <1>5

\* The ends and the beginnings of the process keep the gateway well typed.
LEMMA ProcessTypes ==
  ASSUME EffectsTypeOK, Shutdown \/ Crash \/ Boot \/ RecoverInterrupted
  PROVE  EffectsTypeOK'
<1>1. CASE Shutdown
  <2>1. exec' \in [Step -> [Token -> ExecState]]
    BY <1>1, AbandonedType, ExecNames DEF Shutdown, EffectsTypeOK
  <2>2. QED
    BY <1>1, <2>1 DEF Shutdown, EffectsTypeOK, rulesVars, effectVars
<1>2. CASE Crash
  <2>1. exec' \in [Step -> [Token -> ExecState]]
    BY <1>2, ExecNames DEF Crash, EffectsTypeOK
  <2>2. QED
    BY <1>2, <2>1 DEF Crash, EffectsTypeOK, rulesVars, effectVars
<1>3. CASE Boot
  BY <1>3 DEF Boot, Interrupted, EffectsTypeOK, effectVars
<1>4. CASE RecoverInterrupted
  <2>1. receipt' \in [EffectStep -> [state : ReceiptState, token : 0..MaxAttempts,
                                     digest : {<<>>} \cup (Policy \X BOOLEAN)]]
    BY <1>4 DEF RecoverInterrupted, Recorded, EffectsTypeOK, ReceiptState
  <2>2. sweep' \subseteq EffectStep /\ mode' \in {"recovering", "up"}
    BY <1>4 DEF RecoverInterrupted, EffectsTypeOK
  <2>3. QED
    BY <1>4, <2>1, <2>2 DEF RecoverInterrupted, EffectsTypeOK, rulesVars
<1>5. QED
  BY <1>1, <1>2, <1>3, <1>4

-----------------------------------------------------------------------------
(* The inductive invariant *)

\* Only the executor of an effect step makes an external call.
OnlyEffectsCall ==
  \A s \in Step, t \in Token :
    exec[s][t] \in {"begun", "calling", "orphaned"} => s \in EffectStep

\* An execution about to send owns the running receipt, and nothing was sent:
\* only a process that is up is in that turn.
BegunOwnsReceipt ==
  \A s \in EffectStep, t \in Token :
    exec[s][t] = "begun" => mode = "up" /\ OwnsReceipt(s, t) /\ calls[s] = 0

\* A success on its way to settlement, and the one settled, is recorded and real.
SuccessRecorded ==
  /\ \A s \in EffectStep : receipt[s].state = "succeeded" => landed[s]
  /\ \A s \in EffectStep, t \in Token :
       exec[s][t] = "succeeding" => receipt[s].state = "succeeded"

ReceiptInv ==
  /\ OnlyEffectsCall
  /\ BegunOwnsReceipt
  /\ FailedMeansNotSent
  /\ EffectAtMostOnce
  /\ SuccessRecorded

EffectsInv ==
  LeaseInv /\ RunsBeforeSteps /\ EffectsTypeOK /\ ReceiptInv /\ SuccessMeansLanded

\* What a step that touches no receipt may do to the executions: leave one where
\* it is, take it somewhere harmless, abandon a call, or succeed without effects.
Withdrawn ==
  \A s \in Step, t \in Token :
    \/ exec'[s][t] = exec[s][t]
    \/ exec'[s][t] \notin {"begun", "calling", "orphaned", "succeeding"}
    \/ exec[s][t] = "calling" /\ exec'[s][t] = "orphaned"
    \/ s \notin EffectStep /\ exec'[s][t] = "succeeding"

\* A step that touches no receipt keeps the receipts' invariant, as long as it
\* leaves no execution about to send in a process that is not up.
LEMMA ReceiptsUntouched ==
  ASSUME EffectsTypeOK, ReceiptInv, UNCHANGED effectVars, Withdrawn,
         mode' = mode \/ (\A s \in Step, t \in Token : exec'[s][t] # "begun")
  PROVE  ReceiptInv'
<1>1. OnlyEffectsCall'
  BY DEF ReceiptInv, OnlyEffectsCall, Withdrawn
<1>2. BegunOwnsReceipt'
  BY EffectConstants DEF ReceiptInv, BegunOwnsReceipt, OwnsReceipt, Withdrawn, effectVars
<1>3. FailedMeansNotSent' /\ EffectAtMostOnce'
  BY DEF ReceiptInv, FailedMeansNotSent, EffectAtMostOnce, effectVars
<1>4. SuccessRecorded'
  BY EffectConstants DEF ReceiptInv, SuccessRecorded, Withdrawn, effectVars
<1>5. QED
  BY <1>1, <1>2, <1>3, <1>4 DEF ReceiptInv

\* The tick, the CLI, the clock, and stuttering touch no receipt.
LEMMA TickReceipts ==
  ASSUME TypeOK, EffectsTypeOK, ReceiptInv,
         Sweep \/ NothingToClaim \/ Clock \/ SetEnabled \/ Revoke \/ (\E p \in Policy : Approve(p))
         \/ (\E r \in Run : Dispatch(r) \/ Reauthorize(r) \/ OperatorCancel(r) \/ OperatorRetry(r))
         \/ (\E s \in Step : Refetch(s) \/ Claim(s)) \/ UNCHANGED allVars
  PROVE  ReceiptInv'
<1>1. ASSUME UNCHANGED <<mode, exec, effectVars>> PROVE ReceiptInv'
  BY <1>1, ReceiptsUntouched DEF Withdrawn
<1>2. CASE Sweep \/ NothingToClaim \/ Clock \/ SetEnabled \/ Revoke \/ (\E p \in Policy : Approve(p))
           \/ UNCHANGED allVars
  BY <1>1, <1>2 DEF Sweep, NothingToClaim, Clock, SetEnabled, Revoke, Approve, gatewayVars, allVars
<1>3. CASE \E r \in Run : Dispatch(r) \/ Reauthorize(r) \/ OperatorCancel(r) \/ OperatorRetry(r)
  BY <1>1, <1>3 DEF Dispatch, Reauthorize, OperatorCancel, OperatorRetry, gatewayVars
<1>4. CASE \E s \in Step : Refetch(s)
  BY <1>1, <1>4 DEF Refetch, gatewayVars
<1>5. ASSUME NEW s \in Step, Claim(s) PROVE ReceiptInv'
  <2> DEFINE t == attemptCount[s] + 1
  <2>1. t \in Token
    BY <1>5, ConstantTypes DEF Claim, ClaimStep, TypeOK, Token
  <2>2. \A x \in Step, u \in Token :
          exec'[x][u] = IF x = s /\ u = t THEN "claimed" ELSE exec[x][u]
    BY <1>5, <2>1, GotoType, ExecNames DEF Claim
  <2>3. UNCHANGED <<mode, effectVars>>
    BY <1>5 DEF Claim
  <2>4. Withdrawn
    BY <2>2 DEF Withdrawn
  <2>5. QED
    BY <2>3, <2>4, ReceiptsUntouched
<1>6. QED
  BY <1>2, <1>3, <1>4, <1>5

\* Outside an effect, an execution touches no receipt.
LEMMA WorkerReceipts ==
  ASSUME EffectsTypeOK, ReceiptInv, NEW s \in Step, NEW t \in Token,
         AbortClaim(s, t) \/ TimeOut(s, t) \/ Start(s, t) \/ Resolve(s, t)
         \/ KeepLease(s, t) \/ Compute(s, t) \/ Settle(s, t)
  PROVE  ReceiptInv'
<1>1. ASSUME NEW w \in ExecState, Goto(s, t, w), UNCHANGED <<mode, effectVars>>,
             \/ w \notin {"begun", "calling", "orphaned", "succeeding"}
             \/ exec[s][t] = "calling" /\ w = "orphaned"
             \/ s \notin EffectStep /\ w = "succeeding"
      PROVE  ReceiptInv'
  <2>1. Withdrawn
    BY <1>1, GotoType DEF Withdrawn
  <2>2. QED
    BY <1>1, <2>1, ReceiptsUntouched
<1>2. CASE AbortClaim(s, t) \/ TimeOut(s, t)
  <2>1. Goto(s, t, Abandoned(s, t)) /\ UNCHANGED <<mode, effectVars>>
    BY <1>2 DEF AbortClaim, TimeOut
  <2>2. Abandoned(s, t) = "ended" \/ (exec[s][t] = "calling" /\ Abandoned(s, t) = "orphaned")
    BY DEF Abandoned
  <2>3. QED
    BY <1>1, <2>1, <2>2, ExecNames
<1>3. CASE Start(s, t) \/ Resolve(s, t) \/ Settle(s, t)
  <2>1. UNCHANGED <<mode, effectVars>>
    BY <1>3 DEF Start, Resolve, Settle
  <2>2. \E w \in {"resolving", "executing", "ended"} : Goto(s, t, w)
    BY <1>3 DEF Start, Resolve, Settle
  <2>3. QED
    BY <1>1, <2>1, <2>2, ExecNames
<1>4. CASE KeepLease(s, t)
  BY <1>4, ReceiptsUntouched DEF KeepLease, gatewayVars, Withdrawn
<1>5. CASE Compute(s, t)
  <2>1. UNCHANGED <<mode, effectVars>>
    BY <1>5 DEF Compute
  <2>2. \E w \in Outcome : Goto(s, t, w) /\ (s \in EffectStep => w # "succeeding")
    BY <1>5 DEF Compute, Outcome
  <2>3. QED
    BY <1>1, <2>1, <2>2, ExecNames DEF Outcome
<1>6. QED
  BY <1>2, <1>3, <1>4, <1>5

\* receipts.begin starts a receipt only when nothing was sent under it.
LEMMA BeginReceipts ==
  ASSUME EffectsTypeOK, ReceiptInv, NEW s \in EffectStep, NEW t \in Token, Begin(s, t)
  PROVE  ReceiptInv'
<1>1. s \in Step /\ UNCHANGED <<mode, calls, landed>> /\ mode = "up"
  BY EffectConstants DEF Begin, Free
<1>2. CASE Preflight(s, t) /\ Budgeted(s) /\ Beginning(s, t) = "begun"
  <2>1. Startable(s, t) /\ Goto(s, t, "begun")
    BY <1>2 DEF Begin, Beginning
  <2>2. calls[s] = 0
    BY <2>1 DEF Startable, ReceiptInv, FailedMeansNotSent
  <2>3. \A x \in Step, u \in Token :
          exec'[x][u] = IF x = s /\ u = t THEN "begun" ELSE exec[x][u]
    BY <1>1, <2>1, GotoType, ExecNames
  <2>4. /\ receipt'[s].state = "running" /\ receipt'[s].token = t
        /\ \A x \in EffectStep : x # s => receipt'[x] = receipt[x]
    BY <1>2 DEF Begin, EffectsTypeOK
  <2>5. \A u \in Token : exec[s][u] \notin {"begun", "succeeding"}
    BY <2>1 DEF Startable, ReceiptInv, BegunOwnsReceipt, SuccessRecorded, OwnsReceipt
  <2>6. OnlyEffectsCall'
    BY <2>3 DEF ReceiptInv, OnlyEffectsCall
  <2>7. BegunOwnsReceipt'
    BY <1>1, <2>2, <2>3, <2>4, <2>5, EffectConstants DEF ReceiptInv, BegunOwnsReceipt, OwnsReceipt
  <2>8. FailedMeansNotSent' /\ EffectAtMostOnce'
    BY <1>1, <2>4 DEF ReceiptInv, FailedMeansNotSent, EffectAtMostOnce
  <2>9. SuccessRecorded'
    BY <1>1, <2>3, <2>4, <2>5, EffectConstants DEF ReceiptInv, SuccessRecorded
  <2>10. QED
    BY <2>6, <2>7, <2>8, <2>9 DEF ReceiptInv
<1>3. CASE ~(Preflight(s, t) /\ Budgeted(s) /\ Beginning(s, t) = "begun")
  <2>1. UNCHANGED receipt
    BY <1>3 DEF Begin
  <2>2. \E v \in {"succeeding", "throwing", "failing"} :
          Goto(s, t, v) /\ (v = "succeeding" => receipt[s].state = "succeeded")
    BY <1>3 DEF Begin, Beginning
  <2>3. PICK v \in {"succeeding", "throwing", "failing"} :
          Goto(s, t, v) /\ (v = "succeeding" => receipt[s].state = "succeeded")
    BY <2>2
  <2>4. \A x \in Step, u \in Token :
          exec'[x][u] = IF x = s /\ u = t THEN v ELSE exec[x][u]
    BY <1>1, <2>3, GotoType, ExecNames
  <2>5. OnlyEffectsCall'
    BY <2>4 DEF ReceiptInv, OnlyEffectsCall
  <2>6. BegunOwnsReceipt'
    BY <1>1, <2>1, <2>4, EffectConstants DEF ReceiptInv, BegunOwnsReceipt, OwnsReceipt
  <2>7. FailedMeansNotSent' /\ EffectAtMostOnce'
    BY <1>1, <2>1 DEF ReceiptInv, FailedMeansNotSent, EffectAtMostOnce
  <2>8. SuccessRecorded'
    BY <1>1, <2>1, <2>3, <2>4, EffectConstants DEF ReceiptInv, SuccessRecorded
  <2>9. QED
    BY <2>5, <2>6, <2>7, <2>8 DEF ReceiptInv
<1>4. QED
  BY <1>2, <1>3

\* The request is sent under a receipt that was running and had sent nothing.
LEMMA SendReceipts ==
  ASSUME EffectsTypeOK, ReceiptInv, NEW s \in EffectStep, NEW t \in Token, Send(s, t)
  PROVE  ReceiptInv'
<1>1. s \in Step /\ exec[s][t] = "begun" /\ UNCHANGED mode
  BY EffectConstants DEF Send, Call
<1>2. mode = "up" /\ OwnsReceipt(s, t) /\ calls[s] = 0
  BY <1>1 DEF ReceiptInv, BegunOwnsReceipt
<1>3. \A u \in Token : exec[s][u] = "begun" => u = t
  BY <1>2 DEF ReceiptInv, BegunOwnsReceipt, OwnsReceipt
<1>4. CASE Preflight(s, t)
  <2>1. /\ Goto(s, t, "calling") /\ UNCHANGED receipt
        /\ calls' = [calls EXCEPT ![s] = @ + 1]
        /\ landed' = [landed EXCEPT ![s] = TRUE] \/ landed' = landed
    BY <1>4 DEF Send, Call
  <2>2. \A x \in Step, u \in Token :
          exec'[x][u] = IF x = s /\ u = t THEN "calling" ELSE exec[x][u]
    BY <1>1, <2>1, GotoType, ExecNames
  <2>3. /\ calls'[s] = 1
        /\ \A x \in EffectStep : x # s => calls'[x] = calls[x]
    BY <1>2, <2>1 DEF EffectsTypeOK
  <2>4. \A x \in EffectStep : landed[x] => landed'[x]
    BY <2>1 DEF EffectsTypeOK
  <2>5. OnlyEffectsCall'
    BY <2>2 DEF ReceiptInv, OnlyEffectsCall
  <2>6. BegunOwnsReceipt'
    BY <1>1, <1>3, <2>1, <2>2, <2>3, EffectConstants DEF ReceiptInv, BegunOwnsReceipt, OwnsReceipt
  <2>7. FailedMeansNotSent' /\ EffectAtMostOnce'
    BY <1>2, <2>1, <2>3 DEF ReceiptInv, FailedMeansNotSent, EffectAtMostOnce, OwnsReceipt
  <2>8. SuccessRecorded'
    BY <2>1, <2>2, <2>4, EffectConstants DEF ReceiptInv, SuccessRecorded
  <2>9. QED
    BY <2>5, <2>6, <2>7, <2>8 DEF ReceiptInv
<1>5. CASE ~Preflight(s, t)
  <2>1. Goto(s, t, "failing") /\ SetReceipt(s, t, "failed") /\ UNCHANGED <<calls, landed>>
    BY <1>5 DEF Send, Call
  <2>2. \A x \in Step, u \in Token :
          exec'[x][u] = IF x = s /\ u = t THEN "failing" ELSE exec[x][u]
    BY <1>1, <2>1, GotoType, ExecNames
  <2>3. /\ receipt'[s].state = "failed"
        /\ \A x \in EffectStep : x # s => receipt'[x] = receipt[x]
    BY <1>2, <2>1, SetReceiptType DEF ReceiptState
  <2>4. OnlyEffectsCall'
    BY <2>2 DEF ReceiptInv, OnlyEffectsCall
  <2>5. BegunOwnsReceipt'
    BY <1>1, <1>3, <2>1, <2>2, <2>3, EffectConstants DEF ReceiptInv, BegunOwnsReceipt, OwnsReceipt
  <2>6. FailedMeansNotSent' /\ EffectAtMostOnce'
    BY <1>2, <2>1, <2>3 DEF ReceiptInv, FailedMeansNotSent, EffectAtMostOnce
  <2>7. SuccessRecorded'
    <3>1. \A u \in Token : exec[s][u] # "succeeding"
      BY <1>2 DEF ReceiptInv, SuccessRecorded, OwnsReceipt
    <3>2. QED
      BY <2>1, <2>2, <2>3, <3>1, EffectConstants DEF ReceiptInv, SuccessRecorded
  <2>8. QED
    BY <2>4, <2>5, <2>6, <2>7 DEF ReceiptInv
<1>6. QED
  BY <1>4, <1>5

\* The outcome of a request is recorded under the receipt it was sent with.
LEMMA ReturnReceipts ==
  ASSUME EffectsTypeOK, ReceiptInv, NEW s \in EffectStep, NEW t \in Token, Return(s, t)
  PROVE  ReceiptInv'
<1>1. s \in Step /\ exec[s][t] \in {"calling", "orphaned"} /\ UNCHANGED <<mode, calls, landed>>
  BY EffectConstants DEF Return
<1>2. PICK o \in {"succeeded", "outcome_unknown"}, v \in {"succeeding", "failing", "ended"} :
        /\ SetReceipt(s, t, o) /\ Goto(s, t, v)
        /\ o = "succeeded" => landed[s]
        /\ v = "succeeding" => o = "succeeded" /\ OwnsReceipt(s, t)
  BY DEF Return, LostResponse
<1>3. \A x \in Step, u \in Token :
        exec'[x][u] = IF x = s /\ u = t THEN v ELSE exec[x][u]
  BY <1>1, <1>2, GotoType, ExecNames
<1>4. /\ \A x \in EffectStep : x # s \/ ~OwnsReceipt(s, t) => receipt'[x] = receipt[x]
      /\ OwnsReceipt(s, t) => receipt'[s].state = o /\ receipt'[s].token = t
  BY <1>2, SetReceiptType DEF ReceiptState
<1>5. OnlyEffectsCall'
  BY <1>3 DEF ReceiptInv, OnlyEffectsCall
<1>6. \A u \in Token : u # t /\ exec[s][u] = "begun" => ~OwnsReceipt(s, t)
  BY DEF ReceiptInv, BegunOwnsReceipt, OwnsReceipt
<1>7. BegunOwnsReceipt'
  BY <1>1, <1>3, <1>4, <1>6, EffectConstants DEF ReceiptInv, BegunOwnsReceipt, OwnsReceipt
<1>8. FailedMeansNotSent' /\ EffectAtMostOnce'
  BY <1>1, <1>4 DEF ReceiptInv, FailedMeansNotSent, EffectAtMostOnce
<1>9. SuccessRecorded'
  <2>1. OwnsReceipt(s, t) => \A u \in Token : exec[s][u] # "succeeding"
    BY DEF ReceiptInv, SuccessRecorded, OwnsReceipt
  <2>2. QED
    BY <1>1, <1>2, <1>3, <1>4, <2>1, EffectConstants DEF ReceiptInv, SuccessRecorded
<1>10. QED
  BY <1>5, <1>7, <1>8, <1>9 DEF ReceiptInv

\* A dead process holds no execution about to send, and recovery only turns a
\* running receipt into an unknown one.
LEMMA ProcessReceipts ==
  ASSUME EffectsTypeOK, ReceiptInv, Shutdown \/ Crash \/ Boot \/ RecoverInterrupted
  PROVE  ReceiptInv'
<1>1. CASE Shutdown
  <2>1. \A x \in Step, u \in Token :
          exec'[x][u] = IF exec[x][u] \in Working THEN Abandoned(x, u) ELSE exec[x][u]
    BY <1>1 DEF Shutdown
  <2>2. \A x \in Step, u \in Token :
          /\ Abandoned(x, u) # "begun"
          /\ Abandoned(x, u) = "ended" \/ (exec[x][u] = "calling" /\ Abandoned(x, u) = "orphaned")
    BY DEF Abandoned
  <2>3. Withdrawn
    BY <2>1, <2>2 DEF Withdrawn
  <2>4. \A x \in Step, u \in Token : exec'[x][u] # "begun"
    BY <2>1, <2>2, ExecNames
  <2>5. QED
    BY <1>1, <2>3, <2>4, ReceiptsUntouched DEF Shutdown
<1>2. CASE Crash
  <2>1. \A x \in Step, u \in Token : exec'[x][u] \in {"none", "ended"}
    BY <1>2 DEF Crash
  <2>2. QED
    BY <1>2, <2>1, ReceiptsUntouched DEF Crash, Withdrawn
<1>3. CASE Boot
  <2>1. \A x \in Step, u \in Token : exec[x][u] # "begun"
    BY <1>3 DEF Boot, ReceiptInv, BegunOwnsReceipt, OnlyEffectsCall
  <2>2. QED
    BY <1>3, <2>1, ReceiptsUntouched DEF Boot, Withdrawn
<1>4. CASE RecoverInterrupted
  <2>1. mode = "recovering" /\ UNCHANGED <<exec, calls, landed>>
    BY <1>4 DEF RecoverInterrupted
  <2>2. \A x \in Step, u \in Token : exec[x][u] # "begun"
    BY <2>1 DEF ReceiptInv, BegunOwnsReceipt, OnlyEffectsCall
  <2>3. \A x \in EffectStep :
          receipt'[x] = receipt[x]
          \/ (receipt[x].state = "running" /\ receipt'[x].state = "outcome_unknown")
    <3>1. CASE UNCHANGED receipt
      BY <3>1
    <3>2. CASE \E y \in sweep : receipt[y].state = "running"
                                /\ receipt' = [receipt EXCEPT ![y] = Recorded(y, "outcome_unknown")]
      BY <3>2 DEF Recorded, EffectsTypeOK
    <3>3. QED
      BY <1>4, <3>1, <3>2 DEF RecoverInterrupted
  <2>4. OnlyEffectsCall' /\ BegunOwnsReceipt'
    BY <2>1, <2>2, EffectConstants DEF ReceiptInv, OnlyEffectsCall, BegunOwnsReceipt
  <2>5. FailedMeansNotSent' /\ EffectAtMostOnce'
    BY <2>1, <2>3 DEF ReceiptInv, FailedMeansNotSent, EffectAtMostOnce
  <2>6. SuccessRecorded'
    BY <2>1, <2>3 DEF ReceiptInv, SuccessRecorded
  <2>7. QED
    BY <2>4, <2>5, <2>6 DEF ReceiptInv
<1>5. QED
  BY <1>1, <1>2, <1>3, <1>4

\* Every step keeps the types and the receipts' invariant.
LEMMA ReceiptStep ==
  ASSUME TypeOK, EffectsTypeOK, ReceiptInv, [EffectsNext]_allVars
  PROVE  EffectsTypeOK' /\ ReceiptInv'
<1>1. ASSUME NEW s \in Step, NEW t \in Token, Begin(s, t) \/ Send(s, t) \/ Return(s, t)
      PROVE  EffectsTypeOK' /\ ReceiptInv'
  <2>1. s \in EffectStep
    BY <1>1 DEF Begin, Send, Call, Return, ReceiptInv, OnlyEffectsCall
  <2>2. QED
    BY <1>1, <2>1, EffectTypes, BeginReceipts, SendReceipts, ReturnReceipts
<1>2. CASE UNCHANGED allVars
  <2>1. EffectsTypeOK'
    BY <1>2 DEF allVars, gatewayVars, rulesVars, effectVars, EffectsTypeOK
  <2>2. QED
    BY <1>2, <2>1, TickReceipts
<1>3. QED
  BY <1>1, <1>2, TickTypes, TickReceipts, WorkerTypes, WorkerReceipts, ProcessTypes, ProcessReceipts
  DEF EffectsNext

-----------------------------------------------------------------------------
(* Success is real *)

\* What is recorded or done outside stays so.
RecordsGrow ==
  \A s \in EffectStep :
    /\ receipt[s].state \in {"succeeded", "outcome_unknown"} => receipt'[s] = receipt[s]
    /\ landed[s] => landed'[s]

\* A recorded outcome is final.
LEMMA RecordsStand ==
  ASSUME EffectsTypeOK, ReceiptInv, [EffectsNext]_allVars
  PROVE  RecordsGrow
<1>1. ASSUME UNCHANGED effectVars PROVE RecordsGrow
  BY <1>1 DEF effectVars, RecordsGrow
<1>2. ASSUME NEW s \in Step, NEW t \in Token, Begin(s, t) \/ Send(s, t) \/ Return(s, t)
      PROVE  RecordsGrow
  <2>1. s \in EffectStep
    BY <1>2 DEF Begin, Send, Call, Return, ReceiptInv, OnlyEffectsCall
  <2>2. CASE Begin(s, t)
    <3>1. CASE Beginning(s, t) = "begun"
      <4>1. receipt[s].state \notin {"succeeded", "outcome_unknown"}
        BY <3>1 DEF Beginning, Startable
      <4>2. \A x \in EffectStep : x # s => receipt'[x] = receipt[x]
        BY <2>2 DEF Begin, EffectsTypeOK
      <4>3. QED
        BY <2>2, <4>1, <4>2 DEF Begin, RecordsGrow
    <3>2. CASE Beginning(s, t) # "begun"
      BY <2>2, <3>2 DEF Begin, RecordsGrow
    <3>3. QED
      BY <3>1, <3>2
  <2>3. CASE Send(s, t)
    <3>1. UNCHANGED receipt \/ SetReceipt(s, t, "failed")
      BY <2>3 DEF Send, Call
    <3>2. landed' = [landed EXCEPT ![s] = TRUE] \/ landed' = landed
      BY <2>3 DEF Send, Call
    <3>3. \A x \in EffectStep : landed[x] => landed'[x]
      BY <3>2 DEF EffectsTypeOK
    <3>4. QED
      BY <2>1, <3>1, <3>3, SetReceiptType DEF RecordsGrow, OwnsReceipt, ReceiptState
  <2>4. CASE Return(s, t)
    <3>1. (\E o \in {"succeeded", "outcome_unknown"} : SetReceipt(s, t, o)) /\ UNCHANGED landed
      BY <2>4 DEF Return, LostResponse
    <3>2. QED
      BY <2>1, <3>1, SetReceiptType DEF RecordsGrow, OwnsReceipt, ReceiptState
  <2>5. QED
    BY <1>2, <2>2, <2>3, <2>4
<1>3. CASE RecoverInterrupted
  BY <1>3 DEF RecoverInterrupted, RecordsGrow, EffectsTypeOK
<1>4. CASE Shutdown \/ Crash \/ Boot \/ UNCHANGED allVars
  BY <1>1, <1>4 DEF Shutdown, Crash, Boot, allVars
<1>5. CASE Sweep \/ NothingToClaim \/ Clock \/ SetEnabled \/ Revoke \/ (\E p \in Policy : Approve(p))
  BY <1>1, <1>5 DEF Sweep, NothingToClaim, Clock, SetEnabled, Revoke, Approve
<1>6. CASE \E r \in Run : Dispatch(r) \/ Reauthorize(r) \/ OperatorCancel(r) \/ OperatorRetry(r)
  BY <1>1, <1>6 DEF Dispatch, Reauthorize, OperatorCancel, OperatorRetry
<1>7. CASE \E s \in Step : Refetch(s) \/ Claim(s)
  BY <1>1, <1>7 DEF Refetch, Claim
<1>8. ASSUME NEW s \in Step, NEW t \in Token,
             AbortClaim(s, t) \/ TimeOut(s, t) \/ Start(s, t) \/ Resolve(s, t)
             \/ KeepLease(s, t) \/ Compute(s, t) \/ Settle(s, t)
      PROVE  RecordsGrow
  BY <1>1, <1>8 DEF AbortClaim, TimeOut, Start, Resolve, KeepLease, Compute, Settle
<1>9. QED
  BY <1>2, <1>3, <1>4, <1>5, <1>6, <1>7, <1>8 DEF EffectsNext

\* Only a settlement of a success makes a step succeed.
LEMMA OnlySettlementSucceeds ==
  ASSUME TypeOK, RunsBeforeSteps, EffectsTypeOK, [EffectsNext]_allVars
  PROVE  \/ SuccessUnmoved
         \/ \E s \in Step, t \in Token : exec[s][t] = "succeeding" /\ CompleteStep(s, t)
<1>1. ASSUME UNCHANGED vars PROVE SuccessUnmoved
  BY <1>1 DEF vars, stepVars, SuccessUnmoved
<1>2. ASSUME NEW r \in Run, RunStep(r) PROVE SuccessUnmoved
  BY <1>2, RunStepsMoveNoSuccess
<1>3. CASE Shutdown \/ Crash \/ Boot \/ SetEnabled \/ Revoke \/ (\E p \in Policy : Approve(p)) \/ UNCHANGED allVars
  BY <1>1, <1>3 DEF Shutdown, Crash, Boot, SetEnabled, Revoke, Approve, allVars
<1>4. CASE RecoverInterrupted
  <2>1. \A s \in sweep : RunOf[s] \in Run
    BY ConstantTypes, EffectConstants DEF EffectsTypeOK
  <2>2. QED
    BY <1>1, <1>2, <1>4, <2>1 DEF RecoverInterrupted, RunStep
<1>5. CASE Clock \/ NothingToClaim
  BY <1>5 DEF Clock, NothingToClaim, Tick, ClaimNothing, Promoted, stepVars, SuccessUnmoved
<1>6. CASE Sweep
  <2>1. CASE \E r \in Run : ExpireRunDeadline(r)
    BY <1>2, <2>1 DEF RunStep
  <2>2. CASE \E s \in Step : RecoverExpiredLease(s)
    BY <2>2, QueueStepsMoveNoSuccess DEF QueueStep
  <2>3. QED
    BY <1>6, <2>1, <2>2 DEF Sweep
<1>7. CASE \E r \in Run : Dispatch(r) \/ Reauthorize(r) \/ OperatorCancel(r) \/ OperatorRetry(r)
  BY <1>2, <1>7 DEF Dispatch, Reauthorize, OperatorCancel, OperatorRetry, RunStep
<1>8. CASE \E s \in Step : Refetch(s) \/ Claim(s)
  BY <1>8, QueueStepsMoveNoSuccess DEF Refetch, Claim, QueueStep
<1>9. ASSUME NEW s \in Step, NEW t \in Token, HandleRejected(s, t) PROVE SuccessUnmoved
  BY <1>2, <1>9, WorkersMoveNoSuccess, ConstantTypes DEF HandleRejected, RunStep
<1>10. ASSUME NEW s \in Step, NEW t \in Token,
              AbortClaim(s, t) \/ TimeOut(s, t) \/ Start(s, t) \/ KeepLease(s, t)
       PROVE  SuccessUnmoved
  BY <1>1, <1>9, <1>10, WorkersMoveNoSuccess DEF AbortClaim, TimeOut, Start, KeepLease
<1>11. ASSUME NEW s \in Step, NEW t \in Token, Resolve(s, t) PROVE SuccessUnmoved
  BY <1>1, <1>2, <1>11, WorkersMoveNoSuccess, ConstantTypes DEF Resolve, RunStep
<1>12. ASSUME NEW s \in Step, NEW t \in Token,
              Compute(s, t) \/ Begin(s, t) \/ Send(s, t) \/ Return(s, t)
       PROVE  SuccessUnmoved
  BY <1>1, <1>12 DEF Compute, Begin, Send, Call, Return
<1>13. ASSUME NEW s \in Step, NEW t \in Token, Settle(s, t)
       PROVE  SuccessUnmoved \/ (exec[s][t] = "succeeding" /\ CompleteStep(s, t))
  BY <1>9, <1>13, WorkersMoveNoSuccess DEF Settle
<1>14. QED
  BY <1>3, <1>4, <1>5, <1>6, <1>7, <1>8, <1>10, <1>11, <1>12, <1>13 DEF EffectsNext

\* A step that is done was really done, and stays so.
LEMMA SuccessStep ==
  ASSUME TypeOK, RunsBeforeSteps, EffectsTypeOK, ReceiptInv, SuccessMeansLanded,
         [EffectsNext]_allVars
  PROVE  SuccessMeansLanded'
<1>1. RecordsGrow
  BY RecordsStand
<1>2. \A s \in EffectStep : stepState'[s] = "succeeded" =>
        receipt[s].state = "succeeded" /\ landed[s]
  <2>1. CASE SuccessUnmoved
    BY <2>1, EffectConstants DEF SuccessUnmoved, SuccessMeansLanded
  <2>2. ASSUME NEW s \in Step, NEW t \in Token, exec[s][t] = "succeeding", CompleteStep(s, t)
        PROVE  \A x \in EffectStep : stepState'[x] = "succeeded" =>
                 receipt[x].state = "succeeded" /\ landed[x]
    BY <2>2, CompletionSucceedsAlone, EffectConstants DEF ReceiptInv, SuccessRecorded, SuccessMeansLanded
  <2>3. QED
    BY <2>1, <2>2, OnlySettlementSucceeds
<1>3. QED
  BY <1>1, <1>2 DEF RecordsGrow, SuccessMeansLanded

-----------------------------------------------------------------------------
(* The effect budget *)

\* The effects of r that were ever begun.
BegunIn(r) == {s \in EffectStep : RunOf[s] = r /\ receipt[s].state # "none"}

\* Only receipts.begin opens a receipt, one at a time and within the budget.
LEMMA OneReceiptOpens ==
  ASSUME EffectsTypeOK, ReceiptInv, [EffectsNext]_allVars
  PROVE  \/ \A s \in EffectStep : receipt'[s].state # "none" <=> receipt[s].state # "none"
         \/ \E s \in EffectStep :
              /\ receipt[s].state # "none" \/ Cardinality(BegunIn(RunOf[s])) < Budget
              /\ \A x \in EffectStep :
                   receipt'[x].state # "none" <=> x = s \/ receipt[x].state # "none"
<1> DEFINE Same == \A x \in EffectStep : receipt'[x].state # "none" <=> receipt[x].state # "none"
<1>1. ASSUME UNCHANGED receipt PROVE Same
  BY <1>1
<1>2. ASSUME NEW s \in EffectStep, NEW t \in Token, NEW o \in {"succeeded", "failed", "outcome_unknown"},
             SetReceipt(s, t, o)
      PROVE  Same
  BY <1>2, SetReceiptType DEF OwnsReceipt, ReceiptState
<1>3. ASSUME NEW s \in Step, NEW t \in Token, Send(s, t) \/ Return(s, t) PROVE Same
  <2>1. s \in EffectStep
    BY <1>3 DEF Send, Call, Return, ReceiptInv, OnlyEffectsCall
  <2>2. UNCHANGED receipt \/ \E o \in {"succeeded", "failed", "outcome_unknown"} : SetReceipt(s, t, o)
    BY <1>3 DEF Send, Call, Return, LostResponse
  <2>3. QED
    BY <1>1, <1>2, <2>1, <2>2
<1>4. ASSUME NEW s \in Step, NEW t \in Token, Begin(s, t)
      PROVE  Same \/ (/\ s \in EffectStep
                      /\ receipt[s].state # "none" \/ Cardinality(BegunIn(RunOf[s])) < Budget
                      /\ \A x \in EffectStep :
                           receipt'[x].state # "none" <=> x = s \/ receipt[x].state # "none")
  <2>1. CASE UNCHANGED receipt
    BY <1>1, <2>1
  <2>2. CASE receipt' # receipt
    <3>1. s \in EffectStep /\ Budgeted(s)
          /\ receipt' = [receipt EXCEPT ![s] = [state |-> "running", token |-> t,
                                                digest |-> Digest(s, t)]]
      BY <1>4, <2>2 DEF Begin
    <3>2. receipt'[s].state # "none" /\ \A x \in EffectStep : x # s => receipt'[x] = receipt[x]
      BY <3>1 DEF EffectsTypeOK
    <3>3. receipt[s].state # "none" \/ Cardinality(BegunIn(RunOf[s])) < Budget
      <4>1. IsFiniteSet(BegunIn(RunOf[s]))
        BY EffectsAssumption, FS_Subset DEF BegunIn
      <4>2. Cardinality(BegunIn(RunOf[s])) \in Nat /\ Budget \in Nat
        BY <4>1, FS_CardinalityType, EffectsAssumption
      <4>3. QED
        BY <3>1, <4>2 DEF Budgeted, OverBudget, BegunIn
    <3>4. QED
      BY <3>1, <3>2, <3>3
  <2>3. QED
    BY <2>1, <2>2
<1>5. CASE RecoverInterrupted
  BY <1>5 DEF RecoverInterrupted, Recorded, EffectsTypeOK
<1>6. CASE Shutdown \/ Crash \/ Boot \/ UNCHANGED allVars
  BY <1>1, <1>6 DEF Shutdown, Crash, Boot, allVars, effectVars
<1>7. CASE Sweep \/ NothingToClaim \/ Clock \/ SetEnabled \/ Revoke \/ (\E p \in Policy : Approve(p))
  BY <1>1, <1>7 DEF Sweep, NothingToClaim, Clock, SetEnabled, Revoke, Approve, effectVars
<1>8. CASE \E r \in Run : Dispatch(r) \/ Reauthorize(r) \/ OperatorCancel(r) \/ OperatorRetry(r)
  BY <1>1, <1>8 DEF Dispatch, Reauthorize, OperatorCancel, OperatorRetry, effectVars
<1>9. CASE \E s \in Step : Refetch(s) \/ Claim(s)
  BY <1>1, <1>9 DEF Refetch, Claim, effectVars
<1>10. ASSUME NEW s \in Step, NEW t \in Token,
              AbortClaim(s, t) \/ TimeOut(s, t) \/ Start(s, t) \/ Resolve(s, t)
              \/ KeepLease(s, t) \/ Compute(s, t) \/ Settle(s, t)
       PROVE  Same
  BY <1>1, <1>10 DEF AbortClaim, TimeOut, Start, Resolve, KeepLease, Compute, Settle, effectVars
<1>11. QED
  BY <1>3, <1>4, <1>5, <1>6, <1>7, <1>8, <1>9, <1>10 DEF EffectsNext

\* A receipt opened within the budget leaves its run within the budget.
LEMMA BudgetStep ==
  ASSUME EffectsTypeOK, ReceiptInv, EffectsWithinBudget, [EffectsNext]_allVars
  PROVE  EffectsWithinBudget'
<1>1. CASE \A s \in EffectStep : receipt'[s].state # "none" <=> receipt[s].state # "none"
  <2>1. \A r \in Run : {s \in EffectStep : RunOf[s] = r /\ receipt'[s].state # "none"}
                        = {s \in EffectStep : RunOf[s] = r /\ receipt[s].state # "none"}
    BY <1>1
  <2>2. QED
    BY <2>1 DEF EffectsWithinBudget
<1>2. ASSUME NEW s \in EffectStep,
             receipt[s].state # "none" \/ Cardinality(BegunIn(RunOf[s])) < Budget,
             \A x \in EffectStep : receipt'[x].state # "none" <=> x = s \/ receipt[x].state # "none"
      PROVE  EffectsWithinBudget'
  <2> SUFFICES ASSUME NEW r \in Run
               PROVE  Cardinality({x \in EffectStep : RunOf[x] = r /\ receipt'[x].state # "none"})
                        <= Budget
    BY DEF EffectsWithinBudget
  <2> DEFINE After == {x \in EffectStep : RunOf[x] = r /\ receipt'[x].state # "none"}
  <2>1. Cardinality(BegunIn(r)) <= Budget
    BY DEF EffectsWithinBudget, BegunIn
  <2>2. CASE RunOf[s] = r /\ receipt[s].state = "none"
    <3>1. After = BegunIn(r) \cup {s} /\ s \notin BegunIn(r)
      BY <1>2, <2>2 DEF BegunIn
    <3>2. IsFiniteSet(BegunIn(r))
      BY EffectsAssumption, FS_Subset DEF BegunIn
    <3>3. Cardinality(BegunIn(r)) \in Nat /\ Cardinality(BegunIn(r)) < Budget /\ Budget \in Nat
      BY <1>2, <2>2, <3>2, FS_CardinalityType, EffectsAssumption
    <3>4. Cardinality(After) = Cardinality(BegunIn(r)) + 1
      BY <3>1, <3>2, FS_AddElement
    <3> HIDE DEF After
    <3>5. Cardinality(After) <= Budget
      BY <3>3, <3>4
    <3>6. QED
      BY <3>5 DEF After
  <2>3. CASE ~(RunOf[s] = r /\ receipt[s].state = "none")
    <3>1. After = BegunIn(r)
      BY <1>2, <2>3 DEF BegunIn
    <3>2. QED
      BY <2>1, <3>1
  <2>4. QED
    BY <2>2, <2>3
<1>3. QED
  BY <1>1, <1>2, OneReceiptOpens

-----------------------------------------------------------------------------
(* The theorems *)

\* The gateway starts with nothing sent and nothing recorded.
LEMMA EffectsInvInit == EffectsInit => EffectsInv
<1> SUFFICES ASSUME EffectsInit PROVE EffectsInv
  OBVIOUS
<1>1. LeaseInv
  BY LeaseInit DEF EffectsInit
<1>2. RunsBeforeSteps
  BY DEF EffectsInit, Init, RunsBeforeSteps
<1>3. EffectsTypeOK
  BY ConstantTypes DEF EffectsInit, EffectsTypeOK, ExecState, Unwritten, ReceiptState
<1>4. ReceiptInv
  BY EffectConstants DEF EffectsInit, Unwritten, ReceiptInv, OnlyEffectsCall, BegunOwnsReceipt,
     FailedMeansNotSent, EffectAtMostOnce, SuccessRecorded
<1>5. SuccessMeansLanded
  BY EffectConstants DEF EffectsInit, Init, SuccessMeansLanded
<1>6. QED
  BY <1>1, <1>2, <1>3, <1>4, <1>5 DEF EffectsInv

\* Every step of the gateway, its crashes and the CLI preserves the invariant.
LEMMA EffectsInvStep == EffectsInv /\ [EffectsNext]_allVars => EffectsInv'
<1> SUFFICES ASSUME EffectsInv, [EffectsNext]_allVars PROVE EffectsInv'
  OBVIOUS
<1>1. TypeOK /\ [Next]_vars
  BY QueueRefinement DEF EffectsInv, LeaseInv
<1>2. LeaseInv' /\ RunsBeforeSteps'
  BY <1>1, LeaseNext, RowsStep DEF EffectsInv
<1>3. EffectsTypeOK' /\ ReceiptInv' /\ SuccessMeansLanded'
  BY <1>1, ReceiptStep, SuccessStep DEF EffectsInv
<1>4. QED
  BY <1>2, <1>3 DEF EffectsInv

\* The inductive invariant holds in every reachable state.
LEMMA EffectsAlways == EffectsSpec => []EffectsInv
  BY EffectsInvInit, EffectsInvStep, PTL DEF EffectsSpec

\* The gateway takes the queue's own steps, so that whatever is proved of the
\* queue with any caller at any moment holds of the running system.
LEMMA GatewayImplementsQueue == EffectsSpec => QueueSafety
<1>1. EffectsInit => Init
  BY DEF EffectsInit
<1>2. EffectsInv /\ [EffectsNext]_allVars => [Next]_vars
  BY QueueRefinement DEF EffectsInv
<1>3. QED
  BY <1>1, <1>2, EffectsAlways, PTL DEF EffectsSpec, QueueSafety

\* The gateway's state, its receipts included, keeps its types.
THEOREM EffectsTypeCorrect == EffectsSpec => []EffectsTypeOK
<1>1. EffectsInv => EffectsTypeOK
  BY DEF EffectsInv
<1>2. QED
  BY <1>1, EffectsAlways, PTL

\* However the process crashes, leases are lost, runs are retried and operators
\* interfere, an external effect is requested at most once.
THEOREM EffectsAreRequestedOnce == EffectsSpec => []EffectAtMostOnce
<1>1. EffectsInv => EffectAtMostOnce
  BY DEF EffectsInv, ReceiptInv
<1>2. QED
  BY <1>1, EffectsAlways, PTL

\* A receipt that denies an effect, and so allows a retry, tells the truth.
THEOREM FailedReceiptsAreTrue == EffectsSpec => []FailedMeansNotSent
<1>1. EffectsInv => FailedMeansNotSent
  BY DEF EffectsInv, ReceiptInv
<1>2. QED
  BY <1>1, EffectsAlways, PTL

\* A step reported done was done by the external system, and its receipt says so.
THEOREM SuccessesAreReal == EffectsSpec => []SuccessMeansLanded
<1>1. EffectsInv => SuccessMeansLanded
  BY DEF EffectsInv
<1>2. QED
  BY <1>1, EffectsAlways, PTL

\* A recorded outcome is never rewritten.
THEOREM OutcomesStand == EffectsSpec => RecordedOutcomesStand
<1>1. EffectsInv /\ [EffectsNext]_allVars =>
        [\A s \in EffectStep :
           receipt[s].state \in {"succeeded", "outcome_unknown"} => receipt'[s] = receipt[s]]_allVars
  BY RecordsStand DEF EffectsInv, RecordsGrow
<1>2. QED
  BY <1>1, EffectsAlways, PTL DEF EffectsSpec, RecordedOutcomesStand

\* No run begins more external effects than its budget, across all its retries.
THEOREM BudgetsHold == EffectsSpec => []EffectsWithinBudget
<1>1. EffectsInit => EffectsWithinBudget
  <2> SUFFICES ASSUME EffectsInit, NEW r \in Run
               PROVE  Cardinality({s \in EffectStep : RunOf[s] = r /\ receipt[s].state # "none"}) <= Budget
    BY DEF EffectsWithinBudget
  <2>1. {s \in EffectStep : RunOf[s] = r /\ receipt[s].state # "none"} = {}
    BY DEF EffectsInit, Unwritten
  <2>2. Cardinality({}) = 0
    BY FS_EmptySet
  <2>3. 0 <= Budget
    BY EffectsAssumption
  <2>4. QED
    BY <2>1, <2>2, <2>3
<1>2. EffectsInv /\ EffectsWithinBudget /\ [EffectsNext]_allVars => EffectsWithinBudget'
  BY BudgetStep DEF EffectsInv
<1>3. QED
  BY <1>1, <1>2, EffectsAlways, PTL DEF EffectsSpec

\* So the running system, with its crashes, receipts and operators, keeps the
\* queue's promises: a step never runs before those it depends on, no run is left
\* without a step that could go on, an ended or paused run has no work under way,
\* and a completed step was completed by its last attempt.
THEOREM GatewayKeepsQueue ==
  EffectsSpec => [](/\ DependenciesFirst /\ NoRunIsStranded /\ EndedRunsAreQuiet
                    /\ ApprovalGateIsTotal /\ SucceededByLastAttempt)
<1>1. EffectsSpec => Spec
  BY GatewayImplementsQueue DEF QueueSafety, Spec
<1>2. QED
  BY <1>1, DependenciesRespected, RunsAreNotStranded, EndedRunsStayQuiet, GateStaysTotal,
     LastAttemptSucceeds, PTL
=============================================================================
