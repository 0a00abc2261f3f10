------------------------------ MODULE CloudCommands ------------------------------
(***************************************************************************)
(* src/cloud-workflow.ts: commands that the cloud leases to the gateway,   *)
(* their inbox and effect receipts in SQLite, and the extension that       *)
(* claims, executes, answers and recovers them on the runner's ticks,      *)
(* beside an operator's CLI (src/cloud-command-cli.ts) on the same         *)
(* database.                                                               *)
(*                                                                         *)
(* A tick makes one network call at a time and runs at most one effect     *)
(* beside it; its parts come in any order, since its phases rotate and any *)
(* of them may be cut short.  The cloud acts when a call is made and its   *)
(* reply arrives later, or never.  Times are truth values: a lease that is *)
(* live, a command that has expired; a back-off ends at any time, so that  *)
(* any queued command may be the oldest that is due.  The audit projection *)
(* of the same file is not part of this module.                            *)
(***************************************************************************)
EXTENDS Integers, FiniteSets

CONSTANTS
  Command,
  MaxClaims,         \* bound of the model: claims of one command
  MaxRetries,        \* bound of the model: retries the operator orders
  MaxLocalAttempts,  \* cloudCommands.maximumLocalAttempts
  MaxRejections,     \* five in the code
  None

ASSUME CloudAssumption ==
  /\ IsFiniteSet(Command)
  /\ MaxClaims \in Nat /\ MaxRetries \in Nat
  /\ MaxLocalAttempts \in Nat \ {0} /\ MaxRejections \in Nat \ {0}
  /\ None \notin Command

VARIABLES
  inbox,      \* cloud_command_inbox
  receipt,    \* cloud_effect_receipts
  cloud,      \* external: the state of each command in the cloud
  safe,       \* commands whose effect may be repeated: isRetrySafe
  expired,    \* commands whose expiresAt has passed
  policy,     \* what the configuration of this process makes of a command
  recovered,  \* this process has looked for interrupted effects
  net,        \* the tick's network call
  exec,       \* inFlight: the effect under way
  ordered,    \* command whose retry the CLI is in the middle of, or None
  calls,      \* history: requests made to the outside per command
  retried     \* history: retries the operator ordered

tables == <<inbox, receipt>>
memory == <<recovered, net, exec>>
past   == <<calls, retried>>
vars   == <<tables, cloud, safe, expired, policy, memory, ordered, past>>

Verdict  == {"deny", "approval", "allow"}
Result   == {"succeeded", "rejected", "failed"}
Answered == {"terminal_pending", "dead_letter"}
Waiting  == {"received", "awaiting_approval", "queued"}
Active   == Waiting \cup {"running", "terminal_pending"}

Row ==
  [state : Active \cup {"none", "dead_letter", "succeeded", "rejected", "failed"},
   attempt : 0..MaxClaims, live : BOOLEAN, local : Nat, result : Result \cup {"none"},
   rejections : 0..MaxRejections, completed : BOOLEAN]
Receipt == [state : {"none", "prepared", "running", "succeeded", "failed", "outcome_unknown"},
            token : Nat]

TypeOK ==
  /\ inbox \in [Command -> Row] /\ receipt \in [Command -> Receipt]
  /\ cloud \in [Command -> [state : {"pending", "leased", "terminal"}, attempt : 0..MaxClaims,
                            live : BOOLEAN, result : Result \cup {"none"}]]
  /\ safe \subseteq Command /\ expired \subseteq Command
  /\ policy \in [Command -> Verdict] /\ recovered \in BOOLEAN
  /\ net.kind \in {"idle", "claimed", "decide", "extended", "batch", "submitted"}
  /\ exec.c \in Command \cup {None} /\ ordered \in Command \cup {None}
  /\ calls \in [Command -> Nat] /\ retried \in [Command -> 0..MaxRetries]
  /\ \A c \in Command :
       /\ inbox[c].state = "running" <=> receipt[c].state = "running"
       /\ inbox[c].completed => inbox[c].state \notin Active
       /\ inbox[c].state \in Answered => inbox[c].result # "none"

NoRow     == [state |-> "none", attempt |-> 0, live |-> FALSE,
              local |-> 0, result |-> "none", rejections |-> 0, completed |-> FALSE]
NoReceipt == [state |-> "none", token |-> 0]
Pending   == [state |-> "pending", attempt |-> 0, live |-> FALSE, result |-> "none"]
Quiet     == [kind |-> "idle"]
NoEffect  == [c |-> None, token |-> 0, sent |-> FALSE, done |-> FALSE]

Init ==
  /\ inbox = [c \in Command |-> NoRow] /\ receipt = [c \in Command |-> NoReceipt]
  /\ cloud = [c \in Command |-> Pending]
  /\ safe \in SUBSET Command /\ expired = {} /\ policy \in [Command -> Verdict]
  /\ recovered = FALSE /\ net = Quiet /\ exec = NoEffect /\ ordered = None
  /\ calls = [c \in Command |-> 0] /\ retried = [c \in Command |-> 0]

Idle           == recovered /\ net = Quiet
Quarantined(c) == inbox[c].rejections >= MaxRejections
SetRow(c, row) == inbox' = [inbox EXCEPT ![c] = row]

-----------------------------------------------------------------------------
(* Claims *)

\* The cloud hands out a command that nobody holds; the reply is on its way.
ClaimCommand(c) ==
  /\ Idle /\ c \notin expired
  /\ cloud[c].state = "pending" \/ (cloud[c].state = "leased" /\ ~cloud[c].live)
  /\ cloud[c].attempt < MaxClaims
  /\ cloud' = [cloud EXCEPT ![c] = [@ EXCEPT !.state = "leased", !.live = TRUE,
                                          !.attempt = cloud[c].attempt + 1]]
  /\ net' = [kind |-> "claimed", c |-> c, attempt |-> cloud[c].attempt + 1]
  /\ UNCHANGED <<tables, safe, expired, policy, recovered, exec, ordered, past>>

\* A new command is received; a known one takes over the lease unless it is over.
PersistClaim ==
  /\ net.kind = "claimed"
  /\ LET c == net.c IN
       /\ \/ /\ inbox[c].state = "none"
             /\ SetRow(c, [NoRow EXCEPT !.state = "received", !.attempt = net.attempt,
                                        !.live = TRUE])
          \/ /\ inbox[c].state # "none" /\ ~inbox[c].completed
             /\ SetRow(c, [inbox[c] EXCEPT !.attempt = net.attempt, !.live = TRUE])
          \/ inbox[c].completed /\ UNCHANGED inbox
       /\ net' = [kind |-> "decide", c |-> c]
  /\ UNCHANGED <<receipt, cloud, safe, expired, policy, recovered, exec, ordered, past>>

\* setTerminalPending
Reject(c) ==
  SetRow(c, [inbox[c] EXCEPT !.state = "terminal_pending", !.result = "rejected"])

\* localPolicyDenial
Denied(c) == c \in expired \/ policy[c] = "deny"

\* The rest of the poll: deny, ask for approval or queue what is still received.
Decide ==
  /\ net.kind = "decide" /\ net' = Quiet
  /\ LET c == net.c IN
       \/ inbox[c].state # "received" /\ UNCHANGED inbox
       \/ inbox[c].state = "received" /\ Denied(c) /\ Reject(c)
       \/ /\ inbox[c].state = "received" /\ ~Denied(c)
          /\ SetRow(c, [inbox[c] EXCEPT !.state = IF policy[c] = "approval"
                                                 THEN "awaiting_approval" ELSE "queued"])
  /\ UNCHANGED <<receipt, cloud, safe, expired, policy, recovered, exec, ordered, past>>

ExpireCommand(c) ==
  /\ recovered /\ c \in expired /\ inbox[c].state \in Waiting
  /\ Reject(c)
  /\ UNCHANGED <<receipt, cloud, safe, expired, policy, memory, ordered, past>>

-----------------------------------------------------------------------------
(* Leases *)

LeaseCandidate(c) ==
  /\ inbox[c].state \in Active /\ inbox[c].live /\ c \notin expired
  /\ inbox[c].state = "terminal_pending" => ~Quarantined(c)

HeldInCloud(c, attempt) ==
  cloud[c].state = "leased" /\ cloud[c].live /\ cloud[c].attempt = attempt

ExtendLease(c) ==
  /\ Idle /\ LeaseCandidate(c)
  /\ net' = [kind |-> "extended", c |-> c, attempt |-> inbox[c].attempt,
             ok |-> HeldInCloud(c, inbox[c].attempt)]
  /\ UNCHANGED <<tables, cloud, safe, expired, policy, recovered, exec, ordered, past>>

\* updateLease does not look at the attempt, invalidateLease does.
Renewed(c, attempt, ok) ==
  \/ ok /\ SetRow(c, IF inbox[c].state \in Active THEN [inbox[c] EXCEPT !.live = TRUE]
                     ELSE inbox[c])
  \/ ~ok /\ SetRow(c, IF inbox[c].attempt = attempt /\ ~inbox[c].completed
                      THEN [inbox[c] EXCEPT !.live = FALSE] ELSE inbox[c])

LeaseExtended ==
  /\ net.kind = "extended" /\ net' = Quiet
  /\ Renewed(net.c, net.attempt, net.ok)
  /\ UNCHANGED <<receipt, cloud, safe, expired, policy, recovered, exec, ordered, past>>

\* The heartbeat of an effect under way, beside the tick.
MaintainLease ==
  /\ exec.c # None /\ inbox[exec.c].live /\ exec.c \notin expired
  /\ Renewed(exec.c, inbox[exec.c].attempt, HeldInCloud(exec.c, inbox[exec.c].attempt))
  /\ UNCHANGED <<receipt, cloud, safe, expired, policy, memory, ordered, past>>

-----------------------------------------------------------------------------
(* Effects *)

\* The oldest that is due, unless its lease has run out.
NextReady(c) == inbox[c].state = "queued" /\ inbox[c].live

\* execute, when the policy has changed or the lifetime has passed meanwhile
DenyEffect(c) ==
  /\ Idle /\ exec = NoEffect /\ NextReady(c) /\ Denied(c)
  /\ Reject(c)
  /\ UNCHANGED <<receipt, cloud, safe, expired, policy, memory, ordered, past>>

StartEffect(c) ==
  /\ Idle /\ exec = NoEffect /\ NextReady(c) /\ ~Denied(c)
  /\ receipt[c].state \in {"none", "prepared", "failed"}
  /\ LET token == IF receipt[c].state = "prepared" THEN receipt[c].token ELSE inbox[c].local + 1
     IN /\ receipt' = [receipt EXCEPT ![c] = [state |-> "running", token |-> token]]
        /\ exec' = [NoEffect EXCEPT !.c = c, !.token = token]
  /\ SetRow(c, [inbox[c] EXCEPT !.state = "running", !.local = @ + 1])
  /\ UNCHANGED <<cloud, safe, expired, policy, recovered, net, ordered, past>>

\* The executor asks the outside, which does what it is asked or does not.
RequestEffect ==
  /\ exec.c # None /\ ~exec.sent
  /\ \E done \in BOOLEAN : exec' = [exec EXCEPT !.sent = TRUE, !.done = done]
  /\ calls' = [calls EXCEPT ![exec.c] = @ + 1]
  /\ UNCHANGED <<tables, cloud, safe, expired, policy, recovered, net, ordered, retried>>

OwnsReceipt == receipt[exec.c] = [state |-> "running", token |-> exec.token]

\* The executor reports what was done, or refuses before it asks (a chat
\* message whose origin is not what it must be).
Reported(r) ==
  \/ r = "succeeded" /\ exec.done
  \/ r = "rejected" /\ ~exec.sent

CompleteEffect ==
  /\ exec.c # None /\ OwnsReceipt
  /\ \E r \in Result :
       /\ Reported(r)
       /\ SetRow(exec.c, [inbox[exec.c] EXCEPT !.state = "terminal_pending", !.result = r])
  /\ receipt' = [receipt EXCEPT ![exec.c].state = "succeeded"]
  /\ exec' = NoEffect
  /\ UNCHANGED <<cloud, safe, expired, policy, recovered, net, ordered, past>>

Repeatable(c) == c \in safe /\ inbox[c].local < MaxLocalAttempts

\* An error before the request or after it, whatever the outside has done.
FailEffect(retryable) ==
  /\ exec.c # None /\ OwnsReceipt
  /\ receipt' = [receipt EXCEPT ![exec.c].state = "failed"]
  /\ SetRow(exec.c,
       IF retryable /\ Repeatable(exec.c)
       THEN [inbox[exec.c] EXCEPT !.state = "queued"]
       ELSE [inbox[exec.c] EXCEPT !.state = "terminal_pending", !.result = "failed"])
  /\ exec' = NoEffect
  /\ UNCHANGED <<cloud, safe, expired, policy, recovered, net, ordered, past>>

-----------------------------------------------------------------------------
(* Crash, shutdown and recovery *)

Interrupted == {c \in Command : inbox[c].state = "running" /\ receipt[c].state = "running"}

\* Mistake: an interrupted effect is taken for one that failed.
MutRecoveredTables ==
  /\ receipt' = [c \in Command |-> IF c \in Interrupted
                                   THEN [receipt[c] EXCEPT !.state = "failed"] ELSE receipt[c]]
  /\ inbox' = [c \in Command |-> IF c \in Interrupted
                                 THEN [inbox[c] EXCEPT !.state = "queued"] ELSE inbox[c]]

RecoveredTables ==
  /\ receipt' = [c \in Command |-> IF c \in Interrupted
                                   THEN [receipt[c] EXCEPT !.state = "outcome_unknown"]
                                   ELSE receipt[c]]
  /\ inbox' = [c \in Command |-> IF c \in Interrupted
                                 THEN [inbox[c] EXCEPT !.state = "dead_letter", !.result = "failed"]
                                 ELSE inbox[c]]

RecoverInterruptedEffects ==
  /\ ~recovered /\ recovered' = TRUE
  /\ RecoveredTables
  /\ UNCHANGED <<cloud, safe, expired, policy, net, exec, ordered, past>>

Restarted ==
  /\ recovered' = FALSE /\ net' = Quiet /\ exec' = NoEffect
  /\ policy' \in [Command -> Verdict]

Crash ==
  /\ Restarted
  /\ UNCHANGED <<tables, cloud, safe, expired, ordered, past>>

\* stop aborts the effect, whose execution runs the recovery before it ends.
Stop ==
  /\ exec.c # None /\ Restarted
  /\ RecoveredTables
  /\ UNCHANGED <<cloud, safe, expired, ordered, past>>

-----------------------------------------------------------------------------
(* Answers *)

\* Mistake: a dead letter has no answer.
MutSubmittable(c) ==
  /\ inbox[c].state = "terminal_pending" /\ inbox[c].result # "none" /\ ~inbox[c].completed
  /\ ~Quarantined(c)

Submittable(c) ==
  /\ inbox[c].state \in Answered /\ inbox[c].result # "none" /\ ~inbox[c].completed
  /\ ~Quarantined(c)

\* A batch holds the results as they were read; the lease is read for each.
ReadResults ==
  /\ Idle
  /\ \E due \in (SUBSET {c \in Command : Submittable(c)}) \ {{}} :
       net' = [kind |-> "batch", rest |-> {<<c, inbox[c].result>> : c \in due}]
  /\ UNCHANGED <<tables, cloud, safe, expired, policy, recovered, exec, ordered, past>>

\* The cloud records the result of the lease that holds the command, and
\* acknowledges it again.
SubmitResult(c, result) ==
  /\ net.kind = "batch" /\ <<c, result>> \in net.rest
  /\ LET attempt   == inbox[c].attempt
         duplicate == cloud[c].state = "terminal" /\ cloud[c].attempt = attempt
                      /\ cloud[c].result = result
         fresh     == HeldInCloud(c, attempt)
     IN /\ cloud' = IF fresh THEN [cloud EXCEPT ![c] = [@ EXCEPT !.state = "terminal",
                                                                  !.result = result]]
                    ELSE cloud
        /\ net' = [kind |-> "submitted", c |-> c, attempt |-> attempt, result |-> result,
                   ok |-> fresh \/ duplicate, rest |-> net.rest \ {<<c, result>>}]
  /\ UNCHANGED <<tables, safe, expired, policy, recovered, exec, ordered, past>>

Remaining == IF net.rest = {} THEN Quiet ELSE [kind |-> "batch", rest |-> net.rest]

\* Mistake: any acknowledgement completes the row.
MutStillSubmitted(c) == inbox[c].state \in Active \cup {"dead_letter"}

\* The row still stands for what was submitted.
StillSubmitted(c) ==
  /\ inbox[c].state \in Answered /\ ~inbox[c].completed
  /\ inbox[c].result = net.result /\ inbox[c].attempt = net.attempt

FinalState(c) ==
  IF inbox[c].result = "failed" /\ (inbox[c].state = "dead_letter"
                                    \/ receipt[c].state \in {"failed", "outcome_unknown"})
  THEN "dead_letter" ELSE inbox[c].result

MarkSubmitted ==
  /\ net.kind = "submitted" /\ net.ok /\ net' = Remaining
  /\ SetRow(net.c, IF StillSubmitted(net.c)
                   THEN [inbox[net.c] EXCEPT !.state = FinalState(net.c), !.completed = TRUE,
                                             !.rejections = 0]
                   ELSE inbox[net.c])
  /\ UNCHANGED <<receipt, cloud, safe, expired, policy, recovered, exec, ordered, past>>

\* A permanent rejection, or an answer that makes no sense.
FailSubmission ==
  /\ net.kind = "submitted" /\ net' = Remaining
  /\ SetRow(net.c, IF StillSubmitted(net.c) /\ ~Quarantined(net.c)
                   THEN [inbox[net.c] EXCEPT !.rejections = @ + 1]
                   ELSE inbox[net.c])
  /\ UNCHANGED <<receipt, cloud, safe, expired, policy, recovered, exec, ordered, past>>

\* A failed connection or the end of the tick's budget: the reply is lost, and
\* so is the rest of a batch.
NetworkDeferred ==
  /\ net.kind \notin {"idle", "decide"} /\ net' = Quiet
  /\ UNCHANGED <<tables, cloud, safe, expired, policy, recovered, exec, ordered, past>>

-----------------------------------------------------------------------------
(* The operator's CLI, another process *)

RejectByOperator(c) ==
  /\ inbox[c].state \in Waiting
  /\ Reject(c)
  /\ UNCHANGED <<receipt, cloud, safe, expired, policy, memory, ordered, past>>

Approve(c) ==
  /\ inbox[c].state = "awaiting_approval"
  /\ SetRow(c, [inbox[c] EXCEPT !.state = "queued"])
  /\ UNCHANGED <<receipt, cloud, safe, expired, policy, memory, ordered, past>>

Retriable(c) == receipt[c].state \in {"none", "failed"}

\* retry is two statements without a transaction around them.
RetryReceipt(c) ==
  /\ ordered = None /\ retried[c] < MaxRetries
  /\ inbox[c].state \in Answered /\ ~inbox[c].completed /\ inbox[c].result = "failed"
  /\ Retriable(c)
  /\ receipt' = [receipt EXCEPT ![c] = IF @.state = "none" THEN @
                                       ELSE [state |-> "prepared", token |-> inbox[c].local + 1]]
  /\ ordered' = c
  /\ UNCHANGED <<inbox, cloud, safe, expired, policy, memory, past>>

RetryCommand ==
  /\ ordered # None /\ ordered' = None
  /\ IF inbox[ordered].state \in Answered /\ ~inbox[ordered].completed
     THEN /\ SetRow(ordered, [inbox[ordered] EXCEPT !.state = "queued",
                                                    !.result = "none", !.rejections = 0])
          /\ retried' = [retried EXCEPT ![ordered] = @ + 1]
     ELSE UNCHANGED <<inbox, retried>>
  /\ UNCHANGED <<receipt, cloud, safe, expired, policy, memory, calls>>

RetryDies ==
  /\ ordered # None /\ ordered' = None
  /\ UNCHANGED <<tables, cloud, safe, expired, policy, memory, past>>

RetrySubmission(c) ==
  /\ inbox[c].state \in Answered /\ inbox[c].result # "none" /\ ~inbox[c].completed
  /\ SetRow(c, [inbox[c] EXCEPT !.rejections = 0])
  /\ UNCHANGED <<receipt, cloud, safe, expired, policy, memory, ordered, past>>

-----------------------------------------------------------------------------
(* Time *)

LeaseLapses(c) ==
  /\ inbox[c].live
  /\ SetRow(c, [inbox[c] EXCEPT !.live = FALSE])
  /\ UNCHANGED <<receipt, cloud, safe, expired, policy, memory, ordered, past>>

\* The cloud's lease lasts at least as long as what the gateway knows of it.
CloudLeaseLapses(c) ==
  /\ cloud[c].live
  /\ ~(inbox[c].live /\ inbox[c].attempt = cloud[c].attempt)
  /\ cloud' = [cloud EXCEPT ![c].live = FALSE]
  /\ UNCHANGED <<tables, safe, expired, policy, memory, ordered, past>>

Expires(c) ==
  /\ c \notin expired /\ expired' = expired \cup {c}
  /\ UNCHANGED <<tables, cloud, safe, policy, memory, ordered, past>>

-----------------------------------------------------------------------------

Submitted(c) == \E r \in Result : SubmitResult(c, r)

Tick ==
  \/ PersistClaim \/ Decide \/ LeaseExtended \/ MarkSubmitted \/ FailSubmission
  \/ NetworkDeferred \/ ReadResults \/ RecoverInterruptedEffects
  \/ \E c \in Command :
       \/ ClaimCommand(c) \/ ExpireCommand(c) \/ ExtendLease(c)
       \/ DenyEffect(c) \/ StartEffect(c)
       \/ Submitted(c)

Effect ==
  \/ RequestEffect \/ CompleteEffect \/ MaintainLease
  \/ \E retryable \in BOOLEAN : FailEffect(retryable)

Operator ==
  \/ RetryCommand \/ RetryDies
  \/ \E c \in Command :
       RejectByOperator(c) \/ Approve(c) \/ RetryReceipt(c) \/ RetrySubmission(c)

Time ==
  \E c \in Command : LeaseLapses(c) \/ CloudLeaseLapses(c) \/ Expires(c)

Next == Tick \/ Effect \/ Operator \/ Time \/ Crash \/ Stop

Spec == Init /\ [][Next]_vars

Proceeds      == RecoverInterruptedEffects \/ Decide \/ NetworkDeferred
Ends(c)       == Expires(c) \/ ExpireCommand(c)
Finished(c)   == exec.c = c /\ (CompleteEffect \/ \E r \in BOOLEAN : FailEffect(r))
ResultRead(c) == ReadResults /\ <<c, inbox[c].result>> \in net'.rest
Replied(c)    == net.kind = "submitted" /\ net.c = c /\ (MarkSubmitted \/ FailSubmission)

Fairness ==
  /\ WF_vars(Proceeds)
  /\ \A c \in Command :
       /\ SF_vars(Ends(c)) /\ SF_vars(Finished(c))
       /\ SF_vars(ResultRead(c)) /\ SF_vars(Submitted(c)) /\ SF_vars(Replied(c))

FairSpec == Spec /\ Fairness

-----------------------------------------------------------------------------
(* Properties *)

Ledger == INSTANCE CommandLedger WITH
  repeatable <- safe,
  requests <- calls,
  answer   <- [c \in Command |-> cloud[c].result],
  reopened <- {c \in Command : retried[c] > 0}

\* Through redelivered commands, lost replies, crashes and policy changes, the
\* gateway asks the outside for what a command wants at most once, unless that
\* may be repeated or an operator said so, never after the cloud has recorded an
\* answer, and what the cloud has recorded as done was asked for and as
\* rejected was not.
LedgerIsKept == Ledger!Spec

\* A command the gateway takes for answered has that answer in the cloud.
AnswersAgree ==
  \A c \in Command : inbox[c].completed => cloud[c].result = inbox[c].result

\* Every command the gateway received is answered in the cloud, or quarantined
\* after answers that the cloud refuses, once the operator no longer orders
\* those to be sent again.
EveryCommandSettles ==
  \A c \in Command :
    <>[][~RetrySubmission(c)]_vars =>
      (inbox[c].state # "none" ~> inbox[c].completed \/ Quarantined(c))
=============================================================================
