------------------------ MODULE CloudCommandsProofs ------------------------
(* Proofs about the cloud command bridge, for every set of commands and    *)
(* every bound: what the cloud records as the answer of a command is true, *)
(* and nothing is asked of the outside twice that may not be.              *)
EXTENDS CloudCommands, TLAPS

(* The inductive invariant *)

\* Commands the operator ordered to be tried again.
Reopened == {c \in Command : retried[c] > 0}

\* States of a row whose command was not answered yet.
Open == Waiting \cup {"none", "running"}

\* An effect under way owns the running receipt of a running command.
ExecOK ==
  /\ exec \in [c : Command \cup {None}, token : Nat, sent : BOOLEAN, done : BOOLEAN]
  /\ exec.done => exec.sent
  /\ exec.c # None =>
       /\ recovered /\ inbox[exec.c].state = "running"
       /\ receipt[exec.c] = [state |-> "running", token |-> exec.token]
       /\ exec.sent => calls[exec.c] > 0

NetOK ==
  CASE net.kind = "claimed"   -> net.c \in Command /\ net.attempt \in 0..MaxClaims
    [] net.kind = "decide"    -> net.c \in Command
    [] net.kind = "extended"  -> net.c \in Command
    [] net.kind = "batch"     -> net.rest \subseteq Command \X Result
    [] net.kind = "submitted" -> net.c \in Command /\ net.rest \subseteq Command \X Result
    [] OTHER -> TRUE

CloudOK ==
  /\ \A c \in Command : cloud[c].state # "terminal" => cloud[c].result = "none"
  /\ net.kind = "submitted" /\ net.ok =>
       cloud[net.c].state = "terminal" /\ cloud[net.c].result = net.result

OpenOK ==
  \A c \in Command : inbox[c].state \in Open =>
    /\ inbox[c].result = "none"
    /\ c \notin Reopened => cloud[c].result = "none"

CallsOK ==
  \A c \in Command \ (safe \cup Reopened) : calls[c] > 0 =>
    inbox[c].state \notin Waiting \cup {"none"} /\ (exec.c = c => exec.sent)

ResultsOK ==
  \A c \in Command :
    /\ inbox[c].result = "succeeded" => calls[c] > 0
    /\ inbox[c].result = "rejected" /\ c \notin safe \cup Reopened => calls[c] = 0

BatchOK ==
  net.kind \in {"batch", "submitted"} => \A p \in net.rest :
    /\ p[2] = "succeeded" => calls[p[1]] > 0
    /\ p[1] \notin Reopened => inbox[p[1]].state \notin Open /\ inbox[p[1]].result = p[2]

OrderOK == ordered # None => retried[ordered] < MaxRetries

-----------------------------------------------------------------------------
(* What the helpers write *)

RowStates == Active \cup {"none", "dead_letter", "succeeded", "rejected", "failed"}

\* The constants of the bridge, as the proofs use them.
LEMMA ConstantTypes ==
  MaxClaims \in Nat /\ MaxRetries \in Nat /\ MaxRejections \in Nat /\ MaxRejections > 0
  BY CloudAssumption

\* Changing the columns of a row leaves a row.
LEMMA RowTypes ==
  ASSUME NEW row \in Row
  PROVE  /\ \A s \in RowStates : [row EXCEPT !.state = s] \in Row
         /\ \A s \in RowStates, r \in Result \cup {"none"} : [row EXCEPT !.state = s, !.result = r] \in Row
         /\ \A s \in RowStates :
              [row EXCEPT !.state = s, !.result = "none", !.rejections = 0] \in Row
         /\ \A s \in RowStates :
              [row EXCEPT !.state = s, !.completed = TRUE, !.rejections = 0] \in Row
         /\ \A s \in RowStates : [row EXCEPT !.state = s, !.local = @ + 1] \in Row
         /\ \A n \in 0..MaxClaims : [row EXCEPT !.attempt = n, !.live = TRUE] \in Row
         /\ \A live \in BOOLEAN : [row EXCEPT !.live = live] \in Row
         /\ \A k \in 0..MaxRejections : [row EXCEPT !.rejections = k] \in Row
<1>1. row \in [state : RowStates, attempt : 0..MaxClaims, live : BOOLEAN, local : Nat,
               result : Result \cup {"none"}, rejections : 0..MaxRejections, completed : BOOLEAN]
  BY DEF Row, RowStates
<1>2. row.local + 1 \in Nat /\ 0 \in 0..MaxRejections
  BY <1>1, ConstantTypes
<1> HIDE DEF RowStates
<1>3. QED
  BY <1>1, <1>2 DEF Row, RowStates

\* The first row of a command, and an empty receipt, are well typed.
LEMMA FirstRows ==
  /\ NoRow \in Row /\ NoReceipt \in Receipt
  /\ \A n \in 0..MaxClaims :
       [NoRow EXCEPT !.state = "received", !.attempt = n, !.live = TRUE] \in Row
<1>1. 0 \in 0..MaxClaims /\ 0 \in 0..MaxRejections
  BY ConstantTypes
<1>2. NoRow \in Row
  BY <1>1 DEF NoRow, Row
<1>3. NoReceipt \in Receipt
  BY DEF NoReceipt, Receipt
<1>4. "received" \in RowStates /\ TRUE \in BOOLEAN
  BY DEF RowStates, Active, Waiting
<1>5. QED
  BY <1>1, <1>2, <1>3, <1>4 DEF NoRow, Row, Active, Waiting

\* Writing one row leaves the others.
LEMMA SetRowType ==
  ASSUME inbox \in [Command -> Row], NEW c \in Command, NEW row \in Row, SetRow(c, row)
  PROVE  /\ inbox' \in [Command -> Row]
         /\ \A x \in Command : inbox'[x] = IF x = c THEN row ELSE inbox[x]
  BY DEF SetRow

-----------------------------------------------------------------------------
(* Types *)

\* Whatever else the types need: the effect, the call and the order under way.
WellFormed == TypeOK /\ ExecOK /\ NetOK /\ OrderOK

\* The tables agree on which effects are running and what has an answer.
RowsAgree(rows, receipts) ==
  \A c \in Command :
    /\ rows[c].state = "running" <=> receipts[c].state = "running"
    /\ rows[c].completed => rows[c].state \notin Active
    /\ rows[c].state \in Answered => rows[c].result # "none"

\* A step that writes one row, moving no command into or out of a running
\* effect, keeps the project's tables well formed.
LEMMA RowWritten ==
  ASSUME WellFormed, NEW c \in Command, NEW row \in Row, SetRow(c, row),
         row.state = "running" <=> inbox[c].state = "running",
         row.completed => row.state \notin Active,
         row.state \in Answered => row.result # "none",
         UNCHANGED <<receipt, cloud, safe, policy, recovered, exec, ordered, past>>,
         expired' \subseteq Command, NetOK',
         net'.kind \in {"idle", "claimed", "decide", "extended", "batch", "submitted"}
  PROVE  WellFormed'
<1>1. /\ inbox' \in [Command -> Row]
      /\ \A x \in Command : inbox'[x] = IF x = c THEN row ELSE inbox[x]
  BY SetRowType DEF WellFormed, TypeOK
<1>2. RowsAgree(inbox', receipt)
  BY <1>1 DEF WellFormed, TypeOK, RowsAgree
<1>3. TypeOK'
  BY <1>1, <1>2 DEF WellFormed, TypeOK, RowsAgree, past
<1>4. ExecOK'
  BY <1>1 DEF WellFormed, ExecOK, past
<1>5. OrderOK'
  BY DEF WellFormed, OrderOK, past
<1>6. QED
  BY <1>3, <1>4, <1>5 DEF WellFormed

\* A step that changes nothing but the network call, the clock or the cloud.
LEMMA RowsUntouched ==
  ASSUME WellFormed, UNCHANGED <<inbox, receipt, safe, policy, recovered, exec, past>>,
         ordered' \in {ordered, None},
         expired' \subseteq Command, NetOK',
         net'.kind \in {"idle", "claimed", "decide", "extended", "batch", "submitted"},
         cloud' \in [Command -> [state : {"pending", "leased", "terminal"}, attempt : 0..MaxClaims,
                                 live : BOOLEAN, result : Result \cup {"none"}]]
  PROVE  WellFormed'
<1>1. TypeOK'
  BY DEF WellFormed, TypeOK, past
<1>2. ExecOK' /\ OrderOK'
  BY DEF WellFormed, ExecOK, OrderOK, past
<1>3. QED
  BY <1>1, <1>2 DEF WellFormed

\* Rejecting a command that waits writes its answer.
LEMMA RejectTypes ==
  ASSUME WellFormed, NEW c \in Command, inbox[c].state \in Waiting, Reject(c),
         UNCHANGED <<receipt, cloud, safe, policy, recovered, exec, ordered, past>>,
         expired' \subseteq Command, NetOK',
         net'.kind \in {"idle", "claimed", "decide", "extended", "batch", "submitted"}
  PROVE  WellFormed'
<1> DEFINE row == [inbox[c] EXCEPT !.state = "terminal_pending", !.result = "rejected"]
<1>1. inbox[c] \in Row /\ "terminal_pending" \in RowStates /\ "rejected" \in Result \cup {"none"}
  BY DEF WellFormed, TypeOK, RowStates, Active, Result
<1>2. row \in Row
  BY <1>1, RowTypes
<1>3. row.state = "terminal_pending" /\ row.result = "rejected" /\ row.completed = inbox[c].completed
  BY <1>1 DEF Row
<1>4. ~inbox[c].completed /\ inbox[c].state # "running"
  BY DEF WellFormed, TypeOK, Active, Waiting
<1>5. SetRow(c, row)
  BY DEF Reject
<1> HIDE DEF row
<1>6. QED
  BY <1>2, <1>3, <1>4, <1>5, RowWritten

\* A command that waits goes on waiting.
LEMMA WaitTypes ==
  ASSUME WellFormed, NEW c \in Command, inbox[c].state \in Waiting,
         NEW s \in {"awaiting_approval", "queued"}, SetRow(c, [inbox[c] EXCEPT !.state = s]),
         UNCHANGED <<receipt, cloud, safe, policy, recovered, exec, ordered, past>>,
         expired' \subseteq Command, NetOK',
         net'.kind \in {"idle", "claimed", "decide", "extended", "batch", "submitted"}
  PROVE  WellFormed'
<1> DEFINE row == [inbox[c] EXCEPT !.state = s]
<1>1. inbox[c] \in Row /\ s \in RowStates
  BY DEF WellFormed, TypeOK, RowStates, Active, Waiting
<1>2. row \in Row
  BY <1>1, RowTypes
<1>3. row.state = s /\ row.result = inbox[c].result /\ row.completed = inbox[c].completed
  BY <1>1 DEF Row
<1>4. ~inbox[c].completed /\ inbox[c].state # "running" /\ s \in Active \ (Answered \cup {"running"})
  BY DEF WellFormed, TypeOK, Active, Waiting, Answered
<1> HIDE DEF row
<1>5. QED
  BY <1>2, <1>3, <1>4, RowWritten DEF row

\* A lease that is renewed or lost changes nothing but the lease of its row.
LEMMA RenewedTypes ==
  ASSUME WellFormed, NEW c \in Command, NEW n, NEW ok, Renewed(c, n, ok),
         UNCHANGED <<receipt, cloud, safe, policy, recovered, exec, ordered, past>>,
         expired' \subseteq Command, NetOK',
         net'.kind \in {"idle", "claimed", "decide", "extended", "batch", "submitted"}
  PROVE  WellFormed'
<1>1. inbox[c] \in Row
  BY DEF WellFormed, TypeOK
<1>2. PICK row \in {inbox[c], [inbox[c] EXCEPT !.live = TRUE], [inbox[c] EXCEPT !.live = FALSE]} :
        SetRow(c, row)
  BY DEF Renewed
<1>3. row \in Row
  BY <1>1, <1>2, RowTypes
<1>4. row.state = inbox[c].state /\ row.completed = inbox[c].completed /\ row.result = inbox[c].result
  BY <1>1, <1>2 DEF Row
<1>5. QED
  BY <1>2, <1>3, <1>4, RowWritten DEF WellFormed, TypeOK

\* What is left of a batch is a batch, or nothing.
LEMMA RemainingTypes ==
  ASSUME NetOK, net.kind = "submitted", net' = Remaining
  PROVE  NetOK' /\ net'.kind \in {"idle", "batch"}
  BY DEF NetOK, Remaining, Quiet

\* The tick's own steps keep everything well formed.
LEMMA CallTypes ==
  ASSUME WellFormed,
         \/ PersistClaim \/ Decide \/ LeaseExtended \/ MarkSubmitted \/ FailSubmission
         \/ NetworkDeferred \/ ReadResults
  PROVE  WellFormed'
<1> USE DEF WellFormed
<1>1. CASE PersistClaim
  <2> DEFINE c == net.c
             new == [NoRow EXCEPT !.state = "received", !.attempt = net.attempt, !.live = TRUE]
             old == [inbox[c] EXCEPT !.attempt = net.attempt, !.live = TRUE]
  <2>1. c \in Command /\ net.attempt \in 0..MaxClaims /\ net' = [kind |-> "decide", c |-> c]
    BY <1>1 DEF PersistClaim, NetOK
  <2>2. NetOK' /\ net'.kind = "decide"
    BY <2>1 DEF NetOK
  <2>3. inbox[c] \in Row
    BY <2>1 DEF TypeOK
  <2>4. CASE inbox[c].state = "none" /\ SetRow(c, new)
    <3>1. new \in Row /\ new.state = "received" /\ new.completed = FALSE
      BY <2>1, FirstRows DEF NoRow
    <3>2. QED
      BY <1>1, <2>1, <2>2, <2>4, <3>1, RowWritten DEF PersistClaim, Active, Waiting, Answered, TypeOK
  <2>5. CASE inbox[c].state # "none" /\ ~inbox[c].completed /\ SetRow(c, old)
    <3>1. old \in Row
      BY <2>1, <2>3, RowTypes
    <3>2. old.state = inbox[c].state /\ old.completed = inbox[c].completed
          /\ old.result = inbox[c].result
      BY <2>3 DEF Row
    <3>3. QED
      BY <1>1, <2>1, <2>2, <2>5, <3>1, <3>2, RowWritten DEF PersistClaim, TypeOK
  <2>6. CASE UNCHANGED inbox
    BY <1>1, <2>2, <2>6, RowsUntouched DEF PersistClaim, TypeOK
  <2>7. QED
    BY <1>1, <2>4, <2>5, <2>6 DEF PersistClaim
<1>2. CASE Decide
  <2> DEFINE c == net.c
  <2>1. c \in Command /\ net' = Quiet /\ inbox[c] \in Row
    BY <1>2 DEF Decide, NetOK, TypeOK
  <2>2. NetOK' /\ net'.kind = "idle"
    BY <2>1 DEF NetOK, Quiet
  <2>3. CASE UNCHANGED inbox
    BY <1>2, <2>2, <2>3, RowsUntouched DEF Decide, TypeOK
  <2>4. CASE inbox[c].state = "received" /\ Reject(c)
    BY <1>2, <2>1, <2>2, <2>4, RejectTypes DEF Decide, Waiting, TypeOK
  <2>5. ASSUME NEW s \in {"awaiting_approval", "queued"}, inbox[c].state = "received",
               SetRow(c, [inbox[c] EXCEPT !.state = s])
        PROVE  WellFormed'
    BY <1>2, <2>1, <2>2, <2>5, WaitTypes DEF Decide, Waiting, TypeOK
  <2>6. QED
    BY <1>2, <2>3, <2>4, <2>5 DEF Decide
<1>3. CASE LeaseExtended
  <2>1. net' = Quiet /\ net.c \in Command
    BY <1>3 DEF LeaseExtended, NetOK
  <2>2. NetOK' /\ net'.kind = "idle"
    BY <2>1 DEF NetOK, Quiet
  <2>3. QED
    BY <1>3, <2>1, <2>2, RenewedTypes DEF LeaseExtended, TypeOK
<1>4. CASE MarkSubmitted
  <2> DEFINE c == net.c
             row == IF StillSubmitted(c)
                    THEN [inbox[c] EXCEPT !.state = FinalState(c), !.completed = TRUE, !.rejections = 0]
                    ELSE inbox[c]
  <2>1. c \in Command /\ inbox[c] \in Row /\ SetRow(c, row)
    BY <1>4 DEF MarkSubmitted, NetOK, TypeOK
  <2>2. NetOK' /\ net'.kind \in {"idle", "batch"}
    BY <1>4, RemainingTypes DEF MarkSubmitted
  <2>3. StillSubmitted(c) => FinalState(c) \in {"succeeded", "rejected", "failed", "dead_letter"}
    BY <2>1 DEF StillSubmitted, FinalState, Row, TypeOK, Result
  <2>4. FinalState(c) \in {"succeeded", "rejected", "failed", "dead_letter"} => FinalState(c) \in RowStates
    BY DEF RowStates
  <2>5. row \in Row
    BY <2>1, <2>3, <2>4, RowTypes
  <2>6. StillSubmitted(c) => row.state = FinalState(c) /\ row.result = inbox[c].result
    BY <2>1 DEF Row
  <2>7. /\ row.state = "running" <=> inbox[c].state = "running"
        /\ row.completed => row.state \notin Active
        /\ row.state \in Answered => row.result # "none"
    <3>1. CASE StillSubmitted(c)
      BY <2>1, <2>3, <2>6, <3>1 DEF StillSubmitted, Answered, Active, Waiting, TypeOK
    <3>2. CASE ~StillSubmitted(c)
      BY <2>1, <3>2 DEF TypeOK
    <3>3. QED
      BY <3>1, <3>2
  <2> HIDE DEF row
  <2>8. QED
    BY <1>4, <2>1, <2>2, <2>5, <2>7, RowWritten DEF MarkSubmitted, TypeOK
<1>5. CASE FailSubmission
  <2> DEFINE c == net.c
             row == IF StillSubmitted(c) /\ ~Quarantined(c)
                    THEN [inbox[c] EXCEPT !.rejections = @ + 1]
                    ELSE inbox[c]
  <2>1. c \in Command /\ inbox[c] \in Row /\ SetRow(c, row)
    BY <1>5 DEF FailSubmission, NetOK, TypeOK
  <2>2. NetOK' /\ net'.kind \in {"idle", "batch"}
    BY <1>5, RemainingTypes DEF FailSubmission
  <2>3. ~Quarantined(c) => inbox[c].rejections + 1 \in 0..MaxRejections
    BY <2>1, ConstantTypes DEF Quarantined, Row
  <2>4. row \in Row
    BY <2>1, <2>3, RowTypes
  <2>5. row.state = inbox[c].state /\ row.completed = inbox[c].completed /\ row.result = inbox[c].result
    BY <2>1 DEF Row
  <2> HIDE DEF row
  <2>6. QED
    BY <1>5, <2>1, <2>2, <2>4, <2>5, RowWritten DEF FailSubmission, TypeOK
<1>6. CASE NetworkDeferred
  BY <1>6, RowsUntouched DEF NetworkDeferred, Quiet, NetOK, TypeOK, tables
<1>7. CASE ReadResults
  <2>1. PICK due \in SUBSET {c \in Command : Submittable(c)} :
          net' = [kind |-> "batch", rest |-> {<<c, inbox[c].result>> : c \in due}]
    BY <1>7 DEF ReadResults
  <2>2. {<<c, inbox[c].result>> : c \in due} \subseteq Command \X Result
    BY <2>1 DEF Submittable, TypeOK, Row
  <2>3. NetOK' /\ net'.kind = "batch"
    BY <2>1, <2>2 DEF NetOK
  <2>4. QED
    BY <1>7, <2>3, RowsUntouched DEF ReadResults, TypeOK, tables
<1>8. QED
  BY <1>1, <1>2, <1>3, <1>4, <1>5, <1>6, <1>7

\* The steps of a tick that choose a command keep everything well formed.
LEMMA CommandTypes ==
  ASSUME WellFormed, NEW c \in Command,
         \/ ClaimCommand(c) \/ ExpireCommand(c) \/ ExtendLease(c) \/ DenyEffect(c) \/ Submitted(c)
  PROVE  WellFormed'
<1> USE DEF WellFormed
<1>1. CASE ClaimCommand(c)
  <2>1. cloud[c].attempt + 1 \in 0..MaxClaims
    BY <1>1, ConstantTypes DEF ClaimCommand, TypeOK
  <2>2. NetOK' /\ net'.kind = "claimed"
    BY <1>1, <2>1 DEF ClaimCommand, NetOK
  <2>3. cloud' \in [Command -> [state : {"pending", "leased", "terminal"}, attempt : 0..MaxClaims,
                                live : BOOLEAN, result : Result \cup {"none"}]]
    BY <1>1, <2>1 DEF ClaimCommand, TypeOK
  <2>4. QED
    BY <1>1, <2>2, <2>3, RowsUntouched DEF ClaimCommand, TypeOK, tables
<1>2. CASE ExpireCommand(c)
  <2>1. NetOK'
    BY <1>2 DEF ExpireCommand, NetOK, memory
  <2>2. QED
    BY <1>2, <2>1, RejectTypes DEF ExpireCommand, TypeOK, memory
<1>3. CASE ExtendLease(c)
  <2>1. NetOK' /\ net'.kind = "extended"
    BY <1>3 DEF ExtendLease, NetOK
  <2>2. QED
    BY <1>3, <2>1, RowsUntouched DEF ExtendLease, TypeOK, tables
<1>4. CASE DenyEffect(c)
  <2>1. NetOK'
    BY <1>4 DEF DenyEffect, NetOK, memory
  <2>2. QED
    BY <1>4, <2>1, RejectTypes DEF DenyEffect, NextReady, Waiting, TypeOK, memory
<1>5. CASE Submitted(c)
  <2>1. PICK r \in Result : SubmitResult(c, r)
    BY <1>5 DEF Submitted
  <2>2. cloud' \in [Command -> [state : {"pending", "leased", "terminal"}, attempt : 0..MaxClaims,
                                live : BOOLEAN, result : Result \cup {"none"}]]
    BY <2>1 DEF SubmitResult, TypeOK
  <2>3. NetOK' /\ net'.kind = "submitted"
    BY <2>1 DEF SubmitResult, NetOK
  <2>4. QED
    BY <2>1, <2>2, <2>3, RowsUntouched DEF SubmitResult, TypeOK, tables
<1>6. QED
  BY <1>1, <1>2, <1>3, <1>4, <1>5

\* An effect that ends frees its row, with an answer or for another try.
LEMMA EffectEndTypes ==
  ASSUME WellFormed, exec.c # None, exec' = NoEffect,
         NEW row \in Row, SetRow(exec.c, row), row.state \in {"terminal_pending", "queued"},
         row.state \in Answered => row.result # "none", row.completed = inbox[exec.c].completed,
         NEW e \in {"succeeded", "failed"}, receipt' = [receipt EXCEPT ![exec.c].state = e],
         UNCHANGED <<cloud, safe, expired, policy, recovered, net, ordered, past>>
  PROVE  WellFormed'
<1> USE DEF WellFormed
<1> DEFINE c == exec.c
<1>1. c \in Command
  BY DEF TypeOK
<1>2. inbox[c].state = "running" /\ ~inbox[c].completed
  BY <1>1 DEF ExecOK, TypeOK, Active
<1>3. /\ inbox' \in [Command -> Row]
      /\ \A x \in Command : inbox'[x] = IF x = c THEN row ELSE inbox[x]
  BY <1>1, SetRowType DEF TypeOK
<1>4. /\ receipt' \in [Command -> Receipt]
      /\ \A x \in Command : x # c => receipt'[x] = receipt[x]
      /\ receipt'[c].state = e
  <2>1. PICK r \in Receipt : r = [receipt[c] EXCEPT !.state = e] /\ r.state = e
    BY <1>1 DEF TypeOK, Receipt
  <2>2. receipt \in [Command -> Receipt] /\ receipt' = [receipt EXCEPT ![c] = r]
    BY <2>1 DEF TypeOK
  <2> HIDE DEF c, WellFormed
  <2>3. QED
    BY <1>1, <2>1, <2>2
<1>5. RowsAgree(inbox', receipt')
  <2>1. RowsAgree(inbox, receipt)
    BY DEF TypeOK, RowsAgree
  <2>2. row.state # "running" /\ e # "running" /\ ~row.completed
    BY <1>2
  <2> HIDE DEF c, WellFormed
  <2>3. QED
    BY <1>3, <1>4, <2>1, <2>2 DEF RowsAgree
<1>6. TypeOK'
  BY <1>3, <1>4, <1>5 DEF TypeOK, RowsAgree, NoEffect, past
<1>7. ExecOK' /\ NetOK' /\ OrderOK'
  BY DEF ExecOK, NetOK, OrderOK, NoEffect, past
<1>8. QED
  BY <1>6, <1>7

\* An effect that starts, asks and ends keeps its row and its receipt together.
LEMMA EffectTypes ==
  ASSUME WellFormed,
         \/ \E c \in Command : StartEffect(c)
         \/ Effect
  PROVE  WellFormed'
<1> USE DEF WellFormed
<1>1. ASSUME NEW c \in Command, StartEffect(c) PROVE WellFormed'
  <2> DEFINE row == [inbox[c] EXCEPT !.state = "running", !.local = @ + 1]
             token == IF receipt[c].state = "prepared" THEN receipt[c].token ELSE inbox[c].local + 1
  <2>1. inbox[c] \in Row /\ inbox[c].state = "queued" /\ "running" \in RowStates /\ recovered
    BY <1>1 DEF StartEffect, NextReady, Idle, TypeOK, RowStates, Active
  <2>2. row \in Row
    BY <2>1, RowTypes
  <2>3. row.state = "running" /\ row.completed = inbox[c].completed
    BY <2>1 DEF Row
  <2>4. token \in Nat
    BY <2>1 DEF TypeOK, Row, Receipt
  <2>5. /\ SetRow(c, row) /\ receipt' = [receipt EXCEPT ![c] = [state |-> "running", token |-> token]]
        /\ exec' = [NoEffect EXCEPT !.c = c, !.token = token]
    BY <1>1 DEF StartEffect
  <2> HIDE DEF row, token
  <2>6. /\ inbox' \in [Command -> Row]
        /\ \A x \in Command : inbox'[x] = IF x = c THEN row ELSE inbox[x]
    BY <2>2, <2>5, SetRowType DEF TypeOK
  <2>7. /\ receipt' \in [Command -> Receipt]
        /\ \A x \in Command : receipt'[x] = IF x = c THEN [state |-> "running", token |-> token]
                                            ELSE receipt[x]
    BY <2>4, <2>5 DEF TypeOK, Receipt
  <2>8. exec' = [c |-> c, token |-> token, sent |-> FALSE, done |-> FALSE]
    BY <2>5 DEF NoEffect
  <2>9. ~inbox[c].completed
    BY <2>1 DEF TypeOK, Active, Waiting
  <2>10. RowsAgree(inbox', receipt')
    <3>1. RowsAgree(inbox, receipt)
      BY DEF TypeOK, RowsAgree
    <3>2. row.state \notin Answered /\ ~row.completed
      BY <2>3, <2>9 DEF Answered
    <3> HIDE DEF WellFormed
    <3>3. QED
      BY <2>3, <2>6, <2>7, <3>1, <3>2 DEF RowsAgree
  <2>11. TypeOK'
    <3>1. UNCHANGED <<cloud, safe, expired, policy, recovered, net, ordered, past>>
      BY <1>1 DEF StartEffect
    <3>2. exec'.c \in Command \cup {None}
      BY <1>1, <2>8
    <3>3. QED
      BY <2>6, <2>7, <2>10, <3>1, <3>2 DEF TypeOK, RowsAgree, past
  <2>12. ExecOK'
    <3>1. recovered' = recovered
      BY <1>1 DEF StartEffect
    <3>2. exec' \in [c : Command \cup {None}, token : Nat, sent : BOOLEAN, done : BOOLEAN]
      BY <2>4, <2>8
    <3>3. QED
      BY <2>1, <2>3, <2>6, <2>7, <2>8, <3>1, <3>2 DEF ExecOK
  <2>13. NetOK' /\ OrderOK'
    BY <1>1 DEF StartEffect, NetOK, OrderOK, past
  <2>14. QED
    BY <2>11, <2>12, <2>13
<1>2. CASE RequestEffect
  <2>1. PICK done \in BOOLEAN : exec' = [exec EXCEPT !.sent = TRUE, !.done = done]
    BY <1>2 DEF RequestEffect
  <2>2. calls' \in [Command -> Nat] /\ calls'[exec.c] > 0
    BY <1>2 DEF RequestEffect, TypeOK
  <2>3. TypeOK'
    BY <1>2, <2>1, <2>2 DEF RequestEffect, TypeOK, ExecOK, tables
  <2>4. ExecOK'
    BY <1>2, <2>1, <2>2 DEF RequestEffect, ExecOK, tables
  <2>5. NetOK' /\ OrderOK'
    BY <1>2 DEF RequestEffect, NetOK, OrderOK
  <2>6. QED
    BY <2>3, <2>4, <2>5
<1>3. CASE CompleteEffect
  <2>1. PICK r \in Result :
          SetRow(exec.c, [inbox[exec.c] EXCEPT !.state = "terminal_pending", !.result = r])
    BY <1>3 DEF CompleteEffect
  <2> DEFINE row == [inbox[exec.c] EXCEPT !.state = "terminal_pending", !.result = r]
  <2>2. receipt' = [receipt EXCEPT ![exec.c].state = "succeeded"] /\ exec' = NoEffect
        /\ UNCHANGED <<cloud, safe, expired, policy, recovered, net, ordered, past>>
        /\ exec.c # None /\ inbox[exec.c] \in Row
    BY <1>3 DEF CompleteEffect, TypeOK
  <2>3. row \in Row
    BY <2>2, RowTypes DEF RowStates, Active
  <2>4. row.state = "terminal_pending" /\ row.result # "none" /\ row.completed = inbox[exec.c].completed
    BY <2>2 DEF Row, Result
  <2> HIDE DEF row
  <2>5. QED
    BY <2>1, <2>2, <2>3, <2>4, EffectEndTypes DEF row
<1>4. CASE MaintainLease
  <2>1. exec.c \in Command /\ NetOK'
    BY <1>4 DEF MaintainLease, TypeOK, NetOK, memory
  <2>2. QED
    BY <1>4, <2>1, RenewedTypes DEF MaintainLease, TypeOK, memory
<1>5. ASSUME NEW retryable \in BOOLEAN, FailEffect(retryable) PROVE WellFormed'
  <2> DEFINE row == IF retryable /\ Repeatable(exec.c)
                    THEN [inbox[exec.c] EXCEPT !.state = "queued"]
                    ELSE [inbox[exec.c] EXCEPT !.state = "terminal_pending", !.result = "failed"]
  <2>1. receipt' = [receipt EXCEPT ![exec.c].state = "failed"] /\ exec' = NoEffect
        /\ UNCHANGED <<cloud, safe, expired, policy, recovered, net, ordered, past>>
        /\ exec.c # None /\ inbox[exec.c] \in Row /\ SetRow(exec.c, row)
    BY <1>5 DEF FailEffect, TypeOK
  <2>2. row \in Row
    BY <2>1, RowTypes DEF RowStates, Active, Waiting, Result
  <2>3. /\ row.state \in {"terminal_pending", "queued"} /\ row.completed = inbox[exec.c].completed
        /\ row.state \in Answered => row.result # "none"
    BY <2>1 DEF Row, Answered
  <2> HIDE DEF row
  <2>4. QED
    BY <2>1, <2>2, <2>3, EffectEndTypes
<1>6. QED
  BY <1>1, <1>2, <1>3, <1>4, <1>5 DEF Effect

\* What a restart makes of interrupted effects, when none is under way.
LEMMA RecoveryTypes ==
  ASSUME WellFormed, RecoveredTables \/ UNCHANGED tables, exec'.c = None,
         exec' \in [c : Command \cup {None}, token : Nat, sent : BOOLEAN, done : BOOLEAN],
         exec'.done => exec'.sent, recovered' \in BOOLEAN,
         policy' \in [Command -> Verdict], net' \in {net, Quiet},
         UNCHANGED <<cloud, safe, expired, ordered, past>>
  PROVE  WellFormed'
<1> USE DEF WellFormed
<1>1. CASE RecoveredTables
  <2>1. \A c \in Command :
          /\ inbox'[c] = IF c \in Interrupted
                         THEN [inbox[c] EXCEPT !.state = "dead_letter", !.result = "failed"]
                         ELSE inbox[c]
          /\ receipt'[c] = IF c \in Interrupted THEN [receipt[c] EXCEPT !.state = "outcome_unknown"]
                           ELSE receipt[c]
    BY <1>1 DEF RecoveredTables
  <2>2. \A c \in Command : [inbox[c] EXCEPT !.state = "dead_letter", !.result = "failed"] \in Row
    BY RowTypes DEF TypeOK, RowStates, Result
  <2>3. \A c \in Command : [receipt[c] EXCEPT !.state = "outcome_unknown"] \in Receipt
    BY DEF TypeOK, Receipt
  <2>4. inbox' \in [Command -> Row] /\ receipt' \in [Command -> Receipt]
    BY <1>1, <2>2, <2>3 DEF RecoveredTables, TypeOK
  <2>5. RowsAgree(inbox', receipt')
    <3>1. SUFFICES ASSUME NEW c \in Command
          PROVE  /\ inbox'[c].state = "running" <=> receipt'[c].state = "running"
                 /\ inbox'[c].completed => inbox'[c].state \notin Active
                 /\ inbox'[c].state \in Answered => inbox'[c].result # "none"
      BY DEF RowsAgree
    <3>2. CASE c \in Interrupted
      <4>1. inbox[c] \in Row /\ receipt[c] \in Receipt
        BY DEF TypeOK
      <4>2. /\ inbox'[c].state = "dead_letter" /\ inbox'[c].result = "failed"
            /\ receipt'[c].state = "outcome_unknown"
        BY <2>1, <3>2, <4>1 DEF Row, Receipt
      <4>3. QED
        BY <4>2 DEF Active, Waiting
    <3>3. CASE c \notin Interrupted
      BY <2>1, <3>3 DEF TypeOK
    <3>4. QED
      BY <3>2, <3>3
  <2>6. TypeOK'
    BY <2>4, <2>5 DEF TypeOK, RowsAgree, past, Quiet
  <2>7. QED
    BY <2>6 DEF ExecOK, NetOK, OrderOK, past, Quiet
<1>2. CASE UNCHANGED tables
  <2>1. TypeOK'
    BY <1>2 DEF TypeOK, tables, past, Quiet
  <2>2. QED
    BY <2>1 DEF ExecOK, NetOK, OrderOK, past, Quiet
<1>3. QED
  BY <1>1, <1>2

\* Recovery, a crash and a shutdown keep everything well formed.
LEMMA RestartTypes ==
  ASSUME WellFormed, RecoverInterruptedEffects \/ Crash \/ Stop
  PROVE  WellFormed'
<1>1. /\ NoEffect.c = None /\ NoEffect.done = FALSE
      /\ NoEffect \in [c : Command \cup {None}, token : Nat, sent : BOOLEAN, done : BOOLEAN]
  BY DEF NoEffect
<1>2. CASE RecoverInterruptedEffects
  <2>1. exec.c = None
    BY <1>2 DEF RecoverInterruptedEffects, WellFormed, ExecOK
  <2>2. QED
    BY <1>2, <2>1, RecoveryTypes DEF RecoverInterruptedEffects, WellFormed, ExecOK, TypeOK
<1>3. CASE Crash \/ Stop
  BY <1>1, <1>3, RecoveryTypes DEF Crash, Stop, Restarted
<1>4. QED
  BY <1>2, <1>3

\* What the operator's CLI does keeps everything well formed.
LEMMA OperatorTypes ==
  ASSUME WellFormed, Operator
  PROVE  WellFormed'
<1> USE DEF WellFormed
<1>1. ASSUME NEW c \in Command, RejectByOperator(c) PROVE WellFormed'
  <2>1. NetOK'
    BY <1>1 DEF RejectByOperator, NetOK, memory
  <2>2. QED
    BY <1>1, <2>1, RejectTypes DEF RejectByOperator, TypeOK, memory
<1>2. ASSUME NEW c \in Command, Approve(c) PROVE WellFormed'
  <2>1. NetOK'
    BY <1>2 DEF Approve, NetOK, memory
  <2>2. QED
    BY <1>2, <2>1, WaitTypes DEF Approve, Waiting, TypeOK, memory
<1>3. ASSUME NEW c \in Command, RetryReceipt(c) PROVE WellFormed'
  <2> DEFINE new == IF receipt[c].state = "none" THEN receipt[c]
                    ELSE [state |-> "prepared", token |-> inbox[c].local + 1]
  <2>1. receipt' = [receipt EXCEPT ![c] = new] /\ inbox' = inbox /\ ordered' = c
    BY <1>3 DEF RetryReceipt, TypeOK
  <2>2. new \in Receipt /\ new.state # "running"
    BY DEF TypeOK, Receipt, Row
  <2>3. inbox[c].state # "running" /\ retried[c] < MaxRetries
    BY <1>3 DEF RetryReceipt, Answered
  <2> HIDE DEF new
  <2>4. receipt' \in [Command -> Receipt]
        /\ \A x \in Command : receipt'[x] = IF x = c THEN new ELSE receipt[x]
    BY <2>1, <2>2 DEF TypeOK
  <2>5. TypeOK'
    BY <1>3, <2>1, <2>2, <2>3, <2>4 DEF RetryReceipt, TypeOK, memory, past
  <2>6. ExecOK'
    BY <1>3, <2>1, <2>3, <2>4 DEF RetryReceipt, ExecOK, memory, past
  <2>7. NetOK' /\ OrderOK'
    BY <1>3, <2>1, <2>3 DEF RetryReceipt, NetOK, OrderOK, memory, past
  <2>8. QED
    BY <2>5, <2>6, <2>7
<1>4. CASE RetryDies
  <2>1. NetOK'
    BY <1>4 DEF RetryDies, NetOK, memory
  <2>2. QED
    BY <1>4, <2>1, RowsUntouched DEF RetryDies, TypeOK, memory, tables
<1>5. ASSUME NEW c \in Command, RetrySubmission(c) PROVE WellFormed'
  <2> DEFINE row == [inbox[c] EXCEPT !.rejections = 0]
  <2>1. inbox[c] \in Row /\ 0 \in 0..MaxRejections
    BY ConstantTypes DEF TypeOK
  <2>2. row \in Row
    BY <2>1, RowTypes
  <2>3. row.state = inbox[c].state /\ row.completed = inbox[c].completed /\ row.result = inbox[c].result
    BY <2>1 DEF Row
  <2>4. NetOK' /\ SetRow(c, row)
    BY <1>5 DEF RetrySubmission, NetOK, memory
  <2> HIDE DEF row
  <2>5. QED
    BY <1>5, <2>2, <2>3, <2>4, RowWritten DEF RetrySubmission, TypeOK, memory
<1>6. CASE RetryCommand
  <2> DEFINE row == [inbox[ordered] EXCEPT !.state = "queued", !.result = "none", !.rejections = 0]
  <2>1. ordered \in Command /\ retried[ordered] < MaxRetries /\ inbox[ordered] \in Row
    BY <1>6 DEF RetryCommand, OrderOK, TypeOK
  <2>2. row \in Row
    BY <2>1, RowTypes DEF RowStates, Active, Waiting
  <2>3. row.state = "queued" /\ row.completed = inbox[ordered].completed
    BY <2>1 DEF Row
  <2> HIDE DEF row
  <2>4. CASE ~(inbox[ordered].state \in Answered /\ ~inbox[ordered].completed)
    <3>1. NetOK' /\ UNCHANGED <<inbox, retried>>
      BY <1>6, <2>4 DEF RetryCommand, NetOK, memory
    <3>2. QED
      BY <1>6, <3>1, RowsUntouched DEF RetryCommand, TypeOK, memory, past
  <2>5. CASE inbox[ordered].state \in Answered /\ ~inbox[ordered].completed
    <3>1. SetRow(ordered, row) /\ retried' = [retried EXCEPT ![ordered] = @ + 1]
      BY <1>6, <2>5 DEF RetryCommand, row
    <3>2. /\ inbox' \in [Command -> Row]
          /\ \A x \in Command : inbox'[x] = IF x = ordered THEN row ELSE inbox[x]
      BY <2>1, <2>2, <3>1, SetRowType DEF TypeOK
    <3>3. inbox[ordered].state # "running"
      BY <2>5 DEF Answered
    <3>4. retried' \in [Command -> 0..MaxRetries]
      BY <2>1, <3>1, ConstantTypes DEF TypeOK
    <3>5. RowsAgree(inbox', receipt)
      BY <2>3, <2>5, <3>2, <3>3 DEF TypeOK, RowsAgree, Answered
    <3>6. TypeOK'
      BY <1>6, <3>2, <3>4, <3>5 DEF RetryCommand, TypeOK, RowsAgree, memory
    <3>7. ExecOK'
      BY <1>6, <3>2, <3>3 DEF RetryCommand, ExecOK, memory
    <3>8. NetOK' /\ OrderOK'
      BY <1>6 DEF RetryCommand, NetOK, OrderOK, memory
    <3>9. QED
      BY <3>6, <3>7, <3>8
  <2>6. QED
    BY <2>4, <2>5
<1>7. QED
  BY <1>1, <1>2, <1>3, <1>4, <1>5, <1>6 DEF Operator

\* Leases that lapse and lifetimes that pass keep everything well formed.
LEMMA TimeTypes ==
  ASSUME WellFormed, Time
  PROVE  WellFormed'
<1> USE DEF WellFormed
<1>1. ASSUME NEW c \in Command, LeaseLapses(c) PROVE WellFormed'
  <2> DEFINE row == [inbox[c] EXCEPT !.live = FALSE]
  <2>1. inbox[c] \in Row
    BY DEF TypeOK
  <2>2. row \in Row
    BY <2>1, RowTypes
  <2>3. row.state = inbox[c].state /\ row.completed = inbox[c].completed /\ row.result = inbox[c].result
    BY <2>1 DEF Row
  <2>4. NetOK' /\ SetRow(c, row)
    BY <1>1 DEF LeaseLapses, NetOK, memory
  <2> HIDE DEF row
  <2>5. QED
    BY <1>1, <2>2, <2>3, <2>4, RowWritten DEF LeaseLapses, TypeOK, memory
<1>2. ASSUME NEW c \in Command, CloudLeaseLapses(c) PROVE WellFormed'
  <2>1. NetOK'
    BY <1>2 DEF CloudLeaseLapses, NetOK, memory
  <2>2. cloud' \in [Command -> [state : {"pending", "leased", "terminal"}, attempt : 0..MaxClaims,
                                live : BOOLEAN, result : Result \cup {"none"}]]
    BY <1>2 DEF CloudLeaseLapses, TypeOK
  <2>3. QED
    BY <1>2, <2>1, <2>2, RowsUntouched DEF CloudLeaseLapses, TypeOK, memory, tables
<1>3. ASSUME NEW c \in Command, Expires(c) PROVE WellFormed'
  <2>1. NetOK'
    BY <1>3 DEF Expires, NetOK, memory
  <2>2. QED
    BY <1>3, <2>1, RowsUntouched DEF Expires, TypeOK, memory, tables
<1>4. QED
  BY <1>1, <1>2, <1>3 DEF Time

\* Every step keeps everything well formed.
LEMMA TypeStep ==
  ASSUME WellFormed, [Next]_vars
  PROVE  WellFormed'
<1>1. CASE UNCHANGED vars
  BY <1>1 DEF WellFormed, TypeOK, ExecOK, NetOK, OrderOK, vars, tables, memory, past
<1>2. QED
  BY <1>1, CallTypes, CommandTypes, EffectTypes, RestartTypes, OperatorTypes, TimeTypes
  DEF Next, Tick

-----------------------------------------------------------------------------
(* What the cloud and the tables say of a command is true *)

\* A row is completed only by an answer that the cloud has.
CompletedOK == \A c \in Command : inbox[c].completed => cloud[c].state = "terminal"

Truth == CloudOK /\ CompletedOK /\ OpenOK /\ CallsOK /\ ResultsOK /\ BatchOK /\ AnswersAgree

\* What is said of c stays as it is.
SameRow(c) ==
  /\ inbox'[c].state = inbox[c].state
  /\ inbox'[c].result = inbox[c].result
  /\ inbox'[c].completed = inbox[c].completed

\* A command that is not answered yet goes on, or gets an answer that is true.
GoesOn(c) ==
  /\ inbox[c].state \in Open /\ ~inbox'[c].completed
  /\ inbox'[c].state \in Open => inbox'[c].result = "none"
  /\ inbox'[c].result = "succeeded" => calls[c] > 0
  /\ inbox'[c].result = "rejected" => c \in safe \cup Reopened \/ calls[c] = 0
  /\ inbox'[c].state \in Waiting \cup {"none"}
       => inbox[c].state \in Waiting \cup {"none"} \/ c \in safe

\* No new result is under way to the cloud.
NoNewCall ==
  /\ net'.kind \in {"batch", "submitted"}
       => net.kind \in {"batch", "submitted"} /\ net'.rest \subseteq net.rest
  /\ net'.kind = "submitted" => net' = net

\* The cloud may hand out or lose a lease, but records no answer.
NoAnswer ==
  \A c \in Command : /\ cloud'[c].result = cloud[c].result
                     /\ cloud'[c].state = "terminal" <=> cloud[c].state = "terminal"

\* Steps that ask nothing of the outside or the cloud keep all of it true.
LEMMA TruthKept ==
  ASSUME WellFormed, Truth, \A c \in Command : SameRow(c) \/ GoesOn(c),
         NoNewCall, NoAnswer, UNCHANGED <<safe, past>>,
         \A c \in Command : exec'.c = c /\ ~exec'.sent
           => (exec.c = c /\ ~exec.sent) \/ inbox[c].state = "queued"
  PROVE  Truth'
<1> USE DEF Truth
<1>1. calls' = calls /\ retried' = retried /\ safe' = safe /\ Reopened' = Reopened
  BY DEF past, Reopened
<1>2. CloudOK'
  BY DEF CloudOK, NoAnswer, NoNewCall, WellFormed, NetOK
<1>3. CompletedOK' /\ AnswersAgree'
  BY DEF CompletedOK, AnswersAgree, SameRow, GoesOn, NoAnswer
<1>4. OpenOK'
  BY <1>1 DEF OpenOK, SameRow, GoesOn, NoAnswer, Open
<1>5. CallsOK'
  BY <1>1 DEF CallsOK, SameRow, GoesOn, Waiting
<1>6. ResultsOK'
  BY <1>1 DEF ResultsOK, SameRow, GoesOn
<1>7. BatchOK'
  <2>1. SUFFICES ASSUME net'.kind \in {"batch", "submitted"}, NEW p \in net'.rest
        PROVE  /\ p[2] = "succeeded" => calls[p[1]] > 0
               /\ p[1] \notin Reopened => inbox'[p[1]].state \notin Open /\ inbox'[p[1]].result = p[2]
    BY <1>1 DEF BatchOK, Open
  <2>2. net.kind \in {"batch", "submitted"} /\ p \in net.rest /\ p[1] \in Command
    BY <2>1 DEF NoNewCall, WellFormed, NetOK
  <2>3. QED
    BY <2>2 DEF BatchOK, SameRow, GoesOn
<1>8. QED
  BY <1>2, <1>3, <1>4, <1>5, <1>6, <1>7

\* A command rejected while it waits was never asked for, unless it may be.
LEMMA RejectGoesOn ==
  ASSUME WellFormed, Truth, NEW c \in Command, inbox[c].state \in Waiting, Reject(c)
  PROVE  \A x \in Command : SameRow(x) \/ GoesOn(x)
<1>1. inbox[c] \in Row /\ inbox \in [Command -> Row]
  BY DEF WellFormed, TypeOK
<1>2. /\ \A x \in Command : x # c => inbox'[x] = inbox[x]
      /\ inbox'[c] = [inbox[c] EXCEPT !.state = "terminal_pending", !.result = "rejected"]
  BY <1>1 DEF Reject, SetRow
<1>3. /\ inbox'[c].state = "terminal_pending" /\ inbox'[c].result = "rejected"
      /\ inbox'[c].completed = inbox[c].completed
  BY <1>1, <1>2 DEF Row
<1>4. ~inbox[c].completed
  BY DEF WellFormed, TypeOK, Active
<1>5. c \in safe \cup Reopened \/ calls[c] = 0
  BY DEF Truth, CallsOK, WellFormed, TypeOK
<1>6. GoesOn(c)
  BY <1>3, <1>4, <1>5 DEF GoesOn, Open, Waiting
<1>7. QED
  BY <1>2, <1>6 DEF SameRow

\* A command goes on waiting.
LEMMA WaitGoesOn ==
  ASSUME WellFormed, Truth, NEW c \in Command, inbox[c].state \in Waiting,
         NEW s \in {"awaiting_approval", "queued"}, SetRow(c, [inbox[c] EXCEPT !.state = s])
  PROVE  \A x \in Command : SameRow(x) \/ GoesOn(x)
<1>1. inbox[c] \in Row /\ inbox \in [Command -> Row]
  BY DEF WellFormed, TypeOK
<1>2. /\ \A x \in Command : x # c => inbox'[x] = inbox[x]
      /\ inbox'[c] = [inbox[c] EXCEPT !.state = s]
  BY <1>1 DEF SetRow
<1>3. /\ inbox'[c].state = s /\ inbox'[c].result = inbox[c].result
      /\ inbox'[c].completed = inbox[c].completed
  BY <1>1, <1>2 DEF Row
<1>4. ~inbox[c].completed /\ inbox[c].result = "none"
  BY DEF WellFormed, TypeOK, Active, Truth, OpenOK, Open
<1>5. GoesOn(c)
  BY <1>3, <1>4 DEF GoesOn, Open, Waiting
<1>6. QED
  BY <1>2, <1>5 DEF SameRow

\* A lease renewed or lost says nothing of the command.
LEMMA RenewedSame ==
  ASSUME WellFormed, NEW c \in Command, NEW n, NEW ok, Renewed(c, n, ok)
  PROVE  \A x \in Command : SameRow(x)
<1>1. inbox[c] \in Row /\ inbox \in [Command -> Row]
  BY DEF WellFormed, TypeOK
<1>2. PICK row \in {inbox[c], [inbox[c] EXCEPT !.live = TRUE], [inbox[c] EXCEPT !.live = FALSE]} :
        SetRow(c, row)
  BY DEF Renewed
<1>3. row.state = inbox[c].state /\ row.completed = inbox[c].completed /\ row.result = inbox[c].result
  BY <1>1, <1>2 DEF Row
<1>4. QED
  BY <1>1, <1>2, <1>3 DEF SetRow, SameRow

\* The steps of the network calls that bring no answer to a row keep the truth.
LEMMA CallTruth ==
  ASSUME WellFormed, Truth,
         PersistClaim \/ Decide \/ LeaseExtended \/ FailSubmission \/ NetworkDeferred
  PROVE  Truth'
<1> USE DEF WellFormed
<1>1. UNCHANGED <<cloud, safe, exec, past>>
  BY DEF PersistClaim, Decide, LeaseExtended, FailSubmission, NetworkDeferred
<1>2. NoAnswer /\ \A c \in Command : exec'.c = c /\ ~exec'.sent => exec.c = c /\ ~exec.sent
  BY <1>1 DEF NoAnswer
<1>3. NoNewCall
  BY DEF NoNewCall, PersistClaim, Decide, LeaseExtended, FailSubmission, NetworkDeferred, Remaining,
         Quiet
<1>4. \A c \in Command : SameRow(c) \/ GoesOn(c)
  <2>1. CASE PersistClaim
    <3>1. net.c \in Command /\ inbox[net.c] \in Row
      BY <2>1 DEF PersistClaim, NetOK, TypeOK
    <3>2. CASE inbox[net.c].state = "none"
               /\ SetRow(net.c, [NoRow EXCEPT !.state = "received", !.attempt = net.attempt,
                                              !.live = TRUE])
      BY <3>1, <3>2 DEF SetRow, NoRow, SameRow, GoesOn, Open, Waiting, TypeOK
    <3>3. CASE SetRow(net.c, [inbox[net.c] EXCEPT !.attempt = net.attempt, !.live = TRUE])
      BY <3>1, <3>3 DEF SetRow, SameRow, Row, TypeOK
    <3>4. CASE UNCHANGED inbox
      BY <3>4 DEF SameRow
    <3>5. QED
      BY <2>1, <3>2, <3>3, <3>4 DEF PersistClaim
  <2>2. CASE Decide
    <3>1. net.c \in Command /\ inbox[net.c] \in Row
      BY <2>2 DEF Decide, NetOK, TypeOK
    <3>2. CASE inbox[net.c].state = "received" /\ Reject(net.c)
      BY <3>1, <3>2, RejectGoesOn DEF Waiting
    <3>3. ASSUME NEW s \in {"awaiting_approval", "queued"}, inbox[net.c].state = "received",
                 SetRow(net.c, [inbox[net.c] EXCEPT !.state = s])
          PROVE  \A c \in Command : SameRow(c) \/ GoesOn(c)
      BY <3>1, <3>3, WaitGoesOn DEF Waiting
    <3>4. CASE UNCHANGED inbox
      BY <3>4 DEF SameRow
    <3>5. QED
      BY <2>2, <3>2, <3>3, <3>4 DEF Decide
  <2>3. CASE LeaseExtended
    BY <2>3, RenewedSame DEF LeaseExtended, NetOK
  <2>4. CASE FailSubmission
    <3>1. net.c \in Command /\ inbox[net.c] \in Row
      BY <2>4 DEF FailSubmission, NetOK, TypeOK
    <3>2. QED
      BY <2>4, <3>1 DEF FailSubmission, SetRow, SameRow, Row, TypeOK
  <2>5. CASE NetworkDeferred
    BY <2>5 DEF NetworkDeferred, tables, SameRow
  <2>6. QED
    BY <2>1, <2>2, <2>3, <2>4, <2>5
<1>5. UNCHANGED <<safe, past>>
  BY <1>1
<1>6. QED
  BY <1>2, <1>3, <1>4, <1>5, TruthKept

\* The cloud's lease says nothing of the answer.
LEMMA LeaseIsNoAnswer ==
  ASSUME WellFormed, NEW c \in Command, ClaimCommand(c) \/ CloudLeaseLapses(c)
  PROVE  NoAnswer
<1>1. cloud \in [Command -> [state : {"pending", "leased", "terminal"}, attempt : 0..MaxClaims,
                             live : BOOLEAN, result : Result \cup {"none"}]]
  BY DEF WellFormed, TypeOK
<1>2. CASE ClaimCommand(c)
  BY <1>1, <1>2 DEF ClaimCommand, NoAnswer
<1>3. CASE CloudLeaseLapses(c)
  BY <1>1, <1>3 DEF CloudLeaseLapses, NoAnswer
<1>4. QED
  BY <1>2, <1>3

\* The steps of a tick that choose a command, but for the answer, keep the truth.
LEMMA CommandTruth ==
  ASSUME WellFormed, Truth, NEW c \in Command,
         ClaimCommand(c) \/ ExpireCommand(c) \/ ExtendLease(c) \/ DenyEffect(c) \/ StartEffect(c)
  PROVE  Truth'
<1>1. UNCHANGED <<safe, past>>
  BY DEF ClaimCommand, ExpireCommand, ExtendLease, DenyEffect, StartEffect
<1>2. NoNewCall
  BY DEF NoNewCall, ClaimCommand, ExpireCommand, ExtendLease, DenyEffect, StartEffect, memory
<1>3. CASE ClaimCommand(c)
  <2>1. NoAnswer
    BY <1>3, LeaseIsNoAnswer
  <2>2. exec' = exec /\ inbox' = inbox
    BY <1>3 DEF ClaimCommand, tables
  <2>3. QED
    BY <1>1, <1>2, <2>1, <2>2, TruthKept DEF SameRow
<1>4. CASE ExpireCommand(c) \/ DenyEffect(c)
  <2>1. inbox[c].state \in Waiting /\ Reject(c) /\ exec' = exec /\ cloud' = cloud
    BY <1>4 DEF ExpireCommand, DenyEffect, NextReady, Waiting, memory
  <2>2. QED
    BY <1>1, <1>2, <2>1, RejectGoesOn, TruthKept DEF NoAnswer
<1>5. CASE ExtendLease(c)
  BY <1>1, <1>2, <1>5, TruthKept DEF ExtendLease, NoAnswer, SameRow, tables
<1>6. CASE StartEffect(c)
  <2>1. inbox[c].state = "queued" /\ inbox[c] \in Row /\ inbox \in [Command -> Row] /\ cloud' = cloud
    BY <1>6 DEF StartEffect, NextReady, WellFormed, TypeOK
  <2>2. inbox' = [inbox EXCEPT ![c] = [inbox[c] EXCEPT !.state = "running", !.local = @ + 1]]
    BY <1>6 DEF StartEffect, SetRow
  <2>3. /\ inbox'[c].state = "running" /\ inbox'[c].result = inbox[c].result
        /\ inbox'[c].completed = inbox[c].completed
        /\ \A x \in Command : x # c => inbox'[x] = inbox[x]
    BY <2>1, <2>2 DEF Row
  <2>4. ~inbox[c].completed /\ inbox[c].result = "none"
    BY <2>1 DEF WellFormed, TypeOK, Active, Waiting, Truth, OpenOK, Open
  <2>5. \A x \in Command : SameRow(x) \/ GoesOn(x)
    BY <2>1, <2>3, <2>4 DEF SameRow, GoesOn, Open, Waiting
  <2>6. exec'.c = c
    BY <1>6 DEF StartEffect, NoEffect
  <2>7. QED
    BY <1>1, <1>2, <2>1, <2>5, <2>6, TruthKept DEF NoAnswer
<1>7. QED
  BY <1>3, <1>4, <1>5, <1>6

\* What is read for a batch is what the rows say.
LEMMA ReadTruth ==
  ASSUME WellFormed, Truth, ReadResults
  PROVE  Truth'
<1>1. PICK due \in SUBSET {c \in Command : Submittable(c)} :
        net' = [kind |-> "batch", rest |-> {<<c, inbox[c].result>> : c \in due}]
  BY DEF ReadResults
<1>2. UNCHANGED <<inbox, receipt, cloud, safe, exec, calls, retried>>
  BY DEF ReadResults, tables, past
<1>3. BatchOK'
  <2>1. SUFFICES ASSUME NEW c \in due
        PROVE  /\ inbox[c].result = "succeeded" => calls[c] > 0
               /\ inbox[c].state \notin Open
    BY <1>1, <1>2 DEF BatchOK, Open, Reopened
  <2>2. QED
    BY <2>1 DEF Submittable, Answered, Open, Waiting, Truth, ResultsOK
<1>4. CloudOK'
  BY <1>1, <1>2 DEF Truth, CloudOK
<1>5. CompletedOK' /\ OpenOK' /\ CallsOK' /\ ResultsOK' /\ AnswersAgree'
  BY <1>2 DEF Truth, CompletedOK, OpenOK, CallsOK, ResultsOK, AnswersAgree, Reopened, Open
<1>6. QED
  BY <1>3, <1>4, <1>5 DEF Truth

\* The cloud records what the rows said when the batch was read: the command is
\* not open, or the operator has reopened it.
LEMMA SubmitTruth ==
  ASSUME WellFormed, Truth, NEW c \in Command, NEW r \in Result, SubmitResult(c, r)
  PROVE  Truth'
<1> DEFINE fresh == HeldInCloud(c, inbox[c].attempt)
<1>1. /\ net.kind = "batch" /\ <<c, r>> \in net.rest
      /\ net'.kind = "submitted" /\ net'.c = c /\ net'.result = r
      /\ net'.rest = net.rest \ {<<c, r>>}
      /\ net'.ok = (fresh \/ (cloud[c].state = "terminal" /\ cloud[c].attempt = inbox[c].attempt
                              /\ cloud[c].result = r))
      /\ cloud' = IF fresh THEN [cloud EXCEPT ![c] = [@ EXCEPT !.state = "terminal", !.result = r]]
                  ELSE cloud
      /\ UNCHANGED <<inbox, receipt, safe, exec, calls, retried>>
  BY DEF SubmitResult, tables, past
<1>2. /\ fresh => cloud[c].state = "leased" /\ cloud[c].result = "none"
      /\ \A x \in Command : cloud'[x].state = IF x = c /\ fresh THEN "terminal" ELSE cloud[x].state
      /\ \A x \in Command : cloud'[x].result = IF x = c /\ fresh THEN r ELSE cloud[x].result
  <2>1. cloud \in [Command -> [state : {"pending", "leased", "terminal"}, attempt : 0..MaxClaims,
                               live : BOOLEAN, result : Result \cup {"none"}]]
    BY DEF WellFormed, TypeOK
  <2>2. QED
    BY <1>1, <2>1 DEF HeldInCloud, Truth, CloudOK
<1> HIDE DEF fresh
<1>3. CloudOK'
  BY <1>1, <1>2 DEF Truth, CloudOK
<1>4. CompletedOK' /\ AnswersAgree'
  BY <1>1, <1>2 DEF Truth, CompletedOK, AnswersAgree
<1>5. c \notin Reopened => inbox[c].state \notin Open
  BY <1>1 DEF Truth, BatchOK
<1>6. OpenOK'
  BY <1>1, <1>2, <1>5 DEF Truth, OpenOK, Open, Reopened
<1>7. CallsOK' /\ ResultsOK'
  BY <1>1 DEF Truth, CallsOK, ResultsOK, Reopened
<1>8. BatchOK'
  BY <1>1 DEF Truth, BatchOK, Reopened, Open
<1>9. QED
  BY <1>3, <1>4, <1>6, <1>7, <1>8 DEF Truth

\* An acknowledgement completes the row that still stands for what was submitted.
LEMMA MarkTruth ==
  ASSUME WellFormed, Truth, MarkSubmitted
  PROVE  Truth'
<1> DEFINE c == net.c
<1>1. /\ c \in Command /\ inbox[c] \in Row /\ inbox \in [Command -> Row]
      /\ net.kind = "submitted" /\ net.ok /\ net' = Remaining
      /\ UNCHANGED <<receipt, cloud, safe, exec, calls, retried>>
  BY DEF MarkSubmitted, WellFormed, NetOK, TypeOK, past
<1>2. NoNewCall
  BY <1>1 DEF NoNewCall, Remaining, Quiet
<1>3. CASE ~StillSubmitted(c)
  <2>1. inbox' = inbox
    BY <1>1, <1>3 DEF MarkSubmitted, SetRow
  <2>2. QED
    BY <1>1, <1>2, <2>1, TruthKept DEF SameRow, NoAnswer, past
<1>4. CASE StillSubmitted(c)
  <2>1. /\ inbox' = [inbox EXCEPT ![c] = [inbox[c] EXCEPT !.state = FinalState(c), !.completed = TRUE,
                                                         !.rejections = 0]]
        /\ inbox[c].result = net.result /\ inbox[c].state \in Answered
    BY <1>4 DEF MarkSubmitted, SetRow, StillSubmitted
  <2>2. /\ inbox'[c].state = FinalState(c) /\ inbox'[c].result = inbox[c].result
        /\ \A x \in Command : x # c => inbox'[x] = inbox[x]
    BY <1>1, <2>1 DEF Row
  <2>3. FinalState(c) \notin Open /\ inbox[c].state \notin Open
    BY <1>1, <2>1 DEF FinalState, Open, Waiting, Answered, Row, Result, WellFormed, TypeOK
  <2>4. cloud[c].state = "terminal" /\ cloud[c].result = inbox[c].result
    BY <1>1, <2>1 DEF Truth, CloudOK
  <2>5. CloudOK'
    BY <1>1 DEF Truth, CloudOK, Remaining, Quiet
  <2>6. CompletedOK' /\ AnswersAgree'
    BY <1>1, <2>2, <2>4 DEF Truth, CompletedOK, AnswersAgree
  <2>7. OpenOK'
    BY <1>1, <2>2, <2>3 DEF Truth, OpenOK, Reopened, Open
  <2>8. CallsOK'
    BY <1>1, <2>2, <2>3 DEF Truth, CallsOK, Reopened, Open
  <2>9. ResultsOK'
    BY <1>1, <2>2 DEF Truth, ResultsOK, Reopened
  <2>10. BatchOK'
    <3>1. SUFFICES ASSUME net'.kind \in {"batch", "submitted"}, NEW p \in net'.rest
          PROVE  /\ p[2] = "succeeded" => calls[p[1]] > 0
                 /\ p[1] \notin Reopened => inbox'[p[1]].state \notin Open /\ inbox'[p[1]].result = p[2]
      BY <1>1 DEF BatchOK, Open, Reopened
    <3>2. net.kind \in {"batch", "submitted"} /\ p \in net.rest /\ p[1] \in Command
      BY <1>2, <3>1 DEF NoNewCall, WellFormed, NetOK
    <3>3. QED
      BY <2>2, <2>3, <3>2 DEF Truth, BatchOK
  <2>11. QED
    BY <2>5, <2>6, <2>7, <2>8, <2>9, <2>10 DEF Truth
<1>5. QED
  BY <1>3, <1>4

\* Asking the outside, answering and failing keep the truth: an effect says it
\* succeeded only after it asked, and that it refused only if it did not.
LEMMA EffectTruth ==
  ASSUME WellFormed, Truth, Effect
  PROVE  Truth'
<1>1. CASE RequestEffect
  <2>1. /\ exec.c \in Command /\ ~exec.sent /\ exec'.sent /\ exec'.c = exec.c
        /\ calls' = [calls EXCEPT ![exec.c] = @ + 1]
        /\ UNCHANGED <<inbox, receipt, cloud, safe, net, retried>>
    BY <1>1 DEF RequestEffect, tables, WellFormed, TypeOK, ExecOK
  <2>2. \A x \in Command : calls[x] \in Nat /\ calls'[x] \in Nat /\ calls[x] <= calls'[x]
                           /\ (x # exec.c => calls'[x] = calls[x])
    BY <2>1 DEF WellFormed, TypeOK
  <2>3. inbox[exec.c].state = "running" /\ inbox[exec.c].result = "none"
    BY <2>1, CloudAssumption DEF WellFormed, ExecOK, Truth, OpenOK, Open, TypeOK
  <2>4. CloudOK' /\ CompletedOK' /\ AnswersAgree'
    BY <2>1 DEF Truth, CloudOK, CompletedOK, AnswersAgree
  <2>5. OpenOK'
    BY <2>1 DEF Truth, OpenOK, Open, Reopened
  <2>6. CallsOK'
    BY <2>1, <2>2, <2>3 DEF Truth, CallsOK, Reopened, Waiting
  <2>7. ResultsOK'
    BY <2>1, <2>2, <2>3 DEF Truth, ResultsOK, Reopened
  <2>8. BatchOK'
    <3>1. SUFFICES ASSUME net.kind \in {"batch", "submitted"}, NEW p \in net.rest
          PROVE  /\ p[2] = "succeeded" => calls'[p[1]] > 0
                 /\ p[1] \notin Reopened => inbox[p[1]].state \notin Open /\ inbox[p[1]].result = p[2]
      BY <2>1 DEF BatchOK, Open, Reopened
    <3>2. p[1] \in Command
      BY <3>1 DEF WellFormed, NetOK
    <3>3. QED
      BY <2>2, <3>1, <3>2 DEF Truth, BatchOK
  <2>9. QED
    BY <2>4, <2>5, <2>6, <2>7, <2>8 DEF Truth
<1>2. CASE CompleteEffect \/ \E retryable \in BOOLEAN : FailEffect(retryable)
  <2> DEFINE c == exec.c
  <2>1. /\ c \in Command /\ inbox[c] \in Row /\ inbox \in [Command -> Row]
        /\ exec' = NoEffect
        /\ UNCHANGED <<cloud, safe, net, past>>
    BY <1>2 DEF CompleteEffect, FailEffect, WellFormed, TypeOK
  <2>2. inbox[c].state = "running" /\ inbox[c].result = "none" /\ ~inbox[c].completed
    BY <2>1, CloudAssumption DEF WellFormed, ExecOK, TypeOK, Truth, OpenOK, Open, Active
  <2>3. PICK s \in {"terminal_pending", "queued"}, r \in Result \cup {"none"} :
          /\ inbox' = [inbox EXCEPT ![c] = [inbox[c] EXCEPT !.state = s, !.result = r]]
          /\ s = "queued" => r = "none" /\ c \in safe
          /\ s = "terminal_pending" => r = "failed" \/ Reported(r)
    <3>1. CASE CompleteEffect
      BY <3>1 DEF CompleteEffect, SetRow
    <3>2. ASSUME NEW retryable \in BOOLEAN, FailEffect(retryable), retryable /\ Repeatable(c)
          PROVE  inbox' = [inbox EXCEPT ![c] = [inbox[c] EXCEPT !.state = "queued", !.result = "none"]]
                 /\ c \in safe
      <4>1. [inbox[c] EXCEPT !.state = "queued"]
              = [inbox[c] EXCEPT !.state = "queued", !.result = "none"]
        BY <2>1, <2>2 DEF Row
      <4>2. QED
        BY <3>2, <4>1 DEF FailEffect, SetRow, Repeatable
    <3>3. ASSUME NEW retryable \in BOOLEAN, FailEffect(retryable), ~(retryable /\ Repeatable(c))
          PROVE  inbox' = [inbox EXCEPT ![c] = [inbox[c] EXCEPT !.state = "terminal_pending",
                                                                !.result = "failed"]]
      BY <3>3 DEF FailEffect, SetRow
    <3>4. QED
      BY <1>2, <3>1, <3>2, <3>3 DEF Result
  <2>4. /\ inbox'[c].state = s /\ inbox'[c].result = r /\ ~inbox'[c].completed
        /\ \A x \in Command : x # c => inbox'[x] = inbox[x]
    BY <2>1, <2>2, <2>3 DEF Row
  <2>5. r = "succeeded" => calls[c] > 0
    BY <2>1, <2>3, CloudAssumption DEF Reported, WellFormed, ExecOK, TypeOK
  <2>6. r = "rejected" => c \in safe \cup Reopened \/ calls[c] = 0
    BY <2>1, <2>3 DEF Reported, Truth, CallsOK, WellFormed, TypeOK
  <2>7. GoesOn(c)
    BY <2>2, <2>3, <2>4, <2>5, <2>6 DEF GoesOn, Open, Waiting
  <2>8. NoNewCall /\ NoAnswer
    BY <2>1 DEF NoNewCall, NoAnswer
  <2>9. exec'.c \notin Command
    BY <2>1, CloudAssumption DEF NoEffect
  <2>10. QED
    BY <2>1, <2>4, <2>7, <2>8, <2>9, TruthKept DEF SameRow
<1>3. CASE MaintainLease
  <2>1. exec.c \in Command /\ UNCHANGED <<cloud, safe, net, exec, past>>
    BY <1>3 DEF MaintainLease, memory, WellFormed, TypeOK
  <2>2. NoNewCall /\ NoAnswer
    BY <2>1 DEF NoNewCall, NoAnswer
  <2>3. \A x \in Command : SameRow(x)
    BY <1>3, <2>1, RenewedSame DEF MaintainLease
  <2>4. QED
    BY <2>1, <2>2, <2>3, TruthKept
<1>4. QED
  BY <1>1, <1>2, <1>3 DEF Effect

\* A restart says of an interrupted effect only that it failed.
LEMMA RestartTruth ==
  ASSUME WellFormed, Truth, RecoverInterruptedEffects \/ Crash \/ Stop
  PROVE  Truth'
<1>1. /\ UNCHANGED <<cloud, safe, past>> /\ net' \in {net, Quiet} /\ exec' \in {exec, NoEffect}
      /\ RecoveredTables \/ UNCHANGED inbox
  BY DEF RecoverInterruptedEffects, Crash, Stop, Restarted, tables
<1>2. NoNewCall /\ NoAnswer
  BY <1>1 DEF NoNewCall, NoAnswer, Quiet
<1>3. \A c \in Command : exec'.c = c => exec' = exec
  BY <1>1, CloudAssumption DEF NoEffect
<1>4. ASSUME NEW c \in Command, RecoveredTables, c \in Interrupted PROVE GoesOn(c)
  <2>1. inbox[c] \in Row /\ inbox[c].state = "running" /\ ~inbox[c].completed
    BY <1>4 DEF Interrupted, WellFormed, TypeOK, Active
  <2>2. inbox'[c] = [inbox[c] EXCEPT !.state = "dead_letter", !.result = "failed"]
    BY <1>4 DEF RecoveredTables
  <2>3. inbox'[c].state = "dead_letter" /\ inbox'[c].result = "failed" /\ ~inbox'[c].completed
    BY <2>1, <2>2 DEF Row
  <2>4. QED
    BY <2>1, <2>3 DEF GoesOn, Open, Waiting
<1>5. \A c \in Command : SameRow(c) \/ GoesOn(c)
  BY <1>1, <1>4 DEF RecoveredTables, SameRow
<1>6. QED
  BY <1>1, <1>2, <1>3, <1>5, TruthKept

\* The operator's CLI keeps the truth: what it orders again is reopened.
LEMMA OperatorTruth ==
  ASSUME WellFormed, Truth, Operator
  PROVE  Truth'
<1>1. ASSUME UNCHANGED <<cloud, safe, memory, past>>, \A x \in Command : SameRow(x) \/ GoesOn(x)
      PROVE  Truth'
  BY <1>1, TruthKept DEF NoNewCall, NoAnswer, memory
<1>2. ASSUME NEW c \in Command, RejectByOperator(c) PROVE Truth'
  BY <1>1, <1>2, RejectGoesOn DEF RejectByOperator
<1>3. ASSUME NEW c \in Command, Approve(c) PROVE Truth'
  BY <1>1, <1>3, WaitGoesOn DEF Approve, Waiting
<1>4. ASSUME NEW c \in Command, RetryReceipt(c) PROVE Truth'
  BY <1>1, <1>4 DEF RetryReceipt, SameRow
<1>5. CASE RetryDies
  BY <1>1, <1>5 DEF RetryDies, tables, SameRow
<1>6. ASSUME NEW c \in Command, RetrySubmission(c) PROVE Truth'
  <2>1. inbox[c] \in Row /\ inbox \in [Command -> Row]
    BY DEF WellFormed, TypeOK
  <2>2. \A x \in Command : SameRow(x)
    BY <1>6, <2>1 DEF RetrySubmission, SetRow, SameRow, Row
  <2>3. QED
    BY <1>1, <1>6, <2>2 DEF RetrySubmission
<1>7. CASE RetryCommand
  <2>1. ordered \in Command /\ inbox[ordered] \in Row /\ inbox \in [Command -> Row]
        /\ UNCHANGED <<cloud, safe, memory, calls>>
    BY <1>7 DEF RetryCommand, WellFormed, TypeOK
  <2>2. CASE ~(inbox[ordered].state \in Answered /\ ~inbox[ordered].completed)
    BY <1>1, <1>7, <2>1, <2>2 DEF RetryCommand, SameRow, past
  <2>3. CASE inbox[ordered].state \in Answered /\ ~inbox[ordered].completed
    <3>1. /\ inbox' = [inbox EXCEPT ![ordered] = [inbox[ordered] EXCEPT !.state = "queued",
                                                   !.result = "none", !.rejections = 0]]
          /\ retried' = [retried EXCEPT ![ordered] = @ + 1]
      BY <1>7, <2>3 DEF RetryCommand, SetRow
    <3>2. /\ inbox'[ordered].state = "queued" /\ inbox'[ordered].result = "none"
          /\ ~inbox'[ordered].completed
          /\ \A x \in Command : x # ordered => inbox'[x] = inbox[x]
      BY <2>1, <2>3, <3>1 DEF Row
    <3>3. Reopened' = Reopened \cup {ordered}
      BY <2>1, <3>1, ConstantTypes DEF Reopened, WellFormed, TypeOK
    <3>4. net' = net /\ exec' = exec
      BY <2>1 DEF memory
    <3>5. CloudOK' /\ CompletedOK' /\ AnswersAgree'
      BY <2>1, <3>2, <3>4 DEF Truth, CloudOK, CompletedOK, AnswersAgree
    <3>6. OpenOK'
      BY <2>1, <3>2, <3>3 DEF Truth, OpenOK, Open
    <3>7. CallsOK'
      BY <2>1, <3>2, <3>3, <3>4 DEF Truth, CallsOK
    <3>8. ResultsOK'
      BY <2>1, <3>2, <3>3 DEF Truth, ResultsOK
    <3>9. BatchOK'
      <4>1. SUFFICES ASSUME net.kind \in {"batch", "submitted"}, NEW p \in net.rest
            PROVE  /\ p[2] = "succeeded" => calls[p[1]] > 0
                   /\ p[1] \notin Reopened' => inbox'[p[1]].state \notin Open /\ inbox'[p[1]].result = p[2]
        BY <2>1, <3>4 DEF BatchOK, Open
      <4>2. p[1] \in Command
        BY <4>1 DEF WellFormed, NetOK
      <4>3. QED
        BY <3>2, <3>3, <4>1, <4>2 DEF Truth, BatchOK
    <3>10. QED
      BY <3>5, <3>6, <3>7, <3>8, <3>9 DEF Truth
  <2>4. QED
    BY <2>2, <2>3
<1>8. QED
  BY <1>2, <1>3, <1>4, <1>5, <1>6, <1>7 DEF Operator

\* Time keeps the truth.
LEMMA TimeTruth ==
  ASSUME WellFormed, Truth, Time
  PROVE  Truth'
<1>1. ASSUME NoAnswer, UNCHANGED <<safe, memory, past>>, \A x \in Command : SameRow(x)
      PROVE  Truth'
  BY <1>1, TruthKept DEF NoNewCall, memory
<1>2. ASSUME NEW c \in Command, LeaseLapses(c) PROVE Truth'
  <2>1. inbox[c] \in Row /\ inbox \in [Command -> Row]
    BY DEF WellFormed, TypeOK
  <2>2. \A x \in Command : SameRow(x)
    BY <1>2, <2>1 DEF LeaseLapses, SetRow, SameRow, Row
  <2>3. QED
    BY <1>1, <1>2, <2>2 DEF LeaseLapses, NoAnswer
<1>3. ASSUME NEW c \in Command, CloudLeaseLapses(c) PROVE Truth'
  <2>1. NoAnswer
    BY <1>3, LeaseIsNoAnswer
  <2>2. QED
    BY <1>1, <1>3, <2>1 DEF CloudLeaseLapses, tables, SameRow
<1>4. ASSUME NEW c \in Command, Expires(c) PROVE Truth'
  BY <1>1, <1>4 DEF Expires, tables, SameRow, NoAnswer
<1>5. QED
  BY <1>2, <1>3, <1>4 DEF Time

\* Every step keeps what the rows and the cloud say true.
LEMMA TruthStep ==
  ASSUME WellFormed, Truth, [Next]_vars
  PROVE  Truth'
<1>1. CASE Tick
  BY <1>1, CallTruth, CommandTruth, ReadTruth, SubmitTruth, MarkTruth, RestartTruth DEF Tick, Submitted
<1>2. CASE Effect
  BY <1>2, EffectTruth
<1>3. CASE Operator
  BY <1>3, OperatorTruth
<1>4. CASE Time
  BY <1>4, TimeTruth
<1>5. CASE Crash \/ Stop
  BY <1>5, RestartTruth
<1>6. CASE UNCHANGED vars
  <2>1. UNCHANGED <<cloud, safe, past, net, exec, inbox>>
    BY <1>6 DEF vars, tables, memory
  <2>2. QED
    BY <2>1, TruthKept DEF NoNewCall, NoAnswer, SameRow
<1>7. QED
  BY <1>1, <1>2, <1>3, <1>4, <1>5, <1>6 DEF Next

\* Before anything has happened the tables are empty, and true.
LEMMA InitTruth ==
  ASSUME Init
  PROVE  WellFormed /\ Truth
<1>1. /\ \A c \in Command : inbox[c] = NoRow /\ receipt[c] = NoReceipt /\ cloud[c] = Pending
      /\ \A c \in Command : calls[c] = 0 /\ retried[c] = 0
      /\ exec = NoEffect /\ net = Quiet /\ ordered = None
  BY DEF Init
<1>2. inbox \in [Command -> Row] /\ receipt \in [Command -> Receipt]
  BY FirstRows DEF Init
<1>3. cloud \in [Command -> [state : {"pending", "leased", "terminal"}, attempt : 0..MaxClaims,
                             live : BOOLEAN, result : Result \cup {"none"}]]
  BY ConstantTypes DEF Init, Pending
<1>4. calls \in [Command -> Nat] /\ retried \in [Command -> 0..MaxRetries]
  BY ConstantTypes DEF Init
<1>5. RowsAgree(inbox, receipt)
  BY <1>1 DEF RowsAgree, NoRow, NoReceipt, Answered
<1>6. TypeOK
  <2>1. /\ safe \subseteq Command /\ expired \subseteq Command
        /\ policy \in [Command -> Verdict] /\ recovered \in BOOLEAN
    BY DEF Init
  <2>2. net.kind = "idle" /\ exec.c = None
    BY <1>1 DEF Quiet, NoEffect
  <2>3. QED
    BY <1>1, <1>2, <1>3, <1>4, <1>5, <2>1, <2>2 DEF TypeOK, RowsAgree
<1>7. ExecOK /\ NetOK /\ OrderOK
  BY <1>1 DEF ExecOK, NetOK, OrderOK, NoEffect, Quiet
<1>8. CloudOK /\ CompletedOK /\ OpenOK /\ CallsOK /\ ResultsOK /\ BatchOK /\ AnswersAgree
  BY <1>1 DEF CloudOK, CompletedOK, OpenOK, CallsOK, ResultsOK, BatchOK, AnswersAgree,
              NoRow, Pending, Quiet
<1>9. QED
  BY <1>6, <1>7, <1>8 DEF WellFormed, Truth

-----------------------------------------------------------------------------
(* What holds always *)

\* The inductive invariant: the tables are well formed and what they and the
\* cloud say of every command is true.
CloudInv == WellFormed /\ Truth

\* Every reachable state is well formed and true.
LEMMA CloudAlways == Spec => []CloudInv
<1>1. Init => CloudInv
  BY InitTruth DEF CloudInv
<1>2. CloudInv /\ [Next]_vars => CloudInv'
  BY TypeStep, TruthStep DEF CloudInv
<1>3. QED
  BY <1>1, <1>2, PTL DEF Spec

\* The command bridge (src/cloud-workflow.ts) keeps its tables well typed, a
\* command running exactly while its receipt is, an answer wherever one is due.
THEOREM CloudTypeCorrect == Spec => []TypeOK
<1>1. CloudInv => TypeOK
  BY DEF CloudInv, WellFormed
<1>2. QED
  BY <1>1, CloudAlways, PTL

\* A row that markSubmitted has completed says what the cloud has recorded,
\* through lost replies, new leases, retries and restarts.
THEOREM AnswersAlwaysAgree == Spec => []AnswersAgree
<1>1. CloudInv => AnswersAgree
  BY DEF CloudInv, Truth
<1>2. QED
  BY <1>1, CloudAlways, PTL

-----------------------------------------------------------------------------
(* The refinement *)

ledgerVars == <<safe, calls, [c \in Command |-> cloud[c].result], Reopened>>

\* An executor asks the outside only for what the ledger lets it ask for.
LEMMA RequestIsAllowed ==
  ASSUME CloudInv, RequestEffect
  PROVE  \E c \in Command : Ledger!Request(c)
<1> DEFINE c == exec.c
<1>1. /\ c \in Command /\ ~exec.sent /\ inbox[c].state = "running"
      /\ calls' = [calls EXCEPT ![c] = @ + 1] /\ UNCHANGED <<cloud, safe, retried>>
  BY CloudAssumption DEF RequestEffect, CloudInv, WellFormed, TypeOK, ExecOK
<1>2. c \notin Reopened => cloud[c].result = "none"
  BY <1>1 DEF CloudInv, Truth, OpenOK, Open
<1>3. c \notin safe \cup Reopened => ~(calls[c] > 0)
  BY <1>1 DEF CloudInv, Truth, CallsOK
<1>4. calls[c] \in Nat
  BY <1>1 DEF CloudInv, WellFormed, TypeOK
<1>5. calls[c] = 0 \/ c \in safe \cup Reopened
  BY <1>3, <1>4
<1>6. Ledger!Request(c)
  BY <1>1, <1>2, <1>5 DEF Ledger!Request, Reopened
<1>7. QED
  BY <1>1, <1>6

\* The cloud records one answer, and a true one.
LEMMA AnswerIsAllowed ==
  ASSUME CloudInv, NEW c \in Command, NEW r \in Result, SubmitResult(c, r)
  PROVE  Ledger!Answer(c, r) \/ UNCHANGED ledgerVars
<1> DEFINE fresh == HeldInCloud(c, inbox[c].attempt)
<1>1. /\ net.kind = "batch" /\ <<c, r>> \in net.rest /\ UNCHANGED <<safe, calls, retried>>
      /\ cloud' = IF fresh THEN [cloud EXCEPT ![c] = [@ EXCEPT !.state = "terminal", !.result = r]]
                  ELSE cloud
  BY DEF SubmitResult, past
<1>2. CASE ~fresh
  BY <1>1, <1>2 DEF ledgerVars, Reopened
<1>3. CASE fresh
  <2>1. cloud \in [Command -> [state : {"pending", "leased", "terminal"}, attempt : 0..MaxClaims,
                               live : BOOLEAN, result : Result \cup {"none"}]]
    BY DEF CloudInv, WellFormed, TypeOK
  <2>2. \A x \in Command : cloud'[x].result = IF x = c THEN r ELSE cloud[x].result
    BY <1>1, <1>3, <2>1
  <2>3. cloud[c].result = "none"
    BY <1>3 DEF HeldInCloud, CloudInv, Truth, CloudOK
  <2>4. /\ r = "succeeded" => calls[c] > 0
        /\ c \notin Reopened => inbox[c].result = r
    BY <1>1 DEF CloudInv, Truth, BatchOK
  <2>5. r = "rejected" => calls[c] = 0 \/ c \in safe \cup Reopened
    BY <2>4 DEF CloudInv, Truth, ResultsOK
  <2>6. [x \in Command |-> cloud'[x].result]
          = [[x \in Command |-> cloud[x].result] EXCEPT ![c] = r]
    BY <2>2
  <2>7. QED
    BY <1>1, <2>3, <2>4, <2>5, <2>6 DEF Ledger!Answer, Reopened
<1>4. QED
  BY <1>2, <1>3

\* An operator's order reopens a command.
LEMMA RetryReopens ==
  ASSUME CloudInv, RetryCommand
  PROVE  (\E c \in Command : Ledger!Reopen(c)) \/ UNCHANGED ledgerVars
<1>1. /\ ordered \in Command /\ UNCHANGED <<cloud, safe, calls>>
      /\ retried' = retried \/ retried' = [retried EXCEPT ![ordered] = @ + 1]
      /\ retried \in [Command -> 0..MaxRetries]
  BY DEF RetryCommand, CloudInv, WellFormed, TypeOK
<1>2. CASE retried' = retried
  BY <1>1, <1>2 DEF ledgerVars, Reopened
<1>3. CASE retried' = [retried EXCEPT ![ordered] = @ + 1]
  <2>1. {c \in Command : retried'[c] > 0} = {c \in Command : retried[c] > 0} \cup {ordered}
    BY <1>1, <1>3, ConstantTypes
  <2>2. PICK c \in Command : c = ordered
    BY <1>1
  <2>3. Ledger!Reopen(c)
    BY <1>1, <2>1, <2>2 DEF Ledger!Reopen
  <2>4. QED
    BY <2>3
<1>4. QED
  BY <1>1, <1>2, <1>3

\* Claims, leases, decisions, effects that end, crashes, time and the rest of the
\* CLI are steps the ledger does not see.
LEMMA OthersAreUnseen ==
  ASSUME CloudInv,
         \/ PersistClaim \/ Decide \/ LeaseExtended \/ MarkSubmitted \/ FailSubmission
         \/ NetworkDeferred \/ ReadResults \/ RecoverInterruptedEffects
         \/ \E c \in Command : \/ ClaimCommand(c) \/ ExpireCommand(c) \/ ExtendLease(c)
                               \/ DenyEffect(c) \/ StartEffect(c)
                               \/ RejectByOperator(c) \/ Approve(c) \/ RetryReceipt(c)
                               \/ RetrySubmission(c)
         \/ CompleteEffect \/ MaintainLease \/ \E retryable \in BOOLEAN : FailEffect(retryable)
         \/ RetryDies \/ Time \/ Crash \/ Stop \/ UNCHANGED vars
  PROVE  UNCHANGED ledgerVars
<1>1. UNCHANGED <<safe, calls, retried>>
  BY DEF PersistClaim, Decide, LeaseExtended, MarkSubmitted, FailSubmission, NetworkDeferred,
         ReadResults, RecoverInterruptedEffects, ClaimCommand, ExpireCommand, ExtendLease,
         DenyEffect, StartEffect, RejectByOperator, Approve, RetryReceipt, RetrySubmission,
         CompleteEffect, MaintainLease, FailEffect, RetryDies, Time, LeaseLapses,
         CloudLeaseLapses, Expires, Crash, Stop, vars, past
<1>2. \A x \in Command : cloud'[x].result = cloud[x].result
  <2>1. ASSUME NEW c \in Command, ClaimCommand(c) \/ CloudLeaseLapses(c)
        PROVE  \A x \in Command : cloud'[x].result = cloud[x].result
    BY <2>1, LeaseIsNoAnswer DEF NoAnswer, CloudInv
  <2>2. \/ cloud' = cloud
        \/ \E c \in Command : ClaimCommand(c) \/ CloudLeaseLapses(c)
    BY DEF PersistClaim, Decide, LeaseExtended, MarkSubmitted, FailSubmission, NetworkDeferred,
         ReadResults, RecoverInterruptedEffects, ExpireCommand, ExtendLease,
         DenyEffect, StartEffect, RejectByOperator, Approve, RetryReceipt, RetrySubmission,
         CompleteEffect, MaintainLease, FailEffect, RetryDies, Time, LeaseLapses,
         Expires, Crash, Stop, vars
  <2>3. QED
    BY <2>1, <2>2
<1>3. QED
  BY <1>1, <1>2 DEF ledgerVars, Reopened

\* Every step of the bridge is one of the ledger, or one it does not see.
LEMMA LedgerStep ==
  ASSUME CloudInv, [Next]_vars
  PROVE  [Ledger!Next]_ledgerVars
<1>1. CASE RequestEffect
  BY <1>1, RequestIsAllowed DEF Ledger!Next
<1>2. ASSUME NEW c \in Command, Submitted(c) PROVE Ledger!Next \/ UNCHANGED ledgerVars
  BY <1>2, AnswerIsAllowed DEF Submitted, Ledger!Next, Result
<1>3. CASE RetryCommand
  BY <1>3, RetryReopens DEF Ledger!Next
<1>4. QED
  BY <1>1, <1>2, <1>3, OthersAreUnseen DEF Next, Tick, Effect, Operator

\* Through redelivered commands, lost replies, crashes and retries the bridge
\* (src/cloud-workflow.ts) keeps the ledger: it asks the outside for what a
\* command wants at most once unless that may be repeated or an operator said
\* so, never after an answer, and the one answer it gives is true.
THEOREM BridgeKeepsLedger == Spec => LedgerIsKept
<1>1. Init => Ledger!Init
  <2>1. SUFFICES ASSUME Init PROVE Ledger!Init
    OBVIOUS
  <2>2. \A c \in Command : cloud[c].result = "none" /\ retried[c] = 0
    BY <2>1 DEF Init, Pending
  <2>3. [c \in Command |-> cloud[c].result] = [c \in Command |-> "none"]
        /\ {c \in Command : retried[c] > 0} = {}
    BY <2>2
  <2>4. QED
    BY <2>1, <2>3 DEF Init, Ledger!Init
<1>2. CloudInv /\ [Next]_vars => [Ledger!Next]_ledgerVars
  BY LedgerStep
<1>3. QED
  BY <1>1, <1>2, CloudAlways, PTL DEF Spec, LedgerIsKept, Ledger!Spec, ledgerVars, Reopened
=============================================================================
