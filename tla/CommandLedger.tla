------------------------------ MODULE CommandLedger ------------------------------
(***************************************************************************)
(* What the gateway promises to a cloud that relays commands to it: it     *)
(* asks the outside for what a command wants at most once, unless that may *)
(* safely be repeated or the operator ordered another try, and not after   *)
(* the command was answered; and the one answer is true.                   *)
(***************************************************************************)
EXTENDS Naturals

CONSTANT Command

VARIABLES
  repeatable, \* commands that do no harm if repeated
  requests,  \* how often the outside was asked
  answer,    \* what the cloud has recorded, or "none"
  reopened   \* commands the operator ordered to be tried again

Init ==
  /\ requests = [c \in Command |-> 0]
  /\ repeatable \in SUBSET Command
  /\ answer = [c \in Command |-> "none"]
  /\ reopened = {}

Request(c) ==
  /\ answer[c] = "none" \/ c \in reopened
  /\ requests[c] = 0 \/ c \in repeatable \cup reopened
  /\ requests' = [requests EXCEPT ![c] = @ + 1]
  /\ UNCHANGED <<repeatable, answer, reopened>>

Answer(c, r) ==
  /\ answer[c] = "none"
  /\ r = "succeeded" => requests[c] > 0
  /\ r = "rejected" => requests[c] = 0 \/ c \in repeatable \cup reopened
  /\ answer' = [answer EXCEPT ![c] = r]
  /\ UNCHANGED <<repeatable, requests, reopened>>

Reopen(c) ==
  /\ reopened' = reopened \cup {c}
  /\ UNCHANGED <<repeatable, requests, answer>>

Next ==
  \E c \in Command :
    \/ Request(c) \/ Reopen(c)
    \/ \E r \in {"succeeded", "rejected", "failed"} : Answer(c, r)

Spec == Init /\ [][Next]_<<repeatable, requests, answer, reopened>>
=============================================================================
