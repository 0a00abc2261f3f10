----------------------------- MODULE PublicationOutbox -----------------------------
(***************************************************************************)
(* Publications on their way to Knot Cloud: src/cloud-publication.ts and    *)
(* src/cloud-publication-outbox.ts, called by the publish.web step          *)
(* (src/automation/publish-web.ts), the CLI and the MCP tool.               *)
(*                                                                          *)
(* Each call is a worker: it opens the outbox, writes the operation there,  *)
(* claims it and delivers it, asset first.  Workers run beside each other   *)
(* in processes of their own; one may die, or be so slow that its lease     *)
(* lapses and another takes its operation over.                             *)
(***************************************************************************)
EXTENDS Integers, FiniteSets, Sequences

CONSTANTS
  Worker,       \* calls that may run at the same time
  MaxOps,       \* bound of the model: operations
  MaxAttempts   \* bound of the model: claims of one operation

ASSUME PublicationAssumption == MaxOps \in Nat /\ MaxAttempts \in Nat

VARIABLES
  ops,       \* publication_operations, with the checkpoint of the asset of each
  manifest,  \* publication_asset_manifests: the manifest of the media request is there
  worker,    \* the calls, and the await each is at
  upload,    \* external: the asset in the cloud
  applied,   \* external: the operations whose mutation the cloud committed
  refused    \* history: the requests that were refused for want of a manifest

vars == <<ops, manifest, worker, upload, applied, refused>>

\* A push, a push with an asset, and a lifecycle control.
Request == {"push", "media", "control"}
Op == 1..Len(ops)
Pending == {"queued", "retrying"}
NoWorker == [at |-> "idle", op |-> 0, reply |-> "none", stale |-> FALSE]

TypeOK ==
  /\ \A i \in Op : /\ ops[i].request \in Request
                   /\ ops[i].state \in Pending \cup {"in-flight", "succeeded", "failed"}
                   /\ ops[i].asset \in {"pending", "requested", "uploaded", "committed"}
                   /\ ops[i].lease \in {"none", "held", "lapsed"} /\ ops[i].attempt \in Nat
                   /\ (ops[i].lease = "none") = (ops[i].state # "in-flight")
  /\ \A w \in Worker :
       /\ worker[w].at \in {"idle", "written", "claim", "asset", "upload", "commit", "publish",
                            "record"}
       /\ worker[w].op \in 0..Len(ops) /\ worker[w].reply \in {"none", "ok", "retry", "final"}
       /\ worker[w].stale \in BOOLEAN
  /\ manifest \in BOOLEAN /\ upload \in {"none", "open", "stored", "verified"}
  /\ applied \subseteq Op /\ refused \subseteq Request
  /\ \A i, j \in Op : ops[i].request = ops[j].request /\ ops[i].request # "control" => i = j

Init ==
  /\ ops = <<>> /\ manifest = TRUE /\ worker = [w \in Worker |-> NoWorker]
  /\ upload = "none" /\ applied = {} /\ refused = {}

At(w, step) == worker[w].at = step
Goes(w, step) == worker' = [worker EXCEPT ![w].at = step]
Returns(w) == worker' = [worker EXCEPT ![w] = NoWorker]
OnlyOutbox == UNCHANGED <<upload, applied>>

-----------------------------------------------------------------------------
(* Opening the outbox, writing to it *)

\* In flight, and its lease has lapsed.
Abandoned(op) == op.state = "in-flight" /\ op.lease = "lapsed"

\* The lease is given up with the attempt.
Freed(op, state) == [op EXCEPT !.state = state, !.due = TRUE, !.lease = "none", !.owner = "none"]

\* The constructor of CloudPublicationOutbox.
Opened == [i \in Op |-> IF Abandoned(ops[i]) THEN Freed(ops[i], "retrying") ELSE ops[i]]

\* Mistake: a push that is asked for again is queued again.
MutRequeued(op) == op.state # "in-flight"

\* A push that is asked for again is queued again unless it is done or on its way.
Requeued(op) == op.state \notin {"in-flight", "succeeded"}

\* The operations with the key of this request: a push is known by its contents, a control is an
\* intent of its own each time.
Known(r) == {i \in Op : r # "control" /\ ops[i].request = r}

\* The step publish.web answers what publicationAction throws with a failure that is not retried.
TurnedAway(r) == refused' = refused \cup {r}

\* publicationAction: without its manifest a push is turned away before anything is written.
Write(w, r) ==
  LET fresh == [request |-> r, state |-> "queued", due |-> TRUE, attempt |-> 0, owner |-> "none",
                lease |-> "none", asset |-> "pending"]
  IN
  /\ At(w, "idle") /\ OnlyOutbox
  /\ \/ /\ r = "media" /\ ~manifest /\ TurnedAway(r) /\ ops' = Opened
        /\ UNCHANGED <<manifest, worker>>
     \/ /\ r = "media" => manifest
        /\ UNCHANGED <<manifest, refused>>
        /\ \/ /\ Known(r) = {} /\ Len(ops) < MaxOps /\ ops' = Append(Opened, fresh)
              /\ worker' = [worker EXCEPT ![w].at = "written", ![w].op = Len(ops) + 1]
           \/ \E i \in Known(r) :
                /\ ops' = [Opened EXCEPT ![i] = IF Requeued(@) THEN Freed(@, "queued") ELSE @]
                /\ worker' = [worker EXCEPT ![w].at = "written", ![w].op = i]

\* The manifest is used up; what is done already is only reported.
UseManifest(w) ==
  LET op == ops[worker[w].op] IN
  /\ At(w, "written") /\ OnlyOutbox /\ UNCHANGED <<ops, refused>>
  /\ manifest' = (manifest /\ op.request # "media")
  /\ IF op.state \in {"succeeded", "failed"} THEN Returns(w) ELSE Goes(w, "claim")

\* retryPublicationOperation: a failed operation only by force, and then from the start.
Retry(w, i) ==
  /\ At(w, "idle") /\ OnlyOutbox /\ UNCHANGED <<manifest, refused>>
  /\ \/ /\ ops[i].state = "failed"
        /\ ops' = [Opened EXCEPT ![i] = [Freed(@, "queued") EXCEPT !.asset = "pending"]]
     \/ /\ ops[i].state \notin {"failed", "succeeded"}
        /\ ops' = [Opened EXCEPT ![i].due = @ \/ Opened[i].state = "retrying"]
  /\ worker' = [worker EXCEPT ![w].at = "claim", ![w].op = i]

\* preparePublicationAssetManifest
Prepare ==
  /\ ~manifest /\ manifest' = TRUE
  /\ UNCHANGED <<ops, worker, upload, applied, refused>>

-----------------------------------------------------------------------------
(* Delivering: deliverPublicationOperation *)

\* The attempt and its lease.
Claimed(op, w) ==
  [op EXCEPT !.state = "in-flight", !.attempt = op.attempt + 1, !.owner = w, !.lease = "held"]

\* The asset comes first, and is taken up where its checkpoint says.
Claim(w) ==
  LET i == worker[w].op IN
  /\ At(w, "claim") /\ OnlyOutbox /\ UNCHANGED <<manifest, refused>>
  /\ \/ /\ ops[i].state \in Pending /\ ops[i].due /\ ops[i].attempt < MaxAttempts
        /\ ops' = [ops EXCEPT ![i] = Claimed(@, w)]
        /\ Goes(w, IF ops[i].request = "media" THEN "asset" ELSE "publish")
     \/ ~(ops[i].state \in Pending /\ ops[i].due) /\ Returns(w) /\ UNCHANGED ops

\* CloudClient.request, once its own attempts are used up: a request fails for now or for good.
Failures == {"retry", "final"}

\* The reply is in: what is left is to write it down.
Replied(w, reply) == worker' = [worker EXCEPT ![w].at = "record", ![w].reply = reply]
Checkpoint(w, state) == ops' = [ops EXCEPT ![worker[w].op].asset = state]
OnlyDelivery == UNCHANGED <<manifest, refused>>

\* Mistake: an asset that is uploaded is taken for committed.
MutLeft(state) == CASE state \in {"committed", "uploaded"} -> "publish"
                    [] OTHER -> "request"

\* What is left to do for an asset at this checkpoint.
Left(state) == CASE state = "committed" -> "publish"
                 [] state = "uploaded"  -> "commit"
                 [] OTHER               -> "request"

\* deliverAsset: read the checkpoint; check the file and ask where to upload it.
RequestUpload(w) ==
  LET next == Left(ops[worker[w].op].asset) IN
  /\ At(w, "asset") /\ OnlyDelivery /\ UNCHANGED applied
  /\ \/ next # "request" /\ Goes(w, next) /\ UNCHANGED <<ops, upload>>
     \/ /\ next = "request" /\ Checkpoint(w, "requested") /\ Goes(w, "upload")
        /\ upload' = IF upload = "none" THEN "open" ELSE upload
     \/ /\ next = "request" /\ \E reply \in Failures : Replied(w, reply)
        /\ UNCHANGED <<ops, upload>>

Upload(w) ==
  /\ At(w, "upload") /\ OnlyDelivery /\ UNCHANGED applied
  /\ \/ /\ upload # "none" /\ upload' = IF upload = "open" THEN "stored" ELSE upload
        /\ Checkpoint(w, "uploaded") /\ Goes(w, "commit")
     \/ /\ \E reply \in Failures : Replied(w, reply)
        /\ upload' \in {upload, IF upload = "open" THEN "stored" ELSE upload} /\ UNCHANGED ops

\* An upload that is gone is asked for again at the next attempt.
Commit(w) ==
  /\ At(w, "commit") /\ OnlyDelivery /\ UNCHANGED applied
  /\ \/ /\ upload \in {"stored", "verified"} /\ upload' = "verified"
        /\ Checkpoint(w, "committed") /\ Goes(w, "publish")
     \/ /\ upload \in {"none", "open"} /\ Checkpoint(w, "pending") /\ Replied(w, "retry")
        /\ UNCHANGED upload
     \/ /\ \E reply \in Failures : Replied(w, reply)
        /\ upload' \in {upload, IF upload = "stored" THEN "verified" ELSE upload}
        /\ UNCHANGED ops

\* client.publish, client.controlPublication: the reply may be lost after the cloud committed.
Publish(w) ==
  /\ At(w, "publish") /\ OnlyDelivery /\ UNCHANGED <<ops, upload>>
  /\ \/ /\ applied' = applied \cup {worker[w].op}
        /\ \E reply \in {"ok"} \cup Failures : Replied(w, reply)
     \/ UNCHANGED applied /\ \E reply \in Failures : Replied(w, reply)

Outcome(reply) == CASE reply = "ok" -> "succeeded" [] reply = "final" -> "failed"
                    [] OTHER -> "retrying"

\* Mistake: an outcome is written down by whoever has one.
MutHolds(w) == ops[worker[w].op].state = "in-flight"

\* The lease is still this worker's.
Holds(w) == ops[worker[w].op].state = "in-flight" /\ ops[worker[w].op].owner = w

\* succeed, fail: without the lease both throw and nothing is written.
Record(w) ==
  LET i == worker[w].op
      state == Outcome(worker[w].reply)
  IN
  /\ At(w, "record") /\ OnlyOutbox /\ OnlyDelivery /\ Returns(w)
  /\ ops' = [ops EXCEPT ![i] = IF Holds(w)
                               THEN [Freed(@, state) EXCEPT !.due = state # "retrying"] ELSE @]

-----------------------------------------------------------------------------
(* Time, and the death of a call *)

Dies(w) == ~At(w, "idle") /\ Returns(w) /\ UNCHANGED <<ops, manifest, upload, applied, refused>>

\* Thirty minutes after the claim.
LeaseLapses(i) ==
  /\ ops[i].lease = "held" /\ ops' = [ops EXCEPT ![i].lease = "lapsed"]
  /\ worker' = [w \in Worker |-> IF worker[w].op = i /\ w = ops[i].owner /\ ~At(w, "idle")
                                 THEN [worker[w] EXCEPT !.stale = TRUE] ELSE worker[w]]
  /\ UNCHANGED <<manifest, upload, applied, refused>>

\* retryDelay has passed.
BackoffEnds(i) ==
  /\ ops[i].state = "retrying" /\ ~ops[i].due /\ ops' = [ops EXCEPT ![i].due = TRUE]
  /\ UNCHANGED <<manifest, worker, upload, applied, refused>>

\* The cloud forgets an upload nobody committed.
UploadExpires ==
  /\ upload \in {"open", "stored"} /\ upload' = "none"
  /\ UNCHANGED <<ops, manifest, worker, applied, refused>>

Deliver(w) == Claim(w) \/ RequestUpload(w) \/ Upload(w) \/ Commit(w) \/ Publish(w) \/ Record(w)
Next ==
  \/ \E w \in Worker : \/ \E r \in Request : Write(w, r)
                       \/ UseManifest(w) \/ Deliver(w) \/ Dies(w)
                       \/ \E i \in Op : Retry(w, i)
  \/ \E i \in Op : LeaseLapses(i) \/ BackoffEnds(i)
  \/ Prepare \/ UploadExpires

Spec == Init /\ [][Next]_vars

-----------------------------------------------------------------------------
(* What must hold *)

\* Asset upload failure prevents the publication version from becoming current.
AssetsFirst == \A i \in applied : ops[i].request = "media" => upload = "verified"

\* A receipt says what the cloud committed, and nothing takes it back: a push that is asked for
\* again, a retry, a late outcome of a call that lost its lease.
ReceiptsStand ==
  [][\A i \in Op : ops[i].state = "succeeded" => ops'[i].state = "succeeded" /\ i \in applied]_vars

\* Only the call that holds an operation ends its attempt, until the lease lapses.
HoldersDecide ==
  [][\A i \in Op : \A w \in Worker :
       ops[i].owner = w /\ ops[i].lease = "held" /\ ops'[i].state # "in-flight" => At(w, "record")]_vars

\* The awaits of a call between its claim and its outcome.
Delivers == {"asset", "upload", "commit", "publish", "record"}

\* Two calls deliver one operation side by side only when the lease of one of them has lapsed.
OneDelivers ==
  \A v, w \in Worker :
    /\ worker[v].at \in Delivers /\ worker[w].at \in Delivers
    /\ worker[v].op = worker[w].op /\ ~worker[v].stale /\ ~worker[w].stale
    => v = w

\* publish.web "retries pending outbox work": an attempt is not turned away for good while the
\* operation of the attempt before it is still pending.
PendingWorkIsRetried ==
  [][\A i \in Op : ops[i].state \in Pending => ops[i].request \notin refused' \ refused]_vars
=============================================================================
