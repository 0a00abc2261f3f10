--------------------------- MODULE WorkflowObserver ---------------------------
(***************************************************************************)
(* The workflow observer of src/automation/observer.ts over one space, the *)
(* rows it keeps in src/store.ts, and the people who edit the definitions  *)
(* in Anytype while it scans.                                              *)
(*                                                                         *)
(* A pass reads the search results page by page, then asks for each stored *)
(* definition that the pass did not meet and archives those that are gone. *)
(* Only the observer writes these rows and everything between two awaits   *)
(* is one turn, so reading an object and writing its row is one action: an *)
(* edit that comes between them cannot be told from one that comes after.  *)
(* Of last_seen_at it matters whether it is before the boundary of the     *)
(* pass (reconcileStartedAt): `seen` holds the definitions where it is not.*)
(***************************************************************************)
EXTENDS Integers, FiniteSets, SequencesExt

CONSTANTS
  Object,       \* objects of the definition type
  Content,      \* bodies an object can have
  NoContent,
  Parsed,       \* bodies with one fenced block that is a definition
  Uses,         \* capabilities that the steps and scopes of a body need
  Declares,     \* capabilities it declares
  Names,        \* what else it needs granted: its editor, spaces, risk tier, ...
  Grants,       \* what the local configuration may grant, one after the other
  Digest,       \* the digest of each body, as its place in the byte order
  EmptyDigest,  \* workflowSourceDigest("")
  PageSize,     \* polling.pageSize
  MaxAt,        \* bound: modification times of an object
  MaxEdits,     \* bound: changes made in Anytype
  MaxFaults     \* bound: failed requests and writes, and crashes

ASSUME ObserverAssumption ==
  /\ Parsed \subseteq Content /\ NoContent \notin Content
  /\ Digest \in [Content -> Nat \ {0}]
  /\ EmptyDigest \in Nat \ {0} /\ \A c \in Content : Digest[c] # EmptyDigest
  /\ PageSize \in Nat \ {0}
  /\ MaxAt \in Nat \ {0} /\ MaxEdits \in Nat /\ MaxFaults \in Nat

VARIABLES
  granted,  \* capabilities and names that config.automation allows
  source,   \* the objects in Anytype
  listing,  \* what a search finds, the last modified first
  edits,    \* changes made so far
  rows,     \* workflow_definitions
  seen,     \* definitions with last_seen_at >= reconcileStartedAt
  events,   \* normalized_events
  offset,   \* pageOffset
  phase,    \* "idle", "page" or "missing"
  page,     \* results of the page still to be observed, with their summaries
  size,     \* the number of results of the page
  missing,  \* definitions still to be confirmed
  complete, \* all that are missing fit in this batch
  faults

sourceVars == <<granted, source, listing, edits>>
storeVars  == <<rows, seen, events>>
scanVars   == <<offset, phase, page, size, missing, complete>>
observerVars == <<sourceVars, storeVars, scanVars, faults>>

Revision == 0..MaxAt
NoRow    == [state |-> "none", active |-> NoContent, at |-> 0, digest |-> 0]
Row      == [state : {"none", "valid", "invalid", "archived"},
             active : Content \cup {NoContent}, at : Revision, digest : Nat]
DefinitionEvent ==
  [object : Object, at : Revision, digest : Nat,
   kind : {"created", "updated", "unreadable", "archived"}]

ObserverTypeOK ==
  /\ source \in [Object -> [state : {"absent", "live", "archived"}, at : Revision,
                            content : Content \cup {NoContent}]]
  /\ granted \in Grants
  /\ listing \in Seq(Object) /\ IsInjective(listing)
  /\ edits \in 0..MaxEdits /\ faults \in 0..MaxFaults
  /\ rows \in [Object -> Row] /\ seen \subseteq Object /\ events \subseteq DefinitionEvent
  /\ offset \in Nat /\ size \in 0..PageSize
  /\ phase \in {"idle", "page", "missing"}
  /\ page \in Seq([id : Object, at : Revision])
  /\ missing \subseteq Object /\ complete \in BOOLEAN

ObserverInit ==
  /\ source = [o \in Object |-> [state |-> "absent", at |-> 0, content |-> NoContent]]
  /\ granted \in Grants
  /\ listing = <<>> /\ edits = 0 /\ faults = 0
  /\ rows = [o \in Object |-> NoRow] /\ seen = {} /\ events = {}
  /\ offset = 0 /\ phase = "idle" /\ page = <<>> /\ size = 0
  /\ missing = {} /\ complete = FALSE

-----------------------------------------------------------------------------
(* Anytype: people create, edit, archive, delete and restore definitions.  *)

Unlisted(o) == RemoveFirst(listing, o)

Change(o, state, at, c) ==
  /\ edits < MaxEdits /\ edits' = edits + 1
  /\ source' = [source EXCEPT ![o] = [state |-> state, at |-> at, content |-> c]]
  /\ UNCHANGED <<granted, storeVars, scanVars, faults>>

Create(o, c) ==
  /\ source[o].at = 0
  /\ Change(o, "live", 1, c)
  /\ listing' = <<o>> \o listing

\* Two edits may fall in one millisecond.
Edit(o, c) ==
  /\ source[o].state = "live" /\ c # source[o].content
  /\ \E at \in {source[o].at, source[o].at + 1} \cap Revision : Change(o, "live", at, c)
  /\ listing' = <<o>> \o Unlisted(o)

\* A search may go on finding an archived object.
Archive(o) ==
  /\ source[o].state = "live"
  /\ Change(o, "archived", source[o].at, source[o].content)
  /\ listing' \in {listing, Unlisted(o)}

Delete(o) ==
  /\ source[o].state = "live"
  /\ Change(o, "absent", source[o].at, source[o].content)
  /\ listing' = Unlisted(o)

Restore(o) ==
  /\ source[o].at > 0 /\ source[o].state # "live"
  /\ Change(o, "live", source[o].at, source[o].content)
  /\ listing' = Append(Unlisted(o), o)

-----------------------------------------------------------------------------
(* What the gateway makes of a body: parsing, policy and authority         *)

\* extractWorkflowSource and the schema
Parses(c) == c \in Parsed

\* evaluateWorkflowPolicy
RequiredCapabilities(c) == Uses[c] \cup Declares[c]
MissingCapabilities(c)  == Uses[c] \ Declares[c]

\* evaluateWorkflowAuthority finds no violation.
Authorized(c) == RequiredCapabilities(c) \cup Names[c] \subseteq granted

Accepted(c) == Parses(c) /\ MissingCapabilities(c) = {} /\ Authorized(c)

-----------------------------------------------------------------------------
(* The store: what a write leaves of a row                                 *)

\* Mutant: only the time of the observation is compared.
NewerMutant(row, at, digest) == row.at <= at

\* Mutant: an observation of the recorded revision changes nothing.
NewerOnlyMutant(row, at, digest) == row.at < at \/ (row.at = at /\ row.digest < digest)

\* The observation is not older than the row; equal times go by the digest.
Newer(row, at, digest) == row.at < at \/ (row.at = at /\ row.digest <= digest)

\* activateWorkflowVersionObservation
Activated(row, at, c) ==
  IF Newer(row, at, Digest[c])
  THEN [row EXCEPT !.active = c, !.at = at, !.digest = Digest[c]]
  ELSE row

\* saveWorkflowVersion: one transaction, which inserts the row if need be
WithVersion(row, at, c) ==
  Activated(IF row.state = "none" THEN [NoRow EXCEPT !.state = "valid", !.at = at] ELSE row,
            at, c)

\* recordWorkflowDefinitionStatus
WithStatus(row, state, at, digest) ==
  IF Newer(row, at, digest)
  THEN [state |-> state, active |-> IF state = "valid" THEN row.active ELSE NoContent,
        at |-> at, digest |-> digest]
  ELSE row

\* Mutant: a version stays active when a newer revision cannot be read.
WithReadFailureMutant(row, at) ==
  IF row.state = "none" \/ row.at < at
  THEN [row EXCEPT !.state = IF row.state = "valid" THEN "valid" ELSE "invalid",
                   !.at = at, !.digest = EmptyDigest]
  ELSE row

\* recordWorkflowDefinitionReadFailure
WithReadFailure(row, at) ==
  IF row.state = "none" \/ row.at < at
  THEN [state |-> "invalid", active |-> NoContent, at |-> at, digest |-> EmptyDigest]
  ELSE row

Happened(o, at, digest, kind) ==
  [object |-> o, at |-> at, digest |-> digest, kind |-> kind]

\* hasNormalizedDefinitionRevision
Announced(o, at, digest) ==
  {Happened(o, at, digest, "created"), Happened(o, at, digest, "updated")} \cap events # {}

\* The event of a revision of o that could be read, if it is a new one
RevisionEvent(o, at, digest) ==
  IF Announced(o, at, digest) THEN {}
  ELSE IF \E e \in events : e.object = o /\ e.kind \in {"created", "updated"}
       THEN {Happened(o, at, digest, "updated")}
       ELSE {Happened(o, at, digest, "created")}

-----------------------------------------------------------------------------
(* A scan: scanSpaceOnce                                                   *)

Fault == faults < MaxFaults /\ faults' = faults + 1

\* searchWorkflowObjects returns the summaries of a page.
Search ==
  LET found == SubSeq(listing, offset + 1, Min({Len(listing), offset + PageSize}))
  IN  /\ phase = "idle" /\ phase' = "page"
      /\ page' = [i \in DOMAIN found |-> [id |-> found[i], at |-> source[found[i]].at]]
      /\ size' = Len(found)
      /\ UNCHANGED <<sourceVars, storeVars, offset, missing, complete, faults>>

AtHead(o) == phase = "page" /\ page # <<>> /\ Head(page).id = o /\ page' = Tail(page)

\* observeObject: the row and the event of what was read
Observe(o) ==
  LET at     == source[o].at
      digest == Digest[source[o].content]
      valid  == Accepted(source[o].content)
      saved  == IF valid THEN WithVersion(rows[o], at, source[o].content) ELSE rows[o]
  IN  /\ AtHead(o)
      /\ source[o].state = "live"
      /\ rows' = [rows EXCEPT ![o] =
                    WithStatus(saved, IF valid THEN "valid" ELSE "invalid", at, digest)]
      /\ seen' = seen \cup {o}
      /\ events' = events \cup RevisionEvent(o, at, digest)
      /\ UNCHANGED <<sourceVars, offset, phase, size, missing, complete, faults>>

ObserveArchived(o) ==
  LET at     == source[o].at
      digest == Digest[source[o].content]
  IN  /\ AtHead(o)
      /\ source[o].state = "archived"
      /\ rows' = [rows EXCEPT ![o] = WithStatus(@, "archived", at, digest)]
      /\ seen' = seen \cup {o}
      /\ events' = events \cup {Happened(o, at, digest, "archived")}
      /\ UNCHANGED <<sourceVars, offset, phase, size, missing, complete, faults>>

\* observeReadFailure: the object is gone since the search, or the request
\* fails; of its revision only the summary is known.
ObserveReadFailure(o) ==
  /\ AtHead(o)
  /\ IF source[o].state = "absent" THEN UNCHANGED faults ELSE Fault
  /\ rows' = [rows EXCEPT ![o] = WithReadFailure(@, Head(page).at)]
  /\ seen' = seen \cup {o}
  /\ events' = events \cup {Happened(o, Head(page).at, EmptyDigest, "unreadable")}
  /\ UNCHANGED <<sourceVars, offset, phase, size, missing, complete>>

\* One of the three writes of observeObject throws (version, status, event)
\* and the failure is recorded instead, unless that write throws as well.
ObserveFails(o) ==
  LET at     == source[o].at
      valid  == Accepted(source[o].content)
      saved  == IF valid THEN WithVersion(rows[o], at, source[o].content) ELSE rows[o]
      status == WithStatus(saved, IF valid THEN "valid" ELSE "invalid", at,
                           Digest[source[o].content])
  IN  /\ AtHead(o) /\ Fault
      /\ source[o].state = "live"
      /\ \E left \in {rows[o], saved, status} :
           \/ /\ rows' = [rows EXCEPT ![o] = WithReadFailure(left, at)]
              /\ seen' = seen \cup {o}
              /\ events' = events \cup {Happened(o, at, EmptyDigest, "unreadable")}
           \/ /\ rows' = [rows EXCEPT ![o] = left]
              /\ seen' \in {seen, seen \cup {o}}
              /\ UNCHANGED events
      /\ UNCHANGED <<sourceVars, offset, phase, size, missing, complete>>

ScanIdle == phase' = "idle" /\ page' = <<>> /\ size' = 0 /\ missing' = {} /\ complete' = FALSE

\* A full page: the next scan goes on behind it.
NextPage ==
  /\ phase = "page" /\ page = <<>> /\ size = PageSize
  /\ offset' = offset + size
  /\ ScanIdle
  /\ UNCHANGED <<sourceVars, storeVars, faults>>

\* workflowDefinitionsMissingSince
Missing == {o \in Object : rows[o].state \notin {"none", "archived"} /\ o \notin seen}

\* The last page: archiveMissing picks its candidates.
Reconcile ==
  /\ phase = "page" /\ page = <<>> /\ size < PageSize /\ phase' = "missing"
  /\ complete' = (Cardinality(Missing) <= PageSize)
  /\ \E batch \in SUBSET Missing :
       /\ Cardinality(batch) = IF complete' THEN Cardinality(Missing) ELSE PageSize
       /\ missing' = batch
  /\ UNCHANGED <<sourceVars, storeVars, offset, page, size, faults>>

Confirmed(o) ==
  /\ phase = "missing" /\ o \in missing /\ missing' = missing \ {o}
  /\ seen' = seen \cup {o}
  /\ UNCHANGED <<sourceVars, offset, phase, page, size, complete>>

\* Mutant: what the search did not show is taken for gone.
GoneMutant(o) == TRUE

\* The direct read finds the object archived, or nothing at all.
Gone(o) == source[o].state # "live"

ArchiveMissing(o) ==
  /\ Confirmed(o) /\ Gone(o)
  /\ rows' = [rows EXCEPT ![o] = WithStatus(@, "archived", @.at, @.digest)]
  /\ events' = events \cup {Happened(o, rows[o].at, rows[o].digest, "archived")}
  /\ UNCHANGED faults

\* It is there, or nobody can tell: the row is written back.
KeepMissing(o) ==
  /\ Confirmed(o)
  /\ IF Gone(o) THEN Fault ELSE UNCHANGED faults
  /\ rows' = [rows EXCEPT ![o] = WithStatus(@, @.state, @.at, @.digest)]
  /\ UNCHANGED events

FinishScan ==
  /\ phase = "missing" /\ missing = {}
  /\ offset' = IF complete THEN 0 ELSE offset + size
  /\ seen' = IF complete THEN {} ELSE seen
  /\ ScanIdle
  /\ UNCHANGED <<sourceVars, rows, events, faults>>

\* The search fails, a write that nothing catches fails, or the gateway
\* stops and starts: the scan is forgotten, and its page is read again.
Abandon ==
  /\ Fault
  /\ phase # "idle" /\ ScanIdle
  /\ UNCHANGED <<sourceVars, storeVars, offset>>

\* The operator restarts the gateway with another configuration.
Reconfigure ==
  /\ edits < MaxEdits /\ edits' = edits + 1
  /\ granted' \in Grants \ {granted}
  /\ ScanIdle
  /\ UNCHANGED <<source, listing, storeVars, offset, faults>>

-----------------------------------------------------------------------------
Editors ==
  \E o \in Object :
    \/ \E c \in Content : Create(o, c) \/ Edit(o, c)
    \/ Archive(o) \/ Delete(o) \/ Restore(o)

Scan ==
  \/ Search \/ NextPage \/ Reconcile \/ FinishScan
  \/ \E o \in Object :
       \/ Observe(o) \/ ObserveArchived(o) \/ ObserveReadFailure(o) \/ ObserveFails(o)
       \/ ArchiveMissing(o) \/ KeepMissing(o)

ObserverNext == Editors \/ Scan \/ Abandon \/ Reconfigure

ObserverSpec == ObserverInit /\ [][ObserverNext]_observerVars

\* The loop of `run` scans a space again and again.
FairObserverSpec == ObserverSpec /\ WF_observerVars(Scan)

-----------------------------------------------------------------------------
(* Properties *)

\* A definition that runs may start from (valid, with an active version)
\* runs exactly what was read at its recorded revision: neither a read
\* failure nor a late status pairs a version with another revision.
UsableIsCurrent ==
  \A o \in Object :
    rows[o].state = "valid" =>
      rows[o].active \in Parsed /\ Digest[rows[o].active] = rows[o].digest

\* The revision of a row never goes back, neither in time nor, at one time,
\* in digest, in whatever order pages, failures and confirmations come.
RevisionsAdvance ==
  [][\A o \in Object :
       \/ rows[o].at < rows'[o].at
       \/ rows[o].at = rows'[o].at /\ rows[o].digest <= rows'[o].digest]_observerVars

\* A definition is archived only if the object really was gone or archived
\* then: a search that skips an object while pages shift proves nothing.
ArchivedWasGone ==
  [][\A o \in Object :
       rows[o].state # "archived" /\ rows'[o].state = "archived" =>
         source[o].state # "live"]_observerVars

\* The row says what the object is, or holds a greater digest of its time.
Settled(o) ==
  IF source[o].state = "live"
  THEN LET c == source[o].content
       IN  /\ rows[o].at = source[o].at
           /\ \/ rows[o].digest > Digest[c]
              \/ /\ rows[o].digest = Digest[c] /\ Announced(o, source[o].at, Digest[c])
                 /\ IF Accepted(c)
                    THEN rows[o].state = "valid" /\ rows[o].active = c
                    ELSE rows[o].state = "invalid" /\ rows[o].active = NoContent
  ELSE \/ rows[o].state \in {"none", "archived"}
       \/ rows[o].digest > Digest[source[o].content]

\* Once nobody edits it any more, the row of every definition comes to agree
\* with it and with what is granted now, and its revision is announced,
\* whatever pages, failed requests, failed writes and restarts made of the
\* scans before: a grant that was withdrawn takes its version out of use.
EveryDefinitionSettles == \A o \in Object : <>[]Settled(o)

\* docs/workflow-runtime-topology.md: "If two workflow observations have the
\* same Anytype modification timestamp, the observer compares their
\* domain-separated raw object-body digests [...] This tie-breaker gives
\* every observation order the same result": a read that failed, and has no
\* body, does not decide against the body read later.
FailuresDoNotDecide == \A o \in Object : <>[](rows[o].state # "none" /\ source[o].state = "live"
                                               => rows[o].digest # EmptyDigest)
=============================================================================
