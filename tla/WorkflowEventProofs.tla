-------------------------- MODULE WorkflowEventProofs --------------------------
(* Proofs about the events of the workflows: about the observer, which     *)
(* makes events of the definitions it reads, and about the matcher and the *)
(* dispatcher, which make runs of events; for every value of the constants *)
(* of WorkflowObserver and WorkflowDispatch.                               *)
EXTENDS WorkflowObserver, WorkflowDispatch, FiniteSetTheorems, SequenceTheorems, TLAPS

(* WorkflowObserver: what may run is what was read, a revision never goes  *)
(* back, and archived means gone.                                          *)

(* The inductive invariant *)

\* An object that was created has a body; what a search lists was created.
SourceOK ==
  /\ source \in [Object -> [state : {"absent", "live", "archived"}, at : Revision,
                            content : Content \cup {NoContent}]]
  /\ \A o \in Object : /\ source[o].at > 0 => source[o].content \in Content
                       /\ source[o].state # "absent" => source[o].at > 0
  /\ granted \in Grants
  /\ listing \in Seq(Object) /\ IsInjective(listing)
  /\ \A i \in DOMAIN listing : source[listing[i]].at > 0
  /\ edits \in 0..MaxEdits /\ faults \in 0..MaxFaults

\* A row that was never written is empty, and one to run from pairs a version with its revision.
RowOK(r) ==
  /\ r \in Row
  /\ r.state = "none" => r.at = 0 /\ r.digest = 0
  /\ r.state = "valid" => r.active \in Parsed /\ Digest[r.active] = r.digest

RowsOK ==
  /\ rows \in [Object -> Row] /\ seen \subseteq Object /\ events \subseteq DefinitionEvent
  /\ \A o \in Object : RowOK(rows[o])

ScanOK ==
  /\ offset \in Nat /\ size \in 0..PageSize
  /\ phase \in {"idle", "page", "missing"}
  /\ page \in Seq([id : Object, at : Revision])
  /\ missing \subseteq Object /\ complete \in BOOLEAN

ObserverInv == SourceOK /\ RowsOK /\ ScanOK

-----------------------------------------------------------------------------
(* What a write makes of a row *)

\* The revision does not go back.
Advances(r, q) == r.at < q.at \/ (r.at = q.at /\ r.digest <= q.digest)

LEMMA Constants ==
  /\ Parsed \subseteq Content /\ Digest \in [Content -> Nat \ {0}]
  /\ EmptyDigest \in Nat \ {0} /\ PageSize \in Nat \ {0}
  /\ MaxAt \in Nat \ {0} /\ MaxEdits \in Nat /\ MaxFaults \in Nat
  /\ Revision \subseteq Nat /\ 0 \in Revision /\ 1 \in Revision
  BY ObserverAssumption DEF Revision

\* The fields of a row.
LEMMA RowFields ==
  ASSUME NEW r \in Row
  PROVE  /\ r.state \in {"none", "valid", "invalid", "archived"}
         /\ r.active \in Content \cup {NoContent} /\ r.at \in Nat /\ r.at \in Revision
         /\ r.digest \in Nat
  BY Constants DEF Row

\* A revision that was passed is not gone back to.
LEMMA AdvancesOn ==
  ASSUME NEW a \in Row, NEW b \in Row, NEW c \in Row
  PROVE  Advances(a, a) /\ (Advances(a, b) /\ Advances(b, c) => Advances(a, c))
<1>1. /\ a.at \in Nat /\ b.at \in Nat /\ c.at \in Nat
      /\ a.digest \in Nat /\ b.digest \in Nat /\ c.digest \in Nat
  BY RowFields
<1>2. QED
  BY <1>1 DEF Advances

\* saveWorkflowVersion: the version is active at its own revision, or the row is newer.
LEMMA VersionRow ==
  ASSUME NEW r, RowOK(r), NEW c \in Parsed, NEW at \in Revision
  PROVE  LET q == WithVersion(r, at, c) IN
         /\ RowOK(q) /\ Advances(r, q) /\ (q.state = "archived" => r.state = "archived")
         /\ Newer(q, at, Digest[c]) => q.active = c /\ q.digest = Digest[c]
<1>1. c \in Content /\ Digest[c] \in Nat \ {0} /\ at \in Nat /\ r \in Row
  BY Constants DEF RowOK
<1>2. /\ r.state \in {"none", "valid", "invalid", "archived"}
      /\ r.active \in Content \cup {NoContent} /\ r.at \in Nat /\ r.at \in Revision
      /\ r.digest \in Nat
  BY <1>1, RowFields
<1>3. PICK b \in Row : /\ b = IF r.state = "none" THEN [NoRow EXCEPT !.state = "valid", !.at = at]
                              ELSE r
                       /\ r.state = "none" => /\ b.state = "valid" /\ b.at = at /\ b.digest = 0
                       /\ r.state # "none" => b = r
  <2>1. CASE r.state = "none"
    <3> DEFINE B == [NoRow EXCEPT !.state = "valid", !.at = at]
    <3>1. B \in Row /\ B.state = "valid" /\ B.at = at /\ B.digest = 0
      BY Constants DEF NoRow, Row
    <3>2. QED
      BY <2>1, <3>1
  <2>2. CASE r.state # "none"
    BY <1>1, <2>2
  <2>3. QED
    BY <2>1, <2>2
<1> DEFINE q == WithVersion(r, at, c)
<1>4. q = Activated(b, at, c)
  BY <1>3 DEF WithVersion
<1>5. b.at \in Nat /\ b.digest \in Nat
  BY RowFields
<1>6. CASE Newer(b, at, Digest[c])
  <2>1. q = [b EXCEPT !.active = c, !.at = at, !.digest = Digest[c]]
    BY <1>4, <1>6 DEF Activated
  <2>2. /\ q \in Row /\ q.state = b.state /\ q.active = c /\ q.at = at /\ q.digest = Digest[c]
    BY <1>1, <2>1 DEF Row
  <2>3. RowOK(q)
    BY <1>1, <1>3, <2>2 DEF RowOK
  <2>4. Advances(r, q)
    BY <1>1, <1>2, <1>3, <1>5, <1>6, <2>2 DEF Advances, Newer, RowOK
  <2>5. q.state = "archived" => r.state = "archived"
    BY <1>3, <2>2
  <2>6. QED
    BY <2>2, <2>3, <2>4, <2>5
<1>7. CASE ~Newer(b, at, Digest[c])
  <2>1. q = b
    BY <1>4, <1>7 DEF Activated
  <2>2. r.state # "none"
    BY <1>1, <1>3, <1>7 DEF Newer
  <2>3. q = r
    BY <1>3, <2>1, <2>2
  <2>4. Advances(r, r)
    BY <1>1, AdvancesOn
  <2>5. QED
    BY <1>7, <2>1, <2>3, <2>4
<1>8. QED
  BY <1>6, <1>7

\* recordWorkflowDefinitionStatus: a newer status takes over, with the version of its revision.
LEMMA StatusRow ==
  ASSUME NEW r, RowOK(r), NEW state \in {"none", "valid", "invalid", "archived"},
         NEW at \in Revision, NEW digest \in Nat,
         state = "valid" /\ Newer(r, at, digest) =>
           r.active \in Parsed /\ Digest[r.active] = digest,
         state = "none" => at = 0 /\ digest = 0
  PROVE  LET q == WithStatus(r, state, at, digest) IN
         /\ RowOK(q) /\ Advances(r, q)
         /\ q.state = "archived" => r.state = "archived" \/ state = "archived"
<1>1. r \in Row
  BY DEF RowOK
<1>2. /\ r.active \in Content \cup {NoContent} /\ r.at \in Nat /\ r.digest \in Nat
  BY <1>1, RowFields
<1> DEFINE q == WithStatus(r, state, at, digest)
<1>3. CASE Newer(r, at, digest)
  <2>1. q = [state |-> state, active |-> IF state = "valid" THEN r.active ELSE NoContent,
             at |-> at, digest |-> digest]
    BY <1>3 DEF WithStatus
  <2>2. q \in Row
    BY <1>2, <2>1 DEF Row
  <2>3. /\ q.state = state /\ q.at = at /\ q.digest = digest
        /\ state = "valid" => q.active = r.active
    BY <2>1
  <2>4. RowOK(q)
    BY <1>3, <2>2, <2>3 DEF RowOK
  <2>5. Advances(r, q)
    BY <1>3, <2>3 DEF Advances, Newer
  <2>6. QED
    BY <2>3, <2>4, <2>5
<1>4. CASE ~Newer(r, at, digest)
  <2>1. q = r
    BY <1>4 DEF WithStatus
  <2>2. QED
    BY <1>1, <2>1, AdvancesOn
<1>5. QED
  BY <1>3, <1>4

\* recordWorkflowDefinitionReadFailure: only an older row gives way, and has no version then.
LEMMA FailureRow ==
  ASSUME NEW r, RowOK(r), NEW at \in Revision
  PROVE  LET q == WithReadFailure(r, at) IN
         /\ RowOK(q) /\ Advances(r, q) /\ (q.state = "archived" => r.state = "archived")
<1>1. r \in Row /\ at \in Nat /\ EmptyDigest \in Nat
  BY Constants DEF RowOK
<1>2. r.at \in Nat /\ r.digest \in Nat
  BY <1>1, RowFields
<1> DEFINE q == WithReadFailure(r, at)
<1>3. CASE r.state = "none" \/ r.at < at
  <2>1. q = [state |-> "invalid", active |-> NoContent, at |-> at, digest |-> EmptyDigest]
    BY <1>3 DEF WithReadFailure
  <2>2. q \in Row /\ q.state = "invalid" /\ q.at = at /\ q.digest = EmptyDigest
    BY <1>1, <2>1 DEF Row
  <2>3. Advances(r, q)
    BY <1>1, <1>2, <1>3, <2>2 DEF Advances, RowOK
  <2>4. QED
    BY <2>2, <2>3 DEF RowOK
<1>4. CASE ~(r.state = "none" \/ r.at < at)
  <2>1. q = r
    BY <1>4 DEF WithReadFailure
  <2>2. QED
    BY <1>1, <2>1, AdvancesOn
<1>5. QED
  BY <1>3, <1>4

-----------------------------------------------------------------------------
(* What a search lists *)

\* An object leaves the list, and the others stay in it once.
LEMMA UnlistedSeq ==
  ASSUME SourceOK, NEW o \in Object
  PROVE  /\ Unlisted(o) \in Seq(Object) /\ IsInjective(Unlisted(o))
         /\ \A i \in DOMAIN Unlisted(o) :
              /\ Unlisted(o)[i] # o
              /\ \E j \in DOMAIN listing : Unlisted(o)[i] = listing[j]
<1>1. PICK n \in Nat : n = Len(listing) /\ DOMAIN listing = 1..n
  BY LenProperties DEF SourceOK
<1>2. /\ listing \in Seq(Object) /\ \A i \in 1..n : listing[i] \in Object
      /\ \A i, j \in 1..n : listing[i] = listing[j] => i = j
  BY <1>1, ElementOfSeq DEF SourceOK, IsInjective
<1>3. ASSUME NEW k \in 1..n, listing[k] = o
      PROVE  /\ Unlisted(o) \in Seq(Object) /\ Len(Unlisted(o)) = n - 1
             /\ \A i \in 1..(n - 1) :
                  Unlisted(o)[i] = IF i < k THEN listing[i] ELSE listing[i + 1]
  <2>1. {i \in 1..Len(listing) : listing[i] = o} = {k}
    BY <1>1, <1>2, <1>3
  <2>2. Min({k}) = k
    BY DEF Min
  <2>3. Unlisted(o) = SubSeq(listing, 1, k - 1) \o SubSeq(listing, k + 1, n)
    BY <1>1, <1>3, <2>1, <2>2 DEF Unlisted, RemoveFirst, RemoveAt, SelectInSeq
  <2>4. PICK s \in Seq(Object) : /\ s = SubSeq(listing, 1, k - 1) /\ Len(s) = k - 1
                                 /\ \A i \in 1..(k - 1) : s[i] = listing[i]
    <3>1. \A i \in 1..(k - 1) : listing[i] \in Object
      BY <1>2
    <3>2. /\ SubSeq(listing, 1, k - 1) \in Seq(Object)
          /\ Len(SubSeq(listing, 1, k - 1)) = IF 1 <= k - 1 THEN (k - 1) - 1 + 1 ELSE 0
          /\ \A i \in 1..((k - 1) - 1 + 1) : SubSeq(listing, 1, k - 1)[i] = listing[1 + i - 1]
      BY <3>1, SubSeqProperties
    <3> DEFINE S == SubSeq(listing, 1, k - 1)
    <3>3. Len(S) = k - 1 /\ \A i \in 1..(k - 1) : S[i] = listing[i]
      BY <3>2
    <3>4. QED
      BY <3>2, <3>3
  <2>5. PICK t \in Seq(Object) : /\ t = SubSeq(listing, k + 1, n) /\ Len(t) = n - k
                                 /\ \A i \in 1..(n - k) : t[i] = listing[k + i]
    <3>1. \A i \in (k + 1)..n : listing[i] \in Object
      BY <1>2
    <3>2. /\ SubSeq(listing, k + 1, n) \in Seq(Object)
          /\ Len(SubSeq(listing, k + 1, n)) = IF k + 1 <= n THEN n - (k + 1) + 1 ELSE 0
          /\ \A i \in 1..(n - (k + 1) + 1) : SubSeq(listing, k + 1, n)[i] = listing[(k + 1) + i - 1]
      BY <3>1, SubSeqProperties
    <3> DEFINE T == SubSeq(listing, k + 1, n)
    <3>3. Len(T) = n - k /\ \A i \in 1..(n - k) : T[i] = listing[k + i]
      BY <3>2
    <3>4. QED
      BY <3>2, <3>3
  <2>6. /\ s \o t \in Seq(Object) /\ Len(s \o t) = Len(s) + Len(t)
        /\ \A i \in 1..(Len(s) + Len(t)) : (s \o t)[i] = IF i <= Len(s) THEN s[i] ELSE t[i - Len(s)]
    BY ConcatProperties
  <2>7. \A i \in 1..(n - 1) : i >= k => t[i - (k - 1)] = listing[i + 1]
    <3>1. ASSUME NEW i \in 1..(n - 1), i >= k PROVE t[i - (k - 1)] = listing[i + 1]
      <4>1. i - (k - 1) \in 1..(n - k) /\ k + (i - (k - 1)) = i + 1
        BY <3>1
      <4>2. QED
        BY <2>5, <4>1
    <3>2. QED
      BY <3>1
  <2>8. QED
    BY <2>3, <2>4, <2>5, <2>6, <2>7
<1>4. CASE \E k \in 1..n : listing[k] = o
  <2>1. PICK k \in 1..n : listing[k] = o
    BY <1>4
  <2>2. PICK u \in Seq(Object) :
          /\ u = Unlisted(o) /\ Len(u) = n - 1
          /\ \A i \in 1..(n - 1) : u[i] = IF i < k THEN listing[i] ELSE listing[i + 1]
    BY <1>3, <2>1
  <2>3. DOMAIN u = 1..(n - 1)
    BY <2>2, LenProperties
  <2>4. \A i \in 1..(n - 1) : i \in 1..n /\ i + 1 \in 1..n
    BY <1>1
  <2>5. \A i \in 1..(n - 1) : u[i] # o /\ \E j \in 1..n : u[i] = listing[j]
    BY <1>2, <2>1, <2>2, <2>4
  <2>6. \A i, j \in 1..(n - 1) : u[i] = u[j] => i = j
    BY <1>2, <2>2, <2>4
  <2>7. IsInjective(u)
    BY <2>3, <2>6 DEF IsInjective
  <2>8. QED
    BY <1>1, <2>2, <2>3, <2>5, <2>7
<1>5. CASE ~ \E k \in 1..n : listing[k] = o
  <2>1. Unlisted(o) = listing
    BY <1>1, <1>5 DEF Unlisted, RemoveFirst
  <2>2. QED
    BY <1>1, <1>2, <1>5, <2>1 DEF SourceOK
<1>6. QED
  BY <1>4, <1>5

\* A list of o, once, and of what s lists.
Lists(u, o, s) ==
  /\ u \in Seq(Object) /\ IsInjective(u)
  /\ \A i \in DOMAIN u : u[i] = o \/ \E j \in DOMAIN s : u[i] = s[j]

\* An object that the list has not is put first or last.
LEMMA ListedSeq ==
  ASSUME NEW s \in Seq(Object), IsInjective(s), NEW o \in Object, \A i \in DOMAIN s : s[i] # o
  PROVE  Lists(<<o>> \o s, o, s) /\ Lists(Append(s, o), o, s)
<1>1. PICK n \in Nat : n = Len(s) /\ DOMAIN s = 1..n
  BY LenProperties
<1>2. \A i, j \in 1..n : s[i] = s[j] => i = j
  BY <1>1 DEF IsInjective
<1>3. Lists(<<o>> \o s, o, s)
  <2> DEFINE u == <<o>> \o s
  <2>1. PICK h \in Seq(Object) : h = <<o>> /\ Len(h) = 1 /\ h[1] = o
    <3>1. <<o>> \in Seq(Object) /\ Len(<<o>>) = 1 /\ <<o>>[1] = o
      OBVIOUS
    <3>2. QED
      BY <3>1
  <2>2. /\ h \o s \in Seq(Object) /\ Len(h \o s) = 1 + n
        /\ \A i \in 1..(1 + n) : (h \o s)[i] = IF i <= 1 THEN h[i] ELSE s[i - 1]
    BY <1>1, <2>1, ConcatProperties
  <2>3. /\ u \in Seq(Object) /\ Len(u) = 1 + n
        /\ \A i \in 1..(1 + n) : u[i] = IF i = 1 THEN o ELSE s[i - 1]
    BY <2>1, <2>2
  <2>4. DOMAIN u = 1..(1 + n)
    BY <2>3, LenProperties
  <2>5. \A i \in 1..(1 + n) : i = 1 \/ i - 1 \in 1..n
    OBVIOUS
  <2>6. \A i \in 1..(1 + n) : u[i] = o \/ \E j \in 1..n : u[i] = s[j]
    BY <2>3, <2>5
  <2>7. \A i, j \in 1..(1 + n) : u[i] = u[j] => i = j
    <3>1. ASSUME NEW i \in 1..(1 + n), NEW j \in 1..(1 + n), u[i] = u[j] PROVE i = j
      <4>1. CASE i = 1 \/ j = 1
        BY <1>1, <2>3, <2>5, <3>1, <4>1
      <4>2. CASE i # 1 /\ j # 1
        BY <1>2, <2>3, <2>5, <3>1, <4>2
      <4>3. QED
        BY <4>1, <4>2
    <3>2. QED
      BY <3>1
  <2>8. QED
    BY <1>1, <2>3, <2>4, <2>6, <2>7 DEF IsInjective, Lists
<1>4. Lists(Append(s, o), o, s)
  <2> DEFINE u == Append(s, o)
  <2>1. /\ u \in Seq(Object) /\ Len(u) = n + 1 /\ u[n + 1] = o
        /\ \A i \in 1..n : u[i] = s[i]
    BY <1>1, AppendProperties
  <2>2. DOMAIN u = 1..(n + 1)
    BY <2>1, LenProperties
  <2>3. \A i \in 1..(n + 1) : i = n + 1 \/ i \in 1..n
    OBVIOUS
  <2>4. \A i \in 1..(n + 1) : u[i] = o \/ \E j \in 1..n : u[i] = s[j]
    BY <2>1, <2>3
  <2>5. \A i, j \in 1..(n + 1) : u[i] = u[j] => i = j
    BY <1>1, <1>2, <2>1, <2>3
  <2>6. QED
    BY <1>1, <2>1, <2>2, <2>4, <2>5 DEF IsInjective, Lists
<1>5. QED
  BY <1>3, <1>4

-----------------------------------------------------------------------------
(* The people who edit *)

\* What a step leaves of every row: its revision does not go back, and it becomes archived only
\* when the object is not there.
RowsStand ==
  \A o \in Object :
    /\ Advances(rows[o], rows'[o])
    /\ rows'[o].state = "archived" => rows[o].state = "archived" \/ source[o].state # "live"

Keeps == ObserverInv' /\ RowsStand

\* Rows that are not written stand.
LEMMA RowsUnwritten ==
  ASSUME RowsOK, UNCHANGED storeVars
  PROVE  RowsOK' /\ RowsStand
<1>1. \A o \in Object : rows[o] \in Row
  BY DEF RowsOK
<1>2. \A o \in Object : Advances(rows[o], rows[o])
  BY <1>1, AdvancesOn
<1>3. QED
  BY <1>2 DEF RowsOK, RowsStand, storeVars

\* A change made in Anytype touches nothing of the gateway.
LEMMA ChangeKeeps ==
  ASSUME ObserverInv, NEW o \in Object, NEW state \in {"absent", "live", "archived"},
         NEW at \in Revision, at > 0, NEW c \in Content, Change(o, state, at, c),
         listing' \in Seq(Object), IsInjective(listing'),
         \A i \in DOMAIN listing' :
           listing'[i] = o \/ \E j \in DOMAIN listing : listing'[i] = listing[j]
  PROVE  Keeps
<1>1. edits' \in 0..MaxEdits
  BY Constants DEF Change, ObserverInv, SourceOK
<1>2. UNCHANGED <<granted, rows, seen, events, offset, phase, page, size, missing, complete, faults>>
  BY DEF Change, storeVars, scanVars
<1>3. PICK obj \in [state : {"absent", "live", "archived"}, at : Revision,
                    content : Content \cup {NoContent}] :
        /\ obj = [state |-> state, at |-> at, content |-> c]
        /\ obj.state = state /\ obj.at = at /\ obj.content = c
  <2> DEFINE O == [state |-> state, at |-> at, content |-> c]
  <2>1. /\ O \in [state : {"absent", "live", "archived"}, at : Revision,
                 content : Content \cup {NoContent}]
        /\ O.state = state /\ O.at = at /\ O.content = c
    OBVIOUS
  <2>2. QED
    BY <2>1
<1>4. /\ source' \in [Object -> [state : {"absent", "live", "archived"}, at : Revision,
                                 content : Content \cup {NoContent}]]
      /\ \A x \in Object : source'[x] = IF x = o THEN obj ELSE source[x]
  BY <1>3 DEF Change, ObserverInv, SourceOK
<1>5. \A x \in Object : /\ source'[x].at > 0 => source'[x].content \in Content
                        /\ source'[x].state # "absent" => source'[x].at > 0
  BY <1>3, <1>4 DEF ObserverInv, SourceOK
<1>6. \A i \in DOMAIN listing' : source'[listing'[i]].at > 0
  <2>1. ASSUME NEW i \in DOMAIN listing' PROVE source'[listing'[i]].at > 0
    <3>1. listing'[i] \in Object
      BY LenProperties, ElementOfSeq
    <3>2. CASE listing'[i] = o
      BY <1>3, <1>4, <3>2
    <3>3. CASE listing'[i] # o
      <4>1. PICK j \in DOMAIN listing : listing'[i] = listing[j]
        BY <3>3
      <4>2. source[listing[j]].at > 0
        BY DEF ObserverInv, SourceOK
      <4>3. QED
        BY <1>4, <3>1, <3>3, <4>1, <4>2
    <3>4. QED
      BY <3>2, <3>3
  <2>2. QED
    BY <2>1
<1>7. SourceOK'
  BY <1>1, <1>2, <1>4, <1>5, <1>6 DEF ObserverInv, SourceOK
<1>8. RowsOK' /\ RowsStand
  BY <1>2, RowsUnwritten DEF ObserverInv, storeVars
<1>9. ScanOK'
  BY <1>2 DEF ObserverInv, ScanOK
<1>10. QED
  BY <1>7, <1>8, <1>9 DEF Keeps, ObserverInv

LEMMA EditorsKeep ==
  ASSUME ObserverInv, Editors
  PROVE  Keeps
<1> USE DEF ObserverInv
<1>1. PICK o \in Object :
        \/ \E c \in Content : Create(o, c) \/ Edit(o, c)
        \/ Archive(o) \/ Delete(o) \/ Restore(o)
  BY DEF Editors
<1>2. /\ source[o] \in [state : {"absent", "live", "archived"}, at : Revision,
                        content : Content \cup {NoContent}]
      /\ source[o].at > 0 => source[o].content \in Content
      /\ source[o].state # "absent" => source[o].at > 0
      /\ listing \in Seq(Object) /\ IsInjective(listing)
  BY DEF SourceOK
<1>3. source[o].at \in Revision /\ source[o].at \in Nat /\ 0 \in Revision /\ 1 \in Revision
  BY <1>2, Constants
<1>4. /\ Unlisted(o) \in Seq(Object) /\ IsInjective(Unlisted(o))
      /\ \A i \in DOMAIN Unlisted(o) :
           Unlisted(o)[i] # o /\ \E j \in DOMAIN listing : Unlisted(o)[i] = listing[j]
  BY UnlistedSeq
<1>5. ASSUME NEW c \in Content, Create(o, c)
      PROVE  Keeps
  <2>1. \A i \in DOMAIN listing : listing[i] # o
    BY <1>5 DEF Create, SourceOK
  <2>2. Lists(<<o>> \o listing, o, listing) /\ listing' = <<o>> \o listing
    BY <1>2, <1>5, <2>1, ListedSeq DEF Create
  <2>3. Change(o, "live", 1, c) /\ 1 > 0
    BY <1>5 DEF Create
  <2>4. QED
    BY <1>3, <2>2, <2>3, ChangeKeeps DEF Lists
<1>6. ASSUME NEW c \in Content, Edit(o, c)
      PROVE  Keeps
  <2>1. PICK u \in Seq(Object) : u = Unlisted(o)
    BY <1>4
  <2>2. listing' = <<o>> \o u
    BY <1>6, <2>1 DEF Edit
  <2>3. /\ listing' \in Seq(Object) /\ IsInjective(listing')
        /\ \A i \in DOMAIN listing' : listing'[i] = o \/ \E j \in DOMAIN u : listing'[i] = u[j]
    <3>1. IsInjective(u) /\ \A i \in DOMAIN u : u[i] # o
      BY <1>4, <2>1
    <3>2. Lists(<<o>> \o u, o, u) /\ Lists(Append(u, o), o, u)
      BY <3>1, ListedSeq
    <3>3. QED
      BY <2>2, <3>2 DEF Lists
  <2>4. \A i \in DOMAIN listing' :
          listing'[i] = o \/ \E j \in DOMAIN listing : listing'[i] = listing[j]
    BY <1>4, <2>1, <2>3
  <2>5. PICK at \in Revision : /\ at = source[o].at \/ at = source[o].at + 1
                               /\ Change(o, "live", at, c)
    BY <1>6 DEF Edit
  <2>6. at > 0
    BY <1>2, <1>3, <1>6, <2>5 DEF Edit
  <2>7. QED
    BY <2>3, <2>4, <2>5, <2>6, ChangeKeeps
<1>7. CASE Archive(o) \/ Delete(o)
  <2>1. source[o].at > 0 /\ source[o].content \in Content
    BY <1>2, <1>7 DEF Archive, Delete
  <2>2. listing' = listing \/ listing' = Unlisted(o)
    BY <1>7 DEF Archive, Delete
  <2>3. /\ listing' \in Seq(Object) /\ IsInjective(listing')
        /\ \A i \in DOMAIN listing' :
             listing'[i] = o \/ \E j \in DOMAIN listing : listing'[i] = listing[j]
    BY <1>2, <1>4, <2>2
  <2>4. PICK state \in {"absent", "live", "archived"} :
          Change(o, state, source[o].at, source[o].content)
    BY <1>7 DEF Archive, Delete
  <2>5. QED
    BY <1>3, <2>1, <2>3, <2>4, ChangeKeeps
<1>8. CASE Restore(o)
  <2>1. source[o].at > 0 /\ source[o].content \in Content
    BY <1>2, <1>8 DEF Restore
  <2>2. PICK u \in Seq(Object) : u = Unlisted(o)
    BY <1>4
  <2>3. listing' = Append(u, o)
    BY <1>8, <2>2 DEF Restore
  <2>4. /\ listing' \in Seq(Object) /\ IsInjective(listing')
        /\ \A i \in DOMAIN listing' : listing'[i] = o \/ \E j \in DOMAIN u : listing'[i] = u[j]
    <3>1. IsInjective(u) /\ \A i \in DOMAIN u : u[i] # o
      BY <1>4, <2>2
    <3>2. Lists(<<o>> \o u, o, u) /\ Lists(Append(u, o), o, u)
      BY <3>1, ListedSeq
    <3>3. QED
      BY <2>3, <3>2 DEF Lists
  <2>5. \A i \in DOMAIN listing' :
          listing'[i] = o \/ \E j \in DOMAIN listing : listing'[i] = listing[j]
    BY <1>4, <2>2, <2>4
  <2>6. Change(o, "live", source[o].at, source[o].content)
    BY <1>8 DEF Restore
  <2>7. QED
    BY <1>3, <2>1, <2>4, <2>5, <2>6, ChangeKeeps
<1>9. QED
  BY <1>1, <1>5, <1>6, <1>7, <1>8

-----------------------------------------------------------------------------
(* A scan *)

\* A fault counts within the bound of the model.
LEMMA FaultTyped ==
  ASSUME SourceOK, Fault \/ UNCHANGED faults
  PROVE  faults' \in 0..MaxFaults
  BY Constants DEF SourceOK, Fault

\* A scan writes one row: the row is right, newer, and archived only if the object is gone.
LEMMA RowWritten ==
  ASSUME ObserverInv, NEW o \in Object, NEW q, RowOK(q), Advances(rows[o], q),
         q.state = "archived" => rows[o].state = "archived" \/ source[o].state # "live",
         rows' = [rows EXCEPT ![o] = q], seen' \subseteq Object, events' \subseteq DefinitionEvent,
         UNCHANGED sourceVars, faults' \in 0..MaxFaults, ScanOK'
  PROVE  Keeps
<1>1. /\ rows' \in [Object -> Row]
      /\ \A x \in Object : rows'[x] = IF x = o THEN q ELSE rows[x]
  BY DEF ObserverInv, RowsOK, RowOK
<1>2. RowsOK'
  BY <1>1 DEF ObserverInv, RowsOK
<1>3. SourceOK'
  BY DEF ObserverInv, SourceOK, sourceVars
<1>4. \A x \in Object : Advances(rows[x], rows[x])
  BY AdvancesOn DEF ObserverInv, RowsOK
<1>5. RowsStand
  BY <1>1, <1>4 DEF RowsStand
<1>6. QED
  BY <1>2, <1>3, <1>5 DEF Keeps, ObserverInv

\* The object at the head of the page: what the search said of it, and what it is now.
LEMMA AtHeadFacts ==
  ASSUME ObserverInv, NEW o \in Object, AtHead(o),
         UNCHANGED <<offset, phase, size, missing, complete>>
  PROVE  /\ ScanOK' /\ RowOK(rows[o]) /\ rows[o] \in Row
         /\ Head(page).at \in Revision
         /\ source[o].at \in Revision
         /\ source[o].state # "absent" => source[o].content \in Content
<1>1. /\ Head(page) \in [id : Object, at : Revision]
      /\ page' \in Seq([id : Object, at : Revision])
  BY HeadTailProperties DEF ObserverInv, ScanOK, AtHead
<1>2. ScanOK'
  BY <1>1 DEF ObserverInv, ScanOK
<1>3. QED
  BY <1>1, <1>2 DEF ObserverInv, RowsOK, SourceOK

\* An event of what was read is an event.
LEMMA EventTyped ==
  ASSUME events \subseteq DefinitionEvent, NEW o \in Object, NEW at \in Revision, NEW digest \in Nat
  PROVE  /\ \A kind \in {"created", "updated", "unreadable", "archived"} :
              events \cup {Happened(o, at, digest, kind)} \subseteq DefinitionEvent
         /\ events \cup RevisionEvent(o, at, digest) \subseteq DefinitionEvent
  BY DEF Happened, DefinitionEvent, RevisionEvent

\* What observeObject makes of the row: the version, then the status.
Saved(r, at, c) == IF Accepted(c) THEN WithVersion(r, at, c) ELSE r
Status(r, at, c) ==
  WithStatus(Saved(r, at, c), IF Accepted(c) THEN "valid" ELSE "invalid", at, Digest[c])

LEMMA ObservedRow ==
  ASSUME NEW r, RowOK(r), NEW at \in Revision, NEW c \in Content
  PROVE  /\ RowOK(Saved(r, at, c)) /\ Advances(r, Saved(r, at, c))
         /\ Saved(r, at, c).state = "archived" => r.state = "archived"
         /\ RowOK(Status(r, at, c)) /\ Advances(r, Status(r, at, c))
         /\ Status(r, at, c).state = "archived" => r.state = "archived"
<1>1. r \in Row /\ Digest[c] \in Nat
  BY Constants DEF RowOK
<1>2. PICK s : s = Saved(r, at, c)
  OBVIOUS
<1>3. /\ RowOK(s) /\ Advances(r, s) /\ (s.state = "archived" => r.state = "archived")
      /\ Accepted(c) /\ Newer(s, at, Digest[c]) => s.active \in Parsed /\ Digest[s.active] = Digest[c]
  <2>1. CASE Accepted(c)
    <3>1. c \in Parsed
      BY <2>1 DEF Accepted, Parses
    <3>2. s = WithVersion(r, at, c)
      BY <1>2, <2>1 DEF Saved
    <3>3. QED
      BY <3>1, <3>2, VersionRow
  <2>2. CASE ~Accepted(c)
    BY <1>1, <1>2, <2>2, AdvancesOn DEF Saved
  <2>3. QED
    BY <2>1, <2>2
<1>4. PICK state \in {"valid", "invalid"} : /\ state = IF Accepted(c) THEN "valid" ELSE "invalid"
                                            /\ state = "valid" => Accepted(c)
  OBVIOUS
<1>5. PICK q : q = Status(r, at, c)
  OBVIOUS
<1>6. q = WithStatus(s, state, at, Digest[c])
  BY <1>2, <1>4, <1>5 DEF Status
<1>7. RowOK(q) /\ Advances(s, q) /\ (q.state = "archived" => s.state = "archived")
  BY <1>1, <1>3, <1>4, <1>6, StatusRow
<1>8. s \in Row /\ q \in Row
  BY <1>3, <1>7 DEF RowOK
<1>9. Advances(r, q)
  BY <1>1, <1>3, <1>7, <1>8, AdvancesOn
<1>10. QED
  BY <1>2, <1>3, <1>5, <1>7, <1>9

LEMMA ObserveKeeps ==
  ASSUME ObserverInv, NEW o \in Object, Observe(o)
  PROVE  Keeps
<1>1. /\ ScanOK' /\ RowOK(rows[o]) /\ source[o].at \in Revision /\ source[o].content \in Content
  BY AtHeadFacts DEF Observe
<1>2. PICK q : q = Status(rows[o], source[o].at, source[o].content)
  OBVIOUS
<1>3. /\ RowOK(q) /\ Advances(rows[o], q) /\ (q.state = "archived" => rows[o].state = "archived")
  BY <1>1, <1>2, ObservedRow
<1>4. rows' = [rows EXCEPT ![o] = q]
  BY <1>2 DEF Observe, Status, Saved
<1>5. Digest[source[o].content] \in Nat
  BY <1>1, Constants
<1>6. seen' \subseteq Object /\ events' \subseteq DefinitionEvent
  BY <1>1, <1>5, EventTyped DEF Observe, ObserverInv, RowsOK
<1>7. UNCHANGED sourceVars /\ faults' \in 0..MaxFaults
  BY FaultTyped DEF Observe, ObserverInv
<1>8. QED
  BY <1>1, <1>3, <1>4, <1>6, <1>7, RowWritten

LEMMA ObserveArchivedKeeps ==
  ASSUME ObserverInv, NEW o \in Object, ObserveArchived(o)
  PROVE  Keeps
<1>1. /\ ScanOK' /\ RowOK(rows[o]) /\ source[o].at \in Revision /\ source[o].content \in Content
  BY AtHeadFacts DEF ObserveArchived
<1>2. Digest[source[o].content] \in Nat
  BY <1>1, Constants
<1>3. PICK q : q = WithStatus(rows[o], "archived", source[o].at, Digest[source[o].content])
  OBVIOUS
<1>4. RowOK(q) /\ Advances(rows[o], q)
  BY <1>1, <1>2, <1>3, StatusRow
<1>5. rows' = [rows EXCEPT ![o] = q] /\ source[o].state # "live"
  BY <1>3 DEF ObserveArchived
<1>6. seen' \subseteq Object /\ events' \subseteq DefinitionEvent
  BY <1>1, <1>2, EventTyped DEF ObserveArchived, ObserverInv, RowsOK
<1>7. UNCHANGED sourceVars /\ faults' \in 0..MaxFaults
  BY FaultTyped DEF ObserveArchived, ObserverInv
<1>8. QED
  BY <1>1, <1>4, <1>5, <1>6, <1>7, RowWritten

LEMMA ObserveReadFailureKeeps ==
  ASSUME ObserverInv, NEW o \in Object, ObserveReadFailure(o)
  PROVE  Keeps
<1>1. ScanOK' /\ RowOK(rows[o]) /\ Head(page).at \in Revision
  BY AtHeadFacts DEF ObserveReadFailure
<1>2. PICK q : q = WithReadFailure(rows[o], Head(page).at)
  OBVIOUS
<1>3. /\ RowOK(q) /\ Advances(rows[o], q) /\ (q.state = "archived" => rows[o].state = "archived")
  BY <1>1, <1>2, FailureRow
<1>4. rows' = [rows EXCEPT ![o] = q]
  BY <1>2 DEF ObserveReadFailure
<1>5. EmptyDigest \in Nat
  BY Constants
<1>6. seen' \subseteq Object /\ events' \subseteq DefinitionEvent
  BY <1>1, <1>5, EventTyped DEF ObserveReadFailure, ObserverInv, RowsOK
<1>7. UNCHANGED sourceVars /\ faults' \in 0..MaxFaults
  BY FaultTyped DEF ObserveReadFailure, ObserverInv
<1>8. QED
  BY <1>1, <1>3, <1>4, <1>6, <1>7, RowWritten

LEMMA ObserveFailsKeeps ==
  ASSUME ObserverInv, NEW o \in Object, ObserveFails(o)
  PROVE  Keeps
<1>1. /\ ScanOK' /\ RowOK(rows[o]) /\ rows[o] \in Row
      /\ source[o].at \in Revision /\ source[o].content \in Content
  BY AtHeadFacts DEF ObserveFails
<1>2. PICK left : /\ left \in {rows[o], Saved(rows[o], source[o].at, source[o].content),
                               Status(rows[o], source[o].at, source[o].content)}
                  /\ \/ /\ rows' = [rows EXCEPT ![o] = WithReadFailure(left, source[o].at)]
                        /\ seen' = seen \cup {o}
                        /\ events' = events \cup
                             {Happened(o, source[o].at, EmptyDigest, "unreadable")}
                     \/ /\ rows' = [rows EXCEPT ![o] = left]
                        /\ seen' \in {seen, seen \cup {o}}
                        /\ UNCHANGED events
  BY DEF ObserveFails, Saved, Status
<1>3. /\ RowOK(left) /\ Advances(rows[o], left)
      /\ left.state = "archived" => rows[o].state = "archived"
  <2>1. Advances(rows[o], rows[o])
    BY <1>1, AdvancesOn
  <2>2. QED
    BY <1>1, <1>2, <2>1, ObservedRow
<1>4. PICK f : f = WithReadFailure(left, source[o].at)
  OBVIOUS
<1>5. /\ RowOK(f) /\ Advances(left, f) /\ (f.state = "archived" => left.state = "archived")
  BY <1>1, <1>3, <1>4, FailureRow
<1>6. Advances(rows[o], f)
  <2>1. left \in Row /\ f \in Row
    BY <1>3, <1>5 DEF RowOK
  <2>2. QED
    BY <1>1, <1>3, <1>5, <2>1, AdvancesOn
<1>7. PICK q \in {left, f} : rows' = [rows EXCEPT ![o] = q]
  BY <1>2, <1>4
<1>8. EmptyDigest \in Nat
  BY Constants
<1>9. events \cup {Happened(o, source[o].at, EmptyDigest, "unreadable")} \subseteq DefinitionEvent
  BY <1>1, <1>8, EventTyped DEF ObserverInv, RowsOK
<1>10. seen' \subseteq Object /\ events' \subseteq DefinitionEvent
  BY <1>2, <1>9 DEF ObserverInv, RowsOK
<1>11. UNCHANGED sourceVars /\ faults' \in 0..MaxFaults
  BY FaultTyped DEF ObserveFails, ObserverInv
<1>12. /\ RowOK(q) /\ Advances(rows[o], q)
       /\ q.state = "archived" => rows[o].state = "archived"
  BY <1>3, <1>5, <1>6, <1>7
<1>13. QED
  BY <1>1, <1>7, <1>10, <1>11, <1>12, RowWritten

LEMMA ConfirmKeeps ==
  ASSUME ObserverInv, NEW o \in Object, ArchiveMissing(o) \/ KeepMissing(o)
  PROVE  Keeps
<1>1. RowOK(rows[o]) /\ rows[o] \in Row
  BY DEF ObserverInv, RowsOK
<1>2. /\ rows[o].state \in {"none", "valid", "invalid", "archived"}
      /\ rows[o].at \in Revision /\ rows[o].digest \in Nat
  BY <1>1, RowFields
<1>3. /\ ScanOK' /\ seen' \subseteq Object /\ UNCHANGED sourceVars
  BY DEF ArchiveMissing, KeepMissing, Confirmed, ObserverInv, ScanOK, RowsOK
<1>4. faults' \in 0..MaxFaults
  BY FaultTyped DEF ArchiveMissing, KeepMissing, ObserverInv
<1>5. events' \subseteq DefinitionEvent
  <2>1. events \cup {Happened(o, rows[o].at, rows[o].digest, "archived")} \subseteq DefinitionEvent
    BY <1>2, EventTyped DEF ObserverInv, RowsOK
  <2>2. QED
    BY <2>1 DEF ArchiveMissing, KeepMissing, ObserverInv, RowsOK
<1>6. PICK state \in {"none", "valid", "invalid", "archived"} :
        /\ rows' = [rows EXCEPT ![o] = WithStatus(rows[o], state, rows[o].at, rows[o].digest)]
        /\ state = rows[o].state \/ (state = "archived" /\ source[o].state # "live")
  BY <1>2 DEF ArchiveMissing, KeepMissing, Gone
<1>7. PICK q : q = WithStatus(rows[o], state, rows[o].at, rows[o].digest)
  OBVIOUS
<1>8. /\ state = "valid" => rows[o].active \in Parsed /\ Digest[rows[o].active] = rows[o].digest
      /\ state = "none" => rows[o].at = 0 /\ rows[o].digest = 0
  BY <1>1, <1>6 DEF RowOK
<1>9. /\ RowOK(q) /\ Advances(rows[o], q)
      /\ q.state = "archived" => rows[o].state = "archived" \/ state = "archived"
  BY <1>1, <1>2, <1>7, <1>8, StatusRow
<1>10. rows' = [rows EXCEPT ![o] = q]
  BY <1>6, <1>7
<1>11. q.state = "archived" => rows[o].state = "archived" \/ source[o].state # "live"
  BY <1>6, <1>9
<1>12. QED
  BY <1>3, <1>4, <1>5, <1>9, <1>10, <1>11, RowWritten

\* A search returns a page of what is listed.
LEMMA SearchKeeps ==
  ASSUME ObserverInv, Search
  PROVE  Keeps
<1> DEFINE End   == Min({Len(listing), offset + PageSize})
           found == SubSeq(listing, offset + 1, End)
           Entry == [id : Object, at : Revision]
<1>1. /\ listing \in Seq(Object) /\ offset \in Nat /\ PageSize \in Nat
      /\ source \in [Object -> [state : {"absent", "live", "archived"}, at : Revision,
                                content : Content \cup {NoContent}]]
  BY Constants DEF ObserverInv, SourceOK, ScanOK
<1>2. PICK n \in Nat : n = Len(listing) /\ DOMAIN listing = 1..n
  BY <1>1, LenProperties
<1>3. PICK e \in Nat : e = End /\ e <= n /\ e <= offset + PageSize
  <2>1. PICK k \in {n, offset + PageSize} : \A y \in {n, offset + PageSize} : k <= y
    BY <1>1
  <2>2. /\ Min({n, offset + PageSize}) \in {n, offset + PageSize}
        /\ \A y \in {n, offset + PageSize} : Min({n, offset + PageSize}) <= y
    BY <2>1 DEF Min
  <2>3. End \in {n, offset + PageSize} /\ End <= n /\ End <= offset + PageSize
    BY <1>2, <2>2
  <2>4. n \in Nat /\ offset + PageSize \in Nat
    BY <1>1
  <2> HIDE DEF End
  <2>5. QED
    BY <2>3, <2>4
<1>4. \A i \in (offset + 1)..e : listing[i] \in Object
  BY <1>1, <1>2, <1>3, ElementOfSeq
<1>5. PICK f \in Seq(Object) : f = found /\ Len(f) \in 0..PageSize
  <2>1. /\ SubSeq(listing, offset + 1, e) \in Seq(Object)
        /\ Len(SubSeq(listing, offset + 1, e)) =
             IF offset + 1 <= e THEN e - (offset + 1) + 1 ELSE 0
    BY <1>1, <1>4, SubSeqProperties
  <2>2. Len(found) \in 0..PageSize
    <3> HIDE DEF End
    <3>1. found = SubSeq(listing, offset + 1, e)
      BY <1>3
    <3> HIDE DEF found
    <3>2. QED
      BY <1>1, <1>3, <2>1, <3>1
  <2>3. found \in Seq(Object)
    BY <1>3, <2>1
  <2> HIDE DEF found
  <2>4. QED
    BY <2>2, <2>3
<1>6. PICK m \in 0..PageSize : m = Len(f) /\ DOMAIN f = 1..m
  BY <1>5, LenProperties
<1>7. \A i \in 1..m : f[i] \in Object
  BY <1>5, <1>6, ElementOfSeq
<1> DEFINE p == [i \in 1..m |-> [id |-> f[i], at |-> source[f[i]].at]]
<1>8. page' = p /\ size' = m
  BY <1>3, <1>5, <1>6 DEF Search
<1>9. p \in Seq(Entry)
  <2>1. \A i \in 1..m : [id |-> f[i], at |-> source[f[i]].at] \in Entry
    BY <1>1, <1>7
  <2>2. p \in [1..m -> Entry]
    BY <2>1
  <2>3. m \in Nat
    BY <1>1, <1>6
  <2> HIDE DEF p, Entry
  <2>4. QED
    BY <2>2, <2>3, SeqDef
<1>10. ScanOK'
  BY <1>6, <1>8, <1>9 DEF Search, ObserverInv, ScanOK
<1>11. SourceOK'
  BY DEF Search, ObserverInv, SourceOK, sourceVars
<1>12. RowsOK' /\ RowsStand
  BY RowsUnwritten DEF Search, ObserverInv
<1>13. QED
  BY <1>10, <1>11, <1>12 DEF Keeps, ObserverInv

\* What ends or forgets a scan leaves every row as it is.
LEMMA ScanEndKeeps ==
  ASSUME ObserverInv, NextPage \/ Reconcile \/ FinishScan \/ Abandon \/ Reconfigure
  PROVE  Keeps
<1>1. <<>> \in Seq([id : Object, at : Revision]) /\ 0 \in 0..PageSize
  BY EmptySeq, Constants
<1>2. faults' \in 0..MaxFaults
  BY FaultTyped DEF NextPage, Reconcile, FinishScan, Abandon, Reconfigure, ObserverInv
<1>3. edits' \in 0..MaxEdits /\ granted' \in Grants
  BY Constants
  DEF NextPage, Reconcile, FinishScan, Abandon, Reconfigure, ObserverInv, SourceOK, sourceVars
<1>4. UNCHANGED <<source, listing, rows, events>> /\ seen' \in {seen, {}}
  BY DEF NextPage, Reconcile, FinishScan, Abandon, Reconfigure, sourceVars, storeVars
<1>5. SourceOK'
  BY <1>2, <1>3, <1>4 DEF ObserverInv, SourceOK
<1>6. RowsOK'
  BY <1>4 DEF ObserverInv, RowsOK
<1>7. RowsStand
  BY <1>4, AdvancesOn DEF RowsStand, ObserverInv, RowsOK
<1>8. CASE Reconcile
  <2>1. PICK picked \in SUBSET Missing : missing' = picked
    BY <1>8 DEF Reconcile
  <2>2. missing' \subseteq Object
    BY <2>1 DEF Missing
  <2>3. complete' \in BOOLEAN
    <3>1. complete' = (Cardinality(Missing) <= PageSize)
      BY <1>8 DEF Reconcile
    <3>2. CASE Cardinality(Missing) <= PageSize
      BY <3>1, <3>2, Zenon
    <3>3. CASE ~(Cardinality(Missing) <= PageSize)
      <4>1. (Cardinality(Missing) <= PageSize) = FALSE
        BY <3>3
      <4>2. QED
        BY <3>1, <4>1
    <3>4. QED
      BY <3>2, <3>3
  <2>4. phase' = "missing" /\ UNCHANGED <<offset, page, size>>
    BY <1>8 DEF Reconcile
  <2>5. ScanOK'
    BY <2>2, <2>3, <2>4 DEF ObserverInv, ScanOK
  <2>6. QED
    BY <1>5, <1>6, <1>7, <2>5 DEF Keeps, ObserverInv
<1>9. CASE NextPage \/ FinishScan \/ Abandon \/ Reconfigure
  <2>1. /\ phase' = "idle" /\ page' = <<>> /\ size' = 0 /\ missing' = {} /\ complete' = FALSE
        /\ offset' \in {0, offset, offset + size}
    BY <1>9 DEF NextPage, FinishScan, Abandon, Reconfigure, ScanIdle
  <2>2. offset \in Nat /\ size \in Nat
    BY Constants DEF ObserverInv, ScanOK
  <2>3. offset' \in Nat
    BY <2>1, <2>2
  <2>4. page' \in Seq([id : Object, at : Revision]) /\ size' \in 0..PageSize
    BY <1>1, <2>1
  <2>5. ScanOK'
    BY <2>1, <2>3, <2>4 DEF ScanOK
  <2>6. QED
    BY <1>5, <1>6, <1>7, <2>5 DEF Keeps, ObserverInv
<1>10. QED
  BY <1>8, <1>9

-----------------------------------------------------------------------------
(* The theorems *)

LEMMA ObserverInvInit ==
  ASSUME ObserverInit
  PROVE  ObserverInv
<1>1. /\ <<>> \in Seq(Object) /\ Len(<<>>) = 0 /\ <<>> \in Seq([id : Object, at : Revision])
  BY EmptySeq
<1>2. DOMAIN <<>> = {}
  OBVIOUS
<1>3. SourceOK
  BY <1>1, <1>2, Constants DEF ObserverInit, SourceOK, IsInjective
<1>4. NoRow \in Row /\ RowOK(NoRow)
  BY Constants DEF NoRow, Row, RowOK
<1>5. RowsOK
  BY <1>4 DEF ObserverInit, RowsOK
<1>6. ScanOK
  <2>1. 0 \in Nat /\ 0 \in 0..PageSize
    BY Constants
  <2>2. /\ offset = 0 /\ phase = "idle" /\ page = <<>> /\ size = 0
        /\ missing = {} /\ complete = FALSE
    BY DEF ObserverInit
  <2>3. page \in Seq([id : Object, at : Revision])
    BY <1>1, <2>2
  <2>4. QED
    BY <2>1, <2>2, <2>3 DEF ScanOK
<1>7. QED
  BY <1>3, <1>5, <1>6 DEF ObserverInv

LEMMA ObserverInvNext ==
  ASSUME ObserverInv, [ObserverNext]_observerVars
  PROVE  Keeps
<1>1. CASE Editors
  BY <1>1, EditorsKeep
<1>2. CASE Scan
  <2>1. CASE Search
    BY <2>1, SearchKeeps
  <2>2. CASE NextPage \/ Reconcile \/ FinishScan
    BY <2>2, ScanEndKeeps
  <2>3. ASSUME NEW o \in Object,
               \/ Observe(o) \/ ObserveArchived(o) \/ ObserveReadFailure(o) \/ ObserveFails(o)
               \/ ArchiveMissing(o) \/ KeepMissing(o)
        PROVE  Keeps
    BY <2>3, ObserveKeeps, ObserveArchivedKeeps, ObserveReadFailureKeeps, ObserveFailsKeeps,
       ConfirmKeeps
  <2>4. QED
    BY <1>2, <2>1, <2>2, <2>3 DEF Scan
<1>3. CASE Abandon \/ Reconfigure
  BY <1>3, ScanEndKeeps
<1>4. CASE UNCHANGED observerVars
  <2>1. RowsOK' /\ RowsStand
    BY <1>4, RowsUnwritten DEF observerVars, ObserverInv
  <2>2. SourceOK'
    BY <1>4 DEF observerVars, sourceVars, ObserverInv, SourceOK
  <2>3. ScanOK'
    BY <1>4 DEF observerVars, scanVars, ObserverInv, ScanOK
  <2>4. QED
    BY <2>1, <2>2, <2>3 DEF Keeps, ObserverInv
<1>5. QED
  BY <1>1, <1>2, <1>3, <1>4 DEF ObserverNext

LEMMA ObserverAlways == ObserverSpec => []ObserverInv
<1>1. ObserverInit => ObserverInv
  BY ObserverInvInit
<1>2. ObserverInv /\ [ObserverNext]_observerVars => ObserverInv'
  BY ObserverInvNext DEF Keeps
<1>3. QED
  BY <1>1, <1>2, PTL DEF ObserverSpec

\* Every state of the observer, its rows, the objects and the scan is well typed.
THEOREM ObserverTypeCorrect == ObserverSpec => []ObserverTypeOK
<1>1. ObserverInv => ObserverTypeOK
  BY DEF ObserverInv, SourceOK, RowsOK, ScanOK, ObserverTypeOK
<1>2. QED
  BY <1>1, ObserverAlways, PTL

\* What runs may start from is what was read at the recorded revision, whatever
\* failed, was late or was read twice (observer.ts, store.ts).
THEOREM UsableStaysCurrent == ObserverSpec => []UsableIsCurrent
<1>1. ObserverInv => UsableIsCurrent
  BY DEF ObserverInv, RowsOK, RowOK, UsableIsCurrent
<1>2. QED
  BY <1>1, ObserverAlways, PTL

\* No write to a row goes behind the revision the row records, in whatever order
\* pages, failures and confirmations come (the guards of the store's updates).
THEOREM RevisionsOnlyAdvance == ObserverSpec => RevisionsAdvance
<1>1. ObserverInv /\ [ObserverNext]_observerVars =>
        [\A o \in Object :
           \/ rows[o].at < rows'[o].at
           \/ rows[o].at = rows'[o].at /\ rows[o].digest <= rows'[o].digest]_observerVars
  BY ObserverInvNext DEF Keeps, RowsStand, Advances
<1>2. QED
  BY <1>1, ObserverAlways, PTL DEF ObserverSpec, RevisionsAdvance

\* A row becomes archived only when the object is archived or gone: that a
\* search skipped it is never enough (archiveMissing reads it directly).
THEOREM ArchivedOnlyWhenGone == ObserverSpec => ArchivedWasGone
<1>1. ObserverInv /\ [ObserverNext]_observerVars =>
        [\A o \in Object :
           rows[o].state # "archived" /\ rows'[o].state = "archived" =>
             source[o].state # "live"]_observerVars
  BY ObserverInvNext DEF Keeps, RowsStand
<1>2. QED
  BY <1>1, ObserverAlways, PTL DEF ObserverSpec, ArchivedWasGone

-----------------------------------------------------------------------------
(* WorkflowDispatch, for every number of gateways, every event log and every *)
(* choice of the limits.                                                     *)

(* Types *)

DeliveryStates == {"none", "pending", "dispatched", "cancelled", "dead_letter"}

\* A delivery is dead-lettered at the latest by its last refusal.
RefusalsLeft ==
  \A d \in Delivery : delivery[d] \in {"none", "pending"} => deferrals[d] < MaximumAttempts

\* A page holds events that are in the log.
PagesAreRecorded == \A g \in Gateway : batch[g] \subseteq recorded

TypeInv == TypeOK /\ RefusalsLeft /\ PagesAreRecorded

LEMMA ConstantTypes ==
  /\ Event \subseteq Nat /\ MaximumAttempts \in Nat \ {0} /\ MaximumConcurrentRuns \in Nat \ {0}
  /\ BatchSize \in Nat \ {0} /\ MaxTime \in Nat \ {0} /\ MaxCrashes \in Nat
  /\ \A v \in Version : WorkflowOf[v] \in Workflow
  /\ NoVersion \notin Version
  BY DispatchAssumption

\* The position of an event is a pair of numbers.
LEMMA PositionType ==
  ASSUME TypeOK, NEW e \in Event
  PROVE  /\ PositionOf(e) \in Position
         /\ PositionOf(e)[1] = stamp[e] /\ PositionOf(e)[2] = e
         /\ stamp[e] \in Nat /\ e \in Nat
  BY ConstantTypes DEF TypeOK, PositionOf, Position

LEMMA DeliveryType ==
  ASSUME NEW d \in Delivery
  PROVE  /\ d[1] \in Version /\ d[2] \in Event /\ Owner(d) \in Workflow /\ d # NoDelivery
  <1>1. PICK v \in Version, e \in Event : d = <<v, e>>
    BY DEF Delivery
  <1> QED
    BY <1>1, ConstantTypes DEF Owner, NoDelivery

\* What an event adds are deliveries of this event to its workflow's version.
LEMMA NewDeliveriesType ==
  ASSUME NEW g, NEW e \in Event
  PROVE  /\ NewDeliveries(g, e) \subseteq Delivery
         /\ \A d \in NewDeliveries(g, e) : delivery[d] = "none"
  BY DEF NewDeliveries, Matching, Triggers, Delivery

\* cancelDelivery and deadLetterDelivery change a pending delivery and no other.
LEMMA MarkStep ==
  ASSUME TypeInv, NEW d \in Delivery, NEW state \in {"pending", "cancelled", "dead_letter"},
         Mark(d, state)
  PROVE  /\ delivery' \in [Delivery -> DeliveryStates]
         /\ \A x \in Delivery :
              delivery'[x] = IF x = d /\ Pending(d) THEN state ELSE delivery[x]
  BY DEF TypeInv, TypeOK, Mark, Pending, DeliveryStates

LEMMA EnsuredType ==
  ASSUME TypeOK, NEW S
  PROVE  Ensured(S) \in [Version -> {"none", "approved", "rejected"}]
  BY DEF Ensured, TypeOK

\* Considering a delivery settles or defers it, within its budget of refusals.
LEMMA ConsiderTypes ==
  ASSUME TypeInv, NEW g \in Gateway, NEW d \in Delivery, Consider(g, d)
  PROVE  TypeInv'
  <1> USE DEF TypeInv, PagesAreRecorded
  <1>1. todo' \in [Gateway -> SUBSET Delivery]
    BY DEF Consider, TypeOK
  <1>2. checked' \in [Gateway -> Delivery \cup {NoDelivery}]
    BY DEF Consider, TypeOK
  <1>3. decision' \in [Version -> {"none", "approved", "rejected"}]
    BY EnsuredType DEF Consider, TypeOK
  <1>4. due' \subseteq Delivery
    BY DEF Consider, TypeOK, DeferDelivery
  <1>5. CASE UNCHANGED <<delivery, deferrals>>
    BY <1>1, <1>2, <1>3, <1>4, <1>5 DEF Consider, TypeOK, RefusalsLeft, PagesAreRecorded, Pending, eventVars,
       matcherVars, runVars, processVars
  <1>6. ASSUME NEW state \in {"cancelled", "dead_letter"}, Mark(d, state), UNCHANGED deferrals
        PROVE  TypeInv'
    <2>1. RefusalsLeft'
      BY <1>6, MarkStep DEF RefusalsLeft, PagesAreRecorded, Pending
    <2>2. delivery' \in [Delivery -> DeliveryStates]
      BY <1>6, MarkStep
    <2> QED
      BY <1>1, <1>2, <1>3, <1>4, <1>6, <2>1, <2>2 DEF Consider, TypeOK, DeliveryStates, eventVars,
         matcherVars, runVars, processVars
  <1>7. CASE DeferDelivery(d)
    <2> DEFINE state == IF deferrals[d] + 1 >= MaximumAttempts THEN "dead_letter" ELSE "pending"
    <2>1. Mark(d, state) /\ state \in {"pending", "cancelled", "dead_letter"}
      BY <1>7 DEF DeferDelivery
    <2>2. /\ delivery' \in [Delivery -> DeliveryStates]
          /\ \A x \in Delivery : delivery'[x] = IF x = d /\ Pending(d) THEN state ELSE delivery[x]
      BY <2>1, MarkStep
    <2>3. deferrals[d] \in Nat
      BY DEF TypeOK
    <2>4. deferrals' \in [Delivery -> 0..MaximumAttempts]
      BY <1>7, <2>3, ConstantTypes DEF DeferDelivery, TypeOK, RefusalsLeft, Pending
    <2>5. ASSUME NEW x \in Delivery, delivery'[x] \in {"none", "pending"}
          PROVE  deferrals'[x] < MaximumAttempts
      <3>1. CASE x = d
        BY <3>1, <2>2, <2>3, <2>5, <1>7, ConstantTypes DEF DeferDelivery, TypeOK, Pending, RefusalsLeft
      <3>2. CASE x # d
        BY <3>2, <2>2, <2>5, <1>7 DEF DeferDelivery, TypeOK, Pending, RefusalsLeft
      <3> QED
        BY <3>1, <3>2
    <2>6. RefusalsLeft'
      BY <2>5 DEF RefusalsLeft
    <2> QED
      BY <1>1, <1>2, <1>3, <1>4, <2>2, <2>4, <2>6 DEF Consider, TypeOK, DeliveryStates, eventVars,
         matcherVars, runVars, processVars
  <1> QED
    BY <1>5, <1>6, <1>7 DEF Consider

\* A dispatch writes its delivery and its run, or nothing.
LEMMA DispatchTypes ==
  ASSUME TypeInv, NEW g \in Gateway, DispatchDelivery(g)
  PROVE  TypeInv'
  <1> USE DEF TypeInv, PagesAreRecorded
  <1> DEFINE d == checked[g]
  <1>1. d \in Delivery
    BY DEF DispatchDelivery, TypeOK
  <1>2. checked' \in [Gateway -> Delivery \cup {NoDelivery}]
    BY DEF DispatchDelivery, TypeOK
  <1>3. delivery' \in [Delivery -> DeliveryStates]
    BY <1>1 DEF DispatchDelivery, TypeOK, DeliveryStates
  <1>4. due' \subseteq Delivery /\ recent' \subseteq Delivery
    BY <1>1 DEF DispatchDelivery, TypeOK
  <1>5. run' \in [Delivery -> {"none", "working", "refetch", "ended"}]
    BY <1>1 DEF DispatchDelivery, TypeOK
  <1>6. \A x \in Delivery : delivery'[x] \in {"none", "pending"} => delivery'[x] = delivery[x]
    BY <1>1 DEF DispatchDelivery, TypeOK
  <1>7. RefusalsLeft'
    BY <1>6 DEF DispatchDelivery, RefusalsLeft, PagesAreRecorded, Pending
  <1> QED
    BY <1>2, <1>3, <1>4, <1>5, <1>7 DEF DispatchDelivery, TypeOK, DeliveryStates, eventVars,
       matcherVars, rulesVars, processVars

\* The types hold at the start.
LEMMA TypeInit == Init => TypeInv
  <1> SUFFICES ASSUME Init PROVE TypeInv
    OBVIOUS
  <1>1. RefusalsLeft /\ PagesAreRecorded
    BY ConstantTypes DEF Init, RefusalsLeft, PagesAreRecorded
  <1>2. cursor \in Position
    BY ConstantTypes DEF Init, Position
  <1>3. active \in [Workflow -> Version \cup {NoVersion}] /\ verdict \in [Gateway -> Configuration]
    BY DEF Init
  <1>4. deferrals \in [Delivery -> 0..MaximumAttempts] /\ crashes \in 0..MaxCrashes
    BY ConstantTypes DEF Init
  <1>5. stamp \in [Event -> 0..MaxTime]
    BY ConstantTypes DEF Init
  <1> QED
    BY <1>1, <1>2, <1>3, <1>4, <1>5 DEF Init, TypeInv, TypeOK

\* The matcher, its log and its pages keep the types.
LEMMA MatcherTypes ==
  ASSUME TypeInv,
         \/ \E e \in Event : Stamp(e) \/ Record(e)
         \/ \E g \in Gateway : InitializeMatcher(g) \/ ReadEvents(g) \/ MatchEvent(g)
  PROVE  TypeInv'
  <1> USE DEF TypeInv, PagesAreRecorded
  <1>1. ASSUME NEW e \in Event, Stamp(e)
        PROVE  TypeInv'
    <2>1. stamp' \in [Event -> 0..MaxTime]
      BY <1>1, ConstantTypes DEF Stamp, TypeOK
    <2> QED
      BY <1>1, <2>1 DEF Stamp, TypeOK, RefusalsLeft, PagesAreRecorded, Pending, matcherVars, rulesVars,
         deliveryVars, runVars, turnVars, processVars
  <1>2. ASSUME NEW e \in Event, Record(e)
        PROVE  TypeInv'
    <2>1. recorded' \subseteq Event /\ late' \subseteq recorded' /\ recorded \subseteq recorded'
      BY <1>2 DEF Record, TypeOK
    <2> QED
      BY <1>2, <2>1 DEF Record, TypeOK, RefusalsLeft, PagesAreRecorded, Pending, matcherVars, rulesVars,
         deliveryVars, runVars, turnVars, processVars
  <1>3. ASSUME NEW g \in Gateway, InitializeMatcher(g)
        PROVE  TypeInv'
    <2>1. cursor' \in Position
      <3>1. CASE cursor' = <<0, 0>>
        BY <3>1, ConstantTypes DEF Position
      <3>2. CASE \E e \in recorded : cursor' = PositionOf(e)
        BY <3>2, PositionType DEF TypeOK
      <3> QED
        BY <1>3, <3>1, <3>2 DEF InitializeMatcher
    <2> QED
      BY <1>3, <2>1 DEF InitializeMatcher, TypeOK, RefusalsLeft, PagesAreRecorded, Pending, rulesVars,
         deliveryVars, runVars, turnVars, processVars
  <1>4. ASSUME NEW g \in Gateway, ReadEvents(g)
        PROVE  TypeInv'
    <2>1. EventsAfter \subseteq recorded /\ EventsAfter \subseteq Event
      BY DEF EventsAfter, NewEvents, TypeOK
    <2>2. batch' \in [Gateway -> SUBSET Event]
      BY <1>4, <2>1 DEF ReadEvents, TypeOK
    <2>3. recorded' = recorded /\ \A x \in Gateway : batch'[x] \subseteq recorded
      BY <1>4, <2>1 DEF ReadEvents, TypeOK, eventVars
    <2>4. PagesAreRecorded'
      BY <2>3 DEF PagesAreRecorded
    <2>5. RefusalsLeft'
      BY <1>4 DEF ReadEvents, RefusalsLeft, deliveryVars
    <2> QED
      BY <1>4, <2>2, <2>4, <2>5 DEF ReadEvents, TypeOK, eventVars, matcherVars,
         rulesVars, deliveryVars, runVars, processVars
  <1>5. ASSUME NEW g \in Gateway, MatchEvent(g)
        PROVE  TypeInv'
    <2>1. PICK e \in batch[g] :
            /\ delivery' = Put(delivery, NewDeliveries(g, e), "pending")
            /\ due' = due \cup NewDeliveries(g, e)
            /\ decision' = Ensured(Matching(g, e))
            /\ handled' = handled \cup {e}
            /\ cursor' = PositionOf(e)
            /\ batch' = [batch EXCEPT ![g] = @ \ {e}]
            /\ UNCHANGED <<eventVars, initialized, active, enabled, verdict, deferrals, runVars,
                           todo, checked, processVars>>
      BY <1>5 DEF MatchEvent, Advance
    <2>2. e \in Event
      BY DEF TypeOK
    <2>3. delivery' \in [Delivery -> DeliveryStates]
      BY <2>1, <2>2 DEF Put, TypeOK, DeliveryStates
    <2>4. due' \subseteq Delivery
      BY <2>1, <2>2, NewDeliveriesType DEF TypeOK
    <2>5. decision' \in [Version -> {"none", "approved", "rejected"}]
      BY <2>1, EnsuredType
    <2>6. handled' \subseteq recorded' /\ batch' \in [Gateway -> SUBSET Event]
      BY <1>5, <2>1 DEF eventVars, TypeOK
    <2>7. cursor' \in Position
      BY <2>1, <2>2, PositionType
    <2>8. RefusalsLeft'
      BY <2>1, <2>2, NewDeliveriesType DEF RefusalsLeft, Put, TypeOK
    <2> QED
      BY <2>1, <2>3, <2>4, <2>5, <2>6, <2>7, <2>8 DEF TypeOK, DeliveryStates, eventVars, runVars,
         processVars
  <1> QED
    BY <1>1, <1>2, <1>3, <1>4, <1>5

\* So do operators, the observer, runs, timers, crashes and restarts.
LEMMA EnvironmentTypes ==
  ASSUME TypeInv,
         \/ \E g \in Gateway : ReadDeliveries(g) \/ Crash(g) \/ Boot(g)
         \/ \E d \in Delivery : ComeDue(d) \/ Age(d) \/ AwaitSource(d) \/ Resume(d) \/ EndRun(d)
         \/ \E w \in Workflow : Activate(w) \/ Override(w)
         \/ \E v \in Version : Decide(v)
  PROVE  TypeInv'
  <1> USE DEF TypeInv, PagesAreRecorded
  <1>1. ASSUME NEW g \in Gateway, ReadDeliveries(g)
        PROVE  TypeInv'
    <2>1. todo' \in [Gateway -> SUBSET Delivery]
      BY <1>1 DEF ReadDeliveries, TypeOK
    <2> QED
      BY <1>1, <2>1 DEF ReadDeliveries, TypeOK, RefusalsLeft, eventVars, matcherVars, rulesVars,
         deliveryVars, runVars, processVars
  <1>2. ASSUME NEW g \in Gateway, Crash(g)
        PROVE  TypeInv'
    <2>1. /\ batch' \in [Gateway -> SUBSET Event] /\ todo' \in [Gateway -> SUBSET Delivery]
          /\ checked' \in [Gateway -> Delivery \cup {NoDelivery}]
      BY <1>2 DEF Crash, TypeOK
    <2>2. crashes' \in 0..MaxCrashes /\ up' \subseteq Gateway
      BY <1>2, ConstantTypes DEF Crash, TypeOK
    <2>3. PagesAreRecorded'
      BY <1>2 DEF Crash, TypeOK, eventVars
    <2> QED
      BY <1>2, <2>1, <2>2, <2>3 DEF Crash, TypeOK, RefusalsLeft, eventVars, matcherVars, rulesVars,
         deliveryVars, runVars
  <1>3. ASSUME NEW g \in Gateway, Boot(g)
        PROVE  TypeInv'
    BY <1>3 DEF Boot, TypeOK, RefusalsLeft, eventVars, matcherVars, deliveryVars, runVars, turnVars
  <1>4. ASSUME NEW d \in Delivery, ComeDue(d)
        PROVE  TypeInv'
    BY <1>4 DEF ComeDue, TypeOK, RefusalsLeft, eventVars, matcherVars, rulesVars, runVars, turnVars,
       processVars
  <1>5. ASSUME NEW d \in Delivery, Age(d)
        PROVE  TypeInv'
    BY <1>5 DEF Age, TypeOK, RefusalsLeft, eventVars, matcherVars, rulesVars, deliveryVars, turnVars,
       processVars
  <1>6. ASSUME NEW d \in Delivery, AwaitSource(d)
        PROVE  TypeInv'
    BY <1>6 DEF AwaitSource, TypeOK, RefusalsLeft, eventVars, matcherVars, rulesVars, deliveryVars,
       turnVars, processVars
  <1>7. ASSUME NEW d \in Delivery, Resume(d)
        PROVE  TypeInv'
    BY <1>7 DEF Resume, TypeOK, RefusalsLeft, eventVars, matcherVars, rulesVars, deliveryVars,
       turnVars, processVars
  <1>8. ASSUME NEW d \in Delivery, EndRun(d)
        PROVE  TypeInv'
    BY <1>8 DEF EndRun, TypeOK, RefusalsLeft, eventVars, matcherVars, rulesVars, deliveryVars,
       turnVars, processVars
  <1>9. ASSUME NEW w \in Workflow, Activate(w)
        PROVE  TypeInv'
    BY <1>9 DEF Activate, TypeOK, RefusalsLeft, eventVars, matcherVars, deliveryVars, runVars,
       turnVars, processVars
  <1>10. ASSUME NEW w \in Workflow, Override(w)
         PROVE  TypeInv'
    BY <1>10 DEF Override, TypeOK, RefusalsLeft, eventVars, matcherVars, deliveryVars, runVars,
       turnVars, processVars
  <1>11. ASSUME NEW v \in Version, Decide(v)
         PROVE  TypeInv'
    BY <1>11 DEF Decide, TypeOK, RefusalsLeft, eventVars, matcherVars, deliveryVars, runVars,
       turnVars, processVars
  <1> QED
    BY <1>1, <1>2, <1>3, <1>4, <1>5, <1>6, <1>7, <1>8, <1>9, <1>10, <1>11

LEMMA TypeStutter ==
  ASSUME TypeInv, UNCHANGED vars
  PROVE  TypeInv'
  BY DEF TypeInv, TypeOK, RefusalsLeft, PagesAreRecorded, vars, eventVars, matcherVars, rulesVars,
     deliveryVars, runVars, turnVars, processVars

LEMMA TypeNext == TypeInv /\ [Next]_vars => TypeInv'
  BY MatcherTypes, ConsiderTypes, DispatchTypes, EnvironmentTypes, TypeStutter
     DEF Next, GatewayStep

\* The log, the cursor, the deliveries, the runs and the pages keep their types,
\* and no delivery is refused more often than its budget allows.
THEOREM DispatchTypeCorrect == Spec => []TypeOK
  <1>1. Spec => []TypeInv
    BY TypeInit, TypeNext, PTL DEF Spec
  <1> QED
    BY <1>1, PTL DEF TypeInv

(* Deliveries and runs *)

\* What a step may do to the deliveries.
DeliveryMoves ==
  \A d \in Delivery :
    delivery'[d] # delivery[d] =>
      \/ delivery[d] = "none" /\ delivery'[d] = "pending" /\ run'[d] = run[d]
      \/ delivery[d] = "pending" /\ delivery'[d] \in {"cancelled", "dead_letter"} /\ run'[d] = run[d]
      \/ /\ delivery[d] = "pending" /\ delivery'[d] = "dispatched"
         /\ run[d] = "none" /\ run'[d] = "working"

\* A run begins with its dispatch and never ceases to exist.
RunMoves ==
  \A d \in Delivery :
    delivery'[d] = delivery[d] => (run'[d] = "none" <=> run[d] = "none")

\* Whatever a page held when it was read, a delivery moves from none to pending,
\* and from pending once, and its run begins in the transaction that dispatches it.
LEMMA MovesOfDeliveries ==
  ASSUME TypeInv, [Next]_vars
  PROVE  DeliveryMoves /\ RunMoves
  <1> USE DEF TypeInv
  <1>1. CASE UNCHANGED <<delivery, run>>
    BY <1>1 DEF DeliveryMoves, RunMoves
  <1>2. ASSUME NEW g \in Gateway, MatchEvent(g)
        PROVE  DeliveryMoves /\ RunMoves
    <2>1. PICK e \in batch[g] : delivery' = Put(delivery, NewDeliveries(g, e), "pending")
      BY <1>2 DEF MatchEvent
    <2>2. e \in Event /\ run' = run
      BY <1>2 DEF TypeOK, MatchEvent, runVars
    <2> QED
      BY <2>1, <2>2, NewDeliveriesType DEF Put, DeliveryMoves, RunMoves, TypeOK
  <1>3. ASSUME NEW g \in Gateway, NEW d \in Delivery, Consider(g, d)
        PROVE  DeliveryMoves /\ RunMoves
    <2>1. run' = run
      BY <1>3 DEF Consider, runVars
    <2>2. \/ UNCHANGED delivery
          \/ \E state \in {"pending", "cancelled", "dead_letter"} : Mark(d, state)
      BY <1>3 DEF Consider, DeferDelivery
    <2> QED
      BY <2>1, <2>2, MarkStep DEF DeliveryMoves, RunMoves, Pending
  <1>4. ASSUME NEW g \in Gateway, DispatchDelivery(g)
        PROVE  DeliveryMoves /\ RunMoves
    <2>1. checked[g] \in Delivery
      BY <1>4 DEF DispatchDelivery, TypeOK
    <2> QED
      BY <1>4, <2>1 DEF DispatchDelivery, Dispatchable, Pending, DeliveryMoves, RunMoves, TypeOK
  <1>5. ASSUME NEW d \in Delivery, AwaitSource(d) \/ Resume(d) \/ EndRun(d)
        PROVE  DeliveryMoves /\ RunMoves
    BY <1>5 DEF AwaitSource, Resume, EndRun, deliveryVars, DeliveryMoves, RunMoves, TypeOK
  <1>6. ASSUME NEW d \in Delivery, ComeDue(d) \/ Age(d)
        PROVE  UNCHANGED <<delivery, run>>
    BY <1>6 DEF ComeDue, Age, deliveryVars, runVars
  <1>7. ASSUME NEW g \in Gateway,
               InitializeMatcher(g) \/ ReadEvents(g) \/ ReadDeliveries(g) \/ Boot(g) \/ Crash(g)
        PROVE  UNCHANGED <<delivery, run>>
    BY <1>7 DEF InitializeMatcher, ReadEvents, ReadDeliveries, Boot, Crash, deliveryVars, runVars
  <1>8. ASSUME \/ \E e \in Event : Stamp(e) \/ Record(e)
               \/ \E w \in Workflow : Activate(w) \/ Override(w)
               \/ \E v \in Version : Decide(v)
        PROVE  UNCHANGED <<delivery, run>>
    BY <1>8 DEF Stamp, Record, Activate, Override, Decide, deliveryVars, runVars
  <1>9. CASE UNCHANGED vars
    BY <1>9, <1>1 DEF vars, deliveryVars, runVars
  <1> QED
    BY <1>1, <1>2, <1>3, <1>4, <1>5, <1>6, <1>7, <1>8, <1>9 DEF Next, GatewayStep

\* Deliveries and runs agree, however many gateways work on the same pages.
THEOREM DeliveriesMatchRuns == Spec => []DispatchedHasRun
  <1>1. Init => DispatchedHasRun
    BY DEF Init, DispatchedHasRun
  <1>2. TypeInv /\ DispatchedHasRun /\ [Next]_vars => DispatchedHasRun'
    <2> SUFFICES ASSUME TypeInv, DispatchedHasRun, [Next]_vars, NEW d \in Delivery
                 PROVE  delivery'[d] = "dispatched" <=> run'[d] # "none"
      BY DEF DispatchedHasRun
    <2>1. DeliveryMoves /\ RunMoves
      BY MovesOfDeliveries
    <2> QED
      BY <2>1 DEF DeliveryMoves, RunMoves, DispatchedHasRun
  <1> QED
    BY <1>1, <1>2, TypeInit, TypeNext, PTL DEF Spec

\* What became of a delivery stands.
THEOREM SettledStand == Spec => SettledDeliveriesStand
  <1>1. TypeInv /\ [Next]_vars =>
          [\A d \in Delivery :
             delivery[d] \in {"dispatched", "cancelled", "dead_letter"} =>
               delivery'[d] = delivery[d]]_vars
    BY MovesOfDeliveries DEF DeliveryMoves
  <1> QED
    BY <1>1, TypeInit, TypeNext, PTL DEF Spec, SettledDeliveriesStand

(* The log and the cursor *)

\* Positions are totally ordered, and different events have different ones.
LEMMA OrderOfEvents ==
  ASSUME TypeOK, NEW x \in Event, NEW y \in Event
  PROVE  /\ ~(After(PositionOf(x), PositionOf(y)) /\ After(PositionOf(y), PositionOf(x)))
         /\ x # y => After(PositionOf(x), PositionOf(y)) \/ After(PositionOf(y), PositionOf(x))
         /\ ~After(PositionOf(x), PositionOf(x))
  BY PositionType DEF After

LEMMA OrderIsTransitive ==
  ASSUME TypeOK, NEW x \in Event, NEW y \in Event, NEW z \in Event,
         After(PositionOf(x), PositionOf(y)), After(PositionOf(y), PositionOf(z))
  PROVE  After(PositionOf(x), PositionOf(z))
  BY PositionType DEF After

\* An event in the log has its stamp.
Stamped == \A e \in recorded : stamp[e] # 0

\* The cursor stands at the beginning or at an event.
CursorAtEvent == cursor = <<0, 0>> \/ \E e \in recorded : cursor = PositionOf(e)

\* The events that the matcher owes: recorded in order, after it began.
Owed == recorded \ (late \cup baseline)

\* A page has no gap: what is owed before one of its events has been matched, or
\* is in the page too.
PagesHaveNoGap ==
  \A g \in Gateway : \A e \in batch[g] : \A x \in Owed :
    After(PositionOf(e), PositionOf(x)) => x \in handled \cup batch[g]

CursorInv == Stamped /\ CursorAtEvent /\ NoEventIsPassed /\ PagesHaveNoGap

\* The page that eventsAfter returns is an initial part of the new events.
LEMMA PageIsInitial ==
  ASSUME TypeInv, NEW e \in EventsAfter, NEW x \in NewEvents,
         After(PositionOf(e), PositionOf(x))
  PROVE  x \in EventsAfter
  <1> DEFINE Before(y) == {z \in NewEvents : After(PositionOf(y), PositionOf(z))}
  <1>1. NewEvents \subseteq Event
    BY DEF NewEvents, TypeInv, TypeOK
  <1>2. IsFiniteSet(NewEvents)
    BY <1>1, DispatchAssumption, FS_Subset
  <1>3. e \in NewEvents /\ Cardinality(Before(e)) < BatchSize
    BY DEF EventsAfter
  <1>4. Before(x) \subseteq Before(e)
    BY <1>1, <1>3, OrderIsTransitive DEF TypeInv
  <1>5. IsFiniteSet(Before(e))
    BY <1>2, FS_Subset
  <1>6. Cardinality(Before(x)) <= Cardinality(Before(e))
    BY <1>4, <1>5, FS_Subset
  <1>7. Cardinality(Before(x)) \in Nat /\ Cardinality(Before(e)) \in Nat
    BY <1>4, <1>5, FS_Subset, FS_CardinalityType
  <1> HIDE DEF Before
  <1>8. Cardinality(Before(x)) < BatchSize
    BY <1>3, <1>6, <1>7, ConstantTypes
  <1> QED
    BY <1>8 DEF EventsAfter, Before

LEMMA CursorInit == Init => CursorInv
  BY DEF Init, CursorInv, Stamped, CursorAtEvent, NoEventIsPassed, PagesHaveNoGap

\* A writer takes a stamp: positions of recorded events do not change.
LEMMA StampKeepsCursor ==
  ASSUME TypeInv, CursorInv, NEW e \in Event, Stamp(e)
  PROVE  CursorInv'
  <1> USE DEF TypeInv, TypeOK
  <1>1. UNCHANGED <<recorded, late, baseline, handled, cursor, batch>>
    BY DEF Stamp, matcherVars, turnVars
  <1>2. \A x \in recorded : stamp'[x] = stamp[x]
    BY DEF Stamp, CursorInv, Stamped
  <1>3. \A x \in recorded : PositionOf(x)' = PositionOf(x)
    BY <1>2 DEF PositionOf
  <1>4. Stamped'
    BY <1>1, <1>2 DEF CursorInv, Stamped
  <1>5. CursorAtEvent'
    BY <1>1, <1>3 DEF CursorInv, CursorAtEvent
  <1>6. NoEventIsPassed'
    <2> SUFFICES ASSUME NEW x \in recorded \ (late \cup baseline), ~After(PositionOf(x)', cursor)
                 PROVE  x \in handled
      BY <1>1 DEF NoEventIsPassed, After
    <2> QED
      BY <1>3 DEF CursorInv, NoEventIsPassed
  <1>7. PagesHaveNoGap'
    <2> SUFFICES ASSUME NEW g \in Gateway, NEW b \in batch[g], NEW x \in Owed,
                        After(PositionOf(b)', PositionOf(x)')
                 PROVE  x \in handled \cup batch[g]
      BY <1>1 DEF PagesHaveNoGap, Owed, After
    <2>1. b \in recorded /\ x \in recorded
      BY DEF PagesAreRecorded, Owed
    <2> QED
      BY <2>1, <1>3 DEF CursorInv, PagesHaveNoGap
  <1> QED
    BY <1>4, <1>5, <1>6, <1>7 DEF CursorInv

\* An event committed in order is ahead of the cursor and of every page.
LEMMA RecordKeepsCursor ==
  ASSUME TypeInv, CursorInv, NEW e \in Event, Record(e)
  PROVE  CursorInv'
  <1> USE DEF TypeInv, TypeOK
  <1>1. /\ UNCHANGED <<stamp, baseline, handled, cursor, batch>> /\ recorded' = recorded \cup {e}
        /\ stamp[e] # 0 /\ e \notin recorded
    BY DEF Record, matcherVars, turnVars
  <1>2. \A x : PositionOf(x)' = PositionOf(x)
    BY <1>1 DEF PositionOf
  <1>3. late \subseteq late' /\ (e \notin late' => \A x \in recorded : ~After(PositionOf(x), PositionOf(e)))
    BY DEF Record
  <1>4. Stamped'
    BY <1>1 DEF CursorInv, Stamped
  <1>5. CursorAtEvent'
    BY <1>1, <1>2 DEF CursorInv, CursorAtEvent
  <1>6. ASSUME e \notin late'
        PROVE  After(PositionOf(e), cursor)
    <2>1. CASE cursor = <<0, 0>>
      BY <2>1, <1>1, PositionType DEF After
    <2>2. ASSUME NEW x \in recorded, cursor = PositionOf(x)
          PROVE  After(PositionOf(e), cursor)
      BY <2>2, <1>1, <1>3, <1>6, OrderOfEvents
    <2> QED
      BY <2>1, <2>2 DEF CursorInv, CursorAtEvent
  <1>7. NoEventIsPassed'
    <2> SUFFICES ASSUME NEW x \in recorded', x \notin late', x \notin baseline,
                        ~After(PositionOf(x), cursor)
                 PROVE  x \in handled
      BY <1>1, <1>2 DEF NoEventIsPassed, After
    <2>1. x # e
      BY <1>6
    <2> QED
      BY <2>1, <1>1, <1>3 DEF CursorInv, NoEventIsPassed
  <1>8. PagesHaveNoGap'
    <2> SUFFICES ASSUME NEW g \in Gateway, NEW b \in batch[g], NEW x \in Owed',
                        After(PositionOf(b), PositionOf(x))
                 PROVE  x \in handled \cup batch[g]
      BY <1>1, <1>2 DEF PagesHaveNoGap, After
    <2>1. x # e
      BY <1>3 DEF PagesAreRecorded, Owed
    <2>2. x \in Owed
      BY <2>1, <1>1, <1>3 DEF Owed
    <2> QED
      BY <2>2 DEF CursorInv, PagesHaveNoGap
  <1> QED
    BY <1>4, <1>5, <1>7, <1>8 DEF CursorInv

\* The matcher begins behind the log of that moment, and owes nothing yet.
LEMMA InitializeKeepsCursor ==
  ASSUME TypeInv, CursorInv, NEW g \in Gateway, InitializeMatcher(g)
  PROVE  CursorInv'
  <1> USE DEF TypeInv, TypeOK
  <1>1. UNCHANGED <<stamp, recorded, late, handled, batch>> /\ baseline' = recorded
    BY DEF InitializeMatcher, turnVars
  <1>2. \A x : PositionOf(x)' = PositionOf(x)
    BY <1>1 DEF PositionOf
  <1>3. CursorAtEvent'
    BY <1>1, <1>2 DEF InitializeMatcher, CursorAtEvent
  <1>4. Owed' = {}
    BY <1>1 DEF Owed
  <1>5. NoEventIsPassed' /\ PagesHaveNoGap'
    BY <1>4 DEF NoEventIsPassed, PagesHaveNoGap, Owed
  <1> QED
    BY <1>1, <1>3, <1>5 DEF CursorInv, Stamped

LEMMA ReadKeepsCursor ==
  ASSUME TypeInv, CursorInv, NEW g \in Gateway, ReadEvents(g)
  PROVE  CursorInv'
  <1> USE DEF TypeInv, TypeOK
  <1>1. UNCHANGED <<stamp, recorded, late, baseline, handled, cursor>>
    BY DEF ReadEvents, eventVars, matcherVars
  <1>2. batch' = [batch EXCEPT ![g] = EventsAfter]
    BY DEF ReadEvents
  <1>3. \A x : PositionOf(x)' = PositionOf(x)
    BY <1>1 DEF PositionOf
  <1>4. PagesHaveNoGap'
    <2> SUFFICES ASSUME NEW h \in Gateway, NEW b \in batch'[h], NEW x \in Owed,
                        After(PositionOf(b), PositionOf(x))
                 PROVE  x \in handled \cup batch'[h]
      BY <1>1, <1>3 DEF PagesHaveNoGap, Owed, After
    <2>1. CASE h # g
      BY <2>1, <1>2 DEF CursorInv, PagesHaveNoGap
    <2>2. CASE h = g
      <3>1. batch'[h] = EventsAfter
        BY <2>2, <1>2
      <3>2. CASE After(PositionOf(x), cursor)
        <4>1. x \in NewEvents
          BY <3>2 DEF NewEvents, Owed
        <4> QED
          BY <4>1, <3>1, PageIsInitial
      <3>3. CASE ~After(PositionOf(x), cursor)
        BY <3>3 DEF CursorInv, NoEventIsPassed, Owed
      <3> QED
        BY <3>2, <3>3
    <2> QED
      BY <2>1, <2>2
  <1>5. Stamped' /\ CursorAtEvent'
    BY <1>1, <1>3 DEF CursorInv, Stamped, CursorAtEvent
  <1>6. NoEventIsPassed'
    BY <1>1, <1>3 DEF CursorInv, NoEventIsPassed, After
  <1> QED
    BY <1>4, <1>5, <1>6 DEF CursorInv

\* The cursor moves, forward or, behind another gateway, back, to an event before
\* which nothing owed is unmatched.
LEMMA MatchKeepsCursor ==
  ASSUME TypeInv, CursorInv, NEW g \in Gateway, MatchEvent(g)
  PROVE  CursorInv'
  <1> USE DEF TypeInv, TypeOK
  <1>1. UNCHANGED <<stamp, recorded, late, baseline>>
    BY DEF MatchEvent, eventVars
  <1>2. PICK e \in batch[g] :
          /\ Oldest(e, batch[g]) /\ handled' = handled \cup {e} /\ cursor' = PositionOf(e)
          /\ batch' = [batch EXCEPT ![g] = @ \ {e}]
    BY DEF MatchEvent, Advance
  <1>3. \A x : PositionOf(x)' = PositionOf(x)
    BY <1>1 DEF PositionOf
  <1>4. e \in recorded
    BY DEF PagesAreRecorded
  <1>5. ASSUME NEW x \in Owed, ~After(PositionOf(x), PositionOf(e))
        PROVE  x \in handled \cup {e}
    <2>1. CASE x = e
      BY <2>1
    <2>2. CASE x # e
      <3>1. x \in Event /\ After(PositionOf(e), PositionOf(x))
        BY <2>2, <1>4, <1>5, OrderOfEvents DEF Owed
      <3>2. x \in handled \cup batch[g]
        BY <3>1 DEF CursorInv, PagesHaveNoGap
      <3>3. x \notin batch[g]
        BY <2>2, <1>2, <1>5 DEF Oldest
      <3> QED
        BY <3>2, <3>3
    <2> QED
      BY <2>1, <2>2
  <1>6. NoEventIsPassed'
    <2> SUFFICES ASSUME NEW x \in Owed, ~After(PositionOf(x), PositionOf(e))
                 PROVE  x \in handled'
      BY <1>1, <1>2, <1>3 DEF NoEventIsPassed, Owed, After
    <2> QED
      BY <1>2, <1>5
  <1>7. PagesHaveNoGap'
    <2> SUFFICES ASSUME NEW h \in Gateway, NEW b \in batch'[h], NEW x \in Owed,
                        After(PositionOf(b), PositionOf(x))
                 PROVE  x \in handled' \cup batch'[h]
      BY <1>1, <1>3 DEF PagesHaveNoGap, Owed, After
    <2>1. b \in batch[h] /\ batch[h] \subseteq handled' \cup batch'[h] \cup handled
      BY <1>2
    <2>2. x \in handled \cup batch[h]
      BY <2>1 DEF CursorInv, PagesHaveNoGap
    <2> QED
      BY <2>1, <2>2, <1>2
  <1>8. Stamped' /\ CursorAtEvent'
    BY <1>1, <1>2, <1>3, <1>4 DEF CursorInv, Stamped, CursorAtEvent
  <1> QED
    BY <1>6, <1>7, <1>8 DEF CursorInv

\* A crash only loses pages.
LEMMA OtherStepsKeepCursor ==
  ASSUME TypeInv, CursorInv, UNCHANGED <<stamp, recorded, late, baseline, handled, cursor>>,
         \A g \in Gateway : batch'[g] = batch[g] \/ batch'[g] = {}
  PROVE  CursorInv'
  <1>1. \A x : PositionOf(x)' = PositionOf(x)
    BY DEF PositionOf
  <1>2. Stamped' /\ CursorAtEvent'
    BY <1>1 DEF CursorInv, Stamped, CursorAtEvent
  <1>3. NoEventIsPassed'
    BY <1>1 DEF CursorInv, NoEventIsPassed, After
  <1>4. PagesHaveNoGap'
    <2> SUFFICES ASSUME NEW h \in Gateway, NEW b \in batch'[h], NEW x \in Owed,
                        After(PositionOf(b), PositionOf(x))
                 PROVE  x \in handled \cup batch'[h]
      BY <1>1 DEF PagesHaveNoGap, Owed, After
    <2> QED
      BY DEF CursorInv, PagesHaveNoGap
  <1> QED
    BY <1>2, <1>3, <1>4 DEF CursorInv

LEMMA CursorNext == TypeInv /\ CursorInv /\ [Next]_vars => CursorInv'
  <1> SUFFICES ASSUME TypeInv, CursorInv, [Next]_vars
               PROVE  CursorInv'
    OBVIOUS
  <1>1. ASSUME \/ UNCHANGED vars
               \/ \E d \in Delivery : ComeDue(d) \/ Age(d) \/ AwaitSource(d) \/ Resume(d) \/ EndRun(d)
               \/ \E w \in Workflow : Activate(w) \/ Override(w)
               \/ \E v \in Version : Decide(v)
        PROVE  CursorInv'
    <2>1. UNCHANGED <<stamp, recorded, late, baseline, handled, cursor, batch>>
      BY <1>1 DEF ComeDue, Age, AwaitSource, Resume, EndRun, Activate, Override, Decide, vars,
         eventVars, matcherVars, turnVars
    <2> QED
      BY <2>1, OtherStepsKeepCursor
  <1>2. ASSUME NEW g \in Gateway,
               \/ ReadDeliveries(g) \/ DispatchDelivery(g) \/ Boot(g) \/ Crash(g)
               \/ \E d \in Delivery : Consider(g, d)
        PROVE  CursorInv'
    <2>1. UNCHANGED <<stamp, recorded, late, baseline, handled, cursor>>
      BY <1>2 DEF ReadDeliveries, DispatchDelivery, Boot, Crash, Consider, eventVars, matcherVars
    <2>2. \A h \in Gateway : batch'[h] = batch[h] \/ batch'[h] = {}
      BY <1>2 DEF ReadDeliveries, DispatchDelivery, Boot, Crash, Consider, turnVars, TypeInv, TypeOK
    <2> QED
      BY <2>1, <2>2, OtherStepsKeepCursor
  <1> QED
    BY <1>1, <1>2, StampKeepsCursor, RecordKeepsCursor, InitializeKeepsCursor, ReadKeepsCursor,
       MatchKeepsCursor DEF Next, GatewayStep

\* The cursor passes an event only with its deliveries, however many gateways
\* move it, crash, or move it back.
THEOREM CursorPassesNothing == Spec => []NoEventIsPassed
  <1>1. Spec => []CursorInv
    BY CursorInit, CursorNext, TypeInit, TypeNext, PTL DEF Spec
  <1> QED
    BY <1>1, PTL DEF CursorInv

(* The limit of concurrent runs *)

LEMMA DeliveriesAreFinite == IsFiniteSet(Delivery)
  <1>1. IsFiniteSet(Version \X Event)
    BY DispatchAssumption, FS_Product
  <1>2. Delivery \subseteq Version \X Event
    BY DEF Delivery
  <1> QED
    BY <1>1, <1>2, FS_Subset

\* A subset of the limited runs keeps the limit.
LEMMA FewerRuns ==
  ASSUME NEW S, NEW T, S \subseteq T, T \subseteq Delivery
  PROVE  /\ IsFiniteSet(S) /\ Cardinality(S) \in Nat /\ Cardinality(T) \in Nat
         /\ Cardinality(S) <= Cardinality(T)
  <1>1. IsFiniteSet(T)
    BY DeliveriesAreFinite, FS_Subset
  <1> QED
    BY <1>1, FS_Subset, FS_CardinalityType

\* The runs that count, and never left their slot.
Steady(w) == RunsOf(w, {"working"}) \ resumed

LEMMA FewerSteadyRuns ==
  ASSUME ConcurrencyIsLimited, NEW w \in Workflow, Steady(w)' \subseteq Steady(w)
  PROVE  Cardinality(Steady(w)') <= MaximumConcurrentRuns
  <1>1. Cardinality(Steady(w)) <= MaximumConcurrentRuns
    BY DEF ConcurrencyIsLimited, Steady
  <1>2. Steady(w) \subseteq Delivery
    BY DEF Steady, RunsOf
  <1> DEFINE S == Steady(w)'
             T == Steady(w)
  <1>3. S \subseteq T
    OBVIOUS
  <1> HIDE DEF S, T
  <1>4. Cardinality(S) <= Cardinality(T) /\ Cardinality(S) \in Nat /\ Cardinality(T) \in Nat
    BY <1>2, <1>3, FewerRuns DEF T
  <1>5. Cardinality(T) <= MaximumConcurrentRuns
    BY <1>1 DEF T
  <1>6. Cardinality(S) <= MaximumConcurrentRuns
    BY <1>4, <1>5, ConstantTypes
  <1> QED
    BY <1>6 DEF S

\* A transaction that begins a run has found a slot free.
LEMMA DispatchKeepsLimit ==
  ASSUME TypeInv, ConcurrencyIsLimited, NEW g \in Gateway, DispatchDelivery(g), NEW w \in Workflow
  PROVE  Cardinality(Steady(w)') <= MaximumConcurrentRuns
  <1> DEFINE d == checked[g]
  <1>1. d \in Delivery /\ resumed' = resumed
    BY DEF DispatchDelivery, TypeInv, TypeOK
  <1>2. CASE Steady(w)' \subseteq Steady(w)
    BY <1>2, FewerSteadyRuns
  <1>3. CASE run' = run
    BY <1>1, <1>2, <1>3 DEF Steady, RunsOf
  <1>4. CASE Capacity(Owner(d)) /\ run' = [run EXCEPT ![d] = "working"]
    <2>1. CASE Owner(d) # w
      BY <2>1, <1>1, <1>2, <1>4 DEF Steady, RunsOf, TypeInv, TypeOK
    <2>2. CASE Owner(d) = w
      <3> DEFINE R == RunsOf(w, {"working"})
      <3>1. R \subseteq Delivery /\ Cardinality(R) < MaximumConcurrentRuns
        BY <2>2, <1>4 DEF Capacity, RunsOf
      <3>2. Steady(w)' \subseteq R \cup {d} /\ R \cup {d} \subseteq Delivery
        BY <3>1, <1>1, <1>4 DEF Steady, RunsOf, TypeInv, TypeOK
      <3>3. IsFiniteSet(R) /\ Cardinality(R) \in Nat
        BY <3>1, FewerRuns
      <3> HIDE DEF R
      <3>4. Cardinality(R \cup {d}) = IF d \in R THEN Cardinality(R) ELSE Cardinality(R) + 1
        BY <3>3, FS_AddElement
      <3>5. Cardinality(R \cup {d}) <= Cardinality(R) + 1
        BY <3>3, <3>4
      <3>6. /\ Cardinality(Steady(w)') <= Cardinality(R \cup {d})
            /\ Cardinality(Steady(w)') \in Nat /\ Cardinality(R \cup {d}) \in Nat
        BY <3>2, FewerRuns
      <3> QED
        BY <3>1, <3>3, <3>5, <3>6, ConstantTypes
    <2> QED
      BY <2>1, <2>2
  <1> QED
    BY <1>3, <1>4 DEF DispatchDelivery

\* No other step adds a run that counts, but one that comes back from its source.
LEMMA OtherStepsKeepLimit ==
  ASSUME TypeInv, [Next]_vars, \A g \in Gateway : ~DispatchDelivery(g), NEW w \in Workflow
  PROVE  Steady(w)' \subseteq Steady(w)
  <1> USE DEF TypeInv, TypeOK
  <1>1. CASE UNCHANGED <<run, resumed>>
    BY <1>1 DEF Steady, RunsOf
  <1>2. ASSUME NEW d \in Delivery, AwaitSource(d) \/ Resume(d) \/ EndRun(d)
        PROVE  Steady(w)' \subseteq Steady(w)
    BY <1>2 DEF AwaitSource, Resume, EndRun, Steady, RunsOf
  <1>3. ASSUME NEW d \in Delivery, ComeDue(d) \/ Age(d)
        PROVE  UNCHANGED <<run, resumed>>
    BY <1>3 DEF ComeDue, Age, runVars
  <1>4. ASSUME NEW g \in Gateway,
               \/ InitializeMatcher(g) \/ ReadEvents(g) \/ MatchEvent(g) \/ ReadDeliveries(g)
               \/ Boot(g) \/ Crash(g) \/ \E d \in Delivery : Consider(g, d)
        PROVE  UNCHANGED <<run, resumed>>
    BY <1>4 DEF InitializeMatcher, ReadEvents, MatchEvent, ReadDeliveries, Boot, Crash, Consider,
       runVars
  <1>5. ASSUME \/ UNCHANGED vars
               \/ \E e \in Event : Stamp(e) \/ Record(e)
               \/ \E x \in Workflow : Activate(x) \/ Override(x)
               \/ \E v \in Version : Decide(v)
        PROVE  UNCHANGED <<run, resumed>>
    BY <1>5 DEF Stamp, Record, Activate, Override, Decide, vars, runVars
  <1> QED
    BY <1>1, <1>2, <1>3, <1>4, <1>5 DEF Next, GatewayStep

\* Above the limit there are only runs that gave up their slot and came back.
THEOREM ConcurrencyLimitHolds == Spec => []ConcurrencyIsLimited
  <1>1. Init => ConcurrencyIsLimited
    <2>1. Init => \A w \in Workflow : Steady(w) = {}
      BY DEF Init, Steady, RunsOf
    <2>2. Cardinality({}) = 0
      BY FS_EmptySet
    <2> QED
      BY <2>1, <2>2, ConstantTypes DEF ConcurrencyIsLimited, Steady
  <1>2. TypeInv /\ ConcurrencyIsLimited /\ [Next]_vars => ConcurrencyIsLimited'
    <2> SUFFICES ASSUME TypeInv, ConcurrencyIsLimited, [Next]_vars, NEW w \in Workflow
                 PROVE  Cardinality(Steady(w)') <= MaximumConcurrentRuns
      BY DEF ConcurrencyIsLimited, Steady
    <2>1. CASE \E g \in Gateway : DispatchDelivery(g)
      BY <2>1, DispatchKeepsLimit
    <2>2. CASE \A g \in Gateway : ~DispatchDelivery(g)
      BY <2>2, OtherStepsKeepLimit, FewerSteadyRuns
    <2> QED
      BY <2>1, <2>2
  <1> QED
    BY <1>1, <1>2, TypeInit, TypeNext, PTL DEF Spec

(* One gateway, one version *)

\* Only matched events have deliveries, and nothing is matched before the start.
DeliveredIsHandled == \A d \in Delivery : delivery[d] # "none" => d[2] \in handled
NothingYet == ~initialized => handled = {} /\ \A g \in Gateway : batch[g] = {}

\* The cursor of a sole gateway only moves forward: what it matched is behind it,
\* and its page is ahead.
HandledIsBehind == \A x \in handled : ~After(PositionOf(x), cursor)
PageIsAhead == \A g \in Gateway : \A x \in batch[g] : After(PositionOf(x), cursor)

DeliveredOnce ==
  \A c, d \in Delivery : c[2] = d[2] /\ delivery[c] # "none" /\ delivery[d] # "none" => c = d

SoleInv == DeliveredIsHandled /\ NothingYet /\ HandledIsBehind /\ PageIsAhead /\ DeliveredOnce

LEMMA SoleInit == Init => SoleInv
  BY DEF Init, SoleInv, DeliveredIsHandled, NothingYet, HandledIsBehind, PageIsAhead, DeliveredOnce

\* Steps that match nothing and move no cursor
LEMMA OtherStepsKeepSole ==
  ASSUME TypeInv, CursorInv, SoleInv, UNCHANGED <<handled, initialized, cursor>>, DeliveryMoves,
         \A d \in Delivery : delivery[d] = "none" => delivery'[d] = "none",
         \A e \in recorded : stamp'[e] = stamp[e],
         \A g \in Gateway : batch'[g] = batch[g] \/ batch'[g] = {}
  PROVE  SoleInv'
  <1>1. \A e \in recorded : PositionOf(e)' = PositionOf(e)
    BY DEF PositionOf
  <1>2. handled \subseteq recorded /\ \A g \in Gateway : batch[g] \subseteq recorded
    BY DEF TypeInv, TypeOK, PagesAreRecorded
  <1>3. DeliveredIsHandled' /\ NothingYet' /\ DeliveredOnce'
    BY DEF SoleInv, DeliveredIsHandled, NothingYet, DeliveredOnce, DeliveryMoves
  <1>4. HandledIsBehind'
    <2> SUFFICES ASSUME NEW x \in handled
                 PROVE  ~After(PositionOf(x)', cursor)
      BY DEF HandledIsBehind, After
    <2> QED
      BY <1>1, <1>2 DEF SoleInv, HandledIsBehind
  <1>5. PageIsAhead'
    <2> SUFFICES ASSUME NEW g \in Gateway, NEW x \in batch'[g]
                 PROVE  After(PositionOf(x)', cursor)
      BY DEF PageIsAhead, After
    <2> QED
      BY <1>1, <1>2 DEF SoleInv, PageIsAhead
  <1> QED
    BY <1>3, <1>4, <1>5 DEF SoleInv

\* An event is matched once, against the version that is active then.
LEMMA MatchKeepsSole ==
  ASSUME TypeInv, SoleInv, NEW g \in Gateway, Gateway = {g}, MatchEvent(g)
  PROVE  SoleInv'
  <1> USE DEF TypeInv, TypeOK
  <1>1. PICK e \in batch[g] :
          /\ Oldest(e, batch[g]) /\ handled' = handled \cup {e} /\ cursor' = PositionOf(e)
          /\ batch' = [batch EXCEPT ![g] = @ \ {e}]
          /\ delivery' = Put(delivery, NewDeliveries(g, e), "pending")
          /\ UNCHANGED <<stamp, recorded, initialized>>
    BY DEF MatchEvent, Advance, eventVars
  <1>2. e \in Event /\ After(PositionOf(e), cursor)
    BY DEF SoleInv, PageIsAhead
  <1>3. e \notin handled /\ initialized
    BY <1>2 DEF SoleInv, HandledIsBehind, NothingYet
  <1>4. \A x : PositionOf(x)' = PositionOf(x)
    BY <1>1 DEF PositionOf
  <1>5. \A d \in Delivery : delivery'[d] # "none" =>
          delivery[d] # "none" \/ d \in NewDeliveries(g, e)
    BY <1>1 DEF Put
  <1>6. \A d \in NewDeliveries(g, e) : d[2] = e /\ d = <<active[Target[e]], e>>
    BY <1>2 DEF NewDeliveries, Matching, Triggers, ActiveVersion
  <1>7. DeliveredIsHandled'
    BY <1>1, <1>5, <1>6 DEF SoleInv, DeliveredIsHandled
  <1>8. DeliveredOnce'
    BY <1>3, <1>5, <1>6 DEF SoleInv, DeliveredIsHandled, DeliveredOnce
  <1>9. HandledIsBehind'
    <2> SUFFICES ASSUME NEW x \in handled \cup {e}
                 PROVE  ~After(PositionOf(x), PositionOf(e))
      BY <1>1, <1>4 DEF HandledIsBehind, After
    <2>1. CASE x = e
      BY <2>1, <1>2, OrderOfEvents
    <2>2. CASE x \in handled
      <3>1. x \in Event /\ ~After(PositionOf(x), cursor)
        BY <2>2 DEF SoleInv, HandledIsBehind
      <3> QED
        BY <3>1, <1>2, PositionType DEF After, Position
    <2> QED
      BY <2>1, <2>2
  <1>10. PageIsAhead'
    BY <1>1, <1>4 DEF PageIsAhead, Oldest, After
  <1> QED
    BY <1>1, <1>3, <1>7, <1>8, <1>9, <1>10 DEF SoleInv, NothingYet

LEMMA SoleNext ==
  ASSUME NEW g \in Gateway, Gateway = {g}, TypeInv, CursorInv, SoleInv, [Next]_vars
  PROVE  SoleInv'
  <1> USE DEF TypeInv, TypeOK
  <1>1. DeliveryMoves
    BY MovesOfDeliveries
  <1>2. CASE MatchEvent(g)
    BY <1>2, MatchKeepsSole
  <1>3. CASE InitializeMatcher(g)
    <2>1. handled' = {} /\ initialized' /\ \A h \in Gateway : batch'[h] = {}
      BY <1>3 DEF InitializeMatcher, SoleInv, NothingYet, turnVars
    <2>2. delivery' = delivery /\ handled = {}
      BY <1>3 DEF InitializeMatcher, SoleInv, NothingYet, deliveryVars
    <2> QED
      BY <2>1, <2>2 DEF SoleInv, DeliveredIsHandled, NothingYet, HandledIsBehind, PageIsAhead,
         DeliveredOnce
  <1>4. CASE ReadEvents(g)
    <2>1. /\ initialized /\ batch' = [batch EXCEPT ![g] = EventsAfter]
          /\ UNCHANGED <<stamp, handled, initialized, cursor, delivery>>
      BY <1>4 DEF ReadEvents, eventVars, matcherVars, deliveryVars
    <2>2. \A x : PositionOf(x)' = PositionOf(x)
      BY <2>1 DEF PositionOf
    <2>3. PageIsAhead'
      BY <2>1, <2>2 DEF PageIsAhead, EventsAfter, NewEvents, After
    <2>4. HandledIsBehind'
      BY <2>1, <2>2 DEF SoleInv, HandledIsBehind, After
    <2> QED
      BY <2>1, <2>3, <2>4 DEF SoleInv, DeliveredIsHandled, NothingYet, DeliveredOnce
  <1>5. ASSUME NEW h \in Gateway, NEW d \in Delivery, Consider(h, d)
        PROVE  SoleInv'
    <2>1. \/ UNCHANGED delivery
          \/ \E state \in {"pending", "cancelled", "dead_letter"} : Mark(d, state)
      BY <1>5 DEF Consider, DeferDelivery
    <2>2. \A x \in Delivery : delivery[x] = "none" => delivery'[x] = "none"
      BY <2>1, MarkStep DEF Pending
    <2> QED
      BY <1>1, <1>5, <2>2, OtherStepsKeepSole DEF Consider, eventVars, matcherVars
  <1>6. ASSUME NEW h \in Gateway, DispatchDelivery(h)
        PROVE  SoleInv'
    <2>1. checked[h] \in Delivery
      BY <1>6 DEF DispatchDelivery
    <2>2. \A x \in Delivery : delivery[x] = "none" => delivery'[x] = "none"
      BY <1>6, <2>1 DEF DispatchDelivery, Dispatchable, Pending
    <2> QED
      BY <1>1, <1>6, <2>2, OtherStepsKeepSole DEF DispatchDelivery, eventVars, matcherVars
  <1>7. ASSUME NEW e \in Event, Stamp(e) \/ Record(e)
        PROVE  SoleInv'
    <2>1. \A x \in recorded : stamp'[x] = stamp[x]
      BY <1>7 DEF Stamp, Record, CursorInv, Stamped
    <2>2. UNCHANGED <<handled, initialized, cursor, delivery, batch>>
      BY <1>7 DEF Stamp, Record, matcherVars, deliveryVars, turnVars
    <2> QED
      BY <1>1, <2>1, <2>2, OtherStepsKeepSole
  <1>8. ASSUME NEW h \in Gateway, ReadDeliveries(h) \/ Boot(h) \/ Crash(h)
        PROVE  SoleInv'
    <2>1. UNCHANGED <<stamp, handled, initialized, cursor, delivery>>
      BY <1>8 DEF ReadDeliveries, Boot, Crash, eventVars, matcherVars, deliveryVars
    <2>2. \A x \in Gateway : batch'[x] = batch[x] \/ batch'[x] = {}
      BY <1>8 DEF ReadDeliveries, Boot, Crash, turnVars
    <2> QED
      BY <1>1, <2>1, <2>2, OtherStepsKeepSole
  <1>9. ASSUME \/ UNCHANGED vars
               \/ \E d \in Delivery : ComeDue(d) \/ Age(d) \/ AwaitSource(d) \/ Resume(d) \/ EndRun(d)
               \/ \E w \in Workflow : Activate(w) \/ Override(w)
               \/ \E v \in Version : Decide(v)
        PROVE  SoleInv'
    <2>1. UNCHANGED <<stamp, handled, initialized, cursor, delivery, batch>>
      BY <1>9 DEF ComeDue, Age, AwaitSource, Resume, EndRun, Activate, Override, Decide, vars,
         eventVars, matcherVars, deliveryVars, turnVars
    <2> QED
      BY <1>1, <2>1, OtherStepsKeepSole
  <1> QED
    BY <1>2, <1>3, <1>4, <1>5, <1>6, <1>7, <1>8, <1>9 DEF Next, GatewayStep

\* One gateway delivers an event to one version, through crashes and activations.
THEOREM DeliveredToOneVersion == Spec => []OneVersionPerEvent
  <1>1. CASE Cardinality(Gateway) = 1
    <2>1. PICK g : Gateway = {g}
      BY <1>1, DispatchAssumption, FS_Singleton
    <2>2. TypeInv /\ CursorInv /\ SoleInv /\ [Next]_vars => SoleInv'
      BY <2>1, SoleNext
    <2>3. SoleInv => OneVersionPerEvent
      BY DEF SoleInv, DeliveredOnce, OneVersionPerEvent
    <2> QED
      BY <2>2, <2>3, SoleInit, CursorInit, CursorNext, TypeInit, TypeNext, PTL DEF Spec
  <1>2. CASE Cardinality(Gateway) # 1
    <2>1. OneVersionPerEvent
      BY <1>2 DEF OneVersionPerEvent
    <2> QED
      BY <2>1, PTL
  <1> QED
    BY <1>1, <1>2
=============================================================================
