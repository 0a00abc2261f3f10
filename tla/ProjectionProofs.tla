--------------------------- MODULE ProjectionProofs ---------------------------
(* Proofs about the run projection, for every number of chunks, moves and failures: what holds *)
(* whether calls fail or not.  OutputProofs goes on with runs of which none failed.            *)
EXTENDS RunProjection, SequenceTheorems, TLAPS

-----------------------------------------------------------------------------
(* The base invariant of RunProjection *)

\* The states of a row.
RowState == {"none", "open", "complete", "failed", "deleted"}

\* The steps of a write of each kind, and where it goes on after each.
StepsOK(job) ==
  /\ job.kind = "flush" => job.at \in {"edit", "end"} /\ job.then = "end"
  /\ job.kind = "create" => job.at \in {"create", "end"} /\ job.then = "end"
  /\ job.kind = "move" =>
       /\ job.at \in {"previous", "edit", "emit", "delete", "unreact", "fork", "create", "react",
                      "end"}
       /\ job.then = CASE job.at = "edit" -> "emit" [] job.at = "delete" -> "unreact"
                       [] job.at = "create" -> "react" [] OTHER -> "end"
  /\ job.kind = "fail" =>
       /\ job.at \in {"unreact", "words", "edit", "notice", "post", "failed", "end"}
       /\ job.at = "edit" => job.then \in {"notice", "failed"}
       /\ job.at = "post" => job.then = "failed"
       /\ job.at \notin {"edit", "post"} => job.then = "end"
  /\ job.kind = "finish" /\ job.result = "silent" =>
       /\ job.at \in {"unreact", "conclude", "remove", "delete", "silence", "spare", "edit", "keep",
                      "over", "end"}
       /\ job.at = "delete" => job.then \in {"remove", "spare"}
       /\ job.at = "silence" => job.then = "spare"
       /\ job.at = "edit" => job.then = "keep"
       /\ job.at \notin {"delete", "silence", "edit"} => job.then = "end"
  /\ job.kind = "finish" /\ job.result # "silent" =>
       /\ job.at \in {"unreact", "conclude", "delete", "complete", "rewrite", "edit", "end"}
       /\ job.then = CASE job.at = "delete" -> "complete" [] job.at = "edit" -> "rewrite"
                       [] OTHER -> "end"

\* A write that has not begun is at the first step of its kind.
First(kind) == CASE kind = "flush" -> "edit" [] kind = "create" -> "create"
                 [] kind = "move" -> "previous" [] OTHER -> "unreact"
Fresh(job) == job.at = First(job.kind) /\ job.then = "end" /\ job.call.op = "none"

\* The call of a write is that of its step.
CallsFit(job) ==
  /\ job.at = "edit" => job.call.op \in {"none", "edit", "create", "recall"}
  /\ job.at \in {"create", "unreact", "react", "delete", "silence", "post"} =>
       job.call.op \in {"none", job.at}
  /\ job.at \notin {"edit", "create", "unreact", "react", "delete", "silence", "post"} =>
       job.call.op = "none"

\* A write is at a step of its own, at a cycle that is there, and only the first has begun.
WriteOK(job, n, shut, streaming) ==
  /\ StepsOK(job) /\ CallsFit(job)
  /\ job.at \in {"edit", "create", "delete", "emit"} => job.c \in 1..n
  /\ job.at = "post" => job.c = n + 1 /\ shut
  /\ job.kind \in {"flush", "create"} => streaming
WritesOK ==
  /\ \A j \in 1..Len(writes) : WriteOK(writes[j], active, closed, options.streaming)
  /\ \A j \in 2..Len(writes) : Fresh(writes[j])
  /\ timer # 0 => options.streaming

\* A call is about the message of its cycle, and shows no version the cycle has not had.
CallFits(job, cs, ch) ==
  LET cycle == cs[job.c] IN
  /\ job.at = "delete" => cycle.msg # 0 /\ ~cycle.deleted
  /\ job.call.op \in {"edit", "create", "recall"} => ~cycle.deleted
  /\ job.call.op \in {"edit", "recall", "delete"} => job.call.msg = cycle.msg /\ cycle.msg # 0
  /\ job.call.op = "edit" => ch[cycle.msg].ver <= job.call.ver
  /\ job.call.op \in {"edit", "create"} => job.call.ver <= cycle.ver
  /\ job.call.op = "create" => cycle.msg = 0
  /\ job.call.op = "silence" => job.call.msg \in 1..Len(ch)
  /\ job.call.op = "recall" => cycle.state = "text"
  /\ job.call.op = "post" => job.call.ver <= 1
CallOK == writes # <<>> => CallFits(writes[1], cycles, chat)

\* A message shows the cycle that has it, at most up to date.
LinkOK == \A c \in 1..active : cycles[c].msg # 0 =>
  chat[cycles[c].msg].cycle = c /\ chat[cycles[c].msg].ver <= cycles[c].ver

\* A run is ended by one write, the last unless a move came late.
Closing(job) == job.kind \in {"finish", "fail"}
EndOK ==
  /\ closed = (outcome # "running") /\ (closed => timer = 0)
  /\ \A j \in 1..Len(writes) : Closing(writes[j]) => outcome = "ending"
  /\ \A i, j \in 1..Len(writes) : Closing(writes[i]) /\ Closing(writes[j]) => i = j
  /\ ~late => \A j \in 1..Len(writes) : Closing(writes[j]) => j = Len(writes)
  /\ ~late /\ outcome \notin {"running", "ending"} => writes = <<>>

\* What the cycle of the write under way is.
Answering(job) == job.kind = "finish" /\ job.result # "silent"
Place(job, cs) ==
  /\ job.at = "edit" /\ job.then \in {"emit", "rewrite", "notice"} => cs[job.c].state = "text"
  /\ job.at = "edit" /\ job.kind \in {"fail", "finish"} =>
       job.c = Len(cs) \/ cs[job.c].state = "text"
  /\ job.at = "edit" /\ job.kind = "fail" => job.c = Len(cs)
  /\ job.kind = "move" /\ job.at = "create" => cs[job.c].state = "text" \/ job.c = Len(cs)
  /\ job.at = "delete" /\ job.then = "complete" => job.c = Len(cs) /\ cs[job.c].state # "text"
  /\ job.at = "emit" => cs[job.c].state = "text"
  /\ job.kind = "finish" /\ (job.at = "keep" \/ (job.at = "edit" /\ job.then = "keep")) =>
       job.c = Len(cs)
  /\ Answering(job) /\ job.at \in {"complete", "rewrite", "edit", "end"} =>
       cs[Len(cs)].state = "text" \/ cs[Len(cs)].deleted
PlaceOK == writes # <<>> => Place(writes[1], cycles)

\* The answer is written out: the texts up to the one at hand are shown in their last version.
Speaks(cycle) == cycle.state = "text" /\ ~cycle.deleted
Shown(cs, ch, c) ==
  /\ cs[c].msg # 0 /\ ch[cs[c].msg].cycle = c /\ ch[cs[c].msg].ver = cs[c].ver
  /\ ch[cs[c].msg].as = "own"
Told(job, cs, ch) == Answering(job) =>
  /\ job.at = "rewrite" => \A c \in 1..Len(cs) : Speaks(cs[c]) /\ c <= job.c => Shown(cs, ch, c)
  /\ job.at = "edit" => \A c \in 1..Len(cs) : Speaks(cs[c]) /\ c < job.c => Shown(cs, ch, c)
  /\ job.at = "end" => \A c \in 1..Len(cs) : Speaks(cs[c]) => Shown(cs, ch, c)
  /\ job.call.op \in {"edit", "create"} => job.call.ver = cs[job.c].ver
ShownOK ==
  /\ outcome = "done" /\ ~late =>
       \A c \in 1..Len(cycles) : Speaks(cycles[c]) => Shown(cycles, chat, c)
  /\ writes # <<>> => Told(writes[1], cycles, chat)

\* The silent text is only shown by a run that ends in silence.
SilentOK == \A m \in 1..Len(chat) : chat[m].as = "silent" =>
  /\ outcome \notin {"running", "done"}
  /\ \A j \in 1..Len(writes) : ~Answering(writes[j])

\* The base invariant: what holds whether calls fail or not.
BaseInv ==
  ProjTypeOK /\ WritesOK /\ CallOK /\ LinkOK /\ EndOK /\ PlaceOK /\ ShownOK /\ SilentOK

-----------------------------------------------------------------------------
(* Sequences and rows *)

\* A function on 1..n is a sequence of length n.
LEMMA FunIsSeq ==
  ASSUME NEW S, NEW n \in Nat, NEW f \in [1..n -> S]
  PROVE  f \in Seq(S) /\ Len(f) = n
  OBVIOUS

\* Without its first element a sequence is one shorter and the rest moves up.
LEMMA FirstRemoved ==
  ASSUME NEW S, NEW s \in Seq(S), s # <<>>
  PROVE  /\ RemoveAt(s, 1) \in Seq(S) /\ Len(RemoveAt(s, 1)) = Len(s) - 1
         /\ \A i \in 1..Len(s) - 1 : RemoveAt(s, 1)[i] = s[i + 1]
<1> DEFINE before == SubSeq(s, 1, 1 - 1)
           after  == SubSeq(s, 1 + 1, Len(s))
<1>1. Len(s) \in Nat /\ Len(s) > 0
  <2>1. Len(s) \in Nat \ {0} BY EmptySeq
  <2>2. ASSUME NEW n \in Nat \ {0} PROVE n \in Nat /\ n > 0 OBVIOUS
  <2> QED BY <2>1, <2>2
<1>2. \A i \in 1..Len(s) : s[i] \in S BY ElementOfSeq
<1>3. before \in Seq(S) /\ Len(before) = 0
  <2>1. \A i \in 1..1 - 1 : s[i] \in S BY <1>2, <1>1
  <2> QED BY <2>1, SubSeqProperties
<1>4. /\ after \in Seq(S) /\ Len(after) = Len(s) - 1
      /\ \A i \in 1..Len(s) - 1 : after[i] = s[i + 1]
  <2>1. \A i \in 1 + 1..Len(s) : s[i] \in S BY <1>2
  <2>2. /\ after \in Seq(S)
        /\ Len(after) = IF 1 + 1 <= Len(s) THEN Len(s) - (1 + 1) + 1 ELSE 0
        /\ \A i \in 1..Len(s) - (1 + 1) + 1 : after[i] = s[1 + 1 + i - 1]
    BY <2>1, <1>1, SubSeqProperties
  <2> HIDE DEF after
  <2>3. ASSUME NEW i \in 1..Len(s) - 1 PROVE after[i] = s[i + 1]
    <3>1. i \in 1..Len(s) - (1 + 1) + 1 /\ 1 + 1 + i - 1 = i + 1 BY <1>1
    <3> QED BY <2>2, <3>1
  <2>4. Len(s) = 1 => Len(after) = Len(s) - 1 BY <2>2
  <2>5. ASSUME Len(s) > 1 PROVE Len(after) = Len(s) - 1
    <3>1. 1 + 1 <= Len(s) /\ Len(s) - (1 + 1) + 1 = Len(s) - 1 BY <2>5, <1>1
    <3> QED BY <2>2, <3>1
  <2>6. Len(after) = Len(s) - 1
    <3>1. \A n \in Nat : n > 0 => n = 1 \/ n > 1 OBVIOUS
    <3>2. Len(s) = 1 \/ Len(s) > 1 BY <1>1, <3>1, Zenon
    <3> QED BY <2>4, <2>5, <3>2
  <2> QED BY <2>2, <2>3, <2>6
<1> HIDE DEF before, after
<1>5. /\ before \o after \in Seq(S) /\ Len(before \o after) = Len(before) + Len(after)
      /\ \A i \in 1..Len(before) + Len(after) :
           (before \o after)[i] = IF i <= Len(before) THEN before[i] ELSE after[i - Len(before)]
  BY <1>3, <1>4, ConcatProperties
<1>6. RemoveAt(s, 1) = before \o after BY DEF RemoveAt, before, after
<1>7. Len(before) + Len(after) = Len(s) - 1 BY <1>1, <1>3, <1>4
<1>8. ASSUME NEW i \in 1..Len(s) - 1 PROVE (before \o after)[i] = s[i + 1]
  <2>1. i - Len(before) = i /\ ~(i <= Len(before)) BY <1>3
  <2> QED BY <1>4, <1>5, <1>7, <2>1
<1> QED BY <1>5, <1>6, <1>7, <1>8

\* What persistProjectionCycle does to the open rows.
LEMMA PersistedRows ==
  ASSUME NEW rs \in Seq(RowState), NEW c \in 1..Len(rs), NEW state \in RowState \ {"none"},
         \A d, e \in 1..Len(rs) : rs[d] = "open" /\ rs[e] = "open" => d = e
  PROVE  /\ Persisted(rs, c, state) \in Seq(RowState) /\ Len(Persisted(rs, c, state)) = Len(rs)
         /\ \A d \in 1..Len(rs) \ {c} : Persisted(rs, c, state)[d] = "open" => rs[d] = "open"
         /\ Persisted(rs, c, state)[c] = "open" => state = "open"
         /\ \A d, e \in 1..Len(rs) :
              Persisted(rs, c, state)[d] = "open" /\ Persisted(rs, c, state)[e] = "open" => d = e
<1> DEFINE others == {d \in 1..Len(rs) \ {c} : rs[d] = "open"}
<1>1. Len(rs) \in Nat /\ \A d \in 1..Len(rs) : rs[d] \in RowState BY LenProperties, ElementOfSeq
<1>2. CASE rs[c] = "none" /\ state = "deleted" BY <1>2 DEF Persisted
<1>3. CASE rs[c] = "none" /\ state # "deleted"
  <2> DEFINE new == [d \in 1..Len(rs) |->
                       IF d = c THEN state ELSE IF d \in others THEN "failed" ELSE rs[d]]
  <2>1. Persisted(rs, c, state) = new BY <1>3 DEF Persisted
  <2>2. \A d \in 1..Len(rs) : new[d] \in RowState BY <1>1 DEF RowState
  <2>3. new \in Seq(RowState) /\ Len(new) = Len(rs)
    <3>1. new \in [1..Len(rs) -> RowState] BY <2>2
    <3> HIDE DEF new
    <3> QED BY <3>1, <1>1, FunIsSeq
  <2>4. \A d \in 1..Len(rs) \ {c} : new[d] # "open" BY DEF RowState
  <2>5. new[c] = state OBVIOUS
  <2> HIDE DEF new
  <2> QED BY <2>1, <2>3, <2>4, <2>5
<1>4. CASE rs[c] # "none" /\ (state = "open" \/ rs[c] = "open") /\ others = {}
  <2>1. Persisted(rs, c, state) = [rs EXCEPT ![c] = state] BY <1>4 DEF Persisted
  <2>2. /\ [rs EXCEPT ![c] = state] \in Seq(RowState) /\ Len([rs EXCEPT ![c] = state]) = Len(rs)
        /\ \A d \in 1..Len(rs) : [rs EXCEPT ![c] = state][d] = IF d = c THEN state ELSE rs[d]
    BY ExceptSeq
  <2>3. \A d \in 1..Len(rs) \ {c} : rs[d] # "open" BY <1>4
  <2> QED BY <2>1, <2>2, <2>3
<1>5. CASE rs[c] # "none" /\ (state = "open" \/ rs[c] = "open") /\ others # {}
  <2>1. Persisted(rs, c, state) = rs BY <1>5 DEF Persisted
  <2>2. PICK d \in 1..Len(rs) \ {c} : rs[d] = "open" BY <1>5
  <2>3. rs[c] # "open" BY <2>2
  <2> QED BY <2>1, <2>3
<1>6. CASE rs[c] # "none" /\ ~(state = "open" \/ rs[c] = "open")
  <2>1. Persisted(rs, c, state) = rs BY <1>6 DEF Persisted
  <2> QED BY <2>1, <1>6
<1> QED BY <1>2, <1>3, <1>4, <1>5, <1>6


\* The rows of an emission: none is opened but that of a cycle which goes on.
Live(cycle) == ~cycle.completed /\ ~cycle.failed /\ ~cycle.deleted
\* At most one row is open.
OpenOnce(rs) == \A d, e \in 1..Len(rs) : rs[d] = "open" /\ rs[e] = "open" => d = e

\* Reporting a cycle touches no other row but to close it, and leaves at most one row open.
LEMMA EmittedRows ==
  ASSUME NEW rs \in Seq(RowState), NEW cs \in Seq(OutputCycle), NEW c \in 1..Len(rs),
         Len(cs) = Len(rs), OpenOnce(rs)
  PROVE  /\ Emitted(rs, cs, c) \in Seq(RowState) /\ Len(Emitted(rs, cs, c)) = Len(rs)
         /\ OpenOnce(Emitted(rs, cs, c))
         /\ \A d \in 1..Len(rs) \ {c} : Emitted(rs, cs, c)[d] = "open" => rs[d] = "open"
         /\ Emitted(rs, cs, c)[c] = "open" =>
              IF cs[c].msg = 0 THEN rs[c] = "open" ELSE Live(cs[c])
<1>1. CASE cs[c].msg = 0 BY <1>1 DEF Emitted
<1>2. CASE cs[c].msg # 0
  <2>1. Snapshot(cs[c]) \in RowState \ {"none"} BY DEF Snapshot, RowState
  <2>2. Snapshot(cs[c]) = "open" => Live(cs[c]) BY DEF Snapshot, Live
  <2>3. Emitted(rs, cs, c) = Persisted(rs, c, Snapshot(cs[c])) BY <1>2 DEF Emitted
  <2>4. \A d, e \in 1..Len(rs) : rs[d] = "open" /\ rs[e] = "open" => d = e BY DEF OpenOnce
  <2> DEFINE state == Snapshot(cs[c])
  <2> HIDE DEF state
  <2>5. /\ Persisted(rs, c, state) \in Seq(RowState) /\ Len(Persisted(rs, c, state)) = Len(rs)
        /\ \A d \in 1..Len(rs) \ {c} : Persisted(rs, c, state)[d] = "open" => rs[d] = "open"
        /\ Persisted(rs, c, state)[c] = "open" => state = "open"
        /\ \A d, e \in 1..Len(rs) :
             Persisted(rs, c, state)[d] = "open" /\ Persisted(rs, c, state)[e] = "open" => d = e
    BY <2>1, <2>4, PersistedRows DEF state
  <2>6. OpenOnce(Persisted(rs, c, state)) BY <2>5, Zenon DEF OpenOnce
  <2> QED BY <1>2, <2>2, <2>3, <2>5, <2>6, Zenon DEF state
<1> QED BY <1>1, <1>2

-----------------------------------------------------------------------------
(* Types *)

\* The fields of a cycle.
LEMMA CycleTypes ==
  ASSUME NEW x \in OutputCycle
  PROVE  /\ x.state \in {"transient", "thinking", "text"} /\ x.part \in Nat /\ x.text \subseteq Nat
         /\ x.ver \in Nat /\ x.msg \in Nat /\ x.reply \in BOOLEAN /\ x.completed \in BOOLEAN
         /\ x.deleted \in BOOLEAN /\ x.failed \in BOOLEAN
BY DEF OutputCycle

\* The fields of a queued write.
LEMMA WriteTypes ==
  ASSUME NEW job \in QueuedWrite
  PROVE  /\ job.kind \in {"flush", "create", "move", "finish", "fail"}
         /\ job.result \in {"all", "last", "none", "silent"}
         /\ job.trigger \in Nat /\ job.at \in WriteStep /\ job.c \in Nat /\ job.then \in WriteStep
         /\ job.call \in [op : NetworkCall, ver : Nat, msg : Nat]
         /\ job.call.op \in NetworkCall /\ job.call.ver \in Nat /\ job.call.msg \in Nat
BY DEF QueuedWrite

\* The types, point by point.
Shapes ==
  /\ Len(cycles) \in Nat /\ 1 <= Len(cycles) /\ Len(rows) = Len(cycles)
  /\ \A c \in 1..Len(cycles) : cycles[c] \in OutputCycle
  /\ \A c \in 1..Len(cycles) : cycles[c].msg \in 0..Len(chat) /\ cycles[c].ver \in Nat
                               /\ cycles[c].state \in {"transient", "thinking", "text"}
  /\ Len(writes) \in Nat /\ (writes # <<>> => 1 <= Len(writes))
       /\ (writes = <<>> => Len(writes) = 0)
  /\ \A j \in 1..Len(writes) : writes[j] \in QueuedWrite
  /\ Len(chat) \in Nat /\ response \in 1..Len(chat)
  /\ \A m \in 1..Len(chat) : chat[m] \in Message

\* What the type invariant says of the sequences, as facts arithmetic can use.
LEMMA ProjShapes ==
  ASSUME ProjTypeOK
  PROVE  Shapes
<1>1. /\ cycles \in Seq(OutputCycle) /\ writes \in Seq(QueuedWrite) /\ chat \in Seq(Message)
      /\ cycles # <<>> /\ Len(rows) = Len(cycles)
  BY DEF ProjTypeOK, active
<1>2. Len(cycles) \in Nat /\ Len(writes) \in Nat /\ Len(chat) \in Nat BY <1>1, LenProperties
<1>3. \A n \in Nat : n # 0 => 1 <= n OBVIOUS
<1>4. 1 <= Len(cycles)
  <2>1. Len(cycles) # 0 BY <1>1, EmptySeq
  <2> QED BY <2>1, <1>2, <1>3, Zenon
<1>5. writes # <<>> => 1 <= Len(writes)
  <2>1. writes # <<>> => Len(writes) # 0 BY <1>1, EmptySeq
  <2> QED BY <2>1, <1>2, <1>3, Zenon
<1>6. writes = <<>> => Len(writes) = 0 BY EmptySeq
<1>7. \A c \in 1..Len(cycles) : cycles[c] \in OutputCycle BY <1>1, ElementOfSeq
<1>8. \A j \in 1..Len(writes) : writes[j] \in QueuedWrite BY <1>1, ElementOfSeq
<1>9. \A m \in 1..Len(chat) : chat[m] \in Message BY <1>1, ElementOfSeq
<1>10. ASSUME NEW c \in 1..Len(cycles)
       PROVE  cycles[c].msg \in 0..Len(chat) /\ cycles[c].ver \in Nat
              /\ cycles[c].state \in {"transient", "thinking", "text"}
  <2>1. cycles[c].msg \in Nat /\ cycles[c].ver \in Nat
        /\ cycles[c].state \in {"transient", "thinking", "text"}
    BY <1>7, CycleTypes
  <2>2. cycles[c].msg <= Len(chat) BY DEF ProjTypeOK, active
  <2> QED BY <2>1, <2>2, <1>2
<1>11. response \in 1..Len(chat) BY DEF ProjTypeOK
<1> QED BY <1>1, <1>2, <1>4, <1>5, <1>6, <1>7, <1>8, <1>9, <1>10, <1>11 DEF Shapes

-----------------------------------------------------------------------------
(* The chain of writes *)

\* What a step leaves of every write: its kind, result and trigger; only the first moves.
SameChain ==
  /\ writes' \in Seq(QueuedWrite) /\ Len(writes') = Len(writes) /\ 1 <= Len(writes)
  /\ writes' # <<>> /\ writes # <<>>
  /\ \A j \in 2..Len(writes) : writes'[j] = writes[j]
  /\ writes'[1].kind = writes[1].kind /\ writes'[1].result = writes[1].result
  /\ writes'[1].trigger = writes[1].trigger
\* Where the first write is after a step.
Stands(at, c, then) == writes'[1].at = at /\ writes'[1].c = c /\ writes'[1].then = then

\* The first write changes where it is, and nothing else of the chain does.
LEMMA ExceptChain ==
  ASSUME ProjTypeOK, writes # <<>>, NEW job \in QueuedWrite, job.kind = writes[1].kind,
         job.result = writes[1].result, job.trigger = writes[1].trigger,
         writes' = [writes EXCEPT ![1] = job]
  PROVE  SameChain /\ writes'[1] = job
<1>1. writes \in Seq(QueuedWrite) BY DEF ProjTypeOK
<1>2. 1 <= Len(writes) /\ Len(writes) \in Nat BY ProjShapes DEF Shapes
<1>3. 1 \in 1..Len(writes) BY <1>2
<1>4. /\ writes' \in Seq(QueuedWrite) /\ Len(writes') = Len(writes)
      /\ \A j \in 1..Len(writes) : writes'[j] = IF j = 1 THEN job ELSE writes[j]
  BY <1>1, <1>3, ExceptSeq
<1>5. writes' # <<>>
  <2>1. Len(<<>>) = 0 BY EmptySeq
  <2>2. Len(writes') # 0 BY <1>2, <1>4
  <2> QED BY <2>1, <2>2
<1>6. writes'[1] = job BY <1>3, <1>4
<1>7. \A j \in 2..Len(writes) : writes'[j] = writes[j]
  <2>1. \A j \in 2..Len(writes) : j \in 1..Len(writes) /\ j # 1 BY <1>2
  <2> QED BY <2>1, <1>4
<1> QED BY <1>2, <1>4, <1>5, <1>6, <1>7 DEF SameChain

\* Go moves the first write on and leaves its call alone.
LEMMA GoChain ==
  ASSUME ProjTypeOK, NEW j \in 1..Len(writes), Turn(j), NEW at \in WriteStep, NEW c \in Nat,
         NEW then \in WriteStep, Go(j, at, c, then)
  PROVE  SameChain /\ Stands(at, c, then) /\ writes'[1].call = writes[1].call
<1> DEFINE job == [writes[1] EXCEPT !.at = at, !.c = c, !.then = then]
<1>1. Shapes BY ProjShapes
<1>2. j = 1 BY DEF Turn
<1>3. writes[1] \in QueuedWrite /\ writes # <<>>
  <2>1. Len(writes) = 0 \/ writes # <<>> BY <1>1 DEF Shapes
  <2> QED BY <1>1, <1>2, <2>1 DEF Shapes
<1>4. /\ job \in QueuedWrite /\ job.kind = writes[1].kind /\ job.result = writes[1].result
      /\ job.trigger = writes[1].trigger /\ job.at = at /\ job.c = c /\ job.then = then
      /\ job.call = writes[1].call
  BY <1>3 DEF QueuedWrite
<1>5. writes' = [writes EXCEPT ![1] = job] BY <1>2 DEF Go
<1> HIDE DEF job
<1>6. SameChain /\ writes'[1] = job BY <1>3, <1>4, <1>5, ExceptChain
<1> QED BY <1>4, <1>6 DEF Stands

\* Calling sets the call of the first write and leaves it where it is.
LEMMA CallChain ==
  ASSUME ProjTypeOK, NEW j \in 1..Len(writes), Turn(j), NEW op \in NetworkCall, NEW ver \in Nat,
         NEW msg \in Nat, Calling(j, op, ver, msg)
  PROVE  /\ SameChain /\ Stands(writes[1].at, writes[1].c, writes[1].then)
         /\ writes'[1].call = [op |-> op, ver |-> ver, msg |-> msg]
<1> DEFINE job == [writes[1] EXCEPT !.call = [op |-> op, ver |-> ver, msg |-> msg]]
<1>1. Shapes BY ProjShapes
<1>2. j = 1 BY DEF Turn
<1>3. writes[1] \in QueuedWrite /\ writes # <<>>
  <2>1. Len(writes) = 0 \/ writes # <<>> BY <1>1 DEF Shapes
  <2> QED BY <1>1, <1>2, <2>1 DEF Shapes
<1>4. /\ job \in QueuedWrite /\ job.kind = writes[1].kind /\ job.result = writes[1].result
      /\ job.trigger = writes[1].trigger /\ job.at = writes[1].at /\ job.c = writes[1].c
      /\ job.then = writes[1].then /\ job.call = [op |-> op, ver |-> ver, msg |-> msg]
  BY <1>3 DEF QueuedWrite
<1>5. writes' = [writes EXCEPT ![1] = job] BY <1>2 DEF Calling
<1> HIDE DEF job
<1>6. SameChain /\ writes'[1] = job BY <1>3, <1>4, <1>5, ExceptChain
<1> QED BY <1>4, <1>6 DEF Stands

\* Through sends the first write to what follows, without a call.
LEMMA ThroughChain ==
  ASSUME ProjTypeOK, NEW j \in 1..Len(writes), Turn(j), Through(j)
  PROVE  /\ SameChain /\ Stands(Following(writes[1]), writes[1].c, "end")
         /\ writes'[1].call = NoCall
<1> DEFINE job == GoneOn(writes[1])
<1>1. Shapes BY ProjShapes
<1>2. j = 1 BY DEF Turn
<1>3. writes[1] \in QueuedWrite /\ writes # <<>>
  <2>1. Len(writes) = 0 \/ writes # <<>> BY <1>1 DEF Shapes
  <2> QED BY <1>1, <1>2, <2>1 DEF Shapes
<1>4. Following(writes[1]) \in WriteStep BY <1>3, WriteTypes DEF Following, WriteStep
<1>5. NoCall \in [op : NetworkCall, ver : Nat, msg : Nat] BY DEF NoCall, NetworkCall
<1>6. /\ job \in QueuedWrite /\ job.kind = writes[1].kind /\ job.result = writes[1].result
      /\ job.trigger = writes[1].trigger /\ job.at = Following(writes[1]) /\ job.c = writes[1].c
      /\ job.then = "end" /\ job.call = NoCall
  <2> DEFINE old == writes[1]
             at == Following(writes[1])
             call == NoCall
  <2>1. "end" \in WriteStep BY DEF WriteStep
  <2>2. job = [old EXCEPT !.at = at, !.then = "end", !.call = call] BY DEF GoneOn
  <2>3. old \in QueuedWrite /\ at \in WriteStep /\ call \in [op : NetworkCall, ver : Nat, msg : Nat]
    BY <1>3, <1>4, <1>5
  <2> HIDE DEF old, at, call, job
  <2>4. /\ job \in QueuedWrite /\ job.kind = old.kind /\ job.result = old.result
        /\ job.trigger = old.trigger /\ job.at = at /\ job.c = old.c
        /\ job.then = "end" /\ job.call = call
    BY <2>1, <2>2, <2>3 DEF QueuedWrite
  <2> QED BY <2>4 DEF old, at, call
<1>7. writes' = [writes EXCEPT ![1] = job] BY <1>2 DEF Through
<1> HIDE DEF job
<1>8. SameChain /\ writes'[1] = job BY <1>3, <1>6, <1>7, ExceptChain
<1> QED BY <1>6, <1>8 DEF Stands


\* Appending leaves what was there and puts the new element last.
LEMMA AppendChain ==
  ASSUME NEW S, NEW s \in Seq(S), NEW x \in S
  PROVE  /\ Append(s, x) \in Seq(S) /\ Len(Append(s, x)) = Len(s) + 1 /\ Append(s, x) # <<>>
         /\ \A i \in 1..Len(s) : Append(s, x)[i] = s[i]
         /\ Append(s, x)[Len(s) + 1] = x
<1>1. Len(s) \in Nat BY LenProperties
<1>2. /\ Append(s, x) \in Seq(S) /\ Len(Append(s, x)) = Len(s) + 1
      /\ \A i \in 1..Len(s) : Append(s, x)[i] = s[i]
      /\ Append(s, x)[Len(s) + 1] = x
  BY AppendProperties
<1>3. Append(s, x) # <<>>
  <2>1. Len(<<>>) = 0 BY EmptySeq
  <2>2. \A n \in Nat : n + 1 # 0 OBVIOUS
  <2> QED BY <2>1, <2>2, <1>1, <1>2, Zenon
<1> QED BY <1>2, <1>3

\* A write that has not begun is at a step of its own.
LEMMA FreshFits ==
  ASSUME NEW job, Fresh(job), job.kind \in {"flush", "create", "move", "finish", "fail"}
  PROVE  StepsOK(job) /\ CallsFit(job)
<1>1. /\ job.kind = "flush" => job.at = "edit"
      /\ job.kind = "create" => job.at = "create"
      /\ job.kind = "move" => job.at = "previous"
      /\ job.kind \in {"finish", "fail"} => job.at = "unreact"
      /\ job.then = "end" /\ job.call.op = "none"
  BY DEF Fresh, First
<1> QED BY <1>1 DEF StepsOK, CallsFit

\* A write that is queued has not begun.
LEMMA JobFresh ==
  ASSUME NEW kind \in {"flush", "create", "move", "finish", "fail"}, NEW c \in Nat
  PROVE  /\ Job(kind, First(kind), c) \in QueuedWrite /\ Fresh(Job(kind, First(kind), c))
         /\ Job(kind, First(kind), c).kind = kind /\ Job(kind, First(kind), c).c = c
         /\ Job(kind, First(kind), c).result = "none"
<1>1. First(kind) \in WriteStep BY DEF First, WriteStep
<1>2. "end" \in WriteStep /\ "none" \in NetworkCall BY DEF WriteStep, NetworkCall
<1> QED BY <1>1, <1>2 DEF Job, QueuedWrite, Fresh, NoCall

\* More writes are queued: those that were there stay as they are.
Grown ==
  /\ writes' \in Seq(QueuedWrite) /\ Len(writes) <= Len(writes')
  /\ writes # <<>> => writes' # <<>> /\ writes'[1] = writes[1]
  /\ writes' # <<>> /\ writes = <<>> => Fresh(writes'[1])
  /\ \A j \in 1..Len(writes) : writes'[j] = writes[j]
  /\ \A j \in Len(writes) + 1..Len(writes') : Fresh(writes'[j])

\* Queueing writes that have not begun keeps the invariant of the chain.
LEMMA GrownWrites ==
  ASSUME Shapes, WritesOK, Grown, Len(cycles) <= Len(cycles'), Len(cycles') \in Nat,
         Len(writes') \in Nat,
         options' = options, closed => closed' /\ Len(cycles') = Len(cycles),
         timer' # 0 => options.streaming,
         \A j \in Len(writes) + 1..Len(writes') :
            /\ writes'[j].kind \in {"flush", "create", "move", "finish", "fail"}
            /\ writes'[j].kind \in {"flush", "create"} =>
                 options.streaming /\ writes'[j].c \in 1..Len(cycles')
  PROVE  WritesOK'
<1>1. Len(cycles) \in Nat /\ Len(writes) \in Nat BY DEF Shapes
<1>2. ASSUME NEW j \in 1..Len(writes')
      PROVE  WriteOK(writes'[j], Len(cycles'), closed', options'.streaming)
  <2>1. CASE j \in 1..Len(writes)
    <3>1. WriteOK(writes[j], Len(cycles), closed, options.streaming)
      BY <2>1 DEF WritesOK, active
    <3>2. writes'[j] = writes[j] BY <2>1 DEF Grown
    <3>3. writes'[j].c \in 1..Len(cycles) => writes'[j].c \in 1..Len(cycles') BY <1>1
    <3> QED BY <3>1, <3>2, <3>3, Zenon DEF WriteOK
  <2>2. CASE j \in Len(writes) + 1..Len(writes')
    <3>1. Fresh(writes'[j]) BY <2>2 DEF Grown
    <3>2. StepsOK(writes'[j]) /\ CallsFit(writes'[j]) BY <3>1, <2>2, FreshFits
    <3>3. /\ writes'[j].at \in {"edit", "create", "delete", "emit"} =>
                writes'[j].kind \in {"flush", "create"}
          /\ writes'[j].at # "post"
      BY <3>1, <2>2 DEF Fresh, First
    <3>4. /\ writes'[j].at \in {"edit", "create", "delete", "emit"} =>
                writes'[j].c \in 1..Len(cycles')
          /\ writes'[j].kind \in {"flush", "create"} => options'.streaming
      BY <3>3, <2>2
    <3> QED BY <3>2, <3>3, <3>4, Zenon DEF WriteOK
  <2> QED BY <2>1, <2>2, <1>1
<1>3. ASSUME NEW j \in 2..Len(writes')
      PROVE  Fresh(writes'[j])
  <2>1. CASE j \in 2..Len(writes)
    <3>1. j \in 1..Len(writes) BY <2>1, <1>1
    <3> QED BY <2>1, <3>1 DEF WritesOK, Grown
  <2>2. CASE j \in Len(writes) + 1..Len(writes') BY <2>2 DEF Grown
  <2> QED BY <2>1, <2>2, <1>1
<1>4. timer' # 0 => options'.streaming OBVIOUS
<1> QED BY <1>2, <1>3, <1>4 DEF WritesOK, active

\* The first write moves on.
LEMMA MovedWrites ==
  ASSUME Shapes, WritesOK, SameChain, Len(cycles) <= Len(cycles'), Len(cycles') \in Nat,
         options' = options, timer' = timer \/ timer' = 0, closed' = closed,
         WriteOK(writes'[1], Len(cycles'), closed', options.streaming)
  PROVE  WritesOK'
<1>1. Len(cycles) \in Nat /\ Len(writes) \in Nat BY DEF Shapes
<1>2. ASSUME NEW j \in 2..Len(writes')
      PROVE  Fresh(writes'[j]) /\ writes'[j] = writes[j] /\ j \in 1..Len(writes)
  <2>1. j \in 2..Len(writes) /\ j \in 1..Len(writes) BY <1>1 DEF SameChain
  <2> QED BY <2>1 DEF WritesOK, SameChain
<1>3. ASSUME NEW j \in 1..Len(writes')
      PROVE  WriteOK(writes'[j], Len(cycles'), closed', options'.streaming)
  <2>1. CASE j = 1 BY <2>1
  <2>2. CASE j \in 2..Len(writes')
    <3>1. WriteOK(writes[j], Len(cycles), closed, options.streaming)
      BY <2>2, <1>2 DEF WritesOK, active
    <3>2. writes'[j].c \in 1..Len(cycles) => writes'[j].c \in 1..Len(cycles') BY <1>1
    <3>3. writes[j] \in QueuedWrite BY <2>2, <1>2 DEF Shapes
    <3>4. writes[j].at # "post" BY <2>2, <1>2, <3>3, WriteTypes DEF Fresh, First
    <3> QED BY <3>1, <3>2, <3>4, <1>2, <2>2, Zenon DEF WriteOK
  <2>3. Len(writes') \in Nat BY <1>1 DEF SameChain
  <2> QED BY <2>1, <2>2, <2>3
<1>4. timer' # 0 => options'.streaming BY DEF WritesOK
<1> QED BY <1>2, <1>3, <1>4 DEF WritesOK, active

\* The first write is dropped; the next one has not begun.
Dropped ==
  /\ writes' \in Seq(QueuedWrite) /\ Len(writes') = Len(writes) - 1 /\ 1 <= Len(writes)
  /\ (writes' = <<>>) = (Len(writes) = 1)
  /\ \A j \in 1..Len(writes) - 1 : writes'[j] = writes[j + 1]

\* RemoveAt drops the first write and keeps the rest in order.
LEMMA DropChain ==
  ASSUME ProjTypeOK, NEW j \in 1..Len(writes), Turn(j), writes' = RemoveAt(writes, j)
  PROVE  Dropped
<1>1. Shapes BY ProjShapes
<1>2. j = 1 BY DEF Turn
<1>3. writes \in Seq(QueuedWrite) BY DEF ProjTypeOK
<1>4. 1 <= Len(writes) /\ writes # <<>> /\ Len(writes) \in Nat
  <2>1. Len(writes) \in Nat BY <1>1 DEF Shapes
  <2>2. 1 <= Len(writes) BY <2>1, <1>2
  <2>3. Len(<<>>) = 0 BY EmptySeq
  <2> QED BY <2>1, <2>2, <2>3
<1>5. /\ writes' \in Seq(QueuedWrite) /\ Len(writes') = Len(writes) - 1
      /\ \A i \in 1..Len(writes) - 1 : writes'[i] = writes[i + 1]
  BY <1>2, <1>3, <1>4, FirstRemoved
<1>6. (writes' = <<>>) = (Len(writes') = 0) BY <1>5, EmptySeq
<1>7. (Len(writes') = 0) = (Len(writes) = 1) BY <1>4, <1>5
<1> QED BY <1>4, <1>5, <1>6, <1>7 DEF Dropped


-----------------------------------------------------------------------------
(* What every step keeps *)

\* The first write does what it did, at a later point: the end of the run is not touched.
LEMMA EndKept ==
  ASSUME Shapes, EndOK, SameChain, closed' = closed, timer' = timer, outcome' = outcome,
         late' = late
  PROVE  EndOK' /\ (SilentOK /\ chat' = chat => SilentOK')
<1>1. Len(writes) \in Nat BY DEF Shapes
<1>2. ASSUME NEW j \in 1..Len(writes')
      PROVE  j \in 1..Len(writes) /\ Closing(writes'[j]) = Closing(writes[j])
             /\ Answering(writes'[j]) = Answering(writes[j])
  <2>1. j = 1 \/ j \in 2..Len(writes) BY <1>1 DEF SameChain
  <2> QED BY <2>1, <1>1 DEF SameChain, Closing, Answering
<1>3. writes' # <<>> /\ writes # <<>> /\ Len(writes') = Len(writes) BY DEF SameChain
<1>4. EndOK'
  <2>1. /\ \A j \in 1..Len(writes') : Closing(writes'[j]) => outcome' = "ending"
        /\ \A i, j \in 1..Len(writes') : Closing(writes'[i]) /\ Closing(writes'[j]) => i = j
        /\ ~late' => \A j \in 1..Len(writes') : Closing(writes'[j]) => j = Len(writes')
    BY <1>2, <1>3 DEF EndOK
  <2>2. ~(~late' /\ outcome' \notin {"running", "ending"}) BY <1>3 DEF EndOK
  <2>3. closed' = (outcome' # "running") /\ (closed' => timer' = 0) BY DEF EndOK
  <2> QED BY <2>1, <2>2, <2>3 DEF EndOK
<1>5. SilentOK /\ chat' = chat => SilentOK' BY <1>2 DEF SilentOK
<1> QED BY <1>4, <1>5

\* A cycle keeps its message and grows.
LEMMA LinkKept ==
  ASSUME Shapes, LinkOK, chat' = chat, Len(cycles) <= Len(cycles'), Len(cycles') \in Nat,
         \A c \in 1..Len(cycles) : /\ cycles'[c].msg = cycles[c].msg /\ cycles'[c].ver \in Nat
                                   /\ cycles[c].ver <= cycles'[c].ver,
         \A c \in Len(cycles) + 1..Len(cycles') : cycles'[c].msg = 0
  PROVE  LinkOK'
<1>1. Len(cycles) \in Nat BY DEF Shapes
<1>2. ASSUME NEW c \in 1..Len(cycles'), cycles'[c].msg # 0
      PROVE  chat'[cycles'[c].msg].cycle = c /\ chat'[cycles'[c].msg].ver <= cycles'[c].ver
  <2>1. c \in 1..Len(cycles) BY <1>1, <1>2
  <2>2. cycles[c].msg = cycles'[c].msg /\ cycles[c].msg \in 1..Len(chat) /\ Len(chat) \in Nat
        /\ cycles[c].ver \in Nat
    BY <2>1, <1>2 DEF Shapes
  <2>3. chat[cycles[c].msg].cycle = c /\ chat[cycles[c].msg].ver <= cycles[c].ver
    BY <2>1, <2>2 DEF LinkOK, active
  <2>4. chat[cycles[c].msg].ver \in Nat BY <2>2 DEF Shapes, Message
  <2>5. cycles[c].ver <= cycles'[c].ver /\ cycles'[c].ver \in Nat BY <2>1
  <2>6. chat[cycles[c].msg].ver <= cycles'[c].ver BY <2>2, <2>3, <2>4, <2>5
  <2> QED BY <2>2, <2>3, <2>6
<1> QED BY <1>2 DEF LinkOK, active

\* Assigning one cycle leaves the others.
LEMMA OneCycle ==
  ASSUME NEW cs \in Seq(OutputCycle), NEW c \in 1..Len(cs), NEW x \in OutputCycle
  PROVE  /\ [cs EXCEPT ![c] = x] \in Seq(OutputCycle) /\ Len([cs EXCEPT ![c] = x]) = Len(cs)
         /\ [cs EXCEPT ![c] = x][c] = x
         /\ \A d \in 1..Len(cs) \ {c} : [cs EXCEPT ![c] = x][d] = cs[d]
BY ExceptSeq

\* The rest of a step of the first write leaves alone what is not the chain or the output.
LEMMA HeadTypes ==
  ASSUME ProjTypeOK, SameChain, UNCHANGED <<options, timer, closed, chat, reacted, response,
                                            steering, outcome, past>>,
         target' \in Nat,
         cycles' \in Seq(OutputCycle), Len(cycles) <= Len(cycles'),
         \A c \in 1..Len(cycles') : cycles'[c].msg <= Len(chat)
                                    /\ (cycles'[c].state # "text" => cycles'[c].text = {}),
         rows' \in Seq(RowState), Len(rows') = Len(cycles'), OpenOnce(rows')
  PROVE  ProjTypeOK'
<1>1. Shapes BY ProjShapes
<1>2. Len(cycles') \in Nat BY LenProperties
<1>3. cycles' # <<>>
  <2>1. 1 <= Len(cycles) /\ Len(cycles) \in Nat BY <1>1 DEF Shapes
  <2>2. Len(cycles') # 0 BY <2>1, <1>2
  <2> QED BY <2>2, EmptySeq
<1>4. timer' \in 0..Len(cycles')
  <2>1. timer \in 0..Len(cycles) /\ Len(cycles) \in Nat BY <1>1 DEF ProjTypeOK, active, Shapes
  <2> QED BY <2>1, <1>2
<1>5. \A c, d \in 1..Len(cycles') : rows'[c] = "open" /\ rows'[d] = "open" => c = d
  BY DEF OpenOnce
<1>6. writes' \in Seq(QueuedWrite) BY DEF SameChain
<1>7. /\ options' \in [streaming : BOOLEAN, directive : BOOLEAN] /\ closed' \in BOOLEAN
      /\ chat' \in Seq(Message) /\ reacted' \subseteq Nat
      /\ response' \in 1..Len(chat')
      /\ parts' \in Seq(Nat) /\ thoughts' \in Nat /\ moves' \in Nat /\ lost' \in Nat
      /\ overtaken' \subseteq Nat /\ late' \in BOOLEAN /\ steering' \in BOOLEAN
      /\ outcome' \in {"running", "ending", "done", "silent", "failed", "given up"}
  BY DEF ProjTypeOK, past
<1> QED BY <1>3, <1>4, <1>5, <1>6, <1>7 DEF ProjTypeOK, active, RowState

-----------------------------------------------------------------------------
(* Events and requests *)

\* What an event does to a cycle that is there.
Streamed(x, y) ==
  /\ y.msg = x.msg /\ x.ver <= y.ver /\ y.ver \in Nat /\ (x.state = "text" => y.state = "text")
  /\ y.deleted = x.deleted /\ (x.completed => y.completed) /\ y.failed = x.failed

\* The write under way is where it was, or it is one that has not begun.
LEMMA GrownCalls ==
  ASSUME BaseInv, Grown, chat' = chat, Len(cycles') \in Nat,
         Len(cycles') = Len(cycles) \/
           (Len(cycles') = Len(cycles) + 1 /\ cycles[Len(cycles)].state = "text"),
         \A c \in 1..Len(cycles) : Streamed(cycles[c], cycles'[c]),
         closed => cycles' = cycles
  PROVE  CallOK' /\ PlaceOK'
<1>1. Shapes BY ProjShapes DEF BaseInv
<1>2. CASE writes' = <<>> BY <1>2 DEF CallOK, PlaceOK
<1>3. CASE writes' # <<>> /\ writes = <<>>
  <2>1. Fresh(writes'[1]) BY <1>3 DEF Grown
  <2>2. /\ writes'[1].call.op = "none" /\ writes'[1].at \notin {"delete", "emit", "complete"}
        /\ writes'[1].then = "end"
        /\ writes'[1].at = "edit" => writes'[1].kind = "flush"
        /\ writes'[1].at = "create" => writes'[1].kind = "create"
        /\ writes'[1].kind = "finish" => writes'[1].at = "unreact"
    BY <2>1 DEF Fresh, First, Answering
  <2> QED BY <2>2 DEF CallOK, CallFits, PlaceOK, Place, Answering
<1>4. CASE writes' # <<>> /\ writes # <<>>
  <2> DEFINE job == writes[1]
             c == job.c
  <2>1. writes'[1] = job BY <1>4 DEF Grown
  <2>2. 1 \in 1..Len(writes) BY <1>1, <1>4 DEF Shapes
  <2>3. WriteOK(job, Len(cycles), closed, options.streaming)
    BY <2>2 DEF BaseInv, WritesOK, active
  <2>4. job \in QueuedWrite BY <2>2, <1>1 DEF Shapes
  <2>5. Closing(job) => closed BY <2>2 DEF BaseInv, EndOK
  <2>6. job.at \in {"edit", "create", "delete", "emit"} => c \in 1..Len(cycles)
    BY <2>3 DEF WriteOK
  <2>7. job.call.op \in {"edit", "create", "recall", "delete"} => c \in 1..Len(cycles)
    BY <2>3, <2>4, WriteTypes DEF WriteOK, CallsFit, WriteStep
  <2>8. c \in 1..Len(cycles) => Streamed(cycles[c], cycles'[c]) OBVIOUS
  <2>9. CallOK /\ PlaceOK BY DEF BaseInv
  <2>10. c \in 1..Len(cycles) => cycles[c].ver \in Nat BY <1>1 DEF Shapes
  <2>11. job.call.ver \in Nat BY <2>4, WriteTypes
  <2> HIDE DEF job, c
  <2>12. CallOK'
    <3>1. /\ job.at = "delete" => cycles[c].msg # 0 /\ ~cycles[c].deleted
          /\ job.call.op \in {"edit", "create", "recall"} => ~cycles[c].deleted
          /\ job.call.op \in {"edit", "recall", "delete"} =>
               job.call.msg = cycles[c].msg /\ cycles[c].msg # 0
          /\ job.call.op = "edit" => chat[cycles[c].msg].ver <= job.call.ver
          /\ job.call.op \in {"edit", "create"} => job.call.ver <= cycles[c].ver
          /\ job.call.op = "create" => cycles[c].msg = 0
          /\ job.call.op = "silence" => job.call.msg \in 1..Len(chat)
          /\ job.call.op = "recall" => cycles[c].state = "text"
          /\ job.call.op = "post" => job.call.ver <= 1
      BY <1>4, <2>9 DEF CallOK, CallFits, job, c
    <3>2. c \in 1..Len(cycles) => /\ cycles'[c].msg = cycles[c].msg
                                  /\ cycles'[c].deleted = cycles[c].deleted
                                  /\ (cycles[c].state = "text" => cycles'[c].state = "text")
      BY <2>8 DEF Streamed
    <3>3. ASSUME job.call.op \in {"edit", "create"} PROVE job.call.ver <= cycles'[c].ver
      <4>1. c \in 1..Len(cycles) BY <3>3, <2>7
      <4>2. cycles[c].ver <= cycles'[c].ver /\ cycles'[c].ver \in Nat BY <4>1, <2>8 DEF Streamed
      <4>3. job.call.ver <= cycles[c].ver BY <3>1, <3>3
      <4> QED BY <4>1, <4>2, <4>3, <2>10, <2>11
    <3> QED BY <1>4, <2>1, <2>6, <2>7, <3>1, <3>2, <3>3 DEF CallOK, CallFits, job, c
  <2>13. PlaceOK'
    <3>1. CASE closed BY <3>1, <2>1, <2>9, <1>4 DEF PlaceOK, Place, job
    <3>2. CASE ~closed
      <4>1. ~Closing(job) BY <3>2, <2>5
      <4>2. /\ job.at = "edit" /\ job.then \in {"emit", "rewrite", "notice"}
                 => cycles[c].state = "text"
            /\ job.kind = "move" /\ job.at = "create" => cycles[c].state = "text" \/ c = Len(cycles)
            /\ job.at = "emit" => cycles[c].state = "text"
        BY <1>4, <2>9 DEF PlaceOK, Place, job, c
      <4>3. job.at = "delete" => job.then # "complete"
        BY <2>3, <2>4, <4>1, WriteTypes DEF WriteOK, StepsOK, Closing, WriteStep
      <4>4. c \in 1..Len(cycles) /\ cycles[c].state = "text" => cycles'[c].state = "text"
        BY <2>8 DEF Streamed
      <4>5. c = Len(cycles) => c = Len(cycles') \/ cycles[c].state = "text" OBVIOUS
      <4>6. job.kind \notin {"finish", "fail"} /\ ~Answering(job) BY <4>1 DEF Closing, Answering
      <4>7. job.at = "emit" => c \in 1..Len(cycles) BY <2>6
      <4>8. job.at \in {"edit", "create"} => c \in 1..Len(cycles) BY <2>6
      <4> QED BY <1>4, <2>1, <4>2, <4>3, <4>4, <4>5, <4>6, <4>7, <4>8 DEF PlaceOK, Place, job, c
    <3> QED BY <3>1, <3>2
  <2> QED BY <2>12, <2>13
<1> QED BY <1>2, <1>3, <1>4


\* An event changes the active cycle ...
Continues ==
  LET n == Len(cycles) IN
  /\ cycles' \in Seq(OutputCycle) /\ Len(cycles') = n /\ rows' \in Seq(RowState) /\ Len(rows') = n
  /\ \A c \in 1..n : c # n => cycles'[c] = cycles[c]
  /\ cycles'[n].msg = cycles[n].msg /\ cycles'[n].ver = cycles[n].ver + 1
  /\ cycles'[n].completed = cycles[n].completed /\ cycles'[n].deleted = cycles[n].deleted
  /\ cycles'[n].failed = cycles[n].failed
  /\ cycles[n].state = "text" => cycles'[n].state = "text"
  /\ cycles'[n].state # "text" => cycles'[n].text = {}
  /\ writes' = writes /\ timer' \in {timer, n} /\ (timer' # timer => options.streaming)

\* ... or freezes it and starts another.
Starts ==
  LET n == Len(cycles) IN
  /\ cycles' \in Seq(OutputCycle) /\ Len(cycles') = n + 1
  /\ rows' \in Seq(RowState) /\ Len(rows') = n + 1 /\ rows'[n + 1] = "none"
  /\ \A c \in 1..n : c # n => cycles'[c] = cycles[c]
  /\ cycles[n].state = "text" /\ cycles'[n] = [cycles[n] EXCEPT !.completed = TRUE]
  /\ cycles'[n + 1].msg = 0 /\ cycles'[n + 1].ver = 1 /\ Live(cycles'[n + 1])
  /\ cycles'[n + 1].state # "text" => cycles'[n + 1].text = {}
  /\ timer' = 0 /\ Grown /\ Len(writes') \in Nat
  /\ options.streaming =>
       /\ Len(writes') = Len(writes) + 2
       /\ writes'[Len(writes) + 1] = Job("flush", "edit", n)
       /\ writes'[Len(writes) + 2] = Job("create", "create", n + 1)
  /\ ~options.streaming => writes' = writes

\* The rows after an event: no other is opened.
RowsFollow ==
  LET n == Len(cycles) IN
  /\ OpenOnce(rows')
  /\ \A c \in 1..n : c # n /\ rows'[c] = "open" => rows[c] = "open"
  /\ rows'[n] = "open" => IF cycles[n].msg = 0 THEN rows[n] = "open" ELSE Live(cycles'[n])

\* What is not touched by an event.
Aside ==
  /\ ~closed /\ Quiet /\ UNCHANGED <<options, closed, chat, reacted, target, response, steering,
                                     moves, outcome, lost, late>>
  /\ overtaken' = overtaken \cup {c \in {Len(cycles')} : Moving}

\* startCycle: the active cycle is frozen and another one follows it.
LEMMA StartCycleSteps ==
  ASSUME ProjTypeOK, NEW x \in OutputCycle, x.msg = 0, x.ver = 1, Live(x),
         x.state # "text" => x.text = {}, cycles[active].state = "text", StartCycle(x)
  PROVE  Starts /\ RowsFollow
<1> DEFINE n == Len(cycles)
           y == [cycles[n] EXCEPT !.completed = TRUE]
           frozen == [cycles EXCEPT ![n] = y]
           job1 == Job("flush", "edit", n)
           job2 == Job("create", "create", n + 1)
<1>1. Shapes BY ProjShapes
<1>2. n \in Nat /\ 1 <= n /\ n \in 1..n BY <1>1 DEF Shapes
<1>3. cycles \in Seq(OutputCycle) /\ rows \in Seq(RowState) /\ writes \in Seq(QueuedWrite)
      /\ Len(rows) = n /\ Len(writes) \in Nat
  BY <1>1 DEF ProjTypeOK, RowState, active, Shapes
<1>4. cycles[n] \in OutputCycle BY <1>1, <1>2 DEF Shapes
<1>5. /\ y \in OutputCycle /\ y.msg = cycles[n].msg /\ y.completed = TRUE
  BY <1>4 DEF OutputCycle
<1>6. timer' = 0 /\ cycles' = Append(frozen, x) /\ rows' = Append(Emitted(rows, frozen, n), "none")
      /\ writes' = IF options.streaming THEN Append(Append(writes, job1), job2) ELSE writes
  BY DEF StartCycle, active
<1>7. options.streaming \in BOOLEAN BY DEF ProjTypeOK
<1>8. job1 \in QueuedWrite /\ job2 \in QueuedWrite /\ Fresh(job1) /\ Fresh(job2)
  <2>1. First("flush") = "edit" /\ First("create") = "create" BY DEF First
  <2>2. n + 1 \in Nat BY <1>2
  <2> QED BY <1>2, <2>1, <2>2, JobFresh
<1> HIDE DEF y, job1, job2
<1>9. /\ frozen \in Seq(OutputCycle) /\ Len(frozen) = n /\ frozen[n] = y
      /\ \A c \in 1..n \ {n} : frozen[c] = cycles[c]
  BY <1>2, <1>3, <1>5, OneCycle
<1> HIDE DEF frozen
<1>10. /\ cycles' \in Seq(OutputCycle) /\ Len(cycles') = n + 1 /\ cycles'[n + 1] = x
       /\ \A c \in 1..n : cycles'[c] = frozen[c]
  BY <1>6, <1>9, AppendChain
<1>11. OpenOnce(rows) BY <1>3 DEF ProjTypeOK, OpenOnce, active
<1>12. /\ Emitted(rows, frozen, n) \in Seq(RowState) /\ Len(Emitted(rows, frozen, n)) = n
       /\ OpenOnce(Emitted(rows, frozen, n))
       /\ \A d \in 1..n \ {n} : Emitted(rows, frozen, n)[d] = "open" => rows[d] = "open"
       /\ Emitted(rows, frozen, n)[n] = "open" =>
            IF frozen[n].msg = 0 THEN rows[n] = "open" ELSE Live(frozen[n])
  <2>1. Len(rows) = n /\ n \in 1..Len(rows) /\ Len(frozen) = Len(rows) BY <1>2, <1>3, <1>9
  <2>2. rows \in Seq(RowState) /\ frozen \in Seq(OutputCycle) BY <1>3, <1>9
  <2> HIDE DEF n
  <2> QED BY <2>1, <2>2, <1>11, EmittedRows
<1>13. "none" \in RowState BY DEF RowState
<1>14. /\ rows' \in Seq(RowState) /\ Len(rows') = n + 1 /\ rows'[n + 1] = "none"
       /\ \A c \in 1..n : rows'[c] = Emitted(rows, frozen, n)[c]
  BY <1>6, <1>12, <1>13, AppendChain
<1>15. OpenOnce(rows')
  <2>1. ASSUME NEW c \in 1..n + 1, NEW d \in 1..n + 1, rows'[c] = "open", rows'[d] = "open"
        PROVE  c = d
    <3>1. c # n + 1 /\ d # n + 1 BY <2>1, <1>14
    <3>2. c \in 1..n /\ d \in 1..n BY <3>1, <1>2
    <3>3. Emitted(rows, frozen, n)[c] = "open" /\ Emitted(rows, frozen, n)[d] = "open"
      BY <2>1, <3>2, <1>14
    <3> QED BY <1>12, <3>2, <3>3, Zenon DEF OpenOnce
  <2> QED BY <2>1, <1>14 DEF OpenOnce
<1>16. RowsFollow
  <2>1. \A c \in 1..n : c # n /\ rows'[c] = "open" => rows[c] = "open" BY <1>12, <1>14
  <2>2. rows'[n] = "open" => IF cycles[n].msg = 0 THEN rows[n] = "open" ELSE Live(cycles'[n])
    BY <1>2, <1>5, <1>9, <1>10, <1>12, <1>14
  <2> QED BY <1>15, <2>1, <2>2 DEF RowsFollow
<1>17. ASSUME options.streaming
       PROVE  /\ Len(writes') = Len(writes) + 2 /\ writes' \in Seq(QueuedWrite) /\ writes' # <<>>
              /\ \A j \in 1..Len(writes) : writes'[j] = writes[j]
              /\ writes'[Len(writes) + 1] = job1 /\ writes'[Len(writes) + 2] = job2
  <2> DEFINE one == Append(writes, job1)
  <2>1. /\ one \in Seq(QueuedWrite) /\ Len(one) = Len(writes) + 1 /\ one[Len(writes) + 1] = job1
        /\ \A j \in 1..Len(writes) : one[j] = writes[j]
    BY <1>3, <1>8, AppendChain
  <2>2. writes' = Append(one, job2) BY <1>6, <1>17
  <2> HIDE DEF one
  <2>3. /\ writes' \in Seq(QueuedWrite) /\ Len(writes') = Len(one) + 1 /\ writes' # <<>>
        /\ \A j \in 1..Len(one) : writes'[j] = one[j]
        /\ writes'[Len(one) + 1] = job2
    BY <1>8, <2>1, <2>2, AppendChain
  <2>4. Len(writes) + 1 + 1 = Len(writes) + 2 /\ Len(writes) + 1 \in 1..Len(writes) + 1
        /\ \A j \in 1..Len(writes) : j \in 1..Len(writes) + 1
    BY <1>3
  <2> QED BY <2>1, <2>3, <2>4
<1>18. Grown /\ Len(writes') \in Nat
  <2>1. CASE ~options.streaming
    <3>1. writes' = writes BY <2>1, <1>6
    <3>2. \A j \in Len(writes) + 1..Len(writes) : FALSE BY <1>3
    <3> QED BY <3>1, <3>2, <1>3 DEF Grown
  <2>2. CASE options.streaming
    <3>1. ASSUME NEW j \in Len(writes) + 1..Len(writes')
          PROVE  Fresh(writes'[j])
      <4>1. j = Len(writes) + 1 \/ j = Len(writes) + 2 BY <1>3, <1>17, <2>2
      <4> QED BY <4>1, <1>8, <1>17, <2>2
    <3>2. writes # <<>> => 1 \in 1..Len(writes) BY <1>1 DEF Shapes
    <3>3. writes = <<>> => Len(writes) + 1 = 1 /\ 1 \in Len(writes) + 1..Len(writes')
      BY <1>1, <1>17, <2>2 DEF Shapes
    <3>4. Len(writes) <= Len(writes') /\ Len(writes') \in Nat BY <1>3, <1>17, <2>2
    <3> QED BY <1>17, <2>2, <3>1, <3>2, <3>3, <3>4 DEF Grown
  <2> QED BY <1>7, <2>1, <2>2
<1>19. Starts
  <2>1. \A c \in 1..n : c # n => cycles'[c] = cycles[c] BY <1>9, <1>10
  <2>2. cycles'[n] = [cycles[n] EXCEPT !.completed = TRUE] BY <1>2, <1>9, <1>10 DEF y
  <2>3. ~options.streaming => writes' = writes BY <1>6
  <2> QED BY <1>6, <1>10, <1>14, <1>17, <1>18, <2>1, <2>2, <2>3 DEF Starts, job1, job2, active
<1> QED BY <1>16, <1>19

\* A change of the active cycle that keeps what the rest of the module relies on.
LEMMA ContinuesSteps ==
  ASSUME ProjTypeOK, WritesOK, NEW x \in OutputCycle,
         x.msg = cycles[active].msg, x.ver = cycles[active].ver + 1,
         x.completed = cycles[active].completed, x.deleted = cycles[active].deleted,
         x.failed = cycles[active].failed, cycles[active].state = "text" => x.state = "text",
         x.state # "text" => x.text = {},
         Emit([cycles EXCEPT ![active] = x], active), Schedule, writes' = writes
  PROVE  Continues /\ RowsFollow
<1> DEFINE n == Len(cycles)
           changed == [cycles EXCEPT ![n] = x]
<1>1. Shapes BY ProjShapes
<1>2. n \in Nat /\ 1 <= n /\ n \in 1..n BY <1>1 DEF Shapes
<1>3. cycles \in Seq(OutputCycle) /\ rows \in Seq(RowState) /\ Len(rows) = n
  BY <1>1 DEF ProjTypeOK, RowState, active, Shapes
<1>4. cycles' = changed /\ rows' = Emitted(rows, changed, n) BY DEF Emit, active
<1>5. /\ changed \in Seq(OutputCycle) /\ Len(changed) = n /\ changed[n] = x
      /\ \A c \in 1..n \ {n} : changed[c] = cycles[c]
  BY <1>2, <1>3, OneCycle
<1> HIDE DEF changed
<1>6. OpenOnce(rows) BY <1>3 DEF ProjTypeOK, OpenOnce, active
<1>7. /\ rows' \in Seq(RowState) /\ Len(rows') = n /\ OpenOnce(rows')
      /\ \A d \in 1..n \ {n} : rows'[d] = "open" => rows[d] = "open"
      /\ rows'[n] = "open" => IF changed[n].msg = 0 THEN rows[n] = "open" ELSE Live(changed[n])
  <2>1. rows \in Seq(RowState) /\ changed \in Seq(OutputCycle) BY <1>3, <1>5
  <2>2. n \in 1..Len(rows) /\ Len(changed) = Len(rows) /\ Len(rows) = n BY <1>2, <1>3, <1>5
  <2> HIDE DEF n
  <2> QED BY <1>4, <1>6, <2>1, <2>2, EmittedRows
<1>8. timer' \in {timer, n} /\ (timer' # timer => options.streaming) BY DEF Schedule, active
<1>9. RowsFollow BY <1>4, <1>5, <1>7 DEF RowsFollow, active
<1>10. Continues BY <1>4, <1>5, <1>7, <1>8 DEF Continues, active
<1> QED BY <1>9, <1>10

\* A changed cycle says something else in its next version, and is otherwise the same.
LEMMA ChangedCycle ==
  ASSUME NEW cur \in OutputCycle, NEW state \in {"transient", "thinking", "text"}, NEW part \in Nat,
         NEW text \in SUBSET Nat, NEW x, x = Changed(cur, state, part, text)
  PROVE  /\ x \in OutputCycle /\ x.msg = cur.msg /\ x.ver = cur.ver + 1 /\ x.part = part
         /\ x.state = state /\ x.text = text /\ x.reply = cur.reply
         /\ x.completed = cur.completed /\ x.deleted = cur.deleted /\ x.failed = cur.failed
<1> DEFINE v == cur.ver + 1
<1>1. v \in Nat BY CycleTypes
<1>2. x = [cur EXCEPT !.state = state, !.part = part, !.text = text, !.ver = v]
  BY DEF Changed
<1> HIDE DEF v
<1>3. /\ x \in OutputCycle /\ x.msg = cur.msg /\ x.ver = v /\ x.part = part
      /\ x.state = state /\ x.text = text /\ x.reply = cur.reply
      /\ x.completed = cur.completed /\ x.deleted = cur.deleted /\ x.failed = cur.failed
  BY <1>1, <1>2 DEF OutputCycle
<1> QED BY <1>3 DEF v

\* What updateText does to the cycles: the active one goes on, or another is started.
LEMMA TextDeltaSteps ==
  ASSUME ProjTypeOK, WritesOK, TextDelta
  PROVE  Aside /\ (Continues \/ Starts) /\ RowsFollow /\ UNCHANGED thoughts
         /\ parts' \in Seq(Nat) /\ Len(parts') = Len(parts) + 1
<1>1. Shapes BY ProjShapes
<1>2. PICK p \in {Part, Part + 1}, replace \in BOOLEAN :
        LET cur  == cycles[active]
            k    == Len(parts) + 1
            text == IF replace THEN Chunks(p, Append(parts, p)) ELSE {k}
        IN /\ parts' = Append(parts, p)
           /\ \/ /\ cur.state # "text"
                 /\ Emit([cycles EXCEPT ![active] = Changed(cur, "text", p, text)], active)
                 /\ Schedule /\ UNCHANGED writes
              \/ /\ cur.state = "text" /\ cur.part = p
                 /\ LET said == IF replace THEN text ELSE cur.text \cup text IN
                      Emit([cycles EXCEPT ![active] = Changed(cur, "text", p, said)], active)
                 /\ Schedule /\ UNCHANGED writes
              \/ /\ cur.state = "text" /\ cur.part # p
                 /\ StartCycle(Cycle("text", p, text, FALSE))
  BY Zenon DEF TextDelta
<1> DEFINE cur  == cycles[active]
           text == IF replace THEN Chunks(p, Append(parts, p)) ELSE {Len(parts) + 1}
<1>3. parts \in Seq(Nat) /\ Len(parts) \in Nat BY LenProperties DEF ProjTypeOK
<1>4. p \in Nat
  <2>1. Part \in Nat
    <3>1. CASE parts = <<>> BY <3>1 DEF Part
    <3>2. CASE parts # <<>>
      <4>1. Len(parts) \in 1..Len(parts)
        <5>1. Len(parts) # 0 BY <1>3, <3>2, EmptySeq
        <5> QED BY <5>1, <1>3
      <4>2. parts[Len(parts)] \in Nat BY <1>3, <4>1, ElementOfSeq
      <4> QED BY <3>2, <4>2 DEF Part, Last
    <3> QED BY <3>1, <3>2
  <2> QED BY <2>1
<1>5. text \subseteq Nat
  <2>1. Append(parts, p) \in Seq(Nat) BY <1>3, <1>4, AppendChain
  <2>2. Len(Append(parts, p)) \in Nat BY <2>1, LenProperties
  <2>3. Chunks(p, Append(parts, p)) \subseteq Nat BY <2>2 DEF Chunks
  <2> QED BY <2>3, <1>3
<1>6. cur \in OutputCycle /\ active \in 1..Len(cycles) BY <1>1 DEF Shapes, active
<1>7. cur.state # "text" => cur.text = {} BY <1>6 DEF ProjTypeOK, active
<1>8. parts' = Append(parts, p) BY <1>2
<1>9. parts' \in Seq(Nat) /\ Len(parts') = Len(parts) + 1 BY <1>3, <1>4, <1>8, AppendChain
<1>10. Aside /\ UNCHANGED thoughts BY DEF TextDelta, Aside, Note, shown
<1> HIDE DEF text
<1>11. CASE /\ cur.state # "text"
            /\ Emit([cycles EXCEPT ![active] = Changed(cur, "text", p, text)], active)
            /\ Schedule /\ UNCHANGED writes
  <2> DEFINE x == Changed(cur, "text", p, text)
  <2>0. text \in SUBSET Nat /\ "text" \in {"transient", "thinking", "text"} BY <1>5
  <2>1. /\ x \in OutputCycle /\ x.msg = cur.msg /\ x.ver = cur.ver + 1
        /\ x.completed = cur.completed
        /\ x.deleted = cur.deleted /\ x.failed = cur.failed /\ x.state = "text"
    BY <2>0, <1>4, <1>6, ChangedCycle
  <2>2. Emit([cycles EXCEPT ![active] = x], active) BY <1>11
  <2> HIDE DEF x
  <2> QED BY <1>9, <1>10, <1>11, <2>1, <2>2, ContinuesSteps
<1>12. CASE /\ cur.state = "text" /\ cur.part = p
            /\ LET said == IF replace THEN text ELSE cur.text \cup text IN
                 Emit([cycles EXCEPT ![active] = Changed(cur, "text", p, said)], active)
            /\ Schedule /\ UNCHANGED writes
  <2> DEFINE says == IF replace THEN text ELSE cur.text \cup text
             x == Changed(cur, "text", p, says)
  <2>1. Emit([cycles EXCEPT ![active] = x], active) BY <1>12
  <2>2. says \subseteq Nat BY <1>5, <1>6, CycleTypes
  <2> HIDE DEF says
  <2>0. says \in SUBSET Nat /\ "text" \in {"transient", "thinking", "text"} BY <2>2
  <2>3. /\ x \in OutputCycle /\ x.msg = cur.msg /\ x.ver = cur.ver + 1
        /\ x.completed = cur.completed
        /\ x.deleted = cur.deleted /\ x.failed = cur.failed /\ x.state = "text"
    BY <2>0, <1>4, <1>6, ChangedCycle
  <2> HIDE DEF x
  <2> QED BY <1>9, <1>10, <1>12, <2>1, <2>3, ContinuesSteps
<1>13. CASE cur.state = "text" /\ cur.part # p /\ StartCycle(Cycle("text", p, text, FALSE))
  <2> DEFINE x == Cycle("text", p, text, FALSE)
  <2>1. x \in OutputCycle /\ x.msg = 0 /\ x.ver = 1 /\ Live(x) /\ x.state = "text"
    BY <1>4, <1>5 DEF Cycle, OutputCycle, Live
  <2>2. StartCycle(x) BY <1>13
  <2> HIDE DEF x
  <2> QED BY <1>9, <1>10, <1>13, <2>1, <2>2, StartCycleSteps
<1> QED BY <1>2, <1>11, <1>12, <1>13 DEF text

\* What an event without text does to the cycles.
LEMMA ProgressSteps ==
  ASSUME ProjTypeOK, WritesOK, Progress
  PROVE  Aside /\ (Continues \/ Starts) /\ RowsFollow /\ thoughts' \in Nat /\ UNCHANGED parts
         /\ (Continues => cycles'[Len(cycles)].state # "text")
<1>1. Shapes BY ProjShapes
<1> DEFINE cur == cycles[active]
<1>2. cur \in OutputCycle /\ active \in 1..Len(cycles) BY <1>1 DEF Shapes, active
<1>3. cur.state # "text" => cur.text = {} BY <1>2 DEF ProjTypeOK, active
<1>4. Aside /\ thoughts' \in Nat /\ UNCHANGED parts
  <2>1. thoughts \in Nat /\ thoughts' = thoughts + 1 BY DEF Progress, ProjTypeOK
  <2> QED BY <2>1 DEF Progress, Aside, Note, shown
<1>5. CASE cur.state = "text" /\ StartCycle(Cycle("thinking", 0, {}, FALSE))
  <2> DEFINE x == Cycle("thinking", 0, {}, FALSE)
  <2>1. x \in OutputCycle /\ x.msg = 0 /\ x.ver = 1 /\ Live(x) /\ x.text = {}
    BY DEF Cycle, OutputCycle, Live
  <2>2. StartCycle(x) BY <1>5
  <2> HIDE DEF x
  <2>3. Starts /\ RowsFollow BY <1>5, <2>1, <2>2, StartCycleSteps
  <2>4. ~Continues
    <3>1. Len(cycles) \in Nat BY <1>1 DEF Shapes
    <3>2. Len(cycles') = Len(cycles) + 1 BY <2>3 DEF Starts
    <3> QED BY <3>1, <3>2 DEF Continues
  <2> QED BY <1>4, <2>3, <2>4
<1>6. CASE /\ cur.state # "text" /\ Schedule /\ UNCHANGED writes
           /\ \E state \in {"thinking", cur.state} :
                LET now == Changed(cur, state, cur.part, cur.text) IN
                Emit([cycles EXCEPT ![active] = now], active)
  <2>1. PICK state \in {"thinking", cur.state} :
          Emit([cycles EXCEPT ![active] = Changed(cur, state, cur.part, cur.text)], active)
    BY <1>6
  <2> DEFINE x == Changed(cur, state, cur.part, cur.text)
  <2>2. Emit([cycles EXCEPT ![active] = x], active) BY <2>1
  <2>3. /\ x \in OutputCycle /\ x.msg = cur.msg /\ x.ver = cur.ver + 1
        /\ x.completed = cur.completed
        /\ x.deleted = cur.deleted /\ x.failed = cur.failed /\ x.text = {} /\ x.state # "text"
    <3>1. state \in {"transient", "thinking"} /\ cur.part \in Nat /\ cur.text \in SUBSET Nat
      BY <1>2, <1>6, CycleTypes
    <3> QED BY <1>2, <1>3, <1>6, <3>1, ChangedCycle
  <2>4. cycles'[Len(cycles)] = x
    <3>1. cycles \in Seq(OutputCycle) BY DEF ProjTypeOK
    <3>2. cycles' = [cycles EXCEPT ![Len(cycles)] = x] BY <2>2 DEF Emit, active
    <3> HIDE DEF x
    <3> QED BY <1>2, <2>3, <3>1, <3>2, OneCycle DEF active
  <2> HIDE DEF x
  <2>5. Continues /\ RowsFollow BY <1>6, <2>2, <2>3, ContinuesSteps
  <2> QED BY <1>4, <2>3, <2>4, <2>5
<1> QED BY <1>5, <1>6 DEF Progress


\* While a run goes on no write ends it.
LEMMA RunGoesOn ==
  ASSUME EndOK, SilentOK, ~closed
  PROVE  /\ outcome = "running" /\ \A j \in 1..Len(writes) : ~Closing(writes[j])
         /\ \A m \in 1..Len(chat) : chat[m].as # "silent"
BY DEF EndOK, SilentOK

\* Writes are queued, and perhaps an event went before them.
LEMMA GrownBase ==
  ASSUME BaseInv, ProjTypeOK', Grown, UNCHANGED <<chat, options>>, closed => closed',
         Len(cycles') = Len(cycles) \/
           (Len(cycles') = Len(cycles) + 1 /\ cycles[Len(cycles)].state = "text"),
         \A c \in 1..Len(cycles) : Streamed(cycles[c], cycles'[c]),
         \A c \in Len(cycles) + 1..Len(cycles') : cycles'[c].msg = 0,
         closed => cycles' = cycles,
         timer' # 0 => options.streaming,
         \A j \in Len(writes) + 1..Len(writes') :
            /\ writes'[j].kind \in {"flush", "create", "move", "finish", "fail"}
            /\ writes'[j].kind \in {"flush", "create"} =>
                 options.streaming /\ writes'[j].c \in 1..Len(cycles'),
         EndOK', SilentOK', outcome' = "done" /\ ~late' => outcome = "done" /\ ~late
  PROVE  BaseInv'
<1>1. Shapes BY ProjShapes DEF BaseInv
<1>2. Len(cycles) \in Nat /\ Len(cycles') \in Nat /\ Len(writes') \in Nat
  BY <1>1, LenProperties DEF Shapes, ProjTypeOK
<1>3. Len(cycles) <= Len(cycles') BY <1>2
<1>4. WritesOK' BY <1>1, <1>2, <1>3, GrownWrites DEF BaseInv
<1>5. CallOK' /\ PlaceOK' BY <1>2, GrownCalls
<1>6. LinkOK' BY <1>1, <1>2, <1>3, LinkKept DEF BaseInv, Streamed
<1>7. ShownOK'
  <2>1. ASSUME outcome' = "done", ~late'
        PROVE  \A c \in 1..Len(cycles') : Speaks(cycles'[c]) => Shown(cycles', chat', c)
    <3>1. outcome = "done" /\ ~late /\ closed BY <2>1 DEF BaseInv, EndOK
    <3>2. cycles' = cycles BY <3>1
    <3>3. \A c \in 1..Len(cycles) : Speaks(cycles[c]) => Shown(cycles, chat, c)
      BY <3>1 DEF BaseInv, ShownOK
    <3> QED BY <3>2, <3>3
  <2>2. ASSUME writes' # <<>>, Answering(writes'[1]), writes # <<>>
        PROVE  Told(writes'[1], cycles', chat')
    <3>1. writes'[1] = writes[1] BY <2>2 DEF Grown
    <3>2. closed
      <4>1. 1 \in 1..Len(writes) BY <2>2, <1>1 DEF Shapes
      <4> QED BY <2>2, <3>1, <4>1 DEF BaseInv, EndOK, Closing, Answering
    <3>3. cycles' = cycles /\ chat' = chat BY <3>2
    <3>4. Told(writes[1], cycles, chat) BY <2>2 DEF BaseInv, ShownOK
    <3> QED BY <3>1, <3>3, <3>4
  <2>3. ASSUME writes' # <<>>, Answering(writes'[1]), writes = <<>>
        PROVE  Told(writes'[1], cycles', chat')
    <3>1. Fresh(writes'[1]) BY <2>3 DEF Grown
    <3>2. writes'[1].at = "unreact" /\ writes'[1].call.op = "none"
      BY <2>3, <3>1 DEF Fresh, First, Answering
    <3> QED BY <3>2 DEF Told
  <2>4. writes' # <<>> /\ ~Answering(writes'[1]) => Told(writes'[1], cycles', chat') BY DEF Told
  <2> QED BY <2>1, <2>2, <2>3, <2>4, Zenon DEF ShownOK
<1> QED BY <1>4, <1>5, <1>6, <1>7 DEF BaseInv

\* An event keeps the base invariant: no write under way is at a cycle that it starts.
LEMMA EventBase ==
  ASSUME BaseInv, Aside, Continues \/ Starts, RowsFollow, parts' \in Seq(Nat), thoughts' \in Nat
  PROVE  BaseInv'
<1> DEFINE n == Len(cycles)
<1>1. Shapes BY ProjShapes DEF BaseInv
<1>2. ProjTypeOK BY DEF BaseInv
<1>3. n \in Nat /\ 1 <= n /\ n \in 1..n /\ Len(writes) \in Nat BY <1>1 DEF Shapes
<1>4. /\ cycles' \in Seq(OutputCycle) /\ rows' \in Seq(RowState) /\ Len(rows') = Len(cycles')
      /\ Len(cycles') = n \/ (Len(cycles') = n + 1 /\ cycles[n].state = "text")
  BY DEF Continues, Starts
<1>5. ASSUME NEW c \in 1..n
      PROVE  Streamed(cycles[c], cycles'[c])
  <2>1. cycles[c] \in OutputCycle /\ cycles[c].ver \in Nat BY <1>1 DEF Shapes
  <2>2. CASE c # n
    <3>1. cycles'[c] = cycles[c] BY <2>2 DEF Continues, Starts
    <3> QED BY <2>1, <3>1 DEF Streamed
  <2>3. CASE c = n /\ Continues BY <2>1, <2>3 DEF Streamed, Continues
  <2>4. CASE c = n /\ Starts
    <3>1. cycles'[c] = [cycles[c] EXCEPT !.completed = TRUE] BY <2>4 DEF Starts
    <3> QED BY <2>1, <3>1 DEF Streamed, OutputCycle
  <2> QED BY <2>2, <2>3, <2>4
<1>6. ASSUME NEW c \in n + 1..Len(cycles')
      PROVE  Starts /\ c = n + 1 /\ cycles'[c].msg = 0
  <2>1. ~Continues BY <1>3 DEF Continues
  <2>2. Starts BY <2>1
  <2>3. Len(cycles') = n + 1 BY <2>2 DEF Starts
  <2>4. c = n + 1 BY <2>3, <1>3
  <2> QED BY <2>2, <2>4 DEF Starts
<1>7. Grown
  <2>1. CASE Continues
    <3>1. writes \in Seq(QueuedWrite) /\ writes' = writes BY <1>2, <2>1 DEF ProjTypeOK, Continues
    <3> QED BY <3>1, <1>3 DEF Grown
  <2> QED BY <2>1 DEF Starts
<1>8. ASSUME NEW j \in Len(writes) + 1..Len(writes')
      PROVE  /\ writes'[j].kind \in {"flush", "create"} /\ options.streaming
             /\ writes'[j].c \in 1..Len(cycles')
  <2>1. ~Continues BY <1>3 DEF Continues
  <2>2. Starts BY <2>1
  <2>3. options.streaming BY <2>2, <1>3 DEF Starts
  <2>4. /\ Len(writes') = Len(writes) + 2 /\ Len(cycles') = n + 1
        /\ writes'[Len(writes) + 1] = Job("flush", "edit", n)
        /\ writes'[Len(writes) + 2] = Job("create", "create", n + 1)
    BY <2>2, <2>3 DEF Starts
  <2>5. j = Len(writes) + 1 \/ j = Len(writes) + 2 BY <2>4, <1>3
  <2>6. n \in 1..n + 1 /\ n + 1 \in 1..n + 1 BY <1>3
  <2> QED BY <2>3, <2>4, <2>5, <2>6 DEF Job
<1>9. timer' # 0 => options.streaming
  <2>1. timer # 0 => options.streaming BY DEF BaseInv, WritesOK
  <2> QED BY <2>1 DEF Continues, Starts
<1>10. ~closed /\ outcome = "running" /\ (\A j \in 1..Len(writes) : ~Closing(writes[j]))
       /\ \A m \in 1..Len(chat) : chat[m].as # "silent"
  BY RunGoesOn DEF BaseInv, Aside
<1>11. ASSUME NEW j \in 1..Len(writes')
       PROVE  ~Closing(writes'[j])
  <2>1. CASE j \in 1..Len(writes) BY <2>1, <1>7, <1>10 DEF Grown
  <2>2. CASE j \in Len(writes) + 1..Len(writes') BY <2>2, <1>8 DEF Closing
  <2> QED BY <2>1, <2>2, <1>3
<1>12. outcome' = "running" /\ ~closed' /\ chat' = chat /\ options' = options BY <1>10 DEF Aside
<1>13. EndOK'
  <2>1. closed \in BOOLEAN /\ closed' = closed BY <1>2 DEF ProjTypeOK, Aside
  <2>2. closed' = (outcome' # "running") /\ (closed' => timer' = 0) BY <2>1, <1>12
  <2> QED BY <1>11, <1>12, <2>2 DEF EndOK
<1>14. SilentOK' BY <1>10, <1>12 DEF SilentOK
<1>15. ProjTypeOK'
  <2>1. cycles' # <<>>
    <3>1. Len(cycles') # 0 BY <1>3, <1>4
    <3> QED BY <3>1, EmptySeq
  <2>2. ASSUME NEW c \in 1..Len(cycles')
        PROVE  cycles'[c].msg <= Len(chat') /\ (cycles'[c].state # "text" => cycles'[c].text = {})
    <3>1. CASE c \in 1..n
      <4>1. cycles'[c].msg = cycles[c].msg /\ cycles[c].msg <= Len(chat)
        BY <3>1, <1>2, <1>5 DEF Streamed, ProjTypeOK, active
      <4>2. CASE c # n
        <5>1. cycles'[c] = cycles[c] BY <3>1, <4>2 DEF Continues, Starts
        <5> QED BY <5>1, <4>1, <3>1, <1>2, <1>12 DEF ProjTypeOK, active
      <4>3. CASE c = n
        <5>1. Starts => cycles'[n].state = "text"
          <6>1. cycles[n] \in OutputCycle BY <1>1, <1>3 DEF Shapes
          <6> QED BY <6>1 DEF Starts, OutputCycle
        <5>2. Continues => (cycles'[n].state # "text" => cycles'[n].text = {}) BY DEF Continues
        <5> QED BY <4>1, <4>3, <5>1, <5>2, <1>12
      <4> QED BY <4>2, <4>3
    <3>2. CASE c \in n + 1..Len(cycles')
      <4>1. Starts /\ c = n + 1 /\ cycles'[c].msg = 0 BY <3>2, <1>6
      <4>2. Len(chat) \in Nat BY <1>1 DEF Shapes
      <4> QED BY <4>1, <4>2, <1>12 DEF Starts
    <3> QED BY <3>1, <3>2, <1>3
  <2>3. timer' \in 0..Len(cycles')
    <3>1. timer \in 0..n BY <1>2 DEF ProjTypeOK, active
    <3>2. timer' \in {timer, n, 0} BY DEF Continues, Starts
    <3> QED BY <3>1, <3>2, <1>3, <1>4
  <2>4. writes' \in Seq(QueuedWrite) BY <1>7 DEF Grown
  <2>5. \A c, d \in 1..Len(cycles') : rows'[c] = "open" /\ rows'[d] = "open" => c = d
    BY <1>4 DEF RowsFollow, OpenOnce
  <2>6. overtaken' \subseteq Nat
    <3>1. overtaken \subseteq Nat /\ Len(cycles') \in Nat
      BY <1>2, <1>4, LenProperties DEF ProjTypeOK
    <3> QED BY <3>1 DEF Aside
  <2>7. /\ options' \in [streaming : BOOLEAN, directive : BOOLEAN] /\ closed' \in BOOLEAN
        /\ chat' \in Seq(Message) /\ reacted' \subseteq Nat /\ target' \in Nat
        /\ response' \in 1..Len(chat') /\ moves' \in Nat /\ lost' \in Nat
        /\ late' \in BOOLEAN /\ steering' \in BOOLEAN
    BY <1>2 DEF Aside, ProjTypeOK
  <2> QED BY <1>4, <1>12, <2>1, <2>2, <2>3, <2>4, <2>5, <2>6, <2>7 DEF ProjTypeOK, active, RowState
<1> QED BY <1>3, <1>4, <1>5, <1>6, <1>7, <1>8, <1>9, <1>10, <1>12, <1>13, <1>14, <1>15, GrownBase

\* A text event keeps the base invariant.
LEMMA TextDeltaBase ==
  ASSUME BaseInv, TextDelta
  PROVE  BaseInv'
<1>1. ProjTypeOK /\ WritesOK BY DEF BaseInv
<1>2. thoughts \in Nat BY <1>1 DEF ProjTypeOK
<1> QED BY <1>1, <1>2, TextDeltaSteps, EventBase

\* An event without text keeps the base invariant.
LEMMA ProgressBase ==
  ASSUME BaseInv, Progress
  PROVE  BaseInv'
<1>1. ProjTypeOK /\ WritesOK BY DEF BaseInv
<1>2. parts \in Seq(Nat) BY <1>1 DEF ProjTypeOK
<1> QED BY <1>1, <1>2, ProgressSteps, EventBase


\* A write is put at the end of the chain.
LEMMA QueueChain ==
  ASSUME ProjTypeOK, NEW job \in QueuedWrite, Fresh(job), writes' = Append(writes, job)
  PROVE  /\ Grown /\ Len(writes') = Len(writes) + 1 /\ writes'[Len(writes) + 1] = job
         /\ \A j \in Len(writes) + 1..Len(writes') : writes'[j] = job
<1>1. Shapes BY ProjShapes
<1>2. writes \in Seq(QueuedWrite) /\ Len(writes) \in Nat BY <1>1 DEF ProjTypeOK, Shapes
<1>3. /\ writes' \in Seq(QueuedWrite) /\ Len(writes') = Len(writes) + 1 /\ writes' # <<>>
      /\ \A j \in 1..Len(writes) : writes'[j] = writes[j]
      /\ writes'[Len(writes) + 1] = job
  BY <1>2, AppendChain
<1>4. \A j \in Len(writes) + 1..Len(writes') : writes'[j] = job
  <2>1. \A j \in Len(writes) + 1..Len(writes') : j = Len(writes) + 1 BY <1>2, <1>3
  <2> QED BY <2>1, <1>3
<1>5. writes # <<>> => writes'[1] = writes[1]
  <2>1. writes # <<>> => 1 \in 1..Len(writes) BY <1>1 DEF Shapes
  <2> QED BY <2>1, <1>3
<1>6. writes = <<>> => Fresh(writes'[1])
  <2>1. writes = <<>> => Len(writes) + 1 = 1 BY <1>1 DEF Shapes
  <2> QED BY <2>1, <1>3
<1>7. Len(writes) <= Len(writes') BY <1>2, <1>3
<1> QED BY <1>3, <1>4, <1>5, <1>6, <1>7 DEF Grown

\* What a request asks of the chain: its output stays.
LEMMA RequestBase ==
  ASSUME BaseInv, NEW job \in QueuedWrite, Fresh(job), writes' = Append(writes, job),
         UNCHANGED <<options, output, shown, parts, thoughts, lost, overtaken>>,
         timer' \in {timer, 0}, closed' \in BOOLEAN, closed => closed',
         steering' \in BOOLEAN, moves' \in Nat, late' \in BOOLEAN,
         outcome' \in {outcome, "ending"},
         job.kind \in {"flush", "create"} => options.streaming /\ job.c \in 1..Len(cycles),
         EndOK', SilentOK', outcome' = "done" /\ ~late' => ~late
  PROVE  BaseInv'
<1>1. Shapes /\ ProjTypeOK BY ProjShapes DEF BaseInv
<1>2. job.kind \in {"flush", "create", "move", "finish", "fail"} BY WriteTypes
<1>3. /\ Grown /\ Len(writes') = Len(writes) + 1
      /\ \A j \in Len(writes) + 1..Len(writes') : writes'[j] = job
  BY <1>1, QueueChain
<1>4. cycles' = cycles /\ rows' = rows /\ chat' = chat /\ response' = response
      /\ reacted' = reacted /\ target' = target
  BY DEF output, shown
<1>5. Len(cycles) \in Nat BY <1>1 DEF Shapes
<1>6. \A c \in 1..Len(cycles) : Streamed(cycles[c], cycles'[c])
  BY <1>1, <1>4 DEF Shapes, Streamed
<1>7. \A c \in Len(cycles) + 1..Len(cycles') : cycles'[c].msg = 0
  <2>1. \A c \in Len(cycles) + 1..Len(cycles) : FALSE BY <1>5
  <2> QED BY <2>1, <1>4
<1>8. timer # 0 => options.streaming BY DEF BaseInv, WritesOK
<1>9. ProjTypeOK'
  <2>1. timer' \in 0..Len(cycles)
    <3>1. timer \in 0..Len(cycles) BY <1>1 DEF ProjTypeOK, active
    <3> QED BY <3>1, <1>5
  <2>2. writes' \in Seq(QueuedWrite) BY <1>3 DEF Grown
  <2> QED BY <1>1, <1>4, <2>1, <2>2 DEF ProjTypeOK, active
<1> QED BY <1>2, <1>3, <1>4, <1>5, <1>6, <1>7, <1>8, <1>9, GrownBase

\* The scheduled edit is queued: the base invariant stands.
LEMMA TimerFiresBase ==
  ASSUME BaseInv, TimerFires
  PROVE  BaseInv'
<1> DEFINE job == Job("flush", "edit", timer)
<1>1. Shapes /\ ProjTypeOK BY ProjShapes DEF BaseInv
<1>2. timer \in 1..Len(cycles) /\ timer \in Nat /\ timer' = 0 /\ options.streaming
  <2>1. timer \in 0..Len(cycles) /\ timer # 0 /\ timer' = 0
    BY <1>1 DEF TimerFires, ProjTypeOK, active
  <2> QED BY <1>1, <2>1 DEF Shapes, BaseInv, WritesOK
<1>3. job \in QueuedWrite /\ Fresh(job) /\ job.kind = "flush" /\ job.c = timer
  <2>1. First("flush") = "edit" BY DEF First
  <2> QED BY <1>2, <2>1, JobFresh
<1>4. writes' = Append(writes, job) BY DEF TimerFires
<1>5. UNCHANGED <<options, output, closed, shown, steering, outcome, past>> BY DEF TimerFires
<1> HIDE DEF job
<1>6. ~closed BY <1>2 DEF BaseInv, EndOK, TimerFires
<1>7. /\ outcome = "running" /\ \A j \in 1..Len(writes) : ~Closing(writes[j])
      /\ \A m \in 1..Len(chat) : chat[m].as # "silent"
  BY <1>6, RunGoesOn DEF BaseInv
<1>8. ASSUME NEW j \in 1..Len(writes')
      PROVE  ~Closing(writes'[j])
  <2>1. /\ Grown /\ \A i \in Len(writes) + 1..Len(writes') : writes'[i] = job
    BY <1>1, <1>3, <1>4, QueueChain
  <2>2. CASE j \in 1..Len(writes) BY <2>1, <2>2, <1>7 DEF Grown
  <2>3. CASE j \in Len(writes) + 1..Len(writes') BY <2>1, <2>3, <1>3 DEF Closing
  <2>4. Len(writes) \in Nat BY <1>1 DEF Shapes
  <2> QED BY <2>2, <2>3, <2>4
<1>9. EndOK' BY <1>5, <1>6, <1>7, <1>8 DEF BaseInv, EndOK
<1>10. SilentOK' BY <1>5, <1>7 DEF SilentOK, shown
<1>11. closed \in BOOLEAN /\ steering \in BOOLEAN /\ moves \in Nat /\ late \in BOOLEAN
  BY <1>1 DEF ProjTypeOK
<1> QED BY <1>2, <1>3, <1>4, <1>5, <1>9, <1>10, <1>11, RequestBase DEF past

\* The one write that ends the run is asked for.
LEMMA CloseBase ==
  ASSUME BaseInv, NEW job \in QueuedWrite, Fresh(job), Closing(job), ~closed, Close(job),
         outcome' = "ending", UNCHANGED <<options, output, shown, steering, past>>
  PROVE  BaseInv'
<1>1. Shapes /\ ProjTypeOK BY ProjShapes DEF BaseInv
<1>2. closed' = TRUE /\ timer' = 0 /\ writes' = Append(writes, job) BY DEF Close
<1>3. /\ outcome = "running" /\ \A j \in 1..Len(writes) : ~Closing(writes[j])
      /\ \A m \in 1..Len(chat) : chat[m].as # "silent"
  BY RunGoesOn DEF BaseInv
<1>4. /\ Grown /\ Len(writes') = Len(writes) + 1
      /\ \A i \in Len(writes) + 1..Len(writes') : writes'[i] = job
  BY <1>1, <1>2, QueueChain
<1>5. ASSUME NEW j \in 1..Len(writes'), Closing(writes'[j])
      PROVE  j = Len(writes')
  <2>1. Len(writes) \in Nat BY <1>1 DEF Shapes
  <2>2. CASE j \in 1..Len(writes) BY <2>2, <1>3, <1>4, <1>5 DEF Grown
  <2> QED BY <2>1, <2>2, <1>4
<1>6. EndOK' BY <1>2, <1>5 DEF EndOK
<1>7. SilentOK' BY <1>3 DEF SilentOK, shown
<1>8. steering \in BOOLEAN /\ moves \in Nat /\ late \in BOOLEAN BY <1>1 DEF ProjTypeOK
<1>9. job.kind \notin {"flush", "create"} BY DEF Closing
<1> QED BY <1>2, <1>6, <1>7, <1>8, <1>9, RequestBase DEF past

\* finish is queued: the base invariant stands.
LEMMA FinishBase ==
  ASSUME BaseInv, Finish
  PROVE  BaseInv'
<1>1. PICK result \in {"all", "last", "none", "silent"} :
        Close([Job("finish", "unreact", 0) EXCEPT !.result = result])
  BY DEF Finish
<1> DEFINE job == [Job("finish", "unreact", 0) EXCEPT !.result = result]
<1>2. job \in QueuedWrite /\ Fresh(job) /\ Closing(job)
  <2>1. "unreact" \in WriteStep /\ "end" \in WriteStep /\ "none" \in NetworkCall
    BY DEF WriteStep, NetworkCall
  <2> QED BY <2>1 DEF Job, QueuedWrite, Fresh, First, NoCall, Closing
<1>3. Close(job) BY <1>1
<1> HIDE DEF job
<1> QED BY <1>2, <1>3, CloseBase DEF Finish

\* The write that fail queues has not begun.
LEMMA FailJobFresh == FailJob \in QueuedWrite /\ Fresh(FailJob) /\ FailJob.kind = "fail"
<1>1. First("fail") = "unreact" BY DEF First
<1>2. FailJob = Job("fail", First("fail"), 0) BY <1>1 DEF FailJob
<1> QED BY <1>2, JobFresh

\* fail is queued: the base invariant stands.
LEMMA FailBase ==
  ASSUME BaseInv, Fail
  PROVE  BaseInv'
<1>1. FailJob \in QueuedWrite /\ Fresh(FailJob) /\ Closing(FailJob) BY FailJobFresh DEF Closing
<1> QED BY <1>1, CloseBase DEF Fail

\* move is queued: the base invariant stands.
LEMMA MoveBase ==
  ASSUME BaseInv, Move
  PROVE  BaseInv'
<1> DEFINE job == [Job("move", "previous", 0) EXCEPT !.trigger = moves + 1]
<1>1. Shapes /\ ProjTypeOK BY ProjShapes DEF BaseInv
<1>2. moves \in Nat /\ moves' = moves + 1 /\ moves' \in Nat
  <2>1. moves \in Nat BY <1>1 DEF ProjTypeOK
  <2>2. moves' = moves + 1 BY DEF Move
  <2> QED BY <2>1, <2>2
<1>3. job \in QueuedWrite /\ Fresh(job) /\ job.kind = "move"
  <2>1. "previous" \in WriteStep /\ "end" \in WriteStep /\ "none" \in NetworkCall
    BY DEF WriteStep, NetworkCall
  <2> DEFINE n == moves + 1
  <2>2. n \in Nat BY <1>2
  <2> HIDE DEF n
  <2>3. [Job("move", "previous", 0) EXCEPT !.trigger = n] \in QueuedWrite
        /\ Fresh([Job("move", "previous", 0) EXCEPT !.trigger = n])
        /\ [Job("move", "previous", 0) EXCEPT !.trigger = n].kind = "move"
    BY <2>1, <2>2 DEF Job, QueuedWrite, Fresh, First, NoCall
  <2> QED BY <2>3 DEF n
<1>4. writes' = Append(writes, job) BY DEF Move
<1> HIDE DEF job
<1>5. /\ timer' = 0 /\ late' = (late \/ closed) /\ steering' = FALSE
      /\ UNCHANGED <<options, output, closed, shown, parts, thoughts, outcome, lost, overtaken>>
  BY DEF Move
<1>6. /\ Grown /\ Len(writes') = Len(writes) + 1
      /\ \A i \in Len(writes) + 1..Len(writes') : writes'[i] = job
  BY <1>1, <1>3, <1>4, QueueChain
<1>7. ASSUME NEW j \in 1..Len(writes'), Closing(writes'[j]) \/ Answering(writes'[j])
      PROVE  j \in 1..Len(writes) /\ writes'[j] = writes[j]
  <2>1. Len(writes) \in Nat BY <1>1 DEF Shapes
  <2>2. CASE j \in 1..Len(writes) BY <2>2, <1>6 DEF Grown
  <2>3. CASE j \in Len(writes) + 1..Len(writes') BY <2>3, <1>3, <1>6, <1>7 DEF Closing, Answering
  <2> QED BY <2>1, <2>2, <2>3
<1>8. late \in BOOLEAN /\ closed \in BOOLEAN BY <1>1 DEF ProjTypeOK
<1>9. ~late' => /\ ~closed /\ outcome = "running" /\ \A j \in 1..Len(writes) : ~Closing(writes[j])
  <2>1. ~closed => /\ outcome = "running" /\ \A j \in 1..Len(writes) : ~Closing(writes[j])
    BY RunGoesOn DEF BaseInv
  <2> QED BY <2>1, <1>5, <1>8
<1>10. EndOK'
  <2>1. closed' = (outcome' # "running") /\ (closed' => timer' = 0) BY <1>5 DEF BaseInv, EndOK
  <2>2. \A j \in 1..Len(writes') : Closing(writes'[j]) => outcome' = "ending"
    BY <1>5, <1>7 DEF BaseInv, EndOK
  <2>3. \A i, j \in 1..Len(writes') : Closing(writes'[i]) /\ Closing(writes'[j]) => i = j
    BY <1>7 DEF BaseInv, EndOK
  <2>4. ~late' => \A j \in 1..Len(writes') : Closing(writes'[j]) => j = Len(writes')
    BY <1>7, <1>9
  <2>5. ~late' => outcome' = "running" BY <1>5, <1>9
  <2> QED BY <2>1, <2>2, <2>3, <2>4, <2>5 DEF EndOK
<1>11. SilentOK' BY <1>5, <1>7 DEF BaseInv, SilentOK, shown
<1>12. outcome' = "done" /\ ~late' => ~late BY <1>5, <1>8
<1>13. late' \in BOOLEAN BY <1>5
<1> QED BY <1>2, <1>3, <1>4, <1>5, <1>8, <1>10, <1>11, <1>12, <1>13, RequestBase

\* Taking a steering message changes nothing that is invariant.
LEMMA SteerBase ==
  ASSUME BaseInv, Steer
  PROVE  BaseInv'
<1> USE DEF Steer, output, shown, past
<1>1. ProjTypeOK' BY DEF BaseInv, ProjTypeOK, active
<1>2. WritesOK' /\ CallOK' /\ LinkOK' /\ EndOK'
  BY DEF BaseInv, WritesOK, CallOK, LinkOK, EndOK, active
<1>3. PlaceOK' /\ SilentOK' BY DEF BaseInv, PlaceOK, SilentOK, active
<1>4. ShownOK' BY DEF BaseInv, ShownOK
<1> QED BY <1>1, <1>2, <1>3, <1>4 DEF BaseInv


-----------------------------------------------------------------------------
(* Steps of the write under way *)

\* The write at hand.
LEMMA AtHand ==
  ASSUME BaseInv, NEW j \in 1..Len(writes), Turn(j)
  PROVE  /\ ProjTypeOK /\ Shapes /\ j = 1 /\ writes # <<>> /\ writes[1] \in QueuedWrite
         /\ WriteOK(writes[1], Len(cycles), closed, options.streaming)
         /\ CallFits(writes[1], cycles, chat) /\ Place(writes[1], cycles)
         /\ Told(writes[1], cycles, chat)
         /\ (Closing(writes[1]) => closed /\ outcome = "ending") /\ ~(outcome = "done" /\ ~late)
         /\ Len(cycles) \in Nat /\ 1 <= Len(cycles) /\ Len(cycles) \in 1..Len(cycles)
         /\ cycles \in Seq(OutputCycle) /\ rows \in Seq(RowState) /\ Len(rows) = Len(cycles)
         /\ OpenOnce(rows)
<1>1. ProjTypeOK /\ Shapes BY ProjShapes DEF BaseInv
<1>2. j = 1 BY DEF Turn
<1>3. writes # <<>>
  <2>1. writes = <<>> => Len(writes) = 0 BY <1>1 DEF Shapes
  <2> QED BY <2>1
<1>4. writes[1] \in QueuedWrite BY <1>1, <1>2 DEF Shapes
<1>5. WriteOK(writes[1], Len(cycles), closed, options.streaming)
  BY <1>2 DEF BaseInv, WritesOK, active
<1>6. CallFits(writes[1], cycles, chat) /\ Place(writes[1], cycles) /\ Told(writes[1], cycles, chat)
  BY <1>3, Zenon DEF BaseInv, CallOK, PlaceOK, ShownOK
<1>7. Closing(writes[1]) => closed /\ outcome = "ending" BY <1>2 DEF BaseInv, EndOK
<1>8. ~(outcome = "done" /\ ~late) BY <1>3 DEF BaseInv, EndOK
<1>9. Len(cycles) \in Nat /\ 1 <= Len(cycles) /\ Len(rows) = Len(cycles) BY <1>1 DEF Shapes
<1>10. Len(cycles) \in 1..Len(cycles) BY <1>9
<1>11. cycles \in Seq(OutputCycle) /\ rows \in Seq(RowState) BY <1>1 DEF ProjTypeOK, RowState
<1>12. OpenOnce(rows) BY <1>1, <1>9 DEF ProjTypeOK, OpenOnce, active
<1> QED BY <1>1, <1>2, <1>3, <1>4, <1>5, <1>6, <1>7, <1>8, <1>9, <1>10, <1>11, <1>12

\* What such a step leaves of the cycles, of the rows and of the rest.
CyclesKept ==
  /\ cycles' \in Seq(OutputCycle) /\ Len(cycles) <= Len(cycles')
  /\ \A d \in 1..Len(cycles) : /\ cycles'[d].msg = cycles[d].msg /\ cycles[d].ver <= cycles'[d].ver
                               /\ (cycles'[d].state # "text" => cycles'[d].text = {})
  /\ \A d \in Len(cycles) + 1..Len(cycles') :
       cycles'[d].msg = 0 /\ (cycles'[d].state # "text" => cycles'[d].text = {})
RowsKept == rows' \in Seq(RowState) /\ Len(rows') = Len(cycles') /\ OpenOnce(rows')
\* What a step of the write under way leaves alone.
HeadAside ==
  /\ UNCHANGED <<options, timer, closed, chat, reacted, response, steering, outcome, past>>
  /\ target' \in Nat

\* A step of the write under way keeps the base invariant if the write fits the new cycles.
LEMMA HeadBase ==
  ASSUME BaseInv, SameChain, HeadAside, CyclesKept, RowsKept, NEW job, job = writes'[1],
         StepsOK(job), CallsFit(job),
         job.at \in {"edit", "create", "delete", "emit"} => job.c \in 1..Len(cycles'),
         job.at = "post" => job.c = Len(cycles') + 1 /\ closed,
         CallFits(job, cycles', chat), Place(job, cycles'), Told(job, cycles', chat)
  PROVE  BaseInv'
<1>1. ProjTypeOK /\ Shapes BY ProjShapes DEF BaseInv
<1>2. Len(cycles') \in Nat /\ Len(cycles) \in Nat BY <1>1, LenProperties DEF CyclesKept, Shapes
<1>3. chat' = chat /\ closed' = closed /\ options' = options /\ timer' = timer /\ outcome' = outcome
      /\ late' = late
  BY DEF HeadAside, past
<1>4. ProjTypeOK'
  <2>1. ASSUME NEW c \in 1..Len(cycles')
        PROVE  cycles'[c].msg <= Len(chat) /\ (cycles'[c].state # "text" => cycles'[c].text = {})
    <3>1. CASE c \in 1..Len(cycles)
      <4>1. cycles[c].msg \in 0..Len(chat) /\ Len(chat) \in Nat BY <3>1, <1>1 DEF Shapes
      <4> QED BY <3>1, <4>1 DEF CyclesKept
    <3>2. CASE c \in Len(cycles) + 1..Len(cycles')
      <4>1. Len(chat) \in Nat BY <1>1 DEF Shapes
      <4> QED BY <3>2, <4>1 DEF CyclesKept
    <3> QED BY <3>1, <3>2, <1>2
  <2> QED BY <1>1, <2>1, HeadTypes DEF CyclesKept, RowsKept, HeadAside
<1>5. WritesOK'
  <2>1. WriteOK(writes[1], Len(cycles), closed, options.streaming) /\ 1 \in 1..Len(writes)
    <3>1. 1 \in 1..Len(writes) BY <1>1 DEF SameChain, Shapes
    <3> QED BY <3>1 DEF BaseInv, WritesOK, active
  <2>2. job.kind \in {"flush", "create"} => options.streaming BY <2>1 DEF WriteOK, SameChain
  <2>3. WriteOK(job, Len(cycles'), closed', options.streaming) BY <1>3, <2>2, Zenon DEF WriteOK
  <2> QED BY <1>1, <1>2, <1>3, <2>3, MovedWrites DEF BaseInv, CyclesKept
<1>6. LinkOK'
  <2>1. \A c \in 1..Len(cycles') : cycles'[c] \in OutputCycle BY ElementOfSeq DEF CyclesKept
  <2>2. \A c \in 1..Len(cycles) : c \in 1..Len(cycles') BY <1>2 DEF CyclesKept
  <2>3. \A c \in 1..Len(cycles) : cycles'[c].ver \in Nat BY <2>1, <2>2, CycleTypes
  <2> QED BY <1>1, <1>2, <1>3, <2>3, LinkKept DEF BaseInv, CyclesKept
<1>7. EndOK' /\ SilentOK' BY <1>1, <1>3, EndKept DEF BaseInv
<1>8. CallOK' /\ PlaceOK' BY <1>3 DEF CallOK, PlaceOK
<1>9. ShownOK'
  <2>1. ~(outcome' = "done" /\ ~late') BY <1>3 DEF BaseInv, EndOK, SameChain
  <2> QED BY <1>3, <2>1, Zenon DEF ShownOK
<1> QED BY <1>4, <1>5, <1>6, <1>7, <1>8, <1>9 DEF BaseInv

\* The cycles or the rows stay.
LEMMA SameOutput ==
  ASSUME BaseInv
  PROVE  /\ cycles' = cycles => CyclesKept
         /\ cycles' = cycles /\ rows' = rows => RowsKept
<1>1. ProjTypeOK /\ Shapes BY ProjShapes DEF BaseInv
<1>2. cycles \in Seq(OutputCycle) /\ Len(cycles) \in Nat /\ rows \in Seq(RowState)
      /\ Len(rows) = Len(cycles)
  BY <1>1 DEF ProjTypeOK, Shapes, RowState
<1>3. \A d \in 1..Len(cycles) : cycles[d].ver \in Nat
      /\ (cycles[d].state # "text" => cycles[d].text = {})
  BY <1>1 DEF Shapes, ProjTypeOK, active
<1>4. cycles' = cycles => CyclesKept
  <2>1. \A d \in Len(cycles) + 1..Len(cycles) : FALSE BY <1>2
  <2> QED BY <1>2, <1>3, <2>1 DEF CyclesKept
<1>5. OpenOnce(rows) BY <1>1, <1>2 DEF ProjTypeOK, OpenOnce, active
<1> QED BY <1>2, <1>4, <1>5 DEF RowsKept

\* One cycle changes.
LEMMA OneKept ==
  ASSUME BaseInv, NEW c \in 1..Len(cycles), NEW x \in OutputCycle, x.msg = cycles[c].msg,
         cycles[c].ver <= x.ver, x.state # "text" => x.text = {}, cycles' = [cycles EXCEPT ![c] = x]
  PROVE  /\ CyclesKept /\ Len(cycles') = Len(cycles) /\ cycles'[c] = x
         /\ \A d \in 1..Len(cycles) : d # c => cycles'[d] = cycles[d]
<1>1. ProjTypeOK /\ Shapes BY ProjShapes DEF BaseInv
<1>2. cycles \in Seq(OutputCycle) /\ Len(cycles) \in Nat BY <1>1 DEF ProjTypeOK, Shapes
<1>3. /\ cycles' \in Seq(OutputCycle) /\ Len(cycles') = Len(cycles) /\ cycles'[c] = x
      /\ \A d \in 1..Len(cycles) \ {c} : cycles'[d] = cycles[d]
  BY <1>2, OneCycle
<1>4. \A d \in 1..Len(cycles) : cycles[d].ver \in Nat
      /\ (cycles[d].state # "text" => cycles[d].text = {})
  BY <1>1 DEF Shapes, ProjTypeOK, active
<1>5. \A d \in 1..Len(cycles) : d # c => cycles'[d] = cycles[d] BY <1>3
<1>6. \A d \in Len(cycles) + 1..Len(cycles') : FALSE BY <1>2, <1>3
<1>7. ASSUME NEW d \in 1..Len(cycles)
      PROVE  /\ cycles'[d].msg = cycles[d].msg /\ cycles[d].ver <= cycles'[d].ver
             /\ (cycles'[d].state # "text" => cycles'[d].text = {})
  <2>1. CASE d = c BY <2>1, <1>3
  <2>2. CASE d # c
    <3>1. cycles'[d] = cycles[d] BY <2>2, <1>5
    <3>2. cycles[d].ver \in Nat BY <1>4
    <3>3. cycles[d].ver <= cycles[d].ver BY <3>2
    <3> QED BY <3>1, <3>3, <1>4
  <2> QED BY <2>1, <2>2
<1>8. Len(cycles) <= Len(cycles') BY <1>2, <1>3
<1>9. CyclesKept BY <1>3, <1>6, <1>7, <1>8, Zenon DEF CyclesKept
<1> QED BY <1>3, <1>5, <1>9

\* A cycle is reported.
LEMMA EmitKept ==
  ASSUME BaseInv, NEW cs \in Seq(OutputCycle), Len(cs) = Len(cycles), NEW c \in 1..Len(cycles),
         Emit(cs, c)
  PROVE  /\ RowsKept
         /\ \A d \in 1..Len(cycles) : d # c /\ rows'[d] = "open" => rows[d] = "open"
         /\ rows'[c] = "open" => IF cs[c].msg = 0 THEN rows[c] = "open" ELSE Live(cs[c])
<1>1. ProjTypeOK /\ Shapes BY ProjShapes DEF BaseInv
<1>2. rows \in Seq(RowState) /\ Len(rows) = Len(cycles) BY <1>1 DEF ProjTypeOK, Shapes, RowState
<1>3. OpenOnce(rows) BY <1>1, <1>2 DEF ProjTypeOK, OpenOnce, active
<1>4. cycles' = cs /\ rows' = Emitted(rows, cs, c) BY DEF Emit
<1>5. c \in 1..Len(rows) /\ Len(cs) = Len(rows) BY <1>2
<1>6. /\ Emitted(rows, cs, c) \in Seq(RowState) /\ Len(Emitted(rows, cs, c)) = Len(rows)
      /\ OpenOnce(Emitted(rows, cs, c))
      /\ \A d \in 1..Len(rows) \ {c} : Emitted(rows, cs, c)[d] = "open" => rows[d] = "open"
      /\ Emitted(rows, cs, c)[c] = "open" =>
           IF cs[c].msg = 0 THEN rows[c] = "open" ELSE Live(cs[c])
  BY <1>2, <1>3, <1>5, EmittedRows
<1>7. RowsKept BY <1>2, <1>4, <1>6 DEF RowsKept
<1>8. \A d \in 1..Len(cycles) : d # c /\ rows'[d] = "open" => rows[d] = "open" BY <1>2, <1>4, <1>6
<1> QED BY <1>4, <1>6, <1>7, <1>8


\* A cycle changes in nothing the rest of the module looks at.
Alike(x, y) ==
  /\ y.state = x.state /\ y.part = x.part /\ y.text = x.text /\ y.ver = x.ver /\ y.msg = x.msg
  /\ y.completed = x.completed /\ y.deleted = x.deleted /\ y.failed = x.failed
SameCycles == Len(cycles') = Len(cycles) /\ \A c \in 1..Len(cycles) : Alike(cycles[c], cycles'[c])

\* The first write takes a step and keeps what it is about.
NextWrite(job) ==
  /\ SameChain /\ job = writes'[1] /\ job.kind = writes[1].kind /\ job.result = writes[1].result
  /\ job.trigger = writes[1].trigger

\* What editCycleNow does: go on, forget the message, or ask for an edit, a recall, a message.
LEMMA EditNowSteps ==
  ASSUME BaseInv, NEW j \in 1..Len(writes), EditNow(j), NEW job, job = writes'[1]
  PROVE  /\ NextWrite(job) /\ HeadAside /\ CyclesKept /\ RowsKept /\ SameCycles /\ rows' = rows
         /\ writes[1].at = "edit" /\ writes[1].call.op = "none" /\ writes[1].c \in 1..Len(cycles)
         /\ job.c = writes[1].c
         /\ LET cycle == cycles[job.c] IN
            \/ cycle.deleted /\ job.at = writes[1].then /\ job.then = "end" /\ job.call = NoCall
            \/ /\ ~cycle.deleted /\ job.at = "edit" /\ job.then = writes[1].then
               /\ \/ cycle.msg # 0 /\ cycle.state = "text"
                     /\ job.call = [op |-> "recall", ver |-> 0, msg |-> cycle.msg]
                  \/ cycle.msg = 0 /\ cycle.state = "text" /\ job.call.op = "none"
                  \/ cycle.msg # 0
                     /\ job.call = [op |-> "edit", ver |-> cycle.ver, msg |-> cycle.msg]
                  \/ cycle.msg = 0 /\ job.call = [op |-> "create", ver |-> cycle.ver, msg |-> 0]
<1> DEFINE c == writes[1].c
           cycle == cycles[c]
<1>1. Turn(j) /\ writes[j].at = "edit" /\ writes[j].call.op = "none" BY DEF EditNow, Here
<1>2. /\ ProjTypeOK /\ Shapes /\ j = 1 /\ writes # <<>> /\ writes[1] \in QueuedWrite
      /\ WriteOK(writes[1], Len(cycles), closed, options.streaming)
      /\ cycles \in Seq(OutputCycle)
  BY <1>1, AtHand
<1>3. c \in 1..Len(cycles) BY <1>1, <1>2 DEF WriteOK
<1>4. cycle \in OutputCycle /\ cycle.ver \in Nat /\ cycle.msg \in Nat
  <2>1. cycle \in OutputCycle BY <1>2, <1>3 DEF Shapes
  <2> QED BY <2>1, CycleTypes
<1>5. HeadAside
  <2>1. target \in Nat BY <1>2 DEF ProjTypeOK
  <2> QED BY <2>1 DEF EditNow, OnlyJobs, HeadAside, shown
<1>6. rows' = rows BY DEF EditNow
<1>7. cycles' = cycles => SameCycles BY DEF SameCycles, Alike
<1>8. /\ cycle.deleted /\ Through(j) /\ cycles' = cycles
      \/ /\ ~cycle.deleted /\ WantsReply(cycle) /\ cycles' = [cycles EXCEPT ![c].reply = TRUE]
         /\ IF cycle.msg # 0 THEN Calling(j, "recall", 0, cycle.msg) ELSE writes' = writes
      \/ /\ ~cycle.deleted /\ ~WantsReply(cycle) /\ cycles' = cycles
         /\ Calling(j, IF cycle.msg # 0 THEN "edit" ELSE "create", cycle.ver, cycle.msg)
  BY <1>2 DEF EditNow
<1>9. "edit" \in NetworkCall /\ "create" \in NetworkCall /\ "recall" \in NetworkCall
  BY DEF NetworkCall
<1>10. CASE cycle.deleted /\ Through(j) /\ cycles' = cycles
  <2>1. SameChain /\ Stands(Following(writes[1]), c, "end") /\ writes'[1].call = NoCall
    BY <1>1, <1>2, <1>10, ThroughChain
  <2>2. Following(writes[1]) = writes[1].then BY <1>1, <1>2 DEF Following
  <2>3. CyclesKept /\ RowsKept BY <1>6, <1>10, SameOutput
  <2> QED BY <1>1, <1>2, <1>3, <1>5, <1>6, <1>7, <1>10, <2>1, <2>2, <2>3
    DEF NextWrite, SameChain, Stands
<1>11. CASE /\ ~cycle.deleted /\ WantsReply(cycle) /\ cycles' = [cycles EXCEPT ![c].reply = TRUE]
            /\ IF cycle.msg # 0 THEN Calling(j, "recall", 0, cycle.msg) ELSE writes' = writes
  <2> DEFINE x == [cycle EXCEPT !.reply = TRUE]
  <2>1. x \in OutputCycle /\ Alike(cycle, x) BY <1>4 DEF OutputCycle, Alike
  <2>2. cycles' = [cycles EXCEPT ![c] = x] BY <1>11
  <2>3. x.state # "text" => x.text = {} BY <1>2, <1>3, <2>1 DEF ProjTypeOK, active, Alike
  <2> HIDE DEF x
  <2>4. x.msg = cycle.msg /\ cycle.ver <= x.ver BY <1>4, <2>1 DEF Alike
  <2>5. /\ CyclesKept /\ Len(cycles') = Len(cycles) /\ cycles'[c] = x
        /\ \A d \in 1..Len(cycles) : d # c => cycles'[d] = cycles[d]
    BY <1>3, <2>1, <2>2, <2>3, <2>4, OneKept
  <2>6. SameCycles
    <3>1. \A d \in 1..Len(cycles) : d # c => Alike(cycles[d], cycles'[d]) BY <2>5 DEF Alike
    <3> QED BY <2>1, <2>5, <3>1 DEF SameCycles
  <2>7. RowsKept
    <3>1. rows \in Seq(RowState) /\ Len(rows) = Len(cycles) /\ OpenOnce(rows) BY <1>1, AtHand
    <3> QED BY <1>6, <2>5, <3>1 DEF RowsKept
  <2>8. cycle.state = "text" BY <1>11 DEF WantsReply
  <2>9. CASE cycle.msg # 0
    <3>1. /\ SameChain /\ Stands(writes[1].at, c, writes[1].then)
          /\ writes'[1].call = [op |-> "recall", ver |-> 0, msg |-> cycle.msg]
      <4>1. Calling(j, "recall", 0, cycle.msg) BY <1>11, <2>9
      <4>2. 0 \in Nat OBVIOUS
      <4> HIDE DEF cycle
      <4> QED BY <1>1, <1>2, <1>4, <1>9, <4>1, <4>2, CallChain
    <3> QED BY <1>1, <1>2, <1>3, <1>5, <1>6, <1>11, <2>5, <2>6, <2>7, <2>8, <2>9, <3>1
        DEF NextWrite, SameChain, Stands
  <2>10. CASE cycle.msg = 0
    <3>1. writes' = writes BY <1>11, <2>10
    <3>2. SameChain BY <3>1, <1>2 DEF SameChain, ProjTypeOK, Shapes
    <3> QED BY <1>1, <1>2, <1>3, <1>5, <1>6, <1>11, <2>5, <2>6, <2>7, <2>8, <2>10, <3>1, <3>2
        DEF NextWrite
  <2> QED BY <2>9, <2>10
<1>12. CASE /\ ~cycle.deleted /\ ~WantsReply(cycle) /\ cycles' = cycles
            /\ Calling(j, IF cycle.msg # 0 THEN "edit" ELSE "create", cycle.ver, cycle.msg)
  <2> DEFINE op == IF cycle.msg # 0 THEN "edit" ELSE "create"
  <2>1. op \in NetworkCall BY <1>9
  <2>2. Calling(j, op, cycle.ver, cycle.msg) BY <1>12
  <2> HIDE DEF op
  <2>3. /\ SameChain /\ Stands(writes[1].at, c, writes[1].then)
        /\ writes'[1].call = [op |-> op, ver |-> cycle.ver, msg |-> cycle.msg]
    BY <1>1, <1>2, <1>4, <2>1, <2>2, CallChain
  <2>4. CyclesKept /\ RowsKept BY <1>6, <1>12, SameOutput
  <2> QED BY <1>1, <1>2, <1>3, <1>5, <1>6, <1>7, <1>12, <2>3, <2>4
    DEF NextWrite, SameChain, Stands, op
<1> QED BY <1>8, <1>10, <1>11, <1>12

\* editCycleNow keeps the base invariant.
LEMMA EditNowBase ==
  ASSUME BaseInv, NEW j \in 1..Len(writes), EditNow(j)
  PROVE  BaseInv'
<1> DEFINE job == writes'[1]
           old == writes[1]
<1>1. /\ Turn(j) BY DEF EditNow, Here
<1>2. /\ Shapes /\ old \in QueuedWrite /\ WriteOK(old, Len(cycles), closed, options.streaming)
      /\ Place(old, cycles) /\ Told(old, cycles, chat) /\ Len(cycles) \in Nat
  BY <1>1, AtHand
<1>3. /\ NextWrite(job) /\ HeadAside /\ CyclesKept /\ RowsKept /\ SameCycles /\ rows' = rows
      /\ old.at = "edit" /\ old.call.op = "none" /\ old.c \in 1..Len(cycles) /\ job.c = old.c
      /\ LET cycle == cycles[job.c] IN
         \/ cycle.deleted /\ job.at = old.then /\ job.then = "end" /\ job.call = NoCall
         \/ /\ ~cycle.deleted /\ job.at = "edit" /\ job.then = old.then
            /\ \/ cycle.msg # 0 /\ cycle.state = "text"
                  /\ job.call = [op |-> "recall", ver |-> 0, msg |-> cycle.msg]
               \/ cycle.msg = 0 /\ cycle.state = "text" /\ job.call.op = "none"
               \/ cycle.msg # 0
                  /\ job.call = [op |-> "edit", ver |-> cycle.ver, msg |-> cycle.msg]
               \/ cycle.msg = 0 /\ job.call = [op |-> "create", ver |-> cycle.ver, msg |-> 0]
  BY EditNowSteps
<1> HIDE DEF job
<1>4. /\ job.kind = old.kind /\ job.result = old.result /\ SameChain /\ job = writes'[1]
  BY <1>3 DEF NextWrite
<1> HIDE DEF old
<1>5. StepsOK(old) /\ CallsFit(old) BY <1>2 DEF WriteOK
<1>6. /\ old.kind \in {"flush", "create", "move", "finish", "fail"}
      /\ old.kind = "flush" => old.then = "end"
      /\ old.kind = "create" => FALSE
      /\ old.kind = "move" => old.then = "emit"
      /\ old.kind = "fail" => old.then \in {"notice", "failed"}
      /\ old.kind = "finish" /\ old.result = "silent" => old.then = "keep"
      /\ old.kind = "finish" /\ old.result # "silent" => old.then = "rewrite"
  <2>1. old.kind \in {"flush", "create", "move", "finish", "fail"} BY <1>2, WriteTypes
  <2> QED BY <1>3, <1>5, <2>1 DEF StepsOK
<1>7. /\ Len(cycles') = Len(cycles)
      /\ \A d \in 1..Len(cycles) : /\ cycles'[d].state = cycles[d].state
                                   /\ cycles'[d].ver = cycles[d].ver
                                   /\ cycles'[d].msg = cycles[d].msg
                                   /\ cycles'[d].deleted = cycles[d].deleted
  BY <1>3 DEF SameCycles, Alike
<1>8. Len(cycles) \in 1..Len(cycles) BY <1>2 DEF Shapes
<1>9. cycles[job.c].ver \in Nat BY <1>2, <1>3 DEF Shapes
<1>10. cycles[job.c].msg # 0 => chat[cycles[job.c].msg].ver <= cycles[job.c].ver
       /\ chat[cycles[job.c].msg].cycle = job.c
  BY <1>3 DEF BaseInv, LinkOK, active
<1>11. CASE cycles[job.c].deleted /\ job.at = old.then /\ job.then = "end" /\ job.call = NoCall
  <2>1. job.call.op = "none" BY <1>11 DEF NoCall
  <2>2. StepsOK(job) BY <1>4, <1>6, <1>11 DEF StepsOK
  <2>3. CallsFit(job) BY <2>1 DEF CallsFit
  <2>4. /\ job.at \in {"edit", "create", "delete", "emit"} => job.c \in 1..Len(cycles')
        /\ job.at \notin {"post", "delete", "edit", "create"}
    BY <1>3, <1>6, <1>7, <1>11
  <2>5. CallFits(job, cycles', chat) BY <2>1, <2>4 DEF CallFits
  <2>6. Place(job, cycles')
    <3>1. job.at = "emit" => cycles'[job.c].state = "text"
      <4>1. job.at = "emit" => old.then = "emit" BY <1>11
      <4>2. old.then = "emit" => cycles[job.c].state = "text" BY <1>2, <1>3 DEF Place
      <4> QED BY <4>1, <4>2, <1>3, <1>7
    <3>2. Answering(job) => cycles'[Len(cycles')].state = "text" \/ cycles'[Len(cycles')].deleted
      <4>1. Answering(job) => Answering(old) BY <1>4 DEF Answering
      <4>2. Answering(old) => cycles[Len(cycles)].state = "text" \/ cycles[Len(cycles)].deleted
        BY <1>2, <1>3 DEF Place
      <4> QED BY <4>1, <4>2, <1>7, <1>8
    <3>3. job.kind = "finish" /\ job.at = "keep" => job.c = Len(cycles')
      BY <1>2, <1>3, <1>4, <1>7, <1>11 DEF Place
    <3> QED BY <2>4, <3>1, <3>2, <3>3, <1>11 DEF Place
  <2>7. Told(job, cycles', chat)
    <3>1. ASSUME Answering(job)
          PROVE  Told(job, cycles', chat)
      <4>1. Answering(old) /\ old.kind = "finish" /\ old.result # "silent"
        BY <3>1, <1>4 DEF Answering
      <4>2. job.at = "rewrite" BY <4>1, <1>6, <1>11
      <4>3. \A c \in 1..Len(cycles) : Speaks(cycles[c]) /\ c < old.c => Shown(cycles, chat, c)
        BY <4>1, <1>2, <1>3 DEF Told
      <4>4. ASSUME NEW c \in 1..Len(cycles'), Speaks(cycles'[c]), c <= job.c
            PROVE  Shown(cycles', chat, c)
        <5>1. c \in 1..Len(cycles) /\ Speaks(cycles[c]) BY <1>7, <4>4 DEF Speaks
        <5>2. c # job.c BY <1>11, <5>1 DEF Speaks
        <5>3. c < old.c BY <1>2, <1>3, <4>4, <5>1, <5>2
        <5>4. Shown(cycles, chat, c) BY <4>3, <5>1, <5>3
        <5> QED BY <1>7, <5>1, <5>4 DEF Shown
      <4> QED BY <2>1, <4>2, <4>4 DEF Told
    <3> QED BY <3>1 DEF Told
  <2> QED BY <1>3, <1>4, <2>2, <2>3, <2>4, <2>5, <2>6, <2>7, HeadBase
<1>12. CASE /\ ~cycles[job.c].deleted /\ job.at = "edit" /\ job.then = old.then
            /\ \/ cycles[job.c].msg # 0 /\ cycles[job.c].state = "text"
                  /\ job.call = [op |-> "recall", ver |-> 0, msg |-> cycles[job.c].msg]
               \/ cycles[job.c].msg = 0 /\ cycles[job.c].state = "text" /\ job.call.op = "none"
               \/ /\ cycles[job.c].msg # 0
                  /\ job.call = [op |-> "edit", ver |-> cycles[job.c].ver,
                       msg |-> cycles[job.c].msg]
               \/ /\ cycles[job.c].msg = 0
                  /\ job.call = [op |-> "create", ver |-> cycles[job.c].ver, msg |-> 0]
  <2>1. StepsOK(job) BY <1>4, <1>6, <1>12 DEF StepsOK
  <2>2. CallsFit(job) BY <1>12 DEF CallsFit
  <2>3. job.c \in 1..Len(cycles') BY <1>3, <1>7
  <2>4. CallFits(job, cycles', chat)
    <3>1. cycles[job.c].ver <= cycles[job.c].ver BY <1>9
    <3> QED BY <1>3, <1>7, <1>10, <1>12, <3>1 DEF CallFits
  <2>5. Place(job, cycles')
    <3>1. /\ old.then \in {"emit", "rewrite", "notice"} => cycles[job.c].state = "text"
          /\ old.kind \in {"fail", "finish"} => job.c = Len(cycles) \/ cycles[job.c].state = "text"
          /\ old.kind = "fail" => job.c = Len(cycles)
          /\ old.kind = "finish" /\ old.then = "keep" => job.c = Len(cycles)
          /\ Answering(old) => cycles[Len(cycles)].state = "text" \/ cycles[Len(cycles)].deleted
      BY <1>2, <1>3 DEF Place
    <3>2. Answering(job) => Answering(old) BY <1>4 DEF Answering
    <3> QED BY <1>3, <1>4, <1>7, <1>8, <1>12, <3>1, <3>2 DEF Place
  <2>6. Told(job, cycles', chat)
    <3>1. ASSUME Answering(job)
          PROVE  Told(job, cycles', chat)
      <4>1. Answering(old) BY <3>1, <1>4 DEF Answering
      <4>3. \A c \in 1..Len(cycles) : Speaks(cycles[c]) /\ c < old.c => Shown(cycles, chat, c)
        BY <4>1, <1>2, <1>3 DEF Told
      <4>4. ASSUME NEW c \in 1..Len(cycles'), Speaks(cycles'[c]), c < job.c
            PROVE  Shown(cycles', chat, c)
        <5>1. c \in 1..Len(cycles) /\ Speaks(cycles[c]) BY <1>7, <4>4 DEF Speaks
        <5>4. Shown(cycles, chat, c) BY <1>3, <4>3, <4>4, <5>1
        <5> QED BY <1>7, <5>1, <5>4 DEF Shown
      <4>5. job.call.op \in {"edit", "create"} => job.call.ver = cycles'[job.c].ver
        BY <1>3, <1>7, <1>12
      <4> QED BY <1>12, <4>4, <4>5 DEF Told
    <3> QED BY <3>1 DEF Told
  <2> QED BY <1>3, <1>4, <1>12, <2>1, <2>2, <2>3, <2>4, <2>5, <2>6, HeadBase
<1> QED BY <1>3, <1>11, <1>12


\* What createCycleMessageNow does before its call.
LEMMA CreateNowSteps ==
  ASSUME BaseInv, NEW j \in 1..Len(writes), CreateNow(j), NEW job, job = writes'[1]
  PROVE  /\ NextWrite(job) /\ HeadAside /\ cycles' = cycles /\ rows' = rows /\ CyclesKept
         /\ RowsKept
         /\ writes[1].at = "create" /\ writes[1].call.op = "none" /\ writes[1].c \in 1..Len(cycles)
         /\ job.c = writes[1].c
         /\ LET cycle == cycles[job.c] IN
            \/ /\ cycle.msg # 0 \/ cycle.deleted
               /\ job.at = writes[1].then /\ job.then = "end" /\ job.call = NoCall
            \/ /\ cycle.msg = 0 /\ ~cycle.deleted /\ job.at = "create" /\ job.then = writes[1].then
               /\ job.call = [op |-> "create", ver |-> cycle.ver, msg |-> 0]
<1> DEFINE c == writes[1].c
           cycle == cycles[c]
<1>1. Turn(j) /\ writes[j].at = "create" /\ writes[j].call.op = "none" BY DEF CreateNow, Here
<1>2. /\ ProjTypeOK /\ Shapes /\ j = 1 /\ writes # <<>> /\ writes[1] \in QueuedWrite
      /\ WriteOK(writes[1], Len(cycles), closed, options.streaming)
  BY <1>1, AtHand
<1>3. c \in 1..Len(cycles) BY <1>1, <1>2 DEF WriteOK
<1>4. cycle.ver \in Nat BY <1>2, <1>3 DEF Shapes
<1>5. HeadAside /\ cycles' = cycles /\ rows' = rows
  <2>1. target \in Nat BY <1>2 DEF ProjTypeOK
  <2> QED BY <2>1 DEF CreateNow, OnlyJobs, HeadAside, shown, output
<1>6. CyclesKept /\ RowsKept BY <1>5, SameOutput
<1>7. IF cycle.msg # 0 \/ cycle.deleted THEN Through(j) ELSE Calling(j, "create", cycle.ver, 0)
  BY <1>2 DEF CreateNow
<1>8. CASE cycle.msg # 0 \/ cycle.deleted
  <2>1. SameChain /\ Stands(Following(writes[1]), c, "end") /\ writes'[1].call = NoCall
    BY <1>1, <1>2, <1>7, <1>8, ThroughChain
  <2>2. Following(writes[1]) = writes[1].then BY <1>1, <1>2 DEF Following
  <2> QED BY <1>1, <1>2, <1>3, <1>5, <1>6, <1>8, <2>1, <2>2 DEF NextWrite, SameChain, Stands
<1>9. CASE ~(cycle.msg # 0 \/ cycle.deleted)
  <2>1. "create" \in NetworkCall /\ 0 \in Nat BY DEF NetworkCall
  <2>2. Calling(j, "create", cycle.ver, 0) BY <1>7, <1>9
  <2> HIDE DEF cycle
  <2>3. /\ SameChain /\ Stands(writes[1].at, c, writes[1].then)
        /\ writes'[1].call = [op |-> "create", ver |-> cycle.ver, msg |-> 0]
    BY <1>1, <1>2, <1>4, <2>1, <2>2, CallChain
  <2> QED BY <1>1, <1>2, <1>3, <1>5, <1>6, <1>9, <2>3 DEF NextWrite, SameChain, Stands, cycle
<1> QED BY <1>8, <1>9

\* createCycleMessageNow keeps the base invariant.
LEMMA CreateNowBase ==
  ASSUME BaseInv, NEW j \in 1..Len(writes), CreateNow(j)
  PROVE  BaseInv'
<1> DEFINE job == writes'[1]
           old == writes[1]
<1>1. /\ Turn(j) BY DEF CreateNow, Here
<1>2. /\ Shapes /\ old \in QueuedWrite /\ WriteOK(old, Len(cycles), closed, options.streaming)
      /\ Place(old, cycles) /\ Len(cycles) \in Nat
  BY <1>1, AtHand
<1>3. /\ NextWrite(job) /\ HeadAside /\ cycles' = cycles /\ rows' = rows /\ CyclesKept /\ RowsKept
      /\ old.at = "create" /\ old.call.op = "none" /\ old.c \in 1..Len(cycles)
      /\ job.c = old.c
      /\ LET cycle == cycles[job.c] IN
         \/ /\ cycle.msg # 0 \/ cycle.deleted
            /\ job.at = old.then /\ job.then = "end" /\ job.call = NoCall
         \/ /\ cycle.msg = 0 /\ ~cycle.deleted /\ job.at = "create" /\ job.then = old.then
            /\ job.call = [op |-> "create", ver |-> cycle.ver, msg |-> 0]
  BY CreateNowSteps
<1> HIDE DEF job
<1>4. /\ job.kind = old.kind /\ job.result = old.result /\ SameChain /\ job = writes'[1]
  BY <1>3 DEF NextWrite
<1> HIDE DEF old
<1>5. StepsOK(old) BY <1>2 DEF WriteOK
<1>6. /\ old.kind \in {"create", "move"}
      /\ old.kind = "create" => old.then = "end"
      /\ old.kind = "move" => old.then = "react"
  <2>1. old.kind \in {"flush", "create", "move", "finish", "fail"} BY <1>2, WriteTypes
  <2> QED BY <1>3, <1>5, <2>1 DEF StepsOK
<1>7. ~Answering(job) BY <1>4, <1>6 DEF Answering
<1>8. Told(job, cycles', chat) BY <1>7 DEF Told
<1>9. cycles[job.c].ver \in Nat BY <1>2, <1>3 DEF Shapes
<1>10. CASE job.at = old.then /\ job.then = "end" /\ job.call = NoCall
  <2>1. StepsOK(job) BY <1>4, <1>6, <1>10 DEF StepsOK
  <2>2. job.call.op = "none" /\ job.at \in {"end", "react"} BY <1>6, <1>10 DEF NoCall
  <2>3. CallsFit(job) /\ CallFits(job, cycles', chat) BY <2>2 DEF CallsFit, CallFits
  <2>4. Place(job, cycles') BY <1>7, <2>2 DEF Place
  <2> QED BY <1>3, <1>4, <1>8, <2>1, <2>2, <2>3, <2>4, HeadBase
<1>11. CASE /\ cycles[job.c].msg = 0 /\ ~cycles[job.c].deleted
            /\ job.at = "create" /\ job.then = old.then
            /\ job.call = [op |-> "create", ver |-> cycles[job.c].ver, msg |-> 0]
  <2>1. StepsOK(job) BY <1>4, <1>6, <1>11 DEF StepsOK
  <2>2. CallsFit(job) BY <1>11 DEF CallsFit
  <2>3. CallFits(job, cycles', chat)
    <3>1. cycles[job.c].ver <= cycles[job.c].ver BY <1>9
    <3> QED BY <1>3, <1>11, <3>1 DEF CallFits
  <2>4. Place(job, cycles') BY <1>2, <1>3, <1>4, <1>7, <1>11 DEF Place
  <2>5. job.c \in 1..Len(cycles') /\ job.at # "post" BY <1>3, <1>11
  <2> QED BY <1>3, <1>4, <1>8, <2>1, <2>2, <2>3, <2>4, <2>5, HeadBase
<1> QED BY <1>3, <1>10, <1>11

\* The calls of CallNow.
OtherCalls == {"unreact", "react", "delete", "silence", "post"}

\* The other calls are made for the cycle, or the message, the write is at.
LEMMA CallNowSteps ==
  ASSUME BaseInv, NEW j \in 1..Len(writes), CallNow(j), NEW job, job = writes'[1]
  PROVE  /\ NextWrite(job) /\ HeadAside /\ cycles' = cycles /\ rows' = rows /\ CyclesKept
         /\ RowsKept
         /\ writes[1].at \in OtherCalls /\ writes[1].call.op = "none"
         /\ job.at = writes[1].at /\ job.c = writes[1].c /\ job.then = writes[1].then
         /\ job.call.op = job.at /\ job.call.ver = 1
         /\ job.at = "delete" => job.call.msg = cycles[job.c].msg
         /\ job.at = "silence" => job.call.msg = response
<1>1. PICK op \in OtherCalls :
        /\ Here(j, op)
        /\ Calling(j, op, 1, CASE op = "delete" -> cycles[writes[j].c].msg
                               [] op = "silence" -> response [] OTHER -> 0)
  BY DEF CallNow, OtherCalls
<1>2. Turn(j) /\ writes[j].at = op /\ writes[j].call.op = "none" BY <1>1 DEF Here
<1>3. /\ ProjTypeOK /\ Shapes /\ j = 1 /\ writes # <<>> /\ writes[1] \in QueuedWrite
      /\ WriteOK(writes[1], Len(cycles), closed, options.streaming)
  BY <1>2, AtHand
<1>4. HeadAside /\ cycles' = cycles /\ rows' = rows
  <2>1. target \in Nat BY <1>3 DEF ProjTypeOK
  <2> QED BY <2>1 DEF CallNow, OnlyJobs, HeadAside, shown, output
<1>5. CyclesKept /\ RowsKept BY <1>4, SameOutput
<1> DEFINE msg == CASE op = "delete" -> cycles[writes[1].c].msg
                    [] op = "silence" -> response [] OTHER -> 0
<1>6. msg \in Nat /\ (op = "delete" => msg = cycles[writes[1].c].msg)
      /\ (op = "silence" => msg = response)
  <2>1. op = "delete" => cycles[writes[1].c].msg \in Nat
    <3>1. op = "delete" => writes[1].c \in 1..Len(cycles) BY <1>2, <1>3 DEF WriteOK
    <3> QED BY <3>1, <1>3 DEF Shapes
  <2>2. response \in Nat BY <1>3 DEF Shapes
  <2> QED BY <2>1, <2>2
<1>7. Calling(j, op, 1, msg) /\ op \in NetworkCall /\ 1 \in Nat
  BY <1>1, <1>3 DEF OtherCalls, NetworkCall
<1> HIDE DEF msg
<1>8. /\ SameChain /\ Stands(writes[1].at, writes[1].c, writes[1].then)
      /\ writes'[1].call = [op |-> op, ver |-> 1, msg |-> msg]
  BY <1>2, <1>3, <1>6, <1>7, CallChain
<1>9. /\ job.at = writes[1].at /\ job.c = writes[1].c /\ job.then = writes[1].then
      /\ job.call.op = op /\ job.call.ver = 1 /\ job.call.msg = msg
  BY <1>8 DEF Stands
<1>10. NextWrite(job) BY <1>8 DEF NextWrite, SameChain
<1> QED BY <1>2, <1>3, <1>4, <1>5, <1>6, <1>9, <1>10

\* The other calls keep the base invariant.
LEMMA CallNowBase ==
  ASSUME BaseInv, NEW j \in 1..Len(writes), CallNow(j)
  PROVE  BaseInv'
<1> DEFINE job == writes'[1]
           old == writes[1]
<1>1. /\ Turn(j) BY DEF CallNow, Here
<1>2. /\ Shapes /\ old \in QueuedWrite /\ WriteOK(old, Len(cycles), closed, options.streaming)
      /\ Place(old, cycles) /\ Told(old, cycles, chat) /\ CallFits(old, cycles, chat)
      /\ response \in 1..Len(chat)
  BY <1>1, AtHand DEF Shapes
<1>3. /\ NextWrite(job) /\ HeadAside /\ cycles' = cycles /\ rows' = rows /\ CyclesKept /\ RowsKept
      /\ old.at \in OtherCalls /\ old.call.op = "none"
      /\ job.at = old.at /\ job.c = old.c /\ job.then = old.then
      /\ job.call.op = job.at /\ job.call.ver = 1
      /\ job.at = "delete" => job.call.msg = cycles[job.c].msg
      /\ job.at = "silence" => job.call.msg = response
  BY CallNowSteps
<1> HIDE DEF job
<1>4. /\ job.kind = old.kind /\ job.result = old.result /\ SameChain /\ job = writes'[1]
  BY <1>3 DEF NextWrite
<1> HIDE DEF old
<1>5. StepsOK(old) /\ (old.at = "delete" => old.c \in 1..Len(cycles))
      /\ (old.at = "post" => old.c = Len(cycles) + 1 /\ closed)
  BY <1>2 DEF WriteOK
<1>6. StepsOK(job) BY <1>3, <1>4, <1>5 DEF StepsOK
<1>7. job.at \in OtherCalls BY <1>3
<1>8. CallsFit(job) BY <1>3, <1>7 DEF CallsFit, OtherCalls
<1>9. Place(job, cycles') BY <1>2, <1>3, <1>4 DEF Place, Answering
<1>10. Told(job, cycles', chat) BY <1>3, <1>7 DEF Told, OtherCalls
<1>11. CallFits(job, cycles', chat) BY <1>2, <1>3, <1>7 DEF CallFits, OtherCalls
<1>12. /\ job.at \in {"edit", "create", "delete", "emit"} => job.c \in 1..Len(cycles')
       /\ job.at = "post" => job.c = Len(cycles') + 1 /\ closed
  BY <1>3, <1>5, <1>7 DEF OtherCalls
<1> QED BY <1>3, <1>4, <1>6, <1>8, <1>9, <1>10, <1>11, <1>12, HeadBase


\* The write goes on to another step.
LEMMA GoSteps ==
  ASSUME BaseInv, NEW j \in 1..Len(writes), Turn(j), writes[1].call.op = "none",
         NEW at \in WriteStep, NEW c \in Nat, NEW then \in WriteStep, Go(j, at, c, then),
         NEW job, job = writes'[1]
  PROVE  /\ NextWrite(job) /\ SameChain /\ job.kind = writes[1].kind
         /\ job.result = writes[1].result
         /\ job.at = at /\ job.c = c /\ job.then = then
         /\ job.call.op = "none" /\ CallsFit(job)
         /\ job.at # "delete" => CallFits(job, cycles', chat)
<1>1. ProjTypeOK BY DEF BaseInv
<1>2. SameChain /\ Stands(at, c, then) /\ writes'[1].call = writes[1].call BY <1>1, GoChain
<1>3. job.call.op = "none" BY <1>2
<1>4. CallsFit(job) BY <1>3 DEF CallsFit
<1>5. job.at # "delete" => CallFits(job, cycles', chat) BY <1>3 DEF CallFits
<1> QED BY <1>2, <1>3, <1>4, <1>5 DEF SameChain, Stands, NextWrite

\* A cycle is over, failed or taken away.
LEMMA Marked ==
  ASSUME NEW x \in OutputCycle, NEW y,
         \/ y = [x EXCEPT !.completed = TRUE] \/ y = [x EXCEPT !.failed = TRUE]
         \/ y = [x EXCEPT !.deleted = TRUE]
  PROVE  /\ y \in OutputCycle /\ y.msg = x.msg /\ y.ver = x.ver /\ y.state = x.state
         /\ y.part = x.part /\ y.text = x.text /\ x.ver <= y.ver
         /\ (x.completed => y.completed) /\ (x.failed => y.failed) /\ (x.deleted => y.deleted)
<1>1. x.ver <= x.ver
  <2>1. x.ver \in Nat BY CycleTypes
  <2> QED BY <2>1
<1>2. /\ y \in OutputCycle /\ y.msg = x.msg /\ y.ver = x.ver /\ y.state = x.state
      /\ y.part = x.part /\ y.text = x.text
      /\ (x.completed => y.completed) /\ (x.failed => y.failed) /\ (x.deleted => y.deleted)
  BY DEF OutputCycle
<1> QED BY <1>1, <1>2

\* The steps that leave the rest alone.
LEMMA AsideSteps ==
  ASSUME ProjTypeOK, OnlyJobs
  PROVE  HeadAside
<1>1. target \in Nat BY DEF ProjTypeOK
<1> QED BY <1>1 DEF OnlyJobs, HeadAside, shown

\* What move does to the cycle it found, and that the base invariant stands.
LEMMA PreviousSteps ==
  ASSUME BaseInv, NEW j \in 1..Len(writes), Previous(j), NEW job, job = writes'[1]
  PROVE  /\ NextWrite(job) /\ HeadAside /\ rows' = rows /\ CyclesKept /\ RowsKept
         /\ writes[1].at = "previous" /\ writes[1].kind = "move" /\ job.call.op = "none"
         /\ Len(cycles') = Len(cycles)
         /\ LET n == Len(cycles) IN
            \/ /\ cycles[n].state = "text" /\ job.at = "edit" /\ job.c = n /\ job.then = "emit"
               /\ cycles'[n] = [cycles[n] EXCEPT !.completed = TRUE]
               /\ \A c \in 1..n : c # n => cycles'[c] = cycles[c]
            \/ /\ cycles[n].state # "text" /\ cycles[n].msg # 0 /\ ~cycles[n].deleted
               /\ cycles' = cycles /\ job.at = "delete" /\ job.c = n /\ job.then = "unreact"
            \/ /\ cycles[n].state # "text" /\ (cycles[n].msg = 0 \/ cycles[n].deleted)
               /\ cycles' = cycles /\ job.at = "unreact" /\ job.c = 0 /\ job.then = "end"
         /\ BaseInv'
<1> DEFINE n == Len(cycles)
           old == writes[1]
<1>1. Turn(j) /\ writes[j].at = "previous" /\ writes[j].call.op = "none" BY DEF Previous, Here
<1>2. /\ ProjTypeOK /\ Shapes /\ j = 1 /\ old \in QueuedWrite
      /\ WriteOK(old, n, closed, options.streaming)
      /\ n \in Nat /\ 1 <= n /\ n \in 1..n
      /\ rows \in Seq(RowState) /\ Len(rows) = n /\ OpenOnce(rows)
  BY <1>1, AtHand
<1>3. old.kind = "move"
  <2>1. old.kind \in {"flush", "create", "move", "finish", "fail"} BY <1>2, WriteTypes
  <2> QED BY <1>1, <1>2, <2>1 DEF WriteOK, StepsOK
<1>4. HeadAside BY <1>2, AsideSteps DEF Previous
<1>5. rows' = rows BY DEF Previous
<1>6. cycles[n] \in OutputCycle BY <1>2 DEF Shapes
<1>7. {"edit", "emit", "delete", "unreact", "end"} \subseteq WriteStep /\ 0 \in Nat BY DEF WriteStep
<1>8. \/ /\ cycles[n].state = "text" /\ cycles' = [cycles EXCEPT ![n].completed = TRUE]
         /\ Go(j, "edit", n, "emit")
      \/ /\ cycles[n].state # "text" /\ cycles' = cycles
         /\ IF cycles[n].msg # 0 /\ ~cycles[n].deleted THEN Go(j, "delete", n, "unreact")
            ELSE Go(j, "unreact", 0, "end")
  BY DEF Previous, active
<1>9. ASSUME NextWrite(job), job.kind = "move", SameChain, CyclesKept, RowsKept, CallsFit(job),
             job.call.op = "none", CallFits(job, cycles', chat),
             \/ job.at = "edit" /\ job.then = "emit" /\ cycles'[job.c].state = "text"
                  /\ job.c \in 1..Len(cycles')
             \/ job.at = "delete" /\ job.then = "unreact" /\ job.c \in 1..Len(cycles')
             \/ job.at = "unreact" /\ job.then = "end"
      PROVE  BaseInv'
  <2>1. StepsOK(job) BY <1>9 DEF StepsOK
  <2>2. Place(job, cycles') BY <1>9 DEF Place, Answering
  <2>3. Told(job, cycles', chat) BY <1>9 DEF Told, Answering
  <2>4. /\ job.at \in {"edit", "create", "delete", "emit"} => job.c \in 1..Len(cycles')
        /\ job.at # "post"
    BY <1>9
  <2> QED BY <1>4, <1>9, <2>1, <2>2, <2>3, <2>4, HeadBase
<1>10. CASE /\ cycles[n].state = "text" /\ cycles' = [cycles EXCEPT ![n].completed = TRUE]
            /\ Go(j, "edit", n, "emit")
  <2> DEFINE x == [cycles[n] EXCEPT !.completed = TRUE]
  <2>1. x \in OutputCycle /\ x.msg = cycles[n].msg /\ cycles[n].ver <= x.ver /\ x.state = "text"
    BY <1>6, <1>10, Marked
  <2>2. cycles' = [cycles EXCEPT ![n] = x] BY <1>10
  <2>3. /\ CyclesKept /\ Len(cycles') = n /\ cycles'[n] = x
        /\ \A d \in 1..n : d # n => cycles'[d] = cycles[d]
    <3> HIDE DEF x
    <3> QED BY <1>2, <2>1, <2>2, OneKept
  <2>4. RowsKept BY <1>2, <1>5, <2>3 DEF RowsKept
  <2>5. /\ NextWrite(job) /\ SameChain /\ job.kind = old.kind
        /\ job.at = "edit" /\ job.c = n /\ job.then = "emit"
        /\ job.call.op = "none" /\ CallsFit(job) /\ CallFits(job, cycles', chat)
    <3>1. Go(j, "edit", n, "emit") /\ "edit" \in WriteStep /\ "emit" \in WriteStep BY <1>7, <1>10
    <3> HIDE DEF x, n
    <3> QED BY <1>1, <1>2, <3>1, GoSteps
  <2>6. cycles'[job.c].state = "text" /\ job.c \in 1..Len(cycles') BY <1>2, <2>1, <2>3, <2>5
  <2>7. BaseInv' BY <1>3, <1>9, <2>3, <2>4, <2>5, <2>6
  <2> QED BY <1>1, <1>2, <1>3, <1>4, <1>5, <1>10, <2>3, <2>4, <2>5, <2>7
<1>11. ASSUME cycles[n].state # "text", cycles' = cycles
       PROVE  CyclesKept /\ RowsKept /\ Len(cycles') = n
  BY <1>5, <1>11, SameOutput
<1>12. CASE /\ cycles[n].state # "text" /\ cycles' = cycles
            /\ cycles[n].msg # 0 /\ ~cycles[n].deleted /\ Go(j, "delete", n, "unreact")
  <2>1. /\ NextWrite(job) /\ SameChain /\ job.kind = old.kind
        /\ job.at = "delete" /\ job.c = n /\ job.then = "unreact"
        /\ job.call.op = "none" /\ CallsFit(job)
    BY <1>1, <1>2, <1>7, <1>12, GoSteps
  <2>2. CallFits(job, cycles', chat) BY <1>12, <2>1 DEF CallFits
  <2>3. BaseInv' BY <1>2, <1>3, <1>9, <1>11, <1>12, <2>1, <2>2
  <2> QED BY <1>1, <1>2, <1>3, <1>4, <1>5, <1>11, <1>12, <2>1, <2>3
<1>13. CASE /\ cycles[n].state # "text" /\ cycles' = cycles
            /\ ~(cycles[n].msg # 0 /\ ~cycles[n].deleted) /\ Go(j, "unreact", 0, "end")
  <2>1. /\ NextWrite(job) /\ SameChain /\ job.kind = old.kind
        /\ job.at = "unreact" /\ job.c = 0 /\ job.then = "end"
        /\ job.call.op = "none" /\ CallsFit(job) /\ CallFits(job, cycles', chat)
    BY <1>1, <1>2, <1>7, <1>13, GoSteps
  <2>2. BaseInv' BY <1>3, <1>9, <1>11, <1>13, <2>1
  <2> QED BY <1>1, <1>2, <1>3, <1>4, <1>5, <1>11, <1>13, <2>1, <2>2
<1> QED BY <1>8, <1>10, <1>12, <1>13

\* move reports the cycle it froze, and the base invariant stands.
LEMMA EmitNowSteps ==
  ASSUME BaseInv, NEW j \in 1..Len(writes), EmitNow(j), NEW job, job = writes'[1]
  PROVE  /\ NextWrite(job) /\ HeadAside /\ cycles' = cycles /\ CyclesKept /\ RowsKept
         /\ writes[1].at = "emit" /\ writes[1].kind = "move" /\ writes[1].call.op = "none"
         /\ writes[1].c \in 1..Len(cycles)
         /\ job.call.op = "none" /\ job.at = "unreact" /\ job.c = 0 /\ job.then = "end"
         /\ LET c == writes[1].c IN
            /\ \A d \in 1..Len(cycles) : d # c /\ rows'[d] = "open" => rows[d] = "open"
            /\ rows'[c] = "open" => IF cycles[c].msg = 0 THEN rows[c] = "open" ELSE Live(cycles[c])
         /\ BaseInv'
<1> DEFINE n == Len(cycles)
           old == writes[1]
<1>1. Turn(j) /\ writes[j].at = "emit" /\ writes[j].call.op = "none" BY DEF EmitNow, Here
<1>2. /\ ProjTypeOK /\ j = 1 /\ old \in QueuedWrite
      /\ WriteOK(old, n, closed, options.streaming) /\ cycles \in Seq(OutputCycle)
  BY <1>1, AtHand
<1>3. old.kind = "move" /\ old.c \in 1..n
  <2>1. old.kind \in {"flush", "create", "move", "finish", "fail"} BY <1>2, WriteTypes
  <2> QED BY <1>1, <1>2, <2>1 DEF WriteOK, StepsOK
<1>4. HeadAside BY <1>2, AsideSteps DEF EmitNow
<1>5. Emit(cycles, old.c) /\ cycles' = cycles BY <1>2 DEF EmitNow, Emit
<1>6. CyclesKept BY <1>5, SameOutput
<1>7. /\ RowsKept
      /\ \A d \in 1..n : d # old.c /\ rows'[d] = "open" => rows[d] = "open"
      /\ rows'[old.c] = "open" =>
           IF cycles[old.c].msg = 0 THEN rows[old.c] = "open" ELSE Live(cycles[old.c])
  BY <1>2, <1>3, <1>5, EmitKept
<1>8. Go(j, "unreact", 0, "end") BY DEF EmitNow
<1>9. {"unreact", "end"} \subseteq WriteStep /\ 0 \in Nat BY DEF WriteStep
<1>10. /\ NextWrite(job) /\ SameChain /\ job.kind = old.kind
       /\ job.at = "unreact" /\ job.c = 0 /\ job.then = "end"
       /\ job.call.op = "none" /\ CallsFit(job) /\ CallFits(job, cycles', chat)
  BY <1>1, <1>2, <1>8, <1>9, GoSteps
<1>11. StepsOK(job) BY <1>3, <1>10 DEF StepsOK
<1>12. Place(job, cycles') /\ Told(job, cycles', chat) BY <1>3, <1>10 DEF Place, Told, Answering
<1>13. BaseInv' BY <1>4, <1>6, <1>7, <1>10, <1>11, <1>12, HeadBase
<1> QED BY <1>1, <1>2, <1>3, <1>4, <1>5, <1>6, <1>7, <1>10, <1>13

\* move starts a working message, and the base invariant stands.
LEMMA ForkSteps ==
  ASSUME BaseInv, NEW j \in 1..Len(writes), Fork(j), NEW job, job = writes'[1]
  PROVE  /\ NextWrite(job) /\ HeadAside /\ CyclesKept /\ RowsKept
         /\ writes[1].at = "fork" /\ writes[1].kind = "move" /\ writes[1].call.op = "none"
         /\ job.call.op = "none" /\ job.at = "create" /\ job.c = Len(cycles) + 1
         /\ job.then = "react"
         /\ Len(cycles') = Len(cycles) + 1 /\ \A c \in 1..Len(cycles) : cycles'[c] = cycles[c]
         /\ cycles'[Len(cycles) + 1] = Cycle("transient", 0, {}, FALSE)
         /\ rows'[Len(cycles) + 1] = "none" /\ \A c \in 1..Len(cycles) : rows'[c] = rows[c]
         /\ BaseInv'
<1> DEFINE n == Len(cycles)
           old == writes[1]
           x == Cycle("transient", 0, {}, FALSE)
<1>1. Turn(j) /\ writes[j].at = "fork" /\ writes[j].call.op = "none" BY DEF Fork, Here
<1>2. /\ ProjTypeOK /\ Shapes /\ j = 1 /\ old \in QueuedWrite
      /\ WriteOK(old, n, closed, options.streaming) /\ cycles \in Seq(OutputCycle)
      /\ n \in Nat /\ rows \in Seq(RowState) /\ Len(rows) = n /\ OpenOnce(rows)
  BY <1>1, AtHand
<1>3. old.kind = "move"
  <2>1. old.kind \in {"flush", "create", "move", "finish", "fail"} BY <1>2, WriteTypes
  <2> QED BY <1>1, <1>2, <2>1 DEF WriteOK, StepsOK
<1>4. HeadAside
  <2>1. target' \in Nat
    <3>1. target' = old.trigger BY <1>2 DEF Fork
    <3> QED BY <3>1, <1>2, WriteTypes
  <2> QED BY <2>1 DEF Fork, HeadAside
<1>5. x \in OutputCycle /\ x.msg = 0 /\ x.text = {} /\ x.state = "transient"
  BY DEF Cycle, OutputCycle
<1>6. cycles' = Append(cycles, x) /\ rows' = Append(rows, "none") BY DEF Fork
<1> HIDE DEF x
<1>7. /\ cycles' \in Seq(OutputCycle) /\ Len(cycles') = n + 1
      /\ \A c \in 1..n : cycles'[c] = cycles[c]
      /\ cycles'[n + 1] = x
  BY <1>2, <1>5, <1>6, AppendChain
<1>8. "none" \in RowState BY DEF RowState
<1>9. /\ rows' \in Seq(RowState) /\ Len(rows') = n + 1
      /\ \A c \in 1..n : rows'[c] = rows[c]
      /\ rows'[n + 1] = "none"
  BY <1>2, <1>6, <1>8, AppendChain
<1>10. CyclesKept
  <2>1. \A d \in n + 1..Len(cycles') : d = n + 1 BY <1>2, <1>7
  <2>2. \A d \in 1..n : cycles[d].ver \in Nat /\ (cycles[d].state # "text" => cycles[d].text = {})
    BY <1>2 DEF Shapes, ProjTypeOK, active
  <2>3. \A d \in 1..n : cycles[d].ver <= cycles[d].ver BY <2>2
  <2>4. n <= Len(cycles') BY <1>2, <1>7
  <2> QED BY <1>5, <1>7, <2>1, <2>2, <2>3, <2>4 DEF CyclesKept
<1>11. RowsKept
  <2>1. \A c \in 1..n + 1 : c \in 1..n \/ c = n + 1 BY <1>2
  <2>2. OpenOnce(rows') BY <1>2, <1>9, <2>1 DEF OpenOnce
  <2> QED BY <1>7, <1>9, <2>2 DEF RowsKept
<1>12. Go(j, "create", n + 1, "react") BY DEF Fork, active
<1>13. {"create", "react"} \subseteq WriteStep /\ n + 1 \in Nat BY <1>2 DEF WriteStep
<1>14. /\ NextWrite(job) /\ SameChain /\ job.kind = old.kind
       /\ job.at = "create" /\ job.c = n + 1 /\ job.then = "react"
       /\ job.call.op = "none" /\ CallsFit(job) /\ CallFits(job, cycles', chat)
  BY <1>1, <1>2, <1>12, <1>13, GoSteps
<1>15. StepsOK(job) BY <1>3, <1>14 DEF StepsOK
<1>16. job.c = Len(cycles') /\ job.c \in 1..Len(cycles') BY <1>2, <1>7, <1>14
<1>17. Place(job, cycles') /\ Told(job, cycles', chat)
  BY <1>3, <1>14, <1>16 DEF Place, Told, Answering
<1>18. job.at # "post" BY <1>14
<1>19. BaseInv' BY <1>4, <1>10, <1>11, <1>14, <1>15, <1>16, <1>17, <1>18, HeadBase
<1> QED BY <1>1, <1>2, <1>3, <1>4, <1>7, <1>9, <1>10, <1>11, <1>14, <1>19 DEF x


\* The loop that deletes messages takes the earliest of those left, and the base invariant stands.
LEMMA SweepSteps ==
  ASSUME BaseInv, NEW j \in 1..Len(writes), Sweep(j), NEW job, job = writes'[1]
  PROVE  /\ NextWrite(job) /\ HeadAside /\ cycles' = cycles /\ rows' = rows /\ CyclesKept
         /\ RowsKept
         /\ writes[1].at \in {"remove", "spare", "keep"} /\ writes[1].call.op = "none"
         /\ writes[1].kind = "finish" /\ writes[1].result = "silent"
         /\ job.call.op = "none"
         /\ \/ /\ job.at = "delete" /\ job.then = writes[1].at
               /\ job.c \in Unwanted(writes[1]) /\ Earliest(Unwanted(writes[1]), job.c)
            \/ Unwanted(writes[1]) = {} /\ job.at = "over" /\ job.c = 0 /\ job.then = "end"
         /\ BaseInv'
<1> DEFINE n == Len(cycles)
           old == writes[1]
<1>1. PICK at \in {"remove", "spare", "keep"} :
        /\ Here(j, at)
        /\ \/ \E c \in Unwanted(writes[j]) : Earliest(Unwanted(writes[j]), c)
                                             /\ Go(j, "delete", c, at)
           \/ Unwanted(writes[j]) = {} /\ Go(j, "over", 0, "end")
  BY DEF Sweep
<1>2. Turn(j) /\ writes[j].at = at /\ writes[j].call.op = "none" BY <1>1 DEF Here
<1>3. /\ ProjTypeOK /\ j = 1 /\ old \in QueuedWrite
      /\ WriteOK(old, n, closed, options.streaming) /\ n \in Nat /\ Place(old, cycles)
  BY <1>2, AtHand
<1>4. old.kind = "finish" /\ old.result = "silent"
  <2>1. old.kind \in {"flush", "create", "move", "finish", "fail"} BY <1>3, WriteTypes
  <2> QED BY <1>2, <1>3, <2>1 DEF WriteOK, StepsOK
<1>5. HeadAside BY <1>3, AsideSteps DEF Sweep
<1>6. cycles' = cycles /\ rows' = rows BY DEF Sweep, output
<1>7. CyclesKept /\ RowsKept BY <1>6, SameOutput
<1>8. at \in WriteStep /\ "delete" \in WriteStep /\ "over" \in WriteStep /\ "end" \in WriteStep
      /\ 0 \in Nat
  BY DEF WriteStep
<1>9. CASE \E c \in Unwanted(old) : Earliest(Unwanted(old), c) /\ Go(j, "delete", c, at)
  <2>1. PICK c \in Unwanted(old) : Earliest(Unwanted(old), c) /\ Go(j, "delete", c, at) BY <1>9
  <2>2. /\ c \in old.c + 1..n /\ cycles[c].msg # 0 /\ ~cycles[c].deleted BY DEF Unwanted, active
  <2>3. old.c \in Nat BY <1>3, WriteTypes
  <2>4. c \in 1..n /\ c \in Nat /\ c > old.c BY <1>3, <2>2, <2>3
  <2>5. /\ NextWrite(job) /\ SameChain /\ job.kind = old.kind /\ job.result = old.result
        /\ job.at = "delete" /\ job.c = c /\ job.then = at
        /\ job.call.op = "none" /\ CallsFit(job)
    BY <1>2, <1>3, <1>8, <2>1, <2>4, GoSteps
  <2>6. at # "keep"
    <3>1. at = "keep" => old.c = n BY <1>2, <1>3, <1>4 DEF Place
    <3> QED BY <3>1, <2>3, <2>4
  <2>7. StepsOK(job) BY <1>4, <2>5, <2>6 DEF StepsOK
  <2>8. CallFits(job, cycles', chat) BY <1>6, <2>2, <2>5 DEF CallFits
  <2>9. Place(job, cycles') /\ Told(job, cycles', chat)
    BY <1>4, <2>5, <2>6 DEF Place, Told, Answering
  <2>10. job.c \in 1..Len(cycles') /\ job.at # "post" BY <1>6, <2>4, <2>5
  <2>11. BaseInv' BY <1>5, <1>7, <2>5, <2>7, <2>8, <2>9, <2>10, HeadBase
  <2> QED BY <1>2, <1>3, <1>4, <1>5, <1>6, <1>7, <2>1, <2>5, <2>11
<1>10. CASE Unwanted(old) = {} /\ Go(j, "over", 0, "end")
  <2>1. /\ NextWrite(job) /\ SameChain /\ job.kind = old.kind /\ job.result = old.result
        /\ job.at = "over" /\ job.c = 0 /\ job.then = "end"
        /\ job.call.op = "none" /\ CallsFit(job) /\ CallFits(job, cycles', chat)
    <3>1. PICK none \in Nat : none = 0 /\ Go(j, "over", none, "end") BY <1>8, <1>10
    <3>2. Turn(j) /\ writes[1].call.op = "none" BY <1>2, <1>3
    <3>3. "over" \in WriteStep /\ "end" \in WriteStep BY <1>8
    <3>4. Go(j, "over", none, "end") BY <3>1
    <3>5. /\ NextWrite(job) /\ SameChain /\ job.kind = writes[1].kind
          /\ job.result = writes[1].result
          /\ job.at = "over" /\ job.c = none /\ job.then = "end"
          /\ job.call.op = "none" /\ CallsFit(job)
          /\ job.at # "delete" => CallFits(job, cycles', chat)
      BY <3>2, <3>3, <3>4, GoSteps
    <3> QED BY <3>1, <3>5
  <2>2. StepsOK(job) BY <1>4, <2>1 DEF StepsOK
  <2>3. Place(job, cycles') /\ Told(job, cycles', chat) BY <1>4, <2>1 DEF Place, Told, Answering
  <2>4. BaseInv' BY <1>5, <1>7, <2>1, <2>2, <2>3, HeadBase
  <2> QED BY <1>2, <1>3, <1>4, <1>5, <1>6, <1>7, <1>10, <2>1, <2>4
<1> QED BY <1>1, <1>3, <1>9, <1>10

\* A cycle is marked and reported.
LEMMA MarkedKept ==
  ASSUME BaseInv, NEW c \in 1..Len(cycles), NEW x,
         x = [cycles[c] EXCEPT !.completed = TRUE] \/ x = [cycles[c] EXCEPT !.failed = TRUE],
         Emit([cycles EXCEPT ![c] = x], c)
  PROVE  /\ CyclesKept /\ RowsKept /\ Len(cycles') = Len(cycles) /\ cycles'[c] = x
         /\ x \in OutputCycle /\ x.state = cycles[c].state /\ x.msg = cycles[c].msg
         /\ \A d \in 1..Len(cycles) : d # c => cycles'[d] = cycles[d]
         /\ \A d \in 1..Len(cycles) : d # c /\ rows'[d] = "open" => rows[d] = "open"
         /\ rows'[c] = "open" => cycles[c].msg = 0 /\ rows[c] = "open"
<1>1. Shapes /\ ProjTypeOK BY ProjShapes DEF BaseInv
<1>2. cycles[c] \in OutputCycle BY <1>1 DEF Shapes
<1>3. /\ x \in OutputCycle /\ x.msg = cycles[c].msg /\ cycles[c].ver <= x.ver
      /\ x.state = cycles[c].state /\ x.text = cycles[c].text
  BY <1>2, Marked
<1>4. x.completed \/ x.failed BY <1>2 DEF OutputCycle
<1>5. x.state # "text" => x.text = {} BY <1>1, <1>3 DEF ProjTypeOK, active
<1>6. cycles \in Seq(OutputCycle) /\ cycles' = [cycles EXCEPT ![c] = x] BY <1>1 DEF ProjTypeOK, Emit
<1>7. /\ CyclesKept /\ Len(cycles') = Len(cycles) /\ cycles'[c] = x
      /\ \A d \in 1..Len(cycles) : d # c => cycles'[d] = cycles[d]
  BY <1>3, <1>5, <1>6, OneKept
<1> DEFINE cs == [cycles EXCEPT ![c] = x]
<1>8. cs \in Seq(OutputCycle) /\ Len(cs) = Len(cycles) /\ cs[c] = x BY <1>3, <1>6, OneCycle
<1>9. Emit(cs, c) OBVIOUS
<1> HIDE DEF cs
<1>10. /\ RowsKept
       /\ \A d \in 1..Len(cycles) : d # c /\ rows'[d] = "open" => rows[d] = "open"
       /\ rows'[c] = "open" => IF cs[c].msg = 0 THEN rows[c] = "open" ELSE Live(cs[c])
  BY <1>8, <1>9, EmitKept
<1> QED BY <1>3, <1>4, <1>7, <1>8, <1>10 DEF Live

\* The loop over the cycles of a silent run closes one after another.
LEMMA OverSteps ==
  ASSUME BaseInv, NEW j \in 1..Len(writes), Over(j), NEW job, job = writes'[1]
  PROVE  /\ NextWrite(job) /\ HeadAside /\ CyclesKept /\ RowsKept /\ Len(cycles') = Len(cycles)
         /\ writes[1].at = "over" /\ writes[1].call.op = "none"
         /\ writes[1].kind = "finish" /\ writes[1].result = "silent"
         /\ job.call.op = "none" /\ job.then = "end"
         /\ \/ LET c == job.c IN
               /\ job.at = "over" /\ c \in 1..Len(cycles)
               /\ cycles'[c] = [cycles[c] EXCEPT !.completed = TRUE]
               /\ \A d \in 1..Len(cycles) : d # c => cycles'[d] = cycles[d]
               /\ \A d \in 1..Len(cycles) : d # c /\ rows'[d] = "open" => rows[d] = "open"
               /\ rows'[c] = "open" => cycles[c].msg = 0 /\ rows[c] = "open"
            \/ /\ cycles' = cycles /\ rows' = rows /\ job.at = "end"
               /\ cycles[Len(cycles)].deleted \/ writes[1].c >= Len(cycles)
         /\ BaseInv'
<1> DEFINE n == Len(cycles)
           old == writes[1]
           left == {c \in old.c + 1..active : ~cycles[c].deleted}
<1>1. Turn(j) /\ writes[j].at = "over" /\ writes[j].call.op = "none" BY DEF Over, Here
<1>2. /\ ProjTypeOK /\ j = 1 /\ old \in QueuedWrite /\ n \in Nat /\ 1 <= n
      /\ WriteOK(old, n, closed, options.streaming)
  BY <1>1, AtHand
<1>3. old.kind = "finish" /\ old.result = "silent"
  <2>1. old.kind \in {"flush", "create", "move", "finish", "fail"} BY <1>2, WriteTypes
  <2> QED BY <1>1, <1>2, <2>1 DEF WriteOK, StepsOK
<1>4. HeadAside BY <1>2, AsideSteps DEF Over
<1>5. \/ \E c \in left : Go(j, "over", c, "end") /\ Emit([cycles EXCEPT ![c].completed = TRUE], c)
      \/ left = {} /\ Go(j, "end", 0, "end") /\ UNCHANGED output
  BY <1>2 DEF Over
<1>6. {"over", "end"} \subseteq WriteStep /\ 0 \in Nat BY DEF WriteStep
<1>7. old.c \in Nat BY <1>2, WriteTypes
<1>8. ASSUME NextWrite(job), SameChain, job.kind = old.kind, job.result = old.result,
             job.at \in {"over", "end"}, job.then = "end", CyclesKept, RowsKept,
             CallsFit(job), CallFits(job, cycles', chat)
      PROVE  BaseInv'
  <2>1. StepsOK(job) BY <1>3, <1>8 DEF StepsOK
  <2>2. Place(job, cycles') /\ Told(job, cycles', chat) BY <1>3, <1>8 DEF Place, Told, Answering
  <2>3. job.at \notin {"edit", "create", "delete", "emit", "post"} BY <1>8
  <2>4. job = writes'[1] OBVIOUS
  <2> QED BY <1>4, <1>8, <2>1, <2>2, <2>3, <2>4, HeadBase
<1>9. CASE \E c \in left : Go(j, "over", c, "end") /\ Emit([cycles EXCEPT ![c].completed = TRUE], c)
  <2>1. PICK c \in left : Go(j, "over", c, "end") /\ Emit([cycles EXCEPT ![c].completed = TRUE], c)
    BY <1>9
  <2>2. c \in 1..n /\ c \in Nat
    <3>1. c \in old.c + 1..n BY DEF active
    <3> QED BY <3>1, <1>2, <1>7
  <2> DEFINE x == [cycles[c] EXCEPT !.completed = TRUE]
  <2>3. Emit([cycles EXCEPT ![c] = x], c) BY <2>1
  <2> HIDE DEF left
  <2>4. /\ CyclesKept /\ RowsKept /\ Len(cycles') = n /\ cycles'[c] = x
        /\ \A d \in 1..n : d # c => cycles'[d] = cycles[d]
        /\ \A d \in 1..n : d # c /\ rows'[d] = "open" => rows[d] = "open"
        /\ rows'[c] = "open" => cycles[c].msg = 0 /\ rows[c] = "open"
    BY <2>2, <2>3, MarkedKept
  <2>5. /\ NextWrite(job) /\ SameChain /\ job.kind = old.kind /\ job.result = old.result
        /\ job.at = "over" /\ job.c = c /\ job.then = "end"
        /\ job.call.op = "none" /\ CallsFit(job) /\ CallFits(job, cycles', chat)
    <3>1. Go(j, "over", c, "end") /\ "over" \in WriteStep /\ "end" \in WriteStep BY <1>6, <2>1
    <3> HIDE DEF x
    <3> QED BY <1>1, <1>2, <2>2, <3>1, GoSteps
  <2>6. BaseInv' BY <1>8, <2>4, <2>5
  <2> QED BY <1>1, <1>2, <1>3, <1>4, <2>2, <2>4, <2>5, <2>6
<1>10. CASE left = {} /\ Go(j, "end", 0, "end") /\ UNCHANGED output
  <2>1. cycles' = cycles /\ rows' = rows /\ CyclesKept /\ RowsKept
    BY <1>10, SameOutput DEF output
  <2>2. cycles[n].deleted \/ old.c >= n
    <3>1. CASE old.c < n
      <4>1. n \in old.c + 1..active BY <3>1, <1>2, <1>7 DEF active
      <4> QED BY <4>1, <1>10
    <3> QED BY <3>1, <1>2, <1>7
  <2> HIDE DEF left
  <2>3. /\ NextWrite(job) /\ SameChain /\ job.kind = old.kind /\ job.result = old.result
        /\ job.at = "end" /\ job.c = 0 /\ job.then = "end"
        /\ job.call.op = "none" /\ CallsFit(job) /\ CallFits(job, cycles', chat)
    BY <1>1, <1>2, <1>6, <1>10, GoSteps
  <2>4. BaseInv' BY <1>8, <2>1, <2>3
  <2> QED BY <1>1, <1>2, <1>3, <1>4, <2>1, <2>2, <2>3, <2>4
<1> QED BY <1>5, <1>9, <1>10


\* finish closes the active cycle, and the base invariant stands.
LEMMA CompleteSteps ==
  ASSUME BaseInv, NEW j \in 1..Len(writes), Complete(j), NEW job, job = writes'[1]
  PROVE  /\ NextWrite(job) /\ HeadAside /\ CyclesKept /\ RowsKept /\ Len(cycles') = Len(cycles)
         /\ writes[1].at = "complete" /\ Answering(writes[1]) /\ writes[1].call.op = "none"
         /\ job.call.op = "none" /\ job.at = "rewrite" /\ job.c = 0 /\ job.then = "end"
         /\ LET n == Len(cycles) IN
            /\ cycles'[n] = [cycles[n] EXCEPT !.completed = TRUE]
            /\ \A d \in 1..n : d # n => cycles'[d] = cycles[d]
            /\ \A d \in 1..n : d # n /\ rows'[d] = "open" => rows[d] = "open"
            /\ rows'[n] = "open" => cycles[n].msg = 0 /\ rows[n] = "open"
         /\ BaseInv'
<1> DEFINE n == Len(cycles)
           old == writes[1]
           x == [cycles[n] EXCEPT !.completed = TRUE]
<1>1. Turn(j) /\ writes[j].at = "complete" /\ writes[j].call.op = "none" BY DEF Complete, Here
<1>2. /\ ProjTypeOK /\ Shapes /\ j = 1 /\ old \in QueuedWrite /\ n \in 1..n
      /\ WriteOK(old, n, closed, options.streaming) /\ Place(old, cycles)
  BY <1>1, AtHand
<1>3. Answering(old)
  <2>1. old.kind \in {"flush", "create", "move", "finish", "fail"} BY <1>2, WriteTypes
  <2> QED BY <1>1, <1>2, <2>1 DEF WriteOK, StepsOK, Answering
<1>4. HeadAside BY <1>2, AsideSteps DEF Complete
<1>5. Emit([cycles EXCEPT ![n] = x], n) BY DEF Complete, active
<1>6. Go(j, "rewrite", 0, "end") /\ "rewrite" \in WriteStep /\ "end" \in WriteStep /\ 0 \in Nat
  BY DEF Complete, WriteStep
<1>7. /\ CyclesKept /\ RowsKept /\ Len(cycles') = n /\ cycles'[n] = x
      /\ x.state = cycles[n].state
      /\ \A d \in 1..n : d # n => cycles'[d] = cycles[d]
      /\ \A d \in 1..n : d # n /\ rows'[d] = "open" => rows[d] = "open"
      /\ rows'[n] = "open" => cycles[n].msg = 0 /\ rows[n] = "open"
  BY <1>2, <1>5, MarkedKept
<1>8. x.deleted = cycles[n].deleted
  <2>1. cycles[n] \in OutputCycle BY <1>2 DEF Shapes
  <2> QED BY <2>1 DEF OutputCycle
<1> HIDE DEF x
<1>9. /\ NextWrite(job) /\ SameChain /\ job.kind = old.kind /\ job.result = old.result
      /\ job.at = "rewrite" /\ job.c = 0 /\ job.then = "end"
      /\ job.call.op = "none" /\ CallsFit(job) /\ CallFits(job, cycles', chat)
  BY <1>1, <1>2, <1>6, GoSteps
<1>10. StepsOK(job) BY <1>3, <1>9 DEF StepsOK, Answering
<1>11. cycles[n].state = "text" \/ cycles[n].deleted BY <1>1, <1>2, <1>3 DEF Place
<1>12. Place(job, cycles') BY <1>3, <1>7, <1>8, <1>9, <1>11 DEF Place, Answering
<1>13. Told(job, cycles', chat)
  <2>1. \A c \in 1..Len(cycles') : ~(c <= 0) OBVIOUS
  <2> QED BY <1>9, <2>1 DEF Told
<1>14. BaseInv' BY <1>4, <1>7, <1>9, <1>10, <1>12, <1>13, HeadBase
<1> QED BY <1>1, <1>2, <1>3, <1>4, <1>7, <1>9, <1>14 DEF x

\* The loop of the final edits takes a text that is not written yet.
LEMMA RewriteSteps ==
  ASSUME BaseInv, NEW j \in 1..Len(writes), Rewrite(j), NEW job, job = writes'[1]
  PROVE  /\ NextWrite(job) /\ HeadAside /\ cycles' = cycles /\ rows' = rows /\ CyclesKept
         /\ RowsKept
         /\ writes[1].at = "rewrite" /\ Answering(writes[1]) /\ writes[1].call.op = "none"
         /\ job.call.op = "none"
         /\ \/ job.at = "edit" /\ job.c \in 1..Len(cycles) /\ Speaks(cycles[job.c])
                 /\ job.then = "rewrite"
            \/ job.at = "end" /\ job.c = 0 /\ job.then = "end"
         /\ BaseInv'
<1> DEFINE n == Len(cycles)
           old == writes[1]
<1>1. Turn(j) /\ writes[j].at = "rewrite" /\ writes[j].call.op = "none" BY DEF Rewrite, Here
<1>2. /\ ProjTypeOK /\ j = 1 /\ old \in QueuedWrite /\ n \in Nat
      /\ WriteOK(old, n, closed, options.streaming) /\ Place(old, cycles) /\ Told(old, cycles, chat)
  BY <1>1, AtHand
<1>3. Answering(old)
  <2>1. old.kind \in {"flush", "create", "move", "finish", "fail"} BY <1>2, WriteTypes
  <2> QED BY <1>1, <1>2, <2>1 DEF WriteOK, StepsOK, Answering
<1>4. HeadAside BY <1>2, AsideSteps DEF Rewrite
<1>5. cycles' = cycles /\ rows' = rows BY DEF Rewrite, output
<1>6. CyclesKept /\ RowsKept BY <1>5, SameOutput
<1>7. \/ \E c \in Unwritten(old) : Earliest(Unwritten(old), c) /\ Go(j, "edit", c, "rewrite")
      \/ Unwritten(old) = {} /\ Go(j, "end", 0, "end")
  BY <1>2 DEF Rewrite
<1>8. "edit" \in WriteStep /\ "rewrite" \in WriteStep /\ "end" \in WriteStep /\ 0 \in Nat
  BY DEF WriteStep
<1>9. \A c \in 1..n : Speaks(cycles[c]) /\ c <= old.c => Shown(cycles, chat, c)
  BY <1>1, <1>2, <1>3 DEF Told
<1>10. Unwritten(old) = {c \in 1..n : Speaks(cycles[c]) /\ c > old.c}
  BY DEF Unwritten, Texts, Speaks, active
<1>11. old.c \in Nat BY <1>2, WriteTypes
<1>12. cycles[n].state = "text" \/ cycles[n].deleted BY <1>1, <1>2, <1>3 DEF Place
<1>13. ASSUME NEW c \in Unwritten(old), Earliest(Unwritten(old), c), Go(j, "edit", c, "rewrite")
       PROVE  /\ NextWrite(job) /\ job.call.op = "none" /\ BaseInv'
              /\ job.at = "edit" /\ job.c \in 1..n /\ Speaks(cycles[job.c]) /\ job.then = "rewrite"
  <2>1. c \in 1..n /\ c \in Nat /\ Speaks(cycles[c]) BY <1>2, <1>10
  <2>2. /\ NextWrite(job) /\ SameChain /\ job.kind = old.kind /\ job.result = old.result
        /\ job.at = "edit" /\ job.c = c /\ job.then = "rewrite"
        /\ job.call.op = "none" /\ CallsFit(job) /\ CallFits(job, cycles', chat)
    BY <1>1, <1>2, <1>8, <1>13, <2>1, GoSteps
  <2>3. StepsOK(job) BY <1>3, <2>2 DEF StepsOK, Answering
  <2>4. Place(job, cycles') BY <1>3, <1>5, <1>12, <2>1, <2>2 DEF Place, Answering, Speaks
  <2>5. ASSUME NEW d \in 1..n, Speaks(cycles[d]), d < c
        PROVE  Shown(cycles, chat, d)
    <3>1. d \notin Unwritten(old)
      <4>1. d \in Unwritten(old) => c <= d BY <1>13 DEF Earliest
      <4> QED BY <4>1, <2>1, <2>5
    <3>2. d <= old.c BY <1>10, <1>11, <2>5, <3>1
    <3> QED BY <1>9, <2>5, <3>2
  <2>6. Told(job, cycles', chat) BY <1>5, <2>2, <2>5 DEF Told
  <2>7. job.c \in 1..Len(cycles') /\ job.at # "post" BY <1>5, <2>1, <2>2
  <2>8. BaseInv' BY <1>4, <1>6, <2>2, <2>3, <2>4, <2>6, <2>7, HeadBase
  <2> QED BY <2>1, <2>2, <2>8
<1>14. CASE Unwritten(old) = {} /\ Go(j, "end", 0, "end")
  <2>1. /\ NextWrite(job) /\ SameChain /\ job.kind = old.kind /\ job.result = old.result
        /\ job.at = "end" /\ job.c = 0 /\ job.then = "end"
        /\ job.call.op = "none" /\ CallsFit(job) /\ CallFits(job, cycles', chat)
    <3>1. Go(j, "end", 0, "end") BY <1>14
    <3>2. "end" \in WriteStep /\ 0 \in Nat BY DEF WriteStep
    <3>3. Turn(j) /\ writes[1].call.op = "none" BY <1>1, <1>2, <1>8
    <3>4. /\ NextWrite(job) /\ SameChain /\ job.kind = writes[1].kind
          /\ job.result = writes[1].result /\ job.at = "end" /\ job.c = 0 /\ job.then = "end"
          /\ job.call.op = "none" /\ CallsFit(job)
          /\ job.at # "delete" => CallFits(job, cycles', chat)
      <4> HIDE DEF old, n
      <4> QED BY <3>1, <3>2, <3>3, GoSteps
    <3> QED BY <3>4
  <2>2. StepsOK(job) BY <1>3, <2>1 DEF StepsOK, Answering
  <2>3. Place(job, cycles') BY <1>3, <1>5, <1>12, <2>1 DEF Place, Answering
  <2>4. ASSUME NEW d \in 1..n, Speaks(cycles[d])
        PROVE  Shown(cycles, chat, d)
    <3>1. d <= old.c BY <1>10, <1>11, <1>14, <2>4
    <3> QED BY <1>9, <2>4, <3>1
  <2>5. Told(job, cycles', chat) BY <1>5, <2>1, <2>4 DEF Told
  <2>6. BaseInv' BY <1>4, <1>6, <2>1, <2>2, <2>3, <2>5, HeadBase
  <2> QED BY <1>1, <1>2, <1>3, <1>4, <1>5, <1>6, <2>1, <2>6
<1> QED BY <1>1, <1>2, <1>3, <1>4, <1>5, <1>6, <1>7, <1>13, <1>14

\* fail writes the text so far, or goes on to the notice.
LEMMA WordsSteps ==
  ASSUME BaseInv, NEW j \in 1..Len(writes), Words(j), NEW job, job = writes'[1]
  PROVE  /\ NextWrite(job) /\ HeadAside /\ cycles' = cycles /\ rows' = rows /\ CyclesKept
         /\ RowsKept
         /\ writes[1].at = "words" /\ writes[1].kind = "fail" /\ writes[1].call.op = "none"
         /\ job.call.op = "none"
         /\ \/ /\ cycles[Len(cycles)].state = "text"
               /\ job.at = "edit" /\ job.c = Len(cycles) /\ job.then = "notice"
            \/ /\ cycles[Len(cycles)].state # "text"
               /\ job.at = "notice" /\ job.c = 0 /\ job.then = "end"
         /\ BaseInv'
<1> DEFINE n == Len(cycles)
           old == writes[1]
<1>1. Turn(j) /\ writes[j].at = "words" /\ writes[j].call.op = "none" BY DEF Words, Here
<1>2. /\ ProjTypeOK /\ j = 1 /\ old \in QueuedWrite /\ n \in Nat /\ n \in 1..n
      /\ WriteOK(old, n, closed, options.streaming)
  BY <1>1, AtHand
<1>3. old.kind = "fail"
  <2>1. old.kind \in {"flush", "create", "move", "finish", "fail"} BY <1>2, WriteTypes
  <2> QED BY <1>1, <1>2, <2>1 DEF WriteOK, StepsOK
<1>4. HeadAside BY <1>2, AsideSteps DEF Words
<1>5. cycles' = cycles /\ rows' = rows BY DEF Words, output
<1>6. CyclesKept /\ RowsKept BY <1>5, SameOutput
<1>7. IF cycles[n].state = "text" THEN Go(j, "edit", n, "notice") ELSE Go(j, "notice", 0, "end")
  BY DEF Words, active
<1>8. "edit" \in WriteStep /\ "notice" \in WriteStep /\ "end" \in WriteStep /\ 0 \in Nat
  BY DEF WriteStep
<1>9. CASE cycles[n].state = "text"
  <2>1. /\ NextWrite(job) /\ SameChain /\ job.kind = old.kind
        /\ job.at = "edit" /\ job.c = n /\ job.then = "notice"
        /\ job.call.op = "none" /\ CallsFit(job) /\ CallFits(job, cycles', chat)
    <3>1. Go(j, "edit", n, "notice") BY <1>7, <1>9
    <3> HIDE DEF n
    <3> QED BY <1>1, <1>2, <1>8, <3>1, GoSteps
  <2>2. StepsOK(job) BY <1>3, <2>1 DEF StepsOK
  <2>3. Place(job, cycles') /\ Told(job, cycles', chat)
    BY <1>3, <1>5, <1>9, <2>1 DEF Place, Told, Answering
  <2>4. job.c \in 1..Len(cycles') /\ job.at # "post" BY <1>2, <1>5, <2>1
  <2>5. BaseInv' BY <1>4, <1>6, <2>1, <2>2, <2>3, <2>4, HeadBase
  <2> QED BY <1>1, <1>2, <1>3, <1>4, <1>5, <1>6, <1>9, <2>1, <2>5
<1>10. CASE cycles[n].state # "text"
  <2>1. /\ NextWrite(job) /\ SameChain /\ job.kind = old.kind
        /\ job.at = "notice" /\ job.c = 0 /\ job.then = "end"
        /\ job.call.op = "none" /\ CallsFit(job) /\ CallFits(job, cycles', chat)
    BY <1>1, <1>2, <1>7, <1>8, <1>10, GoSteps
  <2>2. StepsOK(job) BY <1>3, <2>1 DEF StepsOK
  <2>3. Place(job, cycles') /\ Told(job, cycles', chat) BY <1>3, <2>1 DEF Place, Told, Answering
  <2>4. BaseInv' BY <1>4, <1>6, <2>1, <2>2, <2>3, HeadBase
  <2> QED BY <1>1, <1>2, <1>3, <1>4, <1>5, <1>6, <1>10, <2>1, <2>4
<1> QED BY <1>9, <1>10

\* writeTerminalNotice: in the working message, or in one of its own.
LEMMA NoticeSteps ==
  ASSUME BaseInv, NEW j \in 1..Len(writes), Notice(j), NEW job, job = writes'[1]
  PROVE  /\ NextWrite(job) /\ HeadAside /\ CyclesKept /\ RowsKept /\ Len(cycles') = Len(cycles)
         /\ writes[1].at = "notice" /\ writes[1].kind = "fail" /\ writes[1].call.op = "none"
         /\ job.call.op = "none" /\ job.then = "failed"
         /\ LET n == Len(cycles) IN
            /\ \A d \in 1..n : d # n => cycles'[d] = cycles[d]
            /\ \/ /\ cycles[n].state # "text" /\ ~cycles[n].deleted /\ rows' = rows
                  /\ cycles'[n] = Blank(cycles[n]) /\ job.at = "edit" /\ job.c = n
               \/ /\ cycles[n].state = "text" \/ cycles[n].deleted
                  /\ cycles'[n] = [cycles[n] EXCEPT !.completed = TRUE]
                  /\ \A d \in 1..n : d # n /\ rows'[d] = "open" => rows[d] = "open"
                  /\ rows'[n] = "open" => cycles[n].msg = 0 /\ rows[n] = "open"
                  /\ job.at = "post" /\ job.c = n + 1
         /\ BaseInv'
<1> DEFINE n == Len(cycles)
           old == writes[1]
<1>1. Turn(j) /\ writes[j].at = "notice" /\ writes[j].call.op = "none" BY DEF Notice, Here
<1>2. /\ ProjTypeOK /\ Shapes /\ j = 1 /\ old \in QueuedWrite /\ n \in Nat /\ n \in 1..n
      /\ WriteOK(old, n, closed, options.streaming) /\ (Closing(old) => closed)
      /\ rows \in Seq(RowState) /\ Len(rows) = n /\ OpenOnce(rows)
  BY <1>1, AtHand
<1>3. old.kind = "fail" /\ closed
  <2>1. old.kind \in {"flush", "create", "move", "finish", "fail"} BY <1>2, WriteTypes
  <2>2. old.kind = "fail" BY <1>1, <1>2, <2>1 DEF WriteOK, StepsOK
  <2> QED BY <1>2, <2>2 DEF Closing
<1>4. HeadAside BY <1>2, AsideSteps DEF Notice
<1>5. \/ /\ cycles[n].state # "text" /\ ~cycles[n].deleted /\ rows' = rows
         /\ cycles' = [cycles EXCEPT ![n] = Blank(cycles[n])]
         /\ Go(j, "edit", n, "failed")
      \/ /\ cycles[n].state = "text" \/ cycles[n].deleted
         /\ Emit([cycles EXCEPT ![n].completed = TRUE], n)
         /\ Go(j, "post", n + 1, "failed")
  BY DEF Notice, active
<1>6. "edit" \in WriteStep /\ "post" \in WriteStep /\ "failed" \in WriteStep /\ n + 1 \in Nat
  BY <1>2 DEF WriteStep
<1>7. cycles[n] \in OutputCycle BY <1>2 DEF Shapes
<1>8. CASE /\ cycles[n].state # "text" /\ ~cycles[n].deleted /\ rows' = rows
           /\ cycles' = [cycles EXCEPT ![n] = Blank(cycles[n])]
           /\ Go(j, "edit", n, "failed")
  <2> DEFINE x == Blank(cycles[n])
  <2>1. /\ x \in OutputCycle /\ x.msg = cycles[n].msg /\ x.ver = cycles[n].ver + 1
        /\ x.text = cycles[n].text
    <3>1. cycles[n].part \in Nat /\ cycles[n].text \in SUBSET Nat
          /\ "transient" \in {"transient", "thinking", "text"}
      BY <1>7, CycleTypes
    <3>2. x = Changed(cycles[n], "transient", cycles[n].part, cycles[n].text) BY DEF Blank
    <3> HIDE DEF x
    <3> QED BY <1>7, <3>1, <3>2, ChangedCycle
  <2> HIDE DEF x
  <2>2. cycles' = [cycles EXCEPT ![n] = x] BY <1>8 DEF x
  <2>3. cycles[n].ver <= x.ver
    <3>1. cycles[n].ver \in Nat BY <1>7, CycleTypes
    <3> QED BY <3>1, <2>1
  <2>4. x.text = {} BY <1>2, <1>8, <2>1 DEF ProjTypeOK, active
  <2>5. /\ CyclesKept /\ Len(cycles') = n /\ cycles'[n] = x
        /\ \A d \in 1..n : d # n => cycles'[d] = cycles[d]
    BY <1>2, <2>1, <2>2, <2>3, <2>4, OneKept
  <2>6. RowsKept BY <1>2, <1>8, <2>5 DEF RowsKept
  <2>7. /\ NextWrite(job) /\ SameChain /\ job.kind = old.kind
        /\ job.at = "edit" /\ job.c = n /\ job.then = "failed"
        /\ job.call.op = "none" /\ CallsFit(job) /\ CallFits(job, cycles', chat)
    <3>1. Go(j, "edit", n, "failed") BY <1>8
    <3> HIDE DEF n
    <3> QED BY <1>1, <1>2, <1>6, <3>1, GoSteps
  <2>8. StepsOK(job) BY <1>3, <2>7 DEF StepsOK
  <2>9. Place(job, cycles') /\ Told(job, cycles', chat)
    BY <1>3, <2>5, <2>7 DEF Place, Told, Answering
  <2>10. job.c \in 1..Len(cycles') /\ job.at # "post" BY <1>2, <2>5, <2>7
  <2>11. BaseInv' BY <1>4, <2>5, <2>6, <2>7, <2>8, <2>9, <2>10, HeadBase
  <2> QED BY <1>1, <1>2, <1>3, <1>4, <1>8, <2>5, <2>6, <2>7, <2>11 DEF x
<1>9. CASE /\ cycles[n].state = "text" \/ cycles[n].deleted
           /\ Emit([cycles EXCEPT ![n].completed = TRUE], n)
           /\ Go(j, "post", n + 1, "failed")
  <2> DEFINE x == [cycles[n] EXCEPT !.completed = TRUE]
  <2>1. Emit([cycles EXCEPT ![n] = x], n) BY <1>9
  <2>2. /\ CyclesKept /\ RowsKept /\ Len(cycles') = n /\ cycles'[n] = x
        /\ \A d \in 1..n : d # n => cycles'[d] = cycles[d]
        /\ \A d \in 1..n : d # n /\ rows'[d] = "open" => rows[d] = "open"
        /\ rows'[n] = "open" => cycles[n].msg = 0 /\ rows[n] = "open"
    BY <1>2, <2>1, MarkedKept
  <2>3. /\ NextWrite(job) /\ SameChain /\ job.kind = old.kind
        /\ job.at = "post" /\ job.c = n + 1 /\ job.then = "failed"
        /\ job.call.op = "none" /\ CallsFit(job) /\ CallFits(job, cycles', chat)
    <3> HIDE DEF x
    <3> QED BY <1>1, <1>2, <1>6, <1>9, GoSteps
  <2>4. StepsOK(job) BY <1>3, <2>3 DEF StepsOK
  <2>5. Place(job, cycles') /\ Told(job, cycles', chat) BY <1>3, <2>3 DEF Place, Told, Answering
  <2>6. job.c = Len(cycles') + 1 /\ closed BY <1>3, <2>2, <2>3
  <2>7. job.at \notin {"edit", "create", "delete", "emit"} BY <2>3
  <2>8. BaseInv' BY <1>4, <2>2, <2>3, <2>4, <2>5, <2>6, <2>7, HeadBase
  <2> QED BY <1>1, <1>2, <1>3, <1>4, <1>9, <2>2, <2>3, <2>8
<1> QED BY <1>5, <1>8, <1>9

\* fail reports the active cycle as failed.
LEMMA FailedSteps ==
  ASSUME BaseInv, NEW j \in 1..Len(writes), Failed(j), NEW job, job = writes'[1]
  PROVE  /\ NextWrite(job) /\ HeadAside /\ CyclesKept /\ RowsKept /\ Len(cycles') = Len(cycles)
         /\ writes[1].at = "failed" /\ writes[1].kind = "fail" /\ writes[1].call.op = "none"
         /\ job.call.op = "none" /\ job.at = "end" /\ job.c = 0 /\ job.then = "end"
         /\ LET n == Len(cycles) IN
            /\ cycles'[n] = [cycles[n] EXCEPT !.failed = TRUE]
            /\ \A d \in 1..n : d # n => cycles'[d] = cycles[d]
            /\ \A d \in 1..n : d # n /\ rows'[d] = "open" => rows[d] = "open"
            /\ rows'[n] = "open" => cycles[n].msg = 0 /\ rows[n] = "open"
         /\ BaseInv'
<1> DEFINE n == Len(cycles)
           old == writes[1]
           x == [cycles[n] EXCEPT !.failed = TRUE]
<1>1. Turn(j) /\ writes[j].at = "failed" /\ writes[j].call.op = "none" BY DEF Failed, Here
<1>2. /\ ProjTypeOK /\ j = 1 /\ old \in QueuedWrite /\ n \in 1..n
      /\ WriteOK(old, n, closed, options.streaming)
  BY <1>1, AtHand
<1>3. old.kind = "fail"
  <2>1. old.kind \in {"flush", "create", "move", "finish", "fail"} BY <1>2, WriteTypes
  <2> QED BY <1>1, <1>2, <2>1 DEF WriteOK, StepsOK
<1>4. HeadAside BY <1>2, AsideSteps DEF Failed
<1>5. Emit([cycles EXCEPT ![n] = x], n) BY DEF Failed, active
<1>6. Go(j, "end", 0, "end") /\ "end" \in WriteStep /\ 0 \in Nat BY DEF Failed, WriteStep
<1>7. /\ CyclesKept /\ RowsKept /\ Len(cycles') = n /\ cycles'[n] = x
      /\ \A d \in 1..n : d # n => cycles'[d] = cycles[d]
      /\ \A d \in 1..n : d # n /\ rows'[d] = "open" => rows[d] = "open"
      /\ rows'[n] = "open" => cycles[n].msg = 0 /\ rows[n] = "open"
  BY <1>2, <1>5, MarkedKept
<1> HIDE DEF x
<1>8. /\ NextWrite(job) /\ SameChain /\ job.kind = old.kind /\ job.result = old.result
      /\ job.at = "end" /\ job.c = 0 /\ job.then = "end"
      /\ job.call.op = "none" /\ CallsFit(job) /\ CallFits(job, cycles', chat)
  BY <1>1, <1>2, <1>6, GoSteps
<1>9. StepsOK(job) BY <1>3, <1>8 DEF StepsOK
<1>10. Place(job, cycles') /\ Told(job, cycles', chat) BY <1>3, <1>8 DEF Place, Told, Answering
<1>11. BaseInv' BY <1>4, <1>7, <1>8, <1>9, <1>10, HeadBase
<1> QED BY <1>1, <1>2, <1>3, <1>4, <1>7, <1>8, <1>11 DEF x


\* The result of a turn is a set of chunks.
LEMMA TerminalType ==
  ASSUME ProjTypeOK, NEW result
  PROVE  Terminal(result) \in SUBSET Nat
<1>1. parts \in Seq(Nat) /\ Len(parts) \in Nat BY LenProperties DEF ProjTypeOK
<1>2. \A p : Chunks(p, parts) \in SUBSET Nat BY <1>1 DEF Chunks
<1>3. 1..Len(parts) \in SUBSET Nat /\ {} \in SUBSET Nat BY <1>1
<1> QED BY <1>2, <1>3 DEF Terminal

\* The cycle at the end says something else, or shows the working text.
LEMMA SaidKept ==
  ASSUME BaseInv, NEW x, NEW state \in {"transient", "text"}, NEW text \in SUBSET Nat,
         LET n == Len(cycles) IN
         /\ x = Changed(cycles[n], state, cycles[n].part, text)
         /\ cycles' = [cycles EXCEPT ![n] = x],
         state = "text" \/ text = {}, rows' = rows
  PROVE  LET n == Len(cycles) IN
         /\ CyclesKept /\ RowsKept /\ Len(cycles') = n /\ cycles'[n] = x /\ x \in OutputCycle
         /\ x.state = state /\ x.text = text /\ x.msg = cycles[n].msg /\ x.ver = cycles[n].ver + 1
         /\ x.part = cycles[n].part /\ x.completed = cycles[n].completed
         /\ x.deleted = cycles[n].deleted /\ x.failed = cycles[n].failed
         /\ \A d \in 1..n : d # n => cycles'[d] = cycles[d]
<1> DEFINE n == Len(cycles)
<1>1. Shapes /\ ProjTypeOK BY ProjShapes DEF BaseInv
<1>2. n \in 1..n /\ rows \in Seq(RowState) /\ Len(rows) = n /\ OpenOnce(rows)
  <2>1. n \in 1..n BY <1>1 DEF Shapes
  <2>2. rows \in Seq(RowState) /\ Len(rows) = n BY <1>1 DEF ProjTypeOK, Shapes, RowState
  <2> QED BY <1>1, <2>1, <2>2 DEF ProjTypeOK, OpenOnce, active
<1>3. cycles[n] \in OutputCycle BY <1>1, <1>2 DEF Shapes
<1>4. cycles[n].part \in Nat /\ cycles[n].ver \in Nat BY <1>3, CycleTypes
<1>5. /\ x \in OutputCycle /\ x.msg = cycles[n].msg /\ x.ver = cycles[n].ver + 1
      /\ x.part = cycles[n].part /\ x.state = state /\ x.text = text
      /\ x.completed = cycles[n].completed /\ x.deleted = cycles[n].deleted
      /\ x.failed = cycles[n].failed
  <2>1. x = Changed(cycles[n], state, cycles[n].part, text) OBVIOUS
  <2>2. state \in {"transient", "thinking", "text"} OBVIOUS
  <2> DEFINE cur == cycles[n]
             part == cycles[n].part
  <2>3. cur \in OutputCycle /\ part \in Nat /\ x = Changed(cur, state, part, text)
    BY <1>3, <1>4, <2>1
  <2> HIDE DEF n, cur, part
  <2>4. /\ x \in OutputCycle /\ x.msg = cur.msg /\ x.ver = cur.ver + 1 /\ x.part = part
        /\ x.state = state /\ x.text = text
        /\ x.completed = cur.completed /\ x.deleted = cur.deleted /\ x.failed = cur.failed
    BY <2>2, <2>3, ChangedCycle
  <2> QED BY <2>4 DEF cur, part
<1>6. cycles[n].ver <= x.ver BY <1>4, <1>5
<1>7. /\ CyclesKept /\ Len(cycles') = n /\ cycles'[n] = x
      /\ \A d \in 1..n : d # n => cycles'[d] = cycles[d]
  BY <1>2, <1>5, <1>6, OneKept
<1>8. RowsKept BY <1>2, <1>7 DEF RowsKept
<1> QED BY <1>5, <1>7, <1>8

\* What a silent result does to the cycles, and where the write goes.
LEMMA SilenceSteps ==
  ASSUME BaseInv, NEW j \in 1..Len(writes), Here(j, "conclude"), OnlyJobs, rows' = rows,
         writes[1].kind = "finish", writes[1].result = "silent", Silence(j),
         NEW job, job = writes'[1]
  PROVE  /\ NextWrite(job) /\ CyclesKept /\ RowsKept /\ Len(cycles') = Len(cycles)
         /\ job.call.op = "none"
         /\ LET n == Len(cycles) IN
            \/ cycles' = cycles /\ job.at = "remove" /\ job.c = 0 /\ job.then = "end"
            \/ cycles' = cycles /\ job.at = "silence" /\ job.c = 0 /\ job.then = "spare"
            \/ /\ cycles[n].state # "text" /\ cycles[n].msg # 0
               /\ cycles'[n] = Blank(cycles[n]) /\ \A d \in 1..n : d # n => cycles'[d] = cycles[d]
               /\ job.at = "edit" /\ job.c = n /\ job.then = "keep"
            \/ cycles' = cycles /\ job.at = "over" /\ job.c = 0 /\ job.then = "end"
         /\ BaseInv'
<1> DEFINE n == Len(cycles)
           old == writes[1]
<1>1. Turn(j) /\ writes[j].at = "conclude" /\ writes[j].call.op = "none" BY DEF Here
<1>2. /\ ProjTypeOK /\ Shapes /\ j = 1 /\ n \in Nat /\ n \in 1..n BY <1>1, AtHand
<1>3. HeadAside BY <1>2, AsideSteps
<1>4. /\ {"remove", "silence", "edit", "over", "spare", "keep", "end"} \subseteq WriteStep
      /\ 0 \in Nat
  BY DEF WriteStep
<1>5. \/ Go(j, "remove", 0, "end") /\ cycles' = cycles
      \/ Go(j, "silence", 0, "spare") /\ cycles' = cycles
      \/ /\ cycles[n].state # "text" /\ cycles[n].msg # 0
         /\ Go(j, "edit", n, "keep") /\ cycles' = [cycles EXCEPT ![n] = Blank(cycles[n])]
      \/ Go(j, "over", 0, "end") /\ cycles' = cycles
  BY DEF Silence, active
<1>6. cycles' = cycles => CyclesKept /\ RowsKept /\ Len(cycles') = Len(cycles) BY SameOutput
<1>7. ASSUME CyclesKept, RowsKept, NEW at \in {"remove", "silence", "over"},
             NEW then \in {"end", "spare"}, Go(j, at, 0, then), (at = "silence") = (then = "spare")
      PROVE  BaseInv' /\ NextWrite(job) /\ job.at = at /\ job.c = 0 /\ job.then = then
             /\ job.call.op = "none"
  <2>1. at \in WriteStep /\ then \in WriteStep BY <1>4
  <2>2. /\ NextWrite(job) /\ SameChain /\ job.kind = old.kind /\ job.result = old.result
        /\ job.at = at /\ job.c = 0 /\ job.then = then
        /\ job.call.op = "none" /\ CallsFit(job)
             /\ (job.at # "delete" => CallFits(job, cycles', chat))
    BY <1>1, <1>2, <1>4, <1>7, <2>1, GoSteps
  <2>3. StepsOK(job) BY <1>7, <2>2 DEF StepsOK
  <2>4. Place(job, cycles') /\ Told(job, cycles', chat) BY <1>7, <2>2 DEF Place, Told, Answering
  <2>5. job.at \notin {"edit", "create", "delete", "emit", "post"} BY <1>7, <2>2
  <2>6. BaseInv' BY <1>3, <1>7, <2>2, <2>3, <2>4, <2>5, HeadBase
  <2> QED BY <2>2, <2>6
<1>8. CASE Go(j, "remove", 0, "end") /\ cycles' = cycles
  <2>1. BaseInv' /\ NextWrite(job) /\ job.at = "remove" /\ job.c = 0 /\ job.then = "end"
        /\ job.call.op = "none"
    BY <1>6, <1>7, <1>8
  <2> QED BY <1>6, <1>8, <2>1
<1>9. CASE Go(j, "silence", 0, "spare") /\ cycles' = cycles
  <2>1. BaseInv' /\ NextWrite(job) /\ job.at = "silence" /\ job.c = 0 /\ job.then = "spare"
        /\ job.call.op = "none"
    BY <1>6, <1>7, <1>9
  <2> QED BY <1>6, <1>9, <2>1
<1>10. CASE Go(j, "over", 0, "end") /\ cycles' = cycles
  <2>1. BaseInv' /\ NextWrite(job) /\ job.at = "over" /\ job.c = 0 /\ job.then = "end"
        /\ job.call.op = "none"
    BY <1>6, <1>7, <1>10
  <2> QED BY <1>6, <1>10, <2>1
<1>11. CASE /\ cycles[n].state # "text" /\ cycles[n].msg # 0
            /\ Go(j, "edit", n, "keep") /\ cycles' = [cycles EXCEPT ![n] = Blank(cycles[n])]
  <2> DEFINE x == Blank(cycles[n])
  <2>1. x = Changed(cycles[n], "transient", cycles[n].part, cycles[n].text) BY DEF Blank
  <2>2. cycles' = [cycles EXCEPT ![n] = x] BY <1>11
  <2>3. cycles[n].text = {} BY <1>2, <1>11 DEF ProjTypeOK, active
  <2>4. cycles[n].text \in SUBSET Nat /\ "transient" \in {"transient", "text"} BY <2>3
  <2> HIDE DEF x
  <2>5. /\ CyclesKept /\ RowsKept /\ Len(cycles') = n /\ cycles'[n] = x
        /\ \A d \in 1..n : d # n => cycles'[d] = cycles[d]
    BY <2>1, <2>2, <2>3, <2>4, SaidKept
  <2>6. /\ NextWrite(job) /\ SameChain /\ job.kind = old.kind /\ job.result = old.result
        /\ job.at = "edit" /\ job.c = n /\ job.then = "keep"
        /\ job.call.op = "none" /\ CallsFit(job) /\ CallFits(job, cycles', chat)
    <3>1. Go(j, "edit", n, "keep") /\ "edit" \in WriteStep /\ "keep" \in WriteStep BY <1>4, <1>11
    <3>2. Turn(j) /\ writes[1].call.op = "none" /\ n \in Nat BY <1>1, <1>2
    <3> HIDE DEF n
    <3> QED BY <3>1, <3>2, GoSteps
  <2>7. StepsOK(job) BY <2>6 DEF StepsOK
  <2>8. Place(job, cycles') /\ Told(job, cycles', chat) BY <2>5, <2>6 DEF Place, Told, Answering
  <2>9. job.c \in 1..Len(cycles') /\ job.at # "post" BY <1>2, <2>5, <2>6
  <2>10. BaseInv' BY <1>3, <2>5, <2>6, <2>7, <2>8, <2>9, HeadBase
  <2> QED BY <1>11, <2>5, <2>6, <2>10 DEF x
<1> QED BY <1>5, <1>8, <1>9, <1>10, <1>11

\* What an answer does to the cycles, and where the write goes.
LEMMA AnswerSteps ==
  ASSUME BaseInv, NEW j \in 1..Len(writes), Here(j, "conclude"), OnlyJobs, rows' = rows,
         writes[1].kind = "finish", writes[1].result # "silent", Answer(j),
         NEW job, job = writes'[1]
  PROVE  /\ NextWrite(job) /\ CyclesKept /\ RowsKept /\ Len(cycles') = Len(cycles)
         /\ job.call.op = "none"
         /\ LET n == Len(cycles)
                terminal == Terminal(writes[1].result)
            IN
            \/ /\ cycles[n].state # "text" /\ cycles[n].msg # 0 /\ ~cycles[n].deleted
               /\ cycles' = cycles /\ job.at = "delete" /\ job.c = n /\ job.then = "complete"
            \/ /\ cycles[n].state # "text" /\ (cycles[n].msg = 0 \/ cycles[n].deleted)
               /\ cycles'[n] = [cycles[n] EXCEPT !.deleted = TRUE]
               /\ \A d \in 1..n : d # n => cycles'[d] = cycles[d]
               /\ job.at = "complete" /\ job.c = 0 /\ job.then = "end"
            \/ /\ cycles[n].state # "text"
               /\ \E tail \in SUBSET Nat : cycles'[n] = Saying(cycles[n], tail)
               /\ \A d \in 1..n : d # n => cycles'[d] = cycles[d]
               /\ job.at = "complete" /\ job.c = 0 /\ job.then = "end"
            \/ /\ cycles[n].state = "text"
               /\ \A c \in 1..n : cycles'[c] = IF c \in Amended(terminal, TextOf(Texts))
                                               THEN Saying(cycles[c], terminal) ELSE cycles[c]
               /\ job.at = "complete" /\ job.c = 0 /\ job.then = "end"
         /\ BaseInv'
<1> DEFINE n == Len(cycles)
           old == writes[1]
           terminal == Terminal(old.result)
           said == TextOf(Texts)
<1>1. Turn(j) /\ writes[j].at = "conclude" /\ writes[j].call.op = "none" BY DEF Here
<1>2. /\ ProjTypeOK /\ Shapes /\ j = 1 /\ n \in Nat /\ n \in 1..n /\ cycles \in Seq(OutputCycle)
      /\ rows \in Seq(RowState) /\ Len(rows) = n /\ OpenOnce(rows)
  BY <1>1, AtHand
<1>3. HeadAside BY <1>2, AsideSteps
<1>4. "delete" \in WriteStep /\ "complete" \in WriteStep /\ "end" \in WriteStep /\ 0 \in Nat
  BY DEF WriteStep
<1>5. terminal \in SUBSET Nat BY <1>2, TerminalType
<1>6. cycles[n] \in OutputCycle BY <1>2 DEF Shapes
<1>7. \/ /\ cycles[n].state # "text" /\ cycles[n].msg # 0 /\ ~cycles[n].deleted
         /\ Go(j, "delete", n, "complete") /\ cycles' = cycles
      \/ /\ cycles[n].state # "text" /\ (cycles[n].msg = 0 \/ cycles[n].deleted)
         /\ Go(j, "complete", 0, "end") /\ cycles' = [cycles EXCEPT ![n].deleted = TRUE]
      \/ /\ cycles[n].state # "text" /\ Go(j, "complete", 0, "end")
         /\ \E tail \in {terminal \ said, terminal} :
              cycles' = [cycles EXCEPT ![n] = Saying(cycles[n], tail)]
      \/ /\ cycles[n].state = "text" /\ Go(j, "complete", 0, "end")
         /\ cycles' = [c \in 1..n |-> IF c \in Amended(terminal, said)
                                      THEN Saying(cycles[c], terminal) ELSE cycles[c]]
  <2>1. PICK alike \in BOOLEAN :
          LET tail == IF said # {} /\ StartsWith(terminal, said, alike) THEN terminal \ said
                      ELSE terminal
              shownAlready == Texts # {} /\ (tail = {} \/ said = terminal)
          IN \/ /\ cycles[active].state # "text" /\ shownAlready
                /\ \/ /\ cycles[active].msg # 0 /\ ~cycles[active].deleted
                      /\ Go(j, "delete", active, "complete") /\ UNCHANGED cycles
                   \/ /\ cycles[active].msg = 0 \/ cycles[active].deleted
                      /\ Go(j, "complete", 0, "end")
                      /\ cycles' = [cycles EXCEPT ![active].deleted = TRUE]
             \/ /\ cycles[active].state # "text" /\ ~shownAlready
                /\ cycles' = [cycles EXCEPT ![active] = Saying(cycles[active], tail)]
                /\ Go(j, "complete", 0, "end")
             \/ /\ cycles[active].state = "text" /\ Go(j, "complete", 0, "end")
                /\ cycles' = [c \in 1..active |-> IF c \in Amended(terminal, said)
                                                 THEN Saying(cycles[c], terminal) ELSE cycles[c]]
    <3>1. writes[j].result = old.result BY <1>2
    <3> QED BY <3>1 DEF Answer
  <2> HIDE DEF terminal, said
  <2> QED BY <2>1 DEF active
<1> HIDE DEF terminal, said
<1>8. ASSUME CyclesKept, RowsKept, Len(cycles') = n, Go(j, "complete", 0, "end"),
             cycles'[n].state = "text" \/ cycles'[n].deleted
      PROVE  BaseInv' /\ NextWrite(job) /\ job.at = "complete" /\ job.c = 0 /\ job.then = "end"
             /\ job.call.op = "none"
  <2>1. /\ NextWrite(job) /\ SameChain /\ job.kind = old.kind /\ job.result = old.result
        /\ job.at = "complete" /\ job.c = 0 /\ job.then = "end"
        /\ job.call.op = "none" /\ CallsFit(job) /\ CallFits(job, cycles', chat)
    BY <1>1, <1>2, <1>4, <1>8, GoSteps
  <2>2. StepsOK(job) BY <2>1 DEF StepsOK
  <2>3. Place(job, cycles') /\ Told(job, cycles', chat) BY <1>8, <2>1 DEF Place, Told, Answering
  <2>4. job.at \notin {"edit", "create", "delete", "emit", "post"} BY <2>1
  <2>5. BaseInv' BY <1>3, <1>8, <2>1, <2>2, <2>3, <2>4, HeadBase
  <2> QED BY <2>1, <2>5
<1>9. CASE /\ cycles[n].state # "text" /\ cycles[n].msg # 0 /\ ~cycles[n].deleted
           /\ Go(j, "delete", n, "complete") /\ cycles' = cycles
  <2>1. CyclesKept /\ RowsKept BY <1>9, SameOutput
  <2>2. /\ NextWrite(job) /\ SameChain /\ job.kind = old.kind /\ job.result = old.result
        /\ job.at = "delete" /\ job.c = n /\ job.then = "complete"
        /\ job.call.op = "none" /\ CallsFit(job)
    <3>1. Go(j, "delete", n, "complete") BY <1>9
    <3> HIDE DEF n
    <3> QED BY <1>1, <1>2, <1>4, <3>1, GoSteps
  <2>3. CallFits(job, cycles', chat) BY <1>9, <2>2 DEF CallFits
  <2>4. StepsOK(job) BY <2>2 DEF StepsOK
  <2>5. Place(job, cycles') /\ Told(job, cycles', chat) BY <1>9, <2>2 DEF Place, Told, Answering
  <2>6. job.c \in 1..Len(cycles') /\ job.at # "post" BY <1>2, <1>9, <2>2
  <2>7. BaseInv' BY <1>3, <2>1, <2>2, <2>3, <2>4, <2>5, <2>6, HeadBase
  <2> QED BY <1>9, <2>1, <2>2, <2>7
<1>10. CASE /\ cycles[n].state # "text" /\ (cycles[n].msg = 0 \/ cycles[n].deleted)
            /\ Go(j, "complete", 0, "end") /\ cycles' = [cycles EXCEPT ![n].deleted = TRUE]
  <2> DEFINE x == [cycles[n] EXCEPT !.deleted = TRUE]
  <2>1. /\ x \in OutputCycle /\ x.msg = cycles[n].msg /\ cycles[n].ver <= x.ver
        /\ x.state = cycles[n].state /\ x.text = cycles[n].text
    BY <1>6, Marked
  <2>2. x.deleted BY <1>6 DEF OutputCycle
  <2>3. cycles' = [cycles EXCEPT ![n] = x] BY <1>10
  <2>4. x.text = {} BY <1>2, <1>10, <2>1 DEF ProjTypeOK, active
  <2> HIDE DEF x
  <2>5. /\ CyclesKept /\ Len(cycles') = n /\ cycles'[n] = x
        /\ \A d \in 1..n : d # n => cycles'[d] = cycles[d]
    BY <1>2, <2>1, <2>3, <2>4, OneKept
  <2>6. RowsKept BY <1>2, <2>5 DEF RowsKept
  <2>7. BaseInv' /\ NextWrite(job) /\ job.at = "complete" /\ job.c = 0 /\ job.then = "end"
        /\ job.call.op = "none"
    BY <1>8, <1>10, <2>2, <2>5, <2>6
  <2> QED BY <1>10, <2>5, <2>6, <2>7 DEF x
<1>11. CASE /\ cycles[n].state # "text" /\ Go(j, "complete", 0, "end")
            /\ \E tail \in {terminal \ said, terminal} :
                 cycles' = [cycles EXCEPT ![n] = Saying(cycles[n], tail)]
  <2>1. PICK tail \in SUBSET Nat : cycles' = [cycles EXCEPT ![n] = Saying(cycles[n], tail)]
    BY <1>5, <1>11
  <2> DEFINE x == Saying(cycles[n], tail)
  <2>2. x = Changed(cycles[n], "text", cycles[n].part, tail) BY DEF Saying
  <2>3. cycles' = [cycles EXCEPT ![n] = x] /\ "text" \in {"transient", "text"} BY <2>1
  <2> HIDE DEF x
  <2>4. /\ CyclesKept /\ RowsKept /\ Len(cycles') = n /\ cycles'[n] = x /\ x.state = "text"
        /\ \A d \in 1..n : d # n => cycles'[d] = cycles[d]
    BY <2>2, <2>3, SaidKept
  <2>5. BaseInv' /\ NextWrite(job) /\ job.at = "complete" /\ job.c = 0 /\ job.then = "end"
        /\ job.call.op = "none"
    BY <1>8, <1>11, <2>4
  <2>6. \E t \in SUBSET Nat : cycles'[n] = Saying(cycles[n], t) BY <2>4 DEF x
  <2> QED BY <1>11, <2>4, <2>5, <2>6
<1>12. CASE /\ cycles[n].state = "text" /\ Go(j, "complete", 0, "end")
            /\ cycles' = [c \in 1..n |-> IF c \in Amended(terminal, said)
                                         THEN Saying(cycles[c], terminal) ELSE cycles[c]]
  <2>1. ASSUME NEW c \in 1..n
        PROVE  LET x == Saying(cycles[c], terminal) IN
               /\ x \in OutputCycle /\ x.msg = cycles[c].msg /\ cycles[c].ver <= x.ver
               /\ x.state = "text"
    <3>1. cycles[c] \in OutputCycle BY <1>2 DEF Shapes
    <3>2. cycles[c].part \in Nat /\ cycles[c].ver \in Nat BY <3>1, CycleTypes
    <3> DEFINE x == Saying(cycles[c], terminal)
    <3>3. x = Changed(cycles[c], "text", cycles[c].part, terminal) BY DEF Saying
    <3>4. "text" \in {"transient", "thinking", "text"} OBVIOUS
    <3> HIDE DEF x
    <3>5. /\ x \in OutputCycle /\ x.msg = cycles[c].msg /\ x.ver = cycles[c].ver + 1
          /\ x.state = "text"
      BY <1>5, <3>1, <3>2, <3>3, <3>4, ChangedCycle
    <3>6. cycles[c].ver <= x.ver BY <3>2, <3>5
    <3> QED BY <3>5, <3>6 DEF x
  <2>2. \A c \in 1..n : cycles'[c] = IF c \in Amended(terminal, said)
                                     THEN Saying(cycles[c], terminal) ELSE cycles[c]
    BY <1>12
  <2>3. \A c \in 1..n : cycles[c] \in OutputCycle /\ cycles[c].ver \in Nat
                        /\ (cycles[c].state # "text" => cycles[c].text = {})
    BY <1>2 DEF Shapes, ProjTypeOK, active
  <2>4. ASSUME NEW c \in 1..n
        PROVE  /\ cycles'[c] \in OutputCycle /\ cycles'[c].msg = cycles[c].msg
               /\ cycles[c].ver <= cycles'[c].ver
               /\ (cycles'[c].state # "text" => cycles'[c].text = {})
               /\ (cycles[c].state = "text" => cycles'[c].state = "text")
    <3>1. CASE c \in Amended(terminal, said)
      <4>1. cycles'[c] = Saying(cycles[c], terminal) BY <2>2, <3>1
      <4> QED BY <2>1, <4>1
    <3>2. CASE c \notin Amended(terminal, said)
      <4>1. cycles'[c] = cycles[c] BY <2>2, <3>2
      <4>2. cycles[c].ver <= cycles[c].ver BY <2>3
      <4> QED BY <2>3, <4>1, <4>2
    <3> QED BY <3>1, <3>2
  <2>5. cycles' \in Seq(OutputCycle) /\ Len(cycles') = n
    <3>1. cycles' \in [1..n -> OutputCycle]
      <4>1. cycles' = [c \in 1..n |-> cycles'[c]] BY <1>12
      <4> QED BY <2>4, <4>1
    <3> QED BY <1>2, <3>1, FunIsSeq
  <2>6. CyclesKept
    <3>1. \A d \in n + 1..Len(cycles') : FALSE BY <1>2, <2>5
    <3>2. n <= Len(cycles') BY <1>2, <2>5
    <3> QED BY <2>4, <2>5, <3>1, <3>2 DEF CyclesKept
  <2>7. RowsKept BY <1>2, <2>5 DEF RowsKept
  <2>8. cycles'[n].state = "text" BY <1>2, <1>12, <2>4
  <2>9. BaseInv' /\ NextWrite(job) /\ job.at = "complete" /\ job.c = 0 /\ job.then = "end"
        /\ job.call.op = "none"
    BY <1>8, <1>12, <2>5, <2>6, <2>7, <2>8
  <2> QED BY <1>12, <2>2, <2>5, <2>6, <2>7, <2>9 DEF terminal, said
<1> QED BY <1>7, <1>9, <1>10, <1>11, <1>12

\* Answer or silence: the base invariant stands.
LEMMA ConcludeBase ==
  ASSUME BaseInv, NEW j \in 1..Len(writes), Conclude(j)
  PROVE  BaseInv' /\ HeadAside /\ rows' = rows /\ writes[1].at = "conclude"
         /\ writes[1].kind = "finish"
         /\ writes[1].call.op = "none" /\ j = 1
<1>1. Here(j, "conclude") /\ OnlyJobs /\ rows' = rows BY DEF Conclude
<1>2. Turn(j) BY <1>1 DEF Here
<1>3. /\ ProjTypeOK /\ j = 1 /\ writes[1] \in QueuedWrite
      /\ WriteOK(writes[1], Len(cycles), closed, options.streaming)
  BY <1>2, AtHand
<1>4. writes[1].kind = "finish" /\ writes[1].at = "conclude" /\ writes[1].call.op = "none"
  <2>1. writes[1].kind \in {"flush", "create", "move", "finish", "fail"} BY <1>3, WriteTypes
  <2>2. writes[1].at = "conclude" /\ writes[1].call.op = "none" BY <1>1, <1>3 DEF Here
  <2> QED BY <1>3, <2>1, <2>2 DEF WriteOK, StepsOK
<1>5. HeadAside BY <1>1, <1>3, AsideSteps
<1>6. IF writes[1].result = "silent" THEN Silence(j) ELSE Answer(j) BY <1>3 DEF Conclude
<1>7. BaseInv' BY <1>1, <1>4, <1>6, SilenceSteps, AnswerSteps
<1> QED BY <1>1, <1>3, <1>4, <1>5, <1>7


-----------------------------------------------------------------------------
(* Replies *)

\* What a reply leaves alone.
LandAside == UNCHANGED <<options, timer, closed, target, steering, outcome, past>>

\* A reply keeps the base invariant if messages and cycles still fit.
LEMMA LandBase ==
  ASSUME BaseInv, SameChain, LandAside, RowsKept, chat' \in Seq(Message), reacted' \subseteq Nat,
         response' \in 1..Len(chat'),
         cycles' \in Seq(OutputCycle), Len(cycles) <= Len(cycles'),
         \A c \in 1..Len(cycles') : cycles'[c].msg <= Len(chat')
                                    /\ (cycles'[c].state # "text" => cycles'[c].text = {}),
         LinkOK', SilentOK',
         NEW job, job = writes'[1], StepsOK(job), CallsFit(job),
         job.at \in {"edit", "create", "delete", "emit"} => job.c \in 1..Len(cycles'),
         job.at # "post",
         CallFits(job, cycles', chat'), Place(job, cycles'), Told(job, cycles', chat')
  PROVE  BaseInv'
<1>1. ProjTypeOK /\ Shapes BY ProjShapes DEF BaseInv
<1>2. Len(cycles') \in Nat /\ Len(cycles) \in Nat BY <1>1, LenProperties DEF Shapes
<1>3. closed' = closed /\ options' = options /\ timer' = timer /\ outcome' = outcome /\ late' = late
  BY DEF LandAside, past
<1>4. ProjTypeOK'
  <2>1. cycles' # <<>>
    <3>1. 1 <= Len(cycles) BY <1>1 DEF Shapes
    <3>2. Len(cycles') # 0 BY <3>1, <1>2
    <3> QED BY <3>2, EmptySeq
  <2>2. timer' \in 0..Len(cycles')
    <3>1. timer \in 0..Len(cycles) BY <1>1 DEF ProjTypeOK, active
    <3> QED BY <3>1, <1>2, <1>3
  <2>3. \A c, d \in 1..Len(cycles') : rows'[c] = "open" /\ rows'[d] = "open" => c = d
    BY DEF RowsKept, OpenOnce
  <2>4. writes' \in Seq(QueuedWrite) BY DEF SameChain
  <2>5. /\ options' \in [streaming : BOOLEAN, directive : BOOLEAN] /\ closed' \in BOOLEAN
        /\ target' \in Nat
        /\ parts' \in Seq(Nat) /\ thoughts' \in Nat /\ moves' \in Nat /\ lost' \in Nat
        /\ overtaken' \subseteq Nat /\ late' \in BOOLEAN /\ steering' \in BOOLEAN
        /\ outcome' \in {"running", "ending", "done", "silent", "failed", "given up"}
    BY <1>1 DEF ProjTypeOK, past, LandAside
  <2> QED BY <2>1, <2>2, <2>3, <2>4, <2>5 DEF ProjTypeOK, active, RowState, RowsKept
<1>5. WritesOK'
  <2>1. WriteOK(writes[1], Len(cycles), closed, options.streaming)
    <3>1. 1 \in 1..Len(writes) BY <1>1 DEF SameChain, Shapes
    <3> QED BY <3>1 DEF BaseInv, WritesOK, active
  <2>2. job.kind \in {"flush", "create"} => options.streaming BY <2>1 DEF WriteOK, SameChain
  <2>3. WriteOK(job, Len(cycles'), closed', options.streaming) BY <2>2, Zenon DEF WriteOK
  <2> QED BY <1>1, <1>2, <1>3, <2>3, MovedWrites DEF BaseInv
<1>6. EndOK' BY <1>1, <1>3, EndKept DEF BaseInv
<1>7. CallOK' /\ PlaceOK' BY DEF CallOK, PlaceOK
<1>8. ShownOK'
  <2>1. ~(outcome' = "done" /\ ~late') BY <1>3 DEF BaseInv, EndOK, SameChain
  <2> QED BY <2>1, Zenon DEF ShownOK
<1> QED BY <1>4, <1>5, <1>6, <1>7, <1>8 DEF BaseInv

\* A message changes, or one is sent.
LEMMA OneMessage ==
  ASSUME NEW ch \in Seq(Message), NEW m \in 1..Len(ch), NEW x \in Message
  PROVE  /\ [ch EXCEPT ![m] = x] \in Seq(Message) /\ Len([ch EXCEPT ![m] = x]) = Len(ch)
         /\ [ch EXCEPT ![m] = x][m] = x
         /\ \A k \in 1..Len(ch) : k # m => [ch EXCEPT ![m] = x][k] = ch[k]
<1>1. /\ [ch EXCEPT ![m] = x] \in Seq(Message) /\ Len([ch EXCEPT ![m] = x]) = Len(ch)
      /\ \A k \in 1..Len(ch) : [ch EXCEPT ![m] = x][k] = IF k = m THEN x ELSE ch[k]
  BY ExceptSeq
<1> QED BY <1>1

\* The write and the call whose reply arrives.
LEMMA LandAtHand ==
  ASSUME BaseInv, NEW j \in 1..Len(writes), Land(j), NEW old, old = writes[1], NEW job,
         job = writes'[1]
  PROVE  /\ ProjTypeOK /\ Shapes /\ j = 1 /\ Turn(j) /\ writes # <<>> /\ old \in QueuedWrite
         /\ WriteOK(old, Len(cycles), closed, options.streaming)
         /\ StepsOK(old) /\ CallsFit(old) /\ CallFits(old, cycles, chat) /\ Place(old, cycles)
         /\ Told(old, cycles, chat) /\ LandAside
         /\ old.kind \in {"flush", "create", "move", "finish", "fail"}
         /\ old.call.op \in {"edit", "create", "recall", "unreact", "react", "delete", "silence",
              "post"}
         /\ (old.call.op \in {"edit", "create", "recall", "delete"} => old.c \in 1..Len(cycles))
         /\ Effect(old) /\ ~Refused(old.call)
         /\ response' = IF old.call.op \in {"create", "post"} THEN Len(chat) + 1 ELSE response
         /\ response \in 1..Len(chat) /\ Len(chat) \in Nat /\ chat \in Seq(Message)
         /\ reacted \subseteq Nat /\ target \in Nat
         /\ Len(cycles) \in Nat /\ Len(cycles) \in 1..Len(cycles)
         /\ cycles \in Seq(OutputCycle) /\ rows \in Seq(RowState) /\ Len(rows) = Len(cycles)
         /\ OpenOnce(rows)
         /\ NextWrite(job) /\ SameChain /\ job.kind = old.kind /\ job.result = old.result
         /\ job.c = old.c /\ job.call.op = "none" /\ CallsFit(job)
         /\ (old.call.op # "recall" => job.at = Following(old) /\ job.then = "end")
         /\ (old.call.op = "recall" => job.at = old.at /\ job.then = old.then)
<1>1. Turn(j) BY DEF Land
<1>2. /\ ProjTypeOK /\ Shapes /\ j = 1 /\ writes # <<>> /\ old \in QueuedWrite
      /\ WriteOK(old, Len(cycles), closed, options.streaming)
      /\ CallFits(old, cycles, chat) /\ Place(old, cycles)
      /\ Told(old, cycles, chat)
      /\ Len(cycles) \in Nat /\ Len(cycles) \in 1..Len(cycles)
      /\ cycles \in Seq(OutputCycle) /\ rows \in Seq(RowState) /\ Len(rows) = Len(cycles)
      /\ OpenOnce(rows)
  BY <1>1, AtHand
<1>3. StepsOK(old) /\ CallsFit(old) /\ old.call.op # "none" BY <1>2 DEF WriteOK, Land
<1>4. old.kind \in {"flush", "create", "move", "finish", "fail"} /\ old.call.op \in NetworkCall
      /\ old.at \in WriteStep
  BY <1>2, WriteTypes
<1>5. old.call.op \in {"edit", "create", "recall", "unreact", "react", "delete", "silence", "post"}
  BY <1>3, <1>4 DEF NetworkCall
<1>6. old.call.op \in {"edit", "create", "recall", "delete"} => old.c \in 1..Len(cycles)
  <2>1. old.call.op \in {"edit", "create", "recall", "delete"}
        => old.at \in {"edit", "create", "delete"}
    BY <1>3, <1>4 DEF CallsFit, WriteStep
  <2> QED BY <1>2, <2>1 DEF WriteOK
<1>7. Effect(old) /\ ~Refused(old.call) /\ LandAside
      /\ response' = IF old.call.op \in {"create", "post"} THEN Len(chat) + 1 ELSE response
  BY <1>2 DEF Land, LandAside
<1>8. response \in 1..Len(chat) /\ Len(chat) \in Nat /\ chat \in Seq(Message)
      /\ reacted \subseteq Nat /\ target \in Nat
  BY <1>2 DEF ProjTypeOK, Shapes
<1>9. CASE old.call.op # "recall"
  <2>1. Through(j) BY <1>2, <1>9 DEF Land
  <2>2. SameChain /\ Stands(Following(writes[1]), writes[1].c, "end") /\ writes'[1].call = NoCall
    BY <1>1, <1>2, <2>1, ThroughChain
  <2>3. job.call.op = "none" BY <2>2 DEF NoCall
  <2>4. CallsFit(job) BY <2>3 DEF CallsFit
  <2>5. NextWrite(job) /\ job.kind = old.kind /\ job.result = old.result
        /\ job.at = Following(old) /\ job.then = "end" /\ job.c = old.c
    BY <2>2 DEF NextWrite, SameChain, Stands
  <2> QED BY <1>1, <1>2, <1>3, <1>4, <1>5, <1>6, <1>7, <1>8, <1>9, <2>2, <2>3, <2>4, <2>5
<1>10. CASE old.call.op = "recall"
  <2>1. Calling(j, "none", 0, 0) BY <1>2, <1>10 DEF Land, Calling, NoCall
  <2>2. "none" \in NetworkCall /\ 0 \in Nat BY DEF NetworkCall
  <2>3. /\ SameChain /\ Stands(writes[1].at, writes[1].c, writes[1].then)
        /\ writes'[1].call = [op |-> "none", ver |-> 0, msg |-> 0]
    BY <1>1, <1>2, <2>1, <2>2, CallChain
  <2>4. job.call.op = "none" BY <2>3
  <2>5. CallsFit(job) BY <2>4 DEF CallsFit
  <2>6. NextWrite(job) /\ job.kind = old.kind /\ job.result = old.result
        /\ job.at = old.at /\ job.then = old.then /\ job.c = old.c
    BY <2>3 DEF NextWrite, SameChain, Stands
  <2> QED BY <1>1, <1>2, <1>3, <1>4, <1>5, <1>6, <1>7, <1>8, <1>10, <2>3, <2>4, <2>5, <2>6
<1> QED BY <1>9, <1>10


\* Where a write goes on after a reply.
LEMMA LandStep ==
  ASSUME NEW old \in QueuedWrite, StepsOK(old), CallsFit(old),
         old.call.op \notin {"none", "recall"},
         NEW job, job.kind = old.kind, job.result = old.result, job.at = Following(old),
         job.then = "end"
  PROVE  /\ StepsOK(job)
         /\ (old.at = old.call.op \/ (old.at = "edit" /\ old.call.op = "create"))
         /\ job.at \notin {"edit", "create", "delete", "post"}
         /\ (job.at = "emit" => old.at = "edit" /\ old.then = "emit")
         /\ (job.at = "rewrite" => old.at = "edit" /\ old.then = "rewrite" /\ Answering(old))
         /\ (job.at = "keep" => old.at = "edit" /\ old.then = "keep" /\ old.kind = "finish")
         /\ (job.at = "complete" => old.at = "delete" /\ old.then = "complete")
         /\ (Answering(job) => job.at \in {"conclude", "complete", "rewrite"})
         /\ (Answering(job) <=> Answering(old))
<1>1. /\ old.kind \in {"flush", "create", "move", "finish", "fail"} /\ old.call.op \in NetworkCall
      /\ old.at \in WriteStep
  BY WriteTypes
<1>2. old.at = old.call.op \/ (old.at = "edit" /\ old.call.op = "create")
  BY <1>1 DEF CallsFit, NetworkCall, WriteStep
<1>3. Answering(job) <=> Answering(old) BY DEF Answering
<1>4. CASE old.at = "unreact" BY <1>1, <1>2, <1>3, <1>4 DEF Following, StepsOK, Answering
<1>5. CASE old.at = "edit"
  <2>1. job.at = old.then BY <1>5 DEF Following
  <2> QED BY <1>1, <1>2, <1>3, <1>5, <2>1 DEF StepsOK, Answering
<1>6. CASE old.at = "create"
  <2>1. job.at = old.then BY <1>6 DEF Following
  <2> QED BY <1>1, <1>2, <1>3, <1>6, <2>1 DEF StepsOK, Answering
<1>7. CASE old.at = "delete"
  <2>1. job.at = old.then BY <1>7 DEF Following
  <2> QED BY <1>1, <1>2, <1>3, <1>7, <2>1 DEF StepsOK, Answering
<1>8. CASE old.at \in {"react", "silence", "post"}
  <2>1. job.at = old.then BY <1>8 DEF Following
  <2> QED BY <1>1, <1>2, <1>3, <1>8, <2>1 DEF StepsOK, Answering
<1> QED BY <1>1, <1>2, <1>4, <1>5, <1>6, <1>7, <1>8 DEF NetworkCall

\* No message turns silent.
LEMMA SilentKept ==
  ASSUME Shapes, SilentOK, SameChain, outcome' = outcome,
         \A m \in 1..Len(chat') : chat'[m].as = "silent" => m \in 1..Len(chat)
             /\ chat[m].as = "silent"
  PROVE  SilentOK'
<1> SUFFICES ASSUME NEW m \in 1..Len(chat'), chat'[m].as = "silent"
             PROVE  /\ outcome' \notin {"running", "done"}
                    /\ \A j \in 1..Len(writes') : ~Answering(writes'[j])
  BY DEF SilentOK
<1>1. outcome \notin {"running", "done"} /\ \A j \in 1..Len(writes) : ~Answering(writes[j])
  BY DEF SilentOK
<1>2. ASSUME NEW j \in 1..Len(writes') PROVE ~Answering(writes'[j])
  <2>1. j = 1 \/ j \in 2..Len(writes) BY DEF Shapes, SameChain
  <2>2. 1 \in 1..Len(writes) /\ Len(writes') = Len(writes) BY DEF Shapes, SameChain
  <2>3. CASE j = 1 BY <1>1, <2>2, <2>3 DEF SameChain, Answering
  <2>4. CASE j \in 2..Len(writes) BY <1>1, <2>2, <2>4 DEF SameChain
  <2> QED BY <2>1, <2>3, <2>4
<1> QED BY <1>1, <1>2

\* The texts of cycles whose messages stay as they are remain shown.
LEMMA ShownKept ==
  ASSUME NEW cs, NEW ds, NEW ch, NEW dh, NEW c, Shown(cs, ch, c), ds[c].msg = cs[c].msg,
         ds[c].ver = cs[c].ver, dh[cs[c].msg] = ch[cs[c].msg]
  PROVE  Shown(ds, dh, c)
BY DEF Shown

\* A reply to an edit: the message shows the version that was sent.
LEMMA LandEdit ==
  ASSUME BaseInv, NEW j \in 1..Len(writes), Land(j), writes[1].call.op = "edit",
         NEW job, job = writes'[1]
  PROVE  /\ BaseInv' /\ cycles' = cycles /\ rows' = rows /\ reacted' = reacted
         /\ response' = response
         /\ writes[1].at = "edit" /\ writes[1].c \in 1..Len(cycles)
         /\ Len(chat') = Len(chat)
         /\ LET m == writes[1].call.msg IN
            /\ m = cycles[writes[1].c].msg /\ m \in 1..Len(chat)
            /\ chat'[m] = [chat[m] EXCEPT !.ver = writes[1].call.ver]
            /\ \A k \in 1..Len(chat) : k # m => chat'[k] = chat[k]
            /\ chat[m].ver <= chat'[m].ver
         /\ job.at = writes[1].then /\ job.then = "end" /\ job.c = writes[1].c
         /\ job.call.op = "none"
<1> DEFINE old == writes[1]
           c == old.c
           m == old.call.msg
           x == [chat[m] EXCEPT !.ver = old.call.ver]
<1>1. old = writes[1] OBVIOUS
<1> HIDE DEF old
<1>2. /\ ProjTypeOK /\ Shapes /\ j = 1 /\ Turn(j) /\ writes # <<>> /\ old \in QueuedWrite
      /\ WriteOK(old, Len(cycles), closed, options.streaming)
      /\ StepsOK(old) /\ CallsFit(old) /\ CallFits(old, cycles, chat) /\ Place(old, cycles)
      /\ Told(old, cycles, chat) /\ LandAside
      /\ (old.call.op \in {"edit", "create", "recall", "delete"} => c \in 1..Len(cycles))
      /\ Effect(old) /\ ~Refused(old.call)
      /\ response' = IF old.call.op \in {"create", "post"} THEN Len(chat) + 1 ELSE response
      /\ response \in 1..Len(chat) /\ Len(chat) \in Nat /\ chat \in Seq(Message)
      /\ reacted \subseteq Nat
      /\ cycles \in Seq(OutputCycle) /\ rows \in Seq(RowState) /\ Len(rows) = Len(cycles)
      /\ OpenOnce(rows)
      /\ SameChain /\ job.kind = old.kind /\ job.result = old.result
      /\ job.c = c /\ job.call.op = "none" /\ CallsFit(job)
      /\ (old.call.op # "recall" => job.at = Following(old) /\ job.then = "end")
  BY <1>1, LandAtHand
<1>3. old.call.op = "edit" BY <1>1
<1>4. cycles' = cycles /\ rows' = rows BY <1>1, <1>2, <1>3 DEF Land, output
<1>5. chat' = [chat EXCEPT ![m].ver = old.call.ver] /\ reacted' = reacted BY <1>2, <1>3 DEF Effect
<1>6. /\ c \in 1..Len(cycles) /\ m = cycles[c].msg /\ cycles[c].msg # 0 /\ ~cycles[c].deleted
      /\ chat[cycles[c].msg].ver <= old.call.ver /\ old.call.ver <= cycles[c].ver
  BY <1>2, <1>3 DEF CallFits
<1>7. m \in 1..Len(chat) /\ old.call.ver \in Nat
  <2>1. cycles[c].msg \in 0..Len(chat) BY <1>2, <1>6 DEF Shapes
  <2> QED BY <1>2, <1>6, <2>1, WriteTypes
<1>8. chat[m] \in Message /\ chat[m].cycle = c
  BY <1>2, <1>6, <1>7 DEF BaseInv, LinkOK, Shapes, active
<1>9. x \in Message /\ x.ver = old.call.ver /\ x.cycle = c /\ x.as = chat[m].as
  BY <1>7, <1>8 DEF Message
<1>10. chat' = [chat EXCEPT ![m] = x] BY <1>5
<1>11. x = [chat[m] EXCEPT !.ver = old.call.ver] OBVIOUS
<1> HIDE DEF x
<1>12. /\ chat' \in Seq(Message) /\ Len(chat') = Len(chat) /\ chat'[m] = x
       /\ \A k \in 1..Len(chat) : k # m => chat'[k] = chat[k]
  BY <1>2, <1>7, <1>9, <1>10, OneMessage
<1> HIDE DEF m, c
<1>13. /\ StepsOK(job) /\ old.at = "edit"
       /\ job.at \notin {"edit", "create", "delete", "post"}
       /\ (job.at = "emit" => old.at = "edit" /\ old.then = "emit")
       /\ (job.at = "rewrite" => old.at = "edit" /\ old.then = "rewrite" /\ Answering(old))
       /\ (job.at = "keep" => old.at = "edit" /\ old.then = "keep" /\ old.kind = "finish")
       /\ (job.at = "complete" => old.at = "delete" /\ old.then = "complete")
       /\ (Answering(job) => job.at \in {"conclude", "complete", "rewrite"})
       /\ (Answering(job) <=> Answering(old))
  BY <1>2, <1>3, LandStep
<1>14. job.at = old.then /\ job.then = "end" BY <1>2, <1>3, <1>13 DEF Following
<1>15. LinkOK'
  <2> SUFFICES ASSUME NEW d \in 1..Len(cycles), cycles[d].msg # 0
               PROVE  chat'[cycles[d].msg].cycle = d /\ chat'[cycles[d].msg].ver <= cycles[d].ver
    BY <1>4 DEF LinkOK, active
  <2>1. chat[cycles[d].msg].cycle = d /\ chat[cycles[d].msg].ver <= cycles[d].ver
    BY DEF BaseInv, LinkOK, active
  <2>2. cycles[d].msg \in 1..Len(chat)
    <3>1. cycles[d].msg \in 0..Len(chat) BY <1>2 DEF Shapes
    <3> QED BY <3>1, <1>2
  <2>3. CASE cycles[d].msg = m
    <3>1. d = c BY <2>1, <2>3, <1>8
    <3> QED BY <3>1, <2>3, <1>6, <1>9, <1>12
  <2>4. CASE cycles[d].msg # m BY <2>1, <2>2, <2>4, <1>12
  <2> QED BY <2>3, <2>4
<1>16. SilentOK'
  <2>1. ASSUME NEW k \in 1..Len(chat'), chat'[k].as = "silent"
        PROVE  k \in 1..Len(chat) /\ chat[k].as = "silent"
    <3>1. CASE k = m BY <3>1, <2>1, <1>7, <1>9, <1>12
    <3>2. CASE k # m BY <3>2, <2>1, <1>12
    <3> QED BY <3>1, <3>2
  <2>2. outcome' = outcome BY <1>2 DEF LandAside
  <2> QED BY <1>2, <2>1, <2>2, SilentKept DEF BaseInv
<1>17. CallFits(job, cycles', chat') BY <1>2, <1>13 DEF CallFits
<1>18. Place(job, cycles')
  <2>1. job.at = "emit" => cycles[c].state = "text" BY <1>2, <1>13 DEF Place, c
  <2>2. job.at = "keep" => c = Len(cycles) BY <1>2, <1>13 DEF Place, c
  <2>3. Answering(job) /\ job.at \in {"complete", "rewrite", "edit", "end"} =>
           cycles[Len(cycles)].state = "text" \/ cycles[Len(cycles)].deleted
    BY <1>2, <1>13 DEF Place
  <2> QED BY <1>2, <1>4, <1>13, <2>1, <2>2, <2>3 DEF Place
<1>19. Told(job, cycles', chat')
  <2> SUFFICES ASSUME Answering(job), job.at = "rewrite",
                      NEW d \in 1..Len(cycles), Speaks(cycles[d]), d <= c
               PROVE  Shown(cycles, chat', d)
    BY <1>2, <1>4, <1>13 DEF Told
  <2>1. Answering(old) BY <1>13
  <2>2. CASE d = c
    <3>1. old.call.ver = cycles[c].ver BY <2>1, <1>2, <1>3 DEF Told, c
    <3>2. x.as = "own"
      <4>1. x.as # "gone" BY <1>3, <1>2, <1>9 DEF Refused, m
      <4>2. x.as # "silent"
        <5>1. 1 \in 1..Len(writes) BY <1>2 DEF Shapes
        <5> QED BY <5>1, <2>1, <1>1, <1>7, <1>9 DEF BaseInv, SilentOK
      <4>3. x.as \in {"own", "silent", "gone"} BY <1>9 DEF Message
      <4> QED BY <4>1, <4>2, <4>3
    <3> QED BY <2>2, <3>1, <3>2, <1>6, <1>9, <1>12 DEF Shown
  <2>3. CASE d # c
    <3>1. d < c BY <2>3, <1>6
    <3>2. Shown(cycles, chat, d) BY <3>1, <2>1, <1>2, <1>13 DEF Told, c
    <3>3. cycles[d].msg # m BY <3>2, <2>3, <1>8 DEF Shown
    <3>4. cycles[d].msg \in 1..Len(chat)
      <4>1. cycles[d].msg \in 0..Len(chat) BY <1>2 DEF Shapes
      <4> QED BY <4>1, <3>2, <1>2 DEF Shown
    <3> QED BY <3>2, <3>3, <3>4, <1>12, ShownKept
  <2> QED BY <2>2, <2>3
<1>20. RowsKept BY <1>2, <1>4 DEF RowsKept
<1>21. response' = response BY <1>2, <1>3
<1>22. BaseInv'
  <2>1. \A d \in 1..Len(cycles') : cycles'[d].msg <= Len(chat')
                                   /\ (cycles'[d].state # "text" => cycles'[d].text = {})
    BY <1>2, <1>4, <1>12 DEF ProjTypeOK, active
  <2>2. chat' \in Seq(Message) /\ reacted' \subseteq Nat /\ response' \in 1..Len(chat')
        /\ cycles' \in Seq(OutputCycle) /\ Len(cycles) <= Len(cycles')
    BY <1>2, <1>4, <1>5, <1>12, <1>21 DEF Shapes
  <2>3. job.at \in {"edit", "create", "delete", "emit"} => job.c \in 1..Len(cycles')
    BY <1>2, <1>4, <1>6
  <2> QED BY <1>2, <1>13, <1>15, <1>16, <1>17, <1>18, <1>19, <1>20, <2>1, <2>2, <2>3, LandBase
<1>23. chat[m].ver <= chat'[m].ver BY <1>6, <1>9, <1>12
<1> QED
  BY <1>1, <1>2, <1>4, <1>5, <1>6, <1>7, <1>11, <1>12, <1>13, <1>14, <1>21, <1>22, <1>23 DEF m, c


\* A reply to a create: the cycle has a message, the last one, which shows the version sent.
LEMMA LandCreate ==
  ASSUME BaseInv, NEW j \in 1..Len(writes), Land(j), writes[1].call.op = "create",
         NEW job, job = writes'[1]
  PROVE  /\ BaseInv' /\ writes[1].at \in {"create", "edit"} /\ writes[1].c \in 1..Len(cycles)
         /\ LET c == writes[1].c IN
            /\ cycles[c].msg = 0 /\ ~cycles[c].deleted
            /\ cycles'[c] = [cycles[c] EXCEPT !.msg = Len(chat) + 1]
            /\ Len(cycles') = Len(cycles)
            /\ \A d \in 1..Len(cycles) : d # c => cycles'[d] = cycles[d]
            /\ \A d \in 1..Len(cycles) : d # c /\ rows'[d] = "open" => rows[d] = "open"
            /\ rows'[c] = "open" => Live(cycles'[c])
            /\ chat'[Len(chat) + 1] = [cycle |-> c, ver |-> writes[1].call.ver, as |-> "own"]
         /\ Len(chat') = Len(chat) + 1 /\ \A k \in 1..Len(chat) : chat'[k] = chat[k]
         /\ reacted' = reacted /\ response' = Len(chat) + 1
         /\ job.at = writes[1].then /\ job.then = "end" /\ job.c = writes[1].c
         /\ job.call.op = "none"
<1> DEFINE old == writes[1]
           c == old.c
<1>1. old = writes[1] OBVIOUS
<1> HIDE DEF old
<1>2. /\ ProjTypeOK /\ Shapes /\ j = 1 /\ Turn(j) /\ writes # <<>> /\ old \in QueuedWrite
      /\ WriteOK(old, Len(cycles), closed, options.streaming)
      /\ StepsOK(old) /\ CallsFit(old) /\ CallFits(old, cycles, chat) /\ Place(old, cycles)
      /\ Told(old, cycles, chat) /\ LandAside
      /\ (old.call.op \in {"edit", "create", "recall", "delete"} => c \in 1..Len(cycles))
      /\ Effect(old) /\ ~Refused(old.call)
      /\ response' = IF old.call.op \in {"create", "post"} THEN Len(chat) + 1 ELSE response
      /\ response \in 1..Len(chat) /\ Len(chat) \in Nat /\ chat \in Seq(Message)
      /\ reacted \subseteq Nat /\ target \in Nat /\ Len(cycles) \in Nat
      /\ cycles \in Seq(OutputCycle) /\ rows \in Seq(RowState) /\ Len(rows) = Len(cycles)
      /\ OpenOnce(rows)
      /\ SameChain /\ job.kind = old.kind /\ job.result = old.result
      /\ job.c = c /\ job.call.op = "none" /\ CallsFit(job)
      /\ (old.call.op # "recall" => job.at = Following(old) /\ job.then = "end")
      /\ (old.call.op = "recall" => job.at = old.at /\ job.then = old.then)
  BY <1>1, LandAtHand
<1>3. old.call.op = "create" BY <1>1
<1> DEFINE here == Len(chat) + 1
           x == [cycles[c] EXCEPT !.msg = here]
           y == [cycle |-> c, ver |-> old.call.ver, as |-> "own"]
<1>4. c \in 1..Len(cycles) /\ ~cycles[c].deleted /\ cycles[c].msg = 0
      /\ old.call.ver <= cycles[c].ver
  BY <1>2, <1>3 DEF CallFits
<1>5. Emit([cycles EXCEPT ![c] = x], c) BY <1>1, <1>2, <1>3 DEF Land
<1>6. chat' = Append(chat, y) /\ reacted' = reacted BY <1>2, <1>3 DEF Effect
<1>7. cycles[c] \in OutputCycle /\ here \in Nat BY <1>2, <1>4 DEF Shapes
<1>8. /\ x \in OutputCycle /\ x.msg = here /\ x.ver = cycles[c].ver /\ x.state = cycles[c].state
      /\ x.text = cycles[c].text /\ x.deleted = cycles[c].deleted
  BY <1>7 DEF OutputCycle
<1>9. y \in Message /\ y.cycle = c /\ y.ver = old.call.ver /\ y.as = "own"
  <2>1. old.call.ver \in Nat /\ old.c \in Nat BY <1>2, WriteTypes
  <2> QED BY <2>1 DEF Message
<1>10. x = [cycles[c] EXCEPT !.msg = Len(chat) + 1]
       /\ y = [cycle |-> c, ver |-> old.call.ver, as |-> "own"] OBVIOUS
<1> HIDE DEF x, y
<1>11. /\ chat' \in Seq(Message) /\ Len(chat') = here
       /\ \A k \in 1..Len(chat) : chat'[k] = chat[k]
       /\ chat'[here] = y
  BY <1>2, <1>6, <1>9, AppendChain
<1>12. /\ [cycles EXCEPT ![c] = x] \in Seq(OutputCycle)
       /\ Len([cycles EXCEPT ![c] = x]) = Len(cycles)
       /\ [cycles EXCEPT ![c] = x][c] = x
       /\ \A d \in 1..Len(cycles) \ {c} : [cycles EXCEPT ![c] = x][d] = cycles[d]
  BY <1>2, <1>4, <1>8, OneCycle
<1> HIDE DEF c
<1>13. /\ StepsOK(job) /\ (old.at = "create" \/ old.at = "edit")
       /\ job.at \notin {"edit", "create", "delete", "post"}
       /\ (job.at = "emit" => old.at = "edit" /\ old.then = "emit")
       /\ (job.at = "rewrite" => old.at = "edit" /\ old.then = "rewrite" /\ Answering(old))
       /\ (job.at = "keep" => old.at = "edit" /\ old.then = "keep" /\ old.kind = "finish")
       /\ (job.at = "complete" => old.at = "delete" /\ old.then = "complete")
       /\ (Answering(job) => job.at \in {"conclude", "complete", "rewrite"})
       /\ (Answering(job) <=> Answering(old))
  <2>1. /\ old \in QueuedWrite /\ StepsOK(old) /\ CallsFit(old)
        /\ old.call.op \notin {"none", "recall"} /\ job.kind = old.kind
        /\ job.result = old.result /\ job.at = Following(old) /\ job.then = "end"
    BY <1>2, <1>3
  <2> QED BY <1>3, <2>1, LandStep
<1>14. cycles' = [cycles EXCEPT ![c] = x] BY <1>5 DEF Emit
<1>15. /\ cycles' \in Seq(OutputCycle) /\ Len(cycles') = Len(cycles) /\ cycles'[c] = x
       /\ \A d \in 1..Len(cycles) : d # c => cycles'[d] = cycles[d]
  BY <1>12, <1>14
<1>16. /\ RowsKept
       /\ \A d \in 1..Len(cycles) : d # c /\ rows'[d] = "open" => rows[d] = "open"
       /\ rows'[c] = "open" => IF x.msg = 0 THEN rows[c] = "open" ELSE Live(x)
  <2> DEFINE cs == [cycles EXCEPT ![c] = x]
  <2>1. cs[c] = x BY <1>12
  <2>2. cs \in Seq(OutputCycle) /\ Len(cs) = Len(cycles) /\ Emit(cs, c) BY <1>5, <1>12
  <2> HIDE DEF cs
  <2> QED BY <1>2, <1>4, <2>1, <2>2, EmitKept
<1>17. x.msg # 0 BY <1>2, <1>8
<1>18. job.at = old.then
  BY <1>2, <1>3, <1>13 DEF Following
<1>19. LinkOK'
  <2> SUFFICES ASSUME NEW d \in 1..Len(cycles), cycles'[d].msg # 0
               PROVE  chat'[cycles'[d].msg].cycle = d /\ chat'[cycles'[d].msg].ver <= cycles'[d].ver
    BY <1>15 DEF LinkOK, active
  <2>1. CASE d = c BY <2>1, <1>4, <1>8, <1>9, <1>11, <1>15
  <2>2. CASE d # c
    <3>1. cycles'[d] = cycles[d] BY <2>2, <1>15
    <3>2. cycles[d].msg \in 1..Len(chat)
      <4>1. cycles[d].msg \in 0..Len(chat) BY <1>2 DEF Shapes
      <4> QED BY <4>1, <3>1, <1>2
    <3>3. chat[cycles[d].msg].cycle = d /\ chat[cycles[d].msg].ver <= cycles[d].ver
      BY <3>1 DEF BaseInv, LinkOK, active
    <3> QED BY <3>1, <3>2, <3>3, <1>11
  <2> QED BY <2>1, <2>2
<1>20. SilentOK'
  <2>1. ASSUME NEW k \in 1..Len(chat'), chat'[k].as = "silent"
        PROVE  k \in 1..Len(chat) /\ chat[k].as = "silent"
    <3>1. CASE k = here BY <3>1, <2>1, <1>9, <1>11
    <3>2. CASE k # here
      <4>1. k \in 1..Len(chat) BY <3>2, <1>2, <1>11
      <4> QED BY <4>1, <2>1, <1>11
    <3> QED BY <3>1, <3>2
  <2>2. outcome' = outcome BY <1>2 DEF LandAside
  <2> QED BY <1>2, <2>1, <2>2, SilentKept DEF BaseInv
<1>21. CallFits(job, cycles', chat') BY <1>2, <1>13 DEF CallFits
<1>22. \A d \in 1..Len(cycles) : cycles'[d].state = cycles[d].state
       /\ cycles'[d].ver = cycles[d].ver
                                   /\ cycles'[d].deleted = cycles[d].deleted
                                   /\ cycles'[d].text = cycles[d].text
  <2> TAKE d \in 1..Len(cycles)
  <2>1. CASE d = c BY <2>1, <1>8, <1>15
  <2>2. CASE d # c BY <2>2, <1>15
  <2> QED BY <2>1, <2>2
<1>23. Place(job, cycles')
  <2>1. job.at = "emit" => cycles[c].state = "text" BY <1>2, <1>13 DEF Place, c
  <2>2. job.at = "keep" => c = Len(cycles) BY <1>2, <1>13 DEF Place, c
  <2>3. Answering(job) /\ job.at \in {"complete", "rewrite", "edit", "end"} =>
           cycles[Len(cycles)].state = "text" \/ cycles[Len(cycles)].deleted
    BY <1>2, <1>13 DEF Place
  <2>4. Len(cycles) \in 1..Len(cycles) BY <1>2 DEF Shapes
  <2> QED BY <1>2, <1>4, <1>13, <1>15, <1>22, <2>1, <2>2, <2>3, <2>4 DEF Place
<1>24. Told(job, cycles', chat')
  <2> SUFFICES ASSUME Answering(job), job.at = "rewrite",
                      NEW d \in 1..Len(cycles), Speaks(cycles'[d]), d <= c
               PROVE  Shown(cycles', chat', d)
    BY <1>2, <1>15, <1>13 DEF Told
  <2>1. Answering(old) BY <1>13
  <2>2. CASE d = c
    <3>1. old.call.ver = cycles[c].ver BY <2>1, <1>2, <1>3 DEF Told, c
    <3> QED BY <2>2, <3>1, <1>2, <1>8, <1>9, <1>11, <1>15 DEF Shown
  <2>3. CASE d # c
    <3>1. d < c BY <2>3, <1>4
    <3>2. Speaks(cycles[d]) BY <1>22 DEF Speaks
    <3>3. Shown(cycles, chat, d) BY <3>1, <3>2, <2>1, <1>2, <1>13 DEF Told, c
    <3>4. cycles[d].msg \in 1..Len(chat)
      <4>1. cycles[d].msg \in 0..Len(chat) BY <1>2 DEF Shapes
      <4> QED BY <4>1, <3>3, <1>2 DEF Shown
    <3> QED BY <2>3, <3>3, <3>4, <1>11, <1>15, ShownKept
  <2> QED BY <2>2, <2>3
<1>25. response' = here BY <1>2, <1>3
<1>26. BaseInv'
  <2>1. ASSUME NEW d \in 1..Len(cycles')
        PROVE  cycles'[d].msg <= Len(chat') /\ (cycles'[d].state # "text" => cycles'[d].text = {})
    <3>1. d \in 1..Len(cycles) BY <1>15
    <3>2. cycles[d].state # "text" => cycles[d].text = {} BY <3>1, <1>2 DEF ProjTypeOK, active
    <3>3. cycles'[d].msg <= Len(chat')
      <4>1. CASE d = c BY <4>1, <1>2, <1>8, <1>11, <1>15
      <4>2. CASE d # c
        <5>1. cycles[d].msg \in 0..Len(chat) BY <3>1, <1>2 DEF Shapes
        <5> QED BY <5>1, <4>2, <3>1, <1>2, <1>11, <1>15
      <4> QED BY <4>1, <4>2
    <3> QED BY <3>1, <3>2, <3>3, <1>22
  <2>2. chat' \in Seq(Message) /\ reacted' \subseteq Nat /\ response' \in 1..Len(chat')
        /\ cycles' \in Seq(OutputCycle) /\ Len(cycles) <= Len(cycles')
    BY <1>2, <1>6, <1>11, <1>15, <1>25
  <2>3. job.at \in {"edit", "create", "delete", "emit"} => job.c \in 1..Len(cycles')
    BY <1>2, <1>4, <1>15
  <2> QED BY <1>2, <1>13, <1>16, <1>19, <1>20, <1>21, <1>23, <1>24, <2>1, <2>2, <2>3, LandBase
<1> QED
  BY <1>1, <1>2, <1>4, <1>6, <1>8, <1>10, <1>11, <1>13, <1>15, <1>16, <1>17, <1>18, <1>25, <1>26
  DEF c


\* A reply to a delete: the message is gone and the cycle deleted.
LEMMA LandDelete ==
  ASSUME BaseInv, NEW j \in 1..Len(writes), Land(j), writes[1].call.op = "delete",
         NEW job, job = writes'[1]
  PROVE  /\ BaseInv' /\ writes[1].at = "delete" /\ writes[1].c \in 1..Len(cycles)
         /\ LET c == writes[1].c
                m == writes[1].call.msg
            IN
            /\ m = cycles[c].msg /\ m \in 1..Len(chat) /\ ~cycles[c].deleted
            /\ cycles'[c] = [cycles[c] EXCEPT !.deleted = TRUE]
            /\ Len(cycles') = Len(cycles)
            /\ \A d \in 1..Len(cycles) : d # c => cycles'[d] = cycles[d]
            /\ \A d \in 1..Len(cycles) : d # c /\ rows'[d] = "open" => rows[d] = "open"
            /\ rows'[c] # "open"
            /\ chat'[m] = [chat[m] EXCEPT !.as = "gone"]
            /\ \A k \in 1..Len(chat) : k # m => chat'[k] = chat[k]
         /\ Len(chat') = Len(chat) /\ reacted' = reacted /\ response' = response
         /\ job.at = writes[1].then /\ job.then = "end" /\ job.c = writes[1].c
         /\ job.call.op = "none"
<1> DEFINE old == writes[1]
           c == old.c
<1>1. old = writes[1] OBVIOUS
<1> HIDE DEF old
<1>2. /\ ProjTypeOK /\ Shapes /\ j = 1 /\ Turn(j) /\ writes # <<>> /\ old \in QueuedWrite
      /\ WriteOK(old, Len(cycles), closed, options.streaming)
      /\ StepsOK(old) /\ CallsFit(old) /\ CallFits(old, cycles, chat) /\ Place(old, cycles)
      /\ Told(old, cycles, chat) /\ LandAside
      /\ (old.call.op \in {"edit", "create", "recall", "delete"} => c \in 1..Len(cycles))
      /\ Effect(old) /\ ~Refused(old.call)
      /\ response' = IF old.call.op \in {"create", "post"} THEN Len(chat) + 1 ELSE response
      /\ response \in 1..Len(chat) /\ Len(chat) \in Nat /\ chat \in Seq(Message)
      /\ reacted \subseteq Nat /\ target \in Nat /\ Len(cycles) \in Nat
      /\ cycles \in Seq(OutputCycle) /\ rows \in Seq(RowState) /\ Len(rows) = Len(cycles)
      /\ OpenOnce(rows)
      /\ SameChain /\ job.kind = old.kind /\ job.result = old.result
      /\ job.c = c /\ job.call.op = "none" /\ CallsFit(job)
      /\ (old.call.op # "recall" => job.at = Following(old) /\ job.then = "end")
      /\ (old.call.op = "recall" => job.at = old.at /\ job.then = old.then)
  BY <1>1, LandAtHand
<1>3. old.call.op = "delete" BY <1>1
<1> DEFINE m == old.call.msg
           x == [cycles[c] EXCEPT !.deleted = TRUE]
           y == [chat[m] EXCEPT !.as = "gone"]
<1>4. c \in 1..Len(cycles) /\ m = cycles[c].msg /\ cycles[c].msg # 0 BY <1>2, <1>3 DEF CallFits
<1>5. Emit([cycles EXCEPT ![c] = x], c) BY <1>1, <1>2, <1>3 DEF Land
<1>6. chat' = [chat EXCEPT ![m] = y] /\ reacted' = reacted BY <1>2, <1>3 DEF Effect
<1>7. m \in 1..Len(chat)
  <2>1. cycles[c].msg \in 0..Len(chat) BY <1>2, <1>4 DEF Shapes
  <2> QED BY <1>2, <1>4, <2>1
<1>8. x \in OutputCycle /\ x.msg = cycles[c].msg /\ x.ver = cycles[c].ver
      /\ x.state = cycles[c].state
      /\ x.text = cycles[c].text /\ x.deleted
  <2>1. cycles[c] \in OutputCycle BY <1>2, <1>4 DEF Shapes
  <2> QED BY <2>1 DEF OutputCycle
<1>9. y \in Message /\ y.cycle = chat[m].cycle /\ y.ver = chat[m].ver /\ y.as = "gone"
  <2>1. chat[m] \in Message BY <1>2, <1>7 DEF Shapes
  <2> QED BY <2>1 DEF Message
<1>10. x = [cycles[c] EXCEPT !.deleted = TRUE] /\ y = [chat[m] EXCEPT !.as = "gone"] OBVIOUS
<1> HIDE DEF x, y
<1>11. /\ chat' \in Seq(Message) /\ Len(chat') = Len(chat) /\ chat'[m] = y
       /\ \A k \in 1..Len(chat) : k # m => chat'[k] = chat[k]
  BY <1>2, <1>6, <1>7, <1>9, OneMessage
<1>12. /\ [cycles EXCEPT ![c] = x] \in Seq(OutputCycle)
       /\ Len([cycles EXCEPT ![c] = x]) = Len(cycles)
       /\ [cycles EXCEPT ![c] = x][c] = x
       /\ \A d \in 1..Len(cycles) \ {c} : [cycles EXCEPT ![c] = x][d] = cycles[d]
  BY <1>2, <1>4, <1>8, OneCycle
<1> HIDE DEF c, m
<1>13. /\ StepsOK(job) /\ (old.at = "delete")
       /\ job.at \notin {"edit", "create", "delete", "post"}
       /\ (job.at = "emit" => old.at = "edit" /\ old.then = "emit")
       /\ (job.at = "rewrite" => old.at = "edit" /\ old.then = "rewrite" /\ Answering(old))
       /\ (job.at = "keep" => old.at = "edit" /\ old.then = "keep" /\ old.kind = "finish")
       /\ (job.at = "complete" => old.at = "delete" /\ old.then = "complete")
       /\ (Answering(job) => job.at \in {"conclude", "complete", "rewrite"})
       /\ (Answering(job) <=> Answering(old))
  <2>1. /\ old \in QueuedWrite /\ StepsOK(old) /\ CallsFit(old)
        /\ old.call.op \notin {"none", "recall"} /\ job.kind = old.kind
        /\ job.result = old.result /\ job.at = Following(old) /\ job.then = "end"
    BY <1>2, <1>3
  <2> QED BY <1>3, <2>1, LandStep
<1>14. cycles' = [cycles EXCEPT ![c] = x] BY <1>5 DEF Emit
<1>15. /\ cycles' \in Seq(OutputCycle) /\ Len(cycles') = Len(cycles) /\ cycles'[c] = x
       /\ \A d \in 1..Len(cycles) : d # c => cycles'[d] = cycles[d]
  BY <1>12, <1>14
<1>16. /\ RowsKept
       /\ \A d \in 1..Len(cycles) : d # c /\ rows'[d] = "open" => rows[d] = "open"
       /\ rows'[c] = "open" => IF x.msg = 0 THEN rows[c] = "open" ELSE Live(x)
  <2> DEFINE cs == [cycles EXCEPT ![c] = x]
  <2>1. cs[c] = x BY <1>12
  <2>2. cs \in Seq(OutputCycle) /\ Len(cs) = Len(cycles) /\ Emit(cs, c) BY <1>5, <1>12
  <2> HIDE DEF cs
  <2> QED BY <1>2, <1>4, <2>1, <2>2, EmitKept
<1>17. rows'[c] # "open" BY <1>4, <1>8, <1>16 DEF Live
<1>18. job.at = old.then BY <1>2, <1>3, <1>13 DEF Following
<1>19. \A d \in 1..Len(cycles) : cycles'[d].state = cycles[d].state
       /\ cycles'[d].ver = cycles[d].ver
                                   /\ cycles'[d].msg = cycles[d].msg
                                   /\ cycles'[d].text = cycles[d].text
  <2> TAKE d \in 1..Len(cycles)
  <2>1. CASE d = c BY <2>1, <1>8, <1>15
  <2>2. CASE d # c BY <2>2, <1>15
  <2> QED BY <2>1, <2>2
<1>20. \A k \in 1..Len(chat) : chat'[k].ver = chat[k].ver /\ chat'[k].cycle = chat[k].cycle
                                /\ (chat'[k].as = "silent" => chat[k].as = "silent")
  <2> TAKE k \in 1..Len(chat)
  <2>1. CASE k = m BY <2>1, <1>9, <1>11
  <2>2. CASE k # m BY <2>2, <1>11
  <2> QED BY <2>1, <2>2
<1>21. LinkOK'
  <2> SUFFICES ASSUME NEW d \in 1..Len(cycles), cycles'[d].msg # 0
               PROVE  chat'[cycles'[d].msg].cycle = d /\ chat'[cycles'[d].msg].ver <= cycles'[d].ver
    BY <1>15 DEF LinkOK, active
  <2>1. cycles[d].msg \in 1..Len(chat)
    <3>1. cycles[d].msg \in 0..Len(chat) /\ cycles[d].msg # 0 BY <1>2, <1>19 DEF Shapes
    <3> QED BY <3>1, <1>2
  <2>2. chat[cycles[d].msg].cycle = d /\ chat[cycles[d].msg].ver <= cycles[d].ver
    BY <1>19 DEF BaseInv, LinkOK, active
  <2> QED BY <2>1, <2>2, <1>19, <1>20
<1>22. SilentOK'
  <2>1. outcome' = outcome BY <1>2 DEF LandAside
  <2> QED BY <1>2, <1>11, <1>20, <2>1, SilentKept DEF BaseInv
<1>23. CallFits(job, cycles', chat') BY <1>2, <1>13 DEF CallFits
<1>24. Place(job, cycles')
  <2>1. job.at \notin {"emit", "keep", "rewrite"} BY <1>13
  <2>2. job.at = "complete" => c = Len(cycles) BY <1>2, <1>13 DEF Place, c
  <2>3. job.at = "complete" => cycles'[Len(cycles')].deleted BY <2>2, <1>8, <1>15
  <2> QED BY <1>2, <1>13, <2>1, <2>3 DEF Place
<1>25. Told(job, cycles', chat') BY <1>2, <1>13 DEF Told
<1>26. response' = response BY <1>2, <1>3
<1>27. BaseInv'
  <2>1. ASSUME NEW d \in 1..Len(cycles')
        PROVE  cycles'[d].msg <= Len(chat') /\ (cycles'[d].state # "text" => cycles'[d].text = {})
    <3>1. d \in 1..Len(cycles) BY <1>15
    <3>2. cycles[d].msg <= Len(chat) /\ (cycles[d].state # "text" => cycles[d].text = {})
      BY <3>1, <1>2 DEF ProjTypeOK, active
    <3> QED BY <3>1, <3>2, <1>11, <1>19
  <2>2. chat' \in Seq(Message) /\ reacted' \subseteq Nat /\ response' \in 1..Len(chat')
        /\ cycles' \in Seq(OutputCycle) /\ Len(cycles) <= Len(cycles')
    BY <1>2, <1>6, <1>11, <1>15, <1>26
  <2>3. job.at \in {"edit", "create", "delete", "emit"} => job.c \in 1..Len(cycles')
    BY <1>2, <1>4, <1>15
  <2>4. job.at # "post" BY <1>13
  <2> QED
    BY <1>2, <1>13, <1>16, <1>21, <1>22, <1>23, <1>24, <1>25, <2>1, <2>2, <2>3, <2>4, LandBase
<1>28. ~cycles[c].deleted BY <1>2, <1>13 DEF CallFits, c
<1> QED
  BY <1>1, <1>2, <1>4, <1>6, <1>7, <1>10, <1>11, <1>13, <1>15, <1>16, <1>17, <1>18, <1>26, <1>27,
       <1>28
     DEF c, m


\* A reply to a recall: the message is gone and the cycle without one; the edit starts anew.
LEMMA LandRecall ==
  ASSUME BaseInv, NEW j \in 1..Len(writes), Land(j), writes[1].call.op = "recall",
         NEW job, job = writes'[1]
  PROVE  /\ BaseInv' /\ writes[1].at = "edit" /\ writes[1].c \in 1..Len(cycles) /\ rows' = rows
         /\ LET c == writes[1].c
                m == writes[1].call.msg
            IN
            /\ m = cycles[c].msg /\ m \in 1..Len(chat) /\ ~cycles[c].deleted
            /\ cycles[c].state = "text"
            /\ cycles'[c] = [cycles[c] EXCEPT !.msg = 0]
            /\ Len(cycles') = Len(cycles)
            /\ \A d \in 1..Len(cycles) : d # c => cycles'[d] = cycles[d]
            /\ chat'[m] = [chat[m] EXCEPT !.as = "gone"]
            /\ \A k \in 1..Len(chat) : k # m => chat'[k] = chat[k]
         /\ Len(chat') = Len(chat) /\ reacted' = reacted /\ response' = response
         /\ job.at = "edit" /\ job.then = writes[1].then /\ job.c = writes[1].c
         /\ job.call.op = "none"
<1> DEFINE old == writes[1]
           c == old.c
<1>1. old = writes[1] OBVIOUS
<1> HIDE DEF old
<1>2. /\ ProjTypeOK /\ Shapes /\ j = 1 /\ Turn(j) /\ writes # <<>> /\ old \in QueuedWrite
      /\ WriteOK(old, Len(cycles), closed, options.streaming)
      /\ StepsOK(old) /\ CallsFit(old) /\ CallFits(old, cycles, chat) /\ Place(old, cycles)
      /\ Told(old, cycles, chat) /\ LandAside
      /\ (old.call.op \in {"edit", "create", "recall", "delete"} => c \in 1..Len(cycles))
      /\ Effect(old) /\ ~Refused(old.call)
      /\ response' = IF old.call.op \in {"create", "post"} THEN Len(chat) + 1 ELSE response
      /\ response \in 1..Len(chat) /\ Len(chat) \in Nat /\ chat \in Seq(Message)
      /\ reacted \subseteq Nat /\ target \in Nat /\ Len(cycles) \in Nat
      /\ cycles \in Seq(OutputCycle) /\ rows \in Seq(RowState) /\ Len(rows) = Len(cycles)
      /\ OpenOnce(rows)
      /\ SameChain /\ job.kind = old.kind /\ job.result = old.result
      /\ job.c = c /\ job.call.op = "none" /\ CallsFit(job)
      /\ (old.call.op # "recall" => job.at = Following(old) /\ job.then = "end")
      /\ (old.call.op = "recall" => job.at = old.at /\ job.then = old.then)
  BY <1>1, LandAtHand
<1>3. old.call.op = "recall" BY <1>1
<1> DEFINE m == old.call.msg
           x == [cycles[c] EXCEPT !.msg = 0]
           y == [chat[m] EXCEPT !.as = "gone"]
<1>4. /\ c \in 1..Len(cycles) /\ m = cycles[c].msg /\ cycles[c].msg # 0 /\ ~cycles[c].deleted
      /\ cycles[c].state = "text"
  BY <1>2, <1>3 DEF CallFits
<1>5. cycles' = [cycles EXCEPT ![c] = x] /\ rows' = rows BY <1>1, <1>2, <1>3 DEF Land
<1>6. chat' = [chat EXCEPT ![m] = y] /\ reacted' = reacted BY <1>2, <1>3 DEF Effect
<1>7. m \in 1..Len(chat)
  <2>1. cycles[c].msg \in 0..Len(chat) BY <1>2, <1>4 DEF Shapes
  <2> QED BY <1>2, <1>4, <2>1
<1>8. x \in OutputCycle /\ x.msg = 0 /\ x.ver = cycles[c].ver /\ x.state = cycles[c].state
      /\ x.text = cycles[c].text /\ x.deleted = cycles[c].deleted
  <2>1. cycles[c] \in OutputCycle BY <1>2, <1>4 DEF Shapes
  <2> QED BY <2>1 DEF OutputCycle
<1>9. y \in Message /\ y.cycle = chat[m].cycle /\ y.ver = chat[m].ver /\ y.as = "gone"
      /\ chat[m].cycle = c
  <2>1. chat[m] \in Message BY <1>2, <1>7 DEF Shapes
  <2>2. chat[m].cycle = c BY <1>4 DEF BaseInv, LinkOK, active
  <2> QED BY <2>1, <2>2 DEF Message
<1>10. x = [cycles[c] EXCEPT !.msg = 0] /\ y = [chat[m] EXCEPT !.as = "gone"] OBVIOUS
<1> HIDE DEF x, y
<1>11. /\ chat' \in Seq(Message) /\ Len(chat') = Len(chat) /\ chat'[m] = y
       /\ \A k \in 1..Len(chat) : k # m => chat'[k] = chat[k]
  BY <1>2, <1>6, <1>7, <1>9, OneMessage
<1>12. /\ [cycles EXCEPT ![c] = x] \in Seq(OutputCycle)
       /\ Len([cycles EXCEPT ![c] = x]) = Len(cycles)
       /\ [cycles EXCEPT ![c] = x][c] = x
       /\ \A d \in 1..Len(cycles) \ {c} : [cycles EXCEPT ![c] = x][d] = cycles[d]
  BY <1>2, <1>4, <1>8, OneCycle
<1> HIDE DEF c, m
<1>13. old.at = "edit"
  <2>1. old.at \in WriteStep BY <1>2, WriteTypes
  <2> QED BY <2>1, <1>2, <1>3 DEF CallsFit, WriteStep
<1>14. /\ cycles' \in Seq(OutputCycle) /\ Len(cycles') = Len(cycles) /\ cycles'[c] = x
       /\ \A d \in 1..Len(cycles) : d # c => cycles'[d] = cycles[d]
  BY <1>5, <1>12
<1>15. job.at = "edit" /\ job.then = old.then BY <1>2, <1>3, <1>13
<1>16. StepsOK(job) BY <1>2, <1>13, <1>15 DEF StepsOK
<1>17. \A d \in 1..Len(cycles) : cycles'[d].state = cycles[d].state
       /\ cycles'[d].ver = cycles[d].ver
                                   /\ cycles'[d].deleted = cycles[d].deleted
                                   /\ cycles'[d].text = cycles[d].text
  <2> TAKE d \in 1..Len(cycles)
  <2>1. CASE d = c BY <2>1, <1>8, <1>14
  <2>2. CASE d # c BY <2>2, <1>14
  <2> QED BY <2>1, <2>2
<1>18. \A k \in 1..Len(chat) : chat'[k].ver = chat[k].ver /\ chat'[k].cycle = chat[k].cycle
                                /\ (chat'[k].as = "silent" => chat[k].as = "silent")
  <2> TAKE k \in 1..Len(chat)
  <2>1. CASE k = m BY <2>1, <1>9, <1>11
  <2>2. CASE k # m BY <2>2, <1>11
  <2> QED BY <2>1, <2>2
<1>19. LinkOK'
  <2> SUFFICES ASSUME NEW d \in 1..Len(cycles), cycles'[d].msg # 0
               PROVE  chat'[cycles'[d].msg].cycle = d /\ chat'[cycles'[d].msg].ver <= cycles'[d].ver
    BY <1>14 DEF LinkOK, active
  <2>1. d # c /\ cycles'[d] = cycles[d] BY <1>8, <1>14
  <2>2. cycles[d].msg \in 1..Len(chat)
    <3>1. cycles[d].msg \in 0..Len(chat) /\ cycles[d].msg # 0 BY <1>2, <2>1 DEF Shapes
    <3> QED BY <3>1, <1>2
  <2>3. chat[cycles[d].msg].cycle = d /\ chat[cycles[d].msg].ver <= cycles[d].ver
    BY <2>1 DEF BaseInv, LinkOK, active
  <2> QED BY <2>1, <2>2, <2>3, <1>18
<1>20. SilentOK'
  <2>1. outcome' = outcome BY <1>2 DEF LandAside
  <2> QED BY <1>2, <1>11, <1>18, <2>1, SilentKept DEF BaseInv
<1>21. CallFits(job, cycles', chat') BY <1>2, <1>15 DEF CallFits
<1>22. Place(job, cycles')
  <2>1. job.then \in {"emit", "rewrite", "notice"} => cycles[c].state = "text"
    BY <1>2, <1>13, <1>15 DEF Place, c
  <2>2. job.kind \in {"fail", "finish"} => c = Len(cycles) \/ cycles[c].state = "text"
    BY <1>2, <1>13, <1>15 DEF Place, c
  <2>3. job.kind = "fail" => c = Len(cycles) BY <1>2, <1>13 DEF Place, c
  <2>4. job.kind = "finish" /\ job.then = "keep" => c = Len(cycles)
    BY <1>2, <1>13, <1>15 DEF Place, c
  <2>5. Answering(job) => cycles[Len(cycles)].state = "text" \/ cycles[Len(cycles)].deleted
    BY <1>2, <1>13 DEF Place, Answering
  <2>6. Len(cycles) \in 1..Len(cycles) BY <1>2 DEF Shapes
  <2>7. Answering(job) => cycles'[Len(cycles')].state = "text" \/ cycles'[Len(cycles')].deleted
    BY <1>14, <1>17, <2>5, <2>6
  <2> QED BY <1>2, <1>4, <1>14, <1>15, <1>17, <2>1, <2>2, <2>3, <2>4, <2>7 DEF Place
<1>23. Told(job, cycles', chat')
  <2> SUFFICES ASSUME Answering(job), NEW d \in 1..Len(cycles), Speaks(cycles'[d]), d < c
               PROVE  Shown(cycles', chat', d)
    BY <1>2, <1>14, <1>15 DEF Told
  <2>1. Answering(old) BY <1>2 DEF Answering
  <2>2. Speaks(cycles[d]) BY <1>17 DEF Speaks
  <2>3. Shown(cycles, chat, d) BY <2>1, <2>2, <1>2, <1>13 DEF Told, c
  <2>4. cycles[d].msg # m /\ d # c BY <2>3, <1>4, <1>9 DEF Shown
  <2>5. cycles[d].msg \in 1..Len(chat)
    <3>1. cycles[d].msg \in 0..Len(chat) BY <1>2 DEF Shapes
    <3> QED BY <3>1, <2>3, <1>2 DEF Shown
  <2> QED BY <2>3, <2>4, <2>5, <1>11, <1>14, ShownKept
<1>24. response' = response BY <1>2, <1>3
<1>25. RowsKept BY <1>2, <1>5, <1>14 DEF RowsKept
<1>26. BaseInv'
  <2>1. ASSUME NEW d \in 1..Len(cycles')
        PROVE  cycles'[d].msg <= Len(chat') /\ (cycles'[d].state # "text" => cycles'[d].text = {})
    <3>1. d \in 1..Len(cycles) BY <1>14
    <3>2. cycles[d].msg <= Len(chat) /\ (cycles[d].state # "text" => cycles[d].text = {})
      BY <3>1, <1>2 DEF ProjTypeOK, active
    <3>3. cycles'[d].msg = cycles[d].msg \/ cycles'[d].msg = 0 BY <3>1, <1>8, <1>14
    <3> QED BY <3>1, <3>2, <3>3, <1>2, <1>11, <1>17
  <2>2. chat' \in Seq(Message) /\ reacted' \subseteq Nat /\ response' \in 1..Len(chat')
        /\ cycles' \in Seq(OutputCycle) /\ Len(cycles) <= Len(cycles')
    BY <1>2, <1>6, <1>11, <1>14, <1>24
  <2>3. job.at \in {"edit", "create", "delete", "emit"} => job.c \in 1..Len(cycles')
    BY <1>2, <1>4, <1>14
  <2>4. job.at # "post" BY <1>15
  <2> QED
    BY <1>2, <1>16, <1>19, <1>20, <1>21, <1>22, <1>23, <1>25, <2>1, <2>2, <2>3, <2>4, LandBase
<1> QED
  BY <1>1, <1>2, <1>4, <1>5, <1>6, <1>7, <1>10, <1>11, <1>13, <1>14, <1>15, <1>24, <1>26 DEF c, m


\* A reply about a reaction: the working reaction of the target goes or comes.
LEMMA LandReaction ==
  ASSUME BaseInv, NEW j \in 1..Len(writes), Land(j), writes[1].call.op \in {"unreact", "react"},
         NEW job, job = writes'[1]
  PROVE  /\ BaseInv' /\ cycles' = cycles /\ rows' = rows /\ chat' = chat /\ response' = response
         /\ writes[1].at = writes[1].call.op
         /\ (writes[1].at = "unreact" => reacted' = reacted \ {target})
         /\ (writes[1].at = "react" => reacted' = reacted \cup {target})
         /\ job.at = Following(writes[1]) /\ job.then = "end" /\ job.c = writes[1].c
         /\ job.call.op = "none"
<1> DEFINE old == writes[1]
           c == old.c
<1>1. old = writes[1] OBVIOUS
<1> HIDE DEF old
<1>2. /\ ProjTypeOK /\ Shapes /\ j = 1 /\ Turn(j) /\ writes # <<>> /\ old \in QueuedWrite
      /\ WriteOK(old, Len(cycles), closed, options.streaming)
      /\ StepsOK(old) /\ CallsFit(old) /\ CallFits(old, cycles, chat) /\ Place(old, cycles)
      /\ Told(old, cycles, chat) /\ LandAside
      /\ (old.call.op \in {"edit", "create", "recall", "delete"} => c \in 1..Len(cycles))
      /\ Effect(old) /\ ~Refused(old.call)
      /\ response' = IF old.call.op \in {"create", "post"} THEN Len(chat) + 1 ELSE response
      /\ response \in 1..Len(chat) /\ Len(chat) \in Nat /\ chat \in Seq(Message)
      /\ reacted \subseteq Nat /\ target \in Nat /\ Len(cycles) \in Nat
      /\ cycles \in Seq(OutputCycle) /\ rows \in Seq(RowState) /\ Len(rows) = Len(cycles)
      /\ OpenOnce(rows)
      /\ SameChain /\ job.kind = old.kind /\ job.result = old.result
      /\ job.c = c /\ job.call.op = "none" /\ CallsFit(job)
      /\ (old.call.op # "recall" => job.at = Following(old) /\ job.then = "end")
      /\ (old.call.op = "recall" => job.at = old.at /\ job.then = old.then)
  BY <1>1, LandAtHand
<1>3. old.call.op \in {"unreact", "react"} BY <1>1
<1>4. cycles' = cycles /\ rows' = rows BY <1>1, <1>2, <1>3 DEF Land, output
<1>5. chat' = chat BY <1>2, <1>3 DEF Effect
<1>6. reacted' = IF old.call.op = "unreact" THEN reacted \ {target} ELSE reacted \cup {target}
  BY <1>2, <1>3 DEF Effect
<1>7. reacted' \subseteq Nat BY <1>2, <1>6
<1> HIDE DEF c
<1>13. /\ StepsOK(job) /\ old.at = old.call.op
       /\ job.at \notin {"edit", "create", "delete", "post"}
       /\ (job.at = "emit" => old.at = "edit" /\ old.then = "emit")
       /\ (job.at = "rewrite" => old.at = "edit" /\ old.then = "rewrite" /\ Answering(old))
       /\ (job.at = "keep" => old.at = "edit" /\ old.then = "keep" /\ old.kind = "finish")
       /\ (job.at = "complete" => old.at = "delete" /\ old.then = "complete")
       /\ (Answering(job) => job.at \in {"conclude", "complete", "rewrite"})
       /\ (Answering(job) <=> Answering(old))
  BY <1>2, <1>3, LandStep
<1>14. job.at \notin {"emit", "rewrite", "keep", "complete"} BY <1>3, <1>13
<1>15. LinkOK' BY <1>4, <1>5 DEF BaseInv, LinkOK, active
<1>16. SilentOK'
  <2>1. outcome' = outcome BY <1>2 DEF LandAside
  <2> QED BY <1>2, <1>5, <2>1, SilentKept DEF BaseInv
<1>17. CallFits(job, cycles', chat') /\ Place(job, cycles') /\ Told(job, cycles', chat')
  BY <1>2, <1>13, <1>14 DEF CallFits, Place, Told
<1>18. RowsKept BY <1>2, <1>4 DEF RowsKept
<1>19. BaseInv'
  <2>1. \A d \in 1..Len(cycles') : cycles'[d].msg <= Len(chat')
                                   /\ (cycles'[d].state # "text" => cycles'[d].text = {})
    BY <1>2, <1>4, <1>5 DEF ProjTypeOK, active
  <2>2. chat' \in Seq(Message) /\ response' \in 1..Len(chat')
        /\ cycles' \in Seq(OutputCycle) /\ Len(cycles) <= Len(cycles')
    BY <1>2, <1>3, <1>4, <1>5
  <2>3. job.at \in {"edit", "create", "delete", "emit"} => job.c \in 1..Len(cycles')
    BY <1>13, <1>14
  <2> QED BY <1>2, <1>7, <1>13, <1>15, <1>16, <1>17, <1>18, <2>1, <2>2, <2>3, LandBase
<1> QED BY <1>1, <1>2, <1>3, <1>4, <1>5, <1>6, <1>13, <1>19 DEF c


\* A reply about the silent text: it is in the message last created.
LEMMA LandSilence ==
  ASSUME BaseInv, NEW j \in 1..Len(writes), Land(j), writes[1].call.op = "silence",
         NEW job, job = writes'[1]
  PROVE  /\ BaseInv' /\ cycles' = cycles /\ rows' = rows /\ reacted' = reacted
         /\ response' = response
         /\ writes[1].at = "silence" /\ writes[1].kind = "finish" /\ writes[1].result = "silent"
         /\ LET m == writes[1].call.msg IN
            /\ m \in 1..Len(chat) /\ chat'[m] = [chat[m] EXCEPT !.as = "silent"]
            /\ \A k \in 1..Len(chat) : k # m => chat'[k] = chat[k]
         /\ Len(chat') = Len(chat)
         /\ job.at = "spare" /\ job.then = "end" /\ job.c = writes[1].c /\ job.call.op = "none"
<1> DEFINE old == writes[1]
           c == old.c
<1>1. old = writes[1] OBVIOUS
<1> HIDE DEF old
<1>2. /\ ProjTypeOK /\ Shapes /\ j = 1 /\ Turn(j) /\ writes # <<>> /\ old \in QueuedWrite
      /\ WriteOK(old, Len(cycles), closed, options.streaming)
      /\ StepsOK(old) /\ CallsFit(old) /\ CallFits(old, cycles, chat) /\ Place(old, cycles)
      /\ Told(old, cycles, chat) /\ LandAside
      /\ (old.call.op \in {"edit", "create", "recall", "delete"} => c \in 1..Len(cycles))
      /\ Effect(old) /\ ~Refused(old.call)
      /\ response' = IF old.call.op \in {"create", "post"} THEN Len(chat) + 1 ELSE response
      /\ response \in 1..Len(chat) /\ Len(chat) \in Nat /\ chat \in Seq(Message)
      /\ reacted \subseteq Nat /\ target \in Nat /\ Len(cycles) \in Nat
      /\ cycles \in Seq(OutputCycle) /\ rows \in Seq(RowState) /\ Len(rows) = Len(cycles)
      /\ OpenOnce(rows)
      /\ SameChain /\ job.kind = old.kind /\ job.result = old.result
      /\ job.c = c /\ job.call.op = "none" /\ CallsFit(job)
      /\ (old.call.op # "recall" => job.at = Following(old) /\ job.then = "end")
      /\ (old.call.op = "recall" => job.at = old.at /\ job.then = old.then)
  BY <1>1, LandAtHand
<1>3. old.call.op = "silence" BY <1>1
<1> DEFINE m == old.call.msg
           y == [chat[m] EXCEPT !.as = "silent"]
<1>4. cycles' = cycles /\ rows' = rows BY <1>1, <1>2, <1>3 DEF Land, output
<1>5. chat' = [chat EXCEPT ![m] = y] /\ reacted' = reacted BY <1>2, <1>3 DEF Effect
<1>6. m \in 1..Len(chat) BY <1>2, <1>3 DEF CallFits
<1>7. y \in Message /\ y.cycle = chat[m].cycle /\ y.ver = chat[m].ver
  <2>1. chat[m] \in Message BY <1>2, <1>6 DEF Shapes
  <2> QED BY <2>1 DEF Message
<1>8. y = [chat[m] EXCEPT !.as = "silent"] OBVIOUS
<1> HIDE DEF y
<1>9. /\ chat' \in Seq(Message) /\ Len(chat') = Len(chat) /\ chat'[m] = y
      /\ \A k \in 1..Len(chat) : k # m => chat'[k] = chat[k]
  BY <1>2, <1>5, <1>6, <1>7, OneMessage
<1> HIDE DEF c, m
<1>13. /\ StepsOK(job) /\ (old.at = "silence")
       /\ job.at \notin {"edit", "create", "delete", "post"}
       /\ (job.at = "emit" => old.at = "edit" /\ old.then = "emit")
       /\ (job.at = "rewrite" => old.at = "edit" /\ old.then = "rewrite" /\ Answering(old))
       /\ (job.at = "keep" => old.at = "edit" /\ old.then = "keep" /\ old.kind = "finish")
       /\ (job.at = "complete" => old.at = "delete" /\ old.then = "complete")
       /\ (Answering(job) => job.at \in {"conclude", "complete", "rewrite"})
       /\ (Answering(job) <=> Answering(old))
  <2>1. /\ old \in QueuedWrite /\ StepsOK(old) /\ CallsFit(old)
        /\ old.call.op \notin {"none", "recall"} /\ job.kind = old.kind
        /\ job.result = old.result /\ job.at = Following(old) /\ job.then = "end"
    BY <1>2, <1>3
  <2> QED BY <1>3, <2>1, LandStep
<1>14. old.kind = "finish" /\ old.result = "silent" /\ job.at = "spare" /\ ~Answering(old)
  <2>1. old.kind \in {"flush", "create", "move", "finish", "fail"}
        /\ old.result \in {"all", "last", "none", "silent"}
    BY <1>2, WriteTypes
  <2> QED BY <2>1, <1>2, <1>3, <1>13 DEF StepsOK, Following, Answering
<1>15. \A k \in 1..Len(chat) : chat'[k].ver = chat[k].ver /\ chat'[k].cycle = chat[k].cycle
  <2> TAKE k \in 1..Len(chat)
  <2>1. CASE k = m BY <2>1, <1>7, <1>9
  <2>2. CASE k # m BY <2>2, <1>9
  <2> QED BY <2>1, <2>2
<1>16. LinkOK'
  <2> SUFFICES ASSUME NEW d \in 1..Len(cycles), cycles[d].msg # 0
               PROVE  chat'[cycles[d].msg].cycle = d /\ chat'[cycles[d].msg].ver <= cycles[d].ver
    BY <1>4 DEF LinkOK, active
  <2>1. cycles[d].msg \in 1..Len(chat)
    <3>1. cycles[d].msg \in 0..Len(chat) BY <1>2 DEF Shapes
    <3> QED BY <3>1, <1>2
  <2>2. chat[cycles[d].msg].cycle = d /\ chat[cycles[d].msg].ver <= cycles[d].ver
    BY DEF BaseInv, LinkOK, active
  <2> QED BY <2>1, <2>2, <1>15
<1>17. SilentOK'
  <2>1. 1 \in 1..Len(writes) /\ Closing(writes[1]) BY <1>1, <1>2, <1>14 DEF Shapes, Closing
  <2>2. outcome' \notin {"running", "done"}
    BY <2>1, <1>2 DEF BaseInv, EndOK, LandAside
  <2>3. ASSUME NEW i \in 1..Len(writes') PROVE ~Answering(writes'[i])
    <3>1. i = 1 \/ i \in 2..Len(writes) BY <1>2 DEF SameChain, Shapes
    <3>2. CASE i = 1 BY <3>2, <1>13, <1>14
    <3>3. CASE i \in 2..Len(writes)
      <4>1. writes'[i] = writes[i] /\ i \in 1..Len(writes) /\ i # 1
        BY <3>3, <1>2 DEF SameChain, Shapes
      <4>2. ~Closing(writes[i]) BY <4>1, <2>1 DEF BaseInv, EndOK
      <4> QED BY <4>1, <4>2 DEF Closing, Answering
    <3> QED BY <3>1, <3>2, <3>3
  <2> QED BY <2>2, <2>3 DEF SilentOK
<1>18. CallFits(job, cycles', chat') /\ Place(job, cycles') /\ Told(job, cycles', chat')
  BY <1>2, <1>13, <1>14 DEF CallFits, Place, Told
<1>19. RowsKept BY <1>2, <1>4 DEF RowsKept
<1>20. BaseInv'
  <2>1. \A d \in 1..Len(cycles') : cycles'[d].msg <= Len(chat')
                                   /\ (cycles'[d].state # "text" => cycles'[d].text = {})
    BY <1>2, <1>4, <1>9 DEF ProjTypeOK, active
  <2>2. chat' \in Seq(Message) /\ reacted' \subseteq Nat /\ response' \in 1..Len(chat')
        /\ cycles' \in Seq(OutputCycle) /\ Len(cycles) <= Len(cycles')
    BY <1>2, <1>3, <1>4, <1>5, <1>9
  <2>3. job.at \in {"edit", "create", "delete", "emit"} => job.c \in 1..Len(cycles')
    BY <1>14
  <2> QED BY <1>2, <1>13, <1>16, <1>17, <1>18, <1>19, <2>1, <2>2, <2>3, LandBase
<1> QED BY <1>1, <1>2, <1>3, <1>4, <1>5, <1>6, <1>8, <1>9, <1>13, <1>14, <1>20 DEF c, m


\* A reply to a notice: it is a cycle of its own, with its message and a row that failed.
Posted(here) == [Cycle("transient", 0, {}, FALSE) EXCEPT !.msg = here, !.failed = TRUE]

\* The notice is there: a message and a cycle of its own, reported as failed.
LEMMA LandPost ==
  ASSUME BaseInv, NEW j \in 1..Len(writes), Land(j), writes[1].call.op = "post",
         NEW job, job = writes'[1]
  PROVE  /\ BaseInv' /\ writes[1].at = "post" /\ writes[1].kind = "fail"
         /\ Len(cycles') = Len(cycles) + 1 /\ \A d \in 1..Len(cycles) : cycles'[d] = cycles[d]
         /\ cycles'[Len(cycles) + 1] = Posted(Len(chat) + 1)
         /\ \A d \in 1..Len(cycles) : rows'[d] # "open"
         /\ rows'[Len(cycles) + 1] # "open"
         /\ Len(chat') = Len(chat) + 1 /\ \A k \in 1..Len(chat) : chat'[k] = chat[k]
         /\ chat'[Len(chat) + 1].as = "own"
         /\ reacted' = reacted /\ response' = Len(chat) + 1
         /\ job.at = "failed" /\ job.then = "end" /\ job.call.op = "none"
<1> DEFINE old == writes[1]
           c == old.c
<1>1. old = writes[1] OBVIOUS
<1> HIDE DEF old
<1>2. /\ ProjTypeOK /\ Shapes /\ j = 1 /\ Turn(j) /\ writes # <<>> /\ old \in QueuedWrite
      /\ WriteOK(old, Len(cycles), closed, options.streaming)
      /\ StepsOK(old) /\ CallsFit(old) /\ CallFits(old, cycles, chat) /\ Place(old, cycles)
      /\ Told(old, cycles, chat) /\ LandAside
      /\ (old.call.op \in {"edit", "create", "recall", "delete"} => c \in 1..Len(cycles))
      /\ Effect(old) /\ ~Refused(old.call)
      /\ response' = IF old.call.op \in {"create", "post"} THEN Len(chat) + 1 ELSE response
      /\ response \in 1..Len(chat) /\ Len(chat) \in Nat /\ chat \in Seq(Message)
      /\ reacted \subseteq Nat /\ target \in Nat /\ Len(cycles) \in Nat
      /\ cycles \in Seq(OutputCycle) /\ rows \in Seq(RowState) /\ Len(rows) = Len(cycles)
      /\ OpenOnce(rows)
      /\ SameChain /\ job.kind = old.kind /\ job.result = old.result
      /\ job.c = c /\ job.call.op = "none" /\ CallsFit(job)
      /\ (old.call.op # "recall" => job.at = Following(old) /\ job.then = "end")
      /\ (old.call.op = "recall" => job.at = old.at /\ job.then = old.then)
  BY <1>1, LandAtHand
<1>3. old.call.op = "post" BY <1>1
<1> HIDE DEF c
<1>13. /\ StepsOK(job) /\ (old.at = "post")
       /\ job.at \notin {"edit", "create", "delete", "post"}
       /\ (job.at = "emit" => old.at = "edit" /\ old.then = "emit")
       /\ (job.at = "rewrite" => old.at = "edit" /\ old.then = "rewrite" /\ Answering(old))
       /\ (job.at = "keep" => old.at = "edit" /\ old.then = "keep" /\ old.kind = "finish")
       /\ (job.at = "complete" => old.at = "delete" /\ old.then = "complete")
       /\ (Answering(job) => job.at \in {"conclude", "complete", "rewrite"})
       /\ (Answering(job) <=> Answering(old))
  <2>1. /\ old \in QueuedWrite /\ StepsOK(old) /\ CallsFit(old)
        /\ old.call.op \notin {"none", "recall"} /\ job.kind = old.kind
        /\ job.result = old.result /\ job.at = Following(old) /\ job.then = "end"
    BY <1>2, <1>3
  <2> QED BY <1>3, <2>1, LandStep
<1>14. old.kind = "fail" /\ job.at = "failed" /\ c = Len(cycles) + 1
  <2>1. old.kind \in {"flush", "create", "move", "finish", "fail"}
        /\ old.result \in {"all", "last", "none", "silent"}
    BY <1>2, WriteTypes
  <2> QED BY <2>1, <1>2, <1>3, <1>13 DEF StepsOK, Following, WriteOK, c
<1> DEFINE here == Len(chat) + 1
           x == Posted(here)
           y == [cycle |-> c, ver |-> old.call.ver, as |-> "own"]
           rs == Append(rows, "none")
<1>4. cycles' = Append(cycles, x) /\ rows' = Persisted(rs, c, "failed")
  BY <1>1, <1>2, <1>3 DEF Land, Posted, c
<1>5. chat' = Append(chat, y) /\ reacted' = reacted BY <1>2, <1>3 DEF Effect, c
<1>6. here \in Nat /\ here # 0 BY <1>2
<1> HIDE DEF here
<1>7. x \in OutputCycle /\ x.msg = here /\ x.ver = 1 /\ x.state = "transient" /\ x.text = {}
  BY <1>6 DEF Posted, Cycle, OutputCycle
<1>8. y \in Message /\ y.cycle = c /\ y.ver <= 1 /\ y.as = "own"
  <2>1. old.call.ver \in Nat /\ old.c \in Nat BY <1>2, WriteTypes
  <2>2. old.call.ver <= 1 BY <1>2, <1>3 DEF CallFits
  <2> QED BY <2>1, <2>2 DEF Message, c
<1>9. x = Posted(here) OBVIOUS
<1> HIDE DEF x, y
<1>10. /\ chat' \in Seq(Message) /\ Len(chat') = here
       /\ \A k \in 1..Len(chat) : chat'[k] = chat[k]
       /\ chat'[here] = y
  BY <1>2, <1>5, <1>8, AppendChain DEF here
<1>11. /\ cycles' \in Seq(OutputCycle) /\ Len(cycles') = Len(cycles) + 1
       /\ \A d \in 1..Len(cycles) : cycles'[d] = cycles[d]
       /\ cycles'[Len(cycles) + 1] = x
  BY <1>2, <1>4, <1>7, AppendChain
<1>12. /\ rs \in Seq(RowState) /\ Len(rs) = Len(cycles) + 1
       /\ \A d \in 1..Len(cycles) : rs[d] = rows[d]
       /\ rs[Len(cycles) + 1] = "none"
  <2>1. "none" \in RowState BY DEF RowState
  <2> QED BY <1>2, <2>1, AppendChain
<1> HIDE DEF rs
<1>15. /\ rows' \in Seq(RowState) /\ Len(rows') = Len(cycles) + 1 /\ OpenOnce(rows')
       /\ \A d \in 1..Len(cycles) + 1 : rows'[d] # "open"
  <2> DEFINE new == [d \in 1..Len(rs) |-> IF d = c THEN "failed"
                       ELSE IF d \in {e \in 1..Len(rs) \ {c} : rs[e] = "open"} THEN "failed"
                       ELSE rs[d]]
  <2>1. rs[c] = "none" BY <1>12, <1>14
  <2>2. rows' = new BY <1>4, <2>1 DEF Persisted
  <2>3. \A d \in 1..Len(rs) : rs[d] \in RowState BY <1>12, ElementOfSeq
  <2>4. \A d \in 1..Len(rs) : new[d] \in RowState /\ new[d] # "open" BY <2>3 DEF RowState
  <2>5. new \in [1..Len(rs) -> RowState] BY <2>4
  <2>6. Len(rs) \in Nat BY <1>12, <1>2
  <2> HIDE DEF new
  <2>7. new \in Seq(RowState) /\ Len(new) = Len(rs) BY <2>5, <2>6, FunIsSeq
  <2>8. \A d \in 1..Len(cycles) + 1 : new[d] # "open" BY <2>4, <1>12
  <2>9. OpenOnce(new) BY <2>7, <2>8, <1>12 DEF OpenOnce
  <2> QED BY <2>2, <2>7, <2>8, <2>9, <1>12
<1>16. LinkOK'
  <2> SUFFICES ASSUME NEW d \in 1..Len(cycles) + 1, cycles'[d].msg # 0
               PROVE  chat'[cycles'[d].msg].cycle = d /\ chat'[cycles'[d].msg].ver <= cycles'[d].ver
    BY <1>11 DEF LinkOK, active
  <2>1. CASE d = Len(cycles) + 1
    BY <2>1, <1>7, <1>8, <1>10, <1>11, <1>14
  <2>2. CASE d \in 1..Len(cycles)
    <3>1. cycles'[d] = cycles[d] BY <2>2, <1>11
    <3>2. cycles[d].msg \in 1..Len(chat)
      <4>1. cycles[d].msg \in 0..Len(chat) BY <2>2, <1>2 DEF Shapes
      <4> QED BY <4>1, <3>1, <1>2
    <3>3. chat[cycles[d].msg].cycle = d /\ chat[cycles[d].msg].ver <= cycles[d].ver
      BY <2>2, <3>1 DEF BaseInv, LinkOK, active
    <3> QED BY <3>1, <3>2, <3>3, <1>10
  <2>3. d = Len(cycles) + 1 \/ d \in 1..Len(cycles) BY <1>2
  <2> QED BY <2>1, <2>2, <2>3
<1>17. SilentOK'
  <2>1. ASSUME NEW k \in 1..Len(chat'), chat'[k].as = "silent"
        PROVE  k \in 1..Len(chat) /\ chat[k].as = "silent"
    <3>1. CASE k = here BY <3>1, <2>1, <1>8, <1>10
    <3>2. CASE k # here
      <4>1. k \in 1..Len(chat) BY <3>2, <1>2, <1>10 DEF here
      <4> QED BY <4>1, <2>1, <1>10
    <3> QED BY <3>1, <3>2
  <2>2. outcome' = outcome BY <1>2 DEF LandAside
  <2> QED BY <1>2, <2>1, <2>2, SilentKept DEF BaseInv
<1>18. CallFits(job, cycles', chat') /\ Place(job, cycles') /\ Told(job, cycles', chat')
  <2>1. ~Answering(job) BY <1>2, <1>14 DEF Answering
  <2> QED BY <1>2, <1>13, <1>14, <2>1 DEF CallFits, Place, Told
<1>19. RowsKept BY <1>11, <1>15 DEF RowsKept
<1>20. response' = here BY <1>2, <1>3 DEF here
<1>21. BaseInv'
  <2>1. ASSUME NEW d \in 1..Len(cycles')
        PROVE  cycles'[d].msg <= Len(chat') /\ (cycles'[d].state # "text" => cycles'[d].text = {})
    <3>1. CASE d = Len(cycles) + 1 BY <3>1, <1>6, <1>7, <1>10, <1>11
    <3>2. CASE d \in 1..Len(cycles)
      <4>1. cycles[d].msg <= Len(chat) /\ (cycles[d].state # "text" => cycles[d].text = {})
            /\ cycles[d].msg \in 0..Len(chat)
        BY <3>2, <1>2 DEF ProjTypeOK, active, Shapes
      <4> QED BY <4>1, <3>2, <1>2, <1>10, <1>11 DEF here
    <3>3. d = Len(cycles) + 1 \/ d \in 1..Len(cycles) BY <1>2, <1>11
    <3> QED BY <3>1, <3>2, <3>3
  <2>2. chat' \in Seq(Message) /\ reacted' \subseteq Nat /\ response' \in 1..Len(chat')
        /\ cycles' \in Seq(OutputCycle) /\ Len(cycles) <= Len(cycles')
    BY <1>2, <1>5, <1>10, <1>11, <1>20 DEF here
  <2>3. job.at \in {"edit", "create", "delete", "emit"} => job.c \in 1..Len(cycles')
    BY <1>14
  <2> QED BY <1>2, <1>13, <1>14, <1>16, <1>17, <1>18, <1>19, <2>1, <2>2, <2>3, LandBase
<1>22. chat'[here].as = "own" BY <1>8, <1>10
<1>23. \A d \in 1..Len(cycles) : rows'[d] # "open"
  <2>1. \A d \in 1..Len(cycles) : d \in 1..Len(cycles) + 1 BY <1>2
  <2> QED BY <2>1, <1>15
<1>24. rows'[Len(cycles) + 1] # "open"
  <2>1. Len(cycles) + 1 \in 1..Len(cycles) + 1 BY <1>2
  <2> QED BY <2>1, <1>15
<1> QED
  BY <1>1, <1>2, <1>3, <1>5, <1>9, <1>10, <1>11, <1>13, <1>14, <1>20, <1>21, <1>22, <1>23, <1>24
     DEF here


-----------------------------------------------------------------------------
(* Calls that fail *)

\* What any call does to the chat: no message shows an older version or more than its cycle.
Touched ==
  /\ chat' \in Seq(Message) /\ Len(chat') \in Nat /\ Len(chat) <= Len(chat')
  /\ reacted' \subseteq Nat
  /\ \A k \in 1..Len(chat) : chat'[k].cycle = chat[k].cycle /\ chat[k].ver <= chat'[k].ver
  /\ \A c \in 1..Len(cycles) : cycles[c].msg # 0 => chat'[cycles[c].msg].ver <= cycles[c].ver
  /\ \A k \in 1..Len(chat') : chat'[k].as = "silent" =>
       writes[1].call.op = "silence" \/ (k \in 1..Len(chat) /\ chat[k].as = "silent")

\* A chat that stays as it is only goes forward.
LEMMA SameTouches ==
  ASSUME BaseInv, chat' = chat, reacted' \subseteq Nat
  PROVE  Touched
<1>1. Shapes BY ProjShapes DEF BaseInv
<1>2. chat \in Seq(Message) BY DEF BaseInv, ProjTypeOK
<1>3. Len(chat) \in Nat BY <1>1 DEF Shapes
<1>4. \A k \in 1..Len(chat) : chat[k].ver <= chat[k].ver
  <2>1. \A k \in 1..Len(chat) : chat[k].ver \in Nat BY <1>1 DEF Shapes, Message
  <2>2. \A v \in Nat : v <= v OBVIOUS
  <2> QED BY <2>1, <2>2
<1>5. \A c \in 1..Len(cycles) : cycles[c].msg # 0 => chat[cycles[c].msg].ver <= cycles[c].ver
  BY DEF BaseInv, LinkOK, active
<1> QED BY <1>2, <1>3, <1>4, <1>5 DEF Touched

\* A message of the chat changes and keeps its cycle.
LEMMA OneTouches ==
  ASSUME BaseInv, NEW m \in 1..Len(chat), NEW y \in Message, chat' = [chat EXCEPT ![m] = y],
         reacted' \subseteq Nat, y.cycle = chat[m].cycle, chat[m].ver <= y.ver,
         \A c \in 1..Len(cycles) : cycles[c].msg = m => y.ver <= cycles[c].ver,
         y.as = "silent" => writes[1].call.op = "silence" \/ chat[m].as = "silent"
  PROVE  Touched
<1>1. Shapes BY ProjShapes DEF BaseInv
<1>2. chat \in Seq(Message) BY DEF BaseInv, ProjTypeOK
<1>3. /\ chat' \in Seq(Message) /\ Len(chat') = Len(chat) /\ chat'[m] = y
      /\ \A k \in 1..Len(chat) : k # m => chat'[k] = chat[k]
  BY <1>2, OneMessage
<1>4. Len(chat) \in Nat BY <1>1 DEF Shapes
<1>5. ASSUME NEW k \in 1..Len(chat)
      PROVE  /\ chat'[k].cycle = chat[k].cycle /\ chat[k].ver <= chat'[k].ver
             /\ chat'[k].as = "silent" => writes[1].call.op = "silence" \/ chat[k].as = "silent"
  <2>1. CASE k = m BY <2>1, <1>3
  <2>2. CASE k # m
    <3>1. chat[k].ver \in Nat BY <1>1 DEF Shapes, Message
    <3> QED BY <3>1, <2>2, <1>3
  <2> QED BY <2>1, <2>2
<1>6. ASSUME NEW c \in 1..Len(cycles), cycles[c].msg # 0
      PROVE  chat'[cycles[c].msg].ver <= cycles[c].ver
  <2>1. cycles[c].msg \in 1..Len(chat)
    <3>1. cycles[c].msg \in 0..Len(chat) BY <1>1 DEF Shapes
    <3> QED BY <3>1, <1>4, <1>6
  <2>2. chat[cycles[c].msg].ver <= cycles[c].ver BY <1>6 DEF BaseInv, LinkOK, active
  <2>3. CASE cycles[c].msg = m BY <2>3, <1>3
  <2>4. CASE cycles[c].msg # m BY <2>1, <2>2, <2>4, <1>3
  <2> QED BY <2>3, <2>4
<1> QED BY <1>3, <1>4, <1>5, <1>6 DEF Touched

\* A message is sent.
LEMMA SendTouches ==
  ASSUME BaseInv, NEW y \in Message, chat' = Append(chat, y), reacted' \subseteq Nat,
         y.as # "silent"
  PROVE  Touched
<1>1. Shapes BY ProjShapes DEF BaseInv
<1>2. chat \in Seq(Message) BY DEF BaseInv, ProjTypeOK
<1>3. /\ chat' \in Seq(Message) /\ Len(chat') = Len(chat) + 1
      /\ \A k \in 1..Len(chat) : chat'[k] = chat[k]
      /\ chat'[Len(chat) + 1] = y
  BY <1>2, AppendChain
<1>4. Len(chat) \in Nat BY <1>1 DEF Shapes
<1>5. ASSUME NEW k \in 1..Len(chat)
      PROVE  /\ chat'[k].cycle = chat[k].cycle /\ chat[k].ver <= chat'[k].ver
             /\ chat'[k].as = chat[k].as
  <2>1. chat[k].ver \in Nat BY <1>1 DEF Shapes, Message
  <2> QED BY <2>1, <1>3
<1>6. ASSUME NEW c \in 1..Len(cycles), cycles[c].msg # 0
      PROVE  chat'[cycles[c].msg].ver <= cycles[c].ver
  <2>1. cycles[c].msg \in 1..Len(chat)
    <3>1. cycles[c].msg \in 0..Len(chat) BY <1>1 DEF Shapes
    <3> QED BY <3>1, <1>4, <1>6
  <2>2. chat[cycles[c].msg].ver <= cycles[c].ver BY <1>6 DEF BaseInv, LinkOK, active
  <2> QED BY <2>1, <2>2, <1>3
<1>7. \A k \in 1..Len(chat') : chat'[k].as = "silent" => k \in 1..Len(chat) /\ chat[k].as = "silent"
  <2> SUFFICES ASSUME NEW k \in 1..Len(chat'), chat'[k].as = "silent"
               PROVE  k \in 1..Len(chat) /\ chat[k].as = "silent"
    OBVIOUS
  <2>1. k # Len(chat) + 1 BY <1>3
  <2>2. k \in 1..Len(chat) BY <2>1, <1>3, <1>4
  <2> QED BY <2>2, <1>5
<1>8. \A k \in 1..Len(chat) : chat'[k].cycle = chat[k].cycle /\ chat[k].ver <= chat'[k].ver
  BY <1>5
<1>9. Len(chat') \in Nat /\ Len(chat) <= Len(chat') BY <1>3, <1>4
<1> QED BY <1>3, <1>6, <1>7, <1>8, <1>9, Zenon DEF Touched

\* What a call does to the chat leaves every message at its version or a later one.
LEMMA EffectTouches ==
  ASSUME BaseInv, writes # <<>>, writes[1].call.op # "none", Effect(writes[1])
  PROVE  Touched
<1> DEFINE old == writes[1]
<1>1. Shapes /\ ProjTypeOK BY ProjShapes DEF BaseInv
<1>2. 1 \in 1..Len(writes) BY <1>1 DEF Shapes
<1>3. /\ old \in QueuedWrite /\ CallsFit(old) /\ CallFits(old, cycles, chat)
      /\ WriteOK(old, Len(cycles), closed, options.streaming)
  BY <1>1, <1>2 DEF BaseInv, WritesOK, WriteOK, CallOK, Shapes, active
<1>4. /\ old.call.op \in NetworkCall /\ old.at \in WriteStep /\ old.call.ver \in Nat
      /\ old.call.msg \in Nat /\ old.c \in Nat
  BY <1>3, WriteTypes
<1>5. reacted' \subseteq Nat BY <1>1 DEF Effect, ProjTypeOK
<1>6. Effect(old) /\ old.call.op # "none" OBVIOUS
<1>7. old = writes[1] OBVIOUS
<1> HIDE DEF old
<1>8. old.call.op \in {"edit", "recall", "delete"} => old.c \in 1..Len(cycles)
  <2>1. old.call.op \in {"edit", "recall", "delete"} => old.at \in {"edit", "delete"}
    BY <1>3, <1>4, <1>6 DEF CallsFit, WriteStep
  <2> QED BY <2>1, <1>3 DEF WriteOK
<1>9. old.call.op \in {"edit", "recall", "delete", "silence"} => old.call.msg \in 1..Len(chat)
  <2>1. CASE old.call.op = "silence" BY <2>1, <1>3 DEF CallFits
  <2>2. CASE old.call.op \in {"edit", "recall", "delete"}
    <3>1. old.call.msg = cycles[old.c].msg /\ cycles[old.c].msg # 0 BY <2>2, <1>3 DEF CallFits
    <3>2. cycles[old.c].msg \in 0..Len(chat) /\ Len(chat) \in Nat BY <2>2, <1>1, <1>8 DEF Shapes
    <3> QED BY <3>1, <3>2
  <2> QED BY <2>1, <2>2
<1>10. \A k \in 1..Len(chat) : chat[k] \in Message /\ chat[k].ver \in Nat
  BY <1>1 DEF Shapes, Message
<1>11. CASE old.call.op = "edit"
  <2> DEFINE m == old.call.msg
             y == [chat[m] EXCEPT !.ver = old.call.ver]
  <2>1. m \in 1..Len(chat) /\ chat[m] \in Message BY <1>9, <1>10, <1>11
  <2>2. chat' = [chat EXCEPT ![m] = y] BY <1>6, <1>11 DEF Effect
  <2>3. y \in Message /\ y.cycle = chat[m].cycle /\ y.ver = old.call.ver /\ y.as = chat[m].as
    BY <1>4, <2>1 DEF Message
  <2>4. m = cycles[old.c].msg /\ cycles[old.c].msg # 0 /\ old.call.ver <= cycles[old.c].ver
        /\ chat[m].ver <= old.call.ver
    BY <1>3, <1>11 DEF CallFits
  <2> HIDE DEF y, m
  <2>5. ASSUME NEW c \in 1..Len(cycles), cycles[c].msg = m PROVE y.ver <= cycles[c].ver
    <3>1. cycles[c].msg # 0 BY <2>4, <2>5
    <3>2. chat[m].cycle = c BY <3>1, <2>5 DEF BaseInv, LinkOK, active
    <3>3. chat[m].cycle = old.c BY <2>4, <1>8, <1>11 DEF BaseInv, LinkOK, active
    <3> QED BY <3>2, <3>3, <2>3, <2>4
  <2> QED BY <1>5, <2>1, <2>2, <2>3, <2>4, <2>5, OneTouches
<1>12. CASE old.call.op \in {"create", "post"}
  <2> DEFINE y == [cycle |-> old.c, ver |-> old.call.ver, as |-> "own"]
  <2>1. chat' = Append(chat, y) BY <1>6, <1>12 DEF Effect
  <2>2. y \in Message /\ y.as # "silent" BY <1>4 DEF Message
  <2> HIDE DEF y
  <2> QED BY <1>5, <2>1, <2>2, SendTouches
<1>13. CASE old.call.op \in {"delete", "recall", "silence"}
  <2> DEFINE m == old.call.msg
             y == [chat[m] EXCEPT !.as = IF old.call.op = "silence" THEN "silent" ELSE "gone"]
  <2>1. m \in 1..Len(chat) /\ chat[m] \in Message /\ chat[m].ver \in Nat BY <1>9, <1>10, <1>13
  <2>2. chat' = [chat EXCEPT ![m] = y] BY <1>6, <1>13 DEF Effect
  <2>3. y \in Message /\ y.cycle = chat[m].cycle /\ y.ver = chat[m].ver
        /\ (y.as = "silent" => old.call.op = "silence")
    BY <2>1 DEF Message
  <2> HIDE DEF y, m
  <2>4. chat[m].ver <= y.ver BY <2>1, <2>3
  <2>5. ASSUME NEW c \in 1..Len(cycles), cycles[c].msg = m PROVE y.ver <= cycles[c].ver
    <3>1. cycles[c].msg # 0 BY <2>1, <2>5
    <3> QED BY <3>1, <2>3, <2>5 DEF BaseInv, LinkOK, active
  <2> QED BY <1>5, <1>7, <2>1, <2>2, <2>3, <2>4, <2>5, OneTouches
<1>14. CASE old.call.op \in {"unreact", "react"}
  <2>1. chat' = chat BY <1>6, <1>14 DEF Effect
  <2> QED BY <1>5, <2>1, SameTouches
<1> QED BY <1>4, <1>6, <1>11, <1>12, <1>13, <1>14 DEF NetworkCall

\* The jobs left are those that had not begun, and possibly one that reports the failure.
Redirected ==
  /\ writes' \in Seq(QueuedWrite)
  /\ \A i \in 1..Len(writes') : Fresh(writes'[i])
       /\ (writes'[i] = FailJob \/ \E j \in 2..Len(writes) : writes'[i] = writes[j])

\* A write that has not begun fits any cycles and any chat.
LEMMA FreshStands ==
  ASSUME NEW job \in QueuedWrite, Fresh(job), NEW cs, NEW ch
  PROVE  /\ CallFits(job, cs, ch) /\ Place(job, cs) /\ Told(job, cs, ch)
<1>1. job.kind \in {"flush", "create", "move", "finish", "fail"} BY WriteTypes
<1>2. /\ job.kind = "flush" => job.at = "edit"
      /\ job.kind = "create" => job.at = "create"
      /\ job.kind = "move" => job.at = "previous"
      /\ job.kind \in {"finish", "fail"} => job.at = "unreact"
      /\ job.then = "end" /\ job.call.op = "none"
  BY DEF Fresh, First
<1>3. job.at # "delete" BY <1>1, <1>2
<1> QED BY <1>1, <1>2, <1>3 DEF CallFits, Place, Told, Answering

\* What a failed call says of the end of the run.
RunEnding ==
  /\ closed' \in BOOLEAN /\ (closed => closed') /\ (timer' = timer \/ timer' = 0) /\ lost' \in Nat
  /\ outcome' \in {"running", "ending", "done", "silent", "failed", "given up"}
\* Every text is shown in its last version.
AllShown(cs, ch) == \A c \in 1..Len(cs) : Speaks(cs[c]) => Shown(cs, ch, c)

\* A failed call keeps the base invariant: the writes that are left have not begun.
LEMMA RedirectedBase ==
  ASSUME BaseInv, Redirected, Touched,
         UNCHANGED <<options, output, target, response, parts, thoughts, steering, moves, overtaken,
                     late>>,
         RunEnding,
         EndOK', SilentOK',
         outcome' = "done" /\ ~late' => AllShown(cycles, chat')
  PROVE  BaseInv'
<1>1. ProjTypeOK /\ Shapes BY ProjShapes DEF BaseInv
<1>2. Len(cycles) \in Nat /\ Len(writes) \in Nat BY <1>1 DEF Shapes
<1>3. cycles' = cycles /\ rows' = rows /\ options' = options BY DEF output
<1>4. ProjTypeOK'
  <2>1. /\ options' \in [streaming : BOOLEAN, directive : BOOLEAN] /\ target' \in Nat
        /\ parts' \in Seq(Nat) /\ thoughts' \in Nat /\ moves' \in Nat
        /\ overtaken' \subseteq Nat /\ late' \in BOOLEAN /\ steering' \in BOOLEAN
    BY <1>1 DEF ProjTypeOK
  <2>2. cycles' \in Seq(OutputCycle) /\ cycles' # <<>>
        /\ rows' \in Seq({"none", "open", "complete", "failed", "deleted"})
        /\ Len(rows') = Len(cycles')
        /\ \A c, d \in 1..Len(cycles') : rows'[c] = "open" /\ rows'[d] = "open" => c = d
    BY <1>1, <1>3 DEF ProjTypeOK, active
  <2>3. \A c \in 1..Len(cycles') : cycles'[c].msg <= Len(chat')
                                   /\ (cycles'[c].state # "text" => cycles'[c].text = {})
    <3> TAKE c \in 1..Len(cycles')
    <3>1. cycles[c].msg <= Len(chat) /\ (cycles[c].state # "text" => cycles[c].text = {})
      BY <1>1, <1>3 DEF ProjTypeOK, active
    <3>2. cycles[c].msg \in Nat /\ Len(chat) \in Nat BY <1>1, <1>3 DEF Shapes
    <3> QED BY <1>3, <3>1, <3>2 DEF Touched
  <2>4. timer' \in 0..Len(cycles')
    <3>1. timer \in 0..Len(cycles) BY <1>1 DEF ProjTypeOK, active
    <3>2. timer' = timer \/ timer' = 0 BY DEF RunEnding
    <3> QED BY <3>1, <3>2, <1>2, <1>3
  <2>5. response' \in 1..Len(chat')
    <3>1. response \in 1..Len(chat) /\ Len(chat) \in Nat BY <1>1 DEF Shapes
    <3> QED BY <3>1 DEF Touched
  <2>6. chat' \in Seq(Message) /\ reacted' \subseteq Nat BY DEF Touched
  <2>7. writes' \in Seq(QueuedWrite) BY DEF Redirected
  <2> QED BY <2>1, <2>2, <2>3, <2>4, <2>5, <2>6, <2>7 DEF ProjTypeOK, active, RunEnding
<1>5. WritesOK'
  <2>1. ASSUME NEW i \in 1..Len(writes')
        PROVE  WriteOK(writes'[i], Len(cycles), closed', options.streaming)
    <3>1. CASE writes'[i] = FailJob
      <4>1. FailJob \in QueuedWrite /\ Fresh(FailJob) /\ FailJob.kind = "fail" BY FailJobFresh
      <4>2. StepsOK(FailJob) /\ CallsFit(FailJob) BY <4>1, FreshFits
      <4>3. FailJob.at = "unreact" BY <4>1 DEF Fresh, First
      <4> QED BY <3>1, <4>1, <4>2, <4>3 DEF WriteOK
    <3>2. ASSUME NEW k \in 2..Len(writes), writes'[i] = writes[k]
          PROVE  WriteOK(writes'[i], Len(cycles), closed', options.streaming)
      <4>1. k \in 1..Len(writes) BY <1>2
      <4>2. WriteOK(writes[k], Len(cycles), closed, options.streaming)
        BY <4>1 DEF BaseInv, WritesOK, active
      <4>3. Fresh(writes[k]) /\ writes[k] \in QueuedWrite
        BY <1>1, <4>1 DEF BaseInv, WritesOK, Shapes
      <4>4. writes[k].at # "post" BY <4>3, WriteTypes DEF Fresh, First
      <4> QED BY <3>2, <4>2, <4>4, Zenon DEF WriteOK, RunEnding
    <3> QED BY <3>1, <3>2 DEF Redirected
  <2>2. \A i \in 1..Len(writes') : Fresh(writes'[i]) BY DEF Redirected
  <2>3. Len(writes') \in Nat BY LenProperties DEF Redirected
  <2>4. \A i \in 2..Len(writes') : Fresh(writes'[i]) BY <2>2, <2>3
  <2>5. timer' # 0 => options.streaming BY DEF BaseInv, WritesOK, RunEnding
  <2> QED BY <1>3, <2>1, <2>4, <2>5 DEF WritesOK, active
<1>6. writes' # <<>> => CallFits(writes'[1], cycles', chat') /\ Place(writes'[1], cycles')
                        /\ Told(writes'[1], cycles', chat')
  <2> HAVE writes' # <<>>
  <2>1. 1 \in 1..Len(writes')
    <3>1. Len(writes') \in Nat BY LenProperties DEF Redirected
    <3>2. Len(writes') # 0 BY EmptySeq DEF Redirected
    <3> QED BY <3>1, <3>2
  <2>2. Fresh(writes'[1]) /\ writes'[1] \in QueuedWrite BY <2>1, ElementOfSeq DEF Redirected
  <2> QED BY <2>2, FreshStands
<1>7. CallOK' /\ PlaceOK' BY <1>6 DEF CallOK, PlaceOK
<1>8. ShownOK' BY <1>3, <1>6 DEF ShownOK, AllShown
<1>9. LinkOK'
  <2> SUFFICES ASSUME NEW c \in 1..Len(cycles), cycles[c].msg # 0
               PROVE  chat'[cycles[c].msg].cycle = c /\ chat'[cycles[c].msg].ver <= cycles[c].ver
    BY <1>3 DEF LinkOK, active
  <2>1. cycles[c].msg \in 1..Len(chat)
    <3>1. cycles[c].msg \in 0..Len(chat) /\ Len(chat) \in Nat BY <1>1 DEF Shapes
    <3> QED BY <3>1
  <2>2. chat[cycles[c].msg].cycle = c BY DEF BaseInv, LinkOK, active
  <2> QED BY <2>1, <2>2 DEF Touched
<1> QED BY <1>4, <1>5, <1>7, <1>8, <1>9 DEF BaseInv


\* The write under way is dropped, and possibly a fail queued: what is left of the chain.
LEMMA DroppedRequeues ==
  ASSUME BaseInv, Dropped
  PROVE  /\ Redirected
         /\ Len(writes') \in Nat
         /\ \A i \in 1..Len(writes') : i + 1 \in 2..Len(writes) /\ writes'[i] = writes[i + 1]
<1>1. Shapes BY ProjShapes DEF BaseInv
<1>2. Len(writes) \in Nat /\ Len(writes') = Len(writes) - 1 /\ 1 <= Len(writes)
  BY <1>1 DEF Shapes, Dropped
<1>3. Len(writes') \in Nat BY <1>2
<1>4. ASSUME NEW i \in 1..Len(writes')
      PROVE  i + 1 \in 2..Len(writes) /\ writes'[i] = writes[i + 1]
  <2>1. i \in 1..Len(writes) - 1 /\ i + 1 \in 2..Len(writes) BY <1>2
  <2> QED BY <2>1 DEF Dropped
<1>5. ASSUME NEW i \in 1..Len(writes')
      PROVE  Fresh(writes'[i]) /\ \E j \in 2..Len(writes) : writes'[i] = writes[j]
  <2>1. i + 1 \in 2..Len(writes) /\ writes'[i] = writes[i + 1] BY <1>4
  <2>2. Fresh(writes[i + 1]) BY <2>1 DEF BaseInv, WritesOK
  <2> QED BY <2>1, <2>2
<1>6. writes' \in Seq(QueuedWrite) BY DEF Dropped
<1> QED BY <1>3, <1>4, <1>5, <1>6 DEF Redirected

\* The chain after a failed finish or move: those that waited, then fail.
LEMMA FailingRedirects ==
  ASSUME BaseInv, NEW j \in 1..Len(writes), Turn(j), writes' = Append(RemoveAt(writes, j), FailJob)
  PROVE  /\ Redirected /\ Len(writes') = Len(writes)
         /\ \A i \in 1..Len(writes) - 1 : i + 1 \in 2..Len(writes) /\ writes'[i] = writes[i + 1]
         /\ writes'[Len(writes)] = FailJob
<1> DEFINE rest == RemoveAt(writes, 1)
<1>1. Shapes /\ writes \in Seq(QueuedWrite) BY ProjShapes DEF BaseInv, ProjTypeOK
<1>2. j = 1 BY DEF Turn
<1>3. Len(writes) \in Nat /\ 1 <= Len(writes) /\ writes # <<>>
  <2>1. Len(writes) \in Nat BY <1>1 DEF Shapes
  <2>2. 1 <= Len(writes) BY <2>1, <1>2
  <2>3. writes # <<>> BY <2>1, <2>2, EmptySeq
  <2> QED BY <2>1, <2>2, <2>3
<1>4. /\ rest \in Seq(QueuedWrite) /\ Len(rest) = Len(writes) - 1
      /\ \A i \in 1..Len(writes) - 1 : rest[i] = writes[i + 1]
  BY <1>1, <1>3, FirstRemoved
<1>5. writes' = Append(rest, FailJob) BY <1>2
<1>6. FailJob \in QueuedWrite /\ Fresh(FailJob) BY FailJobFresh
<1> HIDE DEF rest
<1>7. /\ writes' \in Seq(QueuedWrite) /\ Len(writes') = Len(rest) + 1
      /\ \A i \in 1..Len(rest) : writes'[i] = rest[i]
      /\ writes'[Len(rest) + 1] = FailJob
  BY <1>4, <1>5, <1>6, AppendChain
<1>8. Len(rest) + 1 = Len(writes) BY <1>3, <1>4
<1>9. ASSUME NEW i \in 1..Len(writes) - 1
      PROVE  i + 1 \in 2..Len(writes) /\ writes'[i] = writes[i + 1]
  <2>1. i + 1 \in 2..Len(writes) BY <1>3
  <2>2. i \in 1..Len(rest) BY <1>4
  <2> QED BY <2>1, <2>2, <1>4, <1>7
<1>10. ASSUME NEW i \in 1..Len(writes')
       PROVE  Fresh(writes'[i])
              /\ (writes'[i] = FailJob \/ \E k \in 2..Len(writes) : writes'[i] = writes[k])
  <2>1. i = Len(writes) \/ i \in 1..Len(writes) - 1 BY <1>3, <1>7, <1>8
  <2>2. CASE i = Len(writes) BY <2>2, <1>6, <1>7, <1>8
  <2>3. CASE i \in 1..Len(writes) - 1
    <3>1. i + 1 \in 2..Len(writes) /\ writes'[i] = writes[i + 1] BY <2>3, <1>9
    <3>2. Fresh(writes[i + 1]) BY <3>1 DEF BaseInv, WritesOK
    <3> QED BY <3>1, <3>2
  <2> QED BY <2>1, <2>2, <2>3
<1>11. Len(writes') = Len(writes) /\ writes'[Len(writes)] = FailJob BY <1>7, <1>8
<1> QED BY <1>7, <1>9, <1>10, <1>11 DEF Redirected

\* A dropped write: the run's end is known as before, or a closing write has settled.
Concluded ==
  \/ outcome' = outcome /\ ~Closing(writes[1])
  \/ Closing(writes[1]) /\ outcome' \in {"done", "silent", "failed", "given up"}

\* The write that ends the run is the only one of its kind in the chain.
LEMMA DroppedEnd ==
  ASSUME BaseInv, Dropped, closed' = closed, timer' = timer, late' = late,
         Concluded
  PROVE  /\ EndOK'
         /\ Closing(writes[1]) => outcome = "ending"
              /\ \A i \in 1..Len(writes') : ~Closing(writes'[i])
<1>1. Shapes /\ EndOK BY ProjShapes DEF BaseInv
<1>2. /\ Len(writes') \in Nat /\ Len(writes) \in Nat
      /\ \A i \in 1..Len(writes') : i + 1 \in 2..Len(writes) /\ writes'[i] = writes[i + 1]
  BY <1>1, DroppedRequeues DEF Shapes
<1>3. Len(writes') = Len(writes) - 1 /\ 1 \in 1..Len(writes)
      /\ (writes' = <<>>) = (Len(writes) = 1)
  BY <1>2 DEF Dropped
<1>4. ASSUME NEW i \in 1..Len(writes')
      PROVE  i + 1 \in 1..Len(writes) /\ i + 1 # 1 /\ writes'[i] = writes[i + 1]
  BY <1>2
<1>5. CASE outcome' = outcome /\ ~Closing(writes[1])
  <2>1. closed' = (outcome' # "running") /\ (closed' => timer' = 0) BY <1>1, <1>5 DEF EndOK
  <2>2. \A i \in 1..Len(writes') : Closing(writes'[i]) => outcome' = "ending"
    BY <1>1, <1>4, <1>5 DEF EndOK
  <2>3. ASSUME NEW i \in 1..Len(writes'), NEW k \in 1..Len(writes'), Closing(writes'[i]),
               Closing(writes'[k])
        PROVE  i = k
    <3>1. i + 1 = k + 1 BY <1>1, <1>4, <2>3 DEF EndOK
    <3> QED BY <3>1
  <2>4. ASSUME ~late', NEW i \in 1..Len(writes'), Closing(writes'[i]) PROVE i = Len(writes')
    <3>1. i + 1 = Len(writes) BY <1>1, <1>4, <2>4 DEF EndOK
    <3> QED BY <3>1, <1>2, <1>3
  <2>5. ~late' /\ outcome' \notin {"running", "ending"} => writes' = <<>>
    <3>1. ~late' /\ outcome' \notin {"running", "ending"} => writes = <<>> BY <1>1, <1>5 DEF EndOK
    <3>2. writes # <<>> BY <1>1, <1>3 DEF Shapes
    <3> QED BY <3>1, <3>2
  <2> QED BY <2>1, <2>2, <2>3, <2>4, <2>5, <1>5 DEF EndOK
<1>6. CASE Closing(writes[1]) /\ outcome' \in {"done", "silent", "failed", "given up"}
  <2>1. outcome = "ending" BY <1>1, <1>3, <1>6 DEF EndOK
  <2>2. closed' = (outcome' # "running") /\ (closed' => timer' = 0) BY <1>1, <1>6, <2>1 DEF EndOK
  <2>3. \A i \in 1..Len(writes') : ~Closing(writes'[i])
    <3> SUFFICES ASSUME NEW i \in 1..Len(writes'), Closing(writes'[i]) PROVE FALSE OBVIOUS
    <3>1. i + 1 \in 1..Len(writes) /\ i + 1 # 1 /\ Closing(writes[i + 1]) BY <1>4
    <3> QED BY <3>1, <1>1, <1>3, <1>6 DEF EndOK
  <2>4. ~late' => writes' = <<>>
    <3>1. ~late => 1 = Len(writes) BY <1>1, <1>3, <1>6 DEF EndOK
    <3> QED BY <3>1, <1>3
  <2> QED BY <2>1, <2>2, <2>3, <2>4 DEF EndOK
<1> QED BY <1>5, <1>6 DEF Concluded

\* No answer is due once the closing write is gone.
LEMMA RequeuedSilent ==
  ASSUME BaseInv, Redirected, Touched, writes # <<>>,
         writes[1].call.op = "silence" =>
           /\ outcome' \notin {"running", "done"}
           /\ \A i \in 1..Len(writes') : ~Answering(writes'[i]),
         outcome' = outcome \/ outcome' \notin {"running", "done"}
             \/ (chat' = chat /\ Answering(writes[1]))
  PROVE  SilentOK'
<1>1. Shapes BY ProjShapes DEF BaseInv
<1> SUFFICES ASSUME NEW m \in 1..Len(chat'), chat'[m].as = "silent"
             PROVE  /\ outcome' \notin {"running", "done"}
                    /\ \A i \in 1..Len(writes') : ~Answering(writes'[i])
  BY DEF SilentOK
<1>2. writes[1].call.op = "silence" \/ (m \in 1..Len(chat) /\ chat[m].as = "silent") BY DEF Touched
<1>3. CASE m \in 1..Len(chat) /\ chat[m].as = "silent"
  <2>1. outcome \notin {"running", "done"} /\ \A i \in 1..Len(writes) : ~Answering(writes[i])
    BY <1>3 DEF BaseInv, SilentOK
  <2>2. 1 \in 1..Len(writes) BY <1>1 DEF Shapes
  <2>3. outcome' \notin {"running", "done"} BY <2>1, <2>2
  <2>4. ASSUME NEW i \in 1..Len(writes') PROVE ~Answering(writes'[i])
    <3>1. CASE writes'[i] = FailJob BY <3>1, FailJobFresh DEF Answering
    <3>2. ASSUME NEW k \in 2..Len(writes), writes'[i] = writes[k] PROVE ~Answering(writes'[i])
      <4>1. k \in 1..Len(writes) BY <1>1 DEF Shapes
      <4> QED BY <4>1, <2>1, <3>2
    <3> QED BY <3>1, <3>2 DEF Redirected
  <2> QED BY <2>3, <2>4
<1> QED BY <1>2, <1>3

\* The write is through: what its kind makes of the run.
LEMMA JobEndsBase ==
  ASSUME BaseInv, NEW j \in 1..Len(writes), JobEnds(j)
  PROVE  BaseInv' /\ Dropped /\ writes[1].at = "end" /\ writes[1].call.op = "none"
<1>1. Turn(j) /\ writes' = RemoveAt(writes, j) BY DEF JobEnds, Here
<1>2. /\ ProjTypeOK /\ Shapes /\ j = 1 /\ writes # <<>> /\ writes[1] \in QueuedWrite
      /\ Told(writes[1], cycles, chat) /\ ~(outcome = "done" /\ ~late)
  BY <1>1, AtHand
<1>3. writes[1].at = "end" /\ writes[1].call.op = "none" BY <1>2 DEF JobEnds, Here
<1>4. Dropped BY <1>1, <1>2, DropChain
<1>5. Redirected BY <1>4, DroppedRequeues
<1>6. /\ UNCHANGED <<options, output, target, response, parts, thoughts, steering, moves, overtaken,
                     late>>
      /\ UNCHANGED <<timer, closed, lost, chat, reacted>>
  BY DEF JobEnds, shown, past
<1>7. writes[1].kind \in {"flush", "create", "move", "finish", "fail"} BY <1>2, WriteTypes
<1>8. outcome' = CASE writes[1].kind = "finish" /\ writes[1].result = "silent" -> "silent"
                   [] writes[1].kind = "finish" /\ writes[1].result # "silent" -> "done"
                   [] writes[1].kind = "fail" -> "failed"
                   [] OTHER -> outcome
  BY <1>2 DEF JobEnds
<1>9. \/ outcome' = outcome /\ ~Closing(writes[1])
      \/ Closing(writes[1]) /\ outcome' \in {"done", "silent", "failed"}
         /\ (outcome' = "done" => Answering(writes[1]))
  BY <1>7, <1>8 DEF Closing, Answering
<1>10. EndOK'
  <2>1. Concluded BY <1>9 DEF Concluded
  <2>2. closed' = closed /\ timer' = timer /\ late' = late BY <1>6
  <2> QED BY <1>4, <2>1, <2>2, DroppedEnd
<1>11. chat' = chat /\ reacted' \subseteq Nat BY <1>2, <1>6 DEF ProjTypeOK
<1>12. Touched BY <1>11, SameTouches
<1>13. SilentOK'
  <2>1. writes[1].call.op # "silence" BY <1>3
  <2>2. outcome' = outcome \/ outcome' \notin {"running", "done"}
        \/ (chat' = chat /\ Answering(writes[1]))
    BY <1>9, <1>11
  <2> QED BY <1>2, <1>5, <1>12, <2>1, <2>2, RequeuedSilent
<1>14. outcome' = "done" /\ ~late' => AllShown(cycles, chat')
  <2> HAVE outcome' = "done" /\ ~late'
  <2>1. Answering(writes[1]) BY <1>2, <1>6, <1>9
  <2> QED BY <2>1, <1>2, <1>3, <1>11 DEF Told, AllShown
<1>15. RunEnding
  <2>1. closed \in BOOLEAN /\ lost \in Nat
        /\ outcome \in {"running", "ending", "done", "silent", "failed", "given up"}
    BY <1>2 DEF ProjTypeOK
  <2> QED BY <2>1, <1>6, <1>9 DEF RunEnding
<1> QED BY <1>3, <1>4, <1>5, <1>6, <1>10, <1>12, <1>13, <1>14, <1>15, RedirectedBase

\* A call fails: a write that fails the run is dropped for one that says so.
LEMMA LoseSteps ==
  ASSUME BaseInv, NEW j \in 1..Len(writes), Lose(j)
  PROVE  BaseInv' /\ Touched
<1> DEFINE old == writes[1]
<1>1. Turn(j) BY DEF Lose
<1>2. /\ ProjTypeOK /\ Shapes /\ j = 1 /\ writes # <<>> /\ writes[1] \in QueuedWrite
      /\ WriteOK(writes[1], Len(cycles), closed, options.streaming)
      /\ CallFits(writes[1], cycles, chat) /\ Place(writes[1], cycles)
      /\ Told(writes[1], cycles, chat)
      /\ (Closing(writes[1]) => closed /\ outcome = "ending") /\ ~(outcome = "done" /\ ~late)
  BY <1>1, AtHand
<1>3. old = writes[1] OBVIOUS
<1> HIDE DEF old
<1>4. /\ old.call.op # "none"
      /\ \/ UNCHANGED <<chat, reacted>> \/ Effect(old)
      /\ \/ /\ old.kind = "fail" /\ old.call.op = "unreact"
            /\ Through(j) /\ UNCHANGED <<closed, timer, outcome>>
         \/ /\ old.kind = "fail" /\ old.call.op # "unreact" /\ outcome' = "given up"
            /\ writes' = RemoveAt(writes, j) /\ UNCHANGED <<closed, timer>>
         \/ /\ old.kind = "finish" \/ (old.kind = "move" /\ ~closed)
            /\ outcome' = "ending" /\ closed' = TRUE /\ timer' = 0
            /\ writes' = Append(RemoveAt(writes, j), FailJob)
         \/ /\ old.kind \in {"flush", "create"} \/ (old.kind = "move" /\ closed)
            /\ writes' = RemoveAt(writes, j) /\ UNCHANGED <<closed, timer, outcome>>
      /\ UNCHANGED <<options, output, target, response, parts, thoughts, steering, moves, overtaken,
                     late>>
  BY <1>2, <1>3 DEF Lose
<1>5. lost' = lost \/ lost' = lost + 1 BY DEF Lose
<1>6. lost' \in Nat
  <2>1. lost \in Nat BY <1>2 DEF ProjTypeOK
  <2> QED BY <2>1, <1>5
<1>7. Touched
  <2>1. CASE UNCHANGED <<chat, reacted>>
    <3>1. chat' = chat /\ reacted' \subseteq Nat BY <2>1, <1>2 DEF ProjTypeOK
    <3> QED BY <3>1, SameTouches
  <2>2. CASE Effect(old) BY <2>2, <1>2, <1>3, <1>4, EffectTouches
  <2> QED BY <2>1, <2>2, <1>4
<1>8. StepsOK(old) /\ CallsFit(old) /\ old.at \in WriteStep
      /\ old.kind \in {"flush", "create", "move", "finish", "fail"}
      /\ old.result \in {"all", "last", "none", "silent"}
  BY <1>2, <1>3, WriteTypes DEF WriteOK
<1>9. old.call.op = "silence" => old.kind = "finish" /\ old.result = "silent"
  <2>1. old.call.op = "silence" => old.at = "silence" BY <1>8 DEF CallsFit, WriteStep
  <2> QED BY <2>1, <1>8 DEF StepsOK
<1>10. CASE old.kind = "fail" /\ old.call.op = "unreact" /\ Through(j)
       /\ UNCHANGED <<closed, timer, outcome>>
  <2> DEFINE job == writes'[1]
  <2>1. job = writes'[1] OBVIOUS
  <2> HIDE DEF job
  <2>2. chat' = chat BY <1>4, <1>10 DEF Effect
  <2>3. SameChain /\ Stands(Following(writes[1]), writes[1].c, "end") /\ writes'[1].call = NoCall
    BY <1>1, <1>2, <1>10, ThroughChain
  <2>4. old.at = "unreact" BY <1>8, <1>10 DEF CallsFit, WriteStep
  <2>5. job.at = "words" /\ job.then = "end" /\ job.kind = "fail" /\ job.call.op = "none"
        /\ job.c = old.c
    BY <2>1, <2>3, <2>4, <1>3, <1>10 DEF SameChain, Stands, Following, NoCall
  <2>6. StepsOK(job) /\ CallsFit(job) BY <2>5 DEF StepsOK, CallsFit
  <2>7. cycles' = cycles /\ rows' = rows BY <1>4 DEF output
  <2>8. EndOK' BY <1>2, <1>4, <1>10, <2>3, EndKept DEF BaseInv
  <2>9. SilentOK' BY <1>2, <1>4, <1>10, <2>2, <2>3, EndKept DEF BaseInv
  <2>10. WritesOK'
    <3>1. WriteOK(job, Len(cycles'), closed', options.streaming) BY <2>5, <2>6 DEF WriteOK
    <3>2. Len(cycles) <= Len(cycles') /\ Len(cycles') \in Nat BY <2>7, <1>2 DEF Shapes
    <3>3. WritesOK /\ options' = options /\ timer' = timer /\ closed' = closed
      BY <1>4, <1>10 DEF BaseInv
    <3> QED BY <3>1, <3>2, <3>3, <1>2, <2>1, <2>3, MovedWrites
  <2>11. CallOK' /\ PlaceOK'
    <3>1. CallFits(job, cycles', chat') /\ Place(job, cycles')
      BY <2>5 DEF CallFits, Place, Answering
    <3> QED BY <3>1, <2>1 DEF CallOK, PlaceOK
  <2>12. ShownOK'
    <3>1. Told(job, cycles', chat') BY <2>5 DEF Told, Answering
    <3>2. ~(outcome' = "done" /\ ~late') BY <1>2, <1>4, <1>10
    <3> QED BY <3>1, <3>2, <2>1, Zenon DEF ShownOK
  <2>13. LinkOK' BY <2>2, <2>7 DEF BaseInv, LinkOK, active
  <2>14. ProjTypeOK'
    <3>1. writes' \in Seq(QueuedWrite) BY <2>3 DEF SameChain
    <3>2. reacted' \subseteq Nat BY <1>7 DEF Touched
    <3>3. /\ options' = options /\ timer' = timer /\ closed' = closed /\ target' = target
          /\ response' = response /\ parts' = parts /\ thoughts' = thoughts /\ steering' = steering
          /\ moves' = moves /\ overtaken' = overtaken /\ late' = late /\ outcome' = outcome
      BY <1>4, <1>10
    <3> QED BY <1>2, <1>6, <2>2, <2>7, <3>1, <3>2, <3>3 DEF ProjTypeOK, active
  <2> QED BY <1>7, <2>8, <2>9, <2>10, <2>11, <2>12, <2>13, <2>14 DEF BaseInv
<1>11. CASE old.kind = "fail" /\ outcome' = "given up" /\ writes' = RemoveAt(writes, j)
            /\ UNCHANGED <<closed, timer>>
  <2>1. Dropped BY <1>1, <1>2, <1>11, DropChain
  <2>2. Redirected BY <2>1, DroppedRequeues
  <2>3. EndOK'
    <3>1. Concluded BY <1>3, <1>11 DEF Concluded, Closing
    <3> QED BY <3>1, <1>4, <1>11, <2>1, DroppedEnd
  <2>4. SilentOK'
    <3>1. writes[1].call.op # "silence" BY <1>3, <1>9, <1>11
    <3> QED BY <3>1, <1>2, <1>7, <1>11, <2>2, RequeuedSilent
  <2>5. RunEnding
    <3>1. closed \in BOOLEAN BY <1>2 DEF ProjTypeOK
    <3> QED BY <3>1, <1>6, <1>11 DEF RunEnding
  <2>6. ~(outcome' = "done" /\ ~late') BY <1>11
  <2> QED BY <1>4, <1>7, <2>2, <2>3, <2>4, <2>5, <2>6, RedirectedBase
<1>12. CASE (old.kind = "finish" \/ (old.kind = "move" /\ ~closed))
            /\ outcome' = "ending" /\ closed' = TRUE /\ timer' = 0
            /\ writes' = Append(RemoveAt(writes, j), FailJob)
  <2>1. /\ Redirected /\ Len(writes') = Len(writes)
        /\ \A i \in 1..Len(writes) - 1 : i + 1 \in 2..Len(writes) /\ writes'[i] = writes[i + 1]
        /\ writes'[Len(writes)] = FailJob
    BY <1>1, <1>12, FailingRedirects
  <2>2. Len(writes) \in Nat /\ 1 \in 1..Len(writes) BY <1>2 DEF Shapes
  <2>3. ASSUME NEW i \in 1..Len(writes) - 1 PROVE ~Closing(writes'[i])
    <3>1. i + 1 \in 1..Len(writes) /\ i + 1 # 1 /\ writes'[i] = writes[i + 1] BY <2>1, <2>2
    <3>2. CASE old.kind = "finish"
      <4>1. Closing(writes[1]) BY <3>2, <1>3 DEF Closing
      <4> QED BY <4>1, <3>1, <2>2 DEF BaseInv, EndOK
    <3>3. CASE ~closed
      <4>1. outcome # "ending" BY <3>3 DEF BaseInv, EndOK
      <4> QED BY <4>1, <3>1 DEF BaseInv, EndOK
    <3> QED BY <3>2, <3>3, <1>12
  <2>4. ASSUME NEW i \in 1..Len(writes'), Closing(writes'[i]) PROVE i = Len(writes')
    <3>1. i = Len(writes) \/ i \in 1..Len(writes) - 1 BY <2>1, <2>2
    <3> QED BY <3>1, <2>1, <2>3, <2>4
  <2>5. EndOK' BY <1>12, <2>4 DEF EndOK
  <2>6. \A i \in 1..Len(writes') : ~Answering(writes'[i])
    <3> SUFFICES ASSUME NEW i \in 1..Len(writes'), Answering(writes'[i]) PROVE FALSE OBVIOUS
    <3>1. i = Len(writes) BY <2>1, <2>4 DEF Answering, Closing
    <3> QED BY <3>1, <2>1, FailJobFresh DEF Answering
  <2>7. SilentOK' BY <1>12, <2>6 DEF SilentOK
  <2>8. RunEnding BY <1>6, <1>12 DEF RunEnding
  <2>9. ~(outcome' = "done" /\ ~late') BY <1>12
  <2> QED BY <1>4, <1>7, <2>1, <2>5, <2>7, <2>8, <2>9, RedirectedBase
<1>13. CASE (old.kind \in {"flush", "create"} \/ (old.kind = "move" /\ closed))
            /\ writes' = RemoveAt(writes, j) /\ UNCHANGED <<closed, timer, outcome>>
  <2>1. Dropped BY <1>1, <1>2, <1>13, DropChain
  <2>2. Redirected BY <2>1, DroppedRequeues
  <2>3. ~Closing(old) BY <1>13 DEF Closing
  <2>4. EndOK'
    <3>1. Concluded BY <1>3, <1>13, <2>3 DEF Concluded
    <3> QED BY <3>1, <1>4, <1>13, <2>1, DroppedEnd
  <2>5. SilentOK'
    <3>1. writes[1].call.op # "silence" BY <1>3, <1>9, <1>13
    <3> QED BY <3>1, <1>2, <1>7, <1>13, <2>2, RequeuedSilent
  <2>6. RunEnding
    <3>1. closed \in BOOLEAN
          /\ outcome \in {"running", "ending", "done", "silent", "failed", "given up"}
      BY <1>2 DEF ProjTypeOK
    <3> QED BY <3>1, <1>6, <1>13 DEF RunEnding
  <2>7. ~(outcome' = "done" /\ ~late') BY <1>2, <1>4, <1>13
  <2> QED BY <1>4, <1>7, <2>2, <2>4, <2>5, <2>6, <2>7, RedirectedBase
<1> QED BY <1>4, <1>10, <1>11, <1>12, <1>13


-----------------------------------------------------------------------------
(* The invariant holds *)

\* The first message of the run satisfies the base invariant.
LEMMA BaseInit ==
  ASSUME ProjInit
  PROVE  BaseInv
<1>1. \/ cycles = <<[Cycle("transient", 0, {}, FALSE) EXCEPT !.msg = 1]>>
      \/ cycles = <<[Cycle("text", 0, {0}, FALSE) EXCEPT !.msg = 1]>>
  BY DEF ProjInit
<1>2. /\ cycles \in Seq(OutputCycle) /\ Len(cycles) = 1 /\ cycles # <<>>
      /\ cycles[1].msg = 1 /\ cycles[1].ver = 1
      /\ cycles[1].state # "text" => cycles[1].text = {}
  <2>1. PICK x : cycles = <<x>> /\ (\/ x = [Cycle("transient", 0, {}, FALSE) EXCEPT !.msg = 1]
                                   \/ x = [Cycle("text", 0, {0}, FALSE) EXCEPT !.msg = 1])
    BY <1>1
  <2>2. x \in OutputCycle /\ x.msg = 1 /\ x.ver = 1 /\ (x.state # "text" => x.text = {})
    <3>1. x = [state |-> "transient", part |-> 0, text |-> {}, ver |-> 1, msg |-> 1,
          reply |-> FALSE,
               completed |-> FALSE, deleted |-> FALSE, failed |-> FALSE]
          \/ x = [state |-> "text", part |-> 0, text |-> {0}, ver |-> 1, msg |-> 1, reply |-> FALSE,
                  completed |-> FALSE, deleted |-> FALSE, failed |-> FALSE]
      BY <2>1 DEF Cycle
    <3>2. ASSUME NEW state \in {"transient", "text"}, NEW text \in SUBSET Nat,
                 x = [state |-> state, part |-> 0, text |-> text, ver |-> 1, msg |-> 1,
                      reply |-> FALSE, completed |-> FALSE, deleted |-> FALSE, failed |-> FALSE]
          PROVE  x \in OutputCycle /\ x.msg = 1 /\ x.ver = 1 /\ x.state = state /\ x.text = text
      BY <3>2 DEF OutputCycle
    <3>3. {} \in SUBSET Nat /\ {0} \in SUBSET Nat OBVIOUS
    <3> QED BY <3>1, <3>2, <3>3
  <2> QED BY <2>1, <2>2
<1>3. /\ chat = <<[cycle |-> 1, ver |-> 1, as |-> "own"]>> /\ writes = <<>> /\ rows = <<"open">>
      /\ closed = FALSE /\ timer = 0 /\ outcome = "running" /\ reacted = {0} /\ target = 0
      /\ response = 1 /\ parts = <<>> /\ late = FALSE
      /\ thoughts = 0 /\ steering = FALSE /\ moves = 0 /\ lost = 0 /\ overtaken = {}
      /\ options \in [streaming : BOOLEAN, directive : BOOLEAN]
  BY DEF ProjInit
<1>4. /\ chat \in Seq(Message) /\ Len(chat) = 1 /\ chat[1].cycle = 1 /\ chat[1].ver = 1
      /\ chat[1].as = "own"
  BY <1>3 DEF Message
<1>5. /\ rows \in Seq({"none", "open", "complete", "failed", "deleted"}) /\ Len(rows) = 1
      /\ writes \in Seq(QueuedWrite) /\ Len(writes) = 0 /\ parts \in Seq(Nat)
  BY <1>3
<1>6. ProjTypeOK
  <2>1. \A c \in 1..Len(cycles) : cycles[c].msg <= Len(chat)
                                  /\ (cycles[c].state # "text" => cycles[c].text = {})
    BY <1>2, <1>4
  <2>2. \A c, d \in 1..Len(cycles) : rows[c] = "open" /\ rows[d] = "open" => c = d BY <1>2
  <2>3. timer \in 0..Len(cycles) /\ response \in 1..Len(chat) BY <1>2, <1>3, <1>4
  <2>4. reacted \subseteq Nat /\ target \in Nat /\ overtaken \subseteq Nat /\ thoughts \in Nat
        /\ moves \in Nat /\ lost \in Nat
    BY <1>3
  <2>5. closed \in BOOLEAN /\ late \in BOOLEAN /\ steering \in BOOLEAN
        /\ outcome \in {"running", "ending", "done", "silent", "failed", "given up"}
    BY <1>3
  <2>6. Len(rows) = Len(cycles) BY <1>2, <1>5
  <2> QED BY <1>2, <1>3, <1>4, <1>5, <2>1, <2>2, <2>3, <2>4, <2>5, <2>6 DEF ProjTypeOK, active
<1>7. \A j \in 1..Len(writes) : FALSE BY <1>5
<1>8. WritesOK
  <2>1. \A j \in 2..Len(writes) : FALSE BY <1>5
  <2> QED BY <1>3, <1>7, <2>1 DEF WritesOK
<1>9. CallOK /\ PlaceOK BY <1>3 DEF CallOK, PlaceOK
<1>10. LinkOK BY <1>2, <1>4 DEF LinkOK, active
<1>11. EndOK BY <1>3, <1>7 DEF EndOK
<1>12. ShownOK BY <1>3 DEF ShownOK
<1>13. SilentOK BY <1>4 DEF SilentOK
<1> QED BY <1>6, <1>8, <1>9, <1>10, <1>11, <1>12, <1>13 DEF BaseInv

\* Whatever call's reply arrives.
LEMMA LandSteps ==
  ASSUME BaseInv, NEW j \in 1..Len(writes), Land(j)
  PROVE  BaseInv' /\ Touched
<1> DEFINE old == writes[1]
           job == writes'[1]
<1>1. old = writes[1] /\ job = writes'[1] OBVIOUS
<1> HIDE DEF old, job
<1>2. /\ writes # <<>> /\ Effect(old)
      /\ old.call.op \in {"edit", "create", "recall", "unreact", "react", "delete", "silence",
           "post"}
  BY <1>1, LandAtHand
<1>3. Touched BY <1>1, <1>2, EffectTouches
<1>4. CASE old.call.op = "edit" BY <1>1, <1>3, <1>4, LandEdit
<1>5. CASE old.call.op = "create" BY <1>1, <1>3, <1>5, LandCreate
<1>6. CASE old.call.op = "recall" BY <1>1, <1>3, <1>6, LandRecall
<1>7. CASE old.call.op \in {"unreact", "react"} BY <1>1, <1>3, <1>7, LandReaction
<1>8. CASE old.call.op = "delete" BY <1>1, <1>3, <1>8, LandDelete
<1>9. CASE old.call.op = "silence" BY <1>1, <1>3, <1>9, LandSilence
<1>10. CASE old.call.op = "post" BY <1>1, <1>3, <1>10, LandPost
<1> QED BY <1>2, <1>4, <1>5, <1>6, <1>7, <1>8, <1>9, <1>10

\* A step of the write under way keeps the invariant; only a call touches the chat.
LEMMA WorkBase ==
  ASSUME BaseInv, NEW j \in 1..Len(writes), Work(j)
  PROVE  BaseInv' /\ (chat' = chat \/ Touched)
<1> DEFINE job == writes'[1]
<1>1. job = writes'[1] OBVIOUS
<1> HIDE DEF job
<1>2. CASE EditNow(j)
  <2>1. chat' = chat BY <1>2 DEF EditNow, OnlyJobs, shown
  <2> QED BY <1>2, <2>1, EditNowBase
<1>3. CASE CreateNow(j)
  <2>1. chat' = chat BY <1>3 DEF CreateNow, OnlyJobs, shown
  <2> QED BY <1>3, <2>1, CreateNowBase
<1>4. CASE CallNow(j)
  <2>1. chat' = chat BY <1>4 DEF CallNow, OnlyJobs, shown
  <2> QED BY <1>4, <2>1, CallNowBase
<1>5. CASE Previous(j)
  <2>1. chat' = chat BY <1>5 DEF Previous, OnlyJobs, shown
  <2> QED BY <1>1, <1>5, <2>1, PreviousSteps
<1>6. CASE EmitNow(j)
  <2>1. chat' = chat BY <1>6 DEF EmitNow, OnlyJobs, shown
  <2> QED BY <1>1, <1>6, <2>1, EmitNowSteps
<1>7. CASE Fork(j)
  <2>1. chat' = chat BY <1>7 DEF Fork
  <2> QED BY <1>1, <1>7, <2>1, ForkSteps
<1>8. CASE Conclude(j)
  <2>1. chat' = chat BY <1>8 DEF Conclude, OnlyJobs, shown
  <2> QED BY <1>8, <2>1, ConcludeBase
<1>9. CASE Sweep(j)
  <2>1. chat' = chat BY <1>9 DEF Sweep, OnlyJobs, shown
  <2> QED BY <1>1, <1>9, <2>1, SweepSteps
<1>10. CASE Over(j)
  <2>1. chat' = chat BY <1>10 DEF Over, OnlyJobs, shown
  <2> QED BY <1>1, <1>10, <2>1, OverSteps
<1>11. CASE Complete(j)
  <2>1. chat' = chat BY <1>11 DEF Complete, OnlyJobs, shown
  <2> QED BY <1>1, <1>11, <2>1, CompleteSteps
<1>12. CASE Rewrite(j)
  <2>1. chat' = chat BY <1>12 DEF Rewrite, OnlyJobs, shown
  <2> QED BY <1>1, <1>12, <2>1, RewriteSteps
<1>13. CASE Words(j)
  <2>1. chat' = chat BY <1>13 DEF Words, OnlyJobs, shown
  <2> QED BY <1>1, <1>13, <2>1, WordsSteps
<1>14. CASE Notice(j)
  <2>1. chat' = chat BY <1>14 DEF Notice, OnlyJobs, shown
  <2> QED BY <1>1, <1>14, <2>1, NoticeSteps
<1>15. CASE Failed(j)
  <2>1. chat' = chat BY <1>15 DEF Failed, OnlyJobs, shown
  <2> QED BY <1>1, <1>15, <2>1, FailedSteps
<1>16. CASE Land(j) BY <1>16, LandSteps
<1>17. CASE Lose(j) BY <1>17, LoseSteps
<1>18. CASE JobEnds(j)
  <2>1. chat' = chat BY <1>18 DEF JobEnds, shown
  <2> QED BY <1>18, <2>1, JobEndsBase
<1> QED BY <1>2, <1>3, <1>4, <1>5, <1>6, <1>7, <1>8, <1>9, <1>10, <1>11, <1>12, <1>13, <1>14, <1>15,
           <1>16, <1>17, <1>18 DEF Work

\* Every step keeps the base invariant, and no message goes back.
LEMMA BaseStep ==
  ASSUME BaseInv, [ProjNext]_projVars
  PROVE  BaseInv' /\ (chat' = chat \/ Touched)
<1>1. CASE TextDelta
  <2>1. chat' = chat BY <1>1 DEF TextDelta, shown
  <2> QED BY <1>1, <2>1, TextDeltaBase
<1>2. CASE Progress
  <2>1. chat' = chat BY <1>2 DEF Progress, shown
  <2> QED BY <1>2, <2>1, ProgressBase
<1>3. CASE TimerFires
  <2>1. chat' = chat BY <1>3 DEF TimerFires, shown
  <2> QED BY <1>3, <2>1, TimerFiresBase
<1>4. CASE Finish
  <2>1. chat' = chat BY <1>4 DEF Finish, shown
  <2> QED BY <1>4, <2>1, FinishBase
<1>5. CASE Fail
  <2>1. chat' = chat BY <1>5 DEF Fail, shown
  <2> QED BY <1>5, <2>1, FailBase
<1>6. CASE Steer
  <2>1. chat' = chat BY <1>6 DEF Steer, shown
  <2> QED BY <1>6, <2>1, SteerBase
<1>7. CASE Move
  <2>1. chat' = chat BY <1>7 DEF Move, shown
  <2> QED BY <1>7, <2>1, MoveBase
<1>8. ASSUME NEW j \in 1..Len(writes), Work(j) PROVE BaseInv' /\ (chat' = chat \/ Touched)
  BY <1>8, WorkBase
<1>9. CASE UNCHANGED projVars
  <2>1. /\ options' = options /\ cycles' = cycles /\ timer' = timer /\ closed' = closed
        /\ writes' = writes /\ chat' = chat /\ reacted' = reacted /\ target' = target
        /\ response' = response /\ rows' = rows /\ parts' = parts /\ thoughts' = thoughts
        /\ steering' = steering /\ moves' = moves /\ outcome' = outcome /\ lost' = lost
        /\ overtaken' = overtaken /\ late' = late
    BY <1>9 DEF projVars
  <2>2. ProjTypeOK' BY <2>1 DEF BaseInv, ProjTypeOK, active
  <2>3. WritesOK' BY <2>1 DEF BaseInv, WritesOK, active
  <2>4. CallOK' /\ LinkOK' /\ PlaceOK' BY <2>1 DEF BaseInv, CallOK, LinkOK, PlaceOK, active
  <2>5. EndOK' BY <2>1 DEF BaseInv, EndOK
  <2>6. ShownOK' /\ SilentOK' BY <2>1 DEF BaseInv, ShownOK, SilentOK
  <2> QED BY <2>1, <2>2, <2>3, <2>4, <2>5, <2>6 DEF BaseInv
<1> QED BY <1>1, <1>2, <1>3, <1>4, <1>5, <1>6, <1>7, <1>8, <1>9 DEF ProjNext

\* The base invariant holds in every run.
LEMMA BaseAlways == ProjSpec => []BaseInv
<1>1. ProjInit => BaseInv BY BaseInit
<1>2. BaseInv /\ [ProjNext]_projVars => BaseInv' BY BaseStep
<1> QED BY <1>1, <1>2, PTL DEF ProjSpec

-----------------------------------------------------------------------------
(* Theorems *)

\* Every variable of the projection keeps its type: among others each row of a cycle has a state
\* the table allows and at most one row is open.
THEOREM ProjectionTypeCorrect == ProjSpec => []ProjTypeOK
<1>1. BaseInv => ProjTypeOK BY DEF BaseInv
<1> QED BY <1>1, BaseAlways, PTL

\* No message of the chat is ever overwritten with an older version of its cycle.
THEOREM EditsOnlyGoForward == ProjSpec => EditsNeverGoBack
<1>1. BaseInv /\ [ProjNext]_projVars
        => [\A m \in 1..Len(chat) : chat'[m].ver >= chat[m].ver]_projVars
  <2> SUFFICES ASSUME BaseInv, [ProjNext]_projVars
               PROVE  \A m \in 1..Len(chat) : chat'[m].ver >= chat[m].ver
    OBVIOUS
  <2>1. CASE chat' = chat
    <3>1. Touched
      <4>1. reacted' \subseteq Nat BY BaseStep DEF BaseInv, ProjTypeOK
      <4> QED BY <2>1, <4>1, SameTouches
    <3> QED BY <3>1 DEF Touched
  <2>2. CASE Touched
    <3> TAKE m \in 1..Len(chat)
    <3>1. chat[m].ver <= chat'[m].ver BY <2>2 DEF Touched
    <3> QED BY <3>1
  <2> QED BY <2>1, <2>2, BaseStep
<1> QED BY <1>1, BaseAlways, PTL DEF ProjSpec, EditsNeverGoBack
=============================================================================
