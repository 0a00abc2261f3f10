------------------------------ MODULE OutputProofs ------------------------------
(* Proofs about what leaves the gateway: what a run of which no write failed leaves in the *)
(* chat and in its rows, on top of ProjectionProofs, and the publication outbox, for every *)
(* number of calls, operations and attempts.                                               *)
EXTENDS ProjectionProofs, PublicationOutbox, SequenceTheorems, TLAPS

-----------------------------------------------------------------------------
(* Runs of which no write fails *)

\* What is over when the next cycle starts: an answer that is complete, or what is not shown.
Over1(cycle) ==
  \/ cycle.state = "text" /\ cycle.completed
  \/ cycle.deleted
  \/ cycle.state # "text" /\ cycle.msg = 0 /\ ~options.streaming

\* A message that is gone is that of a cycle that is deleted.
GoneOK == \A c \in 1..Len(cycles) :
  cycles[c].msg # 0 /\ chat[cycles[c].msg].as = "gone" => cycles[c].deleted

\* Only a cycle that is to get another message has an open row and no message.
AtRecall(c) == writes # <<>> /\ writes[1].at = "edit" /\ writes[1].c = c
RecallOK == \A c \in 1..Len(cycles) :
  cycles[c].msg = 0 /\ rows[c] = "open" => AtRecall(c) /\ ~cycles[c].deleted

\* A row is open for the active cycle, or for the one a write is about to report.
ToReport(c) ==
  /\ writes # <<>> /\ writes[1].at \in {"edit", "emit"} /\ writes[1].c = c
  /\ cycles[c].msg = 0 \/ writes[1].kind = "move"
OpenOK == \A c \in 1..Len(cycles) : rows[c] = "open" =>
  c \in overtaken \/ (c = Len(cycles) /\ Live(cycles[c])) \/ ToReport(c)

\* At the end of a run its active cycle is over.
Stopped(job, cs) ==
  LET last == cs[Len(cs)] IN
  /\ Closing(job) /\ job.at \in {"end", "rewrite"} => ~Live(last)
  /\ Answering(job) /\ job.at = "edit" => ~Live(last)
  /\ job.at = "over" /\ job.c >= Len(cs) => ~Live(last)
  /\ job.at = "post" => last.deleted \/ (last.state = "text" /\ last.completed)
StopOK ==
  /\ outcome \in {"done", "silent", "failed"} => ~Live(cycles[Len(cycles)])
  /\ writes # <<>> => Stopped(writes[1], cycles)

\* A cycle that is not the active one is over, unless an event came before the move was through.
SettleOK == \A c \in 1..Len(cycles) - 1 : c \in overtaken \/ Over1(cycles[c])

\* A move is about the active cycle, which is over when the next one starts.
Due(job, cs) ==
  LET n == Len(cs) IN
  /\ job.at \in {"edit", "emit"} => cs[job.c].completed
  /\ n \notin overtaken =>
       /\ job.at \in {"edit", "emit"} => job.c = n /\ cs[n].state = "text"
       /\ job.at = "delete" => job.c = n /\ cs[n].state # "text"
       /\ job.at \in {"unreact", "fork"} => Over1(cs[n])
DueOK == writes # <<>> /\ writes[1].kind = "move" => Due(writes[1], cycles)

\* The message of a cycle that has none is to be created before the next move.
Awaited(c) == cycles[c].state # "text" /\ cycles[c].msg = 0 /\ ~cycles[c].deleted
Creating(j, c) ==
  writes[j].at = "create" /\ writes[j].c = c /\ \A i \in 1..j : ~Unforked(writes[i])
NewOK == options.streaming /\ Len(cycles) \notin overtaken /\ Awaited(Len(cycles)) =>
  \E j \in 1..Len(writes) : Creating(j, Len(cycles))

\* What holds of the rows while no call has failed and no move came late.
Tidy == GoneOK /\ RecallOK /\ OpenOK /\ StopOK /\ SettleOK /\ DueOK /\ NewOK
Clean == lost = 0 /\ ~late
TidyInv == BaseInv /\ (Clean => Tidy)

\* What a write does to a cycle that is there: nothing it has reached is taken back.
Onward(x, y) ==
  /\ (x.completed => y.completed) /\ (x.deleted => y.deleted) /\ (x.failed => y.failed)
  /\ (x.state = "text" => y.state = "text")

\* While no message is taken away, those that are gone are the ones of deleted cycles.
LEMMA GoneSame ==
  ASSUME Shapes, GoneOK, Len(cycles) <= Len(cycles'), Len(cycles') \in Nat,
         \A c \in 1..Len(cycles) : /\ cycles'[c].msg = cycles[c].msg
                                   /\ (cycles[c].deleted => cycles'[c].deleted),
         \A c \in Len(cycles) + 1..Len(cycles') : cycles'[c].msg = 0,
         \A k \in 1..Len(chat) : chat'[k].as = "gone" => chat[k].as = "gone"
  PROVE  GoneOK'
<1> SUFFICES ASSUME NEW c \in 1..Len(cycles'), cycles'[c].msg # 0,
                    chat'[cycles'[c].msg].as = "gone"
             PROVE  cycles'[c].deleted
  BY DEF GoneOK
<1>1. c \in 1..Len(cycles) BY DEF Shapes
<1>2. cycles[c].msg \in 1..Len(chat) /\ cycles'[c].msg = cycles[c].msg BY <1>1 DEF Shapes
<1> QED BY <1>1, <1>2 DEF GoneOK

\* A cycle that is over stays over, as long as its message is not a new one.
LEMMA SettleSame ==
  ASSUME Shapes, SettleOK, options' = options, Len(cycles') = Len(cycles),
         overtaken \subseteq overtaken',
         \A c \in 1..Len(cycles) - 1 :
            /\ Onward(cycles[c], cycles'[c]) /\ cycles'[c].state = cycles[c].state
            /\ cycles'[c].msg = cycles[c].msg \/ cycles[c].state = "text" \/ options.streaming
  PROVE  SettleOK'
BY DEF SettleOK, Over1, Onward

\* A step of the write under way leaves the message to be created, or creates it.
LEMMA NewSame ==
  ASSUME Shapes, NewOK, SameChain, options' = options, overtaken' = overtaken,
         Len(cycles') = Len(cycles), NEW job, job = writes'[1],
         Awaited(Len(cycles))' => Awaited(Len(cycles)),
         ~Unforked(writes[1]) => ~Unforked(job),
         Awaited(Len(cycles))' /\ writes[1].at = "create" /\ writes[1].c = Len(cycles) =>
           job.at = "create" /\ job.c = Len(cycles)
  PROVE  NewOK'
<1> DEFINE n == Len(cycles)
<1> SUFFICES ASSUME options.streaming, n \notin overtaken, Awaited(n)'
             PROVE  \E j \in 1..Len(writes') : Creating(j, n)'
  BY DEF NewOK
<1>1. PICK j \in 1..Len(writes) : Creating(j, n) BY DEF NewOK
<1>2. Len(writes') = Len(writes) /\ Len(writes) \in Nat /\ 1 \in 1..Len(writes)
  BY DEF SameChain, Shapes
<1>3. ~Unforked(writes'[1]) BY <1>1, <1>2 DEF Creating
<1>4. ASSUME NEW i \in 1..Len(writes), i # 1
      PROVE  writes'[i] = writes[i]
  BY <1>2, <1>4 DEF SameChain
<1>5. \A i \in 1..j : ~Unforked(writes'[i])
  <2> TAKE i \in 1..j
  <2>1. i \in 1..Len(writes) /\ ~Unforked(writes[i]) BY <1>1, <1>2 DEF Creating
  <2> QED BY <1>3, <1>4, <2>1
<1>6. writes'[j].at = "create" /\ writes'[j].c = n
  <2>1. CASE j = 1 BY <1>1, <2>1 DEF Creating
  <2>2. CASE j # 1 BY <1>1, <1>4, <2>2 DEF Creating
  <2> QED BY <2>1, <2>2
<1>7. Creating(j, n)' BY <1>5, <1>6 DEF Creating
<1> QED BY <1>2, <1>7

\* While a write is under way the run has not ended.
LEMMA StopSame ==
  ASSUME Shapes, EndOK, ~late, SameChain, outcome' = outcome, Stopped(writes'[1], cycles')
  PROVE  StopOK'
<1>1. writes # <<>> BY DEF SameChain
<1>2. outcome' \notin {"done", "silent", "failed"} BY <1>1 DEF EndOK
<1> QED BY <1>2 DEF StopOK

\* A step of the write under way keeps the rows tidy if it opens none, and if the row of what it
\* leaves is reported or closed.
LEMMA HeadTidy ==
  ASSUME BaseInv, Tidy, ~late, NEW job, NextWrite(job), HeadAside, Len(cycles') = Len(cycles),
         \A c \in 1..Len(cycles) :
            /\ Onward(cycles[c], cycles'[c]) /\ cycles'[c].msg = cycles[c].msg
            /\ rows'[c] = "open" => rows[c] = "open",
         \A c \in 1..Len(cycles) - 1 : cycles'[c].state = cycles[c].state,
         rows'[Len(cycles)] = "open" /\ Live(cycles[Len(cycles)]) /\ ~Live(cycles'[Len(cycles)]) =>
           job.kind = "move" /\ job.at = "edit" /\ job.c = Len(cycles),
         \A c \in 1..Len(cycles) : rows'[c] = "open" /\ AtRecall(c) /\ ~cycles[c].deleted =>
           (cycles[c].msg = 0 => AtRecall(c)') /\ ~cycles'[c].deleted,
         \A c \in 1..Len(cycles) :
            rows'[c] = "open" /\ ToReport(c) /\ (cycles[c].msg = 0 => ~cycles[c].deleted) =>
              ToReport(c)',
         ~Unforked(writes[1]) => ~Unforked(job),
         Awaited(Len(cycles))' /\ writes[1].at = "create" /\ writes[1].c = Len(cycles) =>
           job.at = "create" /\ job.c = Len(cycles),
         Stopped(job, cycles'), job.kind = "move" => Due(job, cycles')
  PROVE  Tidy'
<1> DEFINE n == Len(cycles)
<1>1. Shapes /\ EndOK BY ProjShapes DEF BaseInv
<1>2. /\ SameChain /\ job = writes'[1] /\ options' = options /\ chat' = chat /\ outcome' = outcome
      /\ overtaken' = overtaken /\ writes' # <<>> /\ n \in Nat /\ 1 <= n
  BY <1>1 DEF NextWrite, HeadAside, past, SameChain, Shapes
<1>3. GoneOK'
  <2>1. \A c \in n + 1..Len(cycles') : cycles'[c].msg = 0 BY <1>2
  <2>2. \A c \in 1..n : cycles'[c].msg = cycles[c].msg /\ (cycles[c].deleted => cycles'[c].deleted)
    BY DEF Onward
  <2> QED BY <1>1, <1>2, <2>1, <2>2, GoneSame DEF Tidy
<1>4. RecallOK'
  <2> SUFFICES ASSUME NEW c \in 1..n, cycles'[c].msg = 0, rows'[c] = "open"
               PROVE  AtRecall(c)' /\ ~cycles'[c].deleted
    BY DEF RecallOK
  <2>1. rows[c] = "open" /\ cycles[c].msg = 0 OBVIOUS
  <2>2. AtRecall(c) /\ ~cycles[c].deleted BY <2>1 DEF Tidy, RecallOK
  <2> QED BY <2>1, <2>2
<1>5. OpenOK'
  <2> SUFFICES ASSUME NEW c \in 1..n, rows'[c] = "open"
               PROVE  c \in overtaken \/ (c = n /\ Live(cycles'[c])) \/ ToReport(c)'
    BY <1>2 DEF OpenOK
  <2>1. rows[c] = "open" OBVIOUS
  <2>2. c \in overtaken \/ (c = n /\ Live(cycles[c])) \/ ToReport(c) BY <2>1 DEF Tidy, OpenOK
  <2>3. CASE c = n /\ Live(cycles[c])
    <3>1. CASE Live(cycles'[c]) BY <2>3, <3>1
    <3>2. CASE ~Live(cycles'[c])
      <4>1. job.kind = "move" /\ job.at = "edit" /\ job.c = n BY <2>3, <3>2
      <4> QED BY <1>2, <2>3, <4>1 DEF ToReport
    <3> QED BY <3>1, <3>2
  <2>4. CASE ToReport(c)
    <3>1. cycles[c].msg = 0 => ~cycles[c].deleted BY <2>1 DEF Tidy, RecallOK
    <3> QED BY <2>4, <3>1
  <2> QED BY <2>2, <2>3, <2>4
<1>6. StopOK' BY <1>1, <1>2, StopSame
<1>7. SettleOK'
  <2>1. ASSUME NEW c \in 1..n - 1
        PROVE  /\ Onward(cycles[c], cycles'[c]) /\ cycles'[c].state = cycles[c].state
               /\ cycles'[c].msg = cycles[c].msg
    BY <1>2
  <2> QED BY <1>1, <1>2, <2>1, SettleSame DEF Tidy
<1>8. DueOK' BY <1>2 DEF DueOK, Due, Over1
<1>9. NewOK'
  <2>1. Awaited(n)' => Awaited(n) BY <1>2 DEF Awaited, Onward
  <2>2. NewOK BY DEF Tidy
  <2> QED BY <1>1, <1>2, <2>1, <2>2, NewSame
<1> QED BY <1>3, <1>4, <1>5, <1>6, <1>7, <1>8, <1>9 DEF Tidy

\* A step that is no call for an edit or a message: nothing is recalled there, and nothing waits.
LEMMA PlainTidy ==
  ASSUME BaseInv, Tidy, ~late, NEW job, NextWrite(job), HeadAside, Len(cycles') = Len(cycles),
         writes[1].at \notin {"edit", "create"},
         writes[1].at = "emit" => rows'[writes[1].c] # "open",
         \A c \in 1..Len(cycles) :
            /\ Onward(cycles[c], cycles'[c]) /\ cycles'[c].msg = cycles[c].msg
            /\ rows'[c] = "open" => rows[c] = "open",
         \A c \in 1..Len(cycles) - 1 : cycles'[c].state = cycles[c].state,
         rows'[Len(cycles)] = "open" /\ Live(cycles[Len(cycles)]) /\ ~Live(cycles'[Len(cycles)]) =>
           job.kind = "move" /\ job.at = "edit" /\ job.c = Len(cycles),
         writes[1].kind = "move" => Unforked(writes[1]) \/ ~Unforked(job),
         Stopped(job, cycles'), job.kind = "move" => Due(job, cycles')
  PROVE  Tidy'
<1>1. ~Unforked(writes[1]) => ~Unforked(job) BY DEF Unforked, NextWrite
<1>2. \A c : ~AtRecall(c) BY DEF AtRecall
<1>3. \A c \in 1..Len(cycles) : rows'[c] = "open" => ~ToReport(c) BY DEF ToReport
<1> QED BY <1>1, <1>2, <1>3, HeadTidy

\* Where no edit is under way a row that is open has a message.
LEMMA OpenHasMessage ==
  ASSUME Tidy, NEW c \in 1..Len(cycles), rows[c] = "open", writes[1].at # "edit"
  PROVE  cycles[c].msg # 0
BY DEF Tidy, RecallOK, AtRecall

\* Asking for an edit, a recall or a message keeps the rows tidy.
LEMMA EditNowTidy ==
  ASSUME BaseInv, Tidy, ~late, NEW j \in 1..Len(writes), EditNow(j)
  PROVE  Tidy'
<1> DEFINE n == Len(cycles)
           old == writes[1]
           job == writes'[1]
<1>1. /\ NextWrite(job) /\ HeadAside /\ SameCycles /\ rows' = rows
      /\ old.at = "edit" /\ old.call.op = "none" /\ old.c \in 1..n /\ job.c = old.c
      /\ \/ cycles[old.c].deleted /\ job.at = old.then /\ job.then = "end"
         \/ ~cycles[old.c].deleted /\ job.at = "edit" /\ job.then = old.then
  BY EditNowSteps
<1>2. /\ writes # <<>> /\ WriteOK(old, n, closed, options.streaming) /\ n \in Nat /\ 1 <= n
      /\ n \in 1..n /\ old \in QueuedWrite
  BY AtHand DEF EditNow, Here
<1>3. StepsOK(old) BY <1>2 DEF WriteOK
<1>4. /\ job.kind = old.kind /\ job.result = old.result /\ Len(cycles') = n
      /\ \A c \in 1..n : Alike(cycles[c], cycles'[c])
      /\ writes' # <<>>
  BY <1>1 DEF NextWrite, SameCycles, SameChain
<1>5. ASSUME NEW c \in 1..n
      PROVE  /\ Onward(cycles[c], cycles'[c]) /\ cycles'[c].msg = cycles[c].msg
             /\ cycles'[c].state = cycles[c].state /\ cycles'[c].deleted = cycles[c].deleted
             /\ Live(cycles'[c]) = Live(cycles[c]) /\ cycles'[c].completed = cycles[c].completed
  BY <1>4 DEF Alike, Onward, Live
<1>6. old.kind \in {"flush", "create", "move", "finish", "fail"} BY <1>2, WriteTypes
<1>7. ASSUME NEW c \in 1..n, AtRecall(c), ~cycles[c].deleted
      PROVE  AtRecall(c)' /\ ~cycles'[c].deleted
  BY <1>1, <1>4, <1>5, <1>7 DEF AtRecall
<1>8. ASSUME NEW c \in 1..n, ToReport(c), cycles[c].msg = 0 => ~cycles[c].deleted
      PROVE  ToReport(c)'
  <2>1. c = old.c /\ c = job.c BY <1>1, <1>8 DEF ToReport
  <2>2. CASE job.at = "edit" BY <1>4, <1>5, <1>8, <2>1, <2>2 DEF ToReport
  <2>3. CASE job.at # "edit"
    <3>1. cycles[c].deleted /\ job.at = old.then BY <1>1, <2>1, <2>3
    <3>2. cycles[c].msg # 0 BY <1>8, <3>1
    <3>3. old.kind = "move" BY <1>8, <3>2 DEF ToReport
    <3>4. job.at = "emit" BY <1>1, <1>3, <3>1, <3>3 DEF StepsOK
    <3> QED BY <1>4, <2>1, <3>3, <3>4 DEF ToReport
  <2> QED BY <2>2, <2>3
<1>9. ~Unforked(old) => ~Unforked(job) BY <1>1, <1>4 DEF Unforked
<1>10. Stopped(job, cycles')
  <2>1. Stopped(old, cycles) BY <1>2 DEF Tidy, StopOK
  <2>2. Live(cycles'[n]) = Live(cycles[n]) BY <1>2, <1>5
  <2>3. CASE job.at = "edit" BY <1>1, <1>4, <2>1, <2>2, <2>3 DEF Stopped, Answering
  <2>4. CASE job.at # "edit"
    <3>1. job.at = old.then BY <1>1, <2>4
    <3>2. job.at \notin {"over", "post"} BY <1>1, <1>3, <1>6, <3>1 DEF StepsOK
    <3>3. Closing(old) /\ job.at \in {"end", "rewrite"} => Answering(old)
      BY <1>1, <1>3, <3>1 DEF StepsOK, Closing, Answering
    <3> QED BY <1>1, <1>4, <2>1, <2>2, <2>4, <3>2, <3>3 DEF Stopped, Closing, Answering
  <2> QED BY <2>3, <2>4
<1>11. job.kind = "move" => Due(job, cycles')
  <2> SUFFICES ASSUME old.kind = "move"
               PROVE  Due(job, cycles')
    BY <1>4
  <2>1. Due(old, cycles) BY <1>2 DEF Tidy, DueOK
  <2>2. job.at \in {"edit", "emit"} BY <1>1, <1>3 DEF StepsOK
  <2> QED BY <1>1, <1>2, <1>4, <1>5, <2>1, <2>2 DEF Due
<1> HIDE DEF job
<1>12. /\ \A c \in 1..n : /\ Onward(cycles[c], cycles'[c]) /\ cycles'[c].msg = cycles[c].msg
                          /\ rows'[c] = "open" => rows[c] = "open"
       /\ \A c \in 1..n - 1 : cycles'[c].state = cycles[c].state
  BY <1>1, <1>2, <1>5
<1>13. ~(Live(cycles[n]) /\ ~Live(cycles'[n])) BY <1>2, <1>5
<1>14. old.at # "create" BY <1>1
<1> QED BY <1>1, <1>4, <1>7, <1>8, <1>9, <1>10, <1>11, <1>12, <1>13, <1>14, HeadTidy

\* Asking for the message of a cycle keeps the rows tidy: what waited for it still does.
LEMMA CreateNowTidy ==
  ASSUME BaseInv, Tidy, ~late, NEW j \in 1..Len(writes), CreateNow(j)
  PROVE  Tidy'
<1> DEFINE n == Len(cycles)
           old == writes[1]
           job == writes'[1]
<1>1. /\ NextWrite(job) /\ HeadAside /\ cycles' = cycles /\ rows' = rows
      /\ old.at = "create" /\ old.call.op = "none" /\ old.c \in 1..n /\ job.c = old.c
      /\ \/ (cycles[old.c].msg # 0 \/ cycles[old.c].deleted) /\ job.at = old.then
         \/ cycles[old.c].msg = 0 /\ ~cycles[old.c].deleted /\ job.at = "create"
  BY CreateNowSteps
<1>2. /\ writes # <<>> /\ WriteOK(old, n, closed, options.streaming) /\ n \in Nat /\ 1 <= n
      /\ n \in 1..n /\ old \in QueuedWrite
  BY AtHand DEF CreateNow, Here
<1>3. old.kind \in {"flush", "create", "move", "finish", "fail"} BY <1>2, WriteTypes
<1>4. old.kind \in {"create", "move"} BY <1>1, <1>2, <1>3 DEF WriteOK, StepsOK
<1>5. job.kind = old.kind BY <1>1 DEF NextWrite
<1>6. job.at \in {"create", "react", "end"} BY <1>1, <1>2, <1>4 DEF WriteOK, StepsOK
<1>7. ~Unforked(job) /\ Stopped(job, cycles') /\ Due(job, cycles')
  BY <1>4, <1>5, <1>6 DEF Unforked, Stopped, Due, Closing, Answering
<1>8. \A c : ~AtRecall(c) /\ ~ToReport(c) BY <1>1 DEF AtRecall, ToReport
<1>9. ASSUME Awaited(n)', old.c = n
      PROVE  job.at = "create" /\ job.c = n
  BY <1>1, <1>9 DEF Awaited
<1> HIDE DEF job
<1>10. \A c \in 1..n : Onward(cycles[c], cycles'[c]) BY <1>1 DEF Onward
<1> QED BY <1>1, <1>7, <1>8, <1>9, <1>10, HeadTidy

\* The other calls keep the rows tidy: they are made where the write is.
LEMMA CallNowTidy ==
  ASSUME BaseInv, Tidy, ~late, NEW j \in 1..Len(writes), CallNow(j)
  PROVE  Tidy'
<1> DEFINE n == Len(cycles)
           old == writes[1]
           job == writes'[1]
<1>1. /\ NextWrite(job) /\ HeadAside /\ cycles' = cycles /\ rows' = rows
      /\ old.at \in OtherCalls /\ job.at = old.at /\ job.c = old.c
  BY CallNowSteps
<1>2. writes # <<>> BY AtHand DEF CallNow, Here
<1>3. job.kind = old.kind /\ job.result = old.result BY <1>1 DEF NextWrite
<1>4. Stopped(job, cycles')
  <2>1. Stopped(old, cycles) BY <1>2 DEF Tidy, StopOK
  <2> QED BY <1>1, <1>3, <2>1 DEF Stopped, Closing, Answering
<1>5. job.kind = "move" => Due(job, cycles')
  <2>1. old.kind = "move" => Due(old, cycles) BY <1>2 DEF Tidy, DueOK
  <2> QED BY <1>1, <1>3, <2>1 DEF Due
<1>6. old.at \notin {"edit", "create", "emit"} BY <1>1 DEF OtherCalls
<1>7. old.kind = "move" => Unforked(old) \/ ~Unforked(job) BY <1>1, <1>3 DEF Unforked
<1> HIDE DEF job
<1>8. \A c \in 1..n : Onward(cycles[c], cycles'[c]) BY <1>1 DEF Onward
<1> QED BY <1>1, <1>4, <1>5, <1>6, <1>7, <1>8, PlainTidy

\* A move begins with the active cycle: an answer is frozen and reported next, and without a
\* message there is nothing that would still get one.
LEMMA PreviousTidy ==
  ASSUME BaseInv, Tidy, ~late, NEW j \in 1..Len(writes), Previous(j)
  PROVE  Tidy'
<1> DEFINE n == Len(cycles)
           old == writes[1]
           job == writes'[1]
<1>1. /\ NextWrite(job) /\ HeadAside /\ rows' = rows /\ old.at = "previous" /\ old.kind = "move"
      /\ Len(cycles') = n
      /\ \/ /\ cycles[n].state = "text" /\ job.at = "edit" /\ job.c = n
            /\ cycles'[n] = [cycles[n] EXCEPT !.completed = TRUE]
            /\ \A c \in 1..n : c # n => cycles'[c] = cycles[c]
         \/ cycles[n].state # "text" /\ cycles' = cycles /\ job.at = "delete" /\ job.c = n
         \/ /\ cycles[n].state # "text" /\ (cycles[n].msg = 0 \/ cycles[n].deleted)
            /\ cycles' = cycles /\ job.at = "unreact"
  BY PreviousSteps
<1>2. writes # <<>> /\ n \in Nat /\ 1 <= n /\ n \in 1..n /\ Shapes
  BY AtHand DEF Previous, Here
<1>3. job.kind = "move" /\ writes' # <<>> BY <1>1 DEF NextWrite, SameChain
<1>4. cycles[n] \in OutputCycle BY <1>2 DEF Shapes
<1>5. ASSUME NEW c \in 1..n
      PROVE  /\ Onward(cycles[c], cycles'[c]) /\ cycles'[c].msg = cycles[c].msg
             /\ cycles'[c].state = cycles[c].state
  <2>1. CASE cycles'[c] = cycles[c] BY <2>1 DEF Onward
  <2>2. CASE c = n /\ cycles'[n] = [cycles[n] EXCEPT !.completed = TRUE]
    BY <1>4, <2>2, Marked DEF Onward
  <2> QED BY <1>1, <2>1, <2>2
<1>6. Due(job, cycles')
  <2>1. CASE job.at = "edit"
    <3>1. cycles'[n] = [cycles[n] EXCEPT !.completed = TRUE] /\ cycles[n].state = "text"
          /\ job.c = n
      BY <1>1, <2>1
    <3>2. cycles'[n].completed /\ cycles'[n].state = "text" BY <1>4, <3>1 DEF OutputCycle
    <3> QED BY <1>1, <2>1, <3>1, <3>2 DEF Due
  <2>2. CASE job.at = "delete" BY <1>1, <2>2 DEF Due
  <2>3. CASE job.at = "unreact"
    <3>1. /\ cycles[n].state # "text" /\ (cycles[n].msg = 0 \/ cycles[n].deleted)
          /\ cycles' = cycles
      BY <1>1, <2>3
    <3>2. ASSUME n \notin overtaken
          PROVE  Over1(cycles[n])
      <4>1. ASSUME options.streaming, Awaited(n)
            PROVE  FALSE
        <5>1. \E i \in 1..Len(writes) : Creating(i, n) BY <3>2, <4>1 DEF Tidy, NewOK
        <5>2. ~Unforked(old) BY <5>1 DEF Creating
        <5> QED BY <1>1, <5>2 DEF Unforked
      <4> QED BY <3>1, <4>1 DEF Awaited, Over1
    <3> QED BY <2>3, <3>1, <3>2 DEF Due
  <2> QED BY <1>1, <2>1, <2>2, <2>3
<1>7. Stopped(job, cycles') BY <1>1, <1>3 DEF Stopped, Closing, Answering
<1>8. Unforked(old) BY <1>1 DEF Unforked
<1>9. ASSUME Live(cycles[n]), ~Live(cycles'[n])
      PROVE  job.at = "edit" /\ job.c = n
  BY <1>1, <1>9
<1> HIDE DEF job
<1>10. /\ \A c \in 1..n : /\ Onward(cycles[c], cycles'[c]) /\ cycles'[c].msg = cycles[c].msg
                          /\ rows'[c] = "open" => rows[c] = "open"
       /\ \A c \in 1..n - 1 : cycles'[c].state = cycles[c].state
  BY <1>1, <1>2, <1>5
<1>11. old.at \notin {"edit", "create", "emit"} BY <1>1
<1> QED BY <1>1, <1>3, <1>6, <1>7, <1>8, <1>9, <1>10, <1>11, PlainTidy

\* The answer a move reports is complete, so that its row is not open any more.
LEMMA EmitNowTidy ==
  ASSUME BaseInv, Tidy, ~late, NEW j \in 1..Len(writes), EmitNow(j)
  PROVE  Tidy'
<1> DEFINE n == Len(cycles)
           old == writes[1]
           job == writes'[1]
<1>1. /\ NextWrite(job) /\ HeadAside /\ cycles' = cycles
      /\ old.at = "emit" /\ old.kind = "move" /\ old.c \in 1..n
      /\ job.at = "unreact"
      /\ \A d \in 1..n : d # old.c /\ rows'[d] = "open" => rows[d] = "open"
      /\ rows'[old.c] = "open" =>
           IF cycles[old.c].msg = 0 THEN rows[old.c] = "open" ELSE Live(cycles[old.c])
  BY EmitNowSteps
<1>2. writes # <<>> BY AtHand DEF EmitNow, Here
<1>3. job.kind = "move" BY <1>1 DEF NextWrite
<1>4. Due(old, cycles) BY <1>1, <1>2 DEF Tidy, DueOK
<1>5. rows'[old.c] # "open"
  <2>1. ~Live(cycles[old.c]) BY <1>1, <1>4 DEF Due, Live
  <2>2. rows[old.c] = "open" => cycles[old.c].msg # 0 BY <1>1, OpenHasMessage
  <2> QED BY <1>1, <2>1, <2>2
<1>6. Due(job, cycles') BY <1>1, <1>4 DEF Due, Over1
<1>7. Stopped(job, cycles') BY <1>1, <1>3 DEF Stopped, Closing, Answering
<1>8. Unforked(old) BY <1>1 DEF Unforked
<1>9. \A c \in 1..n : /\ Onward(cycles[c], cycles'[c]) /\ cycles'[c].msg = cycles[c].msg
                      /\ rows'[c] = "open" => rows[c] = "open"
  BY <1>1, <1>5 DEF Onward
<1> HIDE DEF job
<1>10. ~(Live(cycles[n]) /\ ~Live(cycles'[n])) BY <1>1
<1>11. old.at \notin {"edit", "create"} BY <1>1
<1> QED BY <1>1, <1>3, <1>5, <1>6, <1>7, <1>8, <1>9, <1>10, <1>11, PlainTidy

\* The cycle a move starts has no row yet, and the one before it is over.
LEMMA ForkTidy ==
  ASSUME BaseInv, Tidy, ~late, NEW j \in 1..Len(writes), Fork(j)
  PROVE  Tidy'
<1> DEFINE n == Len(cycles)
           old == writes[1]
           job == writes'[1]
<1>1. /\ NextWrite(job) /\ HeadAside /\ old.at = "fork" /\ old.kind = "move"
      /\ job.at = "create" /\ job.c = n + 1
      /\ Len(cycles') = n + 1 /\ \A c \in 1..n : cycles'[c] = cycles[c]
      /\ cycles'[n + 1] = Cycle("transient", 0, {}, FALSE)
      /\ rows'[n + 1] = "none" /\ \A c \in 1..n : rows'[c] = rows[c]
  BY ForkSteps
<1>2. writes # <<>> /\ n \in Nat /\ 1 <= n /\ n \in 1..n /\ Shapes
  BY AtHand DEF Fork, Here
<1>3. job.kind = "move" /\ writes' # <<>> /\ SameChain BY <1>1 DEF NextWrite, SameChain
<1>4. /\ options' = options /\ overtaken' = overtaken /\ chat' = chat /\ outcome' = outcome
  BY <1>1 DEF HeadAside, past
<1>5. cycles'[n + 1].msg = 0 BY <1>1 DEF Cycle
<1>6. \A c \in 1..n + 1 : c \in 1..n \/ c = n + 1 BY <1>2
<1>7. GoneOK'
  <2>1. \A c \in n + 1..Len(cycles') : c = n + 1 BY <1>1, <1>2
  <2>2. \A c \in n + 1..Len(cycles') : cycles'[c].msg = 0 BY <1>5, <2>1
  <2> QED BY <1>1, <1>2, <1>4, <2>2, GoneSame DEF Tidy
<1>8. RecallOK'
  <2> SUFFICES ASSUME NEW c \in 1..n, cycles[c].msg = 0, rows[c] = "open"
               PROVE  FALSE
    BY <1>1, <1>6 DEF RecallOK
  <2> QED BY <1>1, OpenHasMessage
<1>9. OpenOK'
  <2> SUFFICES ASSUME NEW c \in 1..n, rows[c] = "open"
               PROVE  c \in overtaken
    BY <1>1, <1>4, <1>6 DEF OpenOK
  <2>1. c \in overtaken \/ (c = n /\ Live(cycles[c])) \/ ToReport(c) BY DEF Tidy, OpenOK
  <2>2. ~ToReport(c) BY <1>1 DEF ToReport
  <2>3. ASSUME c = n, c \notin overtaken, Live(cycles[n])
        PROVE  FALSE
    <3>1. Over1(cycles[n]) BY <1>1, <1>2, <2>3 DEF Tidy, DueOK, Due
    <3>2. cycles[n].msg # 0 BY <1>1, <2>3, OpenHasMessage
    <3> QED BY <2>3, <3>1, <3>2 DEF Over1, Live
  <2> QED BY <2>1, <2>2, <2>3
<1>10. StopOK'
  <2>1. Stopped(job, cycles') BY <1>1, <1>3 DEF Stopped, Closing, Answering
  <2> QED BY <1>2, <1>3, <1>4, <2>1, StopSame DEF BaseInv
<1>11. SettleOK'
  <2> SUFFICES ASSUME NEW c \in 1..n
               PROVE  c \in overtaken \/ Over1(cycles[c])
    BY <1>1, <1>2, <1>4 DEF SettleOK, Over1
  <2>1. CASE c = n BY <1>1, <1>2, <2>1 DEF Tidy, DueOK, Due
  <2>2. CASE c # n
    <3>1. c \in 1..n - 1 BY <1>2, <2>2
    <3> QED BY <3>1 DEF Tidy, SettleOK
  <2> QED BY <2>1, <2>2
<1>12. DueOK' BY <1>1 DEF DueOK, Due
<1>13. NewOK'
  <2>1. ~Unforked(job) BY <1>1 DEF Unforked
  <2>2. 1 \in 1..Len(writes') BY <1>2, <1>3 DEF SameChain, Shapes
  <2>3. \A i \in 1..1 : ~Unforked(writes'[i]) BY <2>1
  <2>4. writes'[1].at = "create" /\ writes'[1].c = Len(cycles') BY <1>1
  <2>5. \E i \in 1..Len(writes') : Creating(i, Len(cycles))' BY <2>2, <2>3, <2>4 DEF Creating
  <2> QED BY <2>5 DEF NewOK
<1> QED BY <1>7, <1>8, <1>9, <1>10, <1>11, <1>12, <1>13 DEF Tidy

\* A silent end says where it goes on; at most the working message is changed.
LEMMA SilenceTidy ==
  ASSUME BaseInv, Tidy, ~late, NEW j \in 1..Len(writes), Conclude(j), writes[1].result = "silent"
  PROVE  Tidy'
<1> DEFINE n == Len(cycles)
           old == writes[1]
           job == writes'[1]
<1>1. HeadAside /\ rows' = rows /\ old.at = "conclude" /\ old.kind = "finish" /\ j = 1
  BY ConcludeBase
<1>2. Here(j, "conclude") /\ OnlyJobs /\ Silence(j) BY <1>1 DEF Conclude
<1>3. /\ NextWrite(job) /\ Len(cycles') = n
      /\ \/ cycles' = cycles /\ job.at = "remove"
         \/ cycles' = cycles /\ job.at = "silence"
         \/ /\ cycles[n].state # "text" /\ cycles'[n] = Blank(cycles[n])
            /\ \A d \in 1..n : d # n => cycles'[d] = cycles[d]
            /\ job.at = "edit"
         \/ cycles' = cycles /\ job.at = "over" /\ job.c = 0
  BY <1>1, <1>2, SilenceSteps
<1>4. Shapes /\ n \in Nat /\ 1 <= n /\ n \in 1..n BY <1>2, AtHand DEF Here
<1>5. job.kind = "finish" /\ job.result = "silent" BY <1>1, <1>3 DEF NextWrite
<1>6. ASSUME NEW c \in 1..n
      PROVE  /\ Onward(cycles[c], cycles'[c]) /\ cycles'[c].msg = cycles[c].msg
             /\ Live(cycles'[c]) = Live(cycles[c])
             /\ c # n => cycles'[c].state = cycles[c].state
  <2>1. CASE cycles'[c] = cycles[c] BY <2>1 DEF Onward
  <2>2. CASE c = n /\ cycles[n].state # "text" /\ cycles'[n] = Blank(cycles[n])
    <3>1. cycles[n] \in OutputCycle BY <1>4 DEF Shapes
    <3>2. cycles[n].part \in Nat /\ cycles[n].text \in SUBSET Nat BY <3>1, CycleTypes
    <3> QED BY <2>2, <3>1, <3>2, ChangedCycle DEF Blank, Onward, Live
  <2> QED BY <1>3, <2>1, <2>2
<1>7. Stopped(job, cycles') BY <1>3, <1>4, <1>5 DEF Stopped, Closing, Answering
<1> HIDE DEF job
<1>8. /\ \A c \in 1..n : /\ Onward(cycles[c], cycles'[c]) /\ cycles'[c].msg = cycles[c].msg
                         /\ rows'[c] = "open" => rows[c] = "open"
      /\ \A c \in 1..n - 1 : cycles'[c].state = cycles[c].state
      /\ ~(Live(cycles[n]) /\ ~Live(cycles'[n]))
  BY <1>1, <1>4, <1>6
<1>9. old.at \notin {"edit", "create", "emit"} /\ old.kind # "move" /\ job.kind # "move"
  BY <1>1, <1>5
<1> QED BY <1>1, <1>3, <1>7, <1>8, <1>9, PlainTidy

\* An answer leaves the cycles with the texts it stands for; one that it deletes has no message.
LEMMA AnswerTidy ==
  ASSUME BaseInv, Tidy, ~late, NEW j \in 1..Len(writes), Conclude(j), writes[1].result # "silent"
  PROVE  Tidy'
<1> DEFINE n == Len(cycles)
           old == writes[1]
           job == writes'[1]
           terminal == Terminal(old.result)
<1>1. HeadAside /\ rows' = rows /\ old.at = "conclude" /\ old.kind = "finish" /\ j = 1
  BY ConcludeBase
<1>2. Here(j, "conclude") /\ OnlyJobs /\ Answer(j) BY <1>1 DEF Conclude
<1>3. /\ NextWrite(job) /\ Len(cycles') = n /\ job.at \in {"delete", "complete"}
      /\ \/ cycles' = cycles
         \/ /\ cycles[n].state # "text" /\ (cycles[n].msg = 0 \/ cycles[n].deleted)
            /\ cycles'[n] = [cycles[n] EXCEPT !.deleted = TRUE]
            /\ \A d \in 1..n : d # n => cycles'[d] = cycles[d]
         \/ /\ cycles[n].state # "text"
            /\ \E tail \in SUBSET Nat : cycles'[n] = Saying(cycles[n], tail)
            /\ \A d \in 1..n : d # n => cycles'[d] = cycles[d]
         \/ /\ cycles[n].state = "text"
            /\ \A c \in 1..n : cycles'[c] = IF c \in Amended(terminal, TextOf(Texts))
                                            THEN Saying(cycles[c], terminal) ELSE cycles[c]
  <2>1. /\ NextWrite(job) /\ Len(cycles') = n
        /\ \/ cycles' = cycles /\ job.at = "delete"
           \/ /\ cycles[n].state # "text" /\ (cycles[n].msg = 0 \/ cycles[n].deleted)
              /\ cycles'[n] = [cycles[n] EXCEPT !.deleted = TRUE]
              /\ \A d \in 1..n : d # n => cycles'[d] = cycles[d]
              /\ job.at = "complete"
           \/ /\ cycles[n].state # "text"
              /\ \E tail \in SUBSET Nat : cycles'[n] = Saying(cycles[n], tail)
              /\ \A d \in 1..n : d # n => cycles'[d] = cycles[d]
              /\ job.at = "complete"
           \/ /\ cycles[n].state = "text"
              /\ \A c \in 1..n : cycles'[c] = IF c \in Amended(terminal, TextOf(Texts))
                                              THEN Saying(cycles[c], terminal) ELSE cycles[c]
              /\ job.at = "complete"
    BY <1>1, <1>2, AnswerSteps
  <2> QED BY <2>1
<1>4. /\ ProjTypeOK /\ Shapes /\ n \in Nat /\ 1 <= n /\ n \in 1..n /\ writes # <<>>
  BY <1>2, AtHand DEF Here
<1>5. job.kind = "finish" /\ job.result # "silent" BY <1>1, <1>3 DEF NextWrite
<1>6. terminal \in SUBSET Nat BY <1>4, TerminalType
<1> HIDE DEF terminal
<1>7. ASSUME NEW c \in 1..n, NEW text \in SUBSET Nat, cycles'[c] = Saying(cycles[c], text)
      PROVE  /\ Onward(cycles[c], cycles'[c]) /\ cycles'[c].msg = cycles[c].msg
             /\ Live(cycles'[c]) = Live(cycles[c]) /\ cycles'[c].state = "text"
  <2>1. cycles[c] \in OutputCycle BY <1>4 DEF Shapes
  <2>2. cycles[c].part \in Nat BY <2>1, CycleTypes
  <2> QED BY <1>7, <2>1, <2>2, ChangedCycle DEF Saying, Onward, Live
<1>8. ASSUME NEW c \in 1..n
      PROVE  /\ Onward(cycles[c], cycles'[c]) /\ cycles'[c].msg = cycles[c].msg
             /\ rows'[c] = "open" /\ Live(cycles[c]) => Live(cycles'[c])
             /\ c # n => cycles'[c].state = cycles[c].state
  <2>1. CASE cycles'[c] = cycles[c] BY <2>1 DEF Onward
  <2>2. CASE /\ c = n /\ (cycles[n].msg = 0 \/ cycles[n].deleted)
             /\ cycles'[n] = [cycles[n] EXCEPT !.deleted = TRUE]
    <3>1. cycles[n] \in OutputCycle BY <1>4 DEF Shapes
    <3>2. rows[n] = "open" => cycles[n].msg # 0 BY <1>1, <1>4, OpenHasMessage
    <3>3. Onward(cycles[n], cycles'[n]) /\ cycles'[n].msg = cycles[n].msg
      BY <2>2, <3>1, Marked DEF Onward
    <3> QED BY <1>1, <2>2, <3>2, <3>3 DEF Live
  <2>3. CASE c = n /\ \E tail \in SUBSET Nat : cycles'[n] = Saying(cycles[n], tail)
    BY <1>7, <2>3
  <2>4. CASE /\ cycles[n].state = "text" /\ c \in Amended(terminal, TextOf(Texts))
             /\ cycles'[c] = Saying(cycles[c], terminal)
    <3>1. c = n \/ c \in Texts BY <2>4 DEF Amended, active
    <3>2. cycles[c].state = "text" BY <2>4, <3>1 DEF Texts
    <3> QED BY <1>6, <1>7, <2>4, <3>2
  <2> QED BY <1>3, <2>1, <2>2, <2>3, <2>4
<1>9. Stopped(job, cycles') BY <1>3 DEF Stopped
<1> HIDE DEF job
<1>10. /\ \A c \in 1..n : /\ Onward(cycles[c], cycles'[c]) /\ cycles'[c].msg = cycles[c].msg
                          /\ rows'[c] = "open" => rows[c] = "open"
       /\ \A c \in 1..n - 1 : cycles'[c].state = cycles[c].state
       /\ ~(rows'[n] = "open" /\ Live(cycles[n]) /\ ~Live(cycles'[n]))
  BY <1>1, <1>4, <1>8
<1>11. old.at \notin {"edit", "create", "emit"} /\ old.kind # "move" /\ job.kind # "move"
  BY <1>1, <1>5
<1> QED BY <1>1, <1>3, <1>9, <1>10, <1>11, PlainTidy

\* A write that ends the run goes on and touches nothing else.
LEMMA SameTidy ==
  ASSUME BaseInv, Tidy, ~late, NEW job, NextWrite(job), HeadAside, cycles' = cycles, rows' = rows,
         writes[1].at \notin {"edit", "create", "emit"}, writes[1].kind # "move",
         Stopped(job, cycles')
  PROVE  Tidy'
<1>1. job.kind # "move" BY DEF NextWrite
<1>2. \A c \in 1..Len(cycles) : Onward(cycles[c], cycles'[c]) BY DEF Onward
<1> QED BY <1>1, <1>2, PlainTidy

\* A write that ends the run marks a cycle and reports it: its row is not open any more.
LEMMA MarkTidy ==
  ASSUME BaseInv, Tidy, ~late, NEW job, NextWrite(job), HeadAside, Len(cycles') = Len(cycles),
         NEW m \in 1..Len(cycles),
         \/ cycles'[m] = [cycles[m] EXCEPT !.completed = TRUE]
         \/ cycles'[m] = [cycles[m] EXCEPT !.failed = TRUE],
         \A d \in 1..Len(cycles) : d # m => cycles'[d] = cycles[d],
         \A d \in 1..Len(cycles) : d # m /\ rows'[d] = "open" => rows[d] = "open",
         rows'[m] = "open" => cycles[m].msg = 0 /\ rows[m] = "open",
         writes[1].at \notin {"edit", "create", "emit"}, writes[1].kind # "move",
         Stopped(job, cycles')
  PROVE  Tidy'
<1> DEFINE n == Len(cycles)
<1>1. Shapes /\ n \in Nat /\ 1 <= n BY ProjShapes DEF BaseInv, Shapes
<1>2. cycles[m] \in OutputCycle BY <1>1 DEF Shapes
<1>3. rows'[m] # "open"
  <2>1. rows[m] = "open" => cycles[m].msg # 0 BY OpenHasMessage
  <2> QED BY <2>1
<1>4. ASSUME NEW c \in 1..n
      PROVE  /\ Onward(cycles[c], cycles'[c]) /\ cycles'[c].msg = cycles[c].msg
             /\ cycles'[c].state = cycles[c].state
             /\ rows'[c] = "open" => rows[c] = "open" /\ cycles'[c] = cycles[c]
  <2>1. CASE c # m BY <2>1 DEF Onward
  <2>2. CASE c = m BY <1>2, <1>3, <2>2, Marked DEF Onward
  <2> QED BY <2>1, <2>2
<1>5. /\ \A c \in 1..n : /\ Onward(cycles[c], cycles'[c]) /\ cycles'[c].msg = cycles[c].msg
                         /\ rows'[c] = "open" => rows[c] = "open"
      /\ \A c \in 1..n - 1 : cycles'[c].state = cycles[c].state
      /\ ~(rows'[n] = "open" /\ Live(cycles[n]) /\ ~Live(cycles'[n]))
  BY <1>1, <1>4
<1>6. job.kind # "move" BY DEF NextWrite
<1> QED BY <1>5, <1>6, PlainTidy

\* The loop that deletes messages keeps the rows tidy.
LEMMA SweepTidy ==
  ASSUME BaseInv, Tidy, ~late, NEW j \in 1..Len(writes), Sweep(j)
  PROVE  Tidy'
<1> DEFINE job == writes'[1]
<1>1. /\ NextWrite(job) /\ HeadAside /\ cycles' = cycles /\ rows' = rows
      /\ writes[1].at \in {"remove", "spare", "keep"}
      /\ writes[1].kind = "finish" /\ writes[1].result = "silent"
      /\ job.at = "delete" \/ (job.at = "over" /\ job.c = 0)
  BY SweepSteps
<1>2. Len(cycles) \in Nat /\ 1 <= Len(cycles) BY ProjShapes DEF BaseInv, Shapes
<1>3. Stopped(job, cycles') BY <1>1, <1>2 DEF Stopped
<1> HIDE DEF job
<1> QED BY <1>1, <1>3, SameTidy

\* The cycles of a silent run are over, the last of them when the loop ends.
LEMMA OverTidy ==
  ASSUME BaseInv, Tidy, ~late, NEW j \in 1..Len(writes), Over(j)
  PROVE  Tidy'
<1> DEFINE n == Len(cycles)
           old == writes[1]
           job == writes'[1]
<1>1. /\ NextWrite(job) /\ HeadAside /\ Len(cycles') = n
      /\ old.at = "over" /\ old.kind = "finish" /\ old.result = "silent"
  BY OverSteps
<1>2. \/ LET c == job.c IN
         /\ job.at = "over" /\ c \in 1..n
         /\ cycles'[c] = [cycles[c] EXCEPT !.completed = TRUE]
         /\ \A d \in 1..n : d # c => cycles'[d] = cycles[d]
         /\ \A d \in 1..n : d # c /\ rows'[d] = "open" => rows[d] = "open"
         /\ rows'[c] = "open" => cycles[c].msg = 0 /\ rows[c] = "open"
      \/ /\ cycles' = cycles /\ rows' = rows /\ job.at = "end"
         /\ cycles[n].deleted \/ old.c >= n
  BY OverSteps
<1>3. writes # <<>> /\ Shapes /\ n \in Nat /\ 1 <= n BY AtHand DEF Over, Here
<1>4. job.kind = "finish" /\ job.result = "silent" BY <1>1 DEF NextWrite
<1>5. old.at \notin {"edit", "create", "emit"} /\ old.kind # "move" BY <1>1
<1>6. CASE job.at = "over"
  <2>1. PICK c \in 1..n : /\ c = job.c /\ cycles'[c] = [cycles[c] EXCEPT !.completed = TRUE]
                          /\ \A d \in 1..n : d # c => cycles'[d] = cycles[d]
                          /\ \A d \in 1..n : d # c /\ rows'[d] = "open" => rows[d] = "open"
                          /\ rows'[c] = "open" => cycles[c].msg = 0 /\ rows[c] = "open"
    BY <1>2, <1>6
  <2>2. cycles'[c].completed
    <3>1. cycles[c] \in OutputCycle BY <1>3 DEF Shapes
    <3> QED BY <2>1, <3>1 DEF OutputCycle
  <2>3. c >= n => ~Live(cycles'[n])
    <3>1. c >= n => c = n BY <1>3
    <3> QED BY <2>2, <3>1 DEF Live
  <2>4. Stopped(job, cycles') BY <1>1, <1>4, <1>6, <2>1, <2>3 DEF Stopped, Answering
  <2> HIDE DEF job
  <2> QED BY <1>1, <1>5, <2>1, <2>4, MarkTidy
<1>7. CASE job.at # "over"
  <2>1. cycles' = cycles /\ rows' = rows /\ job.at = "end" /\ (cycles[n].deleted \/ old.c >= n)
    BY <1>2, <1>7
  <2>2. Stopped(old, cycles) BY <1>3 DEF Tidy, StopOK
  <2>3. ~Live(cycles[n]) BY <1>1, <2>1, <2>2 DEF Stopped, Live
  <2>4. Stopped(job, cycles') BY <1>4, <2>1, <2>3 DEF Stopped
  <2> HIDE DEF job
  <2> QED BY <1>1, <1>5, <2>1, <2>4, SameTidy
<1> QED BY <1>6, <1>7

\* The active cycle is over before the texts are written out.
LEMMA CompleteTidy ==
  ASSUME BaseInv, Tidy, ~late, NEW j \in 1..Len(writes), Complete(j)
  PROVE  Tidy'
<1> DEFINE n == Len(cycles)
           job == writes'[1]
<1>1. /\ NextWrite(job) /\ HeadAside /\ Len(cycles') = n
      /\ writes[1].at = "complete" /\ Answering(writes[1])
      /\ job.at = "rewrite"
      /\ cycles'[n] = [cycles[n] EXCEPT !.completed = TRUE]
      /\ \A d \in 1..n : d # n => cycles'[d] = cycles[d]
      /\ \A d \in 1..n : d # n /\ rows'[d] = "open" => rows[d] = "open"
      /\ rows'[n] = "open" => cycles[n].msg = 0 /\ rows[n] = "open"
  BY CompleteSteps
<1>2. Shapes /\ n \in 1..n BY AtHand DEF Complete, Here
<1>3. cycles[n] \in OutputCycle BY <1>2 DEF Shapes
<1>4. cycles'[n].completed BY <1>1, <1>3 DEF OutputCycle
<1>5. Stopped(job, cycles') BY <1>1, <1>4 DEF Stopped, Live
<1>6. writes[1].at \notin {"edit", "create", "emit"} /\ writes[1].kind # "move"
  BY <1>1 DEF Answering
<1> HIDE DEF job
<1> QED BY <1>1, <1>2, <1>5, <1>6, MarkTidy

\* The loop that writes out the texts keeps the rows tidy.
LEMMA RewriteTidy ==
  ASSUME BaseInv, Tidy, ~late, NEW j \in 1..Len(writes), Rewrite(j)
  PROVE  Tidy'
<1> DEFINE job == writes'[1]
<1>1. /\ NextWrite(job) /\ HeadAside /\ cycles' = cycles /\ rows' = rows
      /\ writes[1].at = "rewrite" /\ Answering(writes[1])
      /\ job.at \in {"edit", "end"}
  BY RewriteSteps
<1>2. writes # <<>> BY AtHand DEF Rewrite, Here
<1>3. ~Live(cycles[Len(cycles)])
  <2>1. Stopped(writes[1], cycles) BY <1>2 DEF Tidy, StopOK
  <2> QED BY <1>1, <2>1 DEF Stopped, Closing, Answering
<1>4. Stopped(job, cycles') BY <1>1, <1>3 DEF Stopped
<1>5. writes[1].at \notin {"edit", "create", "emit"} /\ writes[1].kind # "move"
  BY <1>1 DEF Answering
<1> HIDE DEF job
<1> QED BY <1>1, <1>4, <1>5, SameTidy

\* Writing the words so far keeps the rows tidy.
LEMMA WordsTidy ==
  ASSUME BaseInv, Tidy, ~late, NEW j \in 1..Len(writes), Words(j)
  PROVE  Tidy'
<1> DEFINE job == writes'[1]
<1>1. /\ NextWrite(job) /\ HeadAside /\ cycles' = cycles /\ rows' = rows
      /\ writes[1].at = "words" /\ writes[1].kind = "fail"
      /\ job.at \in {"edit", "notice"}
  BY WordsSteps
<1>2. job.kind = "fail" BY <1>1 DEF NextWrite
<1>3. Stopped(job, cycles') BY <1>1, <1>2 DEF Stopped, Answering
<1>4. writes[1].at \notin {"edit", "create", "emit"} /\ writes[1].kind # "move" BY <1>1
<1> HIDE DEF job
<1> QED BY <1>1, <1>3, <1>4, SameTidy

\* The notice is shown by the working message, or the answer is complete and it gets its own.
LEMMA NoticeTidy ==
  ASSUME BaseInv, Tidy, ~late, NEW j \in 1..Len(writes), Notice(j)
  PROVE  Tidy'
<1> DEFINE n == Len(cycles)
           job == writes'[1]
<1>1. /\ NextWrite(job) /\ HeadAside /\ Len(cycles') = n
      /\ writes[1].at = "notice" /\ writes[1].kind = "fail"
      /\ \A d \in 1..n : d # n => cycles'[d] = cycles[d]
      /\ \/ /\ cycles[n].state # "text" /\ ~cycles[n].deleted /\ rows' = rows
            /\ cycles'[n] = Blank(cycles[n]) /\ job.at = "edit"
         \/ /\ cycles[n].state = "text" \/ cycles[n].deleted
            /\ cycles'[n] = [cycles[n] EXCEPT !.completed = TRUE]
            /\ \A d \in 1..n : d # n /\ rows'[d] = "open" => rows[d] = "open"
            /\ rows'[n] = "open" => cycles[n].msg = 0 /\ rows[n] = "open"
            /\ job.at = "post"
  BY NoticeSteps
<1>2. Shapes /\ n \in 1..n /\ n \in Nat /\ 1 <= n BY AtHand DEF Notice, Here
<1>3. job.kind = "fail" BY <1>1 DEF NextWrite
<1>4. writes[1].at \notin {"edit", "create", "emit"} /\ writes[1].kind # "move" BY <1>1
<1>5. cycles[n] \in OutputCycle BY <1>2 DEF Shapes
<1>6. CASE job.at = "edit"
  <2>1. cycles[n].state # "text" /\ cycles'[n] = Blank(cycles[n]) /\ rows' = rows BY <1>1, <1>6
  <2>2. cycles[n].part \in Nat /\ cycles[n].text \in SUBSET Nat BY <1>5, CycleTypes
  <2>3. /\ Onward(cycles[n], cycles'[n]) /\ cycles'[n].msg = cycles[n].msg
        /\ Live(cycles'[n]) = Live(cycles[n])
    BY <1>5, <2>1, <2>2, ChangedCycle DEF Blank, Onward, Live
  <2>4. Stopped(job, cycles') BY <1>3, <1>6 DEF Stopped, Answering
  <2>5. ASSUME NEW c \in 1..n
        PROVE  /\ Onward(cycles[c], cycles'[c]) /\ cycles'[c].msg = cycles[c].msg
               /\ c # n => cycles'[c].state = cycles[c].state
    <3>1. CASE c = n BY <2>3, <3>1
    <3>2. CASE c # n BY <1>1, <3>2 DEF Onward
    <3> QED BY <3>1, <3>2
  <2> HIDE DEF job
  <2>6. /\ \A c \in 1..n : /\ Onward(cycles[c], cycles'[c]) /\ cycles'[c].msg = cycles[c].msg
                           /\ rows'[c] = "open" => rows[c] = "open"
        /\ \A c \in 1..n - 1 : cycles'[c].state = cycles[c].state
        /\ ~(Live(cycles[n]) /\ ~Live(cycles'[n]))
    BY <1>2, <2>1, <2>3, <2>5
  <2>7. job.kind # "move" BY <1>3
  <2> QED BY <1>1, <1>4, <2>4, <2>6, <2>7, PlainTidy
<1>7. CASE job.at # "edit"
  <2>1. /\ cycles[n].state = "text" \/ cycles[n].deleted
        /\ cycles'[n] = [cycles[n] EXCEPT !.completed = TRUE]
        /\ \A d \in 1..n : d # n /\ rows'[d] = "open" => rows[d] = "open"
        /\ rows'[n] = "open" => cycles[n].msg = 0 /\ rows[n] = "open"
        /\ job.at = "post"
    BY <1>1, <1>7
  <2>2. /\ cycles'[n].completed /\ cycles'[n].state = cycles[n].state
        /\ cycles'[n].deleted = cycles[n].deleted
    BY <1>5, <2>1 DEF OutputCycle
  <2>3. Stopped(job, cycles') BY <1>1, <1>3, <2>1, <2>2 DEF Stopped, Answering
  <2> HIDE DEF job
  <2> QED BY <1>1, <1>2, <1>4, <2>1, <2>3, MarkTidy
<1> QED BY <1>6, <1>7

\* A failed run ends with its active cycle failed.
LEMMA FailedTidy ==
  ASSUME BaseInv, Tidy, ~late, NEW j \in 1..Len(writes), Failed(j)
  PROVE  Tidy'
<1> DEFINE n == Len(cycles)
           job == writes'[1]
<1>1. /\ NextWrite(job) /\ HeadAside /\ Len(cycles') = n
      /\ writes[1].at = "failed" /\ writes[1].kind = "fail"
      /\ job.at = "end"
      /\ cycles'[n] = [cycles[n] EXCEPT !.failed = TRUE]
      /\ \A d \in 1..n : d # n => cycles'[d] = cycles[d]
      /\ \A d \in 1..n : d # n /\ rows'[d] = "open" => rows[d] = "open"
      /\ rows'[n] = "open" => cycles[n].msg = 0 /\ rows[n] = "open"
  BY FailedSteps
<1>2. Shapes /\ n \in 1..n BY AtHand DEF Failed, Here
<1>3. cycles[n] \in OutputCycle BY <1>2 DEF Shapes
<1>4. cycles'[n].failed BY <1>1, <1>3 DEF OutputCycle
<1>5. Stopped(job, cycles') BY <1>1, <1>4 DEF Stopped, Live
<1>6. writes[1].at \notin {"edit", "create", "emit"} /\ writes[1].kind # "move" BY <1>1
<1> HIDE DEF job
<1> QED BY <1>1, <1>2, <1>5, <1>6, MarkTidy

\* Where a write goes on after a reply: a move from the cycle it is about to the next one, and no
\* write ends the run before its active cycle is over.
LEMMA LandGoesOn ==
  ASSUME NEW old \in QueuedWrite, StepsOK(old), CallsFit(old),
         old.call.op \notin {"none", "recall"},
         NEW job, job.kind = old.kind, job.result = old.result, job.at = Following(old),
         NEW cs, NEW ds, Len(ds) = Len(cs), Stopped(old, cs),
         Live(ds[Len(cs)]) => Live(cs[Len(cs)])
  PROVE  /\ Stopped(job, ds) /\ (~Unforked(old) => ~Unforked(job))
         /\ job.at \notin {"edit", "create", "delete", "post"}
         /\ job.at = "emit" => old.at = "edit"
         /\ old.kind = "move" =>
              /\ job.at = "unreact" => old.at = "delete"
              /\ job.at = "fork" => old.at = "unreact"
              /\ old.at = "edit" => job.at = "emit"
<1>1. /\ old.kind \in {"flush", "create", "move", "finish", "fail"}
      /\ old.at \in {"edit", "create", "unreact", "react", "delete", "silence", "post"}
  BY WriteTypes DEF CallsFit
<1>2. job.at \notin {"edit", "create", "delete", "post", "over"}
  BY <1>1 DEF StepsOK, Following
<1>3. Closing(old) /\ job.at \in {"end", "rewrite"} => Answering(old) /\ old.at = "edit"
  BY <1>1 DEF StepsOK, Following, Closing, Answering
<1>4. Stopped(job, ds)
  <2>1. Closing(job) = Closing(old) /\ Answering(job) = Answering(old) BY DEF Closing, Answering
  <2> QED BY <1>2, <1>3, <2>1 DEF Stopped
<1>5. /\ job.at = "emit" => old.at = "edit"
      /\ old.kind = "move" =>
           /\ job.at = "unreact" => old.at = "delete"
           /\ job.at = "fork" => old.at = "unreact"
           /\ old.at = "edit" => job.at = "emit"
           /\ job.at # "previous"
  BY <1>1 DEF StepsOK, Following
<1>6. ~Unforked(old) => ~Unforked(job) BY <1>1, <1>2, <1>5 DEF Unforked
<1> QED BY <1>2, <1>4, <1>5, <1>6

\* A reply keeps the rows tidy if it keeps the parts that are about messages.
LEMMA LandTidy ==
  ASSUME BaseInv, Tidy, ~late, NEW job, NextWrite(job), LandAside, Len(cycles') = Len(cycles),
         GoneOK', RecallOK', OpenOK',
         \A c \in 1..Len(cycles) :
            /\ Onward(cycles[c], cycles'[c]) /\ cycles'[c].state = cycles[c].state
            /\ \/ cycles'[c].msg = cycles[c].msg \/ cycles[c].state = "text"
               \/ cycles[c].msg = 0 /\ cycles'[c].msg # 0 /\ (c = Len(cycles) \/ options.streaming),
         ~Unforked(writes[1]) => ~Unforked(job),
         writes[1].at = "create" /\ writes[1].c = Len(cycles) =>
           cycles'[Len(cycles)].msg # 0,
         Stopped(job, cycles'), job.kind = "move" => Due(job, cycles')
  PROVE  Tidy'
<1> DEFINE n == Len(cycles)
<1>1. Shapes /\ EndOK BY ProjShapes DEF BaseInv
<1>2. /\ SameChain /\ job = writes'[1] /\ options' = options /\ outcome' = outcome
      /\ overtaken' = overtaken /\ writes' # <<>> /\ n \in Nat /\ 1 <= n /\ n \in 1..n
  BY <1>1 DEF NextWrite, LandAside, past, SameChain, Shapes
<1>3. StopOK' BY <1>1, <1>2, StopSame
<1>4. SettleOK'
  <2>1. ASSUME NEW c \in 1..n - 1
        PROVE  /\ Onward(cycles[c], cycles'[c]) /\ cycles'[c].state = cycles[c].state
               /\ cycles'[c].msg = cycles[c].msg \/ cycles[c].state = "text" \/ options.streaming
    <3>1. c \in 1..n /\ c # n BY <1>2
    <3> QED BY <3>1
  <2> QED BY <1>1, <1>2, <2>1, SettleSame DEF Tidy
<1>5. DueOK' BY <1>2 DEF DueOK, Due, Over1
<1>6. NewOK'
  <2>1. Awaited(n)' => Awaited(n) BY <1>2 DEF Awaited, Onward
  <2>2. Awaited(n)' /\ writes[1].at = "create" /\ writes[1].c = n => FALSE BY <1>2 DEF Awaited
  <2>3. NewOK BY DEF Tidy
  <2> QED BY <1>1, <1>2, <2>1, <2>2, <2>3, NewSame
<1> QED BY <1>3, <1>4, <1>5, <1>6 DEF Tidy

\* The reply of an edit: what is shown is no other cycle's, and a move goes on to report it.
LEMMA LandEditTidy ==
  ASSUME BaseInv, Tidy, ~late, NEW j \in 1..Len(writes), Land(j), writes[1].call.op = "edit"
  PROVE  Tidy'
<1> DEFINE n == Len(cycles)
           old == writes[1]
           job == writes'[1]
           m == old.call.msg
<1>1. /\ cycles' = cycles /\ rows' = rows /\ old.at = "edit" /\ old.c \in 1..n
      /\ Len(chat') = Len(chat) /\ m = cycles[old.c].msg /\ m \in 1..Len(chat)
      /\ chat'[m] = [chat[m] EXCEPT !.ver = old.call.ver]
      /\ \A k \in 1..Len(chat) : k # m => chat'[k] = chat[k]
      /\ job.c = old.c
  BY LandEdit
<1>2. /\ NextWrite(job) /\ LandAside /\ old \in QueuedWrite /\ StepsOK(old) /\ CallsFit(old)
      /\ job.kind = old.kind /\ job.result = old.result /\ job.at = Following(old) /\ Shapes
      /\ writes # <<>> /\ n \in Nat
  BY LandAtHand
<1>3. Stopped(old, cycles) /\ (old.kind = "move" => Due(old, cycles))
  BY <1>2 DEF Tidy, StopOK, DueOK
<1>4. old.call.op \notin {"none", "recall"} OBVIOUS
<1> HIDE DEF job
<1>5. /\ Stopped(job, cycles) /\ (~Unforked(old) => ~Unforked(job))
      /\ job.at \notin {"edit", "create", "delete", "post"}
      /\ (job.at = "emit" => old.at = "edit")
      /\ old.kind = "move" =>
           /\ job.at = "unreact" => old.at = "delete"
           /\ job.at = "fork" => old.at = "unreact"
           /\ old.at = "edit" => job.at = "emit"
  BY <1>2, <1>3, <1>4, LandGoesOn
<1>6. GoneOK'
  <2>1. ASSUME NEW k \in 1..Len(chat), chat'[k].as = "gone"
        PROVE  chat[k].as = "gone"
    <3>1. chat[m] \in Message BY <1>1, <1>2 DEF Shapes
    <3> QED BY <1>1, <2>1, <3>1 DEF Message
  <2>2. \A c \in n + 1..Len(cycles') : cycles'[c].msg = 0 BY <1>1, <1>2
  <2> QED BY <1>1, <1>2, <2>1, <2>2, GoneSame DEF Tidy
<1>7. \A c \in 1..n : AtRecall(c) => cycles[c].msg # 0 BY <1>1 DEF AtRecall
<1>8. RecallOK' BY <1>1, <1>7 DEF Tidy, RecallOK
<1>9. OpenOK'
  <2> SUFFICES ASSUME NEW c \in 1..n, ToReport(c)
               PROVE  ToReport(c)'
    BY <1>1, <1>2 DEF Tidy, OpenOK, LandAside, past
  <2>1. c = old.c /\ cycles[c].msg # 0 BY <1>1 DEF ToReport
  <2>2. old.kind = "move" BY <2>1 DEF ToReport
  <2>3. job.at = "emit" /\ job.kind = "move" BY <1>1, <1>2, <1>5, <2>2
  <2>4. writes' # <<>> /\ job = writes'[1] BY <1>2 DEF NextWrite, SameChain
  <2> QED BY <1>1, <2>1, <2>3, <2>4 DEF ToReport
<1>10. job.kind = "move" => Due(job, cycles') BY <1>1, <1>2, <1>3, <1>5 DEF Due
<1>11. \A c \in 1..n : Onward(cycles[c], cycles'[c]) /\ cycles'[c] = cycles[c]
  BY <1>1 DEF Onward
<1>12. old.at # "create" BY <1>1
<1> QED BY <1>1, <1>2, <1>5, <1>6, <1>8, <1>9, <1>10, <1>11, <1>12, LandTidy

\* The reply that brings a message: its row is open while its cycle is the active one.
LEMMA LandCreateTidy ==
  ASSUME BaseInv, Tidy, ~late, NEW j \in 1..Len(writes), Land(j), writes[1].call.op = "create"
  PROVE  Tidy'
<1> DEFINE n == Len(cycles)
           old == writes[1]
           job == writes'[1]
           c == old.c
<1>1. /\ old.at \in {"create", "edit"} /\ c \in 1..n
      /\ cycles[c].msg = 0 /\ ~cycles[c].deleted
      /\ cycles'[c] = [cycles[c] EXCEPT !.msg = Len(chat) + 1]
      /\ Len(cycles') = n /\ \A d \in 1..n : d # c => cycles'[d] = cycles[d]
      /\ \A d \in 1..n : d # c /\ rows'[d] = "open" => rows[d] = "open"
      /\ rows'[c] = "open" => Live(cycles'[c])
      /\ chat'[Len(chat) + 1] = [cycle |-> c, ver |-> old.call.ver, as |-> "own"]
      /\ Len(chat') = Len(chat) + 1 /\ \A k \in 1..Len(chat) : chat'[k] = chat[k]
      /\ job.c = c
  BY LandCreate
<1>2. /\ NextWrite(job) /\ LandAside /\ old \in QueuedWrite /\ StepsOK(old) /\ CallsFit(old)
      /\ job.kind = old.kind /\ job.result = old.result /\ job.at = Following(old) /\ Shapes
      /\ writes # <<>> /\ n \in Nat /\ n \in 1..n /\ Len(chat) \in Nat
      /\ Place(old, cycles) /\ WriteOK(old, n, closed, options.streaming)
      /\ old.kind \in {"flush", "create", "move", "finish", "fail"}
  BY LandAtHand
<1>3. Stopped(old, cycles) /\ (old.kind = "move" => Due(old, cycles))
  BY <1>2 DEF Tidy, StopOK, DueOK
<1>4. old.call.op \notin {"none", "recall"} OBVIOUS
<1>5. cycles[c] \in OutputCycle BY <1>1, <1>2 DEF Shapes
<1>6. /\ cycles'[c].msg = Len(chat) + 1 /\ cycles'[c].state = cycles[c].state
      /\ Onward(cycles[c], cycles'[c]) /\ (Live(cycles'[c]) => Live(cycles[c]))
      /\ cycles'[c].completed = cycles[c].completed
  BY <1>1, <1>5 DEF OutputCycle, Onward, Live
<1>7. c = n \/ cycles[c].state = "text" \/ options.streaming
  BY <1>1, <1>2 DEF Place, WriteOK, StepsOK
<1>8. Live(cycles'[n]) => Live(cycles[n])
  <2>1. CASE c = n BY <1>6, <2>1
  <2>2. CASE c # n BY <1>1, <1>2, <2>2
  <2> QED BY <2>1, <2>2
<1> HIDE DEF job
<1>9. /\ Stopped(job, cycles') /\ (~Unforked(old) => ~Unforked(job))
      /\ job.at \notin {"edit", "create", "delete", "post"}
      /\ (job.at = "emit" => old.at = "edit")
      /\ old.kind = "move" =>
           /\ job.at = "unreact" => old.at = "delete"
           /\ job.at = "fork" => old.at = "unreact"
           /\ old.at = "edit" => job.at = "emit"
  <2>1. Len(cycles') = n BY <1>1
  <2> QED BY <1>2, <1>3, <1>4, <1>8, <2>1, LandGoesOn
<1>10. GoneOK'
  <2> SUFFICES ASSUME NEW d \in 1..n, cycles'[d].msg # 0, chat'[cycles'[d].msg].as = "gone"
               PROVE  cycles'[d].deleted
    BY <1>1 DEF GoneOK
  <2>1. d # c
    <3>1. chat'[Len(chat) + 1].as = "own" BY <1>1
    <3> QED BY <1>6, <3>1
  <2>2. cycles'[d] = cycles[d] /\ cycles[d].msg \in 1..Len(chat) BY <1>1, <1>2, <2>1 DEF Shapes
  <2> QED BY <1>1, <2>2 DEF Tidy, GoneOK
<1>11. \A d \in 1..n : AtRecall(d) \/ ToReport(d) => d = c BY DEF AtRecall, ToReport
<1>12. RecallOK'
  <2> SUFFICES ASSUME NEW d \in 1..n, cycles'[d].msg = 0, rows'[d] = "open"
               PROVE  FALSE
    BY <1>1 DEF RecallOK
  <2>1. d # c BY <1>2, <1>6
  <2>2. cycles[d].msg = 0 /\ rows[d] = "open" BY <1>1, <2>1
  <2> QED BY <1>11, <2>1, <2>2 DEF Tidy, RecallOK
<1>13. OpenOK'
  <2> SUFFICES ASSUME NEW d \in 1..n, rows'[d] = "open"
               PROVE  d \in overtaken \/ (d = n /\ Live(cycles'[d]))
    BY <1>1, <1>2 DEF OpenOK, LandAside, past
  <2>1. CASE d # c
    <3>1. rows[d] = "open" /\ cycles'[d] = cycles[d] /\ ~ToReport(d) BY <1>1, <1>11, <2>1
    <3> QED BY <3>1 DEF Tidy, OpenOK
  <2>2. CASE d = c /\ c # n
    <3>1. Live(cycles[c]) BY <1>1, <1>6, <2>2
    <3>2. ~Over1(cycles[c]) BY <1>7, <2>2, <3>1 DEF Over1, Live
    <3>3. c \in 1..n - 1 BY <1>1, <1>2, <2>2
    <3> QED BY <2>2, <3>2, <3>3 DEF Tidy, SettleOK
  <2>3. CASE d = c /\ c = n BY <1>1, <2>3
  <2> QED BY <2>1, <2>2, <2>3
<1>14. job.kind = "move" => Due(job, cycles')
  <2> SUFFICES ASSUME old.kind = "move"
               PROVE  Due(job, cycles')
    BY <1>2
  <2>1. job.at \in {"unreact", "fork"} => FALSE BY <1>1, <1>9
  <2>2. Due(old, cycles) BY <1>3
  <2>3. job.at = "emit" =>
          cycles[c].completed /\ (n \notin overtaken => c = n /\ cycles[n].state = "text")
    BY <1>9, <2>2 DEF Due
  <2>4. job.at = "emit" =>
          cycles'[c].completed /\ (n \notin overtaken => c = n /\ cycles'[n].state = "text")
    BY <1>6, <2>3
  <2>5. job.at \notin {"edit", "delete"} /\ job.c = c /\ Len(cycles') = n BY <1>1, <1>9
  <2> QED BY <2>1, <2>4, <2>5 DEF Due
<1>15. ASSUME NEW d \in 1..n
       PROVE  /\ Onward(cycles[d], cycles'[d]) /\ cycles'[d].state = cycles[d].state
              /\ \/ cycles'[d].msg = cycles[d].msg \/ cycles[d].state = "text"
                 \/ cycles[d].msg = 0 /\ cycles'[d].msg # 0 /\ (d = n \/ options.streaming)
  <2>1. CASE d = c BY <1>1, <1>2, <1>6, <1>7, <2>1
  <2>2. CASE d # c BY <1>1, <2>2 DEF Onward
  <2> QED BY <2>1, <2>2
<1>16. c = n => cycles'[n].msg # 0 BY <1>2, <1>6
<1> HIDE DEF c
<1> QED BY <1>1, <1>2, <1>9, <1>10, <1>12, <1>13, <1>14, <1>15, <1>16, LandTidy DEF c

\* No two cycles have the same message.
LEMMA OneOwner ==
  ASSUME BaseInv, NEW c \in 1..Len(cycles), NEW d \in 1..Len(cycles), cycles[c].msg # 0,
         cycles[c].msg = cycles[d].msg
  PROVE  c = d
BY DEF BaseInv, LinkOK, active

\* The reply of a deletion: the cycle is deleted and so is its row.
LEMMA LandDeleteTidy ==
  ASSUME BaseInv, Tidy, ~late, NEW j \in 1..Len(writes), Land(j), writes[1].call.op = "delete"
  PROVE  Tidy'
<1> DEFINE n == Len(cycles)
           old == writes[1]
           job == writes'[1]
           c == old.c
           m == old.call.msg
<1>1. /\ old.at = "delete" /\ c \in 1..n /\ m = cycles[c].msg /\ m \in 1..Len(chat)
      /\ cycles'[c] = [cycles[c] EXCEPT !.deleted = TRUE]
      /\ Len(cycles') = n /\ \A d \in 1..n : d # c => cycles'[d] = cycles[d]
      /\ \A d \in 1..n : d # c /\ rows'[d] = "open" => rows[d] = "open"
      /\ rows'[c] # "open"
      /\ chat'[m] = [chat[m] EXCEPT !.as = "gone"]
      /\ \A k \in 1..Len(chat) : k # m => chat'[k] = chat[k]
      /\ Len(chat') = Len(chat) /\ job.c = c
  BY LandDelete
<1>2. /\ NextWrite(job) /\ LandAside /\ old \in QueuedWrite /\ StepsOK(old) /\ CallsFit(old)
      /\ job.kind = old.kind /\ job.result = old.result /\ job.at = Following(old) /\ Shapes
      /\ writes # <<>> /\ n \in Nat /\ n \in 1..n /\ Len(chat) \in Nat
  BY LandAtHand
<1>3. Stopped(old, cycles) /\ (old.kind = "move" => Due(old, cycles))
  BY <1>2 DEF Tidy, StopOK, DueOK
<1>4. old.call.op \notin {"none", "recall"} OBVIOUS
<1>5. cycles[c] \in OutputCycle BY <1>1, <1>2 DEF Shapes
<1>6. /\ cycles'[c].msg = cycles[c].msg /\ cycles'[c].state = cycles[c].state
      /\ Onward(cycles[c], cycles'[c]) /\ cycles'[c].deleted
  BY <1>1, <1>5 DEF OutputCycle, Onward
<1>7. Live(cycles'[n]) => Live(cycles[n])
  <2>1. CASE c = n BY <1>6, <2>1 DEF Live
  <2>2. CASE c # n BY <1>1, <1>2, <2>2
  <2> QED BY <2>1, <2>2
<1> HIDE DEF job
<1>8. /\ Stopped(job, cycles') /\ (~Unforked(old) => ~Unforked(job))
      /\ job.at \notin {"edit", "create", "delete", "post"}
      /\ (job.at = "emit" => old.at = "edit")
      /\ old.kind = "move" =>
           /\ job.at = "unreact" => old.at = "delete"
           /\ job.at = "fork" => old.at = "unreact"
           /\ old.at = "edit" => job.at = "emit"
  <2>1. Len(cycles') = n BY <1>1
  <2> QED BY <1>2, <1>3, <1>4, <1>7, <2>1, LandGoesOn
<1>9. GoneOK'
  <2> SUFFICES ASSUME NEW d \in 1..n, d # c, cycles'[d].msg # 0, chat'[cycles'[d].msg].as = "gone"
               PROVE  cycles'[d].deleted
    BY <1>1, <1>6 DEF GoneOK
  <2>1. cycles'[d] = cycles[d] /\ cycles[d].msg \in 1..Len(chat) BY <1>1, <1>2 DEF Shapes
  <2>2. cycles[d].msg # m BY <1>1, <2>1, OneOwner
  <2> QED BY <1>1, <2>1, <2>2 DEF Tidy, GoneOK
<1>10. \A d \in 1..n : ~AtRecall(d) /\ ~ToReport(d) BY <1>1 DEF AtRecall, ToReport
<1>11. RecallOK'
  <2> SUFFICES ASSUME NEW d \in 1..n, cycles'[d].msg = 0, rows'[d] = "open"
               PROVE  FALSE
    BY <1>1 DEF RecallOK
  <2>1. d # c /\ cycles[d].msg = 0 /\ rows[d] = "open" BY <1>1
  <2> QED BY <1>10, <2>1 DEF Tidy, RecallOK
<1>12. OpenOK'
  <2> SUFFICES ASSUME NEW d \in 1..n, rows'[d] = "open"
               PROVE  d \in overtaken \/ (d = n /\ Live(cycles'[d]))
    BY <1>1, <1>2 DEF OpenOK, LandAside, past
  <2>1. d # c /\ rows[d] = "open" /\ cycles'[d] = cycles[d] BY <1>1
  <2> QED BY <1>10, <2>1 DEF Tidy, OpenOK
<1>13. job.kind = "move" => Due(job, cycles')
  <2> SUFFICES ASSUME old.kind = "move"
               PROVE  Due(job, cycles')
    BY <1>2
  <2>1. job.at \notin {"fork", "edit", "emit", "delete"} BY <1>1, <1>8
  <2>2. n \notin overtaken => cycles'[n].deleted BY <1>1, <1>3, <1>6 DEF Due
  <2> QED BY <1>1, <2>1, <2>2 DEF Due, Over1
<1>14. ASSUME NEW d \in 1..n
       PROVE  /\ Onward(cycles[d], cycles'[d]) /\ cycles'[d].state = cycles[d].state
              /\ cycles'[d].msg = cycles[d].msg
  <2>1. CASE d = c BY <1>6, <2>1
  <2>2. CASE d # c BY <1>1, <2>2 DEF Onward
  <2> QED BY <2>1, <2>2
<1>15. old.at # "create" BY <1>1
<1> HIDE DEF c
<1> QED BY <1>1, <1>2, <1>8, <1>9, <1>11, <1>12, <1>13, <1>14, <1>15, LandTidy

\* The reply of a recall: the cycle is to get another message at once.
LEMMA LandRecallTidy ==
  ASSUME BaseInv, Tidy, ~late, NEW j \in 1..Len(writes), Land(j), writes[1].call.op = "recall"
  PROVE  Tidy'
<1> DEFINE n == Len(cycles)
           old == writes[1]
           job == writes'[1]
           c == old.c
           m == old.call.msg
<1>1. /\ old.at = "edit" /\ c \in 1..n /\ rows' = rows
      /\ m = cycles[c].msg /\ m \in 1..Len(chat) /\ ~cycles[c].deleted
      /\ cycles[c].state = "text" /\ cycles'[c] = [cycles[c] EXCEPT !.msg = 0]
      /\ Len(cycles') = n /\ \A d \in 1..n : d # c => cycles'[d] = cycles[d]
      /\ chat'[m] = [chat[m] EXCEPT !.as = "gone"]
      /\ \A k \in 1..Len(chat) : k # m => chat'[k] = chat[k]
      /\ Len(chat') = Len(chat) /\ job.at = "edit" /\ job.c = c
  BY LandRecall
<1>2. /\ NextWrite(job) /\ LandAside /\ job.kind = old.kind /\ job.result = old.result /\ Shapes
      /\ writes # <<>> /\ n \in Nat /\ n \in 1..n /\ Len(chat) \in Nat
  BY LandAtHand
<1>3. Stopped(old, cycles) /\ (old.kind = "move" => Due(old, cycles))
  BY <1>2 DEF Tidy, StopOK, DueOK
<1>4. cycles[c] \in OutputCycle BY <1>1, <1>2 DEF Shapes
<1>5. /\ cycles'[c].msg = 0 /\ cycles'[c].state = "text" /\ Onward(cycles[c], cycles'[c])
      /\ Live(cycles'[c]) = Live(cycles[c]) /\ cycles'[c].deleted = cycles[c].deleted
      /\ cycles'[c].completed = cycles[c].completed
  BY <1>1, <1>4 DEF OutputCycle, Onward, Live
<1>6. ASSUME NEW d \in 1..n
      PROVE  /\ Onward(cycles[d], cycles'[d]) /\ cycles'[d].state = cycles[d].state
             /\ cycles'[d].msg = cycles[d].msg \/ cycles[d].state = "text"
             /\ Live(cycles'[d]) = Live(cycles[d]) /\ cycles'[d].deleted = cycles[d].deleted
             /\ cycles'[d].completed = cycles[d].completed
  <2>1. CASE d = c BY <1>1, <1>5, <2>1
  <2>2. CASE d # c BY <1>1, <2>2 DEF Onward
  <2> QED BY <2>1, <2>2
<1>7. Stopped(job, cycles')
  <2>1. Live(cycles'[n]) = Live(cycles[n]) BY <1>2, <1>6
  <2> QED BY <1>1, <1>2, <1>3, <2>1 DEF Stopped, Closing, Answering
<1>8. job.kind = "move" => Due(job, cycles')
  <2>1. cycles'[n].state = cycles[n].state BY <1>2, <1>6
  <2> QED BY <1>1, <1>2, <1>3, <1>5, <2>1 DEF Due
<1>9. ~Unforked(old) => ~Unforked(job) BY <1>1, <1>2 DEF Unforked
<1>10. writes' # <<>> /\ job = writes'[1] BY <1>2 DEF NextWrite, SameChain
<1> HIDE DEF job
<1>11. GoneOK'
  <2> SUFFICES ASSUME NEW d \in 1..n, d # c, cycles'[d].msg # 0, chat'[cycles'[d].msg].as = "gone"
               PROVE  cycles'[d].deleted
    BY <1>1, <1>5 DEF GoneOK
  <2>1. cycles'[d] = cycles[d] /\ cycles[d].msg \in 1..Len(chat) BY <1>1, <1>2 DEF Shapes
  <2>2. cycles[d].msg # m BY <1>1, <2>1, OneOwner
  <2> QED BY <1>1, <2>1, <2>2 DEF Tidy, GoneOK
<1>12. \A d \in 1..n : (AtRecall(d) \/ ToReport(d)) => d = c BY DEF AtRecall, ToReport
<1>13. RecallOK'
  <2> SUFFICES ASSUME NEW d \in 1..n, cycles'[d].msg = 0, rows'[d] = "open"
               PROVE  AtRecall(d)' /\ ~cycles'[d].deleted
    BY <1>1 DEF RecallOK
  <2>1. d = c
    <3>1. CASE d # c
      <4>1. cycles[d].msg = 0 /\ rows[d] = "open" BY <1>1, <3>1
      <4> QED BY <1>12, <4>1 DEF Tidy, RecallOK
    <3> QED BY <3>1
  <2> QED BY <1>1, <1>5, <1>10, <2>1 DEF AtRecall
<1>14. OpenOK'
  <2> SUFFICES ASSUME NEW d \in 1..n, rows[d] = "open"
               PROVE  d \in overtaken \/ (d = n /\ Live(cycles'[d])) \/ ToReport(d)'
    BY <1>1, <1>2 DEF OpenOK, LandAside, past
  <2>1. d \in overtaken \/ (d = n /\ Live(cycles[d])) \/ d = c BY <1>12 DEF Tidy, OpenOK
  <2>2. d = c => ToReport(d)' BY <1>1, <1>5, <1>10 DEF ToReport
  <2> QED BY <1>6, <2>1, <2>2
<1>15. old.at # "create" BY <1>1
<1> HIDE DEF c
<1> QED BY <1>1, <1>2, <1>6, <1>7, <1>8, <1>9, <1>11, <1>13, <1>14, <1>15, LandTidy

\* A reply that changes no cycle, no row and takes no message away keeps the rows tidy.
LEMMA LandOtherTidy ==
  ASSUME BaseInv, Tidy, ~late, NEW j \in 1..Len(writes), Land(j), cycles' = cycles, rows' = rows,
         writes[1].at \notin {"edit", "create", "delete"}, writes[1].call.op # "recall",
         \A k \in 1..Len(chat) : chat'[k].as = "gone" => chat[k].as = "gone"
  PROVE  Tidy'
<1> DEFINE n == Len(cycles)
           old == writes[1]
           job == writes'[1]
<1>1. /\ NextWrite(job) /\ LandAside /\ old \in QueuedWrite /\ StepsOK(old) /\ CallsFit(old)
      /\ job.kind = old.kind /\ job.result = old.result /\ job.at = Following(old) /\ Shapes
      /\ writes # <<>> /\ n \in Nat /\ old.call.op \notin {"none", "recall"}
  BY LandAtHand
<1>2. Stopped(old, cycles) /\ (old.kind = "move" => Due(old, cycles))
  BY <1>1 DEF Tidy, StopOK, DueOK
<1> HIDE DEF job
<1>3. /\ Stopped(job, cycles') /\ (~Unforked(old) => ~Unforked(job))
      /\ job.at \notin {"edit", "create", "delete", "post"}
      /\ (job.at = "emit" => old.at = "edit")
      /\ old.kind = "move" =>
           /\ job.at = "unreact" => old.at = "delete"
           /\ job.at = "fork" => old.at = "unreact"
           /\ old.at = "edit" => job.at = "emit"
  BY <1>1, <1>2, LandGoesOn
<1>4. GoneOK'
  <2>1. \A c \in n + 1..Len(cycles') : cycles'[c].msg = 0 BY <1>1
  <2> QED BY <1>1, <2>1, GoneSame DEF Tidy
<1>5. \A c : ~AtRecall(c) /\ ~ToReport(c)
  <2>1. old.at # "emit" BY <1>1 DEF CallsFit
  <2> QED BY <2>1 DEF AtRecall, ToReport
<1>6. RecallOK' BY <1>5 DEF Tidy, RecallOK
<1>7. OpenOK' BY <1>1, <1>5 DEF Tidy, OpenOK, LandAside, past
<1>8. job.kind = "move" => Due(job, cycles') BY <1>1, <1>2, <1>3 DEF Due
<1>9. \A c \in 1..n : Onward(cycles[c], cycles'[c]) BY DEF Onward
<1>10. old.at # "create" BY <1>1
<1> QED BY <1>1, <1>3, <1>4, <1>6, <1>7, <1>8, <1>9, <1>10, LandTidy

\* The notice has a cycle and a row of its own, which fails with it.
LEMMA LandPostTidy ==
  ASSUME BaseInv, Tidy, ~late, NEW j \in 1..Len(writes), Land(j), writes[1].call.op = "post"
  PROVE  Tidy'
<1> DEFINE n == Len(cycles)
           old == writes[1]
           job == writes'[1]
<1>1. /\ old.at = "post" /\ old.kind = "fail"
      /\ Len(cycles') = n + 1 /\ \A d \in 1..n : cycles'[d] = cycles[d]
      /\ cycles'[n + 1] = Posted(Len(chat) + 1)
      /\ \A d \in 1..n : rows'[d] # "open"
      /\ rows'[n + 1] # "open"
      /\ Len(chat') = Len(chat) + 1 /\ \A k \in 1..Len(chat) : chat'[k] = chat[k]
      /\ chat'[Len(chat) + 1].as = "own"
      /\ job.at = "failed"
  BY LandPost
<1>2. /\ NextWrite(job) /\ LandAside /\ job.kind = old.kind /\ Shapes
      /\ writes # <<>> /\ n \in Nat /\ n \in 1..n /\ 1 <= n /\ Len(chat) \in Nat
  BY LandAtHand DEF Shapes
<1>3. \A d \in 1..n + 1 : d \in 1..n \/ d = n + 1 BY <1>2
<1>4. /\ cycles'[n + 1].msg = Len(chat) + 1 /\ cycles'[n + 1].msg # 0
  BY <1>1, <1>2 DEF Posted, Cycle
<1>5. GoneOK'
  <2> SUFFICES ASSUME NEW d \in 1..n, cycles[d].msg # 0, chat'[cycles[d].msg].as = "gone"
               PROVE  cycles[d].deleted
    BY <1>1, <1>3, <1>4 DEF GoneOK
  <2>1. cycles[d].msg \in 1..Len(chat) BY <1>2 DEF Shapes
  <2> QED BY <1>1, <2>1 DEF Tidy, GoneOK
<1>6. RecallOK' /\ OpenOK' BY <1>1, <1>3 DEF RecallOK, OpenOK
<1>7. SameChain /\ writes' # <<>> /\ options' = options /\ overtaken' = overtaken
      /\ outcome' = outcome
  BY <1>2 DEF NextWrite, SameChain, LandAside, past
<1>8. StopOK'
  <2>1. Stopped(job, cycles') BY <1>1, <1>2 DEF Stopped
  <2> QED BY <1>2, <1>7, <2>1, StopSame DEF BaseInv
<1>9. SettleOK'
  <2> SUFFICES ASSUME NEW d \in 1..n
               PROVE  d \in overtaken \/ Over1(cycles[d])
    BY <1>1, <1>2, <1>7 DEF SettleOK, Over1
  <2>1. CASE d = n
    <3>1. Stopped(old, cycles) BY <1>2 DEF Tidy, StopOK
    <3> QED BY <1>1, <2>1, <3>1 DEF Stopped, Over1
  <2>2. CASE d # n
    <3>1. d \in 1..n - 1 BY <1>2, <2>2
    <3> QED BY <3>1 DEF Tidy, SettleOK
  <2> QED BY <2>1, <2>2
<1>10. DueOK' BY <1>1, <1>2 DEF DueOK
<1>11. NewOK'
  <2>1. cycles'[Len(cycles')].msg # 0 BY <1>1, <1>4
  <2> QED BY <2>1 DEF NewOK, Awaited
<1> QED BY <1>5, <1>6, <1>8, <1>9, <1>10, <1>11 DEF Tidy

\* Every reply keeps the rows tidy.
LEMMA RepliesTidy ==
  ASSUME BaseInv, Tidy, ~late, NEW j \in 1..Len(writes), Land(j)
  PROVE  Tidy'
<1> DEFINE old == writes[1]
<1>1. /\ old.call.op \in {"edit", "create", "recall", "unreact", "react", "delete", "silence",
           "post"}
      /\ Shapes
  BY LandAtHand
<1>2. CASE old.call.op \in {"unreact", "react"}
  <2>1. cycles' = cycles /\ rows' = rows /\ chat' = chat /\ old.at = old.call.op
    BY <1>2, LandReaction
  <2> QED BY <1>2, <2>1, LandOtherTidy
<1>3. CASE old.call.op = "silence"
  <2> DEFINE m == old.call.msg
  <2>1. /\ cycles' = cycles /\ rows' = rows /\ old.at = "silence"
        /\ m \in 1..Len(chat) /\ chat'[m] = [chat[m] EXCEPT !.as = "silent"]
        /\ \A k \in 1..Len(chat) : k # m => chat'[k] = chat[k]
    BY <1>3, LandSilence
  <2>2. chat'[m].as = "silent"
    <3>1. chat[m] \in Message BY <1>1, <2>1 DEF Shapes
    <3> QED BY <2>1, <3>1 DEF Message
  <2>3. \A k \in 1..Len(chat) : chat'[k].as = "gone" => chat[k].as = "gone" BY <2>1, <2>2
  <2> QED BY <1>3, <2>1, <2>3, LandOtherTidy
<1> QED BY <1>1, <1>2, <1>3, LandEditTidy, LandCreateTidy, LandRecallTidy, LandDeleteTidy,
           LandPostTidy

\* A write that has not begun asks nothing of the cycles.
LEMMA FreshTidy ==
  ASSUME NEW job, Fresh(job), NEW cs
  PROVE  Stopped(job, cs) /\ (job.kind = "move" => Due(job, cs))
BY DEF Fresh, First, Stopped, Due, Closing, Answering

\* An event keeps the rows tidy: the row it reports is that of the active cycle, a cycle that it
\* starts follows an answer that is complete, and what it does during a move is noted.
LEMMA EventTidy ==
  ASSUME BaseInv, Tidy, ~late, Aside, Continues \/ Starts, RowsFollow
  PROVE  Tidy'
<1> DEFINE n == Len(cycles)
<1>1. /\ Shapes /\ EndOK /\ SilentOK /\ n \in Nat /\ 1 <= n /\ n \in 1..n /\ Len(writes) \in Nat
      /\ writes \in Seq(QueuedWrite)
  <2>1. Shapes /\ EndOK /\ SilentOK BY ProjShapes DEF BaseInv
  <2>2. n \in Nat /\ 1 <= n /\ Len(writes) \in Nat BY <2>1 DEF Shapes
  <2>3. writes \in Seq(QueuedWrite) BY DEF BaseInv, ProjTypeOK
  <2> QED BY <2>1, <2>2, <2>3
<1>2. /\ options' = options /\ chat' = chat /\ outcome' = "running"
      /\ overtaken \subseteq overtaken' /\ (Moving => Len(cycles') \in overtaken')
      /\ \A j \in 1..Len(writes) : ~Closing(writes[j])
  BY <1>1, RunGoesOn DEF Aside
<1>3. Grown
  <2>1. CASE Continues BY <1>1, <2>1 DEF Continues, Grown
  <2> QED BY <2>1 DEF Starts
<1>4. Len(cycles') \in {n, n + 1} BY DEF Continues, Starts
<1>5. cycles[n] \in OutputCycle BY <1>1 DEF Shapes
<1>6. ASSUME NEW c \in 1..n
      PROVE  /\ cycles'[c].msg = cycles[c].msg /\ cycles'[c].deleted = cycles[c].deleted
             /\ Onward(cycles[c], cycles'[c]) /\ (c # n => cycles'[c] = cycles[c])
  <2>1. CASE c # n
    <3>1. cycles'[c] = cycles[c] BY <2>1 DEF Continues, Starts
    <3> QED BY <3>1 DEF Onward
  <2>2. CASE c = n /\ Continues BY <2>2 DEF Continues, Onward
  <2>3. CASE c = n /\ Starts
    <3>1. cycles'[n] = [cycles[n] EXCEPT !.completed = TRUE] BY <2>3 DEF Starts
    <3> QED BY <1>5, <2>3, <3>1, Marked DEF Onward, OutputCycle
  <2> QED BY <2>1, <2>2, <2>3
<1>7. \A c \in n + 1..Len(cycles') : Starts /\ c = n + 1 /\ cycles'[c].msg = 0 /\ rows'[c] = "none"
  <2>1. ASSUME NEW c \in n + 1..Len(cycles')
        PROVE  c = n + 1 /\ Len(cycles') = n + 1
    BY <1>1, <1>4
  <2>2. Len(cycles') = n + 1 => Starts BY <1>1 DEF Continues
  <2> QED BY <2>1, <2>2 DEF Starts
<1>8. \A c \in 1..Len(cycles') : c \in 1..n \/ c \in n + 1..Len(cycles') BY <1>1, <1>4
<1>9. GoneOK' BY <1>1, <1>2, <1>4, <1>6, <1>7, GoneSame DEF Tidy
<1>10. writes # <<>> => writes' # <<>> /\ writes'[1] = writes[1] BY <1>3 DEF Grown
<1>11. RecallOK'
  <2> SUFFICES ASSUME NEW c \in 1..n, cycles'[c].msg = 0, rows'[c] = "open"
               PROVE  AtRecall(c)' /\ ~cycles'[c].deleted
    BY <1>7, <1>8 DEF RecallOK
  <2>1. cycles[c].msg = 0 /\ rows[c] = "open" BY <1>6 DEF RowsFollow
  <2>2. AtRecall(c) /\ ~cycles[c].deleted BY <2>1 DEF Tidy, RecallOK
  <2> QED BY <1>6, <1>10, <2>2 DEF AtRecall
<1>12. OpenOK'
  <2> SUFFICES ASSUME NEW c \in 1..n, rows'[c] = "open"
               PROVE  \/ c \in overtaken' \/ (c = Len(cycles') /\ Live(cycles'[c]))
                      \/ ToReport(c)'
    BY <1>7, <1>8 DEF OpenOK
  <2>1. CASE c # n
    <3>1. rows[c] = "open" BY <2>1 DEF RowsFollow
    <3>2. c \in overtaken \/ ToReport(c) BY <2>1, <3>1 DEF Tidy, OpenOK
    <3>3. ToReport(c) => ToReport(c)' BY <1>6, <1>10 DEF ToReport
    <3> QED BY <1>2, <3>2, <3>3
  <2>2. CASE c = n /\ cycles[n].msg = 0
    <3>1. rows[n] = "open" BY <2>2 DEF RowsFollow
    <3>2. AtRecall(c) BY <2>2, <3>1 DEF Tidy, RecallOK
    <3> QED BY <1>6, <1>10, <2>2, <3>2 DEF AtRecall, ToReport
  <2>3. CASE c = n /\ cycles[n].msg # 0
    <3>1. Live(cycles'[n]) BY <2>3 DEF RowsFollow
    <3>2. ASSUME Starts
          PROVE  FALSE
      <4>1. cycles'[n] = [cycles[n] EXCEPT !.completed = TRUE] BY <3>2 DEF Starts
      <4> QED BY <1>5, <3>1, <4>1 DEF Live, OutputCycle
    <3>3. Len(cycles') = n BY <3>2 DEF Continues
    <3> QED BY <2>3, <3>1, <3>3
  <2> QED BY <2>1, <2>2, <2>3
<1>13. StopOK'
  <2>1. ASSUME writes' # <<>>
        PROVE  Stopped(writes'[1], cycles')
    <3>1. CASE writes = <<>> BY <1>3, <2>1, <3>1, FreshTidy DEF Grown
    <3>2. CASE writes # <<>>
      <4>1. 1 \in 1..Len(writes) BY <1>1, <3>2 DEF Shapes
      <4>2. ~Closing(writes[1]) /\ StepsOK(writes[1]) /\ writes[1] \in QueuedWrite
        BY <1>1, <1>2, <4>1 DEF BaseInv, WritesOK, WriteOK, Shapes
      <4>3. writes[1].kind \in {"flush", "create", "move"} BY <4>2, WriteTypes DEF Closing
      <4>4. writes[1].at \notin {"over", "post"} BY <4>2, <4>3 DEF StepsOK
      <4> QED BY <1>10, <3>2, <4>2, <4>3, <4>4 DEF Stopped, Answering
    <3> QED BY <3>1, <3>2
  <2> QED BY <1>2, <2>1 DEF StopOK
<1>14. SettleOK'
  <2>1. CASE Continues
    <3>1. Len(cycles') = n BY <2>1 DEF Continues
    <3>2. ASSUME NEW c \in 1..n - 1
          PROVE  /\ Onward(cycles[c], cycles'[c]) /\ cycles'[c].state = cycles[c].state
                 /\ cycles'[c].msg = cycles[c].msg
      <4>1. c \in 1..n /\ c # n BY <1>1
      <4> QED BY <1>6, <4>1
    <3> QED BY <1>1, <1>2, <3>1, <3>2, SettleSame DEF Tidy
  <2>2. CASE Starts
    <3>1. Len(cycles') = n + 1 BY <2>2 DEF Starts
    <3> SUFFICES ASSUME NEW c \in 1..n
                 PROVE  c \in overtaken' \/ Over1(cycles[c])'
      BY <1>1, <3>1 DEF SettleOK
    <3>2. CASE c = n
      <4>1. cycles'[n] = [cycles[n] EXCEPT !.completed = TRUE] /\ cycles[n].state = "text"
        BY <2>2 DEF Starts
      <4>2. cycles'[n].completed /\ cycles'[n].state = "text" BY <1>5, <4>1 DEF OutputCycle
      <4> QED BY <3>2, <4>2 DEF Over1
    <3>3. CASE c # n
      <4>1. c \in 1..n - 1 /\ cycles'[c] = cycles[c] BY <1>1, <1>6, <3>3
      <4>2. c \in overtaken \/ Over1(cycles[c]) BY <4>1 DEF Tidy, SettleOK
      <4> QED BY <1>2, <4>1, <4>2 DEF Over1
    <3> QED BY <3>2, <3>3
  <2> QED BY <2>1, <2>2
<1>15. DueOK'
  <2> SUFFICES ASSUME writes' # <<>>, writes'[1].kind = "move"
               PROVE  Due(writes[1], cycles)'
    BY DEF DueOK
  <2>1. CASE writes = <<>>
    <3>1. writes'[1].at = "previous" BY <1>3, <2>1 DEF Grown, Fresh, First
    <3> QED BY <3>1 DEF Due
  <2>2. CASE writes # <<>>
    <3>1. 1 \in 1..Len(writes) /\ writes'[1] = writes[1] BY <1>1, <1>10, <2>2 DEF Shapes
    <3>2. WriteOK(writes[1], n, closed, options.streaming) /\ Due(writes[1], cycles)
      BY <2>2, <3>1 DEF BaseInv, WritesOK, active, Tidy, DueOK
    <3>3. writes[1].at \in {"edit", "emit"} => cycles'[writes[1].c].completed
      BY <1>6, <3>2 DEF WriteOK, Due, Onward
    <3>4. writes[1].at \in {"edit", "emit", "delete", "unreact", "fork"} =>
            Len(cycles') \in overtaken'
      BY <1>2, <3>1 DEF Moving, Unforked
    <3> QED BY <3>1, <3>3, <3>4 DEF Due
  <2> QED BY <2>1, <2>2
<1>16. NewOK'
  <2> SUFFICES ASSUME options.streaming, Len(cycles') \notin overtaken', Awaited(Len(cycles))'
               PROVE  \E j \in 1..Len(writes') : Creating(j, Len(cycles))'
    BY <1>2 DEF NewOK
  <2>1. CASE Continues
    <3>1. Len(cycles') = n /\ writes' = writes BY <2>1 DEF Continues
    <3>2. Awaited(n) BY <1>1, <1>6, <3>1 DEF Awaited, Onward
    <3>3. PICK j \in 1..Len(writes) : Creating(j, n) BY <1>2, <3>1, <3>2 DEF Tidy, NewOK
    <3> QED BY <3>1, <3>3 DEF Creating
  <2>2. CASE Starts
    <3> DEFINE k == Len(writes) + 2
    <3>1. /\ Len(cycles') = n + 1 /\ Len(writes') = k
          /\ writes'[Len(writes) + 1] = Job("flush", "edit", n)
          /\ writes'[k] = Job("create", "create", n + 1)
      BY <2>2 DEF Starts
    <3>2. ~Moving BY <1>2
    <3>3. ASSUME NEW i \in 1..k
          PROVE  ~Unforked(writes'[i])
      <4>1. CASE i \in 1..Len(writes) BY <1>3, <3>2, <4>1 DEF Moving, Grown
      <4>2. CASE i = Len(writes) + 1 BY <3>1, <4>2 DEF Unforked, Job
      <4>3. CASE i = k BY <3>1, <4>3 DEF Unforked, Job
      <4> QED BY <1>1, <4>1, <4>2, <4>3
    <3>4. writes'[k].at = "create" /\ writes'[k].c = Len(cycles') BY <3>1 DEF Job
    <3>5. k \in 1..Len(writes') BY <1>1, <3>1
    <3> HIDE DEF k
    <3>6. \E j \in 1..Len(writes') : Creating(j, Len(cycles))' BY <3>3, <3>4, <3>5 DEF Creating
    <3> QED BY <3>6
  <2> QED BY <2>1, <2>2
<1> QED BY <1>9, <1>11, <1>12, <1>13, <1>14, <1>15, <1>16 DEF Tidy

\* Queueing a write keeps the rows tidy: it has not begun.
LEMMA QueueTidy ==
  ASSUME BaseInv, Tidy, Grown, UNCHANGED <<options, output, chat, overtaken>>,
         outcome' \in {outcome, "ending"}
  PROVE  Tidy'
<1> DEFINE n == Len(cycles)
<1>1. Shapes BY ProjShapes DEF BaseInv
<1>2. cycles' = cycles /\ rows' = rows /\ chat' = chat /\ options' = options
      /\ overtaken' = overtaken
  BY DEF output
<1>3. writes # <<>> => writes' # <<>> /\ writes'[1] = writes[1] BY DEF Grown
<1>4. GoneOK' /\ SettleOK' BY <1>2 DEF Tidy, GoneOK, SettleOK, Over1
<1>5. \A c : (AtRecall(c) => AtRecall(c)') /\ (ToReport(c) => ToReport(c)')
  BY <1>2, <1>3 DEF AtRecall, ToReport
<1>6. RecallOK' /\ OpenOK' BY <1>2, <1>5 DEF Tidy, RecallOK, OpenOK
<1>7. writes = <<>> /\ writes' # <<>> => Fresh(writes'[1]) BY DEF Grown
<1>8. StopOK'
  <2>1. writes' # <<>> => Stopped(writes'[1], cycles')
    BY <1>2, <1>3, <1>7, FreshTidy DEF Tidy, StopOK
  <2> QED BY <1>2, <2>1 DEF Tidy, StopOK
<1>9. DueOK'
  <2> SUFFICES ASSUME writes' # <<>>, writes'[1].kind = "move"
               PROVE  Due(writes'[1], cycles)
    BY <1>2 DEF DueOK, Due, Over1
  <2>1. CASE writes = <<>> BY <1>7, <2>1, FreshTidy
  <2>2. CASE writes # <<>> BY <1>3, <2>2 DEF Tidy, DueOK
  <2> QED BY <2>1, <2>2
<1>10. NewOK'
  <2> SUFFICES ASSUME options.streaming, n \notin overtaken, Awaited(n)
               PROVE  \E j \in 1..Len(writes') : Creating(j, n)'
    BY <1>2 DEF NewOK, Awaited
  <2>1. PICK j \in 1..Len(writes) : Creating(j, n) BY DEF Tidy, NewOK
  <2>2. Len(writes) \in Nat /\ Len(writes') \in Nat /\ Len(writes) <= Len(writes')
    BY <1>1, LenProperties DEF Shapes, Grown
  <2>3. j \in 1..Len(writes') BY <2>2
  <2>4. \A i \in 1..j : writes'[i] = writes[i] BY <2>2 DEF Grown
  <2>5. j \in 1..j BY <2>2
  <2>6. Creating(j, n)' BY <1>2, <2>1, <2>4, <2>5 DEF Creating
  <2> QED BY <2>3, <2>6
<1> QED BY <1>4, <1>6, <1>8, <1>9, <1>10 DEF Tidy

\* The next write takes its turn when nothing is left to report.
LEMMA JobEndsTidy ==
  ASSUME BaseInv, Tidy, ~late, NEW j \in 1..Len(writes), JobEnds(j)
  PROVE  Tidy'
<1> DEFINE n == Len(cycles)
           old == writes[1]
<1>1. Dropped /\ old.at = "end" /\ BaseInv' BY JobEndsBase
<1>2. j = 1 /\ writes # <<>> /\ Shapes /\ old \in QueuedWrite
  BY AtHand DEF JobEnds, Here
<1>3. /\ cycles' = cycles /\ rows' = rows /\ chat' = chat /\ options' = options
      /\ overtaken' = overtaken
  BY DEF JobEnds, output, shown, past
<1>4. GoneOK' /\ SettleOK' BY <1>3 DEF Tidy, GoneOK, SettleOK, Over1
<1>5. \A c : ~AtRecall(c) /\ ~ToReport(c) BY <1>1 DEF AtRecall, ToReport
<1>6. RecallOK' /\ OpenOK' BY <1>3, <1>5 DEF Tidy, RecallOK, OpenOK
<1>7. writes' # <<>> => Fresh(writes'[1])
  <2> SUFFICES ASSUME writes' # <<>>
               PROVE  Fresh(writes'[1])
    OBVIOUS
  <2>1. writes'[1] = writes[2] /\ 2 \in 2..Len(writes) BY <1>1, <1>2 DEF Dropped, Shapes
  <2> QED BY <2>1 DEF BaseInv, WritesOK
<1>8. StopOK'
  <2>1. writes' # <<>> => Stopped(writes'[1], cycles') BY <1>7, FreshTidy
  <2>2. outcome' \in {"done", "silent", "failed"} => ~Live(cycles[n])
    <3>1. CASE Closing(old)
      <4>1. Stopped(old, cycles) BY <1>2 DEF Tidy, StopOK
      <4> QED BY <1>1, <3>1, <4>1 DEF Stopped
    <3>2. CASE ~Closing(old)
      <4>1. outcome' = outcome BY <1>2, <3>2 DEF JobEnds, Closing
      <4> QED BY <4>1 DEF Tidy, StopOK
    <3> QED BY <3>1, <3>2
  <2> QED BY <1>3, <2>1, <2>2 DEF StopOK
<1>9. DueOK'
  <2> SUFFICES ASSUME writes' # <<>>, writes'[1].kind = "move"
               PROVE  Due(writes'[1], cycles)
    BY <1>3 DEF DueOK, Due, Over1
  <2> QED BY <1>7, FreshTidy
<1>10. NewOK'
  <2> SUFFICES ASSUME options.streaming, n \notin overtaken, Awaited(n)
               PROVE  \E i \in 1..Len(writes') : Creating(i, n)'
    BY <1>3 DEF NewOK, Awaited
  <2>1. PICK k \in 1..Len(writes) : Creating(k, n) BY DEF Tidy, NewOK
  <2>2. Len(writes) \in Nat /\ Len(writes') = Len(writes) - 1 BY <1>1, <1>2 DEF Dropped, Shapes
  <2>3. k # 1 BY <1>1, <2>1 DEF Creating
  <2>4. k - 1 \in 1..Len(writes') BY <2>2, <2>3
  <2>5. \A i \in 1..k - 1 : writes'[i] = writes[i + 1] /\ i + 1 \in 1..k
    BY <1>1, <2>2, <2>3 DEF Dropped
  <2>6. (k - 1) + 1 = k /\ k - 1 \in 1..k - 1 BY <2>2, <2>3
  <2>7. writes'[k - 1] = writes[k] BY <2>5, <2>6
  <2>8. \A i \in 1..k - 1 : ~Unforked(writes'[i]) BY <2>1, <2>5 DEF Creating
  <2>9. Creating(k - 1, n)' BY <1>3, <2>1, <2>7, <2>8 DEF Creating
  <2> QED BY <2>4, <2>9
<1> QED BY <1>4, <1>6, <1>8, <1>9, <1>10 DEF Tidy

\* While messages are only gone with their cycles no edit is refused: a call that fails is lost.
LEMMA LostShows ==
  ASSUME BaseInv, GoneOK, NEW j \in 1..Len(writes), Lose(j)
  PROVE  lost' # 0
<1> DEFINE old == writes[1]
<1>1. j = 1 /\ Turn(j) BY DEF Lose, Turn
<1>2. /\ WriteOK(old, Len(cycles), closed, options.streaming) /\ old \in QueuedWrite
      /\ CallFits(old, cycles, chat)
  BY <1>1, AtHand
<1>3. ~Refused(old.call)
  <2> SUFFICES ASSUME old.call.op = "edit", chat[old.call.msg].as = "gone"
               PROVE  FALSE
    BY DEF Refused
  <2>1. old.at = "edit"
    <3>1. old.at \in WriteStep BY <1>2, WriteTypes
    <3> QED BY <1>2, <3>1 DEF WriteOK, CallsFit
  <2>2. old.c \in 1..Len(cycles) BY <1>2, <2>1 DEF WriteOK
  <2>3. /\ ~cycles[old.c].deleted /\ old.call.msg = cycles[old.c].msg /\ cycles[old.c].msg # 0
    BY <1>2 DEF CallFits
  <2> QED BY <2>2, <2>3 DEF GoneOK
<1>4. lost' = lost + 1 BY <1>1, <1>3 DEF Lose
<1>5. lost \in Nat BY DEF BaseInv, ProjTypeOK
<1> QED BY <1>4, <1>5

\* The rows of the first message are tidy.
LEMMA TidyInit ==
  ASSUME ProjInit
  PROVE  TidyInv
<1>1. BaseInv BY BaseInit
<1>2. /\ cycles[1].msg = 1 /\ Len(cycles) = 1 /\ Live(cycles[1]) /\ ~cycles[1].deleted
      /\ chat[1].as = "own" /\ writes = <<>> /\ outcome = "running"
  BY DEF ProjInit, Cycle, Live
<1>3. \A c \in 1..1 : c = 1 OBVIOUS
<1>4. GoneOK /\ RecallOK /\ OpenOK BY <1>2, <1>3 DEF GoneOK, RecallOK, OpenOK
<1>5. StopOK /\ DueOK /\ NewOK BY <1>2 DEF StopOK, DueOK, NewOK, Awaited
<1>6. SettleOK
  <2>1. \A c \in 1..Len(cycles) - 1 : FALSE BY <1>2
  <2> QED BY <2>1 DEF SettleOK
<1> QED BY <1>1, <1>4, <1>5, <1>6 DEF TidyInv, Tidy

\* Requests keep the rows tidy; one that comes late is noted as such.
LEMMA RequestTidy ==
  ASSUME BaseInv, Tidy, ~late', TimerFires \/ Finish \/ Fail \/ Steer \/ Move
  PROVE  Tidy' /\ ~late /\ lost' = lost
<1>1. /\ ProjTypeOK /\ writes \in Seq(QueuedWrite) /\ moves \in Nat /\ timer \in Nat
      /\ Len(writes) \in Nat
  <2>1. ProjTypeOK BY DEF BaseInv
  <2>2. writes \in Seq(QueuedWrite) /\ moves \in Nat BY <2>1 DEF ProjTypeOK
  <2>3. timer \in 0..Len(cycles) BY <2>1 DEF ProjTypeOK, active
  <2>4. Len(writes) \in Nat BY <2>2, LenProperties
  <2> QED BY <2>1, <2>2, <2>3, <2>4
<1>2. CASE TimerFires
  <2> DEFINE job == Job("flush", "edit", timer)
  <2>1. job \in QueuedWrite /\ Fresh(job) BY <1>1, JobFresh DEF First
  <2>2. writes' = Append(writes, job) BY <1>2 DEF TimerFires
  <2> HIDE DEF job
  <2>3. Grown BY <1>1, <2>1, <2>2, QueueChain
  <2> QED BY <1>2, <2>3, QueueTidy DEF TimerFires, shown, past
<1>3. CASE Finish
  <2>1. PICK result \in {"all", "last", "none", "silent"} :
          Close([Job("finish", "unreact", 0) EXCEPT !.result = result])
    BY <1>3 DEF Finish
  <2> DEFINE job == [Job("finish", "unreact", 0) EXCEPT !.result = result]
  <2>2. job \in QueuedWrite /\ Fresh(job)
    BY DEF Job, Fresh, First, QueuedWrite, WriteStep, NetworkCall, NoCall
  <2>3. writes' = Append(writes, job) BY <2>1 DEF Close
  <2> HIDE DEF job
  <2>4. Grown BY <1>1, <2>2, <2>3, QueueChain
  <2> QED BY <1>3, <2>4, QueueTidy DEF Finish, shown, past
<1>4. CASE Fail
  <2>1. writes' = Append(writes, FailJob) BY <1>4 DEF Fail, Close
  <2>2. Grown BY <1>1, <2>1, FailJobFresh, QueueChain
  <2> QED BY <1>4, <2>2, QueueTidy DEF Fail, shown, past
<1>5. CASE Steer
  <2>1. Grown
    <3>1. writes' = writes BY <1>5 DEF Steer
    <3> QED BY <1>1, <3>1 DEF Grown
  <2> QED BY <1>5, <2>1, QueueTidy DEF Steer, shown, past
<1>6. CASE Move
  <2> DEFINE job == [Job("move", "previous", 0) EXCEPT !.trigger = moves + 1]
  <2>1. job \in QueuedWrite /\ Fresh(job)
    BY <1>1 DEF Job, Fresh, First, QueuedWrite, WriteStep, NetworkCall, NoCall
  <2>2. writes' = Append(writes, job) BY <1>6 DEF Move
  <2> HIDE DEF job
  <2>3. Grown BY <1>1, <2>1, <2>2, QueueChain
  <2> QED BY <1>6, <2>3, QueueTidy DEF Move, shown
<1> QED BY <1>2, <1>3, <1>4, <1>5, <1>6

\* A step of the write under way keeps the rows tidy if no call is lost.
LEMMA WorkTidy ==
  ASSUME BaseInv, Tidy, lost = 0, ~late, lost' = 0, ~late', NEW j \in 1..Len(writes), Work(j)
  PROVE  Tidy'
<1>1. CASE Conclude(j)
  <2>1. CASE writes[1].result = "silent" BY <1>1, <2>1, SilenceTidy
  <2>2. CASE writes[1].result # "silent" BY <1>1, <2>2, AnswerTidy
  <2> QED BY <2>1, <2>2
<1>2. CASE Lose(j) BY <1>2, LostShows DEF Tidy
<1>3. CASE EditNow(j) \/ CreateNow(j) \/ CallNow(j) \/ Previous(j) \/ EmitNow(j) \/ Fork(j)
  BY <1>3, EditNowTidy, CreateNowTidy, CallNowTidy, PreviousTidy, EmitNowTidy, ForkTidy
<1>4. CASE Sweep(j) \/ Over(j) \/ Complete(j) \/ Rewrite(j) \/ Words(j) \/ Notice(j) \/ Failed(j)
  BY <1>4, SweepTidy, OverTidy, CompleteTidy, RewriteTidy, WordsTidy, NoticeTidy, FailedTidy
<1>5. CASE Land(j) \/ JobEnds(j) BY <1>5, RepliesTidy, JobEndsTidy
<1> QED BY <1>1, <1>2, <1>3, <1>4, <1>5 DEF Work

\* A call that was lost stays lost, and a late move late.
LEMMA CleanBefore ==
  ASSUME BaseInv, [ProjNext]_projVars, Clean'
  PROVE  Clean
<1>1. lost \in Nat /\ late \in BOOLEAN BY DEF BaseInv, ProjTypeOK
<1>2. CASE UNCHANGED projVars BY <1>2 DEF projVars, Clean
<1>3. CASE TextDelta \/ Progress
  <2>1. ProjTypeOK /\ WritesOK BY DEF BaseInv
  <2>2. Aside BY <1>3, <2>1, TextDeltaSteps, ProgressSteps
  <2> QED BY <2>2 DEF Aside, Clean
<1>4. CASE TimerFires \/ Finish \/ Fail \/ Steer
  <2>1. UNCHANGED past BY <1>4, Zenon DEF TimerFires, Finish, Fail, Steer
  <2> QED BY <2>1 DEF past, Clean
<1>5. CASE Move BY <1>1, <1>5 DEF Move, Clean
<1>6. CASE \E j \in 1..Len(writes) : Work(j)
  <2>1. PICK j \in 1..Len(writes) : Work(j) BY <1>6
  <2>2. CASE OnlyJobs BY <2>2 DEF OnlyJobs, past, Clean
  <2>3. CASE Fork(j) \/ Land(j) \/ JobEnds(j)
    <3>1. UNCHANGED past BY <2>3, ForkSteps, LandAtHand DEF HeadAside, LandAside, JobEnds
    <3> QED BY <3>1 DEF past, Clean
  <2>4. CASE Lose(j)
    <3>1. late' = late /\ lost' \in {lost, lost + 1} BY <2>4 DEF Lose
    <3> QED BY <1>1, <3>1 DEF Clean
  <2> QED BY <2>1, <2>2, <2>3, <2>4 DEF Work, EditNow, CreateNow, CallNow, Previous, EmitNow,
        Conclude, Sweep, Over, Complete, Rewrite, Words, Notice, Failed
<1> QED BY <1>2, <1>3, <1>4, <1>5, <1>6 DEF ProjNext

\* While no call is lost and no move is late the rows stay tidy.
LEMMA TidyStep ==
  ASSUME TidyInv, [ProjNext]_projVars
  PROVE  TidyInv'
<1>1. BaseInv /\ BaseInv' BY BaseStep DEF TidyInv
<1> SUFFICES ASSUME Clean'
             PROVE  Tidy'
  BY <1>1 DEF TidyInv
<1>2. Clean /\ Tidy BY <1>1, CleanBefore DEF TidyInv
<1>3. lost = 0 /\ ~late /\ lost' = 0 /\ ~late' BY <1>2 DEF Clean
<1>4. ProjTypeOK /\ WritesOK BY <1>1 DEF BaseInv
<1>5. CASE TextDelta
  <2>1. Aside /\ (Continues \/ Starts) /\ RowsFollow BY <1>4, <1>5, TextDeltaSteps
  <2> QED BY <1>1, <1>2, <1>3, <2>1, EventTidy
<1>6. CASE Progress
  <2>1. Aside /\ (Continues \/ Starts) /\ RowsFollow BY <1>4, <1>6, ProgressSteps
  <2> QED BY <1>1, <1>2, <1>3, <2>1, EventTidy
<1>7. CASE TimerFires \/ Finish \/ Fail \/ Steer \/ Move BY <1>1, <1>2, <1>3, <1>7, RequestTidy
<1>8. CASE \E j \in 1..Len(writes) : Work(j) BY <1>1, <1>2, <1>3, <1>8, WorkTidy
<1>9. CASE UNCHANGED projVars
  BY <1>2, <1>9 DEF projVars, Tidy, GoneOK, RecallOK, OpenOK, StopOK, SettleOK, DueOK, NewOK,
       AtRecall,
       ToReport, Over1, Stopped, Due, Awaited, Creating, Unforked
<1> QED BY <1>5, <1>6, <1>7, <1>8, <1>9 DEF ProjNext

\* The rows are tidy in every run, as long as no call is lost and no move comes late.
LEMMA TidyAlways == ProjSpec => []TidyInv
BY TidyInit, TidyStep, PTL DEF ProjSpec

\* When a run is over and no write failed no row of its output is left open, whatever the events
\* and the steering messages did to its cycles while writes were under way, except the rows of
\* cycles that a move overtook: persistProjectionCycle is told of every cycle that is over.
THEOREM NoRowIsLeftOpen == ProjSpec => []RowsAreClosed
<1>1. TidyInv => RowsAreClosed
  <2> SUFFICES ASSUME TidyInv, Settled({"done", "silent", "failed"}), lost = 0,
                      NEW c \in 1..Len(cycles), rows[c] = "open"
               PROVE  c \in overtaken
    BY DEF RowsAreClosed, active
  <2>1. Tidy /\ writes = <<>> BY DEF TidyInv, Clean, Settled
  <2>2. ~Live(cycles[Len(cycles)]) /\ ~ToReport(c) BY <2>1 DEF Settled, Tidy, StopOK, ToReport
  <2> QED BY <2>1, <2>2 DEF Tidy, OpenOK
<1> QED BY <1>1, TidyAlways, PTL

-----------------------------------------------------------------------------
(* What an answer leaves in the chat *)

\* A message that shows what was said is that of a cycle which is not deleted.
OwnOK == \A m \in 1..Len(chat) : chat[m].as = "own" =>
  /\ chat[m].cycle \in 1..Len(cycles)
  /\ cycles[chat[m].cycle].msg = m /\ ~cycles[chat[m].cycle].deleted

\* Only the message the output is below carries the reaction, and none at the end.
Unmarked(job) ==
  \/ job.kind = "move" /\ job.at \in {"fork", "create"}
  \/ job.kind = "finish" /\ job.at # "unreact"
ReactOK ==
  /\ reacted \subseteq {target}
  /\ writes # <<>> /\ Unmarked(writes[1]) => reacted = {}

\* When a run is done nothing is left of the working message.
DoneOK == outcome = "done" =>
  /\ reacted = {}
  /\ cycles[Len(cycles)].state = "text" \/ cycles[Len(cycles)].deleted

\* While a run goes on its active cycle is only deleted until a move starts the next one.
Replacing(job) == job.kind = "move" /\ job.at \in {"unreact", "fork"}
ActiveOK == ~closed /\ cycles[Len(cycles)].deleted => writes # <<>> /\ Replacing(writes[1])

\* A move takes no answer away, unless it became one meanwhile.
Clears(job, cs) == job.kind = "move" /\ job.at = "delete" =>
  job.c \in overtaken \/ cs[job.c].state # "text"
DelOK == writes # <<>> => Clears(writes[1], cycles)

\* Until an answer is concluded the chunks of a cycle are of one part, the last one of the text
\* that goes on.
Unconcluded(job) == job.kind = "finish" /\ job.at \in {"unreact", "conclude"}
OnePart(cs) == \A c \in 1..Len(cs) : \A k \in cs[c].text :
  k = 0 \/ (k \in 1..Len(parts) /\ parts[k] = cs[c].part)
LastPart(cs) ==
  cs[Len(cs)].state = "text" /\ parts # <<>> => cs[Len(cs)].part = parts[Len(parts)]
PartsOK ==
  ~closed \/ (\E j \in 1..Len(writes) : Unconcluded(writes[j])) =>
    OnePart(cycles) /\ LastPart(cycles)

\* Unless the run ends in silence every chunk is in a cycle that is there, or was overtaken.
Quieting(job) == job.kind = "finish" /\ job.result = "silent"
Outspoken == outcome # "silent" /\ \A j \in 1..Len(writes) : ~Quieting(writes[j])
HasPlace(k) == \E c \in 1..Len(cycles) :
  k \in cycles[c].text /\ (c \in overtaken \/ ~cycles[c].deleted)
CovOK == Outspoken => \A k \in 1..Len(parts) : HasPlace(k)

\* What holds of an answer while no call has failed and no move came late.
Whole == OwnOK /\ ReactOK /\ DoneOK /\ ActiveOK /\ DelOK /\ PartsOK /\ CovOK
WholeInv == TidyInv /\ (Clean => Whole)

\* What a cycle says.
Voiced(x, y) ==
  /\ (y.state = "text") = (x.state = "text") /\ y.part = x.part /\ y.text = x.text

\* A message that is shown keeps its cycle while the cycle keeps its message.
LEMMA OwnSame ==
  ASSUME Shapes, OwnOK, Len(cycles) <= Len(cycles'), Len(cycles') \in Nat,
         \A c \in 1..Len(cycles) : cycles[c].msg # 0 /\ ~cycles[c].deleted =>
           cycles'[c].msg = cycles[c].msg /\ ~cycles'[c].deleted,
         \A m \in 1..Len(chat') : chat'[m].as = "own" =>
           m \in 1..Len(chat) /\ chat[m].as = "own" /\ chat'[m].cycle = chat[m].cycle
  PROVE  OwnOK'
<1> SUFFICES ASSUME NEW m \in 1..Len(chat'), chat'[m].as = "own"
             PROVE  /\ chat'[m].cycle \in 1..Len(cycles')
                    /\ cycles'[chat'[m].cycle].msg = m /\ ~cycles'[chat'[m].cycle].deleted
  BY DEF OwnOK
<1> DEFINE c == chat[m].cycle
<1>1. m \in 1..Len(chat) /\ chat[m].as = "own" /\ chat'[m].cycle = c OBVIOUS
<1>2. c \in 1..Len(cycles) /\ cycles[c].msg = m /\ ~cycles[c].deleted BY <1>1 DEF OwnOK
<1>3. m # 0 /\ c \in 1..Len(cycles') BY <1>1, <1>2 DEF Shapes
<1> QED BY <1>1, <1>2, <1>3

\* A step of the write under way keeps the answer whole if no cycle says anything else after it,
\* and if what it deletes was overtaken, said nothing, or goes with a silent end.
LEMMA StepWhole ==
  ASSUME BaseInv, Whole, ~late, NEW job, NextWrite(job), UNCHANGED <<closed, outcome, past>>,
         Len(cycles') = Len(cycles), OwnOK', ReactOK', ActiveOK', Clears(job, cycles'),
         \A c \in 1..Len(cycles) :
            /\ Voiced(cycles[c], cycles'[c])
            /\ \/ cycles'[c].deleted => cycles[c].deleted
               \/ c \in overtaken \/ cycles[c].text = {} \/ Quieting(job),
         Unconcluded(job) => Unconcluded(writes[1])
  PROVE  Whole'
<1> DEFINE n == Len(cycles)
<1>1. Shapes /\ EndOK BY ProjShapes DEF BaseInv
<1>2. /\ SameChain /\ job = writes'[1] /\ writes # <<>> /\ writes' # <<>>
      /\ closed' = closed /\ outcome' = outcome /\ parts' = parts /\ overtaken' = overtaken
      /\ n \in Nat /\ 1 <= n /\ n \in 1..n
  BY <1>1 DEF NextWrite, SameChain, past, Shapes
<1>3. DoneOK'
  <2>1. outcome # "done" BY <1>1, <1>2 DEF EndOK
  <2> QED BY <1>2, <2>1 DEF DoneOK
<1>4. DelOK' BY <1>2 DEF DelOK, Clears
<1>5. ASSUME NEW j \in 1..Len(writes')
      PROVE  /\ j \in 1..Len(writes)
             /\ Unconcluded(writes'[j]) => Unconcluded(writes[j])
             /\ Quieting(writes'[j]) = Quieting(writes[j])
  <2>1. j \in 1..Len(writes) BY <1>2 DEF SameChain
  <2>2. CASE j = 1 BY <1>2, <2>1, <2>2 DEF NextWrite, Quieting
  <2>3. CASE j # 1
    <3>1. writes'[j] = writes[j] BY <1>1, <1>2, <2>1, <2>3 DEF SameChain, Shapes
    <3> QED BY <2>1, <3>1
  <2> QED BY <2>2, <2>3
<1>6. PartsOK'
  <2> SUFFICES ASSUME ~closed \/ \E j \in 1..Len(writes') : Unconcluded(writes'[j])
               PROVE  OnePart(cycles)' /\ LastPart(cycles)'
    BY <1>2 DEF PartsOK
  <2>1. OnePart(cycles) /\ LastPart(cycles) BY <1>5 DEF Whole, PartsOK
  <2>2. OnePart(cycles)'
    <3> SUFFICES ASSUME NEW c \in 1..n, NEW k \in cycles'[c].text
                 PROVE  k = 0 \/ (k \in 1..Len(parts) /\ parts[k] = cycles'[c].part)
      BY <1>2 DEF OnePart
    <3>1. k \in cycles[c].text /\ cycles'[c].part = cycles[c].part BY DEF Voiced
    <3> QED BY <2>1, <3>1 DEF OnePart
  <2>3. LastPart(cycles)' BY <1>2, <2>1 DEF LastPart, Voiced
  <2> QED BY <2>2, <2>3
<1>7. CovOK'
  <2> SUFFICES ASSUME Outspoken', NEW k \in 1..Len(parts)
               PROVE  HasPlace(k)'
    BY <1>2 DEF CovOK
  <2>1. Len(writes') = Len(writes) /\ Len(writes) \in Nat /\ 1 <= Len(writes)
    BY <1>1, <1>2 DEF SameChain, Shapes
  <2>2. Outspoken /\ ~Quieting(job)
    <3>1. 1 \in 1..Len(writes') BY <2>1
    <3> QED BY <1>2, <1>5, <2>1, <3>1 DEF Outspoken
  <2>3. PICK c \in 1..n : k \in cycles[c].text /\ (c \in overtaken \/ ~cycles[c].deleted)
    BY <2>2 DEF Whole, CovOK, HasPlace
  <2>4. k \in cycles'[c].text /\ (c \in overtaken \/ ~cycles'[c].deleted)
    BY <2>2, <2>3 DEF Voiced
  <2> QED BY <1>2, <2>4 DEF HasPlace
<1> QED BY <1>3, <1>4, <1>6, <1>7 DEF Whole

\* A step that only says where the write goes on, or marks a cycle, keeps the answer whole.
LEMMA StandWhole ==
  ASSUME BaseInv, Whole, ~late, NEW job, NextWrite(job), HeadAside, target' = target,
         Len(cycles') = Len(cycles),
         \A c \in 1..Len(cycles) :
            /\ Voiced(cycles[c], cycles'[c]) /\ cycles'[c].msg = cycles[c].msg
            /\ cycles'[c].deleted => cycles[c].deleted,
         Unmarked(job) => Unmarked(writes[1]), Unconcluded(job) => Unconcluded(writes[1]),
         Replacing(writes[1]) => Replacing(job), Clears(job, cycles),
         job.kind = "move" /\ job.at = "delete" => job.c \in 1..Len(cycles)
  PROVE  Whole'
<1> DEFINE n == Len(cycles)
<1>1. Shapes BY ProjShapes DEF BaseInv
<1>2. /\ job = writes'[1] /\ writes # <<>> /\ writes' # <<>> /\ chat' = chat /\ reacted' = reacted
      /\ closed' = closed /\ outcome' = outcome /\ overtaken' = overtaken /\ UNCHANGED past
      /\ n \in Nat /\ n \in 1..n
  BY <1>1 DEF NextWrite, SameChain, HeadAside, past, Shapes
<1>3. OwnOK'
  <2>1. OwnOK BY DEF Whole
  <2> QED BY <1>1, <1>2, <2>1, OwnSame
<1>4. ReactOK' BY <1>2 DEF Whole, ReactOK
<1>5. ActiveOK' BY <1>2 DEF Whole, ActiveOK
<1>6. Clears(job, cycles') BY DEF Clears, Voiced
<1> QED BY <1>2, <1>3, <1>4, <1>5, <1>6, StepWhole

\* Only the jobs change: the reaction and the message it is about stay where they are.
LEMMA OnlyJobsTarget ==
  ASSUME OnlyJobs
  PROVE  target' = target /\ reacted' = reacted
BY DEF OnlyJobs, shown

\* A cycle that says what it said and is there if it was.
Standing(x, y) == Voiced(x, y) /\ y.msg = x.msg /\ (y.deleted => x.deleted)

\* Marking a cycle as complete or failed, or showing the working text, says nothing else.
LEMMA MarkedStands ==
  ASSUME NEW x \in OutputCycle, NEW y,
         \/ y = x \/ y = [x EXCEPT !.completed = TRUE] \/ y = [x EXCEPT !.failed = TRUE]
         \/ y = Blank(x) /\ x.state # "text"
  PROVE  Standing(x, y)
<1>1. CASE y = x BY <1>1 DEF Standing, Voiced
<1>2. CASE y = [x EXCEPT !.completed = TRUE] \/ y = [x EXCEPT !.failed = TRUE]
  <2>1. /\ y.msg = x.msg /\ y.state = x.state /\ y.part = x.part /\ y.text = x.text
        /\ y.deleted = x.deleted
    BY <1>2 DEF OutputCycle
  <2> QED BY <2>1 DEF Standing, Voiced
<1>3. CASE y = Blank(x) /\ x.state # "text"
  <2>1. x.part \in Nat /\ x.text \in SUBSET Nat BY CycleTypes
  <2>2. y = Changed(x, "transient", x.part, x.text) BY <1>3 DEF Blank
  <2>3. /\ y.msg = x.msg /\ y.part = x.part /\ y.state = "transient" /\ y.text = x.text
        /\ y.deleted = x.deleted
    BY <2>1, <2>2, ChangedCycle
  <2> QED BY <1>3, <2>3 DEF Standing, Voiced
<1> QED BY <1>1, <1>2, <1>3

\* The same for all cycles, of which at most one is marked.
LEMMA OneMarkStands ==
  ASSUME Shapes, NEW m \in 1..Len(cycles),
         \/ cycles'[m] = cycles[m] \/ cycles'[m] = [cycles[m] EXCEPT !.completed = TRUE]
         \/ cycles'[m] = [cycles[m] EXCEPT !.failed = TRUE]
         \/ cycles'[m] = Blank(cycles[m]) /\ cycles[m].state # "text",
         \A d \in 1..Len(cycles) : d # m => cycles'[d] = cycles[d]
  PROVE  \A c \in 1..Len(cycles) : Standing(cycles[c], cycles'[c])
<1> TAKE c \in 1..Len(cycles)
<1>1. cycles[c] \in OutputCycle BY DEF Shapes
<1>2. \/ cycles'[c] = cycles[c] \/ cycles'[c] = [cycles[c] EXCEPT !.completed = TRUE]
      \/ cycles'[c] = [cycles[c] EXCEPT !.failed = TRUE]
      \/ cycles'[c] = Blank(cycles[c]) /\ cycles[c].state # "text"
  OBVIOUS
<1> QED BY <1>1, <1>2, MarkedStands

\* A write that is no move and does not go back keeps the answer whole if the cycles stand.
LEMMA GoesOnWhole ==
  ASSUME BaseInv, Whole, ~late, NEW job, NextWrite(job), HeadAside, target' = target,
         Len(cycles') = Len(cycles),
         \A c \in 1..Len(cycles) : Standing(cycles[c], cycles'[c]),
         writes[1].kind # "move", writes[1].at # "unreact",
         job.at # "unreact" /\ (job.at = "conclude" => writes[1].at = "conclude")
  PROVE  Whole'
<1>1. job.kind = writes[1].kind BY DEF NextWrite
<1>2. /\ Unmarked(job) => Unmarked(writes[1])
      /\ Unconcluded(job) => Unconcluded(writes[1])
      /\ Replacing(writes[1]) => Replacing(job) /\ Clears(job, cycles)
  BY <1>1 DEF Unmarked, Unconcluded, Replacing
<1>3. Clears(job, cycles) BY <1>1 DEF Clears
<1> QED BY <1>1, <1>2, <1>3, StandWhole DEF Standing

\* A step of a move keeps the answer whole if the reaction is where it was.
LEMMA MovesWhole ==
  ASSUME BaseInv, Whole, ~late, NEW job, NextWrite(job), HeadAside, target' = target,
         Len(cycles') = Len(cycles),
         \A c \in 1..Len(cycles) : Standing(cycles[c], cycles'[c]),
         writes[1].kind = "move", Unmarked(job) => Unmarked(writes[1]),
         Replacing(writes[1]) => Replacing(job), Clears(job, cycles),
         job.at = "delete" => job.c \in 1..Len(cycles)
  PROVE  Whole'
<1>1. job.kind = "move" BY DEF NextWrite
<1>2. ~Unconcluded(job) BY <1>1 DEF Unconcluded
<1> QED BY <1>1, <1>2, StandWhole DEF Standing

\* Asking for an edit, a recall or a message keeps the answer whole.
LEMMA EditNowWhole ==
  ASSUME BaseInv, Whole, ~late, NEW j \in 1..Len(writes), EditNow(j)
  PROVE  Whole'
<1> DEFINE n == Len(cycles)
           old == writes[1]
           job == writes'[1]
<1>1. /\ NextWrite(job) /\ HeadAside /\ SameCycles
      /\ old.at = "edit" /\ old.call.op = "none" /\ old.c \in 1..n
      /\ job.at \in {old.then, "edit"}
  BY EditNowSteps
<1>2. WriteOK(old, n, closed, options.streaming) /\ old \in QueuedWrite
  BY AtHand DEF EditNow, Here
<1>3. target' = target BY OnlyJobsTarget DEF EditNow
<1>4. StepsOK(old) /\ old.kind \in {"flush", "create", "move", "finish", "fail"}
  BY <1>2, WriteTypes DEF WriteOK
<1>5. job.kind = old.kind /\ Len(cycles') = n BY <1>1 DEF NextWrite, SameCycles
<1>6. \A c \in 1..n : Standing(cycles[c], cycles'[c])
  BY <1>1 DEF SameCycles, Alike, Standing, Voiced
<1>7. job.at \in {"end", "emit", "keep", "rewrite", "notice", "failed", "edit"}
      /\ (old.kind = "move" => job.at \in {"emit", "edit"})
  BY <1>1, <1>4 DEF StepsOK
<1> HIDE DEF job
<1>8. CASE old.kind = "move"
  <2>1. ~Unmarked(job) /\ ~Replacing(old) /\ Clears(job, cycles) /\ job.at # "delete"
    BY <1>1, <1>5, <1>7, <1>8 DEF Unmarked, Replacing, Clears
  <2> QED BY <1>1, <1>3, <1>5, <1>6, <1>8, <2>1, MovesWhole
<1>9. CASE old.kind # "move"
  <2>1. old.at # "unreact" /\ job.at # "unreact" /\ job.at # "conclude" BY <1>1, <1>7
  <2> QED BY <1>1, <1>3, <1>5, <1>6, <1>9, <2>1, GoesOnWhole
<1> QED BY <1>8, <1>9

\* Asking for a message keeps the answer whole: a move has its new cycle by then.
LEMMA CreateNowWhole ==
  ASSUME BaseInv, Whole, ~late, NEW j \in 1..Len(writes), CreateNow(j)
  PROVE  Whole'
<1> DEFINE n == Len(cycles)
           old == writes[1]
           job == writes'[1]
<1>1. /\ NextWrite(job) /\ HeadAside /\ cycles' = cycles
      /\ old.at = "create" /\ job.at \in {old.then, "create"}
  BY CreateNowSteps
<1>2. WriteOK(old, n, closed, options.streaming) /\ old \in QueuedWrite
  BY AtHand DEF CreateNow, Here
<1>3. target' = target BY OnlyJobsTarget DEF CreateNow
<1>4. StepsOK(old) /\ old.kind \in {"flush", "create", "move", "finish", "fail"}
  BY <1>2, WriteTypes DEF WriteOK
<1>5. job.kind = old.kind BY <1>1 DEF NextWrite
<1>6. \A c \in 1..n : Standing(cycles[c], cycles'[c]) BY <1>1 DEF Standing, Voiced
<1>7. old.kind \in {"create", "move"} /\ job.at \in {"react", "create", "end"}
  BY <1>1, <1>4 DEF StepsOK
<1> HIDE DEF job
<1>8. CASE old.kind = "move"
  <2>1. Unmarked(old) /\ ~Replacing(old) /\ Clears(job, cycles) /\ job.at # "delete"
    BY <1>1, <1>7, <1>8 DEF Unmarked, Replacing, Clears
  <2> QED BY <1>1, <1>3, <1>6, <1>8, <2>1, MovesWhole
<1>9. CASE old.kind # "move"
  <2>1. old.at # "unreact" /\ job.at # "unreact" /\ job.at # "conclude" BY <1>1, <1>7
  <2> QED BY <1>1, <1>3, <1>6, <1>9, <2>1, GoesOnWhole
<1> QED BY <1>8, <1>9

\* The other calls keep the answer whole: they are made where the write is.
LEMMA CallNowWhole ==
  ASSUME BaseInv, Whole, ~late, NEW j \in 1..Len(writes), CallNow(j)
  PROVE  Whole'
<1> DEFINE n == Len(cycles)
           old == writes[1]
           job == writes'[1]
<1>1. /\ NextWrite(job) /\ HeadAside /\ cycles' = cycles /\ job.at = old.at /\ job.c = old.c
  BY CallNowSteps
<1>2. /\ WriteOK(old, n, closed, options.streaming) /\ writes # <<>>
  BY AtHand DEF CallNow, Here
<1>3. target' = target BY OnlyJobsTarget DEF CallNow
<1>4. job.kind = old.kind BY <1>1 DEF NextWrite
<1>5. \A c \in 1..n : Voiced(cycles[c], cycles'[c]) BY <1>1 DEF Voiced
<1>6. job.at = "delete" => job.c \in 1..n BY <1>1, <1>2 DEF WriteOK
<1>7. Clears(old, cycles) BY <1>2 DEF Whole, DelOK
<1>8. /\ Unmarked(job) = Unmarked(old) /\ Unconcluded(job) = Unconcluded(old)
      /\ Replacing(old) = Replacing(job) /\ Clears(job, cycles)
  BY <1>1, <1>4, <1>7 DEF Unmarked, Unconcluded, Replacing, Clears
<1> HIDE DEF job
<1> QED BY <1>1, <1>3, <1>5, <1>6, <1>8, StandWhole

\* A move takes nothing away but a message without an answer.
LEMMA PreviousWhole ==
  ASSUME BaseInv, Whole, ~late, NEW j \in 1..Len(writes), Previous(j)
  PROVE  Whole'
<1> DEFINE n == Len(cycles)
           old == writes[1]
           job == writes'[1]
<1>1. /\ NextWrite(job) /\ HeadAside /\ old.at = "previous" /\ old.kind = "move"
      /\ Len(cycles') = n
      /\ \/ /\ cycles[n].state = "text" /\ job.at = "edit"
            /\ cycles'[n] = [cycles[n] EXCEPT !.completed = TRUE]
            /\ \A c \in 1..n : c # n => cycles'[c] = cycles[c]
         \/ cycles[n].state # "text" /\ cycles' = cycles /\ job.at = "delete" /\ job.c = n
         \/ cycles' = cycles /\ job.at = "unreact"
  BY PreviousSteps
<1>2. Shapes /\ n \in 1..n BY AtHand DEF Previous, Here
<1>3. target' = target BY OnlyJobsTarget DEF Previous
<1>4. \A c \in 1..n : Standing(cycles[c], cycles'[c])
  <2>1. /\ \/ cycles'[n] = cycles[n] \/ cycles'[n] = [cycles[n] EXCEPT !.completed = TRUE]
        /\ \A d \in 1..n : d # n => cycles'[d] = cycles[d]
    BY <1>1
  <2> QED BY <1>2, <2>1, OneMarkStands
<1>5. /\ job.kind = "move" /\ job.at \in {"edit", "delete", "unreact"}
      /\ (job.at = "delete" => job.c = n /\ cycles[n].state # "text")
  BY <1>1 DEF NextWrite
<1>6. ~Replacing(old) BY <1>1 DEF Replacing
<1> HIDE DEF job
<1>7. ~Unmarked(job) /\ Clears(job, cycles) BY <1>5 DEF Unmarked, Clears
<1>8. job.at = "delete" => job.c \in 1..n BY <1>2, <1>5
<1> QED BY <1>1, <1>3, <1>4, <1>5, <1>6, <1>7, <1>8, MovesWhole

\* Reporting the frozen answer says nothing.
LEMMA EmitNowWhole ==
  ASSUME BaseInv, Whole, ~late, NEW j \in 1..Len(writes), EmitNow(j)
  PROVE  Whole'
<1> DEFINE job == writes'[1]
<1>1. /\ NextWrite(job) /\ HeadAside /\ cycles' = cycles
      /\ writes[1].at = "emit" /\ writes[1].kind = "move" /\ job.at = "unreact"
  BY EmitNowSteps
<1>2. target' = target BY OnlyJobsTarget DEF EmitNow
<1>3. \A c \in 1..Len(cycles) : Standing(cycles[c], cycles'[c]) BY <1>1 DEF Standing, Voiced
<1>4. ~Unmarked(job) /\ ~Replacing(writes[1]) /\ Clears(job, cycles) /\ job.at # "delete"
  BY <1>1 DEF Unmarked, Replacing, Clears
<1> HIDE DEF job
<1> QED BY <1>1, <1>2, <1>3, <1>4, MovesWhole

\* A move goes below the steering message after the reaction was taken off the one before.
LEMMA ForkWhole ==
  ASSUME BaseInv, Whole, ~late, NEW j \in 1..Len(writes), Fork(j)
  PROVE  Whole'
<1> DEFINE n == Len(cycles)
           old == writes[1]
           job == writes'[1]
<1>1. /\ NextWrite(job) /\ HeadAside /\ old.at = "fork" /\ old.kind = "move" /\ job.at = "create"
      /\ Len(cycles') = n + 1 /\ \A c \in 1..n : cycles'[c] = cycles[c]
      /\ cycles'[n + 1] = Cycle("transient", 0, {}, FALSE)
  BY ForkSteps
<1>2. Shapes /\ writes # <<>> /\ n \in Nat /\ 1 <= n /\ n \in 1..n BY AtHand DEF Fork, Here
<1>3. /\ SameChain /\ job.kind = "move" /\ writes' # <<>> /\ chat' = chat /\ reacted' = reacted
      /\ closed' = closed /\ outcome' = outcome /\ overtaken' = overtaken /\ parts' = parts
  BY <1>1 DEF NextWrite, SameChain, HeadAside, past
<1>4. /\ cycles'[n + 1].text = {} /\ cycles'[n + 1].state = "transient"
      /\ ~cycles'[n + 1].deleted /\ cycles'[n + 1].msg = 0
  BY <1>1 DEF Cycle
<1>5. \A c \in 1..n + 1 : c \in 1..n \/ c = n + 1 BY <1>2
<1>6. OwnOK'
  <2>1. OwnOK BY DEF Whole
  <2>2. Len(cycles) <= Len(cycles') /\ Len(cycles') \in Nat BY <1>1, <1>2
  <2> QED BY <1>1, <1>2, <1>3, <2>1, <2>2, OwnSame
<1>7. ReactOK'
  <2>1. Unmarked(old) BY <1>1 DEF Unmarked
  <2>2. reacted = {} BY <1>2, <2>1 DEF Whole, ReactOK
  <2> QED BY <1>3, <2>2 DEF ReactOK
<1>8. DoneOK'
  <2>1. outcome # "done" BY <1>2 DEF BaseInv, EndOK
  <2> QED BY <1>3, <2>1 DEF DoneOK
<1>9. ActiveOK' BY <1>1, <1>4 DEF ActiveOK
<1>10. DelOK' BY <1>1, <1>3 DEF DelOK, Clears
<1>11. ASSUME NEW i \in 1..Len(writes')
       PROVE  /\ i \in 1..Len(writes) /\ Quieting(writes'[i]) = Quieting(writes[i])
              /\ Unconcluded(writes'[i]) => Unconcluded(writes[i])
  <2>1. i \in 1..Len(writes) BY <1>3 DEF SameChain
  <2>2. CASE i = 1 BY <1>1, <1>3, <2>1, <2>2 DEF Quieting, Unconcluded
  <2>3. CASE i # 1
    <3>1. writes'[i] = writes[i] BY <1>2, <1>3, <2>1, <2>3 DEF SameChain, Shapes
    <3> QED BY <2>1, <3>1
  <2> QED BY <2>2, <2>3
<1>12. PartsOK'
  <2> SUFFICES ASSUME ~closed \/ \E i \in 1..Len(writes') : Unconcluded(writes'[i])
               PROVE  OnePart(cycles)' /\ LastPart(cycles)'
    BY <1>3 DEF PartsOK
  <2>1. OnePart(cycles) BY <1>11 DEF Whole, PartsOK
  <2>2. OnePart(cycles)'
    <3> SUFFICES ASSUME NEW c \in 1..n + 1, NEW k \in cycles'[c].text
                 PROVE  k = 0 \/ (k \in 1..Len(parts) /\ parts[k] = cycles'[c].part)
      BY <1>1, <1>3 DEF OnePart
    <3>1. c \in 1..n /\ cycles'[c] = cycles[c] BY <1>1, <1>4, <1>5
    <3> QED BY <2>1, <3>1 DEF OnePart
  <2>3. LastPart(cycles)' BY <1>1, <1>4 DEF LastPart
  <2> QED BY <2>2, <2>3
<1>13. CovOK'
  <2> SUFFICES ASSUME Outspoken', NEW k \in 1..Len(parts)
               PROVE  HasPlace(k)'
    BY <1>3 DEF CovOK
  <2>1. Len(writes') = Len(writes) BY <1>3 DEF SameChain
  <2>2. Outspoken BY <1>3, <1>11, <2>1 DEF Outspoken
  <2>3. PICK c \in 1..n : k \in cycles[c].text /\ (c \in overtaken \/ ~cycles[c].deleted)
    BY <2>2 DEF Whole, CovOK, HasPlace
  <2>4. c \in 1..Len(cycles') BY <1>1, <1>2
  <2> QED BY <1>1, <1>3, <2>3, <2>4 DEF HasPlace
<1> QED BY <1>6, <1>7, <1>8, <1>9, <1>10, <1>12, <1>13 DEF Whole

\* The loop that deletes messages has taken the reaction away before.
LEMMA SweepWhole ==
  ASSUME BaseInv, Whole, ~late, NEW j \in 1..Len(writes), Sweep(j)
  PROVE  Whole'
<1> DEFINE job == writes'[1]
<1>1. /\ NextWrite(job) /\ HeadAside /\ cycles' = cycles
      /\ writes[1].at \in {"remove", "spare", "keep"} /\ writes[1].kind = "finish"
      /\ job.at \in {"delete", "over"}
  BY SweepSteps
<1>2. target' = target BY OnlyJobsTarget DEF Sweep
<1>3. \A c \in 1..Len(cycles) : Standing(cycles[c], cycles'[c]) BY <1>1 DEF Standing, Voiced
<1>4. /\ writes[1].kind # "move" /\ writes[1].at # "unreact"
      /\ job.at \notin {"unreact", "conclude"}
  BY <1>1
<1> HIDE DEF job
<1> QED BY <1>1, <1>2, <1>3, <1>4, GoesOnWhole

\* What is over says what it said.
LEMMA OverWhole ==
  ASSUME BaseInv, Whole, ~late, NEW j \in 1..Len(writes), Over(j)
  PROVE  Whole'
<1> DEFINE n == Len(cycles)
           job == writes'[1]
<1>1. /\ NextWrite(job) /\ HeadAside /\ Len(cycles') = n
      /\ writes[1].at = "over" /\ writes[1].kind = "finish" /\ job.at \in {"over", "end"}
      /\ \/ /\ job.c \in 1..n /\ cycles'[job.c] = [cycles[job.c] EXCEPT !.completed = TRUE]
            /\ \A d \in 1..n : d # job.c => cycles'[d] = cycles[d]
         \/ cycles' = cycles
  BY OverSteps
<1>2. Shapes BY AtHand DEF Over, Here
<1>3. target' = target BY OnlyJobsTarget DEF Over
<1>4. writes[1].kind # "move" /\ writes[1].at # "unreact" /\ job.at \notin {"unreact", "conclude"}
  BY <1>1
<1> HIDE DEF job
<1>5. \A c \in 1..n : Standing(cycles[c], cycles'[c])
  <2>1. CASE cycles' = cycles BY <2>1 DEF Standing, Voiced
  <2>2. CASE cycles' # cycles BY <1>1, <1>2, <2>2, OneMarkStands
  <2> QED BY <2>1, <2>2
<1> QED BY <1>1, <1>3, <1>4, <1>5, GoesOnWhole

\* The active cycle is over and says what it said.
LEMMA CompleteWhole ==
  ASSUME BaseInv, Whole, ~late, NEW j \in 1..Len(writes), Complete(j)
  PROVE  Whole'
<1> DEFINE n == Len(cycles)
           job == writes'[1]
<1>1. /\ NextWrite(job) /\ HeadAside /\ Len(cycles') = n
      /\ writes[1].at = "complete" /\ Answering(writes[1]) /\ job.at = "rewrite"
      /\ cycles'[n] = [cycles[n] EXCEPT !.completed = TRUE]
      /\ \A d \in 1..n : d # n => cycles'[d] = cycles[d]
  BY CompleteSteps
<1>2. Shapes /\ n \in 1..n BY AtHand DEF Complete, Here
<1>3. target' = target BY OnlyJobsTarget DEF Complete
<1>4. writes[1].kind # "move" /\ writes[1].at # "unreact" /\ job.at \notin {"unreact", "conclude"}
  BY <1>1 DEF Answering
<1>5. \A c \in 1..n : Standing(cycles[c], cycles'[c]) BY <1>1, <1>2, OneMarkStands
<1> HIDE DEF job
<1> QED BY <1>1, <1>3, <1>4, <1>5, GoesOnWhole

\* The loop that writes out the texts changes none.
LEMMA RewriteWhole ==
  ASSUME BaseInv, Whole, ~late, NEW j \in 1..Len(writes), Rewrite(j)
  PROVE  Whole'
<1> DEFINE job == writes'[1]
<1>1. /\ NextWrite(job) /\ HeadAside /\ cycles' = cycles
      /\ writes[1].at = "rewrite" /\ Answering(writes[1]) /\ job.at \in {"edit", "end"}
  BY RewriteSteps
<1>2. target' = target BY OnlyJobsTarget DEF Rewrite
<1>3. \A c \in 1..Len(cycles) : Standing(cycles[c], cycles'[c]) BY <1>1 DEF Standing, Voiced
<1>4. writes[1].kind # "move" /\ writes[1].at # "unreact" /\ job.at \notin {"unreact", "conclude"}
  BY <1>1 DEF Answering
<1> HIDE DEF job
<1> QED BY <1>1, <1>2, <1>3, <1>4, GoesOnWhole

\* Writing the words so far changes none of them.
LEMMA WordsWhole ==
  ASSUME BaseInv, Whole, ~late, NEW j \in 1..Len(writes), Words(j)
  PROVE  Whole'
<1> DEFINE job == writes'[1]
<1>1. /\ NextWrite(job) /\ HeadAside /\ cycles' = cycles
      /\ writes[1].at = "words" /\ writes[1].kind = "fail" /\ job.at \in {"edit", "notice"}
  BY WordsSteps
<1>2. target' = target BY OnlyJobsTarget DEF Words
<1>3. \A c \in 1..Len(cycles) : Standing(cycles[c], cycles'[c]) BY <1>1 DEF Standing, Voiced
<1>4. writes[1].kind # "move" /\ writes[1].at # "unreact" /\ job.at \notin {"unreact", "conclude"}
  BY <1>1
<1> HIDE DEF job
<1> QED BY <1>1, <1>2, <1>3, <1>4, GoesOnWhole

\* The notice takes the place of the working text, never of an answer.
LEMMA NoticeWhole ==
  ASSUME BaseInv, Whole, ~late, NEW j \in 1..Len(writes), Notice(j)
  PROVE  Whole'
<1> DEFINE n == Len(cycles)
           job == writes'[1]
<1>1. /\ NextWrite(job) /\ HeadAside /\ Len(cycles') = n
      /\ writes[1].at = "notice" /\ writes[1].kind = "fail" /\ job.at \in {"edit", "post"}
      /\ \A d \in 1..n : d # n => cycles'[d] = cycles[d]
      /\ \/ cycles'[n] = Blank(cycles[n]) /\ cycles[n].state # "text"
         \/ cycles'[n] = [cycles[n] EXCEPT !.completed = TRUE]
  BY NoticeSteps
<1>2. Shapes /\ n \in 1..n BY AtHand DEF Notice, Here
<1>3. target' = target BY OnlyJobsTarget DEF Notice
<1>4. writes[1].kind # "move" /\ writes[1].at # "unreact" /\ job.at \notin {"unreact", "conclude"}
  BY <1>1
<1>5. \A c \in 1..n : Standing(cycles[c], cycles'[c]) BY <1>1, <1>2, OneMarkStands
<1> HIDE DEF job
<1> QED BY <1>1, <1>3, <1>4, <1>5, GoesOnWhole

\* A failed run ends with what it said.
LEMMA FailedWhole ==
  ASSUME BaseInv, Whole, ~late, NEW j \in 1..Len(writes), Failed(j)
  PROVE  Whole'
<1> DEFINE n == Len(cycles)
           job == writes'[1]
<1>1. /\ NextWrite(job) /\ HeadAside /\ Len(cycles') = n
      /\ writes[1].at = "failed" /\ writes[1].kind = "fail" /\ job.at = "end"
      /\ cycles'[n] = [cycles[n] EXCEPT !.failed = TRUE]
      /\ \A d \in 1..n : d # n => cycles'[d] = cycles[d]
  BY FailedSteps
<1>2. Shapes /\ n \in 1..n BY AtHand DEF Failed, Here
<1>3. target' = target BY OnlyJobsTarget DEF Failed
<1>4. writes[1].kind # "move" /\ writes[1].at # "unreact" /\ job.at \notin {"unreact", "conclude"}
  BY <1>1
<1>5. \A c \in 1..n : Standing(cycles[c], cycles'[c]) BY <1>1, <1>2, OneMarkStands
<1> HIDE DEF job
<1> QED BY <1>1, <1>3, <1>4, <1>5, GoesOnWhole

\* A silent end says where it goes on; at most the working message is changed.
LEMMA SilenceWhole ==
  ASSUME BaseInv, Whole, ~late, NEW j \in 1..Len(writes), Conclude(j), writes[1].result = "silent"
  PROVE  Whole'
<1> DEFINE n == Len(cycles)
           old == writes[1]
           job == writes'[1]
<1>1. /\ HeadAside /\ rows' = rows /\ old.at = "conclude" /\ old.kind = "finish" /\ j = 1
  BY ConcludeBase
<1>2. Here(j, "conclude") /\ OnlyJobs /\ Silence(j) BY <1>1 DEF Conclude
<1>3. /\ NextWrite(job) /\ Len(cycles') = n
      /\ \/ cycles' = cycles /\ job.at = "remove"
         \/ cycles' = cycles /\ job.at = "silence"
         \/ /\ cycles[n].state # "text" /\ cycles'[n] = Blank(cycles[n])
            /\ \A d \in 1..n : d # n => cycles'[d] = cycles[d]
            /\ job.at = "edit"
         \/ cycles' = cycles /\ job.at = "over"
  BY <1>1, <1>2, SilenceSteps
<1>4. Shapes /\ n \in 1..n BY <1>2, AtHand DEF Here
<1>5. target' = target BY <1>2, OnlyJobsTarget
<1>6. old.kind # "move" /\ old.at # "unreact" /\ job.at \notin {"unreact", "conclude"}
  BY <1>1, <1>3
<1>7. \A c \in 1..n : Standing(cycles[c], cycles'[c])
  <2>1. /\ \/ cycles'[n] = cycles[n]
           \/ cycles'[n] = Blank(cycles[n]) /\ cycles[n].state # "text"
        /\ \A d \in 1..n : d # n => cycles'[d] = cycles[d]
    BY <1>3
  <2> QED BY <1>4, <2>1, OneMarkStands
<1> HIDE DEF job
<1> QED BY <1>1, <1>3, <1>5, <1>6, <1>7, GoesOnWhole

\* What the result puts in the place of a text has every chunk of it: a text that is the only one
\* has chunks of the last part, and so has one that the last part is the beginning of.
LEMMA AmendedKeeps ==
  ASSUME BaseInv, OnePart(cycles), LastPart(cycles), cycles[Len(cycles)].state = "text",
         NEW result, NEW said, NEW c \in 1..Len(cycles), c \in Amended(Terminal(result), said),
         NEW k \in 1..Len(parts), k \in cycles[c].text
  PROVE  k \in Terminal(result)
<1> DEFINE n == Len(cycles)
           last == parts[Len(parts)]
<1>1. parts \in Seq(Nat) /\ Len(parts) \in Nat /\ k # 0 /\ 1 <= Len(parts) /\ parts # <<>>
  <2>1. parts \in Seq(Nat) BY DEF BaseInv, ProjTypeOK
  <2> QED BY <2>1
<1>2. parts[k] = cycles[c].part BY <1>1 DEF OnePart
<1>3. CASE result = "all" BY <1>3 DEF Terminal
<1>4. CASE result = "last"
  <2>1. Terminal(result) = {i \in 1..Len(parts) : parts[i] = last}
    BY <1>1, <1>4 DEF Terminal, Chunks, Last
  <2>2. Len(parts) \in Terminal(result) BY <1>1, <2>1
  <2>3. \/ c = n
        \/ StartsWith(Terminal(result), cycles[c].text, TRUE)
        \/ StartsWith(cycles[c].text, Terminal(result), TRUE)
    BY DEF Amended, active
  <2>4. CASE c = n
    <3>1. cycles[n].part = last BY <1>1 DEF LastPart
    <3> QED BY <1>2, <2>1, <2>4, <3>1
  <2>5. CASE StartsWith(Terminal(result), cycles[c].text, TRUE) BY <2>5 DEF StartsWith
  <2>6. CASE StartsWith(cycles[c].text, Terminal(result), TRUE)
    <3>1. Len(parts) \in cycles[c].text /\ Len(parts) # 0 BY <1>1, <2>2, <2>6 DEF StartsWith
    <3>2. last = cycles[c].part BY <3>1 DEF OnePart
    <3> QED BY <1>2, <2>1, <3>2
  <2> QED BY <2>3, <2>4, <2>5, <2>6
<1>5. CASE result \notin {"all", "last"}
  <2>1. Terminal(result) = {} BY <1>5 DEF Terminal
  <2> QED BY <2>1 DEF Amended
<1> QED BY <1>3, <1>4, <1>5

\* An answer leaves every chunk where it was, or in the text it puts there.
LEMMA AnswerWhole ==
  ASSUME BaseInv, Whole, ~late, NEW j \in 1..Len(writes), Conclude(j), writes[1].result # "silent"
  PROVE  Whole'
<1> DEFINE n == Len(cycles)
           old == writes[1]
           job == writes'[1]
           terminal == Terminal(old.result)
<1>1. HeadAside /\ rows' = rows /\ old.at = "conclude" /\ old.kind = "finish" /\ j = 1
  BY ConcludeBase
<1>2. Here(j, "conclude") /\ OnlyJobs /\ Answer(j) BY <1>1 DEF Conclude
<1>3. /\ NextWrite(job) /\ Len(cycles') = n /\ job.at \in {"delete", "complete"}
      /\ \/ cycles' = cycles
         \/ /\ cycles[n].state # "text" /\ (cycles[n].msg = 0 \/ cycles[n].deleted)
            /\ cycles'[n] = [cycles[n] EXCEPT !.deleted = TRUE]
            /\ \A d \in 1..n : d # n => cycles'[d] = cycles[d]
         \/ /\ cycles[n].state # "text"
            /\ \E tail \in SUBSET Nat : cycles'[n] = Saying(cycles[n], tail)
            /\ \A d \in 1..n : d # n => cycles'[d] = cycles[d]
         \/ /\ cycles[n].state = "text"
            /\ \A c \in 1..n : cycles'[c] = IF c \in Amended(terminal, TextOf(Texts))
                                            THEN Saying(cycles[c], terminal) ELSE cycles[c]
  <2>1. /\ NextWrite(job) /\ Len(cycles') = n
        /\ \/ cycles' = cycles /\ job.at = "delete"
           \/ /\ cycles[n].state # "text" /\ (cycles[n].msg = 0 \/ cycles[n].deleted)
              /\ cycles'[n] = [cycles[n] EXCEPT !.deleted = TRUE]
              /\ \A d \in 1..n : d # n => cycles'[d] = cycles[d]
              /\ job.at = "complete"
           \/ /\ cycles[n].state # "text"
              /\ \E tail \in SUBSET Nat : cycles'[n] = Saying(cycles[n], tail)
              /\ \A d \in 1..n : d # n => cycles'[d] = cycles[d]
              /\ job.at = "complete"
           \/ /\ cycles[n].state = "text"
              /\ \A c \in 1..n : cycles'[c] = IF c \in Amended(terminal, TextOf(Texts))
                                              THEN Saying(cycles[c], terminal) ELSE cycles[c]
              /\ job.at = "complete"
    BY <1>1, <1>2, AnswerSteps
  <2> QED BY <2>1
<1>4. /\ ProjTypeOK /\ Shapes /\ n \in Nat /\ 1 <= n /\ n \in 1..n /\ writes # <<>>
  BY <1>2, AtHand DEF Here
<1>5. /\ SameChain /\ job.kind = "finish" /\ job.result = old.result /\ writes' # <<>>
      /\ chat' = chat /\ reacted' = reacted /\ closed' = closed /\ outcome' = outcome
      /\ overtaken' = overtaken /\ parts' = parts
  BY <1>1, <1>3 DEF NextWrite, SameChain, HeadAside, past
<1>6. target' = target BY <1>2, OnlyJobsTarget
<1>7. /\ closed /\ outcome = "ending"
      /\ \A i \in 2..Len(writes) : writes[i].kind # "finish"
  <2>1. Closing(old) /\ 1 \in 1..Len(writes) BY <1>1, <1>4 DEF Closing, Shapes
  <2>2. ASSUME NEW i \in 2..Len(writes) PROVE writes[i].kind # "finish"
    <3>1. i \in 1..Len(writes) /\ i # 1 OBVIOUS
    <3> QED BY <2>1, <3>1 DEF BaseInv, EndOK, Closing
  <2> QED BY <2>1, <2>2 DEF BaseInv, EndOK
<1>8. terminal \in SUBSET Nat BY <1>4, TerminalType
<1>9. OnePart(cycles) /\ LastPart(cycles)
  <2>1. 1 \in 1..Len(writes) /\ Unconcluded(old) BY <1>1, <1>4 DEF Shapes, Unconcluded
  <2> QED BY <2>1 DEF Whole, PartsOK
<1>10. ASSUME NEW c \in 1..n, NEW k \in 1..Len(parts), k \in cycles[c].text,
              c \in Amended(terminal, TextOf(Texts)), cycles[n].state = "text"
       PROVE  k \in terminal
  BY <1>9, <1>10, AmendedKeeps
<1> HIDE DEF terminal, job
<1>11. ASSUME NEW c \in 1..n, NEW text \in SUBSET Nat, cycles'[c] = Saying(cycles[c], text)
       PROVE  /\ cycles'[c].msg = cycles[c].msg /\ cycles'[c].deleted = cycles[c].deleted
              /\ cycles'[c].text = text
  <2>1. cycles[c] \in OutputCycle BY <1>4 DEF Shapes
  <2>2. cycles[c].part \in Nat BY <2>1, CycleTypes
  <2> QED BY <1>11, <2>1, <2>2, ChangedCycle DEF Saying
<1>12. ASSUME NEW c \in 1..n
       PROVE  /\ cycles'[c].msg = cycles[c].msg
              /\ cycles'[c].deleted => cycles[c].deleted \/ cycles[c].msg = 0
              /\ cycles'[c].deleted => cycles[c].deleted \/ cycles[c].text = {}
              /\ \A k \in 1..Len(parts) : k \in cycles[c].text => k \in cycles'[c].text
  <2>1. CASE cycles'[c] = cycles[c] BY <2>1
  <2>2. CASE c = n /\ cycles[n].state # "text"
    <3>1. cycles[n].text = {} /\ cycles[n] \in OutputCycle
      BY <1>4, <2>2 DEF ProjTypeOK, active, Shapes
    <3>2. CASE /\ cycles[n].msg = 0 \/ cycles[n].deleted
               /\ cycles'[n] = [cycles[n] EXCEPT !.deleted = TRUE]
      <4>1. cycles'[n].msg = cycles[n].msg /\ cycles'[n].text = cycles[n].text
        BY <3>1, <3>2, Marked
      <4> QED BY <2>2, <3>1, <3>2, <4>1
    <3>3. CASE \E tail \in SUBSET Nat : cycles'[n] = Saying(cycles[n], tail)
      <4>1. cycles'[n].msg = cycles[n].msg /\ cycles'[n].deleted = cycles[n].deleted
        BY <1>4, <1>11, <3>3
      <4> QED BY <2>2, <3>1, <4>1
    <3> QED BY <1>3, <2>1, <2>2, <3>2, <3>3
  <2>3. CASE /\ cycles[n].state = "text" /\ c \in Amended(terminal, TextOf(Texts))
             /\ cycles'[c] = Saying(cycles[c], terminal)
    <3>1. /\ cycles'[c].msg = cycles[c].msg /\ cycles'[c].deleted = cycles[c].deleted
          /\ cycles'[c].text = terminal
      BY <1>8, <1>11, <2>3
    <3>2. \A k \in 1..Len(parts) : k \in cycles[c].text => k \in terminal BY <1>10, <2>3
    <3> QED BY <3>1, <3>2
  <2> QED BY <1>3, <2>1, <2>2, <2>3
<1>13. OwnOK'
  <2>1. OwnOK BY DEF Whole
  <2>2. \A c \in 1..n : cycles[c].msg # 0 /\ ~cycles[c].deleted =>
          cycles'[c].msg = cycles[c].msg /\ ~cycles'[c].deleted
    BY <1>12
  <2> QED BY <1>3, <1>4, <1>5, <2>1, <2>2, OwnSame
<1>14. ReactOK'
  <2>1. Unmarked(old) BY <1>1 DEF Unmarked
  <2>2. reacted = {} BY <1>4, <2>1 DEF Whole, ReactOK
  <2> QED BY <1>5, <2>2 DEF ReactOK
<1>15. DoneOK' BY <1>5, <1>7 DEF DoneOK
<1>16. ActiveOK' BY <1>5, <1>7 DEF ActiveOK
<1>17. DelOK'
  <2>1. writes'[1].kind = "finish" BY <1>5 DEF job
  <2> QED BY <2>1 DEF DelOK, Clears
<1>18. ASSUME NEW i \in 1..Len(writes')
       PROVE  /\ i \in 1..Len(writes) /\ Quieting(writes'[i]) = Quieting(writes[i])
              /\ ~Unconcluded(writes'[i])
  <2>1. i \in 1..Len(writes) BY <1>5 DEF SameChain
  <2>2. CASE i = 1 BY <1>1, <1>3, <1>5, <2>1, <2>2 DEF job, Quieting, Unconcluded
  <2>3. CASE i # 1
    <3>1. i \in 2..Len(writes) BY <1>4, <2>1, <2>3 DEF Shapes
    <3>2. writes'[i] = writes[i] BY <1>5, <3>1 DEF SameChain
    <3> QED BY <1>7, <2>1, <3>1, <3>2 DEF Unconcluded
  <2> QED BY <2>2, <2>3
<1>19. PartsOK' BY <1>5, <1>7, <1>18 DEF PartsOK
<1>20. CovOK'
  <2> SUFFICES ASSUME Outspoken', NEW k \in 1..Len(parts)
               PROVE  HasPlace(k)'
    BY <1>5 DEF CovOK
  <2>1. Len(writes') = Len(writes) BY <1>5 DEF SameChain
  <2>2. Outspoken BY <1>5, <1>18, <2>1 DEF Outspoken
  <2>3. PICK c \in 1..n : k \in cycles[c].text /\ (c \in overtaken \/ ~cycles[c].deleted)
    BY <2>2 DEF Whole, CovOK, HasPlace
  <2>4. k \in cycles'[c].text /\ (c \in overtaken \/ ~cycles'[c].deleted) BY <1>12, <2>3
  <2> QED BY <1>3, <1>5, <2>4 DEF HasPlace
<1> QED BY <1>13, <1>14, <1>15, <1>16, <1>17, <1>19, <1>20 DEF Whole

\* A reply keeps the answer whole if its messages are those of cycles that are there, the reaction
\* is where the write leaves it, and what it deletes said nothing, was overtaken, or is to go.
LEMMA LandWhole ==
  ASSUME BaseInv, Whole, ~late, NEW job, NextWrite(job), LandAside, Len(cycles') = Len(cycles),
         OwnOK', reacted' \subseteq {target}, Unmarked(job) => Unmarked(writes[1]) \/ reacted' = {},
         reacted' = reacted \/ ~Unmarked(writes[1]),
         ~closed /\ cycles'[Len(cycles)].deleted => Replacing(job),
         job.kind = "move" => job.at # "delete",
         \A c \in 1..Len(cycles) :
            /\ Voiced(cycles[c], cycles'[c])
            /\ \/ cycles'[c].deleted => cycles[c].deleted
               \/ c \in overtaken \/ cycles[c].text = {} \/ Quieting(job),
         Unconcluded(job) => Unconcluded(writes[1])
  PROVE  Whole'
<1>1. /\ job = writes'[1] /\ writes' # <<>> /\ writes # <<>> /\ target' = target
      /\ UNCHANGED <<closed, outcome, past>>
  BY DEF NextWrite, SameChain, LandAside, past
<1>2. ReactOK'
  <2>1. Unmarked(job) => reacted' = {} BY <1>1 DEF Whole, ReactOK
  <2> QED BY <1>1, <2>1 DEF ReactOK
<1>3. ActiveOK' BY <1>1 DEF ActiveOK
<1>4. Clears(job, cycles') BY DEF Clears
<1> QED BY <1>1, <1>2, <1>3, <1>4, StepWhole

\* The reply of an edit: the message shows another version, of the same cycle.
LEMMA LandEditWhole ==
  ASSUME BaseInv, Whole, ~late, NEW j \in 1..Len(writes), Land(j), writes[1].call.op = "edit"
  PROVE  Whole'
<1> DEFINE n == Len(cycles)
           old == writes[1]
           job == writes'[1]
           m == old.call.msg
<1>1. /\ Shapes /\ LandAside /\ NextWrite(job) /\ job.kind = old.kind /\ n \in 1..n /\ n \in Nat
      /\ StepsOK(old) /\ writes # <<>>
      /\ old.kind \in {"flush", "create", "move", "finish", "fail"}
  BY LandAtHand
<1>2. /\ cycles' = cycles /\ reacted' = reacted /\ old.at = "edit" /\ Len(chat') = Len(chat)
      /\ m \in 1..Len(chat) /\ chat'[m] = [chat[m] EXCEPT !.ver = old.call.ver]
      /\ \A k \in 1..Len(chat) : k # m => chat'[k] = chat[k]
      /\ job.at = old.then
  BY LandEdit
<1>3. \A k \in 1..Len(chat') : k \in 1..Len(chat) /\ chat'[k].as = chat[k].as
                               /\ chat'[k].cycle = chat[k].cycle
  <2> SUFFICES ASSUME NEW k \in 1..Len(chat)
               PROVE  chat'[k].as = chat[k].as /\ chat'[k].cycle = chat[k].cycle
    BY <1>2
  <2>1. chat[k] \in Message BY <1>1 DEF Shapes
  <2> QED BY <1>2, <2>1 DEF Message
<1>4. OwnOK'
  <2>1. OwnOK BY DEF Whole
  <2> QED BY <1>1, <1>2, <1>3, <2>1, OwnSame
<1>5. job.at \in {"end", "emit", "keep", "rewrite", "notice", "failed"}
      /\ (job.kind = "move" => job.at = "emit")
  BY <1>1, <1>2 DEF StepsOK
<1> HIDE DEF job
<1>6. /\ Unmarked(job) => Unmarked(old)
      /\ Unconcluded(job) => Unconcluded(old)
      /\ ~Replacing(old)
  BY <1>1, <1>2, <1>5 DEF Unmarked, Unconcluded, Replacing
<1>7. reacted' \subseteq {target} BY <1>2 DEF Whole, ReactOK
<1>8. ~closed => ~cycles'[n].deleted BY <1>1, <1>2, <1>6 DEF Whole, ActiveOK
<1>9. \A c \in 1..n : Voiced(cycles[c], cycles'[c]) BY <1>2 DEF Voiced
<1> QED BY <1>1, <1>2, <1>4, <1>5, <1>6, <1>7, <1>8, <1>9, LandWhole

\* The reply that brings a message: it is that of its cycle, which is there.
LEMMA LandCreateWhole ==
  ASSUME BaseInv, Whole, ~late, NEW j \in 1..Len(writes), Land(j), writes[1].call.op = "create"
  PROVE  Whole'
<1> DEFINE n == Len(cycles)
           old == writes[1]
           job == writes'[1]
           c == old.c
<1>1. /\ Shapes /\ LandAside /\ NextWrite(job) /\ job.kind = old.kind /\ n \in 1..n /\ n \in Nat
      /\ StepsOK(old) /\ writes # <<>>
      /\ old.kind \in {"flush", "create", "move", "finish", "fail"}
  BY LandAtHand
<1>2. /\ old.at \in {"create", "edit"} /\ c \in 1..n /\ cycles[c].msg = 0 /\ ~cycles[c].deleted
      /\ cycles'[c] = [cycles[c] EXCEPT !.msg = Len(chat) + 1] /\ Len(cycles') = n
      /\ \A d \in 1..n : d # c => cycles'[d] = cycles[d]
      /\ chat'[Len(chat) + 1] = [cycle |-> c, ver |-> old.call.ver, as |-> "own"]
      /\ Len(chat') = Len(chat) + 1 /\ \A k \in 1..Len(chat) : chat'[k] = chat[k]
      /\ reacted' = reacted /\ job.at = old.then
  BY LandCreate
<1>3. /\ cycles'[c].msg = Len(chat) + 1 /\ cycles'[c].deleted = cycles[c].deleted
      /\ Voiced(cycles[c], cycles'[c])
  <2>1. cycles[c] \in OutputCycle BY <1>1, <1>2 DEF Shapes
  <2> QED BY <1>2, <2>1 DEF OutputCycle, Voiced
<1>4. OwnOK'
  <2> SUFFICES ASSUME NEW m \in 1..Len(chat'), chat'[m].as = "own"
               PROVE  /\ chat'[m].cycle \in 1..Len(cycles')
                      /\ cycles'[chat'[m].cycle].msg = m /\ ~cycles'[chat'[m].cycle].deleted
    BY DEF OwnOK
  <2>1. CASE m \in 1..Len(chat)
    <3>1. /\ chat'[m] = chat[m] /\ chat[m].cycle \in 1..n /\ cycles[chat[m].cycle].msg = m
          /\ ~cycles[chat[m].cycle].deleted
      BY <1>2, <2>1 DEF Whole, OwnOK
    <3>2. chat[m].cycle # c BY <1>1, <1>2, <2>1, <3>1 DEF Shapes
    <3> QED BY <1>2, <3>1, <3>2
  <2>2. CASE m = Len(chat) + 1
    <3>1. chat'[m].cycle = c BY <1>2, <2>2
    <3>2. c \in 1..Len(cycles') /\ cycles'[c].msg = m /\ ~cycles'[c].deleted BY <1>2, <1>3, <2>2
    <3> QED BY <3>1, <3>2
  <2> QED BY <1>1, <1>2, <2>1, <2>2 DEF Shapes
<1>5. job.at \in {"end", "emit", "keep", "rewrite", "notice", "failed", "react"}
      /\ (job.kind = "move" => job.at \in {"emit", "react"})
      /\ (job.kind = "finish" => old.at = "edit")
  BY <1>1, <1>2 DEF StepsOK
<1> HIDE DEF job
<1>6. /\ Unmarked(job) => Unmarked(old)
      /\ Unconcluded(job) => Unconcluded(old)
      /\ ~Replacing(old)
  BY <1>1, <1>2, <1>5 DEF Unmarked, Unconcluded, Replacing
<1>7. reacted' \subseteq {target} BY <1>2 DEF Whole, ReactOK
<1>8. ~closed => ~cycles'[n].deleted BY <1>1, <1>2, <1>3, <1>6 DEF Whole, ActiveOK
<1>9. \A d \in 1..n : Voiced(cycles[d], cycles'[d]) /\ (cycles'[d].deleted => cycles[d].deleted)
  BY <1>2, <1>3 DEF Voiced
<1> QED BY <1>1, <1>2, <1>4, <1>5, <1>6, <1>7, <1>8, <1>9, LandWhole

\* The reply of a deletion: a move deletes what is no answer or was overtaken, an answer deletes
\* the working message, and silence everything.
LEMMA LandDeleteWhole ==
  ASSUME BaseInv, Whole, ~late, NEW j \in 1..Len(writes), Land(j), writes[1].call.op = "delete"
  PROVE  Whole'
<1> DEFINE n == Len(cycles)
           old == writes[1]
           job == writes'[1]
           c == old.c
           m == old.call.msg
<1>1. /\ ProjTypeOK /\ Shapes /\ LandAside /\ NextWrite(job) /\ job.kind = old.kind
      /\ job.result = old.result /\ n \in 1..n /\ n \in Nat
      /\ StepsOK(old) /\ writes # <<>> /\ Place(old, cycles) /\ j = 1
      /\ old.kind \in {"flush", "create", "move", "finish", "fail"}
  BY LandAtHand
<1>2. /\ old.at = "delete" /\ c \in 1..n /\ m = cycles[c].msg /\ m \in 1..Len(chat)
      /\ cycles'[c] = [cycles[c] EXCEPT !.deleted = TRUE] /\ Len(cycles') = n
      /\ \A d \in 1..n : d # c => cycles'[d] = cycles[d]
      /\ chat'[m] = [chat[m] EXCEPT !.as = "gone"]
      /\ \A k \in 1..Len(chat) : k # m => chat'[k] = chat[k]
      /\ Len(chat') = Len(chat) /\ reacted' = reacted /\ job.at = old.then
  BY LandDelete
<1>3. cycles'[c].msg = cycles[c].msg /\ Voiced(cycles[c], cycles'[c])
  <2>1. cycles[c] \in OutputCycle BY <1>1, <1>2 DEF Shapes
  <2> QED BY <1>2, <2>1 DEF OutputCycle, Voiced
<1>4. chat'[m].as = "gone"
  <2>1. chat[m] \in Message BY <1>1, <1>2 DEF Shapes
  <2> QED BY <1>2, <2>1 DEF Message
<1>5. OwnOK'
  <2> SUFFICES ASSUME NEW k \in 1..Len(chat'), chat'[k].as = "own"
               PROVE  /\ chat'[k].cycle \in 1..Len(cycles')
                      /\ cycles'[chat'[k].cycle].msg = k /\ ~cycles'[chat'[k].cycle].deleted
    BY DEF OwnOK
  <2>1. k \in 1..Len(chat) /\ k # m /\ chat'[k] = chat[k] BY <1>2, <1>4
  <2>2. /\ chat[k].cycle \in 1..n /\ cycles[chat[k].cycle].msg = k
        /\ ~cycles[chat[k].cycle].deleted
    BY <2>1 DEF Whole, OwnOK
  <2>3. chat[k].cycle # c BY <1>2, <2>1, <2>2
  <2> QED BY <1>2, <2>1, <2>2, <2>3
<1>6. /\ old.kind = "move" => job.at = "unreact"
      /\ old.kind = "finish" /\ old.result # "silent" => job.at = "complete"
      /\ old.kind = "finish" => job.at \in {"complete", "remove", "spare"}
      /\ old.kind \in {"move", "finish"}
  BY <1>1, <1>2 DEF StepsOK
<1>7. old.kind = "finish" => closed
  <2>1. 1 \in 1..Len(writes) BY <1>1
  <2> QED BY <2>1 DEF BaseInv, EndOK, Closing
<1>8. c \in overtaken \/ cycles[c].text = {} \/ Quieting(job)
  <2>1. CASE cycles[c].state # "text" BY <1>1, <1>2, <2>1 DEF ProjTypeOK, active
  <2>2. CASE old.kind = "move"
    <3>1. Clears(old, cycles) BY <1>1 DEF Whole, DelOK
    <3> QED BY <1>2, <2>1, <2>2, <3>1 DEF Clears
  <2>3. CASE old.kind = "finish" /\ old.result = "silent" BY <1>1, <2>3 DEF Quieting
  <2>4. CASE old.kind = "finish" /\ old.result # "silent"
    <3>1. old.then = "complete" BY <1>2, <1>6, <2>4
    <3> QED BY <1>1, <1>2, <2>1, <3>1 DEF Place
  <2> QED BY <1>6, <2>2, <2>3, <2>4
<1> HIDE DEF job
<1>9. /\ Unmarked(job) => Unmarked(old)
      /\ Unconcluded(job) => Unconcluded(old)
  BY <1>1, <1>2, <1>6 DEF Unmarked, Unconcluded
<1>10. reacted' \subseteq {target} BY <1>2 DEF Whole, ReactOK
<1>11. ~closed => Replacing(job) BY <1>1, <1>6, <1>7 DEF Replacing
<1>12. \A d \in 1..n : /\ Voiced(cycles[d], cycles'[d])
                       /\ \/ cycles'[d].deleted => cycles[d].deleted
                          \/ d \in overtaken \/ cycles[d].text = {} \/ Quieting(job)
  <2> TAKE d \in 1..n
  <2>1. CASE d = c BY <1>3, <1>8, <2>1
  <2>2. CASE d # c BY <1>2, <2>2 DEF Voiced
  <2> QED BY <2>1, <2>2
<1> QED BY <1>1, <1>2, <1>5, <1>6, <1>9, <1>10, <1>11, <1>12, LandWhole

\* The reply of a recall: the message that is gone is nobody's.
LEMMA LandRecallWhole ==
  ASSUME BaseInv, Whole, ~late, NEW j \in 1..Len(writes), Land(j), writes[1].call.op = "recall"
  PROVE  Whole'
<1> DEFINE n == Len(cycles)
           old == writes[1]
           job == writes'[1]
           c == old.c
           m == old.call.msg
<1>1. /\ Shapes /\ LandAside /\ NextWrite(job) /\ job.kind = old.kind /\ n \in 1..n /\ n \in Nat
      /\ writes # <<>>
  BY LandAtHand
<1>2. /\ old.at = "edit" /\ c \in 1..n /\ m = cycles[c].msg /\ m \in 1..Len(chat)
      /\ cycles'[c] = [cycles[c] EXCEPT !.msg = 0] /\ Len(cycles') = n
      /\ \A d \in 1..n : d # c => cycles'[d] = cycles[d]
      /\ chat'[m] = [chat[m] EXCEPT !.as = "gone"]
      /\ \A k \in 1..Len(chat) : k # m => chat'[k] = chat[k]
      /\ Len(chat') = Len(chat) /\ reacted' = reacted /\ job.at = "edit"
  BY LandRecall
<1>3. cycles'[c].deleted = cycles[c].deleted /\ Voiced(cycles[c], cycles'[c])
  <2>1. cycles[c] \in OutputCycle BY <1>1, <1>2 DEF Shapes
  <2> QED BY <1>2, <2>1 DEF OutputCycle, Voiced
<1>4. chat'[m].as = "gone"
  <2>1. chat[m] \in Message BY <1>1, <1>2 DEF Shapes
  <2> QED BY <1>2, <2>1 DEF Message
<1>5. OwnOK'
  <2> SUFFICES ASSUME NEW k \in 1..Len(chat'), chat'[k].as = "own"
               PROVE  /\ chat'[k].cycle \in 1..Len(cycles')
                      /\ cycles'[chat'[k].cycle].msg = k /\ ~cycles'[chat'[k].cycle].deleted
    BY DEF OwnOK
  <2>1. k \in 1..Len(chat) /\ k # m /\ chat'[k] = chat[k] BY <1>2, <1>4
  <2>2. /\ chat[k].cycle \in 1..n /\ cycles[chat[k].cycle].msg = k
        /\ ~cycles[chat[k].cycle].deleted
    BY <2>1 DEF Whole, OwnOK
  <2>3. chat[k].cycle # c BY <1>2, <2>1, <2>2
  <2> QED BY <1>2, <2>1, <2>2, <2>3
<1> HIDE DEF job
<1>6. /\ Unmarked(job) => Unmarked(old)
      /\ Unconcluded(job) => Unconcluded(old)
      /\ ~Replacing(old)
  BY <1>1, <1>2 DEF Unmarked, Unconcluded, Replacing
<1>7. reacted' \subseteq {target} BY <1>2 DEF Whole, ReactOK
<1>8. ~closed => ~cycles'[n].deleted BY <1>1, <1>2, <1>3, <1>6 DEF Whole, ActiveOK
<1>9. \A d \in 1..n : Voiced(cycles[d], cycles'[d]) /\ (cycles'[d].deleted => cycles[d].deleted)
  BY <1>2, <1>3 DEF Voiced
<1> QED BY <1>1, <1>2, <1>5, <1>6, <1>7, <1>8, <1>9, LandWhole

\* The reply of a reaction: none is left where one is taken away, and only a move that is through
\* has set one, below its message.
LEMMA LandReactionWhole ==
  ASSUME BaseInv, Whole, ~late, NEW j \in 1..Len(writes), Land(j),
         writes[1].call.op \in {"unreact", "react"}
  PROVE  Whole'
<1> DEFINE n == Len(cycles)
           old == writes[1]
           job == writes'[1]
<1>1. /\ Shapes /\ LandAside /\ NextWrite(job) /\ job.kind = old.kind /\ n \in 1..n /\ n \in Nat
      /\ StepsOK(old) /\ writes # <<>>
      /\ old.kind \in {"flush", "create", "move", "finish", "fail"}
  BY LandAtHand
<1>2. /\ cycles' = cycles /\ chat' = chat /\ old.at \in {"unreact", "react"}
      /\ (old.at = "unreact" => reacted' = reacted \ {target})
      /\ (old.at = "react" => reacted' = reacted \cup {target})
      /\ job.at = Following(old)
  BY LandReaction
<1>3. OwnOK' BY <1>2 DEF Whole, OwnOK
<1>4. /\ old.at = "react" => old.kind = "move" /\ job.at = "end"
      /\ old.at = "unreact" /\ old.kind = "move" => job.at = "fork"
      /\ old.at = "unreact" /\ old.kind = "finish" => job.at = "conclude"
      /\ old.kind \in {"move", "finish", "fail"}
      /\ job.at \in {"end", "fork", "conclude", "words"}
  BY <1>1, <1>2 DEF StepsOK, Following
<1>5. /\ reacted' \subseteq {target}
      /\ (old.at = "unreact" => reacted' = {})
  <2>1. reacted \subseteq {target} BY DEF Whole, ReactOK
  <2> QED BY <1>2, <2>1
<1> HIDE DEF job
<1>6. /\ Unmarked(job) => reacted' = {}
      /\ Unconcluded(job) => Unconcluded(old)
      /\ ~Unmarked(old)
  BY <1>1, <1>2, <1>4, <1>5 DEF Unmarked, Unconcluded
<1>7. ~closed /\ cycles'[n].deleted => Replacing(job)
  BY <1>1, <1>2, <1>4 DEF Whole, ActiveOK, Replacing
<1>8. \A d \in 1..n : Voiced(cycles[d], cycles'[d]) /\ (cycles'[d].deleted => cycles[d].deleted)
  BY <1>2 DEF Voiced
<1> QED BY <1>1, <1>2, <1>3, <1>4, <1>5, <1>6, <1>7, <1>8, LandWhole

\* The reply of the silent text: its message shows no cycle any more.
LEMMA LandSilenceWhole ==
  ASSUME BaseInv, Whole, ~late, NEW j \in 1..Len(writes), Land(j), writes[1].call.op = "silence"
  PROVE  Whole'
<1> DEFINE n == Len(cycles)
           old == writes[1]
           job == writes'[1]
           m == old.call.msg
<1>1. /\ Shapes /\ LandAside /\ NextWrite(job) /\ job.kind = old.kind /\ n \in 1..n /\ n \in Nat
      /\ writes # <<>>
  BY LandAtHand
<1>2. /\ cycles' = cycles /\ reacted' = reacted /\ old.at = "silence" /\ old.kind = "finish"
      /\ m \in 1..Len(chat) /\ chat'[m] = [chat[m] EXCEPT !.as = "silent"]
      /\ \A k \in 1..Len(chat) : k # m => chat'[k] = chat[k]
      /\ Len(chat') = Len(chat) /\ job.at = "spare"
  BY LandSilence
<1>3. chat'[m].as = "silent"
  <2>1. chat[m] \in Message BY <1>1, <1>2 DEF Shapes
  <2> QED BY <1>2, <2>1 DEF Message
<1>4. OwnOK'
  <2>1. \A k \in 1..Len(chat') : chat'[k].as = "own" =>
          k \in 1..Len(chat) /\ chat[k].as = "own" /\ chat'[k].cycle = chat[k].cycle
    BY <1>2, <1>3
  <2>2. OwnOK BY DEF Whole
  <2> QED BY <1>1, <1>2, <2>1, <2>2, OwnSame
<1> HIDE DEF job
<1>5. /\ Unmarked(job) => Unmarked(old)
      /\ ~Unconcluded(job) /\ ~Replacing(old)
  BY <1>1, <1>2 DEF Unmarked, Unconcluded, Replacing
<1>6. reacted' \subseteq {target} BY <1>2 DEF Whole, ReactOK
<1>7. ~closed => ~cycles'[n].deleted BY <1>1, <1>2, <1>5 DEF Whole, ActiveOK
<1>8. \A d \in 1..n : Voiced(cycles[d], cycles'[d]) /\ (cycles'[d].deleted => cycles[d].deleted)
  BY <1>2 DEF Voiced
<1> QED BY <1>1, <1>2, <1>4, <1>5, <1>6, <1>7, <1>8, LandWhole

\* The notice has a cycle of its own, which says nothing.
LEMMA LandPostWhole ==
  ASSUME BaseInv, Whole, ~late, NEW j \in 1..Len(writes), Land(j), writes[1].call.op = "post"
  PROVE  Whole'
<1> DEFINE n == Len(cycles)
           old == writes[1]
           job == writes'[1]
           here == Len(chat) + 1
<1>1. /\ Shapes /\ LandAside /\ NextWrite(job) /\ job.kind = old.kind /\ n \in 1..n /\ n \in Nat
      /\ writes # <<>> /\ SameChain /\ Effect(old) /\ j = 1 /\ job.result = old.result
      /\ WriteOK(old, n, closed, options.streaming) /\ Len(chat) \in Nat /\ chat \in Seq(Message)
  BY LandAtHand
<1>2. /\ old.at = "post" /\ old.kind = "fail" /\ Len(cycles') = n + 1
      /\ \A d \in 1..n : cycles'[d] = cycles[d]
      /\ cycles'[n + 1] = Posted(here)
      /\ Len(chat') = here /\ \A k \in 1..Len(chat) : chat'[k] = chat[k]
      /\ reacted' = reacted /\ job.at = "failed"
  BY LandPost
<1>3. /\ cycles'[n + 1].msg = here /\ ~cycles'[n + 1].deleted /\ cycles'[n + 1].text = {}
      /\ cycles'[n + 1].state = "transient"
  BY <1>2 DEF Posted, Cycle
<1>4. chat'[here].cycle = n + 1
  <2>1. old.c = n + 1 BY <1>1, <1>2 DEF WriteOK
  <2>2. chat' = Append(chat, [cycle |-> old.c, ver |-> old.call.ver, as |-> "own"])
    BY <1>1 DEF Effect
  <2> QED BY <1>1, <2>1, <2>2
<1>5. OwnOK'
  <2> SUFFICES ASSUME NEW k \in 1..Len(chat'), chat'[k].as = "own"
               PROVE  /\ chat'[k].cycle \in 1..Len(cycles')
                      /\ cycles'[chat'[k].cycle].msg = k /\ ~cycles'[chat'[k].cycle].deleted
    BY DEF OwnOK
  <2>1. CASE k \in 1..Len(chat)
    <3>1. /\ chat'[k] = chat[k] /\ chat[k].cycle \in 1..n /\ cycles[chat[k].cycle].msg = k
          /\ ~cycles[chat[k].cycle].deleted
      BY <1>2, <2>1 DEF Whole, OwnOK
    <3> QED BY <1>1, <1>2, <3>1
  <2>2. CASE k = here BY <1>1, <1>2, <1>3, <1>4, <2>2
  <2> QED BY <1>1, <1>2, <2>1, <2>2
<1>6. /\ target' = target /\ closed' = closed /\ outcome' = outcome /\ overtaken' = overtaken
      /\ parts' = parts /\ writes' # <<>>
  BY <1>1 DEF LandAside, past, SameChain
<1>7. /\ closed /\ outcome = "ending"
      /\ \A i \in 2..Len(writes) : ~Closing(writes[i])
  <2>1. Closing(old) /\ 1 \in 1..Len(writes) BY <1>1, <1>2 DEF Closing
  <2>2. ASSUME NEW i \in 2..Len(writes) PROVE ~Closing(writes[i])
    <3>1. i \in 1..Len(writes) /\ i # 1 OBVIOUS
    <3> QED BY <2>1, <3>1 DEF BaseInv, EndOK
  <2> QED BY <2>1, <2>2 DEF BaseInv, EndOK
<1>8. ReactOK'
  <2>1. reacted \subseteq {target} BY DEF Whole, ReactOK
  <2>2. ~Unmarked(job) BY <1>1, <1>2 DEF Unmarked
  <2> QED BY <1>2, <1>6, <2>1, <2>2 DEF ReactOK
<1>9. DoneOK' BY <1>6, <1>7 DEF DoneOK
<1>10. ActiveOK' BY <1>6, <1>7 DEF ActiveOK
<1>11. DelOK'
  <2>1. writes'[1].kind = "fail" BY <1>1, <1>2
  <2> QED BY <2>1 DEF DelOK, Clears
<1>12. ASSUME NEW i \in 1..Len(writes')
       PROVE  /\ i \in 1..Len(writes) /\ Quieting(writes'[i]) = Quieting(writes[i])
              /\ ~Unconcluded(writes'[i])
  <2>1. i \in 1..Len(writes) BY <1>1 DEF SameChain
  <2>2. CASE i = 1 BY <1>1, <1>2, <2>1, <2>2 DEF Quieting, Unconcluded
  <2>3. CASE i # 1
    <3>1. i \in 2..Len(writes) BY <1>1, <2>1, <2>3 DEF Shapes
    <3>2. writes'[i] = writes[i] BY <1>1, <3>1 DEF SameChain
    <3> QED BY <1>7, <2>1, <3>1, <3>2 DEF Unconcluded, Closing
  <2> QED BY <2>2, <2>3
<1>13. PartsOK' BY <1>6, <1>7, <1>12 DEF PartsOK
<1>14. CovOK'
  <2> SUFFICES ASSUME Outspoken', NEW k \in 1..Len(parts)
               PROVE  HasPlace(k)'
    BY <1>6 DEF CovOK
  <2>1. Len(writes') = Len(writes) BY <1>1 DEF SameChain
  <2>2. Outspoken BY <1>6, <1>12, <2>1 DEF Outspoken
  <2>3. PICK c \in 1..n : k \in cycles[c].text /\ (c \in overtaken \/ ~cycles[c].deleted)
    BY <2>2 DEF Whole, CovOK, HasPlace
  <2>4. c \in 1..Len(cycles') BY <1>1, <1>2
  <2> QED BY <1>2, <1>6, <2>3, <2>4 DEF HasPlace
<1> QED BY <1>5, <1>8, <1>9, <1>10, <1>11, <1>13, <1>14 DEF Whole

\* Every reply keeps the answer whole.
LEMMA RepliesWhole ==
  ASSUME BaseInv, Whole, ~late, NEW j \in 1..Len(writes), Land(j)
  PROVE  Whole'
<1>1. writes[1].call.op \in {"edit", "create", "recall", "unreact", "react", "delete", "silence",
                             "post"}
  BY LandAtHand
<1> QED BY <1>1, LandEditWhole, LandCreateWhole, LandRecallWhole, LandReactionWhole,
        LandDeleteWhole, LandSilenceWhole, LandPostWhole

\* A write that has not begun neither needs the reaction away nor takes anything away.
LEMMA FreshWhole ==
  ASSUME NEW job, Fresh(job), NEW cs
  PROVE  ~Unmarked(job) /\ Clears(job, cs)
BY DEF Fresh, First, Unmarked, Clears

\* Queueing a write keeps the answer whole: it has not begun, and only a run that goes on ends.
LEMMA QueueWhole ==
  ASSUME BaseInv, Whole, Grown, UNCHANGED <<cycles, chat, reacted, target, parts, overtaken>>,
         closed => closed', outcome' = outcome \/ (outcome = "running" /\ outcome' = "ending"),
         closed => \A j \in Len(writes) + 1..Len(writes') : writes'[j].kind # "finish"
  PROVE  Whole'
<1> DEFINE n == Len(cycles)
<1>1. Shapes BY ProjShapes DEF BaseInv
<1>2. /\ cycles' = cycles /\ chat' = chat /\ reacted' = reacted /\ target' = target
      /\ parts' = parts /\ overtaken' = overtaken
  OBVIOUS
<1>3. /\ writes # <<>> => writes' # <<>> /\ writes'[1] = writes[1]
      /\ writes = <<>> /\ writes' # <<>> => Fresh(writes'[1])
      /\ \A j \in 1..Len(writes) : writes'[j] = writes[j]
      /\ Len(writes) \in Nat /\ Len(writes') \in Nat /\ Len(writes) <= Len(writes')
  BY <1>1, LenProperties DEF Shapes, Grown
<1>4. OwnOK' BY <1>2 DEF Whole, OwnOK
<1>5. ReactOK'
  <2>1. writes' # <<>> /\ Unmarked(writes'[1]) => writes # <<>> /\ Unmarked(writes[1])
    BY <1>3, FreshWhole
  <2> QED BY <1>2, <2>1 DEF Whole, ReactOK
<1>6. DoneOK' BY <1>2 DEF Whole, DoneOK
<1>7. ActiveOK' BY <1>2, <1>3 DEF Whole, ActiveOK
<1>8. DelOK'
  <2>1. writes' # <<>> => Clears(writes'[1], cycles)
    BY <1>3, FreshWhole DEF Whole, DelOK
  <2> QED BY <1>2, <2>1 DEF DelOK, Clears
<1>9. PartsOK'
  <2> SUFFICES ASSUME ~closed' \/ \E j \in 1..Len(writes') : Unconcluded(writes'[j])
               PROVE  OnePart(cycles) /\ LastPart(cycles)
    BY <1>2 DEF PartsOK, OnePart, LastPart
  <2>1. CASE ~closed BY <2>1 DEF Whole, PartsOK
  <2>2. CASE closed
    <3>1. PICK j \in 1..Len(writes') : Unconcluded(writes'[j]) BY <2>2
    <3>2. j \in 1..Len(writes)
      <4>1. writes'[j].kind = "finish" BY <3>1 DEF Unconcluded
      <4>2. j \notin Len(writes) + 1..Len(writes') BY <2>2, <4>1
      <4> QED BY <1>3, <4>2
    <3> QED BY <1>3, <3>1, <3>2 DEF Whole, PartsOK
  <2> QED BY <2>1, <2>2
<1>10. CovOK'
  <2> SUFFICES ASSUME Outspoken'
               PROVE  \A k \in 1..Len(parts) : HasPlace(k)
    BY <1>2 DEF CovOK, HasPlace
  <2>1. outcome # "silent" BY DEF Outspoken
  <2>2. \A j \in 1..Len(writes) : ~Quieting(writes[j])
    <3> TAKE j \in 1..Len(writes)
    <3>1. j \in 1..Len(writes') /\ writes'[j] = writes[j] BY <1>3
    <3> QED BY <3>1 DEF Outspoken
  <2> QED BY <2>1, <2>2 DEF Whole, CovOK, Outspoken
<1> QED BY <1>4, <1>5, <1>6, <1>7, <1>8, <1>9, <1>10 DEF Whole

\* A write that is through leaves the next one to begin, and a run that is done without a reaction
\* and without its working message.
LEMMA JobEndsWhole ==
  ASSUME BaseInv, Whole, ~late, NEW j \in 1..Len(writes), JobEnds(j)
  PROVE  Whole'
<1> DEFINE n == Len(cycles)
           old == writes[1]
<1>1. Dropped /\ old.at = "end" BY JobEndsBase
<1>2. j = 1 /\ writes # <<>> /\ Shapes /\ old \in QueuedWrite /\ Place(old, cycles)
  BY AtHand DEF JobEnds, Here
<1>3. /\ cycles' = cycles /\ chat' = chat /\ reacted' = reacted /\ target' = target
      /\ closed' = closed /\ parts' = parts /\ overtaken' = overtaken
  BY DEF JobEnds, output, shown, past
<1>4. writes' # <<>> => Fresh(writes'[1])
  <2> SUFFICES ASSUME writes' # <<>>
               PROVE  Fresh(writes'[1])
    OBVIOUS
  <2>1. writes'[1] = writes[2] /\ 2 \in 2..Len(writes) BY <1>1, <1>2 DEF Dropped, Shapes
  <2> QED BY <2>1 DEF BaseInv, WritesOK
<1>5. outcome \in {"running", "ending"} BY <1>2 DEF BaseInv, EndOK
<1>6. /\ outcome' = "done" => Answering(old)
      /\ Quieting(old) => outcome' = "silent"
  BY <1>2, <1>5 DEF JobEnds, Answering, Quieting
<1>7. OwnOK' BY <1>3 DEF Whole, OwnOK
<1>8. ReactOK' BY <1>3, <1>4, FreshWhole DEF Whole, ReactOK
<1>9. DoneOK'
  <2> SUFFICES ASSUME Answering(old)
               PROVE  reacted = {} /\ (cycles[n].state = "text" \/ cycles[n].deleted)
    BY <1>3, <1>6 DEF DoneOK
  <2>1. Unmarked(old) BY <1>1 DEF Unmarked, Answering
  <2>2. reacted = {} BY <1>2, <2>1 DEF Whole, ReactOK
  <2> QED BY <1>1, <1>2, <2>2 DEF Place
<1>10. ActiveOK'
  <2>1. ~Replacing(old) BY <1>1 DEF Replacing
  <2> QED BY <1>3, <2>1 DEF Whole, ActiveOK
<1>11. DelOK'
  <2>1. writes' # <<>> => Clears(writes'[1], cycles') BY <1>4, FreshWhole
  <2> QED BY <1>3, <2>1 DEF DelOK, Clears
<1>12. \A i \in 1..Len(writes') : i + 1 \in 1..Len(writes) /\ writes'[i] = writes[i + 1]
  BY <1>1, <1>2 DEF Dropped, Shapes
<1>13. PartsOK'
  <2>1. (\E i \in 1..Len(writes') : Unconcluded(writes'[i])) =>
          \E i \in 1..Len(writes) : Unconcluded(writes[i])
    BY <1>12
  <2> QED BY <1>3, <2>1 DEF Whole, PartsOK, OnePart, LastPart
<1>14. CovOK'
  <2> SUFFICES ASSUME Outspoken'
               PROVE  \A k \in 1..Len(parts) : HasPlace(k)
    BY <1>3 DEF CovOK, HasPlace
  <2>1. ASSUME NEW i \in 1..Len(writes)
        PROVE  ~Quieting(writes[i])
    <3>1. CASE i = 1 BY <1>6, <3>1 DEF Outspoken
    <3>2. CASE i # 1
      <4>1. i - 1 \in 1..Len(writes') BY <1>1, <1>2, <3>2 DEF Dropped, Shapes
      <4>2. writes'[i - 1] = writes[i] BY <1>12, <4>1
      <4> QED BY <4>1, <4>2 DEF Outspoken
    <3> QED BY <3>1, <3>2
  <2> QED BY <1>5, <2>1 DEF Whole, CovOK, Outspoken
<1> QED BY <1>7, <1>8, <1>9, <1>10, <1>11, <1>13, <1>14 DEF Whole

\* An event keeps the answer whole if what the active cycle says after it is of one part, the last
\* one, has every new chunk, and of the earlier ones those it had: where a write is about to take
\* the cycle away it is noted as overtaken.
LEMMA EventWhole ==
  ASSUME BaseInv, Whole, Aside, Continues \/ Starts, NEW y, y = cycles'[Len(cycles')],
         parts' \in Seq(Nat), Len(parts) <= Len(parts'), Len(parts) \in Nat,
         \A k \in 1..Len(parts) : parts'[k] = parts[k],
         \A k \in y.text : k = 0 \/ (k \in 1..Len(parts') /\ parts'[k] = y.part),
         y.state = "text" => y.part = parts'[Len(parts')],
         \A k \in Len(parts) + 1..Len(parts') : k \in y.text,
         Continues => \A k \in 1..Len(parts) : k \in cycles[Len(cycles)].text => k \in y.text
  PROVE  Whole'
<1> DEFINE n == Len(cycles)
<1>1. /\ Shapes /\ EndOK /\ SilentOK /\ n \in Nat /\ 1 <= n /\ n \in 1..n /\ Len(writes) \in Nat
      /\ writes \in Seq(QueuedWrite) /\ ~closed
  <2>1. Shapes /\ EndOK /\ SilentOK BY ProjShapes DEF BaseInv
  <2>2. n \in Nat /\ 1 <= n /\ Len(writes) \in Nat BY <2>1 DEF Shapes
  <2>3. writes \in Seq(QueuedWrite) BY DEF BaseInv, ProjTypeOK
  <2> QED BY <2>1, <2>2, <2>3 DEF Aside
<1>2. /\ chat' = chat /\ reacted' = reacted /\ target' = target /\ outcome = "running"
      /\ outcome' = "running"
      /\ overtaken \subseteq overtaken' /\ (Moving => Len(cycles') \in overtaken')
      /\ \A j \in 1..Len(writes) : ~Closing(writes[j])
  BY <1>1, RunGoesOn DEF Aside
<1>3. Grown
  <2>1. CASE Continues BY <1>1, <2>1 DEF Continues, Grown
  <2> QED BY <2>1 DEF Starts
<1>4. Len(cycles') \in {n, n + 1} /\ Len(parts') \in Nat BY LenProperties DEF Continues, Starts
<1>5. cycles[n] \in OutputCycle BY <1>1 DEF Shapes
<1>6. ASSUME NEW c \in 1..n
      PROVE  /\ cycles'[c].msg = cycles[c].msg /\ cycles'[c].deleted = cycles[c].deleted
             /\ c # n \/ Starts => /\ cycles'[c].text = cycles[c].text
                                   /\ cycles'[c].part = cycles[c].part
                                   /\ cycles'[c].state = cycles[c].state
  <2>1. CASE c # n BY <2>1 DEF Continues, Starts
  <2>2. CASE c = n /\ Continues
    <3>1. ~Starts BY <1>1, <2>2 DEF Continues, Starts
    <3> QED BY <2>2, <3>1 DEF Continues
  <2>3. CASE c = n /\ Starts
    <3>1. cycles'[n] = [cycles[n] EXCEPT !.completed = TRUE] BY <2>3 DEF Starts
    <3> QED BY <1>5, <2>3, <3>1 DEF OutputCycle
  <2> QED BY <2>1, <2>2, <2>3
<1>7. ASSUME NEW c \in 1..Len(cycles')
      PROVE  c = Len(cycles') \/ (c \in 1..n /\ (c # n \/ Starts))
  BY <1>1, <1>4 DEF Continues
<1>8. /\ Continues => Len(cycles') = n /\ y.deleted = cycles[n].deleted
      /\ Starts => Len(cycles') = n + 1 /\ ~y.deleted
  BY DEF Continues, Starts, Live
<1>9. OwnOK'
  <2>1. Len(cycles) <= Len(cycles') /\ Len(cycles') \in Nat BY <1>1, <1>4
  <2>2. OwnOK BY DEF Whole
  <2> QED BY <1>1, <1>2, <1>6, <2>1, <2>2, OwnSame
<1>10. /\ writes # <<>> => writes' # <<>> /\ writes'[1] = writes[1]
       /\ writes = <<>> /\ writes' # <<>> => Fresh(writes'[1])
  BY <1>3 DEF Grown
<1>11. ReactOK'
  <2>1. writes' # <<>> /\ Unmarked(writes'[1]) => writes # <<>> /\ Unmarked(writes[1])
    BY <1>10, FreshWhole
  <2> QED BY <1>2, <2>1 DEF Whole, ReactOK
<1>12. DoneOK' BY <1>2 DEF DoneOK
<1>13. y.deleted => writes # <<>> /\ Replacing(writes[1])
  BY <1>1, <1>8 DEF Whole, ActiveOK
<1>14. ActiveOK' BY <1>10, <1>13 DEF ActiveOK
<1>15. ASSUME writes # <<>>, Unforked(writes[1])
       PROVE  Len(cycles') \in overtaken'
  <2>1. 1 \in 1..Len(writes) BY <1>1, <1>15 DEF Shapes
  <2> QED BY <1>2, <1>15, <2>1 DEF Moving
<1>16. DelOK'
  <2> SUFFICES ASSUME writes' # <<>>, writes'[1].kind = "move", writes'[1].at = "delete"
               PROVE  LET c == writes'[1].c IN c \in overtaken' \/ cycles'[c].state # "text"
    BY DEF DelOK, Clears
  <2> DEFINE c == writes'[1].c
  <2>1. writes # <<>> /\ writes'[1] = writes[1] BY <1>10 DEF Fresh, First
  <2>2. c \in 1..n
    <3>1. 1 \in 1..Len(writes) BY <1>1, <2>1 DEF Shapes
    <3> QED BY <2>1, <3>1 DEF BaseInv, WritesOK, WriteOK, active
  <2>3. c \in overtaken \/ cycles[c].state # "text" BY <2>1 DEF Whole, DelOK, Clears
  <2>4. Len(cycles') \in overtaken' BY <1>15, <2>1 DEF Unforked
  <2>5. CASE c # n \/ Starts BY <1>2, <1>6, <2>2, <2>3, <2>5
  <2>6. CASE c = n /\ Continues BY <1>8, <2>4, <2>6
  <2> QED BY <2>5, <2>6
<1>17. OnePart(cycles) /\ LastPart(cycles) BY <1>1 DEF Whole, PartsOK
<1>18. PartsOK'
  <2>1. OnePart(cycles)'
    <3> SUFFICES ASSUME NEW c \in 1..Len(cycles'), NEW k \in cycles'[c].text
                 PROVE  k = 0 \/ (k \in 1..Len(parts') /\ parts'[k] = cycles'[c].part)
      BY DEF OnePart
    <3>1. CASE c = Len(cycles') BY <3>1
    <3>2. CASE c \in 1..n /\ (c # n \/ Starts)
      <4>1. k \in cycles[c].text /\ cycles'[c].part = cycles[c].part BY <1>6, <3>2
      <4>2. k = 0 \/ (k \in 1..Len(parts) /\ parts[k] = cycles[c].part)
        BY <1>17, <3>2, <4>1 DEF OnePart
      <4> QED BY <1>4, <4>1, <4>2
    <3> QED BY <1>7, <3>1, <3>2
  <2>2. LastPart(cycles)' BY DEF LastPart
  <2> QED BY <2>1, <2>2 DEF PartsOK
<1>19. CovOK'
  <2> SUFFICES ASSUME NEW k \in 1..Len(parts')
               PROVE  HasPlace(k)'
    BY DEF CovOK
  <2>1. Outspoken BY <1>2 DEF Outspoken, Quieting, Closing
  <2>2. Len(cycles') \in 1..Len(cycles') BY <1>1, <1>4
  <2>3. CASE k \in 1..Len(parts)
    <3>1. PICK c \in 1..n : k \in cycles[c].text /\ (c \in overtaken \/ ~cycles[c].deleted)
      BY <2>1, <2>3 DEF Whole, CovOK, HasPlace
    <3>2. c \in 1..Len(cycles') BY <1>1, <1>4
    <3>3. k \in cycles'[c].text
      <4>1. CASE c # n \/ Starts BY <1>6, <3>1, <4>1
      <4>2. CASE c = n /\ Continues BY <1>8, <2>3, <3>1, <4>2
      <4> QED BY <4>1, <4>2
    <3>4. c \in overtaken' \/ ~cycles'[c].deleted BY <1>2, <1>6, <3>1
    <3> QED BY <3>2, <3>3, <3>4 DEF HasPlace
  <2>4. CASE k \in Len(parts) + 1..Len(parts')
    <3>1. k \in y.text BY <2>4
    <3>2. Len(cycles') \in overtaken' \/ ~y.deleted
      BY <1>13, <1>15 DEF Replacing, Unforked
    <3> QED BY <2>2, <3>1, <3>2 DEF HasPlace
  <2> QED BY <1>4, <2>3, <2>4
<1> QED BY <1>9, <1>11, <1>12, <1>14, <1>16, <1>18, <1>19 DEF Whole

\* The part of the text that is streamed is a number.
LEMMA PartIsNumber ==
  ASSUME ProjTypeOK
  PROVE  Part \in Nat
<1>1. parts \in Seq(Nat) /\ Len(parts) \in Nat BY LenProperties DEF ProjTypeOK
<1>2. CASE parts = <<>> BY <1>2 DEF Part
<1>3. CASE parts # <<>>
  <2>1. Len(parts) # 0 BY <1>1, <1>3, EmptySeq
  <2>2. Len(parts) \in 1..Len(parts) BY <1>1, <2>1
  <2>3. parts[Len(parts)] \in Nat BY <1>1, <2>2, ElementOfSeq
  <2> QED BY <1>3, <2>3 DEF Part, Last
<1> QED BY <1>2, <1>3

\* The cycle that an event changes.
LEMMA EmitLast ==
  ASSUME ProjTypeOK, NEW x \in OutputCycle, Emit([cycles EXCEPT ![active] = x], active)
  PROVE  Len(cycles') = Len(cycles) /\ cycles'[Len(cycles')] = x
<1>1. Shapes BY ProjShapes
<1>2. Len(cycles) \in 1..Len(cycles) BY <1>1 DEF Shapes
<1>3. cycles \in Seq(OutputCycle) BY DEF ProjTypeOK
<1>4. cycles' = [cycles EXCEPT ![Len(cycles)] = x] BY DEF Emit, active
<1> QED BY <1>2, <1>3, <1>4, OneCycle

\* The cycle that an event starts.
LEMMA StartLast ==
  ASSUME ProjTypeOK, NEW x \in OutputCycle, StartCycle(x)
  PROVE  Len(cycles') = Len(cycles) + 1 /\ cycles'[Len(cycles')] = x
<1> DEFINE frozen == [cycles EXCEPT ![active].completed = TRUE]
<1>1. Shapes BY ProjShapes
<1>2. Len(cycles) \in 1..Len(cycles) /\ Len(cycles) \in Nat BY <1>1 DEF Shapes
<1>3. cycles \in Seq(OutputCycle) BY DEF ProjTypeOK
<1>4. cycles' = Append(frozen, x) BY DEF StartCycle
<1>5. frozen \in Seq(OutputCycle) /\ Len(frozen) = Len(cycles)
  <2> DEFINE y == [cycles[Len(cycles)] EXCEPT !.completed = TRUE]
  <2>1. y \in OutputCycle BY <1>1, <1>2 DEF Shapes, OutputCycle
  <2>2. frozen = [cycles EXCEPT ![Len(cycles)] = y] BY DEF active
  <2> HIDE DEF y, frozen
  <2> QED BY <1>2, <1>3, <2>1, <2>2, OneCycle
<1> HIDE DEF frozen
<1> QED BY <1>4, <1>5, AppendChain

\* What the active cycle says after updateText: the text of its part, all that was streamed of
\* it or the new chunk, and what it said of the same part before.
Says(p, y) ==
  LET n    == Len(cycles)
      k    == Len(parts) + 1
      all  == Chunks(p, Append(parts, p))
      text == y.text \in {all, {k}}
  IN /\ y.part = p /\ y.state = "text"
     /\ \/ Len(cycles') = n + 1 /\ text
        \/ Len(cycles') = n /\ cycles[n].state # "text" /\ text
        \/ /\ Len(cycles') = n /\ cycles[n].state = "text" /\ cycles[n].part = p
           /\ y.text \in {all, cycles[n].text \cup {k}}

\* updateText says so.
LEMMA TextDeltaSays ==
  ASSUME ProjTypeOK, TextDelta
  PROVE  \E p \in Nat : parts' = Append(parts, p) /\ Says(p, cycles'[Len(cycles')])
<1>1. Shapes BY ProjShapes
<1>2. PICK p \in {Part, Part + 1}, replace \in BOOLEAN :
        LET cur  == cycles[active]
            k    == Len(parts) + 1
            text == IF replace THEN Chunks(p, Append(parts, p)) ELSE {k}
        IN /\ parts' = Append(parts, p)
           /\ \/ /\ cur.state # "text"
                 /\ Emit([cycles EXCEPT ![active] = Changed(cur, "text", p, text)], active)
                 /\ Schedule /\ UNCHANGED writes
              \/ /\ cur.state = "text" /\ cur.part = p
                 /\ LET said == IF replace THEN text ELSE cur.text \cup text IN
                      Emit([cycles EXCEPT ![active] = Changed(cur, "text", p, said)], active)
                 /\ Schedule /\ UNCHANGED writes
              \/ /\ cur.state = "text" /\ cur.part # p
                 /\ StartCycle(Cycle("text", p, text, FALSE))
  BY Zenon DEF TextDelta
<1> DEFINE cur  == cycles[active]
           all  == Chunks(p, Append(parts, p))
           k    == Len(parts) + 1
           text == IF replace THEN all ELSE {k}
           y    == cycles'[Len(cycles')]
<1>3. p \in Nat BY PartIsNumber
<1>4. parts \in Seq(Nat) /\ Len(parts) \in Nat BY LenProperties DEF ProjTypeOK
<1>5. all \subseteq Nat /\ k \in Nat
  <2>1. Append(parts, p) \in Seq(Nat) BY <1>3, <1>4, AppendChain
  <2>2. Len(Append(parts, p)) \in Nat BY <2>1, LenProperties
  <2> QED BY <1>4, <2>2 DEF Chunks
<1>6. cur \in OutputCycle /\ cur = cycles[Len(cycles)] BY <1>1 DEF Shapes, active
<1>7. text \in {all, {k}} /\ text \in SUBSET Nat BY <1>5
<1>8. parts' = Append(parts, p) BY <1>2
<1>9. "text" \in {"transient", "thinking", "text"} OBVIOUS
<1>10. CASE /\ cur.state # "text"
            /\ Emit([cycles EXCEPT ![active] = Changed(cur, "text", p, text)], active)
  <2> DEFINE x == Changed(cur, "text", p, text)
  <2>0. text \in SUBSET Nat /\ "text" \in {"transient", "thinking", "text"} BY <1>7
  <2> HIDE DEF text
  <2>1. x \in OutputCycle /\ x.part = p /\ x.state = "text" /\ x.text = text
    BY <2>0, <1>3, <1>6, ChangedCycle
  <2>2. Emit([cycles EXCEPT ![active] = x], active) BY <1>10
  <2> HIDE DEF x
  <2>3. Len(cycles') = Len(cycles) /\ y = x BY <2>1, <2>2, EmitLast
  <2>4. Says(p, y) BY <1>6, <1>7, <1>10, <2>1, <2>3 DEF Says
  <2> QED BY <1>3, <1>8, <2>4
<1>11. CASE /\ cur.state = "text" /\ cur.part = p
            /\ LET said == IF replace THEN text ELSE cur.text \cup text IN
                 Emit([cycles EXCEPT ![active] = Changed(cur, "text", p, said)], active)
  <2> DEFINE says == IF replace THEN text ELSE cur.text \cup text
             x == Changed(cur, "text", p, says)
  <2>1. Emit([cycles EXCEPT ![active] = x], active)
    <3>1. CASE replace BY <1>11, <3>1
    <3>2. CASE ~replace BY <1>11, <3>2
    <3> QED BY <3>1, <3>2
  <2>2. says \in {all, cur.text \cup {k}} OBVIOUS
  <2>3. says \in SUBSET Nat
    <3>1. cur.text \subseteq Nat BY <1>6, CycleTypes
    <3> QED BY <1>5, <2>2, <3>1
  <2> HIDE DEF says
  <2>4. x \in OutputCycle /\ x.part = p /\ x.state = "text" /\ x.text = says
    BY <1>3, <1>6, <1>9, <2>3, ChangedCycle
  <2> HIDE DEF x
  <2>5. Len(cycles') = Len(cycles) /\ y = x BY <2>1, <2>4, EmitLast
  <2>6. Says(p, y) BY <1>6, <1>11, <2>2, <2>4, <2>5 DEF Says
  <2> QED BY <1>3, <1>8, <2>6
<1>12. CASE StartCycle(Cycle("text", p, text, FALSE))
  <2> DEFINE x == Cycle("text", p, text, FALSE)
  <2> HIDE DEF text
  <2>1. x \in OutputCycle /\ x.part = p /\ x.state = "text" /\ x.text = text
    BY <1>3, <1>7 DEF Cycle, OutputCycle
  <2>2. StartCycle(x) BY <1>12
  <2> HIDE DEF x
  <2>3. Len(cycles') = Len(cycles) + 1 /\ y = x BY <2>1, <2>2, StartLast
  <2>4. Says(p, y) BY <1>7, <2>1, <2>3 DEF Says
  <2> QED BY <1>3, <1>8, <2>4
<1> HIDE DEF text
<1> QED BY <1>2, <1>10, <1>11, <1>12 DEF text

\* Text keeps the answer whole: the new chunk is in the active cycle.
LEMMA TextDeltaWhole ==
  ASSUME BaseInv, Whole, TextDelta
  PROVE  Whole'
<1> DEFINE n == Len(cycles)
           y == cycles'[Len(cycles')]
           new == Len(parts) + 1
<1>1. ProjTypeOK /\ WritesOK /\ Shapes BY ProjShapes DEF BaseInv
<1>2. Aside /\ (Continues \/ Starts) /\ parts' \in Seq(Nat) BY <1>1, TextDeltaSteps
<1>3. PICK p \in Nat : parts' = Append(parts, p) /\ Says(p, y) BY <1>1, TextDeltaSays
<1>4. parts \in Seq(Nat) /\ Len(parts) \in Nat BY <1>1, LenProperties DEF ProjTypeOK
<1>5. Len(parts') = new /\ parts'[new] = p /\ \A k \in 1..Len(parts) : parts'[k] = parts[k]
  BY <1>3, <1>4, AppendChain
<1>6. OnePart(cycles) BY <1>2 DEF Aside, Whole, PartsOK
<1> DEFINE all == Chunks(p, parts')
<1>7. \A k : k \in all <=> (k \in 1..new /\ parts'[k] = p) BY <1>5 DEF Chunks
<1>8. new \in all BY <1>4, <1>5, <1>7
<1> HIDE DEF all
<1>9. n \in Nat /\ n \in 1..n BY <1>1 DEF Shapes
<1>10. /\ y.part = p /\ y.state = "text"
       /\ \/ Len(cycles') = n + 1 /\ y.text \in {all, {new}}
          \/ Len(cycles') = n /\ cycles[n].state # "text" /\ y.text \in {all, {new}}
          \/ /\ Len(cycles') = n /\ cycles[n].state = "text" /\ cycles[n].part = p
             /\ y.text \in {all, cycles[n].text \cup {new}}
  BY <1>3 DEF Says, all
<1>11. ASSUME NEW k \in cycles[n].text, cycles[n].part = p
       PROVE  k = 0 \/ k \in all
  <2>1. k = 0 \/ (k \in 1..Len(parts) /\ parts[k] = p) BY <1>6, <1>9, <1>11 DEF OnePart
  <2> QED BY <1>4, <1>5, <1>7, <2>1
<1>12. \A k \in y.text : k = 0 \/ k \in all BY <1>8, <1>10, <1>11
<1>13. new \in y.text BY <1>8, <1>10
<1>14. ASSUME Continues, NEW k \in 1..Len(parts), k \in cycles[n].text
       PROVE  k \in y.text
  <2>1. Len(cycles') = n BY <1>14 DEF Continues
  <2>2. cycles[n].state = "text"
    <3>1. cycles[n].state # "text" => cycles[n].text = {} BY <1>1, <1>9 DEF ProjTypeOK, active
    <3> QED BY <1>14, <3>1
  <2>3. cycles[n].part = p /\ y.text \in {all, cycles[n].text \cup {new}}
    BY <1>9, <1>10, <2>1, <2>2
  <2>4. k \in all
    <3>1. k # 0 BY <1>4
    <3> QED BY <1>11, <1>14, <2>3, <3>1
  <2> QED BY <1>14, <2>3, <2>4
<1>15. \A k \in y.text : k = 0 \/ (k \in 1..Len(parts') /\ parts'[k] = y.part)
  BY <1>5, <1>7, <1>10, <1>12
<1>16. y.state = "text" => y.part = parts'[Len(parts')] BY <1>5, <1>10
<1>17. Len(parts) <= Len(parts') BY <1>4, <1>5
<1>18. \A k \in Len(parts) + 1..Len(parts') : k \in y.text BY <1>4, <1>5, <1>13
<1>19. Continues => \A k \in 1..Len(parts) : k \in cycles[Len(cycles)].text => k \in y.text
  BY <1>14
<1> HIDE DEF y
<1>20. y = cycles'[Len(cycles')] BY DEF y
<1> QED BY <1>2, <1>4, <1>5, <1>15, <1>16, <1>17, <1>18, <1>19, <1>20, EventWhole

\* Thoughts and tools say nothing: the active cycle goes on without text, or another starts.
LEMMA ProgressWhole ==
  ASSUME BaseInv, Whole, Progress
  PROVE  Whole'
<1> DEFINE n == Len(cycles)
           y == cycles'[Len(cycles')]
<1>1. ProjTypeOK /\ WritesOK /\ Shapes BY ProjShapes DEF BaseInv
<1>2. /\ Aside /\ (Continues \/ Starts) /\ parts' = parts
      /\ (Continues => cycles'[n].state # "text")
  BY <1>1, ProgressSteps
<1>3. parts \in Seq(Nat) /\ Len(parts) \in Nat BY <1>1, LenProperties DEF ProjTypeOK
<1>4. n \in Nat /\ n \in 1..n BY <1>1 DEF Shapes
<1>5. y.state # "text" /\ y.text = {}
  <2>1. CASE Continues BY <1>2, <2>1 DEF Continues
  <2>2. CASE Starts
    <3> DEFINE x == Cycle("thinking", 0, {}, FALSE)
    <3>1. x \in OutputCycle /\ x.state # "text" /\ x.text = {} BY DEF Cycle, OutputCycle
    <3>2. StartCycle(x)
      <4>1. cycles[active].state = "text" BY <2>2 DEF Starts, active
      <4> QED BY <4>1 DEF Progress
    <3> HIDE DEF x
    <3> QED BY <1>1, <3>1, <3>2, StartLast
  <2> QED BY <1>2, <2>1, <2>2
<1>6. Continues => \A k \in 1..Len(parts) : k \in cycles[n].text => k \in y.text
  <2> SUFFICES ASSUME Continues
               PROVE  cycles[n].text = {}
    OBVIOUS
  <2>1. cycles[n].state # "text" BY <1>2 DEF Continues
  <2> QED BY <1>1, <1>4, <2>1 DEF ProjTypeOK, active
<1>7. \A k \in y.text : k = 0 \/ (k \in 1..Len(parts') /\ parts'[k] = y.part) BY <1>5
<1>8. y.state = "text" => y.part = parts'[Len(parts')] BY <1>5
<1>9. Len(parts) <= Len(parts') /\ \A k \in Len(parts) + 1..Len(parts') : k \in y.text
  BY <1>2, <1>3
<1>10. parts' \in Seq(Nat) /\ \A k \in 1..Len(parts) : parts'[k] = parts[k] BY <1>2, <1>3
<1> HIDE DEF y
<1>11. y = cycles'[Len(cycles')] BY DEF y
<1> QED BY <1>2, <1>3, <1>6, <1>7, <1>8, <1>9, <1>10, <1>11, EventWhole

\* The first message is whole: it is that of the first cycle, below the trigger.
LEMMA WholeInit ==
  ASSUME ProjInit
  PROVE  WholeInv
<1>1. TidyInv BY TidyInit
<1>2. /\ Len(cycles) = 1 /\ cycles[1].msg = 1 /\ ~cycles[1].deleted /\ cycles[1].text \subseteq {0}
      /\ Len(chat) = 1 /\ chat[1].cycle = 1 /\ writes = <<>> /\ outcome = "running" /\ parts = <<>>
      /\ reacted = {0} /\ target = 0
  BY DEF ProjInit, Cycle
<1>3. \A c \in 1..1 : c = 1 OBVIOUS
<1>4. OwnOK BY <1>2, <1>3 DEF OwnOK
<1>5. ReactOK /\ DoneOK /\ ActiveOK /\ DelOK BY <1>2 DEF ReactOK, DoneOK, ActiveOK, DelOK
<1>6. PartsOK
  <2>1. OnePart(cycles) /\ LastPart(cycles) BY <1>2, <1>3 DEF OnePart, LastPart
  <2> QED BY <2>1 DEF PartsOK
<1>7. CovOK
  <2>1. \A k \in 1..Len(parts) : FALSE BY <1>2
  <2> QED BY <2>1 DEF CovOK
<1> QED BY <1>1, <1>4, <1>5, <1>6, <1>7 DEF WholeInv, Whole

\* Of the writes after another one is queued only that one is new.
LEMMA LastQueued ==
  ASSUME writes \in Seq(QueuedWrite), NEW job \in QueuedWrite, writes' = Append(writes, job),
         job.kind # "finish"
  PROVE  \A j \in Len(writes) + 1..Len(writes') : writes'[j].kind # "finish"
<1>1. Len(writes) \in Nat BY LenProperties
<1>2. Len(writes') = Len(writes) + 1 /\ writes'[Len(writes) + 1] = job BY AppendChain
<1> QED BY <1>1, <1>2

\* Requests keep the answer whole.
LEMMA RequestWhole ==
  ASSUME BaseInv, Whole, TimerFires \/ Finish \/ Fail \/ Steer \/ Move
  PROVE  Whole'
<1>1. /\ ProjTypeOK /\ writes \in Seq(QueuedWrite) /\ moves \in Nat /\ timer \in Nat
      /\ Len(writes) \in Nat
  <2>1. ProjTypeOK BY DEF BaseInv
  <2>2. writes \in Seq(QueuedWrite) /\ moves \in Nat BY <2>1 DEF ProjTypeOK
  <2>3. timer \in 0..Len(cycles) BY <2>1 DEF ProjTypeOK, active
  <2>4. Len(writes) \in Nat BY <2>2, LenProperties
  <2> QED BY <2>1, <2>2, <2>3, <2>4
<1>2. CASE TimerFires
  <2> DEFINE job == Job("flush", "edit", timer)
  <2>1. job \in QueuedWrite /\ Fresh(job) /\ job.kind = "flush" BY <1>1, JobFresh DEF First, Job
  <2>2. writes' = Append(writes, job) BY <1>2 DEF TimerFires
  <2> HIDE DEF job
  <2>3. Grown BY <1>1, <2>1, <2>2, QueueChain
  <2>4. /\ UNCHANGED <<cycles, chat, reacted, target, parts, overtaken>>
        /\ closed' = closed /\ outcome' = outcome
    BY <1>2 DEF TimerFires, output, shown, past
  <2>5. \A j \in Len(writes) + 1..Len(writes') : writes'[j].kind # "finish"
    BY <1>1, <2>1, <2>2, LastQueued
  <2> QED BY <2>3, <2>4, <2>5, QueueWhole
<1>3. CASE Finish
  <2>1. PICK result \in {"all", "last", "none", "silent"} :
          Close([Job("finish", "unreact", 0) EXCEPT !.result = result])
    BY <1>3 DEF Finish
  <2> DEFINE job == [Job("finish", "unreact", 0) EXCEPT !.result = result]
  <2>2. job \in QueuedWrite /\ Fresh(job)
    BY DEF Job, Fresh, First, QueuedWrite, WriteStep, NetworkCall, NoCall
  <2>3. writes' = Append(writes, job) BY <2>1 DEF Close
  <2> HIDE DEF job
  <2>4. Grown BY <1>1, <2>2, <2>3, QueueChain
  <2>5. /\ UNCHANGED <<cycles, chat, reacted, target, parts, overtaken>>
        /\ ~closed /\ outcome = "running" /\ outcome' = "ending"
    BY <1>3 DEF Finish, output, shown, past
  <2> QED BY <2>4, <2>5, QueueWhole
<1>4. CASE Fail
  <2>1. writes' = Append(writes, FailJob) BY <1>4 DEF Fail, Close
  <2>2. Grown BY <1>1, <2>1, FailJobFresh, QueueChain
  <2>3. /\ UNCHANGED <<cycles, chat, reacted, target, parts, overtaken>>
        /\ ~closed /\ outcome = "running" /\ outcome' = "ending"
    BY <1>4 DEF Fail, output, shown, past
  <2> QED BY <2>2, <2>3, QueueWhole
<1>5. CASE Steer
  <2>1. writes' = writes /\ Grown
    <3>1. writes' = writes BY <1>5 DEF Steer
    <3> QED BY <1>1, <3>1 DEF Grown
  <2>2. /\ UNCHANGED <<cycles, chat, reacted, target, parts, overtaken>>
        /\ closed' = closed /\ outcome' = outcome
    BY <1>5 DEF Steer, output, shown, past
  <2>3. \A j \in Len(writes) + 1..Len(writes') : FALSE BY <1>1, <2>1
  <2> QED BY <2>1, <2>2, <2>3, QueueWhole
<1>6. CASE Move
  <2> DEFINE job == [Job("move", "previous", 0) EXCEPT !.trigger = moves + 1]
  <2>1. job \in QueuedWrite /\ Fresh(job) /\ job.kind = "move"
    BY <1>1 DEF Job, Fresh, First, QueuedWrite, WriteStep, NetworkCall, NoCall
  <2>2. writes' = Append(writes, job) BY <1>6 DEF Move
  <2> HIDE DEF job
  <2>3. Grown BY <1>1, <2>1, <2>2, QueueChain
  <2>4. /\ UNCHANGED <<cycles, chat, reacted, target, parts, overtaken>>
        /\ closed' = closed /\ outcome' = outcome
    BY <1>6 DEF Move, output, shown
  <2>5. \A j \in Len(writes) + 1..Len(writes') : writes'[j].kind # "finish"
    BY <1>1, <2>1, <2>2, LastQueued
  <2> QED BY <2>3, <2>4, <2>5, QueueWhole
<1> QED BY <1>2, <1>3, <1>4, <1>5, <1>6

\* A step of the write under way keeps the answer whole if no call is lost.
LEMMA WorkWhole ==
  ASSUME BaseInv, Tidy, Whole, ~late, lost' = 0, NEW j \in 1..Len(writes), Work(j)
  PROVE  Whole'
<1>1. CASE Conclude(j)
  <2>1. CASE writes[1].result = "silent" BY <1>1, <2>1, SilenceWhole
  <2>2. CASE writes[1].result # "silent" BY <1>1, <2>2, AnswerWhole
  <2> QED BY <2>1, <2>2
<1>2. CASE Lose(j) BY <1>2, LostShows DEF Tidy
<1>3. CASE EditNow(j) \/ CreateNow(j) \/ CallNow(j) \/ Previous(j) \/ EmitNow(j) \/ Fork(j)
  BY <1>3, EditNowWhole, CreateNowWhole, CallNowWhole, PreviousWhole, EmitNowWhole, ForkWhole
<1>4. CASE Sweep(j) \/ Over(j) \/ Complete(j) \/ Rewrite(j) \/ Words(j) \/ Notice(j) \/ Failed(j)
  BY <1>4, SweepWhole, OverWhole, CompleteWhole, RewriteWhole, WordsWhole, NoticeWhole, FailedWhole
<1>5. CASE Land(j) \/ JobEnds(j) BY <1>5, RepliesWhole, JobEndsWhole
<1> QED BY <1>1, <1>2, <1>3, <1>4, <1>5 DEF Work

\* While no call is lost and no move is late the answer stays whole.
LEMMA WholeStep ==
  ASSUME WholeInv, [ProjNext]_projVars
  PROVE  WholeInv'
<1>1. TidyInv /\ TidyInv' /\ BaseInv BY TidyStep DEF WholeInv, TidyInv
<1> SUFFICES ASSUME Clean'
             PROVE  Whole'
  BY <1>1 DEF WholeInv
<1>2. Clean /\ Tidy /\ Whole BY <1>1, CleanBefore DEF WholeInv, TidyInv
<1>3. ~late /\ lost' = 0 BY <1>2 DEF Clean
<1>4. CASE TextDelta BY <1>1, <1>2, <1>4, TextDeltaWhole
<1>5. CASE Progress BY <1>1, <1>2, <1>5, ProgressWhole
<1>6. CASE TimerFires \/ Finish \/ Fail \/ Steer \/ Move BY <1>1, <1>2, <1>6, RequestWhole
<1>7. CASE \E j \in 1..Len(writes) : Work(j) BY <1>1, <1>2, <1>3, <1>7, WorkWhole
<1>8. CASE UNCHANGED projVars
  <2>1. /\ cycles' = cycles /\ closed' = closed /\ writes' = writes /\ chat' = chat
        /\ reacted' = reacted /\ target' = target /\ parts' = parts /\ outcome' = outcome
        /\ overtaken' = overtaken
    BY <1>8 DEF projVars
  <2>2. OwnOK' /\ ReactOK' /\ DoneOK' /\ ActiveOK' /\ DelOK'
    BY <1>2, <2>1 DEF Whole, OwnOK, ReactOK, DoneOK, ActiveOK, DelOK, Clears
  <2>3. PartsOK' BY <1>2, <2>1 DEF Whole, PartsOK, OnePart, LastPart
  <2>4. CovOK' BY <1>2, <2>1 DEF Whole, CovOK, Outspoken, HasPlace
  <2> QED BY <2>2, <2>3, <2>4 DEF Whole
<1> QED BY <1>4, <1>5, <1>6, <1>7, <1>8 DEF ProjNext

\* The answer is whole in every run, as long as no call is lost and no move comes late.
LEMMA WholeAlways == ProjSpec => []WholeInv
BY WholeInit, WholeStep, PTL DEF ProjSpec

\* When a run is done and no write failed, a chunk is in a text, or in one that was overtaken.
LEMMA ChunkIsShown ==
  ASSUME BaseInv, Whole, Settled({"done"}), NEW k \in 1..Len(parts)
  PROVE  k \in TextOf(Texts) \cup TextOf(overtaken)
<1>1. ProjTypeOK /\ Shapes BY ProjShapes DEF BaseInv
<1>2. Outspoken
  <2>1. outcome = "done" /\ writes = <<>> BY DEF Settled
  <2> QED BY <1>1, <2>1 DEF Outspoken, Shapes
<1>3. PICK c \in 1..Len(cycles) : k \in cycles[c].text /\ (c \in overtaken \/ ~cycles[c].deleted)
  BY <1>2 DEF Whole, CovOK, HasPlace
<1>4. cycles[c].state = "text"
  <2>1. cycles[c].state # "text" => cycles[c].text = {} BY <1>1 DEF ProjTypeOK, active
  <2> QED BY <1>3, <2>1
<1>5. CASE c \in overtaken BY <1>3, <1>5 DEF TextOf
<1>6. CASE ~cycles[c].deleted
  <2>1. c \in Texts BY <1>4, <1>6 DEF Texts, active
  <2> QED BY <1>3, <2>1 DEF TextOf
<1> QED BY <1>3, <1>5, <1>6

\* When a run is done and no write failed, a message is that of a text, or of a cycle that was
\* overtaken: every other cycle is over, and has no message or a text.
LEMMA OwnIsText ==
  ASSUME BaseInv, Tidy, Whole, Settled({"done"}), NEW m \in 1..Len(chat), chat[m].as = "own"
  PROVE  chat[m].cycle \in overtaken \/ \E c \in Texts : cycles[c].msg = m
<1> DEFINE c == chat[m].cycle
           n == Len(cycles)
<1>1. Shapes BY ProjShapes DEF BaseInv
<1>2. c \in 1..n /\ cycles[c].msg = m /\ ~cycles[c].deleted BY DEF Whole, OwnOK
<1>3. m # 0 BY <1>1 DEF Shapes
<1>4. c \in overtaken \/ cycles[c].state = "text"
  <2>1. CASE c = n
    <3>1. outcome = "done" BY DEF Settled
    <3> QED BY <1>2, <2>1, <3>1 DEF Whole, DoneOK
  <2>2. CASE c # n
    <3>1. c \in 1..n - 1 BY <1>1, <1>2, <2>2 DEF Shapes
    <3>2. c \in overtaken \/ Over1(cycles[c]) BY <3>1 DEF Tidy, SettleOK
    <3> QED BY <1>2, <1>3, <3>2 DEF Over1
  <2> QED BY <2>1, <2>2
<1> QED BY <1>2, <1>4 DEF Texts, active

\* When a run is done the chat shows each text in its last version, even if earlier writes
\* failed.  If none failed it shows no other message of the run, no working reaction and every
\* chunk that was streamed, whatever events and steering messages came while writes were under
\* way, except for the cycles that a move overtook.
THEOREM TheAnswerIsShown == ProjSpec => []AnswerIsShown
<1>1. ASSUME WholeInv, Settled({"done"})
      PROVE  /\ \A c \in Texts :
                  /\ cycles[c].msg # 0
                  /\ chat[cycles[c].msg] = [cycle |-> c, ver |-> cycles[c].ver, as |-> "own"]
             /\ lost = 0 =>
                  /\ reacted = {}
                  /\ \A m \in 1..Len(chat) : chat[m].as = "own" =>
                       chat[m].cycle \in overtaken \/ \E c \in Texts : cycles[c].msg = m
                  /\ 1..Len(parts) \subseteq TextOf(Texts) \cup TextOf(overtaken)
  <2>1. BaseInv /\ outcome = "done" /\ ~late BY <1>1 DEF WholeInv, TidyInv, Settled
  <2>2. Shapes BY <2>1, ProjShapes DEF BaseInv
  <2>3. ASSUME NEW c \in Texts
        PROVE  /\ cycles[c].msg # 0
               /\ chat[cycles[c].msg] = [cycle |-> c, ver |-> cycles[c].ver, as |-> "own"]
    <3>1. c \in 1..Len(cycles) /\ Speaks(cycles[c]) BY DEF Texts, Speaks, active
    <3>2. Shown(cycles, chat, c) BY <2>1, <3>1 DEF BaseInv, ShownOK
    <3>3. cycles[c].msg \in 1..Len(chat) BY <2>2, <3>1, <3>2 DEF Shapes, Shown
    <3>4. chat[cycles[c].msg] \in Message BY <2>2, <3>3 DEF Shapes
    <3> QED BY <3>2, <3>4 DEF Shown, Message
  <2>4. ASSUME lost = 0
        PROVE  /\ reacted = {}
               /\ \A m \in 1..Len(chat) : chat[m].as = "own" =>
                    chat[m].cycle \in overtaken \/ \E c \in Texts : cycles[c].msg = m
               /\ 1..Len(parts) \subseteq TextOf(Texts) \cup TextOf(overtaken)
    <3>1. Tidy /\ Whole BY <1>1, <2>1, <2>4 DEF WholeInv, TidyInv, Clean
    <3>2. reacted = {} BY <2>1, <3>1 DEF Whole, DoneOK
    <3>3. \A m \in 1..Len(chat) : chat[m].as = "own" =>
            chat[m].cycle \in overtaken \/ \E c \in Texts : cycles[c].msg = m
      BY <1>1, <2>1, <3>1, OwnIsText
    <3>4. \A k \in 1..Len(parts) : k \in TextOf(Texts) \cup TextOf(overtaken)
      BY <1>1, <2>1, <3>1, ChunkIsShown
    <3> QED BY <3>2, <3>3, <3>4
  <2> QED BY <2>3, <2>4
<1>2. WholeInv => AnswerIsShown BY <1>1 DEF AnswerIsShown
<1> QED BY <1>2, WholeAlways, PTL

-----------------------------------------------------------------------------
(* PublicationOutbox *)

(* The inductive invariant *)

Row == [request : Request, state : Pending \cup {"in-flight", "succeeded", "failed"},
        due : BOOLEAN, attempt : Nat, owner : Worker \cup {"none"},
        lease : {"none", "held", "lapsed"},
        asset : {"pending", "requested", "uploaded", "committed"}]

Call == [at : {"idle", "written", "claim", "asset", "upload", "commit", "publish", "record"},
         op : Nat, reply : {"none", "ok", "retry", "final"}, stale : BOOLEAN]

\* An operation has a lease while it is in flight, and a push has one operation.
TablesOK ==
  /\ ops \in Seq(Row) /\ Len(ops) \in Nat
  /\ \A i \in Op : ops[i].lease = "none" <=> ops[i].state # "in-flight"
  /\ \A i, j \in Op : ops[i].request = ops[j].request /\ ops[i].request # "control" => i = j
  /\ manifest \in BOOLEAN /\ upload \in {"none", "open", "stored", "verified"}
  /\ applied \subseteq Op /\ refused \subseteq Request

\* A call that is not idle is about an operation.
CallsOK ==
  /\ worker \in [Worker -> Call]
  /\ \A w \in Worker : worker[w].op \in Op \cup {0} /\ (worker[w].at # "idle" => worker[w].op # 0)

\* Checkpoints and calls that send a page are ahead of the cloud by nothing.
AssetsOK ==
  /\ \A i \in Op : ops[i].asset = "committed" => upload = "verified"
  /\ \A w \in Worker :
       worker[w].at = "publish" /\ ops[worker[w].op].request = "media" => upload = "verified"
  /\ AssetsFirst

\* What is written down or about to be is what the cloud committed.
ReceiptsOK ==
  /\ \A i \in Op : ops[i].state = "succeeded" => i \in applied
  /\ \A w \in Worker : worker[w].at = "record" /\ worker[w].reply = "ok" => worker[w].op \in applied

\* A call that has claimed its operation and whose lease has not lapsed holds it.
OwnersOK ==
  \A w \in Worker : worker[w].at \in Delivers /\ ~worker[w].stale =>
    ops[worker[w].op].owner = w /\ ops[worker[w].op].lease = "held"

PublicationInv == TablesOK /\ CallsOK /\ AssetsOK /\ ReceiptsOK /\ OwnersOK

\* What a step leaves of every operation: a receipt stands, and an attempt whose lease has not
\* lapsed is ended by its holder.
RowsStand ==
  \A i \in Op :
    /\ ops[i].state = "succeeded" => ops'[i].state = "succeeded"
    /\ \A w \in Worker : ops[i].owner = w /\ ops[i].lease = "held" /\ ops'[i].state # "in-flight"
                          => worker[w].at = "record"

Keeps == PublicationInv' /\ RowsStand

-----------------------------------------------------------------------------
(* Rows and sequences *)

\* The states of a row.
LEMMA RowStates ==
  ASSUME NEW r \in Row
  PROVE  /\ r.request \in Request
         /\ r.state \in {"queued", "retrying", "in-flight", "succeeded", "failed"}
         /\ r.due \in BOOLEAN /\ r.attempt \in Nat
         /\ r.lease \in {"none", "held", "lapsed"}
         /\ r.asset \in {"pending", "requested", "uploaded", "committed"}
  BY DEF Row, Pending

\* An attempt that ends gives up the lease and nothing else.
LEMMA FreedRow ==
  ASSUME NEW r \in Row, NEW state \in {"queued", "retrying", "succeeded", "failed"}
  PROVE  /\ Freed(r, state) \in Row /\ Freed(r, state).state = state
         /\ Freed(r, state).lease = "none" /\ Freed(r, state).asset = r.asset
         /\ Freed(r, state).request = r.request
  BY DEF Freed, Row, Pending

\* Writing a checkpoint or a time into a row leaves the rest of it.
LEMMA RowFields ==
  ASSUME NEW r \in Row, NEW due \in BOOLEAN,
         NEW asset \in {"pending", "requested", "uploaded", "committed"}
  PROVE  /\ [r EXCEPT !.due = due] \in Row /\ [r EXCEPT !.due = due].state = r.state
         /\ [r EXCEPT !.due = due].lease = r.lease /\ [r EXCEPT !.due = due].request = r.request
         /\ [r EXCEPT !.due = due].asset = r.asset /\ [r EXCEPT !.due = due].owner = r.owner
         /\ [r EXCEPT !.asset = asset] \in Row /\ [r EXCEPT !.asset = asset].state = r.state
         /\ [r EXCEPT !.asset = asset].lease = r.lease
         /\ [r EXCEPT !.asset = asset].request = r.request
         /\ [r EXCEPT !.asset = asset].asset = asset /\ [r EXCEPT !.asset = asset].owner = r.owner
  BY DEF Row

\* A call that starts on an operation.
LEMMA CallFields ==
  ASSUME NEW call \in Call, NEW i \in Nat, NEW step \in {"written", "claim"}
  PROVE  /\ [call EXCEPT !.at = step, !.op = i] \in Call
         /\ [call EXCEPT !.at = step, !.op = i].at = step
         /\ [call EXCEPT !.at = step, !.op = i].op = i
  BY DEF Call

\* What opening, asking again and retrying may do to a row.
Kept(a, b) ==
  /\ b.request = a.request /\ b.asset \in {a.asset, "pending"}
  /\ b.lease = "none" <=> b.state # "in-flight"
  /\ a.state = "succeeded" <=> b.state = "succeeded"
  /\ a.lease = "held" => b.lease = "held" /\ b.owner = a.owner

\* Nothing but an abandoned operation changes when the outbox is opened.
LEMMA OpenedRows ==
  ASSUME TablesOK
  PROVE  /\ Opened \in Seq(Row) /\ Len(Opened) = Len(ops)
         /\ \A i \in Op : Opened[i] \in Row /\ Kept(ops[i], Opened[i])
<1>1. \A i \in Op : ops[i] \in Row
  BY ElementOfSeq DEF TablesOK, Op
<1>2. ASSUME NEW i \in Op
      PROVE  Opened[i] \in Row /\ Kept(ops[i], Opened[i])
  <2>1. CASE Abandoned(ops[i])
    <3>1. Opened[i] = Freed(ops[i], "retrying")
      BY <2>1 DEF Opened
    <3>2. ops[i].state = "in-flight" /\ ops[i].lease = "lapsed"
      BY <2>1 DEF Abandoned
    <3>3. QED
      BY <1>1, <3>1, <3>2, FreedRow DEF Kept
  <2>2. CASE ~Abandoned(ops[i])
    <3>1. Opened[i] = ops[i]
      BY <2>2 DEF Opened
    <3>2. QED
      BY <1>1, <3>1 DEF Kept, TablesOK
  <2>3. QED
    BY <2>1, <2>2
<1>3. Opened \in [1..Len(ops) -> Row]
  BY <1>2 DEF Opened, Op
<1>4. QED
  BY <1>2, <1>3, FunIsSeq DEF TablesOK

\* Writing one row leaves the others.
LEMMA OneRow ==
  ASSUME TablesOK, NEW i \in Op, NEW row \in Row, ops' = [ops EXCEPT ![i] = row]
  PROVE  /\ ops' \in Seq(Row) /\ Len(ops') = Len(ops) /\ Op' = Op
         /\ \A j \in Op : ops'[j] = IF j = i THEN row ELSE ops[j]
<1>1. ops \in Seq(Row) /\ i \in 1..Len(ops)
  BY DEF TablesOK, Op
<1>2. /\ [ops EXCEPT ![i] = row] \in Seq(Row) /\ Len([ops EXCEPT ![i] = row]) = Len(ops)
      /\ \A j \in 1..Len(ops) : [ops EXCEPT ![i] = row][j] = IF j = i THEN row ELSE ops[j]
  BY <1>1, ExceptSeq
<1>3. QED
  BY <1>2 DEF Op

\* One call goes on, the others stay where they are.
LEMMA OneCall ==
  ASSUME CallsOK, NEW w \in Worker, NEW call \in Call, worker' = [worker EXCEPT ![w] = call]
  PROVE  /\ worker' \in [Worker -> Call]
         /\ \A v \in Worker : worker'[v] = IF v = w THEN call ELSE worker[v]
  BY DEF CallsOK

\* A call that returns, goes on to another await, or has its reply.
LEMMA CallRows ==
  ASSUME CallsOK, NEW w \in Worker
  PROVE  /\ worker[w] \in Call /\ NoWorker \in Call
         /\ worker[w].at \in {"idle", "written", "claim", "asset", "upload", "commit", "publish",
                              "record"}
         /\ Returns(w) => worker' = [worker EXCEPT ![w] = NoWorker]
         /\ \A step \in {"claim", "asset", "upload", "commit", "publish"} :
              /\ [worker[w] EXCEPT !.at = step] \in Call
              /\ Goes(w, step) => worker' = [worker EXCEPT ![w] = [worker[w] EXCEPT !.at = step]]
         /\ \A reply \in {"ok", "retry", "final"} :
              /\ [worker[w] EXCEPT !.at = "record", !.reply = reply] \in Call
              /\ Replied(w, reply) =>
                   worker' = [worker EXCEPT ![w] =
                                [worker[w] EXCEPT !.at = "record", !.reply = reply]]
<1>1. worker[w] \in Call
  BY DEF CallsOK
<1>2. NoWorker \in Call
  BY DEF NoWorker, Call
<1>3. \A step \in {"claim", "asset", "upload", "commit", "publish"} :
        [worker[w] EXCEPT !.at = step] \in Call
  BY <1>1 DEF Call
<1>4. \A reply \in {"ok", "retry", "final"} :
        [worker[w] EXCEPT !.at = "record", !.reply = reply] \in Call
  BY <1>1 DEF Call
<1>5. worker[w].at \in {"idle", "written", "claim", "asset", "upload", "commit", "publish",
                        "record"}
  BY <1>1 DEF Call
<1>6. QED
  BY <1>1, <1>2, <1>3, <1>4, <1>5 DEF Returns, Goes, Replied

-----------------------------------------------------------------------------
(* Opening, asking, retrying, returning: nothing is delivered *)

\* What is not a delivery keeps what was delivered, and holds on to what is being delivered.
LEMMA OperationsKept ==
  ASSUME PublicationInv, ops' \in Seq(Row), Len(ops') = Len(ops),
         \A i \in Op : Kept(ops[i], ops'[i]),
         manifest' \in BOOLEAN, refused' \subseteq Request, UNCHANGED <<upload, applied>>,
         worker' \in [Worker -> Call],
         \A w \in Worker :
           \/ worker'[w] = worker[w]
           \/ worker'[w].at = "idle" /\ worker'[w].op = 0
           \/ worker'[w].at \in {"written", "claim"} /\ worker'[w].op \in Op
  PROVE  Keeps
<1> USE DEF PublicationInv
<1>1. Op' = Op /\ 0 \notin Op
  BY DEF Op
<1>2. TablesOK'
  <2>1. \A i \in Op : /\ ops'[i].lease = "none" <=> ops'[i].state # "in-flight"
                      /\ ops'[i].request = ops[i].request
    BY DEF Kept
  <2>2. QED
    BY <1>1, <2>1 DEF TablesOK
<1>3. CallsOK'
  BY <1>1 DEF CallsOK
<1>4. AssetsOK'
  <2>1. \A i \in Op : /\ ops'[i].asset = "committed" => ops[i].asset = "committed"
                      /\ ops'[i].request = ops[i].request
    BY DEF Kept
  <2>2. applied \subseteq Op
    BY DEF TablesOK
  <2>3. AssetsFirst'
    BY <1>1, <2>1, <2>2 DEF AssetsOK, AssetsFirst
  <2>4. \A w \in Worker : worker'[w].at = "publish" => worker'[w] = worker[w] /\ worker[w].op \in Op
    BY DEF CallsOK
  <2>5. QED
    BY <1>1, <2>1, <2>3, <2>4 DEF AssetsOK
<1>5. ReceiptsOK'
  BY <1>1 DEF ReceiptsOK, Kept
<1>6. OwnersOK'
  <2>1. ASSUME NEW w \in Worker, worker'[w].at \in Delivers, ~worker'[w].stale
        PROVE  ops'[worker'[w].op].owner = w /\ ops'[worker'[w].op].lease = "held"
    <3>1. worker'[w] = worker[w] /\ worker[w].op \in Op
      BY <2>1 DEF CallsOK, Delivers
    <3>2. QED
      BY <2>1, <3>1 DEF OwnersOK, Kept
  <2>2. QED
    BY <2>1 DEF OwnersOK
<1>7. RowsStand
  BY DEF RowsStand, Kept
<1>8. QED
  BY <1>2, <1>3, <1>4, <1>5, <1>6, <1>7 DEF Keeps

\* The same rows are kept.
LEMMA SameRows == TablesOK => \A i \in Op : Kept(ops[i], ops[i])
  BY DEF TablesOK, Kept

\* Writing the row of a request keeps it: a push that has one gets no other.
LEMMA WriteKeeps ==
  ASSUME PublicationInv, NEW w \in Worker, NEW r \in Request, Write(w, r)
  PROVE  Keeps
<1> USE DEF PublicationInv
<1>1. /\ Opened \in Seq(Row) /\ Len(Opened) = Len(ops)
      /\ \A i \in Op : Opened[i] \in Row /\ Kept(ops[i], Opened[i])
  BY OpenedRows
<1>2. UNCHANGED <<upload, applied>> /\ worker \in [Worker -> Call] /\ worker[w].at = "idle"
  BY DEF Write, OnlyOutbox, CallsOK, At
<1>3. \A i \in Nat : [worker[w] EXCEPT !.at = "written", !.op = i] \in Call
                     /\ [worker[w] EXCEPT !.at = "written", !.op = i].at = "written"
                     /\ [worker[w] EXCEPT !.at = "written", !.op = i].op = i
  BY <1>2 DEF Call
<1>4. CASE /\ r = "media" /\ ~manifest /\ TurnedAway(r) /\ ops' = Opened
           /\ UNCHANGED <<manifest, worker>>
  BY <1>1, <1>2, <1>4, OperationsKept DEF TurnedAway, TablesOK
<1>5. ASSUME NEW i \in Known(r), UNCHANGED <<manifest, refused>>,
             ops' = [Opened EXCEPT ![i] = IF Requeued(@) THEN Freed(@, "queued") ELSE @],
             worker' = [worker EXCEPT ![w].at = "written", ![w].op = i]
      PROVE  Keeps
  <2>1. i \in Op /\ i \in Nat /\ i \in 1..Len(Opened)
    BY <1>1, <1>5 DEF Known, Op, TablesOK
  <2>2. PICK row \in Row : /\ row = IF Requeued(Opened[i]) THEN Freed(Opened[i], "queued")
                                    ELSE Opened[i]
                           /\ Kept(ops[i], row)
    <3>1. CASE Requeued(Opened[i])
      <4>1. Opened[i].state \notin {"in-flight", "succeeded"}
        BY <3>1 DEF Requeued
      <4>2. Kept(ops[i], Freed(Opened[i], "queued"))
        BY <1>1, <2>1, <4>1, FreedRow DEF Kept
      <4>3. QED
        BY <1>1, <2>1, <3>1, <4>2, FreedRow
    <3>2. CASE ~Requeued(Opened[i])
      BY <1>1, <2>1, <3>2
    <3>3. QED
      BY <3>1, <3>2
  <2>3. ops' = [Opened EXCEPT ![i] = row]
    BY <1>5, <2>2
  <2>4. PICK o \in Seq(Row) : o = Opened
    BY <1>1
  <2>5. /\ ops' \in Seq(Row) /\ Len(ops') = Len(ops)
        /\ \A j \in 1..Len(ops) : ops'[j] = IF j = i THEN row ELSE o[j]
    BY <1>1, <2>1, <2>3, <2>4, ExceptSeq
  <2>6. \A j \in Op : Kept(ops[j], ops'[j])
    BY <1>1, <2>2, <2>4, <2>5 DEF Op
  <2>7. /\ worker' \in [Worker -> Call]
        /\ \A v \in Worker : \/ worker'[v] = worker[v]
                             \/ worker'[v].at = "written" /\ worker'[v].op = i
    BY <1>2, <1>3, <1>5, <2>1
  <2>8. QED
    BY <1>2, <1>5, <2>1, <2>5, <2>6, <2>7, OperationsKept DEF TablesOK
<1>6. CASE Known(r) = {} /\ UNCHANGED <<manifest, refused>>
           /\ ops' = Append(Opened, [request |-> r, state |-> "queued", due |-> TRUE,
                                     attempt |-> 0, owner |-> "none", lease |-> "none",
                                     asset |-> "pending"])
           /\ worker' = [worker EXCEPT ![w].at = "written", ![w].op = Len(ops) + 1]
  <2>1. PICK row \in Row : row = [request |-> r, state |-> "queued", due |-> TRUE, attempt |-> 0,
                                  owner |-> "none", lease |-> "none", asset |-> "pending"]
    BY DEF Row, Pending
  <2>2. row.request = r /\ row.state = "queued" /\ row.lease = "none" /\ row.asset = "pending"
    BY <2>1
  <2>3. PICK o \in Seq(Row) : o = Opened
    BY <1>1
  <2>4. ops' = Append(o, row)
    BY <1>6, <2>1, <2>3
  <2>5. PICK n \in Nat : n = Len(ops) + 1
    BY DEF TablesOK
  <2>6. /\ ops' \in Seq(Row) /\ Len(ops') = n /\ ops'[n] = row
        /\ \A j \in 1..Len(ops) : ops'[j] = o[j]
    BY <1>1, <2>3, <2>4, <2>5, AppendProperties
  <2>7. /\ Op' = Op \cup {n} /\ n \notin Op /\ 0 \notin Op' /\ ops'[n] = row
        /\ \A j \in Op : Kept(ops[j], ops'[j])
    BY <1>1, <2>3, <2>5, <2>6 DEF Op, TablesOK
  <2>8. /\ worker' \in [Worker -> Call]
        /\ \A v \in Worker : \/ worker'[v] = worker[v]
                             \/ worker'[v].at = "written" /\ worker'[v].op = n
    BY <1>2, <1>3, <1>6, <2>5
  <2>9. \A j \in Op : r # "control" => ops'[j].request # r
    BY <1>6, <2>7 DEF Known, Kept
  <2>10. TablesOK'
    <3>1. \A i \in Op' : ops'[i].lease = "none" <=> ops'[i].state # "in-flight"
      BY <2>2, <2>7 DEF Kept
    <3>2. \A i, j \in Op' : ops'[i].request = ops'[j].request /\ ops'[i].request # "control"
                              => i = j
      <4>1. \A i, j \in Op : ops'[i].request = ops'[j].request /\ ops'[i].request # "control"
                               => i = j
        BY <2>7 DEF Kept, TablesOK
      <4>2. QED
        BY <2>2, <2>7, <2>9, <4>1
    <3>3. QED
      BY <1>2, <1>6, <2>5, <2>6, <2>7, <3>1, <3>2 DEF TablesOK
  <2>11. CallsOK'
    BY <2>7, <2>8 DEF CallsOK
  <2>12. applied \subseteq Op
    BY DEF TablesOK
  <2>13. AssetsOK'
    <3>1. \A i \in Op' : ops'[i].asset = "committed" => upload' = "verified"
      BY <1>2, <2>2, <2>7 DEF AssetsOK, Kept
    <3>2. \A i \in applied' : ops'[i].request = "media" => upload' = "verified"
      BY <1>2, <2>7, <2>12 DEF AssetsOK, AssetsFirst, Kept
    <3>3. \A v \in Worker : worker'[v].at = "publish" /\ ops'[worker'[v].op].request = "media"
                              => upload' = "verified"
      <4>1. \A v \in Worker : worker'[v].at = "publish" => worker'[v] = worker[v]
                                                           /\ worker[v].op \in Op
        BY <2>8 DEF CallsOK
      <4>2. QED
        BY <1>2, <2>7, <4>1 DEF AssetsOK, Kept
    <3>4. QED
      BY <3>1, <3>2, <3>3 DEF AssetsOK, AssetsFirst
  <2>14. ReceiptsOK'
    <3>1. \A i \in Op' : ops'[i].state = "succeeded" => i \in applied'
      BY <1>2, <2>2, <2>7 DEF ReceiptsOK, Kept
    <3>2. \A v \in Worker : worker'[v].at = "record" => worker'[v] = worker[v]
      BY <2>8
    <3>3. QED
      BY <1>2, <3>1, <3>2 DEF ReceiptsOK
  <2>15. OwnersOK'
    <3>1. \A v \in Worker : worker'[v].at \in Delivers => worker'[v] = worker[v]
                                                          /\ worker[v].op \in Op
      BY <2>8 DEF CallsOK, Delivers
    <3>2. QED
      BY <2>7, <3>1 DEF OwnersOK, Kept
  <2>16. RowsStand
    BY <2>7 DEF RowsStand, Kept
  <2>17. QED
    BY <2>10, <2>11, <2>13, <2>14, <2>15, <2>16 DEF Keeps
<1>7. QED
  BY <1>4, <1>5, <1>6 DEF Write

\* Using up the manifest keeps it.
LEMMA UseManifestKeeps ==
  ASSUME PublicationInv, NEW w \in Worker, UseManifest(w)
  PROVE  Keeps
<1> USE DEF PublicationInv
<1>1. /\ UNCHANGED <<ops, refused, upload, applied>> /\ manifest' \in BOOLEAN
      /\ worker[w].at = "written" /\ (Returns(w) \/ Goes(w, "claim"))
  BY DEF UseManifest, OnlyOutbox, At, TablesOK
<1>2. worker[w] \in Call /\ worker[w].op \in Op
  BY <1>1 DEF CallsOK
<1>3. PICK call \in Call : /\ worker' = [worker EXCEPT ![w] = call]
                           /\ \/ call.at = "idle" /\ call.op = 0
                              \/ call.at = "claim" /\ call.op \in Op
  <2>1. CASE Returns(w)
    BY <2>1, CallRows DEF NoWorker
  <2>2. CASE Goes(w, "claim")
    <3>1. /\ [worker[w] EXCEPT !.at = "claim"].at = "claim"
          /\ [worker[w] EXCEPT !.at = "claim"].op = worker[w].op
      BY <1>2 DEF Call
    <3>2. QED
      BY <1>2, <2>2, <3>1, CallRows
  <2>3. QED
    BY <1>1, <2>1, <2>2
<1>4. /\ worker' \in [Worker -> Call]
      /\ \A v \in Worker : worker'[v] = IF v = w THEN call ELSE worker[v]
  BY <1>3, OneCall
<1>5. ops' \in Seq(Row) /\ Len(ops') = Len(ops) /\ \A i \in Op : Kept(ops[i], ops'[i])
  BY <1>1, SameRows DEF TablesOK
<1>6. refused' \subseteq Request
  BY <1>1 DEF TablesOK
<1>7. QED
  BY <1>1, <1>3, <1>4, <1>5, <1>6, OperationsKept

\* A call that dies leaves its rows as they are.
LEMMA DiesKeeps ==
  ASSUME PublicationInv, NEW w \in Worker, Dies(w)
  PROVE  Keeps
<1> USE DEF PublicationInv
<1>1. UNCHANGED <<ops, manifest, refused, upload, applied>> /\ Returns(w)
  BY DEF Dies
<1>2. /\ worker' \in [Worker -> Call]
      /\ \A v \in Worker : worker'[v] = IF v = w THEN NoWorker ELSE worker[v]
  BY <1>1, CallRows, OneCall
<1>3. NoWorker.at = "idle" /\ NoWorker.op = 0
  BY DEF NoWorker
<1>4. ops' \in Seq(Row) /\ Len(ops') = Len(ops) /\ \A i \in Op : Kept(ops[i], ops'[i])
  BY <1>1, SameRows DEF TablesOK
<1>5. refused' \subseteq Request /\ manifest' \in BOOLEAN
  BY <1>1 DEF TablesOK
<1>6. QED
  BY <1>1, <1>2, <1>3, <1>4, <1>5, OperationsKept

\* Preparing the manifest of the asset keeps it.
LEMMA PrepareKeeps ==
  ASSUME PublicationInv, Prepare
  PROVE  Keeps
<1> USE DEF PublicationInv
<1>1. ops' \in Seq(Row) /\ Len(ops') = Len(ops) /\ \A i \in Op : Kept(ops[i], ops'[i])
  BY SameRows DEF TablesOK, Prepare
<1>2. /\ refused' \subseteq Request /\ manifest' \in BOOLEAN
      /\ UNCHANGED <<upload, applied, worker>> /\ worker' \in [Worker -> Call]
  BY DEF Prepare, TablesOK, CallsOK
<1>3. QED
  BY <1>1, <1>2, OperationsKept

\* The end of a back-off only makes a row due.
LEMMA BackoffEndsKeeps ==
  ASSUME PublicationInv, NEW i \in Op, BackoffEnds(i)
  PROVE  Keeps
<1> USE DEF PublicationInv
<1>1. ops[i] \in Row
  BY ElementOfSeq DEF TablesOK, Op
<1>2. [ops[i] EXCEPT !.due = TRUE] \in Row /\ Kept(ops[i], [ops[i] EXCEPT !.due = TRUE])
  BY <1>1, SameRows DEF Row, Kept
<1>3. PICK row \in Row : row = [ops[i] EXCEPT !.due = TRUE] /\ Kept(ops[i], row)
  BY <1>2
<1>4. ops' = [ops EXCEPT ![i] = row]
  BY <1>3 DEF BackoffEnds
<1>5. /\ ops' \in Seq(Row) /\ Len(ops') = Len(ops)
      /\ \A j \in Op : ops'[j] = IF j = i THEN row ELSE ops[j]
  BY <1>4, OneRow
<1>6. \A j \in Op : Kept(ops[j], ops'[j])
  BY <1>3, <1>5, SameRows
<1>7. /\ refused' \subseteq Request /\ manifest' \in BOOLEAN
      /\ UNCHANGED <<upload, applied, worker>> /\ worker' \in [Worker -> Call]
  BY DEF BackoffEnds, TablesOK, CallsOK
<1>8. QED
  BY <1>5, <1>6, <1>7, OperationsKept

\* A retry queues a row again, from the start if it had failed.
LEMMA RetryKeeps ==
  ASSUME PublicationInv, NEW w \in Worker, NEW i \in Op, Retry(w, i)
  PROVE  Keeps
<1> USE DEF PublicationInv
<1>1. /\ Opened \in Seq(Row) /\ Len(Opened) = Len(ops)
      /\ \A j \in Op : Opened[j] \in Row /\ Kept(ops[j], Opened[j])
  BY OpenedRows
<1>2. PICK o \in Seq(Row) : o = Opened
  BY <1>1
<1>3. i \in 1..Len(o) /\ i \in Nat /\ ops[i] \in Row /\ o[i] \in Row /\ Kept(ops[i], o[i])
  BY <1>1, <1>2, ElementOfSeq DEF Op, TablesOK
<1>4. PICK row \in Row : ops' = [o EXCEPT ![i] = row] /\ Kept(ops[i], row)
  <2>1. CASE /\ ops[i].state = "failed"
             /\ ops' = [Opened EXCEPT ![i] = [Freed(@, "queued") EXCEPT !.asset = "pending"]]
    <3>1. PICK freed \in Row : /\ freed = Freed(o[i], "queued") /\ freed.state = "queued"
                               /\ freed.lease = "none" /\ freed.request = o[i].request
      BY <1>3, FreedRow
    <3>2. PICK row \in Row : /\ row = [freed EXCEPT !.asset = "pending"]
                             /\ row.state = "queued" /\ row.lease = "none"
                             /\ row.request = freed.request /\ row.asset = "pending"
      <4> DEFINE R == [freed EXCEPT !.asset = "pending"]
      <4>1. /\ R \in Row /\ R.state = "queued" /\ R.lease = "none"
            /\ R.request = freed.request /\ R.asset = "pending"
        BY <3>1, RowFields
      <4>2. QED
        BY <4>1
    <3>3. ops' = [o EXCEPT ![i] = row]
      BY <1>2, <2>1, <3>1, <3>2
    <3>4. ops[i].lease = "none"
      BY <2>1 DEF TablesOK
    <3>5. Kept(ops[i], row)
      BY <1>3, <2>1, <3>1, <3>2, <3>4 DEF Kept
    <3>6. QED
      BY <3>3, <3>5
  <2>2. CASE /\ ops[i].state \notin {"failed", "succeeded"}
             /\ ops' = [Opened EXCEPT ![i].due = @ \/ Opened[i].state = "retrying"]
    <3>1. PICK due \in BOOLEAN : due = (o[i].due \/ o[i].state = "retrying")
      OBVIOUS
    <3>2. PICK row \in Row : /\ row = [o[i] EXCEPT !.due = due] /\ row.state = o[i].state
                             /\ row.lease = o[i].lease /\ row.request = o[i].request
                             /\ row.asset = o[i].asset /\ row.owner = o[i].owner
      <4> DEFINE R == [o[i] EXCEPT !.due = due]
      <4>1. /\ R \in Row /\ R.state = o[i].state
            /\ R.lease = o[i].lease /\ R.request = o[i].request
            /\ R.asset = o[i].asset /\ R.owner = o[i].owner
        <5>1. o[i] \in Row /\ due \in BOOLEAN
          BY <1>3
        <5>2. QED
          BY <5>1 DEF Row
      <4>2. QED
        BY <4>1
    <3>3. ops' = [o EXCEPT ![i] = row]
      BY <1>2, <2>2, <3>1, <3>2
    <3>4. Kept(ops[i], row)
      BY <1>3, <3>2 DEF Kept
    <3>5. QED
      BY <3>3, <3>4
  <2>3. QED
    BY <2>1, <2>2 DEF Retry
<1>5. /\ ops' \in Seq(Row) /\ Len(ops') = Len(ops)
      /\ \A j \in 1..Len(ops) : ops'[j] = IF j = i THEN row ELSE o[j]
  BY <1>1, <1>2, <1>3, <1>4, ExceptSeq
<1>6. \A j \in Op : Kept(ops[j], ops'[j])
  BY <1>1, <1>2, <1>4, <1>5 DEF Op
<1>7. /\ UNCHANGED <<manifest, refused, upload, applied>> /\ worker[w] \in Call
      /\ worker' = [worker EXCEPT ![w].at = "claim", ![w].op = i]
  BY DEF Retry, OnlyOutbox, CallsOK
<1>8. PICK call \in Call : /\ call = [worker[w] EXCEPT !.at = "claim", !.op = i]
                           /\ call.at = "claim" /\ call.op = i
  <2> DEFINE C == [worker[w] EXCEPT !.at = "claim", !.op = i]
  <2>1. C \in Call /\ C.at = "claim" /\ C.op = i
    BY <1>3, <1>7, CallFields
  <2>2. QED
    BY <2>1
<1>9. worker' = [worker EXCEPT ![w] = call]
  BY <1>7, <1>8 DEF CallsOK
<1>10. /\ worker' \in [Worker -> Call]
       /\ \A v \in Worker : worker'[v] = IF v = w THEN call ELSE worker[v]
  BY <1>9, OneCall
<1>11. refused' \subseteq Request /\ manifest' \in BOOLEAN
  BY <1>7 DEF TablesOK
<1>12. QED
  BY <1>5, <1>6, <1>7, <1>8, <1>10, <1>11, OperationsKept

-----------------------------------------------------------------------------
(* Claiming, delivering, recording *)

\* A delivery writes down nothing but where its asset is.
Same(a, b) ==
  /\ b.request = a.request /\ b.state = a.state /\ b.lease = a.lease /\ b.owner = a.owner

\* A step of a delivery keeps the invariant when what it writes down and sends follows the cloud.
LEMMA DeliveryKeeps ==
  ASSUME PublicationInv, NEW w \in Worker, worker[w].at \in Delivers,
         ops' \in Seq(Row), Len(ops') = Len(ops),
         \A i \in Op : /\ Same(ops[i], ops'[i])
                       /\ ops'[i].asset = "committed" => upload' = "verified",
         UNCHANGED <<manifest, refused>>, upload' \in {"none", "open", "stored", "verified"},
         upload = "verified" => upload' = "verified",
         applied \subseteq applied', applied' \subseteq Op,
         \A i \in applied' : ops[i].request = "media" => upload' = "verified",
         NEW call \in Call, worker' = [worker EXCEPT ![w] = call],
         call.op = worker[w].op, call.stale = worker[w].stale, call.at \in Delivers,
         call.at = "publish" /\ ops[call.op].request = "media" => upload' = "verified",
         call.at = "record" /\ call.reply = "ok" => call.op \in applied'
  PROVE  Keeps
<1> USE DEF PublicationInv
<1>1. /\ worker' \in [Worker -> Call]
      /\ \A v \in Worker : worker'[v] = IF v = w THEN call ELSE worker[v]
  BY OneCall
<1>2. Op' = Op
  BY DEF Op
<1>3. \A v \in Worker : worker[v].at \in Delivers => worker[v].op \in Op
  BY DEF CallsOK, Delivers
<1>4. TablesOK'
  <2>1. \A i \in Op : ops'[i].lease = "none" <=> ops'[i].state # "in-flight"
    BY DEF TablesOK, Same
  <2>2. \A i, j \in Op : ops'[i].request = ops'[j].request /\ ops'[i].request # "control" => i = j
    BY DEF TablesOK, Same
  <2>3. QED
    BY <1>2, <2>1, <2>2 DEF TablesOK
<1>5. CallsOK'
  <2>1. call.op \in Op /\ 0 \notin Op
    BY <1>3 DEF Op
  <2>2. \A v \in Worker :
          worker'[v].op \in Op \cup {0} /\ (worker'[v].at # "idle" => worker'[v].op # 0)
    BY <1>1, <2>1 DEF CallsOK
  <2>3. QED
    BY <1>1, <1>2, <2>2 DEF CallsOK
<1>6. AssetsOK'
  <2>1. AssetsFirst'
    BY <1>2 DEF AssetsFirst, Same
  <2>2. \A v \in Worker : worker'[v].at = "publish" /\ ops'[worker'[v].op].request = "media"
                            => upload' = "verified"
    <3>1. \A v \in Worker : worker[v].at = "publish" => worker[v].op \in Op
      BY <1>3 DEF Delivers
    <3>2. \A v \in Worker \ {w} : worker'[v] = worker[v]
      BY <1>1
    <3>3. worker'[w] = call /\ call.op \in Op
      BY <1>1, <1>3
    <3>4. ASSUME NEW v \in Worker, worker'[v].at = "publish",
                 ops'[worker'[v].op].request = "media"
          PROVE  upload' = "verified"
      <4>1. CASE v = w
        BY <3>3, <3>4, <4>1 DEF Same
      <4>2. CASE v # w
        BY <3>1, <3>2, <3>4, <4>2 DEF Same, AssetsOK
      <4>3. QED
        BY <4>1, <4>2
    <3>5. QED
      BY <3>4
  <2>3. QED
    BY <1>2, <2>1, <2>2 DEF AssetsOK
<1>7. ReceiptsOK'
  <2>1. \A i \in Op' : ops'[i].state = "succeeded" => i \in applied'
    BY <1>2 DEF ReceiptsOK, Same
  <2>2. \A v \in Worker : worker'[v].at = "record" /\ worker'[v].reply = "ok"
                            => worker'[v].op \in applied'
    BY <1>1 DEF ReceiptsOK
  <2>3. QED
    BY <2>1, <2>2 DEF ReceiptsOK
<1>8. OwnersOK'
  BY <1>1, <1>3 DEF OwnersOK, Same
<1>9. RowsStand
  BY DEF RowsStand, Same, TablesOK
<1>10. QED
  BY <1>4, <1>5, <1>6, <1>7, <1>8, <1>9 DEF Keeps

\* A checkpoint is the only thing that changes in its row.
LEMMA CheckpointRow ==
  ASSUME PublicationInv, NEW w \in Worker, worker[w].at \in Delivers,
         NEW state \in {"pending", "requested", "uploaded", "committed"}, Checkpoint(w, state)
  PROVE  /\ ops' \in Seq(Row) /\ Len(ops') = Len(ops)
         /\ \A i \in Op : /\ Same(ops[i], ops'[i])
                          /\ ops'[i].asset = IF i = worker[w].op THEN state ELSE ops[i].asset
<1> USE DEF PublicationInv
<1>1. PICK i \in Op : i = worker[w].op
  BY DEF CallsOK, Delivers
<1>2. ops[i] \in Row
  BY <1>1, ElementOfSeq DEF TablesOK, Op
<1>3. PICK row \in Row : /\ row = [ops[i] EXCEPT !.asset = state]
                         /\ Same(ops[i], row) /\ row.asset = state
  <2> DEFINE R == [ops[i] EXCEPT !.asset = state]
  <2>1. R \in Row /\ Same(ops[i], R) /\ R.asset = state
    BY <1>2 DEF Same, Row
  <2>2. QED
    BY <2>1
<1>4. ops' = [ops EXCEPT ![i] = row]
  BY <1>1, <1>3 DEF Checkpoint
<1>5. /\ ops' \in Seq(Row) /\ Len(ops') = Len(ops)
      /\ \A j \in Op : ops'[j] = IF j = i THEN row ELSE ops[j]
  BY <1>4, OneRow
<1>6. \A j \in Op : Same(ops[j], ops'[j])
  BY <1>3, <1>5 DEF Same
<1>7. \A j \in Op : ops'[j].asset = IF j = i THEN state ELSE ops[j].asset
  BY <1>3, <1>5
<1>8. QED
  BY <1>1, <1>5, <1>6, <1>7

\* A call that goes on, or has a reply, is about the same operation under the same lease.
LEMMA CallSteps ==
  ASSUME PublicationInv, NEW w \in Worker
  PROVE  /\ \A step \in {"asset", "upload", "commit", "publish"} : Goes(w, step) =>
              \E call \in Call : /\ worker' = [worker EXCEPT ![w] = call] /\ call.at = step
                                 /\ call.op = worker[w].op /\ call.stale = worker[w].stale
         /\ \A reply \in {"ok", "retry", "final"} : Replied(w, reply) =>
              \E call \in Call : /\ worker' = [worker EXCEPT ![w] = call] /\ call.at = "record"
                                 /\ call.op = worker[w].op /\ call.stale = worker[w].stale
                                 /\ call.reply = reply
<1>1. worker[w] \in Call
  BY DEF PublicationInv, CallsOK
<1>2. ASSUME NEW step \in {"asset", "upload", "commit", "publish"}, Goes(w, step)
      PROVE  \E call \in Call : /\ worker' = [worker EXCEPT ![w] = call] /\ call.at = step
                                /\ call.op = worker[w].op /\ call.stale = worker[w].stale
  <2> DEFINE C == [worker[w] EXCEPT !.at = step]
  <2>1. C \in Call /\ C.at = step /\ C.op = worker[w].op /\ C.stale = worker[w].stale
    BY <1>1 DEF Call
  <2>2. worker' = [worker EXCEPT ![w] = C]
    BY <1>2 DEF Goes
  <2>3. QED
    BY <2>1, <2>2
<1>3. ASSUME NEW reply \in {"ok", "retry", "final"}, Replied(w, reply)
      PROVE  \E call \in Call : /\ worker' = [worker EXCEPT ![w] = call] /\ call.at = "record"
                                /\ call.op = worker[w].op /\ call.stale = worker[w].stale
                                /\ call.reply = reply
  <2> DEFINE C == [worker[w] EXCEPT !.at = "record", !.reply = reply]
  <2>1. /\ C \in Call /\ C.at = "record" /\ C.op = worker[w].op /\ C.stale = worker[w].stale
        /\ C.reply = reply
    BY <1>1 DEF Call
  <2>2. worker' = [worker EXCEPT ![w] = C]
    BY <1>3 DEF Replied
  <2>3. QED
    BY <2>1, <2>2
<1>4. QED
  BY <1>2, <1>3

\* Asking for an upload keeps it: the checkpoint follows the cloud.
LEMMA RequestUploadKeeps ==
  ASSUME PublicationInv, NEW w \in Worker, RequestUpload(w)
  PROVE  Keeps
<1> DEFINE i == worker[w].op
           next == Left(ops[i].asset)
<1>1. /\ worker[w].at = "asset" /\ worker[w].at \in Delivers /\ i \in Op /\ ops[i] \in Row
      /\ UNCHANGED <<manifest, refused, applied>> /\ applied \subseteq Op
      /\ upload \in {"none", "open", "stored", "verified"}
  <2>1. worker[w].at = "asset" /\ worker[w].at \in Delivers /\ i \in Op
    BY DEF PublicationInv, RequestUpload, OnlyDelivery, At, CallsOK, Delivers
  <2>2. ops[i] \in Row
    BY <2>1, ElementOfSeq DEF PublicationInv, TablesOK, Op
  <2>3. QED
    BY <2>1, <2>2 DEF PublicationInv, RequestUpload, OnlyDelivery, TablesOK
<1>2. \A j \in applied : ops[j].request = "media" => upload = "verified"
  BY DEF PublicationInv, AssetsOK, AssetsFirst
<1>3. \A j \in Op : Same(ops[j], ops[j]) /\ (ops[j].asset = "committed" => upload = "verified")
  BY DEF PublicationInv, AssetsOK, Same
<1>4. ops \in Seq(Row)
  BY DEF PublicationInv, TablesOK
<1>5. CASE next # "request" /\ Goes(w, next) /\ UNCHANGED <<ops, upload>>
  <2>1. /\ next \in {"publish", "commit"} /\ next \in {"asset", "upload", "commit", "publish"}
        /\ next = "publish" => ops[i].asset = "committed"
    BY <1>5 DEF Left
  <2>2. PICK call \in Call : /\ worker' = [worker EXCEPT ![w] = call] /\ call.at = next
                             /\ call.op = i /\ call.stale = worker[w].stale
    BY <1>5, <2>1, CallSteps
  <2>3. call.at \in Delivers /\ call.at # "record" /\ (call.at = "publish" => upload' = "verified")
    BY <1>1, <1>3, <1>5, <2>1, <2>2 DEF Delivers
  <2> HIDE DEF i, next
  <2>4. QED
    BY <1>1, <1>2, <1>3, <1>4, <1>5, <2>2, <2>3, DeliveryKeeps DEF i
<1>6. CASE /\ next = "request" /\ Checkpoint(w, "requested") /\ Goes(w, "upload")
           /\ upload' = IF upload = "none" THEN "open" ELSE upload
  <2>1. /\ ops' \in Seq(Row) /\ Len(ops') = Len(ops)
        /\ \A j \in Op : /\ Same(ops[j], ops'[j])
                         /\ ops'[j].asset = IF j = worker[w].op THEN "requested" ELSE ops[j].asset
    BY <1>1, <1>6, CheckpointRow
  <2>2. PICK call \in Call : /\ worker' = [worker EXCEPT ![w] = call] /\ call.at = "upload"
                             /\ call.op = i /\ call.stale = worker[w].stale
    BY <1>6, CallSteps
  <2>3. /\ upload' \in {"none", "open", "stored", "verified"}
        /\ upload = "verified" => upload' = "verified"
    BY <1>1, <1>6
  <2>4. \A j \in Op : ops'[j].asset = "committed" => upload' = "verified"
    BY <1>3, <2>1, <2>3
  <2>5. call.at \in Delivers /\ call.at # "record" /\ call.at # "publish"
    BY <2>2 DEF Delivers
  <2>6. \A j \in applied' : ops[j].request = "media" => upload' = "verified"
    BY <1>1, <1>2, <2>3
  <2> HIDE DEF i, next
  <2>7. QED
    BY <1>1, <2>1, <2>2, <2>3, <2>4, <2>5, <2>6, DeliveryKeeps DEF i
<1>7. ASSUME NEW reply \in Failures, Replied(w, reply), UNCHANGED <<ops, upload>>
      PROVE  Keeps
  <2>1. reply \in {"ok", "retry", "final"} /\ reply # "ok"
    BY DEF Failures
  <2>2. PICK call \in Call : /\ worker' = [worker EXCEPT ![w] = call] /\ call.at = "record"
                             /\ call.op = i /\ call.stale = worker[w].stale /\ call.reply = reply
    BY <1>7, <2>1, CallSteps
  <2>3. call.at \in Delivers /\ call.at # "publish" /\ call.reply # "ok"
    BY <2>1, <2>2 DEF Delivers
  <2> HIDE DEF i, next
  <2>4. QED
    BY <1>1, <1>2, <1>3, <1>4, <1>7, <2>2, <2>3, DeliveryKeeps DEF i
<1>8. QED
  BY <1>5, <1>6, <1>7 DEF RequestUpload

\* Uploading keeps it.
LEMMA UploadKeeps ==
  ASSUME PublicationInv, NEW w \in Worker, Upload(w)
  PROVE  Keeps
<1>1. /\ worker[w].at = "upload" /\ worker[w].at \in Delivers
      /\ UNCHANGED <<manifest, refused, applied>> /\ applied \subseteq Op
      /\ upload \in {"none", "open", "stored", "verified"} /\ ops \in Seq(Row)
  BY DEF PublicationInv, Upload, OnlyDelivery, At, Delivers, TablesOK
<1>2. \A j \in applied : ops[j].request = "media" => upload = "verified"
  BY DEF PublicationInv, AssetsOK, AssetsFirst
<1>3. \A j \in Op : Same(ops[j], ops[j]) /\ (ops[j].asset = "committed" => upload = "verified")
  BY DEF PublicationInv, AssetsOK, Same
<1>4. CASE /\ upload # "none" /\ upload' = IF upload = "open" THEN "stored" ELSE upload
           /\ Checkpoint(w, "uploaded") /\ Goes(w, "commit")
  <2>1. /\ ops' \in Seq(Row) /\ Len(ops') = Len(ops)
        /\ \A j \in Op : /\ Same(ops[j], ops'[j])
                         /\ ops'[j].asset = IF j = worker[w].op THEN "uploaded" ELSE ops[j].asset
    BY <1>1, <1>4, CheckpointRow
  <2>2. PICK call \in Call : /\ worker' = [worker EXCEPT ![w] = call] /\ call.at = "commit"
                             /\ call.op = worker[w].op /\ call.stale = worker[w].stale
    BY <1>4, CallSteps
  <2>3. /\ upload' \in {"none", "open", "stored", "verified"}
        /\ upload = "verified" => upload' = "verified"
    BY <1>1, <1>4
  <2>4. \A j \in Op : ops'[j].asset = "committed" => upload' = "verified"
    BY <1>3, <2>1, <2>3
  <2>5. call.at \in Delivers /\ call.at # "record" /\ call.at # "publish"
    BY <2>2 DEF Delivers
  <2>6. \A j \in applied' : ops[j].request = "media" => upload' = "verified"
    BY <1>1, <1>2, <2>3
  <2>7. QED
    BY <1>1, <2>1, <2>2, <2>3, <2>4, <2>5, <2>6, DeliveryKeeps
<1>5. ASSUME NEW reply \in Failures, Replied(w, reply), UNCHANGED ops,
             upload' \in {upload, IF upload = "open" THEN "stored" ELSE upload}
      PROVE  Keeps
  <2>1. reply \in {"ok", "retry", "final"} /\ reply # "ok"
    BY DEF Failures
  <2>2. PICK call \in Call : /\ worker' = [worker EXCEPT ![w] = call] /\ call.at = "record"
                             /\ call.op = worker[w].op /\ call.stale = worker[w].stale
                             /\ call.reply = reply
    BY <1>5, <2>1, CallSteps
  <2>3. call.at \in Delivers /\ call.at # "publish" /\ call.reply # "ok"
    BY <2>1, <2>2 DEF Delivers
  <2>4. /\ upload' \in {"none", "open", "stored", "verified"}
        /\ upload = "verified" => upload' = "verified"
    BY <1>1, <1>5
  <2>5. \A j \in Op : Same(ops[j], ops'[j]) /\ (ops'[j].asset = "committed" => upload' = "verified")
    BY <1>3, <1>5, <2>4
  <2>6. \A j \in applied' : ops[j].request = "media" => upload' = "verified"
    BY <1>1, <1>2, <2>4
  <2>7. QED
    BY <1>1, <1>5, <2>2, <2>3, <2>4, <2>5, <2>6, DeliveryKeeps
<1>6. QED
  BY <1>4, <1>5 DEF Upload

\* Committing an asset keeps it: the asset is in the cloud before it is recorded.
LEMMA CommitKeeps ==
  ASSUME PublicationInv, NEW w \in Worker, Commit(w)
  PROVE  Keeps
<1>1. /\ worker[w].at = "commit" /\ worker[w].at \in Delivers
      /\ UNCHANGED <<manifest, refused, applied>> /\ applied \subseteq Op
      /\ upload \in {"none", "open", "stored", "verified"} /\ ops \in Seq(Row)
  BY DEF PublicationInv, Commit, OnlyDelivery, At, Delivers, TablesOK
<1>2. \A j \in applied : ops[j].request = "media" => upload = "verified"
  BY DEF PublicationInv, AssetsOK, AssetsFirst
<1>3. \A j \in Op : Same(ops[j], ops[j]) /\ (ops[j].asset = "committed" => upload = "verified")
  BY DEF PublicationInv, AssetsOK, Same
<1>4. CASE /\ upload \in {"stored", "verified"} /\ upload' = "verified"
           /\ Checkpoint(w, "committed") /\ Goes(w, "publish")
  <2>1. /\ ops' \in Seq(Row) /\ Len(ops') = Len(ops)
        /\ \A j \in Op : /\ Same(ops[j], ops'[j])
                         /\ ops'[j].asset = IF j = worker[w].op THEN "committed" ELSE ops[j].asset
    BY <1>1, <1>4, CheckpointRow
  <2>2. PICK call \in Call : /\ worker' = [worker EXCEPT ![w] = call] /\ call.at = "publish"
                             /\ call.op = worker[w].op /\ call.stale = worker[w].stale
    BY <1>4, CallSteps
  <2>3. call.at \in Delivers /\ call.at # "record"
    BY <2>2 DEF Delivers
  <2>4. QED
    BY <1>1, <1>4, <2>1, <2>2, <2>3, DeliveryKeeps
<1>5. CASE /\ upload \in {"none", "open"} /\ Checkpoint(w, "pending") /\ Replied(w, "retry")
           /\ UNCHANGED upload
  <2>1. /\ ops' \in Seq(Row) /\ Len(ops') = Len(ops)
        /\ \A j \in Op : /\ Same(ops[j], ops'[j])
                         /\ ops'[j].asset = IF j = worker[w].op THEN "pending" ELSE ops[j].asset
    BY <1>1, <1>5, CheckpointRow
  <2>2. PICK call \in Call : /\ worker' = [worker EXCEPT ![w] = call] /\ call.at = "record"
                             /\ call.op = worker[w].op /\ call.stale = worker[w].stale
                             /\ call.reply = "retry"
    BY <1>5, CallSteps
  <2>3. call.at \in Delivers /\ call.at # "publish" /\ call.reply # "ok"
    BY <2>2 DEF Delivers
  <2>4. \A j \in Op : ops'[j].asset = "committed" => upload' = "verified"
    BY <1>3, <1>5, <2>1
  <2>5. QED
    BY <1>1, <1>2, <1>5, <2>1, <2>2, <2>3, <2>4, DeliveryKeeps
<1>6. ASSUME NEW reply \in Failures, Replied(w, reply), UNCHANGED ops,
             upload' \in {upload, IF upload = "stored" THEN "verified" ELSE upload}
      PROVE  Keeps
  <2>1. reply \in {"ok", "retry", "final"} /\ reply # "ok"
    BY DEF Failures
  <2>2. PICK call \in Call : /\ worker' = [worker EXCEPT ![w] = call] /\ call.at = "record"
                             /\ call.op = worker[w].op /\ call.stale = worker[w].stale
                             /\ call.reply = reply
    BY <1>6, <2>1, CallSteps
  <2>3. call.at \in Delivers /\ call.at # "publish" /\ call.reply # "ok"
    BY <2>1, <2>2 DEF Delivers
  <2>4. /\ upload' \in {"none", "open", "stored", "verified"}
        /\ upload = "verified" => upload' = "verified"
    BY <1>1, <1>6
  <2>5. \A j \in Op : Same(ops[j], ops'[j]) /\ (ops'[j].asset = "committed" => upload' = "verified")
    BY <1>3, <1>6, <2>4
  <2>6. \A j \in applied' : ops[j].request = "media" => upload' = "verified"
    BY <1>1, <1>2, <2>4
  <2>7. QED
    BY <1>1, <1>6, <2>2, <2>3, <2>4, <2>5, <2>6, DeliveryKeeps
<1>7. QED
  BY <1>4, <1>5, <1>6 DEF Commit

\* Publishing keeps it: the asset was committed before.
LEMMA PublishKeeps ==
  ASSUME PublicationInv, NEW w \in Worker, Publish(w)
  PROVE  Keeps
<1>1. /\ worker[w].at = "publish" /\ worker[w].at \in Delivers /\ worker[w].op \in Op
      /\ UNCHANGED <<manifest, refused, ops, upload>> /\ applied \subseteq Op
      /\ upload \in {"none", "open", "stored", "verified"} /\ ops \in Seq(Row)
  BY DEF PublicationInv, Publish, OnlyDelivery, At, Delivers, TablesOK, CallsOK
<1>2. /\ \A j \in applied : ops[j].request = "media" => upload = "verified"
      /\ ops[worker[w].op].request = "media" => upload = "verified"
  BY <1>1 DEF PublicationInv, AssetsOK, AssetsFirst
<1>3. \A j \in Op : Same(ops[j], ops[j]) /\ (ops[j].asset = "committed" => upload = "verified")
  BY DEF PublicationInv, AssetsOK, Same
<1>4. PICK reply \in {"ok", "retry", "final"} :
        /\ Replied(w, reply)
        /\ applied' = applied \cup {worker[w].op} \/ (reply # "ok" /\ applied' = applied)
  <2>1. CASE /\ applied' = applied \cup {worker[w].op}
             /\ \E reply \in {"ok"} \cup Failures : Replied(w, reply)
    <3>1. PICK reply \in {"ok", "retry", "final"} : Replied(w, reply)
      BY <2>1, Zenon DEF Failures
    <3>2. applied' = applied \cup {worker[w].op} \/ (reply # "ok" /\ applied' = applied)
      BY <2>1
    <3>3. QED
      BY <3>1, <3>2
  <2>2. CASE UNCHANGED applied /\ \E reply \in Failures : Replied(w, reply)
    <3>1. PICK reply \in {"retry", "final"} : Replied(w, reply)
      BY <2>2 DEF Failures
    <3>2. reply # "ok" /\ reply \in {"ok", "retry", "final"}
      OBVIOUS
    <3>3. QED
      BY <2>2, <3>1, <3>2
  <2>3. QED
    BY <2>1, <2>2 DEF Publish
<1>5. PICK call \in Call : /\ worker' = [worker EXCEPT ![w] = call] /\ call.at = "record"
                           /\ call.op = worker[w].op /\ call.stale = worker[w].stale
                           /\ call.reply = reply
  BY <1>4, CallSteps
<1>6. call.at \in Delivers /\ call.at # "publish" /\ (call.reply = "ok" => call.op \in applied')
  BY <1>4, <1>5 DEF Delivers
<1>7. /\ applied \subseteq applied' /\ applied' \subseteq Op
      /\ \A j \in applied' : ops[j].request = "media" => upload = "verified"
  BY <1>1, <1>2, <1>4
<1>8. QED
  BY <1>1, <1>3, <1>5, <1>6, <1>7, DeliveryKeeps

\* A claim gives a row to its call, with the lease.
LEMMA ClaimKeeps ==
  ASSUME PublicationInv, NEW w \in Worker, Claim(w)
  PROVE  Keeps
<1> USE DEF PublicationInv
<1>1. PICK i \in Op : i = worker[w].op
  BY DEF Claim, At, CallsOK
<1>2. /\ ops[i] \in Row /\ ops \in Seq(Row) /\ Len(ops) \in Nat /\ worker[w].at = "claim"
      /\ UNCHANGED <<manifest, refused, upload, applied>>
      /\ manifest \in BOOLEAN /\ refused \subseteq Request
  BY <1>1, ElementOfSeq DEF Claim, OnlyOutbox, At, TablesOK, Op
<1>3. CASE Returns(w) /\ UNCHANGED ops
  <2>1. /\ worker' \in [Worker -> Call]
        /\ \A v \in Worker : worker'[v] = IF v = w THEN NoWorker ELSE worker[v]
    BY <1>3, CallRows, OneCall
  <2>2. NoWorker.at = "idle" /\ NoWorker.op = 0
    BY DEF NoWorker
  <2>3. ops' \in Seq(Row) /\ Len(ops') = Len(ops) /\ \A j \in Op : Kept(ops[j], ops'[j])
    BY <1>2, <1>3, SameRows
  <2>4. QED
    BY <1>2, <2>1, <2>2, <2>3, OperationsKept
<1>4. CASE /\ ops[i].state \in Pending /\ ops[i].due /\ ops[i].attempt < MaxAttempts
           /\ ops' = [ops EXCEPT ![i] = Claimed(ops[i], w)]
           /\ Goes(w, IF ops[i].request = "media" THEN "asset" ELSE "publish")
  <2>1. PICK row \in Row : /\ ops' = [ops EXCEPT ![i] = row]
                           /\ row.request = ops[i].request /\ row.state = "in-flight"
                           /\ row.owner = w /\ row.lease = "held" /\ row.asset = ops[i].asset
    <3> DEFINE R == Claimed(ops[i], w)
    <3>1. ops[i].attempt + 1 \in Nat /\ ops[i] \in Row
      BY <1>2 DEF Row
    <3>2. /\ R \in Row /\ R.request = ops[i].request /\ R.state = "in-flight"
          /\ R.owner = w /\ R.lease = "held" /\ R.asset = ops[i].asset
      BY <3>1 DEF Row, Claimed
    <3>3. ops' = [ops EXCEPT ![i] = R]
      BY <1>4
    <3> HIDE DEF R
    <3>4. QED
      BY <3>2, <3>3
  <2>2. PICK call \in Call : /\ worker' = [worker EXCEPT ![w] = call] /\ call.op = i
                             /\ call.at \in {"asset", "publish"}
                             /\ call.at = "publish" => ops[i].request # "media"
    <3>1. CASE ops[i].request = "media"
      <4>1. Goes(w, "asset")
        BY <1>4, <3>1
      <4>2. PICK call \in Call : /\ worker' = [worker EXCEPT ![w] = call] /\ call.at = "asset"
                                 /\ call.op = worker[w].op /\ call.stale = worker[w].stale
        BY <4>1, CallSteps
      <4>3. QED
        BY <1>1, <4>2
    <3>2. CASE ops[i].request # "media"
      <4>1. Goes(w, "publish")
        BY <1>4, <3>2
      <4>2. PICK call \in Call : /\ worker' = [worker EXCEPT ![w] = call] /\ call.at = "publish"
                                 /\ call.op = worker[w].op /\ call.stale = worker[w].stale
        BY <4>1, CallSteps
      <4>3. QED
        BY <1>1, <3>2, <4>2
    <3>3. QED
      BY <3>1, <3>2
  <2>3. /\ ops' \in Seq(Row) /\ Len(ops') = Len(ops) /\ Op' = Op
        /\ \A j \in Op : ops'[j] = IF j = i THEN row ELSE ops[j]
    BY <2>1, OneRow
  <2>4. /\ worker' \in [Worker -> Call]
        /\ \A v \in Worker : worker'[v] = IF v = w THEN call ELSE worker[v]
    BY <2>2, OneCall
  <2>5. \A j \in Op : /\ ops'[j].request = ops[j].request /\ ops'[j].asset = ops[j].asset
                      /\ ops'[j].state = "succeeded" => ops[j].state = "succeeded"
    BY <2>1, <2>3
  <2>6. TablesOK'
    <3>1. \A j \in Op : ops'[j].lease = "none" <=> ops'[j].state # "in-flight"
      BY <2>1, <2>3 DEF TablesOK
    <3>2. \A j, k \in Op : ops'[j].request = ops'[k].request /\ ops'[j].request # "control"
                             => j = k
      BY <2>5 DEF TablesOK
    <3>3. QED
      BY <1>2, <2>3, <3>1, <3>2 DEF TablesOK
  <2>7. CallsOK'
    <3>1. \A v \in Worker : /\ worker'[v].op \in Op \cup {0}
                            /\ worker'[v].at # "idle" => worker'[v].op # 0
      BY <2>2, <2>4 DEF CallsOK, Op
    <3>2. QED
      BY <2>3, <2>4, <3>1 DEF CallsOK
  <2>8. AssetsOK'
    <3>1. \A j \in Op : ops'[j].asset = "committed" => upload' = "verified"
      BY <1>2, <2>5 DEF AssetsOK
    <3>2. AssetsFirst'
      BY <1>2, <2>5 DEF AssetsOK, AssetsFirst, TablesOK
    <3>3. ASSUME NEW v \in Worker, worker'[v].at = "publish",
                 ops'[worker'[v].op].request = "media"
          PROVE  upload' = "verified"
      <4>1. CASE v = w
        BY <2>2, <2>4, <2>5, <3>3, <4>1
      <4>2. CASE v # w
        <5>1. worker'[v] = worker[v] /\ worker[v].op \in Op
          BY <2>4, <3>3, <4>2 DEF CallsOK
        <5>2. QED
          BY <1>2, <2>5, <3>3, <5>1 DEF AssetsOK
      <4>3. QED
        BY <4>1, <4>2
    <3>4. QED
      BY <2>3, <3>1, <3>2, <3>3 DEF AssetsOK
  <2>9. ReceiptsOK'
    <3>1. \A j \in Op' : ops'[j].state = "succeeded" => j \in applied'
      BY <1>2, <2>3, <2>5 DEF ReceiptsOK
    <3>2. \A v \in Worker : worker'[v].at = "record" => worker'[v] = worker[v]
      BY <2>2, <2>4
    <3>3. QED
      BY <1>2, <3>1, <3>2 DEF ReceiptsOK
  <2>10. OwnersOK'
    <3>1. ASSUME NEW v \in Worker, worker'[v].at \in Delivers, ~worker'[v].stale
          PROVE  ops'[worker'[v].op].owner = v /\ ops'[worker'[v].op].lease = "held"
      <4>1. CASE v = w
        BY <2>1, <2>2, <2>3, <2>4, <4>1
      <4>2. CASE v # w
        <5>1. worker'[v] = worker[v] /\ worker[v].op \in Op
          BY <2>4, <3>1, <4>2 DEF CallsOK, Delivers
        <5>2. ops[worker[v].op].owner = v /\ ops[worker[v].op].lease = "held"
          BY <3>1, <5>1 DEF OwnersOK
        <5>3. worker[v].op # i
          <6>1. ops[i].lease = "none"
            BY <1>4 DEF TablesOK, Pending
          <6>2. QED
            BY <5>2, <6>1
        <5>4. QED
          BY <2>3, <5>1, <5>2, <5>3
      <4>3. QED
        BY <4>1, <4>2
    <3>2. QED
      BY <3>1 DEF OwnersOK
  <2>11. RowsStand
    BY <1>4, <2>1, <2>3 DEF RowsStand, TablesOK, Pending
  <2>12. QED
    BY <2>6, <2>7, <2>8, <2>9, <2>10, <2>11 DEF Keeps
<1>5. QED
  BY <1>1, <1>3, <1>4 DEF Claim

\* Recording an outcome keeps it: only the call that owns the attempt ends it.
LEMMA RecordKeeps ==
  ASSUME PublicationInv, NEW w \in Worker, Record(w)
  PROVE  Keeps
<1> USE DEF PublicationInv
<1>1. PICK i \in Op : i = worker[w].op
  BY DEF Record, At, CallsOK
<1>2. /\ ops[i] \in Row /\ ops \in Seq(Row) /\ Len(ops) \in Nat /\ worker[w].at = "record"
      /\ UNCHANGED <<manifest, refused, upload, applied>> /\ applied \subseteq Op
      /\ manifest \in BOOLEAN /\ refused \subseteq Request /\ Returns(w)
  BY <1>1, ElementOfSeq DEF Record, OnlyOutbox, OnlyDelivery, At, TablesOK, Op
<1>3. /\ worker' \in [Worker -> Call]
      /\ \A v \in Worker : worker'[v] = IF v = w THEN NoWorker ELSE worker[v]
  BY <1>2, CallRows, OneCall
<1>4. NoWorker.at = "idle" /\ NoWorker.op = 0
  BY DEF NoWorker
<1>5. CASE ~Holds(w)
  <2>1. ops' = ops
    BY <1>1, <1>2, <1>5 DEF Record
  <2>2. ops' \in Seq(Row) /\ Len(ops') = Len(ops) /\ \A j \in Op : Kept(ops[j], ops'[j])
    BY <1>2, <2>1, SameRows
  <2>3. QED
    BY <1>2, <1>3, <1>4, <2>2, OperationsKept
<1>6. CASE Holds(w)
  <2>1. PICK state \in {"queued", "retrying", "succeeded", "failed"} :
          /\ state = Outcome(worker[w].reply)
          /\ state = "succeeded" => worker[w].reply = "ok"
    BY DEF Outcome
  <2>2. PICK due \in BOOLEAN : due = (state # "retrying")
    OBVIOUS
  <2>3. PICK freed \in Row : /\ freed = Freed(ops[i], state) /\ freed.state = state
                             /\ freed.lease = "none" /\ freed.asset = ops[i].asset
                             /\ freed.request = ops[i].request
    BY <1>2, FreedRow
  <2>4. PICK row \in Row : /\ row = [freed EXCEPT !.due = due] /\ row.state = state
                           /\ row.lease = "none" /\ row.asset = ops[i].asset
                           /\ row.request = ops[i].request
    <3> DEFINE R == [freed EXCEPT !.due = due]
    <3>1. freed \in Row /\ due \in BOOLEAN
      OBVIOUS
    <3>2. /\ R \in Row /\ R.state = freed.state /\ R.lease = freed.lease /\ R.asset = freed.asset
          /\ R.request = freed.request
      BY <3>1, RowFields
    <3> HIDE DEF R
    <3>3. R = [freed EXCEPT !.due = due]
      BY DEF R
    <3>4. QED
      BY <2>3, <3>2, <3>3
  <2>5. ops' = [ops EXCEPT ![i] = row]
    BY <1>1, <1>6, <2>1, <2>2, <2>3, <2>4 DEF Record
  <2>6. /\ ops' \in Seq(Row) /\ Len(ops') = Len(ops) /\ Op' = Op
        /\ \A j \in Op : ops'[j] = IF j = i THEN row ELSE ops[j]
    BY <2>5, OneRow
  <2>7. \A j \in Op : ops'[j].request = ops[j].request /\ ops'[j].asset = ops[j].asset
    BY <2>4, <2>6
  <2>8. TablesOK'
    <3>1. \A j \in Op : ops'[j].lease = "none" <=> ops'[j].state # "in-flight"
      BY <2>1, <2>4, <2>6 DEF TablesOK
    <3>2. \A j, k \in Op : ops'[j].request = ops'[k].request /\ ops'[j].request # "control"
                             => j = k
      BY <2>7 DEF TablesOK
    <3>3. QED
      BY <1>2, <2>6, <3>1, <3>2 DEF TablesOK
  <2>9. CallsOK'
    BY <1>3, <1>4, <2>6 DEF CallsOK
  <2>10. AssetsOK'
    <3>1. \A j \in Op : ops'[j].asset = "committed" => upload' = "verified"
      BY <1>2, <2>7 DEF AssetsOK
    <3>2. AssetsFirst'
      BY <1>2, <2>7 DEF AssetsOK, AssetsFirst
    <3>3. \A v \in Worker : worker'[v].at = "publish" => worker'[v] = worker[v]
                                                         /\ worker[v].op \in Op
      BY <1>3, <1>4 DEF CallsOK
    <3>4. QED
      BY <1>2, <2>6, <2>7, <3>1, <3>2, <3>3 DEF AssetsOK
  <2>11. ReceiptsOK'
    <3>1. state = "succeeded" => i \in applied
      BY <1>1, <1>2, <2>1 DEF ReceiptsOK
    <3>2. \A j \in Op' : ops'[j].state = "succeeded" => j \in applied'
      BY <1>2, <2>4, <2>6, <3>1 DEF ReceiptsOK
    <3>3. \A v \in Worker : worker'[v].at = "record" => worker'[v] = worker[v]
      BY <1>3, <1>4
    <3>4. QED
      BY <1>2, <3>2, <3>3 DEF ReceiptsOK
  <2>12. OwnersOK'
    <3>1. ASSUME NEW v \in Worker, worker'[v].at \in Delivers, ~worker'[v].stale
          PROVE  ops'[worker'[v].op].owner = v /\ ops'[worker'[v].op].lease = "held"
      <4>1. v # w
        BY <1>3, <1>4, <3>1 DEF Delivers
      <4>2. worker'[v] = worker[v] /\ worker[v].op \in Op
        BY <1>3, <3>1, <4>1 DEF CallsOK, Delivers
      <4>3. ops[worker[v].op].owner = v /\ ops[worker[v].op].lease = "held"
        BY <3>1, <4>2 DEF OwnersOK
      <4>4. worker[v].op # i
        BY <1>1, <1>6, <4>1, <4>3 DEF Holds
      <4>5. QED
        BY <2>6, <4>2, <4>3, <4>4
    <3>2. QED
      BY <3>1 DEF OwnersOK
  <2>13. RowsStand
    <3>1. ops[i].state # "succeeded" /\ ops[i].owner = w
      BY <1>1, <1>6 DEF Holds
    <3>2. \A j \in Op : ops[j].lease = "held" => ops[j].state = "in-flight"
      BY DEF TablesOK
    <3>3. QED
      BY <1>2, <2>6, <3>1, <3>2 DEF RowsStand
  <2>14. QED
    BY <2>8, <2>9, <2>10, <2>11, <2>12, <2>13 DEF Keeps
<1>7. QED
  BY <1>5, <1>6

\* A lease that lapses leaves its call stale.
LEMMA LeaseLapsesKeeps ==
  ASSUME PublicationInv, NEW i \in Op, LeaseLapses(i)
  PROVE  Keeps
<1> USE DEF PublicationInv
<1>1. /\ ops[i] \in Row /\ ops \in Seq(Row) /\ Len(ops) \in Nat /\ ops[i].lease = "held"
      /\ UNCHANGED <<manifest, refused, upload, applied>> /\ applied \subseteq Op
      /\ manifest \in BOOLEAN /\ refused \subseteq Request
      /\ upload \in {"none", "open", "stored", "verified"}
  BY ElementOfSeq DEF LeaseLapses, TablesOK, Op
<1>2. PICK row \in Row : /\ row = [ops[i] EXCEPT !.lease = "lapsed"] /\ row.state = ops[i].state
                         /\ row.lease = "lapsed" /\ row.asset = ops[i].asset
                         /\ row.request = ops[i].request
  <2> DEFINE R == [ops[i] EXCEPT !.lease = "lapsed"]
  <2>1. /\ R \in Row /\ R.state = ops[i].state /\ R.lease = "lapsed" /\ R.asset = ops[i].asset
        /\ R.request = ops[i].request
    BY <1>1 DEF Row
  <2>2. QED
    BY <2>1
<1>3. ops' = [ops EXCEPT ![i] = row]
  BY <1>2 DEF LeaseLapses
<1>4. /\ ops' \in Seq(Row) /\ Len(ops') = Len(ops) /\ Op' = Op
      /\ \A j \in Op : ops'[j] = IF j = i THEN row ELSE ops[j]
  BY <1>3, OneRow
<1>5. \A j \in Op : /\ ops'[j].request = ops[j].request /\ ops'[j].asset = ops[j].asset
                    /\ ops'[j].state = ops[j].state
                    /\ ops'[j].lease = "none" <=> ops[j].lease = "none"
  BY <1>1, <1>2, <1>4
<1>6. /\ worker' \in [Worker -> Call]
      /\ \A v \in Worker : /\ worker'[v].at = worker[v].at /\ worker'[v].op = worker[v].op
                           /\ worker'[v].reply = worker[v].reply
                           /\ ~worker'[v].stale => worker'[v] = worker[v]
      /\ \A v \in Worker : /\ worker[v].op = i /\ v = ops[i].owner /\ worker[v].at # "idle"
                           => worker'[v].stale
  <2>1. ASSUME NEW v \in Worker
        PROVE  /\ [worker[v] EXCEPT !.stale = TRUE] \in Call
               /\ [worker[v] EXCEPT !.stale = TRUE].at = worker[v].at
               /\ [worker[v] EXCEPT !.stale = TRUE].op = worker[v].op
               /\ [worker[v] EXCEPT !.stale = TRUE].reply = worker[v].reply
               /\ [worker[v] EXCEPT !.stale = TRUE].stale
    <3>1. worker[v] \in Call
      BY DEF CallsOK
    <3>2. QED
      BY <3>1 DEF Call
  <2>2. worker' = [v \in Worker |-> IF worker[v].op = i /\ v = ops[i].owner /\ worker[v].at # "idle"
                                    THEN [worker[v] EXCEPT !.stale = TRUE] ELSE worker[v]]
    BY DEF LeaseLapses, At
  <2>3. \A v \in Worker : worker[v] \in Call
    BY DEF CallsOK
  <2>4. QED
    BY <2>1, <2>2, <2>3
<1>7. TablesOK'
  <2>1. \A j \in Op : ops'[j].lease = "none" <=> ops'[j].state # "in-flight"
    BY <1>5 DEF TablesOK
  <2>2. \A j, k \in Op : ops'[j].request = ops'[k].request /\ ops'[j].request # "control" => j = k
    BY <1>5 DEF TablesOK
  <2>3. QED
    BY <1>1, <1>4, <2>1, <2>2 DEF TablesOK
<1>8. CallsOK'
  BY <1>4, <1>6 DEF CallsOK
<1>9. AssetsOK'
  <2>1. \A j \in Op : ops'[j].asset = "committed" => upload' = "verified"
    BY <1>1, <1>5 DEF AssetsOK
  <2>2. AssetsFirst'
    BY <1>1, <1>5 DEF AssetsOK, AssetsFirst
  <2>3. \A v \in Worker : worker[v].at = "publish" => worker[v].op \in Op
    BY DEF CallsOK
  <2>4. \A v \in Worker : worker'[v].at = "publish" /\ ops'[worker'[v].op].request = "media"
                            => upload' = "verified"
    BY <1>1, <1>5, <1>6, <2>3 DEF AssetsOK
  <2>5. QED
    BY <1>4, <2>1, <2>2, <2>4 DEF AssetsOK
<1>10. ReceiptsOK'
  BY <1>1, <1>4, <1>5, <1>6 DEF ReceiptsOK
<1>11. OwnersOK'
  <2>1. ASSUME NEW v \in Worker, worker'[v].at \in Delivers, ~worker'[v].stale
        PROVE  ops'[worker'[v].op].owner = v /\ ops'[worker'[v].op].lease = "held"
    <3>1. worker'[v] = worker[v] /\ worker[v].op \in Op /\ worker[v].at # "idle"
      BY <1>6, <2>1 DEF CallsOK, Delivers
    <3>2. ops[worker[v].op].owner = v /\ ops[worker[v].op].lease = "held"
      BY <2>1, <3>1 DEF OwnersOK
    <3>3. worker[v].op # i
      BY <1>6, <2>1, <3>1, <3>2
    <3>4. QED
      BY <1>4, <3>1, <3>2, <3>3
  <2>2. QED
    BY <2>1 DEF OwnersOK
<1>12. RowsStand
  BY <1>5 DEF RowsStand, TablesOK
<1>13. QED
  BY <1>7, <1>8, <1>9, <1>10, <1>11, <1>12 DEF Keeps

\* An upload that expires was not committed.
LEMMA UploadExpiresKeeps ==
  ASSUME PublicationInv, UploadExpires
  PROVE  Keeps
<1>1. /\ UNCHANGED <<ops, manifest, worker, applied, refused>> /\ upload # "verified"
      /\ upload' \in {"none", "open", "stored", "verified"} /\ Op' = Op
  BY DEF UploadExpires, Op
<1>2. TablesOK' /\ CallsOK' /\ ReceiptsOK' /\ OwnersOK'
  BY <1>1 DEF PublicationInv, TablesOK, CallsOK, ReceiptsOK, OwnersOK
<1>3. AssetsOK'
  BY <1>1 DEF PublicationInv, AssetsOK, AssetsFirst
<1>4. RowsStand
  BY <1>1 DEF PublicationInv, TablesOK, RowsStand
<1>5. QED
  BY <1>2, <1>3, <1>4 DEF PublicationInv, Keeps

-----------------------------------------------------------------------------
(* The invariant, and what follows from it *)

\* The invariant holds of the empty outbox.
LEMMA PublicationStarts == Init => PublicationInv
<1> SUFFICES ASSUME Init PROVE PublicationInv
  OBVIOUS
<1>1. ops = <<>> /\ ops \in Seq(Row) /\ Len(ops) = 0 /\ Op = {}
  BY EmptySeq DEF Init, Op
<1>2. TablesOK
  BY <1>1 DEF Init, TablesOK
<1>3. \A w \in Worker : worker[w] = NoWorker /\ NoWorker \in Call /\ NoWorker.at = "idle"
                        /\ NoWorker.op = 0
  BY DEF Init, NoWorker, Call
<1>4. CallsOK
  <2>1. worker \in [Worker -> Call]
    BY <1>3 DEF Init
  <2>2. QED
    BY <1>3, <2>1 DEF CallsOK
<1>5. AssetsOK
  BY <1>1, <1>3 DEF AssetsOK, AssetsFirst, Init
<1>6. ReceiptsOK
  BY <1>1, <1>3 DEF ReceiptsOK
<1>7. OwnersOK
  BY <1>3 DEF OwnersOK, Delivers
<1>8. QED
  BY <1>2, <1>4, <1>5, <1>6, <1>7 DEF PublicationInv

\* Every step keeps the invariant, and what is recorded stands.
LEMMA PublicationNext == PublicationInv /\ [Next]_vars => Keeps
<1> SUFFICES ASSUME PublicationInv, [Next]_vars PROVE Keeps
  OBVIOUS
<1>1. CASE UNCHANGED vars
  <2>1. /\ UNCHANGED <<ops, manifest, worker, upload, applied, refused>> /\ Op' = Op
        /\ AssetsFirst' = AssetsFirst
    BY <1>1 DEF vars, Op, AssetsFirst
  <2>2. PublicationInv'
    BY <2>1 DEF PublicationInv, TablesOK, CallsOK, AssetsOK, ReceiptsOK, OwnersOK
  <2>3. RowsStand
    BY <2>1 DEF PublicationInv, TablesOK, RowsStand
  <2>4. QED
    BY <2>2, <2>3 DEF Keeps
<1>2. ASSUME NEW w \in Worker,
             \/ \E r \in Request : Write(w, r)
             \/ UseManifest(w) \/ Deliver(w) \/ Dies(w)
             \/ \E i \in Op : Retry(w, i)
      PROVE  Keeps
  BY <1>2, WriteKeeps, UseManifestKeeps, DiesKeeps, RetryKeeps, ClaimKeeps, RequestUploadKeeps,
     UploadKeeps, CommitKeeps, PublishKeeps, RecordKeeps DEF Deliver
<1>3. ASSUME NEW i \in Op, LeaseLapses(i) \/ BackoffEnds(i)
      PROVE  Keeps
  BY <1>3, LeaseLapsesKeeps, BackoffEndsKeeps
<1>4. CASE Prepare \/ UploadExpires
  BY <1>4, PrepareKeeps, UploadExpiresKeeps
<1>5. QED
  BY <1>1, <1>2, <1>3, <1>4 DEF Next

\* So it holds in every run.
LEMMA PublicationAlways == Spec => []PublicationInv
<1>1. PublicationInv /\ [Next]_vars => PublicationInv'
  BY PublicationNext DEF Keeps
<1>2. QED
  BY <1>1, PublicationStarts, PTL DEF Spec

\* The type invariant, at every number of calls, operations and attempts.
THEOREM PublicationTypeCorrect == Spec => []TypeOK
<1>1. PublicationInv => TypeOK
  <2> SUFFICES ASSUME PublicationInv PROVE TypeOK
    OBVIOUS
  <2>1. ASSUME NEW i \in Op
        PROVE  /\ ops[i].request \in Request
               /\ ops[i].state \in Pending \cup {"in-flight", "succeeded", "failed"}
               /\ ops[i].asset \in {"pending", "requested", "uploaded", "committed"}
               /\ ops[i].lease \in {"none", "held", "lapsed"} /\ ops[i].attempt \in Nat
               /\ (ops[i].lease = "none") = (ops[i].state # "in-flight")
    <3>1. ops[i] \in Row
      BY ElementOfSeq DEF PublicationInv, TablesOK, Op
    <3>2. ops[i].lease = "none" <=> ops[i].state # "in-flight"
      BY DEF PublicationInv, TablesOK
    <3>3. QED
      BY <3>1, <3>2, RowStates DEF Pending
  <2>2. ASSUME NEW w \in Worker
        PROVE  /\ worker[w].at \in {"idle", "written", "claim", "asset", "upload", "commit",
                                    "publish", "record"}
               /\ worker[w].op \in 0..Len(ops)
               /\ worker[w].reply \in {"none", "ok", "retry", "final"}
               /\ worker[w].stale \in BOOLEAN
    <3>1. worker[w] \in Call /\ worker[w].op \in Op \cup {0} /\ Len(ops) \in Nat
      BY DEF PublicationInv, CallsOK, TablesOK
    <3>2. worker[w].op \in 0..Len(ops)
      BY <3>1 DEF Op
    <3>3. QED
      BY <3>1, <3>2 DEF Call
  <2>3. QED
    BY <2>1, <2>2 DEF PublicationInv, TablesOK, TypeOK
<1>2. QED
  BY <1>1, PublicationAlways, PTL

\* No page goes to the cloud before the asset it shows is committed there: deliverAsset returns
\* before client.publish is called, and a checkpoint is taken up only where the cloud has it.
THEOREM AssetsAlwaysFirst == Spec => []AssetsFirst
<1>1. PublicationInv => AssetsFirst
  BY DEF PublicationInv, AssetsOK
<1>2. QED
  BY <1>1, PublicationAlways, PTL

\* What the outbox calls succeeded the cloud has committed, and it stays succeeded.
THEOREM ReceiptsAlwaysStand == Spec => ReceiptsStand
<1>1. PublicationInv /\ [Next]_vars
      => [\A i \in Op : ops[i].state = "succeeded"
                        => ops'[i].state = "succeeded" /\ i \in applied]_vars
  <2> SUFFICES ASSUME PublicationInv, [Next]_vars
               PROVE  \A i \in Op : ops[i].state = "succeeded"
                                    => ops'[i].state = "succeeded" /\ i \in applied
    OBVIOUS
  <2>1. RowsStand
    BY PublicationNext DEF Keeps
  <2>2. QED
    BY <2>1 DEF RowsStand, PublicationInv, ReceiptsOK
<1>2. QED
  BY <1>1, PublicationAlways, PTL DEF Spec, ReceiptsStand

\* A call that has the lease of an operation is the only one to end its attempt: claim gives the
\* lease to one, and succeed and fail write for nobody else.
THEOREM HoldersAlwaysDecide == Spec => HoldersDecide
<1>1. PublicationInv /\ [Next]_vars
      => [\A i \in Op : \A w \in Worker :
            ops[i].owner = w /\ ops[i].lease = "held" /\ ops'[i].state # "in-flight"
            => At(w, "record")]_vars
  <2> SUFFICES ASSUME PublicationInv, [Next]_vars
               PROVE  \A i \in Op : \A w \in Worker :
                        ops[i].owner = w /\ ops[i].lease = "held" /\ ops'[i].state # "in-flight"
                        => At(w, "record")
    OBVIOUS
  <2>1. RowsStand
    BY PublicationNext DEF Keeps
  <2>2. QED
    BY <2>1 DEF RowsStand, At
<1>2. QED
  BY <1>1, PublicationAlways, PTL DEF Spec, HoldersDecide

\* Two calls deliver one operation side by side only after the lease of one of them has lapsed.
THEOREM OneAlwaysDelivers == Spec => []OneDelivers
<1>1. PublicationInv => OneDelivers
  BY DEF PublicationInv, OwnersOK, OneDelivers
<1>2. QED
  BY <1>1, PublicationAlways, PTL
=============================================================================
