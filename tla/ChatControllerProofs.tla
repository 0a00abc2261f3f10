------------------------ MODULE ChatControllerProofs ------------------------
(* Proofs about one chat route and its conversation, for any number of      *)
(* messages, activations and failures: one turn at a time, no message lost, *)
(* versions in order, and no working response left without a run.           *)
EXTENDS ChatController, TLAPS, FiniteSetTheorems, SequenceTheorems

(* The inductive invariant: the messages *)

Steps  == {"idle", "new", "prepare", "launch", "observe", "steer", "move", "await", "replace",
           "failing"}
OnRun  == {"launch", "observe", "steer", "move", "await", "replace", "failing"}
Places == {"off", "restore", "reconcile", "closing", "catchup", "opening", "stream"}
Revision == [at : Nat, says : Contents]
Entry  == Message \X Revision
Route  == [at : Places, batch : Seq(Entry), fresh : BOOLEAN, open : BOOLEAN, watch : BOOLEAN,
           stop : BOOLEAN]

ChatOK ==
  /\ trouble \in 0..MaxTrouble
  /\ kind \in [Message -> Kinds] /\ version \in [Message -> Revision]
  /\ handled \in [Message -> Revision]
  /\ \A m \in Message : version[m].at <= 1 + trouble /\ handled[m].at <= version[m].at
  /\ \E n \in 0..MaxMessages : \A m \in Message : version[m].at > 0 <=> m <= n

\* The message at work is not older than what was handled of it.
WorkOK ==
  /\ work \in [step : Steps, m : 0..MaxMessages, v : Revision, run : 0..Len(runs),
               resume : 0..Len(responses)]
  /\ work.step = "idle" => work = NoWork
  /\ work.step # "idle" => /\ work.m \in Message /\ work.v.at \in 1..version[work.m].at
                           /\ handled[work.m].at <= work.v.at
  /\ work.step \in OnRun => work.run # 0

\* The batch is what follows the cursor, and the message at work is at its head.
RouteOK ==
  /\ route \in Route /\ cursor \in 0..1 + MaxMessages /\ events \in Seq(Entry)
  /\ route.at # "off" => cursor # 0
  /\ \A i \in 1..Len(route.batch) :
       route.batch[i][1] = cursor + i - 1
           /\ route.batch[i][2].at \in 1..version[route.batch[i][1]].at
  /\ \A i \in 1..Len(events) : events[i][2].at \in 1..version[events[i][1]].at
  /\ route.batch # <<>> => route.at = "catchup"
  /\ route.at = "off" => events = <<>> /\ ~route.open
  /\ work.step # "idle" => /\ route.at \in {"catchup", "stream"}
                           /\ route.batch # <<>> => work.m = route.batch[1][1]
                           /\ route.batch = <<>> => events # <<>>

HeardOK ==
  /\ given \in [Message -> SUBSET Revision] /\ excused \in [Message -> SUBSET Revision]
  /\ \A m \in Message : \A v \in given[m] : v.at \in 1..version[m].at
  /\ work.step \in {"observe", "move"} => work.v \in given[work.m]

\* What is still to come is not older than what a turn got.
Behind(m, w) ==
  /\ \A i \in 1..Len(route.batch) : route.batch[i][1] = m => w.at <= route.batch[i][2].at
  /\ \A i \in 1..Len(events) : events[i][1] = m => w.at <= events[i][2].at

OrderOK ==
  \A m \in Message : \A w \in given[m] :
    \/ w.at <= handled[m].at
    \/ work.m # m /\ Behind(m, w)
    \/ work.m = m /\ w.at <= work.v.at

Messages == ChatOK /\ WorkOK /\ RouteOK /\ HeardOK /\ OrderOK /\ NoMessageIsLost

-----------------------------------------------------------------------------
(* What a step does to the messages *)

\* The bounds of the model, as the proofs use them.
LEMMA ConstantTypes ==
  /\ MaxMessages \in Nat /\ MaxTrouble \in Nat /\ Message \subseteq Nat \ {0} /\ 0 \notin Message
  /\ NoVersion \in Revision /\ NoVersion.at = 0
  BY ChatAssumption DEF Message, NoVersion, Revision

\* The messages that were posted are the first ones.
LEMMA PostedType ==
  ASSUME ChatOK
  PROVE  posted \in 0..MaxMessages /\ \A m \in Message : version[m].at > 0 <=> m <= posted
<1>1. PICK n \in 0..MaxMessages : \A m \in Message : version[m].at > 0 <=> m <= n
  BY DEF ChatOK
<1>2. {m \in Message : version[m].at > 0} = 1..n
  BY <1>1, ConstantTypes DEF Message
<1>3. Cardinality(1..n) = n
  BY FS_Interval, ConstantTypes
<1>4. QED
  BY <1>1, <1>2, <1>3 DEF posted

\* A step may go wrong, within the bound of the model.
Moves == trouble' \in trouble..MaxTrouble

\* Runs and responses are only added.
Grows ==
  /\ Len(runs) \in Nat /\ Len(runs') \in Nat /\ Len(runs) <= Len(runs')
  /\ Len(responses) \in Nat /\ Len(responses') \in Nat /\ Len(responses) <= Len(responses')

\* A call that succeeds or fails counts as trouble within the bound.
LEMMA TroubleMoves ==
  ASSUME ChatOK, Reaches \/ Misses \/ UNCHANGED trouble
  PROVE  Moves
<1>1. trouble \in 0..MaxTrouble /\ MaxTrouble \in Nat
  BY ConstantTypes DEF ChatOK
<1>2. trouble' = trouble \/ (trouble < MaxTrouble /\ trouble' = trouble + 1)
  BY DEF Reaches, Misses, Troubled
<1>3. QED
  BY <1>1, <1>2 DEF Moves

\* The chat itself stays as it is.
LEMMA ChatKept ==
  ASSUME ChatOK, Moves, UNCHANGED <<kind, version, handled>>
  PROVE  ChatOK'
<1>1. trouble' \in 0..MaxTrouble /\ trouble \in Nat /\ trouble' \in Nat /\ trouble <= trouble'
  BY ConstantTypes DEF ChatOK, Moves
<1>2. \A m \in Message : version[m].at \in Nat /\ version[m].at <= 1 + trouble
  BY DEF ChatOK, Revision
<1>3. \A m \in Message : version[m].at <= 1 + trouble'
  BY <1>1, <1>2
<1>4. QED
  BY <1>1, <1>3 DEF ChatOK

\* m is the message at work or the one that is taken next, in version v.
Current(m, v) ==
  /\ m \in Message /\ v \in Revision /\ v.at \in 1..version[m].at /\ handled[m].at <= v.at
  /\ route.at \in {"catchup", "stream"}
  /\ route.batch # <<>> => m = route.batch[1][1]
  /\ route.batch = <<>> => events # <<>>
  /\ \A w \in given[m] : w.at <= v.at
  /\ \A x \in Message : x # m => work.m # x

\* The message at work is current.
LEMMA WorkIsCurrent ==
  ASSUME Messages, work.step # "idle"
  PROVE  Current(work.m, work.v)
<1>1. /\ work.m \in Message /\ work.v \in Revision /\ work.v.at \in 1..version[work.m].at
      /\ handled[work.m].at <= work.v.at
  BY DEF Messages, WorkOK
<1>2. \A w \in given[work.m] : w.at <= work.v.at
  <2>1. handled[work.m].at \in Nat /\ work.v.at \in Nat
    BY <1>1 DEF Messages, ChatOK, Revision
  <2>2. ASSUME NEW w \in given[work.m] PROVE w.at <= work.v.at
    <3>1. w.at \in Nat
      BY <1>1 DEF Messages, HeardOK, Revision
    <3>2. w.at <= handled[work.m].at \/ w.at <= work.v.at
      BY <1>1 DEF Messages, OrderOK
    <3>3. QED
      BY <1>1, <2>1, <3>1, <3>2
  <2>3. QED
    BY <2>2
<1>3. QED
  BY <1>1, <1>2 DEF Messages, RouteOK, Current

\* So is the next message of the batch or the stream, unless it is known.
LEMMA IncomingIsCurrent ==
  ASSUME Messages, Idle, Incoming[1] # 0
  PROVE  /\ Incoming[1] \in Message /\ Incoming[2] \in Revision
         /\ Incoming[2].at \in 1..version[Incoming[1]].at
         /\ route.batch # <<>> => Incoming[1] = route.batch[1][1]
         /\ route.batch = <<>> => events # <<>>
         /\ ~Known(Incoming[1], Incoming[2]) => Current(Incoming[1], Incoming[2])
<1>1. /\ route.batch \in Seq(Entry) /\ events \in Seq(Entry) /\ work.m = 0
  BY DEF Messages, RouteOK, Route, Idle, NoWork
<1>2. PICK e \in Entry :
        /\ Incoming = e /\ e[2].at \in 1..version[e[1]].at
        /\ \/ route.batch # <<>> /\ e = route.batch[1] /\ 1 \in 1..Len(route.batch)
           \/ /\ route.batch = <<>> /\ events # <<>> /\ e = events[1] /\ 1 \in 1..Len(events)
              /\ route.at = "stream"
  <2>1. CASE route.batch # <<>>
    <3>1. 1 \in 1..Len(route.batch) /\ Head(route.batch) = route.batch[1]
      BY <1>1, <2>1, EmptySeq
    <3>2. route.batch[1] \in Entry /\ route.batch[1][2].at \in 1..version[route.batch[1][1]].at
      BY <1>1, <3>1, ElementOfSeq DEF Messages, RouteOK
    <3>3. QED
      BY <2>1, <3>1, <3>2 DEF Incoming
  <2>2. CASE route.batch = <<>>
    <3>1. events # <<>> /\ Incoming = Head(events) /\ route.at = "stream"
      BY <2>2 DEF Incoming
    <3>2. 1 \in 1..Len(events) /\ Head(events) = events[1]
      BY <1>1, <3>1, EmptySeq
    <3>3. events[1] \in Entry /\ events[1][2].at \in 1..version[events[1][1]].at
      BY <1>1, <3>2, ElementOfSeq DEF Messages, RouteOK
    <3>4. QED
      BY <2>2, <3>1, <3>2, <3>3
  <2>3. QED
    BY <2>1, <2>2
<1>3. /\ Incoming[1] \in Message /\ Incoming[2] \in Revision
      /\ Incoming[2].at \in 1..version[Incoming[1]].at
  BY <1>2 DEF Entry
<1>4. ASSUME ~Known(Incoming[1], Incoming[2])
      PROVE  Current(Incoming[1], Incoming[2])
  <2> DEFINE m == Incoming[1]
             v == Incoming[2]
  <2>1. handled[m].at <= v.at /\ handled[m].at \in Nat /\ v.at \in Nat /\ v.at > 0
    <3>1. handled[m].at \in Nat /\ version[m].at \in Nat /\ v.at \in 1..version[m].at
      BY <1>3 DEF Messages, ChatOK, Revision
    <3>2. handled[m].at = 0 \/ ~(v.at < handled[m].at)
      BY <1>4 DEF Known
    <3> HIDE DEF m, v
    <3>3. QED
      BY <3>1, <3>2
  <2>2. route.at \in {"catchup", "stream"}
    BY <1>2 DEF Messages, RouteOK
  <2>3. ASSUME NEW w \in given[m] PROVE w.at <= v.at
    <3>1. w.at \in Nat
      BY <1>3 DEF Messages, HeardOK, Revision
    <3>2. CASE w.at <= handled[m].at
      <4> HIDE DEF m, v
      <4>1. QED
        BY <2>1, <3>1, <3>2
    <3>3. CASE Behind(m, w)
      BY <1>2, <3>3 DEF Behind
    <3>4. QED
      BY <1>1, <1>3, <3>2, <3>3, ConstantTypes DEF Messages, OrderOK
  <2>4. QED
    BY <1>1, <1>2, <1>3, <2>1, <2>2, <2>3, ConstantTypes DEF Current
<1>5. QED
  BY <1>2, <1>3, <1>4

\* A step that keeps the message at work, or takes a current one, on to an await.
LEMMA AwaitKeeps ==
  ASSUME Messages, NEW m, NEW v, Current(m, v), Moves, Grows,
         NEW step \in Steps \ {"idle"}, NEW r \in 0..Len(runs'), NEW resume \in 0..Len(responses'),
         Await(step, m, v, r, resume), step \in OnRun => r # 0,
         UNCHANGED <<kind, version, excused>>, given' = given \/ Give(m, v),
         step \in {"observe", "move"} => v \in given'[m]
  PROVE  Messages'
<1> USE DEF Messages
<1>1. /\ m \in Message /\ v \in Revision /\ v.at \in 1..version[m].at
      /\ m \in 0..MaxMessages /\ handled[m].at <= v.at
  BY ConstantTypes DEF Current, Message
<1>2. /\ work' = [step |-> step, m |-> m, v |-> v, run |-> r, resume |-> resume]
      /\ UNCHANGED <<cursor, handled, route, events>>
  BY DEF Await
<1>3. ChatOK'
  BY <1>2, ChatKept
<1>4. WorkOK'
  BY <1>1, <1>2 DEF WorkOK
<1>5. RouteOK'
  BY <1>2 DEF RouteOK, Current
<1>6. /\ given' \in [Message -> SUBSET Revision]
      /\ \A x \in Message : given[x] \subseteq given'[x]
      /\ \A x \in Message : \A w \in given'[x] : w \in given[x] \/ (x = m /\ w = v)
  BY <1>1 DEF HeardOK, Give
<1>7. HeardOK'
  BY <1>1, <1>2, <1>6 DEF HeardOK
<1>8. OrderOK'
  <2>1. ASSUME NEW x \in Message, NEW w \in given'[x], x # m
        PROVE  w.at <= handled[x].at \/ Behind(x, w)
    BY <1>6, <2>1 DEF OrderOK, Current
  <2>2. ASSUME NEW w \in given'[m] PROVE w.at <= v.at
    <3>1. v.at \in Nat
      BY <1>1 DEF Revision
    <3>2. CASE w \in given[m]
      BY <3>2 DEF Current
    <3>3. CASE w = v
      BY <3>1, <3>3
    <3>4. QED
      BY <1>1, <1>6, <3>2, <3>3
  <2>3. QED
    BY <1>2, <2>1, <2>2 DEF OrderOK, Behind
<1>9. NoMessageIsLost'
  BY <1>2, <1>6 DEF NoMessageIsLost
<1>10. QED
  BY <1>3, <1>4, <1>5, <1>7, <1>8, <1>9

\* What is left behind a message: the rest of the batch, or of the stream.
LEMMA LeaveKeeps ==
  ASSUME RouteOK, NEW m \in Message, route.batch # <<>> => m = route.batch[1][1],
         route.batch = <<>> => events # <<>>, Leave(m), UNCHANGED version,
         route.at \in {"catchup", "stream"} \/ route.batch # <<>>
  PROVE  /\ RouteOK'
         /\ \A x, w : Behind(x, w) => Behind(x, w)'
         /\ \/ cursor' = cursor
            \/ cursor' = m + 1 /\ cursor = m
<1>1. /\ route.batch \in Seq(Entry) /\ events \in Seq(Entry) /\ route \in Route /\ m \in Nat
      /\ cursor \in 0..1 + MaxMessages /\ work' = NoWork /\ MaxMessages \in Nat
  BY ConstantTypes DEF RouteOK, Route, Leave
<1>2. CASE route.batch # <<>>
  <2>1. /\ cursor' = m + 1 /\ route' = [route EXCEPT !.batch = Tail(route.batch)]
        /\ events' = events
    BY <1>2 DEF Leave
  <2> DEFINE rest == Tail(route.batch)
  <2>2. /\ rest \in Seq(Entry) /\ Len(rest) = Len(route.batch) - 1
        /\ \A i \in 1..Len(rest) : rest[i] = route.batch[i + 1]
        /\ Len(route.batch) \in Nat \ {0}
    BY <1>1, <1>2, HeadTailProperties, EmptySeq
  <2>3. route.batch[1][1] = cursor
    BY <1>1, <2>2 DEF RouteOK
  <2>4. cursor = m
    BY <1>2, <2>3
  <2> HIDE DEF rest
  <2>5. route' \in Route /\ route'.batch = rest /\ route'.at = route.at
    BY <1>1, <2>1, <2>2 DEF Route, rest
  <2>6. \A i \in 1..Len(rest) : i + 1 \in 1..Len(route.batch)
    BY <2>2
  <2>7. \A i \in 1..Len(rest) :
          rest[i][1] = m + 1 + i - 1 /\ rest[i][2].at \in 1..version[rest[i][1]].at
    <3>1. ASSUME NEW i \in 1..Len(rest), NEW j \in 1..Len(route.batch), j = i + 1
          PROVE  /\ rest[i] = route.batch[j] /\ route.batch[j][1] = cursor + j - 1
                 /\ route.batch[j][2].at \in 1..version[route.batch[j][1]].at
      BY <2>2, <3>1 DEF RouteOK
    <3>2. ASSUME NEW i \in 1..Len(rest)
          PROVE  rest[i][1] = m + 1 + i - 1 /\ rest[i][2].at \in 1..version[rest[i][1]].at
      <4>1. PICK j \in 1..Len(route.batch) : j = i + 1
        BY <2>6
      <4>2. cursor + j - 1 = m + 1 + i - 1
        BY <1>1, <2>2, <2>4, <4>1
      <4>3. QED
        BY <3>1, <4>1, <4>2
    <3>3. QED
      BY <3>2
  <2>8. cursor' \in 0..1 + MaxMessages /\ cursor' # 0
    BY <1>1, <2>1, ConstantTypes DEF Message
  <2>9. RouteOK'
    <3>1. route'.at = "catchup" /\ work'.step = "idle"
      BY <1>1, <1>2, <2>5 DEF RouteOK, NoWork
    <3>2. \A i \in 1..Len(route'.batch) :
            /\ route'.batch[i][1] = cursor' + i - 1
            /\ route'.batch[i][2].at \in 1..version'[route'.batch[i][1]].at
      BY <2>1, <2>5, <2>7
    <3>3. \A i \in 1..Len(events') : events'[i][2].at \in 1..version'[events'[i][1]].at
      BY <2>1 DEF RouteOK
    <3>4. QED
      BY <1>1, <2>1, <2>5, <2>8, <3>1, <3>2, <3>3 DEF RouteOK
  <2>10. \A x, w : Behind(x, w) => Behind(x, w)'
    BY <2>1, <2>2, <2>5, <2>6 DEF Behind
  <2>11. QED
    BY <2>1, <2>4, <2>9, <2>10
<1>3. CASE route.batch = <<>>
  <2>1. events' = Tail(events) /\ UNCHANGED <<cursor, route>> /\ events # <<>>
    BY <1>3 DEF Leave
  <2>2. /\ events' \in Seq(Entry) /\ Len(events') = Len(events) - 1
        /\ \A i \in 1..Len(events') : events'[i] = events[i + 1]
        /\ Len(events) \in Nat \ {0}
    BY <1>1, <2>1, HeadTailProperties, EmptySeq
  <2>3. \A i \in 1..Len(events') : i + 1 \in 1..Len(events)
    BY <2>2
  <2>4. \A i \in 1..Len(events') : events'[i][2].at \in 1..version[events'[i][1]].at
    BY <2>2, <2>3 DEF RouteOK
  <2>5. RouteOK'
    BY <1>1, <1>3, <2>1, <2>2, <2>4 DEF RouteOK, NoWork
  <2>6. \A x, w : Behind(x, w) => Behind(x, w)'
    BY <2>1, <2>2, <2>3 DEF Behind
  <2>7. QED
    BY <2>1, <2>5, <2>6
<1>4. QED
  BY <1>2, <1>3

\* A current message that is handled was given to a turn, or excused.
LEMMA HandleKeeps ==
  ASSUME Messages, NEW m, NEW v, Current(m, v), Moves, Grows, Handle(m, v),
         UNCHANGED <<kind, version, given>>,
         Excuse(m, v) \/ (UNCHANGED excused /\ v \in given[m])
  PROVE  Messages'
<1> USE DEF Messages
<1>1. /\ m \in Message /\ v \in Revision /\ v.at \in 1..version[m].at
      /\ m \in Nat /\ \A w \in given[m] : w.at <= v.at
      /\ \A x \in Message : x # m => work.m # x
  BY ConstantTypes DEF Current
<1>0. v # NoVersion /\ v.at <= version[m].at /\ version[m].at \in Nat
  BY <1>1, ConstantTypes DEF ChatOK, Revision
<1>2. work' = NoWork /\ handled' = [handled EXCEPT ![m] = v]
  BY DEF Handle, Leave
<1>3. /\ RouteOK'
      /\ \A x, w : Behind(x, w) => Behind(x, w)'
      /\ \/ cursor' = cursor
         \/ cursor' = m + 1 /\ cursor = m
  BY <1>1, LeaveKeeps DEF Handle, Current
<1>4. \A x \in Message : handled'[x] = IF x = m THEN v ELSE handled[x]
  BY <1>1, <1>2 DEF ChatOK
<1>5. ChatOK'
  <2>1. trouble' \in 0..MaxTrouble /\ trouble \in Nat /\ trouble' \in Nat /\ trouble <= trouble'
    BY ConstantTypes DEF ChatOK, Moves
  <2>2. \A x \in Message : version[x].at \in Nat /\ version[x].at <= 1 + trouble
    BY DEF ChatOK, Revision
  <2>3. \A x \in Message : version[x].at <= 1 + trouble'
    BY <2>1, <2>2
  <2>4. handled' \in [Message -> Revision] /\ \A x \in Message : handled'[x].at <= version[x].at
    BY <1>0, <1>1, <1>2, <1>4 DEF ChatOK
  <2>5. QED
    BY <2>1, <2>3, <2>4 DEF ChatOK
<1>6. WorkOK'
  BY <1>2, ConstantTypes DEF WorkOK, NoWork, Steps, OnRun, Grows
<1>7. /\ excused' \in [Message -> SUBSET Revision] /\ v \in given[m] \cup excused'[m]
      /\ \A x \in Message : excused[x] \subseteq excused'[x]
  BY <1>1 DEF HeardOK, Excuse
<1>8. HeardOK'
  BY <1>2, <1>7 DEF HeardOK, NoWork
<1>9. OrderOK'
  BY <1>1, <1>2, <1>3, <1>4, ConstantTypes DEF OrderOK, NoWork
<1>10. NoMessageIsLost'
  <2>1. ASSUME NEW x \in Message, x < cursor' PROVE handled'[x] # NoVersion
    <3>1. x = m \/ x < cursor
      BY <1>1, <1>3, <2>1, ConstantTypes
    <3>2. QED
      BY <1>0, <1>4, <3>1 DEF NoMessageIsLost
  <2>2. ASSUME NEW x \in Message, handled'[x] # NoVersion
        PROVE  handled'[x] \in given[x] \cup excused'[x]
    BY <1>4, <1>7, <2>2 DEF NoMessageIsLost
  <2>3. QED
    BY <2>1, <2>2 DEF NoMessageIsLost
<1>11. QED
  BY <1>3, <1>5, <1>6, <1>8, <1>9, <1>10

\* A message that is known is left behind.
LEMMA SkipKeeps ==
  ASSUME Messages, Grows, Skip
  PROVE  Messages'
<1> USE DEF Messages
<1> DEFINE m == Incoming[1]
<1>1. /\ m \in Message /\ Incoming[2].at \in 1..version[m].at
      /\ route.batch # <<>> => m = route.batch[1][1]
      /\ route.batch = <<>> => events # <<>>
      /\ m # 0 /\ Known(m, Incoming[2]) /\ Leave(m) /\ work = NoWork /\ work' = NoWork
      /\ UNCHANGED <<kind, version, handled, given, excused, trouble>>
  BY IncomingIsCurrent, ConstantTypes DEF Skip, chat, past, Leave, Idle
<1>2. handled[m] # NoVersion /\ m \in Nat
  BY <1>1, ConstantTypes DEF Known
<1>3. route.at \in {"catchup", "stream"} \/ route.batch # <<>>
  BY DEF Skip, Incoming
<1> HIDE DEF m
<1>4. /\ RouteOK'
      /\ \A x, w : Behind(x, w) => Behind(x, w)'
      /\ \/ cursor' = cursor
         \/ cursor' = m + 1 /\ cursor = m
  BY <1>1, <1>3, LeaveKeeps
<1>5. ChatOK'
  BY <1>1 DEF ChatOK
<1>6. WorkOK' /\ HeardOK'
  BY <1>1, ConstantTypes DEF WorkOK, HeardOK, NoWork, Steps, OnRun, Grows
<1>7. OrderOK'
  BY <1>1, <1>4 DEF OrderOK
<1>8. NoMessageIsLost'
  <2>1. ASSUME NEW x \in Message, x < cursor' PROVE handled[x] # NoVersion
    <3>1. x = m \/ x < cursor
      BY <1>2, <1>4, <2>1, ConstantTypes
    <3>2. QED
      BY <1>2, <3>1 DEF NoMessageIsLost
  <2>2. QED
    BY <1>1, <2>1 DEF NoMessageIsLost
<1>9. QED
  BY <1>4, <1>5, <1>6, <1>7, <1>8

\* The route gives up what it was doing and starts from its cursor again.
Clears ==
  /\ work' = NoWork /\ events' = <<>> /\ cursor' = cursor
  /\ route' \in Route /\ route'.at = "off" /\ route'.batch = <<>> /\ ~route'.open

\* Nothing is lost with what the route gives up, since none of it was handled.
LEMMA ClearsKeeps ==
  ASSUME Messages, Moves, Grows, Clears,
         UNCHANGED <<kind, version, handled, given, excused>>
  PROVE  Messages'
<1> USE DEF Messages
<1>1. ChatOK'
  BY ChatKept
<1>2. WorkOK' /\ HeardOK'
  <2>1. work' = NoWork /\ NoWork.step = "idle" /\ "idle" \notin OnRun
    BY DEF Clears, NoWork, OnRun
  <2>2. NoWork \in [step : Steps, m : 0..MaxMessages, v : Revision, run : 0..Len(runs'),
                    resume : 0..Len(responses')]
    BY ConstantTypes DEF NoWork, Steps, Grows
  <2>3. WorkOK'
    BY <2>1, <2>2 DEF WorkOK
  <2>4. HeardOK'
    BY <2>1 DEF HeardOK
  <2>5. QED
    BY <2>3, <2>4
<1>3. RouteOK'
  <2>1. <<>> \in Seq(Entry) /\ Len(<<>>) = 0
    BY EmptySeq
  <2>2. QED
    BY <2>1 DEF Clears, RouteOK, NoWork
<1>4. OrderOK'
  <2>1. \A x, w : Behind(x, w)'
    BY EmptySeq DEF Clears, Behind
  <2>2. \A x \in Message : work'.m # x
    BY ConstantTypes DEF Clears, NoWork
  <2>3. QED
    BY <2>1, <2>2 DEF OrderOK
<1>5. NoMessageIsLost'
  BY DEF Clears, NoMessageIsLost
<1>6. QED
  BY <1>1, <1>2, <1>3, <1>4, <1>5

\* A step beside the route, or one of the route that leaves its messages alone.
LEMMA MessagesKept ==
  ASSUME Messages, Moves, Grows,
         UNCHANGED <<kind, version, cursor, handled, work, events, given, excused>>,
         route' \in Route, route'.batch = route.batch, route'.open => route'.at # "off",
         route'.at = "off" => route.at = "off", route'.at # "off" => cursor # 0,
         route.batch # <<>> => route'.at = route.at,
         work.step # "idle" => route'.at = route.at
  PROVE  Messages'
<1> USE DEF Messages
<1>1. ChatOK'
  BY ChatKept
<1>2. WorkOK' /\ HeardOK'
  BY DEF WorkOK, HeardOK, Grows
<1>3. RouteOK'
  BY DEF RouteOK
<1>4. OrderOK' /\ NoMessageIsLost'
  BY DEF OrderOK, Behind, NoMessageIsLost
<1>5. QED
  BY <1>1, <1>2, <1>3, <1>4

-----------------------------------------------------------------------------
(* The chat and the route keep the messages *)

\* What the stream tells of a new version is not older than what a turn got.
LEMMA StreamedKeeps ==
  ASSUME Messages, Moves, Grows, NEW m \in Message, NEW v \in Revision,
         version[m].at <= v.at, v.at > 0, v.at <= 1 + trouble',
         \E n \in 0..MaxMessages : \A x \in Message : version'[x].at > 0 <=> x <= n,
         Streamed(m, v), kind' \in [Message -> Kinds],
         version' = [version EXCEPT ![m] = v],
         UNCHANGED <<cursor, handled, work, route, given, excused>>
  PROVE  Messages'
<1> USE DEF Messages
<1>1. /\ \A x \in Message : /\ version[x].at \in Nat /\ handled[x].at \in Nat
                            /\ version[x].at <= 1 + trouble /\ handled[x].at <= version[x].at
      /\ \A x \in Message : version'[x] = IF x = m THEN v ELSE version[x]
      /\ version' \in [Message -> Revision] /\ v.at \in Nat
      /\ trouble \in Nat /\ trouble' \in 0..MaxTrouble /\ trouble <= trouble'
  BY ConstantTypes DEF ChatOK, Moves, Revision
<1>2. \A x \in Message : version'[x].at \in Nat /\ version[x].at <= version'[x].at
  BY <1>1
<1>3. ChatOK'
  <2>1. \A x \in Message : version'[x].at <= 1 + trouble' /\ handled[x].at <= version'[x].at
    BY <1>1, <1>2
  <2>2. QED
    BY <1>1, <2>1 DEF ChatOK
<1>4. \A x \in Message : 1..version[x].at \subseteq 1..version'[x].at
  BY <1>1, <1>2
<1>5. WorkOK' /\ HeardOK'
  <2>1. \A x \in Message : \A w : w.at \in 1..version[x].at => w.at \in 1..version'[x].at
    BY <1>4
  <2>2. WorkOK'
    BY <2>1 DEF WorkOK, Grows
  <2>3. HeardOK'
    BY <2>1 DEF HeardOK
  <2>4. QED
    BY <2>2, <2>3
<1>6. /\ events \in Seq(Entry) /\ route.batch \in Seq(Entry) /\ <<m, v>> \in Entry
  BY DEF RouteOK, Route, Entry
<1>7. /\ events' \in Seq(Entry) /\ (events # <<>> => events' # <<>>)
      /\ \A i \in 1..Len(events') : \/ i \in 1..Len(events) /\ events'[i] = events[i]
                                    \/ events'[i] = <<m, v>>
  <2>1. CASE events' = events
    BY <1>6, <2>1
  <2>2. CASE events' = Append(events, <<m, v>>)
    BY <1>6, <2>2, AppendProperties, LenProperties
  <2>3. QED
    BY <2>1, <2>2 DEF Streamed
<1>8. RouteOK'
  <2>1. ASSUME NEW i \in 1..Len(route.batch)
        PROVE  route.batch[i][2].at \in 1..version'[route.batch[i][1]].at
    <3>1. route.batch[i] \in Entry /\ route.batch[i][2].at \in 1..version[route.batch[i][1]].at
      BY <1>6, ElementOfSeq DEF RouteOK
    <3>2. QED
      BY <1>4, <3>1 DEF Entry
  <2>2. ASSUME NEW i \in 1..Len(events')
        PROVE  events'[i][2].at \in 1..version'[events'[i][1]].at
    <3>1. CASE i \in 1..Len(events) /\ events'[i] = events[i]
      <4>1. events[i] \in Entry /\ events[i][2].at \in 1..version[events[i][1]].at
        BY <1>6, <3>1, ElementOfSeq DEF RouteOK
      <4>2. QED
        BY <1>4, <3>1, <4>1 DEF Entry
    <3>2. CASE events'[i] = <<m, v>>
      BY <1>1, <3>2
    <3>3. QED
      BY <1>7, <3>1, <3>2
  <2>3. route.at = "off" => events' = <<>>
    <3>1. ASSUME route.at = "off" PROVE ~route.open
      BY <3>1 DEF RouteOK
    <3>2. QED
      BY <3>1 DEF RouteOK, Streamed
  <2>4. QED
    BY <1>7, <2>1, <2>2, <2>3 DEF RouteOK
<1>9. OrderOK'
  <2>1. ASSUME NEW x \in Message, NEW w \in given[x], Behind(x, w) PROVE Behind(x, w)'
    <3>1. w.at \in 1..version[x].at /\ version[x].at \in Nat
      BY <1>1 DEF HeardOK
    <3>2. x = m => w.at <= v.at
      BY <1>1, <3>1
    <3>3. QED
      BY <1>7, <2>1, <3>2 DEF Behind
  <2>2. QED
    BY <2>1 DEF OrderOK
<1>10. NoMessageIsLost'
  BY DEF NoMessageIsLost
<1>11. QED
  BY <1>3, <1>5, <1>8, <1>9, <1>10

\* What people write and edit.
LEMMA ChatSteps ==
  ASSUME Messages, Grows, Post \/ \E m \in Message : EditMessage(m)
  PROVE  Messages'
<1>1. /\ \A x \in Message : version[x].at \in Nat /\ version[x].at <= 1 + trouble
      /\ posted \in 0..MaxMessages /\ \A x \in Message : version[x].at > 0 <=> x <= posted
      /\ trouble \in Nat /\ kind \in [Message -> Kinds] /\ version \in [Message -> Revision]
  <2>1. ChatOK
    BY DEF Messages
  <2>2. posted \in 0..MaxMessages /\ \A x \in Message : version[x].at > 0 <=> x <= posted
    BY <2>1, PostedType
  <2>3. trouble \in Nat
    BY <2>1, ConstantTypes DEF ChatOK
  <2>4. QED
    BY <2>1, <2>2, <2>3 DEF ChatOK, Revision
<1>2. CASE Post
  <2> DEFINE m == posted + 1
             v == [at |-> 1, says |-> 0]
  <2>0. v \in Revision /\ v.at = 1
    BY ChatAssumption DEF Revision
  <2>1. m \in Message /\ version[m].at = 0
    <3>1. m \in Message
      BY <1>1, <1>2, ConstantTypes DEF Post, Message
    <3>2. ~(m <= posted) /\ version[m].at \in Nat
      BY <1>1, <3>1
    <3>3. QED
      BY <1>1, <3>1, <3>2
  <2>2. /\ version' = [version EXCEPT ![m] = v] /\ Streamed(m, v) /\ trouble' = trouble
        /\ UNCHANGED <<cursor, handled, work, route, given, excused>>
        /\ kind' \in [Message -> Kinds]
    BY <1>1, <1>2 DEF Post, Reaches, table
  <2>3. Moves
    BY <1>2, TroubleMoves DEF Post, Messages
  <2>4. \E n \in 0..MaxMessages : \A x \in Message : version'[x].at > 0 <=> x <= n
    <3>1. \A x \in Message : version'[x] = IF x = m THEN v ELSE version[x]
      BY <1>1, <2>1, <2>2
    <3> HIDE DEF v
    <3>2. m \in 0..MaxMessages
      BY <1>1, <2>1, ConstantTypes DEF Message
    <3>3. \A x \in Message : version'[x].at > 0 <=> x <= m
      BY <1>1, <2>0, <3>1, ConstantTypes
    <3>4. QED
      BY <3>2, <3>3
  <2>5. version[m].at <= v.at /\ v.at > 0 /\ v.at <= 1 + trouble'
    BY <1>1, <2>0, <2>1, <2>2
  <2> HIDE DEF m, v
  <2>6. QED
    BY <2>0, <2>1, <2>2, <2>3, <2>4, <2>5, StreamedKeeps
<1>3. ASSUME NEW m \in Message, EditMessage(m) PROVE Messages'
  <2>1. /\ version[m].at > 0 /\ trouble' = trouble + 1
        /\ UNCHANGED <<kind, cursor, handled, work, route, given, excused>>
    BY <1>3 DEF EditMessage, Troubled, table
  <2>2. PICK v \in Version : /\ v.at \in version[m].at..version[m].at + 1
                              /\ version' = [version EXCEPT ![m] = v] /\ Streamed(m, v)
    BY <1>3 DEF EditMessage
  <2>3. version[m].at \in Nat /\ version[m].at <= 1 + trouble
    BY <1>1
  <2>4. v \in Revision /\ version[m].at <= v.at /\ v.at > 0 /\ v.at <= 1 + trouble'
    BY <1>1, <2>1, <2>2, <2>3, ChatAssumption DEF Revision, Version
  <2>5. version' = [version EXCEPT ![m] = v] /\ Streamed(m, v)
    BY <2>2
  <2>6. Moves
    BY <1>3, TroubleMoves DEF EditMessage, Messages, Misses
  <2>7. \A x \in Message : version'[x] = IF x = m THEN v ELSE version[x]
    BY <1>1, <2>5
  <2>8. \A x \in Message : version'[x].at > 0 <=> version[x].at > 0
    BY <2>1, <2>4, <2>7
  <2>9. \E n \in 0..MaxMessages : \A x \in Message : version'[x].at > 0 <=> x <= n
    BY <1>1, <2>8
  <2>10. kind' \in [Message -> Kinds]
    BY <1>1, <2>1
  <2>11. QED
    BY <2>1, <2>4, <2>5, <2>6, <2>9, <2>10, StreamedKeeps
<1>4. QED
  BY <1>2, <1>3

\* The first connection takes what is there for handled; a later one changes nothing.
LEMMA ConnectKeeps ==
  ASSUME Messages, Grows, Connect
  PROVE  Messages'
<1> USE DEF Messages
<1>1. /\ route.at = "off" /\ route' = [route EXCEPT !.at = "restore"] /\ route \in Route
      /\ UNCHANGED <<kind, version, work, events, given>> /\ Moves
  BY TroubleMoves DEF Connect, OnlyRoute, chat, RouteOK
<1>2. route' \in Route /\ route'.at = "restore" /\ route'.batch = route.batch
  BY <1>1 DEF Route, Places
<1>3. CASE cursor # 0 /\ UNCHANGED <<cursor, handled, excused>>
  <2>1. route.batch = <<>> /\ work.step = "idle"
    BY <1>1 DEF RouteOK
  <2>2. QED
    BY <1>1, <1>2, <1>3, <2>1, MessagesKept
<1>4. CASE cursor = 0 /\ cursor' = posted + 1 /\ handled' = version
           /\ excused' = [m \in Message |-> {version[m]}]
  <2>1. posted \in 0..MaxMessages /\ \A x \in Message : version[x].at > 0 <=> x <= posted
    BY PostedType
  <2>2. /\ \A x \in Message : version[x].at \in Nat /\ version[x].at <= 1 + trouble
        /\ trouble \in Nat /\ trouble' \in 0..MaxTrouble /\ trouble <= trouble'
        /\ version \in [Message -> Revision]
    BY <1>1, ConstantTypes DEF ChatOK, Moves, Revision
  <2>3. ChatOK'
    <3>1. \A x \in Message : version[x].at <= 1 + trouble' /\ version[x].at <= version[x].at
      BY <2>2
    <3>2. QED
      BY <1>1, <1>4, <2>2, <3>1 DEF ChatOK
  <2>4. route.batch = <<>> /\ events = <<>> /\ work.step = "idle" /\ work = NoWork
    BY <1>1 DEF RouteOK, WorkOK
  <2>5. WorkOK'
    BY <1>1, <2>4, ConstantTypes DEF WorkOK, NoWork, Steps, OnRun, Grows
  <2>6. HeardOK'
    BY <1>1, <1>4, <2>2, <2>4 DEF HeardOK
  <2>7. cursor' \in 0..1 + MaxMessages /\ cursor' # 0
    BY <1>4, <2>1, ConstantTypes
  <2>8. RouteOK'
    BY <1>1, <1>2, <2>4, <2>7, EmptySeq DEF RouteOK
  <2>9. OrderOK'
    <3>1. ASSUME NEW x \in Message, NEW w \in given[x] PROVE w.at <= handled'[x].at
      BY <1>4, <2>2 DEF HeardOK
    <3>2. QED
      BY <1>1, <3>1 DEF OrderOK
  <2>10. NoMessageIsLost'
    <3>1. ASSUME NEW x \in Message, x < cursor' PROVE handled'[x] # NoVersion
      BY <1>4, <2>1, <2>2, <3>1, ConstantTypes
    <3>2. ASSUME NEW x \in Message PROVE handled'[x] \in excused'[x]
      BY <1>4, <2>2
    <3>3. QED
      BY <3>1, <3>2 DEF NoMessageIsLost
  <2>11. QED
    BY <2>3, <2>5, <2>6, <2>8, <2>9, <2>10
<1>5. QED
  BY <1>3, <1>4 DEF Connect

\* A function on the first numbers is a sequence.
LEMMA FunIsSeq ==
  ASSUME NEW S, NEW n \in Nat, NEW f \in [1..n -> S]
  PROVE  f \in Seq(S) /\ Len(f) = n
<1>1. f \in Seq(S)
  BY SeqDef
<1>2. Len(f) \in Nat /\ 1..Len(f) = 1..n
  BY <1>1, LenProperties
<1>3. QED
  BY <1>1, <1>2

\* The batch of the catch-up is what follows the cursor, as it is now.
LEMMA ListKeeps ==
  ASSUME Messages, Grows, List
  PROVE  Messages'
<1> USE DEF Messages
<1>1. /\ route.at = "catchup" /\ work = NoWork /\ route.batch = <<>> /\ route \in Route
      /\ UNCHANGED <<kind, version, cursor, handled, work, events, given, excused>> /\ Moves
      /\ cursor # 0
  BY TroubleMoves DEF List, OnlyRoute, chat, RouteOK, Idle
<1>2. CASE cursor > posted
  <2>1. route' = [route EXCEPT !.at = "opening"]
    BY <1>2 DEF List
  <2>2. route' \in Route /\ route'.at = "opening" /\ route'.batch = route.batch
    BY <1>1, <2>1 DEF Route, Places
  <2>3. QED
    BY <1>1, <2>2, MessagesKept DEF NoWork
<1>3. CASE ~(cursor > posted)
  <2> DEFINE n == posted + 1 - cursor
             batch == [i \in 1..n |-> <<cursor + i - 1, version[cursor + i - 1]>>]
  <2>1. route' = [route EXCEPT !.batch = batch]
    BY <1>3 DEF List
  <2>2. posted \in 0..MaxMessages /\ \A x \in Message : version[x].at > 0 <=> x <= posted
    BY PostedType
  <2>3. cursor \in Nat /\ n \in Nat \ {0} /\ version \in [Message -> Revision]
    BY <1>1, <1>3, <2>2, ConstantTypes DEF RouteOK, ChatOK
  <2>4. ASSUME NEW i \in 1..n
        PROVE  /\ cursor + i - 1 \in Message /\ cursor + i - 1 <= posted
    BY <1>1, <2>2, <2>3, ConstantTypes DEF Message
  <2>5. ASSUME NEW x \in Message, x <= posted
        PROVE  version[x] \in Revision /\ version[x].at > 0 /\ version[x].at \in 1..version[x].at
    BY <2>2, <2>3, <2>5 DEF Revision
  <2>6. \A i \in 1..n : <<cursor + i - 1, version[cursor + i - 1]>> \in Entry
    BY <2>4, <2>5 DEF Entry
  <2>7. /\ batch \in Seq(Entry) /\ Len(batch) = n
        /\ \A i \in 1..n : batch[i] = <<cursor + i - 1, version[cursor + i - 1]>>
    <3> HIDE DEF n
    <3>1. batch \in [1..n -> Entry]
      BY <2>6
    <3>2. n \in Nat
      BY <2>3
    <3>3. batch \in Seq(Entry) /\ Len(batch) = n
      <4> HIDE DEF batch
      <4>1. QED
        BY <3>1, <3>2, FunIsSeq
    <3>4. QED
      BY <3>3
  <2>8. \A i \in 1..n : /\ batch[i][1] = cursor + i - 1 /\ batch[i][2] = version[cursor + i - 1]
                        /\ batch[i][2].at \in 1..version[batch[i][1]].at
    BY <2>4, <2>5, <2>7
  <2> HIDE DEF n, batch
  <2>9. route' \in Route /\ route'.at = "catchup" /\ route'.batch = batch
    BY <1>1, <2>1, <2>7 DEF Route
  <2>10. RouteOK'
    BY <1>1, <2>7, <2>8, <2>9 DEF RouteOK, NoWork
  <2>11. ChatOK'
    BY <1>1, ChatKept
  <2>12. WorkOK' /\ HeardOK'
    BY <1>1 DEF WorkOK, HeardOK, Grows, NoWork
  <2>13. OrderOK'
    <3>1. ASSUME NEW x \in Message, NEW w \in given[x], Behind(x, w) PROVE Behind(x, w)'
      <4>1. w.at \in 1..version[x].at /\ version[x].at \in Nat
        BY <2>3 DEF HeardOK, Revision
      <4>2. ASSUME NEW i \in 1..n, batch[i][1] = x PROVE w.at <= batch[i][2].at
        BY <2>8, <4>1, <4>2
      <4>3. QED
        BY <1>1, <2>7, <2>9, <3>1, <4>2 DEF Behind
    <3>2. QED
      BY <1>1, <3>1 DEF OrderOK
  <2>14. NoMessageIsLost'
    BY <1>1 DEF NoMessageIsLost
  <2>15. QED
    BY <2>10, <2>11, <2>12, <2>13, <2>14
<1>4. QED
  BY <1>2, <1>3

-----------------------------------------------------------------------------
(* The inductive invariant: the runs *)

Turns == {"none", "live", "ended", "broken", "cancelled"}
Fates == {"none", "waiting", "finishing", "failing", "over"}
Late  == {"finishing", "failing", "over"}
Ops   == {"move", "finish", "fail", "interrupt"}
Shown == {"working", "answer", "notice", "gone", "left", "orphan"}
Row   == [response : Nat, status : Ended \cup {"running"}]

TablesOK ==
  /\ runs \in Seq(Row) /\ responses \in Seq(Shown)
  /\ \A r \in Run : runs[r].response \in 1..Len(responses)
  /\ recovery \subseteq [run : Run, response : 1..Len(responses), silent : BOOLEAN]
  /\ dropped \subseteq Run /\ bound \in {"none", "resetting", "active"}

ProcessOK ==
  /\ active \in 0..Len(runs)
  /\ turn \in [Run -> Turns] /\ fate \in [Run -> Fates] /\ queue \in [Run -> Seq(Ops)]

\* A new process has no turns until it has reconciled the runs of the one before.
FreshOK ==
  /\ route.at \in {"reconcile", "closing"} => route.fresh
  /\ route.fresh => /\ route.at \in {"off", "restore", "reconcile", "closing"} /\ active = 0
                    /\ \A r \in Run : turn[r] = "none" /\ queue[r] = <<>>

NoMove(q)    == \A i \in 1..Len(q) : q[i] # "move"
MoveFirst(q) == q # <<>> /\ Head(q) = "move" /\ NoMove(Tail(q))

\* A live turn is that of the active run, and nothing but a move waits to be written of it.
RunTurn(r) ==
  /\ turn[r] = "live" => active = r /\ queue[r] \in {<<>>, <<"move">>}
  /\ fate[r] \in Late => turn[r] # "live"
  /\ IF work.step = "move" /\ work.run = r THEN MoveFirst(queue[r]) ELSE NoMove(queue[r])

TurnsOK ==
  /\ \A r \in Run : RunTurn(r)
  /\ work.step \in {"prepare", "launch", "replace"} => \A r \in Run : turn[r] # "live"
  /\ work.step \in {"steer", "move", "await"} => active \in {0, work.run}
  /\ work.step = "launch" => /\ turn[work.run] = "none" /\ fate[work.run] = "none"
                             /\ queue[work.run] = <<>> /\ active # work.run

Running(r) == runs[r].status = "running"

\* One run at most is running, and it is the active one or the one at work.
RunsOK ==
  \A r \in Run : Running(r) =>
    /\ \A x \in Run : Running(x) => x = r
    /\ work.step # "prepare"
    /\ work.step \in {"launch", "failing", "replace"} => r = work.run
    /\ work.step \notin {"launch", "failing"} /\ active # 0 => r = active

\* Runs that go on are running in the table too, unless something has closed them there; what a
\* session sends of a run that nobody works on belongs in the response of that run.
ShownOK ==
  /\ \A r \in Run : turn[r] = "live" \/ (work.step \in {"launch", "move"} /\ work.run = r)
                      => Running(r) \/ r \in dropped
  /\ \A out \in recovery : out.run \notin dropped =>
       /\ out.response = runs[out.run].response
       /\ work.run # out.run /\ active # out.run

Process ==
  /\ TablesOK /\ ProcessOK /\ FreshOK /\ TurnsOK /\ RunsOK /\ ShownOK
  /\ PlaceholdersHaveRuns

-----------------------------------------------------------------------------
(* Responses and writes *)

\* What a write leaves of a queue, and what another one adds to it.
LEMMA QueueFacts ==
  ASSUME NEW q \in Seq(Ops)
  PROVE  /\ NoMove(q) /\ q # <<>> => Head(q) # "move"
         /\ q # <<>> => Tail(q) \in Seq(Ops) /\ (NoMove(q) => NoMove(Tail(q)))
         /\ \A op \in Ops :
              /\ Append(q, op) \in Seq(Ops) /\ Append(q, op) # <<>>
              /\ op # "move" /\ NoMove(q) => NoMove(Append(q, op))
              /\ op # "move" /\ MoveFirst(q) => MoveFirst(Append(q, op))
<1>1. ASSUME q # <<>>
      PROVE  /\ Tail(q) \in Seq(Ops) /\ Head(q) = q[1] /\ 1 \in 1..Len(q)
             /\ Len(Tail(q)) = Len(q) - 1 /\ \A i \in 1..Len(Tail(q)) : Tail(q)[i] = q[i + 1]
  BY <1>1, HeadTailProperties, EmptySeq
<1>2. Len(q) \in Nat
  BY LenProperties
<1>3. ASSUME q # <<>>, NoMove(q) PROVE Head(q) # "move" /\ NoMove(Tail(q))
  <2>1. \A i \in 1..Len(Tail(q)) : i + 1 \in 1..Len(q)
    BY <1>1, <1>2, <1>3
  <2>2. QED
    BY <1>1, <1>3, <2>1 DEF NoMove
<1>4. ASSUME NEW s \in Seq(Ops), NEW op \in Ops, op # "move", NoMove(s)
      PROVE  NoMove(Append(s, op))
  <2>1. /\ Len(s) \in Nat /\ Len(Append(s, op)) = Len(s) + 1
        /\ \A i \in 1..Len(s) : Append(s, op)[i] = s[i]
        /\ Append(s, op)[Len(s) + 1] = op
    BY AppendProperties, LenProperties
  <2>2. QED
    BY <1>4, <2>1 DEF NoMove
<1>5. ASSUME NEW op \in Ops, op # "move", MoveFirst(q)
      PROVE  MoveFirst(Append(q, op))
  <2>1. Head(Append(q, op)) = Head(q) /\ Tail(Append(q, op)) = Append(Tail(q), op)
        /\ Append(q, op) # <<>>
    BY <1>5, HeadTailAppend, AppendProperties DEF MoveFirst
  <2>2. QED
    BY <1>1, <1>4, <1>5, <2>1 DEF MoveFirst
<1>6. QED
  BY <1>1, <1>3, <1>4, <1>5, AppendProperties

\* A queue that holds nothing, and one that a follow-up has just asked to move.
LEMMA MoveFacts ==
  /\ <<>> \in Seq(Ops) /\ NoMove(<<>>)
  /\ Append(<<>>, "move") = <<"move">> /\ <<"move">> \in Seq(Ops) /\ MoveFirst(<<"move">>)
  /\ ~NoMove(<<"move">>)
<1>1. "move" \in Ops /\ <<>> \in Seq(Ops) /\ Len(<<>>) = 0
  BY EmptySeq DEF Ops
<1>2. Append(<<>>, "move") = <<"move">> /\ <<"move">> \in Seq(Ops)
  BY <1>1, AppendProperties
<1>3. Head(<<"move">>) = "move" /\ Tail(<<"move">>) = <<>> /\ <<"move">> # <<>>
      /\ Len(<<"move">>) = 1
  OBVIOUS
<1>4. QED
  BY <1>1, <1>2, <1>3 DEF NoMove, MoveFirst

\* Ending a run and writing its response.
LEMMA EndsShows ==
  ASSUME TablesOK, NEW r \in Run, NEW s \in Ended, NEW i \in 1..Len(responses),
         NEW x \in Shown \ {"working"}, runs' = Ends(r, s), responses' = Show(i, x)
  PROVE  /\ runs' \in Seq(Row) /\ Len(runs') = Len(runs) /\ Run' = Run
         /\ \A q \in Run : /\ runs'[q].response = runs[q].response
                           /\ runs'[q].status = IF q = r THEN s ELSE runs[q].status
         /\ responses' \in Seq(Shown) /\ Len(responses') = Len(responses)
         /\ \A j \in 1..Len(responses) : responses'[j] = "working"
                                           => j # i /\ responses[j] = "working"
<1>1. /\ runs \in Seq(Row) /\ responses \in Seq(Shown) /\ r \in 1..Len(runs)
      /\ \A q \in Run : runs[q] \in Row
  BY ElementOfSeq DEF TablesOK, Run
<1>2. s \in Ended \cup {"running"} /\ [runs[r] EXCEPT !.status = s] \in Row
  BY <1>1 DEF Row
<1> DEFINE row == [runs[r] EXCEPT !.status = s]
           new == IF responses[i] = "gone" THEN "gone" ELSE x
<1>3. row \in Row /\ row.response = runs[r].response /\ row.status = s
  BY <1>1, <1>2 DEF Row
<1>4. new \in Shown /\ new # "working"
  BY DEF Shown
<1>5. runs' = [runs EXCEPT ![r] = row] /\ responses' = [responses EXCEPT ![i] = new]
  BY DEF Ends, Show
<1> HIDE DEF row, new
<1>6. /\ runs' \in Seq(Row) /\ Len(runs') = Len(runs)
      /\ \A q \in 1..Len(runs) : runs'[q] = IF q = r THEN row ELSE runs[q]
  BY <1>1, <1>3, <1>5, ExceptSeq
<1>7. /\ responses' \in Seq(Shown) /\ Len(responses') = Len(responses)
      /\ \A j \in 1..Len(responses) : responses'[j] = IF j = i THEN new ELSE responses[j]
  BY <1>1, <1>4, <1>5, ExceptSeq
<1>8. QED
  BY <1>3, <1>4, <1>6, <1>7 DEF Run

-----------------------------------------------------------------------------
(* Steps that leave the runs alone *)

\* Everything the proofs keep of a state.
ChatInv == Messages /\ Process

\* Unless something is written, there are as many runs and responses as before.
LEMMA GrowsKept ==
  ASSUME TablesOK, UNCHANGED <<runs, responses>>
  PROVE  Grows
  BY LenProperties DEF TablesOK, Grows

\* What goes on beside a process that has reconciled does not make it a new one.
LEMMA FreshKept ==
  ASSUME FreshOK, route \in Route, ~route.fresh,
         \/ UNCHANGED route
         \/ \E m : Leave(m)
         \/ Offline
  PROVE  FreshOK'
  BY DEF FreshOK, Route, Leave, Offline

\* A message is at work, or is there to be taken, only once the process has reconciled.
LEMMA AtWork ==
  ASSUME ChatInv, work.step # "idle" \/ Incoming[1] # 0
  PROVE  ~route.fresh /\ FreshOK /\ route \in Route
<1>1. route.at \in {"catchup", "stream"}
  BY DEF ChatInv, Messages, RouteOK, Incoming
<1>2. QED
  BY <1>1 DEF ChatInv, Process, FreshOK, Messages, RouteOK

\* A step that changes no run, but perhaps the message at work.
LEMMA ProcessKept ==
  ASSUME Process, FreshOK',
         UNCHANGED <<runs, bound, recovery, responses, dropped, active, turn, fate, queue>>,
         \/ work' = work
         \/ /\ work.step \notin {"launch", "failing", "move"}
            /\ work'.step \in {"idle", "new", "steer", "await"}
            /\ work'.run \in {0, work.run, active}
            /\ work'.step \in {"steer", "await"} => active \in {0, work'.run}
  PROVE  Process'
<1> USE DEF Process
<1>1. TablesOK' /\ ProcessOK' /\ PlaceholdersHaveRuns'
  BY DEF TablesOK, ProcessOK, PlaceholdersHaveRuns, Run
<1>2. TurnsOK'
  BY DEF TurnsOK, RunTurn, Run
<1>3. RunsOK'
  BY DEF RunsOK, Running, Run
<1>4. ShownOK'
  <2>1. \A out \in recovery : out.run # 0
    BY LenProperties DEF TablesOK, Run
  <2>2. CASE work' = work
    BY <2>2 DEF ShownOK, Running, Run
  <2>3. CASE work'.step \in {"idle", "new", "steer", "await"} /\ work'.run \in {0, work.run, active}
    BY <2>1, <2>3 DEF ShownOK, Running, Run
  <2>4. QED
    BY <2>2, <2>3
<1>5. QED
  BY <1>1, <1>2, <1>3, <1>4

\* The chat, and what a route does between two messages.
LEMMA RouteSteps ==
  ASSUME ChatInv,
         \/ Post \/ (\E m \in Message : EditMessage(m))
         \/ Connect \/ Restore \/ Reconcile \/ List \/ OpenStream \/ Resync \/ Disconnect \/ Stop
  PROVE  ChatInv'
<1> USE DEF ChatInv
<1>1. UNCHANGED <<runs, bound, recovery, responses, dropped, active, turn, fate, queue, work>>
  BY DEF Post, EditMessage, Connect, Restore, Reconcile, List, OpenStream, Resync, Disconnect, Stop,
         OnlyRoute, chat, table
<1>2. Grows /\ Run' = Run
  BY <1>1, GrowsKept DEF Process, Run
<1>3. CASE Post \/ \E m \in Message : EditMessage(m)
  <2>1. route' = route
    BY <1>3 DEF Post, EditMessage
  <2>2. FreshOK'
    BY <1>1, <1>2, <2>1 DEF Process, FreshOK
  <2>3. QED
    BY <1>1, <1>2, <1>3, <2>2, ChatSteps, ProcessKept
<1>4. CASE Connect
  <2>1. route' = [route EXCEPT !.at = "restore"] /\ route \in Route
    BY <1>4 DEF Connect, Messages, RouteOK
  <2>2. FreshOK'
    BY <1>1, <1>2, <2>1 DEF Process, FreshOK, Route
  <2>3. QED
    BY <1>1, <1>2, <1>4, <2>2, ConnectKeeps, ProcessKept
<1>5. CASE List
  <2>1. /\ route.at = "catchup" /\ route \in Route /\ route'.fresh = route.fresh
        /\ route'.at \in {"catchup", "opening"}
    BY <1>5 DEF List, Messages, RouteOK, Route
  <2>2. FreshOK'
    BY <1>1, <1>2, <2>1 DEF Process, FreshOK, Route
  <2>3. QED
    BY <1>1, <1>2, <1>5, <2>2, ListKeeps, ProcessKept
<1>6. CASE Disconnect
  <2>1. Offline /\ route \in Route /\ work = NoWork
        /\ UNCHANGED <<kind, version, cursor, handled, given, excused>>
    BY <1>6 DEF Disconnect, Messages, RouteOK, OnlyRoute, chat, Idle
  <2>2. Clears
    BY <1>1, <2>1, EmptySeq DEF Clears, Offline, Route, Places
  <2>3. Moves
    BY <1>6, TroubleMoves DEF Disconnect, Messages
  <2>4. FreshOK'
    BY <1>1, <1>2, <2>1 DEF Process, FreshOK, Route, Offline
  <2>5. QED
    BY <1>1, <1>2, <2>1, <2>2, <2>3, <2>4, ClearsKeeps, ProcessKept
<1>7. CASE Restore \/ Reconcile \/ OpenStream \/ Resync \/ Stop
  <2>1. UNCHANGED <<kind, version, cursor, handled, events, given, excused>> /\ route \in Route
    BY <1>7 DEF Restore, Reconcile, OpenStream, Resync, Stop, OnlyRoute, chat, table, Messages,
         RouteOK
  <2>2. Moves
    BY <1>7, TroubleMoves DEF Restore, Reconcile, OpenStream, Resync, Stop, Messages, Misses
  <2>3. /\ route' \in Route /\ route'.batch = route.batch
        /\ route'.at = "off" => route.at = "off"
        /\ route.at = "off" => route'.at = "off"
        /\ route'.open => route.open \/ route'.at # "off"
        /\ route'.at = route.at \/ (work.step = "idle" /\ route.batch = <<>>)
    <3>1. CASE Restore
      BY <2>1, <3>1 DEF Restore, Route, Places, Messages, RouteOK
    <3>2. CASE Reconcile
      BY <2>1, <3>2 DEF Reconcile, Route, Places, Messages, RouteOK
    <3>3. CASE OpenStream
      BY <2>1, <3>3 DEF OpenStream, Route, Places, Messages, RouteOK
    <3>4. CASE Resync
      BY <2>1, <3>4 DEF Resync, Route, Places, Messages, RouteOK, Idle, NoWork
    <3>5. CASE Stop
      BY <2>1, <3>5 DEF Stop, Route, Places
    <3>6. QED
      BY <1>7, <3>1, <3>2, <3>3, <3>4, <3>5
  <2>4. Messages'
    BY <1>1, <1>2, <2>1, <2>2, <2>3, MessagesKept DEF Messages, RouteOK
  <2>5. FreshOK'
    BY <1>1, <1>2, <1>7, <2>1
    DEF Process, FreshOK, Route, Restore, Reconcile, OpenStream, Resync, Stop
  <2>6. QED
    BY <1>1, <2>4, <2>5, ProcessKept
<1>8. QED
  BY <1>3, <1>4, <1>5, <1>6, <1>7

-----------------------------------------------------------------------------
(* Steps of a run: its turn, its completion, its writes *)

\* A run that has a turn or a write, or that is active, is one of a process that has reconciled.
LEMMA NotFresh ==
  ASSUME ChatInv,
         active # 0 \/ \E r \in Run : turn[r] # "none" \/ queue[r] # <<>>
  PROVE  ~route.fresh /\ FreshOK /\ route \in Route
  BY DEF ChatInv, Process, FreshOK, Messages, RouteOK

\* A write that waits first is a move exactly when the message at work waits for it.
LEMMA FirstWrite ==
  ASSUME ChatInv, NEW r \in Run, NEW op, Next1(r, op)
  PROVE  /\ queue[r] \in Seq(Ops) /\ queue[r] # <<>> /\ Head(queue[r]) = op
         /\ Tail(queue[r]) \in Seq(Ops) /\ NoMove(Tail(queue[r]))
         /\ op = "move" <=> (work.step = "move" /\ work.run = r)
         /\ op # "move" => turn[r] # "live"
         /\ work.step = "launch" => work.run # r
<1>1. /\ queue[r] \in Seq(Ops) /\ queue[r] # <<>> /\ Head(queue[r]) = op
      /\ RunTurn(r)
  BY DEF ChatInv, Process, ProcessOK, TurnsOK, Next1
<1>2. CASE work.step = "move" /\ work.run = r
  <2>1. MoveFirst(queue[r])
    BY <1>1, <1>2 DEF RunTurn
  <2>2. op = "move" /\ NoMove(Tail(queue[r])) /\ Tail(queue[r]) \in Seq(Ops)
    BY <1>1, <2>1, QueueFacts DEF MoveFirst
  <2>3. QED
    BY <1>1, <1>2, <2>2
<1>3. CASE ~(work.step = "move" /\ work.run = r)
  <2>1. NoMove(queue[r])
    BY <1>1, <1>3 DEF RunTurn
  <2>2. op # "move" /\ NoMove(Tail(queue[r])) /\ Tail(queue[r]) \in Seq(Ops)
    BY <1>1, <2>1, QueueFacts
  <2>3. queue[r] # <<"move">>
    BY <2>1, MoveFacts
  <2>4. turn[r] # "live"
    BY <1>1, <2>3 DEF RunTurn
  <2>5. work.step = "launch" => work.run # r
    BY <1>1 DEF ChatInv, Process, TurnsOK
  <2>6. QED
    BY <1>1, <1>3, <2>2, <2>4, <2>5
<1>4. QED
  BY <1>2, <1>3

\* A step of one run, which starts no turn.
LEMMA RunChanges ==
  ASSUME ChatInv, NEW r \in Run, Len(runs') = Len(runs),
         NEW t \in Turns, NEW f \in Fates, NEW q \in Seq(Ops),
         turn' = [turn EXCEPT ![r] = t], fate' = [fate EXCEPT ![r] = f],
         queue' = [queue EXCEPT ![r] = q],
         active' = active \/ (active = r /\ active' = 0),
         t = "live" => turn[r] = "live" /\ active' = r /\ q \in {<<>>, <<"move">>},
         f \in Late => t # "live",
         IF work'.step = "move" /\ work'.run = r THEN MoveFirst(q) ELSE NoMove(q),
         \/ work' = work /\ (work.step = "launch" => work.run # r)
         \/ /\ work'.step \in {"idle", "failing", "prepare", "await", "replace"}
            /\ work.step = "move" => work.run = r
            /\ work'.step = "prepare" => work.step = "replace"
            /\ work'.step = "replace" => active = r /\ t # "live"
            /\ work'.step = "await" => active' \in {0, work'.run}
  PROVE  /\ ProcessOK' /\ TurnsOK' /\ active' \in {0, active}
         /\ \A x \in Run : turn'[x] = "live" => turn[x] = "live"
<1>1. Run' = Run /\ active \in 0..Len(runs) /\ Len(runs) \in Nat
  BY LenProperties DEF Run, ChatInv, Process, ProcessOK, TablesOK
<1>2. \A x \in Run : /\ turn'[x] = IF x = r THEN t ELSE turn[x]
                     /\ fate'[x] = IF x = r THEN f ELSE fate[x]
                     /\ queue'[x] = IF x = r THEN q ELSE queue[x]
  BY DEF ChatInv, Process, ProcessOK
<1>3. ProcessOK'
  BY <1>1 DEF ChatInv, Process, ProcessOK
<1>4. ASSUME NEW x \in Run PROVE RunTurn(x)'
  <2>1. RunTurn(x)
    BY DEF ChatInv, Process, TurnsOK
  <2>2. CASE x = r
    BY <1>2, <2>2 DEF RunTurn
  <2>3. CASE x # r
    BY <1>2, <2>1, <2>3 DEF RunTurn
  <2>4. QED
    BY <2>2, <2>3
<1>5. \A x \in Run : turn'[x] = "live" => turn[x] = "live"
  BY <1>2
<1>6. work.step = "launch" => work.run # 0 /\ work.run \in 0..Len(runs)
  BY DEF ChatInv, Messages, WorkOK, OnRun
<1>7. TurnsOK'
  <2>1. CASE work' = work /\ (work.step = "launch" => work.run # r)
    <3>1. work.step = "launch" => work.run \in Run
      BY <1>1, <1>6 DEF Run
    <3>2. QED
      BY <1>1, <1>2, <1>4, <1>5, <1>6, <2>1, <3>1 DEF ChatInv, Process, TurnsOK
  <2>2. CASE /\ work'.step \in {"idle", "failing", "prepare", "await", "replace"}
             /\ work'.step = "prepare" => work.step = "replace"
             /\ work'.step = "replace" => active = r /\ t # "live"
             /\ work'.step = "await" => active' \in {0, work'.run}
    <3>1. \A x \in Run : turn[x] = "live" => active = x
      BY DEF ChatInv, Process, TurnsOK, RunTurn
    <3>2. QED
      BY <1>1, <1>2, <1>4, <1>5, <2>2, <3>1 DEF ChatInv, Process, TurnsOK
  <2>3. QED
    BY <2>1, <2>2
<1>8. QED
  BY <1>3, <1>5, <1>7

\* A run that ends takes its response with it.
LEMMA EndKeeps ==
  ASSUME ChatInv, NEW r \in Run, NEW s \in Ended, NEW i \in 1..Len(responses),
         NEW x \in Shown \ {"working"}, runs' = Ends(r, s), responses' = Show(i, x),
         i = runs[r].response \/ r \in dropped,
         UNCHANGED <<bound, dropped>>, recovery' \subseteq recovery,
         ProcessOK', FreshOK', TurnsOK', active' \in {0, active},
         \A q \in Run : turn'[q] = "live" => turn[q] = "live",
         \/ r \in dropped
         \/ turn[r] # "live" /\ ~(work.step \in {"launch", "move"} /\ work.run = r),
         \/ work' = work
         \/ /\ work.run = r /\ work.step \in {"failing", "replace"}
            /\ work'.step \in {"idle", "prepare"} /\ work'.run = 0
  PROVE  Process' /\ Grows
<1> USE DEF ChatInv, Process
<1>1. /\ runs' \in Seq(Row) /\ Len(runs') = Len(runs) /\ Run' = Run
      /\ \A q \in Run : /\ runs'[q].response = runs[q].response
                        /\ runs'[q].status = IF q = r THEN s ELSE runs[q].status
      /\ responses' \in Seq(Shown) /\ Len(responses') = Len(responses)
      /\ \A j \in 1..Len(responses) : responses'[j] = "working" => j # i /\ responses[j] = "working"
  BY EndsShows
<1>2. Grows
  BY <1>1, LenProperties DEF TablesOK, Grows
<1>3. TablesOK'
  BY <1>1 DEF TablesOK
<1>4. s # "running" /\ \A q \in Run : Running(q)' <=> Running(q) /\ q # r
  BY <1>1 DEF Running, Ended
<1>5. PlaceholdersHaveRuns'
  <2>1. ASSUME NEW j \in 1..Len(responses), responses'[j] = "working"
        PROVE  \E q \in Run : runs'[q].response = j
               /\ (runs'[q].status = "running" \/ q \in dropped)
    <3>1. j # i /\ responses[j] = "working"
      BY <1>1, <2>1
    <3>2. PICK q \in Run : runs[q].response = j /\ (runs[q].status = "running" \/ q \in dropped)
      BY <3>1 DEF PlaceholdersHaveRuns
    <3>3. q # r \/ q \in dropped
      BY <3>1, <3>2
    <3>4. QED
      BY <1>1, <3>2, <3>3
  <2>2. QED
    BY <1>1, <2>1 DEF PlaceholdersHaveRuns
<1>6. RunsOK'
  <2>1. CASE work' = work
    BY <1>1, <1>4, <2>1 DEF RunsOK
  <2>2. CASE work.run = r /\ work.step \in {"failing", "replace"}
    <3>1. \A q \in Run : ~Running(q)'
      BY <1>4, <2>2 DEF RunsOK
    <3>2. QED
      BY <1>1, <3>1 DEF RunsOK
  <2>3. QED
    BY <2>1, <2>2
<1>7. ShownOK'
  <2>1. \A out \in recovery : out.run \in Run /\ out.run # 0
    BY LenProperties DEF TablesOK, Run
  <2>2. ASSUME NEW q \in Run,
               turn'[q] = "live" \/ (work'.step \in {"launch", "move"} /\ work'.run = q)
        PROVE  Running(q)' \/ q \in dropped
    <3>1. turn[q] = "live" \/ (work.step \in {"launch", "move"} /\ work.run = q)
      BY <2>2
    <3>2. Running(q) \/ q \in dropped
      BY <3>1 DEF ShownOK
    <3>3. q # r \/ q \in dropped
      BY <3>1
    <3>4. QED
      BY <1>4, <3>2, <3>3
  <2>3. ASSUME NEW out \in recovery, out.run \notin dropped
        PROVE  /\ out.response = runs'[out.run].response
               /\ work'.run # out.run /\ active' # out.run
    BY <1>1, <2>1, <2>3 DEF ShownOK
  <2>4. QED
    BY <1>1, <2>2, <2>3 DEF ShownOK
<1>8. QED
  BY <1>2, <1>3, <1>5, <1>6, <1>7

\* No response is working that was not, among those there were and any that are added.
NoneMoreWorking ==
  /\ responses' \in Seq(Shown) /\ Len(responses) <= Len(responses')
  /\ \A j \in 1..Len(responses') : responses'[j] = "working"
       => j \in 1..Len(responses) /\ responses[j] = "working"

\* So it is when a response is left alone, or gets a last text, and when one is added that nobody
\* knows of.
LEMMA NoneMore ==
  ASSUME ChatInv, NEW kept,
         \/ kept = responses
         \/ \E i \in 1..Len(responses), x \in Shown \ {"working"} : kept = Show(i, x),
         responses' \in {kept, Append(kept, "orphan")}
  PROVE  NoneMoreWorking
<1>1. /\ kept \in Seq(Shown) /\ Len(kept) = Len(responses) /\ Len(responses) \in Nat
      /\ \A j \in 1..Len(responses) : kept[j] = "working" => responses[j] = "working"
  <2>1. CASE kept = responses
    BY <2>1, LenProperties DEF ChatInv, Process, TablesOK
  <2>2. ASSUME NEW i \in 1..Len(responses), NEW x \in Shown \ {"working"}, kept = Show(i, x)
        PROVE  <1>1!:
    <3> DEFINE new == IF responses[i] = "gone" THEN "gone" ELSE x
    <3>1. new \in Shown /\ new # "working" /\ kept = [responses EXCEPT ![i] = new]
      BY <2>2 DEF Shown, Show
    <3> HIDE DEF new
    <3>2. QED
      BY <3>1, ExceptSeq, LenProperties DEF ChatInv, Process, TablesOK
  <2>3. QED
    BY <2>1, <2>2
<1>2. CASE responses' = kept
  BY <1>1, <1>2 DEF NoneMoreWorking
<1>3. CASE responses' = Append(kept, "orphan")
  <2>1. "orphan" \in Shown
    BY DEF Shown
  <2>2. /\ responses' \in Seq(Shown) /\ Len(responses') = Len(kept) + 1
        /\ \A j \in 1..Len(kept) : responses'[j] = kept[j]
        /\ responses'[Len(kept) + 1] = "orphan"
    BY <1>1, <1>3, <2>1, AppendProperties
  <2>3. QED
    BY <1>1, <2>2 DEF NoneMoreWorking
<1>4. QED
  BY <1>2, <1>3

\* Nothing is shown that was not.
LEMMA NoneMoreKept ==
  ASSUME ChatInv, UNCHANGED responses
  PROVE  NoneMoreWorking
  BY NoneMore

\* A step that closes no run, whatever it makes of a response.
LEMMA BesideKeeps ==
  ASSUME ChatInv, UNCHANGED <<runs, bound, recovery, dropped>>,
         NoneMoreWorking,
         ProcessOK', FreshOK', TurnsOK', active' \in {0, active},
         \A q \in Run : turn'[q] = "live" => turn[q] = "live",
         \/ work' = work
         \/ /\ work.step \notin {"launch", "failing"} /\ active # 0 /\ work'.run = active
            /\ work'.step \in {"failing", "replace"}
         \/ work'.step = "await" /\ work'.run = work.run /\ active' = 0
         \/ work.step = "launch" /\ work'.step = "failing" /\ work'.run = work.run
         \/ work.step \notin {"launch", "failing"} /\ work'.step = "idle" /\ work'.run = 0
  PROVE  Process' /\ Grows
<1> USE DEF ChatInv, Process
<1>1. /\ responses' \in Seq(Shown) /\ Len(responses) <= Len(responses')
      /\ Len(responses) \in Nat /\ Len(responses') \in Nat
      /\ \A j \in 1..Len(responses') : responses'[j] = "working"
           => j \in 1..Len(responses) /\ responses[j] = "working"
      /\ 1..Len(responses) \subseteq 1..Len(responses')
  <2>1. Len(responses) \in Nat /\ Len(responses') \in Nat
    BY LenProperties DEF TablesOK, NoneMoreWorking
  <2>2. QED
    BY <2>1 DEF NoneMoreWorking
<1>2. Grows /\ Run' = Run /\ Len(runs) \in Nat
  BY <1>1, LenProperties DEF TablesOK, Grows, Run
<1>3. TablesOK'
  BY <1>1, <1>2 DEF TablesOK
<1>4. PlaceholdersHaveRuns'
  BY <1>1, <1>2 DEF PlaceholdersHaveRuns
<1>5. RunsOK'
  BY <1>2 DEF RunsOK, Running
<1>6. ShownOK'
  <2>1. \A out \in recovery : out.run \in Run /\ out.run # 0
    BY <1>2 DEF TablesOK, Run
  <2>2. \A q \in Run : turn'[q] = "live" \/ (work'.step \in {"launch", "move"} /\ work'.run = q)
                         => Running(q) \/ q \in dropped
    BY DEF ShownOK
  <2>3. QED
    BY <1>2, <2>1, <2>2 DEF ShownOK, Running
<1>7. QED
  BY <1>2, <1>3, <1>4, <1>5, <1>6

\* The route does not notice what goes on beside it.
LEMMA Unnoticed ==
  ASSUME Messages, Moves, Grows,
         UNCHANGED <<kind, version, cursor, handled, work, events, given, excused, route>>
  PROVE  Messages'
<1>1. route \in Route /\ (route.open => route.at # "off") /\ (route.at # "off" => cursor # 0)
  BY DEF Messages, RouteOK
<1>2. QED
  BY <1>1, MessagesKept

\* The turn and the completion of a run, as they are.
LEMMA RunTypes ==
  ASSUME ChatInv, NEW r \in Run
  PROVE  /\ turn[r] \in Turns /\ fate[r] \in Fates /\ queue[r] \in Seq(Ops) /\ RunTurn(r)
         /\ turn = [turn EXCEPT ![r] = turn[r]] /\ fate = [fate EXCEPT ![r] = fate[r]]
         /\ queue = [queue EXCEPT ![r] = queue[r]]
         /\ runs[r].response \in 1..Len(responses) /\ r # 0 /\ r \in Nat
         /\ active \in 0..Len(runs) /\ (active # 0 => active \in Run)
<1>1. Len(runs) \in Nat
  BY LenProperties DEF ChatInv, Process, TablesOK
<1>2. QED
  BY <1>1 DEF ChatInv, Process, ProcessOK, TablesOK, TurnsOK, Run

\* The end of a turn, and its completion.
LEMMA TurnSteps ==
  ASSUME ChatInv, NEW r \in Run, TurnEnds(r) \/ Completes(r)
  PROVE  ChatInv'
<1>1. /\ UNCHANGED <<kind, version, cursor, handled, work, events, given, excused, route>>
      /\ UNCHANGED <<runs, bound, recovery, responses, dropped>>
  BY DEF TurnEnds, Completes, OnlyRun, Routed
<1>2. Moves /\ Grows /\ Len(runs') = Len(runs)
  BY <1>1, TroubleMoves, GrowsKept DEF ChatInv, Messages, Process, TurnEnds, Completes
<1>3. Messages'
  BY <1>1, <1>2, Unnoticed DEF ChatInv
<1>4. /\ turn[r] \in Turns /\ fate[r] \in Fates /\ queue[r] \in Seq(Ops) /\ RunTurn(r)
      /\ turn = [turn EXCEPT ![r] = turn[r]] /\ fate = [fate EXCEPT ![r] = fate[r]]
      /\ queue = [queue EXCEPT ![r] = queue[r]] /\ r # 0
  BY RunTypes
<1>5. turn[r] # "none" /\ work.step = "launch" => work.run # r
  BY DEF ChatInv, Process, TurnsOK
<1>6. turn[r] # "none"
  BY DEF TurnEnds, Completes
<1>7. FreshOK'
  BY <1>1, <1>6, NotFresh, FreshKept
<1>8. /\ ProcessOK' /\ TurnsOK' /\ active' \in {0, active}
      /\ \A x \in Run : turn'[x] = "live" => turn[x] = "live"
  <2>1. CASE TurnEnds(r)
    <3>1. PICK t \in {"ended", "broken"} : turn' = [turn EXCEPT ![r] = t]
      BY <2>1 DEF TurnEnds
    <3>2. fate' = fate /\ queue' = queue /\ active' = active /\ turn[r] = "live"
      BY <2>1 DEF TurnEnds
    <3>3. t \in Turns /\ t # "live"
      BY DEF Turns
    <3>4. IF work'.step = "move" /\ work'.run = r THEN MoveFirst(queue[r]) ELSE NoMove(queue[r])
      BY <1>1, <1>4 DEF RunTurn
    <3>5. QED
      BY <1>1, <1>2, <1>4, <1>5, <1>6, <3>1, <3>2, <3>3, <3>4, RunChanges
  <2>2. CASE Completes(r)
    <3>1. PICK f \in {"finishing", "failing"}, op \in {"finish", "fail"} :
            fate' = [fate EXCEPT ![r] = f] /\ queue' = [queue EXCEPT ![r] = Append(queue[r], op)]
      BY <1>4, <2>2 DEF Completes, Asked, ChatInv, Process, ProcessOK
    <3>2. /\ turn' = turn /\ turn[r] # "live" /\ f \in Fates
          /\ active' = active \/ (active = r /\ active' = 0)
      BY <2>2 DEF Completes, Done, Fates
    <3>3. op \in Ops /\ op # "move"
      BY DEF Ops
    <3>4. /\ Append(queue[r], op) \in Seq(Ops)
          /\ IF work'.step = "move" /\ work'.run = r
             THEN MoveFirst(Append(queue[r], op)) ELSE NoMove(Append(queue[r], op))
      BY <1>1, <1>4, <3>3, QueueFacts DEF RunTurn
    <3>5. QED
      BY <1>1, <1>2, <1>4, <1>5, <1>6, <3>1, <3>2, <3>4, RunChanges
  <2>3. QED
    BY <2>1, <2>2
<1>9. QED
  BY <1>1, <1>3, <1>7, <1>8, BesideKeeps, NoneMoreKept DEF ChatInv

\* What is written of a run that has ended: its answer, or nothing.
LEMMA FinishKeeps ==
  ASSUME ChatInv, NEW r \in Run, Finish(r)
  PROVE  ChatInv'
<1>1. /\ UNCHANGED <<kind, version, cursor, handled, work, events, given, excused, route>>
      /\ UNCHANGED <<bound, recovery, dropped, active, turn>> /\ Next1(r, "finish")
  BY DEF Finish, OnlyRun, Routed
<1>2. Moves
  BY TroubleMoves DEF ChatInv, Messages, Finish
<1>3. /\ queue[r] # <<>> /\ Tail(queue[r]) \in Seq(Ops) /\ NoMove(Tail(queue[r]))
      /\ ~(work.step = "move" /\ work.run = r) /\ turn[r] # "live"
      /\ work.step = "launch" => work.run # r
  BY <1>1, FirstWrite
<1>4. FreshOK'
  BY <1>1, <1>3, NotFresh, FreshKept
<1>5. /\ turn[r] \in Turns /\ turn = [turn EXCEPT ![r] = turn[r]]
      /\ runs[r].response \in 1..Len(responses)
  BY RunTypes
<1>6. ASSUME NEW f \in Fates, NEW q \in Seq(Ops), NoMove(q), Len(runs') = Len(runs),
             fate' = [fate EXCEPT ![r] = f], queue' = [queue EXCEPT ![r] = q]
      PROVE  /\ ProcessOK' /\ TurnsOK' /\ active' \in {0, active}
             /\ \A x \in Run : turn'[x] = "live" => turn[x] = "live"
  BY <1>1, <1>3, <1>5, <1>6, RunChanges
<1>7. ASSUME Written(r), fate' = [fate EXCEPT ![r] = "over"],
             NEW s \in {"done", "silent"}, NEW x \in {"answer", "gone"},
             runs' = Ends(r, s), responses' = Show(runs[r].response, x)
      PROVE  ChatInv'
  <2>2. s \in Ended /\ x \in Shown \ {"working"} /\ "over" \in Fates
    BY DEF Ended, Shown, Fates
  <2>3. Len(runs') = Len(runs)
    BY <1>5, <1>7, <2>2, EndsShows DEF ChatInv, Process
  <2>4. queue' = [queue EXCEPT ![r] = Tail(queue[r])]
    BY <1>7 DEF Written, ChatInv, Process, ProcessOK
  <2>5. /\ ProcessOK' /\ TurnsOK' /\ active' \in {0, active}
        /\ \A y \in Run : turn'[y] = "live" => turn[y] = "live"
    BY <1>3, <1>6, <1>7, <2>2, <2>3, <2>4
  <2>6. Process' /\ Grows
    BY <1>1, <1>3, <1>4, <1>5, <1>7, <2>2, <2>5, EndKeeps
  <2>7. QED
    BY <1>1, <1>2, <2>6, Unnoticed DEF ChatInv
<1>8. CASE /\ fate' = [fate EXCEPT ![r] = "failing"] /\ UNCHANGED <<runs, responses>>
           /\ queue' = [queue EXCEPT ![r] = Append(Tail(queue[r]), "fail")]
  <2>1. /\ Append(Tail(queue[r]), "fail") \in Seq(Ops) /\ NoMove(Append(Tail(queue[r]), "fail"))
        /\ "failing" \in Fates
    BY <1>3, QueueFacts DEF Ops, Fates
  <2>2. /\ ProcessOK' /\ TurnsOK' /\ active' \in {0, active}
        /\ \A y \in Run : turn'[y] = "live" => turn[y] = "live"
    BY <1>6, <1>8, <2>1
  <2>3. Process' /\ Grows
    BY <1>1, <1>4, <1>8, <2>2, BesideKeeps, NoneMoreKept
  <2>4. QED
    BY <1>1, <1>2, <2>3, Unnoticed DEF ChatInv
<1>9. \/ /\ Written(r) /\ fate' = [fate EXCEPT ![r] = "over"]
         /\ \E s \in {"done", "silent"}, x \in {"answer", "gone"} :
              runs' = Ends(r, s) /\ responses' = Show(runs[r].response, x)
      \/ /\ fate' = [fate EXCEPT ![r] = "failing"] /\ UNCHANGED <<runs, responses>>
         /\ queue' = [queue EXCEPT ![r] = Append(Tail(queue[r]), "fail")]
  <2>1. queue \in [Run -> Seq(Ops)]
    BY DEF ChatInv, Process, ProcessOK
  <2>2. QED
    BY <2>1 DEF Finish
<1>10. QED
  BY <1>7, <1>8, <1>9

\* The failure of a run is written: by its completion, or for the message at work.
LEMMA FailKeeps ==
  ASSUME ChatInv, NEW r \in Run, Fail(r)
  PROVE  ChatInv'
<1> DEFINE mine == At("failing") /\ work.run = r /\ fate[r] # "failing"
<1>1. /\ UNCHANGED <<kind, version, given, bound, recovery, dropped, turn>>
      /\ Next1(r, "fail") /\ Written(r) /\ runs' = Ends(r, "failed")
      /\ fate' = [fate EXCEPT ![r] = "over"] /\ active' = IF active = r THEN 0 ELSE active
      /\ IF mine THEN Handle(work.m, work.v) /\ Excuse(work.m, work.v)
         ELSE UNCHANGED <<cursor, handled, route, events, work, excused>>
  BY DEF Fail, OnlyRun, Done
<1>2. Moves
  BY TroubleMoves DEF ChatInv, Messages, Fail
<1>3. PICK x \in {"notice", "left"} : responses' = Show(runs[r].response, x)
  BY DEF Fail
<1>4. /\ queue[r] # <<>> /\ Tail(queue[r]) \in Seq(Ops) /\ NoMove(Tail(queue[r]))
      /\ ~(work.step = "move" /\ work.run = r) /\ turn[r] # "live"
      /\ work.step = "launch" => work.run # r
  BY <1>1, FirstWrite
<1>5. /\ turn[r] \in Turns /\ turn = [turn EXCEPT ![r] = turn[r]]
      /\ runs[r].response \in 1..Len(responses)
      /\ queue' = [queue EXCEPT ![r] = Tail(queue[r])]
  BY <1>1, RunTypes DEF Written, ChatInv, Process, ProcessOK
<1>6. x \in Shown \ {"working"} /\ "failed" \in Ended /\ "over" \in Fates
  BY DEF Shown, Ended, Fates
<1>7. work' = work \/ (mine /\ work' = NoWork)
  BY <1>1 DEF Handle, Leave
<1>8. FreshOK'
  <2>1. ~route.fresh /\ FreshOK /\ route \in Route
    BY <1>4, NotFresh
  <2>2. route' = route \/ \E m : Leave(m)
    BY <1>1 DEF Handle
  <2>3. QED
    BY <2>1, <2>2, FreshKept
<1>9. Len(runs') = Len(runs)
  BY <1>1, <1>3, <1>5, <1>6, EndsShows DEF ChatInv, Process
<1>10. /\ ProcessOK' /\ TurnsOK' /\ active' \in {0, active}
       /\ \A y \in Run : turn'[y] = "live" => turn[y] = "live"
  <2>1. \/ work' = work /\ (work.step = "launch" => work.run # r)
        \/ work'.step = "idle" /\ (work.step = "move" => work.run = r)
    BY <1>4, <1>7 DEF NoWork, At
  <2>2. IF work'.step = "move" /\ work'.run = r
        THEN MoveFirst(Tail(queue[r])) ELSE NoMove(Tail(queue[r]))
    BY <1>4, <1>7 DEF NoWork
  <2>3. active' = active \/ (active = r /\ active' = 0)
    BY <1>1
  <2>4. QED
    BY <1>1, <1>4, <1>5, <1>6, <1>9, <2>1, <2>2, <2>3, RunChanges
<1>11. Process' /\ Grows
  <2>1. \/ work' = work
        \/ /\ work.run = r /\ work.step \in {"failing", "replace"}
           /\ work'.step \in {"idle", "prepare"} /\ work'.run = 0
    BY <1>7 DEF NoWork, At
  <2>2. QED
    BY <1>1, <1>3, <1>4, <1>5, <1>6, <1>8, <1>10, <2>1, EndKeeps
<1>12. Messages'
  <2>1. CASE mine
    <3>1. Current(work.m, work.v)
      BY <2>1, WorkIsCurrent DEF At, ChatInv
    <3>2. QED
      BY <1>1, <1>2, <1>11, <2>1, <3>1, HandleKeeps DEF ChatInv
  <2>2. CASE ~mine
    BY <1>1, <1>2, <1>11, <2>2, Unnoticed DEF ChatInv
  <2>3. QED
    BY <2>1, <2>2
<1>13. QED
  BY <1>11, <1>12 DEF ChatInv

\* An interrupted run is written; a /new that waited for it goes on.
LEMMA InterruptKeeps ==
  ASSUME ChatInv, NEW r \in Run, Interrupt(r)
  PROVE  ChatInv'
<1> DEFINE waits == At("replace") /\ work.run = r
<1>1. /\ UNCHANGED <<kind, version, given, bound, recovery, active, turn, fate>>
      /\ Next1(r, "interrupt") /\ Written(r) /\ runs' = Ends(r, "cancelled")
      /\ IF waits
         THEN Await("prepare", work.m, work.v, 0, 0) /\ UNCHANGED <<dropped, excused>>
         ELSE UNCHANGED <<cursor, handled, route, events, work, excused, dropped>>
  BY DEF Interrupt, OnlyRun, Routed
<1>2. Moves
  BY TroubleMoves DEF ChatInv, Messages, Interrupt
<1>3. PICK x \in {"notice", "left"} : responses' = Show(runs[r].response, x)
  BY DEF Interrupt
<1>4. /\ queue[r] # <<>> /\ Tail(queue[r]) \in Seq(Ops) /\ NoMove(Tail(queue[r]))
      /\ ~(work.step = "move" /\ work.run = r) /\ turn[r] # "live"
      /\ work.step = "launch" => work.run # r
  BY <1>1, FirstWrite
<1>5. /\ turn[r] \in Turns /\ fate[r] \in Fates
      /\ turn' = [turn EXCEPT ![r] = turn[r]] /\ fate' = [fate EXCEPT ![r] = fate[r]]
      /\ runs[r].response \in 1..Len(responses)
      /\ queue' = [queue EXCEPT ![r] = Tail(queue[r])]
  BY <1>1, RunTypes DEF Written, ChatInv, Process, ProcessOK
<1>6. x \in Shown \ {"working"} /\ "cancelled" \in Ended
  BY DEF Shown, Ended
<1>7. /\ UNCHANGED <<route, cursor, handled, events, dropped, excused>>
      /\ \/ work' = work
         \/ waits /\ work'.step = "prepare" /\ work'.run = 0
  BY <1>1 DEF Await
<1>8. FreshOK'
  BY <1>4, <1>7, NotFresh, FreshKept
<1>9. Len(runs') = Len(runs)
  BY <1>1, <1>3, <1>5, <1>6, EndsShows DEF ChatInv, Process
<1>10. /\ ProcessOK' /\ TurnsOK' /\ active' \in {0, active}
       /\ \A y \in Run : turn'[y] = "live" => turn[y] = "live"
  <2>1. \/ work' = work /\ (work.step = "launch" => work.run # r)
        \/ work'.step = "prepare" /\ work.step = "replace"
    BY <1>4, <1>7 DEF At
  <2>2. IF work'.step = "move" /\ work'.run = r
        THEN MoveFirst(Tail(queue[r])) ELSE NoMove(Tail(queue[r]))
    BY <1>4, <1>7
  <2>3. QED
    BY <1>1, <1>4, <1>5, <1>9, <2>1, <2>2, RunChanges
<1>11. Process' /\ Grows
  <2>1. \/ work' = work
        \/ /\ work.run = r /\ work.step \in {"failing", "replace"}
           /\ work'.step \in {"idle", "prepare"} /\ work'.run = 0
    BY <1>7 DEF At
  <2>2. QED
    BY <1>1, <1>3, <1>4, <1>5, <1>6, <1>7, <1>8, <1>10, <2>1, EndKeeps
<1>12. Messages'
  <2>1. CASE waits
    <3>1. Current(work.m, work.v)
      BY <2>1, WorkIsCurrent DEF At, ChatInv
    <3>2. "prepare" \in Steps \ {"idle"} /\ "prepare" \notin OnRun
      BY DEF Steps, OnRun
    <3>3. 0 \in 0..Len(runs') /\ 0 \in 0..Len(responses')
      BY <1>11 DEF Grows
    <3>4. QED
      BY <1>1, <1>2, <1>11, <2>1, <3>1, <3>2, <3>3, AwaitKeeps DEF ChatInv
  <2>2. CASE ~waits
    BY <1>1, <1>2, <1>11, <2>2, Unnoticed DEF ChatInv
  <2>3. QED
    BY <2>1, <2>2
<1>13. QED
  BY <1>11, <1>12 DEF ChatInv

\* An output that reached nobody closes the run it belongs to.
LEMMA RecoverKeeps ==
  ASSUME ChatInv, Recover
  PROVE  ChatInv'
<1>1. PICK out \in recovery :
        /\ recovery' = recovery \ {out}
        /\ runs' = Ends(out.run, IF out.silent THEN "silent" ELSE "done")
        /\ responses' = Show(out.response, IF out.silent THEN "gone" ELSE "answer")
        /\ UNCHANGED <<kind, version, cursor, handled, bound, controls, memory, past>>
  BY DEF Recover
<1> DEFINE r == out.run
           i == out.response
<1>2. r \in Run /\ i \in 1..Len(responses)
  BY DEF ChatInv, Process, TablesOK
<1>3. PICK s \in Ended, x \in Shown \ {"working"} : runs' = Ends(r, s) /\ responses' = Show(i, x)
  BY <1>1 DEF Ended, Shown
<1>4. /\ UNCHANGED <<route, events, work, active, turn, fate, queue, trouble, given, excused,
           dropped>>
      /\ UNCHANGED <<kind, version, cursor, handled, bound>> /\ recovery' \subseteq recovery
  BY <1>1 DEF memory, past
<1>5. Moves
  BY <1>4, TroubleMoves DEF ChatInv, Messages
<1>6. \/ r \in dropped
      \/ i = runs[r].response /\ work.run # r /\ active # r
  BY DEF ChatInv, Process, ShownOK
<1>7. turn[r] = "live" => active = r
  BY <1>2 DEF ChatInv, Process, TurnsOK, RunTurn
<1> HIDE DEF r, i
<1>8. Len(runs') = Len(runs) /\ Run' = Run
  BY <1>2, <1>3, EndsShows DEF ChatInv, Process
<1>9. ProcessOK' /\ FreshOK' /\ TurnsOK'
  BY <1>4, <1>8 DEF ChatInv, Process, ProcessOK, FreshOK, TurnsOK, RunTurn
<1>10. Process' /\ Grows
  BY <1>2, <1>3, <1>4, <1>6, <1>7, <1>9, EndKeeps
<1>11. QED
  BY <1>4, <1>5, <1>10, Unnoticed DEF ChatInv

\* A run of the process before is closed with a notice.
LEMMA ReconcileEndsKeeps ==
  ASSUME ChatInv, ReconcileEnds
  PROVE  ChatInv'
<1>1. /\ route.at = "closing" /\ route' = [route EXCEPT !.at = "catchup", !.fresh = FALSE]
      /\ UNCHANGED <<kind, version, cursor, handled, bound, recovery, events, work, active, turn,
                     fate, queue, given, excused, dropped>>
  BY DEF ReconcileEnds
<1>2. PICK r \in Run, x \in {"notice", "left"} :
        /\ runs[r].status = "running" /\ runs' = Ends(r, "failed")
        /\ responses' = Show(runs[r].response, x)
  BY DEF ReconcileEnds, Interrupted
<1>3. Moves
  BY TroubleMoves DEF ChatInv, Messages, ReconcileEnds
<1>4. /\ route \in Route /\ route.batch = <<>> /\ work.step = "idle" /\ cursor # 0
      /\ active = 0 /\ \A q \in Run : turn[q] = "none" /\ queue[q] = <<>>
  BY <1>1 DEF ChatInv, Messages, RouteOK, Process, FreshOK
<1>5. "failed" \in Ended /\ x \in Shown \ {"working"}
  BY DEF Ended, Shown
<1>6. runs[r].response \in 1..Len(responses)
  BY RunTypes
<1>7. Len(runs') = Len(runs) /\ Run' = Run
  BY <1>2, <1>5, <1>6, EndsShows DEF ChatInv, Process
<1>8. route' \in Route /\ route'.at = "catchup" /\ route'.batch = route.batch /\ ~route'.fresh
  BY <1>1, <1>4 DEF Route, Places
<1>9. ProcessOK' /\ FreshOK' /\ TurnsOK'
  BY <1>1, <1>7, <1>8 DEF ChatInv, Process, ProcessOK, FreshOK, TurnsOK, RunTurn
<1>10. Process' /\ Grows
  BY <1>1, <1>2, <1>4, <1>5, <1>6, <1>9, EndKeeps
<1>11. Messages'
  BY <1>1, <1>3, <1>4, <1>8, <1>10, MessagesKept DEF ChatInv
<1>12. QED
  BY <1>10, <1>11 DEF ChatInv

\* A run is told to stop: what was to come of its completion does not.
LEMMA CancelFacts ==
  ASSUME ChatInv, NEW r \in Run, Cancel(r)
  PROVE  \E t \in Turns \ {"live"}, f \in Fates :
           turn' = [turn EXCEPT ![r] = t] /\ fate' = [fate EXCEPT ![r] = f]
<1>1. turn[r] \in Turns /\ fate[r] \in Fates
  BY RunTypes
<1> DEFINE t == IF turn[r] = "live" THEN "cancelled" ELSE turn[r]
           f == IF fate[r] \in {"none", "waiting"} THEN "over" ELSE fate[r]
<1>2. t \in Turns \ {"live"} /\ f \in Fates
  BY <1>1 DEF Turns, Fates
<1>3. turn' = [turn EXCEPT ![r] = t] /\ fate' = [fate EXCEPT ![r] = f]
  BY DEF Cancel
<1>4. QED
  BY <1>2, <1>3

\* The stop of the gateway and a /new tell the active run to stop.
LEMMA StopKeeps ==
  ASSUME ChatInv, StopCancels \/ (NewSession /\ active # 0)
  PROVE  ChatInv'
<1>1. /\ active # 0 /\ Cancel(active) /\ Asked(active, "interrupt")
      /\ UNCHANGED <<kind, version, runs, bound, recovery, responses, given, excused, dropped>>
      /\ UNCHANGED <<route, cursor, handled, events>>
      /\ \/ UNCHANGED <<work, active>>
         \/ At("new") /\ Await("replace", work.m, work.v, active, 0) /\ active' = 0
  BY DEF StopCancels, NewSession, Await, OnlyWork, chat, table
<1>2. Moves
  BY TroubleMoves DEF ChatInv, Messages, StopCancels, NewSession
<1>3. Grows /\ Len(runs') = Len(runs)
  BY <1>1, GrowsKept DEF ChatInv, Process
<1> DEFINE r == active
<1>4. /\ r \in Run /\ queue[r] \in Seq(Ops) /\ RunTurn(r)
      /\ work.step = "launch" => work.run # r
  <2>1. r \in Run
    BY <1>1, LenProperties DEF ChatInv, Process, ProcessOK, TablesOK, Run
  <2>2. QED
    BY <2>1, RunTypes DEF ChatInv, Process, TurnsOK
<1>5. PICK t \in Turns \ {"live"}, f \in Fates :
        turn' = [turn EXCEPT ![r] = t] /\ fate' = [fate EXCEPT ![r] = f]
  BY <1>1, <1>4, CancelFacts
<1> DEFINE q == Append(queue[r], "interrupt")
<1>6. "interrupt" \in Ops /\ "interrupt" # "move"
  BY DEF Ops
<1>7. /\ q \in Seq(Ops) /\ (NoMove(queue[r]) => NoMove(q))
      /\ (MoveFirst(queue[r]) => MoveFirst(q))
  BY <1>4, <1>6, QueueFacts
<1>8. queue' = [queue EXCEPT ![r] = q]
  BY <1>1, <1>4 DEF Asked, ChatInv, Process, ProcessOK
<1> HIDE DEF q
<1>9. IF work'.step = "move" /\ work'.run = r THEN MoveFirst(q) ELSE NoMove(q)
  BY <1>1, <1>4, <1>7 DEF RunTurn, At, Await
<1>10. FreshOK'
  BY <1>1, NotFresh, FreshKept
<1>11. \/ work' = work /\ (work.step = "launch" => work.run # r)
       \/ work.step = "new" /\ work'.step = "replace" /\ active = r /\ work'.run = r
  BY <1>1, <1>4 DEF At, Await
<1>12. /\ ProcessOK' /\ TurnsOK' /\ active' \in {0, active}
       /\ \A y \in Run : turn'[y] = "live" => turn[y] = "live"
  BY <1>1, <1>3, <1>4, <1>5, <1>7, <1>8, <1>9, <1>11, RunChanges
<1>13. Process'
  BY <1>1, <1>10, <1>11, <1>12, BesideKeeps, NoneMoreKept
<1>14. Messages'
  <2>1. CASE UNCHANGED <<work, active>>
    BY <1>1, <1>2, <1>3, <2>1, Unnoticed DEF ChatInv
  <2>2. CASE At("new") /\ Await("replace", work.m, work.v, active, 0)
    <3>1. Current(work.m, work.v)
      BY <2>2, WorkIsCurrent DEF At, ChatInv
    <3>2. "replace" \in Steps \ {"idle"}
      BY DEF Steps
    <3>3. active \in 0..Len(runs') /\ 0 \in 0..Len(responses')
      BY <1>3 DEF Grows, ChatInv, Process, ProcessOK
    <3>4. QED
      BY <1>1, <1>2, <1>3, <2>2, <3>1, <3>2, <3>3, AwaitKeeps DEF ChatInv
  <2>3. QED
    BY <1>1, <2>1, <2>2
<1>15. QED
  BY <1>13, <1>14 DEF ChatInv

-----------------------------------------------------------------------------
(* Follow-ups *)

\* A run that could not be steered is given up.
LEMMA SteerFailedKeeps ==
  ASSUME ChatInv, NEW r \in Run, NEW left \in Seq(Ops), NoMove(left), SteerFailed(r, left),
         work.step \in {"steer", "move"}, work.run = r, Moves,
         UNCHANGED <<kind, version, runs, bound, recovery, active, given, excused, dropped>>,
         NoneMoreWorking
  PROVE  ChatInv'
<1>1. /\ active = r /\ Cancel(r) /\ Await("failing", work.m, work.v, r, 0)
      /\ queue' = [queue EXCEPT ![r] = Append(left, "fail")]
      /\ work'.step = "failing" /\ work'.run = r /\ UNCHANGED <<route, cursor, handled, events>>
  BY DEF SteerFailed, Await
<1>2. PICK t \in Turns \ {"live"}, f \in Fates :
        turn' = [turn EXCEPT ![r] = t] /\ fate' = [fate EXCEPT ![r] = f]
  BY <1>1, CancelFacts
<1>3. Append(left, "fail") \in Seq(Ops) /\ NoMove(Append(left, "fail"))
  BY QueueFacts DEF Ops
<1>4. r # 0
  BY RunTypes
<1>5. FreshOK'
  BY <1>1, <1>4, NotFresh, FreshKept
<1>6. Len(runs') = Len(runs)
  OBVIOUS
<1>7. /\ ProcessOK' /\ TurnsOK' /\ active' \in {0, active}
      /\ \A y \in Run : turn'[y] = "live" => turn[y] = "live"
  BY <1>1, <1>2, <1>3, <1>6, RunChanges
<1>8. Process' /\ Grows
  BY <1>1, <1>4, <1>5, <1>7, BesideKeeps
<1>9. Messages'
  <2>1. Current(work.m, work.v)
    BY WorkIsCurrent DEF ChatInv
  <2>2. "failing" \in Steps \ {"idle"} /\ "failing" \notin {"observe", "move"}
    BY DEF Steps
  <2>3. r \in 0..Len(runs') /\ 0 \in 0..Len(responses')
    BY <1>1, <1>8 DEF Grows, ChatInv, Process, ProcessOK
  <2>4. QED
    BY <1>1, <1>4, <1>8, <2>1, <2>2, <2>3, AwaitKeeps DEF ChatInv
<1>10. QED
  BY <1>8, <1>9 DEF ChatInv

\* A follow-up reaches the active run, waits for its end, or fails with it.
LEMMA SteerKeeps ==
  ASSUME ChatInv, Steer
  PROVE  ChatInv'
<1> DEFINE r == work.run
<1>1. /\ work.step = "steer" /\ UNCHANGED <<kind, version, runs, bound, recovery, responses>>
      /\ UNCHANGED <<active, excused, dropped>>
  BY DEF Steer, At, OnlyWork
<1>2. Moves /\ Grows
  BY <1>1, TroubleMoves, GrowsKept DEF ChatInv, Messages, Process, Steer
<1>3. r \in Run /\ r # 0 /\ r \in 0..Len(runs) /\ work.m \in Message
  <2>1. r # 0 /\ r \in 0..Len(runs) /\ work.m \in Message
    BY <1>1 DEF ChatInv, Messages, WorkOK, OnRun
  <2>2. QED
    BY <2>1, LenProperties DEF ChatInv, Process, TablesOK, Run
<1>4. /\ RunTurn(r) /\ queue[r] \in Seq(Ops) /\ NoMove(queue[r])
      /\ active \in {0, r}
  <2>1. RunTurn(r) /\ queue[r] \in Seq(Ops)
    BY <1>3, RunTypes
  <2>2. QED
    BY <1>1, <2>1 DEF RunTurn, ChatInv, Process, TurnsOK
<1>5. Current(work.m, work.v)
  BY <1>1, WorkIsCurrent DEF ChatInv
<1>6. ~route.fresh /\ FreshOK /\ route \in Route
  BY <1>1, AtWork
<1>7. /\ r \in 0..Len(runs') /\ 0 \in 0..Len(responses')
      /\ {"await", "move"} \subseteq Steps \ {"idle"}
      /\ Run' = Run
  BY <1>1, <1>2, <1>3 DEF Grows, Steps, Run
<1> HIDE DEF r
<1>8. CASE /\ turn[r] = "live" /\ Give(work.m, work.v) /\ Asked(r, "move")
           /\ Await("move", work.m, work.v, r, 0) /\ UNCHANGED <<turn, fate>>
  <2>1. active = r /\ queue[r] = <<>>
    BY <1>4, <1>8, MoveFacts DEF RunTurn
  <2>2. queue' = [queue EXCEPT ![r] = <<"move">>]
    BY <1>8, <2>1, MoveFacts DEF Asked
  <2>3. /\ \A x \in Run : queue'[x] = IF x = r THEN <<"move">> ELSE queue[x]
        /\ queue' \in [Run -> Seq(Ops)]
    BY <1>3, <2>2, MoveFacts DEF ChatInv, Process, ProcessOK
  <2>4. /\ UNCHANGED <<cursor, handled, route, events>>
        /\ work'.step = "move" /\ work'.run = r
    BY <1>8 DEF Await
  <2>5. work.v \in given'[work.m]
    BY <1>3, <1>8 DEF Give, ChatInv, Messages, HeardOK
  <2>6. Messages'
    BY <1>1, <1>2, <1>3, <1>5, <1>7, <1>8, <2>5, AwaitKeeps DEF ChatInv
  <2>7. TablesOK' /\ ProcessOK' /\ PlaceholdersHaveRuns'
    BY <1>1, <1>7, <1>8, <2>3 DEF ChatInv, Process, TablesOK, ProcessOK, PlaceholdersHaveRuns
  <2>8. FreshOK'
    BY <1>6, <2>4 DEF FreshOK
  <2>9. TurnsOK'
    <3>1. ASSUME NEW x \in Run PROVE RunTurn(x)'
      <4>1. RunTurn(x)
        BY DEF ChatInv, Process, TurnsOK
      <4>2. CASE x = r
        BY <1>1, <1>8, <2>1, <2>3, <2>4, <4>1, <4>2, MoveFacts DEF RunTurn
      <4>3. CASE x # r
        BY <1>1, <1>8, <2>3, <2>4, <4>1, <4>3 DEF RunTurn
      <4>4. QED
        BY <4>2, <4>3
    <3>2. QED
      BY <1>1, <1>7, <2>1, <2>4, <3>1 DEF TurnsOK
  <2>10. RunsOK'
    BY <1>1, <1>3, <1>7, <2>1, <2>4 DEF ChatInv, Process, RunsOK, Running
  <2>11. ShownOK'
    <3>1. Running(r) \/ r \in dropped
      BY <1>3, <1>8 DEF ChatInv, Process, ShownOK
    <3>2. QED
      BY <1>1, <1>7, <1>8, <2>4, <3>1 DEF ChatInv, Process, ShownOK, Running, r
  <2>12. QED
    BY <2>6, <2>7, <2>8, <2>9, <2>10, <2>11 DEF ChatInv, Process
<1>9. CASE Await("await", work.m, work.v, r, 0) /\ UNCHANGED <<given, queue, turn, fate>>
  <2>1. UNCHANGED route /\ work'.step = "await" /\ work'.run = r
    BY <1>9 DEF Await
  <2>2. Messages'
    BY <1>1, <1>2, <1>3, <1>5, <1>7, <1>9, AwaitKeeps DEF ChatInv
  <2>3. FreshOK'
    BY <1>6, <2>1 DEF FreshOK
  <2>4. Process'
    BY <1>1, <1>4, <1>9, <2>1, <2>3, ProcessKept DEF ChatInv, r
  <2>5. QED
    BY <2>2, <2>4 DEF ChatInv
<1>10. CASE SteerFailed(r, queue[r]) /\ UNCHANGED given
  BY <1>1, <1>2, <1>3, <1>4, <1>10, SteerFailedKeeps, NoneMoreKept DEF r
<1>11. QED
  BY <1>8, <1>9, <1>10 DEF Steer, r

\* The response moves below the follow-up: the one it leaves is not working any more.
LEMMA MovedFacts ==
  ASSUME TablesOK, NEW r \in Run, NEW left \in {"gone", "answer"},
         responses' = Append(Left(runs[r].response, left), "working"),
         runs' = Responded(r, Len(responses) + 1)
  PROVE  /\ runs' \in Seq(Row) /\ Len(runs') = Len(runs) /\ Run' = Run /\ Grows
         /\ \A q \in Run :
              /\ runs'[q].response = IF q = r THEN Len(responses) + 1 ELSE runs[q].response
              /\ runs'[q].status = runs[q].status
         /\ responses' \in Seq(Shown) /\ Len(responses') = Len(responses) + 1
         /\ \A j \in 1..Len(responses) :
              responses'[j] = "working" => j # runs[r].response /\ responses[j] = "working"
<1> DEFINE n == Len(responses)
           old == runs[r].response
           base == Left(old, left)
           row == [runs[r] EXCEPT !.response = n + 1]
<1>1. /\ runs \in Seq(Row) /\ responses \in Seq(Shown) /\ old \in 1..n /\ n \in Nat
      /\ r \in 1..Len(runs) /\ runs[r] \in Row /\ Len(runs) \in Nat
  BY ElementOfSeq, LenProperties DEF TablesOK, Run
<1>2. row \in Row /\ row.response = n + 1 /\ row.status = runs[r].status
  <2> HIDE DEF n, old, base
  <2>1. n + 1 \in Nat /\ runs[r] \in Row
    BY <1>1
  <2>2. QED
    BY <2>1 DEF Row
<1>3. /\ base \in Seq(Shown) /\ Len(base) = n
      /\ \A j \in 1..n : base[j] = "working" => j # old /\ responses[j] = "working"
  <2>1. CASE responses[old] = "working"
    <3>1. base = [responses EXCEPT ![old] = left] /\ left \in Shown /\ left # "working"
      BY <2>1 DEF Left, Show, Shown
    <3> HIDE DEF base
    <3>2. QED
      BY <1>1, <3>1, ExceptSeq
  <2>2. CASE responses[old] # "working"
    BY <1>1, <2>2 DEF Left
  <2>3. QED
    BY <2>1, <2>2
<1>4. responses' = Append(base, "working") /\ "working" \in Shown
  BY DEF Shown
<1> HIDE DEF base
<1>5. /\ responses' \in Seq(Shown) /\ Len(responses') = n + 1
      /\ \A j \in 1..n : responses'[j] = base[j]
  <2>1. /\ Append(base, "working") \in Seq(Shown) /\ Len(Append(base, "working")) = Len(base) + 1
        /\ \A j \in 1..Len(base) : Append(base, "working")[j] = base[j]
    BY <1>3, <1>4, AppendProperties
  <2>2. QED
    BY <1>3, <1>4, <2>1
<1>6. runs' = [runs EXCEPT ![r] = row]
  BY DEF Responded
<1> HIDE DEF row
<1>7. /\ runs' \in Seq(Row) /\ Len(runs') = Len(runs)
      /\ \A q \in 1..Len(runs) : runs'[q] = IF q = r THEN row ELSE runs[q]
  <2>1. /\ [runs EXCEPT ![r] = row] \in Seq(Row) /\ Len([runs EXCEPT ![r] = row]) = Len(runs)
        /\ \A q \in 1..Len(runs) : [runs EXCEPT ![r] = row][q] = IF q = r THEN row ELSE runs[q]
    BY <1>1, <1>2, ExceptSeq
  <2>2. QED
    BY <1>6, <2>1
<1>8. Grows
  BY <1>1, <1>5, <1>7 DEF Grows
<1>9. QED
  BY <1>2, <1>3, <1>5, <1>7, <1>8 DEF Run

\* The response of a run that a follow-up reached.
LEMMA MoveKeeps ==
  ASSUME ChatInv, NEW r \in Run, Move(r)
  PROVE  ChatInv'
<1> DEFINE old == runs[r].response
           new == Len(responses) + 1
<1>1. /\ Next1(r, "move") /\ UNCHANGED <<kind, version, given, bound, recovery, excused, dropped>>
      /\ UNCHANGED active
  BY DEF Move, OnlyRun
<1>2. Moves
  BY TroubleMoves DEF ChatInv, Messages, Move
<1>3. /\ queue[r] # <<>> /\ Tail(queue[r]) \in Seq(Ops) /\ NoMove(Tail(queue[r]))
      /\ work.step = "move" /\ work.run = r
  BY <1>1, FirstWrite
<1>4. /\ turn[r] \in Turns /\ fate[r] \in Fates /\ RunTurn(r)
      /\ turn = [turn EXCEPT ![r] = turn[r]] /\ fate = [fate EXCEPT ![r] = fate[r]]
      /\ old \in 1..Len(responses) /\ r # 0
  BY RunTypes
<1>5. /\ Current(work.m, work.v) /\ work.v \in given[work.m] /\ active \in {0, r}
      /\ ~route.fresh /\ FreshOK /\ route \in Route
  BY <1>3, WorkIsCurrent, AtWork DEF ChatInv, Messages, HeardOK, Process, TurnsOK
<1>6. r \in 0..Len(runs) /\ 0 \in 0..Len(responses)
  BY <1>3 DEF ChatInv, Messages, WorkOK, Process, TablesOK
<1>7. "await" \in Steps \ {"idle"} /\ "await" \notin {"observe", "move"}
  BY DEF Steps
<1>8. Written(r) => queue' = [queue EXCEPT ![r] = Tail(queue[r])]
  BY DEF Written, ChatInv, Process, ProcessOK
<1>9. ASSUME Written(r), UNCHANGED <<turn, fate>>, Len(runs') = Len(runs),
             \/ work'.step = "idle"
             \/ work'.step = "await" /\ active' \in {0, work'.run}
      PROVE  ProcessOK' /\ TurnsOK' /\ \A y \in Run : turn'[y] = "live" => turn[y] = "live"
  <2>1. turn[r] = "live" => active' = r /\ Tail(queue[r]) \in {<<>>, <<"move">>}
    <3>1. queue[r] = <<"move">> => Tail(queue[r]) = <<>>
      OBVIOUS
    <3>2. QED
      BY <1>1, <1>3, <1>4, <3>1 DEF RunTurn
  <2>2. /\ fate[r] \in Late => turn[r] # "live"
        /\ ~(work'.step = "move" /\ work'.run = r)
    BY <1>4, <1>9 DEF RunTurn
  <2>3. /\ turn' = [turn EXCEPT ![r] = turn[r]] /\ fate' = [fate EXCEPT ![r] = fate[r]]
        /\ queue' = [queue EXCEPT ![r] = Tail(queue[r])]
    BY <1>4, <1>8, <1>9
  <2>4. /\ active' = active
        /\ work'.step \in {"idle", "failing", "prepare", "await", "replace"}
        /\ work'.step \notin {"prepare", "replace", "move"}
        /\ work'.step = "await" => active' \in {0, work'.run}
    BY <1>1, <1>9
  <2>5. IF work'.step = "move" /\ work'.run = r
        THEN MoveFirst(Tail(queue[r])) ELSE NoMove(Tail(queue[r]))
    BY <1>3, <2>2
  <2>6. /\ work.step = "move" => work.run = r
        /\ work'.step = "prepare" => work.step = "replace"
        /\ work'.step = "replace" => active = r /\ turn[r] # "live"
        /\ Len(runs') = Len(runs)
    BY <1>3, <1>9, <2>4
  <2>7. PICK t \in Turns, f \in Fates, q \in Seq(Ops) :
          t = turn[r] /\ f = fate[r] /\ q = Tail(queue[r])
    BY <1>3, <1>4
  <2>8. /\ turn' = [turn EXCEPT ![r] = t] /\ fate' = [fate EXCEPT ![r] = f]
        /\ queue' = [queue EXCEPT ![r] = q]
        /\ t = "live" => turn[r] = "live" /\ active' = r /\ q \in {<<>>, <<"move">>}
        /\ f \in Late => t # "live"
        /\ IF work'.step = "move" /\ work'.run = r THEN MoveFirst(q) ELSE NoMove(q)
    BY <2>1, <2>2, <2>3, <2>5, <2>7
  <2>9. QED
    BY <2>4, <2>6, <2>8, RunChanges
<1>10. ASSUME Written(r), UNCHANGED <<turn, fate>>, NEW left \in {"gone", "answer"},
              responses' = Append(Left(old, left), "working"),
              runs' = Responded(r, new),
              IF active = r THEN Handle(work.m, work.v)
              ELSE Await("await", work.m, work.v, r, new)
       PROVE  ChatInv'
  <2>1. /\ runs' \in Seq(Row) /\ Len(runs') = Len(runs) /\ Run' = Run /\ Grows
        /\ \A q \in Run : /\ runs'[q].response = IF q = r THEN new ELSE runs[q].response
                          /\ runs'[q].status = runs[q].status
        /\ responses' \in Seq(Shown) /\ Len(responses') = new /\ Len(responses) \in Nat
        /\ \A j \in 1..Len(responses) :
             responses'[j] = "working" => j # old /\ responses[j] = "working"
    BY <1>10, MovedFacts DEF ChatInv, Process, Grows
  <2>2. Messages'
    <3>1. CASE active = r
      BY <1>1, <1>2, <1>5, <1>10, <2>1, <3>1, HandleKeeps DEF ChatInv
    <3>2. CASE active # r
      <4>1. r \in 0..Len(runs') /\ new \in 0..Len(responses')
        BY <1>6, <2>1
      <4> HIDE DEF new
      <4>2. QED
        BY <1>1, <1>2, <1>4, <1>5, <1>7, <1>10, <2>1, <3>2, <4>1, AwaitKeeps DEF ChatInv
    <3>3. QED
      BY <3>1, <3>2
  <2>3. \/ work'.step = "idle" /\ work'.run = 0
        \/ work'.step = "await" /\ work'.run = r /\ active' = 0
    BY <1>1, <1>5, <1>10 DEF Handle, Leave, NoWork, Await
  <2>4. ProcessOK' /\ TurnsOK' /\ \A y \in Run : turn'[y] = "live" => turn[y] = "live"
    BY <1>9, <1>10, <2>1, <2>3
  <2>5. FreshOK'
    <3>1. UNCHANGED route \/ \E m : Leave(m)
      BY <1>10 DEF Handle, Await
    <3>2. QED
      BY <1>5, <3>1, FreshKept
  <2>6. TablesOK'
    <3>1. \A q \in Run : runs'[q].response \in 1..Len(responses')
      BY <2>1 DEF ChatInv, Process, TablesOK
    <3>2. 1..Len(responses) \subseteq 1..Len(responses')
      BY <2>1
    <3>3. recovery' \subseteq [run : Run', response : 1..Len(responses'), silent : BOOLEAN]
      BY <1>1, <2>1, <3>2 DEF ChatInv, Process, TablesOK
    <3>4. QED
      BY <1>1, <2>1, <3>1, <3>3 DEF ChatInv, Process, TablesOK
  <2>7. PlaceholdersHaveRuns'
    <3>1. ASSUME NEW j \in 1..Len(responses'), responses'[j] = "working"
          PROVE  \E q \in Run : runs'[q].response = j
                 /\ (runs'[q].status = "running" \/ q \in dropped)
      <4>1. CASE j = new
        <5>1. Running(r) \/ r \in dropped
          BY <1>3 DEF ChatInv, Process, ShownOK
        <5>2. QED
          BY <2>1, <4>1, <5>1 DEF Running
      <4>2. CASE j # new
        <5>1. j \in 1..Len(responses)
          BY <2>1, <4>2
        <5>2. j # old /\ responses[j] = "working"
          BY <2>1, <3>1, <5>1
        <5>3. PICK q \in Run : runs[q].response = j /\ (runs[q].status = "running" \/ q \in dropped)
          BY <5>1, <5>2 DEF ChatInv, Process, PlaceholdersHaveRuns
        <5>4. q # r
          BY <5>2, <5>3
        <5>5. QED
          BY <2>1, <5>3, <5>4
      <4>3. QED
        BY <4>1, <4>2
    <3>2. QED
      BY <1>1, <2>1, <3>1 DEF PlaceholdersHaveRuns
  <2>8. RunsOK'
    <3>1. Run' = Run /\ \A x \in Run : Running(x)' <=> Running(x)
      BY <2>1 DEF Running
    <3>2. RunsOK
      BY DEF ChatInv, Process
    <3>3. QED
      BY <1>1, <1>3, <2>3, <3>1, <3>2 DEF RunsOK
  <2>9. ShownOK'
    <3>1. \A out \in recovery : out.run \in Run /\ out.run # 0
      BY LenProperties DEF ChatInv, Process, TablesOK, Run
    <3>2. ASSUME NEW out \in recovery, out.run \notin dropped
          PROVE  /\ out.response = runs'[out.run].response
                 /\ work'.run # out.run /\ active' # out.run
      BY <1>1, <1>3, <2>1, <2>3, <3>1, <3>2 DEF ChatInv, Process, ShownOK
    <3>3. \A q \in Run : turn'[q] = "live" \/ (work'.step \in {"launch", "move"} /\ work'.run = q)
                           => Running(q)' \/ q \in dropped
      BY <2>1, <2>3, <2>4 DEF ChatInv, Process, ShownOK, Running
    <3>4. QED
      BY <1>1, <2>1, <3>2, <3>3 DEF ShownOK
  <2>10. QED
    BY <2>2, <2>4, <2>5, <2>6, <2>7, <2>8, <2>9 DEF ChatInv, Process
<1>11. ASSUME UNCHANGED runs, NEW kept \in {responses, Left(old, "gone")},
              responses' \in {kept, Append(kept, "orphan")},
              \/ SteerFailed(r, Tail(queue[r]))
              \/ /\ active # r /\ Written(r) /\ Await("await", work.m, work.v, r, 0)
                 /\ UNCHANGED <<turn, fate>>
       PROVE  ChatInv'
  <2>1. NoneMoreWorking
    <3>1. kept = responses \/ kept = Show(old, "gone")
      BY DEF Left
    <3>2. "gone" \in Shown \ {"working"}
      BY DEF Shown
    <3>3. QED
      BY <1>4, <1>11, <3>1, <3>2, NoneMore
  <2>2. CASE SteerFailed(r, Tail(queue[r]))
    BY <1>1, <1>2, <1>3, <1>11, <2>1, <2>2, SteerFailedKeeps
  <2>3. CASE /\ active # r /\ Written(r) /\ Await("await", work.m, work.v, r, 0)
             /\ UNCHANGED <<turn, fate>>
    <3>1. work'.step = "await" /\ work'.run = r /\ active' = 0 /\ UNCHANGED route
      BY <1>1, <1>5, <2>3 DEF Await
    <3>2. ProcessOK' /\ TurnsOK' /\ \A y \in Run : turn'[y] = "live" => turn[y] = "live"
      BY <1>9, <1>11, <2>3, <3>1
    <3>3. FreshOK'
      BY <1>5, <3>1, FreshKept
    <3>4. Process' /\ Grows
      BY <1>1, <1>3, <1>11, <2>1, <3>1, <3>2, <3>3, BesideKeeps
    <3>5. r \in 0..Len(runs') /\ 0 \in 0..Len(responses')
      BY <1>6, <1>11, <3>4 DEF Grows
    <3>6. Messages'
      BY <1>1, <1>2, <1>4, <1>5, <1>7, <2>3, <3>4, <3>5, AwaitKeeps DEF ChatInv
    <3>7. QED
      BY <3>4, <3>6 DEF ChatInv
  <2>4. QED
    BY <1>11, <2>2, <2>3
<1>12. QED
  BY <1>10, <1>11 DEF Move

-----------------------------------------------------------------------------
(* New runs *)

\* A start closes the runs the table still shows running.
LEMMA StartKeeps ==
  ASSUME ChatInv, NEW m, NEW v, NEW resume \in 0..Len(responses), Current(m, v),
         Start(m, v, resume), Moves, ~route.fresh,
         UNCHANGED <<kind, version, excused, given, bound, recovery, responses, active, turn, fate,
                     queue>>,
         \A r \in Run : turn[r] # "live", work.step \notin {"launch", "failing", "move"}
  PROVE  ChatInv'
<1> DEFINE stale == {r \in Run : runs[r].status = "running"}
           row(r) == IF r \in stale THEN [runs[r] EXCEPT !.status = "failed"] ELSE runs[r]
<1>1. /\ Await("prepare", m, v, 0, resume) /\ runs' = [r \in Run |-> row(r)]
      /\ dropped' = dropped \cup stale /\ UNCHANGED route
      /\ work'.step = "prepare" /\ work'.run = 0
  BY DEF Start, Await
<1>2. /\ runs \in Seq(Row) /\ Len(runs) \in Nat /\ Len(responses) \in Nat
      /\ \A r \in Run : runs[r] \in Row /\ r # 0
  BY ElementOfSeq, LenProperties DEF ChatInv, Process, TablesOK, Run
<1>3. \A r \in Run : /\ row(r) \in Row /\ row(r).response = runs[r].response
                     /\ row(r).status # "running"
                     /\ r \notin stale => row(r) = runs[r]
  BY <1>2 DEF Row, Ended
<1>4. stale \subseteq Run /\ \A r \in Run : Running(r) <=> r \in stale
  BY DEF Running
<1> HIDE DEF row, stale
<1>5. [r \in Run |-> row(r)] \in [1..Len(runs) -> Row]
  BY <1>3 DEF Run
<1>6. runs' \in Seq(Row) /\ Len(runs') = Len(runs)
  BY <1>1, <1>2, <1>5, FunIsSeq
<1>7. Run' = Run /\ Grows /\ \A r \in Run : runs'[r] = row(r)
  BY <1>1, <1>2, <1>6 DEF Run, Grows
<1>8. Messages'
  <2>1. "prepare" \in Steps \ {"idle"} /\ "prepare" \notin OnRun
    BY DEF Steps, OnRun
  <2>2. 0 \in 0..Len(runs') /\ resume \in 0..Len(responses')
    BY <1>7 DEF Grows
  <2>3. QED
    BY <1>1, <1>7, <2>1, <2>2, AwaitKeeps DEF ChatInv
<1>9. TablesOK'
  BY <1>1, <1>3, <1>4, <1>6, <1>7 DEF ChatInv, Process, TablesOK
<1>10. ProcessOK' /\ FreshOK'
  BY <1>1, <1>6, <1>7 DEF ChatInv, Process, ProcessOK, FreshOK
<1>11. TurnsOK'
  BY <1>1, <1>7 DEF ChatInv, Process, TurnsOK, RunTurn
<1>12. RunsOK'
  BY <1>3, <1>7 DEF RunsOK, Running
<1>13. ShownOK'
  <2>1. ASSUME NEW out \in recovery, out.run \notin dropped'
        PROVE  /\ out.response = runs'[out.run].response
               /\ work'.run # out.run /\ active' # out.run
    <3>1. out.run \in Run /\ out.run \notin dropped
      BY <1>1, <2>1 DEF ChatInv, Process, TablesOK
    <3>2. QED
      BY <1>1, <1>2, <1>3, <1>7, <3>1 DEF ChatInv, Process, ShownOK
  <2>2. QED
    BY <1>1, <1>7, <2>1 DEF ShownOK
<1>14. PlaceholdersHaveRuns'
  <2>1. ASSUME NEW j \in 1..Len(responses), responses[j] = "working"
        PROVE  \E q \in Run : runs'[q].response = j /\ q \in dropped'
    <3>1. PICK q \in Run : runs[q].response = j /\ (runs[q].status = "running" \/ q \in dropped)
      BY <2>1 DEF ChatInv, Process, PlaceholdersHaveRuns
    <3>2. q \in dropped'
      BY <1>1, <1>4, <3>1 DEF Running
    <3>3. QED
      BY <1>3, <1>7, <3>1, <3>2
  <2>2. QED
    BY <1>7, <2>1 DEF PlaceholdersHaveRuns
<1>15. QED
  BY <1>8, <1>9, <1>10, <1>11, <1>12, <1>13, <1>14 DEF ChatInv, Process

\* The route gives up a message that no run has begun to work on.
LEMMA GiveUpKeeps ==
  ASSUME ChatInv, GiveUp, Moves, work.step \notin {"idle", "launch", "failing", "move"},
         UNCHANGED <<kind, version, given, excused>>,
         UNCHANGED <<runs, bound, recovery, responses, dropped, active, turn, fate, queue>>
  PROVE  ChatInv'
<1>1. ~route.fresh /\ FreshOK /\ route \in Route
  BY AtWork
<1>2. Offline /\ work' = NoWork /\ UNCHANGED <<cursor, handled>>
  BY DEF GiveUp
<1>3. Clears
  BY <1>1, <1>2, EmptySeq DEF Clears, Offline, Route, Places
<1>4. FreshOK'
  BY <1>1, <1>2, FreshKept
<1>5. Grows
  BY GrowsKept DEF ChatInv, Process
<1>6. Process'
  BY <1>2, <1>4, ProcessKept DEF ChatInv, NoWork
<1>7. QED
  BY <1>2, <1>3, <1>5, <1>6, ClearsKeeps DEF ChatInv

\* Messages that are skipped or taken, and commands.
LEMMA TakeSteps ==
  ASSUME ChatInv, Skip \/ Take \/ Control \/ (NewSession /\ active = 0) \/ Restart
  PROVE  ChatInv'
<1>1. UNCHANGED <<kind, version, given, bound, recovery, responses, active, turn, fate, queue>>
  BY DEF Skip, Take, Control, NewSession, Restart, OnlyWork, chat, Await, past
<1>2. Moves
  BY TroubleMoves DEF ChatInv, Messages, Skip, Take, Control, NewSession, Restart, past
<1>3. Incoming[1] # 0 \/ work.step # "idle"
  BY DEF Skip, Take, Control, NewSession, Restart, At
<1>4. ~route.fresh /\ FreshOK /\ route \in Route
  BY <1>3, AtWork
<1>5. \A r \in Run : turn[r] = "live" => r = active /\ r # 0 /\ fate[r] # "over"
  BY LenProperties DEF ChatInv, Process, TablesOK, TurnsOK, RunTurn, Run, Late
<1>6. UNCHANGED <<runs, dropped>> => Grows
  BY <1>1, GrowsKept DEF ChatInv, Process
<1>7. ASSUME UNCHANGED <<runs, dropped, route>>, work'.step \in {"new", "steer"},
             work'.run = IF work'.step = "steer" THEN active ELSE 0,
             work.step = "idle"
      PROVE  Process'
  <2>1. FreshOK'
    BY <1>4, <1>7, FreshKept
  <2>2. QED
    BY <1>1, <1>7, <2>1, ProcessKept DEF ChatInv
<1>8. ASSUME UNCHANGED <<runs, dropped>>, work' = NoWork, \E m : Leave(m),
             work.step \in {"idle", "new"}
      PROVE  Process'
  <2>1. FreshOK'
    BY <1>4, <1>8, FreshKept
  <2>2. QED
    BY <1>1, <1>8, <2>1, ProcessKept DEF ChatInv, NoWork
<1>9. CASE Skip
  <2>1. UNCHANGED <<runs, dropped>> /\ work' = NoWork /\ (\E m : Leave(m)) /\ work.step = "idle"
    BY <1>9 DEF Skip, past, Leave, Idle, NoWork
  <2>2. QED
    BY <1>6, <1>8, <1>9, <2>1, SkipKeeps DEF ChatInv
<1>10. CASE Take
  <2> DEFINE m == Incoming[1]
             v == Incoming[2]
  <2>1. work.step = "idle" /\ Current(m, v)
    BY <1>10, IncomingIsCurrent DEF Take, ChatInv, Idle, NoWork
  <2> HIDE DEF m, v
  <2>2. \/ Handle(m, v) /\ Excuse(m, v) /\ UNCHANGED <<runs, dropped>>
        \/ Await("new", m, v, 0, 0) /\ UNCHANGED <<runs, dropped, excused>>
        \/ active = 0 /\ Start(m, v, 0) /\ UNCHANGED excused
        \/ active # 0 /\ Await("steer", m, v, active, 0) /\ UNCHANGED <<runs, dropped, excused>>
    BY <1>10 DEF Take, m, v
  <2>3. CASE Handle(m, v) /\ Excuse(m, v) /\ UNCHANGED <<runs, dropped>>
    <3>1. work' = NoWork /\ \E x : Leave(x)
      BY <2>3 DEF Handle, Leave
    <3>2. QED
      BY <1>1, <1>2, <1>6, <1>8, <2>1, <2>3, <3>1, HandleKeeps DEF ChatInv
  <2>4. CASE Await("new", m, v, 0, 0) /\ UNCHANGED <<runs, dropped, excused>>
    <3>1. work'.step = "new" /\ work'.run = 0 /\ UNCHANGED route
      BY <2>4 DEF Await
    <3>2. Process'
      BY <1>7, <2>1, <2>4, <3>1
    <3>3. /\ "new" \in Steps \ {"idle"} /\ "new" \notin OnRun
          /\ 0 \in 0..Len(runs') /\ 0 \in 0..Len(responses') /\ Grows
      BY <1>6, <2>4 DEF Steps, OnRun, Grows
    <3>4. QED
      BY <1>1, <1>2, <2>1, <2>4, <3>2, <3>3, AwaitKeeps DEF ChatInv
  <2>5. CASE active = 0 /\ Start(m, v, 0) /\ UNCHANGED excused
    <3>1. (\A r \in Run : turn[r] # "live") /\ 0 \in 0..Len(responses)
      BY <1>5, <2>5, LenProperties DEF ChatInv, Process, TablesOK
    <3>2. QED
      BY <1>1, <1>2, <1>4, <2>1, <2>5, <3>1, StartKeeps
  <2>6. CASE active # 0 /\ Await("steer", m, v, active, 0) /\ UNCHANGED <<runs, dropped, excused>>
    <3>1. work'.step = "steer" /\ work'.run = active /\ UNCHANGED route
      BY <2>6 DEF Await
    <3>2. Process'
      BY <1>7, <2>1, <2>6, <3>1
    <3>3. /\ "steer" \in Steps \ {"idle"} /\ Grows
          /\ active \in 0..Len(runs') /\ 0 \in 0..Len(responses')
      BY <1>6, <2>6 DEF Steps, Grows, ChatInv, Process, ProcessOK
    <3>4. QED
      BY <1>1, <1>2, <2>1, <2>6, <3>2, <3>3, AwaitKeeps DEF ChatInv
  <2>7. QED
    BY <2>2, <2>3, <2>4, <2>5, <2>6
<1>11. CASE Control
  <2>1. work.step = "new" /\ Current(work.m, work.v) /\ UNCHANGED <<runs, dropped>>
    BY <1>11, WorkIsCurrent DEF Control, At, ChatInv
  <2>2. CASE Handle(work.m, work.v) /\ Excuse(work.m, work.v)
    <3>1. work' = NoWork /\ \E x : Leave(x)
      BY <2>2 DEF Handle, Leave
    <3>2. QED
      BY <1>1, <1>2, <1>6, <1>8, <2>1, <2>2, <3>1, HandleKeeps DEF ChatInv
  <2>3. CASE GiveUp /\ UNCHANGED excused
    BY <1>1, <1>2, <2>1, <2>3, GiveUpKeeps
  <2>4. QED
    BY <1>11, <2>2, <2>3 DEF Control
<1>12. CASE (NewSession /\ active = 0) \/ Restart
  <2>1. PICK resume \in 0..Len(responses) :
          /\ work.step \in {"new", "await"} /\ Start(work.m, work.v, resume) /\ UNCHANGED excused
          /\ active = 0 \/ (work.step = "await" /\ fate[work.run] = "over")
    <3>1. work.resume \in 0..Len(responses) /\ 0 \in 0..Len(responses)
      BY LenProperties DEF ChatInv, Messages, WorkOK, Process, TablesOK
    <3>2. QED
      BY <1>12, <3>1 DEF NewSession, Restart, At
  <2>2. Current(work.m, work.v)
    BY <2>1, WorkIsCurrent DEF ChatInv
  <2>3. \A r \in Run : turn[r] # "live"
    BY <1>5, <2>1 DEF ChatInv, Process, TurnsOK
  <2>4. QED
    BY <1>1, <1>2, <1>4, <2>1, <2>2, <2>3, StartKeeps
<1>13. QED
  BY <1>9, <1>10, <1>11, <1>12

\* A new run is in the table, and no other one is running there.
LEMMA PrepareKeeps ==
  ASSUME ChatInv, Prepare
  PROVE  ChatInv'
<1> DEFINE new == work.resume = 0
           response == IF new THEN Len(responses) + 1 ELSE work.resume
<1>0. PICK n \in Nat : n = Len(runs)
  BY LenProperties DEF ChatInv, Process, TablesOK
<1>1. work.step = "prepare" /\ UNCHANGED <<kind, version, recovery, active, given, excused,
      dropped>>
  BY DEF Prepare, At, OnlyWork
<1>2. Moves
  BY TroubleMoves DEF ChatInv, Messages, Prepare
<1>3. CASE /\ GiveUp /\ UNCHANGED <<runs, bound, turn, fate, queue>>
           /\ Strays \/ UNCHANGED responses
  <2>1. ~route.fresh /\ FreshOK /\ route \in Route
    BY <1>1, AtWork
  <2>2. /\ Offline /\ work' = NoWork /\ work'.step = "idle" /\ work'.run = 0
        /\ UNCHANGED <<cursor, handled>>
    BY <1>3 DEF GiveUp, NoWork
  <2>3. Clears
    BY <2>1, <2>2, EmptySeq DEF Clears, Offline, Route, Places
  <2>4. FreshOK'
    BY <2>1, <2>2, FreshKept
  <2>5. NoneMoreWorking
    BY <1>3, NoneMore DEF Strays
  <2>6. Run' = Run
    BY <1>3 DEF Run
  <2>7. ProcessOK' /\ TurnsOK'
    BY <1>1, <1>3, <2>2, <2>6 DEF ChatInv, Process, ProcessOK, TurnsOK, RunTurn
  <2>8. Process' /\ Grows
    BY <1>1, <1>3, <2>2, <2>4, <2>5, <2>7, BesideKeeps
  <2>9. Messages'
    BY <1>1, <1>2, <2>2, <2>3, <2>8, ClearsKeeps DEF ChatInv
  <2>10. QED
    BY <2>8, <2>9 DEF ChatInv
<1>4. CASE /\ responses' = IF new THEN Append(responses, "working") ELSE responses
           /\ runs' = Append(runs, [response |-> response, status |-> "running"])
           /\ bound' = IF kind[work.m] = "new" THEN "resetting" ELSE "active"
           /\ turn' = Append(turn, "none") /\ fate' = Append(fate, "none")
           /\ queue' = Append(queue, <<>>)
           /\ Await("launch", work.m, work.v, n + 1, work.resume)
  <2>1. /\ runs \in Seq(Row) /\ responses \in Seq(Shown) /\ Len(responses) \in Nat
        /\ work.resume \in 0..Len(responses)
    BY LenProperties DEF ChatInv, Process, TablesOK, Messages, WorkOK
  <2>2. /\ responses' \in Seq(Shown) /\ Len(responses) <= Len(responses') /\ Len(responses') \in Nat
        /\ response \in 1..Len(responses')
        /\ \A j \in 1..Len(responses') : responses'[j] = "working"
             => j = response \/ (j \in 1..Len(responses) /\ responses[j] = "working")
    <3>1. CASE new
      <4>1. /\ responses' = Append(responses, "working") /\ "working" \in Shown
            /\ response = Len(responses) + 1
        BY <1>4, <3>1 DEF Shown
      <4>2. /\ responses' \in Seq(Shown) /\ Len(responses') = Len(responses) + 1
            /\ \A j \in 1..Len(responses) : responses'[j] = responses[j]
        BY <2>1, <4>1, AppendProperties
      <4> HIDE DEF response
      <4>3. QED
        BY <2>1, <4>1, <4>2
    <3>2. CASE ~new
      BY <1>4, <2>1, <3>2
    <3>3. QED
      BY <3>1, <3>2
  <2> HIDE DEF response, new
  <2> DEFINE row == [response |-> response, status |-> "running"]
  <2>3. row \in Row /\ row.response = response /\ row.status = "running"
    BY <2>2 DEF Row
  <2> HIDE DEF row
  <2>4. /\ runs' \in Seq(Row) /\ Len(runs') = n + 1 /\ runs'[n + 1] = row
        /\ \A q \in 1..n : runs'[q] = runs[q]
    BY <1>0, <1>4, <2>1, <2>3, AppendProperties DEF row
  <2>5. Run = 1..n /\ Run' = 1..n + 1 /\ Grows /\ n + 1 \notin Run
    BY <1>0, <2>1, <2>2, <2>4 DEF Run, Grows
  <2>6. /\ turn \in [1..n -> Turns] /\ fate \in [1..n -> Fates] /\ queue \in [1..n -> Seq(Ops)]
        /\ "none" \in Turns /\ "none" \in Fates /\ <<>> \in Seq(Ops)
    BY <2>5, MoveFacts DEF ChatInv, Process, ProcessOK, Turns, Fates
  <2>7. /\ turn' \in [1..n + 1 -> Turns] /\ turn'[n + 1] = "none"
        /\ \A x \in 1..n : turn'[x] = turn[x]
    <3>1. turn' = Append(turn, "none")
      BY <1>4
    <3>2. turn \in Seq(Turns) /\ Len(turn) = n
      BY <2>6, FunIsSeq
    <3>3. /\ turn' \in Seq(Turns) /\ Len(turn') = n + 1 /\ turn'[n + 1] = "none"
          /\ \A x \in 1..n : turn'[x] = turn[x]
      BY <2>6, <3>1, <3>2, AppendProperties
    <3>4. QED
      BY <3>3, LenProperties
  <2>8. /\ fate' \in [1..n + 1 -> Fates] /\ fate'[n + 1] = "none"
        /\ \A x \in 1..n : fate'[x] = fate[x]
    <3>1. fate' = Append(fate, "none")
      BY <1>4
    <3>2. fate \in Seq(Fates) /\ Len(fate) = n
      BY <2>6, FunIsSeq
    <3>3. /\ fate' \in Seq(Fates) /\ Len(fate') = n + 1 /\ fate'[n + 1] = "none"
          /\ \A x \in 1..n : fate'[x] = fate[x]
      BY <2>6, <3>1, <3>2, AppendProperties
    <3>4. QED
      BY <3>3, LenProperties
  <2>9. /\ queue' \in [1..n + 1 -> Seq(Ops)] /\ queue'[n + 1] = <<>>
        /\ \A x \in 1..n : queue'[x] = queue[x]
    <3>1. queue' = Append(queue, <<>>)
      BY <1>4
    <3>2. queue \in Seq(Seq(Ops)) /\ Len(queue) = n
      BY <2>6, FunIsSeq
    <3>3. /\ queue' \in Seq(Seq(Ops)) /\ Len(queue') = n + 1 /\ queue'[n + 1] = <<>>
          /\ \A x \in 1..n : queue'[x] = queue[x]
      BY <2>6, <3>1, <3>2, AppendProperties
    <3>4. QED
      BY <3>3, LenProperties
  <2>10. work'.step = "launch" /\ work'.run = n + 1 /\ UNCHANGED route
    BY <1>4 DEF Await
  <2>11. Messages'
    <3>1. Current(work.m, work.v)
      BY <1>1, WorkIsCurrent DEF ChatInv
    <3>2. /\ "launch" \in Steps \ {"idle"} /\ "launch" \notin {"observe", "move"}
          /\ n + 1 \in 0..Len(runs') /\ work.resume \in 0..Len(responses') /\ n + 1 # 0
      BY <2>1, <2>2, <2>4 DEF Steps
    <3>3. QED
      BY <1>1, <1>2, <1>4, <2>5, <3>1, <3>2, AwaitKeeps DEF ChatInv
  <2>12. TablesOK'
    <3>1. \A q \in Run' : runs'[q].response \in 1..Len(responses')
      BY <2>1, <2>2, <2>3, <2>4, <2>5 DEF ChatInv, Process, TablesOK
    <3>2. Run \subseteq Run' /\ 1..Len(responses) \subseteq 1..Len(responses')
      BY <2>1, <2>2, <2>5
    <3>3. bound' \in {"none", "resetting", "active"}
      BY <1>4
    <3>4. recovery' \subseteq [run : Run', response : 1..Len(responses'), silent : BOOLEAN]
      BY <1>1, <3>2 DEF ChatInv, Process, TablesOK
    <3>5. QED
      BY <1>1, <2>2, <2>4, <3>1, <3>2, <3>3, <3>4 DEF ChatInv, Process, TablesOK
  <2>13. ProcessOK'
    BY <1>0, <1>1, <2>4, <2>5, <2>7, <2>8, <2>9 DEF ChatInv, Process, ProcessOK
  <2>14. FreshOK'
    BY <1>1, <2>10, AtWork DEF FreshOK
  <2>15. TurnsOK'
    <3>1. ASSUME NEW x \in Run' PROVE RunTurn(x)' /\ turn'[x] # "live"
      <4>1. CASE x = n + 1
        BY <2>7, <2>8, <2>9, <2>10, <4>1, MoveFacts DEF RunTurn, Late
      <4>2. CASE x \in Run
        <5>1. RunTurn(x) /\ turn[x] # "live"
          BY <1>1, <4>2 DEF ChatInv, Process, TurnsOK
        <5>2. QED
          BY <1>1, <2>5, <2>7, <2>8, <2>9, <2>10, <4>2, <5>1 DEF RunTurn
      <4>3. QED
        BY <2>1, <2>5, <4>1, <4>2
    <3>2. active' # n + 1
      BY <1>0, <1>1 DEF ChatInv, Process, ProcessOK
    <3>3. QED
      BY <2>7, <2>8, <2>9, <2>10, <3>1, <3>2 DEF TurnsOK
  <2>16. \A x \in Run' : Running(x)' => x = n + 1
    <3>1. \A x \in Run : ~Running(x)
      BY <1>1 DEF ChatInv, Process, RunsOK
    <3>2. QED
      BY <2>1, <2>4, <2>5, <3>1 DEF Running
  <2>17. RunsOK'
    BY <2>10, <2>16 DEF RunsOK
  <2>18. ShownOK'
    <3>1. Running(n + 1)'
      BY <2>3, <2>4 DEF Running
    <3>2. \A x \in Run' : turn'[x] # "live"
      BY <1>1, <2>1, <2>5, <2>7 DEF ChatInv, Process, TurnsOK
    <3>3. ASSUME NEW out \in recovery, out.run \notin dropped
          PROVE  /\ out.response = runs'[out.run].response
                 /\ work'.run # out.run /\ active' # out.run
      <4>1. out.run \in Run
        BY DEF ChatInv, Process, TablesOK
      <4>2. QED
        BY <1>1, <2>4, <2>5, <2>10, <3>3, <4>1 DEF ChatInv, Process, ShownOK
    <3>4. QED
      BY <1>1, <2>10, <3>1, <3>2, <3>3 DEF ShownOK
  <2>19. PlaceholdersHaveRuns'
    <3>1. ASSUME NEW j \in 1..Len(responses'), responses'[j] = "working"
          PROVE  \E q \in Run' : runs'[q].response = j
                                   /\ (runs'[q].status = "running" \/ q \in dropped)
      <4>1. CASE j = response
        <5>1. n + 1 \in Run'
          BY <2>1, <2>5
        <5>2. QED
          BY <2>3, <2>4, <4>1, <5>1
      <4>2. CASE j \in 1..Len(responses) /\ responses[j] = "working"
        <5>1. PICK q \in Run : runs[q].response = j /\ (runs[q].status = "running" \/ q \in dropped)
          BY <4>2 DEF ChatInv, Process, PlaceholdersHaveRuns
        <5>2. q \in Run' /\ runs'[q] = runs[q]
          BY <2>1, <2>4, <2>5
        <5>3. QED
          BY <5>1, <5>2
      <4>3. QED
        BY <2>2, <3>1, <4>1, <4>2
    <3>2. QED
      BY <1>1, <3>1 DEF PlaceholdersHaveRuns
  <2>20. QED
    BY <2>11, <2>12, <2>13, <2>14, <2>15, <2>17, <2>18, <2>19 DEF ChatInv, Process
<1>5. QED
  BY <1>0, <1>3, <1>4 DEF Prepare

\* The runtime takes the message, or fails to.
LEMMA LaunchKeeps ==
  ASSUME ChatInv, Launch
  PROVE  ChatInv'
<1> DEFINE r == work.run
<1>1. /\ work.step = "launch"
      /\ UNCHANGED <<kind, version, runs, recovery, responses, fate, excused, dropped>>
  BY DEF Launch, At, OnlyWork
<1>2. Moves /\ Grows
  BY <1>1, TroubleMoves, GrowsKept DEF ChatInv, Messages, Process, Launch
<1>3. r \in Run /\ r # 0 /\ r \in 0..Len(runs) /\ work.m \in Message
  <2>1. r # 0 /\ r \in 0..Len(runs) /\ work.m \in Message
    BY <1>1 DEF ChatInv, Messages, WorkOK, OnRun
  <2>2. QED
    BY <2>1, LenProperties DEF ChatInv, Process, TablesOK, Run
<1>4. /\ turn[r] = "none" /\ fate[r] = "none" /\ queue[r] = <<>> /\ active # r
      /\ \A x \in Run : turn[x] # "live"
      /\ Running(r) \/ r \in dropped
      /\ \A x \in Run : Running(x) => x = r
  BY <1>1, <1>3 DEF ChatInv, Process, TurnsOK, ShownOK, RunsOK
<1>5. Current(work.m, work.v) /\ ~route.fresh /\ FreshOK /\ route \in Route
  BY <1>1, WorkIsCurrent, AtWork DEF ChatInv
<1>6. /\ r \in 0..Len(runs') /\ 0 \in 0..Len(responses') /\ Run' = Run
      /\ {"observe", "failing"} \subseteq Steps \ {"idle"} /\ "failing" \notin {"observe", "move"}
  BY <1>1, <1>2, <1>3 DEF Grows, Steps, Run
<1>7. work.run = r
  OBVIOUS
<1> HIDE DEF r
<1>8. CASE /\ turn' = [turn EXCEPT ![r] = "live"] /\ active' = r /\ bound' = "active"
           /\ Give(work.m, work.v) /\ Await("observe", work.m, work.v, r, 0) /\ UNCHANGED queue
  <2>1. /\ \A x \in Run : turn'[x] = IF x = r THEN "live" ELSE turn[x]
        /\ turn' \in [Run -> Turns]
    BY <1>3, <1>8 DEF ChatInv, Process, ProcessOK, Turns
  <2>2. work'.step = "observe" /\ work'.run = r /\ UNCHANGED route
    BY <1>8 DEF Await
  <2>3. work.v \in given'[work.m]
    BY <1>3, <1>8 DEF Give, ChatInv, Messages, HeardOK
  <2>4. Messages'
    BY <1>1, <1>2, <1>3, <1>5, <1>6, <1>8, <2>3, AwaitKeeps DEF ChatInv
  <2>5. TablesOK' /\ ProcessOK' /\ PlaceholdersHaveRuns'
    BY <1>1, <1>3, <1>6, <1>8, <2>1 DEF ChatInv, Process, TablesOK, ProcessOK, PlaceholdersHaveRuns
  <2>6. FreshOK'
    BY <1>5, <2>2 DEF FreshOK
  <2>7. TurnsOK'
    <3>1. ASSUME NEW x \in Run PROVE RunTurn(x)'
      <4>1. RunTurn(x)
        BY DEF ChatInv, Process, TurnsOK
      <4>2. CASE x = r
        BY <1>1, <1>4, <1>8, <2>1, <2>2, <4>2, MoveFacts DEF RunTurn, Late
      <4>3. CASE x # r
        BY <1>1, <1>4, <1>8, <2>1, <2>2, <4>1, <4>3 DEF RunTurn
      <4>4. QED
        BY <4>2, <4>3
    <3>2. QED
      BY <1>6, <2>2, <3>1 DEF TurnsOK
  <2>8. RunsOK'
    BY <1>1, <1>4, <1>6, <1>8, <2>2 DEF RunsOK, Running
  <2>9. ShownOK'
    <3>1. \A x \in Run : turn'[x] = "live" => x = r
      BY <1>4, <2>1
    <3>2. \A out \in recovery : out.run \notin dropped =>
            out.response = runs'[out.run].response /\ work'.run # out.run /\ active' # out.run
      BY <1>1, <1>7, <1>8, <2>2 DEF ChatInv, Process, ShownOK
    <3>3. QED
      BY <1>1, <1>4, <1>6, <2>2, <3>1, <3>2 DEF ShownOK, Running
  <2>10. QED
    BY <2>4, <2>5, <2>6, <2>7, <2>8, <2>9 DEF ChatInv, Process
<1>9. CASE /\ Asked(r, "fail") /\ Await("failing", work.m, work.v, r, 0)
           /\ UNCHANGED <<turn, active, bound, given>>
  <2>1. Append(<<>>, "fail") \in Seq(Ops) /\ NoMove(Append(<<>>, "fail"))
    BY MoveFacts, QueueFacts DEF Ops
  <2>2. queue' = [queue EXCEPT ![r] = Append(<<>>, "fail")]
    BY <1>3, <1>4, <1>9 DEF Asked, ChatInv, Process, ProcessOK
  <2>3. work'.step = "failing" /\ work'.run = r /\ UNCHANGED route
    BY <1>9 DEF Await
  <2>4. /\ turn[r] \in Turns /\ fate[r] \in Fates
        /\ turn' = [turn EXCEPT ![r] = turn[r]] /\ fate' = [fate EXCEPT ![r] = fate[r]]
    BY <1>1, <1>3, <1>9, RunTypes
  <2>5. Len(runs') = Len(runs)
    BY <1>1
  <2>6. /\ ProcessOK' /\ TurnsOK' /\ active' \in {0, active}
        /\ \A y \in Run : turn'[y] = "live" => turn[y] = "live"
    BY <1>1, <1>3, <1>4, <1>9, <2>1, <2>2, <2>3, <2>4, <2>5, RunChanges
  <2>7. FreshOK'
    BY <1>5, <2>3, FreshKept
  <2>8. Process'
    BY <1>1, <1>7, <1>9, <2>3, <2>6, <2>7, BesideKeeps, NoneMoreKept
  <2>9. Messages'
    BY <1>1, <1>2, <1>3, <1>5, <1>6, <1>9, AwaitKeeps DEF ChatInv
  <2>10. QED
    BY <2>8, <2>9 DEF ChatInv
<1>10. QED
  BY <1>8, <1>9 DEF Launch, r

\* The message whose turn is observed is handled.
LEMMA ObserveKeeps ==
  ASSUME ChatInv, Observe
  PROVE  ChatInv'
<1> DEFINE r == work.run
           f == IF fate[r] = "none" THEN "waiting" ELSE fate[r]
<1>1. /\ work.step = "observe" /\ Handle(work.m, work.v) /\ work' = NoWork
      /\ fate' = [fate EXCEPT ![r] = f]
      /\ UNCHANGED <<kind, version, runs, bound, recovery, responses, active, turn, queue, given,
                     excused, dropped>>
  BY DEF Observe, At, OnlyWork, Handle, Leave
<1>2. Moves /\ Grows /\ Len(runs') = Len(runs)
  BY <1>1, TroubleMoves, GrowsKept DEF ChatInv, Messages, Process, Observe
<1>3. r \in Run
  <2>1. r # 0 /\ r \in 0..Len(runs)
    BY <1>1 DEF ChatInv, Messages, WorkOK, OnRun
  <2>2. QED
    BY <2>1, LenProperties DEF ChatInv, Process, TablesOK, Run
<1>4. /\ turn[r] \in Turns /\ fate[r] \in Fates /\ queue[r] \in Seq(Ops) /\ RunTurn(r)
      /\ turn' = [turn EXCEPT ![r] = turn[r]] /\ queue' = [queue EXCEPT ![r] = queue[r]]
  BY <1>1, <1>3, RunTypes
<1>5. f \in Fates /\ (f \in Late => turn[r] # "live")
  BY <1>4 DEF RunTurn, Fates, Late
<1>6. Current(work.m, work.v) /\ ~route.fresh /\ FreshOK /\ route \in Route
  BY <1>1, WorkIsCurrent, AtWork DEF ChatInv
<1>7. Messages'
  <2>1. work.v \in given[work.m]
    BY <1>1 DEF ChatInv, Messages, HeardOK
  <2>2. QED
    BY <1>1, <1>2, <1>6, <2>1, HandleKeeps DEF ChatInv
<1>8. FreshOK'
  BY <1>1, <1>6, FreshKept DEF Handle
<1> HIDE DEF f
<1>9. work'.step = "idle" /\ work'.run = 0
  BY <1>1 DEF NoWork
<1>10. /\ turn[r] = "live" => active' = r /\ queue[r] \in {<<>>, <<"move">>}
       /\ IF work'.step = "move" /\ work'.run = r THEN MoveFirst(queue[r]) ELSE NoMove(queue[r])
  BY <1>1, <1>4, <1>9 DEF RunTurn
<1>11. /\ ProcessOK' /\ TurnsOK' /\ active' \in {0, active}
       /\ \A y \in Run : turn'[y] = "live" => turn[y] = "live"
  BY <1>1, <1>2, <1>3, <1>4, <1>5, <1>9, <1>10, RunChanges
<1>12. Process'
  BY <1>1, <1>8, <1>9, <1>11, BesideKeeps, NoneMoreKept
<1>13. QED
  BY <1>7, <1>12 DEF ChatInv

-----------------------------------------------------------------------------
(* Outputs that reach nobody, and the process *)

\* An output of the session belongs to the response of the run that is running.
LEMMA OutputKeeps ==
  ASSUME ChatInv, Output
  PROVE  ChatInv'
<1>1. /\ active = 0
      /\ UNCHANGED <<kind, version, responses, cursor, handled, runs, bound, given, excused>>
      /\ UNCHANGED <<route, events, work, active, turn, fate, queue>>
  BY DEF Output, chat, memory
<1>2. PICK r \in Run, silent \in BOOLEAN :
        /\ runs[r].status = "running"
        /\ recovery' = recovery \cup
                         {[run |-> r, response |-> runs[r].response, silent |-> silent]}
        /\ dropped' = IF work.run = r THEN dropped \cup {r} ELSE dropped
  BY DEF Output
<1>3. Moves /\ Grows /\ Run' = Run
  BY <1>1, TroubleMoves, GrowsKept DEF ChatInv, Messages, Process, Output, Misses, Run
<1>4. Messages'
  BY <1>1, <1>3, Unnoticed DEF ChatInv
<1>5. runs[r].response \in 1..Len(responses) /\ r # 0
  BY RunTypes
<1>6. TablesOK' /\ ProcessOK' /\ FreshOK' /\ TurnsOK' /\ RunsOK' /\ PlaceholdersHaveRuns'
  BY <1>1, <1>2, <1>3, <1>5
  DEF ChatInv, Process, TablesOK, ProcessOK, FreshOK, TurnsOK, RunTurn, RunsOK, Running,
      PlaceholdersHaveRuns
<1>7. ShownOK'
  <2>1. ASSUME NEW out \in recovery', out.run \notin dropped'
        PROVE  /\ out.response = runs[out.run].response
               /\ work.run # out.run /\ active # out.run
    <3>1. CASE out \in recovery
      BY <1>2, <2>1, <3>1 DEF ChatInv, Process, ShownOK
    <3>2. CASE out = [run |-> r, response |-> runs[r].response, silent |-> silent]
      BY <1>1, <1>2, <1>5, <2>1, <3>2
    <3>3. QED
      BY <1>2, <3>1, <3>2
  <2>2. QED
    BY <1>1, <1>2, <1>3, <2>1 DEF ChatInv, Process, ShownOK, Running
<1>8. QED
  BY <1>4, <1>6, <1>7 DEF ChatInv, Process

\* The process dies: its runs and their responses stay in the tables.
LEMMA CrashKeeps ==
  ASSUME ChatInv, Crash
  PROVE  ChatInv'
<1>1. /\ Forget
      /\ UNCHANGED <<kind, version, cursor, handled, runs, bound, given, excused, dropped>>
      /\ responses' = responses \/ responses' = Append(responses, "orphan")
  BY DEF Crash, Strays
<1>2. Moves
  BY TroubleMoves DEF ChatInv, Messages, Crash, Misses
<1>3. /\ runs \in Seq(Row) /\ Len(runs) \in Nat /\ responses \in Seq(Shown)
      /\ Len(responses) \in Nat
  BY LenProperties DEF ChatInv, Process, TablesOK
<1>4. /\ responses' \in Seq(Shown) /\ Len(responses) <= Len(responses') /\ Len(responses') \in Nat
      /\ \A j \in 1..Len(responses') : responses'[j] = "working"
           => j \in 1..Len(responses) /\ responses[j] = "working"
  <2>1. CASE responses' = responses
    BY <1>3, <2>1
  <2>2. CASE responses' = Append(responses, "orphan")
    <3>1. "orphan" \in Shown
      BY DEF Shown
    <3>2. /\ responses' \in Seq(Shown) /\ Len(responses') = Len(responses) + 1
          /\ \A j \in 1..Len(responses) : responses'[j] = responses[j]
          /\ responses'[Len(responses) + 1] = "orphan"
      BY <1>3, <2>2, <3>1, AppendProperties
    <3>3. QED
      BY <1>3, <3>2
  <2>3. QED
    BY <1>1, <2>1, <2>2
<1>5. Run' = Run /\ Grows
  BY <1>1, <1>3, <1>4 DEF Run, Grows
<1>6. /\ route \in Route
      /\ route' = [route EXCEPT !.at = "off", !.batch = <<>>, !.fresh = TRUE, !.open = FALSE,
                               !.watch = FALSE, !.stop = FALSE]
      /\ events' = <<>> /\ work' = NoWork /\ active' = 0
      /\ turn' = [r \in Run |-> "none"] /\ fate' = [r \in Run |-> "none"]
      /\ queue' = [r \in Run |-> <<>>] /\ recovery' \subseteq recovery
  BY <1>1 DEF Forget, ChatInv, Messages, RouteOK
<1>7. /\ route' \in Route /\ route'.at = "off" /\ route'.batch = <<>> /\ ~route'.open
      /\ work'.step = "idle" /\ work'.run = 0
  BY <1>6, EmptySeq DEF Route, Places, NoWork
<1>8. Messages'
  <2>1. Clears
    BY <1>1, <1>6, <1>7 DEF Clears
  <2>2. QED
    BY <1>1, <1>2, <1>5, <2>1, ClearsKeeps DEF ChatInv
<1>9. TablesOK'
  <2>1. 1..Len(responses) \subseteq 1..Len(responses')
    BY <1>3, <1>4
  <2>2. QED
    BY <1>1, <1>4, <1>5, <1>6, <2>1 DEF ChatInv, Process, TablesOK
<1>10. ProcessOK'
  BY <1>1, <1>3, <1>5, <1>6, MoveFacts DEF ProcessOK, Turns, Fates
<1>11. FreshOK'
  BY <1>5, <1>6, <1>7 DEF FreshOK
<1>12. TurnsOK'
  BY <1>5, <1>6, <1>7, MoveFacts DEF TurnsOK, RunTurn, Late
<1>13. RunsOK'
  BY <1>1, <1>5, <1>6, <1>7 DEF ChatInv, Process, RunsOK, Running
<1>14. ShownOK'
  <2>1. \A out \in recovery : out.run \in Run /\ out.run # 0
    BY <1>3 DEF ChatInv, Process, TablesOK, Run
  <2>2. QED
    BY <1>1, <1>5, <1>6, <1>7, <2>1 DEF ChatInv, Process, ShownOK
<1>15. PlaceholdersHaveRuns'
  BY <1>1, <1>4, <1>5 DEF ChatInv, Process, PlaceholdersHaveRuns
<1>16. QED
  BY <1>8, <1>9, <1>10, <1>11, <1>12, <1>13, <1>14, <1>15 DEF ChatInv, Process

-----------------------------------------------------------------------------
(* The invariant *)

\* At the start there is no message, no run and no process.
LEMMA ChatStarts ==
  ASSUME Init
  PROVE  ChatInv
<1> USE DEF Init
<1>1. Len(<<>>) = 0 /\ \A S : <<>> \in Seq(S)
  BY EmptySeq
<1>2. Run = {} /\ Len(runs) = 0 /\ Len(responses) = 0
  BY <1>1 DEF Run
<1>3. /\ MaxMessages \in Nat /\ MaxTrouble \in Nat /\ 0 \notin Message
      /\ Message \subseteq Nat \ {0}
      /\ NoVersion \in Revision /\ NoVersion.at = 0
  BY ConstantTypes
<1>4. ChatOK
  <2>1. \A m \in Message : version[m].at = 0 /\ handled[m].at = 0
    BY <1>3
  <2>2. \A m \in Message : version[m].at > 0 <=> m <= 0
    BY <1>3, <2>1
  <2>3. 0 \in 0..MaxMessages /\ 0 \in 0..MaxTrouble
    BY <1>3
  <2>4. QED
    BY <1>3, <2>1, <2>2, <2>3 DEF ChatOK, Kinds
<1>5. WorkOK
  BY <1>2, <1>3 DEF WorkOK, NoWork, Steps, OnRun
<1>6. RouteOK
  BY <1>1, <1>3 DEF RouteOK, Route, Places, NoWork
<1>7. HeardOK /\ OrderOK /\ NoMessageIsLost
  BY <1>3 DEF HeardOK, OrderOK, NoMessageIsLost, NoWork
<1>8. TablesOK /\ ProcessOK
  BY <1>1, <1>2 DEF TablesOK, ProcessOK
<1>9. FreshOK /\ TurnsOK /\ RunsOK /\ ShownOK /\ PlaceholdersHaveRuns
  BY <1>2 DEF FreshOK, TurnsOK, RunsOK, ShownOK, PlaceholdersHaveRuns, NoWork
<1>10. QED
  BY <1>4, <1>5, <1>6, <1>7, <1>8, <1>9 DEF ChatInv, Messages, Process

\* A step of nothing.
LEMMA ChatStutters ==
  ASSUME ChatInv, UNCHANGED vars
  PROVE  ChatInv'
<1>1. /\ UNCHANGED <<kind, version, cursor, handled, runs, bound, recovery, responses, route,
           events,
                     work>>
      /\ UNCHANGED <<active, turn, fate, queue, trouble, given, excused, dropped>>
  BY DEF vars
<1>2. Moves /\ Grows /\ Run' = Run
  BY <1>1, TroubleMoves, GrowsKept DEF ChatInv, Messages, Process, Run
<1>3. Messages'
  BY <1>1, <1>2, Unnoticed DEF ChatInv
<1>4. FreshOK'
  BY <1>1, <1>2 DEF ChatInv, Process, FreshOK
<1>5. Process'
  BY <1>1, <1>4, ProcessKept DEF ChatInv
<1>6. QED
  BY <1>3, <1>5 DEF ChatInv

\* Every step keeps the invariant.
LEMMA ChatStep ==
  ASSUME ChatInv, [Next]_vars
  PROVE  ChatInv'
<1>1. CASE Post \/ \E m \in Message : EditMessage(m)
  BY <1>1, RouteSteps
<1>2. CASE Connect \/ Restore \/ Reconcile \/ List \/ OpenStream \/ Resync \/ Disconnect \/ Stop
  BY <1>2, RouteSteps
<1>3. CASE ReconcileEnds
  BY <1>3, ReconcileEndsKeeps
<1>4. CASE Skip \/ Take \/ Control \/ (NewSession /\ active = 0) \/ Restart
  BY <1>4, TakeSteps
<1>5. CASE StopCancels \/ (NewSession /\ active # 0)
  BY <1>5, StopKeeps
<1>6. CASE Prepare
  BY <1>6, PrepareKeeps
<1>7. CASE Launch
  BY <1>7, LaunchKeeps
<1>8. CASE Observe
  BY <1>8, ObserveKeeps
<1>9. CASE Steer
  BY <1>9, SteerKeeps
<1>10. ASSUME NEW r \in Run, RunStep(r)
       PROVE  ChatInv'
  <2>1. CASE TurnEnds(r) \/ Completes(r)
    BY <2>1, TurnSteps
  <2>2. CASE Finish(r)
    BY <2>2, FinishKeeps
  <2>3. CASE Fail(r)
    BY <2>3, FailKeeps
  <2>4. CASE Interrupt(r)
    BY <2>4, InterruptKeeps
  <2>5. CASE Move(r)
    BY <2>5, MoveKeeps
  <2>6. QED
    BY <1>10, <2>1, <2>2, <2>3, <2>4, <2>5 DEF RunStep
<1>11. CASE Output
  BY <1>11, OutputKeeps
<1>12. CASE Recover
  BY <1>12, RecoverKeeps
<1>13. CASE Crash
  BY <1>13, CrashKeeps
<1>14. CASE UNCHANGED vars
  BY <1>14, ChatStutters
<1>15. QED
  BY <1>1, <1>2, <1>3, <1>4, <1>5, <1>6, <1>7, <1>8, <1>9, <1>10, <1>11, <1>12, <1>13, <1>14
  DEF Next

\* The invariant holds in every state of the conversation.
LEMMA ChatAlways == Spec => []ChatInv
<1>1. Init => ChatInv
  BY ChatStarts
<1>2. ChatInv /\ [Next]_vars => ChatInv'
  BY ChatStep
<1>3. QED
  BY <1>1, <1>2, PTL DEF Spec

-----------------------------------------------------------------------------
(* What holds of every conversation *)

\* A set of at most one thing.
LEMMA AtMostOne ==
  ASSUME NEW S, NEW x, S \subseteq {x}
  PROVE  Cardinality(S) <= 1
<1>1. IsFiniteSet({x}) /\ Cardinality({x}) = 1
  BY FS_Singleton
<1>2. IsFiniteSet(S) /\ Cardinality(S) <= Cardinality({x})
  BY <1>1, FS_Subset
<1>3. QED
  BY <1>1, <1>2

\* The tables, the route and the message at work are what the controller and the gateway declare
\* them to be, and the table of runs shows at most one of a conversation running: the one a later
\* start or a reconciliation closes (controller.ts startWithContext, reconcileInterruptedRuns).
THEOREM ChatTypeCorrect == Spec => []TypeOK
<1>1. ChatInv => TypeOK
  <2> SUFFICES ASSUME ChatInv PROVE TypeOK
    OBVIOUS
  <2>1. /\ \A m \in Message : /\ version[m].at \in Nat /\ version[m].at <= 1 + trouble
                              /\ handled[m].at \in Nat /\ handled[m].at <= version[m].at
        /\ trouble \in Nat /\ trouble <= MaxTrouble /\ MaxTrouble \in Nat
        /\ version \in [Message -> Revision] /\ handled \in [Message -> Revision]
        /\ kind \in [Message -> Kinds]
    BY ConstantTypes DEF ChatInv, Messages, ChatOK, Revision
  <2>2. \A m \in Message : version[m] \in Version /\ handled[m] \in Version
    <3>1. \A m \in Message : /\ version[m].at \in 0..1 + MaxTrouble
                              /\ handled[m].at \in 0..1 + MaxTrouble
      BY <2>1
    <3>2. \A v \in Revision : v.at \in 0..1 + MaxTrouble => v \in Version
      BY DEF Revision, Version
    <3>3. QED
      BY <2>1, <3>1, <3>2
  <2>3. /\ runs \in Seq(Row) /\ responses \in Seq(Shown)
        /\ \A r \in Run : runs[r] \in Row /\ runs[r].response \in 1..Len(responses)
        /\ \A i \in 1..Len(responses) : responses[i] \in Shown
        /\ bound \in {"none", "resetting", "active"}
    BY ElementOfSeq DEF ChatInv, Process, TablesOK, Run
  <2>4. Cardinality({r \in Run : runs[r].status = "running"}) <= 1
    <3> DEFINE S == {r \in Run : runs[r].status = "running"}
    <3>1. PICK x : S \subseteq {x}
      BY DEF ChatInv, Process, RunsOK, Running
    <3> HIDE DEF S
    <3>2. QED
      BY <3>1, AtMostOne DEF S
  <2>5. /\ cursor \in 0..1 + MaxMessages /\ route.at \in Places
        /\ work.m \in 0..MaxMessages /\ work.run \in 0..Len(runs) /\ active \in 0..Len(runs)
        /\ \A m \in Message : \A v \in given[m] : v.at \in 1..version[m].at
    BY DEF ChatInv, Messages, RouteOK, Route, WorkOK, HeardOK, Process, ProcessOK
  <2>6. QED
    BY <2>1, <2>2, <2>3, <2>4, <2>5 DEF TypeOK, Row, Shown, Places
<1>2. QED
  BY <1>1, ChatAlways, PTL

\* However follow-ups, replacements, failures, completions and restarts of the process interleave,
\* no second turn is started beside one that nobody told to stop: the active run is the only one
\* whose turn can be live, and a start waits until there is none.
THEOREM OneTurnAtATime == Spec => []OneTurnPerThread
<1>1. ChatInv => OneTurnPerThread
  <2> DEFINE S == {r \in Run : turn[r] = "live"}
  <2>1. ChatInv => S \subseteq {active}
    BY DEF ChatInv, Process, TurnsOK, RunTurn
  <2> HIDE DEF S
  <2>2. QED
    BY <2>1, AtMostOne DEF OneTurnPerThread, S
<1>2. QED
  BY <1>1, ChatAlways, PTL

\* The cursor of the route never passes a message that was not handled, and what was handled went
\* to a turn or was excused, whatever is edited, lost with a connection or given up half-way.
THEOREM EveryMessageAnswered == Spec => []NoMessageIsLost
<1>1. ChatInv => NoMessageIsLost
  BY DEF ChatInv, Messages
<1>2. QED
  BY <1>1, ChatAlways, PTL

\* Through moves, failed edits, outputs that reach nobody and deaths of the process between two
\* writes, every working response that a run has is that of one the table shows running, or of one
\* whose row was closed without a word (startWithContext, receiveSessionOutput before the run is
\* active): the next start, a reconciliation or an output finds the first; the second may stay.
THEOREM PlaceholdersAreOwned == Spec => []PlaceholdersHaveRuns
<1>1. ChatInv => PlaceholdersHaveRuns
  BY DEF ChatInv, Process
<1>2. QED
  BY <1>1, ChatAlways, PTL

\* The two places where the runtime is given a message: a launch and a follow-up.
LEMMA GivenTo ==
  ASSUME [Next]_vars
  PROVE  UNCHANGED given \/ (work.step # "idle" /\ Give(work.m, work.v))
<1>1. CASE Post \/ (\E m \in Message : EditMessage(m)) \/ UNCHANGED vars
  BY <1>1 DEF Post, EditMessage, vars
<1>2. CASE Connect \/ Restore \/ Reconcile \/ List \/ OpenStream \/ Resync \/ Disconnect \/ Stop
           \/ ReconcileEnds
  BY <1>2 DEF Connect, Restore, Reconcile, List, OpenStream, Resync, Disconnect, Stop,
              ReconcileEnds, OnlyRoute
<1>3. CASE Skip \/ Take \/ Control \/ NewSession \/ Restart \/ Prepare \/ Observe
  BY <1>3 DEF Skip, Take, Control, NewSession, Restart, Prepare, Observe, past
<1>4. CASE Launch
  BY <1>4 DEF Launch, At
<1>5. CASE Steer
  BY <1>5 DEF Steer, At
<1>6. ASSUME NEW r \in Run, RunStep(r)
      PROVE  UNCHANGED given
  BY <1>6 DEF RunStep, TurnEnds, Completes, Finish, Fail, Interrupt, Move, OnlyRun
<1>7. CASE Output \/ Recover \/ Crash \/ StopCancels
  BY <1>7 DEF Output, Recover, Crash, StopCancels, past
<1>8. QED
  BY <1>1, <1>2, <1>3, <1>4, <1>5, <1>6, <1>7 DEF Next

\* Edits, the stream and catch-up may bring a message several times and in several versions, and
\* a failure may bring it back: a turn still never gets a version from an earlier second after one
\* from a later second. Within a second the order is that of arrival (store.ts isHandled).
THEOREM VersionsOnlyAdvance == Spec => VersionsAdvance
<1> DEFINE Advances ==
      \A m \in Message : \A v \in given'[m] \ given[m] : \A w \in given[m] : w.at <= v.at
<1>1. ASSUME ChatInv, [Next]_vars PROVE Advances
  <2>1. CASE UNCHANGED given
    BY <2>1
  <2>2. CASE work.step # "idle" /\ Give(work.m, work.v)
    <3>1. Current(work.m, work.v)
      BY <1>1, <2>2, WorkIsCurrent DEF ChatInv
    <3>2. /\ given \in [Message -> SUBSET Revision] /\ work.m \in Message
          /\ \A w \in given[work.m] : w.at <= work.v.at
      BY <1>1, <3>1 DEF ChatInv, Messages, HeardOK, Current
    <3>3. ASSUME NEW m \in Message, NEW v \in given'[m], v \notin given[m], NEW w \in given[m]
          PROVE  w.at <= v.at
      <4>1. m = work.m /\ v = work.v
        BY <2>2, <3>2, <3>3 DEF Give
      <4>2. QED
        BY <3>2, <3>3, <4>1
    <3>4. QED
      BY <3>3
  <2>3. QED
    BY <1>1, <2>1, <2>2, GivenTo
<1> HIDE DEF Advances
<1>2. ChatInv /\ [Next]_vars => [Advances]_vars
  BY <1>1
<1>3. QED
  BY <1>2, ChatAlways, PTL DEF Spec, VersionsAdvance, Advances
=============================================================================
