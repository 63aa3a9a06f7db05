------------------------------ MODULE HubProofs ------------------------------
(***************************************************************************)
(* The hub for any number of browsers and any size of their queues.        *)
(*                                                                         *)
(* A Broadcast works through clients that stay registered while it holds   *)
(* the mutex (CastRegistered), and a channel is closed after its client    *)
(* has left (ClosedGone): no send meets a closed channel.  What a browser  *)
(* will show is decided by the last message on its way that carries a      *)
(* status, or by what it shows if there is none (Says); unless a push is   *)
(* still to come to it or one was lost, that is the node's status.         *)
(***************************************************************************)
EXTENDS Hub, TLAPS

\* sendInit is between reading the table and the queue.
Sending == {"try", "drop", "retry"}

\* Clients between Connect and Leave.
Joined == {"joined", "try", "drop", "retry", "stream", "leaving"}

\* The status a browser that shows old comes to show once it has applied q is s.
Says(q, old, s) ==
    /\ \A i \in 1..Len(q) :
         Carries(q[i]) /\ (\A j \in 1..Len(q) : j > i => ~Carries(q[j])) => q[i].status = s
    /\ (\A i \in 1..Len(q) : ~Carries(q[i])) => old = s

\* The push under way has not been queued for b.
Pending(b) ==
    /\ driver = "push"
    /\ cast.msg.kind = "node_status" =>
         b \in cast.todo \/ (cast.at = b /\ cast.step /= "done")

-----------------------------------------------------------------------------
Queues == queue \in [Browsers -> Seq(Messages)]

Registered == \A b \in Browsers : b \in cl <=> pc[b] \in Joined

CastRegistered ==
    /\ cast.todo \subseteq cl
    /\ cast.step /= "done" => cast.at \in cl

ClosedGone == \A b \in closed : pc[b] \in {"closed", "off"}

CastMessage ==
    \/ cast.msg = Other
    \/ cast.msg = Msg("node_status", told) /\ driver = "push"

InitMessage == \A b \in Browsers : pc[b] \in Sending => init[b].kind = "init"

\* What is on its way to a browser that missed nothing ends with the status.
OnItsWay(b) ==
    /\ pc[b] \in Sending => init[b].status = told
    /\ pc[b] = "stream" => Says(queue[b], shown[b], told)

Current == \A b \in writing \ missed : ~Pending(b) => OnItsWay(b)

Shape ==
    /\ TypeOK
    /\ Queues
    /\ Registered
    /\ CastRegistered
    /\ ClosedGone
    /\ CastMessage
    /\ InitMessage

HubInv == Shape /\ Current

-----------------------------------------------------------------------------
\* What the messages are.
LEMMA MessageTypes ==
    /\ Other \in Messages /\ ~Carries(Other) /\ Other.kind = "other"
    /\ \A s \in Status : /\ Msg("node_status", s) \in Messages
                         /\ Carries(Msg("node_status", s))
                         /\ Msg("node_status", s).kind = "node_status"
                         /\ Msg("node_status", s).status = s
    /\ \A s \in Status \cup {Unknown} : /\ Msg("init", s) \in Messages
                                        /\ Msg("init", s).kind = "init"
                                        /\ Msg("init", s).status = s
    /\ \A m \in Messages : m.status \in Status \cup {Unknown}
    /\ \A m \in Messages : m.kind = "init" => Carries(m)
BY DEF Messages, Msg, Other, Carries, Status, Unknown

\* A message with the status at the end of a queue is the last word.
LEMMA SaysAppend ==
    ASSUME NEW q \in Seq(Messages), NEW m \in Messages, NEW old, NEW s,
           \/ Carries(m) /\ m.status = s
           \/ ~Carries(m) /\ Says(q, old, s)
    PROVE  Says(Append(q, m), old, s)
<1> DEFINE a == Append(q, m)
<1>1. /\ Len(a) = Len(q) + 1 /\ Len(q) \in Nat
      /\ a[Len(q) + 1] = m
      /\ \A i \in 1..Len(q) : a[i] = q[i]
  OBVIOUS
<1> HIDE DEF a
<1>2. CASE Carries(m) /\ m.status = s
  <2>1. \A i \in 1..Len(a) : (\A j \in 1..Len(a) : j > i => ~Carries(a[j])) => i = Len(a)
    BY <1>1, <1>2
  <2> QED
    BY <1>1, <1>2, <2>1 DEF Says, a
<1>3. CASE ~Carries(m) /\ Says(q, old, s)
  <2>1. ASSUME NEW i \in 1..Len(a), Carries(a[i]),
               \A j \in 1..Len(a) : j > i => ~Carries(a[j])
        PROVE  a[i].status = s
    <3>1. i \in 1..Len(q)
      BY <1>1, <1>3, <2>1
    <3>2. \A j \in 1..Len(q) : j > i => ~Carries(q[j])
      BY <1>1, <2>1
    <3> QED
      BY <1>1, <1>3, <2>1, <3>1, <3>2 DEF Says
  <2>2. (\A i \in 1..Len(a) : ~Carries(a[i])) => old = s
    BY <1>1, <1>3 DEF Says
  <2> QED
    BY <2>1, <2>2 DEF Says, a
<1> QED
  BY <1>2, <1>3

\* Taking the oldest message changes nothing if a later one carries a status, or
\* if it carries none, or if the browser has applied it.
LEMMA SaysTail ==
    ASSUME NEW q \in Seq(Messages), q /= <<>>, NEW old, NEW new, NEW s, Says(q, old, s),
           \/ \E i \in 2..Len(q) : Carries(q[i])
           \/ new = Applied(Head(q), old)
    PROVE  Says(Tail(q), new, s)
<1> DEFINE t == Tail(q)
<1>1. /\ Len(t) = Len(q) - 1 /\ Len(q) \in Nat /\ Len(q) >= 1 /\ Head(q) = q[1]
      /\ \A i \in 1..Len(t) : t[i] = q[i + 1]
  OBVIOUS
<1> HIDE DEF t
<1>2. ASSUME NEW i \in 1..Len(t), Carries(t[i]),
             \A j \in 1..Len(t) : j > i => ~Carries(t[j])
      PROVE  t[i].status = s
  <2>1. i + 1 \in 1..Len(q) /\ t[i] = q[i + 1]
    BY <1>1
  <2>2. ASSUME NEW j \in 1..Len(q), j > i + 1  PROVE ~Carries(q[j])
    <3>1. j - 1 \in 1..Len(t) /\ j - 1 > i /\ t[j - 1] = q[j]
      BY <1>1, <2>2
    <3> QED
      BY <1>2, <3>1
  <2> QED
    BY <1>2, <2>1, <2>2 DEF Says
<1>3. ASSUME \A i \in 1..Len(t) : ~Carries(t[i])
      PROVE  new = s
  <2>1. ASSUME NEW j \in 2..Len(q)  PROVE ~Carries(q[j])
    <3>1. j - 1 \in 1..Len(t) /\ t[j - 1] = q[j]
      BY <1>1
    <3> QED
      BY <1>3, <3>1
  <2>2. new = Applied(q[1], old)
    BY <1>1, <2>1
  <2>3. CASE Carries(q[1])
    <3>1. \A j \in 1..Len(q) : j > 1 => ~Carries(q[j])
      BY <1>1, <2>1
    <3>2. 1 \in 1..Len(q)
      BY <1>1
    <3> QED
      BY <2>2, <2>3, <3>1, <3>2 DEF Says, Applied
  <2>4. CASE ~Carries(q[1])
    <3>1. \A j \in 1..Len(q) : ~Carries(q[j])
      BY <1>1, <2>1, <2>4
    <3> QED
      BY <2>2, <2>4, <3>1 DEF Says, Applied
  <2> QED
    BY <2>3, <2>4
<1> QED
  BY <1>2, <1>3 DEF Says, t

\* Queueing one more message, while there is room, keeps a queue one, and so does
\* taking the oldest.
LEMMA QueueBounds ==
    ASSUME NEW q \in Seq(Messages), Len(q) <= Buffer
    PROVE  /\ \A m \in Messages :
                Len(q) < Buffer => Append(q, m) \in Seq(Messages) /\ Len(Append(q, m)) <= Buffer
           /\ q /= <<>> => Tail(q) \in Seq(Messages) /\ Len(Tail(q)) <= Buffer
           /\ q /= <<>> => Head(q) \in Messages
BY HubAssumption

-----------------------------------------------------------------------------
\* What a step of trySend does to queues and to missed, whoever calls it.
LEMMA TrySendTypes ==
    ASSUME TypeOK, Queues, NEW b \in Browsers, NEW m \in Messages, NEW step, NEW next,
           TrySend(b, m, step, next)
    PROVE  /\ Queues'
           /\ \A c \in Browsers : queue'[c] \in Seq(Messages) /\ Len(queue'[c]) <= Buffer
           /\ missed' \in SUBSET Browsers
           /\ \A c \in Browsers \ {b} : queue'[c] = queue[c] /\ (c \in missed' <=> c \in missed)
<1>1. /\ queue \in [Browsers -> Seq(Messages)] /\ missed \in SUBSET Browsers
      /\ \A c \in Browsers : Len(queue[c]) <= Buffer
      /\ queue[b] \in Seq(Messages) /\ Len(queue[b]) <= Buffer
  BY DEF TypeOK, Queues
<1>2. /\ missed' \in SUBSET Browsers
      /\ \A c \in Browsers \ {b} : c \in missed' <=> c \in missed
  BY <1>1 DEF TrySend, Try, Drop, Retry, Enqueue, Lose
<1>3. PICK q : /\ queue' = [queue EXCEPT ![b] = q]
               /\ q \in Seq(Messages) /\ Len(q) <= Buffer
  <2>1. CASE UNCHANGED queue
    BY <1>1, <2>1
  <2>2. CASE Enqueue(b, m) /\ Len(queue[b]) < Buffer
    BY <1>1, <2>2, QueueBounds DEF Enqueue
  <2>3. CASE queue[b] /= <<>> /\ queue' = [queue EXCEPT ![b] = Tail(@)]
    BY <1>1, <2>3, QueueBounds
  <2> QED
    BY <2>1, <2>2, <2>3 DEF TrySend, Try, Drop, Retry
<1>4. Queues' /\ \A c \in Browsers \ {b} : queue'[c] = queue[c]
  BY <1>1, <1>3 DEF Queues
<1>5. \A c \in Browsers : queue'[c] \in Seq(Messages) /\ Len(queue'[c]) <= Buffer
  BY <1>1, <1>3
<1> QED
  BY <1>2, <1>4, <1>5

\* The steps of trySend before the last, and those for a message without a status,
\* leave the last word as it was or count b among those who missed it.
LEMMA TrySendKeeps ==
    ASSUME TypeOK, Queues, NEW b \in Browsers, NEW m \in Messages, NEW step, NEW next,
           TrySend(b, m, step, next), next /= "done" \/ m = Other, b \notin missed',
           NEW old, NEW s, Says(queue[b], old, s)
    PROVE  b \notin missed /\ Says(queue'[b], old, s)
<1>1. queue \in [Browsers -> Seq(Messages)] /\ queue[b] \in Seq(Messages)
  BY DEF Queues
<1>2. CASE UNCHANGED queue /\ (UNCHANGED missed \/ Lose(b, m))
  BY <1>2 DEF Lose
<1>3. CASE Enqueue(b, m) /\ next = "done"
  <2>1. queue'[b] = Append(queue[b], m) /\ m = Other
    BY <1>1, <1>3 DEF Enqueue
  <2>2. b \notin missed
    BY <1>3, <2>1, MessageTypes DEF Enqueue
  <2> QED
    BY <1>1, <2>1, <2>2, SaysAppend, MessageTypes
<1>4. CASE Drop(b, next) /\ queue[b] /= <<>>
  <2>1. queue'[b] = Tail(queue[b])
    BY <1>1, <1>4 DEF Drop
  <2>2. /\ b \notin missed
        /\ \/ \E i \in 2..Len(queue[b]) : Carries(queue[b][i])
           \/ ~Carries(Head(queue[b]))
    BY <1>4 DEF Drop, Lose
  <2>3. \/ \E i \in 2..Len(queue[b]) : Carries(queue[b][i])
        \/ old = Applied(Head(queue[b]), old)
    BY <2>2 DEF Applied
  <2> QED
    BY <1>1, <1>4, <2>1, <2>2, <2>3, SaysTail
<1> QED
  BY <1>2, <1>3, <1>4 DEF TrySend, Try, Drop, Retry

\* The last step for a message with a status makes it the last word, or counts b
\* among those who missed it; a push does so while an init message is on its way.
LEMMA TrySendTells ==
    ASSUME TypeOK, Queues, NEW b \in Browsers, NEW m \in Messages, NEW step,
           TrySend(b, m, step, "done"), Carries(m), b \notin missed', NEW old
    PROVE  /\ Says(queue'[b], old, m.status)
           /\ m.kind = "node_status" => pc[b] \notin Sending
           /\ m.kind /= "node_status" => b \notin missed
<1>1. queue \in [Browsers -> Seq(Messages)] /\ queue[b] \in Seq(Messages)
  BY DEF Queues
<1>2. Enqueue(b, m)
  BY DEF TrySend, Try, Drop, Retry, Lose
<1>3. queue'[b] = Append(queue[b], m)
  BY <1>1, <1>2 DEF Enqueue
<1>4. /\ m.kind = "node_status" => pc[b] \notin Sending
      /\ m.kind /= "node_status" => b \notin missed
  BY <1>2 DEF Enqueue, Sending
<1> QED
  BY <1>1, <1>3, <1>4, SaysAppend

-----------------------------------------------------------------------------
\* No connection answers more pings than its deadline leaves time for.
LEMMA PongsTyped ==
    ASSUME TypeOK, NEW b \in Browsers, Serve(b)
    PROVE  pongs' \in [Browsers -> 0..Pings]
<1>1. pongs \in [Browsers -> 0..Pings]
  BY DEF TypeOK
<1>2. CASE UNCHANGED pongs
  BY <1>1, <1>2
<1>3. CASE pongs' = [pongs EXCEPT ![b] = 0]
  BY <1>1, <1>3 DEF Pings
<1>4. CASE pongs[b] < Pings /\ pongs' = [pongs EXCEPT ![b] = @ + 1]
  BY <1>1, <1>4 DEF Pings
<1> QED
  BY <1>2, <1>3, <1>4
     DEF Serve, Connect, ReadStatuses, SendInit, Pong, Deadline, ReadBreaks, Leave, Close, HangUp

\* Every step keeps the types, who is registered, and what is broadcast.
LEMMA ShapeStep ==
    ASSUME Shape, [Next]_vars
    PROVE  Shape'
<1> USE HubAssumption, MessageTypes
    DEF Shape, TypeOK, Queues, Registered, CastRegistered, ClosedGone, CastMessage, InitMessage,
        Sending, Joined, node, client, Go, NoCast, Lock, Steps
<1>1. ASSUME NEW s \in Status, Mark(s)  PROVE Shape'
  BY <1>1 DEF Mark
<1>2. CASE Push
  BY <1>2 DEF Push
<1>3. CASE Broadcast
  BY <1>3 DEF Broadcast
<1>4. CASE Unlock
  BY <1>4 DEF Unlock
<1>5. CASE DatabaseFlips
  BY <1>5 DEF DatabaseFlips
<1>6. ASSUME NEW b \in Browsers, Pick(b)  PROVE Shape'
  BY <1>6 DEF Pick
<1>7. ASSUME NEW b \in Browsers, Send(b)  PROVE Shape'
  <2>1. PICK next \in Steps :
            TrySend(b, cast.msg, cast.step, next) /\ cast' = [cast EXCEPT !.step = next]
    BY <1>7 DEF Send
  <2>2. /\ Queues' /\ missed' \in SUBSET Browsers
        /\ \A c \in Browsers : queue'[c] \in Seq(Messages) /\ Len(queue'[c]) <= Buffer
    <3> HIDE DEF TypeOK, Queues
    <3> QED
      BY <2>1, TrySendTypes DEF TypeOK
  <2>3. /\ cast'.msg = cast.msg /\ cast'.todo = cast.todo /\ cast'.at = cast.at
        /\ cast' \in [msg : Messages, todo : SUBSET Browsers,
                      step : Steps \cup {"try"}, at : Browsers \cup {NoOne}]
    BY <2>1
  <2>4. cast.at \in cl
    BY <1>7 DEF Send
  <2>5. UNCHANGED <<told, column, driver, dbUp, cl, pc, init, closed, writing, pongs, shown>>
    BY <1>7 DEF Send
  <2>6. TypeOK'
    BY <2>2, <2>3, <2>5, Zenon DEF TypeOK
  <2>7. (Registered /\ ClosedGone /\ CastMessage /\ InitMessage)'
    BY <2>3, <2>5
  <2>8. CastRegistered'
    BY <2>3, <2>4, <2>5
  <2> HIDE DEF TypeOK, Queues, Registered, CastRegistered, ClosedGone, CastMessage, InitMessage
  <2> QED
    BY <2>2, <2>6, <2>7, <2>8
<1>8. ASSUME NEW b \in Browsers, Connect(b)  PROVE Shape'
  BY <1>8 DEF Connect
<1>9. ASSUME NEW b \in Browsers, ReadStatuses(b)  PROVE Shape'
  BY <1>9 DEF ReadStatuses
<1>10. ASSUME NEW b \in Browsers, SendInit(b)  PROVE Shape'
  <2>1. PICK next \in Steps :
            /\ TrySend(b, init[b], pc[b], next)
            /\ Go(b, IF next = "done" THEN "stream" ELSE next)
            /\ init' = IF next = "done" THEN [init EXCEPT ![b] = Other] ELSE init
    BY <1>10 DEF SendInit
  <2>2. init[b] \in Messages
    OBVIOUS
  <2>3. /\ Queues' /\ missed' \in SUBSET Browsers
        /\ \A c \in Browsers : queue'[c] \in Seq(Messages) /\ Len(queue'[c]) <= Buffer
    <3> HIDE DEF TypeOK, Queues
    <3> QED
      BY <2>1, <2>2, TrySendTypes
  <2>4. /\ pc' \in [Browsers -> {"off", "joined", "try", "drop", "retry", "stream",
                                "leaving", "deleted", "closed"}]
        /\ init' \in [Browsers -> Messages]
    BY <1>10, <2>1 DEF SendInit
  <2>5. pc[b] \in Sending /\ pc'[b] \in Joined /\ (pc'[b] \in Sending => init' = init)
    BY <1>10, <2>1 DEF SendInit
  <2>6. /\ \A c \in Browsers \ {b} : pc'[c] = pc[c] /\ init'[c] = init[c]
        /\ UNCHANGED <<told, column, driver, dbUp, cast, cl, closed, writing, pongs, shown>>
    BY <1>10, <2>1 DEF SendInit
  <2>7. TypeOK'
    BY <2>3, <2>4, <2>6
  <2>8. Registered' /\ InitMessage'
    <3>1. Registered /\ InitMessage
      OBVIOUS
    <3> HIDE DEF TypeOK, Shape
    <3> QED
      BY <2>5, <2>6, <3>1
  <2>9. CastRegistered' /\ ClosedGone' /\ CastMessage'
    <3>1. /\ ClosedGone /\ CastRegistered /\ CastMessage
          /\ b \notin closed /\ closed \subseteq Browsers
      BY <2>5
    <3>2. ClosedGone'
      <4> HIDE DEF TypeOK, Shape
      <4> QED
        BY <2>6, <3>1
    <3>3. CastRegistered' /\ CastMessage'
      <4> HIDE DEF TypeOK, Shape
      <4> QED
        BY <2>6, <3>1
    <3> QED
      BY <3>2, <3>3
  <2> QED
    BY <2>3, <2>7, <2>8, <2>9
<1>11. ASSUME NEW b \in Browsers, Deadline(b) \/ ReadBreaks(b)  PROVE Shape'
  <2>1. pongs' \in [Browsers -> 0..Pings]
    BY <1>11, PongsTyped DEF Serve
  <2>2. /\ pc[b] = "stream" /\ pc' = [pc EXCEPT ![b] = "leaving"]
        /\ UNCHANGED <<node, dbUp, cast, cl, init, queue, closed, writing, shown, missed>>
    BY <1>11 DEF Deadline, ReadBreaks
  <2> QED
    BY <2>1, <2>2
<1>12. ASSUME NEW b \in Browsers, Leave(b)  PROVE Shape'
  BY <1>12 DEF Leave
<1>13. ASSUME NEW b \in Browsers, Close(b)  PROVE Shape'
  BY <1>13 DEF Close
<1>14. ASSUME NEW b \in Browsers, HangUp(b)  PROVE Shape'
  <2>1. pongs' \in [Browsers -> 0..Pings]
    BY <1>14, PongsTyped DEF Serve
  <2> QED
    BY <1>14, <2>1 DEF HangUp
<1>15. ASSUME NEW b \in Browsers, Deliver(b)  PROVE Shape'
  <2>1. /\ queue[b] \in Seq(Messages) /\ Len(queue[b]) <= Buffer /\ queue[b] /= <<>>
        /\ queue' = [queue EXCEPT ![b] = Tail(queue[b])]
        /\ shown' = [shown EXCEPT ![b] = Applied(Head(queue[b]), shown[b])]
    BY <1>15 DEF Deliver
  <2>2. /\ Tail(queue[b]) \in Seq(Messages) /\ Len(Tail(queue[b])) <= Buffer
        /\ Head(queue[b]) \in Messages
    BY <2>1, QueueBounds
  <2>3. Applied(Head(queue[b]), shown[b]) \in Status \cup {Unknown}
    BY <2>2 DEF Applied
  <2>4. shown' \in [Browsers -> Status \cup {Unknown}]
    BY <2>1, <2>3
  <2>5. Queues' /\ \A c \in Browsers : queue'[c] \in Seq(Messages) /\ Len(queue'[c]) <= Buffer
    BY <2>1, <2>2
  <2> QED
    BY <1>15, <2>4, <2>5 DEF Deliver
<1>16. ASSUME NEW b \in Browsers, WriteFails(b)  PROVE Shape'
  BY <1>16 DEF WriteFails
<1>17. ASSUME NEW b \in Browsers, Pong(b)  PROVE Shape'
  <2>1. pongs' \in [Browsers -> 0..Pings]
    BY <1>17, PongsTyped DEF Serve
  <2> QED
    BY <1>17, <2>1 DEF Pong
<1>18. CASE UNCHANGED vars
  BY <1>18 DEF vars
<1> QED
  BY <1>1, <1>2, <1>3, <1>4, <1>5, <1>6, <1>7, <1>8, <1>9, <1>10,
     <1>11, <1>12, <1>13, <1>14, <1>15, <1>16, <1>17, <1>18 DEF Next, Serve

\* Whoever trySend leaves out of missed was not in it before, except by a push
\* that was queued.
LEMMA TrySendUnmissed ==
    ASSUME NEW b \in Browsers, NEW m \in Messages, NEW step, NEW next,
           TrySend(b, m, step, next), next /= "done" \/ m = Other, b \notin missed'
    PROVE  b \notin missed
BY MessageTypes DEF TrySend, Try, Drop, Retry, Enqueue, Lose

\* Every step keeps the last word right for browsers that missed nothing.
LEMMA CurrentStep ==
    ASSUME Shape, Current, [Next]_vars
    PROVE  Current'
<1> USE DEF Current, Pending, node, client
<1>1. ASSUME NEW s \in Status, Mark(s)  PROVE Current'
  <2>1. driver' = "push" /\ cast' = cast /\ cast.msg.kind /= "node_status"
    BY <1>1, MessageTypes DEF Mark, Shape, CastMessage
  <2> QED
    BY <2>1
<1>2. CASE Push
  <2>1. /\ cast'.todo = cl /\ driver = "push" /\ driver' = driver
        /\ UNCHANGED <<told, cl, pc, init, queue, shown, writing, missed>>
    BY <1>2 DEF Push, Lock
  <2>2. ASSUME NEW c \in writing  PROVE OnItsWay(c) \/ c \in cl
    BY DEF Shape, TypeOK, Registered, OnItsWay, Sending, Joined
  <2>3. ASSUME NEW c \in writing \ missed, ~Pending(c)'  PROVE OnItsWay(c)
    BY <2>1, <2>2, <2>3
  <2> QED
    BY <2>1, <2>3 DEF OnItsWay
<1>3. CASE Broadcast
  <2>1. /\ cast.msg.kind /= "node_status" /\ cast'.msg.kind /= "node_status"
        /\ UNCHANGED <<told, driver, pc, init, queue, shown, writing, missed>>
    BY <1>3, MessageTypes DEF Broadcast, Lock, NoCast
  <2> QED
    BY <2>1 DEF OnItsWay
<1>4. CASE Unlock
  <2>1. /\ cast.step = "done" /\ cast.todo = {} /\ cast' = NoCast
        /\ driver' = IF cast.msg.kind = "node_status" THEN "idle" ELSE driver
        /\ UNCHANGED <<told, pc, init, queue, shown, writing, missed>>
    BY <1>4 DEF Unlock
  <2>2. ASSUME NEW c \in Browsers, ~Pending(c)'  PROVE ~Pending(c)
    BY <2>1, <2>2, MessageTypes DEF NoCast
  <2> QED
    BY <2>1, <2>2 DEF OnItsWay, Shape, TypeOK
<1>5. CASE DatabaseFlips
  <2>1. UNCHANGED <<told, driver, cast, pc, init, queue, shown, writing, missed>>
    BY <1>5 DEF DatabaseFlips, node, client
  <2> QED
    BY <2>1 DEF OnItsWay
<1>6. ASSUME NEW b \in Browsers, Pick(b)  PROVE Current'
  <2>1. /\ cast' = [cast EXCEPT !.at = b, !.todo = @ \ {b}, !.step = "try"]
        /\ cast.step = "done"
        /\ UNCHANGED <<told, driver, pc, init, queue, shown, writing, missed>>
    BY <1>6 DEF Pick
  <2>2. /\ cast'.msg = cast.msg /\ cast'.at = b /\ cast'.todo = cast.todo \ {b}
        /\ cast'.step = "try"
    BY <2>1 DEF Shape, TypeOK
  <2>3. ASSUME NEW c \in Browsers, ~Pending(c)'  PROVE ~Pending(c)
    BY <2>1, <2>2, <2>3
  <2> QED
    BY <2>1, <2>3 DEF OnItsWay, Shape, TypeOK
<1>7. ASSUME NEW b \in Browsers, Send(b)  PROVE Current'
  <2>1. PICK next \in Steps :
            TrySend(b, cast.msg, cast.step, next) /\ cast' = [cast EXCEPT !.step = next]
    BY <1>7 DEF Send
  <2>2. /\ cast.at = b /\ cast.step /= "done" /\ cast.msg \in Messages
        /\ UNCHANGED <<told, driver, pc, init, shown, writing>>
        /\ cast'.msg = cast.msg /\ cast'.todo = cast.todo /\ cast'.at = b /\ cast'.step = next
    BY <1>7, <2>1 DEF Send, Shape, TypeOK
  <2>3. TypeOK /\ Queues /\ CastMessage
    BY DEF Shape
  <2>4. \A c \in Browsers \ {b} : queue'[c] = queue[c] /\ (c \in missed' <=> c \in missed)
    BY <2>1, <2>2, <2>3, TrySendTypes
  <2>5. ASSUME NEW c \in (writing \ missed') \ {b}, ~Pending(c)'  PROVE OnItsWay(c)'
    <3>1. c \in Browsers \ {b} /\ c \in writing \ missed /\ ~Pending(c)
      BY <2>2, <2>3, <2>4, <2>5 DEF TypeOK
    <3> QED
      BY <2>2, <2>4, <3>1 DEF OnItsWay
  <2>6. ASSUME b \in writing \ missed', ~Pending(b)'  PROVE OnItsWay(b)'
    <3>1. CASE ~Pending(b)
      <4>1. next /= "done" \/ cast.msg = Other
        BY <2>2, <2>3, <3>1, MessageTypes DEF CastMessage, TypeOK
      <4>2. b \notin missed
        BY <2>1, <2>2, <2>3, <2>6, <4>1, TrySendUnmissed
      <4>3. OnItsWay(b)
        BY <2>6, <3>1, <4>2
      <4>4. pc[b] = "stream" => Says(queue'[b], shown[b], told)
        BY <2>1, <2>2, <2>3, <2>6, <4>1, <4>3, TrySendKeeps DEF OnItsWay
      <4> QED
        BY <2>2, <4>3, <4>4 DEF OnItsWay
    <3>2. CASE Pending(b)
      <4>1. cast.msg = Msg("node_status", told) /\ next = "done"
        BY <2>2, <2>3, <2>6, <3>2, MessageTypes DEF CastMessage
      <4>2. cast.msg.kind = "node_status" /\ cast.msg.status = told /\ Carries(cast.msg)
        BY <2>3, <4>1, MessageTypes DEF TypeOK
      <4>3. pc[b] \notin Sending /\ Says(queue'[b], shown[b], told)
        BY <2>1, <2>2, <2>3, <2>6, <4>1, <4>2, TrySendTells
      <4> QED
        BY <2>2, <4>3 DEF OnItsWay
    <3> QED
      BY <3>1, <3>2
  <2> QED
    BY <2>2, <2>5, <2>6
<1>8. ASSUME NEW b \in Browsers, Connect(b)  PROVE Current'
  <2>1. /\ b \in missed' /\ pc[b] = "off"
        /\ \A c \in Browsers \ {b} : /\ (c \in missed' <=> c \in missed)
                                     /\ (c \in writing' <=> c \in writing)
                                     /\ queue'[c] = queue[c] /\ pc'[c] = pc[c]
        /\ UNCHANGED <<told, driver, cast, init, shown>>
    BY <1>8 DEF Connect, Go, node, Shape, TypeOK, Queues
  <2>2. writing' \in SUBSET Browsers
    BY <1>8 DEF Connect, Shape, TypeOK
  <2> QED
    BY <2>1, <2>2 DEF OnItsWay
<1>9. ASSUME NEW b \in Browsers, ReadStatuses(b)  PROVE Current'
  <2>1. /\ \A c \in Browsers \ {b} : /\ (c \in missed' <=> c \in missed)
                                     /\ pc'[c] = pc[c] /\ init'[c] = init[c]
        /\ UNCHANGED <<told, driver, cast, queue, writing, shown>>
    BY <1>9 DEF ReadStatuses, Go, node, Shape, TypeOK
  <2>2. b \notin missed' => init'[b].status = told /\ pc'[b] = "try"
    BY <1>9, MessageTypes DEF ReadStatuses, Go, Shape, TypeOK
  <2> QED
    BY <2>1, <2>2 DEF OnItsWay, Shape, TypeOK
<1>10. ASSUME NEW b \in Browsers, SendInit(b)  PROVE Current'
  <2>1. PICK next \in Steps :
            /\ TrySend(b, init[b], pc[b], next)
            /\ Go(b, IF next = "done" THEN "stream" ELSE next)
            /\ init' = IF next = "done" THEN [init EXCEPT ![b] = Other] ELSE init
    BY <1>10 DEF SendInit
  <2>2. TypeOK /\ Queues /\ init[b] \in Messages /\ init[b].kind = "init" /\ pc[b] \in Sending
    BY <1>10 DEF SendInit, Shape, TypeOK, InitMessage, Sending
  <2>3. \A c \in Browsers \ {b} : /\ queue'[c] = queue[c] /\ (c \in missed' <=> c \in missed)
                                  /\ pc'[c] = pc[c] /\ init'[c] = init[c]
    <3>1. \A c \in Browsers \ {b} : queue'[c] = queue[c] /\ (c \in missed' <=> c \in missed)
      BY <2>1, <2>2, TrySendTypes
    <3>2. \A c \in Browsers \ {b} : pc'[c] = pc[c] /\ init'[c] = init[c]
      BY <2>1, <2>2 DEF Go, TypeOK
    <3> QED
      BY <3>1, <3>2
  <2>4. UNCHANGED <<told, driver, cast, shown, writing>>
    BY <1>10 DEF SendInit
  <2>5. ASSUME NEW c \in (writing \ missed') \ {b}, ~Pending(c)'  PROVE OnItsWay(c)'
    <3>1. c \in Browsers \ {b} /\ c \in writing \ missed /\ ~Pending(c)
      BY <2>2, <2>3, <2>4, <2>5 DEF TypeOK
    <3> QED
      BY <2>3, <2>4, <3>1 DEF OnItsWay
  <2>6. ASSUME b \in writing \ missed', ~Pending(b)'  PROVE OnItsWay(b)'
    <3>1. CASE next = "done"
      <4>1. Carries(init[b])
        BY <2>2, MessageTypes
      <4>2. Says(queue'[b], shown[b], init[b].status) /\ b \notin missed
        BY <2>1, <2>2, <2>6, <3>1, <4>1, TrySendTells
      <4>3. init[b].status = told
        BY <2>2, <2>4, <2>6, <4>2 DEF OnItsWay
      <4>4. pc'[b] = "stream"
        BY <2>1, <2>2, <3>1 DEF Go, TypeOK
      <4> QED
        BY <2>4, <4>2, <4>3, <4>4 DEF OnItsWay, Sending
    <3>2. CASE next /= "done"
      <4>1. b \notin missed
        BY <2>1, <2>2, <2>6, <3>2, TrySendUnmissed
      <4>2. init'[b].status = told
        BY <2>1, <2>2, <2>4, <2>6, <3>2, <4>1 DEF OnItsWay
      <4>3. pc'[b] /= "stream"
        BY <2>1, <2>2, <3>2 DEF Go, TypeOK, Steps
      <4> QED
        BY <2>4, <4>2, <4>3 DEF OnItsWay
    <3> QED
      BY <3>1, <3>2
  <2> QED
    BY <2>4, <2>5, <2>6
<1>11. ASSUME NEW b \in Browsers, Deadline(b) \/ ReadBreaks(b)  PROVE Current'
  <2>1. /\ pc' = [pc EXCEPT ![b] = "leaving"]
        /\ UNCHANGED <<told, driver, cast, init, queue, shown, writing, missed>>
    BY <1>11 DEF Deadline, ReadBreaks, Go, node
  <2> QED
    BY <2>1 DEF OnItsWay, Shape, TypeOK, Sending
<1>12. ASSUME NEW b \in Browsers, Leave(b)  PROVE Current'
  <2>1. /\ pc' = [pc EXCEPT ![b] = "deleted"]
        /\ UNCHANGED <<told, driver, cast, init, queue, shown, writing, missed>>
    BY <1>12 DEF Leave, Go, node
  <2> QED
    BY <2>1 DEF OnItsWay, Shape, TypeOK, Sending
<1>13. ASSUME NEW b \in Browsers, Close(b)  PROVE Current'
  <2>1. /\ pc' = [pc EXCEPT ![b] = "closed"]
        /\ UNCHANGED <<told, driver, cast, init, queue, shown, writing, missed>>
    BY <1>13 DEF Close, Go, node
  <2> QED
    BY <2>1 DEF OnItsWay, Shape, TypeOK, Sending
<1>14. ASSUME NEW b \in Browsers, HangUp(b)  PROVE Current'
  <2>1. /\ pc' = [pc EXCEPT ![b] = "off"] /\ queue' = [queue EXCEPT ![b] = <<>>]
        /\ writing' = writing \ {b}
        /\ UNCHANGED <<told, driver, cast, init, shown, missed>>
    BY <1>14 DEF HangUp, Go, node
  <2> QED
    BY <2>1 DEF OnItsWay, Shape, TypeOK, Queues
<1>15. ASSUME NEW b \in Browsers, Deliver(b)  PROVE Current'
  <2>1. /\ queue[b] \in Seq(Messages) /\ queue[b] /= <<>>
        /\ queue'[b] = Tail(queue[b])
        /\ shown'[b] = Applied(Head(queue[b]), shown[b])
        /\ \A c \in Browsers \ {b} : queue'[c] = queue[c] /\ shown'[c] = shown[c]
        /\ UNCHANGED <<told, driver, cast, pc, init, writing, missed>>
    BY <1>15 DEF Deliver, node, client, Shape, TypeOK, Queues
  <2>2. Says(queue[b], shown[b], told) => Says(queue'[b], shown'[b], told)
    BY <2>1, SaysTail
  <2> QED
    BY <2>1, <2>2 DEF OnItsWay, Shape, TypeOK
<1>16. ASSUME NEW b \in Browsers, WriteFails(b)  PROVE Current'
  <2>1. /\ writing' = writing \ {b}
        /\ \A c \in Browsers \ {b} : queue'[c] = queue[c]
        /\ UNCHANGED <<told, driver, cast, pc, init, shown, missed>>
    BY <1>16 DEF WriteFails, node, Shape, TypeOK, Queues
  <2> QED
    BY <2>1 DEF OnItsWay, Shape, TypeOK
<1>17. ASSUME NEW b \in Browsers, Pong(b)  PROVE Current'
  <2>1. UNCHANGED <<told, driver, cast, pc, init, queue, shown, writing, missed>>
    BY <1>17 DEF Pong, node
  <2> QED
    BY <2>1 DEF OnItsWay
<1>18. CASE UNCHANGED vars
  <2>1. UNCHANGED <<told, driver, cast, pc, init, queue, shown, writing, missed>>
    BY <1>18 DEF vars, node, client
  <2> QED
    BY <2>1 DEF OnItsWay
<1> QED
  BY <1>1, <1>2, <1>3, <1>4, <1>5, <1>6, <1>7, <1>8, <1>9, <1>10,
     <1>11, <1>12, <1>13, <1>14, <1>15, <1>16, <1>17, <1>18 DEF Next, Serve

\* HubInv holds in every reachable state of the hub.
LEMMA HubInvariance == Spec => []HubInv
<1>1. Init => HubInv
  <2> SUFFICES ASSUME Init  PROVE HubInv
    OBVIOUS
  <2>1. dbUp \in BOOLEAN
    BY Zenon DEF Init
  <2>2. Queues /\ \A b \in Browsers : queue[b] \in Seq(Messages) /\ Len(queue[b]) <= Buffer
    BY HubAssumption DEF Init, Queues
  <2>3. TypeOK
    BY <2>1, <2>2, MessageTypes DEF Init, TypeOK, NoCast, Steps, Pings
  <2>4. Registered /\ CastRegistered /\ ClosedGone /\ CastMessage /\ InitMessage
    BY DEF Init, Registered, CastRegistered, ClosedGone, CastMessage, InitMessage, NoCast,
           Joined, Sending
  <2>5. Current
    BY DEF Init, Current
  <2> QED
    BY <2>2, <2>3, <2>4, <2>5 DEF HubInv, Shape
<1>2. HubInv /\ [Next]_vars => HubInv'
  BY ShapeStep, CurrentStep DEF HubInv
<1> QED
  BY <1>1, <1>2, PTL DEF Spec

\* The hub's variables keep their types, and no queue outgrows its channel, for
\* every browserSendBuffer.
THEOREM HubTypes == Spec => []TypeOK
<1>1. HubInv => TypeOK
  BY DEF HubInv, Shape
<1> QED
  BY <1>1, HubInvariance, PTL

\* No Broadcast and no sendInit ever sends on a channel that ServeWS has closed,
\* however many browsers come and go (the send would panic).
THEOREM NoSendOnClosed == Spec => []NeverSendsOnClosed
<1>1. HubInv => NeverSendsOnClosed
  BY DEF HubInv, Shape, TypeOK, Registered, CastRegistered, ClosedGone, NeverSendsOnClosed, Joined
<1> QED
  BY <1>1, HubInvariance, PTL

\* A connected browser that has read all it was sent shows the node's status,
\* however its init message and the pushes were interleaved, unless the last of
\* them was dropped, overtaken or missing from the table.
THEOREM BrowsersCurrent == Spec => []BrowserCurrent
<1>1. HubInv => BrowserCurrent
  <2> SUFFICES ASSUME HubInv, NEW b \in writing \ missed, pc[b] = "stream",
                      queue[b] = <<>>, driver = "idle"
               PROVE  shown[b] = told
    BY DEF BrowserCurrent
  <2>1. Says(queue[b], shown[b], told)
    BY DEF HubInv, Current, Pending, OnItsWay
  <2> QED
    BY <2>1 DEF Says
<1> QED
  BY <1>1, HubInvariance, PTL
==============================================================================
