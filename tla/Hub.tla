--------------------------------- MODULE Hub ---------------------------------
(***************************************************************************)
(* What a browser shows of a node: markNodeOnline and markNodeOffline      *)
(* write the status column and push the change; the hub fans every push    *)
(* out to the connected clients through bounded queues; a new client is    *)
(* registered, then sent the statuses its handler reads from the table.    *)
(*                                                                         *)
(* Broadcast holds the hub's mutex over all clients.  sendInit queues its  *)
(* message without it, and the client's writer drains the queue, both      *)
(* while a Broadcast may be half way through the same queue.  A browser's  *)
(* connections follow one another; one node stands for all of them.        *)
(***************************************************************************)
EXTENDS Naturals, Sequences

CONSTANTS
    Browsers,
    Buffer      \* browserSendBuffer

ASSUME HubAssumption == Buffer \in Nat \ {0}

VARIABLES
    told,    \* the node's status, as its driver last announced it
    column,  \* its status column
    driver,  \* is the driver between the write and the end of its push?
    dbUp,    \* does the database answer?
    cast,    \* the Broadcast that holds the mutex: [msg, todo, step, at]
    cl,      \* clients registered in the hub
    pc,      \* pc[b]: where ServeWS is
    init,    \* init[b]: the message sendInit has put together
    queue,   \* queue[b]: the client's send channel
    closed,  \* clients whose channel is closed
    writing, \* clients whose writeLoop runs
    pongs,   \* pongs[b]: pings the browser answered since the read deadline was
             \* set, 0 again when the connection breaks
    shown,   \* shown[b]: the status the browser shows
    missed   \* browsers the latest status did not reach: it was dropped from a
             \* full queue, overtaken by their init message, or not in the table

node == <<told, column, driver>>

client == <<pc, init, closed, writing, pongs>>

vars == <<node, dbUp, cast, cl, client, queue, shown, missed>>

-----------------------------------------------------------------------------
Status == {"online", "offline"}

Unknown == "unknown"

Msg(kind, status) == [kind |-> kind, status |-> status]

\* A sample, an event or a tunnel's status, of any node.
Other == Msg("other", Unknown)

Messages ==
    [kind : {"init"}, status : Status \cup {Unknown}]
    \cup [kind : {"node_status"}, status : Status]
    \cup {Other}

NoOne == "no one"

\* Pings that fall before the read deadline: one every 25 seconds, in 70.
Pings == 2

NoCast == [msg |-> Other, todo |-> {}, step |-> "done", at |-> NoOne]

Init ==
    /\ column \in Status
    /\ told = column
    /\ driver = "idle"
    /\ dbUp = TRUE
    /\ cast = NoCast
    /\ cl = {}
    /\ pc = [b \in Browsers |-> "off"]
    /\ init = [b \in Browsers |-> Other]
    /\ queue = [b \in Browsers |-> <<>>]
    /\ closed = {}
    /\ writing = {}
    /\ pongs = [b \in Browsers |-> 0]
    /\ shown = [b \in Browsers |-> Unknown]
    /\ missed = {}

-----------------------------------------------------------------------------
\* The three steps of trySend for a message m, whoever calls it.

Carries(m) == m.kind \in {"init", "node_status"}

\* A push that is queued is the last word on the status, unless an older init
\* message is still to be queued.
Enqueue(b, m) ==
    /\ queue' = [queue EXCEPT ![b] = Append(@, m)]
    /\ missed' = IF m.kind /= "node_status"
                 THEN missed
                 ELSE IF pc[b] \in {"try", "drop", "retry"}
                      THEN missed \cup {b}
                      ELSE missed \ {b}

Lose(b, m) ==
    missed' = IF Carries(m) THEN missed \cup {b} ELSE missed

\* A queue without a bound.
TryUnbounded(b, m, next) ==
    /\ next = "done"
    /\ Enqueue(b, m)

\* Tries to queue the message, and goes on with the other two when it is full.
Try(b, m, next) ==
    \/ /\ Len(queue[b]) < Buffer
       /\ Enqueue(b, m)
       /\ next = "done"
    \/ /\ Len(queue[b]) = Buffer
       /\ next = "drop"
       /\ UNCHANGED <<queue, missed>>

\* The oldest message goes, if the writer has not taken it.
Drop(b, next) ==
    /\ next = "retry"
    /\ IF queue[b] = <<>>
       THEN UNCHANGED <<queue, missed>>
       ELSE /\ queue' = [queue EXCEPT ![b] = Tail(@)]
            /\ IF \E i \in 2..Len(queue[b]) : Carries(queue[b][i])
               THEN UNCHANGED missed
               ELSE Lose(b, Head(queue[b]))

\* Waits until there is room.
RetryBlocks(b, m, next) ==
    /\ next = "done"
    /\ Len(queue[b]) < Buffer
    /\ Enqueue(b, m)

\* The message itself is lost if another one has taken the room.
Retry(b, m, next) ==
    /\ next = "done"
    /\ IF Len(queue[b]) < Buffer
       THEN Enqueue(b, m)
       ELSE /\ Lose(b, m)
            /\ UNCHANGED queue

TrySend(b, m, step, next) ==
    \/ step = "try" /\ Try(b, m, next)
    \/ step = "drop" /\ Drop(b, next)
    \/ step = "retry" /\ Retry(b, m, next)

Steps == {"drop", "retry", "done"}

-----------------------------------------------------------------------------
\* Broadcast: the mutex, every registered client in any order, the mutex again.

Lock(m) ==
    /\ cast = NoCast
    /\ cast' = [msg |-> m, todo |-> cl, step |-> "done", at |-> NoOne]

Pick(b) ==
    /\ cast.step = "done"
    /\ b \in cast.todo
    /\ cast' = [cast EXCEPT !.at = b, !.todo = @ \ {b}, !.step = "try"]
    /\ UNCHANGED <<node, dbUp, cl, client, queue, shown, missed>>

Send(b) ==
    /\ cast.at = b
    /\ cast.step /= "done"
    /\ \E next \in Steps :
         /\ TrySend(b, cast.msg, cast.step, next)
         /\ cast' = [cast EXCEPT !.step = next]
    /\ UNCHANGED <<node, dbUp, cl, client, shown>>

Unlock ==
    /\ cast /= NoCast
    /\ cast.step = "done"
    /\ cast.todo = {}
    /\ cast' = NoCast
    /\ driver' = IF cast.msg.kind = "node_status" THEN "idle" ELSE driver
    /\ UNCHANGED <<told, column, dbUp, cl, client, queue, shown, missed>>

-----------------------------------------------------------------------------
\* markNodeOnline, markNodeOffline: the row, when the database takes it, then
\* the push.

Mark(s) ==
    /\ driver = "idle"
    /\ told' = s
    /\ column' = IF dbUp THEN s ELSE column
    /\ driver' = "push"
    /\ UNCHANGED <<dbUp, cast, cl, client, queue, shown, missed>>

Push ==
    /\ driver = "push"
    /\ Lock(Msg("node_status", told))
    /\ UNCHANGED <<node, dbUp, cl, client, queue, shown, missed>>

\* Something else is broadcast.
Broadcast ==
    /\ Lock(Other)
    /\ UNCHANGED <<node, dbUp, cl, client, queue, shown, missed>>

DatabaseFlips ==
    /\ dbUp' = ~dbUp
    /\ UNCHANGED <<node, cast, cl, client, queue, shown, missed>>

-----------------------------------------------------------------------------
\* ServeWS.

Go(b, to) == pc' = [pc EXCEPT ![b] = to]

\* The browser connects; the client is registered before its writer starts.
Connect(b) ==
    /\ pc[b] = "off"
    /\ cast = NoCast
    /\ Go(b, "joined")
    /\ cl' = cl \cup {b}
    /\ queue' = [queue EXCEPT ![b] = <<>>]
    /\ closed' = closed \ {b}
    /\ writing' = writing \cup {b}
    /\ missed' = missed \cup {b}
    /\ UNCHANGED <<node, dbUp, cast, init, pongs, shown>>

\* sendInit reads the table; without a database it sends no status.
ReadStatuses(b) ==
    /\ pc[b] = "joined"
    /\ Go(b, "try")
    /\ init' = [init EXCEPT ![b] = Msg("init", IF dbUp THEN column ELSE Unknown)]
    /\ missed' = IF dbUp /\ column = told THEN missed \ {b} ELSE missed \cup {b}
    /\ UNCHANGED <<node, dbUp, cast, cl, queue, closed, writing, pongs, shown>>

SendInit(b) ==
    /\ pc[b] \in {"try", "drop", "retry"}
    /\ \E next \in Steps :
         /\ TrySend(b, init[b], pc[b], next)
         /\ Go(b, IF next = "done" THEN "stream" ELSE next)
         /\ init' = IF next = "done" THEN [init EXCEPT ![b] = Other] ELSE init
    /\ UNCHANGED <<node, dbUp, cast, cl, closed, writing, pongs, shown>>

\* A pong that puts the deadline off.
PongExtends(b) ==
    /\ pc[b] = "stream"
    /\ b \in writing
    /\ pongs[b] < Pings
    /\ pongs' = [pongs EXCEPT ![b] = 0]
    /\ UNCHANGED <<node, dbUp, cast, cl, pc, init, closed, writing, queue, shown, missed>>

\* The browser answers a ping: ReadMessage takes the pong and goes on waiting for
\* a message under the same deadline.
Pong(b) ==
    /\ pc[b] = "stream"
    /\ b \in writing
    /\ pongs[b] < Pings
    /\ pongs' = [pongs EXCEPT ![b] = @ + 1]
    /\ UNCHANGED <<node, dbUp, cast, cl, pc, init, closed, writing, queue, shown, missed>>

\* No message has come for 70 seconds, and a browser never sends one.
Deadline(b) ==
    /\ pc[b] = "stream"
    /\ pongs[b] = Pings \/ b \notin writing
    /\ Go(b, "leaving")
    /\ UNCHANGED <<node, dbUp, cast, cl, init, queue, closed, writing, pongs, shown, missed>>

\* The browser goes, or the connection breaks.
ReadBreaks(b) ==
    /\ pc[b] = "stream"
    /\ Go(b, "leaving")
    /\ pongs' = [pongs EXCEPT ![b] = 0]
    /\ UNCHANGED <<node, dbUp, cast, cl, init, queue, closed, writing, shown, missed>>

\* The channel is closed first.
LeaveClosesFirst(b) ==
    /\ pc[b] = "leaving"
    /\ Go(b, "deleted")
    /\ closed' = closed \cup {b}
    /\ UNCHANGED <<node, dbUp, cast, cl, init, queue, writing, pongs, shown, missed>>

Leave(b) ==
    /\ pc[b] = "leaving"
    /\ cast = NoCast
    /\ Go(b, "deleted")
    /\ cl' = cl \ {b}
    /\ UNCHANGED <<node, dbUp, cast, init, queue, closed, writing, pongs, shown, missed>>

Close(b) ==
    /\ pc[b] = "deleted"
    /\ Go(b, "closed")
    /\ closed' = closed \cup {b}
    /\ UNCHANGED <<node, dbUp, cast, cl, init, queue, writing, pongs, shown, missed>>

\* The connection is closed; the writer finds the channel or the connection so.
HangUp(b) ==
    /\ pc[b] = "closed"
    /\ Go(b, "off")
    /\ queue' = [queue EXCEPT ![b] = <<>>]
    /\ writing' = writing \ {b}
    /\ pongs' = [pongs EXCEPT ![b] = 0]
    /\ UNCHANGED <<node, dbUp, cast, cl, init, closed, shown, missed>>

-----------------------------------------------------------------------------
\* writeLoop, and the browser at the other end.

\* An init message that adds to what the browser has.
AppliedMerges(m, old) ==
    CASE m.kind = "other" -> old
      [] m.kind = "init" -> IF old = Unknown THEN m.status ELSE old
      [] m.kind = "node_status" -> m.status

\* An init message replaces all statuses, a push the node's.
Applied(m, old) == IF Carries(m) THEN m.status ELSE old

Deliver(b) ==
    /\ b \in writing
    /\ queue[b] /= <<>>
    /\ shown' = [shown EXCEPT ![b] = Applied(Head(queue[b]), @)]
    /\ queue' = [queue EXCEPT ![b] = Tail(@)]
    /\ UNCHANGED <<node, dbUp, cast, cl, client, missed>>

\* A write misses its deadline: the writer returns, and nobody is told.
WriteFails(b) ==
    /\ b \in writing
    /\ writing' = writing \ {b}
    /\ queue' = [queue EXCEPT ![b] = IF @ = <<>> THEN @ ELSE Tail(@)]
    /\ UNCHANGED <<node, dbUp, cast, cl, pc, init, closed, pongs, shown, missed>>

-----------------------------------------------------------------------------
Serve(b) ==
    \/ Connect(b) \/ ReadStatuses(b) \/ SendInit(b)
    \/ Pong(b) \/ Deadline(b) \/ ReadBreaks(b)
    \/ Leave(b) \/ Close(b) \/ HangUp(b)

Next ==
    \/ \E s \in Status : Mark(s)
    \/ Push \/ Broadcast \/ Unlock \/ DatabaseFlips
    \/ \E b \in Browsers :
         Pick(b) \/ Send(b) \/ Serve(b) \/ Deliver(b) \/ WriteFails(b)

Spec == Init /\ [][Next]_vars

\* Goroutines go on, the read deadline passes, a browser that is open connects
\* again, and the mutex, which hands itself to whoever has waited longest, keeps no
\* client waiting although there is always a next Broadcast.
Fairness ==
    /\ WF_vars(Unlock)
    /\ \A b \in Browsers :
         /\ WF_vars(Pick(b) \/ Send(b))
         /\ WF_vars(\/ Connect(b) \/ ReadStatuses(b) \/ SendInit(b)
                    \/ Pong(b) \/ Deadline(b)
                    \/ Leave(b) \/ Close(b) \/ HangUp(b))
         /\ SF_vars(Connect(b) \/ Leave(b))
         /\ WF_vars(Deliver(b))

FairSpec == Spec /\ Fairness

-----------------------------------------------------------------------------
\* Types, and the bound of every client's queue.
TypeOK ==
    /\ told \in Status
    /\ column \in Status
    /\ driver \in {"idle", "push"}
    /\ dbUp \in BOOLEAN
    /\ cast \in [msg : Messages, todo : SUBSET Browsers,
                 step : Steps \cup {"try"}, at : Browsers \cup {NoOne}]
    /\ cl \in SUBSET Browsers
    /\ pc \in [Browsers -> {"off", "joined", "try", "drop", "retry", "stream",
                            "leaving", "deleted", "closed"}]
    /\ init \in [Browsers -> Messages]
    /\ \A b \in Browsers : queue[b] \in Seq(Messages) /\ Len(queue[b]) <= Buffer
    /\ closed \in SUBSET Browsers
    /\ writing \in SUBSET Browsers
    /\ pongs \in [Browsers -> 0..Pings]
    /\ shown \in [Browsers -> Status \cup {Unknown}]
    /\ missed \in SUBSET Browsers

\* A send on a closed channel would bring the panel down: no Broadcast has a
\* client before it, and no sendInit is under way, once close has closed it.
NeverSendsOnClosed ==
    \A b \in closed :
        /\ b \notin cast.todo
        /\ cast.at = b => cast.step = "done"
        /\ pc[b] \notin {"joined", "try", "drop", "retry"}

\* A connected browser that has read all it was sent shows the node's status,
\* however its init message and the pushes were interleaved, unless the last of
\* them was dropped, overtaken or missing from the table.
BrowserCurrent ==
    \A b \in writing \ missed :
        /\ pc[b] = "stream"
        /\ queue[b] = <<>>
        /\ driver = "idle"
        => shown[b] = told

\* Broadcast blocks for no browser: it gives the mutex back, although nobody
\* drains the queue of a client whose writer has returned.
BroadcastEnds == cast /= NoCast ~> cast = NoCast

\* The status stays as it is, in the table too; samples, events and the statuses
\* of tunnels go on being broadcast.
Settled ==
    /\ driver = "idle"
    /\ dbUp
    /\ column = told

Waiting(b) == \E i \in 1..Len(queue[b]) : Carries(queue[b][i])

\* b's connections write what they are given: no write fails, no status is dropped
\* from the queue, and none is left in it at the read deadline.
Keeps(b) ==
    /\ ~WriteFails(b)
    /\ pc[b] /= "off" /\ b \in missed' => b \in missed
    /\ pc[b] = "stream" /\ pc'[b] = "leaving" => ~Waiting(b)

\* And what was dropped or overtaken is made good: when the node's status stays
\* as it is, in the table too, and from then on its connections keep up with what
\* is broadcast, every browser comes to show it, because none outlives its read
\* deadline and the next one starts from the table.
BrowsersCatchUp ==
    <>[]Settled /\ <>[][\A b \in Browsers : Keeps(b)]_vars
    => <>[](\A b \in Browsers : shown[b] = told)

\* "it exists to detect close and to honor pongs": the read loop ends no connection
\* that answered every ping since its deadline was set.
PongsHonored ==
    \A b \in writing : pc[b] = "leaving" => pongs[b] < Pings
===============================================================================
