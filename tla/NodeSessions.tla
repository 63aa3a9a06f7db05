----------------------------- MODULE NodeSessions -----------------------------
(***************************************************************************)
(* Which node has a connection driver, and what the panel says of it: the  *)
(* NodeManager's maps, NodeConn.Run, the handlers that register and delete *)
(* a node, the start after a restart of the panel with the database down,  *)
(* and markNodeOnline / markNodeOffline.                                   *)
(*                                                                         *)
(* One server is registered, deleted and registered again.  Its address is *)
(* unique in the table, so registering it twice keeps the id and deleting  *)
(* it in between gives a new one.  A driver is stopped by cancelling its   *)
(* context, which closes no socket: its session ends only when the agent,  *)
(* no longer pinged, closes it.                                            *)
(***************************************************************************)
EXTENDS Naturals, FiniteSets

CONSTANTS
    Handlers,    \* HTTP requests at work at a time
    MaxIds,      \* rows ever inserted
    MaxDrivers,  \* drivers that have not returned, at a time
    MaxFaults,   \* database calls that fail
    MaxRequests  \* requests that are made

ASSUME NodeSessionsAssumption ==
    /\ MaxIds \in Nat \ {0}
    /\ MaxDrivers \in Nat \ {0}
    /\ MaxFaults \in Nat
    /\ MaxRequests \in Nat

VARIABLES
    row,       \* id of the address's row; None without one
    used,      \* ids handed out so far
    status,    \* status[id]: the row's status column
    pushed,    \* pushed[id]: the last status pushed to the browsers
    conns,     \* conns[id]: the driver in the manager's maps, or None
    drivers,   \* drivers[d]: [id, pc, cancelled]; "new" until start lets it run
    loaded,    \* has tryStartAll read the node list?
    toStart,   \* ids of the list it has not come to
    pipe,      \* ids with pipeline state (live tunnel statuses come and go with it)
    task,      \* task[h]: [pc, id, cut] of a handler; cut is the driver it took out
               \* of the maps and has still to cancel
    blurred,   \* ids whose status a lost write, a restart of the panel or a
               \* stopped driver may have got wrong since the node last came up
    stranded,  \* ids taken down by a delete that then failed, or whose row was
               \* inserted by a call that reported an error
    revived,   \* ids whose state was made again, after their removal, for a driver
               \* that is no longer in the maps
    faults,    \* database calls that failed
    requests   \* requests made so far

table == <<row, used>>

shown == <<status, pushed>>

manager == <<conns, loaded, toStart>>

bounds == <<faults, requests>>

vars == <<table, shown, manager, drivers, pipe, task, blurred, stranded, revived, bounds>>

-----------------------------------------------------------------------------
None == 0

Ids == 1..MaxIds

Drivers == 1..MaxDrivers

Idle == [pc |-> "idle", id |-> None, cut |-> None]

Unused == [id |-> None, pc |-> "unused", cancelled |-> FALSE]

\* The panel starts over whatever the table holds; nothing corrects the status
\* that an earlier process left in it.
Init ==
    /\ row \in {None, 1}
    /\ used = row
    /\ status \in [Ids -> {"online", "offline"}]
    /\ \A id \in Ids : id > used => status[id] = "offline"
    /\ pushed = status
    /\ blurred = {id \in Ids : status[id] = "online"}
    /\ conns = [id \in Ids |-> None]
    /\ drivers = [d \in Drivers |-> Unused]
    /\ loaded = FALSE
    /\ toStart = {}
    /\ pipe = {}
    /\ task = [h \in Handlers |-> Idle]
    /\ stranded = {}
    /\ revived = {}
    /\ faults = 0
    /\ requests = 0

Fault ==
    /\ faults < MaxFaults
    /\ faults' = faults + 1

Request ==
    /\ requests < MaxRequests
    /\ requests' = requests + 1

-----------------------------------------------------------------------------
\* NodeManager: stop and start.  The mutex is held for the maps only: stop cancels
\* the driver after that, start makes the pipeline state and lets the driver run.

Proceed(h, pc, id) == task' = [task EXCEPT ![h] = [pc |-> pc, id |-> id, cut |-> None]]

Finish(h) == task' = [task EXCEPT ![h] = Idle]

\* The first half of stop, by a handler that goes on at pc.
Unmap(h, pc, id) ==
    /\ conns' = [conns EXCEPT ![id] = None]
    /\ task' = [task EXCEPT ![h] = [pc |-> pc, id |-> id, cut |-> conns[id]]]

\* The second half: the driver's context.
Cancel(h) ==
    drivers' = IF task[h].cut = None
               THEN drivers
               ELSE [drivers EXCEPT ![task[h].cut].cancelled = TRUE]

Alive(d) == drivers[d].pc \notin {"unused", "gone"}

\* A driver that is no longer in the maps, whether its context is cancelled yet or not.
Out(d) == conns[drivers[d].id] /= d

New(id) == [id |-> id, pc |-> "new", cancelled |-> FALSE]

\* A start that takes it for granted that the node has no driver.
StartUnchecked(id) ==
    \E d \in Drivers :
      /\ ~Alive(d)
      /\ drivers' = [drivers EXCEPT ![d] = New(id)]
      /\ conns' = [conns EXCEPT ![id] = d]

\* The part of start under the mutex.
Start(id) ==
    \/ /\ conns[id] /= None
       /\ UNCHANGED <<conns, drivers>>
    \/ /\ conns[id] = None
       /\ \E d \in Drivers :
            /\ ~Alive(d)
            /\ \A e \in 1..(d - 1) : Alive(e)
            /\ drivers' = [drivers EXCEPT ![d] = New(id)]
            /\ conns' = [conns EXCEPT ![id] = d]

\* The list is asked for once.
TryStartAllOnce ==
    /\ ~loaded
    /\ loaded' = TRUE
    /\ \/ /\ toStart' = {row} \ {None}
          /\ UNCHANGED faults
       \/ /\ Fault
          /\ UNCHANGED toStart
    /\ UNCHANGED <<table, shown, conns, drivers, pipe, task, blurred, stranded, revived,
                   requests>>

\* The list is not asked for again once a call to the database has failed.
TryStartAllGivesUp ==
    /\ ~loaded
    /\ faults = 0
    /\ \/ /\ loaded' = TRUE
          /\ toStart' = {row} \ {None}
          /\ UNCHANGED faults
       \/ /\ Fault
          /\ UNCHANGED <<loaded, toStart>>
    /\ UNCHANGED <<table, shown, conns, drivers, pipe, task, blurred, stranded, revived,
                   requests>>

\* StartAll asks again every five seconds until the list is read.
TryStartAll ==
    /\ ~loaded
    /\ \/ /\ loaded' = TRUE
          /\ toStart' = {row} \ {None}
          /\ UNCHANGED faults
       \/ /\ Fault
          /\ UNCHANGED <<loaded, toStart>>
    /\ UNCHANGED <<table, shown, conns, drivers, pipe, task, blurred, stranded, revived,
                   requests>>

StartListed(id) ==
    /\ id \in toStart
    /\ toStart' = toStart \ {id}
    /\ Start(id)
    /\ UNCHANGED <<table, shown, loaded, pipe, task, blurred, stranded, revived, bounds>>

-----------------------------------------------------------------------------
\* NodeConn.Run and session.

At(d, pc) == drivers[d].pc = pc

Goto(d, pc) == drivers' = [drivers EXCEPT ![d].pc = pc]

\* Drivers of a node that are out of the maps and have a connection yet.
Lingering(id) ==
    {d \in Drivers : /\ drivers[d].id = id
                     /\ conns[id] /= d
                     /\ drivers[d].pc \notin {"new", "run", "gone"}}

\* InitNode and Account make the pipeline state they miss.
Touch(d) ==
    /\ pipe' = pipe \cup {drivers[d].id}
    /\ revived' = IF Out(d) /\ drivers[d].id \notin pipe
                  THEN revived \cup {drivers[d].id}
                  ELSE revived

\* What start does after the unlock: InitNode, whoever has stopped the driver in the
\* meantime, and go Run.  Its EnsureNode in between is FrpcManager's.
Begin(d) ==
    /\ At(d, "new")
    /\ Goto(d, "run")
    /\ Touch(d)
    /\ UNCHANGED <<table, shown, manager, task, blurred, stranded, bounds>>

\* A driver that goes on whether it was stopped or not.
ReturnNever(d) ==
    /\ At(d, "run")
    /\ drivers[d].cancelled
    /\ Goto(d, "linking")
    /\ UNCHANGED <<table, shown, manager, pipe, task, blurred, stranded, revived, bounds>>

Return(d) ==
    /\ At(d, "run")
    /\ drivers[d].cancelled
    /\ Goto(d, "gone")
    /\ UNCHANGED <<table, shown, manager, pipe, task, blurred, stranded, revived, bounds>>

\* The dial succeeds; one that fails changes nothing.
Dial(d) ==
    /\ At(d, "run")
    /\ ~drivers[d].cancelled
    /\ Goto(d, "linking")
    /\ UNCHANGED <<table, shown, manager, pipe, task, blurred, stranded, revived, bounds>>

HandshakeFails(d) ==
    /\ At(d, "linking")
    /\ Goto(d, "run")
    /\ UNCHANGED <<table, shown, manager, pipe, task, blurred, stranded, revived, bounds>>

\* hello_ack is in: up is set and InitNode called, stopped or not.
GoUp(d) ==
    LET id == drivers[d].id
    IN  /\ At(d, "linking")
        /\ Goto(d, "up")
        /\ Touch(d)
        /\ blurred' = IF Out(d) \/ Lingering(id) /= {}
                      THEN blurred
                      ELSE blurred \ {id}
        /\ UNCHANGED <<table, shown, manager, task, stranded, bounds>>

\* The first half of markNodeOnline and markNodeOffline: the row, if there is
\* one and the database takes it.
WriteStatus(d, s) ==
    LET id == drivers[d].id
    IN  \/ /\ status' = IF row = id THEN [status EXCEPT ![id] = s] ELSE status
           /\ blurred' = IF Out(d) THEN blurred \cup {id} ELSE blurred
           /\ UNCHANGED faults
        \/ /\ Fault
           /\ blurred' = blurred \cup {id}
           /\ UNCHANGED status

\* The second half: the browsers.
PushStatus(d, s) ==
    LET id == drivers[d].id
    IN  /\ pushed' = [pushed EXCEPT ![id] = s]
        /\ blurred' = IF Out(d) THEN blurred \cup {id} ELSE blurred

OnlineWrite(d) ==
    /\ At(d, "up")
    /\ Goto(d, "announce")
    /\ WriteStatus(d, "online")
    /\ UNCHANGED <<table, pushed, manager, pipe, task, stranded, revived, requests>>

OnlinePush(d) ==
    /\ At(d, "announce")
    /\ Goto(d, "reading")
    /\ PushStatus(d, "online")
    /\ UNCHANGED <<table, status, manager, pipe, task, stranded, revived, bounds>>

\* A sample arrives.
Receive(d) ==
    /\ At(d, "reading")
    /\ Touch(d)
    /\ UNCHANGED <<table, shown, manager, drivers, task, blurred, stranded, bounds>>

\* A session whose end nobody is told of.
SessionEndsSilently(d) ==
    /\ At(d, "reading")
    /\ Goto(d, "run")
    /\ UNCHANGED <<table, shown, manager, pipe, task, blurred, stranded, revived, bounds>>

\* The connection breaks, falls silent, or is closed by the agent.
SessionEnds(d) ==
    /\ At(d, "reading")
    /\ Goto(d, "down")
    /\ UNCHANGED <<table, shown, manager, pipe, task, blurred, stranded, revived, bounds>>

OfflineWrite(d) ==
    /\ At(d, "down")
    /\ Goto(d, "retract")
    /\ WriteStatus(d, "offline")
    /\ UNCHANGED <<table, pushed, manager, pipe, task, stranded, revived, requests>>

OfflinePush(d) ==
    /\ At(d, "retract")
    /\ Goto(d, "run")
    /\ PushStatus(d, "offline")
    /\ UNCHANGED <<table, status, manager, pipe, task, stranded, revived, bounds>>

-----------------------------------------------------------------------------
\* handleCreateNode: CreateOrUpdateNode, then Add.

\* A row that was inserted by a call that reported an error gets no driver; an error
\* of any other call leaves things as they were.
CreateNode(h) ==
    /\ task[h] = Idle
    /\ Request
    /\ \/ /\ row /= None
          /\ Proceed(h, "add", row)
          /\ UNCHANGED <<table, stranded, faults>>
       \/ /\ row = None
          /\ used < MaxIds
          /\ used' = used + 1
          /\ row' = used + 1
          /\ \/ Proceed(h, "add", used + 1) /\ UNCHANGED <<stranded, faults>>
             \/ stranded' = stranded \cup {used + 1} /\ Fault /\ UNCHANGED task
    /\ UNCHANGED <<shown, manager, drivers, pipe, blurred, revived>>

AddStop(h) ==
    /\ task[h].pc = "add"
    /\ Unmap(h, "addcut", task[h].id)
    /\ stranded' = stranded \ {task[h].id}
    /\ UNCHANGED <<table, shown, loaded, toStart, drivers, pipe, blurred, revived, bounds>>

AddCancel(h) ==
    /\ task[h].pc = "addcut"
    /\ Cancel(h)
    /\ Proceed(h, "start", task[h].id)
    /\ UNCHANGED <<table, shown, manager, pipe, blurred, stranded, revived, bounds>>

AddStart(h) ==
    /\ task[h].pc = "start"
    /\ Start(task[h].id)
    /\ Finish(h)
    /\ UNCHANGED <<table, shown, loaded, toStart, pipe, blurred, stranded, revived, bounds>>

-----------------------------------------------------------------------------
\* handleDeleteNode: Remove, then DeleteNode.

RemoveStop(h, id) ==
    /\ task[h] = Idle
    /\ Request
    /\ id <= used
    /\ Unmap(h, "removecut", id)
    /\ UNCHANGED <<table, shown, loaded, toStart, drivers, pipe, blurred, stranded,
                   revived, faults>>

RemoveCancel(h) ==
    /\ task[h].pc = "removecut"
    /\ Cancel(h)
    /\ Proceed(h, "remove", task[h].id)
    /\ UNCHANGED <<table, shown, manager, pipe, blurred, stranded, revived, bounds>>

\* The pipeline's state is left in place.
RemoveClearForgets(h) ==
    /\ task[h].pc = "remove"
    /\ Proceed(h, "delete", task[h].id)
    /\ UNCHANGED <<table, shown, manager, drivers, pipe, blurred, stranded, revived, bounds>>

\* The state of the node goes once its frpc has been stopped.
RemoveClear(h) ==
    /\ task[h].pc = "remove"
    /\ pipe' = pipe \ {task[h].id}
    /\ revived' = revived \ {task[h].id}
    /\ Proceed(h, "delete", task[h].id)
    /\ UNCHANGED <<table, shown, manager, drivers, blurred, stranded, bounds>>

DeleteNode(h) ==
    /\ task[h].pc = "delete"
    /\ Finish(h)
    /\ \/ /\ row' = IF row = task[h].id THEN None ELSE row
          /\ UNCHANGED <<stranded, faults>>
       \/ /\ Fault
          /\ stranded' = stranded \cup {task[h].id}
          /\ UNCHANGED row
    /\ UNCHANGED <<used, shown, manager, drivers, pipe, blurred, revived, requests>>

-----------------------------------------------------------------------------
Driver(d) ==
    \/ Begin(d) \/ Return(d) \/ Dial(d) \/ HandshakeFails(d) \/ GoUp(d)
    \/ OnlineWrite(d) \/ OnlinePush(d) \/ Receive(d)
    \/ SessionEnds(d) \/ OfflineWrite(d) \/ OfflinePush(d)

Handler(h) ==
    \/ CreateNode(h) \/ AddStop(h) \/ AddCancel(h) \/ AddStart(h)
    \/ RemoveCancel(h) \/ RemoveClear(h) \/ DeleteNode(h)
    \/ \E id \in Ids : RemoveStop(h, id)

Next ==
    \/ TryStartAll
    \/ \E id \in Ids : StartListed(id)
    \/ \E d \in Drivers : Driver(d)
    \/ \E h \in Handlers : Handler(h)

Spec == Init /\ [][Next]_vars

\* The retry ticker, the manager's goroutines and a handler's calls go on, and
\* a connection that nobody pings ends; no node has to be reachable.
Fairness ==
    /\ WF_vars(TryStartAll)
    /\ \A id \in Ids : WF_vars(StartListed(id))
    /\ \A d \in Drivers :
         WF_vars(\/ Begin(d) \/ Return(d) \/ HandshakeFails(d) \/ GoUp(d)
                 \/ OnlineWrite(d) \/ OnlinePush(d) \/ OfflineWrite(d) \/ OfflinePush(d)
                 \/ drivers[d].cancelled /\ SessionEnds(d))
    /\ \A h \in Handlers :
         WF_vars(\/ AddStop(h) \/ AddCancel(h) \/ AddStart(h)
                 \/ RemoveCancel(h) \/ RemoveClear(h) \/ DeleteNode(h))

FairSpec == Spec /\ Fairness

-----------------------------------------------------------------------------
Settled(id) ==
    \A d \in Drivers :
      drivers[d].id = id => drivers[d].pc \in {"new", "run", "linking", "reading", "gone"}

TypeOK ==
    /\ row \in Ids \cup {None}
    /\ used \in 0..MaxIds
    /\ status \in [Ids -> {"online", "offline"}]
    /\ pushed \in [Ids -> {"online", "offline"}]
    /\ conns \in [Ids -> Drivers \cup {None}]
    /\ drivers \in [Drivers ->
         [id : Ids \cup {None},
          pc : {"unused", "new", "run", "linking", "up", "announce", "reading",
                "down", "retract", "gone"},
          cancelled : BOOLEAN]]
    /\ loaded \in BOOLEAN
    /\ toStart \in SUBSET Ids
    /\ pipe \in SUBSET Ids
    /\ task \in [Handlers ->
         [pc : {"idle", "add", "addcut", "start", "removecut", "remove", "delete"},
          id : Ids \cup {None},
          cut : Drivers \cup {None}]]
    /\ blurred \in SUBSET Ids
    /\ stranded \in SUBSET Ids
    /\ revived \in SUBSET Ids
    /\ faults \in 0..MaxFaults
    /\ requests \in 0..MaxRequests

\* "a node added via Add() during the retry window is not started twice"
\* (tryStartAll): whatever registers, deletes and lists at the same time, a driver
\* whose context is not cancelled is the one in the maps, or a handler has just taken
\* it out and is about to cancel it.
OneDriver ==
    \A d \in Drivers :
      Alive(d) /\ ~drivers[d].cancelled =>
        conns[drivers[d].id] = d \/ \E h \in Handlers : task[h].cut = d

\* A node in the table has a driver once the list is read and the handlers are
\* done with it, unless its deletion failed after it was taken down or its insertion
\* reported an error.
RowIsDriven ==
    /\ loaded
    /\ row /= None
    /\ row \notin toStart \cup stranded
    /\ \A h \in Handlers : task[h].id /= row
    => conns[row] /= None

\* The status in the table and the one last pushed are those of the driver in
\* the maps, between its changes; what a stopped driver, a lost write or a
\* restart of the panel gets wrong is right again when the node next comes up.
StatusExact ==
    /\ row /= None
    /\ row \notin blurred
    /\ Settled(row)
    /\ Lingering(row) = {}
    => /\ status[row] = "online" <=> (conns[row] /= None /\ At(conns[row], "reading"))
       /\ pushed[row] = status[row]

\* No handler, list or driver has to do with a deleted node any more.
Deleted(id) ==
    /\ id \notin toStart \cup {row}
    /\ \A h \in Handlers : task[h].id /= id
    /\ \A d \in Drivers : drivers[d].id = id => ~Alive(d)

\* Nothing is kept of a deleted node, unless a session outlived the removal, or a
\* start was overtaken by it, and made the state again.
TornDown == \A id \in 1..used : Deleted(id) /\ id \notin revived => id \notin pipe

\* "Remove tears a node down completely (connection + frpc + pipeline state)"
\* (nodemgr.go:126): nothing is kept of a deleted node, whatever ran beside it.
NothingKept == \A id \in 1..used : Deleted(id) => id \notin pipe

\* A driver that was stopped returns, although nothing closes its connection:
\* once no request is at work, the drivers that are left are those of the maps.
StoppedReturns ==
    <>[](\A h \in Handlers : task[h] = Idle)
    => <>[](\A d \in Drivers : drivers[d].cancelled => At(d, "gone"))

\* "it retries in the background until the DB answers, then starts every node"
\* (StartAll): a node in the table gets a driver, however often the
\* database fails to answer, unless it is deleted.
EveryRowDriven ==
    \A id \in Ids :
      row = id ~> (row /= id \/ conns[id] /= None \/ id \in stranded)
===============================================================================
