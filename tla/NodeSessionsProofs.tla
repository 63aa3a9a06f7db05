-------------------------- MODULE NodeSessionsProofs --------------------------
(***************************************************************************)
(* The drivers of a node, its status and what is kept of it, for any       *)
(* number of requests, rows, drivers and failing calls.                    *)
(*                                                                         *)
(* The maps hold exactly the drivers that were not stopped, but for those  *)
(* a handler has taken out and is about to cancel (MapsLive, CutsHeld and  *)
(* OneDriver).  A node is without a driver only while a request, or the    *)
(* list, still has to come to it (RowIsDriven is inductive).  Pipeline     *)
(* state belongs to a driver in the maps or to a request that will clear   *)
(* or adopt it (PipeOwned).  And as long as no driver out of the maps can  *)
(* speak for it, a node's status is a function of where the driver in the  *)
(* maps is (StatusFollows).                                                *)
(***************************************************************************)
EXTENDS NodeSessions, TLAPS

\* What is at work is at work on an id that was handed out.
Known ==
    /\ row <= used
    /\ \A id \in toStart : id <= used
    /\ \A d \in Drivers : drivers[d].id <= used /\ (Alive(d) => drivers[d].id \in Ids)
    /\ \A h \in Handlers : task[h].id <= used /\ (task[h].pc /= "idle" => task[h].id \in Ids)
    /\ \A h \in Handlers : task[h].pc = "idle" => task[h].id = None

\* The driver in the maps is the node's, has not returned and was not stopped.
MapsLive ==
    \A id \in Ids :
        conns[id] /= None =>
            /\ drivers[conns[id]].id = id
            /\ Alive(conns[id])
            /\ ~drivers[conns[id]].cancelled

\* What a handler has taken out of the maps and has still to cancel.
InHand(h) ==
    /\ task[h].pc \in {"addcut", "removecut"}
    /\ drivers[task[h].cut].id = task[h].id
    /\ Alive(task[h].cut)
    /\ ~drivers[task[h].cut].cancelled
    /\ conns[task[h].id] /= task[h].cut
    /\ \A g \in Handlers : g /= h => task[g].cut /= task[h].cut

CutsHeld == \A h \in Handlers : task[h].cut /= None => InHand(h)

\* State that was not made again for a driver out of the maps belongs to the driver
\* in the maps, or to a request that has stopped it and goes on to start one or to
\* clear it.
Handing == {"addcut", "start", "removecut", "remove"}

PipeOwned ==
    \A id \in pipe \ revived :
        \/ conns[id] /= None
        \/ \E h \in Handlers : task[h].id = id /\ task[h].pc \in Handing

\* Nobody has spoken of an id that was not handed out.
Unspoken == \A id \in Ids : id > used => status[id] = "offline" /\ pushed[id] = "offline"

\* Drivers of a node that are out of the maps and have something to say yet.
Loud(id) ==
    {d \in Drivers : /\ drivers[d].id = id
                     /\ conns[id] /= d
                     /\ drivers[d].pc \in {"up", "announce", "reading", "down", "retract"}}

\* Where the driver in the maps is tells what was written and pushed.
Follows(id) ==
    /\ conns[id] = None \/ drivers[conns[id]].pc \in {"new", "run", "linking"} =>
         status[id] = "offline" /\ pushed[id] = "offline"
    /\ conns[id] /= None =>
         /\ drivers[conns[id]].pc = "announce" => status[id] = "online"
         /\ drivers[conns[id]].pc \in {"reading", "down"} =>
              status[id] = "online" /\ pushed[id] = "online"
         /\ drivers[conns[id]].pc = "retract" => status[id] = "offline"

StatusFollows ==
    \A id \in Ids : id = row /\ id \notin blurred /\ Loud(id) = {} => Follows(id)

NodeInv ==
    /\ TypeOK
    /\ Known
    /\ MapsLive
    /\ CutsHeld
    /\ OneDriver
    /\ RowIsDriven
    /\ PipeOwned
    /\ Unspoken
    /\ StatusFollows

-----------------------------------------------------------------------------
\* What each operation does, one value at a time.

\* 0 is neither an id nor a driver.
LEMMA NodeConstants ==
    /\ None = 0
    /\ None \notin Ids
    /\ None \notin Drivers
    /\ 1 \in Ids
    /\ Ids \subseteq Nat
    /\ Drivers \subseteq Nat
BY NodeSessionsAssumption DEF None, Ids, Drivers

\* What a driver may do next to the tables of the others.
DriverMove(d) ==
    /\ UNCHANGED <<row, used, conns, loaded, toStart, task, stranded>>
    /\ \A e \in Drivers :
        /\ drivers'[e].id = drivers[e].id
        /\ drivers'[e].cancelled = drivers[e].cancelled
        /\ e /= d => drivers'[e].pc = drivers[e].pc
    /\ Alive(d)
    /\ Alive(d)' \/ drivers[d].cancelled

\* Goto moves one driver and leaves its node and its context alone.
LEMMA GotoMoves ==
    ASSUME TypeOK, NEW d \in Drivers, NEW pc, Goto(d, pc)
    PROVE  /\ drivers'[d].pc = pc
           /\ \A e \in Drivers :
                /\ drivers'[e].id = drivers[e].id
                /\ drivers'[e].cancelled = drivers[e].cancelled
                /\ e /= d => drivers'[e].pc = drivers[e].pc
BY DEF TypeOK, Goto

\* Every step of a driver is such a move.
LEMMA DriverMoves ==
    ASSUME TypeOK, NEW d \in Drivers, Driver(d)
    PROVE  DriverMove(d)
<1>1. CASE Return(d)
  BY <1>1, GotoMoves DEF Return, DriverMove, Alive, At, table, manager
<1>2. CASE Dial(d)
  BY <1>2, GotoMoves DEF Dial, DriverMove, Alive, At, table, manager
<1>3. CASE HandshakeFails(d)
  BY <1>3, GotoMoves DEF HandshakeFails, DriverMove, Alive, At, table, manager
<1>4. CASE GoUp(d)
  BY <1>4, GotoMoves DEF GoUp, DriverMove, Alive, At, table, manager
<1>5. CASE OnlineWrite(d)
  BY <1>5, GotoMoves DEF OnlineWrite, DriverMove, Alive, At, table, manager
<1>6. CASE OnlinePush(d)
  BY <1>6, GotoMoves DEF OnlinePush, DriverMove, Alive, At, table, manager
<1>7. CASE Receive(d)
  BY <1>7 DEF Receive, DriverMove, Alive, At, table, manager
<1>8. CASE SessionEnds(d)
  BY <1>8, GotoMoves DEF SessionEnds, DriverMove, Alive, At, table, manager
<1>9. CASE OfflineWrite(d)
  BY <1>9, GotoMoves DEF OfflineWrite, DriverMove, Alive, At, table, manager
<1>10. CASE OfflinePush(d)
  BY <1>10, GotoMoves DEF OfflinePush, DriverMove, Alive, At, table, manager
<1>11. CASE Begin(d)
  BY <1>11, GotoMoves DEF Begin, DriverMove, Alive, At, table, manager
<1> QED
  BY <1>1, <1>2, <1>3, <1>4, <1>5, <1>6, <1>7, <1>8, <1>9, <1>10, <1>11 DEF Driver

\* A driver makes pipeline state of its own node only, and marks it when it is
\* out of the maps and the state was gone.
LEMMA DriverTouches ==
    ASSUME TypeOK, NEW d \in Drivers, Driver(d)
    PROVE  \A id \in pipe' \ revived' :
              id \in pipe \ revived \/ (id = drivers[d].id /\ ~Out(d))
<1>1. CASE GoUp(d) \/ Receive(d) \/ Begin(d)
  <2>1. Touch(d)
    BY <1>1 DEF GoUp, Receive, Begin
  <2> QED
    BY <2>1 DEF Touch, TypeOK
<1>2. CASE UNCHANGED <<pipe, revived>>
  BY <1>2
<1> QED
  BY <1>1, <1>2 DEF Driver, Return, Dial, HandshakeFails, OnlineWrite, OnlinePush,
                    SessionEnds, OfflineWrite, OfflinePush

\* A start that makes a driver.
Made(id, d) ==
    /\ conns[id] = None
    /\ ~Alive(d)
    /\ drivers' = [drivers EXCEPT ![d] = New(id)]
    /\ conns' = [conns EXCEPT ![id] = d]

\* NodeManager.start returns early, or makes a driver.
LEMMA StartCases ==
    ASSUME NEW id, Start(id)
    PROVE  \/ conns[id] /= None /\ UNCHANGED <<conns, drivers>>
           \/ \E d \in Drivers : Made(id, d)
BY DEF Start, Made

\* The handler that takes a driver out of the maps has it in hand.
LEMMA UnmapMoves ==
    ASSUME TypeOK, NEW h \in Handlers, NEW pc, NEW id \in Ids, Unmap(h, pc, id)
    PROVE  /\ conns'[id] = None
           /\ \A j \in Ids : j /= id => conns'[j] = conns[j]
           /\ task'[h].pc = pc
           /\ task'[h].id = id
           /\ task'[h].cut = conns[id]
           /\ \A g \in Handlers : g /= h => task'[g] = task[g]
BY DEF TypeOK, Unmap

\* Cancelling a driver changes neither where it is nor whose it is.
LEMMA CancelMoves ==
    ASSUME TypeOK, NEW h \in Handlers, Cancel(h)
    PROVE  /\ task[h].cut /= None => drivers'[task[h].cut].cancelled
           /\ \A e \in Drivers :
                /\ drivers'[e].id = drivers[e].id
                /\ drivers'[e].pc = drivers[e].pc
                /\ e /= task[h].cut => drivers'[e].cancelled = drivers[e].cancelled
<1>1. task[h].cut \in Drivers \/ task[h].cut = None
  BY DEF TypeOK
<1>2. CASE task[h].cut = None
  BY <1>2 DEF Cancel
<1>3. CASE task[h].cut /= None /\ task[h].cut \in Drivers
  <2>1. drivers'[task[h].cut] = [drivers[task[h].cut] EXCEPT !.cancelled = TRUE]
    BY <1>3 DEF TypeOK, Cancel
  <2>2. \A e \in Drivers : e /= task[h].cut => drivers'[e] = drivers[e]
    BY <1>3 DEF TypeOK, Cancel
  <2>3. drivers'[task[h].cut].cancelled
    BY <1>3, <2>1 DEF TypeOK
  <2> QED
    BY <1>3, <2>1, <2>2, <2>3 DEF TypeOK
<1> QED
  BY <1>1, <1>2, <1>3

\* A new driver takes the place of none that is alive.
LEMMA MadeMoves ==
    ASSUME TypeOK, NEW id \in Ids, NEW d \in Drivers, Made(id, d)
    PROVE  /\ drivers'[d].id = id
           /\ drivers'[d].pc = "new"
           /\ ~drivers'[d].cancelled
           /\ \A e \in Drivers : e /= d => drivers'[e] = drivers[e]
           /\ conns'[id] = d
           /\ d /= None
           /\ \A j \in Ids : j /= id => conns'[j] = conns[j]
BY NodeConstants DEF TypeOK, Made, New

-----------------------------------------------------------------------------
\* Types.

Places ==
    {"unused", "new", "run", "linking", "up", "announce", "reading", "down", "retract", "gone"}

Stages == {"idle", "add", "addcut", "start", "removecut", "remove", "delete"}

DriversTyped ==
    drivers \in [Drivers -> [id : Ids \cup {None}, pc : Places, cancelled : BOOLEAN]]

TasksTyped ==
    task \in [Handlers -> [pc : Stages, id : Ids \cup {None}, cut : Drivers \cup {None}]]

\* The type of everything but the drivers and the handlers' tasks.
RestTyped ==
    /\ row \in Ids \cup {None}
    /\ used \in 0..MaxIds
    /\ status \in [Ids -> {"online", "offline"}]
    /\ pushed \in [Ids -> {"online", "offline"}]
    /\ conns \in [Ids -> Drivers \cup {None}]
    /\ loaded \in BOOLEAN
    /\ toStart \in SUBSET Ids
    /\ pipe \in SUBSET Ids
    /\ blurred \in SUBSET Ids
    /\ stranded \in SUBSET Ids
    /\ revived \in SUBSET Ids
    /\ faults \in 0..MaxFaults
    /\ requests \in 0..MaxRequests

\* TypeOK in three parts, now and after the step.
LEMMA TypeParts ==
    /\ TypeOK <=> RestTyped /\ DriversTyped /\ TasksTyped
    /\ TypeOK' <=> (RestTyped /\ DriversTyped /\ TasksTyped)'
BY Zenon DEF TypeOK, RestTyped, DriversTyped, TasksTyped, Places, Stages

\* A driver that moves keeps its type.
LEMMA GotoTyped ==
    ASSUME DriversTyped, NEW d \in Drivers, NEW pc \in Places, Goto(d, pc)
    PROVE  DriversTyped'
BY DEF DriversTyped, Goto

\* A request that goes on keeps its type.
LEMMA ProceedTyped ==
    ASSUME TasksTyped, NEW h \in Handlers, NEW id \in Ids \cup {None},
           NEW pc \in Stages, Proceed(h, pc, id)
    PROVE  TasksTyped'
BY DEF TasksTyped, Proceed

\* A request that ends keeps its type.
LEMMA FinishTyped ==
    ASSUME TasksTyped, NEW h \in Handlers, Finish(h)
    PROVE  TasksTyped'
BY DEF TasksTyped, Finish, Idle, Stages

\* The faults stay within their bound.
LEMMA FaultTyped ==
    ASSUME faults \in 0..MaxFaults, Fault
    PROVE  faults' \in 0..MaxFaults
BY NodeSessionsAssumption DEF Fault

\* And so do the requests.
LEMMA RequestTyped ==
    ASSUME requests \in 0..MaxRequests, Request
    PROVE  requests' \in 0..MaxRequests
BY NodeSessionsAssumption DEF Request

\* start keeps the types of the maps and the drivers.
LEMMA StartTyped ==
    ASSUME TypeOK, NEW id \in Ids, Start(id)
    PROVE  /\ conns' \in [Ids -> Drivers \cup {None}]
           /\ DriversTyped'
<1>1. CASE UNCHANGED <<conns, drivers>>
  BY <1>1 DEF TypeOK, DriversTyped, Places
<1>2. ASSUME NEW d \in Drivers, Made(id, d)
      PROVE  /\ conns' \in [Ids -> Drivers \cup {None}]
             /\ DriversTyped'
  BY <1>2 DEF TypeOK, DriversTyped, Places, Made, New
<1> QED
  BY <1>1, <1>2, StartCases

\* The first half of stop keeps the types of the maps and the tasks.
LEMMA UnmapTyped ==
    ASSUME TypeOK, NEW h \in Handlers, NEW pc \in Stages, NEW id \in Ids, Unmap(h, pc, id)
    PROVE  conns' \in [Ids -> Drivers \cup {None}] /\ TasksTyped'
<1>1. conns \in [Ids -> Drivers \cup {None}] /\ TasksTyped
  BY TypeParts DEF RestTyped
<1> QED
  BY <1>1 DEF Unmap, TasksTyped

\* The second half keeps the type of the drivers.
LEMMA CancelTyped ==
    ASSUME TypeOK, NEW h \in Handlers, Cancel(h)
    PROVE  DriversTyped'
<1>1. DriversTyped /\ (task[h].cut \in Drivers \/ task[h].cut = None)
  BY TypeParts DEF TasksTyped
<1>2. CASE task[h].cut = None
  BY <1>1, <1>2 DEF Cancel, DriversTyped
<1>3. CASE task[h].cut /= None /\ task[h].cut \in Drivers
  <2>1. [drivers[task[h].cut] EXCEPT !.cancelled = TRUE]
           \in [id : Ids \cup {None}, pc : Places, cancelled : BOOLEAN]
    BY <1>1, <1>3 DEF DriversTyped
  <2> QED
    BY <1>1, <1>3, <2>1 DEF DriversTyped, Cancel
<1> QED
  BY <1>1, <1>2, <1>3

\* The types hold when the panel starts.
LEMMA TypesInit == Init => TypeOK
<1> SUFFICES ASSUME Init PROVE TypeOK
  OBVIOUS
<1>1. row \in Ids \cup {None} /\ used \in 0..MaxIds
  BY NodeConstants, NodeSessionsAssumption DEF Init
<1>2. DriversTyped /\ TasksTyped
  BY DEF Init, DriversTyped, TasksTyped, Unused, Idle, Places, Stages
<1>3. status \in [Ids -> {"online", "offline"}] /\ pushed \in [Ids -> {"online", "offline"}]
  BY DEF Init
<1>4. conns \in [Ids -> Drivers \cup {None}]
  BY DEF Init
<1>5. loaded \in BOOLEAN /\ blurred \in SUBSET Ids
  BY DEF Init
<1>6. /\ toStart \in SUBSET Ids /\ pipe \in SUBSET Ids
      /\ stranded \in SUBSET Ids /\ revived \in SUBSET Ids
      /\ faults \in 0..MaxFaults /\ requests \in 0..MaxRequests
  BY NodeSessionsAssumption DEF Init
<1> QED
  BY <1>1, <1>2, <1>3, <1>4, <1>5, <1>6, TypeParts, Zenon DEF RestTyped

\* Writing the status column keeps its type.
LEMMA WriteTyped ==
    ASSUME RestTyped, NEW d \in Drivers, drivers[d].id \in Ids,
           NEW s \in {"online", "offline"}, WriteStatus(d, s)
    PROVE  /\ status' \in [Ids -> {"online", "offline"}]
           /\ blurred' \in SUBSET Ids
           /\ faults' \in 0..MaxFaults
<1>1. CASE Fault /\ blurred' = blurred \cup {drivers[d].id} /\ UNCHANGED status
  BY <1>1, FaultTyped DEF RestTyped
<1>2. CASE /\ status' = IF row = drivers[d].id
                        THEN [status EXCEPT ![drivers[d].id] = s] ELSE status
           /\ blurred' = IF Out(d) THEN blurred \cup {drivers[d].id} ELSE blurred
           /\ UNCHANGED faults
  BY <1>2 DEF RestTyped
<1> QED
  BY <1>1, <1>2 DEF WriteStatus

\* Pushing a status keeps its type.
LEMMA PushTyped ==
    ASSUME RestTyped, NEW d \in Drivers, drivers[d].id \in Ids,
           NEW s \in {"online", "offline"}, PushStatus(d, s)
    PROVE  /\ pushed' \in [Ids -> {"online", "offline"}]
           /\ blurred' \in SUBSET Ids
BY DEF RestTyped, PushStatus

\* Making pipeline state keeps its type.
LEMMA TouchTyped ==
    ASSUME RestTyped, NEW d \in Drivers, drivers[d].id \in Ids, Touch(d)
    PROVE  pipe' \in SUBSET Ids /\ revived' \in SUBSET Ids
BY DEF RestTyped, Touch

\* A step of NodeConn.Run keeps the types.
LEMMA DriverTyped ==
    ASSUME TypeOK, Known, NEW d \in Drivers, Driver(d)
    PROVE  TypeOK'
<1> USE TypeParts
<1>0. drivers[d].id \in Ids
  BY DriverMoves DEF DriverMove, Known
<1>1. CASE Return(d)
  BY <1>1, GotoTyped DEF Return, RestTyped, bounds, TasksTyped, Places, table, shown, manager
<1>2. CASE Dial(d)
  BY <1>2, GotoTyped DEF Dial, RestTyped, bounds, TasksTyped, Places, table, shown, manager
<1>3. CASE HandshakeFails(d)
  BY <1>3, GotoTyped DEF HandshakeFails, RestTyped, bounds, TasksTyped, Places, table, shown, manager
<1>4. CASE GoUp(d)
  BY <1>0, <1>4, GotoTyped, TouchTyped
     DEF GoUp, RestTyped, bounds, TasksTyped, Places, table, shown, manager
<1>5. CASE OnlineWrite(d)
  BY <1>0, <1>5, GotoTyped, WriteTyped
     DEF OnlineWrite, RestTyped, TasksTyped, Places, table, manager
<1>6. CASE OnlinePush(d)
  BY <1>0, <1>6, GotoTyped, PushTyped
     DEF OnlinePush, RestTyped, bounds, TasksTyped, Places, table, manager
<1>7. CASE Receive(d)
  BY <1>0, <1>7, TouchTyped
     DEF Receive, RestTyped, bounds, TasksTyped, DriversTyped, table, shown, manager
<1>8. CASE SessionEnds(d)
  BY <1>8, GotoTyped DEF SessionEnds, RestTyped, bounds, TasksTyped, Places, table, shown, manager
<1>9. CASE OfflineWrite(d)
  BY <1>0, <1>9, GotoTyped, WriteTyped
     DEF OfflineWrite, RestTyped, TasksTyped, Places, table, manager
<1>10. CASE OfflinePush(d)
  BY <1>0, <1>10, GotoTyped, PushTyped
     DEF OfflinePush, RestTyped, bounds, TasksTyped, Places, table, manager
<1>11. CASE Begin(d)
  BY <1>0, <1>11, GotoTyped, TouchTyped
     DEF Begin, RestTyped, bounds, TasksTyped, Places, table, shown, manager
<1> QED
  BY <1>1, <1>2, <1>3, <1>4, <1>5, <1>6, <1>7, <1>8, <1>9, <1>10, <1>11 DEF Driver

\* A step of a request keeps the types.
LEMMA HandlerTyped ==
    ASSUME TypeOK, Known, NEW h \in Handlers, Handler(h)
    PROVE  TypeOK'
<1> USE TypeParts DEF Stages
<1>0. task[h].pc /= "idle" => task[h].id \in Ids
  BY DEF Known
<1>1. CASE CreateNode(h)
  <2>1. CASE row /= None /\ Proceed(h, "add", row) /\ UNCHANGED <<table, stranded, faults>>
    BY <1>1, <2>1, ProceedTyped, RequestTyped
       DEF CreateNode, RestTyped, DriversTyped, table, shown, manager
  <2>2. CASE /\ used < MaxIds
             /\ used' = used + 1
             /\ row' = used + 1
             /\ \/ Proceed(h, "add", used + 1) /\ UNCHANGED <<stranded, faults>>
                \/ stranded' = stranded \cup {used + 1} /\ Fault /\ UNCHANGED task
    <3>1. used + 1 \in Ids /\ used' \in 0..MaxIds
      BY <2>2, NodeSessionsAssumption DEF RestTyped, Ids
    <3>2. stranded' \in SUBSET Ids /\ faults' \in 0..MaxFaults
      BY <2>2, <3>1, FaultTyped DEF RestTyped
    <3>3. TasksTyped'
      BY <2>2, <3>1, ProceedTyped DEF TasksTyped
    <3> QED
      BY <1>1, <2>2, <3>1, <3>2, <3>3, RequestTyped
         DEF CreateNode, RestTyped, DriversTyped, table, shown, manager
  <2> QED
    BY <1>1, <2>1, <2>2 DEF CreateNode
<1>2. CASE AddStop(h)
  BY <1>0, <1>2, UnmapTyped DEF AddStop, RestTyped, bounds, DriversTyped, table, shown
<1>3. CASE AddCancel(h)
  BY <1>0, <1>3, CancelTyped, ProceedTyped DEF AddCancel, RestTyped, bounds, table, shown, manager
<1>4. CASE AddStart(h)
  BY <1>0, <1>4, StartTyped, FinishTyped DEF AddStart, RestTyped, bounds, table, shown
<1>5. ASSUME NEW id \in Ids, RemoveStop(h, id)
      PROVE  TypeOK'
  BY <1>5, UnmapTyped, RequestTyped DEF RemoveStop, RestTyped, DriversTyped, table, shown
<1>6. CASE RemoveCancel(h)
  BY <1>0, <1>6, CancelTyped, ProceedTyped DEF RemoveCancel, RestTyped, bounds, table, shown, manager
<1>7. CASE RemoveClear(h)
  BY <1>0, <1>7, ProceedTyped
     DEF RemoveClear, RestTyped, bounds, DriversTyped, table, shown, manager
<1>8. CASE DeleteNode(h)
  <2>1. task[h].id \in Ids
    BY <1>0, <1>8 DEF DeleteNode
  <2>2. CASE /\ row' = IF row = task[h].id THEN None ELSE row
             /\ UNCHANGED <<stranded, faults>>
    BY <1>8, <2>2, FinishTyped DEF DeleteNode, RestTyped, DriversTyped, shown, manager
  <2>3. CASE /\ Fault
             /\ stranded' = stranded \cup {task[h].id}
             /\ UNCHANGED row
    BY <1>8, <2>1, <2>3, FinishTyped, FaultTyped
       DEF DeleteNode, RestTyped, DriversTyped, shown, manager
  <2> QED
    BY <1>8, <2>2, <2>3 DEF DeleteNode
<1> QED
  BY <1>1, <1>2, <1>3, <1>4, <1>5, <1>6, <1>7, <1>8 DEF Handler

\* Every step keeps the types.
LEMMA TypesStep ==
    ASSUME TypeOK, Known, [Next]_vars
    PROVE  TypeOK'
<1> USE TypeParts
<1>1. CASE TryStartAll
  <2>1. CASE loaded' = TRUE /\ toStart' = {row} \ {None} /\ UNCHANGED faults
    BY <1>1, <2>1 DEF TryStartAll, RestTyped, DriversTyped, TasksTyped, table, shown
  <2>2. CASE Fault /\ UNCHANGED <<loaded, toStart>>
    BY <1>1, <2>2, FaultTyped
       DEF TryStartAll, RestTyped, DriversTyped, TasksTyped, table, shown
  <2> QED
    BY <1>1, <2>1, <2>2 DEF TryStartAll
<1>2. ASSUME NEW id \in Ids, StartListed(id)
      PROVE  TypeOK'
  BY <1>2, StartTyped DEF StartListed, RestTyped, bounds, TasksTyped, table, shown
<1>3. ASSUME NEW d \in Drivers, Driver(d)
      PROVE  TypeOK'
  BY <1>3, DriverTyped
<1>4. ASSUME NEW h \in Handlers, Handler(h)
      PROVE  TypeOK'
  BY <1>4, HandlerTyped
<1>5. CASE UNCHANGED vars
  BY <1>5, Zenon DEF vars, table, shown, manager, bounds, TypeOK
<1> QED
  BY <1>1, <1>2, <1>3, <1>4, <1>5 DEF Next

-----------------------------------------------------------------------------
\* Only ids that were handed out are at work.

\* Nothing is at work when the panel starts.
LEMMA KnownInit == Init => Known
BY NodeConstants, NodeSessionsAssumption DEF Init, Known, Alive, Unused, Idle

\* What Known says of the drivers, and of the tasks.
DriversKnown ==
    \A d \in Drivers : drivers[d].id <= used /\ (Alive(d) => drivers[d].id \in Ids)

TasksKnown ==
    \A h \in Handlers :
        /\ task[h].id <= used
        /\ task[h].pc /= "idle" => task[h].id \in Ids
        /\ task[h].pc = "idle" => task[h].id = None

\* Known in four parts, now and after the step.
LEMMA KnownParts ==
    /\ Known <=> /\ row <= used
                 /\ \A id \in toStart : id <= used
                 /\ DriversKnown
                 /\ TasksKnown
    /\ Known' <=> /\ row' <= used'
                  /\ \A id \in toStart' : id <= used'
                  /\ DriversKnown'
                  /\ TasksKnown'
BY Zenon DEF Known, DriversKnown, TasksKnown

\* The ids of drivers and requests are numbers.
LEMMA NumberedIds ==
    ASSUME TypeOK
    PROVE  /\ \A d \in Drivers : drivers[d].id \in Nat
           /\ \A h \in Handlers : task[h].id \in Nat
<1>1. \A x \in Ids \cup {None} : x \in Nat
  BY NodeConstants
<1>2. \A d \in Drivers : drivers[d].id \in Ids \cup {None}
  BY DEF TypeOK
<1>3. \A h \in Handlers : task[h].id \in Ids \cup {None}
  BY DEF TypeOK
<1> QED
  BY <1>1, <1>2, <1>3, Zenon

\* start gives a known id to its driver.
LEMMA StartKnown ==
    ASSUME TypeOK, Known, NEW id \in Ids, id <= used, UNCHANGED used, Start(id)
    PROVE  DriversKnown'
<1>1. CASE UNCHANGED drivers
  BY <1>1, KnownParts DEF DriversKnown, Alive
<1>2. ASSUME NEW d \in Drivers, Made(id, d)
      PROVE  DriversKnown'
  BY <1>2, MadeMoves, KnownParts DEF DriversKnown, Alive
<1> QED
  BY <1>1, <1>2, StartCases

\* A request goes on with an id that was handed out.
LEMMA ProceedKnown ==
    ASSUME TypeOK, Known, NEW h \in Handlers, NEW id \in Ids, id <= used',
           NEW pc, pc /= "idle",
           used' \in Nat, used <= used', Proceed(h, pc, id) \/ Unmap(h, pc, id)
    PROVE  TasksKnown'
<1>1. \A g \in Handlers : task[g].id \in Nat
  BY NumberedIds
<1>2. \A g \in Handlers : g /= h => task'[g] = task[g]
  BY DEF TypeOK, Proceed, Unmap
<1>3. task'[h].pc = pc /\ task'[h].id = id
  BY DEF TypeOK, Proceed, Unmap
<1>4. used \in Nat
  BY NodeSessionsAssumption DEF TypeOK
<1> HIDE DEF TypeOK
<1> QED
  BY <1>1, <1>2, <1>3, <1>4, KnownParts DEF TasksKnown

\* A request that ends has no id.
LEMMA FinishKnown ==
    ASSUME TypeOK, Known, NEW h \in Handlers, UNCHANGED used, Finish(h)
    PROVE  TasksKnown'
<1>1. \A g \in Handlers : g /= h => task'[g] = task[g]
  BY DEF TypeOK, Finish
<1>2. task'[h].pc = "idle" /\ task'[h].id = None
  BY DEF TypeOK, Finish, Idle
<1> QED
  BY <1>1, <1>2, NodeConstants, NodeSessionsAssumption, KnownParts DEF TasksKnown, TypeOK

\* Every step works on ids that were handed out.
LEMMA KnownStep ==
    ASSUME TypeOK, Known, [Next]_vars
    PROVE  Known'
<1> USE KnownParts
<1>0. used \in Nat /\ row \in Nat
  BY NodeConstants, NodeSessionsAssumption DEF TypeOK
<1>1. CASE TryStartAll
  BY <1>1, Zenon DEF TryStartAll, DriversKnown, TasksKnown, Alive, table
<1>2. ASSUME NEW id \in Ids, StartListed(id)
      PROVE  Known'
  BY <1>2, StartKnown DEF StartListed, TasksKnown, table
<1>3. ASSUME NEW d \in Drivers, Driver(d)
      PROVE  Known'
  BY <1>3, DriverMoves DEF DriverMove, DriversKnown, TasksKnown, Alive
<1>4. ASSUME NEW h \in Handlers, CreateNode(h)
      PROVE  Known'
  <2>0. UNCHANGED <<drivers, toStart>>
    BY <1>4 DEF CreateNode, manager
  <2>1. CASE row /= None /\ Proceed(h, "add", row) /\ UNCHANGED table
    <3>1. row \in Ids
      BY <2>1 DEF TypeOK
    <3>2. TasksKnown'
      BY <1>0, <2>1, <3>1, ProceedKnown DEF table
    <3> QED
      BY <2>0, <2>1, <3>2 DEF DriversKnown, Alive, table
  <2>2. CASE /\ used < MaxIds
             /\ used' = used + 1
             /\ row' = used + 1
             /\ Proceed(h, "add", used + 1) \/ UNCHANGED task
    <3>1. used + 1 \in Ids
      BY <1>0, <2>2, NodeSessionsAssumption DEF Ids
    <3>2. TasksKnown'
      <4>1. CASE Proceed(h, "add", used + 1)
        BY <1>0, <2>2, <3>1, <4>1, ProceedKnown
      <4>2. CASE UNCHANGED task
        <5>1. \A g \in Handlers : task[g].id \in Nat
          BY NumberedIds
        <5> QED
          BY <1>0, <2>2, <4>2, <5>1 DEF TasksKnown
      <4> QED
        BY <2>2, <4>1, <4>2
    <3>3. DriversKnown'
      <4>1. \A d \in Drivers : drivers[d].id \in Nat
        BY NumberedIds
      <4> QED
        BY <1>0, <2>0, <2>2, <4>1 DEF DriversKnown, Alive
    <3>4. \A id \in toStart' : id <= used'
      <4>1. toStart \subseteq Nat
        BY NodeConstants DEF TypeOK
      <4> QED
        BY <1>0, <2>0, <2>2, <4>1
    <3> QED
      BY <1>0, <2>2, <3>2, <3>3, <3>4
  <2> QED
    BY <1>4, <2>1, <2>2 DEF CreateNode
<1>5. ASSUME NEW h \in Handlers, AddStop(h)
      PROVE  Known'
  <2>1. task[h].id \in Ids /\ task[h].id <= used
    BY <1>5 DEF AddStop, TasksKnown
  <2> QED
    BY <1>0, <1>5, <2>1, ProceedKnown DEF AddStop, DriversKnown, Alive, table
<1>6. ASSUME NEW h \in Handlers, AddStart(h)
      PROVE  Known'
  <2>1. task[h].id \in Ids /\ task[h].id <= used
    BY <1>6 DEF AddStart, TasksKnown
  <2> QED
    BY <1>6, <2>1, StartKnown, FinishKnown DEF AddStart, table
<1>7. ASSUME NEW h \in Handlers, RemoveClear(h)
      PROVE  Known'
  <2>1. task[h].id \in Ids /\ task[h].id <= used
    BY <1>7 DEF RemoveClear, TasksKnown
  <2> QED
    BY <1>0, <1>7, <2>1, ProceedKnown DEF RemoveClear, DriversKnown, Alive, table, manager
<1>8. ASSUME NEW h \in Handlers, DeleteNode(h)
      PROVE  Known'
  BY <1>0, <1>8, NodeConstants, FinishKnown DEF DeleteNode, DriversKnown, Alive, manager
<1>9. ASSUME NEW h \in Handlers, NEW id \in Ids, RemoveStop(h, id)
      PROVE  Known'
  BY <1>0, <1>9, ProceedKnown DEF RemoveStop, DriversKnown, Alive, table
<1>11. ASSUME NEW h \in Handlers, AddCancel(h) \/ RemoveCancel(h)
       PROVE  Known'
  <2>1. task[h].id \in Ids /\ task[h].id <= used
    BY <1>11 DEF AddCancel, RemoveCancel, TasksKnown
  <2>2. DriversKnown'
    BY <1>11, CancelMoves DEF AddCancel, RemoveCancel, table, DriversKnown, Alive
  <2>3. TasksKnown'
    BY <1>0, <1>11, <2>1, ProceedKnown DEF AddCancel, RemoveCancel, table
  <2> QED
    BY <1>11, <2>2, <2>3 DEF AddCancel, RemoveCancel, table, manager
<1>10. CASE UNCHANGED vars
  BY <1>10, Zenon DEF vars, table, shown, manager, DriversKnown, TasksKnown, Alive
<1> QED
  BY <1>1, <1>2, <1>3, <1>4, <1>5, <1>6, <1>7, <1>8, <1>9, <1>10, <1>11 DEF Next, Handler

-----------------------------------------------------------------------------
\* The maps hold the drivers that were not stopped, and nothing else.

MapsExact == MapsLive /\ CutsHeld /\ OneDriver

\* What the handlers have in hand stays there.
CutsSame ==
    \A g \in Handlers :
        task'[g].cut = task[g].cut /\ (task[g].cut /= None => task'[g] = task[g])

\* The maps are empty when the panel starts.
LEMMA MapsInit == Init => MapsExact
BY DEF Init, MapsExact, MapsLive, CutsHeld, OneDriver, Alive, Unused, Idle

\* Whatever touches neither maps, drivers nor what the handlers have in hand keeps
\* them exact.
LEMMA MapsKept ==
    ASSUME MapsExact, UNCHANGED <<conns, drivers>>, CutsSame
    PROVE  MapsExact'
<1>1. MapsLive' /\ OneDriver'
  BY DEF MapsExact, MapsLive, OneDriver, Alive, CutsSame
<1>2. CutsHeld'
  BY DEF MapsExact, CutsHeld, InHand, Alive, CutsSame
<1> QED
  BY <1>1, <1>2 DEF MapsExact

\* start records the one driver it makes.
LEMMA MapsStart ==
    ASSUME TypeOK, Known, MapsExact, NEW id \in Ids, Start(id), CutsSame
    PROVE  MapsExact'
<1>1. CASE UNCHANGED <<conns, drivers>>
  BY <1>1, MapsKept
<1>2. ASSUME NEW d \in Drivers, Made(id, d)
      PROVE  MapsExact'
  <2>1. ~Alive(d) /\ conns[id] = None
    BY <1>2 DEF Made
  <2>2. \A j \in Ids : conns[j] /= None => conns[j] \in Drivers /\ conns[j] /= d
    BY <2>1 DEF MapsExact, MapsLive, TypeOK
  <2>3. MapsLive'
    BY <1>2, <2>2, MadeMoves DEF MapsExact, MapsLive, Alive
  <2>4. OneDriver'
    <3> SUFFICES ASSUME NEW e \in Drivers, Alive(e)', ~drivers'[e].cancelled
                 PROVE  conns'[drivers'[e].id] = e \/ \E h \in Handlers : task'[h].cut = e
      BY DEF OneDriver
    <3>1. CASE e = d
      BY <1>2, <3>1, MadeMoves
    <3>2. CASE e /= d
      <4>1. drivers'[e] = drivers[e]
        BY <1>2, <3>2, MadeMoves
      <4>2. Alive(e) /\ ~drivers[e].cancelled
        BY <4>1 DEF Alive
      <4>3. drivers[e].id \in Ids
        BY <4>2 DEF Known
      <4>4. CASE conns[drivers[e].id] = e
        <5>1. drivers[e].id /= id
          BY <2>1, <4>4, NodeConstants
        <5> QED
          BY <1>2, <4>1, <4>3, <4>4, <5>1, MadeMoves
      <4>5. CASE \E h \in Handlers : task[h].cut = e
        BY <4>5 DEF CutsSame
      <4> QED
        BY <4>2, <4>4, <4>5 DEF MapsExact, OneDriver
    <3> QED
      BY <3>1, <3>2
  <2>5. CutsHeld'
    <3> SUFFICES ASSUME NEW h \in Handlers, task'[h].cut /= None
                 PROVE  InHand(h)'
      BY DEF CutsHeld
    <3>1. task'[h] = task[h] /\ InHand(h)
      BY DEF CutsSame, MapsExact, CutsHeld
    <3>2. task[h].cut \in Drivers /\ task[h].id \in Ids
      BY <3>1 DEF TypeOK, Known, InHand
    <3>3. drivers'[task[h].cut] = drivers[task[h].cut] /\ task[h].cut /= d
      BY <1>2, <2>1, <3>1, <3>2, MadeMoves DEF InHand
    <3>4. conns'[task[h].id] /= task[h].cut
      BY <1>2, <3>1, <3>2, <3>3, MadeMoves DEF InHand
    <3> QED
      BY <3>1, <3>3, <3>4 DEF InHand, Alive, CutsSame
  <2> QED
    BY <2>3, <2>4, <2>5 DEF MapsExact
<1> QED
  BY <1>1, <1>2, StartCases

\* The driver a handler takes out of the maps was in nobody else's hands.
LEMMA MapsUnmap ==
    ASSUME TypeOK, Known, MapsExact, NEW h \in Handlers, NEW id \in Ids,
           NEW pc \in {"addcut", "removecut"}, Unmap(h, pc, id), UNCHANGED drivers,
           task[h].cut = None
    PROVE  MapsExact'
<1> USE UnmapMoves
<1>0. conns[id] /= None =>
        /\ conns[id] \in Drivers
        /\ drivers[conns[id]].id = id
        /\ Alive(conns[id])
        /\ ~drivers[conns[id]].cancelled
  BY DEF TypeOK, MapsExact, MapsLive
<1>1. MapsLive'
  BY DEF MapsExact, MapsLive, Alive
<1>2. OneDriver'
  <2> SUFFICES ASSUME NEW e \in Drivers, Alive(e), ~drivers[e].cancelled
               PROVE  conns'[drivers[e].id] = e \/ \E g \in Handlers : task'[g].cut = e
    BY DEF OneDriver, Alive
  <2>1. drivers[e].id \in Ids
    BY DEF Known
  <2>2. CASE conns[drivers[e].id] = e
    BY <2>1, <2>2
  <2>3. ASSUME NEW g \in Handlers, task[g].cut = e
        PROVE  task'[g].cut = e
    BY <2>3, NodeConstants
  <2> QED
    BY <2>2, <2>3 DEF MapsExact, OneDriver
<1>3. CutsHeld'
  <2>1. ASSUME NEW g \in Handlers, g /= h, task[g].cut /= None
        PROVE  InHand(g)' /\ task[g].cut /= conns[id]
    <3>1. InHand(g) /\ task[g].id \in Ids
      BY <2>1 DEF MapsExact, CutsHeld, InHand, Known
    <3>2. conns'[task[g].id] /= task[g].cut
      BY <2>1, <3>1 DEF InHand
    <3>3. task[g].cut /= conns[id]
      BY <1>0, <2>1, <3>1 DEF InHand
    <3> QED
      BY <2>1, <3>1, <3>2, <3>3 DEF InHand, Alive
  <2>2. ASSUME conns[id] /= None
        PROVE  InHand(h)'
    <3>1. \A g \in Handlers : g /= h => task'[g].cut /= task'[h].cut
      BY <2>1, <2>2
    <3> QED
      BY <1>0, <2>2, <3>1 DEF InHand, Alive
  <2> QED
    BY <2>1, <2>2 DEF CutsHeld
<1> QED
  BY <1>1, <1>2, <1>3 DEF MapsExact

\* A handler cancels the driver it has in hand, and no other.
LEMMA MapsCancel ==
    ASSUME TypeOK, Known, MapsExact, NEW h \in Handlers, Cancel(h), UNCHANGED conns,
           task'[h].cut = None, \A g \in Handlers : g /= h => task'[g] = task[g]
    PROVE  MapsExact'
<1> USE CancelMoves
<1>1. MapsLive'
  <2> SUFFICES ASSUME NEW j \in Ids, conns[j] /= None
               PROVE  /\ drivers'[conns[j]].id = j
                      /\ Alive(conns[j])'
                      /\ ~drivers'[conns[j]].cancelled
    BY DEF MapsLive
  <2>1. /\ conns[j] \in Drivers
        /\ drivers[conns[j]].id = j
        /\ Alive(conns[j])
        /\ ~drivers[conns[j]].cancelled
    BY DEF TypeOK, MapsExact, MapsLive
  <2>2. conns[j] /= task[h].cut
    BY <2>1 DEF MapsExact, CutsHeld, InHand
  <2> QED
    BY <2>1, <2>2 DEF Alive
<1>2. OneDriver'
  <2> SUFFICES ASSUME NEW e \in Drivers, Alive(e)', ~drivers'[e].cancelled
               PROVE  conns[drivers'[e].id] = e \/ \E g \in Handlers : task'[g].cut = e
    BY DEF OneDriver
  <2>1. e /= task[h].cut
    BY NodeConstants
  <2>2. Alive(e) /\ ~drivers[e].cancelled /\ drivers'[e].id = drivers[e].id
    BY <2>1 DEF Alive
  <2> QED
    BY <2>1, <2>2 DEF MapsExact, OneDriver
<1>3. CutsHeld'
  <2> SUFFICES ASSUME NEW g \in Handlers, task'[g].cut /= None
               PROVE  InHand(g)'
    BY DEF CutsHeld
  <2>1. g /= h /\ task'[g] = task[g] /\ InHand(g) /\ task[g].cut \in Drivers
    BY DEF MapsExact, CutsHeld, TypeOK
  <2>2. task[g].cut /= task[h].cut
    BY <2>1 DEF InHand
  <2>3. \A f \in Handlers : f /= g => task'[f].cut /= task[g].cut
    BY <2>1 DEF InHand
  <2> QED
    BY <2>1, <2>2, <2>3 DEF InHand, Alive
<1> QED
  BY <1>1, <1>2, <1>3 DEF MapsExact

\* A driver returns only after it was taken off the maps and cancelled.
LEMMA MapsDriver ==
    ASSUME TypeOK, Known, MapsExact, NEW d \in Drivers, Driver(d)
    PROVE  MapsExact'
<1> USE DriverMoves
<1>1. MapsLive'
  <2> SUFFICES ASSUME NEW id \in Ids, conns[id] /= None
               PROVE  /\ drivers'[conns[id]].id = id
                      /\ Alive(conns[id])'
                      /\ ~drivers'[conns[id]].cancelled
    BY DEF MapsLive, DriverMove
  <2>1. conns[id] \in Drivers
    BY DEF TypeOK
  <2>2. /\ drivers[conns[id]].id = id
        /\ Alive(conns[id])
        /\ ~drivers[conns[id]].cancelled
    BY DEF MapsExact, MapsLive
  <2> QED
    BY <2>1, <2>2 DEF DriverMove, Alive
<1>2. OneDriver'
  BY DEF MapsExact, OneDriver, DriverMove, Alive
<1>3. CutsHeld'
  <2> SUFFICES ASSUME NEW h \in Handlers, task[h].cut /= None
               PROVE  InHand(h)'
    BY DEF CutsHeld, DriverMove
  <2>1. InHand(h) /\ task[h].cut \in Drivers
    BY DEF MapsExact, CutsHeld, TypeOK
  <2> QED
    BY <2>1 DEF InHand, DriverMove, Alive
<1> QED
  BY <1>1, <1>2, <1>3 DEF MapsExact

\* A request that goes on or ends leaves the others alone.
LEMMA TasksMove ==
    ASSUME TypeOK, NEW h \in Handlers
    PROVE  /\ \A pc, id : Proceed(h, pc, id) =>
                /\ task'[h].pc = pc
                /\ task'[h].id = id
                /\ task'[h].cut = None
                /\ \A g \in Handlers : g /= h => task'[g] = task[g]
           /\ Finish(h) =>
                /\ task'[h].pc = "idle"
                /\ task'[h].id = None
                /\ task'[h].cut = None
                /\ \A g \in Handlers : g /= h => task'[g] = task[g]
BY DEF TypeOK, Proceed, Finish, Idle

\* A step of a request keeps the maps exact.
LEMMA MapsHandler ==
    ASSUME TypeOK, Known, MapsExact, NEW h \in Handlers, Handler(h)
    PROVE  MapsExact'
<1>0. /\ task[h].pc /= "idle" => task[h].id \in Ids
      /\ task[h].pc \notin {"addcut", "removecut"} => task[h].cut = None
  BY DEF Known, MapsExact, CutsHeld, InHand
<1>1. ASSUME task[h].cut = None, task'[h].cut = None,
             \A g \in Handlers : g /= h => task'[g] = task[g]
      PROVE  CutsSame
  BY <1>1 DEF CutsSame
<1>2. CASE CreateNode(h)
  <2>1. task[h].cut = None /\ UNCHANGED <<conns, drivers>>
    BY <1>2 DEF CreateNode, Idle, manager
  <2>2. CutsSame
    <3>1. CASE UNCHANGED task
      BY <3>1 DEF CutsSame
    <3>2. CASE \E id \in Ids \cup {used + 1} : Proceed(h, "add", id)
      BY <1>1, <2>1, <3>2, TasksMove
    <3> QED
      BY <1>2, <3>1, <3>2 DEF CreateNode, TypeOK
  <2> QED
    BY <2>1, <2>2, MapsKept
<1>3. CASE AddStop(h)
  BY <1>0, <1>3, MapsUnmap DEF AddStop
<1>4. CASE AddCancel(h)
  BY <1>4, TasksMove, MapsCancel DEF AddCancel, manager
<1>5. CASE AddStart(h)
  <2>1. CutsSame /\ task[h].id \in Ids /\ Start(task[h].id)
    BY <1>0, <1>1, <1>5, TasksMove DEF AddStart
  <2> QED
    BY <2>1, MapsStart
<1>6. ASSUME NEW id \in Ids, RemoveStop(h, id)
      PROVE  MapsExact'
  <2>1. task[h].cut = None
    BY <1>6 DEF RemoveStop, Idle
  <2> QED
    BY <1>6, <2>1, MapsUnmap DEF RemoveStop
<1>7. CASE RemoveCancel(h)
  BY <1>7, TasksMove, MapsCancel DEF RemoveCancel, manager
<1>8. CASE RemoveClear(h) \/ DeleteNode(h)
  <2>1. CutsSame
    BY <1>0, <1>1, <1>8, TasksMove DEF RemoveClear, DeleteNode
  <2> QED
    BY <1>8, <2>1, MapsKept DEF RemoveClear, DeleteNode, manager
<1> QED
  BY <1>2, <1>3, <1>4, <1>5, <1>6, <1>7, <1>8 DEF Handler

\* Every step keeps the maps exact.
LEMMA MapsStep ==
    ASSUME TypeOK, Known, MapsExact, [Next]_vars
    PROVE  MapsExact'
<1>0. UNCHANGED task => CutsSame
  BY DEF CutsSame
<1>1. CASE TryStartAll
  BY <1>0, <1>1, MapsKept DEF TryStartAll
<1>2. ASSUME NEW id \in Ids, StartListed(id)
      PROVE  MapsExact'
  BY <1>0, <1>2, MapsStart DEF StartListed
<1>3. ASSUME NEW d \in Drivers, Driver(d)
      PROVE  MapsExact'
  BY <1>3, MapsDriver
<1>4. ASSUME NEW h \in Handlers, Handler(h)
      PROVE  MapsExact'
  BY <1>4, MapsHandler
<1>5. CASE UNCHANGED vars
  BY <1>0, <1>5, MapsKept DEF vars, manager
<1> QED
  BY <1>1, <1>2, <1>3, <1>4, <1>5 DEF Next

-----------------------------------------------------------------------------
\* A node without a driver is one that somebody still has to come to.

\* A start leaves the node with a driver, and the other nodes alone.
LEMMA StartMaps ==
    ASSUME TypeOK, NEW id \in Ids, Start(id)
    PROVE  conns'[id] /= None /\ \A j \in Ids : j /= id => conns'[j] = conns[j]
BY StartCases, MadeMoves

\* The list has not been read when the panel starts.
LEMMA DrivenInit == Init => RowIsDriven
BY DEF Init, RowIsDriven

\* Every step that leaves a node without a driver leaves somebody to come to it.
LEMMA DrivenStep ==
    ASSUME TypeOK, Known, RowIsDriven, [Next]_vars
    PROVE  RowIsDriven'
<1> SUFFICES ASSUME loaded', row' /= None, row' \notin toStart' \cup stranded',
                    \A h \in Handlers : task'[h].id /= row'
             PROVE  conns'[row'] /= None
  BY DEF RowIsDriven
<1>0. row \in Ids \/ row = None
  BY DEF TypeOK
<1>1. CASE TryStartAll
  BY <1>1, Zenon DEF TryStartAll, RowIsDriven, table
<1>2. ASSUME NEW id \in Ids, StartListed(id)
      PROVE  conns'[row'] /= None
  <2>1. UNCHANGED <<row, loaded, task, stranded>> /\ toStart' = toStart \ {id}
    BY <1>2 DEF StartListed, table
  <2>2. conns'[id] /= None /\ \A j \in Ids : j /= id => conns'[j] = conns[j]
    BY <1>2, StartMaps DEF StartListed
  <2> QED
    BY <1>0, <2>1, <2>2 DEF RowIsDriven
<1>3. ASSUME NEW d \in Drivers, Driver(d)
      PROVE  conns'[row'] /= None
  BY <1>3, DriverMoves DEF DriverMove, RowIsDriven
<1>4. ASSUME NEW h \in Handlers, CreateNode(h)
      PROVE  conns'[row'] /= None
  <2>1. task'[h].id = row' \/ row' \in stranded'
    BY <1>4, TasksMove DEF CreateNode, table
  <2> QED
    BY <2>1
<1>5. ASSUME NEW h \in Handlers, AddStop(h)
      PROVE  conns'[row'] /= None
  <2>1. task[h].id \in Ids
    BY <1>5 DEF AddStop, Known
  <2>2. UNCHANGED <<row, loaded, toStart>> /\ stranded' = stranded \ {task[h].id}
    BY <1>5 DEF AddStop, table
  <2>3. \A j \in Ids : j /= task[h].id => conns'[j] = conns[j]
    BY <1>5, <2>1, UnmapMoves DEF AddStop
  <2>4. task'[h].id = task[h].id /\ \A g \in Handlers : g /= h => task'[g] = task[g]
    BY <1>5, <2>1, UnmapMoves DEF AddStop
  <2> QED
    BY <1>0, <2>2, <2>3, <2>4 DEF RowIsDriven
<1>6. ASSUME NEW h \in Handlers, AddStart(h)
      PROVE  conns'[row'] /= None
  <2>1. task[h].id \in Ids
    BY <1>6 DEF AddStart, Known
  <2>2. UNCHANGED <<row, loaded, toStart, stranded>>
    BY <1>6 DEF AddStart, table
  <2>3. /\ conns'[task[h].id] /= None
        /\ \A j \in Ids : j /= task[h].id => conns'[j] = conns[j]
    BY <1>6, <2>1, StartMaps DEF AddStart
  <2>4. \A g \in Handlers : g /= h => task'[g] = task[g]
    BY <1>6, TasksMove DEF AddStart
  <2> QED
    BY <1>0, <2>2, <2>3, <2>4 DEF RowIsDriven
<1>7. ASSUME NEW h \in Handlers, AddCancel(h) \/ RemoveCancel(h) \/ RemoveClear(h)
      PROVE  conns'[row'] /= None
  <2>1. UNCHANGED <<row, loaded, toStart, stranded, conns>>
    BY <1>7 DEF AddCancel, RemoveCancel, RemoveClear, table, manager
  <2>2. task'[h].id = task[h].id /\ \A g \in Handlers : g /= h => task'[g] = task[g]
    BY <1>7, TasksMove DEF AddCancel, RemoveCancel, RemoveClear
  <2> QED
    BY <2>1, <2>2 DEF RowIsDriven
<1>8. ASSUME NEW h \in Handlers, DeleteNode(h)
      PROVE  conns'[row'] /= None
  <2>1. UNCHANGED <<loaded, toStart, conns>>
    BY <1>8 DEF DeleteNode, manager
  <2>2. row' = row /\ stranded \subseteq stranded' /\ row /= task[h].id
    BY <1>8 DEF DeleteNode
  <2>3. \A g \in Handlers : g /= h => task'[g] = task[g]
    BY <1>8, TasksMove DEF DeleteNode
  <2> QED
    BY <2>1, <2>2, <2>3 DEF RowIsDriven
<1>9. ASSUME NEW h \in Handlers, NEW id \in Ids, RemoveStop(h, id)
      PROVE  conns'[row'] /= None
  <2>1. UNCHANGED <<row, loaded, toStart, stranded>>
    BY <1>9 DEF RemoveStop, table
  <2>2. \A j \in Ids : j /= id => conns'[j] = conns[j]
    BY <1>9, UnmapMoves DEF RemoveStop
  <2>3. task'[h].id = id /\ \A g \in Handlers : g /= h => task'[g] = task[g]
    BY <1>9, UnmapMoves DEF RemoveStop
  <2>4. task[h].id = None
    BY <1>9 DEF RemoveStop, Idle
  <2> QED
    BY <1>0, <2>1, <2>2, <2>3, <2>4 DEF RowIsDriven
<1>10. CASE UNCHANGED vars
  BY <1>10, Zenon DEF vars, table, manager, RowIsDriven
<1> QED
  BY <1>1, <1>2, <1>3, <1>4, <1>5, <1>6, <1>7, <1>8, <1>9, <1>10 DEF Next, Handler

-----------------------------------------------------------------------------
\* State is kept of the nodes that are driven, and of those a request has in hand.

\* There is no pipeline state when the panel starts.
LEMMA OwnedInit == Init => PipeOwned
BY DEF Init, PipeOwned

\* Every step that makes pipeline state, or takes its owner away, leaves it an owner.
LEMMA OwnedStep ==
    ASSUME TypeOK, Known, MapsExact, PipeOwned, [Next]_vars
    PROVE  PipeOwned'
<1> DEFINE Holds(h, id) == task[h].id = id /\ task[h].pc \in Handing
<1> USE DEF Handing
<1> SUFFICES ASSUME NEW id \in pipe', id \notin revived'
             PROVE  conns'[id] /= None \/ \E h \in Handlers : Holds(h, id)'
  BY DEF PipeOwned
<1>0. id \in Ids
  BY TypesStep DEF TypeOK
<1>a. ASSUME id \in pipe \ revived,
             conns[id] /= None => conns'[id] /= None,
             \A h \in Handlers : Holds(h, id) => Holds(h, id)'
      PROVE  conns'[id] /= None \/ \E h \in Handlers : Holds(h, id)'
  BY <1>a DEF PipeOwned
<1>1. CASE TryStartAll
  BY <1>1, <1>a DEF TryStartAll
<1>2. ASSUME NEW j \in Ids, StartListed(j)
      PROVE  conns'[id] /= None \/ \E h \in Handlers : Holds(h, id)'
  <2>1. conns'[j] /= None /\ \A k \in Ids : k /= j => conns'[k] = conns[k]
    BY <1>2, StartMaps DEF StartListed
  <2>2. UNCHANGED <<task, revived, pipe>>
    BY <1>2 DEF StartListed
  <2> QED
    BY <1>0, <1>a, <2>1, <2>2
<1>3. ASSUME NEW d \in Drivers, Driver(d)
      PROVE  conns'[id] /= None \/ \E h \in Handlers : Holds(h, id)'
  <2>1. UNCHANGED <<conns, task>> /\ Alive(d)
    BY <1>3, DriverMoves DEF DriverMove
  <2>2. id \in pipe \ revived \/ (id = drivers[d].id /\ ~Out(d))
    BY <1>3, DriverTouches
  <2>3. CASE id \in pipe \ revived
    BY <1>a, <2>1, <2>3
  <2>4. CASE id = drivers[d].id /\ ~Out(d)
    BY <2>1, <2>4, NodeConstants DEF Out
  <2> QED
    BY <2>2, <2>3, <2>4
<1>4. ASSUME NEW h \in Handlers, CreateNode(h)
      PROVE  conns'[id] /= None \/ \E g \in Handlers : Holds(g, id)'
  <2>1. UNCHANGED <<conns, pipe, revived>> /\ task[h].pc = "idle"
    BY <1>4 DEF CreateNode, manager, Idle
  <2>2. \A g \in Handlers : g /= h => task'[g] = task[g]
    BY <1>4, TasksMove DEF CreateNode
  <2> QED
    BY <1>a, <2>1, <2>2
<1>5. ASSUME NEW h \in Handlers, AddStop(h)
      PROVE  conns'[id] /= None \/ \E g \in Handlers : Holds(g, id)'
  <2>1. task[h].pc = "add" /\ task[h].id \in Ids /\ UNCHANGED <<pipe, revived>>
    BY <1>5 DEF AddStop, Known
  <2>2. \A k \in Ids : k /= task[h].id => conns'[k] = conns[k]
    BY <1>5, <2>1, UnmapMoves DEF AddStop
  <2>3. /\ task'[h].pc = "addcut"
        /\ task'[h].id = task[h].id
        /\ \A g \in Handlers : g /= h => task'[g] = task[g]
    BY <1>5, <2>1, UnmapMoves DEF AddStop
  <2> QED
    BY <1>0, <1>a, <2>1, <2>2, <2>3
<1>6. ASSUME NEW h \in Handlers, AddStart(h)
      PROVE  conns'[id] /= None \/ \E g \in Handlers : Holds(g, id)'
  <2>1. task[h].id \in Ids /\ UNCHANGED <<revived, pipe>>
    BY <1>6 DEF AddStart, Known
  <2>2. /\ conns'[task[h].id] /= None
        /\ \A k \in Ids : k /= task[h].id => conns'[k] = conns[k]
    BY <1>6, <2>1, StartMaps DEF AddStart
  <2>3. \A g \in Handlers : g /= h => task'[g] = task[g]
    BY <1>6, TasksMove DEF AddStart
  <2> QED
    BY <1>0, <1>a, <2>1, <2>2, <2>3
<1>7. ASSUME NEW h \in Handlers, RemoveClear(h)
      PROVE  conns'[id] /= None \/ \E g \in Handlers : Holds(g, id)'
  <2>1. /\ UNCHANGED conns
        /\ pipe' = pipe \ {task[h].id}
        /\ revived' = revived \ {task[h].id}
    BY <1>7 DEF RemoveClear, manager
  <2>2. \A g \in Handlers : g /= h => task'[g] = task[g]
    BY <1>7, TasksMove DEF RemoveClear
  <2> QED
    BY <1>a, <2>1, <2>2
<1>8. ASSUME NEW h \in Handlers, DeleteNode(h)
      PROVE  conns'[id] /= None \/ \E g \in Handlers : Holds(g, id)'
  <2>1. UNCHANGED <<conns, pipe, revived>> /\ task[h].pc = "delete"
    BY <1>8 DEF DeleteNode, manager
  <2>2. \A g \in Handlers : g /= h => task'[g] = task[g]
    BY <1>8, TasksMove DEF DeleteNode
  <2> QED
    BY <1>a, <2>1, <2>2
<1>9. ASSUME NEW h \in Handlers, NEW j \in Ids, RemoveStop(h, j)
      PROVE  conns'[id] /= None \/ \E g \in Handlers : Holds(g, id)'
  <2>1. task[h].pc = "idle" /\ UNCHANGED <<pipe, revived>>
    BY <1>9 DEF RemoveStop, Idle
  <2>2. \A k \in Ids : k /= j => conns'[k] = conns[k]
    BY <1>9, UnmapMoves DEF RemoveStop
  <2>3. /\ task'[h].pc = "removecut"
        /\ task'[h].id = j
        /\ \A g \in Handlers : g /= h => task'[g] = task[g]
    BY <1>9, UnmapMoves DEF RemoveStop
  <2> QED
    BY <1>0, <1>a, <2>1, <2>2, <2>3
<1>11. ASSUME NEW h \in Handlers, AddCancel(h) \/ RemoveCancel(h)
       PROVE  conns'[id] /= None \/ \E g \in Handlers : Holds(g, id)'
  <2>1. UNCHANGED <<conns, pipe, revived>>
    BY <1>11 DEF AddCancel, RemoveCancel, manager
  <2>2. /\ task'[h].pc \in {"start", "remove"}
        /\ task'[h].id = task[h].id
        /\ \A g \in Handlers : g /= h => task'[g] = task[g]
    BY <1>11, TasksMove DEF AddCancel, RemoveCancel
  <2> QED
    BY <1>a, <2>1, <2>2
<1>10. CASE UNCHANGED vars
  BY <1>10, <1>a DEF vars, manager
<1> QED
  BY <1>1, <1>2, <1>3, <1>4, <1>5, <1>6, <1>7, <1>8, <1>9, <1>10, <1>11 DEF Next, Handler

-----------------------------------------------------------------------------
\* What was said of a node is what the driver in the maps has said.

\* Of the other nodes a driver says nothing.
LEMMA DriverSpeaks ==
    ASSUME TypeOK, Known, NEW d \in Drivers, Driver(d)
    PROVE  \A id \in Ids : id /= drivers[d].id =>
                /\ status'[id] = status[id]
                /\ pushed'[id] = pushed[id]
                /\ id \in blurred => id \in blurred'
<1>0. drivers[d].id \in Ids
  BY DriverMoves DEF DriverMove, Known
<1>1. CASE GoUp(d)
  BY <1>1 DEF GoUp, shown
<1>2. CASE OnlineWrite(d)
  BY <1>0, <1>2 DEF OnlineWrite, WriteStatus, TypeOK
<1>3. CASE OnlinePush(d)
  BY <1>0, <1>3 DEF OnlinePush, PushStatus, TypeOK
<1>4. CASE OfflineWrite(d)
  BY <1>0, <1>4 DEF OfflineWrite, WriteStatus, TypeOK
<1>5. CASE OfflinePush(d)
  BY <1>0, <1>5 DEF OfflinePush, PushStatus, TypeOK
<1>6. CASE UNCHANGED <<shown, blurred>>
  BY <1>6 DEF shown
<1> QED
  BY <1>1, <1>2, <1>3, <1>4, <1>5, <1>6
     DEF Driver, Begin, Return, Dial, HandshakeFails, Receive, SessionEnds

\* No step speaks of an id that was not handed out.
LEMMA UnspokenStep ==
    ASSUME TypeOK, Known, Unspoken, [Next]_vars
    PROVE  Unspoken'
<1>0. used \in Nat /\ used' \in Nat /\ Ids \subseteq Nat
  BY NodeConstants, NodeSessionsAssumption, TypesStep DEF TypeOK
<1>a. ASSUME UNCHANGED shown, used' >= used
      PROVE  Unspoken'
  BY <1>0, <1>a DEF Unspoken, shown
<1>1. CASE TryStartAll
  BY <1>0, <1>1, <1>a DEF TryStartAll, table
<1>2. ASSUME NEW id \in Ids, StartListed(id)
      PROVE  Unspoken'
  BY <1>0, <1>2, <1>a DEF StartListed, table
<1>3. ASSUME NEW d \in Drivers, Driver(d)
      PROVE  Unspoken'
  <2>1. drivers[d].id <= used /\ drivers[d].id \in Nat
    BY NumberedIds DEF Known
  <2>2. used' = used
    BY <1>3, DriverMoves DEF DriverMove
  <2>3. \A id \in Ids : id > used => id /= drivers[d].id
    BY <1>0, <2>1
  <2> QED
    BY <1>3, <2>2, <2>3, DriverSpeaks DEF Unspoken
<1>4. ASSUME NEW h \in Handlers, Handler(h)
      PROVE  Unspoken'
  <2>1. UNCHANGED shown
    BY <1>4 DEF Handler, CreateNode, AddStop, AddCancel, AddStart, RemoveStop, RemoveCancel,
                RemoveClear, DeleteNode
  <2>2. used' = used \/ used' = used + 1
    BY <1>4 DEF Handler, CreateNode, AddStop, AddCancel, AddStart, RemoveStop, RemoveCancel,
                RemoveClear, DeleteNode, table
  <2> QED
    BY <1>0, <1>a, <2>1, <2>2
<1>5. CASE UNCHANGED vars
  BY <1>0, <1>5, <1>a DEF vars, table
<1> QED
  BY <1>1, <1>2, <1>3, <1>4, <1>5 DEF Next

\* What a status follows from, unchanged, keeps it.
LEMMA FollowsKept ==
    ASSUME NEW id \in Ids, Follows(id),
           conns'[id] = conns[id],
           conns[id] /= None => drivers'[conns[id]].pc = drivers[conns[id]].pc,
           status'[id] = status[id], pushed'[id] = pushed[id]
    PROVE  Follows(id)'
BY DEF Follows

Speaking == {"up", "announce", "reading", "down", "retract"}

\* A step that silences no driver out of the maps leaves its node as it was said.
LEMMA QuietBefore ==
    ASSUME NEW id \in Ids, Loud(id)' = {},
           \A e \in Drivers :
                drivers[e].id = id /\ conns[id] /= e /\ drivers[e].pc \in Speaking =>
                    /\ drivers'[e].id = id
                    /\ conns'[id] /= e
                    /\ drivers'[e].pc \in Speaking
    PROVE  Loud(id) = {}
BY DEF Loud, Speaking

\* The driver of another node.
LEMMA FollowsOther ==
    ASSUME TypeOK, Known, MapsExact, NEW d \in Drivers, Driver(d),
           NEW id \in Ids, id /= drivers[d].id, id = row', id \notin blurred',
           Loud(id)' = {}, StatusFollows
    PROVE  Follows(id)'
<1> USE DriverMoves
<1>1. row' = row /\ conns' = conns
  BY DEF DriverMove
<1>2. Loud(id) = {}
  BY QuietBefore DEF DriverMove
<1>3. status'[id] = status[id] /\ pushed'[id] = pushed[id] /\ id \notin blurred
  BY DriverSpeaks
<1>4. conns[id] /= None => conns[id] \in Drivers /\ conns[id] /= d
  BY DEF TypeOK, MapsExact, MapsLive
<1>5. conns[id] /= None => drivers'[conns[id]].pc = drivers[conns[id]].pc
  BY <1>4 DEF DriverMove
<1>6. Follows(id)
  BY <1>1, <1>2, <1>3 DEF StatusFollows
<1> QED
  BY <1>1, <1>3, <1>5, <1>6, FollowsKept

\* A driver out of the maps: as long as it can speak nothing is claimed, and when it
\* falls silent the node is marked.
LEMMA FollowsStopped ==
    ASSUME TypeOK, Known, MapsExact, NEW d \in Drivers, Driver(d), Out(d),
           NEW id \in Ids, id = drivers[d].id, id = row', id \notin blurred',
           Loud(id)' = {}, StatusFollows
    PROVE  Follows(id)'
<1>0. row' = row /\ conns' = conns
  BY DriverMoves DEF DriverMove
<1>1. drivers'[d].pc \notin Speaking
  BY DriverMoves DEF DriverMove, Loud, Speaking, Out
<1>2. Begin(d) \/ Return(d) \/ Dial(d) \/ HandshakeFails(d)
  <2>2. ~OfflinePush(d)
    BY DEF OfflinePush, PushStatus
  <2>3. ~Receive(d)
    BY <1>1 DEF Receive, At, Speaking
  <2>4. ~(GoUp(d) \/ OnlineWrite(d) \/ OnlinePush(d) \/ SessionEnds(d) \/ OfflineWrite(d))
    BY <1>1, GotoMoves
       DEF GoUp, OnlineWrite, OnlinePush, SessionEnds, OfflineWrite, Speaking
  <2> QED
    BY <2>2, <2>3, <2>4 DEF Driver
<1>3. drivers[d].pc \in {"new", "run", "linking"} /\ UNCHANGED <<status, pushed, blurred>>
  BY <1>2 DEF Begin, Return, Dial, HandshakeFails, At, shown
<1>4. Loud(id) = {}
  BY <1>3, DriverMoves, QuietBefore DEF DriverMove, Speaking
<1>5. conns[id] /= None => conns[id] \in Drivers /\ conns[id] /= d
  BY DEF TypeOK, Out
<1>6. conns[id] /= None => drivers'[conns[id]].pc = drivers[conns[id]].pc
  BY <1>5, DriverMoves DEF DriverMove
<1>7. Follows(id)
  BY <1>0, <1>3, <1>4 DEF StatusFollows
<1> QED
  BY <1>0, <1>3, <1>6, <1>7, FollowsKept

\* The driver in the maps.
LEMMA FollowsDriver ==
    ASSUME TypeOK, Known, MapsExact, NEW d \in Drivers, Driver(d), ~Out(d),
           NEW id \in Ids, id = drivers[d].id, id = row', id \notin blurred',
           Loud(id)' = {}, StatusFollows
    PROVE  Follows(id)'
<1>0. row' = row /\ conns' = conns /\ Alive(d)
  BY DriverMoves DEF DriverMove
<1>1. conns[id] = d /\ conns'[id] = d /\ d /= None
  BY <1>0, NodeConstants DEF Out
<1>2. Loud(id) = {}
  <2>1. \A e \in Drivers : e /= d =>
           drivers'[e].id = drivers[e].id /\ drivers'[e].pc = drivers[e].pc
    BY DriverMoves DEF DriverMove
  <2> QED
    BY <1>1, <2>1, QuietBefore
<1>3. id \notin blurred => Follows(id)
  BY <1>0, <1>2 DEF StatusFollows
<1>4. CASE Return(d)
  BY <1>0, <1>1, <1>4, NodeConstants DEF Return, MapsExact, MapsLive
<1>14. CASE Begin(d)
  BY <1>1, <1>3, <1>14, GotoMoves DEF Begin, At, shown, Follows
<1>5. CASE Dial(d)
  BY <1>1, <1>3, <1>5, GotoMoves DEF Dial, At, shown, Follows
<1>6. CASE HandshakeFails(d)
  BY <1>1, <1>3, <1>6, GotoMoves DEF HandshakeFails, At, shown, Follows
<1>7. CASE GoUp(d)
  BY <1>1, <1>7, GotoMoves DEF GoUp, Follows
<1>8. CASE OnlineWrite(d)
  <2>1. drivers'[d].pc = "announce" /\ status'[id] = "online"
    BY <1>0, <1>8, GotoMoves DEF OnlineWrite, WriteStatus, TypeOK
  <2> QED
    BY <1>1, <2>1 DEF Follows
<1>9. CASE OnlinePush(d)
  <2>1. drivers'[d].pc = "reading" /\ pushed'[id] = "online"
    BY <1>9, GotoMoves DEF OnlinePush, PushStatus, TypeOK
  <2>2. drivers[d].pc = "announce" /\ status' = status /\ blurred' = blurred
    BY <1>9 DEF OnlinePush, PushStatus, At
  <2> QED
    BY <1>1, <1>3, <2>1, <2>2 DEF Follows
<1>10. CASE Receive(d)
  BY <1>1, <1>3, <1>10 DEF Receive, shown, Follows
<1>11. CASE SessionEnds(d)
  BY <1>1, <1>3, <1>11, GotoMoves DEF SessionEnds, At, shown, Follows
<1>12. CASE OfflineWrite(d)
  <2>1. drivers'[d].pc = "retract" /\ status'[id] = "offline"
    BY <1>0, <1>12, GotoMoves DEF OfflineWrite, WriteStatus, TypeOK
  <2> QED
    BY <1>1, <2>1 DEF Follows
<1>13. CASE OfflinePush(d)
  <2>1. drivers'[d].pc = "run" /\ pushed'[id] = "offline"
    BY <1>13, GotoMoves DEF OfflinePush, PushStatus, TypeOK
  <2>2. drivers[d].pc = "retract" /\ status' = status /\ blurred' = blurred
    BY <1>13 DEF OfflinePush, PushStatus, At
  <2> QED
    BY <1>1, <1>3, <2>1, <2>2 DEF Follows
<1> QED
  BY <1>4, <1>5, <1>6, <1>7, <1>8, <1>9, <1>10, <1>11, <1>12, <1>13, <1>14
     DEF Driver

\* Whatever leaves row, maps and status and the places of the drivers alone keeps the
\* status right.
LEMMA FollowsUnmoved ==
    ASSUME TypeOK, StatusFollows, UNCHANGED <<row, conns, shown, blurred>>,
           \A e \in Drivers : drivers'[e].id = drivers[e].id /\ drivers'[e].pc = drivers[e].pc
    PROVE  StatusFollows'
<1> SUFFICES ASSUME NEW id \in Ids, id = row, id \notin blurred, Loud(id)' = {}
             PROVE  Follows(id)'
  BY DEF StatusFollows
<1>1. Loud(id) = {}
  BY QuietBefore
<1>2. Follows(id) /\ UNCHANGED <<status, pushed>>
  BY <1>1 DEF StatusFollows, shown
<1>3. conns[id] /= None => drivers'[conns[id]].pc = drivers[conns[id]].pc
  BY DEF TypeOK
<1> QED
  BY <1>2, <1>3, FollowsKept

\* In particular whatever leaves the drivers alone.
LEMMA FollowsUnchanged ==
    ASSUME StatusFollows, UNCHANGED <<row, conns, drivers, shown, blurred>>
    PROVE  StatusFollows'
BY DEF StatusFollows, Loud, Follows, shown

\* A new driver starts from "offline", as the node without one had.
LEMMA FollowsStart ==
    ASSUME TypeOK, Known, MapsExact, StatusFollows, NEW j \in Ids, Start(j),
           UNCHANGED <<row, shown, blurred>>
    PROVE  StatusFollows'
<1>1. CASE UNCHANGED <<conns, drivers>>
  BY <1>1, FollowsUnchanged
<1>2. ASSUME NEW d \in Drivers, Made(j, d)
      PROVE  StatusFollows'
  <2> SUFFICES ASSUME NEW id \in Ids, id = row, id \notin blurred, Loud(id)' = {}
               PROVE  Follows(id)'
    BY DEF StatusFollows
  <2>1. ~Alive(d) /\ conns[j] = None
    BY <1>2 DEF Made
  <2>2. Loud(id) = {}
    <3> SUFFICES ASSUME NEW e \in Drivers, drivers[e].id = id, conns[id] /= e,
                        drivers[e].pc \in Speaking
                 PROVE  drivers'[e] = drivers[e] /\ conns'[id] /= e
      BY QuietBefore
    <3>1. e /= d
      BY <2>1 DEF Alive, Speaking
    <3> QED
      BY <1>2, <3>1, MadeMoves
  <2>3. Follows(id) /\ UNCHANGED <<status, pushed>>
    BY <2>2 DEF StatusFollows, shown
  <2>4. CASE id = j
    BY <1>2, <2>1, <2>3, <2>4, MadeMoves DEF Follows
  <2>5. CASE id /= j
    <3>1. conns'[id] = conns[id]
      BY <1>2, <2>5, MadeMoves
    <3>2. conns[id] /= None => conns[id] \in Drivers /\ conns[id] /= d
      BY <2>1 DEF TypeOK, MapsExact, MapsLive
    <3>3. conns[id] /= None => drivers'[conns[id]].pc = drivers[conns[id]].pc
      BY <1>2, <3>2, MadeMoves
    <3> QED
      BY <2>3, <3>1, <3>3, FollowsKept
  <2> QED
    BY <2>4, <2>5
<1> QED
  BY <1>1, <1>2, StartCases

\* A driver that is taken out of the maps with a connection is loud; any other had
\* said "offline".
LEMMA FollowsUnmap ==
    ASSUME TypeOK, Known, MapsExact, StatusFollows, NEW h \in Handlers, NEW pc,
           NEW j \in Ids, Unmap(h, pc, j), UNCHANGED <<row, drivers, shown, blurred>>
    PROVE  StatusFollows'
<1> SUFFICES ASSUME NEW id \in Ids, id = row, id \notin blurred, Loud(id)' = {}
             PROVE  Follows(id)'
  BY DEF StatusFollows
<1>0. conns'[j] = None /\ \A k \in Ids : k /= j => conns'[k] = conns[k]
  BY UnmapMoves
<1>1. Loud(id) = {}
  BY <1>0, QuietBefore, NodeConstants
<1>2. Follows(id) /\ UNCHANGED <<status, pushed>>
  BY <1>1 DEF StatusFollows, shown
<1>3. CASE id = j /\ conns[j] = None
  BY <1>0, <1>2, <1>3, FollowsKept
<1>4. CASE id = j /\ conns[j] /= None
  <2>1. /\ conns[j] \in Drivers
        /\ drivers[conns[j]].id = j
        /\ Alive(conns[j])
    BY <1>4 DEF TypeOK, MapsExact, MapsLive
  <2>2. drivers[conns[j]].pc \notin Speaking
    BY <1>0, <1>4, <2>1, NodeConstants DEF Loud, Speaking
  <2>3. drivers[conns[j]].pc \in Places
    BY <2>1, TypeParts DEF DriversTyped
  <2>4. drivers[conns[j]].pc \in {"new", "run", "linking"}
    BY <2>1, <2>2, <2>3 DEF Speaking, Places, Alive
  <2>5. status[id] = "offline" /\ pushed[id] = "offline"
    BY <1>2, <1>4, <2>4 DEF Follows
  <2> QED
    BY <1>0, <1>2, <1>4, <2>5 DEF Follows
<1>5. CASE id /= j
  BY <1>0, <1>2, <1>5, FollowsKept
<1> QED
  BY <1>3, <1>4, <1>5

\* A new row has the status nobody has written yet.
LEMMA FollowsCreate ==
    ASSUME TypeOK, Known, MapsExact, Unspoken, StatusFollows, NEW h \in Handlers,
           CreateNode(h)
    PROVE  StatusFollows'
<1>0. UNCHANGED <<shown, conns, drivers, blurred>>
  BY DEF CreateNode, manager
<1>1. CASE UNCHANGED table
  BY <1>0, <1>1, FollowsUnchanged DEF table
<1>2. CASE used < MaxIds /\ row' = used + 1
  <2>1. used \in Nat
    BY NodeSessionsAssumption DEF TypeOK
  <2>2. used + 1 \in Ids
    BY <1>2, <2>1, NodeSessionsAssumption DEF Ids
  <2>3. status[used + 1] = "offline" /\ pushed[used + 1] = "offline"
    BY <2>1, <2>2 DEF Unspoken
  <2>4. conns[used + 1] = None
    <3>1. \A d \in Drivers : drivers[d].id /= used + 1
      BY <2>1, NumberedIds DEF Known
    <3> QED
      BY <2>2, <3>1 DEF MapsExact, MapsLive, TypeOK
  <2>5. PICK id \in Ids : id = used + 1
    BY <2>2
  <2>6. Follows(id)'
    BY <1>0, <2>3, <2>4, <2>5 DEF Follows, shown
  <2> QED
    BY <1>2, <2>5, <2>6 DEF StatusFollows
<1> QED
  BY <1>1, <1>2 DEF CreateNode

\* A status the last process left "online" is marked when the panel starts.
LEMMA FollowsInit == Init => StatusFollows /\ Unspoken
<1> SUFFICES ASSUME Init PROVE StatusFollows /\ Unspoken
  OBVIOUS
<1>1. \A id \in Ids : id \notin blurred => status[id] = "offline" /\ pushed[id] = "offline"
  BY DEF Init
<1>2. \A id \in Ids : conns[id] = None
  BY DEF Init
<1>3. StatusFollows
  BY <1>1, <1>2 DEF StatusFollows, Follows
<1>4. Unspoken
  BY DEF Init, Unspoken
<1> QED
  BY <1>3, <1>4

\* Every step keeps the status that of the driver in the maps.
LEMMA FollowsStep ==
    ASSUME TypeOK, Known, MapsExact, Unspoken, StatusFollows, [Next]_vars
    PROVE  StatusFollows'
<1>1. CASE TryStartAll
  BY <1>1, FollowsUnchanged DEF TryStartAll, table
<1>2. ASSUME NEW id \in Ids, StartListed(id)
      PROVE  StatusFollows'
  BY <1>2, FollowsStart DEF StartListed, table
<1>3. ASSUME NEW d \in Drivers, Driver(d)
      PROVE  StatusFollows'
  <2> SUFFICES ASSUME NEW id \in Ids, id = row', id \notin blurred', Loud(id)' = {}
               PROVE  Follows(id)'
    BY DEF StatusFollows
  <2>1. CASE id /= drivers[d].id
    BY <1>3, <2>1, FollowsOther
  <2>2. CASE id = drivers[d].id /\ Out(d)
    BY <1>3, <2>2, FollowsStopped
  <2>3. CASE id = drivers[d].id /\ ~Out(d)
    BY <1>3, <2>3, FollowsDriver
  <2> QED
    BY <2>1, <2>2, <2>3
<1>4. ASSUME NEW h \in Handlers, CreateNode(h)
      PROVE  StatusFollows'
  BY <1>4, FollowsCreate
<1>5. ASSUME NEW h \in Handlers, AddStop(h)
      PROVE  StatusFollows'
  <2>1. task[h].id \in Ids
    BY <1>5 DEF AddStop, Known
  <2> QED
    BY <1>5, <2>1, FollowsUnmap DEF AddStop, table
<1>6. ASSUME NEW h \in Handlers, AddStart(h)
      PROVE  StatusFollows'
  <2>1. task[h].id \in Ids
    BY <1>6 DEF AddStart, Known
  <2> QED
    BY <1>6, <2>1, FollowsStart DEF AddStart, table
<1>7. ASSUME NEW h \in Handlers, RemoveClear(h)
      PROVE  StatusFollows'
  BY <1>7, FollowsUnchanged DEF RemoveClear, table, manager
<1>8. ASSUME NEW h \in Handlers, DeleteNode(h)
      PROVE  StatusFollows'
  <2>1. UNCHANGED <<conns, drivers, shown, blurred>>
    BY <1>8 DEF DeleteNode, manager
  <2>2. row' = row \/ row' = None
    BY <1>8 DEF DeleteNode
  <2>3. CASE row' = row
    BY <2>1, <2>3, FollowsUnchanged
  <2>4. CASE row' = None
    BY <2>4, NodeConstants DEF StatusFollows
  <2> QED
    BY <2>2, <2>3, <2>4
<1>9. ASSUME NEW h \in Handlers, NEW id \in Ids, RemoveStop(h, id)
      PROVE  StatusFollows'
  BY <1>9, FollowsUnmap DEF RemoveStop, table
<1>11. ASSUME NEW h \in Handlers, AddCancel(h) \/ RemoveCancel(h)
       PROVE  StatusFollows'
  BY <1>11, CancelMoves, FollowsUnmoved DEF AddCancel, RemoveCancel, table, manager
<1>10. CASE UNCHANGED vars
  BY <1>10, FollowsUnchanged DEF vars, table, manager
<1> QED
  BY <1>1, <1>2, <1>3, <1>4, <1>5, <1>6, <1>7, <1>8, <1>9, <1>10, <1>11 DEF Next, Handler

-----------------------------------------------------------------------------
\* NodeInv holds in every reachable state.
LEMMA NodeInvariance == Spec => []NodeInv
<1>1. Init => NodeInv
  BY TypesInit, KnownInit, MapsInit, DrivenInit, OwnedInit, FollowsInit
     DEF NodeInv, MapsExact
<1>2. NodeInv /\ [Next]_vars => NodeInv'
  BY TypesStep, KnownStep, MapsStep, DrivenStep, OwnedStep, UnspokenStep, FollowsStep
     DEF NodeInv, MapsExact
<1> QED
  BY <1>1, <1>2, PTL DEF Spec

\* Whatever registers, deletes and lists at the same time, a driver that was not
\* stopped is the one in the manager's maps, or a handler is about to stop it.
THEOREM DriverUnique == Spec => []OneDriver
<1>1. NodeInv => OneDriver
  BY DEF NodeInv
<1> QED
  BY <1>1, NodeInvariance, PTL

\* A node in the table is driven, unless the list, a request or a call that failed
\* explains why not: no interleaving of tryStartAll, Add and Remove loses one.
THEOREM RowsDriven == Spec => []RowIsDriven
<1>1. NodeInv => RowIsDriven
  BY DEF NodeInv
<1> QED
  BY <1>1, NodeInvariance, PTL

\* The status in the table and at the browsers is that of the driver in the maps
\* whenever no stopped driver lingers and nothing was lost since the node came up.
THEOREM StatusIsExact == Spec => []StatusExact
<1>1. NodeInv => StatusExact
  <2> SUFFICES ASSUME NodeInv, row /= None, row \notin blurred, Settled(row),
                      Lingering(row) = {}
               PROVE  /\ status[row] = "online"
                         <=> (conns[row] /= None /\ At(conns[row], "reading"))
                      /\ pushed[row] = status[row]
    BY DEF StatusExact
  <2>1. row \in Ids
    BY DEF NodeInv, TypeOK
  <2>2. Loud(row) = {}
    BY DEF Loud, Lingering
  <2>3. Follows(row)
    BY <2>1, <2>2 DEF NodeInv, StatusFollows
  <2>4. CASE conns[row] = None
    BY <2>3, <2>4 DEF Follows
  <2>5. CASE conns[row] /= None
    <3>1. /\ conns[row] \in Drivers
          /\ drivers[conns[row]].id = row
          /\ Alive(conns[row])
      BY <2>1, <2>5 DEF NodeInv, TypeOK, MapsLive
    <3>2. drivers[conns[row]].pc \in {"new", "run", "linking", "reading"}
      BY <3>1 DEF Settled, Alive
    <3> QED
      BY <2>3, <2>5, <3>2 DEF Follows, At
  <2> QED
    BY <2>4, <2>5
<1> QED
  BY <1>1, NodeInvariance, PTL

\* Remove leaves nothing of a node behind, except what a session that outlived it, or
\* a start that it overtook, made again.
THEOREM NodesTornDown == Spec => []TornDown
<1>1. NodeInv => TornDown
  <2> SUFFICES ASSUME NodeInv, NEW id \in 1..used, id \notin revived,
                      \A h \in Handlers : task[h].id /= id,
                      \A d \in Drivers : drivers[d].id = id => ~Alive(d),
                      id \in pipe
               PROVE  FALSE
    BY DEF TornDown, Deleted
  <2>1. id \in Ids
    BY DEF NodeInv, TypeOK
  <2>2. conns[id] /= None
    BY DEF NodeInv, PipeOwned
  <2>3. conns[id] \in Drivers /\ drivers[conns[id]].id = id /\ Alive(conns[id])
    BY <2>1, <2>2 DEF NodeInv, TypeOK, MapsLive
  <2> QED
    BY <2>3
<1> QED
  BY <1>1, NodeInvariance, PTL
===============================================================================
