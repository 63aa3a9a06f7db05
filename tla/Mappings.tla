------------------------------ MODULE Mappings ------------------------------
(***************************************************************************)
(* The port mappings of the panel and the browsers that edit them: the     *)
(* handlers of handlers_mappings.go over the tables mappings and           *)
(* mapping_targets, and the deletion of a node beside them.                *)
(*                                                                         *)
(* A handler checks its request first and writes it in one transaction     *)
(* later; between the two every other handler may run.  Mappings carry a   *)
(* version, and an edit names the version its browser was shown.  The list *)
(* a browser is shown comes from two statements.                           *)
(*                                                                         *)
(* InnoDB serialises the transactions on the rows they touch, so each is   *)
(* one step.  What follows a commit, the SyncAll of the node manager, is    *)
(* modelled in FrpcManager.                                                *)
(***************************************************************************)
EXTENDS Naturals

CONSTANTS Editors,      \* browser sessions, one request at a time each
          Nodes,        \* nodes at the start
          Ports,        \* public ports of a node
          LocalPorts,   \* ports on the panel's host
          MaxId,        \* mappings ever created
          MaxVersion    \* edits of a mapping

ASSUME MappingsAssumption ==
    /\ MaxId \in Nat \ {0}
    /\ MaxVersion \in Nat \ {0}
    /\ LocalPorts # {} /\ LocalPorts \subseteq Nat \ {0}

Ids == 1..MaxId
Targets == SUBSET (Nodes \X Ports)
Row == [version : 0..MaxVersion, port : LocalPorts, enabled : BOOLEAN]

VARIABLES row,        \* table mappings; version 0: no such row
          targets,    \* table mapping_targets, per mapping
          nodes,      \* table nodes
          nextId,     \* AUTO_INCREMENT of mappings
          view,       \* the mapping a browser was shown
          pc,         \* where a browser's request is
          req,        \* what the request asks for and the port it found listening
          probed      \* history: the port the request that enabled a mapping checked

vars == <<row, targets, nodes, nextId, view, pc, req, probed>>

NoPort == 0

View == [id : Ids, row : Row, targets : Targets]
Request == [port : LocalPorts, enabled : BOOLEAN, targets : Targets,
            heard : LocalPorts \cup {NoPort}]

TypeOK ==
    /\ row \in [Ids -> Row]
    /\ targets \in [Ids -> Targets]
    /\ nodes \subseteq Nodes
    /\ nextId \in 1..(MaxId + 1)
    /\ view \in [Editors -> View]
    /\ pc \in [Editors -> {"idle", "list", "create", "update", "toggle"}]
    /\ req \in [Editors -> Request]
    /\ probed \in [Ids -> LocalPorts \cup {NoPort}]

NoRow == [version |-> 0, port |-> CHOOSE p \in LocalPorts : TRUE, enabled |-> FALSE]

NoRequest == [port |-> NoRow.port, enabled |-> FALSE, targets |-> {}, heard |-> NoPort]

Exists(id) == row[id].version > 0

Init ==
    /\ row = [id \in Ids |-> NoRow]
    /\ targets = [id \in Ids |-> {}]
    /\ nodes = Nodes
    /\ nextId = 1
    /\ view = [e \in Editors |-> [id |-> 1, row |-> NoRow, targets |-> {}]]
    /\ pc = [e \in Editors |-> "idle"]
    /\ req = [e \in Editors |-> NoRequest]
    /\ probed = [id \in Ids |-> NoPort]

----------------------------------------------------------------------------
(***************************************************************************)
(* handleListMappings: the rows, then their targets.                       *)
(***************************************************************************)

ListMappings(e) ==
    /\ pc[e] = "idle"
    /\ \E id \in Ids :
          /\ Exists(id)
          /\ view' = [view EXCEPT ![e] = [id |-> id, row |-> row[id], targets |-> {}]]
    /\ pc' = [pc EXCEPT ![e] = "list"]
    /\ UNCHANGED <<row, targets, nodes, nextId, req, probed>>

ListTargetsForMappings(e) ==
    /\ pc[e] = "list"
    /\ view' = [view EXCEPT ![e] = [id |-> view[e].id, row |-> view[e].row,
                                   targets |-> targets[view[e].id]]]
    /\ pc' = [pc EXCEPT ![e] = "idle"]
    /\ UNCHANGED <<row, targets, nodes, nextId, req, probed>>

\* The second statement fails: the browser is shown nothing.
ListFails(e) ==
    /\ pc[e] = "list"
    /\ view' = [view EXCEPT ![e] = [id |-> view[e].id, row |-> NoRow, targets |-> {}]]
    /\ pc' = [pc EXCEPT ![e] = "idle"]
    /\ UNCHANGED <<row, targets, nodes, nextId, req, probed>>

\* The handler answers its browser.
Respond(e) ==
    /\ pc' = [pc EXCEPT ![e] = "idle"]
    /\ req' = [req EXCEPT ![e] = NoRequest]

Shown(e) == view[e].row.version > 0

----------------------------------------------------------------------------
(***************************************************************************)
(* validateMapping and the transactions of the store.                      *)
(***************************************************************************)

\* At least one target, and no node twice.
ValidTargets(ts) ==
    /\ ts # {}
    /\ \A s, t \in ts : s[1] = t[1] => s = t

\* A request that enables a mapping goes on only when LocalListen finds a program
\* on its local port; which ports have one may change from call to call.
LocalListen(on, port) == IF on THEN port ELSE NoPort

\* validateMapping, up to the transaction that follows.
ValidateMapping(e, op) ==
    /\ pc[e] = "idle"
    /\ op = "update" => Shown(e)
    /\ \E port \in LocalPorts, on \in BOOLEAN, ts \in Targets :
          /\ ValidTargets(ts)
          /\ req' = [req EXCEPT ![e] = [port |-> port, enabled |-> on, targets |-> ts,
                                       heard |-> LocalListen(on, port)]]
    /\ pc' = [pc EXCEPT ![e] = op]
    /\ UNCHANGED <<row, targets, nodes, nextId, view, probed>>

\* uq_mt_node_port: no two mappings have the same public port of a node.
PortsFree(ts, id) == \A i \in Ids \ {id} : targets[i] \cap ts = {}

CreateMapping(e) ==
    /\ pc[e] = "create"
    /\ nextId <= MaxId
    /\ PortsFree(req[e].targets, nextId)
    /\ row' = [row EXCEPT ![nextId] =
                  [version |-> 1, port |-> req[e].port, enabled |-> req[e].enabled]]
    /\ targets' = [targets EXCEPT ![nextId] = req[e].targets]
    /\ probed' = [probed EXCEPT ![nextId] = req[e].heard]
    /\ nextId' = nextId + 1
    /\ Respond(e)
    /\ UNCHANGED <<nodes, view>>

\* An edit that only refuses versions from the future.
VersionAtLeast(e) == Shown(e) /\ row[view[e].id].version >= view[e].row.version

\* WHERE id=? AND version=?: the row is as new as the browser believes.
VersionMatches(e) == row[view[e].id].version = view[e].row.version

\* A transaction that does not look at the number of rows its UPDATE changed.
UpdateMappingUnchecked(e) ==
    LET id == view[e].id IN
    /\ pc[e] = "update"
    /\ row[id].version < MaxVersion
    /\ PortsFree(req[e].targets, id)
    /\ row' = IF VersionMatches(e)
              THEN [row EXCEPT ![id] = [version |-> row[id].version + 1,
                                        port |-> req[e].port, enabled |-> req[e].enabled]]
              ELSE row
    /\ targets' = [targets EXCEPT ![id] = req[e].targets]
    /\ probed' = IF VersionMatches(e) THEN [probed EXCEPT ![id] = req[e].heard] ELSE probed
    /\ Respond(e)
    /\ UNCHANGED <<nodes, nextId, view>>

UpdateMapping(e) ==
    LET id == view[e].id IN
    /\ pc[e] = "update"
    /\ VersionMatches(e)
    /\ row[id].version < MaxVersion
    /\ PortsFree(req[e].targets, id)
    /\ row' = [row EXCEPT ![id] = [version |-> row[id].version + 1,
                                   port |-> req[e].port, enabled |-> req[e].enabled]]
    /\ targets' = [targets EXCEPT ![id] = req[e].targets]
    /\ probed' = [probed EXCEPT ![id] = req[e].heard]
    /\ Respond(e)
    /\ UNCHANGED <<nodes, nextId, view>>

\* A toggle without the check of the local port.
ToggleReadUnchecked(e, on) ==
    LET id == view[e].id IN
    /\ pc[e] = "idle"
    /\ Shown(e)
    /\ Exists(id)
    /\ req' = [req EXCEPT ![e] = [port |-> row[id].port, enabled |-> on, targets |-> {},
                                 heard |-> NoPort]]
    /\ pc' = [pc EXCEPT ![e] = "toggle"]
    /\ UNCHANGED <<row, targets, nodes, nextId, view, probed>>

\* handleToggleMapping reads the row for its port, which may be newer than what
\* the browser was shown.
ToggleRead(e, on) ==
    LET id == view[e].id IN
    /\ pc[e] = "idle"
    /\ Shown(e)
    /\ Exists(id)
    /\ req' = [req EXCEPT ![e] = [port |-> row[id].port, enabled |-> on, targets |-> {},
                                 heard |-> LocalListen(on, row[id].port)]]
    /\ pc' = [pc EXCEPT ![e] = "toggle"]
    /\ UNCHANGED <<row, targets, nodes, nextId, view, probed>>

SetMappingEnabled(e) ==
    LET id == view[e].id IN
    /\ pc[e] = "toggle"
    /\ VersionMatches(e)
    /\ row[id].version < MaxVersion
    /\ row' = [row EXCEPT ![id] = [version |-> row[id].version + 1,
                                   port |-> row[id].port, enabled |-> req[e].enabled]]
    /\ probed' = [probed EXCEPT ![id] = req[e].heard]
    /\ Respond(e)
    /\ UNCHANGED <<targets, nodes, nextId, view>>

\* ErrOptimisticConflict, a duplicate key, or a database that does not answer:
\* the transaction is rolled back and the browser is told.  A commit whose answer
\* is lost is an update like any other.
StoreRefuses(e) ==
    /\ pc[e] \in {"create", "update", "toggle"}
    /\ Respond(e)
    /\ UNCHANGED <<row, targets, nodes, nextId, view, probed>>

\* Deleting asks for no version.
DeleteMapping(e) ==
    LET id == view[e].id IN
    /\ pc[e] = "idle"
    /\ Shown(e)
    /\ row' = [row EXCEPT ![id] = NoRow]
    /\ targets' = [targets EXCEPT ![id] = {}]
    /\ probed' = [probed EXCEPT ![id] = NoPort]
    /\ UNCHANGED <<nodes, nextId, view, pc, req>>

\* DeleteNode takes the node's targets with it and leaves the versions alone.
DeleteNode(n) ==
    /\ nodes' = nodes \ {n}
    /\ targets' = [id \in Ids |-> {t \in targets[id] : t[1] # n}]
    /\ UNCHANGED <<row, nextId, view, pc, req, probed>>

----------------------------------------------------------------------------
Handler(e) ==
    \/ ListMappings(e)
    \/ ListTargetsForMappings(e)
    \/ ListFails(e)
    \/ \E op \in {"create", "update"} : ValidateMapping(e, op)
    \/ CreateMapping(e)
    \/ UpdateMapping(e)
    \/ \E on \in BOOLEAN : ToggleRead(e, on)
    \/ SetMappingEnabled(e)
    \/ StoreRefuses(e)
    \/ DeleteMapping(e)

Next ==
    \/ \E e \in Editors : Handler(e)
    \/ \E n \in nodes : DeleteNode(n)

Spec == Init /\ [][Next]_vars

----------------------------------------------------------------------------
\* What the browser of e was shown is what is stored, but for targets that went
\* away with their node.
UpToDate(e) ==
    LET id == view[e].id IN
    /\ row[id] = view[e].row
    /\ targets[id] \subseteq view[e].targets
    /\ \A t \in view[e].targets \ targets[id] : t[1] \notin nodes

\* No lost update: an existing mapping is changed only by an editor who was shown
\* the state it replaces, although its row and its targets were read one after
\* the other and the request was checked earlier than it was written.
NoLostUpdate ==
    [][\A id \in Ids :
          Exists(id) /\ row'[id] # row[id] /\ row'[id].version > 0 =>
              \E e \in Editors :
                  view[e].id = id /\ pc[e] \in {"update", "toggle"} /\ UpToDate(e)]_vars

\* A mapping is enabled only after its local port, the one stored now, was found
\* listening; an edit of the port cannot slip between the check and the toggle.
EnabledWasListening == \A id \in Ids : row[id].enabled => probed[id] = row[id].port

\* A target belongs to a mapping that exists: an edit that was checked before
\* its mapping was deleted leaves nothing behind.
TargetsHaveMapping == \A id \in Ids : ~Exists(id) => targets[id] = {}

----------------------------------------------------------------------------
(***************************************************************************)
(* The inductive invariant.                                                *)
(***************************************************************************)

\* Identifiers are given out in order and never again.
IdsInOrder ==
    /\ \A id \in Ids : Exists(id) => id < nextId
    /\ \A e \in Editors : Shown(e) => view[e].id < nextId

\* While a mapping exists its version only rises.
VersionsRise ==
    \A e \in Editors :
        Shown(e) /\ Exists(view[e].id) => view[e].row.version <= row[view[e].id].version

\* A version stands for one state of a mapping.
VersionIsState ==
    \A e \in Editors : Shown(e) /\ VersionMatches(e) =>
        /\ row[view[e].id] = view[e].row
        /\ pc[e] # "list" => UpToDate(e)

\* What a request checked still holds when its version does.
RequestsChecked ==
    \A e \in Editors :
        /\ pc[e] \in {"list", "update", "toggle"} => Shown(e)
        /\ pc[e] \in {"create", "update"} /\ req[e].enabled => req[e].heard = req[e].port
        /\ pc[e] = "toggle" /\ VersionMatches(e) /\ req[e].enabled =>
              req[e].heard = row[view[e].id].port

IInv ==
    /\ TypeOK
    /\ IdsInOrder
    /\ VersionsRise
    /\ VersionIsState
    /\ RequestsChecked
    /\ EnabledWasListening
    /\ TargetsHaveMapping
=============================================================================
