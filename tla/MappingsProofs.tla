-------------------------- MODULE MappingsProofs --------------------------
(***************************************************************************)
(* Proofs about Mappings for any number of browsers, nodes, ports,         *)
(* mappings and edits.                                                     *)
(***************************************************************************)
EXTENDS Mappings, TLAPS

\* The placeholders for an absent row and an absent request have their types.
LEMMA Placeholders ==
    NoRow \in Row /\ NoRequest \in Request /\ NoRow.version = 0 /\ NoRow.enabled = FALSE
<1>1. (CHOOSE p \in LocalPorts : TRUE) \in LocalPorts
  BY MappingsAssumption
<1>2. QED
  BY <1>1, MappingsAssumption DEF NoRow, NoRequest, Row, Request, Targets, NoPort

\* Every step keeps the types.
LEMMA TypeStep ==
    ASSUME TypeOK, [Next]_vars PROVE TypeOK'
<1> USE Placeholders, MappingsAssumption
    DEF TypeOK, Row, View, Request, Targets, Ids, NoPort
<1>1. ASSUME NEW e \in Editors, ListMappings(e) PROVE TypeOK'
  BY <1>1 DEF ListMappings
<1>2. ASSUME NEW e \in Editors, ListTargetsForMappings(e) PROVE TypeOK'
  BY <1>2 DEF ListTargetsForMappings
<1>3. ASSUME NEW e \in Editors, ListFails(e) PROVE TypeOK'
  BY <1>3 DEF ListFails
<1>4. ASSUME NEW e \in Editors, NEW op \in {"create", "update"}, ValidateMapping(e, op)
    PROVE TypeOK'
  BY <1>4 DEF ValidateMapping, LocalListen, ValidTargets
<1>5. ASSUME NEW e \in Editors, CreateMapping(e) PROVE TypeOK'
  <2>1. nextId \in Ids /\ req[e] \in Request /\ NoRequest \in Request
    BY <1>5 DEF CreateMapping
  <2>2. row' \in [Ids -> Row]
    BY <1>5, <2>1 DEF CreateMapping
  <2>3. targets' \in [Ids -> Targets] /\ probed' \in [Ids -> LocalPorts \cup {NoPort}]
    BY <1>5, <2>1 DEF CreateMapping
  <2>4. /\ pc' \in [Editors -> {"idle", "list", "create", "update", "toggle"}]
        /\ req' \in [Editors -> Request]
    BY <1>5, <2>1 DEF CreateMapping, Respond
  <2>5. nextId' \in 1..(MaxId + 1)
    BY <1>5, <2>1 DEF CreateMapping
  <2>6. QED
    BY <1>5, <2>2, <2>3, <2>4, <2>5 DEF CreateMapping
<1>6. ASSUME NEW e \in Editors, UpdateMapping(e) PROVE TypeOK'
  BY <1>6 DEF UpdateMapping, Respond, PortsFree
<1>7. ASSUME NEW e \in Editors, NEW on \in BOOLEAN, ToggleRead(e, on) PROVE TypeOK'
  BY <1>7 DEF ToggleRead, LocalListen
<1>8. ASSUME NEW e \in Editors, SetMappingEnabled(e) PROVE TypeOK'
  BY <1>8 DEF SetMappingEnabled, Respond
<1>9. ASSUME NEW e \in Editors, StoreRefuses(e) PROVE TypeOK'
  BY <1>9 DEF StoreRefuses, Respond
<1>10. ASSUME NEW e \in Editors, DeleteMapping(e) PROVE TypeOK'
  BY <1>10 DEF DeleteMapping
<1>11. ASSUME NEW n \in nodes, DeleteNode(n) PROVE TypeOK'
  BY <1>11 DEF DeleteNode
<1>12. CASE UNCHANGED vars
  BY <1>12 DEF vars
<1> HIDE DEF TypeOK
<1>13. QED
  BY <1>1, <1>2, <1>3, <1>4, <1>5, <1>6, <1>7, <1>8, <1>9, <1>10, <1>11, <1>12 DEF Next,
      Handler

\* Every step keeps the invariant.
LEMMA InvariantStep ==
    ASSUME IInv, [Next]_vars PROVE IInv'
<1> USE Placeholders, MappingsAssumption
    DEF TypeOK, Row, View, Request, Targets, Ids, NoPort, Exists, Shown, VersionMatches
<1>0. TypeOK /\ TypeOK' /\ IdsInOrder /\ VersionsRise /\ VersionIsState /\ RequestsChecked
      /\ EnabledWasListening /\ TargetsHaveMapping
  BY TypeStep DEF IInv
<1>1. ASSUME NEW e \in Editors, ListMappings(e) PROVE IInv'
  <2>1. IdsInOrder'
    BY <1>0, <1>1 DEF ListMappings, IdsInOrder
  <2>2. VersionsRise'
    BY <1>0, <1>1 DEF ListMappings, VersionsRise, IdsInOrder
  <2>3. VersionIsState'
    BY <1>0, <1>1 DEF ListMappings, VersionIsState, VersionsRise, IdsInOrder, UpToDate,
        RequestsChecked
  <2>4. RequestsChecked'
    BY <1>0, <1>1 DEF ListMappings, RequestsChecked, VersionIsState, VersionsRise,
        IdsInOrder
  <2>5. EnabledWasListening' /\ TargetsHaveMapping'
    BY <1>0, <1>1 DEF ListMappings, EnabledWasListening, TargetsHaveMapping
  <2>6. QED
    BY <1>0, <2>1, <2>2, <2>3, <2>4, <2>5 DEF IInv
<1>2. ASSUME NEW e \in Editors, ListTargetsForMappings(e) PROVE IInv'
  <2>1. IdsInOrder'
    BY <1>0, <1>2 DEF ListTargetsForMappings, IdsInOrder
  <2>2. VersionsRise'
    BY <1>0, <1>2 DEF ListTargetsForMappings, VersionsRise, IdsInOrder
  <2>3. VersionIsState'
    BY <1>0, <1>2 DEF ListTargetsForMappings, VersionIsState, VersionsRise, IdsInOrder,
        UpToDate, RequestsChecked
  <2>4. RequestsChecked'
    BY <1>0, <1>2 DEF ListTargetsForMappings, RequestsChecked, VersionIsState,
        VersionsRise, IdsInOrder
  <2>5. EnabledWasListening' /\ TargetsHaveMapping'
    BY <1>0, <1>2 DEF ListTargetsForMappings, EnabledWasListening, TargetsHaveMapping
  <2>6. QED
    BY <1>0, <2>1, <2>2, <2>3, <2>4, <2>5 DEF IInv
<1>3. ASSUME NEW e \in Editors, ListFails(e) PROVE IInv'
  <2>1. IdsInOrder'
    BY <1>0, <1>3 DEF ListFails, IdsInOrder
  <2>2. VersionsRise'
    BY <1>0, <1>3 DEF ListFails, VersionsRise, IdsInOrder
  <2>3. VersionIsState'
    BY <1>0, <1>3 DEF ListFails, VersionIsState, VersionsRise, IdsInOrder, UpToDate,
        RequestsChecked
  <2>4. RequestsChecked'
    BY <1>0, <1>3 DEF ListFails, RequestsChecked, VersionIsState, VersionsRise, IdsInOrder
  <2>5. EnabledWasListening' /\ TargetsHaveMapping'
    BY <1>0, <1>3 DEF ListFails, EnabledWasListening, TargetsHaveMapping
  <2>6. QED
    BY <1>0, <2>1, <2>2, <2>3, <2>4, <2>5 DEF IInv
<1>4. ASSUME NEW e \in Editors, NEW op \in {"create", "update"}, ValidateMapping(e, op)
    PROVE IInv'
  <2>1. VersionIsState'
    BY <1>0, <1>4 DEF ValidateMapping, LocalListen, ValidTargets, VersionIsState,
        VersionsRise, IdsInOrder, UpToDate, RequestsChecked
  <2>2. RequestsChecked'
    BY <1>0, <1>4 DEF ValidateMapping, LocalListen, ValidTargets, RequestsChecked,
        VersionIsState, VersionsRise, IdsInOrder
  <2>3. IdsInOrder' /\ VersionsRise' /\ EnabledWasListening' /\ TargetsHaveMapping'
    BY <1>0, <1>4 DEF ValidateMapping, LocalListen, ValidTargets, IdsInOrder, VersionsRise,
        EnabledWasListening, TargetsHaveMapping
  <2>4. QED
    BY <1>0, <2>1, <2>2, <2>3 DEF IInv
<1>5. ASSUME NEW e \in Editors, CreateMapping(e) PROVE IInv'
  <2>1. IdsInOrder'
    BY <1>0, <1>5 DEF CreateMapping, Respond, PortsFree, IdsInOrder
  <2>2. VersionsRise'
    BY <1>0, <1>5 DEF CreateMapping, Respond, PortsFree, VersionsRise, IdsInOrder
  <2>3. VersionIsState'
    BY <1>0, <1>5 DEF CreateMapping, Respond, PortsFree, VersionIsState, VersionsRise,
        IdsInOrder, UpToDate, RequestsChecked
  <2>4. RequestsChecked'
    BY <1>0, <1>5 DEF CreateMapping, Respond, PortsFree, RequestsChecked, VersionIsState,
        VersionsRise, IdsInOrder
  <2>5. EnabledWasListening'
    BY <1>0, <1>5 DEF CreateMapping, Respond, PortsFree, EnabledWasListening,
        RequestsChecked
  <2>6. TargetsHaveMapping'
    BY <1>0, <1>5 DEF CreateMapping, Respond, PortsFree, TargetsHaveMapping,
        RequestsChecked, IdsInOrder
  <2>7. QED
    BY <1>0, <2>1, <2>2, <2>3, <2>4, <2>5, <2>6 DEF IInv
<1>6. ASSUME NEW e \in Editors, UpdateMapping(e) PROVE IInv'
  <2>1. view[e].id \in Ids /\ view[e].id < nextId
       /\ row[view[e].id].version = view[e].row.version /\ row[view[e].id].version > 0
    BY <1>0, <1>6 DEF UpdateMapping, Respond, PortsFree, RequestsChecked, IdsInOrder
  <2>2. \A i \in Ids : i # view[e].id => row'[i] = row[i]
    BY <1>0, <1>6, <2>1 DEF UpdateMapping, Respond, PortsFree
  <2>3. row'[view[e].id].version = row[view[e].id].version + 1
    BY <1>0, <1>6, <2>1 DEF UpdateMapping, Respond, PortsFree
  <2>4. IdsInOrder'
    BY <1>0, <1>6, <2>1, <2>2, <2>3 DEF UpdateMapping, Respond, PortsFree, IdsInOrder
  <2>5. VersionsRise'
    BY <1>0, <1>6, <2>1, <2>2, <2>3 DEF UpdateMapping, Respond, PortsFree, VersionsRise,
        IdsInOrder
  <2>6. VersionIsState'
    BY <1>0, <1>6, <2>1, <2>2, <2>3 DEF UpdateMapping, Respond, PortsFree, VersionIsState,
        VersionsRise, IdsInOrder, UpToDate, RequestsChecked
  <2>7. RequestsChecked'
    BY <1>0, <1>6, <2>1, <2>2, <2>3 DEF UpdateMapping, Respond, PortsFree, RequestsChecked,
        VersionIsState, VersionsRise, IdsInOrder
  <2>8. EnabledWasListening'
    BY <1>0, <1>6, <2>1, <2>2, <2>3 DEF UpdateMapping, Respond, PortsFree,
        EnabledWasListening, RequestsChecked
  <2>9. TargetsHaveMapping'
    BY <1>0, <1>6, <2>1, <2>2, <2>3 DEF UpdateMapping, Respond, PortsFree,
        TargetsHaveMapping, RequestsChecked, IdsInOrder
  <2>10. QED
    BY <1>0, <2>4, <2>5, <2>6, <2>7, <2>8, <2>9 DEF IInv
<1>7. ASSUME NEW e \in Editors, NEW on \in BOOLEAN, ToggleRead(e, on) PROVE IInv'
  <2>1. VersionIsState'
    BY <1>0, <1>7 DEF ToggleRead, LocalListen, VersionIsState, VersionsRise, IdsInOrder,
        UpToDate, RequestsChecked
  <2>2. RequestsChecked'
    BY <1>0, <1>7 DEF ToggleRead, LocalListen, RequestsChecked, VersionIsState,
        VersionsRise, IdsInOrder
  <2>3. IdsInOrder' /\ VersionsRise' /\ EnabledWasListening' /\ TargetsHaveMapping'
    BY <1>0, <1>7 DEF ToggleRead, LocalListen, IdsInOrder, VersionsRise,
        EnabledWasListening, TargetsHaveMapping
  <2>4. QED
    BY <1>0, <2>1, <2>2, <2>3 DEF IInv
<1>8. ASSUME NEW e \in Editors, SetMappingEnabled(e) PROVE IInv'
  <2>1. view[e].id \in Ids /\ view[e].id < nextId
       /\ row[view[e].id].version = view[e].row.version /\ row[view[e].id].version > 0
    BY <1>0, <1>8 DEF SetMappingEnabled, Respond, RequestsChecked, IdsInOrder
  <2>2. \A i \in Ids : i # view[e].id => row'[i] = row[i]
    BY <1>0, <1>8, <2>1 DEF SetMappingEnabled, Respond
  <2>3. row'[view[e].id].version = row[view[e].id].version + 1
    BY <1>0, <1>8, <2>1 DEF SetMappingEnabled, Respond
  <2>4. IdsInOrder'
    BY <1>0, <1>8, <2>1, <2>2, <2>3 DEF SetMappingEnabled, Respond, IdsInOrder
  <2>5. VersionsRise'
    BY <1>0, <1>8, <2>1, <2>2, <2>3 DEF SetMappingEnabled, Respond, VersionsRise, IdsInOrder
  <2>6. VersionIsState'
    <3> SUFFICES ASSUME NEW f \in Editors, Shown(f)', VersionMatches(f)'
                 PROVE  /\ row'[view'[f].id] = view'[f].row
                        /\ pc'[f] # "list" => UpToDate(f)'
      BY DEF VersionIsState
    <3>1. view' = view /\ targets' = targets /\ nodes' = nodes
      BY <1>8 DEF SetMappingEnabled
    <3>2. view[f].id # view[e].id
      BY <1>0, <2>1, <2>3, <3>1 DEF VersionsRise
    <3>3. pc'[f] # "list" => pc[f] # "list"
      BY <1>0, <1>8 DEF SetMappingEnabled, Respond
    <3>4. row'[view[f].id] = row[view[f].id]
      BY <1>0, <2>2, <3>2
    <3>5. QED
      BY <1>0, <3>1, <3>3, <3>4 DEF VersionIsState, UpToDate
  <2>7. RequestsChecked'
    BY <1>0, <1>8, <2>1, <2>2, <2>3 DEF SetMappingEnabled, Respond, RequestsChecked,
        VersionIsState, VersionsRise, IdsInOrder
  <2>8. EnabledWasListening'
    <3>1. row'[view[e].id].port = row[view[e].id].port /\ row'[view[e].id].enabled = req[e].enabled
          /\ probed' = [probed EXCEPT ![view[e].id] = req[e].heard]
      BY <1>0, <1>8, <2>1 DEF SetMappingEnabled
    <3>2. req[e].enabled => req[e].heard = row[view[e].id].port
      BY <1>0, <1>8, <2>1 DEF SetMappingEnabled, RequestsChecked
    <3>3. QED
      <4> SUFFICES ASSUME NEW i \in Ids, row'[i].enabled PROVE probed'[i] = row'[i].port
        BY DEF EnabledWasListening
      <4>1. CASE i = view[e].id
        BY <1>0, <2>1, <3>1, <3>2, <4>1
      <4>2. CASE i # view[e].id
        BY <1>0, <2>1, <2>2, <3>1, <4>2 DEF EnabledWasListening
      <4>3. QED
        BY <4>1, <4>2
  <2>9. TargetsHaveMapping'
    BY <1>0, <1>8, <2>1, <2>2, <2>3 DEF SetMappingEnabled, Respond, TargetsHaveMapping,
        RequestsChecked, IdsInOrder
  <2>10. QED
    BY <1>0, <2>4, <2>5, <2>6, <2>7, <2>8, <2>9 DEF IInv
<1>9. ASSUME NEW e \in Editors, StoreRefuses(e) PROVE IInv'
  <2>1. VersionIsState'
    BY <1>0, <1>9 DEF StoreRefuses, Respond, VersionIsState, VersionsRise, IdsInOrder,
        UpToDate, RequestsChecked
  <2>2. RequestsChecked'
    BY <1>0, <1>9 DEF StoreRefuses, Respond, RequestsChecked, VersionIsState, VersionsRise,
        IdsInOrder
  <2>3. IdsInOrder' /\ VersionsRise' /\ EnabledWasListening' /\ TargetsHaveMapping'
    BY <1>0, <1>9 DEF StoreRefuses, Respond, IdsInOrder, VersionsRise, EnabledWasListening,
        TargetsHaveMapping
  <2>4. QED
    BY <1>0, <2>1, <2>2, <2>3 DEF IInv
<1>10. ASSUME NEW e \in Editors, DeleteMapping(e) PROVE IInv'
  <2>1. IdsInOrder'
    BY <1>0, <1>10 DEF DeleteMapping, IdsInOrder
  <2>2. VersionsRise'
    BY <1>0, <1>10 DEF DeleteMapping, VersionsRise, IdsInOrder
  <2>3. VersionIsState'
    BY <1>0, <1>10 DEF DeleteMapping, VersionIsState, VersionsRise, IdsInOrder, UpToDate,
        RequestsChecked
  <2>4. RequestsChecked'
    BY <1>0, <1>10 DEF DeleteMapping, RequestsChecked, VersionIsState, VersionsRise,
        IdsInOrder
  <2>5. EnabledWasListening'
    BY <1>0, <1>10 DEF DeleteMapping, EnabledWasListening, RequestsChecked
  <2>6. TargetsHaveMapping'
    BY <1>0, <1>10 DEF DeleteMapping, TargetsHaveMapping, RequestsChecked, IdsInOrder
  <2>7. QED
    BY <1>0, <2>1, <2>2, <2>3, <2>4, <2>5, <2>6 DEF IInv
<1>11. ASSUME NEW n \in nodes, DeleteNode(n) PROVE IInv'
  <2>1. VersionIsState'
    BY <1>0, <1>11 DEF DeleteNode, VersionIsState, VersionsRise, IdsInOrder, UpToDate,
        RequestsChecked
  <2>2. TargetsHaveMapping'
    BY <1>0, <1>11 DEF DeleteNode, TargetsHaveMapping, RequestsChecked, IdsInOrder
  <2>3. IdsInOrder' /\ VersionsRise' /\ RequestsChecked' /\ EnabledWasListening'
    BY <1>0, <1>11 DEF DeleteNode, IdsInOrder, VersionsRise, RequestsChecked,
        EnabledWasListening
  <2>4. QED
    BY <1>0, <2>1, <2>2, <2>3 DEF IInv
<1>12. CASE UNCHANGED vars
  BY <1>0, <1>12 DEF vars, IInv, IdsInOrder, VersionsRise, VersionIsState, RequestsChecked,
     EnabledWasListening, TargetsHaveMapping, UpToDate
<1>13. QED
  BY <1>1, <1>2, <1>3, <1>4, <1>5, <1>6, <1>7, <1>8, <1>9, <1>10, <1>11, <1>12 DEF Next,
      Handler

\* The invariant holds at the start.
LEMMA InvariantInit == Init => IInv
<1> USE Placeholders, MappingsAssumption
<1> SUFFICES ASSUME Init PROVE IInv
  OBVIOUS
<1>1. TypeOK
  BY DEF Init, TypeOK, Row, View, Request, Targets, Ids, NoPort
<1>2. \A e \in Editors : view[e].row = NoRow /\ pc[e] = "idle"
  BY DEF Init
<1>3. \A id \in Ids : row[id] = NoRow /\ targets[id] = {}
  BY DEF Init
<1>4. QED
  BY <1>1, <1>2, <1>3 DEF IInv, IdsInOrder, VersionsRise, VersionIsState, RequestsChecked,
     EnabledWasListening, TargetsHaveMapping, Exists, Shown

\* The inductive invariant of the handlers in handlers_mappings.go.
THEOREM MappingsInvariance == Spec => []IInv
<1>1. IInv /\ [Next]_vars => IInv'
  BY InvariantStep
<1>2. QED
  BY InvariantInit, <1>1, PTL DEF Spec

\* Every variable keeps its type.
THEOREM MappingsTypeCorrect == Spec => []TypeOK
<1>1. IInv => TypeOK
  BY DEF IInv
<1>2. QED
  BY <1>1, MappingsInvariance, PTL

\* No toggle enables a mapping whose stored local port was not found listening.
THEOREM EnabledPortsChecked == Spec => []EnabledWasListening
<1>1. IInv => EnabledWasListening
  BY DEF IInv
<1>2. QED
  BY <1>1, MappingsInvariance, PTL

\* No edit outlives the deletion of its mapping.
THEOREM NoTargetsLeftOver == Spec => []TargetsHaveMapping
<1>1. IInv => TargetsHaveMapping
  BY DEF IInv
<1>2. QED
  BY <1>1, MappingsInvariance, PTL

\* Only an editor who was shown the current state of a mapping changes it.
THEOREM EditsAreBased == Spec => NoLostUpdate
<1> DEFINE Lost(id) == Exists(id) /\ row'[id] # row[id] /\ row'[id].version > 0
           Based(id) == \E e \in Editors :
                           view[e].id = id /\ pc[e] \in {"update", "toggle"} /\ UpToDate(e)
<1>1. ASSUME IInv, [Next]_vars, NEW id \in Ids, Lost(id) PROVE Based(id)
  <2>0. TypeOK /\ IdsInOrder /\ VersionIsState /\ RequestsChecked
    BY <1>1 DEF IInv
  <2>1. ASSUME NEW e \in Editors, UpdateMapping(e) PROVE Based(id)
    <3>1. view[e].id = id
      BY <2>0, <2>1, <1>1 DEF UpdateMapping, TypeOK, View, Ids
    <3>2. QED
      BY <2>0, <2>1, <3>1 DEF UpdateMapping, RequestsChecked, VersionIsState
  <2>2. ASSUME NEW e \in Editors, SetMappingEnabled(e) PROVE Based(id)
    <3>1. view[e].id = id
      BY <2>0, <2>2, <1>1 DEF SetMappingEnabled, TypeOK, View, Ids
    <3>2. QED
      BY <2>0, <2>2, <3>1 DEF SetMappingEnabled, RequestsChecked, VersionIsState
  <2>3. ASSUME NEW e \in Editors, CreateMapping(e) PROVE FALSE
    BY <2>0, <2>3, <1>1 DEF CreateMapping, IdsInOrder, TypeOK, Ids
  <2>4. ASSUME NEW e \in Editors, DeleteMapping(e) PROVE FALSE
    BY <2>0, <2>4, <1>1, Placeholders DEF DeleteMapping, TypeOK, View, Ids
  <2>5. CASE row' = row
    BY <1>1, <2>5
  <2>6. QED
    BY <1>1, <2>1, <2>2, <2>3, <2>4, <2>5 DEF Next, Handler, vars, ListMappings,
       ListTargetsForMappings, ListFails, ValidateMapping, ToggleRead, StoreRefuses,
           DeleteNode
<1>2. IInv /\ [Next]_vars => [\A id \in Ids : Lost(id) => Based(id)]_vars
  BY <1>1
<1>3. QED
  BY <1>2, MappingsInvariance, PTL DEF Spec, NoLostUpdate
=============================================================================
