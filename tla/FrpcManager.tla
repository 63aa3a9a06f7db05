---------------------------- MODULE FrpcManager ----------------------------
(***************************************************************************)
(* The frpc child process of one node (internal/panel/frpcmgr.go) and the  *)
(* panel operations that write its configuration: mapping edits            *)
(* (NodeManager.SyncAll), reconciliation after a handshake, token rotation *)
(* and node removal.                                                       *)
(*                                                                         *)
(* Handlers and node goroutines call into the manager concurrently; m.mu   *)
(* only covers single accesses of m.procs, so every call is a sequence of  *)
(* steps.  A configuration is the number of the mapping revision it was    *)
(* rendered from.                                                          *)
(***************************************************************************)
EXTENDS Naturals, FiniteSets

CONSTANTS Callers,     \* goroutines that call into the manager
          MaxEdits,    \* bound: committed mapping changes
          MaxProcs     \* bound: calls of startProc

ASSUME FrpcAssumption ==
    /\ MaxEdits \in Nat
    /\ MaxProcs \in Nat

Procs == 1..MaxProcs
NoProc == 0
Revisions == 1..(MaxEdits + 1)
NoFile == 0
Broken == MaxEdits + 2     \* a file that a failed write has truncated

VARIABLES want,       \* mapping revision in the database
          row,        \* the node has its row in table nodes
          managed,    \* the node is in NodeManager.conns
          file,       \* revision in node-<id>.toml, or NoFile
          reg,        \* m.procs[id]: the supervisor on record, or NoProc
          sup,        \* each supervisor: "unborn", "idle", "booting", "serving", "ended"
          cancelled,  \* supervisors whose context is cancelled
          conf,       \* revision the supervisor's frpc runs with
          missed,     \* history: since the frpc on record last read its file, a reload
                      \* failed or reached another frpc
          skipped,    \* history: since the current mappings were last written, a caller
                      \* could not read them or not write the file
          overlapped, \* history: the operation that began last, or one under way, ran
                      \* beside another
          doubled,    \* history: an operation that ran beside another put its supervisor
                      \* on record over one that was there
          pc,         \* next step of each caller
          op,         \* what the caller is doing
          rd,         \* revision the caller read
          vic         \* the supervisor the caller is stopping

procVars == <<sup, cancelled, conf>>
callVars == <<pc, op, rd, vic>>
vars == <<want, row, managed, file, reg, procVars, missed, skipped, overlapped, doubled, callVars>>

TypeOK ==
    /\ want \in Revisions
    /\ row \in BOOLEAN
    /\ managed \in BOOLEAN
    /\ file \in Revisions \cup {NoFile, Broken}
    /\ reg \in Procs \cup {NoProc}
    /\ sup \in [Procs -> {"unborn", "idle", "booting", "serving", "ended"}]
    /\ cancelled \in SUBSET Procs
    /\ conf \in [Procs -> Revisions \cup {NoFile}]
    /\ missed \in BOOLEAN
    /\ skipped \in BOOLEAN
    /\ overlapped \in BOOLEAN
    /\ doubled \in BOOLEAN
    /\ pc \in [Callers -> {"none", "read", "write", "check", "reload", "start",
                           "stop", "cancel", "wait", "remove", "delete"}]
    /\ op \in [Callers -> {"none", "sync", "reconcile", "restart", "remove"}]
    /\ rd \in [Callers -> Revisions \cup {NoFile}]
    /\ vic \in [Callers -> Procs \cup {NoProc}]

\* The node is known and its frpc has not been started yet.
Init ==
    /\ want = 1
    /\ row = TRUE
    /\ managed = TRUE
    /\ file = NoFile
    /\ reg = NoProc
    /\ sup = [p \in Procs |-> "unborn"]
    /\ cancelled = {}
    /\ conf = [p \in Procs |-> NoFile]
    /\ missed = FALSE
    /\ skipped = FALSE
    /\ overlapped = FALSE
    /\ doubled = FALSE
    /\ pc = [c \in Callers |-> "none"]
    /\ op = [c \in Callers |-> "none"]
    /\ rd = [c \in Callers |-> NoFile]
    /\ vic = [c \in Callers |-> NoProc]

Goto(c, step) == pc' = [pc EXCEPT ![c] = step]

AllIdle == \A c \in Callers : pc[c] = "none"

\* A caller begins an operation; nothing makes it wait for the others.
Begin(c, what, step) ==
    /\ pc[c] = "none"
    /\ Goto(c, step)
    /\ op' = [op EXCEPT ![c] = what]
    /\ overlapped' = ~AllIdle

Alive == {p \in Procs : sup[p] \in {"idle", "booting", "serving"}}

\* Supervisors that a StopNode has ended or is about to end.
Doomed == cancelled \cup {vic[c] : c \in Callers}

\* Bound: an operation that may start a supervisor finds one unused for it.
Spare == Cardinality({p \in Procs : sup[p] = "unborn"}) > Cardinality({c \in Callers : pc[c] # "none"})

----------------------------------------------------------------------------
(***************************************************************************)
(* The operations.                                                         *)
(***************************************************************************)

\* A mapping handler commits its change; SyncAll then finds the node managed.
EditMapping(c) ==
    /\ Begin(c, "sync", "read")
    /\ want <= MaxEdits
    /\ Spare
    /\ managed
    /\ want' = want + 1
    /\ UNCHANGED <<row, managed, file, reg, procVars, missed, skipped, doubled, rd, vic>>

\* NodeManager.start and reconcile bring the configuration up to date.
Reconcile(c) ==
    /\ Begin(c, "reconcile", "read")
    /\ Spare
    /\ managed
    /\ UNCHANGED <<want, row, managed, file, reg, procVars, missed, skipped, doubled, rd, vic>>

\* session learns a new frps token and stops frpc; its reconcile starts it again.
TokenChanged(c) ==
    /\ Begin(c, "reconcile", "stop")
    /\ Spare
    /\ managed
    /\ UNCHANGED <<want, row, managed, file, reg, procVars, missed, skipped, doubled, rd, vic>>

\* SyncNode, start and reconcile read the enabled mappings; SyncNode gives up
\* when the node is gone.
DesiredProxies(c) ==
    /\ pc[c] = "read"
    /\ IF op[c] = "sync" /\ ~row
       THEN /\ Goto(c, "none")
            /\ UNCHANGED rd
       ELSE /\ rd' = [rd EXCEPT ![c] = want]
            /\ Goto(c, "write")
    /\ UNCHANGED <<want, row, managed, file, reg, procVars, missed, skipped, overlapped, doubled, op, vic>>

\* The query fails: the caller logs it and leaves frpc as it is.
DesiredProxiesFails(c) ==
    /\ pc[c] = "read"
    /\ Goto(c, "none")
    /\ skipped' = TRUE
    /\ UNCHANGED <<want, row, managed, file, reg, procVars, missed, overlapped, doubled, op, rd, vic>>

\* RotateFrpsToken reads the mappings and goes on to RestartNode.
RotateToken(c) ==
    /\ Begin(c, "restart", "stop")
    /\ Spare
    /\ managed
    /\ rd' = [rd EXCEPT ![c] = want]
    /\ UNCHANGED <<want, row, managed, file, reg, procVars, missed, skipped, doubled, vic>>

\* handleDeleteNode: NodeManager.Remove forgets the connection first.  The
\* handler does not look whether the node is still there.
RemoveNode(c) ==
    /\ Begin(c, "remove", "stop")
    /\ managed' = FALSE
    /\ UNCHANGED <<want, row, file, reg, procVars, missed, skipped, doubled, rd, vic>>

\* handleDeleteNode: the row goes last, unless the transaction fails.
DeleteRow(c) ==
    /\ pc[c] = "delete"
    /\ row' = FALSE \/ UNCHANGED row
    /\ Goto(c, "none")
    /\ UNCHANGED <<want, managed, file, reg, procVars, missed, skipped, overlapped, doubled, op, rd, vic>>

----------------------------------------------------------------------------
(***************************************************************************)
(* EnsureNode.                                                             *)
(***************************************************************************)

\* The rendered configuration is written to the node's file.
EnsureWrite(c) ==
    /\ pc[c] = "write"
    /\ file' = rd[c]
    /\ skipped' = (skipped /\ rd[c] # want)
    /\ Goto(c, "check")
    /\ UNCHANGED <<want, row, managed, reg, procVars, missed, overlapped, doubled, op, rd, vic>>

\* os.WriteFile fails, before or after it has truncated the file: EnsureNode returns.
EnsureWriteFails(c) ==
    /\ pc[c] = "write"
    /\ file' \in {file, Broken}
    /\ skipped' = TRUE
    /\ Goto(c, "none")
    /\ UNCHANGED <<want, row, managed, reg, procVars, missed, overlapped, doubled, op, rd, vic>>

\* Mutation: the record of a running supervisor is not consulted.
EnsureCheckNever(c) ==
    /\ pc[c] = "check"
    /\ Goto(c, "start")
    /\ UNCHANGED <<want, row, managed, file, reg, procVars, missed, skipped, overlapped, doubled, op, rd, vic>>

\* Is a supervisor on record?  The lock is released before the answer is used.
EnsureCheck(c) ==
    /\ pc[c] = "check"
    /\ Goto(c, IF reg # NoProc THEN "reload" ELSE "start")
    /\ UNCHANGED <<want, row, managed, file, reg, procVars, missed, skipped, overlapped, doubled, op, rd, vic>>

\* Mutation: a running frpc is left alone.
EnsureReloadSkipped(c) ==
    /\ pc[c] = "reload"
    /\ Goto(c, "none")
    /\ UNCHANGED <<want, row, managed, file, reg, procVars, missed, skipped, overlapped, doubled, op, rd, vic>>

\* Hot reload through the admin port: whichever frpc listens there reads the file
\* again.  The call fails when none does, when frpc refuses the file, or when the
\* client gives up, whether frpc has read the file by then or not.
EnsureReload(c) ==
    /\ pc[c] = "reload"
    /\ Goto(c, "none")
    /\ \/ \E p \in Procs :
             /\ sup[p] = "serving"
             /\ file \in Revisions
             /\ conf' = [conf EXCEPT ![p] = file]
             /\ missed' \in {p # reg, TRUE}
       \/ /\ missed' = TRUE
          /\ UNCHANGED conf
    /\ UNCHANGED <<want, row, managed, file, reg, sup, cancelled, skipped, overlapped, doubled, op, rd, vic>>

\* startProc puts a new supervisor on record and starts it.
StartProc(c) ==
    /\ pc[c] = "start"
    /\ \E p \in Procs :
          /\ sup[p] = "unborn"
          /\ \A q \in Procs : q < p => sup[q] # "unborn"
          /\ sup' = [sup EXCEPT ![p] = "idle"]
          /\ reg' = p
    /\ doubled' = (doubled \/ (overlapped /\ reg # NoProc))
    /\ Goto(c, "none")
    /\ UNCHANGED <<want, row, managed, file, cancelled, conf, missed, skipped, overlapped, op, rd, vic>>

----------------------------------------------------------------------------
(***************************************************************************)
(* StopNode.                                                               *)
(***************************************************************************)

\* Mutation: the record is left as it is.
StopTakeKeeps(c) ==
    /\ pc[c] = "stop"
    /\ vic' = [vic EXCEPT ![c] = reg]
    /\ Goto(c, IF reg = NoProc THEN "remove" ELSE "cancel")
    /\ UNCHANGED <<want, row, managed, file, reg, procVars, missed, skipped, overlapped, doubled, op, rd>>

\* The supervisor is taken off the record.
StopTake(c) ==
    /\ pc[c] = "stop"
    /\ reg' = NoProc
    /\ vic' = [vic EXCEPT ![c] = reg]
    /\ Goto(c, IF reg = NoProc THEN "remove" ELSE "cancel")
    /\ UNCHANGED <<want, row, managed, file, procVars, missed, skipped, overlapped, doubled, op, rd>>

\* The lock is released and the supervisor's context cancelled.
StopCancel(c) ==
    /\ pc[c] = "cancel"
    /\ cancelled' = cancelled \cup {vic[c]}
    /\ Goto(c, "wait")
    /\ UNCHANGED <<want, row, managed, file, reg, sup, conf, missed, skipped, overlapped, doubled, op, rd, vic>>

\* It has ended, or six seconds have passed.
StopWait(c) ==
    /\ pc[c] = "wait"
    /\ Goto(c, "remove")
    /\ UNCHANGED <<want, row, managed, file, reg, procVars, missed, skipped, overlapped, doubled, op, rd, vic>>

\* Mutation: RestartNode starts frpc without writing its file again.
AfterStopStarts(c) ==
    CASE op[c] = "restart" -> "start"
      [] op[c] = "remove" -> "delete"
      [] OTHER -> "read"

\* RestartNode goes on with EnsureNode, the delete handler with its row, the
\* session with its reconcile.
AfterStop(c) ==
    CASE op[c] = "restart" -> "write"
      [] op[c] = "remove" -> "delete"
      [] OTHER -> "read"

\* Mutation: StopNode leaves the configuration file behind.
StopKeepsFile(c) ==
    /\ pc[c] = "remove"
    /\ Goto(c, AfterStop(c))
    /\ vic' = [vic EXCEPT ![c] = NoProc]
    /\ UNCHANGED <<want, row, managed, file, reg, procVars, missed, skipped, overlapped, doubled, op, rd>>

\* The configuration file is deleted, and RestartNode or the handler goes on.
StopRemove(c) ==
    /\ pc[c] = "remove"
    /\ file' = NoFile
    /\ Goto(c, AfterStop(c))
    /\ vic' = [vic EXCEPT ![c] = NoProc]
    /\ UNCHANGED <<want, row, managed, reg, procVars, missed, skipped, overlapped, doubled, op, rd>>

----------------------------------------------------------------------------
(***************************************************************************)
(* supervise, and the frpc process it runs (external: frpc reads its file  *)
(* once at start and needs the node's admin port to itself).               *)
(***************************************************************************)

\* cmd.Start: frpc reads its file and is not reachable yet.  A missing or broken
\* file ends it at once, and the supervisor waits for the next attempt.
SuperviseStart(p) ==
    /\ sup[p] = "idle"
    /\ p \notin cancelled
    /\ file \in Revisions
    /\ sup' = [sup EXCEPT ![p] = "booting"]
    /\ conf' = [conf EXCEPT ![p] = file]
    /\ missed' = (missed /\ p # reg)
    /\ UNCHANGED <<want, row, managed, file, reg, cancelled, skipped, overlapped, doubled, callVars>>

\* frpc gets hold of the admin port.
FrpcServes(p) ==
    /\ sup[p] = "booting"
    /\ \A q \in Procs : sup[q] # "serving"
    /\ sup' = [sup EXCEPT ![p] = "serving"]
    /\ UNCHANGED <<want, row, managed, file, reg, cancelled, conf, missed, skipped, overlapped, doubled, callVars>>

\* frpc exits, by itself or because the port is taken; the supervisor backs off.
FrpcExits(p) ==
    /\ sup[p] \in {"booting", "serving"}
    /\ p \notin cancelled
    /\ sup' = [sup EXCEPT ![p] = "idle"]
    /\ UNCHANGED <<want, row, managed, file, reg, cancelled, conf, missed, skipped, overlapped, doubled, callVars>>

\* A cancelled supervisor kills its frpc and returns.
SuperviseEnds(p) ==
    /\ p \in Alive
    /\ p \in cancelled
    /\ sup' = [sup EXCEPT ![p] = "ended"]
    /\ UNCHANGED <<want, row, managed, file, reg, cancelled, conf, missed, skipped, overlapped, doubled, callVars>>

Operation(c) ==
    \/ EditMapping(c)
    \/ Reconcile(c)
    \/ RotateToken(c)
    \/ TokenChanged(c)
    \/ RemoveNode(c)

Continue(c) ==
    \/ DesiredProxies(c)
    \/ DesiredProxiesFails(c)
    \/ DeleteRow(c)
    \/ EnsureWrite(c)
    \/ EnsureWriteFails(c)
    \/ EnsureCheck(c)
    \/ EnsureReload(c)
    \/ StartProc(c)
    \/ StopTake(c)
    \/ StopCancel(c)
    \/ StopWait(c)
    \/ StopRemove(c)

Supervise(p) ==
    \/ SuperviseStart(p)
    \/ FrpcServes(p)
    \/ SuperviseEnds(p)

Next ==
    \/ \E c \in Callers : Operation(c) \/ Continue(c)
    \/ \E p \in Procs : Supervise(p) \/ FrpcExits(p)

Spec == Init /\ [][Next]_vars

----------------------------------------------------------------------------
\* The supervisor on record is alive and not being stopped: EnsureNode may take
\* the record for a running frpc, however the calls overlap.
RecordIsLive == reg # NoProc => reg \in Alive \ Doomed

\* A supervisor that is not being stopped is the one on record, the only one
\* StopNode can find, unless two EnsureNode calls that overlapped both started
\* one: StopNode beside EnsureNode, or beside another StopNode, loses none.
OneSupervisor == ~doubled => \A p \in Alive \ Doomed : p = reg

\* Whatever overlapped before, an operation that runs alone leaves the file that
\* frpc is restarted from with the mappings of the database, unless it could not
\* read them or not write the file.
FileIsCurrent ==
    AllIdle /\ ~overlapped /\ managed /\ reg # NoProc /\ ~skipped => file = want

\* Whatever overlapped before, after an operation that ran alone the frpc on record
\* runs with what its file says, unless the reload did not reach it.
ReloadApplied ==
    AllIdle /\ ~overlapped /\ reg # NoProc /\ ~missed /\ ~skipped =>
        (sup[reg] = "serving" => conf[reg] = file)

\* Whatever overlapped before, once a deletion has run alone neither the file is
\* left nor a frpc that is not about to be killed, unless two EnsureNode calls had
\* left one that nobody can find.
RemovedIsGone ==
    AllIdle /\ ~overlapped /\ ~doubled /\ ~row => file = NoFile /\ Alive \subseteq cancelled

----------------------------------------------------------------------------
(***************************************************************************)
(* What the comments promise of any operations, also of those that run     *)
(* beside one another.                                                     *)
(***************************************************************************)

\* FrpcManager supervises one frpc child process per node (frpcmgr.go:23).
OneFrpcPerNode == \A p, q \in Alive \ Doomed : p = q

\* SyncAll after a mapping change "guarantees convergence of add/remove"
\* (nodemgr.go:262-263): when all are done the file has the mappings of the database.
SyncConverges == AllIdle /\ managed /\ reg # NoProc /\ ~skipped => file = want

\* Remove tears a node down completely (nodemgr.go:126): no frpc that is not about
\* to be killed runs for a deleted node.
RemoveStopsFrpc == AllIdle /\ ~row /\ ~doubled => Alive \subseteq cancelled

----------------------------------------------------------------------------
(***************************************************************************)
(* The inductive invariant.  RecordInv holds whatever overlaps; the rest   *)
(* speaks of an operation that has been alone since it began.              *)
(***************************************************************************)

CancelledWereBorn == \A p \in Doomed : p # NoProc => sup[p] # "unborn"

\* A caller has a supervisor to stop until it is done with it.
VictimsInHand ==
    \A c \in Callers :
        /\ pc[c] = "cancel" => vic[c] # NoProc
        /\ pc[c] \in {"wait", "remove"} => vic[c] \in cancelled \cup {NoProc}
        /\ pc[c] \notin {"cancel", "wait", "remove"} => vic[c] = NoProc

RecordInv == TypeOK /\ CancelledWereBorn /\ VictimsInHand /\ RecordIsLive

\* Unless operations overlapped, one caller at most is at work.
Alone == ~overlapped => \A c, d \in Callers : pc[c] # "none" /\ pc[d] # "none" => c = d

\* What a caller that is alone found on record is still so when it acts on it.
RecordKept ==
    ~overlapped => \A c \in Callers :
        pc[c] \in {"start", "cancel", "wait", "remove", "delete"} => reg = NoProc

\* What a caller that is alone read is still current when it writes it.
ReadKept ==
    ~overlapped => \A c \in Callers :
        /\ pc[c] = "write" \/ (pc[c] \in {"stop", "cancel", "wait", "remove"} /\ op[c] = "restart") => rd[c] = want
        /\ pc[c] \in {"check", "reload", "start"} => file = want

\* A removal has let go of the connection, and the row goes after that.
RemovalOrdered ==
    /\ ~row => ~managed
    /\ \A c \in Callers :
          /\ pc[c] = "delete" => op[c] = "remove"
          /\ pc[c] # "none" /\ op[c] = "remove" => ~managed
          /\ pc[c] \in {"read", "write", "check", "reload", "start"} => op[c] # "remove"

\* Without a connection only a removal begins, and alone it leaves nothing behind.
RemovalCleans ==
    ~overlapped /\ ~managed =>
        /\ \A c \in Callers : pc[c] # "none" => op[c] = "remove"
        /\ (\A c \in Callers : pc[c] \in {"none", "delete"}) => file = NoFile /\ reg = NoProc

\* frpc runs with its file from the end of an operation that ran alone.
RunsItsFile ==
    AllIdle /\ ~overlapped /\ reg # NoProc /\ ~missed /\ ~skipped =>
        (sup[reg] # "idle" => conf[reg] = file)

FrpcInv ==
    /\ RecordInv
    /\ Alone
    /\ OneSupervisor
    /\ RecordKept
    /\ ReadKept
    /\ FileIsCurrent
    /\ RemovalOrdered
    /\ RemovalCleans
    /\ RunsItsFile
=============================================================================
