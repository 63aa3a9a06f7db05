------------------------- MODULE FrpcManagerProofs -------------------------
(***************************************************************************)
(* Proofs about module FrpcManager, for any number of callers whose        *)
(* operations overlap as they please.                                      *)
(***************************************************************************)
EXTENDS FrpcManager, TLAPS

\* Every operation and every step of a supervisor keeps the types (EnsureNode,
\* StopNode, supervise).
LEMMA TypeStep ==
    ASSUME TypeOK, VictimsInHand, [Next]_vars
    PROVE  TypeOK'
<1> USE FrpcAssumption DEF Procs, NoProc, Revisions, NoFile, Broken
<1>1. ASSUME NEW c \in Callers, EditMapping(c) PROVE TypeOK'
  BY <1>1 DEF EditMapping, Begin, TypeOK, VictimsInHand, Goto, procVars, callVars
<1>2. ASSUME NEW c \in Callers, Reconcile(c) PROVE TypeOK'
  BY <1>2 DEF Reconcile, Begin, TypeOK, VictimsInHand, Goto, procVars, callVars
<1>3. ASSUME NEW c \in Callers, RotateToken(c) PROVE TypeOK'
  BY <1>3 DEF RotateToken, Begin, TypeOK, VictimsInHand, Goto, procVars, callVars
<1>4. ASSUME NEW c \in Callers, TokenChanged(c) PROVE TypeOK'
  BY <1>4 DEF TokenChanged, Begin, TypeOK, VictimsInHand, Goto, procVars, callVars
<1>5. ASSUME NEW c \in Callers, RemoveNode(c) PROVE TypeOK'
  BY <1>5 DEF RemoveNode, Begin, TypeOK, VictimsInHand, Goto, procVars, callVars
<1>6. ASSUME NEW c \in Callers, DesiredProxies(c) PROVE TypeOK'
  BY <1>6 DEF DesiredProxies, TypeOK, VictimsInHand, Goto, procVars, callVars
<1>7. ASSUME NEW c \in Callers, DesiredProxiesFails(c) PROVE TypeOK'
  BY <1>7 DEF DesiredProxiesFails, TypeOK, VictimsInHand, Goto, procVars, callVars
<1>8. ASSUME NEW c \in Callers, DeleteRow(c) PROVE TypeOK'
  BY <1>8 DEF DeleteRow, TypeOK, VictimsInHand, Goto, procVars, callVars
<1>9. ASSUME NEW c \in Callers, EnsureWrite(c) PROVE TypeOK'
  BY <1>9 DEF EnsureWrite, TypeOK, VictimsInHand, Goto, procVars, callVars
<1>10. ASSUME NEW c \in Callers, EnsureWriteFails(c) PROVE TypeOK'
  BY <1>10 DEF EnsureWriteFails, TypeOK, VictimsInHand, Goto, procVars, callVars
<1>11. ASSUME NEW c \in Callers, EnsureCheck(c) PROVE TypeOK'
  BY <1>11 DEF EnsureCheck, TypeOK, VictimsInHand, Goto, procVars, callVars
<1>12. ASSUME NEW c \in Callers, EnsureReload(c) PROVE TypeOK'
  <2>1. missed' \in BOOLEAN
    BY <1>12, Zenon DEF EnsureReload
  <2>2. conf' \in [Procs -> Revisions \cup {NoFile}]
    BY <1>12 DEF EnsureReload, TypeOK
  <2>3. pc' \in [Callers -> {"none", "read", "write", "check", "reload", "start",
                             "stop", "cancel", "wait", "remove", "delete"}]
    BY <1>12 DEF EnsureReload, TypeOK, Goto
  <2> QED
    BY <1>12, <2>1, <2>2, <2>3 DEF EnsureReload, TypeOK
<1>13. ASSUME NEW c \in Callers, StartProc(c) PROVE TypeOK'
  BY <1>13 DEF StartProc, TypeOK, VictimsInHand, Goto, procVars, callVars
<1>14. ASSUME NEW c \in Callers, StopTake(c) PROVE TypeOK'
  BY <1>14 DEF StopTake, TypeOK, VictimsInHand, Goto, procVars, callVars
<1>15. ASSUME NEW c \in Callers, StopCancel(c) PROVE TypeOK'
  BY <1>15 DEF StopCancel, TypeOK, VictimsInHand, Goto, procVars, callVars
<1>16. ASSUME NEW c \in Callers, StopWait(c) PROVE TypeOK'
  BY <1>16 DEF StopWait, TypeOK, VictimsInHand, Goto, procVars, callVars
<1>17. ASSUME NEW c \in Callers, StopRemove(c) PROVE TypeOK'
  BY <1>17 DEF StopRemove, AfterStop, TypeOK, VictimsInHand, Goto, procVars, callVars
<1>18. ASSUME NEW p \in Procs, SuperviseStart(p) PROVE TypeOK'
  BY <1>18 DEF SuperviseStart, TypeOK, VictimsInHand, Goto, procVars, callVars
<1>19. ASSUME NEW p \in Procs, FrpcServes(p) PROVE TypeOK'
  BY <1>19 DEF FrpcServes, TypeOK, VictimsInHand, Goto, procVars, callVars
<1>20. ASSUME NEW p \in Procs, SuperviseEnds(p) PROVE TypeOK'
  BY <1>20 DEF SuperviseEnds, TypeOK, VictimsInHand, Goto, procVars, callVars
<1>21. ASSUME NEW p \in Procs, FrpcExits(p) PROVE TypeOK'
  BY <1>21 DEF FrpcExits, TypeOK, VictimsInHand, Goto, procVars, callVars
<1>22. CASE UNCHANGED vars
  BY <1>22 DEF vars, TypeOK, VictimsInHand, procVars, callVars
<1> QED
  BY <1>1, <1>2, <1>3, <1>4, <1>5, <1>6, <1>7, <1>8, <1>9, <1>10, <1>11, <1>12, <1>13,
      <1>14, <1>15, <1>16, <1>17, <1>18, <1>19, <1>20, <1>21, <1>22 DEF Next, Operation,
      Continue, Supervise

\* The record follows the supervisors: startProc puts a fresh one on it, StopNode
\* takes the one it cancels off it, and only a cancelled one ends.
LEMMA RecordStep ==
    ASSUME TypeOK, CancelledWereBorn, VictimsInHand, RecordIsLive, [Next]_vars
    PROVE  CancelledWereBorn' /\ VictimsInHand' /\ RecordIsLive'
<1> USE FrpcAssumption DEF Procs, NoProc
<1>1. ASSUME NEW c \in Callers, EditMapping(c) PROVE CancelledWereBorn' /\ VictimsInHand'
    /\ RecordIsLive'
  BY <1>1 DEF EditMapping, Begin, TypeOK, CancelledWereBorn, VictimsInHand, RecordIsLive,
      Doomed, Alive, Goto, procVars, callVars
<1>2. ASSUME NEW c \in Callers, Reconcile(c) PROVE CancelledWereBorn' /\ VictimsInHand' /\
    RecordIsLive'
  BY <1>2 DEF Reconcile, Begin, TypeOK, CancelledWereBorn, VictimsInHand, RecordIsLive,
      Doomed, Alive, Goto, procVars, callVars
<1>3. ASSUME NEW c \in Callers, RotateToken(c) PROVE CancelledWereBorn' /\ VictimsInHand'
    /\ RecordIsLive'
  BY <1>3 DEF RotateToken, Begin, TypeOK, CancelledWereBorn, VictimsInHand, RecordIsLive,
      Doomed, Alive, Goto, procVars, callVars
<1>4. ASSUME NEW c \in Callers, TokenChanged(c) PROVE CancelledWereBorn' /\ VictimsInHand'
    /\ RecordIsLive'
  BY <1>4 DEF TokenChanged, Begin, TypeOK, CancelledWereBorn, VictimsInHand, RecordIsLive,
      Doomed, Alive, Goto, procVars, callVars
<1>5. ASSUME NEW c \in Callers, RemoveNode(c) PROVE CancelledWereBorn' /\ VictimsInHand'
    /\ RecordIsLive'
  BY <1>5 DEF RemoveNode, Begin, TypeOK, CancelledWereBorn, VictimsInHand, RecordIsLive,
      Doomed, Alive, Goto, procVars, callVars
<1>6. ASSUME NEW c \in Callers, DesiredProxies(c) PROVE CancelledWereBorn' /\
    VictimsInHand' /\ RecordIsLive'
  BY <1>6 DEF DesiredProxies, TypeOK, CancelledWereBorn, VictimsInHand, RecordIsLive,
      Doomed, Alive, Goto, procVars, callVars
<1>7. ASSUME NEW c \in Callers, DesiredProxiesFails(c) PROVE CancelledWereBorn' /\
    VictimsInHand' /\ RecordIsLive'
  BY <1>7 DEF DesiredProxiesFails, TypeOK, CancelledWereBorn, VictimsInHand, RecordIsLive,
      Doomed, Alive, Goto, procVars, callVars
<1>8. ASSUME NEW c \in Callers, DeleteRow(c) PROVE CancelledWereBorn' /\ VictimsInHand' /\
    RecordIsLive'
  BY <1>8 DEF DeleteRow, TypeOK, CancelledWereBorn, VictimsInHand, RecordIsLive, Doomed,
      Alive, Goto, procVars, callVars
<1>9. ASSUME NEW c \in Callers, EnsureWrite(c) PROVE CancelledWereBorn' /\ VictimsInHand'
    /\ RecordIsLive'
  BY <1>9 DEF EnsureWrite, TypeOK, CancelledWereBorn, VictimsInHand, RecordIsLive, Doomed,
      Alive, Goto, procVars, callVars
<1>10. ASSUME NEW c \in Callers, EnsureWriteFails(c) PROVE CancelledWereBorn' /\
    VictimsInHand' /\ RecordIsLive'
  BY <1>10 DEF EnsureWriteFails, TypeOK, CancelledWereBorn, VictimsInHand, RecordIsLive,
      Doomed, Alive, Goto, procVars, callVars
<1>11. ASSUME NEW c \in Callers, EnsureCheck(c) PROVE CancelledWereBorn' /\ VictimsInHand'
    /\ RecordIsLive'
  BY <1>11 DEF EnsureCheck, TypeOK, CancelledWereBorn, VictimsInHand, RecordIsLive,
      Doomed, Alive, Goto, procVars, callVars
<1>12. ASSUME NEW c \in Callers, EnsureReload(c) PROVE CancelledWereBorn' /\
    VictimsInHand' /\ RecordIsLive'
  BY <1>12 DEF EnsureReload, TypeOK, CancelledWereBorn, VictimsInHand, RecordIsLive,
      Doomed, Alive, Goto, procVars, callVars
<1>13. ASSUME NEW c \in Callers, StartProc(c) PROVE CancelledWereBorn' /\ VictimsInHand'
    /\ RecordIsLive'
  BY <1>13 DEF StartProc, TypeOK, CancelledWereBorn, VictimsInHand, RecordIsLive, Doomed,
      Alive, Goto, procVars, callVars
<1>14. ASSUME NEW c \in Callers, StopTake(c) PROVE CancelledWereBorn' /\ VictimsInHand' /\
    RecordIsLive'
  BY <1>14 DEF StopTake, TypeOK, CancelledWereBorn, VictimsInHand, RecordIsLive, Doomed,
      Alive, Goto, procVars, callVars
<1>15. ASSUME NEW c \in Callers, StopCancel(c) PROVE CancelledWereBorn' /\ VictimsInHand'
    /\ RecordIsLive'
  BY <1>15 DEF StopCancel, TypeOK, CancelledWereBorn, VictimsInHand, RecordIsLive, Doomed,
      Alive, Goto, procVars, callVars
<1>16. ASSUME NEW c \in Callers, StopWait(c) PROVE CancelledWereBorn' /\ VictimsInHand' /\
    RecordIsLive'
  BY <1>16 DEF StopWait, TypeOK, CancelledWereBorn, VictimsInHand, RecordIsLive, Doomed,
      Alive, Goto, procVars, callVars
<1>17. ASSUME NEW c \in Callers, StopRemove(c) PROVE CancelledWereBorn' /\ VictimsInHand'
    /\ RecordIsLive'
  BY <1>17 DEF StopRemove, AfterStop, TypeOK, CancelledWereBorn, VictimsInHand,
      RecordIsLive, Doomed, Alive, Goto, procVars, callVars
<1>18. ASSUME NEW p \in Procs, SuperviseStart(p) PROVE CancelledWereBorn' /\
    VictimsInHand' /\ RecordIsLive'
  BY <1>18 DEF SuperviseStart, TypeOK, CancelledWereBorn, VictimsInHand, RecordIsLive,
      Doomed, Alive, Goto, procVars, callVars
<1>19. ASSUME NEW p \in Procs, FrpcServes(p) PROVE CancelledWereBorn' /\ VictimsInHand' /\
    RecordIsLive'
  BY <1>19 DEF FrpcServes, TypeOK, CancelledWereBorn, VictimsInHand, RecordIsLive, Doomed,
      Alive, Goto, procVars, callVars
<1>20. ASSUME NEW p \in Procs, SuperviseEnds(p) PROVE CancelledWereBorn' /\ VictimsInHand'
    /\ RecordIsLive'
  BY <1>20 DEF SuperviseEnds, TypeOK, CancelledWereBorn, VictimsInHand, RecordIsLive,
      Doomed, Alive, Goto, procVars, callVars
<1>21. ASSUME NEW p \in Procs, FrpcExits(p) PROVE CancelledWereBorn' /\ VictimsInHand' /\
    RecordIsLive'
  BY <1>21 DEF FrpcExits, TypeOK, CancelledWereBorn, VictimsInHand, RecordIsLive, Doomed,
      Alive, Goto, procVars, callVars
<1>22. CASE UNCHANGED vars
  BY <1>22 DEF vars, TypeOK, CancelledWereBorn, VictimsInHand, RecordIsLive, Doomed,
      Alive, procVars, callVars
<1> QED
  BY <1>1, <1>2, <1>3, <1>4, <1>5, <1>6, <1>7, <1>8, <1>9, <1>10, <1>11, <1>12, <1>13,
      <1>14, <1>15, <1>16, <1>17, <1>18, <1>19, <1>20, <1>21, <1>22 DEF Next, Operation,
      Continue, Supervise

\* As long as nobody else has begun, a caller is the only one at work.
LEMMA AloneStep ==
    ASSUME TypeOK, Alone, [Next]_vars
    PROVE  Alone'
<1>1. ASSUME NEW c \in Callers, EditMapping(c) PROVE Alone'
  BY <1>1 DEF EditMapping, Begin, TypeOK, Alone, AllIdle, Goto, procVars, callVars
<1>2. ASSUME NEW c \in Callers, Reconcile(c) PROVE Alone'
  BY <1>2 DEF Reconcile, Begin, TypeOK, Alone, AllIdle, Goto, procVars, callVars
<1>3. ASSUME NEW c \in Callers, RotateToken(c) PROVE Alone'
  BY <1>3 DEF RotateToken, Begin, TypeOK, Alone, AllIdle, Goto, procVars, callVars
<1>4. ASSUME NEW c \in Callers, TokenChanged(c) PROVE Alone'
  BY <1>4 DEF TokenChanged, Begin, TypeOK, Alone, AllIdle, Goto, procVars, callVars
<1>5. ASSUME NEW c \in Callers, RemoveNode(c) PROVE Alone'
  BY <1>5 DEF RemoveNode, Begin, TypeOK, Alone, AllIdle, Goto, procVars, callVars
<1>6. ASSUME NEW c \in Callers, DesiredProxies(c) PROVE Alone'
  BY <1>6 DEF DesiredProxies, TypeOK, Alone, AllIdle, Goto, procVars, callVars
<1>7. ASSUME NEW c \in Callers, DesiredProxiesFails(c) PROVE Alone'
  BY <1>7 DEF DesiredProxiesFails, TypeOK, Alone, AllIdle, Goto, procVars, callVars
<1>8. ASSUME NEW c \in Callers, DeleteRow(c) PROVE Alone'
  BY <1>8 DEF DeleteRow, TypeOK, Alone, AllIdle, Goto, procVars, callVars
<1>9. ASSUME NEW c \in Callers, EnsureWrite(c) PROVE Alone'
  BY <1>9 DEF EnsureWrite, TypeOK, Alone, AllIdle, Goto, procVars, callVars
<1>10. ASSUME NEW c \in Callers, EnsureWriteFails(c) PROVE Alone'
  BY <1>10 DEF EnsureWriteFails, TypeOK, Alone, AllIdle, Goto, procVars, callVars
<1>11. ASSUME NEW c \in Callers, EnsureCheck(c) PROVE Alone'
  BY <1>11 DEF EnsureCheck, TypeOK, Alone, AllIdle, Goto, procVars, callVars
<1>12. ASSUME NEW c \in Callers, EnsureReload(c) PROVE Alone'
  BY <1>12 DEF EnsureReload, TypeOK, Alone, AllIdle, Goto, procVars, callVars
<1>13. ASSUME NEW c \in Callers, StartProc(c) PROVE Alone'
  BY <1>13 DEF StartProc, TypeOK, Alone, AllIdle, Goto, procVars, callVars
<1>14. ASSUME NEW c \in Callers, StopTake(c) PROVE Alone'
  BY <1>14 DEF StopTake, TypeOK, Alone, AllIdle, Goto, procVars, callVars
<1>15. ASSUME NEW c \in Callers, StopCancel(c) PROVE Alone'
  BY <1>15 DEF StopCancel, TypeOK, Alone, AllIdle, Goto, procVars, callVars
<1>16. ASSUME NEW c \in Callers, StopWait(c) PROVE Alone'
  BY <1>16 DEF StopWait, TypeOK, Alone, AllIdle, Goto, procVars, callVars
<1>17. ASSUME NEW c \in Callers, StopRemove(c) PROVE Alone'
  BY <1>17 DEF StopRemove, AfterStop, TypeOK, Alone, AllIdle, Goto, procVars, callVars
<1>18. ASSUME NEW p \in Procs, SuperviseStart(p) PROVE Alone'
  BY <1>18 DEF SuperviseStart, TypeOK, Alone, AllIdle, Goto, procVars, callVars
<1>19. ASSUME NEW p \in Procs, FrpcServes(p) PROVE Alone'
  BY <1>19 DEF FrpcServes, TypeOK, Alone, AllIdle, Goto, procVars, callVars
<1>20. ASSUME NEW p \in Procs, SuperviseEnds(p) PROVE Alone'
  BY <1>20 DEF SuperviseEnds, TypeOK, Alone, AllIdle, Goto, procVars, callVars
<1>21. ASSUME NEW p \in Procs, FrpcExits(p) PROVE Alone'
  BY <1>21 DEF FrpcExits, TypeOK, Alone, AllIdle, Goto, procVars, callVars
<1>22. CASE UNCHANGED vars
  BY <1>22 DEF vars, TypeOK, Alone, AllIdle, procVars, callVars
<1> QED
  BY <1>1, <1>2, <1>3, <1>4, <1>5, <1>6, <1>7, <1>8, <1>9, <1>10, <1>11, <1>12, <1>13,
      <1>14, <1>15, <1>16, <1>17, <1>18, <1>19, <1>20, <1>21, <1>22 DEF Next, Operation,
      Continue, Supervise

\* What a caller that is alone found on record stays so (EnsureNode, StopNode).
LEMMA KeptStep ==
    ASSUME TypeOK, RecordIsLive, Alone, RecordKept, [Next]_vars
    PROVE  RecordKept'
<1> USE DEF NoProc
<1>1. ASSUME NEW c \in Callers, EditMapping(c) PROVE RecordKept'
  BY <1>1 DEF EditMapping, Begin, TypeOK, RecordIsLive, Alone, RecordKept, AllIdle, Goto,
      procVars, callVars
<1>2. ASSUME NEW c \in Callers, Reconcile(c) PROVE RecordKept'
  BY <1>2 DEF Reconcile, Begin, TypeOK, RecordIsLive, Alone, RecordKept, AllIdle, Goto,
      procVars, callVars
<1>3. ASSUME NEW c \in Callers, RotateToken(c) PROVE RecordKept'
  BY <1>3 DEF RotateToken, Begin, TypeOK, RecordIsLive, Alone, RecordKept, AllIdle, Goto,
      procVars, callVars
<1>4. ASSUME NEW c \in Callers, TokenChanged(c) PROVE RecordKept'
  BY <1>4 DEF TokenChanged, Begin, TypeOK, RecordIsLive, Alone, RecordKept, AllIdle, Goto,
      procVars, callVars
<1>5. ASSUME NEW c \in Callers, RemoveNode(c) PROVE RecordKept'
  BY <1>5 DEF RemoveNode, Begin, TypeOK, RecordIsLive, Alone, RecordKept, AllIdle, Goto,
      procVars, callVars
<1>6. ASSUME NEW c \in Callers, DesiredProxies(c) PROVE RecordKept'
  BY <1>6 DEF DesiredProxies, TypeOK, RecordIsLive, Alone, RecordKept, AllIdle, Goto,
      procVars, callVars
<1>7. ASSUME NEW c \in Callers, DesiredProxiesFails(c) PROVE RecordKept'
  BY <1>7 DEF DesiredProxiesFails, TypeOK, RecordIsLive, Alone, RecordKept, AllIdle, Goto,
      procVars, callVars
<1>8. ASSUME NEW c \in Callers, DeleteRow(c) PROVE RecordKept'
  BY <1>8 DEF DeleteRow, TypeOK, RecordIsLive, Alone, RecordKept, AllIdle, Goto, procVars,
      callVars
<1>9. ASSUME NEW c \in Callers, EnsureWrite(c) PROVE RecordKept'
  BY <1>9 DEF EnsureWrite, TypeOK, RecordIsLive, Alone, RecordKept, AllIdle, Goto,
      procVars, callVars
<1>10. ASSUME NEW c \in Callers, EnsureWriteFails(c) PROVE RecordKept'
  BY <1>10 DEF EnsureWriteFails, TypeOK, RecordIsLive, Alone, RecordKept, AllIdle, Goto,
      procVars, callVars
<1>11. ASSUME NEW c \in Callers, EnsureCheck(c) PROVE RecordKept'
  BY <1>11 DEF EnsureCheck, TypeOK, RecordIsLive, Alone, RecordKept, AllIdle, Goto,
      procVars, callVars
<1>12. ASSUME NEW c \in Callers, EnsureReload(c) PROVE RecordKept'
  BY <1>12 DEF EnsureReload, TypeOK, RecordIsLive, Alone, RecordKept, AllIdle, Goto,
      procVars, callVars
<1>13. ASSUME NEW c \in Callers, StartProc(c) PROVE RecordKept'
  BY <1>13 DEF StartProc, TypeOK, RecordIsLive, Alone, RecordKept, AllIdle, Goto,
      procVars, callVars
<1>14. ASSUME NEW c \in Callers, StopTake(c) PROVE RecordKept'
  BY <1>14 DEF StopTake, TypeOK, RecordIsLive, Alone, RecordKept, AllIdle, Goto, procVars,
      callVars
<1>15. ASSUME NEW c \in Callers, StopCancel(c) PROVE RecordKept'
  BY <1>15 DEF StopCancel, TypeOK, RecordIsLive, Alone, RecordKept, AllIdle, Goto,
      procVars, callVars
<1>16. ASSUME NEW c \in Callers, StopWait(c) PROVE RecordKept'
  BY <1>16 DEF StopWait, TypeOK, RecordIsLive, Alone, RecordKept, AllIdle, Goto, procVars,
      callVars
<1>17. ASSUME NEW c \in Callers, StopRemove(c) PROVE RecordKept'
  BY <1>17 DEF StopRemove, AfterStop, TypeOK, RecordIsLive, Alone, RecordKept, AllIdle,
      Goto, procVars, callVars
<1>18. ASSUME NEW p \in Procs, SuperviseStart(p) PROVE RecordKept'
  BY <1>18 DEF SuperviseStart, TypeOK, RecordIsLive, Alone, RecordKept, AllIdle, Goto,
      procVars, callVars
<1>19. ASSUME NEW p \in Procs, FrpcServes(p) PROVE RecordKept'
  BY <1>19 DEF FrpcServes, TypeOK, RecordIsLive, Alone, RecordKept, AllIdle, Goto,
      procVars, callVars
<1>20. ASSUME NEW p \in Procs, SuperviseEnds(p) PROVE RecordKept'
  BY <1>20 DEF SuperviseEnds, TypeOK, RecordIsLive, Alone, RecordKept, AllIdle, Goto,
      procVars, callVars
<1>21. ASSUME NEW p \in Procs, FrpcExits(p) PROVE RecordKept'
  BY <1>21 DEF FrpcExits, TypeOK, RecordIsLive, Alone, RecordKept, AllIdle, Goto,
      procVars, callVars
<1>22. CASE UNCHANGED vars
  BY <1>22 DEF vars, TypeOK, RecordIsLive, Alone, RecordKept, AllIdle, procVars, callVars
<1> QED
  BY <1>1, <1>2, <1>3, <1>4, <1>5, <1>6, <1>7, <1>8, <1>9, <1>10, <1>11, <1>12, <1>13,
      <1>14, <1>15, <1>16, <1>17, <1>18, <1>19, <1>20, <1>21, <1>22 DEF Next, Operation,
      Continue, Supervise

\* A supervisor is started over another only by callers that overlapped, and
\* StopNode leaves none off the record that it does not cancel.
LEMMA SupervisorStep ==
    ASSUME RecordInv, Alone, RecordKept, OneSupervisor, [Next]_vars
    PROVE  OneSupervisor'
<1> USE FrpcAssumption DEF Procs, NoProc
<1>1. ASSUME NEW c \in Callers, EditMapping(c) PROVE OneSupervisor'
  BY <1>1 DEF EditMapping, Begin, RecordInv, Alone, RecordKept, OneSupervisor, TypeOK,
      VictimsInHand, RecordIsLive, Doomed, Alive, Goto, procVars, callVars
<1>2. ASSUME NEW c \in Callers, Reconcile(c) PROVE OneSupervisor'
  BY <1>2 DEF Reconcile, Begin, RecordInv, Alone, RecordKept, OneSupervisor, TypeOK,
      VictimsInHand, RecordIsLive, Doomed, Alive, Goto, procVars, callVars
<1>3. ASSUME NEW c \in Callers, RotateToken(c) PROVE OneSupervisor'
  BY <1>3 DEF RotateToken, Begin, RecordInv, Alone, RecordKept, OneSupervisor, TypeOK,
      VictimsInHand, RecordIsLive, Doomed, Alive, Goto, procVars, callVars
<1>4. ASSUME NEW c \in Callers, TokenChanged(c) PROVE OneSupervisor'
  BY <1>4 DEF TokenChanged, Begin, RecordInv, Alone, RecordKept, OneSupervisor, TypeOK,
      VictimsInHand, RecordIsLive, Doomed, Alive, Goto, procVars, callVars
<1>5. ASSUME NEW c \in Callers, RemoveNode(c) PROVE OneSupervisor'
  BY <1>5 DEF RemoveNode, Begin, RecordInv, Alone, RecordKept, OneSupervisor, TypeOK,
      VictimsInHand, RecordIsLive, Doomed, Alive, Goto, procVars, callVars
<1>6. ASSUME NEW c \in Callers, DesiredProxies(c) PROVE OneSupervisor'
  BY <1>6 DEF DesiredProxies, RecordInv, Alone, RecordKept, OneSupervisor, TypeOK,
      VictimsInHand, RecordIsLive, Doomed, Alive, Goto, procVars, callVars
<1>7. ASSUME NEW c \in Callers, DesiredProxiesFails(c) PROVE OneSupervisor'
  BY <1>7 DEF DesiredProxiesFails, RecordInv, Alone, RecordKept, OneSupervisor, TypeOK,
      VictimsInHand, RecordIsLive, Doomed, Alive, Goto, procVars, callVars
<1>8. ASSUME NEW c \in Callers, DeleteRow(c) PROVE OneSupervisor'
  BY <1>8 DEF DeleteRow, RecordInv, Alone, RecordKept, OneSupervisor, TypeOK,
      VictimsInHand, RecordIsLive, Doomed, Alive, Goto, procVars, callVars
<1>9. ASSUME NEW c \in Callers, EnsureWrite(c) PROVE OneSupervisor'
  BY <1>9 DEF EnsureWrite, RecordInv, Alone, RecordKept, OneSupervisor, TypeOK,
      VictimsInHand, RecordIsLive, Doomed, Alive, Goto, procVars, callVars
<1>10. ASSUME NEW c \in Callers, EnsureWriteFails(c) PROVE OneSupervisor'
  BY <1>10 DEF EnsureWriteFails, RecordInv, Alone, RecordKept, OneSupervisor, TypeOK,
      VictimsInHand, RecordIsLive, Doomed, Alive, Goto, procVars, callVars
<1>11. ASSUME NEW c \in Callers, EnsureCheck(c) PROVE OneSupervisor'
  BY <1>11 DEF EnsureCheck, RecordInv, Alone, RecordKept, OneSupervisor, TypeOK,
      VictimsInHand, RecordIsLive, Doomed, Alive, Goto, procVars, callVars
<1>12. ASSUME NEW c \in Callers, EnsureReload(c) PROVE OneSupervisor'
  BY <1>12 DEF EnsureReload, RecordInv, Alone, RecordKept, OneSupervisor, TypeOK,
      VictimsInHand, RecordIsLive, Doomed, Alive, Goto, procVars, callVars
<1>13. ASSUME NEW c \in Callers, StartProc(c) PROVE OneSupervisor'
  BY <1>13 DEF StartProc, RecordInv, Alone, RecordKept, OneSupervisor, TypeOK,
      VictimsInHand, RecordIsLive, Doomed, Alive, Goto, procVars, callVars
<1>14. ASSUME NEW c \in Callers, StopTake(c) PROVE OneSupervisor'
  BY <1>14 DEF StopTake, RecordInv, Alone, RecordKept, OneSupervisor, TypeOK,
      VictimsInHand, RecordIsLive, Doomed, Alive, Goto, procVars, callVars
<1>15. ASSUME NEW c \in Callers, StopCancel(c) PROVE OneSupervisor'
  BY <1>15 DEF StopCancel, RecordInv, Alone, RecordKept, OneSupervisor, TypeOK,
      VictimsInHand, RecordIsLive, Doomed, Alive, Goto, procVars, callVars
<1>16. ASSUME NEW c \in Callers, StopWait(c) PROVE OneSupervisor'
  BY <1>16 DEF StopWait, RecordInv, Alone, RecordKept, OneSupervisor, TypeOK,
      VictimsInHand, RecordIsLive, Doomed, Alive, Goto, procVars, callVars
<1>17. ASSUME NEW c \in Callers, StopRemove(c) PROVE OneSupervisor'
  BY <1>17 DEF StopRemove, AfterStop, RecordInv, Alone, RecordKept, OneSupervisor, TypeOK,
      VictimsInHand, RecordIsLive, Doomed, Alive, Goto, procVars, callVars
<1>18. ASSUME NEW p \in Procs, SuperviseStart(p) PROVE OneSupervisor'
  BY <1>18 DEF SuperviseStart, RecordInv, Alone, RecordKept, OneSupervisor, TypeOK,
      VictimsInHand, RecordIsLive, Doomed, Alive, Goto, procVars, callVars
<1>19. ASSUME NEW p \in Procs, FrpcServes(p) PROVE OneSupervisor'
  BY <1>19 DEF FrpcServes, RecordInv, Alone, RecordKept, OneSupervisor, TypeOK,
      VictimsInHand, RecordIsLive, Doomed, Alive, Goto, procVars, callVars
<1>20. ASSUME NEW p \in Procs, SuperviseEnds(p) PROVE OneSupervisor'
  BY <1>20 DEF SuperviseEnds, RecordInv, Alone, RecordKept, OneSupervisor, TypeOK,
      VictimsInHand, RecordIsLive, Doomed, Alive, Goto, procVars, callVars
<1>21. ASSUME NEW p \in Procs, FrpcExits(p) PROVE OneSupervisor'
  BY <1>21 DEF FrpcExits, RecordInv, Alone, RecordKept, OneSupervisor, TypeOK,
      VictimsInHand, RecordIsLive, Doomed, Alive, Goto, procVars, callVars
<1>22. CASE UNCHANGED vars
  BY <1>22 DEF vars, RecordInv, Alone, RecordKept, OneSupervisor, TypeOK, VictimsInHand,
      RecordIsLive, Doomed, Alive, procVars, callVars
<1> QED
  BY <1>1, <1>2, <1>3, <1>4, <1>5, <1>6, <1>7, <1>8, <1>9, <1>10, <1>11, <1>12, <1>13,
      <1>14, <1>15, <1>16, <1>17, <1>18, <1>19, <1>20, <1>21, <1>22 DEF Next, Operation,
      Continue, Supervise

\* Alone, nothing commits between the read of the mappings and the write of the
\* file (SyncNode, reconcile, RotateFrpsToken).
LEMMA ReadStep ==
    ASSUME TypeOK, Alone, RecordKept, ReadKept, RemovalOrdered, [Next]_vars
    PROVE  ReadKept'
<1>1. ASSUME NEW c \in Callers, EditMapping(c) PROVE ReadKept'
  BY <1>1 DEF EditMapping, Begin, TypeOK, Alone, RecordKept, ReadKept, RemovalOrdered,
      AllIdle, Goto, procVars, callVars
<1>2. ASSUME NEW c \in Callers, Reconcile(c) PROVE ReadKept'
  BY <1>2 DEF Reconcile, Begin, TypeOK, Alone, RecordKept, ReadKept, RemovalOrdered,
      AllIdle, Goto, procVars, callVars
<1>3. ASSUME NEW c \in Callers, RotateToken(c) PROVE ReadKept'
  BY <1>3 DEF RotateToken, Begin, TypeOK, Alone, RecordKept, ReadKept, RemovalOrdered,
      AllIdle, Goto, procVars, callVars
<1>4. ASSUME NEW c \in Callers, TokenChanged(c) PROVE ReadKept'
  BY <1>4 DEF TokenChanged, Begin, TypeOK, Alone, RecordKept, ReadKept, RemovalOrdered,
      AllIdle, Goto, procVars, callVars
<1>5. ASSUME NEW c \in Callers, RemoveNode(c) PROVE ReadKept'
  BY <1>5 DEF RemoveNode, Begin, TypeOK, Alone, RecordKept, ReadKept, RemovalOrdered,
      AllIdle, Goto, procVars, callVars
<1>6. ASSUME NEW c \in Callers, DesiredProxies(c) PROVE ReadKept'
  BY <1>6 DEF DesiredProxies, TypeOK, Alone, RecordKept, ReadKept, RemovalOrdered,
      AllIdle, Goto, procVars, callVars
<1>7. ASSUME NEW c \in Callers, DesiredProxiesFails(c) PROVE ReadKept'
  BY <1>7 DEF DesiredProxiesFails, TypeOK, Alone, RecordKept, ReadKept, RemovalOrdered,
      AllIdle, Goto, procVars, callVars
<1>8. ASSUME NEW c \in Callers, DeleteRow(c) PROVE ReadKept'
  BY <1>8 DEF DeleteRow, TypeOK, Alone, RecordKept, ReadKept, RemovalOrdered, AllIdle,
      Goto, procVars, callVars
<1>9. ASSUME NEW c \in Callers, EnsureWrite(c) PROVE ReadKept'
  BY <1>9 DEF EnsureWrite, TypeOK, Alone, RecordKept, ReadKept, RemovalOrdered, AllIdle,
      Goto, procVars, callVars
<1>10. ASSUME NEW c \in Callers, EnsureWriteFails(c) PROVE ReadKept'
  BY <1>10 DEF EnsureWriteFails, TypeOK, Alone, RecordKept, ReadKept, RemovalOrdered,
      AllIdle, Goto, procVars, callVars
<1>11. ASSUME NEW c \in Callers, EnsureCheck(c) PROVE ReadKept'
  BY <1>11 DEF EnsureCheck, TypeOK, Alone, RecordKept, ReadKept, RemovalOrdered, AllIdle,
      Goto, procVars, callVars
<1>12. ASSUME NEW c \in Callers, EnsureReload(c) PROVE ReadKept'
  BY <1>12 DEF EnsureReload, TypeOK, Alone, RecordKept, ReadKept, RemovalOrdered, AllIdle,
      Goto, procVars, callVars
<1>13. ASSUME NEW c \in Callers, StartProc(c) PROVE ReadKept'
  BY <1>13 DEF StartProc, TypeOK, Alone, RecordKept, ReadKept, RemovalOrdered, AllIdle,
      Goto, procVars, callVars
<1>14. ASSUME NEW c \in Callers, StopTake(c) PROVE ReadKept'
  BY <1>14 DEF StopTake, TypeOK, Alone, RecordKept, ReadKept, RemovalOrdered, AllIdle,
      Goto, procVars, callVars
<1>15. ASSUME NEW c \in Callers, StopCancel(c) PROVE ReadKept'
  BY <1>15 DEF StopCancel, TypeOK, Alone, RecordKept, ReadKept, RemovalOrdered, AllIdle,
      Goto, procVars, callVars
<1>16. ASSUME NEW c \in Callers, StopWait(c) PROVE ReadKept'
  BY <1>16 DEF StopWait, TypeOK, Alone, RecordKept, ReadKept, RemovalOrdered, AllIdle,
      Goto, procVars, callVars
<1>17. ASSUME NEW c \in Callers, StopRemove(c) PROVE ReadKept'
  BY <1>17 DEF StopRemove, AfterStop, TypeOK, Alone, RecordKept, ReadKept, RemovalOrdered,
      AllIdle, Goto, procVars, callVars
<1>18. ASSUME NEW p \in Procs, SuperviseStart(p) PROVE ReadKept'
  BY <1>18 DEF SuperviseStart, TypeOK, Alone, RecordKept, ReadKept, RemovalOrdered,
      AllIdle, Goto, procVars, callVars
<1>19. ASSUME NEW p \in Procs, FrpcServes(p) PROVE ReadKept'
  BY <1>19 DEF FrpcServes, TypeOK, Alone, RecordKept, ReadKept, RemovalOrdered, AllIdle,
      Goto, procVars, callVars
<1>20. ASSUME NEW p \in Procs, SuperviseEnds(p) PROVE ReadKept'
  BY <1>20 DEF SuperviseEnds, TypeOK, Alone, RecordKept, ReadKept, RemovalOrdered,
      AllIdle, Goto, procVars, callVars
<1>21. ASSUME NEW p \in Procs, FrpcExits(p) PROVE ReadKept'
  BY <1>21 DEF FrpcExits, TypeOK, Alone, RecordKept, ReadKept, RemovalOrdered, AllIdle,
      Goto, procVars, callVars
<1>22. CASE UNCHANGED vars
  BY <1>22 DEF vars, TypeOK, Alone, RecordKept, ReadKept, RemovalOrdered, AllIdle,
      procVars, callVars
<1> QED
  BY <1>1, <1>2, <1>3, <1>4, <1>5, <1>6, <1>7, <1>8, <1>9, <1>10, <1>11, <1>12, <1>13,
      <1>14, <1>15, <1>16, <1>17, <1>18, <1>19, <1>20, <1>21, <1>22 DEF Next, Operation,
      Continue, Supervise

\* handleDeleteNode takes the connection before the row.
LEMMA OrderStep ==
    ASSUME TypeOK, RemovalOrdered, [Next]_vars
    PROVE  RemovalOrdered'
<1>1. ASSUME NEW c \in Callers, EditMapping(c) PROVE RemovalOrdered'
  BY <1>1 DEF EditMapping, Begin, TypeOK, RemovalOrdered, Goto, procVars, callVars
<1>2. ASSUME NEW c \in Callers, Reconcile(c) PROVE RemovalOrdered'
  BY <1>2 DEF Reconcile, Begin, TypeOK, RemovalOrdered, Goto, procVars, callVars
<1>3. ASSUME NEW c \in Callers, RotateToken(c) PROVE RemovalOrdered'
  BY <1>3 DEF RotateToken, Begin, TypeOK, RemovalOrdered, Goto, procVars, callVars
<1>4. ASSUME NEW c \in Callers, TokenChanged(c) PROVE RemovalOrdered'
  BY <1>4 DEF TokenChanged, Begin, TypeOK, RemovalOrdered, Goto, procVars, callVars
<1>5. ASSUME NEW c \in Callers, RemoveNode(c) PROVE RemovalOrdered'
  BY <1>5 DEF RemoveNode, Begin, TypeOK, RemovalOrdered, Goto, procVars, callVars
<1>6. ASSUME NEW c \in Callers, DesiredProxies(c) PROVE RemovalOrdered'
  BY <1>6 DEF DesiredProxies, TypeOK, RemovalOrdered, Goto, procVars, callVars
<1>7. ASSUME NEW c \in Callers, DesiredProxiesFails(c) PROVE RemovalOrdered'
  BY <1>7 DEF DesiredProxiesFails, TypeOK, RemovalOrdered, Goto, procVars, callVars
<1>8. ASSUME NEW c \in Callers, DeleteRow(c) PROVE RemovalOrdered'
  BY <1>8 DEF DeleteRow, TypeOK, RemovalOrdered, Goto, procVars, callVars
<1>9. ASSUME NEW c \in Callers, EnsureWrite(c) PROVE RemovalOrdered'
  BY <1>9 DEF EnsureWrite, TypeOK, RemovalOrdered, Goto, procVars, callVars
<1>10. ASSUME NEW c \in Callers, EnsureWriteFails(c) PROVE RemovalOrdered'
  BY <1>10 DEF EnsureWriteFails, TypeOK, RemovalOrdered, Goto, procVars, callVars
<1>11. ASSUME NEW c \in Callers, EnsureCheck(c) PROVE RemovalOrdered'
  BY <1>11 DEF EnsureCheck, TypeOK, RemovalOrdered, Goto, procVars, callVars
<1>12. ASSUME NEW c \in Callers, EnsureReload(c) PROVE RemovalOrdered'
  BY <1>12 DEF EnsureReload, TypeOK, RemovalOrdered, Goto, procVars, callVars
<1>13. ASSUME NEW c \in Callers, StartProc(c) PROVE RemovalOrdered'
  BY <1>13 DEF StartProc, TypeOK, RemovalOrdered, Goto, procVars, callVars
<1>14. ASSUME NEW c \in Callers, StopTake(c) PROVE RemovalOrdered'
  BY <1>14 DEF StopTake, TypeOK, RemovalOrdered, Goto, procVars, callVars
<1>15. ASSUME NEW c \in Callers, StopCancel(c) PROVE RemovalOrdered'
  BY <1>15 DEF StopCancel, TypeOK, RemovalOrdered, Goto, procVars, callVars
<1>16. ASSUME NEW c \in Callers, StopWait(c) PROVE RemovalOrdered'
  BY <1>16 DEF StopWait, TypeOK, RemovalOrdered, Goto, procVars, callVars
<1>17. ASSUME NEW c \in Callers, StopRemove(c) PROVE RemovalOrdered'
  BY <1>17 DEF StopRemove, AfterStop, TypeOK, RemovalOrdered, Goto, procVars, callVars
<1>18. ASSUME NEW p \in Procs, SuperviseStart(p) PROVE RemovalOrdered'
  BY <1>18 DEF SuperviseStart, TypeOK, RemovalOrdered, Goto, procVars, callVars
<1>19. ASSUME NEW p \in Procs, FrpcServes(p) PROVE RemovalOrdered'
  BY <1>19 DEF FrpcServes, TypeOK, RemovalOrdered, Goto, procVars, callVars
<1>20. ASSUME NEW p \in Procs, SuperviseEnds(p) PROVE RemovalOrdered'
  BY <1>20 DEF SuperviseEnds, TypeOK, RemovalOrdered, Goto, procVars, callVars
<1>21. ASSUME NEW p \in Procs, FrpcExits(p) PROVE RemovalOrdered'
  BY <1>21 DEF FrpcExits, TypeOK, RemovalOrdered, Goto, procVars, callVars
<1>22. CASE UNCHANGED vars
  BY <1>22 DEF vars, TypeOK, RemovalOrdered, procVars, callVars
<1> QED
  BY <1>1, <1>2, <1>3, <1>4, <1>5, <1>6, <1>7, <1>8, <1>9, <1>10, <1>11, <1>12, <1>13,
      <1>14, <1>15, <1>16, <1>17, <1>18, <1>19, <1>20, <1>21, <1>22 DEF Next, Operation,
      Continue, Supervise

\* A deletion that is alone runs to its end before anything else starts.
LEMMA CleanStep ==
    ASSUME TypeOK, Alone, RecordKept, RemovalOrdered, RemovalCleans, [Next]_vars
    PROVE  RemovalCleans'
<1>1. ASSUME NEW c \in Callers, EditMapping(c) PROVE RemovalCleans'
  BY <1>1 DEF EditMapping, Begin, TypeOK, Alone, RecordKept, RemovalOrdered,
      RemovalCleans, AllIdle, Goto, procVars, callVars
<1>2. ASSUME NEW c \in Callers, Reconcile(c) PROVE RemovalCleans'
  BY <1>2 DEF Reconcile, Begin, TypeOK, Alone, RecordKept, RemovalOrdered, RemovalCleans,
      AllIdle, Goto, procVars, callVars
<1>3. ASSUME NEW c \in Callers, RotateToken(c) PROVE RemovalCleans'
  BY <1>3 DEF RotateToken, Begin, TypeOK, Alone, RecordKept, RemovalOrdered,
      RemovalCleans, AllIdle, Goto, procVars, callVars
<1>4. ASSUME NEW c \in Callers, TokenChanged(c) PROVE RemovalCleans'
  BY <1>4 DEF TokenChanged, Begin, TypeOK, Alone, RecordKept, RemovalOrdered,
      RemovalCleans, AllIdle, Goto, procVars, callVars
<1>5. ASSUME NEW c \in Callers, RemoveNode(c) PROVE RemovalCleans'
  BY <1>5 DEF RemoveNode, Begin, TypeOK, Alone, RecordKept, RemovalOrdered, RemovalCleans,
      AllIdle, Goto, procVars, callVars
<1>6. ASSUME NEW c \in Callers, DesiredProxies(c) PROVE RemovalCleans'
  BY <1>6 DEF DesiredProxies, TypeOK, Alone, RecordKept, RemovalOrdered, RemovalCleans,
      AllIdle, Goto, procVars, callVars
<1>7. ASSUME NEW c \in Callers, DesiredProxiesFails(c) PROVE RemovalCleans'
  BY <1>7 DEF DesiredProxiesFails, TypeOK, Alone, RecordKept, RemovalOrdered,
      RemovalCleans, AllIdle, Goto, procVars, callVars
<1>8. ASSUME NEW c \in Callers, DeleteRow(c) PROVE RemovalCleans'
  BY <1>8 DEF DeleteRow, TypeOK, Alone, RecordKept, RemovalOrdered, RemovalCleans,
      AllIdle, Goto, procVars, callVars
<1>9. ASSUME NEW c \in Callers, EnsureWrite(c) PROVE RemovalCleans'
  BY <1>9 DEF EnsureWrite, TypeOK, Alone, RecordKept, RemovalOrdered, RemovalCleans,
      AllIdle, Goto, procVars, callVars
<1>10. ASSUME NEW c \in Callers, EnsureWriteFails(c) PROVE RemovalCleans'
  BY <1>10 DEF EnsureWriteFails, TypeOK, Alone, RecordKept, RemovalOrdered, RemovalCleans,
      AllIdle, Goto, procVars, callVars
<1>11. ASSUME NEW c \in Callers, EnsureCheck(c) PROVE RemovalCleans'
  BY <1>11 DEF EnsureCheck, TypeOK, Alone, RecordKept, RemovalOrdered, RemovalCleans,
      AllIdle, Goto, procVars, callVars
<1>12. ASSUME NEW c \in Callers, EnsureReload(c) PROVE RemovalCleans'
  BY <1>12 DEF EnsureReload, TypeOK, Alone, RecordKept, RemovalOrdered, RemovalCleans,
      AllIdle, Goto, procVars, callVars
<1>13. ASSUME NEW c \in Callers, StartProc(c) PROVE RemovalCleans'
  BY <1>13 DEF StartProc, TypeOK, Alone, RecordKept, RemovalOrdered, RemovalCleans,
      AllIdle, Goto, procVars, callVars
<1>14. ASSUME NEW c \in Callers, StopTake(c) PROVE RemovalCleans'
  BY <1>14 DEF StopTake, TypeOK, Alone, RecordKept, RemovalOrdered, RemovalCleans,
      AllIdle, Goto, procVars, callVars
<1>15. ASSUME NEW c \in Callers, StopCancel(c) PROVE RemovalCleans'
  BY <1>15 DEF StopCancel, TypeOK, Alone, RecordKept, RemovalOrdered, RemovalCleans,
      AllIdle, Goto, procVars, callVars
<1>16. ASSUME NEW c \in Callers, StopWait(c) PROVE RemovalCleans'
  BY <1>16 DEF StopWait, TypeOK, Alone, RecordKept, RemovalOrdered, RemovalCleans,
      AllIdle, Goto, procVars, callVars
<1>17. ASSUME NEW c \in Callers, StopRemove(c) PROVE RemovalCleans'
  BY <1>17 DEF StopRemove, AfterStop, TypeOK, Alone, RecordKept, RemovalOrdered,
      RemovalCleans, AllIdle, Goto, procVars, callVars
<1>18. ASSUME NEW p \in Procs, SuperviseStart(p) PROVE RemovalCleans'
  BY <1>18 DEF SuperviseStart, TypeOK, Alone, RecordKept, RemovalOrdered, RemovalCleans,
      AllIdle, Goto, procVars, callVars
<1>19. ASSUME NEW p \in Procs, FrpcServes(p) PROVE RemovalCleans'
  BY <1>19 DEF FrpcServes, TypeOK, Alone, RecordKept, RemovalOrdered, RemovalCleans,
      AllIdle, Goto, procVars, callVars
<1>20. ASSUME NEW p \in Procs, SuperviseEnds(p) PROVE RemovalCleans'
  BY <1>20 DEF SuperviseEnds, TypeOK, Alone, RecordKept, RemovalOrdered, RemovalCleans,
      AllIdle, Goto, procVars, callVars
<1>21. ASSUME NEW p \in Procs, FrpcExits(p) PROVE RemovalCleans'
  BY <1>21 DEF FrpcExits, TypeOK, Alone, RecordKept, RemovalOrdered, RemovalCleans,
      AllIdle, Goto, procVars, callVars
<1>22. CASE UNCHANGED vars
  BY <1>22 DEF vars, TypeOK, Alone, RecordKept, RemovalOrdered, RemovalCleans, AllIdle,
      procVars, callVars
<1> QED
  BY <1>1, <1>2, <1>3, <1>4, <1>5, <1>6, <1>7, <1>8, <1>9, <1>10, <1>11, <1>12, <1>13,
      <1>14, <1>15, <1>16, <1>17, <1>18, <1>19, <1>20, <1>21, <1>22 DEF Next, Operation,
      Continue, Supervise

\* Alone, the file is written from the current mappings and deleted only with the
\* supervisor off the record (EnsureNode, StopNode).
LEMMA FileStep ==
    ASSUME TypeOK, Alone, RecordKept, ReadKept, RemovalOrdered, FileIsCurrent, [Next]_vars
    PROVE  FileIsCurrent'
<1> USE DEF NoProc
<1>1. ASSUME NEW c \in Callers, EditMapping(c) PROVE FileIsCurrent'
  BY <1>1 DEF EditMapping, Begin, TypeOK, Alone, RecordKept, ReadKept, RemovalOrdered,
      FileIsCurrent, AllIdle, Goto, procVars, callVars
<1>2. ASSUME NEW c \in Callers, Reconcile(c) PROVE FileIsCurrent'
  BY <1>2 DEF Reconcile, Begin, TypeOK, Alone, RecordKept, ReadKept, RemovalOrdered,
      FileIsCurrent, AllIdle, Goto, procVars, callVars
<1>3. ASSUME NEW c \in Callers, RotateToken(c) PROVE FileIsCurrent'
  BY <1>3 DEF RotateToken, Begin, TypeOK, Alone, RecordKept, ReadKept, RemovalOrdered,
      FileIsCurrent, AllIdle, Goto, procVars, callVars
<1>4. ASSUME NEW c \in Callers, TokenChanged(c) PROVE FileIsCurrent'
  BY <1>4 DEF TokenChanged, Begin, TypeOK, Alone, RecordKept, ReadKept, RemovalOrdered,
      FileIsCurrent, AllIdle, Goto, procVars, callVars
<1>5. ASSUME NEW c \in Callers, RemoveNode(c) PROVE FileIsCurrent'
  BY <1>5 DEF RemoveNode, Begin, TypeOK, Alone, RecordKept, ReadKept, RemovalOrdered,
      FileIsCurrent, AllIdle, Goto, procVars, callVars
<1>6. ASSUME NEW c \in Callers, DesiredProxies(c) PROVE FileIsCurrent'
  BY <1>6 DEF DesiredProxies, TypeOK, Alone, RecordKept, ReadKept, RemovalOrdered,
      FileIsCurrent, AllIdle, Goto, procVars, callVars
<1>7. ASSUME NEW c \in Callers, DesiredProxiesFails(c) PROVE FileIsCurrent'
  BY <1>7 DEF DesiredProxiesFails, TypeOK, Alone, RecordKept, ReadKept, RemovalOrdered,
      FileIsCurrent, AllIdle, Goto, procVars, callVars
<1>8. ASSUME NEW c \in Callers, DeleteRow(c) PROVE FileIsCurrent'
  BY <1>8 DEF DeleteRow, TypeOK, Alone, RecordKept, ReadKept, RemovalOrdered,
      FileIsCurrent, AllIdle, Goto, procVars, callVars
<1>9. ASSUME NEW c \in Callers, EnsureWrite(c) PROVE FileIsCurrent'
  BY <1>9 DEF EnsureWrite, TypeOK, Alone, RecordKept, ReadKept, RemovalOrdered,
      FileIsCurrent, AllIdle, Goto, procVars, callVars
<1>10. ASSUME NEW c \in Callers, EnsureWriteFails(c) PROVE FileIsCurrent'
  BY <1>10 DEF EnsureWriteFails, TypeOK, Alone, RecordKept, ReadKept, RemovalOrdered,
      FileIsCurrent, AllIdle, Goto, procVars, callVars
<1>11. ASSUME NEW c \in Callers, EnsureCheck(c) PROVE FileIsCurrent'
  BY <1>11 DEF EnsureCheck, TypeOK, Alone, RecordKept, ReadKept, RemovalOrdered,
      FileIsCurrent, AllIdle, Goto, procVars, callVars
<1>12. ASSUME NEW c \in Callers, EnsureReload(c) PROVE FileIsCurrent'
  BY <1>12 DEF EnsureReload, TypeOK, Alone, RecordKept, ReadKept, RemovalOrdered,
      FileIsCurrent, AllIdle, Goto, procVars, callVars
<1>13. ASSUME NEW c \in Callers, StartProc(c) PROVE FileIsCurrent'
  BY <1>13 DEF StartProc, TypeOK, Alone, RecordKept, ReadKept, RemovalOrdered,
      FileIsCurrent, AllIdle, Goto, procVars, callVars
<1>14. ASSUME NEW c \in Callers, StopTake(c) PROVE FileIsCurrent'
  BY <1>14 DEF StopTake, TypeOK, Alone, RecordKept, ReadKept, RemovalOrdered,
      FileIsCurrent, AllIdle, Goto, procVars, callVars
<1>15. ASSUME NEW c \in Callers, StopCancel(c) PROVE FileIsCurrent'
  BY <1>15 DEF StopCancel, TypeOK, Alone, RecordKept, ReadKept, RemovalOrdered,
      FileIsCurrent, AllIdle, Goto, procVars, callVars
<1>16. ASSUME NEW c \in Callers, StopWait(c) PROVE FileIsCurrent'
  BY <1>16 DEF StopWait, TypeOK, Alone, RecordKept, ReadKept, RemovalOrdered,
      FileIsCurrent, AllIdle, Goto, procVars, callVars
<1>17. ASSUME NEW c \in Callers, StopRemove(c) PROVE FileIsCurrent'
  BY <1>17 DEF StopRemove, AfterStop, TypeOK, Alone, RecordKept, ReadKept, RemovalOrdered,
      FileIsCurrent, AllIdle, Goto, procVars, callVars
<1>18. ASSUME NEW p \in Procs, SuperviseStart(p) PROVE FileIsCurrent'
  BY <1>18 DEF SuperviseStart, TypeOK, Alone, RecordKept, ReadKept, RemovalOrdered,
      FileIsCurrent, AllIdle, Goto, procVars, callVars
<1>19. ASSUME NEW p \in Procs, FrpcServes(p) PROVE FileIsCurrent'
  BY <1>19 DEF FrpcServes, TypeOK, Alone, RecordKept, ReadKept, RemovalOrdered,
      FileIsCurrent, AllIdle, Goto, procVars, callVars
<1>20. ASSUME NEW p \in Procs, SuperviseEnds(p) PROVE FileIsCurrent'
  BY <1>20 DEF SuperviseEnds, TypeOK, Alone, RecordKept, ReadKept, RemovalOrdered,
      FileIsCurrent, AllIdle, Goto, procVars, callVars
<1>21. ASSUME NEW p \in Procs, FrpcExits(p) PROVE FileIsCurrent'
  BY <1>21 DEF FrpcExits, TypeOK, Alone, RecordKept, ReadKept, RemovalOrdered,
      FileIsCurrent, AllIdle, Goto, procVars, callVars
<1>22. CASE UNCHANGED vars
  BY <1>22 DEF vars, TypeOK, Alone, RecordKept, ReadKept, RemovalOrdered, FileIsCurrent,
      AllIdle, procVars, callVars
<1> QED
  BY <1>1, <1>2, <1>3, <1>4, <1>5, <1>6, <1>7, <1>8, <1>9, <1>10, <1>11, <1>12, <1>13,
      <1>14, <1>15, <1>16, <1>17, <1>18, <1>19, <1>20, <1>21, <1>22 DEF Next, Operation,
      Continue, Supervise

\* frpc reads its file when it starts and when a reload reaches it (supervise,
\* reload).
LEMMA RunsStep ==
    ASSUME TypeOK, RecordIsLive, Alone, RecordKept, RemovalOrdered, RemovalCleans,
        RunsItsFile, [Next]_vars
    PROVE  RunsItsFile'
<1> USE DEF NoProc
<1>1. ASSUME NEW c \in Callers, EditMapping(c) PROVE RunsItsFile'
  BY <1>1 DEF EditMapping, Begin, TypeOK, RecordIsLive, Alone, RecordKept, RemovalOrdered,
      RemovalCleans, RunsItsFile, AllIdle, Alive, Doomed, Goto, procVars, callVars
<1>2. ASSUME NEW c \in Callers, Reconcile(c) PROVE RunsItsFile'
  BY <1>2 DEF Reconcile, Begin, TypeOK, RecordIsLive, Alone, RecordKept, RemovalOrdered,
      RemovalCleans, RunsItsFile, AllIdle, Alive, Doomed, Goto, procVars, callVars
<1>3. ASSUME NEW c \in Callers, RotateToken(c) PROVE RunsItsFile'
  BY <1>3 DEF RotateToken, Begin, TypeOK, RecordIsLive, Alone, RecordKept, RemovalOrdered,
      RemovalCleans, RunsItsFile, AllIdle, Alive, Doomed, Goto, procVars, callVars
<1>4. ASSUME NEW c \in Callers, TokenChanged(c) PROVE RunsItsFile'
  BY <1>4 DEF TokenChanged, Begin, TypeOK, RecordIsLive, Alone, RecordKept,
      RemovalOrdered, RemovalCleans, RunsItsFile, AllIdle, Alive, Doomed, Goto, procVars,
      callVars
<1>5. ASSUME NEW c \in Callers, RemoveNode(c) PROVE RunsItsFile'
  BY <1>5 DEF RemoveNode, Begin, TypeOK, RecordIsLive, Alone, RecordKept, RemovalOrdered,
      RemovalCleans, RunsItsFile, AllIdle, Alive, Doomed, Goto, procVars, callVars
<1>6. ASSUME NEW c \in Callers, DesiredProxies(c) PROVE RunsItsFile'
  BY <1>6 DEF DesiredProxies, TypeOK, RecordIsLive, Alone, RecordKept, RemovalOrdered,
      RemovalCleans, RunsItsFile, AllIdle, Alive, Doomed, Goto, procVars, callVars
<1>7. ASSUME NEW c \in Callers, DesiredProxiesFails(c) PROVE RunsItsFile'
  BY <1>7 DEF DesiredProxiesFails, TypeOK, RecordIsLive, Alone, RecordKept,
      RemovalOrdered, RemovalCleans, RunsItsFile, AllIdle, Alive, Doomed, Goto, procVars,
      callVars
<1>8. ASSUME NEW c \in Callers, DeleteRow(c) PROVE RunsItsFile'
  BY <1>8 DEF DeleteRow, TypeOK, RecordIsLive, Alone, RecordKept, RemovalOrdered,
      RemovalCleans, RunsItsFile, AllIdle, Alive, Doomed, Goto, procVars, callVars
<1>9. ASSUME NEW c \in Callers, EnsureWrite(c) PROVE RunsItsFile'
  BY <1>9 DEF EnsureWrite, TypeOK, RecordIsLive, Alone, RecordKept, RemovalOrdered,
      RemovalCleans, RunsItsFile, AllIdle, Alive, Doomed, Goto, procVars, callVars
<1>10. ASSUME NEW c \in Callers, EnsureWriteFails(c) PROVE RunsItsFile'
  BY <1>10 DEF EnsureWriteFails, TypeOK, RecordIsLive, Alone, RecordKept, RemovalOrdered,
      RemovalCleans, RunsItsFile, AllIdle, Alive, Doomed, Goto, procVars, callVars
<1>11. ASSUME NEW c \in Callers, EnsureCheck(c) PROVE RunsItsFile'
  BY <1>11 DEF EnsureCheck, TypeOK, RecordIsLive, Alone, RecordKept, RemovalOrdered,
      RemovalCleans, RunsItsFile, AllIdle, Alive, Doomed, Goto, procVars, callVars
<1>12. ASSUME NEW c \in Callers, EnsureReload(c) PROVE RunsItsFile'
  BY <1>12 DEF EnsureReload, TypeOK, RecordIsLive, Alone, RecordKept, RemovalOrdered,
      RemovalCleans, RunsItsFile, AllIdle, Alive, Doomed, Goto, procVars, callVars
<1>13. ASSUME NEW c \in Callers, StartProc(c) PROVE RunsItsFile'
  BY <1>13 DEF StartProc, TypeOK, RecordIsLive, Alone, RecordKept, RemovalOrdered,
      RemovalCleans, RunsItsFile, AllIdle, Alive, Doomed, Goto, procVars, callVars
<1>14. ASSUME NEW c \in Callers, StopTake(c) PROVE RunsItsFile'
  BY <1>14 DEF StopTake, TypeOK, RecordIsLive, Alone, RecordKept, RemovalOrdered,
      RemovalCleans, RunsItsFile, AllIdle, Alive, Doomed, Goto, procVars, callVars
<1>15. ASSUME NEW c \in Callers, StopCancel(c) PROVE RunsItsFile'
  BY <1>15 DEF StopCancel, TypeOK, RecordIsLive, Alone, RecordKept, RemovalOrdered,
      RemovalCleans, RunsItsFile, AllIdle, Alive, Doomed, Goto, procVars, callVars
<1>16. ASSUME NEW c \in Callers, StopWait(c) PROVE RunsItsFile'
  BY <1>16 DEF StopWait, TypeOK, RecordIsLive, Alone, RecordKept, RemovalOrdered,
      RemovalCleans, RunsItsFile, AllIdle, Alive, Doomed, Goto, procVars, callVars
<1>17. ASSUME NEW c \in Callers, StopRemove(c) PROVE RunsItsFile'
  BY <1>17 DEF StopRemove, AfterStop, TypeOK, RecordIsLive, Alone, RecordKept,
      RemovalOrdered, RemovalCleans, RunsItsFile, AllIdle, Alive, Doomed, Goto, procVars,
      callVars
<1>18. ASSUME NEW p \in Procs, SuperviseStart(p) PROVE RunsItsFile'
  BY <1>18 DEF SuperviseStart, TypeOK, RecordIsLive, Alone, RecordKept, RemovalOrdered,
      RemovalCleans, RunsItsFile, AllIdle, Alive, Doomed, Goto, procVars, callVars
<1>19. ASSUME NEW p \in Procs, FrpcServes(p) PROVE RunsItsFile'
  BY <1>19 DEF FrpcServes, TypeOK, RecordIsLive, Alone, RecordKept, RemovalOrdered,
      RemovalCleans, RunsItsFile, AllIdle, Alive, Doomed, Goto, procVars, callVars
<1>20. ASSUME NEW p \in Procs, SuperviseEnds(p) PROVE RunsItsFile'
  BY <1>20 DEF SuperviseEnds, TypeOK, RecordIsLive, Alone, RecordKept, RemovalOrdered,
      RemovalCleans, RunsItsFile, AllIdle, Alive, Doomed, Goto, procVars, callVars
<1>21. ASSUME NEW p \in Procs, FrpcExits(p) PROVE RunsItsFile'
  BY <1>21 DEF FrpcExits, TypeOK, RecordIsLive, Alone, RecordKept, RemovalOrdered,
      RemovalCleans, RunsItsFile, AllIdle, Alive, Doomed, Goto, procVars, callVars
<1>22. CASE UNCHANGED vars
  BY <1>22 DEF vars, TypeOK, RecordIsLive, Alone, RecordKept, RemovalOrdered,
      RemovalCleans, RunsItsFile, AllIdle, Alive, Doomed, procVars, callVars
<1> QED
  BY <1>1, <1>2, <1>3, <1>4, <1>5, <1>6, <1>7, <1>8, <1>9, <1>10, <1>11, <1>12, <1>13,
      <1>14, <1>15, <1>16, <1>17, <1>18, <1>19, <1>20, <1>21, <1>22 DEF Next, Operation,
      Continue, Supervise

----------------------------------------------------------------------------
\* A manager that supervises nothing satisfies the invariant (NewFrpcManager).
LEMMA FrpcInit == Init => FrpcInv
<1> SUFFICES ASSUME Init PROVE FrpcInv
  OBVIOUS
<1>1. /\ row \in BOOLEAN /\ managed \in BOOLEAN /\ missed \in BOOLEAN /\ skipped \in BOOLEAN
      /\ overlapped \in BOOLEAN /\ doubled \in BOOLEAN /\ row /\ managed
  BY Zenon DEF Init
<1>2. TypeOK
  BY <1>1, FrpcAssumption DEF Init, TypeOK, Procs, NoProc, Revisions, NoFile, Broken
<1>3. CancelledWereBorn /\ VictimsInHand /\ RecordIsLive
  BY DEF Init, CancelledWereBorn, VictimsInHand, RecordIsLive, Doomed, NoProc
<1>4. Alone /\ OneSupervisor /\ RecordKept /\ ReadKept
  BY DEF Init, Alone, OneSupervisor, RecordKept, ReadKept, Alive
<1>5. FileIsCurrent /\ RunsItsFile
  BY DEF Init, FileIsCurrent, RunsItsFile, NoProc
<1>6. RemovalOrdered /\ RemovalCleans
  BY <1>1 DEF Init, RemovalOrdered, RemovalCleans
<1> QED
  BY <1>2, <1>3, <1>4, <1>5, <1>6 DEF FrpcInv, RecordInv

\* The invariant of the manager, whatever overlaps.
THEOREM FrpcInvariance == Spec => []FrpcInv
<1>1. Init => FrpcInv
  BY FrpcInit
<1>2. FrpcInv /\ [Next]_vars => FrpcInv'
  <2> SUFFICES ASSUME FrpcInv, [Next]_vars PROVE FrpcInv'
    OBVIOUS
  <2>1. RecordInv'
    BY TypeStep, RecordStep DEF FrpcInv, RecordInv
  <2>2. Alone' /\ RecordKept' /\ OneSupervisor'
    BY AloneStep, KeptStep, SupervisorStep DEF FrpcInv, RecordInv
  <2>3. ReadKept' /\ RemovalOrdered' /\ RemovalCleans'
    BY ReadStep, OrderStep, CleanStep DEF FrpcInv, RecordInv
  <2>4. FileIsCurrent' /\ RunsItsFile'
    BY FileStep, RunsStep DEF FrpcInv, RecordInv
  <2> QED
    BY <2>1, <2>2, <2>3, <2>4 DEF FrpcInv
<1> QED
  BY <1>1, <1>2, PTL DEF Spec

\* Type correctness of the manager's model.
THEOREM FrpcTypeCorrect == Spec => []TypeOK
<1>1. FrpcInv => TypeOK
  BY DEF FrpcInv, RecordInv
<1> QED
  BY <1>1, FrpcInvariance, PTL

\* EnsureNode may take the record for a running frpc (frpcmgr.go, the procs map).
THEOREM RecordedIsLive == Spec => []RecordIsLive
<1>1. FrpcInv => RecordIsLive
  BY DEF FrpcInv, RecordInv
<1> QED
  BY <1>1, FrpcInvariance, PTL

\* Only two EnsureNode calls that overlap leave a supervisor that StopNode cannot
\* find (frpcmgr.go: startProc, StopNode).
THEOREM NoneLost == Spec => []OneSupervisor
<1>1. FrpcInv => OneSupervisor
  BY DEF FrpcInv
<1> QED
  BY <1>1, FrpcInvariance, PTL

\* Whatever overlapped before, an operation that runs alone brings the file frpc is
\* restarted from up to date (SyncNode, reconcile, RotateFrpsToken).
THEOREM FileMadeCurrent == Spec => []FileIsCurrent
<1>1. FrpcInv => FileIsCurrent
  BY DEF FrpcInv
<1> QED
  BY <1>1, FrpcInvariance, PTL

\* Whatever overlapped before, an operation that runs alone leaves the frpc on
\* record with what its file says, unless the reload did not reach it (EnsureNode).
THEOREM ReloadsApplied == Spec => []ReloadApplied
<1>1. FrpcInv => ReloadApplied
  BY DEF FrpcInv, RunsItsFile, ReloadApplied
<1> QED
  BY <1>1, FrpcInvariance, PTL

\* Whatever overlapped before, a deletion that runs alone leaves neither the file
\* nor a frpc that can still be found (NodeManager.Remove).
THEOREM RemovedAreGone == Spec => []RemovedIsGone
<1>1. FrpcInv => RemovedIsGone
  <2> SUFFICES ASSUME FrpcInv, AllIdle, ~overlapped, ~doubled, ~row
      PROVE file = NoFile /\ Alive \subseteq cancelled
    BY DEF RemovedIsGone
  <2>1. file = NoFile /\ reg = NoProc
    BY DEF FrpcInv, RemovalOrdered, RemovalCleans, AllIdle
  <2>2. \A p \in Alive \ Doomed : p = NoProc
    BY <2>1 DEF FrpcInv, OneSupervisor
  <2>3. \A p \in Alive : p # NoProc
    BY FrpcAssumption DEF Alive, Procs, NoProc
  <2>4. \A c \in Callers : vic[c] = NoProc
    BY DEF FrpcInv, RecordInv, VictimsInHand, AllIdle
  <2> QED
    BY <2>1, <2>2, <2>3, <2>4 DEF Doomed
<1> QED
  BY <1>1, FrpcInvariance, PTL
=============================================================================
