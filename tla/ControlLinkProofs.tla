------------------------- MODULE ControlLinkProofs -------------------------
(***************************************************************************)
(* OwnReply, TokensAgree and FileHasToken for every number of callers,     *)
(* sessions and tokens.                                                    *)
(*                                                                         *)
(* As long as rotations did not cross, one at most is under way, what the  *)
(* agent has still to do is its request, and once it is answered the agent *)
(* has its token (OneRotation, Answered); outside a rotation, the panel    *)
(* has the agent's token or brings it with the hello_ack (Agreement).  As  *)
(* long as no writer of frpc's file met a rotation either, the handshake   *)
(* finds everything at rest (Handshake), and whoever writes the file next  *)
(* holds the token of the moment (Unraced).                                *)
(***************************************************************************)
EXTENDS ControlLink, SequenceTheorems, TLAPS

USE LinkAssumption DEF Sessions, Tokens, None

\* Queueing one more message keeps a family of sets of messages one.
LEMMA AddMessage ==
    ASSUME NEW D, NEW S, NEW f \in [D -> SUBSET S], NEW d \in D, NEW m \in S
    PROVE  [f EXCEPT ![d] = @ \cup {m}] \in [D -> SUBSET S]
   OBVIOUS

\* Nothing is left of a queue of one.
LEMMA OnlyMessage ==
    ASSUME NEW S, NEW q \in Seq(S), Len(q) = 1
    PROVE  Head(q) \in S /\ Tail(q) = <<>>
 <1>1. q # <<>>
   OBVIOUS
 <1>2. Head(q) \in S /\ Tail(q) \in Seq(S) /\ Len(Tail(q)) = 0
   BY <1>1, HeadTailProperties
 <1>. QED
   BY <1>2, EmptySeq

\* A step of the panel or the agent keeps the types of ControlLink.
LEMMA TypeStep == TypeOK /\ SessionNumbered /\ [Next]_vars => TypeOK'
 <1>. SUFFICES ASSUME TypeOK, SessionNumbered, [Next]_vars
               PROVE  TypeOK'
   OBVIOUS
 <1>. USE DEF TypeOK, agentVars, linkVars, callerVars, frpcVars, overlapVars
 <1>1. CASE Dial
   <2>1. ses' \in 0..MaxSessions /\ open' \subseteq Sessions
     BY <1>1 DEF Dial
   <2>2. snapTok' \in Tokens /\ drv' = "hello"
     BY <1>1 DEF Dial
   <2>. QED
     BY <1>1, <2>1, <2>2 DEF Dial
 <1>2. CASE HelloAck
   BY <1>2 DEF HelloAck
 <1>3. CASE LearnToken
   BY <1>3 DEF LearnToken
 <1>4. CASE GoUp
   BY <1>4 DEF GoUp
 <1>5. CASE Disconnect
   BY <1>5 DEF Disconnect
 <1>6. CASE Handle
   <2>1. PICK r \in outbox[ses] :
            /\ outbox' = [outbox EXCEPT ![ses] = @ \ {r}]
            /\ chan' = [c \in Callers |->
                           IF AnsweredBy(c, r[1]) /\ chan[c] = "empty" THEN r[2] ELSE chan[c]]
     BY <1>6 DEF Handle
   <2>2. r[2] \in {"ok", "failed"}
     BY <1>6 DEF Handle, SessionNumbered
   <2>3. chan' \in [Callers -> {"empty", "ok", "failed"}]
     BY <2>1, <2>2
   <2>4. outbox' \in [Sessions -> SUBSET (Tokens \X {"ok", "failed"})]
     BY <2>1
   <2>. QED
     BY <1>6, <2>3, <2>4 DEF Handle
 <1>7. ASSUME NEW s \in Sessions, ReconcileRead(s) PROVE TypeOK'
   <2>1. CASE rec' = [rec EXCEPT ![s] = "ensure"] /\ recTok' = [recTok EXCEPT ![s] = nodeTok]
     BY <1>7, <2>1 DEF ReconcileRead
   <2>2. CASE rec' = [rec EXCEPT ![s] = "none"] /\ UNCHANGED recTok
     BY <1>7, <2>2 DEF ReconcileRead
   <2>. QED
     BY <1>7, <2>1, <2>2 DEF ReconcileRead
 <1>8. ASSUME NEW s \in Sessions, ReconcileEnsure(s) PROVE TypeOK'
   BY <1>8 DEF ReconcileEnsure
 <1>9. ASSUME NEW s \in Sessions, DispatchRestart(s) PROVE TypeOK'
   <2>1. Head(inbox[s]) \in Tokens /\ Tail(inbox[s]) \in Seq(Tokens)
     BY <1>9 DEF DispatchRestart
   <2>2. inbox' \in [Sessions -> Seq(Tokens)]
     BY <1>9, <2>1 DEF DispatchRestart
   <2>3. job' \in [Sessions -> Tokens \cup {None}] /\ cfgTok' \in Tokens
     BY <1>9, <2>1 DEF DispatchRestart
   <2>. QED
     BY <1>9, <2>2, <2>3 DEF DispatchRestart
 <1>10. ASSUME NEW s \in Sessions, RestartDone(s) PROVE TypeOK'
   <2>1. job[s] \in Tokens /\ <<job[s], "ok">> \in Tokens \X {"ok", "failed"}
     BY <1>10 DEF RestartDone
   <2>2. outbox' \in [Sessions -> SUBSET (Tokens \X {"ok", "failed"})]
     <3>. DEFINE Replies == Tokens \X {"ok", "failed"}
     <3>1. \/ outbox' = [outbox EXCEPT ![s] = @ \cup {<<job[s], "ok">>}]
           \/ outbox' = outbox
       BY <1>10 DEF RestartDone, Reply
     <3>2. outbox \in [Sessions -> SUBSET Replies] /\ <<job[s], "ok">> \in Replies
       BY <2>1
     <3>. HIDE DEF Replies
     <3>3. ASSUME NEW m \in Replies
           PROVE  [outbox EXCEPT ![s] = @ \cup {m}] \in [Sessions -> SUBSET Replies]
       BY <3>2, AddMessage, Zenon
     <3>4. [outbox EXCEPT ![s] = @ \cup {<<job[s], "ok">>}] \in [Sessions -> SUBSET Replies]
       BY <3>2, <3>3, Zenon
     <3>5. outbox' \in [Sessions -> SUBSET Replies]
       <4>. HIDE DEF TypeOK
       <4>. QED
         BY <3>1, <3>2, <3>4
     <3>. QED
       BY <3>5 DEF Replies
   <2>3. job' \in [Sessions -> Tokens \cup {None}] /\ applied' \subseteq Tokens
     BY <1>10, <2>1 DEF RestartDone
   <2>. QED
     BY <1>10, <2>2, <2>3 DEF RestartDone
 <1>11. ASSUME NEW s \in Sessions, RestartFails(s) PROVE TypeOK'
   <2>1. job[s] \in Tokens /\ <<job[s], "failed">> \in Tokens \X {"ok", "failed"}
     BY <1>11 DEF RestartFails
   <2>2. outbox' \in [Sessions -> SUBSET (Tokens \X {"ok", "failed"})]
     <3>. DEFINE Replies == Tokens \X {"ok", "failed"}
     <3>1. \/ outbox' = [outbox EXCEPT ![s] = @ \cup {<<job[s], "failed">>}]
           \/ outbox' = outbox
       BY <1>11 DEF RestartFails, Reply
     <3>2. outbox \in [Sessions -> SUBSET Replies] /\ <<job[s], "failed">> \in Replies
       BY <2>1
     <3>. HIDE DEF Replies
     <3>3. ASSUME NEW m \in Replies
           PROVE  [outbox EXCEPT ![s] = @ \cup {m}] \in [Sessions -> SUBSET Replies]
       BY <3>2, AddMessage, Zenon
     <3>4. [outbox EXCEPT ![s] = @ \cup {<<job[s], "failed">>}] \in [Sessions -> SUBSET Replies]
       BY <3>2, <3>3, Zenon
     <3>5. outbox' \in [Sessions -> SUBSET Replies]
       <4>. HIDE DEF TypeOK
       <4>. QED
         BY <3>1, <3>2, <3>4
     <3>. QED
       BY <3>5 DEF Replies
   <2>3. job' \in [Sessions -> Tokens \cup {None}] /\ applied' \subseteq Tokens
     BY <1>11, <2>1 DEF RestartFails
   <2>. QED
     BY <1>11, <2>2, <2>3 DEF RestartFails
 <1>12. ASSUME NEW s \in Sessions, ReaderEnds(s) PROVE TypeOK'
   BY <1>12 DEF ReaderEnds
 <1>13. ASSUME NEW c \in Callers, RotateSend(c) PROVE TypeOK'
   <2>0. ses \in Sessions
     BY <1>13 DEF RotateSend, SessionNumbered
   <2>1. nextTok \in Tokens /\ inbox[ses] \in Seq(Tokens)
     <3>1. nextTok <= MaxToken /\ nextTok \in 2..(MaxToken + 1)
       BY <1>13 DEF RotateSend
     <3>2. inbox \in [Sessions -> Seq(Tokens)]
       OBVIOUS
     <3>. HIDE DEF TypeOK
     <3>. QED
       BY <2>0, <3>1, <3>2
   <2>2. Append(inbox[ses], nextTok) \in Seq(Tokens)
     BY <2>1
   <2>3. inbox' \in [Sessions -> Seq(Tokens)]
     BY <1>13, <2>2 DEF RotateSend
   <2>4. crossed' \in BOOLEAN /\ raced' \in BOOLEAN
     BY <1>13 DEF RotateSend
   <2>5. /\ tok' \in [Callers -> Tokens]
         /\ chan' \in [Callers -> {"empty", "ok", "failed"}]
         /\ nextTok' \in 2..(MaxToken + 1)
     BY <1>13, <2>1 DEF RotateSend
   <2>. QED
     BY <1>13, <2>3, <2>4, <2>5 DEF RotateSend
 <1>14. ASSUME NEW c \in Callers, SyncRead(c) PROVE TypeOK'
   BY <1>14 DEF SyncRead
 <1>15. ASSUME NEW c \in Callers, RotateReply(c) PROVE TypeOK'
   BY <1>15 DEF RotateReply
 <1>16. ASSUME NEW c \in Callers, RotateTimeout(c) PROVE TypeOK'
   BY <1>16 DEF RotateTimeout
 <1>17. ASSUME NEW c \in Callers, RotateStore(c) PROVE TypeOK'
   <2>0. tok[c] \in Tokens /\ dbTok \in Tokens
     BY <1>17
   <2>1. dbTok' \in Tokens
     BY <1>17, <2>0 DEF RotateStore
   <2>3. crossed' \in BOOLEAN
     BY <1>17, Zenon DEF RotateStore
   <2>2. pc' \in [Callers -> {"idle", "wait", "store", "set", "restart", "sync", "meta"}]
     BY <1>17 DEF RotateStore
   <2>. QED
     BY <1>17, <2>1, <2>2, <2>3 DEF RotateStore
 <1>18. ASSUME NEW c \in Callers, RotateSet(c) PROVE TypeOK'
   BY <1>18 DEF RotateSet
 <1>19. ASSUME NEW c \in Callers, RotateRestart(c) PROVE TypeOK'
   <2>0. tok[c] \in Tokens
     OBVIOUS
   <2>1. file' \in Tokens \cup {None} /\ unserved' \in BOOLEAN
     BY <1>19, <2>0, Zenon DEF RotateRestart
   <2>2. pc' \in [Callers -> {"idle", "wait", "store", "set", "restart", "sync", "meta"}]
     BY <1>19 DEF RotateRestart
   <2>. QED
     BY <1>19, <2>1, <2>2 DEF RotateRestart
 <1>20. ASSUME NEW c \in Callers, SyncEnsure(c) PROVE TypeOK'
   <2>1. file' \in Tokens \cup {None}
     BY <1>20 DEF SyncEnsure
   <2>. QED
     BY <1>20, <2>1 DEF SyncEnsure
 <1>21. ASSUME NEW c \in Callers, MetaRead(c) PROVE TypeOK'
   BY <1>21 DEF MetaRead
 <1>22. ASSUME NEW c \in Callers, MetaSet(c) PROVE TypeOK'
   <2>1. nodeTok' \in Tokens /\ crossed' \in BOOLEAN
     BY <1>22 DEF MetaSet
   <2>. QED
     BY <1>22, <2>1 DEF MetaSet
 <1>23. CASE UNCHANGED vars
   BY <1>23 DEF vars
 <1>. QED
   BY <1>1, <1>2, <1>3, <1>4, <1>5, <1>6, <1>7, <1>8, <1>9, <1>10, <1>11, <1>12,
      <1>13, <1>14, <1>15, <1>16, <1>17, <1>18, <1>19, <1>20, <1>21, <1>22, <1>23
      DEF Next, Link, Session, Proceed

\* Every step keeps what is known of replies and of the callers they reach.
LEMMA InvariantStep == LinkInv /\ [Next]_vars => LinkInv'
 <1>. SUFFICES ASSUME LinkInv, [Next]_vars
               PROVE  SessionNumbered' /\ RepliesTrue' /\ ChannelsTrue' /\ OwnReply'
   BY TypeStep DEF LinkInv
 <1>. DEFINE Rest == SessionNumbered /\ RepliesTrue /\ ChannelsTrue /\ OwnReply
 <1>. SUFFICES Rest'
   OBVIOUS
 <1>. USE DEF LinkInv, TypeOK, SessionNumbered, RepliesTrue, ChannelsTrue, OwnReply,
              agentVars, linkVars, callerVars, frpcVars, overlapVars
 <1>1. CASE Dial
   BY <1>1 DEF Dial
 <1>2. CASE HelloAck
   BY <1>2 DEF HelloAck
 <1>3. CASE LearnToken
   BY <1>3 DEF LearnToken
 <1>4. CASE GoUp
   BY <1>4 DEF GoUp
 <1>5. CASE Disconnect
   BY <1>5 DEF Disconnect
 <1>6. CASE Handle
   BY <1>6 DEF Handle, AnsweredBy
 <1>7. ASSUME NEW s \in Sessions, ReconcileRead(s) PROVE Rest'
   BY <1>7 DEF ReconcileRead
 <1>8. ASSUME NEW s \in Sessions, ReconcileEnsure(s) PROVE Rest'
   BY <1>8 DEF ReconcileEnsure
 <1>9. ASSUME NEW s \in Sessions, DispatchRestart(s) PROVE Rest'
   BY <1>9 DEF DispatchRestart
 <1>10. ASSUME NEW s \in Sessions, RestartDone(s) PROVE Rest'
   <2>0. \A q \in Sessions : outbox'[q] \subseteq outbox[q] \cup {<<job[s], "ok">>}
     BY <1>10, Zenon DEF RestartDone, Reply
   <2>1. \A q \in Sessions, t \in Tokens :
            <<t, "ok">> \in outbox'[q] => <<t, "ok">> \in outbox[q] \/ t = job[s]
     BY <2>0
   <2>2. applied' = applied \cup {job[s]}
     BY <1>10 DEF RestartDone
   <2>3. RepliesTrue'
     BY <2>1, <2>2
   <2>. QED
     BY <1>10, <2>2, <2>3 DEF RestartDone
 <1>11. ASSUME NEW s \in Sessions, RestartFails(s) PROVE Rest'
   <2>0. \A q \in Sessions : outbox'[q] \subseteq outbox[q] \cup {<<job[s], "failed">>}
     BY <1>11, Zenon DEF RestartFails, Reply
   <2>1. \A q \in Sessions, t \in Tokens :
            <<t, "ok">> \in outbox'[q] => <<t, "ok">> \in outbox[q]
     BY <2>0
   <2>2. RepliesTrue'
     BY <1>11, <2>1 DEF RestartFails
   <2>. QED
     BY <1>11, <2>2 DEF RestartFails
 <1>12. ASSUME NEW s \in Sessions, ReaderEnds(s) PROVE Rest'
   BY <1>12 DEF ReaderEnds
 <1>13. ASSUME NEW c \in Callers, RotateSend(c) PROVE Rest'
   BY <1>13 DEF RotateSend
 <1>14. ASSUME NEW c \in Callers, SyncRead(c) PROVE Rest'
   BY <1>14 DEF SyncRead
 <1>15. ASSUME NEW c \in Callers, RotateReply(c) PROVE Rest'
   BY <1>15 DEF RotateReply
 <1>16. ASSUME NEW c \in Callers, RotateTimeout(c) PROVE Rest'
   BY <1>16 DEF RotateTimeout
 <1>17. ASSUME NEW c \in Callers, RotateStore(c) PROVE Rest'
   BY <1>17 DEF RotateStore
 <1>18. ASSUME NEW c \in Callers, RotateSet(c) PROVE Rest'
   BY <1>18 DEF RotateSet
 <1>19. ASSUME NEW c \in Callers, RotateRestart(c) PROVE Rest'
   BY <1>19 DEF RotateRestart
 <1>20. ASSUME NEW c \in Callers, SyncEnsure(c) PROVE Rest'
   BY <1>20 DEF SyncEnsure
 <1>21. ASSUME NEW c \in Callers, MetaRead(c) PROVE Rest'
   BY <1>21 DEF MetaRead
 <1>22. ASSUME NEW c \in Callers, MetaSet(c) PROVE Rest'
   BY <1>22 DEF MetaSet
 <1>23. CASE UNCHANGED vars
   BY <1>23 DEF vars
 <1>. QED
   BY <1>1, <1>2, <1>3, <1>4, <1>5, <1>6, <1>7, <1>8, <1>9, <1>10, <1>11, <1>12,
      <1>13, <1>14, <1>15, <1>16, <1>17, <1>18, <1>19, <1>20, <1>21, <1>22, <1>23
      DEF Next, Link, Session, Proceed

\* A panel that was restarted satisfies the invariant.
LEMMA InvariantInit == Init => LinkInv
 <1>. SUFFICES ASSUME Init PROVE LinkInv
   OBVIOUS
 <1>1. <<>> \in Seq(Tokens)
   OBVIOUS
 <1>2. inbox \in [Sessions -> Seq(Tokens)]
   BY <1>1 DEF Init
 <1>3. TypeOK
   <2>1. /\ 1 \in Tokens /\ 0 \in 0..MaxSessions /\ 2 \in 2..(MaxToken + 1)
     OBVIOUS
   <2>2. outbox \in [Sessions -> SUBSET (Tokens \X {"ok", "failed"})]
     BY DEF Init
   <2>3. job \in [Sessions -> Tokens \cup {None}]
     BY DEF Init
   <2>. QED
     BY <1>2, <2>1, <2>2, <2>3 DEF Init, TypeOK
 <1>. QED
   BY <1>3 DEF Init, LinkInv, SessionNumbered, RepliesTrue, ChannelsTrue, OwnReply

\* LinkInv holds in every reachable state of the control link.
THEOREM LinkInvariance == Spec => []LinkInv
   BY InvariantInit, InvariantStep, PTL DEF Spec

\* Every variable of the panel and the agent keeps its type.
THEOREM LinkTypeCorrect == Spec => []TypeOK
 <1>1. LinkInv => TypeOK
   BY DEF LinkInv
 <1>. QED
   BY <1>1, LinkInvariance, PTL

\* RotateFrpsToken stores and uses a new token only if the agent restarted frps
\* for this very request, whatever is lost, late or answered meanwhile.
THEOREM OnlyOwnReplies == Spec => []OwnReply
 <1>1. LinkInv => OwnReply
   BY DEF LinkInv
 <1>. QED
   BY <1>1, LinkInvariance, PTL

----------------------------------------------------------------------------
(***************************************************************************)
(* The inductive invariant behind TokensAgree.                             *)
(***************************************************************************)

\* A token in use was made up by an earlier request.
TokensUsed ==
    \A s \in Sessions :
        /\ job[s] < nextTok
        /\ \A i \in 1..Len(inbox[s]) : inbox[s][i] < nextTok
        /\ \A t \in Tokens, res \in {"ok", "failed"} : <<t, res>> \in outbox[s] => t < nextTok

InRotation(c) == pc[c] \in {"wait", "store", "set", "restart"}

\* The caller knows that the agent has carried its rotation out.
Confirmed(c) == pc[c] \in {"store", "set", "restart"} \/ (pc[c] = "wait" /\ chan[c] = "ok")

Busy(s) == job[s] # None \/ inbox[s] # <<>>

OneRotation ==
    /\ \A c, d \in Callers : InRotation(c) /\ InRotation(d) => c = d
    /\ \A s, u \in Sessions : Busy(s) /\ Busy(u) => s = u
    /\ \A s \in Sessions :
        /\ Busy(s) => Rotating
        /\ job[s] # None => inbox[s] = <<>> /\ cfgTok = job[s]
        /\ inbox[s] # <<>> => Len(inbox[s]) = 1

\* A rotation that was answered, and one whose answer is on its way.
Answered ==
    /\ \A c \in Callers : Confirmed(c) => AgentIdle /\ cfgTok = tok[c]
    /\ \A s \in Sessions, c \in Callers :
         pc[c] = "wait" /\ <<tok[c], "ok">> \in outbox[s] => AgentIdle /\ cfgTok = tok[c]

Agreement ==
    /\ drv = "up" /\ ~Rotating => nodeTok = cfgTok
    /\ drv = "up" => \A c \in Callers : pc[c] = "restart" => nodeTok = cfgTok
    /\ drv \in {"ack", "learned"} /\ ~Rotating => ackTok = cfgTok
    /\ drv \in {"ack", "learned"} => \A c \in Callers : Confirmed(c) => ackTok = cfgTok

Uncrossed == ~crossed => OneRotation /\ Answered /\ Agreement

\* Tokens are made up in order.
LEMMA UsedStep ==
    ASSUME TypeOK, SessionNumbered, TokensUsed, [Next]_vars
    PROVE  TokensUsed'
 <1>0. nextTok \in Nat /\ \A s \in Sessions : inbox[s] \in Seq(Tokens) /\ job[s] \in Nat
   <2>1. \A s \in Sessions : job[s] \in Tokens \cup {None}
     BY DEF TypeOK
   <2>2. nextTok \in Nat /\ \A s \in Sessions : inbox[s] \in Seq(Tokens)
     BY DEF TypeOK
   <2>. QED
     BY <2>1, <2>2
 <1>a. ASSUME nextTok' = nextTok,
              \A s \in Sessions : job'[s] = job[s],
              \A s \in Sessions : inbox'[s] = inbox[s],
              \A s \in Sessions : outbox'[s] \subseteq outbox[s]
       PROVE  TokensUsed'
   BY <1>a DEF TokensUsed
 <1>1. CASE Dial \/ HelloAck \/ LearnToken \/ GoUp
   BY <1>1, <1>a DEF Dial, HelloAck, LearnToken, GoUp, agentVars, callerVars
 <1>2. CASE Disconnect
   BY <1>2, <1>a DEF Disconnect, agentVars, callerVars, TypeOK
 <1>3. CASE Handle
   <2>1. \A s \in Sessions : outbox'[s] \subseteq outbox[s]
     BY <1>3 DEF Handle, TypeOK
   <2>. QED
     BY <1>3, <1>a, <2>1 DEF Handle, agentVars
 <1>4. ASSUME NEW s \in Sessions, ReconcileRead(s) \/ ReconcileEnsure(s) PROVE TokensUsed'
   BY <1>4, <1>a DEF ReconcileRead, ReconcileEnsure, agentVars, callerVars
 <1>5. ASSUME NEW s \in Sessions, DispatchRestart(s) PROVE TokensUsed'
   <2>1. /\ inbox[s] # <<>> /\ nextTok' = nextTok /\ outbox' = outbox
         /\ job' = [job EXCEPT ![s] = Head(inbox[s])]
         /\ inbox' = [inbox EXCEPT ![s] = Tail(inbox[s])]
     BY <1>5 DEF DispatchRestart, callerVars
   <2>2. \A q \in Sessions : q # s => job'[q] = job[q] /\ inbox'[q] = inbox[q]
     BY <2>1 DEF TypeOK
   <2>3. job'[s] = inbox[s][1] /\ job'[s] < nextTok
     BY <1>0, <2>1 DEF TypeOK, TokensUsed
   <2>4. inbox'[s] = Tail(inbox[s])
     BY <2>1 DEF TypeOK
   <2>5. \A i \in 1..Len(inbox'[s]) : inbox'[s][i] < nextTok
     BY <1>0, <2>1, <2>4 DEF TokensUsed
   <2>. QED
     BY <2>1, <2>2, <2>3, <2>5 DEF TokensUsed
 <1>6. ASSUME NEW s \in Sessions, NEW r \in {"ok", "failed"},
              job[s] # None, Reply(s, r), job' = [job EXCEPT ![s] = None],
              UNCHANGED <<inbox, nextTok>>
       PROVE  TokensUsed'
   <2>1. \A q \in Sessions : outbox'[q] \subseteq outbox[q] \cup {<<job[s], r>>}
     BY <1>6, Zenon DEF Reply, TypeOK
   <2>2. \A q \in Sessions : job'[q] = job[q] \/ job'[q] = 0
     BY <1>6 DEF TypeOK
   <2>3. nextTok > 0
     BY DEF TypeOK
   <2>. QED
     BY <1>0, <1>6, <2>1, <2>2, <2>3 DEF TokensUsed
 <1>7. ASSUME NEW s \in Sessions, RestartDone(s) \/ RestartFails(s) PROVE TokensUsed'
   BY <1>6, <1>7 DEF RestartDone, RestartFails, callerVars
 <1>8. ASSUME NEW s \in Sessions, ReaderEnds(s) PROVE TokensUsed'
   <2>1. \A q \in Sessions : inbox'[q] = inbox[q] \/ inbox'[q] = <<>>
     BY <1>8 DEF ReaderEnds, TypeOK
   <2>. QED
     BY <1>8, <2>1 DEF ReaderEnds, callerVars, TokensUsed
 <1>9. ASSUME NEW c \in Callers, RotateSend(c) PROVE TokensUsed'
   <2>1. ses \in Sessions /\ nextTok' = nextTok + 1 /\ UNCHANGED <<job, outbox>>
     BY <1>9 DEF RotateSend, SessionNumbered
   <2>2. \A q \in Sessions : q # ses => inbox'[q] = inbox[q]
     BY <1>9, <2>1 DEF RotateSend, TypeOK
   <2>3. inbox'[ses] = Append(inbox[ses], nextTok)
     BY <1>9, <2>1 DEF RotateSend, TypeOK
   <2>4. \A i \in 1..Len(inbox'[ses]) : inbox'[ses][i] < nextTok'
     BY <1>0, <2>1, <2>3 DEF TokensUsed
   <2>5. \A q \in Sessions : \A i \in 1..Len(inbox'[q]) : inbox'[q][i] < nextTok'
     <3>1. \A q \in Sessions : \A i \in 1..Len(inbox[q]) : inbox[q][i] \in Nat
       BY <1>0
     <3>2. \A q \in Sessions : \A i \in 1..Len(inbox[q]) : inbox[q][i] < nextTok'
       BY <1>0, <2>1, <3>1 DEF TokensUsed
     <3>. QED
       BY <2>2, <2>4, <3>2, Zenon
   <2>. QED
     BY <1>0, <2>1, <2>5 DEF TokensUsed
 <1>10. ASSUME NEW c \in Callers, SyncRead(c) \/ MetaRead(c) \/ Proceed(c) PROVE TokensUsed'
   BY <1>10, <1>a DEF SyncRead, MetaRead, Proceed, RotateReply, RotateTimeout, RotateStore,
                     RotateSet, RotateRestart, SyncEnsure, MetaSet, agentVars
 <1>11. CASE UNCHANGED vars
   BY <1>11, <1>a DEF vars, agentVars, callerVars
 <1>. QED
   BY <1>1, <1>2, <1>3, <1>4, <1>5, <1>7, <1>8, <1>9, <1>10, <1>11 DEF Next, Link, Session

\* At rest nothing is under way.
LEMMA DoneIsOne ==
    ASSUME RotationsDone
    PROVE  OneRotation /\ Answered
   BY DEF RotationsDone, AgentIdle, Rotating, OneRotation, Answered, InRotation, Confirmed, Busy

\* Only the agent, and the callers that rotate, have a part in a rotation.
LEMMA RotationKept ==
    ASSUME OneRotation, Answered, UNCHANGED <<cfgTok, inbox, job, pc, tok, chan>>,
           \A s \in Sessions : outbox'[s] \subseteq outbox[s]
    PROVE  OneRotation' /\ Answered'
 <1>1. OneRotation'
   BY DEF OneRotation, InRotation, Busy, Rotating
 <1>2. AgentIdle' = AgentIdle
   BY DEF AgentIdle
 <1>3. Answered'
   BY <1>2 DEF Answered, Confirmed
 <1>. QED
   BY <1>1, <1>3

\* Nothing but a hello_ack at rest makes good a crossing, and a rotation that
\* begins while another is under way is one.
LEMMA CrossedKept ==
    ASSUME TypeOK, [Next]_vars, ~crossed'
    PROVE  /\ ~crossed \/ (HelloAck /\ RotationsDone)
           /\ \A c \in Callers : RotateSend(c) => RotationsDone
           /\ \A c \in Callers : ~RotateTimeout(c)
           /\ \A c \in Callers : RotateReply(c) => chan[c] = "ok"
           /\ \A c \in Callers : RotateStore(c) =>
                 dbTok' = tok[c] /\ pc' = [pc EXCEPT ![c] = "set"]
           /\ \A c \in Callers : MetaSet(c) => drv # "up" \/ nodeTok' = nodeTok
 <1>1. \A c \in Callers : RotateSend(c) => ~crossed /\ RotationsDone
   BY Zenon DEF RotateSend
 <1>2. \A c \in Callers : ~RotateTimeout(c)
   BY Zenon DEF RotateTimeout
 <1>3. \A c \in Callers : RotateReply(c) => ~crossed /\ chan[c] = "ok"
   <2>1. \A c \in Callers : RotateReply(c) => ~crossed /\ chan[c] # "failed" /\ chan[c] # "empty"
     BY Zenon DEF RotateReply
   <2>. QED
     BY <2>1 DEF TypeOK
 <1>4. \A c \in Callers : RotateStore(c) =>
          ~crossed /\ dbTok' = tok[c] /\ pc' = [pc EXCEPT ![c] = "set"]
   <2>. SUFFICES ASSUME NEW c \in Callers, RotateStore(c)
                 PROVE  ~crossed /\ dbTok' = tok[c] /\ pc' = [pc EXCEPT ![c] = "set"]
     BY Zenon
   <2>1. \/ dbTok' = tok[c] /\ pc' = [pc EXCEPT ![c] = "set"] /\ crossed' = crossed
         \/ crossed' = TRUE
     BY Zenon DEF RotateStore
   <2>. QED
     BY <2>1
 <1>5. HelloAck => ~crossed \/ RotationsDone
   BY Zenon DEF HelloAck
 <1>6. (Dial \/ LearnToken \/ GoUp \/ Disconnect \/ Handle) => ~crossed
   BY DEF Dial, LearnToken, GoUp, Disconnect, Handle, overlapVars
 <1>7. \A q \in Sessions : Session(q) => ~crossed
   BY DEF Session, ReconcileRead, ReconcileEnsure, DispatchRestart, RestartDone, RestartFails,
          ReaderEnds, overlapVars
 <1>8. \A c \in Callers : (SyncRead(c) \/ RotateSet(c) \/ RotateRestart(c) \/ SyncEnsure(c))
          => ~crossed
   BY DEF SyncRead, RotateSet, RotateRestart, SyncEnsure, overlapVars
 <1>9. UNCHANGED vars => ~crossed
   BY DEF vars, overlapVars
 <1>11. \A c \in Callers : MetaRead(c) => ~crossed
   BY DEF MetaRead, overlapVars
 <1>12. \A c \in Callers : MetaSet(c) => ~crossed /\ (drv # "up" \/ nodeTok' = nodeTok)
   BY Zenon DEF MetaSet
 <1>10. ~crossed \/ (HelloAck /\ RotationsDone)
   BY <1>1, <1>2, <1>3, <1>4, <1>5, <1>6, <1>7, <1>8, <1>9, <1>11, <1>12, Zenon
      DEF Next, Link, Proceed
 <1>. QED
   BY <1>1, <1>2, <1>3, <1>4, <1>10, <1>12, Zenon

\* The agent's part of a rotation.
LEMMA RotationAgent ==
    ASSUME TypeOK, OneRotation, Answered, NEW s \in Sessions,
           DispatchRestart(s) \/ RestartDone(s) \/ RestartFails(s) \/ ReaderEnds(s)
    PROVE  OneRotation' /\ Answered'
 <1>0. UNCHANGED <<pc, tok, chan>>
   BY DEF DispatchRestart, RestartDone, RestartFails, ReaderEnds, callerVars
 <1>1. Busy(s) /\ ~AgentIdle
   BY DEF DispatchRestart, RestartDone, RestartFails, ReaderEnds, Busy, AgentIdle
 <1>2. /\ \A c \in Callers : ~Confirmed(c) /\ ~Confirmed(c)'
       /\ \A q \in Sessions, c \in Callers : ~(pc[c] = "wait" /\ <<tok[c], "ok">> \in outbox[q])
   BY <1>0, <1>1 DEF Answered, Confirmed
 <1>3. \A q \in Sessions : q # s => ~Busy(q)
   BY <1>1 DEF OneRotation
 <1>4. Rotating /\ Rotating' /\ \A c \in Callers : InRotation(c)' = InRotation(c)
   BY <1>0, <1>1 DEF OneRotation, Rotating, InRotation
 <1>5. CASE DispatchRestart(s)
   <2>1. inbox[s] # <<>> /\ Len(inbox[s]) = 1 /\ inbox[s] \in Seq(Tokens)
     BY <1>5 DEF DispatchRestart, OneRotation, TypeOK
   <2>2. Tail(inbox[s]) = <<>> /\ Head(inbox[s]) \in Tokens
     BY <2>1, OnlyMessage
   <2>3. job'[s] = Head(inbox[s]) /\ inbox'[s] = <<>> /\ cfgTok' = job'[s] /\ outbox' = outbox
     BY <1>5, <2>2 DEF DispatchRestart, TypeOK
   <2>4. \A q \in Sessions : q # s => job'[q] = job[q] /\ inbox'[q] = inbox[q]
     BY <1>5 DEF DispatchRestart, TypeOK
   <2>5. \A q \in Sessions : q # s => job'[q] = None /\ inbox'[q] = <<>>
     BY <1>3, <2>4 DEF Busy
   <2>6. OneRotation'
     BY <1>4, <2>3, <2>5 DEF OneRotation, Busy
   <2>7. Answered'
     BY <1>0, <1>2, <2>3 DEF Answered
   <2>. QED
     BY <2>6, <2>7
 <1>6. ASSUME job'[s] = None, inbox'[s] = <<>>,
              \A q \in Sessions : q # s => job'[q] = job[q] /\ inbox'[q] = inbox[q]
       PROVE  OneRotation' /\ AgentIdle'
   <2>1. \A q \in Sessions : job'[q] = None /\ inbox'[q] = <<>>
     BY <1>3, <1>6 DEF Busy
   <2>. QED
     BY <1>4, <2>1 DEF OneRotation, Busy, AgentIdle
 <1>7. ASSUME NEW r \in {"ok", "failed"}, job[s] # None, Reply(s, r),
              job' = [job EXCEPT ![s] = None], UNCHANGED <<cfgTok, inbox>>
       PROVE  OneRotation' /\ Answered'
   <2>1. job[s] # None /\ inbox[s] = <<>> /\ cfgTok = job[s]
     BY <1>7 DEF OneRotation
   <2>2. \A q \in Sessions : outbox'[q] \subseteq outbox[q] \cup {<<job[s], r>>}
     BY <1>7, Zenon DEF Reply, TypeOK
   <2>3. OneRotation' /\ AgentIdle'
     BY <1>6, <1>7, <2>1 DEF TypeOK
   <2>4. \A q \in Sessions, c \in Callers :
            pc[c] = "wait" /\ <<tok[c], "ok">> \in outbox'[q] => tok[c] = cfgTok
     BY <1>2, <2>1, <2>2
   <2>5. Answered'
     BY <1>0, <1>2, <1>7, <2>3, <2>4 DEF Answered
   <2>. QED
     BY <2>3, <2>5
 <1>8. CASE RestartDone(s)
   BY <1>7, <1>8 DEF RestartDone
 <1>9. CASE RestartFails(s)
   BY <1>7, <1>9 DEF RestartFails
 <1>10. CASE ReaderEnds(s)
   <2>1. OneRotation'
     BY <1>6, <1>10 DEF ReaderEnds, TypeOK
   <2>2. Answered'
     BY <1>0, <1>2, <1>10 DEF ReaderEnds, Answered
   <2>. QED
     BY <2>1, <2>2
 <1>. QED
   BY <1>5, <1>8, <1>9, <1>10

\* A rotation that begins at rest.
LEMMA RotationBegins ==
    ASSUME TypeOK, SessionNumbered, TokensUsed, NEW c \in Callers, RotateSend(c),
           RotationsDone
    PROVE  OneRotation' /\ Answered'
 <1>0. ses \in Sessions /\ nextTok \in Tokens
   BY DEF RotateSend, SessionNumbered, TypeOK
 <1>1. /\ pc'[c] = "wait" /\ tok'[c] = nextTok /\ chan'[c] = "empty"
       /\ \A d \in Callers : d # c => pc'[d] = pc[d]
       /\ UNCHANGED <<job, outbox, cfgTok>>
   BY DEF RotateSend, TypeOK
 <1>2. \A d \in Callers : d # c => pc'[d] \notin {"wait", "store", "set", "restart"}
   BY <1>1 DEF RotationsDone, Rotating
 <1>3. /\ \A q \in Sessions : job'[q] = None
       /\ \A q \in Sessions : q # ses => inbox'[q] = <<>>
   BY <1>0, <1>1 DEF RotateSend, RotationsDone, AgentIdle, TypeOK
 <1>4. inbox'[ses] = <<nextTok>> /\ Len(inbox'[ses]) = 1
   <2>1. inbox[ses] = <<>>
     BY <1>0 DEF RotationsDone, AgentIdle
   <2>2. inbox'[ses] = Append(<<>>, nextTok)
     BY <1>0, <2>1 DEF RotateSend, TypeOK
   <2>. QED
     BY <1>0, <2>2
 <1>5. OneRotation'
   <2>1. Rotating'
     BY <1>1 DEF Rotating
   <2>2. \A d \in Callers : InRotation(d)' => d = c
     BY <1>2 DEF InRotation
   <2>3. \A q \in Sessions : Busy(q)' => q = ses
     BY <1>3 DEF Busy
   <2>4. \A q \in Sessions : inbox'[q] # <<>> => Len(inbox'[q]) = 1
     BY <1>3, <1>4
   <2>. QED
     BY <1>3, <2>1, <2>2, <2>3, <2>4 DEF OneRotation
 <1>6. Answered'
   <2>1. \A d \in Callers : ~Confirmed(d)'
     BY <1>1, <1>2 DEF Confirmed
   <2>2. \A q \in Sessions : <<nextTok, "ok">> \notin outbox'[q]
     <3>1. \A q \in Sessions : <<nextTok, "ok">> \in outbox[q] => nextTok < nextTok
       BY <1>0 DEF TokensUsed
     <3>2. ~(nextTok < nextTok)
       BY DEF TypeOK
     <3>. QED
       BY <1>1, <3>1, <3>2
   <2>. QED
     BY <1>1, <1>2, <2>1, <2>2 DEF Answered
 <1>. QED
   BY <1>5, <1>6

\* The steps of a caller after that, as long as it does not give up.
LEMMA RotationCaller ==
    ASSUME TypeOK, OneRotation, Answered, NEW c \in Callers,
           UNCHANGED <<cfgTok, inbox, job, outbox, chan>>,
           NEW p, pc' = [pc EXCEPT ![c] = p],
           \A d \in Callers : d # c => tok'[d] = tok[d],
           \/ Confirmed(c) /\ tok'[c] = tok[c] /\ p \in {"store", "set", "restart", "idle"}
           \/ pc[c] \in {"idle", "sync", "meta"} /\ p \in {"idle", "sync", "meta"}
    PROVE  OneRotation' /\ Answered'
 <1>1. pc'[c] = p /\ \A d \in Callers : d # c => pc'[d] = pc[d]
   BY DEF TypeOK
 <1>2. AgentIdle' = AgentIdle
   BY DEF AgentIdle
 <1>3. \A d \in Callers :
          /\ InRotation(d)' => InRotation(d)
          /\ Confirmed(d)' => Confirmed(d) /\ tok'[d] = tok[d]
          /\ pc'[d] = "wait" => pc[d] = "wait" /\ tok'[d] = tok[d]
   BY <1>1 DEF InRotation, Confirmed
 <1>4. \A s \in Sessions : Busy(s)' => Busy(s) /\ Rotating'
   <2>1. \A s \in Sessions : Busy(s)' = Busy(s)
     BY DEF Busy
   <2>2. CASE Confirmed(c)
     BY <2>1, <2>2 DEF Answered, AgentIdle, Busy
   <2>3. CASE pc[c] \in {"idle", "sync", "meta"}
     BY <1>1, <2>1, <2>3 DEF OneRotation, Rotating
   <2>. QED
     BY <2>2, <2>3
 <1>5. OneRotation'
   BY <1>3, <1>4 DEF OneRotation
 <1>6. Answered'
   BY <1>2, <1>3 DEF Answered
 <1>. QED
   BY <1>5, <1>6

\* A reply reaches the request it answers.
LEMMA RotationHandle ==
    ASSUME TypeOK, SessionNumbered, OneRotation, Answered, Handle
    PROVE  OneRotation' /\ Answered'
 <1>0. UNCHANGED <<cfgTok, inbox, job, pc, tok>> /\ ses \in Sessions
   BY DEF Handle, agentVars, SessionNumbered
 <1>1. PICK r \in outbox[ses] :
          /\ outbox' = [outbox EXCEPT ![ses] = @ \ {r}]
          /\ chan' = [c \in Callers |->
                         IF AnsweredBy(c, r[1]) /\ chan[c] = "empty" THEN r[2] ELSE chan[c]]
   BY DEF Handle
 <1>2. r = <<r[1], r[2]>>
   BY <1>0 DEF TypeOK
 <1>3. \A s \in Sessions : outbox'[s] \subseteq outbox[s]
   BY <1>1 DEF TypeOK
 <1>4. AgentIdle' = AgentIdle
   BY <1>0 DEF AgentIdle
 <1>5. \A c \in Callers : Confirmed(c)' =>
          Confirmed(c) \/ (pc[c] = "wait" /\ <<tok[c], "ok">> \in outbox[ses])
   <2>. SUFFICES ASSUME NEW c \in Callers, Confirmed(c)', ~Confirmed(c)
                 PROVE  pc[c] = "wait" /\ <<tok[c], "ok">> \in outbox[ses]
     OBVIOUS
   <2>1. pc[c] = "wait" /\ chan'[c] = "ok" /\ chan[c] # "ok"
     BY <1>0 DEF Confirmed
   <2>2. r[2] = "ok" /\ tok[c] = r[1]
     BY <1>1, <2>1 DEF AnsweredBy
   <2>. QED
     BY <1>2, <2>1, <2>2
 <1>6. OneRotation'
   BY <1>0 DEF OneRotation, InRotation, Busy, Rotating
 <1>7. Answered'
   BY <1>0, <1>3, <1>4, <1>5 DEF Answered
 <1>. QED
   BY <1>6, <1>7

\* As long as rotations do not cross there is one at most, and an answer means
\* that the agent is done with it and has its token.
LEMMA RotationStep ==
    ASSUME TypeOK, SessionNumbered, TokensUsed, ~crossed => OneRotation /\ Answered,
           [Next]_vars, ~crossed'
    PROVE  OneRotation' /\ Answered'
 <1>1. OneRotation /\ Answered
   BY CrossedKept, DoneIsOne
 <1>2. CASE Dial \/ HelloAck \/ LearnToken \/ GoUp
   BY <1>1, <1>2, RotationKept
      DEF Dial, HelloAck, LearnToken, GoUp, agentVars, callerVars
 <1>3. CASE Disconnect
   BY <1>1, <1>3, RotationKept DEF Disconnect, agentVars, callerVars, TypeOK
 <1>4. CASE Handle
   BY <1>1, <1>4, RotationHandle
 <1>5. ASSUME NEW s \in Sessions, Session(s) PROVE OneRotation' /\ Answered'
   <2>1. CASE ReconcileRead(s) \/ ReconcileEnsure(s)
     BY <1>1, <2>1, RotationKept DEF ReconcileRead, ReconcileEnsure, agentVars, callerVars
   <2>2. CASE DispatchRestart(s) \/ RestartDone(s) \/ RestartFails(s) \/ ReaderEnds(s)
     BY <1>1, <2>2, RotationAgent
   <2>. QED
     BY <1>5, <2>1, <2>2 DEF Session
 <1>6. ASSUME NEW c \in Callers, RotateSend(c) PROVE OneRotation' /\ Answered'
   BY <1>6, CrossedKept, RotationBegins
 <1>7. ASSUME NEW c \in Callers, SyncRead(c) PROVE OneRotation' /\ Answered'
   <2>1. \A d \in Callers : d # c => tok'[d] = tok[d]
     BY <1>7 DEF SyncRead, TypeOK
   <2>. QED
     BY <1>1, <1>7, <2>1, RotationCaller DEF SyncRead, agentVars
 <1>8. ASSUME NEW c \in Callers, SyncEnsure(c) PROVE OneRotation' /\ Answered'
   BY <1>1, <1>8, RotationCaller DEF SyncEnsure, agentVars
 <1>14. ASSUME NEW c \in Callers, MetaRead(c) PROVE OneRotation' /\ Answered'
   <2>1. \A d \in Callers : d # c => tok'[d] = tok[d]
     BY <1>14 DEF MetaRead, TypeOK
   <2>. QED
     BY <1>1, <1>14, <2>1, RotationCaller DEF MetaRead, agentVars
 <1>15. ASSUME NEW c \in Callers, MetaSet(c) PROVE OneRotation' /\ Answered'
   BY <1>1, <1>15, RotationCaller DEF MetaSet, agentVars
 <1>9. ASSUME NEW c \in Callers, RotateReply(c) PROVE OneRotation' /\ Answered'
   <2>1. chan[c] = "ok"
     BY <1>9, CrossedKept
   <2>2. pc' = [pc EXCEPT ![c] = "store"] /\ Confirmed(c)
     BY <1>9, <2>1 DEF RotateReply, Confirmed
   <2>. QED
     BY <1>1, <1>9, <2>2, RotationCaller DEF RotateReply, agentVars
 <1>10. ASSUME NEW c \in Callers, RotateStore(c) PROVE OneRotation' /\ Answered'
   <2>1. pc' = [pc EXCEPT ![c] = "set"] /\ Confirmed(c)
     BY <1>10, CrossedKept DEF RotateStore, Confirmed
   <2>. QED
     BY <1>1, <1>10, <2>1, RotationCaller DEF RotateStore, agentVars
 <1>11. ASSUME NEW c \in Callers, RotateSet(c) PROVE OneRotation' /\ Answered'
   <2>1. Confirmed(c)
     BY <1>11 DEF RotateSet, Confirmed
   <2>. QED
     BY <1>1, <1>11, <2>1, RotationCaller DEF RotateSet, agentVars
 <1>12. ASSUME NEW c \in Callers, RotateRestart(c) PROVE OneRotation' /\ Answered'
   <2>1. Confirmed(c)
     BY <1>12 DEF RotateRestart, Confirmed
   <2>. QED
     BY <1>1, <1>12, <2>1, RotationCaller DEF RotateRestart, agentVars
 <1>13. CASE UNCHANGED vars
   BY <1>1, <1>13, RotationKept DEF vars, agentVars, callerVars
 <1>. QED
   BY <1>2, <1>3, <1>4, <1>5, <1>6, <1>7, <1>8, <1>9, <1>10, <1>11, <1>12, <1>13,
      <1>14, <1>15, CrossedKept DEF Next, Link, Proceed

\* Steps of which the two tokens that are compared know nothing.
LEMMA AgreementKept ==
    ASSUME Agreement, UNCHANGED <<cfgTok, nodeTok, ackTok, drv>>,
           \A c \in Callers :
               /\ Confirmed(c)' => Confirmed(c)
               /\ pc'[c] = "restart" => pc[c] = "restart"
               /\ InRotation(c) => InRotation(c)'
    PROVE  Agreement'
 <1>1. ~Rotating' => ~Rotating
   BY DEF Rotating, InRotation
 <1>. QED
   BY <1>1 DEF Agreement

\* A token the panel and the agent agree on is changed on both sides or in a rotation.
LEMMA AgreementStep ==
    ASSUME TypeOK, SessionNumbered, Uncrossed, [Next]_vars, ~crossed',
           OneRotation', Answered'
    PROVE  Agreement'
 <1>0. (~crossed => OneRotation /\ Answered /\ Agreement) /\ (~crossed \/ HelloAck)
   BY CrossedKept DEF Uncrossed
 <1>1. CASE Dial \/ Disconnect
   BY <1>1 DEF Dial, Disconnect, Agreement
 <1>2. CASE HelloAck
   BY <1>2 DEF HelloAck, Agreement, agentVars
 <1>3. CASE LearnToken
   <2>1. drv = "ack" /\ drv' = "learned" /\ UNCHANGED <<cfgTok, ackTok, pc, chan>> /\ ~crossed
     BY <1>3 DEF LearnToken, agentVars, callerVars, overlapVars
   <2>. QED
     BY <1>0, <2>1 DEF Agreement, Rotating, Confirmed
 <1>4. CASE GoUp
   <2>1. /\ drv = "learned" /\ drv' = "up" /\ nodeTok' = ackTok
         /\ UNCHANGED <<cfgTok, pc>> /\ ~crossed
     BY <1>4 DEF GoUp, agentVars, callerVars, overlapVars
   <2>. QED
     BY <1>0, <2>1 DEF Agreement, Rotating, Confirmed
 <1>5. CASE Handle
   <2>1. drv = "up" /\ UNCHANGED <<cfgTok, nodeTok, drv, pc>> /\ ~crossed
     BY <1>5 DEF Handle, agentVars, linkVars, overlapVars
   <2>. QED
     BY <1>0, <2>1 DEF Agreement, Rotating
 <1>6. ASSUME NEW s \in Sessions, DispatchRestart(s) PROVE Agreement'
   <2>1. UNCHANGED <<pc, chan>> /\ ~crossed /\ inbox[s] # <<>>
     BY <1>6 DEF DispatchRestart, callerVars, overlapVars
   <2>2. Rotating /\ \A c \in Callers : ~Confirmed(c)
     BY <1>0, <2>1 DEF OneRotation, Busy, Answered, AgentIdle
   <2>3. Rotating' /\ \A c \in Callers : ~Confirmed(c)' /\ pc'[c] # "restart"
     BY <2>1, <2>2 DEF Rotating, Confirmed
   <2>. QED
     BY <2>3 DEF Agreement
 <1>7. ASSUME NEW s \in Sessions, Session(s), ~DispatchRestart(s) PROVE Agreement'
   <2>1. UNCHANGED <<cfgTok, nodeTok, ackTok, drv, pc, chan>> /\ ~crossed
     BY <1>7 DEF Session, ReconcileRead, ReconcileEnsure, RestartDone, RestartFails,
                 ReaderEnds, agentVars, linkVars, callerVars, overlapVars
   <2>. QED
     BY <1>0, <2>1, AgreementKept DEF Confirmed, InRotation
 <1>8. ASSUME NEW c \in Callers, RotateSend(c) PROVE Agreement'
   <2>1. pc'[c] = "wait" /\ \A d \in Callers : d # c => pc'[d] = pc[d]
     BY <1>8 DEF RotateSend, TypeOK
   <2>2. drv' = "up" /\ Rotating'
     BY <1>8, <2>1 DEF RotateSend, linkVars, Rotating
   <2>3. \A d \in Callers : pc'[d] # "restart"
     BY <1>8, <2>1, CrossedKept DEF RotationsDone, Rotating
   <2>. QED
     BY <2>2, <2>3 DEF Agreement
 <1>9. ASSUME NEW c \in Callers, SyncRead(c) \/ SyncEnsure(c) PROVE Agreement'
   <2>1. UNCHANGED <<cfgTok, nodeTok, ackTok, drv, chan>> /\ ~crossed
     BY <1>9 DEF SyncRead, SyncEnsure, agentVars, linkVars, callerVars, overlapVars
   <2>2. /\ pc[c] \in {"idle", "sync"} /\ pc'[c] \in {"idle", "sync"}
         /\ \A d \in Callers : d # c => pc'[d] = pc[d]
     BY <1>9 DEF SyncRead, SyncEnsure, TypeOK
   <2>. QED
     BY <1>0, <2>1, <2>2, AgreementKept DEF Confirmed, InRotation
 <1>10. ASSUME NEW c \in Callers, RotateReply(c) \/ RotateStore(c) PROVE Agreement'
   <2>1. UNCHANGED <<cfgTok, nodeTok, ackTok, drv, chan>> /\ ~crossed
     BY <1>0, <1>10
        DEF RotateReply, RotateStore, agentVars, linkVars, HelloAck, TypeOK
   <2>2. /\ Confirmed(c) /\ pc'[c] \in {"store", "set"}
         /\ \A d \in Callers : d # c => pc'[d] = pc[d]
     BY <1>10, CrossedKept DEF RotateReply, RotateStore, Confirmed, TypeOK
   <2>. QED
     BY <1>0, <2>1, <2>2, AgreementKept DEF Confirmed, InRotation
 <1>11. ASSUME NEW c \in Callers, RotateSet(c) PROVE Agreement'
   <2>1. UNCHANGED <<cfgTok, ackTok, drv, chan>> /\ ~crossed
     BY <1>11 DEF RotateSet, agentVars, linkVars, overlapVars
   <2>2. /\ Confirmed(c) /\ pc'[c] = "restart" /\ nodeTok' = tok[c]
         /\ \A d \in Callers : d # c => pc'[d] = pc[d]
     BY <1>11 DEF RotateSet, Confirmed, TypeOK
   <2>3. nodeTok' = cfgTok'
     BY <1>0, <2>1, <2>2 DEF Answered
   <2>4. drv \in {"ack", "learned"} => ackTok' = cfgTok'
     BY <1>0, <2>1, <2>2 DEF Agreement
   <2>. QED
     BY <2>1, <2>3, <2>4 DEF Agreement
 <1>12. ASSUME NEW c \in Callers, RotateRestart(c) PROVE Agreement'
   <2>1. UNCHANGED <<cfgTok, nodeTok, ackTok, drv, chan>> /\ ~crossed
     BY <1>12 DEF RotateRestart, agentVars, linkVars, overlapVars
   <2>2. pc[c] = "restart" /\ Confirmed(c)
     BY <1>12 DEF RotateRestart, Confirmed
   <2>3. drv = "up" => nodeTok' = cfgTok'
     BY <1>0, <2>1, <2>2 DEF Agreement
   <2>4. drv \in {"ack", "learned"} => ackTok' = cfgTok'
     BY <1>0, <2>1, <2>2 DEF Agreement
   <2>. QED
     BY <2>1, <2>3, <2>4 DEF Agreement
 <1>14. ASSUME NEW c \in Callers, MetaRead(c) PROVE Agreement'
   <2>1. UNCHANGED <<cfgTok, nodeTok, ackTok, drv, chan>> /\ ~crossed
     BY <1>14 DEF MetaRead, agentVars, linkVars, callerVars, overlapVars
   <2>2. /\ pc[c] = "idle" /\ pc'[c] = "meta"
         /\ \A d \in Callers : d # c => pc'[d] = pc[d]
     BY <1>14 DEF MetaRead, TypeOK
   <2>. QED
     BY <1>0, <2>1, <2>2, AgreementKept DEF Confirmed, InRotation
 <1>15. ASSUME NEW c \in Callers, MetaSet(c) PROVE Agreement'
   <2>1. UNCHANGED <<cfgTok, ackTok, drv, chan>> /\ (drv # "up" \/ nodeTok' = nodeTok)
     BY <1>15, CrossedKept DEF MetaSet, agentVars, linkVars
   <2>2. /\ pc[c] = "meta" /\ pc'[c] = "idle"
         /\ \A d \in Callers : d # c => pc'[d] = pc[d]
     BY <1>15 DEF MetaSet, TypeOK
   <2>3. drv # "hello" /\ HelloAck => FALSE
     BY DEF HelloAck
   <2>4. ~crossed \/ drv = "hello"
     BY <1>0, <2>3
   <2>5. CASE drv = "hello"
     BY <2>1, <2>5 DEF Agreement
   <2>6. CASE ~crossed
     <3>1. Rotating' = Rotating /\ \A d \in Callers : Confirmed(d)' = Confirmed(d)
       BY <2>1, <2>2 DEF Rotating, Confirmed
     <3>. QED
       BY <1>0, <2>1, <2>2, <2>6, <3>1 DEF Agreement
   <2>. QED
     BY <2>4, <2>5, <2>6
 <1>13. CASE UNCHANGED vars
   <2>1. UNCHANGED <<cfgTok, nodeTok, ackTok, drv, pc, chan>> /\ ~crossed
     BY <1>13 DEF vars, agentVars, linkVars, callerVars, overlapVars
   <2>. QED
     BY <1>0, <2>1, AgreementKept DEF Confirmed, InRotation
 <1>. QED
   BY <1>1, <1>2, <1>3, <1>4, <1>5, <1>6, <1>7, <1>8, <1>9, <1>10, <1>11, <1>12, <1>13,
      <1>14, <1>15, CrossedKept DEF Next, Link, Proceed

\* What holds without a crossing is kept by every step of the panel and the agent.
LEMMA UncrossedStep ==
    ASSUME TypeOK, SessionNumbered, TokensUsed, Uncrossed, [Next]_vars
    PROVE  Uncrossed'
 <1>. SUFFICES ASSUME ~crossed' PROVE (OneRotation /\ Answered /\ Agreement)'
   BY DEF Uncrossed
 <1>1. OneRotation' /\ Answered'
   BY RotationStep DEF Uncrossed
 <1>. QED
   BY <1>1, AgreementStep

\* It holds in every reachable state of the control link.
LEMMA TokensInvariance == Spec => [](TokensUsed /\ Uncrossed)
 <1>1. Init => TokensUsed /\ Uncrossed
   <2>. SUFFICES ASSUME Init PROVE TokensUsed /\ Uncrossed
     OBVIOUS
   <2>1. TokensUsed
     BY DEF Init, TokensUsed
   <2>2. RotationsDone
     BY DEF Init, RotationsDone, AgentIdle, Rotating
   <2>3. Agreement
     BY DEF Init, Agreement
   <2>. QED
     BY <2>1, <2>2, <2>3, DoneIsOne DEF Uncrossed
 <1>2. LinkInv /\ TokensUsed /\ Uncrossed /\ [Next]_vars => TokensUsed' /\ Uncrossed'
   BY UsedStep, UncrossedStep DEF LinkInv
 <1>. QED
   BY <1>1, <1>2, LinkInvariance, PTL DEF Spec

\* The panel and the agent have the same token once the rotations have come to rest
\* on a link that is up, unless since the last hello_ack they overlapped, one was
\* given up or UpdateMeta put an older token back, wherever the connection broke and
\* whatever reply was lost.
THEOREM TokensInStep == Spec => []TokensAgree
 <1>1. Uncrossed => TokensAgree
   BY DEF Uncrossed, Agreement, TokensAgree, RotationsDone
 <1>. QED
   BY <1>1, TokensInvariance, PTL

----------------------------------------------------------------------------
(***************************************************************************)
(* And behind FileHasToken.                                                *)
(***************************************************************************)

\* A handshake that met nobody at work stays alone until the link is up.
Handshake == drv \in {"ack", "learned"} /\ ~raced => Quiet /\ ~crossed

\* Whoever is about to write frpc's file holds the token of the moment.
Writers ==
    /\ \A c \in Callers : pc[c] = "sync" => tok[c] = dbTok
    /\ Rotating => ~Reconciling /\ ~Syncing
    /\ \A s \in Sessions : rec[s] \in {"read", "ensure"} => s = ses
    /\ rec[ses] = "ensure" => recTok[ses] = nodeTok

Written ==
    /\ ~Rotating /\ rec[ses] = "done" /\ ~unserved /\ dbTok = nodeTok
    => file = cfgTok

Unraced == drv = "up" /\ ~crossed /\ ~raced => Writers /\ Written

\* Nothing but a hello_ack makes good a race, and an operation that begins while
\* another writer of the file is under way is one.
LEMMA RacedKept ==
    ASSUME TypeOK, [Next]_vars, ~raced'
    PROVE  /\ ~raced \/ HelloAck
           /\ HelloAck => Quiet
           /\ \A c \in Callers : RotateSend(c) => ~Reconciling /\ ~Syncing
           /\ \A c \in Callers : SyncRead(c) => ~Rotating /\ drv \notin {"ack", "learned"}
 <1>1. \A c \in Callers : RotateSend(c) => ~raced /\ ~Reconciling /\ ~Syncing
   BY Zenon DEF RotateSend
 <1>2. \A c \in Callers :
          SyncRead(c) => ~raced /\ ~Rotating /\ drv \notin {"ack", "learned"}
   BY Zenon DEF SyncRead
 <1>3. HelloAck => Quiet
   BY Zenon DEF HelloAck
 <1>4. (Dial \/ LearnToken \/ GoUp \/ Disconnect \/ Handle) => ~raced
   BY DEF Dial, LearnToken, GoUp, Disconnect, Handle, overlapVars
 <1>5. \A q \in Sessions : Session(q) => ~raced
   BY DEF Session, ReconcileRead, ReconcileEnsure, DispatchRestart, RestartDone, RestartFails,
          ReaderEnds, overlapVars
 <1>6. \A c \in Callers : Proceed(c) => ~raced
   BY DEF Proceed, RotateReply, RotateTimeout, RotateStore, RotateSet, RotateRestart,
          SyncEnsure, MetaSet, overlapVars
 <1>7. UNCHANGED vars => ~raced
   BY DEF vars, overlapVars
 <1>8. \A c \in Callers : MetaRead(c) => ~raced
   BY DEF MetaRead, overlapVars
 <1>. QED
   BY <1>1, <1>2, <1>3, <1>4, <1>5, <1>6, <1>7, <1>8, Zenon DEF Next, Link

\* At rest neither the agent, a reconcile nor a caller but UpdateMeta has a step to take.
LEMMA QuietStill ==
    ASSUME TypeOK, Quiet
    PROVE  /\ \A s \in Sessions : ~Session(s)
           /\ \A c \in Callers : Proceed(c) => MetaSet(c)
 <1>1. \A s \in Sessions : job[s] = None /\ inbox[s] = <<>> /\ rec[s] \notin {"read", "ensure"}
   BY DEF Quiet, RotationsDone, AgentIdle, Reconciling
 <1>2. \A c \in Callers : pc[c] \notin {"wait", "store", "set", "restart", "sync"}
   BY DEF Quiet, RotationsDone, Rotating, Syncing
 <1>. QED
   BY <1>1, <1>2
      DEF Session, ReconcileRead, ReconcileEnsure, DispatchRestart, RestartDone, RestartFails,
          ReaderEnds, Proceed, RotateReply, RotateTimeout, RotateStore, RotateSet,
          RotateRestart, SyncEnsure

\* Rest is a matter of the queues, the callers and the reconciles.
LEMMA QuietKept ==
    ASSUME Quiet, UNCHANGED <<job, inbox, pc, rec>>
    PROVE  Quiet'
   BY DEF Quiet, RotationsDone, AgentIdle, Rotating, Reconciling, Syncing

\* An edit of the node's name has no part in rest.
LEMMA QuietMeta ==
    ASSUME TypeOK, Quiet, UNCHANGED <<job, inbox, rec>>,
           NEW c \in Callers, NEW p \in {"idle", "meta"}, pc' = [pc EXCEPT ![c] = p]
    PROVE  Quiet'
 <1>1. \A d \in Callers : pc'[d] = pc[d] \/ pc'[d] \in {"idle", "meta"}
   BY DEF TypeOK
 <1>. QED
   BY <1>1 DEF Quiet, RotationsDone, AgentIdle, Rotating, Reconciling, Syncing

\* Between the hello_ack and the link being up nothing begins without being a race.
LEMMA HandshakeStep ==
    ASSUME TypeOK, Handshake, [Next]_vars
    PROVE  Handshake'
 <1>. SUFFICES ASSUME drv' \in {"ack", "learned"}, ~raced'
               PROVE  Quiet' /\ ~crossed'
   BY DEF Handshake
 <1>1. CASE HelloAck
   <2>1. Quiet
     BY <1>1, RacedKept
   <2>2. ~crossed'
     BY <1>1, <2>1, Zenon DEF HelloAck, Quiet
   <2>3. Quiet'
     BY <1>1, <2>1, QuietKept DEF HelloAck, agentVars, callerVars, frpcVars
   <2>. QED
     BY <2>2, <2>3
 <1>2. CASE ~HelloAck
   <2>1. ~raced
     BY <1>2, RacedKept
   <2>2. drv \in {"ack", "learned"}
     BY <1>2 DEF Next, Link, Session, Proceed, Dial, LearnToken, GoUp, Disconnect, Handle,
                 ReconcileRead, ReconcileEnsure, DispatchRestart, RestartDone, RestartFails,
                 ReaderEnds, RotateSend, SyncRead, RotateReply, RotateTimeout, RotateStore,
                 RotateSet, RotateRestart, SyncEnsure, MetaRead, MetaSet, vars, linkVars
   <2>3. Quiet /\ ~crossed
     BY <2>1, <2>2 DEF Handshake
   <2>4. LearnToken \/ UNCHANGED vars \/ \E c \in Callers : MetaRead(c) \/ MetaSet(c)
     <3>1. ~Dial /\ ~Handle /\ \A c \in Callers : ~RotateSend(c)
       BY <2>2 DEF Dial, Handle, RotateSend
     <3>2. ~GoUp /\ ~Disconnect
       BY DEF GoUp, Disconnect
     <3>3. \A c \in Callers : ~SyncRead(c)
       BY <2>2, RacedKept
     <3>. QED
       BY <1>2, <2>3, <3>1, <3>2, <3>3, QuietStill DEF Next, Link
   <2>5. CASE LearnToken \/ UNCHANGED vars
     <3>1. UNCHANGED <<job, inbox, pc, rec, crossed>>
       BY <2>5 DEF LearnToken, vars, agentVars, callerVars, frpcVars, overlapVars
     <3>. QED
       BY <2>3, <3>1, QuietKept
   <2>6. ASSUME NEW c \in Callers, MetaRead(c) PROVE Quiet' /\ ~crossed'
     BY <2>3, <2>6, QuietMeta DEF MetaRead, agentVars, frpcVars, overlapVars
   <2>7. ASSUME NEW c \in Callers, MetaSet(c) PROVE Quiet' /\ ~crossed'
     <3>1. ~crossed'
       BY <2>2, <2>3, <2>7 DEF MetaSet
     <3>2. Quiet'
       BY <2>3, <2>7, QuietMeta DEF MetaSet, agentVars, frpcVars
     <3>. QED
       BY <3>1, <3>2
   <2>. QED
     BY <2>4, <2>5, <2>6, <2>7
 <1>. QED
   BY <1>1, <1>2

\* While a rotation is under way nobody else is about to write the file.
LEMMA WritersRotating ==
    ASSUME \A s \in Sessions : rec'[s] \notin {"read", "ensure"},
           \A c \in Callers : pc'[c] # "sync", ses' \in Sessions
    PROVE  Writers'
   BY DEF Writers, Reconciling, Syncing

\* Whoever writes frpc's file without a race writes the token of the moment.
LEMMA UnracedStep ==
    ASSUME TypeOK, SessionNumbered, Uncrossed, Handshake, Unraced, [Next]_vars
    PROVE  Unraced'
 <1>. SUFFICES ASSUME drv' = "up", ~crossed', ~raced'
               PROVE  Writers' /\ Written'
   BY DEF Unraced
 <1>1. CASE GoUp
   <2>1. Quiet /\ ses \in Sessions
     BY <1>1, RacedKept DEF GoUp, Handshake, HelloAck, SessionNumbered
   <2>2. rec'[ses] = "read" /\ \A s \in Sessions : s # ses => rec'[s] = rec[s]
     BY <1>1, <2>1 DEF GoUp, TypeOK
   <2>3. UNCHANGED <<ses, pc>>
     BY <1>1 DEF GoUp, callerVars
   <2>4. \A c \in Callers : pc'[c] \notin {"wait", "store", "set", "restart", "sync"}
     BY <2>1, <2>3 DEF Quiet, RotationsDone, Rotating, Syncing
   <2>5. \A s \in Sessions : rec[s] \notin {"read", "ensure"}
     BY <2>1 DEF Quiet, Reconciling
   <2>6. Writers'
     BY <2>2, <2>3, <2>4, <2>5 DEF Writers, Rotating
   <2>7. Written'
     BY <2>2, <2>3 DEF Written
   <2>. QED
     BY <2>6, <2>7
 <1>2. CASE ~GoUp
   <2>0. ~HelloAck /\ ~Dial /\ ~LearnToken /\ ~Disconnect
     BY DEF HelloAck, Dial, LearnToken, Disconnect
   <2>1. drv = "up" /\ ses' = ses
     BY <1>2, <2>0
        DEF Next, Link, Session, Proceed, Handle, ReconcileRead, ReconcileEnsure,
            DispatchRestart, RestartDone, RestartFails, ReaderEnds, RotateSend, SyncRead,
            RotateReply, RotateTimeout, RotateStore, RotateSet, RotateRestart, SyncEnsure,
            MetaRead, MetaSet, vars, linkVars
   <2>2. ~crossed /\ ~raced /\ ses \in Sessions
     BY <2>0, <2>1, CrossedKept, RacedKept DEF SessionNumbered
   <2>3. Writers /\ Written /\ OneRotation /\ Answered /\ Agreement
     BY <2>1, <2>2 DEF Unraced, Uncrossed
   <2>4. ASSUME UNCHANGED <<cfgTok, nodeTok, dbTok, pc, tok, rec, recTok, file, unserved>>
         PROVE  Writers' /\ Written'
     BY <2>1, <2>3, <2>4 DEF Writers, Written, Rotating, Reconciling, Syncing
   <2>5. CASE Handle
     BY <2>4, <2>5 DEF Handle, agentVars, frpcVars
   <2>6. ASSUME NEW s \in Sessions, ReconcileRead(s) PROVE Writers' /\ Written'
     <3>1. s = ses /\ ~Rotating
       BY <2>3, <2>6 DEF ReconcileRead, Writers, Reconciling
     <3>2. UNCHANGED <<pc, tok, dbTok, nodeTok>>
       BY <2>6 DEF ReconcileRead, callerVars
     <3>3. \A q \in Sessions : q # ses => rec'[q] = rec[q]
       BY <2>6, <3>1 DEF ReconcileRead, TypeOK
     <3>4. \/ rec'[ses] = "ensure" /\ recTok'[ses] = nodeTok
           \/ rec'[ses] = "none"
       BY <2>2, <2>6, <3>1 DEF ReconcileRead, TypeOK
     <3>5. ~Rotating'
       BY <3>1, <3>2 DEF Rotating
     <3>6. Writers'
       BY <2>1, <2>3, <3>2, <3>3, <3>4, <3>5 DEF Writers
     <3>7. Written'
       BY <2>1, <3>4 DEF Written
     <3>. QED
       BY <3>6, <3>7
   <2>7. ASSUME NEW s \in Sessions, ReconcileEnsure(s) PROVE Writers' /\ Written'
     <3>1. s = ses /\ ~Rotating /\ recTok[ses] = nodeTok
       BY <2>3, <2>7 DEF ReconcileEnsure, Writers, Reconciling
     <3>2. UNCHANGED <<pc, tok, dbTok, nodeTok, cfgTok>> /\ file' = nodeTok
       BY <2>7, <3>1 DEF ReconcileEnsure, callerVars, agentVars
     <3>3. rec'[ses] = "done" /\ \A q \in Sessions : q # ses => rec'[q] = rec[q]
       BY <2>7, <3>1 DEF ReconcileEnsure, TypeOK
     <3>4. nodeTok = cfgTok
       BY <2>1, <2>3, <3>1 DEF Agreement
     <3>5. ~Rotating'
       BY <3>1, <3>2 DEF Rotating
     <3>6. Writers'
       BY <2>1, <2>3, <3>2, <3>3, <3>5 DEF Writers
     <3>7. Written'
       BY <3>2, <3>4 DEF Written
     <3>. QED
       BY <3>6, <3>7
   <2>8. ASSUME NEW s \in Sessions, DispatchRestart(s) PROVE Writers' /\ Written'
     <3>1. UNCHANGED <<nodeTok, dbTok, pc, tok, rec, recTok>> /\ inbox[s] # <<>>
       BY <2>8 DEF DispatchRestart, callerVars, frpcVars
     <3>2. Rotating'
       BY <2>3, <3>1 DEF OneRotation, Busy, Rotating
     <3>3. Writers'
       BY <2>1, <2>3, <3>1 DEF Writers, Rotating, Reconciling, Syncing
     <3>. QED
       BY <3>2, <3>3 DEF Written
   <2>9. ASSUME NEW s \in Sessions, RestartDone(s) \/ RestartFails(s) \/ ReaderEnds(s)
         PROVE  Writers' /\ Written'
     BY <2>4, <2>9 DEF RestartDone, RestartFails, ReaderEnds, callerVars, frpcVars
   <2>10. ASSUME NEW c \in Callers, RotateSend(c) PROVE Writers' /\ Written'
     <3>1. ~Reconciling /\ ~Syncing
       BY <2>10, RacedKept
     <3>2. /\ UNCHANGED rec /\ pc'[c] = "wait"
           /\ \A d \in Callers : d # c => pc'[d] = pc[d]
       BY <2>10 DEF RotateSend, frpcVars, TypeOK
     <3>3. Writers'
       BY <2>1, <2>2, <3>1, <3>2, WritersRotating DEF Reconciling, Syncing
     <3>4. Rotating'
       BY <3>2 DEF Rotating
     <3>. QED
       BY <3>3, <3>4 DEF Written
   <2>11. ASSUME NEW c \in Callers, SyncRead(c) PROVE Writers' /\ Written'
     <3>1. ~Rotating
       BY <2>11, RacedKept
     <3>2. /\ UNCHANGED <<cfgTok, nodeTok, dbTok, rec, recTok, file, unserved>>
           /\ tok'[c] = dbTok /\ pc'[c] = "sync"
           /\ \A d \in Callers : d # c => pc'[d] = pc[d] /\ tok'[d] = tok[d]
       BY <2>11 DEF SyncRead, agentVars, frpcVars, TypeOK
     <3>3. ~Rotating'
       BY <3>1, <3>2 DEF Rotating
     <3>4. Writers'
       BY <2>1, <2>3, <3>2, <3>3 DEF Writers
     <3>5. Written'
       BY <2>1, <2>3, <3>1, <3>2 DEF Written
     <3>. QED
       BY <3>4, <3>5
   <2>12. ASSUME NEW c \in Callers, SyncEnsure(c) PROVE Writers' /\ Written'
     <3>1. ~Rotating /\ tok[c] = dbTok
       BY <2>3, <2>12 DEF SyncEnsure, Writers, Syncing
     <3>2. /\ UNCHANGED <<cfgTok, nodeTok, dbTok, tok, rec, recTok, unserved>>
           /\ file' \in {file, dbTok} /\ pc'[c] = "idle"
           /\ \A d \in Callers : d # c => pc'[d] = pc[d]
       BY <2>12, <3>1 DEF SyncEnsure, agentVars, TypeOK
     <3>3. ~Rotating' /\ nodeTok = cfgTok
       BY <2>1, <2>3, <3>1, <3>2 DEF Rotating, Agreement
     <3>4. Writers'
       BY <2>1, <2>3, <3>2, <3>3 DEF Writers
     <3>5. Written'
       BY <2>1, <2>3, <3>1, <3>2, <3>3 DEF Written
     <3>. QED
       BY <3>4, <3>5
   <2>13. ASSUME NEW c \in Callers,
                 RotateReply(c) \/ RotateStore(c) \/ RotateSet(c) \/ RotateRestart(c)
          PROVE  Writers'
     <3>1. Rotating
       BY <2>13 DEF RotateReply, RotateStore, RotateSet, RotateRestart, Rotating
     <3>2. ~Reconciling /\ ~Syncing
       BY <2>3, <3>1 DEF Writers
     <3>3. /\ UNCHANGED rec /\ pc'[c] # "sync"
           /\ \A d \in Callers : d # c => pc'[d] = pc[d]
       BY <2>13 DEF RotateReply, RotateStore, RotateSet, RotateRestart, frpcVars, TypeOK
     <3>. QED
       BY <2>1, <2>2, <3>2, <3>3, WritersRotating DEF Reconciling, Syncing
   <2>14. ASSUME NEW c \in Callers, RotateReply(c) \/ RotateStore(c) \/ RotateSet(c)
          PROVE  Written'
     <3>1. pc'[c] \in {"store", "set", "restart"}
       BY <2>14, CrossedKept DEF RotateReply, RotateStore, RotateSet, TypeOK
     <3>. QED
       BY <3>1 DEF Written, Rotating
   <2>15. ASSUME NEW c \in Callers, RotateRestart(c) PROVE Written'
     <3>1. cfgTok' = tok[c]
       BY <2>3, <2>15 DEF RotateRestart, Answered, Confirmed, agentVars
     <3>2. ~unserved' => file' = tok[c]
       BY <2>15, Zenon DEF RotateRestart
     <3>. QED
       BY <3>1, <3>2 DEF Written
   <2>17. ASSUME NEW c \in Callers, NEW p \in {"idle", "meta"},
                 pc[c] \in {"idle", "meta"}, pc' = [pc EXCEPT ![c] = p],
                 \A d \in Callers : d # c => tok'[d] = tok[d],
                 UNCHANGED <<cfgTok, nodeTok, dbTok, rec, recTok, file, unserved>>
          PROVE  Writers' /\ Written'
     <3>1. pc'[c] = p /\ \A d \in Callers : d # c => pc'[d] = pc[d]
       BY <2>17 DEF TypeOK
     <3>2. Rotating' = Rotating /\ Syncing' = Syncing /\ Reconciling' = Reconciling
       BY <2>17, <3>1 DEF Rotating, Syncing, Reconciling
     <3>3. \A d \in Callers : pc'[d] = "sync" => pc[d] = "sync" /\ tok'[d] = tok[d]
       BY <2>17, <3>1
     <3>4. Writers'
       BY <2>1, <2>3, <2>17, <3>2, <3>3 DEF Writers
     <3>5. Written'
       BY <2>1, <2>3, <2>17, <3>2 DEF Written
     <3>. QED
       BY <3>4, <3>5
   <2>18. ASSUME NEW c \in Callers, MetaRead(c) PROVE Writers' /\ Written'
     <3>1. \A d \in Callers : d # c => tok'[d] = tok[d]
       BY <2>18 DEF MetaRead, TypeOK
     <3>. QED
       BY <2>17, <2>18, <3>1 DEF MetaRead, agentVars, frpcVars
   <2>19. ASSUME NEW c \in Callers, MetaSet(c) PROVE Writers' /\ Written'
     <3>1. nodeTok' = nodeTok
       BY <2>1, <2>19, CrossedKept
     <3>. QED
       BY <2>17, <2>19, <3>1 DEF MetaSet, agentVars, frpcVars
   <2>16. CASE UNCHANGED vars
     BY <2>4, <2>16 DEF vars, agentVars, callerVars, frpcVars
   <2>. QED
     BY <1>2, <2>0, <2>5, <2>6, <2>7, <2>8, <2>9, <2>10, <2>11, <2>12, <2>13, <2>14, <2>15,
        <2>16, <2>18, <2>19, CrossedKept DEF Next, Link, Session, Proceed
 <1>. QED
   BY <1>1, <1>2

\* frpc's file has the agent's token once everything has come to rest on a link that
\* is up, whichever of reconcile, RotateFrpsToken and SyncNode wrote it last, unless
\* one of them overlapped a rotation or could not write, or the database lags behind.
THEOREM FileInStep == Spec => []FileHasToken
 <1>1. Init => Handshake /\ Unraced
   BY DEF Init, Handshake, Unraced
 <1>2. LinkInv /\ Uncrossed /\ Handshake /\ Unraced /\ [Next]_vars => Handshake' /\ Unraced'
   BY HandshakeStep, UnracedStep DEF LinkInv
 <1>3. Unraced => FileHasToken
   BY DEF Unraced, Written, FileHasToken, Quiet, RotationsDone
 <1>. QED
   BY <1>1, <1>2, <1>3, LinkInvariance, TokensInvariance, PTL DEF Spec
=============================================================================
