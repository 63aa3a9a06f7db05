-------------------------- MODULE AccountingProofs --------------------------
(***************************************************************************)
(* Proofs about module Accounting.                                         *)
(***************************************************************************)
EXTENDS Accounting, TLAPS

----------------------------------------------------------------------------
(***************************************************************************)
(* The queue as a set and in order.                                        *)
(***************************************************************************)

\* Queueing a sample adds exactly that sample (chan send in enqueue/sendWait).
LEMMA RangeOfAppend ==
    ASSUME NEW S, NEW s \in Seq(S), NEW x \in S
    PROVE  /\ Append(s, x) \in Seq(S)
           /\ Len(Append(s, x)) = Len(s) + 1
           /\ \A k \in 1..Len(s) : Append(s, x)[k] = s[k]
           /\ Append(s, x)[Len(s) + 1] = x
           /\ Range(Append(s, x)) = Range(s) \cup {x}
<1> DEFINE t == Append(s, x)
<1>1. /\ t \in Seq(S)
      /\ Len(t) = Len(s) + 1
      /\ \A k \in 1..Len(s) : t[k] = s[k]
      /\ t[Len(s) + 1] = x
  OBVIOUS
<1>2. Len(s) \in Nat /\ DOMAIN s = 1..Len(s) /\ DOMAIN t = 1..(Len(s) + 1)
  BY <1>1
<1> HIDE DEF t
<1>3. Range(t) \subseteq Range(s) \cup {x}
  <2> SUFFICES ASSUME NEW k \in 1..(Len(s) + 1)
               PROVE  t[k] \in Range(s) \cup {x}
    BY <1>2 DEF Range
  <2>1. CASE k = Len(s) + 1
    BY <1>1, <2>1
  <2>2. CASE k # Len(s) + 1
    <3>1. k \in 1..Len(s)
      BY <1>2, <2>2
    <3> QED
      BY <1>1, <1>2, <3>1 DEF Range
  <2> QED
    BY <2>1, <2>2
<1>4. Range(s) \cup {x} \subseteq Range(t)
  <2>1. ASSUME NEW k \in 1..Len(s) PROVE s[k] \in Range(t)
    <3>1. k \in 1..(Len(s) + 1) /\ t[k] = s[k]
      BY <1>1, <1>2
    <3> QED
      BY <1>2, <3>1 DEF Range
  <2>2. x \in Range(t)
    <3>1. Len(s) + 1 \in 1..(Len(s) + 1)
      BY <1>2
    <3> QED
      BY <1>1, <1>2, <3>1 DEF Range
  <2> QED
    BY <1>2, <2>1, <2>2 DEF Range
<1> QED
  BY <1>1, <1>3, <1>4 DEF t

\* Taking the first sample from the queue removes at most that sample.
LEMMA RangeOfTail ==
    ASSUME NEW S, NEW s \in Seq(S), s # <<>>
    PROVE  /\ Head(s) \in S
           /\ Head(s) = s[1]
           /\ Tail(s) \in Seq(S)
           /\ Len(s) > 0
           /\ Len(Tail(s)) = Len(s) - 1
           /\ \A k \in 1..Len(Tail(s)) : Tail(s)[k] = s[k + 1]
           /\ Range(s) = Range(Tail(s)) \cup {Head(s)}
<1> DEFINE t == Tail(s)
<1>1. /\ Head(s) \in S
      /\ Head(s) = s[1]
      /\ t \in Seq(S)
      /\ Len(s) > 0
      /\ Len(t) = Len(s) - 1
      /\ \A k \in 1..Len(t) : t[k] = s[k + 1]
  OBVIOUS
<1>2. Len(s) \in Nat /\ DOMAIN s = 1..Len(s) /\ DOMAIN t = 1..(Len(s) - 1)
  BY <1>1
<1> HIDE DEF t
<1>3. Range(s) \subseteq Range(t) \cup {Head(s)}
  <2> SUFFICES ASSUME NEW k \in 1..Len(s)
               PROVE  s[k] \in Range(t) \cup {Head(s)}
    BY <1>2 DEF Range
  <2>1. CASE k = 1
    BY <1>1, <2>1
  <2>2. CASE k # 1
    <3>1. k - 1 \in 1..(Len(s) - 1) /\ t[k - 1] = s[(k - 1) + 1]
      BY <1>1, <1>2, <2>2
    <3>2. (k - 1) + 1 = k
      BY <1>2
    <3> QED
      BY <1>2, <3>1, <3>2 DEF Range
  <2> QED
    BY <2>1, <2>2
<1>4. Range(t) \cup {Head(s)} \subseteq Range(s)
  <2>1. ASSUME NEW k \in 1..(Len(s) - 1) PROVE t[k] \in Range(s)
    <3>1. k + 1 \in 1..Len(s) /\ t[k] = s[k + 1]
      BY <1>1, <1>2
    <3> QED
      BY <1>2, <3>1 DEF Range
  <2>2. Head(s) \in Range(s)
    <3>1. 1 \in 1..Len(s)
      BY <1>1, <1>2
    <3> QED
      BY <1>1, <1>2, <3>1 DEF Range
  <2> QED
    BY <1>2, <2>1, <2>2 DEF Range
<1> QED
  BY <1>1, <1>3, <1>4 DEF t

\* An empty queue holds nothing.
LEMMA RangeOfEmpty == Range(<<>>) = {}
  BY DEF Range

----------------------------------------------------------------------------
(***************************************************************************)
(* Type correctness.                                                       *)
(***************************************************************************)

\* A flag (ready, sent, st, DBUp) that is set or cleared is a Boolean.
LEMMA FlagIsBoolean == \A b : (b = TRUE \/ b = FALSE) => b \in BOOLEAN
  OBVIOUS

\* The initial state of agent, link and panel is well typed.
LEMMA TypeInit == Init => TypeOK
  BY AgentAssumption, PanelAssumption, FlagIsBoolean
     DEF Init, WalInit, AgentInit, PipeInit, TypeOK, WalTypeOK, AgentTypeOK,
         PipeTypeOK, Samples, NoSample

\* The log keeps its type in every step.
LEMMA WalTypeStep == TypeOK /\ [Next]_vars => WalTypeOK'
<1> SUFFICES ASSUME TypeOK, [Next]_vars
             PROVE  WalTypeOK'
  OBVIOUS
<1> USE AgentAssumption, FlagIsBoolean DEF TypeOK, WalTypeOK, walVars
<1>1. CASE UNCHANGED walVars
  BY <1>1
<1>2. ASSUME NEW i \in Samples, Sample(i) PROVE WalTypeOK'
  BY <1>2 DEF Sample, NextSeq, AppendOk, AppendFails
<1>3. CASE BackfillError
  BY <1>3 DEF BackfillError
<1>4. CASE AgentRestart
  BY <1>4 DEF AgentRestart, OpenWAL
<1>5. CASE RotateWal
  BY <1>5 DEF RotateWal, Rotate
<1>6. CASE RecvLate
  BY <1>6 DEF RecvLate
<1> QED
  BY <1>1, <1>2, <1>3, <1>4, <1>5, <1>6
     DEF Next, AgentStep, PanelStep, vars, Broadcast, BackfillSend, BackfillTimeout,
         RoundEnd, OpenGate, Disconnect, Connect, OpenSession, RecvAck,
         RecvMetrics, PanelCrash

\* The session and its replay keep their types in every step.
LEMMA AgentTypeStep == TypeOK /\ [Next]_vars => AgentTypeOK'
<1> SUFFICES ASSUME TypeOK, [Next]_vars
             PROVE  AgentTypeOK'
  OBVIOUS
<1> USE AgentAssumption, FlagIsBoolean
    DEF TypeOK, WalTypeOK, AgentTypeOK, agentVars, replayVars, NoSample
<1>1. CASE UNCHANGED agentVars
  BY <1>1
<1>2. ASSUME NEW i \in Samples, Sample(i) PROVE AgentTypeOK'
  BY <1>2 DEF Sample
<1>3. CASE Broadcast
  <2>1. smp \in Samples
    BY <1>3 DEF Broadcast
  <2>2. /\ Append(send, smp) \in Seq(Samples)
        /\ Len(Append(send, smp)) = Len(send) + 1
    BY <2>1, RangeOfAppend
  <2>3. /\ send' \in Seq(Samples)
        /\ Len(send') <= SendBuffer
        /\ dropped' \in SUBSET Samples
    <3>1. CASE Ready /\ Len(send) < SendBuffer
      BY <1>3, <2>2, <3>1 DEF Broadcast, Enqueue
    <3>2. CASE Ready /\ ~(Len(send) < SendBuffer)
      BY <1>3, <2>1, <3>2 DEF Broadcast, Enqueue
    <3>3. CASE ~Ready
      BY <1>3, <3>3 DEF Broadcast
    <3> QED
      BY <3>1, <3>2, <3>3
  <2> QED
    BY <1>3, <2>3 DEF Broadcast
<1>4. CASE BackfillSend
  BY <1>4, RangeOfAppend DEF BackfillSend
<1>5. CASE BackfillTimeout
  BY <1>5 DEF BackfillTimeout
<1>6. CASE BackfillError
  BY <1>6 DEF BackfillError
<1>7. CASE RoundEnd
  BY <1>7 DEF RoundEnd
<1>8. CASE OpenGate
  BY <1>8 DEF OpenGate
<1>9. CASE Disconnect
  BY <1>9 DEF Disconnect, CloseSession
<1>10. CASE AgentRestart
  BY <1>10 DEF AgentRestart, CloseSession
<1>11. CASE RotateWal
  BY <1>11 DEF RotateWal
<1>12. CASE Connect
  BY <1>12 DEF Connect, OpenSession, HelloSeq, CommitSeq, Larger, PipeTypeOK
<1>13. CASE RecvAck
  BY <1>13 DEF RecvAck
<1>14. CASE RecvMetrics
  BY <1>14, RangeOfTail DEF RecvMetrics
<1>15. CASE RecvLate
  BY <1>15, RangeOfTail DEF RecvLate
<1>16. CASE PanelCrash
  BY <1>16 DEF PanelCrash, CloseSession
<1> QED
  BY <1>1, <1>2, <1>3, <1>4, <1>5, <1>6, <1>7, <1>8, <1>9, <1>10, <1>11, <1>12, <1>13, <1>14, <1>15, <1>16
     DEF Next, AgentStep, PanelStep, vars

\* Starting a node and going online seed the tracker with the same watermark.
LEMMA SeedsTracker ==
    ASSUME TypeOK, RecvAck \/ StartNode
    PROVE  InitNode(HelloSeq)
  BY DEF RecvAck, StartNode, HelloSeq, CommitSeq, Larger, TypeOK, PipeTypeOK

\* The panel's state keeps its type in every step.
LEMMA PipeTypeStep == TypeOK /\ [Next]_vars => PipeTypeOK'
<1> SUFFICES ASSUME TypeOK, [Next]_vars
             PROVE  PipeTypeOK'
  OBVIOUS
<1> USE PanelAssumption, FlagIsBoolean
    DEF TypeOK, WalTypeOK, PipeTypeOK, pipeVars, flushVars, dbVars, NoSample
<1>1. CASE UNCHANGED pipeVars
  BY <1>1
<1>2. CASE AccountFold
  BY <1>2 DEF AccountFold
<1>3. CASE FlushCapture
  BY <1>3 DEF FlushCapture
<1>4. CASE FlushDrain
  BY <1>4 DEF FlushDrain
<1>5. CASE FlushCheck
  BY <1>5 DEF FlushCheck
<1>6. CASE FlushRow
  BY <1>6 DEF FlushRow, Row, DbFault
<1>7. CASE FlushMark
  BY <1>7 DEF FlushMark, SetNodeLastCommitSeq, Larger, DbFault
<1>8. CASE SetDBHealth
  BY <1>8 DEF SetDBHealth, DbFault
<1>9. CASE RecvAck \/ StartNode
  BY <1>9, SeedsTracker DEF InitNode, HelloSeq, CommitSeq, Larger
<1>10. CASE RecvMetrics
  <2>1. Head(send) \in Samples
    BY <1>10, RangeOfTail DEF RecvMetrics, AgentTypeOK
  <2> QED
    BY <1>10, <2>1 DEF RecvMetrics, AccountAccept, Accepts
<1>11. CASE PanelCrash
  BY <1>11 DEF PanelCrash, PanelRestart, InMemory
<1> QED
  BY <1>1, <1>2, <1>3, <1>4, <1>5, <1>6, <1>7, <1>8, <1>9, <1>10, <1>11
     DEF Next, AgentStep, PanelStep, vars, Connect, RecvLate

\* Every step of agent, link and panel preserves the types.
LEMMA TypeStep == TypeOK /\ [Next]_vars => TypeOK'
  BY WalTypeStep, AgentTypeStep, PipeTypeStep DEF TypeOK

\* Log, session, link, pipeline and database keep their types: the queue never
\* exceeds sendBuffer, the replay never exceeds maxBackfillRounds.
THEOREM TypeCorrect == Spec => []TypeOK
  BY TypeInit, TypeStep, PTL DEF Spec

----------------------------------------------------------------------------
(***************************************************************************)
(* The agent's side: numbers, order and the replay.                        *)
(***************************************************************************)

\* What a broadcast does to the queue: the sample in hand is added, or not.
LEMMA BroadcastQueue ==
    ASSUME TypeOK, Broadcast
    PROVE  /\ smp \in Samples
           /\ \/ Ready /\ send' = Append(send, smp) /\ Range(send') = Range(send) \cup {smp}
              \/ Ready /\ send' = send /\ smp \in dropped'
              \/ ~Ready /\ send' = send
<1>1. smp \in Samples /\ send \in Seq(Samples)
  BY DEF Broadcast, TypeOK, AgentTypeOK
<1>2. Range(Append(send, smp)) = Range(send) \cup {smp}
  BY <1>1, RangeOfAppend
<1> QED
  BY <1>1, <1>2 DEF Broadcast, Enqueue

\* What a replayed record does to the queue, and where it comes from.
LEMMA BackfillQueue ==
    ASSUME TypeOK, BackfillSend
    PROVE  \E i \in Samples : /\ i \in View
                              /\ IsNextRecord(View, cursor, i)
                              /\ send' = Append(send, i)
                              /\ Range(send') = Range(send) \cup {i}
                              /\ cursor' = seqOf[i]
<1>1. PICK i \in Samples : IsNextRecord(View, cursor, i) /\ send' = Append(send, i) /\ cursor' = seqOf[i]
  BY DEF BackfillSend
<1>2. Range(Append(send, i)) = Range(send) \cup {i}
  BY RangeOfAppend DEF TypeOK, AgentTypeOK
<1> QED
  BY <1>1, <1>2 DEF IsNextRecord

\* What a received message does to the queue.
LEMMA ReceiveQueue ==
    ASSUME TypeOK, RecvMetrics \/ RecvLate
    PROVE  /\ send # <<>>
           /\ Head(send) \in Samples
           /\ Head(send) \in Range(send)
           /\ send' = Tail(send)
           /\ Range(send) = Range(send') \cup {Head(send)}
<1>1. send \in Seq(Samples) /\ send # <<>> /\ send' = Tail(send)
  BY DEF TypeOK, AgentTypeOK, RecvMetrics, RecvLate
<1>2. Head(send) \in Samples /\ Range(send) = Range(Tail(send)) \cup {Head(send)}
  BY <1>1, RangeOfTail
<1> QED
  BY <1>1, <1>2

\* Only taking a sample adds to what the agent can send, and only a restart
\* lowers its counter, when the log is all there is to send.
LEMMA VisibleShrinks ==
    ASSUME TypeOK, [Next]_vars, \A i \in Samples : ~Sample(i)
    PROVE  /\ Visible' \subseteq Visible
           /\ seqOf' = seqOf
           /\ \/ seq' = seq /\ smp' \in {smp, NoSample}
              \/ OpenWAL /\ smp' = NoSample /\ Visible' = wal
<1> USE DEF walVars, agentVars, replayVars
<1>1. CASE Broadcast
  BY <1>1, BroadcastQueue DEF Broadcast, Visible
<1>2. CASE BackfillSend
  BY <1>2, BackfillQueue DEF BackfillSend, Visible, View
<1>3. CASE BackfillTimeout
  BY <1>3 DEF BackfillTimeout, Visible
<1>4. CASE BackfillError
  BY <1>4 DEF BackfillError, Visible
<1>5. CASE RoundEnd
  BY <1>5 DEF RoundEnd, Visible
<1>6. CASE OpenGate
  BY <1>6 DEF OpenGate, Visible
<1>7. CASE Disconnect
  BY <1>7, RangeOfEmpty DEF Disconnect, CloseSession, Visible
<1>8. CASE AgentRestart
  BY <1>8, RangeOfEmpty DEF AgentRestart, CloseSession, OpenWAL, Visible
<1>9. CASE RotateWal
  BY <1>9 DEF RotateWal, Rotate, Visible
<1>10. CASE Connect
  BY <1>10 DEF Connect, OpenSession, Visible
<1>11. CASE RecvAck
  BY <1>11 DEF RecvAck, Visible
<1>12. CASE RecvMetrics
  BY <1>12, ReceiveQueue DEF RecvMetrics, Visible
<1>13. CASE RecvLate
  BY <1>13, ReceiveQueue DEF RecvLate, Visible
<1>14. CASE PanelCrash
  BY <1>14, RangeOfEmpty DEF PanelCrash, CloseSession, Visible
<1>15. CASE PanelStep
  BY <1>15 DEF PanelStep, Visible
<1>16. CASE UNCHANGED vars
  BY <1>16 DEF vars, Visible
<1> QED
  BY <1>1, <1>2, <1>3, <1>4, <1>5, <1>6, <1>7, <1>8, <1>9, <1>10, <1>11, <1>12,
     <1>13, <1>14, <1>15, <1>16 DEF Next, AgentStep

\* Taking a sample: it is newer than every other and gets the next number.
LEMMA SampleTaken ==
    ASSUME TypeOK, SampledInOrder, VisibleAscending, NEW i \in Samples, Sample(i)
    PROVE  /\ seq' = seq + 1
           /\ smp' = i
           /\ seqOf' \in [Samples -> Nat]
           /\ seqOf[i] = 0
           /\ seqOf'[i] = seq + 1
           /\ \A j \in Samples : j # i => seqOf'[j] = seqOf[j]
           /\ \A j \in Samples : seqOf[j] > 0 <=> j < i
           /\ Visible \subseteq Samples
           /\ Visible' \subseteq Visible \cup {i}
           /\ Sampled' = Sampled \cup {i}
<1> USE AgentAssumption DEF TypeOK, WalTypeOK, AgentTypeOK, Sample, IsNextSample, NextSeq
<1>1. /\ seq' = seq + 1
      /\ smp' = i
      /\ seqOf' \in [Samples -> Nat]
      /\ seqOf[i] = 0
      /\ seqOf'[i] = seq + 1
      /\ \A j \in Samples : j # i => seqOf'[j] = seqOf[j]
  OBVIOUS
<1>2. ASSUME NEW j \in Samples PROVE seqOf[j] > 0 <=> j < i
  <2>1. j < i => seqOf[j] > 0
    OBVIOUS
  <2>2. i < j => ~(seqOf[j] > 0)
    BY <1>1 DEF SampledInOrder
  <2> QED
    BY <1>1, <2>1, <2>2 DEF Samples
<1>3. Range(send) \subseteq Samples
  BY DEF Range
<1>4. Visible \subseteq Samples
  BY <1>3 DEF Visible, NoSample
<1>5. Visible' \subseteq Visible \cup {i}
  BY <1>1 DEF Visible, AppendOk, AppendFails, replayVars
<1>6. Sampled' = Sampled \cup {i}
  BY <1>1 DEF Sampled
<1> QED
  BY <1>1, <1>2, <1>4, <1>5, <1>6

\* Everything the agent can send has been sampled.
LEMMA VisibleIsSampled ==
    ASSUME TypeOK, VisibleAscending
    PROVE  Visible \subseteq Sampled
<1>1. Range(send) \subseteq Samples
  BY DEF Range, TypeOK, AgentTypeOK
<1> QED
  BY <1>1 DEF Visible, VisibleAscending, Sampled, TypeOK, WalTypeOK, AgentTypeOK, NoSample

\* Samples stay in order in every step.
LEMMA SampledInOrderStep ==
    ASSUME TypeOK, SampledInOrder, VisibleAscending, [Next]_vars
    PROVE  SampledInOrder'
<1>1. ASSUME NEW i \in Samples, Sample(i) PROVE SampledInOrder'
  <2>1. ASSUME NEW j \in Samples, NEW k \in Samples, j < k, seqOf'[k] > 0
        PROVE  seqOf'[j] > 0
    BY <1>1, <2>1, SampleTaken DEF TypeOK, WalTypeOK, Samples
  <2>2. seqOf'[smp'] = seq' /\ seqOf'[smp'] > 0
    BY <1>1, SampleTaken DEF TypeOK, WalTypeOK
  <2> QED
    BY <2>1, <2>2 DEF SampledInOrder
<1>2. ASSUME \A i \in Samples : ~Sample(i) PROVE SampledInOrder'
  BY <1>2, VisibleShrinks DEF SampledInOrder, OpenWAL
<1> QED
  BY <1>1, <1>2

\* The agent's counter stays ahead of its log and queue, and file order stays
\* number order: NextSeq, Append, Rotate and OpenWAL keep it together.
LEMMA VisibleAscendingStep ==
    ASSUME TypeOK, SampledInOrder, VisibleAscending, [Next]_vars
    PROVE  VisibleAscending'
<1>1. ASSUME NEW i \in Samples, Sample(i) PROVE VisibleAscending'
  <2>1. ASSUME NEW j \in Visible', j # i
        PROVE  j \in Visible /\ j \in Samples /\ seqOf'[j] = seqOf[j] /\ seqOf[j] > 0 /\ seqOf[j] <= seq /\ j < i
    BY <1>1, <2>1, SampleTaken DEF VisibleAscending
  <2>2. seqOf'[i] = seq + 1 /\ seq' = seq + 1 /\ seq \in Nat /\ seqOf \in [Samples -> Nat]
    BY <1>1, SampleTaken DEF TypeOK, WalTypeOK
  <2>3. ASSUME NEW j \in Visible' PROVE seqOf'[j] > 0 /\ seqOf'[j] <= seq'
    BY <2>1, <2>2
  <2>4. ASSUME NEW j \in Visible', NEW k \in Visible', j < k PROVE seqOf'[j] < seqOf'[k]
    <3>1. CASE k = i
      <4>1. j # i
        BY <2>4, <3>1 DEF Samples
      <4> QED
        BY <2>1, <2>2, <3>1, <4>1
    <3>2. CASE k # i
      <4>1. j # i
        BY <2>1, <2>4, <3>2 DEF Samples
      <4> QED
        BY <2>1, <2>4, <3>2, <4>1 DEF VisibleAscending
    <3> QED
      BY <3>1, <3>2
  <2> QED
    BY <2>3, <2>4 DEF VisibleAscending
<1>2. ASSUME \A i \in Samples : ~Sample(i) PROVE VisibleAscending'
  <2>1. CASE seq' = seq
    BY <1>2, <2>1, VisibleShrinks DEF VisibleAscending
  <2>2. CASE OpenWAL /\ Visible' = wal
    BY <1>2, <2>2, VisibleShrinks DEF VisibleAscending, OpenWAL
  <2> QED
    BY <1>2, <2>1, <2>2, VisibleShrinks
<1> QED
  BY <1>1, <1>2

\* The replay's cursor stays ahead of the queue, and a replaced file stays the
\* older end of the log (Stream against Rotate and Append).
LEMMA ReplaySoundStep ==
    ASSUME TypeOK, SampledInOrder, VisibleAscending, ReplaySound, [Next]_vars
    PROVE  ReplaySound'
<1> USE DEF walVars, agentVars, replayVars
<1>1. ASSUME NEW i \in Samples, Sample(i) PROVE ReplaySound'
  <2>1. UNCHANGED <<send, bf, cursor, frozen, snap>> /\ wal' \subseteq wal \cup {i}
    BY <1>1 DEF Sample, AppendOk, AppendFails
  <2>2. ASSUME NEW j \in Visible PROVE j < i /\ j # i /\ seqOf'[j] = seqOf[j]
    BY <1>1, SampleTaken DEF VisibleAscending, Samples
  <2>3. Range(send) \subseteq Visible /\ snap \subseteq Visible
    BY DEF Visible
  <2> QED
    BY <2>1, <2>2, <2>3 DEF ReplaySound, Replaying
<1>2. CASE Broadcast
  BY <1>2, BroadcastQueue DEF Broadcast, ReplaySound, Replaying, Ready, TypeOK, AgentTypeOK
<1>3. CASE BackfillSend
  <2>1. PICK i \in Samples : /\ IsNextRecord(View, cursor, i)
                             /\ Range(send') = Range(send) \cup {i}
                             /\ cursor' = seqOf[i]
    BY <1>3, BackfillQueue
  <2>2. seqOf[i] > cursor /\ cursor \in Nat /\ seqOf \in [Samples -> Nat] /\ Range(send) \subseteq Samples
    BY <2>1 DEF IsNextRecord, TypeOK, AgentTypeOK, WalTypeOK, Range
  <2>3. UNCHANGED <<wal, seqOf, bf, frozen, snap>> /\ bf = "round"
    BY <1>3 DEF BackfillSend
  <2>4. \A j \in Range(send) : seqOf[j] <= cursor
    BY <2>3 DEF ReplaySound, Replaying
  <2>5. \A j \in Range(send') : seqOf'[j] <= cursor'
    BY <2>1, <2>2, <2>3, <2>4
  <2> QED
    BY <2>3, <2>5 DEF ReplaySound
<1>4. CASE BackfillTimeout
  BY <1>4 DEF BackfillTimeout, ReplaySound, Replaying
<1>5. CASE BackfillError
  BY <1>5 DEF BackfillError, ReplaySound, Replaying
<1>6. CASE RoundEnd
  BY <1>6 DEF RoundEnd, ReplaySound, Replaying
<1>7. CASE OpenGate
  BY <1>7 DEF OpenGate, ReplaySound, Replaying
<1>8. CASE CloseSession /\ UNCHANGED wal
  BY <1>8 DEF CloseSession, ReplaySound, Replaying
<1>9. CASE RotateWal
  BY <1>9 DEF RotateWal, Rotate, ReplaySound, Replaying
<1>10. CASE Connect
  BY <1>10, RangeOfEmpty DEF Connect, OpenSession, ReplaySound, Replaying, TypeOK, AgentTypeOK
<1>11. CASE RecvAck
  BY <1>11 DEF RecvAck, ReplaySound, Replaying
<1>12. CASE RecvMetrics
  BY <1>12, ReceiveQueue DEF RecvMetrics, ReplaySound, Replaying
<1>13. CASE RecvLate
  BY <1>13, ReceiveQueue DEF RecvLate, ReplaySound, Replaying
<1>14. CASE PanelStep
  BY <1>14 DEF PanelStep, ReplaySound, Replaying
<1>15. CASE UNCHANGED vars
  BY <1>15 DEF vars, ReplaySound, Replaying
<1> QED
  BY <1>1, <1>2, <1>3, <1>4, <1>5, <1>6, <1>7, <1>8, <1>9, <1>10, <1>11, <1>12,
     <1>13, <1>14, <1>15
     DEF Next, AgentStep, Disconnect, AgentRestart, OpenWAL, PanelCrash

\* Queueing a sample behind smaller numbers keeps the queue in order.
LEMMA OrderedAppend ==
    ASSUME TypeOK, DeliveredInOrder, NEW x \in Samples, send' = Append(send, x),
           seqOf' = seqOf, \A j \in Range(send) : seqOf[j] <= seqOf[x]
    PROVE  DeliveredInOrder'
<1>1. /\ Len(send') = Len(send) + 1
      /\ Len(send) \in Nat
      /\ \A k \in 1..Len(send) : send'[k] = send[k]
      /\ send'[Len(send) + 1] = x
  BY RangeOfAppend DEF TypeOK, AgentTypeOK
<1> SUFFICES ASSUME NEW j \in 1..Len(send'), NEW k \in 1..Len(send'), j < k
             PROVE  seqOf[send'[j]] <= seqOf[send'[k]]
  BY DEF DeliveredInOrder
<1>2. j \in 1..Len(send)
  BY <1>1
<1>3. CASE k = Len(send) + 1
  <2>1. send[j] \in Range(send)
    BY <1>2 DEF Range, TypeOK, AgentTypeOK
  <2> QED
    BY <1>1, <1>2, <1>3, <2>1
<1>4. CASE k # Len(send) + 1
  <2>1. k \in 1..Len(send)
    BY <1>1, <1>4
  <2> QED
    BY <1>1, <1>2, <2>1 DEF DeliveredInOrder
<1> QED
  BY <1>3, <1>4

\* The queue is delivered in the order of the sequence numbers, in every step.
LEMMA DeliveredInOrderStep ==
    ASSUME TypeOK, SampledInOrder, VisibleAscending, ReplaySound, DeliveredInOrder, [Next]_vars
    PROVE  DeliveredInOrder'
<1> USE DEF walVars, agentVars, replayVars
<1>1. ASSUME NEW i \in Samples, Sample(i) PROVE DeliveredInOrder'
  <2>1. send' = send
    BY <1>1 DEF Sample
  <2>2. ASSUME NEW k \in 1..Len(send) PROVE send[k] \in Visible
    BY DEF Visible, Range, TypeOK, AgentTypeOK
  <2>3. ASSUME NEW j \in Visible PROVE seqOf'[j] = seqOf[j]
    BY <1>1, SampleTaken DEF VisibleAscending, Samples
  <2> QED
    BY <2>1, <2>2, <2>3 DEF DeliveredInOrder
<1>2. CASE Broadcast
  <2>1. seqOf' = seqOf
    BY <1>2 DEF Broadcast
  <2>2. CASE send' = send
    BY <2>1, <2>2 DEF DeliveredInOrder
  <2>3. CASE send' = Append(send, smp)
    <3>1. smp \in Samples /\ seqOf[smp] = seq
      BY <1>2, BroadcastQueue DEF SampledInOrder, Broadcast
    <3>2. \A j \in Range(send) : seqOf[j] <= seqOf[smp]
      BY <3>1 DEF VisibleAscending, Visible
    <3> QED
      BY <2>1, <2>3, <3>1, <3>2, OrderedAppend
  <2> QED
    BY <1>2, <2>2, <2>3, BroadcastQueue
<1>3. CASE BackfillSend
  <2>1. PICK i \in Samples : IsNextRecord(View, cursor, i) /\ send' = Append(send, i)
    BY <1>3, BackfillQueue
  <2>2. \A j \in Range(send) : seqOf[j] <= cursor
    BY <1>3 DEF BackfillSend, ReplaySound, Replaying
  <2>3. \A j \in Range(send) : seqOf[j] <= seqOf[i]
    <3>1. Range(send) \subseteq Samples /\ seqOf \in [Samples -> Nat] /\ cursor \in Nat
      BY DEF Range, TypeOK, WalTypeOK, AgentTypeOK
    <3> QED
      BY <2>1, <2>2, <3>1 DEF IsNextRecord
  <2>4. seqOf' = seqOf
    BY <1>3 DEF BackfillSend
  <2> QED
    BY <2>1, <2>3, <2>4, OrderedAppend
<1>4. CASE RecvMetrics \/ RecvLate
  <2>1. /\ seqOf' = seqOf
        /\ Len(send) \in Nat
        /\ Len(send') = Len(send) - 1
        /\ \A k \in 1..Len(send') : send'[k] = send[k + 1]
    <3>1. send \in Seq(Samples) /\ send # <<>> /\ send' = Tail(send)
      BY <1>4 DEF TypeOK, AgentTypeOK, RecvMetrics, RecvLate
    <3>2. seqOf' = seqOf
      BY <1>4 DEF RecvMetrics, RecvLate, walVars
    <3>3. Len(send) \in Nat
      BY <3>1
    <3>4. /\ Len(Tail(send)) = Len(send) - 1
          /\ \A k \in 1..Len(Tail(send)) : Tail(send)[k] = send[k + 1]
      BY <3>1, RangeOfTail
    <3> QED
      BY <3>1, <3>2, <3>3, <3>4
  <2> SUFFICES ASSUME NEW j \in 1..Len(send'), NEW k \in 1..Len(send'), j < k
               PROVE  seqOf[send'[j]] <= seqOf[send'[k]]
    BY <2>1 DEF DeliveredInOrder
  <2>2. j + 1 \in 1..Len(send) /\ k + 1 \in 1..Len(send) /\ j + 1 < k + 1
    BY <2>1
  <2> QED
    BY <2>1, <2>2 DEF DeliveredInOrder
<1>5. CASE send' = <<>>
  BY <1>5 DEF DeliveredInOrder
<1>6. CASE UNCHANGED <<send, seqOf>>
  BY <1>6 DEF DeliveredInOrder
<1> QED
  BY <1>1, <1>2, <1>3, <1>4, <1>5, <1>6
     DEF Next, AgentStep, PanelStep, vars, BackfillTimeout, BackfillError, RoundEnd, OpenGate,
         Disconnect, AgentRestart, RotateWal, Rotate, CloseSession, Connect, OpenSession,
         RecvAck, PanelCrash

----------------------------------------------------------------------------
(***************************************************************************)
(* The panel's side: watermarks, memory and counts.                        *)
(***************************************************************************)

\* A sample keeps its number for good.
LEMMA NumbersKept ==
    ASSUME TypeOK, SampledInOrder, VisibleAscending, [Next]_vars
    PROVE  /\ Sampled \subseteq Sampled'
           /\ \A i \in Sampled : seqOf'[i] = seqOf[i]
           /\ \A i \in Samples : i \notin Sampled' => i \notin Sampled
<1>1. ASSUME NEW i \in Samples, Sample(i)
      PROVE  /\ Sampled \subseteq Sampled'
             /\ \A j \in Sampled : seqOf'[j] = seqOf[j]
  BY <1>1, SampleTaken DEF Sampled
<1>2. ASSUME \A i \in Samples : ~Sample(i)
      PROVE  /\ Sampled \subseteq Sampled'
             /\ \A j \in Sampled : seqOf'[j] = seqOf[j]
  BY <1>2, VisibleShrinks DEF Sampled
<1> QED
  BY <1>1, <1>2

\* Every number up to a handed-out one counts as handed out, now and later.
LEMMA KnownStable ==
    ASSUME TypeOK, SampledInOrder, VisibleAscending, [Next]_vars,
           NEW s \in Nat, NEW t \in Nat, Known(s), t <= s
    PROVE  Known(t) /\ Known(t)'
<1>1. CASE s = 0
  BY <1>1 DEF Known
<1>2. CASE \E i \in Sampled : s <= seqOf[i]
  <2>1. PICK i \in Sampled : s <= seqOf[i]
    BY <1>2
  <2>2. i \in Sampled' /\ seqOf'[i] = seqOf[i] /\ seqOf[i] \in Nat
    BY <2>1, NumbersKept DEF Sampled, TypeOK, WalTypeOK
  <2>3. t <= seqOf[i]
    BY <2>1, <2>2
  <2> QED
    BY <2>1, <2>2, <2>3 DEF Known
<1> QED
  BY <1>1, <1>2 DEF Known

\* The number of a sample is handed out, now and later.
LEMMA NumberKnown ==
    ASSUME TypeOK, SampledInOrder, VisibleAscending, [Next]_vars, NEW i \in Sampled
    PROVE  Known(seqOf[i])'
<1>1. i \in Sampled' /\ seqOf'[i] = seqOf[i] /\ seqOf[i] \in Nat
  BY NumbersKept DEF Sampled, TypeOK, WalTypeOK
<1> QED
  BY <1>1 DEF Known

\* The panel's watermark is the tracker, or the stored one before there is a
\* tracker; it is what Hello carries.
LEMMA HelloIsWatermark ==
    ASSUME TypeOK, PanelWatermarks
    PROVE  /\ HelloSeq \in Nat
           /\ HelloSeq = Larger(dbSeq, CommitSeq)
           /\ HelloSeq = IF st THEN tracker ELSE dbSeq
  BY DEF TypeOK, PipeTypeOK, PanelWatermarks, WatermarksOrdered, HelloSeq, CommitSeq, Larger

\* The same in the next state.
LEMMA HelloIsWatermarkNext ==
    ASSUME TypeOK', PanelWatermarks'
    PROVE  /\ HelloSeq' \in Nat
           /\ HelloSeq' = Larger(dbSeq', CommitSeq')
           /\ HelloSeq' = IF st' THEN tracker' ELSE dbSeq'
  BY DEF TypeOK, PipeTypeOK, PanelWatermarks, WatermarksOrdered, HelloSeq, CommitSeq, Larger

\* The watermarks of panel and replay are numbers the agent handed out.
LEMMA WatermarksKnownStep ==
    ASSUME TypeOK, SampledInOrder, VisibleAscending, WatermarksKnown, PanelWatermarks, [Next]_vars
    PROVE  WatermarksKnown'
<1> USE DEF walVars, agentVars, replayVars, pipeVars, flushVars, dbVars
<1>1. /\ tracker \in Nat /\ dbSeq \in Nat /\ cursor \in Nat /\ seqAt \in Nat
      /\ Known(tracker) /\ Known(dbSeq) /\ Known(cursor)
  BY DEF TypeOK, PipeTypeOK, AgentTypeOK, WatermarksKnown
<1>2. Known(0)'
  BY DEF Known
<1>3. Known(tracker)'
  <2>1. CASE tracker' = tracker
    BY <1>1, <2>1, KnownStable
  <2>2. CASE RecvAck \/ StartNode
    <3>1. tracker' = tracker \/ tracker' = dbSeq
      BY <2>2, HelloIsWatermark, SeedsTracker DEF InitNode, Larger
    <3> QED
      BY <1>1, <3>1, KnownStable
  <2>3. CASE RecvMetrics
    <3>1. tracker' = tracker \/ tracker' = seqOf[Head(send)]
      BY <2>3 DEF RecvMetrics, AccountAccept
    <3>2. Head(send) \in Sampled
      BY <2>3, ReceiveQueue, VisibleIsSampled DEF Visible
    <3> QED
      BY <1>1, <3>1, <3>2, KnownStable, NumberKnown, NumbersKept
  <2>4. CASE PanelCrash
    BY <1>2, <2>4 DEF PanelCrash, PanelRestart
  <2> QED
    BY <2>1, <2>2, <2>3, <2>4
       DEF Next, AgentStep, PanelStep, vars, AccountFold, FlushCapture, FlushDrain, FlushCheck,
           FlushRow, FlushMark, SetDBHealth, Connect, RecvLate
<1>4. Known(dbSeq)'
  <2>1. CASE dbSeq' = dbSeq
    BY <1>1, <2>1, KnownStable
  <2>2. CASE FlushMark
    <3>1. st /\ seqAt <= tracker
      BY <2>2 DEF FlushMark, PanelWatermarks
    <3>2. dbSeq' = dbSeq \/ dbSeq' = seqAt
      BY <2>2 DEF FlushMark, SetNodeLastCommitSeq, Larger
    <3> QED
      BY <1>1, <3>1, <3>2, KnownStable
  <2> QED
    BY <2>1, <2>2
       DEF Next, AgentStep, PanelStep, vars, AccountFold, FlushCapture, FlushDrain, FlushCheck,
           FlushRow, SetDBHealth, StartNode, Connect, RecvAck, InitNode, RecvMetrics, AccountAccept,
           RecvLate, PanelCrash, PanelRestart
<1>5. Known(cursor)'
  <2>1. CASE cursor' = cursor
    BY <1>1, <2>1, KnownStable
  <2>2. CASE BackfillSend
    <3>1. PICK i \in Samples : i \in View /\ cursor' = seqOf[i]
      BY <2>2, BackfillQueue
    <3>2. i \in Sampled
      BY <3>1, VisibleIsSampled DEF View, Visible
    <3> QED
      BY <3>1, <3>2, NumberKnown, NumbersKept
  <2>3. CASE cursor' = 0
    BY <1>2, <2>3 DEF Known
  <2>4. CASE Connect
    <3>1. cursor' = tracker \/ cursor' = dbSeq
      BY <2>4, HelloIsWatermark DEF Connect, OpenSession
    <3> QED
      BY <1>1, <3>1, KnownStable
  <2> QED
    BY <2>1, <2>2, <2>3, <2>4
       DEF Next, AgentStep, PanelStep, vars, Sample, Broadcast, BackfillTimeout, BackfillError,
           RoundEnd, OpenGate, Disconnect, AgentRestart, RotateWal, CloseSession, RecvAck,
           RecvMetrics, RecvLate, PanelCrash
<1> QED
  BY <1>3, <1>4, <1>5 DEF WatermarksKnown

\* Stored, persisted, captured and tracked watermark stay in order (Account,
\* flush, InitNode, restart).
LEMMA PanelWatermarksStep ==
    ASSUME TypeOK, PanelWatermarks, MemoryDisjoint, [Next]_vars
    PROVE  PanelWatermarks'
<1> USE DEF PanelWatermarks, WatermarksOrdered, InMemory, TypeOK, PipeTypeOK, NoSample,
            pipeVars, flushVars, dbVars
<1>1. CASE UNCHANGED pipeVars
  BY <1>1
<1>2. CASE AccountFold
  BY <1>2 DEF AccountFold
<1>3. CASE FlushCapture
  BY <1>3 DEF FlushCapture
<1>4. CASE FlushDrain
  BY <1>4 DEF FlushDrain
<1>5. CASE FlushCheck
  BY <1>5 DEF FlushCheck
<1>6. CASE FlushRow
  BY <1>6 DEF FlushRow, Row
<1>7. CASE FlushMark
  <2>1. st /\ st' = st /\ tracker' = tracker /\ nodeSeq' = nodeSeq /\ seqAt' = 0
    BY <1>7 DEF FlushMark
  <2>2. dbSeq <= dbSeq' /\ dbSeq' <= tracker /\ persisted' <= dbSeq'
    BY <1>7, <2>1 DEF FlushMark, SetNodeLastCommitSeq, Larger
  <2>3. dbSeq' \in Nat
    BY <1>7 DEF FlushMark, SetNodeLastCommitSeq, Larger
  <2> QED
    BY <2>1, <2>2, <2>3
<1>8. CASE SetDBHealth
  BY <1>8 DEF SetDBHealth
<1>9. CASE RecvAck \/ StartNode
  <2>1. /\ st' = TRUE
        /\ UNCHANGED <<dbSeq, nodeSeq, seqAt>>
        /\ IF st THEN tracker' = Larger(tracker, HelloSeq) /\ persisted' = persisted
                 ELSE tracker' = HelloSeq /\ persisted' = HelloSeq
    BY <1>9, SeedsTracker DEF InitNode
  <2>2. HelloSeq = IF st THEN tracker ELSE dbSeq
    BY HelloIsWatermark
  <2>3. CASE st
    BY <2>1, <2>2, <2>3 DEF Larger
  <2>4. CASE ~st
    <3>1. seqAt = 0
      BY <2>4
    <3> QED
      BY <2>1, <2>2, <2>4, <3>1
  <2> QED
    BY <2>3, <2>4
<1>10. CASE RecvMetrics
  <2>1. Head(send) \in Samples /\ seqOf \in [Samples -> Nat]
    BY <1>10, ReceiveQueue DEF WalTypeOK
  <2>2. st /\ st' = st /\ UNCHANGED <<persisted, dbSeq, nodeSeq, seqAt>>
    BY <1>10 DEF RecvMetrics, AccountAccept
  <2>3. tracker' = tracker \/ (tracker' = seqOf[Head(send)] /\ seqOf[Head(send)] > tracker)
    BY <1>10 DEF RecvMetrics, AccountAccept, Accepts
  <2> QED
    BY <2>1, <2>2, <2>3
<1>11. CASE PanelCrash
  <2>1. /\ st' = FALSE /\ fl' = "idle" /\ seqAt' = 0 /\ traf' = {} /\ batch' = {} /\ pend' = 0
        /\ nodeSeq' = dbSeq /\ dbSeq' = dbSeq
    BY <1>11 DEF PanelCrash, PanelRestart
  <2> QED
    BY <2>1 DEF Samples
<1> QED
  BY <1>1, <1>2, <1>3, <1>4, <1>5, <1>6, <1>7, <1>8, <1>9, <1>10, <1>11
     DEF Next, AgentStep, PanelStep, vars, Connect, RecvLate

\* A sample the panel holds is sampled and behind its tracker, hence so after a
\* step that changes neither memory nor tracker.
LEMMA HeldStable ==
    ASSUME TypeOK, SampledInOrder, VisibleAscending, MemoryDisjoint, [Next]_vars,
           NEW i \in InMemory, tracker <= tracker', tracker' \in Nat
    PROVE  i \in Sampled' /\ seqOf'[i] <= tracker'
<1>1. i \in Sampled /\ seqOf[i] <= tracker
  BY DEF MemoryDisjoint
<1>2. i \in Sampled' /\ seqOf'[i] = seqOf[i]
  BY <1>1, NumbersKept
<1>3. seqOf[i] \in Nat /\ tracker \in Nat
  BY <1>1 DEF Sampled, TypeOK, WalTypeOK, PipeTypeOK
<1> QED
  BY <1>1, <1>2, <1>3

\* A sample is in one place of the panel's memory (Account against flush).
LEMMA MemoryDisjointStep ==
    ASSUME TypeOK, SampledInOrder, VisibleAscending, PanelWatermarks, MemoryDisjoint, [Next]_vars
    PROVE  MemoryDisjoint'
<1> USE DEF pipeVars, flushVars, dbVars
<1>0. /\ tracker \in Nat /\ NoSample \notin Samples /\ pend \in Samples \cup {NoSample}
      /\ traf \subseteq Samples /\ batch \subseteq Samples
      /\ traf \cap batch = {}
      /\ pend \notin traf \cup batch
      /\ fl \in {"idle", "drain"} => batch = {}
  BY DEF TypeOK, PipeTypeOK, MemoryDisjoint, Samples, NoSample
<1>1. ASSUME tracker <= tracker', tracker' \in Nat, InMemory' \subseteq InMemory,
             traf' \cap batch' = {}, pend' \notin traf' \cup batch',
             fl' \in {"idle", "drain"} => batch' = {}
      PROVE  MemoryDisjoint'
  BY <1>1, HeldStable DEF MemoryDisjoint
<1>2. CASE UNCHANGED pipeVars
  BY <1>0, <1>1, <1>2 DEF InMemory
<1>3. CASE AccountFold
  BY <1>0, <1>1, <1>3 DEF AccountFold, InMemory
<1>4. CASE FlushCapture
  BY <1>0, <1>1, <1>4 DEF FlushCapture, InMemory
<1>5. CASE FlushDrain
  BY <1>0, <1>1, <1>5 DEF FlushDrain, InMemory
<1>6. CASE FlushCheck
  BY <1>0, <1>1, <1>6 DEF FlushCheck, InMemory
<1>7. CASE FlushRow
  <2>1. UNCHANGED <<tracker, pend, traf, fl>> /\ fl = "write"
    BY <1>7 DEF FlushRow
  <2>2. batch' \subseteq batch
    BY <1>7 DEF FlushRow
  <2> QED
    BY <1>0, <1>1, <2>1, <2>2 DEF InMemory
<1>8. CASE FlushMark
  BY <1>0, <1>1, <1>8 DEF FlushMark, InMemory
<1>9. CASE SetDBHealth
  BY <1>0, <1>1, <1>9 DEF SetDBHealth, InMemory
<1>10. CASE RecvAck \/ StartNode
  <2>1. UNCHANGED <<pend, traf, batch, fl>>
    BY <1>10, SeedsTracker DEF InitNode
  <2>2. CASE st
    <3>1. tracker' = tracker
      BY <1>10, <2>2, HelloIsWatermark, SeedsTracker DEF InitNode, Larger
    <3> QED
      BY <1>0, <1>1, <2>1, <3>1 DEF InMemory
  <2>3. CASE ~st
    <3>1. InMemory' = {}
      BY <2>1, <2>3 DEF PanelWatermarks, InMemory
    <3> QED
      BY <1>0, <2>1, <3>1 DEF MemoryDisjoint
  <2> QED
    BY <2>2, <2>3
<1>11. CASE RecvMetrics
  <2>1. CASE UNCHANGED <<tracker, pend, traf, batch, fl>>
    BY <1>0, <1>1, <2>1 DEF InMemory
  <2>2. CASE /\ UNCHANGED <<traf, batch, fl>>
             /\ pend = NoSample
             /\ pend' = Head(send)
             /\ tracker' = seqOf[Head(send)]
             /\ seqOf[Head(send)] > tracker
    <3>1. Head(send) \in Sampled /\ Head(send) \in Samples /\ seqOf \in [Samples -> Nat]
      BY <1>11, ReceiveQueue, VisibleIsSampled DEF Visible, TypeOK, WalTypeOK
    <3>2. InMemory' = InMemory \cup {Head(send)}
      BY <1>0, <2>2, <3>1 DEF InMemory
    <3>3. ASSUME NEW i \in InMemory PROVE i \in Sampled' /\ seqOf'[i] <= tracker'
      BY <1>0, <2>2, <3>1, HeldStable
    <3>4. Head(send) \notin InMemory
      BY <1>0, <2>2, <3>1 DEF MemoryDisjoint
    <3>5. Head(send) \in Sampled' /\ seqOf'[Head(send)] <= tracker'
      BY <2>2, <3>1, NumbersKept
    <3>6. ASSUME NEW i \in InMemory' PROVE i \in Sampled' /\ seqOf'[i] <= tracker'
      BY <3>2, <3>3, <3>5
    <3>7. pend' \notin traf' \cup batch'
      BY <2>2, <3>4 DEF InMemory
    <3> QED
      BY <1>0, <2>2, <3>6, <3>7 DEF MemoryDisjoint
  <2> QED
    BY <1>11, <2>1, <2>2 DEF RecvMetrics, AccountAccept, Accepts
<1>12. CASE PanelCrash
  BY <1>0, <1>12 DEF PanelCrash, PanelRestart, InMemory, MemoryDisjoint
<1> QED
  BY <1>2, <1>3, <1>4, <1>5, <1>6, <1>7, <1>8, <1>9, <1>10, <1>11, <1>12
     DEF Next, AgentStep, PanelStep, vars, Connect, RecvLate

\* Only flush counts a sample, and only one it holds; the sample is then behind
\* the tracker and no longer in memory.
LEMMA CountedBeforeStep ==
    ASSUME TypeOK, SampledInOrder, VisibleAscending, PanelWatermarks, MemoryDisjoint,
           CountedBefore, [Next]_vars
    PROVE  CountedBefore'
<1> USE DEF pipeVars, flushVars, dbVars
<1>0. /\ tracker \in Nat /\ db \in [Samples -> Nat] /\ crashes \in Nat
      /\ seqOf \in [Samples -> Nat] /\ NoSample \notin Samples
      /\ Sampled \subseteq Sampled'
      /\ \A i \in Sampled : seqOf'[i] = seqOf[i]
  BY NumbersKept DEF TypeOK, WalTypeOK, PipeTypeOK, Samples, NoSample
<1>1. ASSUME UNCHANGED <<db, crashes>>, \A i \in Samples : Uncounted(i)' => Uncounted(i)
      PROVE  CountedBefore'
  BY <1>1 DEF CountedBefore, OncePerPanelProcess
<1>2. ASSUME UNCHANGED <<db, crashes, st, tracker>>, InMemory' \subseteq InMemory
      PROVE  CountedBefore'
  BY <1>0, <1>1, <1>2 DEF Uncounted
<1>3. CASE UNCHANGED pipeVars
  BY <1>2, <1>3 DEF InMemory
<1>4. CASE AccountFold \/ FlushCapture \/ FlushDrain \/ FlushCheck \/ FlushMark \/ SetDBHealth
  <2>1. UNCHANGED <<db, crashes, st, tracker>>
    BY <1>4 DEF AccountFold, FlushCapture, FlushDrain, FlushCheck, FlushMark, SetDBHealth
  <2>2. CASE AccountFold
    BY <1>0, <1>2, <2>1, <2>2 DEF AccountFold, InMemory, TypeOK, PipeTypeOK
  <2>3. CASE FlushCapture \/ FlushDrain \/ FlushCheck \/ FlushMark \/ SetDBHealth
    BY <1>2, <2>1, <2>3
       DEF FlushCapture, FlushDrain, FlushCheck, FlushMark, SetDBHealth, InMemory
  <2> QED
    BY <1>4, <2>2, <2>3
<1>5. CASE FlushRow
  <2>1. UNCHANGED <<st, tracker, pend, traf, crashes>> /\ st
    BY <1>5 DEF FlushRow, PanelWatermarks
  <2>2. PICK day \in Range(DayOf) :
           /\ batch' = batch \ Row(day)
           /\ \/ db' = db
              \/ db' = [i \in Samples |-> IF i \in Row(day) THEN db[i] + 1 ELSE db[i]]
    BY <1>5 DEF FlushRow
  <2>3. InMemory' \subseteq InMemory
    BY <2>1, <2>2 DEF InMemory
  <2>4. CASE db' = db
    BY <1>2, <2>1, <2>3, <2>4
  <2>5. CASE db' = [i \in Samples |-> IF i \in Row(day) THEN db[i] + 1 ELSE db[i]]
    <3>1. ASSUME NEW i \in Samples, i \in Row(day)
          PROVE  i \in InMemory /\ i \notin InMemory' /\ i \in Sampled /\ seqOf[i] <= tracker
      <4>1. i \in InMemory /\ i \notin traf /\ i # pend
        BY <3>1 DEF Row, InMemory, MemoryDisjoint
      <4>2. i \notin InMemory'
        BY <2>1, <2>2, <3>1, <4>1 DEF InMemory
      <4> QED
        BY <4>1, <4>2 DEF MemoryDisjoint
    <3>2. ASSUME NEW i \in Samples, i \in Row(day)
          PROVE  ~Uncounted(i)' /\ db'[i] <= crashes + 1
      <4>1. db[i] <= crashes /\ db'[i] = db[i] + 1
        BY <2>5, <3>1, <3>2 DEF CountedBefore, Uncounted
      <4>2. i \in Sampled' /\ ~(seqOf'[i] > tracker') /\ st'
        BY <1>0, <2>1, <3>1, <3>2
      <4> QED
        BY <1>0, <3>1, <3>2, <4>1, <4>2 DEF Uncounted
    <3>3. ASSUME NEW i \in Samples, i \notin Row(day)
          PROVE  db'[i] = db[i] /\ (Uncounted(i)' => Uncounted(i))
      BY <1>0, <2>1, <2>3, <2>5, <3>3 DEF Uncounted
    <3> QED
      BY <2>1, <3>2, <3>3 DEF CountedBefore, OncePerPanelProcess
  <2> QED
    BY <2>2, <2>4, <2>5
<1>6. CASE RecvAck \/ StartNode
  <2>1. UNCHANGED <<pend, traf, batch, db, crashes>>
    BY <1>6, SeedsTracker DEF InitNode
  <2>2. CASE st
    <3>1. tracker' = tracker /\ st' = st
      BY <1>6, <2>2, HelloIsWatermark, SeedsTracker DEF InitNode, Larger
    <3> QED
      BY <1>2, <2>1, <3>1 DEF InMemory
  <2>3. CASE ~st
    BY <1>1, <2>1, <2>3 DEF Uncounted
  <2> QED
    BY <2>2, <2>3
<1>7. CASE RecvMetrics
  <2>1. UNCHANGED <<db, crashes, st, traf, batch>>
    BY <1>7 DEF RecvMetrics, AccountAccept
  <2>2. CASE UNCHANGED <<tracker, pend>>
    BY <1>2, <2>1, <2>2 DEF InMemory
  <2>3. CASE /\ pend' = Head(send)
             /\ tracker' = seqOf[Head(send)]
             /\ seqOf[Head(send)] > tracker
    <3>1. Head(send) \in Samples /\ tracker' \in Nat
      BY <1>0, <1>7, <2>3, ReceiveQueue
    <3>2. InMemory' \subseteq InMemory \cup {Head(send)}
      BY <2>1, <2>3 DEF InMemory
    <3>3. ASSUME NEW i \in Samples, Uncounted(i)' PROVE Uncounted(i)
      BY <1>0, <2>1, <2>3, <3>1, <3>2, <3>3 DEF Uncounted
    <3> QED
      BY <1>1, <2>1, <3>3
  <2> QED
    BY <1>7, <2>2, <2>3 DEF RecvMetrics, AccountAccept, Accepts
<1>8. CASE PanelCrash
  <2>1. db' = db /\ crashes' = crashes + 1
    BY <1>8 DEF PanelCrash, PanelRestart
  <2> QED
    BY <1>0, <2>1 DEF CountedBefore, OncePerPanelProcess
<1> QED
  BY <1>3, <1>4, <1>5, <1>6, <1>7, <1>8 DEF Next, AgentStep, PanelStep, vars, Connect, RecvLate

\* flush claims at most one unwritten sample: the capture covers the buckets, and
\* besides them only what Account has in hand.
LEMMA ClaimsAtMostOneStep ==
    ASSUME TypeOK, TypeOK', SampledInOrder, VisibleAscending, PanelWatermarks, MemoryDisjoint,
           ClaimsAtMostOne, [Next]_vars
    PROVE  ClaimsAtMostOne'
<1> USE DEF pipeVars, flushVars, dbVars
<1>0. /\ tracker \in Nat /\ dbSeq \in Nat /\ seqAt \in Nat /\ seqOf \in [Samples -> Nat]
      /\ NoSample \notin Samples /\ pend \in Samples \cup {NoSample}
      /\ batch \subseteq Samples /\ traf \subseteq Samples
  <2>1. NoSample \notin Samples
    BY DEF Samples, NoSample
  <2> QED
    BY <2>1 DEF TypeOK, WalTypeOK, PipeTypeOK
<1>1. \A i \in InMemory : i \in Sampled /\ i \in Samples /\ seqOf'[i] = seqOf[i] /\ seqOf[i] <= tracker
  BY NumbersKept DEF MemoryDisjoint, Sampled
<1>2. /\ \A i, j \in InMemory : seqOf[i] <= dbSeq /\ seqOf[j] <= dbSeq => i = j
      /\ fl \in {"check", "write"} =>
            \A i, j \in InMemory \ batch : seqOf[i] <= seqAt /\ seqOf[j] <= seqAt => i = j
  BY DEF ClaimsAtMostOne, CrashLosesAtMostOne
<1>3. ASSUME InMemory' \subseteq InMemory, dbSeq' = dbSeq,
             \/ fl' \notin {"check", "write"}
             \/ /\ seqAt' = seqAt /\ fl \in {"check", "write"}
                /\ InMemory' \ batch' \subseteq InMemory \ batch
      PROVE  ClaimsAtMostOne'
  BY <1>1, <1>2, <1>3 DEF ClaimsAtMostOne, CrashLosesAtMostOne
<1>4. CASE UNCHANGED pipeVars
  BY <1>3, <1>4 DEF InMemory, TypeOK, PipeTypeOK
<1>5. CASE AccountFold
  <2>1. UNCHANGED <<fl, seqAt, dbSeq, batch>> /\ InMemory' = InMemory
    BY <1>0, <1>5 DEF AccountFold, InMemory
  <2> QED
    BY <1>3, <2>1
<1>6. CASE FlushCapture
  BY <1>3, <1>6 DEF FlushCapture, InMemory
<1>7. CASE FlushDrain
  <2>1. /\ fl = "drain" /\ batch = {} /\ batch' = traf /\ traf' = {} /\ pend' = pend
        /\ UNCHANGED <<seqAt, dbSeq>>
    BY <1>7 DEF FlushDrain, MemoryDisjoint
  <2>2. InMemory' = InMemory
    BY <2>1 DEF InMemory
  <2>3. \A i, j \in InMemory' \ batch' : i = j
    BY <2>1 DEF InMemory
  <2> QED
    BY <1>1, <1>2, <2>1, <2>2, <2>3 DEF ClaimsAtMostOne, CrashLosesAtMostOne
<1>8. CASE FlushCheck
  BY <1>3, <1>8 DEF FlushCheck, InMemory
<1>9. CASE FlushRow
  <2>1. UNCHANGED <<fl, seqAt, dbSeq, traf, pend>> /\ fl = "write" /\ batch' \subseteq batch
    BY <1>9 DEF FlushRow
  <2>2. InMemory' \subseteq InMemory
    BY <2>1 DEF InMemory
  <2>3. InMemory' \ batch' \subseteq InMemory \ batch
    BY <2>1 DEF InMemory, MemoryDisjoint
  <2> QED
    BY <1>3, <2>1, <2>2, <2>3
<1>10. CASE FlushMark
  <2>1. /\ fl = "write" /\ batch = {} /\ fl' = "idle" /\ InMemory' = InMemory
        /\ dbSeq' = dbSeq \/ dbSeq' = seqAt
    BY <1>10 DEF FlushMark, SetNodeLastCommitSeq, Larger, InMemory
  <2> QED
    BY <1>1, <1>2, <2>1 DEF ClaimsAtMostOne, CrashLosesAtMostOne
<1>11. CASE SetDBHealth
  BY <1>3, <1>11 DEF SetDBHealth, InMemory
<1>12. CASE RecvAck \/ StartNode
  BY <1>3, <1>12, SeedsTracker DEF InitNode, InMemory
<1>13. CASE RecvMetrics
  <2>1. UNCHANGED <<fl, seqAt, dbSeq, traf, batch>> /\ st
    BY <1>13 DEF RecvMetrics, AccountAccept
  <2>2. CASE pend' = pend
    BY <1>3, <2>1, <2>2 DEF InMemory
  <2>3. CASE pend = NoSample /\ pend' = Head(send) /\ seqOf[Head(send)] > tracker
    <3>1. Head(send) \in Samples /\ Head(send) \in Sampled
      BY <1>13, ReceiveQueue, VisibleIsSampled DEF Visible
    <3>2. seqOf'[Head(send)] = seqOf[Head(send)] /\ seqOf[Head(send)] > dbSeq /\ seqOf[Head(send)] > seqAt
      BY <1>0, <2>1, <2>3, <3>1, NumbersKept DEF PanelWatermarks, WatermarksOrdered
    <3>3. InMemory' \subseteq InMemory \cup {Head(send)} /\ InMemory' \ batch' \subseteq (InMemory \ batch) \cup {Head(send)}
      BY <2>1, <2>3 DEF InMemory
    <3>4. ASSUME NEW i \in InMemory', seqOf'[i] <= dbSeq \/ seqOf'[i] <= seqAt
          PROVE  i \in InMemory /\ seqOf'[i] = seqOf[i]
      BY <1>0, <1>1, <3>1, <3>2, <3>3, <3>4
    <3>5. \A i, j \in InMemory' : seqOf'[i] <= dbSeq' /\ seqOf'[j] <= dbSeq' => i = j
      BY <1>2, <2>1, <3>4
    <3>6. fl' \in {"check", "write"} =>
             \A i, j \in InMemory' \ batch' : seqOf'[i] <= seqAt' /\ seqOf'[j] <= seqAt' => i = j
      BY <1>2, <2>1, <3>4
    <3> QED
      BY <3>5, <3>6 DEF ClaimsAtMostOne, CrashLosesAtMostOne
  <2> QED
    BY <1>13, <2>2, <2>3 DEF RecvMetrics, AccountAccept, Accepts
<1>14. CASE PanelCrash
  <2>1. InMemory' = {}
    BY <1>0, <1>14 DEF PanelCrash, PanelRestart, InMemory
  <2> QED
    BY <2>1 DEF ClaimsAtMostOne, CrashLosesAtMostOne
<1> QED
  BY <1>4, <1>5, <1>6, <1>7, <1>8, <1>9, <1>10, <1>11, <1>12, <1>13, <1>14
     DEF Next, AgentStep, PanelStep, vars, Connect, RecvLate

----------------------------------------------------------------------------
(***************************************************************************)
(* Replay and watermark: nothing in the log is passed over.                *)
(***************************************************************************)

\* A loss is never taken back.
LEMMA ExcusedGrows ==
    ASSUME TypeOK, SampledInOrder, VisibleAscending, [Next]_vars
    PROVE  Excused \subseteq Excused'
<1> USE DEF agentVars, replayVars, pipeVars, flushVars, dbVars
<1>1. cut \subseteq cut' /\ dropped \subseteq dropped'
  <2>1. CASE AgentStep
    BY <2>1 DEF AgentStep, Sample, Broadcast, Enqueue, BackfillSend, BackfillTimeout, BackfillError,
                RoundEnd, OpenGate, Disconnect, AgentRestart, RotateWal, CloseSession
  <2> QED
    BY <2>1 DEF Next, PanelStep, vars, Connect, OpenSession, RecvAck, RecvMetrics, RecvLate,
                PanelCrash, CloseSession
<1>2. discarded \subseteq discarded' /\ stranded \subseteq stranded'
  <2>1. CASE PanelStep
    BY <2>1 DEF PanelStep, AccountFold, FlushCapture, FlushDrain, FlushCheck, FlushRow, FlushMark,
                SetDBHealth, StartNode, InitNode
  <2> QED
    BY <2>1 DEF Next, AgentStep, vars, Connect, RecvAck, InitNode, RecvMetrics, AccountAccept,
                RecvLate, PanelCrash, PanelRestart
<1>3. Renumbered \subseteq Renumbered'
  <2> SUFFICES ASSUME NEW i \in Renumbered PROVE i \in Renumbered'
    OBVIOUS
  <2>1. PICK j \in Samples : j < i /\ seqOf[j] >= seqOf[i]
    BY DEF Renumbered
  <2>2. i \in Sampled /\ j \in Sampled
    BY <2>1 DEF Renumbered, Sampled, TypeOK, WalTypeOK
  <2> QED
    BY <2>1, <2>2, NumbersKept DEF Renumbered
<1> QED
  BY <1>1, <1>2, <1>3 DEF Excused

\* A new sample whose number is not a reused one is past every watermark.
LEMMA NewNumberAhead ==
    ASSUME TypeOK, SampledInOrder, VisibleAscending, NEW i \in Samples, Sample(i),
           i \notin Renumbered', NEW s \in Nat, Known(s)
    PROVE  s < seqOf'[i]
<1>1. /\ seqOf'[i] = seq + 1
      /\ i \in Sampled'
      /\ seqOf[i] = 0
      /\ \A j \in Samples : j # i => seqOf'[j] = seqOf[j]
      /\ \A j \in Samples : seqOf[j] > 0 <=> j < i
  BY SampleTaken
<1>2. seq \in Nat /\ seqOf \in [Samples -> Nat]
  BY DEF TypeOK, WalTypeOK
<1>3. CASE s = 0
  BY <1>1, <1>2, <1>3
<1>4. CASE \E j \in Sampled : s <= seqOf[j]
  <2>1. PICK j \in Sampled : s <= seqOf[j]
    BY <1>4
  <2>2. j \in Samples /\ j < i /\ j # i
    BY <1>1, <1>2, <2>1 DEF Sampled
  <2>3. ~(seqOf'[j] >= seqOf'[i])
    BY <1>1, <2>2 DEF Renumbered
  <2>4. seqOf'[j] = seqOf[j] /\ seqOf[j] \in Nat /\ seqOf'[i] \in Nat
    BY <1>1, <1>2, <2>2
  <2> QED
    BY <2>1, <2>3, <2>4
<1> QED
  BY <1>3, <1>4 DEF Known

\* Flushing, connecting and everything the agent does leave the panel's
\* watermark alone.
LEMMA WatermarkKept ==
    ASSUME TypeOK, TypeOK', PanelWatermarks, PanelWatermarks',
           AgentStep \/ PanelStep \/ Connect \/ RecvAck \/ RecvLate \/ UNCHANGED vars
    PROVE  HelloSeq' = HelloSeq
<1> USE DEF pipeVars, flushVars, dbVars
<1>1. HelloSeq \in Nat /\ HelloSeq = IF st THEN tracker ELSE dbSeq
  BY HelloIsWatermark
<1>2. HelloSeq' \in Nat /\ HelloSeq' = IF st' THEN tracker' ELSE dbSeq'
  BY HelloIsWatermarkNext
<1>3. CASE UNCHANGED <<st, tracker, dbSeq>>
  BY <1>1, <1>2, <1>3
<1>4. CASE FlushMark
  <2>1. st /\ st' = st /\ tracker' = tracker
    BY <1>4 DEF FlushMark, PanelWatermarks
  <2> QED
    BY <1>1, <1>2, <2>1
<1>5. CASE RecvAck \/ StartNode
  <2>1. st' = TRUE /\ tracker' = IF st THEN Larger(tracker, HelloSeq) ELSE HelloSeq
    BY <1>5, SeedsTracker DEF InitNode
  <2> QED
    BY <1>1, <1>2, <2>1 DEF Larger
<1> QED
  BY <1>3, <1>4, <1>5
     DEF AgentStep, PanelStep, vars, Connect, RecvLate, AccountFold, FlushCapture, FlushDrain,
         FlushCheck, FlushRow, SetDBHealth

\* Account moves it to the sample it accepts, and drops a sample behind it.
LEMMA WatermarkAccepts ==
    ASSUME TypeOK, TypeOK', PanelWatermarks, PanelWatermarks', RecvMetrics
    PROVE  /\ HelloSeq \in Nat /\ HelloSeq' \in Nat
           /\ \/ /\ HelloSeq' = HelloSeq
                 /\ pend' = pend
                 /\ seqOf[Head(send)] <= HelloSeq
              \/ /\ HelloSeq' = seqOf[Head(send)]
                 /\ pend = NoSample
                 /\ pend' = Head(send)
                 /\ HelloSeq < HelloSeq'
           /\ UNCHANGED <<traf, batch, db, discarded, stranded>>
<1> USE DEF pipeVars, flushVars, dbVars
<1>1. HelloSeq \in Nat /\ HelloSeq = IF st THEN tracker ELSE dbSeq
  BY HelloIsWatermark
<1>2. HelloSeq' \in Nat /\ HelloSeq' = IF st' THEN tracker' ELSE dbSeq'
  BY HelloIsWatermarkNext
<1>3. seqOf[Head(send)] \in Nat
  BY ReceiveQueue DEF TypeOK, WalTypeOK
<1>4. /\ st /\ st' = st
      /\ \/ tracker' = tracker /\ pend' = pend /\ ~(seqOf[Head(send)] > tracker)
         \/ /\ tracker' = seqOf[Head(send)] /\ seqOf[Head(send)] > tracker
            /\ pend = NoSample /\ pend' = Head(send)
      /\ UNCHANGED <<traf, batch, db, discarded, stranded>>
  BY DEF RecvMetrics, AccountAccept, Accepts
<1> QED
  BY <1>1, <1>2, <1>3, <1>4

\* What the log still holds and the panel has not seen stays in the queue: the
\* replay picks the records up in order, the gate hands over to Broadcast.
LEMMA ReplayCoversStep ==
    ASSUME TypeOK, TypeOK', SampledInOrder, VisibleAscending, ReplaySound, WatermarksKnown,
           PanelWatermarks, PanelWatermarks', ReplayCovers, [Next]_vars
    PROVE  ReplayCovers'
<1> USE DEF walVars, agentVars, replayVars
<1>0. /\ Excused \subseteq Excused'
      /\ HelloSeq \in Nat /\ HelloSeq' \in Nat
      /\ cursor \in Nat /\ seqOf \in [Samples -> Nat]
      /\ wal \subseteq Samples /\ NoSample \notin Samples
  <2>1. Excused \subseteq Excused'
    BY ExcusedGrows
  <2>2. HelloSeq \in Nat /\ HelloSeq' \in Nat
    BY HelloIsWatermark, HelloIsWatermarkNext
  <2>3. cursor \in Nat /\ seqOf \in [Samples -> Nat] /\ wal \subseteq Samples /\ NoSample \notin Samples
    BY DEF TypeOK, WalTypeOK, AgentTypeOK, Samples, NoSample
  <2> QED
    BY <2>1, <2>2, <2>3
<1>1. ASSUME wal' \subseteq wal, seqOf' = seqOf, Range(send) \subseteq Range(send'),
             \A i \in wal' \ Excused' : Due(i)' => Due(i)
      PROVE  ReplayCovers'
  BY <1>0, <1>1 DEF ReplayCovers
<1>2. ASSUME NEW k \in Samples, Sample(k), AgentStep PROVE ReplayCovers'
  <2>1. wal' \subseteq wal \cup {k} /\ UNCHANGED <<send, bf, cursor>> /\ smp = NoSample /\ smp' = k
    BY <1>2 DEF Sample, AppendOk, AppendFails
  <2>2. HelloSeq' = HelloSeq
    BY <1>2, WatermarkKept
  <2>3. ASSUME NEW i \in wal' \ Excused', Due(i)' PROVE i \in Range(send')
    <3>1. CASE i = k
      <4>1. cursor < seqOf'[k]
        BY <1>0, <1>2, <2>3, <3>1, NewNumberAhead DEF WatermarksKnown, Excused
      <4>2. seqOf'[k] \in Nat
        BY <1>2 DEF TypeOK, WalTypeOK
      <4> QED
        BY <1>0, <2>1, <2>3, <3>1, <4>1, <4>2 DEF Due
    <3>2. CASE i # k
      <4>1. i \in wal /\ i \notin Excused /\ seqOf'[i] = seqOf[i] /\ i # NoSample
        BY <1>0, <1>2, <2>1, <2>3, <3>2, SampleTaken
      <4>2. Due(i)
        BY <2>1, <2>2, <2>3, <4>1 DEF Due, Replaying, Ready
      <4> QED
        BY <2>1, <4>1, <4>2 DEF ReplayCovers
    <3> QED
      BY <3>1, <3>2
  <2> QED
    BY <2>3 DEF ReplayCovers
<1>3. CASE Broadcast /\ AgentStep
  <2>1. HelloSeq' = HelloSeq /\ UNCHANGED <<wal, seqOf, bf, cursor>> /\ smp' = NoSample
    BY <1>3, WatermarkKept DEF Broadcast
  <2>2. Range(send) \subseteq Range(send')
    BY <1>3, BroadcastQueue
  <2>3. ASSUME NEW i \in wal' \ Excused', Due(i)' PROVE i \in Range(send')
    <3>1. CASE i = smp /\ Ready
      <4>1. i \notin dropped'
        BY <2>3 DEF Excused
      <4>2. send' = Append(send, smp)
        BY <1>3, <3>1, <4>1 DEF Broadcast, Enqueue
      <4> QED
        BY <3>1, <4>2, BroadcastQueue, <1>3
    <3>2. CASE ~(i = smp /\ Ready)
      BY <1>0, <2>1, <2>2, <2>3, <3>2 DEF ReplayCovers, Due, Replaying, Ready
    <3> QED
      BY <3>1, <3>2
  <2> QED
    BY <2>3 DEF ReplayCovers
<1>4. CASE BackfillSend /\ AgentStep
  <2>1. PICK x \in Samples : /\ IsNextRecord(View, cursor, x)
                             /\ Range(send') = Range(send) \cup {x}
                             /\ cursor' = seqOf[x]
    BY <1>4, BackfillQueue
  <2>2. HelloSeq' = HelloSeq /\ UNCHANGED <<wal, seqOf, bf, smp>> /\ bf = "round"
    BY <1>4, WatermarkKept DEF BackfillSend
  <2>3. ASSUME NEW i \in wal, seqOf[i] > cursor, seqOf[i] <= seqOf[x] PROVE i = x
    <3>1. x \in Visible /\ i \in Visible /\ i \in Samples
      BY <1>0, <2>1 DEF IsNextRecord, View, Visible
    <3>2. i < x => seqOf[i] < seqOf[x]
      BY <3>1 DEF VisibleAscending
    <3>3. x < i => seqOf[x] < seqOf[i]
      BY <3>1 DEF VisibleAscending
    <3>4. CASE i \in View
      <4>1. seqOf[x] = seqOf[i]
        BY <1>0, <2>1, <2>3, <3>1, <3>4 DEF IsNextRecord
      <4> QED
        BY <1>0, <3>1, <3>2, <3>3, <4>1 DEF Samples
    <3>5. CASE i \notin View
      <4>1. frozen /\ i \in wal \ snap /\ x \in snap
        BY <2>1, <3>5 DEF View, IsNextRecord
      <4>2. x < i
        BY <4>1 DEF ReplaySound
      <4> QED
        BY <1>0, <2>3, <3>1, <3>3, <4>2
    <3> QED
      BY <3>4, <3>5
  <2>4. ASSUME NEW i \in wal' \ Excused', Due(i)' PROVE i \in Range(send')
    <3>1. HelloSeq < seqOf[i] /\ seqOf[i] <= seqOf[x] /\ i \in wal \ Excused
      BY <1>0, <2>1, <2>2, <2>4 DEF Due, Ready
    <3>2. CASE seqOf[i] <= cursor
      BY <2>1, <2>2, <3>1, <3>2 DEF ReplayCovers, Due, Replaying
    <3>3. CASE ~(seqOf[i] <= cursor)
      BY <1>0, <2>1, <2>3, <3>1, <3>3
    <3> QED
      BY <3>2, <3>3
  <2> QED
    BY <2>4 DEF ReplayCovers
<1>5. CASE (BackfillTimeout \/ BackfillError \/ RoundEnd \/ RotateWal) /\ AgentStep
  <2>1. /\ wal' \subseteq wal
        /\ UNCHANGED <<seqOf, send, cursor, smp>>
        /\ Replaying' = Replaying /\ Ready' = Ready
    BY <1>5 DEF BackfillTimeout, BackfillError, RoundEnd, RotateWal, Rotate, Replaying, Ready
  <2>2. HelloSeq' = HelloSeq
    BY <1>5, WatermarkKept
  <2> QED
    BY <1>1, <2>1, <2>2 DEF Due
<1>6. CASE OpenGate /\ AgentStep
  <2>1. HelloSeq' = HelloSeq /\ UNCHANGED <<wal, seqOf, send, cursor, smp>> /\ bf = "closing" /\ bf' = "done"
    BY <1>6, WatermarkKept DEF OpenGate
  <2>2. ASSUME NEW i \in wal' \ Excused', Due(i)' PROVE Due(i)
    <3>1. i \notin cut' /\ i # smp /\ i \in wal /\ HelloSeq < seqOf[i]
      BY <2>1, <2>2 DEF Excused, Due, Replaying
    <3>2. seqOf[i] <= cursor
      BY <1>0, <1>6, <3>1 DEF OpenGate
    <3> QED
      BY <2>1, <3>1, <3>2 DEF Due, Replaying
  <2> QED
    BY <1>1, <2>1, <2>2
<1>7. CASE bf' = "off"
  BY <1>7 DEF ReplayCovers, Due, Replaying, Ready
<1>8. CASE Connect
  <2>1. HelloSeq' = HelloSeq /\ UNCHANGED <<wal, seqOf>> /\ bf' = "round" /\ cursor' = HelloSeq
    BY <1>8, WatermarkKept DEF Connect, OpenSession
  <2>2. ASSUME NEW i \in wal PROVE ~Due(i)'
    BY <1>0, <2>1 DEF Due, Ready
  <2> QED
    BY <2>1, <2>2 DEF ReplayCovers
<1>9. CASE RecvAck \/ PanelStep \/ UNCHANGED vars
  <2>1. HelloSeq' = HelloSeq
    BY <1>9, WatermarkKept
  <2>2. UNCHANGED <<wal, seqOf, send, bf, cursor, smp>>
    BY <1>9 DEF RecvAck, PanelStep, vars
  <2> QED
    BY <1>1, <2>1, <2>2 DEF Due, Replaying, Ready
<1>10. CASE RecvMetrics \/ RecvLate
  <2>1. UNCHANGED <<wal, seqOf, bf, cursor, smp>>
    BY <1>10 DEF RecvMetrics, RecvLate
  <2>2. HelloSeq <= HelloSeq' /\ (RecvMetrics => seqOf[Head(send)] <= HelloSeq')
    BY <1>0, <1>10, WatermarkAccepts, WatermarkKept
  <2>3. ASSUME NEW i \in wal' \ Excused', Due(i)' PROVE i \in Range(send')
    <3>1. i \in wal \ Excused /\ Due(i) /\ HelloSeq' < seqOf[i]
      BY <1>0, <2>1, <2>2, <2>3 DEF Due, Replaying, Ready
    <3>2. i \in Range(send)
      BY <3>1 DEF ReplayCovers
    <3>3. CASE i = Head(send)
      <4>1. ~RecvMetrics
        BY <1>0, <2>2, <3>1, <3>3
      <4>2. i \in dropped'
        BY <1>10, <3>3, <4>1 DEF RecvLate
      <4> QED
        BY <2>3, <4>2 DEF Excused
    <3>4. CASE i # Head(send)
      BY <1>10, <3>2, <3>4, ReceiveQueue
    <3> QED
      BY <3>3, <3>4
  <2> QED
    BY <2>3 DEF ReplayCovers
<1> QED
  BY <1>2, <1>3, <1>4, <1>5, <1>6, <1>7, <1>8, <1>9, <1>10
     DEF Next, AgentStep, Disconnect, AgentRestart, PanelCrash, CloseSession

\* A recorded sample stays recorded, or is one of the named losses, as long as
\* the panel process lives.
LEMMA RecordedKept ==
    ASSUME TypeOK, MemoryDisjoint, [Next]_vars, ~PanelCrash,
           NEW i \in Samples, Recorded(i), i \notin Excused'
    PROVE  Recorded(i)'
<1> USE DEF pipeVars, flushVars, dbVars
<1>0. db \in [Samples -> Nat] /\ i # NoSample
  BY DEF TypeOK, PipeTypeOK, Samples, NoSample
<1>1. i \notin discarded'
  BY DEF Excused
<1>2. CASE UNCHANGED pipeVars
  BY <1>2 DEF Recorded, InMemory
<1>3. CASE AccountFold
  BY <1>3 DEF AccountFold, Recorded, InMemory
<1>4. CASE FlushCapture \/ FlushMark \/ SetDBHealth
  BY <1>4 DEF FlushCapture, FlushMark, SetDBHealth, Recorded, InMemory
<1>5. CASE FlushDrain
  BY <1>5 DEF FlushDrain, Recorded, InMemory, MemoryDisjoint
<1>6. CASE FlushCheck
  BY <1>1, <1>6 DEF FlushCheck, Recorded, InMemory
<1>7. CASE FlushRow
  <2>1. PICK day \in Range(DayOf) :
           /\ batch' = batch \ Row(day)
           /\ \/ db' = [j \in Samples |-> IF j \in Row(day) THEN db[j] + 1 ELSE db[j]]
              \/ db' = db /\ Row(day) \subseteq discarded'
    BY <1>7 DEF FlushRow
  <2>2. UNCHANGED <<traf, pend>>
    BY <1>7 DEF FlushRow
  <2>3. CASE i \in Row(day)
    BY <1>0, <1>1, <2>1, <2>3 DEF Recorded
  <2>4. CASE i \notin Row(day)
    BY <1>0, <2>1, <2>2, <2>4 DEF Recorded, InMemory
  <2> QED
    BY <2>3, <2>4
<1>8. CASE RecvAck \/ StartNode
  BY <1>8, SeedsTracker DEF InitNode, Recorded, InMemory
<1>9. CASE RecvMetrics
  BY <1>0, <1>9 DEF RecvMetrics, AccountAccept, Recorded, InMemory
<1> QED
  BY <1>2, <1>3, <1>4, <1>5, <1>6, <1>7, <1>8, <1>9
     DEF Next, AgentStep, PanelStep, vars, Connect, RecvLate

\* The panel never passes over a sample the log still holds, in every step.
LEMMA NoSilentLossStep ==
    ASSUME TypeOK, TypeOK', SampledInOrder, VisibleAscending, ReplaySound, DeliveredInOrder,
           WatermarksKnown, PanelWatermarks, PanelWatermarks', MemoryDisjoint, ReplayCovers,
           NoSilentLoss, [Next]_vars
    PROVE  NoSilentLoss'
<1> USE DEF walVars, agentVars, replayVars
<1>0. /\ Excused \subseteq Excused'
      /\ HelloSeq \in Nat /\ HelloSeq' \in Nat
      /\ HelloSeq = Larger(dbSeq, CommitSeq) /\ HelloSeq' = Larger(dbSeq', CommitSeq')
      /\ seqOf \in [Samples -> Nat] /\ wal \subseteq Samples /\ wal' \subseteq Samples
  BY ExcusedGrows, HelloIsWatermark, HelloIsWatermarkNext DEF TypeOK, WalTypeOK
<1>1. ASSUME NEW i \in wal \ Excused, seqOf[i] <= HelloSeq PROVE Recorded(i)
  BY <1>0, <1>1 DEF NoSilentLoss
<1>2. ASSUME ~PanelCrash, wal' \subseteq wal, seqOf' = seqOf, HelloSeq' = HelloSeq
      PROVE  NoSilentLoss'
  <2> SUFFICES ASSUME NEW i \in wal' \ Excused', seqOf'[i] <= HelloSeq' PROVE Recorded(i)'
    BY <1>0 DEF NoSilentLoss
  <2>1. Recorded(i)
    BY <1>0, <1>1, <1>2
  <2> QED
    BY <1>0, <1>2, <2>1, RecordedKept
<1>3. ASSUME NEW k \in Samples, Sample(k), AgentStep, ~PanelCrash PROVE NoSilentLoss'
  <2> SUFFICES ASSUME NEW i \in wal' \ Excused', seqOf'[i] <= HelloSeq' PROVE Recorded(i)'
    BY <1>0 DEF NoSilentLoss
  <2>1. HelloSeq' = HelloSeq /\ wal' \subseteq wal \cup {k}
    BY <1>3, WatermarkKept DEF Sample, AppendOk, AppendFails
  <2>2. i # k
    <3>1. SUFFICES ASSUME i = k PROVE FALSE
      OBVIOUS
    <3>2. Known(HelloSeq)
      BY HelloIsWatermark DEF WatermarksKnown
    <3>3. HelloSeq < seqOf'[k] /\ seqOf'[k] \in Nat
      BY <1>0, <1>3, <3>1, <3>2, NewNumberAhead DEF Excused, TypeOK, WalTypeOK
    <3> QED
      BY <1>0, <2>1, <3>1, <3>3
  <2>3. i \in wal \ Excused /\ seqOf'[i] = seqOf[i]
    BY <1>0, <1>3, <2>1, <2>2, SampleTaken
  <2>4. Recorded(i)
    BY <1>1, <2>1, <2>3
  <2> QED
    BY <1>0, <1>3, <2>4, RecordedKept
<1>4. CASE AgentStep /\ ~PanelCrash /\ \A k \in Samples : ~Sample(k)
  <2>1. HelloSeq' = HelloSeq
    BY <1>4, WatermarkKept
  <2>2. wal' \subseteq wal
    BY <1>4 DEF AgentStep, Broadcast, BackfillSend, BackfillTimeout, BackfillError, RoundEnd,
                OpenGate, Disconnect, AgentRestart, OpenWAL, RotateWal, Rotate
  <2> QED
    BY <1>2, <1>4, <2>1, <2>2, VisibleShrinks
<1>5. CASE (PanelStep \/ Connect \/ RecvAck \/ RecvLate \/ UNCHANGED vars) /\ ~PanelCrash
  <2>1. HelloSeq' = HelloSeq
    BY <1>5, WatermarkKept
  <2>2. UNCHANGED <<wal, seqOf>>
    BY <1>5 DEF PanelStep, Connect, OpenSession, RecvAck, RecvLate, vars
  <2> QED
    BY <1>2, <1>5, <2>1, <2>2
<1>6. CASE RecvMetrics /\ ~PanelCrash
  <2>1. UNCHANGED <<wal, seqOf>> /\ link = "up"
    BY <1>6 DEF RecvMetrics
  <2>2. CASE HelloSeq' = HelloSeq
    BY <1>2, <1>6, <2>1, <2>2
  <2>3. CASE HelloSeq' = seqOf[Head(send)] /\ pend' = Head(send)
    <3> SUFFICES ASSUME NEW i \in wal' \ Excused', seqOf'[i] <= HelloSeq' PROVE Recorded(i)'
      BY <1>0 DEF NoSilentLoss
    <3>1. i \in wal \ Excused /\ i \in Samples /\ seqOf[i] <= seqOf[Head(send)]
      BY <1>0, <2>1, <2>3
    <3>2. CASE seqOf[i] <= HelloSeq
      BY <1>1, <1>6, <3>1, <3>2, RecordedKept
    <3>3. CASE HelloSeq < seqOf[i]
      <4>1. Head(send) \in Samples /\ Head(send) \in Range(send) /\ Head(send) \in Visible
        BY <1>6, ReceiveQueue DEF Visible
      <4>2. Replaying \/ Ready
        BY <2>1 DEF TypeOK, AgentTypeOK, Replaying, Ready
      <4>3. seqOf[Head(send)] <= seqOf[i]
        <5>1. CASE Due(i)
          <6>1. i \in Range(send)
            BY <3>1, <5>1 DEF ReplayCovers
          <6>2. PICK k \in 1..Len(send) : send[k] = i
            BY <6>1 DEF Range, TypeOK, AgentTypeOK
          <6>3. send # <<>> /\ Head(send) = send[1] /\ 1 \in 1..Len(send)
            BY <1>6, ReceiveQueue DEF TypeOK, AgentTypeOK
          <6>4. CASE k = 1
            BY <1>0, <3>1, <6>2, <6>3, <6>4
          <6>5. CASE k # 1
            BY <6>2, <6>3, <6>5 DEF DeliveredInOrder
          <6> QED
            BY <6>4, <6>5
        <5>2. CASE ~Due(i)
          <6>1. ~Replaying
            BY <1>0, <3>1, <3>3, <4>1, <5>2 DEF Due, ReplaySound, TypeOK, AgentTypeOK
          <6>2. i = smp
            BY <3>3, <4>2, <5>2, <6>1 DEF Due
          <6>3. seqOf[i] = seq
            BY <3>1, <6>2 DEF SampledInOrder, NoSample, Samples
          <6> QED
            BY <4>1, <6>3 DEF VisibleAscending
        <5> QED
          BY <5>1, <5>2
      <4>4. i \in Visible
        BY <3>1 DEF Visible
      <4>5. i = Head(send)
        <5>1. i < Head(send) => seqOf[i] < seqOf[Head(send)]
          BY <4>1, <4>4 DEF VisibleAscending
        <5>2. Head(send) < i => seqOf[Head(send)] < seqOf[i]
          BY <4>1, <4>4 DEF VisibleAscending
        <5> QED
          BY <1>0, <3>1, <4>1, <4>3, <5>1, <5>2 DEF Samples
      <4> QED
        BY <2>3, <3>1, <4>5 DEF Recorded, InMemory
    <3> QED
      BY <1>0, <3>1, <3>2, <3>3
  <2> QED
    BY <1>6, <2>2, <2>3, WatermarkAccepts
<1>7. CASE PanelCrash
  <2>1. UNCHANGED <<wal, seqOf, db, dbSeq>> /\ st' = FALSE
    BY <1>7 DEF PanelCrash, PanelRestart, dbVars
  <2>2. HelloSeq' = dbSeq
    BY <2>1, HelloIsWatermarkNext
  <2>3. dbSeq <= HelloSeq /\ dbSeq \in Nat
    BY <1>0, HelloIsWatermark DEF PanelWatermarks, WatermarksOrdered, TypeOK, PipeTypeOK
  <2> SUFFICES ASSUME NEW i \in wal' \ Excused', seqOf'[i] <= HelloSeq' PROVE Recorded(i)'
    BY <1>0 DEF NoSilentLoss
  <2>4. i \in wal \ Excused /\ i \in Samples /\ seqOf[i] <= dbSeq /\ seqOf[i] <= HelloSeq
    BY <1>0, <2>1, <2>2, <2>3
  <2>5. Recorded(i)
    BY <1>1, <2>4
  <2>6. i \notin InMemory
    <3>1. i \notin stranded'
      BY DEF Excused
    <3> QED
      BY <1>7, <2>4, <3>1 DEF PanelCrash, PanelRestart
  <2> QED
    BY <2>1, <2>5, <2>6 DEF Recorded
<1> QED
  BY <1>3, <1>4, <1>5, <1>6, <1>7 DEF Next

----------------------------------------------------------------------------
(***************************************************************************)
(* The theorems.                                                           *)
(***************************************************************************)

\* The invariant holds in the empty system.
LEMMA IInvInit ==
    ASSUME Init PROVE IInv
<1> USE DEF Init, WalInit, AgentInit, PipeInit
<1>1. TypeOK
  BY TypeInit
<1>2. Sampled = {} /\ Range(send) = {} /\ Len(send) = 0 /\ NoSample \notin Samples
  BY RangeOfEmpty DEF Sampled, NoSample, Samples
<1>3. Visible = {} /\ InMemory = {}
  BY <1>2 DEF Visible, InMemory
<1>4. SampledInOrder /\ VisibleAscending
  BY <1>2, <1>3 DEF SampledInOrder, VisibleAscending, NoSample
<1>5. ReplaySound /\ DeliveredInOrder
  BY <1>2 DEF ReplaySound, Replaying, DeliveredInOrder
<1>6. WatermarksKnown
  BY DEF WatermarksKnown, Known
<1>7. PanelWatermarks
  BY <1>3 DEF PanelWatermarks, WatermarksOrdered
<1>8. MemoryDisjoint
  BY <1>3 DEF MemoryDisjoint
<1>9. CountedBefore
  BY DEF CountedBefore, OncePerPanelProcess
<1>10. ReplayCovers /\ NoSilentLoss
  BY DEF ReplayCovers, NoSilentLoss
<1>11. ClaimsAtMostOne
  BY <1>3 DEF ClaimsAtMostOne, CrashLosesAtMostOne
<1> QED
  BY <1>1, <1>4, <1>5, <1>6, <1>7, <1>8, <1>9, <1>10, <1>11 DEF IInv

\* Every step of agent, link and panel preserves it.
LEMMA IInvStep ==
    ASSUME IInv, [Next]_vars PROVE IInv'
<1> USE DEF IInv
<1>1. TypeOK'
  BY TypeStep
<1>2. SampledInOrder'
  BY SampledInOrderStep
<1>3. VisibleAscending'
  BY VisibleAscendingStep
<1>4. ReplaySound'
  BY ReplaySoundStep
<1>5. DeliveredInOrder'
  BY DeliveredInOrderStep
<1>6. WatermarksKnown'
  BY WatermarksKnownStep
<1>7. PanelWatermarks'
  BY PanelWatermarksStep
<1>8. MemoryDisjoint'
  BY MemoryDisjointStep
<1>9. CountedBefore'
  BY CountedBeforeStep
<1>10. ReplayCovers'
  BY <1>1, <1>7, ReplayCoversStep
<1>11. NoSilentLoss'
  BY <1>1, <1>7, NoSilentLossStep
<1>12. ClaimsAtMostOne'
  BY <1>1, ClaimsAtMostOneStep
<1> QED
  BY <1>1, <1>2, <1>3, <1>4, <1>5, <1>6, <1>7, <1>8, <1>9, <1>10, <1>11, <1>12

\* The inductive invariant holds throughout, for any number of samples, queue
\* length, replay rounds, faults and crashes.
THEOREM Invariance == Spec => []IInv
<1>1. Init => IInv
  BY IInvInit
<1>2. IInv /\ [Next]_vars => IInv'
  BY IInvStep
<1> QED
  BY <1>1, <1>2, PTL DEF Spec

\* The panel's watermark never passes over a sample that the agent's log still
\* holds, except for the named losses (backfill, broadcastSample, Account and
\* flush together).
THEOREM NothingSilentlyLost == Spec => []NoSilentLoss
<1>1. IInv => NoSilentLoss
  BY DEF IInv
<1> QED
  BY <1>1, Invariance, PTL

\* Metrics reach the panel in the order of their sequence numbers, so that
\* SeqTracker's "higher than the last one" is a sound test for "new".
THEOREM OrderedDelivery == Spec => []DeliveredInOrder
<1>1. IInv => DeliveredInOrder
  BY DEF IInv
<1> QED
  BY <1>1, Invariance, PTL

\* A sample enters the daily totals at most once per panel process.
THEOREM CountedOncePerProcess == Spec => []OncePerPanelProcess
<1>1. IInv => OncePerPanelProcess
  BY DEF IInv, CountedBefore
<1> QED
  BY <1>1, Invariance, PTL

\* A crash of the panel loses at most one sample for good.
THEOREM OneLossPerCrash == Spec => []CrashLosesAtMostOne
<1>1. IInv => CrashLosesAtMostOne
  BY DEF IInv, ClaimsAtMostOne
<1> QED
  BY <1>1, Invariance, PTL

\* The stored watermark stays between what flush believes persisted and what
\* Account has seen.
THEOREM OrderedWatermarks == Spec => []WatermarksOrdered
<1>1. IInv => WatermarksOrdered
  BY DEF IInv, PanelWatermarks
<1> QED
  BY <1>1, Invariance, PTL

\* No step lowers the stored watermark or the tracker of a running panel.
THEOREM RisingWatermarks == Spec => WatermarksRise
<1>1. ASSUME IInv, [Next]_vars
      PROVE  [dbSeq' >= dbSeq /\ (st /\ st' => tracker' >= tracker)]_vars
  <2> USE DEF pipeVars, flushVars, dbVars
  <2>1. dbSeq \in Nat /\ tracker \in Nat /\ seqOf \in [Samples -> Nat] /\ seqAt \in Nat
    BY <1>1 DEF IInv, TypeOK, WalTypeOK, PipeTypeOK
  <2>2. dbSeq' >= dbSeq
    <3>1. CASE dbSeq' = dbSeq
      BY <2>1, <3>1
    <3>2. CASE FlushMark
      BY <2>1, <3>2 DEF FlushMark, SetNodeLastCommitSeq, Larger
    <3> QED
      BY <1>1, <3>1, <3>2
         DEF Next, AgentStep, PanelStep, vars, AccountFold, FlushCapture, FlushDrain, FlushCheck,
             FlushRow, SetDBHealth, StartNode, Connect, RecvAck, InitNode, RecvMetrics, AccountAccept,
             RecvLate, PanelCrash, PanelRestart
  <2>3. st /\ st' => tracker' >= tracker
    <3>1. CASE tracker' = tracker
      BY <2>1, <3>1
    <3>2. CASE RecvAck \/ StartNode
      BY <1>1, <2>1, <3>2, HelloIsWatermark, SeedsTracker DEF InitNode, Larger, IInv
    <3>3. CASE RecvMetrics
      <4>1. seqOf[Head(send)] \in Nat
        BY <1>1, <2>1, <3>3, ReceiveQueue DEF IInv
      <4> QED
        BY <2>1, <3>3, <4>1 DEF RecvMetrics, AccountAccept, Accepts
    <3>4. CASE PanelCrash
      BY <3>4 DEF PanelCrash, PanelRestart
    <3> QED
      BY <1>1, <3>1, <3>2, <3>3, <3>4
         DEF Next, AgentStep, PanelStep, vars, AccountFold, FlushCapture, FlushDrain, FlushCheck,
             FlushRow, FlushMark, SetDBHealth, Connect, RecvLate
  <2> QED
    BY <2>2, <2>3
<1> QED
  BY <1>1, Invariance, PTL DEF Spec, WatermarksRise
=============================================================================
