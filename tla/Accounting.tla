----------------------------- MODULE Accounting -----------------------------
(***************************************************************************)
(* Traffic accounting end to end: the agent's log and session              *)
(* (AgentServer) and the panel's pipeline (Pipeline) joined by the link a  *)
(* NodeConn session keeps (internal/panel/nodeconn.go).                    *)
(***************************************************************************)
EXTENDS Pipeline

vars == <<walVars, agentVars, pipeVars>>

Init == WalInit /\ AgentInit /\ PipeInit

----------------------------------------------------------------------------
\* NodeConn.session dials and says Hello.  The reader of the previous session
\* has returned, so no Account is under way.
Connect ==
    /\ st
    /\ pend = NoSample
    /\ OpenSession(HelloSeq)
    /\ UNCHANGED pipeVars

\* NodeConn.session reads the ack and goes up.  Between Hello and here nothing
\* moves the watermark, so it is the one Hello carried.
RecvAck ==
    /\ link = "hello"
    /\ link' = "up"
    /\ InitNode(HelloSeq)
    /\ UNCHANGED <<walVars, smp, send, replayVars, cut, dropped>>

\* The reader loop takes the next message and hands it to Account.
RecvMetrics ==
    /\ link = "up"
    /\ send # <<>>
    /\ AccountAccept(Head(send))
    /\ send' = Tail(send)
    /\ UNCHANGED <<walVars, smp, link, replayVars, cut, dropped>>

\* The next message is more than the replay window old (it was signed when it
\* was queued) and the reader loop skips it.
RecvLate ==
    /\ link = "up"
    /\ pend = NoSample
    /\ send # <<>>
    /\ faults < MaxFaults
    /\ faults' = faults + 1
    /\ dropped' = dropped \cup {Head(send)}
    /\ send' = Tail(send)
    /\ UNCHANGED <<seq, wal, torn, seqOf, smp, link, replayVars, cut, pipeVars>>

AgentStep ==
    /\ \/ \E i \in Samples : Sample(i)
       \/ Broadcast
       \/ BackfillSend
       \/ BackfillTimeout
       \/ BackfillError
       \/ RoundEnd
       \/ OpenGate
       \/ Disconnect
       \/ AgentRestart
       \/ RotateWal
    /\ UNCHANGED pipeVars

PanelStep ==
    /\ \/ StartNode
       \/ AccountFold
       \/ FlushCapture
       \/ FlushDrain
       \/ FlushCheck
       \/ FlushRow
       \/ FlushMark
       \/ SetDBHealth
    /\ UNCHANGED <<walVars, agentVars>>

\* The panel's end takes its connection with it.
PanelCrash ==
    /\ PanelRestart
    /\ CloseSession
    /\ UNCHANGED <<walVars, smp>>

Next ==
    \/ AgentStep
    \/ PanelStep
    \/ Connect
    \/ RecvAck
    \/ RecvMetrics
    \/ RecvLate
    \/ PanelCrash

Spec == Init /\ [][Next]_vars

\* The backfill goroutine runs, and sendWait has a timeout: nothing is assumed
\* of the panel.
Backfill ==
    /\ BackfillSend \/ BackfillTimeout \/ BackfillError \/ RoundEnd \/ OpenGate
    /\ UNCHANGED pipeVars

FairSpec == Spec /\ WF_vars(Backfill)

\* The sampler finishes its broadcast; the panel's reader loop keeps reading and
\* Account returns; flush runs on its ticker.  Nothing is assumed of samples,
\* connections and the database.
Flush == FlushCapture \/ FlushDrain \/ FlushCheck \/ FlushRow \/ FlushMark

PanelReads ==
    /\ WF_vars(Broadcast /\ UNCHANGED pipeVars)
    /\ WF_vars(RecvAck)
    /\ WF_vars(RecvMetrics \/ RecvLate)
    /\ WF_vars(AccountFold /\ UNCHANGED <<walVars, agentVars>>)
    /\ WF_vars(Flush /\ UNCHANGED <<walVars, agentVars>>)

----------------------------------------------------------------------------
TypeOK == WalTypeOK /\ AgentTypeOK /\ PipeTypeOK

Replaying == bf \in {"round", "closing"}

\* A later sample that got a number already used: it looks like a replay.
Renumbered == {i \in Sampled : \E j \in Samples : j < i /\ seqOf[j] >= seqOf[i]}

\* The losses the code accepts or takes: a replay that ended early, a full
\* queue or a late message, a batch not written, a crash behind the watermark, a
\* reused number.
Excused == cut \cup dropped \cup discarded \cup stranded \cup Renumbered

\* A sample is on its way to, or in, the daily totals.
Recorded(i) == i \in InMemory \/ db[i] > 0

\* The panel never passes over a sample that the agent's log still holds: when
\* its watermark (SeqTracker, or the row it is seeded from) reaches the sample's
\* number, the sample is in the buckets or in the database, unless it fell to one
\* of the five named losses.  Replay gating, queue order, the watermark in Hello
\* and rotation under an open replay all have to work together for this.
NoSilentLoss ==
    \A i \in wal \ Excused :
        seqOf[i] <= Larger(dbSeq, CommitSeq) => Recorded(i)

\* Samples reach the panel in the order of their numbers: nothing live overtakes
\* the replay (session.ready), and a replay never goes back.
DeliveredInOrder ==
    \A j, k \in 1..Len(send) : j < k => seqOf[send[j]] <= seqOf[send[k]]

\* One panel process folds a sample in at most once, whatever the agent replays:
\* the daily totals hold a sample more than once only after that many restarts
\* of the panel.
OncePerPanelProcess == \A i \in Samples : db[i] <= crashes + 1

\* The database never claims a number the panel has not seen, and the panel
\* never believes more to be persisted than is.
WatermarksOrdered ==
    /\ nodeSeq <= dbSeq
    /\ st => persisted <= dbSeq /\ dbSeq <= tracker

\* The stored watermark and the tracker of a running panel never go back.
WatermarksRise == [][dbSeq' >= dbSeq /\ (st /\ st' => tracker' >= tracker)]_vars

\* The stored watermark claims at most one sample that is not written yet, the
\* one Account was still folding in when flush captured the tracker; so a crash of
\* the panel costs at most that one sample for good.
CrashLosesAtMostOne ==
    \A i, j \in InMemory : seqOf[i] <= dbSeq /\ seqOf[j] <= dbSeq => i = j

\* A session always goes live or ends, even if the panel never reads from it:
\* sendWait's timeout and the deferred ready.Store see to that.
ReplayEnds == Replaying ~> ~Replaying

\* Once a connection lasts and the panel reads from it, every sample in the log reaches the daily totals,
\* falls to a named loss or leaves the log by age: replay, gate, Account and
\* flush together make progress.
LogReachesTotals ==
    PanelReads /\ <>[](link # "down") =>
        \A i \in Samples : i \in wal ~> (db[i] > 0 \/ i \in Excused \/ i \notin wal)

----------------------------------------------------------------------------
(***************************************************************************)
(* What a comment in the code says of it; it fails in a run of its own.    *)
(***************************************************************************)

\* flush: what is accounted after the capture lands in the next batch instead of
\* being claimed by this one's watermark.
UnflushedNotClaimed == \A i \in InMemory : seqOf[i] > dbSeq

----------------------------------------------------------------------------
(***************************************************************************)
(* The inductive invariant behind the properties above.                    *)
(***************************************************************************)

\* Samples are taken one after the other, and the newest holds the counter.
SampledInOrder ==
    /\ \A j, k \in Samples : j < k /\ seqOf[k] > 0 => seqOf[j] > 0
    /\ smp # NoSample => seqOf[smp] = seq /\ seqOf[smp] > 0

\* What the agent can still send: the log, an open replaced file, the queue and
\* the sample in hand.
Visible == wal \cup snap \cup Range(send) \cup ({smp} \ {NoSample})

\* The agent's counter is ahead of everything it can still send, and among
\* these a later sample has the larger number: file order is number order.
VisibleAscending ==
    /\ \A i \in Visible : seqOf[i] > 0 /\ seqOf[i] <= seq
    /\ \A j, k \in Visible : j < k => seqOf[j] < seqOf[k]

\* The replay's cursor is ahead of the queue, and a replaced file holds the
\* older end of the log.
ReplaySound ==
    /\ Replaying => \A j \in Range(send) : seqOf[j] <= cursor
    /\ bf = "off" => send = <<>>
    /\ frozen => \A i \in wal \ snap, j \in snap : j < i
    /\ ~frozen => snap = {}

\* A number was handed out before anyone keeps it as a watermark.
Known(s) == s = 0 \/ \E i \in Sampled : s <= seqOf[i]

WatermarksKnown == Known(tracker) /\ Known(dbSeq) /\ Known(cursor)

\* The panel's watermarks: what is stored trails what is tracked.
PanelWatermarks ==
    /\ WatermarksOrdered
    /\ st => seqAt <= tracker
    /\ ~st => nodeSeq = dbSeq /\ fl = "idle" /\ seqAt = 0 /\ InMemory = {}

\* A sample is in one place of the panel's memory, behind the tracker.
MemoryDisjoint ==
    /\ traf \cap batch = {}
    /\ pend \notin traf \cup batch
    /\ fl \in {"idle", "drain"} => batch = {}
    /\ \A i \in InMemory : i \in Sampled /\ seqOf[i] <= tracker

\* A sample still to be accepted, or held in memory, was counted only by
\* earlier panel processes.
Uncounted(i) ==
    \/ i \in InMemory
    \/ i \notin Sampled
    \/ ~st
    \/ seqOf[i] > tracker

CountedBefore ==
    /\ OncePerPanelProcess
    /\ \A i \in Samples : Uncounted(i) => db[i] <= crashes

\* While flush writes, at most one sample outside its batch is behind the
\* watermark it captured.
ClaimsAtMostOne ==
    /\ CrashLosesAtMostOne
    /\ fl \in {"check", "write"} =>
          \A i, j \in InMemory \ batch : seqOf[i] <= seqAt /\ seqOf[j] <= seqAt => i = j

\* What the panel has not seen yet is in the queue: up to the cursor while the
\* replay lasts, and altogether once the gate is open.
Due(i) ==
    /\ HelloSeq < seqOf[i]
    /\ (Replaying /\ seqOf[i] <= cursor) \/ (Ready /\ i # smp)

ReplayCovers == \A i \in wal \ Excused : Due(i) => i \in Range(send)

IInv ==
    /\ TypeOK
    /\ SampledInOrder
    /\ VisibleAscending
    /\ ReplaySound
    /\ DeliveredInOrder
    /\ WatermarksKnown
    /\ PanelWatermarks
    /\ MemoryDisjoint
    /\ CountedBefore
    /\ ClaimsAtMostOne
    /\ ReplayCovers
    /\ NoSilentLoss
=============================================================================
