---------------------------- MODULE AgentServer ----------------------------
(***************************************************************************)
(* The sampling loop and the panel session of the agent                    *)
(* (internal/agent/server.go): a sample is numbered and logged, then       *)
(* broadcast; a new session first gets the log past the panel's watermark  *)
(* in rounds (backfill), and live samples only once its gate is open.      *)
(*                                                                         *)
(* One link carries one session: the panel's NodeConn closes a connection  *)
(* before it dials the next.  The send queue, the writer goroutine and the *)
(* socket are one FIFO of bounded length.  Only the samples are followed;  *)
(* replies and events share the queue but carry no traffic.                *)
(***************************************************************************)
EXTENDS Wal, Sequences, Functions

CONSTANTS SendBuffer,   \* sendBuffer: capacity of a session's queue
          MaxRounds     \* maxBackfillRounds

ASSUME AgentAssumption ==
    /\ MaxSamples \in Nat
    /\ MaxFaults \in Nat
    /\ Retention \in Nat \ {0}
    /\ SendBuffer \in Nat \ {0}
    /\ MaxRounds \in Nat \ {0}

VARIABLES smp,      \* the sample logged and not yet broadcast, or NoSample
          link,     \* "down", "hello" (panel awaits the ack), "up"
          send,     \* session.send: samples on their way to the panel
          bf,       \* backfill: "off", "round", "closing" (returning), "done"
          cursor,   \* backfill's cursor: number of the last record sent
          rounds,   \* rounds completed
          sent,     \* something was sent in this round
          frozen,   \* the round reads a file that Rotate has since replaced
          snap,     \* the contents of that replaced file
          cut,      \* history: withheld samples a replay ended without
          dropped   \* history: samples dropped on a full queue or as too late

replayVars == <<bf, cursor, rounds, sent, frozen, snap>>
agentVars == <<smp, link, send, replayVars, cut, dropped>>

AgentTypeOK ==
    /\ smp \in Samples \cup {NoSample}
    /\ link \in {"down", "hello", "up"}
    /\ send \in Seq(Samples)
    /\ Len(send) <= SendBuffer
    /\ bf \in {"off", "round", "closing", "done"}
    /\ bf = "off" <=> link = "down"
    /\ cursor \in Nat
    /\ rounds \in 0..MaxRounds
    /\ bf = "round" => rounds < MaxRounds
    /\ sent \in BOOLEAN
    /\ frozen \in BOOLEAN
    /\ snap \in SUBSET Samples
    /\ cut \in SUBSET Samples
    /\ dropped \in SUBSET Samples

AgentInit ==
    /\ smp = NoSample
    /\ link = "down"
    /\ send = <<>>
    /\ bf = "off"
    /\ cursor = 0
    /\ rounds = 0
    /\ sent = FALSE
    /\ frozen = FALSE
    /\ snap = {}
    /\ cut = {}
    /\ dropped = {}

----------------------------------------------------------------------------
\* sampleAndBroadcast up to the broadcast: number the sample and log it.
Sample(i) ==
    /\ smp = NoSample
    /\ IsNextSample(i)
    /\ NextSeq(i)
    /\ \/ AppendOk(i)
       \/ AppendFails
    /\ smp' = i
    /\ UNCHANGED <<link, send, replayVars, cut, dropped>>

\* Mutation: live samples are not held back during the replay.
ReadyAtOnce == bf # "off"

\* session.ready: set when the replay has ended.
Ready == bf = "done"

\* Mutation: the queue grows past its capacity.
EnqueueUnbounded ==
    /\ send' = Append(send, smp)
    /\ UNCHANGED dropped

\* A full queue drops the sample.
Enqueue ==
    IF Len(send) < SendBuffer
    THEN /\ send' = Append(send, smp)
         /\ UNCHANGED dropped
    ELSE /\ dropped' = dropped \cup {smp}
         /\ UNCHANGED send

\* broadcastSample: a session that is still replaying is skipped.
Broadcast ==
    /\ smp # NoSample
    /\ IF Ready THEN Enqueue ELSE UNCHANGED <<send, dropped>>
    /\ smp' = NoSample
    /\ UNCHANGED <<walVars, link, replayVars, cut>>

\* The file the current round has open.
View == IF frozen THEN snap ELSE wal

\* sendWait found room for the next record of the round.
BackfillSend ==
    /\ bf = "round"
    /\ Len(send) < SendBuffer
    /\ \E i \in Samples :
          /\ IsNextRecord(View, cursor, i)
          /\ send' = Append(send, i)
          /\ cursor' = seqOf[i]
    /\ sent' = TRUE
    /\ UNCHANGED <<walVars, smp, link, bf, rounds, frozen, snap, cut, dropped>>

\* Mutation: sendWait without its timer.
BackfillBlocks ==
    /\ bf = "round"
    /\ Len(send) = SendBuffer
    /\ ~AtEof(View, cursor)
    /\ UNCHANGED <<walVars, agentVars>>

\* sendWait gives up: the queue stayed full for backfillSendTimeout.
BackfillTimeout ==
    /\ bf = "round"
    /\ Len(send) = SendBuffer
    /\ ~AtEof(View, cursor)
    /\ bf' = "closing"
    /\ UNCHANGED <<walVars, smp, link, send, cursor, rounds, sent, frozen, snap, cut, dropped>>

\* Stream returns an error: the file cannot be opened or read.
BackfillError ==
    /\ bf = "round"
    /\ faults < MaxFaults
    /\ faults' = faults + 1
    /\ bf' = "closing"
    /\ UNCHANGED <<seq, wal, torn, seqOf, smp, link, send, cursor, rounds, sent, frozen, snap, cut, dropped>>

\* The round read its file to the end.  A round that sent nothing ends the
\* replay, and so does the round cap; otherwise the log is opened again.
RoundEnd ==
    /\ bf = "round"
    /\ AtEof(View, cursor)
    /\ rounds' = rounds + 1
    /\ bf' = IF ~sent \/ rounds' = MaxRounds THEN "closing" ELSE "round"
    /\ sent' = FALSE
    /\ frozen' = FALSE
    /\ snap' = {}
    /\ UNCHANGED <<walVars, smp, link, send, cursor, cut, dropped>>

\* The deferred ready.Store(true): whatever was logged past the cursor and has
\* already been broadcast was withheld and stays unsent.
OpenGate ==
    /\ bf = "closing"
    /\ bf' = "done"
    /\ cut' = cut \cup {i \in wal \ {smp} : seqOf[i] > cursor}
    /\ frozen' = FALSE
    /\ snap' = {}
    /\ UNCHANGED <<walVars, smp, link, send, cursor, rounds, sent, dropped>>

----------------------------------------------------------------------------
\* handleWS accepted a Hello that carries the panel's watermark.
OpenSession(lastCommitSeq) ==
    /\ link = "down"
    /\ link' = "hello"
    /\ bf' = "round"
    /\ cursor' = lastCommitSeq
    /\ rounds' = 0
    /\ sent' = FALSE
    /\ UNCHANGED <<walVars, smp, send, frozen, snap, cut, dropped>>

\* Teardown: what is queued is never delivered.
CloseSession ==
    /\ link' = "down"
    /\ send' = <<>>
    /\ bf' = "off"
    /\ cursor' = 0
    /\ rounds' = 0
    /\ sent' = FALSE
    /\ frozen' = FALSE
    /\ snap' = {}
    /\ UNCHANGED <<cut, dropped>>

\* The connection breaks, or either side times out.
Disconnect ==
    /\ link # "down"
    /\ CloseSession
    /\ UNCHANGED <<walVars, smp>>

\* The agent process restarts; a sample logged and not yet broadcast stays in
\* the log.
AgentRestart ==
    /\ OpenWAL
    /\ smp' = NoSample
    /\ CloseSession

\* The retention job of maintenanceLoop.  A round in progress keeps reading
\* the file it opened.
RotateWal ==
    /\ \E oldest \in Samples : Rotate(oldest)
    /\ IF bf = "round" /\ ~frozen
       THEN /\ frozen' = TRUE
            /\ snap' = wal
       ELSE UNCHANGED <<frozen, snap>>
    /\ UNCHANGED <<smp, link, send, bf, cursor, rounds, sent, cut, dropped>>
=============================================================================
