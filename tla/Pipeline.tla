------------------------------ MODULE Pipeline ------------------------------
(***************************************************************************)
(* The panel's traffic accounting for one node (internal/panel/pipeline.go *)
(* with the SeqTracker of internal/metrics/metrics.go and the two SQL      *)
(* statements it relies on in internal/panel/store*.go).                   *)
(*                                                                         *)
(* Account and flush run in different goroutines and share the node's      *)
(* state: Account advances the tracker first and adds the bytes to the day *)
(* bucket later (tunnel status writes to MySQL happen in between); flush   *)
(* reads the tracker, drains the buckets, writes one row per day and then  *)
(* persists the watermark it read.  Each of these is a step of its own.    *)
(*                                                                         *)
(* A sample stands for the bytes it carries, which are not zero; a bucket  *)
(* is the set of samples folded into it and a database row the number of   *)
(* times each sample was added to it.                                      *)
(***************************************************************************)
EXTENDS AgentServer

CONSTANTS DayOf,       \* the Shanghai day a sample falls on
          MaxCrashes,  \* bound: how often the panel process dies
          MaxDbFaults  \* bound: statements that fail and outages noticed

ASSUME PanelAssumption ==
    /\ DayOf \in [Samples -> Nat]
    /\ MaxCrashes \in Nat
    /\ MaxDbFaults \in Nat

VARIABLES st,         \* the node has a nodeState in Pipeline.st
          tracker,    \* SeqTracker.last
          persisted,  \* nodeState.lastPersistedSeq
          pend,       \* accepted by Account, not yet in a bucket
          traf,       \* samples in the day buckets
          fl,         \* flush: "idle", "drain", "check", "write"
          seqAt,      \* flush: the watermark it captured
          batch,      \* flush: drained and not yet written
          failed,     \* flush: a row of this batch failed
          nodeSeq,    \* Node.LastCommitSeq as loaded at panel start
          dbUp,       \* the health flag DBUp() reads
          dbSeq,      \* nodes.last_commit_seq
          db,         \* how often each sample was added to traffic_daily
          dbFaults,   \* failed statements and noticed outages so far
          crashes,    \* panel processes that died
          discarded,  \* history: drained samples whose row was not written
          stranded    \* history: samples lost in a crash behind dbSeq

flushVars == <<fl, seqAt, batch, failed>>
dbVars == <<dbSeq, db, dbFaults>>
pipeVars == <<st, tracker, persisted, pend, traf, flushVars, nodeSeq, dbUp,
              dbVars, crashes, discarded, stranded>>

PipeTypeOK ==
    /\ st \in BOOLEAN
    /\ tracker \in Nat
    /\ persisted \in Nat
    /\ pend \in Samples \cup {NoSample}
    /\ traf \in SUBSET Samples
    /\ fl \in {"idle", "drain", "check", "write"}
    /\ seqAt \in Nat
    /\ batch \in SUBSET Samples
    /\ failed \in BOOLEAN
    /\ nodeSeq \in Nat
    /\ dbUp \in BOOLEAN
    /\ dbSeq \in Nat
    /\ db \in [Samples -> Nat]
    /\ dbFaults \in 0..MaxDbFaults
    /\ crashes \in 0..MaxCrashes
    /\ discarded \in SUBSET Samples
    /\ stranded \in SUBSET Samples

PipeInit ==
    /\ st = FALSE
    /\ tracker = 0
    /\ persisted = 0
    /\ pend = NoSample
    /\ traf = {}
    /\ fl = "idle"
    /\ seqAt = 0
    /\ batch = {}
    /\ failed = FALSE
    /\ nodeSeq = 0
    /\ dbUp = TRUE
    /\ dbSeq = 0
    /\ db = [i \in Samples |-> 0]
    /\ dbFaults = 0
    /\ crashes = 0
    /\ discarded = {}
    /\ stranded = {}

----------------------------------------------------------------------------
Larger(a, b) == IF a < b THEN b ELSE a

\* CommitSeq: 0 for a node without state.
CommitSeq == IF st THEN tracker ELSE 0

\* The watermark session() puts into Hello.
HelloSeq == Larger(nodeSeq, CommitSeq)

\* Mutation: every connection seeds the tracker from the driver's snapshot.
InitNodeReseeds(lastSeq) ==
    /\ st' = TRUE
    /\ tracker' = nodeSeq
    /\ persisted' = IF st THEN persisted ELSE lastSeq
    /\ UNCHANGED <<pend, traf, flushVars, nodeSeq, dbUp, dbVars, crashes, discarded, stranded>>

\* InitNode: seed the tracker, or raise it if lastSeq is ahead of it.
InitNode(lastSeq) ==
    /\ st' = TRUE
    /\ tracker' = IF st THEN Larger(tracker, lastSeq) ELSE lastSeq
    /\ persisted' = IF st THEN persisted ELSE lastSeq
    /\ UNCHANGED <<pend, traf, flushVars, nodeSeq, dbUp, dbVars, crashes, discarded, stranded>>

\* NodeManager.start seeds the tracker before the connection is dialled.
StartNode ==
    /\ ~st
    /\ InitNode(nodeSeq)

\* Mutation: the last number is accepted again.
AcceptsAgain(s) == s >= tracker

\* SeqTracker.Accept.
Accepts(s) == s > tracker

\* Account up to Accept: a new sample advances the tracker and is on its way
\* into a bucket, any other one is dropped.
AccountAccept(i) ==
    /\ st
    /\ pend = NoSample
    /\ IF Accepts(seqOf[i])
       THEN /\ tracker' = seqOf[i]
            /\ pend' = i
       ELSE UNCHANGED <<tracker, pend>>
    /\ UNCHANGED <<st, persisted, traf, flushVars, nodeSeq, dbUp, dbVars, crashes, discarded, stranded>>

\* Account from trafMu.Lock on: the bytes go into the day bucket.
AccountFold ==
    /\ pend # NoSample
    /\ traf' = traf \cup {pend}
    /\ pend' = NoSample
    /\ UNCHANGED <<st, tracker, persisted, flushVars, nodeSeq, dbUp, dbVars, crashes, discarded, stranded>>

----------------------------------------------------------------------------
\* flush captures the watermark.
FlushCapture ==
    /\ st
    /\ fl = "idle"
    /\ seqAt' = tracker
    /\ fl' = "drain"
    /\ UNCHANGED <<st, tracker, persisted, pend, traf, batch, failed, nodeSeq, dbUp, dbVars, crashes, discarded, stranded>>

\* flush swaps the buckets for empty ones.
FlushDrain ==
    /\ fl = "drain"
    /\ batch' = traf
    /\ traf' = {}
    /\ fl' = "check"
    /\ UNCHANGED <<st, tracker, persisted, pend, seqAt, failed, nodeSeq, dbUp, dbVars, crashes, discarded, stranded>>

\* Mutation: flush waits for the database instead of dropping the batch.
FlushCheckWaits ==
    /\ fl = "check"
    /\ dbUp
    /\ fl' = "write"
    /\ failed' = FALSE
    /\ UNCHANGED <<st, tracker, persisted, pend, traf, seqAt, batch, nodeSeq, dbUp, dbVars,
                   crashes, discarded, stranded>>

\* With the database marked down the batch is dropped and flush returns.
FlushCheck ==
    /\ fl = "check"
    /\ IF dbUp
       THEN /\ fl' = "write"
            /\ failed' = FALSE
            /\ UNCHANGED <<seqAt, batch, discarded>>
       ELSE /\ fl' = "idle"
            /\ discarded' = discarded \cup batch
            /\ batch' = {}
            /\ seqAt' = 0
            /\ UNCHANGED failed
    /\ UNCHANGED <<st, tracker, persisted, pend, traf, nodeSeq, dbUp, dbVars, crashes, stranded>>

\* A statement reports an error, or an outage is noticed.
DbFault ==
    /\ dbFaults < MaxDbFaults
    /\ dbFaults' = dbFaults + 1

\* The row of the batch for one day.
Row(day) == {i \in batch : DayOf[i] = day}

\* IncrTrafficDaily for one day: done; failed; or applied by the server with
\* the error reported all the same (the reply was lost).
FlushRow ==
    /\ fl = "write"
    /\ \E day \in Range(DayOf), applied \in BOOLEAN, err \in BOOLEAN :
          /\ Row(day) # {}
          /\ applied \/ err
          /\ batch' = batch \ Row(day)
          /\ failed' = (failed \/ err)
          /\ IF err THEN DbFault ELSE UNCHANGED dbFaults
          /\ IF applied
             THEN /\ db' = [i \in Samples |-> IF i \in Row(day) THEN db[i] + 1 ELSE db[i]]
                  /\ UNCHANGED discarded
             ELSE /\ discarded' = discarded \cup Row(day)
                  /\ UNCHANGED db
    /\ UNCHANGED <<st, tracker, persisted, pend, traf, fl, seqAt, nodeSeq, dbUp, dbSeq, crashes, stranded>>

\* Mutations: the comparison in the WHERE clause is swapped; the tracker is
\* stored as it is by now, not as it was captured.
SetNodeLastCommitSeqSwapped(s) == dbSeq' = IF s < dbSeq THEN s ELSE dbSeq
SetNodeLastCommitSeqLatest(s) == dbSeq' = Larger(dbSeq, tracker)

\* SetNodeLastCommitSeq only ever raises the stored value.
SetNodeLastCommitSeq(s) == dbSeq' = Larger(dbSeq, s)

\* All rows are written: persist the captured watermark, unless a row failed or
\* it is not ahead of the last one persisted.  The statement, too, can fail
\* before or after it took effect.
FlushMark ==
    /\ fl = "write"
    /\ batch = {}
    /\ fl' = "idle"
    /\ seqAt' = 0
    /\ failed' = FALSE
    /\ \/ /\ failed \/ seqAt <= persisted
          /\ UNCHANGED <<dbSeq, persisted, dbFaults>>
       \/ /\ ~failed /\ seqAt > persisted
          /\ \/ SetNodeLastCommitSeq(seqAt) /\ persisted' = seqAt /\ UNCHANGED dbFaults
             \/ SetNodeLastCommitSeq(seqAt) /\ DbFault /\ UNCHANGED persisted
             \/ DbFault /\ UNCHANGED <<dbSeq, persisted>>
    /\ UNCHANGED <<st, tracker, pend, traf, batch, nodeSeq, dbUp, db, crashes, discarded, stranded>>

\* pingDBLoop flips the health flag.
SetDBHealth ==
    /\ dbUp' = ~dbUp
    /\ IF dbUp THEN DbFault ELSE UNCHANGED dbFaults
    /\ UNCHANGED <<st, tracker, persisted, pend, traf, flushVars, nodeSeq, dbSeq, db, crashes, discarded, stranded>>

----------------------------------------------------------------------------
\* What the panel process holds and has not written.
InMemory == traf \cup batch \cup {i \in Samples : i = pend}

\* The panel process ends; the next one reads the node from the database.
PanelRestart ==
    /\ crashes < MaxCrashes
    /\ crashes' = crashes + 1
    /\ stranded' = stranded \cup {i \in InMemory : seqOf[i] <= dbSeq}
    /\ st' = FALSE
    /\ tracker' = 0
    /\ persisted' = 0
    /\ pend' = NoSample
    /\ traf' = {}
    /\ fl' = "idle"
    /\ seqAt' = 0
    /\ batch' = {}
    /\ failed' = FALSE
    /\ nodeSeq' = dbSeq
    /\ UNCHANGED <<dbUp, dbVars, discarded>>
=============================================================================
