-------------------------------- MODULE Wal --------------------------------
(***************************************************************************)
(* The agent's write-ahead traffic log (internal/agent/wal.go).            *)
(*                                                                         *)
(* Every five-second sample of the agent gets the next sequence number and *)
(* is appended to traffic.wal as one JSON line.  A sample is identified    *)
(* here by the order in which it was taken (1, 2, ...); seqOf records the  *)
(* sequence number it was given.  The two differ because a sequence number *)
(* can be handed out twice: OpenWAL recovers the counter from the readable *)
(* lines only.                                                             *)
(*                                                                         *)
(* Abstractions: a line is readable or it is not (its bytes are left out), *)
(* so the file is the set of samples whose line parses, plus one flag      *)
(* for a last line without its newline.  File order is sequence order on   *)
(* the readable lines (VisibleAscending in module Accounting).             *)
(***************************************************************************)
EXTENDS Naturals

CONSTANTS MaxSamples,   \* bound: how many samples the agent takes
          MaxFaults,    \* bound: failed file operations and late messages
          Retention     \* so many of the newest samples are within the seven days

Samples == 1..MaxSamples
NoSample == 0

VARIABLES seq,      \* WAL.seq: the last number handed out
          wal,      \* the samples whose line in traffic.wal parses
          torn,     \* the file ends in a line that has no newline
          seqOf,    \* the number each sample got, 0 before it is taken
          faults    \* failed file operations and late messages so far

walVars == <<seq, wal, torn, seqOf, faults>>

\* Samples are taken in order, and every number handed out is positive.
Sampled == {i \in Samples : seqOf[i] > 0}

WalTypeOK ==
    /\ seq \in Nat
    /\ wal \in SUBSET Samples
    /\ torn \in BOOLEAN
    /\ seqOf \in [Samples -> Nat]
    /\ faults \in 0..MaxFaults

WalInit ==
    /\ seq = 0
    /\ wal = {}
    /\ torn = FALSE
    /\ seqOf = [i \in Samples |-> 0]
    /\ faults = 0

----------------------------------------------------------------------------
\* The next sample to be taken.
IsNextSample(i) ==
    /\ i \in Samples
    /\ seqOf[i] = 0
    /\ \A j \in Samples : j < i => seqOf[j] > 0

\* NextSeq hands out the next number.
NextSeq(i) ==
    /\ seq' = seq + 1
    /\ seqOf' = [seqOf EXCEPT ![i] = seq + 1]

\* Append writes the whole line.  On a torn tail the new line is glued to the
\* unfinished one, and the two together do not parse.
AppendOk(i) ==
    /\ wal' = IF torn THEN wal ELSE wal \cup {i}
    /\ torn' = FALSE
    /\ UNCHANGED faults

\* The write fails, leaving nothing or part of the line behind; the caller
\* ignores the error.
AppendFails ==
    /\ faults < MaxFaults
    /\ faults' = faults + 1
    /\ torn' = TRUE \/ UNCHANGED torn
    /\ UNCHANGED wal

\* OpenWAL after a restart: numbering resumes from the readable lines.
OpenWAL ==
    /\ seq' \in {seqOf[i] : i \in wal} \cup (IF wal = {} THEN {0} ELSE {})
    /\ \A i \in wal : seqOf[i] <= seq'
    /\ UNCHANGED <<wal, torn, seqOf, faults>>

\* Rotate rewrites the file without the lines older than the retention.  When
\* no line is old enough the file is left as it is.
Rotate(oldest) ==
    /\ wal' = {i \in wal : i >= oldest}
    /\ wal' # wal
    /\ \E i \in Sampled : i >= oldest + Retention - 1
    /\ torn' = FALSE
    /\ UNCHANGED <<seq, seqOf, faults>>

----------------------------------------------------------------------------
\* Mutation: Stream starts one record too late.
IsNextRecordSkipping(view, afterSeq, i) ==
    /\ i \in view
    /\ seqOf[i] > afterSeq + 1
    /\ \A j \in view : seqOf[j] > afterSeq + 1 => seqOf[i] <= seqOf[j]

\* Stream(afterSeq): the first readable record past afterSeq in a file that
\* holds the samples in view.
IsNextRecord(view, afterSeq, i) ==
    /\ i \in view
    /\ seqOf[i] > afterSeq
    /\ \A j \in view : seqOf[j] > afterSeq => seqOf[i] <= seqOf[j]

AtEof(view, afterSeq) == \A i \in view : seqOf[i] <= afterSeq
=============================================================================
