----------------------------- MODULE AgentProofs -----------------------------
(***************************************************************************)
(* Two things the agent does by itself, for every value of the constants:  *)
(* it replaces its executable (SelfUpdate), and it turns frps's counters   *)
(* into deltas (TunnelCounters).  They share no state; each has its        *)
(* invariant.                                                              *)
(*                                                                         *)
(* The executable: the flag leaves one call at work (OneCall), so that     *)
(* nobody else writes to the file it stages, which is never the executable *)
(* (Apart) and has what was verified in every piece written (CallSound).   *)
(*                                                                         *)
(* The counters: what was counted and what is still to be read of a proxy  *)
(* that kept its listing and its port never exceeds what it carried, and   *)
(* equals it unless a reset hid some (Owed).                               *)
(***************************************************************************)
EXTENDS SelfUpdate, TunnelCounters, FiniteSetTheorems, WellFoundedInduction, TLAPS

-----------------------------------------------------------------------------
\* The update of the executable.

\* The flag admits one call at a time.
OneCall ==
    /\ Live /= {} => updating
    /\ \A u, v \in Live : u = v

\* What a call has checked and written so far.
CallSound(u) ==
    /\ run[u].pc \in {"idle", "sums", "asset", "open"} =>
         run[u].inode = NoInode /\ run[u].next = 1
    /\ run[u].pc \in {"asset", "open", "write", "rename", "swapped"} =>
         run[u].sum \in Releases
    /\ run[u].pc \in {"open", "write", "rename", "swapped"} => run[u].got = run[u].sum
    /\ run[u].pc = "write" =>
         /\ tmp /= NoInode
         /\ run[u].inode = tmp
         /\ run[u].next <= Pieces
         /\ \A k \in 1..(run[u].next - 1) : data[tmp][k] = run[u].got
    /\ run[u].pc = "rename" => tmp /= NoInode /\ data[tmp] = Whole(run[u].got)

CallsSound == \A u \in Updates : CallSound(u)

\* Nobody writes to the file that is the executable.
Apart == tmp /= target

UpdateInv ==
    /\ UpdateTypeOK
    /\ OneCall
    /\ CallsSound
    /\ Apart
    /\ TargetWhole
    /\ InstalledIsVerified

-----------------------------------------------------------------------------
\* There are at least two inodes.
LEMMA TwoInodes == {1, 2} \subseteq Inodes /\ NoInode \notin Inodes /\ Inodes \subseteq Nat
<1>1. Cardinality(Updates) \in Nat
  BY FS_CardinalityType, SelfUpdateAssumption
<1> QED
  BY <1>1 DEF Inodes, NoInode

\* A file whose pieces are all of one release is that release.
LEMMA WholeFile ==
    ASSUME NEW r, NEW S, NEW f \in [1..Pieces -> S], \A k \in 1..Pieces : f[k] = r
    PROVE  f = Whole(r)
BY DEF Whole

\* The first writer of <target>.new gets an inode of its own.
LEMMA FreshInode ==
    ASSUME UpdateTypeOK, tmp = NoInode, \A u \in Live : run[u].inode = NoInode
    PROVE  FreeInode \in Inodes /\ FreeInode /= target
<1>1. \E i \in Inodes : i \notin {tmp, target} /\ \A u \in Live : run[u].inode /= i
  BY TwoInodes
<1> QED
  BY <1>1 DEF FreeInode

-----------------------------------------------------------------------------
\* What a step of a call comes to: it ends the call, or it is one of the five
\* steps of a call that goes on.
Ends(u) ==
    /\ u \in Live
    /\ run' = Ended(u)
    /\ updating' = FALSE
    /\ tmp' \in {tmp, NoInode}
    /\ UNCHANGED <<release, data, target, exits>>

GotSums(u) ==
    /\ run[u].pc = "sums"
    /\ \E r \in 1..release : run' = [run EXCEPT ![u].pc = "asset", ![u].sum = r]
    /\ UNCHANGED <<release, updating, data, tmp, target, exits>>

GotAsset(u) ==
    /\ run[u].pc = "asset"
    /\ run' = [run EXCEPT ![u].pc = "open", ![u].got = run[u].sum]
    /\ UNCHANGED <<release, updating, data, tmp, target, exits>>

Opened(u) ==
    /\ run[u].pc = "open"
    /\ tmp' = IF tmp = NoInode THEN FreeInode ELSE tmp
    /\ data' = [data EXCEPT ![tmp'] = Empty]
    /\ run' = [run EXCEPT ![u].pc = "write", ![u].inode = tmp']
    /\ UNCHANGED <<release, updating, target, exits>>

Wrote(u) ==
    /\ run[u].pc = "write"
    /\ data' = [data EXCEPT ![run[u].inode][run[u].next] = run[u].got]
    /\ run' = [run EXCEPT
                  ![u].pc = IF run[u].next = Pieces THEN "rename" ELSE "write",
                  ![u].next = run[u].next + 1]
    /\ UNCHANGED <<release, updating, tmp, target, exits>>

Renamed(u) ==
    /\ run[u].pc = "rename"
    /\ tmp /= NoInode
    /\ target' = tmp
    /\ tmp' = NoInode
    /\ run' = [run EXCEPT ![u].pc = "swapped"]
    /\ UNCHANGED <<release, updating, data, exits>>

\* A step of a call is one of these.
LEMMA StepCases ==
    ASSUME NEW u \in Updates, Step(u)
    PROVE  \/ Ends(u) \/ GotSums(u) \/ GotAsset(u) \/ Opened(u) \/ Wrote(u) \/ Renamed(u)
<1>1. CASE FetchSums(u)
  BY <1>1, Zenon DEF FetchSums, GotSums, Ends, Fail, Live
<1>2. CASE FetchAsset(u)
  BY <1>2, Zenon DEF FetchAsset, GotAsset, Ends, Fail, Live
<1>3. CASE OpenTmp(u)
  BY <1>3, Zenon DEF OpenTmp, Opened, Ends, Fail, Live
<1>4. CASE WritePiece(u)
  BY <1>4, Zenon DEF WritePiece, Wrote, Ends, Fail, Live
<1>5. CASE Rename(u)
  BY <1>5, Zenon DEF Rename, Renamed, Ends, Fail, Live
<1>6. CASE Return(u)
  BY <1>6, Zenon DEF Return, Ends, Live
<1> QED
  BY <1>1, <1>2, <1>3, <1>4, <1>5, <1>6 DEF Step

\* The file a call opens is an inode of its own, not the executable.
LEMMA OpensApart ==
    ASSUME UpdateTypeOK, OneCall, CallsSound, Apart, NEW u \in Updates, Opened(u)
    PROVE  tmp' \in Inodes /\ tmp' /= target
<1>1. \A v \in Live : run[v].inode = NoInode
  <2>1. u \in Live /\ run[u].inode = NoInode
    BY DEF Opened, Live, CallsSound, CallSound
  <2> QED
    BY <2>1 DEF OneCall
<1>2. CASE tmp = NoInode
  BY <1>1, <1>2, FreshInode DEF Opened
<1>3. CASE tmp /= NoInode
  BY <1>3 DEF Opened, UpdateTypeOK, Apart
<1> QED
  BY <1>2, <1>3

\* A call that moves on leaves the table of calls one.
LEMMA OneMoves ==
    ASSUME NEW u \in Updates, NEW c \in Call, run \in [Updates -> Call]
    PROVE  [run EXCEPT ![u] = c] \in [Updates -> Call]
OBVIOUS

\* A step keeps the types of SelfUpdate.
LEMMA UpdateTypeStep ==
    ASSUME UpdateTypeOK, OneCall, CallsSound, Apart, [UpdateNext]_updateVars
    PROVE  UpdateTypeOK'
<1> USE SelfUpdateAssumption, TwoInodes
    DEF UpdateTypeOK, Call, Releases, NoInode
<1>1. CASE Publish
  <2>1. release' \in 1..MaxRelease /\ UNCHANGED <<run, updating, data, tmp, target, exits>>
    BY <1>1 DEF Publish
  <2> HIDE DEF Call
  <2> QED
    BY <2>1
<1>2. CASE Exit
  <2>1. ASSUME NEW u \in Updates  PROVE [run[u] EXCEPT !.pc = "ended"] \in Call
    OBVIOUS
  <2>2. run' \in [Updates -> Call]
    BY <1>2, <2>1 DEF Exit
  <2>3. exits' \in 0..MaxExits /\ UNCHANGED <<release, data, tmp, target>>
    BY <1>2 DEF Exit
  <2>4. updating' \in BOOLEAN
    BY <1>2, Zenon DEF Exit
  <2> QED
    BY <2>2, <2>3, <2>4
<1>3. ASSUME NEW u \in Updates, Begin(u)  PROVE UpdateTypeOK'
  BY <1>3 DEF Begin
<1>4. ASSUME NEW u \in Updates, Ends(u)  PROVE UpdateTypeOK'
  BY <1>4 DEF Ends, Ended
<1>5. ASSUME NEW u \in Updates, GotSums(u)  PROVE UpdateTypeOK'
  <2>1. PICK r \in 1..release : run' = [run EXCEPT ![u].pc = "asset", ![u].sum = r]
    BY <1>5 DEF GotSums
  <2>2. r \in 0..MaxRelease
    OBVIOUS
  <2>3. [run[u] EXCEPT !.pc = "asset", !.sum = r] \in Call
    BY <2>2
  <2>4. run' \in [Updates -> Call]
    BY <2>1, <2>3, OneMoves
  <2> QED
    BY <1>5, <2>4 DEF GotSums
<1>6. ASSUME NEW u \in Updates, GotAsset(u)  PROVE UpdateTypeOK'
  <2>1. [run[u] EXCEPT !.pc = "open", !.got = run[u].sum] \in Call
    OBVIOUS
  <2>2. run' \in [Updates -> Call]
    BY <1>6, <2>1, OneMoves DEF GotAsset
  <2> QED
    BY <1>6, <2>2 DEF GotAsset
<1>7. ASSUME NEW u \in Updates, Opened(u)  PROVE UpdateTypeOK'
  <2>1. tmp' \in Inodes
    BY <1>7, OpensApart
  <2>2. Empty \in [1..Pieces -> 0..MaxRelease]
    BY DEF Empty, Whole, Hole
  <2>3. data' \in [Inodes -> [1..Pieces -> 0..MaxRelease]]
    BY <1>7, <2>1, <2>2 DEF Opened
  <2>4. run' \in [Updates -> Call]
    <3>1. PICK i \in Inodes : i = tmp'
      BY <2>1
    <3>2. run' = [run EXCEPT ![u].pc = "write", ![u].inode = i]
      BY <1>7, <3>1 DEF Opened
    <3>3. [run[u] EXCEPT !.pc = "write", !.inode = i] \in Call
      OBVIOUS
    <3> QED
      BY <3>2, <3>3, OneMoves
  <2> QED
    BY <1>7, <2>1, <2>3, <2>4 DEF Opened
<1>8. ASSUME NEW u \in Updates, Wrote(u)  PROVE UpdateTypeOK'
  <2>1. run[u].inode \in Inodes /\ run[u].next \in 1..Pieces /\ run[u].got \in 0..MaxRelease
    BY <1>8 DEF Wrote, CallsSound, CallSound
  <2>2. data' \in [Inodes -> [1..Pieces -> 0..MaxRelease]]
    BY <1>8, <2>1 DEF Wrote
  <2>3. run[u].next + 1 \in 1..(Pieces + 1)
    <3> HIDE DEF UpdateTypeOK
    <3> QED
      BY <2>1
  <2>4. run' \in [Updates -> Call]
    BY <1>8, <2>3 DEF Wrote
  <2> QED
    BY <1>8, <2>2, <2>4 DEF Wrote
<1>9. ASSUME NEW u \in Updates, Renamed(u)  PROVE UpdateTypeOK'
  BY <1>9 DEF Renamed
<1>10. CASE UNCHANGED updateVars
  BY <1>10 DEF updateVars
<1> QED
  BY <1>1, <1>2, <1>3, <1>4, <1>5, <1>6, <1>7, <1>8, <1>9, <1>10, StepCases, Zenon DEF UpdateNext

\* The flag admits one call at a time.
LEMMA OneCallStep ==
    ASSUME Guarded, UpdateTypeOK, OneCall, [UpdateNext]_updateVars
    PROVE  OneCall'
<1> USE SelfUpdateAssumption, TwoInodes
    DEF UpdateTypeOK, OneCall, Live, Call
<1>1. CASE Publish
  BY <1>1 DEF Publish
<1>2. CASE Exit
  BY <1>2 DEF Exit
<1>3. ASSUME NEW u \in Updates, Begin(u)  PROVE OneCall'
  BY <1>3 DEF Begin
<1>4. ASSUME NEW u \in Updates, Ends(u)  PROVE OneCall'
  BY <1>4 DEF Ends, Ended
<1>5. ASSUME NEW u \in Updates, GotSums(u)  PROVE OneCall'
  BY <1>5 DEF GotSums
<1>6. ASSUME NEW u \in Updates, GotAsset(u)  PROVE OneCall'
  BY <1>6 DEF GotAsset
<1>7. ASSUME NEW u \in Updates, Opened(u)  PROVE OneCall'
  BY <1>7 DEF Opened
<1>8. ASSUME NEW u \in Updates, Wrote(u)  PROVE OneCall'
  BY <1>8 DEF Wrote
<1>9. ASSUME NEW u \in Updates, Renamed(u)  PROVE OneCall'
  BY <1>9 DEF Renamed
<1>10. CASE UNCHANGED updateVars
  BY <1>10 DEF updateVars
<1> QED
  BY <1>1, <1>2, <1>3, <1>4, <1>5, <1>6, <1>7, <1>8, <1>9, <1>10, StepCases, Zenon DEF UpdateNext

\* A call keeps what it has checked, and nobody else writes to its file.
LEMMA CallsSoundStep ==
    ASSUME UpdateTypeOK, OneCall, CallsSound, Apart, [UpdateNext]_updateVars
    PROVE  CallsSound'
<1> USE SelfUpdateAssumption, TwoInodes
    DEF UpdateTypeOK, OneCall, Live, Call, CallsSound, CallSound, Releases, NoInode
<1>1. CASE Publish
  BY <1>1 DEF Publish
<1>2. CASE Exit
  BY <1>2 DEF Exit
<1>3. ASSUME NEW u \in Updates, Begin(u)  PROVE CallsSound'
  BY <1>3 DEF Begin
<1>4. ASSUME NEW u \in Updates, Ends(u)  PROVE CallsSound'
  <2>1. /\ run'[u].pc = "ended"
        /\ \A v \in Updates \ {u} : run'[v] = run[v] /\ v \notin Live
        /\ UNCHANGED data
    BY <1>4 DEF Ends, Ended
  <2>2. CallSound(u)'
    BY <2>1
  <2>3. ASSUME NEW v \in Updates \ {u}  PROVE CallSound(v)'
    BY <2>1
  <2> HIDE DEF CallSound, UpdateTypeOK, OneCall
  <2> QED
    BY <2>2, <2>3
<1>5. ASSUME NEW u \in Updates, GotSums(u)  PROVE CallsSound'
  <2>1. PICK r \in 1..release : run' = [run EXCEPT ![u].pc = "asset", ![u].sum = r]
    BY <1>5 DEF GotSums
  <2>2. UNCHANGED <<tmp, data>> /\ run[u].pc = "sums"
    BY <1>5 DEF GotSums
  <2> QED
    BY <2>1, <2>2, SMTT(30)
<1>6. ASSUME NEW u \in Updates, GotAsset(u)  PROVE CallsSound'
  <2>1. \A v \in Updates \ {u} : run'[v] = run[v] /\ v \notin Live
    BY <1>6 DEF GotAsset
  <2>2. /\ run'[u].pc = "open" /\ run'[u].inode = run[u].inode /\ run'[u].next = run[u].next
        /\ run'[u].sum = run[u].sum /\ run'[u].got = run[u].sum /\ run[u].pc = "asset"
    BY <1>6 DEF GotAsset
  <2>3. CallSound(u)'
    BY <2>2
  <2>4. ASSUME NEW v \in Updates \ {u}  PROVE CallSound(v)'
    BY <2>1
  <2> HIDE DEF CallSound, UpdateTypeOK, OneCall
  <2> QED
    BY <2>3, <2>4
<1>7. ASSUME NEW u \in Updates, Opened(u)  PROVE CallsSound'
  <2>1. \A v \in Updates \ {u} : run'[v] = run[v] /\ v \notin Live
    BY <1>7 DEF Opened
  <2>2. /\ run'[u].pc = "write" /\ run'[u].inode = tmp' /\ run'[u].next = 1
        /\ run'[u].sum = run[u].sum /\ run'[u].got = run[u].got
    BY <1>7 DEF Opened
  <2>3. CallSound(u)'
    <3>1. tmp' \in Inodes
      <4> HIDE DEF UpdateTypeOK, OneCall, CallsSound
      <4> QED
        BY <1>7, OpensApart
    <3>3. 1 <= Pieces
      OBVIOUS
    <3>2. run[u].sum \in Releases /\ run[u].got = run[u].sum
      BY <1>7 DEF Opened
    <3> HIDE DEF UpdateTypeOK, OneCall, CallsSound
    <3> QED
      BY <2>2, <3>1, <3>2, <3>3
  <2>4. ASSUME NEW v \in Updates \ {u}  PROVE CallSound(v)'
    BY <2>1
  <2> QED
    BY <2>3, <2>4
<1>8. ASSUME NEW u \in Updates, Wrote(u)  PROVE CallsSound'
  <2>1. \A v \in Updates \ {u} : run'[v] = run[v] /\ v \notin Live
    BY <1>8 DEF Wrote
  <2>2. /\ run[u].pc = "write" /\ run[u].inode = tmp /\ tmp' = tmp /\ tmp \in Inodes
        /\ run[u].next \in 1..Pieces
        /\ \A k \in 1..(run[u].next - 1) : data[tmp][k] = run[u].got
    BY <1>8 DEF Wrote
  <2>3. /\ run'[u].pc = IF run[u].next = Pieces THEN "rename" ELSE "write"
        /\ run'[u].next = run[u].next + 1
        /\ run'[u].inode = run[u].inode
        /\ run'[u].sum = run[u].sum /\ run'[u].got = run[u].got
    BY <1>8 DEF Wrote
  <2>4. data'[tmp] = [data[tmp] EXCEPT ![run[u].next] = run[u].got]
    BY <1>8, <2>2 DEF Wrote
  <2>5. /\ data[tmp] \in [1..Pieces -> 0..MaxRelease]
        /\ data'[tmp] \in [1..Pieces -> 0..MaxRelease]
    <3>1. data[tmp] \in [1..Pieces -> 0..MaxRelease] /\ run[u].got \in 0..MaxRelease
      BY <2>2
    <3> HIDE DEF UpdateTypeOK, CallsSound, CallSound, OneCall
    <3> QED
      BY <2>2, <2>4, <3>1
  <2>6. \A k \in 1..run[u].next : data'[tmp][k] = run[u].got
    <3> HIDE DEF UpdateTypeOK, CallsSound, CallSound, OneCall
    <3> DEFINE f == data[tmp]
               n == run[u].next
               r == run[u].got
    <3>1. f \in [1..Pieces -> 0..MaxRelease] /\ n \in 1..Pieces
      BY <2>2, <2>5
    <3>2. \A k \in 1..(n - 1) : f[k] = r
      BY <2>2
    <3>3. data'[tmp] = [f EXCEPT ![n] = r]
      BY <2>4
    <3> HIDE DEF f, n, r
    <3>4. \A k \in 1..n : [f EXCEPT ![n] = r][k] = r
      BY <3>1, <3>2
    <3> QED
      BY <3>3, <3>4 DEF n, r
  <2>7. ASSUME NEW v \in Updates \ {u}  PROVE CallSound(v)'
    BY <2>1
  <2>8. CASE run[u].next = Pieces
    <3>1. data'[tmp] = Whole(run[u].got)
      <4> HIDE DEF UpdateTypeOK, CallsSound, CallSound, OneCall
      <4>1. \A k \in 1..Pieces : data'[tmp][k] = run[u].got
        BY <2>6, <2>8
      <4> QED
        BY <2>5, <4>1, WholeFile
    <3>2. CallSound(u)'
      BY <2>2, <2>3, <2>8, <3>1
    <3> HIDE DEF CallSound, UpdateTypeOK, OneCall
    <3> QED
      BY <2>7, <3>2
  <2>9. CASE run[u].next /= Pieces
    <3>1. CallSound(u)'
      <4>1. /\ run[u].sum \in Releases /\ run[u].got = run[u].sum
            /\ Releases' = Releases
        BY <2>2
      <4> HIDE DEF UpdateTypeOK, CallsSound, OneCall, Releases
      <4> QED
        BY <2>2, <2>3, <2>6, <2>9, <4>1
    <3> HIDE DEF CallSound, UpdateTypeOK, OneCall
    <3> QED
      BY <2>7, <3>1
  <2> QED
    BY <2>8, <2>9
<1>9. ASSUME NEW u \in Updates, Renamed(u)  PROVE CallsSound'
  <2>1. \A v \in Updates \ {u} : run'[v] = run[v] /\ v \notin Live
    BY <1>9 DEF Renamed
  <2>2. /\ run'[u].pc = "swapped" /\ run'[u].sum = run[u].sum /\ run'[u].got = run[u].got
        /\ run[u].pc = "rename"
    BY <1>9 DEF Renamed
  <2>3. CallSound(u)'
    BY <2>2
  <2>4. ASSUME NEW v \in Updates \ {u}  PROVE CallSound(v)'
    BY <2>1
  <2> QED
    BY <2>3, <2>4
<1>10. CASE UNCHANGED updateVars
  BY <1>10 DEF updateVars
<1> QED
  BY <1>1, <1>2, <1>3, <1>4, <1>5, <1>6, <1>7, <1>8, <1>9, <1>10, StepCases, Zenon DEF UpdateNext

\* The executable is replaced, never written to.
LEMMA TargetStep ==
    ASSUME UpdateTypeOK, OneCall, CallsSound, Apart, TargetWhole,
           InstalledIsVerified, [UpdateNext]_updateVars
    PROVE  (Apart /\ TargetWhole /\ InstalledIsVerified)'
<1> USE SelfUpdateAssumption, TwoInodes
    DEF UpdateTypeOK, OneCall, Live, Call, CallsSound, CallSound, Releases, Apart, TargetWhole,
        InstalledIsVerified, NoInode
<1>1. CASE Publish
  BY <1>1 DEF Publish
<1>2. CASE Exit
  BY <1>2 DEF Exit
<1>3. ASSUME NEW u \in Updates, Begin(u)  PROVE (Apart /\ TargetWhole /\ InstalledIsVerified)'
  BY <1>3 DEF Begin
<1>4. ASSUME NEW u \in Updates, Ends(u)  PROVE (Apart /\ TargetWhole /\ InstalledIsVerified)'
  BY <1>4 DEF Ends, Ended
<1>5. ASSUME NEW u \in Updates, GotSums(u)  PROVE (Apart /\ TargetWhole /\ InstalledIsVerified)'
  BY <1>5 DEF GotSums
<1>6. ASSUME NEW u \in Updates, GotAsset(u)  PROVE (Apart /\ TargetWhole /\ InstalledIsVerified)'
  BY <1>6 DEF GotAsset
<1>7. ASSUME NEW u \in Updates, Opened(u)  PROVE (Apart /\ TargetWhole /\ InstalledIsVerified)'
  <2>1. tmp' \in Inodes /\ tmp' /= target
    BY <1>7, OpensApart
  <2>2. data'[target] = data[target] /\ target' = target
    BY <1>7, <2>1 DEF Opened
  <2>3. \A v \in Updates : run'[v].pc = "swapped" => run'[v] = run[v]
    BY <1>7 DEF Opened
  <2> QED
    BY <2>1, <2>2, <2>3
<1>8. ASSUME NEW u \in Updates, Wrote(u)  PROVE (Apart /\ TargetWhole /\ InstalledIsVerified)'
  BY <1>8, SMTT(30) DEF Wrote
<1>9. ASSUME NEW u \in Updates, Renamed(u)  PROVE (Apart /\ TargetWhole /\ InstalledIsVerified)'
  <2>1. data'[target'] = Whole(run[u].sum) /\ run[u].sum \in Releases /\ tmp' /= target'
    BY <1>9 DEF Renamed
  <2>2. run'[u].sum = run[u].sum
    BY <1>9 DEF Renamed
  <2>3. \A v \in Updates : run'[v].pc = "swapped" => v = u
    BY <1>9 DEF Renamed
  <2>4. TargetWhole' /\ Apart'
    BY <2>1 DEF Whole
  <2>5. InstalledIsVerified'
    <3> HIDE DEF UpdateTypeOK, OneCall, Live, Call, CallsSound, CallSound, Releases
    <3> QED
      BY <2>1, <2>2, <2>3
  <2> QED
    BY <2>4, <2>5
<1>10. CASE UNCHANGED updateVars
  BY <1>10 DEF updateVars
<1> QED
  BY <1>1, <1>2, <1>3, <1>4, <1>5, <1>6, <1>7, <1>8, <1>9, <1>10, StepCases, Zenon DEF UpdateNext

\* Under the flag every step keeps UpdateInv.
LEMMA UpdateStep ==
    ASSUME Guarded
    PROVE  UpdateInv /\ [UpdateNext]_updateVars => UpdateInv'
BY UpdateTypeStep, OneCallStep, CallsSoundStep, TargetStep DEF UpdateInv

\* UpdateInv holds in every reachable state of the agent's update.
LEMMA UpdateInvariance == ASSUME Guarded PROVE UpdateSpec => []UpdateInv
<1>1. UpdateInit => UpdateInv
  <2> SUFFICES ASSUME UpdateInit  PROVE UpdateInv
    OBVIOUS
  <2>1. UpdateTypeOK
    <3>1. Whole(1) \in [1..Pieces -> 0..MaxRelease] /\ Empty \in [1..Pieces -> 0..MaxRelease]
      BY SelfUpdateAssumption DEF Whole, Empty, Hole
    <3>2. Idle \in Call
      BY SelfUpdateAssumption DEF Idle, Call
    <3>3. run \in [Updates -> Call] /\ data \in [Inodes -> [1..Pieces -> 0..MaxRelease]]
      BY <3>1, <3>2 DEF UpdateInit
    <3>4. updating \in BOOLEAN
      BY Zenon DEF UpdateInit
    <3>5. /\ release \in Releases /\ exits \in 0..MaxExits
          /\ target \in Inodes /\ tmp \in Inodes \cup {NoInode}
      BY SelfUpdateAssumption, TwoInodes DEF UpdateInit, Releases
    <3> QED
      BY <3>3, <3>4, <3>5, Zenon DEF UpdateTypeOK
  <2>2. OneCall /\ CallsSound /\ InstalledIsVerified
    BY DEF UpdateInit, OneCall, CallsSound, CallSound, InstalledIsVerified, Live, Idle
  <2>3. data[target] = Whole(1) /\ 1 \in Releases /\ tmp /= target
    BY SelfUpdateAssumption, TwoInodes DEF UpdateInit, Releases, NoInode
  <2> QED
    BY <2>1, <2>2, <2>3 DEF UpdateInv, Apart, TargetWhole
<1> QED
  BY <1>1, UpdateStep, PTL DEF UpdateSpec

\* Under the flag the executable is one whole release at every moment, for any
\* number of calls, pieces, releases and exits ("rename guarantees the path never
\* holds a half-written file", Apply).
THEOREM ExecutableWhole == ASSUME Guarded PROVE UpdateSpec => []TargetWhole
<1>1. UpdateInv => TargetWhole
  BY DEF UpdateInv
<1> QED
  BY <1>1, UpdateInvariance, PTL

\* Under the flag, what a call puts in place is what it verified (Run, Apply).
THEOREM ExecutableVerified == ASSUME Guarded PROVE UpdateSpec => []InstalledIsVerified
<1>1. UpdateInv => InstalledIsVerified
  BY DEF UpdateInv
<1> QED
  BY <1>1, UpdateInvariance, PTL

-----------------------------------------------------------------------------
\* The tunnels' counters.

\* Traffic of p that the agent has still to read, as far as it can tell.
ToRead(p) == IF wrapped THEN today[p] ELSE today[p] - lastTun[port[p]]

\* frps's counter of the day is part of what went through.
TodayCarried == \A p \in Proxies : today[p] <= carried[p]

\* A proxy that kept its listing owes nothing: what was counted and what is still
\* to be read is at most what it carried, and all of it unless a reset hid some.
Owed(p) ==
    /\ wrapped \/ lastTun[port[p]] <= today[p]
    /\ counted[p] + ToRead(p) <= carried[p]
    /\ p \notin clipped => counted[p] + ToRead(p) = carried[p]

\* No two registered proxies have one port.
PortsApart == \A p, q \in conf : port[p] = port[q] => p = q

TunnelInv ==
    /\ TypeOK
    /\ TodayCarried
    /\ PortsApart
    /\ \A p \in Proxies \ rekeyed : Owed(p)

-----------------------------------------------------------------------------
\* A set of naturals that is not empty has a least element.
LEMMA Least ==
    ASSUME NEW T \in SUBSET Nat, T /= {}
    PROVE  \E x \in T : \A y \in T : x <= y
<1> DEFINE R == OpToRel(<, Nat)
<1>1. IsWellFoundedOn(R, Nat)
  BY NatLessThanWellFounded
<1>2. \A x, y \in Nat : <<y, x>> \in R <=> y < x
  BY DEF OpToRel
<1> HIDE DEF R
<1>3. PICK x \in T : \A y \in T : ~ (<<y, x>> \in R)
  BY <1>1, WFMin
<1>4. ASSUME NEW y \in T  PROVE x <= y
  <2>1. x \in Nat /\ y \in Nat /\ ~ (<<y, x>> \in R)
    BY <1>3
  <2>2. ~ (y < x)
    BY <1>2, <2>1
  <2> QED
    BY <2>1, <2>2
<1> QED
  BY <1>4

\* Of some proxies one is the last in the listing.
LEMMA LastListed ==
    ASSUME NEW S \in SUBSET Proxies, S /= {}
    PROVE  (CHOOSE p \in S : \A q \in S : q <= p) \in S
<1> DEFINE T == {n \in Nat : \E p \in S : n = N - p}
<1>1. \A p \in S : p \in Nat /\ N - p \in T
  BY TunnelCountersAssumption DEF Proxies
<1>2. T \in SUBSET Nat /\ T /= {}
  BY <1>1
<1> HIDE DEF T
<1>3. PICK n \in T : \A m \in T : n <= m
  BY <1>2, Least
<1>4. PICK p \in S : n = N - p
  BY <1>3 DEF T
<1>5. ASSUME NEW q \in S  PROVE q <= p
  <2>1. N - p <= N - q
    BY <1>1, <1>3, <1>4
  <2> QED
    BY <1>1, <2>1, TunnelCountersAssumption
<1> QED
  BY <1>4, <1>5

\* The loop takes each reading of the proxies before p that share its key, or the
\* last sample's, from the counters there are.
LEMMA PrevType ==
    ASSUME TypeOK, NEW p \in Proxies
    PROVE  Prev(p) \in 0..MaxBytes
<1>1. Before(p) \in SUBSET Proxies
  BY DEF Before, Listed, TypeOK
<1>2. CASE Before(p) = {}
  BY <1>2 DEF Prev, TypeOK, Key, Keys
<1>3. CASE Before(p) /= {}
  <2>1. (CHOOSE q \in Before(p) : \A r \in Before(p) : r <= q) \in Before(p)
    BY <1>1, <1>3, LastListed
  <2> QED
    BY <1>1, <1>3, <2>1 DEF Prev, TypeOK
<1> QED
  BY <1>2, <1>3

\* After the loop every key has a reading of a listed proxy, or none.
LEMMA ReadingsType ==
    ASSUME TypeOK
    PROVE  Readings \in [Keys -> 0..MaxBytes]
<1> SUFFICES ASSUME NEW k \in Keys
             PROVE  Readings[k] \in 0..MaxBytes
  BY DEF Readings
<1> DEFINE of == {p \in Listed : Key(p) = k}
<1>1. of \in SUBSET Proxies
  BY DEF Listed, TypeOK
<1>2. CASE of = {}
  BY <1>2, TunnelCountersAssumption DEF Readings
<1>3. CASE of /= {}
  <2>1. (CHOOSE p \in of : \A q \in of : q <= p) \in of
    BY <1>1, <1>3, LastListed
  <2>2. Readings[k] = today[CHOOSE p \in of : \A q \in of : q <= p]
    BY <1>3 DEF Readings
  <2> HIDE DEF of
  <2> QED
    BY <1>1, <2>1, <2>2 DEF TypeOK
<1> QED
  BY <1>2, <1>3

\* A proxy with its configuration is alone with its key.
LEMMA OwnKey ==
    ASSUME TypeOK, PortsApart, NEW p \in conf
    PROVE  /\ Before(p) = {}
           /\ Prev(p) = lastTun[port[p]]
           /\ Readings[port[p]] = today[p]
           /\ p \in Listed
<1>1. /\ p \in Proxies /\ p \notin bare /\ p \in Listed
      /\ port[p] /= NoPort /\ port[p] \in Keys
  BY DEF TypeOK, Ports, Keys, NoPort, Listed
<1>2. {q \in Listed : Key(q) = port[p]} = {p}
  BY <1>1 DEF Key, Listed, PortsApart
<1>3. Before(p) = {}
  <2>1. Key(p) = port[p] /\ p \in Nat
    BY <1>1 DEF Key, Proxies
  <2>2. Before(p) = {q \in {r \in Listed : Key(r) = port[p]} : q < p}
    BY <2>1 DEF Before
  <2> QED
    BY <1>2, <2>1, <2>2
<1>4. Prev(p) = lastTun[port[p]]
  BY <1>1, <1>3 DEF Prev, Key
<1>5. (CHOOSE r \in {p} : \A q \in {p} : q <= r) = p
  BY <1>1 DEF Proxies
<1>6. Readings[port[p]] = today[p]
  BY <1>1, <1>2, <1>5 DEF Readings
<1> QED
  BY <1>1, <1>3, <1>4, <1>6

-----------------------------------------------------------------------------
\* A sample keeps the types.
LEMMA SampleTypes ==
    ASSUME TypeOK, Sample
    PROVE  TypeOK'
<1>1. ASSUME NEW p \in Proxies
      PROVE  Capped(counted[p] + Delta(p)) \in 0..(MaxBytes + 1)
  <2>1. today[p] \in 0..MaxBytes /\ counted[p] \in 0..(MaxBytes + 1) /\ Prev(p) \in 0..MaxBytes
    BY PrevType DEF TypeOK
  <2>2. Delta(p) \in Nat
    BY <2>1, TunnelCountersAssumption DEF Delta
  <2> QED
    BY <2>1, <2>2, TunnelCountersAssumption DEF Capped
<1>2. counted' \in [Proxies -> 0..(MaxBytes + 1)]
  BY <1>1 DEF Sample, TypeOK
<1>3. lastTun' \in [Keys -> 0..MaxBytes]
  BY ReadingsType DEF Sample
<1>4. rekeyed' \in SUBSET Proxies /\ clipped' \in SUBSET Proxies
  BY DEF Sample, TypeOK
<1>5. wrapped' \in BOOLEAN
  BY Zenon DEF Sample
<1> QED
  BY <1>2, <1>3, <1>4, <1>5 DEF Sample, TypeOK, frps, bounds

\* A sample reports for a proxy that kept its listing what it had to read, less
\* what new traffic hides after a reset.
LEMMA SampleOwes ==
    ASSUME TunnelInv, Sample, NEW p \in Proxies \ rekeyed'
    PROVE  Owed(p)'
<1>1. p \in conf /\ p \in Proxies /\ p \notin rekeyed
  BY DEF Sample
<1>2. /\ lastTun'[port[p]] = today[p] /\ today' = today /\ carried' = carried /\ port' = port
      /\ ~wrapped'
      /\ counted'[p] = Capped(counted[p] + Delta(p))
      /\ Prev(p) = lastTun[port[p]]
  BY <1>1, OwnKey DEF Sample, TunnelInv, frps
<1>3. /\ today[p] \in Nat /\ lastTun[port[p]] \in Nat /\ counted[p] \in Nat
      /\ carried[p] \in Nat /\ carried[p] <= MaxBytes
  BY <1>1, TunnelCountersAssumption DEF TunnelInv, TypeOK, Keys, Ports
<1>4. Owed(p)
  BY <1>1 DEF TunnelInv
<1>5. p \notin clipped' => p \notin clipped /\ (wrapped => today[p] < lastTun[port[p]] \/ lastTun[port[p]] = 0)
  BY <1>1, <1>3 DEF Sample
<1>6. /\ Delta(p) \in Nat
      /\ Delta(p) <= ToRead(p)
      /\ (wrapped => today[p] < lastTun[port[p]] \/ lastTun[port[p]] = 0) => Delta(p) = ToRead(p)
  BY <1>2, <1>3, <1>4 DEF Delta, ToRead, Owed
<1>7. counted[p] + Delta(p) <= carried[p]
  BY <1>3, <1>4, <1>6 DEF Owed, ToRead
<1>8. counted'[p] = counted[p] + Delta(p)
  BY <1>2, <1>3, <1>6, <1>7, TunnelCountersAssumption DEF Capped
<1>9. p \notin clipped' => counted'[p] = carried[p]
  BY <1>4, <1>5, <1>6, <1>8 DEF Owed
<1>10. ToRead(p)' = 0
  BY <1>2, <1>3 DEF ToRead
<1> QED
  BY <1>2, <1>3, <1>6, <1>7, <1>8, <1>9, <1>10 DEF Owed

\* A reset loses nothing of a proxy whose traffic had been read.
LEMMA ResetOwes ==
    ASSUME TunnelInv, today' = Zero, clipped' = clipped \cup Unread, wrapped' = TRUE,
           UNCHANGED <<port, lastTun, carried, counted, rekeyed>>,
           NEW p \in Proxies \ rekeyed
    PROVE  Owed(p)'
<1>1. Owed(p) /\ wrapped'
  BY DEF TunnelInv
<1>2. /\ today[p] \in Nat /\ lastTun[port[p]] \in Nat /\ counted[p] \in Nat /\ carried[p] \in Nat
      /\ today'[p] = 0
  BY TunnelCountersAssumption DEF TunnelInv, TypeOK, Keys, Zero
<1>3. counted[p] <= carried[p]
  BY <1>1, <1>2 DEF Owed, ToRead
<1>4. p \notin clipped' => counted[p] = carried[p]
  BY <1>1, <1>2 DEF Owed, ToRead, Unread
<1> QED
  BY <1>1, <1>2, <1>3, <1>4 DEF Owed, ToRead

\* Every step keeps TunnelInv.
LEMMA TunnelStep == TunnelInv /\ [Next]_vars => TunnelInv'
<1> SUFFICES ASSUME TunnelInv, [Next]_vars
             PROVE  TunnelInv'
  OBVIOUS
<1>0. TypeOK /\ TodayCarried /\ PortsApart /\ \A p \in Proxies \ rekeyed : Owed(p)
  BY DEF TunnelInv
<1> USE TunnelCountersAssumption
<1>1. CASE Sample
  <2>1. TypeOK'
    BY <1>0, <1>1, SampleTypes
  <2>2. TodayCarried' /\ PortsApart'
    BY <1>0, <1>1 DEF Sample, TodayCarried, PortsApart, frps
  <2> QED
    BY <1>1, <2>1, <2>2, SampleOwes DEF TunnelInv
<1>2. CASE Midnight \/ FrpsRestart
  <2>1. /\ today' = Zero /\ clipped' = clipped \cup Unread /\ wrapped' = TRUE
        /\ UNCHANGED <<port, lastTun, carried, counted, rekeyed>>
    BY <1>2 DEF Midnight, FrpsRestart
  <2>2. TypeOK'
    <3>1. Zero \in [Proxies -> 0..MaxBytes] /\ Unread \in SUBSET Proxies
      BY DEF Zero, Unread
    <3>2. wrapped' \in BOOLEAN
      BY <2>1, Zenon
    <3>3. conf' \in SUBSET Proxies /\ bare' \in SUBSET (Proxies \ conf')
      BY <1>0, <1>2 DEF Midnight, FrpsRestart, TypeOK
    <3> QED
      BY <1>0, <2>1, <3>1, <3>2, <3>3 DEF TypeOK
  <2>3. TodayCarried'
    BY <1>0, <2>1 DEF TodayCarried, Zero, TypeOK
  <2>4. PortsApart'
    BY <1>0, <1>2, <2>1 DEF PortsApart, Midnight, FrpsRestart
  <2> QED
    BY <2>1, <2>2, <2>3, <2>4, ResetOwes DEF TunnelInv
<1>3. CASE AgentRestart
  <2>1. TypeOK' /\ TodayCarried' /\ PortsApart'
    BY <1>0, <1>3 DEF AgentRestart, TypeOK, TodayCarried, PortsApart, frps
  <2> QED
    BY <1>3, <2>1 DEF AgentRestart, TunnelInv
<1>4. ASSUME NEW p \in Proxies, Carry(p)  PROVE TunnelInv'
  <2>1. TypeOK' /\ TodayCarried' /\ PortsApart'
    BY <1>0, <1>4 DEF Carry, TypeOK, TodayCarried, PortsApart, history, bounds
  <2>2. ASSUME NEW q \in Proxies \ rekeyed'  PROVE Owed(q)'
    <3>1. Owed(q) /\ lastTun[port[q]] \in Nat /\ counted[q] \in Nat
      BY <1>0, <1>4 DEF Carry, history, TypeOK, Keys, Ports
    <3>2. /\ today'[q] = today[q] + (IF q = p THEN 1 ELSE 0)
          /\ carried'[q] = carried[q] + (IF q = p THEN 1 ELSE 0)
          /\ UNCHANGED <<port, lastTun, counted, clipped, wrapped>>
          /\ today[q] \in Nat /\ carried[q] \in Nat
      BY <1>0, <1>4 DEF Carry, history, TypeOK
    <3> QED
      BY <3>1, <3>2 DEF Owed, ToRead
  <2> QED
    BY <2>1, <2>2 DEF TunnelInv
<1>5. ASSUME NEW p \in Proxies, ProxyOffline(p) \/ ProxyOnline(p)  PROVE TunnelInv'
  <2>1. UNCHANGED <<today, port, lastTun, carried, counted, rekeyed, clipped, wrapped>>
    BY <1>5 DEF ProxyOffline, ProxyOnline, history
  <2>2. conf' \in SUBSET Proxies /\ bare' \in SUBSET (Proxies \ conf')
    BY <1>0, <1>5 DEF ProxyOffline, ProxyOnline, TypeOK
  <2>3. PortsApart'
    BY <1>0, <1>5, <2>1 DEF ProxyOffline, ProxyOnline, PortsApart, Free
  <2> QED
    BY <1>0, <2>1, <2>2, <2>3 DEF TunnelInv, TypeOK, TodayCarried, Owed, ToRead
<1>6. ASSUME NEW p \in Proxies, NEW k \in Ports, PortEdited(p, k)  PROVE TunnelInv'
  <2>1. UNCHANGED <<today, conf, bare, lastTun, carried, counted, clipped, wrapped>>
    BY <1>6 DEF PortEdited
  <2>2. TypeOK' /\ TodayCarried'
    BY <1>0, <1>6, <2>1 DEF PortEdited, TypeOK, TodayCarried
  <2>3. PortsApart'
    BY <1>0, <1>6 DEF PortEdited, PortsApart, Free, TypeOK
  <2>4. ASSUME NEW q \in Proxies \ rekeyed'  PROVE Owed(q)'
    <3>1. q /= p /\ Owed(q) /\ port'[q] = port[q]
      BY <1>0, <1>6 DEF PortEdited, TypeOK
    <3> QED
      BY <2>1, <3>1 DEF Owed, ToRead
  <2> QED
    BY <2>2, <2>3, <2>4 DEF TunnelInv
<1>7. CASE UNCHANGED vars
  BY <1>0, <1>7 DEF vars, TunnelInv, TypeOK, TodayCarried, PortsApart, Owed, ToRead, history, frps
<1> QED
  BY <1>1, <1>2, <1>3, <1>4, <1>5, <1>6, <1>7 DEF Next

\* TunnelInv holds in every reachable state of the agent and frps.
LEMMA TunnelInvariance == Spec => []TunnelInv
<1>1. Init => TunnelInv
  <2> SUFFICES ASSUME Init  PROVE TunnelInv
    OBVIOUS
  <2>1. wrapped \in BOOLEAN /\ ~wrapped
    BY Zenon DEF Init
  <2>2. TypeOK /\ TodayCarried /\ PortsApart
    BY <2>1, TunnelCountersAssumption
       DEF Init, TypeOK, TodayCarried, PortsApart, Zero, Proxies, Ports
  <2>3. ASSUME NEW p \in Proxies  PROVE Owed(p)
    BY <2>1, TunnelCountersAssumption DEF Init, Owed, ToRead, Zero, Keys, Proxies, Ports
  <2> QED
    BY <2>2, <2>3 DEF TunnelInv
<1> QED
  BY <1>1, TunnelStep, PTL DEF Spec

\* A tunnel that kept its listing and its port is charged for no more than it
\* carried, for any number of proxies, resets of frps, losses of other tunnels
\* and edits of other ports
\* (sampleAndBroadcast).
THEOREM NoPhantoms == Spec => []NoPhantomTraffic
<1>1. TunnelInv => NoPhantomTraffic
  BY TunnelCountersAssumption
     DEF TunnelInv, TypeOK, Owed, ToRead, NoPhantomTraffic, Keys, Ports
<1> QED
  BY <1>1, TunnelInvariance, PTL

\* And once it is sampled it is charged for all of it, unless a reset came
\* between traffic and its reading, or was hidden by new traffic.
THEOREM AllIsCounted == Spec => []NothingMissed
<1>1. TunnelInv => NothingMissed
  <2> SUFFICES ASSUME TunnelInv, NEW p \in conf \ (rekeyed \cup clipped),
                      ~wrapped, lastTun[port[p]] = today[p]
               PROVE  counted[p] >= carried[p]
    BY DEF NothingMissed
  <2>1. /\ p \in Proxies /\ Owed(p)
        /\ today[p] \in Nat /\ counted[p] \in Nat /\ carried[p] \in Nat
    BY DEF TunnelInv, TypeOK
  <2> QED
    BY <2>1 DEF Owed, ToRead
<1> QED
  BY <1>1, TunnelInvariance, PTL
==============================================================================
