------------------------------ MODULE SelfUpdate ------------------------------
(***************************************************************************)
(* The online update of a binary: selfupdate.Run (download the checksum    *)
(* list and the asset, verify, write <target>.new, rename it over the      *)
(* target) and its two callers.  The agent starts it from dispatch, at     *)
(* most once at a time (the flag s.updating), and restarts when it is in   *)
(* place; the panel starts it from handleSelfUpdate, once per request.     *)
(*                                                                         *)
(* A release is a number; a downloaded body is the number of the release   *)
(* it came from, or 0 for a damaged or short one.  Files are inodes that   *)
(* hold Pieces pieces, because os.WriteFile truncates and then writes, and *)
(* a second writer of the same path shares the inode of the first.         *)
(***************************************************************************)
EXTENDS Naturals, FiniteSets

CONSTANTS
    Updates,    \* calls of selfupdate.Run that may be made
    Guarded,    \* TRUE: the agent's CompareAndSwap; FALSE: the panel
    Pieces,     \* writes it takes to fill the staged file
    MaxRelease, \* releases published during the run
    MaxExits    \* exits of the process, wanted or not

ASSUME SelfUpdateAssumption ==
    /\ IsFiniteSet(Updates)
    /\ Guarded \in BOOLEAN
    /\ Pieces \in Nat \ {0}
    /\ MaxRelease \in Nat \ {0}
    /\ MaxExits \in Nat

VARIABLES
    release,  \* the release the distribution base serves now
    run,      \* run[u]: where call u is, its checksum, its body, its inode
    updating, \* s.updating
    data,     \* data[i][k]: release that piece k of inode i is from, 0 a hole
    tmp,      \* inode of <target>.new, 0 when there is none
    target,   \* inode of the executable
    exits     \* exits so far

updateVars == <<release, run, updating, data, tmp, target, exits>>

-----------------------------------------------------------------------------
Releases == 1..MaxRelease

Damaged == 0

NoInode == 0

\* An inode for every writer, one for the target and one left at tmp.
Inodes == 1..(Cardinality(Updates) + 2)

Hole == 0

Whole(r) == [k \in 1..Pieces |-> r]

Empty == Whole(Hole)

Idle == [pc |-> "idle", sum |-> 0, got |-> 0, inode |-> NoInode, next |-> 1]

\* Calls that the process is executing.
Live == {u \in Updates : run[u].pc \notin {"idle", "ended"}}

Ended(u) == [run EXCEPT ![u].pc = "ended"]

\* A body the server, or the mirror after it failed, may return: the asset of
\* the current release, an older one a mirror still holds, or a damaged one.
Fetched == (1..release) \cup {Damaged}

\* An inode nobody can reach any more.
FreeInode ==
    CHOOSE i \in Inodes :
        /\ i \notin {tmp, target}
        /\ \A u \in Live : run[u].inode /= i

-----------------------------------------------------------------------------
UpdateInit ==
    /\ release = 1
    /\ run = [u \in Updates |-> Idle]
    /\ updating = FALSE
    /\ data = [i \in Inodes |-> IF i = 1 THEN Whole(1) ELSE Empty]
    /\ tmp = NoInode
    /\ target = 1
    /\ exits = 0

\* A new release appears at the distribution base.
Publish ==
    /\ release < MaxRelease
    /\ release' = release + 1
    /\ UNCHANGED <<run, updating, data, tmp, target, exits>>

\* update_agent arrives and the flag is free, or the panel's handler is called.
Begin(u) ==
    /\ run[u].pc = "idle"
    /\ Guarded => ~updating
    /\ updating' = Guarded
    /\ run' = [run EXCEPT ![u].pc = "sums"]
    /\ UNCHANGED <<release, data, tmp, target, exits>>

\* An error path that leaves the flag set.
FailKeepsFlag(u) ==
    /\ run' = Ended(u)
    /\ UNCHANGED updating

\* The call returns an error; the deferred Store(false) frees the flag.
Fail(u) ==
    /\ run' = Ended(u)
    /\ updating' = FALSE

\* sha256sums.txt: downloaded with a line for the asset, or the call fails.
FetchSums(u) ==
    /\ run[u].pc = "sums"
    /\ \/ \E r \in 1..release :
            run' = [run EXCEPT ![u].pc = "asset", ![u].sum = r]
          /\ UNCHANGED updating
       \/ Fail(u)
    /\ UNCHANGED <<release, data, tmp, target, exits>>

\* The length of the asset is checked, its checksum is not.
FetchAssetByLength(u) ==
    /\ run[u].pc = "asset"
    /\ \E b \in Fetched \ {Damaged} :
         run' = [run EXCEPT ![u].pc = "open", ![u].got = b]
    /\ UNCHANGED <<release, updating, data, tmp, target, exits>>

\* The asset: downloaded, long enough and with that checksum, or the call fails.
FetchAsset(u) ==
    /\ run[u].pc = "asset"
    /\ \/ \E b \in Fetched :
            IF b = run[u].sum
            THEN /\ run' = [run EXCEPT ![u].pc = "open", ![u].got = b]
                 /\ UNCHANGED updating
            ELSE Fail(u)
       \/ Fail(u)
    /\ UNCHANGED <<release, data, tmp, target, exits>>

\* The body is written over the executable itself.
OpenTmpInPlace(u) ==
    /\ run[u].pc = "open"
    /\ tmp' = target
    /\ data' = [data EXCEPT ![target] = Empty]
    /\ run' = [run EXCEPT ![u].pc = "write", ![u].inode = target]
    /\ UNCHANGED <<release, updating, target, exits>>

\* os.WriteFile opens <target>.new: an existing file is truncated in place.
OpenTmp(u) ==
    /\ run[u].pc = "open"
    /\ \/ LET i == IF tmp = NoInode THEN FreeInode ELSE tmp
          IN  /\ tmp' = i
              /\ data' = [data EXCEPT ![i] = Empty]
              /\ run' = [run EXCEPT ![u].pc = "write", ![u].inode = i]
              /\ UNCHANGED updating
       \/ Fail(u) /\ UNCHANGED <<tmp, data>>
    /\ UNCHANGED <<release, target, exits>>

\* One write of the body at this call's own offset; a full disk ends the call
\* and leaves what was written.
WritePiece(u) ==
    /\ run[u].pc = "write"
    /\ \/ /\ data' = [data EXCEPT ![run[u].inode][run[u].next] = run[u].got]
          /\ run' = [run EXCEPT
                        ![u].pc = IF run[u].next = Pieces THEN "rename" ELSE "write",
                        ![u].next = run[u].next + 1]
          /\ UNCHANGED updating
       \/ Fail(u) /\ UNCHANGED data
    /\ UNCHANGED <<release, tmp, target, exits>>

\* os.Rename moves whatever <target>.new names now; when it fails the staged
\* file is removed.
Rename(u) ==
    /\ run[u].pc = "rename"
    /\ \/ /\ tmp /= NoInode
          /\ target' = tmp
          /\ run' = [run EXCEPT ![u].pc = "swapped"]
          /\ UNCHANGED updating
       \/ Fail(u) /\ UNCHANGED target
    /\ tmp' = NoInode
    /\ UNCHANGED <<release, data, exits>>

\* The process exits, because an update is in place (restartFn) or by itself,
\* and is started again from the target: every call dies where it is.
Exit ==
    /\ exits < MaxExits
    /\ exits' = exits + 1
    /\ run' = [u \in Updates |->
                 IF u \in Live THEN [run[u] EXCEPT !.pc = "ended"] ELSE run[u]]
    /\ updating' = FALSE
    /\ UNCHANGED <<release, data, tmp, target>>

\* restartFn returns before the process is down: the deferred Store(false)
\* frees the flag while messages are still served.
Return(u) ==
    /\ run[u].pc = "swapped"
    /\ run' = Ended(u)
    /\ updating' = FALSE
    /\ UNCHANGED <<release, data, tmp, target, exits>>

Step(u) ==
    \/ FetchSums(u)
    \/ FetchAsset(u)
    \/ OpenTmp(u)
    \/ WritePiece(u)
    \/ Rename(u)
    \/ Return(u)

UpdateNext ==
    \/ Publish
    \/ Exit
    \/ \E u \in Updates : Begin(u) \/ Step(u)

\* A call of Run always goes on: every download has a deadline.
Fairness == \A u \in Updates : WF_updateVars(Step(u))

UpdateSpec == UpdateInit /\ [][UpdateNext]_updateVars /\ Fairness

-----------------------------------------------------------------------------
Call == [pc : {"idle", "sums", "asset", "open", "write", "rename", "swapped",
               "ended"},
         sum : 0..MaxRelease, got : 0..MaxRelease,
         inode : Inodes \cup {NoInode}, next : 1..(Pieces + 1)]

UpdateTypeOK ==
    /\ release \in Releases
    /\ run \in [Updates -> Call]
    /\ updating \in BOOLEAN
    /\ data \in [Inodes -> [1..Pieces -> 0..MaxRelease]]
    /\ tmp \in Inodes \cup {NoInode}
    /\ target \in Inodes
    /\ exits \in 0..MaxExits

\* The executable's path never holds a half-written or mixed file, whatever
\* call, exit or full disk comes between two steps ("rename guarantees the path
\* never holds a half-written file", the comment of Apply).
TargetWhole == \E r \in Releases : data[target] = Whole(r)

\* The executable is the one whose checksum the call downloaded: the check is
\* made, and between it and the rename nobody else changes the staged file.
InstalledIsVerified ==
    \A u \in Updates : run[u].pc = "swapped" => data[target] = Whole(run[u].sum)

\* No outcome of a call leaves the agent unable to update again: the flag
\* s.updating is freed on every path out of runSelfUpdate.
FlagFreed == updating ~> ~updating

===============================================================================
