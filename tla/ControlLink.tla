---------------------------- MODULE ControlLink ----------------------------
(***************************************************************************)
(* The frps token of one node and the requests that change it.             *)
(*                                                                         *)
(* The panel asks the agent to restart frps with a new token               *)
(* (RotateFrpsToken) and otherwise learns the token from every hello_ack.  *)
(* Requests are matched with replies by their identifier, each waits eight *)
(* seconds, and the connection may break at any time; the agent carries a  *)
(* request out even if the panel no longer waits for it or the session it  *)
(* came from is gone.  Replies, live samples and the hello_ack go through  *)
(* the same queue; samples are modelled in AgentServer.                    *)
(*                                                                         *)
(* Sessions are numbered.  A token stands for the request that made it up. *)
(* How frpc is stopped and started is modelled in FrpcManager; here a call *)
(* of it is one step.                                                      *)
(***************************************************************************)
EXTENDS Naturals, Sequences

CONSTANTS Callers,      \* HTTP handlers that rotate the token, or change mappings or
                        \* the node's name
          MaxSessions,  \* connections the panel makes
          MaxToken      \* tokens in use, the first one included

ASSUME LinkAssumption == MaxSessions \in Nat \ {0} /\ MaxToken \in Nat \ {0}

Sessions == 1..MaxSessions
Tokens == 1..MaxToken
None == 0

VARIABLES
    cfgTok,    \* agent: cfg.FrpsToken
    inbox,     \* per session: requests sent and not read yet
    job,       \* per session: the request its reader carries out
    outbox,    \* per session: replies on their way, as <<token, result>>
    ses,       \* panel: the newest session
    open,      \* sessions whose connection is open
    drv,       \* panel: where NodeConn.session is
    snapTok,   \* panel: the token in the session's snapshot of the node
    ackTok,    \* panel: the token in the hello_ack
    nodeTok,   \* panel: the token in NodeConn.node
    dbTok,     \* the token in the nodes table
    pc,        \* where a caller is
    tok,       \* the token a caller works with
    chan,      \* what arrived on a caller's reply channel
    rec,       \* per session: where its reconcile is
    recTok,    \* per session: the token reconcile read
    file,      \* the token in frpc's file
    nextTok,   \* the next fresh token
    applied,   \* history: the tokens whose restart of frps succeeded
    crossed,   \* history: rotations overlapped, one was given up, or an edit of the
               \* node's name put an older token back
    raced,     \* history: a rotation overlapped another writer of frpc's file
    unserved   \* history: a rotation could not rewrite frpc's file

agentVars == <<cfgTok, inbox, job, applied>>
linkVars == <<ses, open, drv, snapTok, ackTok>>
callerVars == <<pc, tok, chan, nextTok>>
frpcVars == <<rec, recTok, file, unserved>>
overlapVars == <<crossed, raced>>
vars == <<agentVars, outbox, linkVars, nodeTok, dbTok, callerVars, frpcVars,
          overlapVars>>

TypeOK ==
    /\ cfgTok \in Tokens /\ nodeTok \in Tokens /\ dbTok \in Tokens
    /\ inbox \in [Sessions -> Seq(Tokens)]
    /\ job \in [Sessions -> Tokens \cup {None}]
    /\ outbox \in [Sessions -> SUBSET (Tokens \X {"ok", "failed"})]
    /\ ses \in 0..MaxSessions
    /\ open \subseteq Sessions
    /\ drv \in {"off", "hello", "ack", "learned", "up"}
    /\ snapTok \in Tokens /\ ackTok \in Tokens
    /\ pc \in [Callers -> {"idle", "wait", "store", "set", "restart", "sync", "meta"}]
    /\ tok \in [Callers -> Tokens]
    /\ chan \in [Callers -> {"empty", "ok", "failed"}]
    /\ rec \in [Sessions -> {"none", "read", "ensure", "done"}]
    /\ recTok \in [Sessions -> Tokens]
    /\ file \in Tokens \cup {None}
    /\ nextTok \in 2..(MaxToken + 1)
    /\ applied \subseteq Tokens
    /\ crossed \in BOOLEAN /\ raced \in BOOLEAN /\ unserved \in BOOLEAN

\* A panel that was restarted and knows the token of the node.
Init ==
    /\ cfgTok = 1 /\ nodeTok = 1 /\ dbTok = 1
    /\ inbox = [s \in Sessions |-> <<>>]
    /\ job = [s \in Sessions |-> None]
    /\ outbox = [s \in Sessions |-> {}]
    /\ ses = 0 /\ open = {} /\ drv = "off" /\ snapTok = 1 /\ ackTok = 1
    /\ pc = [c \in Callers |-> "idle"]
    /\ tok = [c \in Callers |-> 1]
    /\ chan = [c \in Callers |-> "empty"]
    /\ rec = [s \in Sessions |-> "none"]
    /\ recTok = [s \in Sessions |-> 1]
    /\ file = 1
    /\ nextTok = 2
    /\ applied = {1}
    /\ crossed = FALSE /\ raced = FALSE /\ unserved = FALSE

----------------------------------------------------------------------------
(***************************************************************************)
(* What is under way.                                                      *)
(***************************************************************************)

AgentIdle == \A s \in Sessions : job[s] = None /\ inbox[s] = <<>>
Rotating == \E c \in Callers : pc[c] \in {"wait", "store", "set", "restart"}
Reconciling == \E s \in Sessions : rec[s] \in {"read", "ensure"}
Syncing == \E c \in Callers : pc[c] = "sync"

\* No rotation is under way on either side, and nobody is about to write frpc's file.
RotationsDone == AgentIdle /\ ~Rotating
Quiet == RotationsDone /\ ~Reconciling /\ ~Syncing

----------------------------------------------------------------------------
(***************************************************************************)
(* NodeConn.session: dial, hello, hello_ack, reader.                       *)
(***************************************************************************)

Dial ==
    /\ drv = "off"
    /\ ses < MaxSessions
    /\ ses' = ses + 1
    /\ open' = open \cup {ses + 1}
    /\ snapTok' = nodeTok
    /\ drv' = "hello"
    /\ UNCHANGED <<agentVars, outbox, ackTok, nodeTok, dbTok, callerVars,
                   frpcVars, overlapVars>>

\* The agent answers hello with the token it has now.  What went wrong before is
\* made good unless something is still under way.
HelloAck ==
    /\ drv = "hello"
    /\ ackTok' = cfgTok
    /\ drv' = "ack"
    /\ crossed' = (crossed /\ ~RotationsDone)
    /\ raced' = ~Quiet
    /\ UNCHANGED <<agentVars, outbox, ses, open, snapTok, nodeTok, dbTok,
                   callerVars, frpcVars>>

\* A token the session did not know goes to the database, if that answers.
LearnToken ==
    /\ drv = "ack"
    /\ dbTok' \in IF ackTok # snapTok THEN {ackTok, dbTok} ELSE {dbTok}
    /\ drv' = "learned"
    /\ UNCHANGED <<agentVars, outbox, ses, open, snapTok, ackTok, nodeTok,
                   callerVars, frpcVars, overlapVars>>

\* A mutant: the token of the hello_ack is not kept.
GoUpForgets ==
    /\ drv = "learned"
    /\ file' = IF ackTok # snapTok THEN None ELSE file
    /\ rec' = [rec EXCEPT ![ses] = "read"]
    /\ drv' = "up"
    /\ UNCHANGED <<agentVars, outbox, ses, open, snapTok, ackTok, nodeTok, dbTok,
                   callerVars, recTok, unserved, overlapVars>>

\* Then frpc is stopped and its file removed, the node kept, and the reader and
\* reconcile start.
GoUp ==
    /\ drv = "learned"
    /\ nodeTok' = ackTok
    /\ file' = IF ackTok # snapTok THEN None ELSE file
    /\ rec' = [rec EXCEPT ![ses] = "read"]
    /\ drv' = "up"
    /\ UNCHANGED <<agentVars, outbox, ses, open, snapTok, ackTok, dbTok,
                   callerVars, recTok, unserved, overlapVars>>

\* The connection ends, in the handshake or later; replies on their way are lost.
Disconnect ==
    /\ drv # "off"
    /\ open' = open \ {ses}
    /\ outbox' = [outbox EXCEPT ![ses] = {}]
    /\ drv' = "off"
    /\ UNCHANGED <<agentVars, ses, snapTok, ackTok, nodeTok, dbTok, callerVars,
                   frpcVars, overlapVars>>

\* A mutant: reconcile goes by the node the session began with.
ReconcileReadSnapshot(s) ==
    /\ rec[s] = "read"
    /\ \/ rec' = [rec EXCEPT ![s] = "ensure"] /\ recTok' = [recTok EXCEPT ![s] = snapTok]
       \/ rec' = [rec EXCEPT ![s] = "none"] /\ UNCHANGED recTok
    /\ UNCHANGED <<agentVars, outbox, linkVars, nodeTok, dbTok, callerVars, file,
                   unserved, overlapVars>>

\* reconcile reads the node and the mappings, asks the agent what it serves (the
\* answer is only logged) and has frpc's file written.
ReconcileRead(s) ==
    /\ rec[s] = "read"
    /\ \/ rec' = [rec EXCEPT ![s] = "ensure"] /\ recTok' = [recTok EXCEPT ![s] = nodeTok]
       \/ rec' = [rec EXCEPT ![s] = "none"] /\ UNCHANGED recTok
    /\ UNCHANGED <<agentVars, outbox, linkVars, nodeTok, dbTok, callerVars, file,
                   unserved, overlapVars>>

ReconcileEnsure(s) ==
    /\ rec[s] = "ensure"
    /\ file' = recTok[s]
    /\ rec' = [rec EXCEPT ![s] = "done"]
    /\ unserved' = FALSE
    /\ UNCHANGED <<agentVars, outbox, linkVars, nodeTok, dbTok, callerVars,
                   recTok, overlapVars>>

----------------------------------------------------------------------------
(***************************************************************************)
(* The agent: dispatch runs in the reader of its session.                  *)
(***************************************************************************)

\* RotateToken sets the token in memory before anything else.
DispatchRestart(s) ==
    /\ job[s] = None
    /\ inbox[s] # <<>>
    /\ job' = [job EXCEPT ![s] = Head(inbox[s])]
    /\ inbox' = [inbox EXCEPT ![s] = Tail(inbox[s])]
    /\ cfgTok' = Head(inbox[s])
    /\ UNCHANGED <<applied, outbox, linkVars, nodeTok, dbTok, callerVars,
                   frpcVars, overlapVars>>

\* The reply is dropped if the session is gone or its queue is full.
Reply(s, res) ==
    \/ s \in open /\ outbox' = [outbox EXCEPT ![s] = @ \cup {<<job[s], res>>}]
    \/ UNCHANGED outbox

\* frps is restarted with the token the configuration holds by then.
RestartDone(s) ==
    /\ job[s] # None
    /\ applied' = applied \cup {job[s]}
    /\ Reply(s, "ok")
    /\ job' = [job EXCEPT ![s] = None]
    /\ UNCHANGED <<cfgTok, inbox, linkVars, nodeTok, dbTok, callerVars, frpcVars,
                   overlapVars>>

\* Saving, rewriting frps.toml or systemctl fails; the token in memory stays.
RestartFails(s) ==
    /\ job[s] # None
    /\ Reply(s, "failed")
    /\ job' = [job EXCEPT ![s] = None]
    /\ UNCHANGED <<cfgTok, inbox, applied, linkVars, nodeTok, dbTok, callerVars,
                   frpcVars, overlapVars>>

\* The reader of a closed connection meets its end before what was still to read.
ReaderEnds(s) ==
    /\ s \notin open
    /\ job[s] = None
    /\ inbox[s] # <<>>
    /\ inbox' = [inbox EXCEPT ![s] = <<>>]
    /\ UNCHANGED <<cfgTok, job, applied, outbox, linkVars, nodeTok, dbTok,
                   callerVars, frpcVars, overlapVars>>

----------------------------------------------------------------------------
(***************************************************************************)
(* RotateFrpsToken and SyncNode.                                           *)
(***************************************************************************)

\* request over the connection that is up; another operation may be under way.
RotateSend(c) ==
    /\ pc[c] = "idle"
    /\ drv = "up"
    /\ nextTok <= MaxToken
    /\ tok' = [tok EXCEPT ![c] = nextTok]
    /\ nextTok' = nextTok + 1
    /\ chan' = [chan EXCEPT ![c] = "empty"]
    /\ inbox' = [inbox EXCEPT ![ses] = Append(@, nextTok)]
    /\ pc' = [pc EXCEPT ![c] = "wait"]
    /\ crossed' = (crossed \/ ~RotationsDone)
    /\ raced' = (raced \/ Reconciling \/ Syncing)
    /\ UNCHANGED <<cfgTok, job, applied, outbox, linkVars, nodeTok, dbTok,
                   frpcVars>>

\* A mutant: a reply goes to whoever waits.
AnsweredByAny(c, t) == pc[c] = "wait"

\* The pending request a reply belongs to.
AnsweredBy(c, t) == pc[c] = "wait" /\ tok[c] = t

\* handle: a reply goes to the channel of its request, or nowhere if that is gone.
Handle ==
    /\ drv = "up"
    /\ \E r \in outbox[ses] :
          /\ outbox' = [outbox EXCEPT ![ses] = @ \ {r}]
          /\ chan' = [c \in Callers |->
                         IF AnsweredBy(c, r[1]) /\ chan[c] = "empty"
                         THEN r[2]
                         ELSE chan[c]]
    /\ UNCHANGED <<agentVars, linkVars, nodeTok, dbTok, pc, tok, nextTok,
                   frpcVars, overlapVars>>

RotateReply(c) ==
    /\ pc[c] = "wait"
    /\ chan[c] # "empty"
    /\ pc' = [pc EXCEPT ![c] = IF chan[c] = "ok" THEN "store" ELSE "idle"]
    /\ crossed' = (crossed \/ chan[c] = "failed")
    /\ UNCHANGED <<agentVars, outbox, linkVars, nodeTok, dbTok, tok, chan,
                   nextTok, frpcVars, raced>>

\* The caller gives up; the agent may still carry the request out.
RotateTimeout(c) ==
    /\ pc[c] = "wait"
    /\ pc' = [pc EXCEPT ![c] = "idle"]
    /\ crossed' = TRUE
    /\ UNCHANGED <<agentVars, outbox, linkVars, nodeTok, dbTok, tok, chan,
                   nextTok, frpcVars, raced>>

\* UpdateNodeFrps succeeds, or the caller returns its error.
RotateStore(c) ==
    /\ pc[c] = "store"
    /\ \/ /\ dbTok' = tok[c]
          /\ pc' = [pc EXCEPT ![c] = "set"]
          /\ UNCHANGED crossed
       \/ /\ dbTok' \in {dbTok, tok[c]}
          /\ pc' = [pc EXCEPT ![c] = "idle"]
          /\ crossed' = TRUE
    /\ UNCHANGED <<agentVars, outbox, linkVars, nodeTok, tok, chan, nextTok,
                   frpcVars, raced>>

RotateSet(c) ==
    /\ pc[c] = "set"
    /\ nodeTok' = tok[c]
    /\ pc' = [pc EXCEPT ![c] = "restart"]
    /\ UNCHANGED <<agentVars, outbox, linkVars, dbTok, tok, chan, nextTok,
                   frpcVars, overlapVars>>

\* RestartNode, unless the mappings cannot be read.
RotateRestart(c) ==
    /\ pc[c] = "restart"
    /\ \/ file' = tok[c] /\ unserved' = FALSE
       \/ UNCHANGED file /\ unserved' = TRUE
    /\ pc' = [pc EXCEPT ![c] = "idle"]
    /\ UNCHANGED <<agentVars, outbox, linkVars, nodeTok, dbTok, tok, chan,
                   nextTok, rec, recTok, overlapVars>>

\* SyncNode takes the token from the database.
SyncRead(c) ==
    /\ pc[c] = "idle"
    /\ tok' = [tok EXCEPT ![c] = dbTok]
    /\ pc' = [pc EXCEPT ![c] = "sync"]
    /\ raced' = (raced \/ Rotating \/ drv \in {"ack", "learned"})
    /\ UNCHANGED <<agentVars, outbox, linkVars, nodeTok, dbTok, chan, nextTok,
                   frpcVars, crossed>>

SyncEnsure(c) ==
    /\ pc[c] = "sync"
    /\ file' \in {file, tok[c]}
    /\ pc' = [pc EXCEPT ![c] = "idle"]
    /\ UNCHANGED <<agentVars, outbox, linkVars, nodeTok, dbTok, tok, chan,
                   nextTok, rec, recTok, unserved, overlapVars>>

\* UpdateMeta takes the whole node from the connection to change its name.
MetaRead(c) ==
    /\ pc[c] = "idle"
    /\ tok' = [tok EXCEPT ![c] = nodeTok]
    /\ pc' = [pc EXCEPT ![c] = "meta"]
    /\ UNCHANGED <<agentVars, outbox, linkVars, nodeTok, dbTok, chan, nextTok,
                   frpcVars, overlapVars>>

\* And puts the whole node back, the token it had then included.  While no session
\* is up that does no harm: the handshake brings the token.
MetaSet(c) ==
    /\ pc[c] = "meta"
    /\ nodeTok' = tok[c]
    /\ pc' = [pc EXCEPT ![c] = "idle"]
    /\ crossed' = (crossed \/ (drv = "up" /\ tok[c] # nodeTok))
    /\ UNCHANGED <<agentVars, outbox, linkVars, dbTok, tok, chan, nextTok,
                   frpcVars, raced>>

----------------------------------------------------------------------------
Link == Dial \/ HelloAck \/ LearnToken \/ GoUp \/ Disconnect \/ Handle

Session(s) ==
    \/ ReconcileRead(s)
    \/ ReconcileEnsure(s)
    \/ DispatchRestart(s)
    \/ RestartDone(s)
    \/ RestartFails(s)
    \/ ReaderEnds(s)

\* The steps a caller takes once it has begun.
Proceed(c) ==
    \/ RotateReply(c)
    \/ RotateTimeout(c)
    \/ RotateStore(c)
    \/ RotateSet(c)
    \/ RotateRestart(c)
    \/ SyncEnsure(c)
    \/ MetaSet(c)

Next ==
    \/ Link
    \/ \E s \in Sessions : Session(s)
    \/ \E c \in Callers : RotateSend(c) \/ SyncRead(c) \/ MetaRead(c) \/ Proceed(c)

Spec == Init /\ [][Next]_vars

----------------------------------------------------------------------------
\* A caller that goes on after its request was answered had its own restart of
\* frps carried out: replies of other requests, or late ones, do not reach it
\* (request and handle match them by identifier in nodeconn.go).
OwnReply ==
    \A c \in Callers : pc[c] \in {"store", "set", "restart"} => tok[c] \in applied

\* Once the rotations have come to rest on a link that is up, the panel and the
\* agent have the same token, unless since the last hello_ack rotations overlapped,
\* one was given up or UpdateMeta put an older token back: the handshake makes good
\* what these, a failed restart or a failed UpdateNodeFrps left behind.
TokensAgree == drv = "up" /\ RotationsDone /\ ~crossed => nodeTok = cfgTok

\* Then the file frpc starts from has that token as well, whichever of reconcile,
\* RotateFrpsToken and SyncNode wrote it, provided that none of them overlapped a
\* rotation, the session's reconcile and the last rotation could write it, and
\* the database took the token SyncNode reads.
FileHasToken ==
    /\ drv = "up" /\ Quiet /\ rec[ses] = "done"
    /\ ~crossed /\ ~raced /\ ~unserved
    /\ dbTok = nodeTok
    => file = cfgTok

\* What UpdateMeta is documented to be: a cosmetic edit of name and region
\* (nodemgr.go:297-298), which leaves the token alone.
EditIsCosmetic == [][\A c \in Callers : MetaSet(c) => nodeTok' = nodeTok]_vars

----------------------------------------------------------------------------
(***************************************************************************)
(* The inductive invariant behind OwnReply.                                *)
(***************************************************************************)

SessionNumbered == drv # "off" => ses \in Sessions

\* A reply that says so comes from a restart that succeeded.
RepliesTrue ==
    \A s \in Sessions, t \in Tokens : <<t, "ok">> \in outbox[s] => t \in applied

\* What reached a caller's channel is the answer to its own request.
ChannelsTrue ==
    \A c \in Callers : pc[c] = "wait" /\ chan[c] = "ok" => tok[c] \in applied

LinkInv ==
    /\ TypeOK
    /\ SessionNumbered
    /\ RepliesTrue
    /\ ChannelsTrue
    /\ OwnReply
=============================================================================
