------------------------------ MODULE WebSessions ------------------------------
(***************************************************************************)
(* The administrator's password and the sessions it opens: handleLogin,    *)
(* handleChangePassword and handleLogout of the panel, the check that      *)
(* RequireAuth makes on every request, and the command line's reset, which *)
(* is a process of its own on the same table.  A session is a signed       *)
(* cookie that carries the pwd_version of the row it was issued from; it   *)
(* is revoked by counting the row's version up.  A handler's statements    *)
(* are separate steps: nothing holds the row between them.                 *)
(*                                                                         *)
(* A password is a number, new for every change.                           *)
(***************************************************************************)
EXTENDS Naturals

CONSTANTS
    Browsers,
    NoCookie,
    MaxVersion  \* bound on pwd_version

ASSUME WebSessionsAssumption == MaxVersion \in Nat \ {0}

VARIABLES
    row,     \* the user's row: pwd_version and the password of its hash
    cookie,  \* cookie[b]: version it was issued with, password its owner gave
    handler, \* handler[b]: the request of b that is being handled
    alive,   \* does MySQL answer?
    dbUp,    \* what the panel believes (a.dbHealthy)
    crossed  \* history: the version in force was set while another change was
             \* between its UPDATE and its SELECT

sessionsVars == <<row, cookie, handler, alive, dbUp, crossed>>

-----------------------------------------------------------------------------
Passwords == 0..MaxVersion

Rows == [pv : 1..MaxVersion, pw : Passwords]

Idle == [pc |-> "idle", pv |-> 1, pw |-> 0]

\* ensure-admin creates the account with version 1.
SessionsInit ==
    /\ row = [pv |-> 1, pw |-> 0]
    /\ cookie = [b \in Browsers |-> NoCookie]
    /\ handler = [b \in Browsers |-> Idle]
    /\ alive = TRUE
    /\ dbUp = TRUE
    /\ crossed = FALSE

At(b, pc) == handler[b].pc = pc

Goto(b, pc) == handler' = [handler EXCEPT ![b].pc = pc]

\* The handler returns an error and sets no cookie.
Refuse(b) ==
    /\ ~At(b, "idle")
    /\ handler' = [handler EXCEPT ![b] = Idle]
    /\ UNCHANGED <<row, cookie, alive, dbUp, crossed>>

\* claimsFromRequest: a cookie of the row's version, or any cookie while the
\* database is believed to be down.
Authentic(b) ==
    /\ cookie[b] /= NoCookie
    /\ dbUp => alive /\ cookie[b].pv = row.pv

-----------------------------------------------------------------------------
\* handleLogin with the right password, up to CheckPassword: the row is read
\* once.  (A wrong password changes nothing here; Limiter models the throttle.)
LoginRead(b) ==
    /\ At(b, "idle") /\ dbUp /\ alive
    /\ handler' = [handler EXCEPT
                      ![b] = [pc |-> "issue", pv |-> row.pv, pw |-> row.pw]]
    /\ UNCHANGED <<row, cookie, alive, dbUp, crossed>>

\* Issue and SetSession, with the version of the row that was read.
Issue(b) ==
    /\ At(b, "issue") \/ At(b, "reissue")
    /\ cookie' = [cookie EXCEPT ![b] = [pv |-> handler[b].pv, pw |-> handler[b].pw]]
    /\ handler' = [handler EXCEPT ![b] = Idle]
    /\ UNCHANGED <<row, alive, dbUp, crossed>>

\* handleLogout: the browser drops its cookie.
Logout(b) ==
    /\ At(b, "idle") /\ Authentic(b)
    /\ cookie' = [cookie EXCEPT ![b] = NoCookie]
    /\ UNCHANGED <<row, handler, alive, dbUp, crossed>>

\* A change of the password passes RequireAuth.
ChangeBegin(b) ==
    /\ At(b, "idle") /\ Authentic(b) /\ dbUp
    /\ Goto(b, "check")
    /\ UNCHANGED <<row, cookie, alive, dbUp, crossed>>

\* It reads the row and finds that the old password it was given is the row's.
ChangeCheck(b) ==
    /\ At(b, "check") /\ alive
    /\ handler' = [handler EXCEPT
                      ![b] = [pc |-> "update", pv |-> row.pv, pw |-> row.pw]]
    /\ UNCHANGED <<row, cookie, alive, dbUp, crossed>>

\* UpdatePassword sets the hash and leaves the version as it is.
UpdatePasswordSameVersion(b) ==
    /\ At(b, "update") /\ alive /\ row.pv < MaxVersion
    /\ row' = [row EXCEPT !.pw = row.pv]
    /\ handler' = [handler EXCEPT ![b].pc = "select", ![b].pw = row.pv]
    /\ UNCHANGED <<cookie, alive, dbUp, crossed>>

\* UpdatePassword: one UPDATE sets the hash and counts the version up.
UpdatePassword(b) ==
    /\ At(b, "update") /\ alive /\ row.pv < MaxVersion
    /\ row' = [pv |-> row.pv + 1, pw |-> row.pv]
    /\ handler' = [handler EXCEPT ![b].pc = "select", ![b].pw = row.pv]
    /\ crossed' = \E c \in Browsers \ {b} : At(c, "select")
    /\ UNCHANGED <<cookie, alive, dbUp>>

\* The session is issued again with the version read before the change.
SelectVersionSkipped(b) ==
    /\ At(b, "select") /\ alive
    /\ Goto(b, "reissue")
    /\ UNCHANGED <<row, cookie, alive, dbUp, crossed>>

\* UpdatePassword: a SELECT of its own returns the version.
SelectVersion(b) ==
    /\ At(b, "select") /\ alive
    /\ handler' = [handler EXCEPT ![b].pc = "reissue", ![b].pv = row.pv]
    /\ UNCHANGED <<row, cookie, alive, dbUp, crossed>>

\* reset-admin, from the command line.
ResetAdmin ==
    /\ alive /\ row.pv < MaxVersion
    /\ row' = [pv |-> row.pv + 1, pw |-> row.pv]
    /\ crossed' = \E b \in Browsers : At(b, "select")
    /\ UNCHANGED <<cookie, handler, alive, dbUp>>

-----------------------------------------------------------------------------
\* MySQL goes or comes back; the panel learns of it from its next ping.
DatabaseFlips ==
    /\ alive' = ~alive
    /\ UNCHANGED <<row, cookie, handler, dbUp, crossed>>

PingDB ==
    /\ dbUp' = alive
    /\ UNCHANGED <<row, cookie, handler, alive, crossed>>

SessionsNext ==
    \/ ResetAdmin
    \/ DatabaseFlips
    \/ PingDB
    \/ \E b \in Browsers :
         \/ LoginRead(b)
         \/ Issue(b)
         \/ Logout(b)
         \/ ChangeBegin(b)
         \/ ChangeCheck(b)
         \/ UpdatePassword(b)
         \/ SelectVersion(b)
         \/ Refuse(b)

SessionsSpec == SessionsInit /\ [][SessionsNext]_sessionsVars

-----------------------------------------------------------------------------
SessionsTypeOK ==
    /\ row \in Rows
    /\ cookie \in [Browsers -> Rows \cup {NoCookie}]
    /\ handler \in [Browsers -> [pc : {"idle", "issue", "check", "update",
                                       "select", "reissue"},
                                 pv : 1..MaxVersion, pw : Passwords]]
    /\ alive \in BOOLEAN
    /\ dbUp \in BOOLEAN
    /\ crossed \in BOOLEAN

\* A session the version check lets through belongs to somebody who gave or chose
\* the password in force, however logins, changes and resets overlap, unless that
\* password was set between another change's UPDATE and SELECT; the next change or
\* reset outside such a gap ends the session that slipped through as well.
ValidKnowsPassword ==
    ~crossed => \A b \in Browsers :
        cookie[b] /= NoCookie /\ cookie[b].pv = row.pv => cookie[b].pw = row.pw

\* Whoever changes the password stays logged in as long as it is the one in force,
\* whatever other changes came before or between ("so the current tab stays logged
\* in", handleChangePassword).
ChangerStaysIn ==
    [][\A b \in Browsers :
         At(b, "reissue") /\ Issue(b) /\ row.pw = handler[b].pw
             => cookie'[b].pv = row.pv]_sessionsVars

\* What handleChangePassword says of its own session and all others: a change leaves
\* no session valid but those for the password it set ("every other (old) JWT is
\* instantly invalidated", handlers_auth.go:107-108).
OldSessionsEnd ==
    \A b \in Browsers :
        cookie[b] /= NoCookie /\ cookie[b].pv = row.pv => cookie[b].pw = row.pw
===============================================================================
