------------------------------- MODULE Limiter -------------------------------
(***************************************************************************)
(* The two throttles on failed authentication: authLimiter in front of the *)
(* agent's handshake and loginLimiter in front of the panel's login, the   *)
(* same code with other constants.  Two maps are kept under one mutex.     *)
(* Entries are dropped when their address comes back (Blocked, Success) or *)
(* by a sweep that any address's failure starts, at most once per Window.  *)
(*                                                                         *)
(* A unit of time is a tick of the clock the code reads in nanoseconds, so *)
(* an address fails at most once in it, and a failure is its time.         *)
(***************************************************************************)
EXTENDS Integers, FiniteSets

CONSTANTS
    Addresses,
    Window,    \* how long a failure counts
    Ban,       \* how long a ban lasts
    MaxFails,  \* failures that ban
    Handling,  \* longest time from Blocked to Fail or Success of a request
    MaxClock,  \* bound of the run
    NoVerdict

\* A handshake of the agent is decided within its read deadline of 25 seconds, and a
\* ban lasts minutes.  The panel sets no deadline for the body of a login, so there
\* Handling < Ban leaves out logins whose body takes longer than a ban.
ASSUME LimiterAssumption ==
    /\ Window \in Nat \ {0}
    /\ Ban \in Nat \ {0}
    /\ MaxFails \in Nat \ {0}
    /\ Handling \in Nat
    /\ Handling < Ban
    /\ MaxClock \in Nat

VARIABLES
    clock,     \* time.Now()
    fails,     \* fails[a]: times in the entry of a
    banned,    \* banned[a]: end of a's ban; 0 when there is no entry
    lastPrune, \* time of the last sweep
    open,      \* requests let in by Blocked and not decided: <<address, since>>
    verdict    \* what Blocked last told its caller: <<address, answer>>

vars == <<clock, fails, banned, lastPrune, open, verdict>>

-----------------------------------------------------------------------------
None == 0

\* The zero lastPrune of a new limiter is far more than a Window ago.
Init ==
    /\ clock = Window
    /\ fails = [a \in Addresses |-> {}]
    /\ banned = [a \in Addresses |-> None]
    /\ lastPrune = 0
    /\ open = {}
    /\ verdict = NoVerdict

Recent(times, now) == {t \in times : t >= now - Window}

Lapsed(a, now) == banned[a] /= None /\ now >= banned[a]

\* A request is refused, or let in to be handled; a ban that has ended is
\* forgotten, and the failures with it.
Blocked(a) ==
    /\ IF banned[a] /= None /\ ~Lapsed(a, clock)
       THEN /\ verdict' = <<a, "refused">>
            /\ UNCHANGED <<fails, banned, open>>
       ELSE /\ verdict' = <<a, "let in">>
            /\ banned' = [banned EXCEPT ![a] = None]
            /\ fails' = IF Lapsed(a, clock) THEN [fails EXCEPT ![a] = {}] ELSE fails
            /\ open' = open \cup {<<a, clock>>}
    /\ UNCHANGED <<clock, lastPrune>>

\* A sweep that takes the history for all there is to an entry.
SweptTooEagerly(now) ==
    [fails |-> [a \in Addresses |-> Recent(fails[a], now)],
     banned |-> [a \in Addresses |->
                   IF Recent(fails[a], now) = {} THEN None ELSE banned[a]]]

\* A sweep that leaves lapsed bans to the next call of Blocked.
SweptHistoryOnly(now) ==
    [fails |-> [a \in Addresses |->
                  IF Lapsed(a, now) THEN fails[a] ELSE Recent(fails[a], now)],
     banned |-> banned]

\* prune: all of a lapsed ban goes, and so do the failures that no longer
\* count, except where they are all a running ban has.
Swept(now) ==
    [fails |-> [a \in Addresses |->
                  IF Lapsed(a, now)
                  THEN {}
                  ELSE IF banned[a] /= None /\ Recent(fails[a], now) = {}
                       THEN fails[a]
                       ELSE Recent(fails[a], now)],
     banned |-> [a \in Addresses |->
                  IF Lapsed(a, now) THEN None ELSE banned[a]]]

\* Swept or not, whichever maybePrune finds due.
AfterPrune(now) ==
    IF now - lastPrune < Window
    THEN [fails |-> fails, banned |-> banned]
    ELSE Swept(now)

\* A request whose handling ends with a failure.
Fail(a, since) ==
    LET m == AfterPrune(clock)
        kept == Recent(m.fails[a], clock) \cup {clock}
    IN  /\ <<a, since>> \in open
        /\ clock \notin fails[a]
        /\ fails' = [m.fails EXCEPT ![a] = kept]
        /\ banned' = IF Cardinality(kept) >= MaxFails
                     THEN [m.banned EXCEPT ![a] = clock + Ban]
                     ELSE m.banned
        /\ lastPrune' = IF clock - lastPrune < Window THEN lastPrune ELSE clock
        /\ open' = open \ {<<a, since>>}
        /\ UNCHANGED <<clock, verdict>>

\* A request whose handling ends with a success.
Success(a, since) ==
    /\ <<a, since>> \in open
    /\ fails' = [fails EXCEPT ![a] = {}]
    /\ banned' = [banned EXCEPT ![a] = None]
    /\ open' = open \ {<<a, since>>}
    /\ UNCHANGED <<clock, lastPrune, verdict>>

\* A request that ends without a verdict: the connection or the database fails.
Abandon(a, since) ==
    /\ <<a, since>> \in open
    /\ open' = open \ {<<a, since>>}
    /\ UNCHANGED <<clock, fails, banned, lastPrune, verdict>>

\* Time passes, but no request stays open for longer than its deadline.
Tick ==
    /\ clock < MaxClock
    /\ \A r \in open : clock + 1 - r[2] <= Handling
    /\ clock' = clock + 1
    /\ UNCHANGED <<fails, banned, lastPrune, open, verdict>>

Next ==
    \/ Tick
    \/ \E a \in Addresses : Blocked(a)
    \/ \E r \in open :
         Fail(r[1], r[2]) \/ Success(r[1], r[2]) \/ Abandon(r[1], r[2])

Spec == Init /\ [][Next]_vars

-----------------------------------------------------------------------------
\* What the maps stand for: an entry that is swept late is worth nothing.
Counted ==
    [a \in Addresses |-> IF Lapsed(a, clock) THEN {} ELSE Recent(fails[a], clock)]

Until == [a \in Addresses |-> IF Lapsed(a, clock) THEN None ELSE banned[a]]

Promise == INSTANCE Throttle WITH counted <- Counted, until <- Until

\* Sweeping late, together and on another address's failure never changes what
\* an address is owed: the limiter implements the throttle without any sweep.
ImplementsThrottle == Promise!AbsSpec

TypeOK ==
    /\ clock \in Nat
    /\ fails \in [Addresses -> SUBSET (0..clock)]
    /\ banned \in [Addresses -> Nat]
    /\ lastPrune \in 0..clock
    /\ open \in SUBSET (Addresses \X (0..clock))
    /\ verdict \in (Addresses \X {"let in", "refused"}) \cup {NoVerdict}

\* "the maps stay bounded to IPs seen within the window" (prune): after a sweep
\* no ban is kept that had ended by then, and no failure that had stopped
\* counting, unless a ban that was still running holds it.
SweptClean ==
    \A a \in Addresses :
        /\ banned[a] /= None => banned[a] > lastPrune
        /\ \A t \in fails[a] :
             t >= lastPrune - Window \/ banned[a] > lastPrune
===============================================================================
