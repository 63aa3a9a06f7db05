------------------------------- MODULE Throttle -------------------------------
(***************************************************************************)
(* What the two throttles promise: each address has a history of its own,  *)
(* in which a failure counts for Window, MaxFails failures that count ban  *)
(* it for Ban, a success or the end of a ban wipes the slate, and a banned *)
(* address is refused.  No map is swept here, and nothing one address does *)
(* touches another.                                                        *)
(***************************************************************************)
EXTENDS Integers, FiniteSets

CONSTANTS Addresses, Window, Ban, MaxFails, NoVerdict

VARIABLES
    clock,   \* the time now
    counted, \* counted[a]: times of the failures that still count
    until,   \* until[a]: end of the ban, 0 when there is none
    verdict  \* the last answer: <<address, let in or refused>>

absVars == <<clock, counted, until, verdict>>

-----------------------------------------------------------------------------
Refused(a) == until[a] /= 0

AbsInit ==
    /\ clock \in Nat
    /\ verdict = NoVerdict
    /\ counted = [a \in Addresses |-> {}]
    /\ until = [a \in Addresses |-> 0]

\* Time passes: old failures stop counting and bans end.
AbsTick ==
    /\ clock' = clock + 1
    /\ until' = [a \in Addresses |-> IF clock' >= until[a] THEN 0 ELSE until[a]]
    /\ counted' = [a \in Addresses |->
                     IF until[a] /= 0 /\ until'[a] = 0
                     THEN {}
                     ELSE {t \in counted[a] : t >= clock' - Window}]
    /\ UNCHANGED verdict

\* An address asks to be let in.
AbsAsk(a) ==
    /\ verdict' = <<a, IF Refused(a) THEN "refused" ELSE "let in">>
    /\ UNCHANGED <<clock, counted, until>>

\* A failure of an address that was let in, perhaps before it was banned.
AbsFail(a) ==
    /\ counted' = [counted EXCEPT ![a] = @ \cup {clock}]
    /\ until' = IF Cardinality(counted[a] \cup {clock}) >= MaxFails
                THEN [until EXCEPT ![a] = clock + Ban]
                ELSE until
    /\ UNCHANGED <<clock, verdict>>

AbsSuccess(a) ==
    /\ counted' = [counted EXCEPT ![a] = {}]
    /\ until' = [until EXCEPT ![a] = 0]
    /\ UNCHANGED <<clock, verdict>>

AbsNext ==
    \/ AbsTick
    \/ \E a \in Addresses : AbsAsk(a) \/ AbsFail(a) \/ AbsSuccess(a)

AbsSpec == AbsInit /\ [][AbsNext]_absVars
===============================================================================
