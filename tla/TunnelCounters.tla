---------------------------- MODULE TunnelCounters ----------------------------
(***************************************************************************)
(* The tunnel half of a sample: sampleAndBroadcast turns the counters frps *)
(* keeps per proxy and day into deltas.  frps is external; it is modelled  *)
(* from how FrpsClient.Proxies and the agent read it: a listing in a fixed *)
(* order, a counter that starts again at midnight or with frps, and no     *)
(* remote port for a proxy it remembers without a configuration block.     *)
(*                                                                         *)
(* Proxies are numbered in the order of the listing.  A proxy is named     *)
(* after its mapping and node, so that frps goes on counting when the      *)
(* mapping gets another remote port.  One direction of traffic stands for  *)
(* both.                                                                   *)
(***************************************************************************)
EXTENDS Naturals, FiniteSets

CONSTANTS
    N,          \* proxies
    MaxBytes,   \* traffic per proxy in a run
    MaxResets,  \* midnights and restarts of frps
    MaxLosses,  \* proxies that lose their frpc
    MaxEdits,   \* remote ports that are edited
    MaxRestarts \* restarts of the agent

ASSUME TunnelCountersAssumption ==
    /\ N \in Nat \ {0}
    /\ MaxBytes \in Nat
    /\ MaxResets \in Nat
    /\ MaxLosses \in Nat
    /\ MaxEdits \in Nat
    /\ MaxRestarts \in Nat

VARIABLES
    today,    \* today[p]: frps's counter
    conf,     \* proxies frps lists with their configuration
    bare,     \* proxies frps lists without it
    port,     \* port[p]: the remote port in its configuration
    lastTun,  \* lastTun[key]: the agent's last reading, 0 when it has none
    carried,  \* carried[p]: what really went through
    counted,  \* counted[p]: sum of the deltas reported for it
    rekeyed,  \* proxies whose key was not their own at every sample: they
              \* were not listed with their port, it was edited, or the agent
              \* had lost its readings
    clipped,  \* proxies whose counter was reset with traffic unread, or had
              \* already passed its old reading at the next sample
    wrapped,  \* was there a reset since the last sample?
    resets, losses, edits, restarts

frps == <<today, conf, bare, port>>

history == <<rekeyed, clipped, wrapped>>

bounds == <<resets, losses, edits, restarts>>

vars == <<frps, lastTun, carried, counted, history, bounds>>

-----------------------------------------------------------------------------
Proxies == 1..N

NoPort == 0

Ports == 1..(N + 1)

Keys == Ports \cup {NoPort}

Listed == conf \cup bare

Key(p) == IF p \in bare THEN NoPort ELSE port[p]

\* No two registered proxies have one port.
Free(k) == \A q \in conf : port[q] /= k

Zero == [p \in Proxies |-> 0]

Init ==
    /\ today = Zero
    /\ conf = Proxies
    /\ bare = {}
    /\ port = [p \in Proxies |-> p]
    /\ lastTun = [k \in Keys |-> 0]
    /\ carried = Zero
    /\ counted = Zero
    /\ rekeyed = {}
    /\ clipped = {}
    /\ wrapped = FALSE
    /\ resets = 0 /\ losses = 0 /\ edits = 0 /\ restarts = 0

\* Traffic goes through a tunnel.
Carry(p) ==
    /\ p \in conf
    /\ carried[p] < MaxBytes
    /\ today' = [today EXCEPT ![p] = @ + 1]
    /\ carried' = [carried EXCEPT ![p] = @ + 1]
    /\ UNCHANGED <<conf, bare, port, lastTun, counted, history, bounds>>

\* Listed proxies before p that share its key.
Before(p) == {q \in Listed : q < p /\ Key(q) = Key(p)}

\* What lastTun holds for p's key when the loop comes to p: the entry of every
\* proxy is overwritten as the loop goes on.
Prev(p) ==
    IF Before(p) = {}
    THEN lastTun[Key(p)]
    ELSE today[CHOOSE q \in Before(p) : \A r \in Before(p) : r <= q]

\* A reset counter is taken for an idle one.
DeltaIgnoresReset(p) == IF today[p] < Prev(p) THEN 0 ELSE today[p] - Prev(p)

\* Every counter is counted from zero.
DeltaWhole(p) == today[p]

\* A reset counter is counted from zero.
Delta(p) == IF today[p] < Prev(p) THEN today[p] ELSE today[p] - Prev(p)

\* lastTun after the loop: the last reading of each key, and nothing for keys
\* that were not listed.
Readings ==
    [k \in Keys |->
       LET of == {p \in Listed : Key(p) = k}
       IN  IF of = {} THEN 0 ELSE today[CHOOSE p \in of : \A q \in of : q <= p]]

\* Sums beyond the traffic there is are not told apart.
Capped(x) == IF x > MaxBytes THEN MaxBytes + 1 ELSE x

\* A sample with frps up and both lists read; otherwise it has no tunnel part.
Sample ==
    /\ counted' = [p \in Proxies |->
                     IF p \in Listed THEN Capped(counted[p] + Delta(p)) ELSE counted[p]]
    /\ lastTun' = Readings
    /\ rekeyed' = rekeyed \cup (Proxies \ conf)
    /\ clipped' = clipped \cup {p \in conf : /\ wrapped
                                             /\ today[p] >= lastTun[port[p]]
                                             /\ lastTun[port[p]] > 0}
    /\ wrapped' = FALSE
    /\ UNCHANGED <<frps, carried, bounds>>

\* Proxies with traffic that no sample has read.
Unread == {p \in Proxies : today[p] /= (IF wrapped THEN 0 ELSE lastTun[port[p]])}

\* Midnight: frps starts every counter again.
Midnight ==
    /\ resets < MaxResets
    /\ resets' = resets + 1
    /\ today' = Zero
    /\ clipped' = clipped \cup Unread
    /\ wrapped' = TRUE
    /\ UNCHANGED <<conf, bare, port, lastTun, carried, counted, rekeyed,
                   losses, edits, restarts>>

\* frps restarts: it knows no proxy until frpc is back.
FrpsRestart ==
    /\ resets < MaxResets
    /\ resets' = resets + 1
    /\ today' = Zero
    /\ conf' = {}
    /\ bare' = {}
    /\ clipped' = clipped \cup Unread
    /\ wrapped' = TRUE
    /\ UNCHANGED <<port, lastTun, carried, counted, rekeyed, losses, edits, restarts>>

\* A proxy's frpc goes: frps remembers its counters without a configuration.
ProxyOffline(p) ==
    /\ losses < MaxLosses
    /\ losses' = losses + 1
    /\ p \in conf
    /\ conf' = conf \ {p}
    /\ bare' = bare \cup {p}
    /\ UNCHANGED <<today, port, lastTun, carried, counted, history,
                   resets, edits, restarts>>

\* A proxy registers, again or for the first time since frps started.
ProxyOnline(p) ==
    /\ p \notin conf
    /\ Free(port[p])
    /\ conf' = conf \cup {p}
    /\ bare' = bare \ {p}
    /\ UNCHANGED <<today, port, lastTun, carried, counted, history, bounds>>

\* A mapping gets another remote port: frpc closes the proxy and registers it
\* again under the same name, and frps goes on with its counter.
PortEdited(p, k) ==
    /\ edits < MaxEdits
    /\ edits' = edits + 1
    /\ p \in conf
    /\ Free(k)
    /\ port' = [port EXCEPT ![p] = k]
    /\ rekeyed' = rekeyed \cup {p}
    /\ UNCHANGED <<today, conf, bare, lastTun, carried, counted, clipped, wrapped,
                   resets, losses, restarts>>

\* The agent restarts with an empty lastTun.
AgentRestart ==
    /\ restarts < MaxRestarts
    /\ restarts' = restarts + 1
    /\ lastTun' = [k \in Keys |-> 0]
    /\ rekeyed' = Proxies
    /\ UNCHANGED <<frps, carried, counted, clipped, wrapped,
                   resets, losses, edits>>

Next ==
    \/ Sample
    \/ Midnight
    \/ FrpsRestart
    \/ AgentRestart
    \/ \E p \in Proxies :
         \/ Carry(p) \/ ProxyOffline(p) \/ ProxyOnline(p)
         \/ \E k \in Ports : PortEdited(p, k)

Spec == Init /\ [][Next]_vars

-----------------------------------------------------------------------------
TypeOK ==
    /\ today \in [Proxies -> 0..MaxBytes]
    /\ conf \in SUBSET Proxies
    /\ bare \in SUBSET (Proxies \ conf)
    /\ port \in [Proxies -> Ports]
    /\ lastTun \in [Keys -> 0..MaxBytes]
    /\ carried \in [Proxies -> 0..MaxBytes]
    /\ counted \in [Proxies -> 0..(MaxBytes + 1)]
    /\ rekeyed \in SUBSET Proxies
    /\ clipped \in SUBSET Proxies
    /\ wrapped \in BOOLEAN

\* A tunnel that kept its listing and its port is never charged for more than it
\* carried, whatever its counter did, whatever other tunnels came and went, and
\* whichever of them took the ports of others.
NoPhantomTraffic == \A p \in Proxies \ rekeyed : counted[p] <= carried[p]

\* And once it is sampled nothing is missing, unless a reset came before the
\* last traffic of the day was read, or was hidden by new traffic.
NothingMissed ==
    \A p \in conf \ (rekeyed \cup clipped) :
        ~wrapped /\ lastTun[port[p]] = today[p] => counted[p] >= carried[p]

\* "Delta* are byte increments since the previous sample": the deltas reported
\* for a tunnel never add up to more than it carried.
DeltasAreIncrements == \A p \in Proxies : counted[p] <= carried[p]

\* "Its traffic deltas are still real", of a tunnel frps lists without a port.
OfflineDeltasReal == \A p \in bare : counted[p] <= carried[p]
===============================================================================
