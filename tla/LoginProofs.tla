----------------------------- MODULE LoginProofs -----------------------------
(***************************************************************************)
(* Who gets in, for every value of the constants: the limiter in front of  *)
(* the login (Limiter), and the sessions behind it (WebSessions).  The two *)
(* share no state; each has its invariant.                                 *)
(*                                                                         *)
(* The limiter keeps what the throttle promises.  A request is decided     *)
(* before a ban that began after it was let in can have ended (Handling <  *)
(* Ban), so Fail never meets a lapsed ban (OpenNotLapsed); a sweep removes *)
(* nothing that Counted and Until still show; and no call shortens what    *)
(* another address has.                                                    *)
(*                                                                         *)
(* A session follows the row it was read from: a copy of the row with the  *)
(* version of the row has its password (Follows), which the one statement  *)
(* that changes both keeps.  A change that reads the version afterwards    *)
(* has made it unless another came in between (ChangeHolds), and then no   *)
(* longer sets the password in force (PasswordsNew).                       *)
(***************************************************************************)
EXTENDS Limiter, WebSessions, TLAPS

-----------------------------------------------------------------------------
\* The limiter.

\* An undecided request is younger than its deadline, and a ban of its address
\* began after it was let in.
OpenNotLapsed ==
    \A r \in open :
        /\ clock - r[2] <= Handling
        /\ banned[r[1]] /= None => banned[r[1]] >= r[2] + Ban

LimiterInv == TypeOK /\ OpenNotLapsed /\ SweptClean

-----------------------------------------------------------------------------
\* What counts now counted at an earlier time.
LEMMA StillCounts ==
    ASSUME NEW t \in Int, NEW now \in Int, NEW then \in Int, NEW w \in Int,
           then <= now, t >= now - w
    PROVE  t >= then - w
OBVIOUS

\* What a sweep leaves of one address, and what maybePrune leaves of it.
LEMMA SweptPointwise ==
    ASSUME NEW a \in Addresses
    PROVE  /\ Swept(clock).banned[a] = IF Lapsed(a, clock) THEN None ELSE banned[a]
           /\ Swept(clock).fails[a] = IF Lapsed(a, clock)
                                      THEN {}
                                      ELSE IF banned[a] /= None /\ Recent(fails[a], clock) = {}
                                           THEN fails[a]
                                           ELSE Recent(fails[a], clock)
BY DEF Swept

\* maybePrune leaves the maps or sweeps them.
LEMMA PruneCases ==
    \/ /\ clock - lastPrune < Window
       /\ AfterPrune(clock).fails = fails
       /\ AfterPrune(clock).banned = banned
    \/ /\ ~(clock - lastPrune < Window)
       /\ AfterPrune(clock).fails = Swept(clock).fails
       /\ AfterPrune(clock).banned = Swept(clock).banned
BY DEF AfterPrune

\* Both keep the types.
LEMMA PruneTypes ==
    ASSUME TypeOK
    PROVE  /\ AfterPrune(clock).fails \in [Addresses -> SUBSET (0..clock)]
           /\ AfterPrune(clock).banned \in [Addresses -> Nat]
<1>1. Swept(clock).fails \in [Addresses -> SUBSET (0..clock)]
  <2>1. \A a \in Addresses : Swept(clock).fails[a] \in SUBSET (0..clock)
    BY SweptPointwise DEF TypeOK, Recent
  <2> QED  BY <2>1 DEF Swept
<1>2. Swept(clock).banned \in [Addresses -> Nat]
  <2>1. ASSUME NEW a \in Addresses  PROVE  Swept(clock).banned[a] \in Nat
    <3>1. banned[a] \in Nat /\ None \in Nat
      BY DEF TypeOK, None
    <3> QED  BY <3>1, SweptPointwise
  <2> QED  BY <2>1 DEF Swept
<1> QED  BY <1>1, <1>2, PruneCases DEF TypeOK

\* No sweep changes what the maps stand for.
LEMMA PruneKeeps ==
    ASSUME TypeOK, NEW a \in Addresses
    PROVE  /\ Lapsed(a, clock) =>
                \/ /\ AfterPrune(clock).fails[a] = fails[a]
                   /\ AfterPrune(clock).banned[a] = banned[a]
                \/ /\ AfterPrune(clock).fails[a] = {}
                   /\ AfterPrune(clock).banned[a] = None
           /\ ~Lapsed(a, clock) =>
                /\ AfterPrune(clock).banned[a] = banned[a]
                /\ Recent(AfterPrune(clock).fails[a], clock) = Recent(fails[a], clock)
<1>1. Recent(Recent(fails[a], clock), clock) = Recent(fails[a], clock)
  BY DEF Recent
<1> QED  BY <1>1, SweptPointwise, PruneCases

-----------------------------------------------------------------------------
\* Init establishes the invariant.
LEMMA InitInv == Init => LimiterInv
<1> SUFFICES ASSUME Init  PROVE  LimiterInv
  OBVIOUS
<1>1. TypeOK
  BY LimiterAssumption DEF Init, TypeOK, None
<1>2. OpenNotLapsed
  BY DEF Init, OpenNotLapsed
<1>3. SweptClean
  BY DEF Init, SweptClean
<1> QED  BY <1>1, <1>2, <1>3 DEF LimiterInv

\* A failure keeps the invariant.
LEMMA FailInv ==
    ASSUME LimiterInv, NEW a \in Addresses, NEW since \in 0..clock, Fail(a, since)
    PROVE  LimiterInv'
<1> DEFINE m == AfterPrune(clock)
           kept == Recent(m.fails[a], clock) \cup {clock}
<1>a. TypeOK
  BY DEF LimiterInv
<1>b. /\ m.fails \in [Addresses -> SUBSET (0..clock)]
      /\ m.banned \in [Addresses -> Nat]
  BY <1>a, PruneTypes
<1>c. /\ clock \in Nat /\ lastPrune \in 0..clock
      /\ Window \in Nat \ {0} /\ Ban \in Nat \ {0}
  BY <1>a, LimiterAssumption DEF TypeOK
<1>d. /\ fails' = [m.fails EXCEPT ![a] = kept]
      /\ banned' = [m.banned EXCEPT ![a] = clock + Ban] \/ banned' = m.banned
      /\ lastPrune' = IF clock - lastPrune < Window THEN lastPrune ELSE clock
      /\ open' = open \ {<<a, since>>}
      /\ clock' = clock /\ verdict' = verdict
  BY DEF Fail
<1>e. kept \in SUBSET (0..clock)
  BY <1>b, <1>c DEF Recent
<1>f. \A b \in Addresses \ {a} : fails'[b] = m.fails[b] /\ banned'[b] = m.banned[b]
  BY <1>b, <1>d
<1>g. /\ fails'[a] = kept
      /\ banned'[a] = clock + Ban \/ banned'[a] = m.banned[a]
  BY <1>b, <1>d
<1> HIDE DEF m, kept
<1>1. TypeOK'
  <2>1. fails' \in [Addresses -> SUBSET (0..clock)]
    BY <1>b, <1>d, <1>e
  <2>2. banned' \in [Addresses -> Nat]
    BY <1>b, <1>c, <1>d
  <2>3. lastPrune' \in 0..clock
    BY <1>c, <1>d
  <2> QED  BY <1>a, <1>d, <2>1, <2>2, <2>3 DEF TypeOK
<1>h. ASSUME NEW b \in Addresses  PROVE  m.banned[b] = banned[b] \/ m.banned[b] = None
  BY <1>a, PruneKeeps DEF m
<1>2. OpenNotLapsed'
  <2> SUFFICES ASSUME NEW r \in open
               PROVE  /\ clock - r[2] <= Handling
                      /\ banned'[r[1]] /= None => banned'[r[1]] >= r[2] + Ban
    BY <1>d DEF OpenNotLapsed
  <2>1. /\ r[1] \in Addresses /\ r[2] \in 0..clock
        /\ clock - r[2] <= Handling
        /\ banned[r[1]] /= None => banned[r[1]] >= r[2] + Ban
    BY <1>a DEF LimiterInv, OpenNotLapsed, TypeOK
  <2>2. \/ banned'[r[1]] = clock + Ban
        \/ banned'[r[1]] = m.banned[r[1]]
    BY <2>1, <1>f, <1>g
  <2>3. CASE banned'[r[1]] = clock + Ban
    BY <2>1, <2>3, <1>c
  <2>4. CASE banned'[r[1]] = m.banned[r[1]]
    BY <2>1, <2>4, <1>h
  <2> QED  BY <2>2, <2>3, <2>4
<1>3. SweptClean'
  <2> SUFFICES ASSUME NEW b \in Addresses
               PROVE  /\ banned'[b] /= None => banned'[b] > lastPrune'
                      /\ \A t \in fails'[b] :
                           t >= lastPrune' - Window \/ banned'[b] > lastPrune'
    BY DEF SweptClean
  <2>0. banned[b] \in Nat /\ fails[b] \in SUBSET (0..clock) /\ None = 0
    BY <1>a DEF TypeOK, None
  <2>1. /\ m.banned[b] /= None => m.banned[b] > lastPrune'
        /\ \A t \in m.fails[b] :
             t >= lastPrune' - Window \/ m.banned[b] > lastPrune'
    <3>1. CASE clock - lastPrune < Window
      <4>1. m.fails[b] = fails[b] /\ m.banned[b] = banned[b] /\ lastPrune' = lastPrune
        BY <3>1, <1>d, PruneCases DEF m
      <4> QED  BY <4>1 DEF LimiterInv, SweptClean
    <3>2. CASE ~(clock - lastPrune < Window)
      <4>1. m.fails[b] = Swept(clock).fails[b] /\ m.banned[b] = Swept(clock).banned[b]
        BY <3>2, PruneCases DEF m
      <4>2. lastPrune' = clock
        BY <3>2, <1>d
      <4>3. CASE Lapsed(b, clock)
        BY <4>1, <4>2, <4>3, SweptPointwise
      <4>4. CASE ~Lapsed(b, clock) /\ banned[b] /= None
        <5>1. banned[b] > clock
          BY <4>4, <2>0, <1>c DEF Lapsed
        <5>2. m.banned[b] = banned[b]
          BY <4>1, <4>4, SweptPointwise
        <5> QED  BY <5>1, <5>2, <4>2
      <4>5. CASE ~Lapsed(b, clock) /\ banned[b] = None
        <5>1. m.fails[b] = Recent(fails[b], clock) /\ m.banned[b] = None
          BY <4>1, <4>5, SweptPointwise
        <5> QED  BY <5>1, <4>2 DEF Recent
      <4> QED  BY <4>3, <4>4, <4>5
    <3> QED  BY <3>1, <3>2
  <2>2. CASE b /= a
    BY <2>1, <2>2, <1>f
  <2>3. CASE b = a
    <3>1. lastPrune' \in Int /\ lastPrune' <= clock
      BY <1>c, <1>d
    <3>2. banned'[b] /= None => banned'[b] > lastPrune'
      <4>1. CASE banned'[a] = clock + Ban
        BY <4>1, <2>3, <3>1, <1>c
      <4>2. CASE banned'[a] = m.banned[a]
        BY <4>2, <2>3, <2>1
      <4> QED  BY <4>1, <4>2, <1>g
    <3>3. \A t \in kept : t >= clock - Window
      BY <1>c, <1>b DEF kept, Recent
    <3>4. kept \in SUBSET Int
      BY <1>e
    <3>5. \A t \in fails'[b] : t >= lastPrune' - Window
      <4> SUFFICES ASSUME NEW t \in kept  PROVE  t >= lastPrune' - Window
        BY <2>3, <1>g
      <4>1. t \in Int /\ t >= clock - Window
        BY <3>3, <3>4
      <4>2. clock \in Int /\ Window \in Int
        BY <1>c
      <4> QED  BY <4>1, <4>2, <3>1, StillCounts
    <3> QED  BY <3>2, <3>5
  <2> QED  BY <2>2, <2>3
<1> QED  BY <1>1, <1>2, <1>3 DEF LimiterInv

\* Every step keeps the invariant.
LEMMA NextInv == LimiterInv /\ [Next]_vars => LimiterInv'
<1> SUFFICES ASSUME LimiterInv, [Next]_vars  PROVE  LimiterInv'
  OBVIOUS
<1>a. /\ TypeOK /\ OpenNotLapsed /\ SweptClean
  BY DEF LimiterInv
<1>b. /\ clock \in Nat /\ lastPrune \in 0..clock
      /\ Window \in Nat \ {0} /\ Ban \in Nat \ {0} /\ Handling \in Nat /\ None = 0
  BY <1>a, LimiterAssumption DEF TypeOK, None
<1>1. CASE Tick
  <2>1. TypeOK'
    <3>1. 0..clock \subseteq 0..(clock + 1) /\ clock + 1 \in Nat
      BY <1>b
    <3>2. \A a \in Addresses : fails[a] \in SUBSET (0..(clock + 1))
      BY <1>a, <3>1 DEF TypeOK
    <3>3. fails \in [Addresses -> SUBSET (0..(clock + 1))]
      BY <1>a, <3>2 DEF TypeOK
    <3>4. open \in SUBSET (Addresses \X (0..(clock + 1)))
      BY <1>a, <3>1 DEF TypeOK
    <3> QED  BY <1>1, <1>a, <3>1, <3>3, <3>4 DEF Tick, TypeOK
  <2>2. OpenNotLapsed'
    <3>1. clock' = clock + 1 /\ open' = open /\ banned' = banned
      BY <1>1 DEF Tick
    <3>2. \A r \in open : clock' - r[2] <= Handling
      <4>1. \A r \in open : clock + 1 - r[2] <= Handling
        BY <1>1 DEF Tick
      <4> SUFFICES ASSUME NEW r \in open  PROVE  clock' - r[2] <= Handling
        OBVIOUS
      <4>2. clock + 1 - r[2] <= Handling
        BY <4>1
      <4>3. r \in Addresses \X (0..clock)
        BY <1>a DEF TypeOK
      <4>4. r[2] \in Int /\ clock + 1 \in Int
        BY <4>3, <1>b
      <4> QED  BY <3>1, <4>2, <4>4, <1>b
    <3>3. \A r \in open : banned[r[1]] /= None => banned[r[1]] >= r[2] + Ban
      BY <1>a DEF OpenNotLapsed
    <3>4. \A r \in open' : banned'[r[1]] /= None' => banned'[r[1]] >= r[2] + Ban
      BY <3>1, <3>3 DEF None
    <3> QED  BY <3>1, <3>2, <3>4, Zenon DEF OpenNotLapsed
  <2>3. SweptClean'
    BY <1>1, <1>a DEF Tick, SweptClean
  <2> QED  BY <2>1, <2>2, <2>3 DEF LimiterInv
<1>2. ASSUME NEW a \in Addresses, Blocked(a)  PROVE  LimiterInv'
  <2>1. CASE banned[a] /= None /\ ~Lapsed(a, clock)
    <3>1. /\ UNCHANGED <<fails, banned, open, clock, lastPrune>>
          /\ verdict' = <<a, "refused">>
      BY <1>2, <2>1 DEF Blocked
    <3>2. TypeOK'
      BY <3>1, <1>a DEF TypeOK
    <3>3. OpenNotLapsed'
      BY <3>1, <1>a DEF OpenNotLapsed
    <3>4. SweptClean'
      BY <3>1, <1>a DEF SweptClean
    <3> QED  BY <3>2, <3>3, <3>4 DEF LimiterInv
  <2>2. CASE ~(banned[a] /= None /\ ~Lapsed(a, clock))
    <3>1. /\ verdict' = <<a, "let in">>
          /\ banned' = [banned EXCEPT ![a] = None]
          /\ fails' = IF Lapsed(a, clock) THEN [fails EXCEPT ![a] = {}] ELSE fails
          /\ open' = open \cup {<<a, clock>>}
          /\ UNCHANGED <<clock, lastPrune>>
      BY <1>2, <2>2 DEF Blocked
    <3>2. TypeOK'
      <4>1. fails' \in [Addresses -> SUBSET (0..clock)]
        BY <3>1, <1>a DEF TypeOK
      <4>2. banned' \in [Addresses -> Nat]
        BY <3>1, <1>a, <1>b DEF TypeOK
      <4>3. open' \in SUBSET (Addresses \X (0..clock))
        <5>1. clock \in 0..clock
          BY <1>b
        <5>2. <<a, clock>> \in Addresses \X (0..clock)
          BY <5>1
        <5>3. open \subseteq Addresses \X (0..clock)
          BY <1>a DEF TypeOK
        <5> QED  BY <5>2, <5>3, <3>1
      <4>4. verdict' \in Addresses \X {"let in", "refused"}
        BY <3>1
      <4> QED  BY <4>1, <4>2, <4>3, <4>4, <3>1, <1>a DEF TypeOK
    <3>3. OpenNotLapsed'
      <4> SUFFICES ASSUME NEW r \in open'
                   PROVE  /\ clock - r[2] <= Handling
                          /\ banned'[r[1]] /= None => banned'[r[1]] >= r[2] + Ban
        BY <3>1 DEF OpenNotLapsed
      <4>1. CASE r \in open
        <5>1. r[1] \in Addresses
          BY <4>1, <1>a DEF TypeOK
        <5>2. banned'[r[1]] = banned[r[1]] \/ banned'[r[1]] = None
          BY <5>1, <3>1, <1>a DEF TypeOK
        <5> QED  BY <4>1, <5>2, <1>a DEF OpenNotLapsed
      <4>2. CASE r = <<a, clock>>
        <5>1. r[1] = a /\ r[2] = clock /\ banned'[a] = None
          BY <4>2, <3>1, <1>a DEF TypeOK
        <5> QED  BY <5>1, <1>b
      <4> QED  BY <4>1, <4>2, <3>1
    <3>4. SweptClean'
      <4> SUFFICES ASSUME NEW b \in Addresses
                   PROVE  /\ banned'[b] /= None => banned'[b] > lastPrune
                          /\ \A t \in fails'[b] :
                               t >= lastPrune - Window \/ banned'[b] > lastPrune
        BY <3>1 DEF SweptClean
      <4>1. CASE b /= a
        <5>1. banned'[b] = banned[b] /\ fails'[b] = fails[b]
          BY <4>1, <3>1, <1>a DEF TypeOK
        <5> QED  BY <5>1, <1>a DEF SweptClean
      <4>2. CASE b = a /\ Lapsed(a, clock)
        BY <4>2, <3>1, <1>a DEF TypeOK
      <4>3. CASE b = a /\ ~Lapsed(a, clock)
        <5>1. banned[a] = None /\ banned'[a] = None /\ fails'[a] = fails[a]
          BY <4>3, <2>2, <3>1, <1>a DEF TypeOK
        <5> QED  BY <4>3, <5>1, <1>a DEF SweptClean
      <4> QED  BY <4>1, <4>2, <4>3
    <3> QED  BY <3>2, <3>3, <3>4 DEF LimiterInv
  <2> QED  BY <2>1, <2>2
<1>3. ASSUME NEW r \in open, Fail(r[1], r[2])  PROVE  LimiterInv'
  BY <1>3, <1>a, FailInv DEF TypeOK
<1>4. ASSUME NEW r \in open, Success(r[1], r[2])  PROVE  LimiterInv'
  <2>1. r[1] \in Addresses
    BY <1>a DEF TypeOK
  <2>2. TypeOK'
    BY <1>4, <2>1, <1>a, <1>b DEF Success, TypeOK
  <2>3. OpenNotLapsed'
    <3> SUFFICES ASSUME NEW q \in open
                 PROVE  /\ clock - q[2] <= Handling
                        /\ banned'[q[1]] /= None => banned'[q[1]] >= q[2] + Ban
      BY <1>4 DEF Success, OpenNotLapsed
    <3>1. q[1] \in Addresses
      BY <1>a DEF TypeOK
    <3>2. banned'[q[1]] = banned[q[1]] \/ banned'[q[1]] = None
      BY <3>1, <1>4, <1>a DEF Success, TypeOK
    <3> QED  BY <3>2, <1>a DEF OpenNotLapsed
  <2>4. SweptClean'
    <3> SUFFICES ASSUME NEW b \in Addresses
                 PROVE  /\ banned'[b] /= None => banned'[b] > lastPrune
                        /\ \A t \in fails'[b] :
                             t >= lastPrune - Window \/ banned'[b] > lastPrune
      BY <1>4 DEF Success, SweptClean
    <3>1. \/ banned'[b] = banned[b] /\ fails'[b] = fails[b]
          \/ banned'[b] = None /\ fails'[b] = {}
      BY <1>4, <1>a DEF Success, TypeOK
    <3> QED  BY <3>1, <1>a DEF SweptClean
  <2> QED  BY <2>2, <2>3, <2>4 DEF LimiterInv
<1>5. ASSUME NEW r \in open, Abandon(r[1], r[2])  PROVE  LimiterInv'
  <2>1. TypeOK'
    BY <1>5, <1>a DEF Abandon, TypeOK
  <2>2. OpenNotLapsed'
    BY <1>5, <1>a DEF Abandon, OpenNotLapsed
  <2>3. SweptClean'
    BY <1>5, <1>a DEF Abandon, SweptClean
  <2> QED  BY <2>1, <2>2, <2>3 DEF LimiterInv
<1>6. CASE UNCHANGED vars
  BY <1>6, <1>a DEF LimiterInv, TypeOK, OpenNotLapsed, SweptClean, vars
<1> QED  BY <1>1, <1>2, <1>3, <1>4, <1>5, <1>6 DEF Next

\* The types, and the invariant the proofs go by, hold in every state.
THEOREM LimiterInvariance == Spec => []LimiterInv
<1>1. Init => LimiterInv
  BY InitInv
<1>2. LimiterInv /\ [Next]_vars => LimiterInv'
  BY NextInv
<1> QED  BY <1>1, <1>2, PTL DEF Spec

\* After a sweep nothing is kept that had lapsed by then ("the maps stay bounded
\* to IPs seen within the window", prune), for all addresses and periods.
THEOREM MapsSwept == Spec => []SweptClean
<1>1. LimiterInv => SweptClean
  BY DEF LimiterInv
<1> QED  BY <1>1, LimiterInvariance, PTL

-----------------------------------------------------------------------------
\* The refinement, one action at a time.

\* What the maps stand for is a function of the entries of an address.
LEMMA Shown ==
    ASSUME NEW a \in Addresses
    PROVE  /\ Counted[a] = IF Lapsed(a, clock) THEN {} ELSE Recent(fails[a], clock)
           /\ Until[a] = IF Lapsed(a, clock) THEN None ELSE banned[a]
BY DEF Counted, Until

\* Tick is AbsTick.
LEMMA TickRefines == ASSUME TypeOK, Tick  PROVE  Promise!AbsTick
<1>a. /\ clock \in Nat /\ clock' = clock + 1 /\ Window \in Nat
      /\ fails' = fails /\ banned' = banned /\ verdict' = verdict
      /\ fails \in [Addresses -> SUBSET (0..clock)] /\ banned \in [Addresses -> Nat]
  BY LimiterAssumption DEF Tick, TypeOK
<1>1. ASSUME NEW a \in Addresses
      PROVE  Until'[a] = IF clock' >= Until[a] THEN 0 ELSE Until[a]
  <2>1. Until'[a] = IF banned[a] /= None /\ clock + 1 >= banned[a] THEN None ELSE banned[a]
    BY <1>a DEF Until, Lapsed, None
  <2>2. Until[a] = IF banned[a] /= None /\ clock >= banned[a] THEN None ELSE banned[a]
    BY DEF Until, Lapsed
  <2>3. banned[a] \in Nat
    BY <1>a
  <2> QED  BY <2>1, <2>2, <2>3, <1>a DEF None
<1>2. ASSUME NEW a \in Addresses
      PROVE  Counted'[a] = IF Until[a] /= 0 /\ Until'[a] = 0
                           THEN {}
                           ELSE {t \in Counted[a] : t >= clock' - Window}
  <2>1. Counted'[a] = IF banned[a] /= None /\ clock + 1 >= banned[a]
                      THEN {}
                      ELSE {t \in fails[a] : t >= clock + 1 - Window}
    BY <1>a DEF Counted, Lapsed, Recent, None
  <2>2. Counted[a] = IF banned[a] /= None /\ clock >= banned[a]
                     THEN {}
                     ELSE {t \in fails[a] : t >= clock - Window}
    BY DEF Counted, Lapsed, Recent
  <2>3. Until'[a] = IF banned[a] /= None /\ clock + 1 >= banned[a] THEN None ELSE banned[a]
    BY <1>a DEF Until, Lapsed, None
  <2>4. Until[a] = IF banned[a] /= None /\ clock >= banned[a] THEN None ELSE banned[a]
    BY DEF Until, Lapsed
  <2>5. banned[a] \in Nat /\ None = 0
    BY <1>a DEF None
  <2>6. CASE banned[a] /= None /\ clock >= banned[a]
    <3>1. Counted[a] = {} /\ Counted'[a] = {}
      BY <2>6, <2>1, <2>2, <2>5, <1>a
    <3> QED  BY <3>1
  <2>7. CASE banned[a] /= None /\ ~(clock >= banned[a]) /\ clock + 1 >= banned[a]
    BY <2>7, <2>1, <2>3, <2>4, <2>5
  <2>8. CASE ~(banned[a] /= None /\ clock + 1 >= banned[a])
    <3>1. ~(banned[a] /= None /\ clock >= banned[a])
      BY <2>8, <2>5, <1>a
    <3>2. ~(Until[a] /= 0 /\ Until'[a] = 0)
      BY <2>8, <3>1, <2>3, <2>4, <2>5
    <3>3. Counted[a] = {t \in fails[a] : t >= clock - Window}
      BY <2>2, <3>1
    <3>4. Counted'[a] = {t \in fails[a] : t >= clock + 1 - Window}
      BY <2>1, <2>8
    <3>5. \A t \in fails[a] : t >= clock + 1 - Window => t >= clock - Window
      <4> SUFFICES ASSUME NEW t \in fails[a], t >= clock + 1 - Window
                   PROVE  t >= clock - Window
        OBVIOUS
      <4>1. t \in Int /\ clock \in Int /\ clock + 1 \in Int /\ Window \in Int
        BY <1>a
      <4>2. clock <= clock + 1
        BY <1>a
      <4> QED  BY <4>1, <4>2, StillCounts
    <3>6. Counted'[a] = {t \in Counted[a] : t >= clock + 1 - Window}
      BY <3>3, <3>4, <3>5
    <3> QED  BY <3>2, <3>6, <1>a
  <2> QED  BY <2>6, <2>7, <2>8
<1>3. /\ Until' = [a \in Addresses |-> IF clock' >= Until[a] THEN 0 ELSE Until[a]]
      /\ Counted' = [a \in Addresses |-> IF Until[a] /= 0 /\ Until'[a] = 0
                                         THEN {}
                                         ELSE {t \in Counted[a] : t >= clock' - Window}]
  <2>1. Until' = [a \in Addresses |-> Until'[a]] /\ Counted' = [a \in Addresses |-> Counted'[a]]
    BY DEF Until, Counted
  <2> QED  BY <2>1, <1>1, <1>2
<1> QED  BY <1>3, <1>a DEF Promise!AbsTick

\* Blocked is AbsAsk: the verdict is the ban's, and dropping a lapsed entry
\* changes nothing that shows.
LEMMA BlockedRefines ==
    ASSUME TypeOK, NEW a \in Addresses, Blocked(a)
    PROVE  Promise!AbsAsk(a)
<1>a. /\ clock' = clock /\ clock \in Nat /\ None = 0
      /\ fails \in [Addresses -> SUBSET (0..clock)] /\ banned \in [Addresses -> Nat]
  BY DEF Blocked, TypeOK, None
<1>1. CASE banned[a] /= None /\ ~Lapsed(a, clock)
  <2>1. verdict' = <<a, "refused">> /\ fails' = fails /\ banned' = banned
    BY <1>1 DEF Blocked
  <2>2. Counted' = Counted /\ Until' = Until
    BY <2>1, <1>a DEF Counted, Until, Lapsed, Recent
  <2>3. Until[a] /= 0
    BY <1>1, <1>a, Shown
  <2> QED  BY <2>1, <2>2, <2>3, <1>a DEF Promise!AbsAsk, Promise!Refused
<1>2. CASE ~(banned[a] /= None /\ ~Lapsed(a, clock))
  <2>1. /\ verdict' = <<a, "let in">>
        /\ banned' = [banned EXCEPT ![a] = None]
        /\ fails' = IF Lapsed(a, clock) THEN [fails EXCEPT ![a] = {}] ELSE fails
    BY <1>2 DEF Blocked
  <2>2. Until[a] = 0
    BY <1>2, <1>a, Shown
  <2>3. ASSUME NEW b \in Addresses
        PROVE  Counted'[b] = Counted[b] /\ Until'[b] = Until[b]
    <3>1. CASE b /= a
      <4>1. banned'[b] = banned[b] /\ fails'[b] = fails[b]
        BY <3>1, <2>1, <1>a
      <4> QED  BY <4>1, <1>a DEF Counted, Until, Lapsed, Recent
    <3>2. CASE b = a
      <4>1. banned'[a] = None /\ fails'[a] = IF Lapsed(a, clock) THEN {} ELSE fails[a]
        BY <2>1, <1>a
      <4>2. Until'[a] = None
        BY <4>1, <1>a DEF Until, Lapsed
      <4>3. Counted'[a] = Recent(fails'[a], clock)
        BY <4>1, <1>a DEF Counted, Lapsed, Recent
      <4>4. Counted'[a] = Counted[a]
        BY <4>1, <4>3, Shown DEF Recent
      <4> QED  BY <3>2, <4>2, <4>4, <2>2, <1>a
    <3> QED  BY <3>1, <3>2
  <2>4. Counted' = Counted /\ Until' = Until
    <3>1. /\ Until' = [b \in Addresses |-> Until'[b]] /\ Counted' = [b \in Addresses |-> Counted'[b]]
          /\ Until = [b \in Addresses |-> Until[b]] /\ Counted = [b \in Addresses |-> Counted[b]]
      BY DEF Until, Counted
    <3> QED  BY <3>1, <2>3
  <2> QED  BY <2>1, <2>2, <2>4, <1>a DEF Promise!AbsAsk, Promise!Refused
<1> QED  BY <1>1, <1>2

\* Success is AbsSuccess.
LEMMA SuccessRefines ==
    ASSUME TypeOK, NEW a \in Addresses, NEW since, Success(a, since)
    PROVE  Promise!AbsSuccess(a)
<1>a. /\ clock' = clock /\ verdict' = verdict /\ None = 0
      /\ fails' = [fails EXCEPT ![a] = {}] /\ banned' = [banned EXCEPT ![a] = None]
      /\ fails \in [Addresses -> SUBSET (0..clock)] /\ banned \in [Addresses -> Nat]
  BY DEF Success, TypeOK, None
<1>1. ASSUME NEW b \in Addresses, b /= a
      PROVE  Counted'[b] = Counted[b] /\ Until'[b] = Until[b]
  <2>1. banned'[b] = banned[b] /\ fails'[b] = fails[b]
    BY <1>1, <1>a
  <2> QED  BY <2>1, <1>a DEF Counted, Until, Lapsed, Recent
<1>2. Counted'[a] = {} /\ Until'[a] = 0
  <2>1. banned'[a] = None /\ fails'[a] = {}
    BY <1>a
  <2> QED  BY <2>1, <1>a DEF Counted, Until, Lapsed, Recent
<1>3. /\ Counted' = [Counted EXCEPT ![a] = {}]
      /\ Until' = [Until EXCEPT ![a] = 0]
  <2>1. /\ Until' = [b \in Addresses |-> Until'[b]] /\ Counted' = [b \in Addresses |-> Counted'[b]]
        /\ Until = [b \in Addresses |-> Until[b]] /\ Counted = [b \in Addresses |-> Counted[b]]
    BY DEF Until, Counted
  <2> QED  BY <2>1, <1>1, <1>2
<1> QED  BY <1>3, <1>a DEF Promise!AbsSuccess

\* Fail is AbsFail, whatever it swept on the way: its own address has no lapsed
\* ban, and of the others nothing changes that shows.
LEMMA FailRefines ==
    ASSUME LimiterInv, NEW a \in Addresses, NEW since \in 0..clock, Fail(a, since)
    PROVE  Promise!AbsFail(a)
<1> DEFINE m == AfterPrune(clock)
           kept == Recent(m.fails[a], clock) \cup {clock}
<1>a. TypeOK /\ OpenNotLapsed /\ None = 0
  BY DEF LimiterInv, None
<1>b. /\ m.fails \in [Addresses -> SUBSET (0..clock)]
      /\ m.banned \in [Addresses -> Nat]
  BY <1>a, PruneTypes
<1>c. /\ clock \in Nat /\ Window \in Nat /\ Ban \in Nat \ {0} /\ Handling \in Nat
      /\ Handling < Ban /\ banned[a] \in Nat
  BY <1>a, LimiterAssumption DEF TypeOK
<1>d. /\ fails' = [m.fails EXCEPT ![a] = kept]
      /\ banned' = IF Cardinality(kept) >= MaxFails
                   THEN [m.banned EXCEPT ![a] = clock + Ban]
                   ELSE m.banned
      /\ clock' = clock /\ verdict' = verdict
      /\ <<a, since>> \in open
  BY DEF Fail
<1>e. ~Lapsed(a, clock)
  <2>1. /\ clock - since <= Handling
        /\ banned[a] /= None => banned[a] >= since + Ban
    BY <1>a, <1>d DEF OpenNotLapsed
  <2>2. since \in Int
    OBVIOUS
  <2>3. banned[a] /= None => banned[a] > clock
    BY <2>1, <2>2, <1>c
  <2> QED  BY <2>3, <1>c DEF Lapsed
<1>f. /\ m.banned[a] = banned[a]
      /\ Recent(m.fails[a], clock) = Recent(fails[a], clock)
  BY <1>a, <1>e, PruneKeeps
<1>g. kept = Counted[a] \cup {clock} /\ Until[a] = banned[a]
  BY <1>e, <1>f, Shown
<1>h. ASSUME NEW b \in Addresses, b /= a
      PROVE  fails'[b] = m.fails[b] /\ banned'[b] = m.banned[b]
  BY <1>b, <1>d, <1>h
<1>i. /\ fails'[a] = kept
      /\ banned'[a] = IF Cardinality(kept) >= MaxFails THEN clock + Ban ELSE banned[a]
  BY <1>b, <1>d, <1>f
<1>j. /\ Recent(kept, clock) = kept
      /\ \A b \in Addresses :
           /\ Counted'[b] = IF banned'[b] /= None /\ clock >= banned'[b]
                            THEN {} ELSE Recent(fails'[b], clock)
           /\ Until'[b] = IF banned'[b] /= None /\ clock >= banned'[b]
                          THEN None ELSE banned'[b]
  <2>1. Recent(kept, clock) = kept
    <3>1. clock >= clock - Window
      BY <1>c
    <3> QED  BY <3>1 DEF Recent
  <2> QED  BY <2>1, <1>d DEF Counted, Until, Lapsed, Recent, None
<1> HIDE DEF m, kept
<1>1. ASSUME NEW b \in Addresses, b /= a
      PROVE  Counted'[b] = Counted[b] /\ Until'[b] = Until[b]
  <2>1. CASE Lapsed(b, clock)
    <3>1. \/ m.fails[b] = fails[b] /\ m.banned[b] = banned[b]
          \/ m.fails[b] = {} /\ m.banned[b] = None
      BY <2>1, <1>a, PruneKeeps DEF m
    <3>2. Counted'[b] = {} /\ Until'[b] = None
      BY <2>1, <3>1, <1>1, <1>h, <1>j DEF Lapsed, Recent
    <3> QED  BY <2>1, <3>2, Shown
  <2>2. CASE ~Lapsed(b, clock)
    <3>1. m.banned[b] = banned[b] /\ Recent(m.fails[b], clock) = Recent(fails[b], clock)
      BY <2>2, <1>a, PruneKeeps DEF m
    <3> QED  BY <2>2, <3>1, <1>1, <1>h, <1>j, Shown DEF Lapsed
  <2> QED  BY <2>1, <2>2
<1>2. /\ Counted'[a] = Counted[a] \cup {clock}
      /\ Until'[a] = IF Cardinality(Counted[a] \cup {clock}) >= MaxFails
                     THEN clock + Ban ELSE Until[a]
  <2>1. CASE Cardinality(kept) >= MaxFails
    <3>1. banned'[a] = clock + Ban /\ ~(clock >= clock + Ban)
      BY <2>1, <1>i, <1>c
    <3>2. Counted'[a] = Recent(kept, clock) /\ Until'[a] = clock + Ban
      BY <3>1, <1>i, <1>j
    <3> QED  BY <2>1, <3>2, <1>g, <1>j
  <2>2. CASE ~(Cardinality(kept) >= MaxFails)
    <3>1. banned'[a] = banned[a]
      BY <2>2, <1>i
    <3>2. Counted'[a] = Recent(kept, clock) /\ Until'[a] = banned[a]
      BY <3>1, <1>e, <1>i, <1>j DEF Lapsed
    <3> QED  BY <2>2, <3>2, <1>g, <1>j
  <2> QED  BY <2>1, <2>2
<1>3. /\ Counted' = [Counted EXCEPT ![a] = @ \cup {clock}]
      /\ Until' = IF Cardinality(Counted[a] \cup {clock}) >= MaxFails
                  THEN [Until EXCEPT ![a] = clock + Ban]
                  ELSE Until
  <2>1. /\ Until' = [b \in Addresses |-> Until'[b]] /\ Counted' = [b \in Addresses |-> Counted'[b]]
        /\ Until = [b \in Addresses |-> Until[b]] /\ Counted = [b \in Addresses |-> Counted[b]]
    BY DEF Until, Counted
  <2>2. Counted' = [Counted EXCEPT ![a] = @ \cup {clock}]
    BY <2>1, <1>1, <1>2
  <2>3. CASE Cardinality(Counted[a] \cup {clock}) >= MaxFails
    <3>1. Until' = [Until EXCEPT ![a] = clock + Ban]
      BY <2>1, <2>3, <1>1, <1>2
    <3> QED  BY <2>2, <2>3, <3>1
  <2>4. CASE ~(Cardinality(Counted[a] \cup {clock}) >= MaxFails)
    <3>1. Until' = Until
      BY <2>1, <2>4, <1>1, <1>2
    <3> QED  BY <2>2, <2>4, <3>1
  <2> QED  BY <2>3, <2>4
<1>4. Promise!Cardinality(Counted[a] \cup {clock}) = Cardinality(Counted[a] \cup {clock})
  BY DEF Promise!Cardinality, Cardinality
<1> QED  BY <1>3, <1>4, <1>d DEF Promise!AbsFail

\* The limiter implements the throttle: sweeping late, together, and on another
\* address's failure never changes what an address is owed, for every Window,
\* Ban and MaxFails and any number of addresses and requests under way.
THEOREM LimiterIsThrottle == Spec => ImplementsThrottle
<1>1. Init => Promise!AbsInit
  <2> SUFFICES ASSUME Init  PROVE  Promise!AbsInit
    OBVIOUS
  <2>1. clock \in Nat /\ verdict = NoVerdict
    BY LimiterAssumption DEF Init
  <2>2. ASSUME NEW a \in Addresses  PROVE  Counted[a] = {} /\ Until[a] = 0
    BY Shown DEF Init, Lapsed, Recent, None
  <2>3. /\ Counted = [a \in Addresses |-> {}]
        /\ Until = [a \in Addresses |-> 0]
    <3>1. Until = [b \in Addresses |-> Until[b]] /\ Counted = [b \in Addresses |-> Counted[b]]
      BY DEF Until, Counted
    <3> QED  BY <3>1, <2>2
  <2> QED  BY <2>1, <2>3 DEF Promise!AbsInit
<1>2. LimiterInv /\ [Next]_vars => [Promise!AbsNext]_(Promise!absVars)
  <2> SUFFICES ASSUME LimiterInv, [Next]_vars
               PROVE  Promise!AbsNext \/ UNCHANGED Promise!absVars
    OBVIOUS
  <2>a. TypeOK /\ \A r \in open : r[1] \in Addresses /\ r[2] \in 0..clock
    BY DEF LimiterInv, TypeOK
  <2>1. CASE Tick
    BY <2>1, <2>a, TickRefines DEF Promise!AbsNext
  <2>2. ASSUME NEW a \in Addresses, Blocked(a)  PROVE  Promise!AbsNext
    BY <2>2, <2>a, BlockedRefines DEF Promise!AbsNext
  <2>3. ASSUME NEW r \in open, Fail(r[1], r[2])  PROVE  Promise!AbsNext
    BY <2>3, <2>a, FailRefines DEF Promise!AbsNext
  <2>4. ASSUME NEW r \in open, Success(r[1], r[2])  PROVE  Promise!AbsNext
    BY <2>4, <2>a, SuccessRefines DEF Promise!AbsNext
  <2>5. ASSUME NEW r \in open, Abandon(r[1], r[2])  PROVE  UNCHANGED Promise!absVars
    BY <2>5 DEF Abandon, Promise!absVars, Counted, Until, Lapsed, Recent, None
  <2>6. CASE UNCHANGED vars
    BY <2>6 DEF vars, Promise!absVars, Counted, Until, Lapsed, Recent, None
  <2> QED  BY <2>1, <2>2, <2>3, <2>4, <2>5, <2>6 DEF Next
<1> QED  BY <1>1, <1>2, LimiterInvariance, PTL DEF Spec, ImplementsThrottle, Promise!AbsSpec

-----------------------------------------------------------------------------
\* The sessions.

\* A copy of the row is not ahead of it; and with the row's version it has the row's
\* password, unless that version was set in the gap of another change.
Follows(e) == e.pv <= row.pv /\ (~crossed /\ e.pv = row.pv => e.pw = row.pw)

\* Every change sets a password that was never in force.
PasswordsNew == row.pv = row.pw + 1

CookiesFollow == \A b \in Browsers : cookie[b] /= NoCookie => Follows(cookie[b])

HandlersFollow == \A b \in Browsers : At(b, "issue") \/ At(b, "reissue") => Follows(handler[b])

\* A change between its UPDATE and its SELECT made the version in force, unless
\* another one crossed it; and as long as its password is in force, so is the version
\* that it selected.
ChangeHolds ==
    \A b \in Browsers :
        /\ At(b, "select") \/ At(b, "reissue") => handler[b].pw <= row.pw
        /\ At(b, "select") /\ ~crossed => handler[b].pw = row.pw
        /\ At(b, "reissue") /\ handler[b].pw = row.pw => handler[b].pv = row.pv

SessionsInv ==
    /\ SessionsTypeOK
    /\ PasswordsNew
    /\ CookiesFollow
    /\ HandlersFollow
    /\ ChangeHolds

-----------------------------------------------------------------------------
\* A request, a reset or a failure keeps the types of WebSessions.
LEMMA SessionsTypeStep == SessionsTypeOK /\ [SessionsNext]_sessionsVars => SessionsTypeOK'
<1> SUFFICES ASSUME SessionsTypeOK, [SessionsNext]_sessionsVars
             PROVE  SessionsTypeOK'
  OBVIOUS
<1> USE WebSessionsAssumption DEF SessionsTypeOK, Rows, Passwords, At, Goto, Idle
<1>1. CASE ResetAdmin
  BY <1>1 DEF ResetAdmin
<1>2. CASE DatabaseFlips
  BY <1>2 DEF DatabaseFlips
<1>3. CASE PingDB
  BY <1>3 DEF PingDB
<1>4. ASSUME NEW b \in Browsers, LoginRead(b)  PROVE SessionsTypeOK'
  BY <1>4 DEF LoginRead
<1>5. ASSUME NEW b \in Browsers, Issue(b)  PROVE SessionsTypeOK'
  BY <1>5 DEF Issue
<1>6. ASSUME NEW b \in Browsers, Logout(b)  PROVE SessionsTypeOK'
  BY <1>6 DEF Logout
<1>7. ASSUME NEW b \in Browsers, ChangeBegin(b)  PROVE SessionsTypeOK'
  BY <1>7 DEF ChangeBegin
<1>8. ASSUME NEW b \in Browsers, ChangeCheck(b)  PROVE SessionsTypeOK'
  BY <1>8 DEF ChangeCheck
<1>9. ASSUME NEW b \in Browsers, UpdatePassword(b)  PROVE SessionsTypeOK'
  <2>1. row' \in Rows /\ row.pv \in Passwords
    BY <1>9 DEF UpdatePassword
  <2>2. handler' \in [Browsers -> [pc : {"idle", "issue", "check", "update",
                                       "select", "reissue"},
                                 pv : 1..MaxVersion, pw : Passwords]]
    <3> DEFINE Handlers == [pc : {"idle", "issue", "check", "update", "select", "reissue"},
                            pv : 1..MaxVersion, pw : Passwords]
    <3>1. [handler[b] EXCEPT !.pc = "select", !.pw = row.pv] \in Handlers
      BY <2>1
    <3>2. handler' = [handler EXCEPT ![b] = [handler[b] EXCEPT !.pc = "select", !.pw = row.pv]]
      BY <1>9 DEF UpdatePassword
    <3>3. handler \in [Browsers -> Handlers]
      OBVIOUS
    <3> HIDE DEF Handlers
    <3>4. handler' \in [Browsers -> Handlers]
      BY <3>1, <3>2, <3>3
    <3> QED
      BY <3>4 DEF Handlers
  <2> QED
    BY <1>9, <2>1, <2>2, Zenon DEF UpdatePassword
<1>10. ASSUME NEW b \in Browsers, SelectVersion(b)  PROVE SessionsTypeOK'
  BY <1>10 DEF SelectVersion
<1>11. ASSUME NEW b \in Browsers, Refuse(b)  PROVE SessionsTypeOK'
  BY <1>11 DEF Refuse
<1>12. CASE UNCHANGED sessionsVars
  BY <1>12 DEF sessionsVars
<1> QED
  BY <1>1, <1>2, <1>3, <1>4, <1>5, <1>6, <1>7, <1>8, <1>9, <1>10, <1>11, <1>12
      DEF SessionsNext

\* Every step, of however many requests at once, keeps what a session knows in line
\* with the row.
LEMMA SessionsStep == SessionsInv /\ [SessionsNext]_sessionsVars => SessionsInv'
<1> SUFFICES ASSUME SessionsInv, [SessionsNext]_sessionsVars
             PROVE  PasswordsNew' /\ CookiesFollow' /\ HandlersFollow' /\ ChangeHolds'
  BY SessionsTypeStep DEF SessionsInv
<1> DEFINE Kept == PasswordsNew /\ CookiesFollow /\ HandlersFollow /\ ChangeHolds
<1> SUFFICES Kept'
  OBVIOUS
<1> USE DEF SessionsInv, PasswordsNew, CookiesFollow, HandlersFollow, ChangeHolds, Follows,
            SessionsTypeOK, Rows, Passwords, At, Goto, Idle
<1>1. CASE ResetAdmin
  BY <1>1 DEF ResetAdmin
<1>2. CASE DatabaseFlips
  BY <1>2 DEF DatabaseFlips
<1>3. CASE PingDB
  BY <1>3 DEF PingDB
<1>4. ASSUME NEW b \in Browsers, LoginRead(b)  PROVE Kept'
  BY <1>4 DEF LoginRead
<1>5. ASSUME NEW b \in Browsers, Issue(b)  PROVE Kept'
  BY <1>5 DEF Issue
<1>6. ASSUME NEW b \in Browsers, Logout(b)  PROVE Kept'
  BY <1>6 DEF Logout
<1>7. ASSUME NEW b \in Browsers, ChangeBegin(b)  PROVE Kept'
  BY <1>7 DEF ChangeBegin
<1>8. ASSUME NEW b \in Browsers, ChangeCheck(b)  PROVE Kept'
  BY <1>8 DEF ChangeCheck
<1>9. ASSUME NEW b \in Browsers, UpdatePassword(b)  PROVE Kept'
  BY <1>9 DEF UpdatePassword
<1>10. ASSUME NEW b \in Browsers, SelectVersion(b)  PROVE Kept'
  BY <1>10 DEF SelectVersion
<1>11. ASSUME NEW b \in Browsers, Refuse(b)  PROVE Kept'
  BY <1>11 DEF Refuse
<1>12. CASE UNCHANGED sessionsVars
  BY <1>12 DEF sessionsVars
<1> QED
  BY <1>1, <1>2, <1>3, <1>4, <1>5, <1>6, <1>7, <1>8, <1>9, <1>10, <1>11, <1>12
      DEF SessionsNext

\* SessionsInv holds however logins, changes and resets overlap.
LEMMA SessionsInvariance == SessionsSpec => []SessionsInv
<1>1. SessionsInit => SessionsInv
  <2> SUFFICES ASSUME SessionsInit PROVE SessionsInv
    OBVIOUS
  <2>1. alive \in BOOLEAN /\ dbUp \in BOOLEAN /\ crossed \in BOOLEAN
    BY Zenon DEF SessionsInit
  <2>2. SessionsTypeOK
    BY <2>1, WebSessionsAssumption DEF SessionsInit, SessionsTypeOK, Idle, Rows, Passwords
  <2> QED
    BY <2>2 DEF SessionsInit, SessionsInv, PasswordsNew, CookiesFollow, HandlersFollow,
        ChangeHolds, At, Idle
<1> QED
  BY <1>1, SessionsStep, PTL DEF SessionsSpec

\* A session that the version check lets through was opened with, or chose, the
\* password in force, unless that was set in the gap between another change's UPDATE
\* and SELECT, for any number of requests at once (claimsFromRequest, UpdatePassword).
THEOREM ValidSessionsKnow == SessionsSpec => []ValidKnowsPassword
<1>1. SessionsInv => ValidKnowsPassword
  BY DEF SessionsInv, CookiesFollow, Follows, ValidKnowsPassword
<1> QED
  BY <1>1, SessionsInvariance, PTL

\* And the cookie that handleChangePassword sets is valid when it is set, as long as
\* the password it is for is in force, whatever other changes were under way.
THEOREM ChangerKeepsSession == SessionsSpec => ChangerStaysIn
<1>1. SessionsInv /\ [SessionsNext]_sessionsVars
      => [\A b \in Browsers : At(b, "reissue") /\ Issue(b) /\ row.pw = handler[b].pw
             => cookie'[b].pv = row.pv]_sessionsVars
  BY DEF SessionsInv, SessionsTypeOK, ChangeHolds, Issue
<1> QED
  BY <1>1, SessionsInvariance, PTL DEF SessionsSpec, ChangerStaysIn
==============================================================================
