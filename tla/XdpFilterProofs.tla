-------------------------- MODULE XdpFilterProofs --------------------------
(***************************************************************************)
(* XdpFilter's properties for every number of CPUs and sources, every      *)
(* window, limit and sampling rate, and without the bounds of the runs.    *)
(***************************************************************************)
EXTENDS XdpFilter, TLAPS

Stages == {"insert", "read", "store", "restart", "sample", "emit"}
Busy   == [pc : Stages, src : Sources, t : 0..MaxTime, cnt : Nat, due : BOOLEAN]

(* A lookup that found an entry still has it: nothing evicts it meanwhile. *)
EntryInHand ==
    \A c \in CPUs : cpu[c].pc \in {"read", "store", "restart"} => cpu[c].src \in DOMAIN rate

(* The packets passed since the last one emitted were no multiples of N.   *)
GapIsSilent ==
    \A c \in CPUs :
        /\ gap[c] <= passed[c]
        /\ SampleEveryN <= 1 => gap[c] = 0
        /\ SampleEveryN > 1 =>
              \A j \in passed[c] - gap[c]..passed[c] - 1 : j % SampleEveryN # 0

-----------------------------------------------------------------------------
(* What an entry becomes when a packet of time t is counted in it.         *)
IsAfter(new, old, t) ==
    IF InWindow(t, old.ts) THEN new.ts = old.ts /\ new.cnt = old.cnt + 1
                           ELSE new.ts = t /\ new.cnt = 1

(* Only one CPU has the entry of an unraced source in hand.                *)
Alone(s) == \A c, d \in CPUs : Gating(c, s) /\ Gating(d, s) => c = d

(* When none has, the entry is what atomic counting would have made it.    *)
Settled(s) ==
    (\A c \in CPUs : ~Gating(c, s)) =>
        /\ s \in DOMAIN rate <=> s \in DOMAIN ideal
        /\ s \in DOMAIN rate => rate[s] = ideal[s]

(* When one has, the rest of its gate makes it so, and it knows its count. *)
Underway(c, s) ==
    /\ s \in DOMAIN ideal
    /\ cpu[c].due = OverLimit(ideal[s].cnt)
    /\ cpu[c].pc = "insert" =>
          s \notin DOMAIN rate /\ ideal[s] = [ts |-> cpu[c].t, cnt |-> 1]
    /\ cpu[c].pc = "read" => IsAfter(ideal[s], rate[s], cpu[c].t)
    /\ cpu[c].pc \in {"store", "restart"} =>
          ideal[s].ts = rate[s].ts /\ ideal[s].cnt = cpu[c].cnt
    /\ cpu[c].pc = "restart" => cpu[c].cnt = 1

Unraced(s) ==
    s \notin raced => /\ Alone(s) /\ Settled(s)
                      /\ \A c \in CPUs : Gating(c, s) => Underway(c, s)

(* A packet that only sampling can still stream was not over the limit.    *)
NotDue == \A c \in CPUs : cpu[c].pc = "sample" /\ cpu[c].src \notin raced => ~cpu[c].due

RaceInv == NotDue /\ \A s \in Sources : Unraced(s)

IInv == TypeOK /\ EntryInHand /\ StatsBalance /\ GapIsSilent /\ RaceInv

-----------------------------------------------------------------------------
(* Division with a remainder.                                              *)
LEMMA Division ==
    ASSUME NEW N \in Nat, N > 0, NEW x \in Nat
    PROVE  /\ x % N \in 0..N-1
           /\ (x \div N) \in Nat
           /\ x = (x \div N) * N + (x % N)
OBVIOUS

LEMMA Remainder ==
    ASSUME NEW N \in Nat, N > 0, NEW q \in Nat, NEW r \in 0..N-1
    PROVE  (q * N + r) % N = r
OBVIOUS

(* Of N consecutive numbers one is a multiple of N.                        *)
LEMMA SomeMultiple ==
    ASSUME NEW N \in Nat, N > 0, NEW x \in Nat
    PROVE  \E j \in x..x + N - 1 : j % N = 0
<1> DEFINE y == x + N - 1
           q == y \div N
           r == y % N
<1>1. y \in Nat  OBVIOUS
<1>2. r \in 0..N - 1 /\ q \in Nat /\ y = q * N + r  BY <1>1, Division
<1> HIDE DEF q, r
<1>3. q * N \in Nat /\ q * N = y - r  BY <1>1, <1>2
<1>4. q * N \in x..x + N - 1  BY <1>2, <1>3
<1>5. (q * N + 0) % N = 0  BY <1>2, Remainder, SMTT(30)
<1>6. (q * N) % N = 0  BY <1>3, <1>5
<1>7. QED  BY <1>4, <1>6

-----------------------------------------------------------------------------
(* The records a CPU can hold: none, or a packet's with all its fields.    *)
LEMMA LocalsType ==
    ASSUME TypeOK, NEW c \in CPUs
    PROVE  /\ cpu[c].pc # "idle" => cpu[c] \in Busy
           /\ cpu[c].pc = "idle" => cpu[c] = Idle
BY DEF TypeOK, Locals, Busy, Stages, Idle

(* Storing an entry keeps a rate map one.                                  *)
LEMMA SetType ==
    ASSUME NEW f, NEW s \in Sources, NEW e \in RateEntry,
           DOMAIN f \subseteq Sources, \A x \in DOMAIN f : f[x] \in RateEntry
    PROVE  /\ DOMAIN Set(f, s, e) = DOMAIN f \cup {s}
           /\ \A x \in DOMAIN Set(f, s, e) : Set(f, s, e)[x] \in RateEntry
           /\ Set(f, s, e)[s] = e
           /\ \A x \in DOMAIN f : x # s => Set(f, s, e)[x] = f[x]
BY DEF Set

(* Storing one in rate_map.                                                *)
LEMMA RateEffect ==
    ASSUME TypeOK, NEW s \in Sources, NEW e \in RateEntry, rate' = Set(rate, s, e)
    PROVE  /\ DOMAIN rate' = DOMAIN rate \cup {s}
           /\ \A x \in DOMAIN rate' : rate'[x] \in RateEntry
           /\ rate'[s] = e
           /\ \A x \in DOMAIN rate : x # s => rate'[x] = rate[x]
BY DEF Set, TypeOK

(* Counting a packet at t keeps a rate map one.                            *)
LEMMA CountedType ==
    ASSUME NEW f, NEW s \in Sources, NEW t \in Nat,
           DOMAIN f \subseteq Sources, \A x \in DOMAIN f : f[x] \in RateEntry
    PROVE  /\ DOMAIN Counted(f, s, t) = DOMAIN f \cup {s}
           /\ \A x \in DOMAIN Counted(f, s, t) : Counted(f, s, t)[x] \in RateEntry
           /\ s \in DOMAIN f => IsAfter(Counted(f, s, t)[s], f[s], t)
           /\ s \notin DOMAIN f => Counted(f, s, t)[s] = [ts |-> t, cnt |-> 1]
           /\ \A x \in DOMAIN f : x # s => Counted(f, s, t)[x] = f[x]
<1> DEFINE e == IF s \in DOMAIN f /\ InWindow(t, f[s].ts)
                  THEN [f[s] EXCEPT !.cnt = @ + 1]
                  ELSE [ts |-> t, cnt |-> 1]
<1>1. e \in RateEntry  BY DEF RateEntry
<1>2. Counted(f, s, t) = Set(f, s, e)  BY DEF Counted
<1>3. /\ s \in DOMAIN f => IsAfter(e, f[s], t)
      /\ s \notin DOMAIN f => e = [ts |-> t, cnt |-> 1]
  BY DEF IsAfter, RateEntry
<1> HIDE DEF e
<1>4. /\ DOMAIN Set(f, s, e) = DOMAIN f \cup {s}
      /\ \A x \in DOMAIN Set(f, s, e) : Set(f, s, e)[x] \in RateEntry
      /\ Set(f, s, e)[s] = e
      /\ \A x \in DOMAIN f : x # s => Set(f, s, e)[x] = f[x]
  BY <1>1, SetType
<1>5. QED  BY <1>2, <1>3, <1>4

(* A lookup counts its packet in the entry that atomic counting would keep.*)
LEMMA IdealEffect ==
    ASSUME TypeOK, NEW c \in CPUs, NEW s \in Sources, Lookup(c, s)
    PROVE  /\ DOMAIN ideal' = DOMAIN ideal \cup {s}
           /\ \A x \in DOMAIN ideal' : ideal'[x] \in RateEntry
           /\ s \in DOMAIN ideal => IsAfter(ideal'[s], ideal[s], clock)
           /\ s \notin DOMAIN ideal => ideal'[s] = [ts |-> clock, cnt |-> 1]
           /\ \A x \in DOMAIN ideal : x # s => ideal'[x] = ideal[x]
<1> DEFINE f == ideal
<1>1. ideal' = Counted(f, s, clock)  BY DEF Lookup
<1>2. /\ clock \in Nat
      /\ DOMAIN f \subseteq Sources /\ \A x \in DOMAIN f : f[x] \in RateEntry
  BY XdpAssumption DEF TypeOK
<1> HIDE DEF f
<1>3. /\ DOMAIN Counted(f, s, clock) = DOMAIN f \cup {s}
      /\ \A x \in DOMAIN Counted(f, s, clock) : Counted(f, s, clock)[x] \in RateEntry
      /\ s \in DOMAIN f => IsAfter(Counted(f, s, clock)[s], f[s], clock)
      /\ s \notin DOMAIN f => Counted(f, s, clock)[s] = [ts |-> clock, cnt |-> 1]
      /\ \A x \in DOMAIN f : x # s => Counted(f, s, clock)[x] = f[x]
  BY <1>2, CountedType
<1>4. QED  BY <1>1, <1>3 DEF f

(* One more on one CPU's counter.                                          *)
LEMMA BumpEffect ==
    ASSUME NEW f \in [CPUs -> Nat], NEW c \in CPUs
    PROVE  /\ Bump(f, c) \in [CPUs -> Nat]
           /\ Bump(f, c)[c] = f[c] + 1
           /\ \A d \in CPUs \ {c} : Bump(f, c)[d] = f[d]
BY DEF Bump

(* Moving a busy CPU on.                                                   *)
LEMMA GotoEffect ==
    ASSUME TypeOK, NEW c \in CPUs, cpu[c] \in Busy, NEW pc \in Stages, NEW n \in Nat
    PROVE  /\ Goto(c, pc, n) \in [CPUs -> Locals]
           /\ Goto(c, pc, n)[c] \in Busy
           /\ Goto(c, pc, n)[c].pc = pc /\ Goto(c, pc, n)[c].cnt = n
           /\ Goto(c, pc, n)[c].src = cpu[c].src
           /\ Goto(c, pc, n)[c].t = cpu[c].t /\ Goto(c, pc, n)[c].due = cpu[c].due
           /\ \A d \in CPUs \ {c} : Goto(c, pc, n)[d] = cpu[d]
<1> DEFINE u == [cpu[c] EXCEPT !.pc = pc, !.cnt = n]
<1>1. u \in Busy /\ u.pc = pc /\ u.cnt = n
      /\ u.src = cpu[c].src /\ u.t = cpu[c].t /\ u.due = cpu[c].due
  BY DEF Busy
<1>2. u \in Locals  BY <1>1 DEF Busy, Locals, Stages
<1>3. Goto(c, pc, n) = [cpu EXCEPT ![c] = u]  BY DEF Goto
<1> HIDE DEF u
<1>4. QED  BY <1>1, <1>2, <1>3 DEF TypeOK

(* A CPU done with its packet.                                             *)
LEMMA IdleEffect ==
    ASSUME TypeOK, NEW c \in CPUs
    PROVE  /\ [cpu EXCEPT ![c] = Idle] \in [CPUs -> Locals]
           /\ [cpu EXCEPT ![c] = Idle][c] = Idle
           /\ \A d \in CPUs \ {c} : [cpu EXCEPT ![c] = Idle][d] = cpu[d]
BY DEF TypeOK, Locals

(* A CPU that has looked an entry up.                                      *)
LEMMA LookupEffect ==
    ASSUME TypeOK, NEW c \in CPUs, NEW s \in Sources, Lookup(c, s)
    PROVE  /\ cpu' \in [CPUs -> Locals]
           /\ cpu'[c].pc = IF s \in DOMAIN rate THEN "read" ELSE "insert"
           /\ cpu'[c].src = s /\ cpu'[c].t = clock
           /\ cpu'[c].due = OverLimit(ideal'[s].cnt)
           /\ \A d \in CPUs \ {c} : cpu'[d] = cpu[d]
<1> DEFINE u == [pc |-> IF s \in DOMAIN rate THEN "read" ELSE "insert",
                 src |-> s, t |-> clock, cnt |-> 0, due |-> OverLimit(ideal'[s].cnt)]
<1>1. u \in Locals  BY DEF Locals, OverLimit, TypeOK
<1>2. cpu' = [cpu EXCEPT ![c] = u]  BY DEF Lookup
<1>3. /\ u.pc = IF s \in DOMAIN rate THEN "read" ELSE "insert"
      /\ u.src = s /\ u.t = clock /\ u.due = OverLimit(ideal'[s].cnt)
  OBVIOUS
<1> HIDE DEF u
<1>4. QED  BY <1>1, <1>2, <1>3 DEF TypeOK

-----------------------------------------------------------------------------
TypeInv == TypeOK /\ EntryInHand

(* The types hold at the start.                                            *)
LEMMA InitType == Init => TypeInv
BY XdpAssumption DEF Init, TypeInv, TypeOK, EntryInHand, Locals, Idle

(* Every step keeps the types, and the entries that CPUs work on.          *)
LEMMA TypeStep == TypeInv /\ [Next]_vars => TypeInv'
<1> SUFFICES ASSUME TypeOK, EntryInHand, [Next]_vars PROVE TypeOK' /\ EntryInHand'
  BY DEF TypeInv
<1> USE XdpAssumption
<1>a. /\ DOMAIN rate \subseteq Sources /\ \A x \in DOMAIN rate : rate[x] \in RateEntry
      /\ DOMAIN ideal \subseteq Sources /\ \A x \in DOMAIN ideal : ideal[x] \in RateEntry
      /\ clock \in Nat
  BY DEF TypeOK
<1>b. /\ total \in [CPUs -> Nat] /\ passed \in [CPUs -> Nat] /\ gap \in [CPUs -> Nat]
      /\ sampled \in [CPUs -> Nat] /\ dropped \in [CPUs -> Nat]
      /\ uninspected \in [CPUs -> Nat]
  BY DEF TypeOK
<1>1. CASE Tick
  BY <1>1 DEF Tick, stats, TypeOK, EntryInHand
<1>2. ASSUME NEW s \in Sources, Userspace(s) PROVE TypeOK' /\ EntryInHand'
  BY <1>2 DEF Userspace, stats, TypeOK, EntryInHand
<1>3. ASSUME NEW s \in Sources, Evict(s) PROVE TypeOK' /\ EntryInHand'
  <2>1. TypeOK'  BY <1>3 DEF Evict, stats, TypeOK
  <2>2. EntryInHand'  BY <1>3 DEF Evict, EntryInHand
  <2>3. QED  BY <2>1, <2>2
<1>4. ASSUME NEW c \in CPUs, Uninspected(c) PROVE TypeOK' /\ EntryInHand'
  BY <1>4, BumpEffect, SMTT(30) DEF Uninspected, Arrives, TypeOK, EntryInHand
<1>5. ASSUME NEW c \in CPUs, NEW s \in Sources, Drop(c, s) PROVE TypeOK' /\ EntryInHand'
  BY <1>5, BumpEffect DEF Drop, Arrives, TypeOK, EntryInHand
<1>6. ASSUME NEW c \in CPUs, NEW s \in Sources, Lookup(c, s)
      PROVE  TypeOK' /\ EntryInHand'
  <2>1. /\ DOMAIN ideal' = DOMAIN ideal \cup {s}
        /\ \A x \in DOMAIN ideal' : ideal'[x] \in RateEntry
    BY <1>6, IdealEffect
  <2>2. total' \in [CPUs -> Nat]  BY <1>6, BumpEffect DEF Lookup, Arrives, TypeOK
  <2>3. raced' \subseteq Sources  BY <1>6 DEF Lookup, TypeOK
  <2>4. cpu' \in [CPUs -> Locals]  BY <1>6, LookupEffect
  <2>5. TypeOK'
    BY <1>6, <2>1, <2>2, <2>3, <2>4 DEF Lookup, Arrives, TypeOK
  <2>6. EntryInHand'  BY <1>6, LookupEffect DEF Lookup, EntryInHand
  <2>7. QED  BY <2>5, <2>6
<1>7. ASSUME NEW c \in CPUs, Insert(c) PROVE TypeOK' /\ EntryInHand'
  <2>1. cpu[c] \in Busy  BY <1>7, LocalsType DEF Insert
  <2>2. cpu' = Goto(c, "sample", 1) /\ "sample" \in Stages  BY <1>7 DEF Insert, Stages
  <2>3. [ts |-> cpu[c].t, cnt |-> 1] \in RateEntry  BY <2>1 DEF RateEntry, Busy
  <2>4. /\ DOMAIN rate' = DOMAIN rate \cup {cpu[c].src} /\ cpu[c].src \in Sources
        /\ \A x \in DOMAIN rate' : rate'[x] \in RateEntry
    <3>1. cpu[c].src \in Sources  BY <2>1 DEF Busy
    <3>2. rate' = Set(rate, cpu[c].src, [ts |-> cpu[c].t, cnt |-> 1])
      BY <1>7 DEF Insert
    <3>3. QED  BY <2>3, <3>1, <3>2, RateEffect
  <2>5. TypeOK'  BY <1>7, <2>1, <2>2, <2>4, GotoEffect DEF Insert, stats, TypeOK
  <2>6. EntryInHand'  BY <2>1, <2>2, <2>4, GotoEffect DEF EntryInHand
  <2>7. QED  BY <2>5, <2>6
<1>8. ASSUME NEW c \in CPUs, Read(c) PROVE TypeOK' /\ EntryInHand'
  <2> DEFINE re == rate[cpu[c].src]
  <2>1. cpu[c] \in Busy /\ cpu[c].src \in Sources /\ cpu[c].src \in DOMAIN rate
    BY <1>8, LocalsType DEF Read, Busy, EntryInHand
  <2>2. re \in RateEntry  BY <2>1 DEF TypeOK
  <2>3. CASE InWindow(cpu[c].t, re.ts)
    <3>1. re.cnt + 1 \in Nat /\ "store" \in Stages  BY <2>2 DEF RateEntry, Stages
    <3>2. cpu' = Goto(c, "store", re.cnt + 1) /\ rate' = rate  BY <1>8, <2>3 DEF Read
    <3>3. TypeOK'  BY <1>8, <2>1, <3>1, <3>2, GotoEffect DEF Read, stats, TypeOK
    <3>4. EntryInHand'  BY <2>1, <3>1, <3>2, GotoEffect DEF EntryInHand
    <3>5. QED  BY <3>3, <3>4
  <2>4. CASE ~InWindow(cpu[c].t, re.ts)
    <3>1. [re EXCEPT !.ts = cpu[c].t] \in RateEntry  BY <2>1, <2>2 DEF RateEntry, Busy
    <3>2. /\ cpu' = Goto(c, "restart", 1)
          /\ rate' = Set(rate, cpu[c].src, [re EXCEPT !.ts = cpu[c].t])
          /\ "restart" \in Stages
      BY <1>8, <2>4 DEF Read, Stages
    <3>3. /\ DOMAIN rate' = DOMAIN rate \cup {cpu[c].src}
          /\ \A x \in DOMAIN rate' : rate'[x] \in RateEntry
      BY <2>1, <3>1, <3>2, RateEffect
    <3>4. TypeOK'  BY <1>8, <2>1, <3>2, <3>3, GotoEffect DEF Read, stats, TypeOK
    <3>5. EntryInHand'  BY <2>1, <3>2, <3>3, GotoEffect DEF EntryInHand
    <3>6. QED  BY <3>4, <3>5
  <2>5. QED  BY <2>3, <2>4
<1>9. ASSUME NEW c \in CPUs, Store(c) PROVE TypeOK' /\ EntryInHand'
  <2> DEFINE e  == [rate[cpu[c].src] EXCEPT !.cnt = cpu[c].cnt]
             pc == IF Gated(c) THEN "emit" ELSE "sample"
  <2>1. cpu[c] \in Busy /\ cpu[c].src \in Sources /\ cpu[c].src \in DOMAIN rate
        /\ cpu[c].cnt \in Nat
    BY <1>9, LocalsType DEF Store, Busy, EntryInHand
  <2>2. e \in RateEntry  BY <2>1 DEF TypeOK, RateEntry
  <2>3. pc \in Stages /\ pc \notin {"read", "store", "restart"}  BY DEF Stages
  <2>4. rate' = Set(rate, cpu[c].src, e) /\ cpu' = Goto(c, pc, cpu[c].cnt)
    BY <1>9 DEF Store
  <2> HIDE DEF e, pc
  <2>5. /\ DOMAIN rate' = DOMAIN rate \cup {cpu[c].src}
        /\ \A x \in DOMAIN rate' : rate'[x] \in RateEntry
    BY <2>1, <2>2, <2>4, RateEffect
  <2>6. TypeOK'
    <3>1. UNCHANGED <<clock, listed, total, passed, dropped, sampled, uninspected, gap,
                      ideal, raced>>
      BY <1>9 DEF Store, stats
    <3>2. cpu' \in [CPUs -> Locals]  BY <2>1, <2>3, <2>4, GotoEffect
    <3>3. QED  BY <2>1, <2>5, <3>1, <3>2 DEF TypeOK
  <2>7. EntryInHand'  BY <2>1, <2>3, <2>4, <2>5, GotoEffect DEF EntryInHand
  <2>8. QED  BY <2>6, <2>7
<1>10. ASSUME NEW c \in CPUs, Emit(c) PROVE TypeOK' /\ EntryInHand'
  <2>1. /\ sampled' \in [CPUs -> Nat] /\ passed' \in [CPUs -> Nat] /\ gap' \in [CPUs -> Nat]
        /\ cpu' \in [CPUs -> Locals]
    BY <1>b, <1>10, BumpEffect, IdleEffect DEF Emit
  <2>2. TypeOK'  BY <1>10, <2>1 DEF Emit, TypeOK
  <2>3. EntryInHand'  BY <1>10, IdleEffect DEF Emit, EntryInHand, Idle
  <2>4. QED  BY <2>2, <2>3
<1>11. ASSUME NEW c \in CPUs, PassSilently(c) PROVE TypeOK' /\ EntryInHand'
  <2>1. /\ passed' \in [CPUs -> Nat] /\ gap' \in [CPUs -> Nat] /\ cpu' \in [CPUs -> Locals]
    BY <1>b, <1>11, BumpEffect, IdleEffect DEF PassSilently
  <2>2. TypeOK'  BY <1>11, <2>1 DEF PassSilently, TypeOK
  <2>3. EntryInHand'  BY <1>11, IdleEffect DEF PassSilently, EntryInHand, Idle
  <2>4. QED  BY <2>2, <2>3
<1>12. CASE UNCHANGED vars
  BY <1>12 DEF vars, stats, TypeOK, EntryInHand
<1>13. QED
  BY <1>1, <1>2, <1>3, <1>4, <1>5, <1>6, <1>7, <1>8, <1>9, <1>10, <1>11, <1>12 DEF Next

-----------------------------------------------------------------------------
(* No counter counts at the start.                                         *)
LEMMA InitStats == Init => StatsBalance /\ GapIsSilent
BY XdpAssumption DEF Init, StatsBalance, InFlight, Idle, GapIsSilent

(* What the counters and the CPU in flight say of one CPU.                 *)
Balance(c) == total[c] = passed[c] + dropped[c] + uninspected[c] + InFlight(c)

(* A packet is counted in total when it arrives and once more when it is   *)
(* passed, dropped or let through.                                         *)
LEMMA BalanceStep == TypeInv /\ StatsBalance /\ [Next]_vars => StatsBalance'
<1> SUFFICES ASSUME TypeOK, EntryInHand, StatsBalance, [Next]_vars, NEW d \in CPUs
             PROVE  Balance(d)'
  BY DEF TypeInv, StatsBalance, Balance
<1>a. Balance(d)  BY DEF StatsBalance, Balance
<1>b. /\ total \in [CPUs -> Nat] /\ passed \in [CPUs -> Nat]
      /\ dropped \in [CPUs -> Nat] /\ uninspected \in [CPUs -> Nat]
  BY DEF TypeOK
<1>1. CASE UNCHANGED <<cpu, total, passed, dropped, uninspected>>
  BY <1>1, <1>a DEF Balance, InFlight
<1>2. ASSUME NEW c \in CPUs, Uninspected(c) PROVE Balance(d)'
  BY <1>2, <1>a, <1>b DEF Uninspected, Arrives, Bump, Balance, InFlight
<1>3. ASSUME NEW c \in CPUs, NEW s \in Sources, Drop(c, s) PROVE Balance(d)'
  BY <1>3, <1>a, <1>b DEF Drop, Arrives, Bump, Balance, InFlight
<1>4. ASSUME NEW c \in CPUs, NEW s \in Sources, Lookup(c, s) PROVE Balance(d)'
  <2>1. cpu'[c].pc # "idle" /\ \A x \in CPUs \ {c} : cpu'[x] = cpu[x]
    BY <1>4, LookupEffect
  <2>2. QED  BY <1>4, <1>a, <1>b, <2>1 DEF Lookup, Arrives, Bump, Balance, InFlight
<1>5. ASSUME NEW c \in CPUs, NEW pc \in Stages, NEW n \in Nat,
             cpu[c].pc # "idle", cpu' = Goto(c, pc, n),
             UNCHANGED <<total, passed, dropped, uninspected>>
      PROVE  Balance(d)'
  <2>1. cpu[c] \in Busy  BY <1>5, LocalsType
  <2>2. (cpu'[d].pc = "idle") = (cpu[d].pc = "idle")
    BY <1>5, <2>1, GotoEffect DEF Stages
  <2>3. QED  BY <1>5, <1>a, <2>2 DEF Balance, InFlight
<1>6. ASSUME NEW c \in CPUs, Insert(c) PROVE Balance(d)'
  BY <1>6, <1>5 DEF Insert, stats, Stages
<1>7. ASSUME NEW c \in CPUs, Read(c) PROVE Balance(d)'
  <2>1. cpu[c].src \in DOMAIN rate  BY <1>7 DEF Read, EntryInHand
  <2>2. rate[cpu[c].src].cnt + 1 \in Nat  BY <2>1 DEF TypeOK, RateEntry
  <2>3. QED  BY <1>7, <1>5, <2>2 DEF Read, stats, Stages
<1>8. ASSUME NEW c \in CPUs, Store(c) PROVE Balance(d)'
  <2>1. cpu[c].pc # "idle" /\ cpu[c] \in Busy  BY <1>8, LocalsType DEF Store
  <2>2. cpu[c].cnt \in Nat  BY <2>1 DEF Busy
  <2>3. QED  BY <1>8, <1>5, <2>1, <2>2 DEF Store, stats, Stages
<1>9. ASSUME NEW c \in CPUs, cpu[c].pc # "idle", cpu' = [cpu EXCEPT ![c] = Idle],
             passed' = Bump(passed, c), UNCHANGED <<total, dropped, uninspected>>
      PROVE  Balance(d)'
  <2>1. InFlight(c) = 1 /\ InFlight(c)' = 0
    BY <1>9, IdleEffect DEF InFlight, Idle
  <2>2. d # c => InFlight(d)' = InFlight(d)  BY <1>9, IdleEffect DEF InFlight
  <2>3. QED  BY <1>9, <1>a, <1>b, <2>1, <2>2, BumpEffect DEF Balance
<1>10. ASSUME NEW c \in CPUs, Emit(c) \/ PassSilently(c) PROVE Balance(d)'
  BY <1>10, <1>9 DEF Emit, PassSilently
<1>11. QED
  BY <1>1, <1>2, <1>3, <1>4, <1>6, <1>7, <1>8, <1>10
  DEF Next, vars, stats, Tick, Userspace, Evict

(* A pass is silent only when its number is no multiple of N.              *)
LEMMA GapStep == TypeInv /\ GapIsSilent /\ [Next]_vars => GapIsSilent'
<1> DEFINE G(c, p, g) ==
        /\ g <= p
        /\ SampleEveryN <= 1 => g = 0
        /\ SampleEveryN > 1 => \A j \in p - g..p - 1 : j % SampleEveryN # 0
<1> SUFFICES ASSUME TypeOK, GapIsSilent, [Next]_vars, NEW d \in CPUs
             PROVE  G(d, passed'[d], gap'[d])
  BY DEF TypeInv, GapIsSilent
<1>a. /\ passed \in [CPUs -> Nat] /\ gap \in [CPUs -> Nat] /\ SampleEveryN \in Nat
      /\ G(d, passed[d], gap[d])
  BY XdpAssumption DEF TypeOK, GapIsSilent
<1>1. CASE UNCHANGED <<passed, gap>>  BY <1>1, <1>a
<1>2. ASSUME NEW c \in CPUs, Emit(c) PROVE G(d, passed'[d], gap'[d])
  <2>1. CASE d = c
    <3>1. passed'[d] = passed[d] + 1 /\ gap'[d] = 0
      BY <1>2, <1>a, <2>1 DEF Emit, Bump
    <3>2. passed[d] \in Nat  BY <1>a
    <3>3. QED  BY <1>a, <3>1, <3>2
  <2>2. CASE d # c
    BY <1>2, <1>a, <2>2 DEF Emit, Bump
  <2>3. QED  BY <2>1, <2>2
<1>3. ASSUME NEW c \in CPUs, PassSilently(c) PROVE G(d, passed'[d], gap'[d])
  <2>1. CASE d = c
    <3>1. passed'[d] = passed[d] + 1 /\ gap'[d] = gap[d] + 1
      BY <1>3, <1>a, <2>1 DEF PassSilently, Bump
    <3>2. SampleEveryN > 1 /\ passed[d] % SampleEveryN # 0
      BY <1>3, <1>a, <2>1 DEF PassSilently, SampleHit
    <3>3. passed[d] \in Nat /\ gap[d] \in Nat  BY <1>a
    <3>4. \A j \in passed[d] - gap[d]..passed[d] : j % SampleEveryN # 0
      BY <1>a, <3>2, <3>3
    <3>5. QED  BY <1>a, <3>1, <3>2, <3>3, <3>4
  <2>2. CASE d # c
    BY <1>3, <1>a, <2>2 DEF PassSilently, Bump
  <2>3. QED  BY <2>1, <2>2
<1>4. QED
  BY <1>1, <1>2, <1>3 DEF Next, vars, stats, Tick, Userspace, Evict, Uninspected, Drop,
     Lookup, Insert, Read, Store

(* Where no multiple of N is, there are fewer than N numbers.              *)
LEMMA NoLongGap ==
    ASSUME NEW N \in Nat, N > 0, NEW p \in Nat, NEW g \in Nat, g <= p,
           \A j \in p - g..p - 1 : j % N # 0
    PROVE  g < N
<1> SUFFICES ASSUME g >= N PROVE FALSE  OBVIOUS
<1>1. PICK x \in Nat : x = p - g  OBVIOUS
<1>2. PICK j \in x..x + N - 1 : j % N = 0  BY SomeMultiple
<1>3. j \in p - g..p - 1  BY <1>1, <1>2
<1>4. QED  BY <1>2, <1>3

(* N silent passes in a row would hold a multiple of N among their numbers.*)
LEMMA SilentGap == TypeOK /\ GapIsSilent => SampleGap
<1> SUFFICES ASSUME TypeOK, GapIsSilent, NEW c \in CPUs
             PROVE  gap[c] < IF SampleEveryN = 0 THEN 1 ELSE SampleEveryN
  BY DEF SampleGap
<1>1. /\ SampleEveryN \in Nat /\ passed[c] \in Nat /\ gap[c] \in Nat /\ gap[c] <= passed[c]
      /\ SampleEveryN <= 1 => gap[c] = 0
      /\ SampleEveryN > 1 =>
            \A j \in passed[c] - gap[c]..passed[c] - 1 : j % SampleEveryN # 0
  BY XdpAssumption DEF TypeOK, GapIsSilent
<1>2. CASE SampleEveryN <= 1  BY <1>1, <1>2
<1>3. CASE SampleEveryN > 1
  <2>1. \A j \in passed[c] - gap[c]..passed[c] - 1 : j % SampleEveryN # 0
    BY <1>1, <1>3
  <2>2. gap[c] < SampleEveryN
    <3> DEFINE p == passed[c]
               g == gap[c]
    <3>1. p \in Nat /\ g \in Nat /\ g <= p  BY <1>1
    <3>2. \A j \in p - g..p - 1 : j % SampleEveryN # 0  BY <2>1
    <3> HIDE DEF p, g
    <3>3. SampleEveryN > 0 /\ SampleEveryN \in Nat  BY <1>1, <1>3
    <3>4. g < SampleEveryN  BY <3>1, <3>2, <3>3, NoLongGap, Zenon
    <3>5. QED  BY <3>4 DEF g
  <2>3. QED  BY <1>1, <1>3, <2>2
<1>4. QED  BY <1>1, <1>2, <1>3

-----------------------------------------------------------------------------
(* No packet is in hand at the start.                                      *)
LEMMA InitRace == Init => RaceInv
BY DEF Init, RaceInv, NotDue, Unraced, Alone, Settled, Gating, Idle

(* What a step says of a source whose entries and CPUs it leaves alone.    *)
LEMMA OtherSource ==
    ASSUME NEW s \in Sources, Unraced(s),
           s \in raced' <=> s \in raced,
           s \in DOMAIN rate' <=> s \in DOMAIN rate,
           s \in DOMAIN rate => rate'[s] = rate[s],
           s \in DOMAIN ideal' <=> s \in DOMAIN ideal,
           s \in DOMAIN ideal => ideal'[s] = ideal[s],
           \A d \in CPUs : Gating(d, s)' <=> Gating(d, s),
           \A d \in CPUs : Gating(d, s) => cpu'[d] = cpu[d],
           \A d \in CPUs : cpu[d].pc \in {"read", "store", "restart"} /\ cpu[d].src = s
                              => s \in DOMAIN rate
    PROVE  Unraced(s)'
<1> SUFFICES ASSUME s \notin raced
             PROVE  /\ Alone(s)' /\ Settled(s)'
                    /\ \A d \in CPUs : Gating(d, s)' => Underway(d, s)'
  BY DEF Unraced
<1>1. Alone(s)'  BY DEF Unraced, Alone
<1>2. Settled(s)'  BY DEF Unraced, Settled
<1>3. ASSUME NEW d \in CPUs, Gating(d, s)' PROVE Underway(d, s)'
  <2>1. Gating(d, s) /\ Underway(d, s) /\ cpu'[d] = cpu[d] /\ cpu[d].src = s
    BY <1>3 DEF Unraced, Gating
  <2>2. s \in DOMAIN ideal /\ ideal'[s] = ideal[s] /\ s \in DOMAIN ideal'
    BY <2>1 DEF Underway
  <2>3. cpu[d].pc \in {"read", "store", "restart"} =>
           s \in DOMAIN rate /\ s \in DOMAIN rate' /\ rate'[s] = rate[s]
    BY <2>1
  <2>4. QED  BY <2>1, <2>2, <2>3 DEF Underway, IsAfter
<1>4. QED  BY <1>1, <1>2, <1>3

(* The entry as the CPU that has the only one in hand leaves it.           *)
LEMMA EntryEqual ==
    ASSUME NEW e \in RateEntry, NEW f \in RateEntry, e.ts = f.ts, e.cnt = f.cnt
    PROVE  e = f
BY DEF RateEntry

(* A first packet is never over the limit.                                 *)
LEMMA FirstIsFree == ~OverLimit(1)
BY XdpAssumption DEF OverLimit

(* The last write of a CPU alone with the entry makes it the atomic one.   *)
LEMMA Settles ==
    ASSUME TypeInv, RaceInv, NEW c \in CPUs, NEW s \in Sources, s \notin raced,
           Gating(c, s), ~Gating(c, s)', raced' = raced, ideal' = ideal,
           s \in DOMAIN rate', rate'[s] = ideal[s],
           \A d \in CPUs \ {c} : cpu'[d] = cpu[d]
    PROVE  Unraced(s)'
<1>1. Alone(s) /\ Underway(c, s)  BY DEF RaceInv, Unraced
<1>2. \A d \in CPUs : ~Gating(d, s)'
  <2> SUFFICES ASSUME NEW d \in CPUs, Gating(d, s)' PROVE FALSE  OBVIOUS
  <2>1. d # c /\ cpu'[d] = cpu[d]  OBVIOUS
  <2>2. Gating(d, s)  BY <2>1 DEF Gating
  <2>3. QED  BY <1>1, <2>1, <2>2 DEF Alone
<1>3. s \in DOMAIN ideal'  BY <1>1 DEF Underway
<1>4. QED  BY <1>2, <1>3 DEF Unraced, Alone, Settled

(* A CPU alone with the entry goes on to its next step.                    *)
LEMMA GoesOn ==
    ASSUME TypeInv, RaceInv, NEW c \in CPUs, NEW s \in Sources, s \notin raced,
           Gating(c, s), Gating(c, s)', raced' = raced, ideal' = ideal,
           \A d \in CPUs \ {c} : cpu'[d] = cpu[d], Underway(c, s)'
    PROVE  Unraced(s)'
<1>1. Alone(s)  BY DEF RaceInv, Unraced
<1>2. \A d \in CPUs : Gating(d, s)' => d = c
  <2> SUFFICES ASSUME NEW d \in CPUs, Gating(d, s)', d # c PROVE FALSE  OBVIOUS
  <2>1. cpu'[d] = cpu[d]  OBVIOUS
  <2>2. Gating(d, s)  BY <2>1 DEF Gating
  <2>3. QED  BY <1>1, <2>2 DEF Alone
<1>3. QED  BY <1>2 DEF Unraced, Alone, Settled

(* The gate keeps what is said of every source.                            *)
LEMMA GateStep ==
    TypeInv /\ RaceInv /\ [Next]_vars => \A s \in Sources : Unraced(s)'
<1> SUFFICES ASSUME TypeInv, RaceInv, [Next]_vars, NEW x \in Sources
             PROVE  Unraced(x)'
  OBVIOUS
<1>a. TypeOK /\ EntryInHand /\ Unraced(x)  BY DEF TypeInv, RaceInv
<1>b. \A d \in CPUs : cpu[d].pc \in {"read", "store", "restart"} /\ cpu[d].src = x
                         => x \in DOMAIN rate
  BY <1>a DEF EntryInHand
<1>1. CASE UNCHANGED <<cpu, rate, ideal, raced>>
  BY <1>1, <1>a, <1>b, OtherSource DEF Gating
<1>2. ASSUME NEW s \in Sources, Evict(s) PROVE Unraced(x)'
  <2>1. CASE x = s
    <3>1. x \notin DOMAIN rate' /\ x \notin DOMAIN ideal' /\ \A d \in CPUs : ~Gating(d, x)'
      BY <1>2, <2>1 DEF Evict, Gating
    <3>2. QED  BY <3>1 DEF Unraced, Alone, Settled
  <2>2. CASE x # s
    BY <1>2, <1>a, <1>b, <2>2, OtherSource DEF Evict, Gating
  <2>3. QED  BY <2>1, <2>2
<1>3. ASSUME NEW c \in CPUs, NEW s \in Sources, Lookup(c, s) PROVE Unraced(x)'
  <2>1. ~Gating(c, x) /\ \A d \in CPUs \ {c} : cpu'[d] = cpu[d]
    BY <1>3, <1>a, LookupEffect DEF Lookup, Arrives, Gating
  <2>2. /\ cpu'[c].pc = IF s \in DOMAIN rate THEN "read" ELSE "insert"
        /\ cpu'[c].src = s /\ cpu'[c].t = clock
        /\ cpu'[c].due = OverLimit(ideal'[s].cnt)
    BY <1>3, <1>a, LookupEffect
  <2>3. /\ DOMAIN ideal' = DOMAIN ideal \cup {s}
        /\ s \in DOMAIN ideal => IsAfter(ideal'[s], ideal[s], clock)
        /\ s \notin DOMAIN ideal => ideal'[s] = [ts |-> clock, cnt |-> 1]
        /\ \A y \in DOMAIN ideal : y # s => ideal'[y] = ideal[y]
    BY <1>3, <1>a, IdealEffect
  <2>4. rate' = rate  BY <1>3 DEF Lookup
  <2>5. CASE x # s
    <3>1. x \in raced' <=> x \in raced  BY <1>3, <2>5 DEF Lookup
    <3>2. \A d \in CPUs : Gating(d, x)' <=> Gating(d, x)
      BY <2>1, <2>2, <2>5 DEF Gating
    <3>3. x \in DOMAIN ideal' <=> x \in DOMAIN ideal  BY <2>3, <2>5
    <3>4. x \in DOMAIN ideal => ideal'[x] = ideal[x]  BY <2>3, <2>5
    <3>5. QED  BY <1>a, <1>b, <2>1, <2>4, <3>1, <3>2, <3>3, <3>4, OtherSource
  <2>6. CASE x = s
    <3> SUFFICES ASSUME x \notin raced' PROVE Unraced(x)'  BY DEF Unraced
    <3>1. x \notin raced /\ \A d \in CPUs : ~Gating(d, x)
      BY <1>3, <2>6 DEF Lookup
    <3>2. \A d \in CPUs : Gating(d, x)' => d = c
      BY <2>1, <3>1 DEF Gating
    <3>3. Gating(c, x)'  BY <2>2, <2>6 DEF Gating
    <3>4. /\ x \in DOMAIN rate <=> x \in DOMAIN ideal
          /\ x \in DOMAIN rate => rate[x] = ideal[x]
      BY <1>a, <3>1 DEF Unraced, Settled
    <3>5. Underway(c, x)'  BY <2>2, <2>3, <2>4, <2>6, <3>4 DEF Underway
    <3>6. QED  BY <3>2, <3>3, <3>5 DEF Unraced, Alone, Settled
  <2>7. QED  BY <2>5, <2>6
<1>4. ASSUME NEW c \in CPUs, cpu[c].src # x, cpu'[c].src # x,
             UNCHANGED <<ideal, raced>>, \A d \in CPUs \ {c} : cpu'[d] = cpu[d],
             x \in DOMAIN rate' <=> x \in DOMAIN rate,
             x \in DOMAIN rate => rate'[x] = rate[x]
      PROVE  Unraced(x)'
  <2>1. ~Gating(c, x) /\ ~Gating(c, x)'  BY <1>4 DEF Gating
  <2>2. QED  BY <1>4, <1>a, <1>b, <2>1, OtherSource DEF Gating
<1>5. ASSUME x \in raced, raced' = raced PROVE Unraced(x)'
  BY <1>5 DEF Unraced
<1>6. ASSUME NEW c \in CPUs, Insert(c) PROVE Unraced(x)'
  <2> DEFINE e == [ts |-> cpu[c].t, cnt |-> 1]
             s == cpu[c].src
  <2>1. cpu[c] \in Busy /\ s \in Sources  BY <1>6, <1>a, LocalsType DEF Insert, Busy
  <2>2. e \in RateEntry  BY <2>1 DEF RateEntry, Busy
  <2>3. /\ s \in DOMAIN rate' /\ rate'[s] = e
        /\ x # s => (x \in DOMAIN rate' <=> x \in DOMAIN rate)
        /\ x # s => (x \in DOMAIN rate => rate'[x] = rate[x])
    <3>1. rate' = Set(rate, s, e)  BY <1>6 DEF Insert
    <3> HIDE DEF e, s
    <3>2. QED  BY <1>a, <2>1, <2>2, <3>1, RateEffect
  <2>4. /\ cpu'[c].pc = "sample" /\ cpu'[c].src = s
        /\ \A d \in CPUs \ {c} : cpu'[d] = cpu[d]
    BY <1>6, <1>a, <2>1, GotoEffect DEF Insert, Stages
  <2>5. UNCHANGED <<ideal, raced>>  BY <1>6 DEF Insert
  <2>6. CASE x # s
    BY <1>4, <2>3, <2>4, <2>5, <2>6
  <2>7. CASE x = s /\ x \notin raced
    <3>1. Gating(c, x) /\ ~Gating(c, x)'  BY <1>6, <2>4, <2>7 DEF Insert, Gating
    <3>2. ideal[x] = e  BY <1>6, <1>a, <2>7, <3>1 DEF Unraced, Underway, Insert
    <3> HIDE DEF e, s
    <3>3. QED  BY <2>3, <2>4, <2>5, <2>7, <3>1, <3>2, Settles
  <2>8. QED  BY <1>5, <2>5, <2>6, <2>7
<1>7. ASSUME NEW c \in CPUs, Read(c) PROVE Unraced(x)'
  <2> DEFINE s  == cpu[c].src
             re == rate[s]
  <2>1. cpu[c] \in Busy /\ s \in Sources /\ s \in DOMAIN rate /\ cpu[c].t \in Nat
    BY <1>7, <1>a, LocalsType, XdpAssumption DEF Read, Busy, EntryInHand
  <2>2. re \in RateEntry /\ re.cnt + 1 \in Nat  BY <1>a, <2>1 DEF TypeOK, RateEntry
  <2>3. UNCHANGED <<ideal, raced>>  BY <1>7 DEF Read
  <2>4. x = s /\ x \notin raced =>
           /\ Gating(c, x) /\ s \in DOMAIN ideal
           /\ cpu[c].due = OverLimit(ideal[s].cnt)
           /\ IsAfter(ideal[s], re, cpu[c].t)
    BY <1>7, <1>a DEF Read, Gating, Unraced, Underway
  <2>5. CASE InWindow(cpu[c].t, re.ts)
    <3>1. cpu' = Goto(c, "store", re.cnt + 1) /\ rate' = rate  BY <1>7, <2>5 DEF Read
    <3>2. /\ cpu'[c].pc = "store" /\ cpu'[c].src = s /\ cpu'[c].cnt = re.cnt + 1
          /\ cpu'[c].due = cpu[c].due
          /\ \A d \in CPUs \ {c} : cpu'[d] = cpu[d]
      BY <1>a, <2>1, <2>2, <3>1, GotoEffect DEF Stages
    <3>3. CASE x # s  BY <1>4, <2>3, <3>1, <3>2, <3>3
    <3>4. CASE x = s /\ x \notin raced
      <4>1. Gating(c, x)'  BY <3>2, <3>4 DEF Gating
      <4>2. Underway(c, x)'
        BY <2>3, <2>4, <2>5, <3>1, <3>2, <3>4 DEF Underway, IsAfter
      <4> HIDE DEF s, re
      <4>3. QED  BY <2>3, <2>4, <3>2, <3>4, <4>1, <4>2, GoesOn
    <3>5. QED  BY <1>5, <2>3, <3>3, <3>4
  <2>6. CASE ~InWindow(cpu[c].t, re.ts)
    <3> DEFINE e == [re EXCEPT !.ts = cpu[c].t]
    <3>1. cpu' = Goto(c, "restart", 1) /\ rate' = Set(rate, s, e)
      BY <1>7, <2>6 DEF Read
    <3>2. /\ cpu'[c].pc = "restart" /\ cpu'[c].src = s /\ cpu'[c].cnt = 1
          /\ cpu'[c].due = cpu[c].due
          /\ \A d \in CPUs \ {c} : cpu'[d] = cpu[d]
      BY <1>a, <2>1, <3>1, GotoEffect DEF Stages
    <3>3. e \in RateEntry /\ e.ts = cpu[c].t  BY <2>1, <2>2 DEF RateEntry
    <3>4. /\ s \in DOMAIN rate' /\ rate'[s] = e
          /\ x # s => (x \in DOMAIN rate' <=> x \in DOMAIN rate)
          /\ x # s => (x \in DOMAIN rate => rate'[x] = rate[x])
      <4> HIDE DEF e, s
      <4>1. QED  BY <1>a, <2>1, <3>1, <3>3, RateEffect
    <3>5. CASE x # s  BY <1>4, <2>3, <3>2, <3>4, <3>5
    <3>6. CASE x = s /\ x \notin raced
      <4>1. Gating(c, x)'  BY <3>2, <3>6 DEF Gating
      <4>2. ideal[s].ts = cpu[c].t /\ ideal[s].cnt = 1
        BY <2>4, <2>6, <3>6 DEF IsAfter
      <4> HIDE DEF e
      <4>3. Underway(c, x)'
        BY <2>3, <2>4, <3>2, <3>3, <3>4, <3>6, <4>2 DEF Underway
      <4> HIDE DEF s, re
      <4>4. QED  BY <2>3, <2>4, <3>2, <3>6, <4>1, <4>3, GoesOn
    <3>7. QED  BY <1>5, <2>3, <3>5, <3>6
  <2>7. QED  BY <2>5, <2>6
<1>8. ASSUME NEW c \in CPUs, Store(c) PROVE Unraced(x)'
  <2> DEFINE s  == cpu[c].src
             e  == [rate[s] EXCEPT !.cnt = cpu[c].cnt]
             pc == IF Gated(c) THEN "emit" ELSE "sample"
  <2>1. cpu[c] \in Busy /\ s \in Sources /\ s \in DOMAIN rate /\ cpu[c].cnt \in Nat
    BY <1>8, <1>a, LocalsType DEF Store, Busy, EntryInHand
  <2>2. e \in RateEntry /\ e.ts = rate[s].ts /\ e.cnt = cpu[c].cnt
    BY <1>a, <2>1 DEF TypeOK, RateEntry
  <2>3. pc \in Stages /\ pc \notin {"insert", "read", "store", "restart"}  BY DEF Stages
  <2>4. /\ rate' = Set(rate, s, e) /\ cpu' = Goto(c, pc, cpu[c].cnt)
        /\ UNCHANGED <<ideal, raced>>
    BY <1>8 DEF Store
  <2>5. x = s /\ x \notin raced =>
           /\ Gating(c, x) /\ s \in DOMAIN ideal
           /\ ideal[s].ts = rate[s].ts /\ ideal[s].cnt = cpu[c].cnt
    BY <1>8, <1>a DEF Store, Gating, Unraced, Underway
  <2>6. s \in DOMAIN ideal => ideal[s] \in RateEntry  BY <1>a DEF TypeOK
  <2> HIDE DEF s, e, pc
  <2>7. /\ s \in DOMAIN rate' /\ rate'[s] = e
        /\ x # s => (x \in DOMAIN rate' <=> x \in DOMAIN rate)
        /\ x # s => (x \in DOMAIN rate => rate'[x] = rate[x])
    BY <1>a, <2>1, <2>2, <2>4, RateEffect
  <2>8. /\ cpu'[c].pc = pc /\ cpu'[c].src = s
        /\ \A d \in CPUs \ {c} : cpu'[d] = cpu[d]
    BY <1>a, <2>1, <2>3, <2>4, GotoEffect DEF s
  <2>9. CASE x # s
    BY <1>4, <2>4, <2>7, <2>8, <2>9 DEF s
  <2>10. CASE x = s /\ x \notin raced
    <3>1. ~Gating(c, x)'  BY <2>3, <2>8 DEF Gating
    <3>2. rate'[s] = ideal[s]  BY <2>2, <2>5, <2>6, <2>7, <2>10, EntryEqual
    <3>3. QED  BY <2>4, <2>5, <2>7, <2>8, <2>10, <3>1, <3>2, Settles
  <2>11. QED  BY <1>5, <2>4, <2>9, <2>10
<1>9. ASSUME NEW c \in CPUs, Emit(c) \/ PassSilently(c) PROVE Unraced(x)'
  <2>1. ~Gating(c, x) /\ UNCHANGED <<rate, ideal, raced>> /\ cpu' = [cpu EXCEPT ![c] = Idle]
    BY <1>9 DEF Emit, PassSilently, Gating
  <2>2. ~Gating(c, x)' /\ \A d \in CPUs \ {c} : cpu'[d] = cpu[d]
    BY <1>a, <2>1, IdleEffect DEF Idle, Gating
  <2>3. QED  BY <1>a, <1>b, <2>1, <2>2, OtherSource DEF Gating
<1>10. QED
  BY <1>1, <1>2, <1>3, <1>6, <1>7, <1>8, <1>9
  DEF Next, vars, stats, Tick, Userspace, Uninspected, Drop

(* A CPU in the sampler has only a packet within the limit in hand.        *)
LEMMA NotDueStep == TypeInv /\ RaceInv /\ [Next]_vars => NotDue'
<1> SUFFICES ASSUME TypeInv, RaceInv, [Next]_vars, NEW d \in CPUs,
                    cpu'[d].pc = "sample", cpu'[d].src \notin raced'
             PROVE  ~cpu'[d].due
  BY DEF NotDue
<1>a. TypeOK /\ EntryInHand /\ NotDue  BY DEF TypeInv, RaceInv
<1>1. CASE cpu'[d] = cpu[d] /\ (cpu[d].src \in raced => cpu[d].src \in raced')
  BY <1>1, <1>a DEF NotDue
<1>2. ASSUME NEW s \in Sources, Evict(s) PROVE ~cpu'[d].due
  <2>1. cpu'[d] = cpu[d] /\ cpu[d].src # s  BY <1>2 DEF Evict
  <2>2. QED  BY <1>1, <1>2, <2>1 DEF Evict
<1>3. ASSUME NEW c \in CPUs, NEW s \in Sources, Lookup(c, s) PROVE ~cpu'[d].due
  <2>1. cpu'[c].pc # "sample" /\ \A x \in CPUs \ {c} : cpu'[x] = cpu[x]
    BY <1>3, <1>a, LookupEffect
  <2>2. raced \subseteq raced'  BY <1>3 DEF Lookup
  <2>3. QED  BY <1>1, <2>1, <2>2
<1>4. ASSUME NEW c \in CPUs, Insert(c) PROVE ~cpu'[d].due
  <2>1. cpu[c] \in Busy /\ raced' = raced  BY <1>4, <1>a, LocalsType DEF Insert
  <2>2. /\ cpu'[c].src = cpu[c].src /\ cpu'[c].due = cpu[c].due
        /\ \A x \in CPUs \ {c} : cpu'[x] = cpu[x]
    BY <1>4, <1>a, <2>1, GotoEffect DEF Insert, Stages
  <2>3. CASE d = c
    <3>1. Gating(c, cpu[c].src) /\ Unraced(cpu[c].src) /\ cpu[c].src \notin raced
      BY <1>4, <2>1, <2>2, <2>3 DEF Insert, Gating, RaceInv, Busy
    <3>2. Underway(c, cpu[c].src)  BY <3>1 DEF Unraced
    <3>3. cpu[c].due = OverLimit(1)  BY <1>4, <3>2 DEF Insert, Underway
    <3>4. QED  BY <2>2, <2>3, <3>3, FirstIsFree
  <2>4. QED  BY <1>1, <2>1, <2>2, <2>3
<1>5. ASSUME NEW c \in CPUs, Read(c) PROVE ~cpu'[d].due
  <2>1. cpu[c] \in Busy /\ raced' = raced  BY <1>5, <1>a, LocalsType DEF Read
  <2>2. rate[cpu[c].src].cnt + 1 \in Nat
    BY <1>5, <1>a DEF Read, EntryInHand, TypeOK, RateEntry
  <2>3. cpu'[c].pc # "sample" /\ \A x \in CPUs \ {c} : cpu'[x] = cpu[x]
    BY <1>5, <1>a, <2>1, <2>2, GotoEffect DEF Read, Stages
  <2>4. QED  BY <1>1, <2>1, <2>3
<1>6. ASSUME NEW c \in CPUs, Store(c) PROVE ~cpu'[d].due
  <2> DEFINE pc == IF Gated(c) THEN "emit" ELSE "sample"
  <2>1. cpu[c] \in Busy /\ cpu[c].cnt \in Nat /\ raced' = raced
    BY <1>6, <1>a, LocalsType DEF Store, Busy
  <2>2. cpu' = Goto(c, pc, cpu[c].cnt) /\ pc \in Stages  BY <1>6 DEF Store, Stages
  <2>3. pc = "sample" => ~Gated(c)  OBVIOUS
  <2> HIDE DEF pc
  <2>4. /\ cpu'[c].pc = pc /\ cpu'[c].src = cpu[c].src /\ cpu'[c].due = cpu[c].due
        /\ \A x \in CPUs \ {c} : cpu'[x] = cpu[x]
    BY <1>a, <2>1, <2>2, GotoEffect
  <2>5. CASE d = c
    <3>1. Gating(c, cpu[c].src) /\ Unraced(cpu[c].src) /\ cpu[c].src \notin raced
      BY <1>6, <2>1, <2>4, <2>5 DEF Store, Gating, RaceInv, Busy
    <3>2. Underway(c, cpu[c].src)  BY <3>1 DEF Unraced
    <3>3. cpu[c].due = OverLimit(cpu[c].cnt)  BY <1>6, <3>2 DEF Store, Underway
    <3>4. ~OverLimit(cpu[c].cnt)
      BY <1>6, <2>3, <2>4, <2>5, <3>2, FirstIsFree DEF Store, Gated, Underway
    <3>5. QED  BY <2>4, <2>5, <3>3, <3>4
  <2>6. QED  BY <1>1, <2>1, <2>4, <2>5
<1>7. ASSUME NEW c \in CPUs, Emit(c) \/ PassSilently(c) PROVE ~cpu'[d].due
  <2>1. cpu' = [cpu EXCEPT ![c] = Idle] /\ raced' = raced
    BY <1>7 DEF Emit, PassSilently
  <2>2. cpu'[c].pc # "sample" /\ \A x \in CPUs \ {c} : cpu'[x] = cpu[x]
    BY <1>a, <2>1, IdleEffect DEF Idle
  <2>3. QED  BY <1>1, <2>1, <2>2
<1>8. QED
  BY <1>1, <1>2, <1>3, <1>4, <1>5, <1>6, <1>7
  DEF Next, vars, stats, Tick, Userspace, Uninspected, Drop

-----------------------------------------------------------------------------
(* The invariant holds at the start and is kept by every step.             *)
LEMMA Invariance == Spec => []IInv
<1>1. Init => IInv
  BY InitType, InitStats, InitRace DEF IInv, TypeInv
<1>2. IInv /\ [Next]_vars => IInv'
  BY TypeStep, BalanceStep, GapStep, GateStep, NotDueStep DEF IInv, TypeInv, RaceInv
<1>3. QED  BY <1>1, <1>2, PTL DEF Spec

(* The counters, entries and packets in hand have their types, and an      *)
(* entry a CPU has looked up is there until it has written it.             *)
THEOREM XdpTypes == Spec => [](TypeOK /\ EntryInHand)
<1>1. IInv => TypeOK /\ EntryInHand  BY DEF IInv
<1>2. QED  BY <1>1, Invariance, PTL

(* No packet is lost between the counters of a CPU: whatever blocks,       *)
(* unblocks and evictions happen meanwhile, total is the sum of passed,    *)
(* dropped and uninspected but for the packet in its hands.                *)
THEOREM NoPacketIsLost == Spec => []StatsBalance
<1>1. IInv => StatsBalance  BY DEF IInv
<1>2. QED  BY <1>1, Invariance, PTL

(* Whatever sample_every_n is, and whatever the gate emits in between, a   *)
(* CPU never passes sample_every_n packets in a row silently.              *)
THEOREM SamplingIsRegular == Spec => []SampleGap
<1>1. IInv => SampleGap  BY SilentGap DEF IInv
<1>2. QED  BY <1>1, Invariance, PTL

(* A packet over coarse_pps_limit reaches userspace, for every limit and   *)
(* number of CPUs, unless two CPUs had its source's entry in hand at once. *)
THEOREM UnracedLimitHolds == Spec => UnracedIsStreamed
<1>1. IInv /\ [Next]_vars =>
         [\A c \in CPUs : PassSilently(c) /\ cpu[c].due => cpu[c].src \in raced]_vars
  BY DEF IInv, RaceInv, NotDue, PassSilently
<1>2. QED  BY <1>1, Invariance, PTL DEF Spec, UnracedIsStreamed
=============================================================================
