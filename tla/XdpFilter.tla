----------------------------- MODULE XdpFilter -----------------------------
(***************************************************************************)
(* bpf/xdp_drop.c: one packet per CPU at a time.  Counters are per CPU;    *)
(* the blocklist and the rate maps are shared, and the rate entry is read  *)
(* and written without any atomicity.  The IPv4 and the IPv6 path are the  *)
(* same program on different maps, so a source here stands for a family    *)
(* and an address.  Frames that XDP passes before it counts them (no       *)
(* Ethernet header, or the kill switch) change nothing and are left out.   *)
(***************************************************************************)
EXTENDS Integers

CONSTANTS
    CPUs,
    Sources,        \* source addresses, each of one family
    Window,         \* the gate's window: 1000000000 ns
    CoarseLimit,    \* config_map.coarse_pps_limit
    SampleEveryN,   \* config_map.sample_every_n
    MaxPackets,     \* bound of the model: packets per CPU
    MaxTime         \* bound of the model: the clock stops here

ASSUME XdpAssumption ==
    /\ Window \in Nat \ {0} /\ CoarseLimit \in Nat /\ SampleEveryN \in Nat
    /\ MaxPackets \in Nat /\ MaxTime \in Nat

VARIABLES
    clock,      \* bpf_ktime_get_ns()
    listed,     \* sources in blocklist_map or blocklist_v6_map
    rate,       \* rate_map and rate_v6_map: source -> [ts, cnt]
    cpu,        \* the packet each CPU is working on and the program's locals; the
                \* field due is history: atomic counting would put it over the limit
    total, passed, dropped, sampled,    \* stats_map, per CPU
    uninspected,    \* history: packets only counted in total, per CPU
    gap,            \* history: packets passed since the last one emitted, per CPU
    ideal,          \* history: what rate would hold if it were updated atomically
    raced           \* history: sources whose entry two CPUs had in hand at once

stats == <<total, passed, dropped, sampled>>
vars  == <<clock, listed, rate, cpu, stats, uninspected, gap, ideal, raced>>

-----------------------------------------------------------------------------
Idle == [pc |-> "idle"]
RateEntry == [ts : Nat, cnt : Nat]

Bump(counter, c) == [counter EXCEPT ![c] = @ + 1]
Set(f, s, e)     == [x \in DOMAIN f \cup {s} |-> IF x = s THEN e ELSE f[x]]

(* now - last_ts_ns < 1000000000 on unsigned 64-bit values: an entry       *)
(* stamped after this packet's clock reading wraps to a large difference.  *)
InWindow(t, ts) == ts <= t /\ t - ts < Window

OverLimit(n) == CoarseLimit > 0 /\ n > CoarseLimit

(* The rate entry after one more packet at t, were the update atomic.      *)
Counted(f, s, t) ==
    Set(f, s, IF s \in DOMAIN f /\ InWindow(t, f[s].ts)
                THEN [f[s] EXCEPT !.cnt = @ + 1]
                ELSE [ts |-> t, cnt |-> 1])

Init ==
    /\ clock = 0
    /\ listed = {}
    /\ rate = [s \in {} |-> 0]
    /\ cpu = [c \in CPUs |-> Idle]
    /\ total = [c \in CPUs |-> 0] /\ passed = total /\ dropped = total /\ sampled = total
    /\ uninspected = total /\ gap = total
    /\ ideal = rate
    /\ raced = {}

-----------------------------------------------------------------------------
Arrives(c) ==
    /\ cpu[c].pc = "idle"
    /\ total[c] < MaxPackets
    /\ total' = Bump(total, c)
    /\ UNCHANGED <<clock, listed, sampled>>

(* Neither IPv4 nor IPv6, or too short for the IP header.                  *)
Uninspected(c) ==
    /\ Arrives(c)
    /\ uninspected' = Bump(uninspected, c)
    /\ UNCHANGED <<rate, cpu, passed, dropped, gap, ideal, raced>>

Drop_Bug(c, s) ==        \* a dropped packet is not counted
    /\ Arrives(c)
    /\ s \in listed
    /\ UNCHANGED <<rate, cpu, passed, dropped, uninspected, gap, ideal, raced>>

Drop(c, s) ==
    /\ Arrives(c)
    /\ s \in listed
    /\ dropped' = Bump(dropped, c)
    /\ UNCHANGED <<rate, cpu, passed, uninspected, gap, ideal, raced>>

(* A CPU is between its lookup of the entry and its last write to it.      *)
Gating(c, s) == cpu[c].pc \in {"insert", "read", "store", "restart"} /\ cpu[c].src = s

(* Not on the blocklist: the rate entry is looked up, the clock is read.   *)
Lookup(c, s) ==
    /\ Arrives(c)
    /\ s \notin listed
    /\ ideal' = Counted(ideal, s, clock)
    /\ raced' = IF \E d \in CPUs : Gating(d, s) THEN raced \cup {s} ELSE raced
    /\ cpu' = [cpu EXCEPT ![c] =
                 [pc |-> IF s \in DOMAIN rate THEN "read" ELSE "insert",
                  src |-> s, t |-> clock, cnt |-> 0, due |-> OverLimit(ideal'[s].cnt)]]
    /\ UNCHANGED <<rate, passed, dropped, uninspected, gap>>

Goto(c, pc, cnt) == [cpu EXCEPT ![c] = [@ EXCEPT !.pc = pc, !.cnt = cnt]]

(* No entry was found: BPF_ANY overwrites one another CPU has made since.  *)
Insert(c) ==
    /\ cpu[c].pc = "insert"
    /\ rate' = Set(rate, cpu[c].src, [ts |-> cpu[c].t, cnt |-> 1])
    /\ cpu' = Goto(c, "sample", 1)
    /\ UNCHANGED <<clock, listed, stats, uninspected, gap, ideal, raced>>

(* The entry's time decides; pkt_count++ is a load here and a store below. *)
Read(c) ==
    LET re == rate[cpu[c].src] IN
    /\ cpu[c].pc = "read"
    /\ IF InWindow(cpu[c].t, re.ts)
         THEN /\ cpu' = Goto(c, "store", re.cnt + 1)
              /\ UNCHANGED rate
         ELSE /\ rate' = Set(rate, cpu[c].src, [re EXCEPT !.ts = cpu[c].t])
              /\ cpu' = Goto(c, "restart", 1)
    /\ UNCHANGED <<clock, listed, stats, uninspected, gap, ideal, raced>>

Gated_Bug(c) == cpu[c].pc = "store" /\ OverLimit(cpu[c].cnt - 1)
Gated(c)     == cpu[c].pc = "store" /\ OverLimit(cpu[c].cnt)

Store(c) ==
    /\ cpu[c].pc \in {"store", "restart"}
    /\ rate' = Set(rate, cpu[c].src, [rate[cpu[c].src] EXCEPT !.cnt = cpu[c].cnt])
    /\ cpu' = Goto(c, IF Gated(c) THEN "emit" ELSE "sample", cpu[c].cnt)
    /\ UNCHANGED <<clock, listed, stats, uninspected, gap, ideal, raced>>

SampleHit_Bug(c) == SampleEveryN <= 1 \/ sampled[c] % SampleEveryN = 0
SampleHit(c)     == SampleEveryN <= 1 \/ passed[c] % SampleEveryN = 0

(* Sampled, or over the limit: an event goes to userspace.                 *)
Emit(c) ==
    /\ cpu[c].pc = "emit" \/ (cpu[c].pc = "sample" /\ SampleHit(c))
    /\ sampled' = Bump(sampled, c)
    /\ passed' = Bump(passed, c)
    /\ gap' = [gap EXCEPT ![c] = 0]
    /\ cpu' = [cpu EXCEPT ![c] = Idle]
    /\ UNCHANGED <<clock, listed, rate, total, dropped, uninspected, ideal, raced>>

PassSilently(c) ==
    /\ cpu[c].pc = "sample" /\ ~SampleHit(c)
    /\ passed' = Bump(passed, c)
    /\ gap' = Bump(gap, c)
    /\ cpu' = [cpu EXCEPT ![c] = Idle]
    /\ UNCHANGED <<clock, listed, rate, total, dropped, sampled, uninspected, ideal, raced>>

-----------------------------------------------------------------------------
Tick ==
    /\ clock < MaxTime
    /\ clock' = clock + 1
    /\ UNCHANGED <<listed, rate, cpu, stats, uninspected, gap, ideal, raced>>

(* The agent blocks or unblocks a source (Blocker).                        *)
Userspace(s) ==
    /\ listed' = IF s \in listed THEN listed \ {s} ELSE listed \cup {s}
    /\ UNCHANGED <<clock, rate, cpu, stats, uninspected, gap, ideal, raced>>

(* The maps are LRU: an entry no CPU is working on may go at any time.     *)
Evict(s) ==
    /\ s \in DOMAIN rate
    /\ \A c \in CPUs : cpu[c].pc # "idle" => cpu[c].src # s
    /\ rate' = [x \in DOMAIN rate \ {s} |-> rate[x]]
    /\ ideal' = [x \in DOMAIN ideal \ {s} |-> ideal[x]]
    /\ raced' = raced \ {s}
    /\ UNCHANGED <<clock, listed, cpu, stats, uninspected, gap>>

Next ==
    \/ Tick
    \/ \E s \in Sources : Userspace(s) \/ Evict(s)
    \/ \E c \in CPUs :
         \/ Uninspected(c)
         \/ \E s \in Sources : Drop(c, s) \/ Lookup(c, s)
         \/ Insert(c) \/ Read(c) \/ Store(c)
         \/ Emit(c) \/ PassSilently(c)

Spec == Init /\ [][Next]_vars

(* XDP runs to completion: a CPU finishes the packet it has in hand.       *)
Finish(c) == Insert(c) \/ Read(c) \/ Store(c) \/ Emit(c) \/ PassSilently(c)
FairSpec  == Spec /\ \A c \in CPUs : WF_vars(Finish(c))

-----------------------------------------------------------------------------
Locals == {Idle} \cup
    [pc : {"insert", "read", "store", "restart", "sample", "emit"},
     src : Sources, t : 0..MaxTime, cnt : Nat, due : BOOLEAN]

TypeOK ==
    /\ clock \in 0..MaxTime
    /\ listed \subseteq Sources /\ raced \subseteq Sources
    /\ DOMAIN rate \subseteq Sources /\ \A s \in DOMAIN rate : rate[s] \in RateEntry
    /\ DOMAIN ideal \subseteq Sources /\ \A s \in DOMAIN ideal : ideal[s] \in RateEntry
    /\ cpu \in [CPUs -> Locals]
    /\ \A f \in {total, passed, dropped, sampled, uninspected, gap} : f \in [CPUs -> Nat]

InFlight(c) == IF cpu[c].pc = "idle" THEN 0 ELSE 1

(* No packet is lost between the counters: what a CPU has counted in total *)
(* it has passed, dropped or let through uninspected, but for the packet   *)
(* in its hands.                                                           *)
StatsBalance ==
    \A c \in CPUs :
        total[c] = passed[c] + dropped[c] + uninspected[c] + InFlight(c)

(* sample_every_n: on a CPU, of any N packets passed in a row at least one *)
(* goes to userspace, whatever the gate emits in between.                  *)
SampleGap ==
    \A c \in CPUs : gap[c] < (IF SampleEveryN = 0 THEN 1 ELSE SampleEveryN)

(* Packets beyond coarse_pps_limit bypass sampling, also while addresses   *)
(* are blocked, windows restart and entries are evicted, as long as no two *)
(* CPUs were in the gate for the source at once since its entry was made.  *)
UnracedIsStreamed ==
    [][\A c \in CPUs : PassSilently(c) /\ cpu[c].due => cpu[c].src \in raced]_vars

(* The same without the reserve, as config.example.yaml:25-26 says it.     *)
OverLimitIsStreamed ==
    [][\A c \in CPUs : PassSilently(c) => ~cpu[c].due]_vars
=============================================================================
