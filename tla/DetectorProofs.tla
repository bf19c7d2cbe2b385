--------------------------- MODULE DetectorProofs ---------------------------
(***************************************************************************)
(* The detectors of internal/analyzer and the goroutine that asks them.    *)
(* The rate limiter answers what a sliding window would; the port-scan     *)
(* detector reports scans, and all that the entries it keeps can show; the *)
(* analyzer's marks and its decisions agree: for all addresses, ports,     *)
(* windows, limits, lifetimes and capacities.                              *)
(***************************************************************************)
EXTENDS RateLimiter, PortScan, Analyzer, SumTheorems, FiniteSetTheorems, TLAPS

-----------------------------------------------------------------------------
(*                             The rate limiter                            *)

Slots == 0..MaxSlot
Ring  == 0..WindowSize - 1

(* The seconds that bucket i counts when the newest is last: those of the  *)
(* window that share the bucket, and the later ones that come round to it. *)
Of(i, last) == {s \in Slots : s > last - WindowSize /\ Index(s) = i}
Counted(f, i, last) == SumFunctionOnSet(f, Of(i, last))

(* A bucket never holds more than was stamped in its seconds, and exactly  *)
(* that as long as the address's events come in order.                     *)
BucketsCount ==
    \A ip \in Ips, i \in Ring :
        LET e == EntryOf(ip)
            n == Counted(seen[ip], i, e.lastSlot)
        IN  e.buckets[i] <= n /\ (ip \notin late => e.buckets[i] = n)

(* lastSlot is a second of which there is an event, the newest unless one  *)
(* came late; none is newer than newest.                                   *)
LastIsNewest ==
    \A ip \in Ips :
        /\ EntryOf(ip).lastSlot > 0 => seen[ip][EntryOf(ip).lastSlot] > 0
        /\ ip \notin late => \A s \in Slots : s > EntryOf(ip).lastSlot => seen[ip][s] = 0
        /\ \A s \in Slots : s > newest => seen[ip][s] = 0

(* The last answer is what the entry still says.                           *)
VerdictStands ==
    Answered => /\ verdict.slot = EntryOf(verdict.ip).lastSlot
                /\ verdict.exceeded = Exceeded(EntryOf(verdict.ip))

RateInv == RateTypeOK /\ BucketsCount /\ LastIsNewest /\ VerdictStands

-----------------------------------------------------------------------------
LEMMA WindowIsPositive == WindowSize \in Nat \ {0} /\ PPS \in Nat /\ MaxSlot \in Nat
BY RateAssumption, LimiterAssumption DEF WindowSize

LEMMA Division ==
    ASSUME NEW N \in Nat \ {0}, NEW x \in Nat
    PROVE  \E q \in Nat, r \in 0..N - 1 : x = q * N + r /\ x % N = r
<1>1. /\ x % N \in 0..N - 1 /\ x \div N \in Nat
      /\ x = (x \div N) * N + (x % N)
  OBVIOUS
<1>2. QED  BY <1>1

(* Two seconds that share a bucket are a window apart, and a second and    *)
(* the one a window later share one.                                       *)
LEMMA Apart ==
    ASSUME NEW N \in Nat \ {0}, NEW x \in Nat, NEW y \in Nat, x < y, x % N = y % N
    PROVE  x + N <= y
<1>1. PICK a \in Nat, r \in 0..N - 1 : x = a * N + r /\ x % N = r  BY Division
<1>2. PICK b \in Nat, r2 \in 0..N - 1 : y = b * N + r2 /\ y % N = r2  BY Division
<1>3. a + 1 <= b
  <2> SUFFICES ASSUME b <= a PROVE FALSE  BY <1>1, <1>2
  <2>1. PICK d \in Nat : a = b + d  BY <1>1, <1>2
  <2>2. a * N = b * N + d * N  BY <1>2, <2>1
  <2>3. PICK k \in Nat, m \in Nat : k = d * N /\ m = b * N  BY <1>2, <2>1
  <2>4. QED  BY <1>1, <1>2, <2>2, <2>3
<1>4. PICK d \in Nat : b = a + 1 + d  BY <1>1, <1>2, <1>3
<1>5. b * N = a * N + N + d * N  BY <1>1, <1>4
<1>6. PICK k \in Nat, m \in Nat : k = d * N /\ m = a * N  BY <1>1, <1>4
<1>7. QED  BY <1>1, <1>2, <1>5, <1>6

LEMMA Around ==
    ASSUME NEW N \in Nat \ {0}, NEW x \in Nat
    PROVE  (x + N) % N = x % N
<1>1. PICK a \in Nat, r \in 0..N - 1 : x = a * N + r /\ x % N = r  BY Division
<1>2. x + N = (a + 1) * N + r  BY <1>1
<1>3. PICK q \in Nat : q = a + 1  BY <1>1
<1>4. (q * N + r) % N = r  BY <1>1
<1>5. (x + N) % N = r  BY <1>2, <1>3, <1>4
<1>6. QED  BY <1>1, <1>5

Entries == [buckets : [Ring -> Nat], lastSlot : Slots]

LEMMA CountedNat ==
    ASSUME NEW f \in [Slots -> Nat], NEW T \in SUBSET Slots
    PROVE  IsFiniteSet(T) /\ SumFunctionOnSet(f, T) \in Nat
<1>1. IsFiniteSet(Slots)  BY WindowIsPositive, FS_Interval DEF Slots
<1>2. IsFiniteSet(T)  BY <1>1, FS_Subset
<1>3. \A x \in T : f[x] \in Nat  OBVIOUS
<1>4. QED  BY <1>2, <1>3, SumNat

(* Clearing what is stale keeps the count of a bucket, before the event    *)
(* that made it stale is counted.                                          *)
Cleared(e, slot, i) == IF i \in Stale(e, slot) THEN 0 ELSE e.buckets[i]

LEMMA Clearing ==
    ASSUME NEW f \in [Slots -> Nat], NEW e \in Entries, NEW slot \in Slots, NEW i \in Ring,
           e.buckets[i] <= Counted(f, i, e.lastSlot)
    PROVE  /\ Cleared(e, slot, i) <= Counted(f, i, slot)
           /\ /\ e.buckets[i] = Counted(f, i, e.lastSlot)
              /\ e.lastSlot <= slot
              /\ \A s \in Slots : s > e.lastSlot => f[s] = 0
              => Cleared(e, slot, i) = Counted(f, i, slot)
<1> DEFINE last == e.lastSlot
<1>1. /\ last \in Nat /\ slot \in Nat /\ e.buckets[i] \in Nat
      /\ WindowSize \in Nat \ {0} /\ Slots \subseteq Nat
  BY WindowIsPositive DEF Entries, Slots
<1>2. /\ Of(i, last) \in SUBSET Slots /\ Of(i, slot) \in SUBSET Slots
      /\ Counted(f, i, last) \in Nat /\ Counted(f, i, slot) \in Nat
  BY CountedNat DEF Of, Counted
<1>3. CASE i \in Stale(e, slot)
  <2>1. Cleared(e, slot, i) = 0  BY <1>3 DEF Cleared
  <2>2. ASSUME last <= slot, \A s \in Slots : s > last => f[s] = 0
        PROVE  Counted(f, i, slot) = 0
    <3>1. ASSUME NEW s \in Of(i, slot) PROVE s > last
      <4>1. s \in Nat /\ s > slot - WindowSize /\ Index(s) = i  BY <1>1 DEF Of
      <4>2. CASE slot - last >= WindowSize  BY <1>1, <4>1, <4>2
      <4>3. CASE ~(slot - last >= WindowSize)
        <5>1. PICK t \in last + 1..slot : Index(t) = i  BY <1>3, <4>3 DEF Stale
        <5>2. t \in Nat  BY <1>1
        <5>3. s < t => s + WindowSize <= t  BY <1>1, <4>1, <5>1, <5>2, Apart DEF Index
        <5>4. QED  BY <1>1, <4>1, <5>1, <5>2, <5>3
      <4>4. QED  BY <4>2, <4>3
    <3>2. \A s \in Of(i, slot) : f[s] = 0  BY <2>2, <3>1 DEF Of
    <3>3. QED  BY <1>2, <3>2, CountedNat, SumZero DEF Counted
  <2>3. QED  BY <1>2, <2>1, <2>2
<1>4. CASE i \notin Stale(e, slot)
  <2>1. Cleared(e, slot, i) = e.buckets[i]  BY <1>4 DEF Cleared
  <2>2. ~(slot - last >= WindowSize)  BY <1>4 DEF Stale, Ring
  <2>3. \A t \in last + 1..slot : Index(t) # i  BY <1>4, <2>2 DEF Stale
  <2>4. Of(i, last) \subseteq Of(i, slot)
    <3> SUFFICES ASSUME NEW s \in Of(i, last) PROVE s \in Of(i, slot)  OBVIOUS
    <3>1. s \in Slots /\ s \in Nat /\ s > last - WindowSize /\ Index(s) = i
      BY <1>1 DEF Of
    <3>2. Index(s + WindowSize) = i  BY <1>1, <3>1, Around DEF Index
    <3>3. s + WindowSize \notin last + 1..slot  BY <2>3, <3>2
    <3>4. s > slot - WindowSize  BY <1>1, <3>1, <3>3
    <3>5. QED  BY <3>1, <3>4 DEF Of
  <2>5. Counted(f, i, last) <= Counted(f, i, slot)
    <3>1. IsFiniteSet(Of(i, slot)) /\ \A x \in Of(i, slot) : f[x] \in Nat
      BY <1>2, CountedNat
    <3>2. QED  BY <2>4, <3>1, SumOutside DEF Counted
  <2>6. last <= slot => Of(i, slot) \subseteq Of(i, last)
    <3> SUFFICES ASSUME last <= slot, NEW s \in Of(i, slot) PROVE s \in Of(i, last)
      OBVIOUS
    <3>1. s \in Slots /\ s \in Nat /\ s > slot - WindowSize /\ Index(s) = i
      BY <1>1 DEF Of
    <3>2. s > last - WindowSize  BY <1>1, <3>1
    <3>3. QED  BY <3>1, <3>2 DEF Of
  <2>7. last <= slot => Counted(f, i, last) = Counted(f, i, slot)
    BY <2>4, <2>6 DEF Counted
  <2>8. QED  BY <1>1, <1>2, <2>1, <2>5, <2>7
<1>5. QED  BY <1>3, <1>4

-----------------------------------------------------------------------------
LEMMA EntryTypes ==
    ASSUME RateTypeOK, NEW ip \in Ips
    PROVE  EntryOf(ip) \in Entries /\ EntryOf(ip).lastSlot <= newest
<1>1. newest \in Nat /\ 0..newest \subseteq Slots /\ WindowSize \in Nat
  BY WindowIsPositive DEF RateTypeOK, Slots
<1>2. CASE ip \in DOMAIN entries
  <2>1. entries[ip] \in [buckets : [Ring -> Nat], lastSlot : 0..newest]
    BY <1>2 DEF RateTypeOK, Ring
  <2>2. QED  BY <1>1, <1>2, <2>1 DEF EntryOf, Entries
<1>3. CASE ip \notin DOMAIN entries
  <2>1. NewEntry = [buckets |-> [i \in Ring |-> 0], lastSlot |-> 0]  BY DEF NewEntry, Ring
  <2>2. QED  BY <1>1, <1>3, <2>1 DEF EntryOf, Entries
<1>4. QED  BY <1>2, <1>3

(* What Record makes of an entry.                                          *)
LEMMA RecordedEffect ==
    ASSUME NEW e \in Entries, NEW slot \in Slots
    PROVE  /\ Recorded(e, slot) \in Entries /\ Recorded(e, slot).lastSlot = slot
           /\ Index(slot) \in Ring
           /\ \A i \in Ring : Recorded(e, slot).buckets[i]
                = IF i = Index(slot) THEN Cleared(e, slot, i) + 1 ELSE Cleared(e, slot, i)
<1>1. slot \in Nat /\ WindowSize \in Nat \ {0}  BY WindowIsPositive DEF Slots
<1>2. Index(slot) \in Ring  BY <1>1, Division DEF Index, Ring
<1> DEFINE cleared == [i \in Ring |-> Cleared(e, slot, i)]
<1>3. Recorded(e, slot) = [buckets  |-> [cleared EXCEPT ![Index(slot)] = @ + 1],
                           lastSlot |-> slot]
  BY DEF Recorded, Cleared, Ring
<1>4. cleared \in [Ring -> Nat]  BY DEF Cleared, Entries
<1>5. \A i \in Ring : cleared[i] = Cleared(e, slot, i)  OBVIOUS
<1> HIDE DEF cleared
<1>6. QED  BY <1>2, <1>3, <1>4, <1>5 DEF Entries

LEMMA RecordEffect ==
    ASSUME RateTypeOK, NEW ip \in Ips, NEW slot \in Slots, Record(ip, slot)
    PROVE  /\ EntryOf(ip)' = Recorded(EntryOf(ip), slot)
           /\ \A x \in Ips \ {ip} : EntryOf(x)' = EntryOf(x) /\ seen'[x] = seen[x]
           /\ seen' = [seen EXCEPT ![ip][slot] = @ + 1]
           /\ seen'[ip] \in [Slots -> Nat] /\ seen[ip] \in [Slots -> Nat]
           /\ seen'[ip][slot] = seen[ip][slot] + 1
           /\ \A s \in Slots \ {slot} : seen'[ip][s] = seen[ip][s]
           /\ newest' = IF slot > newest THEN slot ELSE newest
           /\ late \subseteq late' /\ late' \subseteq late \cup {ip}
           /\ ip \notin late' => \A s \in Slots : s > slot => seen[ip][s] = 0
<1>1. /\ entries' = [i \in DOMAIN entries \cup {ip} |->
                        IF i = ip THEN Recorded(EntryOf(ip), slot) ELSE entries[i]]
      /\ seen' = [seen EXCEPT ![ip][slot] = @ + 1]
      /\ newest' = IF slot > newest THEN slot ELSE newest
      /\ late' = IF \E later \in slot + 1..MaxSlot : seen[ip][later] > 0
                   THEN late \cup {ip} ELSE late
  BY DEF Record
<1>2. EntryOf(ip)' = Recorded(EntryOf(ip), slot)  BY <1>1 DEF EntryOf
<1>3. \A x \in Ips \ {ip} : EntryOf(x)' = EntryOf(x)  BY <1>1 DEF EntryOf
<1>4. seen \in [Ips -> [Slots -> Nat]]  BY DEF RateTypeOK, Slots
<1>5. /\ seen'[ip] \in [Slots -> Nat] /\ seen[ip] \in [Slots -> Nat]
      /\ seen'[ip][slot] = seen[ip][slot] + 1
      /\ \A s \in Slots \ {slot} : seen'[ip][s] = seen[ip][s]
      /\ \A x \in Ips \ {ip} : seen'[x] = seen[x]
  BY <1>1, <1>4
<1>6. ASSUME ip \notin late', NEW s \in Slots, s > slot PROVE seen[ip][s] = 0
  <2>1. s \in slot + 1..MaxSlot  BY <1>6, WindowIsPositive DEF Slots
  <2>2. ~(seen[ip][s] > 0)  BY <1>1, <1>6, <2>1
  <2>3. QED  BY <1>4, <2>2
<1>7. QED  BY <1>1, <1>2, <1>3, <1>5, <1>6

LEMMA TotalNat == ASSUME NEW e \in Entries PROVE Total(e) \in Nat
<1>1. DOMAIN e.buckets = Ring /\ \A i \in Ring : e.buckets[i] \in Nat  BY DEF Entries
<1>2. IsFiniteSet(Ring)  BY WindowIsPositive, FS_Interval DEF Ring
<1>3. Total(e) = SumFunctionOnSet(e.buckets, Ring)  BY <1>1 DEF Total, SumFunction
<1>4. QED  BY <1>1, <1>2, <1>3, SumNat

-----------------------------------------------------------------------------
LEMMA RateStart == RateInit => RateInv
<1> SUFFICES ASSUME RateInit PROVE RateInv  OBVIOUS
<1>a. WindowSize \in Nat \ {0} /\ MaxSlot \in Nat  BY WindowIsPositive
<1>1. RateTypeOK  BY <1>a DEF RateInit, RateTypeOK
<1>2. /\ \A ip \in Ips : EntryOf(ip) = NewEntry
      /\ \A ip \in Ips : seen[ip] = [s \in Slots |-> 0]
  BY DEF RateInit, EntryOf, Slots
<1>3. NewEntry.lastSlot = 0 /\ \A i \in Ring : NewEntry.buckets[i] = 0
  BY DEF NewEntry, Ring
<1>4. BucketsCount
  <2> SUFFICES ASSUME NEW ip \in Ips, NEW i \in Ring PROVE Counted(seen[ip], i, 0) = 0
    BY <1>2, <1>3 DEF BucketsCount
  <2>1. Of(i, 0) \in SUBSET Slots  BY DEF Of
  <2>2. IsFiniteSet(Of(i, 0))
    <3>1. IsFiniteSet(Slots)  BY <1>a, FS_Interval DEF Slots
    <3>2. QED  BY <2>1, <3>1, FS_Subset
  <2>3. \A s \in Of(i, 0) : seen[ip][s] = 0  BY <1>2, <2>1
  <2>4. QED  BY <2>2, <2>3, SumZero DEF Counted
<1>5. LastIsNewest  BY <1>2, <1>3 DEF LastIsNewest
<1>6. VerdictStands
  <2>1. IsFiniteSet(Ring) /\ DOMAIN NewEntry.buckets = Ring
    BY <1>a, FS_Interval DEF Ring, NewEntry
  <2>2. Total(NewEntry) = 0  BY <1>3, <2>1, SumZero DEF Total, SumFunction
  <2>3. PPS * WindowSize \in Nat  BY WindowIsPositive
  <2>4. Exceeded(NewEntry) = FALSE  BY <2>2, <2>3 DEF Exceeded
  <2>5. QED  BY <1>2, <1>3, <2>4 DEF RateInit, VerdictStands, Answered
<1>7. QED  BY <1>1, <1>4, <1>5, <1>6 DEF RateInv

LEMMA RecordKeepsTypes ==
    ASSUME RateTypeOK, NEW ip \in Ips, NEW slot \in Slots, Record(ip, slot) PROVE RateTypeOK'
<1> DEFINE e == Recorded(EntryOf(ip), slot)
<1>1. /\ e \in Entries /\ e.lastSlot = slot /\ slot \in Nat /\ slot <= MaxSlot
      /\ newest \in Nat /\ newest <= MaxSlot /\ MaxSlot \in Nat
  <2>1. e \in Entries /\ e.lastSlot = slot  BY EntryTypes, RecordedEffect
  <2> HIDE DEF e
  <2>2. QED  BY <2>1, WindowIsPositive DEF RateTypeOK, Slots
<1>2. /\ entries' = [i \in DOMAIN entries \cup {ip} |-> IF i = ip THEN e ELSE entries[i]]
      /\ verdict' = [ip |-> ip, slot |-> slot, exceeded |-> Exceeded(e)]
      /\ newest' = IF slot > newest THEN slot ELSE newest
  BY DEF Record
<1>3. Exceeded(e) \in BOOLEAN  BY DEF Exceeded
<1> HIDE DEF e
<1>4. newest' \in 0..MaxSlot /\ slot <= newest' /\ newest <= newest'  BY <1>1, <1>2
<1>5. /\ DOMAIN entries' = DOMAIN entries \cup {ip}
      /\ \A i \in DOMAIN entries : i # ip => entries'[i] = entries[i]
      /\ entries'[ip] = e
  BY <1>2
<1>6. ASSUME NEW i \in DOMAIN entries'
      PROVE  entries'[i] \in [buckets : [Ring -> Nat], lastSlot : 0..newest']
  <2>1. CASE i = ip  BY <1>1, <1>4, <1>5, <2>1 DEF Entries
  <2>2. CASE i # ip
    <3>1. entries[i] \in [buckets : [Ring -> Nat], lastSlot : 0..newest]
      BY <1>5, <2>2 DEF RateTypeOK, Ring
    <3>2. 0..newest \subseteq 0..newest'  BY <1>1, <1>4
    <3>3. QED  BY <1>5, <2>2, <3>1, <3>2
  <2>3. QED  BY <2>1, <2>2
<1>7. seen' \in [Ips -> [Slots -> Nat]]
  <2>1. seen \in [Ips -> [Slots -> Nat]]  BY DEF RateTypeOK, Slots
  <2>2. seen[ip][slot] + 1 \in Nat  BY <2>1
  <2>3. QED  BY <2>1, <2>2 DEF Record
<1>8. late' \subseteq Ips  BY RecordEffect DEF RateTypeOK
<1>9. DOMAIN entries' \subseteq Ips  BY <1>5 DEF RateTypeOK
<1>10. verdict' \in [ip : Ips \cup {"none"}, slot : 0..MaxSlot, exceeded : BOOLEAN]
  BY <1>2, <1>3 DEF Slots
<1>11. QED  BY <1>4, <1>6, <1>7, <1>8, <1>9, <1>10 DEF RateTypeOK, Slots, Ring

(* The new event is counted in its bucket and in no other.                 *)
LEMMA Counting ==
    ASSUME NEW f \in [Slots -> Nat], NEW g \in [Slots -> Nat], NEW slot \in Slots,
           g[slot] = f[slot] + 1, \A s \in Slots \ {slot} : g[s] = f[s],
           NEW i \in Ring
    PROVE  Counted(g, i, slot) = IF i = Index(slot) THEN Counted(f, i, slot) + 1
                                                    ELSE Counted(f, i, slot)
<1> DEFINE S == Of(i, slot)
<1>1. S \in SUBSET Slots /\ slot \in Nat /\ WindowSize \in Nat \ {0}
  BY WindowIsPositive DEF Of, Slots
<1>2. IsFiniteSet(S)  BY <1>1, CountedNat
<1>3. slot \in S <=> i = Index(slot)  BY <1>1 DEF Of
<1> HIDE DEF S
<1>4. CASE i = Index(slot)
  <2>1. \A y \in S : f[y] \in Nat /\ g[y] \in Nat  BY <1>1
  <2>2. \A y \in S \ {slot} : f[y] = g[y]  BY <1>1
  <2>3. /\ SumFunctionOnSet(f, S) \in Nat /\ SumFunctionOnSet(g, S) \in Nat
        /\ SumFunctionOnSet(g, S) + f[slot] = SumFunctionOnSet(f, S) + g[slot]
    BY <1>2, <1>3, <1>4, <2>1, <2>2, SumChanges
  <2>4. PICK k \in Nat, m \in Nat, n \in Nat :
           k = f[slot] /\ m = SumFunctionOnSet(f, S) /\ n = SumFunctionOnSet(g, S)
    BY <2>3
  <2>5. n = m + 1  BY <2>3, <2>4
  <2>6. QED  BY <1>4, <2>4, <2>5 DEF Counted, S
<1>5. CASE i # Index(slot)
  <2>1. \A y \in S : f[y] = g[y]  BY <1>1, <1>3, <1>5
  <2>2. SumFunctionOnSet(f, S) = SumFunctionOnSet(g, S)  BY <1>2, <2>1, SumSame
  <2>3. QED  BY <1>5, <2>2 DEF Counted, S
<1>6. QED  BY <1>4, <1>5

LEMMA RecordKeepsCount ==
    ASSUME RateInv, NEW ip \in Ips, NEW slot \in Slots, Record(ip, slot) PROVE BucketsCount'
<1> DEFINE e == EntryOf(ip)  f == seen[ip]  g == seen'[ip]
<1>1. RateTypeOK /\ BucketsCount /\ LastIsNewest  BY DEF RateInv
<1>2. e \in Entries /\ f \in [Slots -> Nat] /\ g \in [Slots -> Nat]
  BY <1>1, EntryTypes, RecordEffect
<1>3. /\ EntryOf(ip)' = Recorded(e, slot) /\ Recorded(e, slot).lastSlot = slot
      /\ g[slot] = f[slot] + 1 /\ \A s \in Slots \ {slot} : g[s] = f[s]
  BY <1>1, <1>2, RecordEffect, RecordedEffect
<1>4. ASSUME ip \notin late'
      PROVE  e.lastSlot <= slot /\ \A s \in Slots : s > e.lastSlot => f[s] = 0
  <2>1. ip \notin late /\ \A s \in Slots : s > slot => f[s] = 0
    BY <1>1, <1>4, RecordEffect
  <2>2. \A s \in Slots : s > e.lastSlot => f[s] = 0  BY <1>1, <2>1 DEF LastIsNewest
  <2>3. e.lastSlot > 0 => f[e.lastSlot] > 0  BY <1>1 DEF LastIsNewest
  <2>4. e.lastSlot \in Slots /\ e.lastSlot \in Nat /\ slot \in Nat
    BY <1>2 DEF Entries, Slots
  <2> HIDE DEF e, f
  <2>5. e.lastSlot <= slot
    <3> SUFFICES ASSUME e.lastSlot > slot PROVE FALSE  BY <2>4
    <3>1. f[e.lastSlot] = 0  BY <2>1, <2>4
    <3>2. f[e.lastSlot] > 0  BY <2>3, <2>4
    <3>3. QED  BY <3>1, <3>2
  <2>6. QED  BY <2>2, <2>5
<1>5. ASSUME NEW i \in Ring
      PROVE  LET b == Recorded(e, slot).buckets[i]
                 n == Counted(g, i, slot)
             IN  b <= n /\ (ip \notin late' => b = n)
  <2>1. /\ e.buckets[i] <= Counted(f, i, e.lastSlot)
        /\ ip \notin late => e.buckets[i] = Counted(f, i, e.lastSlot)
    BY <1>1 DEF BucketsCount
  <2>2. ip \notin late' => ip \notin late  BY <1>1, RecordEffect
  <2>3. /\ Cleared(e, slot, i) <= Counted(f, i, slot)
        /\ ip \notin late' => Cleared(e, slot, i) = Counted(f, i, slot)
    <3> HIDE DEF e, f
    <3>1. QED  BY <1>2, <1>4, <2>1, <2>2, Clearing
  <2>4. Recorded(e, slot).buckets[i]
          = IF i = Index(slot) THEN Cleared(e, slot, i) + 1 ELSE Cleared(e, slot, i)
    BY <1>2, RecordedEffect
  <2>5. Counted(g, i, slot) = IF i = Index(slot) THEN Counted(f, i, slot) + 1
                                                 ELSE Counted(f, i, slot)
    <3> HIDE DEF f, g
    <3>1. QED  BY <1>2, <1>3, Counting
  <2>6. PICK c \in Nat, m \in Nat : c = Cleared(e, slot, i) /\ m = Counted(f, i, slot)
    <3>1. Of(i, slot) \in SUBSET Slots  BY DEF Of
    <3>2. Counted(f, i, slot) \in Nat  BY <1>2, <3>1, CountedNat DEF Counted
    <3>3. Cleared(e, slot, i) \in Nat  BY <1>2 DEF Cleared, Entries
    <3>4. QED  BY <3>2, <3>3
  <2> HIDE DEF e, f, g
  <2>7. c <= m /\ (ip \notin late' => c = m) /\ c + 1 <= m + 1  BY <2>3, <2>6
  <2>8. QED  BY <2>4, <2>5, <2>6, <2>7
<1>6. SUFFICES ASSUME NEW x \in Ips, NEW i \in Ring
               PROVE  LET n == Counted(seen'[x], i, EntryOf(x)'.lastSlot)
                      IN  /\ EntryOf(x)'.buckets[i] <= n
                          /\ x \notin late' => EntryOf(x)'.buckets[i] = n
  BY DEF BucketsCount, Counted, Of, Ring, Index, Slots, EntryOf
<1>7. CASE x = ip  BY <1>3, <1>5, <1>7
<1>8. CASE x # ip
  <2>1. EntryOf(x)' = EntryOf(x) /\ seen'[x] = seen[x] /\ (x \notin late' => x \notin late)
    BY <1>1, <1>8, RecordEffect
  <2>2. QED  BY <1>1, <2>1 DEF BucketsCount
<1>9. QED  BY <1>7, <1>8

LEMMA RecordKeepsRest ==
    ASSUME RateInv, NEW ip \in Ips, NEW slot \in Slots, Record(ip, slot)
    PROVE  LastIsNewest' /\ VerdictStands'
<1> DEFINE e == Recorded(EntryOf(ip), slot)
<1>1. /\ EntryOf(ip)' = e /\ e.lastSlot = slot
      /\ verdict' = [ip |-> ip, slot |-> slot, exceeded |-> Exceeded(e)]
  <2>1. EntryOf(ip) \in Entries  BY EntryTypes DEF RateInv
  <2>2. QED  BY <2>1, RecordEffect, RecordedEffect, ZenonT(30) DEF RateInv, Record
<1> HIDE DEF e
<1>2. VerdictStands'
  <2>1. verdict'.ip = ip /\ verdict'.slot = slot /\ verdict'.exceeded = Exceeded(e)
    BY <1>1
  <2>2. QED  BY <1>1, <2>1 DEF VerdictStands, EntryOf, Exceeded, Total
<1>3. ASSUME NEW x \in Ips
      PROVE  /\ EntryOf(x)'.lastSlot > 0 => seen'[x][EntryOf(x)'.lastSlot] > 0
             /\ x \notin late' => \A s \in Slots : s > EntryOf(x)'.lastSlot => seen'[x][s] = 0
             /\ \A s \in Slots : s > newest' => seen'[x][s] = 0
  <2>1. /\ newest' = IF slot > newest THEN slot ELSE newest
        /\ newest \in Nat /\ slot \in Nat /\ Slots \subseteq Nat
    <3>1. newest' = IF slot > newest THEN slot ELSE newest  BY RecordEffect DEF RateInv
    <3>2. newest \in Nat  BY WindowIsPositive DEF RateInv, RateTypeOK
    <3>3. slot \in Nat /\ Slots \subseteq Nat  BY WindowIsPositive DEF Slots
    <3>4. QED  BY <3>1, <3>2, <3>3
  <2>2. \A s \in Slots : s > newest' => s > newest /\ s > slot  BY <2>1
  <2>3. \A s \in Slots : s > newest => seen[x][s] = 0  BY DEF RateInv, LastIsNewest
  <2>4. CASE x = ip
    <3>1. /\ \A s \in Slots \ {slot} : seen'[ip][s] = seen[ip][s]
          /\ seen'[ip][slot] = seen[ip][slot] + 1 /\ seen[ip][slot] \in Nat
          /\ ip \notin late' => \A s \in Slots : s > slot => seen[ip][s] = 0
      BY RecordEffect DEF RateInv
    <3>2. seen'[ip][slot] > 0  BY <3>1
    <3>3. \A s \in Slots : s > slot => seen'[ip][s] = seen[ip][s]  BY <2>1, <3>1
    <3>4. QED  BY <1>1, <2>2, <2>3, <2>4, <3>1, <3>2, <3>3
  <2>5. CASE x # ip
    <3>1. EntryOf(x)' = EntryOf(x) /\ seen'[x] = seen[x] /\ (x \notin late' => x \notin late)
      BY <2>5, RecordEffect DEF RateInv
    <3>2. QED  BY <2>2, <3>1 DEF RateInv, LastIsNewest
  <2>6. QED  BY <2>4, <2>5
<1>4. LastIsNewest'  BY <1>3 DEF LastIsNewest, EntryOf, Slots
<1>5. QED  BY <1>2, <1>4

LEMMA RateInvariance == RateSpec => []RateInv
<1>1. RateInv /\ [RateNext]_rateVars => RateInv'
  <2> SUFFICES ASSUME RateInv, [RateNext]_rateVars PROVE RateInv'  OBVIOUS
  <2>1. ASSUME NEW ip \in Ips, NEW slot \in Slots, Record(ip, slot) PROVE RateInv'
    BY <2>1, RecordKeepsTypes, RecordKeepsCount, RecordKeepsRest DEF RateInv
  <2>2. CASE UNCHANGED rateVars
    BY <2>2 DEF rateVars, RateInv, RateTypeOK, BucketsCount, LastIsNewest, VerdictStands, EntryOf,
                Answered
  <2>3. QED  BY <2>1, <2>2 DEF RateNext, Slots
<1>2. QED  BY <1>1, RateStart, PTL DEF RateSpec

-----------------------------------------------------------------------------
(* What Record adds up is what was stamped in the window or later.         *)
Since(last) == {s \in Slots : s > last - WindowSize}

LEMMA TotalCounts ==
    ASSUME RateInv, NEW ip \in Ips
    PROVE  LET e == EntryOf(ip)
               n == SumFunctionOnSet(seen[ip], Since(e.lastSlot))
           IN  /\ Total(e) \in Nat /\ n \in Nat /\ Total(e) <= n
               /\ ip \notin late => Total(e) = n
<1> DEFINE e == EntryOf(ip)  f == seen[ip]  S == Since(e.lastSlot)
           k == [s \in Slots |-> Index(s)]
           h == [i \in Ring |-> Counted(f, i, e.lastSlot)]
           c == [i \in Ring |-> SumFunctionOnSet(f, Class(S, k, i))]
<1>1. e \in Entries /\ f \in [Slots -> Nat]
  BY EntryTypes DEF RateInv, RateTypeOK, Slots
<1>2. IsFiniteSet(Ring) /\ S \in SUBSET Slots /\ IsFiniteSet(S)
  <2>1. IsFiniteSet(Ring)  BY WindowIsPositive, FS_Interval DEF Ring
  <2>2. S \in SUBSET Slots  BY DEF Since
  <2> HIDE DEF S, f, e
  <2>3. QED  BY <1>1, <2>1, <2>2, CountedNat
<1>3. \A s \in Slots : Index(s) \in Ring  BY <1>1, RecordedEffect
<1>4. Total(e) = SumFunctionOnSet(e.buckets, Ring) /\ Total(e) \in Nat
  <2> HIDE DEF e
  <2>1. DOMAIN e.buckets = Ring  BY <1>1 DEF Entries
  <2>2. QED  BY <1>1, <2>1, TotalNat DEF Total, SumFunction
<1>5. SumFunctionOnSet(h, Ring) = SumFunctionOnSet(f, S)
  <2>1. \A i \in Ring : Class(S, k, i) = Of(i, e.lastSlot)  BY DEF Class, Of, Since
  <2>2. \A i \in Ring : c[i] = h[i]  BY <2>1 DEF Counted
  <2>3. \A x \in S : f[x] \in Nat /\ k[x] \in Ring  BY <1>1, <1>2, <1>3
  <2> HIDE DEF e, f, S, k
  <2>4. SumFunctionOnSet(c, Ring) = SumFunctionOnSet(f, S)  BY <1>2, <2>3, SumByClass
  <2> HIDE DEF c, h
  <2>5. SumFunctionOnSet(c, Ring) = SumFunctionOnSet(h, Ring)  BY <1>2, <2>2, SumSame
  <2>6. QED  BY <2>4, <2>5
<1>6. \A i \in Ring : /\ e.buckets[i] \in Nat /\ h[i] \in Nat /\ e.buckets[i] <= h[i]
                      /\ ip \notin late => e.buckets[i] = h[i]
  <2>1. ASSUME NEW i \in Ring
        PROVE  /\ e.buckets[i] <= h[i] /\ (ip \notin late => e.buckets[i] = h[i])
    BY DEF RateInv, BucketsCount
  <2>2. ASSUME NEW i \in Ring PROVE e.buckets[i] \in Nat /\ h[i] \in Nat
    <3>1. Of(i, e.lastSlot) \in SUBSET Slots  BY DEF Of
    <3> HIDE DEF e, f
    <3>2. Counted(f, i, e.lastSlot) \in Nat  BY <1>1, <3>1, CountedNat DEF Counted
    <3>3. QED  BY <1>1, <3>2 DEF Entries
  <2>3. QED  BY <2>1, <2>2
<1>7. SumFunctionOnSet(f, S) \in Nat  BY <1>1, <1>2, CountedNat
<1> HIDE DEF e, f, S, h
<1>8. SumFunctionOnSet(e.buckets, Ring) <= SumFunctionOnSet(h, Ring)
  BY <1>2, <1>6, SumAtMost
<1>9. ip \notin late => SumFunctionOnSet(e.buckets, Ring) = SumFunctionOnSet(h, Ring)
  BY <1>2, <1>6, SumSame
<1>10. QED  BY <1>4, <1>5, <1>7, <1>8, <1>9 DEF e, f, S

(* Seconds in which nothing was stamped may be left out of the window.     *)
LEMMA WindowEnds ==
    ASSUME RateInv, NEW ip \in Ips, NEW last \in Slots, NEW end \in Nat,
           \A s \in Slots : s > end => seen[ip][s] = 0
    PROVE  SumFunctionOnSet(seen[ip], Since(last)) = CountIn(ip, last - WindowSize + 1..end)
<1> DEFINE f == seen[ip]  S == Since(last)  T == (last - WindowSize + 1..end) \cap Slots
<1>1. last \in Nat /\ WindowSize \in Nat /\ Slots \subseteq Nat
  BY WindowIsPositive DEF Slots
<1>2. f \in [Slots -> Nat]  BY DEF RateInv, RateTypeOK, Slots
<1>3. S \in SUBSET Slots /\ T \in SUBSET S  BY <1>1 DEF Since
<1>4. \A x \in S \ T : f[x] = 0  BY <1>1 DEF Since
<1> HIDE DEF f, S
<1>5. IsFiniteSet(S) /\ \A x \in S : f[x] \in Nat  BY <1>2, <1>3, CountedNat
<1> HIDE DEF T
<1>6. SumFunctionOnSet(f, T) = SumFunctionOnSet(f, S)
  BY <1>3, <1>4, <1>5, SumOutside
<1>7. QED  BY <1>6 DEF CountIn, f, S, T, Slots

-----------------------------------------------------------------------------
(* The ring keeps its length and counts from zero up, however long the gap *)
(* between two events was, and no entry is newer than the newest event.    *)
THEOREM RateTypes == RateSpec => []RateTypeOK
<1>1. RateInv => RateTypeOK  BY DEF RateInv
<1>2. QED  BY <1>1, RateInvariance, PTL

(* For every window, limit, number of addresses and order of events: as    *)
(* long as an address's events come in order, Record answers what a        *)
(* sliding window over its stamps would, however the circular buckets were *)
(* reused and whatever the other addresses sent.                           *)
THEOREM WindowIsExact == RateSpec => []ExceededIsExact
<1>1. RateInv => ExceededIsExact
  <2> SUFFICES ASSUME RateInv, Answered, verdict.ip \notin late
               PROVE  verdict.exceeded <=>
                        CountIn(verdict.ip, verdict.slot - WindowSize + 1..verdict.slot)
                          > PPS * WindowSize
    BY DEF ExceededIsExact
  <2> DEFINE ip == verdict.ip  last == EntryOf(ip).lastSlot
  <2>1. ip \in Ips  BY DEF Answered
  <2>2. verdict.slot = last /\ verdict.exceeded = (Total(EntryOf(ip)) > PPS * WindowSize)
    BY DEF RateInv, VerdictStands, Exceeded
  <2>3. last \in Slots /\ last \in Nat
    BY <2>1, EntryTypes DEF RateInv, Entries, Slots
  <2>4. \A s \in Slots : s > last => seen[ip][s] = 0  BY <2>1 DEF RateInv, LastIsNewest
  <2> HIDE DEF last, ip
  <2>5. SumFunctionOnSet(seen[ip], Since(last)) = CountIn(ip, last - WindowSize + 1..last)
    BY <2>1, <2>3, <2>4, WindowEnds
  <2>6. Total(EntryOf(ip)) = SumFunctionOnSet(seen[ip], Since(last))
    BY <2>1, TotalCounts DEF ip, last
  <2>7. QED  BY <2>2, <2>5, <2>6 DEF ip
<1>2. QED  BY <1>1, RateInvariance, PTL

(* Late events cost floods, but never raise a false alarm: what Record     *)
(* counted was stamped no longer than a window before the event.           *)
THEOREM AlarmsAreFloods == RateSpec => []NoFalseAlarm
<1>1. RateInv => NoFalseAlarm
  <2> SUFFICES ASSUME RateInv, Answered, verdict.exceeded
               PROVE  CountIn(verdict.ip, verdict.slot - WindowSize + 1..newest)
                        > PPS * WindowSize
    BY DEF NoFalseAlarm
  <2> DEFINE ip == verdict.ip  last == EntryOf(ip).lastSlot
  <2>1. ip \in Ips  BY DEF Answered
  <2>2. verdict.slot = last /\ Total(EntryOf(ip)) > PPS * WindowSize
    BY DEF RateInv, VerdictStands, Exceeded
  <2>3. last \in Slots /\ newest \in Nat
    BY <2>1, EntryTypes DEF RateInv, RateTypeOK, Entries
  <2>4. \A s \in Slots : s > newest => seen[ip][s] = 0  BY <2>1 DEF RateInv, LastIsNewest
  <2> HIDE DEF last, ip
  <2>5. SumFunctionOnSet(seen[ip], Since(last)) = CountIn(ip, last - WindowSize + 1..newest)
    BY <2>1, <2>3, <2>4, WindowEnds
  <2>6. /\ Total(EntryOf(ip)) \in Nat /\ SumFunctionOnSet(seen[ip], Since(last)) \in Nat
        /\ Total(EntryOf(ip)) <= SumFunctionOnSet(seen[ip], Since(last))
    BY <2>1, TotalCounts DEF ip, last
  <2>7. PICK n \in Nat, k \in Nat, m \in Nat :
           /\ n = Total(EntryOf(ip)) /\ k = SumFunctionOnSet(seen[ip], Since(last))
           /\ m = PPS * WindowSize
    BY <2>6, WindowIsPositive
  <2>8. k > m  BY <2>2, <2>6, <2>7
  <2>9. QED  BY <2>2, <2>5, <2>7, <2>8 DEF ip
<1>2. QED  BY <1>1, RateInvariance, PTL

-----------------------------------------------------------------------------
(*                          The port-scan detector                         *)

(* An entry is a record of its two fields.                                 *)
Shape == \A ip \in DOMAIN tables : DOMAIN tables[ip] = {"value", "expiration"}

(* What a port table holds was hit.                                        *)
TablesAreHits ==
    \A ip \in DOMAIN tables :
        \A p \in DOMAIN tables[ip].value : <<ip, p, tables[ip].value[p]>> \in hits

(* A hit stamped with the present moment has an entry that is alive: it was*)
(* recorded at this very moment, and a sweep spares the entry.             *)
PresentIsKept == \A h \in hits : h[3] = now => Has(tables, h[1], now)

(* The table of an address whose events came in order holds every hit since*)
(* it was made that no later event has pushed out of the window.           *)
TablesAreFull ==
    \A ip \in DOMAIN tables \ lateHits : \A p \in Ports, t \in 0..now :
        /\ <<ip, p, t>> \in hits
        /\ t >= tables[ip].expiration - EntryTTL
        /\ \A h \in hits : h[1] = ip => h[3] <= t + ScanWindow
        => p \in DOMAIN tables[ip].value /\ tables[ip].value[p] >= t

(* The last answer was given from the table that is there, on the newest   *)
(* event of the address.                                                   *)
ReportStands ==
    report.ip \in DOMAIN tables \ lateHits =>
        /\ report.scan = IsScan(tables[report.ip].value)
        /\ \A h \in hits : h[1] = report.ip => h[3] <= report.ts

ScanInv ==
    /\ ScanTypeOK /\ Shape
    /\ TablesAreHits /\ PresentIsKept /\ TablesAreFull
    /\ ReportStands /\ NoFalseScan

-----------------------------------------------------------------------------
(* A larger set of ports counts more.                                      *)
LEMMA MorePorts ==
    ASSUME NEW S \in SUBSET Ports, NEW T \in SUBSET S
    PROVE  /\ Cardinality(S) \in Nat /\ Cardinality(T) \in Nat
           /\ Cardinality(T) <= Cardinality(S)
<1>1. IsFiniteSet(S)  BY PortScanAssumption, FS_Subset
<1>2. QED  BY <1>1, FS_Subset, FS_CardinalityType

(* What is in a port table after a hit.                                    *)
LEMMA NotedEffect ==
    ASSUME NEW ports, NEW p, NEW ts \in Int
    PROVE  /\ \A x \in DOMAIN Noted(ports, p, ts) :
                 /\ x \in DOMAIN ports \cup {p}
                 /\ Noted(ports, p, ts)[x] = IF x = p THEN ts ELSE ports[x]
                 /\ Noted(ports, p, ts)[x] >= ts - ScanWindow
           /\ p \in DOMAIN Noted(ports, p, ts) /\ Noted(ports, p, ts)[p] = ts
           /\ \A x \in DOMAIN ports : x # p /\ ports[x] >= ts - ScanWindow =>
                 x \in DOMAIN Noted(ports, p, ts) /\ Noted(ports, p, ts)[x] = ports[x]
BY PortAssumption DEF Noted, Restrict

(* What Record does to the entries, in terms of the table it starts from:  *)
(* that of a live entry, or an empty one that is made now.                 *)
Old(ip) == IF Has(tables, ip, now) THEN tables[ip].value ELSE NoPorts

LEMMA HitEffect ==
    ASSUME ScanTypeOK, Shape, NEW ip \in Ips, NEW p \in Ports, NEW ts \in 0..MaxTime,
           ScanRecord(ip, p, ts)
    PROVE  /\ ts \in 0..now /\ now' = now /\ hits' = hits \cup {<<ip, p, ts>>}
           /\ report' = [ip |-> ip, ts |-> ts, scan |-> IsScan(tables'[ip].value)]
           /\ DOMAIN tables' = DOMAIN tables \cup {ip}
           /\ \A x \in DOMAIN tables : x # ip => tables'[x] = tables[x]
           /\ DOMAIN tables'[ip] = {"value", "expiration"}
           /\ tables'[ip].value = Noted(Old(ip), p, ts)
           /\ tables'[ip].expiration = IF Has(tables, ip, now) THEN tables[ip].expiration
                                                                ELSE now + EntryTTL
           /\ lateHits \subseteq lateHits' /\ lateHits' \subseteq lateHits \cup {ip}
           /\ ip \notin lateHits' => \A h \in hits : h[1] = ip => h[3] <= ts
<1> DEFINE ports == Noted(Old(ip), p, ts)
<1>1. /\ ts <= now /\ now' = now /\ hits' = hits \cup {<<ip, p, ts>>}
      /\ report' = [ip |-> ip, ts |-> ts, scan |-> IsScan(ports)]
      /\ lateHits' = IF \E h \in hits : h[1] = ip /\ h[3] > ts THEN lateHits \cup {ip} ELSE lateHits
  BY DEF ScanRecord, Old
<1>2. tables' = IF Has(tables, ip, now) THEN [tables EXCEPT ![ip].value = ports]
                 ELSE Set(tables, ip, ports, EntryTTL, now)
  BY DEF ScanRecord, Old
<1>3. now \in Nat /\ MaxTime \in Nat  BY PortScanAssumption DEF ScanTypeOK
<1>4. ts \in 0..now  BY <1>1, <1>3
<1> HIDE DEF ports
<1>5. /\ DOMAIN tables' = DOMAIN tables \cup {ip}
      /\ \A x \in DOMAIN tables : x # ip => tables'[x] = tables[x]
      /\ DOMAIN tables'[ip] = {"value", "expiration"}
      /\ tables'[ip].value = ports
      /\ tables'[ip].expiration = IF Has(tables, ip, now) THEN tables[ip].expiration
                                                           ELSE now + EntryTTL
  <2>1. CASE Has(tables, ip, now)
    <3>1. ip \in DOMAIN tables  BY <2>1 DEF Has
    <3>2. /\ DOMAIN tables' = DOMAIN tables
          /\ \A x \in DOMAIN tables : x # ip => tables'[x] = tables[x]
          /\ tables'[ip] = [tables[ip] EXCEPT !.value = ports]
      BY <1>2, <2>1, <3>1
    <3>3. DOMAIN tables[ip] = {"value", "expiration"}  BY <3>1 DEF Shape
    <3>4. /\ DOMAIN tables'[ip] = {"value", "expiration"}
          /\ tables'[ip].value = ports /\ tables'[ip].expiration = tables[ip].expiration
      BY <3>2, <3>3
    <3>5. QED  BY <2>1, <3>1, <3>2, <3>4
  <2>2. CASE ~Has(tables, ip, now)
    <3>1. tables' = Set(tables, ip, ports, EntryTTL, now)  BY <1>2, <2>2
    <3>2. /\ DOMAIN tables' = DOMAIN tables \cup {ip}
          /\ \A x \in DOMAIN tables : x # ip => tables'[x] = tables[x]
          /\ tables'[ip] = [value |-> ports, expiration |-> now + EntryTTL]
      BY <3>1 DEF Set
    <3>3. QED  BY <2>2, <3>2
  <2>3. QED  BY <2>1, <2>2
<1>6. ip \notin lateHits' => \A h \in hits : h[1] = ip => h[3] <= ts
  <2> SUFFICES ASSUME ip \notin lateHits', NEW h \in hits, h[1] = ip PROVE h[3] <= ts
    OBVIOUS
  <2>1. ~(h[3] > ts)  BY <1>1
  <2>2. h[3] \in Nat  BY <1>3 DEF ScanTypeOK
  <2>3. QED  BY <2>1, <2>2, <1>4, <1>3
<1>7. lateHits \subseteq lateHits' /\ lateHits' \subseteq lateHits \cup {ip}  BY <1>1
<1>8. QED  BY <1>1, <1>4, <1>5, <1>6, <1>7 DEF ports

LEMMA SweepEffect ==
    ASSUME ScanSweep
    PROVE  /\ UNCHANGED <<now, hits, lateHits, report>>
           /\ DOMAIN tables' = {x \in DOMAIN tables : now <= tables[x].expiration}
           /\ \A x \in DOMAIN tables' : tables'[x] = tables[x]
BY DEF ScanSweep, Swept, Restrict

(* The table a hit is noted in: what is in it was hit, and is a port.      *)
LEMMA OldTable ==
    ASSUME ScanTypeOK, TablesAreHits, NEW ip \in Ips
    PROVE  /\ DOMAIN Old(ip) \subseteq Ports
           /\ \A p \in DOMAIN Old(ip) : Old(ip)[p] \in 0..now /\ <<ip, p, Old(ip)[p]>> \in hits
<1>1. CASE Has(tables, ip, now)
  <2>1. ip \in DOMAIN tables /\ Old(ip) = tables[ip].value  BY <1>1 DEF Old, Has
  <2>2. QED  BY <2>1 DEF ScanTypeOK, TablesAreHits
<1>2. CASE ~Has(tables, ip, now)
  <2>1. DOMAIN Old(ip) = {}  BY <1>2 DEF Old, NoPorts
  <2>2. QED  BY <2>1
<1>3. QED  BY <1>1, <1>2

-----------------------------------------------------------------------------
(* The invariant holds at the start: there are no entries and no hits.     *)
LEMMA ScanStart == ScanInit => ScanInv
<1> SUFFICES ASSUME ScanInit PROVE ScanInv  OBVIOUS
<1>1. /\ now = 0 /\ hits = {} /\ lateHits = {} /\ DOMAIN tables = {}
      /\ report = [ip |-> "none", ts |-> 0, scan |-> FALSE]
  BY DEF ScanInit, EmptyMap
<1>2. MaxTime \in Nat  BY PortScanAssumption
<1>3. ScanTypeOK  BY <1>1, <1>2 DEF ScanTypeOK
<1>4. QED
  BY <1>1, <1>3 DEF ScanInv, Shape, TablesAreHits, PresentIsKept, TablesAreFull,
                    ReportStands, NoFalseScan

(* The clock only grows.                                                   *)
LEMMA ScanTickStep == ScanInv /\ ScanTick => ScanInv'
<1> SUFFICES ASSUME ScanTypeOK, Shape, TablesAreHits, PresentIsKept, TablesAreFull,
                    ReportStands, NoFalseScan, ScanTick
             PROVE  ScanInv'
  BY DEF ScanInv
<1>1. /\ now \in Nat /\ now' = now + 1 /\ now' \in 0..MaxTime
      /\ UNCHANGED <<tables, hits, lateHits, report>>
  BY PortScanAssumption DEF ScanTick, ScanTypeOK
<1>2. EntryTTL \in Nat  BY PortAssumption
<1>3. ScanTypeOK'
  <2>1. EntryTTL..now + EntryTTL \subseteq EntryTTL..now' + EntryTTL /\ 0..now \subseteq 0..now'
    BY <1>1, <1>2
  <2>2. \A ip \in DOMAIN tables :
           /\ tables[ip].expiration \in EntryTTL..now' + EntryTTL
           /\ \A p \in DOMAIN tables[ip].value : tables[ip].value[p] \in 0..now'
    BY <2>1 DEF ScanTypeOK
  <2>3. hits \subseteq Ips \X Ports \X (0..now')
    BY <2>1 DEF ScanTypeOK
  <2>4. report \in [ip : Ips \cup {"none"}, ts : 0..now', scan : BOOLEAN]
    BY <2>1 DEF ScanTypeOK
  <2>5. QED  BY <1>1, <2>2, <2>3, <2>4 DEF ScanTypeOK
<1>4. Shape' /\ TablesAreHits' /\ ReportStands'
  BY <1>1 DEF Shape, TablesAreHits, ReportStands
<1>5. \A h \in hits : h[3] \in 0..now  BY DEF ScanTypeOK
<1>6. PresentIsKept'  BY <1>1, <1>5 DEF PresentIsKept
<1>7. TablesAreFull'
  <2>1. ASSUME NEW h \in hits PROVE h[3] \in 0..now  BY <1>5
  <2>2. SUFFICES ASSUME NEW ip \in DOMAIN tables \ lateHits, NEW p \in Ports, NEW t \in 0..now',
                        <<ip, p, t>> \in hits,
                        t >= tables[ip].expiration - EntryTTL,
                        \A h \in hits : h[1] = ip => h[3] <= t + ScanWindow
                 PROVE  p \in DOMAIN tables[ip].value /\ tables[ip].value[p] >= t
    BY <1>1 DEF TablesAreFull
  <2>3. t \in 0..now  BY <2>2 DEF ScanTypeOK
  <2>4. QED  BY <2>2, <2>3 DEF TablesAreFull
<1>8. NoFalseScan'
  <2> SUFFICES ASSUME report.scan
               PROVE  Cardinality(PortsHit(report.ip, From(report.ts), now')) >= DistinctPorts
    BY <1>1 DEF NoFalseScan, PortsHit, From
  <2> DEFINE S == PortsHit(report.ip, From(report.ts), now)
             T == PortsHit(report.ip, From(report.ts), now')
  <2>1. Cardinality(S) >= DistinctPorts  BY DEF NoFalseScan
  <2>2. T \in SUBSET Ports  BY <1>1 DEF PortsHit
  <2>3. From(report.ts) \in Int
    <3>1. report.ts \in Nat  BY <1>1 DEF ScanTypeOK
    <3>2. QED  BY <3>1, PortAssumption DEF From
  <2>4. S \in SUBSET T  BY <1>1, <2>3 DEF PortsHit
  <2> HIDE DEF S, T
  <2>5. Cardinality(S) <= Cardinality(T) /\ Cardinality(S) \in Nat /\ Cardinality(T) \in Nat
    BY <2>2, <2>4, MorePorts
  <2>6. Cardinality(T) >= DistinctPorts  BY <2>1, <2>5, PortAssumption
  <2>7. QED  BY <2>6 DEF T
<1>9. QED  BY <1>3, <1>4, <1>6, <1>7, <1>8 DEF ScanInv

(* The sweep takes only entries that have expired.                         *)
LEMMA SweepStep == ScanInv /\ ScanSweep => ScanInv'
<1> SUFFICES ASSUME ScanTypeOK, Shape, TablesAreHits, PresentIsKept, TablesAreFull,
                    ReportStands, NoFalseScan, ScanSweep
             PROVE  ScanInv'
  BY DEF ScanInv
<1>1. /\ UNCHANGED <<now, hits, lateHits, report>>
      /\ DOMAIN tables' = {x \in DOMAIN tables : now <= tables[x].expiration}
      /\ \A x \in DOMAIN tables' : x \in DOMAIN tables /\ tables'[x] = tables[x]
  BY SweepEffect
<1>2. ScanTypeOK'  BY <1>1 DEF ScanTypeOK
<1>3. Shape' /\ TablesAreHits'  BY <1>1 DEF Shape, TablesAreHits
<1>4. PresentIsKept'
  <2>1. \A x : Has(tables, x, now) => Has(tables', x, now)  BY <1>1 DEF Has
  <2>2. QED  BY <1>1, <2>1 DEF PresentIsKept, Has
<1>5. TablesAreFull'  BY <1>1 DEF TablesAreFull
<1>6. ReportStands'  BY <1>1 DEF ReportStands
<1>7. NoFalseScan'  BY <1>1 DEF NoFalseScan, PortsHit, From
<1>8. QED  BY <1>2, <1>3, <1>4, <1>5, <1>6, <1>7 DEF ScanInv

(* A hit is noted in the live entry of its address, or in a new one.       *)
LEMMA HitStep ==
    ASSUME ScanInv, NEW ip \in Ips, NEW p \in Ports, NEW ts \in 0..MaxTime,
           ScanRecord(ip, p, ts)
    PROVE  ScanInv'
<1>a. ScanTypeOK /\ Shape /\ TablesAreHits /\ PresentIsKept /\ TablesAreFull  BY DEF ScanInv
<1>0. /\ ts \in 0..now /\ now' = now /\ hits' = hits \cup {<<ip, p, ts>>}
      /\ report' = [ip |-> ip, ts |-> ts, scan |-> IsScan(tables'[ip].value)]
      /\ DOMAIN tables' = DOMAIN tables \cup {ip}
      /\ \A x \in DOMAIN tables : x # ip => tables'[x] = tables[x]
      /\ DOMAIN tables'[ip] = {"value", "expiration"}
      /\ tables'[ip].value = Noted(Old(ip), p, ts)
      /\ tables'[ip].expiration = IF Has(tables, ip, now) THEN tables[ip].expiration
                                                           ELSE now + EntryTTL
      /\ lateHits \subseteq lateHits' /\ lateHits' \subseteq lateHits \cup {ip}
      /\ ip \notin lateHits' => \A h \in hits : h[1] = ip => h[3] <= ts
  BY <1>a, HitEffect
<1> DEFINE table == tables'[ip].value
<1>b. now \in 0..MaxTime /\ now \in Nat /\ ScanWindow \in Nat /\ EntryTTL \in Nat
  BY <1>a, PortAssumption, PortScanAssumption DEF ScanTypeOK
<1>1. \A h \in hits : h \in Ips \X Ports \X (0..now)  BY <1>a DEF ScanTypeOK
<1>2. /\ DOMAIN Old(ip) \subseteq Ports
      /\ \A q \in DOMAIN Old(ip) : Old(ip)[q] \in 0..now /\ <<ip, q, Old(ip)[q]>> \in hits
  BY <1>a, OldTable
<1>3. /\ \A q \in DOMAIN table :
            /\ q \in Ports /\ table[q] \in 0..now
            /\ <<ip, q, table[q]>> \in hits'
            /\ table[q] >= ts - ScanWindow
      /\ p \in DOMAIN table /\ table[p] = ts
      /\ \A q \in DOMAIN Old(ip) : q # p /\ Old(ip)[q] >= ts - ScanWindow =>
            q \in DOMAIN table /\ table[q] = Old(ip)[q]
  <2>1. ts \in Int  BY <1>0
  <2>2. /\ \A q \in DOMAIN table :
             /\ q \in DOMAIN Old(ip) \cup {p}
             /\ table[q] = IF q = p THEN ts ELSE Old(ip)[q]
             /\ table[q] >= ts - ScanWindow
        /\ p \in DOMAIN table /\ table[p] = ts
        /\ \A q \in DOMAIN Old(ip) : q # p /\ Old(ip)[q] >= ts - ScanWindow =>
             q \in DOMAIN table /\ table[q] = Old(ip)[q]
    BY <1>0, <2>1, NotedEffect
  <2>3. ASSUME NEW q \in DOMAIN table
        PROVE  q \in Ports /\ table[q] \in 0..now /\ <<ip, q, table[q]>> \in hits'
    <3>1. CASE q = p  BY <1>0, <2>2, <3>1
    <3>2. CASE q # p  BY <1>0, <1>2, <2>2, <3>2
    <3>3. QED  BY <3>1, <3>2
  <2>4. QED  BY <2>2, <2>3
<1>4. tables'[ip].expiration \in EntryTTL..now + EntryTTL
  <2>1. CASE Has(tables, ip, now)  BY <1>a, <1>0, <2>1 DEF Has, ScanTypeOK
  <2>2. CASE ~Has(tables, ip, now)  BY <1>b, <1>0, <2>2
  <2>3. QED  BY <2>1, <2>2
<1> HIDE DEF table
<1>5. ScanTypeOK'
  <2>1. DOMAIN tables' \subseteq Ips  BY <1>a, <1>0 DEF ScanTypeOK
  <2>2. ASSUME NEW x \in DOMAIN tables'
        PROVE  /\ tables'[x].expiration \in EntryTTL..now + EntryTTL
               /\ DOMAIN tables'[x].value \subseteq Ports
               /\ \A q \in DOMAIN tables'[x].value : tables'[x].value[q] \in 0..now
    <3>1. CASE x = ip  BY <1>3, <1>4, <3>1 DEF table
    <3>2. CASE x # ip  BY <1>a, <1>0, <3>2 DEF ScanTypeOK
    <3>3. QED  BY <3>1, <3>2
  <2>3. lateHits' \subseteq Ips  BY <1>a, <1>0 DEF ScanTypeOK
  <2>4. hits' \subseteq Ips \X Ports \X (0..now)  BY <1>0, <1>1
  <2>5. report' \in [ip : Ips \cup {"none"}, ts : 0..now, scan : BOOLEAN]
    BY <1>0 DEF IsScan
  <2>6. QED  BY <1>0, <1>b, <2>1, <2>2, <2>3, <2>4, <2>5 DEF ScanTypeOK
<1>6. Shape'  BY <1>a, <1>0 DEF Shape
<1>7. TablesAreHits'
  <2> SUFFICES ASSUME NEW x \in DOMAIN tables', NEW q \in DOMAIN tables'[x].value
               PROVE  <<x, q, tables'[x].value[q]>> \in hits'
    BY DEF TablesAreHits
  <2>1. CASE x = ip  BY <1>3, <2>1 DEF table
  <2>2. CASE x # ip  BY <1>a, <1>0, <2>2 DEF TablesAreHits
  <2>3. QED  BY <2>1, <2>2
<1>8. PresentIsKept'
  <2> SUFFICES ASSUME NEW h \in hits', h[3] = now PROVE Has(tables', h[1], now)
    BY <1>0 DEF PresentIsKept
  <2>1. CASE h[1] = ip
    <3>1. now <= tables'[ip].expiration
      BY <1>0, <1>b DEF Has
    <3>2. QED  BY <1>0, <2>1, <3>1 DEF Has
  <2>2. CASE h[1] # ip
    <3>1. h \in hits  BY <1>0, <2>2
    <3>2. QED  BY <1>a, <1>0, <2>2, <3>1 DEF PresentIsKept, Has
  <2>3. QED  BY <2>1, <2>2
<1>9. TablesAreFull'
  <2>1. SUFFICES ASSUME NEW x \in DOMAIN tables' \ lateHits', NEW q \in Ports, NEW t \in 0..now,
                        <<x, q, t>> \in hits',
                        t >= tables'[x].expiration - EntryTTL,
                        \A h \in hits' : h[1] = x => h[3] <= t + ScanWindow
                 PROVE  q \in DOMAIN tables'[x].value /\ tables'[x].value[q] >= t
    BY <1>0 DEF TablesAreFull
  <2>2. CASE x # ip
    <3>1. x \in DOMAIN tables \ lateHits /\ tables'[x] = tables[x]  BY <1>0, <2>1, <2>2
    <3>2. <<x, q, t>> \in hits  BY <1>0, <2>1, <2>2
    <3>3. \A h \in hits : h[1] = x => h[3] <= t + ScanWindow  BY <1>0, <2>1
    <3>4. QED  BY <1>a, <2>1, <3>1, <3>2, <3>3 DEF TablesAreFull
  <2>3. CASE x = ip /\ q = p
    <3>1. \A h \in hits' : h[1] = ip => h[3] <= ts
      <4>1. ip \notin lateHits'  BY <2>1, <2>3
      <4>2. QED  BY <1>0, <4>1
    <3>2. t <= ts
      <4>1. <<x, q, t>>[1] = ip /\ <<x, q, t>>[3] = t  BY <2>3
      <4>2. QED  BY <2>1, <3>1, <4>1
    <3>3. QED  BY <1>3, <1>0, <2>3, <3>2 DEF table
  <2>4. CASE x = ip /\ q # p
    <3>1. <<ip, q, t>> \in hits  BY <1>0, <2>1, <2>4
    <3>2. ts <= t + ScanWindow
      <4>1. <<ip, p, ts>> \in hits'  BY <1>0
      <4>2. <<ip, p, ts>>[1] = x /\ <<ip, p, ts>>[3] = ts  BY <2>4
      <4>3. QED  BY <2>1, <4>1, <4>2
    <3>3. CASE Has(tables, ip, now)
      <4>1. ip \in DOMAIN tables \ lateHits /\ tables'[ip].expiration = tables[ip].expiration
        BY <1>0, <2>1, <2>4, <3>3 DEF Has
      <4>2. \A h \in hits : h[1] = ip => h[3] <= t + ScanWindow  BY <1>0, <2>1, <2>4
      <4>3. q \in DOMAIN tables[ip].value /\ tables[ip].value[q] >= t
        BY <1>a, <2>1, <2>4, <3>1, <4>1, <4>2 DEF TablesAreFull
      <4>4. Old(ip) = tables[ip].value  BY <3>3 DEF Old
      <4>5. Old(ip)[q] \in Int
        <5>1. q \in DOMAIN Old(ip)  BY <4>3, <4>4
        <5>2. Old(ip)[q] \in 0..now  BY <1>2, <5>1
        <5>3. QED  BY <5>2
      <4>6. Old(ip)[q] >= ts - ScanWindow  BY <1>0, <1>b, <3>2, <4>3, <4>4, <4>5
      <4>7. QED  BY <1>3, <2>4, <4>3, <4>4, <4>6 DEF table
    <3>4. CASE ~Has(tables, ip, now)
      <4>1. tables'[ip].expiration = now + EntryTTL  BY <1>0, <3>4
      <4>2. t = now  BY <1>b, <2>1, <2>4, <4>1
      <4>3. QED  BY <1>a, <3>1, <3>4, <4>2 DEF PresentIsKept
    <3>5. QED  BY <3>3, <3>4
  <2>5. QED  BY <2>2, <2>3, <2>4
<1>10. ReportStands'
  <2>1. report'.ip = ip /\ report'.ts = ts /\ report'.scan = IsScan(table)  BY <1>0 DEF table
  <2>2. ip \notin lateHits' => \A h \in hits' : h[1] = ip => h[3] <= ts  BY <1>0
  <2>3. QED  BY <2>1, <2>2 DEF ReportStands, table
<1>11. NoFalseScan'
  <2> DEFINE S == PortsHit(ip, From(ts), now)'
  <2> SUFFICES ASSUME IsScan(table) PROVE Cardinality(S) >= DistinctPorts
    BY <1>0 DEF NoFalseScan, table, PortsHit, From
  <2>1. S \in SUBSET Ports  BY DEF PortsHit
  <2>2. DOMAIN table \in SUBSET S
    <3> SUFFICES ASSUME NEW q \in DOMAIN table PROVE q \in S  OBVIOUS
    <3>1. table[q] \in From(ts)..now
      <4>1. table[q] \in 0..now /\ table[q] >= ts - ScanWindow  BY <1>3
      <4>2. ts \in 0..now  BY <1>0
      <4>3. QED  BY <4>1, <4>2, <1>b DEF From
    <3>2. QED  BY <1>0, <1>3, <3>1 DEF PortsHit, From
  <2> HIDE DEF S
  <2>3. QED  BY <2>1, <2>2, MorePorts, PortAssumption DEF IsScan
<1>12. QED  BY <1>5, <1>6, <1>7, <1>8, <1>9, <1>10, <1>11 DEF ScanInv

LEMMA ScanInvariance == ScanSpec => []ScanInv
<1>1. ScanInv /\ [ScanNext]_scanVars => ScanInv'
  <2> SUFFICES ASSUME ScanInv, [ScanNext]_scanVars PROVE ScanInv'  OBVIOUS
  <2>1. CASE UNCHANGED scanVars
    BY <2>1 DEF scanVars, ScanInv, ScanTypeOK, Shape, TablesAreHits, PresentIsKept, TablesAreFull,
                ReportStands, NoFalseScan, PortsHit, From
  <2>2. QED  BY <2>1, ScanTickStep, SweepStep, HitStep DEF ScanNext
<1>2. QED  BY <1>1, ScanStart, PTL DEF ScanSpec

-----------------------------------------------------------------------------
(* No table expires later than its lifetime from now, and no stamp in it   *)
(* is of the future, whatever expired, was swept or came late.             *)
THEOREM ScanTypes == ScanSpec => []ScanTypeOK
<1>1. ScanInv => ScanTypeOK  BY DEF ScanInv
<1>2. QED  BY <1>1, ScanInvariance, PTL

(* A port scan is reported only of an address that has hit DistinctPorts   *)
(* ports not longer than the window before the event.                      *)
THEOREM ReportsAreScans == ScanSpec => []NoFalseScan
<1>1. ScanInv => NoFalseScan  BY DEF ScanInv
<1>2. QED  BY <1>1, ScanInvariance, PTL

(* A scan of an address whose events come in order is reported, if the hits*)
(* came after its entry was made.                                          *)
THEOREM KeptScansAreReported == ScanSpec => []ScanIsSeenWhileKept
<1>1. ScanInv => ScanIsSeenWhileKept
  <2> DEFINE ip    == report.ip
             made  == tables[ip].expiration - EntryTTL
             first == IF From(report.ts) > made THEN From(report.ts) ELSE made
             S     == PortsHit(ip, first, report.ts)
             table == tables[ip].value
  <2> SUFFICES ASSUME ScanInv, ip \in DOMAIN tables \ lateHits, Cardinality(S) >= DistinctPorts
               PROVE  report.scan
    BY DEF ScanIsSeenWhileKept
  <2>1. /\ now \in Nat /\ report.ts \in 0..now /\ made \in Nat /\ DOMAIN table \in SUBSET Ports
        /\ ScanWindow \in Nat
    BY PortScanAssumption, PortAssumption DEF ScanInv, ScanTypeOK
  <2>2. S \in SUBSET DOMAIN table
    <3> SUFFICES ASSUME NEW q \in Ports, NEW t \in first..report.ts, <<ip, q, t>> \in hits
                 PROVE  q \in DOMAIN table
      BY DEF PortsHit
    <3>1. t \in 0..now /\ t >= made /\ report.ts <= t + ScanWindow
      BY <2>1 DEF From
    <3>2. \A h \in hits : h[1] = ip => h[3] <= t + ScanWindow
      <4>1. \A h \in hits : h[1] = ip => h[3] <= report.ts  BY DEF ScanInv, ReportStands
      <4>2. \A h \in hits : h[3] \in Nat  BY <2>1 DEF ScanInv, ScanTypeOK
      <4>3. QED  BY <2>1, <3>1, <4>1, <4>2
    <3>3. QED  BY <3>1, <3>2 DEF ScanInv, TablesAreFull
  <2>3. report.scan = IsScan(table)  BY DEF ScanInv, ReportStands
  <2> HIDE DEF S, table
  <2>4. Cardinality(S) <= Cardinality(DOMAIN table) /\ Cardinality(S) \in Nat
        /\ Cardinality(DOMAIN table) \in Nat
    BY <2>1, <2>2, MorePorts
  <2>5. Cardinality(DOMAIN table) >= DistinctPorts  BY <2>4, PortAssumption
  <2>6. QED  BY <2>3, <2>5 DEF IsScan
<1>2. QED  BY <1>1, ScanInvariance, PTL

-----------------------------------------------------------------------------
(*                               The analyzer                              *)

(* A mark expires DecidedTTL after the decision it stands for.             *)
MarksExpire ==
    \A ip \in DOMAIN decided :
        ip \in DOMAIN lastMade /\ decided[ip].expiration = lastMade[ip] + DecidedTTL

(* A decision whose mark is gone is older than that.                       *)
UnmarkedIsOld ==
    \A ip \in DOMAIN lastMade :
        /\ lastMade[ip] \in 0..now
        /\ ip \notin DOMAIN decided => now > lastMade[ip] + DecidedTTL

LoopInv == TypeOK /\ MarksExpire /\ UnmarkedIsOld

-----------------------------------------------------------------------------
(* Receiving from a channel, and sending to one.                           *)
LEMMA Received ==
    ASSUME NEW S, NEW q \in Seq(S), q # << >>
    PROVE  Head(q) \in S /\ Tail(q) \in Seq(S) /\ Len(Tail(q)) = Len(q) - 1 /\ Len(q) \in Nat
OBVIOUS

LEMMA Sent ==
    ASSUME NEW S, NEW q \in Seq(S), NEW e \in S
    PROVE  Append(q, e) \in Seq(S) /\ Len(Append(q, e)) = Len(q) + 1 /\ Len(q) \in Nat
OBVIOUS

(* What the cleanup leaves.                                                *)
LEMMA SweptEffect ==
    ASSUME NEW m, NEW t
    PROVE  /\ DOMAIN Swept(m, t) = {k \in DOMAIN m : t <= m[k].expiration}
           /\ \A x \in DOMAIN Swept(m, t) : Swept(m, t)[x] = m[x]
BY DEF Swept, Restrict

(* The marks say exactly which decisions are younger than DecidedTTL.      *)
LEMMA MarksAgree == LoopInv => MarksFollowDecisions
<1> SUFFICES ASSUME LoopInv, NEW ip \in Ips
             PROVE  Has(decided, ip, now)
                       <=> (ip \in DOMAIN lastMade /\ now <= lastMade[ip] + DecidedTTL)
  BY DEF MarksFollowDecisions
<1>1. now \in Nat /\ DecidedTTL \in Nat
  BY AnalyzerAssumption DEF LoopInv, TypeOK
<1>2. CASE ip \in DOMAIN decided
  BY <1>1, <1>2 DEF LoopInv, MarksExpire, Has
<1>3. CASE ip \notin DOMAIN decided
  BY <1>1, <1>3 DEF LoopInv, UnmarkedIsOld, Has
<1>4. QED  BY <1>2, <1>3

(* An event changes marks and decisions only when it is decided on, and    *)
(* then its address had neither.                                           *)
LEMMA EvaluateEffect ==
    ASSUME TypeOK, Evaluate
    PROVE  /\ in # << >> /\ in' = Tail(in) /\ UNCHANGED <<now, ending, arrived>>
           /\ \/ UNCHANGED <<decided, out, lastMade, emitted>>
              \/ \E reason \in {"rate", "portscan"} :
                    ~Spared(Head(in).ip) /\ Decide(Head(in).ip, reason)
           /\ Head(in).ip \in Ips
           /\ Spared(Head(in).ip) => UNCHANGED <<rates, scans>>
           /\ DOMAIN rates' \subseteq DOMAIN rates \cup {Head(in).ip}
           /\ DOMAIN scans' \subseteq DOMAIN scans \cup {Head(in).ip}
<1> DEFINE ev == Head(in)
<1>1. in # << >> /\ in' = Tail(in) /\ UNCHANGED <<now, ending, arrived>>  BY DEF Evaluate
<1>2. ev.ip \in Ips
  <2>1. ev \in [ip : Ips, port : Ports, ts : 0..now]  BY <1>1, Received DEF TypeOK
  <2>2. QED  BY <2>1
<1>3. \/ UNCHANGED <<decided, out, lastMade, emitted>>
      \/ \E reason \in {"rate", "portscan"} : ~Spared(ev.ip) /\ Decide(ev.ip, reason)
  BY DEF Evaluate, Undecided, history
<1>4. rates' = rates \/ rates' = Upd(rates, ev.ip, RateAfter(ev))  BY DEF Evaluate
<1>5. DOMAIN rates' \subseteq DOMAIN rates \cup {ev.ip}  BY <1>4 DEF Upd
<1>6. scans' = scans \/ scans' = ScansAfter(ev)  BY DEF Evaluate
<1>7. DOMAIN ScansAfter(ev) \subseteq DOMAIN scans \cup {ev.ip}
  BY DEF ScansAfter, Set
<1>8. Spared(ev.ip) => UNCHANGED <<rates, scans>>  BY DEF Evaluate
<1> HIDE DEF ev
<1>9. DOMAIN scans' \subseteq DOMAIN scans \cup {ev.ip}  BY <1>6, <1>7
<1>10. QED  BY <1>1, <1>2, <1>3, <1>5, <1>8, <1>9 DEF ev

(* The invariant holds at the start.                                       *)
LEMMA LoopStart == Init => LoopInv
<1> SUFFICES ASSUME Init PROVE LoopInv  OBVIOUS
<1>1. now \in 0..MaxTime /\ Len(in) <= InCap /\ Len(out) <= OutCap
  BY AnalyzerAssumption DEF Init
<1>2. /\ in \in Seq([ip : Ips, port : Ports, ts : 0..now])
      /\ out \in Seq([ip : Public, reason : {"rate", "portscan"}])
  BY DEF Init
<1>3. {rates, scans, decided, lastMade} = {EmptyMap} /\ DOMAIN EmptyMap = {}
  BY DEF Init, EmptyMap
<1>4. QED
  BY <1>1, <1>2, <1>3 DEF Init, LoopInv, TypeOK, MarksExpire, UnmarkedIsOld

(* Every step keeps the types; private addresses stay out of the maps and  *)
(* of the decisions.                                                       *)
LEMMA TypeStep == TypeOK /\ [Next]_vars => TypeOK'
<1> SUFFICES ASSUME TypeOK, [Next]_vars PROVE TypeOK'  OBVIOUS
<1> DEFINE Events(t) == [ip : Ips, port : Ports, ts : 0..t]
           Decisions == [ip : Public, reason : {"rate", "portscan"}]
<1>a. /\ now \in 0..MaxTime /\ in \in Seq(Events(now)) /\ Len(in) <= InCap
      /\ out \in Seq(Decisions) /\ Len(out) <= OutCap
  BY DEF TypeOK
<1> USE AnalyzerAssumption
<1>1. ASSUME NEW ip \in Ips, NEW p \in Ports, Arrive(ip, p) PROVE TypeOK'
  <2>1. [ip |-> ip, port |-> p, ts |-> now] \in Events(now)  BY <1>a
  <2> DEFINE e == [ip |-> ip, port |-> p, ts |-> now]
  <2>2. in' = Append(in, e) /\ Len(in) < InCap /\ now' = now  BY <1>1 DEF Arrive
  <2> HIDE DEF e, Events
  <2>3. in' \in Seq(Events(now)) /\ Len(in') <= InCap
    BY <1>a, <2>1, <2>2, Sent DEF e
  <2>4. QED
    BY <1>1, <2>2, <2>3 DEF Arrive, ending, detectors, history, TypeOK, Events
<1>2. CASE Evaluate
  <2>1. in' \in Seq(Events(now)) /\ Len(in') <= InCap
    <3> HIDE DEF Events
    <3>1. in # << >> /\ in' = Tail(in)  BY <1>2, EvaluateEffect
    <3>2. QED  BY <1>a, <3>1, Received
  <2>2. UNCHANGED <<now, cancelled, inClosed, returned>>
    BY <1>2, EvaluateEffect DEF ending
  <2>3. DOMAIN rates' \subseteq Public /\ DOMAIN scans' \subseteq Public
    <3>1. CASE Spared(Head(in).ip)
      BY <1>2, <3>1, EvaluateEffect DEF TypeOK
    <3>2. CASE ~Spared(Head(in).ip)
      <4>1. Head(in).ip \in Public  BY <1>2, <3>2, EvaluateEffect DEF Spared, Public
      <4>2. QED  BY <1>2, <4>1, EvaluateEffect DEF TypeOK
    <3>3. QED  BY <3>1, <3>2
  <2>4. CASE UNCHANGED <<decided, out, lastMade, emitted>>
    BY <2>1, <2>2, <2>3, <2>4 DEF TypeOK
  <2>5. ASSUME NEW ip \in Public, NEW reason \in {"rate", "portscan"}, Decide(ip, reason)
        PROVE  TypeOK'
    <3> DEFINE d == [ip |-> ip, reason |-> reason]
    <3>1. d \in Decisions  OBVIOUS
    <3>2. \/ Len(out) < OutCap /\ out' = Append(out, d) /\ emitted' = emitted \cup {ip}
          \/ out' = out /\ emitted' = emitted \ {ip}
      BY <2>5 DEF Decide, Emit
    <3> HIDE DEF d, Decisions
    <3>3. out' \in Seq(Decisions) /\ Len(out') <= OutCap  BY <1>a, <3>1, <3>2, Sent, SMTT(30)
    <3>4. DOMAIN decided' \subseteq Public
      BY <2>5 DEF Decide, Set, TypeOK
    <3>5. DOMAIN lastMade' \subseteq Public /\ emitted' \subseteq DOMAIN lastMade'
      BY <2>5, <3>2 DEF Decide, Upd, TypeOK
    <3>6. QED  BY <2>1, <2>2, <2>3, <3>3, <3>4, <3>5 DEF TypeOK, Decisions
  <2>6. QED  BY <1>2, <2>4, <2>5, EvaluateEffect DEF Spared, Public
<1>3. CASE Consume
  <2> HIDE DEF Decisions
  <2>1. out' \in Seq(Decisions) /\ Len(out') <= OutCap
    BY <1>3, <1>a, Received DEF Consume
  <2>2. QED  BY <1>3, <2>1 DEF Consume, ending, detectors, history, TypeOK, Decisions
<1>4. CASE Cancel \/ CloseIn \/ Return
  BY <1>4 DEF Cancel, CloseIn, Return, detectors, history, TypeOK
<1>5. CASE Sweep
  <2>1. DOMAIN decided' \subseteq DOMAIN decided /\ DOMAIN scans' \subseteq DOMAIN scans
    BY <1>5 DEF Sweep, Swept, Restrict
  <2>2. QED  BY <1>5, <2>1 DEF Sweep, ending, history, TypeOK
<1>6. CASE Tick
  <2>1. now' \in 0..MaxTime /\ Events(now) \subseteq Events(now')
    BY <1>6, <1>a DEF Tick
  <2> HIDE DEF Events
  <2>2. in' \in Seq(Events(now'))  BY <1>6, <1>a, <2>1 DEF Tick
  <2>3. QED  BY <1>6, <2>1, <2>2 DEF Tick, ending, detectors, history, TypeOK, Events
<1>7. CASE UNCHANGED vars
  BY <1>7 DEF vars, TypeOK
<1>8. QED  BY <1>1, <1>2, <1>3, <1>4, <1>5, <1>6, <1>7 DEF Next

(* A decision sets the mark, the cleanup takes only marks that are over,   *)
(* and the clock only grows.                                               *)
LEMMA MarkStep == LoopInv /\ [Next]_vars => MarksExpire' /\ UnmarkedIsOld'
<1> SUFFICES ASSUME TypeOK, MarksExpire, UnmarkedIsOld, [Next]_vars
             PROVE  MarksExpire' /\ UnmarkedIsOld'
  BY DEF LoopInv
<1>a. now \in Nat /\ DecidedTTL \in Nat  BY AnalyzerAssumption DEF TypeOK
<1>1. CASE UNCHANGED <<now, decided, lastMade>>
  BY <1>1 DEF MarksExpire, UnmarkedIsOld
<1>2. ASSUME NEW ip, NEW reason, Decide(ip, reason), now' = now
      PROVE  MarksExpire' /\ UnmarkedIsOld'
  <2>1. /\ DOMAIN decided' = DOMAIN decided \cup {ip}
        /\ decided'[ip].expiration = now + DecidedTTL
        /\ \A x \in DOMAIN decided : x # ip => decided'[x] = decided[x]
    BY <1>2 DEF Decide, Set
  <2>2. /\ DOMAIN lastMade' = DOMAIN lastMade \cup {ip}
        /\ lastMade'[ip] = now
        /\ \A x \in DOMAIN lastMade : x # ip => lastMade'[x] = lastMade[x]
    BY <1>2 DEF Decide, Upd
  <2>3. MarksExpire'  BY <2>1, <2>2 DEF MarksExpire
  <2>4. UnmarkedIsOld'  BY <1>2, <1>a, <2>1, <2>2 DEF UnmarkedIsOld
  <2>5. QED  BY <2>3, <2>4
<1>3. CASE Evaluate
  BY <1>1, <1>2, <1>3, EvaluateEffect
<1>4. ASSUME decided' = Swept(decided, now), UNCHANGED <<now, lastMade>>
      PROVE  MarksExpire' /\ UnmarkedIsOld'
  <2>1. /\ DOMAIN decided' = {k \in DOMAIN decided : now <= decided[k].expiration}
        /\ \A x \in DOMAIN decided' : decided'[x] = decided[x]
    BY <1>4, SweptEffect
  <2>2. MarksExpire'  BY <1>4, <2>1 DEF MarksExpire
  <2>3. UnmarkedIsOld'
    <3> SUFFICES ASSUME NEW ip \in DOMAIN lastMade, ip \notin DOMAIN decided'
                 PROVE  now > lastMade[ip] + DecidedTTL
      BY <1>4 DEF UnmarkedIsOld
    <3>1. lastMade[ip] \in Nat  BY <1>a DEF UnmarkedIsOld
    <3>2. CASE ip \in DOMAIN decided
      BY <1>a, <2>1, <3>1, <3>2 DEF MarksExpire
    <3>3. CASE ip \notin DOMAIN decided  BY <3>3 DEF UnmarkedIsOld
    <3>4. QED  BY <3>2, <3>3
  <2>4. QED  BY <2>2, <2>3
<1>5. CASE Sweep
  BY <1>1, <1>4, <1>5 DEF Sweep, history
<1>6. CASE Tick
  <2>1. now' = now + 1 /\ UNCHANGED <<decided, lastMade>>
    BY <1>6 DEF Tick, detectors, history
  <2>2. QED  BY <1>a, <2>1 DEF MarksExpire, UnmarkedIsOld
<1>7. CASE (\E ip \in Ips, p \in Ports : Arrive(ip, p)) \/ Consume \/ Cancel \/ CloseIn \/ Return
  BY <1>1, <1>7 DEF Arrive, Consume, Cancel, CloseIn, Return, detectors, history
<1>8. CASE UNCHANGED vars  BY <1>1, <1>8 DEF vars
<1>9. QED  BY <1>3, <1>5, <1>6, <1>7, <1>8 DEF Next

LEMMA LoopInvariance == Spec => []LoopInv
<1>1. LoopInv /\ [Next]_vars => LoopInv'  BY TypeStep, MarkStep DEF LoopInv
<1>2. QED  BY <1>1, LoopStart, PTL DEF Spec

-----------------------------------------------------------------------------
(* The channels keep to their capacities, and what the analyzer remembers  *)
(* and emits is of public addresses only.                                  *)
THEOREM AnalyzerTypes == Spec => []TypeOK
<1>1. LoopInv => TypeOK  BY DEF LoopInv
<1>2. QED  BY <1>1, LoopInvariance, PTL

(* A mark in recentlyDecided stands for a decision made at most DecidedTTL *)
(* ago, and every decision that young has one, whichever way expiry and    *)
(* cleanup fall together.                                                  *)
THEOREM MarksAreExact == Spec => []MarksFollowDecisions
<1>1. QED  BY LoopInvariance, MarksAgree, PTL

(* No address is decided on twice within DecidedTTL, whatever the events,  *)
(* the detectors and the cleanup do.                                       *)
THEOREM NoSecondDecision == Spec => DecisionsAreSpaced
<1>1. LoopInv /\ [Next]_vars =>
         [\A ip \in DOMAIN lastMade :
             lastMade'[ip] # lastMade[ip] => now > lastMade[ip] + DecidedTTL]_vars
  <2> SUFFICES ASSUME LoopInv, [Next]_vars, NEW x \in DOMAIN lastMade,
                      lastMade'[x] # lastMade[x]
               PROVE  now > lastMade[x] + DecidedTTL
    OBVIOUS
  <2>1. TypeOK /\ MarksFollowDecisions /\ UnmarkedIsOld  BY MarksAgree DEF LoopInv
  <2>2. Evaluate
    BY DEF Next, Arrive, Consume, Cancel, CloseIn, Return, Sweep, Tick, vars, history
  <2>3. PICK reason \in {"rate", "portscan"} :
           ~Spared(Head(in).ip) /\ Decide(Head(in).ip, reason)
    BY <2>1, <2>2, EvaluateEffect
  <2>4. x = Head(in).ip  BY <2>3 DEF Decide, Upd
  <2>5. ~Has(decided, x, now) /\ x \in Ips
    BY <2>1, <2>2, <2>3, <2>4, EvaluateEffect DEF Spared
  <2>6. ~(now <= lastMade[x] + DecidedTTL)
    BY <2>1, <2>5 DEF MarksFollowDecisions
  <2>7. now \in Nat /\ DecidedTTL \in Nat /\ lastMade[x] \in Nat
    BY <2>1, AnalyzerAssumption DEF TypeOK, UnmarkedIsOld
  <2>8. QED  BY <2>6, <2>7
<1>2. QED  BY <1>1, LoopInvariance, PTL DEF Spec, DecisionsAreSpaced

(* Private, loopback and link-local addresses are never decided on, and    *)
(* take no room in the detectors.                                          *)
THEOREM PrivateIsSpared ==
    Spec => [](/\ \A i \in DOMAIN out : out[i].ip \notin PrivateIps
               /\ (DOMAIN rates \cup DOMAIN scans) \cap PrivateIps = {})
<1>1. LoopInv => /\ \A i \in DOMAIN out : out[i].ip \notin PrivateIps
              /\ (DOMAIN rates \cup DOMAIN scans) \cap PrivateIps = {}
  <2> SUFFICES ASSUME TypeOK
               PROVE  /\ \A i \in DOMAIN out : out[i].ip \notin PrivateIps
                      /\ (DOMAIN rates \cup DOMAIN scans) \cap PrivateIps = {}
    BY DEF LoopInv
  <2>1. \A i \in DOMAIN out : out[i].ip \in Public
    <3> DEFINE Decisions == [ip : Public, reason : {"rate", "portscan"}]
    <3>1. out \in Seq(Decisions)  BY DEF TypeOK
    <3>2. \A e \in Decisions : e.ip \in Public  OBVIOUS
    <3> HIDE DEF Decisions
    <3>3. \A i \in DOMAIN out : out[i] \in Decisions  BY <3>1
    <3>4. QED  BY <3>2, <3>3
  <2>2. QED  BY <2>1 DEF TypeOK, Public
<1>2. QED  BY <1>1, LoopInvariance, PTL
=============================================================================
