---------------------------- MODULE CaptureProofs ----------------------------
(***************************************************************************)
(* What loader and collector promise beside the running program, for every *)
(* configuration file, every width of the map's fields, and all capacities *)
(* of the buffers and of the channel.                                      *)
(***************************************************************************)
EXTENDS Capture, FiniteSetTheorems, SumTheorems, TLAPS

(* What the process holds, by how far New and Close have come.             *)
Holdings ==
    /\ loader \in {"none", "failed", "closed", "dead"} => ~objects
    /\ loader \in {"opened", "configured"} => objects
    /\ attached => objects /\ loader = "up"

(* The entry that New wrote before it attached the program.                *)
Entry == [coarse_pps_limit |-> Load!uint32(file.coarsePPSLimit),
          sample_every_n   |-> Load!uint32(file.sampleEveryN), enabled |-> 1]

Configured == loader = "configured" \/ attached => config_map = <<Entry>>

LoaderInv ==
    /\ objects \in BOOLEAN /\ attached \in BOOLEAN
    /\ loader \in {"none", "opened", "configured", "up", "failed", "closed", "dead"}
    /\ file \in Files /\ Load!ValidDatapath(file)
    /\ Holdings /\ Configured

-----------------------------------------------------------------------------
(* 2^Width is the number of the subsets of a set of that size.             *)
LEMMA PowerOfTwo == 2^Width \in Nat
<1>1. IsFiniteSet(1..Width) /\ Cardinality(1..Width) = Width
  BY CaptureAssumption, FS_Interval
<1>2. IsFiniteSet(SUBSET (1..Width)) /\ Cardinality(SUBSET (1..Width)) = 2^Width
  BY <1>1, FS_SUBSET
<1>3. QED  BY <1>2, FS_CardinalityType

(* A number that fits the field is stored as it is.                        *)
LEMMA Fits == ASSUME NEW n \in Nat, n < 2^Width PROVE Load!uint32(n) = n
BY PowerOfTwo DEF Load!uint32

(* Each step of the loader keeps the invariant.                            *)
LEMMA LoaderStep == LoaderInv /\ [Load!Next]_loaderVars => LoaderInv'
<1> SUFFICES ASSUME LoaderInv, [Load!Next]_loaderVars PROVE LoaderInv'  OBVIOUS
<1> USE DEF LoaderInv, Holdings
<1>a. file' = file => Entry' = Entry /\ Load!ValidDatapath(file)'
  BY DEF Entry, Load!uint32, Load!ValidDatapath
<1>1. CASE Load!Open
  <2>1. loader = "none" /\ ~objects /\ ~attached  BY <1>1 DEF Load!Open
  <2>2. CASE loader' = "failed" /\ UNCHANGED objects
    BY <1>1, <1>a, <2>1, <2>2 DEF Load!Open, Configured
  <2>3. CASE loader' = "opened" /\ objects' = TRUE
    BY <1>1, <1>a, <2>1, <2>3 DEF Load!Open, Configured
  <2>4. QED  BY <1>1, <2>2, <2>3 DEF Load!Open
<1>2. CASE Load!OpenDarwin  BY <1>2, <1>a DEF Load!OpenDarwin, Configured
<1>3. CASE Load!WriteConfig
  <2>1. loader = "opened" /\ objects /\ ~attached  BY <1>3 DEF Load!WriteConfig
  <2>2. CASE Load!Fail  BY <1>a, <2>1, <2>2 DEF Load!Fail, Configured
  <2>3. CASE ~Load!Fail
    <3>1. loader' = "configured" /\ config_map' = <<Entry>> /\ UNCHANGED <<file, objects, attached>>
      BY <1>3, <2>3 DEF Load!WriteConfig, Entry
    <3>2. QED  BY <1>a, <2>1, <3>1 DEF Configured
  <2>4. QED  BY <2>2, <2>3
<1>4. CASE Load!Attach
  <2>1. loader = "configured" /\ objects /\ ~attached  BY <1>4 DEF Load!Attach
  <2>2. CASE Load!Fail  BY <1>a, <2>1, <2>2 DEF Load!Fail, Configured
  <2>3. CASE ~Load!Fail
    BY <1>4, <1>a, <2>1, <2>3 DEF Load!Attach, Configured
  <2>4. QED  BY <2>2, <2>3
<1>5. CASE Load!Close
  <2>1. loader = "up" /\ attached' = FALSE /\ file' = file /\ loader' \in {"up", "closed"}
        /\ objects' \in BOOLEAN /\ (loader' = "closed" => ~objects')
    BY <1>5 DEF Load!Close
  <2>2. QED  BY <1>a, <2>1 DEF Configured
<1>6. CASE Load!Die  BY <1>6, <1>a DEF Load!Die, Configured
<1>7. CASE UNCHANGED loaderVars  BY <1>7, <1>a DEF loaderVars, Configured
<1>8. QED  BY <1>1, <1>2, <1>3, <1>4, <1>5, <1>6, <1>7 DEF Load!Next, Load!New

(* Nothing but the loader touches what it holds.                           *)
LEMMA LoaderInvariance == CaptureSpec => []LoaderInv
<1>1. CaptureInit => LoaderInv
  BY DEF CaptureInit, Load!Init, LoaderInv, Holdings, Configured
<1>2. LoaderInv /\ [CaptureNext]_CaptureVars => LoaderInv'
  BY LoaderStep DEF CaptureNext, CaptureVars
<1>3. QED  BY <1>1, <1>2, PTL DEF CaptureSpec

(* A failed New, a successful Close and the end of the process leave       *)
(* neither program nor maps, and the program never runs without its maps.  *)
THEOREM LoaderCleansUp == CaptureSpec => []NothingIsLeftBehind
<1>1. LoaderInv => NothingIsLeftBehind
  BY DEF LoaderInv, Holdings, NothingIsLeftBehind, Load!NothingIsLeftBehind
<1>2. QED  BY <1>1, LoaderInvariance, PTL

(* Wherever the program is attached its map is enabled and has the limits  *)
(* of the file, for every file that Validate accepts, if they fit.         *)
THEOREM ConfigComesFirst == CaptureSpec => []PacketsMeetTheConfig
<1>1. LoaderInv => PacketsMeetTheConfig
  <2> SUFFICES ASSUME LoaderInv, attached
               PROVE  \E entry \in {config_map[i] : i \in DOMAIN config_map} :
                        /\ entry.enabled = 1
                        /\ file.coarsePPSLimit < 2^Width =>
                              entry.coarse_pps_limit = file.coarsePPSLimit
                        /\ file.sampleEveryN < 2^Width =>
                              entry.sample_every_n = file.sampleEveryN
    BY DEF PacketsMeetTheConfig, Load!PacketsMeetTheConfig
  <2>1. file.coarsePPSLimit \in Nat /\ file.sampleEveryN \in Nat
    <3>1. file \in Files /\ file.coarsePPSLimit >= 0 /\ file.sampleEveryN > 0
      BY DEF LoaderInv, Load!ValidDatapath
    <3>2. file.coarsePPSLimit \in Int /\ file.sampleEveryN \in Int
      BY <3>1, CaptureAssumption
    <3>3. QED  BY <3>1, <3>2
  <2>2. config_map = <<Entry>>  BY DEF LoaderInv, Configured
  <2>3. Entry \in {config_map[i] : i \in DOMAIN config_map}  BY <2>2
  <2>4. /\ Entry.enabled = 1
        /\ file.coarsePPSLimit < 2^Width => Entry.coarse_pps_limit = file.coarsePPSLimit
        /\ file.sampleEveryN < 2^Width => Entry.sample_every_n = file.sampleEveryN
    BY <2>1, Fits DEF Entry
  <2> HIDE DEF Entry
  <2>5. QED  BY <2>3, <2>4
<1>2. QED  BY <1>1, LoaderInvariance, PTL

-----------------------------------------------------------------------------
Record == [n : Nat, good : BOOLEAN, lost : Nat]

(* The numbers of the good samples in a buffer grow, up to the last one    *)
(* written; what has been sent, and what is in hand, is older.             *)
RingInOrder(c) ==
    /\ \A i \in DOMAIN ring[c] : ring[c][i].n <= emitted[c]
    /\ \A i, j \in DOMAIN ring[c] :
          i < j /\ ring[c][i].good /\ ring[c][j].good => ring[c][i].n < ring[c][j].n

SentIsOlder(c) ==
    /\ \A k \in DOMAIN parsed[c] : parsed[c][k] <= emitted[c]
    /\ \A k \in DOMAIN parsed[c], i \in DOMAIN ring[c] :
          ring[c][i].good => parsed[c][k] < ring[c][i].n
    /\ \A i, j \in DOMAIN parsed[c] : i < j => parsed[c][i] < parsed[c][j]

HandIsBetween ==
    pc = "send" =>
        /\ hand.cpu \in CPUs /\ hand.n \in Nat /\ hand.n <= emitted[hand.cpu]
        /\ \A i \in DOMAIN ring[hand.cpu] :
              ring[hand.cpu][i].good => hand.n < ring[hand.cpu][i].n
        /\ \A k \in DOMAIN parsed[hand.cpu] : parsed[hand.cpu][k] < hand.n

OrderInv ==
    /\ emitted \in [CPUs -> Nat] /\ lost \in [CPUs -> Nat]
    /\ ring \in [CPUs -> Seq(Record)] /\ parsed \in [CPUs -> Seq(Nat)]
    /\ \A c \in CPUs : RingInOrder(c) /\ SentIsOlder(c)
    /\ HandIsBetween

-----------------------------------------------------------------------------
(* A record put at the end of a buffer.                                    *)
LEMMA Put ==
    ASSUME NEW S, NEW q \in Seq(S), NEW e \in S
    PROVE  /\ q \o <<e>> \in Seq(S) /\ Len(q \o <<e>>) = Len(q) + 1 /\ Len(q) \in Nat
           /\ \A i \in DOMAIN (q \o <<e>>) :
                 /\ i \in Nat /\ i <= Len(q) + 1
                 /\ \/ i \in DOMAIN q /\ i <= Len(q) /\ (q \o <<e>>)[i] = q[i]
                    \/ i = Len(q) + 1 /\ i \notin DOMAIN q /\ (q \o <<e>>)[i] = e
<1>1. q \o <<e>> = Append(q, e)  OBVIOUS
<1>2. QED  BY <1>1

(* A sample written behind a report, if any: what was there keeps its      *)
(* place, a report is no good sample, and the sample is the last record.   *)
LEMMA Written ==
    ASSUME NEW S, NEW q \in Seq(S), NEW rep \in S, NEW s \in S,
           NEW r \in {<< >>, <<rep>>}
    PROVE  /\ q \o r \o <<s>> \in Seq(S)
           /\ \A i \in DOMAIN (q \o r \o <<s>>) :
                 /\ i \in Nat /\ i <= Len(q \o r \o <<s>>)
                 /\ \/ i \in DOMAIN q /\ (q \o r \o <<s>>)[i] = q[i]
                    \/ i \notin DOMAIN q /\ (q \o r \o <<s>>)[i] = rep
                    \/ i \notin DOMAIN q /\ i = Len(q \o r \o <<s>>)
                       /\ (q \o r \o <<s>>)[i] = s
<1>1. CASE r = <<rep>>
  <2> DEFINE p == q \o <<rep>>
  <2>1. /\ p \in Seq(S) /\ Len(p) = Len(q) + 1 /\ Len(q) \in Nat
        /\ \A i \in DOMAIN p :
              \/ i \in DOMAIN q /\ i <= Len(q) /\ p[i] = q[i]
              \/ i = Len(q) + 1 /\ i \notin DOMAIN q /\ p[i] = rep
    BY Put
  <2>2. DOMAIN q = 1..Len(q)  OBVIOUS
  <2> HIDE DEF p
  <2>3. /\ p \o <<s>> \in Seq(S) /\ Len(p \o <<s>>) = Len(p) + 1
        /\ \A i \in DOMAIN (p \o <<s>>) :
              /\ i \in Nat /\ i <= Len(p) + 1
              /\ \/ i \in DOMAIN p /\ i <= Len(p) /\ (p \o <<s>>)[i] = p[i]
                 \/ i = Len(p) + 1 /\ i \notin DOMAIN p /\ (p \o <<s>>)[i] = s
    BY <2>1, Put
  <2>4. /\ p \o <<s>> \in Seq(S)
        /\ \A i \in DOMAIN (p \o <<s>>) :
              /\ i \in Nat /\ i <= Len(p \o <<s>>)
              /\ \/ i \in DOMAIN q /\ (p \o <<s>>)[i] = q[i]
                 \/ i \notin DOMAIN q /\ (p \o <<s>>)[i] = rep
                 \/ i \notin DOMAIN q /\ i = Len(p \o <<s>>) /\ (p \o <<s>>)[i] = s
    BY <2>1, <2>2, <2>3
  <2>5. QED  BY <1>1, <2>4 DEF p
<1>2. CASE r = << >>
  <2>1. q \o r = q  BY <1>2
  <2>2. QED  BY <2>1, Put
<1>3. QED  BY <1>1, <1>2

(* A write keeps the order of its buffer, and of what was sent before it.  *)
LEMMA EmitStep ==
    ASSUME OrderInv, NEW c \in CPUs, NEW good \in BOOLEAN, Emit(c, good)
    PROVE  OrderInv'
<1> DEFINE sample == [n |-> emitted[c] + 1, good |-> good, lost |-> 0]
           rep    == [n |-> 0, good |-> FALSE, lost |-> lost[c]]
           report == IF lost[c] > 0 THEN <<rep>> ELSE << >>
           longer == ring[c] \o report \o <<sample>>
<1>1. /\ emitted' = [emitted EXCEPT ![c] = @ + 1]
      /\ UNCHANGED <<pc, hand, parsed>>
      /\ \/ ring' = ring /\ lost' = lost
         \/ ring' = [ring EXCEPT ![c] = longer] /\ lost' = [lost EXCEPT ![c] = 0]
         \/ ring' = ring /\ lost' = [lost EXCEPT ![c] = @ + 1]
  BY DEF Emit
<1>2. /\ emitted \in [CPUs -> Nat] /\ lost \in [CPUs -> Nat]
      /\ ring \in [CPUs -> Seq(Record)] /\ parsed \in [CPUs -> Seq(Nat)]
      /\ emitted[c] \in Nat /\ ring[c] \in Seq(Record)
  BY DEF OrderInv
<1>3. /\ sample \in Record /\ sample.n = emitted[c] + 1
      /\ rep \in Record /\ rep.good = FALSE /\ rep.n = 0
      /\ report \in {<< >>, <<rep>>}
  BY <1>2 DEF Record
<1> HIDE DEF sample, rep
<1>4. /\ longer \in Seq(Record)
      /\ \A i \in DOMAIN longer :
            /\ i \in Nat /\ i <= Len(longer)
            /\ \/ i \in DOMAIN ring[c] /\ longer[i] = ring[c][i]
               \/ i \notin DOMAIN ring[c] /\ longer[i] = rep
               \/ i \notin DOMAIN ring[c] /\ i = Len(longer) /\ longer[i] = sample
  BY <1>2, <1>3, Written
<1> HIDE DEF longer
<1>5. /\ emitted' \in [CPUs -> Nat] /\ lost' \in [CPUs -> Nat]
      /\ ring' \in [CPUs -> Seq(Record)] /\ parsed' \in [CPUs -> Seq(Nat)]
  <2>1. emitted' \in [CPUs -> Nat]  BY <1>1, <1>2
  <2>2. lost' \in [CPUs -> Nat]
    <3>1. \/ lost' = lost \/ lost' = [lost EXCEPT ![c] = 0]
          \/ lost' = [lost EXCEPT ![c] = @ + 1]
      BY <1>1
    <3>2. CASE lost' = [lost EXCEPT ![c] = 0]  BY <1>2, <3>2
    <3>3. CASE lost' = [lost EXCEPT ![c] = @ + 1]  BY <1>2, <3>3
    <3>4. QED  BY <1>2, <3>1, <3>2, <3>3
  <2>3. longer \in Seq(Record)  BY <1>4
  <2>4. ring' = ring \/ ring' = [ring EXCEPT ![c] = longer]  BY <1>1
  <2>5. ring' \in [CPUs -> Seq(Record)]  BY <1>2, <2>3, <2>4
  <2>6. QED  BY <1>1, <1>2, <2>1, <2>2, <2>5
<1>6. \A d \in CPUs : emitted[d] \in Nat /\ emitted'[d] \in Nat /\ emitted[d] <= emitted'[d]
  BY <1>1, <1>2
<1>7. emitted'[c] = emitted[c] + 1  BY <1>1, <1>2
<1>8. \A d \in CPUs : ring'[d] = ring[d] \/ (d = c /\ ring'[d] = longer)
  <2>1. CASE ring' = ring  BY <2>1
  <2>2. CASE ring' = [ring EXCEPT ![c] = longer]
    <3>1. DOMAIN ring = CPUs  BY <1>2
    <3>2. ring' = [d \in CPUs |-> IF d = c THEN longer ELSE ring[d]]  BY <2>2, <3>1
    <3>3. QED  BY <3>2
  <2>3. QED  BY <1>1, <2>1, <2>2
<1>9. \A d \in CPUs : \A i \in DOMAIN ring[d] : ring[d][i] \in Record /\ ring[d][i].n \in Nat
  <2>1. \A d \in CPUs : \A i \in DOMAIN ring[d] : ring[d][i] \in Record  BY <1>2
  <2>2. \A r \in Record : r.n \in Nat  BY DEF Record
  <2>3. QED  BY <2>1, <2>2
<1>10. \A d \in CPUs : \A k \in DOMAIN parsed[d] : parsed[d][k] \in Nat  BY <1>2
<1>11. ASSUME NEW d \in CPUs PROVE RingInOrder(d)' /\ SentIsOlder(d)'
  <2>1. RingInOrder(d) /\ SentIsOlder(d)  BY DEF OrderInv
  <2>2. CASE ring'[d] = ring[d]
    <3>1. RingInOrder(d)'  BY <1>6, <1>9, <2>1, <2>2 DEF RingInOrder
    <3>2. SentIsOlder(d)'  BY <1>1, <1>6, <1>10, <2>1, <2>2 DEF SentIsOlder
    <3>3. QED  BY <3>1, <3>2
  <2>3. CASE d = c /\ ring'[d] = longer
    <3>1. \A i \in DOMAIN longer : longer[i].n <= emitted'[c]
      <4> TAKE i \in DOMAIN longer
      <4>1. CASE i \in DOMAIN ring[c] /\ longer[i] = ring[c][i]
        <5>1. ring[c][i].n \in Nat /\ ring[c][i].n <= emitted[c]
          BY <1>9, <2>1, <2>3, <4>1 DEF RingInOrder
        <5>2. QED  BY <1>2, <1>7, <4>1, <5>1
      <4>2. CASE longer[i] = rep  BY <1>2, <1>3, <1>7, <4>2
      <4>3. CASE longer[i] = sample  BY <1>2, <1>3, <1>7, <4>3
      <4>4. QED  BY <1>4, <4>1, <4>2, <4>3
    <3>2. \A i, j \in DOMAIN longer :
             i < j /\ longer[i].good /\ longer[j].good => longer[i].n < longer[j].n
      <4> TAKE i, j \in DOMAIN longer
      <4> HAVE i < j /\ longer[i].good /\ longer[j].good
      <4>1. i \in DOMAIN ring[c] /\ longer[i] = ring[c][i]  BY <1>3, <1>4
      <4>2. CASE j \in DOMAIN ring[c] /\ longer[j] = ring[c][j]
        BY <2>1, <2>3, <4>1, <4>2 DEF RingInOrder
      <4>3. CASE longer[j] = sample
        BY <1>2, <1>3, <1>9, <2>1, <2>3, <4>1, <4>3 DEF RingInOrder
      <4>4. QED  BY <1>3, <1>4, <4>2, <4>3
    <3>3. \A k \in DOMAIN parsed[c], i \in DOMAIN longer :
             longer[i].good => parsed[c][k] < longer[i].n
      <4> TAKE k \in DOMAIN parsed[c], i \in DOMAIN longer
      <4> HAVE longer[i].good
      <4>1. parsed[c][k] \in Nat /\ parsed[c][k] <= emitted[c]
        BY <1>10, <2>1, <2>3 DEF SentIsOlder
      <4>2. CASE i \in DOMAIN ring[c] /\ longer[i] = ring[c][i]
        BY <2>1, <2>3, <4>2 DEF SentIsOlder
      <4>3. CASE longer[i] = sample  BY <1>2, <1>3, <4>1, <4>3
      <4>4. QED  BY <1>3, <1>4, <4>2, <4>3
    <3>4. RingInOrder(d)'  BY <2>3, <3>1, <3>2 DEF RingInOrder
    <3>5. SentIsOlder(d)'
      BY <1>1, <1>2, <1>7, <1>10, <2>1, <2>3, <3>3 DEF SentIsOlder
    <3>6. QED  BY <3>4, <3>5
  <2>4. QED  BY <1>8, <2>2, <2>3
<1>12. HandIsBetween'
  <2> SUFFICES ASSUME pc = "send" PROVE HandIsBetween'
    BY <1>1 DEF HandIsBetween
  <2>1. /\ hand.cpu \in CPUs /\ hand.n \in Nat /\ hand.n <= emitted[hand.cpu]
        /\ \A i \in DOMAIN ring[hand.cpu] :
              ring[hand.cpu][i].good => hand.n < ring[hand.cpu][i].n
        /\ \A k \in DOMAIN parsed[hand.cpu] : parsed[hand.cpu][k] < hand.n
    BY DEF OrderInv, HandIsBetween
  <2>2. hand.n <= emitted'[hand.cpu]  BY <1>6, <2>1
  <2>3. \A i \in DOMAIN ring'[hand.cpu] :
           ring'[hand.cpu][i].good => hand.n < ring'[hand.cpu][i].n
    <3>1. CASE ring'[hand.cpu] = ring[hand.cpu]  BY <2>1, <3>1
    <3>2. CASE hand.cpu = c /\ ring'[hand.cpu] = longer
      <4> SUFFICES ASSUME NEW i \in DOMAIN longer, longer[i].good
                   PROVE  hand.n < longer[i].n
        BY <3>2
      <4>1. CASE i \in DOMAIN ring[c] /\ longer[i] = ring[c][i]
        BY <2>1, <3>2, <4>1
      <4>2. CASE longer[i] = sample  BY <1>2, <1>3, <2>1, <3>2, <4>2
      <4>3. QED  BY <1>3, <1>4, <4>1, <4>2
    <3>3. QED  BY <1>8, <2>1, <3>1, <3>2
  <2>4. QED  BY <1>1, <2>1, <2>2, <2>3 DEF HandIsBetween
<1>13. QED  BY <1>5, <1>11, <1>12 DEF OrderInv

(* What an oldest record leaves behind it in the buffer.                   *)
LEMMA Taken ==
    ASSUME NEW S, NEW q \in Seq(S), q # << >>
    PROVE  /\ Tail(q) \in Seq(S) /\ 1 \in DOMAIN q /\ Head(q) = q[1] /\ Head(q) \in S
           /\ \A i \in DOMAIN Tail(q) :
                 i \in Nat /\ i + 1 \in DOMAIN q /\ 1 < i + 1 /\ Tail(q)[i] = q[i + 1]
OBVIOUS

(* A read takes the oldest record, which is younger than all that was sent.*)
LEMMA ReadStep == ASSUME OrderInv, Read PROVE OrderInv'
<1>1. PICK c \in CPUs :
         ring[c] # << >> /\ ring' = [ring EXCEPT ![c] = Tail(@)] /\ Handle(c)
  BY DEF Read
<1>2. UNCHANGED <<emitted, lost, parsed>>  BY DEF Read
<1>3. /\ emitted \in [CPUs -> Nat] /\ lost \in [CPUs -> Nat]
      /\ ring \in [CPUs -> Seq(Record)] /\ parsed \in [CPUs -> Seq(Nat)]
      /\ ring[c] \in Seq(Record)
  BY DEF OrderInv
<1>4. /\ Tail(ring[c]) \in Seq(Record) /\ 1 \in DOMAIN ring[c]
      /\ Head(ring[c]) = ring[c][1] /\ Head(ring[c]) \in Record
      /\ \A i \in DOMAIN Tail(ring[c]) :
            /\ i \in Nat /\ i + 1 \in DOMAIN ring[c] /\ 1 < i + 1
            /\ Tail(ring[c])[i] = ring[c][i + 1]
  BY <1>1, <1>3, Taken
<1>5. ring'[c] = Tail(ring[c]) /\ \A d \in CPUs \ {c} : ring'[d] = ring[d]
  BY <1>1, <1>3
<1>6. ring' \in [CPUs -> Seq(Record)]  BY <1>1, <1>3, <1>4
<1>7. \A d \in CPUs : RingInOrder(d) /\ SentIsOlder(d)  BY DEF OrderInv
<1>8. RingInOrder(c)' /\ SentIsOlder(c)'
  <2>1. RingInOrder(c)'
    <3>1. \A i \in DOMAIN ring'[c] : ring'[c][i].n <= emitted'[c]
      BY <1>2, <1>4, <1>5, <1>7 DEF RingInOrder
    <3>2. \A i, j \in DOMAIN ring'[c] :
             i < j /\ ring'[c][i].good /\ ring'[c][j].good => ring'[c][i].n < ring'[c][j].n
      <4> TAKE i, j \in DOMAIN ring'[c]
      <4> HAVE i < j /\ ring'[c][i].good /\ ring'[c][j].good
      <4>1. /\ i + 1 \in DOMAIN ring[c] /\ j + 1 \in DOMAIN ring[c] /\ i + 1 < j + 1
            /\ ring'[c][i] = ring[c][i + 1] /\ ring'[c][j] = ring[c][j + 1]
        BY <1>4, <1>5
      <4>2. QED  BY <1>7, <4>1 DEF RingInOrder
    <3>3. QED  BY <3>1, <3>2 DEF RingInOrder
  <2>2. SentIsOlder(c)'  BY <1>2, <1>4, <1>5, <1>7 DEF SentIsOlder
  <2>3. QED  BY <2>1, <2>2
<1>9. \A d \in CPUs \ {c} : RingInOrder(d)' /\ SentIsOlder(d)'
  BY <1>2, <1>5, <1>7 DEF RingInOrder, SentIsOlder
<1>10. HandIsBetween'
  <2> DEFINE r == Head(ring[c])
  <2>1. CASE r.good
    <3>1. pc' = "send" /\ hand'.cpu = c /\ hand'.n = r.n
      BY <1>1, <2>1 DEF Handle
    <3>2. r.n \in Nat  BY <1>4 DEF Record
    <3>3. r.n <= emitted[c]  BY <1>4, <1>7 DEF RingInOrder
    <3>4. \A i \in DOMAIN ring'[c] : ring'[c][i].good => r.n < ring'[c][i].n
      BY <1>4, <1>5, <1>7, <2>1 DEF RingInOrder
    <3>5. \A k \in DOMAIN parsed[c] : parsed[c][k] < r.n
      BY <1>4, <1>7, <2>1 DEF SentIsOlder
    <3> HIDE DEF r
    <3>6. QED  BY <1>2, <3>1, <3>2, <3>3, <3>4, <3>5 DEF HandIsBetween
  <2>2. CASE ~r.good
    <3>1. pc' = "check"  BY <1>1, <2>2 DEF Handle
    <3>2. QED  BY <3>1 DEF HandIsBetween
  <2>3. QED  BY <2>1, <2>2
<1>11. QED  BY <1>2, <1>3, <1>6, <1>8, <1>9, <1>10 DEF OrderInv

(* What is sent is younger than all that was sent before.                  *)
LEMMA SendStep == ASSUME OrderInv, Send PROVE OrderInv'
<1>a. PICK c \in CPUs, n \in Nat : c = hand.cpu /\ n = hand.n
  BY DEF OrderInv, HandIsBetween, Send
<1>1. /\ parsed' = [parsed EXCEPT ![c] = Append(@, n)] /\ pc' = "check"
      /\ UNCHANGED <<emitted, ring, lost>>
  BY <1>a DEF Send, kernel
<1>2. /\ emitted \in [CPUs -> Nat] /\ lost \in [CPUs -> Nat]
      /\ ring \in [CPUs -> Seq(Record)] /\ parsed \in [CPUs -> Seq(Nat)]
  BY DEF OrderInv
<1>3. /\ c \in CPUs /\ n \in Nat /\ n <= emitted[c]
      /\ \A i \in DOMAIN ring[c] : ring[c][i].good => n < ring[c][i].n
      /\ \A k \in DOMAIN parsed[c] : parsed[c][k] < n
  BY <1>a DEF OrderInv, HandIsBetween, Send
<1>4. \A d \in CPUs : RingInOrder(d) /\ SentIsOlder(d)  BY DEF OrderInv
<1>5. parsed[c] \in Seq(Nat)  BY <1>2, <1>3
<1>6. /\ parsed' \in [CPUs -> Seq(Nat)] /\ parsed'[c] = Append(parsed[c], n)
      /\ \A d \in CPUs \ {c} : parsed'[d] = parsed[d]
  BY <1>1, <1>2, <1>3, <1>5
<1>7. \A k \in DOMAIN parsed'[c] :
         \/ k \in DOMAIN parsed[c] /\ k <= Len(parsed[c]) /\ parsed'[c][k] = parsed[c][k]
         \/ k = Len(parsed[c]) + 1 /\ parsed'[c][k] = n
  BY <1>3, <1>5, <1>6
<1>8. Len(parsed[c]) \in Nat /\ \A k \in DOMAIN parsed'[c] : k \in Nat
  BY <1>5, <1>6, <1>3, <1>2
<1>9. SentIsOlder(c)'
  <2>1. \A k \in DOMAIN parsed'[c] : parsed'[c][k] <= emitted'[c]
    BY <1>1, <1>3, <1>4, <1>7 DEF SentIsOlder
  <2>2. \A k \in DOMAIN parsed'[c], i \in DOMAIN ring'[c] :
           ring'[c][i].good => parsed'[c][k] < ring'[c][i].n
    BY <1>1, <1>3, <1>4, <1>7 DEF SentIsOlder
  <2>3. \A i, j \in DOMAIN parsed'[c] : i < j => parsed'[c][i] < parsed'[c][j]
    <3> TAKE i, j \in DOMAIN parsed'[c]
    <3> HAVE i < j
    <3>1. i \in DOMAIN parsed[c] /\ parsed'[c][i] = parsed[c][i]  BY <1>7, <1>8
    <3>2. QED  BY <1>3, <1>4, <1>7, <3>1 DEF SentIsOlder
  <2>4. QED  BY <2>1, <2>2, <2>3 DEF SentIsOlder
<1>10. \A d \in CPUs \ {c} : SentIsOlder(d)'  BY <1>1, <1>4, <1>6 DEF SentIsOlder
<1>11. \A d \in CPUs : RingInOrder(d)'  BY <1>1, <1>4 DEF RingInOrder
<1>12. HandIsBetween'  BY <1>1 DEF HandIsBetween
<1>13. QED  BY <1>1, <1>2, <1>6, <1>9, <1>10, <1>11, <1>12 DEF OrderInv

LEMMA OrderInvariance == CaptureSpec => []OrderInv
<1>1. CaptureInit => OrderInv
  <2> SUFFICES ASSUME Init PROVE OrderInv  BY DEF CaptureInit
  <2>1. \A c \in CPUs : ring[c] = << >> /\ parsed[c] = << >>  BY DEF Init
  <2>2. emitted \in [CPUs -> Nat] /\ lost \in [CPUs -> Nat]
        /\ ring \in [CPUs -> Seq(Record)] /\ parsed \in [CPUs -> Seq(Nat)]
    BY DEF Init
  <2>3. \A c \in CPUs : RingInOrder(c) /\ SentIsOlder(c)
    BY <2>1 DEF RingInOrder, SentIsOlder
  <2>4. HandIsBetween  BY DEF Init, HandIsBetween
  <2>5. QED  BY <2>2, <2>3, <2>4 DEF OrderInv
<1>2. OrderInv /\ [CaptureNext]_CaptureVars => OrderInv'
  <2> SUFFICES ASSUME OrderInv, [CaptureNext]_CaptureVars PROVE OrderInv'  OBVIOUS
  <2>1. ASSUME UNCHANGED <<emitted, ring, lost, parsed>>,
               pc' # "send" \/ UNCHANGED <<pc, hand>>
        PROVE  OrderInv'
    <3>1. HandIsBetween'  BY <2>1 DEF OrderInv, HandIsBetween
    <3>2. \A c \in CPUs : RingInOrder(c)' /\ SentIsOlder(c)'
      BY <2>1 DEF OrderInv, RingInOrder, SentIsOlder
    <3>3. QED  BY <2>1, <3>1, <3>2 DEF OrderInv
  <2>2. ASSUME NEW c \in CPUs, NEW good \in BOOLEAN, Packet(c, good) PROVE OrderInv'
    BY <2>2, EmitStep DEF Packet
  <2>3. CASE Run
    BY <2>1, <2>3, ReadStep, SendStep DEF Run, Wait, Check, ReadFails, GiveUp, kernel
  <2>4. CASE Consume \/ Cancel  BY <2>1, <2>4 DEF Consume, Cancel, kernel
  <2>5. CASE New(linux)  BY <2>1, <2>5 DEF New, kernel
  <2>6. CASE UNCHANGED vars  BY <2>1, <2>6 DEF vars
  <2>7. QED
    BY <2>2, <2>3, <2>4, <2>5, <2>6 DEF CaptureNext, CaptureVars, Agent, StartCollector
<1>3. QED  BY <1>1, <1>2, PTL DEF CaptureSpec

(* However many samples are lost or refused, the events of one CPU are     *)
(* sent in the order they were written, each at most once.                 *)
THEOREM CollectorKeepsOrder == CaptureSpec => []EventsKeepOrder
<1>1. OrderInv => EventsKeepOrder  BY DEF OrderInv, SentIsOlder, EventsKeepOrder
<1>2. QED  BY <1>1, OrderInvariance, PTL

-----------------------------------------------------------------------------
(* What one CPU's samples have come to, apart from what the collector has  *)
(* counted of them without saying whose they were.                         *)
Kept(c) == Held(ring[c]) + lost[c] + Len(parsed[c])

AllKept == Total([c \in CPUs |-> Kept(c)])
InHand  == IF pc = "send" THEN 1 ELSE 0

Balance == Total(emitted) = AllKept + drops + skipped + unheard + InHand

(* A good record has a sample in it.                                       *)
GoodIsOne(c) == \A i \in DOMAIN ring[c] : ring[c][i].good => ring[c][i].n > 0

AccountInv ==
    /\ drops \in Nat /\ skipped \in Nat /\ unheard \in Nat
    /\ \A c \in CPUs : GoodIsOne(c)
    /\ Balance

(* What a buffer holds when a record is put at its end, and when the       *)
(* oldest is taken from it.                                                *)
LEMMA HeldEmpty == Held(<< >>) = 0
BY SumEmpty DEF Held, SumFunction

LEMMA HeldAppend ==
    ASSUME NEW q \in Seq(Record), NEW e \in Record
    PROVE  Held(q) \in Nat /\ Samples(e) \in Nat /\ Held(Append(q, e)) = Held(q) + Samples(e)
<1> DEFINE f == [i \in DOMAIN q |-> Samples(q[i])]
           g == [i \in DOMAIN Append(q, e) |-> Samples(Append(q, e)[i])]
           n == Len(q)
<1>1. \A r \in Record : Samples(r) \in Nat  BY DEF Samples, Record
<1>2. n \in Nat /\ DOMAIN f = 1..n /\ DOMAIN g = 1..n + 1  OBVIOUS
<1>3. \A i \in 1..n + 1 : g[i] \in Nat  BY <1>1
<1>4. \A i \in 1..n : f[i] = g[i]  OBVIOUS
<1>5. g[n + 1] = Samples(e)  OBVIOUS
<1>6. Held(q) = SumFunctionOnSet(f, 1..n) /\ Held(Append(q, e)) = SumFunctionOnSet(g, 1..n + 1)
  BY <1>2 DEF Held, SumFunction
<1> HIDE DEF f, g, n
<1>7. /\ SumFunctionOnSet(g, 1..n) \in Nat
      /\ SumFunctionOnSet(g, 1..n + 1) = SumFunctionOnSet(g, 1..n) + g[n + 1]
  BY <1>2, <1>3, SumLast
<1>8. SumFunctionOnSet(f, 1..n) = SumFunctionOnSet(g, 1..n)
  <2>1. IsFiniteSet(1..n)  BY <1>2, FS_Interval
  <2>2. QED  BY <1>4, <2>1, SumSame
<1>9. QED  BY <1>1, <1>5, <1>6, <1>7, <1>8

LEMMA HeldTail ==
    ASSUME NEW q \in Seq(Record), q # << >>
    PROVE  /\ Held(Tail(q)) \in Nat /\ Samples(Head(q)) \in Nat
           /\ Held(q) = Samples(Head(q)) + Held(Tail(q))
<1> DEFINE f == [i \in DOMAIN q |-> Samples(q[i])]
           g == [i \in DOMAIN Tail(q) |-> Samples(Tail(q)[i])]
           m == Len(q) - 1
<1>1. \A r \in Record : Samples(r) \in Nat  BY DEF Samples, Record
<1>2. m \in Nat /\ DOMAIN f = 1..m + 1 /\ DOMAIN g = 1..m  OBVIOUS
<1>3. \A i \in 1..m + 1 : f[i] \in Nat  BY <1>1
<1>4. \A i \in 1..m : g[i] = f[i + 1]  OBVIOUS
<1>5. f[1] = Samples(Head(q))  OBVIOUS
<1>6. Held(q) = SumFunctionOnSet(f, 1..m + 1) /\ Held(Tail(q)) = SumFunctionOnSet(g, 1..m)
  BY <1>2 DEF Held, SumFunction
<1>7. Held(Tail(q)) \in Nat
  <2>1. Tail(q) \in Seq(Record)  OBVIOUS
  <2>2. QED  BY <1>1, <1>3, <2>1, HeldAppend, Taken
<1> HIDE DEF f, g, m
<1>8. SumFunctionOnSet(f, 1..m + 1) = f[1] + SumFunctionOnSet(g, 1..m)
  BY <1>2, <1>3, <1>4, SumFirst
<1>9. QED  BY <1>1, <1>5, <1>6, <1>7, <1>8, Taken

(* A step at one CPU changes the total by what it changes there.           *)
LEMMA TotalMoves ==
    ASSUME NEW f, NEW g, NEW c \in CPUs, \A d \in CPUs : f[d] \in Nat /\ g[d] \in Nat,
           \A d \in CPUs \ {c} : g[d] = f[d]
    PROVE  Total(f) \in Nat /\ Total(g) \in Nat /\ Total(g) + f[c] = Total(f) + g[c]
BY CollectorAssumption, SumChanges DEF Total

LEMMA KeptType ==
    ASSUME NEW q \in Seq(Record), NEW l \in Nat, NEW s \in Seq(Nat)
    PROVE  Held(q) + l + Len(s) \in Nat
<1>1. [n |-> 0, good |-> FALSE, lost |-> 0] \in Record  BY DEF Record
<1>2. Held(q) \in Nat  BY <1>1, HeldAppend
<1>3. QED  BY <1>2

(* A step at one CPU, once more, for all that is kept.                      *)
LEMMA KeptMoves ==
    ASSUME OrderInv, OrderInv', NEW c \in CPUs,
           \A d \in CPUs \ {c} :
               ring'[d] = ring[d] /\ lost'[d] = lost[d] /\ parsed'[d] = parsed[d]
    PROVE  AllKept \in Nat /\ AllKept' \in Nat /\ AllKept' + Kept(c) = AllKept + Kept(c)'
<1> DEFINE f == [d \in CPUs |-> Kept(d)]
           g == [d \in CPUs |-> Kept(d)']
<1>1. \A d \in CPUs : f[d] \in Nat /\ f[d] = Kept(d)
  <2>1. \A d \in CPUs : ring[d] \in Seq(Record) /\ lost[d] \in Nat /\ parsed[d] \in Seq(Nat)
    BY DEF OrderInv
  <2>2. \A d \in CPUs : Kept(d) \in Nat  BY <2>1, KeptType DEF Kept
  <2>3. QED  BY <2>2
<1>2. \A d \in CPUs : Kept(d)' \in Nat
  <2>1. \A d \in CPUs :
           ring'[d] \in Seq(Record) /\ lost'[d] \in Nat /\ parsed'[d] \in Seq(Nat)
    BY DEF OrderInv
  <2>2. QED  BY <2>1, KeptType DEF Kept
<1>3. \A d \in CPUs : g[d] \in Nat /\ g[d] = Kept(d)'  BY <1>2
<1>4. \A d \in CPUs \ {c} : g[d] = f[d]  BY DEF Kept
<1>5. AllKept = Total(f) /\ AllKept' = Total(g)  BY DEF AllKept, Total
<1> HIDE DEF f, g
<1>6. QED  BY <1>1, <1>3, <1>4, <1>5, TotalMoves

LEMMA KeptStays ==
    ASSUME UNCHANGED <<ring, lost, parsed>>
    PROVE  AllKept' = AllKept /\ \A c \in CPUs : GoodIsOne(c)' = GoodIsOne(c)
BY DEF AllKept, Kept, Total, GoodIsOne

(* A write: the sample goes to the buffer, to its losses, or to nobody.    *)
LEMMA EmitAccounts ==
    ASSUME OrderInv, OrderInv', AccountInv, NEW c \in CPUs, NEW good \in BOOLEAN,
           Emit(c, good)
    PROVE  AccountInv'
<1> DEFINE sample == [n |-> emitted[c] + 1, good |-> good, lost |-> 0]
           rep    == [n |-> 0, good |-> FALSE, lost |-> lost[c]]
           report == IF lost[c] > 0 THEN <<rep>> ELSE << >>
           longer == ring[c] \o report \o <<sample>>
<1>1. /\ emitted' = [emitted EXCEPT ![c] = @ + 1]
      /\ UNCHANGED <<drops, pc, parsed, skipped>>
  BY DEF Emit
<1>2. \/ UNCHANGED <<ring, lost>> /\ unheard' = unheard + 1
      \/ /\ ring' = [ring EXCEPT ![c] = longer] /\ lost' = [lost EXCEPT ![c] = 0]
         /\ unheard' = unheard
      \/ ring' = ring /\ lost' = [lost EXCEPT ![c] = @ + 1] /\ unheard' = unheard
  BY DEF Emit
<1>3. /\ emitted \in [CPUs -> Nat] /\ lost \in [CPUs -> Nat]
      /\ ring \in [CPUs -> Seq(Record)] /\ parsed \in [CPUs -> Seq(Nat)]
      /\ emitted[c] \in Nat /\ lost[c] \in Nat /\ ring[c] \in Seq(Record)
      /\ parsed[c] \in Seq(Nat)
  BY DEF OrderInv
<1>4. /\ drops \in Nat /\ skipped \in Nat /\ unheard \in Nat
      /\ Balance /\ \A d \in CPUs : GoodIsOne(d)
  BY DEF AccountInv
<1>5. Total(emitted)' = Total(emitted) + 1 /\ Total(emitted) \in Nat
  <2>1. \A d \in CPUs : emitted[d] \in Nat /\ emitted'[d] \in Nat  BY <1>1, <1>3
  <2>2. emitted'[c] = emitted[c] + 1 /\ \A d \in CPUs \ {c} : emitted'[d] = emitted[d]
    BY <1>1, <1>3
  <2>3. /\ Total(emitted) \in Nat /\ Total(emitted') \in Nat
        /\ Total(emitted') + emitted[c] = Total(emitted) + emitted'[c]
    BY <2>1, <2>2, TotalMoves
  <2>4. Total(emitted)' = Total(emitted')  BY DEF Total
  <2>5. QED  BY <1>3, <2>2, <2>3, <2>4
<1>6. InHand' = InHand /\ InHand \in Nat  BY <1>1 DEF InHand
<1>7. CASE UNCHANGED <<ring, lost>> /\ unheard' = unheard + 1
  <2>1. AllKept' = AllKept /\ \A d \in CPUs : GoodIsOne(d)'
    BY <1>1, <1>4, <1>7, KeptStays
  <2>2. AllKept \in Nat
    <3>1. \A d \in CPUs \ {c} :
             ring'[d] = ring[d] /\ lost'[d] = lost[d] /\ parsed'[d] = parsed[d]
      BY <1>1, <1>7
    <3>2. QED  BY <3>1, KeptMoves
  <2>3. Balance'  BY <1>1, <1>4, <1>5, <1>6, <1>7, <2>1, <2>2 DEF Balance
  <2>4. QED  BY <1>1, <1>4, <1>7, <2>1, <2>3 DEF AccountInv
<1>8. ASSUME Kept(c)' = Kept(c) + 1, unheard' = unheard, GoodIsOne(c)',
             \A d \in CPUs \ {c} : ring'[d] = ring[d] /\ lost'[d] = lost[d]
      PROVE  AccountInv'
  <2>1. AllKept \in Nat /\ AllKept' \in Nat /\ AllKept' + Kept(c) = AllKept + Kept(c)'
    BY <1>1, <1>8, KeptMoves
  <2>2. Kept(c) \in Nat  BY <1>3, KeptType DEF Kept
  <2>3. AllKept' = AllKept + 1  BY <1>8, <2>1, <2>2
  <2>4. Balance'  BY <1>1, <1>4, <1>5, <1>6, <1>8, <2>1, <2>3 DEF Balance
  <2>5. \A d \in CPUs : GoodIsOne(d)'  BY <1>4, <1>8 DEF GoodIsOne
  <2>6. QED  BY <1>1, <1>4, <1>8, <2>4, <2>5 DEF AccountInv
<1>9. CASE /\ ring' = [ring EXCEPT ![c] = longer] /\ lost' = [lost EXCEPT ![c] = 0]
           /\ unheard' = unheard
  <2>1. /\ sample \in Record /\ sample.n > 0 /\ Samples(sample) = 1
        /\ rep \in Record /\ rep.good = FALSE /\ Samples(rep) = lost[c]
        /\ report \in {<< >>, <<rep>>} /\ (report = << >> => lost[c] = 0)
    BY <1>3 DEF Record, Samples
  <2>2. \A i \in DOMAIN longer :
           \/ i \in DOMAIN ring[c] /\ longer[i] = ring[c][i]
           \/ longer[i] = rep \/ longer[i] = sample
    <3> HIDE DEF sample, rep
    <3>1. \A i \in DOMAIN longer :
             /\ i \in Nat /\ i <= Len(longer)
             /\ \/ i \in DOMAIN ring[c] /\ longer[i] = ring[c][i]
                \/ i \notin DOMAIN ring[c] /\ longer[i] = rep
                \/ i \notin DOMAIN ring[c] /\ i = Len(longer) /\ longer[i] = sample
      BY <1>3, <2>1, Written
    <3> HIDE DEF longer
    <3>2. QED  BY <3>1
  <2>3. Held(longer) = Held(ring[c]) + lost[c] + 1 /\ Held(ring[c]) \in Nat
    <3> HIDE DEF sample, rep, report
    <3>1. CASE report = << >>
      <4>1. longer = Append(ring[c], sample)  BY <1>3, <2>1, <3>1
      <4>2. /\ Held(ring[c]) \in Nat
            /\ Held(Append(ring[c], sample)) = Held(ring[c]) + Samples(sample)
        BY <1>3, <2>1, HeldAppend
      <4>3. lost[c] = 0 /\ Samples(sample) = 1  BY <2>1, <3>1
      <4> HIDE DEF longer
      <4>4. QED  BY <4>1, <4>2, <4>3
    <3>2. CASE report = <<rep>>
      <4> DEFINE q == Append(ring[c], rep)
      <4>1. longer = Append(q, sample) /\ q \in Seq(Record)  BY <1>3, <2>1, <3>2
      <4>2. Held(ring[c]) \in Nat /\ Held(q) = Held(ring[c]) + Samples(rep)
        BY <1>3, <2>1, HeldAppend
      <4> HIDE DEF q
      <4>3. Held(Append(q, sample)) = Held(q) + Samples(sample)
        BY <2>1, <4>1, HeldAppend
      <4>4. QED  BY <1>3, <2>1, <4>1, <4>2, <4>3
    <3>3. QED  BY <2>1, <3>1, <3>2
  <2> HIDE DEF longer
  <2>4. ring'[c] = longer /\ lost'[c] = 0
        /\ \A d \in CPUs \ {c} : ring'[d] = ring[d] /\ lost'[d] = lost[d]
    BY <1>3, <1>9
  <2>5. Kept(c)' = Kept(c) + 1  BY <1>1, <1>3, <2>3, <2>4 DEF Kept
  <2>6. GoodIsOne(c)'  BY <1>4, <2>1, <2>2, <2>4 DEF GoodIsOne
  <2>7. QED  BY <1>8, <1>9, <2>4, <2>5, <2>6
<1>10. CASE ring' = ring /\ lost' = [lost EXCEPT ![c] = @ + 1] /\ unheard' = unheard
  <2>1. lost'[c] = lost[c] + 1 /\ \A d \in CPUs \ {c} : lost'[d] = lost[d]
    BY <1>3, <1>10
  <2>2. [n |-> 0, good |-> FALSE, lost |-> 0] \in Record  BY DEF Record
  <2>3. Held(ring[c]) \in Nat  BY <1>3, <2>2, HeldAppend
  <2>4. Kept(c)' = Kept(c) + 1  BY <1>1, <1>3, <1>10, <2>1, <2>3 DEF Kept
  <2>5. GoodIsOne(c)'  BY <1>4, <1>10 DEF GoodIsOne
  <2>6. QED  BY <1>8, <1>10, <2>1, <2>4, <2>5
<1>11. QED  BY <1>2, <1>7, <1>9, <1>10

(* A read: what the oldest record stood for is counted, one way or other.  *)
LEMMA ReadAccounts == ASSUME OrderInv, OrderInv', AccountInv, Read PROVE AccountInv'
<1>1. PICK c \in CPUs :
         ring[c] # << >> /\ ring' = [ring EXCEPT ![c] = Tail(@)] /\ Handle(c)
  BY DEF Read
<1>2. pc = "read" /\ UNCHANGED <<emitted, lost, unheard, parsed>>  BY DEF Read
<1>3. /\ ring \in [CPUs -> Seq(Record)] /\ ring[c] \in Seq(Record)
      /\ lost[c] \in Nat /\ parsed[c] \in Seq(Nat)
  BY DEF OrderInv
<1>4. /\ drops \in Nat /\ skipped \in Nat /\ unheard \in Nat
      /\ Balance /\ \A d \in CPUs : GoodIsOne(d)
  BY DEF AccountInv
<1>5. ring'[c] = Tail(ring[c]) /\ \A d \in CPUs \ {c} : ring'[d] = ring[d]
  BY <1>1, <1>3
<1> DEFINE r == Head(ring[c])
<1>6. /\ r = ring[c][1] /\ 1 \in DOMAIN ring[c] /\ r \in Record
      /\ \A i \in DOMAIN Tail(ring[c]) :
            i + 1 \in DOMAIN ring[c] /\ Tail(ring[c])[i] = ring[c][i + 1]
  BY <1>1, <1>3, Taken
<1>7. /\ Held(ring'[c]) \in Nat /\ Samples(r) \in Nat
      /\ Held(ring[c]) = Samples(r) + Held(ring'[c])
  BY <1>1, <1>3, <1>5, HeldTail
<1>8. r.good => r.n > 0  BY <1>4, <1>6 DEF GoodIsOne
<1>9. r.n \in Nat /\ r.lost \in Nat  BY <1>6 DEF Record
<1>10. /\ drops' = drops + r.lost
       /\ \/ r.good /\ pc' = "send" /\ skipped' = skipped
          \/ pc' = "check" /\ skipped' = skipped + (IF r.n > 0 THEN 1 ELSE 0)
  BY <1>1 DEF Handle
<1> HIDE DEF r
<1>11. Kept(c) = Kept(c)' + Samples(r) /\ Kept(c)' \in Nat
  <2>1. Len(parsed[c]) \in Nat  BY <1>3
  <2>2. /\ Kept(c) = Held(ring[c]) + lost[c] + Len(parsed[c])
        /\ Kept(c)' = Held(ring'[c]) + lost[c] + Len(parsed[c])
    BY <1>2 DEF Kept, Held
  <2>3. PICK h \in Nat, s \in Nat, l \in Nat, k \in Nat :
           h = Held(ring'[c]) /\ s = Samples(r) /\ l = lost[c] /\ k = Len(parsed[c])
    BY <1>3, <1>7, <2>1
  <2>4. Held(ring[c]) = s + h  BY <1>7, <2>3
  <2>5. Kept(c) = s + h + l + k  BY <2>2, <2>3, <2>4
  <2>6. Kept(c)' = h + l + k  BY <2>2, <2>3
  <2>7. s + h + l + k = h + l + k + s /\ h + l + k \in Nat  OBVIOUS
  <2>8. QED  BY <2>3, <2>5, <2>6, <2>7
<1>12. AllKept' \in Nat /\ AllKept = AllKept' + Samples(r)
  <2>1. AllKept \in Nat /\ AllKept' \in Nat /\ AllKept' + Kept(c) = AllKept + Kept(c)'
    BY <1>2, <1>5, KeptMoves
  <2>2. PICK a \in Nat, b \in Nat, k \in Nat, m \in Nat :
           a = AllKept /\ b = AllKept' /\ k = Kept(c)' /\ m = Samples(r)
    BY <1>7, <1>11, <2>1
  <2>3. b + (k + m) = a + k  BY <1>11, <2>1, <2>2
  <2>4. a = b + m  BY <2>3
  <2>5. QED  BY <2>2, <2>4
<1>13. drops' + skipped' + InHand' = drops + skipped + Samples(r)
  BY <1>4, <1>8, <1>9, <1>10 DEF InHand, Samples
<1>14. InHand = 0 /\ InHand' \in Nat /\ drops' \in Nat /\ skipped' \in Nat
  BY <1>2, <1>4, <1>9, <1>10 DEF InHand
<1>15. Total(emitted)' = Total(emitted)  BY <1>2 DEF Total
<1>16. Balance'
  BY <1>2, <1>4, <1>7, <1>12, <1>13, <1>14, <1>15 DEF Balance
<1>17. \A d \in CPUs : GoodIsOne(d)'
  <2>1. GoodIsOne(c)'  BY <1>4, <1>5, <1>6 DEF GoodIsOne
  <2>2. \A d \in CPUs \ {c} : GoodIsOne(d)'  BY <1>4, <1>5 DEF GoodIsOne
  <2>3. QED  BY <2>1, <2>2
<1>18. QED  BY <1>2, <1>4, <1>14, <1>16, <1>17 DEF AccountInv

(* A send: what was in hand is among the CPU's events that were sent.      *)
LEMMA SendAccounts == ASSUME OrderInv, OrderInv', AccountInv, Send PROVE AccountInv'
<1>1. PICK c \in CPUs, n \in Nat : c = hand.cpu /\ n = hand.n
  BY DEF OrderInv, HandIsBetween, Send
<1>2. /\ pc = "send" /\ pc' = "check"
      /\ parsed' = [parsed EXCEPT ![c] = Append(@, n)]
      /\ UNCHANGED <<emitted, ring, lost, unheard, drops, skipped>>
  BY <1>1 DEF Send, kernel
<1>3. /\ parsed \in [CPUs -> Seq(Nat)] /\ parsed[c] \in Seq(Nat)
      /\ ring[c] \in Seq(Record) /\ lost[c] \in Nat
  BY DEF OrderInv
<1>4. /\ drops \in Nat /\ skipped \in Nat /\ unheard \in Nat
      /\ Balance /\ \A d \in CPUs : GoodIsOne(d)
  BY DEF AccountInv
<1>5. /\ parsed'[c] = Append(parsed[c], n) /\ \A d \in CPUs \ {c} : parsed'[d] = parsed[d]
      /\ Len(parsed[c]) \in Nat /\ Len(parsed'[c]) = Len(parsed[c]) + 1
  BY <1>2, <1>3
<1>6. [n |-> 0, good |-> FALSE, lost |-> 0] \in Record  BY DEF Record
<1>7. Held(ring[c]) \in Nat  BY <1>3, <1>6, HeldAppend
<1>8. Kept(c)' = Kept(c) + 1 /\ Kept(c) \in Nat
  <2>1. Kept(c) = Held(ring[c]) + lost[c] + Len(parsed[c])  BY DEF Kept
  <2>2. Kept(c)' = Held(ring[c]) + lost[c] + Len(parsed'[c])  BY <1>2 DEF Kept
  <2>3. QED  BY <1>3, <1>5, <1>7, <2>1, <2>2
<1>9. AllKept \in Nat /\ AllKept' = AllKept + 1
  <2>1. AllKept \in Nat /\ AllKept' \in Nat /\ AllKept' + Kept(c) = AllKept + Kept(c)'
    BY <1>2, <1>5, KeptMoves
  <2>2. QED  BY <1>8, <2>1
<1>10. InHand = 1 /\ InHand' = 0  BY <1>2 DEF InHand
<1>11. Total(emitted)' = Total(emitted)  BY <1>2 DEF Total
<1>12. Balance'  BY <1>2, <1>4, <1>9, <1>10, <1>11 DEF Balance
<1>13. \A d \in CPUs : GoodIsOne(d)'  BY <1>2, <1>4 DEF GoodIsOne
<1>14. QED  BY <1>2, <1>4, <1>12, <1>13 DEF AccountInv

LEMMA AccountInvariance == CaptureSpec => []AccountInv
<1>1. CaptureInit => AccountInv
  <2> SUFFICES ASSUME Init PROVE AccountInv  BY DEF CaptureInit
  <2> DEFINE f == [c \in CPUs |-> Kept(c)]
  <2>1. \A c \in CPUs : Kept(c) = 0
    BY HeldEmpty DEF Init, Kept
  <2>2. \A c \in CPUs : f[c] = emitted[c]  BY <2>1 DEF Init
  <2>3. AllKept = Total(emitted)
    <3>1. AllKept = SumFunctionOnSet(f, CPUs)  BY DEF AllKept, Total
    <3> HIDE DEF f
    <3>2. SumFunctionOnSet(f, CPUs) = SumFunctionOnSet(emitted, CPUs)
      BY <2>2, CollectorAssumption, SumSame
    <3>3. QED  BY <3>1, <3>2 DEF Total
  <2>4. Total(emitted) \in Nat
    <3>1. \A c \in CPUs : emitted[c] \in Nat  BY DEF Init
    <3>2. QED  BY <3>1, CollectorAssumption, SumNat DEF Total
  <2>5. drops = 0 /\ skipped = 0 /\ unheard = 0 /\ InHand = 0  BY DEF Init, InHand
  <2>6. Balance  BY <2>3, <2>4, <2>5 DEF Balance
  <2>7. \A c \in CPUs : GoodIsOne(c)  BY DEF Init, GoodIsOne
  <2>8. QED  BY <2>5, <2>6, <2>7 DEF AccountInv
<1>2. OrderInv /\ OrderInv' /\ AccountInv /\ [CaptureNext]_CaptureVars => AccountInv'
  <2> SUFFICES ASSUME OrderInv, OrderInv', AccountInv, [CaptureNext]_CaptureVars
               PROVE  AccountInv'
    OBVIOUS
  <2>1. ASSUME UNCHANGED <<emitted, ring, lost, parsed, drops, unheard>>,
               skipped' \in Nat, skipped' + InHand' = skipped + InHand
        PROVE  AccountInv'
    <3>1. AllKept' = AllKept /\ \A c \in CPUs : GoodIsOne(c)'
      BY <2>1, KeptStays DEF AccountInv
    <3>2. Total(emitted)' = Total(emitted)  BY <2>1 DEF Total
    <3>3. InHand \in Nat /\ InHand' \in Nat  BY DEF InHand
    <3>4. AllKept \in Nat
      <4>1. \A c \in CPUs : Kept(c) \in Nat  BY KeptType DEF OrderInv, Kept
      <4>2. QED  BY <4>1, CollectorAssumption, SumNat DEF AllKept, Total
    <3>5. Balance'
      <4>1. drops \in Nat /\ skipped \in Nat /\ unheard \in Nat /\ Balance
        BY DEF AccountInv
      <4>2. PICK h \in Nat, k \in Nat, i \in Nat, j \in Nat, a \in Nat, d \in Nat, u \in Nat :
               /\ h = InHand /\ k = InHand' /\ i = skipped /\ j = skipped'
               /\ a = AllKept /\ d = drops /\ u = unheard
        BY <2>1, <3>3, <3>4, <4>1
      <4>3. j + k = i + h  BY <2>1, <4>2
      <4>4. a + d + j + u + k = a + d + i + u + h  BY <4>3
      <4>5. QED  BY <2>1, <3>1, <3>2, <4>1, <4>2, <4>4 DEF Balance
    <3>6. QED  BY <2>1, <3>1, <3>5 DEF AccountInv
  <2>2. ASSUME NEW c \in CPUs, NEW good \in BOOLEAN, Packet(c, good) PROVE AccountInv'
    BY <2>2, EmitAccounts DEF Packet
  <2>3. skipped \in Nat  BY DEF AccountInv
  <2>4. CASE Wait \/ Check \/ ReadFails
    <3>1. /\ UNCHANGED <<emitted, ring, lost, parsed, drops, unheard, skipped>>
          /\ pc # "send" /\ pc' # "send"
      BY <2>4 DEF Wait, Check, ReadFails, kernel
    <3>2. QED  BY <2>1, <2>3, <3>1 DEF InHand
  <2>5. CASE GiveUp
    <3>1. /\ UNCHANGED <<emitted, ring, lost, parsed, drops, unheard>>
          /\ pc = "send" /\ pc' = "returned" /\ skipped' = skipped + 1
      BY <2>5 DEF GiveUp, kernel
    <3>2. QED  BY <2>1, <2>3, <3>1 DEF InHand
  <2>6. CASE Read  BY <2>6, ReadAccounts
  <2>7. CASE Send  BY <2>7, SendAccounts
  <2>8. CASE Consume \/ Cancel \/ New(linux) \/ UNCHANGED vars
    <3>1. /\ UNCHANGED <<emitted, ring, lost, parsed, drops, unheard, skipped>>
          /\ (pc = "send") = (pc' = "send")
      BY <2>8 DEF Consume, Cancel, New, vars, kernel
    <3>2. QED  BY <2>1, <2>3, <3>1 DEF InHand
  <2>9. QED
    BY <2>2, <2>4, <2>5, <2>6, <2>7, <2>8
       DEF CaptureNext, CaptureVars, Agent, StartCollector, Run
<1>3. QED  BY <1>1, <1>2, OrderInvariance, PTL DEF CaptureSpec

(* Every sample the XDP program had to write is in a buffer, sent, in hand,*)
(* refused, lost and counted or about to be, or was written while nobody   *)
(* read: for any number of CPUs and size of the buffers.                   *)
THEOREM NoSampleGoesMissing == CaptureSpec => []SamplesAreAccountedFor
<1>1. AccountInv => SamplesAreAccountedFor
  BY DEF AccountInv, Balance, AllKept, Kept, InHand, SamplesAreAccountedFor
<1>2. QED  BY <1>1, AccountInvariance, PTL
-----------------------------------------------------------------------------
(* Types, and the bounds of buffers, channel and counters.  A record may   *)
(* tell of a sample, or of losses, that has come so far.                   *)
Records(k) == [n : 0..k, good : BOOLEAN, lost : 0..k]
Event      == [cpu : CPUs, n : 1..MaxEmitted]

LEMMA SeqGrows == ASSUME NEW S, NEW T, S \subseteq T, NEW q \in Seq(S) PROVE q \in Seq(T)
OBVIOUS

(* What has been counted as lost was once written.                         *)
LEMMA DropsWereWritten ==
    ASSUME OrderInv, AccountInv
    PROVE  Total(emitted) \in Nat /\ drops \in 0..Total(emitted)
<1>1. AllKept \in Nat
  <2>1. \A c \in CPUs : Kept(c) \in Nat  BY KeptType DEF OrderInv, Kept
  <2>2. QED  BY <2>1, CollectorAssumption, SumNat DEF AllKept, Total
<1>2. InHand \in Nat /\ drops \in Nat /\ skipped \in Nat /\ unheard \in Nat
  BY DEF InHand, AccountInv
<1>3. Total(emitted) = AllKept + drops + skipped + unheard + InHand
  BY DEF AccountInv, Balance
<1>4. QED  BY <1>1, <1>2, <1>3

(* The bound of the model is one of each CPU's samples, too.               *)
LEMMA OneOfTheTotal ==
    ASSUME OrderInv, NEW c \in CPUs PROVE emitted[c] <= Total(emitted)
<1>1. \A d \in CPUs : emitted[d] \in Nat  BY DEF OrderInv
<1>2. Total(emitted) = emitted[c] + SumFunctionOnSet(emitted, CPUs \ {c})
  BY <1>1, CollectorAssumption, SumWithout DEF Total
<1>3. SumFunctionOnSet(emitted, CPUs \ {c}) \in Nat
  <2>1. IsFiniteSet(CPUs \ {c})  BY CollectorAssumption, FS_Subset
  <2>2. QED  BY <1>1, <2>1, SumNat
<1>4. QED  BY <1>1, <1>2, <1>3

TypesAre ==
    /\ emitted \in [CPUs -> 0..MaxEmitted] /\ lost \in [CPUs -> 0..MaxEmitted]
    /\ \A c \in CPUs : Len(ring[c]) <= RingCap /\ ring[c] \in Seq(Records(emitted[c]))
    /\ cancelled \in BOOLEAN
    /\ pc \in {"none", "mock", "check", "read", "send", "returned", "failed"}
    /\ pc = "send" <=> hand \in Event
    /\ out \in Seq(Event) /\ Len(out) <= OutCap
    /\ parsed \in [CPUs -> Seq(1..MaxEmitted)]
    /\ \A c \in CPUs : lost[c] <= emitted[c]

(* A write that finds room, displaces its sample, or finds no reader.      *)
LEMMA EmitTypes ==
    ASSUME OrderInv, AccountInv, TypesAre, NEW c \in CPUs, NEW good \in BOOLEAN, Emit(c, good)
    PROVE  TypesAre'
<1> DEFINE sample == [n |-> emitted[c] + 1, good |-> good, lost |-> 0]
           rep    == [n |-> 0, good |-> FALSE, lost |-> lost[c]]
           report == IF lost[c] > 0 THEN <<rep>> ELSE << >>
           longer == ring[c] \o report \o <<sample>>
<1>1. /\ Total(emitted) < MaxEmitted /\ emitted' = [emitted EXCEPT ![c] = @ + 1]
      /\ UNCHANGED <<cancelled, pc, hand, out, parsed>>
      /\ \/ ring' = ring /\ lost' = lost
         \/ /\ Len(longer) <= RingCap
            /\ ring' = [ring EXCEPT ![c] = longer] /\ lost' = [lost EXCEPT ![c] = 0]
         \/ ring' = ring /\ lost' = [lost EXCEPT ![c] = @ + 1]
  BY DEF Emit
<1>2. /\ emitted \in [CPUs -> 0..MaxEmitted] /\ lost \in [CPUs -> 0..MaxEmitted]
      /\ MaxEmitted \in Nat /\ Total(emitted) \in Nat /\ DOMAIN ring = CPUs
      /\ emitted[c] <= Total(emitted) /\ \A d \in CPUs : lost[d] <= emitted[d]
  BY CollectorAssumption, DropsWereWritten, OneOfTheTotal DEF TypesAre, OrderInv
<1>3. /\ emitted[c] \in Nat /\ emitted[c] + 1 <= MaxEmitted
      /\ lost[c] \in Nat /\ lost[c] <= emitted[c]
  BY <1>1, <1>2
<1>4. /\ emitted' \in [CPUs -> 0..MaxEmitted] /\ emitted'[c] = emitted[c] + 1
      /\ \A d \in CPUs \ {c} : emitted'[d] = emitted[d]
  BY <1>1, <1>2, <1>3
<1>5. lost' \in [CPUs -> 0..MaxEmitted] /\ \A d \in CPUs : lost'[d] <= emitted'[d]
  <2>1. CASE lost' = lost  BY <1>2, <1>3, <1>4, <2>1
  <2>2. CASE lost' = [lost EXCEPT ![c] = 0]  BY <1>2, <1>3, <1>4, <2>2
  <2>3. CASE lost' = [lost EXCEPT ![c] = @ + 1]
    <3>1. lost[c] + 1 \in 0..MaxEmitted  BY <1>2, <1>3
    <3>2. QED  BY <1>2, <1>3, <1>4, <2>3, <3>1
  <2>4. QED  BY <1>1, <2>1, <2>2, <2>3
<1>6. \A d \in CPUs : Len(ring[d]) <= RingCap /\ ring[d] \in Seq(Records(emitted[d]))
  BY DEF TypesAre
<1>7. ASSUME NEW d \in CPUs PROVE ring[d] \in Seq(Records(emitted'[d]))
  <2>1. Records(emitted[d]) \subseteq Records(emitted'[d])
    <3>1. emitted[d] \in Nat /\ emitted'[d] \in Nat /\ emitted[d] <= emitted'[d]
      BY <1>2, <1>4
    <3>2. 0..emitted[d] \subseteq 0..emitted'[d]  BY <3>1
    <3>3. QED  BY <3>2 DEF Records
  <2>2. QED  BY <1>6, <2>1, SeqGrows
<1>8. longer \in Seq(Records(emitted'[c]))
  <2>1. ring[c] \in Seq(Records(emitted'[c]))  BY <1>7
  <2>2. sample \in Records(emitted'[c]) /\ rep \in Records(emitted'[c])
    BY <1>3, <1>4 DEF Records
  <2>3. report \in {<< >>, <<rep>>}  OBVIOUS
  <2> HIDE DEF sample, rep, report
  <2>4. QED  BY <2>1, <2>2, <2>3, Written
<1> HIDE DEF longer
<1>9. \A d \in CPUs : Len(ring'[d]) <= RingCap /\ ring'[d] \in Seq(Records(emitted'[d]))
  <2>1. CASE ring' = ring  BY <1>6, <1>7, <2>1
  <2>2. CASE Len(longer) <= RingCap /\ ring' = [ring EXCEPT ![c] = longer]
    <3>1. ring'[c] = longer /\ \A d \in CPUs \ {c} : ring'[d] = ring[d]  BY <1>2, <2>2
    <3>2. QED  BY <1>6, <1>7, <1>8, <2>2, <3>1
  <2>3. QED  BY <1>1, <2>1, <2>2
<1>10. Event' = Event  BY DEF Event
<1>11. QED  BY <1>1, <1>4, <1>5, <1>9, <1>10 DEF TypesAre

(* The oldest record goes, and a good one is an event of its CPU.          *)
LEMMA ReadTypes == ASSUME OrderInv, AccountInv, TypesAre, Read PROVE TypesAre'
<1>1. PICK c \in CPUs :
         ring[c] # << >> /\ ring' = [ring EXCEPT ![c] = Tail(@)] /\ Handle(c)
  BY DEF Read
<1>2. UNCHANGED <<emitted, lost, cancelled, out, parsed>> /\ pc = "read"  BY DEF Read
<1>3. /\ Len(ring[c]) <= RingCap /\ ring[c] \in Seq(Records(emitted[c]))
      /\ RingCap \in Nat /\ DOMAIN ring = CPUs
      /\ emitted[c] \in 0..MaxEmitted /\ MaxEmitted \in Nat
  BY CollectorAssumption DEF TypesAre, OrderInv
<1> DEFINE r == Head(ring[c])
<1>4. /\ r \in Records(emitted[c]) /\ Tail(ring[c]) \in Seq(Records(emitted[c]))
      /\ 1 \in DOMAIN ring[c] /\ r = ring[c][1]
  BY <1>1, <1>3, Taken
<1>5. Len(Tail(ring[c])) <= RingCap
  <2>1. Len(Tail(ring[c])) = Len(ring[c]) - 1 /\ Len(ring[c]) \in Nat  BY <1>1, <1>3
  <2>2. QED  BY <1>3, <2>1
<1>6. \A d \in CPUs : Len(ring'[d]) <= RingCap /\ ring'[d] \in Seq(Records(emitted'[d]))
  <2>1. ring'[c] = Tail(ring[c]) /\ \A d \in CPUs \ {c} : ring'[d] = ring[d]
    BY <1>1, <1>3
  <2>2. QED  BY <1>2, <1>4, <1>5, <2>1 DEF TypesAre
<1>7. pc' \in {"check", "send"} /\ (pc' = "send" <=> hand' \in Event)
  <2>1. CASE r.good
    <3>1. pc' = "send" /\ hand' = [cpu |-> c, n |-> r.n]  BY <1>1, <2>1 DEF Handle
    <3>2. r.n > 0  BY <1>4, <2>1 DEF AccountInv, GoodIsOne
    <3>3. r.n \in 1..MaxEmitted  BY <1>3, <1>4, <3>2 DEF Records
    <3> HIDE DEF r
    <3>4. hand' \in Event  BY <3>1, <3>3 DEF Event
    <3>5. QED  BY <3>1, <3>4
  <2>2. CASE ~r.good
    <3>1. pc' = "check" /\ hand' = hand  BY <1>1, <2>2 DEF Handle
    <3>2. hand \notin Event  BY <1>2 DEF TypesAre
    <3>3. QED  BY <3>1, <3>2
  <2>3. QED  BY <2>1, <2>2
<1>8. Event' = Event  BY DEF Event
<1>9. QED  BY <1>2, <1>6, <1>7, <1>8 DEF TypesAre

LEMMA SendTypes == ASSUME OrderInv, TypesAre, Send PROVE TypesAre'
<1>1. /\ pc = "send" /\ Len(out) < OutCap /\ out' = Append(out, hand)
      /\ parsed' = [parsed EXCEPT ![hand.cpu] = Append(@, hand.n)]
      /\ pc' = "check" /\ hand' = Nobody /\ UNCHANGED <<emitted, ring, lost, cancelled>>
  BY DEF Send, kernel
<1>2. hand \in Event /\ out \in Seq(Event) /\ parsed \in [CPUs -> Seq(1..MaxEmitted)]
  BY <1>1 DEF TypesAre
<1>3. hand.cpu \in CPUs /\ hand.n \in 1..MaxEmitted  BY <1>2 DEF Event
<1>4. out' \in Seq(Event) /\ Len(out') <= OutCap
  <2>1. out' \in Seq(Event) /\ Len(out') = Len(out) + 1 /\ Len(out) \in Nat
    BY <1>1, <1>2
  <2>2. QED  BY <1>1, <2>1, CollectorAssumption
<1>5. parsed' \in [CPUs -> Seq(1..MaxEmitted)]
  <2>1. parsed[hand.cpu] \in Seq(1..MaxEmitted)  BY <1>2, <1>3
  <2>2. Append(parsed[hand.cpu], hand.n) \in Seq(1..MaxEmitted)  BY <1>3, <2>1
  <2>3. QED  BY <1>1, <1>2, <2>2
<1>6. Nobody \notin Event  BY DEF Nobody, Event
<1>7. Event' = Event  BY DEF Event
<1>8. QED  BY <1>1, <1>4, <1>5, <1>6, <1>7 DEF TypesAre

LEMMA TypesStart == Init => TypesAre
<1> SUFFICES ASSUME Init PROVE TypesAre  OBVIOUS
<1>1. \A c \in CPUs : Len(ring[c]) <= RingCap /\ ring[c] \in Seq(Records(emitted[c]))
  BY CollectorAssumption DEF Init
<1>2. Nobody \notin Event  BY DEF Nobody, Event
<1>3. out \in Seq(Event) /\ Len(out) <= OutCap  BY CollectorAssumption DEF Init
<1>4. emitted \in [CPUs -> 0..MaxEmitted] /\ lost \in [CPUs -> 0..MaxEmitted]
  BY CollectorAssumption DEF Init
<1>5. parsed \in [CPUs -> Seq(1..MaxEmitted)]  BY DEF Init
<1>6. \A c \in CPUs : lost[c] <= emitted[c]  BY DEF Init
<1>7. pc = "none" /\ hand = Nobody /\ cancelled = FALSE  BY DEF Init
<1>8. QED  BY <1>1, <1>2, <1>3, <1>4, <1>5, <1>6, <1>7 DEF TypesAre

LEMMA TypesStep ==
    OrderInv /\ AccountInv /\ TypesAre /\ [CaptureNext]_CaptureVars => TypesAre'
<1> SUFFICES ASSUME OrderInv, AccountInv, TypesAre, [CaptureNext]_CaptureVars
             PROVE  TypesAre'
  OBVIOUS
<1>1. Event' = Event /\ \A k : Records(k)' = Records(k)  BY DEF Event, Records
<1>2. ASSUME UNCHANGED <<emitted, ring, lost, hand, parsed, out>>, cancelled' \in BOOLEAN,
             pc' \in {"none", "mock", "check", "read", "send", "returned", "failed"},
             pc' = "send" <=> pc = "send"
      PROVE  TypesAre'
  BY <1>1, <1>2 DEF TypesAre
<1>3. ASSUME NEW c \in CPUs, NEW good \in BOOLEAN, Packet(c, good) PROVE TypesAre'
  BY <1>3, EmitTypes DEF Packet
<1>4. CASE Wait \/ Check \/ ReadFails \/ New(linux) \/ Cancel
  BY <1>2, <1>4 DEF Wait, Check, ReadFails, New, Cancel, kernel, TypesAre
<1>5. CASE Read  BY <1>5, ReadTypes
<1>6. CASE Send  BY <1>6, SendTypes
<1>7. CASE GiveUp
  <2>1. Nobody \notin Event  BY DEF Nobody, Event
  <2>2. QED  BY <1>1, <1>7, <2>1 DEF GiveUp, kernel, TypesAre
<1>8. CASE Consume
  <2>1. out' = Tail(out) /\ out # << >> /\ out \in Seq(Event) /\ Len(out) <= OutCap
    BY <1>8 DEF Consume, TypesAre
  <2>2. out' \in Seq(Event) /\ Len(out') = Len(out) - 1 /\ Len(out) \in Nat  BY <2>1
  <2>3. Len(out') <= OutCap  BY <2>1, <2>2, CollectorAssumption
  <2>4. QED  BY <1>1, <1>8, <2>2, <2>3 DEF Consume, kernel, TypesAre
<1>9. CASE UNCHANGED vars  BY <1>2, <1>9 DEF vars, TypesAre
<1>10. QED
  BY <1>3, <1>4, <1>5, <1>6, <1>7, <1>8, <1>9
     DEF CaptureNext, CaptureVars, Agent, StartCollector, Run

(* The buffers and the channel keep to their sizes, an event in hand is of *)
(* a sample that was written, and no loss is counted twice: never more are *)
(* counted than samples were written.                                      *)
THEOREM CollectorTypes == CaptureSpec => []TypeOK
<1>1. CaptureInit => TypesAre  BY TypesStart DEF CaptureInit
<1>2. OrderInv /\ AccountInv /\ TypesAre => TypeOK
  <2> SUFFICES ASSUME OrderInv, AccountInv, TypesAre PROVE TypeOK  OBVIOUS
  <2>1. drops \in 0..Total(emitted) /\ skipped \in Nat /\ unheard \in Nat
    BY DropsWereWritten DEF AccountInv
  <2>2. QED  BY <2>1 DEF TypesAre, TypeOK, Records, Event
<1>3. QED
  BY <1>1, <1>2, TypesStep, OrderInvariance, AccountInvariance, PTL DEF CaptureSpec
=============================================================================
