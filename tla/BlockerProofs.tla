--------------------------- MODULE BlockerProofs ---------------------------
(***************************************************************************)
(* Blocker's invariants for every set of addresses, every capacity and     *)
(* every bound of the clock.  The argument needs one fact about the keys:  *)
(* within a family two addresses never share one (MapKeyInjective).  At the*)
(* end, what the agent blocks the XDP program drops: on a host whose byte  *)
(* order is the network's, and for sources that come in frames of their own*)
(* family.  TLC shows on a little-endian host that the first condition     *)
(* cannot be done without (enforce_le).                                    *)
(***************************************************************************)
EXTENDS Enforcement, FiniteSetTheorems, TLAPS

(* cleanupLoop holds addresses only between its scan and its last Unblock. *)
ExpiredOnlyWhileUnblocking == pc # "unblock" => expired = {}

IInv == /\ TypeOK
        /\ ListedIsEnforced
        /\ EnforcedIsListed
        /\ MapBounds
        /\ CollectedHadLapsed
        /\ ExpiredOnlyWhileUnblocking

-----------------------------------------------------------------------------
(* ipToKey4, ipToKey6 and the byte order of the host lose no address.      *)
LEMMA MapKeyInjective ==
    ASSUME NEW a \in Addr, NEW b \in Addr,
           Family(a) = Family(b), MapKey(a) = MapKey(b)
    PROVE  a = b
<1>1. CASE a \in V4
  <2>1. b \in V4  BY <1>1 DEF Family, Addr
  <2>2. a \in [1..4 -> 0..255] /\ b \in [1..4 -> 0..255]
    BY <1>1, <2>1, AddressAssumption
  <2>3. HostBytes(a) = HostBytes(b)  BY <1>1, <2>1 DEF MapKey, ipToKey4
  <2>4. \A i \in 1..4 : a[i] = b[i]
    <3>1. CASE LittleEndian
      <4>1. \A i \in 1..4 : a[5 - i] = b[5 - i]
        BY <2>3, <3>1 DEF HostBytes
      <4>2. \A i \in 1..4 : 5 - i \in 1..4 /\ 5 - (5 - i) = i  OBVIOUS
      <4>3. QED  BY <4>1, <4>2
    <3>2. CASE ~LittleEndian
      BY <2>3, <3>2 DEF HostBytes
    <3>3. QED  BY <3>1, <3>2
  <2>5. QED  BY <2>2, <2>4
<1>2. CASE a \notin V4
  BY <1>2 DEF Family, MapKey, ipToKey6
<1>3. QED  BY <1>1, <1>2

(* An address has one of the two families.                                 *)
LEMMA FamilyType == ASSUME NEW a \in Addr PROVE Family(a) \in {"v4", "v6"}
BY DEF Family

(* What storing a key in a map, or deleting one from it, does.             *)
LEMMA PutEffect ==
    ASSUME NEW f, NEW k, NEW v
    PROVE  /\ DOMAIN Put(f, k, v) = DOMAIN f \cup {k}
           /\ Put(f, k, v)[k] = v
           /\ \A x \in DOMAIN f : x # k => Put(f, k, v)[x] = f[x]
BY DEF Put

(* Storing a key keeps a map within its domain and range.                  *)
LEMMA PutPartial ==
    ASSUME NEW f, NEW D, NEW R, NEW k \in D, NEW v \in R, Partial(f, D, R)
    PROVE  Partial(Put(f, k, v), D, R)
BY DEF Partial, Put

(* Deleting a key leaves the others as they were.                          *)
LEMMA DeleteEffect ==
    ASSUME NEW f, NEW k
    PROVE  /\ DOMAIN Delete(f, k) = DOMAIN f \ {k}
           /\ \A x \in DOMAIN f \ {k} : Delete(f, k)[x] = f[x]
BY DEF Delete, Restrict

(* Deleting a key keeps a map within its domain and range.                 *)
LEMMA DeletePartial ==
    ASSUME NEW f, NEW D, NEW R, NEW k, Partial(f, D, R)
    PROVE  Partial(Delete(f, k), D, R)
BY DEF Partial, Delete, Restrict

-----------------------------------------------------------------------------
(* A successful or failed write of the kernel's map keeps the types.       *)
LEMMA PutType ==
    ASSUME TypeOK, NEW a \in Addr, NEW r \in Reasons,
           PutSucceeds(a, r) \/ PutFails(a)
    PROVE  /\ bpf' = [f \in {"v4", "v6"} |-> bpf'[f]]
           /\ \A f \in {"v4", "v6"} :
                 Partial(bpf'[f], {MapKey(b) : b \in Addr}, Reasons)
           /\ putFailed' \in SUBSET Addr
           /\ delFailed' \in SUBSET Addr
<1>1. CASE PutFails(a)
  BY <1>1 DEF PutFails, TypeOK
<1>2. CASE PutSucceeds(a, r)
  <2>1. bpf' = [f \in {"v4", "v6"} |->
                   IF f = Family(a) THEN Put(bpf[f], MapKey(a), r) ELSE bpf[f]]
    BY <1>2, FamilyType DEF PutSucceeds, TypeOK
  <2>2. \A f \in {"v4", "v6"} :
            Partial(Put(bpf[f], MapKey(a), r), {MapKey(b) : b \in Addr}, Reasons)
    <3> TAKE f \in {"v4", "v6"}
    <3>1. Partial(bpf[f], {MapKey(b) : b \in Addr}, Reasons)  BY DEF TypeOK
    <3>2. QED  BY <3>1, PutPartial
  <2>3. \A f \in {"v4", "v6"} :
            Partial(bpf'[f], {MapKey(b) : b \in Addr}, Reasons)
    <3> TAKE f \in {"v4", "v6"}
    <3>1. bpf'[f] = Put(bpf[f], MapKey(a), r) \/ bpf'[f] = bpf[f]  BY <2>1
    <3>2. Partial(bpf[f], {MapKey(b) : b \in Addr}, Reasons)  BY DEF TypeOK
    <3>3. QED  BY <3>1, <3>2, <2>2
  <2>4. QED  BY <1>2, <2>1, <2>3 DEF PutSucceeds, TypeOK
<1>3. QED  BY <1>1, <1>2

(* What Unblock does keeps the types.                                      *)
LEMMA RemoveType ==
    ASSUME TypeOK, NEW a \in Addr, Remove(a)
    PROVE  /\ Partial(blocked', Addr, Entry)
           /\ bpf' = [f \in {"v4", "v6"} |-> bpf'[f]]
           /\ \A f \in {"v4", "v6"} :
                 Partial(bpf'[f], {MapKey(b) : b \in Addr}, Reasons)
           /\ putFailed' \in SUBSET Addr
           /\ delFailed' \in SUBSET Addr
<1>1. Partial(blocked', Addr, Entry)
  BY DeletePartial DEF Remove, TypeOK
<1>2. CASE DeleteSucceeds(a)
  <2>1. bpf' = [f \in {"v4", "v6"} |->
                   IF f = Family(a) THEN Delete(bpf[f], MapKey(a)) ELSE bpf[f]]
    BY <1>2, FamilyType DEF DeleteSucceeds, TypeOK
  <2>2. \A f \in {"v4", "v6"} :
            Partial(bpf'[f], {MapKey(b) : b \in Addr}, Reasons)
    <3> TAKE f \in {"v4", "v6"}
    <3>1. bpf'[f] = Delete(bpf[f], MapKey(a)) \/ bpf'[f] = bpf[f]  BY <2>1
    <3>2. Partial(bpf[f], {MapKey(b) : b \in Addr}, Reasons)  BY DEF TypeOK
    <3>3. QED  BY <3>1, <3>2, DeletePartial
  <2>3. QED  BY <1>1, <1>2, <2>1, <2>2 DEF DeleteSucceeds, Remove, TypeOK
<1>3. CASE bpf' = bpf /\ delFailed' \in SUBSET Addr
  BY <1>1, <1>3 DEF Remove, TypeOK
<1>4. DeleteSucceeds(a) \/ (bpf' = bpf /\ delFailed' \in SUBSET Addr)
  BY DEF Remove, DeleteFails, TypeOK
<1>5. QED  BY <1>2, <1>3, <1>4

(* The invariant holds at the start.                                       *)
LEMMA InitInv == Init => IInv
<1> SUFFICES ASSUME Init PROVE IInv  OBVIOUS
<1>1. TypeOK
  <2>1. \A R, D : Partial(Nothing, D, R)
    BY DEF Partial, Nothing
  <2>2. /\ bpf = [f \in {"v4", "v6"} |-> bpf[f]]
        /\ \A f \in {"v4", "v6"} : bpf[f] = Nothing
    BY DEF Init
  <2>3. Partial(blocked, Addr, Entry)
    BY <2>1 DEF Init
  <2>4. \A f \in {"v4", "v6"} : Partial(bpf[f], {MapKey(a) : a \in Addr}, Reasons)
    <3> TAKE f \in {"v4", "v6"}
    <3>1. bpf[f] = Nothing  BY <2>2
    <3>2. QED  BY <2>1, <3>1
  <2>5. now \in 0..MaxTime /\ scanAt \in 0..now
    BY BlockerAssumption DEF Init
  <2>6. QED
    BY <2>2, <2>3, <2>4, <2>5 DEF Init, TypeOK
<1>2. ListedIsEnforced /\ EnforcedIsListed /\ CollectedHadLapsed
  BY DEF Init, ListedIsEnforced, EnforcedIsListed, CollectedHadLapsed, Nothing
<1>3. MapBounds
  BY BlockerAssumption, FS_EmptySet DEF Init, MapBounds, Nothing
<1>4. QED  BY <1>1, <1>2, <1>3 DEF IInv, ExpiredOnlyWhileUnblocking, Init

(* Every step of the blocker keeps the types.                              *)
LEMMA TypeStep == TypeOK /\ [Next]_vars => TypeOK'
<1> SUFFICES ASSUME TypeOK, [Next]_vars PROVE TypeOK'  OBVIOUS
<1>1. CASE Clock
  <2>1. tick' \in BOOLEAN
    BY <1>1 DEF Clock
  <2>2. now' = now \/ (now < MaxTime /\ now' = now + 1)
    BY <1>1 DEF Clock
  <2>3. now' \in 0..MaxTime /\ 0..now \subseteq 0..now'
    BY <2>2, BlockerAssumption DEF TypeOK
  <2>4. QED  BY <1>1, <2>1, <2>3 DEF Clock, cleanupVars, TypeOK
<1>2. ASSUME NEW a \in Addr, NEW r \in Reasons, NEW d \in Durations, Block(a, r, d)
      PROVE  TypeOK'
  <2> DEFINE e == [expiry |-> now + (IF d = 0 THEN HundredYears ELSE d),
                   at |-> now, reason |-> r]
  <2>1. e \in Entry
    BY BlockerAssumption DEF Entry, TypeOK
  <2>2. Partial(blocked', Addr, Entry)
    <3>1. blocked' = Put(blocked, a, e)  BY <1>2 DEF Block
    <3>2. Partial(blocked, Addr, Entry)  BY DEF TypeOK
    <3>3. QED  BY <2>1, <3>1, <3>2, PutPartial
  <2>3. PutSucceeds(a, r) \/ PutFails(a) \/ UNCHANGED <<bpf, putFailed, delFailed>>
    BY <1>2 DEF Block
  <2>4. /\ bpf' = [f \in {"v4", "v6"} |-> bpf'[f]]
        /\ \A f \in {"v4", "v6"} :
              Partial(bpf'[f], {MapKey(b) : b \in Addr}, Reasons)
        /\ putFailed' \in SUBSET Addr
        /\ delFailed' \in SUBSET Addr
    <3>1. CASE PutSucceeds(a, r) \/ PutFails(a)  BY <3>1, PutType
    <3>2. CASE UNCHANGED <<bpf, putFailed, delFailed>>  BY <3>2 DEF TypeOK
    <3>3. QED  BY <2>3, <3>1, <3>2
  <2>5. QED  BY <1>2, <2>2, <2>4 DEF Block, cleanupVars, TypeOK
<1>3. ASSUME NEW a \in Addr, Unblock(a) PROVE TypeOK'
  <2>1. Remove(a)  BY <1>3 DEF Unblock
  <2>2. QED  BY <1>3, <2>1, RemoveType DEF Unblock, cleanupVars, TypeOK
<1>4. CASE CleanupTick
  <2>1. scanAt' \in 0..now'
    <3>1. scanAt' = now /\ now' = now  BY <1>4 DEF CleanupTick
    <3>2. now \in 0..MaxTime  BY DEF TypeOK
    <3>3. QED  BY <3>1, <3>2, BlockerAssumption
  <2>2. tick' \in BOOLEAN  BY <1>4 DEF CleanupTick
  <2>3. QED  BY <1>4, <2>1, <2>2 DEF CleanupTick, TypeOK
<1>5. CASE CleanupScan
  BY <1>5 DEF CleanupScan, TypeOK, Partial
<1>6. ASSUME NEW a \in Addr, CleanupUnblock(a) PROVE TypeOK'
  <2>1. Remove(a) \/ UNCHANGED <<blocked, bpf, putFailed, delFailed>>
    BY <1>6 DEF CleanupUnblock
  <2>2. CASE Remove(a)
    BY <1>6, <2>2, RemoveType DEF CleanupUnblock, TypeOK
  <2>3. CASE UNCHANGED <<blocked, bpf, putFailed, delFailed>>
    BY <1>6, <2>3 DEF CleanupUnblock, TypeOK
  <2>4. QED  BY <2>1, <2>2, <2>3
<1>7. CASE CleanupReturn
  BY <1>7 DEF CleanupReturn, TypeOK
<1>8. CASE Close
  BY <1>8 DEF Close, cleanupVars, TypeOK
<1>9. CASE UNCHANGED vars
  BY <1>9 DEF vars, TypeOK
<1>10. QED
  BY <1>1, <1>2, <1>3, <1>4, <1>5, <1>6, <1>7, <1>8, <1>9 DEF Next

-----------------------------------------------------------------------------
(* One family's map changes, at one key; within it no other address can be *)
(* meant by that key.                                                      *)
LEMMA PutKernel ==
    ASSUME TypeOK, NEW a \in Addr, NEW r \in Reasons, PutSucceeds(a, r)
    PROVE  /\ bpf'[Family(a)] = Put(bpf[Family(a)], MapKey(a), r)
           /\ \A f \in {"v4", "v6"} \ {Family(a)} : bpf'[f] = bpf[f]
           /\ InKernel(a)' /\ bpf'[Family(a)][MapKey(a)] = r
           /\ \A b \in Addr \ {a} : InKernel(b) =>
                 InKernel(b)' /\ bpf'[Family(b)][MapKey(b)] = bpf[Family(b)][MapKey(b)]
<1>1. /\ bpf'[Family(a)] = Put(bpf[Family(a)], MapKey(a), r)
      /\ \A f \in {"v4", "v6"} \ {Family(a)} : bpf'[f] = bpf[f]
  BY FamilyType DEF PutSucceeds, TypeOK
<1>2. InKernel(a)' /\ bpf'[Family(a)][MapKey(a)] = r
  BY <1>1 DEF InKernel, Put
<1>3. ASSUME NEW b \in Addr \ {a}, InKernel(b)
      PROVE  InKernel(b)' /\ bpf'[Family(b)][MapKey(b)] = bpf[Family(b)][MapKey(b)]
  <2>1. CASE Family(b) = Family(a)
    <3>1. MapKey(b) # MapKey(a)  BY <2>1, MapKeyInjective
    <3>2. QED  BY <1>1, <1>3, <2>1, <3>1 DEF InKernel, Put, InKernel
  <2>2. CASE Family(b) # Family(a)
    BY <1>1, <1>3, <2>2, FamilyType DEF InKernel
  <2>3. QED  BY <2>1, <2>2
<1>4. QED  BY <1>1, <1>2, <1>3

(* The same of a deletion.                                                 *)
LEMMA DeleteKernel ==
    ASSUME TypeOK, NEW a \in Addr, DeleteSucceeds(a)
    PROVE  /\ bpf'[Family(a)] = Delete(bpf[Family(a)], MapKey(a))
           /\ \A f \in {"v4", "v6"} \ {Family(a)} : bpf'[f] = bpf[f]
           /\ \A b \in Addr \ {a} : InKernel(b) =>
                 InKernel(b)' /\ bpf'[Family(b)][MapKey(b)] = bpf[Family(b)][MapKey(b)]
<1>1. /\ bpf'[Family(a)] = Delete(bpf[Family(a)], MapKey(a))
      /\ \A f \in {"v4", "v6"} \ {Family(a)} : bpf'[f] = bpf[f]
  BY FamilyType DEF DeleteSucceeds, TypeOK
<1>2. ASSUME NEW b \in Addr \ {a}, InKernel(b)
      PROVE  InKernel(b)' /\ bpf'[Family(b)][MapKey(b)] = bpf[Family(b)][MapKey(b)]
  <2>1. CASE Family(b) = Family(a)
    <3>1. MapKey(b) # MapKey(a)  BY <2>1, MapKeyInjective
    <3>2. QED  BY <1>1, <1>2, <2>1, <3>1 DEF InKernel, Delete, Restrict
  <2>2. CASE Family(b) # Family(a)
    BY <1>1, <1>2, <2>2, FamilyType DEF InKernel
  <2>3. QED  BY <2>1, <2>2
<1>3. QED  BY <1>1, <1>2

(* Block and Unblock keep the table and the maps in step.                  *)
LEMMA BlockMirrors ==
    ASSUME TypeOK, ListedIsEnforced, EnforcedIsListed,
           NEW a \in Addr, NEW r \in Reasons, NEW d \in Durations, Block(a, r, d)
    PROVE  ListedIsEnforced' /\ EnforcedIsListed'
<1> DEFINE e == [expiry |-> now + (IF d = 0 THEN HundredYears ELSE d),
                 at |-> now, reason |-> r]
<1>1. /\ DOMAIN blocked' = DOMAIN blocked \cup {a}
      /\ blocked'[a].reason = r
      /\ \A b \in DOMAIN blocked \ {a} : blocked'[b] = blocked[b]
  <2>1. blocked' = Put(blocked, a, e)  BY DEF Block
  <2>2. e.reason = r  OBVIOUS
  <2> HIDE DEF e
  <2>3. QED  BY <2>1, <2>2 DEF Put
<1>2. DOMAIN blocked \subseteq Addr  BY DEF TypeOK, Partial
<1>3. ListedIsEnforced'
  <2> SUFFICES ASSUME NEW b \in DOMAIN blocked' \ putFailed', Mirrored(b)
               PROVE  InKernel(b)' /\ bpf'[Family(b)][MapKey(b)] = blocked'[b].reason
    BY DEF ListedIsEnforced, Mirrored, InKernel
  <2>1. CASE b = a
    <3>1. PutSucceeds(a, r)  BY <2>1 DEF Block, PutFails
    <3>2. QED  BY <1>1, <2>1, <3>1, PutKernel
  <2>2. CASE b # a
    <3>1. b \in DOMAIN blocked \ putFailed
      BY <1>1, <2>2 DEF Block, PutSucceeds, PutFails
    <3>2. InKernel(b) /\ bpf[Family(b)][MapKey(b)] = blocked[b].reason
      BY <3>1 DEF ListedIsEnforced
    <3>3. CASE PutSucceeds(a, r)
      BY <1>1, <1>2, <2>2, <3>1, <3>2, <3>3, PutKernel
    <3>4. CASE UNCHANGED bpf
      BY <1>1, <2>2, <3>1, <3>2, <3>4 DEF InKernel
    <3>5. QED  BY <3>3, <3>4 DEF Block, PutFails
  <2>3. QED  BY <2>1, <2>2
<1>4. EnforcedIsListed'
  <2> SUFFICES ASSUME NEW f \in {"v4", "v6"}, NEW k \in DOMAIN bpf'[f]
               PROVE  \E b \in DOMAIN blocked' \cup delFailed' :
                          Family(b) = f /\ MapKey(b) = k
    BY DEF EnforcedIsListed
  <2>1. DOMAIN blocked \cup delFailed \subseteq DOMAIN blocked' \cup delFailed'
    BY <1>1 DEF Block, PutSucceeds, PutFails
  <2>2. CASE f = Family(a) /\ k = MapKey(a)
    BY <1>1, <2>2
  <2>3. CASE ~(f = Family(a) /\ k = MapKey(a))
    <3>1. k \in DOMAIN bpf[f]
      <4>1. CASE PutSucceeds(a, r)
        <5>1. CASE f = Family(a)
          <6>1. bpf'[f] = Put(bpf[f], MapKey(a), r)
            BY <4>1, <5>1, PutKernel
          <6>2. k \in DOMAIN bpf[f] \cup {MapKey(a)}  BY <6>1 DEF Put
          <6>3. QED  BY <2>3, <5>1, <6>2
        <5>2. CASE f # Family(a)
          BY <4>1, <5>2, PutKernel
        <5>3. QED  BY <5>1, <5>2
      <4>2. CASE UNCHANGED bpf
        BY <4>2
      <4>3. QED  BY <4>1, <4>2 DEF Block, PutFails
    <3>2. QED  BY <2>1, <3>1 DEF EnforcedIsListed
  <2>4. QED  BY <2>2, <2>3
<1>5. QED  BY <1>3, <1>4

(* Unblock keeps them in step.                                             *)
LEMMA RemoveMirrors ==
    ASSUME TypeOK, ListedIsEnforced, EnforcedIsListed, MapBounds,
           NEW a \in Addr, Remove(a)
    PROVE  ListedIsEnforced' /\ EnforcedIsListed'
<1>1. /\ DOMAIN blocked' = DOMAIN blocked \ {a}
      /\ \A b \in DOMAIN blocked \ {a} : blocked'[b] = blocked[b]
  BY DeleteEffect DEF Remove
<1>2. DOMAIN blocked \subseteq Addr  BY DEF TypeOK, Partial
<1>3. ListedIsEnforced'
  <2> SUFFICES ASSUME NEW b \in DOMAIN blocked' \ putFailed', Mirrored(b)
               PROVE  InKernel(b)' /\ bpf'[Family(b)][MapKey(b)] = blocked'[b].reason
    BY DEF ListedIsEnforced, Mirrored, InKernel
  <2>1. b \in DOMAIN blocked \ putFailed /\ b \in Addr \ {a}
    BY <1>1, <1>2 DEF Remove
  <2>2. InKernel(b) /\ bpf[Family(b)][MapKey(b)] = blocked[b].reason
    BY <2>1 DEF ListedIsEnforced
  <2>3. CASE DeleteSucceeds(a)
    BY <1>1, <2>1, <2>2, <2>3, DeleteKernel
  <2>4. CASE UNCHANGED bpf
    BY <1>1, <2>1, <2>2, <2>4 DEF InKernel
  <2>5. QED  BY <2>3, <2>4 DEF Remove, DeleteFails
<1>4. EnforcedIsListed'
  <2> SUFFICES ASSUME NEW f \in {"v4", "v6"}, NEW k \in DOMAIN bpf'[f]
               PROVE  \E b \in DOMAIN blocked' \cup delFailed' :
                          Family(b) = f /\ MapKey(b) = k
    BY DEF EnforcedIsListed
  <2>1. CASE DeleteSucceeds(a)
    <3>1. k \in DOMAIN bpf[f] /\ ~(f = Family(a) /\ k = MapKey(a))
      BY <2>1, DeleteKernel DEF Delete, Restrict
    <3>2. PICK b \in DOMAIN blocked \cup delFailed : Family(b) = f /\ MapKey(b) = k
      BY <3>1 DEF EnforcedIsListed
    <3>3. b # a  BY <3>1, <3>2
    <3>4. QED  BY <1>1, <2>1, <3>2, <3>3 DEF DeleteSucceeds
  <2>2. CASE DeleteFails(a)
    BY <1>1, <2>2 DEF DeleteFails, EnforcedIsListed
  <2>3. CASE ~Mirrored(a)
    <3>1. UNCHANGED <<bpf, delFailed>>  BY <2>3 DEF Remove
    <3>2. MockMode \/ Family(a) \notin LoadedMaps  BY <2>3 DEF Mirrored
    <3>3. bpf[Family(a)] = Nothing  BY <3>2, FamilyType DEF MapBounds
    <3>4. f # Family(a)  BY <3>1, <3>3 DEF Nothing
    <3>5. QED  BY <1>1, <3>1, <3>4 DEF EnforcedIsListed
  <2>4. QED  BY <2>1, <2>2, <2>3 DEF Remove
<1>5. QED  BY <1>3, <1>4

-----------------------------------------------------------------------------
(* The maps stay finite and within max_entries.                            *)
LEMMA BlockBounds ==
    ASSUME TypeOK, MapBounds,
           NEW a \in Addr, NEW r \in Reasons, NEW d \in Durations, Block(a, r, d)
    PROVE  MapBounds'
<1>1. CASE UNCHANGED bpf
  BY <1>1 DEF MapBounds, Nothing
<1>2. CASE Mirrored(a) /\ PutSucceeds(a, r)
  <2> DEFINE D == DOMAIN bpf[Family(a)]
  <2>1. DOMAIN bpf'[Family(a)] = D \cup {MapKey(a)}
    <3>1. bpf'[Family(a)] = Put(bpf[Family(a)], MapKey(a), r)
      BY <1>2, PutKernel
    <3>2. DOMAIN Put(bpf[Family(a)], MapKey(a), r) = D \cup {MapKey(a)}
      BY PutEffect
    <3>3. QED  BY <3>1, <3>2
  <2>2. IsFiniteSet(D) /\ Cardinality(D) <= MapCapacity
    BY FamilyType DEF MapBounds
  <2>3. IsFiniteSet(D \cup {MapKey(a)})  BY <2>2, FS_AddElement
  <2>4. Cardinality(D \cup {MapKey(a)}) <= MapCapacity
    <3>1. CASE MapKey(a) \in D
      <4>1. D \cup {MapKey(a)} = D  BY <3>1
      <4>2. QED  BY <2>2, <4>1
    <3>2. CASE MapKey(a) \notin D
      <4>1. ~(Cardinality(D) >= MapCapacity)
        BY <1>2, <3>2 DEF PutSucceeds, MapFull, InKernel
      <4>2. Cardinality(D \cup {MapKey(a)}) = Cardinality(D) + 1
        BY <2>2, <3>2, FS_AddElement
      <4>3. Cardinality(D) \in Nat  BY <2>2, FS_CardinalityType
      <4>4. QED  BY <4>1, <4>2, <4>3, BlockerAssumption
    <3>3. QED  BY <3>1, <3>2
  <2>5. \A f \in {"v4", "v6"} \ {Family(a)} : bpf'[f] = bpf[f]
    BY <1>2, PutKernel
  <2>6. ~MockMode /\ Family(a) \in LoadedMaps
    BY <1>2 DEF Mirrored
  <2> HIDE DEF D
  <2>7. ASSUME NEW f \in {"v4", "v6"}
        PROVE  /\ IsFiniteSet(DOMAIN bpf'[f])
               /\ Cardinality(DOMAIN bpf'[f]) <= MapCapacity
               /\ (MockMode \/ f \notin LoadedMaps) => bpf'[f] = Nothing
    <3>1. CASE f = Family(a)  BY <2>1, <2>3, <2>4, <2>6, <3>1
    <3>2. CASE f # Family(a)  BY <2>5, <3>2 DEF MapBounds
    <3>3. QED  BY <3>1, <3>2
  <2>8. QED  BY <2>7 DEF MapBounds, Nothing
<1>3. QED  BY <1>1, <1>2 DEF Block, PutFails

(* Unblock keeps the bounds.                                               *)
LEMMA RemoveBounds ==
    ASSUME TypeOK, MapBounds, NEW a \in Addr, Remove(a)
    PROVE  MapBounds'
<1>1. CASE UNCHANGED bpf
  BY <1>1 DEF MapBounds, Nothing
<1>2. CASE Mirrored(a) /\ DeleteSucceeds(a)
  <2> DEFINE D == DOMAIN bpf[Family(a)]
             E == D \ {MapKey(a)}
  <2>1. DOMAIN bpf'[Family(a)] = E
    BY <1>2, DeleteKernel DEF Delete, Restrict
  <2>2. IsFiniteSet(D) /\ Cardinality(D) <= MapCapacity
    BY FamilyType DEF MapBounds
  <2>3. IsFiniteSet(E) /\ Cardinality(E) <= Cardinality(D)
    BY <2>2, FS_Subset
  <2>4. Cardinality(E) <= MapCapacity
    BY <2>2, <2>3, FS_CardinalityType, BlockerAssumption
  <2>5. \A f \in {"v4", "v6"} \ {Family(a)} : bpf'[f] = bpf[f]
    BY <1>2, DeleteKernel
  <2>6. ~MockMode /\ Family(a) \in LoadedMaps
    BY <1>2 DEF Mirrored
  <2> HIDE DEF D, E
  <2>7. ASSUME NEW f \in {"v4", "v6"}
        PROVE  /\ IsFiniteSet(DOMAIN bpf'[f])
               /\ Cardinality(DOMAIN bpf'[f]) <= MapCapacity
               /\ (MockMode \/ f \notin LoadedMaps) => bpf'[f] = Nothing
    <3>1. CASE f = Family(a)  BY <2>1, <2>3, <2>4, <2>6, <3>1
    <3>2. CASE f # Family(a)  BY <2>5, <3>2 DEF MapBounds
    <3>3. QED  BY <3>1, <3>2
  <2>8. QED  BY <2>7 DEF MapBounds, Nothing
<1>3. QED  BY <1>1, <1>2 DEF Remove, DeleteFails

-----------------------------------------------------------------------------
(* Steps that change the table keep what the cleanup has collected sound.  *)
LEMMA BlockCollected ==
    ASSUME TypeOK, CollectedHadLapsed,
           NEW a \in Addr, NEW r \in Reasons, NEW d \in Durations, Block(a, r, d)
    PROVE  CollectedHadLapsed'
<1> DEFINE e == [expiry |-> now + (IF d = 0 THEN HundredYears ELSE d),
                 at |-> now, reason |-> r]
<1>1. blocked' = Put(blocked, a, e) /\ UNCHANGED <<expired, scanAt>>
  BY DEF Block, cleanupVars
<1>2. e.at >= scanAt
  BY BlockerAssumption DEF TypeOK
<1> HIDE DEF e
<1>3. ASSUME NEW b \in expired' \cap DOMAIN blocked'
      PROVE  blocked'[b].expiry < scanAt' \/ blocked'[b].at >= scanAt'
  <2>1. CASE b = a  BY <1>1, <1>2, <2>1 DEF Put
  <2>2. CASE b # a
    <3>1. b \in expired \cap DOMAIN blocked /\ blocked'[b] = blocked[b]
      BY <1>1, <1>3, <2>2 DEF Put
    <3>2. QED  BY <1>1, <3>1 DEF CollectedHadLapsed
  <2>3. QED  BY <2>1, <2>2
<1>4. QED  BY <1>3 DEF CollectedHadLapsed

(* Unblock keeps it sound, for it only takes entries away.                 *)
LEMMA RemoveCollected ==
    ASSUME CollectedHadLapsed, NEW a \in Addr, Remove(a),
           scanAt' = scanAt, expired' \subseteq expired
    PROVE  CollectedHadLapsed'
<1>1. blocked' = Delete(blocked, a)  BY DEF Remove
<1>2. QED  BY <1>1 DEF CollectedHadLapsed, Delete, Restrict

-----------------------------------------------------------------------------
(* The invariant is inductive: one case for each action of the blocker.    *)
LEMMA StepInv == IInv /\ [Next]_vars => IInv'
<1> SUFFICES ASSUME IInv, [Next]_vars PROVE IInv'  OBVIOUS
<1> USE DEF IInv
<1>0. TypeOK'  BY TypeStep
<1>1. CASE Clock
  <2>1. UNCHANGED <<blocked, bpf, cleanupVars, putFailed, delFailed>>
    BY <1>1 DEF Clock
  <2>2. QED
    BY <1>0, <2>1 DEF ListedIsEnforced, EnforcedIsListed, MapBounds, Nothing, InKernel,
       CollectedHadLapsed, ExpiredOnlyWhileUnblocking, cleanupVars
<1>2. ASSUME NEW a \in Addr, NEW r \in Reasons, NEW d \in Durations, Block(a, r, d)
      PROVE  IInv'
  <2>1. ListedIsEnforced' /\ EnforcedIsListed'  BY <1>2, BlockMirrors
  <2>2. MapBounds'  BY <1>2, BlockBounds
  <2>3. CollectedHadLapsed'  BY <1>2, BlockCollected
  <2>4. ExpiredOnlyWhileUnblocking'
    BY <1>2 DEF Block, cleanupVars, ExpiredOnlyWhileUnblocking
  <2>5. QED  BY <1>0, <2>1, <2>2, <2>3, <2>4
<1>3. ASSUME NEW a \in Addr, Unblock(a) PROVE IInv'
  <2>1. Remove(a) /\ UNCHANGED cleanupVars  BY <1>3 DEF Unblock
  <2>2. ListedIsEnforced' /\ EnforcedIsListed' /\ MapBounds'
    BY <2>1, RemoveMirrors, RemoveBounds
  <2>3. CollectedHadLapsed'  BY <2>1, RemoveCollected DEF cleanupVars
  <2>4. ExpiredOnlyWhileUnblocking'
    BY <2>1 DEF cleanupVars, ExpiredOnlyWhileUnblocking
  <2>5. QED  BY <1>0, <2>2, <2>3, <2>4
<1>4. CASE CleanupTick
  <2>1. expired = {} /\ expired' = {}
    BY <1>4 DEF CleanupTick, ExpiredOnlyWhileUnblocking
  <2>2. UNCHANGED <<blocked, bpf, putFailed, delFailed>>
    BY <1>4 DEF CleanupTick
  <2>3. QED
    BY <1>0, <2>1, <2>2 DEF ListedIsEnforced, EnforcedIsListed, MapBounds, Nothing,
       InKernel, CollectedHadLapsed, ExpiredOnlyWhileUnblocking
<1>5. CASE CleanupScan
  <2>1. UNCHANGED <<blocked, bpf, scanAt, putFailed, delFailed>>
    BY <1>5 DEF CleanupScan
  <2>2. CollectedHadLapsed'
    <3>1. expired' = {a \in DOMAIN blocked : scanAt > blocked[a].expiry}
      BY <1>5 DEF CleanupScan, Lapsed
    <3>2. \A a \in DOMAIN blocked : blocked[a].expiry \in Nat
      BY DEF TypeOK, Partial, Entry
    <3>3. scanAt \in Nat  BY BlockerAssumption DEF TypeOK
    <3>4. QED  BY <2>1, <3>1, <3>2, <3>3 DEF CollectedHadLapsed
  <2>3. ExpiredOnlyWhileUnblocking'
    BY <1>5 DEF CleanupScan, ExpiredOnlyWhileUnblocking
  <2>4. QED
    BY <1>0, <2>1, <2>2, <2>3 DEF ListedIsEnforced, EnforcedIsListed, MapBounds,
       Nothing, InKernel
<1>6. ASSUME NEW a \in Addr, CleanupUnblock(a) PROVE IInv'
  <2>1. scanAt' = scanAt /\ expired' \subseteq expired
    BY <1>6 DEF CleanupUnblock
  <2>2. ExpiredOnlyWhileUnblocking'
    BY <1>6 DEF CleanupUnblock, ExpiredOnlyWhileUnblocking
  <2>3. CASE Remove(a)
    BY <1>0, <2>1, <2>2, <2>3, RemoveMirrors, RemoveBounds, RemoveCollected
  <2>4. CASE UNCHANGED <<blocked, bpf, putFailed, delFailed>>
    BY <1>0, <2>1, <2>2, <2>4 DEF ListedIsEnforced, EnforcedIsListed, MapBounds,
       Nothing, InKernel, CollectedHadLapsed
  <2>5. QED  BY <1>6, <2>3, <2>4 DEF CleanupUnblock
<1>7. CASE CleanupReturn
  BY <1>0, <1>7 DEF CleanupReturn, ListedIsEnforced, EnforcedIsListed, MapBounds,
     Nothing, InKernel, CollectedHadLapsed, ExpiredOnlyWhileUnblocking
<1>8. CASE Close
  BY <1>0, <1>8 DEF Close, cleanupVars, ListedIsEnforced, EnforcedIsListed, MapBounds,
     Nothing, InKernel, CollectedHadLapsed, ExpiredOnlyWhileUnblocking
<1>9. CASE UNCHANGED vars
  BY <1>0, <1>9 DEF vars, ListedIsEnforced, EnforcedIsListed, MapBounds,
     Nothing, InKernel, CollectedHadLapsed, ExpiredOnlyWhileUnblocking
<1>10. QED
  BY <1>1, <1>2, <1>3, <1>4, <1>5, <1>6, <1>7, <1>8, <1>9 DEF Next

(* The invariant holds of every behaviour of the blocker.                  *)
THEOREM Invariance == Spec => []IInv
BY InitInv, StepInv, PTL DEF Spec

(* Types: in particular what the BPF maps hold are keys of addresses the   *)
(* blocker knows how to name.                                              *)
THEOREM TypeCorrect == Spec => []TypeOK
<1>1. IInv => TypeOK  BY DEF IInv
<1>2. QED  BY <1>1, Invariance, PTL

(* Blocked addresses are in the kernel's map, under the reported reason,   *)
(* unless their last Block returned an error.                              *)
THEOREM BlockingReachesTheKernel == Spec => []ListedIsEnforced
<1>1. IInv => ListedIsEnforced  BY DEF IInv
<1>2. QED  BY <1>1, Invariance, PTL

(* The kernel's map holds no forgotten address, unless an Unblock of it    *)
(* returned an error.                                                      *)
THEOREM NothingStaysDropped == Spec => []EnforcedIsListed
<1>1. IInv => EnforcedIsListed  BY DEF IInv
<1>2. QED  BY <1>1, Invariance, PTL

(* The maps stay within max_entries, and empty when there is no kernel.    *)
THEOREM MapsAreBounded == Spec => []MapBounds
<1>1. IInv => MapBounds  BY DEF IInv
<1>2. QED  BY <1>1, Invariance, PTL

(* What the cleanup is about to unblock had lapsed when it looked, or is   *)
(* a new block.                                                            *)
THEOREM CleanupIsSound == Spec => []CollectedHadLapsed
<1>1. IInv => CollectedHadLapsed  BY DEF IInv
<1>2. QED  BY <1>1, Invariance, PTL

(* The only step that takes an active block away, besides Unblock, is a    *)
(* cleanup whose clock reading is older than the block.                    *)
THEOREM ActiveBlocksAreKept == Spec => ActiveBlockIsKept
<1> DEFINE Kept == \A a \in Addr : Active(a) =>
                      \/ a \in DOMAIN blocked' /\ blocked'[a] = blocked[a]
                      \/ Unblock(a)
                      \/ a \in expired /\ blocked[a].at >= scanAt
<1>1. IInv /\ [Next]_vars => [Kept]_vars
  <2> SUFFICES ASSUME IInv, Next, NEW a \in Addr, Active(a)
               PROVE  \/ a \in DOMAIN blocked' /\ blocked'[a] = blocked[a]
                      \/ Unblock(a)
                      \/ a \in expired /\ blocked[a].at >= scanAt
    OBVIOUS
  <2> USE DEF Active
  <2>1. CASE UNCHANGED blocked  BY <2>1
  <2>2. ASSUME NEW b \in Addr, NEW r \in Reasons, NEW d \in Durations, Block(b, r, d)
        PROVE  a \in DOMAIN blocked' /\ blocked'[a] = blocked[a]
    <3>1. a # b  BY <2>2 DEF Block, Refused
    <3>2. QED  BY <2>2, <3>1 DEF Block, Put
  <2>3. ASSUME NEW b \in Addr, Remove(b), a # b
        PROVE  a \in DOMAIN blocked' /\ blocked'[a] = blocked[a]
    BY <2>3 DEF Remove, Delete, Restrict
  <2>4. ASSUME a \in expired
        PROVE  blocked[a].at >= scanAt
    <3>1. blocked[a].expiry < scanAt \/ blocked[a].at >= scanAt
      BY <2>4 DEF IInv, CollectedHadLapsed
    <3>2. ~(blocked[a].expiry < scanAt)
      <4>1. scanAt \in 0..now /\ now \in 0..MaxTime /\ blocked[a].expiry \in Nat
        BY DEF IInv, TypeOK, Partial, Entry
      <4>2. QED  BY <4>1, BlockerAssumption
    <3>3. QED  BY <3>1, <3>2
  <2>5. ASSUME NEW b \in Addr, Unblock(b)
        PROVE  (a \in DOMAIN blocked' /\ blocked'[a] = blocked[a]) \/ Unblock(a)
    BY <2>3, <2>5 DEF Unblock
  <2>6. ASSUME NEW b \in Addr, CleanupUnblock(b)
        PROVE  \/ a \in DOMAIN blocked' /\ blocked'[a] = blocked[a]
               \/ a \in expired /\ blocked[a].at >= scanAt
    BY <2>3, <2>4, <2>6 DEF CleanupUnblock
  <2>7. QED
    BY <2>1, <2>2, <2>5, <2>6
    DEF Next, Clock, CleanupTick, CleanupScan, CleanupReturn, Close
<1>2. QED  BY <1>1, Invariance, PTL DEF Spec, ActiveBlockIsKept

-----------------------------------------------------------------------------
(* The refinement.  The list, the blocks whose time has not run out, what  *)
(* the kernel drops and what the callers were told are functions of the    *)
(* blocker's state (Abstract); each step of the blocker changes them as a  *)
(* step of Blocklist does, or not at all.                                  *)

(* Only a kernel map's call can have failed.                               *)
FailuresAreOfMaps == \A a \in putFailed \cup delFailed : Mirrored(a)

RefInv == TypeOK /\ FailuresAreOfMaps

LEMMA RefInvariance == Spec => []RefInv
<1>1. Init => FailuresAreOfMaps
  BY DEF Init, FailuresAreOfMaps
<1>2. TypeOK /\ FailuresAreOfMaps /\ [Next]_vars => FailuresAreOfMaps'
  <2> SUFFICES ASSUME FailuresAreOfMaps, [Next]_vars PROVE FailuresAreOfMaps'
    OBVIOUS
  <2> USE DEF FailuresAreOfMaps
  <2>1. CASE UNCHANGED <<putFailed, delFailed>>
    BY <2>1 DEF Mirrored
  <2>2. ASSUME NEW a \in Addr, NEW r \in Reasons, NEW d \in Durations, Block(a, r, d)
        PROVE  FailuresAreOfMaps'
    BY <2>2 DEF Block, PutSucceeds, PutFails, Mirrored
  <2>3. ASSUME NEW a \in Addr, Remove(a) PROVE FailuresAreOfMaps'
    BY <2>3 DEF Remove, DeleteSucceeds, DeleteFails, Mirrored
  <2>4. QED
    BY <2>1, <2>2, <2>3 DEF Next, Clock, Unblock, CleanupTick, CleanupScan,
       CleanupUnblock, CleanupReturn, Close, vars
<1>3. QED  BY <1>1, <1>2, TypeCorrect, PTL DEF Spec, RefInv

(* A write of the kernel's map is the abstract Kernel's part of a block.   *)
LEMMA BlockKernel ==
    ASSUME RefInv, NEW a \in Addr, NEW r \in Reasons, NEW d \in Durations, Block(a, r, d)
    PROVE  Abstract!Kernel(a, {b \in Addr : InKernel(b)} \cup {a})
<1> DEFINE K  == {b \in Addr : InKernel(b)}
           K1 == {b \in Addr : InKernel(b)'}
<1>1. CASE Mirrored(a) /\ PutSucceeds(a, r)
  <2>1. putFailed' \cup delFailed' = (putFailed \cup delFailed) \ {a}
    BY <1>1 DEF PutSucceeds
  <2>2. ASSUME NEW b \in Addr PROVE InKernel(b)' <=> (InKernel(b) \/ b = a)
    <3>1. InKernel(a)'  BY <1>1, PutKernel DEF RefInv
    <3>2. CASE b # a /\ Family(b) = Family(a)
      <4>1. MapKey(b) # MapKey(a)  BY <3>2, MapKeyInjective
      <4>2. bpf'[Family(a)] = Put(bpf[Family(a)], MapKey(a), r)
        BY <1>1, PutKernel DEF RefInv
      <4>3. DOMAIN bpf'[Family(a)] = DOMAIN bpf[Family(a)] \cup {MapKey(a)}
        <5>1. DOMAIN Put(bpf[Family(a)], MapKey(a), r) = DOMAIN bpf[Family(a)] \cup {MapKey(a)}
          BY PutEffect
        <5>2. QED  BY <4>2, <5>1
      <4>4. QED  BY <3>2, <4>1, <4>3 DEF InKernel
    <3>3. CASE Family(b) # Family(a)
      <4>1. bpf'[Family(b)] = bpf[Family(b)]
        BY <1>1, <3>3, PutKernel, FamilyType DEF RefInv
      <4>2. QED  BY <3>3, <4>1 DEF InKernel
    <3>4. QED  BY <3>1, <3>2, <3>3
  <2>3. K1 = K \cup {a}  BY <2>2
  <2>4. QED  BY <1>1, <2>1, <2>3 DEF Abstract!Kernel
<1>2. CASE Mirrored(a) /\ PutFails(a)
  <2>1. putFailed' \cup delFailed' = (putFailed \cup delFailed) \cup {a}
    BY <1>2 DEF PutFails
  <2>2. K1 = K  BY <1>2 DEF PutFails, InKernel
  <2>3. QED  BY <1>2, <2>1, <2>2 DEF Abstract!Kernel
<1>3. CASE ~Mirrored(a)
  <2>1. UNCHANGED <<bpf, putFailed, delFailed>>  BY <1>3 DEF Block
  <2>2. K1 = K  BY <2>1 DEF InKernel
  <2>3. a \notin putFailed \cup delFailed  BY <1>3 DEF RefInv, FailuresAreOfMaps
  <2>4. QED  BY <1>3, <2>1, <2>2, <2>3 DEF Abstract!Kernel
<1>4. QED  BY <1>1, <1>2, <1>3 DEF Block

(* The same of what Unblock does in the kernel.                            *)
LEMMA RemoveKernel ==
    ASSUME RefInv, NEW a \in Addr, Remove(a)
    PROVE  Abstract!Kernel(a, {b \in Addr : InKernel(b)} \ {a})
<1> DEFINE K  == {b \in Addr : InKernel(b)}
           K1 == {b \in Addr : InKernel(b)'}
<1>1. CASE Mirrored(a) /\ DeleteSucceeds(a)
  <2>1. putFailed' \cup delFailed' = (putFailed \cup delFailed) \ {a}
    BY <1>1 DEF Remove, DeleteSucceeds
  <2>2. bpf'[Family(a)] = Delete(bpf[Family(a)], MapKey(a))
    BY <1>1, DeleteKernel DEF RefInv
  <2>3. DOMAIN bpf'[Family(a)] = DOMAIN bpf[Family(a)] \ {MapKey(a)}
    <3>1. DOMAIN Delete(bpf[Family(a)], MapKey(a)) = DOMAIN bpf[Family(a)] \ {MapKey(a)}
      BY DeleteEffect
    <3>2. QED  BY <2>2, <3>1
  <2>4. ASSUME NEW b \in Addr PROVE InKernel(b)' <=> (InKernel(b) /\ b # a)
    <3>1. CASE Family(b) = Family(a)
      <4>1. b = a <=> MapKey(b) = MapKey(a)  BY <3>1, MapKeyInjective
      <4>2. QED  BY <2>3, <3>1, <4>1 DEF InKernel
    <3>2. CASE Family(b) # Family(a)
      <4>1. bpf'[Family(b)] = bpf[Family(b)]
        BY <1>1, <3>2, DeleteKernel, FamilyType DEF RefInv
      <4>2. QED  BY <3>2, <4>1 DEF InKernel
    <3>3. QED  BY <3>1, <3>2
  <2>5. K1 = K \ {a}  BY <2>4
  <2>6. QED  BY <1>1, <2>1, <2>5 DEF Abstract!Kernel
<1>2. CASE Mirrored(a) /\ DeleteFails(a)
  <2>1. putFailed' \cup delFailed' = (putFailed \cup delFailed) \cup {a}
    BY <1>2 DEF Remove, DeleteFails
  <2>2. K1 = K  BY <1>2 DEF DeleteFails, InKernel
  <2>3. QED  BY <1>2, <2>1, <2>2 DEF Abstract!Kernel
<1>3. CASE ~Mirrored(a)
  <2>1. UNCHANGED <<bpf, delFailed>> /\ putFailed' = putFailed \ {a}
    BY <1>3 DEF Remove
  <2>2. K1 = K  BY <2>1 DEF InKernel
  <2>3. a \notin putFailed \cup delFailed  BY <1>3 DEF RefInv, FailuresAreOfMaps
  <2>4. QED  BY <1>3, <2>1, <2>2, <2>3 DEF Abstract!Kernel
<1>4. QED  BY <1>1, <1>2, <1>3 DEF Remove

(* Block is the abstract Block: only the address it is called with becomes *)
(* active, at once, also when it is blocked for ever.                      *)
LEMMA BlockImplements ==
    ASSUME RefInv, NEW a \in Addr, NEW r \in Reasons, NEW d \in Durations, Block(a, r, d)
    PROVE  Abstract!Block(a)
<1> DEFINE e == [expiry |-> now + (IF d = 0 THEN HundredYears ELSE d),
                 at |-> now, reason |-> r]
<1>1. blocked' = Put(blocked, a, e) /\ now' = now /\ ~Active(a)
  BY DEF Block, Refused
<1>2. now < e.expiry
  BY BlockerAssumption DEF RefInv, TypeOK
<1> HIDE DEF e
<1>3. DOMAIN blocked' = DOMAIN blocked \cup {a}  BY <1>1, PutEffect
<1>4. ASSUME NEW b \in Addr PROVE Active(b)' <=> (Active(b) \/ b = a)
  <2>1. blocked'[a] = e  BY <1>1 DEF Put
  <2>2. b # a /\ b \in DOMAIN blocked => blocked'[b] = blocked[b]
    BY <1>1 DEF Put
  <2>3. QED  BY <1>1, <1>2, <1>3, <2>1, <2>2 DEF Active
<1>5. {b \in Addr : Active(b)'} = {b \in Addr : Active(b)} \cup {a}  BY <1>4
<1>6. QED  BY <1>1, <1>3, <1>5, BlockKernel DEF Abstract!Block

(* What Unblock does is the abstract Unblock, whoever called it.           *)
LEMMA RemoveImplements ==
    ASSUME RefInv, NEW a \in Addr, a \in DOMAIN blocked, Remove(a), now' = now
    PROVE  Abstract!Unblock(a)
<1>1. /\ DOMAIN blocked' = DOMAIN blocked \ {a}
      /\ \A b \in DOMAIN blocked \ {a} : blocked'[b] = blocked[b]
  BY DeleteEffect DEF Remove
<1>2. ASSUME NEW b \in Addr PROVE Active(b)' <=> (Active(b) /\ b # a)
  BY <1>1 DEF Active
<1>3. {b \in Addr : Active(b)'} = {b \in Addr : Active(b)} \ {a}  BY <1>2
<1>4. QED  BY <1>1, <1>3, RemoveKernel DEF Abstract!Unblock

(* The blocker keeps its promise: seen through Abstract, with its locks    *)
(* released between scan and unblock and a kernel that may refuse any      *)
(* call, it is a list that changes one address at a time.                  *)
THEOREM KeepsItsPromise == Spec => Promise
<1>1. Init => Abstract!Init
  <2> SUFFICES ASSUME Init PROVE Abstract!Init  OBVIOUS
  <2>1. DOMAIN blocked = {} /\ putFailed \cup delFailed = {}
    BY DEF Init, Nothing
  <2>2. \A a \in Addr : DOMAIN bpf[Family(a)] = {}
    BY FamilyType DEF Init, Nothing
  <2>3. QED  BY <2>1, <2>2 DEF Abstract!Init, Active, InKernel
<1>2. RefInv /\ [Next]_vars => [Abstract!Next]_Abstract!vars
  <2> SUFFICES ASSUME RefInv, [Next]_vars PROVE [Abstract!Next]_Abstract!vars
    OBVIOUS
  <2>1. CASE UNCHANGED <<now, blocked, bpf, putFailed, delFailed>>
    BY <2>1 DEF Abstract!vars, Active, InKernel
  <2>2. CASE Clock
    <3>1. UNCHANGED <<blocked, bpf, putFailed, delFailed>>  BY <2>2 DEF Clock
    <3>2. now' >= now  BY <2>2, BlockerAssumption DEF Clock, RefInv, TypeOK
    <3>3. ASSUME NEW a \in Addr, Active(a)' PROVE Active(a)
      <4>1. a \in DOMAIN blocked /\ now' < blocked[a].expiry
        BY <3>1, <3>3 DEF Active
      <4>2. blocked[a].expiry \in Nat /\ now \in Nat /\ now' \in Nat
        BY <2>2, <4>1, BlockerAssumption DEF RefInv, TypeOK, Partial, Entry, Clock
      <4>3. QED  BY <3>2, <4>1, <4>2 DEF Active
    <3>4. Abstract!Lapse  BY <3>1, <3>3 DEF Abstract!Lapse, InKernel
    <3>5. QED  BY <3>4 DEF Abstract!Next
  <2>3. ASSUME NEW a \in Addr, NEW r \in Reasons, NEW d \in Durations, Block(a, r, d)
        PROVE  Abstract!Next
    BY <2>3, BlockImplements DEF Abstract!Next
  <2>4. ASSUME NEW a \in Addr, a \in DOMAIN blocked, Remove(a), now' = now
        PROVE  Abstract!Next
    BY <2>4, RemoveImplements DEF Abstract!Next
  <2>5. ASSUME NEW a \in Addr, CleanupUnblock(a)
        PROVE  [Abstract!Next]_Abstract!vars
    BY <2>1, <2>4, <2>5 DEF CleanupUnblock
  <2>6. QED
    BY <2>1, <2>2, <2>3, <2>4, <2>5 DEF Next, Unblock, CleanupTick, CleanupScan,
       CleanupReturn, Close, vars
<1>3. QED  BY <1>1, <1>2, RefInvariance, PTL DEF Spec, Promise, Abstract!Spec

(* What the promise is good for: in every behaviour of the abstract list   *)
(* the kernel drops what is listed and nothing else, but for addresses of  *)
(* which a call has ended in an error.                                     *)
LEMMA ListAndKernelAgree == Abstract!Spec => []Abstract!Agreement
<1>1. Abstract!Init => Abstract!Agreement
  BY DEF Abstract!Init, Abstract!Agreement
<1>2. Abstract!Agreement /\ [Abstract!Next]_Abstract!vars => Abstract!Agreement'
  BY DEF Abstract!Agreement, Abstract!Next, Abstract!Lapse, Abstract!Block,
     Abstract!Unblock, Abstract!Kernel, Abstract!vars
<1>3. QED  BY <1>1, <1>2, PTL DEF Abstract!Spec

(* Hence it is so of the blocker.                                          *)
THEOREM BlockerAgrees == Spec => []Abstract!Agreement
BY KeepsItsPromise, ListAndKernelAgree, PTL DEF Promise

-----------------------------------------------------------------------------
(* On a big-endian host the key under which an address is stored is the    *)
(* bytes of a packet from it, and its family is its frame's.               *)
LEMMA KeyIsTheBytes ==
    ASSUME ~LittleEndian, MappedV4 = {}, NEW s \in Source
    PROVE  /\ NameOf(s) \in Addr
           /\ Family(NameOf(s)) = s[1]
           /\ MapKey(NameOf(s)) = s[2]
<1>1. PICK f \in {"v4", "v6"}, a \in Addr :
        s = <<f, a>> /\ (f = "v4" => a \in V4) /\ (f = "v6" => a \in V6)
  BY DEF Source, Addr
<1>2. NameOf(s) = a /\ s[1] = f /\ s[2] = a
  BY <1>1 DEF NameOf
<1>3. Family(a) = f
  <2>1. CASE f = "v4"  BY <2>1, <1>1 DEF Family
  <2>2. CASE f = "v6"
    <3>1. a \notin V4  BY <2>2, <1>1, AddressAssumption
    <3> QED  BY <2>2, <3>1 DEF Family
  <2> QED  BY <1>1, <2>1, <2>2
<1>4. MapKey(a) = a
  BY DEF MapKey, HostBytes, ipToKey4, ipToKey6
<1> QED  BY <1>1, <1>2, <1>3, <1>4

(* Blocking an address drops its packets: Blocker's table, the byte order  *)
(* of ipToKey4 and the lookups of xdp_drop.c fit together.                 *)
THEOREM BlockingDropsPackets ==
    ASSUME ~LittleEndian, MappedV4 = {}
    PROVE  Spec => []BlockedIsDropped
<1>1. ListedIsEnforced => BlockedIsDropped
  <2> SUFFICES ASSUME ListedIsEnforced,
                      NEW s \in Source,
                      NameOf(s) \in DOMAIN blocked \ putFailed,
                      Mirrored(NameOf(s))
               PROVE  Drops(bpf, s)
    BY DEF BlockedIsDropped
  <2>1. InKernel(NameOf(s))
    BY DEF ListedIsEnforced
  <2>2. Family(NameOf(s)) = s[1] /\ MapKey(NameOf(s)) = s[2]
    BY KeyIsTheBytes
  <2> QED  BY <2>1, <2>2 DEF InKernel, Drops
<1> QED  BY <1>1, BlockingReachesTheKernel, PTL

(* Nothing else is dropped: a packet the XDP program drops comes from an   *)
(* address in the table, or from one whose Unblock returned an error.      *)
THEOREM OnlyBlockedIsDropped ==
    ASSUME ~LittleEndian, MappedV4 = {}
    PROVE  Spec => []DroppedIsBlocked
<1>1. EnforcedIsListed => DroppedIsBlocked
  <2> SUFFICES ASSUME EnforcedIsListed,
                      NEW s \in Source,
                      Drops(bpf, s)
               PROVE  NameOf(s) \in DOMAIN blocked \cup delFailed
    BY DEF DroppedIsBlocked
  <2>1. s[1] \in {"v4", "v6"} /\ s[2] \in DOMAIN bpf[s[1]]
    BY DEF Source, Drops
  <2>2. PICK a \in DOMAIN blocked \cup delFailed : Family(a) = s[1] /\ MapKey(a) = s[2]
    BY <2>1 DEF EnforcedIsListed
  <2>3. MapKey(a) = a
    BY DEF MapKey, HostBytes, ipToKey4, ipToKey6
  <2> QED  BY <2>2, <2>3 DEF NameOf
<1> QED  BY <1>1, NothingStaysDropped, PTL
=============================================================================
