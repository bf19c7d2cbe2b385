------------------------------ MODULE Blocker ------------------------------
(***************************************************************************)
(* internal/blocker: the table of blocked addresses and the two BPF maps   *)
(* (blocklist_map, blocklist_v6_map) it is mirrored into.                  *)
(*                                                                         *)
(* Block, Unblock and the reads hold b.mu for their whole body, so each is *)
(* one step.  cleanupLoop is a goroutine of its own that releases the lock *)
(* between its scan and every Unblock it makes: it has a program counter.  *)
(* Calls into the kernel may fail; Block and Unblock return the error and  *)
(* leave the Go maps as they had already set them.                         *)
(***************************************************************************)
EXTENDS Addresses, FiniteSets, Functions

CONSTANTS
    Reasons,        \* model.BlockReason: manual, rate, port scan
    Durations,      \* durations callers pass to Block; 0 stands for "for ever"
    HundredYears,   \* what Block makes of duration 0
    CleanupPeriod,  \* period of the cleanup ticker
    MapCapacity,    \* max_entries of each blocklist map
    MockMode,       \* no kernel is involved
    LoadedMaps,     \* families whose BPF map is not nil
    KernelErrors,   \* a map operation may fail for a reason other than a full map
    MaxTime         \* bound of the model: the clock stops here

ASSUME BlockerAssumption ==
    /\ Durations \subseteq Nat
    /\ HundredYears \in Nat \ {0}
    /\ CleanupPeriod \in Nat \ {0}
    /\ MapCapacity \in Nat
    /\ MockMode \in BOOLEAN
    /\ LoadedMaps \subseteq {"v4", "v6"}
    /\ KernelErrors \in BOOLEAN
    /\ MaxTime \in Nat

VARIABLES
    now,        \* time.Now()
    tick,       \* the cleanup ticker's channel (capacity one) holds a tick
    blocked,    \* blockedIPs, blockedAt and reasons: always set and deleted together
    bpf,        \* contents of the BPF maps m4 and m6, by family
    pc,         \* where cleanupLoop stands
    scanAt,     \* cleanupLoop's local now, read before it takes the lock
    expired,    \* cleanupLoop's local slice, less what it has unblocked already
    stopped,    \* stopChan is closed or the context is cancelled
    putFailed,  \* history: the last Block of the address returned the map's error
    delFailed   \* history: an Unblock of the address returned the map's error

vars == <<now, tick, blocked, bpf, pc, scanAt, expired, stopped, putFailed, delFailed>>

cleanupVars == <<pc, scanAt, expired>>

-----------------------------------------------------------------------------
(* Operators named ..._Bug are plausible mistakes, none of them in the     *)
(* code: no specification uses them, they show what the properties catch.  *)

Entry == [expiry : Nat, at : Nat, reason : Reasons]

Put(f, k, v) == [x \in DOMAIN f \cup {k} |-> IF x = k THEN v ELSE f[x]]
Delete(f, k) == Restrict(f, DOMAIN f \ {k})
Nothing      == [x \in {} |-> 0]

(* now.Before(expiry): what Block, IsBlocked and GetBlockedIPCount ask.    *)
Active(a) == a \in DOMAIN blocked /\ now < blocked[a].expiry

Refused_Bug(a) == a \in DOMAIN blocked /\ now < blocked[a].at   \* the wrong timestamp

(* Block answers ErrAlreadyBlocked.                                        *)
Refused(a) == Active(a)

Lapsed_Bug(a, t) == a \in DOMAIN blocked /\ t >= blocked[a].expiry

(* now.After(expiry): what List and cleanupLoop ask.                       *)
Lapsed(a, t) == a \in DOMAIN blocked /\ t > blocked[a].expiry

(* Block and Unblock touch a BPF map only when there is one.               *)
Mirrored(a) == ~MockMode /\ Family(a) \in LoadedMaps

InKernel(a) == MapKey(a) \in DOMAIN bpf[Family(a)]

MapFull(a) == /\ ~InKernel(a)
              /\ Cardinality(DOMAIN bpf[Family(a)]) >= MapCapacity

(* Results of the read-only methods.                                       *)
List              == {a \in DOMAIN blocked : ~Lapsed(a, now)}
GetBlockedIPCount == Cardinality({a \in DOMAIN blocked : Active(a)})

-----------------------------------------------------------------------------
Init ==
    /\ now = 0
    /\ tick = FALSE
    /\ blocked = Nothing
    /\ bpf = [f \in {"v4", "v6"} |-> Nothing]
    /\ pc = "select"
    /\ scanAt = 0
    /\ expired = {}
    /\ stopped = FALSE
    /\ putFailed = {}
    /\ delFailed = {}

(* Time passes and the ticker fills its channel; at the bound MaxTime only *)
(* the ticker goes on.                                                     *)
Clock ==
    /\ IF now < MaxTime
         THEN /\ now' = now + 1
              /\ tick' = (tick \/ now' % CleanupPeriod = 0)
         ELSE /\ tick' = TRUE
              /\ UNCHANGED now
    /\ UNCHANGED <<blocked, bpf, cleanupVars, stopped, putFailed, delFailed>>

PutSucceeds_Bug(a, r) ==     \* an existing key is kept, as with BPF_NOEXIST
    /\ ~MapFull(a)
    /\ bpf' = IF InKernel(a) THEN bpf
              ELSE [bpf EXCEPT ![Family(a)] = Put(@, MapKey(a), r)]
    /\ putFailed' = putFailed \ {a}
    /\ delFailed' = delFailed \ {a}

PutSucceeds(a, r) ==
    /\ ~MapFull(a)
    /\ bpf' = [bpf EXCEPT ![Family(a)] = Put(@, MapKey(a), r)]
    /\ putFailed' = putFailed \ {a}
    /\ delFailed' = delFailed \ {a}

PutFails(a) ==
    /\ MapFull(a) \/ KernelErrors
    /\ putFailed' = putFailed \cup {a}
    /\ UNCHANGED <<bpf, delFailed>>

(* Block: refused while the address is active; a lapsed entry the cleanup  *)
(* has not reached is overwritten.  The Go maps are written first.         *)
Block(a, r, d) ==
    /\ ~Refused(a)
    /\ blocked' = Put(blocked, a,
                      [expiry |-> now + (IF d = 0 THEN HundredYears ELSE d),
                       at |-> now, reason |-> r])
    /\ IF Mirrored(a) THEN PutSucceeds(a, r) \/ PutFails(a)
                      ELSE UNCHANGED <<bpf, putFailed, delFailed>>
    /\ UNCHANGED <<now, tick, cleanupVars, stopped>>

DeleteSucceeds_Bug(a) == delFailed' = delFailed \ {a} /\ UNCHANGED bpf

(* The map's Delete; ErrKeyNotExist counts as success.                     *)
DeleteSucceeds(a) ==
    /\ bpf' = [bpf EXCEPT ![Family(a)] = Delete(@, MapKey(a))]
    /\ delFailed' = delFailed \ {a}

DeleteFails(a) ==
    /\ KernelErrors
    /\ delFailed' = delFailed \cup {a}
    /\ UNCHANGED bpf

(* The body of Unblock, whoever calls it.                                  *)
Remove(a) ==
    /\ blocked' = Delete(blocked, a)
    /\ putFailed' = putFailed \ {a}
    /\ IF Mirrored(a) THEN DeleteSucceeds(a) \/ DeleteFails(a)
                      ELSE UNCHANGED <<bpf, delFailed>>

(* Unblock called through the API.                                         *)
Unblock(a) ==
    /\ a \in DOMAIN blocked
    /\ Remove(a)
    /\ UNCHANGED <<now, tick, cleanupVars, stopped>>

CleanupTick_Bug ==           \* the clock is read once, before the loop
    /\ pc = "select"
    /\ tick
    /\ tick' = FALSE
    /\ pc' = "scan"
    /\ UNCHANGED <<now, blocked, bpf, scanAt, expired, stopped, putFailed, delFailed>>

(* cleanupLoop's select takes the tick and reads the clock ...             *)
CleanupTick ==
    /\ pc = "select"
    /\ tick
    /\ tick' = FALSE
    /\ scanAt' = now
    /\ pc' = "scan"
    /\ UNCHANGED <<now, blocked, bpf, expired, stopped, putFailed, delFailed>>

(* ... then collects the lapsed addresses under the lock ...               *)
CleanupScan ==
    /\ pc = "scan"
    /\ expired' = {a \in DOMAIN blocked : Lapsed(a, scanAt)}
    /\ pc' = IF expired' = {} THEN "select" ELSE "unblock"
    /\ UNCHANGED <<now, tick, blocked, bpf, scanAt, stopped, putFailed, delFailed>>

CleanupUnblock_Bug(a) ==     \* deletes from the table only
    /\ pc = "unblock"
    /\ a \in expired
    /\ blocked' = Delete(blocked, a)
    /\ expired' = expired \ {a}
    /\ pc' = IF expired' = {} THEN "select" ELSE "unblock"
    /\ UNCHANGED <<now, tick, bpf, scanAt, stopped, putFailed, delFailed>>

(* ... and unblocks them one by one, each call taking the lock anew; the   *)
(* error, ErrNotBlocked included, is ignored.                              *)
CleanupUnblock(a) ==
    /\ pc = "unblock"
    /\ a \in expired
    /\ IF a \in DOMAIN blocked THEN Remove(a)
                               ELSE UNCHANGED <<blocked, bpf, putFailed, delFailed>>
    /\ expired' = expired \ {a}
    /\ pc' = IF expired' = {} THEN "select" ELSE "unblock"
    /\ UNCHANGED <<now, tick, scanAt, stopped>>

(* select may take the stop channel or the context instead of a tick.      *)
CleanupReturn ==
    /\ pc = "select"
    /\ stopped
    /\ pc' = "returned"
    /\ UNCHANGED <<now, tick, blocked, bpf, scanAt, expired, stopped, putFailed, delFailed>>

(* Close(), or the cancellation of the context given to New.               *)
Close ==
    /\ ~stopped
    /\ stopped' = TRUE
    /\ UNCHANGED <<now, tick, blocked, bpf, cleanupVars, putFailed, delFailed>>

Next ==
    \/ Clock
    \/ \E a \in Addr, r \in Reasons, d \in Durations : Block(a, r, d)
    \/ \E a \in Addr : Unblock(a)
    \/ CleanupTick
    \/ CleanupScan
    \/ \E a \in Addr : CleanupUnblock(a)
    \/ CleanupReturn
    \/ Close

Spec == Init /\ [][Next]_vars

(* The ticker keeps ticking and the scheduler keeps running the cleanup    *)
(* goroutine, whose lock acquisitions are not starved (sync.RWMutex).      *)
CleanupStep == CleanupTick \/ CleanupScan \/ \E a \in Addr : CleanupUnblock(a)
Fairness    == WF_vars(Clock) /\ WF_vars(CleanupStep)
FairSpec    == Spec /\ Fairness

-----------------------------------------------------------------------------
(* f is a partial function from D to R. *)
Partial(f, D, R) == /\ f = [x \in DOMAIN f |-> f[x]]
                    /\ DOMAIN f \subseteq D
                    /\ \A x \in DOMAIN f : f[x] \in R

TypeOK ==
    /\ now \in 0..MaxTime
    /\ tick \in BOOLEAN
    /\ Partial(blocked, Addr, Entry)
    /\ bpf = [f \in {"v4", "v6"} |-> bpf[f]]
    /\ \A f \in {"v4", "v6"} : Partial(bpf[f], {MapKey(a) : a \in Addr}, Reasons)
    /\ pc \in {"select", "scan", "unblock", "returned"}
    /\ scanAt \in 0..now
    /\ expired \in SUBSET Addr
    /\ stopped \in BOOLEAN
    /\ putFailed \in SUBSET Addr
    /\ delFailed \in SUBSET Addr

(* Every address the agent lists as blocked is in its BPF map under the    *)
(* reason the agent reports, unless the last Block of it returned an error:*)
(* no interleaving of Block, Unblock and cleanup loses a kernel entry.     *)
ListedIsEnforced ==
    \A a \in DOMAIN blocked \ putFailed :
        Mirrored(a) => /\ InKernel(a)
                       /\ bpf[Family(a)][MapKey(a)] = blocked[a].reason

(* A BPF map holds no address that the agent has forgotten, unless an      *)
(* Unblock of it returned an error: nothing stays dropped by accident.     *)
EnforcedIsListed ==
    \A f \in {"v4", "v6"} : \A k \in DOMAIN bpf[f] :
        \E a \in DOMAIN blocked \cup delFailed : Family(a) = f /\ MapKey(a) = k

(* Without a kernel (mock mode, or a map that was not loaded) nothing is   *)
(* written to a map and no call can have failed in one; a loaded map never *)
(* outgrows max_entries.                                                   *)
MapBounds ==
    \A f \in {"v4", "v6"} :
        /\ IsFiniteSet(DOMAIN bpf[f])
        /\ Cardinality(DOMAIN bpf[f]) <= MapCapacity
        /\ (MockMode \/ f \notin LoadedMaps) => bpf[f] = Nothing

(* What cleanupLoop still holds had lapsed at its scan, or has been        *)
(* blocked anew since then: an address it is about to unblock is never one *)
(* that was active when it looked and has been left alone.                 *)
CollectedHadLapsed ==
    \A a \in expired \cap DOMAIN blocked :
        blocked[a].expiry < scanAt \/ blocked[a].at >= scanAt

(* No step changes an active block: a second Block neither shortens nor    *)
(* extends it and never changes its reason; it can only be removed, and by *)
(* the cleanup only when it was made after the cleanup's clock reading.    *)
ActiveBlockIsKept ==
    [][\A a \in Addr : Active(a) =>
          \/ a \in DOMAIN blocked' /\ blocked'[a] = blocked[a]
          \/ Unblock(a)
          \/ a \in expired /\ blocked[a].at >= scanAt]_vars

(* A lapsed block leaves the table or is renewed, unless the blocker has   *)
(* been closed: cleanupLoop reaches it whatever the callers do meanwhile.  *)
LapsedIsCleaned ==
    \A a \in Addr : Lapsed(a, now) ~> (~Lapsed(a, now) \/ stopped)

(* The cleanup removes expired entries only (blocker_test.go:122).         *)
CleanupRemovesOnlyExpired ==
    [][\A a \in Addr : CleanupUnblock(a) => ~Active(a)]_vars

(* The table, the maps and the cleanup goroutine together are one list     *)
(* that changes one address at a time, with a kernel that follows at once  *)
(* or whose refusal the caller was told of: no interleaving of Block,      *)
(* Unblock, expiry and cleanup shows more than that.                       *)
Abstract == INSTANCE Blocklist WITH
    Addresses   <- Addr,
    Enforceable <- {a \in Addr : Mirrored(a)},
    listed      <- DOMAIN blocked,
    active      <- {a \in Addr : Active(a)},
    dropped     <- {a \in Addr : InKernel(a)},
    unsure      <- putFailed \cup delFailed

Promise == Abstract!Spec

(* The addresses GetBlockedIPCount counts are in the kernel's map, as the  *)
(* dashboard and the gauge's help text say of the count.                   *)
ActiveIsInKernel ==
    \A a \in Addr : Active(a) /\ Mirrored(a) => InKernel(a)
=============================================================================
