----------------------------- MODULE Collector -----------------------------
(***************************************************************************)
(* internal/collector/collector.go: one goroutine reads the per-CPU perf   *)
(* buffers that the XDP program writes, counts what was lost, and sends    *)
(* what it can parse to the analyzer.  The buffers are the kernel's: one   *)
(* that is full counts the samples it loses and says so in a record of its *)
(* own, as soon as a sample fits again.  Without a reader there are none.  *)
(***************************************************************************)
EXTENDS Integers, Sequences, FiniteSets, Functions

CONSTANTS
    CPUs,
    RingCap,        \* records a perf buffer holds: a page in the code
    OutCap,         \* capacity of the channel to the analyzer
    MaxEmitted      \* bound of the model: samples

ASSUME CollectorAssumption ==
    /\ IsFiniteSet(CPUs)
    /\ RingCap \in Nat \ {0, 1} /\ OutCap \in Nat \ {0} /\ MaxEmitted \in Nat

VARIABLES
    emitted,        \* samples the XDP program had to write, by CPU
    ring, lost,     \* the perf buffers, and losses they have not reported yet
    drops,          \* exporter.RingBufferDrops
    cancelled,      \* the context
    pc,             \* "none", "mock", "check", "read", "send", "returned" or "failed"
    hand,           \* the parsed event, while pc = "send"
    out,            \* the channel to the analyzer
    parsed,         \* history: events sent, by CPU
    skipped,        \* history: samples parseEvent refused, or left at the end
    unheard         \* history: samples written while there was no reader

vars == <<emitted, ring, lost, drops, cancelled, pc, hand, out, parsed, skipped, unheard>>

kernel == <<emitted, ring, lost, unheard>>

Nobody == [cpu |-> "none", n |-> 0]

Init ==
    /\ emitted = [c \in CPUs |-> 0]
    /\ ring = [c \in CPUs |-> << >>] /\ lost = [c \in CPUs |-> 0]
    /\ drops = 0 /\ cancelled = FALSE
    /\ pc = "none" /\ hand = Nobody /\ out = << >>
    /\ parsed = [c \in CPUs |-> << >>] /\ skipped = 0 /\ unheard = 0

Total(f)   == SumFunctionOnSet(f, CPUs)
ReaderOpen == pc \in {"check", "read", "send"}

-----------------------------------------------------------------------------
(* New: without a map (on darwin) there is no reader and Run only waits.   *)
New(events) ==
    /\ pc = "none"
    /\ \/ events /\ pc' \in {"check", "failed"}
       \/ ~events /\ pc' = "mock"
    /\ UNCHANGED <<kernel, drops, cancelled, hand, out, parsed, skipped>>

(* bpf_perf_event_output: the sample, behind a record of what was lost     *)
(* since the last one.  "good" tells whether it has the size of the event. *)
(* Without a reader the helper fails, which the XDP program ignores.       *)
Emit(c, good) ==
    LET sample == [n |-> emitted[c] + 1, good |-> good, lost |-> 0]
        report == IF lost[c] > 0 THEN <<[n |-> 0, good |-> FALSE, lost |-> lost[c]]>> ELSE << >>
        longer == ring[c] \o report \o <<sample>>
    IN  /\ Total(emitted) < MaxEmitted
        /\ emitted' = [emitted EXCEPT ![c] = @ + 1]
        /\ CASE ~ReaderOpen -> unheard' = unheard + 1 /\ UNCHANGED <<ring, lost>>
             [] ReaderOpen /\ Len(longer) <= RingCap ->
                  /\ ring' = [ring EXCEPT ![c] = longer]
                  /\ lost' = [lost EXCEPT ![c] = 0]
                  /\ UNCHANGED unheard
             [] OTHER -> lost' = [lost EXCEPT ![c] = @ + 1] /\ UNCHANGED <<ring, unheard>>
        /\ UNCHANGED <<drops, cancelled, pc, hand, out, parsed, skipped>>

(* The analyzer takes an event.                                            *)
Consume ==
    /\ out # << >>
    /\ out' = Tail(out)
    /\ UNCHANGED <<kernel, drops, cancelled, pc, hand, parsed, skipped>>

Cancel ==
    /\ ~cancelled
    /\ cancelled' = TRUE
    /\ UNCHANGED <<kernel, drops, pc, hand, out, parsed, skipped>>

-----------------------------------------------------------------------------
(* Mock mode: <-ctx.Done().                                                *)
Wait ==
    /\ pc = "mock" /\ cancelled
    /\ pc' = "returned"
    /\ UNCHANGED <<kernel, drops, cancelled, hand, out, parsed, skipped>>

(* The head of the loop looks at the context, then Read blocks until some  *)
(* buffer has a record.  Only Run itself closes the reader, on returning.  *)
Check ==
    /\ pc = "check"
    /\ pc' = IF cancelled THEN "returned" ELSE "read"
    /\ UNCHANGED <<kernel, drops, cancelled, hand, out, parsed, skipped>>

Handle_Bug(c) ==                \* a report of losses ends the turn uncounted
    LET r == Head(ring[c]) IN
    /\ IF r.good THEN /\ hand' = [cpu |-> c, n |-> r.n] /\ pc' = "send"
                      /\ UNCHANGED <<drops, skipped>>
       ELSE /\ pc' = "check"
            /\ skipped' = skipped + (IF r.n > 0 THEN 1 ELSE 0)
            /\ UNCHANGED <<hand, drops>>

(* A report of losses is counted and has no sample in it; a sample of the  *)
(* wrong size is skipped; any other is parsed.                             *)
Handle(c) ==
    LET r == Head(ring[c]) IN
    /\ drops' = drops + r.lost
    /\ IF r.good THEN /\ hand' = [cpu |-> c, n |-> r.n] /\ pc' = "send"
                      /\ UNCHANGED skipped
       ELSE /\ pc' = "check"
            /\ skipped' = skipped + (IF r.n > 0 THEN 1 ELSE 0)
            /\ UNCHANGED hand

Read ==
    /\ pc = "read"
    /\ \E c \in CPUs :
         /\ ring[c] # << >>
         /\ ring' = [ring EXCEPT ![c] = Tail(@)]
         /\ Handle(c)
    /\ UNCHANGED <<emitted, lost, unheard, cancelled, out, parsed>>

ReadFails ==
    /\ pc = "read"
    /\ pc' = IF cancelled THEN "returned" ELSE "check"
    /\ UNCHANGED <<kernel, drops, cancelled, hand, out, parsed, skipped>>

Send_Bug ==                     \* an event that fills the channel is sent again
    /\ pc = "send" /\ Len(out) < OutCap
    /\ out' = Append(out, hand)
    /\ parsed' = [parsed EXCEPT ![hand.cpu] = Append(@, hand.n)]
    /\ IF Len(out') = OutCap THEN UNCHANGED <<pc, hand>> ELSE pc' = "check" /\ hand' = Nobody
    /\ UNCHANGED <<kernel, drops, cancelled, skipped>>

Send ==
    /\ pc = "send" /\ Len(out) < OutCap
    /\ out' = Append(out, hand)
    /\ parsed' = [parsed EXCEPT ![hand.cpu] = Append(@, hand.n)]
    /\ pc' = "check" /\ hand' = Nobody
    /\ UNCHANGED <<kernel, drops, cancelled, skipped>>

GiveUp_Bug == FALSE             \* the send does not look at the context

(* The other case of the select around the send.                           *)
GiveUp ==
    /\ pc = "send" /\ cancelled
    /\ pc' = "returned" /\ hand' = Nobody
    /\ skipped' = skipped + 1
    /\ UNCHANGED <<kernel, drops, cancelled, out, parsed>>

Run == Wait \/ Check \/ Read \/ ReadFails \/ Send \/ GiveUp

-----------------------------------------------------------------------------
TypeOK ==
    /\ emitted \in [CPUs -> 0..MaxEmitted]
    /\ lost \in [CPUs -> 0..MaxEmitted] /\ drops \in 0..Total(emitted)
    /\ \A c \in CPUs :
         /\ Len(ring[c]) <= RingCap
         /\ ring[c] \in Seq([n : 0..emitted[c], good : BOOLEAN, lost : 0..emitted[c]])
    /\ cancelled \in BOOLEAN
    /\ pc \in {"none", "mock", "check", "read", "send", "returned", "failed"}
    /\ (pc = "send") <=> (hand \in [cpu : CPUs, n : 1..MaxEmitted])
    /\ out \in Seq([cpu : CPUs, n : 1..MaxEmitted]) /\ Len(out) <= OutCap
    /\ parsed \in [CPUs -> Seq(1..MaxEmitted)] /\ skipped \in Nat /\ unheard \in Nat

(* A record stands for a sample of its own, or for the lost ones it tells  *)
(* of; a buffer for those of its records.                                  *)
Samples(r) == r.lost + (IF r.n > 0 THEN 1 ELSE 0)
Held(q)    == SumFunction([i \in DOMAIN q |-> Samples(q[i])])

(* Every sample of the XDP program is accounted for: waiting, sent,        *)
(* refused, in hand, or lost; every loss is in the drop counter or on its  *)
(* way, except while there is no reader, before New and after Run.         *)
SamplesAreAccountedFor ==
    Total(emitted) =
        Total([c \in CPUs |-> Held(ring[c]) + lost[c] + Len(parsed[c])])
        + drops + skipped + unheard + (IF pc = "send" THEN 1 ELSE 0)

(* However many samples are lost or skipped on the way, the events of one  *)
(* CPU reach the analyzer in the order they were written, each once.       *)
EventsKeepOrder ==
    \A c \in CPUs : \A i, j \in DOMAIN parsed[c] : i < j => parsed[c][i] < parsed[c][j]
=============================================================================
