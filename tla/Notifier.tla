------------------------------ MODULE Notifier ------------------------------
(***************************************************************************)
(* internal/notifier/notifier.go: one goroutine gathers decisions and, at  *)
(* a tick of the debounce window, hands the batch to every destination at  *)
(* once and waits for all of them.  A Send posts the batch to a web hook   *)
(* and posts it again when no answer comes, until its tries or its context *)
(* are at an end.  Decisions are numbered in the order they are put into   *)
(* the channel.                                                            *)
(***************************************************************************)
EXTENDS Config, SequencesExt

CONSTANTS
    Configs,        \* sections of configuration files
    InCap,          \* capacity of the channel of decisions
    Tries,          \* posts of one Send: four in the code
    MaxDecisions    \* bound of the model

ASSUME NotifierAssumption ==
    /\ InCap \in Nat \ {0} /\ Tries \in Nat \ {0} /\ MaxDecisions \in Nat

VARIABLES
    cfg,            \* n.cfg
    fed,            \* how many decisions were put into the channel
    in, inClosed,   \* the channel
    cancelled,      \* the context
    ticked,         \* ticker.C holds a tick; it has room for one
    pc,             \* "start", "select", "flush", "lastFlush", "returned", "panicked"
    pending,        \* decisions gathered; the batch, during a flush
    sending,        \* the goroutines of a flush, each in its Send
    handed,         \* history: what Send was called with, by destination
    taken,          \* history: what was received from the channel
    tried,          \* history: what was posted at least once
    arrived,        \* history: the first decision of the batch that arrived last
    left            \* history: what was pending when the cancellation was seen

vars == <<cfg, fed, in, inClosed, cancelled, ticked, pc, pending, sending,
          handed, taken, tried, arrived, left>>

world   == <<cfg, fed, inClosed, cancelled>>
history == <<handed, tried, arrived>>

-----------------------------------------------------------------------------
(* New: a destination for each web hook that is enabled and has a URL.     *)
Destinations == {d \in Hooks : cfg.webhooks[d].enabled /\ cfg.webhooks[d].url # ""}

(* Run: a window that does not parse stands for ten seconds.               *)
Window == IF Parses(cfg.debounceWindow) THEN cfg.debounceWindow[1] ELSE 10

(* The configuration has passed Validate.                                  *)
Init ==
    /\ cfg \in {c \in Configs : ValidNotifier(c)}
    /\ fed = 0 /\ in = << >> /\ inClosed = FALSE
    /\ cancelled = FALSE /\ ticked = FALSE
    /\ pc = "start" /\ pending = << >> /\ sending = {}
    /\ handed = [d \in Destinations |-> << >>]
    /\ taken = << >> /\ left = << >>
    /\ tried = [d \in Destinations |-> {}] /\ arrived = [d \in Destinations |-> 0]

Feed ==
    /\ ~inClosed /\ fed < MaxDecisions /\ Len(in) < InCap
    /\ fed' = fed + 1
    /\ in' = Append(in, fed + 1)
    /\ UNCHANGED <<cfg, inClosed, cancelled, ticked, pc, pending, sending, history, taken, left>>

CloseIn ==
    /\ inClosed' = TRUE /\ ~inClosed
    /\ UNCHANGED <<cfg, fed, in, cancelled, ticked, pc, pending, sending, history, taken, left>>

Cancel ==
    /\ cancelled' = TRUE /\ ~cancelled
    /\ UNCHANGED <<cfg, fed, in, inClosed, ticked, pc, pending, sending, history, taken, left>>

TickerFires ==
    /\ ticked' = TRUE /\ pc \notin {"start", "returned", "panicked"}
    /\ UNCHANGED <<world, in, pc, pending, sending, history, taken, left>>

-----------------------------------------------------------------------------
(* Run begins; time.NewTicker panics unless the window is positive.        *)
Start ==
    /\ pc = "start"
    /\ pc' = IF Window > 0 THEN "select" ELSE "panicked"
    /\ UNCHANGED <<world, in, ticked, pending, sending, history, taken, left>>

(* flush begins: one goroutine per destination calls Send with the batch;  *)
(* own tells whether with a context of its own, of five seconds, or with   *)
(* that of Run.                                                            *)
Dispatch(next, own) ==
    /\ pc' = next
    /\ sending' = sending \cup {[to |-> d, batch |-> pending, tries |-> Tries, own |-> own]
                                   : d \in Destinations}
    /\ handed' = [d \in Destinations |-> handed[d] \o pending]

Return ==
    /\ pc' = "returned"
    /\ UNCHANGED <<sending, handed>>

LastFlush(own) == IF pending # << >> THEN Dispatch("lastFlush", own) ELSE Return

SeesCancel_Bug ==               \* the cancelled context is used for the last flush
    /\ pc = "select" /\ cancelled
    /\ LastFlush(FALSE)
    /\ left' = pending
    /\ UNCHANGED <<world, in, ticked, pending, taken, tried, arrived>>

(* The four cases of the select: cancelled, closed, a decision, a tick.    *)
SeesCancel ==
    /\ pc = "select" /\ cancelled
    /\ LastFlush(TRUE)
    /\ left' = pending
    /\ UNCHANGED <<world, in, ticked, pending, taken, tried, arrived>>

SeesClosed ==
    /\ pc = "select" /\ inClosed /\ in = << >>
    /\ LastFlush(FALSE)
    /\ UNCHANGED <<world, in, ticked, pending, taken, tried, arrived, left>>

Take ==
    /\ pc = "select" /\ in # << >>
    /\ pending' = Append(pending, Head(in))
    /\ taken' = Append(taken, Head(in))
    /\ in' = Tail(in)
    /\ UNCHANGED <<world, ticked, pc, sending, history, left>>

SeesTick_Bug ==                 \* only a full window is flushed
    /\ pc = "select" /\ ticked
    /\ ticked' = FALSE
    /\ IF Len(pending) > 1 THEN Dispatch("flush", FALSE) ELSE UNCHANGED <<pc, sending, handed>>
    /\ UNCHANGED <<world, in, pending, taken, tried, arrived, left>>

SeesTick ==
    /\ pc = "select" /\ ticked
    /\ ticked' = FALSE
    /\ IF pending # << >> THEN Dispatch("flush", FALSE) ELSE UNCHANGED <<pc, sending, handed>>
    /\ UNCHANGED <<world, in, pending, taken, tried, arrived, left>>

(* Send posts the batch, which arrives or not, and is over with an answer  *)
(* or with its last try; an answer may be lost on the way.                 *)
Post(s) ==
    /\ s.own \/ ~cancelled
    /\ tried' = [tried EXCEPT ![s.to] = @ \cup Range(s.batch)]
    /\ \E arrives, answered \in BOOLEAN :
         /\ answered => arrives
         /\ arrived' = IF arrives THEN [arrived EXCEPT ![s.to] = s.batch[1]] ELSE arrived
         /\ sending' = (sending \ {s}) \cup (IF answered \/ s.tries = 1 THEN {}
                                             ELSE {[s EXCEPT !.tries = @ - 1]})
    /\ UNCHANGED <<world, in, ticked, pc, pending, handed, taken, left>>

(* The context is at an end, and Send with it: Run's was cancelled, or the *)
(* five seconds of the last flush are over.                                *)
ContextEnds(s) ==
    /\ IF s.own THEN s.tries < Tries ELSE cancelled
    /\ sending' = sending \ {s}
    /\ UNCHANGED <<world, in, ticked, pc, pending, history, taken, left>>

Sends(d) == \E s \in sending : s.to = d /\ (Post(s) \/ ContextEnds(s))

FlushEnds_Bug ==                \* pending is kept
    /\ pc \in {"flush", "lastFlush"} /\ sending = {}
    /\ pc' = IF pc = "flush" THEN "select" ELSE "returned"
    /\ UNCHANGED <<world, in, ticked, sending, history, taken, pending, left>>

FlushEnds_NoWait ==             \* wg.Wait is left out
    /\ pc \in {"flush", "lastFlush"}
    /\ IF pc = "flush" THEN pc' = "select" /\ pending' = << >>
                       ELSE pc' = "returned" /\ UNCHANGED pending
    /\ UNCHANGED <<world, in, ticked, sending, history, taken, left>>

(* wg.Wait is over.  Only the periodic flush goes on, with nothing pending.*)
FlushEnds ==
    /\ pc \in {"flush", "lastFlush"} /\ sending = {}
    /\ IF pc = "flush" THEN pc' = "select" /\ pending' = << >>
                       ELSE pc' = "returned" /\ UNCHANGED pending
    /\ UNCHANGED <<world, in, ticked, sending, history, taken, left>>

Run == Start \/ SeesCancel \/ SeesClosed \/ Take \/ SeesTick \/ FlushEnds

Next ==
    \/ Feed \/ CloseIn \/ Cancel \/ TickerFires \/ Run
    \/ \E d \in Destinations : Sends(d)

Spec == Init /\ [][Next]_vars

(* The goroutine is scheduled and its select takes each case that stays    *)
(* ready; the ticker fires again and again; a post comes back, for the     *)
(* client has a timeout.  Nobody has to feed, close or cancel.             *)
FairSpec ==
    /\ Spec
    /\ WF_vars(Start) /\ WF_vars(SeesCancel \/ SeesClosed) /\ WF_vars(FlushEnds)
    /\ SF_vars(Take) /\ SF_vars(SeesTick)
    /\ WF_vars(TickerFires)
    /\ \A d \in Hooks : WF_vars(d \in Destinations /\ Sends(d))

-----------------------------------------------------------------------------
Batch == [to : Destinations, batch : Seq(1..MaxDecisions), tries : 1..Tries, own : BOOLEAN]

TypeOK ==
    /\ cfg \in Configs
    /\ fed \in 0..MaxDecisions /\ taken \o in = [i \in 1..fed |-> i]
    /\ Len(in) <= InCap /\ inClosed \in BOOLEAN
    /\ cancelled \in BOOLEAN /\ ticked \in BOOLEAN
    /\ pc \in {"start", "select", "flush", "lastFlush", "returned", "panicked"}
    /\ IsSuffix(pending, taken) /\ IsPrefix(left, pending)
    /\ sending \subseteq Batch /\ (sending # {} => pc \in {"flush", "lastFlush"})
    /\ tried \in [Destinations -> SUBSET (1..fed)] /\ arrived \in [Destinations -> 0..fed]

(* No destination is handed a decision twice, or out of order: what it was *)
(* handed is what was received, up to some point.                          *)
HandedOnceInOrder == \A d \in Destinations : IsPrefix(handed[d], taken)

(* Stopping loses nothing that was received.  When Run has returned every  *)
(* destination was handed all of it, and the batch that was pending when   *)
(* the cancellation was seen has been posted, although the context of Run  *)
(* is dead by then.  Without a cancellation every batch has been posted.   *)
ReturnLosesNothing ==
    pc = "returned" =>
        \A d \in Destinations :
            /\ handed[d] = taken
            /\ Range(left) \subseteq tried[d]
            /\ ~cancelled => tried[d] = Range(taken)

(* A web hook never gets an older batch after a newer one, whatever was    *)
(* posted again and however slow another destination is.                   *)
BatchesArriveInOrder ==
    [][\A d \in Destinations : arrived'[d] >= arrived[d]]_vars

(* Every decision is handed to every destination, a single one in a quiet  *)
(* window too, unless the context is cancelled or Run has panicked.        *)
DecisionsAreHanded ==
    \A n \in 1..MaxDecisions :
        fed >= n ~> \/ \A d \in Destinations : Len(handed[d]) >= n
                    \/ cancelled \/ pc = "panicked"

(* What passes Validate can be run with (config.go:96-98 refuses a window  *)
(* that does not parse).                                                   *)
ValidConfigRuns == pc # "panicked"

(* Shutdown is graceful (technical.md:60): when Run has returned every     *)
(* decision was posted at least once, also when the channel was closed     *)
(* together with the cancellation.                                         *)
ReturnHasPostedAll ==
    pc = "returned" => \A d \in Destinations : Range(taken) \subseteq tried[d]
=============================================================================
