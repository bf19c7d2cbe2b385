--------------------------- MODULE NotifierProofs ---------------------------
(***************************************************************************)
(* Each destination is handed every decision once and in order, stopping   *)
(* loses nothing that was received, and a web hook never gets an older     *)
(* batch after a newer one: for all configurations, channels and retries.  *)
(***************************************************************************)
EXTENDS Notifier, SequenceTheorems, TLAPS

(* Decisions are numbered, so a stretch of them counts on from a number.   *)
Counts(s, k) == s \in Seq(Nat) /\ \A i \in 1..Len(s) : s[i] = k + i

Flushing == pc \in {"flush", "lastFlush"}

(* What the batches before the pending one held.                           *)
Before == Len(taken) - Len(pending)

(* The decisions go through the channel in order, and the last ones that   *)
(* were received are pending.                                              *)
Stream ==
    /\ Counts(taken, 0) /\ Counts(in, Len(taken))
    /\ Len(pending) <= Len(taken) /\ Counts(pending, Before)

(* A flush has handed the pending batch over, before it is forgotten.      *)
HandedSoFar ==
    /\ DOMAIN handed = Destinations
    /\ \A d \in Destinations :
         /\ Counts(handed[d], 0)
         /\ Len(handed[d]) = IF Flushing \/ pc = "returned" THEN Len(taken) ELSE Before

(* Sends post the pending batch and no other.                              *)
SendsAreOfTheBatch ==
    /\ Flushing => pending # << >>
    /\ sending # {} => Flushing
    /\ \A s \in sending :
         /\ DOMAIN s = {"to", "batch", "tries", "own"}
         /\ s.to \in Destinations /\ s.batch = pending /\ s.tries \in 1..Tries

(* The last flush after a cancellation is of what was pending then.        *)
LeftIsPending ==
    left # << >> => left = pending /\ cancelled /\ pc \in {"lastFlush", "returned"}

(* What was posted at least once; a Send that has not posted yet will do so*)
(* unless its context can end first.                                       *)
WillPost(d) == \E s \in sending : s.to = d /\ s.tries = Tries /\ (s.own \/ ~cancelled)

PostedSoFar ==
    /\ DOMAIN tried = Destinations
    /\ \A d \in Destinations :
         /\ tried[d] \subseteq 1..Len(taken)
         /\ ~cancelled => 1..Before \subseteq tried[d]
         /\ Flushing /\ (~cancelled \/ left # << >>) =>
               Before + 1..Len(taken) \subseteq tried[d] \/ WillPost(d)
         /\ pc = "returned" /\ (~cancelled \/ left # << >>) =>
               Before + 1..Len(taken) \subseteq tried[d]

(* Nothing newer than the pending batch has arrived.                       *)
ArrivedSoFar ==
    /\ DOMAIN arrived = Destinations
    /\ \A d \in Destinations : arrived[d] \in 0..Before + 1

IInv ==
    /\ pc \in {"start", "select", "flush", "lastFlush", "returned", "panicked"}
    /\ fed = Len(taken) + Len(in)
    /\ Stream /\ HandedSoFar /\ SendsAreOfTheBatch /\ LeftIsPending
    /\ PostedSoFar /\ ArrivedSoFar

-----------------------------------------------------------------------------
(* Stretches of decisions: sent, received, joined and compared.            *)
LEMMA CountsLen ==
    ASSUME NEW s, NEW k, Counts(s, k)
    PROVE  Len(s) \in Nat /\ s \in Seq(Nat) /\ (s = << >> <=> Len(s) = 0) /\ DOMAIN s = 1..Len(s)
BY DEF Counts

LEMMA CountsEmpty == ASSUME NEW k PROVE Counts(<< >>, k) /\ Len(<< >>) = 0
BY DEF Counts

LEMMA CountsAppend ==
    ASSUME NEW s, NEW k \in Nat, Counts(s, k)
    PROVE  Counts(Append(s, k + Len(s) + 1), k) /\ Len(Append(s, k + Len(s) + 1)) = Len(s) + 1
<1> DEFINE e == k + Len(s) + 1
<1>1. s \in Seq(Nat) /\ Len(s) \in Nat /\ e \in Nat  BY DEF Counts
<1>2. /\ Append(s, e) \in Seq(Nat) /\ Len(Append(s, e)) = Len(s) + 1
      /\ \A i \in 1..Len(s) : Append(s, e)[i] = s[i]
      /\ Append(s, e)[Len(s) + 1] = e
  BY <1>1, AppendProperties
<1>3. QED  BY <1>1, <1>2 DEF Counts

LEMMA CountsTail ==
    ASSUME NEW s, NEW k \in Nat, Counts(s, k), s # << >>
    PROVE  Head(s) = k + 1 /\ Counts(Tail(s), k + 1) /\ Len(Tail(s)) = Len(s) - 1
<1>1. s \in Seq(Nat) /\ Len(s) \in Nat \ {0}  BY EmptySeq DEF Counts
<1>2. /\ Head(s) = s[1] /\ Tail(s) \in Seq(Nat) /\ Len(Tail(s)) = Len(s) - 1
      /\ \A i \in 1..Len(Tail(s)) : Tail(s)[i] = s[i + 1]
  BY <1>1, HeadTailProperties
<1>3. QED  BY <1>1, <1>2 DEF Counts

LEMMA CountsJoin ==
    ASSUME NEW s, NEW t, NEW k \in Nat, Counts(s, k), Counts(t, k + Len(s))
    PROVE  Counts(s \o t, k) /\ Len(s \o t) = Len(s) + Len(t)
<1>1. s \in Seq(Nat) /\ t \in Seq(Nat) /\ Len(s) \in Nat /\ Len(t) \in Nat  BY DEF Counts
<1>2. /\ s \o t \in Seq(Nat) /\ Len(s \o t) = Len(s) + Len(t)
      /\ \A i \in 1..Len(s) + Len(t) : (s \o t)[i] = IF i <= Len(s) THEN s[i] ELSE t[i - Len(s)]
  BY <1>1, ConcatProperties
<1>3. QED  BY <1>1, <1>2 DEF Counts

LEMMA CountsSame ==
    ASSUME NEW s, NEW t, NEW k, Counts(s, k), Counts(t, k), Len(s) = Len(t)
    PROVE  s = t
BY SeqEqual DEF Counts

LEMMA CountsPrefix ==
    ASSUME NEW s, NEW t, NEW k, Counts(s, k), Counts(t, k), Len(s) <= Len(t)
    PROVE  IsPrefix(s, t)
<1>1. s \in Seq(Nat) /\ t \in Seq(Nat) /\ Len(s) \in Nat /\ Len(t) \in Nat  BY DEF Counts
<1>2. /\ SubSeq(s, 1, Len(s)) \in Seq(Nat) /\ SubSeq(t, 1, Len(s)) \in Seq(Nat)
      /\ Len(SubSeq(s, 1, Len(s))) = Len(s) /\ Len(SubSeq(t, 1, Len(s))) = Len(s)
      /\ \A i \in 1..Len(s) : SubSeq(s, 1, Len(s))[i] = s[i] /\ SubSeq(t, 1, Len(s))[i] = t[i]
  BY <1>1
<1>3. \A i \in 1..Len(s) : s[i] = t[i]  BY <1>1 DEF Counts
<1>4. SubSeq(s, 1, Len(s)) = SubSeq(t, 1, Len(s))  BY <1>2, <1>3, SeqEqual
<1>5. QED  BY <1>4 DEF IsPrefix

LEMMA CountsRange ==
    ASSUME NEW s, NEW k \in Nat, Counts(s, k)
    PROVE  Range(s) = k + 1..k + Len(s)
<1>1. DOMAIN s = 1..Len(s) /\ Len(s) \in Nat  BY DEF Counts
<1>2. \A i \in 1..Len(s) : s[i] \in k + 1..k + Len(s)  BY <1>1 DEF Counts
<1>3. \A n \in k + 1..k + Len(s) : n - k \in 1..Len(s) /\ s[n - k] = n  BY <1>1 DEF Counts
<1>4. QED  BY <1>1, <1>2, <1>3 DEF Range

-----------------------------------------------------------------------------
(* The numbers behind the invariant.                                       *)
LEMMA Lengths ==
    ASSUME IInv
    PROVE  /\ Len(taken) \in Nat /\ Len(in) \in Nat /\ Len(pending) \in Nat
           /\ Len(pending) <= Len(taken) /\ Before \in Nat
           /\ Before + Len(pending) = Len(taken)
           /\ (pending = << >> <=> Len(pending) = 0)
<1>1. Counts(taken, 0) /\ Counts(in, Len(taken)) /\ Counts(pending, Before)
      /\ Len(pending) <= Len(taken)
  BY DEF IInv, Stream
<1>2. Len(taken) \in Nat /\ Len(in) \in Nat /\ Len(pending) \in Nat
      /\ (pending = << >> <=> Len(pending) = 0)
  BY <1>1, CountsLen
<1>3. QED  BY <1>1, <1>2 DEF Before

LEMMA InitInv == Init => IInv
<1> SUFFICES ASSUME Init PROVE IInv  OBVIOUS
<1>1. Len(taken) = 0 /\ Len(in) = 0 /\ Len(pending) = 0 /\ Before = 0
  BY DEF Init, Before
<1>2. Stream  BY <1>1, CountsEmpty DEF Init, Stream
<1>3. HandedSoFar
  <2>1. \A d \in Destinations : handed[d] = << >>  BY DEF Init
  <2>2. QED  BY <1>1, <2>1, CountsEmpty DEF Init, HandedSoFar, Flushing
<1>4. SendsAreOfTheBatch /\ LeftIsPending
  BY DEF Init, SendsAreOfTheBatch, LeftIsPending, Flushing
<1>5. PostedSoFar
  <2>1. 1..0 = {}  OBVIOUS
  <2>2. QED  BY <1>1, <2>1 DEF Init, PostedSoFar, Flushing
<1>6. ArrivedSoFar  BY <1>1 DEF Init, ArrivedSoFar
<1>7. QED  BY <1>1, <1>2, <1>3, <1>4, <1>5, <1>6 DEF Init, IInv

(* What the channel, the context and the ticker do disturbs no part of the *)
(* invariant that the flushes rest on.                                     *)
LEMMA FeedStep == IInv /\ Feed => IInv'
<1> SUFFICES ASSUME IInv, Feed PROVE IInv'  OBVIOUS
<1>1. /\ fed' = fed + 1 /\ in' = Append(in, fed + 1)
      /\ UNCHANGED <<cfg, inClosed, cancelled, ticked, pc, pending, sending, handed, tried,
                     arrived, taken, left>>
  BY DEF Feed, history
<1>2. Len(taken) \in Nat /\ fed = Len(taken) + Len(in) /\ Counts(in, Len(taken))
  BY Lengths DEF IInv, Stream
<1>3. Counts(in', Len(taken)) /\ Len(in') = Len(in) + 1  BY <1>1, <1>2, CountsAppend
<1>4. Stream' /\ fed' = Len(taken') + Len(in')
  BY <1>1, <1>2, <1>3, Lengths DEF IInv, Stream, Before
<1>5. QED
  BY <1>1, <1>4 DEF IInv, HandedSoFar, SendsAreOfTheBatch, LeftIsPending, PostedSoFar,
     ArrivedSoFar, Destinations, Flushing, Before, WillPost

LEMMA SignalStep == IInv /\ (CloseIn \/ Cancel \/ TickerFires) => IInv'
<1> SUFFICES ASSUME IInv, CloseIn \/ Cancel \/ TickerFires PROVE IInv'  OBVIOUS
<1>1. /\ UNCHANGED <<cfg, fed, in, pc, pending, sending, handed, tried, arrived, taken, left>>
      /\ cancelled' = cancelled \/ (cancelled' = TRUE /\ cancelled = FALSE)
  BY DEF CloseIn, Cancel, TickerFires, history, world
<1>2. LeftIsPending /\ LeftIsPending'  BY <1>1 DEF IInv, LeftIsPending
<1>3. PostedSoFar'
  <2>1. cancelled' = cancelled \/ (cancelled' = TRUE /\ left = << >>)
    BY <1>1, <1>2 DEF LeftIsPending
  <2>2. CASE cancelled' = cancelled
    BY <1>1, <2>2 DEF IInv, PostedSoFar, Destinations, Flushing, Before, WillPost
  <2>3. CASE cancelled' = TRUE /\ left = << >>
    BY <1>1, <2>3 DEF IInv, PostedSoFar, Destinations, Flushing, Before
  <2>4. QED  BY <2>1, <2>2, <2>3
<1>4. QED
  BY <1>1, <1>2, <1>3 DEF IInv, Stream, HandedSoFar, SendsAreOfTheBatch, ArrivedSoFar,
     Destinations, Flushing, Before

LEMMA StartStep == IInv /\ Start => IInv'
<1> SUFFICES ASSUME IInv, Start PROVE IInv'  OBVIOUS
<1>1. /\ pc = "start" /\ pc' \in {"select", "panicked"}
      /\ UNCHANGED <<cfg, fed, in, cancelled, pending, sending, handed, tried, arrived, taken, left>>
  BY DEF Start, history, world
<1>2. LeftIsPending'  BY <1>1 DEF IInv, LeftIsPending
<1>3. QED
  BY <1>1, <1>2 DEF IInv, Stream, HandedSoFar, SendsAreOfTheBatch, PostedSoFar, ArrivedSoFar,
     Destinations, Flushing, Before, WillPost

(* A decision that is received becomes the last one that is pending.       *)
LEMMA TakeStep == IInv /\ Take => IInv'
<1> SUFFICES ASSUME IInv, Take PROVE IInv'  OBVIOUS
<1>1. /\ pc = "select" /\ in # << >>
      /\ pending' = Append(pending, Head(in)) /\ taken' = Append(taken, Head(in))
      /\ in' = Tail(in)
      /\ UNCHANGED <<cfg, fed, inClosed, cancelled, pc, sending, handed, tried, arrived, left>>
  BY DEF Take, history, world
<1>2. /\ Counts(taken, 0) /\ Counts(in, Len(taken)) /\ Counts(pending, Before)
      /\ fed = Len(taken) + Len(in) /\ Len(pending) <= Len(taken)
  BY DEF IInv, Stream
<1>3. /\ Head(in) = Len(taken) + 1 /\ Counts(in', Len(taken) + 1) /\ Len(in') = Len(in) - 1
  BY <1>1, <1>2, Lengths, CountsTail
<1>4. Head(in) = 0 + Len(taken) + 1 /\ Head(in) = Before + Len(pending) + 1
  BY <1>3, Lengths
<1>5. Counts(taken', 0) /\ Len(taken') = Len(taken) + 1
  BY <1>1, <1>2, <1>4, CountsAppend
<1>6. Counts(pending', Before) /\ Len(pending') = Len(pending) + 1
  BY <1>1, <1>2, <1>4, Lengths, CountsAppend
<1>7. Before' = Before  BY <1>5, <1>6, Lengths DEF Before
<1>8. Stream' /\ fed' = Len(taken') + Len(in')
  BY <1>1, <1>2, <1>3, <1>5, <1>6, <1>7, Lengths DEF Stream
<1>9. left = << >>  BY <1>1 DEF IInv, LeftIsPending
<1>10. HandedSoFar'  BY <1>1, <1>7 DEF IInv, HandedSoFar, Destinations, Flushing
<1>11. SendsAreOfTheBatch' /\ LeftIsPending'
  BY <1>1, <1>9 DEF IInv, SendsAreOfTheBatch, LeftIsPending, Flushing
<1>12. PostedSoFar'
  <2>1. 1..Len(taken) \subseteq 1..Len(taken')  BY <1>5, Lengths
  <2>2. QED  BY <1>1, <1>7, <2>1 DEF IInv, PostedSoFar, Destinations, Flushing
<1>13. ArrivedSoFar'  BY <1>1, <1>7 DEF IInv, ArrivedSoFar, Destinations
<1>14. QED  BY <1>1, <1>8, <1>10, <1>11, <1>12, <1>13 DEF IInv

(* A flush hands the pending batch to every destination, and starts a Send *)
(* for each that has not posted yet.                                       *)
LEMMA DispatchStep ==
    ASSUME IInv, pc = "select", pending # << >>,
           NEW next \in {"flush", "lastFlush"}, NEW own \in BOOLEAN, Dispatch(next, own),
           UNCHANGED <<cfg, fed, cancelled, in, pending, taken, tried, arrived>>,
           \/ left' = left
           \/ left' = pending /\ cancelled /\ own /\ next = "lastFlush"
    PROVE  IInv'
<1>1. /\ pc' = next
      /\ sending' = sending \cup {[to |-> d, batch |-> pending, tries |-> Tries, own |-> own]
                                     : d \in Destinations}
      /\ handed' = [d \in Destinations |-> handed[d] \o pending]
  BY DEF Dispatch
<1>2. sending = {} /\ left = << >>
  BY DEF IInv, SendsAreOfTheBatch, LeftIsPending, Flushing
<1>3. Tries \in 1..Tries  BY NotifierAssumption
<1>4. Destinations' = Destinations /\ Before' = Before /\ Flushing'
  BY <1>1 DEF Destinations, Before, Flushing
<1>5. Stream'  BY <1>4 DEF IInv, Stream
<1>6. HandedSoFar'
  <2>1. ASSUME NEW d \in Destinations
        PROVE  Counts(handed'[d], 0) /\ Len(handed'[d]) = Len(taken)
    <3>1. handed'[d] = handed[d] \o pending  BY <1>1
    <3>2. Counts(handed[d], 0) /\ Len(handed[d]) = Before
      BY DEF IInv, HandedSoFar, Flushing
    <3>3. Counts(pending, 0 + Len(handed[d]))
      BY <3>2, Lengths DEF IInv, Stream
    <3>4. QED  BY <3>1, <3>2, <3>3, Lengths, CountsJoin
  <2>2. QED  BY <1>1, <1>4, <2>1 DEF HandedSoFar
<1>7. SendsAreOfTheBatch'
  <2>1. ASSUME NEW s \in sending'
        PROVE  /\ DOMAIN s = {"to", "batch", "tries", "own"}
               /\ s.to \in Destinations /\ s.batch = pending /\ s.tries \in 1..Tries
    <3>1. PICK d \in Destinations :
             s = [to |-> d, batch |-> pending, tries |-> Tries, own |-> own]
      BY <1>1, <1>2
    <3>2. QED  BY <1>3, <3>1
  <2>2. QED  BY <1>4, <2>1 DEF SendsAreOfTheBatch
<1>8. LeftIsPending'  BY <1>1, <1>2 DEF LeftIsPending
<1>9. PostedSoFar'
  <2>1. ASSUME NEW d \in Destinations, ~cancelled \/ left' # << >>
        PROVE  WillPost(d)'
    <3>1. own \/ ~cancelled  BY <1>2, <2>1
    <3> DEFINE s == [to |-> d, batch |-> pending, tries |-> Tries, own |-> own]
    <3>2. s \in sending'  BY <1>1
    <3>3. s.to = d /\ s.tries = Tries /\ s.own = own  OBVIOUS
    <3>4. QED  BY <3>1, <3>2, <3>3 DEF WillPost
  <2>2. pc' # "returned"  BY <1>1
  <2>3. QED  BY <1>4, <2>1, <2>2 DEF IInv, PostedSoFar
<1>10. ArrivedSoFar'  BY <1>4 DEF IInv, ArrivedSoFar
<1>11. QED  BY <1>1, <1>5, <1>6, <1>7, <1>8, <1>9, <1>10 DEF IInv

(* Run returns with nothing pending.                                       *)
LEMMA ReturnStep ==
    ASSUME IInv, pc = "select", pending = << >>, Return,
           UNCHANGED <<cfg, fed, cancelled, in, pending, taken, tried, arrived>>,
           left' = left \/ left' = pending
    PROVE  IInv'
<1>1. pc' = "returned" /\ UNCHANGED <<sending, handed>>  BY DEF Return
<1>2. sending = {} /\ left = << >> /\ left' = << >>
  BY DEF IInv, SendsAreOfTheBatch, LeftIsPending, Flushing
<1>3. Destinations' = Destinations /\ Before' = Before /\ Before = Len(taken)
  BY Lengths DEF Destinations, Before
<1>4. HandedSoFar'
  BY <1>1, <1>3 DEF IInv, HandedSoFar, Flushing
<1>5. PostedSoFar'
  <2>1. Before + 1..Len(taken) = {}  BY <1>3, Lengths
  <2>2. QED  BY <1>1, <1>3, <2>1 DEF IInv, PostedSoFar, Flushing
<1>6. QED
  BY <1>1, <1>2, <1>3, <1>4, <1>5 DEF IInv, Stream, SendsAreOfTheBatch, LeftIsPending,
     ArrivedSoFar, Flushing

LEMMA SelectStep == IInv /\ (SeesCancel \/ SeesClosed \/ SeesTick) => IInv'
<1> SUFFICES ASSUME IInv, SeesCancel \/ SeesClosed \/ SeesTick PROVE IInv'  OBVIOUS
<1>1. pc = "select" /\ UNCHANGED <<cfg, fed, cancelled, in, pending, taken, tried, arrived>>
  BY DEF SeesCancel, SeesClosed, SeesTick, world, history
<1>2. CASE SeesCancel
  <2>1. cancelled /\ left' = pending /\ LastFlush(TRUE)  BY <1>2 DEF SeesCancel
  <2>2. CASE pending # << >>
    <3>1. Dispatch("lastFlush", TRUE)  BY <2>1, <2>2 DEF LastFlush
    <3>2. QED  BY <1>1, <2>1, <2>2, <3>1, DispatchStep
  <2>3. CASE pending = << >>
    BY <1>1, <2>1, <2>3, ReturnStep DEF LastFlush
  <2>4. QED  BY <2>2, <2>3
<1>3. CASE SeesClosed
  <2>1. left' = left /\ LastFlush(FALSE)  BY <1>3 DEF SeesClosed
  <2>2. CASE pending # << >>
    <3>1. Dispatch("lastFlush", FALSE)  BY <2>1, <2>2 DEF LastFlush
    <3>2. QED  BY <1>1, <2>1, <2>2, <3>1, DispatchStep
  <2>3. CASE pending = << >>
    BY <1>1, <2>1, <2>3, ReturnStep DEF LastFlush
  <2>4. QED  BY <2>2, <2>3
<1>4. CASE SeesTick
  <2>1. left' = left  BY <1>4 DEF SeesTick
  <2>2. CASE pending # << >>
    <3>1. Dispatch("flush", FALSE)  BY <1>4, <2>2 DEF SeesTick
    <3>2. QED  BY <1>1, <2>1, <2>2, <3>1, DispatchStep
  <2>3. CASE pending = << >>
    <3>1. UNCHANGED <<pc, sending, handed>>  BY <1>4, <2>3 DEF SeesTick
    <3>2. QED
      BY <1>1, <2>1, <3>1 DEF IInv, Stream, HandedSoFar, SendsAreOfTheBatch, LeftIsPending,
         PostedSoFar, ArrivedSoFar, Destinations, Flushing, Before, WillPost
  <2>4. QED  BY <2>2, <2>3
<1>5. QED  BY <1>2, <1>3, <1>4

(* The flush is over when every Send is, and each has posted by then.      *)
LEMMA FlushEndsStep == IInv /\ FlushEnds => IInv'
<1> SUFFICES ASSUME IInv, FlushEnds PROVE IInv'  OBVIOUS
<1>1. /\ Flushing /\ sending = {}
      /\ \/ pc = "flush" /\ pc' = "select" /\ pending' = << >>
         \/ pc = "lastFlush" /\ pc' = "returned" /\ pending' = pending
      /\ UNCHANGED <<cfg, fed, inClosed, cancelled, in, sending, handed, tried, arrived, taken, left>>
  BY DEF FlushEnds, Flushing, world, history
<1>2. Destinations' = Destinations /\ ~Flushing'  BY <1>1 DEF Destinations, Flushing
<1>3. \A d \in Destinations :
         ~cancelled \/ left # << >> => Before + 1..Len(taken) \subseteq tried[d]
  BY <1>1 DEF IInv, PostedSoFar, WillPost
<1>4. CASE pc = "flush"
  <2>1. pc' = "select" /\ pending' = << >> /\ left = << >>
    BY <1>1, <1>4 DEF IInv, LeftIsPending
  <2>2. Before' = Len(taken) /\ Len(pending') = 0
    BY <1>1, <2>1, Lengths DEF Before
  <2>3. Stream'
    BY <1>1, <2>1, <2>2, Lengths, CountsEmpty DEF IInv, Stream
  <2>4. HandedSoFar'
    BY <1>1, <1>2, <2>1, <2>2 DEF IInv, HandedSoFar
  <2>5. PostedSoFar'
    <3>1. 1..Len(taken) = (1..Before) \cup (Before + 1..Len(taken))  BY Lengths
    <3>2. QED  BY <1>1, <1>2, <1>3, <2>1, <2>2, <3>1 DEF IInv, PostedSoFar
  <2>6. ArrivedSoFar'
    <3>1. 0..Before + 1 \subseteq 0..Len(taken) + 1  BY Lengths
    <3>2. QED  BY <1>1, <1>2, <2>2, <3>1 DEF IInv, ArrivedSoFar
  <2>7. QED
    BY <1>1, <1>2, <2>1, <2>3, <2>4, <2>5, <2>6 DEF IInv, SendsAreOfTheBatch, LeftIsPending
<1>5. CASE pc = "lastFlush"
  <2>1. pc' = "returned" /\ pending' = pending  BY <1>1, <1>5
  <2>2. Before' = Before  BY <1>1, <2>1 DEF Before
  <2>3. HandedSoFar' /\ PostedSoFar'
    BY <1>1, <1>2, <1>3, <2>1, <2>2 DEF IInv, HandedSoFar, PostedSoFar
  <2>4. QED
    BY <1>1, <1>2, <2>1, <2>2, <2>3 DEF IInv, Stream, SendsAreOfTheBatch, LeftIsPending,
       ArrivedSoFar
<1>6. QED  BY <1>1, <1>4, <1>5 DEF Flushing

(* A post covers the batch of its destination.                             *)
LEMMA PostStep == ASSUME IInv, NEW s \in sending, Post(s) PROVE IInv'
<1>1. /\ Flushing /\ pending # << >> /\ s.batch = pending /\ s.to \in Destinations
      /\ DOMAIN s = {"to", "batch", "tries", "own"} /\ s.tries \in 1..Tries
  BY DEF IInv, SendsAreOfTheBatch
<1>2. /\ tried' = [tried EXCEPT ![s.to] = @ \cup Range(s.batch)]
      /\ arrived' = [arrived EXCEPT ![s.to] = s.batch[1]] \/ arrived' = arrived
      /\ \/ sending' = sending \ {s}
         \/ s.tries # 1 /\ sending' = (sending \ {s}) \cup {[s EXCEPT !.tries = @ - 1]}
      /\ UNCHANGED <<cfg, fed, inClosed, cancelled, in, pc, pending, handed, taken, left>>
  BY DEF Post, world
<1>3. /\ Destinations' = Destinations /\ Before' = Before /\ Flushing' = Flushing
  BY <1>2 DEF Destinations, Before, Flushing
<1>4. Range(pending) = Before + 1..Len(taken)
  <2>1. Counts(pending, Before) /\ Before \in Nat  BY Lengths DEF IInv, Stream
  <2>2. Range(pending) = Before + 1..Before + Len(pending)  BY <2>1, CountsRange
  <2>3. QED  BY <2>2, Lengths
<1>5. /\ DOMAIN tried' = Destinations
      /\ tried'[s.to] = tried[s.to] \cup (Before + 1..Len(taken))
      /\ \A d \in Destinations : d # s.to => tried'[d] = tried[d]
  BY <1>1, <1>2, <1>4 DEF IInv, PostedSoFar
<1>6. SendsAreOfTheBatch'
  <2>1. ASSUME NEW u \in sending'
        PROVE  /\ DOMAIN u = {"to", "batch", "tries", "own"}
               /\ u.to \in Destinations /\ u.batch = pending /\ u.tries \in 1..Tries
    <3>1. CASE u \in sending  BY <3>1 DEF IInv, SendsAreOfTheBatch
    <3>2. CASE u = [s EXCEPT !.tries = @ - 1] /\ s.tries # 1
      <4>1. /\ DOMAIN u = DOMAIN s /\ u.to = s.to /\ u.batch = s.batch /\ u.tries = s.tries - 1
        BY <1>1, <3>2
      <4>2. s.tries - 1 \in 1..Tries  BY <1>1, <3>2, NotifierAssumption
      <4>3. QED  BY <1>1, <4>1, <4>2
    <3>3. QED  BY <1>2, <3>1, <3>2
  <2>2. QED  BY <1>1, <1>2, <1>3, <2>1 DEF SendsAreOfTheBatch
<1>7. PostedSoFar'
  <2>1. ASSUME NEW d \in Destinations
        PROVE  tried'[d] \subseteq 1..Len(taken) /\ tried[d] \subseteq tried'[d]
    <3>1. Before + 1..Len(taken) \subseteq 1..Len(taken)  BY Lengths
    <3>2. QED  BY <1>5, <3>1 DEF IInv, PostedSoFar
  <2>2. ASSUME NEW d \in Destinations, d # s.to, WillPost(d) PROVE WillPost(d)'
    <3>1. PICK w \in sending : w.to = d /\ w.tries = Tries /\ (w.own \/ ~cancelled)
      BY <2>2 DEF WillPost
    <3>2. w \in sending'  BY <1>2, <2>2, <3>1
    <3>3. QED  BY <1>2, <3>1, <3>2 DEF WillPost
  <2>3. ASSUME NEW d \in Destinations
        PROVE  Flushing /\ (~cancelled \/ left # << >>) =>
                  Before + 1..Len(taken) \subseteq tried'[d] \/ WillPost(d)'
    <3>1. CASE d = s.to  BY <1>5, <3>1
    <3>2. CASE d # s.to  BY <1>5, <2>2, <3>2 DEF IInv, PostedSoFar
    <3>3. QED  BY <3>1, <3>2
  <2>4. pc # "returned"  BY <1>1 DEF Flushing
  <2>5. QED  BY <1>2, <1>3, <1>5, <2>1, <2>3, <2>4 DEF IInv, PostedSoFar
<1>8. ArrivedSoFar'
  <2>1. s.batch[1] = Before + 1
    <3>1. Counts(pending, Before) /\ 1 \in 1..Len(pending)  BY <1>1, Lengths DEF IInv, Stream
    <3>2. QED  BY <1>1, <3>1 DEF Counts
  <2>2. Before + 1 \in 0..Before + 1  BY Lengths
  <2>3. QED  BY <1>1, <1>2, <1>3, <2>1, <2>2 DEF IInv, ArrivedSoFar
<1>9. QED
  BY <1>2, <1>3, <1>6, <1>7, <1>8 DEF IInv, Stream, HandedSoFar, LeftIsPending

(* A context that ends has let its Send post, if the last flush owns it.   *)
LEMMA EndStep == ASSUME IInv, NEW s \in sending, ContextEnds(s) PROVE IInv'
<1>1. /\ IF s.own THEN s.tries < Tries ELSE cancelled
      /\ sending' = sending \ {s}
      /\ UNCHANGED <<cfg, fed, inClosed, cancelled, in, pc, pending, handed, tried, arrived,
                     taken, left>>
  BY DEF ContextEnds, world, history
<1>2. Destinations' = Destinations /\ Before' = Before /\ Flushing' = Flushing
  BY <1>1 DEF Destinations, Before, Flushing
<1>3. ASSUME NEW d, WillPost(d) PROVE WillPost(d)'
  <2>1. PICK w \in sending : w.to = d /\ w.tries = Tries /\ (w.own \/ ~cancelled)
    BY <1>3 DEF WillPost
  <2>2. w # s
    <3>1. ~(Tries < Tries)  BY NotifierAssumption
    <3>2. QED  BY <1>1, <2>1, <3>1
  <2>3. QED  BY <1>1, <2>1, <2>2 DEF WillPost
<1>4. PostedSoFar'  BY <1>1, <1>2, <1>3 DEF IInv, PostedSoFar
<1>5. SendsAreOfTheBatch'  BY <1>1, <1>2 DEF IInv, SendsAreOfTheBatch
<1>6. QED
  BY <1>1, <1>2, <1>4, <1>5 DEF IInv, Stream, HandedSoFar, LeftIsPending, ArrivedSoFar

LEMMA Invariance == Spec => []IInv
<1>1. IInv /\ [Next]_vars => IInv'
  <2> SUFFICES ASSUME IInv, [Next]_vars PROVE IInv'  OBVIOUS
  <2>1. CASE UNCHANGED vars
    BY <2>1 DEF vars, IInv, Stream, HandedSoFar, SendsAreOfTheBatch, LeftIsPending, PostedSoFar,
       ArrivedSoFar, Destinations, Flushing, Before, WillPost
  <2>2. CASE \E d \in Destinations : Sends(d)
    BY <2>2, PostStep, EndStep DEF Sends
  <2>3. CASE Run
    BY <2>3, StartStep, SelectStep, TakeStep, FlushEndsStep DEF Run
  <2>4. QED  BY <2>1, <2>2, <2>3, FeedStep, SignalStep DEF Next
<1>2. QED  BY <1>1, InitInv, PTL DEF Spec

-----------------------------------------------------------------------------
(* What a destination was handed is what was received, up to some point: no*)
(* decision twice, none left out, none out of order.                       *)
THEOREM HandedInOrder == Spec => []HandedOnceInOrder
<1>1. IInv => HandedOnceInOrder
  <2> SUFFICES ASSUME IInv, NEW d \in Destinations PROVE IsPrefix(handed[d], taken)
    BY DEF HandedOnceInOrder
  <2>1. Counts(handed[d], 0) /\ Counts(taken, 0)  BY DEF IInv, HandedSoFar, Stream
  <2>2. Len(handed[d]) <= Len(taken)  BY Lengths DEF IInv, HandedSoFar
  <2>3. QED  BY <2>1, <2>2, CountsPrefix
<1>2. QED  BY <1>1, Invariance, PTL

(* When Run has returned every destination was handed all that was         *)
(* received; what was pending at the cancellation, or without one all of   *)
(* it, was posted.                                                         *)
THEOREM StoppingLosesNothing == Spec => []ReturnLosesNothing
<1>1. IInv => ReturnLosesNothing
  <2> SUFFICES ASSUME IInv, pc = "returned", NEW d \in Destinations
               PROVE  /\ handed[d] = taken
                      /\ Range(left) \subseteq tried[d]
                      /\ ~cancelled => tried[d] = Range(taken)
    BY DEF ReturnLosesNothing
  <2>1. Counts(handed[d], 0) /\ Counts(taken, 0) /\ Len(handed[d]) = Len(taken)
    BY DEF IInv, HandedSoFar, Stream
  <2>2. handed[d] = taken  BY <2>1, CountsSame
  <2>3. /\ tried[d] \subseteq 1..Len(taken)
        /\ ~cancelled => 1..Before \subseteq tried[d]
        /\ ~cancelled \/ left # << >> => Before + 1..Len(taken) \subseteq tried[d]
    BY DEF IInv, PostedSoFar
  <2>4. Range(left) \subseteq tried[d]
    <3>1. CASE left = << >>
      <4>1. Range(<< >>) = {}  BY DEF Range
      <4>2. QED  BY <3>1, <4>1
    <3>2. CASE left # << >>
      <4>1. left = pending  BY <3>2 DEF IInv, LeftIsPending
      <4>2. Counts(pending, Before) /\ Before \in Nat  BY Lengths DEF IInv, Stream
      <4>3. Range(pending) = Before + 1..Before + Len(pending)  BY <4>2, CountsRange
      <4>4. QED  BY <2>3, <3>2, <4>1, <4>3, Lengths
    <3>3. QED  BY <3>1, <3>2
  <2>5. ~cancelled => tried[d] = Range(taken)
    <3>1. Range(taken) = 0 + 1..0 + Len(taken)  BY <2>1, CountsRange
    <3>2. 1..Len(taken) = (1..Before) \cup (Before + 1..Len(taken))  BY Lengths
    <3>3. Range(taken) = 1..Len(taken)  BY <3>1, Lengths
    <3>4. QED  BY <2>3, <3>2, <3>3
  <2>6. QED  BY <2>2, <2>4, <2>5
<1>2. QED  BY <1>1, Invariance, PTL

(* A web hook never gets an older batch after a newer one, whatever was    *)
(* posted again and however slow another destination is.                   *)
THEOREM HooksSeeOrder == Spec => BatchesArriveInOrder
<1>1. IInv /\ [Next]_vars => [\A d \in Destinations : arrived'[d] >= arrived[d]]_vars
  <2> SUFFICES ASSUME IInv, [Next]_vars, NEW d \in Destinations PROVE arrived'[d] >= arrived[d]
    OBVIOUS
  <2>1. arrived[d] \in 0..Before + 1 /\ Before \in Nat
    BY Lengths DEF IInv, ArrivedSoFar
  <2>2. CASE arrived' = arrived  BY <2>1, <2>2
  <2>3. ASSUME NEW s \in sending, Post(s) PROVE arrived'[d] >= arrived[d]
    <3>1. /\ s.to \in Destinations /\ s.batch = pending /\ pending # << >>
      BY DEF IInv, SendsAreOfTheBatch
    <3>2. s.batch[1] = Before + 1
      <4>1. Counts(pending, Before) /\ 1 \in 1..Len(pending)
        BY <3>1, Lengths DEF IInv, Stream
      <4>2. QED  BY <3>1, <4>1 DEF Counts
    <3>3. arrived' = [arrived EXCEPT ![s.to] = s.batch[1]] \/ arrived' = arrived
      BY <2>3 DEF Post
    <3>4. arrived'[d] \in {arrived[d], Before + 1}
      BY <3>2, <3>3 DEF IInv, ArrivedSoFar
    <3>5. QED  BY <2>1, <3>4
  <2>4. arrived' = arrived \/ \E s \in sending : Post(s)
    BY DEF Next, Run, Feed, CloseIn, Cancel, TickerFires, Start, SeesCancel, SeesClosed, Take,
       SeesTick, FlushEnds, Sends, ContextEnds, history, vars
  <2>5. QED  BY <2>2, <2>3, <2>4
<1>2. QED  BY <1>1, Invariance, PTL DEF Spec, BatchesArriveInOrder
-----------------------------------------------------------------------------
(* Types: the invariant above knows the numbers, what is left is that the  *)
(* channel keeps to its capacity and that the batches are what they seem.  *)
Bounds ==
    /\ cfg \in Configs /\ fed \in 0..MaxDecisions /\ Len(in) <= InCap
    /\ inClosed \in BOOLEAN /\ cancelled \in BOOLEAN /\ ticked \in BOOLEAN
    /\ sending \subseteq Batch
    /\ tried \in [Destinations -> SUBSET Nat] /\ arrived \in [Destinations -> Nat]
    /\ \A d \in Destinations : arrived[d] <= Len(taken)

(* What is pending is a sequence of decisions there have been.             *)
LEMMA PendingIs ==
    ASSUME IInv, Bounds
    PROVE  /\ pending \in Seq(1..MaxDecisions)
           /\ pending # << >> => pending[1] \in Nat /\ pending[1] <= Len(taken)
<1>1. Counts(pending, Before) /\ fed = Len(taken) + Len(in)  BY DEF IInv, Stream
<1>2. fed \in 0..MaxDecisions /\ MaxDecisions \in Nat  BY NotifierAssumption DEF Bounds
<1>3. ASSUME NEW i \in 1..Len(pending)
      PROVE  pending[i] \in 1..MaxDecisions /\ pending[i] <= Len(taken)
  <2>1. pending[i] = Before + i  BY <1>1, <1>3 DEF Counts
  <2>2. QED  BY <1>1, <1>2, <2>1, Lengths
<1>4. pending \in Seq(Nat) /\ Len(pending) \in Nat  BY <1>1, CountsLen
<1>5. pending \in Seq(1..MaxDecisions)
  <2>1. pending \in [1..Len(pending) -> Nat]  BY <1>4, LenProperties
  <2>2. pending \in [1..Len(pending) -> 1..MaxDecisions]  BY <1>3, <2>1
  <2>3. Seq(1..MaxDecisions) = UNION {[1..n -> 1..MaxDecisions] : n \in Nat}  BY SeqDef
  <2>4. QED  BY <1>4, <2>2, <2>3, Zenon
<1>6. ASSUME pending # << >> PROVE pending[1] \in Nat /\ pending[1] <= Len(taken)
  <2>1. 1 \in 1..Len(pending)  BY <1>4, <1>6, Lengths
  <2>2. QED  BY <1>3, <2>1
<1>7. QED  BY <1>5, <1>6

LEMMA BoundsStart == Init => Bounds
<1> SUFFICES ASSUME Init PROVE Bounds  OBVIOUS
<1>1. tried \in [Destinations -> SUBSET Nat] /\ arrived \in [Destinations -> Nat]
  BY DEF Init
<1>2. \A d \in Destinations : arrived[d] <= Len(taken)  BY DEF Init
<1>3. Len(in) <= InCap  BY NotifierAssumption DEF Init
<1>4. fed \in 0..MaxDecisions  BY NotifierAssumption DEF Init
<1>5. QED  BY <1>1, <1>2, <1>3, <1>4 DEF Init, Bounds

(* A Send that has posted has one try less, or is gone.                    *)
LEMMA SendsKeepBounds ==
    ASSUME IInv, Bounds, NEW s \in sending, Post(s) \/ ContextEnds(s)
    PROVE  Bounds'
<1>1. Destinations' = Destinations /\ Batch' = Batch
  BY DEF Post, ContextEnds, world, Destinations, Batch
<1>2. CASE ContextEnds(s)
  BY <1>1, <1>2 DEF ContextEnds, world, history, Bounds
<1>3. CASE Post(s)
  <2>1. /\ s \in Batch /\ s.batch = pending /\ pending # << >> /\ s.to \in Destinations
    BY DEF Bounds, IInv, SendsAreOfTheBatch
  <2>2. /\ tried' = [tried EXCEPT ![s.to] = @ \cup Range(s.batch)]
        /\ arrived' = [arrived EXCEPT ![s.to] = s.batch[1]] \/ arrived' = arrived
        /\ \/ sending' = sending \ {s}
           \/ s.tries # 1 /\ sending' = (sending \ {s}) \cup {[s EXCEPT !.tries = @ - 1]}
        /\ UNCHANGED <<cfg, fed, inClosed, cancelled, in, ticked, taken>>
    BY <1>3 DEF Post, world
  <2>3. Range(s.batch) \subseteq Nat
    <3>1. Counts(pending, Before) /\ Before \in Nat  BY Lengths DEF IInv, Stream
    <3>2. Range(pending) = Before + 1..Before + Len(pending)  BY <3>1, CountsRange
    <3>3. QED  BY <2>1, <3>1, <3>2, Lengths
  <2>4. tried' \in [Destinations -> SUBSET Nat]
    <3>1. tried[s.to] \cup Range(s.batch) \in SUBSET Nat  BY <2>1, <2>3 DEF Bounds
    <3>2. QED  BY <2>1, <2>2, <3>1 DEF Bounds
  <2>5. arrived' \in [Destinations -> Nat] /\ \A d \in Destinations : arrived'[d] <= Len(taken)
    <3>1. s.batch[1] \in Nat /\ s.batch[1] <= Len(taken)  BY <2>1, PendingIs
    <3>2. arrived \in [Destinations -> Nat] /\ \A d \in Destinations : arrived[d] <= Len(taken)
      BY DEF Bounds
    <3>3. CASE arrived' = [arrived EXCEPT ![s.to] = s.batch[1]]  BY <2>1, <3>1, <3>2, <3>3
    <3>4. QED  BY <2>2, <3>2, <3>3
  <2>6. sending' \subseteq Batch
    <3>1. ASSUME s.tries # 1 PROVE [s EXCEPT !.tries = @ - 1] \in Batch
      <4>1. s.tries - 1 \in 1..Tries  BY <2>1, <3>1, NotifierAssumption DEF Batch
      <4>2. QED  BY <2>1, <4>1 DEF Batch
    <3>2. QED  BY <2>2, <3>1 DEF Bounds
  <2>7. QED  BY <1>1, <2>2, <2>4, <2>5, <2>6 DEF Bounds
<1>4. QED  BY <1>2, <1>3

(* A flush starts Sends of what is pending.                                *)
LEMMA FlushKeepsBounds ==
    ASSUME IInv, Bounds, SeesCancel \/ SeesClosed \/ SeesTick
    PROVE  Bounds'
<1>1. /\ UNCHANGED <<cfg, fed, inClosed, cancelled, in, taken, tried, arrived>>
      /\ ticked' \in BOOLEAN
  BY DEF SeesCancel, SeesClosed, SeesTick, world, Bounds
<1>2. Destinations' = Destinations /\ Batch' = Batch  BY <1>1 DEF Destinations, Batch
<1>3. ASSUME NEW next, NEW own \in BOOLEAN, Dispatch(next, own) PROVE sending' \subseteq Batch
  <2>1. pending \in Seq(1..MaxDecisions) /\ Tries \in 1..Tries
    BY PendingIs, NotifierAssumption
  <2>2. \A d \in Destinations :
           [to |-> d, batch |-> pending, tries |-> Tries, own |-> own] \in Batch
    BY <2>1 DEF Batch
  <2>3. QED  BY <1>3, <2>2 DEF Dispatch, Bounds
<1>4. sending' \subseteq Batch
  BY <1>3 DEF SeesCancel, SeesClosed, SeesTick, LastFlush, Return, Bounds
<1>5. QED  BY <1>1, <1>2, <1>4 DEF Bounds

LEMMA BoundsStep == IInv /\ Bounds /\ [Next]_vars => Bounds'
<1> SUFFICES ASSUME IInv, Bounds, [Next]_vars PROVE Bounds'  OBVIOUS
<1>1. ASSUME UNCHANGED <<cfg, sending, tried, arrived>>,
             fed' \in 0..MaxDecisions /\ Len(in') <= InCap,
             inClosed' \in BOOLEAN /\ cancelled' \in BOOLEAN /\ ticked' \in BOOLEAN,
             \A d \in Destinations : arrived[d] <= Len(taken')
      PROVE  Bounds'
  BY <1>1 DEF Bounds, Destinations, Batch
<1>2. CASE Feed
  <2>1. /\ Len(in) < InCap /\ in' = Append(in, fed + 1) /\ fed < MaxDecisions /\ fed' = fed + 1
        /\ UNCHANGED <<cfg, inClosed, cancelled, ticked, sending, tried, arrived, taken>>
    BY <1>2 DEF Feed, history
  <2>2. Len(in') = Len(in) + 1 /\ Len(in) \in Nat
    <3>1. Counts(in, Len(taken))  BY DEF IInv, Stream
    <3>2. QED  BY <2>1, <3>1 DEF Counts
  <2>3. QED  BY <1>1, <2>1, <2>2, NotifierAssumption DEF Bounds
<1>3. CASE Take
  <2>1. /\ in # << >> /\ in' = Tail(in) /\ taken' = Append(taken, Head(in))
        /\ UNCHANGED <<cfg, fed, inClosed, cancelled, ticked, sending, tried, arrived>>
    BY <1>3 DEF Take, world, history
  <2>2. Counts(in, Len(taken)) /\ Counts(taken, 0)  BY DEF IInv, Stream
  <2>3. Len(in') = Len(in) - 1 /\ Len(in) \in Nat  BY <2>1, <2>2, CountsTail, Lengths
  <2>4. Len(taken') = Len(taken) + 1 /\ Len(taken) \in Nat  BY <2>1, <2>2 DEF Counts
  <2>5. Len(in') <= InCap  BY <2>3, NotifierAssumption DEF Bounds
  <2>6. \A d \in Destinations : arrived[d] <= Len(taken')  BY <2>4 DEF Bounds
  <2>7. QED  BY <1>1, <2>1, <2>5, <2>6 DEF Bounds
<1>4. CASE CloseIn \/ Cancel \/ TickerFires \/ Start \/ FlushEnds \/ UNCHANGED vars
  BY <1>1, <1>4 DEF CloseIn, Cancel, TickerFires, Start, FlushEnds, vars, world, history, Bounds
<1>5. CASE \E d \in Destinations : Sends(d)
  BY <1>5, SendsKeepBounds DEF Sends
<1>6. QED
  BY <1>2, <1>3, <1>4, <1>5, FlushKeepsBounds DEF Next, Run

(* Nothing is lost or made up on the way to Run: what it received and what *)
(* waits in the channel are the decisions in their order, what is pending  *)
(* is the end of what was received, and only what was received is posted.  *)
THEOREM NotifierTypes == Spec => []TypeOK
<1>1. IInv /\ Bounds => TypeOK
  <2> SUFFICES ASSUME IInv, Bounds PROVE TypeOK  OBVIOUS
  <2>1. /\ Counts(taken, 0) /\ Counts(in, 0 + Len(taken)) /\ Counts(pending, Before)
        /\ fed = Len(taken) + Len(in) /\ fed \in Nat
    BY Lengths DEF IInv, Stream
  <2>2. taken \o in = [i \in 1..fed |-> i]
    <3>1. Counts(taken \o in, 0) /\ Len(taken \o in) = fed  BY <2>1, CountsJoin
    <3> DEFINE numbers == [i \in 1..fed |-> i]
    <3>2. numbers \in Seq(Nat) /\ Len(numbers) = fed  BY <2>1
    <3>3. Counts(numbers, 0)  BY <2>1, <3>2 DEF Counts
    <3> HIDE DEF numbers
    <3>4. taken \o in = numbers  BY <3>1, <3>2, <3>3, CountsSame
    <3>5. QED  BY <3>4 DEF numbers
  <2>3. IsSuffix(pending, taken)
    <3> DEFINE p == Reverse(pending)  t == Reverse(taken)  n == Len(pending)  k == Len(taken)
    <3>1. n \in Nat /\ k \in Nat /\ n <= k /\ Before = k - n  BY Lengths DEF Before
    <3>2. p \in Seq(Nat) /\ Len(p) = n /\ \A i \in 1..n : p[i] = (k - i) + 1
      <4>1. \A i \in 1..n : (n - i) + 1 \in 1..n /\ pending[(n - i) + 1] = (k - i) + 1
        BY <2>1, <3>1 DEF Counts
      <4>2. \A i \in 1..n : (k - i) + 1 \in Nat  BY <3>1
      <4>3. p = [i \in 1..n |-> pending[(n - i) + 1]]  BY DEF Reverse
      <4> HIDE DEF p, n, k
      <4>4. QED  BY <3>1, <4>1, <4>2, <4>3
    <3>3. t \in Seq(Nat) /\ Len(t) = k /\ \A i \in 1..k : t[i] = (k - i) + 1
      <4>1. ASSUME NEW i \in 1..k
            PROVE  (k - i) + 1 \in 1..k /\ taken[(k - i) + 1] = (k - i) + 1
        <5>1. (k - i) + 1 \in 1..Len(taken) /\ 0 + ((k - i) + 1) = (k - i) + 1  BY <3>1
        <5>2. taken[(k - i) + 1] = 0 + ((k - i) + 1)  BY <2>1, <5>1 DEF Counts
        <5>3. QED  BY <5>1, <5>2
      <4>2. t = [i \in 1..k |-> taken[(k - i) + 1]]  BY DEF Reverse
      <4> HIDE DEF t, n, k
      <4>3. QED  BY <3>1, <4>1, <4>2
    <3> HIDE DEF p, t, n, k
    <3>4. /\ SubSeq(p, 1, n) \in Seq(Nat) /\ SubSeq(t, 1, n) \in Seq(Nat)
          /\ Len(SubSeq(p, 1, n)) = n /\ Len(SubSeq(t, 1, n)) = n
          /\ \A i \in 1..n : SubSeq(p, 1, n)[i] = p[i] /\ SubSeq(t, 1, n)[i] = t[i]
      BY <3>1, <3>2, <3>3
    <3>5. \A i \in 1..n : p[i] = t[i]  BY <3>1, <3>2, <3>3
    <3>6. SubSeq(p, 1, n) = SubSeq(t, 1, n)  BY <3>4, <3>5, SeqEqual
    <3>7. IsPrefix(p, t)  BY <3>1, <3>2, <3>3, <3>6 DEF IsPrefix
    <3>8. QED  BY <3>7 DEF IsSuffix, p, t
  <2>4. IsPrefix(left, pending)
    <3>1. Before \in Nat  BY Lengths
    <3>2. CASE left = << >>
      <4>1. Counts(left, Before) /\ Len(left) = 0  BY <3>2, CountsEmpty
      <4>2. Len(left) <= Len(pending)  BY <4>1, Lengths
      <4>3. QED  BY <2>1, <4>1, <4>2, CountsPrefix
    <3>3. CASE left # << >>
      <4>1. left = pending  BY <3>3 DEF IInv, LeftIsPending
      <4>2. Len(pending) <= Len(pending)  BY Lengths
      <4>3. QED  BY <2>1, <4>1, <4>2, CountsPrefix
    <3>4. QED  BY <3>2, <3>3
  <2>5. sending # {} => pc \in {"flush", "lastFlush"}
    BY DEF IInv, SendsAreOfTheBatch, Flushing
  <2>6. tried \in [Destinations -> SUBSET (1..fed)] /\ arrived \in [Destinations -> 0..fed]
    <3>1. \A d \in Destinations : tried[d] \subseteq 1..Len(taken)
      BY DEF IInv, PostedSoFar
    <3>2. 1..Len(taken) \subseteq 1..fed /\ 0..Len(taken) \subseteq 0..fed  BY <2>1, Lengths
    <3>3. \A d \in Destinations : arrived[d] \in 0..Len(taken)  BY Lengths DEF Bounds
    <3>4. QED  BY <3>1, <3>2, <3>3 DEF Bounds
  <2>7. QED  BY <2>2, <2>3, <2>4, <2>5, <2>6 DEF TypeOK, Bounds, IInv
<1>2. Spec => []Bounds  BY BoundsStart, BoundsStep, Invariance, PTL DEF Spec
<1>3. QED  BY <1>1, <1>2, Invariance, PTL
=============================================================================
