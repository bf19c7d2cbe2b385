------------------------------ MODULE Capture ------------------------------
(***************************************************************************)
(* The collector on the objects of the loader: samples are written while   *)
(* the XDP program is attached, the perf reader is opened on the events    *)
(* map that loader.New handed over.  The source has no main program: what  *)
(* New's results force on whoever calls is kept, the rest is free.         *)
(***************************************************************************)
EXTENDS Collector

CONSTANTS
    Files,          \* configurations, as in the agent's file
    Width           \* bits of the fields of struct config: 32

ASSUME CaptureAssumption ==
    /\ Width \in Nat
    /\ \A f \in Files : f.coarsePPSLimit \in Int /\ f.sampleEveryN \in Int

VARIABLES linux, file, loader, objects, attached, config_map

loaderVars == <<linux, file, loader, objects, attached, config_map>>

Load == INSTANCE Loader

CaptureInit == Init /\ Load!Init

(* Packets come as long as the interface is attached, and the process,     *)
(* alive or not, is not needed for that.                                   *)
Packet(c, good) == attached /\ Emit(c, good)

(* The agent's own steps end with its process.                             *)
Agent == loader # "dead" /\ (Run \/ Consume \/ Cancel)

StartCollector == loader = "up" /\ New(linux)

CaptureNext ==
    \/ (\E c \in CPUs, good \in BOOLEAN : Packet(c, good)) /\ UNCHANGED loaderVars
    \/ (Agent \/ StartCollector) /\ UNCHANGED loaderVars
    \/ Load!Next /\ UNCHANGED vars

CaptureVars == <<vars, loaderVars>>

(* The goroutine is scheduled, Read returns when there is a record, and    *)
(* packets keep coming.  The analyzer need not take events, nobody has to  *)
(* cancel or close, and the process may die.                               *)
Alive(step) == loader # "dead" /\ step /\ UNCHANGED loaderVars

CaptureSpec ==
    /\ CaptureInit /\ [][CaptureNext]_CaptureVars
    /\ WF_CaptureVars(Alive(Wait)) /\ WF_CaptureVars(Alive(Check)) /\ WF_CaptureVars(Alive(Read))
    /\ WF_CaptureVars(Alive(Send)) /\ WF_CaptureVars(Alive(GiveUp))
    /\ \A c \in CPUs : WF_CaptureVars(Packet(c, TRUE) /\ UNCHANGED loaderVars)

-----------------------------------------------------------------------------
(* The properties of the loader (Loader), beside packets and collector:    *)
(* nothing left behind, no packet before the configuration; and what is    *)
(* not so, a limit that is always the file's.                              *)
NothingIsLeftBehind  == Load!NothingIsLeftBehind
PacketsMeetTheConfig == Load!PacketsMeetTheConfig
LimitIsTheFiles      == Load!LimitIsTheFiles

(* Once the context is cancelled Run returns, also when the analyzer has   *)
(* stopped reading: the one thing that may keep it is a Read for which no  *)
(* packet comes any more.                                                  *)
Silence ==
    /\ pc = "read" /\ \A c \in CPUs : ring[c] = << >>
    /\ ~attached \/ Total(emitted) = MaxEmitted

CancelIsSeen ==
    (cancelled /\ pc \notin {"none", "failed"}) ~> (pc = "returned" \/ Silence \/ loader = "dead")

(* A cancelled Run returns, also when the interface has been detached.     *)
CancelledReturns ==
    (cancelled /\ pc \notin {"none", "failed"}) ~> (pc = "returned" \/ loader = "dead")
=============================================================================
