------------------------------- MODULE Loader -------------------------------
(***************************************************************************)
(* internal/loader: New opens the eBPF objects, writes the configuration   *)
(* for the XDP program and attaches the program to the interface; Close    *)
(* undoes it.  Every step may fail.  On darwin New does none of it.        *)
(* Nothing is pinned: what the process holds goes with the process.        *)
(***************************************************************************)
EXTENDS Config

CONSTANTS
    Files,          \* configurations, as in the agent's file
    Width           \* the C fields of struct config are Width bits: 32

VARIABLES
    linux,          \* the build
    file,           \* the configuration New is called with; it has passed Validate
    loader,         \* "none", "opened", "configured", "up", "failed", "closed", "dead"
    objects,        \* the process holds maps and programs
    attached,       \* the interface runs the XDP program
    config_map      \* entry 0, or nothing before New wrote it

loaderVars == <<linux, file, loader, objects, attached, config_map>>

Init ==
    /\ linux \in BOOLEAN
    /\ file \in {f \in Files : ValidDatapath(f)}
    /\ loader = "none" /\ objects = FALSE /\ attached = FALSE /\ config_map = << >>

(* RemoveMemlock, InterfaceByName and LoadXdpDropObjects leave nothing     *)
(* behind when they fail.                                                  *)
Open ==
    /\ loader = "none" /\ linux
    /\ \/ loader' = "failed" /\ UNCHANGED objects
       \/ loader' = "opened" /\ objects' = TRUE
    /\ UNCHANGED <<linux, file, attached, config_map>>

OpenDarwin ==
    /\ loader = "none" /\ ~linux
    /\ loader' = "up"
    /\ UNCHANGED <<linux, file, objects, attached, config_map>>

(* Both errors behind LoadXdpDropObjects go through objs.Close.            *)
Fail_Bug ==
    /\ loader' = "failed"
    /\ objects' = (loader = "configured")
    /\ UNCHANGED <<linux, file, attached, config_map>>

Fail ==
    /\ loader' = "failed" /\ objects' = FALSE
    /\ UNCHANGED <<linux, file, attached, config_map>>

uint32(n) == n % 2^Width

WriteConfig ==
    /\ loader = "opened"
    /\ \/ /\ loader' = "configured"
          /\ config_map' = <<[coarse_pps_limit |-> uint32(file.coarsePPSLimit),
                              sample_every_n |-> uint32(file.sampleEveryN), enabled |-> 1]>>
          /\ UNCHANGED <<linux, file, objects, attached>>
       \/ Fail

Attach_Bug ==                   \* the configuration is written to a running program
    /\ loader \in {"opened", "configured"}
    /\ attached' = TRUE /\ loader' = IF loader = "configured" THEN "up" ELSE loader
    /\ UNCHANGED <<linux, file, objects, config_map>>

Attach ==
    /\ loader = "configured"
    /\ \/ /\ loader' = "up" /\ attached' = TRUE
          /\ UNCHANGED <<linux, file, objects, config_map>>
       \/ Fail

(* Close detaches first and returns at the first error: one of the link    *)
(* changes nothing, one of objs.Close leaves objects.  The caller may try  *)
(* again.                                                                  *)
Close ==
    /\ loader = "up"
    /\ attached' = FALSE
    /\ \/ loader' = "closed" /\ objects' = FALSE
       \/ objects /\ UNCHANGED <<loader, objects>>
    /\ UNCHANGED <<linux, file, config_map>>

(* The process ends, as it may at any time: the kernel takes back the      *)
(* link, which detaches the program, and the maps with all they hold.      *)
Die ==
    /\ loader # "dead"
    /\ loader' = "dead" /\ objects' = FALSE /\ attached' = FALSE
    /\ UNCHANGED <<linux, file, config_map>>

New  == Open \/ OpenDarwin \/ WriteConfig \/ Attach
Next == New \/ Close \/ Die

-----------------------------------------------------------------------------
(* A start that failed, and a Close that succeeded, leave neither the      *)
(* program on the interface nor maps in the kernel; and never is the       *)
(* program attached while nobody holds its maps.                           *)
NothingIsLeftBehind ==
    /\ loader \in {"failed", "closed", "dead"} => ~objects /\ ~attached
    /\ attached => objects

(* No packet meets the program before its configuration: from the first    *)
(* one on it is enabled, and has the limits of the file, unless they do    *)
(* not fit the map's fields.                                               *)
PacketsMeetTheConfig ==
    attached =>
        \E entry \in {config_map[i] : i \in DOMAIN config_map} :
            /\ entry.enabled = 1
            /\ file.coarsePPSLimit < 2^Width => entry.coarse_pps_limit = file.coarsePPSLimit
            /\ file.sampleEveryN < 2^Width => entry.sample_every_n = file.sampleEveryN

(* "Packets exceeding this rate bypass standard sampling and are always    *)
(* streamed" (config.example.yaml:25-26): the limit that the operator      *)
(* wrote and Validate let pass is the one that counts.                     *)
LimitIsTheFiles == attached => config_map[1].coarse_pps_limit = file.coarsePPSLimit
=============================================================================
