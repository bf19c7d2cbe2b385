------------------------------- MODULE Config -------------------------------
(***************************************************************************)
(* pkg/model/config.go: the agent's configuration and what Validate says   *)
(* of it, section by section.  A string is reduced to what the code tells  *)
(* apart: "" and " " are blank, and a web address parses or does not.  A   *)
(* duration is the sequence of what time.ParseDuration yields: the parsed  *)
(* number alone, or nothing when it returns an error.                      *)
(***************************************************************************)
EXTENDS Integers, Sequences

Blank(text)      == text \in {"", " "}
Parses(duration) == duration # << >>

(* Validate's part for the interface, the XDP mode and the analyzer.       *)
ValidDatapath(c) ==
    /\ ~Blank(c.interface)
    /\ c.mode \in {"", "native", "generic", "skb", "offload"}
    /\ c.pps > 0 /\ c.windowSeconds > 0
    /\ c.distinctPorts > 0 /\ Parses(c.scanWindow)
    /\ c.coarsePPSLimit >= 0 /\ c.sampleEveryN > 0

Hooks == {"slack", "discord"}

ValidWebhook(w) == w.enabled => w.url = "https://host/path"

ValidNotifier(c) ==
    /\ Parses(c.debounceWindow)
    /\ \A d \in Hooks : ValidWebhook(c.webhooks[d])

ValidAPI_Bug(c) == ~Blank(c.listenAddr)     \* the token is not looked at

ValidAPI(c) ==
    /\ ~Blank(c.listenAddr)
    /\ c.authEnabled => ~Blank(c.token)
=============================================================================
