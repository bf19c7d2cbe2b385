----------------------------- MODULE MCNotifier -----------------------------
(* Configurations of the notifier for TLC: windows that are positive, zero *)
(* and unreadable; both, one and none of the destinations, the URL of one  *)
(* left out or unreadable.                                                 *)
EXTENDS Notifier

Hook(enabled, url) == [enabled |-> enabled, url |-> url]
Good == Hook(TRUE, "https://host/path")

Section(window, slack, discord) ==
    [debounceWindow |-> window, webhooks |-> [slack |-> slack, discord |-> discord]]

SomeConfigs ==
    {Section(<<10>>, Good, Good), Section(<<10>>, Good, Hook(FALSE, "")),
     Section(<<10>>, Hook(FALSE, "https://host/path"), Hook(TRUE, "host")),
     Section(<<10>>, Hook(FALSE, ""), Hook(FALSE, "")),
     Section(<<0>>, Good, Good), Section(<< >>, Good, Good)}

OneConfig  == {Section(<<10>>, Good, Hook(FALSE, ""))}
ZeroWindow == {Section(<<0>>, Good, Good)}
=============================================================================
