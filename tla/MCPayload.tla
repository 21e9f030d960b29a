----------------------------- MODULE MCPayload ------------------------------
(* Two output directories and two operators; three public builds: the Wi-Fi *)
(* base, the raw one with the touch module, and the production build that  *)
(* carries the Wi-Fi userland.                                             *)
EXTENDS Payload, TLC

CONSTANTS d1, d2, o1, o2

WifiBase == Needs["wifi-h1b-base"]
RawBase  == Needs["wifi-h1b-base-raw"] \cup {"apple_z2.ko"}
Userland == (WifiBase \ {"brcmfmac.debug"}) \cup {"wifi-tools", "wifi-up", "udhcpc", "apple_z2.ko"}

MCPublic == {WifiBase, RawBase, Userland}
MCDirs == {d1, d2}
MCOperators == {o1, o2}

\* Directories and operators are interchangeable.
MCSymmetry == Permutations(MCDirs) \cup Permutations(MCOperators)

Plain == [assets |-> "recorded", nvram |-> "plausible", bootargs |-> "listed", macaddr |-> FALSE, bt |-> FALSE,
          touch |-> FALSE, userland |-> FALSE, credentials |-> FALSE, production |-> FALSE]

MCRequests ==
  {Plain,
   [Plain EXCEPT !.macaddr = TRUE, !.bt = TRUE, !.touch = TRUE, !.userland = TRUE, !.credentials = TRUE],
   [Plain EXCEPT !.credentials = TRUE, !.production = TRUE],
   [Plain EXCEPT !.userland = TRUE],
   [Plain EXCEPT !.touch = TRUE],
   [Plain EXCEPT !.macaddr = TRUE, !.nvram = "has-macaddr"],
   [Plain EXCEPT !.nvram = "short"],
   [Plain EXCEPT !.assets = "other"],
   [Plain EXCEPT !.bootargs = "other"]}
=============================================================================
