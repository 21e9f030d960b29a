---------------------------- MODULE PayloadBuild ----------------------------
(***************************************************************************)
(* boot/verify_pcie_j81_reg_on_payload.py: which public builds pass, under *)
(* which of its flags.  A build is the set of the facts the verifier looks *)
(* for: strings of the kernel, nodes of the device tree, files of the      *)
(* initramfs, boot arguments.                                              *)
(***************************************************************************)
EXTENDS FiniteSets

(***************************************************************************)
(* A flag asks for more than itself: the modes of main(), each with those  *)
(* it brings along.                                                        *)
(***************************************************************************)
Flags == {"none", "dllla", "clean", "doorbell", "msi", "msi-selftest", "msi-diag", "bcm-probe",
          "bcm-shadow", "dma-rebase", "dma-raw", "wifi-h1b-base", "wifi-h1b-base-raw"}

Brings == {<<"dllla", "none">>, <<"clean", "dllla">>, <<"doorbell", "clean">>, <<"msi", "doorbell">>,
           <<"msi-selftest", "msi">>, <<"msi-diag", "msi">>,
           <<"bcm-probe", "msi">>, <<"bcm-shadow", "bcm-probe">>,
           <<"dma", "msi">>, <<"dma-rebase", "dma">>, <<"dma-raw", "dma">>,
           <<"wifi-h1b-base", "dma-rebase">>, <<"wifi-h1b-base-raw", "dma-raw">>,
           <<"wifi-h1b-base", "wifi">>, <<"wifi-h1b-base-raw", "wifi">>}

Modes == Flags \cup {"dma", "wifi"}

\* The modes that are on under a flag.
On[f \in Modes] == {f} \cup UNION {On[m] : m \in {n \in Modes : <<f, n>> \in Brings}}

(***************************************************************************)
(* What every payload must have, and what each mode adds.                  *)
(***************************************************************************)
Always == {"checksums", "one-reg-on-pmic-on-PCIe", "ecm.usb0", "J81-Wi-Fi-REG_ON"}

\* j81_base_problems(): the package every J81 payload carries.
J81Base == {"charging-policy-and-tools", "telnet-and-ssh", "j81-d2207-charger", "base-bootargs"}

Asks == [m \in Modes |->
  CASE m = "doorbell"      -> {"apple,msi-doorbell", "doorbell-on-PCIe-only"}
    [] m = "msi"           -> {"msi-ranges-on-PCIe", "MSI-domain"}
    [] m = "msi-selftest"  -> {"msi-selftest"}
    [] m = "msi-diag"      -> {"MSIADDR"}
    [] m = "bcm-probe"     -> {"bcm-probe"}
    [] m = "bcm-shadow"    -> {"bcm-otp-shadow"}
    [] m = "dma"           -> {"iova-window-on-PCIe", "apple,iova-window"}
    [] m = "dma-rebase"    -> {"iova-rebase"}
    [] m = "wifi"          -> J81Base \cup {"brcmfmac", "debugfs-diagnostics", "h1b-diagnostics", "brcmfmac.debug"}
    [] m = "wifi-h1b-base" -> {"h1b-toggles"}
    [] OTHER               -> {}]

\* The link-wait string is another one since the clean-up.
Link(f) == IF "clean" \in On[f] THEN {"link-active"}
           ELSE IF "dllla" \in On[f] THEN {"link-wait-active"} ELSE {}

Needs == [f \in Flags |-> Always \cup Link(f) \cup UNION {Asks[m] : m \in On[f]}]

(***************************************************************************)
(* What it must not have: the strings of earlier stages, and code that     *)
(* belongs into a test build of another mode.                              *)
(***************************************************************************)
Never == {"i2c-or-bluetooth-tools", "reg-on-test"}

\* A test string, with the mode it belongs to.
TestOnly == {<<"MSIADDR", "msi-diag">>, <<"msi-selftest", "msi-selftest">>, <<"bcm-probe", "bcm-probe">>}

ForeignButDiag(M) ==      \* mutant of Foreign
  {t[1] : t \in {u \in TestOnly : u[2] \notin M /\ u[1] # "MSIADDR"}}

Foreign(M) == {t[1] : t \in {u \in TestOnly : u[2] \notin M}}

Refuses(M) ==
  UNION {IF "dllla" \in M THEN {"link_up-poll"} ELSE {},
         IF "clean" \in M THEN {"stage-prefixes", "link-wait-active"} ELSE {},
         IF "msi" \in M THEN Foreign(M) ELSE {},
         IF "bcm-probe" \in M THEN {"brcmfmac"} ELSE {},
         IF "bcm-probe" \in M /\ "bcm-shadow" \notin M THEN {"bcm-otp-shadow"} ELSE {},
         IF "wifi" \in M THEN {"sysfs-fallback", "wifi-tools", "other-wifi-tools", "brcmfmac-firmware",
                               "bcm-otp-shadow"} ELSE {},
         IF "dma" \in M THEN {"bcm-probe", "msi-selftest"} ELSE {},
         IF "dma-raw" \in M THEN {"iova-rebase"} ELSE {}}

Bars == [f \in Flags |-> Never \cup Refuses(On[f])]

\* The verifier says PASS.
Passes(b, f) == Needs[f] \subseteq b /\ b \cap Bars[f] = {}

Facts == UNION {Needs[f] \cup Bars[f] : f \in Flags}

(***************************************************************************)
(* The builds worth asking about: what a flag needs, with a piece missing, *)
(* with a piece left over, and with the pieces of two flags.               *)
(***************************************************************************)
StageBuilds == {Needs[f] \cup Needs[g] : f, g \in Flags}
                \cup {Needs[f] \cup {x} : f \in Flags, x \in Facts}
                \cup {Needs[f] \ {x} : f \in Flags, x \in Facts}

\* Two flags of which one asks for all the other asks for.
Related(f, g) == f \in On[g] \/ g \in On[f]
=============================================================================
