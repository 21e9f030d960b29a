------------------------------ MODULE Payload -------------------------------
(***************************************************************************)
(* The private payload from the public build to a running tablet: the      *)
(* assembler writes an output directory and verifies it                    *)
(* (boot/assemble_private_wifi_payload.py), a loader sends a file of it to *)
(* PongoOS (boot/load_m1n1.py; boot/load_linux.py sends other images), and *)
(* boot/h1b_run_record.py says whether the tablet runs what a directory    *)
(* describes.  Two operators assemble; either may be killed; files are     *)
(* copied between directories and go bad; a transfer raises, with or       *)
(* without effect, or sends less than it was given.                        *)
(***************************************************************************)
EXTENDS PayloadBuild, Naturals, Sequences, SequencesExt

CONSTANTS Public,        \* the public builds given to the assembler
          Requests,      \* what is asked of it
          Dirs, Operators,
          MaxTokens, MaxDamage, MaxUploads   \* bounds: assemblies, damaged files, uploads

VARIABLES build,     \* the public build
          disk,      \* the files of each output directory
          job,       \* each operator's assembly
          tokens,    \* run tokens drawn
          damage,    \* files copied over or gone bad
          pongo,     \* the upload buffer of PongoOS
          loader,    \* the loading script: the transfers it has left, and what it loads
          tablet,    \* what the tablet runs
          uploads

vars == <<build, disk, job, tokens, damage, pongo, loader, tablet, uploads>>

NoFiles == << >>
Idle    == << >>

-----------------------------------------------------------------------------
(* The parts of a payload.  The overlay is a set of staged files; a file   *)
(* whose content depends on a choice has a name per content.               *)

Firmware == {"brcmfmac4350c2", "nvram", "nvram+macaddr", "brcmfmac-firmware", "hcd"}

\* No public build carries the firmware of the overlay; what it may carry of
\* brcmfmac's is the fact "brcmfmac-firmware".
ASSUME PublicAssumption == \A b \in Public : b \cap Firmware \subseteq {"brcmfmac-firmware"}

\* The public build's userland can bring Wi-Fi up by itself.
HasWifi(b) == {"wifi-tools", "wifi-up"} \subseteq b

NvramStaged(r) == IF r.macaddr THEN "nvram+macaddr" ELSE "nvram"

Staged(r) == {"brcmfmac4350c2", NvramStaged(r)} \cup (IF r.bt THEN {"hcd"} ELSE {})

\* The overlay: firmware, then the userland and the touch firmware.
Overlay(r) == Staged(r)
                \cup (IF r.userland THEN {"wifi-tools", "wifi-up", "udhcpc"} ELSE {})
                \cup (IF r.credentials THEN {"wpa_supplicant.conf"} ELSE {})
                \cup (IF r.touch THEN {"touch-firmware"} ELSE {})

Bootargs(tok) == <<"bootargs", tok>>
Initramfs(r)  == <<"initramfs.gz", Overlay(r)>>

Compose(r, tok) == <<<<"m1n1.bin">>, Bootargs(tok), <<"t7001-j81.dtb">>, <<"Image.gz">>, Initramfs(r)>>

Entries(b, initramfs) == b \cup initramfs[2]

Manifest(b, r, tok) ==
  [run_id |-> tok, payload |-> Compose(r, tok), assets |-> Staged(r), touch |-> r.touch,
   production |-> r.production, userland |-> HasWifi(b) \/ r.userland, credentials |-> r.credentials]

Contents(b, r, tok) ==
  [f \in {"m1n1-linux.bin", "bootargs", "initramfs.gz", "PRIVATE_MANIFEST.json"} |->
     CASE f = "m1n1-linux.bin" -> Compose(r, tok)
       [] f = "bootargs"       -> Bootargs(tok)
       [] f = "initramfs.gz"   -> Initramfs(r)
       [] OTHER                -> Manifest(b, r, tok)]

OrderManifestFirst ==      \* mutant of Order
  <<"PRIVATE_MANIFEST.json", "m1n1-linux.bin", "bootargs", "initramfs.gz">>

Order == <<"m1n1-linux.bin", "bootargs", "initramfs.gz", "PRIVATE_MANIFEST.json">>

(***************************************************************************)
(* What the assembler takes: assets with the recorded hashes, an NVRAM     *)
(* with enough keys and no second macaddr, a touch firmware only where its *)
(* module is, a userland only with credentials and only where the build    *)
(* has none, and boot arguments of the list.                               *)
(***************************************************************************)
AcceptsTouchAnywhere(b, r) ==    \* mutant of Accepts
  /\ "checksums" \in b
  /\ r.assets = "recorded" /\ r.nvram # "short"
  /\ ~(r.macaddr /\ r.nvram = "has-macaddr")
  /\ IF HasWifi(b) THEN ~r.userland ELSE r.userland <=> r.credentials
  /\ r.bootargs = "listed"

Accepts(b, r) ==
  /\ "checksums" \in b
  /\ r.assets = "recorded" /\ r.nvram # "short"
  /\ ~(r.macaddr /\ r.nvram = "has-macaddr")
  /\ r.touch => "apple_z2.ko" \in b
  /\ IF HasWifi(b) THEN ~r.userland ELSE r.userland <=> r.credentials
  /\ r.bootargs = "listed"

(***************************************************************************)
(* verify(): no problem with the files F of a directory.                   *)
(***************************************************************************)
Complete(F) == DOMAIN F = Range(Order)

EmbeddedBootargs(F) == F["bootargs"] \in Range(F["m1n1-linux.bin"])   \* mutant of Embedded

Embedded(F) == /\ F["m1n1-linux.bin"] # << >>
               /\ Last(F["m1n1-linux.bin"]) = F["initramfs.gz"]
               /\ F["bootargs"] \in Range(F["m1n1-linux.bin"])

FirmwareMatches(M, E) == /\ M.assets \subseteq E
                         /\ E \cap Firmware \subseteq M.assets
                         /\ M.touch => {"touch-firmware", "apple_z2.ko"} \subseteq E

UserlandMatches(M, E) ==
  IF M.userland
  THEN /\ {"wifi-tools", "wifi-up", "udhcpc"} \subseteq E /\ "other-wifi-tools" \notin E
       /\ M.credentials => "wpa_supplicant.conf" \in E
  ELSE E \cap {"wifi-tools", "other-wifi-tools"} = {}

Verified(b, F) ==
  LET M == F["PRIVATE_MANIFEST.json"]
      E == Entries(b, F["initramfs.gz"])
  IN /\ Complete(F)
     /\ F["m1n1-linux.bin"] = M.payload
     /\ Embedded(F)
     /\ F["bootargs"] = Bootargs(M.run_id)
     /\ "brcmfmac.debug" \in b \/ M.production
     /\ FirmwareMatches(M, E)
     /\ UserlandMatches(M, E)
     /\ "ecm.usb0" \in E

-----------------------------------------------------------------------------
(* The transfers of a loader: discard and announce are bRequests 2 and 1,  *)
(* write is the bulk endpoint, the others are commands of PongoOS.         *)

SendOnTop(what) == <<<<"announce">>, <<"write", what>>>>                 \* mutant of Send

Send(what) == <<<<"discard">>, <<"announce">>, <<"write", what>>>>

load_m1n1(payload) == Send(payload) \o <<<<"bootm">>>>

\* The last transfer boots (bootl, linux_t7001) or only checks (linux_diag).
Image(name) == <<<<name>>>>
load_linux(last) == Send(Image("initrd")) \o <<<<"ramdisk">>>> \o Send(Image("dtbpack")) \o <<<<"fdt">>>>
                      \o Send(Image("kernel")) \o <<<<last>>>>

\* load_m1n1 compares what write() returns with the length, load_linux does not.
Checked(l) == l.script = "load_m1n1"

Started(b) == Len(b) >= 4    \* a payload whose kernel is whole comes up

Pongo  == [runs |-> "PongoOS"]
Booted == [runs |-> "something-else"]     \* Linux by another way, or nothing that answers

\* A build of StageBuilds is only looked at.
Init ==
  /\ build \in Public \cup StageBuilds
  /\ uploads = IF build \in Public THEN 0 ELSE MaxUploads
  /\ disk = [d \in Dirs |-> NoFiles]
  /\ job = [o \in Operators |-> Idle]
  /\ tokens = 0 /\ damage = 0
  /\ pongo = << >> /\ loader = Idle /\ tablet = Pongo

-----------------------------------------------------------------------------
(* Assembling.                                                             *)

\* A transfer neither reads nor changes a directory, so the steps of the two
\* commute: the model has a script that loads go on before anybody writes.
Quiet == loader = Idle

files == <<disk, job, tokens>>
run   == <<pongo, loader, tablet, uploads>>

\* assemble() up to its first write: the directory is not there or empty.
Assemble(o, d, r) ==
  /\ Quiet /\ build \in Public
  /\ job[o] = Idle /\ disk[d] = NoFiles
  /\ tokens < MaxTokens
  /\ Accepts(build, r)
  /\ tokens' = tokens + 1
  /\ job' = [job EXCEPT ![o] = [dir |-> d, todo |-> Order, files |-> Contents(build, r, tokens')]]
  /\ UNCHANGED <<build, disk, damage, run>>

\* An assembly, or a script that loads, has done the first thing of its list.
Rest(l) == IF Len(l.todo) = 1 THEN Idle ELSE [l EXCEPT !.todo = Tail(@)]

Put(F, f, content) == [g \in DOMAIN F \cup {f} |-> IF g = f THEN content ELSE F[g]]

\* write_private(): O_EXCL, so a file that exists ends the assembly.  Whole at
\* once: somebody who reads a file while it is being written is left out.
Write(o, f) ==
  IF f \in DOMAIN disk[job[o].dir]
  THEN job' = [job EXCEPT ![o] = Idle] /\ UNCHANGED disk
  ELSE /\ disk' = [disk EXCEPT ![job[o].dir] = Put(@, f, job[o].files[f])]
       /\ job' = [job EXCEPT ![o] = Rest(@)]

WriteNext(o) ==
  /\ Quiet /\ job[o] # Idle
  /\ Write(o, Head(job[o].todo))
  /\ UNCHANGED <<build, tokens, damage, run>>

\* The assembler is killed, or the disk is full: between two files, or in
\* the payload.  (A torn manifest is as good as none: reading it raises.)
Killed(o) ==
  /\ Quiet /\ job[o] # Idle
  /\ job' = [job EXCEPT ![o] = Idle]
  /\ \/ UNCHANGED disk
     \/ LET d == job[o].dir
            f == Head(job[o].todo)
        IN /\ f = "m1n1-linux.bin" /\ f \notin DOMAIN disk[d]
           /\ disk' = [disk EXCEPT ![d] = Put(@, f, Front(job[o].files[f]))]
  /\ UNCHANGED <<build, tokens, damage, run>>

\* A file is taken from another directory, or the kernel in a payload rots.
Damaged ==
  /\ Quiet /\ damage < MaxDamage /\ damage' = damage + 1
  /\ \/ \E d, e \in Dirs : \E f \in DOMAIN disk[d] \cap DOMAIN disk[e] :
          disk[d][f] # disk[e][f] /\ disk' = [disk EXCEPT ![d] = Put(@, f, disk[e][f])]
     \/ \E d \in Dirs :
          /\ "m1n1-linux.bin" \in DOMAIN disk[d] /\ Len(disk[d]["m1n1-linux.bin"]) = 5
          /\ disk' = [disk EXCEPT ![d]["m1n1-linux.bin"][4] = <<"rotten">>]
  /\ UNCHANGED <<build, job, tokens, run>>

-----------------------------------------------------------------------------
(* Loading.                                                                *)

\* The script reads the whole file before it looks for the device.
Load(script, transfers, asked, sound) ==
  /\ loader = Idle /\ tablet = Pongo
  /\ uploads < MaxUploads /\ uploads' = uploads + 1
  /\ loader' = [script |-> script, todo |-> transfers, asked |-> asked, sound |-> sound]
  /\ UNCHANGED <<build, files, damage, pongo, tablet>>

LoadM1n1(d) ==
  /\ "m1n1-linux.bin" \in DOMAIN disk[d]
  /\ LET payload == disk[d]["m1n1-linux.bin"]
     IN Load("load_m1n1", load_m1n1(payload), payload, Verified(build, disk[d]))

LoadLinux == \E last \in {"bootl", "linux_diag"} :
               Load("load_linux", load_linux(last), Image("kernel"), FALSE)

Next1(l) == Head(l.todo)

\* What PongoOS and the tablet make of a transfer; n parts of a write arrive.
Effect(t, n) ==
  CASE t[1] = "discard" -> pongo' = << >> /\ UNCHANGED tablet
    [] t[1] = "write"   -> pongo' = pongo \o SubSeq(t[2], 1, n) /\ UNCHANGED tablet
    [] t[1] = "bootm"   -> /\ pongo' = << >>
                           /\ tablet' = IF Started(pongo)
                                        THEN [runs |-> "m1n1", ran |-> pongo, asked |-> loader.asked, sound |-> loader.sound]
                                        ELSE Booted
    [] t[1] = "bootl"   -> pongo' = << >> /\ tablet' = Booted
    [] OTHER            -> UNCHANGED <<pongo, tablet>>

\* How much of a transfer can arrive: nothing, all but the last part, all.
Whole(t) == IF t[1] = "write" THEN Len(t[2]) ELSE 0
Arriving(t) == {n \in {0, Whole(t) - 1, Whole(t)} : n >= 0}

Transfer ==
  /\ loader # Idle
  /\ Effect(Next1(loader), Whole(Next1(loader)))
  /\ loader' = Rest(loader)
  /\ UNCHANGED <<build, files, damage, uploads>>

\* The transfer raises: the script ends, and the device may have acted.
Raises ==
  /\ loader # Idle
  /\ \/ UNCHANGED <<pongo, tablet>>
     \/ \E n \in Arriving(Next1(loader)) : Effect(Next1(loader), n)
  /\ loader' = Idle
  /\ UNCHANGED <<build, files, damage, uploads>>

\* A write returns after a part.
Short ==
  /\ loader # Idle /\ Next1(loader)[1] = "write"
  /\ \E n \in Arriving(Next1(loader)) \ {Whole(Next1(loader))} : Effect(Next1(loader), n)
  /\ loader' = IF Checked(loader) THEN Idle ELSE Rest(loader)
  /\ UNCHANGED <<build, files, damage, uploads>>

\* The operator puts the tablet into PongoOS again.
Restart ==
  /\ tablet' = Pongo /\ pongo' = << >> /\ loader' = Idle
  /\ UNCHANGED <<build, files, damage, uploads>>

\* h1b_run_record.record() for directory d: "device_token_observed".
Observed(d) ==
  /\ tablet.runs = "m1n1" /\ "PRIVATE_MANIFEST.json" \in DOMAIN disk[d]
  /\ tablet.ran[2] = Bootargs(disk[d]["PRIVATE_MANIFEST.json"].run_id)

Next ==
  \/ \E o \in Operators :
       \/ \E d \in Dirs, r \in Requests : Assemble(o, d, r)
       \/ WriteNext(o)
       \/ Killed(o)
  \/ Damaged
  \/ \E d \in Dirs : LoadM1n1(d)
  \/ LoadLinux
  \/ Transfer
  \/ Raises
  \/ Short
  \/ Restart

Spec == Init /\ [][Next]_vars

-----------------------------------------------------------------------------
(* Properties.                                                             *)

\* A public build passes for at most one stage: two flags under which it
\* passes are one and the same build seen with more and with less care.
OneStage ==
  tokens = 0 =>      \* the build never changes: once is enough
    \A f, g \in {h \in Flags : Passes(build, h)} : Related(f, g)

\* PASS of --verify: the four files are those of one assembly, the one the
\* manifest describes, although writers were killed or met in a directory,
\* files were copied over from another, or the payload's kernel went bad.
\* (The file bootargs has no hash of its own: one cut short to a piece of the
\* payload that still has the token passes, and is not among the damages.)
PassIsWhole ==
  \A d \in Dirs : LET F == disk[d] IN
    Complete(F) /\ Verified(build, F) =>
      LET M == F["PRIVATE_MANIFEST.json"]
      IN \E r \in Requests :
           /\ Accepts(build, r)
           /\ F = Contents(build, r, M.run_id)

\* What is assembled from a build that passes as a Wi-Fi base verifies,
\* so "FAIL after assembly" never comes of what the operator asked for.
\* (A build with the Wi-Fi userland passes no Wi-Fi flag: not among these.)
AssembledVerifies ==
  (damage = 0 /\ \E f \in {"wifi-h1b-base", "wifi-h1b-base-raw"} : Passes(build, f)) =>
    \A d \in Dirs : Complete(disk[d]) => Verified(build, disk[d])

\* bootm is only asked for with exactly the file in the buffer, over uploads
\* that failed half way, were short, or followed others in one session.
BootsWhole == tablet.runs = "m1n1" => tablet.ran = tablet.asked

\* "device_token_observed" for a directory: the tablet runs the payload its
\* manifest hashes, to the last file of the overlay, provided no file was
\* damaged or the directory verified when it was loaded.
Identity ==
  \A d \in Dirs : Observed(d) /\ (damage = 0 \/ tablet.sound) =>
    tablet.ran = disk[d]["PRIVATE_MANIFEST.json"].payload
=============================================================================
