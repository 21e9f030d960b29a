--------------------------- MODULE PayloadProofs ----------------------------
(***************************************************************************)
(* The properties of Payload for every set of public builds, requests,     *)
(* directories and operators, and every bound.  OneStage is a fact about   *)
(* the verifier's tables alone.  The others rest on one invariant: every   *)
(* file, every buffer and every running payload comes of one assembly,     *)
(* and which assembly a run token stands for never changes.                *)
(***************************************************************************)
EXTENDS Payload, SequenceTheorems, TLAPS

-----------------------------------------------------------------------------
(* The stages.                                                             *)

ToMsi == {"none", "dllla", "clean", "doorbell", "msi"}

\* On, mode by mode.
Table == [f \in Modes |->
  CASE f = "none"              -> {"none"}
    [] f = "dllla"             -> {"none", "dllla"}
    [] f = "clean"             -> {"none", "dllla", "clean"}
    [] f = "doorbell"          -> ToMsi \ {"msi"}
    [] f = "wifi"              -> {"wifi"}
    [] f = "bcm-shadow"        -> ToMsi \cup {"bcm-probe", "bcm-shadow"}
    [] f = "dma-rebase"        -> ToMsi \cup {"dma", "dma-rebase"}
    [] f = "dma-raw"           -> ToMsi \cup {"dma", "dma-raw"}
    [] f = "wifi-h1b-base"     -> ToMsi \cup {"dma", "dma-rebase", "wifi", "wifi-h1b-base"}
    [] f = "wifi-h1b-base-raw" -> ToMsi \cup {"dma", "dma-raw", "wifi", "wifi-h1b-base-raw"}
    [] OTHER                   -> ToMsi \cup {f}]

Below(f) == {n \in Modes : <<f, n>> \in Brings}

LEMMA UnionOfOne == ASSUME NEW T, NEW x PROVE UNION {T[m] : m \in {x}} = T[x]
  OBVIOUS

LEMMA UnionOfTwo == ASSUME NEW T, NEW x, NEW y PROVE UNION {T[m] : m \in {x, y}} = T[x] \cup T[y]
  OBVIOUS

LEMMA BelowIs ==
  /\ Below("none") = {}
  /\ Below("wifi") = {}
  /\ Below("dllla") = {"none"}
  /\ Below("clean") = {"dllla"}
  /\ Below("doorbell") = {"clean"}
  /\ Below("msi") = {"doorbell"}
  /\ Below("msi-selftest") = {"msi"}
  /\ Below("msi-diag") = {"msi"}
  /\ Below("bcm-probe") = {"msi"}
  /\ Below("dma") = {"msi"}
  /\ Below("bcm-shadow") = {"bcm-probe"}
  /\ Below("dma-rebase") = {"dma"}
  /\ Below("dma-raw") = {"dma"}
  /\ Below("wifi-h1b-base") = {"dma-rebase", "wifi"}
  /\ Below("wifi-h1b-base-raw") = {"dma-raw", "wifi"}
  BY DEF Below, Brings, Modes, Flags

LEMMA TableFits == \A f \in Modes : Table[f] = {f} \cup UNION {Table[m] : m \in Below(f)}
  <1>1. Table["none"] = {"none"} BY DEF Table, Modes, Flags
  <1>2. Table["wifi"] = {"wifi"} BY DEF Table, Modes, Flags
  <1>3. Table["dllla"] = {"dllla"} \cup Table["none"] BY DEF Table, Modes, Flags, ToMsi
  <1>4. Table["clean"] = {"clean"} \cup Table["dllla"] BY DEF Table, Modes, Flags, ToMsi
  <1>5. Table["doorbell"] = {"doorbell"} \cup Table["clean"] BY DEF Table, Modes, Flags, ToMsi
  <1>6. Table["msi"] = {"msi"} \cup Table["doorbell"] BY DEF Table, Modes, Flags, ToMsi
  <1>7. Table["msi-selftest"] = {"msi-selftest"} \cup Table["msi"] BY DEF Table, Modes, Flags, ToMsi
  <1>8. Table["msi-diag"] = {"msi-diag"} \cup Table["msi"] BY DEF Table, Modes, Flags, ToMsi
  <1>9. Table["bcm-probe"] = {"bcm-probe"} \cup Table["msi"] BY DEF Table, Modes, Flags, ToMsi
  <1>10. Table["dma"] = {"dma"} \cup Table["msi"] BY DEF Table, Modes, Flags, ToMsi
  <1>11. Table["bcm-shadow"] = {"bcm-shadow"} \cup Table["bcm-probe"] BY DEF Table, Modes, Flags, ToMsi
  <1>12. Table["dma-rebase"] = {"dma-rebase"} \cup Table["dma"] BY DEF Table, Modes, Flags, ToMsi
  <1>13. Table["dma-raw"] = {"dma-raw"} \cup Table["dma"] BY DEF Table, Modes, Flags, ToMsi
  <1>14. Table["wifi-h1b-base"] = {"wifi-h1b-base"} \cup (Table["dma-rebase"] \cup Table["wifi"])
    BY DEF Table, Modes, Flags, ToMsi
  <1>15. Table["wifi-h1b-base-raw"] = {"wifi-h1b-base-raw"} \cup (Table["dma-raw"] \cup Table["wifi"])
    BY DEF Table, Modes, Flags, ToMsi
  <1> QED BY <1>1, <1>2, <1>3, <1>4, <1>5, <1>6, <1>7, <1>8, <1>9, <1>10, <1>11, <1>12, <1>13,
         <1>14, <1>15, BelowIs, UnionOfOne, UnionOfTwo DEF Modes, Flags

LEMMA OnUnfolds == \A f \in Modes : On[f] = {f} \cup UNION {On[m] : m \in Below(f)}
  <1> DEFINE Fits(g) == g = [f \in Modes |-> {f} \cup UNION {g[m] : m \in {n \in Modes : <<f, n>> \in Brings}}]
  <1>1. Fits(Table)
    <2>1. \A f \in Modes : Table[f] = {f} \cup UNION {Table[m] : m \in {n \in Modes : <<f, n>> \in Brings}}
      BY TableFits DEF Below
    <2>2. Table = [f \in Modes |-> Table[f]] BY DEF Table
    <2> QED BY <2>1, <2>2
  <1>2. On = CHOOSE g : Fits(g) BY DEF On
  <1> HIDE DEF Fits
  <1>3. Fits(On) BY <1>1, <1>2
  <1> QED BY <1>3 DEF Fits, Below

LEMMA StepUp ==
  ASSUME NEW f \in Modes, \A m \in Below(f) : On[m] = Table[m]
  PROVE  On[f] = Table[f]
  <1>1. {On[m] : m \in Below(f)} = {Table[m] : m \in Below(f)} OBVIOUS
  <1> QED BY <1>1, OnUnfolds, TableFits

LEMMA OnIsTable == \A f \in Modes : On[f] = Table[f]
  <1>1. On["none"] = Table["none"] BY StepUp, BelowIs DEF Modes, Flags
  <1>2. On["wifi"] = Table["wifi"] BY StepUp, BelowIs DEF Modes, Flags
  <1>3. On["dllla"] = Table["dllla"] BY <1>1, StepUp, BelowIs DEF Modes, Flags
  <1>4. On["clean"] = Table["clean"] BY <1>3, StepUp, BelowIs DEF Modes, Flags
  <1>5. On["doorbell"] = Table["doorbell"] BY <1>4, StepUp, BelowIs DEF Modes, Flags
  <1>6. On["msi"] = Table["msi"] BY <1>5, StepUp, BelowIs DEF Modes, Flags
  <1>7. On["msi-selftest"] = Table["msi-selftest"] BY <1>6, StepUp, BelowIs DEF Modes, Flags
  <1>8. On["msi-diag"] = Table["msi-diag"] BY <1>6, StepUp, BelowIs DEF Modes, Flags
  <1>9. On["bcm-probe"] = Table["bcm-probe"] BY <1>6, StepUp, BelowIs DEF Modes, Flags
  <1>10. On["dma"] = Table["dma"] BY <1>6, StepUp, BelowIs DEF Modes, Flags
  <1>11. On["bcm-shadow"] = Table["bcm-shadow"] BY <1>9, StepUp, BelowIs DEF Modes, Flags
  <1>12. On["dma-rebase"] = Table["dma-rebase"] BY <1>10, StepUp, BelowIs DEF Modes, Flags
  <1>13. On["dma-raw"] = Table["dma-raw"] BY <1>10, StepUp, BelowIs DEF Modes, Flags
  <1>14. On["wifi-h1b-base"] = Table["wifi-h1b-base"] BY <1>12, <1>2, StepUp, BelowIs DEF Modes, Flags
  <1>15. On["wifi-h1b-base-raw"] = Table["wifi-h1b-base-raw"] BY <1>13, <1>2, StepUp, BelowIs DEF Modes, Flags
  <1> QED BY <1>1, <1>2, <1>3, <1>4, <1>5, <1>6, <1>7, <1>8, <1>9, <1>10, <1>11, <1>12, <1>13,
         <1>14, <1>15 DEF Modes, Flags


(***************************************************************************)
(* Every stage after msi has a mark: a string that this stage needs and    *)
(* that every stage unrelated to it bars.                                  *)
(***************************************************************************)
Stages == Flags \ ToMsi

LEMMA NeededOf ==
  ASSUME NEW f \in Flags, NEW m \in On[f]
  PROVE  Asks[m] \subseteq Needs[f]
  BY DEF Needs

LEMMA AsksIs ==
  /\ Asks["msi-selftest"] = {"msi-selftest"} /\ Asks["msi-diag"] = {"MSIADDR"}
  /\ Asks["bcm-probe"] = {"bcm-probe"}       /\ Asks["dma-rebase"] = {"iova-rebase"}
  <1> USE DEF Asks, Modes, Flags
  <1>1. Asks["msi-selftest"] = {"msi-selftest"} OBVIOUS
  <1>2. Asks["msi-diag"] = {"MSIADDR"} OBVIOUS
  <1>3. Asks["bcm-probe"] = {"bcm-probe"} OBVIOUS
  <1>4. Asks["dma-rebase"] = {"iova-rebase"} OBVIOUS
  <1> QED BY <1>1, <1>2, <1>3, <1>4

LEMMA ToMsiOf == \A f \in Stages : "msi" \in On[f] /\ ToMsi \subseteq On[f] /\ f \in On[f]
  BY OnIsTable DEF Table, Stages, Modes, Flags, ToMsi

\* The strings of the test builds.
LEMMA TestMark ==
  ASSUME NEW b, NEW f \in Stages, Passes(b, f), NEW t \in TestOnly
  PROVE  t[1] \in b <=> t[2] \in On[f]
  <1> USE DEF Stages
  <1>1. "msi" \in On[f] BY ToMsiOf
  <1>2. CASE t[2] \in On[f]
    <2>1. Asks[t[2]] = {t[1]} BY AsksIs DEF TestOnly
    <2> QED BY <1>2, <2>1, NeededOf DEF Passes
  <1>3. CASE t[2] \notin On[f]
    <2>1. t[1] \in Foreign(On[f]) BY <1>3 DEF Foreign
    <2>2. Foreign(On[f]) \subseteq Refuses(On[f]) BY <1>1 DEF Refuses
    <2>3. t[1] \in Bars[f] BY <2>1, <2>2 DEF Bars
    <2> QED BY <1>3, <2>3 DEF Passes
  <1> QED BY <1>2, <1>3

\* The two ways of the DMA.
LEMMA DmaMark ==
  ASSUME NEW b, NEW f \in Flags, Passes(b, f)
  PROVE  /\ "dma-rebase" \in On[f] => "iova-rebase" \in b
         /\ "dma-raw" \in On[f] => "iova-rebase" \notin b
  <1>1. ASSUME "dma-rebase" \in On[f] PROVE "iova-rebase" \in b
    BY <1>1, NeededOf, AsksIs DEF Passes
  <1>2. ASSUME "dma-raw" \in On[f] PROVE "iova-rebase" \in Bars[f]
    BY <1>2 DEF Bars, Refuses
  <1> QED BY <1>1, <1>2 DEF Passes

LEMMA OnePublicStage ==
  ASSUME NEW b, NEW f \in Flags, NEW g \in Flags, Passes(b, f), Passes(b, g)
  PROVE  Related(f, g)
  <1>1. CASE f \in ToMsi \/ g \in ToMsi
    BY <1>1, OnIsTable DEF Table, Related, ToMsi, Modes, Flags
  <1>2. CASE f \in Stages /\ g \in Stages
    <2>1. \A t \in TestOnly : t[2] \in On[f] <=> t[2] \in On[g] BY <1>2, TestMark
    <2>2. /\ "msi-selftest" \in On[f] <=> "msi-selftest" \in On[g]
          /\ "msi-diag" \in On[f] <=> "msi-diag" \in On[g]
          /\ "bcm-probe" \in On[f] <=> "bcm-probe" \in On[g]
      BY <2>1 DEF TestOnly
    <2>3. /\ ~("dma-rebase" \in On[f] /\ "dma-raw" \in On[g])
          /\ ~("dma-rebase" \in On[g] /\ "dma-raw" \in On[f])
      BY DmaMark
    <2> QED BY <1>2, <2>2, <2>3, OnIsTable DEF Table, Related, Stages, ToMsi, Modes, Flags
  <1> QED BY <1>1, <1>2 DEF Stages

\* A public build passes for at most one stage, whatever it is made of
\* (boot/verify_pcie_j81_reg_on_payload.py, main).
THEOREM OneStageHolds == Spec => []OneStage
  <1>1. OneStage BY OnePublicStage DEF OneStage
  <1> QED BY <1>1, PTL

-----------------------------------------------------------------------------
(* The parts of a payload and the files of a directory.                    *)

Files == {"m1n1-linux.bin", "bootargs", "initramfs.gz", "PRIVATE_MANIFEST.json"}

Pieces == {<<"m1n1.bin">>, <<"t7001-j81.dtb">>, <<"Image.gz">>, <<"rotten">>}
            \cup {Bootargs(n) : n \in Nat} \cup {Initramfs(r) : r \in Requests}

LEMMA ComposeParts ==
  ASSUME NEW r \in Requests, NEW n \in Nat
  PROVE  /\ Compose(r, n) \in Seq(Pieces) /\ Len(Compose(r, n)) = 5
         /\ Compose(r, n)[2] = Bootargs(n) /\ Last(Compose(r, n)) = Initramfs(r)
         /\ Compose(r, n) # << >> /\ Bootargs(n) \in Range(Compose(r, n))
  <1> USE DEF Compose
  <1>1. Compose(r, n) \in Seq(Pieces) BY DEF Pieces
  <1>2. Len(Compose(r, n)) = 5 /\ Compose(r, n)[2] = Bootargs(n) /\ Compose(r, n)[5] = Initramfs(r)
    OBVIOUS
  <1>3. 2 \in DOMAIN Compose(r, n) OBVIOUS
  <1> QED BY <1>1, <1>2, <1>3 DEF Last, Range

LEMMA FrontParts ==
  ASSUME NEW p \in Seq(Pieces), Len(p) = 5
  PROVE  Front(p) \in Seq(Pieces) /\ Len(Front(p)) = 4 /\ Front(p)[2] = p[2]
  BY SubSeqProperties DEF Front

LEMMA OrderFacts ==
  /\ Range(Order) = Files
  /\ Order \in Seq(Files) /\ Len(Order) = 4
  /\ Order[1] = "m1n1-linux.bin" /\ Order[2] = "bootargs"
  /\ Order[3] = "initramfs.gz"   /\ Order[4] = "PRIVATE_MANIFEST.json"
  <1>1. Order \in Seq(Files) /\ Len(Order) = 4 BY DEF Order, Files
  <1>2. /\ Order[1] = "m1n1-linux.bin" /\ Order[2] = "bootargs"
        /\ Order[3] = "initramfs.gz"   /\ Order[4] = "PRIVATE_MANIFEST.json"
    BY DEF Order
  <1>3. Range(Order) = {Order[i] : i \in 1..4} BY <1>1 DEF Range
  <1>4. 1..4 = {1, 2, 3, 4} OBVIOUS
  <1>5. Range(Order) = Files BY <1>2, <1>3, <1>4 DEF Files
  <1> QED BY <1>1, <1>2, <1>5

\* What is left to write from file k on.
ToDo(k) == SubSeq(Order, k, 4)

LEMMA ToDoFacts ==
  ASSUME NEW k \in 1..4
  PROVE  /\ Head(ToDo(k)) = Order[k] /\ Len(ToDo(k)) = 5 - k
         /\ k < 4 => Tail(ToDo(k)) = ToDo(k + 1)
         /\ ToDo(1) = Order
  BY OrderFacts, SubSeqProperties, HeadTailOfSubSeq, SubSeqFull DEF ToDo

LEMMA ContentsFacts ==
  ASSUME NEW b, NEW r, NEW n
  PROVE  /\ DOMAIN Contents(b, r, n) = Files
         /\ Contents(b, r, n)["m1n1-linux.bin"] = Compose(r, n)
         /\ Contents(b, r, n)["bootargs"] = Bootargs(n)
         /\ Contents(b, r, n)["initramfs.gz"] = Initramfs(r)
         /\ Contents(b, r, n)["PRIVATE_MANIFEST.json"] = Manifest(b, r, n)
  BY DEF Contents, Files

LEMMA ManifestFacts ==
  ASSUME NEW b, NEW r, NEW n
  PROVE  /\ Manifest(b, r, n).run_id = n
         /\ Manifest(b, r, n).payload = Compose(r, n)
  BY DEF Manifest

LEMMA BootargsOnce == ASSUME NEW m, NEW n, Bootargs(m) = Bootargs(n) PROVE m = n
  BY DEF Bootargs

LEMMA NothingThere == DOMAIN NoFiles = {}
  BY DEF NoFiles

LEMMA PutIsFunction ==
  ASSUME NEW F, NEW f, NEW c
  PROVE  Put(F, f, c) = [g \in DOMAIN Put(F, f, c) |-> Put(F, f, c)[g]]
  BY DEF Put

-----------------------------------------------------------------------------
(* The invariant.  An account of the run names the request behind each run *)
(* token and the tokens whose payload was torn while it was written.       *)

Granted == {r \in Requests : Accepts(build, r)}

Whose(w, n) == Contents(build, w[n], n)

\* The first k files of assembly n, and what is left of its payload if it is
\* torn.
Part(w, n, k) == [f \in {Order[j] : j \in 1..k} |-> Whose(w, n)[f]]
Torn(w, n)    == Put(NoFiles, "m1n1-linux.bin", Front(Compose(w[n], n)))

\* Whatever was damaged: a manifest is always one that was written for its
\* token.
Stored(w) ==
  \A d \in Dirs :
    /\ DOMAIN disk[d] \subseteq Files
    /\ disk[d] = [f \in DOMAIN disk[d] |-> disk[d][f]]
    /\ "m1n1-linux.bin" \in DOMAIN disk[d] => disk[d]["m1n1-linux.bin"] \in Seq(Pieces)
    /\ "PRIVATE_MANIFEST.json" \in DOMAIN disk[d] =>
         \E n \in 1..tokens : disk[d]["PRIVATE_MANIFEST.json"] = Manifest(build, w[n], n)

\* Before any damage: a directory holds a part of one assembly.
Untouched(w, cut) ==
  damage = 0 =>
    \A d \in Dirs :
      \/ disk[d] = NoFiles
      \/ \E n \in (1..tokens) \ cut, k \in 1..4 : disk[d] = Part(w, n, k)
      \/ \E n \in cut : disk[d] = Torn(w, n)

\* No directory holds a payload of assembly n.
Unwritten(n) ==
  \A d \in Dirs : "m1n1-linux.bin" \in DOMAIN disk[d] => disk[d]["m1n1-linux.bin"][2] # Bootargs(n)

\* An operator's assembly has a token of its own, and what it has written so
\* far is all there is in its directory.
Work(w, n, k, d) == [dir |-> d, todo |-> ToDo(k), files |-> Whose(w, n)]

Working(w, cut, o) ==
  \E n \in (1..tokens) \ cut, k \in 1..4, d \in Dirs :
    /\ job[o] = Work(w, n, k, d)
    /\ damage = 0 => IF k = 1 THEN Unwritten(n) ELSE disk[d] = Part(w, n, k - 1)

Jobs(w, cut) ==
  /\ \A o \in Operators : job[o] = Idle \/ Working(w, cut, o)
  /\ \A o, p \in Operators :
       o # p /\ job[o] # Idle /\ job[p] # Idle => job[o].files["bootargs"] # job[p].files["bootargs"]

\* What a file that was read to be loaded can be.
Genuine(w, cut, p, sound) ==
  /\ p \in Seq(Pieces)
  /\ sound => \E n \in 1..tokens : p = Compose(w[n], n)
  /\ damage = 0 => \/ \E n \in 1..tokens : p = Compose(w[n], n)
                   \/ \E n \in cut : p = Front(Compose(w[n], n))

Left(p, i) == SubSeq(load_m1n1(p), i, 4)

LinuxTransfers == {<<"discard">>, <<"announce">>, <<"ramdisk">>, <<"fdt">>, <<"bootl">>, <<"linux_diag">>}
                    \cup {<<"write", Image(name)>> : name \in {"initrd", "dtbpack", "kernel"}}

LoadingM1n1(w, cut) ==
  /\ loader.script = "load_m1n1"
  /\ Genuine(w, cut, loader.asked, loader.sound)
  /\ \E i \in 1..4 : /\ loader.todo = Left(loader.asked, i)
                     /\ i \in {2, 3} => pongo = << >>
                     /\ i = 4 => pongo = loader.asked

LoadingLinux ==
  /\ loader.script = "load_linux"
  /\ loader.todo \in Seq(LinuxTransfers) /\ loader.todo # << >>

Loading(w, cut) ==
  loader = Idle \/
    /\ loader = [script |-> loader.script, todo |-> loader.todo, asked |-> loader.asked, sound |-> loader.sound]
    /\ LoadingM1n1(w, cut) \/ LoadingLinux

Running(w, cut) ==
  tablet.runs = "m1n1" =>
    /\ tablet.ran = tablet.asked
    /\ Genuine(w, cut, tablet.asked, tablet.sound)

Numbers ==
  /\ tokens \in Nat /\ damage \in Nat
  /\ tokens > 0 => build \in Public
  /\ DOMAIN disk = Dirs /\ DOMAIN job = Operators

Account(w, cut) ==
  /\ Numbers
  /\ Stored(w) /\ Untouched(w, cut) /\ Jobs(w, cut)
  /\ Loading(w, cut) /\ Running(w, cut)

IInv == \E w \in [1..tokens -> Granted], cut \in SUBSET (1..tokens) : Account(w, cut)

-----------------------------------------------------------------------------
(* What the parts look like.                                               *)

LEMMA PartFacts ==
  ASSUME NEW w \in [1..tokens -> Granted], NEW n \in 1..tokens, NEW k \in 1..4, tokens \in Nat
  PROVE  /\ "m1n1-linux.bin" \in DOMAIN Part(w, n, k)
         /\ Part(w, n, k)["m1n1-linux.bin"] = Compose(w[n], n)
         /\ Part(w, n, k)["m1n1-linux.bin"][2] = Bootargs(n)
         /\ Order[k] \notin DOMAIN Part(w, n, k - 1)
         /\ Part(w, n, 4) = Whose(w, n)
         /\ DOMAIN Part(w, n, k) = Files => k = 4
  <1>1. w[n] \in Requests /\ n \in Nat BY DEF Granted
  <1>2. DOMAIN Part(w, n, k) = {Order[j] : j \in 1..k} BY DEF Part
  <1>3. DOMAIN Part(w, n, k - 1) = {Order[j] : j \in 1..(k - 1)} BY DEF Part
  <1>4. Order[1] \in DOMAIN Part(w, n, k) BY <1>2
  <1>5. Part(w, n, k)["m1n1-linux.bin"] = Compose(w[n], n)
    BY <1>4, OrderFacts, ContentsFacts DEF Part, Whose
  <1>6. {Order[j] : j \in 1..4} = Files BY OrderFacts DEF Range
  <1>7. Part(w, n, 4) = Whose(w, n)
    BY <1>6, ContentsFacts DEF Part, Whose, Contents, Files
  <1>8. Order[k] \notin DOMAIN Part(w, n, k - 1) BY <1>3, OrderFacts
  <1>9. k # 4 => "PRIVATE_MANIFEST.json" \notin DOMAIN Part(w, n, k) BY <1>2, OrderFacts
  <1> QED BY <1>1, <1>4, <1>5, <1>7, <1>8, <1>9, OrderFacts, ComposeParts DEF Files

LEMMA PartGrows ==
  ASSUME NEW w \in [1..tokens -> Granted], NEW n \in 1..tokens, NEW k \in 1..4, tokens \in Nat
  PROVE  /\ k > 1 => Put(Part(w, n, k - 1), Order[k], Whose(w, n)[Order[k]]) = Part(w, n, k)
         /\ Put(NoFiles, Order[1], Whose(w, n)[Order[1]]) = Part(w, n, 1)
  <1>1. ASSUME k > 1
        PROVE Put(Part(w, n, k - 1), Order[k], Whose(w, n)[Order[k]]) = Part(w, n, k)
    <2>1. {Order[j] : j \in 1..k} = {Order[j] : j \in 1..(k - 1)} \cup {Order[k]} BY <1>1
    <2> QED BY <2>1 DEF Put, Part
  <1>2. Put(NoFiles, Order[1], Whose(w, n)[Order[1]]) = Part(w, n, 1)
    <2>1. {Order[j] : j \in 1..1} = DOMAIN NoFiles \cup {Order[1]} BY NothingThere
    <2> QED BY <2>1, NothingThere DEF Put, Part
  <1> QED BY <1>1, <1>2

LEMMA TornFacts ==
  ASSUME NEW w \in [1..tokens -> Granted], NEW n \in 1..tokens, tokens \in Nat
  PROVE  /\ DOMAIN Torn(w, n) = {"m1n1-linux.bin"}
         /\ Torn(w, n)["m1n1-linux.bin"] = Front(Compose(w[n], n))
         /\ Front(Compose(w[n], n)) \in Seq(Pieces)
         /\ Torn(w, n)["m1n1-linux.bin"][2] = Bootargs(n)
  <1>1. w[n] \in Requests /\ n \in Nat BY DEF Granted
  <1>2. Front(Compose(w[n], n)) \in Seq(Pieces) /\ Front(Compose(w[n], n))[2] = Bootargs(n)
    BY <1>1, ComposeParts, FrontParts
  <1>3. DOMAIN Torn(w, n) = {"m1n1-linux.bin"} BY NothingThere DEF Torn, Put
  <1>4. Torn(w, n)["m1n1-linux.bin"] = Front(Compose(w[n], n)) BY NothingThere DEF Torn, Put
  <1> QED BY <1>2, <1>3, <1>4

\* A directory without a payload holds nothing, before any damage.
LEMMA Bare ==
  ASSUME NEW w \in [1..tokens -> Granted], NEW cut \in SUBSET (1..tokens), Account(w, cut),
         NEW d \in Dirs, damage = 0, "m1n1-linux.bin" \notin DOMAIN disk[d]
  PROVE  disk[d] = NoFiles
  <1>1. tokens \in Nat BY DEF Account, Numbers
  <1>2. \A n \in 1..tokens, k \in 1..4 : disk[d] # Part(w, n, k) BY <1>1, PartFacts
  <1>3. \A n \in cut : disk[d] # Torn(w, n) BY <1>1, TornFacts
  <1> QED BY <1>2, <1>3 DEF Account, Untouched

LEMMA WorkFacts ==
  ASSUME NEW w, NEW n, NEW k, NEW d
  PROVE  /\ Work(w, n, k, d).dir = d /\ Work(w, n, k, d).todo = ToDo(k)
         /\ Work(w, n, k, d).files = Whose(w, n)
         /\ Work(w, n, k, d).files["bootargs"] = Bootargs(n)
  BY ContentsFacts DEF Work, Whose

-----------------------------------------------------------------------------
(* A longer account.                                                       *)

Longer(w, cut, v, c) ==
  /\ tokens' \in Nat /\ tokens <= tokens' /\ UNCHANGED build
  /\ damage' \in Nat /\ (damage' = 0 => damage = 0)
  /\ v \in [1..tokens' -> Granted'] /\ c \in SUBSET (1..tokens')
  /\ (\A n \in 1..tokens : v[n] = w[n]) /\ cut \subseteq c

LEMMA LongerByTorn ==
  ASSUME NEW w \in [1..tokens -> Granted], NEW cut, Numbers, UNCHANGED <<build, tokens, damage>>,
         NEW c \in SUBSET (1..tokens), cut \subseteq c
  PROVE  Longer(w, cut, w, c)
  <1>1. Granted' = Granted BY DEF Granted
  <1> QED BY <1>1 DEF Longer, Numbers

LEMMA GenuineLasts ==
  ASSUME NEW w \in [1..tokens -> Granted], NEW cut \in SUBSET (1..tokens), NEW v, NEW c,
         tokens \in Nat, Longer(w, cut, v, c), NEW p, NEW s, Genuine(w, cut, p, s)
  PROVE  Genuine(v, c, p, s)'
  BY DEF Longer, Genuine

LEMMA RunLasts ==
  ASSUME NEW w \in [1..tokens -> Granted], NEW cut \in SUBSET (1..tokens), NEW v, NEW c,
         tokens \in Nat, Longer(w, cut, v, c), UNCHANGED run, Loading(w, cut), Running(w, cut)
  PROVE  Loading(v, c)' /\ Running(v, c)'
  <1>1. \A p, s : Genuine(w, cut, p, s) => Genuine(v, c, p, s)' BY GenuineLasts
  <1>2. Running(v, c)' BY <1>1 DEF Running, run
  <1>3. LoadingLinux => LoadingLinux' BY DEF LoadingLinux, run
  <1>4. LoadingM1n1(w, cut) => LoadingM1n1(v, c)'
    BY <1>1 DEF LoadingM1n1, run, Left
  <1>5. Loading(v, c)' BY <1>3, <1>4 DEF Loading, run
  <1> QED BY <1>2, <1>5

LEMMA PartLasts ==
  ASSUME NEW w, NEW v, NEW n, NEW k, UNCHANGED build, v[n] = w[n]
  PROVE  /\ Part(v, n, k)' = Part(w, n, k) /\ Torn(v, n) = Torn(w, n)
         /\ Whose(v, n)' = Whose(w, n) /\ Manifest(build, v[n], n)' = Manifest(build, w[n], n)
  BY DEF Part, Torn, Whose, Contents, Manifest

LEMMA StoredLasts ==
  ASSUME NEW w \in [1..tokens -> Granted], NEW cut \in SUBSET (1..tokens), NEW v, NEW c,
         tokens \in Nat, Longer(w, cut, v, c), UNCHANGED disk, Stored(w)
  PROVE  Stored(v)'
  BY DEF Stored, Longer

LEMMA UntouchedLasts ==
  ASSUME NEW w \in [1..tokens -> Granted], NEW cut \in SUBSET (1..tokens), NEW v,
         tokens \in Nat, Longer(w, cut, v, cut), UNCHANGED disk, Untouched(w, cut)
  PROVE  Untouched(v, cut)'
  <1> SUFFICES ASSUME damage' = 0, NEW d \in Dirs
               PROVE  \/ disk'[d] = NoFiles
                      \/ \E n \in (1..tokens') \ cut, k \in 1..4 : disk'[d] = Part(v, n, k)'
                      \/ \E n \in cut : disk'[d] = Torn(v, n)
    BY DEF Untouched
  <1>1. CASE disk[d] = NoFiles BY <1>1
  <1>2. ASSUME NEW n \in (1..tokens) \ cut, NEW k \in 1..4, disk[d] = Part(w, n, k)
        PROVE  n \in (1..tokens') \ cut /\ disk'[d] = Part(v, n, k)'
    BY <1>2, PartLasts DEF Longer
  <1>3. ASSUME NEW n \in cut, disk[d] = Torn(w, n)
        PROVE  disk'[d] = Torn(v, n)
    BY <1>3, PartLasts DEF Longer
  <1> QED BY <1>1, <1>2, <1>3 DEF Untouched, Longer

\* One operator's assembly as the others go on.
LEMMA WorkingLasts ==
  ASSUME NEW w \in [1..tokens -> Granted], NEW cut \in SUBSET (1..tokens), NEW v,
         tokens \in Nat, Longer(w, cut, v, cut), UNCHANGED disk, NEW o \in Operators,
         job'[o] = job[o], Working(w, cut, o)
  PROVE  Working(v, cut, o)'
  <1>1. PICK n \in (1..tokens) \ cut, k \in 1..4, d \in Dirs :
          /\ job[o] = Work(w, n, k, d)
          /\ damage = 0 => IF k = 1 THEN Unwritten(n) ELSE disk[d] = Part(w, n, k - 1)
    BY DEF Working
  <1>2. n \in (1..tokens') \ cut BY DEF Longer
  <1>3. job'[o] = Work(v, n, k, d)'
    <2>1. Whose(v, n)' = Whose(w, n) BY PartLasts DEF Longer
    <2> QED BY <1>1, <2>1 DEF Work
  <1>4. Part(v, n, k - 1)' = Part(w, n, k - 1) BY PartLasts DEF Longer
  <1>5. Unwritten(n)' <=> Unwritten(n) BY DEF Unwritten
  <1>6. damage' = 0 => IF k = 1 THEN Unwritten(n)' ELSE disk'[d] = Part(v, n, k - 1)'
    BY <1>1, <1>4, <1>5 DEF Longer
  <1> QED BY <1>2, <1>3, <1>6 DEF Working

-----------------------------------------------------------------------------
(* The start, and assembling.                                              *)

LEMMA InitAccount == Init => IInv
  <1> SUFFICES ASSUME Init PROVE IInv OBVIOUS
  <1> DEFINE w == [n \in 1..tokens |-> n]
  <1>1. w \in [1..tokens -> Granted] /\ {} \in SUBSET (1..tokens) BY DEF Init
  <1>2. Stored(w) BY NothingThere DEF Init, Stored, NoFiles
  <1>3. Account(w, {})
    BY <1>2 DEF Init, Account, Numbers, Untouched, Jobs, Loading, Running, Pongo
  <1> QED BY <1>1, <1>3 DEF IInv

LEMMA AssembleAccount ==
  ASSUME NEW w \in [1..tokens -> Granted], NEW cut \in SUBSET (1..tokens), Account(w, cut),
         NEW o \in Operators, NEW d \in Dirs, NEW r \in Requests, Assemble(o, d, r)
  PROVE  IInv'
  <1> PICK t \in Nat : t = tokens + 1 BY DEF Account, Numbers
  <1> PICK v : v = [n \in 1..t |-> IF n = t THEN r ELSE w[n]] OBVIOUS
  <1>1. tokens \in Nat /\ tokens' = t /\ UNCHANGED <<build, disk, damage, run>>
    BY DEF Assemble, Account, Numbers
  <1>2. r \in Granted BY DEF Assemble, Granted
  <1>3. v \in [1..tokens' -> Granted'] BY <1>1, <1>2 DEF Granted
  <1>4. v[t] = r /\ \A n \in 1..tokens : v[n] = w[n] BY <1>1
  <1>5. Longer(w, cut, v, cut) BY <1>1, <1>3, <1>4 DEF Longer, Account, Numbers
  <1>6. Stored(v)' /\ Untouched(v, cut)'
    BY <1>1, <1>5, StoredLasts, UntouchedLasts DEF Account
  <1>7. Loading(v, cut)' /\ Running(v, cut)'
    BY <1>1, <1>5, RunLasts DEF Account
  <1>8. Numbers' BY <1>1 DEF Assemble, Account, Numbers
  <1>9. Jobs(v, cut)'
    <2>1. job' = [job EXCEPT ![o] = Work(v, t, 1, d)']
      <3>1. ToDo(1) = Order BY ToDoFacts
      <3>2. Work(v, t, 1, d)' = [dir |-> d, todo |-> Order, files |-> Contents(build, r, t)]
        BY <3>1, <1>1, <1>4 DEF Work, Whose
      <3> QED BY <3>2, <1>1 DEF Assemble
    <2>2. damage = 0 => Unwritten(t)
      <3>1. ASSUME damage = 0, NEW e \in Dirs, "m1n1-linux.bin" \in DOMAIN disk[e]
            PROVE  \E n \in 1..tokens : disk[e]["m1n1-linux.bin"][2] = Bootargs(n)
        <4>1. disk[e] # NoFiles BY <3>1, NothingThere
        <4>2. ASSUME NEW n \in 1..tokens, NEW k \in 1..4, disk[e] = Part(w, n, k)
              PROVE  disk[e]["m1n1-linux.bin"][2] = Bootargs(n)
          BY <4>2, <1>1, PartFacts
        <4>3. ASSUME NEW n \in cut, disk[e] = Torn(w, n)
              PROVE  disk[e]["m1n1-linux.bin"][2] = Bootargs(n)
          BY <4>3, <1>1, TornFacts
        <4> QED BY <3>1, <4>1, <4>2, <4>3 DEF Account, Untouched
      <3> QED BY <3>1, <1>1, BootargsOnce DEF Unwritten
    <2>3. Working(v, cut, o)'
      <3>1. job'[o] = Work(v, t, 1, d)' BY <2>1 DEF Account, Numbers
      <3>2. damage' = 0 => Unwritten(t)'
        BY <2>2, <1>1 DEF Unwritten
      <3>3. t \in (1..tokens') \ cut /\ 1 \in 1..4 BY <1>1
      <3> QED BY <3>1, <3>2, <3>3 DEF Working
    <2>4. \A p \in Operators : p # o => job'[p] = job[p] BY <2>1 DEF Account, Numbers
    <2>5. \A p \in Operators : p # o => job'[p] = Idle \/ Working(v, cut, p)'
      BY <2>4, <1>1, <1>5, WorkingLasts DEF Account, Jobs
    <2>6. job'[o].files["bootargs"] = Bootargs(t)
      BY <2>1, ContentsFacts DEF Work, Whose, Account, Numbers
    <2>7. ASSUME NEW p \in Operators, p # o, job[p] # Idle
          PROVE  job[p].files["bootargs"] # Bootargs(t)
      <3>1. PICK n \in 1..tokens, k \in 1..4, e \in Dirs : job[p] = Work(w, n, k, e)
        BY <2>7 DEF Account, Jobs, Working
      <3>2. job[p].files["bootargs"] = Bootargs(n) BY <3>1, WorkFacts
      <3> QED BY <3>2, <1>1, BootargsOnce
    <2> QED BY <2>3, <2>4, <2>5, <2>6, <2>7 DEF Jobs, Account
  <1>10. Account(v, cut)' BY <1>6, <1>7, <1>8, <1>9 DEF Account
  <1>11. cut \in SUBSET (1..tokens') BY <1>1
  <1> QED BY <1>3, <1>10, <1>11 DEF IInv


-----------------------------------------------------------------------------
(* Writing, and a writer that is killed.                                   *)

LEMMA StoredPut ==
  ASSUME NEW w \in [1..tokens -> Granted], Numbers, Stored(w), UNCHANGED <<build, tokens>>,
         NEW d \in Dirs, NEW f \in Files, NEW x,
         disk' = [disk EXCEPT ![d] = Put(@, f, x)],
         f = "m1n1-linux.bin" => x \in Seq(Pieces),
         f = "PRIVATE_MANIFEST.json" => \E n \in 1..tokens : x = Manifest(build, w[n], n)
  PROVE  Stored(w)'
  <1>1. disk'[d] = Put(disk[d], f, x) /\ \A e \in Dirs : e # d => disk'[e] = disk[e]
    BY DEF Numbers
  <1> SUFFICES ASSUME NEW e \in Dirs
               PROVE  /\ DOMAIN disk'[e] \subseteq Files
                      /\ disk'[e] = [g \in DOMAIN disk'[e] |-> disk'[e][g]]
                      /\ "m1n1-linux.bin" \in DOMAIN disk'[e] => disk'[e]["m1n1-linux.bin"] \in Seq(Pieces)
                      /\ "PRIVATE_MANIFEST.json" \in DOMAIN disk'[e] =>
                           \E n \in 1..tokens : disk'[e]["PRIVATE_MANIFEST.json"] = Manifest(build, w[n], n)
    BY DEF Stored
  <1>2. CASE e # d BY <1>1, <1>2 DEF Stored
  <1>3. CASE e = d
    <2>1. DOMAIN disk'[d] = DOMAIN disk[d] \cup {f} /\ disk'[d][f] = x
      BY <1>1 DEF Put
    <2>2. \A g \in DOMAIN disk[d] : g # f => disk'[d][g] = disk[d][g]
      BY <1>1 DEF Put
    <2>3. disk'[d] = [g \in DOMAIN disk'[d] |-> disk'[d][g]] BY <1>1, PutIsFunction
    <2>4. DOMAIN disk[d] \subseteq Files BY DEF Stored
    <2>5. "m1n1-linux.bin" \in DOMAIN disk'[d] => disk'[d]["m1n1-linux.bin"] \in Seq(Pieces)
      BY <2>1, <2>2 DEF Stored
    <2>6. "PRIVATE_MANIFEST.json" \in DOMAIN disk'[d] =>
            \E n \in 1..tokens : disk'[d]["PRIVATE_MANIFEST.json"] = Manifest(build, w[n], n)
      BY <2>1, <2>2 DEF Stored
    <2> QED BY <1>3, <2>1, <2>3, <2>4, <2>5, <2>6
  <1> QED BY <1>2, <1>3

\* Assembly n puts its file k into its directory, with content x.
Puts(w, o, n, k, d, x) ==
  /\ job[o] = Work(w, n, k, d) /\ (k > 1 /\ damage = 0 => disk[d] = Part(w, n, k - 1))
  /\ k = 1 => x[2] = Bootargs(n)
  /\ Order[k] \notin DOMAIN disk[d] /\ disk' = [disk EXCEPT ![d] = Put(@, Order[k], x)]
  /\ UNCHANGED <<build, tokens, damage>>

LEMMA OthersLast ==
  ASSUME NEW w \in [1..tokens -> Granted], NEW cut \in SUBSET (1..tokens), Account(w, cut),
         NEW o \in Operators, NEW n \in (1..tokens) \ cut, NEW k \in 1..4, NEW d \in Dirs,
         NEW x, Puts(w, o, n, k, d, x),
         NEW p \in Operators, p # o, job[p] # Idle, job'[p] = job[p],
         NEW c \in SUBSET (1..tokens), cut \subseteq c, c \subseteq cut \cup {n}
  PROVE  Working(w, c, p)'
  <1> USE DEF Account, Numbers, Puts
  <1>1. PICK m \in (1..tokens) \ cut, j \in 1..4, e \in Dirs :
          /\ job[p] = Work(w, m, j, e)
          /\ damage = 0 => IF j = 1 THEN Unwritten(m) ELSE disk[e] = Part(w, m, j - 1)
    BY DEF Jobs, Working
  <1>2. m # n
    <2>1. job[o] # Idle BY WorkFacts, NothingThere DEF Work, Idle
    <2>2. job[o].files["bootargs"] = Bootargs(n) /\ job[p].files["bootargs"] = Bootargs(m)
      BY <1>1, WorkFacts
    <2> QED BY <2>1, <2>2 DEF Jobs
  <1>3. m \in (1..tokens) \ c BY <1>2
  <1>4. Whose(w, m)' = Whose(w, m) BY DEF Whose
  <1>5. job'[p] = Work(w, m, j, e)' BY <1>1, <1>4 DEF Work
  <1>6. disk'[d] = Put(disk[d], Order[k], x) /\ \A g \in Dirs : g # d => disk'[g] = disk[g]
    OBVIOUS
  <1>7. ASSUME damage = 0, j = 1 PROVE Unwritten(m)'
    <2>1. Unwritten(m) BY <1>1, <1>7
    <2>2. ASSUME "m1n1-linux.bin" \in DOMAIN disk'[d]
          PROVE  disk'[d]["m1n1-linux.bin"][2] # Bootargs(m)
      <3>1. CASE k = 1
        <4>1. disk'[d]["m1n1-linux.bin"] = x BY <3>1, <1>6, OrderFacts DEF Put
        <4> QED BY <4>1, <3>1, <1>2, BootargsOnce
      <3>2. CASE k # 1
        <4>1. "m1n1-linux.bin" # Order[k] BY <3>2, OrderFacts
        <4>2. "m1n1-linux.bin" \in DOMAIN disk[d] BY <2>2, <4>1, <1>6 DEF Put
        <4>3. disk'[d]["m1n1-linux.bin"] = disk[d]["m1n1-linux.bin"] BY <4>1, <4>2, <1>6 DEF Put
        <4> QED BY <4>2, <4>3, <2>1 DEF Unwritten
      <3> QED BY <3>1, <3>2
    <2> QED BY <2>1, <2>2, <1>6 DEF Unwritten
  <1>8. ASSUME damage = 0, j # 1 PROVE disk'[e] = Part(w, m, j - 1)'
    <2>1. disk[e] = Part(w, m, j - 1) /\ j - 1 \in 1..4 BY <1>1, <1>8
    <2>2. "m1n1-linux.bin" \in DOMAIN disk[e] /\ disk[e]["m1n1-linux.bin"][2] = Bootargs(m)
      BY <2>1, PartFacts
    <2>3. CASE e = d
      <3>1. k # 1 BY <2>2, <2>3, OrderFacts
      <3>2. k - 1 \in 1..4 /\ disk[d] = Part(w, n, k - 1) BY <3>1, <1>8
      <3>3. disk[d]["m1n1-linux.bin"][2] = Bootargs(n) BY <3>2, PartFacts
      <3> QED BY <3>3, <2>2, <2>3, <1>2, BootargsOnce
    <2>4. CASE e # d
      <3>1. Part(w, m, j - 1)' = Part(w, m, j - 1) BY PartLasts
      <3> QED BY <2>1, <2>4, <1>6, <3>1
    <2> QED BY <2>3, <2>4
  <1> QED BY <1>3, <1>5, <1>7, <1>8 DEF Working

\* An assembly ends, and nothing else changes.
LEMMA EndsAccount ==
  ASSUME NEW w \in [1..tokens -> Granted], NEW cut \in SUBSET (1..tokens), Account(w, cut),
         NEW o \in Operators, job' = [job EXCEPT ![o] = Idle],
         UNCHANGED <<build, disk, tokens, damage, run>>
  PROVE  Account(w, cut)'
  <1> USE DEF Account, Numbers
  <1>1. Longer(w, cut, w, cut) BY LongerByTorn
  <1>2. Stored(w)' /\ Untouched(w, cut)' BY <1>1, StoredLasts, UntouchedLasts
  <1>3. Loading(w, cut)' /\ Running(w, cut)' BY <1>1, RunLasts
  <1>4. \A p \in Operators : p # o => job'[p] = job[p] OBVIOUS
  <1>5. \A p \in Operators : p # o => job'[p] = Idle \/ Working(w, cut, p)'
    BY <1>1, <1>4, WorkingLasts DEF Jobs
  <1>6. Jobs(w, cut)' BY <1>4, <1>5 DEF Jobs
  <1>7. Numbers' OBVIOUS
  <1> QED BY <1>2, <1>3, <1>6, <1>7

\* One more file of an assembly, whole.
LEMMA PutAccount ==
  ASSUME NEW w \in [1..tokens -> Granted], NEW cut \in SUBSET (1..tokens), Account(w, cut),
         NEW o \in Operators, NEW n \in (1..tokens) \ cut, NEW k \in 1..4, NEW d \in Dirs,
         job[o] = Work(w, n, k, d), k > 1 /\ damage = 0 => disk[d] = Part(w, n, k - 1),
         Order[k] \notin DOMAIN disk[d],
         disk' = [disk EXCEPT ![d] = Put(@, Order[k], Whose(w, n)[Order[k]])],
         job' = [job EXCEPT ![o] = IF k = 4 THEN Idle ELSE Work(w, n, k + 1, d)],
         UNCHANGED <<build, tokens, damage, run>>
  PROVE  Account(w, cut)'
  <1> USE DEF Account, Numbers
  <1>1. Longer(w, cut, w, cut) BY LongerByTorn
  <1>2. Order[k] \in Files BY OrderFacts DEF Range
  <1>3. w[n] \in Requests /\ n \in Nat BY DEF Granted
  <1>4. Stored(w)'
    <2>1. Order[k] = "m1n1-linux.bin" => Whose(w, n)[Order[k]] \in Seq(Pieces)
      BY <1>3, ContentsFacts, ComposeParts DEF Whose
    <2>2. Order[k] = "PRIVATE_MANIFEST.json" => Whose(w, n)[Order[k]] = Manifest(build, w[n], n)
      BY ContentsFacts DEF Whose
    <2> QED BY <1>2, <2>1, <2>2, StoredPut
  <1>5. damage = 0 => disk'[d] = Part(w, n, k)
    <2>1. CASE k = 1
      <3>1. damage = 0 => disk[d] = NoFiles BY <2>1, Bare, OrderFacts
      <3> QED BY <2>1, <3>1, PartGrows
    <2>2. CASE k # 1 BY <2>2, PartGrows
    <2> QED BY <2>1, <2>2
  <1>6. damage' = 0 => disk'[d] = Part(w, n, k)'
    <2>1. Part(w, n, k)' = Part(w, n, k) BY PartLasts
    <2> QED BY <1>5, <2>1
  <1>7. Untouched(w, cut)'
    <2> SUFFICES ASSUME damage' = 0, NEW e \in Dirs, e # d
                 PROVE  \/ disk'[e] = NoFiles
                        \/ \E m \in (1..tokens) \ cut, j \in 1..4 : disk'[e] = Part(w, m, j)'
                        \/ \E m \in cut : disk'[e] = Torn(w, m)
      BY <1>6 DEF Untouched
    <2>1. disk'[e] = disk[e] OBVIOUS
    <2>2. \A m, j : Part(w, m, j)' = Part(w, m, j) BY PartLasts
    <2> QED BY <2>1, <2>2 DEF Untouched
  <1>8. \A p \in Operators : p # o => job'[p] = job[p] OBVIOUS
  <1>9. Jobs(w, cut)'
    <2>1. ASSUME NEW p \in Operators, p # o, job[p] # Idle PROVE Working(w, cut, p)'
      <3>1. k = 1 => Whose(w, n)[Order[k]][2] = Bootargs(n)
        BY <1>3, OrderFacts, ContentsFacts, ComposeParts DEF Whose
      <3>2. Puts(w, o, n, k, d, Whose(w, n)[Order[k]]) BY <3>1 DEF Puts
      <3> QED BY <2>1, <3>2, <1>8, OthersLast
    <2>2. ASSUME k # 4 PROVE Working(w, cut, o)'
      <3>1. Whose(w, n)' = Whose(w, n) BY DEF Whose
      <3>2. job'[o] = Work(w, n, k + 1, d)' BY <2>2, <3>1 DEF Work
      <3>3. k + 1 \in 1..4 /\ k + 1 # 1 /\ (k + 1) - 1 = k BY <2>2
      <3> QED BY <3>2, <3>3, <1>6 DEF Working
    <2>3. k = 4 => job'[o] = Idle OBVIOUS
    <2>4. k # 4 => job'[o].files = job[o].files BY WorkFacts
    <2>5. job[o] # Idle BY WorkFacts, NothingThere DEF Work, Idle
    <2> QED BY <2>1, <2>2, <2>3, <2>4, <2>5, <1>8 DEF Jobs
  <1>10. Loading(w, cut)' /\ Running(w, cut)' BY <1>1, RunLasts
  <1>11. Numbers' OBVIOUS
  <1> QED BY <1>4, <1>7, <1>9, <1>10, <1>11

\* A payload torn.
LEMMA TornAccount ==
  ASSUME NEW w \in [1..tokens -> Granted], NEW cut \in SUBSET (1..tokens), Account(w, cut),
         NEW o \in Operators, NEW n \in (1..tokens) \ cut, NEW d \in Dirs,
         job[o] = Work(w, n, 1, d), damage = 0 => Unwritten(n),
         Order[1] \notin DOMAIN disk[d],
         disk' = [disk EXCEPT ![d] = Put(@, Order[1], Front(Compose(w[n], n)))],
         job' = [job EXCEPT ![o] = Idle],
         UNCHANGED <<build, tokens, damage, run>>
  PROVE  Account(w, cut \cup {n})'
  <1> PICK c : c = cut \cup {n} OBVIOUS
  <1>0. c \in SUBSET (1..tokens) /\ cut \subseteq c OBVIOUS
  <1>1. Longer(w, cut, w, c) BY <1>0, LongerByTorn DEF Account
  <1>2. w[n] \in Requests /\ n \in Nat BY DEF Granted, Account, Numbers
  <1>3. Front(Compose(w[n], n)) \in Seq(Pieces) /\ Front(Compose(w[n], n))[2] = Bootargs(n)
    BY <1>2, ComposeParts, FrontParts
  <1>4. Stored(w)' BY <1>3, StoredPut, OrderFacts DEF Files, Account
  <1>5. Untouched(w, c)'
    <2> SUFFICES ASSUME damage' = 0, NEW e \in Dirs
                 PROVE  \/ disk'[e] = NoFiles
                        \/ \E m \in (1..tokens) \ c, j \in 1..4 : disk'[e] = Part(w, m, j)'
                        \/ \E m \in c : disk'[e] = Torn(w, m)
      BY DEF Untouched
    <2>1. CASE e = d
      <3>1. disk[d] = NoFiles BY Bare, OrderFacts
      <3>2. disk'[d] = Torn(w, n) BY <3>1, OrderFacts DEF Torn, Account, Numbers
      <3> QED BY <2>1, <3>2
    <2>2. CASE e # d
      <3>1. disk'[e] = disk[e] BY <2>2 DEF Account, Numbers
      <3>2. ASSUME NEW m \in (1..tokens) \ cut, NEW j \in 1..4, disk[e] = Part(w, m, j)
            PROVE  m \in (1..tokens) \ c /\ disk'[e] = Part(w, m, j)'
        <4>1. Part(w, m, j)' = Part(w, m, j) BY PartLasts
        <4>2. m # n BY <3>2, PartFacts DEF Unwritten, Account, Numbers
        <4> QED BY <3>1, <3>2, <4>1, <4>2
      <3> QED BY <3>1, <3>2 DEF Untouched, Account
    <2> QED BY <2>1, <2>2
  <1>6. \A p \in Operators : p # o => job'[p] = job[p] BY DEF Account, Numbers
  <1>7. Jobs(w, c)'
    <2>1. ASSUME NEW p \in Operators, p # o, job[p] # Idle PROVE Working(w, c, p)'
      <3> PICK k \in 1..4 : k = 1 OBVIOUS
      <3> PICK x : x = Front(Compose(w[n], n)) OBVIOUS
      <3>1. Puts(w, o, n, k, d, x) BY <1>3 DEF Puts
      <3>2. job'[p] = job[p] BY <2>1, <1>6
      <3>3. c \subseteq cut \cup {n} OBVIOUS
      <3> QED BY <2>1, <1>0, <3>1, <3>2, <3>3, OthersLast
    <2>2. job'[o] = Idle BY DEF Account, Numbers
    <2> QED BY <2>1, <2>2, <1>6 DEF Jobs, Account
  <1>8. Loading(w, c)' /\ Running(w, c)' BY <1>1, RunLasts DEF Account, Numbers
  <1>9. Numbers' BY DEF Account, Numbers
  <1> QED BY <1>4, <1>5, <1>7, <1>8, <1>9 DEF Account

LEMMA WriteAccount ==
  ASSUME NEW w \in [1..tokens -> Granted], NEW cut \in SUBSET (1..tokens), Account(w, cut),
         NEW o \in Operators, WriteNext(o)
  PROVE  IInv'
  <1>1. UNCHANGED <<build, tokens, damage, run>> BY DEF WriteNext
  <1>2. PICK n \in (1..tokens) \ cut, k \in 1..4, d \in Dirs :
          /\ job[o] = Work(w, n, k, d)
          /\ damage = 0 => IF k = 1 THEN Unwritten(n) ELSE disk[d] = Part(w, n, k - 1)
    BY DEF WriteNext, Account, Jobs, Working
  <1>3. job[o].dir = d /\ job[o].todo = ToDo(k) /\ job[o].files = Whose(w, n)
    BY <1>2, WorkFacts
  <1>4. Head(job[o].todo) = Order[k] /\ Len(job[o].todo) = 5 - k BY <1>3, ToDoFacts
  <1>5. Account(w, cut)'
    <2>1. CASE Order[k] \in DOMAIN disk[d]
      <3>1. job' = [job EXCEPT ![o] = Idle] /\ UNCHANGED disk
        BY <2>1, <1>3, <1>4 DEF WriteNext, Write
      <3> QED BY <3>1, <1>1, EndsAccount
    <2>2. CASE Order[k] \notin DOMAIN disk[d]
      <3>1. disk' = [disk EXCEPT ![d] = Put(@, Order[k], Whose(w, n)[Order[k]])]
        BY <2>2, <1>3, <1>4 DEF WriteNext, Write
      <3>2. job' = [job EXCEPT ![o] = Rest(@)]
        BY <2>2, <1>3, <1>4 DEF WriteNext, Write
      <3>3. ASSUME k # 4 PROVE Rest(job[o]) = Work(w, n, k + 1, d)
        <4>1. k < 4 /\ job[o].todo = ToDo(k) BY <1>3, <3>3
        <4>2. Tail(job[o].todo) = ToDo(k + 1) BY <4>1, ToDoFacts
        <4>3. Len(job[o].todo) # 1 BY <3>3, <1>4
        <4>4. Rest(job[o]) = [job[o] EXCEPT !.todo = Tail(job[o].todo)] BY <4>3 DEF Rest
        <4>5. Rest(job[o]) = [job[o] EXCEPT !.todo = ToDo(k + 1)] BY <4>2, <4>4
        <4> QED BY <1>2, <4>5 DEF Work
      <3>4. job' = [job EXCEPT ![o] = IF k = 4 THEN Idle ELSE Work(w, n, k + 1, d)]
        <4>1. k = 4 => Rest(job[o]) = Idle BY <1>4 DEF Rest
        <4> QED BY <3>2, <3>3, <4>1
      <3>5. k > 1 /\ damage = 0 => disk[d] = Part(w, n, k - 1) BY <1>2
      <3> QED BY <2>2, <3>1, <3>4, <3>5, <1>1, <1>2, PutAccount
    <2> QED BY <2>1, <2>2
  <1>6. w \in [1..tokens' -> Granted'] /\ cut \in SUBSET (1..tokens') BY <1>1 DEF Granted
  <1> QED BY <1>5, <1>6 DEF IInv

LEMMA KilledAccount ==
  ASSUME NEW w \in [1..tokens -> Granted], NEW cut \in SUBSET (1..tokens), Account(w, cut),
         NEW o \in Operators, Killed(o)
  PROVE  IInv'
  <1>1. UNCHANGED <<build, tokens, damage, run>> /\ job' = [job EXCEPT ![o] = Idle] BY DEF Killed
  <1>2. PICK n \in (1..tokens) \ cut, k \in 1..4, d \in Dirs :
          /\ job[o] = Work(w, n, k, d)
          /\ damage = 0 => IF k = 1 THEN Unwritten(n) ELSE disk[d] = Part(w, n, k - 1)
    BY DEF Killed, Account, Jobs, Working
  <1>3. job[o].dir = d /\ Head(job[o].todo) = Order[k] /\ job[o].files = Whose(w, n)
    BY <1>2, WorkFacts, ToDoFacts
  <1>4. \A c \in SUBSET (1..tokens) : w \in [1..tokens' -> Granted'] /\ c \in SUBSET (1..tokens')
    BY <1>1 DEF Granted
  <1>5. CASE UNCHANGED disk
    <2>1. Account(w, cut)' BY <1>1, <1>5, EndsAccount
    <2> QED BY <2>1, <1>4 DEF IInv
  <1>6. CASE ~UNCHANGED disk
    <2>1. /\ Order[k] = "m1n1-linux.bin" /\ Order[k] \notin DOMAIN disk[d]
          /\ disk' = [disk EXCEPT ![d] = Put(@, Order[k], Front(Whose(w, n)[Order[k]]))]
      BY <1>3, <1>6 DEF Killed
    <2>2. k = 1 BY <2>1, OrderFacts
    <2>3. Whose(w, n)[Order[1]] = Compose(w[n], n) BY OrderFacts, ContentsFacts DEF Whose
    <2>4. Account(w, cut \cup {n})' BY <2>1, <2>2, <2>3, <1>1, <1>2, TornAccount
    <2>5. cut \cup {n} \in SUBSET (1..tokens) OBVIOUS
    <2> QED BY <2>4, <2>5, <1>4 DEF IInv
  <1> QED BY <1>5, <1>6

-----------------------------------------------------------------------------
(* Damage.  Nothing is claimed any more that depends on a directory being  *)
(* of one piece, and every manifest is still somebody's.                   *)

LEMMA DamagedStored ==
  ASSUME NEW w \in [1..tokens -> Granted], NEW cut \in SUBSET (1..tokens), Account(w, cut), Damaged
  PROVE  Stored(w)' /\ DOMAIN disk' = Dirs
  <1>1. UNCHANGED <<build, tokens>> /\ Numbers /\ Stored(w) BY DEF Damaged, Account
  <1>2. ASSUME NEW d \in Dirs, NEW e \in Dirs, NEW f \in DOMAIN disk[d] \cap DOMAIN disk[e],
               disk' = [disk EXCEPT ![d] = Put(@, f, disk[e][f])]
        PROVE  Stored(w)' /\ DOMAIN disk' = Dirs
    <2>1. f \in Files BY <1>1 DEF Stored
    <2>2. f = "m1n1-linux.bin" => disk[e][f] \in Seq(Pieces) BY <1>1 DEF Stored
    <2>3. f = "PRIVATE_MANIFEST.json" => \E n \in 1..tokens : disk[e][f] = Manifest(build, w[n], n)
      BY <1>1 DEF Stored
    <2> QED BY <1>1, <1>2, <2>1, <2>2, <2>3, StoredPut DEF Numbers
  <1>3. ASSUME NEW d \in Dirs, "m1n1-linux.bin" \in DOMAIN disk[d], Len(disk[d]["m1n1-linux.bin"]) = 5,
               disk' = [disk EXCEPT ![d]["m1n1-linux.bin"][4] = <<"rotten">>]
        PROVE  Stored(w)' /\ DOMAIN disk' = Dirs
    <2> PICK x : x = [disk[d]["m1n1-linux.bin"] EXCEPT ![4] = <<"rotten">>] OBVIOUS
    <2>1. x \in Seq(Pieces)
      <3>1. disk[d]["m1n1-linux.bin"] \in Seq(Pieces) BY <1>1, <1>3 DEF Stored
      <3>2. <<"rotten">> \in Pieces BY DEF Pieces
      <3> QED BY <3>1, <3>2, <1>3, ExceptSeq
    <2>2. disk[d] = [f \in DOMAIN disk[d] |-> disk[d][f]] BY <1>1 DEF Stored
    <2>3. [disk[d] EXCEPT !["m1n1-linux.bin"] = x] = Put(disk[d], "m1n1-linux.bin", x)
      BY <2>2, <1>3 DEF Put
    <2>4. disk' = [disk EXCEPT ![d] = [disk[d] EXCEPT !["m1n1-linux.bin"] = x]] BY <1>3
    <2>5. disk' = [disk EXCEPT ![d] = Put(@, "m1n1-linux.bin", x)] BY <2>3, <2>4
    <2>6. "m1n1-linux.bin" \in Files /\ "m1n1-linux.bin" # "PRIVATE_MANIFEST.json" BY DEF Files
    <2> QED BY <1>1, <2>1, <2>5, <2>6, StoredPut DEF Numbers
  <1> QED BY <1>2, <1>3 DEF Damaged

LEMMA DamagedAccount ==
  ASSUME NEW w \in [1..tokens -> Granted], NEW cut \in SUBSET (1..tokens), Account(w, cut), Damaged
  PROVE  Account(w, cut)'
  <1>1. UNCHANGED <<build, job, tokens, run>> /\ damage' = damage + 1 BY DEF Damaged
  <1>2. damage' \in Nat /\ damage' # 0 /\ tokens \in Nat BY <1>1 DEF Account, Numbers
  <1>3. Granted' = Granted BY <1>1 DEF Granted
  <1>4. Longer(w, cut, w, cut) BY <1>1, <1>2, <1>3 DEF Longer
  <1>5. Untouched(w, cut)' BY <1>2 DEF Untouched
  <1>6. Jobs(w, cut)'
    <2>1. ASSUME NEW o \in Operators, Working(w, cut, o) PROVE Working(w, cut, o)'
      <3>1. PICK n \in (1..tokens) \ cut, k \in 1..4, d \in Dirs : job[o] = Work(w, n, k, d)
        BY <2>1 DEF Working
      <3>2. Whose(w, n)' = Whose(w, n) BY <1>1 DEF Whose
      <3>3. job'[o] = Work(w, n, k, d)' BY <3>1, <3>2, <1>1 DEF Work
      <3> QED BY <3>3, <1>1, <1>2 DEF Working
    <2> QED BY <2>1, <1>1 DEF Jobs, Account
  <1>7. Loading(w, cut)' /\ Running(w, cut)' BY <1>1, <1>2, <1>4, RunLasts DEF Account
  <1>8. Stored(w)' /\ Numbers' BY <1>1, <1>2, DamagedStored DEF Account, Numbers
  <1> QED BY <1>5, <1>6, <1>7, <1>8 DEF Account

-----------------------------------------------------------------------------
(* Loading.                                                                *)

LEMMA Joined ==
  ASSUME NEW S, NEW s \in Seq(S), NEW t \in Seq(S), t # << >>
  PROVE  s \o t \in Seq(S) /\ s \o t # << >>
  <1>1. s \o t \in Seq(S) /\ Len(s \o t) = Len(s) + Len(t) BY ConcatProperties
  <1>2. Len(t) > 0 /\ Len(s) \in Nat OBVIOUS
  <1> QED BY <1>1, <1>2

LEMMA ScriptFacts ==
  ASSUME NEW p
  PROVE  /\ load_m1n1(p) \in Seq({<<"discard">>, <<"announce">>, <<"write", p>>, <<"bootm">>})
         /\ Len(load_m1n1(p)) = 4
         /\ load_m1n1(p)[1] = <<"discard">> /\ load_m1n1(p)[2] = <<"announce">>
         /\ load_m1n1(p)[3] = <<"write", p>> /\ load_m1n1(p)[4] = <<"bootm">>
  <1>1. PICK S : S = {<<"discard">>, <<"announce">>, <<"write", p>>, <<"bootm">>} OBVIOUS
  <1>2. PICK s : s = Send(p) OBVIOUS
  <1>3. PICK t : t = <<<<"bootm">>>> OBVIOUS
  <1>4. s \in Seq(S) /\ Len(s) = 3 BY <1>1, <1>2 DEF Send
  <1>5. t \in Seq(S) /\ Len(t) = 1 /\ t[1] = <<"bootm">> BY <1>1, <1>3
  <1>6. s[1] = <<"discard">> /\ s[2] = <<"announce">> /\ s[3] = <<"write", p>> BY <1>2 DEF Send
  <1>7. load_m1n1(p) = s \o t BY <1>2, <1>3 DEF load_m1n1
  <1>8. s \o t \in Seq(S) /\ Len(s \o t) = Len(s) + Len(t) BY <1>4, <1>5, ConcatProperties
  <1>9. \A i \in 1..Len(s) + Len(t) : (s \o t)[i] = IF i <= Len(s) THEN s[i] ELSE t[i - Len(s)]
    BY <1>4, <1>5, ConcatProperties
  <1>10. PICK u : u = s \o t OBVIOUS
  <1>11. \A i \in 1..4 : u[i] = IF i <= 3 THEN s[i] ELSE t[i - 3]
    <2>1. Len(s) = 3 /\ Len(s) + Len(t) = 4 BY <1>4, <1>5
    <2> QED BY <1>9, <1>10, <2>1
  <1>12. u[1] = s[1] /\ u[2] = s[2] /\ u[3] = s[3] BY <1>11
  <1>13. u[4] = t[1] BY <1>11
  <1>14. u \in Seq(S) /\ Len(u) = 4 BY <1>4, <1>5, <1>8, <1>10
  <1> QED BY <1>1, <1>5, <1>6, <1>7, <1>10, <1>12, <1>13, <1>14

LEMMA StageFacts ==
  ASSUME NEW p, NEW i \in 1..4, NEW t, t = load_m1n1(p)[i]
  PROVE  /\ i = 1 => t[1] = "discard"
         /\ i = 2 => t[1] = "announce"
         /\ i = 3 => t[1] = "write"
         /\ i = 4 => t[1] = "bootm"
         /\ i = 3 => t = <<"write", p>>
  <1>1. /\ load_m1n1(p)[1] = <<"discard">> /\ load_m1n1(p)[2] = <<"announce">>
        /\ load_m1n1(p)[3] = <<"write", p>> /\ load_m1n1(p)[4] = <<"bootm">>
    BY ScriptFacts
  <1> QED BY <1>1

LEMMA LeftFacts ==
  ASSUME NEW p, NEW i \in 1..4
  PROVE  /\ Head(Left(p, i)) = load_m1n1(p)[i] /\ Len(Left(p, i)) = 5 - i
         /\ i < 4 => Tail(Left(p, i)) = Left(p, i + 1)
         /\ Left(p, 1) = load_m1n1(p)
  <1> PICK S : load_m1n1(p) \in Seq(S) BY ScriptFacts
  <1> PICK s \in Seq(S) : s = load_m1n1(p) /\ Len(s) = 4 BY ScriptFacts
  <1>1. Head(SubSeq(s, i, 4)) = s[i] /\ Tail(SubSeq(s, i, 4)) = SubSeq(s, i + 1, 4)
    BY HeadTailOfSubSeq
  <1>2. \A j \in i..4 : s[j] \in S BY ElementOfSeq
  <1>3. Len(SubSeq(s, i, 4)) = 5 - i BY <1>2, SubSeqProperties
  <1>4. SubSeq(s, 1, 4) = s BY SubSeqFull
  <1> QED BY <1>1, <1>3, <1>4 DEF Left

LEMMA LinuxFacts ==
  ASSUME NEW last \in {"bootl", "linux_diag"}
  PROVE  load_linux(last) \in Seq(LinuxTransfers) /\ load_linux(last) # << >>
  <1>1. \A name \in {"initrd", "dtbpack", "kernel"} :
          Send(Image(name)) \in Seq(LinuxTransfers) /\ Send(Image(name)) # << >>
    BY DEF Send, LinuxTransfers
  <1>2. /\ <<<<"ramdisk">>>> \in Seq(LinuxTransfers) /\ <<<<"fdt">>>> \in Seq(LinuxTransfers)
        /\ <<<<last>>>> \in Seq(LinuxTransfers)
    BY DEF LinuxTransfers
  <1> DEFINE a == Send(Image("initrd")) \o <<<<"ramdisk">>>>
             b == a \o Send(Image("dtbpack"))
             c == b \o <<<<"fdt">>>>
             e == c \o Send(Image("kernel"))
             g == e \o <<<<last>>>>
  <1>3. a \in Seq(LinuxTransfers) BY <1>1, <1>2, Joined
  <1> HIDE DEF a
  <1>4. b \in Seq(LinuxTransfers) BY <1>1, <1>3, Joined
  <1> HIDE DEF b
  <1>5. c \in Seq(LinuxTransfers) BY <1>2, <1>4, Joined
  <1> HIDE DEF c
  <1>6. e \in Seq(LinuxTransfers) BY <1>1, <1>5, Joined
  <1> HIDE DEF e
  <1>7. g \in Seq(LinuxTransfers) /\ g # << >> BY <1>2, <1>6, Joined
  <1> QED BY <1>7 DEF load_linux, a, b, c, e, g

\* What a verified directory holds is what its token stands for.
LEMMA GenuineFile ==
  ASSUME NEW w \in [1..tokens -> Granted], NEW cut \in SUBSET (1..tokens), Account(w, cut),
         NEW d \in Dirs, "m1n1-linux.bin" \in DOMAIN disk[d]
  PROVE  Genuine(w, cut, disk[d]["m1n1-linux.bin"], Verified(build, disk[d]))
  <1> USE DEF Account
  <1>1. disk[d]["m1n1-linux.bin"] \in Seq(Pieces) BY DEF Stored
  <1>2. ASSUME Verified(build, disk[d])
        PROVE  \E n \in 1..tokens : disk[d]["m1n1-linux.bin"] = Compose(w[n], n)
    <2>1. "PRIVATE_MANIFEST.json" \in DOMAIN disk[d] BY <1>2, OrderFacts DEF Verified, Complete, Files
    <2>2. PICK n \in 1..tokens : disk[d]["PRIVATE_MANIFEST.json"] = Manifest(build, w[n], n)
      BY <2>1 DEF Stored
    <2>3. disk[d]["m1n1-linux.bin"] = disk[d]["PRIVATE_MANIFEST.json"].payload BY <1>2 DEF Verified
    <2> QED BY <2>2, <2>3, ManifestFacts
  <1>3. ASSUME damage = 0
        PROVE  \/ \E n \in 1..tokens : disk[d]["m1n1-linux.bin"] = Compose(w[n], n)
               \/ \E n \in cut : disk[d]["m1n1-linux.bin"] = Front(Compose(w[n], n))
    <2>1. disk[d] # NoFiles BY NothingThere
    <2>2. tokens \in Nat BY DEF Numbers
    <2>3. ASSUME NEW n \in 1..tokens, NEW k \in 1..4, disk[d] = Part(w, n, k)
          PROVE  disk[d]["m1n1-linux.bin"] = Compose(w[n], n)
      BY <2>2, <2>3, PartFacts
    <2>4. ASSUME NEW n \in cut, disk[d] = Torn(w, n)
          PROVE  disk[d]["m1n1-linux.bin"] = Front(Compose(w[n], n))
      BY <2>2, <2>4, TornFacts
    <2> QED BY <1>3, <2>1, <2>3, <2>4 DEF Untouched
  <1> QED BY <1>1, <1>2, <1>3 DEF Genuine

\* What the next transfer is.
LEMMA NextTransfer ==
  ASSUME NEW w, NEW cut, Loading(w, cut), loader # Idle, NEW t, t = Next1(loader)
  PROVE  \/ /\ LoadingLinux /\ t \in LinuxTransfers
         \/ \E i \in 1..4 :
              /\ loader.script = "load_m1n1" /\ loader.todo = Left(loader.asked, i)
              /\ t = load_m1n1(loader.asked)[i]
              /\ i \in {2, 3} => pongo = << >>
              /\ i = 4 => pongo = loader.asked
              /\ Genuine(w, cut, loader.asked, loader.sound)
  <1>1. CASE LoadingLinux
    BY <1>1, HeadTailProperties DEF LoadingLinux, Next1
  <1>2. CASE LoadingM1n1(w, cut)
    BY <1>2, LeftFacts DEF LoadingM1n1, Next1
  <1> QED BY <1>1, <1>2 DEF Loading

\* Whatever arrives of a transfer: what the tablet runs then is the file of
\* the script that loads.
LEMMA RunningAfter ==
  ASSUME NEW w, NEW cut, Loading(w, cut), loader # Idle, Running(w, cut),
         NEW n, Effect(Next1(loader), n), UNCHANGED <<build, tokens, damage>>
  PROVE  Running(w, cut)'
  <1> PICK t : t = Next1(loader) OBVIOUS
  <1>1. \A p, s : Genuine(w, cut, p, s)' <=> Genuine(w, cut, p, s) BY DEF Genuine
  <1>2. CASE UNCHANGED tablet BY <1>1, <1>2 DEF Running
  <1>3. CASE tablet' = Booted BY <1>3 DEF Running, Booted
  <1>4. CASE t[1] = "bootm"
    <2>1. pongo = loader.asked /\ Genuine(w, cut, loader.asked, loader.sound)
      <3>1. t \notin LinuxTransfers BY <1>4 DEF LinuxTransfers
      <3>2. PICK i \in 1..4 :
              /\ t = load_m1n1(loader.asked)[i] /\ (i = 4 => pongo = loader.asked)
              /\ Genuine(w, cut, loader.asked, loader.sound)
        BY <3>1, NextTransfer
      <3>3. i = 4 BY <1>4, <3>2, StageFacts
      <3> QED BY <3>2, <3>3
    <2>2. tablet' = IF Started(pongo)
                    THEN [runs |-> "m1n1", ran |-> pongo, asked |-> loader.asked, sound |-> loader.sound]
                    ELSE Booted
      BY <1>4 DEF Effect
    <2> QED BY <1>1, <1>3, <2>1, <2>2 DEF Running
  <1> QED BY <1>2, <1>3, <1>4 DEF Effect

LEMMA RunningKept ==
  ASSUME NEW w, NEW cut, Running(w, cut), UNCHANGED <<build, tokens, damage, tablet>>
  PROVE  Running(w, cut)'
  BY DEF Running, Genuine

LEMMA RestFacts ==
  ASSUME NEW l, l = [script |-> l.script, todo |-> l.todo, asked |-> l.asked, sound |-> l.sound]
  PROVE  \/ Len(l.todo) = 1 /\ Rest(l) = Idle
         \/ /\ Len(l.todo) # 1 /\ Rest(l).todo = Tail(l.todo)
            /\ Rest(l) = [script |-> l.script, todo |-> Rest(l).todo, asked |-> l.asked, sound |-> l.sound]
  BY DEF Rest

LEMMA LinuxGoesOn ==
  ASSUME NEW w, NEW cut, LoadingLinux, loader' = Rest(loader),
         loader = [script |-> loader.script, todo |-> loader.todo,
                   asked |-> loader.asked, sound |-> loader.sound]
  PROVE  Loading(w, cut)'
  <1>1. CASE Len(loader.todo) = 1 BY <1>1, RestFacts DEF Loading
  <1>2. CASE Len(loader.todo) # 1
    <2>1. /\ Tail(loader.todo) \in Seq(LinuxTransfers)
          /\ Len(Tail(loader.todo)) = Len(loader.todo) - 1 /\ Len(loader.todo) \in Nat
      BY HeadTailProperties DEF LoadingLinux
    <2>2. Tail(loader.todo) # << >>
      <3>1. Len(Tail(loader.todo)) # 0 BY <1>2, <2>1
      <3>2. Len(<< >>) = 0 OBVIOUS
      <3> QED BY <3>1, <3>2
    <2>3. loader'.script = "load_linux" /\ loader'.todo = Tail(loader.todo)
      <3>1. /\ Rest(loader).todo = Tail(loader.todo)
            /\ Rest(loader) = [script |-> loader.script, todo |-> Rest(loader).todo,
                               asked |-> loader.asked, sound |-> loader.sound]
        BY <1>2, RestFacts
      <3>2. Rest(loader).script = loader.script BY <3>1
      <3> QED BY <3>1, <3>2 DEF LoadingLinux
    <2>4. LoadingLinux' BY <2>1, <2>2, <2>3 DEF LoadingLinux
    <2>5. loader' = [script |-> loader'.script, todo |-> loader'.todo,
                     asked |-> loader'.asked, sound |-> loader'.sound]
      BY <1>2, RestFacts
    <2> QED BY <2>4, <2>5 DEF Loading
  <1> QED BY <1>1, <1>2

LEMMA TransferLoading ==
  ASSUME NEW w, NEW cut, Loading(w, cut), Transfer
  PROVE  Loading(w, cut)'
  <1>1. loader # Idle /\ loader' = Rest(loader) /\ UNCHANGED <<build, tokens, damage>>
    BY DEF Transfer, files
  <1>2. loader = [script |-> loader.script, todo |-> loader.todo,
                  asked |-> loader.asked, sound |-> loader.sound]
    BY <1>1 DEF Loading
  <1> PICK t : t = Next1(loader) OBVIOUS
  <1> PICK p : p = loader.asked OBVIOUS
  <1>3. CASE LoadingLinux BY <1>1, <1>2, <1>3, LinuxGoesOn
  <1>4. ASSUME NEW i \in 1..4, loader.script = "load_m1n1", loader.todo = Left(p, i),
               t = load_m1n1(p)[i], i \in {2, 3} => pongo = << >>, i = 4 => pongo = p,
               Genuine(w, cut, p, loader.sound)
        PROVE  Loading(w, cut)'
    <2>1. CASE i = 4 BY <1>1, <1>2, <1>4, <2>1, LeftFacts, RestFacts DEF Loading
    <2>2. CASE i # 4
      <3>1. Len(loader.todo) # 1 /\ Tail(loader.todo) = Left(p, i + 1) BY <1>4, <2>2, LeftFacts
      <3>2. /\ loader'.todo = Left(p, i + 1)
            /\ loader' = [script |-> loader.script, todo |-> loader'.todo, asked |-> p, sound |-> loader.sound]
        BY <1>1, <1>2, <3>1, RestFacts
      <3>3. /\ i + 1 \in {2, 3} => pongo' = << >>
            /\ i + 1 = 4 => pongo' = p
        <4>1. Effect(t, Whole(t)) BY DEF Transfer
        <4>2. CASE i = 1 BY <4>1, <4>2, <1>4, StageFacts DEF Effect
        <4>3. CASE i = 2 BY <4>1, <4>3, <1>4, StageFacts DEF Effect
        <4>4. CASE i = 3
          <5>1. t = <<"write", p>> /\ pongo = << >> BY <4>4, <1>4, ScriptFacts
          <5>2. pongo' = << >> \o SubSeq(p, 1, Len(p)) BY <4>1, <5>1 DEF Effect, Whole
          <5>3. p \in Seq(Pieces) BY <1>4 DEF Genuine
          <5> QED BY <4>4, <5>2, <5>3, SubSeqFull, ConcatEmptySeq
        <4> QED BY <2>2, <4>2, <4>3, <4>4
      <3>4. LoadingM1n1(w, cut)'
        <4>1. Genuine(w, cut, loader.asked, loader.sound)'
          <5>1. loader'.asked = p /\ loader'.sound = loader.sound BY <3>2
          <5> QED BY <5>1, <1>1, <1>4 DEF Genuine
        <4>2. loader'.script = "load_m1n1" /\ loader'.asked = p BY <3>2, <1>4
        <4>3. i + 1 \in 1..4 BY <2>2
        <4> QED BY <4>1, <4>2, <4>3, <3>2, <3>3 DEF LoadingM1n1, Left
      <3> QED BY <3>2, <3>4 DEF Loading
    <2> QED BY <2>1, <2>2
  <1> QED BY <1>1, <1>3, <1>4, NextTransfer

\* A transfer leaves the directories and the operators alone.
LEMMA RunAccount ==
  ASSUME NEW w \in [1..tokens -> Granted], NEW cut \in SUBSET (1..tokens), Account(w, cut),
         UNCHANGED <<build, files, damage>>, Loading(w, cut)', Running(w, cut)'
  PROVE  IInv'
  <1>1. UNCHANGED <<build, disk, job, tokens, damage>> BY DEF files
  <1>2. Numbers /\ Numbers' BY <1>1 DEF Account, Numbers
  <1>3. Longer(w, cut, w, cut) BY <1>1, <1>2, LongerByTorn
  <1>4. Stored(w)' /\ Untouched(w, cut)'
    BY <1>1, <1>2, <1>3, StoredLasts, UntouchedLasts DEF Account, Numbers
  <1>5. \A o \in Operators : Working(w, cut, o) => Working(w, cut, o)'
    BY <1>1, <1>2, <1>3, WorkingLasts DEF Numbers
  <1>6. Jobs(w, cut)' BY <1>1, <1>5 DEF Jobs, Account
  <1>7. Account(w, cut)' BY <1>2, <1>4, <1>6 DEF Account
  <1>8. w \in [1..tokens' -> Granted'] /\ cut \in SUBSET (1..tokens') BY <1>1 DEF Granted
  <1> QED BY <1>7, <1>8 DEF IInv

LEMMA LoadsAccount ==
  ASSUME NEW w \in [1..tokens -> Granted], NEW cut \in SUBSET (1..tokens), Account(w, cut),
         (\E d \in Dirs : LoadM1n1(d)) \/ LoadLinux
  PROVE  IInv'
  <1>1. ASSUME NEW d \in Dirs, LoadM1n1(d)
        PROVE  UNCHANGED <<build, files, damage, tablet>> /\ Loading(w, cut)'
    <2> PICK p : p = disk[d]["m1n1-linux.bin"] OBVIOUS
    <2> PICK s : s = Verified(build, disk[d]) OBVIOUS
    <2>1. /\ UNCHANGED <<build, files, damage, tablet>>
          /\ loader' = [script |-> "load_m1n1", todo |-> load_m1n1(p), asked |-> p, sound |-> s]
      BY <1>1 DEF LoadM1n1, Load
    <2>2. Genuine(w, cut, p, s)
      BY <1>1, GenuineFile DEF LoadM1n1
    <2>3. /\ loader'.script = "load_m1n1" /\ loader'.todo = Left(p, 1)
          /\ loader'.asked = p /\ loader'.sound = s
      BY <2>1, LeftFacts
    <2>4. Genuine(w, cut, loader.asked, loader.sound)' BY <2>1, <2>2, <2>3 DEF Genuine, files
    <2>5. LoadingM1n1(w, cut)'
      <3>1. 1 \in 1..4 /\ 1 \notin {2, 3} /\ 1 # 4 OBVIOUS
      <3> QED BY <2>3, <2>4, <3>1 DEF LoadingM1n1, Left
    <2> QED BY <2>1, <2>3, <2>5 DEF Loading
  <1>2. ASSUME LoadLinux
        PROVE  UNCHANGED <<build, files, damage, tablet>> /\ Loading(w, cut)'
    <2>1. PICK last \in {"bootl", "linux_diag"} :
            /\ UNCHANGED <<build, files, damage, tablet>>
            /\ loader' = [script |-> "load_linux", todo |-> load_linux(last),
                          asked |-> Image("kernel"), sound |-> FALSE]
      BY <1>2 DEF LoadLinux, Load
    <2>2. loader'.script = "load_linux" /\ loader'.todo = load_linux(last)
          /\ loader'.asked = Image("kernel") /\ loader'.sound = FALSE
      BY <2>1
    <2>3. LoadingLinux' BY <2>2, LinuxFacts DEF LoadingLinux
    <2> QED BY <2>1, <2>2, <2>3 DEF Loading
  <1>3. UNCHANGED <<build, files, damage, tablet>> /\ Loading(w, cut)' BY <1>1, <1>2
  <1>4. Running(w, cut)' BY <1>3, RunningKept DEF Account, files
  <1> QED BY <1>3, <1>4, RunAccount

LEMMA TransfersAccount ==
  ASSUME NEW w \in [1..tokens -> Granted], NEW cut \in SUBSET (1..tokens), Account(w, cut),
         Transfer \/ Raises \/ Short \/ Restart
  PROVE  IInv'
  <1>1. UNCHANGED <<build, files, damage>> /\ UNCHANGED tokens
    BY DEF Transfer, Raises, Short, Restart, files
  <1>2. Loading(w, cut) /\ Running(w, cut) BY DEF Account
  <1>3. CASE Transfer
    <2>1. Loading(w, cut)' BY <1>2, <1>3, TransferLoading
    <2>2. Running(w, cut)' BY <1>1, <1>2, <1>3, RunningAfter DEF Transfer
    <2> QED BY <1>1, <2>1, <2>2, RunAccount
  <1>4. CASE Raises
    <2>1. Loading(w, cut)' BY <1>4 DEF Raises, Loading
    <2>2. Running(w, cut)'
      <3>1. CASE UNCHANGED tablet BY <1>1, <1>2, <3>1, RunningKept
      <3>2. CASE \E n \in Arriving(Next1(loader)) : Effect(Next1(loader), n)
        BY <1>1, <1>2, <1>4, <3>2, RunningAfter DEF Raises
      <3> QED BY <1>4, <3>1, <3>2 DEF Raises
    <2> QED BY <1>1, <2>1, <2>2, RunAccount
  <1>5. CASE Short
    <2>1. Loading(w, cut)'
      <3>1. CASE LoadingLinux
        <4>1. loader' = Rest(loader) BY <1>5, <3>1 DEF Short, Checked, LoadingLinux
        <4> QED BY <1>2, <1>5, <3>1, <4>1, LinuxGoesOn DEF Loading, Short
      <3>2. CASE LoadingM1n1(w, cut)
        BY <1>5, <3>2 DEF Short, Checked, LoadingM1n1, Loading
      <3> QED BY <1>2, <1>5, <3>1, <3>2 DEF Loading, Short
    <2>2. Running(w, cut)' BY <1>1, <1>2, <1>5, RunningAfter DEF Short
    <2> QED BY <1>1, <2>1, <2>2, RunAccount
  <1>6. CASE Restart
    <2>1. Loading(w, cut)' BY <1>6 DEF Restart, Loading
    <2>2. Running(w, cut)' BY <1>6 DEF Restart, Running, Pongo
    <2> QED BY <1>1, <2>1, <2>2, RunAccount
  <1> QED BY <1>3, <1>4, <1>5, <1>6

LEMMA NextAccount == IInv /\ [Next]_vars => IInv'
  <1> SUFFICES ASSUME IInv, [Next]_vars PROVE IInv' OBVIOUS
  <1>0. PICK w \in [1..tokens -> Granted], cut \in SUBSET (1..tokens) : Account(w, cut) BY DEF IInv
  <1>1. ASSUME NEW o \in Operators, NEW d \in Dirs, NEW r \in Requests, Assemble(o, d, r) PROVE IInv'
    BY <1>0, <1>1, AssembleAccount
  <1>2. ASSUME NEW o \in Operators, WriteNext(o) PROVE IInv' BY <1>0, <1>2, WriteAccount
  <1>3. ASSUME NEW o \in Operators, Killed(o) PROVE IInv' BY <1>0, <1>3, KilledAccount
  <1>4. CASE Damaged
    <2>1. Account(w, cut)' BY <1>0, <1>4, DamagedAccount
    <2>2. w \in [1..tokens' -> Granted'] /\ cut \in SUBSET (1..tokens') BY <1>4 DEF Damaged, Granted
    <2> QED BY <2>1, <2>2 DEF IInv
  <1>5. CASE (\E d \in Dirs : LoadM1n1(d)) \/ LoadLinux BY <1>0, <1>5, LoadsAccount
  <1>6. CASE Transfer \/ Raises \/ Short \/ Restart BY <1>0, <1>6, TransfersAccount
  <1>7. CASE UNCHANGED vars
    <2>1. UNCHANGED <<build, files, damage>> /\ UNCHANGED run BY <1>7 DEF vars, files, run
    <2>2. UNCHANGED tokens BY <1>7 DEF vars
    <2>3. Longer(w, cut, w, cut) BY <1>0, <2>1, <2>2, LongerByTorn DEF Account
    <2>4. Loading(w, cut)' /\ Running(w, cut)' BY <1>0, <2>1, <2>3, RunLasts DEF Account, Numbers
    <2> QED BY <1>0, <2>1, <2>4, RunAccount
  <1> QED BY <1>1, <1>2, <1>3, <1>4, <1>5, <1>6, <1>7 DEF Next

\* Every file, every upload and every payload that runs comes of one
\* assembly, and what a run token stands for never changes.
THEOREM Accounted == Spec => []IInv
  <1>1. Init => IInv BY InitAccount
  <1>2. IInv /\ [Next]_vars => IInv' BY NextAccount
  <1> QED BY <1>1, <1>2, PTL DEF Spec

-----------------------------------------------------------------------------
(* The properties.                                                         *)

\* bootm is only asked for with exactly the file in the buffer, over uploads
\* that raised, were short or followed others (boot/load_m1n1.py, load_m1n1).
THEOREM BootsWholeHolds == Spec => []BootsWhole
  <1>1. IInv => BootsWhole BY DEF IInv, Account, Running, BootsWhole
  <1> QED BY <1>1, Accounted, PTL

LEMMA IdentityOf == IInv => Identity
  <1> SUFFICES ASSUME IInv, NEW d \in Dirs, Observed(d), damage = 0 \/ tablet.sound
               PROVE  tablet.ran = disk[d]["PRIVATE_MANIFEST.json"].payload
    BY DEF Identity
  <1> PICK w \in [1..tokens -> Granted], cut \in SUBSET (1..tokens) : Account(w, cut) BY DEF IInv
  <1> USE DEF Account
  <1>1. tokens \in Nat BY DEF Numbers
  <1>2. PICK m \in 1..tokens : disk[d]["PRIVATE_MANIFEST.json"] = Manifest(build, w[m], m)
    BY DEF Observed, Stored
  <1>3. tablet.ran[2] = Bootargs(m) BY <1>2, ManifestFacts DEF Observed
  <1>4. tablet.ran = tablet.asked /\ Genuine(w, cut, tablet.asked, tablet.sound)
    BY DEF Observed, Running
  <1>5. ASSUME NEW n \in 1..tokens, tablet.ran = Compose(w[n], n) PROVE tablet.ran = Compose(w[m], m)
    <2>1. w[n] \in Requests /\ n \in Nat BY DEF Granted
    <2>2. tablet.ran[2] = Bootargs(n) BY <1>5, <2>1, ComposeParts
    <2>3. n = m BY <1>3, <2>2, BootargsOnce
    <2> QED BY <1>5, <2>3
  <1>6. ASSUME damage = 0, NEW n \in cut, tablet.ran = Front(Compose(w[n], n)) PROVE FALSE
    <2>1. w[n] \in Requests /\ n \in Nat BY DEF Granted
    <2>2. tablet.ran[2] = Bootargs(n) BY <1>6, <2>1, ComposeParts, FrontParts
    <2>3. n = m BY <1>3, <2>2, BootargsOnce
    <2>4. "PRIVATE_MANIFEST.json" \in DOMAIN disk[d] BY DEF Observed
    <2>5. disk[d] # NoFiles /\ \A j \in cut : disk[d] # Torn(w, j) BY <2>4, <1>1, NothingThere, TornFacts
    <2>6. PICK j \in (1..tokens) \ cut, k \in 1..4 : disk[d] = Part(w, j, k)
      BY <1>6, <2>5 DEF Untouched
    <2>7. disk[d]["PRIVATE_MANIFEST.json"] = Manifest(build, w[j], j)
      BY <2>4, <2>6, ContentsFacts DEF Part, Whose
    <2>8. j = m
      <3>1. disk[d]["PRIVATE_MANIFEST.json"].run_id = m BY <1>2, ManifestFacts
      <3>2. disk[d]["PRIVATE_MANIFEST.json"].run_id = j BY <2>7, ManifestFacts
      <3> QED BY <3>1, <3>2
    <2> QED BY <2>3, <2>8
  <1>7. tablet.ran = Compose(w[m], m)
    <2>1. CASE tablet.sound BY <1>4, <1>5, <2>1 DEF Genuine
    <2>2. CASE damage = 0 BY <1>4, <1>5, <1>6, <2>2 DEF Genuine
    <2> QED BY <2>1, <2>2
  <1> QED BY <1>2, <1>7, ManifestFacts

\* "device_token_observed" for a directory says that the tablet runs what its
\* manifest hashes, if no file was damaged or the directory verified when it
\* was loaded (boot/h1b_run_record.py, record).
THEOREM IdentityHolds == Spec => []Identity
  BY IdentityOf, Accounted, PTL

LEMMA PassIsWholeOf == IInv => PassIsWhole
  <1> SUFFICES ASSUME IInv, NEW d \in Dirs, Complete(disk[d]), Verified(build, disk[d])
               PROVE  \E r \in Requests :
                        /\ Accepts(build, r)
                        /\ disk[d] = Contents(build, r, disk[d]["PRIVATE_MANIFEST.json"].run_id)
    BY DEF PassIsWhole
  <1> PICK w \in [1..tokens -> Granted], cut \in SUBSET (1..tokens) : Account(w, cut) BY DEF IInv
  <1>1. DOMAIN disk[d] = Files BY OrderFacts DEF Complete
  <1>2. PICK n \in 1..tokens : disk[d]["PRIVATE_MANIFEST.json"] = Manifest(build, w[n], n)
    BY <1>1 DEF Account, Stored, Files
  <1> PICK r : r = w[n] OBVIOUS
  <1>3. r \in Requests /\ Accepts(build, r) /\ n \in Nat BY DEF Granted, Account, Numbers
  <1>4. disk[d]["m1n1-linux.bin"] = Compose(r, n) BY <1>2, ManifestFacts DEF Verified
  <1>5. disk[d]["initramfs.gz"] = Initramfs(r)
    BY <1>3, <1>4, ComposeParts DEF Verified, Embedded
  <1>6. disk[d]["bootargs"] = Bootargs(n) BY <1>2, ManifestFacts DEF Verified
  <1>7. \A f \in Files : disk[d][f] = Contents(build, r, n)[f]
    BY <1>2, <1>4, <1>5, <1>6, ContentsFacts DEF Files
  <1>8. disk[d] = [f \in Files |-> disk[d][f]] BY <1>1 DEF Account, Stored
  <1>9. Contents(build, r, n) = [f \in Files |-> Contents(build, r, n)[f]] BY DEF Contents, Files
  <1>10. disk[d] = Contents(build, r, n) BY <1>7, <1>8, <1>9
  <1>11. disk[d]["PRIVATE_MANIFEST.json"].run_id = n BY <1>2, ManifestFacts
  <1> QED BY <1>3, <1>10, <1>11

\* PASS of --verify: the four files are those of one assembly, although
\* writers were killed or met in a directory and files went bad
\* (boot/assemble_private_wifi_payload.py, verify).
THEOREM PassIsWholeHolds == Spec => []PassIsWhole
  BY PassIsWholeOf, Accounted, PTL

\* What a build that passes as a Wi-Fi base has, and what it has not.
LEMMA WifiBase ==
  ASSUME NEW b \in Public, NEW f \in {"wifi-h1b-base", "wifi-h1b-base-raw"}, Passes(b, f)
  PROVE  /\ {"ecm.usb0", "brcmfmac.debug"} \subseteq b
         /\ b \cap {"wifi-tools", "other-wifi-tools"} = {}
         /\ b \cap Firmware = {}
  <1>1. f \in Flags /\ "wifi" \in On[f] BY OnIsTable DEF Table, Modes, Flags
  <1>2. "ecm.usb0" \in b BY <1>1 DEF Passes, Needs, Always
  <1>3. "brcmfmac.debug" \in Asks["wifi"] BY DEF Asks, Modes, Flags
  <1>4. "brcmfmac.debug" \in b BY <1>1, <1>3, NeededOf DEF Passes
  <1>5. {"wifi-tools", "other-wifi-tools", "brcmfmac-firmware"} \subseteq Refuses(On[f]) BY <1>1 DEF Refuses
  <1>6. b \cap {"wifi-tools", "other-wifi-tools", "brcmfmac-firmware"} = {}
    BY <1>1, <1>5 DEF Passes, Bars
  <1>7. b \cap Firmware = {} BY <1>6, PublicAssumption
  <1> QED BY <1>2, <1>4, <1>6, <1>7

LEMMA ContentsVerify ==
  ASSUME NEW b \in Public, NEW f \in {"wifi-h1b-base", "wifi-h1b-base-raw"}, Passes(b, f),
         NEW r \in Requests, Accepts(b, r), NEW n \in Nat
  PROVE  Verified(b, Contents(b, r, n))
  <1> PICK F : F = Contents(b, r, n) OBVIOUS
  <1> PICK M : M = Manifest(b, r, n) OBVIOUS
  <1> PICK E : E = Entries(b, Initramfs(r)) OBVIOUS
  <1>1. /\ DOMAIN F = Files /\ F["m1n1-linux.bin"] = Compose(r, n) /\ F["bootargs"] = Bootargs(n)
        /\ F["initramfs.gz"] = Initramfs(r) /\ F["PRIVATE_MANIFEST.json"] = M
    BY ContentsFacts
  <1>2. Complete(F) BY <1>1, OrderFacts DEF Complete
  <1>3. F["m1n1-linux.bin"] = M.payload /\ F["bootargs"] = Bootargs(M.run_id)
    BY <1>1, ManifestFacts
  <1>4. Embedded(F) BY <1>1, ComposeParts DEF Embedded
  <1>5. E = b \cup Overlay(r) BY DEF Entries, Initramfs
  <1>6. ~HasWifi(b) BY WifiBase DEF HasWifi
  <1>7. r.userland <=> r.credentials BY <1>6 DEF Accepts
  <1>8. FirmwareMatches(M, E)
    <2>1. M.assets = Staged(r) /\ M.touch = r.touch BY DEF Manifest
    <2>2. Staged(r) \subseteq E BY <1>5 DEF Overlay
    <2>3. E \cap Firmware \subseteq Staged(r)
      <3>1. b \cap Firmware = {} BY WifiBase
      <3>2. Overlay(r) \cap Firmware \subseteq Staged(r) BY DEF Overlay, Firmware
      <3> QED BY <3>1, <3>2, <1>5
    <2>4. r.touch => {"touch-firmware", "apple_z2.ko"} \subseteq E
      BY <1>5 DEF Overlay, Accepts
    <2> QED BY <2>1, <2>2, <2>3, <2>4 DEF FirmwareMatches
  <1>9. UserlandMatches(M, E)
    <2>1. M.credentials = r.credentials BY DEF Manifest
    <2>2. M.userland <=> r.userland BY <1>6 DEF Manifest
    <2>3. "other-wifi-tools" \notin E /\ ("wifi-tools" \in E => r.userland)
      <3>1. "other-wifi-tools" \notin b /\ "wifi-tools" \notin b BY WifiBase
      <3>2. "other-wifi-tools" \notin Overlay(r) /\ ("wifi-tools" \in Overlay(r) => r.userland)
        BY DEF Overlay, Staged, NvramStaged
      <3> QED BY <3>1, <3>2, <1>5
    <2>4. r.userland => {"wifi-tools", "wifi-up", "udhcpc"} \subseteq E BY <1>5 DEF Overlay
    <2>5. r.credentials => "wpa_supplicant.conf" \in E BY <1>5 DEF Overlay
    <2> QED BY <2>1, <2>2, <2>3, <2>4, <2>5, <1>7 DEF UserlandMatches
  <1>10. "ecm.usb0" \in E /\ "brcmfmac.debug" \in b BY <1>5, WifiBase
  <1> QED BY <1>1, <1>2, <1>3, <1>4, <1>8, <1>9, <1>10 DEF Verified

LEMMA AssembledVerifiesOf == IInv => AssembledVerifies
  <1> SUFFICES ASSUME IInv, damage = 0,
                      NEW f \in {"wifi-h1b-base", "wifi-h1b-base-raw"}, Passes(build, f),
                      NEW d \in Dirs, Complete(disk[d])
               PROVE  Verified(build, disk[d])
    BY DEF AssembledVerifies
  <1> PICK w \in [1..tokens -> Granted], cut \in SUBSET (1..tokens) : Account(w, cut) BY DEF IInv
  <1>1. tokens \in Nat BY DEF Account, Numbers
  <1>2. DOMAIN disk[d] = Files BY OrderFacts DEF Complete
  <1>3. disk[d] # NoFiles /\ \A j \in cut : disk[d] # Torn(w, j)
    BY <1>1, <1>2, NothingThere, TornFacts DEF Files
  <1>4. PICK n \in (1..tokens) \ cut, k \in 1..4 : disk[d] = Part(w, n, k)
    BY <1>3 DEF Account, Untouched
  <1>5. disk[d] = Contents(build, w[n], n) BY <1>1, <1>2, <1>4, PartFacts DEF Whose
  <1>6. w[n] \in Requests /\ Accepts(build, w[n]) /\ n \in Nat BY <1>1 DEF Granted
  <1>7. build \in Public BY <1>1 DEF Account, Numbers
  <1> QED BY <1>5, <1>6, <1>7, ContentsVerify

\* "FAIL after assembly" never comes of what the operator asked for, on a
\* build that passes as a Wi-Fi base
\* (boot/assemble_private_wifi_payload.py, assemble and verify).
THEOREM AssembledVerifiesHolds == Spec => []AssembledVerifies
  BY AssembledVerifiesOf, Accounted, PTL
=============================================================================
