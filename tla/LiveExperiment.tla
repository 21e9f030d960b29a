--------------------------- MODULE LiveExperiment ---------------------------
(***************************************************************************)
(* The Bluetooth and serial-port experiments of boot/bt_*.py and           *)
(* boot/uart3_*.py: scripts on the host that change registers of the       *)
(* running tablet, one short session per command, and put back what they   *)
(* found in a finally block.  A session may fail before or after its       *)
(* command ran or answer nonsense, and a command whose session is given up *)
(* may still run on the tablet, or not yet have begun.                     *)
(*                                                                         *)
(* A part is a register (or the attach daemon, or the firmware path) and   *)
(* is as the script found it or changed.                                   *)
(***************************************************************************)
EXTENDS Naturals, Sequences, Functions

CONSTANTS Scripts,           \* the scripts that may be run, of the records below
          MaxStrays          \* bound: commands given up in one run

VARIABLES script,            \* the script that runs
          pc, place,         \* where it is, and in which of its writes or comparisons
          part,              \* the tablet's parts: "found" or "changed"
          own,               \* what is left of the command the script waits for
          strays,            \* what is left of those it has given up
          same,              \* every part compared so far was as found
          outcome,           \* how the script ended
          trouble,           \* history: a write of the finally block was lost
          late               \* history: parts a given-up command wrote since the script put them back

liveVars == <<script, pc, place, part, own, strays, same, outcome, trouble, late>>

Parts == {"power", "wake", "pads", "uart", "path", "attach"}

\* A write of a command: to the experiment's value, or to the value found.
Up(p)   == <<p, "changed">>
Down(p) == <<p, "found">>

(***************************************************************************)
(* One record per script: what it writes first and whether it looks at     *)
(* each write, at all of them together, or at none; the commands it probes *)
(* with; what it puts back, in order; and what it compares afterwards.     *)
(***************************************************************************)
bt_live_bringup ==
  [name |-> "bt_live_bringup", writes |-> <<"pads", "wake", "power">>, check |-> "all",
   commands |-> {<<Up("attach")>>, <<Down("attach")>>, <<Up("path")>>},
   restore |-> <<"attach", "path", "power", "wake", "uart", "pads">>,
   verify |-> <<"uart", "pads", "wake", "power", "attach">>]

\* Mutant: the port's registers are forgotten in the finally block.
bt_3m_forgets ==
  [name |-> "bt_3m_probe", writes |-> <<"wake", "power">>, check |-> "each",
   commands |-> {<<Up("uart")>>},
   restore |-> <<"attach", "power", "wake">>, verify |-> <<"power", "wake">>]

bt_3m_probe ==
  [name |-> "bt_3m_probe", writes |-> <<"wake", "power">>, check |-> "each",
   commands |-> {<<Up("uart")>>},
   restore |-> <<"attach", "power", "wake", "uart">>, verify |-> <<"power", "wake">>]

bt_chip_gpio_watch ==
  [name |-> "bt_chip_gpio_watch", writes |-> <<"wake", "power">>, check |-> "none",
   commands |-> {}, restore |-> <<"power", "wake">>, verify |-> <<"power", "wake">>]

\* Its probes set the port's speed, which it never puts back.
bt_wake_experiment ==
  [name |-> "bt_wake_experiment", writes |-> <<"wake", "power">>, check |-> "each",
   commands |-> {<<Up("uart")>>, <<Up("attach"), Down("attach")>>},
   restore |-> <<"attach", "power", "wake">>, verify |-> <<"power", "wake">>]

bt_pinmux_ab ==
  [name |-> "bt_pinmux_ab", writes |-> <<"pads", "wake", "power">>, check |-> "each",
   commands |-> {<<Up("uart")>>},
   restore |-> <<"attach", "power", "wake", "uart", "pads">>, verify |-> <<"power", "pads", "wake">>]

\* The power-up itself is what this one listens to: each command raises the
\* lines and lowers them again.
bt_powerup_listen ==
  [name |-> "bt_powerup_listen", writes |-> <<>>, check |-> "none",
   commands |-> {<<Up("uart"), Up("wake"), Up("power"), Down("power"), Down("wake")>>},
   restore |-> <<"power", "wake", "uart">>, verify |-> <<"power", "wake">>]

\* These two print the registers at the end and compare nothing.
uart3_frame_experiment ==
  [name |-> "uart3_frame_experiment", writes |-> <<>>, check |-> "none",
   commands |-> {<<Up("uart")>>}, restore |-> <<"uart">>, verify |-> <<>>]

uart3_baud_experiment ==
  [name |-> "uart3_baud_experiment", writes |-> <<>>, check |-> "none",
   commands |-> {<<Up("uart")>>}, restore |-> <<"uart">>, verify |-> <<>>]

AllScripts == {bt_live_bringup, bt_3m_probe, bt_chip_gpio_watch, bt_wake_experiment,
               bt_pinmux_ab, bt_powerup_listen, uart3_frame_experiment, uart3_baud_experiment}

ASSUME ScriptsAssumption == Scripts \subseteq AllScripts /\ MaxStrays \in Nat

LiveInit ==
  /\ script \in Scripts /\ pc = "baseline" /\ place = 1
  /\ part = [p \in Parts |-> "found"]
  /\ own = <<>> /\ strays = <<>> /\ same = TRUE /\ outcome = "none"
  /\ trouble = FALSE /\ late = {}

-----------------------------------------------------------------------------
(* The sessions: run().  When the session of a command of one write is     *)
(* over the write has happened, never will, or is still to come.           *)

Whens == {"now", "never", "later"}

GivenUp(command) == Len(strays) < MaxStrays /\ strays' = Append(strays, command)

Sends(p, value, when) ==
  /\ part' = IF when = "now" THEN [part EXCEPT ![p] = value] ELSE part
  /\ IF when = "later" THEN GivenUp(<<<<p, value>>>>) ELSE UNCHANGED strays

-----------------------------------------------------------------------------
(* The script.                                                             *)

End(how) == pc' = "done" /\ outcome' = how

\* A tool is missing, btattach runs, a register is not as expected or cannot
\* be read: nothing was written.
Refuses == /\ pc = "baseline" /\ End("refused")
           /\ UNCHANGED <<script, place, part, own, strays, same, trouble, late>>

Baseline == /\ pc = "baseline" /\ pc' = IF script.writes = <<>> THEN "probe" ELSE "write"
            /\ UNCHANGED <<script, place, part, own, strays, same, outcome, trouble, late>>

\* One write, and the look at it, or at all of them: what is not shown as it
\* was written keeps the script from going on.
Write == /\ pc = "write"
         /\ \E when \in Whens, shown \in BOOLEAN :
              LET last  == place = Len(script.writes)
                  looks == script.check = "each" \/ (script.check = "all" /\ last)
                  stop  == looks /\ ~shown
              IN  /\ Sends(script.writes[place], "changed", when)
                  /\ shown => \A n \in 1..place : (n = place \/ script.check = "all") => part'[script.writes[n]] = "changed"
                  /\ pc' = IF stop THEN "restore" ELSE IF last THEN "probe" ELSE "write"
                  /\ place' = IF stop \/ last THEN 1 ELSE place + 1
         /\ UNCHANGED <<script, own, same, outcome, trouble, late>>

\* An exception or ^C in the try block: the write may have happened.
WriteRaises == /\ pc = "write" /\ pc' = "restore" /\ place' = 1
               /\ \E when \in Whens : Sends(script.writes[place], "changed", when)
               /\ UNCHANGED <<script, own, same, outcome, trouble, late>>

\* The next rate, frame or attempt, or the end of the try block.
Probe == /\ pc = "probe" /\ own = <<>>
         /\ \/ own' \in script.commands /\ pc' = "probe"
            \/ own' = <<>> /\ pc' = "restore"
         /\ place' = 1
         /\ UNCHANGED <<script, part, strays, same, outcome, trouble, late>>

\* The session of a command ends before it: at the deadline or when telnet
\* loses it the script just goes on; ssh's deadline and ^C raise.  The tablet
\* kills the command, or works on.
Loses == /\ pc = "probe" /\ own # <<>> /\ own' = <<>>
         /\ GivenUp(own) \/ UNCHANGED strays
         /\ pc' \in {"probe", "restore"} /\ place' = 1
         /\ UNCHANGED <<script, part, same, outcome, trouble, late>>

\* One write of the finally block; nothing is read back before the end.
Restore == /\ pc = "restore"
           /\ \E when \in Whens :
                /\ Sends(script.restore[place], "found", when)
                /\ trouble' = (trouble \/ when # "now")
                /\ late' = IF when = "now" THEN late \ {script.restore[place]} ELSE late
           /\ IF place = Len(script.restore) THEN pc' = "verify" /\ place' = 1
                                             ELSE pc' = "restore" /\ place' = place + 1
           /\ UNCHANGED <<script, own, same, outcome>>

\* An exception there ends the script, and the writes that follow are skipped.
RestoreRaises ==
  /\ pc \in {"restore", "verify"} /\ End("traceback") /\ trouble' = TRUE
  /\ IF pc = "restore" THEN \E when \in Whens : Sends(script.restore[place], "found", when)
                       ELSE UNCHANGED <<part, strays>>
  /\ UNCHANGED <<script, place, own, same, late>>

\* Mutant: a register that cannot be read is taken as restored.
CompareReadable == /\ pc = "verify" /\ place <= Len(script.verify) /\ place' = place + 1
                   /\ \E readable \in BOOLEAN :
                        same' = (same /\ (readable => part[script.verify[place]] = "found"))
                   /\ UNCHANGED <<script, pc, part, own, strays, outcome, trouble, late>>

\* The final comparison, one session per part; what cannot be read does not
\* compare equal.
Compare == /\ pc = "verify" /\ place <= Len(script.verify) /\ place' = place + 1
           /\ \E readable \in BOOLEAN :
                same' = (same /\ readable /\ part[script.verify[place]] = "found")
           /\ UNCHANGED <<script, pc, part, own, strays, outcome, trouble, late>>

Says == /\ pc = "verify" /\ place > Len(script.verify)
        /\ End(IF script.verify = <<>> THEN "silent" ELSE IF same THEN "ok" ELSE "failed")
        /\ UNCHANGED <<script, place, part, own, strays, same, trouble, late>>

-----------------------------------------------------------------------------
(* The tablet.                                                             *)

Does(command) == part' = [part EXCEPT ![Head(command)[1]] = Head(command)[2]]

Works == /\ own # <<>> /\ Does(own) /\ own' = Tail(own)
         /\ UNCHANGED <<script, pc, place, strays, same, outcome, trouble, late>>

\* Who starts or stops the daemon has a hand in the port as well.
Touches(p) == IF p = "attach" THEN {"attach", "uart"} ELSE {p}

WorksOn(n) == /\ strays[n] # <<>> /\ Does(strays[n])
              /\ strays' = [strays EXCEPT ![n] = Tail(@)]
              /\ late' = late \cup Touches(Head(strays[n])[1])
              /\ UNCHANGED <<script, pc, place, own, same, outcome, trouble>>

\* A command is killed when the tablet notices the end of its session.
Killed(n) == /\ strays[n] # <<>> /\ strays' = [strays EXCEPT ![n] = <<>>]
             /\ UNCHANGED <<script, pc, place, part, own, same, outcome, trouble, late>>

\* While btattach runs the kernel's driver sets the port as it likes.
Drives == /\ part["attach"] = "changed" /\ part' = [part EXCEPT !["uart"] = "changed"]
          /\ late' = IF "attach" \in late THEN late \cup {"uart"} ELSE late
          /\ UNCHANGED <<script, pc, place, own, strays, same, outcome, trouble>>

-----------------------------------------------------------------------------
Script == \/ Refuses \/ Baseline \/ Write \/ WriteRaises \/ Probe \/ Loses
          \/ Restore \/ RestoreRaises \/ Compare \/ Says

LiveNext == \/ Script \/ Works \/ Drives
            \/ \E n \in 1..Len(strays) : WorksOn(n) \/ Killed(n)

LiveSpec == LiveInit /\ [][LiveNext]_liveVars

-----------------------------------------------------------------------------
(* Properties.                                                             *)

Changed == {p \in Parts : part[p] = "changed"}
Writes  == Parts \X {"found", "changed"}

LiveTypeOK ==
  /\ script \in AllScripts /\ place \in Nat \ {0} /\ same \in BOOLEAN /\ trouble \in BOOLEAN
  /\ pc \in {"baseline", "write", "probe", "restore", "verify", "done"}
  /\ part \in [Parts -> {"found", "changed"}] /\ late \subseteq Parts
  /\ own \in Seq(Writes) /\ strays \in Seq(Seq(Writes))
  /\ outcome \in {"none", "refused", "ok", "failed", "silent", "traceback"}

\* "restored OK" is true of everything the script compares, whatever was lost
\* on the way, but for what a command that was given up still did to it:
\* nothing in the scripts waits for such a command to end.
VerdictTrue == outcome = "ok" => Changed \cap Range(script.verify) \subseteq late

\* bt_wake_experiment leaves the port at the speed of its last probe.
Kept == IF script.name = "bt_wake_experiment" THEN {"uart"} ELSE {}

\* If no write of the finally block was lost, nothing at all that the try
\* block, its commands or the daemon changed stays changed, wherever the try
\* block ended, but for what a given-up command did after its part was put
\* back: the block has a write for everything, and stops the daemon before it
\* puts back the port.
RestoresAll == pc = "done" /\ ~trouble => Changed \subseteq late \cup Kept

=============================================================================
