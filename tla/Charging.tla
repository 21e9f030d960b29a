------------------------------ MODULE Charging ------------------------------
(***************************************************************************)
(* Who sets the input current limit: boot/charging-policy.sh, a daemon     *)
(* that reads the gauge and writes the charger driver's property, and      *)
(* action_charging_switch() of boot/ipad_console.py, an operator's tool    *)
(* that writes the same register over i2c from the host.  Neither knows of *)
(* the other; the battery changes between any two of their steps.          *)
(* They meet in the initramfs, where the policy is started once; the NixOS *)
(* it may hand over to has a policy that systemd restarts, and no telnet   *)
(* for the console.                                                        *)
(***************************************************************************)
EXTENDS ChargeCurrent

CONSTANTS Temps,       \* battery temperatures, in tenths of a degree
          Caps,        \* its capacities, in percent
          Tiers,       \* codes of the console's menu
          Customs,     \* currents in mA an operator types in
          Polls,       \* polls after a switch (6)
          WaitSecs,    \* seconds the policy waits for sysfs (120)
          MaxEnv,      \* bound: changes of the battery
          MaxSessions, \* bound: uses of the console's action
          MaxFails     \* bound: failed writes and lost connections

TargetUa == 2400000
SafeUa   == 500000
Hot      == 420        \* HOT_DECI, and CHARGING_TEMP_ABORT_C
Cool     == 380
MaxCap   == 80
Resting  == 74         \* SAFE_RESTING_CODE, 0x4a
MaxMa    == 2400       \* MAX_VALIDATED_CHARGING_MA
Unread   == -1000      \* a reading the script does not take for a number

ASSUME ChargingAssumption ==
  /\ Temps \subseteq Int /\ Caps \subseteq 0..100
  /\ Tiers \subseteq {k \in Code : Decode(k) <= MaxMa} /\ Customs \subseteq Int
  /\ Polls \in Nat \ {0} /\ WaitSecs \in Nat
  /\ {MaxEnv, MaxSessions, MaxFails} \subseteq Nat

VARIABLES code,        \* the register 0x04c0
          temp, cap,   \* the battery
          readable,    \* the gauge's uevent has temperature and capacity
          ready,       \* the charger's property and the gauge exist
          stage,       \* the system that runs: the initramfs, or NixOS in RAM
          ppc,         \* where the policy is
          waited, t, c, hot, want,
          cpc,         \* where the console's action is
          tier, polls,
          cooled,      \* history: the battery was cool since the policy saw it hot
          left,        \* history: the console's tier is in the register, not kept
          env, sessions, fails

batteryVars == <<temp, cap, readable>>
policyVars  == <<ppc, waited, t, c, hot, want>>
consoleVars == <<cpc, tier, polls>>
bounds      == <<env, sessions, fails>>
vars == <<code, batteryVars, ready, stage, policyVars, consoleVars, cooled, left, bounds>>

Init == /\ code = 2                         \* the 100 mA of power-on
        /\ temp \in Temps /\ cap \in Caps /\ readable = TRUE
        /\ ready = FALSE /\ stage = "initramfs"
        /\ ppc = "wait" /\ waited = 0 /\ t = Unread /\ c = Unread
        /\ hot = FALSE /\ want = SafeUa
        /\ cpc = "menu" /\ tier = Resting /\ polls = 0
        /\ cooled = TRUE /\ left = FALSE
        /\ env = 0 /\ sessions = 0 /\ fails = 0

-----------------------------------------------------------------------------
(* The battery and its gauge.                                              *)

Battery == /\ env < MaxEnv /\ env' = env + 1
           /\ temp' \in Temps /\ cap' \in Caps /\ readable' \in BOOLEAN
           /\ <<temp', cap', readable'>> # batteryVars
           /\ cooled' = (cooled \/ temp' <= Cool)
           /\ UNCHANGED <<code, ready, stage, policyVars, consoleVars, left, sessions, fails>>

\* The gauge is identified, by itself or after the script binds it again.
Ready == /\ ~ready /\ ready' = TRUE
         /\ UNCHANGED <<code, batteryVars, stage, policyVars, consoleVars, cooled, left, bounds>>

-----------------------------------------------------------------------------
(* charging-policy.sh.                                                     *)

Goto(there) == ppc' = there

PolicyWaits == /\ ppc = "wait" /\ ~ready /\ waited < WaitSecs
               /\ waited' = waited + 1
               /\ UNCHANGED <<code, batteryVars, ready, stage, ppc, t, c, hot, want, consoleVars,
                              cooled, left, bounds>>

PolicyStarts == /\ ppc = "wait" /\ ready
                /\ Goto("temp") /\ hot' = FALSE
                /\ UNCHANGED <<code, batteryVars, ready, stage, waited, t, c, want, consoleVars,
                               cooled, left, bounds>>

\* "sysfs not available": the script exits.
PolicyGivesUp == /\ ppc = "wait" /\ ~ready /\ waited = WaitSecs
                 /\ Goto("gone")
                 /\ UNCHANGED <<code, batteryVars, ready, stage, waited, t, c, hot, want,
                                consoleVars, cooled, left, bounds>>

\* Nothing starts it again in the initramfs; in NixOS systemd does, after
\* five seconds.
PolicyRestarts == /\ ppc = "gone" /\ stage = "nixos"
                  /\ Goto("wait") /\ waited' = 0
                  /\ UNCHANGED <<code, batteryVars, ready, stage, t, c, hot, want, consoleVars,
                                 cooled, left, bounds>>

\* nixos-handoff.sh kills the policy and telnetd; NixOS starts a policy of
\* its own, which knows nothing of the battery yet.
Handoff == /\ stage = "initramfs" /\ stage' = "nixos"
           /\ Goto("wait") /\ waited' = 0
           /\ cooled' = TRUE
           /\ UNCHANGED <<code, batteryVars, ready, t, c, hot, want, consoleVars, left, bounds>>

ReadTemp == /\ ppc = "temp" /\ Goto("capacity")
            /\ t' = IF readable THEN temp ELSE Unread
            /\ cooled' = IF readable /\ temp < Hot THEN cooled ELSE temp <= Cool
            /\ UNCHANGED <<code, batteryVars, ready, stage, waited, c, hot, want, consoleVars, left, bounds>>

ReadCapacity == /\ ppc = "capacity" /\ Goto("decide")
                /\ c' = IF readable THEN cap ELSE Unread
                /\ UNCHANGED <<code, batteryVars, ready, stage, waited, t, hot, want, consoleVars,
                               cooled, left, bounds>>

\* Mutant: no hysteresis.
LatchNow == t = Unread \/ t >= Hot

\* The latch: set by a hot or an unknown temperature, reset by a cool one.
Latch == IF t = Unread \/ t >= Hot THEN TRUE ELSE IF t <= Cool THEN FALSE ELSE hot

\* Mutant: off by one at the cap.
WantsAtCap(h) == IF t = Unread \/ c = Unread \/ c > MaxCap \/ h THEN SafeUa ELSE TargetUa

\* 2400 mA only with both readings, below the cap, and not hot.
Wants(h) == IF t = Unread \/ c = Unread \/ c >= MaxCap \/ h THEN SafeUa ELSE TargetUa

Decide == /\ ppc = "decide" /\ Goto("look")
          /\ hot' = Latch /\ want' = Wants(Latch)
          /\ UNCHANGED <<code, batteryVars, ready, stage, waited, t, c, consoleVars, cooled, left, bounds>>

\* want(): nothing to do when the limit reads as it should.
Look == /\ ppc = "look"
        /\ Goto(IF Decode(code) * 1000 = want THEN "sleep" ELSE "write")
        /\ UNCHANGED <<code, batteryVars, ready, stage, waited, t, c, hot, want, consoleVars,
                       cooled, left, bounds>>

\* set_limit(): the read back that follows is only logged.
SetLimit == /\ ppc = "write" /\ Goto("sleep")
            /\ code' = SetProperty(want) /\ left' = FALSE
            /\ UNCHANGED <<batteryVars, ready, stage, waited, t, c, hot, want, consoleVars, cooled, bounds>>

SetLimitFails == /\ ppc = "write" /\ Goto("sleep")
                 /\ fails < MaxFails /\ fails' = fails + 1
                 /\ UNCHANGED <<code, batteryVars, ready, stage, waited, t, c, hot, want, consoleVars,
                                cooled, left, env, sessions>>

Sleep == /\ ppc = "sleep" /\ Goto("temp")
         /\ UNCHANGED <<code, batteryVars, ready, stage, waited, t, c, hot, want, consoleVars,
                        cooled, left, bounds>>

-----------------------------------------------------------------------------
(* action_charging_switch().                                               *)

CGoto(there) == cpc' = there

\* The operator picks a tier or types a current, perhaps long after the
\* baseline was read.
Pick(x) == /\ cpc = "menu" /\ sessions < MaxSessions /\ sessions' = sessions + 1
           /\ tier' = x /\ CGoto("write")
           /\ UNCHANGED <<code, batteryVars, ready, stage, policyVars, polls, cooled, left, env, fails>>

\* Mutant: a current is not checked against the validated maximum.
AnyCustom(ma) == Pick(EncodeConsole(ma))

Custom(ma) == ma <= MaxMa /\ Pick(EncodeConsole(ma))

\* NixOS has no telnetd: there every command of the console is lost.
Linked == stage = "initramfs"
Slips == IF Linked THEN fails < MaxFails /\ fails' = fails + 1 ELSE UNCHANGED fails

\* A command over the link; when it is lost it may have run all the same.
Lost(x) == /\ Slips
           /\ code' \in IF Linked THEN {x, code} ELSE {code}
           /\ left' = FALSE /\ CGoto("menu")
           /\ UNCHANGED <<batteryVars, ready, stage, policyVars, tier, polls, cooled, env, sessions>>

WriteTier == /\ cpc = "write" /\ Linked /\ CGoto("readback")
             /\ code' = tier /\ left' = TRUE
             /\ UNCHANGED <<batteryVars, ready, stage, policyVars, tier, polls, cooled, bounds>>

WriteLost == cpc = "write" /\ Lost(tier)

\* Another value in the register: not polling, and nothing to restore.
Readback == /\ cpc = "readback" /\ Linked
            /\ CGoto(IF code = tier THEN "poll" ELSE "menu")
            /\ polls' = 0
            /\ UNCHANGED <<code, batteryVars, ready, stage, policyVars, tier, cooled, left, bounds>>

\* A poll of the gauge: too hot, or the link is gone, aborts.
Poll == /\ cpc = "poll" /\ Linked
        /\ polls' = polls + 1
        /\ CGoto(IF readable /\ temp >= Hot THEN "abort"
                 ELSE IF polls + 1 = Polls THEN "ask" ELSE "poll")
        /\ UNCHANGED <<code, batteryVars, ready, stage, policyVars, tier, cooled, left, bounds>>

PollLost == /\ cpc = "poll" /\ Slips
            /\ CGoto("abort")
            /\ UNCHANGED <<code, batteryVars, ready, stage, policyVars, tier, polls, cooled, left,
                           env, sessions>>

\* Mutant: an abort leaves the tier in place.
AbortOnly == /\ cpc \in {"abort", "ask"} /\ Linked /\ CGoto("menu")
             /\ IF cpc = "ask" THEN code' = Resting /\ left' = FALSE
                               ELSE UNCHANGED <<code, left>>
             /\ UNCHANGED <<batteryVars, ready, stage, policyVars, tier, polls, cooled, bounds>>

\* After an abort, or when the operator does not keep the tier.
Restore == /\ cpc \in {"abort", "ask"} /\ Linked /\ CGoto("menu")
           /\ code' = Resting /\ left' = FALSE
           /\ UNCHANGED <<batteryVars, ready, stage, policyVars, tier, polls, cooled, bounds>>

RestoreLost == cpc \in {"abort", "ask"} /\ Lost(Resting)

Keep == /\ cpc = "ask" /\ CGoto("menu") /\ left' = FALSE
        /\ UNCHANGED <<code, batteryVars, ready, stage, policyVars, tier, polls, cooled, bounds>>

\* Ctrl-C, or the link lost at the read back: the tool leaves the register as
\* it is.
Interrupt == /\ cpc \in {"readback", "poll", "ask"} /\ Slips
             /\ left' = FALSE /\ CGoto("menu")
             /\ UNCHANGED <<code, batteryVars, ready, stage, policyVars, tier, polls, cooled,
                            env, sessions>>

Policy == \/ PolicyWaits \/ PolicyStarts \/ PolicyGivesUp \/ PolicyRestarts
          \/ ReadTemp \/ ReadCapacity \/ Decide \/ Look \/ SetLimit \/ Sleep

Console == \/ \E x \in Tiers : Pick(x)
           \/ \E ma \in Customs : Custom(ma)
           \/ WriteTier \/ WriteLost \/ Readback \/ Poll \/ PollLost
           \/ Restore \/ RestoreLost \/ Keep \/ Interrupt

Next == Battery \/ Ready \/ Policy \/ SetLimitFails \/ Handoff \/ Console

Spec == Init /\ [][Next]_vars

\* The policy's loop runs: a process of the initramfs until it exits for
\* good or is killed, in NixOS a service that systemd starts again.  Neither
\* the gauge, the operator nor a hand-over is fair.
FairSpec == Spec /\ WF_vars(Policy)

-----------------------------------------------------------------------------
(* Properties.                                                             *)

TypeOK ==
  /\ code \in Code /\ temp \in Temps /\ cap \in Caps
  /\ readable \in BOOLEAN /\ ready \in BOOLEAN
  /\ stage \in {"initramfs", "nixos"}
  /\ ppc \in {"wait", "gone", "temp", "capacity", "decide", "look", "write", "sleep"}
  /\ waited \in 0..WaitSecs /\ t \in Temps \cup {Unread} /\ c \in Caps \cup {Unread}
  /\ hot \in BOOLEAN /\ want \in {SafeUa, TargetUa}
  /\ cpc \in {"menu", "write", "readback", "poll", "abort", "ask"}
  /\ tier \in Code /\ polls \in 0..Polls
  /\ cooled \in BOOLEAN /\ left \in BOOLEAN
  /\ env \in 0..MaxEnv /\ sessions \in 0..MaxSessions
  /\ fails \in 0..MaxFails

\* Both writers together never ask for more than the validated 2400 mA.
NeverAboveValidated == Decode(code) <= MaxMa

\* Between a reading of 42 C or none and the next raise by the same policy
\* process the battery was at 38 C or less: the limit does not chatter.
RaisesOnlyCooled ==
  [][ppc = "write" /\ code' # code /\ want = TargetUa => cooled]_vars

Raised == code > SetProperty(SafeUa)
Unsafe == ~readable \/ temp >= Hot \/ cap >= MaxCap

\* A policy evaluates, or systemd will start one that does.  The policy of
\* the initramfs counts only once it is past its wait: it may give up.
Watched == ready /\ (stage = "nixos" \/ ppc \notin {"wait", "gone"})

\* However the console and a policy that is there interleave, a limit above
\* the safe one on a hot, full or unreadable battery comes down unless the
\* battery recovers: after the console restored 1000 mA over the policy's
\* 500 mA in its own abort, and after a hand-over killed the policy between
\* its reading and its write.
BacksOff == Unsafe /\ Raised /\ Watched ~> ~(Unsafe /\ Raised)

\* Once the battery and the console rest the policy stops writing: it
\* recognises its own limits when it reads them back.
Settles == <>[](ppc # "write")

\* A tier nobody kept does not stay behind when the action is over: it was
\* restored, or the policy has overwritten it, unless the link was lost or the
\* operator interrupted the tool.
NothingLeft == cpc = "menu" => ~left
=============================================================================
