--------------------------- MODULE ChargingProofs ---------------------------
(***************************************************************************)
(* The policy and the console together, for every battery, menu, number of *)
(* polls and bound.  One inductive invariant carries all four results: the *)
(* types, the codes both writers can hold (CodesLow), what the console's   *)
(* pending tier means (LeftInv), and what the policy's latch remembers     *)
(* (LatchInv).                                                             *)
(***************************************************************************)
EXTENDS Charging, ChargerAdc, TLAPS

MaxCode == 186

\* Registers and variables on their way to the register stay at 2400 mA.
CodesLow == code \in 0..MaxCode /\ tier \in 0..MaxCode

\* A tier the console still answers for is in the register.
LeftInv == left => cpc \in {"readback", "poll", "abort", "ask"} /\ code = tier

\* As long as the battery has not cooled down the policy knows it is hot, or
\* is about to find out.
LatchInv ==
  /\ ppc \in {"wait", "gone"} => cooled
  /\ ~cooled => temp > Cool
  /\ ~cooled /\ ppc \in {"temp", "look", "write", "sleep"} => hot
  /\ ~cooled /\ ppc \in {"capacity", "decide"} => Latch
  /\ ppc \in {"look", "write"} /\ want = TargetUa => ~hot

\* A poll is still to come.
PollsLeft == cpc = "poll" => polls < Polls

Inv == TypeOK /\ CodesLow /\ LeftInv /\ LatchInv /\ PollsLeft

-----------------------------------------------------------------------------
(* The codes the two writers produce.                                        *)

LEMMA LowDecodes ==
  ASSUME NEW k \in 0..MaxCode PROVE Decode(k) \in Int /\ Decode(k) <= MaxMa
  BY SMT DEF Decode, MaxCode, MaxMa

LEMMA TiersLow ==
  ASSUME NEW k \in Tiers PROVE k \in 0..MaxCode
<1>1. k \in 0..255 /\ Decode(k) <= 2400
  BY ChargingAssumption DEF Code, MaxMa
<1> QED BY <1>1, SMT DEF Decode, MaxCode

LEMMA CustomsLow ==
  ASSUME NEW ma \in Int, ma <= MaxMa PROVE EncodeConsole(ma) \in 0..MaxCode
<1> DEFINE x == (ma - 75) * 8 - 7
<1>1. x \in Int /\ x <= 18593
  BY SMT DEF MaxMa
<1> HIDE DEF x
<1>2. Round(x) \in Int /\ Round(x) <= 186
  <2>1. x \div 100 \in Int /\ x \div 100 <= 185
    BY <1>1, SMT
  <2> QED BY <2>1, SMT DEF Round
<1>3. Clamp(Round(x), 0, 253) \in 0..186
  BY <1>2, SMT DEF Clamp
<1> QED BY <1>3 DEF EncodeConsole, x, MaxCode

LEMMA LimitsLow ==
  ASSUME NEW w \in {SafeUa, TargetUa} PROVE SetProperty(w) \in 0..MaxCode
<1>1. SetProperty(500000) \in 0..MaxCode
  BY SMT DEF SetProperty, Encode, Clamp, DivRoundClosest, MaxCode
<1>2. SetProperty(2400000) \in 0..MaxCode
  BY SMT DEF SetProperty, Encode, Clamp, DivRoundClosest, MaxCode
<1> QED BY <1>1, <1>2, SMT DEF SafeUa, TargetUa

\* The numbers the steps rely on.
LEMMA Numbers ==
  /\ Code = 0..255 /\ 0..MaxCode \subseteq Code /\ 2 \in 0..MaxCode /\ Resting \in 0..MaxCode
  /\ SafeUa # TargetUa
  /\ Hot \in Int /\ Cool \in Int /\ Cool < Hot /\ Unread \in Int /\ Unread < Cool
  BY SMT DEF Code, MaxCode, Resting, SafeUa, TargetUa, Hot, Cool, Unread

-----------------------------------------------------------------------------
(* The actions in three groups, and the invariant's parts one at a time.     *)

EnvStep == Battery \/ Ready
PolicyStep == Policy \/ SetLimitFails \/ Handoff

LEMMA Steps == [Next]_vars => EnvStep \/ PolicyStep \/ Console \/ UNCHANGED vars
  BY DEF Next, EnvStep, PolicyStep

\* What the steps need of the constants.
LEMMA Constants ==
  /\ WaitSecs \in Nat /\ Polls \in Nat /\ 0 < Polls
  /\ MaxEnv \in Nat /\ MaxSessions \in Nat /\ MaxFails \in Nat
<1>1. WaitSecs \in Nat /\ Polls \in Nat /\ 0 < Polls
  <2>1. WaitSecs \in Nat /\ Polls \in Nat \ {0}
    BY ChargingAssumption
  <2> QED BY <2>1, SMT
<1>2. {MaxEnv, MaxSessions, MaxFails} \subseteq Nat
  BY ChargingAssumption
<1> QED BY <1>1, <1>2

\* TypeOK in two parts: each prover is good at one of them.
FlagsOK == /\ readable \in BOOLEAN /\ ready \in BOOLEAN /\ hot \in BOOLEAN
           /\ cooled \in BOOLEAN /\ left \in BOOLEAN

DataOK ==
  /\ code \in Code /\ temp \in Temps /\ cap \in Caps /\ stage \in {"initramfs", "nixos"}
  /\ ppc \in {"wait", "gone", "temp", "capacity", "decide", "look", "write", "sleep"}
  /\ waited \in 0..WaitSecs /\ t \in Temps \cup {Unread} /\ c \in Caps \cup {Unread}
  /\ want \in {SafeUa, TargetUa}
  /\ cpc \in {"menu", "write", "readback", "poll", "abort", "ask"}
  /\ tier \in Code /\ polls \in 0..Polls
  /\ env \in 0..MaxEnv /\ sessions \in 0..MaxSessions
  /\ fails \in 0..MaxFails

LEMMA TempIsInt == ASSUME DataOK PROVE temp \in Int /\ t \in Int
<1>1. Temps \subseteq Int
  BY ChargingAssumption
<1> QED BY <1>1, Numbers, SMT DEF DataOK

LEMMA InvInit == Init => Inv
<1> SUFFICES ASSUME Init PROVE Inv
  OBVIOUS
<1>1. FlagsOK
  BY DEF Init, FlagsOK
<1>2. DataOK
  BY Constants, Numbers, SMT DEF Init, DataOK
<1>3. CodesLow /\ LeftInv /\ LatchInv /\ PollsLeft
  BY Numbers, SMT DEF Init, CodesLow, LeftInv, LatchInv, PollsLeft
<1> QED BY <1>1, <1>2, <1>3 DEF Inv, TypeOK, FlagsOK, DataOK

\* Whatever the operator picks is at most 2400 mA.
LEMMA Picks ==
  ASSUME (\E x \in Tiers : Pick(x)) \/ (\E ma \in Customs : Custom(ma))
  PROVE  \E x \in 0..MaxCode : Pick(x)
<1>1. CASE \E x \in Tiers : Pick(x)
  BY <1>1, TiersLow
<1>2. CASE \E ma \in Customs : Custom(ma)
  <2>1. PICK ma \in Customs : Custom(ma)
    BY <1>2
  <2>2. ma \in Int
    BY ChargingAssumption
  <2>3. ma <= MaxMa /\ Pick(EncodeConsole(ma))
    BY <2>1 DEF Custom
  <2>4. EncodeConsole(ma) \in 0..MaxCode
    BY <2>2, <2>3, CustomsLow
  <2> QED BY <2>3, <2>4
<1> QED BY <1>1, <1>2

\* The flags stay Boolean.
LEMMA FlagsStep ==
  ASSUME FlagsOK, DataOK, [Next]_vars PROVE FlagsOK'
<1>1. CASE EnvStep
  <2>1. CASE Battery
    BY <2>1, Zenon DEF Battery, FlagsOK, batteryVars, policyVars, consoleVars, bounds
  <2>2. CASE Ready
    BY <2>2, Zenon DEF Ready, FlagsOK, batteryVars, policyVars, consoleVars, bounds
  <2> QED BY <1>1, <2>1, <2>2 DEF EnvStep
<1>2. CASE PolicyStep
  <2>1. CASE PolicyWaits
    BY <2>1, Zenon DEF PolicyWaits, FlagsOK, batteryVars, policyVars, consoleVars, bounds
  <2>2. CASE PolicyStarts
    BY <2>2, Zenon DEF PolicyStarts, FlagsOK, batteryVars, policyVars, consoleVars, bounds
  <2>3. CASE PolicyGivesUp
    BY <2>3, Zenon DEF PolicyGivesUp, FlagsOK, batteryVars, policyVars, consoleVars, bounds
  <2>4. CASE ReadTemp
    <3>1. (temp <= Cool) \in BOOLEAN
      BY TempIsInt, Numbers, SMT
    <3> QED BY <2>4, <3>1, Zenon DEF ReadTemp, FlagsOK, batteryVars, policyVars, consoleVars, bounds
  <2>5. CASE ReadCapacity
    BY <2>5, Zenon DEF ReadCapacity, FlagsOK, batteryVars, policyVars, consoleVars, bounds
  <2>6. CASE Decide
    BY <2>6, Zenon DEF Decide, Latch, FlagsOK, batteryVars, policyVars, consoleVars, bounds
  <2>7. CASE Look
    BY <2>7, Zenon DEF Look, FlagsOK, batteryVars, policyVars, consoleVars, bounds
  <2>8. CASE SetLimit
    BY <2>8, Zenon DEF SetLimit, FlagsOK, batteryVars, policyVars, consoleVars, bounds
  <2>9. CASE Sleep
    BY <2>9, Zenon DEF Sleep, FlagsOK, batteryVars, policyVars, consoleVars, bounds
  <2>10. CASE SetLimitFails
    BY <2>10, Zenon DEF SetLimitFails, FlagsOK, batteryVars, policyVars, consoleVars, bounds
  <2>11. CASE Handoff
    BY <2>11, Zenon DEF Handoff, FlagsOK, batteryVars, policyVars, consoleVars, bounds
  <2>12. CASE PolicyRestarts
    BY <2>12, Zenon DEF PolicyRestarts, FlagsOK, batteryVars, policyVars, consoleVars, bounds
  <2> QED BY <1>2, <2>1, <2>2, <2>3, <2>4, <2>5, <2>6, <2>7, <2>8, <2>9, <2>10, <2>11, <2>12 DEF PolicyStep, Policy
<1>3. CASE Console
  <2>1. ASSUME NEW x \in 0..MaxCode, Pick(x) PROVE FlagsOK'
    BY <2>1, Zenon DEF Pick, FlagsOK, batteryVars, policyVars, consoleVars, bounds
  <2>2. CASE (\E x \in Tiers : Pick(x)) \/ (\E ma \in Customs : Custom(ma))
    BY <2>1, <2>2, Picks
  <2>3. CASE WriteTier
    BY <2>3, Zenon DEF WriteTier, FlagsOK, batteryVars, policyVars, consoleVars, bounds
  <2>4. CASE WriteLost
    BY <2>4, Zenon DEF WriteLost, Lost, Slips, FlagsOK, batteryVars, policyVars, consoleVars, bounds
  <2>5. CASE Readback
    BY <2>5, Zenon DEF Readback, FlagsOK, batteryVars, policyVars, consoleVars, bounds
  <2>6. CASE Poll
    BY <2>6, Zenon DEF Poll, FlagsOK, batteryVars, policyVars, consoleVars, bounds
  <2>7. CASE PollLost
    BY <2>7, Zenon DEF PollLost, Slips, FlagsOK, batteryVars, policyVars, consoleVars, bounds
  <2>8. CASE Restore
    BY <2>8, Zenon DEF Restore, FlagsOK, batteryVars, policyVars, consoleVars, bounds
  <2>9. CASE RestoreLost
    BY <2>9, Zenon DEF RestoreLost, Lost, Slips, FlagsOK, batteryVars, policyVars, consoleVars, bounds
  <2>10. CASE Keep
    BY <2>10, Zenon DEF Keep, FlagsOK, batteryVars, policyVars, consoleVars, bounds
  <2>11. CASE Interrupt
    BY <2>11, Zenon DEF Interrupt, Slips, FlagsOK, batteryVars, policyVars, consoleVars, bounds
  <2> QED BY <1>3, <2>2, <2>3, <2>4, <2>5, <2>6, <2>7, <2>8, <2>9, <2>10, <2>11 DEF Console
<1>4. CASE UNCHANGED vars
  BY <1>4, Zenon DEF vars, FlagsOK, batteryVars, policyVars, consoleVars, bounds
<1> QED BY <1>1, <1>2, <1>3, <1>4, Steps

\* The other variables keep their types.
LEMMA DataStep ==
  ASSUME DataOK, CodesLow, PollsLeft, [Next]_vars PROVE DataOK'
<1>1. CASE EnvStep
  <2>1. CASE Battery
    BY <2>1, Constants, Numbers, SMT DEF Battery, DataOK, CodesLow, PollsLeft, Goto, CGoto, batteryVars, policyVars, consoleVars, bounds
  <2>2. CASE Ready
    BY <2>2, Constants, Numbers, SMT DEF Ready, DataOK, CodesLow, PollsLeft, Goto, CGoto, batteryVars, policyVars, consoleVars, bounds
  <2> QED BY <1>1, <2>1, <2>2 DEF EnvStep
<1>2. CASE PolicyStep
  <2>1. CASE PolicyWaits
    BY <2>1, Constants, Numbers, SMT DEF PolicyWaits, DataOK, CodesLow, PollsLeft, Goto, CGoto, batteryVars, policyVars, consoleVars, bounds
  <2>2. CASE PolicyStarts
    BY <2>2, Constants, Numbers, SMT DEF PolicyStarts, DataOK, CodesLow, PollsLeft, Goto, CGoto, batteryVars, policyVars, consoleVars, bounds
  <2>3. CASE PolicyGivesUp
    BY <2>3, Constants, Numbers, SMT DEF PolicyGivesUp, DataOK, CodesLow, PollsLeft, Goto, CGoto, batteryVars, policyVars, consoleVars, bounds
  <2>4. CASE ReadTemp
    BY <2>4, Constants, Numbers, SMT DEF ReadTemp, DataOK, CodesLow, PollsLeft, Goto, CGoto, batteryVars, policyVars, consoleVars, bounds
  <2>5. CASE ReadCapacity
    BY <2>5, Constants, Numbers, SMT DEF ReadCapacity, DataOK, CodesLow, PollsLeft, Goto, CGoto, batteryVars, policyVars, consoleVars, bounds
  <2>6. CASE Decide
    BY <2>6, Constants, Numbers, SMT DEF Decide, Wants, DataOK, CodesLow, PollsLeft, Goto, CGoto, batteryVars, policyVars, consoleVars, bounds
  <2>7. CASE Look
    BY <2>7, Constants, Numbers, SMT DEF Look, DataOK, CodesLow, PollsLeft, Goto, CGoto, batteryVars, policyVars, consoleVars, bounds
  <2>8. CASE SetLimit
    <3>1. SetProperty(want) \in 0..MaxCode
      BY LimitsLow DEF DataOK
    <3> QED BY <2>8, <3>1, Numbers, SMT DEF SetLimit, Goto, DataOK, batteryVars, policyVars, consoleVars, bounds
  <2>9. CASE Sleep
    BY <2>9, Constants, Numbers, SMT DEF Sleep, DataOK, CodesLow, PollsLeft, Goto, CGoto, batteryVars, policyVars, consoleVars, bounds
  <2>10. CASE SetLimitFails
    BY <2>10, Constants, Numbers, SMT DEF SetLimitFails, DataOK, CodesLow, PollsLeft, Goto, CGoto, batteryVars, policyVars, consoleVars, bounds
  <2>11. CASE Handoff
    BY <2>11, Constants, Numbers, SMT DEF Handoff, DataOK, CodesLow, PollsLeft, Goto, CGoto, batteryVars, policyVars, consoleVars, bounds
  <2>12. CASE PolicyRestarts
    BY <2>12, Constants, Numbers, SMT DEF PolicyRestarts, DataOK, CodesLow, PollsLeft, Goto, CGoto, batteryVars, policyVars, consoleVars, bounds
  <2> QED BY <1>2, <2>1, <2>2, <2>3, <2>4, <2>5, <2>6, <2>7, <2>8, <2>9, <2>10, <2>11, <2>12 DEF PolicyStep, Policy
<1>3. CASE Console
  <2>1. ASSUME NEW x \in 0..MaxCode, Pick(x) PROVE DataOK'
    BY <2>1, Constants, Numbers, SMT DEF Pick, DataOK, CodesLow, PollsLeft, Goto, CGoto, batteryVars, policyVars, consoleVars, bounds
  <2>2. CASE (\E x \in Tiers : Pick(x)) \/ (\E ma \in Customs : Custom(ma))
    BY <2>1, <2>2, Picks
  <2>3. CASE WriteTier
    BY <2>3, Constants, Numbers, SMT DEF WriteTier, DataOK, CodesLow, PollsLeft, Goto, CGoto, batteryVars, policyVars, consoleVars, bounds
  <2>4. CASE WriteLost
    BY <2>4, Constants, Numbers, SMT DEF WriteLost, Lost, Slips, DataOK, CodesLow, PollsLeft, Goto, CGoto, batteryVars, policyVars, consoleVars, bounds
  <2>5. CASE Readback
    BY <2>5, Constants, Numbers, SMT DEF Readback, DataOK, CodesLow, PollsLeft, Goto, CGoto, batteryVars, policyVars, consoleVars, bounds
  <2>6. CASE Poll
    BY <2>6, Constants, Numbers, SMT DEF Poll, DataOK, CodesLow, PollsLeft, Goto, CGoto, batteryVars, policyVars, consoleVars, bounds
  <2>7. CASE PollLost
    BY <2>7, Constants, Numbers, SMT DEF PollLost, Slips, DataOK, CodesLow, PollsLeft, Goto, CGoto, batteryVars, policyVars, consoleVars, bounds
  <2>8. CASE Restore
    BY <2>8, Constants, Numbers, SMT DEF Restore, DataOK, CodesLow, PollsLeft, Goto, CGoto, batteryVars, policyVars, consoleVars, bounds
  <2>9. CASE RestoreLost
    BY <2>9, Constants, Numbers, SMT DEF RestoreLost, Lost, Slips, DataOK, CodesLow, PollsLeft, Goto, CGoto, batteryVars, policyVars, consoleVars, bounds
  <2>10. CASE Keep
    BY <2>10, Constants, Numbers, SMT DEF Keep, DataOK, CodesLow, PollsLeft, Goto, CGoto, batteryVars, policyVars, consoleVars, bounds
  <2>11. CASE Interrupt
    BY <2>11, Constants, Numbers, SMT DEF Interrupt, Slips, DataOK, CodesLow, PollsLeft, Goto, CGoto, batteryVars, policyVars, consoleVars, bounds
  <2> QED BY <1>3, <2>2, <2>3, <2>4, <2>5, <2>6, <2>7, <2>8, <2>9, <2>10, <2>11 DEF Console
<1>4. CASE UNCHANGED vars
  BY <1>4, SMT DEF vars, DataOK, CodesLow, PollsLeft, Goto, CGoto, batteryVars, policyVars, consoleVars, bounds
<1> QED BY <1>1, <1>2, <1>3, <1>4, Steps

\* No writer has a code above 2400 mA.
LEMMA CodesStep ==
  ASSUME DataOK, CodesLow, [Next]_vars PROVE CodesLow'
<1>1. CASE EnvStep
  <2>1. CASE Battery
    BY <2>1, Numbers, SMT DEF Battery, CodesLow, batteryVars, policyVars, consoleVars, bounds
  <2>2. CASE Ready
    BY <2>2, Numbers, SMT DEF Ready, CodesLow, batteryVars, policyVars, consoleVars, bounds
  <2> QED BY <1>1, <2>1, <2>2 DEF EnvStep
<1>2. CASE PolicyStep
  <2>1. CASE PolicyWaits
    BY <2>1, Numbers, SMT DEF PolicyWaits, CodesLow, batteryVars, policyVars, consoleVars, bounds
  <2>2. CASE PolicyStarts
    BY <2>2, Numbers, SMT DEF PolicyStarts, CodesLow, batteryVars, policyVars, consoleVars, bounds
  <2>3. CASE PolicyGivesUp
    BY <2>3, Numbers, SMT DEF PolicyGivesUp, CodesLow, batteryVars, policyVars, consoleVars, bounds
  <2>4. CASE ReadTemp
    BY <2>4, Numbers, SMT DEF ReadTemp, CodesLow, batteryVars, policyVars, consoleVars, bounds
  <2>5. CASE ReadCapacity
    BY <2>5, Numbers, SMT DEF ReadCapacity, CodesLow, batteryVars, policyVars, consoleVars, bounds
  <2>6. CASE Decide
    BY <2>6, Numbers, SMT DEF Decide, CodesLow, batteryVars, policyVars, consoleVars, bounds
  <2>7. CASE Look
    BY <2>7, Numbers, SMT DEF Look, CodesLow, batteryVars, policyVars, consoleVars, bounds
  <2>8. CASE SetLimit
    <3>1. SetProperty(want) \in 0..MaxCode
      BY LimitsLow DEF DataOK
    <3> QED BY <2>8, <3>1, Numbers, SMT DEF SetLimit, Goto, CodesLow, batteryVars, policyVars, consoleVars, bounds
  <2>9. CASE Sleep
    BY <2>9, Numbers, SMT DEF Sleep, CodesLow, batteryVars, policyVars, consoleVars, bounds
  <2>10. CASE SetLimitFails
    BY <2>10, Numbers, SMT DEF SetLimitFails, CodesLow, batteryVars, policyVars, consoleVars, bounds
  <2>11. CASE Handoff
    BY <2>11, Numbers, SMT DEF Handoff, CodesLow, batteryVars, policyVars, consoleVars, bounds
  <2>12. CASE PolicyRestarts
    BY <2>12, Numbers, SMT DEF PolicyRestarts, CodesLow, batteryVars, policyVars, consoleVars, bounds
  <2> QED BY <1>2, <2>1, <2>2, <2>3, <2>4, <2>5, <2>6, <2>7, <2>8, <2>9, <2>10, <2>11, <2>12 DEF PolicyStep, Policy
<1>3. CASE Console
  <2>1. ASSUME NEW x \in 0..MaxCode, Pick(x) PROVE CodesLow'
    BY <2>1, Numbers, SMT DEF Pick, CodesLow, batteryVars, policyVars, consoleVars, bounds
  <2>2. CASE (\E x \in Tiers : Pick(x)) \/ (\E ma \in Customs : Custom(ma))
    BY <2>1, <2>2, Picks
  <2>3. CASE WriteTier
    BY <2>3, Numbers, SMT DEF WriteTier, CodesLow, batteryVars, policyVars, consoleVars, bounds
  <2>4. CASE WriteLost
    BY <2>4, Numbers, SMT DEF WriteLost, Lost, Slips, CodesLow, batteryVars, policyVars, consoleVars, bounds
  <2>5. CASE Readback
    BY <2>5, Numbers, SMT DEF Readback, CodesLow, batteryVars, policyVars, consoleVars, bounds
  <2>6. CASE Poll
    BY <2>6, Numbers, SMT DEF Poll, CodesLow, batteryVars, policyVars, consoleVars, bounds
  <2>7. CASE PollLost
    BY <2>7, Numbers, SMT DEF PollLost, Slips, CodesLow, batteryVars, policyVars, consoleVars, bounds
  <2>8. CASE Restore
    BY <2>8, Numbers, SMT DEF Restore, CodesLow, batteryVars, policyVars, consoleVars, bounds
  <2>9. CASE RestoreLost
    BY <2>9, Numbers, SMT DEF RestoreLost, Lost, Slips, CodesLow, batteryVars, policyVars, consoleVars, bounds
  <2>10. CASE Keep
    BY <2>10, Numbers, SMT DEF Keep, CodesLow, batteryVars, policyVars, consoleVars, bounds
  <2>11. CASE Interrupt
    BY <2>11, Numbers, SMT DEF Interrupt, Slips, CodesLow, batteryVars, policyVars, consoleVars, bounds
  <2> QED BY <1>3, <2>2, <2>3, <2>4, <2>5, <2>6, <2>7, <2>8, <2>9, <2>10, <2>11 DEF Console
<1>4. CASE UNCHANGED vars
  BY <1>4, SMT DEF vars, CodesLow, batteryVars, policyVars, consoleVars, bounds
<1> QED BY <1>1, <1>2, <1>3, <1>4, Steps

\* The console's tier stays its own.
LEMMA LeftStep ==
  ASSUME LeftInv, [Next]_vars PROVE LeftInv'
<1>1. CASE EnvStep
  <2>1. CASE Battery
    BY <2>1, SMT DEF Battery, LeftInv, Goto, CGoto, batteryVars, policyVars, consoleVars, bounds
  <2>2. CASE Ready
    BY <2>2, SMT DEF Ready, LeftInv, Goto, CGoto, batteryVars, policyVars, consoleVars, bounds
  <2> QED BY <1>1, <2>1, <2>2 DEF EnvStep
<1>2. CASE PolicyStep
  <2>1. CASE PolicyWaits
    BY <2>1, SMT DEF PolicyWaits, LeftInv, Goto, CGoto, batteryVars, policyVars, consoleVars, bounds
  <2>2. CASE PolicyStarts
    BY <2>2, SMT DEF PolicyStarts, LeftInv, Goto, CGoto, batteryVars, policyVars, consoleVars, bounds
  <2>3. CASE PolicyGivesUp
    BY <2>3, SMT DEF PolicyGivesUp, LeftInv, Goto, CGoto, batteryVars, policyVars, consoleVars, bounds
  <2>4. CASE ReadTemp
    BY <2>4, SMT DEF ReadTemp, LeftInv, Goto, CGoto, batteryVars, policyVars, consoleVars, bounds
  <2>5. CASE ReadCapacity
    BY <2>5, SMT DEF ReadCapacity, LeftInv, Goto, CGoto, batteryVars, policyVars, consoleVars, bounds
  <2>6. CASE Decide
    BY <2>6, SMT DEF Decide, LeftInv, Goto, CGoto, batteryVars, policyVars, consoleVars, bounds
  <2>7. CASE Look
    BY <2>7, SMT DEF Look, LeftInv, Goto, CGoto, batteryVars, policyVars, consoleVars, bounds
  <2>8. CASE SetLimit
    BY <2>8, SMT DEF SetLimit, LeftInv, Goto, CGoto, batteryVars, policyVars, consoleVars, bounds
  <2>9. CASE Sleep
    BY <2>9, SMT DEF Sleep, LeftInv, Goto, CGoto, batteryVars, policyVars, consoleVars, bounds
  <2>10. CASE SetLimitFails
    BY <2>10, SMT DEF SetLimitFails, LeftInv, Goto, CGoto, batteryVars, policyVars, consoleVars, bounds
  <2>11. CASE Handoff
    BY <2>11, SMT DEF Handoff, LeftInv, Goto, CGoto, batteryVars, policyVars, consoleVars, bounds
  <2>12. CASE PolicyRestarts
    BY <2>12, SMT DEF PolicyRestarts, LeftInv, Goto, CGoto, batteryVars, policyVars, consoleVars, bounds
  <2> QED BY <1>2, <2>1, <2>2, <2>3, <2>4, <2>5, <2>6, <2>7, <2>8, <2>9, <2>10, <2>11, <2>12 DEF PolicyStep, Policy
<1>3. CASE Console
  <2>1. ASSUME NEW x \in 0..MaxCode, Pick(x) PROVE LeftInv'
    BY <2>1, SMT DEF Pick, LeftInv, Goto, CGoto, batteryVars, policyVars, consoleVars, bounds
  <2>2. CASE (\E x \in Tiers : Pick(x)) \/ (\E ma \in Customs : Custom(ma))
    BY <2>1, <2>2, Picks
  <2>3. CASE WriteTier
    BY <2>3, SMT DEF WriteTier, LeftInv, Goto, CGoto, batteryVars, policyVars, consoleVars, bounds
  <2>4. CASE WriteLost
    BY <2>4, SMT DEF WriteLost, Lost, Slips, LeftInv, Goto, CGoto, batteryVars, policyVars, consoleVars, bounds
  <2>5. CASE Readback
    BY <2>5, SMT DEF Readback, LeftInv, Goto, CGoto, batteryVars, policyVars, consoleVars, bounds
  <2>6. CASE Poll
    BY <2>6, SMT DEF Poll, LeftInv, Goto, CGoto, batteryVars, policyVars, consoleVars, bounds
  <2>7. CASE PollLost
    BY <2>7, SMT DEF PollLost, Slips, LeftInv, Goto, CGoto, batteryVars, policyVars, consoleVars, bounds
  <2>8. CASE Restore
    BY <2>8, SMT DEF Restore, LeftInv, Goto, CGoto, batteryVars, policyVars, consoleVars, bounds
  <2>9. CASE RestoreLost
    BY <2>9, SMT DEF RestoreLost, Lost, Slips, LeftInv, Goto, CGoto, batteryVars, policyVars, consoleVars, bounds
  <2>10. CASE Keep
    BY <2>10, SMT DEF Keep, LeftInv, Goto, CGoto, batteryVars, policyVars, consoleVars, bounds
  <2>11. CASE Interrupt
    BY <2>11, SMT DEF Interrupt, Slips, LeftInv, Goto, CGoto, batteryVars, policyVars, consoleVars, bounds
  <2> QED BY <1>3, <2>2, <2>3, <2>4, <2>5, <2>6, <2>7, <2>8, <2>9, <2>10, <2>11 DEF Console
<1>4. CASE UNCHANGED vars
  BY <1>4, SMT DEF vars, LeftInv, Goto, CGoto, batteryVars, policyVars, consoleVars, bounds
<1> QED BY <1>1, <1>2, <1>3, <1>4, Steps

\* The latch remembers.
LEMMA LatchStep ==
  ASSUME FlagsOK, DataOK, DataOK', LatchInv, [Next]_vars PROVE LatchInv'
<1>1. CASE EnvStep
  <2>1. CASE Battery
    <3>1. cooled \in BOOLEAN /\ hot \in BOOLEAN
      BY DEF FlagsOK
    <3>2. temp \in Int /\ temp' \in Int /\ t \in Int
      <4>1. temp' \in Temps /\ Temps \subseteq Int
        BY ChargingAssumption DEF DataOK
      <4> QED BY <4>1, TempIsInt
    <3>3. cooled' = (cooled \/ temp' <= Cool) /\ UNCHANGED <<ppc, t, hot, want>>
      BY <2>1 DEF Battery, policyVars
    <3>4. CASE cooled'
      BY <3>1, <3>2, <3>3, <3>4, SMT DEF LatchInv, Latch
    <3>5. CASE ~cooled'
      <4>1. ~cooled /\ ~(temp' <= Cool)
        BY <3>3, <3>5
      <4> QED BY <3>1, <3>2, <3>3, <3>5, <4>1, Numbers, SMT DEF LatchInv, Latch
    <3> QED BY <3>4, <3>5
  <2>2. CASE Ready
    BY <2>2, TempIsInt, Numbers, SMT DEF Ready, LatchInv, Latch, Goto, CGoto, batteryVars, policyVars, consoleVars, bounds
  <2> QED BY <1>1, <2>1, <2>2 DEF EnvStep
<1>2. CASE PolicyStep
  <2>1. CASE PolicyWaits
    BY <2>1, TempIsInt, Numbers, SMT DEF PolicyWaits, LatchInv, Latch, Goto, CGoto, batteryVars, policyVars, consoleVars, bounds
  <2>2. CASE PolicyStarts
    BY <2>2, TempIsInt, Numbers, SMT DEF PolicyStarts, LatchInv, Latch, Goto, CGoto, batteryVars, policyVars, consoleVars, bounds
  <2>3. CASE PolicyGivesUp
    BY <2>3, TempIsInt, Numbers, SMT DEF PolicyGivesUp, LatchInv, Latch, Goto, CGoto, batteryVars, policyVars, consoleVars, bounds
  <2>4. CASE ReadTemp
    <3>1. temp \in Int /\ t \in Int /\ cooled \in BOOLEAN /\ hot \in BOOLEAN
      BY TempIsInt DEF FlagsOK
    <3>2. ppc = "temp" /\ ppc' = "capacity" /\ UNCHANGED <<temp, hot, want>>
      BY <2>4 DEF ReadTemp, Goto, batteryVars
    <3>3. CASE readable /\ temp < Hot
      <4>1. t' = temp /\ cooled' = cooled
        BY <2>4, <3>3 DEF ReadTemp
      <4> QED BY <3>1, <3>2, <4>1, Numbers, SMT DEF LatchInv, Latch
    <3>4. CASE ~(readable /\ temp < Hot)
      <4>1. cooled' = (temp <= Cool) /\ (t' = temp \/ t' = Unread)
        BY <2>4, <3>4 DEF ReadTemp
      <4>2. t' = Unread \/ t' >= Hot
        BY <2>4, <3>1, <3>4, <4>1, Numbers, SMT DEF ReadTemp
      <4> QED BY <3>1, <3>2, <4>1, <4>2, Numbers, SMT DEF LatchInv, Latch
    <3> QED BY <3>3, <3>4
  <2>5. CASE ReadCapacity
    BY <2>5, TempIsInt, Numbers, SMT DEF ReadCapacity, LatchInv, Latch, Goto, CGoto, batteryVars, policyVars, consoleVars, bounds
  <2>6. CASE Decide
    BY <2>6, TempIsInt, Numbers, SMT DEF Decide, Wants, LatchInv, Latch, Goto, CGoto, batteryVars, policyVars, consoleVars, bounds
  <2>7. CASE Look
    BY <2>7, TempIsInt, Numbers, SMT DEF Look, LatchInv, Latch, Goto, CGoto, batteryVars, policyVars, consoleVars, bounds
  <2>8. CASE SetLimit
    BY <2>8, TempIsInt, Numbers, SMT DEF SetLimit, LatchInv, Latch, Goto, CGoto, batteryVars, policyVars, consoleVars, bounds
  <2>9. CASE Sleep
    BY <2>9, TempIsInt, Numbers, SMT DEF Sleep, LatchInv, Latch, Goto, CGoto, batteryVars, policyVars, consoleVars, bounds
  <2>10. CASE SetLimitFails
    BY <2>10, TempIsInt, Numbers, SMT DEF SetLimitFails, LatchInv, Latch, Goto, CGoto, batteryVars, policyVars, consoleVars, bounds
  <2>11. CASE Handoff
    BY <2>11, TempIsInt, Numbers, SMT DEF Handoff, LatchInv, Latch, Goto, CGoto, batteryVars, policyVars, consoleVars, bounds
  <2>12. CASE PolicyRestarts
    BY <2>12, TempIsInt, Numbers, SMT DEF PolicyRestarts, LatchInv, Latch, Goto, CGoto, batteryVars, policyVars, consoleVars, bounds
  <2> QED BY <1>2, <2>1, <2>2, <2>3, <2>4, <2>5, <2>6, <2>7, <2>8, <2>9, <2>10, <2>11, <2>12 DEF PolicyStep, Policy
<1>3. CASE Console
  <2>1. ASSUME NEW x \in 0..MaxCode, Pick(x) PROVE LatchInv'
    BY <2>1, TempIsInt, Numbers, SMT DEF Pick, LatchInv, Latch, Goto, CGoto, batteryVars, policyVars, consoleVars, bounds
  <2>2. CASE (\E x \in Tiers : Pick(x)) \/ (\E ma \in Customs : Custom(ma))
    BY <2>1, <2>2, Picks
  <2>3. CASE WriteTier
    BY <2>3, TempIsInt, Numbers, SMT DEF WriteTier, LatchInv, Latch, Goto, CGoto, batteryVars, policyVars, consoleVars, bounds
  <2>4. CASE WriteLost
    BY <2>4, TempIsInt, Numbers, SMT DEF WriteLost, Lost, Slips, LatchInv, Latch, Goto, CGoto, batteryVars, policyVars, consoleVars, bounds
  <2>5. CASE Readback
    BY <2>5, TempIsInt, Numbers, SMT DEF Readback, LatchInv, Latch, Goto, CGoto, batteryVars, policyVars, consoleVars, bounds
  <2>6. CASE Poll
    BY <2>6, TempIsInt, Numbers, SMT DEF Poll, LatchInv, Latch, Goto, CGoto, batteryVars, policyVars, consoleVars, bounds
  <2>7. CASE PollLost
    BY <2>7, TempIsInt, Numbers, SMT DEF PollLost, Slips, LatchInv, Latch, Goto, CGoto, batteryVars, policyVars, consoleVars, bounds
  <2>8. CASE Restore
    BY <2>8, TempIsInt, Numbers, SMT DEF Restore, LatchInv, Latch, Goto, CGoto, batteryVars, policyVars, consoleVars, bounds
  <2>9. CASE RestoreLost
    BY <2>9, TempIsInt, Numbers, SMT DEF RestoreLost, Lost, Slips, LatchInv, Latch, Goto, CGoto, batteryVars, policyVars, consoleVars, bounds
  <2>10. CASE Keep
    BY <2>10, TempIsInt, Numbers, SMT DEF Keep, LatchInv, Latch, Goto, CGoto, batteryVars, policyVars, consoleVars, bounds
  <2>11. CASE Interrupt
    BY <2>11, TempIsInt, Numbers, SMT DEF Interrupt, Slips, LatchInv, Latch, Goto, CGoto, batteryVars, policyVars, consoleVars, bounds
  <2> QED BY <1>3, <2>2, <2>3, <2>4, <2>5, <2>6, <2>7, <2>8, <2>9, <2>10, <2>11 DEF Console
<1>4. CASE UNCHANGED vars
  BY <1>4, SMT DEF vars, LatchInv, Latch, Goto, CGoto, batteryVars, policyVars, consoleVars, bounds
<1> QED BY <1>1, <1>2, <1>3, <1>4, Steps

\* The polls end in time.
LEMMA PollsStep ==
  ASSUME DataOK, PollsLeft, [Next]_vars PROVE PollsLeft'
<1>1. CASE EnvStep
  <2>1. CASE Battery
    BY <2>1, Constants, SMT DEF Battery, PollsLeft, DataOK, Goto, CGoto, batteryVars, policyVars, consoleVars, bounds
  <2>2. CASE Ready
    BY <2>2, Constants, SMT DEF Ready, PollsLeft, DataOK, Goto, CGoto, batteryVars, policyVars, consoleVars, bounds
  <2> QED BY <1>1, <2>1, <2>2 DEF EnvStep
<1>2. CASE PolicyStep
  <2>1. CASE PolicyWaits
    BY <2>1, Constants, SMT DEF PolicyWaits, PollsLeft, DataOK, Goto, CGoto, batteryVars, policyVars, consoleVars, bounds
  <2>2. CASE PolicyStarts
    BY <2>2, Constants, SMT DEF PolicyStarts, PollsLeft, DataOK, Goto, CGoto, batteryVars, policyVars, consoleVars, bounds
  <2>3. CASE PolicyGivesUp
    BY <2>3, Constants, SMT DEF PolicyGivesUp, PollsLeft, DataOK, Goto, CGoto, batteryVars, policyVars, consoleVars, bounds
  <2>4. CASE ReadTemp
    BY <2>4, Constants, SMT DEF ReadTemp, PollsLeft, DataOK, Goto, CGoto, batteryVars, policyVars, consoleVars, bounds
  <2>5. CASE ReadCapacity
    BY <2>5, Constants, SMT DEF ReadCapacity, PollsLeft, DataOK, Goto, CGoto, batteryVars, policyVars, consoleVars, bounds
  <2>6. CASE Decide
    BY <2>6, Constants, SMT DEF Decide, PollsLeft, DataOK, Goto, CGoto, batteryVars, policyVars, consoleVars, bounds
  <2>7. CASE Look
    BY <2>7, Constants, SMT DEF Look, PollsLeft, DataOK, Goto, CGoto, batteryVars, policyVars, consoleVars, bounds
  <2>8. CASE SetLimit
    BY <2>8, Constants, SMT DEF SetLimit, PollsLeft, DataOK, Goto, CGoto, batteryVars, policyVars, consoleVars, bounds
  <2>9. CASE Sleep
    BY <2>9, Constants, SMT DEF Sleep, PollsLeft, DataOK, Goto, CGoto, batteryVars, policyVars, consoleVars, bounds
  <2>10. CASE SetLimitFails
    BY <2>10, Constants, SMT DEF SetLimitFails, PollsLeft, DataOK, Goto, CGoto, batteryVars, policyVars, consoleVars, bounds
  <2>11. CASE Handoff
    BY <2>11, Constants, SMT DEF Handoff, PollsLeft, DataOK, Goto, CGoto, batteryVars, policyVars, consoleVars, bounds
  <2>12. CASE PolicyRestarts
    BY <2>12, Constants, SMT DEF PolicyRestarts, PollsLeft, DataOK, Goto, CGoto, batteryVars, policyVars, consoleVars, bounds
  <2> QED BY <1>2, <2>1, <2>2, <2>3, <2>4, <2>5, <2>6, <2>7, <2>8, <2>9, <2>10, <2>11, <2>12 DEF PolicyStep, Policy
<1>3. CASE Console
  <2>1. ASSUME NEW x \in 0..MaxCode, Pick(x) PROVE PollsLeft'
    BY <2>1, Constants, SMT DEF Pick, PollsLeft, DataOK, Goto, CGoto, batteryVars, policyVars, consoleVars, bounds
  <2>2. CASE (\E x \in Tiers : Pick(x)) \/ (\E ma \in Customs : Custom(ma))
    BY <2>1, <2>2, Picks
  <2>3. CASE WriteTier
    BY <2>3, Constants, SMT DEF WriteTier, PollsLeft, DataOK, Goto, CGoto, batteryVars, policyVars, consoleVars, bounds
  <2>4. CASE WriteLost
    BY <2>4, Constants, SMT DEF WriteLost, Lost, Slips, PollsLeft, DataOK, Goto, CGoto, batteryVars, policyVars, consoleVars, bounds
  <2>5. CASE Readback
    BY <2>5, Constants, SMT DEF Readback, PollsLeft, DataOK, Goto, CGoto, batteryVars, policyVars, consoleVars, bounds
  <2>6. CASE Poll
    BY <2>6, Constants, SMT DEF Poll, PollsLeft, DataOK, Goto, CGoto, batteryVars, policyVars, consoleVars, bounds
  <2>7. CASE PollLost
    BY <2>7, Constants, SMT DEF PollLost, Slips, PollsLeft, DataOK, Goto, CGoto, batteryVars, policyVars, consoleVars, bounds
  <2>8. CASE Restore
    BY <2>8, Constants, SMT DEF Restore, PollsLeft, DataOK, Goto, CGoto, batteryVars, policyVars, consoleVars, bounds
  <2>9. CASE RestoreLost
    BY <2>9, Constants, SMT DEF RestoreLost, Lost, Slips, PollsLeft, DataOK, Goto, CGoto, batteryVars, policyVars, consoleVars, bounds
  <2>10. CASE Keep
    BY <2>10, Constants, SMT DEF Keep, PollsLeft, DataOK, Goto, CGoto, batteryVars, policyVars, consoleVars, bounds
  <2>11. CASE Interrupt
    BY <2>11, Constants, SMT DEF Interrupt, Slips, PollsLeft, DataOK, Goto, CGoto, batteryVars, policyVars, consoleVars, bounds
  <2> QED BY <1>3, <2>2, <2>3, <2>4, <2>5, <2>6, <2>7, <2>8, <2>9, <2>10, <2>11 DEF Console
<1>4. CASE UNCHANGED vars
  BY <1>4, SMT DEF vars, PollsLeft, DataOK, Goto, CGoto, batteryVars, policyVars, consoleVars, bounds
<1> QED BY <1>1, <1>2, <1>3, <1>4, Steps

LEMMA InvStep == Inv /\ [Next]_vars => Inv'
<1> SUFFICES ASSUME Inv, [Next]_vars PROVE Inv'
  OBVIOUS
<1>1. FlagsOK /\ DataOK
  BY DEF Inv, TypeOK, FlagsOK, DataOK
<1>2. FlagsOK' /\ DataOK'
  BY <1>1, FlagsStep, DataStep DEF Inv
<1>3. TypeOK'
  BY <1>2 DEF TypeOK, FlagsOK, DataOK
<1> QED BY <1>1, <1>2, <1>3, CodesStep, LeftStep, LatchStep, PollsStep DEF Inv

THEOREM Invariant == Spec => []Inv
  BY InvInit, InvStep, PTL DEF Spec

-----------------------------------------------------------------------------
(* The results.                                                              *)

(* The variables of the policy and the console keep their types.             *)
THEOREM TypeCorrect == Spec => []TypeOK
  BY Invariant, PTL DEF Inv

(* Whatever the policy, the console and the battery do, the register never
   asks for more than the validated 2400 mA.                                 *)
THEOREM LimitValidated == Spec => []NeverAboveValidated
<1>1. Inv => NeverAboveValidated
  BY LowDecodes DEF Inv, CodesLow, NeverAboveValidated
<1> QED BY <1>1, Invariant, PTL

(* When the console's action is over no tier nobody kept is left behind.     *)
THEOREM TierRestored == Spec => []NothingLeft
<1>1. Inv => NothingLeft
  BY DEF Inv, LeftInv, NothingLeft
<1> QED BY <1>1, Invariant, PTL

(* The policy raises the limit only on a battery that has cooled to 38 C
   since the policy last saw it hot or could not read it.                    *)
THEOREM LatchHolds == Spec => RaisesOnlyCooled
<1>1. Inv /\ [Next]_vars => [ppc = "write" /\ code' # code /\ want = TargetUa => cooled]_vars
  BY DEF Inv, LatchInv, TypeOK
<1> QED BY <1>1, Invariant, PTL DEF Spec, RaisesOnlyCooled

-----------------------------------------------------------------------------
(* The conversions of the input current limit, for every current and code.   *)

LEMMA Division ==
  ASSUME NEW x \in Int
  PROVE  /\ x \div 100 \in Int /\ x % 100 \in 0..99
         /\ x = 100 * (x \div 100) + (x % 100)
<1>1. x \div 100 \in Int /\ x % 100 \in 0..99
  BY SMT
<1>2. x = 100 * (x \div 100) + (x % 100)
  BY SMT
<1> QED BY <1>1, <1>2

\* What lies not half way between two codes is rounded one way only.
LEMMA RoundingsAgree ==
  ASSUME NEW x \in Int, x > 0, x % 100 # 50
  PROVE  DivRoundClosest(x) = Round(x)
<1> DEFINE q == x \div 100
           r == x % 100
<1>1. q \in Int /\ r \in 0..99 /\ x = 100 * q + r
  BY Division
<1> HIDE DEF q, r
<1>2. CASE r < 50
  <2>1. (x + 50) \div 100 = q
    BY <1>1, <1>2, SMT
  <2> QED BY <1>2, <2>1, SMT DEF DivRoundClosest, Round, q, r
<1>3. CASE r > 50
  <2>1. (x + 50) \div 100 = q + 1
    BY <1>1, <1>3, SMT
  <2>2. ~(r < 50 \/ (r = 50 /\ q % 2 = 0))
    BY <1>1, <1>3, SMT
  <2> QED BY <2>1, <2>2, SMT DEF DivRoundClosest, Round, q, r
<1> QED BY <1>1, <1>2, <1>3, SMT DEF r

LEMMA RoundingsOfNegatives ==
  ASSUME NEW x \in Int, x <= 0
  PROVE  DivRoundClosest(x) \in Int /\ DivRoundClosest(x) <= 0 /\ Round(x) \in Int /\ Round(x) <= 0
<1>1. DivRoundClosest(x) \in Int /\ DivRoundClosest(x) <= 0
  BY SMT DEF DivRoundClosest
<1>2. x \div 100 \in Int /\ x % 100 \in 0..99 /\ x = 100 * (x \div 100) + (x % 100)
  BY Division
<1>3. x \div 100 < 0 \/ (x \div 100 = 0 /\ x % 100 = 0)
  BY <1>2, SMT
<1> QED BY <1>1, <1>2, <1>3, SMT DEF Round

(* The driver's C rounding and the console's Python rounding give the same
   code for every current: 8*(ma - 75) - 7 is odd, so it never lies half way
   between two codes, and what is negative is clamped.                        *)
THEOREM EncodersAlwaysAgree == \A ma \in Int : EncodersAgree(ma)
<1> SUFFICES ASSUME NEW ma \in Int PROVE EncodersAgree(ma)
  OBVIOUS
<1> DEFINE x == (ma - 75) * 8 - 7
<1>1. x \in Int /\ x % 100 # 50
  BY SMT
<1> HIDE DEF x
<1>2. CASE x > 0
  BY <1>1, <1>2, RoundingsAgree DEF EncodersAgree, Encode, EncodeConsole, x
<1>3. CASE x <= 0
  <2>1. Clamp(DivRoundClosest(x), 0, 253) = 0 /\ Clamp(Round(x), 0, 253) = 0
    BY <1>1, <1>3, RoundingsOfNegatives, SMT DEF Clamp
  <2> QED BY <2>1 DEF EncodersAgree, Encode, EncodeConsole, x
<1> QED BY <1>1, <1>2, <1>3, SMT

(* A limit read from the driver can be written back for every code that is
   not saturated: the policy recognises its own limits.                       *)
THEOREM LimitsRoundTrip == \A k \in Int : RoundTrip(k)
  BY SMT DEF RoundTrip, SetProperty, Decode, Encode, Clamp, DivRoundClosest

(* The limit set is within half a step of the one asked for.                  *)
THEOREM LimitsAreClosest == \A ma \in Int : Closest(ma)
<1> SUFFICES ASSUME NEW ma \in Int, ma \in 75..3244 PROVE Decode(Encode(ma)) - ma \in -7..5
  BY DEF Closest
<1> DEFINE x == (ma - 75) * 8 - 7
           k == DivRoundClosest(x)
<1>1. CASE ma = 75
  BY <1>1, SMT DEF Decode, Encode, Clamp, DivRoundClosest
<1>2. CASE ma > 75
  <2>1. x > 0 /\ x \in Int
    BY <1>2, SMT
  <2>2. k \in Int /\ 100 * k <= x + 50 /\ x + 50 < 100 * k + 100
    BY <2>1, SMT DEF DivRoundClosest
  <2>3. k \in 0..253 /\ Encode(ma) = k
    BY <2>1, <2>2, SMT DEF Encode, Clamp
  <2> HIDE DEF k
  <2>4. Decode(k) = 75 + (100 * k + 7) \div 8
    BY <2>3, SMT DEF Decode
  <2> QED BY <2>2, <2>3, <2>4, SMT
<1>3. ma = 75 \/ ma > 75
  BY SMT
<1> QED BY <1>1, <1>2, <1>3

-----------------------------------------------------------------------------
(***************************************************************************)
(* The charger's converter, ChargerAdc, for every set of threads and of    *)
(* channels, any number of calls and of failing accesses.  The argument    *)
(* follows the owner of adc_lock: what it has saved, what it has started   *)
(* and what the registers hold at each point of its call; a thread that    *)
(* does not own the lock has nothing to say about the device.              *)
(***************************************************************************)
Critical == {"save_ctrl", "save_mask", "discard", "unmask", "start", "poll", "result",
             "restore_ctrl", "restore_mask", "unlock"}

(* Where the converter may run, and where the control byte is saved.        *)
Started == {"poll", "result", "restore_ctrl"}
Saved   == {"save_mask", "discard", "unmask", "start"} \cup Started

(* adc_lock is held by exactly the thread inside.                           *)
OneOwner == \A th \in Threads : pc[th] \in Critical <=> lock = th

(* Between calls, and in a call outside of start .. restore, no conversion
   runs; so what is saved and written back is Rest.                         *)
ControlKept ==
  "ctrl" \notin failed =>
    /\ lock = Rest => ctrl = Rest /\ conv = None
    /\ \A th \in Threads : /\ pc[th] \in Critical \ Started => ctrl = Rest /\ conv = None
                           /\ pc[th] \in Saved => sctrl[th] = Rest

(* The event register speaks of the owner's conversion only: it is clear
   when the owner starts one, and set when that one has completed.          *)
EventIsOwn ==
  "ctrl" \notin failed =>
    \A th \in Threads :
      /\ pc[th] \in {"unmask", "start"} => ~event
      /\ pc[th] = "poll" /\ conv # None => conv = own[th] /\ ~event
      /\ pc[th] = "poll" /\ event => result = own[th]
      /\ pc[th] = "result" => conv = None /\ result = own[th]

(* A call has no sample before it reads the result.                         *)
NoSampleYet ==
  \A th \in Threads :
    pc[th] \in (Critical \ {"restore_ctrl", "restore_mask", "unlock"}) \cup {"lock"} => raw[th] = None

(* The mask is the firmware's until the call unmasks, the saved mask says
   what that was, and the call that unmasked masks again.                   *)
MaskKept ==
  failed \subseteq {"read"} =>
    /\ lock = Rest => mask = BootMask
    /\ mask => BootMask
    /\ \A th \in Threads :
         /\ pc[th] \in {"save_ctrl", "save_mask", "discard", "unmask", "unlock"} => mask = BootMask
         /\ pc[th] \in {"discard", "unmask", "start", "restore_mask"} \cup Started
              => smask[th] = BootMask
         /\ pc[th] = "restore_mask" => smask[th]

AdcInv == /\ AdcTypeOK /\ OneOwner /\ ControlKept /\ EventIsOwn /\ NoSampleYet /\ MaskKept
          /\ SampleIsOwn

-----------------------------------------------------------------------------
(* The driver is bound with nobody measuring.                               *)
LEMMA AdcInvInit == AdcInit => AdcInv
<1> SUFFICES ASSUME AdcInit PROVE AdcInv
  OBVIOUS
<1>1. AdcTypeOK
  <2>1. calls \in 0..MaxCalls /\ faults \in 0..MaxFaults
    BY AdcAssumption DEF AdcInit
  <2>2. own \in [Threads -> 0..starts] /\ raw \in [Threads -> 0..starts]
    BY DEF AdcInit, None
  <2>3. /\ mask \in BOOLEAN /\ event \in BOOLEAN
        /\ smask \in [Threads -> BOOLEAN] /\ late \in [Threads -> BOOLEAN]
    BY AdcAssumption, Zenon DEF AdcInit
  <2>4. /\ starts \in Nat /\ result \in 0..starts /\ conv \in 0..starts
        /\ ctrl \in Channels \cup {Rest} /\ lock \in Threads \cup {Rest}
    BY DEF AdcInit, Rest, None
  <2>5. QED
    BY <2>1, <2>2, <2>3, <2>4, AdcAssumption DEF AdcInit, AdcTypeOK, Rest
<1>2. OneOwner
  BY AdcAssumption DEF AdcInit, OneOwner, Critical, Rest
<1>3. ControlKept /\ EventIsOwn /\ NoSampleYet /\ MaskKept /\ SampleIsOwn
  BY DEF AdcInit, ControlKept, EventIsOwn, NoSampleYet, MaskKept, SampleIsOwn,
     Critical, Started, Saved, Rest, None
<1>4. QED
  BY <1>1, <1>2, <1>3 DEF AdcInv

(* Every step keeps the types.                                              *)
LEMMA AdcTypeKept == AdcTypeOK /\ [AdcNext]_adcVars => AdcTypeOK'
<1> SUFFICES ASSUME AdcTypeOK, [AdcNext]_adcVars PROVE AdcTypeOK'
  OBVIOUS
<1> USE AdcAssumption DEF AdcTypeOK, Proceed, Rest, None, device, locals
<1>1. CASE Converted
  BY <1>1 DEF Converted
<1>2. ASSUME NEW th \in Threads, NEW ch \in Channels, Call(th, ch) PROVE AdcTypeOK'
  BY <1>2 DEF Call
<1>3. ASSUME NEW th \in Threads, Lock(th) \/ Unlock(th) PROVE AdcTypeOK'
  BY <1>3 DEF Lock, Unlock
<1>4. ASSUME NEW th \in Threads, Save(th) PROVE AdcTypeOK'
  <2>1. smask' \in [Threads -> BOOLEAN]
    BY <1>4, Zenon DEF Save
  <2>2. sctrl' \in [Threads -> Channels \cup {Rest}]
    BY <1>4 DEF Save
  <2>3. /\ pc' = [pc EXCEPT ![th] = "save_mask"] \/ pc' = [pc EXCEPT ![th] = "discard"]
        /\ UNCHANGED <<device, lock, channel, own, late, ret, raw, calls, faults, failed>>
    BY <1>4, Zenon DEF Save
  <2>4. QED
    BY <2>1, <2>2, <2>3
<1>5. ASSUME NEW th \in Threads, Discard(th) \/ Unmask(th) PROVE AdcTypeOK'
  BY <1>5 DEF Discard, Unmask
<1>6. ASSUME NEW th \in Threads, Start(th) PROVE AdcTypeOK'
  BY <1>6 DEF Start, Control
<1>7. ASSUME NEW th \in Threads, PollEvent(th) \/ Deadline(th) PROVE AdcTypeOK'
  BY <1>7 DEF PollEvent, Deadline
<1>8. ASSUME NEW th \in Threads, NEW good \in BOOLEAN, Result(th, good) PROVE AdcTypeOK'
  BY <1>8 DEF Result, Error
<1>9. ASSUME NEW th \in Threads, RestoreCtrl(th) PROVE AdcTypeOK'
  BY <1>9 DEF RestoreCtrl, Control
<1>10. ASSUME NEW th \in Threads, RestoreMask(th) PROVE AdcTypeOK'
  BY <1>10 DEF RestoreMask
<1>11. ASSUME NEW th \in Threads, AccessFails(th) PROVE AdcTypeOK'
  <2>1. ASSUME NEW k, Fault(k) PROVE faults' \in 0..MaxFaults /\ failed' \subseteq Fails
    BY <2>1 DEF Fault
  <2>2. ret' \in [Threads -> {"ok", "error", "timeout"}]
    BY <1>11 DEF AccessFails, SaveFails, ReadFails, UnmaskFails, StartFails, RestoreCtrlFails,
       RestoreMaskFails, Error
  <2>3. CASE SaveFails(th)
    BY <2>1, <2>2, <2>3 DEF SaveFails
  <2>4. CASE ReadFails(th)
    BY <2>1, <2>2, <2>4 DEF ReadFails
  <2>5. CASE UnmaskFails(th)
    BY <2>1, <2>2, <2>5 DEF UnmaskFails
  <2>6. CASE StartFails(th)
    BY <2>1, <2>2, <2>6 DEF StartFails, Control
  <2>7. CASE RestoreCtrlFails(th)
    BY <2>1, <2>2, <2>7 DEF RestoreCtrlFails, Control
  <2>8. CASE RestoreMaskFails(th)
    BY <2>1, <2>2, <2>8 DEF RestoreMaskFails
  <2>9. QED
    BY <1>11, <2>3, <2>4, <2>5, <2>6, <2>7, <2>8 DEF AccessFails
<1>12. CASE UNCHANGED adcVars
  BY <1>12 DEF adcVars
<1>13. QED
  BY <1>1, <1>2, <1>3, <1>4, <1>5, <1>6, <1>7, <1>8, <1>9, <1>10, <1>11, <1>12 DEF AdcNext, Work

(* What a thread outside of the lock does, and what the converter does.     *)
LEMMA OutsideKeeps ==
  ASSUME AdcInv, AdcTypeOK',
         \/ Converted
         \/ \E th \in Threads : (\E ch \in Channels : Call(th, ch)) \/ Lock(th) \/ Unlock(th)
         \/ UNCHANGED adcVars
  PROVE  AdcInv'
<1> USE AdcAssumption DEF AdcInv, AdcTypeOK, OneOwner, ControlKept, EventIsOwn, NoSampleYet, MaskKept,
        SampleIsOwn, Critical, Started, Saved, Proceed, Rest, None, device, locals
<1>1. CASE Converted
  BY <1>1 DEF Converted
<1>2. ASSUME NEW th \in Threads, NEW ch \in Channels, Call(th, ch) PROVE AdcInv'
  BY <1>2 DEF Call
<1>3. ASSUME NEW th \in Threads, Lock(th) PROVE AdcInv'
  BY <1>3 DEF Lock
<1>4. ASSUME NEW th \in Threads, Unlock(th) PROVE AdcInv'
  BY <1>4 DEF Unlock
<1>5. CASE UNCHANGED adcVars
  BY <1>5 DEF adcVars
<1>6. QED
  BY <1>1, <1>2, <1>3, <1>4, <1>5

(* A measurement in which every access succeeds.                            *)
LEMMA MeasureKeeps ==
  ASSUME AdcInv, AdcTypeOK', NEW th \in Threads,
         \/ Save(th) \/ Discard(th) \/ Unmask(th) \/ Start(th) \/ PollEvent(th) \/ Deadline(th)
         \/ \E good \in BOOLEAN : Result(th, good)
  PROVE  AdcInv'
<1> USE AdcAssumption DEF AdcInv, AdcTypeOK, OneOwner, ControlKept, EventIsOwn, NoSampleYet, MaskKept,
        SampleIsOwn, Critical, Started, Saved, Proceed, Rest, None, device, locals
<1>1. CASE Save(th)
  BY <1>1 DEF Save
<1>2. CASE Discard(th)
  BY <1>2 DEF Discard
<1>3. CASE Unmask(th)
  BY <1>3 DEF Unmask
<1>4. CASE Start(th)
  BY <1>4 DEF Start, Control
<1>5. CASE PollEvent(th)
  BY <1>5 DEF PollEvent
<1>6. CASE Deadline(th)
  BY <1>6 DEF Deadline
<1>7. ASSUME NEW good \in BOOLEAN, Result(th, good) PROVE AdcInv'
  BY <1>7 DEF Result, Error
<1>8. QED
  BY <1>1, <1>2, <1>3, <1>4, <1>5, <1>6, <1>7

(* The cleanup, and the accesses that fail.                                 *)
LEMMA CleanupKeeps ==
  ASSUME AdcInv, AdcTypeOK', NEW th \in Threads,
         RestoreCtrl(th) \/ RestoreMask(th) \/ AccessFails(th)
  PROVE  AdcInv'
<1> USE AdcAssumption DEF AdcInv, AdcTypeOK, OneOwner, ControlKept, EventIsOwn, NoSampleYet, MaskKept,
        SampleIsOwn, Critical, Started, Saved, Proceed, Rest, None, device, locals
<1>1. CASE RestoreCtrl(th)
  <2>1. lock = th /\ ~\E u \in Threads \ {th} : pc[u] \in Critical
    BY <1>1 DEF RestoreCtrl
  <2>2. pc' = [pc EXCEPT ![th] = IF smask[th] THEN "restore_mask" ELSE "unlock"]
        /\ UNCHANGED <<mask, event, result, lock, locals, calls, faults, failed>>
    BY <1>1 DEF RestoreCtrl
  <2>3. "ctrl" \notin failed => ctrl' = Rest /\ conv' = None
    BY <1>1 DEF RestoreCtrl, Control
  <2>4. OneOwner' /\ NoSampleYet' /\ SampleIsOwn'
    BY <1>1, <2>1, <2>2 DEF RestoreCtrl
  <2>5. ControlKept' /\ EventIsOwn'
    BY <1>1, <2>1, <2>2, <2>3 DEF RestoreCtrl
  <2>6. MaskKept'
    BY <1>1, <2>1, <2>2 DEF RestoreCtrl
  <2>7. QED
    BY <2>4, <2>5, <2>6
<1>2. CASE RestoreMask(th)
  <2>1. lock = th /\ ~\E u \in Threads \ {th} : pc[u] \in Critical
    BY <1>2 DEF RestoreMask
  <2>2. failed \subseteq {"read"} => BootMask
    BY <1>2 DEF RestoreMask
  <2>3. /\ pc' = [pc EXCEPT ![th] = "unlock"] /\ mask' = TRUE
        /\ UNCHANGED <<ctrl, event, result, conv, starts, lock, locals, calls, faults, failed>>
    BY <1>2 DEF RestoreMask
  <2>4. MaskKept'
    <3> SUFFICES ASSUME failed \subseteq {"read"} PROVE MaskKept'
      BY <2>3
    <3>1. BootMask /\ mask' = BootMask
      BY <2>2, <2>3, Zenon
    <3>2. lock' # Rest
      BY <2>1, <2>3
    <3>3. \A u \in Threads : pc'[u] \in Critical => pc'[u] = "unlock"
      BY <2>1, <2>3
    <3>4. QED
      BY <3>1, <3>2, <3>3
  <2>5. OneOwner' /\ ControlKept' /\ EventIsOwn' /\ NoSampleYet' /\ SampleIsOwn'
    BY <1>2, <2>1, <2>3 DEF RestoreMask
  <2>6. QED
    BY <2>4, <2>5
<1>3. CASE SaveFails(th)
  BY <1>3 DEF SaveFails, Fault, Error
<1>4. CASE ReadFails(th)
  BY <1>4 DEF ReadFails, Fault, Error
<1>5. CASE UnmaskFails(th)
  BY <1>5 DEF UnmaskFails, Fault, Error
<1>6. CASE StartFails(th)
  BY <1>6 DEF StartFails, Fault, Error, Control
<1>7. CASE RestoreCtrlFails(th)
  BY <1>7 DEF RestoreCtrlFails, Fault, Error, Control
<1>8. CASE RestoreMaskFails(th)
  BY <1>8 DEF RestoreMaskFails, Fault, Error
<1>9. QED
  BY <1>1, <1>2, <1>3, <1>4, <1>5, <1>6, <1>7, <1>8 DEF AccessFails

-----------------------------------------------------------------------------
(* The invariant holds in every reachable state.                            *)
THEOREM AdcInvariance == AdcSpec => []AdcInv
<1>1. AdcInv /\ [AdcNext]_adcVars => AdcInv'
  <2> SUFFICES ASSUME AdcInv, [AdcNext]_adcVars PROVE AdcInv'
    OBVIOUS
  <2>1. AdcTypeOK'
    BY AdcTypeKept DEF AdcInv
  <2>2. QED
    BY <2>1, OutsideKeeps, MeasureKeeps, CleanupKeeps DEF AdcNext, Work
<1>2. QED
  BY <1>1, AdcInvInit, PTL DEF AdcSpec

(* Type correctness.                                                        *)
THEOREM AdcTypes == AdcSpec => []AdcTypeOK
<1>1. AdcInv => AdcTypeOK
  BY DEF AdcInv
<1>2. QED
  BY <1>1, AdcInvariance, PTL

(* A sample returned by a call was begun by that call.                      *)
THEOREM SampleTheorem == AdcSpec => []SampleIsOwn
<1>1. AdcInv => SampleIsOwn
  BY DEF AdcInv
<1>2. QED
  BY <1>1, AdcInvariance, PTL

(* Whenever nobody measures, both registers are as the firmware left them.  *)
THEOREM RestoredTheorem == AdcSpec => []Restored
<1>1. AdcInv => Restored
  BY DEF AdcInv, ControlKept, MaskKept, Restored
<1>2. QED
  BY <1>1, AdcInvariance, PTL
=============================================================================
