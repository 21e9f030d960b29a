--------------------------- MODULE ChargeCurrent ----------------------------
(***************************************************************************)
(* The code of the D2207's input current register 0x04c0 and the three     *)
(* places that convert it: the charger driver (patches 0010 and 0017), and *)
(* boot/ipad_console.py, which writes the register behind the driver.      *)
(***************************************************************************)
EXTENDS Integers

Code == 0..255

Clamp(x, lo, hi) == IF x < lo THEN lo ELSE IF x > hi THEN hi ELSE x

\* j81_d2207_input_current_ma() and _charging_current_ma().
Decode(k) == IF k >= 254 THEN 3262 ELSE 75 + (100 * k + 7) \div 8

\* DIV_ROUND_CLOSEST(x, 100): C division truncates towards zero.
DivRoundClosest(x) == IF x > 0 THEN (x + 50) \div 100 ELSE -((50 - x) \div 100)

\* Mutant: the division truncates.
EncodeTruncates(ma) == Clamp(((ma - 75) * 8 - 7) \div 100, 0, 253)

\* j81_d2207_input_current_code().
Encode(ma) == Clamp(DivRoundClosest((ma - 75) * 8 - 7), 0, 253)

\* What a write of ua to input_current_limit puts in the register.
SetProperty(ua) == Encode(Clamp(ua, 75000, 3262000) \div 1000)

\* Python's round(x / 100): half to even.
Round(x) == LET q == x \div 100
                r == x % 100
            IN  IF r < 50 \/ (r = 50 /\ q % 2 = 0) THEN q ELSE q + 1

\* _charging_current_code().
EncodeConsole(ma) == Clamp(Round((ma - 75) * 8 - 7), 0, 253)

-----------------------------------------------------------------------------
(* What the two writers of the register and its readers rely on.           *)

\* The driver and the console encode every current the register can hold to
\* the same code ("matching _charging_current_code() exactly").
EncodersAgree(ma) == Encode(ma) = EncodeConsole(ma)

\* A limit that was read can be written back without changing it, for every
\* code but the saturated ones.
RoundTrip(k) == k \in 0..253 => SetProperty(Decode(k) * 1000) = k

\* The limit set is the closest the register has: within half a step of
\* 12.5 mA of the one asked for.
Closest(ma) == ma \in 75..3244 => Decode(Encode(ma)) - ma \in -7..5
=============================================================================
