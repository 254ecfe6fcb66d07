------------------------------ MODULE IporMath ------------------------------
(***************************************************************************)
(* Fixed point arithmetic of the protocol: contracts/libraries/math and    *)
(* Constants.sol.                                                          *)
(*                                                                         *)
(* Solidity integers are unbounded here; the places where the code stores  *)
(* a value in a narrower type are guarded with Fits by the modules that    *)
(* store it.  D18, the number of units in "1.0", is a parameter so that    *)
(* TLC can work with a coarse unit: every rounding of the code is then     *)
(* large enough to be visible in a small model.                            *)
(***************************************************************************)
EXTENDS Integers

CONSTANTS
    \* The fixed point unit, 10^18 in Constants.sol.
    D18,
    \* Seconds in a year; with D18 it scales every interest.
    YEAR_IN_SECONDS

ASSUME D18Assumption == D18 \in Nat \ {0}

ASSUME YearAssumption == YEAR_IN_SECONDS \in Nat \ {0}

WAD_YEAR_IN_SECONDS == D18 * YEAR_IN_SECONDS

-----------------------------------------------------------------------------
(* Division of two unsigned numbers, rounding half up. *)
Division(x, y) == (x + (y \div 2)) \div y

(* Solidity's signed division truncates towards zero; \div of TLA+ floors.
   The divisor is positive in every use of the code. *)
TruncDiv(x, y) == IF x >= 0 THEN x \div y ELSE -((-x) \div y)

(* divisionInt adds half of the divisor and then truncates towards zero:
   above zero it rounds half up, below zero it rounds towards zero twice. *)
DivisionInt(x, y) == TruncDiv(x + (y \div 2), y)

AbsoluteValue(v) == IF v < 0 THEN -v ELSE v

PercentOf(value, rate) == Division(value * rate, D18)

-----------------------------------------------------------------------------
(* Amounts are kept in WAD inside the protocol and in the decimals of the  *)
(* asset in its ERC20 token.  The protocol's assets have 18 or 6 decimals; *)
(* unit is the number of WAD units in one unit of the token: 1 when it has *)
(* 18 decimals, 10^12 when it has 6.                                       *)
ConvertWadToAssetDecimals(value, unit) == Division(value, unit)

ConvertWadToAssetDecimalsWithoutRound(value, unit) == value \div unit

ConvertToWad(value, unit) == value * unit

(* A checked subtraction, toUint128(), toUint64(), toUint32(): the call
   reverts unless the value is in the range of its type. *)
Fits(value, max) == 0 <= value /\ value <= max
=============================================================================
