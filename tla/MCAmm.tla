------------------------------- MODULE MCAmm -------------------------------
(* Values of the constants of Amm for TLC. *)
EXTENDS Amm, TLC

AccountSymmetry == Permutations(Account)

(* Lists of up to two ids, in both orders and with the first id twice. *)
MCLegSequences == UNION {[1..n -> SwapId] : n \in 0..2} \ {<<2, 2>>}

CONSTANT NextCompound   \* the contracts that may replace the Compound contract

(* Any contract is replaced by another one of its kind, by itself and back, if
   NextCompound has all Compound contracts. *)
MCReplacements == {Aave} \X AaveContracts \cup {Compound} \X NextCompound
=============================================================================
