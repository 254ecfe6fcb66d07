---------------------------- MODULE MCIporOracle ----------------------------
(* Values of the constants of IporOracleSpec for TLC. *)
EXTENDS IporOracleSpec, TLC

AssetSymmetry == Permutations(Asset)
AccountSymmetry == Permutations(Account)

Of(asset, value) == [asset |-> asset, value |-> value]

(* Every list of two publications. *)
MCPairs == {<<Of(a, v), Of(b, w)>> : a, b \in Asset, v, w \in IndexValues}

(* The decay factor is 1.0 in the block of the last publication, after a
   second 0.6 on the second line, after two 0.14 on the third, then 0. *)
MCSlopeOne == -20
MCSlopeTwo == -10
MCSlopeThree == -3
=============================================================================
