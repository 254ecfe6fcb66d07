-------------------------- MODULE MCMiltonStorage --------------------------
(* Values of the constants of MiltonStorageSpec for TLC. *)
EXTENDS MiltonStorageSpec, TLC

Terms(coll, notional, ibt, rate) ==
    [collateral |-> coll, notional |-> notional, ibtQuantity |-> ibt,
     fixedInterestRate |-> rate, liquidationDepositAmount |-> 1,
     openingFeeLPAmount |-> 0, openingFeeTreasuryAmount |-> 6]

AccountSymmetry == Permutations(Account)

MCOneTerm == {Terms(2, 10, 10, 1)}
=============================================================================
