---------------------------- MODULE MCSoapDrift ----------------------------
(* Values of the constants of SoapDrift for TLC: swaps with rates whose
   averages round up, down and not at all. *)
EXTENDS SoapDrift, TLC

Terms(coll, notional, ibt, rate) ==
    [collateral |-> coll, notional |-> notional, ibtQuantity |-> ibt,
     fixedInterestRate |-> rate, liquidationDepositAmount |-> 1,
     openingFeeLPAmount |-> 0, openingFeeTreasuryAmount |-> 0]

MCTerms == {Terms(1, 10, 9, 0), Terms(1, 10, 9, 3), Terms(1, 30, 33, 1)}
=============================================================================
