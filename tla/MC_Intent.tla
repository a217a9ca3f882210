------------------------------ MODULE MC_Intent ------------------------------
EXTENDS Intent, TLC

CONSTANTS a1, a2, aBad, cFlow, cAlias, cBad, junk

MCAccounts == {a1, a2, aBad}
MCValidAccounts == {a1, a2}

(* cAlias is the FLOW currency given without its decimals, which the      *)
(* validator fills in; cBad is an unknown currency.                        *)
MCCurrencies == {cFlow, cAlias, cBad}
MCCanonical == (cFlow :> cFlow) @@ (cAlias :> cFlow) @@ (cBad :> Err)

(* junk is an amount text that is not a decimal.                          *)
MCDigits == {1, 2, junk}
MCTypes == {"TRANSFER", "transfer", "FEE"}
MCUpper == [t \in MCTypes |-> IF t = "transfer" THEN "TRANSFER" ELSE t]
=============================================================================
