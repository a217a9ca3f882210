------------------------------- MODULE Intent -------------------------------
(***************************************************************************)
(* Parser.CreateTransactionIntent of rosetta/transactions/intent.go: from  *)
(* two Rosetta operations, a withdrawal and a deposit, the transfer intent *)
(* (sender, receiver, amount, payer, proposer), or the first check that    *)
(* rejects them.                                                           *)
(*                                                                         *)
(* An operation is abstracted to what the function reads: the account, the *)
(* currency, the amount and the type. An amount string is its number of   *)
(* leading '-' characters and the rest, a decimal (a natural) or text that *)
(* does not parse. The validator and the amount parser belong to packages  *)
(* outside this repository's sources; they are modelled from their use.    *)
(***************************************************************************)
EXTENDS Naturals, Sequences

CONSTANTS
  Accounts,       \* account identifiers
  ValidAccounts,  \* the ones validate.Account accepts
  Currencies,     \* currency descriptions as given
  Canonical,      \* [Currencies -> Currencies \cup {Err}]: validate.Currency
  Digits,         \* amount texts after the sign: naturals, or unparseable text
  Types,          \* operation type strings
  Upper,          \* [Types -> Types]: strings.ToUpper
  Transfer,       \* dps.OperationTransfer
  Err             \* model value: an error

Amounts == [minus : 0..2, digits : Digits]
Operations == [account : Accounts, currency : Currencies, amount : Amounts, type : Types]

(* strings.HasPrefix(value, "-") and strings.TrimPrefix(value, "-").      *)
Negative(a) == a.minus > 0
TrimMinus(a) == [a EXCEPT !.minus = IF @ > 0 THEN @ - 1 ELSE 0]

(* convert.ParseRosettaValue: a UFix64 from an unsigned decimal.          *)
ParseRosettaValue(a) ==
  IF a.minus = 0 /\ a.digits \in Nat THEN a.digits ELSE Err

(* validate.Account and validate.Currency.                                 *)
AccountOK(acc) == acc \in ValidAccounts
ValidateCurrency(c) == Canonical[c]

Reject(reason) == [ok |-> FALSE, reason |-> reason]

(* Mutant: the currencies are compared as given, before validate.Currency *)
(* has put them in canonical form.                                         *)
CurrenciesDifferRaw(send, receive) == send.currency # receive.currency

(* send.Amount.Currency != receive.Amount.Currency, after both were        *)
(* replaced by their validated form.                                       *)
CurrenciesDiffer(send, receive) ==
  ValidateCurrency(send.currency) # ValidateCurrency(receive.currency)

(* The checks in the order the function makes them, each with the error   *)
(* it returns, for the operations after the swap.                          *)
Checks(send, receive) ==
  LET sv == ParseRosettaValue(TrimMinus(send.amount))
      rv == ParseRosettaValue(receive.amount)
  IN << [fails |-> ~Negative(send.amount), reason |-> "deposit operation missing"],
        [fails |-> ~AccountOK(send.account), reason |-> "invalid sender account"],
        [fails |-> ~AccountOK(receive.account), reason |-> "invalid receiver account"],
        [fails |-> ValidateCurrency(send.currency) = Err, reason |-> "invalid sender currency"],
        [fails |-> ValidateCurrency(receive.currency) = Err, reason |-> "invalid receiver currency"],
        [fails |-> CurrenciesDiffer(send, receive), reason |-> "currencies do not match"],
        [fails |-> sv = Err, reason |-> "could not parse withdrawal amount"],
        [fails |-> rv = Err, reason |-> "could not parse deposit amount"],
        [fails |-> sv # rv, reason |-> "amounts do not match"],
        [fails |-> Upper[send.type] # Transfer \/ Upper[receive.type] # Transfer,
         reason |-> "only transfer operations are supported"] >>

(* The function for two operations: send is operations[0] unless its      *)
(* amount lacks the '-' prefix, in which case the two are swapped; the     *)
(* first failing check is the result, otherwise the intent.                *)
CreateTransactionIntent(ops) ==
  LET swap == ~Negative(ops[1].amount)
      send == IF swap THEN ops[2] ELSE ops[1]
      receive == IF swap THEN ops[1] ELSE ops[2]
      checks == Checks(send, receive)
      failing == {i \in 1..Len(checks) : checks[i].fails}
      first == CHOOSE i \in failing : \A j \in failing : i <= j
  IN IF failing # {} THEN Reject(checks[first].reason)
     ELSE [ok |-> TRUE, from |-> send.account, to |-> receive.account,
           amount |-> ParseRosettaValue(TrimMinus(send.amount)),
           payer |-> send.account, proposer |-> send.account]

-----------------------------------------------------------------------------
(* Every pair of operations is given to the function, one call at a time. *)

Inputs == {<<x, y>> : x, y \in Operations}

VARIABLES ops, result

vars == <<ops, result>>

Init ==
  /\ ops = <<>>
  /\ result = Err

Call ==
  /\ ops = <<>>
  /\ \E o \in Inputs :
       /\ ops' = o
       /\ result' = CreateTransactionIntent(o)

Return ==
  /\ ops # <<>>
  /\ ops' = <<>>
  /\ result' = Err

Next == Call \/ Return

Spec == Init /\ [][Next]_vars

-----------------------------------------------------------------------------
(* Properties.                                                             *)

(* The intent the doc comment describes (intent.go:43-46): one withdrawal, *)
(* whose amount has a single '-' sign, and one deposit of the same amount  *)
(* in the same currency, in either order, from two different valid         *)
(* accounts, both transfers; the withdrawing account sends, pays and       *)
(* proposes.                                                               *)
Symmetrical(s, r) ==
  /\ s.amount.minus = 1
  /\ r.amount.minus = 0
  /\ s.amount.digits \in Nat
  /\ s.amount.digits = r.amount.digits
  /\ AccountOK(s.account) /\ AccountOK(r.account)
  /\ s.account # r.account
  /\ ValidateCurrency(s.currency) # Err
  /\ ValidateCurrency(s.currency) = ValidateCurrency(r.currency)
  /\ Upper[s.type] = Transfer /\ Upper[r.type] = Transfer

IntentReference(o) ==
  IF \E i \in 1..2 : Symmetrical(o[i], o[3 - i])
    THEN LET i == CHOOSE i \in 1..2 : Symmetrical(o[i], o[3 - i])
         IN [ok |-> TRUE, from |-> o[i].account, to |-> o[3 - i].account,
             amount |-> o[i].amount.digits,
             payer |-> o[i].account, proposer |-> o[i].account]
    ELSE Reject("any")

(* CreateTransactionIntent decides as the doc comment says: it accepts     *)
(* exactly the symmetrical pairs, in either order, and builds the intent   *)
(* the reference builds: the swap on the '-' prefix, the single            *)
(* TrimPrefix and the comparison of validated currencies and parsed        *)
(* amounts together decide it.                                             *)
IntentMatchesReference ==
  ops # <<>> =>
    \/ result.ok /\ result = IntentReference(ops)
    \/ ~result.ok /\ ~IntentReference(ops).ok

(* The same for every pair of operations on two different accounts, the   *)
(* pairs whose decision does not turn on the accounts being distinct.      *)
DistinctAccountsMatchReference ==
  ops # <<>> /\ ops[1].account # ops[2].account => IntentMatchesReference

=============================================================================
