----------------------------- MODULE EventTypes -----------------------------
(***************************************************************************)
(* What kind of economic event a ledger row is, and whether that kind      *)
(* counts as spend (services/event_classifier.py), and the same for the    *)
(* lines of a structured document (services/document_apply.py).            *)
(*                                                                         *)
(* A wording is the set of the signals the classifier searches it for; an  *)
(* account is its class.                                                   *)
(***************************************************************************)
EXTENDS Integers

Signals == {"fee", "interest", "tax", "payroll", "payment", "refund", "plan"}
AccountClasses == {"bank", "card", "mortgage", "loan", "investment", "asset"}
SourceTypes == {"", "payment", "return"}   \* the row type of the bank's own export

Unclassified == "null"                     \* event_type IS NULL

(* Event types by what event_type_to_spend_metadata makes of them.          *)
Lifestyle == {"lifestyle_expense", "card_purchase", "merchant_refund", "card_credit",
              "rental_expense", Unclassified}
DebtCost == {"liability_payment", "mortgage_payment", "mortgage_interest", "fee"}
TaxCost == {"tax_payment"}
NonSpend == {"external_income", "payroll_income", "employer_benefit", "internal_transfer",
             "card_payment_settlement", "mortgage_principal", "investment_contribution",
             "investment_withdrawal", "asset_flow", "rental_income",
             "owner_distribution", "deferred_rent_liability"}
EventType == Lifestyle \cup DebtCost \cup TaxCost \cup NonSpend

SpendType(event) ==
  IF event \in DebtCost THEN "debt_cost"
  ELSE IF event \in TaxCost THEN "tax"
  ELSE IF event \in NonSpend THEN "non_spend_cash_use" ELSE "lifestyle"

CountsAsSpend(event) == event \notin NonSpend

(* One row of a card: what is owed grows with a negative amount.            *)
CardRow(amt, words, src) ==
  LET isFee == words \cap {"fee", "interest"} # {} IN
  IF amt <= 0 THEN IF isFee THEN "fee" ELSE "card_purchase"
  ELSE IF "refund" \in words THEN "merchant_refund"
  ELSE IF src = "payment" \/ "payment" \in words THEN "card_payment_settlement"
  ELSE IF isFee THEN "fee"
  ELSE IF "plan" \in words THEN "card_credit" ELSE "merchant_refund"

BankRow(amt, words) ==
  IF "fee" \in words THEN "fee"
  ELSE IF "tax" \in words THEN "tax_payment"
  ELSE IF amt < 0 THEN "lifestyle_expense"
  ELSE IF "payroll" \in words THEN "payroll_income" ELSE "external_income"

(* classify_transaction: the account's class decides before the wording.    *)
classify_transaction(class, amt, words, src, transfer) ==
  IF transfer THEN "internal_transfer" ELSE
  CASE class = "card" -> CardRow(amt, words, src)
    [] class = "mortgage" -> IF amt > 0 THEN "mortgage_payment"
                             ELSE IF "interest" \in words THEN "mortgage_interest" ELSE "fee"
    [] class = "loan" -> IF amt > 0 THEN "liability_payment" ELSE "fee"
    [] class = "investment" -> IF amt > 0 THEN "investment_contribution"
                               ELSE "investment_withdrawal"
    [] class = "asset" -> "asset_flow"
    [] class = "bank" -> BankRow(amt, words)

----------------------------------------------------------------------------
(* Lines of a payslip or of a rental statement.  `code' is the class of the *)
(* component code, `aside' is excluded_from_net_sum, `cash' is is_cash.     *)
LineCodes == {"gross", "tax", "pension", "health", "net", "rent", "draw", "prepaid", "other"}
LineKinds == {"income", "expense", "transfer", "liability"}

PayrollLineEvent(line) ==
  IF line.aside /\ line.amt > 0 THEN "employer_benefit" ELSE
  CASE line.code = "gross" -> "payroll_income"
    [] line.code = "tax" -> "tax_payment"
    [] line.code = "pension" -> "investment_contribution"
    [] line.code = "health" -> "fee"
    [] line.code = "net" -> "external_income"
    [] OTHER -> IF line.kind = "expense" THEN "fee" ELSE "payroll_income"

RentalLineEvent(line) ==
  IF line.kind = "income" \/ line.code = "rent" THEN "rental_income"
  ELSE IF line.kind = "expense" THEN "rental_expense"
  ELSE IF line.kind = "transfer" \/ line.code = "draw" THEN "owner_distribution"
  ELSE IF line.kind = "liability" \/ line.code = "prepaid" THEN "deferred_rent_liability"
  ELSE "rental_expense"

LineEvent(type, line) ==
  IF type = "payroll" THEN PayrollLineEvent(line) ELSE RentalLineEvent(line)

\* A document's line says itself whether it is spend; the metadata of its
\* event type is not asked.
LineCounts(type, line) ==
  LineEvent(type, line) \in IF type = "payroll" THEN {"tax_payment", "fee"} ELSE {"rental_expense"}

\* The part of the bank deposit that a line stands for.
LineAmount(type, line) ==
  IF line.aside \/ (type = "rental" /\ line.kind = "liability" /\ ~line.cash)
  THEN 0 ELSE line.amt
=============================================================================
