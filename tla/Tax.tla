----------------------------------- MODULE Tax ----------------------------------
(*****************************************************************************)
(* tax.py: the tax withheld month by month, from the tax on the income so    *)
(* far, and on one bonus a year taxed on its own.                            *)
(*                                                                           *)
(* Incomes are whole, taxes are in hundredths (a rate is in percent).  The   *)
(* dialogue that reads the inputs is left out.                               *)
(*****************************************************************************)
EXTENDS Integers, Sequences, SequencesExt, FiniteSetsExt

tax_lowest == 5000

(* upper limit (0: none), rate, deduction                                    *)
IncomeTable ==
  << <<36000, 3, 0>>, <<144000, 10, 2520>>, <<300000, 20, 16920>>,
     <<420000, 25, 31920>>, <<660000, 30, 52920>>, <<960000, 35, 85920>>,
     <<0, 45, 181920>> >>

BonusTable ==
  << <<3000, 3, 0>>, <<12000, 10, 210>>, <<25000, 20, 1410>>,
     <<35000, 25, 2660>>, <<55000, 30, 4410>>, <<80000, 35, 7160>>,
     <<0, 45, 15160>> >>

By(row, amount) == amount * row[2] - 100 * row[3]

RowFor(table, months, amount) ==
  table[CHOOSE i \in DOMAIN table :
          /\ table[i][1] = 0 \/ amount <= months * table[i][1]
          /\ \A j \in 1..i - 1 : amount > months * table[j][1]]

income_tax(income) ==
  IF income <= tax_lowest THEN 0
  ELSE By(RowFor(IncomeTable, 1, income), income)

beneficial_tax(bonus) == By(RowFor(BonusTable, 12, bonus), bonus)

(* The loop over the months: what is taxable is added up, and a month's tax  *)
(* is what its income adds to the tax of the year so far.  A cash reward is  *)
(* taxed like a bonus that is not the beneficial one.                        *)
Year(pay, housing, deduction, bonus, beneficial) ==
  LET month(acc, m) ==
        LET own == m = beneficial
            got == IF m \in DOMAIN bonus THEN bonus[m] ELSE 0
            own_tax == IF own THEN beneficial_tax(got) ELSE 0
            income == pay - housing - deduction + (IF own THEN 0 ELSE got)
            due == income_tax(acc.income + income) - acc.tax
        IN [income |-> acc.income + income,
            tax |-> acc.tax + due,
            net |-> acc.net + 100 * (income + deduction) - due
                    + (IF own THEN 100 * got - own_tax ELSE 0),
            paid |-> acc.paid + due + own_tax,
            refund |-> acc.refund \/ due < 0]
  IN FoldLeft(month, [income |-> 0, tax |-> 0, net |-> 0, paid |-> 0,
                      refund |-> FALSE], [m \in 1..12 |-> m])

(* The brackets join: at every limit both rates give the same tax.           *)
BracketsJoin ==
  \A i \in 1..Len(IncomeTable) - 1 :
    By(IncomeTable[i], IncomeTable[i][1])
      = By(IncomeTable[i + 1], IncomeTable[i][1])

(* A year's sums: what is withheld month by month is the tax on the whole    *)
(* year's income plus that on the bonus, wherever the bonuses fall; pay and  *)
(* tax together are all that was earned; and as long as no month's income is *)
(* negative, no month's tax is.                                              *)
TaxAddsUp(pay, housing, deduction, bonus, beneficial) ==
  LET year == Year(pay, housing, deduction, bonus, beneficial)
      Amount(m) == bonus[m]
      own == IF beneficial \in DOMAIN bonus THEN bonus[beneficial] ELSE 0
      others == MapThenSumSet(Amount, DOMAIN bonus \ {beneficial})
  IN /\ BracketsJoin
     /\ year.paid = income_tax(12 * (pay - housing - deduction) + others)
                    + (IF own = 0 THEN 0 ELSE beneficial_tax(own))
     /\ year.net + year.paid = 100 * (12 * (pay - housing) + own + others)
     /\ pay >= housing + deduction => ~year.refund
=============================================================================
