---------------------------- MODULE MCCategories ----------------------------
(* Two wordings on a card: a cafe's, of which nothing is stripped, and a    *)
(* taxi's with a reference in it; and one on a bank account, which is a     *)
(* reference and no more, where the payslip is paid in.                     *)
EXTENDS Categories

RowsMC == 1 .. 2
DescsMC == {"cafe", "taxi ref", "ref"}
WordsMC == [d \in DescsMC |-> IF d = "cafe" THEN {"plan"} ELSE {}]
ClassMC == [d \in DescsMC |-> IF d = "ref" THEN "bank" ELSE "card"]
SourceMC == [d \in DescsMC |-> ""]
AmountsMC == {-5, 5}
PatternsMC == DescsMC \cup {"taxi"}
CoreMC == [d \in DescsMC |->
             IF d = "taxi ref" THEN "taxi" ELSE IF d = "ref" THEN "blank" ELSE d]
PartOfMC == [p \in PatternsMC |-> IF p = "taxi" THEN {"taxi ref"} ELSE {p}]
OverlapsMC == [p \in PatternsMC |-> {}]
KeywordMC == [d \in DescsMC |-> [s \in {"in", "out"} |->
                IF d = "cafe" /\ s = "out" THEN "fun" ELSE Null]]

Payslip == [type |-> "payroll", desc |-> "ref", net |-> 3,
            lines |-> << [code |-> "gross", kind |-> "income", amt |-> 5, aside |-> FALSE, cash |-> TRUE],
                         [code |-> "tax", kind |-> "expense", amt |-> -2, aside |-> FALSE, cash |-> TRUE],
                         [code |-> "other", kind |-> "income", amt |-> 1, aside |-> TRUE, cash |-> TRUE] >>]
DocumentsMC == {Payslip}
=============================================================================
