-------------------------- MODULE MCTransferLinks --------------------------
(* A payment from checking to the card, both sides on the ledger.           *)
EXTENDS TransferLinks, TLC

Interchangeable == Permutations(Requests)

Entry(acct, amt) == [acct |-> acct, amt |-> amt, pay |-> TRUE]
Outgoing == {-5}
Payment == << Entry("checking", -5), Entry("card", 5) >>
=============================================================================
