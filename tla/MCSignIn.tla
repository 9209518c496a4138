------------------------------ MODULE MCSignIn ------------------------------
(* Two overlapping setups over a ledger from before there were users.       *)
EXTENDS SignIn

UsernameMC == [a |-> "ann", b |-> "ben"]
TableOfMC == [food |-> "categories", acct |-> "accounts", pa |-> "user_profile", pb |-> "user_profile",
              old |-> "user_profile"]
ProfileMC == [a |-> "pa", b |-> "pb"]
=============================================================================
