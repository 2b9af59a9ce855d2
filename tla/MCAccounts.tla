----------------------------- MODULE MCAccounts -----------------------------
(***************************************************************************)
(* Instance of Accounts for TLC: one provider and one person.              *)
(***************************************************************************)
EXTENDS Accounts

EmailOf == [s \in Subjects |-> "alice"]
=============================================================================
