----------------------------- MODULE MCAccounts -----------------------------
(* Instances of Accounts for TLC. *)
EXTENDS Accounts, TLC

CONSTANT n2

\* n2 is a name users choose and what the name a provider gives is completed to.
Completed == [n \in ProviderNames |-> {n2}]

\* Emails and the requests of a kind are interchangeable.
Interchangeable ==
    Permutations(Emails) \cup Permutations(RegReqs)
      \cup Permutations(OAuthReqs) \cup Permutations(PasswordReqs) \cup Permutations(RecoverReqs)
=============================================================================
