----------------------------- MODULE MCProfiles -----------------------------
(* Instances of Profiles for TLC. *)
EXTENDS Profiles, TLC

\* Nobody logs in with a provider.
NoSuffixes == [n \in ProviderNames |-> {}]

\* Requests of a kind, names and emails are interchangeable.
Interchangeable ==
    Permutations(UploadReqs) \cup Permutations(UpdateReqs) \cup Permutations(DeleteReqs)
      \cup Permutations(RecoverReqs) \cup Permutations(PasswordReqs)
      \cup Permutations(Names) \cup Permutations(Emails) \cup Permutations(RegReqs)
=============================================================================
