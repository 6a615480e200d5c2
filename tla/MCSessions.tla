----------------------------- MODULE MCSessions -----------------------------
(* Instances of Sessions for TLC. *)
EXTENDS Sessions, TLC

CONSTANTS a, b, u, v, l2, f2, f3

\* Client b makes the OAuth logins, the second login, two refreshes and the
\* terminations; client a makes the rest.
TwoClients ==
    [r \in Reqs |->
        IF r \in OAuthReqs \cup TerminateReqs \cup OthersReqs \cup {l2, f2, f3} THEN b ELSE a]

SameUser == [c \in Clients |-> u]
OtherUser == [c \in Clients |-> IF c = a THEN u ELSE v]

\* Requests of one kind and one client are interchangeable.
Interchangeable ==
    {p \in Permutations(LoginReqs) \cup Permutations(RefreshReqs) :
        \A r \in DOMAIN p : ClientOf[p[r]] = ClientOf[r]}
=============================================================================
