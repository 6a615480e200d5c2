------------------------------ MODULE MCBilling ------------------------------
(* Instances of Billing for TLC. *)
EXTENDS Billing, TLC

CONSTANTS u1, u2, c2

\* One user makes every request.
OneUser == [r \in Reqs |-> u1]

\* The second create request is another user's.
TwoUsers == [r \in Reqs |-> IF r = c2 THEN u2 ELSE u1]

\* Events, and the create requests of one user, are interchangeable: the unused
\* event HookEmit chooses is as good as any other unused one.
Interchangeable == Permutations(CreateReqs) \cup Permutations(Events)
=============================================================================
