------------------------ MODULE SubscriptionContract ------------------------
(***************************************************************************)
(* What billing promises about one gateway subscription row and its user,  *)
(* with no services, messages or handlers: a row is opened once, becomes   *)
(* active only after a checkout opened for it was paid, is never reopened  *)
(* or reactivated after it was withdrawn, and a user is upgraded only once *)
(* a row of his was active.                                                *)
(***************************************************************************)
CONSTANTS Users, Subscriptions, OwnerOf

VARIABLES
    phase,     \* "none" -> "open" -> "active" and from either to "withdrawn"
    paidFor,   \* rows some paid checkout was opened for
    business   \* users with a BUSINESS account

contractVars == <<phase, paidFor, business>>

ContractInit ==
    /\ phase = [s \in Subscriptions |-> "none"]
    /\ paidFor = {}
    /\ business = {}

Open(s) ==
    /\ phase[s] = "none"
    /\ phase' = [phase EXCEPT ![s] = "open"]
    /\ UNCHANGED <<paidFor, business>>

\* A checkout may be paid after the row was withdrawn: the client keeps the URL.
Pay(s) ==
    /\ phase[s] # "none"
    /\ paidFor' = paidFor \cup {s}
    /\ UNCHANGED <<phase, business>>

Activate(s) ==
    /\ phase[s] = "open" /\ s \in paidFor
    /\ phase' = [phase EXCEPT ![s] = "active"]
    /\ UNCHANGED <<paidFor, business>>

Withdraw(s) ==
    /\ phase[s] \in {"open", "active"}
    /\ phase' = [phase EXCEPT ![s] = "withdrawn"]
    /\ UNCHANGED <<paidFor, business>>

Upgrade(u) ==
    /\ \E s \in Subscriptions :
         OwnerOf[s] = u /\ s \in paidFor /\ phase[s] \in {"active", "withdrawn"}
    /\ business' = business \cup {u}
    /\ UNCHANGED <<phase, paidFor>>

ContractNext ==
    \/ \E s \in Subscriptions : Open(s) \/ Pay(s) \/ Activate(s) \/ Withdraw(s)
    \/ \E u \in Users : Upgrade(u)

Contract == ContractInit /\ [][ContractNext]_contractVars
=============================================================================
