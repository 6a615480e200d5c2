---------------------------- MODULE BillingState ----------------------------
(***************************************************************************)
(* The state of the billing subsystem: the gateway's Prisma tables and     *)
(* in-flight handlers, the payments service's TypeORM tables and in-flight *)
(* handlers, the RabbitMQ messages between them and Stripe's own records.  *)
(*                                                                         *)
(* Identities.  A gateway `Subscription` row is named by the create        *)
(* request that inserted it, a payments `subscriptions` row by the RPC     *)
(* message whose handler inserted it, and Stripe's checkout session and    *)
(* subscription by the payments row (PayIds) they were opened for: each    *)
(* is created at most once, so the names are exact, not a bound.           *)
(***************************************************************************)
EXTENDS Naturals, FiniteSets

CONSTANTS
    Users,             \* gateway users
    CreateReqs,        \* POST /subscriptions requests
    CancelReqs,        \* POST /subscriptions/cancel-auto-renewal requests
    EnableReqs,        \* POST /subscriptions/enable-auto-renewal requests
    UserOf,            \* the authenticated user of each request
    Providers,         \* the payment providers a client may ask for
    Events,            \* names for `subscription_activated` messages
    MaxPays,           \* bound: payments rows
    MaxPaymentsCrash,  \* bound: restarts of the payments service
    MaxGatewayCrash,   \* bound: restarts of the gateway
    MaxStripeFail,     \* bound: failing calls to Stripe
    MaxRedeliver,      \* bound: duplicate webhook deliveries
    MaxLapse,          \* bound: billing periods that end
    None               \* SQL NULL / an unset local

Reqs == CreateReqs \cup CancelReqs \cup EnableReqs
RenewalReqs == CancelReqs \cup EnableReqs
Msgs == Reqs \cup Events
PayIds == 1..MaxPays

ASSUME RequestsAssumption ==
    /\ IsFiniteSet(CreateReqs)
    /\ CreateReqs \cap RenewalReqs = {}
    /\ CancelReqs \cap EnableReqs = {}
    /\ UserOf \in [Reqs -> Users]
    /\ Providers \subseteq {"STRIPE", "PAYPAL"}

ASSUME NamesAssumption ==
    /\ Events \cap Reqs = {}
    /\ None \notin Msgs
    /\ None \notin Nat

\* The bounds on names never stop a handler: a create message is executed at
\* most once more per restart, each execution opens one payment, only the
\* session of the acknowledged execution reaches a client, and a webhook
\* announces once per delivery that runs to its end.
ASSUME BoundsAssumption ==
    /\ MaxPays \in Nat /\ MaxPaymentsCrash \in Nat /\ MaxGatewayCrash \in Nat
    /\ MaxStripeFail \in Nat /\ MaxRedeliver \in Nat /\ MaxLapse \in Nat
    /\ MaxPays >= Cardinality(CreateReqs) * (MaxPaymentsCrash + 1)
    /\ Cardinality(Events) >= Cardinality(CreateReqs) + MaxRedeliver

VARIABLES
    subs,     \* gateway: `Subscription` table
    account,  \* gateway: `User.accountType`
    req,      \* gateway: the HTTP request handlers
    lis,      \* gateway: the `subscription_activated` messages and listeners
    prow,     \* payments: `subscriptions` table
    pays,     \* payments: `payments` table
    rpc,      \* payments_queue messages with their handlers and replies
    hook,     \* payments: the webhook deliveries and handlers
    stripe,   \* Stripe: checkout sessions and the subscriptions they create
    lapsed,   \* Stripe subscriptions whose first period has ended
    faults    \* faults still allowed to happen

gatewayVars == <<subs, account, req, lis>>
tableVars == <<prow, pays>>
paymentsVars == <<prow, pays, hook>>
stripeVars == <<stripe, lapsed>>
vars == <<subs, account, req, lis, prow, pays, rpc, hook, stripe, lapsed, faults>>

-----------------------------------------------------------------------------
MaybePay == PayIds \cup {None}
MaybeSub == CreateReqs \cup {None}

\* `Subscription` of schema.prisma.  No code writes the other enum members.
Subscription ==
    [status : {"none", "PENDING", "ACTIVE", "deleted"}, auto : BOOLEAN, ext : MaybePay]

\* SubscriptionEntity and PaymentEntity of the payments service.
Row == [status : {"none", "pending", "active"}, gid : MaybeSub, ext : MaybePay,
        auto : BOOLEAN]
Payment == [st : {"none", "pending", "succeeded"}, row : Msgs \cup {None},
            charge : MaybePay]

Request == [pc : {"start", "touch", "insert", "wait", "done"},
            sub : MaybeSub, fresh : BOOLEAN,
            prov : {"STRIPE", "PAYPAL"},
            res : {"none", "url", "conflict", "error", "failed", "ok", "notFound",
                   "refused", "lost"}]

Listener == [st : {"none", "queued", "find", "wait", "upgrade", "done", "dropped", "lost"},
             gid : MaybeSub, ext : MaybePay, prev : MaybeSub]

Message ==
    [st : {"none", "queued", "saverow", "insert", "savepay", "session", "answer",
           "db", "held", "acked"},
     kind : {"create", "disable", "enable"},
     gid : MaybeSub, ext : MaybePay, prov : {"STRIPE", "PAYPAL"},
     row : Msgs \cup {None}, snap : Row, loaded : SUBSET PayIds, pay : MaybePay,
     reply : {"none", "url", "null", "error", "yes", "no"}]

Webhook == [pc : {"idle", "due", "save", "findpay", "savepay", "emit", "done"},
            row : Msgs \cup {None}, snap : Row, loaded : SUBSET PayIds, pay : MaybePay]

Session == [st : {"none", "open", "paid", "ended"}, gid : MaybeSub, cancel : BOOLEAN]

FaultBudget == [pcrash : 0..MaxPaymentsCrash, gcrash : 0..MaxGatewayCrash,
                sfail : 0..MaxStripeFail, redeliver : 0..MaxRedeliver,
                lapse : 0..MaxLapse]

NoRow == [status |-> "none", gid |-> None, ext |-> None, auto |-> TRUE]
NoSub == [status |-> "none", auto |-> TRUE, ext |-> None]
NewRequest == [pc |-> "start", sub |-> None, fresh |-> FALSE, prov |-> "STRIPE",
               res |-> "none"]
NoListener == [st |-> "none", gid |-> None, ext |-> None, prev |-> None]
NoMessage == [st |-> "none", kind |-> "create", gid |-> None, ext |-> None,
              prov |-> "STRIPE", row |-> None, snap |-> NoRow, loaded |-> {},
              pay |-> None, reply |-> "none"]
IdleHook == [pc |-> "idle", row |-> None, snap |-> NoRow, loaded |-> {}, pay |-> None]

BillingInit ==
    /\ subs = [s \in CreateReqs |-> NoSub]
    /\ account = [u \in Users |-> "PERSONAL"]
    /\ req = [r \in Reqs |-> NewRequest]
    /\ lis = [e \in Events |-> NoListener]
    /\ prow = [p \in Msgs |-> NoRow]
    /\ pays = [k \in PayIds |-> [st |-> "none", row |-> None, charge |-> None]]
    /\ rpc = [p \in Msgs |-> NoMessage]
    /\ hook = [k \in PayIds |-> IdleHook]
    /\ stripe = [k \in PayIds |-> [st |-> "none", gid |-> None, cancel |-> FALSE]]
    /\ lapsed = {}
    /\ faults = [pcrash |-> MaxPaymentsCrash, gcrash |-> MaxGatewayCrash,
                 sfail |-> MaxStripeFail, redeliver |-> MaxRedeliver,
                 lapse |-> MaxLapse]

TypeOK ==
    /\ subs \in [CreateReqs -> Subscription]
    /\ account \in [Users -> {"PERSONAL", "BUSINESS"}]
    /\ req \in [Reqs -> Request]
    /\ lis \in [Events -> Listener]
    /\ prow \in [Msgs -> Row]
    /\ pays \in [PayIds -> Payment]
    /\ rpc \in [Msgs -> Message]
    /\ hook \in [PayIds -> Webhook]
    /\ stripe \in [PayIds -> Session]
    /\ lapsed \in SUBSET PayIds
    /\ faults \in FaultBudget

\* Stripe subscription k was paid for, in a checkout opened for gateway row s.
Paid(k, s) == k \in PayIds /\ stripe[k].st \in {"paid", "ended"} /\ stripe[k].gid = s
=============================================================================
