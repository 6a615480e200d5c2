------------------------------- MODULE Billing -------------------------------
(***************************************************************************)
(* The billing subsystem as a whole: the gateway, the payments service and *)
(* Stripe, joined by payments_queue, gateway_queue and the webhook.        *)
(***************************************************************************)
EXTENDS GatewaySubscriptions, PaymentsService, StripeCheckout

Init == BillingInit

\* Requests come from clients, so nothing obliges one to arrive.
Arrive(r) ==
    \/ r \in CreateReqs /\ CreateFindPending(r)
    \/ r \in RenewalReqs /\ RenewalFind(r)

GatewayStep(r) ==
    \/ r \in CreateReqs /\ CreateStep(r)
    \/ r \in RenewalReqs /\ RenewalReply(r)

Next ==
    \/ \E r \in Reqs : Arrive(r) \/ GatewayStep(r)
    \/ \E e \in Events : ListenerStep(e)
    \/ \E p \in Msgs : RpcStep(p)
    \/ \E k \in PayIds : HookStep(k)
    \/ \E k \in PayIds : UserPays(k) \/ Redeliver(k) \/ PeriodEnds(k)
    \/ GatewayCrash \/ PaymentsCrash

Spec == Init /\ [][Next]_vars

\* Started handlers run on and queued messages and due webhooks are delivered;
\* clients, crashes and the clock are not obliged to act.
Fairness ==
    /\ \A r \in Reqs : WF_vars(GatewayStep(r))
    /\ \A e \in Events : WF_vars(ListenerStep(e))
    /\ \A p \in Msgs : WF_vars(RpcStep(p))
    /\ \A k \in PayIds : WF_vars(HookStep(k))

FairSpec == Spec /\ Fairness
-----------------------------------------------------------------------------
(* Safety *)

\* A gateway row is ACTIVE only under a Stripe subscription that was paid for
\* in a checkout opened for that very row, through every reuse of a PENDING
\* row, stale write, redelivery and restart between the payment and the row.
ActiveIsPaid ==
    \A s \in CreateReqs : subs[s].status = "ACTIVE" => Paid(subs[s].ext, s)

\* The same for the payments service's own copy (SubscriptionEntity).
ActiveRowIsPaid ==
    \A w \in Msgs : prow[w].status = "active" => Paid(prow[w].ext, prow[w].gid)

\* No account is upgraded to BUSINESS unless its user paid for a subscription.
BusinessIsPaid ==
    \A u \in Users : account[u] = "BUSINESS" =>
        \E s \in CreateReqs, k \in PayIds : UserOf[s] = u /\ Paid(k, s)

\* A payments row shown as succeeded carries the charge of a checkout paid for
\* the subscription it is attached to.
SucceededIsPaid ==
    \A j \in PayIds : pays[j].st = "succeeded" /\ pays[j].row # None =>
        Paid(pays[j].charge, prow[pays[j].row].gid)

\* "User already has an active subscription" is answered only when the row the
\* request asked a session for was really paid for, by then.
ConflictMeansPaid ==
    \A r \in CreateReqs : req[r].res = "conflict" =>
        \E k \in PayIds : Paid(k, req[r].sub)

\* A client given a Stripe URL can pay it: the session of the acknowledged
\* execution is open or was paid, and it is for the row the request used.
UrlIsPayable ==
    \A r \in CreateReqs : req[r].res = "url" /\ req[r].prov = "STRIPE" =>
        /\ rpc[r].pay \in PayIds
        /\ stripe[rpc[r].pay].st # "none"
        /\ stripe[rpc[r].pay].gid = req[r].sub

-----------------------------------------------------------------------------
(* What the three services agree on when nothing is in flight *)

AtRest ==
    /\ \A r \in Reqs : req[r].pc \in {"start", "done"}
    /\ \A e \in Events : lis[e].st \in {"none", "done", "dropped", "lost"}
    /\ \A p \in Msgs : rpc[p].st \in {"none", "acked", "held"}
    /\ \A k \in PayIds : hook[k].pc \in {"idle", "done"}

\* The auto-renewal of a row is changed in order: no restart or second delivery
\* has repeated a step, it was paid once, and an enabling comes after the one
\* disabling there was.
NoRestart ==
    /\ faults.pcrash = MaxPaymentsCrash /\ faults.gcrash = MaxGatewayCrash
    /\ faults.redeliver = MaxRedeliver

Renewals(s, kind) == {p \in Msgs : rpc[p].st # "none" /\ rpc[p].kind = kind /\ rpc[p].gid = s}

Orderly(s) ==
    /\ NoRestart
    /\ \A j, k \in PayIds : Paid(j, s) /\ Paid(k, s) => j = k
    /\ \A p, q \in Renewals(s, "enable") : p = q
    /\ Renewals(s, "enable") # {} => \A p, q \in Renewals(s, "disable") : p = q

\* Once all handlers have run, the auto-renewal a client sees on an active
\* subscription is what the payments service has recorded and what Stripe will
\* do at the end of the period, whatever Stripe refused on the way.
RenewalAgreement ==
    AtRest => \A s \in CreateReqs, k \in PayIds :
        Orderly(s) /\ subs[s].status = "ACTIVE" /\ subs[s].ext = k /\ stripe[k].st = "paid" =>
            /\ subs[s].auto = ~stripe[k].cancel
            /\ \A w \in RowsFor(s) : prow[w].ext = k => prow[w].auto = subs[s].auto

\* Why the activation of s may leave t renewing: t's first period is over, or t
\* was switched on again, or the listener was lost, or took a third row for the
\* previous one, or the payments service refused to disable t.
LeftRenewing(s, t) ==
    \/ subs[t].ext \in lapsed
    \/ \E r \in EnableReqs : req[r].sub = t /\ req[r].res = "ok"
    \/ \E e \in Events :
         /\ lis[e].gid = s
         /\ \/ lis[e].st = "lost"
            \/ lis[e].prev \notin {None, t}
            \/ lis[e].prev = t /\ rpc[e].reply = "no"

\* However the activations of two rows of a user interleave, at most one of the
\* rows is left that the gateway believes renews: one switched the other off,
\* or had one of the reasons above not to.
Renews(s) == subs[s].status = "ACTIVE" /\ subs[s].auto

OneRenews ==
    AtRest => \A s, t \in CreateReqs :
        s # t /\ UserOf[s] = UserOf[t] /\ Renews(s) /\ Renews(t) =>
            LeftRenewing(s, t) \/ LeftRenewing(t, s)

\* A user who cancelled nothing keeps a renewing row at every moment, unless
\* the activations of his rows switched each other's rows off in a circle, or
\* the row that replaced another one was deleted after that.
SwitchedOff(s, t) ==
    \E e \in Events : /\ lis[e].gid = t /\ lis[e].prev = s
                      /\ lis[e].st \in {"upgrade", "done", "lost"} /\ rpc[e].reply = "yes"

RenewalSurvives ==
    \A u \in Users : ActiveOf(u) # {} /\ (\A s \in ActiveOf(u) : ~subs[s].auto) =>
        \/ \E r \in CancelReqs : UserOf[r] = u /\ req[r].res = "ok"
        \/ \E s \in ActiveOf(u), t \in CreateReqs :
             subs[t].status = "deleted" /\ SwitchedOff(s, t)
        \/ \A s \in ActiveOf(u) : \E t \in ActiveOf(u) \ {s} : SwitchedOff(s, t)

-----------------------------------------------------------------------------
(* Action properties *)

\* An active row is deleted only by the clean-up of the request that inserted
\* it, and only after another request had reused the row: while one request
\* alone works on a row, failing to get a session for it never costs a
\* subscription that was paid.
LosesReusedOnly ==
    \A s \in CreateReqs : subs[s].status = "ACTIVE" /\ subs'[s].status = "deleted" =>
        /\ req[s].pc = "wait" /\ req'[s].res \in {"conflict", "error"}
        /\ \E r \in CreateReqs \ {s} : req[r].sub = s
ActiveNeverDeleted == [][LosesReusedOnly]_vars

-----------------------------------------------------------------------------
(* Liveness *)

\* Every request the gateway started is answered, although RPCs have no
\* timeout: restarts of the payments service redeliver its messages.
EveryRequestAnswered ==
    \A r \in Reqs : req[r].pc \in {"touch", "insert", "wait"} ~> req[r].pc = "done"

\* A paid checkout makes its row active and its user a BUSINESS account, unless
\* something failed or restarted on the way.
NothingFailed ==
    /\ faults.pcrash = MaxPaymentsCrash /\ faults.gcrash = MaxGatewayCrash
    /\ faults.sfail = MaxStripeFail

PaidIsUpgraded ==
    \A s \in CreateReqs, k \in PayIds :
        Paid(k, s) ~> \/ /\ subs[s].status = "ACTIVE" /\ subs[s].ext = k
                         /\ account[UserOf[s]] = "BUSINESS"
                      \/ ~NothingFailed

\* A paid checkout is announced to the gateway ("Send activation event").
PaidIsAnnounced ==
    \A s \in CreateReqs, k \in PayIds :
        Paid(k, s) ~> \E e \in Events : lis[e].gid = s /\ lis[e].ext = k

-----------------------------------------------------------------------------
(* The inductive invariant behind ActiveIsPaid, BusinessIsPaid and the contract *)

\* A handler works on a row that exists or existed; only the request that
\* inserted a row may clean it up, and until it does the row is there.
RequestsInv ==
    \A r \in Reqs :
      /\ req[r].pc \in {"touch", "wait"} =>
           req[r].sub \in CreateReqs /\ subs[req[r].sub].status # "none"
      /\ req[r].pc \in {"start", "touch", "insert"} =>
           ~req[r].fresh /\ (r \in CreateReqs => subs[r].status = "none")
      /\ req[r].fresh /\ req[r].pc = "wait" =>
           r \in CreateReqs /\ req[r].sub = r /\ Exists(r)

\* A message is about such a row, and an execution about to open a session has
\* a payments row of its own that no session was opened for.
MessagesInv ==
    /\ \A p \in Msgs :
         /\ rpc[p].st # "none" =>
              rpc[p].gid \in CreateReqs /\ subs[rpc[p].gid].status # "none"
         /\ rpc[p].st = "session" =>
              /\ rpc[p].pay \in PayIds
              /\ pays[rpc[p].pay].st # "none"
              /\ stripe[rpc[p].pay].st = "none"
    /\ \A p, q \in Msgs :
         p # q /\ rpc[p].st = "session" /\ rpc[q].st = "session" => rpc[p].pay # rpc[q].pay

\* A session belongs to a payments row and a gateway row; the webhook runs for
\* paid sessions only.
SessionsInv ==
    \A k \in PayIds :
      /\ stripe[k].st # "none" =>
           /\ pays[k].st # "none"
           /\ stripe[k].gid \in CreateReqs
           /\ subs[stripe[k].gid].status # "none"
      /\ hook[k].pc # "idle" => stripe[k].st \in {"paid", "ended"}

\* An activation event names a Stripe subscription paid for that row, and a
\* listener past its first update has activated the row.
ListenersInv ==
    \A e \in Events :
      /\ lis[e].st # "none" => lis[e].gid \in CreateReqs /\ Paid(lis[e].ext, lis[e].gid)
      /\ lis[e].st \in {"find", "wait", "upgrade"} =>
           subs[lis[e].gid].status \in {"ACTIVE", "deleted"}

IInv ==
    /\ TypeOK
    /\ RequestsInv /\ MessagesInv /\ SessionsInv /\ ListenersInv
    /\ ActiveIsPaid /\ BusinessIsPaid

-----------------------------------------------------------------------------
(* What it takes for the payments service's tables and for the answers *)

\* A request is answered once, by the message it sent; that message keeps the
\* row and the provider of the request.
AnswersInv ==
    /\ \A r \in Reqs :
         /\ req[r].res # "none" => req[r].pc = "done"
         /\ req[r].pc \in {"start", "touch", "insert"} => rpc[r].st = "none"
    /\ \A r \in CreateReqs :
         /\ rpc[r].st # "none" => rpc[r].gid = req[r].sub /\ rpc[r].prov = req[r].prov
         /\ req[r].res = "url" => rpc[r].reply = "url"
         /\ req[r].res = "conflict" => rpc[r].reply = "null"
    /\ \A e \in Events : lis[e].st \in {"none", "queued", "find"} => rpc[e].st = "none"

\* Each execution has a payments row of its own; the session of the one that
\* answered with a URL is for its gateway row, and PayPal's has none.
Payable(p) ==
    /\ rpc[p].pay # None => pays[rpc[p].pay].st # "none"
    /\ rpc[p].st \in {"session", "answer"} \/ rpc[p].reply = "url" => rpc[p].pay # None
    /\ rpc[p].st = "none" => rpc[p].reply = "none"
    /\ rpc[p].reply = "url" => rpc[p].st = "acked"
    /\ rpc[p].reply = "null" => \E k \in PayIds : Paid(k, rpc[p].gid)
    /\ rpc[p].prov = "STRIPE" /\ (rpc[p].st = "answer" \/ rpc[p].reply = "url") =>
         stripe[rpc[p].pay].st # "none" /\ stripe[rpc[p].pay].gid = rpc[p].gid
    /\ rpc[p].prov = "PAYPAL" /\ rpc[p].pay # None => stripe[rpc[p].pay].st = "none"

PayableInv ==
    /\ \A p \in Msgs : Payable(p)
    /\ \A p, q \in Msgs : p # q /\ rpc[p].pay # None => rpc[p].pay # rpc[q].pay

\* Who paid was given the URL by a request for that row.
GivenInv ==
    \A k \in PayIds : stripe[k].st \in {"paid", "ended"} =>
        \E r \in CreateReqs : req[r].res = "url" /\ req[r].sub = stripe[k].gid

\* A payments row stays the row of the gateway row it was inserted for, and an
\* entity read earlier is of that row too.
Stored(w) == w \in Msgs /\ prow[w].status # "none"

RowsInv ==
    /\ \A w \in Msgs :
         prow[w].status # "none" => rpc[w].st # "none" /\ prow[w].gid = rpc[w].gid
    /\ \A p \in Msgs :
         /\ rpc[p].st = "insert" => prow[p].status = "none"
         /\ rpc[p].st \in {"saverow", "savepay"} => Stored(rpc[p].row)
         /\ rpc[p].st = "saverow" =>
              rpc[p].snap.status = "pending" /\ rpc[p].snap.gid = prow[rpc[p].row].gid
    /\ \A k \in PayIds :
         /\ hook[k].pc \in {"save", "findpay", "savepay"} =>
              Stored(hook[k].row) /\ prow[hook[k].row].gid = stripe[k].gid
         /\ hook[k].pc = "save" => hook[k].snap.gid = stripe[k].gid

\* A payment is attached to one payments row, by its column or by an entity
\* that still is to be saved; once it succeeded, with a charge for that row.
Attached(j, w) ==
    \/ pays[j].row = w
    \/ \E p \in Msgs : rpc[p].st = "saverow" /\ rpc[p].row = w /\ j \in rpc[p].loaded
    \/ \E k \in PayIds : /\ hook[k].row = w
                         /\ \/ hook[k].pc = "save" /\ j \in hook[k].loaded
                            \/ hook[k].pc = "savepay" /\ j = hook[k].pay

AttachedInv ==
    \A j \in PayIds, w \in Msgs : Attached(j, w) =>
        /\ pays[j].st # "none" /\ Stored(w)
        /\ pays[j].st = "succeeded" => Paid(pays[j].charge, prow[w].gid)
        /\ \A v \in Msgs : Attached(j, v) => v = w

RecordsInv ==
    /\ IInv
    /\ AnswersInv /\ PayableInv /\ GivenInv /\ RowsInv /\ AttachedInv
    /\ ActiveRowIsPaid

-----------------------------------------------------------------------------
(* What it takes for the auto-renewal *)

\* Each kind of message has its senders, and its own handler.
KindsInv ==
    \A p \in Msgs :
      /\ rpc[p].st # "none" =>
           rpc[p].kind = IF p \in CreateReqs THEN "create"
                         ELSE IF p \in EnableReqs THEN "enable" ELSE "disable"
      /\ rpc[p].st \in Handling \ {"db"} => rpc[p].kind = "create"
      /\ rpc[p].st = "db" => rpc[p].kind # "create"

\* A message about renewal is for the row its sender chose, under the payment
\* that row was activated with.
SendersInv ==
    /\ \A p \in Msgs : rpc[p].st # "none" /\ rpc[p].kind # "create" =>
         Paid(rpc[p].ext, rpc[p].gid) /\ subs[rpc[p].gid].status \in {"ACTIVE", "deleted"}
    /\ \A r \in RenewalReqs :
         /\ rpc[r].st # "none" => rpc[r].gid = req[r].sub
         /\ req[r].sub # None => req[r].sub \in CreateReqs /\ UserOf[req[r].sub] = UserOf[r]
         /\ req[r].pc = "wait" => rpc[r].st # "none"
    /\ \A e \in Events :
         /\ rpc[e].st # "none" => rpc[e].gid = lis[e].prev
         /\ lis[e].st \in {"none", "queued", "find", "dropped"} => lis[e].prev = None
         /\ lis[e].prev = None => rpc[e].st = "none"
         /\ lis[e].st = "wait" => rpc[e].st # "none"

\* The previous row is another row of the same user; neither is PENDING again.
PreviousInv ==
    \A e \in Events : lis[e].prev # None =>
        /\ lis[e].gid \in CreateReqs /\ lis[e].prev \in CreateReqs \ {lis[e].gid}
        /\ UserOf[lis[e].gid] = UserOf[lis[e].prev]
        /\ subs[lis[e].gid].status \in {"ACTIVE", "deleted"}
        /\ subs[lis[e].prev].status \in {"ACTIVE", "deleted"}

\* Of two renewing rows of a user, the activation of one is still to look for
\* the other or to disable it, or has left it renewing.
Pending(s, t) ==
    \E e \in Events : /\ lis[e].gid = s
                      /\ \/ lis[e].st = "find"
                         \/ lis[e].st = "wait" /\ lis[e].prev = t

PairsInv ==
    \A s, t \in CreateReqs :
        s # t /\ UserOf[s] = UserOf[t] /\ Renews(s) /\ Renews(t) =>
            \/ Pending(s, t) \/ Pending(t, s)
            \/ LeftRenewing(s, t) \/ LeftRenewing(t, s)

\* An active row that does not renew was cancelled or switched off.
OffInv ==
    \A s \in CreateReqs :
        /\ subs[s].status = "PENDING" => subs[s].auto
        /\ subs[s].status = "ACTIVE" /\ ~subs[s].auto =>
             \/ \E r \in CancelReqs : req[r].sub = s /\ req[r].res = "ok"
             \/ \E t \in CreateReqs \ {s} : /\ UserOf[t] = UserOf[s]
                                            /\ subs[t].status \in {"ACTIVE", "deleted"}
                                            /\ SwitchedOff(s, t)

\* Nothing renews that is not paid: until the webhook saves it, a payments row
\* is as it was inserted, and so is an entity read from it.
Untouched(row) == row.status # "active" => row.ext = None /\ row.auto

UntouchedInv ==
    /\ \A w \in Msgs : Untouched(prow[w])
    /\ \A p \in Msgs : rpc[p].st = "saverow" => Untouched(rpc[p].snap)
    /\ \A k \in PayIds : stripe[k].st \in {"none", "open"} => ~stripe[k].cancel

\* Without restarts each step of the webhook and of a message happens once.
OnceInv ==
    NoRestart =>
      /\ \A k \in PayIds : hook[k].pc \in {"idle", "due", "save"} =>
           \A w \in Msgs : prow[w].ext # k
      /\ \A k \in PayIds, s \in CreateReqs :
           hook[k].pc = "save" /\ stripe[k].gid = s /\ Orderly(s) =>
             hook[k].snap.ext = None /\ hook[k].snap.auto
      /\ \A e \in Events : /\ lis[e].st # "none" => hook[lis[e].ext].pc = "done"
                           /\ lis[e].st # "lost"
      /\ \A s \in CreateReqs : subs[s].status = "ACTIVE" => hook[subs[s].ext].pc = "done"
      /\ \A p \in Msgs :
           /\ rpc[p].st # "none" /\ rpc[p].kind # "create" => hook[rpc[p].ext].pc = "done"
           /\ rpc[p].reply # "none" => rpc[p].st \in {"held", "acked"}

\* Without restarts who sent a message about renewal waits for its answer.
WaitingInv ==
    NoRestart =>
      \A p \in Msgs : rpc[p].st # "none" /\ rpc[p].kind # "create" /\ rpc[p].reply = "none" =>
          \/ p \in RenewalReqs /\ req[p].pc = "wait"
          \/ p \in Events /\ lis[p].st = "wait"

\* How far a renewal message has come: Stripe has done it, the payments table
\* shows it, the sender has read the answer.
AtStripe == {p \in Msgs : rpc[p].st = "db" \/ rpc[p].reply = "yes"}
InTable == {p \in Msgs : rpc[p].reply = "yes"}
Taken ==
    {p \in InTable : \/ p \in Reqs /\ req[p].pc = "done"
                     \/ p \in Events /\ lis[p].st \in {"upgrade", "done"}}

\* On each of the three levels a row is off when a disabling has reached it and
\* no enabling has; an enabling is sent only after a disabling was taken.
Off(level, s) ==
    Renewals(s, "disable") \cap level # {} /\ Renewals(s, "enable") \cap level = {}

AgreedInv ==
    \A s \in CreateReqs : Exists(s) /\ Orderly(s) =>
        /\ Renewals(s, "enable") # {} => Renewals(s, "disable") \cap Taken # {}
        /\ subs[s].auto = ~Off(Taken, s)
        /\ \A k \in PayIds : Paid(k, s) => stripe[k].cancel = Off(AtStripe, s)
        /\ \A w \in Msgs : prow[w].gid = s /\ prow[w].ext # None =>
             prow[w].auto = ~Off(InTable, s)

RenewalInv ==
    /\ RecordsInv
    /\ KindsInv /\ SendersInv /\ PreviousInv /\ PairsInv /\ OffInv
    /\ UntouchedInv /\ OnceInv /\ WaitingInv /\ AgreedInv

-----------------------------------------------------------------------------
(* Refinement *)

Phase(s) ==
    CASE subs[s].status = "none" -> "none"
      [] subs[s].status = "PENDING" -> "open"
      [] subs[s].status = "ACTIVE" -> "active"
      [] OTHER -> "withdrawn"

Promise == INSTANCE SubscriptionContract WITH
    Subscriptions <- CreateReqs,
    OwnerOf <- UserOf,
    phase <- [s \in CreateReqs |-> Phase(s)],
    paidFor <- {s \in CreateReqs : \E k \in PayIds : Paid(k, s)},
    business <- {u \in Users : account[u] = "BUSINESS"}

\* Every behaviour of the three services, faults included, is one the contract
\* of a subscription row allows.
KeepsContract == Promise!Contract
=============================================================================
