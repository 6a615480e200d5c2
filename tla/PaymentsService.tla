-------------------------- MODULE PaymentsService --------------------------
(***************************************************************************)
(* The payments service: the three RPC handlers fed by payments_queue      *)
(* (consumed with noAck = false) and the Stripe webhook handler.  An       *)
(* action is the code between two awaits; a TypeORM save or update and a   *)
(* call to Stripe are atomic.                                              *)
(***************************************************************************)
EXTENDS BillingState

\* Stripe refuses or cannot be reached.
StripeFails ==
    /\ faults.sfail > 0
    /\ faults' = [faults EXCEPT !.sfail = @ - 1]

\* Rows `findOne` by gatewaySubscriptionId may return (the column is not unique).
RowsFor(gid) == {w \in Msgs : prow[w].status # "none" /\ prow[w].gid = gid}
PaymentsOf(w) == {k \in PayIds : pays[k].row = w}

HookReturns(k) == hook' = [hook EXCEPT ![k] = [IdleHook EXCEPT !.pc = "done"]]

\* The handler of m returns.  The reply is written once: the gateway forgets a
\* correlation id when the first answer arrives.
Answered(m, st, reply) ==
    [m EXCEPT !.st = st, !.row = None, !.snap = NoRow, !.loaded = {},
              !.reply = IF m.reply = "none" THEN reply ELSE m.reply]

\* `save` of an entity loaded with its payments: columns that differ from the
\* database are overwritten, and the foreign keys of the row's payments become
\* exactly the loaded ones, so a payment inserted meanwhile is orphaned.
SaveRow(w, entity, loaded) ==
    /\ prow' = [prow EXCEPT ![w] = entity]
    /\ pays' = [k \in PayIds |->
                  IF k \in loaded THEN [pays[k] EXCEPT !.row = w]
                  ELSE IF pays[k].row = w THEN [pays[k] EXCEPT !.row = None]
                  ELSE pays[k]]

-----------------------------------------------------------------------------
\* Mutant: every known subscription is answered like an active one.
PayFindKnown(p) ==
    /\ rpc[p].st = "queued" /\ rpc[p].kind = "create"
    /\ rpc' = [rpc EXCEPT ![p] = IF RowsFor(rpc[p].gid) = {} THEN [@ EXCEPT !.st = "insert"]
                                ELSE Answered(@, "acked", "null")]
    /\ UNCHANGED <<gatewayVars, paymentsVars, stripeVars, faults>>

\* create_payment_session
PayFind(p) ==
    /\ rpc[p].st = "queued" /\ rpc[p].kind = "create"
    /\ \/ \E w \in RowsFor(rpc[p].gid) :
            \/ /\ prow[w].status = "active"
               /\ rpc' = [rpc EXCEPT ![p] = Answered(@, "acked", "null")]
            \/ /\ prow[w].status = "pending"
               /\ rpc' = [rpc EXCEPT ![p] = [@ EXCEPT !.st = "saverow", !.row = w,
                                       !.snap = prow[w], !.loaded = PaymentsOf(w)]]
       \/ /\ RowsFor(rpc[p].gid) = {}
          /\ rpc' = [rpc EXCEPT ![p].st = "insert"]
    /\ UNCHANGED <<gatewayVars, paymentsVars, stripeVars, faults>>

PaySaveRow(p) ==
    /\ rpc[p].st = "saverow"
    /\ SaveRow(rpc[p].row, rpc[p].snap, rpc[p].loaded)
    /\ rpc' = [rpc EXCEPT ![p].st = "savepay"]
    /\ UNCHANGED <<gatewayVars, hook, stripeVars, faults>>

PayInsertRow(p) ==
    /\ rpc[p].st = "insert"
    /\ prow' = [prow EXCEPT ![p] = [status |-> "pending", gid |-> rpc[p].gid,
                                    ext |-> None, auto |-> TRUE]]
    /\ rpc' = [rpc EXCEPT ![p] = [@ EXCEPT !.st = "savepay", !.row = p]]
    /\ UNCHANGED <<gatewayVars, pays, hook, stripeVars, faults>>

\* Mutant: two executions may take the same payments row.
AnyPayment(k) == \A j \in PayIds : j < k => pays[j].st # "none"

\* Payments are numbered in the order of their createdAt.
NextPayment(k) == pays[k].st = "none" /\ \A j \in PayIds : j < k => pays[j].st # "none"

PaySavePayment(p) ==
    /\ rpc[p].st = "savepay"
    /\ \E k \in PayIds :
         /\ NextPayment(k)
         /\ pays' = [pays EXCEPT ![k] = [st |-> "pending", row |-> rpc[p].row,
                                         charge |-> None]]
         /\ rpc' = [rpc EXCEPT ![p] = [@ EXCEPT !.st = "session", !.pay = k]]
    /\ UNCHANGED <<gatewayVars, prow, hook, stripeVars, faults>>

\* Mutant: Stripe's error is swallowed and the handler answers as if it had a URL.
PaySessionSwallowing(p) ==
    /\ rpc[p].st = "session"
    /\ \/ StripeFails /\ UNCHANGED stripe
       \/ /\ stripe' = [stripe EXCEPT ![rpc[p].pay] =
                           [st |-> "open", gid |-> rpc[p].gid, cancel |-> FALSE]]
          /\ UNCHANGED faults
    /\ rpc' = [rpc EXCEPT ![p].st = "answer"]
    /\ UNCHANGED <<gatewayVars, paymentsVars, lapsed>>

\* Open a checkout session carrying the gateway's row id as metadata, or
\* answer with the PayPal placeholder; a failure is nacked and reported.
PaySession(p) ==
    /\ rpc[p].st = "session"
    /\ \/ /\ rpc[p].prov = "STRIPE"
          /\ stripe' = [stripe EXCEPT ![rpc[p].pay] =
                          [st |-> "open", gid |-> rpc[p].gid, cancel |-> FALSE]]
          /\ rpc' = [rpc EXCEPT ![p].st = "answer"]
          /\ UNCHANGED faults
       \/ /\ rpc[p].prov = "PAYPAL"
          /\ rpc' = [rpc EXCEPT ![p].st = "answer"]
          /\ UNCHANGED <<stripe, faults>>
       \/ /\ rpc[p].prov = "STRIPE"
          /\ StripeFails
          /\ rpc' = [rpc EXCEPT ![p] = Answered(@, "acked", "error")]
          /\ UNCHANGED stripe
    /\ UNCHANGED <<gatewayVars, paymentsVars, lapsed>>

\* Acknowledge and return the URL: no await lies between the two.
PayAnswer(p) ==
    /\ rpc[p].st = "answer"
    /\ rpc' = [rpc EXCEPT ![p] = Answered(@, "acked", "url")]
    /\ UNCHANGED <<gatewayVars, paymentsVars, stripeVars, faults>>

-----------------------------------------------------------------------------
\* Mutant: the result of the call to Stripe is not looked at.
RenewStripeUnchecked(p) ==
    /\ rpc[p].st = "queued" /\ rpc[p].kind # "create"
    /\ \/ StripeFails /\ UNCHANGED stripe
       \/ /\ rpc[p].ext \in PayIds
          /\ stripe' = [stripe EXCEPT ![rpc[p].ext].cancel = (rpc[p].kind = "disable")]
          /\ UNCHANGED faults
    /\ rpc' = [rpc EXCEPT ![p].st = "db"]
    /\ UNCHANGED <<gatewayVars, paymentsVars, lapsed>>

\* disable_auto_renewal and enable_auto_renewal: Stripe first, then the table.
\* Neither handler acknowledges its message, which stays "held".
RenewStripe(p) ==
    /\ rpc[p].st = "queued" /\ rpc[p].kind # "create"
    /\ \/ /\ rpc[p].ext \in PayIds /\ stripe[rpc[p].ext].st = "paid"
          /\ stripe' = [stripe EXCEPT ![rpc[p].ext].cancel = (rpc[p].kind = "disable")]
          /\ rpc' = [rpc EXCEPT ![p].st = "db"]
          /\ UNCHANGED faults
       \/ /\ rpc[p].ext \in PayIds => stripe[rpc[p].ext].st # "paid"
          /\ rpc' = [rpc EXCEPT ![p] = Answered(@, "held", "no")]
          /\ UNCHANGED <<stripe, faults>>
       \/ /\ StripeFails
          /\ rpc' = [rpc EXCEPT ![p] = Answered(@, "held", "no")]
          /\ UNCHANGED stripe
    /\ UNCHANGED <<gatewayVars, paymentsVars, lapsed>>

\* subscriptionRepo.update: no row need match.
RenewRows(p, on) ==
    /\ prow' = [w \in Msgs |->
                  IF w \in RowsFor(rpc[p].gid) /\ prow[w].ext = rpc[p].ext
                  THEN [prow[w] EXCEPT !.auto = on]
                  ELSE prow[w]]
    /\ rpc' = [rpc EXCEPT ![p] = Answered(@, "held", "yes")]
    /\ UNCHANGED <<gatewayVars, pays, hook, stripeVars, faults>>

DisableDb(p) == rpc[p].st = "db" /\ rpc[p].kind = "disable" /\ RenewRows(p, FALSE)
EnableDb(p) == rpc[p].st = "db" /\ rpc[p].kind = "enable" /\ RenewRows(p, TRUE)
RenewDb(p) == DisableDb(p) \/ EnableDb(p)

-----------------------------------------------------------------------------
\* checkout.session.completed.  Every error is swallowed: the handler ends,
\* Stripe gets a 2xx and will not deliver again.
HookRead(k) ==
    /\ hook[k].pc = "due"
    /\ \/ /\ StripeFails
          /\ HookReturns(k)
       \/ /\ RowsFor(stripe[k].gid) = {}
          /\ HookReturns(k)
          /\ UNCHANGED faults
       \/ \E w \in RowsFor(stripe[k].gid) :
            /\ hook' = [hook EXCEPT ![k] = [@ EXCEPT !.pc = "save", !.row = w,
                                      !.snap = prow[w], !.loaded = PaymentsOf(w)]]
            /\ UNCHANGED faults
    /\ UNCHANGED <<gatewayVars, tableVars, rpc, stripeVars>>

HookSaveRow(k) ==
    /\ hook[k].pc = "save"
    /\ SaveRow(hook[k].row, [hook[k].snap EXCEPT !.status = "active", !.ext = k],
               hook[k].loaded)
    /\ hook' = [hook EXCEPT ![k].pc = IF hook[k].loaded = {} THEN "emit" ELSE "findpay"]
    /\ UNCHANGED <<gatewayVars, rpc, stripeVars, faults>>

\* Mutant: the filter on the subscription is lost.
PendingPayments(w) == {j \in PayIds : pays[j].st = "pending"}

PendingPaymentsOf(w) == {j \in PaymentsOf(w) : pays[j].st = "pending"}
LastPending(w, j) == j \in PendingPaymentsOf(w) /\ \A i \in PendingPaymentsOf(w) : i <= j

\* The last pending payment; with none, `payment.status = ...` throws and the
\* activation below it is never reached.
HookFindPay(k) ==
    /\ hook[k].pc = "findpay"
    /\ \/ /\ PendingPaymentsOf(hook[k].row) = {}
          /\ HookReturns(k)
       \/ \E j \in PayIds :
            /\ LastPending(hook[k].row, j)
            /\ hook' = [hook EXCEPT ![k] = [@ EXCEPT !.pc = "savepay", !.pay = j]]
    /\ UNCHANGED <<gatewayVars, tableVars, rpc, stripeVars, faults>>

HookSavePay(k) ==
    /\ hook[k].pc = "savepay"
    /\ pays' = [pays EXCEPT ![hook[k].pay] = [@ EXCEPT !.st = "succeeded", !.charge = k]]
    /\ hook' = [hook EXCEPT ![k].pc = "emit"]
    /\ UNCHANGED <<gatewayVars, prow, rpc, stripeVars, faults>>

\* Mutant: the payments row's id is announced for Stripe's subscription id.
HookEmitPaymentId(k) ==
    /\ hook[k].pc = "emit"
    /\ \E e \in Events :
         /\ lis[e].st = "none"
         /\ lis' = [lis EXCEPT ![e] = [st |-> "queued", gid |-> stripe[k].gid,
                                       ext |-> hook[k].pay, prev |-> None]]
    /\ HookReturns(k)
    /\ UNCHANGED <<subs, account, req, tableVars, rpc, stripeVars, faults>>

\* sendActivationEvent
HookEmit(k) ==
    /\ hook[k].pc = "emit"
    /\ \E e \in Events :
         /\ e = CHOOSE x \in Events : lis[x].st = "none"
         /\ lis[e].st = "none"
         /\ lis' = [lis EXCEPT ![e] = [st |-> "queued", gid |-> stripe[k].gid,
                                       ext |-> k, prev |-> None]]
    /\ HookReturns(k)
    /\ UNCHANGED <<subs, account, req, tableVars, rpc, stripeVars, faults>>

-----------------------------------------------------------------------------
Handling == {"saverow", "insert", "savepay", "session", "answer", "db"}

\* Mutant: messages are consumed with noAck, so a restart loses them.
PaymentsCrashNoAck ==
    /\ faults.pcrash > 0
    /\ faults' = [faults EXCEPT !.pcrash = @ - 1]
    /\ rpc' = [p \in Msgs |->
                 IF rpc[p].st \in Handling \cup {"held"} THEN [rpc[p] EXCEPT !.st = "acked"]
                 ELSE rpc[p]]
    /\ UNCHANGED <<gatewayVars, tableVars, hook, stripeVars>>

\* A restart of the payments service: every unacknowledged message goes back
\* to the queue, those already answered but never acknowledged included, and
\* Stripe repeats the deliveries it got no response to.
PaymentsCrash ==
    /\ faults.pcrash > 0
    /\ faults' = [faults EXCEPT !.pcrash = @ - 1]
    /\ rpc' = [p \in Msgs |->
                 IF rpc[p].st \in Handling \cup {"held"}
                 THEN [rpc[p] EXCEPT !.st = "queued", !.row = None, !.snap = NoRow,
                                     !.loaded = {}, !.pay = None]
                 ELSE rpc[p]]
    /\ hook' = [k \in PayIds |->
                  IF hook[k].pc \in {"idle", "done"} THEN hook[k]
                  ELSE [IdleHook EXCEPT !.pc = "due"]]
    /\ UNCHANGED <<gatewayVars, tableVars, stripeVars>>

RpcStep(p) ==
    \/ PayFind(p) \/ PaySaveRow(p) \/ PayInsertRow(p) \/ PaySavePayment(p)
    \/ PaySession(p) \/ PayAnswer(p) \/ RenewStripe(p) \/ RenewDb(p)
HookStep(k) ==
    HookRead(k) \/ HookSaveRow(k) \/ HookFindPay(k) \/ HookSavePay(k) \/ HookEmit(k)
=============================================================================
