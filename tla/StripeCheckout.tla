--------------------------- MODULE StripeCheckout ---------------------------
(***************************************************************************)
(* Stripe as the code uses it: a client pays a checkout session it was     *)
(* given the URL of, Stripe delivers checkout.session.completed at least   *)
(* once, and a billing period ends.                                        *)
(***************************************************************************)
EXTENDS BillingState

UserPays(k) ==
    /\ stripe[k].st = "open"
    /\ \E r \in CreateReqs : req[r].res = "url" /\ rpc[r].pay = k
    /\ stripe' = [stripe EXCEPT ![k].st = "paid"]
    /\ hook' = [hook EXCEPT ![k].pc = "due"]
    /\ UNCHANGED <<gatewayVars, tableVars, rpc, lapsed, faults>>

\* A duplicate delivery, within the first period.
Redeliver(k) ==
    /\ hook[k].pc = "done" /\ k \notin lapsed
    /\ faults.redeliver > 0
    /\ faults' = [faults EXCEPT !.redeliver = @ - 1]
    /\ hook' = [hook EXCEPT ![k] = [IdleHook EXCEPT !.pc = "due"]]
    /\ UNCHANGED <<gatewayVars, tableVars, rpc, stripeVars>>

\* The paid period ends: Stripe renews the subscription, or ends it when it
\* was to be cancelled.  invoice.paid is not handled, so the gateway's
\* validUntil stays in the past either way.
PeriodEnds(k) ==
    /\ stripe[k].st = "paid" /\ hook[k].pc = "done" /\ k \notin lapsed
    /\ faults.lapse > 0
    /\ faults' = [faults EXCEPT !.lapse = @ - 1]
    /\ lapsed' = lapsed \cup {k}
    /\ stripe' = [stripe EXCEPT ![k].st = IF stripe[k].cancel THEN "ended" ELSE "paid"]
    /\ UNCHANGED <<gatewayVars, paymentsVars, rpc>>
=============================================================================
