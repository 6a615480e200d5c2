---------------------------- MODULE BillingProofs ----------------------------
(***************************************************************************)
(* Type correctness of Billing, its first inductive invariant and what     *)
(* follows from it, for every number of users, requests, payments and      *)
(* faults.                                                                 *)
(***************************************************************************)
EXTENDS Billing, TLAPS

USE DEF PayIds, Reqs, RenewalReqs, Msgs

(* Types *)

LEMMA NoneIsNoName == None \notin PayIds /\ None \notin CreateReqs /\ None \notin Reqs
  BY NamesAssumption

LEMMA InitType == Init => TypeOK
  <1> SUFFICES ASSUME Init PROVE TypeOK
    OBVIOUS
  <1> USE DEF Init, BillingInit
  <1>1. subs \in [CreateReqs -> Subscription]
    BY DEF Subscription, NoSub, MaybePay
  <1>2. account \in [Users -> {"PERSONAL", "BUSINESS"}]
    OBVIOUS
  <1>3. req \in [Reqs -> Request]
    BY DEF Request, NewRequest, MaybeSub
  <1>4. lis \in [Events -> Listener]
    BY DEF Listener, NoListener, MaybeSub, MaybePay
  <1>5. prow \in [Msgs -> Row]
    BY DEF Row, NoRow, MaybeSub, MaybePay
  <1>6. pays \in [PayIds -> Payment]
    BY DEF Payment, MaybePay
  <1>7. rpc \in [Msgs -> Message]
    BY DEF Message, NoMessage, Row, NoRow, MaybeSub, MaybePay
  <1>8. hook \in [PayIds -> Webhook]
    BY DEF Webhook, IdleHook, Row, NoRow, MaybeSub, MaybePay
  <1>9. stripe \in [PayIds -> Session]
    BY DEF Session, MaybeSub
  <1>10. lapsed \in SUBSET PayIds /\ faults \in FaultBudget
    BY BoundsAssumption DEF FaultBudget
  <1> QED
    BY <1>1, <1>2, <1>3, <1>4, <1>5, <1>6, <1>7, <1>8, <1>9, <1>10 DEF TypeOK
-----------------------------------------------------------------------------
(* Type correctness, one lemma per service *)

LEMMA PublishType ==
  ASSUME rpc \in [Msgs -> Message],
         NEW p \in Msgs, NEW kind \in {"create", "disable", "enable"},
         NEW gid \in MaybeSub, NEW ext \in MaybePay, NEW prov \in {"STRIPE", "PAYPAL"},
         Publish(p, kind, gid, ext, prov)
  PROVE  rpc' \in [Msgs -> Message]
  <1>1. NoMessage \in Message
    BY DEF NoMessage, NoRow, Message, Row, MaybeSub, MaybePay
  <1>2. [NoMessage EXCEPT !.st = "queued", !.kind = kind, !.gid = gid, !.ext = ext,
                          !.prov = prov] \in Message
    BY <1>1 DEF Message
  <1> QED
    BY <1>2 DEF Publish

LEMMA FinishType ==
  ASSUME req \in [Reqs -> Request], NEW r \in Reqs,
         NEW res \in {"url", "conflict", "error", "failed", "ok", "notFound", "refused"},
         Finish(r, res)
  PROVE  req' \in [Reqs -> Request]
  <1>1. [req[r] EXCEPT !.pc = "done", !.res = res] \in Request
    BY DEF Request
  <1> QED
    BY <1>1 DEF Finish

LEMMA GatewayRequestType ==
  ASSUME TypeOK, NEW r \in Reqs, Arrive(r) \/ GatewayStep(r)
  PROVE  TypeOK'
  <1> USE NoneIsNoName DEF gatewayVars, paymentsVars, stripeVars, tableVars, MaybeSub, MaybePay
  <1>0. /\ req \in [Reqs -> Request] /\ req[r] \in Request
        /\ rpc \in [Msgs -> Message]
        /\ subs \in [CreateReqs -> Subscription]
    BY DEF TypeOK
  <1>1. CASE r \in CreateReqs /\ CreateFindPending(r)
    <2>1. PICK prov \in Providers :
            \/ \E s \in CreateReqs :
                 req' = [req EXCEPT ![r] = [@ EXCEPT !.pc = "touch", !.sub = s, !.prov = prov]]
            \/ req' = [req EXCEPT ![r] = [@ EXCEPT !.pc = "insert", !.prov = prov]]
      BY <1>1 DEF CreateFindPending, PendingOf
    <2>2. prov \in {"STRIPE", "PAYPAL"}
      BY RequestsAssumption
    <2>3. /\ \A s \in CreateReqs :
               [req[r] EXCEPT !.pc = "touch", !.sub = s, !.prov = prov] \in Request
          /\ [req[r] EXCEPT !.pc = "insert", !.prov = prov] \in Request
      BY <1>0, <2>2 DEF Request
    <2>4. req' \in [Reqs -> Request]
      BY <1>0, <2>1, <2>3
    <2> QED
      BY <1>1, <2>4 DEF CreateFindPending, TypeOK
  <1>2. CASE r \in CreateReqs /\ CreateTouch(r)
    <2>1. req' \in [Reqs -> Request]
      BY <1>0, <1>2, FinishType DEF CreateTouch, Request
    <2>2. req[r].prov \in {"STRIPE", "PAYPAL"} /\ req[r].sub \in MaybeSub
      BY <1>0 DEF Request
    <2>3. rpc' \in [Msgs -> Message]
      BY <1>0, <1>2, <2>2, PublishType DEF CreateTouch
    <2> QED
      BY <1>2, <2>1, <2>3 DEF CreateTouch, TypeOK
  <1>3. CASE r \in CreateReqs /\ CreateInsert(r)
    <2>1. [req[r] EXCEPT !.pc = "wait", !.sub = r, !.fresh = TRUE] \in Request
      BY <1>0, <1>3 DEF Request
    <2>2. req' \in [Reqs -> Request]
      BY <1>0, <1>3, <2>1 DEF CreateInsert, InsertPending
    <2>3. req[r].prov \in {"STRIPE", "PAYPAL"}
      BY <1>0 DEF Request
    <2>4. rpc' \in [Msgs -> Message]
      BY <1>0, <1>3, <2>3, PublishType DEF CreateInsert, InsertPending
    <2>5. subs' \in [CreateReqs -> Subscription]
      BY <1>0, <1>3 DEF CreateInsert, InsertPending, Subscription
    <2> QED
      BY <1>3, <2>2, <2>4, <2>5 DEF CreateInsert, InsertPending, TypeOK
  <1>4. CASE r \in CreateReqs /\ CreateReply(r)
    <2>1. req' \in [Reqs -> Request]
      BY <1>0, <1>4, FinishType DEF CreateReply
    <2>2. subs' \in [CreateReqs -> Subscription]
      BY <1>0, <1>4 DEF CreateReply, CleanUp, Subscription
    <2> QED
      BY <1>4, <2>1, <2>2 DEF CreateReply, TypeOK
  <1>5. CASE r \in RenewalReqs /\ RenewalFind(r)
    <2>1. /\ [req[r] EXCEPT !.pc = "done", !.res = "notFound"] \in Request
          /\ \A s \in CreateReqs :
               /\ [req[r] EXCEPT !.pc = "done", !.res = "conflict", !.sub = s] \in Request
               /\ [req[r] EXCEPT !.pc = "wait", !.sub = s] \in Request
      BY <1>0 DEF Request
    <2>2. RenewalKind(r) \in {"disable", "enable"} /\ r \in Msgs
      BY DEF RenewalKind
    <2>3. CASE Finish(r, "notFound") /\ UNCHANGED rpc
      BY <1>0, <1>5, <2>1, <2>3 DEF RenewalFind, Finish, TypeOK
    <2>4. CASE \E s \in CreateReqs :
                 /\ req' = [req EXCEPT ![r] = [@ EXCEPT !.pc = "done", !.res = "conflict",
                                                       !.sub = s]]
                 /\ UNCHANGED rpc
      <3>1. req' \in [Reqs -> Request]
        BY <1>0, <2>1, <2>4
      <3> QED
        BY <1>5, <2>4, <3>1 DEF RenewalFind, TypeOK
    <2>5. ASSUME NEW s \in CreateReqs,
                 Publish(r, RenewalKind(r), s, subs[s].ext, "STRIPE"),
                 req' = [req EXCEPT ![r] = [@ EXCEPT !.pc = "wait", !.sub = s]]
          PROVE  TypeOK'
      <3>1. subs[s].ext \in MaybePay
        BY <1>0 DEF Subscription
      <3>2. rpc' \in [Msgs -> Message]
        BY <1>0, <2>2, <2>5, <3>1, PublishType
      <3>3. req' \in [Reqs -> Request]
        BY <1>0, <2>1, <2>5
      <3> QED
        BY <1>5, <3>2, <3>3 DEF RenewalFind, TypeOK
    <2> QED
      BY <1>5, <2>3, <2>4, <2>5 DEF RenewalFind, ActiveOf
  <1>6. CASE r \in RenewalReqs /\ RenewalReply(r)
    <2>1. req' \in [Reqs -> Request]
      BY <1>0, <1>6, FinishType DEF RenewalReply
    <2>2. Wanted(r) \in BOOLEAN
      BY DEF Wanted
    <2>3. subs' \in [CreateReqs -> Subscription]
      BY <1>0, <1>6, <2>2 DEF RenewalReply, Subscription
    <2> QED
      BY <1>6, <2>1, <2>3 DEF RenewalReply, TypeOK
  <1> QED
    BY <1>1, <1>2, <1>3, <1>4, <1>5, <1>6 DEF Arrive, GatewayStep, CreateStep

LEMMA ListenerType ==
  ASSUME TypeOK, NEW e \in Events, ListenerStep(e)
  PROVE  TypeOK'
  <1> USE NoneIsNoName DEF gatewayVars, paymentsVars, stripeVars, tableVars, MaybeSub, MaybePay
  <1>0. /\ lis \in [Events -> Listener] /\ lis[e] \in Listener
        /\ rpc \in [Msgs -> Message]
        /\ subs \in [CreateReqs -> Subscription]
        /\ account \in [Users -> {"PERSONAL", "BUSINESS"}]
    BY DEF TypeOK
  <1>1. CASE ActivateUpdate(e)
    <2>1. lis' \in [Events -> Listener]
      BY <1>0, <1>1 DEF ActivateUpdate, Listener
    <2>2. \A s \in CreateReqs, x \in MaybePay :
            [subs[s] EXCEPT !.status = "ACTIVE", !.ext = x] \in Subscription
      BY <1>0 DEF Subscription
    <2>3. lis[e].ext \in MaybePay
      BY <1>0 DEF Listener
    <2>4. subs' \in [CreateReqs -> Subscription]
      <3>1. \/ subs' = [subs EXCEPT ![lis[e].gid] = [@ EXCEPT !.status = "ACTIVE",
                                                           !.ext = lis[e].ext]]
            \/ subs' = subs
        BY <1>1 DEF ActivateUpdate
      <3>2. lis[e].gid \in CreateReqs =>
              [subs[lis[e].gid] EXCEPT !.status = "ACTIVE", !.ext = lis[e].ext] \in Subscription
        BY <2>2, <2>3
      <3> QED
        BY <1>0, <3>1, <3>2
    <2> QED
      BY <1>1, <2>1, <2>4 DEF ActivateUpdate, TypeOK
  <1>2. CASE ActivateFindPrev(e)
    <2>1. CASE lis' = [lis EXCEPT ![e].st = "upgrade"] /\ UNCHANGED rpc
      <3>1. lis' \in [Events -> Listener]
        BY <1>0, <2>1 DEF Listener
      <3> QED
        BY <1>2, <2>1, <3>1 DEF ActivateFindPrev, TypeOK
    <2>2. ASSUME NEW s \in CreateReqs,
                 lis' = [lis EXCEPT ![e] = [@ EXCEPT !.st = "wait", !.prev = s]],
                 Publish(e, "disable", s, subs[s].ext, "STRIPE")
          PROVE  TypeOK'
      <3>1. lis' \in [Events -> Listener]
        BY <1>0, <2>2 DEF Listener
      <3>2. subs[s].ext \in MaybePay
        BY <1>0 DEF Subscription
      <3>3. rpc' \in [Msgs -> Message]
        BY <1>0, <2>2, <3>2, PublishType
      <3> QED
        BY <1>2, <3>1, <3>3 DEF ActivateFindPrev, TypeOK
    <2> QED
      BY <1>2, <2>1, <2>2 DEF ActivateFindPrev, RenewingBesides, ActiveOf
  <1>3. CASE ActivateDisabled(e)
    <2>1. lis' \in [Events -> Listener]
      BY <1>0, <1>3 DEF ActivateDisabled, Listener
    <2>2. subs' \in [CreateReqs -> Subscription]
      BY <1>0, <1>3 DEF ActivateDisabled, Subscription
    <2> QED
      BY <1>3, <2>1, <2>2 DEF ActivateDisabled, TypeOK
  <1>4. CASE ActivateUpgrade(e)
    <2>1. lis' \in [Events -> Listener]
      BY <1>0, <1>4 DEF ActivateUpgrade, Listener
    <2>2. account' \in [Users -> {"PERSONAL", "BUSINESS"}]
      BY <1>0, <1>4 DEF ActivateUpgrade
    <2> QED
      BY <1>4, <2>1, <2>2 DEF ActivateUpgrade, TypeOK
  <1> QED
    BY <1>1, <1>2, <1>3, <1>4 DEF ListenerStep

LEMMA SaveRowType ==
  ASSUME prow \in [Msgs -> Row], pays \in [PayIds -> Payment],
         NEW w \in Msgs \cup {None}, NEW entity \in Row, NEW loaded, SaveRow(w, entity, loaded)
  PROVE  prow' \in [Msgs -> Row] /\ pays' \in [PayIds -> Payment]
  <1>1. prow' \in [Msgs -> Row]
    BY DEF SaveRow
  <1>2. \A k \in PayIds : [pays[k] EXCEPT !.row = w] \in Payment
                       /\ [pays[k] EXCEPT !.row = None] \in Payment
    BY DEF Payment
  <1> QED
    BY <1>1, <1>2 DEF SaveRow

LEMMA AnsweredType ==
  ASSUME NEW m \in Message, NEW st \in {"acked", "held"},
         NEW reply \in {"url", "null", "error", "yes", "no"}
  PROVE  Answered(m, st, reply) \in Message
  <1>1. NoRow \in Row /\ {} \in SUBSET PayIds
    BY DEF NoRow, Row, MaybeSub, MaybePay
  <1> DEFINE said == IF m.reply = "none" THEN reply ELSE m.reply
  <1>2. said \in {"none", "url", "null", "error", "yes", "no"}
    BY DEF Message
  <1>3. Answered(m, st, reply)
          = [m EXCEPT !.st = st, !.row = None, !.snap = NoRow, !.loaded = {}, !.reply = said]
    BY Zenon DEF Answered
  <1> HIDE DEF said
  <1>4. [m EXCEPT !.st = st, !.row = None, !.snap = NoRow, !.loaded = {}, !.reply = said]
          \in Message
    BY <1>1, <1>2 DEF Message
  <1> QED
    BY <1>3, <1>4, Zenon

LEMMA StripeFailsType ==
  ASSUME faults \in FaultBudget, StripeFails
  PROVE  faults' \in FaultBudget
  <1>1. faults.sfail \in 0..MaxStripeFail /\ faults.sfail - 1 \in 0..MaxStripeFail
    BY BoundsAssumption DEF FaultBudget, StripeFails
  <1> QED
    BY <1>1 DEF FaultBudget, StripeFails

LEMMA RpcType ==
  ASSUME TypeOK, NEW p \in Msgs, RpcStep(p)
  PROVE  TypeOK'
  <1> USE NoneIsNoName DEF gatewayVars, paymentsVars, stripeVars, tableVars
  <1>0. /\ rpc \in [Msgs -> Message] /\ rpc[p] \in Message
        /\ prow \in [Msgs -> Row]
        /\ pays \in [PayIds -> Payment]
        /\ stripe \in [PayIds -> Session]
        /\ faults \in FaultBudget
    BY DEF TypeOK
  <1>a. \A st \in {"acked", "held"}, reply \in {"url", "null", "error", "yes", "no"} :
          Answered(rpc[p], st, reply) \in Message
    BY <1>0, AnsweredType
  <1>b. \A st \in {"savepay", "insert", "answer", "db"} : [rpc[p] EXCEPT !.st = st] \in Message
    BY <1>0 DEF Message
  <1>1. CASE PayFind(p)
    <2>1. \A w \in Msgs : [rpc[p] EXCEPT !.st = "saverow", !.row = w, !.snap = prow[w],
                                       !.loaded = PaymentsOf(w)] \in Message
      <3>1. \A w \in Msgs : PaymentsOf(w) \in SUBSET PayIds /\ prow[w] \in Row
        BY <1>0 DEF PaymentsOf
      <3> QED
        BY <1>0, <3>1 DEF Message
    <2>2. rpc' \in [Msgs -> Message]
      BY <1>0, <1>1, <1>a, <1>b, <2>1 DEF PayFind, RowsFor
    <2> QED
      BY <1>1, <2>2 DEF PayFind, TypeOK
  <1>2. CASE PaySaveRow(p)
    <2>1. rpc[p].row \in Msgs \cup {None} /\ rpc[p].snap \in Row
      BY <1>0 DEF Message
    <2>2. prow' \in [Msgs -> Row] /\ pays' \in [PayIds -> Payment]
      BY <1>0, <1>2, <2>1, SaveRowType DEF PaySaveRow
    <2>3. rpc' \in [Msgs -> Message]
      BY <1>0, <1>2, <1>b DEF PaySaveRow
    <2> QED
      BY <1>2, <2>2, <2>3 DEF PaySaveRow, TypeOK
  <1>3. CASE PayInsertRow(p)
    <2>1. [status |-> "pending", gid |-> rpc[p].gid, ext |-> None, auto |-> TRUE] \in Row
      BY <1>0 DEF Message, Row, MaybePay
    <2>2. [rpc[p] EXCEPT !.st = "savepay", !.row = p] \in Message
      BY <1>0 DEF Message
    <2>3. prow' \in [Msgs -> Row] /\ rpc' \in [Msgs -> Message]
      BY <1>0, <1>3, <2>1, <2>2 DEF PayInsertRow
    <2> QED
      BY <1>3, <2>3 DEF PayInsertRow, TypeOK
  <1>4. CASE PaySavePayment(p)
    <2>1. \A k \in PayIds :
            /\ [rpc[p] EXCEPT !.st = "session", !.pay = k] \in Message
            /\ [st |-> "pending", row |-> rpc[p].row, charge |-> None] \in Payment
      BY <1>0 DEF Message, Payment, MaybePay
    <2>2. PICK k \in PayIds :
            /\ pays' = [pays EXCEPT ![k] = [st |-> "pending", row |-> rpc[p].row, charge |-> None]]
            /\ rpc' = [rpc EXCEPT ![p] = [rpc[p] EXCEPT !.st = "session", !.pay = k]]
      BY <1>4 DEF PaySavePayment
    <2>3. pays' \in [PayIds -> Payment]
      BY <1>0, <2>1, <2>2
    <2>4. rpc' \in [Msgs -> Message]
      BY <1>0, <2>1, <2>2
    <2> QED
      BY <1>4, <2>3, <2>4 DEF PaySavePayment, TypeOK
  <1>5. CASE PaySession(p)
    <2>1. [st |-> "open", gid |-> rpc[p].gid, cancel |-> FALSE] \in Session
      BY <1>0 DEF Message, Session
    <2>2. stripe' \in [PayIds -> Session]
      BY <1>0, <1>5, <2>1 DEF PaySession
    <2>3. rpc' \in [Msgs -> Message] /\ faults' \in FaultBudget
      BY <1>0, <1>5, <1>a, <1>b, StripeFailsType DEF PaySession
    <2> QED
      BY <1>5, <2>2, <2>3 DEF PaySession, TypeOK
  <1>6. CASE PayAnswer(p)
    <2>1. rpc' \in [Msgs -> Message]
      BY <1>0, <1>6, <1>a DEF PayAnswer
    <2> QED
      BY <1>6, <2>1 DEF PayAnswer, TypeOK
  <1>7. CASE RenewStripe(p)
    <2>1. \A k \in PayIds : [stripe[k] EXCEPT !.cancel = (rpc[p].kind = "disable")] \in Session
      BY <1>0 DEF Session
    <2>2. stripe' \in [PayIds -> Session]
      BY <1>0, <1>7, <2>1 DEF RenewStripe
    <2>3. \/ rpc' = [rpc EXCEPT ![p] = Answered(rpc[p], "held", "no")]
          \/ rpc' = [rpc EXCEPT ![p] = [rpc[p] EXCEPT !.st = "db"]]
      BY <1>7 DEF RenewStripe
    <2>4. rpc' \in [Msgs -> Message]
      BY <1>0, <1>a, <1>b, <2>3
    <2>5. faults' \in FaultBudget
      BY <1>0, <1>7, StripeFailsType DEF RenewStripe
    <2> QED
      BY <1>7, <2>2, <2>4, <2>5 DEF RenewStripe, TypeOK
  <1>8. CASE RenewDb(p)
    <2>0. PICK on \in BOOLEAN : RenewRows(p, on)
      BY <1>8 DEF RenewDb, DisableDb, EnableDb
    <2>1. ASSUME NEW row \in Row
          PROVE  [row EXCEPT !.auto = on] \in Row
      BY DEF Row
    <2>2. prow' \in [Msgs -> Row]
      <3>1. \A w \in Msgs : \/ prow'[w] = prow[w]
                           \/ prow'[w] = [prow[w] EXCEPT !.auto = on]
        BY <2>0 DEF RenewRows
      <3>2. ASSUME NEW w \in Msgs
            PROVE  prow'[w] \in Row
        <4>1. prow[w] \in Row
          BY DEF TypeOK
        <4>2. [prow[w] EXCEPT !.auto = on] \in Row
          BY <2>1, <4>1
        <4> QED
          BY <3>1, <4>1, <4>2
      <3>3. prow' = [w \in Msgs |-> prow'[w]]
        BY <2>0 DEF RenewRows
      <3> QED
        BY <3>2, <3>3
    <2>b. rpc' = [rpc EXCEPT ![p] = Answered(rpc[p], "held", "yes")]
      BY <2>0 DEF RenewRows
    <2>3. rpc' \in [Msgs -> Message]
      BY <1>0, <1>a, <2>b
    <2> QED
      BY <2>0, <2>2, <2>3 DEF RenewRows, TypeOK
  <1> QED
    BY <1>1, <1>2, <1>3, <1>4, <1>5, <1>6, <1>7, <1>8 DEF RpcStep

LEMMA HookType ==
  ASSUME TypeOK, NEW k \in PayIds, HookStep(k)
  PROVE  TypeOK'
  <1> USE NoneIsNoName DEF gatewayVars, paymentsVars, stripeVars, tableVars
  <1>0. /\ hook \in [PayIds -> Webhook] /\ hook[k] \in Webhook
        /\ prow \in [Msgs -> Row]
        /\ pays \in [PayIds -> Payment]
        /\ stripe \in [PayIds -> Session]
        /\ lis \in [Events -> Listener]
        /\ faults \in FaultBudget
    BY DEF TypeOK
  <1>a. \A pc \in {"save", "findpay", "savepay", "emit"} :
          [hook[k] EXCEPT !.pc = pc] \in Webhook
    BY <1>0 DEF Webhook
  <1>b. [IdleHook EXCEPT !.pc = "done"] \in Webhook
    BY DEF IdleHook, NoRow, Webhook, Row, MaybeSub, MaybePay
  <1>c. HookReturns(k) => hook' \in [PayIds -> Webhook]
    BY <1>0, <1>b DEF HookReturns
  <1>1. CASE HookRead(k)
    <2>1. \A w \in Msgs : [hook[k] EXCEPT !.pc = "save", !.row = w, !.snap = prow[w],
                                         !.loaded = PaymentsOf(w)] \in Webhook
      <3>1. \A w \in Msgs : PaymentsOf(w) \in SUBSET PayIds /\ prow[w] \in Row
        BY <1>0 DEF PaymentsOf
      <3> QED
        BY <1>0, <3>1 DEF Webhook
    <2>a. ASSUME NEW w \in Msgs,
                 hook' = [hook EXCEPT ![k] = [hook[k] EXCEPT !.pc = "save", !.row = w,
                                               !.snap = prow[w], !.loaded = PaymentsOf(w)]]
          PROVE  hook' \in [PayIds -> Webhook]
      BY <1>0, <2>1, <2>a
    <2>2. hook' \in [PayIds -> Webhook]
      BY <1>1, <1>c, <2>a DEF HookRead, RowsFor
    <2>3. faults' \in FaultBudget
      BY <1>0, <1>1, StripeFailsType DEF HookRead
    <2> QED
      BY <1>1, <2>2, <2>3 DEF HookRead, TypeOK
  <1>2. CASE HookSaveRow(k)
    <2>1. hook[k].row \in Msgs \cup {None} /\ hook[k].snap \in Row
      BY <1>0 DEF Webhook
    <2>2. [hook[k].snap EXCEPT !.status = "active", !.ext = k] \in Row
      BY <2>1 DEF Row, MaybePay
    <2>3. prow' \in [Msgs -> Row] /\ pays' \in [PayIds -> Payment]
      BY <1>0, <1>2, <2>1, <2>2, SaveRowType DEF HookSaveRow
    <2>4. hook' \in [PayIds -> Webhook]
      BY <1>0, <1>2, <1>a DEF HookSaveRow
    <2> QED
      BY <1>2, <2>3, <2>4 DEF HookSaveRow, TypeOK
  <1>3. CASE HookFindPay(k)
    <2>1. \A j \in PayIds : [hook[k] EXCEPT !.pc = "savepay", !.pay = j] \in Webhook
      BY <1>0 DEF Webhook, MaybePay
    <2>a. ASSUME NEW j \in PayIds,
                 hook' = [hook EXCEPT ![k] = [hook[k] EXCEPT !.pc = "savepay", !.pay = j]]
          PROVE  hook' \in [PayIds -> Webhook]
      BY <1>0, <2>1, <2>a
    <2>2. hook' \in [PayIds -> Webhook]
      BY <1>3, <1>c, <2>a DEF HookFindPay
    <2> QED
      BY <1>3, <2>2 DEF HookFindPay, TypeOK
  <1>4. CASE HookSavePay(k)
    <2>1. ASSUME NEW j \in PayIds
          PROVE  [pays[j] EXCEPT !.st = "succeeded", !.charge = k] \in Payment
      <3>1. pays[j] \in Payment /\ k \in MaybePay
        BY <1>0 DEF MaybePay
      <3> QED
        BY <3>1 DEF Payment
    <2>2. pays' \in [PayIds -> Payment]
      BY <1>0, <1>4, <2>1 DEF HookSavePay
    <2>3. hook' \in [PayIds -> Webhook]
      BY <1>0, <1>4, <1>a DEF HookSavePay
    <2> QED
      BY <1>4, <2>2, <2>3 DEF HookSavePay, TypeOK
  <1>5. CASE HookEmit(k)
    <2>1. [st |-> "queued", gid |-> stripe[k].gid, ext |-> k, prev |-> None] \in Listener
      BY <1>0 DEF Session, Listener, MaybeSub, MaybePay
    <2>2. lis' \in [Events -> Listener]
      BY <1>0, <1>5, <2>1 DEF HookEmit
    <2>3. hook' \in [PayIds -> Webhook]
      BY <1>5, <1>c DEF HookEmit
    <2> QED
      BY <1>5, <2>2, <2>3 DEF HookEmit, TypeOK
  <1> QED
    BY <1>1, <1>2, <1>3, <1>4, <1>5 DEF HookStep

LEMMA ExternalType ==
  ASSUME TypeOK, NEW k \in PayIds, UserPays(k) \/ Redeliver(k) \/ PeriodEnds(k)
  PROVE  TypeOK'
  <1> USE DEF gatewayVars, paymentsVars, stripeVars, tableVars
  <1>0. /\ hook \in [PayIds -> Webhook] /\ hook[k] \in Webhook
        /\ stripe \in [PayIds -> Session] /\ stripe[k] \in Session
        /\ lapsed \in SUBSET PayIds
        /\ faults \in FaultBudget
    BY DEF TypeOK
  <1>1. /\ [hook[k] EXCEPT !.pc = "due"] \in Webhook
        /\ \A st \in {"paid", "ended"} : [stripe[k] EXCEPT !.st = st] \in Session
    BY <1>0 DEF Webhook, Session
  <1>2. [IdleHook EXCEPT !.pc = "due"] \in Webhook
    BY NoneIsNoName DEF IdleHook, NoRow, Webhook, Row, MaybeSub, MaybePay
  <1>3. CASE UserPays(k)
    <2>1. hook' \in [PayIds -> Webhook] /\ stripe' \in [PayIds -> Session]
      BY <1>0, <1>1, <1>3 DEF UserPays
    <2> QED
      BY <1>3, <2>1 DEF UserPays, TypeOK
  <1>4. CASE Redeliver(k)
    <2>1. hook' \in [PayIds -> Webhook]
      BY <1>0, <1>2, <1>4 DEF Redeliver
    <2>2. faults.redeliver - 1 \in 0..MaxRedeliver
      BY <1>0, <1>4, BoundsAssumption DEF Redeliver, FaultBudget
    <2>3. faults' \in FaultBudget
      BY <1>0, <1>4, <2>2 DEF Redeliver, FaultBudget
    <2> QED
      BY <1>4, <2>1, <2>3 DEF Redeliver, TypeOK
  <1>5. CASE PeriodEnds(k)
    <2>1. stripe' \in [PayIds -> Session] /\ lapsed' \in SUBSET PayIds
      BY <1>0, <1>1, <1>5 DEF PeriodEnds
    <2>2. faults.lapse - 1 \in 0..MaxLapse
      BY <1>0, <1>5, BoundsAssumption DEF PeriodEnds, FaultBudget
    <2>3. faults' \in FaultBudget
      BY <1>0, <1>5, <2>2 DEF PeriodEnds, FaultBudget
    <2> QED
      BY <1>5, <2>1, <2>3 DEF PeriodEnds, TypeOK
  <1> QED
    BY <1>3, <1>4, <1>5

LEMMA CrashType ==
  ASSUME TypeOK, GatewayCrash \/ PaymentsCrash
  PROVE  TypeOK'
  <1> USE DEF gatewayVars, paymentsVars, stripeVars, tableVars
  <1>0. /\ req \in [Reqs -> Request]
        /\ lis \in [Events -> Listener]
        /\ rpc \in [Msgs -> Message]
        /\ hook \in [PayIds -> Webhook]
        /\ faults \in FaultBudget
    BY DEF TypeOK
  <1>1. CASE GatewayCrash
    <2>1. \A r \in Reqs : [req[r] EXCEPT !.pc = "done", !.res = "lost"] \in Request
      BY <1>0 DEF Request
    <2>2. \A e \in Events : [lis[e] EXCEPT !.st = "lost"] \in Listener
      BY <1>0 DEF Listener
    <2>3. req' \in [Reqs -> Request] /\ lis' \in [Events -> Listener]
      BY <1>0, <1>1, <2>1, <2>2 DEF GatewayCrash
    <2>4. faults.gcrash - 1 \in 0..MaxGatewayCrash
      <3>1. faults.gcrash \in 0..MaxGatewayCrash
        BY <1>0 DEF FaultBudget
      <3>2. faults.gcrash > 0
        BY <1>1 DEF GatewayCrash
      <3> QED
        BY <3>1, <3>2, BoundsAssumption
    <2>5. faults' \in FaultBudget
      BY <1>0, <1>1, <2>4 DEF GatewayCrash, FaultBudget
    <2> QED
      BY <1>1, <2>3, <2>5 DEF GatewayCrash, TypeOK
  <1>2. CASE PaymentsCrash
    <2>1. NoRow \in Row /\ {} \in SUBSET PayIds
      BY DEF NoRow, Row, MaybeSub, MaybePay
    <2>2. ASSUME NEW p \in Msgs
          PROVE  [rpc[p] EXCEPT !.st = "queued", !.row = None, !.snap = NoRow,
                                !.loaded = {}, !.pay = None] \in Message
      <3>1. /\ rpc[p] \in Message
            /\ None \in MaybePay /\ None \in Msgs \cup {None}
        BY <1>0 DEF MaybePay
      <3>2. [rpc[p] EXCEPT !.st = "queued", !.row = None, !.pay = None] \in Message
        BY <3>1 DEF Message
      <3> DEFINE m == [rpc[p] EXCEPT !.st = "queued", !.row = None, !.pay = None]
      <3>3. [m EXCEPT !.snap = NoRow, !.loaded = {}] \in Message
        BY <2>1, <3>2 DEF Message
      <3>4. [m EXCEPT !.snap = NoRow, !.loaded = {}]
              = [rpc[p] EXCEPT !.st = "queued", !.row = None, !.snap = NoRow,
                               !.loaded = {}, !.pay = None]
        BY <3>1 DEF Message
      <3> QED
        BY <3>3, <3>4
    <2>3. [IdleHook EXCEPT !.pc = "due"] \in Webhook
      BY <2>1 DEF IdleHook, Webhook, MaybePay
    <2>4. rpc' \in [Msgs -> Message] /\ hook' \in [PayIds -> Webhook]
      BY <1>0, <1>2, <2>2, <2>3 DEF PaymentsCrash
    <2>5. faults.pcrash - 1 \in 0..MaxPaymentsCrash
      <3>1. faults.pcrash \in 0..MaxPaymentsCrash
        BY <1>0 DEF FaultBudget
      <3>2. faults.pcrash > 0
        BY <1>2 DEF PaymentsCrash
      <3> QED
        BY <3>1, <3>2, BoundsAssumption
    <2>6. faults' \in FaultBudget
      BY <1>0, <1>2, <2>5 DEF PaymentsCrash, FaultBudget
    <2> QED
      BY <1>2, <2>4, <2>6 DEF PaymentsCrash, TypeOK
  <1> QED
    BY <1>1, <1>2

LEMMA StepType == TypeOK /\ [Next]_vars => TypeOK'
  <1> SUFFICES ASSUME TypeOK, [Next]_vars PROVE TypeOK'
    OBVIOUS
  <1>1. CASE Next
    BY <1>1, GatewayRequestType, ListenerType, RpcType, HookType, ExternalType, CrashType
       DEF Next
  <1>2. CASE UNCHANGED vars
    BY <1>2 DEF vars, TypeOK
  <1> QED
    BY <1>1, <1>2

\* Every reachable state of the three services has its declared type, for any
\* number of users, requests, payments and faults.
THEOREM TypeCorrect == Spec => []TypeOK
  <1> QED
    BY InitType, StepType, PTL DEF Spec
-----------------------------------------------------------------------------
(* The inductive invariant *)

LEMMA InitInv == Init => IInv
  <1> SUFFICES ASSUME Init PROVE IInv
    OBVIOUS
  <1>1. TypeOK
    BY InitType
  <1> USE DEF Init, BillingInit
  <1>2. RequestsInv
    BY DEF RequestsInv, NewRequest, NoSub
  <1>3. MessagesInv
    BY DEF MessagesInv, NoMessage
  <1>4. SessionsInv
    BY DEF SessionsInv, IdleHook
  <1>5. ListenersInv
    BY DEF ListenersInv, NoListener
  <1>6. ActiveIsPaid
    BY DEF ActiveIsPaid, NoSub
  <1>7. BusinessIsPaid
    BY DEF BusinessIsPaid
  <1> QED
    BY <1>1, <1>2, <1>3, <1>4, <1>5, <1>6, <1>7 DEF IInv
-----------------------------------------------------------------------------
(* What every step keeps: a row that was inserted never becomes unknown, an *)
(* activated one never PENDING again, and a payment is never undone.        *)

RowsStay ==
    \A s \in CreateReqs :
      /\ subs[s].status # "none" => subs'[s].status # "none"
      /\ subs[s].status \in {"ACTIVE", "deleted"} => subs'[s].status \in {"ACTIVE", "deleted"}

PaymentsStay ==
    \A k \in PayIds :
      /\ pays[k].st # "none" => pays'[k].st # "none"
      /\ stripe[k].st \in {"paid", "ended"} =>
           stripe'[k].st \in {"paid", "ended"} /\ stripe'[k].gid = stripe[k].gid

LEMMA PaidStays ==
  ASSUME PaymentsStay, NEW k, NEW s, Paid(k, s)
  PROVE  Paid(k, s)'
  BY DEF PaymentsStay, Paid

\* Everything said about rows, listeners and accounts survives a step that
\* changes none of them.
LEMMA GatewayIdle ==
  ASSUME IInv, PaymentsStay, UNCHANGED <<subs, account, req>>
  PROVE  RequestsInv' /\ ActiveIsPaid' /\ BusinessIsPaid'
  <1>1. RequestsInv'
    BY DEF IInv, RequestsInv, Exists
  <1>2. ActiveIsPaid'
    BY PaidStays DEF IInv, ActiveIsPaid
  <1>3. BusinessIsPaid'
    BY PaidStays DEF IInv, BusinessIsPaid
  <1> QED
    BY <1>1, <1>2, <1>3
-----------------------------------------------------------------------------
(* The payments service *)

LEMMA SaveRowKeeps ==
  ASSUME TypeOK, NEW w, NEW entity, NEW loaded, SaveRow(w, entity, loaded)
  PROVE  \A k \in PayIds : pays'[k].st = pays[k].st
  BY DEF TypeOK, Payment, SaveRow

LEMMA AnsweredKeeps ==
  ASSUME NEW m \in Message, NEW st, NEW reply
  PROVE  Answered(m, st, reply).gid = m.gid /\ Answered(m, st, reply).st = st
  BY DEF Answered, Message

\* Switching a Stripe subscription's renewal changes nothing else of it.
LEMMA CancelKeeps ==
  ASSUME stripe \in [PayIds -> Session], NEW i, NEW c,
         stripe' = [stripe EXCEPT ![i].cancel = c]
  PROVE  \A k \in PayIds : stripe'[k].st = stripe[k].st /\ stripe'[k].gid = stripe[k].gid
  <1> SUFFICES ASSUME NEW k \in PayIds
               PROVE  stripe'[k].st = stripe[k].st /\ stripe'[k].gid = stripe[k].gid
    OBVIOUS
  <1>1. stripe[k] \in Session
    OBVIOUS
  <1>2. stripe'[k] = stripe[k] \/ stripe'[k] = [stripe[k] EXCEPT !.cancel = c]
    OBVIOUS
  <1> QED
    BY <1>1, <1>2 DEF Session

LEMMA RpcInv ==
  ASSUME IInv, NEW p \in Msgs, RpcStep(p)
  PROVE  RequestsInv' /\ MessagesInv' /\ SessionsInv' /\ ListenersInv'
         /\ ActiveIsPaid' /\ BusinessIsPaid'
  <1> USE DEF gatewayVars, paymentsVars, stripeVars, tableVars
  <1>0. /\ rpc \in [Msgs -> Message] /\ rpc[p] \in Message
        /\ pays \in [PayIds -> Payment]
        /\ stripe \in [PayIds -> Session]
        /\ hook \in [PayIds -> Webhook]
        /\ RequestsInv /\ MessagesInv /\ SessionsInv /\ ListenersInv
    BY DEF IInv, TypeOK
  <1>1. UNCHANGED <<subs, account, req, lis, hook>>
    BY DEF RpcStep, PayFind, PaySaveRow, PayInsertRow, PaySavePayment, PaySession, PayAnswer,
           RenewStripe, RenewDb, DisableDb,
           EnableDb, RenewRows
  \* The message keeps its subject, and only PaySavePayment reaches "session".
  <1>2. /\ \A q \in Msgs \ {p} : rpc'[q] = rpc[q]
        /\ rpc'[p].gid = rpc[p].gid /\ rpc[p].st # "none"
        /\ rpc'[p].st = "session" => PaySavePayment(p)
    <2>0. \A st, reply : Answered(rpc[p], st, reply).gid = rpc[p].gid
                        /\ Answered(rpc[p], st, reply).st = st
      BY <1>0, AnsweredKeeps
    <2>1. CASE PayFind(p)
      <3>1. \/ \E st, reply : st # "session" /\ rpc' = [rpc EXCEPT ![p] = Answered(@, st, reply)]
            \/ \E w : rpc' = [rpc EXCEPT ![p] = [@ EXCEPT !.st = "saverow", !.row = w,
                                       !.snap = prow[w], !.loaded = PaymentsOf(w)]]
            \/ rpc' = [rpc EXCEPT ![p].st = "insert"]
        BY <2>1 DEF PayFind
      <3>2. rpc[p].st = "queued"
        BY <2>1 DEF PayFind
      <3>3. ASSUME NEW st, NEW reply, st # "session",
                   rpc' = [rpc EXCEPT ![p] = Answered(@, st, reply)]
            PROVE  rpc'[p].gid = rpc[p].gid /\ rpc'[p].st # "session"
                   /\ \A q \in Msgs \ {p} : rpc'[q] = rpc[q]
        BY <1>0, <2>0, <3>3
      <3>4. ASSUME NEW w, rpc' = [rpc EXCEPT ![p] = [@ EXCEPT !.st = "saverow", !.row = w,
                                       !.snap = prow[w], !.loaded = PaymentsOf(w)]]
            PROVE  rpc'[p].gid = rpc[p].gid /\ rpc'[p].st # "session"
                   /\ \A q \in Msgs \ {p} : rpc'[q] = rpc[q]
        BY <1>0, <3>4 DEF Message
      <3>5. CASE rpc' = [rpc EXCEPT ![p].st = "insert"]
        BY <1>0, <3>2, <3>5 DEF Message
      <3> QED
        BY <3>1, <3>2, <3>3, <3>4, <3>5
    <2>2. CASE PaySaveRow(p) \/ PayInsertRow(p)
      <3>1. CASE PaySaveRow(p)
        BY <1>0, <3>1 DEF PaySaveRow, Message
      <3>2. CASE PayInsertRow(p)
        BY <1>0, <3>2 DEF PayInsertRow, Message
      <3> QED
        BY <2>2, <3>1, <3>2
    <2>3. CASE PaySavePayment(p)
      BY <1>0, <2>3 DEF PaySavePayment, Message
    <2>4. CASE PaySession(p)
      <3>1. \/ rpc' = [rpc EXCEPT ![p].st = "answer"]
            \/ rpc' = [rpc EXCEPT ![p] = Answered(@, "acked", "error")]
        BY <2>4 DEF PaySession
      <3> QED
        BY <1>0, <2>0, <2>4, <3>1 DEF PaySession, Message
    <2>5. CASE PayAnswer(p)
      BY <1>0, <2>5 DEF PayAnswer, Answered, Message
    <2>6. CASE RenewStripe(p)
      <3>1. \/ rpc' = [rpc EXCEPT ![p].st = "db"]
            \/ rpc' = [rpc EXCEPT ![p] = Answered(@, "held", "no")]
        BY <2>6 DEF RenewStripe
      <3> QED
        BY <1>0, <2>0, <2>6, <3>1 DEF RenewStripe, Message
    <2>7. CASE RenewDb(p)
      <3>1. /\ rpc[p].st = "db"
            /\ rpc' = [rpc EXCEPT ![p] = Answered(rpc[p], "held", "yes")]
        BY <2>7 DEF RenewDb, DisableDb, EnableDb, RenewRows
      <3>2. /\ Answered(rpc[p], "held", "yes").gid = rpc[p].gid
            /\ Answered(rpc[p], "held", "yes").st = "held"
        BY <1>0 DEF Answered, Message
      <3> QED
        BY <1>0, <2>0, <3>1, <3>2
    <2> QED
      BY <2>1, <2>2, <2>3, <2>4, <2>5, <2>6, <2>7 DEF RpcStep
  <1>3. CASE PaySavePayment(p)
    <2>1. PICK k \in PayIds :
            /\ NextPayment(k)
            /\ pays' = [pays EXCEPT ![k] = [st |-> "pending", row |-> rpc[p].row,
                                            charge |-> None]]
            /\ rpc' = [rpc EXCEPT ![p] = [@ EXCEPT !.st = "session", !.pay = k]]
      BY <1>3 DEF PaySavePayment
    <2>2. UNCHANGED stripe
      BY <1>3 DEF PaySavePayment
    <2>3. pays[k].st = "none" /\ stripe[k].st = "none"
      BY <1>0, <2>1 DEF NextPayment, SessionsInv
    <2>4. /\ rpc'[p].st = "session" /\ rpc'[p].pay = k
          /\ pays'[k].st = "pending"
          /\ \A j \in PayIds : pays[j].st # "none" => pays'[j].st # "none"
      BY <1>0, <2>1 DEF Message, Payment
    <2>5. PaymentsStay
      BY <2>2, <2>4 DEF PaymentsStay
    <2>6. \A q \in Msgs \ {p} : rpc[q].st = "session" => rpc[q].pay # k
      BY <1>0, <2>3 DEF MessagesInv
    <2>7. MessagesInv'
      BY <1>0, <1>1, <1>2, <2>2, <2>3, <2>4, <2>6 DEF MessagesInv
    <2>8. SessionsInv'
      BY <1>0, <1>1, <2>2, <2>4 DEF SessionsInv
    <2> QED
      BY <1>0, <1>1, <2>5, <2>7, <2>8, GatewayIdle, PaidStays DEF ListenersInv
  <1>4. CASE PaySession(p) /\ stripe' # stripe
    <2> DEFINE k == rpc[p].pay
    <2>1. /\ rpc[p].st = "session"
          /\ stripe' = [stripe EXCEPT ![k] =
                          [st |-> "open", gid |-> rpc[p].gid, cancel |-> FALSE]]
          /\ UNCHANGED pays
      BY <1>4 DEF PaySession
    <2>2. /\ k \in PayIds /\ pays[k].st # "none" /\ stripe[k].st = "none"
          /\ hook[k].pc = "idle"
          /\ rpc[p].gid \in CreateReqs /\ subs[rpc[p].gid].status # "none"
      BY <1>0, <2>1 DEF MessagesInv, SessionsInv
    <2>3. /\ stripe'[k].st = "open" /\ stripe'[k].gid = rpc[p].gid
          /\ \A j \in PayIds \ {k} : stripe'[j] = stripe[j]
      BY <1>0, <2>1, <2>2
    <2>4. PaymentsStay
      BY <2>1, <2>2, <2>3 DEF PaymentsStay
    <2>5. rpc'[p].st # "session"
      BY <1>0, <1>4 DEF PaySession, Answered, Message
    <2>6. MessagesInv'
      BY <1>0, <1>1, <1>2, <2>1, <2>3, <2>5 DEF MessagesInv
    <2>7. SessionsInv'
      BY <1>0, <1>1, <2>1, <2>2, <2>3 DEF SessionsInv
    <2> QED
      BY <1>0, <1>1, <2>4, <2>6, <2>7, GatewayIdle, PaidStays DEF ListenersInv
  <1>5. CASE ~PaySavePayment(p) /\ ~(PaySession(p) /\ stripe' # stripe)
    <2>1. \A k \in PayIds : stripe'[k].st = stripe[k].st /\ stripe'[k].gid = stripe[k].gid
      <3>1. \/ UNCHANGED stripe
            \/ stripe' = [stripe EXCEPT ![rpc[p].ext].cancel = (rpc[p].kind = "disable")]
        BY <1>5 DEF RpcStep, PayFind, PaySaveRow, PayInsertRow, PaySession, PayAnswer,
                    RenewStripe, RenewDb, DisableDb,
           EnableDb, RenewRows
      <3> QED
        BY <1>0, <3>1, CancelKeeps
    <2>2. \A k \in PayIds : pays'[k].st = pays[k].st
      <3>1. CASE PaySaveRow(p)
        BY <3>1, SaveRowKeeps DEF PaySaveRow, IInv
      <3>2. CASE ~PaySaveRow(p)
        BY <1>5, <3>2 DEF RpcStep, PayFind, PayInsertRow, PaySession, PayAnswer, RenewStripe,
                          RenewDb, DisableDb,
           EnableDb, RenewRows
      <3> QED
        BY <3>1, <3>2
    <2>3. PaymentsStay
      BY <2>1, <2>2 DEF PaymentsStay
    <2>4. MessagesInv'
      BY <1>0, <1>1, <1>2, <1>5, <2>1, <2>2 DEF MessagesInv
    <2>5. SessionsInv'
      BY <1>0, <1>1, <2>1, <2>2 DEF SessionsInv
    <2> QED
      BY <1>0, <1>1, <2>3, <2>4, <2>5, GatewayIdle, PaidStays DEF ListenersInv
  <1> QED
    BY <1>3, <1>4, <1>5

LEMMA HookInv ==
  ASSUME IInv, NEW k \in PayIds, HookStep(k)
  PROVE  RequestsInv' /\ MessagesInv' /\ SessionsInv' /\ ListenersInv'
         /\ ActiveIsPaid' /\ BusinessIsPaid'
  <1> USE DEF gatewayVars, paymentsVars, stripeVars, tableVars
  <1>0. /\ pays \in [PayIds -> Payment]
        /\ hook \in [PayIds -> Webhook] /\ hook[k] \in Webhook
        /\ lis \in [Events -> Listener]
        /\ RequestsInv /\ MessagesInv /\ SessionsInv /\ ListenersInv
    BY DEF IInv, TypeOK
  <1>1. UNCHANGED <<subs, account, req, rpc, stripe>>
    BY DEF HookStep, HookRead, HookSaveRow, HookFindPay, HookSavePay, HookEmit
  <1>2. \A j \in PayIds : pays[j].st # "none" => pays'[j].st # "none"
    <2>1. CASE HookSaveRow(k)
      BY <1>0, <2>1, SaveRowKeeps DEF HookSaveRow, IInv
    <2>2. CASE HookSavePay(k)
      BY <1>0, <2>2 DEF HookSavePay, Payment
    <2>3. CASE UNCHANGED pays
      BY <2>3
    <2> QED
      BY <2>1, <2>2, <2>3 DEF HookStep, HookRead, HookFindPay, HookEmit
  <1>3. hook[k].pc # "idle" /\ \A j \in PayIds \ {k} : hook'[j] = hook[j]
    <2>1. hook[k].pc # "idle"
      BY DEF HookStep, HookRead, HookSaveRow, HookFindPay, HookSavePay, HookEmit
    <2>2. \E v : hook' = [hook EXCEPT ![k] = v]
      BY DEF HookStep, HookRead, HookSaveRow, HookFindPay, HookSavePay, HookEmit, HookReturns
    <2> QED
      BY <1>0, <2>1, <2>2
  <1>4. PaymentsStay
    BY <1>1, <1>2 DEF PaymentsStay
  <1>5. MessagesInv'
    BY <1>0, <1>1, <1>2 DEF MessagesInv
  <1>6. SessionsInv'
    BY <1>0, <1>1, <1>2, <1>3 DEF SessionsInv
  <1>7. ListenersInv'
    <2>1. CASE UNCHANGED lis
      BY <1>0, <1>1, <1>4, <2>1, PaidStays DEF ListenersInv
    <2>2. CASE HookEmit(k)
      <3>1. PICK e \in Events :
              lis' = [lis EXCEPT ![e] = [st |-> "queued", gid |-> stripe[k].gid,
                                         ext |-> k, prev |-> None]]
        BY <2>2 DEF HookEmit
      <3>2. stripe[k].gid \in CreateReqs /\ Paid(k, stripe[k].gid)
        BY <1>0, <1>3 DEF SessionsInv, Paid
      <3>3. /\ lis'[e].st = "queued" /\ lis'[e].gid = stripe[k].gid /\ lis'[e].ext = k
            /\ \A f \in Events \ {e} : lis'[f] = lis[f]
        BY <1>0, <3>1
      <3>4. \A i, s : Paid(i, s) => Paid(i, s)'
        BY <1>4, PaidStays
      <3>5. ASSUME NEW f \in Events, lis'[f].st # "none"
            PROVE  lis'[f].gid \in CreateReqs /\ Paid(lis'[f].ext, lis'[f].gid)
        <4>1. CASE f = e
          BY <3>2, <3>3, <4>1
        <4>2. CASE f # e
          BY <1>0, <3>3, <3>5, <4>2 DEF ListenersInv
        <4> QED
          BY <4>1, <4>2
      <3>6. ASSUME NEW f \in Events, lis'[f].st \in {"find", "wait", "upgrade"}
            PROVE  subs'[lis'[f].gid].status \in {"ACTIVE", "deleted"}
        <4>1. f # e /\ lis'[f] = lis[f]
          BY <3>3, <3>6
        <4> QED
          BY <1>0, <1>1, <3>6, <4>1 DEF ListenersInv
      <3> QED
        BY <3>4, <3>5, <3>6 DEF ListenersInv
    <2> QED
      BY <2>1, <2>2 DEF HookStep, HookRead, HookSaveRow, HookFindPay, HookSavePay
  <1> QED
    BY <1>1, <1>4, <1>5, <1>6, <1>7, GatewayIdle
-----------------------------------------------------------------------------
(* Stripe, clients and the clock *)

LEMMA ExternalInv ==
  ASSUME IInv, NEW k \in PayIds, UserPays(k) \/ Redeliver(k) \/ PeriodEnds(k)
  PROVE  RequestsInv' /\ MessagesInv' /\ SessionsInv' /\ ListenersInv'
         /\ ActiveIsPaid' /\ BusinessIsPaid'
  <1> USE DEF gatewayVars, paymentsVars, stripeVars, tableVars
  <1>0. /\ stripe \in [PayIds -> Session] /\ stripe[k] \in Session
        /\ hook \in [PayIds -> Webhook] /\ hook[k] \in Webhook
        /\ RequestsInv /\ MessagesInv /\ SessionsInv /\ ListenersInv
    BY DEF IInv, TypeOK
  <1>1. UNCHANGED <<subs, account, req, lis, rpc, pays>>
    BY DEF UserPays, Redeliver, PeriodEnds
  <1>2. /\ stripe'[k].gid = stripe[k].gid
        /\ stripe[k].st = "none" => stripe'[k].st = "none"
        /\ stripe[k].st \in {"paid", "ended"} => stripe'[k].st \in {"paid", "ended"}
        /\ stripe[k].st # "none"
        /\ hook'[k].pc # "idle" => stripe'[k].st \in {"paid", "ended"}
        /\ \A j \in PayIds \ {k} : stripe'[j] = stripe[j] /\ hook'[j] = hook[j]
    <2>1. CASE UserPays(k)
      BY <1>0, <2>1 DEF UserPays, Session, Webhook
    <2>2. CASE Redeliver(k)
      BY <1>0, <2>2 DEF Redeliver, SessionsInv
    <2>3. CASE PeriodEnds(k)
      BY <1>0, <2>3 DEF PeriodEnds, Session
    <2> QED
      BY <2>1, <2>2, <2>3
  <1>3. PaymentsStay
    BY <1>1, <1>2 DEF PaymentsStay
  <1>4. MessagesInv'
    BY <1>0, <1>1, <1>2 DEF MessagesInv
  <1>5. SessionsInv'
    BY <1>0, <1>1, <1>2 DEF SessionsInv
  <1>6. ListenersInv'
    BY <1>0, <1>1, <1>3, PaidStays DEF ListenersInv
  <1> QED
    BY <1>1, <1>3, <1>4, <1>5, <1>6, GatewayIdle

LEMMA CrashInv ==
  ASSUME IInv, GatewayCrash \/ PaymentsCrash
  PROVE  RequestsInv' /\ MessagesInv' /\ SessionsInv' /\ ListenersInv'
         /\ ActiveIsPaid' /\ BusinessIsPaid'
  <1> USE DEF gatewayVars, paymentsVars, stripeVars, tableVars
  <1>0. /\ req \in [Reqs -> Request]
        /\ lis \in [Events -> Listener]
        /\ rpc \in [Msgs -> Message]
        /\ hook \in [PayIds -> Webhook]
        /\ RequestsInv /\ MessagesInv /\ SessionsInv /\ ListenersInv
        /\ ActiveIsPaid /\ BusinessIsPaid
    BY DEF IInv, TypeOK
  <1>1. CASE GatewayCrash
    <2>1. UNCHANGED <<subs, account, rpc, pays, hook, stripe>>
      BY <1>1 DEF GatewayCrash
    <2>2. \A r \in Reqs : req'[r] = req[r] \/ req'[r].pc = "done"
      BY <1>0, <1>1 DEF GatewayCrash, Request
    <2>3. ASSUME NEW e \in Events
          PROVE  /\ lis'[e].gid = lis[e].gid /\ lis'[e].ext = lis[e].ext
                 /\ \/ lis'[e].st = lis[e].st
                    \/ lis'[e].st = "lost" /\ lis[e].st # "none"
      <3>1. CASE lis[e].st \in {"find", "wait", "upgrade"}
        <4>1. lis'[e] = [lis[e] EXCEPT !.st = "lost"]
          BY <1>1, <3>1 DEF GatewayCrash
        <4>2. lis[e] \in Listener
          BY <1>0
        <4> QED
          BY <3>1, <4>1, <4>2 DEF Listener
      <3>2. CASE lis[e].st \notin {"find", "wait", "upgrade"}
        BY <1>1, <3>2 DEF GatewayCrash
      <3> QED
        BY <3>1, <3>2
    <2>4. RequestsInv'
      BY <1>0, <2>1, <2>2 DEF RequestsInv, Exists
    <2>5. ListenersInv'
      BY <1>0, <2>1, <2>3 DEF ListenersInv, Paid
    <2>6. ActiveIsPaid' /\ BusinessIsPaid'
      BY <1>0, <2>1 DEF ActiveIsPaid, BusinessIsPaid, Paid
    <2>7. MessagesInv' /\ SessionsInv'
      BY <1>0, <2>1 DEF MessagesInv, SessionsInv
    <2> QED
      BY <2>4, <2>5, <2>6, <2>7
  <1>2. CASE PaymentsCrash
    <2>1. UNCHANGED <<subs, account, req, lis, pays, stripe>>
      BY <1>2 DEF PaymentsCrash
    <2>2. \A p \in Msgs :
            \/ rpc'[p] = rpc[p]
            \/ /\ rpc[p].st # "none" /\ rpc'[p].st = "queued"
               /\ rpc'[p].gid = rpc[p].gid
      <3> TAKE p \in Msgs
      <3>1. rpc[p].st \in Handling \cup {"held"} => rpc[p].st # "none"
        BY DEF Handling
      <3>2. CASE rpc[p].st \in Handling \cup {"held"}
        <4>1. rpc'[p] = [rpc[p] EXCEPT !.st = "queued", !.row = None, !.snap = NoRow,
                                       !.loaded = {}, !.pay = None]
          BY <1>2, <3>2 DEF PaymentsCrash
        <4> QED
          BY <1>0, <3>1, <3>2, <4>1 DEF Message
      <3>3. CASE rpc[p].st \notin Handling \cup {"held"}
        BY <1>2, <3>3 DEF PaymentsCrash
      <3> QED
        BY <3>2, <3>3
    <2>3. \A k \in PayIds : hook'[k].pc # "idle" => hook[k].pc # "idle"
      BY <1>0, <1>2 DEF PaymentsCrash
    <2>4. MessagesInv'
      BY <1>0, <2>1, <2>2 DEF MessagesInv
    <2>5. SessionsInv'
      BY <1>0, <2>1, <2>3 DEF SessionsInv
    <2>6. ListenersInv'
      BY <1>0, <2>1 DEF ListenersInv, Paid
    <2>7. PaymentsStay
      BY <2>1 DEF PaymentsStay
    <2> QED
      BY <2>1, <2>4, <2>5, <2>6, <2>7, GatewayIdle
  <1> QED
    BY <1>1, <1>2
-----------------------------------------------------------------------------
(* The gateway *)

\* A step that moves rows only as RowsStay says, and no account, request or
\* listener to a state that promises more, keeps what is said of the services.
LEMMA RowsMove ==
  ASSUME IInv, RowsStay, UNCHANGED <<pays, stripe, hook>>
  PROVE  /\ SessionsInv'
         /\ UNCHANGED rpc => MessagesInv'
         /\ UNCHANGED lis => ListenersInv'
         /\ UNCHANGED account => BusinessIsPaid'
         /\ \A k, s : Paid(k, s)' = Paid(k, s)
  <1>0. RequestsInv /\ MessagesInv /\ SessionsInv /\ ListenersInv /\ BusinessIsPaid
    BY DEF IInv
  <1>1. SessionsInv'
    BY <1>0 DEF RowsStay, SessionsInv
  <1>2. UNCHANGED rpc => MessagesInv'
    BY <1>0 DEF RowsStay, MessagesInv
  <1>3. UNCHANGED lis => ListenersInv'
    BY <1>0 DEF RowsStay, ListenersInv, Paid
  <1>4. UNCHANGED account => BusinessIsPaid'
    BY <1>0 DEF BusinessIsPaid, Paid
  <1>5. \A k, s : Paid(k, s)' = Paid(k, s)
    BY DEF Paid
  <1> QED
    BY <1>1, <1>2, <1>3, <1>4, <1>5

\* A message published about a known row keeps what is said of messages.
LEMMA PublishKeeps ==
  ASSUME IInv, RowsStay, UNCHANGED <<pays, stripe>>,
         NEW p \in Msgs, NEW kind, NEW gid \in CreateReqs, NEW ext, NEW prov,
         subs'[gid].status # "none", Publish(p, kind, gid, ext, prov)
  PROVE  MessagesInv'
  <1>0. rpc \in [Msgs -> Message] /\ MessagesInv
    BY DEF IInv, TypeOK
  <1>1. rpc'[p].st = "queued" /\ rpc'[p].gid = gid /\ \A q \in Msgs \ {p} : rpc'[q] = rpc[q]
    BY <1>0 DEF Publish, NoMessage
  <1> QED
    BY <1>0, <1>1 DEF MessagesInv, RowsStay

LEMMA ListenerInv ==
  ASSUME IInv, NEW e \in Events, ListenerStep(e)
  PROVE  RequestsInv' /\ MessagesInv' /\ SessionsInv' /\ ListenersInv'
         /\ ActiveIsPaid' /\ BusinessIsPaid'
  <1> USE DEF gatewayVars, paymentsVars, stripeVars, tableVars
  <1>0. /\ subs \in [CreateReqs -> Subscription]
        /\ account \in [Users -> {"PERSONAL", "BUSINESS"}]
        /\ lis \in [Events -> Listener] /\ lis[e] \in Listener
        /\ RequestsInv /\ MessagesInv /\ SessionsInv /\ ListenersInv
        /\ ActiveIsPaid /\ BusinessIsPaid
    BY DEF IInv, TypeOK
  <1>1. /\ UNCHANGED <<req, pays, stripe, hook>>
        /\ lis[e].st # "none"
        /\ lis[e].gid \in CreateReqs /\ Paid(lis[e].ext, lis[e].gid)
    BY <1>0 DEF ListenerStep, ActivateUpdate, ActivateFindPrev, ActivateDisabled, ActivateUpgrade,
                ListenersInv
  <1>2. CASE ActivateUpdate(e)
    <2>1. CASE Exists(lis[e].gid)
      <3> DEFINE s == lis[e].gid
      <3>1. /\ subs' = [subs EXCEPT ![s] = [@ EXCEPT !.status = "ACTIVE", !.ext = lis[e].ext]]
            /\ lis' = [lis EXCEPT ![e].st = "find"]
            /\ UNCHANGED <<account, rpc>>
        BY <1>2, <2>1 DEF ActivateUpdate
      <3>2. /\ subs'[s].status = "ACTIVE" /\ subs'[s].ext = lis[e].ext
            /\ \A t \in CreateReqs \ {s} : subs'[t] = subs[t]
        BY <1>0, <1>1, <3>1 DEF Subscription
      <3>3. /\ lis'[e].gid = s /\ lis'[e].ext = lis[e].ext
            /\ \A f \in Events \ {e} : lis'[f] = lis[f]
        BY <1>0, <3>1 DEF Listener
      <3>4. RowsStay
        BY <2>1, <3>2 DEF RowsStay, Exists
      <3>5. RequestsInv'
        BY <1>0, <1>1, <2>1, <3>2 DEF RequestsInv, Exists
      <3>6. ListenersInv'
        BY <1>0, <1>1, <3>2, <3>3 DEF ListenersInv, Paid
      <3>7. ActiveIsPaid'
        BY <1>0, <1>1, <3>2 DEF ActiveIsPaid, Paid
      <3> QED
        BY <1>1, <3>1, <3>4, <3>5, <3>6, <3>7, RowsMove
    <2>2. CASE ~Exists(lis[e].gid)
      <3>1. /\ lis' = [lis EXCEPT ![e].st = "dropped"]
            /\ UNCHANGED <<subs, account, rpc>>
        BY <1>2, <2>2 DEF ActivateUpdate
      <3>2. ListenersInv'
        BY <1>0, <1>1, <3>1 DEF ListenersInv, Listener, Paid
      <3>3. RowsStay /\ PaymentsStay
        BY <1>1, <3>1 DEF RowsStay, PaymentsStay
      <3> QED
        BY <1>1, <3>1, <3>2, <3>3, RowsMove, GatewayIdle
    <2> QED
      BY <2>1, <2>2
  <1>3. CASE ActivateFindPrev(e)
    <2>1. UNCHANGED <<subs, account>>
      BY <1>3 DEF ActivateFindPrev
    <2>2. RowsStay /\ PaymentsStay
      BY <1>1, <2>1 DEF RowsStay, PaymentsStay
    <2>3. MessagesInv'
      <3>1. CASE UNCHANGED rpc
        BY <1>1, <2>2, <3>1, RowsMove
      <3>2. ASSUME NEW s \in RenewingBesides(lis[e].gid),
                   Publish(e, "disable", s, subs[s].ext, "STRIPE")
            PROVE  MessagesInv'
        <4>1. s \in CreateReqs /\ subs'[s].status # "none"
          BY <2>1, <3>2 DEF RenewingBesides, ActiveOf
        <4> QED
          BY <1>1, <2>2, <3>2, <4>1, PublishKeeps
      <3> QED
        BY <1>3, <3>1, <3>2 DEF ActivateFindPrev
    <2>4. ListenersInv'
      <3>1. /\ lis'[e].gid = lis[e].gid /\ lis'[e].ext = lis[e].ext
            /\ \A f \in Events \ {e} : lis'[f] = lis[f]
        <4>1. CASE lis' = [lis EXCEPT ![e].st = "upgrade"]
          BY <1>0, <4>1 DEF Listener
        <4>2. ASSUME NEW s, lis' = [lis EXCEPT ![e] = [@ EXCEPT !.st = "wait", !.prev = s]]
              PROVE  /\ lis'[e].gid = lis[e].gid /\ lis'[e].ext = lis[e].ext
                     /\ \A f \in Events \ {e} : lis'[f] = lis[f]
          BY <1>0, <4>2 DEF Listener
        <4> QED
          BY <1>3, <4>1, <4>2 DEF ActivateFindPrev
      <3>2. lis[e].st = "find"
        BY <1>3 DEF ActivateFindPrev
      <3> QED
        BY <1>0, <1>1, <2>1, <3>1, <3>2 DEF ListenersInv, Paid
    <2> QED
      BY <1>1, <2>1, <2>2, <2>3, <2>4, RowsMove, GatewayIdle
  <1>4. CASE ActivateDisabled(e)
    <2>1. \A s \in CreateReqs : subs'[s].status = subs[s].status /\ subs'[s].ext = subs[s].ext
      <3>1. subs' = subs \/ subs' = [subs EXCEPT ![lis[e].prev].auto = FALSE]
        BY <1>4 DEF ActivateDisabled
      <3> QED
        BY <1>0, <3>1 DEF Subscription
    <2>2. UNCHANGED <<account, rpc>> /\ lis' = [lis EXCEPT ![e].st = "upgrade"]
          /\ lis[e].st = "wait"
      BY <1>4 DEF ActivateDisabled
    <2>3. RowsStay
      BY <2>1 DEF RowsStay
    <2>4. RequestsInv'
      BY <1>0, <1>1, <2>1 DEF RequestsInv, Exists
    <2>5. ListenersInv'
      BY <1>0, <1>1, <2>1, <2>2 DEF ListenersInv, Listener, Paid
    <2>6. ActiveIsPaid'
      BY <1>0, <1>1, <2>1 DEF ActiveIsPaid, Paid
    <2> QED
      BY <1>1, <2>2, <2>3, <2>4, <2>5, <2>6, RowsMove
  <1>5. CASE ActivateUpgrade(e)
    <2>1. /\ UNCHANGED <<subs, rpc>>
          /\ lis' = [lis EXCEPT ![e].st = "done"]
          /\ account' = [account EXCEPT ![UserOf[lis[e].gid]] = "BUSINESS"]
      BY <1>5 DEF ActivateUpgrade
    <2>2. RowsStay
      BY <2>1 DEF RowsStay
    <2>3. RequestsInv' /\ ActiveIsPaid'
      BY <1>0, <1>1, <2>1 DEF RequestsInv, ActiveIsPaid, Exists, Paid
    <2>4. ListenersInv'
      BY <1>0, <1>1, <2>1 DEF ListenersInv, Listener, Paid
    <2>5. BusinessIsPaid'
      <3>1. ASSUME NEW u \in Users, account'[u] = "BUSINESS"
            PROVE  \E s \in CreateReqs, k \in PayIds : UserOf[s] = u /\ Paid(k, s)
        <4>1. CASE u = UserOf[lis[e].gid]
          BY <1>1, <4>1 DEF Paid
        <4>2. CASE u # UserOf[lis[e].gid]
          BY <1>0, <2>1, <3>1, <4>2 DEF BusinessIsPaid
        <4> QED
          BY <4>1, <4>2
      <3> QED
        BY <1>1, <3>1 DEF BusinessIsPaid, Paid
    <2> QED
      BY <1>1, <2>1, <2>2, <2>3, <2>4, <2>5, RowsMove
  <1> QED
    BY <1>2, <1>3, <1>4, <1>5 DEF ListenerStep

LEMMA FinishKeeps ==
  ASSUME TypeOK, NEW r \in Reqs, NEW res, Finish(r, res)
  PROVE  req'[r].pc = "done" /\ \A q \in Reqs \ {r} : req'[q] = req[q]
  BY DEF TypeOK, Request, Finish

LEMMA GatewayRequestInv ==
  ASSUME IInv, NEW r \in Reqs, Arrive(r) \/ GatewayStep(r)
  PROVE  RequestsInv' /\ MessagesInv' /\ SessionsInv' /\ ListenersInv'
         /\ ActiveIsPaid' /\ BusinessIsPaid'
  <1> USE DEF gatewayVars, paymentsVars, stripeVars, tableVars
  <1>0. /\ subs \in [CreateReqs -> Subscription]
        /\ req \in [Reqs -> Request] /\ req[r] \in Request
        /\ RequestsInv /\ MessagesInv /\ SessionsInv /\ ListenersInv
        /\ ActiveIsPaid /\ BusinessIsPaid /\ TypeOK
        /\ r \in Msgs
    BY DEF IInv, TypeOK
  <1>1. UNCHANGED <<account, lis, pays, stripe, hook>>
    BY DEF Arrive, GatewayStep, CreateStep, CreateFindPending, CreateTouch, CreateInsert,
           InsertPending, CreateReply, RenewalFind, RenewalReply
  <1>2. CASE r \in CreateReqs /\ CreateFindPending(r)
    <2>1. UNCHANGED <<subs, rpc>> /\ req[r].pc = "start"
      BY <1>2 DEF CreateFindPending
    <2>2. /\ \/ /\ req'[r].pc = "touch" /\ req'[r].sub \in CreateReqs
                /\ subs[req'[r].sub].status = "PENDING"
             \/ req'[r].pc = "insert"
          /\ req'[r].fresh = req[r].fresh
          /\ \A q \in Reqs \ {r} : req'[q] = req[q]
      <3>1. PICK prov :
              \/ \E s \in PendingOf(UserOf[r]) :
                   req' = [req EXCEPT ![r] = [@ EXCEPT !.pc = "touch", !.sub = s, !.prov = prov]]
              \/ req' = [req EXCEPT ![r] = [@ EXCEPT !.pc = "insert", !.prov = prov]]
        BY <1>2 DEF CreateFindPending
      <3>2. CASE req' = [req EXCEPT ![r] = [@ EXCEPT !.pc = "insert", !.prov = prov]]
        BY <1>0, <3>2 DEF Request
      <3>3. ASSUME NEW s \in PendingOf(UserOf[r]),
                   req' = [req EXCEPT ![r] = [@ EXCEPT !.pc = "touch", !.sub = s, !.prov = prov]]
            PROVE  /\ req'[r].pc = "touch" /\ req'[r].sub = s /\ req'[r].fresh = req[r].fresh
                   /\ s \in CreateReqs /\ subs[s].status = "PENDING"
                   /\ \A q \in Reqs \ {r} : req'[q] = req[q]
        BY <1>0, <3>3 DEF Request, PendingOf
      <3> QED
        BY <3>1, <3>2, <3>3
    <2>3. RequestsInv'
      BY <1>0, <2>1, <2>2 DEF RequestsInv, Exists
    <2>4. RowsStay /\ ActiveIsPaid'
      BY <1>0, <1>1, <2>1 DEF RowsStay, ActiveIsPaid, Paid
    <2> QED
      BY <1>1, <2>1, <2>3, <2>4, RowsMove
  <1>3. CASE r \in CreateReqs /\ CreateTouch(r)
    <2>1. UNCHANGED subs /\ req[r].pc = "touch"
      BY <1>3 DEF CreateTouch
    <2>2. RowsStay /\ ActiveIsPaid'
      BY <1>0, <1>1, <2>1 DEF RowsStay, ActiveIsPaid, Paid
    <2>3. req[r].sub \in CreateReqs /\ subs[req[r].sub].status # "none" /\ ~req[r].fresh
      BY <1>0, <2>1 DEF RequestsInv
    <2>4. CASE Publish(r, "create", req[r].sub, None, req[r].prov)
               /\ req' = [req EXCEPT ![r].pc = "wait"]
      <3>1. MessagesInv'
        BY <1>0, <1>1, <2>1, <2>2, <2>3, <2>4, PublishKeeps
      <3>2. /\ req'[r].pc = "wait" /\ req'[r].sub = req[r].sub /\ req'[r].fresh = req[r].fresh
            /\ \A q \in Reqs \ {r} : req'[q] = req[q]
        BY <1>0, <2>4 DEF Request
      <3>3. RequestsInv'
        BY <1>0, <2>1, <2>3, <3>2 DEF RequestsInv, Exists
      <3> QED
        BY <1>1, <2>2, <3>1, <3>3, RowsMove
    <2>5. CASE Finish(r, "failed") /\ UNCHANGED rpc
      <3>1. req'[r].pc = "done" /\ \A q \in Reqs \ {r} : req'[q] = req[q]
        BY <1>0, <2>5, FinishKeeps
      <3>2. RequestsInv'
        BY <1>0, <2>1, <3>1 DEF RequestsInv, Exists
      <3> QED
        BY <1>1, <2>2, <2>5, <3>2, RowsMove
    <2> QED
      BY <1>3, <2>4, <2>5 DEF CreateTouch
  <1>4. CASE r \in CreateReqs /\ CreateInsert(r)
    <2>1. /\ subs' = [subs EXCEPT ![r] = [status |-> "PENDING", auto |-> TRUE, ext |-> None]]
          /\ Publish(r, "create", r, None, req[r].prov)
          /\ req' = [req EXCEPT ![r] = [@ EXCEPT !.pc = "wait", !.sub = r, !.fresh = TRUE]]
          /\ req[r].pc = "insert"
      BY <1>4 DEF CreateInsert, InsertPending
    <2>2. subs[r].status = "none"
      BY <1>0, <1>4, <2>1 DEF RequestsInv
    <2>3. subs'[r].status = "PENDING" /\ \A s \in CreateReqs \ {r} : subs'[s] = subs[s]
      BY <1>0, <1>4, <2>1
    <2>4. RowsStay
      BY <2>2, <2>3 DEF RowsStay
    <2>5. /\ req'[r].pc = "wait" /\ req'[r].sub = r /\ req'[r].fresh
          /\ \A q \in Reqs \ {r} : req'[q] = req[q]
      BY <1>0, <2>1 DEF Request
    <2>6. RequestsInv'
      BY <1>0, <1>4, <2>2, <2>3, <2>5 DEF RequestsInv, Exists
    <2>7. ActiveIsPaid'
      BY <1>0, <1>1, <2>3 DEF ActiveIsPaid, Paid
    <2>8. MessagesInv'
      BY <1>0, <1>1, <1>4, <2>1, <2>3, <2>4, PublishKeeps
    <2> QED
      BY <1>1, <2>4, <2>6, <2>7, <2>8, RowsMove
  <1>5. CASE r \in CreateReqs /\ CreateReply(r)
    <2>1. /\ req[r].pc = "wait" /\ UNCHANGED rpc
          /\ subs' = subs \/ CleanUp(r)
          /\ req'[r].pc = "done" /\ \A q \in Reqs \ {r} : req'[q] = req[q]
      BY <1>0, <1>5, FinishKeeps DEF CreateReply
    <2>2. /\ req[r].sub \in CreateReqs /\ subs[req[r].sub].status # "none"
          /\ req[r].fresh => req[r].sub = r /\ Exists(r)
      BY <1>0, <2>1 DEF RequestsInv
    <2>3. \/ subs' = subs
          \/ /\ req[r].fresh /\ req[r].sub = r
             /\ subs' = [subs EXCEPT ![r].status = "deleted"]
      BY <2>1, <2>2 DEF CleanUp
    <2>4. /\ subs'[r].status = subs[r].status \/ (subs'[r].status = "deleted" /\ Exists(r))
          /\ subs'[r].ext = subs[r].ext
          /\ \A s \in CreateReqs \ {r} : subs'[s] = subs[s]
      BY <1>0, <1>5, <2>2, <2>3 DEF Subscription
    <2>5. RowsStay
      BY <2>2, <2>4 DEF RowsStay
    <2>6. RequestsInv'
      BY <1>0, <1>5, <2>1, <2>4 DEF RequestsInv, Exists
    <2>7. ActiveIsPaid'
      BY <1>0, <1>1, <2>4 DEF ActiveIsPaid, Paid
    <2> QED
      BY <1>1, <2>1, <2>5, <2>6, <2>7, RowsMove
  <1>6. CASE r \in RenewalReqs /\ RenewalFind(r)
    <2>1. UNCHANGED subs /\ req[r].pc = "start" /\ ~req[r].fresh
      BY <1>0, <1>6 DEF RenewalFind, RequestsInv
    <2>2. RowsStay /\ ActiveIsPaid'
      BY <1>0, <1>1, <2>1 DEF RowsStay, ActiveIsPaid, Paid
    <2>3. CASE Finish(r, "notFound") /\ UNCHANGED rpc
      <3>1. req'[r].pc = "done" /\ \A q \in Reqs \ {r} : req'[q] = req[q]
        BY <1>0, <2>3, FinishKeeps
      <3>2. RequestsInv'
        BY <1>0, <2>1, <3>1 DEF RequestsInv, Exists
      <3> QED
        BY <1>1, <2>2, <2>3, <3>2, RowsMove
    <2>4. ASSUME NEW s, UNCHANGED rpc,
                 req' = [req EXCEPT ![r] = [@ EXCEPT !.pc = "done", !.res = "conflict", !.sub = s]]
          PROVE  RequestsInv' /\ MessagesInv' /\ SessionsInv' /\ ListenersInv'
                 /\ ActiveIsPaid' /\ BusinessIsPaid'
      <3>1. /\ req'[r].pc = "done" /\ \A q \in Reqs \ {r} : req'[q] = req[q]
        BY <1>0, <2>4 DEF Request
      <3>2. RequestsInv'
        BY <1>0, <2>1, <3>1 DEF RequestsInv, Exists
      <3> QED
        BY <1>1, <2>2, <2>4, <3>2, RowsMove
    <2>5. ASSUME NEW s \in ActiveOf(UserOf[r]),
                 Publish(r, RenewalKind(r), s, subs[s].ext, "STRIPE"),
                 req' = [req EXCEPT ![r] = [@ EXCEPT !.pc = "wait", !.sub = s]]
          PROVE  RequestsInv' /\ MessagesInv' /\ SessionsInv' /\ ListenersInv'
                 /\ ActiveIsPaid' /\ BusinessIsPaid'
      <3>1. s \in CreateReqs /\ subs[s].status = "ACTIVE"
        BY DEF ActiveOf
      <3>2. MessagesInv'
        BY <1>0, <1>1, <2>1, <2>2, <2>5, <3>1, PublishKeeps
      <3>3. /\ req'[r].pc = "wait" /\ req'[r].sub = s /\ req'[r].fresh = req[r].fresh
            /\ \A q \in Reqs \ {r} : req'[q] = req[q]
        BY <1>0, <2>5 DEF Request
      <3>4. RequestsInv'
        BY <1>0, <2>1, <3>1, <3>3 DEF RequestsInv, Exists
      <3> QED
        BY <1>1, <2>2, <3>2, <3>4, RowsMove
    <2> QED
      BY <1>6, <2>3, <2>4, <2>5 DEF RenewalFind
  <1>7. CASE r \in RenewalReqs /\ RenewalReply(r)
    <2>1. /\ UNCHANGED rpc
          /\ subs' = subs \/ subs' = [subs EXCEPT ![req[r].sub].auto = Wanted(r)]
          /\ req'[r].pc = "done" /\ \A q \in Reqs \ {r} : req'[q] = req[q]
      BY <1>0, <1>7, FinishKeeps DEF RenewalReply
    <2>2. \A s \in CreateReqs : subs'[s].status = subs[s].status /\ subs'[s].ext = subs[s].ext
      BY <1>0, <2>1 DEF Subscription
    <2>3. RowsStay /\ ActiveIsPaid'
      BY <1>0, <1>1, <2>2 DEF RowsStay, ActiveIsPaid, Paid
    <2>4. RequestsInv'
      BY <1>0, <2>1, <2>2 DEF RequestsInv, Exists
    <2> QED
      BY <1>1, <2>1, <2>3, <2>4, RowsMove
  <1> QED
    BY <1>2, <1>3, <1>4, <1>5, <1>6, <1>7 DEF Arrive, GatewayStep, CreateStep
-----------------------------------------------------------------------------
LEMMA StepInv == IInv /\ [Next]_vars => IInv'
  <1> SUFFICES ASSUME IInv, [Next]_vars PROVE IInv'
    OBVIOUS
  <1>1. TypeOK'
    BY StepType DEF IInv
  <1>2. CASE Next
    BY <1>1, <1>2, GatewayRequestInv, ListenerInv, RpcInv, HookInv, ExternalInv, CrashInv
       DEF Next, IInv
  <1>3. CASE UNCHANGED vars
    <2>1. PaymentsStay
      BY <1>3 DEF vars, PaymentsStay
    <2>2. MessagesInv' /\ SessionsInv' /\ ListenersInv'
      BY <1>3 DEF vars, IInv, MessagesInv, SessionsInv, ListenersInv, Paid
    <2> QED
      BY <1>1, <1>3, <2>1, <2>2, GatewayIdle DEF vars, IInv
  <1> QED
    BY <1>2, <1>3

\* The inductive invariant: what every in-flight handler, message, session and
\* activation event may rely on, whatever interleaves with it.
THEOREM Invariant == Spec => []IInv
  <1> QED
    BY InitInv, StepInv, PTL DEF Spec

\* However requests, webhooks, redeliveries and restarts interleave, a gateway
\* row is ACTIVE only under a Stripe subscription paid for that very row.
THEOREM ActiveOnlyIfPaid == Spec => []ActiveIsPaid
  <1>1. IInv => ActiveIsPaid
    BY DEF IInv
  <1> QED
    BY <1>1, Invariant, PTL

\* An account is upgraded to BUSINESS only if its user paid a checkout.
THEOREM BusinessOnlyIfPaid == Spec => []BusinessIsPaid
  <1>1. IInv => BusinessIsPaid
    BY DEF IInv
  <1> QED
    BY <1>1, Invariant, PTL
-----------------------------------------------------------------------------
(* Billing implements SubscriptionContract: its initial states map to       *)
(* initial states of the contract, and every step of the services, their    *)
(* crashes included, to a step of the contract or to a stutter.             *)

phaseBar == [s \in CreateReqs |-> Phase(s)]
paidBar == {s \in CreateReqs : \E k \in PayIds : Paid(k, s)}
businessBar == {u \in Users : account[u] = "BUSINESS"}

LEMMA InitContract == Init => Promise!ContractInit
  <1> SUFFICES ASSUME Init PROVE Promise!ContractInit
    OBVIOUS
  <1> USE DEF Init, BillingInit
  <1>1. phaseBar = [s \in CreateReqs |-> "none"]
    BY DEF phaseBar, Phase, NoSub
  <1>2. paidBar = {}
    BY DEF paidBar, Paid
  <1>3. businessBar = {}
    BY DEF businessBar
  <1> QED
    BY <1>1, <1>2, <1>3 DEF Promise!ContractInit, phaseBar, paidBar, businessBar

\* The phase of a row is a function of its status.
LEMMA PhaseOf ==
  ASSUME TypeOK, NEW s \in CreateReqs
  PROVE  /\ phaseBar[s] = "none" <=> subs[s].status = "none"
         /\ phaseBar[s] = "open" <=> subs[s].status = "PENDING"
         /\ phaseBar[s] = "active" <=> subs[s].status = "ACTIVE"
         /\ phaseBar[s] = "withdrawn" <=> subs[s].status = "deleted"
         /\ phaseBar[s] \in {"none", "open", "active", "withdrawn"}
  <1>1. subs[s].status \in {"none", "PENDING", "ACTIVE", "deleted"}
    BY DEF TypeOK, Subscription
  <1> QED
    BY <1>1 DEF phaseBar, Phase

LEMMA SamePhases ==
  ASSUME \A s \in CreateReqs : subs'[s].status = subs[s].status
  PROVE  phaseBar' = phaseBar
  BY DEF phaseBar, Phase

LEMMA SamePaid ==
  ASSUME \A k \in PayIds, s \in CreateReqs : Paid(k, s)' = Paid(k, s)
  PROVE  paidBar' = paidBar
  BY DEF paidBar

LEMMA StripeIdle ==
  ASSUME UNCHANGED stripe
  PROVE  paidBar' = paidBar
  BY DEF paidBar, Paid

ContractStep ==
  \/ \E s \in CreateReqs :
       \/ /\ phaseBar[s] = "none"
          /\ phaseBar' = [phaseBar EXCEPT ![s] = "open"]
          /\ UNCHANGED <<paidBar, businessBar>>
       \/ /\ phaseBar[s] # "none"
          /\ paidBar' = paidBar \cup {s}
          /\ UNCHANGED <<phaseBar, businessBar>>
       \/ /\ phaseBar[s] = "open" /\ s \in paidBar
          /\ phaseBar' = [phaseBar EXCEPT ![s] = "active"]
          /\ UNCHANGED <<paidBar, businessBar>>
       \/ /\ phaseBar[s] \in {"open", "active"}
          /\ phaseBar' = [phaseBar EXCEPT ![s] = "withdrawn"]
          /\ UNCHANGED <<paidBar, businessBar>>
  \/ \E u \in Users :
       /\ \E s \in CreateReqs :
            UserOf[s] = u /\ s \in paidBar /\ phaseBar[s] \in {"active", "withdrawn"}
       /\ businessBar' = businessBar \cup {u}
       /\ UNCHANGED <<phaseBar, paidBar>>
  \/ UNCHANGED <<phaseBar, paidBar, businessBar>>

LEMMA StepIsContract ==
  ContractStep => [Promise!ContractNext]_(Promise!contractVars)
  BY DEF ContractStep, phaseBar, paidBar, businessBar, Promise!ContractNext, Promise!contractVars,
         Promise!Open, Promise!Pay, Promise!Activate, Promise!Withdraw, Promise!Upgrade

LEMMA OneRowMoves ==
  ASSUME TypeOK, TypeOK', NEW s \in CreateReqs, NEW ph,
         Phase(s)' = ph, \A t \in CreateReqs \ {s} : subs'[t] = subs[t]
  PROVE  phaseBar' = [phaseBar EXCEPT ![s] = ph]
  BY DEF phaseBar, Phase

LEMMA GatewayContract ==
  ASSUME IInv, IInv', NEW r \in Reqs, Arrive(r) \/ GatewayStep(r)
  PROVE  ContractStep
  <1> USE DEF gatewayVars, paymentsVars, stripeVars, tableVars
  <1>0. /\ subs \in [CreateReqs -> Subscription]
        /\ RequestsInv /\ TypeOK /\ TypeOK'
    BY DEF IInv, TypeOK
  <1>1. UNCHANGED <<paidBar, businessBar>>
    <2>1. UNCHANGED <<account, stripe>>
      BY DEF Arrive, GatewayStep, CreateStep, CreateFindPending, CreateTouch, CreateInsert,
             InsertPending, CreateReply, RenewalFind, RenewalReply
    <2> QED
      BY <2>1, StripeIdle DEF businessBar
  <1>2. CASE \A s \in CreateReqs : subs'[s].status = subs[s].status
    BY <1>1, <1>2, SamePhases DEF ContractStep
  <1>3. CASE r \in CreateReqs /\ CreateInsert(r)
    <2>1. subs[r].status = "none"
      BY <1>0, <1>3 DEF CreateInsert, InsertPending, RequestsInv
    <2>2. subs'[r].status = "PENDING" /\ \A s \in CreateReqs \ {r} : subs'[s] = subs[s]
      BY <1>0, <1>3 DEF CreateInsert, InsertPending
    <2>3. Phase(r)' = "open"
      BY <2>2 DEF Phase
    <2>4. phaseBar' = [phaseBar EXCEPT ![r] = "open"]
      BY <1>0, <1>3, <2>2, <2>3, OneRowMoves
    <2> QED
      BY <1>0, <1>1, <1>3, <2>1, <2>4, PhaseOf DEF ContractStep
  <1>4. CASE r \in CreateReqs /\ CreateReply(r) /\ subs' # subs
    <2>1. req[r].pc = "wait" /\ req[r].fresh
          /\ subs' = [subs EXCEPT ![req[r].sub].status = "deleted"]
      BY <1>4 DEF CreateReply, CleanUp
    <2>2. req[r].sub = r /\ Exists(r)
      BY <1>0, <2>1 DEF RequestsInv
    <2>3. subs'[r].status = "deleted" /\ \A s \in CreateReqs \ {r} : subs'[s] = subs[s]
      BY <1>0, <1>4, <2>1, <2>2 DEF Subscription
    <2>4. Phase(r)' = "withdrawn"
      BY <2>3 DEF Phase
    <2>5. phaseBar' = [phaseBar EXCEPT ![r] = "withdrawn"]
      BY <1>0, <1>4, <2>3, <2>4, OneRowMoves
    <2> QED
      BY <1>0, <1>1, <1>4, <2>2, <2>5, PhaseOf DEF ContractStep, Exists
  <1>5. CASE ~(r \in CreateReqs /\ CreateInsert(r))
             /\ ~(r \in CreateReqs /\ CreateReply(r) /\ subs' # subs)
    <2>1. \/ subs' = subs
          \/ subs' = [subs EXCEPT ![req[r].sub].auto = Wanted(r)]
      BY <1>5 DEF Arrive, GatewayStep, CreateStep, CreateFindPending, CreateTouch, RenewalFind,
                  RenewalReply
    <2> QED
      BY <1>0, <1>2, <2>1 DEF Subscription
  <1> QED
    BY <1>3, <1>4, <1>5

LEMMA ListenerContract ==
  ASSUME IInv, IInv', NEW e \in Events, ListenerStep(e)
  PROVE  ContractStep
  <1> USE DEF gatewayVars, paymentsVars, stripeVars, tableVars
  <1>0. /\ subs \in [CreateReqs -> Subscription]
        /\ account \in [Users -> {"PERSONAL", "BUSINESS"}]
        /\ ListenersInv /\ TypeOK /\ TypeOK'
    BY DEF IInv, TypeOK
  <1>1. paidBar' = paidBar
    BY StripeIdle DEF ListenerStep, ActivateUpdate, ActivateFindPrev, ActivateDisabled,
                      ActivateUpgrade
  <1>2. lis[e].gid \in CreateReqs /\ lis[e].gid \in paidBar
    BY <1>0 DEF ListenerStep, ActivateUpdate, ActivateFindPrev, ActivateDisabled,
                ActivateUpgrade, ListenersInv, paidBar, Paid
  <1>3. CASE ActivateUpdate(e)
    <2>0. PICK s \in CreateReqs : s = lis[e].gid
      BY <1>2
    <2>1. UNCHANGED businessBar
      BY <1>3 DEF ActivateUpdate, businessBar
    <2>2. CASE ~Exists(s)
      BY <1>1, <1>3, <2>0, <2>1, <2>2, SamePhases DEF ActivateUpdate, ContractStep
    <2>3. CASE Exists(s)
      <3>1. subs'[s].status = "ACTIVE" /\ \A t \in CreateReqs \ {s} : subs'[t] = subs[t]
        <4>1. subs' = [subs EXCEPT ![s] = [@ EXCEPT !.status = "ACTIVE", !.ext = lis[e].ext]]
          BY <1>3, <2>0, <2>3 DEF ActivateUpdate
        <4> QED
          BY <1>0, <4>1 DEF Subscription
      <3>2. CASE subs[s].status = "ACTIVE"
        BY <1>1, <2>1, <3>1, <3>2, SamePhases DEF ContractStep
      <3>3. CASE subs[s].status = "PENDING"
        <4>1. Phase(s)' = "active"
          BY <3>1 DEF Phase
        <4>2. phaseBar' = [phaseBar EXCEPT ![s] = "active"]
          BY <1>0, <1>2, <3>1, <4>1, OneRowMoves
        <4> QED
          BY <1>0, <1>1, <1>2, <2>0, <2>1, <3>3, <4>2, PhaseOf DEF ContractStep
      <3> QED
        BY <2>3, <3>2, <3>3 DEF Exists
    <2> QED
      BY <2>2, <2>3
  <1>4. CASE ActivateFindPrev(e) \/ ActivateDisabled(e)
    <2>1. subs' = subs \/ subs' = [subs EXCEPT ![lis[e].prev].auto = FALSE]
      BY <1>4 DEF ActivateFindPrev, ActivateDisabled
    <2>2. \A s \in CreateReqs : subs'[s].status = subs[s].status
      BY <1>0, <2>1 DEF Subscription
    <2>3. UNCHANGED businessBar
      BY <1>4 DEF ActivateFindPrev, ActivateDisabled, businessBar
    <2> QED
      BY <1>1, <2>2, <2>3, SamePhases DEF ContractStep
  <1>5. CASE ActivateUpgrade(e)
    <2> DEFINE s == lis[e].gid
    <2>1. /\ UNCHANGED subs
          /\ account' = [account EXCEPT ![UserOf[s]] = "BUSINESS"]
      BY <1>5 DEF ActivateUpgrade
    <2>2. UserOf[s] \in Users
      BY <1>2, RequestsAssumption
    <2>3. businessBar' = businessBar \cup {UserOf[s]}
      BY <1>0, <2>1, <2>2 DEF businessBar
    <2>4. subs[s].status \in {"ACTIVE", "deleted"}
      BY <1>0, <1>5 DEF ActivateUpgrade, ListenersInv
    <2>5. phaseBar[s] \in {"active", "withdrawn"}
      BY <1>0, <1>2, <2>4, PhaseOf
    <2>6. phaseBar' = phaseBar
      BY <2>1, SamePhases
    <2> QED
      BY <1>1, <1>2, <2>2, <2>3, <2>5, <2>6 DEF ContractStep
  <1> QED
    BY <1>3, <1>4, <1>5 DEF ListenerStep

LEMMA RpcContract ==
  ASSUME IInv, NEW p \in Msgs, RpcStep(p)
  PROVE  ContractStep
  <1> USE DEF gatewayVars, paymentsVars, stripeVars, tableVars
  <1>0. /\ stripe \in [PayIds -> Session] /\ MessagesInv
    BY DEF IInv, TypeOK
  <1>1. UNCHANGED <<subs, account>>
    BY DEF RpcStep, PayFind, PaySaveRow, PayInsertRow, PaySavePayment, PaySession, PayAnswer,
           RenewStripe, RenewDb, DisableDb,
           EnableDb, RenewRows
  <1>2. \A k \in PayIds, s \in CreateReqs : Paid(k, s)' = Paid(k, s)
    <2>1. CASE PaySession(p) /\ stripe' # stripe
      <3>1. /\ rpc[p].st = "session"
            /\ stripe' = [stripe EXCEPT ![rpc[p].pay] =
                            [st |-> "open", gid |-> rpc[p].gid, cancel |-> FALSE]]
        BY <2>1 DEF PaySession
      <3>2. rpc[p].pay \in PayIds /\ stripe[rpc[p].pay].st = "none"
        BY <1>0, <3>1 DEF MessagesInv
      <3> QED
        BY <1>0, <3>1, <3>2 DEF Paid
    <2>2. CASE ~(PaySession(p) /\ stripe' # stripe)
      <3>1. \/ UNCHANGED stripe
            \/ stripe' = [stripe EXCEPT ![rpc[p].ext].cancel = (rpc[p].kind = "disable")]
        BY <2>2 DEF RpcStep, PayFind, PaySaveRow, PayInsertRow, PaySavePayment, PaySession,
                    PayAnswer, RenewStripe, RenewDb, DisableDb,
           EnableDb, RenewRows
      <3>2. \A k \in PayIds : stripe'[k].st = stripe[k].st /\ stripe'[k].gid = stripe[k].gid
        BY <1>0, <3>1, CancelKeeps
      <3> QED
        BY <3>2 DEF Paid
    <2> QED
      BY <2>1, <2>2
  <1> QED
    BY <1>1, <1>2, SamePhases, SamePaid DEF ContractStep, businessBar

LEMMA ExternalContract ==
  ASSUME IInv, NEW k \in PayIds, UserPays(k) \/ Redeliver(k) \/ PeriodEnds(k)
  PROVE  ContractStep
  <1> USE DEF gatewayVars, paymentsVars, stripeVars, tableVars
  <1>0. stripe \in [PayIds -> Session] /\ stripe[k] \in Session /\ SessionsInv /\ TypeOK
    BY DEF IInv, TypeOK
  <1>1. phaseBar' = phaseBar /\ businessBar' = businessBar
    BY SamePhases DEF UserPays, Redeliver, PeriodEnds, businessBar
  <1>2. CASE UserPays(k)
    <2> DEFINE s == stripe[k].gid
    <2>1. stripe' = [stripe EXCEPT ![k].st = "paid"] /\ stripe[k].st = "open"
      BY <1>2 DEF UserPays
    <2>2. stripe'[k].st = "paid" /\ stripe'[k].gid = s
          /\ \A j \in PayIds \ {k} : stripe'[j] = stripe[j]
      BY <1>0, <2>1 DEF Session
    <2>3. s \in CreateReqs /\ subs[s].status # "none"
      BY <1>0, <2>1 DEF SessionsInv
    <2>4. paidBar' = paidBar \cup {s}
      BY <2>1, <2>2, <2>3 DEF paidBar, Paid
    <2>5. phaseBar[s] # "none"
      BY <1>0, <2>3, PhaseOf
    <2> QED
      BY <1>1, <2>3, <2>4, <2>5 DEF ContractStep
  <1>3. CASE Redeliver(k)
    <2>1. UNCHANGED stripe
      BY <1>3 DEF Redeliver
    <2> QED
      BY <1>1, <2>1, StripeIdle DEF ContractStep
  <1>4. CASE PeriodEnds(k)
    <2>1. /\ stripe'[k].st \in {"paid", "ended"} /\ stripe[k].st = "paid"
          /\ stripe'[k].gid = stripe[k].gid
          /\ \A j \in PayIds \ {k} : stripe'[j] = stripe[j]
      BY <1>0, <1>4 DEF PeriodEnds, Session
    <2>2. \A j \in PayIds, s \in CreateReqs : Paid(j, s)' = Paid(j, s)
      BY <2>1 DEF Paid
    <2> QED
      BY <1>1, <2>2, SamePaid DEF ContractStep
  <1> QED
    BY <1>2, <1>3, <1>4

LEMMA IdleContract ==
  ASSUME UNCHANGED <<subs, account, stripe>>
  PROVE  ContractStep
  BY SamePhases, StripeIdle DEF ContractStep, businessBar

LEMMA NextContract ==
  IInv /\ IInv' /\ [Next]_vars => [Promise!ContractNext]_(Promise!contractVars)
  <1> SUFFICES ASSUME IInv, IInv', [Next]_vars PROVE ContractStep
    BY StepIsContract
  <1>1. CASE \E k \in PayIds : HookStep(k)
    <2>1. UNCHANGED <<subs, account, stripe>>
      BY <1>1 DEF HookStep, HookRead, HookSaveRow, HookFindPay, HookSavePay, HookEmit,
                  gatewayVars, stripeVars
    <2> QED
      BY <2>1, IdleContract
  <1>2. CASE GatewayCrash \/ PaymentsCrash \/ UNCHANGED vars
    <2>1. UNCHANGED <<subs, account, stripe>>
      BY <1>2 DEF GatewayCrash, PaymentsCrash, vars, gatewayVars, stripeVars
    <2> QED
      BY <2>1, IdleContract
  <1> QED
    BY <1>1, <1>2, GatewayContract, ListenerContract, RpcContract, ExternalContract DEF Next

\* Every behaviour of the gateway, the payments service and Stripe, with their
\* restarts, failures and redeliveries, is one the contract of a subscription
\* row allows.
THEOREM ImplementsContract == Spec => KeepsContract
  <1> QED
    BY InitContract, NextContract, Invariant, PTL DEF Spec, KeepsContract, Promise!Contract
=============================================================================
