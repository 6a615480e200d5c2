------------------------ MODULE BillingRecordsProofs ------------------------
(***************************************************************************)
(* What the payments service's tables say and what clients are answered,   *)
(* for every number of users, requests, payments and faults: RecordsInv is *)
(* inductive, and the properties of rows, payments, answers and deletions  *)
(* follow from it.                                                         *)
(***************************************************************************)
EXTENDS BillingProofs

USE DEF PayIds, Reqs, RenewalReqs, Msgs

LEMMA InitRecords == Init => RecordsInv
  <1> SUFFICES ASSUME Init PROVE RecordsInv
    OBVIOUS
  <1>1. IInv
    BY InitInv
  <1> USE DEF Init, BillingInit
  <1>2. AnswersInv
    BY DEF AnswersInv, NewRequest, NoMessage
  <1>3. PayableInv
    BY DEF PayableInv, Payable, NoMessage
  <1>4. GivenInv
    BY DEF GivenInv
  <1>5. RowsInv
    BY DEF RowsInv, NoRow, NoMessage, IdleHook
  <1>6. AttachedInv
    <2>1. \A j \in PayIds, w \in Msgs : ~Attached(j, w)
      BY NamesAssumption DEF Attached, NoMessage, IdleHook
    <2> QED
      BY <2>1 DEF AttachedInv
  <1>7. ActiveRowIsPaid
    BY DEF ActiveRowIsPaid, NoRow
  <1> QED
    BY <1>1, <1>2, <1>3, <1>4, <1>5, <1>6, <1>7 DEF RecordsInv
-----------------------------------------------------------------------------
(* The gateway: its steps leave the tables, the sessions and the webhooks   *)
(* alone, and send messages under names that were not used                  *)

MessagesSent ==
    \A p \in Msgs :
        \/ rpc'[p] = rpc[p]
        \/ /\ rpc[p].st = "none" /\ rpc'[p].st = "queued"
           /\ rpc'[p].pay = None /\ rpc'[p].reply = "none"

LEMMA SentKeeps ==
  ASSUME RecordsInv, MessagesSent, UNCHANGED <<prow, pays, hook, stripe>>
  PROVE  PayableInv' /\ RowsInv' /\ AttachedInv' /\ ActiveRowIsPaid'
  <1>0. PayableInv /\ RowsInv /\ AttachedInv /\ ActiveRowIsPaid
    BY DEF RecordsInv
  <1>1. PayableInv'
    <2>1. \A p \in Msgs : rpc'[p].pay # None => rpc'[p] = rpc[p]
      BY DEF MessagesSent
    <2>2. \A p \in Msgs : rpc'[p].reply # "none" => rpc'[p] = rpc[p]
      BY DEF MessagesSent
    <2>3. \A p \in Msgs : rpc'[p].st # "queued" => rpc'[p] = rpc[p]
      BY DEF MessagesSent
    <2>4. ASSUME NEW p \in Msgs
          PROVE  /\ rpc'[p].pay # None => pays'[rpc'[p].pay].st # "none"
                 /\ rpc'[p].st \in {"session", "answer"} \/ rpc'[p].reply = "url" => rpc'[p].pay # None
                 /\ rpc'[p].st = "none" => rpc'[p].reply = "none"
                 /\ rpc'[p].reply = "url" => rpc'[p].st = "acked"
                 /\ rpc'[p].prov = "STRIPE" /\ (rpc'[p].st = "answer" \/ rpc'[p].reply = "url") =>
                      stripe'[rpc'[p].pay].st # "none" /\ stripe'[rpc'[p].pay].gid = rpc'[p].gid
                 /\ rpc'[p].prov = "PAYPAL" /\ rpc'[p].pay # None => stripe'[rpc'[p].pay].st = "none"
      BY <1>0, <2>1, <2>2, <2>3 DEF PayableInv, Payable
    <2>5. ASSUME NEW p \in Msgs, rpc'[p].reply = "null"
          PROVE  \E k \in PayIds : stripe'[k].st \in {"paid", "ended"} /\ stripe'[k].gid = rpc'[p].gid
      BY <1>0, <2>2, <2>5 DEF PayableInv, Payable, Paid
    <2>6. ASSUME NEW p \in Msgs, NEW q \in Msgs, p # q, rpc'[p].pay # None
          PROVE  rpc'[p].pay # rpc'[q].pay
      BY <1>0, <2>1, <2>6 DEF PayableInv, MessagesSent
    <2> QED
      BY <2>4, <2>5, <2>6 DEF PayableInv, Payable, Paid
  <1>2. RowsInv'
    <2>1. \A p \in Msgs : rpc[p].st # "none" => rpc'[p] = rpc[p]
      BY DEF MessagesSent
    <2>2. \A p \in Msgs : rpc'[p].st \in {"insert", "saverow", "savepay"} => rpc'[p] = rpc[p]
      BY DEF MessagesSent
    <2> QED
      BY <1>0, <2>1, <2>2 DEF RowsInv, Stored
  <1>3. AttachedInv'
    <2>1. \A p \in Msgs : rpc'[p].st = "saverow" => rpc'[p] = rpc[p]
      BY DEF MessagesSent
    <2>2. \A j \in PayIds, w \in Msgs : Attached(j, w)' => Attached(j, w)
      BY <2>1 DEF Attached
    <2> QED
      BY <1>0, <2>2 DEF AttachedInv, Stored, Paid
  <1>4. ActiveRowIsPaid'
    BY <1>0 DEF ActiveRowIsPaid, Paid
  <1> QED
    BY <1>1, <1>2, <1>3, <1>4

\* Who paid still was given the URL, while requests that are done stay done.
LEMMA GivenStays ==
  ASSUME RecordsInv,
         \A r \in Reqs : req[r].pc = "done" => req'[r] = req[r],
         \A k \in PayIds : stripe'[k].st \in {"paid", "ended"} =>
             stripe[k].st \in {"paid", "ended"} /\ stripe'[k].gid = stripe[k].gid
  PROVE  GivenInv'
  <1>1. \A r \in CreateReqs : req[r].res = "url" => req'[r] = req[r]
    BY DEF RecordsInv, AnswersInv
  <1> QED
    BY <1>1 DEF RecordsInv, GivenInv

\* What is said of answers, when one request and its message move.
LEMMA AnswersByRequest ==
  ASSUME RecordsInv, NEW r \in Reqs, UNCHANGED lis,
         \A q \in Reqs \ {r} : req'[q] = req[q],
         \A p \in Msgs \ {r} : rpc'[p] = rpc[p],
         req'[r].res # "none" => req'[r].pc = "done",
         req'[r].pc \in {"start", "touch", "insert"} => rpc'[r].st = "none",
         r \in CreateReqs /\ rpc'[r].st # "none" =>
             rpc'[r].gid = req'[r].sub /\ rpc'[r].prov = req'[r].prov,
         r \in CreateReqs /\ req'[r].res = "url" => rpc'[r].reply = "url",
         r \in CreateReqs /\ req'[r].res = "conflict" => rpc'[r].reply = "null"
  PROVE  AnswersInv'
  <1>1. AnswersInv
    BY DEF RecordsInv
  <1>2. \A e \in Events : e \in Msgs \ {r}
    BY NamesAssumption
  <1>3. \A q \in Reqs : /\ req'[q].res # "none" => req'[q].pc = "done"
                        /\ req'[q].pc \in {"start", "touch", "insert"} => rpc'[q].st = "none"
    BY <1>1 DEF AnswersInv
  <1>4. \A q \in CreateReqs :
          /\ rpc'[q].st # "none" => rpc'[q].gid = req'[q].sub /\ rpc'[q].prov = req'[q].prov
          /\ req'[q].res = "url" => rpc'[q].reply = "url"
          /\ req'[q].res = "conflict" => rpc'[q].reply = "null"
    BY <1>1 DEF AnswersInv
  <1>5. \A e \in Events : lis'[e].st \in {"none", "queued", "find"} => rpc'[e].st = "none"
    BY <1>1, <1>2 DEF AnswersInv
  <1> QED
    BY <1>3, <1>4, <1>5 DEF AnswersInv

LEMMA PublishSends ==
  ASSUME rpc \in [Msgs -> Message], NEW p \in Msgs, NEW kind, NEW gid, NEW ext, NEW prov,
         Publish(p, kind, gid, ext, prov)
  PROVE  /\ rpc'[p].st = "queued" /\ rpc'[p].gid = gid /\ rpc'[p].prov = prov
         /\ rpc'[p].pay = None /\ rpc'[p].reply = "none"
         /\ \A q \in Msgs \ {p} : rpc'[q] = rpc[q]
  BY DEF Publish, NoMessage

\* A request that ends with an answer and sends nothing.
LEMMA FinishAnswers ==
  ASSUME RecordsInv, NEW r \in Reqs, NEW res, Finish(r, res), UNCHANGED <<rpc, lis>>,
         res = "url" => rpc[r].reply = "url",
         r \in CreateReqs /\ res = "conflict" => rpc[r].reply = "null"
  PROVE  AnswersInv'
  <1>0. req \in [Reqs -> Request] /\ req[r] \in Request /\ AnswersInv
    BY DEF RecordsInv, IInv, TypeOK
  <1>1. /\ req'[r].pc = "done" /\ req'[r].res = res
        /\ req'[r].sub = req[r].sub /\ req'[r].prov = req[r].prov
        /\ \A q \in Reqs \ {r} : req'[q] = req[q]
    BY <1>0 DEF Finish, Request
  <1> QED
    BY <1>0, <1>1, AnswersByRequest DEF AnswersInv

LEMMA RequestRecords ==
  ASSUME RecordsInv, NEW r \in Reqs, Arrive(r) \/ GatewayStep(r)
  PROVE  /\ AnswersInv' /\ MessagesSent
         /\ UNCHANGED <<prow, pays, hook, stripe>>
         /\ \A q \in Reqs : req[q].pc = "done" => req'[q] = req[q]
  <1> USE DEF gatewayVars, paymentsVars, stripeVars, tableVars
  <1>0. /\ req \in [Reqs -> Request] /\ req[r] \in Request
        /\ rpc \in [Msgs -> Message] /\ r \in Msgs
        /\ AnswersInv /\ TypeOK
    BY DEF RecordsInv, IInv, TypeOK
  <1>1. UNCHANGED <<lis, prow, pays, stripe, hook>>
    BY DEF Arrive, GatewayStep, CreateStep, CreateFindPending, CreateTouch, CreateInsert,
           CreateReply, RenewalFind, RenewalReply
  <1>2. req[r].pc # "done"
    BY DEF Arrive, GatewayStep, CreateStep, CreateFindPending, CreateTouch, CreateInsert,
           CreateReply, RenewalFind, RenewalReply
  <1>3. req[r].res = "none"
    BY <1>0, <1>2 DEF AnswersInv
  <1>4. ASSUME req[r].pc \in {"start", "touch", "insert"},
               req'[r].pc = "wait", req'[r].prov = req[r].prov, req'[r].res = req[r].res,
               \A q \in Reqs \ {r} : req'[q] = req[q],
               rpc'[r].st = "queued", rpc'[r].gid = req'[r].sub,
               r \in CreateReqs => rpc'[r].prov = req[r].prov,
               rpc'[r].pay = None, rpc'[r].reply = "none",
               \A q \in Msgs \ {r} : rpc'[q] = rpc[q]
        PROVE  AnswersInv' /\ MessagesSent /\ \A q \in Reqs \ {r} : req'[q] = req[q]
    <2>1. AnswersInv'
      BY <1>1, <1>3, <1>4, AnswersByRequest
    <2>2. rpc[r].st = "none"
      BY <1>0, <1>4 DEF AnswersInv
    <2>3. MessagesSent
      BY <1>4, <2>2 DEF MessagesSent
    <2> QED
      BY <1>4, <2>1, <2>3
  <1>5. ASSUME NEW res, Finish(r, res), UNCHANGED rpc,
               res = "url" => rpc[r].reply = "url",
               r \in CreateReqs /\ res = "conflict" => rpc[r].reply = "null"
        PROVE  AnswersInv' /\ MessagesSent /\ \A q \in Reqs \ {r} : req'[q] = req[q]
    BY <1>0, <1>1, <1>5, FinishAnswers, FinishKeeps DEF MessagesSent
  <1>6. AnswersInv' /\ MessagesSent /\ \A q \in Reqs \ {r} : req'[q] = req[q]
    <2>1. CASE r \in CreateReqs /\ CreateFindPending(r)
      <3>1. UNCHANGED rpc /\ req[r].pc = "start"
        BY <2>1 DEF CreateFindPending
      <3>2. PICK prov :
              \/ \E s : req' = [req EXCEPT ![r] = [@ EXCEPT !.pc = "touch", !.sub = s, !.prov = prov]]
              \/ req' = [req EXCEPT ![r] = [@ EXCEPT !.pc = "insert", !.prov = prov]]
        BY <2>1 DEF CreateFindPending
      <3>3. /\ req'[r].pc \in {"touch", "insert"} /\ req'[r].res = req[r].res
            /\ \A q \in Reqs \ {r} : req'[q] = req[q]
        <4>1. CASE \E s : req' = [req EXCEPT ![r] = [@ EXCEPT !.pc = "touch", !.sub = s, !.prov = prov]]
          <5>1. PICK s : req' = [req EXCEPT ![r] = [@ EXCEPT !.pc = "touch", !.sub = s, !.prov = prov]]
            BY <4>1
          <5> QED
            BY <1>0, <5>1 DEF Request
        <4>2. CASE req' = [req EXCEPT ![r] = [@ EXCEPT !.pc = "insert", !.prov = prov]]
          BY <1>0, <4>2 DEF Request
        <4> QED
          BY <3>2, <4>1, <4>2
      <3>4. rpc'[r].st = "none"
        BY <1>0, <3>1 DEF AnswersInv
      <3>5. AnswersInv'
        BY <1>1, <1>3, <3>1, <3>3, <3>4, AnswersByRequest
      <3> QED
        BY <3>1, <3>3, <3>5 DEF MessagesSent
    <2>2. CASE r \in CreateReqs /\ CreateTouch(r)
      <3>1. CASE Finish(r, "failed") /\ UNCHANGED rpc
        BY <1>5, <3>1
      <3>2. CASE Publish(r, "create", req[r].sub, None, req[r].prov)
                 /\ req' = [req EXCEPT ![r].pc = "wait"]
        <4>1. /\ req'[r].pc = "wait" /\ req'[r].sub = req[r].sub /\ req'[r].prov = req[r].prov
              /\ req'[r].res = req[r].res /\ \A q \in Reqs \ {r} : req'[q] = req[q]
          BY <1>0, <3>2 DEF Request
        <4>2. req[r].pc = "touch"
          BY <2>2 DEF CreateTouch
        <4>3. /\ rpc'[r].st = "queued" /\ rpc'[r].gid = req[r].sub /\ rpc'[r].prov = req[r].prov
              /\ rpc'[r].pay = None /\ rpc'[r].reply = "none"
              /\ \A q \in Msgs \ {r} : rpc'[q] = rpc[q]
          BY <1>0, <3>2, PublishSends
        <4> QED
          BY <1>4, <4>1, <4>2, <4>3
      <3> QED
        BY <2>2, <3>1, <3>2 DEF CreateTouch
    <2>3. CASE r \in CreateReqs /\ CreateInsert(r)
      <3>1. /\ req[r].pc = "insert"
            /\ Publish(r, "create", r, None, req[r].prov)
            /\ req' = [req EXCEPT ![r] = [@ EXCEPT !.pc = "wait", !.sub = r, !.fresh = TRUE]]
        BY <2>3 DEF CreateInsert
      <3>2. /\ req'[r].pc = "wait" /\ req'[r].sub = r /\ req'[r].prov = req[r].prov
            /\ req'[r].res = req[r].res /\ \A q \in Reqs \ {r} : req'[q] = req[q]
        BY <1>0, <3>1 DEF Request
      <3>3. /\ rpc'[r].st = "queued" /\ rpc'[r].gid = r /\ rpc'[r].prov = req[r].prov
            /\ rpc'[r].pay = None /\ rpc'[r].reply = "none"
            /\ \A q \in Msgs \ {r} : rpc'[q] = rpc[q]
        BY <1>0, <3>1, PublishSends
      <3> QED
        BY <1>4, <3>1, <3>2, <3>3
    <2>4. CASE r \in CreateReqs /\ CreateReply(r)
      BY <1>5, <2>4 DEF CreateReply
    <2>5. CASE r \in RenewalReqs /\ RenewalFind(r)
      <3>1. req[r].pc = "start" /\ r \notin CreateReqs
        BY <2>5, RequestsAssumption DEF RenewalFind
      <3>2. CASE Finish(r, "notFound") /\ UNCHANGED rpc
        BY <1>5, <3>2
      <3>3. ASSUME NEW s, UNCHANGED rpc,
                   req' = [req EXCEPT ![r] = [@ EXCEPT !.pc = "done", !.res = "conflict", !.sub = s]]
            PROVE  AnswersInv' /\ MessagesSent /\ \A q \in Reqs \ {r} : req'[q] = req[q]
        <4>1. /\ req'[r].pc = "done"
              /\ \A q \in Reqs \ {r} : req'[q] = req[q]
          BY <1>0, <3>3 DEF Request
        <4>2. AnswersInv'
          BY <1>1, <3>1, <3>3, <4>1, AnswersByRequest
        <4> QED
          BY <3>3, <4>1, <4>2 DEF MessagesSent
      <3>4. ASSUME NEW s, Publish(r, RenewalKind(r), s, subs[s].ext, "STRIPE"),
                   req' = [req EXCEPT ![r] = [@ EXCEPT !.pc = "wait", !.sub = s]]
            PROVE  AnswersInv' /\ MessagesSent /\ \A q \in Reqs \ {r} : req'[q] = req[q]
        <4>1. /\ req'[r].pc = "wait" /\ req'[r].sub = s /\ req'[r].prov = req[r].prov
              /\ req'[r].res = req[r].res /\ \A q \in Reqs \ {r} : req'[q] = req[q]
          BY <1>0, <3>4 DEF Request
        <4>2. /\ rpc'[r].st = "queued" /\ rpc'[r].gid = s
              /\ rpc'[r].pay = None /\ rpc'[r].reply = "none"
              /\ \A q \in Msgs \ {r} : rpc'[q] = rpc[q]
          BY <1>0, <3>4, PublishSends
        <4> QED
          BY <1>4, <3>1, <4>1, <4>2
      <3> QED
        BY <2>5, <3>2, <3>3, <3>4 DEF RenewalFind
    <2>6. CASE r \in RenewalReqs /\ RenewalReply(r)
      BY <1>5, <2>6, RequestsAssumption DEF RenewalReply
    <2> QED
      BY <2>1, <2>2, <2>3, <2>4, <2>5, <2>6 DEF Arrive, GatewayStep, CreateStep
  <1> QED
    BY <1>1, <1>2, <1>6

LEMMA ListenerRecords ==
  ASSUME RecordsInv, NEW e \in Events, ListenerStep(e)
  PROVE  /\ AnswersInv' /\ MessagesSent
         /\ UNCHANGED <<prow, pays, hook, stripe, req>>
  <1> USE DEF gatewayVars, paymentsVars, stripeVars, tableVars
  <1>0. /\ lis \in [Events -> Listener] /\ lis[e] \in Listener
        /\ rpc \in [Msgs -> Message] /\ e \in Msgs
        /\ AnswersInv
    BY DEF RecordsInv, IInv, TypeOK
  <1>1. UNCHANGED <<req, prow, pays, stripe, hook>>
    BY DEF ListenerStep, ActivateUpdate, ActivateFindPrev, ActivateDisabled, ActivateUpgrade
  <1>2. \A f \in Events \ {e} : lis'[f] = lis[f]
    <2>1. \E v : lis' = [lis EXCEPT ![e] = v]
      BY DEF ListenerStep, ActivateUpdate, ActivateFindPrev, ActivateDisabled, ActivateUpgrade
    <2> QED
      BY <1>0, <2>1
  <1>3. \A r \in Reqs : r \in Msgs /\ r # e
    BY NamesAssumption
  <1>4. CASE UNCHANGED rpc
    <2>1. lis'[e].st \in {"none", "queued", "find"} => rpc[e].st = "none"
      <3>1. CASE ActivateUpdate(e)
        BY <1>0, <3>1 DEF ActivateUpdate, AnswersInv
      <3>2. CASE ActivateFindPrev(e) \/ ActivateDisabled(e) \/ ActivateUpgrade(e)
        <4>1. CASE \E prev : lis' = [lis EXCEPT ![e] = [@ EXCEPT !.st = "wait", !.prev = prev]]
          <5>1. PICK prev : lis' = [lis EXCEPT ![e] = [@ EXCEPT !.st = "wait", !.prev = prev]]
            BY <4>1
          <5> QED
            BY <1>0, <5>1 DEF Listener
        <4>2. CASE \/ lis' = [lis EXCEPT ![e].st = "upgrade"]
                   \/ lis' = [lis EXCEPT ![e].st = "done"]
          BY <1>0, <4>2 DEF Listener
        <4> QED
          BY <3>2, <4>1, <4>2 DEF ActivateFindPrev, ActivateDisabled, ActivateUpgrade
      <3> QED
        BY <3>1, <3>2 DEF ListenerStep
    <2>2. AnswersInv'
      BY <1>0, <1>1, <1>2, <1>4, <2>1 DEF AnswersInv
    <2> QED
      BY <1>1, <1>4, <2>2 DEF MessagesSent
  <1>5. CASE rpc' # rpc
    <2>1. PICK s : /\ lis[e].st = "find"
                   /\ lis' = [lis EXCEPT ![e] = [@ EXCEPT !.st = "wait", !.prev = s]]
                   /\ Publish(e, "disable", s, subs[s].ext, "STRIPE")
      BY <1>5 DEF ListenerStep, ActivateUpdate, ActivateFindPrev, ActivateDisabled, ActivateUpgrade
    <2>2. lis'[e].st = "wait" /\ rpc[e].st = "none"
      BY <1>0, <2>1 DEF Listener, AnswersInv
    <2>3. /\ rpc'[e].st = "queued" /\ rpc'[e].pay = None /\ rpc'[e].reply = "none"
          /\ \A q \in Msgs \ {e} : rpc'[q] = rpc[q]
      BY <1>0, <2>1, PublishSends
    <2>4. MessagesSent
      BY <2>2, <2>3 DEF MessagesSent
    <2>5. \A r \in Reqs : rpc'[r] = rpc[r]
      BY <1>3, <2>3
    <2>6. \A f \in Events : lis'[f].st \in {"none", "queued", "find"} => rpc'[f].st = "none"
      BY <1>0, <1>2, <2>2, <2>3 DEF AnswersInv
    <2>7. AnswersInv'
      BY <1>0, <1>1, <2>5, <2>6 DEF AnswersInv
    <2> QED
      BY <1>1, <2>4, <2>7
  <1> QED
    BY <1>4, <1>5

LEMMA GatewayCrashRecords ==
  ASSUME RecordsInv, GatewayCrash
  PROVE  /\ AnswersInv' /\ MessagesSent
         /\ UNCHANGED <<prow, pays, hook, stripe>>
         /\ \A q \in Reqs : req[q].pc = "done" => req'[q] = req[q]
  <1> USE DEF paymentsVars, stripeVars
  <1>0. /\ req \in [Reqs -> Request] /\ lis \in [Events -> Listener] /\ AnswersInv
    BY DEF RecordsInv, IInv, TypeOK
  <1>1. UNCHANGED <<rpc, prow, pays, hook, stripe>>
    BY DEF GatewayCrash
  <1>2. \A r \in Reqs :
          \/ req'[r] = req[r]
          \/ /\ req[r].pc # "done" /\ req'[r].pc = "done" /\ req'[r].res = "lost"
             /\ req'[r].sub = req[r].sub /\ req'[r].prov = req[r].prov
    <2> TAKE r \in Reqs
    <2>1. CASE req[r].pc \in {"touch", "insert", "wait"}
      <3>1. req'[r] = [req[r] EXCEPT !.pc = "done", !.res = "lost"] /\ req[r] \in Request
        BY <1>0, <2>1 DEF GatewayCrash
      <3> QED
        BY <2>1, <3>1 DEF Request
    <2>2. CASE req[r].pc \notin {"touch", "insert", "wait"}
      BY <2>2 DEF GatewayCrash
    <2> QED
      BY <2>1, <2>2
  <1>3. \A e \in Events : lis'[e].st \in {"none", "queued", "find"} => lis'[e] = lis[e]
    <2> TAKE e \in Events
    <2>1. CASE lis[e].st \in {"find", "wait", "upgrade"}
      <3>1. lis'[e] = [lis[e] EXCEPT !.st = "lost"] /\ lis[e] \in Listener
        BY <1>0, <2>1 DEF GatewayCrash
      <3> QED
        BY <3>1 DEF Listener
    <2>2. CASE lis[e].st \notin {"find", "wait", "upgrade"}
      BY <2>2 DEF GatewayCrash
    <2> QED
      BY <2>1, <2>2
  <1>4. AnswersInv'
    BY <1>0, <1>1, <1>2, <1>3 DEF AnswersInv
  <1> QED
    BY <1>1, <1>2, <1>4 DEF MessagesSent
-----------------------------------------------------------------------------
(* The payments service's RPC handlers: what one step does to the tables,   *)
(* whatever handler it belongs to                                           *)

RowsKeep ==
    \A w \in Msgs : prow[w].status # "none" =>
        prow'[w].status # "none" /\ prow'[w].gid = prow[w].gid

SameSessions ==
    \A k \in PayIds : stripe'[k].st = stripe[k].st /\ stripe'[k].gid = stripe[k].gid

\* Only p moves, and keeps its subject, its provider and a reply once given.
Moves(p) ==
    /\ UNCHANGED <<req, lis, hook>>
    /\ \A q \in Msgs \ {p} : rpc'[q] = rpc[q]
    /\ rpc[p].st \notin {"none", "acked"} /\ rpc'[p].st # "none"
    /\ rpc'[p].gid = rpc[p].gid /\ rpc'[p].prov = rpc[p].prov

\* The handler returns.
Tells(p) ==
    /\ rpc'[p].st \in {"acked", "held"} /\ rpc'[p].pay = rpc[p].pay
    /\ rpc[p].reply # "none" => rpc'[p].reply = rpc[p].reply
    /\ rpc'[p].reply = "url" =>
         rpc[p].reply = "url" \/ (rpc[p].st = "answer" /\ rpc'[p].st = "acked")
    /\ rpc'[p].reply = "null" =>
         \/ rpc[p].reply = "null"
         \/ \E w \in Msgs : prow[w].status = "active" /\ prow[w].gid = rpc[p].gid
    /\ \A w \in Msgs : /\ prow'[w].status = prow[w].status
                       /\ prow'[w].gid = prow[w].gid /\ prow'[w].ext = prow[w].ext
    /\ UNCHANGED pays /\ SameSessions

\* It goes on, after a query or a call that changes nothing read here.
Turns(p) ==
    /\ \/ rpc'[p].st = "insert" /\ RowsFor(rpc[p].gid) = {}
       \/ rpc'[p].st = "db"
       \/ rpc'[p].st = "answer" /\ rpc[p].st = "session" /\ rpc[p].prov = "PAYPAL"
       \/ /\ rpc'[p].st = "saverow" /\ rpc'[p].row \in RowsFor(rpc[p].gid)
          /\ prow[rpc'[p].row].status = "pending"
          /\ rpc'[p].snap = prow[rpc'[p].row]
          /\ rpc'[p].loaded = PaymentsOf(rpc'[p].row)
    /\ rpc'[p].pay = rpc[p].pay /\ rpc'[p].reply = rpc[p].reply
    /\ UNCHANGED <<prow, pays>> /\ SameSessions

\* It stores the row it read, or a new one.
Stores(p) ==
    /\ \/ /\ rpc[p].st = "saverow" /\ SaveRow(rpc[p].row, rpc[p].snap, rpc[p].loaded)
          /\ rpc'[p].row = rpc[p].row
       \/ /\ rpc[p].st = "insert"
          /\ prow' = [prow EXCEPT ![p] = [status |-> "pending", gid |-> rpc[p].gid,
                                          ext |-> None, auto |-> TRUE]]
          /\ rpc'[p].row = p
          /\ UNCHANGED pays
    /\ rpc'[p].st = "savepay"
    /\ rpc'[p].pay = rpc[p].pay /\ rpc'[p].reply = rpc[p].reply
    /\ UNCHANGED stripe

\* It records payment k, or opens the session for the payment it recorded.
Records(p, k) ==
    /\ rpc[p].st = "savepay" /\ pays[k].st = "none"
    /\ pays' = [pays EXCEPT ![k] = [st |-> "pending", row |-> rpc[p].row, charge |-> None]]
    /\ rpc'[p].st = "session" /\ rpc'[p].pay = k /\ rpc'[p].reply = rpc[p].reply
    /\ UNCHANGED <<prow, stripe>>

Opens(p) ==
    /\ rpc[p].st = "session" /\ rpc[p].prov = "STRIPE"
    /\ stripe' = [stripe EXCEPT ![rpc[p].pay] =
                    [st |-> "open", gid |-> rpc[p].gid, cancel |-> FALSE]]
    /\ rpc'[p].st = "answer" /\ rpc'[p].pay = rpc[p].pay /\ rpc'[p].reply = rpc[p].reply
    /\ UNCHANGED <<prow, pays>>

LEMMA AnsweredTells ==
  ASSUME rpc \in [Msgs -> Message], NEW p \in Msgs, NEW st, NEW reply,
         rpc' = [rpc EXCEPT ![p] = Answered(@, st, reply)]
  PROVE  /\ rpc'[p].st = st /\ rpc'[p].gid = rpc[p].gid /\ rpc'[p].prov = rpc[p].prov
         /\ rpc'[p].pay = rpc[p].pay
         /\ rpc'[p].reply = IF rpc[p].reply = "none" THEN reply ELSE rpc[p].reply
         /\ \A q \in Msgs \ {p} : rpc'[q] = rpc[q]
  <1>1. rpc[p] \in Message /\ rpc'[p] = Answered(rpc[p], st, reply)
    OBVIOUS
  <1> QED
    BY <1>1 DEF Answered, Message

LEMMA RpcShapes ==
  ASSUME RecordsInv, NEW p \in Msgs, RpcStep(p)
  PROVE  /\ Moves(p)
         /\ \/ Tells(p) \/ Turns(p) \/ Stores(p) \/ Opens(p)
            \/ \E k \in PayIds : Records(p, k)
  <1> USE DEF gatewayVars, paymentsVars, stripeVars, tableVars
  <1>0. /\ rpc \in [Msgs -> Message] /\ rpc[p] \in Message
        /\ prow \in [Msgs -> Row]
        /\ stripe \in [PayIds -> Session]
    BY DEF RecordsInv, IInv, TypeOK
  <1>1. UNCHANGED <<req, lis, hook>>
    BY DEF RpcStep, PayFind, PaySaveRow, PayInsertRow, PaySavePayment, PaySession, PayAnswer,
           RenewStripe, RenewDb, DisableDb, EnableDb, RenewRows
  <1>2. UNCHANGED stripe => SameSessions
    BY DEF SameSessions
  <1>3. CASE PayFind(p)
    <2>1. rpc[p].st = "queued" /\ UNCHANGED <<prow, pays, stripe>>
      BY <1>3 DEF PayFind
    <2>2. CASE \E w \in RowsFor(rpc[p].gid) :
                 prow[w].status = "active" /\ rpc' = [rpc EXCEPT ![p] = Answered(@, "acked", "null")]
      <3>1. \E w \in Msgs : prow[w].status = "active" /\ prow[w].gid = rpc[p].gid
        BY <2>2 DEF RowsFor
      <3>2. rpc' = [rpc EXCEPT ![p] = Answered(@, "acked", "null")]
        BY <2>2
      <3>3. /\ rpc'[p].st = "acked" /\ rpc'[p].gid = rpc[p].gid /\ rpc'[p].prov = rpc[p].prov
            /\ rpc'[p].pay = rpc[p].pay
            /\ rpc'[p].reply = IF rpc[p].reply = "none" THEN "null" ELSE rpc[p].reply
            /\ \A q \in Msgs \ {p} : rpc'[q] = rpc[q]
        BY <1>0, <3>2, AnsweredTells
      <3>4. Tells(p)
        BY <1>2, <2>1, <3>1, <3>3 DEF Tells
      <3> QED
        BY <1>1, <2>1, <3>3, <3>4 DEF Moves
    <2>3. ASSUME NEW w \in RowsFor(rpc[p].gid), prow[w].status = "pending",
                 rpc' = [rpc EXCEPT ![p] = [@ EXCEPT !.st = "saverow", !.row = w,
                                       !.snap = prow[w], !.loaded = PaymentsOf(w)]]
          PROVE  Moves(p) /\ Turns(p)
      <3>1. /\ rpc'[p].st = "saverow" /\ rpc'[p].row = w /\ rpc'[p].snap = prow[w]
            /\ rpc'[p].loaded = PaymentsOf(w)
            /\ rpc'[p].pay = rpc[p].pay /\ rpc'[p].reply = rpc[p].reply
            /\ rpc'[p].gid = rpc[p].gid /\ rpc'[p].prov = rpc[p].prov
            /\ \A q \in Msgs \ {p} : rpc'[q] = rpc[q]
        BY <1>0, <2>3 DEF Message
      <3> QED
        BY <1>1, <1>2, <2>1, <2>3, <3>1 DEF Moves, Turns
    <2>4. CASE RowsFor(rpc[p].gid) = {} /\ rpc' = [rpc EXCEPT ![p].st = "insert"]
      <3>1. /\ rpc'[p].st = "insert" /\ rpc'[p].pay = rpc[p].pay /\ rpc'[p].reply = rpc[p].reply
            /\ rpc'[p].gid = rpc[p].gid /\ rpc'[p].prov = rpc[p].prov
            /\ \A q \in Msgs \ {p} : rpc'[q] = rpc[q]
        BY <1>0, <2>4 DEF Message
      <3> QED
        BY <1>1, <1>2, <2>1, <2>4, <3>1 DEF Moves, Turns
    <2> QED
      BY <1>3, <2>2, <2>3, <2>4 DEF PayFind
  <1>4. CASE PaySaveRow(p)
    <2>1. rpc' = [rpc EXCEPT ![p].st = "savepay"] /\ rpc[p].st = "saverow"
          /\ SaveRow(rpc[p].row, rpc[p].snap, rpc[p].loaded) /\ UNCHANGED stripe
      BY <1>4 DEF PaySaveRow
    <2>2. /\ rpc'[p].st = "savepay" /\ rpc'[p].pay = rpc[p].pay /\ rpc'[p].reply = rpc[p].reply
          /\ rpc'[p].row = rpc[p].row
          /\ rpc'[p].gid = rpc[p].gid /\ rpc'[p].prov = rpc[p].prov
          /\ \A q \in Msgs \ {p} : rpc'[q] = rpc[q]
      BY <1>0, <2>1 DEF Message
    <2> QED
      BY <1>1, <2>1, <2>2 DEF Moves, Stores
  <1>5. CASE PayInsertRow(p)
    <2>1. rpc' = [rpc EXCEPT ![p] = [@ EXCEPT !.st = "savepay", !.row = p]]
          /\ rpc[p].st = "insert" /\ UNCHANGED <<stripe, pays>>
      BY <1>5 DEF PayInsertRow
    <2>2. /\ rpc'[p].st = "savepay" /\ rpc'[p].pay = rpc[p].pay /\ rpc'[p].reply = rpc[p].reply
          /\ rpc'[p].row = p
          /\ rpc'[p].gid = rpc[p].gid /\ rpc'[p].prov = rpc[p].prov
          /\ \A q \in Msgs \ {p} : rpc'[q] = rpc[q]
      BY <1>0, <2>1 DEF Message
    <2>3. prow' = [prow EXCEPT ![p] = [status |-> "pending", gid |-> rpc[p].gid,
                                       ext |-> None, auto |-> TRUE]]
      BY <1>5 DEF PayInsertRow
    <2> QED
      BY <1>1, <2>1, <2>2, <2>3 DEF Moves, Stores
  <1>6. CASE PaySavePayment(p)
    <2>1. PICK k \in PayIds :
            /\ NextPayment(k)
            /\ pays' = [pays EXCEPT ![k] = [st |-> "pending", row |-> rpc[p].row,
                                            charge |-> None]]
            /\ rpc' = [rpc EXCEPT ![p] = [@ EXCEPT !.st = "session", !.pay = k]]
      BY <1>6 DEF PaySavePayment
    <2>2. /\ rpc'[p].st = "session" /\ rpc'[p].pay = k /\ rpc'[p].reply = rpc[p].reply
          /\ rpc'[p].gid = rpc[p].gid /\ rpc'[p].prov = rpc[p].prov
          /\ \A q \in Msgs \ {p} : rpc'[q] = rpc[q]
      BY <1>0, <2>1 DEF Message
    <2>3. rpc[p].st = "savepay" /\ UNCHANGED <<prow, stripe>> /\ pays[k].st = "none"
      BY <1>6, <2>1 DEF PaySavePayment, NextPayment
    <2>4. Records(p, k)
      BY <2>1, <2>2, <2>3 DEF Records
    <2> QED
      BY <1>1, <2>2, <2>3, <2>4 DEF Moves
  <1>7. CASE PaySession(p)
    <2>1. rpc[p].st = "session" /\ UNCHANGED <<prow, pays>>
      BY <1>7 DEF PaySession
    <2>2. CASE rpc' = [rpc EXCEPT ![p].st = "answer"]
      <3>1. /\ rpc'[p].st = "answer" /\ rpc'[p].pay = rpc[p].pay /\ rpc'[p].reply = rpc[p].reply
            /\ rpc'[p].gid = rpc[p].gid /\ rpc'[p].prov = rpc[p].prov
            /\ \A q \in Msgs \ {p} : rpc'[q] = rpc[q]
        BY <1>0, <2>2 DEF Message
      <3>2. Moves(p)
        BY <1>1, <2>1, <3>1 DEF Moves
      <3>3. CASE rpc[p].prov = "STRIPE"
                 /\ stripe' = [stripe EXCEPT ![rpc[p].pay] =
                                 [st |-> "open", gid |-> rpc[p].gid, cancel |-> FALSE]]
        BY <2>1, <3>1, <3>2, <3>3 DEF Opens
      <3>4. CASE rpc[p].prov = "PAYPAL" /\ UNCHANGED stripe
        BY <1>2, <2>1, <3>1, <3>2, <3>4 DEF Turns
      <3>5. CASE rpc' = [rpc EXCEPT ![p] = Answered(@, "acked", "error")]
        <4>1. rpc'[p].st = "acked"
          BY <1>0, <3>5, AnsweredTells
        <4> QED
          BY <3>1, <4>1
      <3> QED
        BY <1>7, <3>3, <3>4, <3>5 DEF PaySession
    <2>3. CASE rpc' = [rpc EXCEPT ![p] = Answered(@, "acked", "error")] /\ UNCHANGED stripe
      <3>1. /\ rpc'[p].st = "acked" /\ rpc'[p].gid = rpc[p].gid /\ rpc'[p].prov = rpc[p].prov
            /\ rpc'[p].pay = rpc[p].pay
            /\ rpc'[p].reply = IF rpc[p].reply = "none" THEN "error" ELSE rpc[p].reply
            /\ \A q \in Msgs \ {p} : rpc'[q] = rpc[q]
        BY <1>0, <2>3, AnsweredTells
      <3> QED
        BY <1>1, <1>2, <2>1, <2>3, <3>1 DEF Moves, Tells
    <2> QED
      BY <1>7, <2>2, <2>3 DEF PaySession
  <1>8. CASE PayAnswer(p)
    <2>1. rpc[p].st = "answer" /\ UNCHANGED <<prow, pays, stripe>>
          /\ rpc' = [rpc EXCEPT ![p] = Answered(@, "acked", "url")]
      BY <1>8 DEF PayAnswer
    <2>2. /\ rpc'[p].st = "acked" /\ rpc'[p].gid = rpc[p].gid /\ rpc'[p].prov = rpc[p].prov
          /\ rpc'[p].pay = rpc[p].pay
          /\ rpc'[p].reply = IF rpc[p].reply = "none" THEN "url" ELSE rpc[p].reply
          /\ \A q \in Msgs \ {p} : rpc'[q] = rpc[q]
      BY <1>0, <2>1, AnsweredTells
    <2> QED
      BY <1>1, <1>2, <2>1, <2>2 DEF Moves, Tells
  <1>9. CASE RenewStripe(p)
    <2>1. rpc[p].st = "queued" /\ UNCHANGED <<prow, pays>> /\ SameSessions
      <3>1. \/ UNCHANGED stripe
            \/ stripe' = [stripe EXCEPT ![rpc[p].ext].cancel = (rpc[p].kind = "disable")]
        BY <1>9 DEF RenewStripe
      <3>2. SameSessions
        BY <1>0, <1>2, <3>1, CancelKeeps DEF SameSessions
      <3> QED
        BY <1>9, <3>2 DEF RenewStripe
    <2>2. CASE rpc' = [rpc EXCEPT ![p].st = "db"]
      <3>1. /\ rpc'[p].st = "db" /\ rpc'[p].pay = rpc[p].pay /\ rpc'[p].reply = rpc[p].reply
            /\ rpc'[p].gid = rpc[p].gid /\ rpc'[p].prov = rpc[p].prov
            /\ \A q \in Msgs \ {p} : rpc'[q] = rpc[q]
        BY <1>0, <2>2 DEF Message
      <3> QED
        BY <1>1, <2>1, <3>1 DEF Moves, Turns
    <2>3. CASE rpc' = [rpc EXCEPT ![p] = Answered(@, "held", "no")]
      <3>1. /\ rpc'[p].st = "held" /\ rpc'[p].gid = rpc[p].gid /\ rpc'[p].prov = rpc[p].prov
            /\ rpc'[p].pay = rpc[p].pay
            /\ rpc'[p].reply = IF rpc[p].reply = "none" THEN "no" ELSE rpc[p].reply
            /\ \A q \in Msgs \ {p} : rpc'[q] = rpc[q]
        BY <1>0, <2>3, AnsweredTells
      <3> QED
        BY <1>1, <2>1, <3>1 DEF Moves, Tells
    <2> QED
      BY <1>9, <2>2, <2>3 DEF RenewStripe
  <1>10. CASE RenewDb(p)
    <2>1. PICK on \in BOOLEAN : RenewRows(p, on)
      BY <1>10 DEF RenewDb, DisableDb, EnableDb
    <2>2. rpc[p].st = "db" /\ UNCHANGED <<pays, stripe>>
          /\ rpc' = [rpc EXCEPT ![p] = Answered(@, "held", "yes")]
      BY <1>10, <2>1 DEF RenewDb, DisableDb, EnableDb, RenewRows
    <2>3. /\ rpc'[p].st = "held" /\ rpc'[p].gid = rpc[p].gid /\ rpc'[p].prov = rpc[p].prov
          /\ rpc'[p].pay = rpc[p].pay
          /\ rpc'[p].reply = IF rpc[p].reply = "none" THEN "yes" ELSE rpc[p].reply
          /\ \A q \in Msgs \ {p} : rpc'[q] = rpc[q]
      BY <1>0, <2>2, AnsweredTells
    <2>4. \A w \in Msgs : /\ prow'[w].status = prow[w].status
                          /\ prow'[w].gid = prow[w].gid /\ prow'[w].ext = prow[w].ext
      <3> TAKE w \in Msgs
      <3>1. prow'[w] = prow[w] \/ prow'[w] = [prow[w] EXCEPT !.auto = on]
        BY <2>1 DEF RenewRows
      <3> QED
        BY <1>0, <3>1 DEF Row
    <2> QED
      BY <1>1, <1>2, <2>2, <2>3, <2>4 DEF Moves, Tells
  <1> QED
    BY <1>3, <1>4, <1>5, <1>6, <1>7, <1>8, <1>9, <1>10 DEF RpcStep
-----------------------------------------------------------------------------
(* Each part of the invariant, when one message moves                       *)

LEMMA AnswersByMessage ==
  ASSUME RecordsInv, NEW p \in Msgs, Moves(p),
         rpc[p].reply # "none" => rpc'[p].reply = rpc[p].reply
  PROVE  AnswersInv'
  <1>0. AnswersInv
    BY DEF RecordsInv
  <1>1. \A q \in Msgs :
          /\ rpc'[q].st = "none" <=> rpc[q].st = "none"
          /\ rpc'[q].gid = rpc[q].gid /\ rpc'[q].prov = rpc[q].prov
          /\ rpc[q].reply # "none" => rpc'[q].reply = rpc[q].reply
    BY DEF Moves
  <1> QED
    BY <1>0, <1>1 DEF AnswersInv, Moves

\* Sessions only open: none is closed or given to another row.
SessionsStay ==
    \A k \in PayIds : stripe[k].st # "none" =>
        stripe'[k].st # "none" /\ stripe'[k].gid = stripe[k].gid

LEMMA PayableByMessage ==
  ASSUME RecordsInv, NEW p \in Msgs, Moves(p), PaymentsStay, SessionsStay,
         Payable(p)',
         \A q \in Msgs \ {p} : rpc[q].pay # None =>
             /\ rpc'[p].pay # rpc[q].pay
             /\ stripe'[rpc[q].pay].st = "none" <=> stripe[rpc[q].pay].st = "none"
  PROVE  PayableInv'
  <1>0. PayableInv /\ rpc \in [Msgs -> Message]
    BY DEF RecordsInv, IInv, TypeOK
  <1>1. ASSUME NEW q \in Msgs \ {p}
        PROVE  Payable(q)'
    <2>1. Payable(q) /\ rpc'[q] = rpc[q] /\ rpc[q] \in Message
      BY <1>0 DEF PayableInv, Moves
    <2>2. rpc[q].pay # None => rpc[q].pay \in PayIds
      BY <2>1 DEF Message, MaybePay
    <2>3. rpc[q].pay # None => pays'[rpc[q].pay].st # "none"
      BY <2>1, <2>2 DEF Payable, PaymentsStay
    <2>4. rpc[q].reply = "null" => \E k \in PayIds : Paid(k, rpc[q].gid)'
      <3>1. rpc[q].reply = "null" => \E k \in PayIds : Paid(k, rpc[q].gid)
        BY <2>1 DEF Payable
      <3>2. \A k \in PayIds : Paid(k, rpc[q].gid) =>
              stripe'[k].st \in {"paid", "ended"} /\ stripe'[k].gid = rpc[q].gid
        BY DEF PaymentsStay, Paid
      <3> QED
        BY <2>1, <3>1, <3>2 DEF Paid
    <2>5. rpc[q].prov = "STRIPE" /\ (rpc[q].st = "answer" \/ rpc[q].reply = "url") =>
            stripe'[rpc[q].pay].st # "none" /\ stripe'[rpc[q].pay].gid = rpc[q].gid
      BY <2>1, <2>2 DEF Payable, SessionsStay
    <2>6. rpc[q].prov = "PAYPAL" /\ rpc[q].pay # None => stripe'[rpc[q].pay].st = "none"
      BY <2>1, <2>2 DEF Payable
    <2> QED
      BY <2>1, <2>3, <2>4, <2>5, <2>6 DEF Payable, Paid
  <1>2. ASSUME NEW q \in Msgs, NEW r \in Msgs, q # r, rpc'[q].pay # None
        PROVE  rpc'[q].pay # rpc'[r].pay
    BY <1>0, <1>2 DEF PayableInv, Moves
  <1> QED
    BY <1>1, <1>2 DEF PayableInv

LEMMA RowsByMessage ==
  ASSUME RecordsInv, NEW p \in Msgs, Moves(p), PaymentsStay, RowsKeep,
         \A w \in Msgs : prow'[w].status # "none" =>
             \/ prow[w].status # "none"
             \/ w = p /\ rpc[p].st = "insert" /\ prow'[w].gid = rpc[p].gid,
         rpc'[p].st = "insert" => prow'[p].status = "none",
         rpc'[p].st \in {"saverow", "savepay"} =>
             rpc'[p].row \in Msgs /\ prow'[rpc'[p].row].status # "none",
         rpc'[p].st = "saverow" =>
             rpc'[p].snap.status = "pending" /\ rpc'[p].snap.gid = prow'[rpc'[p].row].gid
  PROVE  RowsInv'
  <1>0. RowsInv /\ SessionsInv
    BY DEF RecordsInv, IInv
  <1>1. \A w \in Msgs : prow'[w].status # "none" =>
            rpc'[w].st # "none" /\ prow'[w].gid = rpc'[w].gid
    BY <1>0 DEF RowsInv, Moves, RowsKeep
  <1>2. ASSUME NEW q \in Msgs
        PROVE  /\ rpc'[q].st = "insert" => prow'[q].status = "none"
               /\ rpc'[q].st \in {"saverow", "savepay"} =>
                    rpc'[q].row \in Msgs /\ prow'[rpc'[q].row].status # "none"
               /\ rpc'[q].st = "saverow" =>
                    rpc'[q].snap.status = "pending" /\ rpc'[q].snap.gid = prow'[rpc'[q].row].gid
    BY <1>0 DEF RowsInv, Stored, Moves, RowsKeep
  <1>3. ASSUME NEW k \in PayIds
        PROVE  /\ hook'[k].pc \in {"save", "findpay", "savepay"} =>
                    /\ hook'[k].row \in Msgs /\ prow'[hook'[k].row].status # "none"
                    /\ prow'[hook'[k].row].gid = stripe'[k].gid
               /\ hook'[k].pc = "save" => hook'[k].snap.gid = stripe'[k].gid
    <2>1. hook'[k] = hook[k]
      BY DEF Moves
    <2>2. hook[k].pc # "idle" => stripe'[k].gid = stripe[k].gid
      BY <1>0 DEF SessionsInv, PaymentsStay
    <2> QED
      BY <1>0, <2>1, <2>2 DEF RowsInv, Stored, RowsKeep
  <1> QED
    BY <1>1, <1>2, <1>3 DEF RowsInv, Stored

\* Nothing is attached that was not, and rows and payments keep what counts.
LEMMA AttachedLess ==
  ASSUME RecordsInv, PaymentsStay, RowsKeep,
         \A j \in PayIds : pays'[j].st = pays[j].st /\ pays'[j].charge = pays[j].charge,
         \A j \in PayIds, w \in Msgs : Attached(j, w)' => Attached(j, w)
  PROVE  AttachedInv'
  <1>0. AttachedInv
    BY DEF RecordsInv
  <1> SUFFICES ASSUME NEW j \in PayIds, NEW w \in Msgs, Attached(j, w)'
               PROVE  /\ pays'[j].st # "none" /\ Stored(w)'
                      /\ pays'[j].st = "succeeded" =>
                           /\ pays'[j].charge \in PayIds
                           /\ stripe'[pays'[j].charge].st \in {"paid", "ended"}
                           /\ stripe'[pays'[j].charge].gid = prow'[w].gid
                      /\ \A v \in Msgs : Attached(j, v)' => v = w
    BY DEF AttachedInv, Paid
  <1>1. Attached(j, w)
    OBVIOUS
  <1>2. pays'[j].st # "none" /\ Stored(w)'
    BY <1>0, <1>1 DEF AttachedInv, Stored, RowsKeep
  <1>3. pays'[j].st = "succeeded" => Paid(pays[j].charge, prow[w].gid)
    BY <1>0, <1>1 DEF AttachedInv
  <1>4. prow'[w].gid = prow[w].gid
    BY <1>0, <1>1 DEF AttachedInv, Stored, RowsKeep
  <1>5. \A v \in Msgs : Attached(j, v)' => v = w
    BY <1>0, <1>1 DEF AttachedInv
  <1> QED
    BY <1>2, <1>3, <1>4, <1>5 DEF Paid, PaymentsStay

LEMMA ActiveRowsStay ==
  ASSUME RecordsInv, PaymentsStay,
         \A w \in Msgs : prow'[w].status = "active" =>
             prow[w].status = "active" /\ prow'[w].gid = prow[w].gid /\ prow'[w].ext = prow[w].ext
  PROVE  ActiveRowIsPaid'
  <1>1. ActiveRowIsPaid
    BY DEF RecordsInv
  <1> QED
    BY <1>1 DEF ActiveRowIsPaid, Paid, PaymentsStay

\* A step that neither returns nor is told anything about answers and sessions.
LEMMA SamePays ==
  ASSUME SameSessions, \A j \in PayIds : pays'[j].st = pays[j].st
  PROVE  PaymentsStay /\ SessionsStay
  BY DEF SameSessions, PaymentsStay, SessionsStay
-----------------------------------------------------------------------------
LEMMA TellsRecords ==
  ASSUME RecordsInv, NEW p \in Msgs, Moves(p), Tells(p)
  PROVE  PayableInv' /\ RowsInv' /\ AttachedInv' /\ ActiveRowIsPaid' /\ AnswersInv'
  <1>0. /\ PayableInv /\ RowsInv /\ ActiveRowIsPaid
        /\ rpc \in [Msgs -> Message] /\ rpc[p] \in Message
    BY DEF RecordsInv, IInv, TypeOK
  <1>1. PaymentsStay /\ SessionsStay /\ RowsKeep
    BY SamePays DEF Tells, RowsKeep
  <1>2. Payable(p) /\ (rpc[p].pay # None => rpc[p].pay \in PayIds)
    BY <1>0 DEF PayableInv, Message, MaybePay
  <1>3. rpc[p].reply # "url" /\ rpc[p].st # "acked"
    BY <1>2 DEF Payable, Moves
  <1>4. rpc'[p].reply = "null" =>
          \E k \in PayIds : stripe'[k].st \in {"paid", "ended"} /\ stripe'[k].gid = rpc[p].gid
    <2>1. rpc'[p].reply = "null" => \E k \in PayIds : Paid(k, rpc[p].gid)
      <3>1. CASE rpc[p].reply = "null"
        BY <1>2, <3>1 DEF Payable
      <3>2. ASSUME NEW w \in Msgs, prow[w].status = "active", prow[w].gid = rpc[p].gid
            PROVE  \E k \in PayIds : Paid(k, rpc[p].gid)
        BY <1>0, <3>2 DEF ActiveRowIsPaid, Paid
      <3> QED
        BY <3>1, <3>2 DEF Tells
    <2> QED
      BY <2>1 DEF Tells, SameSessions, Paid
  <1>5. Payable(p)'
    <2>1. \A k \in PayIds : stripe'[k].st = stripe[k].st /\ stripe'[k].gid = stripe[k].gid
      BY DEF Tells, SameSessions
    <2>2. rpc'[p].st \in {"acked", "held"} /\ rpc'[p].pay = rpc[p].pay /\ UNCHANGED pays
      BY DEF Tells
    <2>3. rpc'[p].gid = rpc[p].gid /\ rpc'[p].prov = rpc[p].prov
      BY DEF Moves
    <2>4. rpc'[p].reply = "url" => rpc[p].st = "answer" /\ rpc'[p].st = "acked"
      BY <1>3 DEF Tells
    <2>5. rpc'[p].pay # None => pays'[rpc'[p].pay].st # "none"
      BY <1>2, <2>2 DEF Payable
    <2>6. rpc'[p].reply = "url" => rpc'[p].pay # None
      BY <1>2, <2>2, <2>4 DEF Payable
    <2>7. rpc'[p].prov = "STRIPE" /\ rpc'[p].reply = "url" =>
            stripe'[rpc'[p].pay].st # "none" /\ stripe'[rpc'[p].pay].gid = rpc'[p].gid
      BY <1>2, <2>1, <2>2, <2>3, <2>4 DEF Payable
    <2>8. rpc'[p].prov = "PAYPAL" /\ rpc'[p].pay # None => stripe'[rpc'[p].pay].st = "none"
      BY <1>2, <2>1, <2>2, <2>3 DEF Payable
    <2> QED
      BY <1>4, <2>2, <2>3, <2>4, <2>5, <2>6, <2>7, <2>8 DEF Payable, Paid
  <1>6. PayableInv'
    <2>1. \A q \in Msgs \ {p} : rpc[q].pay # None =>
             /\ rpc'[p].pay # rpc[q].pay
             /\ stripe'[rpc[q].pay].st = "none" <=> stripe[rpc[q].pay].st = "none"
      BY <1>0 DEF PayableInv, Tells, SameSessions, Message, MaybePay
    <2> QED
      BY <1>1, <1>5, <2>1, PayableByMessage
  <1>7. RowsInv'
    BY <1>1, RowsByMessage DEF Tells
  <1>8. AttachedInv'
    <2>1. \A j \in PayIds, w \in Msgs : Attached(j, w)' => Attached(j, w)
      BY DEF Attached, Moves, Tells
    <2> QED
      BY <1>1, <2>1, AttachedLess DEF Tells
  <1>9. ActiveRowIsPaid'
    BY <1>1, ActiveRowsStay DEF Tells
  <1>10. AnswersInv'
    BY AnswersByMessage DEF Tells
  <1> QED
    BY <1>6, <1>7, <1>8, <1>9, <1>10

LEMMA TurnsRecords ==
  ASSUME RecordsInv, NEW p \in Msgs, Moves(p), Turns(p)
  PROVE  PayableInv' /\ RowsInv' /\ AttachedInv' /\ ActiveRowIsPaid' /\ AnswersInv'
  <1>0. /\ PayableInv /\ RowsInv
        /\ rpc \in [Msgs -> Message] /\ rpc[p] \in Message
    BY DEF RecordsInv, IInv, TypeOK
  <1>1. PaymentsStay /\ SessionsStay /\ RowsKeep
    BY SamePays DEF Turns, RowsKeep
  <1>2. Payable(p) /\ (rpc[p].pay # None => rpc[p].pay \in PayIds)
    BY <1>0 DEF PayableInv, Message, MaybePay
  <1>3. rpc[p].reply # "url" /\ rpc[p].st # "acked"
    BY <1>2 DEF Payable, Moves
  <1>4. rpc[p].reply = "null" =>
          \E k \in PayIds : stripe'[k].st \in {"paid", "ended"} /\ stripe'[k].gid = rpc[p].gid
    BY <1>2 DEF Payable, Turns, SameSessions, Paid
  <1>5. Payable(p)'
    <2>1. \A k \in PayIds : stripe'[k].st = stripe[k].st /\ stripe'[k].gid = stripe[k].gid
      BY DEF Turns, SameSessions
    <2>2. /\ rpc'[p].st \in {"insert", "db", "answer", "saverow"}
          /\ rpc'[p].st = "answer" => rpc[p].st = "session" /\ rpc[p].prov = "PAYPAL"
          /\ rpc'[p].pay = rpc[p].pay /\ rpc'[p].reply = rpc[p].reply /\ UNCHANGED pays
      BY DEF Turns
    <2>3. rpc'[p].gid = rpc[p].gid /\ rpc'[p].prov = rpc[p].prov
      BY DEF Moves
    <2>4. rpc'[p].pay # None => pays'[rpc'[p].pay].st # "none"
      BY <1>2, <2>2 DEF Payable
    <2>5. rpc'[p].st = "answer" => rpc'[p].pay # None
      BY <1>2, <2>2 DEF Payable
    <2>6. rpc'[p].prov = "PAYPAL" /\ rpc'[p].pay # None => stripe'[rpc'[p].pay].st = "none"
      BY <1>2, <2>1, <2>2, <2>3 DEF Payable
    <2> QED
      BY <1>3, <1>4, <2>2, <2>3, <2>4, <2>5, <2>6 DEF Payable, Paid
  <1>6. PayableInv'
    <2>1. \A q \in Msgs \ {p} : rpc[q].pay # None =>
             /\ rpc'[p].pay # rpc[q].pay
             /\ stripe'[rpc[q].pay].st = "none" <=> stripe[rpc[q].pay].st = "none"
      BY <1>0 DEF PayableInv, Turns, SameSessions, Message, MaybePay
    <2> QED
      BY <1>1, <1>5, <2>1, PayableByMessage
  <1>7. RowsInv'
    <2>1. rpc'[p].st = "insert" => prow'[p].status = "none"
      BY <1>0 DEF RowsInv, Turns, RowsFor
    <2>2. /\ rpc'[p].st \in {"saverow", "savepay"} =>
               rpc'[p].row \in Msgs /\ prow'[rpc'[p].row].status # "none"
          /\ rpc'[p].st = "saverow" =>
               rpc'[p].snap.status = "pending" /\ rpc'[p].snap.gid = prow'[rpc'[p].row].gid
      BY DEF Turns, RowsFor
    <2> QED
      BY <1>1, <2>1, <2>2, RowsByMessage DEF Turns
  <1>8. AttachedInv'
    <2>1. \A j \in PayIds, w \in Msgs : Attached(j, w)' => Attached(j, w)
      <3> SUFFICES ASSUME NEW j \in PayIds, NEW w \in Msgs, Attached(j, w)'
                   PROVE  Attached(j, w)
        OBVIOUS
      <3>1. UNCHANGED <<pays, hook>> /\ \A q \in Msgs \ {p} : rpc'[q] = rpc[q]
        BY DEF Moves, Turns
      <3>2. rpc'[p].st = "saverow" => rpc'[p].loaded = {i \in PayIds : pays[i].row = rpc'[p].row}
        BY DEF Turns, PaymentsOf
      <3>3. CASE rpc'[p].st = "saverow" /\ rpc'[p].row = w /\ j \in rpc'[p].loaded
        BY <3>2, <3>3 DEF Attached
      <3>4. CASE ~(rpc'[p].st = "saverow" /\ rpc'[p].row = w /\ j \in rpc'[p].loaded)
        BY <3>1, <3>4 DEF Attached
      <3> QED
        BY <3>3, <3>4
    <2> QED
      BY <1>1, <2>1, AttachedLess DEF Turns
  <1>9. ActiveRowIsPaid'
    BY <1>1, ActiveRowsStay DEF Turns
  <1>10. AnswersInv'
    BY AnswersByMessage DEF Turns
  <1> QED
    BY <1>6, <1>7, <1>8, <1>9, <1>10

LEMMA StoresRecords ==
  ASSUME RecordsInv, NEW p \in Msgs, Moves(p), Stores(p)
  PROVE  PayableInv' /\ RowsInv' /\ AttachedInv' /\ ActiveRowIsPaid' /\ AnswersInv'
  <1>0. /\ PayableInv /\ RowsInv
        /\ rpc \in [Msgs -> Message] /\ rpc[p] \in Message
        /\ prow \in [Msgs -> Row] /\ pays \in [PayIds -> Payment]
        /\ TypeOK
    BY DEF RecordsInv, IInv, TypeOK
  <1>1. \A j \in PayIds : pays'[j].st = pays[j].st /\ pays'[j].charge = pays[j].charge
    <2>1. CASE SaveRow(rpc[p].row, rpc[p].snap, rpc[p].loaded)
      BY <1>0, <2>1 DEF SaveRow, Payment
    <2> QED
      BY <2>1 DEF Stores
  <1>2. PaymentsStay /\ SessionsStay
    BY <1>1 DEF PaymentsStay, SessionsStay, Stores
  <1>3. /\ rpc'[p].row \in Msgs
        /\ prow'[rpc'[p].row].status = "pending"
        /\ prow'[rpc'[p].row].gid = prow[rpc'[p].row].gid
           \/ (rpc'[p].row = p /\ rpc[p].st = "insert" /\ prow'[p].gid = rpc[p].gid)
        /\ \A w \in Msgs \ {rpc'[p].row} : prow'[w] = prow[w]
        /\ rpc[p].st = "saverow" => prow[rpc'[p].row].status # "none"
    <2>1. CASE rpc[p].st = "saverow"
      <3>1. /\ rpc[p].row \in Msgs /\ prow[rpc[p].row].status # "none"
            /\ rpc[p].snap.status = "pending" /\ rpc[p].snap.gid = prow[rpc[p].row].gid
        BY <1>0, <2>1 DEF RowsInv, Stored
      <3>2. prow' = [prow EXCEPT ![rpc[p].row] = rpc[p].snap] /\ rpc'[p].row = rpc[p].row
        BY <2>1 DEF Stores, SaveRow
      <3> QED
        BY <1>0, <2>1, <3>1, <3>2
    <2>2. CASE rpc[p].st = "insert"
      BY <1>0, <2>2 DEF Stores
    <2> QED
      BY <2>1, <2>2 DEF Stores
  <1>4. RowsKeep
    <2>1. rpc[p].st = "insert" => prow[p].status = "none"
      BY <1>0 DEF RowsInv
    <2> QED
      BY <1>3, <2>1 DEF RowsKeep
  <1>5. Payable(p)'
    <2>1. Payable(p)
      BY <1>0 DEF PayableInv
    <2>2. rpc[p].pay # None => rpc[p].pay \in PayIds
      BY <1>0 DEF Message, MaybePay
    <2>3. /\ rpc'[p].st = "savepay" /\ rpc'[p].pay = rpc[p].pay /\ rpc'[p].reply = rpc[p].reply
          /\ UNCHANGED stripe
      BY DEF Stores
    <2>4. rpc[p].reply # "url"
      BY <2>1 DEF Payable, Moves
    <2> QED
      BY <1>1, <2>1, <2>2, <2>3, <2>4 DEF Payable, Paid, Moves
  <1>6. PayableInv'
    <2>1. \A q \in Msgs \ {p} : rpc[q].pay # None =>
             /\ rpc'[p].pay # rpc[q].pay
             /\ stripe'[rpc[q].pay].st = "none" <=> stripe[rpc[q].pay].st = "none"
      BY <1>0 DEF PayableInv, Stores
    <2> QED
      BY <1>2, <1>5, <2>1, PayableByMessage
  <1>7. RowsInv'
    <2>1. \A w \in Msgs : prow'[w].status # "none" =>
             \/ prow[w].status # "none"
             \/ w = p /\ rpc[p].st = "insert" /\ prow'[w].gid = rpc[p].gid
      <3>1. rpc[p].st \in {"saverow", "insert"} /\ (rpc[p].st = "insert" =>
              rpc'[p].row = p /\ prow'[p].gid = rpc[p].gid)
        BY <1>0 DEF Stores
      <3> QED
        BY <1>3, <3>1
    <2>2. /\ rpc'[p].st \in {"saverow", "savepay"} =>
               rpc'[p].row \in Msgs /\ prow'[rpc'[p].row].status # "none"
          /\ rpc'[p].st = "savepay"
      BY <1>3 DEF Stores
    <2> QED
      BY <1>2, <1>4, <2>1, <2>2, RowsByMessage
  <1>8. AttachedInv'
    <2>1. \A j \in PayIds, w \in Msgs : Attached(j, w)' => Attached(j, w)
      <3> SUFFICES ASSUME NEW j \in PayIds, NEW w \in Msgs, Attached(j, w)'
                   PROVE  Attached(j, w)
        OBVIOUS
      <3>1. UNCHANGED hook /\ (\A q \in Msgs \ {p} : rpc'[q] = rpc[q]) /\ rpc'[p].st = "savepay"
        BY DEF Moves, Stores
      <3>2. CASE pays'[j].row = w
        <4>1. CASE rpc[p].st = "saverow" /\ rpc[p].row = w /\ j \in rpc[p].loaded
          BY <4>1 DEF Attached
        <4>2. CASE pays[j].row = w
          BY <4>2 DEF Attached
        <4>3. CASE rpc[p].st = "saverow" /\ SaveRow(rpc[p].row, rpc[p].snap, rpc[p].loaded)
          <5>1. \/ pays'[j] = pays[j]
                \/ pays'[j] = [pays[j] EXCEPT !.row = rpc[p].row] /\ j \in rpc[p].loaded
                \/ pays'[j] = [pays[j] EXCEPT !.row = None]
            BY <4>3 DEF SaveRow
          <5>2. w # None /\ pays[j] \in Payment
            BY <1>0, NamesAssumption
          <5>3. pays'[j].row \in {pays[j].row, None} \/ (pays'[j].row = rpc[p].row /\ j \in rpc[p].loaded)
            BY <5>1, <5>2 DEF Payment
          <5> QED
            BY <3>2, <4>1, <4>2, <4>3, <5>2, <5>3
        <4> QED
          BY <3>2, <4>2, <4>3 DEF Stores
      <3>3. CASE pays'[j].row # w
        BY <3>1, <3>3 DEF Attached
      <3> QED
        BY <3>2, <3>3
    <2> QED
      BY <1>1, <1>2, <1>4, <2>1, AttachedLess
  <1>9. ActiveRowIsPaid'
    BY <1>2, <1>3, ActiveRowsStay
  <1>10. AnswersInv'
    BY AnswersByMessage DEF Stores
  <1> QED
    BY <1>6, <1>7, <1>8, <1>9, <1>10

LEMMA RecordsPayment ==
  ASSUME RecordsInv, NEW p \in Msgs, NEW k \in PayIds, Moves(p), Records(p, k)
  PROVE  PayableInv' /\ RowsInv' /\ AttachedInv' /\ ActiveRowIsPaid' /\ AnswersInv'
  <1>0. /\ PayableInv /\ RowsInv /\ AttachedInv /\ SessionsInv
        /\ rpc \in [Msgs -> Message] /\ rpc[p] \in Message
        /\ pays \in [PayIds -> Payment]
    BY DEF RecordsInv, IInv, TypeOK
  <1>1. /\ pays'[k] = [st |-> "pending", row |-> rpc[p].row, charge |-> None]
        /\ \A j \in PayIds \ {k} : pays'[j] = pays[j]
        /\ pays[k].st = "none" /\ stripe[k].st = "none"
    BY <1>0 DEF Records, SessionsInv
  <1>2. PaymentsStay /\ SessionsStay /\ RowsKeep
    BY <1>1 DEF PaymentsStay, SessionsStay, RowsKeep, Records
  <1>3. Payable(p)'
    <2>1. Payable(p) /\ k # None
      BY <1>0, NamesAssumption DEF PayableInv
    <2>2. /\ rpc'[p].st = "session" /\ rpc'[p].pay = k /\ rpc'[p].reply = rpc[p].reply
          /\ UNCHANGED stripe
      BY DEF Records
    <2>3. rpc[p].reply # "url"
      BY <2>1 DEF Payable, Moves
    <2> QED
      BY <1>1, <2>1, <2>2, <2>3 DEF Payable, Paid, Moves
  <1>4. PayableInv'
    <2>1. \A q \in Msgs \ {p} : rpc[q].pay # None =>
             /\ rpc'[p].pay # rpc[q].pay
             /\ stripe'[rpc[q].pay].st = "none" <=> stripe[rpc[q].pay].st = "none"
      BY <1>0, <1>1 DEF PayableInv, Payable, Records
    <2> QED
      BY <1>2, <1>3, <2>1, PayableByMessage
  <1>5. RowsInv'
    BY <1>2, RowsByMessage DEF Records
  <1>6. AttachedInv'
    <2>1. rpc'[p].st = "session" /\ UNCHANGED <<hook, prow, stripe>>
          /\ \A q \in Msgs \ {p} : rpc'[q] = rpc[q]
      BY DEF Moves, Records
    <2>2. ASSUME NEW j \in PayIds \ {k}, NEW w \in Msgs, Attached(j, w)'
          PROVE  Attached(j, w)
      BY <1>1, <2>1, <2>2 DEF Attached
    <2>3. ASSUME NEW w \in Msgs, Attached(k, w)'
          PROVE  w = rpc[p].row
      <3>1. ~Attached(k, w)
        BY <1>0, <1>1 DEF AttachedInv
      <3>2. pays'[k].row = w
        BY <2>1, <2>3, <3>1 DEF Attached
      <3> QED
        BY <1>1, <3>2
    <2>4. Stored(rpc[p].row)
      BY <1>0 DEF RowsInv, Records
    <2>5. ASSUME NEW j \in PayIds, NEW w \in Msgs, Attached(j, w)'
          PROVE  /\ pays'[j].st # "none" /\ Stored(w)
                 /\ pays'[j].st = "succeeded" => Paid(pays'[j].charge, prow[w].gid)
                 /\ \A v \in Msgs : Attached(j, v)' => v = w
      <3>1. CASE j = k
        BY <1>1, <2>3, <2>4, <2>5, <3>1
      <3>2. CASE j # k
        <4>1. Attached(j, w) /\ pays'[j] = pays[j]
          BY <1>1, <2>2, <2>5, <3>2
        <4>2. \A v \in Msgs : Attached(j, v)' => Attached(j, v)
          BY <2>2, <3>2
        <4> QED
          BY <1>0, <4>1, <4>2 DEF AttachedInv
      <3> QED
        BY <3>1, <3>2
    <2> QED
      BY <2>1, <2>5 DEF AttachedInv, Stored, Paid
  <1>7. ActiveRowIsPaid'
    BY <1>2, ActiveRowsStay DEF Records
  <1>8. AnswersInv'
    BY AnswersByMessage DEF Records
  <1> QED
    BY <1>4, <1>5, <1>6, <1>7, <1>8

LEMMA OpensRecords ==
  ASSUME RecordsInv, NEW p \in Msgs, Moves(p), Opens(p)
  PROVE  /\ PayableInv' /\ RowsInv' /\ AttachedInv' /\ ActiveRowIsPaid' /\ AnswersInv'
         /\ \A k \in PayIds : stripe'[k] = stripe[k] \/ stripe'[k].st = "open"
  <1>0. /\ PayableInv /\ RowsInv /\ MessagesInv
        /\ rpc \in [Msgs -> Message] /\ rpc[p] \in Message
        /\ stripe \in [PayIds -> Session]
    BY DEF RecordsInv, IInv, TypeOK
  <1> DEFINE k == rpc[p].pay
  <1>1. /\ k \in PayIds /\ k # None /\ pays[k].st # "none" /\ stripe[k].st = "none"
        /\ stripe'[k].st = "open" /\ stripe'[k].gid = rpc[p].gid
        /\ \A j \in PayIds \ {k} : stripe'[j] = stripe[j]
    BY <1>0, NamesAssumption DEF MessagesInv, Opens
  <1> HIDE DEF k
  <1>2. PaymentsStay /\ SessionsStay /\ RowsKeep
    BY <1>1 DEF PaymentsStay, SessionsStay, RowsKeep, Opens
  <1>3. Payable(p)'
    <2>1. Payable(p)
      BY <1>0 DEF PayableInv
    <2>2. /\ rpc'[p].st = "answer" /\ rpc'[p].pay = k /\ rpc'[p].reply = rpc[p].reply
          /\ rpc[p].prov = "STRIPE" /\ UNCHANGED pays
      BY DEF Opens, k
    <2>3. rpc[p].reply # "url"
      BY <2>1 DEF Payable, Moves
    <2>4. rpc[p].reply = "null" =>
            \E j \in PayIds : stripe'[j].st \in {"paid", "ended"} /\ stripe'[j].gid = rpc[p].gid
      BY <2>1, <1>2 DEF Payable, PaymentsStay, Paid
    <2> QED
      BY <1>1, <2>2, <2>3, <2>4 DEF Payable, Paid, Moves
  <1>4. PayableInv'
    <2>1. \A q \in Msgs \ {p} : rpc[q].pay # None => rpc[q].pay # k /\ rpc[q].pay \in PayIds
      BY <1>0 DEF PayableInv, k, Message, MaybePay
    <2>2. \A q \in Msgs \ {p} : rpc[q].pay # None =>
             /\ rpc'[p].pay # rpc[q].pay
             /\ stripe'[rpc[q].pay].st = "none" <=> stripe[rpc[q].pay].st = "none"
      BY <1>1, <2>1 DEF Opens, k
    <2> QED
      BY <1>2, <1>3, <2>2, PayableByMessage
  <1>5. RowsInv'
    BY <1>2, RowsByMessage DEF Opens
  <1>6. AttachedInv'
    <2>1. \A j \in PayIds, w \in Msgs : Attached(j, w)' => Attached(j, w)
      BY DEF Attached, Moves, Opens
    <2> QED
      BY <1>2, <2>1, AttachedLess DEF Opens
  <1>7. ActiveRowIsPaid'
    BY <1>2, ActiveRowsStay DEF Opens
  <1>8. AnswersInv'
    BY AnswersByMessage DEF Opens
  <1> QED
    BY <1>1, <1>4, <1>5, <1>6, <1>7, <1>8

LEMMA RpcRecords ==
  ASSUME RecordsInv, NEW p \in Msgs, RpcStep(p)
  PROVE  AnswersInv' /\ PayableInv' /\ GivenInv' /\ RowsInv' /\ AttachedInv' /\ ActiveRowIsPaid'
  <1>1. /\ Moves(p)
        /\ \/ Tells(p) \/ Turns(p) \/ Stores(p) \/ Opens(p)
           \/ \E k \in PayIds : Records(p, k)
    BY RpcShapes
  <1>2. AnswersInv' /\ PayableInv' /\ RowsInv' /\ AttachedInv' /\ ActiveRowIsPaid'
    BY <1>1, TellsRecords, TurnsRecords, StoresRecords, RecordsPayment, OpensRecords
  <1>3. \A k \in PayIds : stripe'[k].st \in {"paid", "ended"} =>
            stripe[k].st \in {"paid", "ended"} /\ stripe'[k].gid = stripe[k].gid
    <2>1. CASE Opens(p)
      BY <1>1, <2>1, OpensRecords
    <2>2. CASE ~Opens(p)
      BY <1>1, <2>2 DEF Tells, Turns, Stores, Records, SameSessions
    <2> QED
      BY <2>1, <2>2
  <1>4. GivenInv'
    BY <1>1, <1>3, GivenStays DEF Moves
  <1> QED
    BY <1>2, <1>4
-----------------------------------------------------------------------------
(* The webhook *)

LEMMA HookRecords ==
  ASSUME RecordsInv, NEW k \in PayIds, HookStep(k)
  PROVE  AnswersInv' /\ PayableInv' /\ GivenInv' /\ RowsInv' /\ AttachedInv' /\ ActiveRowIsPaid'
  <1> USE DEF gatewayVars, paymentsVars, stripeVars, tableVars
  <1>0. /\ AnswersInv /\ PayableInv /\ RowsInv /\ AttachedInv /\ ActiveRowIsPaid /\ SessionsInv
        /\ rpc \in [Msgs -> Message] /\ lis \in [Events -> Listener]
        /\ hook \in [PayIds -> Webhook] /\ hook[k] \in Webhook
        /\ prow \in [Msgs -> Row] /\ pays \in [PayIds -> Payment]
        /\ TypeOK
    BY DEF RecordsInv, IInv, TypeOK
  <1>1. UNCHANGED <<req, rpc, stripe>>
    BY DEF HookStep, HookRead, HookSaveRow, HookFindPay, HookSavePay, HookEmit
  <1>2. hook[k].pc # "idle" /\ stripe[k].st \in {"paid", "ended"}
    <2>1. hook[k].pc # "idle"
      BY DEF HookStep, HookRead, HookSaveRow, HookFindPay, HookSavePay, HookEmit
    <2> QED
      BY <1>0, <2>1 DEF SessionsInv
  <1>3. AnswersInv'
    <2>1. \A e \in Events : lis'[e].st \in {"none", "queued", "find"} =>
            lis[e].st \in {"none", "queued", "find"}
      <3>1. CASE UNCHANGED lis
        BY <3>1
      <3>2. CASE HookEmit(k)
        <4>1. PICK e \in Events :
                /\ lis[e].st = "none"
                /\ lis' = [lis EXCEPT ![e] = [st |-> "queued", gid |-> stripe[k].gid,
                                              ext |-> k, prev |-> None]]
          BY <3>2 DEF HookEmit
        <4> QED
          BY <1>0, <4>1
      <3> QED
        BY <3>1, <3>2 DEF HookStep, HookRead, HookSaveRow, HookFindPay, HookSavePay
    <2> QED
      BY <1>0, <1>1, <2>1 DEF AnswersInv
  <1>4. GivenInv'
    BY <1>1, GivenStays
  <1>5. \A j \in PayIds : pays[j].st # "none" => pays'[j].st # "none"
    <2>1. CASE HookSaveRow(k)
      BY <1>0, <2>1, SaveRowKeeps DEF HookSaveRow
    <2>2. CASE HookSavePay(k)
      BY <1>0, <2>2 DEF HookSavePay, Payment
    <2> QED
      BY <2>1, <2>2 DEF HookStep, HookRead, HookFindPay, HookEmit
  <1>6. PaymentsStay
    BY <1>1, <1>5 DEF PaymentsStay
  <1>7. PayableInv'
    <2>1. \A p \in Msgs : rpc[p].pay # None => rpc[p].pay \in PayIds
      BY <1>0 DEF Message, MaybePay
    <2>2. ASSUME NEW p \in Msgs
          PROVE  Payable(p)'
      BY <1>0, <1>1, <1>5, <2>1 DEF PayableInv, Payable, Paid
    <2> QED
      BY <1>0, <1>1, <2>2 DEF PayableInv
  \* Only the delivery of k moves; what RowsInv says of it is to be shown.
  <1>8. ASSUME RowsKeep,
               \A w \in Msgs : prow'[w].status # "none" => prow[w].status # "none",
               \A j \in PayIds \ {k} : hook'[j] = hook[j],
               hook'[k].pc \in {"save", "findpay", "savepay"} =>
                  /\ hook'[k].row \in Msgs /\ prow'[hook'[k].row].status # "none"
                  /\ prow'[hook'[k].row].gid = stripe[k].gid,
               hook'[k].pc = "save" => hook'[k].snap.gid = stripe[k].gid
        PROVE  RowsInv'
    <2>1. \A w \in Msgs :
            prow'[w].status # "none" => rpc'[w].st # "none" /\ prow'[w].gid = rpc'[w].gid
      BY <1>0, <1>1, <1>8 DEF RowsInv, RowsKeep
    <2>2. \A p \in Msgs :
            /\ rpc'[p].st = "insert" => prow'[p].status = "none"
            /\ rpc'[p].st \in {"saverow", "savepay"} =>
                 rpc'[p].row \in Msgs /\ prow'[rpc'[p].row].status # "none"
            /\ rpc'[p].st = "saverow" =>
                 rpc'[p].snap.status = "pending" /\ rpc'[p].snap.gid = prow'[rpc'[p].row].gid
      BY <1>0, <1>1, <1>8 DEF RowsInv, Stored, RowsKeep
    <2>3. \A j \in PayIds :
            /\ hook'[j].pc \in {"save", "findpay", "savepay"} =>
                 /\ hook'[j].row \in Msgs /\ prow'[hook'[j].row].status # "none"
                 /\ prow'[hook'[j].row].gid = stripe'[j].gid
            /\ hook'[j].pc = "save" => hook'[j].snap.gid = stripe'[j].gid
      BY <1>0, <1>1, <1>8 DEF RowsInv, Stored, RowsKeep
    <2> QED
      BY <2>1, <2>2, <2>3 DEF RowsInv, Stored
  <1>9. ASSUME UNCHANGED <<prow, pays>>, RowsInv',
               \A j \in PayIds, w \in Msgs : Attached(j, w)' => Attached(j, w)
        PROVE  RowsInv' /\ AttachedInv' /\ ActiveRowIsPaid'
    BY <1>6, <1>9, AttachedLess, ActiveRowsStay DEF RowsKeep
  <1>10. ASSUME HookReturns(k) /\ UNCHANGED <<prow, pays>>
         PROVE  RowsInv' /\ AttachedInv' /\ ActiveRowIsPaid'
    <2>1. hook'[k].pc = "done" /\ \A j \in PayIds \ {k} : hook'[j] = hook[j]
      BY <1>0, <1>10 DEF HookReturns, IdleHook
    <2>2. RowsInv'
      BY <1>8, <1>10, <2>1 DEF RowsKeep
    <2>3. \A j \in PayIds, w \in Msgs : Attached(j, w)' => Attached(j, w)
      BY <1>1, <1>10, <2>1 DEF Attached
    <2> QED
      BY <1>9, <1>10, <2>2, <2>3
  <1>11. ASSUME NEW w \in RowsFor(stripe[k].gid), UNCHANGED <<prow, pays>>,
                hook' = [hook EXCEPT ![k] = [@ EXCEPT !.pc = "save", !.row = w,
                                       !.snap = prow[w], !.loaded = PaymentsOf(w)]]
         PROVE  RowsInv' /\ AttachedInv' /\ ActiveRowIsPaid'
    <2>1. /\ hook'[k].pc = "save" /\ hook'[k].row = w /\ hook'[k].snap = prow[w]
          /\ hook'[k].loaded = PaymentsOf(w)
          /\ \A j \in PayIds \ {k} : hook'[j] = hook[j]
      BY <1>0, <1>11 DEF Webhook
    <2>2. w \in Msgs /\ prow[w].status # "none" /\ prow[w].gid = stripe[k].gid
      BY DEF RowsFor
    <2>3. RowsInv'
      BY <1>8, <1>11, <2>1, <2>2 DEF RowsKeep
    <2>4. \A j \in PayIds, v \in Msgs : Attached(j, v)' => Attached(j, v)
      BY <1>1, <1>11, <2>1 DEF Attached, PaymentsOf
    <2> QED
      BY <1>9, <1>11, <2>3, <2>4
  <1>12. ASSUME NEW j \in PaymentsOf(hook[k].row), hook[k].pc = "findpay",
                UNCHANGED <<prow, pays>>,
                hook' = [hook EXCEPT ![k] = [@ EXCEPT !.pc = "savepay", !.pay = j]]
         PROVE  RowsInv' /\ AttachedInv' /\ ActiveRowIsPaid'
    <2>1. /\ hook'[k].pc = "savepay" /\ hook'[k].row = hook[k].row /\ hook'[k].pay = j
          /\ \A i \in PayIds \ {k} : hook'[i] = hook[i]
      BY <1>0, <1>12 DEF Webhook
    <2>2. RowsInv'
      BY <1>0, <1>8, <1>12, <2>1 DEF RowsKeep, RowsInv, Stored
    <2>3. j \in PayIds /\ pays[j].row = hook[k].row
      BY DEF PaymentsOf
    <2>4. \A i \in PayIds, v \in Msgs : Attached(i, v)' => Attached(i, v)
      BY <1>1, <1>12, <2>1, <2>3 DEF Attached
    <2> QED
      BY <1>9, <1>12, <2>2, <2>4
  <1>13. ASSUME HookSaveRow(k)
         PROVE  RowsInv' /\ AttachedInv' /\ ActiveRowIsPaid'
    <2> DEFINE x == hook[k].row
    <2>1. /\ hook[k].pc = "save"
          /\ SaveRow(x, [hook[k].snap EXCEPT !.status = "active", !.ext = k], hook[k].loaded)
          /\ hook' = [hook EXCEPT ![k].pc = IF hook[k].loaded = {} THEN "emit" ELSE "findpay"]
      BY <1>13 DEF HookSaveRow
    <2>2. /\ x \in Msgs /\ prow[x].status # "none" /\ prow[x].gid = stripe[k].gid
          /\ hook[k].snap.gid = stripe[k].gid /\ hook[k].snap \in Row
      BY <1>0, <2>1 DEF RowsInv, Stored, Webhook
    <2>3. /\ prow'[x].status = "active" /\ prow'[x].ext = k /\ prow'[x].gid = stripe[k].gid
          /\ \A w \in Msgs \ {x} : prow'[w] = prow[w]
      BY <1>0, <2>1, <2>2 DEF SaveRow, Row
    <2>4. /\ hook'[k].pc \in {"emit", "findpay"} /\ hook'[k].row = x
          /\ \A j \in PayIds \ {k} : hook'[j] = hook[j]
      BY <1>0, <2>1 DEF Webhook
    <2>5. RowsKeep
      BY <2>2, <2>3 DEF RowsKeep
    <2>6. RowsInv'
      BY <1>8, <2>2, <2>3, <2>4, <2>5
    <2>7. ASSUME NEW j \in PayIds, NEW w \in Msgs, Attached(j, w)'
          PROVE  Attached(j, w)
      <3>1. CASE pays'[j].row = w
        <4>1. \/ pays'[j] = pays[j]
              \/ pays'[j] = [pays[j] EXCEPT !.row = x] /\ j \in hook[k].loaded
              \/ pays'[j] = [pays[j] EXCEPT !.row = None]
          BY <2>1 DEF SaveRow
        <4>2. w # None /\ pays[j] \in Payment
          BY <1>0, NamesAssumption
        <4>3. pays[j].row = w \/ (x = w /\ j \in hook[k].loaded)
          BY <3>1, <4>1, <4>2 DEF Payment
        <4> QED
          BY <2>1, <4>3 DEF Attached
      <3>2. CASE pays'[j].row # w
        BY <1>1, <2>4, <2>7, <3>2 DEF Attached
      <3> QED
        BY <3>1, <3>2
    <2>8. \A j \in PayIds : pays'[j].st = pays[j].st /\ pays'[j].charge = pays[j].charge
      BY <1>0, <2>1 DEF SaveRow, Payment
    <2>9. AttachedInv'
      BY <1>6, <2>5, <2>7, <2>8, AttachedLess
    <2>10. ActiveRowIsPaid'
      BY <1>0, <1>1, <1>2, <2>3 DEF ActiveRowIsPaid, Paid
    <2> QED
      BY <2>6, <2>9, <2>10
  <1>14. ASSUME HookSavePay(k)
         PROVE  RowsInv' /\ AttachedInv' /\ ActiveRowIsPaid'
    <2> DEFINE i == hook[k].pay
               x == hook[k].row
    <2>1. /\ hook[k].pc = "savepay" /\ UNCHANGED prow
          /\ pays' = [pays EXCEPT ![i] = [@ EXCEPT !.st = "succeeded", !.charge = k]]
          /\ hook' = [hook EXCEPT ![k].pc = "emit"]
      BY <1>14 DEF HookSavePay
    <2>2. /\ hook'[k].pc = "emit"
          /\ \A j \in PayIds \ {k} : hook'[j] = hook[j]
      BY <1>0, <2>1 DEF Webhook
    <2>3. RowsInv'
      BY <1>8, <2>1, <2>2 DEF RowsKeep
    <2>4. /\ \A j \in PayIds : pays'[j].row = pays[j].row
          /\ \A j \in PayIds \ {i} : pays'[j] = pays[j]
          /\ i \in PayIds => pays'[i].st = "succeeded" /\ pays'[i].charge = k
      BY <1>0, <2>1 DEF Payment
    <2>5. x \in Msgs /\ prow[x].gid = stripe[k].gid
      BY <1>0, <2>1 DEF RowsInv, Stored
    <2>6. \A j \in PayIds, w \in Msgs : Attached(j, w)' => Attached(j, w)
      BY <1>1, <2>2, <2>4 DEF Attached
    <2>7. i \in PayIds => Attached(i, x)
      BY <2>1 DEF Attached
    <2>8. ASSUME NEW j \in PayIds, NEW w \in Msgs, Attached(j, w)'
          PROVE  /\ pays'[j].st # "none" /\ Stored(w)
                 /\ pays'[j].st = "succeeded" => Paid(pays'[j].charge, prow[w].gid)
                 /\ \A v \in Msgs : Attached(j, v)' => v = w
      <3>1. /\ Attached(j, w)
            /\ \A v \in Msgs : Attached(j, v)' => v = w
        BY <1>0, <2>6, <2>8 DEF AttachedInv
      <3>2. CASE j = i
        <4>1. w = x /\ Stored(w)
          BY <1>0, <2>5, <2>7, <3>1, <3>2 DEF AttachedInv
        <4> QED
          BY <1>2, <2>4, <2>5, <3>1, <3>2, <4>1 DEF Paid
      <3>3. CASE j # i
        BY <1>0, <2>4, <3>1, <3>3 DEF AttachedInv
      <3> QED
        BY <3>2, <3>3
    <2>9. AttachedInv'
      BY <1>1, <2>1, <2>8 DEF AttachedInv, Stored, Paid
    <2>10. ActiveRowIsPaid'
      BY <1>6, <2>1, ActiveRowsStay
    <2> QED
      BY <2>3, <2>9, <2>10
  <1>15. RowsInv' /\ AttachedInv' /\ ActiveRowIsPaid'
    <2>1. CASE HookRead(k)
      BY <1>10, <1>11, <2>1 DEF HookRead
    <2>2. CASE HookFindPay(k)
      <3>1. CASE HookReturns(k)
        BY <1>10, <2>2, <3>1 DEF HookFindPay
      <3>2. ASSUME NEW j \in PayIds, LastPending(hook[k].row, j),
                   hook' = [hook EXCEPT ![k] = [@ EXCEPT !.pc = "savepay", !.pay = j]]
            PROVE  RowsInv' /\ AttachedInv' /\ ActiveRowIsPaid'
        BY <1>12, <2>2, <3>2 DEF HookFindPay, LastPending, PendingPaymentsOf
      <3> QED
        BY <2>2, <3>1, <3>2 DEF HookFindPay
    <2>3. CASE HookEmit(k)
      BY <1>10, <2>3 DEF HookEmit
    <2> QED
      BY <1>13, <1>14, <2>1, <2>2, <2>3 DEF HookStep
  <1> QED
    BY <1>3, <1>4, <1>7, <1>15
-----------------------------------------------------------------------------
(* Stripe, clients, the clock and restarts of the payments service *)

LEMMA ExternalRecords ==
  ASSUME RecordsInv, NEW k \in PayIds, UserPays(k) \/ Redeliver(k) \/ PeriodEnds(k)
  PROVE  AnswersInv' /\ PayableInv' /\ GivenInv' /\ RowsInv' /\ AttachedInv' /\ ActiveRowIsPaid'
  <1> USE DEF gatewayVars, paymentsVars, stripeVars, tableVars
  <1>0. /\ AnswersInv /\ PayableInv /\ GivenInv /\ RowsInv /\ AttachedInv /\ SessionsInv
        /\ rpc \in [Msgs -> Message] /\ stripe \in [PayIds -> Session] /\ stripe[k] \in Session
        /\ hook \in [PayIds -> Webhook] /\ hook[k] \in Webhook
    BY DEF RecordsInv, IInv, TypeOK
  <1>1. UNCHANGED <<req, lis, rpc, prow, pays>>
    BY DEF UserPays, Redeliver, PeriodEnds
  <1>2. /\ \A j \in PayIds \ {k} : stripe'[j] = stripe[j] /\ hook'[j] = hook[j]
        /\ stripe'[k].gid = stripe[k].gid /\ stripe[k].st # "none" /\ stripe'[k].st # "none"
        /\ stripe[k].st \in {"paid", "ended"} => stripe'[k].st \in {"paid", "ended"}
        /\ hook'[k] = hook[k] \/ hook'[k].pc = "due"
    <2>1. CASE UserPays(k)
      BY <1>0, <2>1 DEF UserPays, Session, Webhook
    <2>2. CASE Redeliver(k)
      BY <1>0, <2>2 DEF Redeliver, SessionsInv, IdleHook
    <2>3. CASE PeriodEnds(k)
      BY <1>0, <2>3 DEF PeriodEnds, Session
    <2> QED
      BY <2>1, <2>2, <2>3
  <1>3. /\ PaymentsStay /\ RowsKeep
        /\ \A j \in PayIds : stripe'[j].gid = stripe[j].gid
        /\ \A j \in PayIds : stripe'[j].st = "none" <=> stripe[j].st = "none"
    BY <1>1, <1>2 DEF PaymentsStay, RowsKeep
  <1>4. AnswersInv'
    BY <1>0, <1>1 DEF AnswersInv
  <1>5. PayableInv'
    <2>1. \A p \in Msgs : rpc[p].pay # None => rpc[p].pay \in PayIds
      BY <1>0 DEF Message, MaybePay
    <2>2. ASSUME NEW p \in Msgs, rpc[p].reply = "null"
          PROVE  \E j \in PayIds : stripe'[j].st \in {"paid", "ended"} /\ stripe'[j].gid = rpc[p].gid
      BY <1>0, <1>3, <2>2 DEF PayableInv, Payable, Paid, PaymentsStay
    <2>3. ASSUME NEW p \in Msgs
          PROVE  Payable(p)'
      BY <1>0, <1>1, <1>3, <2>1, <2>2 DEF PayableInv, Payable, Paid
    <2> QED
      BY <1>0, <1>1, <2>3 DEF PayableInv
  <1>6. GivenInv'
    <2>1. CASE UserPays(k)
      <3>1. PICK r \in CreateReqs : req[r].res = "url" /\ rpc[r].pay = k
        BY <2>1 DEF UserPays
      <3>2. rpc[r].reply = "url" /\ Payable(r) /\ rpc[r] \in Message /\ k # None
        BY <1>0, <3>1, NamesAssumption DEF AnswersInv, PayableInv
      <3>3. rpc[r].st # "none" /\ rpc[r].gid = req[r].sub
        BY <1>0, <3>2 DEF AnswersInv, Payable
      <3>4. rpc[r].prov = "STRIPE"
        BY <1>2, <3>1, <3>2 DEF Payable, Message
      <3>5. stripe[k].gid = req[r].sub
        BY <3>1, <3>2, <3>3, <3>4 DEF Payable
      <3> QED
        BY <1>0, <1>1, <1>2, <3>1, <3>5 DEF GivenInv
    <2>2. CASE Redeliver(k) \/ PeriodEnds(k)
      <3>1. stripe'[k].st \in {"paid", "ended"} => stripe[k].st \in {"paid", "ended"}
        BY <2>2 DEF Redeliver, PeriodEnds
      <3> QED
        BY <1>1, <1>2, <3>1, GivenStays
    <2> QED
      BY <2>1, <2>2
  <1>7. RowsInv'
    BY <1>0, <1>1, <1>2 DEF RowsInv, Stored
  <1>8. AttachedInv'
    <2>1. \A j \in PayIds, w \in Msgs : Attached(j, w)' => Attached(j, w)
      BY <1>1, <1>2 DEF Attached
    <2> QED
      BY <1>1, <1>3, <2>1, AttachedLess
  <1>9. ActiveRowIsPaid'
    BY <1>1, <1>3, ActiveRowsStay
  <1> QED
    BY <1>4, <1>5, <1>6, <1>7, <1>8, <1>9

LEMMA PaymentsCrashRecords ==
  ASSUME RecordsInv, PaymentsCrash
  PROVE  AnswersInv' /\ PayableInv' /\ GivenInv' /\ RowsInv' /\ AttachedInv' /\ ActiveRowIsPaid'
  <1> USE DEF gatewayVars, stripeVars, tableVars
  <1>0. /\ AnswersInv /\ PayableInv /\ GivenInv /\ RowsInv /\ AttachedInv /\ ActiveRowIsPaid
        /\ rpc \in [Msgs -> Message] /\ hook \in [PayIds -> Webhook]
    BY DEF RecordsInv, IInv, TypeOK
  <1>1. UNCHANGED <<req, lis, prow, pays, stripe>>
    BY DEF PaymentsCrash
  <1>2. \A p \in Msgs :
          \/ rpc'[p] = rpc[p]
          \/ /\ rpc[p].st \notin {"none", "acked"} /\ rpc'[p].st = "queued"
             /\ rpc'[p].pay = None /\ rpc'[p].reply = rpc[p].reply
             /\ rpc'[p].gid = rpc[p].gid /\ rpc'[p].prov = rpc[p].prov
    <2> TAKE p \in Msgs
    <2>1. CASE rpc[p].st \in Handling \cup {"held"}
      <3>1. rpc'[p] = [rpc[p] EXCEPT !.st = "queued", !.row = None, !.snap = NoRow,
                                     !.loaded = {}, !.pay = None]
        BY <2>1 DEF PaymentsCrash
      <3>2. rpc[p] \in Message /\ rpc[p].st \notin {"none", "acked"}
        BY <1>0, <2>1 DEF Handling
      <3> QED
        BY <3>1, <3>2 DEF Message
    <2>2. CASE rpc[p].st \notin Handling \cup {"held"}
      BY <2>2 DEF PaymentsCrash
    <2> QED
      BY <2>1, <2>2
  <1>3. \A k \in PayIds : hook'[k] = hook[k] \/ hook'[k].pc = "due"
    BY DEF PaymentsCrash, IdleHook
  <1>4. AnswersInv'
    BY <1>0, <1>1, <1>2 DEF AnswersInv
  <1>5. PayableInv'
    <2>1. ASSUME NEW p \in Msgs
          PROVE  Payable(p)'
      <3>1. Payable(p)
        BY <1>0 DEF PayableInv
      <3>2. CASE rpc'[p] = rpc[p]
        BY <1>1, <3>1, <3>2 DEF Payable, Paid
      <3>3. CASE rpc'[p] # rpc[p]
        <4>1. /\ rpc[p].st \notin {"none", "acked"} /\ rpc'[p].st = "queued"
              /\ rpc'[p].pay = None /\ rpc'[p].reply = rpc[p].reply
              /\ rpc'[p].gid = rpc[p].gid /\ rpc'[p].prov = rpc[p].prov
          BY <1>2, <3>3
        <4>2. rpc[p].reply # "url"
          BY <3>1, <4>1 DEF Payable
        <4> QED
          BY <1>1, <3>1, <4>1, <4>2 DEF Payable, Paid
      <3> QED
        BY <3>2, <3>3
    <2>2. \A p \in Msgs : rpc'[p].pay # None => rpc'[p] = rpc[p]
      BY <1>2
    <2>3. ASSUME NEW p \in Msgs, NEW q \in Msgs, p # q, rpc'[p].pay # None
          PROVE  rpc'[p].pay # rpc'[q].pay
      <3>1. rpc'[p] = rpc[p] /\ (rpc'[q] = rpc[q] \/ rpc'[q].pay = None)
        BY <1>2, <2>2, <2>3
      <3> QED
        BY <1>0, <2>3, <3>1 DEF PayableInv
    <2> QED
      BY <2>1, <2>3 DEF PayableInv
  <1>6. GivenInv'
    BY <1>1, GivenStays
  <1>7. RowsInv'
    BY <1>0, <1>1, <1>2, <1>3 DEF RowsInv, Stored
  <1>8. AttachedInv'
    <2>1. \A j \in PayIds, w \in Msgs : Attached(j, w)' => Attached(j, w)
      <3>1. \A p \in Msgs : rpc'[p].st = "saverow" => rpc'[p] = rpc[p]
        BY <1>2
      <3> QED
        BY <1>1, <1>3, <3>1 DEF Attached
    <2> QED
      BY <1>0, <1>1, <2>1 DEF AttachedInv, Stored, Paid
  <1>9. ActiveRowIsPaid'
    BY <1>0, <1>1 DEF ActiveRowIsPaid, Paid
  <1> QED
    BY <1>4, <1>5, <1>6, <1>7, <1>8, <1>9
-----------------------------------------------------------------------------
LEMMA StepRecords == RecordsInv /\ [Next]_vars => RecordsInv'
  <1> SUFFICES ASSUME RecordsInv, [Next]_vars PROVE RecordsInv'
    OBVIOUS
  <1>1. IInv'
    BY StepInv DEF RecordsInv
  <1>2. ASSUME NEW r \in Reqs, Arrive(r) \/ GatewayStep(r)
        PROVE  RecordsInv'
    <2>1. /\ AnswersInv' /\ MessagesSent
          /\ UNCHANGED <<prow, pays, hook, stripe>>
          /\ \A q \in Reqs : req[q].pc = "done" => req'[q] = req[q]
      BY <1>2, RequestRecords
    <2> QED
      BY <1>1, <2>1, SentKeeps, GivenStays DEF RecordsInv
  <1>3. ASSUME NEW e \in Events, ListenerStep(e)
        PROVE  RecordsInv'
    <2>1. AnswersInv' /\ MessagesSent /\ UNCHANGED <<prow, pays, hook, stripe, req>>
      BY <1>3, ListenerRecords
    <2> QED
      BY <1>1, <2>1, SentKeeps, GivenStays DEF RecordsInv
  <1>4. CASE GatewayCrash
    <2>1. /\ AnswersInv' /\ MessagesSent
          /\ UNCHANGED <<prow, pays, hook, stripe>>
          /\ \A q \in Reqs : req[q].pc = "done" => req'[q] = req[q]
      BY <1>4, GatewayCrashRecords
    <2> QED
      BY <1>1, <2>1, SentKeeps, GivenStays DEF RecordsInv
  <1>5. CASE UNCHANGED vars
    <2>1. AnswersInv' /\ GivenInv'
      BY <1>5 DEF vars, RecordsInv, AnswersInv, GivenInv
    <2>2. MessagesSent /\ UNCHANGED <<prow, pays, hook, stripe>>
      BY <1>5 DEF vars, MessagesSent
    <2> QED
      BY <1>1, <2>1, <2>2, SentKeeps DEF RecordsInv
  <1>6. ASSUME NEW p \in Msgs, RpcStep(p) PROVE RecordsInv'
    BY <1>1, <1>6, RpcRecords DEF RecordsInv
  <1>7. ASSUME NEW k \in PayIds, HookStep(k) PROVE RecordsInv'
    BY <1>1, <1>7, HookRecords DEF RecordsInv
  <1>8. ASSUME NEW k \in PayIds, UserPays(k) \/ Redeliver(k) \/ PeriodEnds(k)
        PROVE  RecordsInv'
    BY <1>1, <1>8, ExternalRecords DEF RecordsInv
  <1>9. CASE PaymentsCrash
    BY <1>1, <1>9, PaymentsCrashRecords DEF RecordsInv
  <1> QED
    BY <1>2, <1>3, <1>4, <1>5, <1>6, <1>7, <1>8, <1>9 DEF Next

\* What the payments service's tables and the answers in flight may rely on.
THEOREM RecordsInvariant == Spec => []RecordsInv
  <1> QED
    BY InitRecords, StepRecords, PTL DEF Spec

\* However reads, saves, redeliveries and restarts interleave, the payments
\* service marks a row active only under a subscription paid for that row.
THEOREM ActiveRowOnlyIfPaid == Spec => []ActiveRowIsPaid
  <1>1. RecordsInv => ActiveRowIsPaid
    BY DEF RecordsInv
  <1> QED
    BY <1>1, RecordsInvariant, PTL

\* A payment that succeeded stays with the row its charge was paid for,
\* whatever stale entity is saved over the rows meanwhile.
THEOREM SucceededOnlyIfPaid == Spec => []SucceededIsPaid
  <1>1. RecordsInv => SucceededIsPaid
    <2> SUFFICES ASSUME RecordsInv, NEW j \in PayIds, pays[j].st = "succeeded",
                        pays[j].row # None
                 PROVE  Paid(pays[j].charge, prow[pays[j].row].gid)
      BY DEF SucceededIsPaid
    <2>1. pays[j].row \in Msgs
      BY DEF RecordsInv, IInv, TypeOK, Payment
    <2>2. Attached(j, pays[j].row)
      BY DEF Attached
    <2> QED
      BY <2>1, <2>2 DEF RecordsInv, AttachedInv
  <1> QED
    BY <1>1, RecordsInvariant, PTL

\* A client is told that the user already has a subscription only when the row
\* he asked a session for was paid for.
THEOREM ConflictOnlyIfPaid == Spec => []ConflictMeansPaid
  <1>1. RecordsInv => ConflictMeansPaid
    <2> SUFFICES ASSUME RecordsInv, NEW r \in CreateReqs, req[r].res = "conflict"
                 PROVE  \E k \in PayIds : Paid(k, req[r].sub)
      BY DEF ConflictMeansPaid
    <2>1. rpc[r].reply = "null" /\ Payable(r)
      BY DEF RecordsInv, AnswersInv, PayableInv
    <2>2. rpc[r].st # "none" /\ rpc[r].gid = req[r].sub
      BY <2>1 DEF RecordsInv, AnswersInv, Payable
    <2> QED
      BY <2>1, <2>2 DEF Payable
  <1> QED
    BY <1>1, RecordsInvariant, PTL

\* The Stripe URL a client is given is that of a session opened for the row his
\* request used, by the very execution that was acknowledged.
THEOREM UrlsArePayable == Spec => []UrlIsPayable
  <1>1. RecordsInv => UrlIsPayable
    <2> SUFFICES ASSUME RecordsInv, NEW r \in CreateReqs, req[r].res = "url",
                        req[r].prov = "STRIPE"
                 PROVE  /\ rpc[r].pay \in PayIds
                        /\ stripe[rpc[r].pay].st # "none"
                        /\ stripe[rpc[r].pay].gid = req[r].sub
      BY DEF UrlIsPayable
    <2>1. rpc[r].reply = "url" /\ Payable(r) /\ rpc[r] \in Message
      BY DEF RecordsInv, AnswersInv, PayableInv, IInv, TypeOK
    <2>2. rpc[r].st # "none" /\ rpc[r].gid = req[r].sub /\ rpc[r].prov = "STRIPE"
      BY <2>1 DEF RecordsInv, AnswersInv, Payable
    <2> QED
      BY <2>1, <2>2 DEF Payable, Message, MaybePay
  <1> QED
    BY <1>1, RecordsInvariant, PTL
-----------------------------------------------------------------------------
(* The clean-up of a request that got no session *)

LEMMA StepLosesReused ==
  ASSUME RecordsInv, Next, NEW s \in CreateReqs,
         subs[s].status = "ACTIVE", subs'[s].status = "deleted"
  PROVE  /\ req[s].pc = "wait" /\ req'[s].res \in {"conflict", "error"}
         /\ \E r \in CreateReqs \ {s} : req[r].sub = s
  <1> USE DEF gatewayVars, paymentsVars, stripeVars, tableVars
  <1>0. /\ subs \in [CreateReqs -> Subscription] /\ subs[s] \in Subscription
        /\ req \in [Reqs -> Request]
        /\ RequestsInv /\ ActiveIsPaid /\ GivenInv /\ AnswersInv
    BY DEF RecordsInv, IInv, TypeOK
  <1>1. subs' # subs
    OBVIOUS
  \* Whatever else changes rows leaves an ACTIVE one ACTIVE.
  <1>2. \E r \in CreateReqs : CreateReply(r)
    <2>1. \A r \in Reqs : (r \in CreateReqs /\ CreateInsert(r)) => FALSE
      <3> SUFFICES ASSUME NEW r \in CreateReqs, CreateInsert(r) PROVE FALSE
        OBVIOUS
      <3>1. subs' = [subs EXCEPT ![r] = [status |-> "PENDING", auto |-> TRUE, ext |-> None]]
        BY DEF CreateInsert, InsertPending
      <3> QED
        BY <1>0, <3>1
    <2>2. \A r \in Reqs : RenewalReply(r) => FALSE
      <3> SUFFICES ASSUME NEW r \in Reqs, RenewalReply(r) PROVE FALSE
        OBVIOUS
      <3>1. subs' = [subs EXCEPT ![req[r].sub].auto = Wanted(r)]
        BY <1>1 DEF RenewalReply
      <3> QED
        BY <1>0, <3>1 DEF Subscription
    <2>3. \A e \in Events : ListenerStep(e) => FALSE
      <3> SUFFICES ASSUME NEW e \in Events, ListenerStep(e) PROVE FALSE
        OBVIOUS
      <3>1. \/ subs' = [subs EXCEPT ![lis[e].gid] = [@ EXCEPT !.status = "ACTIVE",
                                                              !.ext = lis[e].ext]]
            \/ subs' = [subs EXCEPT ![lis[e].prev].auto = FALSE]
        BY <1>1 DEF ListenerStep, ActivateUpdate, ActivateFindPrev, ActivateDisabled,
                    ActivateUpgrade
      <3>2. CASE subs' = [subs EXCEPT ![lis[e].gid] = [@ EXCEPT !.status = "ACTIVE",
                                                                !.ext = lis[e].ext]]
        BY <1>0, <3>2 DEF Subscription
      <3>3. CASE subs' = [subs EXCEPT ![lis[e].prev].auto = FALSE]
        BY <1>0, <3>3 DEF Subscription
      <3> QED
        BY <3>1, <3>2, <3>3
    <2>4. \A r \in Reqs : /\ r \in CreateReqs /\ CreateFindPending(r) => FALSE
                          /\ r \in CreateReqs /\ CreateTouch(r) => FALSE
                          /\ r \in RenewalReqs /\ RenewalFind(r) => FALSE
      BY <1>1 DEF CreateFindPending, CreateTouch, RenewalFind
    <2>5. \A p \in Msgs : RpcStep(p) => FALSE
      BY <1>1 DEF RpcStep, PayFind, PaySaveRow, PayInsertRow, PaySavePayment, PaySession,
                  PayAnswer, RenewStripe, RenewDb, DisableDb, EnableDb, RenewRows
    <2>6. \A k \in PayIds : HookStep(k) => FALSE
      BY <1>1 DEF HookStep, HookRead, HookSaveRow, HookFindPay, HookSavePay, HookEmit
    <2>7. \A k \in PayIds : UserPays(k) \/ Redeliver(k) \/ PeriodEnds(k) => FALSE
      BY <1>1 DEF UserPays, Redeliver, PeriodEnds
    <2>8. ~GatewayCrash /\ ~PaymentsCrash
      BY <1>1 DEF GatewayCrash, PaymentsCrash
    <2> QED
      BY <2>1, <2>2, <2>3, <2>4, <2>5, <2>6, <2>7, <2>8
         DEF Next, Arrive, GatewayStep, CreateStep
  <1>3. PICK r \in CreateReqs : CreateReply(r)
    BY <1>2
  <1>4. req[r].pc = "wait" /\ CleanUp(r) /\ req'[r].res \in {"conflict", "error"}
    <2>1. req[r].pc = "wait" /\ CleanUp(r) /\ (Finish(r, "conflict") \/ Finish(r, "error"))
      BY <1>1, <1>3 DEF CreateReply
    <2> QED
      BY <1>0, <2>1 DEF Finish, Request
  <1>5. r = s
    <2>1. req[r].fresh /\ req[r].sub = r
      BY <1>0, <1>1, <1>4 DEF CleanUp, RequestsInv
    <2>2. subs' = [subs EXCEPT ![r].status = "deleted"]
      BY <1>4, <2>1 DEF CleanUp
    <2> QED
      BY <1>0, <2>2
  \* Someone paid for the row, so another request handed out its URL.
  <1>6. PICK q \in CreateReqs : req[q].res = "url" /\ req[q].sub = s
    <2>1. Paid(subs[s].ext, s)
      BY <1>0 DEF ActiveIsPaid
    <2> QED
      BY <1>0, <2>1 DEF GivenInv, Paid
  <1>7. q # s
    BY <1>0, <1>4, <1>5, <1>6 DEF AnswersInv
  <1> QED
    BY <1>4, <1>5, <1>6, <1>7

\* An active row is deleted only by the clean-up of the request that inserted
\* it, and only after another request had taken the row for its own.
THEOREM ActiveIsNotLost == Spec => ActiveNeverDeleted
  <1>1. RecordsInv /\ [Next]_vars => [LosesReusedOnly]_vars
    BY StepLosesReused DEF LosesReusedOnly
  <1> QED
    BY <1>1, RecordsInvariant, PTL DEF Spec, ActiveNeverDeleted
=============================================================================
