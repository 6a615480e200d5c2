------------------------ MODULE BillingRenewalProofs ------------------------
(***************************************************************************)
(* Auto-renewal, for every number of users, requests, payments and faults: *)
(* RenewalInv is inductive, and from it follow what the three services     *)
(* agree on about a row and which rows of a user are left renewing.        *)
(***************************************************************************)
EXTENDS BillingRecordsProofs

USE DEF PayIds, Reqs, RenewalReqs, Msgs

(* The steps of the gateway, field by field *)

\* One message is sent, under a name that was not used.
Sent(p, kind, gid, ext) ==
    /\ rpc[p].st = "none"
    /\ rpc'[p].st = "queued" /\ rpc'[p].reply = "none"
    /\ rpc'[p].kind = kind /\ rpc'[p].gid = gid /\ rpc'[p].ext = ext
    /\ \A q \in Msgs \ {p} : rpc'[q] = rpc[q]

\* Only request r moves.
OnlyReq(r) ==
    /\ UNCHANGED <<lis, prow, hook, stripe, lapsed, faults>>
    /\ req[r].pc # "done" /\ \A q \in Reqs \ {r} : req'[q] = req[q]

\* A create request may ask for a session, insert its row or delete it.
Creates(r) ==
    /\ OnlyReq(r)
    /\ rpc' = rpc \/ \E s : Sent(r, "create", s, None)
    /\ \A s \in CreateReqs :
         \/ subs'[s] = subs[s]
         \/ subs[s].status = "none" /\ subs'[s].status = "PENDING" /\ subs'[s].auto
         \/ subs[s].status # "none" /\ subs'[s].status = "deleted"

\* A renewal request ends without changing a row.
Ends(r) ==
    /\ OnlyReq(r) /\ UNCHANGED <<subs, rpc>>
    /\ req'[r].pc = "done" /\ req[r].res = "none" /\ req'[r].res # "ok"
    /\ \/ req[r].pc = "start"
       \/ /\ req[r].pc = "wait" /\ rpc[r].reply \in {"yes", "no"}
          /\ rpc[r].reply = "no" \/ ~Exists(req[r].sub)
    /\ \/ req'[r].sub = req[r].sub
       \/ req[r].pc = "start" /\ req'[r].sub \in ActiveOf(UserOf[r])

\* It sends its message about row s.
Asks(r, s) ==
    /\ OnlyReq(r) /\ UNCHANGED subs
    /\ s \in ActiveOf(UserOf[r]) /\ subs[s].auto # Wanted(r)
    /\ req[r].pc = "start" /\ req'[r].pc = "wait"
    /\ req'[r].sub = s /\ req'[r].res = "none"
    /\ Sent(r, RenewalKind(r), s, subs[s].ext)

\* It writes what the payments service has done.
Switches(r, s) ==
    /\ OnlyReq(r) /\ UNCHANGED rpc
    /\ s \in CreateReqs /\ Exists(s) /\ s = req[r].sub
    /\ req[r].pc = "wait" /\ rpc[r].reply = "yes"
    /\ req'[r].pc = "done" /\ req'[r].res = "ok" /\ req'[r].sub = s
    /\ subs'[s].status = subs[s].status /\ subs'[s].ext = subs[s].ext
    /\ subs'[s].auto = Wanted(r)
    /\ \A t \in CreateReqs \ {s} : subs'[t] = subs[t]

LEMMA PublishSent ==
  ASSUME RecordsInv, NEW p \in Msgs, NEW kind, NEW gid, NEW ext, NEW prov,
         rpc[p].st = "none", Publish(p, kind, gid, ext, prov)
  PROVE  Sent(p, kind, gid, ext)
  <1>1. rpc \in [Msgs -> Message]
    BY DEF RecordsInv, IInv, TypeOK
  <1> QED
    BY <1>1 DEF Publish, NoMessage, Sent

LEMMA FinishFields ==
  ASSUME RecordsInv, NEW r \in Reqs, NEW res, Finish(r, res)
  PROVE  /\ req'[r].pc = "done" /\ req'[r].res = res /\ req'[r].sub = req[r].sub
         /\ \A q \in Reqs \ {r} : req'[q] = req[q]
  <1>1. req \in [Reqs -> Request] /\ req[r] \in Request
    BY DEF RecordsInv, IInv, TypeOK
  <1> QED
    BY <1>1 DEF Finish, Request

LEMMA CreateShapes ==
  ASSUME RecordsInv, NEW r \in CreateReqs, CreateFindPending(r) \/ CreateStep(r)
  PROVE  Creates(r)
  <1> USE DEF gatewayVars, paymentsVars, stripeVars, tableVars
  <1>0. /\ req \in [Reqs -> Request] /\ req[r] \in Request
        /\ subs \in [CreateReqs -> Subscription]
        /\ r \in Reqs /\ r \in Msgs /\ AnswersInv /\ RequestsInv
    BY DEF RecordsInv, IInv, TypeOK
  <1>1. UNCHANGED <<lis, prow, hook, stripe, lapsed, faults>> /\ req[r].pc # "done"
    BY DEF CreateStep, CreateFindPending, CreateTouch, CreateInsert, CreateReply
  <1>2. CASE CreateFindPending(r)
    <2>1. UNCHANGED <<rpc, subs>> /\ \A q \in Reqs \ {r} : req'[q] = req[q]
      BY <1>0, <1>2 DEF CreateFindPending
    <2> QED
      BY <1>1, <2>1 DEF Creates, OnlyReq
  <1>3. CASE CreateTouch(r)
    <2>1. UNCHANGED subs /\ \A q \in Reqs \ {r} : req'[q] = req[q]
      BY <1>0, <1>3 DEF CreateTouch, Finish
    <2>2. rpc[r].st = "none"
      BY <1>0, <1>3 DEF CreateTouch, AnswersInv
    <2>3. rpc' = rpc \/ \E s : Sent(r, "create", s, None)
      BY <1>0, <1>3, <2>2, PublishSent DEF CreateTouch
    <2> QED
      BY <1>1, <2>1, <2>3 DEF Creates, OnlyReq
  <1>4. CASE CreateInsert(r)
    <2>1. subs[r].status = "none" /\ rpc[r].st = "none"
      BY <1>0, <1>4 DEF CreateInsert, AnswersInv, RequestsInv
    <2>2. /\ subs'[r].status = "PENDING" /\ subs'[r].auto
          /\ \A s \in CreateReqs \ {r} : subs'[s] = subs[s]
      BY <1>0, <1>4 DEF CreateInsert, InsertPending
    <2>3. Sent(r, "create", r, None)
      BY <1>0, <1>4, <2>1, PublishSent DEF CreateInsert
    <2>4. \A q \in Reqs \ {r} : req'[q] = req[q]
      BY <1>0, <1>4 DEF CreateInsert
    <2> QED
      BY <1>1, <2>1, <2>2, <2>3, <2>4 DEF Creates, OnlyReq
  <1>5. CASE CreateReply(r)
    <2>1. UNCHANGED rpc /\ \A q \in Reqs \ {r} : req'[q] = req[q]
      BY <1>0, <1>5, FinishFields DEF CreateReply
    <2>2. CASE UNCHANGED subs
      BY <1>1, <2>1, <2>2 DEF Creates, OnlyReq
    <2>3. CASE subs' # subs
      <3>1. /\ req[r].fresh /\ req[r].pc = "wait"
            /\ subs' = [subs EXCEPT ![req[r].sub].status = "deleted"]
        BY <1>5, <2>3 DEF CreateReply, CleanUp
      <3>2. req[r].sub = r /\ subs[r].status # "none"
        BY <1>0, <3>1 DEF RequestsInv, Exists
      <3>3. subs'[r].status = "deleted" /\ \A s \in CreateReqs \ {r} : subs'[s] = subs[s]
        BY <1>0, <3>1, <3>2 DEF Subscription
      <3> QED
        BY <1>1, <2>1, <3>2, <3>3 DEF Creates, OnlyReq
    <2> QED
      BY <2>2, <2>3
  <1> QED
    BY <1>2, <1>3, <1>4, <1>5 DEF CreateStep

LEMMA RenewalShapes ==
  ASSUME RecordsInv, NEW r \in RenewalReqs, RenewalFind(r) \/ RenewalReply(r)
  PROVE  Ends(r) \/ \E s \in CreateReqs : Asks(r, s) \/ Switches(r, s)
  <1> USE DEF gatewayVars, paymentsVars, stripeVars, tableVars
  <1>0. /\ req \in [Reqs -> Request] /\ req[r] \in Request
        /\ subs \in [CreateReqs -> Subscription]
        /\ r \in Reqs /\ r \in Msgs /\ AnswersInv /\ RequestsInv
    BY DEF RecordsInv, IInv, TypeOK
  <1>1. UNCHANGED <<lis, prow, hook, stripe, lapsed, faults>> /\ req[r].pc # "done"
    BY DEF RenewalFind, RenewalReply
  <1>2. req[r].res = "none"
    BY <1>0 DEF AnswersInv, RenewalFind, RenewalReply
  <1>3. ASSUME RenewalFind(r)
        PROVE  Ends(r) \/ \E s \in CreateReqs : Asks(r, s)
    <2>1. req[r].pc = "start" /\ rpc[r].st = "none" /\ UNCHANGED subs
      BY <1>0, <1>3 DEF RenewalFind, AnswersInv
    <2>2. CASE Finish(r, "notFound") /\ UNCHANGED rpc
      <3>1. /\ req'[r].pc = "done" /\ req'[r].res = "notFound" /\ req'[r].sub = req[r].sub
            /\ \A q \in Reqs \ {r} : req'[q] = req[q]
        BY <1>0, <2>2, FinishFields
      <3> QED
        BY <1>1, <1>2, <2>1, <2>2, <3>1 DEF Ends, OnlyReq
    <2>3. ASSUME NEW s \in ActiveOf(UserOf[r]), UNCHANGED rpc,
                 req' = [req EXCEPT ![r] = [@ EXCEPT !.pc = "done", !.res = "conflict", !.sub = s]]
          PROVE  Ends(r)
      <3>1. /\ req'[r].pc = "done" /\ req'[r].res = "conflict" /\ req'[r].sub = s
            /\ \A q \in Reqs \ {r} : req'[q] = req[q]
        BY <1>0, <2>3 DEF Request
      <3> QED
        BY <1>1, <1>2, <2>1, <2>3, <3>1 DEF Ends, OnlyReq
    <2>4. ASSUME NEW s \in ActiveOf(UserOf[r]), subs[s].auto # Wanted(r),
                 Publish(r, RenewalKind(r), s, subs[s].ext, "STRIPE"),
                 req' = [req EXCEPT ![r] = [@ EXCEPT !.pc = "wait", !.sub = s]]
          PROVE  s \in CreateReqs /\ Asks(r, s)
      <3>1. /\ req'[r].pc = "wait" /\ req'[r].res = req[r].res /\ req'[r].sub = s
            /\ \A q \in Reqs \ {r} : req'[q] = req[q]
        BY <1>0, <2>4 DEF Request
      <3>2. Sent(r, RenewalKind(r), s, subs[s].ext)
        BY <1>0, <2>1, <2>4, PublishSent
      <3>3. s \in CreateReqs
        BY <2>4 DEF ActiveOf
      <3> QED
        BY <1>1, <1>2, <2>1, <2>4, <3>1, <3>2, <3>3 DEF Asks, OnlyReq
    <2> QED
      BY <1>3, <2>2, <2>3, <2>4 DEF RenewalFind
  <1>4. ASSUME RenewalReply(r)
        PROVE  Ends(r) \/ \E s \in CreateReqs : Switches(r, s)
    <2>1. req[r].pc = "wait" /\ UNCHANGED rpc /\ req[r].sub \in CreateReqs
      BY <1>0, <1>4 DEF RenewalReply, RequestsInv
    <2>2. CASE /\ Finish(r, "refused") \/ Finish(r, "failed")
               /\ rpc[r].reply \in {"yes", "no"}
               /\ rpc[r].reply = "no" \/ ~Exists(req[r].sub)
               /\ UNCHANGED subs
      <3>1. /\ req'[r].pc = "done" /\ req'[r].res # "ok" /\ req'[r].sub = req[r].sub
            /\ \A q \in Reqs \ {r} : req'[q] = req[q]
        BY <1>0, <2>2, FinishFields
      <3> QED
        BY <1>1, <1>2, <2>1, <2>2, <3>1 DEF Ends, OnlyReq
    <2>3. CASE /\ Finish(r, "ok") /\ rpc[r].reply = "yes" /\ Exists(req[r].sub)
               /\ subs' = [subs EXCEPT ![req[r].sub].auto = Wanted(r)]
      <3> DEFINE s == req[r].sub
      <3>1. /\ req'[r].pc = "done" /\ req'[r].res = "ok" /\ req'[r].sub = req[r].sub
            /\ \A q \in Reqs \ {r} : req'[q] = req[q]
        BY <1>0, <2>3, FinishFields
      <3>2. /\ subs'[s].status = subs[s].status /\ subs'[s].ext = subs[s].ext
            /\ subs'[s].auto = Wanted(r)
            /\ \A t \in CreateReqs \ {s} : subs'[t] = subs[t]
        BY <1>0, <2>1, <2>3 DEF Subscription
      <3>3. Switches(r, s)
        BY <1>1, <2>1, <2>3, <3>1, <3>2 DEF Switches, OnlyReq
      <3> QED
        BY <2>1, <3>3
    <2> QED
      BY <1>4, <2>2, <2>3 DEF RenewalReply
  <1> QED
    BY <1>3, <1>4
-----------------------------------------------------------------------------
\* Only listener e moves, and keeps what its event names.
OnlyLis(e) ==
    /\ UNCHANGED <<req, prow, hook, stripe, lapsed, faults>>
    /\ lis'[e].gid = lis[e].gid /\ lis'[e].ext = lis[e].ext
    /\ \A f \in Events \ {e} : lis'[f] = lis[f]

Activates(e, s) ==
    /\ OnlyLis(e) /\ UNCHANGED rpc
    /\ s \in CreateReqs /\ s = lis[e].gid /\ Exists(s)
    /\ lis[e].st = "queued" /\ lis'[e].st = "find" /\ lis'[e].prev = lis[e].prev
    /\ subs'[s].status = "ACTIVE" /\ subs'[s].ext = lis[e].ext /\ subs'[s].auto = subs[s].auto
    /\ \A t \in CreateReqs \ {s} : subs'[t] = subs[t]

\* The event is dropped, or there is nothing to disable, or the last step is done.
Skips(e) ==
    /\ OnlyLis(e) /\ UNCHANGED <<subs, rpc>> /\ lis'[e].prev = lis[e].prev
    /\ \/ lis[e].st = "queued" /\ lis'[e].st = "dropped"
       \/ lis[e].st = "find" /\ lis'[e].st = "upgrade" /\ RenewingBesides(lis[e].gid) = {}
       \/ lis[e].st = "upgrade" /\ lis'[e].st = "done"

Takes(e, s) ==
    /\ OnlyLis(e) /\ UNCHANGED subs
    /\ s \in RenewingBesides(lis[e].gid)
    /\ lis[e].st = "find" /\ lis'[e].st = "wait" /\ lis'[e].prev = s
    /\ Sent(e, "disable", s, subs[s].ext)

\* The previous row s is switched off when the service did and the row is there.
Disables(e, s) ==
    /\ OnlyLis(e) /\ UNCHANGED rpc
    /\ s = lis[e].prev
    /\ lis[e].st = "wait" /\ lis'[e].st = "upgrade" /\ lis'[e].prev = s
    /\ rpc[e].reply \in {"yes", "no"}
    /\ \A t \in CreateReqs :
         /\ subs'[t].status = subs[t].status /\ subs'[t].ext = subs[t].ext
         /\ subs'[t].auto = IF t = s /\ rpc[e].reply = "yes" /\ Exists(s) THEN FALSE
                            ELSE subs[t].auto

LEMMA ListenerShapes ==
  ASSUME RecordsInv, NEW e \in Events, ListenerStep(e)
  PROVE  \/ Skips(e)
         \/ \E s \in CreateReqs : Activates(e, s) \/ Takes(e, s)
         \/ \E s : Disables(e, s)
  <1> USE DEF gatewayVars, paymentsVars, stripeVars, tableVars
  <1>0. /\ lis \in [Events -> Listener] /\ lis[e] \in Listener
        /\ subs \in [CreateReqs -> Subscription]
        /\ e \in Msgs /\ AnswersInv
        /\ lis[e].st # "none" => lis[e].gid \in CreateReqs
    BY DEF RecordsInv, IInv, TypeOK, ListenersInv
  <1>1. UNCHANGED <<req, prow, hook, stripe, lapsed, faults>>
    BY DEF ListenerStep, ActivateUpdate, ActivateFindPrev, ActivateDisabled, ActivateUpgrade
  <1>2. ASSUME NEW st, lis' = [lis EXCEPT ![e].st = st]
        PROVE  /\ lis'[e].st = st /\ lis'[e].prev = lis[e].prev /\ OnlyLis(e)
    BY <1>0, <1>1, <1>2 DEF Listener, OnlyLis
  <1>3. CASE ActivateUpdate(e)
    <2> DEFINE s == lis[e].gid
    <2>1. lis[e].st = "queued" /\ UNCHANGED rpc /\ s \in CreateReqs
      BY <1>0, <1>3 DEF ActivateUpdate
    <2>2. CASE /\ Exists(s) /\ lis' = [lis EXCEPT ![e].st = "find"]
               /\ subs' = [subs EXCEPT ![s] = [@ EXCEPT !.status = "ACTIVE", !.ext = lis[e].ext]]
      <3>1. /\ subs'[s].status = "ACTIVE" /\ subs'[s].ext = lis[e].ext
            /\ subs'[s].auto = subs[s].auto
            /\ \A t \in CreateReqs \ {s} : subs'[t] = subs[t]
        BY <1>0, <2>1, <2>2 DEF Subscription
      <3>2. lis'[e].st = "find" /\ lis'[e].prev = lis[e].prev /\ OnlyLis(e)
        BY <1>2, <2>2
      <3>3. Activates(e, s)
        BY <2>1, <2>2, <3>1, <3>2 DEF Activates
      <3> QED
        BY <2>1, <3>3
    <2>3. CASE lis' = [lis EXCEPT ![e].st = "dropped"] /\ UNCHANGED subs
      BY <1>2, <2>1, <2>3 DEF Skips
    <2> QED
      BY <1>3, <2>2, <2>3 DEF ActivateUpdate
  <1>4. CASE ActivateFindPrev(e)
    <2>1. lis[e].st = "find" /\ UNCHANGED subs /\ rpc[e].st = "none"
      BY <1>0, <1>4 DEF ActivateFindPrev, AnswersInv
    <2>2. CASE /\ RenewingBesides(lis[e].gid) = {}
               /\ lis' = [lis EXCEPT ![e].st = "upgrade"] /\ UNCHANGED rpc
      BY <1>2, <2>1, <2>2 DEF Skips
    <2>3. ASSUME NEW s \in RenewingBesides(lis[e].gid),
                 lis' = [lis EXCEPT ![e] = [@ EXCEPT !.st = "wait", !.prev = s]],
                 Publish(e, "disable", s, subs[s].ext, "STRIPE")
          PROVE  s \in CreateReqs /\ Takes(e, s)
      <3>1. lis'[e].st = "wait" /\ lis'[e].prev = s /\ OnlyLis(e)
        BY <1>0, <1>1, <2>3 DEF Listener, OnlyLis
      <3>2. Sent(e, "disable", s, subs[s].ext)
        BY <1>0, <2>1, <2>3, PublishSent
      <3> QED
        BY <2>1, <2>3, <3>1, <3>2 DEF Takes, RenewingBesides, ActiveOf
    <2> QED
      BY <1>4, <2>2, <2>3 DEF ActivateFindPrev
  <1>5. CASE ActivateDisabled(e)
    <2>1. /\ lis[e].st = "wait" /\ lis' = [lis EXCEPT ![e].st = "upgrade"] /\ UNCHANGED rpc
          /\ rpc[e].reply \in {"yes", "no"}
          /\ subs' = IF rpc[e].reply = "yes" /\ Exists(lis[e].prev)
                     THEN [subs EXCEPT ![lis[e].prev].auto = FALSE] ELSE subs
      BY <1>5 DEF ActivateDisabled
    <2>2. \A t \in CreateReqs :
            /\ subs'[t].status = subs[t].status /\ subs'[t].ext = subs[t].ext
            /\ subs'[t].auto = IF t = lis[e].prev /\ rpc[e].reply = "yes" /\ Exists(lis[e].prev)
                               THEN FALSE ELSE subs[t].auto
      BY <1>0, <2>1 DEF Subscription
    <2>3. Disables(e, lis[e].prev)
      BY <1>2, <2>1, <2>2 DEF Disables
    <2> QED
      BY <2>3
  <1>6. CASE ActivateUpgrade(e)
    BY <1>2, <1>6 DEF ActivateUpgrade, Skips
  <1> QED
    BY <1>3, <1>4, <1>5, <1>6 DEF ListenerStep
-----------------------------------------------------------------------------
(* The steps of the payments service and of Stripe, field by field *)

\* What every step keeps: a payment made, a message sent and its subject, and
\* a fault that has happened.
Onward ==
    /\ NoRestart' => NoRestart
    /\ \A k \in PayIds : stripe[k].st \in {"paid", "ended"} =>
         stripe'[k].st \in {"paid", "ended"} /\ stripe'[k].gid = stripe[k].gid
    /\ \A p \in Msgs : rpc[p].st # "none" =>
         /\ rpc'[p].st # "none" /\ rpc'[p].kind = rpc[p].kind
         /\ rpc'[p].gid = rpc[p].gid /\ rpc'[p].ext = rpc[p].ext

\* A step outside the gateway: only an unused event may become queued, and a
\* message may be given its first reply.
Outside ==
    /\ UNCHANGED <<subs, req>> /\ lapsed \subseteq lapsed'
    /\ \A e \in Events : \/ lis'[e] = lis[e]
                         \/ /\ lis[e].st = "none" /\ lis'[e].st = "queued"
                            /\ lis'[e].prev = None
    /\ \A p \in Msgs : /\ rpc[p].st = "none" => rpc'[p].st = "none"
                       /\ rpc'[p].reply = rpc[p].reply \/ rpc[p].reply = "none"

\* Message p alone moves; it keeps its subject.
OnlyMsg(p) ==
    /\ UNCHANGED <<subs, req, lis, hook, lapsed>>
    /\ \A q \in Msgs \ {p} : rpc'[q] = rpc[q]
    /\ rpc[p].st # "none" /\ rpc'[p].st # "none" /\ rpc'[p].kind = rpc[p].kind
    /\ rpc'[p].gid = rpc[p].gid /\ rpc'[p].ext = rpc[p].ext
    /\ faults'.pcrash = faults.pcrash /\ faults'.gcrash = faults.gcrash
    /\ faults'.redeliver = faults.redeliver

\* A message about a session: a row stays, is written back as it was read, or
\* is inserted; a session may be opened.
Serves(p) ==
    /\ OnlyMsg(p) /\ rpc[p].kind = "create" /\ rpc[p].st \notin {"held", "acked"}
    /\ rpc'[p].st # "db"
    /\ \/ rpc'[p].reply = rpc[p].reply
       \/ rpc[p].reply = "none" /\ rpc'[p].st = "acked"
    /\ rpc'[p].st = "saverow" => Untouched(rpc'[p].snap)
    /\ \A w \in Msgs : \/ prow'[w] = prow[w]
                       \/ prow'[w].status = "pending" /\ prow'[w].ext = None /\ prow'[w].auto
    /\ \A k \in PayIds : \/ stripe'[k] = stripe[k]
                         \/ /\ stripe[k].st = "none" /\ stripe'[k].st = "open"
                            /\ ~stripe'[k].cancel

\* A message about renewal is done by Stripe, or refused, or done in the table.
ReachesStripe(p, k) ==
    /\ OnlyMsg(p) /\ rpc[p].kind # "create" /\ UNCHANGED prow
    /\ k \in PayIds /\ k = rpc[p].ext /\ stripe[k].st = "paid"
    /\ rpc[p].st = "queued" /\ rpc'[p].st = "db" /\ rpc'[p].reply = rpc[p].reply
    /\ stripe'[k].st = stripe[k].st /\ stripe'[k].gid = stripe[k].gid
    /\ stripe'[k].cancel = (rpc[p].kind = "disable")
    /\ \A j \in PayIds \ {k} : stripe'[j] = stripe[j]

Refuses(p) ==
    /\ OnlyMsg(p) /\ rpc[p].kind # "create" /\ UNCHANGED <<prow, stripe>>
    /\ rpc[p].st = "queued" /\ rpc'[p].st = "held"
    /\ rpc'[p].reply = IF rpc[p].reply = "none" THEN "no" ELSE rpc[p].reply

ReachesTable(p) ==
    /\ OnlyMsg(p) /\ rpc[p].kind # "create" /\ UNCHANGED stripe
    /\ rpc[p].st = "db" /\ rpc'[p].st = "held"
    /\ rpc'[p].reply = IF rpc[p].reply = "none" THEN "yes" ELSE rpc[p].reply
    /\ \A w \in Msgs :
         /\ prow'[w].status = prow[w].status
         /\ prow'[w].gid = prow[w].gid /\ prow'[w].ext = prow[w].ext
         /\ prow'[w].auto = IF w \in RowsFor(rpc[p].gid) /\ prow[w].ext = rpc[p].ext
                            THEN rpc[p].kind = "enable" ELSE prow[w].auto

LEMMA ServesShape ==
  ASSUME RecordsInv, KindsInv, UntouchedInv, NEW p \in Msgs,
         \/ PayFind(p) \/ PaySaveRow(p) \/ PayInsertRow(p) \/ PaySavePayment(p)
         \/ PaySession(p) \/ PayAnswer(p)
  PROVE  Serves(p)
  <1> USE DEF gatewayVars, paymentsVars, stripeVars, tableVars
  <1>0. /\ rpc \in [Msgs -> Message] /\ rpc[p] \in Message
        /\ prow \in [Msgs -> Row] /\ stripe \in [PayIds -> Session]
        /\ faults \in FaultBudget
        /\ RowsInv /\ MessagesInv /\ PayableInv
    BY DEF RecordsInv, IInv, TypeOK
  <1>1. UNCHANGED <<subs, req, lis, hook, lapsed>>
    BY DEF PayFind, PaySaveRow, PayInsertRow, PaySavePayment, PaySession, PayAnswer
  <1>2. rpc[p].kind = "create" /\ rpc[p].st \notin {"none", "held", "acked", "db"}
    BY DEF PayFind, PaySaveRow, PayInsertRow, PaySavePayment, PaySession, PayAnswer, KindsInv,
           Handling
  <1>3. /\ faults'.pcrash = faults.pcrash /\ faults'.gcrash = faults.gcrash
        /\ faults'.redeliver = faults.redeliver
    BY <1>0 DEF PayFind, PaySaveRow, PayInsertRow, PaySavePayment, PaySession, PayAnswer,
           StripeFails, FaultBudget
  <1>4. ASSUME NEW reply, rpc' = [rpc EXCEPT ![p] = Answered(@, "acked", reply)]
        PROVE  /\ OnlyMsg(p) /\ rpc'[p].st = "acked"
               /\ rpc'[p].reply = rpc[p].reply \/ rpc[p].reply = "none"
    <2>1. rpc'[p] = Answered(rpc[p], "acked", reply)
      BY <1>0, <1>4
    <2>2. /\ rpc'[p].st = "acked" /\ rpc'[p].kind = rpc[p].kind
          /\ rpc'[p].gid = rpc[p].gid /\ rpc'[p].ext = rpc[p].ext
          /\ rpc'[p].reply = IF rpc[p].reply = "none" THEN reply ELSE rpc[p].reply
      BY <1>0, <2>1 DEF Answered, Message
    <2>3. \A q \in Msgs \ {p} : rpc'[q] = rpc[q]
      BY <1>0, <1>4
    <2> QED
      BY <1>1, <1>2, <1>3, <2>2, <2>3 DEF OnlyMsg
  <1>5. ASSUME NEW st, st # "none", NEW row, NEW snap, NEW loaded, NEW pay,
               rpc' = [rpc EXCEPT ![p] = [@ EXCEPT !.st = st, !.row = row, !.snap = snap,
                                           !.loaded = loaded, !.pay = pay]]
        PROVE  OnlyMsg(p) /\ rpc'[p].st = st /\ rpc'[p].reply = rpc[p].reply
               /\ rpc'[p].snap = snap
    BY <1>0, <1>1, <1>2, <1>3, <1>5 DEF OnlyMsg, Message
  <1>6. ASSUME NEW st, st # "none", rpc' = [rpc EXCEPT ![p].st = st]
        PROVE  OnlyMsg(p) /\ rpc'[p].st = st /\ rpc'[p].reply = rpc[p].reply
    BY <1>0, <1>1, <1>2, <1>3, <1>6 DEF OnlyMsg, Message
  <1>7. CASE PayFind(p)
    <2>1. UNCHANGED <<prow, stripe>>
      BY <1>7 DEF PayFind
    <2>2. CASE rpc' = [rpc EXCEPT ![p] = Answered(@, "acked", "null")]
      BY <1>2, <1>4, <2>1, <2>2 DEF Serves
    <2>3. ASSUME NEW w \in RowsFor(rpc[p].gid), prow[w].status = "pending",
                 rpc' = [rpc EXCEPT ![p] = [@ EXCEPT !.st = "saverow", !.row = w,
                                       !.snap = prow[w], !.loaded = PaymentsOf(w)]]
          PROVE  Serves(p)
      <3>1. OnlyMsg(p) /\ rpc'[p].st = "saverow" /\ rpc'[p].reply = rpc[p].reply
            /\ rpc'[p].snap = prow[w]
        BY <1>0, <1>1, <1>2, <1>3, <2>3 DEF OnlyMsg, Message
      <3>2. Untouched(prow[w])
        BY <2>3 DEF UntouchedInv, RowsFor
      <3> QED
        BY <1>2, <2>1, <3>1, <3>2 DEF Serves
    <2>4. CASE rpc' = [rpc EXCEPT ![p].st = "insert"]
      BY <1>2, <1>6, <2>1, <2>4 DEF Serves
    <2> QED
      BY <1>7, <2>2, <2>3, <2>4 DEF PayFind
  <1>8. CASE PaySaveRow(p)
    <2>1. /\ rpc[p].st = "saverow" /\ UNCHANGED stripe
          /\ rpc' = [rpc EXCEPT ![p].st = "savepay"]
          /\ prow' = [prow EXCEPT ![rpc[p].row] = rpc[p].snap]
      BY <1>8 DEF PaySaveRow, SaveRow
    <2>2. rpc[p].snap.status = "pending" /\ rpc[p].snap.ext = None /\ rpc[p].snap.auto
      BY <1>0, <2>1 DEF RowsInv, UntouchedInv, Untouched
    <2>3. \A w \in Msgs : \/ prow'[w] = prow[w]
                          \/ prow'[w].status = "pending" /\ prow'[w].ext = None /\ prow'[w].auto
      BY <1>0, <2>1, <2>2
    <2> QED
      BY <1>2, <1>6, <2>1, <2>3 DEF Serves
  <1>9. CASE PayInsertRow(p)
    <2>1. /\ UNCHANGED stripe
          /\ rpc' = [rpc EXCEPT ![p] = [@ EXCEPT !.st = "savepay", !.row = p]]
          /\ prow' = [prow EXCEPT ![p] = [status |-> "pending", gid |-> rpc[p].gid,
                                          ext |-> None, auto |-> TRUE]]
      BY <1>9 DEF PayInsertRow
    <2>2. OnlyMsg(p) /\ rpc'[p].st = "savepay" /\ rpc'[p].reply = rpc[p].reply
      BY <1>0, <1>1, <1>2, <1>3, <2>1 DEF OnlyMsg, Message
    <2>3. \A w \in Msgs : \/ prow'[w] = prow[w]
                          \/ prow'[w].status = "pending" /\ prow'[w].ext = None /\ prow'[w].auto
      BY <1>0, <2>1
    <2> QED
      BY <1>2, <2>1, <2>2, <2>3 DEF Serves
  <1>10. CASE PaySavePayment(p)
    <2>1. PICK k \in PayIds : rpc' = [rpc EXCEPT ![p] = [@ EXCEPT !.st = "session", !.pay = k]]
      BY <1>10 DEF PaySavePayment
    <2>2. OnlyMsg(p) /\ rpc'[p].st = "session" /\ rpc'[p].reply = rpc[p].reply
      BY <1>0, <1>1, <1>2, <1>3, <2>1 DEF OnlyMsg, Message
    <2>3. UNCHANGED <<prow, stripe>>
      BY <1>10 DEF PaySavePayment
    <2> QED
      BY <1>2, <2>2, <2>3 DEF Serves
  <1>11. CASE PaySession(p)
    <2>1. rpc[p].st = "session" /\ UNCHANGED prow
      BY <1>11 DEF PaySession
    <2>2. stripe[rpc[p].pay].st = "none" /\ rpc[p].pay \in PayIds
      BY <1>0, <2>1 DEF MessagesInv
    <2>3. \A k \in PayIds : \/ stripe'[k] = stripe[k]
                            \/ /\ stripe[k].st = "none" /\ stripe'[k].st = "open"
                               /\ ~stripe'[k].cancel
      <3>1. \/ stripe' = stripe
            \/ stripe' = [stripe EXCEPT ![rpc[p].pay] =
                            [st |-> "open", gid |-> rpc[p].gid, cancel |-> FALSE]]
        BY <1>11 DEF PaySession
      <3>2. CASE stripe' = stripe
        BY <3>2
      <3>3. CASE stripe' = [stripe EXCEPT ![rpc[p].pay] =
                              [st |-> "open", gid |-> rpc[p].gid, cancel |-> FALSE]]
        <4>1. /\ stripe'[rpc[p].pay].st = "open" /\ stripe'[rpc[p].pay].cancel = FALSE
              /\ \A k \in PayIds \ {rpc[p].pay} : stripe'[k] = stripe[k]
          BY <1>0, <2>2, <3>3
        <4> QED
          BY <2>2, <4>1
      <3> QED
        BY <3>1, <3>2, <3>3
    <2>4. CASE rpc' = [rpc EXCEPT ![p].st = "answer"]
      <3>1. OnlyMsg(p) /\ rpc'[p].st = "answer" /\ rpc'[p].reply = rpc[p].reply
        BY <1>6, <2>4
      <3>2. \A w \in Msgs : prow'[w] = prow[w]
        BY <2>1
      <3> QED
        BY <1>2, <2>3, <3>1, <3>2 DEF Serves
    <2>5. CASE rpc' = [rpc EXCEPT ![p] = Answered(@, "acked", "error")]
      BY <1>2, <1>4, <2>1, <2>3, <2>5 DEF Serves
    <2> QED
      BY <1>11, <2>4, <2>5 DEF PaySession
  <1>12. CASE PayAnswer(p)
    BY <1>2, <1>4, <1>12 DEF PayAnswer, Serves
  <1> QED
    BY <1>7, <1>8, <1>9, <1>10, <1>11, <1>12

LEMMA RenewShape ==
  ASSUME RecordsInv, NEW p \in Msgs, RenewStripe(p) \/ RenewDb(p)
  PROVE  \/ Refuses(p) \/ ReachesTable(p)
         \/ \E k \in PayIds : ReachesStripe(p, k)
  <1> USE DEF gatewayVars, paymentsVars, stripeVars, tableVars
  <1>0. /\ rpc \in [Msgs -> Message] /\ rpc[p] \in Message
        /\ prow \in [Msgs -> Row] /\ stripe \in [PayIds -> Session]
        /\ faults \in FaultBudget
    BY DEF RecordsInv, IInv, TypeOK
  <1>1. UNCHANGED <<subs, req, lis, hook, lapsed>>
    BY DEF RenewStripe, RenewDb, DisableDb, EnableDb, RenewRows
  <1>2. rpc[p].kind # "create" /\ rpc[p].st \in {"queued", "db"}
    BY DEF RenewStripe, RenewDb, DisableDb, EnableDb
  <1>3. /\ faults'.pcrash = faults.pcrash /\ faults'.gcrash = faults.gcrash
        /\ faults'.redeliver = faults.redeliver
    BY <1>0 DEF RenewStripe, RenewDb, DisableDb, EnableDb, RenewRows, StripeFails, FaultBudget
  <1>4. ASSUME NEW reply, rpc' = [rpc EXCEPT ![p] = Answered(@, "held", reply)]
        PROVE  /\ OnlyMsg(p) /\ rpc'[p].st = "held"
               /\ rpc'[p].reply = IF rpc[p].reply = "none" THEN reply ELSE rpc[p].reply
    <2>1. rpc'[p] = Answered(rpc[p], "held", reply)
      BY <1>0, <1>4
    <2>2. /\ rpc'[p].st = "held" /\ rpc'[p].kind = rpc[p].kind
          /\ rpc'[p].gid = rpc[p].gid /\ rpc'[p].ext = rpc[p].ext
          /\ rpc'[p].reply = IF rpc[p].reply = "none" THEN reply ELSE rpc[p].reply
      BY <1>0, <2>1 DEF Answered, Message
    <2>3. \A q \in Msgs \ {p} : rpc'[q] = rpc[q]
      BY <1>0, <1>4
    <2> QED
      BY <1>1, <1>2, <1>3, <2>2, <2>3 DEF OnlyMsg
  <1>5. CASE RenewStripe(p)
    <2>1. UNCHANGED prow /\ rpc[p].st = "queued"
      BY <1>5 DEF RenewStripe
    <2>2. CASE /\ rpc[p].ext \in PayIds /\ stripe[rpc[p].ext].st = "paid"
               /\ stripe' = [stripe EXCEPT ![rpc[p].ext].cancel = (rpc[p].kind = "disable")]
               /\ rpc' = [rpc EXCEPT ![p].st = "db"]
      <3> DEFINE k == rpc[p].ext
      <3>1. OnlyMsg(p) /\ rpc'[p].st = "db" /\ rpc'[p].reply = rpc[p].reply
        BY <1>0, <1>1, <1>2, <1>3, <2>2 DEF OnlyMsg, Message
      <3>2. /\ stripe'[k].st = stripe[k].st /\ stripe'[k].gid = stripe[k].gid
            /\ stripe'[k].cancel = (rpc[p].kind = "disable")
            /\ \A j \in PayIds \ {k} : stripe'[j] = stripe[j]
        BY <1>0, <2>2 DEF Session
      <3>3. ReachesStripe(p, k)
        BY <1>2, <2>1, <2>2, <3>1, <3>2 DEF ReachesStripe
      <3> QED
        BY <2>2, <3>3
    <2>3. CASE rpc' = [rpc EXCEPT ![p] = Answered(@, "held", "no")] /\ UNCHANGED stripe
      BY <1>2, <1>4, <2>1, <2>3 DEF Refuses
    <2> QED
      BY <1>5, <2>2, <2>3 DEF RenewStripe
  <1>6. ASSUME NEW on, rpc[p].st = "db", on = (rpc[p].kind = "enable"), RenewRows(p, on)
        PROVE  ReachesTable(p)
    <2>1. rpc' = [rpc EXCEPT ![p] = Answered(@, "held", "yes")] /\ UNCHANGED stripe
      BY <1>6 DEF RenewRows
    <2>2. ASSUME NEW w \in Msgs
          PROVE  /\ prow'[w].status = prow[w].status
                 /\ prow'[w].gid = prow[w].gid /\ prow'[w].ext = prow[w].ext
                 /\ prow'[w].auto = IF w \in RowsFor(rpc[p].gid) /\ prow[w].ext = rpc[p].ext
                                    THEN on ELSE prow[w].auto
      <3>1. prow'[w] = IF w \in RowsFor(rpc[p].gid) /\ prow[w].ext = rpc[p].ext
                       THEN [prow[w] EXCEPT !.auto = on] ELSE prow[w]
        BY <1>6 DEF RenewRows
      <3>2. prow[w] \in Row
        BY <1>0
      <3> QED
        BY <3>1, <3>2 DEF Row
    <2> QED
      BY <1>2, <1>4, <1>6, <2>1, <2>2 DEF ReachesTable
  <1>7. CASE RenewDb(p)
    <2>1. rpc[p].st = "db"
      BY <1>7 DEF RenewDb, DisableDb, EnableDb
    <2>2. CASE rpc[p].kind = "disable" /\ RenewRows(p, FALSE)
      BY <1>6, <2>1, <2>2
    <2>3. CASE rpc[p].kind = "enable" /\ RenewRows(p, TRUE)
      BY <1>6, <2>1, <2>3
    <2> QED
      BY <1>7, <2>2, <2>3 DEF RenewDb, DisableDb, EnableDb
  <1> QED
    BY <1>5, <1>7

\* The webhook of session k alone moves.
OnlyHook(k) ==
    /\ UNCHANGED <<subs, req, rpc, stripe, lapsed>>
    /\ \A j \in PayIds \ {k} : hook'[j] = hook[j]
    /\ faults'.pcrash = faults.pcrash /\ faults'.gcrash = faults.gcrash
    /\ faults'.redeliver = faults.redeliver

\* It reads a row to save, or goes on after that.
HookTurns(k) ==
    /\ OnlyHook(k) /\ UNCHANGED <<lis, prow>>
    /\ hook[k].pc \in {"due", "findpay", "savepay"}
    /\ \/ hook'[k].pc \notin {"idle", "due", "save"}
       \/ /\ hook[k].pc = "due" /\ hook'[k].pc = "save"
          /\ hook'[k].row \in RowsFor(stripe[k].gid) /\ hook'[k].snap = prow[hook'[k].row]

HookSaves(k, w) ==
    /\ OnlyHook(k) /\ UNCHANGED lis
    /\ hook[k].pc = "save" /\ hook'[k].pc \notin {"idle", "due", "save"}
    /\ w \in Msgs /\ w = hook[k].row
    /\ prow'[w].status = "active" /\ prow'[w].ext = k
    /\ prow'[w].gid = hook[k].snap.gid /\ prow'[w].auto = hook[k].snap.auto
    /\ \A v \in Msgs \ {w} : prow'[v] = prow[v]

HookEmits(k, e) ==
    /\ OnlyHook(k) /\ UNCHANGED prow
    /\ hook[k].pc = "emit" /\ hook'[k].pc = "done"
    /\ e \in Events /\ lis[e].st = "none"
    /\ lis'[e].st = "queued" /\ lis'[e].prev = None
    /\ lis'[e].gid = stripe[k].gid /\ lis'[e].ext = k
    /\ \A f \in Events \ {e} : lis'[f] = lis[f]

\* A client pays, or a period ends.
Pays(k) ==
    /\ UNCHANGED <<subs, req, lis, prow, rpc>>
    /\ lapsed \subseteq lapsed'
    /\ faults'.pcrash = faults.pcrash /\ faults'.gcrash = faults.gcrash
    /\ faults'.redeliver = faults.redeliver
    /\ stripe'[k].st \in {"paid", "ended"}
    /\ stripe'[k].gid = stripe[k].gid /\ stripe'[k].cancel = stripe[k].cancel
    /\ \A j \in PayIds \ {k} : stripe'[j] = stripe[j] /\ hook'[j] = hook[j]
    /\ \/ hook'[k] = hook[k] /\ stripe[k].st = "paid"
       \/ hook[k].pc = "idle" /\ hook'[k].pc = "due" /\ stripe[k].st = "open"

LEMMA HookShapes ==
  ASSUME RecordsInv, NEW k \in PayIds, HookStep(k)
  PROVE  \/ HookTurns(k)
         \/ \E w \in Msgs : HookSaves(k, w)
         \/ \E e \in Events : HookEmits(k, e)
  <1> USE DEF gatewayVars, paymentsVars, stripeVars, tableVars
  <1>0. /\ hook \in [PayIds -> Webhook] /\ hook[k] \in Webhook
        /\ prow \in [Msgs -> Row] /\ lis \in [Events -> Listener]
        /\ faults \in FaultBudget /\ RowsInv
    BY DEF RecordsInv, IInv, TypeOK
  <1>1. UNCHANGED <<subs, req, rpc, stripe, lapsed>>
    BY DEF HookStep, HookRead, HookSaveRow, HookFindPay, HookSavePay, HookEmit
  <1>2. /\ faults'.pcrash = faults.pcrash /\ faults'.gcrash = faults.gcrash
        /\ faults'.redeliver = faults.redeliver
    BY <1>0 DEF HookStep, HookRead, HookSaveRow, HookFindPay, HookSavePay, HookEmit,
                StripeFails, FaultBudget
  <1>3. ASSUME HookReturns(k)
        PROVE  OnlyHook(k) /\ hook'[k].pc = "done"
    BY <1>0, <1>1, <1>2, <1>3 DEF HookReturns, IdleHook, OnlyHook
  <1>4. CASE HookRead(k)
    <2>1. hook[k].pc = "due" /\ UNCHANGED <<lis, prow>>
      BY <1>4 DEF HookRead
    <2>2. CASE HookReturns(k)
      BY <1>3, <2>1, <2>2 DEF HookTurns
    <2>3. ASSUME NEW w \in RowsFor(stripe[k].gid),
                 hook' = [hook EXCEPT ![k] = [@ EXCEPT !.pc = "save", !.row = w,
                                        !.snap = prow[w], !.loaded = PaymentsOf(w)]]
          PROVE  HookTurns(k)
      <3>1. /\ hook'[k].pc = "save" /\ hook'[k].row = w /\ hook'[k].snap = prow[w]
            /\ \A j \in PayIds \ {k} : hook'[j] = hook[j]
        BY <1>0, <2>3 DEF Webhook
      <3> QED
        BY <1>1, <1>2, <2>1, <2>3, <3>1 DEF HookTurns, OnlyHook
    <2> QED
      BY <1>4, <2>2, <2>3 DEF HookRead
  <1>5. CASE HookSaveRow(k)
    <2> DEFINE w == hook[k].row
               row == [hook[k].snap EXCEPT !.status = "active", !.ext = k]
    <2>1. /\ hook[k].pc = "save" /\ UNCHANGED lis
          /\ prow' = [prow EXCEPT ![w] = row]
          /\ hook' = [hook EXCEPT ![k].pc = IF hook[k].loaded = {} THEN "emit" ELSE "findpay"]
      BY <1>5 DEF HookSaveRow, SaveRow
    <2>2. w \in Msgs
      BY <1>0, <2>1 DEF RowsInv, Stored
    <2>3. hook[k].snap \in Row
      BY <1>0 DEF Webhook
    <2>4. /\ row.status = "active" /\ row.ext = k
          /\ row.gid = hook[k].snap.gid /\ row.auto = hook[k].snap.auto
      BY <2>3 DEF Row
    <2>5. prow'[w] = row /\ \A v \in Msgs \ {w} : prow'[v] = prow[v]
      BY <1>0, <2>1, <2>2
    <2>6. /\ hook'[k].pc \notin {"idle", "due", "save"}
          /\ \A j \in PayIds \ {k} : hook'[j] = hook[j]
      BY <1>0, <2>1 DEF Webhook
    <2> HIDE DEF row, w
    <2>7. /\ prow'[w].status = "active" /\ prow'[w].ext = k
          /\ prow'[w].gid = hook[k].snap.gid /\ prow'[w].auto = hook[k].snap.auto
      BY <2>4, <2>5
    <2>8. HookSaves(k, w)
      BY <1>1, <1>2, <2>1, <2>2, <2>5, <2>6, <2>7 DEF HookSaves, OnlyHook, w
    <2> QED
      BY <2>2, <2>8
  <1>6. CASE HookFindPay(k)
    <2>1. hook[k].pc = "findpay" /\ UNCHANGED <<lis, prow>>
      BY <1>6 DEF HookFindPay
    <2>2. CASE HookReturns(k)
      BY <1>3, <2>1, <2>2 DEF HookTurns
    <2>3. ASSUME NEW j \in PayIds,
                 hook' = [hook EXCEPT ![k] = [@ EXCEPT !.pc = "savepay", !.pay = j]]
          PROVE  HookTurns(k)
      <3>1. hook'[k].pc = "savepay" /\ \A i \in PayIds \ {k} : hook'[i] = hook[i]
        BY <1>0, <2>3 DEF Webhook
      <3> QED
        BY <1>1, <1>2, <2>1, <3>1 DEF HookTurns, OnlyHook
    <2> QED
      BY <1>6, <2>2, <2>3 DEF HookFindPay
  <1>7. CASE HookSavePay(k)
    <2>1. /\ hook[k].pc = "savepay" /\ UNCHANGED <<lis, prow>>
          /\ hook'[k].pc = "emit" /\ \A j \in PayIds \ {k} : hook'[j] = hook[j]
      BY <1>0, <1>7 DEF HookSavePay, Webhook
    <2> QED
      BY <1>1, <1>2, <2>1 DEF HookTurns, OnlyHook
  <1>8. CASE HookEmit(k)
    <2>1. hook[k].pc = "emit" /\ UNCHANGED prow /\ HookReturns(k)
      BY <1>8 DEF HookEmit
    <2>2. PICK e \in Events :
            /\ lis[e].st = "none"
            /\ lis' = [lis EXCEPT ![e] = [st |-> "queued", gid |-> stripe[k].gid,
                                          ext |-> k, prev |-> None]]
      BY <1>8 DEF HookEmit
    <2>3. /\ lis'[e].st = "queued" /\ lis'[e].prev = None
          /\ lis'[e].gid = stripe[k].gid /\ lis'[e].ext = k
          /\ \A f \in Events \ {e} : lis'[f] = lis[f]
      BY <1>0, <2>2
    <2>4. HookEmits(k, e)
      BY <1>3, <2>1, <2>2, <2>3 DEF HookEmits
    <2> QED
      BY <2>4
  <1> QED
    BY <1>4, <1>5, <1>6, <1>7, <1>8 DEF HookStep

LEMMA StripeShapes ==
  ASSUME RecordsInv, NEW k \in PayIds, UserPays(k) \/ PeriodEnds(k)
  PROVE  Pays(k)
  <1> USE DEF gatewayVars, paymentsVars, stripeVars, tableVars
  <1>0. /\ stripe \in [PayIds -> Session] /\ hook \in [PayIds -> Webhook]
        /\ faults \in FaultBudget /\ SessionsInv /\ hook[k] \in Webhook
    BY DEF RecordsInv, IInv, TypeOK
  <1>1. CASE UserPays(k)
    <2>1. stripe[k].st = "open" /\ UNCHANGED <<subs, req, lis, prow, rpc, lapsed, faults>>
      BY <1>1 DEF UserPays
    <2>2. hook[k].pc = "idle"
      BY <1>0, <2>1 DEF SessionsInv
    <2>3. /\ stripe'[k].st = "paid" /\ stripe'[k].gid = stripe[k].gid
          /\ stripe'[k].cancel = stripe[k].cancel
          /\ \A j \in PayIds \ {k} : stripe'[j] = stripe[j]
      BY <1>0, <1>1 DEF UserPays, Session
    <2>4. hook'[k].pc = "due" /\ \A j \in PayIds \ {k} : hook'[j] = hook[j]
      BY <1>0, <1>1 DEF UserPays, Webhook
    <2> QED
      BY <2>1, <2>2, <2>3, <2>4 DEF Pays
  <1>2. CASE PeriodEnds(k)
    <2>1. /\ stripe[k].st = "paid" /\ UNCHANGED <<subs, req, lis, prow, rpc, hook>>
          /\ lapsed \subseteq lapsed'
      BY <1>2 DEF PeriodEnds
    <2>2. /\ stripe'[k].st \in {"paid", "ended"} /\ stripe'[k].gid = stripe[k].gid
          /\ stripe'[k].cancel = stripe[k].cancel
          /\ \A j \in PayIds \ {k} : stripe'[j] = stripe[j]
      BY <1>0, <1>2 DEF PeriodEnds, Session
    <2>3. /\ faults'.pcrash = faults.pcrash /\ faults'.gcrash = faults.gcrash
          /\ faults'.redeliver = faults.redeliver
      BY <1>0, <1>2 DEF PeriodEnds, FaultBudget
    <2> QED
      BY <2>1, <2>2, <2>3 DEF Pays
  <1> QED
    BY <1>1, <1>2

\* A step that spends a fault leaves the states NoRestart speaks of.
LEMMA FaultSpent ==
  ASSUME RecordsInv, GatewayCrash \/ PaymentsCrash \/ (\E k \in PayIds : Redeliver(k))
  PROVE  ~NoRestart'
  <1>1. /\ faults \in FaultBudget
        /\ faults.pcrash \in Nat /\ faults.gcrash \in Nat /\ faults.redeliver \in Nat
        /\ faults.pcrash <= MaxPaymentsCrash /\ faults.gcrash <= MaxGatewayCrash
        /\ faults.redeliver <= MaxRedeliver
        /\ MaxPaymentsCrash \in Nat /\ MaxGatewayCrash \in Nat /\ MaxRedeliver \in Nat
    BY BoundsAssumption DEF RecordsInv, IInv, TypeOK, FaultBudget
  <1>2. CASE GatewayCrash
    <2>1. faults'.gcrash = faults.gcrash - 1
      BY <1>1, <1>2 DEF GatewayCrash, FaultBudget
    <2> QED
      BY <1>1, <2>1 DEF NoRestart
  <1>3. CASE PaymentsCrash
    <2>1. faults'.pcrash = faults.pcrash - 1
      BY <1>1, <1>3 DEF PaymentsCrash, FaultBudget
    <2> QED
      BY <1>1, <2>1 DEF NoRestart
  <1>4. CASE \E k \in PayIds : Redeliver(k)
    <2>1. faults'.redeliver = faults.redeliver - 1
      BY <1>1, <1>4 DEF Redeliver, FaultBudget
    <2> QED
      BY <1>1, <2>1 DEF NoRestart
  <1> QED
    BY <1>2, <1>3, <1>4
-----------------------------------------------------------------------------
(* What every step keeps *)

\* What the gateway has done stays done: answers, the renewal requests that
\* changed a row, and which row a listener has taken for the previous one.
Sticks ==
    /\ lapsed \subseteq lapsed'
    /\ \A r \in Reqs : req[r].res = "ok" => req'[r] = req[r]
    /\ \A e \in Events :
         /\ lis[e].st \notin {"none", "queued"} => lis'[e].gid = lis[e].gid
         /\ lis[e].prev # None => lis'[e].prev = lis[e].prev
         /\ lis[e].st = "lost" => lis'[e].st = "lost"
         /\ lis[e].st \in {"upgrade", "done", "lost"} => lis'[e].st \in {"upgrade", "done", "lost"}
         /\ rpc[e].reply \in {"yes", "no"} => rpc'[e].reply = rpc[e].reply

\* A row once activated is active or deleted ever after.
StatusStays ==
    \A s \in CreateReqs : subs[s].status \in {"ACTIVE", "deleted"} =>
        subs'[s].status \in {"ACTIVE", "deleted"}

LEMMA SentOnward ==
  ASSUME RecordsInv, NEW p \in Msgs, NEW kind, NEW gid, NEW ext, Sent(p, kind, gid, ext),
         UNCHANGED <<faults, stripe>>
  PROVE  Onward /\ \A q \in Msgs : rpc[q].st # "none" => rpc'[q] = rpc[q]
  BY DEF Sent, Onward, NoRestart

LEMMA CreatesKeeps ==
  ASSUME RecordsInv, NEW r \in CreateReqs, Creates(r)
  PROVE  /\ Onward /\ Sticks /\ StatusStays
         /\ \A p \in Msgs \ {r} : rpc'[p] = rpc[p]
         /\ \A p \in Msgs : rpc[p].st # "none" => rpc'[p] = rpc[p]
  <1>0. r \in Reqs /\ r \in Msgs /\ AnswersInv
    BY DEF RecordsInv
  <1>1. UNCHANGED <<stripe, faults, lis, lapsed>> /\ \A q \in Reqs \ {r} : req'[q] = req[q]
    BY DEF Creates, OnlyReq
  <1>2. /\ Onward
        /\ \A p \in Msgs \ {r} : rpc'[p] = rpc[p]
        /\ \A p \in Msgs : rpc[p].st # "none" => rpc'[p] = rpc[p]
    <2>1. CASE rpc' = rpc
      BY <1>1, <2>1 DEF Onward, NoRestart
    <2>2. ASSUME NEW s, Sent(r, "create", s, None)
          PROVE  /\ Onward
                 /\ \A p \in Msgs \ {r} : rpc'[p] = rpc[p]
                 /\ \A p \in Msgs : rpc[p].st # "none" => rpc'[p] = rpc[p]
      BY <1>0, <1>1, <2>2, SentOnward DEF Sent
    <2> QED
      BY <2>1, <2>2 DEF Creates
  <1>3. StatusStays
    BY DEF Creates, StatusStays
  <1>4. \A e \in Events : e \in Msgs \ {r}
    BY <1>0, NamesAssumption
  <1>5. Sticks
    <2>1. req[r].res = "none"
      BY <1>0 DEF AnswersInv, Creates, OnlyReq
    <2> QED
      BY <1>1, <1>2, <1>4, <2>1 DEF Sticks
  <1> QED
    BY <1>2, <1>3, <1>5

LEMMA RenewalKeeps ==
  ASSUME RecordsInv, NEW r \in RenewalReqs,
         Ends(r) \/ \E s \in CreateReqs : Asks(r, s) \/ Switches(r, s)
  PROVE  /\ Onward /\ Sticks /\ StatusStays
         /\ \A p \in Msgs \ {r} : rpc'[p] = rpc[p]
         /\ \A p \in Msgs : rpc[p].st # "none" => rpc'[p] = rpc[p]
  <1>0. r \in Reqs /\ r \in Msgs /\ AnswersInv
    BY DEF RecordsInv
  <1>1. /\ UNCHANGED <<stripe, faults, lis, lapsed>>
        /\ req[r].pc # "done" /\ \A q \in Reqs \ {r} : req'[q] = req[q]
    BY DEF Ends, Asks, Switches, OnlyReq
  <1>2. /\ Onward
        /\ \A p \in Msgs \ {r} : rpc'[p] = rpc[p]
        /\ \A p \in Msgs : rpc[p].st # "none" => rpc'[p] = rpc[p]
    <2>1. CASE rpc' = rpc
      BY <1>1, <2>1 DEF Onward, NoRestart
    <2>2. ASSUME NEW s, Asks(r, s)
          PROVE  /\ Onward
                 /\ \A p \in Msgs \ {r} : rpc'[p] = rpc[p]
                 /\ \A p \in Msgs : rpc[p].st # "none" => rpc'[p] = rpc[p]
      <3>1. Sent(r, RenewalKind(r), s, subs[s].ext)
        BY <2>2 DEF Asks
      <3> QED
        BY <1>0, <1>1, <3>1, SentOnward DEF Sent
    <2> QED
      BY <2>1, <2>2 DEF Ends, Switches
  <1>3. StatusStays
    BY DEF Ends, Asks, Switches, StatusStays
  <1>4. \A e \in Events : e \in Msgs \ {r}
    BY <1>0, NamesAssumption
  <1>5. Sticks
    <2>1. req[r].res = "none"
      BY <1>0, <1>1 DEF AnswersInv
    <2> QED
      BY <1>1, <1>2, <1>4, <2>1 DEF Sticks
  <1> QED
    BY <1>2, <1>3, <1>5

LEMMA ListenerKeeps ==
  ASSUME RecordsInv, SendersInv, NEW e \in Events,
         \/ Skips(e)
         \/ \E s \in CreateReqs : Activates(e, s) \/ Takes(e, s)
         \/ \E s : Disables(e, s)
  PROVE  /\ Onward /\ Sticks /\ StatusStays
         /\ \A p \in Msgs \ {e} : rpc'[p] = rpc[p]
         /\ \A p \in Msgs : rpc[p].st # "none" => rpc'[p] = rpc[p]
  <1>0. e \in Msgs /\ AnswersInv /\ PayableInv
    BY DEF RecordsInv
  <1>1. OnlyLis(e)
    BY DEF Skips, Activates, Takes, Disables
  <1>2. /\ Onward
        /\ \A p \in Msgs \ {e} : rpc'[p] = rpc[p]
        /\ \A p \in Msgs : rpc[p].st # "none" => rpc'[p] = rpc[p]
    <2>1. CASE rpc' = rpc
      BY <1>1, <2>1 DEF Onward, NoRestart, OnlyLis
    <2>2. ASSUME NEW s, Takes(e, s)
          PROVE  /\ Onward
                 /\ \A p \in Msgs \ {e} : rpc'[p] = rpc[p]
                 /\ \A p \in Msgs : rpc[p].st # "none" => rpc'[p] = rpc[p]
      <3>1. Sent(e, "disable", s, subs[s].ext)
        BY <2>2 DEF Takes
      <3>2. UNCHANGED <<faults, stripe>>
        BY <1>1 DEF OnlyLis
      <3> QED
        BY <1>0, <3>1, <3>2, SentOnward DEF Sent
    <2> QED
      BY <2>1, <2>2 DEF Skips, Activates, Disables
  <1>3. StatusStays
    BY DEF Skips, Activates, Takes, Disables, StatusStays
  <1>4. lis[e].prev # None => lis'[e].prev = lis[e].prev
    BY DEF Skips, Activates, Takes, Disables, SendersInv
  <1>5. /\ lis[e].st # "lost"
        /\ lis[e].st \in {"upgrade", "done", "lost"} => lis'[e].st \in {"upgrade", "done", "lost"}
    BY DEF Skips, Activates, Takes, Disables
  <1>6. \A f \in Events : rpc[f].reply \in {"yes", "no"} => rpc'[f].reply = rpc[f].reply
    BY <1>0, <1>2 DEF PayableInv, Payable
  <1> QED
    BY <1>1, <1>2, <1>3, <1>4, <1>5, <1>6 DEF Sticks, OnlyLis

LEMMA GatewayCrashKeeps ==
  ASSUME RecordsInv, SendersInv, GatewayCrash
  PROVE  /\ Onward /\ Sticks /\ StatusStays
         /\ UNCHANGED <<rpc, subs>>
         /\ \A r \in Reqs : \/ req'[r] = req[r]
                            \/ /\ req[r].pc # "done" /\ req'[r].pc = "done"
                               /\ req'[r].sub = req[r].sub /\ req'[r].res = "lost"
         /\ \A e \in Events : \/ lis'[e] = lis[e]
                              \/ /\ lis[e].st \in {"find", "wait", "upgrade"}
                                 /\ lis'[e].st = "lost" /\ lis'[e].prev = lis[e].prev
                                 /\ lis'[e].gid = lis[e].gid /\ lis'[e].ext = lis[e].ext
  <1> USE DEF gatewayVars, paymentsVars, stripeVars, tableVars
  <1>0. /\ req \in [Reqs -> Request] /\ lis \in [Events -> Listener] /\ AnswersInv
    BY DEF RecordsInv, IInv, TypeOK
  <1>1. UNCHANGED <<rpc, subs, stripe, lapsed>>
    BY DEF GatewayCrash
  <1>2. ASSUME NEW r \in Reqs
        PROVE  \/ req'[r] = req[r]
               \/ /\ req[r].pc # "done" /\ req'[r].pc = "done"
                  /\ req'[r].sub = req[r].sub /\ req'[r].res = "lost"
    <2>1. req[r] \in Request
      BY <1>0
    <2>2. req'[r] = IF req[r].pc \in {"touch", "insert", "wait"}
                    THEN [req[r] EXCEPT !.pc = "done", !.res = "lost"] ELSE req[r]
      BY DEF GatewayCrash
    <2> QED
      BY <2>1, <2>2 DEF Request
  <1>3. ASSUME NEW e \in Events
        PROVE  \/ lis'[e] = lis[e]
               \/ /\ lis[e].st \in {"find", "wait", "upgrade"}
                  /\ lis'[e].st = "lost" /\ lis'[e].prev = lis[e].prev
                  /\ lis'[e].gid = lis[e].gid /\ lis'[e].ext = lis[e].ext
    <2>1. lis[e] \in Listener
      BY <1>0
    <2>2. lis'[e] = IF lis[e].st \in {"find", "wait", "upgrade"}
                    THEN [lis[e] EXCEPT !.st = "lost"] ELSE lis[e]
      BY DEF GatewayCrash
    <2> QED
      BY <2>1, <2>2 DEF Listener
  <1>4. Onward
    BY <1>1, FaultSpent DEF Onward
  <1>5. Sticks
    BY <1>0, <1>1, <1>2, <1>3 DEF Sticks, AnswersInv
  <1>6. StatusStays
    BY <1>1 DEF StatusStays
  <1> QED
    BY <1>1, <1>2, <1>3, <1>4, <1>5, <1>6

LEMMA OutsideSticks ==
  ASSUME RecordsInv, SendersInv, Outside
  PROVE  Sticks /\ StatusStays
  <1>1. PayableInv
    BY DEF RecordsInv
  <1>2. \A e \in Events : rpc[e].reply \in {"yes", "no"} => rpc'[e].reply = rpc[e].reply
    BY DEF Outside
  <1>3. \A e \in Events : lis[e].prev # None => lis'[e] = lis[e]
    BY DEF Outside, SendersInv
  <1> QED
    BY <1>2, <1>3 DEF Outside, Sticks, StatusStays

LEMMA MsgKeeps ==
  ASSUME RecordsInv, NEW p \in Msgs,
         \/ Serves(p) \/ Refuses(p) \/ ReachesTable(p)
         \/ \E k \in PayIds : ReachesStripe(p, k)
  PROVE  Outside /\ Onward
  <1>0. PayableInv
    BY DEF RecordsInv
  <1>1. OnlyMsg(p) /\ (rpc'[p].reply = rpc[p].reply \/ rpc[p].reply = "none")
    BY DEF Serves, Refuses, ReachesTable, ReachesStripe
  <1>2. \A k \in PayIds : stripe[k].st \in {"paid", "ended"} =>
          stripe'[k].st \in {"paid", "ended"} /\ stripe'[k].gid = stripe[k].gid
    <2>1. CASE Serves(p)
      BY <2>1 DEF Serves
    <2>2. CASE UNCHANGED stripe
      BY <2>2
    <2>3. ASSUME NEW k \in PayIds, ReachesStripe(p, k)
          PROVE  \A j \in PayIds : stripe'[j].st = stripe[j].st /\ stripe'[j].gid = stripe[j].gid
      BY <2>3 DEF ReachesStripe
    <2> QED
      BY <2>1, <2>2, <2>3 DEF Refuses, ReachesTable
  <1>3. Outside
    BY <1>1 DEF Outside, OnlyMsg
  <1>4. Onward
    BY <1>1, <1>2 DEF Onward, OnlyMsg, NoRestart
  <1> QED
    BY <1>3, <1>4

LEMMA HookKeeps ==
  ASSUME RecordsInv, NEW k \in PayIds,
         \/ HookTurns(k) \/ Pays(k)
         \/ \E w \in Msgs : HookSaves(k, w)
         \/ \E e \in Events : HookEmits(k, e)
  PROVE  Outside /\ Onward /\ UNCHANGED rpc
  <1>1. CASE Pays(k)
    <2>1. stripe[k].st \in {"paid", "open"}
      BY <1>1 DEF Pays
    <2>2. Onward
      BY <1>1, <2>1 DEF Pays, Onward, NoRestart
    <2> QED
      BY <1>1, <2>2 DEF Pays, Outside
  <1>2. CASE OnlyHook(k)
    <2>1. \A e \in Events : \/ lis'[e] = lis[e]
                            \/ /\ lis[e].st = "none" /\ lis'[e].st = "queued"
                               /\ lis'[e].prev = None
      BY <1>2 DEF HookTurns, HookSaves, HookEmits, Pays
    <2> QED
      BY <1>2, <2>1 DEF OnlyHook, Outside, Onward, NoRestart
  <1> QED
    BY <1>1, <1>2 DEF HookTurns, HookSaves, HookEmits

LEMMA FaultKeeps ==
  ASSUME RecordsInv, PaymentsCrash \/ (\E k \in PayIds : Redeliver(k))
  PROVE  /\ Outside /\ Onward /\ UNCHANGED <<subs, req, lis, prow, stripe>>
         /\ \A p \in Msgs : \/ rpc'[p] = rpc[p]
                            \/ /\ rpc[p].st # "none" /\ rpc'[p].st = "queued"
                               /\ rpc'[p].kind = rpc[p].kind
                               /\ rpc'[p].gid = rpc[p].gid /\ rpc'[p].ext = rpc[p].ext
                               /\ rpc'[p].reply = rpc[p].reply
  <1> USE DEF gatewayVars, paymentsVars, stripeVars, tableVars
  <1>0. rpc \in [Msgs -> Message]
    BY DEF RecordsInv, IInv, TypeOK
  <1>1. UNCHANGED <<subs, req, lis, prow, stripe, lapsed>>
    BY DEF PaymentsCrash, Redeliver
  <1>2. ASSUME NEW p \in Msgs
        PROVE  \/ rpc'[p] = rpc[p]
               \/ /\ rpc[p].st # "none" /\ rpc'[p].st = "queued"
                  /\ rpc'[p].kind = rpc[p].kind
                  /\ rpc'[p].gid = rpc[p].gid /\ rpc'[p].ext = rpc[p].ext
                  /\ rpc'[p].reply = rpc[p].reply
    <2>1. CASE PaymentsCrash
      <3>1. rpc[p] \in Message
        BY <1>0
      <3>2. rpc'[p] = IF rpc[p].st \in Handling \cup {"held"}
                      THEN [rpc[p] EXCEPT !.st = "queued", !.row = None, !.snap = NoRow,
                                          !.loaded = {}, !.pay = None]
                      ELSE rpc[p]
        BY <2>1 DEF PaymentsCrash
      <3> QED
        BY <3>1, <3>2 DEF Message, Handling
    <2>2. CASE \E k \in PayIds : Redeliver(k)
      BY <2>2 DEF Redeliver
    <2> QED
      BY <2>1, <2>2
  <1>3. Outside
    BY <1>1, <1>2 DEF Outside
  <1>4. Onward
    BY <1>1, <1>2, FaultSpent DEF Onward
  <1> QED
    BY <1>1, <1>2, <1>3, <1>4
-----------------------------------------------------------------------------
(* Messages and listeners: KindsInv, SendersInv and PreviousInv *)

LEMMA KindsSent ==
  ASSUME KindsInv, NEW p \in Msgs, NEW s, NEW ext,
         Sent(p, IF p \in CreateReqs THEN "create"
                 ELSE IF p \in EnableReqs THEN "enable" ELSE "disable", s, ext)
  PROVE  KindsInv'
  BY DEF KindsInv, Sent, Handling

LEMMA KindsOutside ==
  ASSUME KindsInv, Onward, Outside,
         \A p \in Msgs : \/ rpc'[p].st = rpc[p].st
                         \/ rpc'[p].st \in {"queued", "held", "acked"}
                         \/ rpc'[p].st # "db" /\ rpc[p].kind = "create"
                         \/ rpc'[p].st = "db" /\ rpc[p].kind # "create"
  PROVE  KindsInv'
  <1>1. \A p \in Msgs : /\ rpc[p].st = "none" => rpc'[p].st = "none"
                        /\ rpc[p].st # "none" => rpc'[p].kind = rpc[p].kind
    BY DEF Onward, Outside
  <1>2. \A p \in Msgs : rpc'[p].st # "none" =>
          rpc'[p].kind = rpc[p].kind /\ rpc[p].st # "none"
    BY <1>1
  <1>3. ASSUME NEW p \in Msgs
        PROVE  /\ rpc'[p].st # "none" =>
                    rpc'[p].kind = IF p \in CreateReqs THEN "create"
                                   ELSE IF p \in EnableReqs THEN "enable" ELSE "disable"
               /\ rpc'[p].st \in Handling \ {"db"} => rpc'[p].kind = "create"
               /\ rpc'[p].st = "db" => rpc'[p].kind # "create"
    BY <1>2 DEF KindsInv, Handling
  <1> QED
    BY <1>3 DEF KindsInv

LEMMA StepKinds ==
  ASSUME RecordsInv, KindsInv, SendersInv, UntouchedInv, [Next]_vars
  PROVE  KindsInv'
  <1>1. CASE UNCHANGED rpc
    BY <1>1 DEF KindsInv
  <1>2. ASSUME NEW r \in Reqs, Arrive(r) \/ GatewayStep(r)
        PROVE  KindsInv'
    <2>1. CASE r \in CreateReqs
      <3>1. Creates(r)
        BY <1>2, <2>1, CreateShapes, RequestsAssumption DEF Arrive, GatewayStep
      <3> QED
        BY <1>1, <2>1, <3>1, KindsSent DEF Creates
    <2>2. CASE r \in RenewalReqs
      <3>1. Ends(r) \/ \E s \in CreateReqs : Asks(r, s) \/ Switches(r, s)
        BY <1>2, <2>2, RenewalShapes, RequestsAssumption DEF Arrive, GatewayStep
      <3>2. r \notin CreateReqs
        BY <2>2, RequestsAssumption
      <3>3. ASSUME NEW s, Asks(r, s) PROVE KindsInv'
        BY <2>2, <3>2, <3>3, KindsSent DEF Asks, RenewalKind, Wanted
      <3> QED
        BY <1>1, <3>1, <3>3 DEF Ends, Switches
    <2> QED
      BY <2>1, <2>2
  <1>3. ASSUME NEW e \in Events, ListenerStep(e)
        PROVE  KindsInv'
    <2>1. e \notin CreateReqs /\ e \notin EnableReqs /\ e \in Msgs
      BY NamesAssumption
    <2>2. ASSUME NEW s, Takes(e, s) PROVE KindsInv'
      BY <2>1, <2>2, KindsSent DEF Takes
    <2> QED
      BY <1>1, <1>3, <2>2, ListenerShapes DEF Skips, Activates, Disables
  <1>4. ASSUME NEW p \in Msgs, RpcStep(p)
        PROVE  KindsInv'
    <2>1. \/ Serves(p) \/ Refuses(p) \/ ReachesTable(p)
          \/ \E k \in PayIds : ReachesStripe(p, k)
      BY <1>4, ServesShape, RenewShape DEF RpcStep
    <2>2. Outside /\ Onward
      BY <2>1, MsgKeeps
    <2>3. \A q \in Msgs : \/ rpc'[q].st = rpc[q].st
                          \/ rpc'[q].st \in {"queued", "held", "acked"}
                          \/ rpc'[q].st # "db" /\ rpc[q].kind = "create"
                          \/ rpc'[q].st = "db" /\ rpc[q].kind # "create"
      BY <2>1 DEF Serves, Refuses, ReachesTable, ReachesStripe, OnlyMsg
    <2> QED
      BY <2>2, <2>3, KindsOutside
  <1>5. ASSUME NEW k \in PayIds, HookStep(k) \/ UserPays(k) \/ Redeliver(k) \/ PeriodEnds(k)
        PROVE  KindsInv'
    BY <1>1, <1>5, HookShapes, StripeShapes, HookKeeps DEF Redeliver
  <1>6. CASE PaymentsCrash
    <2>1. /\ Outside /\ Onward
          /\ \A p \in Msgs : rpc'[p] = rpc[p] \/ rpc'[p].st = "queued"
      BY <1>6, FaultKeeps
    <2> QED
      BY <2>1, KindsOutside
  <1>7. CASE GatewayCrash
    BY <1>1, <1>7 DEF GatewayCrash
  <1>8. CASE UNCHANGED vars
    BY <1>1, <1>8 DEF vars
  <1> QED
    BY <1>2, <1>3, <1>4, <1>5, <1>6, <1>7, <1>8 DEF Next

\* What backs a message about renewal, in the next state.
Backed(p) ==
    /\ rpc[p].ext \in PayIds
    /\ stripe[rpc[p].ext].st \in {"paid", "ended"} /\ stripe[rpc[p].ext].gid = rpc[p].gid
    /\ subs[rpc[p].gid].status \in {"ACTIVE", "deleted"}

LEMMA BackedStays ==
  ASSUME RecordsInv, SendersInv, Onward, StatusStays, NEW p \in Msgs,
         rpc[p].st # "none", rpc'[p].kind # "create"
  PROVE  Backed(p)'
  <1>1. rpc'[p].kind = rpc[p].kind /\ rpc'[p].gid = rpc[p].gid /\ rpc'[p].ext = rpc[p].ext
    BY DEF Onward
  <1>2. /\ Paid(rpc[p].ext, rpc[p].gid) /\ subs[rpc[p].gid].status \in {"ACTIVE", "deleted"}
        /\ rpc[p].gid \in CreateReqs
    BY <1>1 DEF SendersInv, RecordsInv, IInv, MessagesInv
  <1> QED
    BY <1>1, <1>2 DEF Backed, Onward, StatusStays, Paid

LEMMA BackedSent ==
  ASSUME RecordsInv, NEW p \in Msgs, NEW kind, NEW s \in CreateReqs,
         subs[s].status = "ACTIVE", Sent(p, kind, s, subs[s].ext), UNCHANGED <<subs, stripe>>
  PROVE  Backed(p)'
  BY DEF Sent, Backed, RecordsInv, IInv, ActiveIsPaid, Paid

SendersOf(r) ==
    /\ rpc[r].st # "none" => rpc[r].gid = req[r].sub
    /\ req[r].sub # None => req[r].sub \in CreateReqs /\ UserOf[req[r].sub] = UserOf[r]
    /\ req[r].pc = "wait" => rpc[r].st # "none"

ListensTo(e) ==
    /\ rpc[e].st # "none" => rpc[e].gid = lis[e].prev
    /\ lis[e].st \in {"none", "queued", "find", "dropped"} => lis[e].prev = None
    /\ lis[e].prev = None => rpc[e].st = "none"
    /\ lis[e].st = "wait" => rpc[e].st # "none"

LEMMA CreatesSenders ==
  ASSUME RecordsInv, KindsInv, KindsInv', SendersInv, NEW r \in CreateReqs, Creates(r)
  PROVE  SendersInv'
  <1>0. r \in Msgs /\ r \in Reqs /\ r \notin RenewalReqs
    BY RequestsAssumption
  <1>1. /\ Onward /\ StatusStays
        /\ \A p \in Msgs \ {r} : rpc'[p] = rpc[p]
    BY CreatesKeeps
  <1>2. UNCHANGED lis /\ \A q \in Reqs \ {r} : req'[q] = req[q]
    BY DEF Creates, OnlyReq
  <1>3. ASSUME NEW p \in Msgs, rpc'[p].st # "none", rpc'[p].kind # "create"
        PROVE  Backed(p)'
    <2>1. p # r
      BY <1>3 DEF KindsInv
    <2> QED
      BY <1>1, <1>3, <2>1, BackedStays
  <1>4. \A q \in RenewalReqs : SendersOf(q)'
    BY <1>0, <1>1, <1>2 DEF SendersInv, SendersOf
  <1>5. \A e \in Events : ListensTo(e)'
    <2>1. \A e \in Events : e \in Msgs \ {r}
      BY <1>0, NamesAssumption
    <2> QED
      BY <1>1, <1>2, <2>1 DEF SendersInv, ListensTo
  <1>6. SendersInv' <=>
          /\ \A p \in Msgs : rpc'[p].st # "none" /\ rpc'[p].kind # "create" => Backed(p)'
          /\ \A q \in RenewalReqs : SendersOf(q)'
          /\ \A e \in Events : ListensTo(e)'
    BY DEF SendersInv, SendersOf, ListensTo, Backed, Paid
  <1> QED
    BY <1>3, <1>4, <1>5, <1>6

LEMMA RenewalSenders ==
  ASSUME RecordsInv, SendersInv, NEW r \in RenewalReqs,
         Ends(r) \/ \E s \in CreateReqs : Asks(r, s) \/ Switches(r, s)
  PROVE  SendersInv'
  <1>0. r \in Msgs /\ r \in Reqs /\ r \notin Events /\ AnswersInv
    BY NamesAssumption DEF RecordsInv
  <1>1. /\ Onward /\ StatusStays
        /\ \A p \in Msgs \ {r} : rpc'[p] = rpc[p]
    BY RenewalKeeps
  <1>2. UNCHANGED lis /\ \A q \in Reqs \ {r} : req'[q] = req[q]
    BY DEF Ends, Asks, Switches, OnlyReq
  <1>3. SendersInv' <=>
          /\ \A p \in Msgs : rpc'[p].st # "none" /\ rpc'[p].kind # "create" => Backed(p)'
          /\ \A q \in RenewalReqs : SendersOf(q)'
          /\ \A e \in Events : ListensTo(e)'
    BY DEF SendersInv, SendersOf, ListensTo, Backed, Paid
  <1>4. \A e \in Events : ListensTo(e)'
    <2>1. \A e \in Events : e \in Msgs \ {r}
      BY <1>0, NamesAssumption
    <2> QED
      BY <1>1, <1>2, <2>1 DEF SendersInv, ListensTo
  <1>5. \A q \in RenewalReqs \ {r} : SendersOf(q)'
    BY <1>0, <1>1, <1>2 DEF SendersInv, SendersOf
  <1>6. ASSUME NEW p \in Msgs \ {r}, rpc'[p].st # "none", rpc'[p].kind # "create"
        PROVE  Backed(p)'
    BY <1>1, <1>6, BackedStays
  <1>7. CASE Ends(r)
    <2>1. UNCHANGED rpc
      BY <1>7 DEF Ends
    <2>2. rpc'[r].st # "none" /\ rpc'[r].kind # "create" => Backed(r)'
      BY <1>0, <1>1, <2>1, BackedStays
    <2>3. SendersOf(r)'
      <3>1. req'[r].pc = "done"
        BY <1>7 DEF Ends
      <3>2. CASE req'[r].sub = req[r].sub
        BY <2>1, <3>1, <3>2 DEF SendersInv, SendersOf
      <3>3. CASE req[r].pc = "start" /\ req'[r].sub \in ActiveOf(UserOf[r])
        <4>1. rpc'[r].st = "none"
          BY <1>0, <2>1, <3>3 DEF AnswersInv
        <4>2. req'[r].sub \in CreateReqs /\ UserOf[req'[r].sub] = UserOf[r]
          BY <3>3 DEF ActiveOf
        <4> QED
          BY <3>1, <4>1, <4>2 DEF SendersOf
      <3> QED
        BY <1>7, <3>2, <3>3 DEF Ends
    <2> QED
      BY <1>3, <1>4, <1>5, <1>6, <2>2, <2>3
  <1>8. ASSUME NEW s \in CreateReqs, Asks(r, s)
        PROVE  SendersInv'
    <2>1. /\ UNCHANGED <<subs, stripe>> /\ subs[s].status = "ACTIVE" /\ UserOf[s] = UserOf[r]
          /\ Sent(r, RenewalKind(r), s, subs[s].ext)
          /\ req'[r].sub = s /\ req'[r].pc = "wait"
      BY <1>8 DEF Asks, OnlyReq, ActiveOf
    <2>2. Backed(r)'
      BY <1>0, <2>1, BackedSent
    <2>3. SendersOf(r)'
      BY <2>1 DEF SendersOf, Sent
    <2> QED
      BY <1>3, <1>4, <1>5, <1>6, <2>2, <2>3
  <1>9. ASSUME NEW s \in CreateReqs, Switches(r, s)
        PROVE  SendersInv'
    <2>1. UNCHANGED rpc /\ req'[r].sub = req[r].sub /\ req'[r].pc = "done"
      BY <1>9 DEF Switches
    <2>2. rpc'[r].st # "none" /\ rpc'[r].kind # "create" => Backed(r)'
      BY <1>0, <1>1, <2>1, BackedStays
    <2>3. SendersOf(r)'
      BY <2>1 DEF SendersInv, SendersOf
    <2> QED
      BY <1>3, <1>4, <1>5, <1>6, <2>2, <2>3
  <1> QED
    BY <1>7, <1>8, <1>9

LEMMA ListenerSenders ==
  ASSUME RecordsInv, SendersInv, NEW e \in Events,
         \/ Skips(e)
         \/ \E s \in CreateReqs : Activates(e, s) \/ Takes(e, s)
         \/ \E s : Disables(e, s)
  PROVE  SendersInv'
  <1>0. e \in Msgs /\ e \notin Reqs /\ AnswersInv
    BY NamesAssumption DEF RecordsInv
  <1>1. /\ Onward /\ StatusStays
        /\ \A p \in Msgs \ {e} : rpc'[p] = rpc[p]
    BY ListenerKeeps
  <1>2. UNCHANGED req /\ \A f \in Events \ {e} : lis'[f] = lis[f]
    BY DEF Skips, Activates, Takes, Disables, OnlyLis
  <1>3. SendersInv' <=>
          /\ \A p \in Msgs : rpc'[p].st # "none" /\ rpc'[p].kind # "create" => Backed(p)'
          /\ \A q \in RenewalReqs : SendersOf(q)'
          /\ \A f \in Events : ListensTo(f)'
    BY DEF SendersInv, SendersOf, ListensTo, Backed, Paid
  <1>4. \A f \in Events \ {e} : ListensTo(f)'
    BY <1>1, <1>2 DEF SendersInv, ListensTo
  <1>5. \A q \in RenewalReqs : SendersOf(q)'
    <2>1. \A q \in RenewalReqs : q \in Msgs \ {e}
      BY <1>0
    <2> QED
      BY <1>1, <1>2, <2>1 DEF SendersInv, SendersOf
  <1>6. ASSUME NEW p \in Msgs \ {e}, rpc'[p].st # "none", rpc'[p].kind # "create"
        PROVE  Backed(p)'
    BY <1>1, <1>6, BackedStays
  <1>7. ASSUME UNCHANGED rpc, lis'[e].prev = lis[e].prev,
               lis'[e].st # "wait",
               lis'[e].st \in {"none", "queued", "find", "dropped"} =>
                   lis[e].st \in {"none", "queued", "find", "dropped"}
        PROVE  SendersInv'
    <2>1. rpc'[e].st # "none" /\ rpc'[e].kind # "create" => Backed(e)'
      BY <1>0, <1>1, <1>7, BackedStays
    <2>2. ListensTo(e)'
      BY <1>7 DEF SendersInv, ListensTo
    <2> QED
      BY <1>3, <1>4, <1>5, <1>6, <2>1, <2>2
  <1>8. ASSUME NEW s \in CreateReqs, Takes(e, s)
        PROVE  SendersInv'
    <2>1. /\ UNCHANGED <<subs, stripe>> /\ subs[s].status = "ACTIVE"
          /\ Sent(e, "disable", s, subs[s].ext)
          /\ lis'[e].prev = s /\ lis'[e].st = "wait"
      BY <1>8 DEF Takes, OnlyLis, RenewingBesides, ActiveOf
    <2>2. Backed(e)'
      BY <1>0, <2>1, BackedSent
    <2>3. ListensTo(e)'
      BY <2>1, NoneIsNoName DEF ListensTo, Sent
    <2> QED
      BY <1>3, <1>4, <1>5, <1>6, <2>2, <2>3
  <1> QED
    BY <1>7, <1>8 DEF Skips, Activates, Disables

LEMMA OutsideSenders ==
  ASSUME RecordsInv, SendersInv, Onward, Outside
  PROVE  SendersInv'
  <1>1. StatusStays
    BY OutsideSticks
  <1>2. \A p \in Msgs : /\ rpc'[p].st # "none" => rpc[p].st # "none" /\ rpc'[p].gid = rpc[p].gid
                        /\ rpc[p].st # "none" => rpc'[p].st # "none"
    BY DEF Onward, Outside
  <1>3. SendersInv' <=>
          /\ \A p \in Msgs : rpc'[p].st # "none" /\ rpc'[p].kind # "create" => Backed(p)'
          /\ \A q \in RenewalReqs : SendersOf(q)'
          /\ \A f \in Events : ListensTo(f)'
    BY DEF SendersInv, SendersOf, ListensTo, Backed, Paid
  <1>4. \A p \in Msgs : rpc'[p].st # "none" /\ rpc'[p].kind # "create" => Backed(p)'
    BY <1>1, <1>2, BackedStays
  <1>5. \A q \in RenewalReqs : SendersOf(q)'
    BY <1>2 DEF Outside, SendersInv, SendersOf
  <1>6. ASSUME NEW e \in Events PROVE ListensTo(e)'
    <2>1. CASE lis'[e] = lis[e]
      BY <1>2, <2>1 DEF SendersInv, ListensTo
    <2>2. CASE lis[e].st = "none" /\ lis'[e].st = "queued" /\ lis'[e].prev = None
      <3>1. rpc'[e].st = "none"
        BY <1>2, <2>2 DEF RecordsInv, AnswersInv
      <3> QED
        BY <2>2, <3>1 DEF ListensTo
    <2> QED
      BY <2>1, <2>2 DEF Outside
  <1> QED
    BY <1>3, <1>4, <1>5, <1>6

LEMMA CrashSenders ==
  ASSUME RecordsInv, SendersInv, GatewayCrash
  PROVE  SendersInv'
  <1>1. /\ Onward /\ StatusStays /\ UNCHANGED <<rpc, subs>>
        /\ \A r \in Reqs : \/ req'[r] = req[r]
                           \/ /\ req[r].pc # "done" /\ req'[r].pc = "done"
                              /\ req'[r].sub = req[r].sub /\ req'[r].res = "lost"
        /\ \A e \in Events : \/ lis'[e] = lis[e]
                             \/ lis'[e].st = "lost" /\ lis'[e].prev = lis[e].prev
    BY GatewayCrashKeeps
  <1>2. SendersInv' <=>
          /\ \A p \in Msgs : rpc'[p].st # "none" /\ rpc'[p].kind # "create" => Backed(p)'
          /\ \A q \in RenewalReqs : SendersOf(q)'
          /\ \A f \in Events : ListensTo(f)'
    BY DEF SendersInv, SendersOf, ListensTo, Backed, Paid
  <1>3. \A p \in Msgs : rpc'[p].st # "none" /\ rpc'[p].kind # "create" => Backed(p)'
    BY <1>1, BackedStays
  <1>4. \A q \in RenewalReqs : SendersOf(q)'
    BY <1>1 DEF SendersInv, SendersOf
  <1>5. \A e \in Events : ListensTo(e)'
    BY <1>1 DEF SendersInv, ListensTo
  <1> QED
    BY <1>2, <1>3, <1>4, <1>5

\* The rows a listener relates stay what they were once it has taken one.
LEMMA PreviousStays ==
  ASSUME PreviousInv, StatusStays,
         \A e \in Events : lis'[e].prev # None =>
             lis'[e].prev = lis[e].prev /\ lis'[e].gid = lis[e].gid
  PROVE  PreviousInv'
  BY DEF PreviousInv, StatusStays

LEMMA TakesPrevious ==
  ASSUME RecordsInv, PreviousInv, NEW e \in Events, NEW s \in CreateReqs, Takes(e, s)
  PROVE  PreviousInv'
  <1>1. /\ lis[e].gid \in CreateReqs
        /\ subs[lis[e].gid].status \in {"ACTIVE", "deleted"}
    BY DEF RecordsInv, IInv, ListenersInv, Takes
  <1>2. s # lis[e].gid /\ UserOf[s] = UserOf[lis[e].gid] /\ subs[s].status = "ACTIVE"
    BY DEF Takes, RenewingBesides, ActiveOf
  <1>3. /\ lis'[e].gid = lis[e].gid /\ lis'[e].prev = s /\ UNCHANGED subs
        /\ \A f \in Events \ {e} : lis'[f] = lis[f]
    BY DEF Takes, OnlyLis
  <1>4. ASSUME NEW f \in Events, lis'[f].prev # None
        PROVE  /\ lis'[f].gid \in CreateReqs /\ lis'[f].prev \in CreateReqs \ {lis'[f].gid}
               /\ UserOf[lis'[f].gid] = UserOf[lis'[f].prev]
               /\ subs'[lis'[f].gid].status \in {"ACTIVE", "deleted"}
               /\ subs'[lis'[f].prev].status \in {"ACTIVE", "deleted"}
    <2>1. CASE f = e
      BY <1>1, <1>2, <1>3, <2>1
    <2>2. CASE f # e
      BY <1>3, <1>4, <2>2 DEF PreviousInv
    <2> QED
      BY <2>1, <2>2
  <1> QED
    BY <1>4 DEF PreviousInv
-----------------------------------------------------------------------------
(* Which rows renew: PairsInv and OffInv *)

LEMMA LeftStays ==
  ASSUME SendersInv, Sticks, NEW s, NEW t \in CreateReqs, subs'[t].ext = subs[t].ext,
         LeftRenewing(s, t)
  PROVE  LeftRenewing(s, t)'
  <1>1. CASE subs[t].ext \in lapsed
    BY <1>1 DEF LeftRenewing, Sticks
  <1>2. ASSUME NEW r \in EnableReqs, req[r].sub = t, req[r].res = "ok"
        PROVE  LeftRenewing(s, t)'
    BY <1>2 DEF LeftRenewing, Sticks
  <1>3. ASSUME NEW e \in Events, lis[e].gid = s, lis[e].st = "lost"
        PROVE  LeftRenewing(s, t)'
    BY <1>3 DEF LeftRenewing, Sticks
  <1>4. ASSUME NEW e \in Events, lis[e].gid = s, lis[e].prev \notin {None, t}
        PROVE  LeftRenewing(s, t)'
    BY <1>4 DEF LeftRenewing, Sticks, SendersInv
  <1>5. ASSUME NEW e \in Events, lis[e].gid = s, lis[e].prev = t, rpc[e].reply = "no"
        PROVE  LeftRenewing(s, t)'
    <2>1. t # None
      BY NoneIsNoName
    <2> QED
      BY <1>5, <2>1 DEF LeftRenewing, Sticks, SendersInv
  <1> QED
    BY <1>1, <1>2, <1>3, <1>4, <1>5 DEF LeftRenewing

LEMMA SwitchedStays ==
  ASSUME Sticks, NEW s \in CreateReqs, NEW t, SwitchedOff(s, t)
  PROVE  SwitchedOff(s, t)'
  <1>1. PICK e \in Events : /\ lis[e].gid = t /\ lis[e].prev = s
                            /\ lis[e].st \in {"upgrade", "done", "lost"} /\ rpc[e].reply = "yes"
    BY DEF SwitchedOff
  <1>2. s # None
    BY NoneIsNoName
  <1> QED
    BY <1>1, <1>2 DEF SwitchedOff, Sticks

\* The pairs after a step, from what it does to the listeners still to act and
\* from the rows that come to renew.
StillPending ==
    \A s, t \in CreateReqs :
        s # t /\ UserOf[s] = UserOf[t] /\ Renews(s)' /\ Renews(t)' /\ Pending(s, t) =>
            Pending(s, t)' \/ LeftRenewing(s, t)' \/ LeftRenewing(t, s)'

NewRenews(s) ==
    \/ \E r \in EnableReqs : req'[r].sub = s /\ req'[r].res = "ok"
    \/ \E e \in Events : lis'[e].gid = s /\ lis'[e].st = "find"

RenewsFrom ==
    \A s \in CreateReqs : Renews(s)' =>
        \/ NewRenews(s)
        \/ Renews(s) /\ subs'[s].ext = subs[s].ext

LEMMA PairsMove ==
  ASSUME SendersInv, PairsInv, Sticks, StillPending, RenewsFrom
  PROVE  PairsInv'
  <1> SUFFICES ASSUME NEW s \in CreateReqs, NEW t \in CreateReqs, s # t,
                      UserOf[s] = UserOf[t], Renews(s)', Renews(t)'
               PROVE  \/ Pending(s, t)' \/ Pending(t, s)'
                      \/ LeftRenewing(s, t)' \/ LeftRenewing(t, s)'
    BY DEF PairsInv
  <1>1. CASE NewRenews(s)
    BY <1>1 DEF NewRenews, Pending, LeftRenewing
  <1>2. CASE NewRenews(t)
    BY <1>2 DEF NewRenews, Pending, LeftRenewing
  <1>3. CASE /\ Renews(s) /\ subs'[s].ext = subs[s].ext
             /\ Renews(t) /\ subs'[t].ext = subs[t].ext
    <2>1. \/ Pending(s, t) \/ Pending(t, s)
          \/ LeftRenewing(s, t) \/ LeftRenewing(t, s)
      BY <1>3 DEF PairsInv
    <2>2. CASE LeftRenewing(s, t)
      BY <1>3, <2>2, LeftStays
    <2>3. CASE LeftRenewing(t, s)
      BY <1>3, <2>3, LeftStays
    <2>4. CASE Pending(s, t) \/ Pending(t, s)
      BY <2>4 DEF StillPending
    <2> QED
      BY <2>1, <2>2, <2>3, <2>4
  <1> QED
    BY <1>1, <1>2, <1>3 DEF RenewsFrom

SameListeners ==
    \A e \in Events : lis[e].st \in {"find", "wait"} => lis'[e] = lis[e]

LEMMA SamePending ==
  ASSUME SameListeners
  PROVE  StillPending
  BY DEF SameListeners, StillPending, Pending

\* The rows that do not renew, likewise.
OffFrom ==
    \A s \in CreateReqs :
      /\ subs'[s].status = "PENDING" => subs'[s].auto
      /\ subs'[s].status = "ACTIVE" /\ ~subs'[s].auto =>
           \/ subs[s].status = "ACTIVE" /\ ~subs[s].auto
           \/ \E r \in CancelReqs : req'[r].sub = s /\ req'[r].res = "ok"
           \/ \E t \in CreateReqs \ {s} : /\ UserOf[t] = UserOf[s]
                                          /\ subs'[t].status \in {"ACTIVE", "deleted"}
                                          /\ SwitchedOff(s, t)'

LEMMA OffMove ==
  ASSUME OffInv, Sticks, StatusStays, OffFrom
  PROVE  OffInv'
  <1> SUFFICES ASSUME NEW s \in CreateReqs, subs'[s].status = "ACTIVE", ~subs'[s].auto
               PROVE  \/ \E r \in CancelReqs : req'[r].sub = s /\ req'[r].res = "ok"
                      \/ \E t \in CreateReqs \ {s} : /\ UserOf[t] = UserOf[s]
                                                     /\ subs'[t].status \in {"ACTIVE", "deleted"}
                                                     /\ SwitchedOff(s, t)'
    BY DEF OffInv, OffFrom
  <1>1. CASE subs[s].status = "ACTIVE" /\ ~subs[s].auto
    <2>1. CASE \E r \in CancelReqs : req[r].sub = s /\ req[r].res = "ok"
      BY <2>1 DEF Sticks
    <2>2. ASSUME NEW t \in CreateReqs \ {s}, UserOf[t] = UserOf[s],
                 subs[t].status \in {"ACTIVE", "deleted"}, SwitchedOff(s, t)
          PROVE  subs'[t].status \in {"ACTIVE", "deleted"} /\ SwitchedOff(s, t)'
      BY <2>2, SwitchedStays DEF StatusStays
    <2> QED
      BY <1>1, <2>1, <2>2 DEF OffInv
  <1> QED
    BY <1>1 DEF OffFrom

LEMMA SameRenewing ==
  ASSUME SendersInv, PairsInv, OffInv, Sticks, StatusStays, UNCHANGED subs, StillPending
  PROVE  PairsInv' /\ OffInv'
  <1>1. RenewsFrom
    BY DEF RenewsFrom, Renews
  <1>2. OffFrom
    BY DEF OffInv, OffFrom
  <1> QED
    BY <1>1, <1>2, PairsMove, OffMove

LEMMA CreatesRenewing ==
  ASSUME RecordsInv, SendersInv, PairsInv, OffInv, NEW r \in CreateReqs, Creates(r)
  PROVE  PairsInv' /\ OffInv'
  <1>1. Sticks /\ StatusStays
    BY CreatesKeeps
  <1>2. SameListeners
    BY DEF Creates, OnlyReq, SameListeners
  <1>3. RenewsFrom
    BY DEF Creates, RenewsFrom, Renews
  <1>4. OffFrom
    BY DEF Creates, OffInv, OffFrom
  <1> QED
    BY <1>1, <1>2, <1>3, <1>4, SamePending, PairsMove, OffMove

LEMMA RenewalRenewing ==
  ASSUME RecordsInv, KindsInv, SendersInv, PairsInv, OffInv, NEW r \in RenewalReqs,
         Ends(r) \/ \E s \in CreateReqs : Asks(r, s) \/ Switches(r, s)
  PROVE  PairsInv' /\ OffInv'
  <1>0. r \in Msgs /\ r \notin CreateReqs /\ PayableInv
    BY RequestsAssumption DEF RecordsInv
  <1>1. Sticks /\ StatusStays
    BY RenewalKeeps
  <1>2. SameListeners
    BY DEF Ends, Asks, Switches, OnlyReq, SameListeners
  <1>3. StillPending
    BY <1>2, SamePending
  <1>4. CASE UNCHANGED subs
    BY <1>1, <1>3, <1>4, SameRenewing
  <1>5. ASSUME NEW s \in CreateReqs, Switches(r, s)
        PROVE  PairsInv' /\ OffInv'
    <2>1. /\ rpc[r].reply = "yes" /\ req[r].sub = s
          /\ req'[r].res = "ok" /\ req'[r].sub = s
          /\ subs'[s].status = subs[s].status /\ subs'[s].ext = subs[s].ext
          /\ subs'[s].auto = Wanted(r)
          /\ \A t \in CreateReqs \ {s} : subs'[t] = subs[t]
      BY <1>5 DEF Switches
    <2>2. subs[s].status \in {"ACTIVE", "deleted"}
      <3>1. rpc[r].st # "none"
        BY <1>0, <2>1 DEF PayableInv, Payable
      <3>2. rpc[r].kind # "create" /\ rpc[r].gid = s
        BY <1>0, <2>1, <3>1 DEF KindsInv, SendersInv
      <3> QED
        BY <1>0, <3>1, <3>2 DEF SendersInv
    <2>3. RenewsFrom
      <3>1. Renews(s)' => NewRenews(s)
        BY <2>1 DEF Renews, NewRenews, Wanted
      <3> QED
        BY <2>1, <3>1 DEF RenewsFrom, Renews
    <2>4. OffFrom
      <3>1. subs'[s].status = "ACTIVE" /\ ~subs'[s].auto =>
              \E q \in CancelReqs : req'[q].sub = s /\ req'[q].res = "ok"
        BY <2>1 DEF Wanted
      <3>2. subs'[s].status # "PENDING"
        BY <2>1, <2>2
      <3> QED
        BY <2>1, <3>1, <3>2 DEF OffInv, OffFrom
    <2> QED
      BY <1>1, <1>3, <2>3, <2>4, PairsMove, OffMove
  <1> QED
    BY <1>4, <1>5 DEF Ends, Asks

LEMMA ActivatesRenewing ==
  ASSUME RecordsInv, SendersInv, PairsInv, OffInv,
         NEW e \in Events, NEW s \in CreateReqs, Activates(e, s)
  PROVE  PairsInv' /\ OffInv'
  <1>1. Sticks /\ StatusStays
    BY ListenerKeeps
  <1>2. SameListeners
    BY DEF Activates, OnlyLis, SameListeners
  <1>3. RenewsFrom
    <2>1. NewRenews(s)
      BY DEF Activates, OnlyLis, NewRenews
    <2> QED
      BY <2>1 DEF Activates, RenewsFrom, Renews
  <1>4. OffFrom
    <2>1. subs'[s].status = "ACTIVE" /\ (~subs'[s].auto => subs[s].status = "ACTIVE" /\ ~subs[s].auto)
      BY DEF Activates, Exists, OffInv
    <2> QED
      BY <2>1 DEF Activates, OffInv, OffFrom
  <1> QED
    BY <1>1, <1>2, <1>3, <1>4, SamePending, PairsMove, OffMove

LEMMA SkipsRenewing ==
  ASSUME RecordsInv, SendersInv, PairsInv, OffInv, NEW e \in Events, Skips(e)
  PROVE  PairsInv' /\ OffInv'
  <1>1. Sticks /\ StatusStays
    BY ListenerKeeps
  <1>2. /\ UNCHANGED <<subs, lapsed>>
        /\ \A f \in Events \ {e} : lis'[f] = lis[f]
        /\ lis[e].st # "wait"
        /\ lis[e].st = "find" => RenewingBesides(lis[e].gid) = {}
    BY DEF Skips, OnlyLis
  <1>3. StillPending
    <2> SUFFICES ASSUME NEW s \in CreateReqs, NEW t \in CreateReqs, s # t,
                        UserOf[s] = UserOf[t], Renews(s)', Renews(t)', Pending(s, t)
                 PROVE  Pending(s, t)' \/ LeftRenewing(s, t)'
      BY DEF StillPending
    <2>1. PICK f \in Events : /\ lis[f].gid = s
                              /\ lis[f].st = "find" \/ (lis[f].st = "wait" /\ lis[f].prev = t)
      BY DEF Pending
    <2>2. CASE f # e
      <3>1. lis'[f] = lis[f]
        BY <1>2, <2>2
      <3> QED
        BY <2>1, <3>1 DEF Pending
    <2>3. CASE f = e
      <3>1. RenewingBesides(s) = {}
        BY <1>2, <2>1, <2>3
      <3>2. subs[t].ext \in lapsed
        BY <1>2, <3>1 DEF RenewingBesides, ActiveOf, Renews
      <3> QED
        BY <1>2, <3>2 DEF LeftRenewing
    <2> QED
      BY <2>2, <2>3
  <1> QED
    BY <1>1, <1>2, <1>3, SameRenewing

LEMMA TakesRenewing ==
  ASSUME RecordsInv, SendersInv, PairsInv, OffInv,
         NEW e \in Events, NEW x \in CreateReqs, Takes(e, x)
  PROVE  PairsInv' /\ OffInv'
  <1>1. Sticks /\ StatusStays
    BY ListenerKeeps
  <1>2. /\ UNCHANGED <<subs, lapsed>>
        /\ \A f \in Events \ {e} : lis'[f] = lis[f]
        /\ lis'[e].gid = lis[e].gid /\ lis'[e].st = "wait" /\ lis'[e].prev = x
    BY DEF Takes, OnlyLis
  <1>3. StillPending
    <2> SUFFICES ASSUME NEW s \in CreateReqs, NEW t \in CreateReqs, Pending(s, t)
                 PROVE  Pending(s, t)' \/ LeftRenewing(s, t)'
      BY DEF StillPending
    <2>1. PICK f \in Events : /\ lis[f].gid = s
                              /\ lis[f].st = "find" \/ (lis[f].st = "wait" /\ lis[f].prev = t)
      BY DEF Pending
    <2>2. CASE f # e
      <3>1. lis'[f] = lis[f]
        BY <1>2, <2>2
      <3> QED
        BY <2>1, <3>1 DEF Pending
    <2>3. CASE f = e /\ x = t
      BY <1>2, <2>1, <2>3 DEF Pending
    <2>4. CASE f = e /\ x # t
      <3>1. x # None
        BY NoneIsNoName
      <3>2. lis'[e].gid = s /\ lis'[e].prev \notin {None, t}
        BY <1>2, <2>1, <2>4, <3>1
      <3> QED
        BY <3>2 DEF LeftRenewing
    <2> QED
      BY <2>2, <2>3, <2>4
  <1> QED
    BY <1>1, <1>2, <1>3, SameRenewing

LEMMA DisablesRenewing ==
  ASSUME RecordsInv, SendersInv, PreviousInv, PairsInv, OffInv,
         NEW e \in Events, NEW x, Disables(e, x)
  PROVE  PairsInv' /\ OffInv'
  <1>1. Sticks /\ StatusStays
    BY ListenerKeeps
  <1>2. /\ UNCHANGED rpc /\ rpc[e].reply \in {"yes", "no"}
        /\ \A f \in Events \ {e} : lis'[f] = lis[f]
        /\ lis'[e].gid = lis[e].gid /\ lis[e].prev = x /\ lis[e].st = "wait"
        /\ lis'[e].st = "upgrade" /\ lis'[e].prev = x
        /\ \A t \in CreateReqs :
             /\ subs'[t].status = subs[t].status /\ subs'[t].ext = subs[t].ext
             /\ subs'[t].auto = IF t = x /\ rpc[e].reply = "yes" /\ Exists(x) THEN FALSE
                                ELSE subs[t].auto
    BY DEF Disables, OnlyLis
  <1>3. x \in CreateReqs =>
          /\ lis[e].gid \in CreateReqs \ {x} /\ UserOf[lis[e].gid] = UserOf[x]
          /\ subs[lis[e].gid].status \in {"ACTIVE", "deleted"}
          /\ subs[x].status \in {"ACTIVE", "deleted"}
    BY <1>2, NoneIsNoName DEF PreviousInv
  <1>4. StillPending
    <2> SUFFICES ASSUME NEW s \in CreateReqs, NEW t \in CreateReqs, Renews(t)', Pending(s, t)
                 PROVE  Pending(s, t)' \/ LeftRenewing(s, t)'
      BY DEF StillPending
    <2>1. PICK f \in Events : /\ lis[f].gid = s
                              /\ lis[f].st = "find" \/ (lis[f].st = "wait" /\ lis[f].prev = t)
      BY DEF Pending
    <2>2. CASE f # e
      <3>1. lis'[f] = lis[f]
        BY <1>2, <2>2
      <3> QED
        BY <2>1, <3>1 DEF Pending
    <2>3. CASE f = e
      <3>1. x = t /\ lis'[e].gid = s /\ lis'[e].prev = t
        BY <1>2, <2>1, <2>3
      <3>2. subs'[t].auto /\ Exists(t)
        BY <1>2 DEF Renews, Exists
      <3>3. rpc'[e].reply = "no"
        BY <1>2, <3>1, <3>2
      <3> QED
        BY <3>1, <3>3 DEF LeftRenewing
    <2> QED
      BY <2>2, <2>3
  <1>5. RenewsFrom
    BY <1>2 DEF RenewsFrom, Renews
  <1>6. OffFrom
    <2> SUFFICES ASSUME NEW s \in CreateReqs
                 PROVE  /\ subs'[s].status = "PENDING" => subs'[s].auto
                        /\ subs'[s].status = "ACTIVE" /\ ~subs'[s].auto =>
                             \/ subs[s].status = "ACTIVE" /\ ~subs[s].auto
                             \/ \E t \in CreateReqs \ {s} :
                                  /\ UserOf[t] = UserOf[s]
                                  /\ subs'[t].status \in {"ACTIVE", "deleted"}
                                  /\ SwitchedOff(s, t)'
      BY DEF OffFrom
    <2>1. CASE s = x /\ rpc[e].reply = "yes"
      <3> DEFINE t == lis[e].gid
      <3>1. /\ t \in CreateReqs \ {s} /\ UserOf[t] = UserOf[s]
            /\ subs[t].status \in {"ACTIVE", "deleted"} /\ subs[s].status # "PENDING"
        BY <1>3, <2>1
      <3>2. subs'[t].status \in {"ACTIVE", "deleted"} /\ subs'[s].status # "PENDING"
        BY <1>2, <3>1
      <3>3. /\ lis'[e].gid = t /\ lis'[e].prev = s /\ lis'[e].st = "upgrade"
            /\ rpc'[e].reply = "yes"
        BY <1>2, <2>1
      <3>4. \E u \in CreateReqs \ {s} : /\ UserOf[u] = UserOf[s]
                                        /\ subs'[u].status \in {"ACTIVE", "deleted"}
                                        /\ SwitchedOff(s, u)'
        BY <3>1, <3>2, <3>3 DEF SwitchedOff
      <3> QED
        BY <3>2, <3>4
    <2>2. CASE ~(s = x /\ rpc[e].reply = "yes")
      BY <1>2, <2>2 DEF OffInv
    <2> QED
      BY <2>1, <2>2
  <1> QED
    BY <1>1, <1>4, <1>5, <1>6, PairsMove, OffMove

LEMMA CrashRenewing ==
  ASSUME RecordsInv, SendersInv, PairsInv, OffInv, GatewayCrash
  PROVE  PairsInv' /\ OffInv'
  <1>1. /\ Sticks /\ StatusStays /\ UNCHANGED subs
        /\ \A e \in Events : \/ lis'[e] = lis[e]
                             \/ lis'[e].st = "lost" /\ lis'[e].gid = lis[e].gid
    BY GatewayCrashKeeps
  <1>2. StillPending
    BY <1>1 DEF StillPending, Pending, LeftRenewing
  <1> QED
    BY <1>1, <1>2, SameRenewing

LEMMA OutsideRenewing ==
  ASSUME RecordsInv, SendersInv, PairsInv, OffInv, Outside
  PROVE  PairsInv' /\ OffInv'
  <1>1. Sticks /\ StatusStays
    BY OutsideSticks
  <1>2. SameListeners /\ UNCHANGED subs
    BY DEF Outside, SameListeners
  <1> QED
    BY <1>1, <1>2, SamePending, SameRenewing
-----------------------------------------------------------------------------
(* The payments rows before their payment is saved: UntouchedInv *)

LEMMA UntouchedStays ==
  ASSUME UntouchedInv, UNCHANGED <<prow, stripe>>,
         \A p \in Msgs : rpc'[p].st = "saverow" => rpc'[p] = rpc[p]
  PROVE  UntouchedInv'
  BY DEF UntouchedInv

LEMMA MsgUntouched ==
  ASSUME RecordsInv, SendersInv, UntouchedInv, NEW p \in Msgs,
         \/ Serves(p) \/ Refuses(p) \/ ReachesTable(p)
         \/ \E k \in PayIds : ReachesStripe(p, k)
  PROVE  UntouchedInv'
  <1>1. CASE Serves(p)
    <2>1. \A w \in Msgs : Untouched(prow'[w])
      BY <1>1 DEF Serves, UntouchedInv, Untouched
    <2>2. \A q \in Msgs : rpc'[q].st = "saverow" => Untouched(rpc'[q].snap)
      BY <1>1 DEF Serves, OnlyMsg, UntouchedInv
    <2>3. \A k \in PayIds : stripe'[k].st \in {"none", "open"} => ~stripe'[k].cancel
      BY <1>1 DEF Serves, UntouchedInv
    <2> QED
      BY <2>1, <2>2, <2>3 DEF UntouchedInv, Untouched
  <1>2. CASE Refuses(p)
    BY <1>2, UntouchedStays DEF Refuses, OnlyMsg
  <1>3. CASE ReachesTable(p)
    <2>1. rpc[p].ext # None
      BY <1>3, NoneIsNoName DEF ReachesTable, OnlyMsg, SendersInv, Paid
    <2>2. \A w \in Msgs : Untouched(prow'[w])
      BY <1>3, <2>1 DEF ReachesTable, UntouchedInv, Untouched
    <2>3. \A q \in Msgs : rpc'[q].st = "saverow" => rpc'[q] = rpc[q]
      BY <1>3 DEF ReachesTable, OnlyMsg
    <2> QED
      BY <1>3, <2>2, <2>3 DEF UntouchedInv, Untouched, ReachesTable
  <1>4. ASSUME NEW k \in PayIds, ReachesStripe(p, k)
        PROVE  UntouchedInv'
    <2>1. \A q \in Msgs : rpc'[q].st = "saverow" => rpc'[q] = rpc[q]
      BY <1>4 DEF ReachesStripe, OnlyMsg
    <2>2. \A j \in PayIds : stripe'[j].st \in {"none", "open"} => ~stripe'[j].cancel
      BY <1>4 DEF ReachesStripe, UntouchedInv
    <2> QED
      BY <1>4, <2>1, <2>2 DEF UntouchedInv, Untouched, ReachesStripe
  <1> QED
    BY <1>1, <1>2, <1>3, <1>4

LEMMA HookUntouched ==
  ASSUME RecordsInv, UntouchedInv, NEW k \in PayIds,
         \/ HookTurns(k) \/ Pays(k)
         \/ \E w \in Msgs : HookSaves(k, w)
         \/ \E e \in Events : HookEmits(k, e)
  PROVE  UntouchedInv'
  <1>1. UNCHANGED rpc
    BY HookKeeps
  <1>2. \A w \in Msgs : prow'[w] = prow[w] \/ prow'[w].status = "active"
    BY DEF HookTurns, Pays, HookSaves, HookEmits
  <1>3. \A j \in PayIds : stripe'[j].st \in {"none", "open"} => ~stripe'[j].cancel
    BY DEF HookTurns, Pays, HookSaves, HookEmits, OnlyHook, UntouchedInv
  <1> QED
    BY <1>1, <1>2, <1>3 DEF UntouchedInv, Untouched
-----------------------------------------------------------------------------
(* What happens once without restarts: OnceInv *)

LEMMA OrderlyBefore ==
  ASSUME Onward, NEW s, Orderly(s)'
  PROVE  Orderly(s)
  <1>1. NoRestart
    BY DEF Orderly, Onward
  <1>2. \A k \in PayIds : Paid(k, s) => Paid(k, s)'
    BY DEF Onward, Paid
  <1>3. \A kind : Renewals(s, kind) \subseteq Renewals(s, kind)'
    BY DEF Onward, Renewals
  <1> QED
    BY <1>1, <1>2, <1>3 DEF Orderly

LEMMA OnceByGateway ==
  ASSUME RecordsInv, OnceInv, Onward, UNCHANGED <<hook, prow, stripe>>,
         \A e \in Events : lis'[e].st # "none" =>
             lis[e].st # "none" /\ lis'[e].ext = lis[e].ext /\ lis'[e].st # "lost",
         \A s \in CreateReqs : subs'[s].status = "ACTIVE" =>
             \/ subs[s].status = "ACTIVE" /\ subs'[s].ext = subs[s].ext
             \/ \E e \in Events : lis[e].st # "none" /\ subs'[s].ext = lis[e].ext,
         \A p \in Msgs : \/ rpc'[p] = rpc[p]
                         \/ /\ rpc'[p].reply = "none"
                            /\ \/ rpc'[p].kind = "create"
                               \/ \E s \in CreateReqs : subs[s].status = "ACTIVE"
                                                        /\ rpc'[p].ext = subs[s].ext
  PROVE  OnceInv'
  <1> SUFFICES ASSUME NoRestart' PROVE OnceInv'
    BY DEF OnceInv
  <1>0. NoRestart
    BY DEF Onward
  <1>1. \A k \in PayIds : hook'[k].pc \in {"idle", "due", "save"} =>
          \A w \in Msgs : prow'[w].ext # k
    BY <1>0 DEF OnceInv
  <1>2. ASSUME NEW k \in PayIds, NEW s \in CreateReqs,
               hook'[k].pc = "save", stripe'[k].gid = s, Orderly(s)'
        PROVE  hook'[k].snap.ext = None /\ hook'[k].snap.auto
    BY <1>0, <1>2, OrderlyBefore DEF OnceInv
  <1>3. \A e \in Events : /\ lis'[e].st # "none" => hook'[lis'[e].ext].pc = "done"
                          /\ lis'[e].st # "lost"
    BY <1>0 DEF OnceInv
  <1>4. \A s \in CreateReqs : subs'[s].status = "ACTIVE" => hook'[subs'[s].ext].pc = "done"
    BY <1>0 DEF OnceInv
  <1>5. ASSUME NEW p \in Msgs
        PROVE  /\ rpc'[p].st # "none" /\ rpc'[p].kind # "create" => hook'[rpc'[p].ext].pc = "done"
               /\ rpc'[p].reply # "none" => rpc'[p].st \in {"held", "acked"}
    <2>1. CASE rpc'[p] = rpc[p]
      BY <1>0, <2>1 DEF OnceInv
    <2>2. CASE rpc'[p].reply = "none" /\ rpc'[p].kind = "create"
      BY <2>2
    <2>3. ASSUME NEW s \in CreateReqs, rpc'[p].reply = "none", subs[s].status = "ACTIVE",
                 rpc'[p].ext = subs[s].ext
          PROVE  rpc'[p].reply = "none" /\ hook'[rpc'[p].ext].pc = "done"
      BY <1>0, <2>3 DEF OnceInv
    <2> QED
      BY <2>1, <2>2, <2>3
  <1> QED
    BY <1>1, <1>2, <1>3, <1>4, <1>5 DEF OnceInv

LEMMA OnceByService ==
  ASSUME RecordsInv, SendersInv, OnceInv, Onward, Outside,
         \A j \in PayIds : hook[j].pc = "done" => hook'[j].pc = "done",
         \A e \in Events : \/ lis'[e] = lis[e]
                           \/ lis'[e].st = "queued" /\ hook'[lis'[e].ext].pc = "done",
         NoRestart => \A k \in PayIds : hook'[k].pc \in {"idle", "due", "save"} =>
             \A w \in Msgs : prow'[w].ext # k,
         NoRestart => \A k \in PayIds, s \in CreateReqs :
             hook'[k].pc = "save" /\ stripe'[k].gid = s /\ Orderly(s) =>
                 hook'[k].snap.ext = None /\ hook'[k].snap.auto,
         NoRestart => \A p \in Msgs : rpc'[p].reply # "none" => rpc'[p].st \in {"held", "acked"}
  PROVE  OnceInv'
  <1> SUFFICES ASSUME NoRestart' PROVE OnceInv'
    BY DEF OnceInv
  <1>0. NoRestart /\ UNCHANGED subs
    BY DEF Onward, Outside
  <1>1. \A k \in PayIds : hook'[k].pc \in {"idle", "due", "save"} =>
          \A w \in Msgs : prow'[w].ext # k
    BY <1>0
  <1>2. ASSUME NEW k \in PayIds, NEW s \in CreateReqs,
               hook'[k].pc = "save", stripe'[k].gid = s, Orderly(s)'
        PROVE  hook'[k].snap.ext = None /\ hook'[k].snap.auto
    BY <1>0, <1>2, OrderlyBefore
  <1>3. ASSUME NEW e \in Events
        PROVE  /\ lis'[e].st # "none" => hook'[lis'[e].ext].pc = "done"
               /\ lis'[e].st # "lost"
    <2>1. CASE lis'[e] = lis[e]
      <3>1. lis[e].st # "none" => lis[e].ext \in PayIds
        BY DEF RecordsInv, IInv, ListenersInv, Paid
      <3> QED
        BY <1>0, <2>1, <3>1 DEF OnceInv
    <2> QED
      BY <2>1
  <1>4. ASSUME NEW s \in CreateReqs, subs'[s].status = "ACTIVE"
        PROVE  hook'[subs'[s].ext].pc = "done"
    <2>1. subs[s].ext \in PayIds
      BY <1>0, <1>4 DEF RecordsInv, IInv, ActiveIsPaid, Paid
    <2> QED
      BY <1>0, <1>4, <2>1 DEF OnceInv
  <1>5. ASSUME NEW p \in Msgs, rpc'[p].st # "none", rpc'[p].kind # "create"
        PROVE  hook'[rpc'[p].ext].pc = "done"
    <2>1. rpc[p].st # "none" /\ rpc[p].kind # "create" /\ rpc'[p].ext = rpc[p].ext
      BY <1>5 DEF Outside, Onward
    <2>2. rpc[p].ext \in PayIds
      BY <2>1 DEF SendersInv, Paid
    <2> QED
      BY <1>0, <2>1, <2>2 DEF OnceInv
  <1>6. \A p \in Msgs : rpc'[p].reply # "none" => rpc'[p].st \in {"held", "acked"}
    BY <1>0
  <1> QED
    BY <1>1, <1>2, <1>3, <1>4, <1>5, <1>6 DEF OnceInv

LEMMA MsgOnce ==
  ASSUME RecordsInv, SendersInv, OnceInv, NEW p \in Msgs,
         \/ Serves(p) \/ Refuses(p) \/ ReachesTable(p)
         \/ \E k \in PayIds : ReachesStripe(p, k)
  PROVE  OnceInv'
  <1>1. Onward /\ Outside
    BY MsgKeeps
  <1>2. OnlyMsg(p)
    BY DEF Serves, Refuses, ReachesTable, ReachesStripe
  <1>3. UNCHANGED <<hook, lis>> /\ \A q \in Msgs \ {p} : rpc'[q] = rpc[q]
    BY <1>2 DEF OnlyMsg
  <1>4. \A w \in Msgs : prow'[w].ext = prow[w].ext \/ prow'[w].ext = None
    BY DEF Serves, Refuses, ReachesTable, ReachesStripe
  <1>5. NoRestart => \A k \in PayIds : hook'[k].pc \in {"idle", "due", "save"} =>
             \A w \in Msgs : prow'[w].ext # k
    BY <1>3, <1>4, NoneIsNoName DEF OnceInv
  <1>6. \A k \in PayIds : hook[k].pc = "save" => stripe'[k].gid = stripe[k].gid
    BY <1>1 DEF RecordsInv, IInv, SessionsInv, Onward
  <1>7. NoRestart => \A k \in PayIds, s \in CreateReqs :
             hook'[k].pc = "save" /\ stripe'[k].gid = s /\ Orderly(s) =>
                 hook'[k].snap.ext = None /\ hook'[k].snap.auto
    BY <1>3, <1>6 DEF OnceInv
  <1>8. ASSUME NoRestart, NEW q \in Msgs, rpc'[q].reply # "none"
        PROVE  rpc'[q].st \in {"held", "acked"}
    <2>1. rpc[q].reply # "none" => rpc[q].st \in {"held", "acked"}
      BY <1>8 DEF OnceInv
    <2>2. CASE q # p
      BY <1>3, <1>8, <2>1, <2>2
    <2>3. CASE q = p
      BY <1>8, <2>1, <2>3 DEF Serves, Refuses, ReachesTable, ReachesStripe
    <2> QED
      BY <2>2, <2>3
  <1> QED
    BY <1>1, <1>3, <1>5, <1>7, <1>8, OnceByService

LEMMA HookOnce ==
  ASSUME RecordsInv, SendersInv, UntouchedInv, OnceInv, NEW k \in PayIds,
         \/ HookTurns(k) \/ Pays(k)
         \/ \E w \in Msgs : HookSaves(k, w)
         \/ \E e \in Events : HookEmits(k, e)
  PROVE  OnceInv'
  <1>0. Onward /\ Outside /\ UNCHANGED rpc
    BY HookKeeps
  <1>1. NoRestart => \A p \in Msgs : rpc'[p].reply # "none" => rpc'[p].st \in {"held", "acked"}
    BY <1>0 DEF OnceInv
  <1>2. \A j \in PayIds \ {k} : hook'[j] = hook[j] /\ stripe'[j].gid = stripe[j].gid
    BY DEF HookTurns, Pays, HookSaves, HookEmits, OnlyHook
  <1>3. stripe'[k].gid = stripe[k].gid
    BY DEF HookTurns, Pays, HookSaves, HookEmits, OnlyHook
  <1>4. \A j \in PayIds : hook[j].pc = "done" => hook'[j].pc = "done"
    BY <1>2 DEF HookTurns, Pays, HookSaves, HookEmits
  <1>5. \A e \in Events : \/ lis'[e] = lis[e]
                          \/ lis'[e].st = "queued" /\ hook'[lis'[e].ext].pc = "done"
    BY DEF HookTurns, Pays, HookSaves, HookEmits
  <1>6. ASSUME NoRestart, NEW j \in PayIds, hook'[j].pc \in {"idle", "due", "save"},
               NEW w \in Msgs
        PROVE  prow'[w].ext # j
    <2>1. hook[j].pc \in {"idle", "due", "save"}
      BY <1>2, <1>6 DEF HookTurns, Pays, HookSaves, HookEmits
    <2>2. prow[w].ext # j
      BY <1>6, <2>1 DEF OnceInv
    <2>3. prow'[w].ext = prow[w].ext \/ (prow'[w].ext = k /\ hook'[k].pc \notin {"idle", "due", "save"})
      BY DEF HookTurns, Pays, HookSaves, HookEmits
    <2> QED
      BY <1>6, <2>2, <2>3
  <1>7. ASSUME NoRestart, NEW j \in PayIds, NEW s \in CreateReqs,
               hook'[j].pc = "save", stripe'[j].gid = s, Orderly(s)
        PROVE  hook'[j].snap.ext = None /\ hook'[j].snap.auto
    <2>1. CASE hook'[j] = hook[j]
      BY <1>2, <1>3, <1>7, <2>1 DEF OnceInv
    <2>2. CASE hook'[j] # hook[j]
      <3>1. j = k
        BY <1>2, <2>2
      <3>2. /\ hook[k].pc = "due" /\ hook'[k].row \in RowsFor(stripe[k].gid)
            /\ hook'[k].snap = prow[hook'[k].row]
        BY <1>7, <2>2, <3>1 DEF HookTurns, Pays, HookSaves, HookEmits
      <3> DEFINE w == hook'[k].row
      <3>3. w \in Msgs /\ prow[w].gid = s /\ stripe[k].gid = s
        BY <1>3, <1>7, <3>1, <3>2 DEF RowsFor
      <3>4. Paid(k, s)
        BY <3>2, <3>3 DEF RecordsInv, IInv, SessionsInv, Paid
      <3>5. prow[w].ext # k
        BY <1>7, <3>2, <3>3 DEF OnceInv
      <3>6. prow[w].status # "active"
        <4>1. SUFFICES ASSUME prow[w].status = "active" PROVE FALSE
          OBVIOUS
        <4>2. Paid(prow[w].ext, s) /\ prow[w].ext \in PayIds
          BY <3>3, <4>1 DEF RecordsInv, ActiveRowIsPaid, Paid
        <4> QED
          BY <1>7, <3>4, <3>5, <4>2 DEF Orderly
      <3>7. prow[w].ext = None /\ prow[w].auto
        BY <3>3, <3>6 DEF UntouchedInv, Untouched
      <3> QED
        BY <3>1, <3>2, <3>7
    <2> QED
      BY <2>1, <2>2
  <1> QED
    BY <1>0, <1>1, <1>4, <1>5, <1>6, <1>7, OnceByService
-----------------------------------------------------------------------------
(* Who asked waits *)

Unanswered(p) == rpc[p].st # "none" /\ rpc[p].kind # "create" /\ rpc[p].reply = "none"

Waits(p) ==
    \/ p \in RenewalReqs /\ req[p].pc = "wait"
    \/ p \in Events /\ lis[p].st = "wait"

LEMMA WaitingMove ==
  ASSUME WaitingInv, Onward,
         \A p \in Msgs : Unanswered(p)' => Waits(p)' \/ (Unanswered(p) /\ (Waits(p) => Waits(p)'))
  PROVE  WaitingInv'
  BY DEF WaitingInv, Unanswered, Waits, Onward

LEMMA CreatesWaiting ==
  ASSUME RecordsInv, WaitingInv, NEW r \in CreateReqs, Creates(r)
  PROVE  WaitingInv'
  <1>1. Onward /\ OnlyReq(r) /\ r \notin RenewalReqs
    BY CreatesKeeps, RequestsAssumption DEF Creates
  <1>2. ASSUME NEW p \in Msgs, Unanswered(p)'
        PROVE  Unanswered(p)
    BY <1>2 DEF Creates, Sent, Unanswered
  <1>3. \A p \in Msgs : Waits(p) => Waits(p)'
    BY <1>1 DEF Waits, OnlyReq
  <1> QED
    BY <1>1, <1>2, <1>3, WaitingMove

LEMMA RenewalWaiting ==
  ASSUME RecordsInv, WaitingInv, NEW r \in RenewalReqs,
         Ends(r) \/ \E s \in CreateReqs : Asks(r, s) \/ Switches(r, s)
  PROVE  WaitingInv'
  <1>1. Onward /\ OnlyReq(r)
    BY RenewalKeeps DEF Ends, Asks, Switches
  <1>2. ASSUME NEW p \in Msgs, p # r, Unanswered(p)'
        PROVE  Unanswered(p) /\ (Waits(p) => Waits(p)')
    <2>1. rpc'[p] = rpc[p]
      BY <1>2, RenewalKeeps
    <2> QED
      BY <1>1, <1>2, <2>1 DEF Unanswered, Waits, OnlyReq
  <1>3. ASSUME Unanswered(r)'
        PROVE  Waits(r)'
    <2>1. CASE Ends(r) \/ \E s \in CreateReqs : Switches(r, s)
      <3>1. rpc' = rpc /\ (req[r].pc = "start" \/ rpc[r].reply # "none")
        BY <2>1 DEF Ends, Switches
      <3>2. req[r].pc = "start" => rpc[r].st = "none"
        BY DEF RecordsInv, AnswersInv
      <3> QED
        BY <1>3, <3>1, <3>2 DEF Unanswered
    <2>2. CASE \E s \in CreateReqs : Asks(r, s)
      BY <2>2 DEF Asks, Waits
    <2> QED
      BY <2>1, <2>2
  <1> QED
    BY <1>1, <1>2, <1>3, WaitingMove

LEMMA ListenerWaiting ==
  ASSUME RecordsInv, SendersInv, WaitingInv, NEW e \in Events,
         \/ Skips(e)
         \/ \E s \in CreateReqs : Activates(e, s) \/ Takes(e, s)
         \/ \E s : Disables(e, s)
  PROVE  WaitingInv'
  <1>1. Onward /\ OnlyLis(e)
    BY ListenerKeeps DEF Skips, Activates, Takes, Disables
  <1>2. ASSUME NEW p \in Msgs, p # e, Unanswered(p)'
        PROVE  Unanswered(p) /\ (Waits(p) => Waits(p)')
    <2>1. rpc'[p] = rpc[p]
      BY <1>2, ListenerKeeps
    <2> QED
      BY <1>1, <1>2, <2>1 DEF Unanswered, Waits, OnlyLis
  <1>3. ASSUME Unanswered(e)', ~Waits(e)'
        PROVE  Unanswered(e) /\ ~Waits(e)
    <2>1. \A s \in CreateReqs : ~Takes(e, s)
      BY <1>3 DEF Takes, Waits
    <2>2. rpc' = rpc
      BY <2>1 DEF Skips, Activates, Disables
    <2>3. lis[e].st # "wait"
      BY <1>3, <2>1, <2>2 DEF Skips, Activates, Disables, Unanswered
    <2> QED
      BY <1>3, <2>2, <2>3, NamesAssumption DEF Unanswered, Waits
  <1> QED
    BY <1>1, <1>2, <1>3, WaitingMove

LEMMA OutsideWaiting ==
  ASSUME RecordsInv, SendersInv, WaitingInv, Onward, Outside
  PROVE  WaitingInv'
  <1>1. ASSUME NEW p \in Msgs, Unanswered(p)'
        PROVE  Unanswered(p) /\ (Waits(p) => Waits(p)')
    <2>1. Unanswered(p)
      BY <1>1 DEF Outside, Onward, Unanswered
    <2>2. Waits(p) => Waits(p)'
      BY DEF Waits, Outside
    <2> QED
      BY <2>1, <2>2
  <1> QED
    BY <1>1, WaitingMove
-----------------------------------------------------------------------------
(* What the three services agree on *)

Agreed(s) ==
    /\ Renewals(s, "enable") # {} => Renewals(s, "disable") \cap Taken # {}
    /\ subs[s].auto = ~Off(Taken, s)
    /\ \A k \in PayIds : Paid(k, s) => stripe[k].cancel = Off(AtStripe, s)
    /\ \A w \in Msgs : prow[w].gid = s /\ prow[w].ext # None =>
         prow[w].auto = ~Off(InTable, s)

\* Message p is one about the renewal of row s.
About(p, s) == rpc[p].st # "none" /\ rpc[p].kind # "create" /\ rpc[p].gid = s

\* As AgreedInv sees row s, a step leaves it as it is ...
SameRow(s) ==
    /\ subs'[s].auto = subs[s].auto
    /\ \A k \in PayIds : Paid(k, s)' => Paid(k, s) /\ stripe'[k].cancel = stripe[k].cancel
    /\ \A w \in Msgs : prow'[w].gid = s /\ prow'[w].ext # None =>
         prow[w].gid = s /\ prow[w].ext # None /\ prow'[w].auto = prow[w].auto

\* ... and message p where it is.
SameMessage(p, s) ==
    \/ /\ ~About(p, s) /\ (About(p, s))'
       /\ p \notin AtStripe' /\ p \notin InTable'
    \/ /\ (About(p, s))' <=> About(p, s)
       /\ About(p, s) => /\ rpc'[p].kind = rpc[p].kind
                         /\ p \in AtStripe' <=> p \in AtStripe
                         /\ p \in InTable' <=> p \in InTable
                         /\ p \in Taken' <=> p \in Taken

LEMMA SameLevels ==
  ASSUME NEW s, NEW kind \in {"disable", "enable"}, \A p \in Msgs : SameMessage(p, s)
  PROVE  /\ (Renewals(s, kind) \cap AtStripe)' = Renewals(s, kind) \cap AtStripe
         /\ (Renewals(s, kind) \cap InTable)' = Renewals(s, kind) \cap InTable
         /\ (Renewals(s, kind) \cap Taken)' = Renewals(s, kind) \cap Taken
  <1>1. Taken' \subseteq InTable' /\ Taken \subseteq InTable
    BY DEF Taken
  <1>2. ASSUME NEW p \in Msgs
        PROVE  /\ p \in (Renewals(s, kind) \cap AtStripe)' <=> p \in Renewals(s, kind) \cap AtStripe
               /\ p \in (Renewals(s, kind) \cap InTable)' <=> p \in Renewals(s, kind) \cap InTable
               /\ p \in (Renewals(s, kind) \cap Taken)' <=> p \in Renewals(s, kind) \cap Taken
    <2>1. p \in Renewals(s, kind) <=> About(p, s) /\ rpc[p].kind = kind
      BY DEF Renewals, About
    <2>2. p \in Renewals(s, kind)' <=> (About(p, s))' /\ rpc'[p].kind = kind
      BY DEF Renewals, About
    <2> QED
      BY <1>1, <2>1, <2>2 DEF SameMessage
  <1>3. Renewals(s, kind) \subseteq Msgs /\ Renewals(s, kind)' \subseteq Msgs
    BY DEF Renewals
  <1> QED
    BY <1>2, <1>3

LEMMA LevelsAgree ==
  ASSUME NEW s, Agreed(s), SameRow(s), \A p \in Msgs : SameMessage(p, s),
         Renewals(s, "enable")' # {} =>
             Renewals(s, "enable") # {} \/ Renewals(s, "disable") \cap Taken # {}
  PROVE  Agreed(s)'
  <1>1. ASSUME NEW kind \in {"disable", "enable"}
        PROVE  /\ (Renewals(s, kind) \cap AtStripe)' = Renewals(s, kind) \cap AtStripe
               /\ (Renewals(s, kind) \cap InTable)' = Renewals(s, kind) \cap InTable
               /\ (Renewals(s, kind) \cap Taken)' = Renewals(s, kind) \cap Taken
    BY SameLevels
  <1>2. /\ Off(AtStripe, s)' = Off(AtStripe, s)
        /\ Off(InTable, s)' = Off(InTable, s)
        /\ Off(Taken, s)' = Off(Taken, s)
    BY <1>1 DEF Off
  <1>3. Renewals(s, "enable")' # {} => (Renewals(s, "disable") \cap Taken)' # {}
    BY <1>1 DEF Agreed
  <1> QED
    BY <1>2, <1>3 DEF Agreed, SameRow

LEMMA UnsentSame ==
  ASSUME NEW s, Agreed(s), SameRow(s), \A p \in Msgs : SameMessage(p, s),
         \A p \in Msgs : (About(p, s))' => About(p, s)
  PROVE  Agreed(s)'
  <1>1. Renewals(s, "enable")' # {} => Renewals(s, "enable") # {}
    BY DEF Renewals, About, SameMessage
  <1> QED
    BY <1>1, LevelsAgree

\* Whoever sends a message about renewal wants the other value; after the one
\* disabling only an enabling can be sent.
LEMMA AskedAgrees ==
  ASSUME NEW s \in CreateReqs, Agreed(s), SameRow(s),
         NEW q \in Msgs, NEW kind \in {"disable", "enable"}, NEW ext,
         Sent(q, kind, s, ext), subs[s].auto = (kind = "disable"),
         \A p \in Msgs \ {q} : p \in Taken' <=> p \in Taken
  PROVE  Agreed(s)'
  <1>1. rpc[q].st = "none" /\ ~About(q, s) /\ q \in Renewals(s, kind)'
    BY DEF Sent, About, Renewals
  <1>2. q \notin AtStripe' /\ q \notin InTable'
    BY DEF Sent, AtStripe, InTable
  <1>3. SameMessage(q, s)
    BY <1>1, <1>2 DEF SameMessage, Sent, About
  <1>4. ASSUME NEW p \in Msgs \ {q}
        PROVE  SameMessage(p, s)
    <2>1. rpc'[p] = rpc[p]
      BY DEF Sent
    <2>2. p \in AtStripe' <=> p \in AtStripe
      BY <2>1 DEF AtStripe
    <2>3. p \in InTable' <=> p \in InTable
      BY <2>1 DEF InTable
    <2> QED
      BY <2>1, <2>2, <2>3 DEF SameMessage, About
  <1>5. CASE kind = "disable"
    <2>1. Renewals(s, "enable")' = Renewals(s, "enable")
      BY <1>1, <1>5 DEF Sent, Renewals
    <2> QED
      BY <1>3, <1>4, <2>1, LevelsAgree
  <1>6. CASE kind = "enable"
    <2>1. Off(Taken, s)
      BY <1>6 DEF Agreed
    <2>2. Renewals(s, "disable") \cap Taken # {}
      BY <2>1 DEF Off
    <2> QED
      BY <1>3, <1>4, <2>2, LevelsAgree
  <1> QED
    BY <1>5, <1>6

\* The one disabling of an orderly row is taken before there is an enabling.
LEMMA NoEnabling ==
  ASSUME NEW s, Agreed(s), Orderly(s), NEW q \in Renewals(s, "disable"), q \notin Taken
  PROVE  Renewals(s, "enable") = {}
  BY DEF Agreed, Orderly

\* A message that comes one level further decides what the row is there.
LEMMA LastDecides ==
  ASSUME NEW s, Agreed(s), Orderly(s), NEW q \in Msgs, About(q, s), q \notin Taken,
         rpc[q].kind \in {"disable", "enable"}, NEW level, q \in level
  PROVE  Off(level, s) = (rpc[q].kind = "disable")
  <1>1. CASE rpc[q].kind = "disable"
    <2>1. q \in Renewals(s, "disable")
      BY <1>1 DEF About, Renewals
    <2>2. Renewals(s, "enable") = {}
      BY <2>1, NoEnabling
    <2> QED
      BY <1>1, <2>1, <2>2 DEF Off
  <1>2. CASE rpc[q].kind = "enable"
    <2>1. q \in Renewals(s, "enable")
      BY <1>2 DEF About, Renewals
    <2> QED
      BY <1>2, <2>1 DEF Off
  <1> QED
    BY <1>1, <1>2

\* The sender reads the answer and writes it.
LEMMA TakenAgrees ==
  ASSUME NEW s \in CreateReqs, Agreed(s), Orderly(s), UNCHANGED <<rpc, prow, stripe>>,
         NEW q \in Msgs, About(q, s), rpc[q].kind \in {"disable", "enable"},
         q \notin Taken, q \in Taken', \A p \in Msgs \ {q} : p \in Taken' <=> p \in Taken,
         subs'[s].auto = (rpc[q].kind = "enable")
  PROVE  Agreed(s)'
  <1>1. /\ Renewals(s, "disable")' = Renewals(s, "disable")
        /\ Renewals(s, "enable")' = Renewals(s, "enable")
        /\ AtStripe' = AtStripe /\ InTable' = InTable
    BY DEF Renewals, AtStripe, InTable
  <1>2. Off(AtStripe, s)' = Off(AtStripe, s) /\ Off(InTable, s)' = Off(InTable, s)
    BY <1>1 DEF Off
  <1>3. Off(Taken, s)' = Off(Taken', s)
    BY <1>1 DEF Off
  <1>4. Off(Taken', s) = (rpc[q].kind = "disable")
    BY LastDecides
  <1>5. Renewals(s, "enable")' # {} => (Renewals(s, "disable") \cap Taken)' # {}
    BY <1>1 DEF Agreed, Renewals
  <1>6. \A k \in PayIds : (Paid(k, s))' => stripe'[k].cancel = Off(AtStripe, s)'
    BY <1>2 DEF Agreed, Paid
  <1> QED
    BY <1>2, <1>3, <1>4, <1>5, <1>6 DEF Agreed
-----------------------------------------------------------------------------
\* Who is behind a message about renewal.
LEMMA AboutSender ==
  ASSUME RecordsInv, KindsInv, SendersInv, NEW s, NEW p \in Msgs, About(p, s)
  PROVE  /\ p \notin CreateReqs /\ rpc[p].kind = (IF p \in EnableReqs THEN "enable" ELSE "disable")
         /\ p \in RenewalReqs => req[p].sub = s
         /\ p \in Events => lis[p].prev = s
         /\ Paid(rpc[p].ext, s)
  <1>1. p \notin CreateReqs /\ rpc[p].kind = (IF p \in EnableReqs THEN "enable" ELSE "disable")
    BY DEF About, KindsInv
  <1>2. rpc[p].st # "none" /\ rpc[p].gid = s /\ rpc[p].kind # "create"
    BY DEF About
  <1> QED
    BY <1>1, <1>2 DEF SendersInv

\* No message and no payments row is about a row not yet inserted.
LEMMA UnusedRow ==
  ASSUME RecordsInv, UntouchedInv, NEW s \in CreateReqs, subs[s].status = "none"
  PROVE  /\ \A p \in Msgs : ~About(p, s)
         /\ \A k \in PayIds : ~Paid(k, s)
         /\ \A w \in Msgs : prow[w].gid = s => prow[w].ext = None
  <1>1. \A p \in Msgs : ~About(p, s)
    BY DEF RecordsInv, IInv, MessagesInv, About
  <1>2. \A k \in PayIds : ~Paid(k, s)
    BY DEF RecordsInv, IInv, SessionsInv, Paid
  <1>3. ASSUME NEW w \in Msgs, prow[w].gid = s, prow[w].ext # None PROVE FALSE
    <2>1. prow[w].status = "active"
      BY <1>3 DEF UntouchedInv, Untouched
    <2>2. rpc[w].st # "none" /\ rpc[w].gid = s
      BY <1>3, <2>1 DEF RecordsInv, RowsInv
    <2> QED
      BY <2>2 DEF RecordsInv, IInv, MessagesInv
  <1> QED
    BY <1>1, <1>2, <1>3

LEMMA CreatesAgreed ==
  ASSUME RecordsInv, KindsInv, SendersInv, UntouchedInv, AgreedInv,
         NEW r \in CreateReqs, Creates(r)
  PROVE  AgreedInv'
  <1> SUFFICES ASSUME NEW s \in CreateReqs, Exists(s)', Orderly(s)' PROVE Agreed(s)'
    BY DEF AgreedInv, Agreed
  <1>0. /\ Orderly(s) /\ OnlyReq(r) /\ UNCHANGED <<lis, prow, stripe>>
        /\ \A p \in Msgs \ {r} : rpc'[p] = rpc[p]
    BY CreatesKeeps, OrderlyBefore DEF Creates, OnlyReq
  <1>1. ~About(r, s) /\ ~(About(r, s))'
    <2>1. ~About(r, s)
      BY AboutSender
    <2>2. rpc'[r] = rpc[r] \/ rpc'[r].kind = "create"
      BY DEF Creates, Sent
    <2> QED
      BY <2>1, <2>2 DEF About
  <1>2. ASSUME NEW p \in Msgs PROVE SameMessage(p, s) /\ ((About(p, s))' => About(p, s))
    <2>1. CASE p = r
      BY <1>1, <2>1 DEF SameMessage
    <2>2. CASE p # r
      <3>1. p \in AtStripe' <=> p \in AtStripe
        BY <1>0, <2>2 DEF AtStripe
      <3>2. p \in InTable' <=> p \in InTable
        BY <1>0, <2>2 DEF InTable
      <3>3. p \in Taken' <=> p \in Taken
        BY <1>0, <2>2, <3>2 DEF Taken, OnlyReq
      <3> QED
        BY <1>0, <2>2, <3>1, <3>2, <3>3 DEF SameMessage, About
    <2> QED
      BY <2>1, <2>2
  <1>3. CASE subs'[s] = subs[s]
    <2>1. Agreed(s)
      BY <1>0, <1>3 DEF AgreedInv, Agreed, Exists
    <2>2. SameRow(s)
      BY <1>0, <1>3 DEF SameRow, Paid
    <2> QED
      BY <1>2, <2>1, <2>2, UnsentSame
  <1>4. CASE subs[s].status = "none" /\ subs'[s].auto
    <2>1. \A p \in Msgs : ~(About(p, s))'
      BY <1>2, <1>4, UnusedRow
    <2>2. \A k \in PayIds : ~(Paid(k, s))'
      BY <1>0, <1>4, UnusedRow DEF Paid
    <2>3. \A w \in Msgs : prow'[w].gid = s => prow'[w].ext = None
      BY <1>0, <1>4, UnusedRow
    <2>4. Renewals(s, "disable")' = {} /\ Renewals(s, "enable")' = {}
      BY <2>1 DEF Renewals, About
    <2> QED
      BY <1>4, <2>2, <2>3, <2>4 DEF Agreed, Off
  <1>5. subs'[s].status \in {"PENDING", "ACTIVE"}
    BY DEF Exists
  <1> QED
    BY <1>3, <1>4, <1>5 DEF Creates

\* A message that is not about s, and the others when only one sender moves.
LEMMA OthersSame ==
  ASSUME NEW s, NEW q \in Msgs, \A p \in Msgs \ {q} : rpc'[p] = rpc[p],
         \A p \in Msgs \ {q} : p \in Taken' <=> p \in Taken
  PROVE  \A p \in Msgs \ {q} : SameMessage(p, s) /\ ((About(p, s))' => About(p, s))
  <1> SUFFICES ASSUME NEW p \in Msgs \ {q}
               PROVE  SameMessage(p, s) /\ ((About(p, s))' => About(p, s))
    OBVIOUS
  <1>1. p \in AtStripe' <=> p \in AtStripe
    BY DEF AtStripe
  <1>2. p \in InTable' <=> p \in InTable
    BY DEF InTable
  <1> QED
    BY <1>1, <1>2 DEF SameMessage, About

LEMMA ReqTakes ==
  ASSUME NEW r \in Reqs, OnlyReq(r), \A p \in Msgs \ {r} : rpc'[p] = rpc[p]
  PROVE  \A p \in Msgs \ {r} : p \in Taken' <=> p \in Taken
  BY DEF Taken, InTable, OnlyReq

LEMMA LisTakes ==
  ASSUME NEW e \in Events, OnlyLis(e), \A p \in Msgs \ {e} : rpc'[p] = rpc[p]
  PROVE  \A p \in Msgs \ {e} : p \in Taken' <=> p \in Taken
  BY DEF Taken, InTable, OnlyLis

\* The sender q moves and no row does: the messages of s are where they were.
LEMMA StillAgreed ==
  ASSUME NEW s \in CreateReqs, Agreed(s), subs'[s].auto = subs[s].auto,
         UNCHANGED <<rpc, prow, stripe>>, NEW q \in Msgs,
         \A p \in Msgs \ {q} : p \in Taken' <=> p \in Taken,
         About(q, s) => (q \in Taken' <=> q \in Taken)
  PROVE  Agreed(s)'
  <1>1. \A p \in Msgs \ {q} : SameMessage(p, s) /\ ((About(p, s))' => About(p, s))
    BY OthersSame
  <1>2. AtStripe' = AtStripe /\ InTable' = InTable
    BY DEF AtStripe, InTable
  <1>3. SameMessage(q, s) /\ ((About(q, s))' => About(q, s))
    BY <1>2 DEF SameMessage, About
  <1>4. SameRow(s)
    BY DEF SameRow, Paid
  <1> QED
    BY <1>1, <1>3, <1>4, UnsentSame

LEMMA RenewalAgreed ==
  ASSUME RecordsInv, KindsInv, SendersInv, AgreedInv, NEW r \in RenewalReqs,
         Ends(r) \/ \E s \in CreateReqs : Asks(r, s) \/ Switches(r, s)
  PROVE  AgreedInv'
  <1> SUFFICES ASSUME NEW s \in CreateReqs, Exists(s)', Orderly(s)' PROVE Agreed(s)'
    BY DEF AgreedInv, Agreed
  <1>0. /\ Orderly(s) /\ OnlyReq(r) /\ UNCHANGED <<lis, prow, stripe>>
        /\ \A p \in Msgs \ {r} : rpc'[p] = rpc[p]
    BY RenewalKeeps, OrderlyBefore DEF Ends, Asks, Switches, OnlyReq
  <1>1. Exists(s)
    BY DEF Exists, Ends, Asks, Switches
  <1>2. Agreed(s)
    BY <1>0, <1>1 DEF AgreedInv, Agreed
  <1>3. \A p \in Msgs \ {r} : p \in Taken' <=> p \in Taken
    BY <1>0, ReqTakes
  <1>4. req[r].pc = "start" => rpc[r].st = "none"
    BY DEF RecordsInv, AnswersInv
  <1>5. r \notin Events
    BY NamesAssumption
  <1>6. CASE Ends(r)
    <2>1. UNCHANGED <<subs, rpc>>
      BY <1>6 DEF Ends
    <2>2. ASSUME About(r, s) PROVE r \notin InTable
      <3>1. req[r].sub = s /\ rpc[r].st # "none"
        BY <2>2, AboutSender DEF About
      <3> QED
        BY <1>1, <1>4, <1>6, <3>1 DEF Ends, InTable
    <2>3. About(r, s) => (r \in Taken' <=> r \in Taken)
      BY <2>1, <2>2 DEF Taken, InTable
    <2> QED
      BY <1>0, <1>2, <1>3, <2>1, <2>3, StillAgreed
  <1>7. ASSUME NEW t \in CreateReqs, Asks(r, t)
        PROVE  Agreed(s)'
    <2>1. UNCHANGED subs /\ Sent(r, RenewalKind(r), t, subs[t].ext) /\ subs[t].auto # Wanted(r)
      BY <1>7 DEF Asks
    <2>2. SameRow(s)
      BY <1>0, <2>1 DEF SameRow, Paid
    <2>3. RenewalKind(r) \in {"disable", "enable"} /\ (Wanted(r) <=> RenewalKind(r) = "enable")
          /\ subs[t].auto \in BOOLEAN
      BY DEF RenewalKind, Wanted, RecordsInv, IInv, TypeOK, Subscription
    <2>4. CASE s = t
      <3>1. subs[s].auto = (RenewalKind(r) = "disable")
        BY <2>1, <2>3, <2>4 DEF RenewalKind, Wanted
      <3> QED
        BY <1>2, <1>3, <2>1, <2>2, <2>3, <2>4, <3>1, AskedAgrees
    <2>5. CASE s # t
      <3>1. ~About(r, s) /\ ~(About(r, s))'
        BY <2>1, <2>5 DEF Sent, About
      <3>2. SameMessage(r, s)
        BY <3>1 DEF SameMessage
      <3> QED
        BY <1>0, <1>2, <1>3, <2>2, <3>1, <3>2, OthersSame, UnsentSame
    <2> QED
      BY <2>4, <2>5
  <1>8. ASSUME NEW t \in CreateReqs, Switches(r, t)
        PROVE  Agreed(s)'
    <2>1. /\ UNCHANGED rpc /\ t = req[r].sub /\ subs'[t].auto = Wanted(r)
          /\ req[r].pc = "wait" /\ rpc[r].reply = "yes" /\ req'[r].pc = "done"
          /\ \A x \in CreateReqs \ {t} : subs'[x] = subs[x]
      BY <1>8 DEF Switches
    <2>2. r \notin Taken /\ r \in Taken'
      BY <1>5, <2>1 DEF Taken, InTable
    <2>3. rpc[r].st # "none" /\ rpc[r].gid = t
      BY <2>1 DEF SendersInv
    <2>4. r \notin CreateReqs
      BY RequestsAssumption
    <2>5. rpc[r].kind = IF r \in EnableReqs THEN "enable" ELSE "disable"
      BY <2>3, <2>4 DEF KindsInv
    <2>6. CASE s = t
      <3>1. About(r, s) /\ rpc[r].kind \in {"disable", "enable"}
        BY <2>3, <2>5, <2>6 DEF About
      <3>2. subs'[s].auto = (rpc[r].kind = "enable")
        BY <2>1, <2>5, <2>6 DEF Wanted
      <3> QED
        BY <1>0, <1>2, <1>3, <2>1, <2>2, <3>1, <3>2, TakenAgrees
    <2>7. CASE s # t
      BY <1>0, <1>2, <1>3, <2>1, <2>3, <2>7, StillAgreed DEF About
    <2> QED
      BY <2>6, <2>7
  <1> QED
    BY <1>6, <1>7, <1>8

LEMMA ListenerAgreed ==
  ASSUME RecordsInv, KindsInv, SendersInv, AgreedInv, NEW e \in Events,
         \/ Skips(e)
         \/ \E s \in CreateReqs : Activates(e, s) \/ Takes(e, s)
         \/ \E s : Disables(e, s)
  PROVE  AgreedInv'
  <1> SUFFICES ASSUME NEW s \in CreateReqs, Exists(s)', Orderly(s)' PROVE Agreed(s)'
    BY DEF AgreedInv, Agreed
  <1>0. /\ Orderly(s) /\ OnlyLis(e) /\ UNCHANGED <<req, prow, stripe>>
        /\ \A p \in Msgs \ {e} : rpc'[p] = rpc[p]
    BY ListenerKeeps, OrderlyBefore DEF Skips, Activates, Takes, Disables, OnlyLis
  <1>1. Exists(s)
    BY DEF Exists, Skips, Activates, Takes, Disables
  <1>2. Agreed(s)
    BY <1>0, <1>1 DEF AgreedInv, Agreed
  <1>3. \A p \in Msgs \ {e} : p \in Taken' <=> p \in Taken
    BY <1>0, LisTakes
  <1>4. lis[e].st \in {"none", "queued", "find"} => rpc[e].st = "none"
    BY DEF RecordsInv, AnswersInv
  <1>5. e \notin Reqs
    BY NamesAssumption
  <1>6. CASE Skips(e) \/ \E t \in CreateReqs : Activates(e, t)
    <2>1. UNCHANGED rpc /\ subs'[s].auto = subs[s].auto
      BY <1>6 DEF Skips, Activates
    <2>2. About(e, s) => (e \in Taken' <=> e \in Taken)
      BY <1>4, <1>5, <1>6, <2>1 DEF About, Taken, InTable, Skips, Activates
    <2> QED
      BY <1>0, <1>2, <1>3, <2>1, <2>2, StillAgreed
  <1>7. ASSUME NEW t \in CreateReqs, Takes(e, t)
        PROVE  Agreed(s)'
    <2>1. UNCHANGED subs /\ Sent(e, "disable", t, subs[t].ext) /\ subs[t].auto = TRUE
      BY <1>7 DEF Takes, RenewingBesides, RecordsInv, IInv, TypeOK, Subscription
    <2>2. SameRow(s)
      BY <1>0, <2>1 DEF SameRow, Paid
    <2>3. CASE s = t
      BY <1>2, <1>3, <2>1, <2>2, <2>3, AskedAgrees
    <2>4. CASE s # t
      <3>1. ~About(e, s) /\ ~(About(e, s))'
        BY <2>1, <2>4 DEF Sent, About
      <3>2. SameMessage(e, s)
        BY <3>1 DEF SameMessage
      <3> QED
        BY <1>0, <1>2, <1>3, <2>2, <3>1, <3>2, OthersSame, UnsentSame
    <2> QED
      BY <2>3, <2>4
  <1>8. ASSUME NEW t, Disables(e, t)
        PROVE  Agreed(s)'
    <2>1. /\ UNCHANGED rpc /\ t = lis[e].prev
          /\ lis[e].st = "wait" /\ lis'[e].st = "upgrade"
          /\ subs'[s].status = subs[s].status
          /\ subs'[s].auto = IF s = t /\ rpc[e].reply = "yes" /\ Exists(t) THEN FALSE
                             ELSE subs[s].auto
      BY <1>8 DEF Disables
    <2>2. rpc[e].st # "none" /\ rpc[e].gid = t
      BY <2>1 DEF SendersInv
    <2>3. e \notin CreateReqs /\ e \notin EnableReqs
      BY <1>5
    <2>4. rpc[e].kind = "disable"
      BY <2>2, <2>3 DEF KindsInv
    <2>5. CASE s = t /\ rpc[e].reply = "yes"
      <3>1. e \notin Taken /\ e \in Taken'
        BY <1>5, <2>1, <2>5 DEF Taken, InTable
      <3>2. About(e, s)
        BY <2>2, <2>4, <2>5 DEF About
      <3>3. subs'[s].auto = (rpc[e].kind = "enable")
        BY <1>1, <2>1, <2>4, <2>5
      <3> QED
        BY <1>0, <1>2, <1>3, <2>1, <2>4, <3>1, <3>2, <3>3, TakenAgrees
    <2>6. CASE s # t \/ rpc[e].reply # "yes"
      <3>1. About(e, s) => (e \in Taken' <=> e \in Taken)
        BY <2>1, <2>2, <2>6 DEF About, Taken, InTable
      <3> QED
        BY <1>0, <1>2, <1>3, <2>1, <2>6, <3>1, StillAgreed
    <2> QED
      BY <2>5, <2>6
  <1> QED
    BY <1>6, <1>7, <1>8

\* A message that is served, refused or done: who takes answers does not move.
LEMMA MsgTaken ==
  ASSUME NEW p \in Msgs, OnlyMsg(p)
  PROVE  \A q \in Msgs \ {p} : q \in Taken' <=> q \in Taken
  BY DEF Taken, InTable, OnlyMsg

\* The row a message about renewal is for was paid once, with what it names.
LEMMA OnePayment ==
  ASSUME RecordsInv, KindsInv, SendersInv, NEW s, Orderly(s), NEW p \in Msgs, About(p, s),
         NEW k \in PayIds, Paid(k, s)
  PROVE  rpc[p].ext = k
  <1>1. Paid(rpc[p].ext, s) /\ rpc[p].ext \in PayIds
    BY AboutSender DEF Paid
  <1> QED
    BY <1>1 DEF Orderly

LEMMA ServesAgreed ==
  ASSUME RecordsInv, NEW s \in CreateReqs, Agreed(s), NEW p \in Msgs, Serves(p)
  PROVE  Agreed(s)'
  <1>1. OnlyMsg(p) /\ ~About(p, s) /\ ~(About(p, s))'
    BY DEF Serves, OnlyMsg, About
  <1>2. \A q \in Msgs \ {p} : rpc'[q] = rpc[q]
    BY <1>1 DEF OnlyMsg
  <1>3. \A q \in Msgs \ {p} : SameMessage(q, s) /\ ((About(q, s))' => About(q, s))
    BY <1>1, <1>2, MsgTaken, OthersSame
  <1>4. SameMessage(p, s)
    BY <1>1 DEF SameMessage
  <1>5. SameRow(s)
    <2>1. subs'[s].auto = subs[s].auto
      BY <1>1 DEF OnlyMsg
    <2>2. \A k \in PayIds : (Paid(k, s))' => Paid(k, s) /\ stripe'[k].cancel = stripe[k].cancel
      BY DEF Serves, Paid
    <2>3. \A w \in Msgs : prow'[w].gid = s /\ prow'[w].ext # None =>
            prow[w].gid = s /\ prow[w].ext # None /\ prow'[w].auto = prow[w].auto
      BY DEF Serves
    <2> QED
      BY <2>1, <2>2, <2>3 DEF SameRow
  <1> QED
    BY <1>1, <1>3, <1>4, <1>5, UnsentSame

LEMMA RefusesAgreed ==
  ASSUME NEW s \in CreateReqs, Agreed(s), NEW p \in Msgs, Refuses(p)
  PROVE  Agreed(s)'
  <1>1. /\ OnlyMsg(p) /\ UNCHANGED <<prow, stripe, subs, req, lis>>
        /\ \A q \in Msgs \ {p} : rpc'[q] = rpc[q]
    BY DEF Refuses, OnlyMsg
  <1>2. \A q \in Msgs \ {p} : SameMessage(q, s) /\ ((About(q, s))' => About(q, s))
    BY <1>1, MsgTaken, OthersSame
  <1>3. /\ p \in AtStripe' <=> p \in AtStripe
        /\ p \in InTable' <=> p \in InTable
    BY DEF AtStripe, InTable, Refuses
  <1>4. p \in Taken' <=> p \in Taken
    BY <1>1, <1>3 DEF Taken
  <1>5. SameMessage(p, s) /\ ((About(p, s))' => About(p, s))
    BY <1>1, <1>3, <1>4 DEF SameMessage, About, OnlyMsg
  <1>6. SameRow(s)
    BY <1>1 DEF SameRow, Paid
  <1> QED
    BY <1>2, <1>5, <1>6, UnsentSame

\* Stripe has done it: the row's one payment is now cancelled or not.
LEMMA StripeAgreed ==
  ASSUME RecordsInv, KindsInv, SendersInv, OnceInv, NEW s \in CreateReqs, Orderly(s), Agreed(s),
         NEW p \in Msgs, NEW k \in PayIds, ReachesStripe(p, k)
  PROVE  Agreed(s)'
  <1>1. /\ OnlyMsg(p) /\ UNCHANGED <<prow, subs, req, lis>>
        /\ \A q \in Msgs \ {p} : rpc'[q] = rpc[q]
    BY DEF ReachesStripe, OnlyMsg
  <1>2. \A q \in Msgs \ {p} : SameMessage(q, s) /\ ((About(q, s))' => About(q, s))
    BY <1>1, MsgTaken, OthersSame
  <1>3. /\ rpc[p].reply = "none" /\ rpc'[p].reply = "none" /\ rpc'[p].st = "db"
        /\ rpc[p].st # "none" /\ rpc[p].kind # "create" /\ rpc'[p].kind = rpc[p].kind
        /\ rpc'[p].gid = rpc[p].gid /\ k = rpc[p].ext
    BY DEF Orderly, OnceInv, ReachesStripe, OnlyMsg
  <1>4. p \notin InTable /\ p \notin InTable' /\ p \notin Taken /\ p \notin Taken'
        /\ p \in AtStripe'
    BY <1>3 DEF InTable, Taken, AtStripe
  <1>5. Paid(k, rpc[p].gid)
    BY <1>3 DEF SendersInv
  <1>6. CASE rpc[p].gid # s
    <2>1. ~About(p, s) /\ ~(About(p, s))'
      BY <1>3, <1>6 DEF About
    <2>2. SameMessage(p, s)
      BY <2>1 DEF SameMessage
    <2>3. \A j \in PayIds : (Paid(j, s))' => j # k /\ Paid(j, s) /\ stripe'[j] = stripe[j]
      BY <1>5, <1>6 DEF Paid, ReachesStripe
    <2>4. SameRow(s)
      BY <1>1, <2>3 DEF SameRow
    <2> QED
      BY <1>2, <2>1, <2>2, <2>4, UnsentSame
  <1>7. CASE rpc[p].gid = s
    <2>1. About(p, s) /\ (About(p, s))'
      BY <1>3, <1>7 DEF About
    <2>2. rpc[p].kind \in {"disable", "enable"}
      BY <2>1, AboutSender
    <2>3. /\ Renewals(s, "disable")' = Renewals(s, "disable")
          /\ Renewals(s, "enable")' = Renewals(s, "enable")
      BY <1>1, <1>3 DEF Renewals
    <2>4. InTable' = InTable /\ Taken' = Taken
      BY <1>1, <1>4 DEF InTable, Taken
    <2>5. Off(InTable, s)' = Off(InTable, s) /\ Off(Taken, s)' = Off(Taken, s)
      BY <2>3, <2>4 DEF Off
    <2>6. Off(AtStripe', s) = (rpc[p].kind = "disable")
      BY <1>4, <2>1, <2>2, LastDecides
    <2>7. Off(AtStripe, s)' = Off(AtStripe', s)
      BY <2>3 DEF Off
    <2>8. ASSUME NEW j \in PayIds, (Paid(j, s))'
          PROVE  stripe'[j].cancel = Off(AtStripe, s)'
      <3>1. Paid(j, s)
        BY <2>8 DEF Paid, ReachesStripe
      <3>2. j = k
        BY <1>3, <2>1, <3>1, OnePayment
      <3>3. stripe'[k].cancel = (rpc[p].kind = "disable")
        BY DEF ReachesStripe
      <3> QED
        BY <2>6, <2>7, <3>2, <3>3
    <2>9. Renewals(s, "enable")' # {} => (Renewals(s, "disable") \cap Taken)' # {}
      BY <2>3, <2>4 DEF Agreed
    <2> QED
      BY <1>1, <2>5, <2>8, <2>9 DEF Agreed
  <1> QED
    BY <1>6, <1>7

\* The payments table shows it: so do all rows under the payment it names.
LEMMA TableAgreed ==
  ASSUME RecordsInv, KindsInv, SendersInv, UntouchedInv, OnceInv, WaitingInv,
         NEW s \in CreateReqs, Orderly(s), Agreed(s), NEW p \in Msgs, ReachesTable(p)
  PROVE  Agreed(s)'
  <1>1. /\ OnlyMsg(p) /\ UNCHANGED <<stripe, subs, req, lis>>
        /\ \A q \in Msgs \ {p} : rpc'[q] = rpc[q]
    BY DEF ReachesTable, OnlyMsg
  <1>2. \A q \in Msgs \ {p} : SameMessage(q, s) /\ ((About(q, s))' => About(q, s))
    BY <1>1, MsgTaken, OthersSame
  <1>3. /\ rpc[p].reply = "none" /\ rpc'[p].reply = "yes"
        /\ rpc[p].st = "db" /\ rpc'[p].st # "none"
        /\ rpc[p].kind # "create" /\ rpc'[p].kind = rpc[p].kind
        /\ rpc'[p].gid = rpc[p].gid
    BY DEF Orderly, OnceInv, ReachesTable, OnlyMsg
  <1>4. \/ p \in RenewalReqs /\ req[p].pc = "wait"
        \/ p \in Events /\ lis[p].st = "wait"
    BY <1>3 DEF WaitingInv, Orderly
  <1>5. p \notin Taken /\ p \notin Taken' /\ p \in InTable' /\ p \in AtStripe /\ p \in AtStripe'
    BY <1>1, <1>3, <1>4, NamesAssumption DEF InTable, Taken, AtStripe
  <1>6. CASE rpc[p].gid # s
    <2>1. ~About(p, s) /\ ~(About(p, s))'
      BY <1>3, <1>6 DEF About
    <2>2. SameMessage(p, s)
      BY <2>1 DEF SameMessage
    <2>3. \A w \in Msgs : prow'[w].gid = s /\ prow'[w].ext # None =>
            prow[w].gid = s /\ prow[w].ext # None /\ prow'[w].auto = prow[w].auto
      BY <1>6 DEF ReachesTable, RowsFor
    <2>4. SameRow(s)
      BY <1>1, <2>3 DEF SameRow, Paid
    <2> QED
      BY <1>2, <2>1, <2>2, <2>4, UnsentSame
  <1>7. CASE rpc[p].gid = s
    <2>1. About(p, s) /\ (About(p, s))'
      BY <1>3, <1>7 DEF About
    <2>2. rpc[p].kind \in {"disable", "enable"}
      BY <2>1, AboutSender
    <2>3. /\ Renewals(s, "disable")' = Renewals(s, "disable")
          /\ Renewals(s, "enable")' = Renewals(s, "enable")
      BY <1>1, <1>3 DEF Renewals
    <2>4. AtStripe' = AtStripe /\ Taken' = Taken
      <3>1. \A q \in Msgs : q \in AtStripe' <=> q \in AtStripe
        BY <1>1, <1>5 DEF AtStripe
      <3>2. \A q \in Msgs : q \in Taken' <=> q \in Taken
        BY <1>1, <1>5, MsgTaken
      <3>3. /\ AtStripe \subseteq Msgs /\ AtStripe' \subseteq Msgs
            /\ Taken \subseteq Msgs /\ Taken' \subseteq Msgs
        BY DEF AtStripe, Taken, InTable
      <3> QED
        BY <3>1, <3>2, <3>3
    <2>5. Off(AtStripe, s)' = Off(AtStripe, s) /\ Off(Taken, s)' = Off(Taken, s)
      BY <2>3, <2>4 DEF Off
    <2>6. Off(InTable', s) = (rpc[p].kind = "disable")
      BY <1>5, <2>1, <2>2, LastDecides
    <2>7. Off(InTable, s)' = Off(InTable', s)
      BY <2>3 DEF Off
    <2>8. ASSUME NEW w \in Msgs, prow'[w].gid = s, prow'[w].ext # None
          PROVE  prow'[w].auto = ~Off(InTable, s)'
      <3>1. prow[w].gid = s /\ prow[w].ext # None
        BY <2>8 DEF ReachesTable
      <3>2. prow[w].status = "active"
        BY <3>1 DEF UntouchedInv, Untouched
      <3>3. Paid(prow[w].ext, s) /\ prow[w].ext \in PayIds
        BY <3>1, <3>2 DEF RecordsInv, ActiveRowIsPaid, Paid
      <3>4. rpc[p].ext = prow[w].ext
        BY <2>1, <3>3, OnePayment
      <3>5. w \in RowsFor(rpc[p].gid)
        BY <1>7, <3>1, <3>2 DEF RowsFor
      <3>6. prow'[w].auto = (rpc[p].kind = "enable")
        BY <3>4, <3>5 DEF ReachesTable
      <3> QED
        BY <2>2, <2>6, <2>7, <3>6
    <2>9. Renewals(s, "enable")' # {} => (Renewals(s, "disable") \cap Taken)' # {}
      BY <2>3, <2>4 DEF Agreed
    <2>10. \A k \in PayIds : (Paid(k, s))' => stripe'[k].cancel = Off(AtStripe, s)'
      BY <1>1, <2>5 DEF Agreed, Paid
    <2> QED
      BY <1>1, <2>5, <2>8, <2>9, <2>10 DEF Agreed
  <1> QED
    BY <1>6, <1>7

LEMMA MsgAgreed ==
  ASSUME RecordsInv, KindsInv, SendersInv, UntouchedInv, OnceInv, WaitingInv, AgreedInv,
         NEW p \in Msgs,
         \/ Serves(p) \/ Refuses(p) \/ ReachesTable(p)
         \/ \E k \in PayIds : ReachesStripe(p, k)
  PROVE  AgreedInv'
  <1> SUFFICES ASSUME NEW s \in CreateReqs, Exists(s)', Orderly(s)' PROVE Agreed(s)'
    BY DEF AgreedInv, Agreed
  <1>1. Onward /\ Outside
    BY MsgKeeps
  <1>2. Exists(s) /\ Orderly(s)
    BY <1>1, OrderlyBefore DEF Exists, Outside
  <1>3. Agreed(s)
    BY <1>2 DEF AgreedInv, Agreed
  <1> QED
    BY <1>2, <1>3, ServesAgreed, RefusesAgreed, StripeAgreed, TableAgreed

\* While the webhook of its one payment is not done, nothing is sent about the
\* renewal of a row.
LEMMA NothingSentYet ==
  ASSUME RecordsInv, KindsInv, SendersInv, OnceInv, NEW s, Orderly(s),
         NEW k \in PayIds, Paid(k, s), hook[k].pc # "done"
  PROVE  \A p \in Msgs : ~About(p, s)
  <1> SUFFICES ASSUME NEW p \in Msgs, About(p, s) PROVE FALSE
    OBVIOUS
  <1>1. rpc[p].ext = k
    BY OnePayment
  <1>2. hook[rpc[p].ext].pc = "done"
    BY DEF About, OnceInv, Orderly
  <1> QED
    BY <1>1, <1>2

LEMMA TurnsAgreed ==
  ASSUME RecordsInv, SendersInv, NEW s \in CreateReqs, Agreed(s), NEW k \in PayIds,
         HookTurns(k) \/ \E e \in Events : HookEmits(k, e)
  PROVE  Agreed(s)'
  <1>1. UNCHANGED <<subs, req, rpc, prow, stripe>>
    BY DEF HookTurns, HookEmits, OnlyHook
  <1>2. \A e \in Events : lis'[e] = lis[e] \/ (lis[e].st = "none" /\ lis'[e].st = "queued")
    BY DEF HookTurns, HookEmits
  <1>3. AtStripe' = AtStripe /\ InTable' = InTable
    BY <1>1 DEF AtStripe, InTable
  <1>4. \A p \in Msgs : p \in Taken' <=> p \in Taken
    BY <1>1, <1>2, <1>3 DEF Taken
  <1>5. \A p \in Msgs : SameMessage(p, s) /\ ((About(p, s))' => About(p, s))
    BY <1>1, <1>3, <1>4 DEF SameMessage, About
  <1>6. SameRow(s)
    BY <1>1 DEF SameRow, Paid
  <1> QED
    BY <1>5, <1>6, UnsentSame

\* The webhook saves the row as it was inserted, active.
LEMMA SavesAgreed ==
  ASSUME RecordsInv, KindsInv, SendersInv, OnceInv, NEW s \in CreateReqs, Orderly(s), Agreed(s),
         NEW k \in PayIds, NEW w \in Msgs, HookSaves(k, w)
  PROVE  Agreed(s)'
  <1>1. UNCHANGED <<subs, req, lis, rpc, stripe>>
    BY DEF HookSaves, OnlyHook
  <1>2. /\ hook[k].pc = "save" /\ prow'[w].gid = stripe[k].gid
        /\ prow'[w].auto = hook[k].snap.auto
        /\ \A v \in Msgs \ {w} : prow'[v] = prow[v]
    BY DEF HookSaves, RecordsInv, RowsInv
  <1>3. /\ Renewals(s, "disable")' = Renewals(s, "disable")
        /\ Renewals(s, "enable")' = Renewals(s, "enable")
        /\ AtStripe' = AtStripe /\ InTable' = InTable /\ Taken' = Taken
    BY <1>1 DEF Renewals, AtStripe, InTable, Taken
  <1>4. /\ Off(AtStripe, s)' = Off(AtStripe, s) /\ Off(Taken, s)' = Off(Taken, s)
        /\ Off(InTable, s)' = Off(InTable, s)
    BY <1>3 DEF Off
  <1>5. ASSUME NEW v \in Msgs, prow'[v].gid = s, prow'[v].ext # None
        PROVE  prow'[v].auto = ~Off(InTable, s)'
    <2>1. CASE v # w
      BY <1>2, <1>4, <1>5, <2>1 DEF Agreed
    <2>2. CASE v = w
      <3>1. stripe[k].gid = s
        BY <1>2, <1>5, <2>2
      <3>2. Paid(k, s)
        BY <1>2, <3>1 DEF Paid, RecordsInv, IInv, SessionsInv
      <3>3. hook[k].snap.auto
        BY <1>2, <3>1 DEF OnceInv, Orderly
      <3>4. \A p \in Msgs : ~About(p, s)
        BY <1>2, <3>2, NothingSentYet
      <3>5. ~Off(InTable, s)
        BY <3>4 DEF Off, Renewals, About
      <3>6. prow'[w].auto = TRUE
        BY <1>2, <3>3 DEF RecordsInv, IInv, TypeOK, Webhook, Row
      <3> QED
        BY <1>4, <2>2, <3>5, <3>6
    <2> QED
      BY <2>1, <2>2
  <1>6. Renewals(s, "enable")' # {} => (Renewals(s, "disable") \cap Taken)' # {}
    BY <1>3 DEF Agreed
  <1>7. \A j \in PayIds : (Paid(j, s))' => stripe'[j].cancel = Off(AtStripe, s)'
    BY <1>1, <1>4 DEF Agreed, Paid
  <1> QED
    BY <1>1, <1>4, <1>5, <1>6, <1>7 DEF Agreed

\* A new payment renews, and nothing has been sent about it.
LEMMA PaysAgreed ==
  ASSUME RecordsInv, KindsInv, SendersInv, UntouchedInv,
         NEW s \in CreateReqs, Orderly(s)', Agreed(s), NEW k \in PayIds, Pays(k)
  PROVE  Agreed(s)'
  <1>1. /\ UNCHANGED <<subs, req, lis, prow, rpc>> /\ stripe'[k].gid = stripe[k].gid
        /\ stripe'[k].cancel = stripe[k].cancel
        /\ \A j \in PayIds \ {k} : stripe'[j] = stripe[j]
    BY DEF Pays
  <1>2. /\ Renewals(s, "disable")' = Renewals(s, "disable")
        /\ Renewals(s, "enable")' = Renewals(s, "enable")
        /\ AtStripe' = AtStripe /\ InTable' = InTable /\ Taken' = Taken
    BY <1>1 DEF Renewals, AtStripe, InTable, Taken
  <1>3. /\ Off(AtStripe, s)' = Off(AtStripe, s) /\ Off(Taken, s)' = Off(Taken, s)
        /\ Off(InTable, s)' = Off(InTable, s)
    BY <1>2 DEF Off
  <1>4. ASSUME NEW j \in PayIds, (Paid(j, s))'
        PROVE  stripe'[j].cancel = Off(AtStripe, s)'
    <2>1. CASE Paid(j, s)
      <3>1. stripe'[j].cancel = stripe[j].cancel
        BY <1>1
      <3>2. stripe[j].cancel = Off(AtStripe, s)
        BY <2>1 DEF Agreed
      <3> QED
        BY <1>3, <3>1, <3>2
    <2>2. CASE ~Paid(j, s)
      <3>1. j = k /\ stripe[k].st = "open"
        BY <1>1, <1>4, <2>2 DEF Pays, Paid
      <3>2. stripe'[k].cancel = FALSE
        BY <1>1, <3>1 DEF UntouchedInv, RecordsInv, IInv, TypeOK, Session
      <3>3. ASSUME NEW p \in Msgs, About(p, s) PROVE FALSE
        <4>1. Paid(rpc[p].ext, s) /\ rpc[p].ext \in PayIds
          BY <3>3, AboutSender DEF Paid
        <4>2. rpc[p].ext # k
          BY <3>1, <4>1 DEF Paid
        <4>3. \A i \in PayIds : i = rpc[p].ext => (Paid(i, s))'
          BY <1>1, <4>1, <4>2 DEF Paid
        <4> QED
          BY <1>4, <3>1, <4>1, <4>2, <4>3 DEF Orderly
      <3>4. Off(AtStripe, s) = FALSE
        BY <3>3 DEF Off, Renewals, About
      <3>5. Off(AtStripe, s)' = FALSE
        BY <1>3, <3>4
      <3> QED
        BY <3>1, <3>2, <3>5
    <2> QED
      BY <2>1, <2>2
  <1>5. Renewals(s, "enable")' # {} => (Renewals(s, "disable") \cap Taken)' # {}
    BY <1>2 DEF Agreed
  <1> QED
    BY <1>1, <1>3, <1>4, <1>5 DEF Agreed

LEMMA HookAgreed ==
  ASSUME RecordsInv, KindsInv, SendersInv, UntouchedInv, OnceInv, AgreedInv, NEW k \in PayIds,
         \/ HookTurns(k) \/ Pays(k)
         \/ \E w \in Msgs : HookSaves(k, w)
         \/ \E e \in Events : HookEmits(k, e)
  PROVE  AgreedInv'
  <1> SUFFICES ASSUME NEW s \in CreateReqs, Exists(s)', Orderly(s)' PROVE Agreed(s)'
    BY DEF AgreedInv, Agreed
  <1>1. Onward /\ Outside
    BY HookKeeps
  <1>2. Exists(s) /\ Orderly(s)
    BY <1>1, OrderlyBefore DEF Exists, Outside
  <1>3. Agreed(s)
    BY <1>2 DEF AgreedInv, Agreed
  <1> QED
    BY <1>2, <1>3, TurnsAgreed, SavesAgreed, PaysAgreed
-----------------------------------------------------------------------------
(* Every step *)

LEMMA RequestRenewal ==
  ASSUME RenewalInv, RecordsInv', KindsInv', NEW r \in Reqs, Arrive(r) \/ GatewayStep(r)
  PROVE  RenewalInv'
  <1> USE DEF RenewalInv
  <1>1. ASSUME r \in CreateReqs PROVE RenewalInv'
    <2>1. Creates(r)
      BY <1>1, CreateShapes, RequestsAssumption DEF Arrive, GatewayStep
    <2>2. /\ Onward /\ Sticks /\ StatusStays /\ OnlyReq(r)
          /\ \A p \in Msgs \ {r} : rpc'[p] = rpc[p]
      BY <1>1, <2>1, CreatesKeeps DEF Creates
    <2>3. SendersInv'
      BY <1>1, <2>1, CreatesSenders
    <2>4. PreviousInv'
      BY <2>2, PreviousStays DEF OnlyReq
    <2>5. PairsInv' /\ OffInv'
      BY <1>1, <2>1, CreatesRenewing
    <2>6. \A p \in Msgs : \/ rpc'[p] = rpc[p]
                          \/ /\ rpc'[p].st = "queued" /\ rpc'[p].reply = "none"
                             /\ rpc'[p].kind = "create"
      BY <1>1, <2>1, <2>2 DEF Creates, Sent
    <2>7. UntouchedInv'
      BY <2>2, <2>6, UntouchedStays DEF OnlyReq
    <2>8. OnceInv'
      <3>1. \A s \in CreateReqs : subs'[s].status = "ACTIVE" =>
               subs[s].status = "ACTIVE" /\ subs'[s].ext = subs[s].ext
        BY <2>1 DEF Creates
      <3>2. CASE ~NoRestart'
        BY <3>2 DEF OnceInv
      <3>3. CASE NoRestart'
        <4>1. \A e \in Events : lis'[e].st # "none" =>
                 lis[e].st # "none" /\ lis'[e].ext = lis[e].ext /\ lis'[e].st # "lost"
          BY <2>2, <3>3 DEF OnlyReq, OnceInv, Onward
        <4> QED
          BY <2>2, <2>6, <3>1, <4>1, OnceByGateway DEF OnlyReq
      <3> QED
        BY <3>2, <3>3
    <2>9. WaitingInv' /\ AgreedInv'
      BY <1>1, <2>1, CreatesWaiting, CreatesAgreed
    <2> QED
      BY <2>3, <2>4, <2>5, <2>7, <2>8, <2>9
  <1>2. ASSUME r \in RenewalReqs PROVE RenewalInv'
    <2>1. Ends(r) \/ \E s \in CreateReqs : Asks(r, s) \/ Switches(r, s)
      BY <1>2, RenewalShapes, RequestsAssumption DEF Arrive, GatewayStep
    <2>2. /\ Onward /\ Sticks /\ StatusStays /\ OnlyReq(r)
          /\ \A p \in Msgs \ {r} : rpc'[p] = rpc[p]
      BY <1>2, <2>1, RenewalKeeps DEF Ends, Asks, Switches
    <2>3. SendersInv'
      BY <1>2, <2>1, RenewalSenders
    <2>4. PreviousInv'
      BY <2>2, PreviousStays DEF OnlyReq
    <2>5. PairsInv' /\ OffInv'
      BY <1>2, <2>1, RenewalRenewing
    <2>6. \A p \in Msgs : \/ rpc'[p] = rpc[p]
                          \/ /\ rpc'[p].st = "queued" /\ rpc'[p].reply = "none"
                             /\ \E s \in CreateReqs : /\ subs[s].status = "ACTIVE"
                                                      /\ rpc'[p].ext = subs[s].ext
      BY <1>2, <2>1, <2>2 DEF Ends, Asks, Switches, Sent, ActiveOf
    <2>7. UntouchedInv'
      BY <2>2, <2>6, UntouchedStays DEF OnlyReq
    <2>8. OnceInv'
      <3>1. \A s \in CreateReqs : subs'[s].status = "ACTIVE" =>
               subs[s].status = "ACTIVE" /\ subs'[s].ext = subs[s].ext
        BY <2>1 DEF Ends, Asks, Switches
      <3>2. CASE ~NoRestart'
        BY <3>2 DEF OnceInv
      <3>3. CASE NoRestart'
        <4>1. \A e \in Events : lis'[e].st # "none" =>
                 lis[e].st # "none" /\ lis'[e].ext = lis[e].ext /\ lis'[e].st # "lost"
          BY <2>2, <3>3 DEF OnlyReq, OnceInv, Onward
        <4> QED
          BY <2>2, <2>6, <3>1, <4>1, OnceByGateway DEF OnlyReq
      <3> QED
        BY <3>2, <3>3
    <2>9. WaitingInv' /\ AgreedInv'
      BY <1>2, <2>1, RenewalWaiting, RenewalAgreed
    <2> QED
      BY <2>3, <2>4, <2>5, <2>7, <2>8, <2>9
  <1> QED
    BY <1>1, <1>2

LEMMA ListenerRenewal ==
  ASSUME RenewalInv, RecordsInv', KindsInv', NEW e \in Events, ListenerStep(e)
  PROVE  RenewalInv'
  <1> USE DEF RenewalInv
  <1>1. \/ Skips(e)
        \/ \E s \in CreateReqs : Activates(e, s) \/ Takes(e, s)
        \/ \E s : Disables(e, s)
    BY ListenerShapes
  <1>2. /\ Onward /\ Sticks /\ StatusStays /\ OnlyLis(e)
        /\ \A p \in Msgs \ {e} : rpc'[p] = rpc[p]
    BY <1>1, ListenerKeeps DEF Skips, Activates, Takes, Disables
  <1>3. SendersInv'
    BY <1>1, ListenerSenders
  <1>4. PreviousInv'
    <2>1. CASE \E s \in CreateReqs : Takes(e, s)
      BY <2>1, TakesPrevious
    <2>2. CASE Skips(e) \/ (\E s \in CreateReqs : Activates(e, s)) \/ \E s : Disables(e, s)
      <3>1. lis'[e].prev = lis[e].prev
        BY <2>2 DEF Skips, Activates, Disables
      <3> QED
        BY <1>2, <3>1, PreviousStays DEF OnlyLis
    <2> QED
      BY <1>1, <2>1, <2>2
  <1>5. PairsInv' /\ OffInv'
    BY <1>1, SkipsRenewing, ActivatesRenewing, TakesRenewing, DisablesRenewing
  <1>6. \A p \in Msgs : \/ rpc'[p] = rpc[p]
                        \/ /\ rpc'[p].st = "queued" /\ rpc'[p].reply = "none"
                           /\ \E s \in CreateReqs : /\ subs[s].status = "ACTIVE"
                                                    /\ rpc'[p].ext = subs[s].ext
    <2>1. CASE UNCHANGED rpc
      BY <2>1
    <2>2. ASSUME NEW s \in CreateReqs, Takes(e, s)
          PROVE  /\ rpc'[e].st = "queued" /\ rpc'[e].reply = "none"
                 /\ subs[s].status = "ACTIVE" /\ rpc'[e].ext = subs[s].ext
      BY <2>2 DEF Takes, Sent, RenewingBesides, ActiveOf
    <2>3. UNCHANGED rpc \/ \E s \in CreateReqs : Takes(e, s)
      BY <1>1 DEF Skips, Activates, Disables
    <2> QED
      BY <1>2, <2>1, <2>2, <2>3
  <1>7. UntouchedInv'
    BY <1>2, <1>6, UntouchedStays DEF OnlyLis
  <1>8. OnceInv'
    <2>1. CASE ~NoRestart'
      BY <2>1 DEF OnceInv
    <2>2. CASE NoRestart'
      <3>1. \A f \in Events : lis[f].st # "lost"
        BY <1>2, <2>2 DEF OnceInv, Onward
      <3>2. lis[e].st # "none" /\ lis'[e].st # "lost"
        BY <1>1 DEF Skips, Activates, Takes, Disables
      <3>3. \A f \in Events : lis'[f].st # "none" =>
               lis[f].st # "none" /\ lis'[f].ext = lis[f].ext /\ lis'[f].st # "lost"
        BY <1>2, <3>1, <3>2 DEF OnlyLis
      <3>4. \A s \in CreateReqs : subs'[s].status = "ACTIVE" =>
               \/ subs[s].status = "ACTIVE" /\ subs'[s].ext = subs[s].ext
               \/ \E f \in Events : lis[f].st # "none" /\ subs'[s].ext = lis[f].ext
        BY <1>1, <3>2 DEF Skips, Activates, Takes, Disables
      <3> QED
        BY <1>2, <1>6, <3>3, <3>4, OnceByGateway DEF OnlyLis
    <2> QED
      BY <2>1, <2>2
  <1>9. WaitingInv' /\ AgreedInv'
    BY <1>1, ListenerWaiting, ListenerAgreed
  <1> QED
    BY <1>3, <1>4, <1>5, <1>7, <1>8, <1>9

\* A step outside the gateway moves no row of it and takes no previous row.
LEMMA OutsideRenewal ==
  ASSUME RenewalInv, Outside, Onward
  PROVE  SendersInv' /\ PreviousInv' /\ PairsInv' /\ OffInv' /\ WaitingInv'
  <1> USE DEF RenewalInv
  <1>1. SendersInv' /\ PairsInv' /\ OffInv' /\ WaitingInv'
    BY OutsideSenders, OutsideRenewing, OutsideWaiting
  <1>2. \A e \in Events : lis'[e].prev # None =>
          lis'[e].prev = lis[e].prev /\ lis'[e].gid = lis[e].gid
    BY DEF Outside
  <1>3. StatusStays
    BY DEF StatusStays, Outside
  <1> QED
    BY <1>1, <1>2, <1>3, PreviousStays

LEMMA MsgRenewal ==
  ASSUME RenewalInv, RecordsInv', KindsInv', NEW p \in Msgs, RpcStep(p)
  PROVE  RenewalInv'
  <1> USE DEF RenewalInv
  <1>1. \/ Serves(p) \/ Refuses(p) \/ ReachesTable(p)
        \/ \E k \in PayIds : ReachesStripe(p, k)
    BY ServesShape, RenewShape DEF RpcStep
  <1>2. Outside /\ Onward
    BY <1>1, MsgKeeps
  <1>3. UntouchedInv' /\ OnceInv' /\ AgreedInv'
    BY <1>1, MsgUntouched, MsgOnce, MsgAgreed
  <1> QED
    BY <1>2, <1>3, OutsideRenewal

LEMMA WebhookRenewal ==
  ASSUME RenewalInv, RecordsInv', KindsInv', NEW k \in PayIds,
         HookStep(k) \/ UserPays(k) \/ PeriodEnds(k)
  PROVE  RenewalInv'
  <1> USE DEF RenewalInv
  <1>1. \/ HookTurns(k) \/ Pays(k)
        \/ \E w \in Msgs : HookSaves(k, w)
        \/ \E e \in Events : HookEmits(k, e)
    BY HookShapes, StripeShapes
  <1>2. Outside /\ Onward
    BY <1>1, HookKeeps
  <1>3. UntouchedInv' /\ OnceInv' /\ AgreedInv'
    BY <1>1, HookUntouched, HookOnce, HookAgreed
  <1> QED
    BY <1>2, <1>3, OutsideRenewal

\* After a restart or a second delivery the rest says nothing of the order.
LEMMA FaultRenewal ==
  ASSUME RenewalInv, RecordsInv', KindsInv',
         GatewayCrash \/ PaymentsCrash \/ (\E k \in PayIds : Redeliver(k))
  PROVE  RenewalInv'
  <1> USE DEF RenewalInv
  <1>1. ~NoRestart'
    BY FaultSpent
  <1>2. OnceInv' /\ WaitingInv' /\ AgreedInv'
    BY <1>1 DEF OnceInv, WaitingInv, AgreedInv, Orderly
  <1>3. CASE GatewayCrash
    <2>1. SendersInv' /\ PairsInv' /\ OffInv'
      BY <1>3, CrashSenders, CrashRenewing
    <2>2. PreviousInv'
      BY <1>3, GatewayCrashKeeps, PreviousStays
    <2>3. UNCHANGED <<prow, stripe, rpc>>
      BY <1>3 DEF GatewayCrash, paymentsVars, tableVars, stripeVars
    <2>4. UntouchedInv'
      BY <2>3, UntouchedStays
    <2> QED
      BY <1>2, <2>1, <2>2, <2>4
  <1>4. CASE PaymentsCrash \/ \E k \in PayIds : Redeliver(k)
    <2>1. /\ Outside /\ Onward /\ UNCHANGED <<prow, stripe>>
          /\ \A p \in Msgs : rpc'[p] = rpc[p] \/ rpc'[p].st = "queued"
      BY <1>4, FaultKeeps
    <2>2. UntouchedInv'
      BY <2>1, UntouchedStays
    <2> QED
      BY <1>2, <2>1, <2>2, OutsideRenewal
  <1> QED
    BY <1>3, <1>4

LEMMA StepRenewal == RenewalInv /\ [Next]_vars => RenewalInv'
  <1> SUFFICES ASSUME RenewalInv, [Next]_vars PROVE RenewalInv'
    OBVIOUS
  <1>1. RecordsInv' /\ KindsInv'
    BY StepRecords, StepKinds DEF RenewalInv
  <1>2. CASE UNCHANGED vars
    <2>1. SendersInv' /\ PreviousInv' /\ UntouchedInv'
      BY <1>2 DEF vars, RenewalInv, SendersInv, PreviousInv, UntouchedInv, Untouched, Paid
    <2>2. PairsInv'
      BY <1>2 DEF vars, RenewalInv, PairsInv, Renews, Pending, LeftRenewing
    <2>3. OffInv'
      BY <1>2 DEF vars, RenewalInv, OffInv, SwitchedOff
    <2>4. NoRestart' <=> NoRestart
      BY <1>2 DEF vars, NoRestart
    <2>5. \A s : Orderly(s)' <=> Orderly(s)
      BY <1>2, <2>4 DEF vars, Orderly, Renewals, Paid
    <2>6. OnceInv'
      BY <1>2, <2>4, <2>5 DEF vars, RenewalInv, OnceInv
    <2>7. WaitingInv'
      BY <1>2, <2>4 DEF vars, RenewalInv, WaitingInv
    <2>8. AtStripe' = AtStripe /\ InTable' = InTable /\ Taken' = Taken
      BY <1>2 DEF vars, AtStripe, InTable, Taken
    <2>9. \A s, kind : Renewals(s, kind)' = Renewals(s, kind)
      BY <1>2 DEF vars, Renewals
    <2>10. AgreedInv'
      BY <1>2, <2>5, <2>8, <2>9 DEF vars, RenewalInv, AgreedInv, Off, Exists, Paid
    <2> QED
      BY <1>1, <2>1, <2>2, <2>3, <2>6, <2>7, <2>10 DEF RenewalInv
  <1>3. CASE Next
    BY <1>1, <1>3, RequestRenewal, ListenerRenewal, MsgRenewal, WebhookRenewal, FaultRenewal
       DEF Next
  <1> QED
    BY <1>2, <1>3

LEMMA InitRenewal == Init => RenewalInv
  <1> SUFFICES ASSUME Init PROVE RenewalInv
    OBVIOUS
  <1> USE DEF Init, BillingInit
  <1>1. RecordsInv
    BY InitRecords
  <1>2. /\ \A p \in Msgs : rpc[p] = NoMessage /\ prow[p] = NoRow
        /\ \A r \in Reqs : req[r] = NewRequest
        /\ \A e \in Events : lis[e] = NoListener
        /\ \A s \in CreateReqs : subs[s] = NoSub
        /\ \A k \in PayIds : stripe[k].st = "none" /\ stripe[k].cancel = FALSE /\ hook[k] = IdleHook
    OBVIOUS
  <1>3. KindsInv
    BY <1>2 DEF KindsInv, NoMessage, Handling
  <1>4. SendersInv
    BY <1>2 DEF SendersInv, NoMessage, NewRequest, NoListener
  <1>5. PreviousInv
    BY <1>2 DEF PreviousInv, NoListener
  <1>6. PairsInv /\ OffInv
    BY <1>2 DEF PairsInv, OffInv, Renews, NoSub
  <1>7. UntouchedInv
    BY <1>2 DEF UntouchedInv, Untouched, NoRow, NoMessage
  <1>8. OnceInv
    <2>1. \A k \in PayIds, w \in Msgs : prow[w].ext # k
      BY <1>2, NoneIsNoName DEF NoRow
    <2> QED
      BY <1>2, <2>1 DEF OnceInv, IdleHook, NoListener, NoSub, NoMessage
  <1>9. WaitingInv /\ AgreedInv
    BY <1>2 DEF WaitingInv, AgreedInv, Exists, NoMessage, NoSub
  <1> QED
    BY <1>1, <1>3, <1>4, <1>5, <1>6, <1>7, <1>8, <1>9 DEF RenewalInv

\* The inductive invariant behind the three theorems below: which messages about
\* renewal there are and how far each has come, at Stripe, in the payments table
\* and in the gateway, and who switched off or left renewing each active row.
THEOREM RenewalInvariant == Spec => []RenewalInv
  BY InitRenewal, StepRenewal, PTL DEF Spec
-----------------------------------------------------------------------------
(* The properties *)

\* At rest a message is where Stripe has done it only if its sender has taken
\* the answer.
LEMMA AtRestTaken ==
  ASSUME RenewalInv, AtRest, NoRestart, NEW p \in Msgs, p \in AtStripe,
         rpc[p].st # "none", rpc[p].kind # "create"
  PROVE  p \in Taken /\ p \in InTable
  <1> USE DEF RenewalInv
  <1>1. p \in InTable
    BY DEF AtStripe, InTable, AtRest
  <1>2. p \in CreateReqs \/ p \in RenewalReqs \/ p \in Events
    OBVIOUS
  <1>3. p \notin CreateReqs
    BY DEF KindsInv
  <1>4. CASE p \in RenewalReqs
    <2>1. req[p].pc # "start"
      BY <1>4 DEF RecordsInv, AnswersInv
    <2>2. req[p].pc = "done"
      BY <1>4, <2>1 DEF AtRest
    <2> QED
      BY <1>1, <1>4, <2>2 DEF Taken
  <1>5. CASE p \in Events
    <2>1. lis[p].st # "lost"
      BY <1>5 DEF OnceInv
    <2>2. lis[p].st \notin {"none", "dropped"}
      BY <1>5 DEF SendersInv
    <2>3. lis[p].st = "done"
      BY <1>5, <2>1, <2>2 DEF AtRest
    <2> QED
      BY <1>1, <1>5, <2>3 DEF Taken
  <1> QED
    BY <1>2, <1>3, <1>4, <1>5

LEMMA RenewalInvAgrees == RenewalInv => RenewalAgreement
  <1> SUFFICES ASSUME RenewalInv, AtRest, NEW s \in CreateReqs, NEW k \in PayIds, Orderly(s),
                      subs[s].status = "ACTIVE", subs[s].ext = k, stripe[k].st = "paid"
               PROVE  /\ subs[s].auto = ~stripe[k].cancel
                      /\ \A w \in RowsFor(s) : prow[w].ext = k => prow[w].auto = subs[s].auto
    BY DEF RenewalAgreement
  <1>1. Paid(k, s)
    BY DEF RenewalInv, RecordsInv, IInv, ActiveIsPaid
  <1>2. /\ subs[s].auto = ~Off(Taken, s)
        /\ stripe[k].cancel = Off(AtStripe, s)
        /\ \A w \in Msgs : prow[w].gid = s /\ prow[w].ext # None => prow[w].auto = ~Off(InTable, s)
    BY <1>1 DEF RenewalInv, AgreedInv, Exists
  <1>3. ASSUME NEW kind \in {"disable", "enable"}
        PROVE  /\ Renewals(s, kind) \cap AtStripe = Renewals(s, kind) \cap Taken
               /\ Renewals(s, kind) \cap InTable = Renewals(s, kind) \cap Taken
    <2>1. Taken \subseteq InTable /\ InTable \subseteq AtStripe
      BY DEF Taken, InTable, AtStripe
    <2>2. \A p \in Renewals(s, kind) : p \in AtStripe => p \in Taken
      BY AtRestTaken DEF Renewals, Orderly
    <2> QED
      BY <2>1, <2>2
  <1>4. Off(AtStripe, s) = Off(Taken, s) /\ Off(InTable, s) = Off(Taken, s)
    BY <1>3 DEF Off
  <1>5. Off(Taken, s) \in BOOLEAN
    BY DEF Off
  <1>6. subs[s].auto = ~stripe[k].cancel
    BY <1>2, <1>4, <1>5
  <1>7. ASSUME NEW w \in RowsFor(s), prow[w].ext = k PROVE prow[w].auto = subs[s].auto
    <2>1. w \in Msgs /\ prow[w].gid = s /\ prow[w].ext # None
      BY <1>7, NoneIsNoName DEF RowsFor
    <2> QED
      BY <1>2, <1>4, <2>1
  <1> QED
    BY <1>6, <1>7

\* Once all handlers have run, what a client sees of the auto-renewal of an
\* active subscription is what the payments service has recorded and what Stripe
\* will do, whatever Stripe refused and however requests and activations
\* interleaved, as long as the row's changes came in order.
THEOREM RenewalsAgree == Spec => []RenewalAgreement
  BY RenewalInvariant, RenewalInvAgrees, PTL

LEMMA RenewalInvOneRenews == RenewalInv => OneRenews
  <1> SUFFICES ASSUME RenewalInv, AtRest, NEW s \in CreateReqs, NEW t \in CreateReqs,
                      s # t, UserOf[s] = UserOf[t], Renews(s), Renews(t)
               PROVE  LeftRenewing(s, t) \/ LeftRenewing(t, s)
    BY DEF OneRenews
  <1>1. ~Pending(s, t) /\ ~Pending(t, s)
    BY DEF AtRest, Pending
  <1> QED
    BY <1>1 DEF RenewalInv, PairsInv

\* However the activations of the rows of a user interleave, at rest two of them
\* renew only for a reason: the code was given one not to switch one of them off.
THEOREM OneRowRenews == Spec => []OneRenews
  BY RenewalInvariant, RenewalInvOneRenews, PTL

LEMMA RenewalInvSurvives == RenewalInv => RenewalSurvives
  <1> SUFFICES ASSUME RenewalInv, NEW u \in Users, ActiveOf(u) # {},
                      \A s \in ActiveOf(u) : ~subs[s].auto,
                      ~\E r \in CancelReqs : UserOf[r] = u /\ req[r].res = "ok",
                      ~\E s \in ActiveOf(u), t \in CreateReqs :
                         subs[t].status = "deleted" /\ SwitchedOff(s, t),
                      NEW s \in ActiveOf(u)
               PROVE  \E t \in ActiveOf(u) \ {s} : SwitchedOff(s, t)
    BY DEF RenewalSurvives
  <1>1. s \in CreateReqs /\ UserOf[s] = u /\ subs[s].status = "ACTIVE" /\ ~subs[s].auto
    BY DEF ActiveOf
  <1>2. ASSUME NEW r \in CancelReqs, req[r].sub = s, req[r].res = "ok" PROVE FALSE
    <2>1. UserOf[s] = UserOf[r]
      BY <1>1, <1>2, NoneIsNoName DEF RenewalInv, SendersInv
    <2> QED
      BY <1>1, <1>2, <2>1
  <1>3. PICK t \in CreateReqs \ {s} : /\ UserOf[t] = UserOf[s]
                                      /\ subs[t].status \in {"ACTIVE", "deleted"}
                                      /\ SwitchedOff(s, t)
    BY <1>1, <1>2 DEF RenewalInv, OffInv
  <1>4. subs[t].status = "ACTIVE"
    BY <1>3
  <1> QED
    BY <1>1, <1>3, <1>4 DEF ActiveOf

\* A user with an active row and none that renews has cancelled one, or the row
\* that replaced another was deleted, or his rows switched each other off.
THEOREM ARenewingRowSurvives == Spec => []RenewalSurvives
  BY RenewalInvariant, RenewalInvSurvives, PTL
=============================================================================
