------------------------ MODULE GatewaySubscriptions ------------------------
(***************************************************************************)
(* The gateway's subscription feature.  An action is the code between two  *)
(* awaits: one query, or one query and the message published right after   *)
(* it.  (A crash between that query and the publish leaves what a message  *)
(* no consumer ever takes leaves, so the pair is one step.)                *)
(***************************************************************************)
EXTENDS BillingState

Publish(p, kind, gid, ext, prov) ==
    rpc' = [rpc EXCEPT ![p] = [NoMessage EXCEPT !.st = "queued", !.kind = kind,
                                  !.gid = gid, !.ext = ext, !.prov = prov]]

Finish(r, res) == req' = [req EXCEPT ![r] = [@ EXCEPT !.pc = "done", !.res = res]]

\* Rows a `findFirst` may return: without `orderBy` any match is legal.
PendingOf(u) == {s \in CreateReqs : subs[s].status = "PENDING" /\ UserOf[s] = u}
ActiveOf(u) == {s \in CreateReqs : subs[s].status = "ACTIVE" /\ UserOf[s] = u}

\* Mutant: an upsert where the code updates.
ExistsOrDeleted(s) == subs[s].status # "none"

\* A row `update` and `delete` find; Prisma throws when there is none.
Exists(s) == subs[s].status \in {"PENDING", "ACTIVE"}

-----------------------------------------------------------------------------
\* POST /subscriptions: look for a PENDING row to reuse.
CreateFindPending(r) ==
    /\ req[r].pc = "start"
    /\ \E prov \in Providers :
         \/ \E s \in PendingOf(UserOf[r]) :
              req' = [req EXCEPT ![r] = [@ EXCEPT !.pc = "touch", !.sub = s, !.prov = prov]]
         \/ /\ PendingOf(UserOf[r]) = {}
            /\ req' = [req EXCEPT ![r] = [@ EXCEPT !.pc = "insert", !.prov = prov]]
    /\ UNCHANGED <<subs, account, lis, rpc, paymentsVars, stripeVars, faults>>

\* Reuse: touch `updatedAt` of a row that may since have been activated or
\* deleted (Prisma throws on a missing row), then ask for a session.
CreateTouch(r) ==
    /\ req[r].pc = "touch"
    /\ \/ /\ Exists(req[r].sub)
          /\ Publish(r, "create", req[r].sub, None, req[r].prov)
          /\ req' = [req EXCEPT ![r].pc = "wait"]
       \/ /\ ~Exists(req[r].sub)
          /\ Finish(r, "failed")
          /\ UNCHANGED rpc
    /\ UNCHANGED <<subs, account, lis, paymentsVars, stripeVars, faults>>

InsertPending(s) ==
    subs' = [subs EXCEPT ![s] = [status |-> "PENDING", auto |-> TRUE, ext |-> None]]

\* No PENDING row was seen: insert one and ask for a session.
CreateInsert(r) ==
    /\ req[r].pc = "insert"
    /\ InsertPending(r)
    /\ Publish(r, "create", r, None, req[r].prov)
    /\ req' = [req EXCEPT ![r] = [@ EXCEPT !.pc = "wait", !.sub = r, !.fresh = TRUE]]
    /\ UNCHANGED <<account, lis, paymentsVars, stripeVars, faults>>

\* Mutant: the row is deleted whoever inserted it.
CleanUpAnyone(r) == subs' = [subs EXCEPT ![req[r].sub].status = "deleted"]

\* `delete(subscription.id)` when this request inserted the row, whatever the
\* row's status has become.
CleanUp(r) ==
    subs' = IF req[r].fresh THEN [subs EXCEPT ![req[r].sub].status = "deleted"] ELSE subs

CreateReply(r) ==
    /\ req[r].pc = "wait"
    /\ \/ rpc[r].reply = "url" /\ Finish(r, "url") /\ UNCHANGED subs
       \/ rpc[r].reply = "null" /\ Finish(r, "conflict") /\ CleanUp(r)
       \/ rpc[r].reply = "error" /\ Finish(r, "error") /\ CleanUp(r)
    /\ UNCHANGED <<account, lis, rpc, paymentsVars, stripeVars, faults>>

-----------------------------------------------------------------------------
\* The two renewal requests differ in the value they write.
Wanted(r) == r \in EnableReqs
RenewalKind(r) == IF Wanted(r) THEN "enable" ELSE "disable"

RenewalFind(r) ==
    /\ req[r].pc = "start"
    /\ \/ /\ ActiveOf(UserOf[r]) = {}
          /\ Finish(r, "notFound")
          /\ UNCHANGED rpc
       \/ \E s \in ActiveOf(UserOf[r]) :
            \/ /\ subs[s].auto = Wanted(r)
               /\ req' = [req EXCEPT ![r] = [@ EXCEPT !.pc = "done", !.res = "conflict", !.sub = s]]
               /\ UNCHANGED rpc
            \/ /\ subs[s].auto # Wanted(r)
               /\ Publish(r, RenewalKind(r), s, subs[s].ext, "STRIPE")
               /\ req' = [req EXCEPT ![r] = [@ EXCEPT !.pc = "wait", !.sub = s]]
    /\ UNCHANGED <<subs, account, lis, paymentsVars, stripeVars, faults>>

RenewalReply(r) ==
    /\ req[r].pc = "wait"
    /\ \/ /\ rpc[r].reply = "no"
          /\ Finish(r, "refused")
          /\ UNCHANGED subs
       \/ /\ rpc[r].reply = "yes"
          /\ Exists(req[r].sub)
          /\ subs' = [subs EXCEPT ![req[r].sub].auto = Wanted(r)]
          /\ Finish(r, "ok")
       \/ /\ rpc[r].reply = "yes"
          /\ ~Exists(req[r].sub)
          /\ Finish(r, "failed")
          /\ UNCHANGED subs
    /\ UNCHANGED <<account, lis, rpc, paymentsVars, stripeVars, faults>>

-----------------------------------------------------------------------------
\* `subscription_activated`, taken off the queue without acknowledgement.
ActivateUpdate(e) ==
    /\ lis[e].st = "queued"
    /\ \/ /\ Exists(lis[e].gid)
          /\ subs' = [subs EXCEPT ![lis[e].gid] = [@ EXCEPT !.status = "ACTIVE",
                                  !.ext = lis[e].ext]]
          /\ lis' = [lis EXCEPT ![e].st = "find"]
       \/ /\ ~Exists(lis[e].gid)
          /\ lis' = [lis EXCEPT ![e].st = "dropped"]
          /\ UNCHANGED subs
    /\ UNCHANGED <<account, req, rpc, paymentsVars, stripeVars, faults>>

\* Mutant: `lt` for `gt` in the filter on validUntil.
ExpiredBesides(s) ==
    {x \in ActiveOf(UserOf[s]) \ {s} : subs[x].auto /\ subs[x].ext \in lapsed}

\* Mutant: the row being activated is not excluded.
RenewingToo(s) == {x \in ActiveOf(UserOf[s]) : subs[x].auto /\ subs[x].ext \notin lapsed}

\* findLastActiveBefore.  `validUntil > now` is "the first period has not
\* ended"; of several candidates any may be the most recently updated one.
RenewingBesides(s) ==
    {x \in ActiveOf(UserOf[s]) \ {s} : subs[x].auto /\ subs[x].ext \notin lapsed}

\* Mutant: an early return when there is nothing to disable.
ActivateFindPrevOrReturn(e) ==
    /\ lis[e].st = "find"
    /\ RenewingBesides(lis[e].gid) = {}
    /\ lis' = [lis EXCEPT ![e].st = "done"]
    /\ UNCHANGED <<subs, account, req, rpc, paymentsVars, stripeVars, faults>>

ActivateFindPrev(e) ==
    /\ lis[e].st = "find"
    /\ \/ /\ RenewingBesides(lis[e].gid) = {}
          /\ lis' = [lis EXCEPT ![e].st = "upgrade"]
          /\ UNCHANGED rpc
       \/ \E s \in RenewingBesides(lis[e].gid) :
            /\ lis' = [lis EXCEPT ![e] = [@ EXCEPT !.st = "wait", !.prev = s]]
            /\ Publish(e, "disable", s, subs[s].ext, "STRIPE")
    /\ UNCHANGED <<subs, account, req, paymentsVars, stripeVars, faults>>

\* Mutant: the answer of the payments service is not looked at.
ActivateDisabledAnyway(e) ==
    /\ lis[e].st = "wait"
    /\ rpc[e].reply \in {"yes", "no"}
    /\ subs' = IF Exists(lis[e].prev) THEN [subs EXCEPT ![lis[e].prev].auto = FALSE] ELSE subs
    /\ lis' = [lis EXCEPT ![e].st = "upgrade"]
    /\ UNCHANGED <<account, req, rpc, paymentsVars, stripeVars, faults>>

\* A failing update of a missing row is swallowed like a refusal.
ActivateDisabled(e) ==
    /\ lis[e].st = "wait"
    /\ rpc[e].reply \in {"yes", "no"}
    /\ subs' = IF rpc[e].reply = "yes" /\ Exists(lis[e].prev)
               THEN [subs EXCEPT ![lis[e].prev].auto = FALSE]
               ELSE subs
    /\ lis' = [lis EXCEPT ![e].st = "upgrade"]
    /\ UNCHANGED <<account, req, rpc, paymentsVars, stripeVars, faults>>

ActivateUpgrade(e) ==
    /\ lis[e].st = "upgrade"
    /\ account' = [account EXCEPT ![UserOf[lis[e].gid]] = "BUSINESS"]
    /\ lis' = [lis EXCEPT ![e].st = "done"]
    /\ UNCHANGED <<subs, req, rpc, paymentsVars, stripeVars, faults>>

-----------------------------------------------------------------------------
\* A restart of the gateway: open HTTP requests and half-run listeners are
\* gone (events are consumed with noAck), queued messages stay.
GatewayCrash ==
    /\ faults.gcrash > 0
    /\ faults' = [faults EXCEPT !.gcrash = @ - 1]
    /\ req' = [r \in Reqs |-> IF req[r].pc \in {"touch", "insert", "wait"}
                              THEN [req[r] EXCEPT !.pc = "done", !.res = "lost"]
                              ELSE req[r]]
    /\ lis' = [e \in Events |-> IF lis[e].st \in {"find", "wait", "upgrade"}
                                THEN [lis[e] EXCEPT !.st = "lost"]
                                ELSE lis[e]]
    /\ UNCHANGED <<subs, account, rpc, paymentsVars, stripeVars>>

CreateStep(r) == CreateTouch(r) \/ CreateInsert(r) \/ CreateReply(r)
ListenerStep(e) ==
    ActivateUpdate(e) \/ ActivateFindPrev(e) \/ ActivateDisabled(e) \/ ActivateUpgrade(e)
=============================================================================
