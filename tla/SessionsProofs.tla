--------------------------- MODULE SessionsProofs ---------------------------
(***************************************************************************)
(* The invariant of Sessions and what it implies, for every number of      *)
(* clients, requests, seconds and lost responses.                          *)
(***************************************************************************)
EXTENDS Sessions, TLAPS

LEMMA InitInv == Init => SInv
  <1> SUFFICES ASSUME Init PROVE SInv
    OBVIOUS
  <1>1. TypeOK
    BY SessionAssumption DEF Init, TypeOK, DeviceRow, Request, Seconds
  <1>2. HandlersInv
    BY DEF Init, HandlersInv
  <1>3. UsableInv
    BY DEF Init, UsableInv, Bringing, Running, LiveSessionUsable, Brings, Live, Reqs
  <1>4. TokensInv /\ WaitingInv
    BY DEF Init, TokensInv, WaitingInv, Running, Brings
  <1>5. CurrentInv /\ OneSessionInv
    BY DEF Init, CurrentInv, OneSessionInv, Refreshable, Brings, Live
  <1> QED
    BY <1>1, <1>2, <1>3, <1>4, <1>5 DEF SInv, InsertInv, Init
-----------------------------------------------------------------------------
(* Types *)

LEMMA RequestFields ==
  ASSUME NEW q \in Request
  PROVE  /\ \A res \in {"ok", "cleared", "stillValid", "unauthorized", "notFound",
                        "forbidden", "failed"} :
              /\ [q EXCEPT !.pc = "reply", !.res = res] \in Request
              /\ \A t \in Tokens \cup {None} :
                   [q EXCEPT !.pc = "reply", !.res = res, !.tok = t] \in Request
         /\ \A n \in Tokens : [q EXCEPT !.pc = "update", !.new = n] \in Request
         /\ \A n \in Tokens : [q EXCEPT !.pc = "create", !.new = n] \in Request
         /\ \A n \in Tokens, t \in Tokens \cup {None} :
              [q EXCEPT !.pc = "create", !.tok = t, !.new = n] \in Request
         /\ \A pc \in {"find", "delete"}, t \in Tokens, d \in Devices \cup {None} :
              [q EXCEPT !.pc = pc, !.tok = t, !.target = d] \in Request
         /\ \A pc \in {"delete", "done"} : [q EXCEPT !.pc = pc] \in Request
  BY DEF Request

LEMMA Now == TypeOK => \A d \in Devices : [dev |-> d, iat |-> now] \in Tokens
  BY DEF TypeOK, Tokens

\* TypeOK but for raced, which Race types.
Typed ==
    /\ device \in [Devices -> DeviceRow]
    /\ cookie \in [Clients -> Tokens \cup {None}]
    /\ req \in [Reqs -> Request]
    /\ now \in Seconds
    /\ lost \in 0..MaxLost

\* The steps of a handler that write no device.
LEMMA StartType ==
  ASSUME TypeOK, NEW r \in Reqs,
         \/ r \in LoginReqs /\ LoginStart(r)
         \/ r \in OAuthReqs /\ OAuthStart(r)
         \/ RefreshStart(r) \/ LogoutStart(r) \/ OthersStart(r) \/ TerminateStart(r)
  PROVE  Typed'
  <1> DEFINE t == cookie[ClientOf[r]]
  <1>0. req \in [Reqs -> Request] /\ req[r] \in Request /\ t \in Tokens \cup {None}
    BY SessionAssumption DEF TypeOK, Typed
  <1>1. CASE r \in LoginReqs /\ LoginStart(r)
    <2>1. [dev |-> r, iat |-> now] \in Tokens
      BY <1>1, Now DEF Devices
    <2>2. /\ [req[r] EXCEPT !.pc = "reply", !.res = "stillValid", !.tok = t] \in Request
          /\ [req[r] EXCEPT !.pc = "create", !.tok = t, !.new = [dev |-> r, iat |-> now]]
                \in Request
      BY <1>0, <2>1, RequestFields
    <2>3. req' \in [Reqs -> Request]
      BY <1>0, <1>1, <2>2 DEF LoginStart, AnswerTo
    <2> QED
      BY <1>1, <2>3 DEF LoginStart, TypeOK, Typed
  <1>2. CASE r \in OAuthReqs /\ OAuthStart(r)
    <2>1. [dev |-> r, iat |-> now] \in Tokens
      BY <1>2, Now DEF Devices
    <2>2. req' \in [Reqs -> Request]
      BY <1>0, <1>2, <2>1, RequestFields DEF OAuthStart
    <2> QED
      BY <1>2, <2>2 DEF OAuthStart, TypeOK, Typed
  <1>3. ASSUME NEW pc \in {"find", "delete"}, NEW d \in Devices \cup {None},
               Guarded(r, pc, d)
        PROVE  Typed'
    <2>1. [req[r] EXCEPT !.pc = "reply", !.res = "unauthorized", !.tok = t] \in Request
      BY <1>0, RequestFields
    <2>2. Valid(t) => [req[r] EXCEPT !.pc = pc, !.tok = t, !.target = d] \in Request
      BY <1>0, <1>3, RequestFields DEF Valid
    <2>3. req' \in [Reqs -> Request]
      BY <1>0, <1>3, <2>1, <2>2 DEF Guarded, AnswerTo
    <2> QED
      BY <1>3, <2>3 DEF Guarded, TypeOK, Typed
  <1> QED
    BY <1>1, <1>2, <1>3 DEF RefreshStart, LogoutStart, OthersStart, TerminateStart

LEMMA HandlerType ==
  ASSUME SInv, NEW r \in Reqs,
         \/ r \in Devices /\ CreateDevice(r)
         \/ RefreshFind(r) \/ RefreshUpdate(r)
         \/ LogoutDelete(r) \/ OthersDelete(r)
         \/ r \in TerminateReqs /\ (TerminateFind(r) \/ TerminateDelete(r))
  PROVE  Typed'
  <1>0. /\ req \in [Reqs -> Request] /\ req[r] \in Request
        /\ device \in [Devices -> DeviceRow] /\ lost \in 0..MaxLost /\ MaxLost \in Nat
    BY SessionAssumption DEF SInv, TypeOK
  <1>1. CASE r \in Devices /\ CreateDevice(r)
    <2>1. req[r].new.iat \in Seconds
      BY <1>1 DEF CreateDevice, SInv, HandlersInv, Tokens
    <2>2. device' \in [Devices -> DeviceRow]
      BY <1>0, <1>1, <2>1 DEF CreateDevice, InsertDevice, WriteFails, DeviceRow
    <2>3. req' \in [Reqs -> Request]
      BY <1>0, <1>1, RequestFields DEF CreateDevice, Answer
    <2>4. lost' \in 0..MaxLost
      BY <1>0, <1>1 DEF CreateDevice, WriteFails
    <2> QED
      BY <1>1, <2>2, <2>3, <2>4 DEF CreateDevice, SInv, TypeOK, Typed
  <1>2. CASE RefreshFind(r)
    <2>1. [dev |-> req[r].tok.dev, iat |-> now] \in Tokens
      BY <1>2, Now DEF RefreshFind, SInv, HandlersInv, Tokens
    <2>2. req' \in [Reqs -> Request]
      <3>1. CASE Answer(r, "unauthorized")
        BY <1>0, <3>1, RequestFields DEF Answer
      <3>2. CASE req' = [req EXCEPT ![r] = [req[r] EXCEPT !.pc = "update",
                                       !.new = [dev |-> req[r].tok.dev, iat |-> now]]]
        BY <1>0, <2>1, <3>2, RequestFields
      <3> QED
        BY <1>2, <3>1, <3>2 DEF RefreshFind
    <2> QED
      BY <1>2, <2>2 DEF RefreshFind, SInv, TypeOK, Typed
  <1>3. CASE RefreshUpdate(r)
    <2>1. req[r].new.iat \in Seconds
      BY <1>3 DEF RefreshUpdate, SInv, HandlersInv, Tokens
    <2>2. device' \in [Devices -> DeviceRow]
      BY <1>0, <1>3, <2>1 DEF RefreshUpdate, UpdateIat, WriteFails, DeviceRow
    <2>3. req' \in [Reqs -> Request]
      BY <1>0, <1>3, RequestFields DEF RefreshUpdate, Answer
    <2>4. lost' \in 0..MaxLost
      BY <1>0, <1>3 DEF RefreshUpdate, WriteFails
    <2> QED
      BY <1>3, <2>2, <2>3, <2>4 DEF RefreshUpdate, SInv, TypeOK, Typed
  <1>4. CASE LogoutDelete(r)
    <2>1. device' \in [Devices -> DeviceRow]
      BY <1>0, <1>4 DEF LogoutDelete, DeleteByIat, MarkDeleted, DeviceRow
    <2>2. req' \in [Reqs -> Request]
      BY <1>0, <1>4, RequestFields DEF LogoutDelete, DeleteByIat, MarkDeleted, Answer
    <2> QED
      BY <1>4, <2>1, <2>2 DEF LogoutDelete, DeleteByIat, MarkDeleted, SInv, TypeOK, Typed
  <1>5. CASE OthersDelete(r)
    <2>1. \A d \in Devices : [device[d] EXCEPT !.st = "deleted"] \in DeviceRow
      BY <1>0 DEF DeviceRow
    <2>2. device' \in [Devices -> DeviceRow]
      BY <1>0, <1>5, <2>1 DEF OthersDelete
    <2>3. req' \in [Reqs -> Request]
      BY <1>0, <1>5, RequestFields DEF OthersDelete, Answer
    <2> QED
      BY <1>5, <2>2, <2>3 DEF OthersDelete, SInv, TypeOK, Typed
  <1>6. CASE TerminateFind(r)
    <2>1. req' \in [Reqs -> Request]
      BY <1>0, <1>6, RequestFields DEF TerminateFind, Answer
    <2> QED
      BY <1>6, <2>1 DEF TerminateFind, SInv, TypeOK, Typed
  <1>7. CASE TerminateDelete(r)
    <2>1. device' \in [Devices -> DeviceRow]
      BY <1>0, <1>7 DEF TerminateDelete, DeleteByUser, MarkDeleted, DeviceRow
    <2>2. req' \in [Reqs -> Request]
      BY <1>0, <1>7, RequestFields DEF TerminateDelete, DeleteByUser, MarkDeleted, Answer
    <2> QED
      BY <1>7, <2>1, <2>2 DEF TerminateDelete, DeleteByUser, MarkDeleted, SInv, TypeOK, Typed
  <1> QED
    BY <1>1, <1>2, <1>3, <1>4, <1>5, <1>6, <1>7

LEMMA ReplyType ==
  ASSUME TypeOK, NEW r \in Reqs, Receive(r) \/ LoseResponse(r)
  PROVE  Typed'
  <1>0. req \in [Reqs -> Request] /\ req[r] \in Request /\ lost \in Nat
    BY SessionAssumption DEF TypeOK, Typed
  <1>1. req' \in [Reqs -> Request]
    BY <1>0, RequestFields DEF Receive, LoseResponse
  <1>2. CASE Receive(r)
    <2>1. req[r].new # None => req[r].new \in Tokens
      BY <1>0 DEF Request
    <2>2. cookie' \in [Clients -> Tokens \cup {None}]
      BY <1>2, <2>1 DEF Receive, TypeOK, Typed
    <2> QED
      BY <1>1, <1>2, <2>2 DEF Receive, TypeOK, Typed
  <1>3. CASE LoseResponse(r)
    BY <1>0, <1>1, <1>3, SessionAssumption DEF LoseResponse, TypeOK, Typed
  <1> QED
    BY <1>2, <1>3

LEMMA StepType == SInv /\ [Next]_vars => TypeOK'
  <1> SUFFICES ASSUME SInv, [Next]_vars PROVE TypeOK'
    OBVIOUS
  <1>1. CASE UNCHANGED vars
    BY <1>1 DEF vars, SInv, TypeOK
  <1>2. CASE Next
    <2>1. ASSUME Tick PROVE Typed'
      BY <2>1, SessionAssumption DEF Tick, SInv, TypeOK, Typed, Seconds
    <2>2. Typed'
      BY <1>2, <2>1, StartType, HandlerType, ReplyType DEF Next, SessionStep, SInv, Reqs, Devices
    <2>3. raced' \in SUBSET Devices
      BY <1>2 DEF Next, Race, SInv, TypeOK
    <2> QED
      BY <2>2, <2>3 DEF TypeOK, Typed
  <1> QED
    BY <1>1, <1>2
-----------------------------------------------------------------------------
(* What a handler holds *)

\* Only r's handler moves.
OnlyMoves(r) == \A q \in Reqs \ {r} : req'[q] = req[q]

\* The conjuncts of HandlersInv for one request.
Holds(r) ==
    /\ req[r].pc \in {"start", "find", "delete"} => req[r].new = None
    /\ req[r].pc \in {"find", "update", "delete"} => req[r].tok \in Tokens
    /\ req[r].pc = "update" => req[r].new \in Tokens /\ req[r].new.dev = req[r].tok.dev
    /\ req[r].pc = "create" => req[r].new \in Tokens /\ req[r].new.dev = r
    /\ req[r].pc = "reply" /\ req[r].new # None => req[r].res = "ok"
    /\ r \in TerminateReqs =>
         /\ req[r].pc \in {"find", "delete"} => req[r].target \in Devices
         /\ req[r].pc = "delete" => Permitted(r)

LEMMA EachHolds == HandlersInv <=> \A r \in Reqs : Holds(r)
  BY DEF HandlersInv, Holds

\* The others keep what they hold.
LEMMA OthersHold ==
  ASSUME HandlersInv, NEW r \in Reqs, OnlyMoves(r), Holds(r)'
  PROVE  HandlersInv'
  <1> SUFFICES ASSUME NEW q \in Reqs PROVE Holds(q)'
    BY DEF HandlersInv, Holds
  <1>1. CASE q = r
    BY <1>1
  <1>2. CASE q # r
    BY <1>2 DEF OnlyMoves, HandlersInv, Holds, Permitted, OwnerOf
  <1> QED
    BY <1>1, <1>2

LEMMA StartHolds ==
  ASSUME SInv, NEW r \in Reqs,
         \/ r \in LoginReqs /\ LoginStart(r)
         \/ r \in OAuthReqs /\ OAuthStart(r)
         \/ r \in RefreshReqs /\ RefreshStart(r)
         \/ r \in LogoutReqs /\ LogoutStart(r)
         \/ r \in OthersReqs /\ OthersStart(r)
         \/ r \in TerminateReqs /\ TerminateStart(r)
  PROVE  OnlyMoves(r) /\ Holds(r)'
  <1> DEFINE t == cookie[ClientOf[r]]
  <1>0. /\ req \in [Reqs -> Request] /\ req[r] \in Request
        /\ t \in Tokens \cup {None}
    BY SessionAssumption DEF SInv, TypeOK
  <1>n. TypeOK /\ Holds(r) /\ (\A d \in Devices : [dev |-> d, iat |-> now] \in Tokens)
    BY Now, EachHolds DEF SInv
  <1>1. CASE r \in LoginReqs /\ LoginStart(r)
    <2>1. r \notin TerminateReqs /\ r \in Devices /\ req[r].pc = "start" /\ req[r].new = None
      BY <1>n, <1>1, SessionAssumption DEF Devices, LoginStart, MaySend, Holds
    <2>2. OnlyMoves(r)
      BY <1>0, <1>1 DEF LoginStart, AnswerTo, OnlyMoves
    <2>3. CASE req' = [req EXCEPT ![r] = [@ EXCEPT !.pc = "create", !.tok = t,
                                     !.new = [dev |-> r, iat |-> now]]]
      <3>1. /\ req'[r].pc = "create"
            /\ req'[r].new = [dev |-> r, iat |-> now]
        BY <1>0, <2>3 DEF Request
      <3> QED
        BY <1>n, <2>1, <2>2, <3>1 DEF Holds
    <2>4. CASE AnswerTo(r, t, "stillValid")
      <3>1. req'[r].pc = "reply" /\ req'[r].new = None
        BY <1>0, <2>1, <2>4 DEF AnswerTo, Request
      <3> QED
        BY <2>1, <2>2, <3>1 DEF Holds
    <2> QED
      BY <1>1, <2>2, <2>3, <2>4 DEF LoginStart
  <1>2. CASE r \in OAuthReqs /\ OAuthStart(r)
    <2>1. r \notin TerminateReqs /\ r \in Devices
      BY <1>2, SessionAssumption DEF Devices
    <2> QED
      BY <1>0, <1>n, <1>2, <2>1 DEF OAuthStart, OnlyMoves, Holds, Request
  <1>3. ASSUME NEW pc \in {"find", "delete"}, NEW d \in Devices \cup {None},
               Guarded(r, pc, d),
               r \in TerminateReqs => d \in Devices /\ pc = "find"
        PROVE  OnlyMoves(r) /\ Holds(r)'
    <2>1. req[r].pc = "start" /\ req[r].new = None
      BY <1>n, <1>3 DEF Guarded, MaySend, Holds
    <2>2. OnlyMoves(r)
      BY <1>0, <1>3 DEF Guarded, AnswerTo, OnlyMoves
    <2>3. CASE AnswerTo(r, t, "unauthorized")
      <3>1. req'[r].pc = "reply" /\ req'[r].new = None
        BY <1>0, <2>1, <2>3 DEF AnswerTo, Request
      <3> QED
        BY <2>2, <3>1 DEF Holds
    <2>4. CASE Valid(t) /\ req' = [req EXCEPT ![r] = [@ EXCEPT !.pc = pc, !.tok = t,
                                                  !.target = d]]
      <3>1. /\ req'[r].pc = pc /\ req'[r].new = None
            /\ req'[r].tok = t /\ req'[r].target = d
        BY <1>0, <2>1, <2>4 DEF Request
      <3>2. t \in Tokens
        BY <1>0, <2>4 DEF Valid
      <3> QED
        BY <1>3, <2>2, <3>1, <3>2 DEF Holds
    <2> QED
      BY <1>3, <2>3, <2>4 DEF Guarded
  <1> QED
    BY <1>1, <1>2, <1>3, SessionAssumption
       DEF RefreshStart, LogoutStart, OthersStart, TerminateStart

LEMMA HandlerHolds ==
  ASSUME SInv, NEW r \in Reqs,
         \/ r \in Devices /\ CreateDevice(r)
         \/ r \in RefreshReqs /\ (RefreshFind(r) \/ RefreshUpdate(r))
         \/ r \in LogoutReqs /\ LogoutDelete(r)
         \/ r \in OthersReqs /\ OthersDelete(r)
         \/ r \in TerminateReqs /\ (TerminateFind(r) \/ TerminateDelete(r))
         \/ Receive(r) \/ LoseResponse(r)
  PROVE  OnlyMoves(r) /\ Holds(r)'
  <1>0. /\ req \in [Reqs -> Request] /\ req[r] \in Request
        /\ Holds(r)
    BY EachHolds DEF SInv, TypeOK
  <1>1. ASSUME NEW res \in {"ok", "cleared", "unauthorized", "notFound", "forbidden", "failed"},
               req[r].pc \in {"find", "update", "create", "delete"},
               res = "ok" \/ req[r].pc \in {"find", "delete"},
               Answer(r, res)
        PROVE  OnlyMoves(r) /\ Holds(r)'
    BY <1>0, <1>1 DEF Answer, OnlyMoves, Holds, Request
  <1>2. CASE r \in RefreshReqs /\ RefreshFind(r) /\ Current(req[r].tok)
    <2>1. r \notin TerminateReqs
      BY <1>2, SessionAssumption
    <2>2. req[r].tok \in Tokens /\ req[r].tok.dev \in Devices /\ now \in Seconds
      BY <1>0, <1>2 DEF RefreshFind, Holds, SInv, TypeOK, Tokens
    <2>3. [dev |-> req[r].tok.dev, iat |-> now] \in Tokens
      BY <2>2 DEF Tokens
    <2>4. CASE req' = [req EXCEPT ![r] = [@ EXCEPT !.pc = "update",
                                     !.new = [dev |-> req[r].tok.dev, iat |-> now]]]
      <3>1. /\ req'[r].pc = "update" /\ req'[r].tok = req[r].tok
            /\ req'[r].new = [dev |-> req[r].tok.dev, iat |-> now]
        BY <1>0, <2>4 DEF Request
      <3>2. OnlyMoves(r)
        BY <1>0, <2>4 DEF OnlyMoves
      <3> QED
        BY <2>1, <2>2, <2>3, <3>1, <3>2 DEF Holds
    <2> QED
      BY <1>2, <2>4 DEF RefreshFind
  <1>3. CASE r \in TerminateReqs /\ TerminateFind(r) /\ req' = [req EXCEPT ![r].pc = "delete"]
             /\ Permitted(r)
    BY <1>0, <1>3 DEF TerminateFind, OnlyMoves, Holds, Request, Permitted, OwnerOf
  <1>4. CASE Receive(r) \/ LoseResponse(r)
    BY <1>0, <1>4 DEF Receive, LoseResponse, OnlyMoves, Holds, Request
  <1> QED
    BY <1>1, <1>2, <1>3, <1>4
       DEF CreateDevice, RefreshFind, RefreshUpdate, LogoutDelete,
           DeleteByIat, MarkDeleted, OthersDelete, TerminateFind, TerminateDelete, DeleteByUser

LEMMA StepHandlers == SInv /\ [Next]_vars => HandlersInv'
  <1> SUFFICES ASSUME SInv, [Next]_vars PROVE HandlersInv'
    OBVIOUS
  <1>1. CASE UNCHANGED req
    BY <1>1 DEF SInv, HandlersInv, Permitted, OwnerOf
  <1>2. ASSUME NEW r \in Reqs, OnlyMoves(r) /\ Holds(r)' PROVE HandlersInv'
    BY <1>2, OthersHold DEF SInv
  <1> QED
    BY <1>1, <1>2, StartHolds, HandlerHolds DEF Next, SessionStep, Tick, vars, Reqs, Devices
-----------------------------------------------------------------------------
(* Rows *)

\* The steps that write a row.
LEMMA RowsWritten ==
  ASSUME SInv, Next, NEW d \in Devices, device'[d] # device[d]
  PROVE  \/ d \in Reqs /\ CreateDevice(d)
         \/ \E r \in RefreshReqs : RefreshUpdate(r) /\ Live(d) /\ Live(d)'
         \/ \E r \in LogoutReqs : LogoutDelete(r) /\ d = req[r].tok.dev /\ Live(d)
         \/ \E r \in TerminateReqs : TerminateDelete(r) /\ d = req[r].target /\ Live(d)
         \/ \E r \in OthersReqs : /\ OthersDelete(r) /\ Live(d)
                                  /\ OwnerOf(d) = OwnerOf(req[r].tok.dev)
  <1>0. device \in [Devices -> DeviceRow]
    BY DEF SInv, TypeOK
  <1>1. ASSUME NEW r \in Devices, CreateDevice(r) PROVE d = r
    BY <1>0, <1>1 DEF CreateDevice, InsertDevice, WriteFails
  <1>2. ASSUME NEW r \in RefreshReqs, RefreshUpdate(r) PROVE Live(d) /\ Live(d)'
    BY <1>0, <1>2 DEF RefreshUpdate, UpdateIat, WriteFails, Live, DeviceRow
  <1>3. ASSUME NEW r \in LogoutReqs, LogoutDelete(r) PROVE d = req[r].tok.dev /\ Live(d)
    BY <1>0, <1>3 DEF LogoutDelete, DeleteByIat, MarkDeleted, Current, Live
  <1>4. ASSUME NEW r \in TerminateReqs, TerminateDelete(r) PROVE d = req[r].target /\ Live(d)
    BY <1>0, <1>4 DEF TerminateDelete, DeleteByUser, MarkDeleted, Live
  <1>5. ASSUME NEW r \in OthersReqs, OthersDelete(r)
        PROVE  Live(d) /\ OwnerOf(d) = OwnerOf(req[r].tok.dev)
    BY <1>0, <1>5 DEF OthersDelete
  <1>6. ASSUME NEW r \in Reqs,
               LoginStart(r) \/ OAuthStart(r) \/ RefreshStart(r) \/ RefreshFind(r)
               \/ LogoutStart(r) \/ TerminateStart(r) \/ TerminateFind(r) \/ OthersStart(r)
               \/ Receive(r) \/ LoseResponse(r)
        PROVE  FALSE
    BY <1>6 DEF LoginStart, OAuthStart, RefreshStart, RefreshFind, LogoutStart,
                TerminateStart, TerminateFind, OthersStart, Receive, LoseResponse, Guarded
  <1> QED
    BY <1>1, <1>2, <1>3, <1>4, <1>5, <1>6 DEF Next, SessionStep, Tick, Reqs, Devices

LEMMA StepInsert == SInv /\ [Next]_vars => InsertInv'
  <1> SUFFICES ASSUME SInv, [Next]_vars, NEW d \in Devices, req'[d].pc \in {"start", "create"}
               PROVE  device'[d].st = "none"
    BY DEF InsertInv
  <1>0. req \in [Reqs -> Request] /\ d \in Reqs
    BY DEF SInv, TypeOK, Reqs
  <1>1. req[d].pc \in {"start", "create"}
    <2>1. CASE UNCHANGED req
      BY <2>1
    <2>2. ASSUME NEW r \in Reqs, OnlyMoves(r), r # d PROVE req[d].pc \in {"start", "create"}
      BY <1>0, <2>2 DEF OnlyMoves
    <2>3. CASE \/ d \in LoginReqs /\ LoginStart(d)
               \/ d \in OAuthReqs /\ OAuthStart(d)
      BY <2>3 DEF LoginStart, OAuthStart, MaySend
    <2>4. ASSUME CreateDevice(d) \/ Receive(d) \/ LoseResponse(d) PROVE FALSE
      BY <1>0, <2>4 DEF CreateDevice, InsertDevice, Answer, Receive, LoseResponse, Request
    <2>5. /\ d \notin RefreshReqs /\ d \notin LogoutReqs
          /\ d \notin TerminateReqs /\ d \notin OthersReqs
      BY SessionAssumption
    <2> QED
      BY <2>1, <2>2, <2>3, <2>4, <2>5, StartHolds, HandlerHolds
         DEF Next, SessionStep, Tick, vars, Reqs, Devices
  <1>2. device[d].st = "none"
    BY <1>1 DEF SInv, InsertInv
  <1>3. ASSUME CreateDevice(d) PROVE FALSE
    BY <1>0, <1>3 DEF CreateDevice, InsertDevice, Answer, Request
  <1> QED
    BY <1>2, <1>3, RowsWritten DEF Live, vars

-----------------------------------------------------------------------------
(* What a step does to a request, the rows and the cookies *)

\* A request is sent: it is refused, or it takes the cookie along.
Starts(r) ==
    /\ OnlyMoves(r) /\ req[r].pc = "start" /\ UNCHANGED <<device, cookie, lost, now>>
    /\ ClientOf[r] \in Hasty \/ Idle(ClientOf[r])
    /\ req'[r].tok \in {req[r].tok, cookie[ClientOf[r]]}
    /\ \/ req'[r].pc = "reply" /\ req'[r].new = None /\ req'[r].res # "cleared"
       \/ /\ req'[r].pc = "create" /\ r \in Devices /\ req'[r].res = req[r].res
          /\ req'[r].new = [dev |-> r, iat |-> now]
          /\ r \in LoginReqs => ~Valid(cookie[ClientOf[r]])
       \/ /\ req'[r].pc \in {"find", "delete"} /\ req'[r].res = req[r].res
          /\ req'[r].new = None /\ req'[r].tok = cookie[ClientOf[r]]

\* A handler goes on or answers; a row that is live afterwards was so before
\* and keeps its iat, or it is given that of the token about to be sent, unless
\* the write failed; a row that was deleted stays so.
Works(r) ==
    /\ OnlyMoves(r) /\ req[r].pc \in {"find", "create", "update", "delete"}
    /\ req[r].pc = "update" => r \in RefreshReqs
    /\ UNCHANGED <<cookie, now>> /\ req'[r].tok = req[r].tok
    /\ UNCHANGED lost \/ lost' # MaxLost
    /\ \/ /\ req'[r].pc = "reply" /\ req'[r].new = req[r].new
          /\ req'[r].res = "cleared" =>
               r \in LogoutReqs /\ req[r].pc = "delete" /\ device'[req[r].tok.dev].st = "deleted"
       \/ /\ req'[r].pc = "update" /\ r \in RefreshReqs /\ req[r].pc = "find"
          /\ req'[r].new = [dev |-> req[r].tok.dev, iat |-> now] /\ req'[r].res = req[r].res
       \/ /\ req'[r].pc = "delete" /\ r \in TerminateReqs
          /\ req'[r].new = req[r].new /\ req'[r].res = req[r].res
    /\ \A d \in Devices : Live(d)' =>
         \/ Live(d) /\ device'[d].iat = device[d].iat
         \/ req[r].new # None /\ d = req[r].new.dev /\ req'[r].pc = "reply"
    /\ lost' = MaxLost =>
         (req[r].new # None /\ req'[r].pc = "reply" /\ device'[req[r].new.dev].st = "live"
            => device'[req[r].new.dev].iat = req[r].new.iat)
    /\ \A d \in Devices : device[d].st = "deleted" => device'[d].st = "deleted"

\* An answer reaches its client, or is lost.
Ends(r) ==
    /\ OnlyMoves(r) /\ req[r].pc = "reply" /\ req'[r] = [req[r] EXCEPT !.pc = "done"]
    /\ UNCHANGED <<device, now>>
    /\ \/ lost' # MaxLost /\ UNCHANGED cookie
       \/ UNCHANGED lost /\ ~Brings(r) /\ req[r].res # "cleared" /\ UNCHANGED cookie
       \/ UNCHANGED lost /\ Brings(r) /\ cookie' = [cookie EXCEPT ![ClientOf[r]] = req[r].new]
       \/ /\ UNCHANGED lost /\ req[r].res = "cleared"
          /\ cookie' = [cookie EXCEPT ![ClientOf[r]] = None]

LEMMA StartShape ==
  ASSUME SInv, NEW r \in Reqs,
         \/ r \in LoginReqs /\ LoginStart(r)
         \/ r \in OAuthReqs /\ OAuthStart(r)
         \/ r \in RefreshReqs /\ RefreshStart(r)
         \/ r \in LogoutReqs /\ LogoutStart(r)
         \/ r \in OthersReqs /\ OthersStart(r)
         \/ r \in TerminateReqs /\ TerminateStart(r)
  PROVE  Starts(r)
  <1>0. /\ req \in [Reqs -> Request] /\ req[r] \in Request
        /\ OnlyMoves(r) /\ Holds(r)
    BY StartHolds, EachHolds DEF SInv, TypeOK
  <1>1. CASE r \in LoginReqs /\ LoginStart(r)
    <2>1. req[r].pc = "start" /\ req[r].new = None
      BY <1>0, <1>1 DEF LoginStart, MaySend, Holds
    <2>2. r \in Devices /\ r \notin OAuthReqs
      BY <1>1, SessionAssumption DEF Devices
    <2>3. CASE AnswerTo(r, cookie[ClientOf[r]], "stillValid")
      <3>1. /\ req'[r].pc = "reply" /\ req'[r].new = None /\ req'[r].res = "stillValid"
            /\ req'[r].tok = cookie[ClientOf[r]]
        BY <1>0, <2>1, <2>3 DEF AnswerTo, Request
      <3> QED
        BY <1>0, <1>1, <2>1, <3>1 DEF Starts, LoginStart, MaySend
    <2>4. CASE /\ ~Valid(cookie[ClientOf[r]])
               /\ req' = [req EXCEPT ![r] = [@ EXCEPT !.pc = "create",
                             !.tok = cookie[ClientOf[r]], !.new = [dev |-> r, iat |-> now]]]
      <3>1. /\ req'[r].pc = "create" /\ req'[r].new = [dev |-> r, iat |-> now]
            /\ req'[r].res = req[r].res /\ req'[r].tok = cookie[ClientOf[r]]
        BY <1>0, <2>4 DEF Request
      <3> QED
        BY <1>0, <1>1, <2>1, <2>2, <2>4, <3>1 DEF Starts, LoginStart, MaySend
    <2> QED
      BY <1>1, <2>3, <2>4 DEF LoginStart
  <1>2. CASE r \in OAuthReqs /\ OAuthStart(r)
    <2>1. r \in Devices /\ r \notin LoginReqs
      BY <1>2, SessionAssumption DEF Devices
    <2>2. /\ req'[r].pc = "create" /\ req'[r].new = [dev |-> r, iat |-> now]
          /\ req'[r].res = req[r].res /\ req'[r].tok = req[r].tok
      BY <1>0, <1>2 DEF OAuthStart, Request
    <2> QED
      BY <1>0, <1>2, <2>1, <2>2 DEF Starts, OAuthStart, MaySend
  <1>3. ASSUME NEW pc \in {"find", "delete"}, NEW d \in Devices \cup {None}, Guarded(r, pc, d)
        PROVE  Starts(r)
    <2>1. req[r].pc = "start" /\ req[r].new = None
      BY <1>0, <1>3 DEF Guarded, MaySend, Holds
    <2>3. CASE AnswerTo(r, cookie[ClientOf[r]], "unauthorized")
      <3>1. /\ req'[r].pc = "reply" /\ req'[r].new = None /\ req'[r].res = "unauthorized"
            /\ req'[r].tok = cookie[ClientOf[r]]
        BY <1>0, <2>1, <2>3 DEF AnswerTo, Request
      <3> QED
        BY <1>0, <1>3, <2>1, <3>1 DEF Starts, Guarded, MaySend
    <2>4. CASE req' = [req EXCEPT ![r] = [@ EXCEPT !.pc = pc, !.tok = cookie[ClientOf[r]],
                                              !.target = d]]
      <3>1. /\ req'[r].pc = pc /\ req'[r].new = None
            /\ req'[r].res = req[r].res /\ req'[r].tok = cookie[ClientOf[r]]
        BY <1>0, <2>1, <2>4 DEF Request
      <3> QED
        BY <1>0, <1>3, <2>1, <3>1 DEF Starts, Guarded, MaySend
    <2> QED
      BY <1>3, <2>3, <2>4 DEF Guarded
  <1> QED
    BY <1>1, <1>2, <1>3 DEF RefreshStart, LogoutStart, OthersStart, TerminateStart

LEMMA WorkShape ==
  ASSUME SInv, NEW r \in Reqs,
         \/ r \in Devices /\ CreateDevice(r)
         \/ r \in RefreshReqs /\ (RefreshFind(r) \/ RefreshUpdate(r))
         \/ r \in LogoutReqs /\ LogoutDelete(r)
         \/ r \in OthersReqs /\ OthersDelete(r)
         \/ r \in TerminateReqs /\ (TerminateFind(r) \/ TerminateDelete(r))
  PROVE  Works(r)
  <1>0. /\ req \in [Reqs -> Request] /\ req[r] \in Request
        /\ device \in [Devices -> DeviceRow]
        /\ OnlyMoves(r) /\ Holds(r)
    BY HandlerHolds, EachHolds DEF SInv, TypeOK
  \* Rows are left alone or ended.
  <1>a. ASSUME \A d \in Devices : Live(d)' => Live(d) /\ device'[d].iat = device[d].iat,
               \A d \in Devices : device[d].st = "deleted" => device'[d].st = "deleted",
               UNCHANGED <<cookie, lost, now>>, req[r].pc \in {"find", "delete"},
               \/ \E res \in {"ok", "unauthorized", "notFound", "forbidden", "failed"} :
                    Answer(r, res)
               \/ Answer(r, "cleared") /\ r \in LogoutReqs /\ req[r].pc = "delete"
                  /\ device'[req[r].tok.dev].st = "deleted"
               \/ r \in TerminateReqs /\ req' = [req EXCEPT ![r].pc = "delete"]
        PROVE  Works(r)
    <2>1. req[r].new = None
      BY <1>0, <1>a DEF Holds
    <2>2. req'[r].tok = req[r].tok /\ req'[r].new = req[r].new
      <3>1. CASE \E res : Answer(r, res)
        BY <1>0, <3>1 DEF Answer, Request
      <3>2. CASE req' = [req EXCEPT ![r].pc = "delete"]
        BY <1>0, <3>2 DEF Request
      <3> QED
        BY <1>a, <3>1, <3>2
    <2>3. CASE \E res \in {"ok", "unauthorized", "notFound", "forbidden", "failed"} :
                    Answer(r, res)
      <3>1. req'[r].pc = "reply" /\ req'[r].res # "cleared"
        BY <1>0, <2>3 DEF Answer, Request
      <3> QED
        BY <1>0, <1>a, <2>1, <2>2, <3>1 DEF Works
    <2>4. CASE Answer(r, "cleared") /\ r \in LogoutReqs /\ req[r].pc = "delete"
               /\ device'[req[r].tok.dev].st = "deleted"
      <3>1. req'[r].pc = "reply"
        BY <1>0, <2>4 DEF Answer, Request
      <3> QED
        BY <1>0, <1>a, <2>1, <2>2, <2>4, <3>1 DEF Works
    <2>5. CASE r \in TerminateReqs /\ req' = [req EXCEPT ![r].pc = "delete"]
      <3>1. req'[r].pc = "delete" /\ req'[r].res = req[r].res
        BY <1>0, <2>5 DEF Request
      <3> QED
        BY <1>0, <1>a, <2>1, <2>2, <2>5, <3>1 DEF Works
    <2> QED
      BY <1>a, <2>3, <2>4, <2>5
  \* A row is written with the token's iat, or the write fails.
  <1>b. ASSUME req[r].pc = "create" \/ (req[r].pc = "update" /\ r \in RefreshReqs),
               Answer(r, "ok"), UNCHANGED <<cookie, now>>,
               req[r].new \in Tokens,
               \/ UNCHANGED device /\ lost' # MaxLost
               \/ /\ UNCHANGED lost
                  /\ device'[req[r].new.dev].st = "live" =>
                       device'[req[r].new.dev].iat = req[r].new.iat
                  /\ \A d \in Devices \ {req[r].new.dev} : device'[d] = device[d]
                  /\ device[req[r].new.dev].st = "deleted" =>
                       device'[req[r].new.dev].st = "deleted"
        PROVE  Works(r)
    <2>1. /\ req'[r].tok = req[r].tok /\ req'[r].new = req[r].new
          /\ req'[r].pc = "reply" /\ req'[r].res = "ok"
      BY <1>0, <1>b DEF Answer, Request
    <2>2. req[r].new # None
      BY <1>b, SessionAssumption
    <2>3. ASSUME NEW d \in Devices, Live(d)'
          PROVE  \/ Live(d) /\ device'[d].iat = device[d].iat
                 \/ req[r].new # None /\ d = req[r].new.dev /\ req'[r].pc = "reply"
      BY <1>b, <2>1, <2>2, <2>3 DEF Live
    <2>4. \A d \in Devices : device[d].st = "deleted" => device'[d].st = "deleted"
      BY <1>b
    <2>5. lost' = MaxLost =>
            (device'[req[r].new.dev].st = "live" =>
               device'[req[r].new.dev].iat = req[r].new.iat)
      BY <1>b
    <2> QED
      BY <1>0, <1>b, <2>1, <2>3, <2>4, <2>5 DEF Works
  <1>l. WriteFails => lost' # MaxLost
    BY SessionAssumption DEF WriteFails, SInv, TypeOK
  <1>1. CASE r \in Devices /\ CreateDevice(r)
    <2>1. req[r].new \in Tokens /\ req[r].new.dev = r
      BY <1>0, <1>1 DEF CreateDevice, Holds
    <2>2. device[r].st = "none"
      BY <1>1 DEF CreateDevice, SInv, InsertInv
    <2>3. InsertDevice(r, req[r].new.iat) =>
            /\ device'[r].iat = req[r].new.iat
            /\ \A d \in Devices \ {r} : device'[d] = device[d]
      BY <1>0, <1>1 DEF InsertDevice
    <2> QED
      BY <1>1, <1>b, <1>l, <2>1, <2>2, <2>3 DEF CreateDevice, WriteFails
  <1>2. CASE r \in RefreshReqs /\ RefreshFind(r)
    <2>1. CASE Answer(r, "unauthorized")
      BY <1>2, <1>a, <2>1 DEF RefreshFind, Live
    <2>2. CASE req' = [req EXCEPT ![r] = [@ EXCEPT !.pc = "update",
                                   !.new = [dev |-> req[r].tok.dev, iat |-> now]]]
      <3>1. /\ req'[r].pc = "update" /\ req'[r].tok = req[r].tok /\ req'[r].res = req[r].res
            /\ req'[r].new = [dev |-> req[r].tok.dev, iat |-> now]
        BY <1>0, <2>2 DEF Request
      <3>2. req[r].new = None /\ req[r].pc = "find"
        BY <1>0, <1>2 DEF RefreshFind, Holds
      <3> QED
        BY <1>0, <1>2, <3>1, <3>2 DEF RefreshFind, Works, Live
    <2> QED
      BY <1>2, <2>1, <2>2 DEF RefreshFind
  <1>3. CASE r \in RefreshReqs /\ RefreshUpdate(r)
    <2>1. /\ req[r].new \in Tokens /\ req[r].tok \in Tokens
          /\ req[r].new.dev = req[r].tok.dev /\ req[r].tok.dev \in Devices
      BY <1>0, <1>3 DEF RefreshUpdate, Holds, Tokens
    <2>2. PICK e \in Devices : e = req[r].tok.dev
      BY <2>1
    <2>3. UpdateIat(e, req[r].new.iat) =>
            /\ device'[e].st = "live" => device'[e].iat = req[r].new.iat
            /\ \A d \in Devices \ {e} : device'[d] = device[d]
            /\ device[e].st = "deleted" => device'[e].st = "deleted"
      BY <1>0, <2>2 DEF UpdateIat, Live, DeviceRow
    <2> QED
      BY <1>3, <1>b, <1>l, <2>1, <2>2, <2>3 DEF RefreshUpdate, WriteFails
  <1>4. CASE r \in LogoutReqs /\ LogoutDelete(r)
    <2>1. req[r].tok.dev \in Devices
      BY <1>0, <1>4 DEF LogoutDelete, Holds, Tokens
    <2>2. /\ \A d \in Devices : Live(d)' => Live(d) /\ device'[d].iat = device[d].iat
          /\ \A d \in Devices : device[d].st = "deleted" => device'[d].st = "deleted"
      BY <1>0, <1>4 DEF LogoutDelete, DeleteByIat, MarkDeleted, Live, DeviceRow
    <2>3. CASE DeleteByIat(req[r].tok) /\ Answer(r, "cleared")
      <3>1. device'[req[r].tok.dev].st = "deleted"
        BY <1>0, <2>1, <2>3 DEF DeleteByIat, MarkDeleted, Live, DeviceRow
      <3> QED
        BY <1>4, <1>a, <2>2, <2>3, <3>1 DEF LogoutDelete
    <2>4. CASE Answer(r, "failed")
      BY <1>4, <1>a, <2>2, <2>4 DEF LogoutDelete
    <2> QED
      BY <1>4, <2>3, <2>4 DEF LogoutDelete
  <1>5. CASE r \in OthersReqs /\ OthersDelete(r)
    <2>1. /\ \A d \in Devices : Live(d)' => Live(d) /\ device'[d].iat = device[d].iat
          /\ \A d \in Devices : device[d].st = "deleted" => device'[d].st = "deleted"
      BY <1>0, <1>5 DEF OthersDelete, Live, DeviceRow
    <2> QED
      BY <1>5, <1>a, <2>1 DEF OthersDelete
  <1>6. CASE r \in TerminateReqs /\ TerminateFind(r)
    <2>1. /\ \A d \in Devices : Live(d)' => Live(d) /\ device'[d].iat = device[d].iat
          /\ \A d \in Devices : device[d].st = "deleted" => device'[d].st = "deleted"
      BY <1>6 DEF TerminateFind, Live
    <2> QED
      BY <1>6, <1>a, <2>1 DEF TerminateFind
  <1>7. CASE r \in TerminateReqs /\ TerminateDelete(r)
    <2>1. /\ \A d \in Devices : Live(d)' => Live(d) /\ device'[d].iat = device[d].iat
          /\ \A d \in Devices : device[d].st = "deleted" => device'[d].st = "deleted"
      BY <1>0, <1>7 DEF TerminateDelete, DeleteByUser, MarkDeleted, Live, DeviceRow
    <2> QED
      BY <1>7, <1>a, <2>1 DEF TerminateDelete
  <1> QED
    BY <1>1, <1>2, <1>3, <1>4, <1>5, <1>6, <1>7

LEMMA EndShape ==
  ASSUME SInv, NEW r \in Reqs, Receive(r) \/ LoseResponse(r)
  PROVE  Ends(r)
  <1>0. /\ req \in [Reqs -> Request] /\ req[r] \in Request /\ lost \in 0..MaxLost
        /\ OnlyMoves(r) /\ Holds(r)
    BY HandlerHolds, EachHolds DEF SInv, TypeOK
  <1>1. req[r].pc = "reply" /\ req'[r] = [req[r] EXCEPT !.pc = "done"]
    BY <1>0 DEF Receive, LoseResponse
  <1>2. Brings(r) => req[r].res = "ok"
    BY <1>0 DEF Brings, Holds
  <1>3. CASE LoseResponse(r)
    <2>1. lost' # MaxLost
      BY <1>0, <1>3, SessionAssumption DEF LoseResponse
    <2> QED
      BY <1>0, <1>1, <1>3, <2>1 DEF LoseResponse, Ends
  <1>4. CASE Receive(r)
    BY <1>0, <1>1, <1>2, <1>4 DEF Receive, Ends, Brings
  <1> QED
    BY <1>3, <1>4

LEMMA StepShape ==
  ASSUME SInv, [Next]_vars
  PROVE  \/ \E r \in Reqs : Starts(r) \/ Works(r) \/ Ends(r)
         \/ /\ UNCHANGED <<device, cookie, req, lost>>
            /\ now' \in Nat /\ now' >= now
  <1>1. now \in Nat
    BY SessionAssumption DEF SInv, TypeOK, Seconds
  <1>2. CASE Tick \/ UNCHANGED vars
    BY <1>1, <1>2 DEF Tick, vars
  <1> QED
    BY <1>2, StartShape, WorkShape, EndShape DEF Next, SessionStep, Reqs, Devices

-----------------------------------------------------------------------------
(* Whose tokens are where *)

\* What the conjuncts of SInv say of the handler that moves.
LEMMA MoverKnown ==
  ASSUME SInv, NEW r \in Reqs
  PROVE  /\ ClientOf[r] \in Clients /\ ClientOf \in [Reqs -> Clients]
         /\ req \in [Reqs -> Request] /\ req[r] \in Request
         /\ cookie \in [Clients -> Tokens \cup {None}]
         /\ Holds(r)
         /\ req[r].new # None => req[r].new \in Tokens /\ req[r].new.dev \in Devices
         /\ req[r].tok # None => req[r].tok \in Tokens /\ req[r].tok.dev \in Devices
         /\ None \notin Tokens
  <1>1. /\ req \in [Reqs -> Request] /\ req[r] \in Request
        /\ cookie \in [Clients -> Tokens \cup {None}]
    BY DEF SInv, TypeOK
  <1>2. /\ req[r].new \in Tokens \cup {None} /\ req[r].tok \in Tokens \cup {None}
    BY <1>1 DEF Request
  <1> QED
    BY <1>1, <1>2, SessionAssumption, EachHolds DEF SInv, Tokens

\* TokensInv for one request.
Owns(r) ==
    /\ req[r].tok # None => ClientOf[req[r].tok.dev] = ClientOf[r]
    /\ req[r].new # None =>
         /\ ClientOf[req[r].new.dev] = ClientOf[r]
         /\ r \in Devices \cup RefreshReqs
         /\ r \in Devices => req[r].new.dev = r
    /\ req[r].res = "cleared" => r \in LogoutReqs

LEMMA OwnsStep ==
  ASSUME SInv, NEW r \in Reqs, Starts(r) \/ Works(r) \/ Ends(r)
  PROVE  Owns(r)'
  <1>0. Owns(r) /\ (cookie[ClientOf[r]] # None => ClientOf[cookie[ClientOf[r]].dev] = ClientOf[r])
    BY MoverKnown DEF SInv, TokensInv, Owns
  <1>1. CASE Starts(r)
    BY <1>0, <1>1 DEF Starts, Owns
  <1>2. CASE Works(r)
    <2>1. CASE req'[r].pc = "update" /\ r \in RefreshReqs /\ req[r].pc = "find"
               /\ req'[r].new = [dev |-> req[r].tok.dev, iat |-> now]
               /\ req'[r].res = req[r].res
      <3>1. req[r].tok # None /\ r \notin Devices
        BY <2>1, MoverKnown, SessionAssumption DEF Holds
      <3> QED
        BY <1>0, <1>2, <2>1, <3>1 DEF Works, Owns
    <2> QED
      BY <1>0, <1>2, <2>1 DEF Works, Owns
  <1>3. CASE Ends(r)
    <2>1. /\ req'[r].tok = req[r].tok /\ req'[r].new = req[r].new
          /\ req'[r].res = req[r].res
      BY <1>3, MoverKnown DEF Ends, Request
    <2> QED
      BY <1>0, <2>1 DEF Owns
  <1> QED
    BY <1>1, <1>2, <1>3

LEMMA StepTokens ==
  ASSUME SInv, NEW r \in Reqs, Starts(r) \/ Works(r) \/ Ends(r)
  PROVE  TokensInv'
  <1>1. ASSUME NEW q \in Reqs PROVE Owns(q)'
    <2>1. CASE q = r
      BY <2>1, OwnsStep
    <2>2. CASE q # r
      BY <2>2 DEF Starts, Works, Ends, OnlyMoves, Owns, SInv, TokensInv
    <2> QED
      BY <2>1, <2>2
  <1>2. ASSUME NEW c \in Clients, cookie'[c] # None PROVE ClientOf[cookie'[c].dev] = c
    <2>1. cookie[c] # None => ClientOf[cookie[c].dev] = c
      BY DEF SInv, TokensInv
    <2>2. Brings(r) => ClientOf[req[r].new.dev] = ClientOf[r]
      BY DEF SInv, TokensInv, Brings
    <2>3. cookie \in [Clients -> Tokens \cup {None}]
      BY MoverKnown
    <2> QED
      BY <1>2, <2>1, <2>2, <2>3 DEF Starts, Works, Ends
  <1> QED
    BY <1>1, <1>2 DEF TokensInv, Owns

-----------------------------------------------------------------------------
(* A client that waits *)

\* Of such a client's requests the one that moves is alone.
LEMMA Alone ==
  ASSUME SInv, NEW r \in Reqs, Works(r) \/ Ends(r),
         NEW q \in Reqs, Running(q), ClientOf[q] = ClientOf[r], ClientOf[r] \notin Hasty
  PROVE  q = r
  <1>1. Running(r)
    BY DEF Works, Ends, Running
  <1> QED
    BY <1>1 DEF SInv, WaitingInv

\* The device of the token a handler is about to answer with is its client's.
LEMMA SentTo ==
  ASSUME SInv, NEW r \in Reqs, req[r].new # None
  PROVE  ClientOf[req[r].new.dev] = ClientOf[r]
  BY DEF SInv, TokensInv

LEMMA OneRequestStep ==
  ASSUME SInv, NEW r \in Reqs, Starts(r) \/ Works(r) \/ Ends(r),
         NEW p \in Reqs, NEW q \in Reqs, Running(p)', Running(q)',
         ClientOf[p] = ClientOf[q], ClientOf[p] \notin Hasty
  PROVE  p = q
  <1>1. ASSUME NEW x \in Reqs, x # r, Running(x)' PROVE Running(x)
    BY <1>1 DEF Starts, Works, Ends, OnlyMoves, Running
  <1>2. CASE p # r /\ q # r
    BY <1>1, <1>2 DEF SInv, WaitingInv
  <1>3. CASE p = r \/ q = r
    <2>1. PICK x \in {p, q} : (p # q => x # r) /\ ClientOf[x] = ClientOf[r]
      BY <1>3
    <2>2. CASE Starts(r)
      BY <1>1, <2>1, <2>2 DEF Starts, Idle, Running
    <2>3. CASE Works(r) \/ Ends(r)
      BY <1>1, <1>3, <2>1, <2>3, Alone
    <2> QED
      BY <2>2, <2>3
  <1> QED
    BY <1>2, <1>3

\* The second part of WaitingInv for one request.
Waits(q) ==
    LET t == cookie[ClientOf[q]] IN
    /\ q \in RefreshReqs \cup LogoutReqs /\ req[q].pc \in {"find", "update", "delete"}
         => t = req[q].tok
    /\ q \in RefreshReqs /\ Brings(q) => t # None /\ t.dev = req[q].new.dev
    /\ req[q].pc = "reply" /\ req[q].res = "cleared" => t # None /\ ~Live(t.dev)

LEMMA WaitsStep ==
  ASSUME SInv, NEW r \in Reqs, Starts(r) \/ Works(r) \/ Ends(r),
         NEW q \in Reqs, ClientOf[q] \notin Hasty
  PROVE  Waits(q)'
  <1> DEFINE t == cookie[ClientOf[q]]
  <1>0. Waits(q) /\ ClientOf[q] \in Clients /\ t \in Tokens \cup {None}
    BY MoverKnown DEF SInv, WaitingInv, Waits
  <1>1. CASE Ends(r)
    <2>1. CASE q = r
      <3>1. req'[q].pc = "done"
        BY <1>1, <2>1, MoverKnown DEF Ends, Request
      <3> QED
        BY <3>1 DEF Waits, Brings
    <2>2. CASE q # r /\ ~Running(q)
      BY <1>1, <2>2 DEF Ends, OnlyMoves, Running, Waits, Brings
    <2>3. CASE q # r /\ ClientOf[q] # ClientOf[r]
      <3>1. cookie'[ClientOf[q]] = t /\ req'[q] = req[q] /\ device' = device
        BY <1>1, <2>3, MoverKnown DEF Ends, OnlyMoves
      <3> QED
        BY <1>0, <3>1 DEF Waits, Brings, Live
    <2> QED
      BY <1>1, <2>1, <2>2, <2>3, Alone
  <1>2. CASE Starts(r)
    <2>1. cookie' = cookie /\ device' = device
      BY <1>2 DEF Starts
    <2>2. CASE q = r
      BY <1>0, <1>2, <2>1, <2>2 DEF Starts, Waits, Brings
    <2>3. CASE q # r
      BY <1>0, <1>2, <2>1, <2>3 DEF Starts, OnlyMoves, Waits, Brings, Live
    <2> QED
      BY <2>2, <2>3
  <1>3. CASE Works(r)
    <2>1. cookie' = cookie
      BY <1>3 DEF Works
    <2>2. CASE q # r
      <3>1. req'[q] = req[q]
        BY <1>3, <2>2 DEF Works, OnlyMoves
      <3>2. ASSUME req[q].pc = "reply", req[q].res = "cleared" PROVE t # None /\ ~Live(t.dev)'
        <4>1. t # None /\ ~Live(t.dev)
          BY <1>0, <3>2 DEF Waits
        <4>2. t.dev \in Devices /\ ClientOf[t.dev] = ClientOf[q]
          BY <1>0, <4>1 DEF Tokens, SInv, TokensInv
        <4>3. SUFFICES ASSUME Live(t.dev)' PROVE FALSE
          BY <2>1, <4>1
        <4>4. req[r].new # None /\ t.dev = req[r].new.dev
          BY <1>3, <2>1, <4>1, <4>2, <4>3 DEF Works, Live
        <4>5. ClientOf[q] = ClientOf[r]
          BY <4>2, <4>4, SentTo
        <4> QED
          BY <1>3, <2>2, <3>2, <4>5, Alone DEF Running
      <3> QED
        BY <1>0, <2>1, <3>1, <3>2 DEF Waits, Brings, Live
    <2>3. CASE q = r
      <3>1. Holds(r) /\ (req[r].tok # None => req[r].tok \in Tokens)
        BY MoverKnown
      <3>2. ASSUME r \in RefreshReqs, Brings(r)' PROVE t # None /\ t.dev = req'[r].new.dev
        <4>1. req'[r].new = req[r].new /\ req[r].new # None
          BY <1>3, <3>2 DEF Works, Brings
        <4>2. req[r].pc = "update"
          <5>1. r \notin Devices
            BY <3>2, SessionAssumption
          <5>2. req[r].pc # "create"
            BY <3>1, <4>1, <5>1, MoverKnown DEF Holds
          <5> QED
            BY <1>3, <3>1, <4>1, <5>2 DEF Works, Holds
        <4>3. t = req[r].tok /\ req[r].tok \in Tokens /\ req[r].new.dev = req[r].tok.dev
          BY <1>0, <2>3, <3>1, <3>2, <4>2 DEF Waits, Holds
        <4> QED
          BY <4>1, <4>3, MoverKnown
      <3>3. ASSUME req'[r].pc = "reply", req'[r].res = "cleared"
            PROVE  t # None /\ device'[t.dev].st # "live"
        <4>1. r \in LogoutReqs /\ req[r].pc = "delete" /\ device'[req[r].tok.dev].st = "deleted"
          BY <1>3, <3>3 DEF Works
        <4>2. t = req[r].tok /\ req[r].tok \in Tokens
          BY <1>0, <2>3, <3>1, <4>1 DEF Waits, Holds
        <4> QED
          BY <4>1, <4>2, MoverKnown
      <3>4. ASSUME r \in RefreshReqs \cup LogoutReqs, req'[r].pc \in {"find", "update", "delete"}
            PROVE  t = req'[r].tok
        <4>1. r \notin TerminateReqs
          BY <3>4, SessionAssumption
        <4> QED
          BY <1>0, <1>3, <2>3, <3>4, <4>1 DEF Works, Waits
      <3> QED
        BY <2>1, <2>3, <3>2, <3>3, <3>4 DEF Waits, Live
    <2> QED
      BY <2>2, <2>3
  <1> QED
    BY <1>1, <1>2, <1>3

LEMMA StepWaiting ==
  ASSUME SInv, NEW r \in Reqs, Starts(r) \/ Works(r) \/ Ends(r)
  PROVE  WaitingInv'
  <1>1. \A p, q \in Reqs : /\ Running(p)' /\ Running(q)'
                           /\ ClientOf[p] = ClientOf[q] /\ ClientOf[p] \notin Hasty
                           => p = q
    BY OneRequestStep
  <1>2. \A q \in Reqs : ClientOf[q] \notin Hasty => Waits(q)'
    BY WaitsStep
  <1> QED
    BY <1>1, <1>2 DEF WaitingInv, Waits

\* A row that is live after a handler's step had its iat before, or accepts the
\* token that handler is about to send.
LEMMA RowAfter ==
  ASSUME SInv, lost' = MaxLost, NEW r \in Reqs, Works(r), NEW d \in Devices, Live(d)'
  PROVE  \/ Live(d) /\ device'[d].iat = device[d].iat
         \/ /\ Brings(r)' /\ req'[r].new = req[r].new /\ req[r].new # None
            /\ req[r].new.dev = d /\ device'[d].iat = req[r].new.iat
            /\ ClientOf[r] = ClientOf[d]
  <1>1. CASE Live(d) /\ device'[d].iat = device[d].iat
    BY <1>1
  <1>2. CASE req[r].new # None /\ d = req[r].new.dev /\ req'[r].pc = "reply"
    <2>1. req'[r].new = req[r].new /\ device'[d].iat = req[r].new.iat
      BY <1>2 DEF Works, Live
    <2> QED
      BY <1>2, <2>1, SentTo DEF Brings
  <1> QED
    BY <1>1, <1>2 DEF Works

LEMMA StepCurrent ==
  ASSUME SInv, NEW r \in Reqs, Starts(r) \/ Works(r) \/ Ends(r)
  PROVE  CurrentInv'
  <1> SUFFICES ASSUME lost' = MaxLost
               PROVE  /\ \A q \in Reqs :
                           ClientOf[q] \notin Hasty /\ Brings(q)' /\ device'[req'[q].new.dev].st = "live"
                           => device'[req'[q].new.dev].iat = req'[q].new.iat
                      /\ \A c \in Clients \ Hasty :
                           cookie'[c] # None /\ device'[cookie'[c].dev].st = "live" =>
                             \/ device'[cookie'[c].dev].iat = cookie'[c].iat
                             \/ \E q \in Reqs : ClientOf[q] = c /\ Brings(q)'
    BY DEF CurrentInv, Current, Live
  <1>0. lost = MaxLost
    BY DEF Starts, Works, Ends
  <1>1. ASSUME NEW q \in Reqs, ClientOf[q] \notin Hasty, Brings(q), Live(req[q].new.dev)
        PROVE  Current(req[q].new)
    BY <1>0, <1>1 DEF SInv, CurrentInv
  <1>2. ASSUME NEW c \in Clients \ Hasty, cookie[c] # None, Live(cookie[c].dev)
        PROVE  Current(cookie[c]) \/ \E q \in Reqs : ClientOf[q] = c /\ Brings(q)
    BY <1>0, <1>2 DEF SInv, CurrentInv
  <1>3. ASSUME NEW q \in Reqs, ClientOf[q] \notin Hasty, Brings(q)',
               device'[req'[q].new.dev].st = "live"
        PROVE  device'[req'[q].new.dev].iat = req'[q].new.iat
    <2>1. CASE Works(r)
      <3>1. CASE q = r
        BY <1>3, <2>1, <3>1 DEF Works, Brings
      <3>2. CASE q # r
        <4>1. req'[q] = req[q] /\ Brings(q)
          BY <1>3, <2>1, <3>2 DEF Works, OnlyMoves, Brings
        <4>2. PICK d \in Devices : d = req[q].new.dev
          BY <4>1, MoverKnown DEF Brings
        <4>3. ClientOf[d] = ClientOf[q]
          BY <4>1, <4>2, SentTo DEF Brings
        <4>4. CASE Live(d) /\ device'[d].iat = device[d].iat
          BY <1>1, <1>3, <4>1, <4>2, <4>4 DEF Current
        <4>5. CASE ClientOf[r] = ClientOf[d]
          BY <1>3, <2>1, <3>2, <4>1, <4>3, <4>5, Alone DEF Brings, Running
        <4> QED
          BY <1>3, <2>1, <4>1, <4>2, <4>4, <4>5, RowAfter DEF Live
      <3> QED
        BY <3>1, <3>2
    <2>2. CASE Starts(r) \/ Ends(r)
      <3>1. q # r
        BY <1>3, <2>2, MoverKnown DEF Starts, Ends, Brings, Request
      <3>2. req'[q] = req[q] /\ device' = device
        BY <2>2, <3>1 DEF Starts, Ends, OnlyMoves
      <3> QED
        BY <1>1, <1>3, <3>2 DEF Brings, Live, Current
    <2> QED
      BY <2>1, <2>2
  <1>4. ASSUME NEW c \in Clients \ Hasty, cookie'[c] # None,
               device'[cookie'[c].dev].st = "live",
               \A q \in Reqs : ~(ClientOf[q] = c /\ Brings(q)')
        PROVE  device'[cookie'[c].dev].iat = cookie'[c].iat
    <2>1. CASE Works(r)
      <3>1. cookie'[c] = cookie[c]
        BY <2>1 DEF Works
      <3>2. PICK d \in Devices : d = cookie[c].dev
        BY <1>4, <3>1, MoverKnown DEF Tokens
      <3>3. ClientOf[d] = c
        BY <1>4, <3>1, <3>2 DEF SInv, TokensInv
      <3>4. Live(d) /\ device'[d].iat = device[d].iat
        BY <1>4, <2>1, <3>1, <3>2, <3>3, RowAfter DEF Live
      <3>5. \A q \in Reqs : ~(ClientOf[q] = c /\ Brings(q))
        BY <1>4, <2>1 DEF Works, OnlyMoves, Brings
      <3> QED
        BY <1>2, <1>4, <3>1, <3>2, <3>4, <3>5 DEF Current
    <2>2. CASE Starts(r)
      <3>1. \A q \in Reqs : ~(ClientOf[q] = c /\ Brings(q))
        BY <1>4, <2>2 DEF Starts, OnlyMoves, Brings
      <3> QED
        BY <1>2, <1>4, <2>2, <3>1 DEF Starts, Live, Current
    <2>3. CASE Ends(r)
      <3>1. CASE ClientOf[r] # c
        <4>1. cookie'[c] = cookie[c] /\ device' = device
          BY <2>3, <3>1, MoverKnown DEF Ends
        <4>2. \A q \in Reqs : ~(ClientOf[q] = c /\ Brings(q))
          BY <1>4, <2>3, <3>1 DEF Ends, OnlyMoves, Brings
        <4> QED
          BY <1>2, <1>4, <4>1, <4>2 DEF Live, Current
      <3>2. CASE ClientOf[r] = c /\ Brings(r) /\ cookie'[c] = req[r].new
        BY <1>1, <1>4, <2>3, <3>2 DEF Ends, Live, Current
      <3>3. CASE ClientOf[r] = c /\ ~Brings(r) /\ cookie' = cookie
        <4>1. \A q \in Reqs : ~(ClientOf[q] = c /\ Brings(q))
          BY <1>4, <2>3, <3>3, Alone DEF Brings, Running
        <4> QED
          BY <1>2, <1>4, <2>3, <3>3, <4>1 DEF Ends, Live, Current
      <3> QED
        BY <1>0, <1>4, <2>3, <3>1, <3>2, <3>3, MoverKnown DEF Ends
    <2> QED
      BY <2>1, <2>2, <2>3
  <1> QED
    BY <1>3, <1>4

-----------------------------------------------------------------------------
(* Live sessions *)

\* A token a handler brings after a step it brought before, or the handler has
\* just signed it.
LEMMA BroughtBefore ==
  ASSUME SInv, NEW r \in Reqs, Starts(r) \/ Works(r) \/ Ends(r),
         NEW q \in Reqs, Brings(q)', lost' = MaxLost
  PROVE  /\ req'[q].new = req[q].new
         /\ Running(q) /\ (q = r => Works(r))
         /\ q # r => Brings(q)
  <1>1. CASE q = r
    <2>1. CASE Works(r)
      BY <1>1, <2>1 DEF Works, Brings, Running
    <2>2. CASE Starts(r) \/ Ends(r)
      BY <1>1, <2>2, MoverKnown DEF Starts, Ends, Brings, Request
    <2> QED
      BY <2>1, <2>2
  <1>2. CASE q # r
    BY <1>2 DEF Starts, Works, Ends, OnlyMoves, Brings, Running
  <1> QED
    BY <1>1, <1>2

\* While no two handlers bring tokens for d, a row that changed under an
\* answer on its way was not d's.
LEMMA BringsAccepted ==
  ASSUME SInv, NEW r \in Reqs, Starts(r) \/ Works(r) \/ Ends(r), lost' = MaxLost,
         NEW d \in Devices \ raced, Live(d)', NEW q \in Reqs, Brings(q)', req'[q].new.dev = d
  PROVE  req'[q].new = Accepted(d)'
  <1>0. /\ req'[q].new = req[q].new /\ Running(q) /\ (q = r => Works(r))
        /\ q # r => Brings(q)
        /\ req[q].new \in Tokens
    BY BroughtBefore, MoverKnown DEF Brings
  <1>1. req[q].new = [dev |-> d, iat |-> req[q].new.iat]
    BY <1>0 DEF Tokens
  <1>2. lost = MaxLost
    BY DEF Starts, Works, Ends
  <1>3. SUFFICES device'[d].iat = req[q].new.iat
    BY <1>0, <1>1 DEF Accepted
  <1>4. CASE q = r
    BY <1>0, <1>4, MoverKnown DEF Works, Brings, Live
  <1>5. CASE q # r
    <2>1. ASSUME Live(d), device'[d].iat = device[d].iat
          PROVE  device'[d].iat = req[q].new.iat
      <3>1. req[q].new = Accepted(d)
        BY <1>0, <1>2, <1>5, <2>1 DEF SInv, UsableInv
      <3> QED
        BY <2>1, <3>1 DEF Accepted
    <2>2. ASSUME req[r].new # None, d = req[r].new.dev, Works(r) PROVE FALSE
      <3>1. Bringing(r, d) /\ Bringing(q, d)
        BY <1>0, <1>5, <2>2, MoverKnown DEF Bringing, Running, Works
      <3> QED
        BY <1>5, <3>1 DEF SInv, UsableInv
    <2>3. CASE Works(r)
      BY <2>1, <2>2, <2>3 DEF Works
    <2>4. CASE Starts(r) \/ Ends(r)
      BY <2>1, <2>4 DEF Starts, Ends, Live
    <2> QED
      BY <2>3, <2>4
  <1> QED
    BY <1>4, <1>5

\* LiveSessionUsable for one device.
Kept(d) ==
    \/ cookie[ClientOf[d]] = Accepted(d)
    \/ \E q \in Reqs : Brings(q) /\ req[q].new = Accepted(d)
    \/ Elsewhere(d)

\* The cleared answers of UsableInv.
Cleared(q) ==
    req[q].res = "cleared" =>
      /\ req[q].pc \in {"reply", "done"}
      /\ req[q].tok \in Tokens /\ device[req[q].tok.dev].st = "deleted"

LEMMA ClearedStays ==
  ASSUME SInv, NEW r \in Reqs, Starts(r) \/ Works(r) \/ Ends(r), NEW q \in LogoutReqs
  PROVE  Cleared(q)'
  <1>0. q \in Reqs /\ Cleared(q)
    BY DEF Reqs, SInv, UsableInv, Cleared
  <1>1. \A d \in Devices : device[d].st = "deleted" => device'[d].st = "deleted"
    BY DEF Starts, Works, Ends
  <1>2. ASSUME req'[q].res = req[q].res, req'[q].tok = req[q].tok, req'[q].pc \in {req[q].pc, "done"}
        PROVE  Cleared(q)'
    BY <1>0, <1>1, <1>2 DEF Cleared, Tokens
  <1>3. CASE q # r
    BY <1>0, <1>2, <1>3 DEF Starts, Works, Ends, OnlyMoves
  <1>4. CASE q = r /\ Works(r)
    <2>1. req[r].res # "cleared"
      BY <1>0, <1>4 DEF Works, Cleared
    <2>2. ASSUME req'[r].res = "cleared" PROVE Cleared(r)'
      <3>1. /\ req'[r].pc = "reply" /\ req[r].pc = "delete" /\ req'[r].tok = req[r].tok
            /\ device'[req[r].tok.dev].st = "deleted"
        BY <1>4, <2>1, <2>2 DEF Works
      <3> QED
        BY <3>1, MoverKnown DEF Cleared, Holds
    <2> QED
      BY <1>4, <2>2 DEF Cleared
  <1>5. CASE q = r /\ Starts(r)
    BY <1>0, <1>5 DEF Starts, Cleared
  <1>6. CASE q = r /\ Ends(r)
    BY <1>2, <1>6, MoverKnown DEF Ends, Request
  <1> QED
    BY <1>3, <1>4, <1>5, <1>6

\* While the cookies stay and answers on their way stay so, so does a token.
LEMMA KeptByOthers ==
  ASSUME SInv, NEW r \in Reqs, Starts(r) \/ Works(r), NEW d \in Devices,
         Kept(d), device'[d].iat = device[d].iat
  PROVE  Kept(d)'
  <1>0. cookie' = cookie /\ Accepted(d)' = Accepted(d) /\ OnlyMoves(r) /\ req[r].pc # "reply"
        /\ req[r].pc # "done"
    BY DEF Starts, Works, Accepted
  <1>1. ASSUME NEW q \in Reqs, Brings(q), req[q].new = Accepted(d)
        PROVE  Brings(q)' /\ req'[q].new = Accepted(d)'
    BY <1>0, <1>1 DEF OnlyMoves, Brings
  <1>2. Elsewhere(d) => Elsewhere(d)'
    BY <1>0 DEF Elsewhere, OnlyMoves, Reqs
  <1>3. cookie[ClientOf[d]] = Accepted(d) => cookie'[ClientOf[d]] = Accepted(d)'
    BY <1>0
  <1> QED
    BY <1>1, <1>2, <1>3 DEF Kept

LEMMA KeptByEnd ==
  ASSUME SInv, NEW r \in Reqs, Ends(r), lost' = MaxLost,
         NEW d \in Devices \ raced, Live(d)
  PROVE  Kept(d)'
  <1> DEFINE c == ClientOf[d]
  <1>0. /\ d \in Reqs /\ c \in Clients /\ ClientOf[r] \in Clients /\ d # None
        /\ OnlyMoves(r) /\ req'[r] = [req[r] EXCEPT !.pc = "done"] /\ req[r].pc = "reply"
        /\ cookie \in [Clients -> Tokens \cup {None}] /\ req[r] \in Request
        /\ Accepted(d)' = Accepted(d) /\ Live(d)'
        /\ None \notin Tokens /\ lost = MaxLost
    BY MoverKnown, SessionAssumption DEF Ends, Reqs, Devices, Accepted, Live
  <1>1. Kept(d)
    BY <1>0 DEF SInv, UsableInv, LiveSessionUsable, Kept
  <1>2. Accepted(d) # None /\ Accepted(d).dev = d
    <2>1. Accepted(d) \in Tokens
      BY DEF Accepted, Tokens, SInv, TypeOK, DeviceRow
    <2> QED
      BY <1>0, <2>1 DEF Accepted
  <1>3. ASSUME NEW q \in Reqs, q # r, Brings(q), req[q].new = Accepted(d) PROVE Kept(d)'
    <2>1. Brings(q)' /\ req'[q].new = Accepted(d)'
      BY <1>0, <1>3 DEF OnlyMoves, Brings
    <2> QED
      BY <2>1 DEF Kept
  <1>4. CASE cookie'[c] = cookie[c] /\ ~Brings(r)
    <2>1. Elsewhere(d) => Elsewhere(d)'
      BY <1>0, <1>4 DEF Elsewhere, OnlyMoves, Reqs
    <2>2. cookie[c] = Accepted(d) => cookie'[c] = Accepted(d)'
      BY <1>0, <1>4
    <2> QED
      BY <1>1, <1>3, <1>4, <2>1, <2>2 DEF Kept
  <1>5. CASE cookie' = [cookie EXCEPT ![ClientOf[r]] = req[r].new] /\ Brings(r)
    <2>0. req[r].new # None /\ req[r].new \in Tokens /\ ClientOf[req[r].new.dev] = ClientOf[r]
      BY <1>5, MoverKnown, SentTo DEF Brings
    <2>1. CASE ClientOf[r] = c /\ req[r].new.dev = d
      <3>1. req[r].new = Accepted(d)
        BY <1>0, <1>5, <2>1 DEF SInv, UsableInv
      <3>2. cookie'[c] = Accepted(d)'
        BY <1>0, <1>5, <2>1, <3>1
      <3> QED
        BY <3>2 DEF Kept
    <2>2. CASE ClientOf[r] = c /\ req[r].new.dev # d
      <3>1. cookie'[c] # None /\ cookie'[c].dev # d
        BY <1>0, <1>5, <2>0, <2>2
      <3> QED
        BY <3>1 DEF Kept, Elsewhere
    <2>3. CASE ClientOf[r] # c
      <3>1. cookie'[c] = cookie[c]
        BY <1>0, <1>5, <2>3
      <3>2. req[r].new # Accepted(d)
        BY <1>2, <2>0, <2>3
      <3>3. Elsewhere(d) => Elsewhere(d)'
        BY <1>0, <3>1 DEF Elsewhere, OnlyMoves, Reqs
      <3>4. cookie[c] = Accepted(d) => cookie'[c] = Accepted(d)'
        BY <1>0, <3>1
      <3> QED
        BY <1>1, <1>3, <3>2, <3>3, <3>4 DEF Kept
    <2> QED
      BY <2>1, <2>2, <2>3
  <1>6. CASE req[r].res = "cleared" /\ cookie' = [cookie EXCEPT ![ClientOf[r]] = None]
    <2>0. /\ r \in LogoutReqs /\ device[req[r].tok.dev].st = "deleted"
          /\ req'[r].pc = "done" /\ req'[r].res = "cleared" /\ req'[r].tok = req[r].tok
      BY <1>0, <1>6 DEF SInv, TokensInv, UsableInv, Request
    <2>1. req[r].tok.dev # d
      BY <2>0 DEF Live
    <2>2. ~Brings(r)
      BY <2>0, SessionAssumption DEF SInv, TokensInv, Brings, Devices
    <2>3. CASE ClientOf[r] = c
      <3>1. cookie'[c] = None
        BY <1>0, <1>6, <2>3
      <3> QED
        BY <2>0, <2>1, <2>3, <3>1 DEF Kept, Elsewhere
    <2>4. CASE ClientOf[r] # c
      BY <1>0, <1>4, <1>6, <2>2, <2>4
    <2> QED
      BY <2>3, <2>4
  <1> QED
    BY <1>0, <1>4, <1>5, <1>6 DEF Ends

LEMMA StepUsable ==
  ASSUME SInv, NEW r \in Reqs, Starts(r) \/ Works(r) \/ Ends(r), Race
  PROVE  UsableInv'
  <1>0. raced \subseteq raced'
    BY DEF Race
  <1>1. \A p, q \in Reqs, d \in Devices :
          p # q /\ Bringing(p, d)' /\ Bringing(q, d)' => d \in raced'
    BY DEF Race
  <1>2. ASSUME lost' = MaxLost, NEW q \in Reqs, NEW d \in Devices \ raced',
               Live(d)', Brings(q)', req'[q].new.dev = d
        PROVE  req'[q].new = Accepted(d)'
    BY <1>0, <1>2, BringsAccepted
  <1>3. \A q \in LogoutReqs : Cleared(q)'
    BY ClearedStays
  <1>4. ASSUME lost' = MaxLost, NEW d \in Devices \ raced', Live(d)' PROVE Kept(d)'
    <2>0. d \notin raced /\ lost = MaxLost
      BY <1>0, <1>4 DEF Starts, Works, Ends
    <2>1. CASE Ends(r)
      BY <1>4, <2>0, <2>1, KeptByEnd DEF Ends, Live
    <2>2. ASSUME Starts(r) \/ Works(r), Live(d), device'[d].iat = device[d].iat
          PROVE  Kept(d)'
      <3>1. Kept(d)
        BY <2>0, <2>2 DEF SInv, UsableInv, LiveSessionUsable, Kept
      <3> QED
        BY <2>2, <3>1, KeptByOthers
    <2>3. CASE Starts(r)
      BY <1>4, <2>2, <2>3 DEF Starts, Live
    <2>4. CASE Works(r)
      <3>1. CASE /\ Brings(r)' /\ req'[r].new = req[r].new /\ req[r].new # None
                 /\ req[r].new.dev = d
        <4>1. req'[r].new = Accepted(d)'
          BY <1>2, <1>4, <3>1
        <4> QED
          BY <3>1, <4>1 DEF Kept
      <3> QED
        BY <1>4, <2>2, <2>4, <3>1, RowAfter
    <2> QED
      BY <2>1, <2>3, <2>4
  <1> QED
    BY <1>1, <1>2, <1>3, <1>4 DEF UsableInv, LiveSessionUsable, Kept, Cleared

-----------------------------------------------------------------------------
(* One session *)

\* OneSessionInv for one device.
Only(d) ==
    /\ \/ cookie[ClientOf[d]] # None /\ cookie[ClientOf[d]].dev = d
       \/ Brings(d)
    /\ \A r \in LoginReqs :
         ClientOf[r] = ClientOf[d] /\ (req[r].pc = "create" \/ Brings(r)) => r = d

\* Time only expires tokens.
LEMMA StaysRefreshable ==
  ASSUME SInv, NEW d \in Devices, Refreshable(d)', now' \in Nat, now' >= now,
         Live(d), device'[d].iat = device[d].iat
  PROVE  Refreshable(d)
  <1>1. now \in Nat /\ TTL \in Nat /\ device[d].iat \in Nat
    BY SessionAssumption DEF SInv, TypeOK, Seconds, DeviceRow
  <1> QED
    BY <1>1 DEF Refreshable, Expired

LEMMA OnlyStep ==
  ASSUME SInv, lost' = MaxLost, NEW r \in Reqs, Starts(r) \/ Works(r) \/ Ends(r),
         NEW d \in Devices, Refreshable(d)', PasswordsOnly(ClientOf[d])
  PROVE  Only(d)'
  <1> DEFINE c == ClientOf[d]
  <1>0. /\ d \in Reqs /\ c \in Clients /\ c \notin Hasty
        /\ d \in LoginReqs /\ LoginReqs \subseteq Reqs
    BY SessionAssumption DEF Reqs, Devices, PasswordsOnly
  <1>1. lost = MaxLost /\ now' = now /\ now \in Nat
    BY SessionAssumption DEF Starts, Works, Ends, SInv, TypeOK, Seconds
  <1>2. Refreshable(d) => Only(d)
    BY <1>1 DEF SInv, OneSessionInv, Only
  <1>3. Live(d) /\ device'[d].iat = device[d].iat => Only(d)
    BY <1>1, <1>2, StaysRefreshable
  <1>4. CASE Starts(r)
    <2>1. Only(d) /\ Refreshable(d)
      BY <1>1, <1>3, <1>4, StaysRefreshable DEF Starts, Refreshable, Live
    <2>2. ASSUME r \in LoginReqs, ClientOf[r] = c, req'[r].pc = "create" PROVE FALSE
      <3>1. Idle(c) /\ ~Valid(cookie[c])
        BY <1>0, <1>4, <2>2 DEF Starts
      <3>2. cookie[c] # None /\ cookie[c].dev = d
        BY <1>0, <2>1, <3>1 DEF Only, Idle, Brings
      <3>3. \A q \in Reqs : ~(ClientOf[q] = c /\ Brings(q))
        BY <3>1 DEF Idle, Brings
      <3>4. Current(cookie[c])
        BY <1>0, <1>1, <2>1, <3>2, <3>3 DEF Refreshable, SInv, CurrentInv
      <3>5. cookie[c].iat = device[d].iat
        BY <3>2, <3>4 DEF Current
      <3> QED
        BY <2>1, <3>1, <3>2, <3>5 DEF Valid, Expired, Refreshable
    <2>3. d = r => ~Brings(d)
      BY <1>4 DEF Starts, Brings
    <2>4. ~Brings(r)'
      BY <1>4 DEF Starts, Brings
    <2>5. \A q \in Reqs \ {r} : req'[q] = req[q]
      BY <1>4 DEF Starts, OnlyMoves
    <2>6. cookie' = cookie
      BY <1>4 DEF Starts
    <2> QED
      BY <1>0, <2>1, <2>2, <2>3, <2>4, <2>5, <2>6 DEF Only, Brings
  <1>5. CASE Works(r)
    <2>1. cookie' = cookie /\ \A q \in Reqs \ {r} : req'[q] = req[q]
      BY <1>5 DEF Works, OnlyMoves
    <2>2. CASE Live(d) /\ device'[d].iat = device[d].iat
      <3>1. Only(d)
        BY <1>3, <2>2
      <3>2. ~Brings(r) /\ req'[r].pc # "create"
        BY <1>5 DEF Works, Brings
      <3>3. ASSUME r \in LoginReqs, ClientOf[r] = c, Brings(r)' PROVE r = d
        <4>1. r \notin RefreshReqs /\ r \notin TerminateReqs /\ r \in Devices
          BY <3>3, SessionAssumption DEF Devices
        <4>2. req[r].new # None
          BY <1>5, <3>3, <4>1 DEF Works, Brings
        <4>3. req[r].pc = "create" \/ req[r].pc = "update"
          BY <1>5, <4>2, MoverKnown DEF Works, Holds
        <4>4. req[r].pc = "create"
          BY <1>5, <4>1, <4>3 DEF Works
        <4> QED
          BY <3>1, <3>3, <4>4 DEF Only
      <3> QED
        BY <1>0, <2>1, <3>1, <3>2, <3>3 DEF Only, Brings
    <2>3. CASE /\ Brings(r)' /\ req'[r].new = req[r].new /\ req[r].new # None
               /\ req[r].new.dev = d /\ ClientOf[r] = ClientOf[d]
      <3>1. ASSUME NEW q \in LoginReqs, ClientOf[q] = c, req'[q].pc = "create" \/ Brings(q)'
            PROVE  q = d
        <4>1. q = r
          BY <1>0, <1>5, <2>1, <2>3, <3>1, Alone DEF Running, Brings
        <4>2. r \in Devices
          BY <3>1, <4>1 DEF Devices
        <4> QED
          BY <2>3, <4>1, <4>2 DEF SInv, TokensInv
      <3>2. (cookie[c] # None /\ cookie[c].dev = d) \/ Brings(d)'
        <4>1. CASE r \in Devices
          BY <2>3, <4>1 DEF SInv, TokensInv
        <4>2. CASE r \in RefreshReqs /\ r \notin Devices
          <5>1. Waits(r)'
            BY <1>0, <1>5, <2>3, WaitsStep
          <5> QED
            BY <2>1, <2>3, <4>2, <5>1 DEF Waits
        <4> QED
          BY <2>3, <4>1, <4>2 DEF SInv, TokensInv
      <3> QED
        BY <2>1, <3>1, <3>2 DEF Only
    <2> QED
      BY <1>5, <2>2, <2>3, RowAfter DEF Refreshable
  <1>6. CASE Ends(r)
    <2>1. Only(d) /\ Refreshable(d)
      BY <1>1, <1>3, <1>6, StaysRefreshable DEF Ends, Refreshable, Live
    <2>2. req'[r].pc = "done" /\ \A q \in Reqs \ {r} : req'[q] = req[q]
      BY <1>6, MoverKnown DEF Ends, OnlyMoves, Request
    <2>3. \A q \in LoginReqs :
            ClientOf[q] = c /\ (req'[q].pc = "create" \/ Brings(q)') => q = d
      BY <1>0, <2>1, <2>2 DEF Only, Brings
    <2>4. CASE ClientOf[r] # c
      <3>1. cookie'[c] = cookie[c]
        BY <1>0, <1>6, <2>4, MoverKnown DEF Ends
      <3> QED
        BY <1>0, <2>1, <2>2, <2>3, <2>4, <3>1 DEF Only, Brings
    <2>5. CASE ClientOf[r] = c
      <3>1. Brings(d) => d = r
        BY <1>0, <1>6, <2>5, Alone DEF Brings, Running
      <3>2. CASE ~Brings(r) /\ cookie' = cookie
        BY <2>1, <2>3, <3>1, <3>2 DEF Only
      <3>3. CASE Brings(r) /\ cookie'[c] = req[r].new
        <4>1. CASE r \in Devices
          <5>1. r \in LoginReqs /\ req[r].new.dev = r
            BY <2>5, <3>3, <4>1 DEF PasswordsOnly, Devices, SInv, TokensInv, Brings
          <5>2. r = d
            BY <2>1, <2>5, <3>3, <5>1 DEF Only
          <5> QED
            BY <2>3, <3>3, <5>1, <5>2 DEF Only, Brings
        <4>2. CASE r \in RefreshReqs /\ r \notin Devices
          <5>1. cookie[c] # None /\ cookie[c].dev = req[r].new.dev
            BY <1>0, <2>5, <3>3, <4>2 DEF SInv, WaitingInv
          <5> QED
            BY <2>1, <2>3, <3>1, <3>3, <4>2, <5>1 DEF Only, Brings
        <4> QED
          BY <3>3, <4>1, <4>2 DEF SInv, TokensInv, Brings
      <3>4. CASE req[r].res = "cleared"
        <4>1. r \in LogoutReqs /\ r \notin Devices
          BY <3>4, SessionAssumption DEF SInv, TokensInv
        <4>2. ~Live(cookie[c].dev)
          BY <1>0, <1>6, <2>5, <3>4 DEF Ends, SInv, WaitingInv
        <4> QED
          BY <2>1, <3>1, <4>1, <4>2 DEF Only, Refreshable
      <3> QED
        BY <1>0, <1>1, <1>6, <2>5, <3>2, <3>3, <3>4, MoverKnown DEF Ends
    <2> QED
      BY <2>4, <2>5
  <1> QED
    BY <1>4, <1>5, <1>6

LEMMA StepOneSession ==
  ASSUME SInv, NEW r \in Reqs, Starts(r) \/ Works(r) \/ Ends(r)
  PROVE  OneSessionInv'
  BY OnlyStep DEF OneSessionInv, Only, PasswordsOnly

LEMMA StepInv == SInv /\ [Next]_vars => SInv'
  <1> SUFFICES ASSUME SInv, [Next]_vars PROVE SInv'
    OBVIOUS
  <1>1. TypeOK' /\ HandlersInv' /\ InsertInv'
    BY StepType, StepHandlers, StepInsert
  <1>r. Race \/ UNCHANGED vars
    BY DEF Next
  <1>2. CASE UNCHANGED <<device, cookie, req, lost>> /\ now' \in Nat /\ now' >= now
    <2>1. TokensInv' /\ WaitingInv' /\ CurrentInv'
      BY <1>2 DEF SInv, TokensInv, WaitingInv, Running, Brings, CurrentInv, Current, Live
    <2>2. \A d \in Devices : Refreshable(d)' => Refreshable(d)
      BY <1>2, StaysRefreshable DEF Refreshable, Live
    <2>3. OneSessionInv'
      BY <1>2, <2>2 DEF SInv, OneSessionInv, Brings, PasswordsOnly
    <2>4. raced \subseteq raced'
      BY <1>r DEF Race, vars
    <2>5. UsableInv'
      BY <1>2, <2>4 DEF SInv, UsableInv, Bringing, Running, Brings, LiveSessionUsable, Accepted,
                        Elsewhere, Live
    <2> QED
      BY <1>1, <2>1, <2>3, <2>5 DEF SInv
  <1>3. ASSUME NEW r \in Reqs, Starts(r) \/ Works(r) \/ Ends(r), Race PROVE SInv'
    <2>1. TokensInv' /\ WaitingInv' /\ CurrentInv' /\ OneSessionInv'
      BY <1>3, StepTokens, StepWaiting, StepCurrent, StepOneSession
    <2>2. UsableInv'
      BY <1>3, StepUsable
    <2> QED
      BY <1>1, <2>1, <2>2 DEF SInv
  <1>4. CASE UNCHANGED vars
    <2>1. now \in Nat
      BY SessionAssumption DEF SInv, TypeOK, Seconds
    <2> QED
      BY <1>2, <1>4, <2>1 DEF vars
  <1> QED
    BY <1>r, <1>2, <1>3, <1>4, StepShape

\* What every handler in flight may rely on, whatever overlaps with it.
THEOREM SessionInvariant == Spec => []SInv
  <1> QED
    BY InitInv, StepInv, PTL DEF Spec

\* The token a live session accepts is in its client's jar or on its way there,
\* however terminations and logins overlap, unless two of its refreshes ran at
\* once, a response or a write was lost, or another session took the jar.
THEOREM LiveSessionsAreUsable == Spec => []LiveSessionUsable
  <1>1. SInv => LiveSessionUsable
    BY DEF SInv, UsableInv
  <1> QED
    BY <1>1, SessionInvariant, PTL

\* A client that sends one request at a time and gets every answer holds the
\* token its session accepts, until the session is terminated.
THEOREM WaitingClientsAreCurrent == Spec => []CookieIsCurrent
  <1>1. SInv => CookieIsCurrent
    BY DEF SInv, CurrentInv, CookieIsCurrent, Idle, Brings
  <1> QED
    BY <1>1, SessionInvariant, PTL

\* "Logout before logging in again": such a client, using passwords only, has
\* at most one session that can still be refreshed.
THEOREM OneSession == Spec => []OneSessionPerClient
  <1>1. ASSUME SInv, lost = MaxLost, NEW d \in Devices, NEW e \in Devices,
               Refreshable(d), Refreshable(e), ClientOf[d] = ClientOf[e],
               PasswordsOnly(ClientOf[d])
        PROVE  d = e
    <2>1. d \in LoginReqs /\ e \in LoginReqs
      BY <1>1 DEF Devices, PasswordsOnly
    <2>2. Only(d) /\ Only(e)
      BY <1>1 DEF SInv, OneSessionInv, Only
    <2> QED
      BY <1>1, <2>1, <2>2 DEF Only
  <1>2. SInv => OneSessionPerClient
    BY <1>1 DEF OneSessionPerClient, PasswordsOnly
  <1> QED
    BY <1>2, SessionInvariant, PTL
-----------------------------------------------------------------------------
(* Ending a session *)

LEMMA EndedByOwnerStep ==
  ASSUME SInv, Next, NEW d \in Devices, Live(d), ~Live(d)'
  PROVE  \E r \in Reqs : /\ req[r].pc = "delete" /\ req'[r].pc = "reply"
                         /\ OwnerOf(req[r].tok.dev) = OwnerOf(d)
  <1>0. /\ req \in [Reqs -> Request] /\ device \in [Devices -> DeviceRow] /\ HandlersInv
    BY DEF SInv, TypeOK
  <1>1. device'[d] # device[d]
    BY DEF Live
  <1>2. ASSUME d \in Reqs, CreateDevice(d) PROVE Live(d)'
    BY <1>0, <1>1, <1>2 DEF CreateDevice, InsertDevice, WriteFails, Live
  <1>3. ASSUME NEW r \in LogoutReqs, LogoutDelete(r), d = req[r].tok.dev
        PROVE  req[r].pc = "delete" /\ req'[r].pc = "reply" /\ r \in Reqs
    <2>1. r \in Reqs
      BY DEF Reqs
    <2> QED
      BY <1>0, <1>3, <2>1 DEF LogoutDelete, DeleteByIat, MarkDeleted, Answer, Request
  <1>4. ASSUME NEW r \in TerminateReqs, TerminateDelete(r), d = req[r].target
        PROVE  /\ req[r].pc = "delete" /\ req'[r].pc = "reply" /\ r \in Reqs
               /\ OwnerOf(req[r].tok.dev) = OwnerOf(d)
    <2>1. r \in Reqs
      BY DEF Reqs
    <2>2. Permitted(r)
      BY <1>0, <1>4, <2>1 DEF TerminateDelete, DeleteByUser, MarkDeleted, HandlersInv
    <2>3. OwnerOf(req[r].tok.dev) = OwnerOf(d)
      BY <1>4, <2>2 DEF Permitted
    <2>4. req' = [req EXCEPT ![r] = [req[r] EXCEPT !.pc = "reply", !.res = "ok"]]
      BY <1>0, <1>4, <2>1 DEF TerminateDelete, DeleteByUser, MarkDeleted, Answer, Live
    <2>5. req[r].pc = "delete" /\ req'[r].pc = "reply"
      BY <1>0, <1>4, <2>1, <2>4 DEF TerminateDelete, DeleteByUser, MarkDeleted, Request
    <2> QED
      BY <2>1, <2>3, <2>5
  <1>5. ASSUME NEW r \in OthersReqs, OthersDelete(r)
        PROVE  req[r].pc = "delete" /\ req'[r].pc = "reply" /\ r \in Reqs
    BY <1>0, <1>5 DEF OthersDelete, Answer, Reqs, Request
  <1> QED
    BY <1>1, <1>2, <1>3, <1>4, <1>5, RowsWritten

\* A session is ended only by a request its own user's token was sent with,
\* whatever was created or terminated between its find and its update.
THEOREM OnlyOwnersEnd == Spec => EndedByOwner
  <1>1. SInv /\ [Next]_vars => [EndsOwn]_vars
    BY EndedByOwnerStep DEF EndsOwn
  <1> QED
    BY <1>1, SessionInvariant, PTL DEF Spec, EndedByOwner

\* A terminated session stays terminated and keeps its iat, through every
\* refresh that had found it alive.
THEOREM TerminationIsFinal == Spec => TerminatedForGood
  <1>1. ASSUME SInv, Next, NEW d \in Devices, device[d].st = "deleted"
        PROVE  device'[d] = device[d]
    <2>1. ASSUME d \in Reqs, CreateDevice(d) PROVE FALSE
      BY <1>1, <2>1 DEF CreateDevice, InsertDevice, SInv, InsertInv
    <2> QED
      BY <1>1, <2>1, RowsWritten DEF Live
  <1>2. SInv /\ [Next]_vars => [KeepsTerminated]_vars
    BY <1>1 DEF KeepsTerminated
  <1> QED
    BY <1>2, SessionInvariant, PTL DEF Spec, TerminatedForGood
=============================================================================
