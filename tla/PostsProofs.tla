---------------------------- MODULE PostsProofs ----------------------------
(***************************************************************************)
(* The invariant of Posts and what it implies, for every number of posts,  *)
(* photos, requests and failures.                                          *)
(***************************************************************************)
EXTENDS Posts, TLAPS

LEMMA InitInv == Init => PInv
  <1> SUFFICES ASSUME Init PROVE PInv
    OBVIOUS
  <1>1. TypeOK
    BY PostsAssumption DEF Init, TypeOK, PostRow, Request, Stage
  <1>2. HandlersInv
    BY DEF Init, HandlersInv, All, Reqs, Rpcs, Posts
  <1>3. UploadsInv
    BY DEF Init, UploadsInv, Posts, Rpcs
  <1>4. DeletesInv
    BY DEF Init, DeletesInv, Rpcs, Reqs
  <1>5. NoPhotoLost
    BY DEF Init, NoPhotoLost
  <1> QED
    BY <1>1, <1>2, <1>3, <1>4, <1>5 DEF PInv
-----------------------------------------------------------------------------
(* What steps write *)

LEMMA RequestFields ==
  ASSUME NEW q \in Request
  PROVE  /\ \A res \in {"ok", "notFound", "forbidden", "noChanges", "partial", "error",
                        "lost"} :
              [q EXCEPT !.pc = "done", !.res = res] \in Request
         /\ \A pc \in {"upload", "save"}, p \in Posts, t \in Texts \cup {None} :
              [q EXCEPT !.pc = pc, !.post = p, !.text = t] \in Request
         /\ [q EXCEPT !.pc = "files"] \in Request
  BY DEF Request

LEMMA FailType == TypeOK /\ (Fail \/ UNCHANGED faults) => faults' \in 0..MaxFail
  BY PostsAssumption DEF TypeOK, Fail

\* An answer ends its handler and touches no other.
LEMMA Answered ==
  ASSUME TypeOK, NEW r \in Reqs,
         NEW res \in {"ok", "notFound", "forbidden", "noChanges", "partial", "error"},
         Answer(r, res)
  PROVE  /\ req' \in [Reqs -> Request]
         /\ req'[r].pc = "done" /\ req'[r].res = res /\ req'[r].post = req[r].post
         /\ \A q \in Reqs : q # r => req'[q] = req[q]
  <1>1. req \in [Reqs -> Request] /\ req[r] \in Request
    BY DEF TypeOK
  <1>2. req' \in [Reqs -> Request]
    BY <1>1, RequestFields DEF Answer
  <1> QED
    BY <1>1, <1>2 DEF Answer, Request

\* One photo's stage of one RPC.
LEMMA JobStep ==
  ASSUME TypeOK, NEW r \in Rpcs, NEW n \in Photos, NEW s \in Stage,
         job' = [job EXCEPT ![r][n] = s]
  PROVE  /\ job' \in [Rpcs -> [Photos -> Stage]]
         /\ job'[r][n] = s
         /\ \A q \in Rpcs, m \in Photos : q # r \/ m # n => job'[q][m] = job[q][m]
  BY DEF TypeOK

\* All stages of one RPC.
LEMMA JobSet ==
  ASSUME TypeOK, NEW r \in Rpcs, NEW s \in Stage,
         job' = [job EXCEPT ![r] = [n \in Photos |-> s]]
  PROVE  /\ job' \in [Rpcs -> [Photos -> Stage]]
         /\ \A n \in Photos : job'[r][n] = s
         /\ \A q \in Rpcs : q # r => job'[q] = job[q]
  BY DEF TypeOK

\* One field of one file in the bucket.
Bucket == [Posts -> [Photos -> [here : BOOLEAN, trash : BOOLEAN]]]

LEMMA PutHere ==
  ASSUME TypeOK, NEW p \in Posts, NEW n \in Photos, NEW b \in BOOLEAN,
         file' = [file EXCEPT ![p][n].here = b]
  PROVE  /\ file' \in Bucket
         /\ \A q \in Posts, m \in Photos : q # p \/ m # n => file'[q][m] = file[q][m]
         /\ file'[p][n].here = b /\ file'[p][n].trash = file[p][n].trash
  <1>1. file \in Bucket /\ file[p] \in [Photos -> [here : BOOLEAN, trash : BOOLEAN]]
        /\ file[p][n] \in [here : BOOLEAN, trash : BOOLEAN]
    BY DEF TypeOK, Bucket
  <1>2. file' = [file EXCEPT ![p] = [file[p] EXCEPT ![n] = [file[p][n] EXCEPT !.here = b]]]
    BY <1>1
  <1>3. [file[p][n] EXCEPT !.here = b] \in [here : BOOLEAN, trash : BOOLEAN]
    BY <1>1
  <1>4. [file[p] EXCEPT ![n] = [file[p][n] EXCEPT !.here = b]]
          \in [Photos -> [here : BOOLEAN, trash : BOOLEAN]]
    BY <1>1, <1>3
  <1>5. file' \in Bucket
    BY <1>1, <1>2, <1>4 DEF Bucket
  <1>6. file'[p][n] = [file[p][n] EXCEPT !.here = b]
    BY <1>1, <1>2 DEF Bucket
  <1>7. \A q \in Posts, m \in Photos : q # p \/ m # n => file'[q][m] = file[q][m]
    BY <1>1, <1>2 DEF Bucket
  <1> QED
    BY <1>1, <1>5, <1>6, <1>7

LEMMA PutTrash ==
  ASSUME TypeOK, NEW p \in Posts, NEW n \in Photos, NEW b \in BOOLEAN,
         file' = [file EXCEPT ![p][n].trash = b]
  PROVE  /\ file' \in Bucket
         /\ \A q \in Posts, m \in Photos : q # p \/ m # n => file'[q][m] = file[q][m]
         /\ file'[p][n].trash = b /\ file'[p][n].here = file[p][n].here
  <1>1. file \in Bucket /\ file[p] \in [Photos -> [here : BOOLEAN, trash : BOOLEAN]]
        /\ file[p][n] \in [here : BOOLEAN, trash : BOOLEAN]
    BY DEF TypeOK, Bucket
  <1>2. file' = [file EXCEPT ![p] = [file[p] EXCEPT ![n] = [file[p][n] EXCEPT !.trash = b]]]
    BY <1>1
  <1>3. [file[p][n] EXCEPT !.trash = b] \in [here : BOOLEAN, trash : BOOLEAN]
    BY <1>1
  <1>4. [file[p] EXCEPT ![n] = [file[p][n] EXCEPT !.trash = b]]
          \in [Photos -> [here : BOOLEAN, trash : BOOLEAN]]
    BY <1>1, <1>3
  <1>5. file' \in Bucket
    BY <1>1, <1>2, <1>4 DEF Bucket
  <1>6. file'[p][n] = [file[p][n] EXCEPT !.trash = b]
    BY <1>1, <1>2 DEF Bucket
  <1>7. \A q \in Posts, m \in Photos : q # p \/ m # n => file'[q][m] = file[q][m]
    BY <1>1, <1>2 DEF Bucket
  <1> QED
    BY <1>1, <1>5, <1>6, <1>7

LEMMA PostStep ==
  ASSUME TypeOK, NEW p \in Posts, NEW row \in PostRow, post' = [post EXCEPT ![p] = row]
  PROVE  /\ post' \in [Posts -> PostRow]
         /\ post'[p] = row
         /\ \A q \in Posts : q # p => post'[q] = post[q]
  BY DEF TypeOK
-----------------------------------------------------------------------------
(* Handlers that write nothing but their own state *)

LEMMA Quiet ==
  ASSUME PInv, UNCHANGED <<post, file, meta, job>>, faults' \in 0..MaxFail,
         req' \in [Reqs -> Request], HandlersInv',
         \A r \in Reqs : req[r].pc \in {"files", "done"} => req'[r].post = req[r].post,
         \A r \in Reqs : req[r].pc = "done" => req'[r] = req[r],
         \A d \in DeleteReqs : req'[d].res = "ok" => \A n \in Photos : job[d][n] = "done"
  PROVE  PInv'
  <1>1. TypeOK'
    BY DEF PInv, TypeOK
  <1>2. UploadsInv' /\ NoPhotoLost'
    BY DEF PInv, UploadsInv, NoPhotoLost, Here
  <1>3. \A p : BroughtBack(p) => BroughtBack(p)'
    <2> SUFFICES ASSUME NEW p, NEW u \in UpdateReqs, req[u].post = p, req[u].res = "ok"
                 PROVE  BroughtBack(p)'
      BY DEF BroughtBack
    <2>1. req'[u] = req[u]
      BY DEF PInv, HandlersInv, Reqs
    <2> QED
      BY <2>1 DEF BroughtBack
  <1>4. \A d \in DeleteReqs, n \in Photos : job[d][n] # "idle" => req'[d].post = req[d].post
    <2> SUFFICES ASSUME NEW d \in DeleteReqs, NEW n \in Photos, job[d][n] # "idle"
                 PROVE  req'[d].post = req[d].post
      OBVIOUS
    <2>1. d \in Reqs /\ req[d] \in Request
      BY DEF PInv, TypeOK, Reqs
    <2>2. req[d].pc \in {"files", "done"} \/ req[d].pc = "upload"
      BY <2>1 DEF PInv, HandlersInv, All, Request
    <2>3. req[d].pc # "upload"
      BY DEF PInv, HandlersInv
    <2> QED
      BY <2>1, <2>2, <2>3
  <1>5. DeletesInv'
    BY <1>3, <1>4 DEF PInv, DeletesInv, Here, Live
  <1> QED
    BY <1>1, <1>2, <1>5 DEF PInv

\* An answer that writes nothing else.
LEMMA AnswerInv ==
  ASSUME PInv, NEW r \in Reqs, req[r].pc # "done",
         NEW res \in {"ok", "notFound", "forbidden", "noChanges", "partial", "error"},
         Answer(r, res), UNCHANGED <<post, file, meta, job>>, faults' \in 0..MaxFail,
         r \in DeleteReqs /\ res = "ok" => All(r, "done")
  PROVE  PInv'
  <1>1. /\ req' \in [Reqs -> Request]
        /\ req'[r].pc = "done" /\ req'[r].res = res /\ req'[r].post = req[r].post
        /\ \A q \in Reqs : q # r => req'[q] = req[q]
    BY Answered DEF PInv
  <1>2. HandlersInv'
    BY <1>1 DEF PInv, HandlersInv, All, Reqs, Posts
  <1>3. \A d \in DeleteReqs : req'[d].res = "ok" => \A n \in Photos : job[d][n] = "done"
    BY <1>1 DEF PInv, DeletesInv, All, Reqs
  <1>4. \A q \in Reqs : req[q].pc \in {"files", "done"} => req'[q].post = req[q].post
    BY <1>1
  <1>5. \A q \in Reqs : req[q].pc = "done" => req'[q] = req[q]
    BY <1>1
  <1> QED
    BY <1>1, <1>2, <1>3, <1>4, <1>5, Quiet

LEMMA RefuseInv ==
  ASSUME PInv, NEW r \in Reqs, req[r].pc = "start", NEW p \in Posts, Refuse(r, p),
         UNCHANGED <<post, file, meta, job, faults>>
  PROVE  PInv'
  <1>1. faults' \in 0..MaxFail
    BY DEF PInv, TypeOK
  <1>2. CASE Answer(r, "notFound")
    BY <1>1, <1>2, AnswerInv
  <1>3. CASE Answer(r, "forbidden")
    BY <1>1, <1>3, AnswerInv
  <1> QED
    BY <1>2, <1>3 DEF Refuse

\* A handler that has found the post and goes on to save it.
LEMMA FoundInv ==
  ASSUME PInv, NEW r \in UpdateReqs \cup DeleteReqs, req[r].pc = "start",
         NEW p \in Posts, OwnLivePost(r, p), NEW t \in Texts \cup {None},
         req' = [req EXCEPT ![r] = [@ EXCEPT !.pc = "save", !.post = p, !.text = t]],
         UNCHANGED <<post, file, meta, job, faults>>
  PROVE  PInv'
  <1>0. /\ r \in Reqs /\ req \in [Reqs -> Request] /\ req[r] \in Request
        /\ faults' \in 0..MaxFail
    BY DEF PInv, TypeOK, Reqs
  <1>1. req' \in [Reqs -> Request]
    BY <1>0, RequestFields
  <1>2. /\ req'[r].pc = "save" /\ req'[r].post = p /\ req'[r].res = req[r].res
        /\ \A q \in Reqs : q # r => req'[q] = req[q]
    BY <1>0 DEF Request
  <1>3. req[r].res = "none"
    BY <1>0 DEF PInv, HandlersInv
  <1>4. HandlersInv'
    BY <1>0, <1>2, <1>3, PostsAssumption
    DEF PInv, HandlersInv, All, Reqs, Posts, OwnLivePost, Live
  <1>5. \A d \in DeleteReqs : req'[d].res = "ok" => \A n \in Photos : job[d][n] = "done"
    BY <1>2, <1>3 DEF PInv, DeletesInv, Reqs
  <1>6. \A q \in Reqs : req[q].pc \in {"files", "done"} =>
           req'[q].post = req[q].post /\ req'[q] = req[q]
    BY <1>2
  <1> QED
    BY <1>0, <1>1, <1>4, <1>5, <1>6, Quiet

LEMMA FindInv ==
  ASSUME PInv, NEW r \in Reqs,
         \/ r \in UpdateReqs /\ UpdateFind(r)
         \/ r \in DeleteReqs /\ DeleteFind(r)
  PROVE  PInv'
  <1>1. CASE r \in UpdateReqs /\ UpdateFind(r)
    <2>1. PICK p \in Posts, t \in Texts :
            \/ Refuse(r, p)
            \/ OwnLivePost(r, p) /\ t = post[p].text /\ Answer(r, "noChanges")
            \/ /\ OwnLivePost(r, p)
               /\ req' = [req EXCEPT ![r] = [@ EXCEPT !.pc = "save", !.post = p, !.text = t]]
      BY <1>1 DEF UpdateFind, Restored
    <2>2. req[r].pc = "start" /\ UNCHANGED <<post, file, meta, job, faults>>
      BY <1>1 DEF UpdateFind, Restored
    <2>3. CASE Answer(r, "noChanges")
      <3>1. faults' \in 0..MaxFail
        BY <2>2 DEF PInv, TypeOK
      <3> QED
        BY <2>2, <2>3, <3>1, AnswerInv
    <2> QED
      BY <1>1, <2>1, <2>2, <2>3, RefuseInv, FoundInv
  <1>2. CASE r \in DeleteReqs /\ DeleteFind(r)
    <2>1. PICK p \in Posts :
            \/ Refuse(r, p)
            \/ /\ OwnLivePost(r, p)
               /\ req' = [req EXCEPT ![r] = [@ EXCEPT !.pc = "save", !.post = p,
                                        !.text = post[p].text]]
      BY <1>2 DEF DeleteFind, Restored
    <2>2. /\ req[r].pc = "start" /\ UNCHANGED <<post, file, meta, job, faults>>
          /\ post[p].text \in Texts \cup {None}
      BY <1>2 DEF DeleteFind, Restored, PInv, TypeOK, PostRow
    <2> QED
      BY <1>2, <2>1, <2>2, RefuseInv, FoundInv
  <1> QED
    BY <1>1, <1>2

LEMMA DeleteReplyInv ==
  ASSUME PInv, NEW r \in DeleteReqs, DeleteReply(r)
  PROVE  PInv'
  <1>1. /\ r \in Reqs /\ req[r].pc = "files" /\ faults' \in 0..MaxFail
        /\ UNCHANGED <<post, file, meta, job>>
    BY DEF DeleteReply, PInv, TypeOK, Reqs
  <1> QED
    BY <1>1, AnswerInv DEF DeleteReply

LEMMA GatewayCrashInv ==
  ASSUME PInv, GatewayCrash
  PROVE  PInv'
  <1>0. /\ req \in [Reqs -> Request] /\ faults' \in 0..MaxFail
        /\ UNCHANGED <<post, file, meta, job>>
    BY FailType DEF GatewayCrash, PInv, TypeOK
  <1>1. req' \in [Reqs -> Request]
    BY <1>0, RequestFields DEF GatewayCrash
  <1>2. \A r \in Reqs :
          /\ req'[r].post = req[r].post
          /\ req[r].pc \in {"start", "done"} => req'[r] = req[r]
          /\ req[r].pc \notin {"start", "done"} => req'[r].pc = "done" /\ req'[r].res = "lost"
    BY <1>0 DEF GatewayCrash, Request
  <1>3. HandlersInv'
    BY <1>0, <1>2 DEF PInv, HandlersInv, All, Reqs, Posts
  <1>4. \A d \in DeleteReqs : req'[d].res = "ok" => \A n \in Photos : job[d][n] = "done"
    BY <1>2 DEF PInv, DeletesInv, Reqs
  <1> QED
    BY <1>0, <1>1, <1>2, <1>3, <1>4, Quiet
-----------------------------------------------------------------------------
(* Handlers that write a post *)

LEMMA CreateStartInv ==
  ASSUME PInv, NEW r \in CreateReqs, CreateStart(r)
  PROVE  PInv'
  <1>0. /\ r \in Reqs /\ r \in Rpcs /\ r \in Posts
        /\ req \in [Reqs -> Request] /\ req[r] \in Request /\ req[r].pc = "start"
        /\ UNCHANGED <<post, file, meta, faults>>
    BY DEF PInv, TypeOK, Reqs, Rpcs, Posts, CreateStart
  <1>1. PICK t \in Texts :
          req' = [req EXCEPT ![r] = [@ EXCEPT !.pc = "upload", !.post = r, !.text = t]]
    BY DEF CreateStart
  <1>2. req' \in [Reqs -> Request]
    BY <1>0, <1>1, RequestFields
  <1>3. /\ req'[r].pc = "upload" /\ req'[r].post = r /\ req'[r].res = req[r].res
        /\ \A q \in Reqs : q # r => req'[q] = req[q]
    BY <1>0, <1>1 DEF Request
  <1>4. /\ job' \in [Rpcs -> [Photos -> Stage]]
        /\ \A n \in Photos : job'[r][n] = "todo"
        /\ \A q \in Rpcs : q # r => job'[q] = job[q]
    BY <1>0, JobSet DEF CreateStart, Sent, Stage, PInv
  <1>5. TypeOK'
    BY <1>0, <1>2, <1>4 DEF PInv, TypeOK
  <1>6. HandlersInv'
    BY <1>0, <1>3, <1>4, PostsAssumption DEF PInv, HandlersInv, All, Reqs, Rpcs, Posts
  <1>7. UploadsInv' /\ NoPhotoLost'
    BY <1>0, <1>4 DEF PInv, UploadsInv, NoPhotoLost, HandlersInv, Here, Posts, Rpcs
  <1>8. \A d \in DeleteReqs : job'[d] = job[d] /\ req'[d] = req[d]
    BY <1>0, <1>3, <1>4, PostsAssumption DEF Reqs, Rpcs
  <1>9. \A p : BroughtBack(p)' = BroughtBack(p)
    BY <1>3, PostsAssumption DEF BroughtBack, Reqs
  <1>10. DeletesInv'
    BY <1>0, <1>8, <1>9 DEF PInv, DeletesInv, Here, Live
  <1> QED
    BY <1>5, <1>6, <1>7, <1>10 DEF PInv

LEMMA CreateSaveInv ==
  ASSUME PInv, NEW r \in CreateReqs, CreateSave(r)
  PROVE  PInv'
  <1>0. /\ r \in Reqs /\ r \in Posts /\ r \in Rpcs /\ req[r].pc = "upload"
        /\ req[r].text \in Texts \cup {None}
        /\ UNCHANGED <<file, meta, job, faults>> /\ faults' \in 0..MaxFail
        /\ r \notin DeleteReqs /\ r \notin UpdateReqs
    BY PostsAssumption DEF CreateSave, Save, Created, PInv, TypeOK, Request, Reqs, Posts, Rpcs
  <1>1. CASE Answer(r, "error") /\ UNCHANGED post
    BY <1>0, <1>1, AnswerInv
  <1>2. CASE /\ All(r, "done") /\ Answer(r, "ok")
             /\ post' = [post EXCEPT ![r] = [st |-> "live", text |-> req[r].text]]
    <2>1. /\ req' \in [Reqs -> Request]
          /\ req'[r].pc = "done" /\ req'[r].res = "ok" /\ req'[r].post = req[r].post
          /\ \A q \in Reqs : q # r => req'[q] = req[q]
      BY <1>0, <1>2, Answered DEF PInv
    <2>2. /\ post' \in [Posts -> PostRow] /\ post'[r].st = "live"
          /\ \A q \in Posts : q # r => post'[q] = post[q]
      BY <1>0, <1>2, PostStep DEF PInv, PostRow
    <2>3. post[r].st = "none"
      BY <1>0 DEF PInv, HandlersInv
    <2>4. TypeOK'
      BY <1>0, <2>1, <2>2 DEF PInv, TypeOK
    <2>5. HandlersInv'
      BY <1>0, <2>1, <2>2 DEF PInv, HandlersInv, All, Reqs, Posts
    <2>6. UploadsInv' /\ NoPhotoLost'
      BY <1>0, <1>2, <2>2, <2>3 DEF PInv, UploadsInv, NoPhotoLost, Here, All
    <2>7. \A p : BroughtBack(p)' = BroughtBack(p)
      BY <1>0, <2>1 DEF BroughtBack, Reqs
    <2>8. \A d \in DeleteReqs : req'[d] = req[d]
      BY <1>0, <2>1 DEF Reqs
    <2>9. DeletesInv'
      <3>1. \A n \in Photos : Here(r, n)
        BY <1>0, <1>2, <2>3 DEF PInv, UploadsInv, All
      <3> QED
        BY <1>0, <2>2, <2>3, <2>7, <2>8, <3>1 DEF PInv, DeletesInv, Here, Live
    <2> QED
      BY <2>4, <2>5, <2>6, <2>9 DEF PInv
  <1> QED
    BY <1>1, <1>2 DEF CreateSave, Save, Created

LEMMA UpdateSaveInv ==
  ASSUME PInv, NEW r \in UpdateReqs, UpdateSave(r)
  PROVE  PInv'
  <1> DEFINE p == req[r].post
  <1>0. /\ r \in Reqs /\ req[r].pc = "save" /\ p \in Posts /\ post[p].st # "none"
        /\ req[r].text \in Texts \cup {None} /\ r \notin DeleteReqs /\ r \notin CreateReqs
        /\ UNCHANGED <<file, meta, job>> /\ faults' \in 0..MaxFail
    BY PostsAssumption, FailType
    DEF UpdateSave, Save, WithDescription, PInv, HandlersInv, TypeOK, Request, Reqs
  <1>1. CASE Answer(r, "error") /\ UNCHANGED post
    BY <1>0, <1>1, AnswerInv
  <1>2. CASE /\ Answer(r, "ok")
             /\ post' = [post EXCEPT ![p] = [st |-> "live", text |-> req[r].text]]
    <2>1. /\ req' \in [Reqs -> Request]
          /\ req'[r].pc = "done" /\ req'[r].res = "ok" /\ req'[r].post = p
          /\ \A q \in Reqs : q # r => req'[q] = req[q]
      BY <1>0, <1>2, Answered DEF PInv
    <2>2. /\ post' \in [Posts -> PostRow] /\ post'[p].st = "live"
          /\ \A q \in Posts : q # p => post'[q] = post[q]
      BY <1>0, <1>2, PostStep DEF PInv, PostRow
    <2>3. TypeOK'
      BY <1>0, <2>1, <2>2 DEF PInv, TypeOK
    <2>4. HandlersInv'
      BY <1>0, <2>1, <2>2 DEF PInv, HandlersInv, All, Reqs, Posts
    <2>5. UploadsInv' /\ NoPhotoLost'
      BY <1>0, <2>2 DEF PInv, UploadsInv, NoPhotoLost, Here
    <2>6. BroughtBack(p)'
      BY <2>1 DEF BroughtBack
    <2>7. \A q : BroughtBack(q) => BroughtBack(q)'
      BY <1>0, <2>1 DEF BroughtBack, Reqs
    <2>8. \A d \in DeleteReqs : req'[d] = req[d]
      BY <1>0, <2>1 DEF Reqs
    <2>9. \A q \in Posts : /\ Live(q)' => Live(q) \/ q = p
                          /\ (post'[q].st = "none") = (post[q].st = "none")
      BY <1>0, <2>2 DEF Live
    <2>10. DeletesInv'
      <3>1. ASSUME NEW d \in DeleteReqs, NEW n \in Photos, job[d][n] # "idle"
            PROVE  /\ req[d].post \in Posts
                   /\ post'[req[d].post].st # "none"
                   /\ Live(req[d].post)' => BroughtBack(req[d].post)'
        <4>1. /\ req[d].post \in Posts
              /\ post[req[d].post].st # "none"
              /\ Live(req[d].post) => BroughtBack(req[d].post)
          BY <3>1 DEF PInv, DeletesInv
        <4> QED
          BY <2>1, <2>6, <2>7, <2>8, <2>9, <4>1
      <3>2. ASSUME NEW q \in Posts, NEW n \in Photos, post'[q].st # "none", ~Here(q, n)'
            PROVE  \E d \in DeleteReqs : req'[d].post = q /\ job'[d][n] # "idle"
        <4>1. post[q].st # "none" /\ ~Here(q, n)
          BY <1>0, <2>9, <3>2 DEF Here
        <4>2. PICK d \in DeleteReqs : req[d].post = q /\ job[d][n] # "idle"
          BY <4>1 DEF PInv, DeletesInv
        <4> QED
          BY <1>0, <2>8, <4>2
      <3>3. ASSUME NEW d \in DeleteReqs, NEW n \in Photos
            PROVE  /\ job[d][n] \in {"moved", "gone", "done", "fewer"} =>
                         file[req[d].post][n].trash
                   /\ job[d][n] \in {"gone", "done", "fewer"} => ~Here(req[d].post, n)
                   /\ job[d][n] = "done" => meta[req[d].post][n] = "deleted"
                   /\ req[d].res = "ok" => job[d][n] = "done"
        BY DEF PInv, DeletesInv
      <3> QED
        BY <1>0, <2>8, <3>1, <3>2, <3>3 DEF DeletesInv, Here
    <2> QED
      BY <2>3, <2>4, <2>5, <2>10 DEF PInv
  <1> QED
    BY <1>1, <1>2 DEF UpdateSave, Save, WithDescription

LEMMA DeleteSaveInv ==
  ASSUME PInv, NEW r \in DeleteReqs, DeleteSave(r)
  PROVE  PInv'
  <1> DEFINE p == req[r].post
  <1>0. /\ r \in Reqs /\ r \in Rpcs /\ req[r].pc = "save" /\ req[r] \in Request
        /\ p \in Posts /\ post[p].st # "none"
        /\ req[r].text \in Texts \cup {None} /\ r \notin UpdateReqs /\ r \notin CreateReqs
        /\ UNCHANGED <<file, meta>> /\ faults' \in 0..MaxFail
        /\ req \in [Reqs -> Request] /\ req[r].res = "none"
    BY PostsAssumption, FailType
    DEF DeleteSave, Save, MarkedDeleted, PInv, HandlersInv, TypeOK, Request, Reqs, Rpcs
  <1>1. CASE Answer(r, "error") /\ UNCHANGED <<post, job>>
    BY <1>0, <1>1, AnswerInv
  <1>2. CASE /\ req' = [req EXCEPT ![r].pc = "files"]
             /\ post' = [post EXCEPT ![p] = [st |-> "deleted", text |-> req[r].text]]
             /\ job' = [job EXCEPT ![r] = Sent]
    <2>1. req' \in [Reqs -> Request]
      BY <1>0, <1>2, RequestFields
    <2>2. /\ req'[r].pc = "files" /\ req'[r].res = "none" /\ req'[r].post = p
          /\ \A q \in Reqs : q # r => req'[q] = req[q]
      BY <1>0, <1>2 DEF Request
    <2>3. /\ post' \in [Posts -> PostRow] /\ post'[p].st = "deleted"
          /\ \A q \in Posts : q # p => post'[q] = post[q]
      BY <1>0, <1>2, PostStep DEF PInv, PostRow
    <2>4. /\ job' \in [Rpcs -> [Photos -> Stage]]
          /\ \A n \in Photos : job'[r][n] = "todo"
          /\ \A q \in Rpcs : q # r => job'[q] = job[q]
      BY <1>0, <1>2, JobSet DEF Sent, Stage, PInv
    <2>5. TypeOK'
      BY <1>0, <2>1, <2>3, <2>4 DEF PInv, TypeOK
    <2>6a. /\ \A q \in Posts : (post'[q].st = "none") = (post[q].st = "none")
           /\ \A q \in CreateReqs \cup DeleteReqs : q # r => All(q, "idle")' = All(q, "idle")
           /\ r \notin CreateReqs
      BY <1>0, <2>3, <2>4 DEF All, Rpcs
    <2>6. HandlersInv'
      BY <1>0, <2>2, <2>6a DEF PInv, HandlersInv, Reqs, Posts
    <2>7. UploadsInv' /\ NoPhotoLost'
      <3>1. \A q \in Posts : job'[q] = job[q]
        BY <1>0, <2>4 DEF Posts, Rpcs
      <3> QED
        BY <1>0, <2>6a, <3>1 DEF PInv, UploadsInv, NoPhotoLost, Here
    <2>8. \A q : BroughtBack(q)' = BroughtBack(q)
      BY <1>0, <2>2 DEF BroughtBack, Reqs
    <2>9. \A d \in DeleteReqs :
             /\ req'[d].post = req[d].post /\ req'[d].res = req[d].res
             /\ d # r => job'[d] = job[d]
      BY <1>0, <2>2, <2>4 DEF Reqs, Rpcs
    <2>10. \A n \in Photos : job[r][n] = "idle"
      BY <1>0 DEF PInv, HandlersInv, All
    <2>11. DeletesInv'
      BY <1>0, <2>3, <2>4, <2>8, <2>9, <2>10 DEF PInv, DeletesInv, Here, Live
    <2> QED
      BY <2>5, <2>6, <2>7, <2>11 DEF PInv
  <1> QED
    BY <1>1, <1>2 DEF DeleteSave, Save, MarkedDeleted
-----------------------------------------------------------------------------
(* The storage service *)

\* One file of an upload.
LEMMA UploadStepInv ==
  ASSUME PInv, NEW r \in CreateReqs, NEW n \in Photos,
         PutObject(r, n) \/ SaveMetadata(r, n)
  PROVE  PInv'
  <1>0. /\ r \in Posts /\ r \in Rpcs /\ r \notin DeleteReqs
        /\ UNCHANGED <<post, req>> /\ faults' \in 0..MaxFail
        /\ job[r][n] \in {"todo", "moved"}
    BY PostsAssumption, FailType DEF PutObject, SaveMetadata, Posts, Rpcs, PInv, TypeOK
  <1>1. post[r].st = "none"
    BY <1>0 DEF PInv, UploadsInv
  <1>2. PICK s \in {"moved", "done", "failed"} :
          /\ job' = [job EXCEPT ![r][n] = s]
          /\ \/ /\ s = "moved" /\ UNCHANGED meta
                /\ file' = [file EXCEPT ![r][n].here = TRUE]
             \/ /\ s = "done" /\ job[r][n] = "moved" /\ UNCHANGED file
                /\ meta' = [meta EXCEPT ![r][n] = "live"]
             \/ s = "failed" /\ UNCHANGED <<file, meta>>
    BY DEF PutObject, SaveMetadata
  <1>3. /\ job' \in [Rpcs -> [Photos -> Stage]]
        /\ job'[r][n] = s
        /\ \A q \in Rpcs, m \in Photos : q # r \/ m # n => job'[q][m] = job[q][m]
    BY <1>0, <1>2, JobStep DEF Stage, PInv
  <1>4. /\ file' \in Bucket
        /\ meta' \in [Posts -> [Photos -> {"none", "live", "deleted"}]]
        /\ \A q \in Posts : q # r => file'[q] = file[q] /\ meta'[q] = meta[q]
        /\ \A m \in Photos : Here(r, m) => Here(r, m)'
        /\ s \in {"moved", "done"} => Here(r, n)'
    <2>1. CASE s = "failed" /\ UNCHANGED <<file, meta>>
      BY <2>1 DEF PInv, TypeOK, Here, Bucket
    <2>2. CASE file' = [file EXCEPT ![r][n].here = TRUE] /\ UNCHANGED meta
      <3>1. /\ file' \in Bucket /\ file'[r][n].here = TRUE
            /\ \A q \in Posts, m \in Photos : q # r \/ m # n => file'[q][m] = file[q][m]
        BY <1>0, <2>2, PutHere DEF PInv
      <3>2. \A q \in Posts : q # r => file'[q] = file[q]
        BY <1>0, <2>2 DEF PInv, TypeOK
      <3>3. meta' \in [Posts -> [Photos -> {"none", "live", "deleted"}]] /\ meta' = meta
        BY <2>2 DEF PInv, TypeOK
      <3>4. \A m \in Photos : Here(r, m) => Here(r, m)'
        BY <1>0, <3>1 DEF Here
      <3>5. Here(r, n)'
        BY <3>1 DEF Here
      <3> QED
        BY <3>1, <3>2, <3>3, <3>4, <3>5
    <2>3. CASE /\ job[r][n] = "moved" /\ UNCHANGED file
               /\ meta' = [meta EXCEPT ![r][n] = "live"]
      BY <1>0, <1>1, <2>3 DEF PInv, UploadsInv, TypeOK, Here, Bucket
    <2> QED
      BY <1>2, <2>1, <2>2, <2>3
  <1>5. TypeOK'
    BY <1>0, <1>3, <1>4 DEF PInv, TypeOK, Bucket
  <1>6. HandlersInv'
    <2>1. \A q \in Rpcs : q # r => All(q, "idle")' = All(q, "idle")
      BY <1>3 DEF All
    <2>2. r \in Reqs /\ req[r].pc # "start"
      BY <1>0 DEF PInv, HandlersInv, All, Reqs
    <2> QED
      BY <1>0, <2>1, <2>2 DEF PInv, HandlersInv, Rpcs
  <1>7. UploadsInv'
    <2>1. ASSUME NEW q \in Posts, NEW m \in Photos, q # r
          PROVE  job'[q][m] = job[q][m] /\ file'[q] = file[q]
      BY <1>3, <1>4, <2>1 DEF Posts, Rpcs
    <2>2. ASSUME NEW m \in Photos, job'[r][m] \in {"moved", "done"}
          PROVE  Here(r, m)'
      <3>1. CASE m = n
        BY <1>3, <1>4, <2>2, <3>1
      <3>2. CASE m # n
        BY <1>0, <1>1, <1>3, <1>4, <2>2, <3>2 DEF PInv, UploadsInv
      <3> QED
        BY <3>1, <3>2
    <2>3. \A q \in Posts, m \in Photos : q # r =>
             /\ post[q].st # "none" => job[q][m] = "done"
             /\ post[q].st = "none" /\ job[q][m] \in {"moved", "done"} => Here(q, m)
      BY DEF PInv, UploadsInv
    <2> QED
      BY <1>0, <1>1, <2>1, <2>2, <2>3 DEF UploadsInv, Here
  <1>8. NoPhotoLost'
    BY <1>0, <1>1, <1>4 DEF PInv, NoPhotoLost, Here
  <1>9. DeletesInv'
    <2>1. \A d \in DeleteReqs, m \in Photos : job'[d][m] = job[d][m]
      BY <1>0, <1>3 DEF Rpcs
    <2>2. \A q \in Posts : post[q].st # "none" => file'[q] = file[q] /\ meta'[q] = meta[q]
      BY <1>1, <1>4
    <2>3. \A q : BroughtBack(q)' = BroughtBack(q)
      BY <1>0 DEF BroughtBack
    <2>4. \A d \in DeleteReqs, m \in Photos : job[d][m] # "idle" =>
             req[d].post \in Posts /\ post[req[d].post].st # "none"
      BY DEF PInv, DeletesInv
    <2> QED
      BY <1>0, <2>1, <2>2, <2>3, <2>4 DEF PInv, DeletesInv, Here, Live
  <1> QED
    BY <1>5, <1>6, <1>7, <1>8, <1>9 DEF PInv

\* One file of a deletion.
LEMMA DeleteStepInv ==
  ASSUME PInv, NEW r \in DeleteReqs, NEW n \in Photos,
         CopyObject(r, n) \/ DeleteObject(r, n)
  PROVE  PInv'
  <1> DEFINE p == req[r].post
  <1>0. /\ r \in Rpcs /\ r \notin CreateReqs /\ r \in Reqs
        /\ UNCHANGED <<post, meta, req>> /\ faults' \in 0..MaxFail
        /\ job[r][n] \in {"todo", "moved"}
        /\ p \in Posts /\ post[p].st # "none"
    BY PostsAssumption, FailType
    DEF CopyObject, DeleteObject, Rpcs, Reqs, PInv, TypeOK, DeletesInv
  <1>2. PICK s \in {"moved", "gone", "failed"} :
          /\ job' = [job EXCEPT ![r][n] = s]
          /\ \/ s = "moved" /\ file' = [file EXCEPT ![p][n].trash = TRUE]
             \/ /\ s = "gone" /\ job[r][n] = "moved"
                /\ file' = [file EXCEPT ![p][n].here = FALSE]
             \/ s = "failed" /\ UNCHANGED file
    BY DEF CopyObject, DeleteObject
  <1>3. /\ job' \in [Rpcs -> [Photos -> Stage]]
        /\ job'[r][n] = s
        /\ \A q \in Rpcs, m \in Photos : q # r \/ m # n => job'[q][m] = job[q][m]
    BY <1>0, <1>2, JobStep DEF Stage, PInv
  <1>4. /\ file' \in Bucket
        /\ \A q \in Posts, m \in Photos :
             /\ q # p \/ m # n => file'[q][m] = file[q][m]
             /\ file[q][m].trash => file'[q][m].trash
             /\ Here(q, m)' => Here(q, m)
        /\ s \in {"moved", "gone"} => file'[p][n].trash
        /\ s = "gone" => ~Here(p, n)'
        /\ ~Here(p, n)' => ~Here(p, n) \/ s = "gone"
    <2>1. job[r][n] = "moved" => file[p][n].trash
      BY <1>0 DEF PInv, DeletesInv
    <2>2. CASE s = "failed" /\ UNCHANGED file
      <3>1. file' = file /\ file' \in Bucket
        BY <2>2 DEF PInv, TypeOK, Bucket
      <3> QED
        BY <1>0, <2>2, <3>1 DEF Here
    <2>3. CASE s = "moved" /\ file' = [file EXCEPT ![p][n].trash = TRUE]
      <3>1. /\ file' \in Bucket
            /\ \A q \in Posts, m \in Photos : q # p \/ m # n => file'[q][m] = file[q][m]
            /\ file'[p][n].trash = TRUE /\ file'[p][n].here = file[p][n].here
        BY <1>0, <2>3, PutTrash DEF PInv
      <3> QED
        BY <1>0, <2>3, <3>1 DEF Here
    <2>4. CASE /\ s = "gone" /\ job[r][n] = "moved"
               /\ file' = [file EXCEPT ![p][n].here = FALSE]
      <3>1. /\ file' \in Bucket
            /\ \A q \in Posts, m \in Photos : q # p \/ m # n => file'[q][m] = file[q][m]
            /\ file'[p][n].here = FALSE /\ file'[p][n].trash = file[p][n].trash
        BY <1>0, <2>4, PutHere DEF PInv
      <3> QED
        BY <1>0, <2>1, <2>4, <3>1 DEF Here
    <2> QED
      BY <1>2, <2>2, <2>3, <2>4
  <1>5. TypeOK'
    BY <1>0, <1>3, <1>4 DEF PInv, TypeOK, Bucket
  <1>6. HandlersInv'
    <2>1. \A q \in Rpcs : q # r => All(q, "idle")' = All(q, "idle")
      BY <1>3 DEF All
    <2>2. req[r].pc \notin {"start", "save"}
      BY <1>0 DEF PInv, HandlersInv, All
    <2> QED
      BY <1>0, <2>1, <2>2 DEF PInv, HandlersInv, Rpcs
  <1>7. UploadsInv'
    <2>1. \A q \in Posts, m \in Photos : job'[q][m] = job[q][m]
      BY <1>0, <1>3 DEF Posts, Rpcs
    <2>2. \A q \in Posts, m \in Photos : post[q].st = "none" => file'[q][m] = file[q][m]
      BY <1>0, <1>4
    <2> QED
      BY <1>0, <2>1, <2>2 DEF PInv, UploadsInv, Here
  <1>8. NoPhotoLost'
    <2> SUFFICES ASSUME NEW q \in Posts, NEW m \in Photos, post[q].st # "none", ~Here(q, m)'
                 PROVE  file'[q][m].trash
      BY <1>0 DEF NoPhotoLost
    <2>1. CASE q = p /\ m = n
      BY <1>0, <1>4, <2>1 DEF PInv, NoPhotoLost
    <2>2. CASE ~(q = p /\ m = n)
      BY <1>4, <2>2 DEF PInv, NoPhotoLost, Here
    <2> QED
      BY <2>1, <2>2
  <1>9. DeletesInv'
    <2>1. \A q : BroughtBack(q)' = BroughtBack(q)
      BY <1>0 DEF BroughtBack
    <2>2. ASSUME NEW d \in DeleteReqs, NEW m \in Photos, d # r \/ m # n
          PROVE  job'[d][m] = job[d][m]
      BY <1>3, <2>2 DEF Rpcs
    <2>3. ASSUME NEW d \in DeleteReqs, NEW m \in Photos
          PROVE  /\ job'[d][m] # "idle" =>
                      /\ req[d].post \in Posts
                      /\ post[req[d].post].st # "none"
                      /\ Live(req[d].post) => BroughtBack(req[d].post)
                 /\ job'[d][m] \in {"moved", "gone", "done", "fewer"} =>
                      file'[req[d].post][m].trash
                 /\ job'[d][m] \in {"gone", "done", "fewer"} => ~Here(req[d].post, m)'
                 /\ job'[d][m] = "done" => meta[req[d].post][m] = "deleted"
                 /\ req[d].res = "ok" => job'[d][m] = "done"
      <3>1. CASE d = r /\ m = n
        BY <1>0, <1>3, <1>4, <3>1 DEF PInv, DeletesInv
      <3>2. CASE d # r \/ m # n
        BY <1>0, <1>4, <2>2, <3>2 DEF PInv, DeletesInv
      <3> QED
        BY <3>1, <3>2
    <2>4. ASSUME NEW q \in Posts, NEW m \in Photos, post[q].st # "none", ~Here(q, m)'
          PROVE  \E d \in DeleteReqs : req[d].post = q /\ job'[d][m] # "idle"
      <3>1. CASE q = p /\ m = n
        BY <1>3, <3>1
      <3>2. CASE ~(q = p /\ m = n)
        <4>1. ~Here(q, m)
          BY <1>4, <2>4, <3>2 DEF Here
        <4>2. PICK d \in DeleteReqs : req[d].post = q /\ job[d][m] # "idle"
          BY <2>4, <4>1 DEF PInv, DeletesInv
        <4>3. job'[d][m] # "idle"
          BY <1>3, <2>2, <4>2
        <4> QED
          BY <4>2, <4>3
      <3> QED
        BY <3>1, <3>2
    <2> QED
      BY <1>0, <2>1, <2>3, <2>4 DEF DeletesInv, Live
  <1> QED
    BY <1>5, <1>6, <1>7, <1>8, <1>9 DEF PInv

\* The last step of a deletion: the documents are marked, or the call fails.
LEMMA MarkMetadataInv ==
  ASSUME PInv, NEW r \in DeleteReqs, MarkMetadata(r)
  PROVE  PInv'
  <1> DEFINE p == req[r].post
  <1>0. /\ r \in Rpcs /\ r \notin CreateReqs /\ r \in Reqs
        /\ UNCHANGED <<post, file, req>> /\ faults' \in 0..MaxFail
        /\ \A n \in Photos : job[r][n] = "gone"
    BY PostsAssumption, FailType DEF MarkMetadata, Rpcs, Reqs, PInv, TypeOK, All
  <1>1. /\ p \in Posts /\ post[p].st # "none"
        /\ \A n \in Photos : file[p][n].trash /\ ~Here(p, n)
    BY <1>0, PostsAssumption DEF PInv, DeletesInv
  <1>2. PICK s \in {"done", "fewer", "failed"} :
          /\ job' = [job EXCEPT ![r] = [n \in Photos |-> s]]
          /\ \/ /\ meta' = [meta EXCEPT ![p] =
                              [n \in Photos |-> IF @[n] = "live" THEN "deleted" ELSE @[n]]]
                /\ s = "done" => \A n \in Photos : meta[p][n] = "live"
             \/ s = "failed" /\ UNCHANGED meta
    <2> DEFINE modified == \A n \in Photos : meta[p][n] = "live"
    <2>1. CASE modified
      BY <2>1 DEF MarkMetadata
    <2>2. CASE ~modified
      BY <2>2 DEF MarkMetadata
    <2> QED
      BY <2>1, <2>2
  <1>3. /\ job' \in [Rpcs -> [Photos -> Stage]]
        /\ \A n \in Photos : job'[r][n] = s
        /\ \A q \in Rpcs : q # r => job'[q] = job[q]
    BY <1>0, <1>2, JobSet DEF Stage, PInv
  <1>4. /\ meta' \in [Posts -> [Photos -> {"none", "live", "deleted"}]]
        /\ \A q \in Posts, n \in Photos :
             meta[q][n] = "deleted" => meta'[q][n] = "deleted"
        /\ s = "done" => \A n \in Photos : meta'[p][n] = "deleted"
    <2>1. meta \in [Posts -> [Photos -> {"none", "live", "deleted"}]]
      BY DEF PInv, TypeOK
    <2>2. CASE s = "failed" /\ UNCHANGED meta
      BY <2>1, <2>2
    <2>3. CASE /\ meta' = [meta EXCEPT ![p] =
                            [n \in Photos |-> IF @[n] = "live" THEN "deleted" ELSE @[n]]]
               /\ s = "done" => \A n \in Photos : meta[p][n] = "live"
      <3> DEFINE marked == [n \in Photos |-> IF meta[p][n] = "live" THEN "deleted"
                                             ELSE meta[p][n]]
      <3>1. marked \in [Photos -> {"none", "live", "deleted"}]
        BY <1>1, <2>1
      <3>2. meta' = [meta EXCEPT ![p] = marked]
        BY <2>3
      <3>3. /\ \A n \in Photos : meta[p][n] \in {"live", "deleted"} => marked[n] = "deleted"
            /\ meta'[p] = marked /\ \A q \in Posts : q # p => meta'[q] = meta[q]
            /\ meta' \in [Posts -> [Photos -> {"none", "live", "deleted"}]]
        BY <1>1, <2>1, <3>1, <3>2
      <3> QED
        BY <1>1, <2>3, <3>3
    <2> QED
      BY <1>2, <2>2, <2>3
  <1>5. TypeOK'
    BY <1>0, <1>3, <1>4 DEF PInv, TypeOK
  <1>6. HandlersInv'
    <2>1. \A q \in Rpcs : q # r => All(q, "idle")' = All(q, "idle")
      BY <1>3 DEF All
    <2>2. req[r].pc \notin {"start", "save"}
      BY <1>0, PostsAssumption DEF PInv, HandlersInv, All
    <2> QED
      BY <1>0, <2>1, <2>2 DEF PInv, HandlersInv, Rpcs
  <1>7. UploadsInv' /\ NoPhotoLost'
    <2>1. \A q \in Posts : job'[q] = job[q]
      BY <1>0, <1>3 DEF Posts, Rpcs
    <2> QED
      BY <1>0, <2>1 DEF PInv, UploadsInv, NoPhotoLost, Here
  <1>8. DeletesInv'
    <2>1. \A q : BroughtBack(q)' = BroughtBack(q)
      BY <1>0 DEF BroughtBack
    <2>2. ASSUME NEW d \in DeleteReqs, NEW m \in Photos
          PROVE  /\ job'[d][m] # "idle" =>
                      /\ req[d].post \in Posts
                      /\ post[req[d].post].st # "none"
                      /\ Live(req[d].post) => BroughtBack(req[d].post)
                 /\ job'[d][m] \in {"moved", "gone", "done", "fewer"} =>
                      file[req[d].post][m].trash
                 /\ job'[d][m] \in {"gone", "done", "fewer"} => ~Here(req[d].post, m)
                 /\ job'[d][m] = "done" => meta'[req[d].post][m] = "deleted"
                 /\ req[d].res = "ok" => job'[d][m] = "done"
      <3>1. /\ req[d].res = "ok" => job[d][m] = "done"
            /\ job[d][m] # "idle" =>
                 /\ req[d].post \in Posts
                 /\ post[req[d].post].st # "none"
                 /\ Live(req[d].post) => BroughtBack(req[d].post)
            /\ job[d][m] \in {"moved", "gone", "done", "fewer"} =>
                 file[req[d].post][m].trash
            /\ job[d][m] \in {"gone", "done", "fewer"} => ~Here(req[d].post, m)
            /\ job[d][m] = "done" => meta[req[d].post][m] = "deleted"
        BY DEF PInv, DeletesInv
      <3>2. CASE d = r
        BY <1>0, <1>1, <1>3, <1>4, <3>1, <3>2
      <3>3. CASE d # r
        <4>1. job'[d] = job[d]
          BY <1>3, <3>3 DEF Rpcs
        <4> QED
          BY <1>4, <3>1, <4>1
      <3> QED
        BY <3>2, <3>3
    <2>3. ASSUME NEW q \in Posts, NEW m \in Photos, post[q].st # "none", ~Here(q, m)
          PROVE  \E d \in DeleteReqs : req[d].post = q /\ job'[d][m] # "idle"
      <3>1. PICK d \in DeleteReqs : req[d].post = q /\ job[d][m] # "idle"
        BY <2>3 DEF PInv, DeletesInv
      <3>2. job'[d][m] # "idle"
        BY <1>3, <3>1 DEF Rpcs
      <3> QED
        BY <3>1, <3>2
    <2>4. \A q, m : Here(q, m)' = Here(q, m)
      BY <1>0 DEF Here
    <2> QED
      BY <1>0, <2>1, <2>2, <2>3, <2>4 DEF DeletesInv, Live
  <1> QED
    BY <1>5, <1>6, <1>7, <1>8 DEF PInv

\* A restart of the storage service fails what was under way.
LEMMA StorageCrashInv ==
  ASSUME PInv, StorageCrash
  PROVE  PInv'
  <1>0. UNCHANGED <<post, file, meta, req>> /\ faults' \in 0..MaxFail
    BY FailType DEF StorageCrash, PInv
  <1>1. /\ job' \in [Rpcs -> [Photos -> Stage]]
        /\ \A r \in Rpcs, n \in Photos :
             /\ job[r][n] \in {"todo", "moved", "gone"} => job'[r][n] = "failed"
             /\ job[r][n] \notin {"todo", "moved", "gone"} => job'[r][n] = job[r][n]
    BY DEF StorageCrash, PInv, TypeOK, Stage
  <1>2. TypeOK'
    BY <1>0, <1>1 DEF PInv, TypeOK
  <1>3. HandlersInv'
    <2>1. \A r \in Rpcs : All(r, "idle") => All(r, "idle")'
      BY <1>1 DEF All
    <2> QED
      BY <1>0, <2>1 DEF PInv, HandlersInv, Rpcs
  <1>4. UploadsInv' /\ NoPhotoLost'
    <2>1. \A q \in Posts, m \in Photos :
             job'[q][m] = job[q][m] \/ (job[q][m] # "done" /\ job'[q][m] = "failed")
      <3> SUFFICES ASSUME NEW q \in Posts, NEW m \in Photos
                   PROVE  job'[q][m] = job[q][m] \/ (job[q][m] # "done" /\ job'[q][m] = "failed")
        OBVIOUS
      <3>1. q \in Rpcs
        BY DEF Posts, Rpcs
      <3>2. CASE job[q][m] \in {"todo", "moved", "gone"}
        BY <1>1, <3>1, <3>2
      <3>3. CASE job[q][m] \notin {"todo", "moved", "gone"}
        BY <1>1, <3>1, <3>3
      <3> QED
        BY <3>2, <3>3
    <2> QED
      BY <1>0, <2>1 DEF PInv, UploadsInv, NoPhotoLost, Here
  <1>5. DeletesInv'
    <2>1. \A q : BroughtBack(q)' = BroughtBack(q)
      BY <1>0 DEF BroughtBack
    <2>2. \A d \in DeleteReqs, m \in Photos :
             /\ (job'[d][m] # "idle") = (job[d][m] # "idle")
             /\ \A s \in {"moved", "gone", "done", "fewer"} : job'[d][m] = s => job[d][m] = s
             /\ job[d][m] = "done" => job'[d][m] = "done"
      BY <1>1 DEF Rpcs
    <2>3. \A q, m : Here(q, m)' = Here(q, m)
      BY <1>0 DEF Here
    <2> QED
      BY <1>0, <2>1, <2>2, <2>3 DEF PInv, DeletesInv, Live
  <1> QED
    BY <1>2, <1>3, <1>4, <1>5 DEF PInv
-----------------------------------------------------------------------------
LEMMA NextInv == PInv /\ [Next]_vars => PInv'
  <1> SUFFICES ASSUME PInv, [Next]_vars PROVE PInv'
    OBVIOUS
  <1>1. ASSUME NEW r \in CreateReqs, Create(r) PROVE PInv'
    BY <1>1, CreateStartInv, CreateSaveInv DEF Create
  <1>2. ASSUME NEW r \in UpdateReqs, UpdatePost(r) PROVE PInv'
    BY <1>2, FindInv, UpdateSaveInv DEF UpdatePost, Reqs
  <1>3. ASSUME NEW r \in DeleteReqs, DeletePost(r) PROVE PInv'
    BY <1>3, FindInv, DeleteSaveInv, DeleteReplyInv DEF DeletePost, Reqs
  <1>4. ASSUME NEW r \in CreateReqs, NEW n \in Photos, PutObject(r, n) \/ SaveMetadata(r, n)
        PROVE  PInv'
    BY <1>4, UploadStepInv
  <1>5. ASSUME NEW r \in DeleteReqs, NEW n \in Photos,
               CopyObject(r, n) \/ DeleteObject(r, n)
        PROVE  PInv'
    BY <1>5, DeleteStepInv
  <1>6. ASSUME NEW r \in DeleteReqs, MarkMetadata(r) PROVE PInv'
    BY <1>6, MarkMetadataInv
  <1>7. CASE GatewayCrash
    BY <1>7, GatewayCrashInv
  <1>8. CASE StorageCrash
    BY <1>8, StorageCrashInv
  <1>9. CASE UNCHANGED vars
    BY <1>9 DEF vars, PInv, TypeOK, HandlersInv, UploadsInv, DeletesInv, NoPhotoLost,
                All, Here, Live, BroughtBack
  <1> QED
    BY <1>1, <1>2, <1>3, <1>4, <1>5, <1>6, <1>7, <1>8, <1>9 DEF Next

\* What handlers hold, what each stage of an upload and of a deletion has done.
THEOREM PostsInvariant == Spec => []PInv
  BY InitInv, NextInv, PTL DEF Spec

\* However deletions, updates, failures and restarts overlap, no photo of a
\* post vanishes: deleteFile copies it before it removes it.
THEOREM PhotosAreKept == Spec => []NoPhotoLost
  <1>1. PInv => NoPhotoLost
    BY DEF PInv
  <1> QED
    BY <1>1, PostsInvariant, PTL

\* A post is shown without its photos only if a stale update brought it back.
THEOREM ShownPhotosAreThere == Spec => []ShownPhotosExist
  <1>1. PInv => ShownPhotosExist
    <2> SUFFICES ASSUME PInv, NEW p \in Posts, NEW n \in Photos, Live(p), ~Here(p, n)
                 PROVE  BroughtBack(p)
      BY DEF ShownPhotosExist
    <2>1. PICK d \in DeleteReqs : req[d].post = p /\ job[d][n] # "idle"
      BY DEF PInv, DeletesInv, Live
    <2> QED
      BY <2>1 DEF PInv, DeletesInv
  <1> QED
    BY <1>1, PostsInvariant, PTL

-----------------------------------------------------------------------------
(* Files left behind *)

\* While nothing has failed, no step fails.
LEMMA NothingFails ==
  ASSUME TypeOK, Next, faults' = MaxFail
  PROVE  faults = MaxFail /\ ~Fail
  <1>1. faults \in 0..MaxFail /\ MaxFail \in Nat
    BY PostsAssumption DEF TypeOK
  <1>2. ~Fail
    BY <1>1 DEF Fail
  <1> QED
    BY <1>2 DEF Next, Create, CreateStart, CreateSave, UpdatePost, UpdateFind, UpdateSave,
        DeletePost, DeleteFind, DeleteSave, DeleteReply, PutObject, SaveMetadata, CopyObject,
        DeleteObject, MarkMetadata, GatewayCrash, StorageCrash

\* A deletion that has p's file in its hands.
Handles(d, p, n) == req[d].post = p /\ job[d][n] \in {"todo", "moved"}

\* It keeps it when another request's handler moves.
LEMMA StillHandles ==
  ASSUME TypeOK, NEW d \in DeleteReqs, NEW p \in Posts, NEW n \in Photos, Handles(d, p, n),
         req'[d].post = req[d].post, job'[d][n] = job[d][n]
  PROVE  Handles(d, p, n)'
  BY DEF Handles

LEMMA OrphansStep ==
  ASSUME FilesInv, Next, ~Fail, NEW p \in Posts, NEW n \in Photos,
         post'[p].st = "deleted", Here(p, n)',
         post[p].st = "deleted" /\ Here(p, n) => \E d \in DeleteReqs : Handles(d, p, n)
  PROVE  \E d \in DeleteReqs : Handles(d, p, n)'
  <1>0. /\ PInv /\ TypeOK /\ req \in [Reqs -> Request] /\ post \in [Posts -> PostRow]
        /\ job \in [Rpcs -> [Photos -> Stage]]
        /\ \A r \in DeleteReqs : r \in Reqs /\ r \in Rpcs /\ r \notin CreateReqs \cup UpdateReqs
        /\ \A r \in CreateReqs : r \in Reqs /\ r \in Rpcs /\ r \in Posts
        /\ \A r \in UpdateReqs : r \in Reqs
    BY PostsAssumption DEF FilesInv, PInv, TypeOK, Reqs, Rpcs, Posts
  <1>a. ASSUME post[p].st = "deleted", Here(p, n),
               \A d \in DeleteReqs : Handles(d, p, n) => Handles(d, p, n)'
        PROVE  \E d \in DeleteReqs : Handles(d, p, n)'
    BY <1>a
  \* A deletion that has a file in its hands is past its save.
  <1>b. ASSUME NEW d \in DeleteReqs, Handles(d, p, n) PROVE req[d].pc \notin {"start", "save"}
    BY <1>0, <1>b DEF Handles, PInv, HandlersInv, All
  <1>1. ASSUME NEW r \in CreateReqs, CreateStart(r) PROVE \E d \in DeleteReqs : Handles(d, p, n)'
    <2>1. \A d \in DeleteReqs : d # r /\ req'[d] = req[d] /\ job'[d] = job[d]
      BY <1>0, <1>1 DEF CreateStart
    <2> QED
      BY <1>0, <1>1, <1>a, <2>1, StillHandles DEF CreateStart, Here
  <1>2. ASSUME NEW r \in CreateReqs, CreateSave(r) PROVE \E d \in DeleteReqs : Handles(d, p, n)'
    <2>1. post[p].st = "deleted"
      BY <1>0, <1>2 DEF CreateSave, Save, Created
    <2>2. \A d \in DeleteReqs : d # r /\ req'[d] = req[d] /\ job'[d] = job[d]
      BY <1>0, <1>2 DEF CreateSave, Answer
    <2> QED
      BY <1>0, <1>2, <1>a, <2>1, <2>2, StillHandles DEF CreateSave, Here
  <1>3. ASSUME NEW r \in UpdateReqs, UpdatePost(r) PROVE \E d \in DeleteReqs : Handles(d, p, n)'
    <2>1. post[p].st = "deleted"
      BY <1>0, <1>3 DEF UpdatePost, UpdateFind, UpdateSave, Save, WithDescription
    <2>2. \A d \in DeleteReqs : d # r /\ req'[d] = req[d] /\ job'[d] = job[d]
      BY <1>0, <1>3 DEF UpdatePost, UpdateFind, UpdateSave, Refuse, Restored, Answer
    <2>3. UNCHANGED file
      BY <1>3 DEF UpdatePost, UpdateFind, UpdateSave
    <2> QED
      BY <1>0, <1>a, <2>1, <2>2, <2>3, StillHandles DEF Here
  <1>4. ASSUME NEW r \in DeleteReqs, DeleteFind(r) \/ DeleteReply(r)
        PROVE  \E d \in DeleteReqs : Handles(d, p, n)'
    <2>1. UNCHANGED <<post, file, job>>
      BY <1>4 DEF DeleteFind, DeleteReply
    <2>2. \A d \in DeleteReqs \ {r} : req'[d] = req[d]
      BY <1>0, <1>4 DEF DeleteFind, DeleteReply, Refuse, Restored, Answer
    <2>3. CASE DeleteFind(r)
      BY <1>0, <1>a, <1>b, <2>1, <2>2, <2>3, StillHandles DEF DeleteFind, Here
    <2>4. CASE DeleteReply(r)
      <3>1. req'[r].post = req[r].post
        BY <1>0, <2>4, Answered DEF DeleteReply
      <3> QED
        BY <1>0, <1>a, <2>1, <2>2, <3>1, StillHandles DEF Here
    <2> QED
      BY <1>4, <2>3, <2>4
  <1>5. ASSUME NEW r \in DeleteReqs, DeleteSave(r) PROVE \E d \in DeleteReqs : Handles(d, p, n)'
    <2>1. /\ Save(req[r].post, MarkedDeleted(req[r].text)) /\ req[r].post \in Posts
          /\ req' = [req EXCEPT ![r].pc = "files"] /\ job' = [job EXCEPT ![r] = Sent]
          /\ UNCHANGED file
      BY <1>0, <1>5 DEF DeleteSave, PInv, HandlersInv
    <2>2. CASE req[r].post = p
      <3>1. req'[r].post = p
        BY <1>0, <2>1, <2>2 DEF Request
      <3>2. job'[r][n] = "todo"
        BY <1>0, <2>1 DEF Sent
      <3> QED
        BY <3>1, <3>2 DEF Handles
    <2>3. CASE req[r].post # p
      <3>1. post[p].st = "deleted" /\ Here(p, n)
        BY <1>0, <2>1, <2>3 DEF Save, Here
      <3>2. \A d \in DeleteReqs \ {r} : req'[d] = req[d] /\ job'[d] = job[d]
        BY <1>0, <2>1
      <3>3. ~Handles(r, p, n)
        BY <2>3 DEF Handles
      <3> QED
        BY <1>0, <1>a, <3>1, <3>2, <3>3, StillHandles
    <2> QED
      BY <2>2, <2>3
  <1>6. ASSUME NEW r \in CreateReqs, NEW k \in Photos, PutObject(r, k) \/ SaveMetadata(r, k)
        PROVE  \E d \in DeleteReqs : Handles(d, p, n)'
    <2>1. UNCHANGED <<post, req>>
      BY <1>6 DEF PutObject, SaveMetadata
    <2>2. \A d \in DeleteReqs : job'[d] = job[d]
      BY <1>0, <1>6 DEF PutObject, SaveMetadata
    <2>3. Here(p, n)
      <3>1. CASE SaveMetadata(r, k)
        BY <3>1 DEF SaveMetadata, Here
      <3>2. CASE PutObject(r, k)
        <4>1. job[p][n] = "done"
          BY <1>0, <2>1 DEF PInv, UploadsInv
        <4>2. p # r \/ n # k
          BY <3>2, <4>1 DEF PutObject
        <4>3. file' = [file EXCEPT ![r][k].here = TRUE]
          BY <3>2 DEF PutObject
        <4> QED
          BY <1>0, <4>2, <4>3, PutHere DEF Here
      <3> QED
        BY <1>6, <3>1, <3>2
    <2> QED
      BY <1>0, <1>a, <2>1, <2>2, <2>3, StillHandles
  <1>7. ASSUME NEW r \in DeleteReqs, NEW k \in Photos, CopyObject(r, k)
        PROVE  \E d \in DeleteReqs : Handles(d, p, n)'
    <2>1. job[r][k] = "todo" /\ UNCHANGED <<post, req>>
      BY <1>7 DEF CopyObject
    <2>2. req[r].post \in Posts
      BY <1>0, <2>1 DEF PInv, DeletesInv
    <2>3. Here(p, n)
      <3>1. CASE UNCHANGED file
        BY <3>1 DEF Here
      <3>2. CASE file' = [file EXCEPT ![req[r].post][k].trash = TRUE]
        <4>1. PICK q \in Posts : q = req[r].post
          BY <2>2
        <4>2. file'[p][n].here = file[p][n].here
          BY <1>0, <3>2, <4>1, PutTrash
        <4> QED
          BY <4>2 DEF Here
      <3> QED
        BY <1>7, <3>1, <3>2 DEF CopyObject
    <2>4. ASSUME NEW d \in DeleteReqs, Handles(d, p, n) PROVE Handles(d, p, n)'
      <3>1. CASE d = r /\ k = n
        <4>1. job' = [job EXCEPT ![r][k] = "moved"]
          BY <1>7, <2>3, <2>4, <3>1 DEF CopyObject, Handles
        <4>2. job'[r][k] = "moved"
          BY <1>0, <4>1
        <4> QED
          BY <2>1, <2>4, <3>1, <4>2 DEF Handles
      <3>2. CASE ~(d = r /\ k = n)
        <4>1. job'[d][n] = job[d][n]
          BY <1>0, <1>7, <3>2 DEF CopyObject
        <4> QED
          BY <1>0, <2>1, <2>4, <4>1, StillHandles
      <3> QED
        BY <3>1, <3>2
    <2> QED
      BY <1>a, <2>1, <2>3, <2>4
  <1>8. ASSUME NEW r \in DeleteReqs, NEW k \in Photos, DeleteObject(r, k)
        PROVE  \E d \in DeleteReqs : Handles(d, p, n)'
    <2>1. /\ job[r][k] = "moved" /\ UNCHANGED <<post, req>>
          /\ file' = [file EXCEPT ![req[r].post][k].here = FALSE]
          /\ job' = [job EXCEPT ![r][k] = "gone"]
      BY <1>8 DEF DeleteObject
    <2>2. req[r].post \in Posts
      BY <1>0, <2>1 DEF PInv, DeletesInv
    <2>3. ~(req[r].post = p /\ k = n) /\ Here(p, n)
      <3>1. PICK q \in Posts : q = req[r].post
        BY <2>2
      <3>2. /\ file'[q][k].here = FALSE
            /\ \A x \in Posts, m \in Photos : x # q \/ m # k => file'[x][m] = file[x][m]
        <4>1. TypeOK /\ file' = [file EXCEPT ![q][k].here = FALSE]
          BY <1>0, <2>1, <3>1
        <4> QED
          BY <4>1, PutHere
      <3> QED
        BY <3>1, <3>2 DEF Here
    <2>4. ASSUME NEW d \in DeleteReqs, Handles(d, p, n) PROVE Handles(d, p, n)'
      <3>1. ~(d = r /\ k = n)
        BY <2>3, <2>4 DEF Handles
      <3>2. job'[d][n] = job[d][n]
        BY <1>0, <2>1, <3>1
      <3> QED
        BY <1>0, <2>1, <2>4, <3>2, StillHandles
    <2> QED
      BY <1>a, <2>1, <2>3, <2>4
  <1>9. ASSUME NEW r \in DeleteReqs, MarkMetadata(r)
        PROVE  \E d \in DeleteReqs : Handles(d, p, n)'
    <2>1. /\ All(r, "gone") /\ UNCHANGED <<post, req, file>>
          /\ \A d \in DeleteReqs \ {r} : job'[d] = job[d]
      BY <1>0, <1>9 DEF MarkMetadata
    <2>2. ~Handles(r, p, n)
      BY <2>1 DEF All, Handles
    <2> QED
      BY <1>0, <1>a, <2>1, <2>2, StillHandles DEF Here
  <1> QED
    BY <1>1, <1>2, <1>3, <1>4, <1>5, <1>6, <1>7, <1>8, <1>9
       DEF Next, Create, DeletePost, GatewayCrash, StorageCrash

\* Every file of a deleted post is on the list of the deletion that still runs,
\* until something failed.
THEOREM FilesInvariant == Spec => []FilesInv
  <1>1. Init => FilesInv
    BY InitInv DEF Init, FilesInv, OrphansInv
  <1>2. FilesInv /\ [Next]_vars => FilesInv'
    <2> SUFFICES ASSUME FilesInv, [Next]_vars PROVE FilesInv'
      OBVIOUS
    <2>1. PInv'
      BY NextInv DEF FilesInv
    <2>2. CASE UNCHANGED vars
      BY <2>1, <2>2 DEF vars, FilesInv, OrphansInv, Here
    <2>3. CASE Next
      <3> SUFFICES ASSUME faults' = MaxFail, NEW p \in Posts, NEW n \in Photos,
                          post'[p].st = "deleted", Here(p, n)'
                   PROVE  \E d \in DeleteReqs : Handles(d, p, n)'
        BY <2>1 DEF FilesInv, OrphansInv, Handles
      <3>1. faults = MaxFail /\ ~Fail
        BY <2>3, NothingFails DEF FilesInv, PInv
      <3> QED
        BY <2>3, <3>1, OrphansStep DEF FilesInv, OrphansInv, Handles
    <2> QED
      BY <2>2, <2>3
  <1> QED
    BY <1>1, <1>2, PTL DEF Spec

\* However requests overlap, a file of a created post stays only while the
\* post is shown, unless a call failed.
THEOREM NoFileIsLeft == Spec => []NoOrphans
  <1>1. FilesInv => NoOrphans
    <2> SUFFICES ASSUME FilesInv, NEW p \in Posts, NEW n \in Photos,
                        post[p].st # "none", AtRest(p), Here(p, n), ~Live(p)
                 PROVE  FALSE
      BY DEF NoOrphans
    <2>1. post[p].st = "deleted"
      BY DEF FilesInv, PInv, TypeOK, PostRow, Live
    <2>2. PICK d \in DeleteReqs : req[d].post = p /\ job[d][n] \in {"todo", "moved"}
      BY <2>1 DEF FilesInv, OrphansInv, AtRest
    <2> QED
      BY <2>2 DEF AtRest, Settled, Reqs, Rpcs
  <1> QED
    BY <1>1, FilesInvariant, PTL

\* A deletion answered with success is complete, and stays so.
THEOREM DeletionIsComplete == Spec => []DeletedIsGone
  <1>1. PInv => DeletedIsGone
    BY DEF PInv, DeletesInv, DeletedIsGone
  <1> QED
    BY <1>1, PostsInvariant, PTL

\* A post changes only by a handler of its own user, which read it as its own.
THEOREM OnlyAuthorsChange == Spec => ChangedByOwner
  <1>1. PInv /\ [Next]_vars => [ChangesOwn]_vars
    <2> SUFFICES ASSUME PInv, Next, NEW p \in Posts, post'[p] # post[p]
                 PROVE  \E r \in Reqs : /\ req[r].pc \in {"upload", "save"}
                                        /\ req'[r].pc # req[r].pc
                                        /\ req[r].post = p /\ UserOf[r] = UserOf[p]
      BY DEF ChangesOwn, vars
    <2>1. ASSUME NEW r \in CreateReqs, CreateSave(r)
          PROVE  /\ r \in Reqs /\ req[r].pc = "upload" /\ req'[r].pc # req[r].pc
                 /\ req[r].post = p /\ UserOf[r] = UserOf[p]
      <3>1. r \in Reqs /\ r \in Posts /\ req[r].pc = "upload" /\ req[r].post = r
        BY <2>1 DEF CreateSave, Save, Created, PInv, HandlersInv, Reqs, Posts
      <3>2. r = p
        BY <2>1, <3>1 DEF CreateSave, Save, Created, PInv, TypeOK
      <3>3. req'[r].pc = "done"
        BY <2>1, <3>1, Answered DEF CreateSave, Save, Created, PInv
      <3> QED
        BY <3>1, <3>2, <3>3
    <2>2. ASSUME NEW r \in UpdateReqs \cup DeleteReqs, UpdateSave(r) \/ DeleteSave(r)
          PROVE  /\ r \in Reqs /\ req[r].pc = "save" /\ req'[r].pc # req[r].pc
                 /\ req[r].post = p /\ UserOf[r] = UserOf[p]
      <3>1. /\ r \in Reqs /\ req[r].pc = "save" /\ req[r].post \in Posts
            /\ UserOf[r] = UserOf[req[r].post]
        BY <2>2 DEF UpdateSave, Save, WithDescription, DeleteSave, MarkedDeleted, PInv, HandlersInv,
               Reqs
      <3>2. req[r].post = p
        BY <2>2, <3>1 DEF UpdateSave, Save, WithDescription, DeleteSave, MarkedDeleted, PInv, TypeOK
      <3>3. req'[r].pc \in {"done", "files"}
        <4>1. CASE Answer(r, "ok") \/ Answer(r, "error")
          BY <3>1, <4>1, Answered DEF PInv
        <4>2. CASE req' = [req EXCEPT ![r].pc = "files"]
          BY <3>1, <4>2 DEF PInv, TypeOK, Request
        <4> QED
          BY <2>2, <4>1, <4>2 DEF UpdateSave, Save, WithDescription, DeleteSave, MarkedDeleted
      <3> QED
        BY <3>1, <3>2, <3>3
    <2> QED
      BY <2>1, <2>2
      DEF Next, Create, UpdatePost, DeletePost, CreateStart, UpdateFind, Restored, DeleteFind,
          DeleteReply, PutObject, SaveMetadata,
          CopyObject, DeleteObject, MarkMetadata, GatewayCrash, StorageCrash
  <1> QED
    BY <1>1, PostsInvariant, PTL DEF Spec, ChangedByOwner
=============================================================================
