------------------------------- MODULE Posts -------------------------------
(***************************************************************************)
(* Posts and their photos: the gateway's create, update and delete over    *)
(* the `Post` and `Photo` tables, and the storage service that keeps the   *)
(* files in the bucket and a document about each in MongoDB.  The gateway  *)
(* calls the storage service by RPC over TCP.                              *)
(*                                                                         *)
(* A post is named by the request that creates it and has one file per     *)
(* member of Photos.  The `Photo` rows are written in one transaction with *)
(* the post and deleted with it, so the post's row stands for them.  An    *)
(* action is the code between two awaits of one handler, or of one file    *)
(* under Promise.all.                                                      *)
(***************************************************************************)
EXTENDS Naturals

CONSTANTS
    Users,
    CreateReqs,   \* POST /posts
    UpdateReqs,   \* PATCH /posts/:id
    DeleteReqs,   \* DELETE /posts/:id
    UserOf,       \* the user that sends each request
    Photos,       \* the photos of a post
    Texts,        \* descriptions
    MaxFail,      \* bound: failing calls and restarts
    None

Posts == CreateReqs
Reqs == CreateReqs \cup UpdateReqs \cup DeleteReqs
Rpcs == CreateReqs \cup DeleteReqs

ASSUME PostsAssumption ==
    /\ UserOf \in [Reqs -> Users]
    /\ MaxFail \in Nat
    /\ Photos # {}
    /\ None \notin Posts /\ None \notin Texts
    /\ CreateReqs \cap UpdateReqs = {}
    /\ DeleteReqs \cap (CreateReqs \cup UpdateReqs) = {}

VARIABLES
    post,    \* `Post` rows with their `Photo` rows
    file,    \* the bucket: each file at its place, and its copy in trash/
    meta,    \* `PostPhotoMetadata` documents
    req,     \* the gateway's handlers
    job,     \* the storage service's execution of each RPC, file by file
    faults   \* failures that may still happen

vars == <<post, file, meta, req, job, faults>>

PostRow == [st : {"none", "live", "deleted"}, text : Texts \cup {None}]

\* `text` is the description sent by a create or an update, and the one a
\* delete has read.
Request == [pc : {"start", "upload", "save", "files", "done"},
            post : Posts \cup {None},
            text : Texts \cup {None},
            res : {"none", "ok", "notFound", "forbidden", "noChanges", "partial", "error",
                   "lost"}]

\* Uploads: todo, moved (in the bucket), done (with its document).  Deletions:
\* todo, moved (copied to trash/), gone (removed), then all of them done, or
\* fewer when fewer documents were modified than files sent.
Stage == {"idle", "todo", "moved", "gone", "done", "fewer", "failed"}

TypeOK ==
    /\ post \in [Posts -> PostRow]
    /\ file \in [Posts -> [Photos -> [here : BOOLEAN, trash : BOOLEAN]]]
    /\ meta \in [Posts -> [Photos -> {"none", "live", "deleted"}]]
    /\ req \in [Reqs -> Request]
    /\ job \in [Rpcs -> [Photos -> Stage]]
    /\ faults \in 0..MaxFail

Init ==
    /\ post = [p \in Posts |-> [st |-> "none", text |-> None]]
    /\ file = [p \in Posts |-> [n \in Photos |-> [here |-> FALSE, trash |-> FALSE]]]
    /\ meta = [p \in Posts |-> [n \in Photos |-> "none"]]
    /\ req = [r \in Reqs |-> [pc |-> "start", post |-> None, text |-> None, res |-> "none"]]
    /\ job = [r \in Rpcs |-> [n \in Photos |-> "idle"]]
    /\ faults = MaxFail

-----------------------------------------------------------------------------
Fail == faults > 0 /\ faults' = faults - 1

Live(p) == post[p].st = "live"
Here(p, n) == file[p][n].here

Sent == [n \in Photos |-> "todo"]
All(r, s) == \A n \in Photos : job[r][n] = s

\* Promise.all rejects on the first failure; the other files go on.
Failed(r) == \E n \in Photos : job[r][n] = "failed"

Answer(r, res) == req' = [req EXCEPT ![r] = [@ EXCEPT !.pc = "done", !.res = res]]

\* The entity as it is created and as a handler that read it live changes it.
Created(t) == [st |-> "live", text |-> t]
WithDescription(t) == [st |-> "live", text |-> t]
MarkedDeleted(t) == [st |-> "deleted", text |-> t]

\* The handler goes on with the post it has read and a description.
Restored(r, p, t) ==
    req' = [req EXCEPT ![r] = [@ EXCEPT !.pc = "save", !.post = p, !.text = t]]

\* save: every column is written, `isDeleted` included.
Save(p, row) == post' = [post EXCEPT ![p] = row]

-----------------------------------------------------------------------------
(* POST /posts *)

CreateStart(r) ==
    /\ req[r].pc = "start"
    /\ \E t \in Texts :
         req' = [req EXCEPT ![r] = [@ EXCEPT !.pc = "upload", !.post = r, !.text = t]]
    /\ job' = [job EXCEPT ![r] = Sent]
    /\ UNCHANGED <<post, file, meta, faults>>

\* The answer of the storage service.  addPhoto throws at a file name without
\* an image's extension, and the save may throw; then the clean-up
\* softDelete(null) matches nothing and the files stay.
CreateSave(r) ==
    /\ req[r].pc = "upload"
    /\ \/ /\ All(r, "done")
          /\ Save(r, Created(req[r].text))
          /\ Answer(r, "ok")
       \/ /\ All(r, "done") \/ Failed(r)
          /\ Answer(r, "error")
          /\ UNCHANGED post
    /\ UNCHANGED <<file, meta, job, faults>>

Create(r) == CreateStart(r) \/ CreateSave(r)

-----------------------------------------------------------------------------
(* The two handlers that read a post, change it and save it *)

\* Mutant: the owner is not looked at.
OwnLivePostAny(r, p) == Live(p)

\* findById and the owner's check.
OwnLivePost(r, p) == Live(p) /\ UserOf[r] = UserOf[p]

Refuse(r, p) ==
    \/ ~Live(p) /\ Answer(r, "notFound")
    \/ Live(p) /\ UserOf[r] # UserOf[p] /\ Answer(r, "forbidden")

\* PATCH /posts/:id
UpdateFind(r) ==
    /\ req[r].pc = "start"
    /\ \E p \in Posts, t \in Texts :
         \/ Refuse(r, p)
         \/ OwnLivePost(r, p) /\ t = post[p].text /\ Answer(r, "noChanges")
         \/ OwnLivePost(r, p) /\ t # post[p].text /\ Restored(r, p, t)
    /\ UNCHANGED <<post, file, meta, job, faults>>

\* The post as read is saved: it is live again if it was deleted meanwhile.
UpdateSave(r) ==
    /\ req[r].pc = "save"
    /\ \/ /\ Save(req[r].post, WithDescription(req[r].text))
          /\ Answer(r, "ok")
          /\ UNCHANGED faults
       \/ /\ Fail
          /\ Answer(r, "error")
          /\ UNCHANGED post
    /\ UNCHANGED <<file, meta, job>>

UpdatePost(r) == UpdateFind(r) \/ UpdateSave(r)

\* DELETE /posts/:id
DeleteFind(r) ==
    /\ req[r].pc = "start"
    /\ \E p \in Posts :
         \/ Refuse(r, p)
         \/ OwnLivePost(r, p) /\ Restored(r, p, post[p].text)
    /\ UNCHANGED <<post, file, meta, job, faults>>

\* Mutant: the post is marked deleted and not saved.
DeleteSaveNot(r) ==
    /\ req[r].pc = "save"
    /\ req' = [req EXCEPT ![r].pc = "files"]
    /\ job' = [job EXCEPT ![r] = Sent]
    /\ UNCHANGED <<post, file, meta, faults>>

\* The row is marked first, with the description read; then the files' RPC.
DeleteSave(r) ==
    /\ req[r].pc = "save"
    /\ \/ /\ Save(req[r].post, MarkedDeleted(req[r].text))
          /\ req' = [req EXCEPT ![r].pc = "files"]
          /\ job' = [job EXCEPT ![r] = Sent]
          /\ UNCHANGED faults
       \/ /\ Fail
          /\ Answer(r, "error")
          /\ UNCHANGED <<post, job>>
    /\ UNCHANGED <<file, meta>>

\* Mutant: an error of the storage service is swallowed.
DeleteReplyOk(r) ==
    /\ req[r].pc = "files"
    /\ All(r, "done") \/ All(r, "fewer") \/ Failed(r)
    /\ Answer(r, "ok")
    /\ UNCHANGED <<post, file, meta, job, faults>>

DeleteReply(r) ==
    /\ req[r].pc = "files"
    /\ \/ All(r, "done") /\ Answer(r, "ok")
       \/ All(r, "fewer") /\ Answer(r, "partial")
       \/ Failed(r) /\ Answer(r, "error")
    /\ UNCHANGED <<post, file, meta, job, faults>>

DeletePost(r) == DeleteFind(r) \/ DeleteSave(r) \/ DeleteReply(r)

-----------------------------------------------------------------------------
(* The storage service *)

\* uploadFile
PutObject(r, n) ==
    /\ job[r][n] = "todo"
    /\ \/ /\ file' = [file EXCEPT ![r][n].here = TRUE]
          /\ job' = [job EXCEPT ![r][n] = "moved"]
          /\ UNCHANGED faults
       \/ /\ Fail
          /\ job' = [job EXCEPT ![r][n] = "failed"]
          /\ UNCHANGED file
    /\ UNCHANGED <<post, meta, req>>

\* saveFileMetadata, once every file is in the bucket.
SaveMetadata(r, n) ==
    /\ job[r][n] = "moved"
    /\ \A m \in Photos : Here(r, m)
    /\ \/ /\ meta' = [meta EXCEPT ![r][n] = "live"]
          /\ job' = [job EXCEPT ![r][n] = "done"]
          /\ UNCHANGED faults
       \/ /\ Fail
          /\ job' = [job EXCEPT ![r][n] = "failed"]
          /\ UNCHANGED meta
    /\ UNCHANGED <<post, file, req>>

\* Mutant: deleteFile does not copy.
CopyObjectNot(r, n) ==
    /\ job[r][n] = "todo"
    /\ job' = [job EXCEPT ![r][n] = "moved"]
    /\ UNCHANGED <<post, file, meta, req, faults>>

\* deleteFile: the copy to trash/, refused when the file is gone.
CopyObject(r, n) ==
    /\ job[r][n] = "todo"
    /\ \/ /\ Here(req[r].post, n)
          /\ file' = [file EXCEPT ![req[r].post][n].trash = TRUE]
          /\ job' = [job EXCEPT ![r][n] = "moved"]
          /\ UNCHANGED faults
       \/ /\ (~Here(req[r].post, n) /\ UNCHANGED faults) \/ Fail
          /\ job' = [job EXCEPT ![r][n] = "failed"]
          /\ UNCHANGED file
    /\ UNCHANGED <<post, meta, req>>

\* Mutant: the key is computed wrongly, so nothing is removed.
DeleteObjectNot(r, n) ==
    /\ job[r][n] = "moved"
    /\ job' = [job EXCEPT ![r][n] = "gone"]
    /\ UNCHANGED <<post, file, meta, req, faults>>

\* deleteFile: the removal, which succeeds when the file is gone.
DeleteObject(r, n) ==
    /\ job[r][n] = "moved"
    /\ \/ /\ file' = [file EXCEPT ![req[r].post][n].here = FALSE]
          /\ job' = [job EXCEPT ![r][n] = "gone"]
          /\ UNCHANGED faults
       \/ /\ Fail
          /\ job' = [job EXCEPT ![r][n] = "failed"]
          /\ UNCHANGED file
    /\ UNCHANGED <<post, meta, req>>

\* removeFilesByKeys: modifiedCount counts the documents not deleted before.
MarkMetadata(r) ==
    /\ All(r, "gone")
    /\ LET p == req[r].post
           modified == \A n \in Photos : meta[p][n] = "live"
       IN \/ /\ meta' = [meta EXCEPT ![p] =
                           [n \in Photos |-> IF @[n] = "live" THEN "deleted" ELSE @[n]]]
             /\ job' = [job EXCEPT ![r] =
                          [n \in Photos |-> IF modified THEN "done" ELSE "fewer"]]
             /\ UNCHANGED faults
          \/ /\ Fail
             /\ job' = [job EXCEPT ![r] = [n \in Photos |-> "failed"]]
             /\ UNCHANGED meta
    /\ UNCHANGED <<post, file, req>>

-----------------------------------------------------------------------------
(* Restarts *)

\* Every handler of the gateway is gone; the storage service goes on.
GatewayCrash ==
    /\ Fail
    /\ req' = [r \in Reqs |-> IF req[r].pc \in {"start", "done"} THEN req[r]
                              ELSE [req[r] EXCEPT !.pc = "done", !.res = "lost"]]
    /\ UNCHANGED <<post, file, meta, job>>

\* Every execution of the storage service ends; the gateway's connection is
\* closed, an error of the RPCs under way.
StorageCrash ==
    /\ Fail
    /\ job' = [r \in Rpcs |-> [n \in Photos |->
                 IF job[r][n] \in {"todo", "moved", "gone"} THEN "failed" ELSE job[r][n]]]
    /\ UNCHANGED <<post, file, meta, req>>

Next ==
    \/ \E r \in CreateReqs : Create(r)
    \/ \E r \in UpdateReqs : UpdatePost(r)
    \/ \E r \in DeleteReqs : DeletePost(r)
    \/ \E r \in CreateReqs, n \in Photos : PutObject(r, n) \/ SaveMetadata(r, n)
    \/ \E r \in DeleteReqs, n \in Photos : CopyObject(r, n) \/ DeleteObject(r, n)
    \/ \E r \in DeleteReqs : MarkMetadata(r)
    \/ GatewayCrash
    \/ StorageCrash

Spec == Init /\ [][Next]_vars

-----------------------------------------------------------------------------
(* Properties *)

\* A post's photos never vanish, whatever fails or overlaps: each is at its
\* place in the bucket or in trash/.
NoPhotoLost ==
    \A p \in Posts, n \in Photos :
        post[p].st # "none" => Here(p, n) \/ file[p][n].trash

\* The photos of a post that is shown are there, unless an update that read
\* the post before it was deleted has brought it back.
BroughtBack(p) == \E u \in UpdateReqs : req[u].post = p /\ req[u].res = "ok"

ShownPhotosExist ==
    \A p \in Posts, n \in Photos : Live(p) => Here(p, n) \/ BroughtBack(p)

\* A deletion answered with success has removed the files and marked their
\* documents, and nothing brings them back.
DeletedIsGone ==
    \A d \in DeleteReqs, n \in Photos :
        req[d].res = "ok" => ~Here(req[d].post, n) /\ meta[req[d].post][n] = "deleted"

Settled(r) == ~All(r, "gone") /\ \A n \in Photos : job[r][n] \notin {"todo", "moved"}
AtRest(p) ==
    /\ faults = MaxFail
    /\ \A r \in Reqs : req[r].post = p => req[r].pc = "done" /\ (r \in Rpcs => Settled(r))

\* However requests overlap, a file of a created post stays only while the
\* post is shown, unless a call failed.
NoOrphans ==
    \A p \in Posts, n \in Photos :
        post[p].st # "none" /\ AtRest(p) /\ Here(p, n) => Live(p)

\* Only a handler of the post's own user changes a post.
ChangesOwn ==
    \A p \in Posts : post'[p] # post[p] =>
        \E r \in Reqs : /\ req[r].pc \in {"upload", "save"} /\ req'[r].pc # req[r].pc
                       /\ req[r].post = p /\ UserOf[r] = UserOf[p]
ChangedByOwner == [][ChangesOwn]_vars

-----------------------------------------------------------------------------
(* The inductive invariant behind the first three and ChangedByOwner *)

\* What a handler holds: a post that was inserted, of its own user, and a
\* result only at the end.
HandlersInv ==
    /\ \A r \in Reqs : req[r].res # "none" => req[r].pc = "done"
    /\ \A r \in CreateReqs :
         /\ req[r].pc \in {"start", "upload"} => post[r].st = "none"
         /\ req[r].pc = "start" => All(r, "idle")
         /\ req[r].pc = "upload" => req[r].post = r
         /\ req[r].pc \in {"start", "upload", "done"}
    /\ \A r \in UpdateReqs \cup DeleteReqs :
         req[r].pc \in {"save", "files"} =>
           /\ req[r].post \in Posts
           /\ post[req[r].post].st # "none"
           /\ UserOf[r] = UserOf[req[r].post]
    /\ \A r \in UpdateReqs : req[r].pc \in {"start", "save", "done"}
    /\ \A r \in DeleteReqs :
         /\ req[r].pc # "upload"
         /\ req[r].pc \in {"start", "save"} => All(r, "idle")

\* A post is inserted once its files are uploaded, and no upload of it is
\* under way afterwards.
UploadsInv ==
    \A p \in Posts, n \in Photos :
      /\ post[p].st # "none" => job[p][n] = "done"
      /\ post[p].st = "none" /\ job[p][n] \in {"moved", "done"} => Here(p, n)

\* What each stage of a deletion has done to its file; a file gone is one a
\* deletion was sent for, and a post shown after that was brought back.
DeletesInv ==
    /\ \A d \in DeleteReqs, n \in Photos :
         /\ job[d][n] # "idle" =>
              /\ req[d].post \in Posts
              /\ post[req[d].post].st # "none"
              /\ Live(req[d].post) => BroughtBack(req[d].post)
         /\ job[d][n] \in {"moved", "gone", "done", "fewer"} => file[req[d].post][n].trash
         /\ job[d][n] \in {"gone", "done", "fewer"} => ~Here(req[d].post, n)
         /\ job[d][n] = "done" => meta[req[d].post][n] = "deleted"
         /\ req[d].res = "ok" => job[d][n] = "done"
    /\ \A p \in Posts, n \in Photos :
         post[p].st # "none" /\ ~Here(p, n) =>
           \E d \in DeleteReqs : req[d].post = p /\ job[d][n] # "idle"

PInv == TypeOK /\ HandlersInv /\ UploadsInv /\ DeletesInv /\ NoPhotoLost

\* While no call has failed, a file of a deleted post is in the hands of a
\* deletion.
OrphansInv ==
    faults = MaxFail => \A p \in Posts, n \in Photos :
        post[p].st = "deleted" /\ Here(p, n) =>
            \E d \in DeleteReqs : req[d].post = p /\ job[d][n] \in {"todo", "moved"}

FilesInv == PInv /\ OrphansInv
=============================================================================
