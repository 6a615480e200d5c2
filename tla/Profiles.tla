------------------------------ MODULE Profiles ------------------------------
(***************************************************************************)
(* Profiles and avatars, composed with the accounts: creating and updating *)
(* a profile changes the username through UserService, and an avatar's     *)
(* file is uploaded and removed by the storage service.                    *)
(*                                                                         *)
(* An avatar's file is named by the upload that brought it, a profile's    *)
(* text (the columns that are always set) by the request it came with.     *)
(***************************************************************************)
EXTENDS Accounts

CONSTANTS
    CreateReqs,    \* POST /profile
    UpdateReqs,    \* PATCH /profile/:id
    DeleteReqs,    \* DELETE /profile
    UploadReqs,    \* POST /profile/avatar
    MaxInserts     \* bound: times a user's profile is inserted

Droppers == DeleteReqs \cup UploadReqs
ProfileReqs == CreateReqs \cup UpdateReqs \cup Droppers
Texts == CreateReqs \cup UpdateReqs

ASSUME ProfilesAssumption ==
    /\ MaxInserts \in Nat
    /\ RenameReqs = CreateReqs \cup UpdateReqs
    /\ CreateReqs \cap UpdateReqs = {}
    /\ DeleteReqs \cap UploadReqs = {}
    /\ Texts \cap Droppers = {}
    /\ None \notin ProfileReqs

VARIABLES
    profile,   \* `Profile` table, one row for a user at most
    avatar,    \* the bucket and `AvatarMetadata`
    handler,   \* the gateway's handlers
    upload,    \* the storage service's execution of upload_avatar
    drop,      \* DeleteOldAvatarEvent and delete_avatar, for handler[r].url
    clashed    \* history: users whose profile two handlers held at once

profileVars == <<profile, avatar, handler, upload, drop>>
accountTables == <<tables, expired, last>>
accountSteps == <<accountTables, req, faults>>
vars == <<accountVars, profileVars, clashed>>

\* `id` counts the rows inserted for the user: each has an id of its own.
ProfileRow == [st : {"none", "live"}, id : 0..MaxInserts, text : Texts \cup {None},
               url : UploadReqs \cup {None}]

ProfileHandler ==
    [pc : {"start", "name", "basic", "upload", "save", "again", "delete", "done"},
     user : Ids \cup {None}, id : 0..MaxInserts, text : Texts \cup {None},
     url : UploadReqs \cup {None},
     res : {"none", "ok", "exists", "taken", "notFound", "forbidden", "error", "lost"}]

ProfilesTypeOK ==
    /\ profile \in [Ids -> ProfileRow]
    /\ avatar \in [UploadReqs -> [here : BOOLEAN, trash : BOOLEAN,
                                  meta : {"none", "live", "deleted"}]]
    /\ handler \in [ProfileReqs -> ProfileHandler]
    /\ upload \in [UploadReqs -> {"idle", "sent", "done", "failed"}]
    /\ drop \in [Droppers -> {"idle", "copy", "remove", "mark", "done", "failed"}]
    /\ clashed \in SUBSET Ids

Idle == [pc |-> "start", user |-> None, id |-> 0, text |-> None, url |-> None, res |-> "none"]

Init ==
    /\ AccountsInit
    /\ profile = [u \in Ids |-> [st |-> "none", id |-> 0, text |-> None, url |-> None]]
    /\ avatar = [a \in UploadReqs |-> [here |-> FALSE, trash |-> FALSE, meta |-> "none"]]
    /\ handler = [r \in ProfileReqs |-> Idle]
    /\ upload = [r \in UploadReqs |-> "idle"]
    /\ drop = [r \in Droppers |-> "idle"]
    /\ clashed = {}

-----------------------------------------------------------------------------
HasProfile(u) == profile[u].st = "live"

\* A handler that has ended is known by its answer and the avatar it drops.
Ended(r, res) ==
    [Idle EXCEPT !.pc = "done", !.res = res,
                 !.url = IF r \in Droppers THEN handler[r].url ELSE None]
End(r, res) == handler' = [handler EXCEPT ![r] = Ended(r, res)]
Proceed(r, pc) == handler' = [handler EXCEPT ![r].pc = pc]

\* Mutant: the text is not read.
HoldBlank(r, u, pc) ==
    handler' = [handler EXCEPT ![r] =
                  [Idle EXCEPT !.pc = pc, !.user = u,
                               !.id = IF HasProfile(u) THEN profile[u].id ELSE 0,
                               !.url = profile[u].url]]

\* The handler holds the profile of u as it is now; one that does not exist is
\* held as the empty profile.
Hold(r, u, pc) ==
    handler' = [handler EXCEPT ![r] =
                  [Idle EXCEPT !.pc = pc, !.user = u,
                               !.id = IF HasProfile(u) THEN profile[u].id ELSE 0,
                               !.text = profile[u].text, !.url = profile[u].url]]

\* The entity as the handler restored it, a new one, and its changes.
Restored(r) == [text |-> handler[r].text, url |-> handler[r].url]
New(text) == [text |-> text, url |-> None]
CreateBasic == New(None)
Rewrite(p, text) == [p EXCEPT !.text = text]
UpdateAvatarUrl(p, a) == [p EXCEPT !.url = a]

\* profileRepository.save, an upsert by user: every column is written, but for
\* the avatar URL when there is none to write (undefined leaves the column).
Upsert(u, p) ==
    /\ HasProfile(u) \/ profile[u].id < MaxInserts
    /\ profile' = [profile EXCEPT ![u] =
                     [st |-> "live", id |-> IF HasProfile(u) THEN @.id ELSE @.id + 1,
                      text |-> p.text, url |-> IF p.url = None THEN @.url ELSE p.url]]

\* softDelete: the row is removed by its id.
SoftDelete(u) ==
    profile' = [profile EXCEPT ![u] = [@ EXCEPT !.st = "none", !.text = None, !.url = None]]

SaveFails(r) == Fail /\ End(r, "error") /\ UNCHANGED profile

\* UserService.updateUsername is called, and answers.
CallRename(r) ==
    /\ handler[r].pc = "name"
    /\ \E n \in Names : RenameStart(r, handler[r].user, n)
    /\ UNCHANGED profileVars

NameRefused(r) ==
    /\ handler[r].pc = "name"
    /\ req[r].res \in {"taken", "error"}
    /\ End(r, req[r].res)
    /\ UNCHANGED <<accountSteps, profile, avatar, upload, drop>>

Renamed(r) == handler[r].pc = "name" /\ req[r].res \in {"ok", "same"}

-----------------------------------------------------------------------------
(* Creating, updating and deleting a profile *)

CreateFind(r) ==
    /\ handler[r].pc = "start"
    /\ \E u \in Ids :
         /\ Live(u)
         /\ IF HasProfile(u) THEN End(r, "exists") ELSE Hold(r, u, "name")
    /\ UNCHANGED <<accountSteps, profile, avatar, upload, drop>>

\* Mutant: the profile is created before the name is known to be free.
CreateSaveAnyway(r) ==
    /\ handler[r].pc = "name" /\ req[r].pc = "done"
    /\ Upsert(handler[r].user, New(r))
    /\ End(r, IF Renamed(r) THEN "ok" ELSE "taken")
    /\ UNCHANGED <<accountSteps, avatar, upload, drop>>

CreateSave(r) ==
    /\ Renamed(r)
    /\ \/ /\ Upsert(handler[r].user, New(r))
          /\ End(r, "ok")
          /\ UNCHANGED faults
       \/ SaveFails(r)
    /\ UNCHANGED <<accountTables, req, avatar, upload, drop>>

CreateProfile(r) == CreateFind(r) \/ CallRename(r) \/ NameRefused(r) \/ CreateSave(r)

\* findById and the owner's check; the username may be left alone.
UpdateFind(r) ==
    /\ handler[r].pc = "start"
    /\ \E u, v \in Ids :
         /\ Live(u) /\ Live(v)
         /\ \/ ~HasProfile(v) /\ End(r, "notFound")
            \/ HasProfile(v) /\ u # v /\ End(r, "forbidden")
            \/ HasProfile(v) /\ u = v /\ \E pc \in {"name", "save"} : Hold(r, u, pc)
    /\ UNCHANGED <<accountSteps, profile, avatar, upload, drop>>

\* The profile as it was read is written with the new text, unless only the
\* username was to be changed.
UpdateSave(r) ==
    /\ Renamed(r) \/ handler[r].pc = "save"
    /\ \/ /\ Upsert(handler[r].user, Rewrite(Restored(r), r))
          /\ End(r, "ok")
          /\ UNCHANGED faults
       \/ SaveFails(r)
       \/ Renamed(r) /\ End(r, "ok") /\ UNCHANGED <<profile, faults>>
    /\ UNCHANGED <<accountTables, req, avatar, upload, drop>>

UpdateProfile(r) == UpdateFind(r) \/ CallRename(r) \/ NameRefused(r) \/ UpdateSave(r)

DeleteFind(r) ==
    /\ handler[r].pc = "start"
    /\ \E u \in Ids :
         /\ Live(u)
         /\ IF HasProfile(u) THEN Hold(r, u, "delete") ELSE End(r, "notFound")
    /\ UNCHANGED <<accountSteps, profile, avatar, upload, drop>>

\* The removal throws when the row the handler has read is gone.  The event is
\* published for an avatar that may not be; the storage service then rejects.
DeleteSave(r) ==
    /\ handler[r].pc = "delete"
    /\ LET u == handler[r].user
           found == HasProfile(u) /\ profile[u].id = handler[r].id
       IN \/ /\ found
             /\ SoftDelete(u)
             /\ drop' = [drop EXCEPT ![r] = IF handler[r].url = None THEN "failed" ELSE "copy"]
             /\ End(r, "ok")
          \/ /\ ~found
             /\ End(r, "error")
             /\ UNCHANGED <<profile, drop>>
    /\ UNCHANGED <<accountSteps, avatar, upload>>

DeleteProfile(r) == DeleteFind(r) \/ DeleteSave(r)

-----------------------------------------------------------------------------
(* POST /profile/avatar *)

UploadFind(r) ==
    /\ handler[r].pc = "start"
    /\ \E u \in Ids :
         /\ Live(u)
         /\ Hold(r, u, IF HasProfile(u) THEN "upload" ELSE "basic")
         /\ upload' = IF HasProfile(u) THEN [upload EXCEPT ![r] = "sent"] ELSE upload
    /\ UNCHANGED <<accountSteps, profile, avatar, drop>>

\* Profile.createBasic, with empty columns.
UploadBasic(r) ==
    /\ handler[r].pc = "basic"
    /\ \/ /\ Upsert(handler[r].user, CreateBasic)
          /\ Proceed(r, "upload")
          /\ upload' = [upload EXCEPT ![r] = "sent"]
          /\ UNCHANGED faults
       \/ SaveFails(r) /\ UNCHANGED upload
    /\ UNCHANGED <<accountTables, req, avatar, drop>>

UploadFailed(r) ==
    /\ handler[r].pc = "upload" /\ upload[r] = "failed"
    /\ End(r, "error")
    /\ UNCHANGED <<accountSteps, profile, avatar, upload, drop>>

\* Mutants: the old avatar is not dropped, or is the one just uploaded.
UploadSaveKeeping(r) ==
    /\ handler[r].pc = "upload" /\ upload[r] = "done"
    /\ Upsert(handler[r].user, UpdateAvatarUrl(Restored(r), r))
    /\ Proceed(r, "again")
    /\ UNCHANGED <<accountSteps, avatar, upload, drop>>

UploadSaveDropping(r) ==
    /\ handler[r].pc = "upload" /\ upload[r] = "done"
    /\ Upsert(handler[r].user, UpdateAvatarUrl(Restored(r), r))
    /\ handler' = [handler EXCEPT ![r] = [@ EXCEPT !.pc = "again", !.url = r]]
    /\ drop' = [drop EXCEPT ![r] = "copy"]
    /\ UNCHANGED <<accountSteps, avatar, upload>>

\* The profile as it was read, with the new URL; then the event for the old.
UploadSave(r) ==
    /\ handler[r].pc = "upload" /\ upload[r] = "done"
    /\ \/ /\ Upsert(handler[r].user, UpdateAvatarUrl(Restored(r), r))
          /\ Proceed(r, "again")
          /\ drop' = IF handler[r].url = None THEN drop ELSE [drop EXCEPT ![r] = "copy"]
          /\ UNCHANGED faults
       \/ SaveFails(r) /\ UNCHANGED drop
    /\ UNCHANGED <<accountTables, req, avatar, upload>>

\* "save changes after update avatar url": the same columns once more.
UploadSaveAgain(r) ==
    /\ handler[r].pc = "again"
    /\ \/ /\ Upsert(handler[r].user, UpdateAvatarUrl(Restored(r), r))
          /\ End(r, "ok")
          /\ UNCHANGED faults
       \/ SaveFails(r)
    /\ UNCHANGED <<accountTables, req, avatar, upload, drop>>

UploadProfileAvatar(r) ==
    UploadFind(r) \/ UploadBasic(r) \/ UploadFailed(r) \/ UploadSave(r) \/ UploadSaveAgain(r)

-----------------------------------------------------------------------------
(* The storage service *)

\* upload_avatar: uploadFile, then saveAvatarMetadataToDb.  Nobody has the URL
\* before the answer, so the two are one step that fails before, between or
\* not at all.
UploadAvatar(r) ==
    /\ upload[r] = "sent"
    /\ \/ /\ avatar' = [avatar EXCEPT ![r] = [here |-> TRUE, trash |-> FALSE, meta |-> "live"]]
          /\ upload' = [upload EXCEPT ![r] = "done"]
          /\ UNCHANGED faults
       \/ /\ Fail
          /\ \E put \in BOOLEAN : avatar' = [avatar EXCEPT ![r].here = put]
          /\ upload' = [upload EXCEPT ![r] = "failed"]
    /\ UNCHANGED <<accountTables, req, profile, handler, drop>>

\* delete_avatar: deleteFile copies to trash/, which throws when the file is
\* gone, and removes, which does not; then removeAvatarByUrl.
DropStep(r, to, a) ==
    /\ avatar' = [avatar EXCEPT ![handler[r].url] = a]
    /\ drop' = [drop EXCEPT ![r] = to]
    /\ UNCHANGED <<accountSteps, profile, handler, upload>>

Dropped(r) == avatar[handler[r].url]

\* Mutant: the file is not copied.
CopyAvatarNot(r) ==
    /\ drop[r] = "copy" /\ Dropped(r).here
    /\ DropStep(r, "remove", Dropped(r))

CopyAvatar(r) ==
    /\ drop[r] = "copy" /\ Dropped(r).here
    /\ DropStep(r, "remove", [Dropped(r) EXCEPT !.trash = TRUE])

RemoveAvatar(r) ==
    /\ drop[r] = "remove"
    /\ DropStep(r, "mark", [Dropped(r) EXCEPT !.here = FALSE])

RemoveAvatarByUrl(r) ==
    /\ drop[r] = "mark"
    /\ DropStep(r, "done", [Dropped(r) EXCEPT !.meta = "deleted"])

DropFails(r) ==
    /\ drop[r] \in {"copy", "remove", "mark"}
    /\ \/ Fail
       \/ drop[r] = "copy" /\ ~Dropped(r).here /\ UNCHANGED faults
    /\ drop' = [drop EXCEPT ![r] = "failed"]
    /\ UNCHANGED <<accountTables, req, profile, avatar, handler, upload>>

DeleteAvatar(r) == CopyAvatar(r) \/ RemoveAvatar(r) \/ RemoveAvatarByUrl(r) \/ DropFails(r)

-----------------------------------------------------------------------------
\* A restart of the gateway; the storage service goes on.
GatewayRestart ==
    /\ Restart
    /\ handler' = [r \in ProfileReqs |->
                     IF handler[r].pc \in {"start", "done"} THEN handler[r]
                     ELSE Ended(r, "lost")]
    /\ UNCHANGED <<profile, avatar, upload, drop>>

\* The handlers between reading a user's profile and saving it for the last time.
HoldsProfile(r, u) == handler[r].pc \notin {"start", "done"} /\ handler[r].user = u

Clash ==
    clashed' = clashed \cup
        {u \in Ids : \E r, s \in ProfileReqs :
            r # s /\ HoldsProfile(r, u)' /\ HoldsProfile(s, u)'}

ProfileStep ==
    \/ \E r \in CreateReqs : CreateProfile(r)
    \/ \E r \in UpdateReqs : UpdateProfile(r)
    \/ \E r \in DeleteReqs : DeleteProfile(r)
    \/ \E r \in UploadReqs : UploadProfileAvatar(r) \/ UploadAvatar(r)
    \/ \E r \in Droppers : DeleteAvatar(r)

Next ==
    /\ \/ AccountStep /\ UNCHANGED profileVars
       \/ ProfileStep
       \/ GatewayRestart
    /\ Race
    /\ Clash

Spec == Init /\ [][Next]_vars

-----------------------------------------------------------------------------
(* Properties *)

\* The avatar a profile shows is in the bucket and documented, unless two
\* handlers held the profile at once and one put back the URL the other dropped.
ShownAvatarExists ==
    \A u \in Ids \ clashed :
        LET a == profile[u].url IN
        a # None => avatar[a].here /\ avatar[a].meta = "live"

\* An avatar that was stored is at its place or in trash/, whatever fails.
NoAvatarLost ==
    \A a \in UploadReqs : avatar[a].meta # "none" => avatar[a].here \/ avatar[a].trash

\* Without failures an avatar stays in the bucket and documented only while a
\* profile shows it or a handler is still to save or to drop it, unless two
\* handlers held a user's profile at once.
Pending(a) ==
    \/ handler[a].pc # "done"
    \/ \E r \in Droppers : handler[r].url = a /\ drop[r] \in {"copy", "remove", "mark"}

NoAvatarOrphans ==
    faults = MaxFail /\ clashed = {} =>
        \A a \in UploadReqs :
            avatar[a].here \/ avatar[a].meta = "live" =>
                Pending(a) \/ \E u \in Ids : profile[u].url = a

\* An upload or an update of the username changes nothing a user wrote in his
\* profile: the text changes only to that of the request being answered.
TextIsKept ==
    \A u \in Ids \ clashed' :
        HasProfile(u) /\ HasProfile(u)' /\ profile'[u].text # profile[u].text =>
            \E r \in Texts : handler[r].pc # "done" /\ handler'[r].pc = "done"
                             /\ profile'[u].text = r
TextsAreKept == [][TextIsKept]_vars

\* A creation that is refused writes no profile and, unless a query failed or
\* the gateway restarted, leaves the username as it was.
RefusedCreatesNothing ==
    \A r \in CreateReqs :
        handler[r].pc = "done" /\ handler[r].res \notin {"ok", "lost"} =>
            /\ \A u \in Ids : profile[u].text # r
            /\ faults = MaxFail => req[r].res # "ok"

-----------------------------------------------------------------------------
(* The inductive invariant *)

\* A handler past its first query holds a user; it uploads and drops once.
HoldersInv ==
    /\ \A r \in ProfileReqs : handler[r].pc \notin {"start", "done"} => handler[r].user \in Ids
    /\ \A r \in UploadReqs : handler[r].pc \in {"start", "basic"} => upload[r] = "idle"
    /\ \A r \in Droppers :
         handler[r].pc \in {"start", "basic", "upload", "delete"} => drop[r] = "idle"

\* A URL that is stored, held or dropped is of an upload that was answered; a
\* file is removed once it was copied.
StoredInv ==
    /\ \A u \in Ids : profile[u].url # None => upload[profile[u].url] = "done"
    /\ \A r \in ProfileReqs : handler[r].url # None => upload[handler[r].url] = "done"
    /\ \A a \in UploadReqs :
         /\ handler[a].pc = "again" => upload[a] = "done"
         /\ upload[a] # "done" => avatar[a].meta = "none"
    /\ \A r \in Droppers :
         /\ drop[r] \in {"copy", "remove", "mark"} => handler[r].url # None
         /\ drop[r] \in {"remove", "mark"} => avatar[handler[r].url].trash
    /\ NoAvatarLost

\* The text of a creation is stored when it is answered with success, and a
\* refused one has changed no username unless something failed.
CreatedInv ==
    \A r \in CreateReqs :
        /\ \/ handler[r].pc = "done" /\ handler[r].res = "ok"
           \/ /\ \A u \in Ids : profile[u].text # r
              /\ \A s \in ProfileReqs : handler[s].text # r
        /\ handler[r].pc = "start" => req[r].pc = "start"
        /\ handler[r].pc = "done" /\ handler[r].res \notin {"ok", "lost"} =>
             /\ req[r].pc \in {"start", "done"}
             /\ faults = MaxFail => req[r].res # "ok"

ProfilesInv == ProfilesTypeOK /\ HoldersInv /\ StoredInv /\ CreatedInv

\* Users whose profile two handlers hold are among the clashed.
ClashesInv ==
    \A r, s \in ProfileReqs, u \in Ids :
        r # s /\ HoldsProfile(r, u) /\ HoldsProfile(s, u) => u \in clashed

\* The avatar of a row, or of a handler that may write it, is one user's; and
\* nobody's before the upload that brings it has saved it.
HasAvatar(u, a) ==
    \/ profile[u].url = a
    \/ \E r \in ProfileReqs : /\ HoldsProfile(r, u)
                              /\ handler[r].url = a \/ (r = a /\ handler[r].pc = "again")

OwnersInv ==
    \A a \in UploadReqs :
        /\ \A u, v \in Ids : HasAvatar(u, a) /\ HasAvatar(v, a) => u = v
        /\ handler[a].pc \in {"start", "basic", "upload"} =>
             /\ \A u \in Ids : profile[u].url # a
             /\ \A r \in ProfileReqs : handler[r].url # a

\* Alone with a user, a handler holds the profile as it is.
InStep(r, u) ==
    /\ handler[r].text = profile[u].text
    /\ profile[u].url = IF handler[r].pc = "again" THEN r ELSE handler[r].url
    /\ handler[r].pc = "basic" => ~HasProfile(u)

AloneInv ==
    /\ \A u \in Ids : ~HasProfile(u) => profile[u].text = None /\ profile[u].url = None
    /\ \A r \in ProfileReqs, u \in Ids \ clashed : HoldsProfile(r, u) => InStep(r, u)

\* An avatar that was stored stays as it is until it is dropped, and one that a
\* profile shows is not dropped.
Discards(r, a) == handler[r].url = a /\ drop[r] # "idle"

ShownInv ==
    /\ \A a \in UploadReqs :
         upload[a] = "done" /\ (\A r \in Droppers : ~Discards(r, a)) =>
             avatar[a].here /\ avatar[a].meta = "live"
    /\ \A u \in Ids \ clashed, r \in Droppers :
         profile[u].url # None => ~Discards(r, profile[u].url)

\* An avatar is dropped once; it is there when the copy is made and gone when
\* it is marked.
DropsInv ==
    /\ \A r \in Droppers : drop[r] = "mark" => ~avatar[handler[r].url].here
    /\ clashed = {} => \A r, s \in Droppers :
         /\ handler[r].url # None /\ Discards(s, handler[r].url) /\ drop[r] # "idle" => r = s
         /\ drop[r] = "copy" => avatar[handler[r].url].here

\* While nothing failed an upload's handler waits for it.
UploadsInv ==
    faults = MaxFail => \A a \in UploadReqs :
        /\ upload[a] # "failed"
        /\ upload[a] = "sent" => handler[a].pc = "upload"

AvatarsInv ==
    /\ ProfilesInv
    /\ ClashesInv /\ OwnersInv /\ AloneInv /\ ShownInv /\ DropsInv /\ UploadsInv
    /\ NoAvatarOrphans
=============================================================================
