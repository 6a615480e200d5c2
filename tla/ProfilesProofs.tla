--------------------------- MODULE ProfilesProofs ---------------------------
(***************************************************************************)
(* The invariant of Profiles and what it implies, for every number of      *)
(* users, requests, avatars and failures; and that the accounts keep their *)
(* own invariant when profiles change usernames.                           *)
(***************************************************************************)
EXTENDS Profiles, AccountsProofs

LEMMA Parts ==
  /\ CreateReqs \subseteq RenameReqs /\ UpdateReqs \subseteq RenameReqs
  /\ RenameReqs \subseteq ProfileReqs /\ CreateReqs \cap UpdateReqs = {}
  /\ CreateReqs \subseteq Texts /\ UpdateReqs \subseteq Texts
  /\ UploadReqs \subseteq Droppers /\ DeleteReqs \subseteq Droppers
  /\ Droppers \subseteq ProfileReqs /\ RenameReqs \cap Droppers = {}
  /\ UploadReqs \cap DeleteReqs = {} /\ Texts \cap Droppers = {}
  /\ None \notin UploadReqs /\ None \notin Texts /\ None \notin CreateReqs
  BY ProfilesAssumption DEF Droppers, ProfileReqs, Texts

LEMMA ProfilesInitInv == Init => AInv /\ ProfilesInv
  <1> SUFFICES ASSUME Init PROVE AInv /\ ProfilesInv
    OBVIOUS
  <1>1. AInv
    BY InitInv DEF Init
  <1>2. ProfilesTypeOK
    BY ProfilesAssumption DEF Init, ProfilesTypeOK, ProfileRow, ProfileHandler, Idle
  <1>3. HoldersInv /\ StoredInv
    BY Parts DEF Init, HoldersInv, StoredInv, NoAvatarLost, Idle
  <1>4. CreatedInv
    BY Parts, Kinds DEF Init, CreatedInv, Idle, AccountsInit, Handler
  <1> QED
    BY <1>1, <1>2, <1>3, <1>4 DEF ProfilesInv

-----------------------------------------------------------------------------
(* The accounts *)

\* A step of a profile's handler starts a change of the username, or leaves
\* the accounts alone.
Aside == UNCHANGED <<accountTables, req>> /\ (faults' = faults \/ Fail)

LEMMA ProfileSteps ==
  ASSUME HoldersInv, ProfileStep
  PROVE  \/ \E r \in RenameReqs, u \in Ids, n \in Names :
              /\ RenameStart(r, u, n) /\ handler[r].pc = "name"
              /\ UNCHANGED profileVars
         \/ Aside
  <1>1. ASSUME NEW r \in CreateReqs \cup UpdateReqs, CallRename(r)
        PROVE  \E u \in Ids, n \in Names :
                 RenameStart(r, u, n) /\ handler[r].pc = "name" /\ UNCHANGED profileVars
    BY <1>1, Parts DEF CallRename, HoldersInv
  <1>2. ASSUME NEW r \in CreateReqs, CreateProfile(r), ~CallRename(r)
        PROVE  Aside
    BY <1>2 DEF CreateProfile, CreateFind, NameRefused, CreateSave, SaveFails, Aside, accountSteps
  <1>3. ASSUME NEW r \in UpdateReqs, UpdateProfile(r), ~CallRename(r)
        PROVE  Aside
    BY <1>3 DEF UpdateProfile, UpdateFind, NameRefused, UpdateSave, SaveFails, Aside, accountSteps
  <1>4. ASSUME NEW r \in DeleteReqs, DeleteProfile(r)
        PROVE  Aside
    BY <1>4 DEF DeleteProfile, DeleteFind, DeleteSave, Aside, accountSteps
  <1>5. ASSUME NEW r \in UploadReqs, UploadProfileAvatar(r)
        PROVE  Aside
    BY <1>5 DEF UploadProfileAvatar, UploadFind, UploadBasic, UploadFailed, UploadSave,
                UploadSaveAgain, SaveFails, Aside, accountSteps
  <1>6. ASSUME NEW r \in UploadReqs, UploadAvatar(r)
        PROVE  Aside
    BY <1>6 DEF UploadAvatar, Aside
  <1>7. ASSUME NEW r \in Droppers, DeleteAvatar(r)
        PROVE  Aside
    BY <1>7 DEF DeleteAvatar, CopyAvatar, RemoveAvatar, RemoveAvatarByUrl, DropFails, DropStep,
                Aside, accountSteps
  <1> QED
    BY <1>1, <1>2, <1>3, <1>4, <1>5, <1>6, <1>7, Parts DEF ProfileStep

LEMMA AsideStep ==
  ASSUME AInv, Aside, Race \/ raced' = raced
  PROVE  AInv'
  <1>1. TypeOK /\ UNCHANGED <<tables, last, req>> /\ expired' = expired
    BY DEF AInv, Aside, accountTables
  <1>2. faults' \in 0..MaxFail /\ faults' <= faults
    BY <1>1, SameBounds, FailBounds DEF Aside
  <1> QED
    BY <1>1, <1>2, ElsewhereStep DEF TypeOK

LEMMA AccountsKeep == AInv /\ HoldersInv /\ [Next]_vars => AInv'
  <1> SUFFICES ASSUME AInv, HoldersInv, [Next]_vars PROVE AInv'
    OBVIOUS
  <1>1. CASE AccountStep /\ Race
    BY <1>1, AccountStepInv
  <1>2. CASE ProfileStep /\ Race
    BY <1>2, ProfileSteps, AsideStep, FindSteps
  <1>3. CASE GatewayRestart /\ Race
    BY <1>3, RestartStep DEF GatewayRestart
  <1>4. CASE UNCHANGED vars
    BY <1>4, NextInv DEF vars
  <1> QED
    BY <1>1, <1>2, <1>3, <1>4 DEF Next

-----------------------------------------------------------------------------
(* What a handler does to itself and to a profile *)

Results == {"none", "ok", "exists", "taken", "notFound", "forbidden", "error", "lost"}
Stages == {"start", "name", "basic", "upload", "save", "again", "delete", "done"}
Other(r) == \A s \in ProfileReqs : s # r => handler'[s] = handler[s]

LEMMA Ending ==
  ASSUME ProfilesTypeOK, NEW r \in ProfileReqs, NEW res \in Results
  PROVE  /\ Ended(r, res) \in ProfileHandler
         /\ Ended(r, res).pc = "done" /\ Ended(r, res).res = res /\ Ended(r, res).text = None
         /\ Ended(r, res).url = IF r \in Droppers THEN handler[r].url ELSE None
  <1> DEFINE url == IF r \in Droppers THEN handler[r].url ELSE None
  <1>1. url \in UploadReqs \cup {None}
    BY DEF ProfilesTypeOK, ProfileHandler
  <1> DEFINE h == [Idle EXCEPT !.pc = "done", !.res = res, !.url = url]
  <1>2. Ended(r, res) = h
    BY DEF Ended
  <1> HIDE DEF url
  <1>3. h.pc = "done" /\ h.res = res /\ h.text = None /\ h.url = url
    BY DEF Idle
  <1>4. Idle \in ProfileHandler
    BY ProfilesAssumption DEF ProfileHandler, Idle
  <1>5. h \in ProfileHandler
    BY <1>1, <1>4 DEF ProfileHandler, Results
  <1> HIDE DEF h
  <1> QED
    BY <1>2, <1>3, <1>5 DEF url

LEMMA Ends ==
  ASSUME ProfilesTypeOK, NEW r \in ProfileReqs, NEW res \in Results, End(r, res)
  PROVE  /\ handler' \in [ProfileReqs -> ProfileHandler] /\ Other(r)
         /\ handler'[r].pc = "done" /\ handler'[r].res = res /\ handler'[r].text = None
         /\ handler'[r].url = IF r \in Droppers THEN handler[r].url ELSE None
  <1>1. handler \in [ProfileReqs -> ProfileHandler]
    BY DEF ProfilesTypeOK
  <1> DEFINE h == Ended(r, res)
  <1>2. /\ h \in ProfileHandler /\ h.pc = "done" /\ h.res = res /\ h.text = None
        /\ h.url = IF r \in Droppers THEN handler[r].url ELSE None
    BY Ending
  <1>3. handler' = [handler EXCEPT ![r] = h]
    BY DEF End
  <1> HIDE DEF h
  <1> QED
    BY <1>1, <1>2, <1>3 DEF Other

LEMMA Holding ==
  ASSUME ProfilesTypeOK, NEW r \in ProfileReqs, NEW u \in Ids, NEW pc \in Stages,
         Hold(r, u, pc)
  PROVE  /\ handler' \in [ProfileReqs -> ProfileHandler] /\ Other(r)
         /\ handler'[r].pc = pc /\ handler'[r].user = u
         /\ handler'[r].text = profile[u].text /\ handler'[r].url = profile[u].url
  <1>1. handler \in [ProfileReqs -> ProfileHandler] /\ profile[u] \in ProfileRow
    BY DEF ProfilesTypeOK
  <1> DEFINE id == IF HasProfile(u) THEN profile[u].id ELSE 0
             h == [Idle EXCEPT !.pc = pc, !.user = u, !.id = id, !.text = profile[u].text,
                               !.url = profile[u].url]
  <1>2. id \in 0..MaxInserts
    BY <1>1, ProfilesAssumption DEF ProfileRow
  <1>3. handler' = [handler EXCEPT ![r] = h]
    BY DEF Hold
  <1> HIDE DEF id
  <1>4. /\ h \in ProfileHandler /\ h.pc = pc /\ h.user = u
        /\ h.text = profile[u].text /\ h.url = profile[u].url
    BY <1>1, <1>2 DEF ProfileHandler, ProfileRow, Idle, Stages
  <1> HIDE DEF h
  <1> QED
    BY <1>1, <1>3, <1>4 DEF Other

LEMMA Proceeding ==
  ASSUME ProfilesTypeOK, NEW r \in ProfileReqs, NEW pc \in Stages, Proceed(r, pc)
  PROVE  /\ handler' \in [ProfileReqs -> ProfileHandler] /\ Other(r)
         /\ handler'[r].pc = pc /\ handler'[r].user = handler[r].user
         /\ handler'[r].text = handler[r].text /\ handler'[r].url = handler[r].url
  <1>1. handler \in [ProfileReqs -> ProfileHandler] /\ handler[r] \in ProfileHandler
    BY DEF ProfilesTypeOK
  <1> DEFINE h == [handler[r] EXCEPT !.pc = pc]
  <1>2. /\ h \in ProfileHandler /\ h.pc = pc /\ h.user = handler[r].user
        /\ h.text = handler[r].text /\ h.url = handler[r].url
    BY <1>1 DEF ProfileHandler, Stages
  <1>3. handler' = [handler EXCEPT ![r] = h]
    BY <1>1 DEF Proceed
  <1> HIDE DEF h
  <1> QED
    BY <1>1, <1>2, <1>3 DEF Other

LEMMA Upserting ==
  ASSUME ProfilesTypeOK, NEW u \in Ids, NEW p, p.text \in Texts \cup {None},
         p.url \in UploadReqs \cup {None}, Upsert(u, p)
  PROVE  /\ profile' \in [Ids -> ProfileRow]
         /\ \A v \in Ids : v # u => profile'[v] = profile[v]
         /\ profile'[u].text = p.text /\ profile'[u].st = "live"
         /\ profile'[u].url = IF p.url = None THEN profile[u].url ELSE p.url
  <1>1. profile \in [Ids -> ProfileRow] /\ profile[u] \in ProfileRow
    BY DEF ProfilesTypeOK
  <1> DEFINE id == IF HasProfile(u) THEN profile[u].id ELSE profile[u].id + 1
             url == IF p.url = None THEN profile[u].url ELSE p.url
             row == [st |-> "live", id |-> id, text |-> p.text, url |-> url]
  <1>2. id \in 0..MaxInserts
    BY <1>1, ProfilesAssumption DEF ProfileRow, Upsert
  <1>3. url \in UploadReqs \cup {None}
    BY <1>1 DEF ProfileRow
  <1>4. profile' = [profile EXCEPT ![u] = row]
    BY <1>1 DEF Upsert
  <1> HIDE DEF id, url
  <1>5. row \in ProfileRow /\ row.text = p.text /\ row.url = url /\ row.st = "live"
    BY <1>2, <1>3 DEF ProfileRow
  <1> HIDE DEF row
  <1> QED
    BY <1>1, <1>4, <1>5 DEF url

-----------------------------------------------------------------------------
(* A step of one handler of the gateway *)

\* What it may do: stop, or go on with a user; store or hold a URL that was
\* answered; send its upload, once, and its drop, once.
Moves(r) ==
  /\ handler' \in [ProfileReqs -> ProfileHandler] /\ Other(r) /\ avatar' = avatar
  /\ handler'[r].pc \notin {"start", "done"} => handler'[r].user \in Ids
  /\ handler'[r].url # None => upload[handler'[r].url] = "done"
  /\ handler'[r].pc = "again" => r \in UploadReqs /\ upload[r] = "done"
  /\ profile' \in [Ids -> ProfileRow]
  /\ \A u \in Ids : profile'[u].url # None => upload[profile'[u].url] = "done"

Sends(r) ==
  /\ \/ upload' = upload
     \/ r \in UploadReqs /\ upload[r] = "idle" /\ upload' = [upload EXCEPT ![r] = "sent"]
  /\ r \in UploadReqs /\ handler'[r].pc \in {"start", "basic"} => upload'[r] = "idle"

Drops(r) ==
  /\ \/ drop' = drop
     \/ /\ r \in Droppers
        /\ \/ drop' = [drop EXCEPT ![r] = "copy"] /\ handler'[r].url # None
           \/ drop' = [drop EXCEPT ![r] = "failed"]
  /\ r \in Droppers =>
       /\ drop[r] # "idle" => handler'[r].url = handler[r].url /\ drop' = drop
       /\ handler'[r].pc \in {"start", "basic", "upload", "delete"} => drop'[r] = "idle"

Stored == ProfilesTypeOK /\ HoldersInv /\ StoredInv

LEMMA HandlerMoves ==
  ASSUME Stored, NEW r \in ProfileReqs, Moves(r), Sends(r), Drops(r), clashed' \in SUBSET Ids
  PROVE  Stored'
  <1>0. ProfilesTypeOK /\ HoldersInv /\ StoredInv
    BY DEF Stored
  <1>1. /\ upload' \in [UploadReqs -> {"idle", "sent", "done", "failed"}]
        /\ \A a \in UploadReqs : /\ upload[a] = "done" => upload'[a] = "done"
                                 /\ upload'[a] = "done" => upload[a] = "done"
                                 /\ a # r => upload'[a] = upload[a]
    BY <1>0 DEF Sends, ProfilesTypeOK
  <1>2. /\ drop' \in [Droppers -> {"idle", "copy", "remove", "mark", "done", "failed"}]
        /\ \A s \in Droppers : s # r => drop'[s] = drop[s]
        /\ r \in Droppers => \/ drop'[r] = drop[r]
                             \/ drop[r] = "idle" /\ drop'[r] = "failed"
                             \/ drop[r] = "idle" /\ drop'[r] = "copy" /\ handler'[r].url # None
    BY <1>0 DEF Drops, ProfilesTypeOK
  <1>3. ProfilesTypeOK'
    BY <1>0, <1>1, <1>2 DEF Moves, ProfilesTypeOK
  <1>4. HoldersInv'
    <2>1. \A s \in ProfileReqs : handler'[s].pc \notin {"start", "done"} => handler'[s].user \in Ids
      BY <1>0 DEF Moves, Other, HoldersInv
    <2>2. \A s \in UploadReqs : handler'[s].pc \in {"start", "basic"} => upload'[s] = "idle"
      BY <1>0, <1>1, Parts DEF Moves, Sends, Other, HoldersInv
    <2>3. \A s \in Droppers :
            handler'[s].pc \in {"start", "basic", "upload", "delete"} => drop'[s] = "idle"
      BY <1>0, <1>2, Parts DEF Moves, Drops, Other, HoldersInv
    <2> QED
      BY <2>1, <2>2, <2>3 DEF HoldersInv
  <1>5. StoredInv'
    <2>0. /\ \A u \in Ids : profile'[u].url \in UploadReqs \cup {None}
          /\ \A s \in ProfileReqs : handler'[s].url \in UploadReqs \cup {None}
      BY DEF Moves, ProfileRow, ProfileHandler
    <2>1. \A u \in Ids : profile'[u].url # None => upload'[profile'[u].url] = "done"
      BY <1>1, <2>0 DEF Moves
    <2>2. \A s \in ProfileReqs : handler'[s].url # None => upload'[handler'[s].url] = "done"
      <3>1. \A s \in ProfileReqs : handler'[s].url # None => upload[handler'[s].url] = "done"
        BY <1>0 DEF Moves, Other, StoredInv
      <3> QED
        BY <1>1, <2>0, <3>1
    <2>3. \A a \in UploadReqs : handler'[a].pc = "again" => upload'[a] = "done"
      BY <1>0, <1>1, Parts DEF Moves, Other, StoredInv
    <2>4. \A a \in UploadReqs : upload'[a] # "done" => avatar'[a].meta = "none"
      BY <1>0, <1>1 DEF Moves, StoredInv
    <2>5. \A s \in Droppers : drop'[s] \in {"copy", "remove", "mark"} => handler'[s].url # None
      BY <1>0, <1>2, Parts DEF Moves, Drops, Other, StoredInv
    <2>6. \A s \in Droppers : drop'[s] \in {"remove", "mark"} =>
            drop[s] \in {"remove", "mark"} /\ handler'[s].url = handler[s].url
      BY <1>0, <1>2, Parts DEF Drops, Moves, Other
    <2>7. NoAvatarLost'
      BY <1>0 DEF Moves, StoredInv, NoAvatarLost
    <2> QED
      BY <1>0, <2>1, <2>2, <2>3, <2>4, <2>5, <2>6, <2>7 DEF Moves, StoredInv
  <1> QED
    BY <1>3, <1>4, <1>5 DEF Stored

\* What it may do to the texts: keep them, drop them, or be answered with the
\* one it brought; and what a creation owes to the username it asked for.
Writes(r) ==
  /\ \A u \in Ids : \/ profile'[u].text \in {profile[u].text, handler[r].text, None}
                    \/ profile'[u].text = r
  /\ r \in CreateReqs =>
       \/ handler'[r].pc = "done" /\ handler'[r].res = "ok"
       \/ \A u \in Ids : profile'[u].text \in {profile[u].text, handler[r].text, None}
  /\ handler'[r].text \in {handler[r].text, None} \cup {profile[u].text : u \in Ids}
  /\ handler[r].pc # "done" /\ handler'[r].pc # "start" /\ Other(r)
  /\ req' = req /\ (faults' = MaxFail => faults = MaxFail)
  /\ r \in CreateReqs /\ handler'[r].pc = "done" /\ handler'[r].res # "ok" =>
       req[r].pc \in {"start", "done"} /\ (faults' = MaxFail => req[r].res # "ok")

LEMMA CreatedStep ==
  ASSUME CreatedInv, NEW r \in ProfileReqs, Writes(r)
  PROVE  CreatedInv'
  <1> SUFFICES ASSUME NEW c \in CreateReqs
               PROVE  /\ \/ handler'[c].pc = "done" /\ handler'[c].res = "ok"
                         \/ /\ \A u \in Ids : profile'[u].text # c
                            /\ \A s \in ProfileReqs : handler'[s].text # c
                      /\ handler'[c].pc = "start" => req'[c].pc = "start"
                      /\ handler'[c].pc = "done" /\ handler'[c].res \notin {"ok", "lost"} =>
                           /\ req'[c].pc \in {"start", "done"}
                           /\ faults' = MaxFail => req'[c].res # "ok"
    BY DEF CreatedInv
  <1>1. c # None /\ c \in ProfileReqs
    BY Parts
  <1>2. CASE handler[c].pc = "done" /\ handler[c].res = "ok"
    BY <1>1, <1>2 DEF Writes, Other
  <1>3. CASE ~(handler[c].pc = "done" /\ handler[c].res = "ok")
    <2>1. /\ \A u \in Ids : profile[u].text # c
          /\ \A s \in ProfileReqs : handler[s].text # c
      BY <1>3 DEF CreatedInv
    <2>2. \A s \in ProfileReqs : handler'[s].text # c
      BY <1>1, <2>1 DEF Writes, Other
    <2>3. \/ handler'[c].pc = "done" /\ handler'[c].res = "ok"
          \/ \A u \in Ids : profile'[u].text # c
      BY <1>1, <2>1 DEF Writes
    <2>4. CASE c = r
      BY <2>2, <2>3, <2>4 DEF Writes
    <2>5. CASE c # r
      <3>1. handler'[c] = handler[c]
        BY <1>1, <2>5 DEF Writes, Other
      <3> QED
        BY <2>2, <2>3, <3>1 DEF Writes, CreatedInv
    <2> QED
      BY <2>4, <2>5
  <1> QED
    BY <1>2, <1>3

LEMMA HandlerStep ==
  ASSUME ProfilesInv, NEW r \in ProfileReqs, Moves(r), Sends(r), Drops(r), Writes(r),
         clashed' \in SUBSET Ids
  PROVE  ProfilesInv'
  BY HandlerMoves, CreatedStep DEF ProfilesInv, Stored

LEMMA FaultsFall ==
  ASSUME AInv, faults' = faults \/ Fail, faults' = MaxFail
  PROVE  faults = MaxFail
  BY FailBounds DEF AInv

LEMMA Clashes ==
  ASSUME ProfilesInv, Clash \/ clashed' = clashed
  PROVE  clashed' \in SUBSET Ids
  BY DEF ProfilesInv, ProfilesTypeOK, Clash

\* A handler that stops, of a creation with the username as it was or a failure.
LEMMA EndStep ==
  ASSUME AInv, ProfilesInv, NEW r \in ProfileReqs, NEW res \in Results, End(r, res),
         handler[r].pc # "done", UNCHANGED <<profile, avatar, upload, drop, req>>,
         faults' = faults \/ Fail, clashed' \in SUBSET Ids,
         r \in CreateReqs /\ res # "ok" =>
           req[r].pc \in {"start", "done"} /\ (faults' = MaxFail => req[r].res # "ok")
  PROVE  ProfilesInv'
  <1>0. ProfilesTypeOK /\ HoldersInv /\ StoredInv
    BY DEF ProfilesInv
  <1>1. /\ handler' \in [ProfileReqs -> ProfileHandler] /\ Other(r)
        /\ handler'[r].pc = "done" /\ handler'[r].res = res /\ handler'[r].text = None
        /\ handler'[r].url = IF r \in Droppers THEN handler[r].url ELSE None
    BY <1>0, Ends
  <1>2. Moves(r)
    BY <1>0, <1>1 DEF Moves, StoredInv, ProfilesTypeOK
  <1>3. Sends(r) /\ Drops(r)
    BY <1>0, <1>1 DEF Sends, Drops
  <1>4. Writes(r)
    BY <1>1, FaultsFall DEF Writes
  <1> QED
    BY <1>2, <1>3, <1>4, HandlerStep

\* A handler that reads the profile of a user; an upload may be sent at once.
LEMMA HoldStep ==
  ASSUME AInv, ProfilesInv, NEW r \in ProfileReqs, NEW u \in Ids,
         NEW pc \in Stages \ {"start", "done", "again"}, Hold(r, u, pc),
         handler[r].pc = "start", UNCHANGED <<profile, avatar, drop, req, faults>>,
         \/ r \notin UploadReqs /\ upload' = upload
         \/ pc = "basic" /\ upload' = upload
         \/ r \in UploadReqs /\ pc = "upload" /\ upload' = [upload EXCEPT ![r] = "sent"],
         clashed' \in SUBSET Ids
  PROVE  ProfilesInv'
  <1>0. ProfilesTypeOK /\ HoldersInv /\ StoredInv
    BY DEF ProfilesInv
  <1>1. /\ handler' \in [ProfileReqs -> ProfileHandler] /\ Other(r)
        /\ handler'[r].pc = pc /\ handler'[r].user = u
        /\ handler'[r].text = profile[u].text /\ handler'[r].url = profile[u].url
    BY <1>0, Holding
  <1>2. Moves(r)
    BY <1>0, <1>1 DEF Moves, StoredInv, ProfilesTypeOK
  <1>3. Sends(r)
    BY <1>0, <1>1, Parts DEF Sends, HoldersInv
  <1>4. Drops(r)
    BY <1>0, <1>1 DEF Drops, HoldersInv
  <1>5. Writes(r)
    BY <1>1 DEF Writes
  <1> QED
    BY <1>2, <1>3, <1>4, <1>5, HandlerStep

\* A handler that writes the profile it holds, with a text or a URL it brought,
\* and stops with success.
LEMMA WriteStep ==
  ASSUME AInv, ProfilesInv, NEW r \in ProfileReqs, NEW p,
         Upsert(handler[r].user, p), End(r, "ok"), handler[r].pc \notin {"start", "done"},
         p.text \in {handler[r].text, r} /\ p.text \in Texts \cup {None},
         p.url \in {handler[r].url, r, None} /\ p.url \in UploadReqs \cup {None},
         p.url = r => handler[r].pc = "again",
         UNCHANGED <<avatar, upload, drop, req, faults>>, clashed' \in SUBSET Ids
  PROVE  ProfilesInv'
  <1>0. ProfilesTypeOK /\ HoldersInv /\ StoredInv /\ handler[r].user \in Ids
    BY DEF ProfilesInv, HoldersInv
  <1>1. /\ handler' \in [ProfileReqs -> ProfileHandler] /\ Other(r)
        /\ handler'[r].pc = "done" /\ handler'[r].res = "ok" /\ handler'[r].text = None
        /\ handler'[r].url = IF r \in Droppers THEN handler[r].url ELSE None
    BY <1>0, Ends DEF Results
  <1> DEFINE u == handler[r].user
  <1>2. /\ profile' \in [Ids -> ProfileRow]
        /\ \A v \in Ids : v # u => profile'[v] = profile[v]
        /\ profile'[u].text = p.text
        /\ profile'[u].url = IF p.url = None THEN profile[u].url ELSE p.url
    BY <1>0, Upserting
  <1>3. p.url # None => upload[p.url] = "done"
    BY <1>0, Parts DEF StoredInv
  <1>4. \A v \in Ids : profile'[v].url # None => upload[profile'[v].url] = "done"
    BY <1>0, <1>2, <1>3 DEF StoredInv
  <1>5. \A v \in Ids : profile'[v].text \in {profile[v].text, handler[r].text, None, r}
    BY <1>2
  <1> HIDE DEF u
  <1>6. Moves(r)
    BY <1>0, <1>1, <1>2, <1>4 DEF Moves, StoredInv
  <1>7. Sends(r) /\ Drops(r)
    BY <1>0, <1>1 DEF Sends, Drops
  <1>8. Writes(r)
    BY <1>1, <1>5 DEF Writes
  <1> QED
    BY <1>6, <1>7, <1>8, HandlerStep

-----------------------------------------------------------------------------
(* The steps *)

LEMMA SaveFailing ==
  ASSUME AInv, ProfilesInv, NEW r \in ProfileReqs, SaveFails(r), handler[r].pc # "done",
         UNCHANGED <<avatar, upload, drop, req>>, clashed' \in SUBSET Ids,
         r \in CreateReqs => req[r].pc \in {"start", "done"}
  PROVE  ProfilesInv'
  <1>1. End(r, "error") /\ Fail /\ profile' = profile /\ faults' # MaxFail /\ "error" \in Results
    BY FailBounds DEF SaveFails, AInv, Results
  <1> QED
    BY <1>1, EndStep

LEMMA CreateSteps ==
  ASSUME AInv, ProfilesInv, NEW r \in CreateReqs, CreateFind(r) \/ NameRefused(r) \/ CreateSave(r),
         clashed' \in SUBSET Ids
  PROVE  ProfilesInv'
  <1>0. /\ r \in ProfileReqs /\ r \in Reqs /\ r \notin UploadReqs /\ r \in Texts
        /\ ProfilesTypeOK /\ HoldersInv /\ CreatedInv
        /\ \A q \in Reqs : req[q].pc # "done" => req[q].res = "none"
    BY Parts, Kinds DEF ProfilesInv, AInv, HandlersInv
  <1>1. CASE CreateFind(r)
    <2>1. PICK u \in Ids : IF HasProfile(u) THEN End(r, "exists") ELSE Hold(r, u, "name")
      BY <1>1 DEF CreateFind
    <2>2. /\ handler[r].pc = "start" /\ UNCHANGED <<profile, avatar, upload, drop, req, faults>>
          /\ req[r].pc = "start" /\ req[r].res = "none"
      BY <1>0, <1>1 DEF CreateFind, accountSteps, CreatedInv
    <2>3. CASE End(r, "exists")
      BY <1>0, <2>2, <2>3, EndStep DEF Results
    <2>4. CASE Hold(r, u, "name")
      BY <1>0, <2>2, <2>4, HoldStep DEF Stages
    <2> QED
      BY <2>1, <2>3, <2>4
  <1>2. CASE NameRefused(r)
    <2>1. /\ handler[r].pc = "name" /\ UNCHANGED <<profile, avatar, upload, drop, req, faults>>
          /\ req[r].res \in {"taken", "error"} /\ End(r, req[r].res)
      BY <1>2 DEF NameRefused, accountSteps
    <2>2. req[r].pc = "done" /\ req[r].res \in Results
      BY <1>0, <2>1 DEF Results
    <2> QED
      BY <1>0, <2>1, <2>2, EndStep
  <1>3. CASE CreateSave(r)
    <2>1. /\ handler[r].pc = "name" /\ req[r].res \in {"ok", "same"} /\ req[r].pc = "done"
          /\ UNCHANGED <<avatar, upload, drop, req>>
      BY <1>0, <1>3 DEF CreateSave, Renamed
    <2>2. CASE SaveFails(r)
      BY <1>0, <2>1, <2>2, SaveFailing
    <2>3. CASE Upsert(handler[r].user, New(r)) /\ End(r, "ok") /\ faults' = faults
      <3> DEFINE p == New(r)
      <3>1. p.text = r /\ p.url = None
        BY DEF New
      <3>2. Upsert(handler[r].user, p) /\ r # None
        BY <2>3, Parts
      <3> HIDE DEF p
      <3> QED
        BY <1>0, <2>1, <2>3, <3>1, <3>2, WriteStep
    <2> QED
      BY <1>3, <2>2, <2>3 DEF CreateSave
  <1> QED
    BY <1>1, <1>2, <1>3

LEMMA UpdateSteps ==
  ASSUME AInv, ProfilesInv, NEW r \in UpdateReqs, UpdateFind(r) \/ NameRefused(r) \/ UpdateSave(r),
         clashed' \in SUBSET Ids
  PROVE  ProfilesInv'
  <1>0. /\ r \in ProfileReqs /\ r \notin UploadReqs /\ r \notin CreateReqs /\ r \in Texts
        /\ ProfilesTypeOK /\ HoldersInv
    BY Parts DEF ProfilesInv
  <1>1. CASE UpdateFind(r)
    <2>1. /\ handler[r].pc = "start" /\ UNCHANGED <<profile, avatar, upload, drop, req, faults>>
      BY <1>1 DEF UpdateFind, accountSteps
    <2>2. \/ End(r, "notFound") \/ End(r, "forbidden")
          \/ \E u \in Ids, pc \in {"name", "save"} : Hold(r, u, pc)
      BY <1>1 DEF UpdateFind
    <2>3. CASE End(r, "notFound") \/ End(r, "forbidden")
      BY <1>0, <2>1, <2>3, EndStep DEF Results
    <2>4. CASE \E u \in Ids, pc \in {"name", "save"} : Hold(r, u, pc)
      BY <1>0, <2>1, <2>4, HoldStep DEF Stages
    <2> QED
      BY <2>2, <2>3, <2>4
  <1>2. CASE NameRefused(r)
    <2>1. /\ handler[r].pc = "name" /\ UNCHANGED <<profile, avatar, upload, drop, req, faults>>
          /\ req[r].res \in Results /\ End(r, req[r].res)
      BY <1>2 DEF NameRefused, accountSteps, Results
    <2> QED
      BY <1>0, <2>1, EndStep
  <1>3. CASE UpdateSave(r)
    <2>1. handler[r].pc \in {"name", "save"} /\ UNCHANGED <<avatar, upload, drop, req>>
      BY <1>3 DEF UpdateSave, Renamed
    <2>2. CASE SaveFails(r)
      BY <1>0, <2>1, <2>2, SaveFailing
    <2>3. CASE End(r, "ok") /\ UNCHANGED <<profile, faults>>
      BY <1>0, <2>1, <2>3, EndStep DEF Results
    <2>4. CASE Upsert(handler[r].user, Rewrite(Restored(r), r)) /\ End(r, "ok") /\ faults' = faults
      <3> DEFINE p == Rewrite(Restored(r), r)
      <3>1. p.text = r /\ p.url = handler[r].url
        BY DEF Rewrite, Restored
      <3>2. /\ Upsert(handler[r].user, p) /\ r \notin Droppers
            /\ handler[r].url \in UploadReqs \cup {None}
        BY <1>0, <2>4, Parts DEF ProfilesTypeOK, ProfileHandler
      <3>3. p.url # r
        BY <3>1, <3>2, <1>0, Parts
      <3> HIDE DEF p
      <3> QED
        BY <1>0, <2>1, <2>4, <3>1, <3>2, <3>3, WriteStep
    <2> QED
      BY <1>3, <2>2, <2>3, <2>4 DEF UpdateSave
  <1> QED
    BY <1>1, <1>2, <1>3

LEMMA DeleteSteps ==
  ASSUME AInv, ProfilesInv, NEW r \in DeleteReqs, DeleteProfile(r), clashed' \in SUBSET Ids
  PROVE  ProfilesInv'
  <1>0. /\ r \in ProfileReqs /\ r \notin UploadReqs /\ r \notin CreateReqs /\ r \in Droppers
        /\ ProfilesTypeOK /\ HoldersInv /\ StoredInv
    BY Parts DEF ProfilesInv
  <1>1. CASE DeleteFind(r)
    <2>1. /\ handler[r].pc = "start" /\ UNCHANGED <<profile, avatar, upload, drop, req, faults>>
      BY <1>1 DEF DeleteFind, accountSteps
    <2>2. PICK u \in Ids : End(r, "notFound") \/ Hold(r, u, "delete")
      BY <1>1 DEF DeleteFind
    <2>3. CASE End(r, "notFound")
      BY <1>0, <2>1, <2>3, EndStep DEF Results
    <2>4. CASE Hold(r, u, "delete")
      BY <1>0, <2>1, <2>4, HoldStep DEF Stages
    <2> QED
      BY <2>2, <2>3, <2>4
  <1>2. CASE DeleteSave(r)
    <2> DEFINE u == handler[r].user
    <2>1. /\ handler[r].pc = "delete" /\ UNCHANGED <<avatar, upload, req, faults>> /\ u \in Ids
      BY <1>0, <1>2 DEF DeleteSave, accountSteps, HoldersInv
    <2>2. CASE End(r, "error") /\ UNCHANGED <<profile, drop>>
      BY <1>0, <2>1, <2>2, EndStep DEF Results
    <2>3. CASE /\ SoftDelete(u) /\ End(r, "ok")
               /\ drop' = [drop EXCEPT ![r] = IF handler[r].url = None THEN "failed" ELSE "copy"]
      <3>1. /\ handler' \in [ProfileReqs -> ProfileHandler] /\ Other(r)
            /\ handler'[r].pc = "done" /\ handler'[r].res = "ok" /\ handler'[r].text = None
            /\ handler'[r].url = handler[r].url
        BY <1>0, <2>3, Ends DEF Results
      <3>2. /\ profile' \in [Ids -> ProfileRow]
            /\ \A v \in Ids : v # u => profile'[v] = profile[v]
            /\ profile'[u].text = None /\ profile'[u].url = None
        <4>1. profile \in [Ids -> ProfileRow] /\ profile[u] \in ProfileRow
          BY <1>0, <2>1 DEF ProfilesTypeOK
        <4> DEFINE row == [profile[u] EXCEPT !.st = "none", !.text = None, !.url = None]
        <4>2. row \in ProfileRow /\ row.text = None /\ row.url = None
          BY <4>1 DEF ProfileRow
        <4>3. profile' = [profile EXCEPT ![u] = row]
          BY <2>1, <2>3, <4>1 DEF SoftDelete
        <4> HIDE DEF row
        <4> QED
          BY <2>1, <4>1, <4>2, <4>3
      <3>3. \A v \in Ids : profile'[v].url # None => upload[profile'[v].url] = "done"
        BY <1>0, <3>2 DEF StoredInv
      <3>4. \A v \in Ids : profile'[v].text \in {profile[v].text, None}
        BY <3>2
      <3> HIDE DEF u
      <3>5. Moves(r)
        BY <1>0, <2>1, <3>1, <3>2, <3>3 DEF Moves, StoredInv
      <3>6. Sends(r)
        BY <1>0, <2>1 DEF Sends
      <3>7. drop[r] = "idle"
        BY <1>0, <2>1 DEF HoldersInv
      <3>8. Drops(r)
        BY <1>0, <2>3, <3>1, <3>7 DEF Drops
      <3>9. Writes(r)
        BY <1>0, <2>1, <3>1, <3>4 DEF Writes
      <3> QED
        BY <1>0, <3>5, <3>6, <3>8, <3>9, HandlerStep
    <2> QED
      BY <1>2, <2>2, <2>3 DEF DeleteSave
  <1> QED
    BY <1>1, <1>2 DEF DeleteProfile

LEMMA UploadSteps ==
  ASSUME AInv, ProfilesInv, NEW r \in UploadReqs, UploadProfileAvatar(r), clashed' \in SUBSET Ids
  PROVE  ProfilesInv'
  <1> DEFINE u == handler[r].user
  <1>0. /\ r \in ProfileReqs /\ r \notin CreateReqs /\ r \in Droppers /\ r # None
        /\ ProfilesTypeOK /\ HoldersInv /\ StoredInv
        /\ handler[r].text \in Texts \cup {None} /\ handler[r].url \in UploadReqs \cup {None}
    BY Parts DEF ProfilesInv, ProfilesTypeOK, ProfileHandler
  <1>1. CASE UploadFind(r)
    <2>1. handler[r].pc = "start" /\ UNCHANGED <<profile, avatar, drop, req, faults>>
      BY <1>1 DEF UploadFind, accountSteps
    <2>2. PICK v \in Ids : /\ Hold(r, v, IF HasProfile(v) THEN "upload" ELSE "basic")
                           /\ upload' = IF HasProfile(v) THEN [upload EXCEPT ![r] = "sent"]
                                        ELSE upload
      BY <1>1 DEF UploadFind
    <2>3. CASE HasProfile(v)
      BY <1>0, <2>1, <2>2, <2>3, HoldStep DEF Stages
    <2>4. CASE ~HasProfile(v)
      BY <1>0, <2>1, <2>2, <2>4, HoldStep DEF Stages
    <2> QED
      BY <2>3, <2>4
  <1>2. CASE UploadBasic(r)
    <2>1. handler[r].pc = "basic" /\ UNCHANGED <<avatar, drop, req>> /\ u \in Ids
      BY <1>0, <1>2 DEF UploadBasic, HoldersInv
    <2>2. CASE SaveFails(r) /\ UNCHANGED upload
      BY <1>0, <2>1, <2>2, SaveFailing
    <2>3. CASE /\ Upsert(u, CreateBasic) /\ Proceed(r, "upload")
               /\ upload' = [upload EXCEPT ![r] = "sent"] /\ faults' = faults
      <3>1. /\ handler' \in [ProfileReqs -> ProfileHandler] /\ Other(r)
            /\ handler'[r].pc = "upload" /\ handler'[r].user = u
            /\ handler'[r].text = handler[r].text /\ handler'[r].url = handler[r].url
        BY <1>0, <2>3, Proceeding DEF Stages
      <3>2. /\ profile' \in [Ids -> ProfileRow]
            /\ \A v \in Ids : v # u => profile'[v] = profile[v]
            /\ profile'[u].text = None /\ profile'[u].url = profile[u].url
        <4> DEFINE p == CreateBasic
        <4>1. p.text = None /\ p.url = None
          BY DEF CreateBasic, New
        <4> HIDE DEF u, p
        <4> QED
          BY <1>0, <2>1, <2>3, <4>1, Upserting DEF p
      <3> HIDE DEF u
      <3>3. \A v \in Ids : profile'[v].url # None => upload[profile'[v].url] = "done"
        BY <1>0, <3>2 DEF StoredInv
      <3>4. \A v \in Ids : profile'[v].text \in {profile[v].text, None}
        BY <3>2
      <3>5. Moves(r)
        BY <1>0, <2>1, <3>1, <3>2, <3>3 DEF Moves, StoredInv
      <3>6. Sends(r) /\ Drops(r)
        BY <1>0, <2>1, <2>3, <3>1 DEF Sends, Drops, HoldersInv
      <3>7. Writes(r)
        BY <1>0, <2>1, <2>3, <3>1, <3>4 DEF Writes
      <3> QED
        BY <1>0, <3>5, <3>6, <3>7, HandlerStep
    <2> QED
      BY <1>2, <2>2, <2>3 DEF UploadBasic
  <1>3. CASE UploadFailed(r)
    <2>1. /\ handler[r].pc = "upload" /\ End(r, "error")
          /\ UNCHANGED <<profile, avatar, upload, drop, req, faults>>
      BY <1>3 DEF UploadFailed, accountSteps
    <2> QED
      BY <1>0, <2>1, EndStep DEF Results
  <1>4. CASE UploadSave(r)
    <2>1. /\ handler[r].pc = "upload" /\ UNCHANGED <<avatar, upload, req>> /\ u \in Ids
          /\ upload[r] = "done"
      BY <1>0, <1>4 DEF UploadSave, HoldersInv
    <2>2. CASE SaveFails(r) /\ UNCHANGED drop
      BY <1>0, <2>1, <2>2, SaveFailing
    <2>3. CASE /\ Upsert(u, UpdateAvatarUrl(Restored(r), r)) /\ Proceed(r, "again")
               /\ drop' = IF handler[r].url = None THEN drop ELSE [drop EXCEPT ![r] = "copy"]
               /\ faults' = faults
      <3>1. /\ handler' \in [ProfileReqs -> ProfileHandler] /\ Other(r)
            /\ handler'[r].pc = "again" /\ handler'[r].user = u
            /\ handler'[r].text = handler[r].text /\ handler'[r].url = handler[r].url
        BY <1>0, <2>3, Proceeding DEF Stages
      <3>2. /\ profile' \in [Ids -> ProfileRow]
            /\ \A v \in Ids : v # u => profile'[v] = profile[v]
            /\ profile'[u].text = handler[r].text /\ profile'[u].url = r
        <4> DEFINE p == UpdateAvatarUrl(Restored(r), r)
        <4>1. p.text = handler[r].text /\ p.url = r
          BY DEF UpdateAvatarUrl, Restored
        <4> HIDE DEF u, p
        <4> QED
          BY <1>0, <2>1, <2>3, <4>1, Upserting DEF p
      <3> HIDE DEF u
      <3>3. \A v \in Ids : profile'[v].url # None => upload[profile'[v].url] = "done"
        BY <1>0, <2>1, <3>2 DEF StoredInv
      <3>4. \A v \in Ids : profile'[v].text \in {profile[v].text, handler[r].text}
        BY <3>2
      <3>5. Moves(r)
        BY <1>0, <2>1, <3>1, <3>2, <3>3 DEF Moves, StoredInv
      <3>6. drop[r] = "idle"
        BY <1>0, <2>1 DEF HoldersInv
      <3>7. Sends(r) /\ Drops(r)
        BY <1>0, <2>1, <2>3, <3>1, <3>6 DEF Sends, Drops
      <3>8. Writes(r)
        BY <1>0, <2>1, <2>3, <3>1, <3>4 DEF Writes
      <3> QED
        BY <1>0, <3>5, <3>7, <3>8, HandlerStep
    <2> QED
      BY <1>4, <2>2, <2>3 DEF UploadSave
  <1>5. CASE UploadSaveAgain(r)
    <2>1. handler[r].pc = "again" /\ UNCHANGED <<avatar, upload, drop, req>>
      BY <1>5 DEF UploadSaveAgain
    <2>2. CASE SaveFails(r)
      BY <1>0, <2>1, <2>2, SaveFailing
    <2>3. CASE /\ Upsert(handler[r].user, UpdateAvatarUrl(Restored(r), r))
               /\ End(r, "ok") /\ faults' = faults
      <3> DEFINE p == UpdateAvatarUrl(Restored(r), r)
      <3>1. p.text = handler[r].text /\ p.url = r
        BY DEF UpdateAvatarUrl, Restored
      <3>2. Upsert(handler[r].user, p)
        BY <2>3
      <3> HIDE DEF p
      <3> QED
        BY <1>0, <2>1, <2>3, <3>1, <3>2, WriteStep
    <2> QED
      BY <1>5, <2>2, <2>3 DEF UploadSaveAgain
  <1> QED
    BY <1>1, <1>2, <1>3, <1>4, <1>5 DEF UploadProfileAvatar

\* A step that leaves handlers and profiles alone owes the creations only that
\* it starts no change of a username for them.
LEMMA ElsewhereKeeps ==
  ASSUME CreatedInv, UNCHANGED <<handler, profile>>, faults' = MaxFail => faults = MaxFail,
         \A c \in CreateReqs : handler[c].pc # "name" /\ req[c].pc \in {"start", "done"} =>
                                 req'[c] = req[c]
  PROVE  CreatedInv'
  BY DEF CreatedInv

\* The storage service: an upload, and the stages of a drop.
LEMMA UploadAvatarStep ==
  ASSUME AInv, ProfilesInv, NEW r \in UploadReqs, UploadAvatar(r), clashed' \in SUBSET Ids
  PROVE  ProfilesInv'
  <1>0. /\ ProfilesTypeOK /\ HoldersInv /\ StoredInv /\ CreatedInv
        /\ upload[r] = "sent" /\ avatar[r].meta = "none"
        /\ UNCHANGED <<req, profile, handler, drop>>
    BY DEF ProfilesInv, UploadAvatar, StoredInv
  <1>1. PICK x \in [here : BOOLEAN, trash : BOOLEAN, meta : {"none", "live", "deleted"}],
             to \in {"done", "failed"} :
          /\ avatar' = [avatar EXCEPT ![r] = x] /\ upload' = [upload EXCEPT ![r] = to]
          /\ \/ to = "done" /\ x.here
             \/ to = "failed" /\ x.meta = "none"
    <2>1. CASE avatar' = [avatar EXCEPT ![r] = [here |-> TRUE, trash |-> FALSE, meta |-> "live"]]
               /\ upload' = [upload EXCEPT ![r] = "done"]
      <3> DEFINE y == [here |-> TRUE, trash |-> FALSE, meta |-> "live"]
      <3>1. y \in [here : BOOLEAN, trash : BOOLEAN, meta : {"none", "live", "deleted"}] /\ y.here
        OBVIOUS
      <3>2. avatar' = [avatar EXCEPT ![r] = y]
        BY <2>1
      <3> HIDE DEF y
      <3> QED
        BY <2>1, <3>1, <3>2
    <2>2. CASE (\E put \in BOOLEAN : avatar' = [avatar EXCEPT ![r].here = put])
               /\ upload' = [upload EXCEPT ![r] = "failed"]
      <3>1. PICK put \in BOOLEAN : avatar' = [avatar EXCEPT ![r].here = put]
        BY <2>2
      <3> DEFINE y == [avatar[r] EXCEPT !.here = put]
      <3>2. /\ y \in [here : BOOLEAN, trash : BOOLEAN, meta : {"none", "live", "deleted"}]
            /\ y.meta = "none"
        BY <1>0 DEF ProfilesTypeOK
      <3>3. avatar' = [avatar EXCEPT ![r] = y]
        BY <1>0, <3>1 DEF ProfilesTypeOK
      <3> HIDE DEF y
      <3> QED
        BY <2>2, <3>2, <3>3
    <2> QED
      BY <2>1, <2>2 DEF UploadAvatar
  <1>2. /\ avatar' \in [UploadReqs -> [here : BOOLEAN, trash : BOOLEAN,
                                       meta : {"none", "live", "deleted"}]]
        /\ upload' \in [UploadReqs -> {"idle", "sent", "done", "failed"}]
        /\ \A a \in UploadReqs : a # r => avatar'[a] = avatar[a] /\ upload'[a] = upload[a]
        /\ upload'[r] \in {"done", "failed"}
        /\ (avatar'[r].here \/ (upload'[r] = "failed" /\ avatar'[r].meta = "none"))
        /\ upload'[r] # "done" => avatar'[r].meta = "none"
    <2>1. avatar'[r] = x /\ upload'[r] = to
      BY <1>0, <1>1 DEF ProfilesTypeOK
    <2> QED
      BY <1>0, <1>1, <2>1 DEF ProfilesTypeOK
  <1>3. ProfilesTypeOK'
    BY <1>0, <1>2 DEF ProfilesTypeOK
  <1>4. HoldersInv'
    BY <1>0, <1>2, Parts DEF HoldersInv
  <1>5. StoredInv'
    <2>1. /\ \A u \in Ids : profile[u].url \in UploadReqs \cup {None}
          /\ \A s \in ProfileReqs : handler[s].url \in UploadReqs \cup {None}
      BY <1>0 DEF ProfilesTypeOK, ProfileRow, ProfileHandler
    <2>2. \A a \in UploadReqs : upload[a] = "done" => a # r /\ upload'[a] = "done"
      BY <1>0, <1>2
    <2>3. \A s \in Droppers : drop[s] \in {"remove", "mark"} =>
             handler[s].url # r /\ handler[s].url \in UploadReqs
      BY <1>0, <2>1, Parts DEF StoredInv
    <2>4. NoAvatarLost'
      BY <1>0, <1>2 DEF StoredInv, NoAvatarLost
    <2>5. \A u \in Ids : profile'[u].url # None => upload'[profile'[u].url] = "done"
      BY <1>0, <2>1, <2>2 DEF StoredInv
    <2>6. \A s \in ProfileReqs : handler'[s].url # None => upload'[handler'[s].url] = "done"
      BY <1>0, <2>1, <2>2 DEF StoredInv
    <2>7. \A a \in UploadReqs : /\ handler'[a].pc = "again" => upload'[a] = "done"
                                /\ upload'[a] # "done" => avatar'[a].meta = "none"
      BY <1>0, <1>2 DEF StoredInv
    <2>8. \A s \in Droppers : /\ drop'[s] \in {"copy", "remove", "mark"} => handler'[s].url # None
                              /\ drop'[s] \in {"remove", "mark"} => avatar'[handler'[s].url].trash
      BY <1>0, <1>2, <2>3 DEF StoredInv
    <2> QED
      BY <2>4, <2>5, <2>6, <2>7, <2>8 DEF StoredInv
  <1>6. faults' = MaxFail => faults = MaxFail
    BY FaultsFall DEF UploadAvatar
  <1>7. CreatedInv'
    BY <1>0, <1>6, ElsewhereKeeps
  <1> QED
    BY <1>3, <1>4, <1>5, <1>7 DEF ProfilesInv

LEMMA DropSteps ==
  ASSUME AInv, ProfilesInv, NEW r \in Droppers, DeleteAvatar(r), clashed' \in SUBSET Ids
  PROVE  ProfilesInv'
  <1> DEFINE a == handler[r].url
  <1>0. /\ ProfilesTypeOK /\ HoldersInv /\ StoredInv /\ CreatedInv
        /\ drop[r] \in {"copy", "remove", "mark"} /\ r \in ProfileReqs
        /\ UNCHANGED <<req, profile, handler, upload>>
    BY Parts DEF ProfilesInv, DeleteAvatar, CopyAvatar, RemoveAvatar, RemoveAvatarByUrl,
                 DropFails, DropStep, accountSteps
  <1>1. a \in UploadReqs /\ upload[a] = "done"
    BY <1>0 DEF StoredInv, ProfilesTypeOK, ProfileHandler
  <1>2. PICK x, to :
          /\ avatar' = [avatar EXCEPT ![a] = x] /\ drop' = [drop EXCEPT ![r] = to]
          /\ \/ to = "failed" /\ x = avatar[a]
             \/ to = "remove" /\ x = [avatar[a] EXCEPT !.trash = TRUE]
             \/ to = "mark" /\ avatar[a].trash /\ x = [avatar[a] EXCEPT !.here = FALSE]
             \/ to = "done" /\ avatar[a].trash /\ x = [avatar[a] EXCEPT !.meta = "deleted"]
    <2>1. CASE DropFails(r)
      <3>1. avatar' = [avatar EXCEPT ![a] = avatar[a]] /\ drop' = [drop EXCEPT ![r] = "failed"]
        BY <1>0, <2>1 DEF DropFails, ProfilesTypeOK
      <3> QED
        BY <3>1
    <2>2. CASE CopyAvatar(r)
      BY <2>2 DEF CopyAvatar, DropStep, Dropped
    <2>3. CASE RemoveAvatar(r)
      BY <1>0, <2>3 DEF RemoveAvatar, DropStep, Dropped, StoredInv
    <2>4. CASE RemoveAvatarByUrl(r)
      BY <1>0, <2>4 DEF RemoveAvatarByUrl, DropStep, Dropped, StoredInv
    <2> QED
      BY <2>1, <2>2, <2>3, <2>4 DEF DeleteAvatar
  <1> HIDE DEF a
  <1>3. avatar[a] \in [here : BOOLEAN, trash : BOOLEAN, meta : {"none", "live", "deleted"}]
    BY <1>0, <1>1 DEF ProfilesTypeOK
  <1>4. /\ x \in [here : BOOLEAN, trash : BOOLEAN, meta : {"none", "live", "deleted"}]
        /\ avatar[a].trash => x.trash
        /\ to \in {"remove", "mark"} => x.trash
        /\ x.here \/ x.trash \/ (x.here = avatar[a].here /\ x.meta = avatar[a].meta)
        /\ to \in {"remove", "mark", "done", "failed"}
    BY <1>2, <1>3
  <1>5. /\ avatar' \in [UploadReqs -> [here : BOOLEAN, trash : BOOLEAN,
                                       meta : {"none", "live", "deleted"}]]
        /\ drop' \in [Droppers -> {"idle", "copy", "remove", "mark", "done", "failed"}]
        /\ \A b \in UploadReqs : b # a => avatar'[b] = avatar[b]
        /\ \A s \in Droppers : s # r => drop'[s] = drop[s]
        /\ avatar'[a] = x /\ drop'[r] = to
    BY <1>0, <1>1, <1>2, <1>4 DEF ProfilesTypeOK
  <1>6. ProfilesTypeOK'
    BY <1>0, <1>5 DEF ProfilesTypeOK
  <1>7. HoldersInv'
    BY <1>0, <1>5, Parts DEF HoldersInv
  <1>8. StoredInv'
    <2>1. \A b \in UploadReqs : avatar[b].trash => avatar'[b].trash
      BY <1>4, <1>5
    <2>2. \A s \in Droppers : drop'[s] \in {"remove", "mark"} => avatar'[handler'[s].url].trash
      <3>1. drop'[r] \in {"remove", "mark"} => avatar'[a].trash
        BY <1>4, <1>5
      <3>2. ASSUME NEW s \in Droppers, s # r, drop'[s] \in {"remove", "mark"}
            PROVE  avatar'[handler'[s].url].trash
        <4>1. drop[s] \in {"remove", "mark"} /\ handler[s].url \in UploadReqs
          BY <1>0, <1>5, <3>2, Parts DEF StoredInv, ProfilesTypeOK, ProfileHandler
        <4> QED
          BY <1>0, <2>1, <4>1 DEF StoredInv
      <3> QED
        BY <1>0, <3>1, <3>2 DEF a
    <2>3. NoAvatarLost'
      BY <1>0, <1>4, <1>5 DEF StoredInv, NoAvatarLost
    <2>4. \A s \in Droppers : drop'[s] \in {"copy", "remove", "mark"} => handler'[s].url # None
      BY <1>0, <1>5 DEF StoredInv
    <2>5. \A b \in UploadReqs : upload'[b] # "done" => avatar'[b].meta = "none"
      BY <1>0, <1>1, <1>5 DEF StoredInv
    <2> QED
      BY <1>0, <2>2, <2>3, <2>4, <2>5 DEF StoredInv
  <1>9. faults' = MaxFail => faults = MaxFail
    BY FaultsFall DEF DeleteAvatar, CopyAvatar, RemoveAvatar, RemoveAvatarByUrl, DropFails,
                      DropStep, accountSteps
  <1>10. CreatedInv'
    BY <1>0, <1>9, ElsewhereKeeps
  <1> QED
    BY <1>6, <1>7, <1>8, <1>10 DEF ProfilesInv

-----------------------------------------------------------------------------
(* The steps of the accounts, and a restart *)

\* A change of the username that was not started, or was answered, stays so.
LEMMA RenamesWait ==
  ASSUME TypeOK, AccountStep, NEW c \in RenameReqs, req[c].pc \in {"start", "done"}
  PROVE  req'[c] = req[c]
  <1>0. /\ req \in [Reqs -> Request] /\ c \in Reqs
        /\ c \notin RegReqs \cup OAuthReqs \cup ConfirmReqs \cup RecoverReqs \cup PasswordReqs
    BY Kinds DEF TypeOK
  <1>1. ASSUME NEW r \in RegReqs, Registration(r) PROVE req'[c] = req[c]
    BY <1>0, <1>1 DEF Registration, RegStart, RegFindName, RegFindEmail, RegCreate, SendMail,
                      Refuse, Answer, Goto
  <1>2. ASSUME NEW r \in OAuthReqs, OAuthLogin(r) PROVE req'[c] = req[c]
    <2>1. c # r
      BY <1>0
    <2>2. CASE OAuthStart(r) \/ OAuthFind(r) \/ OAuthAccount(r) \/ OAuthName(r)
      BY <1>0, <2>1, <2>2 DEF OAuthStart, OAuthFind, OAuthAccount, OAuthName, Refuse, Goto
    <2>3. CASE OAuthLink(r) \/ OAuthLinkNew(r) \/ OAuthCreate(r)
      BY <1>0, <2>1, <2>3 DEF OAuthLink, OAuthLinkNew, OAuthCreate, Link, Refuse, Answer, Goto
    <2>4. CASE OAuthFindNew(r) \/ SendMail(r)
      BY <1>0, <2>1, <2>4 DEF OAuthFindNew, SendMail, Refuse, Answer
    <2> QED
      BY <1>2, <2>2, <2>3, <2>4 DEF OAuthLogin
  <1>3. ASSUME NEW r \in ConfirmReqs, ConfirmCode(r) \/ ResendCode(r) PROVE req'[c] = req[c]
    BY <1>0, <1>3 DEF ConfirmCode, ResendCode, Refuse
  <1>4. ASSUME NEW r \in RecoverReqs, PasswordRecovery(r) \/ Expire(r) PROVE req'[c] = req[c]
    BY <1>0, <1>4 DEF PasswordRecovery, CaptchaRefused, RecoverAgain, RecoverFind, RecoverSave,
                      Expire, Read, Refuse, Answer
  <1>5. ASSUME NEW r \in PasswordReqs, NewPassword(r) PROVE req'[c] = req[c]
    BY <1>0, <1>5 DEF NewPassword, PasswordFind, PasswordSave, Read, Refuse, Answer
  <1>6. ASSUME NEW r \in RenameReqs, RenameCheck(r) \/ RenameSave(r) PROVE req'[c] = req[c]
    BY <1>0, <1>6 DEF RenameCheck, RenameSave, Refuse, Answer, Goto
  <1> QED
    BY <1>1, <1>2, <1>3, <1>4, <1>5, <1>6 DEF AccountStep

\* No step of the accounts brings a failure back.
LEMMA FaultsStay ==
  ASSUME AInv, AccountStep, faults' = MaxFail
  PROVE  faults = MaxFail
  <1>1. ASSUME NEW r \in RegReqs, Registration(r) PROVE faults' = faults \/ Fail
    BY <1>1 DEF Registration, RegStart, RegFindName, RegFindEmail, RegCreate, SendMail
  <1>2. ASSUME NEW r \in OAuthReqs, OAuthLogin(r) PROVE faults' = faults \/ Fail
    BY <1>2 DEF OAuthLogin, OAuthStart, OAuthFind, OAuthAccount, OAuthLink, OAuthName, OAuthCreate,
                OAuthFindNew, OAuthLinkNew, Link, SendMail
  <1>3. ASSUME NEW r \in ConfirmReqs, ConfirmCode(r) \/ ResendCode(r) PROVE faults' = faults
    BY <1>3 DEF ConfirmCode, ResendCode
  <1>4. ASSUME NEW r \in RecoverReqs, PasswordRecovery(r) \/ Expire(r)
        PROVE  faults' = faults \/ Fail
    BY <1>4 DEF PasswordRecovery, CaptchaRefused, RecoverAgain, RecoverFind, RecoverSave, Expire
  <1>5. ASSUME NEW r \in PasswordReqs, NewPassword(r) PROVE faults' = faults \/ Fail
    BY <1>5 DEF NewPassword, PasswordFind, PasswordSave
  <1>6. ASSUME NEW r \in RenameReqs, RenameCheck(r) \/ RenameSave(r)
        PROVE  faults' = faults \/ Fail
    BY <1>6 DEF RenameCheck, RenameSave
  <1> QED
    BY <1>1, <1>2, <1>3, <1>4, <1>5, <1>6, FaultsFall DEF AccountStep

\* What leaves every table and handler of the profiles alone.
LEMMA StillStep ==
  ASSUME ProfilesInv, UNCHANGED profileVars, clashed' \in SUBSET Ids,
         faults' = MaxFail => faults = MaxFail,
         \A c \in CreateReqs : handler[c].pc # "name" /\ req[c].pc \in {"start", "done"} =>
                                 req'[c] = req[c]
  PROVE  ProfilesInv'
  <1>1. ProfilesTypeOK' /\ HoldersInv' /\ StoredInv'
    BY DEF ProfilesInv, ProfilesTypeOK, HoldersInv, StoredInv, NoAvatarLost, profileVars
  <1>2. CreatedInv'
    BY ElsewhereKeeps DEF ProfilesInv, profileVars
  <1> QED
    BY <1>1, <1>2 DEF ProfilesInv

LEMMA AccountsStep ==
  ASSUME AInv, ProfilesInv, AccountStep, UNCHANGED profileVars, clashed' \in SUBSET Ids
  PROVE  ProfilesInv'
  BY StillStep, RenamesWait, FaultsStay, Parts DEF AInv

LEMMA CallRenameStep ==
  ASSUME AInv, ProfilesInv, NEW r \in CreateReqs \cup UpdateReqs, CallRename(r),
         clashed' \in SUBSET Ids
  PROVE  ProfilesInv'
  <1>1. PICK n \in Names : RenameStart(r, handler[r].user, n)
    BY DEF CallRename
  <1>2. faults' = faults /\ req \in [Reqs -> Request]
    BY <1>1 DEF RenameStart, AInv, TypeOK
  <1>3. \A c \in CreateReqs : c # r => req'[c] = req[c]
    BY <1>1, <1>2, Parts, Kinds DEF RenameStart, Read, Refuse
  <1> QED
    BY <1>2, <1>3, StillStep DEF CallRename

LEMMA GatewayRestartStep ==
  ASSUME AInv, ProfilesInv, GatewayRestart, clashed' \in SUBSET Ids
  PROVE  ProfilesInv'
  <1>0. /\ ProfilesTypeOK /\ HoldersInv /\ StoredInv /\ CreatedInv
        /\ UNCHANGED <<profile, avatar, upload, drop>>
    BY DEF ProfilesInv, GatewayRestart
  <1>1. \A r \in ProfileReqs :
          /\ handler'[r] \in ProfileHandler /\ handler'[r].pc \in {"start", "done"}
          /\ handler'[r].url \in {handler[r].url, None}
          /\ handler'[r].text \in {handler[r].text, None}
          /\ r \in Droppers => handler'[r].url = handler[r].url
          /\ handler'[r] = handler[r] \/ handler'[r].res = "lost"
          /\ handler'[r].pc = "start" => handler'[r] = handler[r]
          /\ handler[r].pc = "done" => handler'[r] = handler[r]
    <2> TAKE r \in ProfileReqs
    <2>1. /\ handler[r] \in ProfileHandler
          /\ \/ handler[r].pc \in {"start", "done"} /\ handler'[r] = handler[r]
             \/ handler[r].pc \notin {"start", "done"} /\ handler'[r] = Ended(r, "lost")
      BY <1>0 DEF GatewayRestart, ProfilesTypeOK
    <2>2. /\ Ended(r, "lost") \in ProfileHandler /\ Ended(r, "lost").pc = "done"
          /\ Ended(r, "lost").res = "lost" /\ Ended(r, "lost").text = None
          /\ Ended(r, "lost").url = IF r \in Droppers THEN handler[r].url ELSE None
      BY <1>0, Ending DEF Results
    <2> QED
      BY <2>1, <2>2
  <1>2. handler' \in [ProfileReqs -> ProfileHandler]
    BY <1>1 DEF GatewayRestart
  <1>3. ProfilesTypeOK'
    BY <1>0, <1>2 DEF ProfilesTypeOK
  <1>4. HoldersInv'
    <2>1. \A r \in UploadReqs : handler'[r].pc \in {"start", "basic"} => upload'[r] = "idle"
      BY <1>0, <1>1, Parts DEF HoldersInv
    <2>2. \A r \in Droppers :
            handler'[r].pc \in {"start", "basic", "upload", "delete"} => drop'[r] = "idle"
      BY <1>0, <1>1, Parts DEF HoldersInv
    <2> QED
      BY <1>1, <2>1, <2>2 DEF HoldersInv
  <1>5. StoredInv'
    <2>1. \A r \in ProfileReqs : handler'[r].url # None => upload'[handler'[r].url] = "done"
      BY <1>0, <1>1 DEF StoredInv
    <2>2. \A a \in UploadReqs : /\ handler'[a].pc = "again" => upload'[a] = "done"
                                /\ upload'[a] # "done" => avatar'[a].meta = "none"
      BY <1>0, <1>1, Parts DEF StoredInv
    <2>3. \A r \in Droppers : /\ drop'[r] \in {"copy", "remove", "mark"} => handler'[r].url # None
                              /\ drop'[r] \in {"remove", "mark"} => avatar'[handler'[r].url].trash
      BY <1>0, <1>1, Parts DEF StoredInv
    <2>4. /\ NoAvatarLost'
          /\ \A u \in Ids : profile'[u].url # None => upload'[profile'[u].url] = "done"
      BY <1>0 DEF StoredInv, NoAvatarLost
    <2> QED
      BY <2>1, <2>2, <2>3, <2>4 DEF StoredInv
  <1>6. CreatedInv'
    <2> SUFFICES ASSUME NEW c \in CreateReqs
                 PROVE  /\ \/ handler'[c].pc = "done" /\ handler'[c].res = "ok"
                           \/ /\ \A u \in Ids : profile'[u].text # c
                              /\ \A s \in ProfileReqs : handler'[s].text # c
                        /\ handler'[c].pc = "start" => req'[c].pc = "start"
                        /\ handler'[c].pc = "done" /\ handler'[c].res \notin {"ok", "lost"} =>
                             /\ req'[c].pc \in {"start", "done"}
                             /\ faults' = MaxFail => req'[c].res # "ok"
      BY DEF CreatedInv
    <2>1. c \in ProfileReqs /\ c \in Reqs /\ c # None
      BY Parts, Kinds
    <2>2. faults' # MaxFail
      BY FailBounds DEF GatewayRestart, Restart, AInv
    <2>3. /\ req[c].pc \in {"start", "done"} => req'[c] = req[c]
          /\ req'[c].pc \in {"start", "done"}
      BY <2>1 DEF GatewayRestart, Restart, Handler
    <2>4. \/ handler'[c].pc = "done" /\ handler'[c].res = "ok"
          \/ /\ \A u \in Ids : profile'[u].text # c
             /\ \A s \in ProfileReqs : handler'[s].text # c
      BY <1>0, <1>1, <2>1 DEF CreatedInv
    <2>5. handler'[c].pc = "start" => req'[c].pc = "start"
      BY <1>0, <1>1, <2>1, <2>3 DEF CreatedInv
    <2> QED
      BY <2>2, <2>3, <2>4, <2>5
  <1> QED
    BY <1>3, <1>4, <1>5, <1>6 DEF ProfilesInv

-----------------------------------------------------------------------------
(* The theorems *)

LEMMA ProfilesKeep == AInv /\ ProfilesInv /\ [Next]_vars => (AInv /\ ProfilesInv)'
  <1> SUFFICES ASSUME AInv, ProfilesInv, [Next]_vars PROVE ProfilesInv'
    BY AccountsKeep DEF ProfilesInv
  <1>1. CASE Next
    <2>0. clashed' \in SUBSET Ids
      BY <1>1, Clashes DEF Next
    <2>1. CASE AccountStep /\ UNCHANGED profileVars
      BY <2>0, <2>1, AccountsStep
    <2>2. CASE GatewayRestart
      BY <2>0, <2>2, GatewayRestartStep
    <2>3. CASE ProfileStep
      <3>1. ASSUME NEW r \in CreateReqs, CreateProfile(r) PROVE ProfilesInv'
        BY <2>0, <3>1, CreateSteps, CallRenameStep DEF CreateProfile
      <3>2. ASSUME NEW r \in UpdateReqs, UpdateProfile(r) PROVE ProfilesInv'
        BY <2>0, <3>2, UpdateSteps, CallRenameStep DEF UpdateProfile
      <3>3. ASSUME NEW r \in DeleteReqs, DeleteProfile(r) PROVE ProfilesInv'
        BY <2>0, <3>3, DeleteSteps
      <3>4. ASSUME NEW r \in UploadReqs, UploadProfileAvatar(r) \/ UploadAvatar(r)
            PROVE  ProfilesInv'
        BY <2>0, <3>4, UploadSteps, UploadAvatarStep
      <3>5. ASSUME NEW r \in Droppers, DeleteAvatar(r) PROVE ProfilesInv'
        BY <2>0, <3>5, DropSteps
      <3> QED
        BY <2>3, <3>1, <3>2, <3>3, <3>4, <3>5 DEF ProfileStep
    <2> QED
      BY <1>1, <2>1, <2>2, <2>3 DEF Next
  <1>2. CASE UNCHANGED vars
    <2>1. UNCHANGED <<req, faults, profileVars, clashed>>
      BY <1>2 DEF vars, accountVars
    <2>2. clashed' \in SUBSET Ids
      BY <2>1, Clashes
    <2> QED
      BY <2>1, <2>2, StillStep
  <1> QED
    BY <1>1, <1>2

\* Every handler of a profile holds a user; a URL that is stored, held or to be
\* dropped is of an avatar whose upload was answered; and the accounts keep the
\* invariant they have by themselves while profiles change usernames.
THEOREM ProfilesInvariant == Spec => [](AInv /\ ProfilesInv)
  BY ProfilesInitInv, ProfilesKeep, PTL DEF Spec

\* An avatar that was stored is at its place or in trash/, however uploads,
\* deletions, failures and restarts come between each other.
THEOREM AvatarsAreKept == Spec => []NoAvatarLost
  <1>1. ProfilesInv => NoAvatarLost
    BY DEF ProfilesInv, StoredInv
  <1> QED
    BY <1>1, ProfilesInvariant, PTL

\* A creation that is refused writes no profile and, without a failure, leaves
\* the username as it was.
THEOREM RefusalsWriteNothing == Spec => []RefusedCreatesNothing
  <1>1. ProfilesInv => RefusedCreatesNothing
    BY DEF ProfilesInv, CreatedInv, RefusedCreatesNothing
  <1> QED
    BY <1>1, ProfilesInvariant, PTL

\* Changes of the username that come with a profile, and the gateway's restarts,
\* leave the password set last the one that logs in; the code sent last works
\* until it is used, or until such a change made after it was sent deletes it.
\* Both hold unless two handlers held the user at once.
THEOREM ProfilesKeepPasswords == Spec => [](PasswordIsLast /\ CodeIsLast)
  <1>1. AInv => PasswordIsLast
    <2> SUFFICES ASSUME AInv, NEW u \in Ids \ raced.users, NEW p \in Passwords
                 PROVE  ValidateUser(u, p) <=> last[u].pwd = p
      BY DEF PasswordIsLast
    <2>1. user[u].pwd = last[u].pwd /\ (~Live(u) => last[u].pwd = None) /\ p # None
      BY Kinds DEF AInv, UsersInv
    <2> QED
      BY <2>1 DEF ValidateUser
  <1>2. AInv => CodeIsLast
    BY DEF AInv, CodesInv
  <1> QED
    BY <1>1, <1>2, ProfilesInvariant, PTL
-----------------------------------------------------------------------------
(* The avatars: what a step does to those who hold, show and drop them *)

\* A handler that has ended; a dropper's keeps the URL it drops.
Settled(r) ==
  /\ handler'[r].pc = "done" /\ handler'[r].url \in {handler[r].url, None}
  /\ r \in Droppers => handler'[r].url = handler[r].url

\* Nothing is written; an upload's handler ends only when something failed.
Quiet ==
  /\ UNCHANGED <<profile, avatar, upload, drop>>
  /\ \A r \in ProfileReqs :
       \/ handler'[r] = handler[r]
       \/ /\ Settled(r)
          /\ r \in UploadReqs /\ faults' = MaxFail => upload[r] = "failed"

\* A handler reads the profile of u.
Takes(r, u) ==
  /\ Other(r) /\ UNCHANGED <<profile, avatar, drop>>
  /\ handler[r].pc = "start" /\ handler'[r].pc \notin {"start", "done", "again"}
  /\ handler'[r].user = u
  /\ handler'[r].text = profile[u].text /\ handler'[r].url = profile[u].url
  /\ handler'[r].pc = "basic" => ~HasProfile(u)
  /\ \/ upload' = upload
     \/ /\ r \in UploadReqs /\ handler'[r].pc = "upload"
        /\ upload' = [upload EXCEPT ![r] = "sent"]

\* The handlers that write the profile of u, which they hold.
Writing(r, u) ==
  /\ Other(r) /\ avatar' = avatar /\ HoldsProfile(r, u)
  /\ \A v \in Ids : v # u => profile'[v] = profile[v]

Keeping(r) ==
  /\ handler'[r].user = handler[r].user
  /\ handler'[r].text = handler[r].text /\ handler'[r].url = handler[r].url

Answers(r, u) ==
  /\ Writing(r, u) /\ Settled(r) /\ UNCHANGED <<upload, drop>> /\ profile'[u].st = "live"
  /\ \/ /\ r \in UploadReqs /\ handler[r].pc = "again"
        /\ profile'[u].url = r /\ profile'[u].text = handler[r].text
     \/ /\ r \in Texts /\ handler[r].pc \in {"name", "save"}
        /\ profile'[u].url \in {profile[u].url, handler[r].url} /\ profile'[u].text = r

Blanks(r, u) ==
  /\ Writing(r, u) /\ Keeping(r) /\ drop' = drop
  /\ r \in UploadReqs /\ handler[r].pc = "basic" /\ handler'[r].pc = "upload"
  /\ upload' = [upload EXCEPT ![r] = "sent"] /\ profile'[u].st = "live"
  /\ profile'[u].text = None /\ profile'[u].url = profile[u].url

Replaces(r, u) ==
  /\ Writing(r, u) /\ Keeping(r) /\ upload' = upload
  /\ r \in UploadReqs /\ handler[r].pc = "upload" /\ handler'[r].pc = "again"
  /\ drop' = IF handler[r].url = None THEN drop ELSE [drop EXCEPT ![r] = "copy"]
  /\ profile'[u].st = "live" /\ profile'[u].text = handler[r].text /\ profile'[u].url = r

Removes(r, u) ==
  /\ Writing(r, u) /\ Settled(r) /\ upload' = upload
  /\ r \in DeleteReqs /\ handler[r].pc = "delete"
  /\ drop' = [drop EXCEPT ![r] = IF handler[r].url = None THEN "failed" ELSE "copy"]
  /\ profile'[u].st = "none" /\ profile'[u].text = None /\ profile'[u].url = None

Handling(r, u) ==
  Takes(r, u) \/ Answers(r, u) \/ Blanks(r, u) \/ Replaces(r, u) \/ Removes(r, u)

\* The storage service is brought a file, or drops one.
Brings(a) ==
  /\ UNCHANGED <<profile, handler, drop>> /\ upload[a] = "sent"
  /\ \A b \in UploadReqs : b # a => avatar'[b] = avatar[b] /\ upload'[b] = upload[b]
  /\ \/ upload'[a] = "done" /\ avatar'[a].here /\ avatar'[a].meta = "live"
     \/ upload'[a] = "failed" /\ faults' # MaxFail

Discarding(r) ==
  LET a == handler[r].url IN
  /\ UNCHANGED <<profile, handler, upload>>
  /\ \A b \in UploadReqs : b # a => avatar'[b] = avatar[b]
  /\ \A s \in Droppers : s # r => drop'[s] = drop[s]
  /\ \/ drop[r] = "copy" /\ drop'[r] = "remove" /\ avatar'[a].here = avatar[a].here
     \/ drop[r] = "remove" /\ drop'[r] = "mark" /\ ~avatar'[a].here
     \/ /\ drop[r] = "mark" /\ drop'[r] = "done"
        /\ avatar'[a].here = avatar[a].here /\ avatar'[a].meta = "deleted"
     \/ /\ drop[r] \in {"copy", "remove", "mark"} /\ drop'[r] = "failed" /\ avatar' = avatar
        /\ faults' = MaxFail => drop[r] = "copy" /\ ~avatar[a].here

Shapes ==
  \/ Quiet
  \/ \E r \in ProfileReqs, u \in Ids : Handling(r, u)
  \/ \E a \in UploadReqs : Brings(a)
  \/ \E r \in Droppers : Discarding(r)

\* A handler that ends where a failure, a refusal or a restart ends it.
LEMMA Quits ==
  ASSUME ProfilesTypeOK, NEW r \in ProfileReqs, NEW res \in Results, End(r, res),
         UNCHANGED <<profile, avatar, upload, drop>>,
         r \in UploadReqs /\ faults' = MaxFail => upload[r] = "failed"
  PROVE  Quiet
  <1>1. /\ Other(r) /\ handler'[r].pc = "done"
        /\ handler'[r].url = IF r \in Droppers THEN handler[r].url ELSE None
    BY Ends
  <1> QED
    BY <1>1 DEF Quiet, Settled, Other

LEMMA SaveFailingQuits ==
  ASSUME AInv, ProfilesTypeOK, NEW r \in ProfileReqs, SaveFails(r),
         UNCHANGED <<avatar, upload, drop>>
  PROVE  Quiet
  <1>1. End(r, "error") /\ profile' = profile /\ faults' # MaxFail /\ "error" \in Results
    BY FailBounds DEF SaveFails, AInv, Results
  <1> QED
    BY <1>1, Quits

LEMMA HoldTakes ==
  ASSUME ProfilesTypeOK, NEW r \in ProfileReqs, NEW u \in Ids,
         NEW pc \in Stages \ {"start", "done", "again"}, Hold(r, u, pc),
         handler[r].pc = "start", UNCHANGED <<profile, avatar, drop>>,
         pc = "basic" => ~HasProfile(u),
         \/ upload' = upload
         \/ r \in UploadReqs /\ pc = "upload" /\ upload' = [upload EXCEPT ![r] = "sent"]
  PROVE  Takes(r, u)
  <1>1. /\ Other(r) /\ handler'[r].pc = pc /\ handler'[r].user = u
        /\ handler'[r].text = profile[u].text /\ handler'[r].url = profile[u].url
    BY Holding
  <1> QED
    BY <1>1 DEF Takes

LEMMA UpsertAnswers ==
  ASSUME ProfilesTypeOK, NEW r \in ProfileReqs, NEW u \in Ids, HoldsProfile(r, u), NEW p,
         Upsert(u, p), End(r, "ok"), UNCHANGED <<avatar, upload, drop>>,
         \/ /\ r \in UploadReqs /\ handler[r].pc = "again"
            /\ p.url = r /\ p.text = handler[r].text
         \/ /\ r \in Texts /\ handler[r].pc \in {"name", "save"}
            /\ p.url \in {handler[r].url, None} /\ p.text = r
  PROVE  Answers(r, u)
  <1>1. /\ Other(r) /\ handler'[r].pc = "done"
        /\ handler'[r].url = IF r \in Droppers THEN handler[r].url ELSE None
    BY Ends DEF Results
  <1>2. p.text \in Texts \cup {None} /\ p.url \in UploadReqs \cup {None}
    BY DEF ProfilesTypeOK, ProfileHandler
  <1>3. /\ \A v \in Ids : v # u => profile'[v] = profile[v]
        /\ profile'[u].text = p.text /\ profile'[u].st = "live"
        /\ profile'[u].url = IF p.url = None THEN profile[u].url ELSE p.url
    BY <1>2, Upserting
  <1>4. Writing(r, u) /\ Settled(r)
    BY <1>1, <1>3 DEF Writing, Settled
  <1> QED
    BY <1>3, <1>4, Parts DEF Answers

LEMMA TextShapes ==
  ASSUME AInv, ProfilesInv, NEW r \in Texts,
         \/ CreateFind(r) \/ NameRefused(r) \/ CreateSave(r)
         \/ UpdateFind(r) \/ UpdateSave(r)
  PROVE  Quiet \/ \E u \in Ids : Handling(r, u)
  <1>0. /\ r \in ProfileReqs /\ r \notin UploadReqs /\ r # None
        /\ ProfilesTypeOK /\ HoldersInv
        /\ handler[r].url \in UploadReqs \cup {None}
    <2>1. r \in ProfileReqs /\ r \notin UploadReqs /\ r # None
      BY Parts DEF ProfileReqs, Texts
    <2> QED
      BY <2>1 DEF ProfilesInv, ProfilesTypeOK, ProfileHandler
  <1>1. CASE CreateFind(r)
    <2>1. /\ handler[r].pc = "start" /\ UNCHANGED <<profile, avatar, upload, drop>>
          /\ \E u \in Ids : End(r, "exists") \/ Hold(r, u, "name")
      BY <1>1 DEF CreateFind
    <2>2. CASE End(r, "exists")
      BY <1>0, <2>1, <2>2, Quits DEF Results
    <2>3. ASSUME NEW u \in Ids, Hold(r, u, "name") PROVE Handling(r, u)
      BY <1>0, <2>1, <2>3, HoldTakes DEF Stages, Handling
    <2> QED
      BY <2>1, <2>2, <2>3
  <1>2. CASE UpdateFind(r)
    <2>1. /\ handler[r].pc = "start" /\ UNCHANGED <<profile, avatar, upload, drop>>
          /\ \/ \E res \in {"notFound", "forbidden"} : End(r, res)
             \/ \E u \in Ids, pc \in {"name", "save"} : Hold(r, u, pc)
      BY <1>2 DEF UpdateFind
    <2>2. ASSUME NEW res \in {"notFound", "forbidden"}, End(r, res) PROVE Quiet
      BY <1>0, <2>1, <2>2, Quits DEF Results
    <2>3. ASSUME NEW u \in Ids, NEW pc \in {"name", "save"}, Hold(r, u, pc)
          PROVE  Handling(r, u)
      BY <1>0, <2>1, <2>3, HoldTakes DEF Stages, Handling
    <2> QED
      BY <2>1, <2>2, <2>3
  <1>3. CASE NameRefused(r)
    <2>1. /\ UNCHANGED <<profile, avatar, upload, drop>> /\ End(r, req[r].res)
          /\ req[r].res \in Results
      BY <1>3 DEF NameRefused, Results
    <2> QED
      BY <1>0, <2>1, Quits
  <1>4. CASE CreateSave(r)
    <2>1. /\ handler[r].pc = "name" /\ UNCHANGED <<avatar, upload, drop>>
      BY <1>4 DEF CreateSave, Renamed
    <2>2. CASE SaveFails(r)
      BY <1>0, <2>1, <2>2, SaveFailingQuits
    <2>3. CASE Upsert(handler[r].user, New(r)) /\ End(r, "ok")
      <3>1. PICK u \in Ids : u = handler[r].user
        BY <1>0, <2>1 DEF HoldersInv
      <3> DEFINE p == New(r)
      <3>2. p.text = r /\ p.url = None
        BY DEF New
      <3>3. Upsert(u, p) /\ HoldsProfile(r, u)
        BY <2>1, <2>3, <3>1 DEF HoldsProfile
      <3> HIDE DEF p
      <3> QED
        BY <1>0, <2>1, <2>3, <3>2, <3>3, UpsertAnswers DEF Handling
    <2> QED
      BY <1>4, <2>2, <2>3 DEF CreateSave
  <1>5. CASE UpdateSave(r)
    <2>1. /\ handler[r].pc \in {"name", "save"} /\ UNCHANGED <<avatar, upload, drop>>
      BY <1>5 DEF UpdateSave, Renamed
    <2>2. CASE SaveFails(r)
      BY <1>0, <2>1, <2>2, SaveFailingQuits
    <2>3. CASE End(r, "ok") /\ UNCHANGED profile
      BY <1>0, <2>1, <2>3, Quits DEF Results
    <2>4. CASE Upsert(handler[r].user, Rewrite(Restored(r), r)) /\ End(r, "ok")
      <3>1. PICK u \in Ids : u = handler[r].user
        BY <1>0, <2>1 DEF HoldersInv
      <3> DEFINE p == Rewrite(Restored(r), r)
      <3>2. p.text = r /\ p.url = handler[r].url
        BY DEF Rewrite, Restored
      <3>3. Upsert(u, p) /\ HoldsProfile(r, u)
        BY <2>1, <2>4, <3>1 DEF HoldsProfile
      <3> HIDE DEF p
      <3> QED
        BY <1>0, <2>1, <2>4, <3>2, <3>3, UpsertAnswers DEF Handling
    <2> QED
      BY <1>5, <2>2, <2>3, <2>4 DEF UpdateSave
  <1> QED
    BY <1>1, <1>2, <1>3, <1>4, <1>5

LEMMA DeleteShapes ==
  ASSUME AInv, ProfilesInv, NEW r \in DeleteReqs, DeleteProfile(r)
  PROVE  Quiet \/ \E u \in Ids : Handling(r, u)
  <1>0. /\ r \in ProfileReqs /\ r \notin UploadReqs /\ r \in Droppers
        /\ ProfilesTypeOK /\ HoldersInv
    BY Parts DEF ProfilesInv
  <1>1. CASE DeleteFind(r)
    <2>1. /\ handler[r].pc = "start" /\ UNCHANGED <<profile, avatar, upload, drop>>
          /\ \E u \in Ids : End(r, "notFound") \/ Hold(r, u, "delete")
      BY <1>1 DEF DeleteFind
    <2>2. CASE End(r, "notFound")
      BY <1>0, <2>1, <2>2, Quits DEF Results
    <2>3. ASSUME NEW u \in Ids, Hold(r, u, "delete") PROVE Handling(r, u)
      BY <1>0, <2>1, <2>3, HoldTakes DEF Stages, Handling
    <2> QED
      BY <2>1, <2>2, <2>3
  <1>2. CASE DeleteSave(r)
    <2>1. PICK u \in Ids : u = handler[r].user
      BY <1>0, <1>2 DEF HoldersInv, DeleteSave
    <2>2. /\ handler[r].pc = "delete" /\ UNCHANGED <<avatar, upload>> /\ HoldsProfile(r, u)
      BY <1>2, <2>1 DEF DeleteSave, HoldsProfile
    <2>3. CASE End(r, "error") /\ UNCHANGED <<profile, drop>>
      BY <1>0, <2>2, <2>3, Quits DEF Results
    <2>4. CASE /\ SoftDelete(u) /\ End(r, "ok")
               /\ drop' = [drop EXCEPT ![r] = IF handler[r].url = None THEN "failed" ELSE "copy"]
      <3>1. /\ Other(r) /\ handler'[r].pc = "done" /\ handler'[r].url = handler[r].url
        BY <1>0, <2>4, Ends DEF Results
      <3>2. /\ profile \in [Ids -> ProfileRow] /\ profile[u] \in ProfileRow
        BY <1>0 DEF ProfilesTypeOK
      <3> DEFINE row == [profile[u] EXCEPT !.st = "none", !.text = None, !.url = None]
      <3>3. row.st = "none" /\ row.text = None /\ row.url = None
        BY <3>2 DEF ProfileRow
      <3>4. profile' = [profile EXCEPT ![u] = row]
        BY <2>4, <3>2 DEF SoftDelete
      <3> HIDE DEF row
      <3>5. /\ \A v \in Ids : v # u => profile'[v] = profile[v]
            /\ profile'[u].st = "none" /\ profile'[u].text = None /\ profile'[u].url = None
        BY <3>2, <3>3, <3>4
      <3>6. Writing(r, u) /\ Settled(r)
        BY <1>0, <2>2, <3>1, <3>5 DEF Writing, Settled
      <3> QED
        BY <2>2, <2>4, <3>5, <3>6 DEF Handling, Removes
    <2> QED
      BY <1>2, <2>1, <2>3, <2>4 DEF DeleteSave
  <1> QED
    BY <1>1, <1>2 DEF DeleteProfile

LEMMA UploadShapes ==
  ASSUME AInv, ProfilesInv, NEW r \in UploadReqs, UploadProfileAvatar(r)
  PROVE  Quiet \/ \E u \in Ids : Handling(r, u)
  <1>0. /\ r \in ProfileReqs /\ r \in Droppers /\ r # None
        /\ ProfilesTypeOK /\ HoldersInv
        /\ handler[r].text \in Texts \cup {None} /\ handler[r].url \in UploadReqs \cup {None}
    BY Parts DEF ProfilesInv, ProfilesTypeOK, ProfileHandler
  <1> DEFINE old == handler[r].user
  <1>1. CASE UploadFind(r)
    <2>1. handler[r].pc = "start" /\ UNCHANGED <<profile, avatar, drop>>
      BY <1>1 DEF UploadFind
    <2>2. PICK v \in Ids : /\ Hold(r, v, IF HasProfile(v) THEN "upload" ELSE "basic")
                           /\ upload' = IF HasProfile(v) THEN [upload EXCEPT ![r] = "sent"]
                                        ELSE upload
      BY <1>1 DEF UploadFind
    <2>3. Takes(r, v)
      BY <1>0, <2>1, <2>2, HoldTakes DEF Stages
    <2> QED
      BY <2>3 DEF Handling
  <1>2. CASE UploadBasic(r)
    <2>1. handler[r].pc = "basic" /\ UNCHANGED <<avatar, drop>>
      BY <1>2 DEF UploadBasic
    <2>2. CASE SaveFails(r) /\ UNCHANGED upload
      BY <1>0, <2>1, <2>2, SaveFailingQuits
    <2>3. CASE /\ Upsert(old, CreateBasic) /\ Proceed(r, "upload")
               /\ upload' = [upload EXCEPT ![r] = "sent"]
      <3>1. PICK u \in Ids : u = old
        BY <1>0, <2>1 DEF HoldersInv
      <3>2. /\ Other(r) /\ handler'[r].pc = "upload" /\ Keeping(r)
        BY <1>0, <2>3, Proceeding DEF Stages, Keeping
      <3> DEFINE p == CreateBasic
      <3>3. p.text = None /\ p.url = None
        BY DEF CreateBasic, New
      <3>4. Upsert(u, p)
        BY <2>3, <3>1
      <3> HIDE DEF p
      <3>5. /\ \A v \in Ids : v # u => profile'[v] = profile[v]
            /\ profile'[u].text = None /\ profile'[u].st = "live"
            /\ profile'[u].url = profile[u].url
        BY <1>0, <3>3, <3>4, Upserting
      <3>6. Writing(r, u)
        BY <2>1, <3>1, <3>2, <3>5 DEF Writing, HoldsProfile
      <3> QED
        BY <2>1, <2>3, <3>2, <3>5, <3>6 DEF Handling, Blanks
    <2> QED
      BY <1>2, <2>2, <2>3 DEF UploadBasic
  <1>3. CASE UploadFailed(r)
    <2>1. /\ upload[r] = "failed" /\ End(r, "error")
          /\ UNCHANGED <<profile, avatar, upload, drop>>
      BY <1>3 DEF UploadFailed
    <2> QED
      BY <1>0, <2>1, Quits DEF Results
  <1>4. CASE UploadSave(r)
    <2>1. /\ handler[r].pc = "upload" /\ UNCHANGED <<avatar, upload>>
      BY <1>4 DEF UploadSave
    <2>2. CASE SaveFails(r) /\ UNCHANGED drop
      BY <1>0, <2>1, <2>2, SaveFailingQuits
    <2>3. CASE /\ Upsert(old, UpdateAvatarUrl(Restored(r), r)) /\ Proceed(r, "again")
               /\ drop' = IF handler[r].url = None THEN drop ELSE [drop EXCEPT ![r] = "copy"]
      <3>1. PICK u \in Ids : u = old
        BY <1>0, <2>1 DEF HoldersInv
      <3>2. /\ Other(r) /\ handler'[r].pc = "again" /\ Keeping(r)
        BY <1>0, <2>3, Proceeding DEF Stages, Keeping
      <3> DEFINE p == UpdateAvatarUrl(Restored(r), r)
      <3>3. p.text = handler[r].text /\ p.url = r
        BY DEF UpdateAvatarUrl, Restored
      <3>4. Upsert(u, p)
        BY <2>3, <3>1
      <3> HIDE DEF p
      <3>5. /\ \A v \in Ids : v # u => profile'[v] = profile[v]
            /\ profile'[u].text = handler[r].text /\ profile'[u].st = "live"
            /\ profile'[u].url = r
        BY <1>0, <3>3, <3>4, Upserting
      <3>6. Writing(r, u)
        BY <2>1, <3>1, <3>2, <3>5 DEF Writing, HoldsProfile
      <3> QED
        BY <2>1, <2>3, <3>2, <3>5, <3>6 DEF Handling, Replaces
    <2> QED
      BY <1>4, <2>2, <2>3 DEF UploadSave
  <1>5. CASE UploadSaveAgain(r)
    <2>1. handler[r].pc = "again" /\ UNCHANGED <<avatar, upload, drop>>
      BY <1>5 DEF UploadSaveAgain
    <2>2. CASE SaveFails(r)
      BY <1>0, <2>1, <2>2, SaveFailingQuits
    <2>3. CASE Upsert(old, UpdateAvatarUrl(Restored(r), r)) /\ End(r, "ok")
      <3>1. PICK u \in Ids : u = old
        BY <1>0, <2>1 DEF HoldersInv
      <3> DEFINE p == UpdateAvatarUrl(Restored(r), r)
      <3>2. p.text = handler[r].text /\ p.url = r
        BY DEF UpdateAvatarUrl, Restored
      <3>3. Upsert(u, p) /\ HoldsProfile(r, u)
        BY <2>1, <2>3, <3>1 DEF HoldsProfile
      <3> HIDE DEF p
      <3> QED
        BY <1>0, <2>1, <2>3, <3>2, <3>3, UpsertAnswers DEF Handling
    <2> QED
      BY <1>5, <2>2, <2>3 DEF UploadSaveAgain
  <1> QED
    BY <1>1, <1>2, <1>3, <1>4, <1>5 DEF UploadProfileAvatar

LEMMA StorageShapes ==
  ASSUME AInv, ProfilesInv
  PROVE  /\ \A a \in UploadReqs : UploadAvatar(a) => Brings(a)
         /\ \A r \in Droppers : DeleteAvatar(r) => Discarding(r)
  <1>0. ProfilesTypeOK /\ StoredInv /\ TypeOK
    BY DEF ProfilesInv, AInv
  <1>1. ASSUME NEW a \in UploadReqs, UploadAvatar(a) PROVE Brings(a)
    <2>0. /\ avatar[a] \in [here : BOOLEAN, trash : BOOLEAN, meta : {"none", "live", "deleted"}]
          /\ UNCHANGED <<profile, handler, drop>> /\ upload[a] = "sent"
      BY <1>0, <1>1 DEF ProfilesTypeOK, UploadAvatar
    <2>1. CASE /\ avatar' = [avatar EXCEPT ![a] = [here |-> TRUE, trash |-> FALSE, meta |-> "live"]]
               /\ upload' = [upload EXCEPT ![a] = "done"]
      BY <1>0, <2>0, <2>1 DEF Brings, ProfilesTypeOK
    <2>2. CASE /\ Fail /\ \E put \in BOOLEAN : avatar' = [avatar EXCEPT ![a].here = put]
               /\ upload' = [upload EXCEPT ![a] = "failed"]
      <3>1. faults' # MaxFail
        BY <1>0, <2>2, FailBounds
      <3> QED
        BY <1>0, <2>0, <2>2, <3>1 DEF Brings, ProfilesTypeOK
    <2> QED
      BY <1>1, <2>1, <2>2 DEF UploadAvatar
  <1>2. ASSUME NEW r \in Droppers, DeleteAvatar(r) PROVE Discarding(r)
    <2>1. /\ drop[r] \in {"copy", "remove", "mark"}
          /\ UNCHANGED <<profile, handler, upload>>
      BY <1>2 DEF DeleteAvatar, CopyAvatar, RemoveAvatar, RemoveAvatarByUrl, DropFails, DropStep
    <2>2. PICK a \in UploadReqs : a = handler[r].url
      BY <1>0, <2>1, Parts DEF StoredInv, ProfilesTypeOK, ProfileHandler
    <2>3. avatar[a] \in [here : BOOLEAN, trash : BOOLEAN, meta : {"none", "live", "deleted"}]
      BY <1>0 DEF ProfilesTypeOK
    <2>4. CASE DropFails(r)
      <3>1. faults' = MaxFail => drop[r] = "copy" /\ ~avatar[a].here
        BY <1>0, <2>2, <2>4, FailBounds DEF DropFails, Dropped
      <3> QED
        BY <1>0, <2>1, <2>2, <2>4, <3>1 DEF DropFails, Discarding, ProfilesTypeOK
    <2>5. CASE CopyAvatar(r)
      BY <1>0, <2>1, <2>2, <2>3, <2>5 DEF CopyAvatar, DropStep, Dropped, Discarding, ProfilesTypeOK
    <2>6. CASE RemoveAvatar(r)
      BY <1>0, <2>1, <2>2, <2>3, <2>6 DEF RemoveAvatar, DropStep, Dropped, Discarding,
                                          ProfilesTypeOK
    <2>7. CASE RemoveAvatarByUrl(r)
      BY <1>0, <2>1, <2>2, <2>3, <2>7 DEF RemoveAvatarByUrl, DropStep, Dropped, Discarding,
                                          ProfilesTypeOK
    <2> QED
      BY <1>2, <2>4, <2>5, <2>6, <2>7 DEF DeleteAvatar
  <1> QED
    BY <1>1, <1>2

LEMMA StepShapes ==
  ASSUME AInv, ProfilesInv, [Next]_vars
  PROVE  Shapes
  <1>1. CASE UNCHANGED profileVars
    BY <1>1 DEF Shapes, Quiet, profileVars
  <1>2. CASE GatewayRestart
    <2>1. faults' # MaxFail
      BY <1>2, FailBounds DEF GatewayRestart, Restart, AInv
    <2>2. \A r \in ProfileReqs : handler'[r] = handler[r] \/ Settled(r)
      BY <1>2, Ending DEF GatewayRestart, Settled, ProfilesInv, Results
    <2> QED
      BY <1>2, <2>1, <2>2 DEF Shapes, Quiet, GatewayRestart
  <1>3. CASE ProfileStep
    <2>1. ASSUME NEW r \in CreateReqs, CreateProfile(r) PROVE Shapes
      BY <1>1, <2>1, TextShapes, Parts DEF CreateProfile, CallRename, Shapes
    <2>2. ASSUME NEW r \in UpdateReqs, UpdateProfile(r) PROVE Shapes
      BY <1>1, <2>2, TextShapes, Parts DEF UpdateProfile, CallRename, Shapes
    <2>3. ASSUME NEW r \in DeleteReqs, DeleteProfile(r) PROVE Shapes
      BY <2>3, DeleteShapes, Parts DEF Shapes
    <2>4. ASSUME NEW r \in UploadReqs, UploadProfileAvatar(r) \/ UploadAvatar(r) PROVE Shapes
      BY <2>4, UploadShapes, StorageShapes, Parts DEF Shapes
    <2>5. ASSUME NEW r \in Droppers, DeleteAvatar(r) PROVE Shapes
      BY <2>5, StorageShapes DEF Shapes
    <2> QED
      BY <1>3, <2>1, <2>2, <2>3, <2>4, <2>5 DEF ProfileStep
  <1> QED
    BY <1>1, <1>2, <1>3 DEF Next, vars
-----------------------------------------------------------------------------
(* The avatars: each part of the invariant *)

\* A step, from a state of the invariant to one that has the types.
Stepping ==
  /\ AvatarsInv /\ ProfilesInv' /\ clashed \subseteq clashed'
  /\ faults' = MaxFail => faults = MaxFail

LEMMA Facts ==
  ASSUME Stepping
  PROVE  /\ ProfilesTypeOK /\ ProfilesTypeOK' /\ HoldersInv /\ HoldersInv' /\ StoredInv
         /\ StoredInv' /\ ClashesInv /\ OwnersInv /\ AloneInv /\ ShownInv /\ DropsInv
         /\ UploadsInv /\ NoAvatarOrphans /\ clashed \subseteq clashed'
         /\ faults' = MaxFail => faults = MaxFail
  BY DEF Stepping, AvatarsInv, ProfilesInv

\* A handler holds one user's profile, and one that holds a profile has
\* neither dropped nor, before it saves, sent its own.
LEMMA Handled ==
  ASSUME Stepping, NEW r \in ProfileReqs, NEW u \in Ids, Handling(r, u)
  PROVE  /\ Other(r) /\ avatar' = avatar
         /\ \A v \in Ids : v # u => profile'[v] = profile[v]
         /\ \A s \in Droppers :
              /\ drop[s] # "idle" => drop'[s] = drop[s] /\ handler'[s].url = handler[s].url
              /\ drop'[s] # drop[s] => s = r /\ drop[r] = "idle"
         /\ \A a \in UploadReqs : /\ upload[a] = "done" <=> upload'[a] = "done"
                                  /\ upload[a] = "failed" <=> upload'[a] = "failed"
                                  /\ upload'[a] # upload[a] => a = r /\ handler'[r].pc = "upload"
  <1>0. ProfilesTypeOK /\ HoldersInv
    BY Facts
  <1>1. CASE Takes(r, u)
    <2>1. /\ drop' = drop /\ (r \in Droppers => drop[r] = "idle")
          /\ r \in UploadReqs => upload[r] = "idle"
      BY <1>0, <1>1, Parts DEF Takes, HoldersInv
    <2> QED
      BY <1>0, <1>1, <2>1, Parts DEF Takes, Other, ProfilesTypeOK
  <1>2. CASE Answers(r, u)
    BY <1>0, <1>2, Parts DEF Answers, Writing, Settled, Other
  <1>3. CASE Blanks(r, u)
    <2>1. upload[r] = "idle"
      BY <1>0, <1>3 DEF Blanks, HoldersInv
    <2> QED
      BY <1>0, <1>3, <2>1, Parts DEF Blanks, Writing, Keeping, Other, ProfilesTypeOK
  <1>4. CASE Replaces(r, u)
    <2>1. r \in Droppers /\ drop[r] = "idle"
      BY <1>0, <1>4, Parts DEF Replaces, HoldersInv
    <2> QED
      BY <1>0, <1>4, <2>1, Parts DEF Replaces, Writing, Keeping, Other, ProfilesTypeOK
  <1>5. CASE Removes(r, u)
    <2>1. r \in Droppers /\ drop[r] = "idle"
      BY <1>0, <1>5, Parts DEF Removes, HoldersInv
    <2> QED
      BY <1>0, <1>5, <2>1, Parts DEF Removes, Writing, Other, ProfilesTypeOK
  <1> QED
    BY <1>1, <1>2, <1>3, <1>4, <1>5 DEF Handling

\* Who writes a profile is the only one who holds it, or two hold it at once.
LEMMA WritesAlone ==
  ASSUME Stepping, NEW r \in ProfileReqs, NEW u \in Ids \ clashed', Writing(r, u)
  PROVE  /\ \A s \in ProfileReqs : HoldsProfile(s, u) => s = r
         /\ InStep(r, u)
  BY Facts DEF Writing, ClashesInv, AloneInv

LEMMA AloneStep ==
  ASSUME Stepping, Shapes
  PROVE  AloneInv'
  <1>0. ProfilesTypeOK /\ AloneInv /\ clashed \subseteq clashed' /\ ProfilesTypeOK'
    BY Facts
  <1>1. CASE Quiet \/ (\E a \in UploadReqs : Brings(a)) \/ \E r \in Droppers : Discarding(r)
    <2>1. /\ profile' = profile
          /\ \A r \in ProfileReqs : handler'[r] = handler[r] \/ handler'[r].pc = "done"
      BY <1>1 DEF Quiet, Settled, Brings, Discarding
    <2> QED
      BY <1>0, <2>1 DEF AloneInv, HoldsProfile, InStep, HasProfile
  <1>2. ASSUME NEW r \in ProfileReqs, NEW u \in Ids, Handling(r, u)
        PROVE  AloneInv'
    <2>0. Other(r) /\ \A v \in Ids : v # u => profile'[v] = profile[v]
      BY <1>2, Handled
    <2>1. \A v \in Ids : ~HasProfile(v)' => profile'[v].text = None /\ profile'[v].url = None
      <3>1. ~HasProfile(u)' => profile'[u].text = None /\ profile'[u].url = None
        BY <1>0, <1>2 DEF Handling, Takes, Answers, Blanks, Replaces, Removes, AloneInv, HasProfile
      <3> QED
        BY <1>0, <2>0, <3>1 DEF AloneInv, HasProfile
    <2>2. ASSUME NEW v \in Ids \ clashed', HoldsProfile(r, v)' PROVE InStep(r, v)'
      <3>1. CASE Takes(r, u)
        <4>1. v = u
          BY <2>2, <3>1 DEF Takes, HoldsProfile
        <4> QED
          BY <3>1, <4>1 DEF Takes, InStep, HasProfile
      <3>2. CASE Blanks(r, u)
        <4>1. v = u /\ InStep(r, u) /\ handler[r].pc = "basic"
          BY <2>2, <3>2, WritesAlone DEF Blanks, Keeping, Writing, HoldsProfile
        <4>2. handler[r].text = None /\ handler[r].url = profile[u].url
          BY <1>0, <4>1 DEF InStep, AloneInv
        <4> QED
          BY <3>2, <4>1, <4>2 DEF Blanks, Keeping, InStep
      <3>3. CASE Replaces(r, u)
        <4>1. v = u
          BY <2>2, <3>3 DEF Replaces, Keeping, Writing, HoldsProfile
        <4> QED
          BY <3>3, <4>1 DEF Replaces, Keeping, InStep
      <3> QED
        BY <1>2, <2>2, <3>1, <3>2, <3>3 DEF Handling, Answers, Removes, Settled, HoldsProfile
    <2>3. ASSUME NEW s \in ProfileReqs, NEW v \in Ids \ clashed', s # r, HoldsProfile(s, v)'
          PROVE  InStep(s, v)'
      <3>1. handler'[s] = handler[s] /\ HoldsProfile(s, v)
        BY <2>0, <2>3 DEF Other, HoldsProfile
      <3>2. InStep(s, v)
        BY <1>0, <3>1 DEF AloneInv
      <3>3. v = u => profile' = profile
        BY <1>2, <2>3, <3>1, WritesAlone DEF Handling, Takes, Answers, Blanks, Replaces, Removes
      <3> QED
        BY <2>0, <3>1, <3>2, <3>3 DEF InStep, HasProfile
    <2> QED
      BY <2>1, <2>2, <2>3 DEF AloneInv
  <1> QED
    BY <1>1, <1>2 DEF Shapes

\* Where the URLs come from: those of a user stay his, and an upload's is
\* stored by its save.
LEMMA Spread ==
  ASSUME Stepping, NEW r \in ProfileReqs, NEW u \in Ids, Handling(r, u)
  PROVE  /\ handler'[r].url \in {handler[r].url, profile[u].url, None}
         /\ \/ profile'[u].url \in {profile[u].url, handler[r].url, None}
            \/ /\ profile'[u].url = r /\ r \in UploadReqs
               /\ handler[r].pc = "again" \/ Replaces(r, u)
         /\ \A a \in UploadReqs : handler'[a].pc \in {"start", "basic", "upload"} =>
              /\ handler[a].pc \in {"start", "basic", "upload"}
              /\ a = r => ~Replaces(r, u) /\ handler[r].pc # "again"
         /\ Takes(r, u) \/ HoldsProfile(r, u)
  <1>1. Other(r)
    BY Handled
  <1>2. UploadReqs \subseteq ProfileReqs
    BY Parts
  <1> QED
    BY <1>1, <1>2 DEF Handling, Takes, Answers, Blanks, Replaces, Removes, Writing, Settled,
                      Keeping, Other

LEMMA OwnersStep ==
  ASSUME Stepping, Shapes
  PROVE  OwnersInv'
  <1>0. OwnersInv /\ ProfilesTypeOK /\ UploadReqs \subseteq ProfileReqs /\ None \notin UploadReqs
    BY Facts, Parts
  <1>1. CASE Quiet \/ (\E a \in UploadReqs : Brings(a)) \/ \E r \in Droppers : Discarding(r)
    <2>1. /\ profile' = profile
          /\ \A r \in ProfileReqs :
               \/ handler'[r] = handler[r]
               \/ handler'[r].pc = "done" /\ handler'[r].url \in {handler[r].url, None}
      BY <1>1 DEF Quiet, Settled, Brings, Discarding
    <2>2. ASSUME NEW a \in UploadReqs, NEW v \in Ids, HasAvatar(v, a)' PROVE HasAvatar(v, a)
      BY <2>1, <2>2 DEF HasAvatar, HoldsProfile
    <2>3. ASSUME NEW a \in UploadReqs, handler'[a].pc \in {"start", "basic", "upload"}
          PROVE  /\ \A v \in Ids : profile'[v].url # a
                 /\ \A s \in ProfileReqs : handler'[s].url # a
      <3>1. handler[a].pc \in {"start", "basic", "upload"}
        BY <1>0, <2>1, <2>3
      <3> QED
        BY <1>0, <2>1, <3>1 DEF OwnersInv
    <2> QED
      BY <1>0, <2>2, <2>3 DEF OwnersInv
  <1>2. ASSUME NEW r \in ProfileReqs, NEW u \in Ids, Handling(r, u)
        PROVE  OwnersInv'
    <2>0. /\ Other(r) /\ \A v \in Ids : v # u => profile'[v] = profile[v]
      BY <1>2, Handled
    <2>1. ASSUME NEW a \in UploadReqs, handler'[a].pc \in {"start", "basic", "upload"}
          PROVE  /\ \A v \in Ids : profile'[v].url # a
                 /\ \A s \in ProfileReqs : handler'[s].url # a
      <3>1. /\ handler[a].pc \in {"start", "basic", "upload"}
            /\ a = r => ~Replaces(r, u) /\ handler[r].pc # "again"
        BY <1>2, <2>1, Spread
      <3>2. /\ \A v \in Ids : profile[v].url # a
            /\ \A s \in ProfileReqs : handler[s].url # a
        BY <1>0, <3>1 DEF OwnersInv
      <3>3. profile'[u].url # a /\ handler'[r].url # a
        BY <1>0, <1>2, <3>1, <3>2, Spread
      <3> QED
        BY <2>0, <3>2, <3>3 DEF Other
    <2>2. ASSUME NEW a \in UploadReqs, NEW v \in Ids, HasAvatar(v, a)'
          PROVE  HasAvatar(v, a) \/ (a = r /\ v = u /\ Replaces(r, u))
      <3>1. CASE profile'[v].url = a
        <4>1. CASE v # u \/ Takes(r, u)
          BY <2>0, <3>1, <4>1 DEF HasAvatar, Takes
        <4>2. CASE v = u /\ HoldsProfile(r, u)
          BY <1>0, <1>2, <3>1, <4>2, Spread DEF HasAvatar
        <4> QED
          BY <1>2, <4>1, <4>2, Spread
      <3>2. ASSUME NEW s \in ProfileReqs, HoldsProfile(s, v)',
                   handler'[s].url = a \/ (s = a /\ handler'[s].pc = "again")
            PROVE  HasAvatar(v, a) \/ (a = r /\ v = u /\ Replaces(r, u))
        <4>1. CASE s # r
          BY <2>0, <3>2, <4>1 DEF HasAvatar, HoldsProfile, Other
        <4>2. CASE s = r /\ Takes(r, u)
          BY <3>2, <4>2 DEF HasAvatar, HoldsProfile, Takes
        <4>3. CASE s = r /\ Blanks(r, u)
          BY <3>2, <4>3 DEF HasAvatar, HoldsProfile, Blanks, Writing, Keeping
        <4>4. CASE s = r /\ Replaces(r, u)
          BY <3>2, <4>4 DEF HasAvatar, HoldsProfile, Replaces, Writing, Keeping
        <4> QED
          BY <1>2, <3>2, <4>1, <4>2, <4>3, <4>4
             DEF Handling, Answers, Removes, Settled, HoldsProfile
      <3> QED
        BY <2>2, <3>1, <3>2 DEF HasAvatar
    <2>3. ASSUME NEW v \in Ids, Replaces(r, u) PROVE ~HasAvatar(v, r)
      BY <1>0, <2>3 DEF Replaces, OwnersInv, HasAvatar
    <2>4. \A a \in UploadReqs, v, w \in Ids : HasAvatar(v, a)' /\ HasAvatar(w, a)' => v = w
      BY <1>0, <2>2, <2>3 DEF OwnersInv
    <2> QED
      BY <2>1, <2>4 DEF OwnersInv
  <1> QED
    BY <1>1, <1>2 DEF Shapes
\* A drop that a handler starts is of the avatar it found, which its profile
\* showed until then, and nobody else drops that one.
LEMMA Starting ==
  ASSUME Stepping, NEW r \in ProfileReqs, NEW u \in Ids, Handling(r, u),
         NEW s \in Droppers, drop'[s] # drop[s], handler'[s].url # None
  PROVE  /\ s = r /\ drop'[s] = "copy" /\ handler[s].url = handler'[s].url
         /\ HasAvatar(u, handler[s].url) /\ profile'[u].url # handler[s].url
         /\ u \notin clashed' => /\ profile[u].url = handler[s].url
                                 /\ \A q \in Droppers : ~Discards(q, handler[s].url)
                                 /\ avatar[handler[s].url].here
  <1>0. /\ ProfilesTypeOK /\ StoredInv /\ OwnersInv /\ ShownInv /\ clashed \subseteq clashed'
        /\ Droppers \subseteq ProfileReqs /\ UploadReqs \subseteq ProfileReqs
        /\ None \notin UploadReqs
    BY Facts, Parts
  <1>1. s = r /\ (Replaces(r, u) \/ Removes(r, u))
    <2>1. s = r
      BY Handled
    <2> QED
      BY <2>1 DEF Handling, Takes, Answers, Blanks
  <1>2. /\ handler[r].url = handler'[r].url /\ drop'[r] = "copy" /\ HoldsProfile(r, u)
        /\ handler[r].pc \in {"upload", "delete"} /\ Writing(r, u)
        /\ profile'[u].url \in {r, None}
        /\ profile'[u].url = r => r \in UploadReqs /\ handler[r].pc = "upload"
    <2>1. CASE Replaces(r, u)
      <3>1. /\ Writing(r, u) /\ Keeping(r) /\ handler[r].pc = "upload" /\ r \in UploadReqs
            /\ profile'[u].url = r /\ drop' = [drop EXCEPT ![r] = "copy"]
        BY <1>1, <2>1 DEF Replaces
      <3> QED
        BY <1>0, <1>1, <3>1 DEF Keeping, Writing, ProfilesTypeOK
    <2>2. CASE Removes(r, u)
      <3>1. /\ Writing(r, u) /\ Settled(r) /\ handler[r].pc = "delete" /\ r \in Droppers
            /\ profile'[u].url = None
            /\ drop' = [drop EXCEPT ![r] = IF handler[r].url = None THEN "failed" ELSE "copy"]
        BY <2>2, Parts DEF Removes
      <3>2. handler'[r].url = handler[r].url /\ r # None
        BY <1>0, <3>1, Parts, ProfilesAssumption DEF Settled
      <3> QED
        BY <1>0, <1>1, <3>1, <3>2 DEF Writing, ProfilesTypeOK
    <2> QED
      BY <1>1, <2>1, <2>2
  <1>3. PICK a \in UploadReqs : a = handler[r].url
    BY <1>0, <1>1, <1>2 DEF ProfilesTypeOK, ProfileHandler
  <1>4. HasAvatar(u, a)
    BY <1>0, <1>2, <1>3 DEF HasAvatar
  <1>5. profile'[u].url # a
    BY <1>0, <1>2, <1>3 DEF OwnersInv
  <1>6. ASSUME u \notin clashed'
        PROVE  /\ profile[u].url = a /\ avatar[a].here
               /\ \A q \in Droppers : ~Discards(q, a)
    <2>1. InStep(r, u)
      BY <1>2, <1>6, WritesAlone
    <2>2. profile[u].url = a /\ u \in Ids \ clashed
      BY <1>0, <1>2, <1>3, <1>6, <2>1 DEF InStep
    <2>3. \A q \in Droppers : ~Discards(q, a)
      BY <1>0, <2>2 DEF ShownInv
    <2>4. upload[a] = "done"
      BY <1>0, <2>2 DEF StoredInv
    <2> QED
      BY <1>0, <2>2, <2>3, <2>4 DEF ShownInv
  <1> QED
    BY <1>1, <1>2, <1>3, <1>4, <1>5, <1>6

LEMMA ShownStep ==
  ASSUME Stepping, Shapes
  PROVE  ShownInv'
  <1>0. /\ ProfilesTypeOK /\ HoldersInv /\ StoredInv /\ OwnersInv /\ ShownInv
        /\ clashed \subseteq clashed'
        /\ Droppers \subseteq ProfileReqs /\ UploadReqs \subseteq ProfileReqs
        /\ None \notin UploadReqs
    BY Facts, Parts
  <1>1. CASE Quiet
    <2>1. \A r \in Droppers : handler'[r].url = handler[r].url
      BY <1>0, <1>1 DEF Quiet, Settled
    <2> QED
      BY <1>0, <1>1, <2>1 DEF Quiet, ShownInv, Discards
  <1>2. ASSUME NEW a \in UploadReqs, Brings(a) PROVE ShownInv'
    BY <1>0, <1>2 DEF Brings, ShownInv, Discards
  <1>3. ASSUME NEW r \in Droppers, Discarding(r) PROVE ShownInv'
    <2>1. \A s \in Droppers : drop'[s] # "idle" <=> drop[s] # "idle"
      BY <1>3 DEF Discarding
    <2>2. \A s \in Droppers, a \in UploadReqs \cup {None} : Discards(s, a)' <=> Discards(s, a)
      BY <1>3, <2>1 DEF Discarding, Discards
    <2>3. Discards(r, handler[r].url)
      BY <1>3 DEF Discarding, Discards
    <2>4. \A a \in UploadReqs :
            upload'[a] = "done" /\ (\A s \in Droppers : ~Discards(s, a)') =>
              avatar'[a].here /\ avatar'[a].meta = "live"
      BY <1>0, <1>3, <2>2, <2>3 DEF Discarding, ShownInv
    <2>5. \A v \in Ids \ clashed', s \in Droppers :
            profile'[v].url # None => handler'[s].url # profile'[v].url \/ drop'[s] = "idle"
      BY <1>0, <1>3, <2>1 DEF Discarding, ShownInv, Discards
    <2> QED
      BY <2>4, <2>5 DEF ShownInv, Discards
  <1>4. ASSUME NEW r \in ProfileReqs, NEW u \in Ids, Handling(r, u)
        PROVE  ShownInv'
    <2>0. /\ avatar' = avatar /\ Other(r)
          /\ \A v \in Ids : v # u => profile'[v] = profile[v]
          /\ \A a \in UploadReqs : upload'[a] = "done" => upload[a] = "done"
          /\ \A s \in Droppers :
               drop[s] # "idle" => drop'[s] = drop[s] /\ handler'[s].url = handler[s].url
      BY <1>4, Handled
    <2>1. \A a \in UploadReqs, s \in Droppers : Discards(s, a) => Discards(s, a)'
      BY <2>0 DEF Discards
    <2>2. \A a \in UploadReqs :
            upload'[a] = "done" /\ (\A s \in Droppers : ~Discards(s, a)') =>
              avatar'[a].here /\ avatar'[a].meta = "live"
      BY <1>0, <2>0, <2>1 DEF ShownInv
    <2>3. ASSUME NEW v \in Ids \ clashed', NEW s \in Droppers, profile'[v].url # None,
                 handler'[s].url = profile'[v].url, drop'[s] # "idle"
          PROVE  FALSE
      <3>1. PICK a \in UploadReqs : a = profile'[v].url
        BY <2>3, Facts DEF ProfilesTypeOK, ProfileRow
      <3>2. handler'[s].url = a /\ drop'[s] # "idle"
        BY <2>3, <3>1
      <3>3. CASE drop[s] # "idle"
        <4>1. Discards(s, a) /\ profile[v].url # a
          BY <1>0, <2>0, <2>3, <3>1, <3>2, <3>3 DEF Discards, ShownInv
        <4>2. v = u /\ Writing(r, u)
          BY <1>4, <2>0, <3>1, <4>1 DEF Handling, Takes, Answers, Blanks, Replaces, Removes
        <4>3. InStep(r, u)
          BY <2>3, <4>2, WritesAlone
        <4>4. \/ a = handler[r].url /\ handler[r].pc # "again"
              \/ a = r /\ handler[r].pc = "again"
              \/ a = r /\ handler[r].pc = "upload"
          BY <1>0, <1>4, <3>1, <4>1, <4>2
             DEF Handling, Takes, Answers, Blanks, Replaces, Removes, Writing, HoldsProfile
        <4>5. a = r /\ handler[r].pc = "upload"
          BY <4>1, <4>2, <4>3, <4>4 DEF InStep
        <4>6. handler[s].url # a
          BY <1>0, <4>5 DEF OwnersInv
        <4> QED
          BY <4>1, <4>6 DEF Discards
      <3>4. CASE drop[s] = "idle"
        <4>1. HasAvatar(u, a) /\ profile'[u].url # a
          BY <1>0, <1>4, <3>2, <3>4, Starting
        <4>2. v # u /\ profile[v].url = a
          BY <2>0, <3>1, <4>1
        <4>3. HasAvatar(v, a)
          BY <4>2 DEF HasAvatar
        <4> QED
          BY <1>0, <4>1, <4>2, <4>3 DEF OwnersInv
      <3> QED
        BY <3>3, <3>4
    <2> QED
      BY <2>2, <2>3 DEF ShownInv, Discards
  <1> QED
    BY <1>1, <1>2, <1>3, <1>4 DEF Shapes

LEMMA DropsStep ==
  ASSUME Stepping, Shapes
  PROVE  DropsInv'
  <1>0. /\ ProfilesTypeOK /\ StoredInv /\ DropsInv /\ clashed \subseteq clashed'
        /\ Droppers \subseteq ProfileReqs /\ None \notin UploadReqs
        /\ ProfilesTypeOK' /\ StoredInv'
    BY Facts, Parts
  <1>1. CASE Quiet
    <2>1. \A r \in Droppers : handler'[r].url = handler[r].url
      BY <1>0, <1>1 DEF Quiet, Settled
    <2> QED
      BY <1>0, <1>1, <2>1 DEF Quiet, DropsInv, Discards
  <1>2. ASSUME NEW a \in UploadReqs, Brings(a) PROVE DropsInv'
    <2>1. \A r \in Droppers : drop[r] \in {"copy", "mark"} =>
            handler[r].url \in UploadReqs /\ handler[r].url # a
      BY <1>0, <1>2 DEF StoredInv, Brings, ProfilesTypeOK, ProfileHandler
    <2>2. \A r \in Droppers : drop[r] \in {"copy", "mark"} =>
            avatar'[handler[r].url] = avatar[handler[r].url]
      BY <1>2, <2>1 DEF Brings
    <2>3. \A r \in Droppers : drop'[r] = "mark" => ~avatar'[handler'[r].url].here
      BY <1>0, <1>2, <2>2 DEF Brings, DropsInv
    <2>4. clashed' = {} => \A r \in Droppers : drop'[r] = "copy" => avatar'[handler'[r].url].here
      BY <1>0, <1>2, <2>2 DEF Brings, DropsInv
    <2> QED
      BY <1>0, <1>2, <2>3, <2>4 DEF Brings, DropsInv, Discards
  <1>3. ASSUME NEW x \in Droppers, Discarding(x) PROVE DropsInv'
    <2>1. /\ \A s \in Droppers : drop'[s] # "idle" <=> drop[s] # "idle"
          /\ handler' = handler /\ drop[x] \in {"copy", "remove", "mark"} /\ drop'[x] # "copy"
          /\ \A s \in Droppers : s # x => drop'[s] = drop[s]
      BY <1>3 DEF Discarding
    <2>2. PICK a \in UploadReqs : a = handler[x].url
      BY <1>0, <2>1 DEF StoredInv, ProfilesTypeOK, ProfileHandler
    <2>3. /\ avatar'[a].here => avatar[a].here
          /\ drop'[x] = "mark" => ~avatar'[a].here
          /\ \A b \in UploadReqs : b # a => avatar'[b] = avatar[b]
      BY <1>3, <2>2 DEF Discarding
    <2>5. ASSUME NEW s \in Droppers, drop'[s] = "mark" PROVE ~avatar'[handler'[s].url].here
      <3>1. CASE s = x
        BY <2>1, <2>2, <2>3, <2>5, <3>1
      <3>2. CASE s # x
        <4>1. handler[s].url \in UploadReqs /\ ~avatar[handler[s].url].here
          BY <1>0, <2>1, <2>5, <3>2 DEF StoredInv, ProfilesTypeOK, ProfileHandler, DropsInv
        <4> QED
          BY <2>1, <2>3, <4>1
      <3> QED
        BY <3>1, <3>2
    <2>6. ASSUME clashed' = {}, NEW r \in Droppers, drop'[r] = "copy"
          PROVE  avatar'[handler'[r].url].here
      <3>1. r # x /\ drop[r] = "copy" /\ clashed = {}
        BY <1>0, <2>1, <2>6
      <3>2. handler[r].url \in UploadReqs /\ avatar[handler[r].url].here
        BY <1>0, <3>1 DEF StoredInv, ProfilesTypeOK, ProfileHandler, DropsInv
      <3>3. handler[r].url # a
        BY <1>0, <2>1, <2>2, <3>1, <3>2 DEF DropsInv, Discards
      <3> QED
        BY <2>1, <2>3, <3>2, <3>3
    <2>7. ASSUME clashed' = {}, NEW r \in Droppers, NEW s \in Droppers, handler'[r].url # None,
                 handler'[s].url = handler'[r].url, drop'[s] # "idle", drop'[r] # "idle"
          PROVE  r = s
      BY <1>0, <2>1, <2>7 DEF DropsInv, Discards
    <2> QED
      BY <2>5, <2>6, <2>7 DEF DropsInv, Discards
  <1>4. ASSUME NEW x \in ProfileReqs, NEW u \in Ids, Handling(x, u)
        PROVE  DropsInv'
    <2>0. /\ avatar' = avatar
          /\ \A s \in Droppers :
               drop[s] # "idle" => drop'[s] = drop[s] /\ handler'[s].url = handler[s].url
      BY <1>4, Handled
    <2>1. ASSUME NEW r \in Droppers, drop'[r] # "idle", drop[r] = "idle", handler'[r].url # None
          PROVE  /\ r = x /\ drop'[r] = "copy" /\ handler'[r].url = handler[r].url
                 /\ clashed' = {} => /\ avatar[handler[r].url].here
                                     /\ \A q \in Droppers : ~Discards(q, handler[r].url)
      BY <1>4, <2>1, Starting
    <2>2. ASSUME NEW r \in Droppers, drop'[r] = "mark" PROVE ~avatar'[handler'[r].url].here
      <3>1. handler'[r].url # None
        BY <1>0, <2>2 DEF StoredInv
      <3> QED
        BY <1>0, <2>0, <2>1, <2>2, <3>1 DEF DropsInv
    <2>3. ASSUME clashed' = {}, NEW r \in Droppers, drop'[r] = "copy"
          PROVE  avatar'[handler'[r].url].here
      <3>1. handler'[r].url # None
        BY <1>0, <2>3 DEF StoredInv
      <3> QED
        BY <1>0, <2>0, <2>1, <2>3, <3>1 DEF DropsInv
    <2>4. ASSUME clashed' = {}, NEW r \in Droppers, NEW s \in Droppers, handler'[r].url # None,
                 handler'[s].url = handler'[r].url, drop'[s] # "idle", drop'[r] # "idle"
          PROVE  r = s
      <3>1. handler'[s].url = handler'[r].url /\ drop'[s] # "idle" /\ clashed = {}
        BY <1>0, <2>4
      <3>2. CASE drop[r] # "idle" /\ drop[s] # "idle"
        BY <1>0, <2>0, <2>4, <3>1, <3>2 DEF DropsInv, Discards
      <3>3. CASE drop[r] = "idle" /\ drop[s] # "idle"
        BY <2>0, <2>1, <2>4, <3>1, <3>3 DEF Discards
      <3>4. CASE drop[r] # "idle" /\ drop[s] = "idle"
        BY <2>0, <2>1, <2>4, <3>1, <3>4 DEF Discards
      <3>5. CASE drop[r] = "idle" /\ drop[s] = "idle"
        BY <2>1, <2>4, <3>1, <3>5
      <3> QED
        BY <3>2, <3>3, <3>4, <3>5
    <2> QED
      BY <2>2, <2>3, <2>4 DEF DropsInv, Discards
  <1> QED
    BY <1>1, <1>2, <1>3, <1>4 DEF Shapes

LEMMA UploadsStep ==
  ASSUME Stepping, Shapes
  PROVE  UploadsInv'
  <1>0. /\ UploadsInv
        /\ faults' = MaxFail => faults = MaxFail
        /\ UploadReqs \subseteq ProfileReqs
    BY Facts, Parts
  <1> SUFFICES ASSUME faults' = MaxFail, NEW a \in UploadReqs
               PROVE  /\ upload'[a] # "failed"
                      /\ upload'[a] = "sent" => handler'[a].pc = "upload"
    BY DEF UploadsInv
  <1>1. upload[a] # "failed" /\ (upload[a] = "sent" => handler[a].pc = "upload")
    BY <1>0 DEF UploadsInv
  <1>2. CASE Quiet
    BY <1>0, <1>1, <1>2 DEF Quiet
  <1>3. ASSUME NEW b \in UploadReqs, Brings(b)
        PROVE  /\ upload'[a] # "failed"
               /\ upload'[a] = "sent" => handler'[a].pc = "upload"
    BY <1>1, <1>3 DEF Brings
  <1>4. CASE \E r \in Droppers : Discarding(r)
    BY <1>1, <1>4 DEF Discarding
  <1>5. ASSUME NEW r \in ProfileReqs, NEW u \in Ids, Handling(r, u)
        PROVE  /\ upload'[a] # "failed"
               /\ upload'[a] = "sent" => handler'[a].pc = "upload"
    <2>1. /\ Other(r)
          /\ upload[a] = "failed" <=> upload'[a] = "failed"
          /\ upload'[a] # upload[a] => a = r /\ handler'[r].pc = "upload"
      BY <1>5, Handled
    <2>2. a = r /\ upload[a] = "sent" => handler'[a].pc = "upload"
      BY <1>1, <1>5, Facts DEF Handling, Takes, Answers, Blanks, Replaces, Removes, StoredInv,
                               HoldersInv, ProfilesTypeOK
    <2> QED
      BY <1>0, <1>1, <2>1, <2>2 DEF Other
  <1> QED
    BY <1>2, <1>3, <1>4, <1>5 DEF Shapes
LEMMA OrphansStep ==
  ASSUME Stepping, Shapes
  PROVE  NoAvatarOrphans'
  <1>0. /\ ProfilesTypeOK /\ StoredInv /\ DropsInv /\ UploadsInv /\ NoAvatarOrphans
        /\ clashed \subseteq clashed' /\ None \notin UploadReqs
        /\ faults' = MaxFail => faults = MaxFail
        /\ UploadReqs \subseteq Droppers /\ Droppers \subseteq ProfileReqs
    BY Facts, Parts
  <1> SUFFICES ASSUME faults' = MaxFail, clashed' = {}, NEW a \in UploadReqs,
                      avatar'[a].here \/ avatar'[a].meta = "live"
               PROVE  Pending(a)' \/ \E u \in Ids : profile'[u].url = a
    BY DEF NoAvatarOrphans
  <1>1. /\ faults = MaxFail /\ clashed = {} /\ upload[a] # "failed"
        /\ upload[a] = "sent" => handler[a].pc = "upload"
        /\ avatar[a].here \/ avatar[a].meta = "live" =>
             Pending(a) \/ \E u \in Ids : profile[u].url = a
    BY <1>0 DEF NoAvatarOrphans, UploadsInv
  <1>2. CASE Quiet
    <2>1. /\ \A r \in Droppers : handler'[r].url = handler[r].url
          /\ handler'[a] = handler[a] \/ upload[a] = "failed"
      BY <1>0, <1>2 DEF Quiet, Settled
    <2> QED
      BY <1>1, <1>2, <2>1 DEF Quiet, Pending
  <1>3. ASSUME NEW b \in UploadReqs, Brings(b)
        PROVE  Pending(a)' \/ \E u \in Ids : profile'[u].url = a
    <2>1. CASE a = b
      BY <1>1, <1>3, <2>1 DEF Brings, Pending
    <2>2. CASE a # b
      BY <1>1, <1>3, <2>2 DEF Brings, Pending
    <2> QED
      BY <2>1, <2>2
  <1>4. ASSUME NEW x \in Droppers, Discarding(x)
        PROVE  Pending(a)' \/ \E u \in Ids : profile'[u].url = a
    <2>1. CASE handler[x].url # a
      <3>1. /\ avatar'[a] = avatar[a] /\ handler' = handler /\ profile' = profile
            /\ \A s \in Droppers : handler[s].url = a => drop'[s] = drop[s]
        BY <1>4, <2>1 DEF Discarding
      <3> QED
        BY <1>1, <3>1 DEF Pending
    <2>2. CASE handler[x].url = a
      <3>1. drop[x] = "copy" => avatar[a].here
        BY <1>0, <1>1, <2>2 DEF DropsInv
      <3>2. drop[x] = "mark" => ~avatar[a].here
        BY <1>0, <2>2 DEF DropsInv
      <3>3. drop'[x] \in {"remove", "mark"} /\ handler' = handler
        BY <1>4, <2>2, <3>1, <3>2 DEF Discarding
      <3> QED
        BY <2>2, <3>3 DEF Pending
    <2> QED
      BY <2>1, <2>2
  <1>5. ASSUME NEW r \in ProfileReqs, NEW u \in Ids, Handling(r, u)
        PROVE  Pending(a)' \/ \E v \in Ids : profile'[v].url = a
    <2>0. /\ Other(r) /\ avatar' = avatar
          /\ \A v \in Ids : v # u => profile'[v] = profile[v]
          /\ \A s \in Droppers :
               drop[s] # "idle" => drop'[s] = drop[s] /\ handler'[s].url = handler[s].url
      BY <1>5, Handled
    <2>1. CASE \E s \in Droppers : handler[s].url = a /\ drop[s] \in {"copy", "remove", "mark"}
      BY <2>0, <2>1 DEF Pending
    <2>2. CASE handler[a].pc # "done"
      <3>1. CASE a # r
        BY <1>0, <2>0, <2>2, <3>1 DEF Pending, Other
      <3>2. CASE a = r /\ Answers(r, u)
        BY <1>0, <3>2, Parts DEF Answers
      <3>3. CASE a = r /\ ~Answers(r, u)
        <4>1. handler'[r].pc # "done"
          BY <1>5, <3>3, Parts DEF Handling, Takes, Blanks, Replaces, Removes
        <4> QED
          BY <3>3, <4>1 DEF Pending
      <3> QED
        BY <3>1, <3>2, <3>3
    <2>3. ASSUME NEW v \in Ids, profile[v].url = a, profile'[v].url # a
          PROVE  Pending(a)'
      <3>1. v = u /\ Writing(r, u) /\ u \notin clashed'
        BY <1>5, <2>0, <2>3 DEF Handling, Takes, Answers, Blanks, Replaces, Removes
      <3>2. InStep(r, u)
        BY <3>1, WritesAlone
      <3>3. Replaces(r, u) \/ Removes(r, u)
        BY <1>0, <1>5, <2>3, <3>1, <3>2
           DEF Handling, Takes, Answers, Blanks, InStep
      <3>4. /\ handler[r].url = a /\ handler'[r].url = a /\ r \in Droppers
            /\ drop' = [drop EXCEPT ![r] = "copy"]
        BY <1>0, <2>3, <3>1, <3>2, <3>3, Parts
           DEF InStep, Replaces, Removes, Keeping, Settled
      <3> QED
        BY <1>0, <3>4 DEF Pending, ProfilesTypeOK
    <2> QED
      BY <1>1, <2>0, <2>1, <2>2, <2>3 DEF Pending
  <1> QED
    BY <1>2, <1>3, <1>4, <1>5 DEF Shapes

LEMMA TextStep ==
  ASSUME Stepping, Shapes
  PROVE  TextIsKept
  <1> SUFFICES ASSUME NEW u \in Ids \ clashed', HasProfile(u), HasProfile(u)',
                      profile'[u].text # profile[u].text
               PROVE  \E r \in Texts : handler[r].pc # "done" /\ handler'[r].pc = "done"
                                       /\ profile'[u].text = r
    BY DEF TextIsKept
  <1>1. PICK r \in ProfileReqs, v \in Ids : Handling(r, v)
    BY DEF Shapes, Quiet, Brings, Discarding
  <1>2. v = u /\ Writing(r, u)
    BY <1>1, Handled DEF Handling, Takes, Answers, Blanks, Replaces, Removes
  <1>3. InStep(r, u) /\ handler[r].pc # "done"
    BY <1>2, WritesAlone DEF Writing, HoldsProfile
  <1>4. Answers(r, u) /\ r \in Texts
    BY <1>1, <1>2, <1>3 DEF Handling, Takes, Answers, Blanks, Replaces, Removes, InStep, HasProfile
  <1> QED
    BY <1>3, <1>4, Parts DEF Answers, Settled

LEMMA ClashedGrow ==
  ASSUME ProfilesInv, ClashesInv, [Next]_vars
  PROVE  clashed \subseteq clashed' /\ ClashesInv'
  <1>1. CASE Next
    BY <1>1 DEF Next, Clash, ClashesInv
  <1>2. CASE UNCHANGED vars
    BY <1>2 DEF vars, profileVars, ClashesInv, HoldsProfile
  <1> QED
    BY <1>1, <1>2

LEMMA FaultsNever ==
  ASSUME AInv, HoldersInv, [Next]_vars, faults' = MaxFail
  PROVE  faults = MaxFail
  <1>1. CASE AccountStep
    BY <1>1, FaultsStay
  <1>2. CASE ProfileStep
    BY <1>2, ProfileSteps, FaultsFall DEF RenameStart, Aside
  <1>3. CASE GatewayRestart
    BY <1>3, FaultsFall DEF GatewayRestart, Restart
  <1> QED
    BY <1>1, <1>2, <1>3 DEF Next, vars, accountVars

LEMMA StepsTogether ==
  ASSUME AInv, AvatarsInv, [Next]_vars
  PROVE  AInv' /\ Stepping /\ Shapes /\ ClashesInv'
  <1>1. ProfilesInv /\ HoldersInv /\ ClashesInv
    BY DEF AvatarsInv, ProfilesInv
  <1> QED
    BY <1>1, ProfilesKeep, ClashedGrow, FaultsNever, StepShapes DEF Stepping

LEMMA AvatarsInitInv == Init => AInv /\ AvatarsInv
  <1> SUFFICES ASSUME Init PROVE AvatarsInv
    BY ProfilesInitInv
  <1>1. /\ \A u \in Ids : profile[u] = [st |-> "none", id |-> 0, text |-> None, url |-> None]
        /\ \A r \in ProfileReqs : handler[r] = Idle
        /\ \A a \in UploadReqs :
             /\ upload[a] = "idle"
             /\ avatar[a] = [here |-> FALSE, trash |-> FALSE, meta |-> "none"]
        /\ \A r \in Droppers : drop[r] = "idle"
    BY DEF Init
  <1>2. Droppers \subseteq ProfileReqs /\ UploadReqs \subseteq ProfileReqs
        /\ None \notin UploadReqs
    BY Parts
  <1>3. ClashesInv /\ OwnersInv
    BY <1>1, <1>2 DEF ClashesInv, OwnersInv, HasAvatar, HoldsProfile, Idle
  <1>4. AloneInv /\ ShownInv
    BY <1>1, <1>2 DEF AloneInv, ShownInv, HoldsProfile, HasProfile, Idle
  <1>5. DropsInv /\ UploadsInv /\ NoAvatarOrphans
    BY <1>1, <1>2 DEF DropsInv, Discards, UploadsInv, NoAvatarOrphans
  <1> QED
    BY <1>3, <1>4, <1>5, ProfilesInitInv DEF AvatarsInv

LEMMA AvatarsKeep == AInv /\ AvatarsInv /\ [Next]_vars => (AInv /\ AvatarsInv)'
  <1> SUFFICES ASSUME AInv, AvatarsInv, [Next]_vars PROVE (AInv /\ AvatarsInv)'
    OBVIOUS
  <1>1. AInv' /\ Stepping /\ Shapes /\ ClashesInv'
    BY StepsTogether
  <1>2. OwnersInv' /\ AloneInv' /\ ShownInv' /\ DropsInv' /\ UploadsInv' /\ NoAvatarOrphans'
    BY <1>1, OwnersStep, AloneStep, ShownStep, DropsStep, UploadsStep, OrphansStep
  <1> QED
    BY <1>1, <1>2 DEF AvatarsInv, Stepping

\* The invariant of the avatars: a URL is one user's; a handler that is alone
\* with a user holds his profile as it is; what is shown is not dropped, and
\* what is dropped is dropped once.
THEOREM AvatarsInvariant == Spec => []AvatarsInv
  BY AvatarsInitInv, AvatarsKeep, PTL DEF Spec

\* The avatar a profile shows is in the bucket and documented, whatever fails
\* and whatever restarts, unless two handlers held the profile at once.
THEOREM ShownAvatarsExist == Spec => []ShownAvatarExists
  <1>1. AvatarsInv => ShownAvatarExists
    <2> SUFFICES ASSUME AvatarsInv, NEW u \in Ids \ clashed, profile[u].url # None
                 PROVE  avatar[profile[u].url].here /\ avatar[profile[u].url].meta = "live"
      BY DEF ShownAvatarExists
    <2>1. PICK a \in UploadReqs : a = profile[u].url
      BY DEF AvatarsInv, ProfilesInv, ProfilesTypeOK, ProfileRow
    <2>2. upload[a] = "done" /\ \A r \in Droppers : ~Discards(r, a)
      BY <2>1 DEF AvatarsInv, ProfilesInv, StoredInv, ShownInv
    <2> QED
      BY <2>1, <2>2 DEF AvatarsInv, ShownInv
  <1> QED
    BY <1>1, AvatarsInvariant, PTL

\* Without a failure no avatar stays in the bucket that no profile shows and no
\* handler is to save or to drop, unless two handlers held a profile at once.
THEOREM NoAvatarIsLeft == Spec => []NoAvatarOrphans
  <1>1. AvatarsInv => NoAvatarOrphans
    BY DEF AvatarsInv
  <1> QED
    BY <1>1, AvatarsInvariant, PTL

\* A text changes only to that of the request being answered, unless two
\* handlers held the profile at once: an upload, an update of the username and
\* a restart change none.
THEOREM TextsStay == Spec => TextsAreKept
  <1>1. AInv /\ AvatarsInv /\ [Next]_vars => [TextIsKept]_vars
    BY StepsTogether, TextStep
  <1>2. Spec => [](AInv /\ AvatarsInv)
    BY AvatarsInitInv, AvatarsKeep, PTL DEF Spec
  <1> QED
    BY <1>1, <1>2, PTL DEF Spec, TextsAreKept
=============================================================================
