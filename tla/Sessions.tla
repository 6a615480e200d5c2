------------------------------ MODULE Sessions ------------------------------
(***************************************************************************)
(* The gateway's sessions: login, OAuth login, refresh, logout and the     *)
(* termination of devices, over the `Device` table and the refresh tokens  *)
(* in the clients' cookies.                                                *)
(*                                                                         *)
(* A refresh token is a JWT over the user, the device and `iat` in whole   *)
(* seconds: two signed for one device in one second are the same token.    *)
(* A device's id is a random UUID made by the login request that inserts   *)
(* the row, so that request names it.  An action is the code between two   *)
(* queries; signing only reads the clock.                                  *)
(***************************************************************************)
EXTENDS Naturals

CONSTANTS
    Users,
    Clients,         \* browsers, each with one cookie jar
    LoginReqs,       \* POST /auth/login, past the password check
    OAuthReqs,       \* GET /auth/oauth/:provider/callback, past the provider
    RefreshReqs,     \* POST /auth/refresh-token
    LogoutReqs,      \* POST /auth/logout
    TerminateReqs,   \* DELETE /security/devices/:deviceId
    OthersReqs,      \* DELETE /security/devices
    ClientOf,        \* the client that sends each request
    UserOf,          \* the user each client logs in as
    Hasty,           \* clients that send a request while another is running
    MaxClock,        \* bound: seconds
    TTL,             \* seconds a refresh token is valid
    MaxLost,         \* bound: responses that never reach their client, failing writes
    None

Devices == LoginReqs \cup OAuthReqs
Reqs == Devices \cup RefreshReqs \cup LogoutReqs \cup TerminateReqs \cup OthersReqs
Seconds == 0..MaxClock
Tokens == [dev : Devices, iat : Seconds]

ASSUME SessionAssumption ==
    /\ ClientOf \in [Reqs -> Clients]
    /\ UserOf \in [Clients -> Users]
    /\ Hasty \subseteq Clients
    /\ MaxClock \in Nat /\ TTL \in Nat /\ MaxLost \in Nat
    /\ None \notin Devices /\ None \notin Tokens
    /\ LoginReqs \cap OAuthReqs = {}
    /\ RefreshReqs \cap Devices = {}
    /\ LogoutReqs \cap (Devices \cup RefreshReqs) = {}
    /\ TerminateReqs \cap (Devices \cup RefreshReqs \cup LogoutReqs) = {}
    /\ OthersReqs \cap (Devices \cup RefreshReqs \cup LogoutReqs \cup TerminateReqs) = {}

VARIABLES
    device,   \* `Device` table
    cookie,   \* the refresh token in each client's jar
    req,      \* the request handlers
    now,      \* the clock
    lost,     \* responses that may still be lost, writes that may fail
    raced     \* history: devices two handlers were bringing a token for at once

vars == <<device, cookie, req, now, lost, raced>>

DeviceRow == [st : {"none", "live", "deleted"}, iat : Seconds]

Request == [pc : {"start", "find", "create", "update", "delete", "reply", "done"},
            tok : Tokens \cup {None},     \* the cookie sent with the request
            new : Tokens \cup {None},     \* the token signed for the answer
            target : Devices \cup {None},
            res : {"none", "ok", "cleared", "stillValid", "unauthorized", "notFound",
                   "forbidden", "failed"}]

TypeOK ==
    /\ device \in [Devices -> DeviceRow]
    /\ cookie \in [Clients -> Tokens \cup {None}]
    /\ req \in [Reqs -> Request]
    /\ now \in Seconds
    /\ lost \in 0..MaxLost
    /\ raced \in SUBSET Devices

Init ==
    /\ device = [d \in Devices |-> [st |-> "none", iat |-> 0]]
    /\ cookie = [c \in Clients |-> None]
    /\ req = [r \in Reqs |-> [pc |-> "start", tok |-> None, new |-> None,
                              target |-> None, res |-> "none"]]
    /\ now = 0
    /\ lost = MaxLost
    /\ raced = {}

-----------------------------------------------------------------------------
\* jsonwebtoken's check of `exp`.
Expired(t) == now >= t.iat + TTL
Valid(t) == t # None /\ ~Expired(t)

\* Prisma's `where: { id, isDeleted: false }` and with `iat`.
Live(d) == device[d].st = "live"
Current(t) == Live(t.dev) /\ device[t.dev].iat = t.iat

\* `Device.userId`, which is also the `userId` of the device's tokens.
OwnerOf(d) == UserOf[ClientOf[d]]

Idle(c) == \A r \in Reqs : ClientOf[r] = c => req[r].pc \in {"start", "done"}
MaySend(r) == req[r].pc = "start" /\ (ClientOf[r] \in Hasty \/ Idle(ClientOf[r]))

Answer(r, res) == req' = [req EXCEPT ![r] = [@ EXCEPT !.pc = "reply", !.res = res]]

\* Answers `res`, having been sent the cookie t.
AnswerTo(r, t, res) ==
    req' = [req EXCEPT ![r] = [@ EXCEPT !.pc = "reply", !.res = res, !.tok = t]]

InsertDevice(d, iat) == device' = [device EXCEPT ![d] = [st |-> "live", iat |-> iat]]

\* create and updateIat catch an error of the database and return false.
WriteFails == lost > 0 /\ lost' = lost - 1 /\ UNCHANGED device

\* updateIat by id alone: false too when no live row was found.
UpdateIat(d, iat) ==
    device' = IF Live(d) THEN [device EXCEPT ![d].iat = iat] ELSE device

MarkDeleted(d) == device' = [device EXCEPT ![d].st = "deleted"]

\* deleteOneByDeviceIdAndIAt; Prisma throws when no row matches.
DeleteByIat(t) == Current(t) /\ MarkDeleted(t.dev)

\* deleteOneByDeviceIdAndUserId, for a device whose user was compared; likewise.
DeleteByUser(d) == Live(d) /\ MarkDeleted(d)

-----------------------------------------------------------------------------
\* Mutant: the check of the cookie is lost.
LoginStartUnchecked(r) ==
    /\ MaySend(r)
    /\ req' = [req EXCEPT ![r] = [@ EXCEPT !.pc = "create", !.tok = cookie[ClientOf[r]],
                             !.new = [dev |-> r, iat |-> now]]]
    /\ UNCHANGED <<device, cookie, now, lost>>

\* POST /auth/login: refused while the cookie sent along is a valid JWT,
\* whatever the state of its device; otherwise sign tokens for a new device.
LoginStart(r) ==
    /\ MaySend(r)
    /\ LET t == cookie[ClientOf[r]] IN
         \/ /\ Valid(t)
            /\ AnswerTo(r, t, "stillValid")
         \/ /\ ~Valid(t)
            /\ req' = [req EXCEPT ![r] = [@ EXCEPT !.pc = "create", !.tok = t,
                                     !.new = [dev |-> r, iat |-> now]]]
    /\ UNCHANGED <<device, cookie, now, lost>>

\* The OAuth callback does not look at the cookie.
OAuthStart(r) ==
    /\ MaySend(r)
    /\ req' = [req EXCEPT ![r] = [@ EXCEPT !.pc = "create",
                             !.new = [dev |-> r, iat |-> now]]]
    /\ UNCHANGED <<device, cookie, now, lost>>

\* Mutant: `exp` is stored for `iat`.
CreateDeviceExp(r) ==
    /\ req[r].pc = "create"
    /\ device' = [device EXCEPT ![r] = [st |-> "live", iat |-> req[r].new.iat + TTL]]
    /\ Answer(r, "ok")
    /\ UNCHANGED <<cookie, now, lost>>

\* That create failed is not looked at.
CreateDevice(r) ==
    /\ req[r].pc = "create"
    /\ (InsertDevice(r, req[r].new.iat) /\ UNCHANGED lost) \/ WriteFails
    /\ Answer(r, "ok")
    /\ UNCHANGED <<cookie, now>>

-----------------------------------------------------------------------------
\* RefreshTokenAuthGuard: the JWT must be there and not expired.  The device
\* is not looked at.
Guarded(r, pc, target) ==
    /\ MaySend(r)
    /\ LET t == cookie[ClientOf[r]] IN
         \/ /\ ~Valid(t)
            /\ AnswerTo(r, t, "unauthorized")
         \/ /\ Valid(t)
            /\ req' = [req EXCEPT ![r] = [@ EXCEPT !.pc = pc, !.tok = t, !.target = target]]
    /\ UNCHANGED <<device, cookie, now, lost>>

RefreshStart(r) == Guarded(r, "find", None)
LogoutStart(r) == Guarded(r, "delete", None)
OthersStart(r) == Guarded(r, "delete", None)
TerminateStart(r) == \E d \in Devices : device[d].st # "none" /\ Guarded(r, "find", d)

\* POST /auth/refresh-token: find the device by id and iat, sign a new pair.
RefreshFind(r) ==
    /\ req[r].pc = "find"
    /\ \/ /\ ~Current(req[r].tok)
          /\ Answer(r, "unauthorized")
       \/ /\ Current(req[r].tok)
          /\ req' = [req EXCEPT ![r] = [@ EXCEPT !.pc = "update",
                                   !.new = [dev |-> req[r].tok.dev, iat |-> now]]]
    /\ UNCHANGED <<device, cookie, now, lost>>

\* Mutants: the row is given the time of the update, the iat of the token sent,
\* or the new iat although it was deleted.
RefreshUpdateNow(r) ==
    /\ req[r].pc = "update"
    /\ UpdateIat(req[r].tok.dev, now)
    /\ Answer(r, "ok")
    /\ UNCHANGED <<cookie, now, lost>>

RefreshUpdateOld(r) ==
    /\ req[r].pc = "update"
    /\ UpdateIat(req[r].tok.dev, req[r].tok.iat)
    /\ Answer(r, "ok")
    /\ UNCHANGED <<cookie, now, lost>>

RefreshUpdateDeleted(r) ==
    /\ req[r].pc = "update"
    /\ device' = [device EXCEPT ![req[r].tok.dev].iat = req[r].new.iat]
    /\ Answer(r, "ok")
    /\ UNCHANGED <<cookie, now, lost>>

\* That updateIat returned false is not looked at.
RefreshUpdate(r) ==
    /\ req[r].pc = "update"
    /\ (UpdateIat(req[r].tok.dev, req[r].new.iat) /\ UNCHANGED lost) \/ WriteFails
    /\ Answer(r, "ok")
    /\ UNCHANGED <<cookie, now>>

\* POST /auth/logout: the error of a row that is not found is answered with 500.
LogoutDelete(r) ==
    /\ req[r].pc = "delete"
    /\ \/ /\ DeleteByIat(req[r].tok)
          /\ Answer(r, "cleared")
       \/ /\ ~Current(req[r].tok)
          /\ Answer(r, "failed")
          /\ UNCHANGED device
    /\ UNCHANGED <<cookie, now, lost>>

\* Mutant: the device is compared for the user.
PermittedOther(r) == req[r].target # req[r].tok.dev

\* DELETE /security/devices/:deviceId
Permitted(r) == OwnerOf(req[r].target) = OwnerOf(req[r].tok.dev)

TerminateFind(r) ==
    /\ req[r].pc = "find"
    /\ \/ ~Live(req[r].target) /\ Answer(r, "notFound")
       \/ Live(req[r].target) /\ ~Permitted(r) /\ Answer(r, "forbidden")
       \/ Live(req[r].target) /\ Permitted(r) /\ req' = [req EXCEPT ![r].pc = "delete"]
    /\ UNCHANGED <<device, cookie, now, lost>>

TerminateDelete(r) ==
    /\ req[r].pc = "delete"
    /\ \/ /\ DeleteByUser(req[r].target)
          /\ Answer(r, "ok")
       \/ /\ ~Live(req[r].target)
          /\ Answer(r, "failed")
          /\ UNCHANGED device
    /\ UNCHANGED <<cookie, now, lost>>

\* DELETE /security/devices: one updateMany.
OthersDelete(r) ==
    /\ req[r].pc = "delete"
    /\ device' = [d \in Devices |->
                    IF Live(d) /\ d # req[r].tok.dev /\ OwnerOf(d) = OwnerOf(req[r].tok.dev)
                    THEN [device[d] EXCEPT !.st = "deleted"]
                    ELSE device[d]]
    /\ Answer(r, "ok")
    /\ UNCHANGED <<cookie, now, lost>>

-----------------------------------------------------------------------------
\* The response reaches the client: tokens set the cookie, a logout clears it.
Receive(r) ==
    /\ req[r].pc = "reply"
    /\ req' = [req EXCEPT ![r].pc = "done"]
    /\ \/ /\ req[r].res = "ok" /\ req[r].new # None
          /\ cookie' = [cookie EXCEPT ![ClientOf[r]] = req[r].new]
       \/ /\ req[r].res = "cleared"
          /\ cookie' = [cookie EXCEPT ![ClientOf[r]] = None]
       \/ /\ req[r].res # "cleared" /\ (req[r].res = "ok" => req[r].new = None)
          /\ UNCHANGED cookie
    /\ UNCHANGED <<device, now, lost>>

\* The response is lost, or the gateway restarts before sending it.
LoseResponse(r) ==
    /\ req[r].pc = "reply" /\ lost > 0
    /\ lost' = lost - 1
    /\ req' = [req EXCEPT ![r].pc = "done"]
    /\ UNCHANGED <<device, cookie, now>>

Tick ==
    /\ now < MaxClock
    /\ now' = now + 1
    /\ UNCHANGED <<device, cookie, req, lost>>

Running(r) == req[r].pc \notin {"start", "done"}

\* The handlers between signing a token for d and its arrival at the client.
Bringing(r, d) == Running(r) /\ req[r].new # None /\ req[r].new.dev = d

Race ==
    raced' = raced \cup
               {d \in Devices : \E r, s \in Reqs : r # s /\ Bringing(r, d)' /\ Bringing(s, d)'}

SessionStep ==
    \/ \E r \in LoginReqs : LoginStart(r)
    \/ \E r \in OAuthReqs : OAuthStart(r)
    \/ \E r \in Devices : CreateDevice(r)
    \/ \E r \in RefreshReqs : RefreshStart(r) \/ RefreshFind(r) \/ RefreshUpdate(r)
    \/ \E r \in LogoutReqs : LogoutStart(r) \/ LogoutDelete(r)
    \/ \E r \in TerminateReqs : TerminateStart(r) \/ TerminateFind(r) \/ TerminateDelete(r)
    \/ \E r \in OthersReqs : OthersStart(r) \/ OthersDelete(r)
    \/ \E r \in Reqs : Receive(r) \/ LoseResponse(r)
    \/ Tick

Next == SessionStep /\ Race

Spec == Init /\ [][Next]_vars

-----------------------------------------------------------------------------
(* Properties *)

\* The token the row of d accepts.
Accepted(d) == [dev |-> d, iat |-> device[d].iat]

\* An answer that brings a token.
Brings(r) == req[r].pc = "reply" /\ req[r].new # None

\* The jar has left d for another session, or a logout of another has cleared it.
Elsewhere(d) ==
    LET c == ClientOf[d] IN
    IF cookie[c] # None THEN cookie[c].dev # d
    ELSE \E r \in LogoutReqs : /\ ClientOf[r] = c /\ req[r].pc = "done"
                              /\ req[r].res = "cleared" /\ req[r].tok.dev # d

\* The token a live session accepts is in its client's jar or on its way
\* there, whatever terminations and logins overlap, unless two of its
\* refreshes ran at once, a response was lost, a write failed, or another
\* session of the client took the jar.
LiveSessionUsable ==
    lost = MaxLost => \A d \in Devices \ raced : Live(d) =>
        \/ cookie[ClientOf[d]] = Accepted(d)
        \/ \E r \in Reqs : Brings(r) /\ req[r].new = Accepted(d)
        \/ Elsewhere(d)

\* A client that sends one request at a time and gets every answer holds the
\* token its session accepts, until the session is terminated.
CookieIsCurrent ==
    lost = MaxLost => \A c \in Clients \ Hasty :
        Idle(c) /\ cookie[c] # None /\ Live(cookie[c].dev) => Current(cookie[c])

\* "Logout before logging in again": such a client, using passwords only, has
\* at most one session that can still be refreshed.
Refreshable(d) == Live(d) /\ ~Expired([dev |-> d, iat |-> device[d].iat])

OneSessionPerClient ==
    lost = MaxLost => \A d, e \in Devices :
        /\ Refreshable(d) /\ Refreshable(e)
        /\ ClientOf[d] = ClientOf[e] /\ ClientOf[d] \notin Hasty
        /\ \A o \in OAuthReqs : ClientOf[o] # ClientOf[d]
        => d = e

\* A terminated session stays terminated, and a refresh that found it alive
\* before no longer touches it.
KeepsTerminated ==
    \A d \in Devices : device[d].st = "deleted" => device'[d] = device[d]
TerminatedForGood == [][KeepsTerminated]_vars

\* A session is ended only by a request its own user's token was sent with.
EndsOwn ==
    \A d \in Devices : Live(d) /\ ~Live(d)' =>
        \E r \in Reqs : /\ req[r].pc = "delete" /\ req'[r].pc = "reply"
                       /\ OwnerOf(req[r].tok.dev) = OwnerOf(d)
EndedByOwner == [][EndsOwn]_vars

-----------------------------------------------------------------------------
(* The inductive invariant behind these *)

\* What a handler holds: the token it was sent, the one it signed and, past
\* the permission check, a device of the sender's user.
HandlersInv ==
    \A r \in Reqs :
      /\ req[r].pc \in {"start", "find", "delete"} => req[r].new = None
      /\ req[r].pc \in {"find", "update", "delete"} => req[r].tok \in Tokens
      /\ req[r].pc = "update" => req[r].new \in Tokens /\ req[r].new.dev = req[r].tok.dev
      /\ req[r].pc = "create" => req[r].new \in Tokens /\ req[r].new.dev = r
      /\ req[r].pc = "reply" /\ req[r].new # None => req[r].res = "ok"
      /\ r \in TerminateReqs =>
           /\ req[r].pc \in {"find", "delete"} => req[r].target \in Devices
           /\ req[r].pc = "delete" => Permitted(r)

\* A row is inserted once.
InsertInv ==
    \A r \in Devices : req[r].pc \in {"start", "create"} => device[r].st = "none"

\* A token is used only by the client that made its device; only a new device
\* or a refresh brings one, and only a logout clears the cookie.
TokensInv ==
    /\ \A c \in Clients : cookie[c] # None => ClientOf[cookie[c].dev] = c
    /\ \A r \in Reqs :
         /\ req[r].tok # None => ClientOf[req[r].tok.dev] = ClientOf[r]
         /\ req[r].new # None =>
              /\ ClientOf[req[r].new.dev] = ClientOf[r]
              /\ r \in Devices \cup RefreshReqs
              /\ r \in Devices => req[r].new.dev = r
         /\ req[r].res = "cleared" => r \in LogoutReqs

\* While a device's refreshes do not overlap, an answer brings the token its
\* row accepts; a cleared cookie is one of a session that has ended.
UsableInv ==
    /\ \A r, s \in Reqs, d \in Devices :
         r # s /\ Bringing(r, d) /\ Bringing(s, d) => d \in raced
    /\ lost = MaxLost => \A r \in Reqs, d \in Devices \ raced :
         Live(d) /\ Brings(r) /\ req[r].new.dev = d => req[r].new = Accepted(d)
    /\ \A r \in LogoutReqs : req[r].res = "cleared" =>
         /\ req[r].pc \in {"reply", "done"}
         /\ req[r].tok \in Tokens /\ device[req[r].tok.dev].st = "deleted"
    /\ LiveSessionUsable

\* A client that waits has one request under way at most, and its cookie is
\* the one that was sent with it.
WaitingInv ==
    /\ \A r, s \in Reqs :
         /\ Running(r) /\ Running(s)
         /\ ClientOf[r] = ClientOf[s] /\ ClientOf[r] \notin Hasty
         => r = s
    /\ \A r \in Reqs : ClientOf[r] \notin Hasty =>
         LET t == cookie[ClientOf[r]] IN
         /\ r \in RefreshReqs \cup LogoutReqs /\ req[r].pc \in {"find", "update", "delete"}
              => t = req[r].tok
         /\ r \in RefreshReqs /\ Brings(r) => t # None /\ t.dev = req[r].new.dev
         /\ req[r].pc = "reply" /\ req[r].res = "cleared" => t # None /\ ~Live(t.dev)

\* The token on its way to a client that waits is the one its session accepts,
\* and so is its cookie when none is on its way.
CurrentInv ==
    lost = MaxLost =>
      /\ \A r \in Reqs :
           ClientOf[r] \notin Hasty /\ Brings(r) /\ Live(req[r].new.dev) => Current(req[r].new)
      /\ \A c \in Clients \ Hasty :
           cookie[c] # None /\ Live(cookie[c].dev) =>
             Current(cookie[c]) \/ \E r \in Reqs : ClientOf[r] = c /\ Brings(r)

\* A client that waits and uses passwords only: the session it can refresh is
\* its cookie's or the one a login has just made, and a login that was let
\* through leaves no other.
PasswordsOnly(c) == c \notin Hasty /\ \A o \in OAuthReqs : ClientOf[o] # c

OneSessionInv ==
    lost = MaxLost => \A d \in Devices :
      Refreshable(d) /\ PasswordsOnly(ClientOf[d]) =>
        /\ \/ cookie[ClientOf[d]] # None /\ cookie[ClientOf[d]].dev = d
           \/ Brings(d)
        /\ \A r \in LoginReqs :
             ClientOf[r] = ClientOf[d] /\ (req[r].pc = "create" \/ Brings(r)) => r = d

SInv ==
    /\ TypeOK /\ HandlersInv /\ InsertInv /\ UsableInv
    /\ TokensInv /\ WaitingInv /\ CurrentInv /\ OneSessionInv
=============================================================================
