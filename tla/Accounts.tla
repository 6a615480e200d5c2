------------------------------ MODULE Accounts ------------------------------
(***************************************************************************)
(* The gateway's users: registration, login with an OAuth provider, change *)
(* of the username, and recovery of the password.                          *)
(*                                                                         *)
(* A user's id is made by the request that inserts the row, so that        *)
(* request names it.  So does a recovery code (a random UUID) the request  *)
(* it was made for, and a password the request it came with.  An action is *)
(* the code between two queries.                                           *)
(***************************************************************************)
EXTENDS Naturals

CONSTANTS
    RegReqs,       \* POST /auth/registration
    OAuthReqs,     \* GET /auth/oauth/:provider/callback
    RecoverReqs,   \* POST /auth/password-recovery and .../password-recovery-resending
    PasswordReqs,  \* POST /auth/new-password
    RenameReqs,    \* calls of UserService.updateUsername
    ConfirmReqs,   \* POST /auth/registration-confirmation and .../registration-email-resending
    Names,         \* usernames
    ProviderNames, \* those that providers give
    Suffixed,      \* what each of these may be completed to when it is taken
    Emails,
    Identities,    \* pairs of a provider and an id of its own
    MaxFail,       \* bound: failing mails and updates, restarts
    None

Ids == RegReqs \cup OAuthReqs
Codes == RecoverReqs
Passwords == RegReqs \cup PasswordReqs
Reqs == Ids \cup RecoverReqs \cup PasswordReqs \cup RenameReqs \cup ConfirmReqs

ASSUME AccountsAssumption ==
    /\ MaxFail \in Nat
    /\ None \notin Reqs \cup Names \cup Emails \cup Identities
    /\ ProviderNames \subseteq Names
    /\ Suffixed \in [ProviderNames -> SUBSET Names]
    /\ \A n \in ProviderNames : n \notin Suffixed[n]
    /\ RegReqs \cap OAuthReqs = {}
    /\ RecoverReqs \cap Ids = {}
    /\ PasswordReqs \cap (Ids \cup RecoverReqs) = {}
    /\ RenameReqs \cap (Ids \cup RecoverReqs \cup PasswordReqs) = {}
    /\ ConfirmReqs \cap (Ids \cup RecoverReqs \cup PasswordReqs \cup RenameReqs) = {}

VARIABLES
    user,       \* `User` table, with `EmailConfirmation`
    recovery,   \* `PasswordRecovery`: the code a user's row holds, once mailed
    account,    \* `OAuthAccount`: the user each identity is linked to
    expired,    \* codes older than an hour and a half
    req,        \* the gateway's handlers
    faults,     \* failures that may still happen
    last,       \* history of each user: the password last set, the code last sent,
                \* unused, whether he was renamed since, and the completed name he has
    raced       \* history: names and users two handlers held at once

tables == <<user, recovery, account>>
accountVars == <<user, recovery, account, expired, req, faults, last, raced>>

UserRow == [st : {"none", "live"}, name : Names \cup {None}, email : Emails \cup {None},
            pwd : Passwords \cup {None}, confirmed : BOOLEAN]

Request == [pc : {"start", "find", "named", "emailed", "create", "mail", "account", "name",
                  "link", "findNew", "linkNew", "check", "save", "done"},
            name : Names \cup {None}, email : Emails \cup {None},
            identity : Identities \cup {None},
            made : Names \cup {None},    \* the username given to a new user
            user : Ids \cup {None},         \* the user found
            pwd : Passwords \cup {None},    \* his password then
            code : Codes \cup {None},       \* the recovery code sent
            res : {"none", "ok", "same", "taken", "notFound", "unauthorized", "captcha",
                   "incorrect", "already", "expired", "error", "lost"}]

TypeOK ==
    /\ user \in [Ids -> UserRow]
    /\ recovery \in [Ids -> Codes \cup {None}]
    /\ account \in [Identities -> Ids \cup {None}]
    /\ expired \in SUBSET Codes
    /\ req \in [Reqs -> Request]
    /\ faults \in 0..MaxFail
    /\ last \in [Ids -> [pwd : Passwords \cup {None}, code : Codes \cup {None},
                        renamed : BOOLEAN, made : Names \cup {None}]]
    /\ raced \in [names : SUBSET Names, users : SUBSET Ids]

Handler == [pc |-> "start", name |-> None, email |-> None, identity |-> None, made |-> None,
            user |-> None, pwd |-> None, code |-> None, res |-> "none"]

AccountsInit ==
    /\ user = [u \in Ids |-> [st |-> "none", name |-> None, email |-> None, pwd |-> None,
                              confirmed |-> FALSE]]
    /\ recovery = [u \in Ids |-> None]
    /\ account = [i \in Identities |-> None]
    /\ expired = {}
    /\ req = [r \in Reqs |-> Handler]
    /\ faults = MaxFail
    /\ last = [u \in Ids |-> [pwd |-> None, code |-> None, renamed |-> FALSE, made |-> None]]
    /\ raced = [names |-> {}, users |-> {}]

-----------------------------------------------------------------------------
Fail == faults > 0 /\ faults' = faults - 1

Live(u) == user[u].st = "live"
Named(n) == {u \in Ids : Live(u) /\ user[u].name = n}      \* findByUsername: any of them
WithEmail(e) == {u \in Ids : Live(u) /\ user[u].email = e} \* findByEmail: the column is unique
WithConfirmation(c) == {u \in Ids : Live(u) /\ u = c}      \* a code is named by its user
Owner(i) == account[i]                                     \* findByProviderTypeAndProviderId
HasCode(u, c) == recovery[u] = c                           \* findUserByRecoveryCode

\* POST /auth/login; a user who registered with a provider has no password.
ValidateUser(u, p) == Live(u) /\ user[u].pwd # None /\ user[u].pwd = p

Goto(r, pc) == req' = [req EXCEPT ![r].pc = pc]

\* A handler that has ended is known by its answer, its user and what it was
\* sent; one that was refused by its answer.
Answer(r, res) ==
    req' = [req EXCEPT ![r] = [@ EXCEPT !.pc = "done", !.res = res, !.name = None,
                                        !.made = None, !.pwd = None]]
Refuse(r, res) == req' = [req EXCEPT ![r] = [Handler EXCEPT !.pc = "done", !.res = res]]

Created(name, email, pwd) ==
    [st |-> "live", name |-> name, email |-> email, pwd |-> pwd, confirmed |-> FALSE]

ConfirmEmail(row) == [row EXCEPT !.confirmed = TRUE]

\* Refused when the email is taken.
Insert(u, row) ==
    /\ WithEmail(row.email) = {}
    /\ user' = [user EXCEPT ![u] = row]
    /\ last' = [last EXCEPT ![u].pwd = row.pwd,
                           ![u].made = IF row.name = req[u].name THEN None ELSE row.name]

\* updateOrCreatePasswordRecovery, of a user that may have been read long ago.
UpdateOrCreateRecovery(u, pwd, code) ==
    /\ user' = [user EXCEPT ![u].pwd = pwd]
    /\ recovery' = [recovery EXCEPT ![u] = code]

\* userRepository.update: the password is written too, and the recovery, which
\* findById does not load, is deleted.
Update(u, name, pwd) ==
    /\ user' = [user EXCEPT ![u].name = name, ![u].pwd = pwd]
    /\ recovery' = [recovery EXCEPT ![u] = None]

-----------------------------------------------------------------------------
(* POST /auth/registration and what follows it *)

RegStart(r) ==
    /\ req[r].pc = "start"
    /\ \E n \in Names, e \in Emails :
         req' = [req EXCEPT ![r] = [@ EXCEPT !.pc = "find", !.name = n, !.email = e]]
    /\ UNCHANGED <<tables, expired, faults, last>>

\* The two queries of Promise.all end in any order.
RegFindName(r) ==
    /\ req[r].pc \in {"find", "emailed"}
    /\ \/ Named(req[r].name) # {} /\ Refuse(r, "taken")
       \/ /\ Named(req[r].name) = {}
          /\ Goto(r, IF req[r].pc = "find" THEN "named" ELSE "create")
    /\ UNCHANGED <<tables, expired, faults, last>>

RegFindEmail(r) ==
    /\ req[r].pc \in {"find", "named"}
    /\ \/ WithEmail(req[r].email) # {} /\ Refuse(r, "taken")
       \/ /\ WithEmail(req[r].email) = {}
          /\ Goto(r, IF req[r].pc = "find" THEN "emailed" ELSE "create")
    /\ UNCHANGED <<tables, expired, faults, last>>

\* Mutant: the database's refusal is swallowed.
RegCreateSwallowing(r) ==
    /\ req[r].pc = "create"
    /\ Goto(r, "mail")
    /\ IF WithEmail(req[r].email) = {}
       THEN Insert(r, ConfirmEmail(Created(req[r].name, req[r].email, r)))
       ELSE UNCHANGED <<user, last>>
    /\ UNCHANGED <<recovery, account, expired, faults>>

RegCreate(r) ==
    /\ req[r].pc = "create"
    /\ \/ /\ Insert(r, ConfirmEmail(Created(req[r].name, req[r].email, r)))
          /\ Goto(r, "mail")
       \/ /\ WithEmail(req[r].email) # {}
          /\ Refuse(r, "error")
          /\ UNCHANGED <<user, last>>
    /\ UNCHANGED <<recovery, account, expired, faults>>

\* The mail is awaited, the user stays when it fails.
SendMail(r) ==
    /\ req[r].pc = "mail"
    /\ \/ Answer(r, "ok") /\ UNCHANGED faults
       \/ Fail /\ Refuse(r, "error")
    /\ UNCHANGED <<tables, expired, last>>

Registration(r) ==
    RegStart(r) \/ RegFindName(r) \/ RegFindEmail(r) \/ RegCreate(r) \/ SendMail(r)

\* The user a code is confirmed for is confirmed already: confirmEmail throws.
ConfirmCode(r) ==
    /\ req[r].pc = "start"
    /\ \E c \in Ids :
         \/ WithConfirmation(c) = {} /\ Refuse(r, "incorrect")
         \/ WithConfirmation(c) # {} /\ Refuse(r, "expired")
         \/ \E u \in WithConfirmation(c) : user[u].confirmed /\ Refuse(r, "already")
    /\ UNCHANGED <<tables, expired, faults, last>>

\* So does resendConfirmation, before a new code is stored.
ResendCode(r) ==
    /\ req[r].pc = "start"
    /\ \E e \in Emails :
         \/ WithEmail(e) = {} /\ Refuse(r, "notFound")
         \/ \E u \in WithEmail(e) : user[u].confirmed /\ Refuse(r, "already")
    /\ UNCHANGED <<tables, expired, faults, last>>

-----------------------------------------------------------------------------
(* AuthService.handleOAuthLogin *)

\* validate, with the provider's profile; one without emails is refused.
OAuthStart(r) ==
    /\ req[r].pc = "start"
    /\ \/ \E i \in Identities, n \in ProviderNames, e \in Emails :
            req' = [req EXCEPT ![r] = [@ EXCEPT !.pc = "find", !.identity = i, !.name = n,
                                     !.email = e]]
       \/ Refuse(r, "unauthorized")
    /\ UNCHANGED <<tables, expired, faults, last>>

\* Mutant: the user is not looked up by the email.
OAuthFindAnyone(r) ==
    /\ req[r].pc = "find"
    /\ \E u \in {v \in Ids : Live(v)} \cup {None} :
         req' = [req EXCEPT ![r] = [@ EXCEPT !.pc = "account", !.user = u]]
    /\ UNCHANGED <<tables, expired, faults, last>>

OAuthFind(r) ==
    /\ req[r].pc = "find"
    /\ \E u \in WithEmail(req[r].email) \cup {None} :
         /\ u = None => WithEmail(req[r].email) = {}
         /\ req' = [req EXCEPT ![r] = [@ EXCEPT !.pc = "account", !.user = u]]
    /\ UNCHANGED <<tables, expired, faults, last>>

\* An identity that is linked logs in the user with the email, or the one it
\* is linked to; updateEmail writes a column nothing reads.
OAuthAccount(r) ==
    /\ req[r].pc = "account"
    /\ LET owner == Owner(req[r].identity) IN
         \/ /\ owner # None
            /\ req' = [req EXCEPT ![r] = [@ EXCEPT !.pc = "done", !.res = "ok", !.name = None,
                                          !.user = IF req[r].user = None THEN owner
                                                   ELSE req[r].user]]
         \/ /\ owner = None
            /\ Goto(r, IF req[r].user = None THEN "name" ELSE "link")
    /\ UNCHANGED <<tables, expired, faults, last>>

\* oauthAccountRepository.create: (provider, providerId) is unique.
Link(r, then) ==
    /\ \/ /\ Owner(req[r].identity) = None
          /\ account' = [account EXCEPT ![req[r].identity] = req[r].user]
          /\ then
       \/ /\ Owner(req[r].identity) # None
          /\ Refuse(r, "error")
          /\ UNCHANGED account
    /\ UNCHANGED <<user, recovery, expired, faults, last>>

OAuthLink(r) == req[r].pc = "link" /\ Link(r, Answer(r, "ok"))

\* Mutant: a taken name is given to the new user as it is.
OAuthNameAsIs(r) ==
    /\ req[r].pc = "name"
    /\ req' = [req EXCEPT ![r] = [@ EXCEPT !.pc = "create", !.made = req[r].name]]
    /\ UNCHANGED <<tables, expired, faults, last>>

\* A taken name is completed with a random number; what that makes is a name
\* like any other, and is not looked up.
OAuthName(r) ==
    /\ req[r].pc = "name"
    /\ \E n \in IF Named(req[r].name) = {} THEN {req[r].name} ELSE Suffixed[req[r].name] :
         req' = [req EXCEPT ![r] = [@ EXCEPT !.pc = "create", !.made = n]]
    /\ UNCHANGED <<tables, expired, faults, last>>

OAuthCreate(r) ==
    /\ req[r].pc = "create"
    /\ \/ /\ Insert(r, ConfirmEmail(Created(req[r].made, req[r].email, None)))
          /\ Goto(r, "findNew")
       \/ /\ WithEmail(req[r].email) # {}
          /\ Refuse(r, "error")
          /\ UNCHANGED <<user, last>>
    /\ UNCHANGED <<recovery, account, expired, faults>>

\* The new user is looked up by the name the provider gave; null throws.
OAuthFindNew(r) ==
    /\ req[r].pc = "findNew"
    /\ \/ \E u \in Named(req[r].name) :
            req' = [req EXCEPT ![r] = [@ EXCEPT !.pc = "linkNew", !.user = u]]
       \/ Named(req[r].name) = {} /\ Refuse(r, "error")
    /\ UNCHANGED <<tables, expired, faults, last>>

OAuthLinkNew(r) == req[r].pc = "linkNew" /\ Link(r, Goto(r, "mail"))

OAuthLogin(r) ==
    \/ OAuthStart(r) \/ OAuthFind(r) \/ OAuthAccount(r) \/ OAuthLink(r) \/ OAuthName(r)
    \/ OAuthCreate(r) \/ OAuthFindNew(r) \/ OAuthLinkNew(r) \/ SendMail(r)

-----------------------------------------------------------------------------
(* The handlers that read a user and save him later *)

Read(r, u, pc, name, code) ==
    req' = [req EXCEPT ![r] = [@ EXCEPT !.pc = pc, !.user = u, !.pwd = user[u].pwd,
                                        !.name = name, !.code = code]]

RecoverFind(r) ==
    /\ req[r].pc = "start"
    /\ \E e \in Emails :
         \/ WithEmail(e) = {} /\ Refuse(r, "notFound")
         \/ \E u \in WithEmail(e) : Read(r, u, "save", None, None)
    /\ UNCHANGED <<tables, expired, faults, last>>

\* Mutant: the new code is not stored.
RecoverSaveNoCode(r) ==
    /\ req[r].pc = "save"
    /\ Answer(r, "ok")
    /\ last' = [last EXCEPT ![req[r].user].code = r, ![req[r].user].renamed = FALSE]
    /\ UNCHANGED <<tables, expired, faults>>

\* requestPasswordRecovery and the save; the mail is not awaited.
RecoverSave(r) ==
    /\ req[r].pc = "save"
    /\ \/ /\ UpdateOrCreateRecovery(req[r].user, req[r].pwd, r)
          /\ last' = [last EXCEPT ![req[r].user].code = r, ![req[r].user].renamed = FALSE]
          /\ Answer(r, "ok")
          /\ UNCHANGED faults
       \/ /\ Fail
          /\ Refuse(r, "error")
          /\ UNCHANGED <<user, recovery, last>>
    /\ UNCHANGED <<account, expired>>

RecoverAgain(r) == RecoverFind(r) \/ RecoverSave(r)

CaptchaRefused(r) ==
    /\ req[r].pc = "start"
    /\ Refuse(r, "captcha")
    /\ UNCHANGED <<tables, expired, faults, last>>

\* POST /auth/password-recovery; .../password-recovery-resending has no captcha.
PasswordRecovery(r) == CaptchaRefused(r) \/ RecoverAgain(r)

\* POST /auth/new-password, with a code that was sent.
PasswordFind(r) ==
    /\ req[r].pc = "start"
    /\ \E c \in Codes :
         /\ req[c].res = "ok"
         /\ \/ (\A u \in Ids : ~HasCode(u, c)) /\ Refuse(r, "incorrect")
            \/ \E u \in Ids : HasCode(u, c) /\ Read(r, u, "save", None, c)
    /\ UNCHANGED <<tables, expired, faults, last>>

\* Mutant: the password that was read is saved.
PasswordSaveOld(r) ==
    /\ req[r].pc = "save" /\ req[r].code \notin expired
    /\ user' = [user EXCEPT ![req[r].user].pwd = req[r].pwd]
    /\ recovery' = [recovery EXCEPT ![req[r].user] = None]
    /\ last' = [last EXCEPT ![req[r].user].pwd = r, ![req[r].user].code = None]
    /\ Answer(r, "ok")
    /\ UNCHANGED <<account, expired, faults>>

\* Mutant: the code is not replaced.
PasswordSaveKeepsCode(r) ==
    /\ req[r].pc = "save"
    /\ user' = [user EXCEPT ![req[r].user].pwd = r]
    /\ last' = [last EXCEPT ![req[r].user].pwd = r]
    /\ Answer(r, "ok")
    /\ UNCHANGED <<recovery, account, expired, faults>>

\* The expiry that was read is checked; the code is replaced by one nobody is
\* sent and that has expired.
UpdatePassword(r) ==
    /\ req[r].code \notin expired
    /\ UpdateOrCreateRecovery(req[r].user, r, None)

PasswordSave(r) ==
    /\ req[r].pc = "save"
    /\ \/ /\ UpdatePassword(r)
          /\ last' = [last EXCEPT ![req[r].user].pwd = r,
                                 ![req[r].user].code = IF @ = req[r].code THEN None ELSE @]
          /\ Answer(r, "ok")
          /\ UNCHANGED faults
       \/ /\ \/ req[r].code \in expired /\ UNCHANGED faults
             \/ Fail
          /\ Refuse(r, "error")
          /\ UNCHANGED <<user, recovery, last>>
    /\ UNCHANGED <<account, expired>>

NewPassword(r) == PasswordFind(r) \/ PasswordSave(r)

\* UserService.updateUsername(u, n): findById.
RenameStart(r, u, n) ==
    /\ req[r].pc = "start"
    /\ Live(u)
    /\ IF user[u].name = n THEN Refuse(r, "same") ELSE Read(r, u, "check", n, None)
    /\ UNCHANGED <<tables, expired, faults, last>>

\* Mutant: the name is not looked up.
RenameCheckNot(r) ==
    /\ req[r].pc = "check"
    /\ Goto(r, "save")
    /\ UNCHANGED <<tables, expired, faults, last>>

\* findByUsername
RenameCheck(r) ==
    /\ req[r].pc = "check"
    /\ \/ Named(req[r].name) \ {req[r].user} # {} /\ Refuse(r, "taken")
       \/ /\ req[r].user \in Named(req[r].name) \/ Named(req[r].name) = {}
          /\ Goto(r, "save")
    /\ UNCHANGED <<tables, expired, faults, last>>

\* The password is written as it was read.
RenameSave(r) ==
    /\ req[r].pc = "save"
    /\ \/ /\ Update(req[r].user, req[r].name, req[r].pwd)
          /\ last' = [last EXCEPT ![req[r].user].renamed = TRUE, ![req[r].user].made = None]
          /\ Answer(r, "ok")
          /\ UNCHANGED faults
       \/ /\ Fail
          /\ Refuse(r, "error")
          /\ UNCHANGED <<user, recovery, last>>
    /\ UNCHANGED <<account, expired>>

-----------------------------------------------------------------------------
Expire(c) ==
    /\ req[c].res = "ok" /\ c \notin expired
    /\ expired' = expired \cup {c}
    /\ UNCHANGED <<tables, req, faults, last>>

\* A restart of the gateway.
Restart ==
    /\ Fail
    /\ req' = [r \in Reqs |-> IF req[r].pc \in {"start", "done"} THEN req[r]
                              ELSE [Handler EXCEPT !.pc = "done", !.res = "lost"]]
    /\ UNCHANGED <<tables, expired, last>>

\* The handlers between the query that found n free for them and the one that
\* needs it no more, and those between reading and saving a user.
HoldsName(r, n) ==
    \/ r \in RegReqs /\ req[r].pc \in {"named", "create"} /\ req[r].name = n
    \/ r \in OAuthReqs /\ req[r].pc \in {"create", "findNew"} /\ req[r].made = n
    \/ r \in RenameReqs /\ req[r].pc = "save" /\ req[r].name = n

HoldsUser(r, u) ==
    r \notin Ids /\ req[r].pc \in {"check", "save"} /\ req[r].user = u

Race ==
    raced' = [names |-> raced.names \cup
                {n \in Names : \E r, s \in Reqs :
                    r # s /\ HoldsName(r, n)' /\ HoldsName(s, n)'},
              users |-> raced.users \cup
                {u \in Ids : \E r, s \in Reqs :
                    r # s /\ HoldsUser(r, u)' /\ HoldsUser(s, u)'}]

AccountStep ==
    \/ \E r \in RegReqs : Registration(r)
    \/ \E r \in OAuthReqs : OAuthLogin(r)
    \/ \E r \in ConfirmReqs : ConfirmCode(r) \/ ResendCode(r)
    \/ \E r \in RecoverReqs : PasswordRecovery(r) \/ Expire(r)
    \/ \E r \in PasswordReqs : NewPassword(r)
    \/ \E r \in RenameReqs : RenameCheck(r) \/ RenameSave(r)

AccountsNext ==
    /\ \/ AccountStep
       \/ \E r \in RenameReqs, u \in Ids, n \in Names : RenameStart(r, u, n)
       \/ Restart
    /\ Race

AccountsSpec == AccountsInit /\ [][AccountsNext]_accountVars

-----------------------------------------------------------------------------
(* Properties *)

\* Two users have one username only if two handlers were between finding it
\* free and taking it at the same time, or if one of them has it from a login
\* that completed a taken name with a number and looked that up nowhere.
NamesDiffer ==
    \A u, v \in Ids : u # v /\ Live(u) /\ Live(v) /\ user[u].name = user[v].name =>
        user[u].name \in raced.names \cup {last[u].made, last[v].made}

\* A login that creates a user links its identity to that user, unless the
\* name was taken or others were after it.
LinksTheNewUser ==
    \A r \in OAuthReqs :
        req[r].pc = "linkNew" /\ req[r].made = req[r].name /\ req[r].made \notin raced.names
          => req[r].user = r

\* An OAuth login is answered as a user with the provider's email or as the
\* one the identity is linked to.
LoginIsKnown ==
    \A r \in OAuthReqs : req[r].res = "ok" =>
        \/ user[req[r].user].email = req[r].email
        \/ account[req[r].identity] = req[r].user

\* The password that logs a user in is the one set last, unless two handlers
\* held him at once.
PasswordIsLast ==
    \A u \in Ids \ raced.users, p \in Passwords : ValidateUser(u, p) <=> last[u].pwd = p

\* The code sent last can be used until it has been, and no earlier code can,
\* unless two handlers held the user at once; a change of his username, and
\* nothing else, deletes it first.
CodeIsLast ==
    \A u \in Ids \ raced.users :
        recovery[u] = IF last[u].renamed THEN None ELSE last[u].code

\* A code sets one password, unless two handlers held the user at once.
CodeWorksOnce ==
    \A r, s \in PasswordReqs :
        /\ r # s /\ req[r].res = "ok" /\ req[s].res = "ok"
        /\ req[r].code = req[s].code
        => req[r].user \in raced.users

\* A registration's answer says whether the user was created, unless the mail
\* failed or the gateway restarted.
RegistrationTold ==
    \A r \in RegReqs :
        faults = MaxFail /\ req[r].pc = "done" => (req[r].res = "ok") = Live(r)

-----------------------------------------------------------------------------
(* The inductive invariant *)

\* What each handler holds once it has read its request.
HandlersInv ==
    /\ \A r \in Reqs : req[r].pc # "done" => req[r].res = "none"
    /\ \A r \in Ids : req[r].pc \notin {"start", "done"} =>
         req[r].name \in Names /\ req[r].email \in Emails
    /\ \A r \in OAuthReqs :
         /\ req[r].pc \notin {"start", "done"} \/ req[r].res = "ok" => req[r].identity \in Identities
         /\ req[r].pc \in {"link", "linkNew", "mail"} \/ req[r].res = "ok" => req[r].user \in Ids
         /\ req[r].pc \notin {"start", "done"} => req[r].name \in ProviderNames
         /\ req[r].pc \in {"create", "findNew", "linkNew"} => req[r].made \in Names
    /\ \A r \in RenameReqs : req[r].pc \in {"check", "save"} => req[r].name \in Names
    /\ \A r \in Reqs \ Ids : req[r].pc \in {"check", "save"} =>
         req[r].user \in Ids /\ Live(req[r].user)

\* A row is inserted once, by the request that names it; a registration knows
\* whether it was, unless something failed.
InsertInv ==
    /\ \A r \in Ids :
         req[r].pc \in {"start", "find", "named", "emailed", "account", "name", "create"}
           => ~Live(r)
    /\ \A r \in RegReqs : req[r].pc = "mail" => Live(r)
    /\ RegistrationTold

\* The user an OAuth login found has its email, the one it links its identity.
Matches(r) == Live(req[r].user) /\ user[req[r].user].email = req[r].email

LoginsInv ==
    \A r \in OAuthReqs :
        /\ req[r].pc \in {"account", "link"} /\ req[r].user # None => Matches(r)
        /\ req[r].pc = "mail" => account[req[r].identity] = req[r].user
        /\ req[r].res = "ok" => Matches(r) \/ account[req[r].identity] = req[r].user

\* A login that takes a completed name.
Completes(r) == r \in OAuthReqs /\ req[r].made # req[r].name

\* A handler that found a name free holds it alone, and no user has it but the
\* handler's own; while a username is changed to it, a completed one may be it too.
Own(r) == IF r \in Ids THEN r ELSE req[r].user
Free(r, n) == \A v \in Named(n) \ {Own(r)} : r \in RenameReqs /\ last[v].made = n

NamesInv ==
    /\ \A r, s \in Reqs, n \in Names :
         r # s /\ HoldsName(r, n) /\ HoldsName(s, n) => n \in raced.names
    /\ \A r \in Reqs, n \in Names \ raced.names :
         HoldsName(r, n) /\ ~Completes(r) => Free(r, n)
    /\ \A u \in Ids : last[u].made \in {None, user[u].name}
    /\ \A r \in RenameReqs : req[r].pc \in {"check", "save"} =>
         last[req[r].user].made # req[r].name
    /\ NamesDiffer
    /\ LinksTheNewUser

\* A handler that read a user alone holds his password and, to set a new one,
\* the code his row holds.
UsersInv ==
    /\ \A r, s \in Reqs, u \in Ids :
         r # s /\ HoldsUser(r, u) /\ HoldsUser(s, u) => u \in raced.users
    /\ \A r \in Reqs, u \in Ids \ raced.users : HoldsUser(r, u) =>
         /\ req[r].pwd = user[u].pwd
         /\ r \in PasswordReqs => recovery[u] = req[r].code
    /\ \A u \in Ids \ raced.users : user[u].pwd = last[u].pwd
    /\ \A u \in Ids : ~Live(u) => last[u].pwd = None

\* A code is of the user it was sent to, and one that was used is in no row.
CodesInv ==
    /\ \A u \in Ids : recovery[u] # None =>
         Live(u) /\ req[recovery[u]].res = "ok" /\ req[recovery[u]].user = u
    /\ \A r \in PasswordReqs : req[r].pc = "save" \/ req[r].res = "ok" =>
         /\ req[r].code \in Codes
         /\ req[req[r].code].res = "ok" /\ req[req[r].code].user = req[r].user
    /\ \A r \in PasswordReqs, u \in Ids \ raced.users :
         req[r].res = "ok" /\ req[r].user = u => recovery[u] # req[r].code
    /\ CodeIsLast
    /\ CodeWorksOnce

AInv ==
    TypeOK /\ HandlersInv /\ InsertInv /\ LoginsInv /\ NamesInv /\ UsersInv /\ CodesInv
=============================================================================
