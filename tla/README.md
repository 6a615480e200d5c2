# Photer: specification and verification

TLA+ models of the Photer back end (`src/apps`), the TLC runs that check them and
the TLAPS proofs about them. Every action names, in `PROJECT.json` under `map`, the
lines it translates.

## 1. The system

Four NestJS applications share RabbitMQ, two PostgreSQL databases, an S3 bucket and
Stripe.

| Component | State it keeps | Operations | What makes it correct |
|---|---|---|---|
| Gateway, subscriptions (`gateway/src/features/subscription`) | `Subscription`, `User.accountType` (Prisma) | create, cancel-auto-renewal, enable-auto-renewal (HTTP); `subscription_activated` (event) | a row is ACTIVE and an account BUSINESS only if paid; one row renews; what the client sees is what Stripe does |
| Payments service (`apps/payments`) | `subscriptions`, `payments` (TypeORM) | `create_payment_session`, `disable_auto_renewal`, `enable_auto_renewal` (RPC); the Stripe webhook | a payment succeeded only if charged; the row and Stripe agree; a paid checkout is announced |
| Stripe (external) | checkout sessions, subscriptions | pay, deliver a webhook, end a period | taken as the code uses it |
| Gateway, sessions (`features/auth`, `features/device`) | `Device` (id, iat, isDeleted) | login, OAuth login, refresh, logout, terminate one, terminate all others | a live session's token reaches its client, unless two refreshes of it overlap; no token works after its device is terminated |
| Gateway, accounts (`features/auth`, `features/user`) | `User`, `EmailConfirmation`, `PasswordRecovery`, `OAuthAccount` | register, confirm, resend, recover, new password, OAuth login, change the username | a name is shared only after a race, or with a user a provider's taken name was completed for; without overlaps a code works once and the last password set is the one that works; an OAuth login answers with a user the provider knows |
| Gateway, profiles (`features/profile`) and storage, avatars | `Profile`, files, `AvatarMetadata` (MongoDB) | create, update, delete, upload an avatar | a profile's URL names a stored file; no file is lost or left unreachable; a text is not overwritten by an upload |
| Gateway, posts (`features/content/post`) and storage, photos | `Post`, `Photo`; files in the bucket, `PostPhotoMetadata` (MongoDB) | create, update, delete | a shown post's photos exist; a deletion removes all of them and loses none |
| Query repositories, pagination (`gateway/src/features/**/infrastructure/*query*`, `payments`) | none | pages of all posts, of a user's posts, subscriptions and payments | a walk over the pages misses nothing and shows nothing twice, as far as the table keeps still |
| Gateway core, mail, captcha | none | wiring | not modelled: no state |

**How they interact.** The gateway sends RPCs through `payments_queue` and awaits the
first answer without a timeout (`lastValueFrom`). The payments service acknowledges a
`create_payment_session` itself and never acknowledges the two renewal messages
(`payments.controller.ts`). Stripe calls the webhook; the webhook emits
`subscription_activated` into `gateway_queue`, which the gateway consumes without
acknowledgements. The listener may in turn send a `disable_auto_renewal` RPC for an
older subscription. No transaction spans two queries anywhere in billing.

Creating and updating a profile call `UserService.updateUsername` first and save the
profile second, in a transaction of its own. An avatar is uploaded by an RPC to the
storage service that is awaited, and the old one removed by an event
(`DeleteOldAvatarEvent`) that is not. Recovery and registration mails are sent by the
gateway; only the second is awaited.

**What is hard.** Handlers of one user interleave at every `await`; entities are read,
changed and saved whole; messages are executed again after a restart; events are lost in
one; a webhook may be delivered twice and swallows every error. `PROJECT.json`,
`hazards`, lists each at its line.

## 2. Modules

| Module | Models |
|---|---|
| `BillingState` | the state of the three parties, their types, the initial state, the bounds and assumptions |
| `GatewaySubscriptions` | the gateway's three use cases, the activation listener, a restart of the gateway |
| `PaymentsService` | the three RPC handlers, the webhook handler, a restart of the service |
| `StripeCheckout` | the client paying, a duplicate delivery, the end of a billing period |
| `SubscriptionContract` | the abstract specification: a row is opened, paid for, activated, withdrawn; a user is upgraded |
| `Billing` | the composition, the properties, the inductive invariant, the refinement mapping |
| `MCBilling` and `MC*.cfg` | the instances TLC checks |
| `BillingProofs`, `BillingRecordsProofs`, `BillingRenewalProofs` | the theorems about billing: types, invariant and contract; records; auto-renewal |
| `Sessions` | login, OAuth login, refresh, logout and termination over `Device` rows, clients' cookies and the clock; its properties and inductive invariant |
| `MCSessions` and its `.cfg`s | the instances TLC checks |
| `SessionsProofs` | the theorems about sessions |
| `Posts` | create, update and delete of posts, the storage service's work on their files and documents, restarts of both services; its properties and inductive invariant |
| `MCPosts` and its `.cfg` | the instance TLC checks |
| `PostsProofs` | the theorems about posts |
| `Accounts` | registration, OAuth login, confirmation, recovery and new password, change of the username over the users' tables; its properties and inductive invariant |
| `MCAccounts` and its `.cfg` | the instance TLC checks |
| `AccountsProofs` | the theorems about accounts |
| `Profiles` | extends `Accounts`: the profile's handlers, which change usernames, and the storage service's work on avatars; its properties and inductive invariant |
| `MCProfiles`, `MCProfiles.cfg`, `MCRecovery.cfg` | the instances TLC checks |
| `ProfilesProofs` | the theorems about profiles, and about accounts beside them |
| `Paging` | the four paginated lists and a client that walks them while rows come and go; its properties and inductive invariant |
| `MCPaging` and its `.cfg` | the instance TLC checks |
| `PagingProofs` | the theorems about the lists |

### Billing: state

| Variable | Code |
|---|---|
| `subs` | `Subscription` table; a row is named by the create request that inserted it |
| `account` | `User.accountType` |
| `req` | the three HTTP handlers: where each stands, the row it holds, whether it inserted it (`fresh`), its result |
| `lis` | the `subscription_activated` messages and the listener run of each |
| `prow`, `pays` | `SubscriptionEntity` and `PaymentEntity` tables; payments are numbered by `createdAt` |
| `rpc` | the messages of `payments_queue`, the handler run of each with its locals (`snap`, `loaded`: the entity as read), and the reply |
| `hook` | the webhook handler run for each checkout session |
| `stripe`, `lapsed` | checkout sessions, the subscriptions they create, whether they cancel at the period's end; those whose first period is over |
| `faults` | restarts, failing calls, duplicate deliveries and period ends still allowed |

### Billing: actions

An action is the code between two `await`s: one query or one external call, with the
synchronous code around it. A query followed by a publish is one action, because a crash
between the two leaves exactly what a message that is never consumed leaves. A TypeORM
`save` and a Stripe call are atomic.

* *Create* (`create-subscription.use-case.ts`): `CreateFindPending`, then `CreateTouch`
  (reuse) or `CreateInsert`, then `CreateReply` with the clean-up of a fresh row.
* *Cancel* and *enable*: `RenewalFind`, `RenewalReply`; they differ in the value written.
* *Activate*: `ActivateUpdate`, `ActivateFindPrev`, `ActivateDisabled`, `ActivateUpgrade`.
* *create_payment_session*: `PayFind`, `PaySaveRow` or `PayInsertRow`, `PaySavePayment`,
  `PaySession`, `PayAnswer`.
* *disable/enable_auto_renewal*: `RenewStripe`, `RenewDb`.
* *Webhook*: `HookRead`, `HookSaveRow`, `HookFindPay`, `HookSavePay`, `HookEmit`.
* *Faults*: `GatewayCrash`, `PaymentsCrash`, `StripeFails` (inside the steps that call
  Stripe), `Redeliver`.

What the model keeps of TypeORM: `save` of an entity overwrites the columns that differ
from the database, so a stale copy puts old values back; and, the entity being loaded with
its `payments` relation, it makes the row's payments exactly the loaded ones, so one
inserted meanwhile is detached. Both apply to the saves at
`handle-payment.use-case.ts` (line 48) and `stripe.service.ts` (line 161).

What the model keeps of RabbitMQ: a message whose handler has neither acked nor nacked is
delivered again when the service restarts, whether or not it was answered; the gateway
takes the first answer of a correlation id; `noAck` messages are gone once taken.

What is abstracted: prices, subscription types and dates. `validUntil > now` is "the first
period has not ended", because only ACTIVE rows are asked and nothing moves `validUntil`
after the activation, which writes the end of the period Stripe gave. `orderBy updatedAt`
among several rows is any of them. The PayPal branch answers with a placeholder URL nobody
can pay. The failure of Stripe in any call a step makes is one outcome of it. Other webhook
events only log and are left out.

### Sessions

| Variable | Code |
|---|---|
| `device` | `Device` table: absent, live or `isDeleted`, and `iat`; a row is named by the login that inserted it |
| `cookie` | the refresh token in each client's cookie jar: one, which a later answer overwrites |
| `req` | the request handlers: the cookie each was sent, the token it signed, the device it names, its result |
| `now`, `lost` | the clock in seconds; responses that may still be lost and writes that may still fail |
| `raced` | history: devices two handlers were bringing a token for at once |

A token is a device and a second: `iat` is truncated by JWT and stored as such, so two
tokens signed for a device in one second are one token. Checking the signature and `exp`
(`RefreshTokenStrategy`, `jwtTokenService.verify`) is `Valid`, without a query; then each
action is one query: *login* `LoginStart`, `CreateDevice`; *OAuth* `OAuthStart`,
`CreateDevice`; *refresh* `RefreshStart`, `RefreshFind`, `RefreshUpdate` (by id, result
ignored); *logout* `LogoutStart`, `LogoutDelete` (throws when nothing matches);
*terminate* `TerminateStart`, `TerminateFind`, `TerminateDelete`; *terminate others*
`OthersStart`, `OthersDelete`. `Receive` puts an answer into the cookie jar,
`LoseResponse` loses it, `Tick` moves the clock. `create` and `updateIat` catch an error of the
database and return `false`: `WriteFails` is that outcome of `CreateDevice` and of
`RefreshUpdate`, where the `false` is ignored and the client gets a token no row accepts.

Clients in `Hasty` send requests while others run, the rest wait for each answer.
Passwords, the captcha and the mail of an OAuth user come before `LoginStart` and
`OAuthStart` and touch no session. Access tokens are checked against no device.

### Posts

| Variable | Code |
|---|---|
| `post` | `Post` rows: absent, live or deleted, and the description; `Photo` rows are written and deleted in the same transaction and have no variable of their own |
| `file` | the bucket: for each photo, whether it is at its key and whether it is in `trash/` |
| `meta` | the `PostPhotoMetadata` documents |
| `req` | the three HTTP handlers: the post and description each holds, its result |
| `job` | the storage service's execution of each `uploadFiles` and `deleteFiles` RPC, one stage per file: the files of an RPC run under `Promise.all`, so they interleave, and one that fails does not stop the others |
| `faults` | failing calls and restarts still allowed |

*Create*: `CreateStart` sends the files, `PutObject` and `SaveMetadata` store each with its
document, `CreateSave` writes the post or answers an error. *Update*: `UpdateFind`,
`UpdateSave`. *Delete*: `DeleteFind`, `DeleteSave` (the row first, then the RPC),
`CopyObject` and `DeleteObject` per file, `MarkMetadata`, `DeleteReply`. A save writes all
columns of the post as it was read, by id, whoever changed it since. A copy of a file that
is gone fails; its removal succeeds, as in S3. `GatewayCrash` ends the gateway's handlers
while the storage service goes on; `StorageCrash` fails the RPCs under way (the TCP
connection closes).

A call that fails has no effect on the store it was made to; a `StorageCrash` after a step
covers the call that took effect and was not heard of. The URL of a file and the prefix
`extractKeyFromUrl` removes are taken to agree, which is a matter of configuration.

### Accounts

| Variable | Code |
|---|---|
| `user` | `User` rows with their `EmailConfirmation`; a row is named by the request that inserted it |
| `recovery` | the code in a user's `PasswordRecovery` row |
| `account` | `OAuthAccount`: the user each (provider, id) is linked to |
| `expired` | codes whose hour and a half is over |
| `req` | the handlers: where each stands, what it was sent, the user and the password it read, its answer |
| `faults` | failing mails and updates, and restarts, still allowed |
| `last`, `raced` | history: the password set and the code sent last; names and users two handlers held at once |

One action is the code between two queries. *Registration*: `RegFindName` and `RegFindEmail`
in either order (`Promise.all`), `RegCreate` (only the email is unique in the database),
`SendMail`. *OAuth*: `OAuthFind`, `OAuthAccount`, then `OAuthLink`, or `OAuthName`,
`OAuthCreate`, `OAuthFindNew` (by the provider's name, suffixed or not), `OAuthLinkNew` and
the mail. *Recovery* and *new password*: `RecoverFind`, `RecoverSave`; `PasswordFind`,
`PasswordSave`. *Username*: `RenameStart`, `RenameCheck`, `RenameSave`. The three handlers
that read a user and save him write all columns as they were read, and
`userRepository.update` deletes a recovery that `findById` did not load: both are in
`UpdateOrCreateRecovery` and `Update`.

Abstracted: a recovery code is named by the request it was made for, a password by the
request that brought it, so hashes do not occur. A taken name of a provider is completed by
random digits (`auth-service.ts`, line 129) to a name like any other: `bob-123` is a name
the registration accepts (`registration.dto.ts`, lines 12 to 23) and one a user may change
his to. `Suffixed` gives, for each name of a provider, those it may be completed to; they
are names users choose as well, and the code looks the completed name up nowhere. A user is
confirmed when he is created (`registration.use-case.ts`, line 64; `auth-service.ts`, line
134), so the steps of `confirmEmail` and `resendConfirmation` after their check that he is
not are never reached and have no action.

### Profiles

| Variable | Code |
|---|---|
| `profile` | `Profile` table: a row for a user at most, with an id, its text and its avatar URL |
| `avatar` | the bucket, `trash/` and `AvatarMetadata` |
| `handler` | the four HTTP handlers: the profile each holds as it read it, its answer |
| `upload`, `drop` | the storage service's execution of `upload_avatar` and of `delete_avatar` |
| `clashed` | history: users whose profile two handlers held at once |

*Create*: `CreateFind`, `CallRename` (a `RenameStart` of `Accounts`), then `NameRefused` or
`CreateSave`. *Update*: `UpdateFind`, perhaps `CallRename`, `UpdateSave`. *Delete*:
`DeleteFind`, `DeleteSave` with the event. *Upload*: `UploadFind`, perhaps `UploadBasic`,
`UploadFailed` or `UploadSave` with the event, `UploadSaveAgain`. *Storage*: `UploadAvatar`;
`CopyAvatar`, `RemoveAvatar`, `RemoveAvatarByUrl`, `DropFails`. `GatewayRestart` ends every
handler of both modules and leaves the storage service running.

The columns that are always set are one text, named by the request that brought it; `save`
is an upsert that writes every column, but for an absent URL. Nobody has an upload's URL
before the answer, so `UploadAvatar` is one step that fails before, between or not at all.

### Paging

The table is a row of numbers in the order of the column the list is sorted by; a row is
shown, removed (deleted post, deleted subscription, detached payment) or not there yet. By
`createdAt` a row appears after all others; by `validUntil`, which the subscriptions may be
sorted by, anywhere, and an activation, which writes another `validUntil`, moves one (`Move`).
A stale update of a post writes `isDeleted = false` again (`update-post.use-case.ts`, line 55)
and a stale save attaches a payment again (`handle-payment.use-case.ts`, line 48): `Restore`
brings the row back to its old place. An answer takes two
queries, *total* then *page*, but for payments, where `getManyAndCount` takes the page
first; between them, and between two pages, rows are inserted, removed, brought
back and moved. A guest's page
size is cut to 8 and his page to the first. The list of all posts counts the deleted ones
too (`posts.query-repository.ts`, line 15). A failing `get_my_payments` is answered with
200 and a `Notification` in the place of the page: `PaymentsFail` ends the walk.

Payments sorted by `endDateOfSubscription` are not modelled: the payments of one subscription
tie there and move together. Ties of `createdAt` and of `validUntil`, which PostgreSQL may
order differently in every query, are not modelled either.
No code sets the private status of a post, so the filter on it selects every post.

## 3. Runs

### Billing

All use `MCBilling`. A small instance has two overlapping create requests: it is the least
in which a PENDING row is reused, deleted under another request, or activated twice.

| Run | Question | Instance |
|---|---|---|
| `core` | are active rows and upgraded accounts paid for (`ActiveIsPaid`; `ActiveRowIsPaid` and `BusinessIsPaid` are parts of `RecordsInv`), do the payments tables and the answers to clients tell the truth, which active rows may be deleted, is `RecordsInv` invariant, is the contract implemented? | 2 creates of one user, 1 payments restart, 1 Stripe failure, 4 payments |
| `renewal` | do the gateway, the payments table and Stripe agree on auto-renewal at rest, is `RenewalInv` invariant? | 2 creates of one user, either provider; 1 cancel, 1 enable, 1 Stripe failure, 1 period end |
| `supersede` | does the activation of a row switch the user's other one off or have a reason not to, and does a user who cancelled nothing keep a renewing row? | 2 creates and a cancel of one user, 1 duplicate webhook |
| `live` | is every started request answered, and does a paid checkout lead to an active row and a BUSINESS account? (liveness) | 2 users with a create each, 1 cancel, a restart of each service |

One run checks what a comment says and finds it violated by the code; `findings` quotes the
line:

| Run | Statement | What happens |
|---|---|---|
| `announced` | "Send activation event" | a stale `save` of the row detaches its payment between two steps of the webhook, which then throws and is swallowed |

More divergences are visible in the code, and the properties say where they stop:

* "We clean the newly created Pending" (`create-subscription.usecase.ts`): a row may be
  reused, paid and made ACTIVE by another request before the failure of the first one comes
  back, and is then deleted. `ActiveNeverDeleted` allows that and nothing else.
* The listener looks for "a previous active one", but two activations that overlap each find
  the other, and both rows are switched off. `RenewalSurvives` excuses that, for
  two rows or for more in a circle, and a replacing row deleted by the clean-up above.
* Acks are explicit for RPC, but the renewal handlers never ack: a restart runs old messages
  again after newer ones, and the three services no longer agree (`Orderly`, the
  condition of `RenewalAgreement`, has `NoRestart` in it).
* With two active rows `findActiveByUserId` may return the one that is off, so *enable*
  succeeds although the user's auto-renewal is already on
  (`enable-auto-renewal.swagger.ts`, line 10, says it is refused).
* The webhook marks the newest pending payment where its comment says "the first related
  payment" (`stripe.service.ts`, lines 163 and 171); `PendingPaymentsOf` and `NextPayment`
  follow the code.

**Bounds.** `MaxPays` is at least one payment per possible execution of a create message,
and there are at least as many `Events` as webhook runs: `BoundsAssumption` says so and
TLC evaluates it, so neither bound ever stops a handler. The fault bounds
(`MaxPaymentsCrash`, `MaxGatewayCrash`, `MaxStripeFail`, `MaxRedeliver`, `MaxLapse`) are
the counts in the table and 0 elsewhere. One of each suffices for the interesting cases,
each being a fault against one stale read; the mutants and the violated run show that
counterexamples appear within them. In `renewal` events, and the two create requests of the
one user, are interchangeable (`Interchangeable`); both its properties are invariants, for
which that is sound.

**Deadlock** is not checked: the requests are finitely many, so a behaviour may end.

**Fairness** (`FairSpec`): weak fairness of each started gateway handler, each listener,
each RPC message and each webhook run. Node's event loop runs every pending continuation
and RabbitMQ delivers a queued message to a live consumer, so a continuously enabled step
is taken. Nothing is assumed of clients, payments by users, faults or the clock.

**Where properties stop holding.** The three about auto-renewal name it themselves.
`RenewalAgreement` is for rows that are `Orderly`: no restart and no duplicate webhook (a
restart runs old messages again, a stale save puts `autoRenewal` back in the payments
table), one paid checkout (the second leaves the first Stripe subscription in no table),
and at most one enabling, then with at most one disabling (an enabling and two
disablings overlap in an order nobody fixes). Disablings alone may be any number: a
cancel and the activations of newer rows want the same. `OneRenews` asks of two renewing
rows that the activation of one had a reason to leave the other (`LeftRenewing`): its
period was over, it was enabled again, a gateway restart lost the listener, the payments
service refused, or the listener took a third row for the previous one. The last is
possible from three rows on: each activation takes one previous row, and rows activated by
overlapping listeners may all take the same. `RenewalSurvives` is explained above.
`PaidIsUpgraded` is for users whose creates do not overlap, which `announced` shows it
needs, and excuses a run in which a call failed or a service restarted (`NothingFailed`).

### Sessions

| Run | Question | Instance |
|---|---|---|
| `sessions` | is the token a live session accepts always held or on its way, is the cookie of a client that waits current, can a refresh bring back a terminated session, is `SInv` invariant? | 2 clients of one user, one hasty; 2 logins, 3 refreshes, a logout, a termination; no response lost, no write failing |
| `sess_owner` | does a session end only by its own user, and has a client that waits one session at most? | 2 users; 2 logins and an OAuth login, a refresh, a logout, both terminations; 1 lost response or failing write |

Not a property, because the code does not promise it: a login is refused with "Refresh token
is still valid. Logout before logging in again" for a token whose device was terminated
elsewhere. The client cannot log out either: the guard lets the token pass, the row is not
found, and Prisma's `update` throws where `logout.use-case.ts` expects `false`, an error 500
instead of "Invalid or expired token" (`LogoutDelete`). It waits until the token expires.

**Bounds.** `MaxClock = 2` and `TTL = 2` give two seconds in which a token is valid and one
in which it has expired: same-second refreshes, later refreshes and expiry all happen.
Two logins of one client are the least for two sessions of it; two overlapping refreshes
of one session are the least for a race, a third follows them. Requests are finitely many,
so deadlock is not checked. `MaxLost` bounds lost responses and failing writes together.
Requests of one kind and one client are interchangeable (`Interchangeable`); every property
is an invariant or an action property, for which that is sound.

A live session may be left without the token it accepts in three ways, and
`LiveSessionUsable` names them. A response is lost or a write fails; the statements about
tokens are made while none was. Two refreshes of the session overlap (`raced`): both find
the row, each writes the second it signed, and the jar keeps the answer that comes last,
not the one written last. Another login of the client takes the jar (`Elsewhere`). In
`sessions` each client logs in once, so there the last never applies: the run checks the
property without it. Terminations, logouts and the refreshes of other sessions are no
exception.

### Posts

| Run | Question | Instance |
|---|---|---|
| `posts` | is a photo ever lost, a post shown without its photos, a deletion answered with success incomplete, a file left behind, a post changed by another user, is `FilesInv` invariant (`NoPhotoLost` is a part of it)? | 2 posts of two users with 2 photos each, 1 update, 2 deletions, 1 failing call or restart |

Two deletions of one post and an update over them are the least for the races on one post;
two files per post are the least for an RPC that fails in part; the second post has another
owner. Requests are finitely many, so deadlock is not checked.

What the code does not promise, and the properties say so. An update that read the post
before a deletion saved it shows the post again, without its files (`BroughtBack` in
`ShownPhotosExist`). After a failing call a deletion is answered with an error, its files
may stay, and a second one finds no post (`AtRest` asks that nothing failed). When two
deletions overlap each may fail on the files the other removed, and the documents stay
unmarked although the files are gone, so no property compares the two. The files of a
create whose save fails stay, which `create-post.use-case.ts`, line 71, acknowledges
(`NoOrphans` speaks of posts that were saved).

### Accounts and profiles

| Run | Question | Instance |
|---|---|---|
| `accounts` | who may share a username and how, which user is an identity linked to and logs in, is `AInv` invariant (what a registration is told, `RegistrationTold`, follows from it)? | 1 registration, 2 OAuth logins of one identity, 1 change of the username, 1 confirmation; 2 names, of which a provider gives one and completes it to the other, 2 emails, 1 failing mail or restart |
| `recovery` | is the password set last the one that works, and the code sent last; does a code work once; does a refused creation leave nothing? | 2 users, 1 recovery, 2 new passwords, a creation and an update of a profile that change the username, 1 failure or restart |
| `profiles` | is the avatar a profile shows there, is none left behind, is a text ever put back, is `AvatarsInv` invariant (`NoAvatarLost` is a part of it)? | 1 user, an update, a deletion, 2 uploads, 1 failure or restart |

**Bounds.** Two handlers after one name, two OAuth logins of one identity, two uses of one
code and two uploads of one user are the least for each race; two new passwords beside a
change of the username are the least for a stale password to be written over a set one. A
profile is inserted twice at most (`MaxInserts`): deleted, and brought back by a handler
that read it before. `MaxFail = 1` is one failing mail, update or upload, or one restart.
Requests are finitely many, so deadlock is not checked. Names, emails and the requests of a
kind are interchangeable (`Interchangeable`); every property is an invariant or an action
property, for which that is sound.

**What the code does not promise, and the properties say so.** The comment "generate unique
username" (`auth-service.ts`, line 126) is not kept: the completed name is looked up
nowhere, so two users may bear it one after the other, without an overlap. `NamesDiffer`
allows that for a name a login completed (`last[u].made`) and for no other; a login that
completes a name also looks its new user up under the provider's name and links the identity
to whoever bears that (`LinksTheNewUser` is about names that were not completed). `raced`
and `clashed` hold the names and users two handlers held at once: the code checks a name in
one query and takes it in another, and saves a user or a profile as it was read. Outside
these overlaps the properties hold, which is what they say; the mutants drop a lookup, a
write or a check and break them without an overlap. A change of the username deletes the
code a user was sent before it (`CodeIsLast`, also where the change comes with a profile). A
registration whose mail fails is answered with an error although the user exists
(`RegistrationTold` asks that nothing failed). A creation that fails at its save keeps the
new username (`RefusedCreatesNothing`). The deletion of a profile with no avatar publishes
the event all the same; the storage service rejects it (`DeleteSave`).

### Paging

| Run | Question | Instance |
|---|---|---|
| `paging` | what does a walk over the pages show, show twice or miss, is `PagingInv` invariant (it holds the types)? | each list, both orders, subscriptions by both columns, page sizes 1 to 3, 4 rows; guests' limit 2 |

**Bounds.** Four rows in pages of one to three give full, partial, single and empty pages,
and a walk with rows before, in and after the page; the guests' limit is below the largest
page. A guest is shown a first page only, so `ShowsAll` and `ShowsOnce` are about the walks
of users. What breaks a walk is in `history`, and the properties exempt exactly that.
`ShowsAll`: a row that was passed leaves its place, which pulls the rest forward
(`shifted`), or one appears before a row shown between the total and the page, which pushes
the last row past the pages announced (`pushed`). `ShowsOnce`: a row appears among those
passed, new in a descending walk, brought back or inserted by `validUntil`, or moved from
there (`before`). A row that moves leaves its place and comes to another, and is not one
that stayed. `LastPageHasRows` leaves out the list of all posts, whose last pages are empty
when posts were deleted: its `pagesCount` counts them, and the comment `// TODO: pagesCount
not valid` of `posts.controller.ts`, line 58, knows of it.

## 4. Proofs

### Billing

From `RequestsAssumption`, `NamesAssumption` and `BoundsAssumption` (types and disjointness
of the constants), for any number of users, requests, payments and faults:

| Theorem | Statement |
|---|---|
| `TypeCorrect` | `Spec => []TypeOK` |
| `Invariant` | `Spec => []IInv` |
| `ActiveOnlyIfPaid` | `Spec => []ActiveIsPaid` |
| `BusinessOnlyIfPaid` | `Spec => []BusinessIsPaid` |
| `ImplementsContract` | `Spec => KeepsContract`: the three services refine `SubscriptionContract` |
| `RecordsInvariant` | `Spec => []RecordsInv` |
| `ActiveRowOnlyIfPaid` | `Spec => []ActiveRowIsPaid` |
| `SucceededOnlyIfPaid` | `Spec => []SucceededIsPaid` |
| `ConflictOnlyIfPaid` | `Spec => []ConflictMeansPaid` |
| `UrlsArePayable` | `Spec => []UrlIsPayable` |
| `ActiveIsNotLost` | `Spec => ActiveNeverDeleted` |
| `RenewalInvariant` | `Spec => []RenewalInv` |
| `RenewalsAgree` | `Spec => []RenewalAgreement` |
| `OneRowRenews` | `Spec => []OneRenews` |
| `ARenewingRowSurvives` | `Spec => []RenewalSurvives` |

`ActiveIsPaid` is not inductive: the row is written by the listener from an event emitted
by a webhook run for a session opened by an execution of a message sent for a row. `IInv`
names what each link hands on. `RequestsInv`: a handler holds a row that exists or existed,
and only the request that inserted a row may clean it up. `MessagesInv`: an execution about
to open a session has a payments row of its own with no session yet, so opening one cannot
overwrite a paid one. `SessionsInv`: a session names an existing row, and webhooks run for
paid sessions. `ListenersInv`: an event names a subscription paid for its row.
`BillingProofs` shows first that each action keeps the types, then has one lemma per
conjunct of `IInv` with one step per action, and its last part maps every action to a
step of the contract or a stutter.

What the payments tables and the answers say needs a second layer, `RecordsInv`, which has
`IInv` in it. Saves of stale entities write whole rows and move payments, so nothing about
one table is inductive alone. `AnswersInv`: an answer to a client is that of his message's
execution, which is for the row he holds. `PayableInv`: each execution has its own payment,
and the one that answered with a URL opened a session for its row, unless it is PayPal's.
`GivenInv`: who paid was given the URL by a request for that row. `RowsInv`: a payments row
never changes its gateway row, and neither does a copy of it in a handler. `AttachedInv`: a
payment belongs to one payments row, by its column or by a copy still to be saved, so a
save that attaches payments again attaches no other row's; with `RowsInv` a succeeded
payment keeps the row its charge was for. `BillingRecordsProofs` sorts the steps of an
execution by what they write (answer only, turn, store a row, record a payment, open a
session: `RpcShapes`), shows that the webhook's and the crashes' steps attach nothing new
(`AttachedLess`), and has one lemma per kind of step. `ActiveNeverDeleted` follows: an active
row was paid for, hence a request was given its URL (`GivenInv`), while the request
that deletes it got none: another one reused the row. TLC checks `RecordsInv` in `core`.

Auto-renewal is a third layer, `RenewalInv`, with `RecordsInv` in it. A value is written
at three places by three parties: Stripe first, the payments table next, the gateway's row
last, when the sender has read the answer. So agreement at rest becomes inductive
as agreement on the way: `AtStripe`, `InTable` and `Taken` are the messages that have come
so far, and `AgreedInv` says of an orderly row that at each of the three places it is off
when a disabling has come there and no enabling has. That an enabling is sent only after
the disabling was taken is in it, and is what makes the later message win on every level; at
rest the three sets are the same.

What this needs: `KindsInv`, which messages are about renewal at all. `SendersInv`: such a
message is for the row its sender chose, under the Stripe subscription that row was
activated with. `UntouchedInv`: before its first payment is saved a payments row, or an
entity read from it, renews and names no Stripe subscription, so a stale save leaves no row
that names one and disagrees with it. `OnceInv`: without restarts the webhook of a session
saves the row once, before any renewal message for it exists. `WaitingInv`: without restarts
whoever sent a message still waits for it, so none is answered after its sender has ended
and then counts as not taken.

`PairsInv` carries `OneRenews`: of two renewing rows the activation of one is still to
look for the other or to disable it, or has left it for a reason. An activated row comes to
be renewing in the step that puts its listener before its search, so the pair starts
pending; the search ends it by taking the other, by finding it lapsed, or by taking a
third. `PreviousInv` says that a listener relates two rows of one user neither of which is
PENDING any more. `OffInv` carries `RenewalSurvives`: a row that is off was cancelled or
switched off by another row's listener. That other row is active and off too, hence was
switched off itself, and so on in a circle, or it was deleted.

`BillingRenewalProofs` first reduces the actions to a few shapes of step, by what they do
to requests, listeners, messages and rows (`Creates`, `Ends`, `Asks`, `Switches`,
`Activates`, `Disables`, `ReachesStripe`, `HookSaves` and others), then has one lemma for
each class of steps and part of the invariant. TLC checks `RenewalInv` in `renewal`.

Only model-checked: `EveryRequestAnswered` and `PaidIsUpgraded`, since liveness under
fairness and ENABLED are out of the prover's reach.

### Sessions

From `SessionAssumption`, for any number of clients, requests, devices and seconds:

| Theorem | Statement |
|---|---|
| `SessionInvariant` | `Spec => []SInv` |
| `LiveSessionsAreUsable` | `Spec => []LiveSessionUsable` |
| `OnlyOwnersEnd` | `Spec => EndedByOwner` |
| `TerminationIsFinal` | `Spec => TerminatedForGood` |
| `WaitingClientsAreCurrent` | `Spec => []CookieIsCurrent` |
| `OneSession` | `Spec => []OneSessionPerClient` |

`LiveSessionUsable` speaks of rows and of tokens clients hold; between them stand the
handlers. `HandlersInv` says what each holds: the token sent, the one it signed for the
same device and, past the permission check, a device of the sender's user. `InsertInv` says
that a row is inserted once, so an insert never overwrites a refreshed `iat`. With these,
each write of `iat` is by a handler about to answer with the matching token, and `UsableInv`
follows the token from there to the jar: of a device that is not `raced` one handler at a time
has a token under way, so an answer that arrives is of the token its row accepts; and a jar is
cleared by a logout of the session it holds. One lemma per conjunct, one step per action.

The last two are about clients that wait. `TokensInv`: a token is used only by the client
its device is of. `WaitingInv`: such a client has one request under way, and its cookie is
the one sent with it. With these, `CurrentInv` says that its cookie, or else the token on
its way, is the one its session accepts, and `OneSessionInv` that a session it can refresh is
its cookie's or the one a login has just made: a login that was let through found the
token sent with it expired or absent.

### Posts

From `PostsAssumption`, for any number of posts, photos, users, requests and failures:

| Theorem | Statement |
|---|---|
| `PostsInvariant` | `Spec => []PInv` |
| `PhotosAreKept` | `Spec => []NoPhotoLost` |
| `ShownPhotosAreThere` | `Spec => []ShownPhotosExist` |
| `DeletionIsComplete` | `Spec => []DeletedIsGone` |
| `OnlyAuthorsChange` | `Spec => ChangedByOwner` |
| `FilesInvariant` | `Spec => []FilesInv` |
| `NoFileIsLeft` | `Spec => []NoOrphans` |

None of them is inductive: what a file is depends on the stage of every deletion sent
for it. `HandlersInv` says that a handler past its checks holds a post that was inserted,
of its own user. `UploadsInv`: a post is inserted when its files are in place, and no
upload of it runs later, so a removed file is not put back. `DeletesInv`: a deletion past
the copy has its file in `trash/`, past the removal its file is gone, and done its document
is marked; and a missing file of a post was sent for by a deletion, after which the post is
live only if an update brought it back. `Quiet` covers every step that touches only a
handler; the others have a lemma each, with one step per conjunct.

`NoOrphans` speaks of a post at rest; `OrphansInv` carries it there: while nothing
failed, each file of a deleted post is on the list of a deletion that has not come to it.
`FilesInv` is `PInv` with it.

### Accounts

From `AccountsAssumption`, for any number of users, requests, names, codes and failures:

| Theorem | Statement |
|---|---|
| `AccountsInvariant` | `AccountsSpec => []AInv` |
| `UsersAreTold` | `AccountsSpec => []NamesDiffer` |
| `NewUserIsLinked` | `AccountsSpec => []LinksTheNewUser` |
| `OAuthLoginIsKnown` | `AccountsSpec => []LoginIsKnown` |
| `RegistrationIsTold` | `AccountsSpec => []RegistrationTold` |
| `LastPasswordWins` | `AccountsSpec => []PasswordIsLast` |
| `LastCodeWorks` | `AccountsSpec => []CodeIsLast` |
| `CodesWorkOnce` | `AccountsSpec => []CodeWorksOnce` |

A property about rows is inductive only with what the handlers hold. `HandlersInv`: what
each has read. `InsertInv`: a row is inserted once, by the request that names it.
`LoginsInv`: the user a login found has its email, and the one it is about to mail owns the
identity. `NamesInv`: a name found free is held by one handler and borne by nobody else,
until a second holds it or a login completes a name to it; a user's `made` is `None` or the
name he bears. `UsersInv`: a handler alone with a user holds his password as it is, and the
code his row holds. `CodesInv`: a code is of the user it was sent to, and a spent one is in
no row. Lemmas state what a refusal, an answer or a move of one handler preserves, so that
each query takes one lemma on the tables it writes.

### Profiles

From these assumptions and `ProfilesAssumption`, for any number of avatars and profiles too:

| Theorem | Statement |
|---|---|
| `ProfilesInvariant` | `Spec => [](AInv /\ ProfilesInv)` |
| `AvatarsAreKept` | `Spec => []NoAvatarLost` |
| `RefusalsWriteNothing` | `Spec => []RefusedCreatesNothing` |
| `ProfilesKeepPasswords` | `Spec => [](PasswordIsLast /\ CodeIsLast)` |
| `AvatarsInvariant` | `Spec => []AvatarsInv` |
| `ShownAvatarsExist` | `Spec => []ShownAvatarExists` |
| `NoAvatarIsLeft` | `Spec => []NoAvatarOrphans` |
| `TextsStay` | `Spec => TextsAreKept` |

The composition keeps the invariant of `Accounts`: a step of a profile's handler starts a
change of the username, which is a step of `Accounts`, or leaves its tables alone
(`ProfileSteps`, `AccountsKeep`). `HoldersInv`: a handler past its first query holds a user,
and uploads and drops once. `StoredInv`: a URL in a row, in a handler or to be dropped is of
an upload that was answered, and a file is removed after it was copied. `CreatedInv`: a
creation's text is in no row or handler before it is answered with success. `HandlerMoves`
and `CreatedStep` say what one handler may do to keep them, and each step of a handler is
shown to do no more.

The last three hold outside overlaps, and `AvatarsInv` follows the avatars from hand to hand
there. `ClashesInv`: whoever shares a profile is among the clashed. `AloneInv`: a handler alone
with a user holds his profile as it is, so its save puts nothing back. `OwnersInv`: an avatar
is in one user's row and handlers. `ShownInv`: a stored avatar stays until it is dropped, and one
that is shown is not dropped. `DropsInv`: it is dropped once. `UploadsInv`: while nothing failed
an upload's handler waits for it, so no stored avatar is unknown.

### Paging

From `PagingAssumption`, for any number of rows, any page size and guests' limit:

| Theorem | Statement |
|---|---|
| `PagingInvariant` | `Spec => []PagingInv` |
| `NothingIsMissed` | `Spec => []ShowsAll` |
| `NothingIsRepeated` | `Spec => []ShowsOnce` |
| `LastPagesHaveRows` | `Spec => []LastPageHasRows` |

A page is the rows whose rank, the number of rows before them, lies in an interval; the total
and the number of pages are a cardinality and a rounded quotient. Three facts carry the
proofs. `PlaceGrows`: the rank grows strictly along the order. `PlaceIsTaken`: every rank below
the number of rows is some row's, since ranks inject as many rows into as many numbers.
`PagesBelow`: a further page is announced exactly when more rows were counted than fill the
pages before it. Each promise is about the end of a walk and becomes inductive by saying where
the walk stands. `OnceInv`: the rows sent are on the pages found (`Covered`). `AllInv`: a row not
yet sent comes after all rows passed, which fill the pages found, and before the total
(`Awaited`); rows passed are counted rather than rows before it, because the latter may leave
without harm only when they were not passed. `StayedInv`: the rows that stayed are shown. Every
step of the table takes rows from their places and puts others to theirs (`Changing`), and
one lemma says what a walk remembers of it (`Remembered`). `LastInv`: the total is no more than
the rows there are, and the page asked for begins before it.

## 5. Not modelled

Gateway core: configuration, guards, pipes, exception filters, the mail and captcha
adapters are wiring without state; what a guard decides is in the guard of the action behind
it. Database failures other than the updates and mails named above, and loss of the broker;
invoices after the first (`invoice.paid` is not handled by the code); two deliveries of one
webhook at the same moment; sign-in before the password check; the format of file keys,
whose random part makes two photos of one millisecond collide once in a thousand
(`storage.service.ts`, line 79); the arithmetic of dates: `setMonth` on the 29th to the 31st
lands in the month after the next (`create-subscription.usecase.ts`, line 135), and
`validUntil` is modelled by whether it has passed. `delete-post.use-case-old.ts` is used by
nothing.

## 6. Plan

Done: billing, its contract and refinement, sessions, posts, accounts, profiles and paging,
each with its inductive invariant, and every safety property of a run proved. Next:

* `Calendar`: `validUntil` of each subscription type and the overflow of `setMonth` against
  a reference definition.
