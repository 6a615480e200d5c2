--------------------------- MODULE AccountsProofs ---------------------------
(***************************************************************************)
(* The invariant of Accounts and what it implies, for every number of      *)
(* users, requests, names and failures.                                    *)
(***************************************************************************)
EXTENDS Accounts, TLAPS

LEMMA Kinds ==
  /\ Ids \subseteq Reqs /\ RegReqs \subseteq Ids /\ OAuthReqs \subseteq Ids
  /\ RecoverReqs \subseteq Reqs \ Ids /\ PasswordReqs \subseteq Reqs \ Ids
  /\ RenameReqs \subseteq Reqs \ Ids /\ ConfirmReqs \subseteq Reqs \ Ids
  /\ RegReqs \cap OAuthReqs = {} /\ RecoverReqs \cap PasswordReqs = {}
  /\ RecoverReqs \cap RenameReqs = {} /\ PasswordReqs \cap RenameReqs = {}
  /\ (RecoverReqs \cup PasswordReqs \cup RenameReqs) \cap ConfirmReqs = {}
  /\ Codes = RecoverReqs
  /\ None \notin Ids /\ None \notin Codes /\ None \notin Passwords /\ None \notin Emails
  /\ None \notin Names /\ None \notin Identities /\ ProviderNames \subseteq Names
  BY AccountsAssumption DEF Ids, Reqs, Codes, Passwords

LEMMA InitInv == AccountsInit => AInv
  <1> SUFFICES ASSUME AccountsInit PROVE AInv
    OBVIOUS
  <1>1. TypeOK
    BY AccountsAssumption DEF AccountsInit, TypeOK, UserRow, Handler, Request
  <1>2. HandlersInv /\ LoginsInv
    BY Kinds DEF AccountsInit, Handler, HandlersInv, LoginsInv
  <1>3. InsertInv
    BY Kinds DEF AccountsInit, Handler, InsertInv, RegistrationTold, Live
  <1>4. NamesInv
    BY Kinds DEF AccountsInit, Handler, NamesInv, HoldsName, NamesDiffer, LinksTheNewUser, Live
  <1>5. UsersInv
    BY Kinds DEF AccountsInit, Handler, UsersInv, HoldsUser, Live
  <1>6. CodesInv
    BY Kinds DEF AccountsInit, Handler, CodesInv, CodeIsLast, CodeWorksOnce
  <1> QED
    BY <1>1, <1>2, <1>3, <1>4, <1>5, <1>6 DEF AInv
-----------------------------------------------------------------------------
(* What a handler does to itself *)

Steps == {"start", "find", "named", "emailed", "create", "mail", "account", "name",
          "link", "findNew", "linkNew", "check", "save", "done"}
Refusals == {"same", "taken", "notFound", "unauthorized", "captcha", "incorrect",
             "already", "expired", "error", "lost"}
Histories == [pwd : Passwords \cup {None}, code : Codes \cup {None}, renamed : BOOLEAN,
              made : Names \cup {None}]

LEMMA Fields ==
  ASSUME NEW q \in Request
  PROVE  /\ \A x \in Steps : [q EXCEPT !.pc = x] \in Request
         /\ [q EXCEPT !.res = "ok"] \in Request
         /\ \A x \in Names \cup {None} : [q EXCEPT !.name = x] \in Request
         /\ \A x \in Emails \cup {None} : [q EXCEPT !.email = x] \in Request
         /\ \A x \in Identities \cup {None} : [q EXCEPT !.identity = x] \in Request
         /\ \A x \in Names \cup {None} : [q EXCEPT !.made = x] \in Request
         /\ \A x \in Ids \cup {None} : [q EXCEPT !.user = x] \in Request
         /\ \A x \in Passwords \cup {None} : [q EXCEPT !.pwd = x] \in Request
         /\ \A x \in Codes \cup {None} : [q EXCEPT !.code = x] \in Request
  BY DEF Request, Steps

Others(r) == \A s \in Reqs \ {r} : req'[s] = req[s]

LEMMA Refusing ==
  ASSUME TypeOK, NEW r \in Reqs, NEW res \in Refusals, Refuse(r, res)
  PROVE  req' \in [Reqs -> Request] /\ Others(r) /\ req'[r].pc = "done" /\ req'[r].res = res
  <1>1. [Handler EXCEPT !.pc = "done", !.res = res] \in Request
    BY DEF Handler, Request, Refusals
  <1>2. req' = [req EXCEPT ![r] = [Handler EXCEPT !.pc = "done", !.res = res]]
    BY DEF Refuse
  <1>3. /\ [Handler EXCEPT !.pc = "done", !.res = res].pc = "done"
        /\ [Handler EXCEPT !.pc = "done", !.res = res].res = res
    BY DEF Handler
  <1> QED
    BY <1>1, <1>2, <1>3 DEF TypeOK, Others

LEMMA Answering ==
  ASSUME TypeOK, NEW r \in Reqs, Answer(r, "ok")
  PROVE  /\ req' \in [Reqs -> Request] /\ Others(r)
         /\ req'[r].pc = "done" /\ req'[r].res = "ok"
         /\ req'[r].user = req[r].user /\ req'[r].email = req[r].email
         /\ req'[r].identity = req[r].identity /\ req'[r].code = req[r].code
  <1> DEFINE q == [req[r] EXCEPT !.pc = "done", !.res = "ok", !.name = None,
                                 !.made = None, !.pwd = None]
  <1>1. req[r] \in Request /\ req \in [Reqs -> Request]
    BY DEF TypeOK
  <1>2. q \in Request
    <2>1. [req[r] EXCEPT !.pc = "done"] \in Request
      BY <1>1, Fields DEF Steps
    <2>2. [req[r] EXCEPT !.pc = "done", !.res = "ok"] \in Request
      BY <2>1, Fields
    <2>3. [req[r] EXCEPT !.pc = "done", !.res = "ok", !.name = None] \in Request
      BY <2>2, Fields
    <2>4. [req[r] EXCEPT !.pc = "done", !.res = "ok", !.name = None, !.made = None] \in Request
      BY <2>3, Fields
    <2> QED
      BY <2>4, Fields
  <1>4. /\ q.pc = "done" /\ q.res = "ok" /\ q.user = req[r].user /\ q.email = req[r].email
        /\ q.identity = req[r].identity /\ q.code = req[r].code
    BY <1>1 DEF Request
  <1>3. req' = [req EXCEPT ![r] = q]
    BY DEF Answer
  <1> QED
    BY <1>1, <1>2, <1>3, <1>4 DEF Others

\* All but the step is as it was.
Kept(r) ==
    /\ req'[r].name = req[r].name /\ req'[r].email = req[r].email
    /\ req'[r].identity = req[r].identity /\ req'[r].made = req[r].made
    /\ req'[r].user = req[r].user /\ req'[r].pwd = req[r].pwd
    /\ req'[r].code = req[r].code /\ req'[r].res = req[r].res

LEMMA Going ==
  ASSUME TypeOK, NEW r \in Reqs, NEW pc \in Steps, Goto(r, pc)
  PROVE  req' \in [Reqs -> Request] /\ Others(r) /\ req'[r].pc = pc /\ Kept(r)
  <1> DEFINE q == [req[r] EXCEPT !.pc = pc]
  <1>1. req[r] \in Request /\ req \in [Reqs -> Request]
    BY DEF TypeOK
  <1>2. /\ q \in Request /\ q.pc = pc /\ q.name = req[r].name /\ q.email = req[r].email
        /\ q.identity = req[r].identity /\ q.made = req[r].made /\ q.user = req[r].user
        /\ q.pwd = req[r].pwd /\ q.code = req[r].code /\ q.res = req[r].res
    BY <1>1 DEF Request, Steps
  <1>3. req' = [req EXCEPT ![r] = q]
    BY DEF Goto
  <1> QED
    BY <1>1, <1>2, <1>3 DEF Others, Kept

LEMMA Reading ==
  ASSUME TypeOK, NEW r \in Reqs, NEW u \in Ids, NEW pc \in Steps,
         NEW n \in Names \cup {None}, NEW c \in Codes \cup {None}, Read(r, u, pc, n, c)
  PROVE  /\ req' \in [Reqs -> Request] /\ Others(r) /\ req'[r].pc = pc
         /\ req'[r].user = u /\ req'[r].pwd = user[u].pwd /\ req'[r].name = n
         /\ req'[r].code = c /\ req'[r].res = req[r].res
  <1> DEFINE q == [req[r] EXCEPT !.pc = pc, !.user = u, !.pwd = user[u].pwd, !.name = n,
                                 !.code = c]
  <1>1. /\ req[r] \in Request /\ req \in [Reqs -> Request]
        /\ user[u].pwd \in Passwords \cup {None}
    BY DEF TypeOK, UserRow
  <1>2. q \in Request
    <2>1. [req[r] EXCEPT !.pc = pc] \in Request
      BY <1>1, Fields
    <2>2. [req[r] EXCEPT !.pc = pc, !.user = u] \in Request
      BY <2>1, Fields
    <2>3. [req[r] EXCEPT !.pc = pc, !.user = u, !.pwd = user[u].pwd] \in Request
      BY <1>1, <2>2, Fields
    <2>4. [req[r] EXCEPT !.pc = pc, !.user = u, !.pwd = user[u].pwd, !.name = n] \in Request
      BY <2>3, Fields
    <2> QED
      BY <2>4, Fields
  <1>4. /\ q.pc = pc /\ q.user = u /\ q.pwd = user[u].pwd /\ q.name = n
        /\ q.code = c /\ q.res = req[r].res
    BY <1>1 DEF Request
  <1>3. req' = [req EXCEPT ![r] = q]
    BY DEF Read
  <1> QED
    BY <1>1, <1>2, <1>3, <1>4 DEF Others

LEMMA RaceGrows ==
  ASSUME TypeOK, Race
  PROVE  /\ raced' \in [names : SUBSET Names, users : SUBSET Ids]
         /\ raced.names \subseteq raced'.names /\ raced.users \subseteq raced'.users
         /\ \A r, s \in Reqs, n \in Names :
              r # s /\ HoldsName(r, n)' /\ HoldsName(s, n)' => n \in raced'.names
         /\ \A r, s \in Reqs, u \in Ids :
              r # s /\ HoldsUser(r, u)' /\ HoldsUser(s, u)' => u \in raced'.users
  BY DEF TypeOK, Race
-----------------------------------------------------------------------------
(* Steps that write no user *)

\* What AInv says of one handler.
Sound(r) ==
    /\ req[r].pc # "done" => req[r].res = "none"
    /\ req[r].res = "ok" => r \in Ids
    /\ r \in Ids =>
         /\ req[r].pc \notin {"start", "done"} => req[r].name \in Names /\ req[r].email \in Emails
         /\ req[r].pc \in {"start", "find", "named", "emailed", "account", "name", "create"}
              => ~Live(r)
    /\ r \in RegReqs =>
         /\ req[r].pc = "mail" => Live(r)
         /\ faults = MaxFail /\ req[r].pc = "done" => (req[r].res = "ok") = Live(r)
    /\ r \in OAuthReqs =>
         /\ req[r].pc \notin {"start", "done"} \/ req[r].res = "ok" => req[r].identity \in Identities
         /\ req[r].pc \in {"link", "linkNew", "mail"} \/ req[r].res = "ok" => req[r].user \in Ids
         /\ req[r].pc \notin {"start", "done"} => req[r].name \in ProviderNames
         /\ req[r].pc \in {"create", "findNew", "linkNew"} => req[r].made \in Names
         /\ req[r].pc \in {"account", "link"} /\ req[r].user # None => Matches(r)
         /\ req[r].pc = "mail" => account[req[r].identity] = req[r].user
         /\ req[r].res = "ok" => Matches(r) \/ account[req[r].identity] = req[r].user
         /\ req[r].pc = "linkNew" /\ req[r].made = req[r].name /\ req[r].made \notin raced.names
              => req[r].user = r
    /\ r \notin Ids /\ req[r].pc \in {"check", "save"} =>
         /\ req[r].user \in Ids /\ Live(req[r].user)
         /\ r \in RenameReqs =>
              req[r].name \in Names /\ last[req[r].user].made # req[r].name
         /\ req[r].user \notin raced.users => req[r].pwd = user[req[r].user].pwd
    /\ r \in PasswordReqs /\ req[r].pc \in {"check", "save"} =>
         /\ req[r].code \in Codes
         /\ req[req[r].code].res = "ok" /\ req[req[r].code].user = req[r].user
         /\ req[r].user \notin raced.users => recovery[req[r].user] = req[r].code
    /\ \A n \in Names \ raced.names : HoldsName(r, n) /\ ~Completes(r) => Free(r, n)

\* A step of one handler that may link an identity nobody was linked to, but
\* writes no user.
LEMMA LinkingStep ==
  ASSUME AInv, Race, NEW r \in Reqs, Others(r), req' \in [Reqs -> Request],
         req[r].pc # "done", Sound(r)', UNCHANGED <<user, recovery, expired, last>>,
         account' \in [Identities -> Ids \cup {None}],
         \A i \in Identities : account[i] # None => account'[i] = account[i],
         faults' \in 0..MaxFail, faults' <= faults
  PROVE  AInv'
  <1>0. /\ TypeOK /\ req \in [Reqs -> Request] /\ faults \in 0..MaxFail /\ MaxFail \in Nat
        /\ user' = user /\ recovery' = recovery /\ last' = last
        /\ \A s \in Reqs : s # r => req'[s] = req[s]
    BY AccountsAssumption DEF AInv, TypeOK, Others, tables
  <1>a. faults' = MaxFail => faults = MaxFail
    BY <1>0
  <1>1. TypeOK'
    BY <1>0, RaceGrows DEF TypeOK, tables
  <1>2. HandlersInv'
    BY <1>0, Kinds DEF AInv, HandlersInv, Sound, Live
  <1>3. InsertInv'
    BY <1>0, <1>a, Kinds DEF AInv, InsertInv, RegistrationTold, Sound, Live
  <1>4. LoginsInv'
    <2>1. ASSUME NEW s \in OAuthReqs, s # r
          PROVE  /\ req[s].pc = "mail" \/ req[s].res = "ok" =>
                      req[s].user \in Ids /\ req[s].identity \in Identities
                 /\ req'[s] = req[s] /\ (Matches(s) => Matches(s)')
      BY <1>0, <2>1, Kinds DEF AInv, HandlersInv, Matches, Live
    <2>2. ASSUME NEW s \in OAuthReqs, s # r, req[s].user \in Ids, req[s].identity \in Identities,
                 account[req[s].identity] = req[s].user
          PROVE  account'[req'[s].identity] = req'[s].user
      BY <2>1, <2>2, Kinds
    <2>3. ASSUME NEW s \in OAuthReqs, s # r
          PROVE  /\ req'[s].pc \in {"account", "link"} /\ req'[s].user # None => Matches(s)'
                 /\ req'[s].pc = "mail" => account'[req'[s].identity] = req'[s].user
                 /\ req'[s].res = "ok" =>
                      Matches(s)' \/ account'[req'[s].identity] = req'[s].user
      BY <2>1, <2>2, <2>3 DEF AInv, LoginsInv
    <2> QED
      BY <2>3 DEF LoginsInv, Sound
  <1>5. NamesInv'
    <2>1. \A s \in Reqs, n \in Names : s # r => (HoldsName(s, n)' <=> HoldsName(s, n))
      BY <1>0 DEF HoldsName
    <2>2. \A n : Named(n)' = Named(n)
      BY <1>0 DEF Named, Live
    <2>3. \A s \in Reqs : s # r => Own(s)' = Own(s)
      BY <1>0 DEF Own
    <2>4. \A s \in Reqs, n \in Names \ raced'.names :
             HoldsName(s, n)' /\ ~Completes(s)' => Free(s, n)'
      <3> SUFFICES ASSUME NEW s \in Reqs, NEW n \in Names \ raced'.names,
                          HoldsName(s, n)', ~Completes(s)'
                   PROVE  Free(s, n)'
        OBVIOUS
      <3>1. CASE s = r
        BY <3>1 DEF Sound
      <3>2. CASE s # r
        <4>1. HoldsName(s, n) /\ ~Completes(s)
          BY <1>0, <2>1, <3>2 DEF Completes
        <4>2. Free(s, n)
          BY <1>0, <4>1, RaceGrows DEF AInv, NamesInv
        <4> QED
          BY <1>0, <2>2, <2>3, <3>2, <4>2 DEF Free
      <3> QED
        BY <3>1, <3>2
    <2>5. NamesDiffer'
      BY <1>0, RaceGrows DEF AInv, NamesInv, NamesDiffer, Live
    <2>6. LinksTheNewUser'
      BY <1>0, RaceGrows, Kinds DEF AInv, NamesInv, LinksTheNewUser, Sound
    <2>7. /\ \A u \in Ids : last'[u].made \in {None, user'[u].name}
          /\ \A s \in RenameReqs : req'[s].pc \in {"check", "save"} =>
               last'[req'[s].user].made # req'[s].name
      BY <1>0, Kinds DEF AInv, NamesInv, Sound
    <2> QED
      BY <1>0, <2>4, <2>5, <2>6, <2>7, RaceGrows DEF NamesInv
  <1>6. UsersInv'
    <2>1. ASSUME NEW s \in Reqs, NEW u \in Ids \ raced'.users, HoldsUser(s, u)'
          PROVE  /\ req'[s].pwd = user'[u].pwd
                 /\ s \in PasswordReqs => recovery'[u] = req'[s].code
      <3>1. CASE s = r
        BY <1>0, <2>1, <3>1, Kinds DEF Sound, HoldsUser
      <3>2. CASE s # r
        BY <1>0, <2>1, <3>2, RaceGrows DEF AInv, UsersInv, HoldsUser
      <3> QED
        BY <3>1, <3>2
    <2> QED
      BY <1>0, <2>1, RaceGrows DEF AInv, UsersInv, Live
  <1>7. CodesInv'
    <2>1. \A s \in Reqs : req[s].res = "ok" => s # r
      BY DEF AInv, HandlersInv
    <2>2. \A s \in Reqs : s \notin Ids /\ req'[s].res = "ok" => s # r /\ req'[s] = req[s]
      BY <1>0 DEF Sound
    <2>3. \A u \in Ids : recovery'[u] # None =>
             Live(u)' /\ req'[recovery'[u]].res = "ok" /\ req'[recovery'[u]].user = u
      BY <1>0, <2>1, Kinds DEF AInv, CodesInv, TypeOK, Live
    <2>4. ASSUME NEW s \in PasswordReqs, req'[s].pc = "save" \/ req'[s].res = "ok"
          PROVE  /\ req'[s].code \in Codes
                 /\ req'[req'[s].code].res = "ok" /\ req'[req'[s].code].user = req'[s].user
      <3>1. CASE s = r
        BY <1>0, <2>2, <2>4, <3>1, Kinds DEF Sound
      <3>2. CASE s # r
        BY <1>0, <2>1, <2>4, <3>2, Kinds DEF AInv, CodesInv
      <3> QED
        BY <3>1, <3>2
    <2>5. \A s \in PasswordReqs, u \in Ids \ raced'.users :
             req'[s].res = "ok" /\ req'[s].user = u => recovery'[u] # req'[s].code
      BY <1>0, <2>2, Kinds, RaceGrows DEF AInv, CodesInv
    <2>6. CodeIsLast'
      BY <1>0, <2>1, Kinds, RaceGrows DEF AInv, CodesInv, CodeIsLast
    <2>7. CodeWorksOnce'
      BY <1>0, <2>2, Kinds, RaceGrows DEF AInv, CodesInv, CodeWorksOnce
    <2> QED
      BY <2>3, <2>4, <2>5, <2>6, <2>7 DEF CodesInv
  <1> QED
    BY <1>1, <1>2, <1>3, <1>4, <1>5, <1>6, <1>7 DEF AInv

\* A step of one handler that writes no table.
LEMMA QuietStep ==
  ASSUME AInv, Race, NEW r \in Reqs, Others(r), req' \in [Reqs -> Request],
         req[r].pc # "done", Sound(r)', UNCHANGED <<tables, expired, last>>,
         faults' \in 0..MaxFail, faults' <= faults
  PROVE  AInv'
  <1>1. /\ UNCHANGED <<user, recovery, expired, last>>
        /\ account' \in [Identities -> Ids \cup {None}] /\ account' = account
    BY DEF AInv, TypeOK, tables
  <1> QED
    BY <1>1, LinkingStep

\* A step that at most ends some handlers without their having changed a thing:
\* a refusal, a restart, the end of a code's time, a failure elsewhere.
LEMMA EndingStep ==
  ASSUME AInv, NEW R \in SUBSET Reqs, req' \in [Reqs -> Request],
         \A s \in Reqs \ R : req'[s] = req[s],
         \A s \in R : req[s].pc # "done" /\ req'[s].pc = "done" /\ req'[s].res \in Refusals,
         \A s \in R \cap RegReqs : faults' = MaxFail => ~Live(s),
         UNCHANGED <<tables, last>>, expired' \in SUBSET Codes,
         faults' \in 0..MaxFail, faults' <= faults,
         raced' \in [names : SUBSET Names, users : SUBSET Ids],
         raced.names \subseteq raced'.names, raced.users \subseteq raced'.users
  PROVE  AInv'
  <1>0. /\ TypeOK /\ req \in [Reqs -> Request]
        /\ user' = user /\ recovery' = recovery /\ account' = account /\ last' = last
        /\ \A s \in R : req'[s].res # "ok" /\ req'[s].res # "none" /\ req[s].res = "none"
    BY DEF AInv, TypeOK, tables, HandlersInv, Refusals
  <1>a. faults' = MaxFail => faults = MaxFail
    <2>1. faults \in 0..MaxFail /\ MaxFail \in Nat
      BY <1>0, AccountsAssumption DEF TypeOK
    <2> QED
      BY <2>1
  <1>1. TypeOK'
    BY <1>0 DEF TypeOK
  <1>2. HandlersInv'
    BY <1>0, Kinds DEF AInv, HandlersInv, Live
  <1>3. InsertInv'
    BY <1>0, <1>a, Kinds DEF AInv, InsertInv, RegistrationTold, Live
  <1>4. LoginsInv'
    BY <1>0, Kinds DEF AInv, LoginsInv, Matches, Live
  <1>5. NamesInv'
    <2>1. \A s \in Reqs, n \in Names : HoldsName(s, n)' => HoldsName(s, n) /\ s \notin R
      BY <1>0 DEF HoldsName
    <2>2. \A n : Named(n)' = Named(n)
      BY <1>0 DEF Named, Live
    <2>3. \A s \in Reqs \ R : Own(s)' = Own(s)
      BY <1>0 DEF Own
    <2>4. NamesDiffer'
      BY <1>0 DEF AInv, NamesInv, NamesDiffer, Live
    <2>5. LinksTheNewUser'
      BY <1>0, Kinds DEF AInv, NamesInv, LinksTheNewUser
    <2>6. ASSUME NEW s \in Reqs, NEW n \in Names \ raced'.names,
                 HoldsName(s, n)', ~Completes(s)'
          PROVE  Free(s, n)'
      <3>1. HoldsName(s, n) /\ s \notin R /\ ~Completes(s) /\ n \notin raced.names
        BY <2>1, <2>6 DEF Completes
      <3> QED
        BY <1>0, <2>2, <2>3, <3>1 DEF AInv, NamesInv, Free
    <2>7. /\ \A u \in Ids : last'[u].made \in {None, user'[u].name}
          /\ \A s \in RenameReqs : req'[s].pc \in {"check", "save"} =>
               last'[req'[s].user].made # req'[s].name
      BY <1>0, Kinds DEF AInv, NamesInv
    <2> QED
      BY <2>1, <2>4, <2>5, <2>6, <2>7 DEF AInv, NamesInv
  <1>6. UsersInv'
    <2>1. \A s \in Reqs, u \in Ids : HoldsUser(s, u)' => HoldsUser(s, u) /\ s \notin R
      BY <1>0 DEF HoldsUser
    <2> QED
      BY <1>0, <2>1 DEF AInv, UsersInv, Live
  <1>7. CodesInv'
    <2>1. \A u \in Ids : recovery'[u] # None =>
             Live(u)' /\ req'[recovery'[u]].res = "ok" /\ req'[recovery'[u]].user = u
      BY <1>0, Kinds DEF AInv, CodesInv, TypeOK, Live
    <2>2. CodeIsLast' /\ CodeWorksOnce'
      BY <1>0, Kinds DEF AInv, CodesInv, CodeIsLast, CodeWorksOnce
    <2> QED
      BY <1>0, <2>1, <2>2, Kinds DEF AInv, CodesInv
  <1> QED
    BY <1>1, <1>2, <1>3, <1>4, <1>5, <1>6, <1>7 DEF AInv

\* A handler that is refused.
LEMMA RefusalStep ==
  ASSUME AInv, Race, NEW r \in Reqs, NEW res \in Refusals, Refuse(r, res),
         req[r].pc # "done", r \in RegReqs /\ faults' = MaxFail => ~Live(r),
         UNCHANGED <<tables, expired, last>>, faults' \in 0..MaxFail, faults' <= faults
  PROVE  AInv'
  <1>1. TypeOK /\ expired' \in SUBSET Codes
    BY DEF AInv, TypeOK
  <1>2. req' \in [Reqs -> Request] /\ Others(r) /\ req'[r].pc = "done" /\ req'[r].res = res
    BY <1>1, Refusing
  <1> DEFINE R == {r}
  <1>3. /\ \A s \in Reqs \ R : req'[s] = req[s]
        /\ \A s \in R : req[s].pc # "done" /\ req'[s].pc = "done" /\ req'[s].res \in Refusals
        /\ \A s \in R \cap RegReqs : faults' = MaxFail => ~Live(s)
        /\ R \in SUBSET Reqs
    BY <1>2 DEF Others
  <1> HIDE DEF R
  <1> QED
    BY <1>1, <1>2, <1>3, RaceGrows, EndingStep

LEMMA FailBounds ==
  ASSUME TypeOK, Fail
  PROVE  faults' \in 0..MaxFail /\ faults' <= faults /\ faults' # MaxFail
  BY AccountsAssumption DEF TypeOK, Fail

LEMMA SameBounds ==
  ASSUME TypeOK, faults' = faults
  PROVE  faults' \in 0..MaxFail /\ faults' <= faults
  BY AccountsAssumption DEF TypeOK

\* A restart, with a failure or without one, and codes that expire.
LEMMA RestartStep ==
  ASSUME AInv, Race, Restart
  PROVE  AInv'
  <1> DEFINE R == {s \in Reqs : req[s].pc \notin {"start", "done"}}
             q == [Handler EXCEPT !.pc = "done", !.res = "lost"]
  <1>0. TypeOK /\ req \in [Reqs -> Request]
    BY DEF AInv, TypeOK
  <1>1. q \in Request /\ q.pc = "done" /\ q.res = "lost"
    BY DEF Handler, Request
  <1> HIDE DEF q
  <1>2. req' = [r \in Reqs |-> IF req[r].pc \in {"start", "done"} THEN req[r] ELSE q]
    BY DEF Restart, q
  <1>3. req' \in [Reqs -> Request]
    BY <1>0, <1>1, <1>2
  <1>4. /\ \A s \in Reqs \ R : req'[s] = req[s]
        /\ \A s \in R : req[s].pc # "done" /\ req'[s].pc = "done" /\ req'[s].res \in Refusals
        /\ R \in SUBSET Reqs
    BY <1>1, <1>2 DEF Refusals
  <1>5. /\ faults' \in 0..MaxFail /\ faults' <= faults /\ faults' # MaxFail
        /\ UNCHANGED <<tables, last>> /\ expired' \in SUBSET Codes
    BY <1>0, FailBounds DEF Restart, TypeOK
  <1>6. \A s \in R \cap RegReqs : faults' = MaxFail => ~Live(s)
    BY <1>5
  <1> HIDE DEF R
  <1> QED
    BY <1>0, <1>3, <1>4, <1>5, <1>6, RaceGrows, EndingStep

\* Nothing but the failures left and the expired codes changes.
LEMMA ElsewhereStep ==
  ASSUME AInv, UNCHANGED <<tables, last, req>>, expired' \in SUBSET Codes,
         faults' \in 0..MaxFail, faults' <= faults, Race \/ raced' = raced
  PROVE  AInv'
  <1>0. TypeOK /\ req' \in [Reqs -> Request] /\ \A s \in Reqs \ {} : req'[s] = req[s]
    BY DEF AInv, TypeOK
  <1>1. /\ raced' \in [names : SUBSET Names, users : SUBSET Ids]
        /\ raced.names \subseteq raced'.names /\ raced.users \subseteq raced'.users
    BY <1>0, RaceGrows DEF TypeOK
  <1>2. \A R : R = {} =>
          /\ R \in SUBSET Reqs /\ \A s \in Reqs \ R : req'[s] = req[s]
          /\ \A s \in R : req[s].pc # "done" /\ req'[s].pc = "done" /\ req'[s].res \in Refusals
          /\ \A s \in R \cap RegReqs : faults' = MaxFail => ~Live(s)
    BY <1>0
  <1> QED
    BY <1>0, <1>1, <1>2, EndingStep

LEMMA ExpireStep ==
  ASSUME AInv, Race, NEW c \in RecoverReqs, Expire(c)
  PROVE  AInv'
  <1>1. TypeOK
    BY DEF AInv
  <1>2. expired' \in SUBSET Codes /\ UNCHANGED <<tables, last, req>>
    BY <1>1 DEF Expire, TypeOK, Codes
  <1> QED
    BY <1>1, <1>2, SameBounds, ElsewhereStep DEF Expire
-----------------------------------------------------------------------------
(* Registration *)

LEMMA RegStartStep ==
  ASSUME AInv, Race, NEW r \in RegReqs, RegStart(r)
  PROVE  AInv'
  <1>0. TypeOK /\ r \in Reqs /\ r \in Ids /\ r \notin OAuthReqs /\ r \notin PasswordReqs
        /\ UNCHANGED tables /\ UNCHANGED <<expired, last>> /\ faults' = faults
    BY Kinds DEF AInv, RegStart
  <1>1. PICK n \in Names, e \in Emails :
          req' = [req EXCEPT ![r] = [req[r] EXCEPT !.pc = "find", !.name = n, !.email = e]]
    BY DEF RegStart
  <1> DEFINE q == [req[r] EXCEPT !.pc = "find", !.name = n, !.email = e]
  <1>2. q \in Request
    <2>1. req[r] \in Request
      BY <1>0 DEF TypeOK
    <2>2. [req[r] EXCEPT !.pc = "find"] \in Request
      BY <2>1, Fields DEF Steps
    <2>3. [req[r] EXCEPT !.pc = "find", !.name = n] \in Request
      BY <2>2, Fields
    <2> QED
      BY <2>3, Fields
  <1>3. q.pc = "find" /\ q.name = n /\ q.email = e /\ q.res = req[r].res
    BY <1>0 DEF TypeOK, Request
  <1> HIDE DEF q
  <1>4. req' \in [Reqs -> Request] /\ req'[r] = q /\ Others(r)
    BY <1>0, <1>1, <1>2 DEF q, TypeOK, Others
  <1>5. req[r].pc = "start" /\ req[r].res = "none" /\ ~Live(r)
    BY <1>0 DEF RegStart, AInv, HandlersInv, InsertInv
  <1>6. Sound(r)'
    BY <1>0, <1>3, <1>4, <1>5 DEF Sound, HoldsName, Live, tables
  <1> QED
    BY <1>0, <1>4, <1>5, <1>6, SameBounds, QuietStep

\* The checks of a name and of an email go on when nobody has it.
LEMMA RegGoStep ==
  ASSUME AInv, Race, NEW r \in RegReqs, NEW pc \in {"named", "emailed", "create"},
         Goto(r, pc), req[r].pc \in {"find", "named", "emailed"},
         \/ pc = "emailed"
         \/ Named(req[r].name) \subseteq {r}
         \/ req[r].name \in raced.names,
         UNCHANGED <<tables, expired, faults, last>>
  PROVE  AInv'
  <1>0. TypeOK /\ r \in Reqs /\ r \in Ids /\ r \notin OAuthReqs /\ r \notin PasswordReqs
        /\ user' = user /\ pc \in Steps
    BY Kinds DEF AInv, Steps, tables
  <1>1. req' \in [Reqs -> Request] /\ Others(r) /\ req'[r].pc = pc /\ Kept(r)
    BY <1>0, Going
  <1>2. /\ req[r].pc # "done" /\ req[r].res = "none" /\ ~Live(r)
        /\ req[r].name \in Names /\ req[r].email \in Emails
    BY <1>0 DEF AInv, HandlersInv, InsertInv
  <1>3. \A n \in Names \ raced'.names : HoldsName(r, n)' => Free(r, n)'
    BY <1>0, <1>1, RaceGrows DEF HoldsName, Kept, Named, Live, Own, Free
  <1>4. Sound(r)'
    BY <1>0, <1>1, <1>2, <1>3 DEF Sound, Kept, Live
  <1> QED
    BY <1>0, <1>1, <1>2, <1>4, SameBounds, QuietStep

LEMMA RegFindStep ==
  ASSUME AInv, Race, NEW r \in RegReqs, RegFindName(r) \/ RegFindEmail(r)
  PROVE  AInv'
  <1>0. TypeOK /\ r \in Reqs /\ UNCHANGED <<tables, expired, faults, last>>
        /\ req[r].pc \in {"find", "named", "emailed"} /\ "taken" \in Refusals
        /\ r \in Ids
    BY Kinds DEF AInv, RegFindName, RegFindEmail, Refusals
  <1>1. CASE Refuse(r, "taken")
    <2>1. ~Live(r)
      BY <1>0 DEF AInv, InsertInv
    <2> QED
      BY <1>0, <1>1, <2>1, SameBounds, RefusalStep
  <1>2. CASE RegFindName(r) /\ ~Refuse(r, "taken")
    BY <1>0, <1>2, RegGoStep DEF RegFindName
  <1>3. CASE RegFindEmail(r) /\ ~Refuse(r, "taken")
    <2>1. CASE req[r].pc = "find"
      BY <1>0, <1>3, <2>1, RegGoStep DEF RegFindEmail
    <2>2. CASE req[r].pc = "named"
      <3>1. Named(req[r].name) \subseteq {r} \/ req[r].name \in raced.names
        BY <1>0, <2>2, Kinds DEF AInv, NamesInv, HoldsName, HandlersInv, Own, Free, Completes
      <3> QED
        BY <1>0, <1>3, <2>2, <3>1, RegGoStep DEF RegFindEmail
    <2> QED
      BY <1>3, <2>1, <2>2 DEF RegFindEmail
  <1> QED
    BY <1>1, <1>2, <1>3

\* A row is inserted by a handler that holds its name.
LEMMA InsertStep ==
  ASSUME AInv, Race, NEW r \in Ids, NEW row \in UserRow, NEW pc \in {"mail", "findNew"},
         row.st = "live", Insert(r, row), Goto(r, pc), req[r].pc = "create",
         r \in RegReqs <=> pc = "mail", r \in OAuthReqs <=> pc = "findNew",
         HoldsName(r, row.name), row.name \in Names,
         row.name = req[r].name <=> ~Completes(r),
         \A n \in Names : HoldsName(r, n)' => n = row.name,
         UNCHANGED <<recovery, account, expired, faults>>
  PROVE  AInv'
  <1>0. /\ TypeOK /\ r \in Reqs /\ req \in [Reqs -> Request] /\ user \in [Ids -> UserRow]
        /\ last \in [Ids -> Histories]
        /\ recovery' = recovery /\ account' = account /\ faults' = faults
        /\ ~Live(r) /\ req[r].res = "none" /\ pc \in Steps
        /\ r \notin PasswordReqs /\ r \notin RecoverReqs /\ r \notin RenameReqs
    BY Kinds DEF AInv, TypeOK, InsertInv, HandlersInv, Steps, Histories
  <1>1. req' \in [Reqs -> Request] /\ Others(r) /\ req'[r].pc = pc /\ Kept(r)
    BY <1>0, Going
  <1>2. /\ user' = [user EXCEPT ![r] = row]
        /\ last' = [last EXCEPT ![r].pwd = row.pwd,
                               ![r].made = IF row.name = req[r].name THEN None ELSE row.name]
    BY DEF Insert
  <1>3. /\ Live(r)' /\ user'[r] = row
        /\ \A u \in Ids : u # r => user'[u] = user[u] /\ (Live(u)' <=> Live(u))
    BY <1>0, <1>2 DEF Live
  <1>5. row.pwd \in Passwords \cup {None}
    BY DEF UserRow
  <1> DEFINE made == IF row.name = req[r].name THEN None ELSE row.name
             h == [[last[r] EXCEPT !.pwd = row.pwd] EXCEPT !.made = made]
  <1>b. made \in Names \cup {None}
    OBVIOUS
  <1>c. last' = [last EXCEPT ![r] = h]
    BY <1>0, <1>2
  <1> HIDE DEF made
  <1>d. /\ h \in Histories /\ h.pwd = row.pwd /\ h.made = made /\ h.code = last[r].code
        /\ h.renamed = last[r].renamed
    BY <1>0, <1>5, <1>b DEF Histories
  <1> HIDE DEF h
  <1>4. /\ last'[r].pwd = row.pwd /\ last'[r].made = made
        /\ \A u \in Ids : last'[u].code = last[u].code /\ last'[u].renamed = last[u].renamed
        /\ \A u \in Ids : u # r => last'[u] = last[u]
    BY <1>0, <1>c, <1>d
  <1>6. TypeOK'
    <2>1. last' \in [Ids -> Histories]
      BY <1>0, <1>c, <1>d
    <2>2. user' \in [Ids -> UserRow]
      BY <1>0, <1>2
    <2> QED
      BY <1>0, <1>1, <2>1, <2>2, RaceGrows DEF TypeOK, Histories
  <1>7. HandlersInv'
    BY <1>0, <1>1, <1>3, Kinds DEF AInv, HandlersInv, Others, Kept
  <1>8. InsertInv'
    <2>1. \A q \in Ids :
            req'[q].pc \in {"start", "find", "named", "emailed", "account", "name", "create"}
              => ~Live(q)'
      <3>1. ASSUME NEW q \in Ids, q # r,
                   req'[q].pc \in {"start", "find", "named", "emailed", "account", "name", "create"}
            PROVE  ~Live(q)'
        BY <1>0, <1>1, <1>3, <3>1, Kinds DEF AInv, InsertInv, Others
      <3>2. req'[r].pc \notin {"start", "find", "named", "emailed", "account", "name", "create"}
        BY <1>1
      <3> QED
        BY <3>1, <3>2
    <2>2. \A q \in RegReqs : req'[q].pc = "mail" => Live(q)'
      BY <1>0, <1>1, <1>3, Kinds DEF AInv, InsertInv, Others
    <2>3. \A q \in RegReqs :
            faults' = MaxFail /\ req'[q].pc = "done" => (req'[q].res = "ok") = Live(q)'
      <3>1. \A q \in RegReqs : req'[q].pc = "done" => q # r
        BY <1>1
      <3> QED
        BY <1>0, <1>1, <1>3, <3>1, Kinds DEF AInv, InsertInv, RegistrationTold, Others, Live
    <2> QED
      BY <2>1, <2>2, <2>3 DEF InsertInv, RegistrationTold
  <1>9. LoginsInv'
    <2>1. \A s \in Reqs : req[s].user \in Ids /\ Matches(s) /\ s # r => Matches(s)'
      BY <1>0, <1>1, <1>3 DEF Matches, Others
    <2>2. \A s \in OAuthReqs : s # r =>
            /\ req[s].pc \in {"account", "link"} /\ req[s].user # None => req[s].user \in Ids
            /\ req[s].res = "ok" => req[s].user \in Ids
      BY <1>0, Kinds DEF AInv, TypeOK, Request, HandlersInv
    <2> QED
      BY <1>0, <1>1, <2>1, <2>2, Kinds DEF AInv, LoginsInv, Others, Kept
  <1>10. NamesInv'
    <2>1. \A s \in Reqs, n \in Names : s # r => (HoldsName(s, n)' <=> HoldsName(s, n))
      BY <1>1 DEF HoldsName, Others
    <2>2. \A n : Named(n)' \subseteq Named(n) \cup {r}
      BY <1>3 DEF Named
    <2>3. \A n : n # row.name => Named(n)' = Named(n)
      BY <1>0, <1>3 DEF Named
    <2>4. \A s \in Reqs : Own(s)' = Own(s)
      BY <1>1 DEF Own, Others, Kept
    <2>5. row.name \notin raced.names /\ ~Completes(r) => Named(row.name)' = {r}
      BY <1>0, <1>3 DEF AInv, NamesInv, Named, Own, Free
    <2>a. Completes(r)' <=> Completes(r)
      BY <1>1 DEF Completes, Kept
    <2>6. ASSUME NEW s \in Reqs, NEW n \in Names \ raced'.names,
                 HoldsName(s, n)', ~Completes(s)'
          PROVE  Free(s, n)'
      <3>1. n \notin raced.names
        BY <1>0, RaceGrows
      <3>2. CASE s = r
        BY <2>4, <2>5, <2>6, <2>a, <3>1, <3>2 DEF Own, Free
      <3>3. CASE s # r
        <4>1. HoldsName(s, n) /\ n # row.name
          BY <1>0, <2>1, <2>6, <3>1, <3>3 DEF AInv, NamesInv
        <4>2. Free(s, n)
          BY <1>1, <2>6, <3>1, <3>3, <4>1 DEF AInv, NamesInv, Completes, Others
        <4>3. \A v \in Named(n) : v # r
          BY <1>0 DEF Named
        <4> QED
          BY <1>4, <2>3, <2>4, <4>1, <4>2, <4>3 DEF Free, Named
      <3> QED
        BY <3>2, <3>3
    <2>7. NamesDiffer'
      <3>1. ASSUME NEW u \in Ids, NEW v \in Ids, u # v, Live(u)', Live(v)',
                   NEW n, user'[u].name = n, user'[v].name = n,
                   n \notin raced'.names \cup {last'[u].made, last'[v].made}
            PROVE  FALSE
        <4>1. u \in Named(n)' /\ v \in Named(n)' /\ n \notin raced.names
          BY <1>0, <3>1, RaceGrows DEF Named
        <4>2. CASE n = row.name
          <5>1. u = r \/ v = r => ~Completes(r)
            BY <1>4, <3>1, <4>2 DEF made, Completes
          <5>2. CASE Completes(r)
            BY <1>3, <1>4, <3>1, <4>1, <5>1, <5>2 DEF AInv, NamesInv, NamesDiffer
          <5>3. CASE ~Completes(r)
            BY <2>5, <3>1, <4>1, <4>2, <5>3
          <5> QED
            BY <5>2, <5>3
        <4>3. CASE n # row.name
          <5>1. u # r /\ v # r
            BY <1>3, <3>1, <4>3
          <5> QED
            BY <1>3, <1>4, <3>1, <4>1, <5>1 DEF AInv, NamesInv, NamesDiffer
        <4> QED
          BY <4>2, <4>3
      <3> QED
        BY <3>1 DEF NamesDiffer
    <2>8. LinksTheNewUser'
      BY <1>0, <1>1, RaceGrows, Kinds DEF AInv, NamesInv, LinksTheNewUser, Others
    <2>9. \A u \in Ids : last'[u].made \in {None, user'[u].name}
      BY <1>3, <1>4 DEF made, AInv, NamesInv
    <2>10. ASSUME NEW s \in RenameReqs, req'[s].pc \in {"check", "save"}
           PROVE  last'[req'[s].user].made # req'[s].name
      <3>1. s \in Reqs \ Ids /\ s # r /\ req'[s] = req[s]
        BY <1>0, <1>1, Kinds DEF Others
      <3>2. req[s].user \in Ids /\ req[s].user # r
        BY <1>0, <2>10, <3>1 DEF AInv, HandlersInv
      <3> QED
        BY <1>4, <2>10, <3>1, <3>2 DEF AInv, NamesInv
    <2> QED
      BY <1>0, <2>6, <2>7, <2>8, <2>9, <2>10, RaceGrows DEF NamesInv
  <1>11. UsersInv'
    <2>1. \A s \in Reqs, u \in Ids : HoldsUser(s, u)' =>
             HoldsUser(s, u) /\ s # r /\ req'[s] = req[s] /\ u # r
      BY <1>0, <1>1 DEF HoldsUser, Others, AInv, HandlersInv
    <2>2. \A u \in Ids \ raced'.users : user'[u].pwd = last'[u].pwd
      BY <1>0, <1>3, <1>4, RaceGrows DEF AInv, UsersInv
    <2>3. \A u \in Ids : ~Live(u)' => last'[u].pwd = None
      BY <1>3, <1>4 DEF AInv, UsersInv
    <2> QED
      BY <1>0, <1>3, <2>1, <2>2, <2>3, RaceGrows DEF AInv, UsersInv
  <1>12. CodesInv'
    <2>1. \A u \in Ids : recovery'[u] # None =>
             Live(u)' /\ req'[recovery'[u]].res = "ok" /\ req'[recovery'[u]].user = u
      BY <1>0, <1>1, <1>3, Kinds DEF AInv, CodesInv, TypeOK, Others
    <2>2. \A s \in PasswordReqs : req'[s].pc = "save" \/ req'[s].res = "ok" =>
             /\ req'[s].code \in Codes
             /\ req'[req'[s].code].res = "ok" /\ req'[req'[s].code].user = req'[s].user
      BY <1>0, <1>1, Kinds DEF AInv, CodesInv, Others
    <2>3. \A s \in PasswordReqs, u \in Ids \ raced'.users :
             req'[s].res = "ok" /\ req'[s].user = u => recovery'[u] # req'[s].code
      BY <1>0, <1>1, Kinds, RaceGrows DEF AInv, CodesInv, Others
    <2>4. CodeIsLast'
      BY <1>0, <1>4, RaceGrows DEF AInv, CodesInv, CodeIsLast
    <2>5. CodeWorksOnce'
      BY <1>0, <1>1, Kinds, RaceGrows DEF AInv, CodesInv, CodeWorksOnce, Others
    <2> QED
      BY <2>1, <2>2, <2>3, <2>4, <2>5 DEF CodesInv
  <1> QED
    BY <1>6, <1>7, <1>8, <1>9, <1>10, <1>11, <1>12 DEF AInv

LEMMA RegCreateStep ==
  ASSUME AInv, Race, NEW r \in RegReqs, RegCreate(r)
  PROVE  AInv'
  <1>0. /\ TypeOK /\ r \in Reqs /\ r \in Ids /\ r \notin OAuthReqs /\ r \in Passwords
        /\ req[r].pc = "create" /\ "error" \in Refusals /\ "mail" \in Steps
    BY Kinds DEF AInv, RegCreate, Refusals, Steps, Passwords
  <1>1. /\ req[r].name \in Names /\ req[r].email \in Emails /\ ~Live(r)
    BY <1>0 DEF AInv, HandlersInv, InsertInv
  <1>2. CASE Refuse(r, "error") /\ UNCHANGED <<user, last>>
    BY <1>0, <1>1, <1>2, SameBounds, RefusalStep DEF RegCreate, tables
  <1>3. CASE ~(Refuse(r, "error") /\ UNCHANGED <<user, last>>)
    <2> DEFINE row == ConfirmEmail(Created(req[r].name, req[r].email, r))
    <2>1. /\ row \in UserRow /\ row.st = "live" /\ row.name = req[r].name
      BY <1>0, <1>1 DEF ConfirmEmail, Created, UserRow
    <2> HIDE DEF row
    <2>2. Insert(r, row) /\ Goto(r, "mail") /\ UNCHANGED <<recovery, account, expired, faults>>
      BY <1>3 DEF RegCreate, row
    <2>3. /\ HoldsName(r, row.name) /\ row.name \in Names
          /\ row.name = req[r].name <=> ~Completes(r)
      BY <1>0, <1>1, <2>1 DEF HoldsName, Completes
    <2>4. req'[r].pc = "mail"
      BY <1>0, <2>2, Going
    <2>5. \A n \in Names : ~HoldsName(r, n)'
      BY <1>0, <2>4, Kinds DEF HoldsName
    <2> QED
      BY <1>0, <2>1, <2>2, <2>3, <2>5, InsertStep
  <1> QED
    BY <1>2, <1>3

\* Of a registration and of a login with a provider.
LEMMA SendMailStep ==
  ASSUME AInv, Race, NEW r \in Ids, SendMail(r)
  PROVE  AInv'
  <1>0. /\ TypeOK /\ r \in Reqs /\ UNCHANGED <<tables, expired, last>> /\ req[r].pc = "mail"
        /\ user' = user /\ account' = account /\ "error" \in Refusals
        /\ r \notin PasswordReqs
    BY Kinds DEF AInv, SendMail, tables, Refusals
  <1>1. CASE Fail /\ Refuse(r, "error")
    BY <1>0, <1>1, FailBounds, RefusalStep
  <1>2. CASE Answer(r, "ok") /\ UNCHANGED faults
    <2>1. /\ req' \in [Reqs -> Request] /\ Others(r) /\ req'[r].pc = "done" /\ req'[r].res = "ok"
          /\ req'[r].user = req[r].user /\ req'[r].identity = req[r].identity
      BY <1>0, <1>2, Answering
    <2>2. /\ r \in RegReqs => Live(r)
          /\ r \in OAuthReqs => /\ req[r].identity \in Identities /\ req[r].user \in Ids
                                /\ account[req[r].identity] = req[r].user
      BY <1>0 DEF AInv, InsertInv, HandlersInv, LoginsInv
    <2>3. Sound(r)'
      BY <1>0, <2>1, <2>2 DEF Sound, HoldsName, Live
    <2> QED
      BY <1>0, <1>2, <2>1, <2>3, SameBounds, QuietStep
  <1> QED
    BY <1>1, <1>2 DEF SendMail
-----------------------------------------------------------------------------
(* Logins with a provider *)

LEMMA OAuthStartStep ==
  ASSUME AInv, Race, NEW r \in OAuthReqs, OAuthStart(r)
  PROVE  AInv'
  <1>0. /\ TypeOK /\ r \in Reqs /\ r \in Ids /\ r \notin RegReqs /\ r \notin PasswordReqs
        /\ UNCHANGED tables /\ UNCHANGED <<expired, last>> /\ faults' = faults
        /\ "unauthorized" \in Refusals /\ req[r].pc = "start"
    BY Kinds DEF AInv, OAuthStart, Refusals
  <1>1. CASE Refuse(r, "unauthorized")
    BY <1>0, <1>1, SameBounds, RefusalStep
  <1>2. ASSUME NEW i \in Identities, NEW n \in ProviderNames, NEW e \in Emails,
               req' = [req EXCEPT ![r] = [req[r] EXCEPT !.pc = "find", !.identity = i,
                                                        !.name = n, !.email = e]]
        PROVE  AInv'
    <2> DEFINE q == [req[r] EXCEPT !.pc = "find", !.identity = i, !.name = n, !.email = e]
    <2>1. q \in Request
      <3>1. req[r] \in Request
        BY <1>0 DEF TypeOK
      <3>2. [req[r] EXCEPT !.pc = "find"] \in Request
        BY <3>1, Fields DEF Steps
      <3>3. [req[r] EXCEPT !.pc = "find", !.identity = i] \in Request
        BY <3>2, Fields
      <3>4. [req[r] EXCEPT !.pc = "find", !.identity = i, !.name = n] \in Request
        BY <3>3, Fields, Kinds
      <3> QED
        BY <3>4, Fields
    <2>2. q.pc = "find" /\ q.identity = i /\ q.name = n /\ q.email = e /\ q.res = req[r].res
      BY <1>0 DEF TypeOK, Request
    <2> HIDE DEF q
    <2>3. req' \in [Reqs -> Request] /\ req'[r] = q /\ Others(r)
      BY <1>0, <1>2, <2>1 DEF q, TypeOK, Others
    <2>4. req[r].res = "none" /\ ~Live(r)
      BY <1>0 DEF AInv, HandlersInv, InsertInv
    <2>5. Sound(r)'
      BY <1>0, <2>2, <2>3, <2>4, Kinds DEF Sound, HoldsName, Live, tables
    <2> QED
      BY <1>0, <2>3, <2>5, SameBounds, QuietStep DEF tables, TypeOK
  <1> QED
    BY <1>1, <1>2 DEF OAuthStart

\* What is known of a login that has read its request.
LEMMA OAuthKnown ==
  ASSUME AInv, NEW r \in OAuthReqs, req[r].pc \notin {"start", "done"}
  PROVE  /\ TypeOK /\ r \in Reqs /\ r \in Ids /\ r \notin RegReqs /\ r \notin PasswordReqs
         /\ r \notin RenameReqs
         /\ req \in [Reqs -> Request] /\ req[r].res = "none"
         /\ req[r].identity \in Identities /\ req[r].email \in Emails
         /\ req[r].name \in ProviderNames /\ req[r].name \in Names
         /\ account \in [Identities -> Ids \cup {None}]
         /\ "error" \in Refusals
  BY Kinds DEF AInv, TypeOK, HandlersInv, Refusals

LEMMA OAuthFindStep ==
  ASSUME AInv, Race, NEW r \in OAuthReqs, OAuthFind(r)
  PROVE  AInv'
  <1>0. req[r].pc = "find"
    BY DEF OAuthFind
  <1>1. PICK u \in WithEmail(req[r].email) \cup {None} :
          req' = [req EXCEPT ![r] = [req[r] EXCEPT !.pc = "account", !.user = u]]
    BY DEF OAuthFind
  <1> DEFINE q == [req[r] EXCEPT !.pc = "account", !.user = u]
  <1>2. /\ UNCHANGED <<tables, expired, faults, last>> /\ ~Live(r)
        /\ u \in Ids \cup {None}
    BY <1>0, OAuthKnown DEF OAuthFind, AInv, InsertInv, WithEmail
  <1>3. q \in Request
    <2>1. req[r] \in Request
      BY <1>0, OAuthKnown
    <2>2. [req[r] EXCEPT !.pc = "account"] \in Request
      BY <2>1, Fields DEF Steps
    <2> QED
      BY <1>2, <2>2, Fields
  <1>4. /\ q.pc = "account" /\ q.identity = req[r].identity /\ q.name = req[r].name
        /\ q.email = req[r].email /\ q.res = req[r].res /\ q.user = u
    BY <1>0, OAuthKnown DEF Request
  <1> HIDE DEF q
  <1>5. req' \in [Reqs -> Request] /\ req'[r] = q /\ Others(r)
    BY <1>0, <1>1, <1>3, OAuthKnown DEF q, Others
  <1>6. u # None => Matches(r)'
    BY <1>2, <1>4, <1>5 DEF Matches, Live, WithEmail, tables
  <1>7. Sound(r)'
    BY <1>0, <1>2, <1>4, <1>5, <1>6, OAuthKnown DEF Sound, HoldsName, Live, tables
  <1> QED
    BY <1>0, <1>2, <1>5, <1>7, OAuthKnown, SameBounds, QuietStep DEF tables

LEMMA OAuthAccountStep ==
  ASSUME AInv, Race, NEW r \in OAuthReqs, OAuthAccount(r)
  PROVE  AInv'
  <1> DEFINE owner == Owner(req[r].identity)
  <1>0. /\ req[r].pc = "account" /\ UNCHANGED <<tables, expired, faults, last>> /\ ~Live(r)
        /\ user' = user /\ account' = account
    BY OAuthKnown DEF OAuthAccount, AInv, InsertInv, tables
  <1>a. req[r].user # None => Matches(r) /\ req[r].user \in Ids
    BY <1>0, OAuthKnown DEF AInv, LoginsInv, TypeOK, Request
  <1>1. CASE owner # None /\
             req' = [req EXCEPT ![r] = [req[r] EXCEPT !.pc = "done", !.res = "ok", !.name = None,
                               !.user = IF req[r].user = None THEN owner ELSE req[r].user]]
    <2> DEFINE u == IF req[r].user = None THEN owner ELSE req[r].user
               q == [req[r] EXCEPT !.pc = "done", !.res = "ok", !.name = None, !.user = u]
    <2>1. u \in Ids /\ owner \in Ids
      BY <1>0, <1>a, <1>1, OAuthKnown DEF Owner
    <2> HIDE DEF u
    <2>2. q \in Request
      <3>1. req[r] \in Request
        BY <1>0, OAuthKnown
      <3>2. [req[r] EXCEPT !.pc = "done"] \in Request
        BY <3>1, Fields DEF Steps
      <3>3. [req[r] EXCEPT !.pc = "done", !.res = "ok"] \in Request
        BY <3>2, Fields
      <3>4. [req[r] EXCEPT !.pc = "done", !.res = "ok", !.name = None] \in Request
        BY <3>3, Fields
      <3> QED
        BY <2>1, <3>4, Fields
    <2>3. /\ q.pc = "done" /\ q.identity = req[r].identity /\ q.email = req[r].email
          /\ q.res = "ok" /\ q.user = u
      BY <1>0, OAuthKnown DEF Request
    <2>4. req' = [req EXCEPT ![r] = q]
      BY <1>1 DEF u
    <2> HIDE DEF q
    <2>5. req' \in [Reqs -> Request] /\ req'[r] = q /\ Others(r)
      BY <1>0, <2>2, <2>4, OAuthKnown DEF Others
    <2>6. Matches(r)' \/ account'[req'[r].identity] = req'[r].user
      BY <1>0, <1>a, <2>3, <2>5 DEF u, Owner, Matches, Live
    <2>7. Sound(r)'
      BY <1>0, <2>1, <2>3, <2>5, <2>6, OAuthKnown DEF Sound, HoldsName
    <2> QED
      BY <1>0, <2>5, <2>7, OAuthKnown, SameBounds, QuietStep DEF tables
  <1>2. ASSUME NEW pc \in {"name", "link"}, Goto(r, pc), pc = "link" <=> req[r].user # None
        PROVE  AInv'
    <2>1. pc \in Steps
      BY DEF Steps
    <2>2. req' \in [Reqs -> Request] /\ Others(r) /\ req'[r].pc = pc /\ Kept(r)
      BY <1>0, <1>2, <2>1, OAuthKnown, Going
    <2>3. req[r].user # None => Matches(r)'
      BY <1>0, <1>a, <2>2 DEF Matches, Live, Kept
    <2>4. Sound(r)'
      BY <1>0, <1>a, <1>2, <2>2, <2>3, OAuthKnown DEF Sound, HoldsName, Live, Kept
    <2> QED
      BY <1>0, <2>2, <2>4, OAuthKnown, SameBounds, QuietStep DEF tables
  <1>3. CASE owner = None
    <2>1. Goto(r, IF req[r].user = None THEN "name" ELSE "link")
      BY <1>3 DEF OAuthAccount
    <2>2. CASE req[r].user = None
      <3>1. Goto(r, "name")
        BY <2>1, <2>2
      <3> QED
        BY <1>2, <2>2, <3>1
    <2>3. CASE req[r].user # None
      <3>1. Goto(r, "link")
        BY <2>1, <2>3
      <3> QED
        BY <1>2, <2>3, <3>1
    <2> QED
      BY <2>2, <2>3
  <1>4. CASE owner # None
    BY <1>1, <1>4 DEF OAuthAccount
  <1> QED
    BY <1>3, <1>4

\* Linking: the identity was linked to nobody, so no login loses its user.
LEMMA OAuthLinkStep ==
  ASSUME AInv, Race, NEW r \in OAuthReqs, OAuthLink(r) \/ OAuthLinkNew(r)
  PROVE  AInv'
  <1>0. req[r].pc \in {"link", "linkNew"}
    BY DEF OAuthLink, OAuthLinkNew
  <1>1. /\ UNCHANGED <<user, recovery, expired, faults, last>> /\ user' = user
        /\ req[r].user \in Ids
    BY <1>0 DEF OAuthLink, OAuthLinkNew, Link, AInv, HandlersInv
  <1>2. CASE Refuse(r, "error") /\ UNCHANGED account
    BY <1>0, <1>1, <1>2, OAuthKnown, SameBounds, RefusalStep DEF tables
  <1>3. CASE account' = [account EXCEPT ![req[r].identity] = req[r].user]
             /\ Owner(req[r].identity) = None
    <2>1. /\ account' \in [Identities -> Ids \cup {None}]
          /\ \A i \in Identities : account[i] # None => account'[i] = account[i]
          /\ account'[req[r].identity] = req[r].user
      BY <1>0, <1>1, <1>3, OAuthKnown DEF Owner
    <2>2. CASE Answer(r, "ok") /\ req[r].pc = "link"
      <3>1. /\ req' \in [Reqs -> Request] /\ Others(r)
            /\ req'[r].pc = "done" /\ req'[r].res = "ok"
            /\ req'[r].user = req[r].user /\ req'[r].identity = req[r].identity
        BY <1>0, <2>2, OAuthKnown, Answering
      <3>2. Sound(r)'
        BY <1>0, <1>1, <2>1, <3>1, OAuthKnown DEF Sound, HoldsName
      <3> QED
        BY <1>0, <1>1, <2>1, <3>1, <3>2, OAuthKnown, SameBounds, LinkingStep
    <2>3. CASE Goto(r, "mail") /\ req[r].pc = "linkNew"
      <3>1. "mail" \in Steps
        BY DEF Steps
      <3>2. req' \in [Reqs -> Request] /\ Others(r) /\ req'[r].pc = "mail" /\ Kept(r)
        BY <1>0, <2>3, <3>1, OAuthKnown, Going
      <3>3. Sound(r)'
        BY <1>0, <1>1, <2>1, <3>2, OAuthKnown DEF Sound, HoldsName, Kept
      <3> QED
        BY <1>0, <1>1, <2>1, <3>2, <3>3, OAuthKnown, SameBounds, LinkingStep
    <2> QED
      BY <1>2, <2>2, <2>3 DEF OAuthLink, OAuthLinkNew, Link
  <1> QED
    BY <1>2, <1>3 DEF OAuthLink, OAuthLinkNew, Link

LEMMA OAuthNameStep ==
  ASSUME AInv, Race, NEW r \in OAuthReqs, OAuthName(r)
  PROVE  AInv'
  <1>0. /\ req[r].pc = "name" /\ UNCHANGED <<tables, expired, faults, last>> /\ ~Live(r)
        /\ user' = user
    BY OAuthKnown DEF OAuthName, AInv, InsertInv, tables
  <1>1. PICK n \in IF Named(req[r].name) = {} THEN {req[r].name} ELSE Suffixed[req[r].name] :
          req' = [req EXCEPT ![r] = [req[r] EXCEPT !.pc = "create", !.made = n]]
    BY DEF OAuthName
  <1>2. n \in Names /\ (n = req[r].name => Named(n) = {})
    <2>1. req[r].name \in ProviderNames /\ req[r].name \in Names
      BY <1>0, OAuthKnown
    <2>2. Suffixed[req[r].name] \in SUBSET Names /\ req[r].name \notin Suffixed[req[r].name]
      BY <2>1, AccountsAssumption
    <2> QED
      BY <1>1, <2>1, <2>2
  <1> DEFINE q == [req[r] EXCEPT !.pc = "create", !.made = n]
  <1>3. q \in Request
    <2>1. req[r] \in Request
      BY <1>0, OAuthKnown
    <2>2. [req[r] EXCEPT !.pc = "create"] \in Request
      BY <2>1, Fields DEF Steps
    <2> QED
      BY <1>2, <2>2, Fields
  <1>4. /\ q.pc = "create" /\ q.identity = req[r].identity /\ q.name = req[r].name
        /\ q.email = req[r].email /\ q.res = req[r].res /\ q.made = n
    BY <1>0, OAuthKnown DEF Request
  <1> HIDE DEF q
  <1>5. req' \in [Reqs -> Request] /\ req'[r] = q /\ Others(r)
    BY <1>0, <1>1, <1>3, OAuthKnown DEF q, Others
  <1>6. \A m \in Names : HoldsName(r, m)' /\ ~Completes(r)' => Free(r, m)'
    BY <1>0, <1>2, <1>4, <1>5, OAuthKnown DEF HoldsName, Named, Live, Completes, Free
  <1>7. Sound(r)'
    BY <1>0, <1>2, <1>4, <1>5, <1>6, OAuthKnown DEF Sound, Live
  <1> QED
    BY <1>0, <1>5, <1>7, OAuthKnown, SameBounds, QuietStep

LEMMA OAuthCreateStep ==
  ASSUME AInv, Race, NEW r \in OAuthReqs, OAuthCreate(r)
  PROVE  AInv'
  <1>0. /\ req[r].pc = "create" /\ UNCHANGED <<recovery, account, expired, faults>> /\ ~Live(r)
        /\ req[r].made \in Names
    BY OAuthKnown DEF OAuthCreate, AInv, InsertInv, HandlersInv
  <1>1. CASE Refuse(r, "error") /\ UNCHANGED <<user, last>>
    BY <1>0, <1>1, OAuthKnown, SameBounds, RefusalStep DEF tables
  <1>2. CASE ~(Refuse(r, "error") /\ UNCHANGED <<user, last>>)
    <2> DEFINE row == ConfirmEmail(Created(req[r].made, req[r].email, None))
    <2>2. /\ row \in UserRow /\ row.st = "live" /\ row.name = req[r].made
      BY <1>0, OAuthKnown DEF ConfirmEmail, Created, UserRow
    <2> HIDE DEF row
    <2>3. Insert(r, row) /\ Goto(r, "findNew")
      BY <1>2 DEF OAuthCreate, row
    <2>4. HoldsName(r, row.name)
      BY <1>0, <2>2 DEF HoldsName
    <2>5. req'[r].pc = "findNew" /\ req'[r].made = req[r].made
      BY <1>0, <2>3, OAuthKnown, Going DEF Steps, Kept
    <2>6. \A n \in Names : HoldsName(r, n)' => n = row.name
      BY <1>0, <2>2, <2>5, OAuthKnown DEF HoldsName
    <2>7. row.name = req[r].name <=> ~Completes(r)
      BY <2>2 DEF Completes
    <2> QED
      BY <1>0, <2>2, <2>3, <2>4, <2>6, <2>7, OAuthKnown, InsertStep
  <1> QED
    BY <1>1, <1>2

\* The user found by the name is the new one, if nobody else may have it.
LEMMA OAuthFindNewStep ==
  ASSUME AInv, Race, NEW r \in OAuthReqs, OAuthFindNew(r)
  PROVE  AInv'
  <1>0. /\ req[r].pc = "findNew" /\ UNCHANGED <<tables, expired, faults, last>>
        /\ req[r].made \in Names
    BY OAuthKnown DEF OAuthFindNew, AInv, HandlersInv
  <1>1. CASE Refuse(r, "error")
    BY <1>0, <1>1, OAuthKnown, SameBounds, RefusalStep
  <1>2. ASSUME NEW u \in Named(req[r].name),
               req' = [req EXCEPT ![r] = [req[r] EXCEPT !.pc = "linkNew", !.user = u]]
        PROVE  AInv'
    <2> DEFINE q == [req[r] EXCEPT !.pc = "linkNew", !.user = u]
    <2>1. u \in Ids
      BY DEF Named
    <2>2. q \in Request
      <3>1. req[r] \in Request
        BY <1>0, OAuthKnown
      <3>2. [req[r] EXCEPT !.pc = "linkNew"] \in Request
        BY <3>1, Fields DEF Steps
      <3> QED
        BY <2>1, <3>2, Fields
    <2>3. /\ q.pc = "linkNew" /\ q.identity = req[r].identity /\ q.name = req[r].name
          /\ q.email = req[r].email /\ q.res = req[r].res /\ q.made = req[r].made /\ q.user = u
      BY <1>0, OAuthKnown DEF Request
    <2> HIDE DEF q
    <2>4. req' \in [Reqs -> Request] /\ req'[r] = q /\ Others(r)
      BY <1>0, <1>2, <2>2, OAuthKnown DEF q, Others
    <2>6. req[r].made = req[r].name /\ req[r].made \notin raced.names => u = r
      BY <1>0, OAuthKnown DEF AInv, NamesInv, HoldsName, Own, Free, Completes
    <2>7. Sound(r)'
      BY <1>0, <2>1, <2>3, <2>4, <2>6, OAuthKnown, RaceGrows DEF Sound, HoldsName
    <2> QED
      BY <1>0, <2>4, <2>7, OAuthKnown, SameBounds, QuietStep
  <1> QED
    BY <1>1, <1>2 DEF OAuthFindNew
-----------------------------------------------------------------------------
(* The handlers that read a user and save him later *)

\* What is known of such a handler.
LEMMA ReaderKnown ==
  ASSUME AInv, NEW r \in Reqs \ Ids, req[r].pc # "done"
  PROVE  /\ TypeOK /\ req \in [Reqs -> Request] /\ req[r] \in Request /\ req[r].res = "none"
         /\ user \in [Ids -> UserRow] /\ recovery \in [Ids -> Codes \cup {None}]
         /\ r \notin RegReqs /\ r \notin OAuthReqs
         /\ req[r].pc \in {"check", "save"} => req[r].user \in Ids /\ Live(req[r].user)
  BY Kinds DEF AInv, TypeOK, HandlersInv

LEMMA ConfirmStep ==
  ASSUME AInv, Race, NEW r \in ConfirmReqs, ConfirmCode(r) \/ ResendCode(r)
  PROVE  AInv'
  <1>1. /\ r \in Reqs \ Ids /\ req[r].pc # "done" /\ UNCHANGED <<tables, expired, faults, last>>
        /\ \E res \in Refusals : Refuse(r, res)
    BY Kinds DEF ConfirmCode, ResendCode, Refusals
  <1> QED
    BY <1>1, ReaderKnown, SameBounds, RefusalStep

\* Reading a user: the handler holds what his row holds.
LEMMA ReadStep ==
  ASSUME AInv, Race, NEW r \in Reqs \ Ids, req[r].pc = "start", NEW u \in Ids, Live(u),
         NEW pc \in {"check", "save"}, NEW n \in Names \cup {None}, NEW c \in Codes \cup {None},
         Read(r, u, pc, n, c), UNCHANGED <<tables, expired, faults, last>>,
         r \in RenameReqs => n \in Names /\ n # user[u].name /\ pc = "check",
         r \in PasswordReqs => c \in Codes /\ HasCode(u, c)
  PROVE  AInv'
  <1>0. pc \in Steps /\ user' = user /\ recovery' = recovery
    BY DEF Steps, tables
  <1>1. /\ req' \in [Reqs -> Request] /\ Others(r) /\ req'[r].pc = pc
        /\ req'[r].user = u /\ req'[r].pwd = user[u].pwd /\ req'[r].name = n
        /\ req'[r].code = c /\ req'[r].res = "none"
    <2>1. TypeOK /\ r \in Reqs /\ req[r].res = "none"
      BY ReaderKnown
    <2>2. Read(r, u, pc, n, c)
      OBVIOUS
    <2> QED
      BY <1>0, <2>1, <2>2, Reading
  <1>2. r \in PasswordReqs => req[c].res = "ok" /\ req[c].user = u /\ c # r /\ c \in Reqs
    BY ReaderKnown, Kinds DEF AInv, CodesInv, HasCode
  <1>3. \A m \in Names : ~HoldsName(r, m)'
    BY <1>1, ReaderKnown DEF HoldsName
  <1>5. r \in RenameReqs => last[u].made # n
    BY Kinds DEF AInv, NamesInv
  <1>4. Sound(r)'
    BY <1>0, <1>1, <1>2, <1>3, <1>5, ReaderKnown DEF Sound, Live, HasCode, Others
  <1> QED
    BY <1>1, <1>4, ReaderKnown, SameBounds, QuietStep

LEMMA FindSteps ==
  ASSUME AInv, Race
  PROVE  /\ \A r \in RecoverReqs : RecoverFind(r) \/ CaptchaRefused(r) => AInv'
         /\ \A r \in PasswordReqs : PasswordFind(r) => AInv'
         /\ \A r \in RenameReqs, u \in Ids, n \in Names : RenameStart(r, u, n) => AInv'
  <1>a. \A x \in {"notFound", "captcha", "incorrect", "same"} : x \in Refusals
    BY DEF Refusals
  <1>0. ASSUME NEW r \in Reqs \ Ids, NEW res \in Refusals, Refuse(r, res), req[r].pc = "start",
               UNCHANGED <<tables, expired, faults, last>>
        PROVE  AInv'
    BY <1>0, ReaderKnown, SameBounds, RefusalStep
  <1>1. ASSUME NEW r \in RecoverReqs, RecoverFind(r) \/ CaptchaRefused(r) PROVE AInv'
    <2>1. /\ r \in Reqs \ Ids /\ r \notin PasswordReqs /\ r \notin RenameReqs
          /\ req[r].pc = "start" /\ UNCHANGED <<tables, expired, faults, last>>
      BY <1>1, Kinds DEF RecoverFind, CaptchaRefused
    <2>2. ASSUME NEW e \in Emails, NEW u \in WithEmail(e), Read(r, u, "save", None, None)
          PROVE  AInv'
      BY <2>1, <2>2, ReadStep DEF WithEmail
    <2> QED
      BY <1>a, <1>0, <1>1, <2>1, <2>2 DEF RecoverFind, CaptchaRefused
  <1>2. ASSUME NEW r \in PasswordReqs, PasswordFind(r) PROVE AInv'
    <2>1. /\ r \in Reqs \ Ids /\ r \notin RenameReqs
          /\ req[r].pc = "start" /\ UNCHANGED <<tables, expired, faults, last>>
      BY <1>2, Kinds DEF PasswordFind
    <2>2. ASSUME NEW c \in Codes, NEW u \in Ids, HasCode(u, c), Read(r, u, "save", None, c)
          PROVE  AInv'
      <3>1. Live(u)
        BY <2>2, Kinds DEF AInv, CodesInv, HasCode
      <3> QED
        BY <2>1, <2>2, <3>1, ReadStep
    <2> QED
      BY <1>a, <1>0, <1>2, <2>1, <2>2 DEF PasswordFind
  <1>3. ASSUME NEW r \in RenameReqs, NEW u \in Ids, NEW n \in Names, RenameStart(r, u, n)
        PROVE  AInv'
    <2>1. /\ r \in Reqs \ Ids /\ r \notin PasswordReqs /\ Live(u)
          /\ req[r].pc = "start" /\ UNCHANGED <<tables, expired, faults, last>>
      BY <1>3, Kinds DEF RenameStart
    <2>2. CASE Read(r, u, "check", n, None) /\ user[u].name # n
      BY <2>1, <2>2, ReadStep
    <2> QED
      BY <1>a, <1>0, <1>3, <2>1, <2>2 DEF RenameStart
  <1> QED
    BY <1>1, <1>2, <1>3

LEMMA RenameCheckStep ==
  ASSUME AInv, Race, NEW r \in RenameReqs, RenameCheck(r)
  PROVE  AInv'
  <1>0. /\ r \in Reqs \ Ids /\ r \notin PasswordReqs /\ req[r].pc = "check"
        /\ UNCHANGED <<tables, expired, faults, last>> /\ user' = user
        /\ "taken" \in Refusals /\ "save" \in Steps
    BY Kinds DEF RenameCheck, Refusals, Steps, tables
  <1>1. CASE Refuse(r, "taken")
    BY <1>0, <1>1, ReaderKnown, SameBounds, RefusalStep
  <1>2. CASE /\ req[r].user \in Named(req[r].name) \/ Named(req[r].name) = {}
             /\ ~Refuse(r, "taken") /\ Goto(r, "save")
    <2>1. req' \in [Reqs -> Request] /\ Others(r) /\ req'[r].pc = "save" /\ Kept(r)
      BY <1>0, <1>2, ReaderKnown, Going
    <2>6. req[r].name \in Names /\ last[req[r].user].made # req[r].name
      BY <1>0 DEF AInv, HandlersInv, NamesInv
    <2>2. ASSUME NEW v \in Named(req[r].name), v # req[r].user
          PROVE  last[v].made = req[r].name \/ req[r].name \in raced.names
      <3>1. req[r].user \in Named(req[r].name)
        BY <1>2, <2>2
      <3> QED
        BY <2>2, <2>6, <3>1 DEF AInv, NamesInv, NamesDiffer, Named
    <2>3. \A n \in Names \ raced'.names : HoldsName(r, n)' => Free(r, n)'
      BY <1>0, <2>1, <2>2, ReaderKnown, RaceGrows DEF HoldsName, Kept, Named, Live, Own, Free
    <2>4. HoldsUser(r, req[r].user)
      BY <1>0 DEF HoldsUser
    <2>5. req[r].user \notin raced'.users => req[r].pwd = user[req[r].user].pwd
      BY <1>0, <2>4, ReaderKnown, RaceGrows DEF AInv, UsersInv
    <2>7. Sound(r)'
      BY <1>0, <2>1, <2>3, <2>5, <2>6, ReaderKnown DEF Sound, Kept, Live
    <2> QED
      BY <1>0, <2>1, <2>7, ReaderKnown, SameBounds, QuietStep
  <1> QED
    BY <1>1, <1>2 DEF RenameCheck

\* Saving the user a handler has read.  Other handlers that hold him are
\* excused; a new password comes with his code, a new name was found free.
Saves(r, u) ==
  /\ req[r].pc = "save" /\ req[r].user = u /\ Answer(r, "ok")
  /\ UNCHANGED <<account, expired, faults>>
  /\ user' \in [Ids -> UserRow] /\ recovery' \in [Ids -> Codes \cup {None}]
  /\ last' \in [Ids -> Histories]
  /\ \A v \in Ids : v # u => /\ user'[v] = user[v] /\ recovery'[v] = recovery[v]
                            /\ last'[v] = last[v]
  /\ user'[u].st = user[u].st /\ user'[u].email = user[u].email
  /\ \/ user'[u].name = user[u].name /\ last'[u].made = last[u].made /\ r \notin RenameReqs
     \/ r \in RenameReqs /\ user'[u].name = req[r].name /\ last'[u].made = None
  /\ u \notin raced.users => user'[u].pwd = last'[u].pwd
  /\ recovery'[u] = None \/ (r \in RecoverReqs /\ recovery'[u] = r)
  /\ \/ u \in raced.users
     \/ recovery'[u] = IF last'[u].renamed THEN None ELSE last'[u].code

LEMMA SaveStep ==
  ASSUME AInv, Race, NEW r \in Reqs \ Ids, NEW u \in Ids, Saves(r, u)
  PROVE  AInv'
  <1> USE DEF Saves
  <1>0. /\ TypeOK /\ req \in [Reqs -> Request] /\ req[r].res = "none" /\ r \notin Ids
        /\ account' = account /\ faults' = faults
        /\ HoldsUser(r, u) /\ Live(u) /\ r \in Reqs
    BY ReaderKnown DEF AInv, HoldsUser
  <1>1. /\ req' \in [Reqs -> Request] /\ Others(r) /\ req'[r].pc = "done" /\ req'[r].res = "ok"
        /\ req'[r].user = u /\ req'[r].code = req[r].code
    BY <1>0, Answering
  <1>a. \A s \in Reqs : s # r => req'[s] = req[s]
    BY <1>1 DEF Others
  <1>2. /\ \A v \in Ids : (Live(v)' <=> Live(v)) /\ user'[v].email = user[v].email
        /\ Live(u)'
    BY <1>0 DEF Live
  <1>3. TypeOK'
    BY <1>0, <1>1, RaceGrows DEF TypeOK, Histories
  <1>4. HandlersInv'
    <2>1. \A q \in Ids : req'[q] = req[q]
      BY <1>0, <1>a, Kinds
    <2>2. \A q \in Reqs : req'[q].pc # "done" => req'[q].res = "none"
      BY <1>1, <1>a DEF AInv, HandlersInv
    <2>3. \A q \in RenameReqs : req'[q].pc \in {"check", "save"} => req'[q].name \in Names
      BY <1>1, <1>a, Kinds DEF AInv, HandlersInv
    <2>4. \A q \in Reqs \ Ids : req'[q].pc \in {"check", "save"} =>
             req'[q].user \in Ids /\ Live(req'[q].user)
      BY <1>1, <1>a DEF AInv, HandlersInv
    <2>5. \A q \in Reqs \ Ids : req'[q].pc \in {"check", "save"} =>
             req'[q].user \in Ids /\ user'[req'[q].user].st = "live"
      BY <1>0, <2>4 DEF Live
    <2> QED
      BY <2>1, <2>2, <2>3, <2>5, Kinds DEF AInv, HandlersInv, Live
  <1>5. InsertInv'
    <2>1. \A q \in Ids : req'[q] = req[q]
      BY <1>0, <1>a, Kinds
    <2> QED
      BY <1>0, <1>2, <2>1, Kinds DEF AInv, InsertInv, RegistrationTold, Live
  <1>6. LoginsInv'
    <2>1. \A s \in OAuthReqs : req'[s] = req[s]
      BY <1>0, <1>a, Kinds
    <2>2. \A s \in OAuthReqs : req[s].user \in Ids /\ Matches(s) => Matches(s)'
      BY <1>2, <2>1 DEF Matches
    <2>3. \A s \in OAuthReqs :
            /\ req[s].pc \in {"account", "link"} /\ req[s].user # None => req[s].user \in Ids
            /\ req[s].res = "ok" => req[s].user \in Ids
      BY <1>0, Kinds DEF AInv, TypeOK, Request, HandlersInv
    <2> QED
      BY <1>0, <2>1, <2>2, <2>3 DEF AInv, LoginsInv
  <1>7. NamesInv'
    <2> DEFINE old == user[u].name
    <2>1. \A s \in Reqs, n \in Names : HoldsName(s, n)' => HoldsName(s, n) /\ s # r
      BY <1>0, <1>1, <1>a DEF HoldsName
    <2>2. \A s \in Reqs : s # r => Own(s)' = Own(s)
      BY <1>a DEF Own
    <2>3. \A n : \/ Named(n)' \subseteq Named(n)
                 \/ /\ HoldsName(r, n) /\ r \in RenameReqs /\ n \in Names
                    /\ Named(n)' \subseteq Named(n) \cup {u}
      <3>1. CASE user'[u].name = user[u].name
        <4>1. \A v \in Ids : user'[v].name = user[v].name
          BY <3>1
        <4> QED
          BY <1>2, <4>1 DEF Named
      <3>2. CASE r \in RenameReqs /\ user'[u].name = req[r].name
        <4>1. HoldsName(r, req[r].name) /\ req[r].name \in Names
          BY <1>0, <3>2 DEF HoldsName, AInv, HandlersInv
        <4>2. \A n, v : v \in Named(n)' /\ v \notin Named(n) => v = u /\ n = user'[u].name
          BY <1>2 DEF Named
        <4>3. ASSUME NEW n PROVE n = user'[u].name \/ Named(n)' \subseteq Named(n)
          BY <4>2
        <4>4. ASSUME NEW n, n = user'[u].name PROVE Named(n)' \subseteq Named(n) \cup {u}
          BY <4>2
        <4> QED
          BY <3>2, <4>1, <4>3, <4>4
      <3> QED
        BY <3>1, <3>2
    <2>4. ASSUME NEW s \in Reqs, NEW n \in Names \ raced'.names,
                 HoldsName(s, n)', ~Completes(s)'
          PROVE  Free(s, n)'
      <3>1. HoldsName(s, n) /\ s # r /\ n \notin raced.names
        BY <1>0, <2>1, <2>4, RaceGrows
      <3>2. ~HoldsName(r, n)
        BY <1>0, <3>1 DEF AInv, NamesInv
      <3>3. Free(s, n)
        BY <1>a, <2>4, <3>1 DEF AInv, NamesInv, Completes
      <3>4. Named(n)' \subseteq Named(n)
        BY <2>3, <3>2
      <3>5. \A v \in Named(n)' : last'[v].made = last[v].made
        <4>1. \A v \in Ids : v # u => last'[v].made = last[v].made
          OBVIOUS
        <4>2. u \in Named(n)' => last'[u].made = last[u].made
          <5>1. user'[u].name # n \/ r \notin RenameReqs
            BY <1>0, <3>2 DEF HoldsName
          <5> QED
            BY <5>1 DEF Named
        <4> QED
          BY <4>1, <4>2 DEF Named
      <3> QED
        BY <2>2, <3>1, <3>3, <3>4, <3>5 DEF Free
    <2>5. NamesDiffer'
      <3>1. ASSUME NEW v \in Ids, NEW w \in Ids, v # w, Live(v)', Live(w)',
                   NEW n, user'[v].name = n, user'[w].name = n,
                   n \notin raced'.names \cup {last'[v].made, last'[w].made}
            PROVE  FALSE
        <4>1. /\ v \in Named(n)' /\ w \in Named(n)' /\ n \notin raced.names
              /\ last'[v].made # n /\ last'[w].made # n
          BY <1>0, <3>1, RaceGrows DEF Named
        <4>2. CASE r \notin RenameReqs
          <5>1. \A x \in Ids : user'[x].name = user[x].name /\ last'[x].made = last[x].made
            BY <4>2
          <5> QED
            BY <1>2, <3>1, <4>1, <5>1 DEF AInv, NamesInv, NamesDiffer, Named
        <4>3. CASE r \in RenameReqs /\ v # u /\ w # u
          BY <1>2, <3>1, <4>1, <4>3 DEF AInv, NamesInv, NamesDiffer, Named
        <4>4. ASSUME r \in RenameReqs, NEW x \in Ids, x # u, x \in Named(n)', u \in Named(n)',
                     last'[x].made # n
              PROVE  FALSE
          <5>1. HoldsName(r, n) /\ n \in Names
            BY <1>0, <4>4 DEF HoldsName, Named, AInv, HandlersInv
          <5>2. Free(r, n)
            BY <1>0, <4>1, <4>4, <5>1, Kinds DEF AInv, NamesInv, Completes
          <5>3. x \in Named(n) /\ last[x].made # n /\ x # Own(r)
            BY <1>0, <1>2, <4>4 DEF Named, Own
          <5> QED
            BY <5>2, <5>3 DEF Free
        <4> QED
          BY <3>1, <4>1, <4>2, <4>3, <4>4
      <3> QED
        BY <3>1 DEF NamesDiffer
    <2>6. LinksTheNewUser'
      BY <1>0, <1>a, RaceGrows, Kinds DEF AInv, NamesInv, LinksTheNewUser
    <2>7. \A v \in Ids : last'[v].made \in {None, user'[v].name}
      BY DEF AInv, NamesInv
    <2>8. ASSUME NEW s \in RenameReqs, req'[s].pc \in {"check", "save"}
          PROVE  last'[req'[s].user].made # req'[s].name
      <3>1. s # r /\ req'[s] = req[s]
        BY <1>1, <1>a, <2>8, Kinds
      <3>2. req[s].name \in Names /\ req[s].user \in Ids
        BY <2>8, <3>1, Kinds DEF AInv, HandlersInv
      <3>3. last'[req[s].user].made \in {None, last[req[s].user].made}
        BY <3>2
      <3> QED
        BY <2>8, <3>1, <3>2, <3>3, Kinds DEF AInv, NamesInv
    <2> QED
      BY <1>0, <2>4, <2>5, <2>6, <2>7, <2>8, RaceGrows DEF NamesInv
  <1>8. UsersInv'
    <2>1. \A s \in Reqs, v \in Ids : HoldsUser(s, v)' =>
             HoldsUser(s, v) /\ s # r /\ req'[s] = req[s]
      BY <1>0, <1>1, <1>a DEF HoldsUser
    <2>2. \A s \in Reqs, v \in Ids \ raced'.users : HoldsUser(s, v)' => v # u
      BY <1>0, <2>1, RaceGrows DEF AInv, UsersInv
    <2>3. \A v \in Ids \ raced'.users : user'[v].pwd = last'[v].pwd
      BY <1>0, RaceGrows DEF AInv, UsersInv
    <2>4. \A v \in Ids : ~Live(v)' => last'[v].pwd = None
      BY <1>2 DEF AInv, UsersInv
    <2> QED
      BY <1>0, <2>1, <2>2, <2>3, <2>4, RaceGrows DEF AInv, UsersInv
  <1>9. CodesInv'
    <2>1. \A s \in Reqs : req[s].res = "ok" => s # r /\ req'[s] = req[s]
      BY <1>0, <1>a
    <2>2. \A v \in Ids : recovery'[v] # None =>
             Live(v)' /\ req'[recovery'[v]].res = "ok" /\ req'[recovery'[v]].user = v
      BY <1>0, <1>1, <1>2, <2>1, Kinds DEF AInv, CodesInv, TypeOK
    <2>3. ASSUME NEW s \in PasswordReqs, req'[s].pc = "save" \/ req'[s].res = "ok"
          PROVE  /\ req'[s].code \in Codes
                 /\ req'[req'[s].code].res = "ok" /\ req'[req'[s].code].user = req'[s].user
                 /\ req'[s].code = req[s].code /\ req'[s].user = req[s].user
                 /\ req[s].code \in Codes /\ req[req[s].code].res = "ok"
                 /\ req[req[s].code].user = req[s].user
      <3>1. /\ req[s].pc = "save" \/ req[s].res = "ok"
            /\ req'[s].code = req[s].code /\ req'[s].user = req[s].user
        BY <1>0, <1>1, <1>a, <2>3, Kinds
      <3>2. /\ req[s].code \in Codes /\ req[req[s].code].res = "ok"
            /\ req[req[s].code].user = req[s].user
        BY <3>1 DEF AInv, CodesInv
      <3> QED
        BY <2>1, <3>1, <3>2, Kinds
    <2>4. ASSUME NEW s \in PasswordReqs, NEW v \in Ids \ raced'.users,
                 req'[s].res = "ok", req'[s].user = v
          PROVE  recovery'[v] # req'[s].code
      <3>1. req'[s].code \in Codes /\ req[req'[s].code].res = "ok" /\ v \notin raced.users
        BY <1>0, <2>3, <2>4, RaceGrows
      <3>2. CASE v = u
        BY <1>0, <3>1, <3>2, Kinds
      <3>3. CASE v # u
        BY <1>0, <1>1, <1>a, <2>4, <3>1, <3>3, Kinds DEF AInv, CodesInv
      <3> QED
        BY <3>2, <3>3
    <2>5. CodeIsLast'
      <3>1. ASSUME NEW v \in Ids \ raced'.users
            PROVE  recovery'[v] = IF last'[v].renamed THEN None ELSE last'[v].code
        <4>1. v \notin raced.users
          BY <1>0, RaceGrows
        <4> QED
          BY <4>1 DEF AInv, CodesInv, CodeIsLast
      <3> QED
        BY <3>1 DEF CodeIsLast
    <2>6. CodeWorksOnce'
      <3> SUFFICES ASSUME NEW s \in PasswordReqs, NEW t \in PasswordReqs, s # t,
                          req'[s].res = "ok", req'[t].res = "ok", req'[s].code = req'[t].code
                   PROVE  req'[s].user \in raced'.users
        BY DEF CodeWorksOnce
      <3>1. /\ req'[s].user = req'[t].user /\ req'[s].user = req[s].user
            /\ req'[t].user = req[t].user /\ req[s].code = req[t].code
        BY <2>3
      <3>2. ASSUME NEW q \in PasswordReqs, q # r, r \in PasswordReqs, req'[q].res = "ok",
                   req[q].code = req[r].code, req[q].user = u
            PROVE  u \in raced.users
        <4>1. req[q].res = "ok"
          BY <1>a, <3>2, Kinds
        <4> QED
          BY <1>0, <3>2, <4>1 DEF AInv, CodesInv, UsersInv
      <3>3. CASE s = r
        <4>1. req[t].user = u /\ req'[s].user = u /\ t # r /\ req[t].code = req[r].code
          BY <1>1, <3>1, <3>3
        <4>2. u \in raced.users
          BY <3>2, <3>3, <4>1
        <4> QED
          BY <1>0, <4>1, <4>2, RaceGrows
      <3>5. CASE t = r
        <4>1. req[s].user = u /\ req'[s].user = u /\ s # r /\ req[s].code = req[r].code
          BY <1>1, <3>1, <3>5
        <4>2. u \in raced.users
          BY <3>2, <3>5, <4>1
        <4> QED
          BY <1>0, <4>1, <4>2, RaceGrows
      <3>4. CASE s # r /\ t # r
        <4>1. req[s].res = "ok" /\ req[t].res = "ok"
          BY <1>a, <3>4, Kinds
        <4> QED
          BY <1>0, <3>1, <4>1, RaceGrows DEF AInv, CodesInv, CodeWorksOnce
      <3> QED
        BY <3>3, <3>4, <3>5
    <2> QED
      BY <2>2, <2>3, <2>4, <2>5, <2>6 DEF CodesInv
  <1> QED
    BY <1>3, <1>4, <1>5, <1>6, <1>7, <1>8, <1>9 DEF AInv

LEMMA Rows ==
  ASSUME NEW row \in UserRow, NEW p \in Passwords \cup {None}, NEW n \in Names
  PROVE  /\ [row EXCEPT !.pwd = p] \in UserRow /\ [row EXCEPT !.name = n] \in UserRow
         /\ [row EXCEPT !.pwd = p].pwd = p /\ [row EXCEPT !.pwd = p].name = row.name
         /\ [row EXCEPT !.pwd = p].st = row.st /\ [row EXCEPT !.pwd = p].email = row.email
         /\ [row EXCEPT !.name = n].name = n /\ [row EXCEPT !.name = n].st = row.st
         /\ [row EXCEPT !.name = n].email = row.email
  BY DEF UserRow

\* The password of a user and his code are written.
LEMMA Recovers ==
  ASSUME NEW u \in Ids, NEW p \in Passwords \cup {None}, NEW c \in Codes \cup {None},
         user \in [Ids -> UserRow], recovery \in [Ids -> Codes \cup {None}],
         UpdateOrCreateRecovery(u, p, c)
  PROVE  /\ user' \in [Ids -> UserRow] /\ recovery' \in [Ids -> Codes \cup {None}]
         /\ \A v \in Ids : v # u => user'[v] = user[v] /\ recovery'[v] = recovery[v]
         /\ user'[u].st = user[u].st /\ user'[u].email = user[u].email
         /\ user'[u].name = user[u].name /\ user'[u].pwd = p /\ recovery'[u] = c
  <1> DEFINE row == [user[u] EXCEPT !.pwd = p]
  <1>1. user[u] \in UserRow
    OBVIOUS
  <1>2. /\ row \in UserRow /\ row.st = user[u].st /\ row.email = user[u].email
        /\ row.name = user[u].name /\ row.pwd = p
    BY <1>1 DEF UserRow
  <1>3. user' = [user EXCEPT ![u] = row] /\ recovery' = [recovery EXCEPT ![u] = c]
    BY DEF UpdateOrCreateRecovery
  <1> HIDE DEF row
  <1> QED
    BY <1>2, <1>3

LEMMA RecoverSaveStep ==
  ASSUME AInv, Race, NEW r \in RecoverReqs, RecoverSave(r)
  PROVE  AInv'
  <1> DEFINE u == req[r].user
  <1>0. /\ r \in Reqs \ Ids /\ req[r].pc = "save" /\ UNCHANGED <<account, expired>>
        /\ "error" \in Refusals /\ r \in Codes /\ r \notin PasswordReqs
    BY Kinds DEF RecoverSave, Refusals
  <1>1. /\ u \in Ids /\ HoldsUser(r, u) /\ TypeOK
        /\ last \in [Ids -> Histories] /\ req[r].pwd \in Passwords \cup {None}
    BY <1>0, ReaderKnown DEF HoldsUser, TypeOK, Request, Histories
  <1>2. CASE Fail /\ Refuse(r, "error") /\ UNCHANGED <<user, recovery, last>>
    BY <1>0, <1>1, <1>2, ReaderKnown, FailBounds, RefusalStep DEF tables
  <1>3. CASE /\ UpdateOrCreateRecovery(u, req[r].pwd, r)
             /\ last' = [last EXCEPT ![u].code = r, ![u].renamed = FALSE]
             /\ Answer(r, "ok") /\ UNCHANGED faults
    <2>2. /\ user' \in [Ids -> UserRow] /\ recovery' \in [Ids -> Codes \cup {None}]
          /\ \A v \in Ids : v # u => user'[v] = user[v] /\ recovery'[v] = recovery[v]
          /\ user'[u].st = user[u].st /\ user'[u].email = user[u].email
          /\ user'[u].name = user[u].name /\ user'[u].pwd = req[r].pwd /\ recovery'[u] = r
      <3>1. user \in [Ids -> UserRow] /\ recovery \in [Ids -> Codes \cup {None}]
        BY <1>0, ReaderKnown
      <3> DEFINE p == req[r].pwd
      <3>2. /\ u \in Ids /\ p \in Passwords \cup {None} /\ r \in Codes \cup {None}
            /\ UpdateOrCreateRecovery(u, p, r)
        BY <1>0, <1>1, <1>3
      <3> HIDE DEF u, p
      <3>3. /\ user' \in [Ids -> UserRow] /\ recovery' \in [Ids -> Codes \cup {None}]
            /\ \A v \in Ids : v # u => user'[v] = user[v] /\ recovery'[v] = recovery[v]
            /\ user'[u].st = user[u].st /\ user'[u].email = user[u].email
            /\ user'[u].name = user[u].name /\ user'[u].pwd = p /\ recovery'[u] = r
        BY <3>1, <3>2, Recovers
      <3> QED
        BY <3>3 DEF p
    <2>3. /\ last' \in [Ids -> Histories]
          /\ \A v \in Ids : v # u => last'[v] = last[v]
          /\ last'[u].code = r /\ last'[u].pwd = last[u].pwd
          /\ ~last'[u].renamed /\ last'[u].made = last[u].made
      <3> DEFINE h == [[last[u] EXCEPT !.code = r] EXCEPT !.renamed = FALSE]
      <3>1. last' = [last EXCEPT ![u] = h]
        BY <1>1, <1>3
      <3>2. /\ h \in Histories /\ h.code = r /\ h.pwd = last[u].pwd /\ h.renamed = FALSE
            /\ h.made = last[u].made
        BY <1>0, <1>1 DEF Histories
      <3> HIDE DEF h, u
      <3> QED
        BY <1>1, <3>1, <3>2
    <2>5. u \notin raced.users => user'[u].pwd = last'[u].pwd
      BY <1>0, <1>1, <2>2, <2>3 DEF AInv, UsersInv
    <2> HIDE DEF u
    <2> QED
      <3>1. Saves(r, u)
        BY <1>0, <1>1, <1>3, <2>2, <2>3, <2>5, Kinds DEF u, Saves
      <3> QED
        BY <1>0, <1>1, <3>1, SaveStep
  <1> QED
    BY <1>2, <1>3 DEF RecoverSave

LEMMA PasswordSaveStep ==
  ASSUME AInv, Race, NEW r \in PasswordReqs, PasswordSave(r)
  PROVE  AInv'
  <1> DEFINE u == req[r].user
  <1>0. /\ r \in Reqs \ Ids /\ req[r].pc = "save" /\ UNCHANGED <<account, expired>>
        /\ "error" \in Refusals /\ r \in Passwords /\ r \notin RecoverReqs
    BY Kinds DEF PasswordSave, Refusals, Passwords
  <1>1. /\ u \in Ids /\ HoldsUser(r, u) /\ TypeOK
        /\ last \in [Ids -> Histories]
    BY <1>0, ReaderKnown DEF HoldsUser, TypeOK, Request, Histories
  <1>2. CASE /\ Refuse(r, "error") /\ UNCHANGED <<user, recovery, last>>
             /\ Fail \/ UNCHANGED faults
    BY <1>0, <1>1, <1>2, ReaderKnown, FailBounds, SameBounds, RefusalStep DEF tables
  <1>3. CASE /\ UpdatePassword(r)
             /\ last' = [last EXCEPT ![u].pwd = r,
                      ![u].code = IF last[u].code = req[r].code THEN None ELSE last[u].code]
             /\ Answer(r, "ok") /\ UNCHANGED faults
    <2>2. /\ user' \in [Ids -> UserRow] /\ recovery' \in [Ids -> Codes \cup {None}]
          /\ \A v \in Ids : v # u => user'[v] = user[v] /\ recovery'[v] = recovery[v]
          /\ user'[u].st = user[u].st /\ user'[u].email = user[u].email
          /\ user'[u].name = user[u].name /\ user'[u].pwd = r /\ recovery'[u] = None
      BY <1>0, <1>1, <1>3, ReaderKnown, Recovers DEF UpdatePassword
    <2>4. /\ last' \in [Ids -> Histories]
          /\ \A v \in Ids : v # u => last'[v] = last[v]
          /\ last'[u].pwd = r
          /\ last'[u].code = IF last[u].code = req[r].code THEN None ELSE last[u].code
          /\ last'[u].renamed = last[u].renamed /\ last'[u].made = last[u].made
      <3> DEFINE c == IF last[u].code = req[r].code THEN None ELSE last[u].code
                 h == [[last[u] EXCEPT !.pwd = r] EXCEPT !.code = c]
      <3>1. c \in Codes \cup {None}
        BY <1>1 DEF Histories
      <3>2. last' = [last EXCEPT ![u] = h]
        BY <1>1, <1>3
      <3> HIDE DEF c
      <3>3. /\ h \in Histories /\ h.code = c /\ h.pwd = r /\ h.renamed = last[u].renamed
            /\ h.made = last[u].made
        BY <1>0, <1>1, <3>1 DEF Histories
      <3> HIDE DEF h, u
      <3> QED
        BY <1>1, <3>2, <3>3 DEF c
    <2>7. \/ u \in raced.users
          \/ recovery'[u] = IF last'[u].renamed THEN None ELSE last'[u].code
      <3>1. u \notin raced.users => recovery[u] = req[r].code
        BY <1>0, <1>1 DEF AInv, UsersInv
      <3>2. req[r].code # None
        BY <1>0, Kinds DEF AInv, CodesInv
      <3> QED
        BY <1>1, <2>2, <2>4, <3>1, <3>2 DEF AInv, CodesInv, CodeIsLast
    <2>8. Answer(r, "ok") /\ UNCHANGED <<account, expired, faults>> /\ req[r].user = u
      BY <1>0, <1>3
    <2>9. /\ u \in Ids /\ r \in Reqs \ Ids /\ req[r].pc = "save"
          /\ \A v \in Ids : v # u => /\ user'[v] = user[v] /\ recovery'[v] = recovery[v]
                                    /\ last'[v] = last[v]
          /\ user'[u].pwd = last'[u].pwd /\ r \notin RenameReqs
      BY <1>0, <1>1, <2>2, <2>4, Kinds
    <2> HIDE DEF u
    <2> QED
      <3>1. Saves(r, u)
        BY <2>2, <2>4, <2>7, <2>8, <2>9 DEF Saves
      <3> QED
        BY <1>0, <1>1, <3>1, SaveStep
  <1> QED
    BY <1>2, <1>3 DEF PasswordSave

LEMMA RenameSaveStep ==
  ASSUME AInv, Race, NEW r \in RenameReqs, RenameSave(r)
  PROVE  AInv'
  <1> DEFINE u == req[r].user
  <1>0. /\ r \in Reqs \ Ids /\ req[r].pc = "save" /\ UNCHANGED <<account, expired>>
        /\ "error" \in Refusals /\ r \notin RecoverReqs /\ r \notin PasswordReqs
    BY Kinds DEF RenameSave, Refusals
  <1>1. /\ u \in Ids /\ HoldsUser(r, u) /\ TypeOK
        /\ last \in [Ids -> Histories]
        /\ req[r].pwd \in Passwords \cup {None} /\ req[r].name \in Names
    BY <1>0, ReaderKnown DEF HoldsUser, TypeOK, Request, AInv, HandlersInv, Histories
  <1>2. CASE Fail /\ Refuse(r, "error") /\ UNCHANGED <<user, recovery, last>>
    BY <1>0, <1>1, <1>2, ReaderKnown, FailBounds, RefusalStep DEF tables
  <1>3. CASE /\ Update(u, req[r].name, req[r].pwd) /\ Answer(r, "ok") /\ UNCHANGED faults
             /\ last' = [last EXCEPT ![u].renamed = TRUE, ![u].made = None]
    <2> DEFINE row == [[user[u] EXCEPT !.name = req[r].name] EXCEPT !.pwd = req[r].pwd]
    <2>1. user[u] \in UserRow /\ req[r].name \in Names
      BY <1>0, <1>1, ReaderKnown
    <2>2. /\ row \in UserRow /\ row.st = user[u].st /\ row.email = user[u].email
          /\ row.name = req[r].name /\ row.pwd = req[r].pwd
      <3> DEFINE named == [user[u] EXCEPT !.name = req[r].name]
      <3>1. /\ named \in UserRow /\ named.name = req[r].name /\ named.st = user[u].st
            /\ named.email = user[u].email
        BY <1>1, <2>1, Rows
      <3>2. row = [named EXCEPT !.pwd = req[r].pwd]
        OBVIOUS
      <3> HIDE DEF named, row
      <3> QED
        BY <1>1, <2>1, <3>1, <3>2, Rows
    <2>3. user' = [user EXCEPT ![u] = row] /\ recovery' = [recovery EXCEPT ![u] = None]
      <3>1. user' = [user EXCEPT ![u].name = req[r].name, ![u].pwd = req[r].pwd]
        BY <1>3 DEF Update
      <3> QED
        BY <1>0, <1>1, <1>3, <3>1, ReaderKnown DEF Update
    <2> HIDE DEF row
    <2>4. /\ user' \in [Ids -> UserRow] /\ recovery' \in [Ids -> Codes \cup {None}]
          /\ user'[u] = row /\ recovery'[u] = None
          /\ \A v \in Ids : v # u => user'[v] = user[v] /\ recovery'[v] = recovery[v]
      BY <1>0, <1>1, <2>2, <2>3, ReaderKnown
    <2>8. /\ last' \in [Ids -> Histories] /\ \A v \in Ids : v # u => last'[v] = last[v]
          /\ last'[u].pwd = last[u].pwd /\ last'[u].renamed /\ last'[u].made = None
      <3> DEFINE h == [[last[u] EXCEPT !.renamed = TRUE] EXCEPT !.made = None]
      <3>1. last' = [last EXCEPT ![u] = h]
        BY <1>1, <1>3
      <3>2. h \in Histories /\ h.pwd = last[u].pwd /\ h.renamed = TRUE /\ h.made = None
        BY <1>1 DEF Histories
      <3> HIDE DEF h, u
      <3> QED
        BY <1>1, <3>1, <3>2
    <2>5. u \notin raced.users => row.pwd = last'[u].pwd
      BY <1>0, <1>1, <2>2, <2>8 DEF AInv, UsersInv
    <2>6. Answer(r, "ok") /\ UNCHANGED <<account, expired, faults>> /\ req[r].user = u
      BY <1>0, <1>3
    <2>7. /\ u \in Ids /\ r \in Reqs \ Ids /\ req[r].pc = "save" /\ r \in RenameReqs
          /\ last' \in [Ids -> Histories] /\ last'[u].renamed /\ last'[u].made = None
          /\ \A v \in Ids : v # u => /\ user'[v] = user[v] /\ recovery'[v] = recovery[v]
                                    /\ last'[v] = last[v]
          /\ user'[u].st = user[u].st /\ user'[u].email = user[u].email
          /\ user'[u].name = req[r].name
          /\ u \notin raced.users => user'[u].pwd = last'[u].pwd
      BY <1>0, <1>1, <2>2, <2>4, <2>5, <2>8
    <2> HIDE DEF u
    <2> QED
      <3>1. Saves(r, u)
        BY <2>4, <2>6, <2>7 DEF Saves
      <3> QED
        BY <1>0, <1>1, <3>1, SaveStep
  <1> QED
    BY <1>2, <1>3 DEF RenameSave
-----------------------------------------------------------------------------
(* Every step, and what follows *)

LEMMA AccountStepInv == AInv /\ AccountStep /\ Race => AInv'
  <1> SUFFICES ASSUME AInv, AccountStep, Race PROVE AInv'
    OBVIOUS
  <1>1. ASSUME NEW r \in RegReqs, Registration(r) PROVE AInv'
    BY <1>1, Kinds, RegStartStep, RegFindStep, RegCreateStep, SendMailStep DEF Registration
  <1>2. ASSUME NEW r \in OAuthReqs, OAuthLogin(r) PROVE AInv'
    <2>1. CASE OAuthStart(r) \/ OAuthFind(r) \/ OAuthAccount(r) \/ OAuthName(r)
      BY <2>1, OAuthStartStep, OAuthFindStep, OAuthAccountStep, OAuthNameStep
    <2>2. CASE OAuthLink(r) \/ OAuthLinkNew(r) \/ OAuthCreate(r) \/ OAuthFindNew(r)
      BY <2>2, OAuthLinkStep, OAuthCreateStep, OAuthFindNewStep
    <2>3. CASE SendMail(r)
      BY <2>3, Kinds, SendMailStep
    <2> QED
      BY <1>2, <2>1, <2>2, <2>3 DEF OAuthLogin
  <1>3. ASSUME NEW r \in ConfirmReqs, ConfirmCode(r) \/ ResendCode(r) PROVE AInv'
    BY <1>3, ConfirmStep
  <1>4. ASSUME NEW r \in RecoverReqs, PasswordRecovery(r) \/ Expire(r) PROVE AInv'
    BY <1>4, FindSteps, RecoverSaveStep, ExpireStep DEF PasswordRecovery, RecoverAgain
  <1>5. ASSUME NEW r \in PasswordReqs, NewPassword(r) PROVE AInv'
    BY <1>5, FindSteps, PasswordSaveStep DEF NewPassword
  <1>6. ASSUME NEW r \in RenameReqs, RenameCheck(r) \/ RenameSave(r) PROVE AInv'
    BY <1>6, RenameCheckStep, RenameSaveStep
  <1> QED
    BY <1>1, <1>2, <1>3, <1>4, <1>5, <1>6 DEF AccountStep

LEMMA NextInv == AInv /\ [AccountsNext]_accountVars => AInv'
  <1> SUFFICES ASSUME AInv, [AccountsNext]_accountVars PROVE AInv'
    OBVIOUS
  <1>1. CASE AccountStep /\ Race
    BY <1>1, AccountStepInv
  <1>2. CASE Race /\ \E r \in RenameReqs, u \in Ids, n \in Names : RenameStart(r, u, n)
    BY <1>2, FindSteps
  <1>3. CASE Restart /\ Race
    BY <1>3, RestartStep
  <1>4. CASE UNCHANGED accountVars
    <2>1. /\ UNCHANGED <<tables, last, req>> /\ expired' = expired /\ faults' = faults
          /\ raced' = raced /\ TypeOK
      BY <1>4 DEF accountVars, tables, AInv
    <2>2. expired' \in SUBSET Codes /\ faults' \in 0..MaxFail /\ faults' <= faults
      BY <2>1, SameBounds DEF TypeOK
    <2> QED
      BY <2>1, <2>2, ElsewhereStep
  <1> QED
    BY <1>1, <1>2, <1>3, <1>4 DEF AccountsNext

\* What handlers hold of the users they found, and what the rows owe to them.
THEOREM AccountsInvariant == AccountsSpec => []AInv
  BY InitInv, NextInv, PTL DEF AccountsSpec

\* Two users share a username only if two handlers were between finding it
\* free and taking it, or if one of them has it from a login that completed a
\* taken name with a number: what that makes is looked up nowhere, and may be
\* a name somebody chose or the one another login made.
THEOREM UsersAreTold == AccountsSpec => []NamesDiffer
  <1>1. AInv => NamesDiffer
    BY DEF AInv, NamesInv
  <1> QED
    BY <1>1, AccountsInvariant, PTL

\* A login that creates a user links the identity to that user, though it looks
\* him up by the provider's name, when that name was free and nobody raced.
THEOREM NewUserIsLinked == AccountsSpec => []LinksTheNewUser
  <1>1. AInv => LinksTheNewUser
    BY DEF AInv, NamesInv
  <1> QED
    BY <1>1, AccountsInvariant, PTL

\* An OAuth login answers with the user of the provider's email or with the one
\* the identity is linked to, whatever happens between its queries.
THEOREM OAuthLoginIsKnown == AccountsSpec => []LoginIsKnown
  <1>1. AInv => LoginIsKnown
    BY DEF AInv, LoginsInv, Matches, LoginIsKnown
  <1> QED
    BY <1>1, AccountsInvariant, PTL

\* A registration is answered with success exactly when its user exists, unless
\* a mail or an update failed or the gateway restarted.
THEOREM RegistrationIsTold == AccountsSpec => []RegistrationTold
  <1>1. AInv => RegistrationTold
    BY DEF AInv, InsertInv
  <1> QED
    BY <1>1, AccountsInvariant, PTL

\* The password set last logs in and no other does, unless two handlers that
\* write the whole user held him at once.
THEOREM LastPasswordWins == AccountsSpec => []PasswordIsLast
  <1>1. AInv => PasswordIsLast
    <2> SUFFICES ASSUME AInv, NEW u \in Ids \ raced.users, NEW p \in Passwords
                 PROVE  ValidateUser(u, p) <=> last[u].pwd = p
      BY DEF PasswordIsLast
    <2>1. user[u].pwd = last[u].pwd /\ (~Live(u) => last[u].pwd = None) /\ p # None
      BY Kinds DEF AInv, UsersInv
    <2> QED
      BY <2>1 DEF ValidateUser
  <1> QED
    BY <1>1, AccountsInvariant, PTL

\* The code sent last stays usable until it is used or a change of the username
\* made after it was sent deletes it, and no earlier code can be used, unless
\* two handlers held the user at once.
THEOREM LastCodeWorks == AccountsSpec => []CodeIsLast
  <1>1. AInv => CodeIsLast
    BY DEF AInv, CodesInv
  <1> QED
    BY <1>1, AccountsInvariant, PTL

\* No code sets two passwords, unless two handlers held the user at once.
THEOREM CodesWorkOnce == AccountsSpec => []CodeWorksOnce
  <1>1. AInv => CodeWorksOnce
    BY DEF AInv, CodesInv
  <1> QED
    BY <1>1, AccountsInvariant, PTL
=============================================================================
