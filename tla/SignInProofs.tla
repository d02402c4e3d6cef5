---------------------------- MODULE SignInProofs ----------------------------
(***************************************************************************)
(* What is proved of password sign-in, for any number of requests,         *)
(* accounts, changes by the operator, and any budgets, window and sizes of *)
(* the throttle's tables.  ModesProofs states the theorems.                *)
(***************************************************************************)
EXTENDS SignIn, FiniteSetTheorems, FunctionTheorems, WellFoundedInduction, TLAPS

-----------------------------------------------------------------------------
(* Accounts, tokens and rows.                                              *)

Verified == {"rehashing", "opening", "returning", "signedIn"}

MixKept ==
  mix \in [requests : SUBSET Attempts, names : SUBSET Names, words : SUBSET Words,
              clients : SUBSET Clients, admin : Nat, ticks : Nat, fails : BOOLEAN,
              sessions : BOOLEAN, perName : Nat]

StoreType ==
  /\ users \in [Names -> {NoUser} \cup [id : DOMAIN password, hash : Hashes]]
  /\ password \in Seq(Words \cup {"removed"})
  /\ logins \subseteq [token : Attempts, account : DOMAIN password, expired : BOOLEAN]
  /\ rows \subseteq [table : {"states", "preferences", "set_aside"}, account : DOMAIN password]
  /\ salts \in Nat

\* A hash is of the password the operator set last, and no two names share an account.
UsersAreCurrent ==
  /\ \A n \in Names : users[n] # NoUser => users[n].hash.word = password[users[n].id]
  /\ \A m, n \in Names :
       users[m] # NoUser /\ users[n] # NoUser /\ users[m].id = users[n].id => m = n

\* A request under way has a form, and past the verification the hash it verified.
AttemptsAreSound ==
  \A p \in Attempts :
    /\ attempt[p].at # "idle" => attempt[p].name \in Names /\ attempt[p].word \in Words
    /\ attempt[p].at \in Verified => attempt[p].hash.word = attempt[p].word

\* A token is of a request that was made, so its word stays.
TokensAreCurrent ==
  \A l \in logins : /\ Exists(l.account)
                    /\ attempt[l.token].at # "idle"
                    /\ attempt[l.token].word = password[l.account]

RowsAreOwned == \A r \in rows : Exists(r.account)

AccountsInv ==
  /\ MixKept /\ StoreType /\ now \in Nat /\ attempt \in [Attempts -> Requests]
  /\ UsersAreCurrent /\ AttemptsAreSound /\ TokensAreCurrent /\ RowsAreOwned

LEMMA AccountsImply == AccountsInv => AccountsAreCurrent
  BY DEF AccountsInv, UsersAreCurrent, TokensAreCurrent, RowsAreOwned, AccountsAreCurrent

LEMMA AccountsInit == SignInInit => AccountsInv
<1> SUFFICES ASSUME SignInInit PROVE AccountsInv
  OBVIOUS
<1>1. MixKept /\ mix.names \subseteq Names /\ mix.names # {}
  BY MixesAssumption DEF SignInInit, MixKept
<1>2. PICK n \in Names, w \in Words, cheap \in BOOLEAN :
         /\ users = [m \in Names |->
               IF m = n THEN [id |-> 1, hash |-> [word |-> w, cheap |-> cheap, salt |-> 1]] ELSE NoUser]
         /\ password = <<w>>
  <2>1. (CHOOSE n \in mix.names : TRUE) \in Names
    BY <1>1
  <2>2. (CHOOSE w \in Words : TRUE) \in Words
    BY WordsAssumption
  <2> QED BY <2>1, <2>2 DEF SignInInit
<1>3. DOMAIN password = {1} /\ password \in Seq(Words \cup {"removed"}) /\ password[1] = w
  BY <1>2
<1>4. [id |-> 1, hash |-> [word |-> w, cheap |-> cheap, salt |-> 1]]
        \in [id : DOMAIN password, hash : Hashes]
  BY <1>3 DEF Hashes
<1>5. StoreType
  BY <1>2, <1>3, <1>4 DEF SignInInit, StoreType
<1>6. attempt \in [Attempts -> Requests]
  BY DEF SignInInit, NoAttempt, NoHash, Requests, Hashes, Phases
<1>7. UsersAreCurrent
  BY <1>2, <1>3 DEF UsersAreCurrent, NoUser
<1>8. AttemptsAreSound /\ TokensAreCurrent /\ RowsAreOwned
  BY DEF SignInInit, NoAttempt, AttemptsAreSound, TokensAreCurrent, RowsAreOwned, Verified
<1> QED BY <1>1, <1>5, <1>6, <1>7, <1>8 DEF AccountsInv, SignInInit

\* An operation that changes one request alone.
LEMMA AttemptStep ==
  ASSUME AccountsInv, NEW p \in Attempts, NEW a \in Requests,
         attempt' = [attempt EXCEPT ![p] = a],
         UNCHANGED <<mix, users, password, logins, rows, salts, now>>,
         a.at # "idle" /\ a.name \in Names /\ a.word \in Words,
         attempt[p].at # "idle" => a.word = attempt[p].word,
         a.at \in Verified => a.hash.word = a.word
  PROVE  AccountsInv'
<1> USE DEF AccountsInv
<1>1. MixKept' /\ StoreType' /\ now' \in Nat /\ attempt' \in [Attempts -> Requests]
  BY DEF MixKept, StoreType
<1>2. UsersAreCurrent'
  BY DEF UsersAreCurrent
<1>3. AttemptsAreSound'
  BY DEF AttemptsAreSound
<1>4. TokensAreCurrent'
  <2> SUFFICES ASSUME NEW l \in logins
               PROVE  /\ Exists(l.account) /\ attempt'[l.token].at # "idle"
                      /\ attempt'[l.token].word = password[l.account]
    BY DEF TokensAreCurrent, Exists
  <2>1. l.token \in Attempts
    BY DEF StoreType
  <2> QED BY <2>1 DEF TokensAreCurrent
<1>5. RowsAreOwned'
  BY DEF RowsAreOwned, Exists
<1> QED BY <1>1, <1>2, <1>3, <1>4, <1>5

\* A request that goes from one phase to another.
LEMMA PhaseStep ==
  ASSUME AccountsInv, NEW p \in Attempts, NEW phase \in Phases \ {"idle"}, To(p, phase),
         UNCHANGED <<mix, users, password, logins, rows, salts, now>>,
         attempt[p].at # "idle",
         phase \in Verified => attempt[p].at \in Verified
  PROVE  AccountsInv'
<1> DEFINE a == [attempt[p] EXCEPT !.at = phase]
<1>1. attempt[p] \in Requests
  BY DEF AccountsInv
<1>2. a \in Requests /\ a.at = phase
  BY <1>1 DEF Requests
<1>3. a.name = attempt[p].name /\ a.word = attempt[p].word /\ a.hash = attempt[p].hash
  BY <1>1 DEF Requests
<1>4. attempt' = [attempt EXCEPT ![p] = a]
  BY DEF To
<1>5. /\ a.name \in Names /\ a.word \in Words
      /\ a.at \in Verified => a.hash.word = a.word
  BY <1>2, <1>3 DEF AccountsInv, AttemptsAreSound
<1> HIDE DEF a
<1> QED BY <1>2, <1>3, <1>4, <1>5, AttemptStep

\* Tokens that expire or go.
LEMMA TokensStep ==
  ASSUME AccountsInv, UNCHANGED <<mix, users, password, rows, salts, now, attempt>>,
         logins' \subseteq [token : Attempts, account : DOMAIN password, expired : BOOLEAN],
         \A l \in logins' : \E k \in logins : l.token = k.token /\ l.account = k.account
  PROVE  AccountsInv'
<1> USE DEF AccountsInv
<1>1. MixKept' /\ StoreType' /\ now' \in Nat /\ attempt' \in [Attempts -> Requests]
  BY DEF MixKept, StoreType
<1>2. UsersAreCurrent' /\ AttemptsAreSound' /\ RowsAreOwned'
  BY DEF UsersAreCurrent, AttemptsAreSound, RowsAreOwned, Exists
<1>3. TokensAreCurrent'
  BY DEF TokensAreCurrent, Exists
<1> QED BY <1>1, <1>2, <1>3

\* Rows that are written or moved, for accounts that are there.
LEMMA RowsStep ==
  ASSUME AccountsInv, UNCHANGED <<mix, users, password, logins, salts, now, attempt>>,
         \A r \in rows' : \/ r \in rows
                          \/ /\ r \in [table : {"states", "preferences", "set_aside"},
                                       account : DOMAIN password]
                             /\ Exists(r.account)
  PROVE  AccountsInv'
<1> USE DEF AccountsInv
<1>1. MixKept' /\ StoreType' /\ now' \in Nat /\ attempt' \in [Attempts -> Requests]
  BY DEF MixKept, StoreType
<1>2. UsersAreCurrent' /\ AttemptsAreSound' /\ TokensAreCurrent'
  BY DEF UsersAreCurrent, AttemptsAreSound, TokensAreCurrent, Exists
<1>3. RowsAreOwned'
  BY DEF RowsAreOwned, Exists
<1> QED BY <1>1, <1>2, <1>3

LEMMA ArrivesStep == ASSUME AccountsInv, NEW p \in Attempts, Arrives(p) PROVE AccountsInv'
<1>1. PICK c \in mix.clients, n \in mix.names, w \in mix.words :
        LET a == [NoAttempt EXCEPT !.client = c, !.name = n, !.word = w] IN
        \/ attempt' = [attempt EXCEPT ![p] = [a EXCEPT !.at = "throttled"]]
        \/ attempt' = [attempt EXCEPT ![p] = [a EXCEPT !.at = "waiting", !.slot = now]]
  BY ZenonT(30) DEF Arrives
<1> DEFINE a == [NoAttempt EXCEPT !.client = c, !.name = n, !.word = w]
           refused == [a EXCEPT !.at = "throttled"]
           taken   == [a EXCEPT !.at = "waiting", !.slot = now]
<1>2. /\ c \in Clients /\ n \in Names /\ w \in Words
      /\ now \in Nat
  <2>1. MixKept /\ now \in Nat
    BY DEF AccountsInv
  <2>2. mix.clients \in SUBSET Clients /\ mix.names \in SUBSET Names /\ mix.words \in SUBSET Words
    BY <2>1 DEF MixKept
  <2> QED BY <2>1, <2>2
<1>3. NoAttempt \in Requests
  BY DEF NoAttempt, NoHash, Requests, Hashes, Phases
<1>4. a \in Requests /\ a.name = n /\ a.word = w
  BY <1>2, <1>3 DEF Requests
<1> HIDE DEF a
<1>5. refused \in Requests /\ refused.at = "throttled" /\ refused.name = n /\ refused.word = w
  BY <1>4 DEF Requests, Phases
<1>6. taken \in Requests /\ taken.at = "waiting" /\ taken.name = n /\ taken.word = w
  BY <1>2, <1>4 DEF Requests, Phases
<1>7. /\ attempt' = [attempt EXCEPT ![p] = refused] \/ attempt' = [attempt EXCEPT ![p] = taken]
      /\ attempt[p].at = "idle"
      /\ UNCHANGED <<mix, users, password, logins, rows, salts, now>>
  BY <1>1 DEF Arrives, store, a
<1> HIDE DEF refused, taken
<1>8. CASE attempt' = [attempt EXCEPT ![p] = refused]
  BY <1>2, <1>5, <1>6, <1>7, <1>8, AttemptStep DEF Verified
<1>9. CASE attempt' = [attempt EXCEPT ![p] = taken]
  BY <1>2, <1>5, <1>6, <1>7, <1>9, AttemptStep DEF Verified
<1> QED BY <1>7, <1>8, <1>9

LEMMA ReadsStep == ASSUME AccountsInv, NEW p \in Attempts, Reads(p) PROVE AccountsInv'
<1> USE DEF AccountsInv
<1>1. UNCHANGED <<mix, users, password, logins, rows, salts, now>> /\ attempt[p].at = "reading"
  BY DEF Reads, store
<1> DEFINE u == users[attempt[p].name]
<1>2. CASE u = NoUser \/ u.hash.word # attempt[p].word
  BY <1>1, <1>2, PhaseStep DEF Reads, Phases, Verified
<1>3. CASE ~(u = NoUser \/ u.hash.word # attempt[p].word)
  <2> DEFINE a == [attempt[p] EXCEPT !.id = u.id, !.hash = u.hash,
                                     !.at = IF u.hash.cheap THEN "rehashing" ELSE "opening"]
  <2>1. attempt[p] \in Requests /\ attempt[p].name \in Names /\ attempt[p].word \in Words
    BY <1>1 DEF AttemptsAreSound
  <2>2. u \in [id : DOMAIN password, hash : Hashes] /\ DOMAIN password \subseteq Nat
    BY <1>3, <2>1 DEF StoreType
  <2>3. a \in Requests
    BY <2>1, <2>2 DEF Requests, Phases
  <2>4. /\ a.at \in {"rehashing", "opening"} /\ a.name = attempt[p].name
        /\ a.word = attempt[p].word /\ a.hash = u.hash
    BY <2>1 DEF Requests
  <2>5. attempt' = [attempt EXCEPT ![p] = a]
    BY <1>3 DEF Reads
  <2> HIDE DEF a
  <2> QED BY <1>1, <1>3, <2>1, <2>3, <2>4, <2>5, AttemptStep
<1> QED BY <1>2, <1>3

LEMMA UserStep ==
  ASSUME AccountsInv, NEW n \in Names, users[n] # NoUser, NEW h \in Hashes,
         users' = [users EXCEPT ![n].hash = h]
  PROVE  /\ users' \in [Names -> {NoUser} \cup [id : DOMAIN password, hash : Hashes]]
         /\ users'[n] # NoUser /\ users'[n].id = users[n].id /\ users'[n].hash = h
         /\ \A m \in Names : m # n => users'[m] = users[m]
         /\ \A id : Exists(id)' <=> Exists(id)
<1>1. users \in [Names -> {NoUser} \cup [id : DOMAIN password, hash : Hashes]]
  BY DEF AccountsInv, StoreType
<1>2. users[n] \in [id : DOMAIN password, hash : Hashes]
  BY <1>1
<1> DEFINE u == [users[n] EXCEPT !.hash = h]
<1>3. u \in [id : DOMAIN password, hash : Hashes] /\ u.id = users[n].id /\ u.hash = h
  BY <1>2
<1>4. users' = [users EXCEPT ![n] = u]
  OBVIOUS
<1>5. u # NoUser
  <2>1. DOMAIN password \subseteq Nat \ {0}
    BY DEF AccountsInv, StoreType
  <2> QED BY <1>3, <2>1 DEF NoUser
<1> HIDE DEF u
<1>6. users'[n] = u /\ \A m \in Names : m # n => users'[m] = users[m]
  BY <1>1, <1>4
<1>7. ASSUME NEW id PROVE Exists(id)' <=> Exists(id)
  BY <1>3, <1>5, <1>6 DEF Exists
<1> QED BY <1>1, <1>3, <1>4, <1>5, <1>6, <1>7

LEMMA RehashesStep == ASSUME AccountsInv, NEW p \in Attempts, Rehashes(p) PROVE AccountsInv'
<1> USE DEF AccountsInv
<1> DEFINE a == attempt[p]
           u == users[a.name]
<1>1. /\ UNCHANGED <<mix, password, logins, rows, now>> /\ a.at = "rehashing"
      /\ salts \in Nat /\ salts' = salts + 1
  BY DEF Rehashes, StoreType
<1>2. a \in Requests /\ a.name \in Names /\ a.word \in Words /\ a.hash.word = a.word
  BY <1>1 DEF AttemptsAreSound, Verified
<1>3. CASE u = [id |-> a.id, hash |-> a.hash]
  <2> DEFINE h == Fresh(a.word)
  <2>1. h \in Hashes /\ h.word = a.word
    BY <1>1, <1>2 DEF Fresh, Hashes
  <2>2. users' = [users EXCEPT ![a.name].hash = h]
    BY <1>3 DEF Rehashes
  <2>3. u # NoUser
    BY <1>3 DEF NoUser
  <2> HIDE DEF h
  <2>4. /\ users' \in [Names -> {NoUser} \cup [id : DOMAIN password, hash : Hashes]]
        /\ users'[a.name] # NoUser /\ users'[a.name].id = u.id /\ users'[a.name].hash = h
        /\ \A m \in Names : m # a.name => users'[m] = users[m]
        /\ \A id : Exists(id)' <=> Exists(id)
    BY <1>2, <2>1, <2>2, <2>3, UserStep
  <2> DEFINE b == [a EXCEPT !.at = "opening", !.hash = h]
  <2>5. b \in Requests /\ b.at = "opening" /\ b.name = a.name /\ b.word = a.word /\ b.hash = h
    BY <1>2, <2>1 DEF Requests, Phases
  <2>6. attempt' = [attempt EXCEPT ![p] = b]
    BY <1>3 DEF Rehashes, h
  <2> HIDE DEF b
  <2>7. StoreType' /\ MixKept' /\ now' \in Nat /\ attempt' \in [Attempts -> Requests]
    BY <1>1, <2>4, <2>5, <2>6 DEF StoreType, MixKept
  <2>8. UsersAreCurrent'
    BY <1>1, <1>2, <1>3, <2>1, <2>3, <2>4 DEF UsersAreCurrent
  <2>9. AttemptsAreSound'
    BY <1>2, <2>1, <2>5, <2>6 DEF AttemptsAreSound
  <2>10. TokensAreCurrent'
    <3> SUFFICES ASSUME NEW l \in logins
                 PROVE  /\ Exists(l.account)' /\ attempt'[l.token].at # "idle"
                        /\ attempt'[l.token].word = password[l.account]
      BY <1>1 DEF TokensAreCurrent
    <3>1. l.token \in Attempts
      BY DEF StoreType
    <3> QED BY <1>1, <2>4, <2>5, <2>6, <3>1 DEF TokensAreCurrent
  <2>11. RowsAreOwned'
    BY <1>1, <2>4 DEF RowsAreOwned
  <2> QED BY <2>7, <2>8, <2>9, <2>10, <2>11
<1>4. CASE u # [id |-> a.id, hash |-> a.hash]
  <2> DEFINE b == [a EXCEPT !.at = "opening"]
  <2>1. b \in Requests /\ b.at = "opening" /\ b.name = a.name /\ b.word = a.word /\ b.hash = a.hash
    BY <1>2 DEF Requests, Phases
  <2>2. attempt' = [attempt EXCEPT ![p] = b] /\ users' = users
    BY <1>4 DEF Rehashes, To
  <2> HIDE DEF b
  <2>3. StoreType' /\ MixKept' /\ now' \in Nat /\ attempt' \in [Attempts -> Requests]
    BY <1>1, <2>1, <2>2 DEF StoreType, MixKept
  <2>4. UsersAreCurrent' /\ RowsAreOwned'
    BY <1>1, <2>2 DEF UsersAreCurrent, RowsAreOwned, Exists
  <2>5. AttemptsAreSound'
    BY <1>2, <2>1, <2>2 DEF AttemptsAreSound
  <2>6. TokensAreCurrent'
    <3> SUFFICES ASSUME NEW l \in logins
                 PROVE  /\ Exists(l.account) /\ attempt'[l.token].at # "idle"
                        /\ attempt'[l.token].word = password[l.account]
      BY <1>1, <2>2 DEF TokensAreCurrent, Exists
    <3>1. l.token \in Attempts
      BY DEF StoreType
    <3> QED BY <1>1, <2>1, <2>2, <3>1 DEF TokensAreCurrent
  <2> QED BY <2>3, <2>4, <2>5, <2>6
<1> QED BY <1>3, <1>4

LEMMA OpensStep == ASSUME AccountsInv, NEW p \in Attempts, OpenLogin(p) PROVE AccountsInv'
<1> USE DEF AccountsInv
<1> DEFINE a == attempt[p]
           phase == IF users[a.name] = [id |-> a.id, hash |-> a.hash] THEN "returning" ELSE "refused"
           b == [a EXCEPT !.at = phase]
           l == [token |-> p, account |-> a.id, expired |-> FALSE]
<1>1. UNCHANGED <<mix, users, password, rows, salts, now>> /\ a.at = "opening"
  BY DEF OpenLogin, throttle
<1>2. a \in Requests /\ a.name \in Names /\ a.word \in Words /\ a.hash.word = a.word
  BY <1>1 DEF AttemptsAreSound, Verified
<1>3. b \in Requests /\ b.at = phase /\ b.name = a.name /\ b.word = a.word /\ b.hash = a.hash
  BY <1>2 DEF Requests, Phases
<1>4. attempt' = [attempt EXCEPT ![p] = b]
  BY DEF OpenLogin, To
<1>5. \A k \in logins' : \/ k \in logins
                         \/ phase = "returning" /\ k = l
  BY DEF OpenLogin
<1>6. phase = "returning" =>
        /\ a.id \in DOMAIN password /\ Exists(a.id) /\ password[a.id] = a.word
        /\ l \in [token : Attempts, account : DOMAIN password, expired : BOOLEAN]
  <2> SUFFICES ASSUME users[a.name] = [id |-> a.id, hash |-> a.hash]
               PROVE  /\ a.id \in DOMAIN password /\ Exists(a.id) /\ password[a.id] = a.word
                      /\ l \in [token : Attempts, account : DOMAIN password, expired : BOOLEAN]
    OBVIOUS
  <2>1. users[a.name] # NoUser
    BY DEF NoUser
  <2>2. users[a.name] \in [id : DOMAIN password, hash : Hashes]
    BY <1>2, <2>1 DEF StoreType
  <2>3. a.id \in DOMAIN password /\ Exists(a.id)
    BY <1>2, <2>1, <2>2 DEF Exists
  <2> QED BY <1>2, <2>1, <2>3 DEF UsersAreCurrent
<1> HIDE DEF b, l, phase
<1>7. StoreType' /\ MixKept' /\ now' \in Nat /\ attempt' \in [Attempts -> Requests]
  BY <1>1, <1>3, <1>4, <1>5, <1>6 DEF StoreType, MixKept
<1>8. UsersAreCurrent' /\ RowsAreOwned'
  BY <1>1 DEF UsersAreCurrent, RowsAreOwned, Exists
<1>9. AttemptsAreSound'
  BY <1>2, <1>3, <1>4 DEF AttemptsAreSound
<1>10. b.at # "idle"
  BY <1>3 DEF phase
<1>11. TokensAreCurrent'
  <2> SUFFICES ASSUME NEW k \in logins'
               PROVE  /\ Exists(k.account) /\ attempt'[k.token].at # "idle"
                      /\ attempt'[k.token].word = password[k.account]
    BY <1>1 DEF TokensAreCurrent, Exists
  <2>1. CASE k \in logins
    <3>1. k.token \in Attempts
      BY <2>1 DEF StoreType
    <3> QED BY <1>3, <1>4, <1>10, <2>1, <3>1 DEF TokensAreCurrent
  <2>2. CASE phase = "returning" /\ k = l
    BY <1>3, <1>4, <1>6, <1>10, <2>2 DEF l
  <2> QED BY <1>5, <2>1, <2>2
<1> QED BY <1>7, <1>8, <1>9, <1>11

LEMMA AddUserStep == ASSUME AccountsInv, NEW n \in Names, AddUser(n) PROVE AccountsInv'
<1> USE DEF AccountsInv
<1>1. PICK w \in Words : /\ users' = [users EXCEPT ![n] = [id |-> NewId, hash |-> Fresh(w)]]
                         /\ password' = Append(password, w)
  BY DEF AddUser
<1>2. /\ UNCHANGED <<logins, rows, now, attempt>> /\ users[n] = NoUser
      /\ salts \in Nat /\ salts' = salts + 1
      /\ mix.admin > 0 /\ mix' = [mix EXCEPT !.admin = @ - 1]
  BY DEF AddUser, Admin, throttle, StoreType
<1> DEFINE u == [id |-> NewId, hash |-> Fresh(w)]
<1>3. /\ password' \in Seq(Words \cup {"removed"})
      /\ DOMAIN password' = DOMAIN password \cup {NewId} /\ NewId \notin DOMAIN password
      /\ password'[NewId] = w /\ NewId # 0
      /\ \A id \in DOMAIN password : password'[id] = password[id]
  BY <1>1 DEF NewId, StoreType
<1>4. u \in [id : DOMAIN password', hash : Hashes] /\ u # NoUser /\ u.id = NewId /\ u.hash.word = w
  BY <1>2, <1>3 DEF Fresh, Hashes, NoUser
<1>5. users' = [users EXCEPT ![n] = u]
  BY <1>1
<1> HIDE DEF u
<1>6. users'[n] = u /\ \A m \in Names : m # n => users'[m] = users[m]
  BY <1>5 DEF StoreType
<1>7. \A id : Exists(id) => Exists(id)'
  BY <1>2, <1>6 DEF Exists
<1>8. MixKept'
  BY <1>2 DEF MixKept
<1>9. StoreType'
  BY <1>2, <1>3, <1>4, <1>5 DEF StoreType
<1>10. UsersAreCurrent'
  <2>1. \A m \in Names : users[m] # NoUser => users[m].id \in DOMAIN password
    BY DEF StoreType
  <2> QED BY <1>3, <1>4, <1>6, <2>1 DEF UsersAreCurrent
<1>11. AttemptsAreSound' /\ RowsAreOwned'
  BY <1>2, <1>7 DEF AttemptsAreSound, RowsAreOwned
<1>12. TokensAreCurrent'
  <2> SUFFICES ASSUME NEW l \in logins
               PROVE  /\ Exists(l.account)' /\ attempt[l.token].at # "idle"
                      /\ attempt[l.token].word = password'[l.account]
    BY <1>2 DEF TokensAreCurrent
  <2>1. l.account \in DOMAIN password
    BY DEF StoreType
  <2> QED BY <1>3, <1>7, <2>1 DEF TokensAreCurrent
<1> QED BY <1>2, <1>8, <1>9, <1>10, <1>11, <1>12

LEMMA SetPasswordStep == ASSUME AccountsInv, NEW n \in Names, SetPassword(n) PROVE AccountsInv'
<1> USE DEF AccountsInv
<1> DEFINE id == users[n].id
<1>1. PICK w \in Words : /\ users' = [users EXCEPT ![n].hash = Fresh(w)]
                         /\ password' = [password EXCEPT ![id] = w]
  BY DEF SetPassword
<1>2. /\ UNCHANGED <<rows, now, attempt>> /\ users[n] # NoUser
      /\ salts \in Nat /\ salts' = salts + 1
      /\ mix.admin > 0 /\ mix' = [mix EXCEPT !.admin = @ - 1]
      /\ logins' = {l \in logins : l.account # id}
  BY DEF SetPassword, Admin, throttle, StoreType
<1>3. id \in DOMAIN password
  BY <1>2 DEF StoreType
<1>4. /\ password' \in Seq(Words \cup {"removed"}) /\ DOMAIN password' = DOMAIN password
      /\ password'[id] = w /\ \A i \in DOMAIN password : i # id => password'[i] = password[i]
  BY <1>1, <1>3 DEF StoreType
<1> DEFINE h == Fresh(w)
<1>5. h \in Hashes /\ h.word = w
  BY <1>2 DEF Fresh, Hashes
<1> HIDE DEF h
<1>6. /\ users' \in [Names -> {NoUser} \cup [id : DOMAIN password, hash : Hashes]]
      /\ users'[n] # NoUser /\ users'[n].id = id /\ users'[n].hash = h
      /\ \A m \in Names : m # n => users'[m] = users[m]
      /\ \A i : Exists(i)' <=> Exists(i)
  BY <1>1, <1>2, <1>5, UserStep DEF h
<1>7. MixKept'
  BY <1>2 DEF MixKept
<1>8. StoreType'
  BY <1>2, <1>4, <1>6 DEF StoreType
<1>9. UsersAreCurrent'
  <2>1. \A m \in Names : users[m] # NoUser => users[m].id \in DOMAIN password
    BY DEF StoreType
  <2>2. \A m \in Names : users[m] # NoUser /\ m # n => users[m].id # id
    BY <1>2 DEF UsersAreCurrent
  <2> QED BY SMTT(30), <1>4, <1>5, <1>6, <2>1, <2>2 DEF UsersAreCurrent
<1>10. AttemptsAreSound' /\ RowsAreOwned'
  BY <1>2, <1>6 DEF AttemptsAreSound, RowsAreOwned
<1>11. TokensAreCurrent'
  <2> SUFFICES ASSUME NEW l \in logins, l.account # id
               PROVE  /\ Exists(l.account)' /\ attempt[l.token].at # "idle"
                      /\ attempt[l.token].word = password'[l.account]
    BY <1>2 DEF TokensAreCurrent
  <2>1. l.account \in DOMAIN password
    BY DEF StoreType
  <2> QED BY <1>4, <1>6, <2>1 DEF TokensAreCurrent
<1> QED BY <1>2, <1>7, <1>8, <1>9, <1>10, <1>11

LEMMA RemoveUserStep == ASSUME AccountsInv, NEW n \in Names, RemoveUser(n) PROVE AccountsInv'
<1> USE DEF AccountsInv
<1> DEFINE id == users[n].id
<1>1. /\ UNCHANGED <<salts, now, attempt>> /\ users[n] # NoUser
      /\ users' = [users EXCEPT ![n] = NoUser]
      /\ password' = [password EXCEPT ![id] = "removed"]
      /\ mix.admin > 0 /\ mix' = [mix EXCEPT !.admin = @ - 1]
      /\ logins' = {l \in logins : l.account # id}
      /\ rows' = {r \in rows : r.account # id}
  BY DEF RemoveUser, Admin, throttle
<1>2. id \in DOMAIN password
  BY <1>1 DEF StoreType
<1>3. /\ password' \in Seq(Words \cup {"removed"}) /\ DOMAIN password' = DOMAIN password
      /\ \A i \in DOMAIN password : i # id => password'[i] = password[i]
  BY <1>1, <1>2 DEF StoreType
<1>4. /\ users' \in [Names -> {NoUser} \cup [id : DOMAIN password, hash : Hashes]]
      /\ users'[n] = NoUser /\ \A m \in Names : m # n => users'[m] = users[m]
  BY <1>1 DEF StoreType
<1>5. \A i : Exists(i) /\ i # id => Exists(i)'
  BY <1>4 DEF Exists
<1>6. MixKept'
  BY <1>1 DEF MixKept
<1>7. StoreType'
  BY <1>1, <1>3, <1>4 DEF StoreType
<1>8. UsersAreCurrent'
  <2>1. \A m \in Names : users[m] # NoUser => users[m].id \in DOMAIN password
    BY DEF StoreType
  <2>2. \A m \in Names : users[m] # NoUser /\ m # n => users[m].id # id
    BY <1>1 DEF UsersAreCurrent
  <2> QED BY <1>3, <1>4, <2>1, <2>2 DEF UsersAreCurrent
<1>9. AttemptsAreSound' /\ RowsAreOwned'
  BY <1>1, <1>5 DEF AttemptsAreSound, RowsAreOwned
<1>10. TokensAreCurrent'
  <2> SUFFICES ASSUME NEW l \in logins, l.account # id
               PROVE  /\ Exists(l.account)' /\ attempt[l.token].at # "idle"
                      /\ attempt[l.token].word = password'[l.account]
    BY <1>1 DEF TokensAreCurrent
  <2>1. l.account \in DOMAIN password
    BY DEF StoreType
  <2> QED BY <1>3, <1>5, <2>1 DEF TokensAreCurrent
<1> QED BY <1>1, <1>6, <1>7, <1>8, <1>9, <1>10

LEMMA AccountsStep == AccountsInv /\ [SignInNext]_signInVars => AccountsInv'
<1> SUFFICES ASSUME AccountsInv, [SignInNext]_signInVars PROVE AccountsInv'
  OBVIOUS
<1> USE DEF store, throttle, sockets
<1>1. ASSUME NEW p \in Attempts, Arrives(p) PROVE AccountsInv'
  BY <1>1, ArrivesStep
<1>2. ASSUME NEW p \in Attempts, Enters(p) PROVE AccountsInv'
  BY <1>2, PhaseStep DEF Enters, Phases, Verified
<1>3. ASSUME NEW p \in Attempts, Reads(p) \/ Rehashes(p) \/ OpenLogin(p) PROVE AccountsInv'
  BY <1>3, ReadsStep, RehashesStep, OpensStep
<1>4. ASSUME NEW p \in Attempts, SignsIn(p) PROVE AccountsInv'
  BY <1>4, PhaseStep DEF SignsIn, Phases, Verified
<1>5. ASSUME NEW p \in Attempts, StoreFails(p) PROVE AccountsInv'
  BY <1>5, PhaseStep DEF StoreFails, Phases, Verified
<1>6. ASSUME NEW p \in Attempts, LogOut(p) PROVE AccountsInv'
  BY <1>6, TokensStep DEF LogOut, AccountsInv, StoreType
<1>7. ASSUME NEW n \in Names, AddUser(n) \/ SetPassword(n) \/ RemoveUser(n) PROVE AccountsInv'
  BY <1>7, AddUserStep, SetPasswordStep, RemoveUserStep
<1>8. ASSUME NEW id \in Opened, Save(id) PROVE AccountsInv'
  <2>1. Exists(id) => id \in DOMAIN password
    BY DEF AccountsInv, StoreType, Exists, NoUser
  <2> QED BY <1>8, <2>1, RowsStep DEF Save
<1>9. ASSUME NEW id \in Opened, MoveAside(id) PROVE AccountsInv'
  <2>1. id \in DOMAIN password /\ Exists(id)
    BY <1>9 DEF MoveAside, AccountsInv, StoreType, RowsAreOwned
  <2> QED BY <1>9, <2>1, RowsStep DEF MoveAside
<1>10. CASE Tick
  <2>1. UNCHANGED <<users, password, logins, rows, salts, attempt>>
    BY <1>10 DEF Tick
  <2>2. MixKept'
    BY <1>10 DEF Tick, AccountsInv, MixKept
  <2>3. now' \in Nat /\ StoreType' /\ attempt' \in [Attempts -> Requests]
    BY <1>10, <2>1 DEF Tick, AccountsInv, StoreType
  <2> QED BY <2>1, <2>2, <2>3 DEF AccountsInv, UsersAreCurrent, AttemptsAreSound,
                                  TokensAreCurrent, RowsAreOwned, Exists
<1>11. CASE LoginExpires
  BY <1>11, TokensStep DEF LoginExpires, AccountsInv, StoreType
<1>12. CASE PurgeLogins
  BY <1>12, TokensStep DEF PurgeLogins, AccountsInv, StoreType
<1>13. CASE \/ CheckAll \/ UNCHANGED signInVars
            \/ \E p \in Attempts : Attach(p) \/ Attached(p) \/ Revalidate(p)
  <2>1. UNCHANGED <<mix, users, password, logins, rows, salts, now, attempt>>
    BY <1>13 DEF CheckAll, signInVars, Attach, Attached, Revalidate
  <2> QED BY <2>1, RowsStep
<1> QED BY <1>1, <1>2, <1>3, <1>4, <1>5, <1>6, <1>7, <1>8, <1>9, <1>10, <1>11, <1>12, <1>13
        DEF SignInNext, Answers

-----------------------------------------------------------------------------
(* The places in the queue and the semaphore.                              *)

PlacesInv == /\ PlacesAreCounted
             /\ waiting \in 0 .. MaxWaiting /\ verifying \in 0 .. MaxVerifying

LEMMA PlacesFinite == /\ IsFiniteSet(Queued) /\ Cardinality(Queued) \in Nat
                      /\ IsFiniteSet(Verifying) /\ Cardinality(Verifying) \in Nat
<1>1. Queued \subseteq Attempts /\ Verifying \subseteq Attempts
  BY DEF Queued, Verifying
<1> QED BY <1>1, AttemptsAssumption, FS_Subset, FS_CardinalityType

LEMMA PlacesInit == SignInInit => PlacesInv
<1> SUFFICES ASSUME SignInInit PROVE PlacesInv
  OBVIOUS
<1>1. Queued = {} /\ Verifying = {}
  BY DEF SignInInit, Queued, Verifying, NoAttempt
<1> QED BY <1>1, FS_EmptySet, LimitsAssumption
        DEF SignInInit, PlacesInv, PlacesAreCounted

\* One request moves: its place in the queue or at the semaphore is left or taken.
LEMMA PlacesStep ==
  ASSUME PlacesInv, NEW p \in Attempts, attempt \in [Attempts -> Requests],
         attempt' \in [Attempts -> Requests],
         \A q \in Attempts : q # p => attempt'[q] = attempt[q]
  PROVE  /\ Cardinality(Queued') =
              IF p \in Queued' THEN IF p \in Queued THEN waiting ELSE waiting + 1
              ELSE IF p \in Queued THEN waiting - 1 ELSE waiting
         /\ Cardinality(Verifying') =
              IF p \in Verifying' THEN IF p \in Verifying THEN verifying ELSE verifying + 1
              ELSE IF p \in Verifying THEN verifying - 1 ELSE verifying
<1>1. waiting = Cardinality(Queued) /\ verifying = Cardinality(Verifying)
  BY DEF PlacesInv, PlacesAreCounted
<1>2. Queued' = IF p \in Queued' THEN Queued \cup {p} ELSE Queued \ {p}
  BY DEF Queued
<1>3. Verifying' = IF p \in Verifying' THEN Verifying \cup {p} ELSE Verifying \ {p}
  BY DEF Verifying
<1>4. ASSUME NEW S, IsFiniteSet(S), Cardinality(S) \in Nat
      PROVE  /\ Cardinality(S \cup {p}) = IF p \in S THEN Cardinality(S) ELSE Cardinality(S) + 1
             /\ Cardinality(S \ {p}) = IF p \in S THEN Cardinality(S) - 1 ELSE Cardinality(S)
  BY <1>4, FS_AddElement, FS_RemoveElement
<1> QED BY <1>1, <1>2, <1>3, <1>4, PlacesFinite

LEMMA PlacesNext ==
  ASSUME PlacesInv, AccountsInv, AccountsInv', [SignInNext]_signInVars
  PROVE  PlacesInv'
<1> USE DEF store, throttle, sockets, tables
<1>1. attempt \in [Attempts -> Requests] /\ attempt' \in [Attempts -> Requests]
  BY DEF AccountsInv
<1>2. /\ waiting = Cardinality(Queued) /\ verifying = Cardinality(Verifying)
      /\ waiting \in 0 .. MaxWaiting /\ verifying \in 0 .. MaxVerifying
  BY DEF PlacesInv, PlacesAreCounted
<1>3. \A p \in Attempts : p \in Queued => waiting >= 1
  BY <1>2, PlacesFinite, FS_EmptySet
<1>4. \A p \in Attempts : p \in Verifying => verifying >= 1
  BY <1>2, PlacesFinite, FS_EmptySet
<1>5. ASSUME NEW p \in Attempts, Arrives(p) \/ Answers(p) \/ StoreFails(p)
      PROVE  /\ \A q \in Attempts : q # p => attempt'[q] = attempt[q]
             /\ attempt'[p].at \in Phases
  BY <1>1, <1>5 DEF Arrives, Answers, StoreFails, Enters, Reads, Rehashes, OpenLogin, SignsIn, To, Requests
<1>6. ASSUME NEW p \in Attempts, Arrives(p) \/ Answers(p) \/ StoreFails(p)
      PROVE  /\ Cardinality(Queued') =
                  IF attempt'[p].at = "waiting" THEN IF attempt[p].at = "waiting" THEN waiting ELSE waiting + 1
                  ELSE IF attempt[p].at = "waiting" THEN waiting - 1 ELSE waiting
             /\ Cardinality(Verifying') =
                  IF attempt'[p].at \in {"reading", "rehashing"}
                  THEN IF attempt[p].at \in {"reading", "rehashing"} THEN verifying ELSE verifying + 1
                  ELSE IF attempt[p].at \in {"reading", "rehashing"} THEN verifying - 1 ELSE verifying
             /\ attempt[p].at = "waiting" => waiting >= 1
             /\ attempt[p].at \in {"reading", "rehashing"} => verifying >= 1
  BY <1>1, <1>3, <1>4, <1>5, <1>6, PlacesStep DEF Queued, Verifying
<1> USE DEF PlacesInv, PlacesAreCounted
<1>7. ASSUME NEW p \in Attempts, Arrives(p) PROVE PlacesInv'
  <2>1. /\ attempt[p].at = "idle" /\ verifying' = verifying
        /\ \/ waiting' = waiting /\ attempt'[p].at = "throttled"
           \/ waiting < MaxWaiting /\ waiting' = waiting + 1 /\ attempt'[p].at = "waiting"
    BY ZenonT(40), <1>1, <1>7 DEF Arrives, NoAttempt
  <2> QED BY <1>2, <1>6, <1>7, <2>1, LimitsAssumption
<1>8. ASSUME NEW p \in Attempts, Enters(p) PROVE PlacesInv'
  <2>1. /\ attempt[p].at = "waiting" /\ attempt'[p].at = "reading" /\ verifying < MaxVerifying
        /\ waiting' = waiting - 1 /\ verifying' = verifying + 1
    BY <1>1, <1>8 DEF Enters, To, Requests
  <2> QED BY <1>2, <1>6, <1>8, <2>1, LimitsAssumption DEF Answers
<1>9. ASSUME NEW p \in Attempts, Reads(p) \/ Rehashes(p) PROVE PlacesInv'
  <2>1. /\ attempt[p].at \in {"reading", "rehashing"} /\ waiting' = waiting
        /\ \/ verifying' = verifying /\ attempt'[p].at = "rehashing"
           \/ verifying' = verifying - 1 /\ attempt'[p].at \in {"opening", "refused"}
    <3>1. attempt[p] \in Requests
      BY <1>1
    <3>2. CASE Reads(p) /\ (users[attempt[p].name] = NoUser
                            \/ users[attempt[p].name].hash.word # attempt[p].word)
      BY <1>1, <3>1, <3>2 DEF Reads, To, Requests
    <3>3. CASE Reads(p) /\ ~(users[attempt[p].name] = NoUser
                             \/ users[attempt[p].name].hash.word # attempt[p].word)
      <4> DEFINE u == users[attempt[p].name]
                 phase == IF u.hash.cheap THEN "rehashing" ELSE "opening"
                 a == [attempt[p] EXCEPT !.id = u.id, !.hash = u.hash, !.at = phase]
      <4>1. attempt' = [attempt EXCEPT ![p] = a]
        BY <3>3 DEF Reads
      <4>2. a.at = phase
        BY <3>1 DEF Requests
      <4>3. verifying' = IF u.hash.cheap THEN verifying ELSE verifying - 1
        BY <3>3 DEF Reads
      <4>4. attempt[p].at = "reading" /\ waiting' = waiting
        BY <3>3 DEF Reads
      <4> HIDE DEF a
      <4> QED BY <1>1, <4>1, <4>2, <4>3, <4>4
    <3>4. CASE Rehashes(p)
      <4> DEFINE a == attempt[p]
      <4>1. \/ attempt' = [attempt EXCEPT ![p].at = "opening", ![p].hash = Fresh(a.word)]
            \/ attempt' = [attempt EXCEPT ![p].at = "opening"]
        BY <3>4 DEF Rehashes, To
      <4>2. attempt'[p].at = "opening"
        BY <1>1, <3>1, <4>1 DEF Requests
      <4> QED BY <3>4, <4>2 DEF Rehashes
    <3> QED BY <1>9, <3>2, <3>3, <3>4
  <2> QED BY <1>2, <1>6, <1>9, <2>1, LimitsAssumption DEF Answers
<1>10. ASSUME NEW p \in Attempts, OpenLogin(p) \/ SignsIn(p) PROVE PlacesInv'
  <2>1. /\ attempt[p].at \in {"opening", "returning"} /\ waiting' = waiting
        /\ verifying' = verifying /\ attempt'[p].at \in {"returning", "refused", "signedIn"}
    BY <1>1, <1>10 DEF OpenLogin, SignsIn, To, Requests
  <2> QED BY <1>2, <1>6, <1>10, <2>1, LimitsAssumption DEF Answers
<1>11. ASSUME NEW p \in Attempts, StoreFails(p) PROVE PlacesInv'
  <2>1. /\ attempt[p].at \in {"waiting", "reading", "rehashing", "opening"}
        /\ attempt'[p].at = "failed"
        /\ waiting' = IF attempt[p].at = "waiting" THEN waiting - 1 ELSE waiting
        /\ verifying' = IF attempt[p].at \in {"reading", "rehashing"} THEN verifying - 1 ELSE verifying
    BY <1>1, <1>11 DEF StoreFails, To, Requests
  <2> QED BY <1>2, <1>6, <1>11, <2>1, LimitsAssumption
<1>12. CASE UNCHANGED <<waiting, verifying, attempt>>
  BY <1>12 DEF Queued, Verifying
<1>13. ASSUME NEW p \in Attempts, Attach(p) \/ Attached(p) \/ Revalidate(p) \/ LogOut(p)
       PROVE  UNCHANGED <<waiting, verifying, attempt>>
  BY <1>13 DEF Attach, Attached, Revalidate, LogOut
<1>14. ASSUME NEW n \in Names, AddUser(n) \/ SetPassword(n) \/ RemoveUser(n)
       PROVE  UNCHANGED <<waiting, verifying, attempt>>
  BY <1>14 DEF AddUser, SetPassword, RemoveUser
<1>15. ASSUME NEW id, Save(id) \/ MoveAside(id) \/ Tick \/ LoginExpires \/ PurgeLogins \/ CheckAll
              \/ UNCHANGED signInVars
       PROVE  UNCHANGED <<waiting, verifying, attempt>>
  BY <1>15 DEF Save, MoveAside, Tick, LoginExpires, PurgeLogins, CheckAll, signInVars
<1> QED BY <1>7, <1>8, <1>9, <1>10, <1>11, <1>12, <1>13, <1>14, <1>15
        DEF SignInNext, Answers

-----------------------------------------------------------------------------
(* The throttle's tables never hold more than their bound.                 *)

Fits(table) == IsFiniteSet(DOMAIN table) /\ Cardinality(DOMAIN table) <= MaxEntries

TablesInv == Fits(names) /\ Fits(clients) /\ Fits(accounts)

LEMMA SmallerFits ==
  ASSUME NEW t, NEW u, Fits(t), DOMAIN u \subseteq DOMAIN t
  PROVE  Fits(u)
<1>1. /\ IsFiniteSet(DOMAIN u) /\ Cardinality(DOMAIN u) <= Cardinality(DOMAIN t)
      /\ Cardinality(DOMAIN u) \in Nat /\ Cardinality(DOMAIN t) \in Nat
  BY FS_Subset, FS_CardinalityType DEF Fits
<1> QED BY <1>1, LimitsAssumption DEF Fits

LEMMA StampedFits ==
  ASSUME NEW t, NEW key, Fits(t), HasRoom(t, key)
  PROVE  Fits(Stamped(t, key))
<1>1. DOMAIN Stamped(t, key) = DOMAIN t \cup {key}
  BY DEF Stamped
<1>2. /\ IsFiniteSet(DOMAIN t \cup {key}) /\ Cardinality(DOMAIN t) \in Nat
      /\ Cardinality(DOMAIN t \cup {key}) =
           IF key \in DOMAIN t THEN Cardinality(DOMAIN t) ELSE Cardinality(DOMAIN t) + 1
  BY FS_AddElement, FS_CardinalityType DEF Fits
<1> QED BY <1>1, <1>2, LimitsAssumption DEF Fits, HasRoom

LEMMA PrunedFits == ASSUME NEW t, NEW keys, Fits(t) PROVE Fits(Pruned(t, keys))
<1>1. DOMAIN Pruned(t, keys) \subseteq DOMAIN t
  BY DEF Pruned
<1> QED BY <1>1, SmallerFits

LEMMA LookedFits ==
  ASSUME TablesInv, NEW c, NEW n
  PROVE  LET t == Looked(c, n) IN Fits(t[1]) /\ Fits(t[2]) /\ Fits(t[3])
<1> DEFINE t1 == Pruned(names, {<<c, n>>})
           t2 == IF Len(Stamps(names, <<c, n>>)) >= mix.perName THEN clients ELSE Pruned(clients, {c})
           t3 == IF \/ Len(Stamps(names, <<c, n>>)) >= mix.perName
                    \/ Len(Stamps(clients, c)) >= PerClient
                 THEN accounts ELSE Pruned(accounts, {n})
<1>1. Fits(t1) /\ Fits(t2) /\ Fits(t3)
  BY PrunedFits DEF TablesInv
<1>2. \/ Looked(c, n) = <<t1, t2, t3>>
      \/ Looked(c, n) = <<Pruned(t1, DOMAIN t1), Pruned(t2, DOMAIN t2), Pruned(t3, DOMAIN t3)>>
  BY DEF Looked
<1> HIDE DEF t1, t2, t3
<1> QED BY <1>1, <1>2, PrunedFits

LEMMA ReleasedFits ==
  ASSUME NEW t, NEW key, NEW slot, Fits(t)
  PROVE  Fits(Without(t, key)) /\ Fits(Released(t, key, slot))
<1>1. DOMAIN Without(t, key) \subseteq DOMAIN t /\ DOMAIN Released(t, key, slot) \subseteq DOMAIN t
  BY DEF Without, Released
<1> QED BY <1>1, SmallerFits

LEMMA TablesInit == SignInInit => TablesInv
  BY FS_EmptySet, LimitsAssumption DEF SignInInit, TablesInv, Fits

LEMMA TablesNext == TablesInv /\ [SignInNext]_signInVars => TablesInv'
<1> SUFFICES ASSUME TablesInv, [SignInNext]_signInVars PROVE TablesInv'
  OBVIOUS
<1> USE DEF store, throttle, sockets, tables
<1>1. ASSUME NEW p \in Attempts, Arrives(p) PROVE TablesInv'
  <2>1. CASE UNCHANGED tables
    BY <2>1 DEF TablesInv, Fits
  <2>2. ASSUME NEW c, NEW n, Throttled(c, n) PROVE TablesInv'
    BY <2>2, LookedFits DEF Throttled, TablesInv
  <2>3. ASSUME NEW c, NEW n, Reserves(c, n) PROVE TablesInv'
    BY <2>3, LookedFits, StampedFits DEF Reserves, TablesInv
  <2> QED BY <1>1, <2>1, <2>2, <2>3 DEF Arrives
<1>2. ASSUME NEW p \in Attempts, SignsIn(p) PROVE TablesInv'
  BY <1>2, ReleasedFits DEF SignsIn, Succeeded, TablesInv
<1>3. CASE UNCHANGED tables
  BY <1>3 DEF TablesInv, Fits
<1>4. ASSUME NEW p \in Attempts, Answers(p) \/ StoreFails(p), ~SignsIn(p) PROVE UNCHANGED tables
  BY <1>4 DEF Answers, Enters, Reads, Rehashes, OpenLogin, StoreFails
<1>5. ASSUME NEW p \in Attempts, Attach(p) \/ Attached(p) \/ Revalidate(p) \/ LogOut(p)
      PROVE  UNCHANGED tables
  BY <1>5 DEF Attach, Attached, Revalidate, LogOut
<1>6. ASSUME NEW n \in Names, AddUser(n) \/ SetPassword(n) \/ RemoveUser(n) PROVE UNCHANGED tables
  BY <1>6 DEF AddUser, SetPassword, RemoveUser
<1>7. ASSUME NEW id, Save(id) \/ MoveAside(id) \/ Tick \/ LoginExpires \/ PurgeLogins \/ CheckAll
             \/ UNCHANGED signInVars
      PROVE  UNCHANGED tables
  BY <1>7 DEF Save, MoveAside, Tick, LoginExpires, PurgeLogins, CheckAll, signInVars
<1> QED BY <1>1, <1>2, <1>3, <1>4, <1>5, <1>6, <1>7 DEF SignInNext

-----------------------------------------------------------------------------
(* Induction on numbers, over sets, and one-to-one functions.              *)

LEMMA Least ==
  ASSUME NEW T \in SUBSET Nat, T # {}
  PROVE  \E x \in T : \A y \in T : x <= y
<1> DEFINE R == OpToRel(<, Nat)
<1>1. IsWellFoundedOn(R, Nat)
  BY NatLessThanWellFounded
<1>2. ASSUME NEW x \in Nat, NEW y \in Nat, ~(<<y, x>> \in R) PROVE x <= y
  BY <1>2 DEF OpToRel
<1> HIDE DEF R
<1>3. PICK x \in T : \A y \in T : ~(<<y, x>> \in R)
  BY <1>1, WFMin
<1> QED BY <1>2, <1>3

LEMMA Numbers ==
  ASSUME NEW X, 0 \in X, \A n \in Nat : n \in X => n + 1 \in X
  PROVE  \A n \in Nat : n \in X
<1> DEFINE T == Nat \ X
<1> SUFFICES ASSUME T # {} PROVE FALSE
  OBVIOUS
<1>1. PICK x \in T : \A y \in T : x <= y
  <2>1. T \in SUBSET Nat
    OBVIOUS
  <2> QED BY <2>1, Least
<1>2. x - 1 \in Nat /\ x - 1 \notin T
  BY <1>1
<1>3. (x - 1) + 1 \in X
  BY <1>2
<1> QED BY <1>1, <1>3

OneToOne(f, S, T) == /\ f \in [S -> T]
                     /\ \A x, y \in S : f[x] = f[y] => x = y
                     /\ \A z \in T : \E x \in S : f[x] = z

LEMMA OneToOneComposed ==
  ASSUME NEW R, NEW S, NEW T, NEW g, OneToOne(g, R, S), NEW f, OneToOne(f, S, T)
  PROVE  OneToOne([x \in R |-> f[g[x]]], R, T)
<1> DEFINE h == [x \in R |-> f[g[x]]]
<1>1. g \in [R -> S] /\ f \in [S -> T]
  BY DEF OneToOne
<1>2. h \in [R -> T]
  BY <1>1
<1>3. \A x, y \in R : h[x] = h[y] => x = y
  BY <1>1 DEF OneToOne
<1>4. ASSUME NEW z \in T PROVE \E x \in R : h[x] = z
  <2>1. PICK y \in S : f[y] = z
    BY DEF OneToOne
  <2>2. PICK x \in R : g[x] = y
    BY DEF OneToOne
  <2> QED BY <2>1, <2>2
<1> QED BY <1>2, <1>3, <1>4 DEF OneToOne

LEMMA OneToOneCounts ==
  ASSUME NEW n \in Nat, NEW T, NEW f, OneToOne(f, 1 .. n, T)
  PROVE  IsFiniteSet(T) /\ Cardinality(T) = n
<1>1. f \in Bijection(1 .. n, T)
  BY Fun_IsBij DEF OneToOne
<1>2. ExistsBijection(1 .. n, T)
  BY <1>1 DEF ExistsBijection
<1> QED BY <1>2, FS_CountingElements, FS_NatBijection

-----------------------------------------------------------------------------
(* The stamps of a sequence that have not expired.                         *)

\* The places of the live stamps, at a time, among the first n.
LiveTo(s, t, n) == {i \in 1 .. n : t - s[i] < Window}
LivePlaces(s, t) == LiveTo(s, t, Len(s))

\* live is what the filter has kept of each of the first n stamps.
Filters(s, t, n, live) ==
  live = [i \in 0 .. n |-> IF i = 0 THEN <<>>
                           ELSE IF t - s[i] < Window THEN Append(live[i - 1], s[i]) ELSE live[i - 1]]

LEMMA FilterExists ==
  ASSUME NEW s, NEW t
  PROVE  \A n \in Nat : \E live : Filters(s, t, n, live)
<1> DEFINE More(i, was) == IF t - s[i] < Window THEN Append(was, s[i]) ELSE was
           X == {n \in Nat : \E live : Filters(s, t, n, live)}
<1>1. 0 \in X
  <2> DEFINE live == [i \in 0 .. 0 |-> <<>>]
  <2>1. live = [i \in 0 .. 0 |-> IF i = 0 THEN <<>> ELSE More(i, live[i - 1])]
    OBVIOUS
  <2>2. Filters(s, t, 0, live)
    BY <2>1 DEF Filters
  <2> QED BY <2>2
<1>2. ASSUME NEW n \in Nat, n \in X PROVE n + 1 \in X
  <2>1. PICK live : live = [i \in 0 .. n |-> IF i = 0 THEN <<>> ELSE More(i, live[i - 1])]
    BY <1>2 DEF Filters
  <2> HIDE DEF More
  <2> DEFINE more == [i \in 0 .. n + 1 |-> IF i <= n THEN live[i] ELSE More(n + 1, live[n])]
  <2>2. \A i \in 0 .. n + 1 : more[i] = IF i = 0 THEN <<>> ELSE More(i, more[i - 1])
    <3> SUFFICES ASSUME NEW i \in 0 .. n + 1
                 PROVE  more[i] = IF i = 0 THEN <<>> ELSE More(i, more[i - 1])
      OBVIOUS
    <3>1. CASE i = 0
      BY <2>1, <3>1
    <3>2. CASE i \in 1 .. n
      <4>1. more[i] = live[i] /\ more[i - 1] = live[i - 1]
        BY <3>2
      <4>2. live[i] = More(i, live[i - 1])
        BY <2>1, <3>2
      <4> QED BY <3>2, <4>1, <4>2
    <3>3. CASE i = n + 1
      <4>1. more[i] = More(i, live[n]) /\ more[i - 1] = live[n]
        BY <3>3
      <4> QED BY <3>3, <4>1
    <3> QED BY <3>1, <3>2, <3>3
  <2>3. more = [i \in 0 .. n + 1 |-> more[i]]
    OBVIOUS
  <2> HIDE DEF more
  <2>4. more = [i \in 0 .. n + 1 |-> IF i = 0 THEN <<>> ELSE More(i, more[i - 1])]
    BY <2>2, <2>3
  <2>5. Filters(s, t, n + 1, more)
    BY <2>4 DEF Filters, More
  <2> QED BY <2>5
<1> HIDE DEF X
<1>3. \A n \in Nat : n \in X
  BY <1>1, <1>2, Numbers
<1> QED BY <1>3 DEF X

\* What is kept of a sequence is one to one with the places of its live stamps.
LEMMA FilterKeeps ==
  ASSUME NEW s \in Seq(Nat), NEW t, NEW live, Filters(s, t, Len(s), live)
  PROVE  /\ live[Len(s)] \in Seq(Nat)
         /\ \E h : /\ OneToOne(h, 1 .. Len(live[Len(s)]), LivePlaces(s, t))
                   /\ \A j \in 1 .. Len(live[Len(s)]) : live[Len(s)][j] = s[h[j]]
<1> DEFINE Keeps(n) == /\ live[n] \in Seq(Nat)
                       /\ \E h : /\ OneToOne(h, 1 .. Len(live[n]), LiveTo(s, t, n))
                                 /\ \A j \in 1 .. Len(live[n]) : live[n][j] = s[h[j]]
           X == {n \in Nat : n <= Len(s) => Keeps(n)}
<1>1. Len(s) \in Nat
  OBVIOUS
<1>2. /\ live[0] = <<>>
      /\ \A n \in 1 .. Len(s) : live[n] = IF t - s[n] < Window THEN Append(live[n - 1], s[n]) ELSE live[n - 1]
  <2>1. live = [i \in 0 .. Len(s) |-> IF i = 0 THEN <<>>
                  ELSE IF t - s[i] < Window THEN Append(live[i - 1], s[i]) ELSE live[i - 1]]
    BY DEF Filters
  <2>2. \A n \in 0 .. Len(s) : live[n] = IF n = 0 THEN <<>>
                  ELSE IF t - s[n] < Window THEN Append(live[n - 1], s[n]) ELSE live[n - 1]
    BY <2>1
  <2>3. 0 \in 0 .. Len(s) /\ \A n \in 1 .. Len(s) : n \in 0 .. Len(s) /\ n # 0
    BY <1>1
  <2> QED BY <2>2, <2>3
<1>3. 0 \in X
  <2>1. live[0] \in Seq(Nat) /\ Len(live[0]) = 0 /\ 1 .. 0 = {} /\ LiveTo(s, t, 0) = {}
    BY <1>2 DEF LiveTo
  <2>2. OneToOne([j \in {} |-> j], {}, {})
    BY DEF OneToOne
  <2> QED BY <2>1, <2>2
<1>4. ASSUME NEW n \in Nat, n \in X PROVE n + 1 \in X
  <2> SUFFICES ASSUME n + 1 <= Len(s) PROVE Keeps(n + 1)
    <3>1. n + 1 \in Nat
      OBVIOUS
    <3> HIDE DEF Keeps
    <3> QED BY <3>1
  <2>1. live[n] \in Seq(Nat) /\ n + 1 \in 1 .. Len(s) /\ s[n + 1] \in Nat /\ (n + 1) - 1 = n
    BY <1>1, <1>4
  <2>2. PICK h : /\ OneToOne(h, 1 .. Len(live[n]), LiveTo(s, t, n))
                 /\ \A j \in 1 .. Len(live[n]) : live[n][j] = s[h[j]]
    BY <1>1, <1>4
  <2>3. CASE t - s[n + 1] < Window
    <3> DEFINE L == Len(live[n])
               g == [j \in 1 .. L + 1 |-> IF j = L + 1 THEN n + 1 ELSE h[j]]
    <3>1. L \in Nat /\ h \in [1 .. L -> LiveTo(s, t, n)]
      BY <2>1, <2>2 DEF OneToOne
    <3>2. live[n + 1] = Append(live[n], s[n + 1])
      BY <1>2, <2>1, <2>3
    <3>3. /\ live[n + 1] \in Seq(Nat) /\ Len(live[n + 1]) = L + 1
          /\ live[n + 1][L + 1] = s[n + 1]
          /\ \A j \in 1 .. L : live[n + 1][j] = live[n][j]
      BY <2>1, <3>2
    <3> HIDE DEF L
    <3>4. LiveTo(s, t, n + 1) = LiveTo(s, t, n) \cup {n + 1} /\ n + 1 \notin LiveTo(s, t, n)
      BY <2>3 DEF LiveTo
    <3>5. OneToOne(g, 1 .. L + 1, LiveTo(s, t, n + 1))
      <4>1. g \in [1 .. L + 1 -> LiveTo(s, t, n + 1)]
        BY <3>1, <3>4
      <4>2. \A x, y \in 1 .. L + 1 : g[x] = g[y] => x = y
        <5>1. \A x \in 1 .. L : g[x] = h[x] /\ g[x] # n + 1
          BY <3>1, <3>4
        <5>2. g[L + 1] = n + 1 /\ \A x \in 1 .. L + 1 : x = L + 1 \/ x \in 1 .. L
          BY <3>1
        <5>3. \A x, y \in 1 .. L : h[x] = h[y] => x = y
          BY <2>2 DEF OneToOne, L
        <5> HIDE DEF g
        <5> QED BY <5>1, <5>2, <5>3
      <4>3. ASSUME NEW z \in LiveTo(s, t, n + 1) PROVE \E x \in 1 .. L + 1 : g[x] = z
        <5>1. CASE z = n + 1
          BY <3>1, <5>1
        <5>2. CASE z \in LiveTo(s, t, n)
          <6>1. PICK x \in 1 .. L : h[x] = z
            BY <2>2, <5>2 DEF OneToOne, L
          <6> QED BY <3>1, <6>1
        <5> QED BY <3>4, <5>1, <5>2
      <4> QED BY <4>1, <4>2, <4>3 DEF OneToOne
    <3>6. \A j \in 1 .. L + 1 : live[n + 1][j] = s[g[j]]
      <4>1. \A j \in 1 .. L : live[n + 1][j] = live[n][j] /\ live[n][j] = s[h[j]] /\ g[j] = h[j]
        <5>1. \A j \in 1 .. L : live[n][j] = s[h[j]]
          BY <2>2 DEF L
        <5>2. \A j \in 1 .. L : g[j] = h[j]
          BY <3>1
        <5> HIDE DEF g
        <5> QED BY <3>3, <5>1, <5>2
      <4>2. g[L + 1] = n + 1 /\ \A x \in 1 .. L + 1 : x = L + 1 \/ x \in 1 .. L
        BY <3>1
      <4> HIDE DEF g
      <4> QED BY <3>3, <4>1, <4>2
    <3> HIDE DEF g
    <3> QED BY <3>3, <3>5, <3>6
  <2>4. CASE ~(t - s[n + 1] < Window)
    <3>1. live[n + 1] = live[n]
      BY <1>2, <2>1, <2>4
    <3>2. LiveTo(s, t, n + 1) = LiveTo(s, t, n)
      BY <2>4 DEF LiveTo
    <3> QED BY <2>1, <2>2, <3>1, <3>2
  <2> QED BY <2>3, <2>4
<1> HIDE DEF X
<1>5. Len(s) \in X
  BY <1>1, <1>3, <1>4, Numbers
<1>6. Keeps(Len(s))
  BY <1>1, <1>5 DEF X
<1> QED BY <1>6 DEF LivePlaces

LEMMA LiveIs ==
  ASSUME NEW s \in Seq(Nat)
  PROVE  /\ Live(s) \in Seq(Nat)
         /\ \E h : /\ OneToOne(h, 1 .. Len(Live(s)), LivePlaces(s, now))
                   /\ \A j \in 1 .. Len(Live(s)) : Live(s)[j] = s[h[j]]
<1>1. Len(s) \in Nat
  OBVIOUS
<1>2. \E live : Filters(s, now, Len(s), live)
  BY <1>1, FilterExists
<1> DEFINE live == CHOOSE f : Filters(s, now, Len(s), f)
<1>3. Filters(s, now, Len(s), live)
  BY <1>2
<1>4. Live(s) = live[Len(s)]
  BY DEF Live, Filters
<1> HIDE DEF live
<1> QED BY <1>3, <1>4, FilterKeeps

-----------------------------------------------------------------------------
(* A budget's stamps and the attempts that use it.                         *)

\* Each live stamp is that of one attempt of Q, and each of these has one.
Counted(s, t, Q, slot) ==
  \E f : OneToOne(f, LivePlaces(s, t), Q) /\ \A i \in LivePlaces(s, t) : slot[f[i]] = s[i]

LEMMA CountedSame ==
  ASSUME NEW s, NEW t, NEW Q, NEW slot, NEW other, \A q \in Q : other[q] = slot[q],
         Counted(s, t, Q, slot)
  PROVE  Counted(s, t, Q, other)
<1>1. PICK f : OneToOne(f, LivePlaces(s, t), Q) /\ \A i \in LivePlaces(s, t) : slot[f[i]] = s[i]
  BY DEF Counted
<1>2. \A i \in LivePlaces(s, t) : f[i] \in Q
  BY <1>1 DEF OneToOne
<1> QED BY <1>1, <1>2 DEF Counted

LEMMA CountedEmpty == \A t, slot : Counted(<<>>, t, {}, slot)
<1> TAKE t, slot
<1>1. LivePlaces(<<>>, t) = {}
  BY DEF LivePlaces, LiveTo
<1>2. OneToOne([i \in {} |-> i], {}, {})
  BY DEF OneToOne
<1> QED BY <1>1, <1>2 DEF Counted

\* _live: expired stamps are nobody's.
LEMMA CountedLive ==
  ASSUME NEW s \in Seq(Nat), NEW Q, NEW slot, Counted(s, now, Q, slot)
  PROVE  /\ Live(s) \in Seq(Nat) /\ Counted(Live(s), now, Q, slot)
         /\ IsFiniteSet(Q) /\ Len(Live(s)) = Cardinality(Q)
<1> DEFINE live == Live(s)
<1>1. PICK f : OneToOne(f, LivePlaces(s, now), Q) /\ \A i \in LivePlaces(s, now) : slot[f[i]] = s[i]
  BY DEF Counted
<1>2. live \in Seq(Nat) /\ Len(live) \in Nat
  BY LiveIs
<1>3. PICK h : /\ OneToOne(h, 1 .. Len(live), LivePlaces(s, now))
               /\ \A j \in 1 .. Len(live) : live[j] = s[h[j]]
  BY LiveIs
<1> HIDE DEF live
<1>4. \A j \in 1 .. Len(live) : h[j] \in LivePlaces(s, now)
  BY <1>3 DEF OneToOne
<1>5. LivePlaces(live, now) = 1 .. Len(live)
  <2>1. \A j \in 1 .. Len(live) : now - live[j] < Window
    BY <1>3, <1>4 DEF LivePlaces, LiveTo
  <2> QED BY <2>1 DEF LivePlaces, LiveTo
<1> DEFINE g == [j \in 1 .. Len(live) |-> f[h[j]]]
<1>6. OneToOne(g, 1 .. Len(live), Q)
  BY <1>1, <1>3, OneToOneComposed
<1>7. \A j \in 1 .. Len(live) : slot[g[j]] = live[j]
  BY <1>1, <1>3, <1>4
<1> HIDE DEF g
<1>8. Counted(live, now, Q, slot)
  BY <1>5, <1>6, <1>7 DEF Counted
<1>9. IsFiniteSet(Q) /\ Len(live) = Cardinality(Q)
  BY <1>2, <1>6, OneToOneCounts
<1> QED BY <1>2, <1>8, <1>9 DEF live

\* The clock: a stamp expires with its attempt.
LEMMA CountedLater ==
  ASSUME NEW s \in Seq(Nat), NEW t \in Nat, NEW Q, NEW slot, Counted(s, t, Q, slot)
  PROVE  Counted(s, t + 1, {q \in Q : t + 1 - slot[q] < Window}, slot)
<1> DEFINE P == LivePlaces(s, t)
           L == LivePlaces(s, t + 1)
           R == {q \in Q : t + 1 - slot[q] < Window}
<1>1. PICK f : OneToOne(f, P, Q) /\ \A i \in P : slot[f[i]] = s[i]
  BY DEF Counted
<1>2. L = {i \in P : t + 1 - s[i] < Window}
  <2>1. \A i \in 1 .. Len(s) : s[i] \in Nat
    OBVIOUS
  <2>2. \A v \in Nat : t + 1 - v < Window => t - v < Window
    BY BudgetsAssumption
  <2>3. \A i \in 1 .. Len(s) : t + 1 - s[i] < Window => t - s[i] < Window
    BY <2>1, <2>2
  <2>4. /\ P \subseteq 1 .. Len(s) /\ L \subseteq 1 .. Len(s)
        /\ \A i \in 1 .. Len(s) : i \in P <=> t - s[i] < Window
        /\ \A i \in 1 .. Len(s) : i \in L <=> t + 1 - s[i] < Window
    BY DEF LivePlaces, LiveTo
  <2> HIDE DEF P, L
  <2> QED BY <2>3, <2>4
<1> DEFINE g == [i \in L |-> f[i]]
<1> HIDE DEF P, L
<1>3. f \in [P -> Q]
  BY <1>1 DEF OneToOne
<1>4. g \in [L -> R]
  BY <1>1, <1>2, <1>3
<1>5. \A x, y \in L : g[x] = g[y] => x = y
  BY <1>1, <1>2 DEF OneToOne
<1>6. ASSUME NEW z \in R PROVE \E x \in L : g[x] = z
  <2>1. PICK x \in P : f[x] = z
    BY <1>1 DEF OneToOne
  <2> QED BY <1>1, <1>2, <2>1
<1>7. OneToOne(g, L, R) /\ \A i \in L : slot[g[i]] = s[i]
  BY <1>1, <1>2, <1>4, <1>5, <1>6 DEF OneToOne
<1> HIDE DEF g, R
<1> QED BY <1>7 DEF Counted, L, R

\* reserve: a stamp for a new attempt.
LEMMA CountedAppended ==
  ASSUME NEW s \in Seq(Nat), NEW t \in Nat, NEW Q, NEW slot, Counted(s, t, Q, slot),
         NEW p, p \notin Q, slot[p] = t
  PROVE  Append(s, t) \in Seq(Nat) /\ Counted(Append(s, t), t, Q \cup {p}, slot)
<1> DEFINE P == LivePlaces(s, t)
           r == Append(s, t)
           L == LivePlaces(r, t)
           n == Len(s) + 1
<1>1. PICK f : OneToOne(f, P, Q) /\ \A i \in P : slot[f[i]] = s[i]
  BY DEF Counted
<1>2. /\ r \in Seq(Nat) /\ Len(r) = n /\ r[n] = t /\ n \in Nat
      /\ \A i \in 1 .. Len(s) : r[i] = s[i]
  OBVIOUS
<1> HIDE DEF r
<1>3. L = P \cup {n} /\ n \notin P /\ \A i \in P : r[i] = s[i]
  <2>1. t - r[n] < Window
    BY <1>2, BudgetsAssumption
  <2> QED BY <1>2, <2>1 DEF LivePlaces, LiveTo
<1> DEFINE g == [i \in L |-> IF i = n THEN p ELSE f[i]]
<1> HIDE DEF P, L, n
<1>4. f \in [P -> Q]
  BY <1>1 DEF OneToOne
<1>5. g \in [L -> Q \cup {p}] /\ g[n] = p /\ \A i \in P : g[i] = f[i]
  BY <1>3, <1>4
<1> HIDE DEF g
<1>6. \A x, y \in L : g[x] = g[y] => x = y
  BY <1>1, <1>3, <1>4, <1>5 DEF OneToOne
<1>7. ASSUME NEW z \in Q \cup {p} PROVE \E x \in L : g[x] = z
  BY <1>1, <1>3, <1>5 DEF OneToOne
<1>8. OneToOne(g, L, Q \cup {p}) /\ \A i \in L : slot[g[i]] = r[i]
  BY <1>1, <1>2, <1>3, <1>5, <1>6, <1>7 DEF OneToOne
<1>9. Counted(r, t, Q \cup {p}, slot)
  BY <1>8 DEF Counted, L
<1> QED BY <1>2, <1>9 DEF r

\* r is s without its j-th stamp.
Lacks(s, r, j) == /\ Len(r) = Len(s) - 1
                  /\ \A i \in 1 .. Len(s) - 1 : r[i] = IF i < j THEN s[i] ELSE s[i + 1]

\* stamps.remove: the first stamp of a value goes.
LEMMA RemovedIs ==
  ASSUME NEW s \in Seq(Nat), NEW v, Contains(s, v)
  PROVE  /\ RemoveFirst(s, v) \in Seq(Nat)
         /\ \E j \in 1 .. Len(s) : s[j] = v /\ Lacks(s, RemoveFirst(s, v), j)
<1> DEFINE I == {i \in 1 .. Len(s) : s[i] = v}
<1>1. I # {} /\ I \in SUBSET Nat
  BY DEF Contains
<1>2. PICK j \in I : \A i \in I : j <= i
  BY <1>1, Least
<1>3. Min(I) = j
  <2>1. \A x \in I : (\A y \in I : x <= y) => x = j
    BY <1>1, <1>2
  <2> QED BY <1>1, <1>2, <2>1 DEF Min
<1>4. RemoveFirst(s, v) = SubSeq(s, 1, j - 1) \o SubSeq(s, j + 1, Len(s))
  BY <1>1, <1>3 DEF RemoveFirst, RemoveAt, SelectInSeq
<1>5. j \in 1 .. Len(s) /\ s[j] = v /\ Len(s) \in Nat
  BY <1>2
<1> HIDE DEF I
<1>6. /\ SubSeq(s, 1, j - 1) \in Seq(Nat) /\ Len(SubSeq(s, 1, j - 1)) = j - 1
      /\ \A i \in 1 .. j - 1 : SubSeq(s, 1, j - 1)[i] = s[i]
  BY <1>5
<1>7. /\ SubSeq(s, j + 1, Len(s)) \in Seq(Nat) /\ Len(SubSeq(s, j + 1, Len(s))) = Len(s) - j
      /\ \A i \in 1 .. Len(s) - j : SubSeq(s, j + 1, Len(s))[i] = s[j + i]
  BY <1>5
<1> DEFINE a == SubSeq(s, 1, j - 1)
           b == SubSeq(s, j + 1, Len(s))
<1> HIDE DEF a, b
<1>8. /\ a \o b \in Seq(Nat) /\ Len(a \o b) = Len(s) - 1
      /\ \A i \in 1 .. Len(s) - 1 : (a \o b)[i] = IF i < j THEN s[i] ELSE s[i + 1]
  <2>1. /\ a \in Seq(Nat) /\ Len(a) = j - 1 /\ b \in Seq(Nat) /\ Len(b) = Len(s) - j
        /\ \A i \in 1 .. j - 1 : a[i] = s[i]
        /\ \A i \in 1 .. Len(s) - j : b[i] = s[j + i]
    BY <1>6, <1>7 DEF a, b
  <2>2. /\ a \o b \in Seq(Nat) /\ Len(a \o b) = Len(a) + Len(b)
        /\ \A i \in 1 .. Len(a) + Len(b) : (a \o b)[i] = IF i <= Len(a) THEN a[i] ELSE b[i - Len(a)]
    <3>1. a \in Seq(Nat) /\ b \in Seq(Nat)
      BY <2>1
    <3> QED BY <3>1
  <2>3. ASSUME NEW i \in 1 .. Len(s) - 1 PROVE (a \o b)[i] = IF i < j THEN s[i] ELSE s[i + 1]
    <3>1. CASE i < j
      BY <1>5, <2>1, <2>2, <3>1
    <3>2. CASE ~(i < j)
      <4>1. i - (j - 1) \in 1 .. Len(s) - j /\ j + (i - (j - 1)) = i + 1 /\ i \in 1 .. Len(a) + Len(b)
            /\ ~(i <= Len(a))
        BY <1>5, <2>1, <3>2
      <4>2. (a \o b)[i] = b[i - (j - 1)]
        BY <2>1, <2>2, <4>1
      <4> QED BY <2>1, <3>2, <4>1, <4>2
    <3> QED BY <3>1, <3>2
  <2> QED BY <1>5, <2>1, <2>2, <2>3
<1> QED BY <1>4, <1>5, <1>8 DEF a, b, Lacks

\* h tells where the live stamps that are left were.
Shifts(h, s, r, t, j) == /\ OneToOne(h, LivePlaces(r, t), LivePlaces(s, t) \ {j})
                         /\ \A i \in LivePlaces(r, t) : r[i] = s[h[i]]

LEMMA PlacesLeft ==
  ASSUME NEW s \in Seq(Nat), NEW r \in Seq(Nat), NEW t, NEW j \in 1 .. Len(s), Lacks(s, r, j)
  PROVE  \E h : Shifts(h, s, r, t, j)
<1> DEFINE L == LivePlaces(r, t)
           P == LivePlaces(s, t)
           h == [i \in L |-> IF i < j THEN i ELSE i + 1]
<1>1. Len(s) \in Nat /\ L = {i \in 1 .. Len(s) - 1 : t - r[i] < Window}
      /\ P = {i \in 1 .. Len(s) : t - s[i] < Window}
      /\ \A i \in 1 .. Len(s) - 1 : r[i] = IF i < j THEN s[i] ELSE s[i + 1]
  BY DEF LivePlaces, LiveTo, Lacks
<1> HIDE DEF L, P
<1>2. ASSUME NEW i \in L PROVE h[i] \in 1 .. Len(s) /\ h[i] # j /\ r[i] = s[h[i]]
  <2>1. i \in 1 .. Len(s) - 1
    BY <1>1
  <2>2. CASE i < j
    <3>1. h[i] = i /\ r[i] = s[i]
      BY <1>1, <2>1, <2>2
    <3> HIDE DEF h
    <3> QED BY <1>1, <2>1, <2>2, <3>1
  <2>3. CASE ~(i < j)
    <3>1. h[i] = i + 1 /\ r[i] = s[i + 1]
      BY <1>1, <2>1, <2>3
    <3> HIDE DEF h
    <3> QED BY <1>1, <2>1, <2>3, <3>1
  <2> QED BY <2>2, <2>3
<1>3. h \in [L -> P \ {j}]
  <2>1. \A i \in L : h[i] \in P \ {j}
    BY <1>1, <1>2
  <2> QED BY <2>1
<1>4. \A x, y \in L : h[x] = h[y] => x = y
  <2>1. \A i \in L : i \in Nat
    BY <1>1
  <2> QED BY <2>1
<1>5. ASSUME NEW z \in P \ {j} PROVE \E x \in L : h[x] = z
  <2>1. CASE z < j
    <3>1. z \in L
      BY <1>1, <1>5, <2>1
    <3> QED BY <2>1, <3>1
  <2>2. CASE ~(z < j)
    <3>1. z - 1 \in 1 .. Len(s) - 1 /\ ~(z - 1 < j) /\ (z - 1) + 1 = z
      BY <1>1, <1>5, <2>2
    <3>2. z - 1 \in L
      BY <1>1, <1>5, <3>1
    <3> QED BY <3>1, <3>2
  <2> QED BY <2>1, <2>2
<1>6. OneToOne(h, L, P \ {j})
  BY <1>3, <1>4, <1>5 DEF OneToOne
<1> HIDE DEF h
<1>7. Shifts(h, s, r, t, j)
  BY <1>2, <1>6 DEF L, P, Shifts
<1> QED BY <1>7

\* succeeded: one stamp of the attempt's slot is given back, its own or one of another attempt
\* with the same slot, which then has the attempt's.
LEMMA CountedRemoved ==
  ASSUME NEW s \in Seq(Nat), NEW t, NEW Q, NEW slot, Counted(s, t, Q, slot),
         NEW v, Contains(s, v)
  PROVE  /\ RemoveFirst(s, v) \in Seq(Nat)
         /\ ~(t - v < Window) => Counted(RemoveFirst(s, v), t, Q, slot)
         /\ \A p \in Q : slot[p] = v => Counted(RemoveFirst(s, v), t, Q \ {p}, slot)
<1> DEFINE r == RemoveFirst(s, v)
           P == LivePlaces(s, t)
           L == LivePlaces(r, t)
<1>1. PICK f : OneToOne(f, P, Q) /\ \A i \in P : slot[f[i]] = s[i]
  BY DEF Counted
<1>2. r \in Seq(Nat)
  BY RemovedIs
<1>3. PICK j \in 1 .. Len(s) : s[j] = v /\ Lacks(s, r, j)
  BY RemovedIs
<1>4. \A i \in P : i \in 1 .. Len(s) /\ t - s[i] < Window
  BY DEF LivePlaces, LiveTo
<1>5. t - v < Window => j \in P
  BY <1>3 DEF LivePlaces, LiveTo
<1> HIDE DEF r
<1>6. PICK h : Shifts(h, s, r, t, j)
  BY <1>2, <1>3, PlacesLeft
<1>7. OneToOne(h, L, P \ {j}) /\ \A i \in L : r[i] = s[h[i]]
  BY <1>6 DEF Shifts
<1>8. \A i \in L : h[i] \in P \ {j}
  BY <1>7 DEF OneToOne
<1> HIDE DEF P, L
<1>9. ASSUME ~(t - v < Window) PROVE Counted(r, t, Q, slot)
  <2>1. P \ {j} = P
    BY <1>3, <1>4, <1>9
  <2> DEFINE g == [i \in L |-> f[h[i]]]
  <2>2. OneToOne(h, L, P) /\ OneToOne(f, P, Q)
    BY <1>1, <1>7, <2>1
  <2>3. OneToOne(g, L, Q)
    BY <2>2, OneToOneComposed
  <2>4. \A i \in L : slot[g[i]] = r[i]
    BY <1>1, <1>7, <1>8
  <2> HIDE DEF g
  <2> QED BY <2>3, <2>4 DEF Counted, L
<1>10. ASSUME NEW p \in Q, slot[p] = v PROVE Counted(r, t, Q \ {p}, slot)
  <2>1. PICK k \in P : f[k] = p
    BY <1>1 DEF OneToOne
  <2>2. s[k] = v /\ j \in P
    BY <1>1, <1>4, <1>5, <1>10, <2>1
  <2> DEFINE e == [i \in P \ {j} |-> IF i = k THEN f[j] ELSE f[i]]
  <2>3. f \in [P -> Q] /\ \A x, y \in P : f[x] = f[y] => x = y
    BY <1>1 DEF OneToOne
  <2>4. \A i \in P \ {j} : e[i] \in Q /\ e[i] # p /\ slot[e[i]] = s[i]
    <3> SUFFICES ASSUME NEW i \in P \ {j} PROVE e[i] \in Q /\ e[i] # p /\ slot[e[i]] = s[i]
      OBVIOUS
    <3>1. CASE i = k
      BY <1>1, <1>3, <2>1, <2>2, <2>3, <3>1
    <3>2. CASE i # k
      BY <1>1, <2>1, <2>3, <3>2
    <3> QED BY <3>1, <3>2
  <2>5. e \in [P \ {j} -> Q \ {p}]
    BY <2>4
  <2>6. \A x, y \in P \ {j} : e[x] = e[y] => x = y
    BY <2>1, <2>2, <2>3
  <2>7. ASSUME NEW z \in Q \ {p} PROVE \E x \in P \ {j} : e[x] = z
    <3>1. PICK y \in P : f[y] = z
      BY <1>1 DEF OneToOne
    <3>2. y # k
      BY <2>1, <2>7, <3>1
    <3>3. CASE y = j
      BY <2>1, <3>1, <3>2, <3>3
    <3>4. CASE y # j
      BY <3>1, <3>2, <3>4
    <3> QED BY <3>3, <3>4
  <2>8. OneToOne(e, P \ {j}, Q \ {p})
    BY <2>5, <2>6, <2>7 DEF OneToOne
  <2> HIDE DEF e
  <2> DEFINE g == [i \in L |-> e[h[i]]]
  <2>9. OneToOne(g, L, Q \ {p})
    BY <1>7, <2>8, OneToOneComposed
  <2>10. \A i \in L : slot[g[i]] = r[i]
    BY <1>7, <1>8, <2>4
  <2> HIDE DEF g
  <2> QED BY <2>9, <2>10 DEF Counted, L
<1> QED BY <1>2, <1>9, <1>10 DEF r

\* An attempt that has a stamp has it in the sequence.
LEMMA CountedContains ==
  ASSUME NEW s \in Seq(Nat), NEW t, NEW Q, NEW slot, Counted(s, t, Q, slot), NEW p \in Q
  PROVE  Contains(s, slot[p])
<1>1. PICK f : OneToOne(f, LivePlaces(s, t), Q) /\ \A i \in LivePlaces(s, t) : slot[f[i]] = s[i]
  BY DEF Counted
<1>2. PICK i \in LivePlaces(s, t) : f[i] = p
  BY <1>1 DEF OneToOne
<1> QED BY <1>1, <1>2 DEF Contains, LivePlaces, LiveTo

-----------------------------------------------------------------------------
(* The rows of the throttle's tables.                                      *)

Row(table, key) == IF key \in DOMAIN table THEN table[key] ELSE <<>>

Rows(table) == \A key \in DOMAIN table : table[key] \in Seq(Nat)

LEMMA RowType == ASSUME NEW table, Rows(table), NEW key PROVE Row(table, key) \in Seq(Nat)
  BY DEF Rows, Row

LEMMA StampsAre ==
  ASSUME NEW table, NEW key
  PROVE  Stamps(table, key) = Live(Row(table, key)) /\ Live(<<>>) = <<>>
<1>1. ASSUME NEW s \in Seq(Nat), s = <<>> PROVE Live(s) = <<>>
  <2>1. Live(s) \in Seq(Nat)
    BY LiveIs
  <2>2. PICK h : /\ OneToOne(h, 1 .. Len(Live(s)), LivePlaces(s, now))
                 /\ \A j \in 1 .. Len(Live(s)) : Live(s)[j] = s[h[j]]
    BY LiveIs
  <2>3. LivePlaces(s, now) = {}
    BY <1>1 DEF LivePlaces, LiveTo
  <2>4. 1 .. Len(Live(s)) = {}
    BY <2>2, <2>3 DEF OneToOne
  <2> DEFINE x == Live(s)
  <2>5. x \in Seq(Nat) /\ 1 .. Len(x) = {}
    BY <2>1, <2>4
  <2> HIDE DEF x
  <2>6. Len(x) \in Nat
    BY <2>5
  <2>7. Len(x) = 0
    <3>1. \A n \in Nat : n # 0 => 1 \in 1 .. n
      OBVIOUS
    <3> QED BY <2>5, <2>6, <3>1
  <2>8. x = <<>>
    BY <2>5, <2>7
  <2> QED BY <2>8 DEF x
<1>2. Live(<<>>) = <<>>
  <2>1. <<>> \in Seq(Nat)
    OBVIOUS
  <2> QED BY <1>1, <2>1
<1> QED BY <1>2 DEF Stamps, Row

\* Stamps that go from a table are nobody's.
Trims(t, u) ==
  /\ Rows(u)
  /\ \A key, Q, slot : Counted(Row(t, key), now, Q, slot) => Counted(Row(u, key), now, Q, slot)

LEMMA TrimsBoth ==
  ASSUME NEW t, NEW u, NEW v, Trims(t, u), Trims(u, v)
  PROVE  Trims(t, v)
  BY DEF Trims

LEMMA PrunedTrims == ASSUME NEW t, Rows(t), NEW keys PROVE Trims(t, Pruned(t, keys))
<1> DEFINE u == Pruned(t, keys)
<1>1. /\ DOMAIN u = {k \in DOMAIN t : k \in keys => Live(t[k]) # <<>>}
      /\ \A k \in DOMAIN u : u[k] = IF k \in keys THEN Live(t[k]) ELSE t[k]
  BY DEF Pruned
<1> HIDE DEF u
<1>2. Rows(u)
  BY <1>1, LiveIs DEF Rows
<1>3. ASSUME NEW key, NEW Q, NEW slot, Counted(Row(t, key), now, Q, slot)
      PROVE  Counted(Row(u, key), now, Q, slot)
  <2>1. Row(u, key) = Row(t, key) \/ Row(u, key) = Live(Row(t, key))
    BY <1>1 DEF Row
  <2> QED BY <1>3, <2>1, RowType, CountedLive
<1> QED BY <1>2, <1>3 DEF Trims, u

LEMMA LookedTrims ==
  ASSUME Rows(names), Rows(clients), Rows(accounts), NEW c, NEW n
  PROVE  LET t == Looked(c, n)
         IN  Trims(names, t[1]) /\ Trims(clients, t[2]) /\ Trims(accounts, t[3])
<1> DEFINE t1 == Pruned(names, {<<c, n>>})
           t2 == IF Len(Stamps(names, <<c, n>>)) >= mix.perName THEN clients ELSE Pruned(clients, {c})
           t3 == IF \/ Len(Stamps(names, <<c, n>>)) >= mix.perName
                    \/ Len(Stamps(clients, c)) >= PerClient
                 THEN accounts ELSE Pruned(accounts, {n})
<1>1. Trims(clients, clients) /\ Trims(accounts, accounts)
  BY DEF Trims
<1>2. Trims(names, t1) /\ Trims(clients, t2) /\ Trims(accounts, t3)
  BY <1>1, PrunedTrims
<1>3. \/ Looked(c, n) = <<t1, t2, t3>>
      \/ Looked(c, n) = <<Pruned(t1, DOMAIN t1), Pruned(t2, DOMAIN t2), Pruned(t3, DOMAIN t3)>>
  BY DEF Looked
<1> HIDE DEF t1, t2, t3
<1>4. /\ Trims(t1, Pruned(t1, DOMAIN t1)) /\ Trims(t2, Pruned(t2, DOMAIN t2))
      /\ Trims(t3, Pruned(t3, DOMAIN t3))
  BY <1>2, PrunedTrims DEF Trims
<1>5. /\ Trims(names, Pruned(t1, DOMAIN t1)) /\ Trims(clients, Pruned(t2, DOMAIN t2))
      /\ Trims(accounts, Pruned(t3, DOMAIN t3))
  BY <1>2, <1>4, TrimsBoth
<1> QED BY <1>2, <1>3, <1>5

LEMMA StampedRow ==
  ASSUME NEW t, Rows(t), now \in Nat, NEW key
  PROVE  /\ Rows(Stamped(t, key))
         /\ \A k : Row(Stamped(t, key), k) = IF k = key THEN Append(Row(t, k), now) ELSE Row(t, k)
<1> DEFINE u == Stamped(t, key)
<1>1. <<now>> = Append(<<>>, now) /\ \A s \in Seq(Nat) : Append(s, now) \in Seq(Nat)
  OBVIOUS
<1>2. /\ DOMAIN u = DOMAIN t \cup {key}
      /\ \A k \in DOMAIN u : u[k] = IF k = key THEN Append(Row(t, k), now) ELSE t[k]
  BY <1>1 DEF Stamped, Row
<1> HIDE DEF u
<1>3. \A k : Row(u, k) = IF k = key THEN Append(Row(t, k), now) ELSE Row(t, k)
  BY <1>2 DEF Row
<1>4. Rows(u)
  <2> SUFFICES ASSUME NEW k \in DOMAIN u PROVE u[k] \in Seq(Nat)
    BY DEF Rows
  <2>1. CASE k = key
    BY <1>1, <1>2, <2>1, RowType
  <2>2. CASE k # key
    BY <1>2, <2>2 DEF Rows
  <2> QED BY <2>1, <2>2
<1> QED BY <1>3, <1>4 DEF u

LEMMA WithoutRow ==
  ASSUME NEW t, Rows(t), NEW key
  PROVE  /\ Rows(Without(t, key))
         /\ \A k : Row(Without(t, key), k) = IF k = key THEN <<>> ELSE Row(t, k)
<1> DEFINE u == Without(t, key)
<1>1. DOMAIN u = DOMAIN t \ {key} /\ \A k \in DOMAIN u : u[k] = t[k]
  BY DEF Without
<1> HIDE DEF u
<1>2. Rows(u) /\ \A k : Row(u, k) = IF k = key THEN <<>> ELSE Row(t, k)
  BY <1>1 DEF Rows, Row
<1> QED BY <1>2 DEF u

LEMMA ReleasedRow ==
  ASSUME NEW t, Rows(t), NEW key, NEW slot
  PROVE  /\ Rows(Released(t, key, slot))
         /\ \A k : Row(Released(t, key, slot), k) =
                     IF k = key /\ Contains(Row(t, k), slot) THEN RemoveFirst(Row(t, k), slot)
                     ELSE Row(t, k)
<1> DEFINE u == Released(t, key, slot)
           kept == RemoveFirst(t[key], slot)
<1>1. ~Contains(<<>>, slot)
  BY DEF Contains
<1>2. CASE key \notin DOMAIN t \/ ~Contains(t[key], slot)
  <2>1. u = t
    BY <1>2 DEF Released
  <2>2. ~Contains(Row(t, key), slot)
    BY <1>1, <1>2 DEF Row
  <2> HIDE DEF u
  <2> QED BY <2>1, <2>2 DEF u
<1>3. CASE key \in DOMAIN t /\ Contains(t[key], slot)
  <2>1. Row(t, key) = t[key] /\ kept \in Seq(Nat)
    BY <1>3, RemovedIs DEF Rows, Row
  <2>2. CASE kept = <<>>
    <3>1. u = Without(t, key)
      BY <1>3, <2>2 DEF Released
    <3> HIDE DEF u
    <3>2. Rows(u) /\ \A k : Row(u, k) = IF k = key THEN <<>> ELSE Row(t, k)
      BY <3>1, WithoutRow
    <3> QED BY <1>3, <2>1, <2>2, <3>2 DEF u
  <2>3. CASE kept # <<>>
    <3>1. u = [t EXCEPT ![key] = kept]
      BY <1>3, <2>3 DEF Released
    <3> HIDE DEF u, kept
    <3>2. DOMAIN u = DOMAIN t /\ \A k \in DOMAIN t : u[k] = IF k = key THEN kept ELSE t[k]
      BY <3>1
    <3>3. Rows(u) /\ \A k : Row(u, k) = IF k = key THEN kept ELSE Row(t, k)
      BY <1>3, <2>1, <3>2 DEF Rows, Row
    <3> QED BY <1>3, <2>1, <3>3 DEF u, kept
  <2> QED BY <2>2, <2>3
<1> QED BY <1>2, <1>3

\* Attempt p has a slot of the time, and those of Q have the slots they had.
Gains(p, Q, slot, other) == p \notin Q /\ other[p] = now /\ \A q \in Q : other[q] = slot[q]

\* A slot taken, in the table as it is after the budgets were looked at.
LEMMA SlotTaken ==
  ASSUME NEW t, Rows(t), NEW u, Trims(t, u), now \in Nat, NEW key, NEW Q, NEW slot,
         Counted(Row(t, key), now, Q, slot), NEW p, NEW other, Gains(p, Q, slot, other),
         NEW budget \in Nat, Len(Stamps(t, key)) < budget
  PROVE  /\ Counted(Row(Stamped(u, key), key), now, Q \cup {p}, other)
         /\ Cardinality(Q \cup {p}) <= budget
<1>1. Counted(Row(u, key), now, Q, other) /\ Rows(u) /\ p \notin Q /\ other[p] = now
  BY CountedSame DEF Trims, Gains
<1>2. Row(u, key) \in Seq(Nat) /\ Row(t, key) \in Seq(Nat)
  BY <1>1, RowType
<1>3. Counted(Append(Row(u, key), now), now, Q \cup {p}, other)
  BY <1>1, <1>2, CountedAppended
<1>4. Row(Stamped(u, key), key) = Append(Row(u, key), now)
  BY <1>1, StampedRow
<1>5. IsFiniteSet(Q) /\ Len(Live(Row(t, key))) = Cardinality(Q)
  BY <1>2, CountedLive
<1>6. Cardinality(Q) < budget /\ Cardinality(Q) \in Nat
  BY <1>5, StampsAre, FS_CardinalityType
<1>7. Cardinality(Q \cup {p}) = Cardinality(Q) + 1
  BY <1>1, <1>5, FS_AddElement
<1> QED BY <1>3, <1>4, <1>6, <1>7

\* A slot given back: one stamp goes, if the attempt's slot has not expired; and else none that
\* counts.
LEMMA SlotReturned ==
  ASSUME NEW t, Rows(t), NEW key, NEW Q, NEW slot, Counted(Row(t, key), now, Q, slot),
         NEW p, p \in Q \/ ~(now - slot[p] < Window)
  PROVE  Counted(Row(Released(t, key, slot[p]), key), now, Q \ {p}, slot)
<1> DEFINE s == Row(t, key)
<1>1. s \in Seq(Nat)
  BY RowType
<1>2. Row(Released(t, key, slot[p]), key) =
        IF Contains(s, slot[p]) THEN RemoveFirst(s, slot[p]) ELSE s
  BY ReleasedRow
<1> HIDE DEF s
<1>3. Counted(s, now, Q, slot)
  BY DEF s
<1>4. CASE p \in Q
  <2>1. Contains(s, slot[p])
    BY <1>1, <1>3, <1>4, CountedContains
  <2> QED BY <1>1, <1>2, <1>3, <1>4, <2>1, CountedRemoved
<1>5. CASE p \notin Q
  <2>1. Q \ {p} = Q /\ ~(now - slot[p] < Window)
    BY <1>5
  <2>2. Contains(s, slot[p]) => Counted(RemoveFirst(s, slot[p]), now, Q, slot)
    BY <1>1, <1>3, <2>1, CountedRemoved
  <2> QED BY <1>2, <1>3, <2>1, <2>2
<1> QED BY <1>4, <1>5

-----------------------------------------------------------------------------
(* The throttle's books.                                                   *)

Slot == [p \in Attempts |-> attempt[p].slot]

\* A request has a slot once the throttle has let it in.
SlotsAreSound ==
  \A p \in Attempts : IF attempt[p].at \in {"idle", "throttled"} THEN attempt[p].slot = 0
                      ELSE attempt[p].slot \in Nat \ {0}

\* Each live stamp of a client and of a name is of one attempt that holds a slot, and each such
\* attempt has one; the stamps of a pair are of some of its attempts.
ClientBooks == \A c \in Clients : /\ Counted(Row(clients, c), now, By(c), Slot)
                                  /\ Cardinality(By(c)) <= PerClient
NameBooks   == \A n \in Names : /\ Counted(Row(accounts, n), now, At(n), Slot)
                                /\ Cardinality(At(n)) <= PerAccount
PairBooks   == \A c \in Clients, n \in Names :
                 \E Q \in SUBSET (By(c) \cap At(n)) : Counted(Row(names, <<c, n>>), now, Q, Slot)

BooksInv == /\ now \in Nat \ {0} /\ Rows(names) /\ Rows(clients) /\ Rows(accounts)
            /\ SlotsAreSound /\ ClientBooks /\ NameBooks /\ PairBooks

LEMMA BooksInit == SignInInit => BooksInv
<1> SUFFICES ASSUME SignInInit PROVE BooksInv
  OBVIOUS
<1>1. \A p \in Attempts : attempt[p].slot = 0 /\ attempt[p].at = "idle"
  BY DEF SignInInit, NoAttempt
<1>2. /\ \A c : By(c) = {}
      /\ \A n : At(n) = {}
  BY <1>1 DEF By, At, Holds
<1>3. /\ names = <<>> /\ clients = <<>> /\ accounts = <<>> /\ now = 1
      /\ DOMAIN names = {} /\ DOMAIN clients = {} /\ DOMAIN accounts = {}
  BY DEF SignInInit
<1>4. \A key : Row(names, key) = <<>> /\ Row(clients, key) = <<>> /\ Row(accounts, key) = <<>>
  BY <1>3 DEF Row
<1>5. \A key : /\ Counted(Row(names, key), now, {}, Slot) /\ Counted(Row(clients, key), now, {}, Slot)
               /\ Counted(Row(accounts, key), now, {}, Slot)
  BY <1>4, CountedEmpty
<1>6. ClientBooks /\ NameBooks /\ PairBooks
  BY <1>2, <1>5, FS_EmptySet, BudgetsAssumption DEF ClientBooks, NameBooks, PairBooks
<1> QED BY <1>1, <1>3, <1>6 DEF BooksInv, Rows, SlotsAreSound

\* The slots that are held are finitely many.
LEMMA HoldersFinite == ASSUME NEW S, S \subseteq Attempts
                       PROVE  IsFiniteSet(S) /\ Cardinality(S) \in Nat
  BY AttemptsAssumption, FS_Subset, FS_CardinalityType

\* A step that changes neither the clock nor the tables, nor who holds what.
LEMMA BooksSame ==
  ASSUME BooksInv, UNCHANGED <<now, tables>>, SlotsAreSound',
         \A p \in Attempts : /\ attempt'[p].slot = attempt[p].slot
                             /\ Holds(p)' <=> Holds(p)
                             /\ Holds(p) => /\ attempt'[p].client = attempt[p].client
                                            /\ attempt'[p].name = attempt[p].name
  PROVE  BooksInv'
<1>1. UNCHANGED <<now, names, clients, accounts>>
  BY DEF tables
<1>2. \A c : By(c)' = By(c)
  BY DEF By
<1>3. \A n : At(n)' = At(n)
  BY DEF At
<1>4. Slot' = Slot
  BY DEF Slot
<1>5. /\ \A key : /\ Row(names, key)' = Row(names, key) /\ Row(clients, key)' = Row(clients, key)
                  /\ Row(accounts, key)' = Row(accounts, key)
      /\ Rows(names)' /\ Rows(clients)' /\ Rows(accounts)' /\ now' \in Nat \ {0}
  BY <1>1 DEF Row, Rows, BooksInv
<1>6. \A s, t, Q, slot : Counted(s, t, Q, slot)' <=> Counted(s, t, Q, slot)
  BY DEF Counted, LivePlaces, LiveTo
<1>7. ClientBooks'
  BY <1>1, <1>2, <1>4 DEF BooksInv, ClientBooks, Row
<1>8. NameBooks'
  BY <1>1, <1>3, <1>4 DEF BooksInv, NameBooks, Row
<1>9. PairBooks'
  BY <1>1, <1>2, <1>3, <1>4 DEF BooksInv, PairBooks, Row
<1> QED BY <1>5, <1>7, <1>8, <1>9 DEF BooksInv

\* The clock moves: slots expire, and stamps with them.
LEMMA BooksLater == ASSUME BooksInv, Tick PROVE BooksInv'
<1>1. now \in Nat /\ now' = now + 1 /\ UNCHANGED <<names, clients, accounts, attempt>>
  BY DEF Tick, tables, BooksInv
<1>2. \A p \in Attempts : attempt[p].slot \in Nat
  BY DEF BooksInv, SlotsAreSound
<1>3. ASSUME NEW p \in Attempts PROVE Holds(p)' <=> Holds(p) /\ now + 1 - attempt[p].slot < Window
  BY <1>1, <1>2, BudgetsAssumption DEF Holds
<1>4. Slot' = Slot /\ \A p \in Attempts : Slot[p] = attempt[p].slot
  BY <1>1 DEF Slot
<1>5. \A c : By(c)' = {p \in By(c) : now + 1 - Slot[p] < Window} /\ By(c) \subseteq Attempts
  BY <1>1, <1>3, <1>4 DEF By
<1>6. \A n : At(n)' = {p \in At(n) : now + 1 - Slot[p] < Window} /\ At(n) \subseteq Attempts
  BY <1>1, <1>3, <1>4 DEF At
<1>7. \A S, T : S \subseteq T /\ T \subseteq Attempts => Cardinality(S) <= Cardinality(T)
  BY HoldersFinite, FS_Subset
<1>8. ClientBooks'
  <2> SUFFICES ASSUME NEW c \in Clients
               PROVE  /\ Counted(Row(clients, c), now + 1, By(c)', Slot)
                      /\ Cardinality(By(c)') <= PerClient
    BY <1>1, <1>4 DEF ClientBooks, Row
  <2>1. /\ Counted(Row(clients, c), now, By(c), Slot) /\ Cardinality(By(c)) <= PerClient
        /\ Row(clients, c) \in Seq(Nat)
    BY RowType DEF BooksInv, ClientBooks
  <2>2. Counted(Row(clients, c), now + 1, By(c)', Slot)
    BY <1>1, <1>5, <2>1, CountedLater
  <2>3. Cardinality(By(c)') <= Cardinality(By(c)) /\ Cardinality(By(c)) \in Nat /\ Cardinality(By(c)') \in Nat
    BY <1>5, <1>7, HoldersFinite
  <2> QED BY <2>1, <2>2, <2>3, BudgetsAssumption
<1>9. NameBooks'
  <2> SUFFICES ASSUME NEW n \in Names
               PROVE  /\ Counted(Row(accounts, n), now + 1, At(n)', Slot)
                      /\ Cardinality(At(n)') <= PerAccount
    BY <1>1, <1>4 DEF NameBooks, Row
  <2>1. /\ Counted(Row(accounts, n), now, At(n), Slot) /\ Cardinality(At(n)) <= PerAccount
        /\ Row(accounts, n) \in Seq(Nat)
    BY RowType DEF BooksInv, NameBooks
  <2>2. Counted(Row(accounts, n), now + 1, At(n)', Slot)
    BY <1>1, <1>6, <2>1, CountedLater
  <2>3. Cardinality(At(n)') <= Cardinality(At(n)) /\ Cardinality(At(n)) \in Nat /\ Cardinality(At(n)') \in Nat
    BY <1>6, <1>7, HoldersFinite
  <2> QED BY <2>1, <2>2, <2>3, BudgetsAssumption
<1>10. PairBooks'
  <2> SUFFICES ASSUME NEW c \in Clients, NEW n \in Names
               PROVE  \E Q \in SUBSET (By(c)' \cap At(n)') :
                         Counted(Row(names, <<c, n>>), now + 1, Q, Slot)
    BY <1>1, <1>4 DEF PairBooks, Row
  <2>1. PICK Q \in SUBSET (By(c) \cap At(n)) : Counted(Row(names, <<c, n>>), now, Q, Slot)
    BY DEF BooksInv, PairBooks
  <2>2. Row(names, <<c, n>>) \in Seq(Nat)
    BY RowType DEF BooksInv
  <2> DEFINE R == {q \in Q : now + 1 - Slot[q] < Window}
  <2>3. Counted(Row(names, <<c, n>>), now + 1, R, Slot)
    BY <1>1, <2>1, <2>2, CountedLater
  <2>4. R \in SUBSET (By(c)' \cap At(n)')
    BY <1>5, <1>6, <2>1
  <2> QED BY <2>3, <2>4
<1>11. /\ Rows(names)' /\ Rows(clients)' /\ Rows(accounts)' /\ now' \in Nat \ {0}
       /\ SlotsAreSound'
  BY <1>1 DEF Rows, SlotsAreSound, BooksInv
<1> QED BY <1>8, <1>9, <1>10, <1>11 DEF BooksInv

\* A request that is refused at once, or let in with a slot of the time.
LEMMA BooksArrive ==
  ASSUME BooksInv, MixKept, attempt \in [Attempts -> Requests], NEW p \in Attempts, Arrives(p)
  PROVE  BooksInv'
<1>1. /\ attempt[p].at = "idle" /\ attempt[p].slot = 0 /\ now' = now /\ now \in Nat \ {0}
      /\ now - now < Window
  BY BudgetsAssumption DEF Arrives, BooksInv, SlotsAreSound
<1>2. PICK c \in mix.clients, n \in mix.names, w \in mix.words :
        LET a == [NoAttempt EXCEPT !.client = c, !.name = n, !.word = w] IN
        \/ /\ attempt' = [attempt EXCEPT ![p] = [a EXCEPT !.at = "throttled"]]
           /\ UNCHANGED tables \/ Throttled(c, n)
        \/ /\ Reserves(c, n)
           /\ attempt' = [attempt EXCEPT ![p] = [a EXCEPT !.at = "waiting", !.slot = now]]
  BY ZenonT(30) DEF Arrives
<1> DEFINE a == [NoAttempt EXCEPT !.client = c, !.name = n, !.word = w]
           refused == [a EXCEPT !.at = "throttled"]
           taken   == [a EXCEPT !.at = "waiting", !.slot = now]
<1>3. /\ refused.at = "throttled" /\ refused.slot = 0
      /\ taken.at = "waiting" /\ taken.slot = now /\ taken.client = c /\ taken.name = n
  BY DEF NoAttempt
<1>4. \/ /\ attempt' = [attempt EXCEPT ![p] = refused]
         /\ UNCHANGED tables \/ Throttled(c, n)
      \/ Reserves(c, n) /\ attempt' = [attempt EXCEPT ![p] = taken]
  BY <1>2
<1> HIDE DEF refused, taken
<1>5. ~Holds(p) /\ p \notin By(c) /\ p \notin At(n)
  BY <1>1 DEF Holds, By, At
<1>6. \A q \in Attempts : q # p => attempt'[q] = attempt[q] /\ (Holds(q)' <=> Holds(q))
  BY <1>1, <1>4 DEF Holds
<1>7. LET t == Looked(c, n)
      IN  Trims(names, t[1]) /\ Trims(clients, t[2]) /\ Trims(accounts, t[3])
  BY LookedTrims DEF BooksInv
<1>8. CASE attempt' = [attempt EXCEPT ![p] = refused] /\ UNCHANGED tables
  <2>1. attempt'[p] = refused
    BY <1>8
  <2>2. SlotsAreSound'
    BY <1>3, <1>6, <2>1 DEF BooksInv, SlotsAreSound
  <2>3. ~Holds(p)'
    BY <1>3, <2>1 DEF Holds
  <2> QED BY <1>1, <1>3, <1>5, <1>6, <1>8, <2>1, <2>2, <2>3, BooksSame
<1>9. CASE attempt' = [attempt EXCEPT ![p] = refused] /\ Throttled(c, n)
  <2>1. attempt'[p] = refused
    BY <1>9
  <2>2. Trims(names, names') /\ Trims(clients, clients') /\ Trims(accounts, accounts')
    BY <1>7, <1>9 DEF Throttled
  <2>3. SlotsAreSound'
    BY <1>3, <1>6, <2>1 DEF BooksInv, SlotsAreSound
  <2>4. ~Holds(p)' /\ attempt'[p].slot = attempt[p].slot
    BY <1>1, <1>3, <2>1 DEF Holds
  <2>5. Slot' = Slot
    BY <1>6, <2>4 DEF Slot
  <2>6. \A k : By(k)' = By(k) /\ At(k)' = At(k)
    BY <1>5, <1>6, <2>4 DEF By, At
  <2>7. ClientBooks'
    BY <1>1, <2>2, <2>5, <2>6 DEF BooksInv, ClientBooks, Trims, Row
  <2>8. NameBooks'
    BY <1>1, <2>2, <2>5, <2>6 DEF BooksInv, NameBooks, Trims, Row
  <2>9. PairBooks'
    BY <1>1, <2>2, <2>5, <2>6 DEF BooksInv, PairBooks, Trims, Row
  <2>10. Rows(names)' /\ Rows(clients)' /\ Rows(accounts)'
    BY <2>2 DEF Trims, Rows
  <2> QED BY <1>1, <2>3, <2>7, <2>8, <2>9, <2>10 DEF BooksInv
<1>10. CASE Reserves(c, n) /\ attempt' = [attempt EXCEPT ![p] = taken]
  <2>1. attempt'[p] = taken
    BY <1>10
  <2> DEFINE t == Looked(c, n)
  <2>2. /\ Len(Stamps(clients, c)) < PerClient /\ Len(Stamps(accounts, n)) < PerAccount
        /\ names' = Stamped(t[1], <<c, n>>) /\ clients' = Stamped(t[2], c)
        /\ accounts' = Stamped(t[3], n)
    <3>1. Stamps(clients, c) \in Seq(Nat) /\ Stamps(accounts, n) \in Seq(Nat)
      BY StampsAre, RowType, LiveIs DEF BooksInv
    <3>2. Len(Stamps(clients, c)) \in Nat /\ Len(Stamps(accounts, n)) \in Nat
      BY <3>1
    <3> QED BY <1>10, <3>2, BudgetsAssumption DEF Reserves, Full
  <2>3. Trims(names, t[1]) /\ Trims(clients, t[2]) /\ Trims(accounts, t[3])
    BY <1>7
  <2> HIDE DEF t
  <2>4. /\ Slot'[p] = now /\ \A q \in Attempts : q # p => Slot'[q] = Slot[q]
        /\ Holds(p)'
    BY <1>1, <1>3, <1>6, <2>1 DEF Slot, Holds
  <2>5. \A k : By(k)' = IF k = c THEN By(k) \cup {p} ELSE By(k)
    BY <1>3, <1>5, <1>6, <2>1, <2>4 DEF By
  <2>6. \A k : At(k)' = IF k = n THEN At(k) \cup {p} ELSE At(k)
    BY <1>3, <1>5, <1>6, <2>1, <2>4 DEF At
  <2>7. \A k : p \notin By(k) /\ p \notin At(k) /\ By(k) \subseteq Attempts /\ At(k) \subseteq Attempts
    BY <1>5 DEF By, At
  <2>8. SlotsAreSound'
    BY <1>1, <1>3, <1>6, <2>1 DEF BooksInv, SlotsAreSound
  <2>9. ClientBooks'
    <3> SUFFICES ASSUME NEW k \in Clients
                 PROVE  /\ Counted(Row(Stamped(t[2], c), k), now, By(k)', Slot')
                        /\ Cardinality(By(k)') <= PerClient
      BY <1>1, <2>2 DEF ClientBooks, Row
    <3>1. Counted(Row(clients, k), now, By(k), Slot) /\ Cardinality(By(k)) <= PerClient /\ Rows(clients)
      BY DEF BooksInv, ClientBooks
    <3>2. \A q \in By(k) : Slot'[q] = Slot[q]
      BY <2>4, <2>7
    <3>3. CASE k = c
      <4>1. /\ now \in Nat /\ PerClient \in Nat /\ Len(Stamps(clients, k)) < PerClient /\ Trims(clients, t[2])
            /\ p \notin By(k) /\ Slot'[p] = now
        BY <1>1, <2>2, <2>3, <2>4, <2>7, <3>3, BudgetsAssumption
      <4>2. Gains(p, By(k), Slot, Slot')
        BY <3>2, <4>1 DEF Gains
      <4>3. /\ Counted(Row(Stamped(t[2], k), k), now, By(k) \cup {p}, Slot')
            /\ Cardinality(By(k) \cup {p}) <= PerClient
        BY <3>1, <4>1, <4>2, SlotTaken
      <4> QED BY <2>5, <3>3, <4>3
    <3>4. CASE k # c
      <4>1. Counted(Row(t[2], k), now, By(k), Slot) /\ Rows(t[2])
        BY <2>3, <3>1 DEF Trims
      <4>2. Row(Stamped(t[2], c), k) = Row(t[2], k)
        BY <1>1, <3>4, <4>1, StampedRow
      <4> QED BY <2>5, <3>1, <3>2, <3>4, <4>1, <4>2, CountedSame
    <3> QED BY <3>3, <3>4
  <2>10. NameBooks'
    <3> SUFFICES ASSUME NEW k \in Names
                 PROVE  /\ Counted(Row(Stamped(t[3], n), k), now, At(k)', Slot')
                        /\ Cardinality(At(k)') <= PerAccount
      BY <1>1, <2>2 DEF NameBooks, Row
    <3>1. Counted(Row(accounts, k), now, At(k), Slot) /\ Cardinality(At(k)) <= PerAccount /\ Rows(accounts)
      BY DEF BooksInv, NameBooks
    <3>2. \A q \in At(k) : Slot'[q] = Slot[q]
      BY <2>4, <2>7
    <3>3. CASE k = n
      <4>1. /\ now \in Nat /\ PerAccount \in Nat /\ Len(Stamps(accounts, k)) < PerAccount /\ Trims(accounts, t[3])
            /\ p \notin At(k) /\ Slot'[p] = now
        BY <1>1, <2>2, <2>3, <2>4, <2>7, <3>3, BudgetsAssumption
      <4>2. Gains(p, At(k), Slot, Slot')
        BY <3>2, <4>1 DEF Gains
      <4>3. /\ Counted(Row(Stamped(t[3], k), k), now, At(k) \cup {p}, Slot')
            /\ Cardinality(At(k) \cup {p}) <= PerAccount
        BY <3>1, <4>1, <4>2, SlotTaken
      <4> QED BY <2>6, <3>3, <4>3
    <3>4. CASE k # n
      <4>1. Counted(Row(t[3], k), now, At(k), Slot) /\ Rows(t[3])
        BY <2>3, <3>1 DEF Trims
      <4>2. Row(Stamped(t[3], n), k) = Row(t[3], k)
        BY <1>1, <3>4, <4>1, StampedRow
      <4> QED BY <2>6, <3>1, <3>2, <3>4, <4>1, <4>2, CountedSame
    <3> QED BY <3>3, <3>4
  <2>11. PairBooks'
    <3> SUFFICES ASSUME NEW k \in Clients, NEW m \in Names
                 PROVE  \E Q \in SUBSET (By(k)' \cap At(m)') :
                           Counted(Row(Stamped(t[1], <<c, n>>), <<k, m>>), now, Q, Slot')
      BY <1>1, <2>2 DEF PairBooks, Row
    <3>1. PICK Q \in SUBSET (By(k) \cap At(m)) : Counted(Row(names, <<k, m>>), now, Q, Slot)
      BY DEF BooksInv, PairBooks
    <3>2. p \notin Q /\ \A q \in Q : Slot'[q] = Slot[q]
      BY <2>4, <2>7, <3>1
    <3>3. Counted(Row(t[1], <<k, m>>), now, Q, Slot') /\ Rows(t[1])
      BY <2>3, <3>1, <3>2, CountedSame DEF Trims
    <3>4. CASE k = c /\ m = n
      <4>1. Row(Stamped(t[1], <<c, n>>), <<k, m>>) = Append(Row(t[1], <<k, m>>), now)
        BY <1>1, <3>3, <3>4, StampedRow
      <4>2. Counted(Append(Row(t[1], <<k, m>>), now), now, Q \cup {p}, Slot')
        BY <1>1, <2>4, <3>2, <3>3, RowType, CountedAppended
      <4>3. Q \cup {p} \in SUBSET (By(k)' \cap At(m)')
        BY <2>5, <2>6, <3>1, <3>4
      <4> QED BY <4>1, <4>2, <4>3
    <3>5. CASE ~(k = c /\ m = n)
      <4>1. <<k, m>> # <<c, n>>
        BY <3>5
      <4>2. Row(Stamped(t[1], <<c, n>>), <<k, m>>) = Row(t[1], <<k, m>>)
        BY <1>1, <3>3, <4>1, StampedRow
      <4>3. Q \in SUBSET (By(k)' \cap At(m)')
        BY <2>5, <2>6, <3>1
      <4> QED BY <3>3, <4>2, <4>3
    <3> QED BY <3>4, <3>5
  <2>12. Rows(names)' /\ Rows(clients)' /\ Rows(accounts)'
    BY <1>1, <2>2, <2>3, StampedRow DEF Trims, Rows
  <2> QED BY <1>1, <2>8, <2>9, <2>10, <2>11, <2>12 DEF BooksInv
<1> QED BY <1>4, <1>8, <1>9, <1>10

\* A success: its pair starts over, its client and its name get back its slot.
LEMMA BooksReturn ==
  ASSUME BooksInv, attempt \in [Attempts -> Requests], NEW p \in Attempts, SignsIn(p)
  PROVE  BooksInv'
<1> DEFINE c == attempt[p].client
           n == attempt[p].name
<1>1. /\ attempt[p].at = "returning" /\ attempt' = [attempt EXCEPT ![p].at = "signedIn"]
      /\ now' = now /\ now \in Nat \ {0}
      /\ names' = Without(names, <<c, n>>)
      /\ clients' = Released(clients, c, attempt[p].slot)
      /\ accounts' = Released(accounts, n, attempt[p].slot)
  BY DEF SignsIn, To, Succeeded, BooksInv
<1>2. attempt[p] \in Requests /\ attempt[p].slot # 0
  BY <1>1 DEF BooksInv, SlotsAreSound
<1>3. /\ attempt'[p].at = "signedIn" /\ attempt'[p].slot = attempt[p].slot
      /\ \A q \in Attempts : q # p => attempt'[q] = attempt[q]
  BY <1>1, <1>2 DEF Requests
<1>4. Slot' = Slot /\ Slot[p] = attempt[p].slot
  BY <1>3 DEF Slot
<1>5. /\ ~Holds(p)' /\ \A q \in Attempts : q # p => (Holds(q)' <=> Holds(q))
      /\ Holds(p) \/ ~(now - Slot[p] < Window)
  BY <1>1, <1>2, <1>3, <1>4 DEF Holds
<1>6. \A k : By(k)' = By(k) \ {p} /\ At(k)' = At(k) \ {p}
  BY <1>3, <1>5 DEF By, At
<1>7. \A k : /\ By(k) \subseteq Attempts /\ At(k) \subseteq Attempts
             /\ p \in By(k) <=> Holds(p) /\ k = c
             /\ p \in At(k) <=> Holds(p) /\ k = n
  BY DEF By, At
<1>8. \A S \in SUBSET Attempts : \A b \in Nat : Cardinality(S) <= b => Cardinality(S \ {p}) <= b
  <2> SUFFICES ASSUME NEW S \in SUBSET Attempts
               PROVE  /\ Cardinality(S \ {p}) <= Cardinality(S)
                      /\ Cardinality(S) \in Nat /\ Cardinality(S \ {p}) \in Nat
    OBVIOUS
  <2> QED BY HoldersFinite, FS_Subset
<1>9. Rows(names) /\ Rows(clients) /\ Rows(accounts)
  BY DEF BooksInv
<1> HIDE DEF c, n
<1>10. ClientBooks'
  <2> SUFFICES ASSUME NEW k \in Clients
               PROVE  /\ Counted(Row(Released(clients, c, Slot[p]), k), now, By(k) \ {p}, Slot)
                      /\ Cardinality(By(k) \ {p}) <= PerClient
    BY <1>1, <1>4, <1>6 DEF ClientBooks, Row
  <2>1. Counted(Row(clients, k), now, By(k), Slot) /\ Cardinality(By(k)) <= PerClient
    BY DEF BooksInv, ClientBooks
  <2>2. CASE k = c
    <3>1. p \in By(k) \/ ~(now - Slot[p] < Window)
      BY <1>5, <1>7, <2>2
    <3> QED BY <1>7, <1>8, <1>9, <2>1, <2>2, <3>1, SlotReturned, BudgetsAssumption
  <2>3. CASE k # c
    <3>1. By(k) \ {p} = By(k)
      BY <1>7, <2>3
    <3>2. Row(Released(clients, c, Slot[p]), k) = Row(clients, k)
      BY <1>9, <2>3, ReleasedRow
    <3> QED BY <2>1, <3>1, <3>2
  <2> QED BY <2>2, <2>3
<1>11. NameBooks'
  <2> SUFFICES ASSUME NEW k \in Names
               PROVE  /\ Counted(Row(Released(accounts, n, Slot[p]), k), now, At(k) \ {p}, Slot)
                      /\ Cardinality(At(k) \ {p}) <= PerAccount
    BY <1>1, <1>4, <1>6 DEF NameBooks, Row
  <2>1. Counted(Row(accounts, k), now, At(k), Slot) /\ Cardinality(At(k)) <= PerAccount
    BY DEF BooksInv, NameBooks
  <2>2. CASE k = n
    <3>1. p \in At(k) \/ ~(now - Slot[p] < Window)
      BY <1>5, <1>7, <2>2
    <3> QED BY <1>7, <1>8, <1>9, <2>1, <2>2, <3>1, SlotReturned, BudgetsAssumption
  <2>3. CASE k # n
    <3>1. At(k) \ {p} = At(k)
      BY <1>7, <2>3
    <3>2. Row(Released(accounts, n, Slot[p]), k) = Row(accounts, k)
      BY <1>9, <2>3, ReleasedRow
    <3> QED BY <2>1, <3>1, <3>2
  <2> QED BY <2>2, <2>3
<1>12. PairBooks'
  <2> SUFFICES ASSUME NEW k \in Clients, NEW m \in Names
               PROVE  \E Q \in SUBSET ((By(k) \ {p}) \cap (At(m) \ {p})) :
                         Counted(Row(Without(names, <<c, n>>), <<k, m>>), now, Q, Slot)
    BY <1>1, <1>4, <1>6 DEF PairBooks, Row
  <2>1. PICK Q \in SUBSET (By(k) \cap At(m)) : Counted(Row(names, <<k, m>>), now, Q, Slot)
    BY DEF BooksInv, PairBooks
  <2>2. CASE k = c /\ m = n
    <3>1. Row(Without(names, <<c, n>>), <<k, m>>) = <<>>
      BY <1>9, <2>2, WithoutRow
    <3> QED BY <3>1, CountedEmpty
  <2>3. CASE ~(k = c /\ m = n)
    <3>1. <<k, m>> # <<c, n>>
      BY <2>3
    <3>2. Row(Without(names, <<c, n>>), <<k, m>>) = Row(names, <<k, m>>)
      BY <1>9, <3>1, WithoutRow
    <3>3. Q \in SUBSET ((By(k) \ {p}) \cap (At(m) \ {p}))
      BY <1>7, <2>1, <2>3
    <3> QED BY <2>1, <3>2, <3>3
  <2> QED BY <2>2, <2>3
<1>13. /\ Rows(names') /\ Rows(clients') /\ Rows(accounts')
  BY <1>1, <1>9, WithoutRow, ReleasedRow
<1>14. SlotsAreSound'
  BY <1>2, <1>3 DEF BooksInv, SlotsAreSound
<1> QED BY <1>1, <1>10, <1>11, <1>12, <1>13, <1>14 DEF BooksInv, Rows

\* One request moves on, neither let in nor done: its slot stays its own.
LEMMA BooksMove ==
  ASSUME BooksInv, attempt \in [Attempts -> Requests], NEW p \in Attempts, NEW a,
         attempt' = [attempt EXCEPT ![p] = a], UNCHANGED <<now, tables>>,
         a.slot = attempt[p].slot, a.client = attempt[p].client, a.name = attempt[p].name,
         a.at \notin {"idle", "throttled", "signedIn"},
         attempt[p].at \notin {"idle", "throttled", "signedIn"}
  PROVE  BooksInv'
<1>1. attempt'[p] = a /\ \A q \in Attempts : q # p => attempt'[q] = attempt[q]
  OBVIOUS
<1>2. SlotsAreSound'
  <2> SUFFICES ASSUME NEW q \in Attempts
               PROVE  IF attempt'[q].at \in {"idle", "throttled"} THEN attempt'[q].slot = 0
                      ELSE attempt'[q].slot \in Nat \ {0}
    BY DEF SlotsAreSound
  <2>1. IF attempt[q].at \in {"idle", "throttled"} THEN attempt[q].slot = 0
        ELSE attempt[q].slot \in Nat \ {0}
    BY DEF BooksInv, SlotsAreSound
  <2> QED BY <1>1, <2>1
<1>3. ASSUME NEW q \in Attempts
      PROVE  /\ attempt'[q].slot = attempt[q].slot
             /\ Holds(q)' <=> Holds(q)
             /\ attempt'[q].client = attempt[q].client
             /\ attempt'[q].name = attempt[q].name
  <2>1. CASE q = p
    BY <1>1, <2>1 DEF Holds
  <2>2. CASE q # p
    BY <1>1, <2>2 DEF Holds
  <2> QED BY <2>1, <2>2
<1> QED BY <1>2, <1>3, BooksSame

LEMMA BooksNext ==
  ASSUME BooksInv, AccountsInv, [SignInNext]_signInVars
  PROVE  BooksInv'
<1> USE DEF store, throttle, sockets
<1>1. attempt \in [Attempts -> Requests] /\ MixKept
  BY DEF AccountsInv
<1>2. ASSUME NEW p \in Attempts, Arrives(p) PROVE BooksInv'
  BY <1>1, <1>2, BooksArrive
<1>3. ASSUME NEW p \in Attempts, SignsIn(p) PROVE BooksInv'
  BY <1>1, <1>3, BooksReturn
<1>4. CASE Tick
  BY <1>4, BooksLater
<1>5. ASSUME NEW p \in Attempts, NEW phase \in Phases \ {"idle", "throttled", "signedIn"},
             To(p, phase), attempt[p].at \notin {"idle", "throttled", "signedIn"},
             UNCHANGED <<now, tables>>
      PROVE  BooksInv'
  <2> DEFINE a == [attempt[p] EXCEPT !.at = phase]
  <2>1. attempt[p] \in Requests
    BY <1>1
  <2>2. /\ a.at = phase /\ a.slot = attempt[p].slot /\ a.client = attempt[p].client
        /\ a.name = attempt[p].name
    BY <2>1 DEF Requests
  <2>3. attempt' = [attempt EXCEPT ![p] = a]
    BY <1>5 DEF To
  <2> HIDE DEF a
  <2> QED BY <1>1, <1>5, <2>2, <2>3, BooksMove
<1>6. ASSUME NEW p \in Attempts, Enters(p) \/ OpenLogin(p) \/ StoreFails(p) PROVE BooksInv'
  BY <1>5, <1>6 DEF Enters, OpenLogin, StoreFails, Phases
<1>7. ASSUME NEW p \in Attempts, Reads(p) PROVE BooksInv'
  <2> DEFINE u == users[attempt[p].name]
  <2>1. UNCHANGED <<now, tables>> /\ attempt[p].at = "reading"
    BY <1>7 DEF Reads
  <2>2. CASE u = NoUser \/ u.hash.word # attempt[p].word
    BY <1>5, <1>7, <2>1, <2>2 DEF Reads, Phases
  <2>3. CASE ~(u = NoUser \/ u.hash.word # attempt[p].word)
    <3> DEFINE phase == IF u.hash.cheap THEN "rehashing" ELSE "opening"
               a == [attempt[p] EXCEPT !.id = u.id, !.hash = u.hash, !.at = phase]
    <3>1. attempt[p] \in Requests
      BY <1>1
    <3>2. /\ a.at = phase /\ a.slot = attempt[p].slot /\ a.client = attempt[p].client
          /\ a.name = attempt[p].name /\ phase \notin {"idle", "throttled", "signedIn"}
      BY <3>1 DEF Requests
    <3>3. attempt' = [attempt EXCEPT ![p] = a]
      BY <1>7, <2>3 DEF Reads
    <3> HIDE DEF a, phase
    <3> QED BY <1>1, <2>1, <3>2, <3>3, BooksMove
  <2> QED BY <2>2, <2>3
<1>8. ASSUME NEW p \in Attempts, Rehashes(p) PROVE BooksInv'
  <2>1. UNCHANGED <<now, tables>> /\ attempt[p].at = "rehashing"
    BY <1>8 DEF Rehashes
  <2>2. CASE To(p, "opening")
    BY <1>5, <2>1, <2>2 DEF Phases
  <2>3. CASE attempt' = [attempt EXCEPT ![p].at = "opening", ![p].hash = Fresh(attempt[p].word)]
    <3> DEFINE a == [attempt[p] EXCEPT !.at = "opening", !.hash = Fresh(attempt[p].word)]
    <3>1. attempt[p] \in Requests
      BY <1>1
    <3>2. /\ a.at = "opening" /\ a.slot = attempt[p].slot /\ a.client = attempt[p].client
          /\ a.name = attempt[p].name
      BY <3>1 DEF Requests
    <3>3. attempt' = [attempt EXCEPT ![p] = a]
      BY <2>3
    <3> HIDE DEF a
    <3> QED BY <1>1, <2>1, <3>2, <3>3, BooksMove
  <2> QED BY <1>8, <2>2, <2>3 DEF Rehashes
<1>9. CASE UNCHANGED <<now, tables, attempt>>
  <2>1. SlotsAreSound'
    BY <1>9 DEF BooksInv, SlotsAreSound
  <2> QED BY <1>9, <2>1, BooksSame DEF Holds
<1>10. ASSUME NEW p \in Attempts, Attach(p) \/ Attached(p) \/ Revalidate(p) \/ LogOut(p)
       PROVE  UNCHANGED <<now, tables, attempt>>
  BY <1>10 DEF Attach, Attached, Revalidate, LogOut
<1>11. ASSUME NEW n \in Names, AddUser(n) \/ SetPassword(n) \/ RemoveUser(n)
       PROVE  UNCHANGED <<now, tables, attempt>>
  BY <1>11 DEF AddUser, SetPassword, RemoveUser
<1>12. ASSUME NEW id, Save(id) \/ MoveAside(id) \/ LoginExpires \/ PurgeLogins \/ CheckAll
              \/ UNCHANGED signInVars
       PROVE  UNCHANGED <<now, tables, attempt>>
  BY <1>12 DEF Save, MoveAside, LoginExpires, PurgeLogins, CheckAll, signInVars
<1> QED BY <1>2, <1>3, <1>4, <1>6, <1>7, <1>8, <1>9, <1>10, <1>11, <1>12
        DEF SignInNext, Answers

LEMMA BooksImply == BooksInv /\ PlacesInv => SlotsAreCounted
<1> SUFFICES ASSUME BooksInv, PlacesInv PROVE SlotsAreCounted
  OBVIOUS
<1>1. \A key : /\ Row(names, key) \in Seq(Nat) /\ Row(clients, key) \in Seq(Nat)
               /\ Row(accounts, key) \in Seq(Nat)
  BY RowType DEF BooksInv
<1>2. ASSUME NEW c \in Clients
      PROVE  Len(Stamps(clients, c)) = Cardinality(By(c)) /\ Cardinality(By(c)) <= PerClient
  BY <1>1, StampsAre, CountedLive DEF BooksInv, ClientBooks
<1>3. ASSUME NEW n \in Names
      PROVE  Len(Stamps(accounts, n)) = Cardinality(At(n)) /\ Cardinality(At(n)) <= PerAccount
  BY <1>1, StampsAre, CountedLive DEF BooksInv, NameBooks
<1>4. ASSUME NEW c \in Clients, NEW n \in Names
      PROVE  Len(Stamps(names, <<c, n>>)) <= Cardinality(By(c) \cap At(n))
  <2>1. PICK Q \in SUBSET (By(c) \cap At(n)) : Counted(Row(names, <<c, n>>), now, Q, Slot)
    BY DEF BooksInv, PairBooks
  <2>2. Len(Stamps(names, <<c, n>>)) = Cardinality(Q)
    BY <1>1, <2>1, StampsAre, CountedLive
  <2>3. IsFiniteSet(By(c) \cap At(n))
    BY HoldersFinite DEF By
  <2> QED BY <2>2, <2>3, FS_Subset
<1> QED BY <1>2, <1>3, <1>4 DEF SlotsAreCounted, PlacesInv

-----------------------------------------------------------------------------
(* All of it together.                                                     *)

SignInInv == AccountsInv /\ PlacesInv /\ TablesInv /\ BooksInv

LEMMA SignInStarts == SignInInit => SignInInv
  BY AccountsInit, PlacesInit, TablesInit, BooksInit DEF SignInInv

LEMMA SignInKeeps == SignInInv /\ [SignInNext]_signInVars => SignInInv'
  BY AccountsStep, PlacesNext, TablesNext, BooksNext DEF SignInInv

LEMMA SignInImplies == SignInInv => SignInType /\ AccountsAreCurrent /\ SlotsAreCounted
<1> SUFFICES ASSUME SignInInv PROVE SignInType /\ AccountsAreCurrent /\ SlotsAreCounted
  OBVIOUS
<1>1. SignInType
  BY DEF SignInInv, AccountsInv, StoreType, PlacesInv, TablesInv, Fits, SignInType
<1> QED BY <1>1, AccountsImply, BooksImply DEF SignInInv
=============================================================================
