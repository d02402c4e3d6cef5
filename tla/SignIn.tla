------------------------------- MODULE SignIn -------------------------------
(***************************************************************************)
(* Password sign-in of server mode: the account database (store.py), the   *)
(* throttle and the sign-in route (server_mode.py), and the open sockets   *)
(* whose identity is checked again (routes.py).                            *)
(*                                                                         *)
(* One SQL statement or transaction is a step: a sign-in reads the         *)
(* account, verifies outside any transaction, may replace a cheaper hash,  *)
(* and stores its token, while `gowui user` changes the account from       *)
(* another process and other sign-ins run.                                 *)
(***************************************************************************)
EXTENDS Naturals, Sequences, FiniteSets, SequencesExt

CONSTANTS
  Names,         \* the names of accounts
  Words,         \* passwords
  Clients,       \* throttle keys of addresses
  Attempts,      \* the sign-in requests, numbered as they arrive
  Mixes,         \* what a behaviour is drawn from: [requests, names, words, clients, admin
                 \* changes, ticks, fails: the database may fail, sessions: tabs open, perName]
  MaxVerifying, MaxWaiting,                     \* the semaphore, the queue before it
  PerClient, PerAccount, MaxEntries,  \* the throttle's budgets; that of a pair is mix.perName
  Window         \* its sliding window, in ticks

ASSUME AttemptsAssumption == Attempts \subseteq Nat /\ IsFiniteSet(Attempts)
ASSUME WordsAssumption    == Words # {}
ASSUME LimitsAssumption   == MaxVerifying \in Nat /\ MaxWaiting \in Nat /\ MaxEntries \in Nat
ASSUME BudgetsAssumption  == PerClient \in Nat /\ PerAccount \in Nat /\ Window \in Nat \ {0}
ASSUME MixesAssumption ==
  \A m \in Mixes :
    /\ m \in [requests : SUBSET Attempts, names : SUBSET Names, words : SUBSET Words,
              clients : SUBSET Clients, admin : Nat, ticks : Nat, fails : BOOLEAN,
              sessions : BOOLEAN, perName : Nat]
    /\ m.names # {}

VARIABLES
  mix,       \* the mix, with what is left of its changes and ticks
  users,     \* table users: name -> [id, hash], or NoUser
  password,  \* the word the operator set last, by account id, or "removed"
  logins,    \* table logins: [token, account, expired]
  rows,      \* tables states, preferences, set_aside: [table, account]
  salts,     \* hashes made so far: every hash has a salt of its own
  now,       \* the throttle's clock
  names, clients, accounts,  \* its tables: key -> stamps
  waiting,   \* _waiting
  verifying, \* slots of the semaphore taken
  attempt,   \* the sign-in requests
  socket,    \* the WebSocket opened with the cookie of a request: "none", "attaching",
             \* "open", "closed"
  logout     \* a POST /logout has deleted its row and not yet checked the sockets

store       == <<users, password, logins, rows, salts>>
tables      == <<names, clients, accounts>>
throttle    == <<now, tables, waiting, verifying>>
sockets     == <<socket, logout>>
signInVars  == <<mix, store, throttle, attempt, sockets>>

NoUser == [id |-> 0]
NoHash == [word |-> "none", cheap |-> FALSE, salt |-> 0]
NewId  == Len(password) + 1  \* account ids are random and never used again

NoAttempt == [at |-> "idle", client |-> "none", name |-> "none", word |-> "none",
              slot |-> 0, id |-> 0, hash |-> NoHash]

\* One account, its hash of the current cost or of an older, cheaper setting.
SignInInit ==
  /\ mix \in Mixes
  /\ \E cheap \in BOOLEAN : LET n == CHOOSE n \in mix.names : TRUE  w == CHOOSE w \in Words : TRUE IN
       /\ users = [m \in Names |->
             IF m = n THEN [id |-> 1, hash |-> [word |-> w, cheap |-> cheap, salt |-> 1]] ELSE NoUser]
       /\ password = <<w>>
  /\ logins = {}
  /\ rows = {}
  /\ salts = 1
  /\ now = 1
  /\ names = <<>> /\ clients = <<>> /\ accounts = <<>>
  /\ waiting = 0
  /\ verifying = 0
  /\ attempt = [p \in Attempts |-> NoAttempt]
  /\ socket = [p \in Attempts |-> "none"]
  /\ logout = FALSE

Exists(id) == \E n \in Names : users[n] # NoUser /\ users[n].id = id

Fresh(w) == [word |-> w, cheap |-> FALSE, salt |-> salts + 1]

-----------------------------------------------------------------------------
(* The throttle (LoginThrottle): stamps of slots, by pair, client and name. *)

Live(stamps) ==
  LET live[i \in 0 .. Len(stamps)] ==
        IF i = 0 THEN <<>>
        ELSE IF now - stamps[i] < Window THEN Append(live[i - 1], stamps[i]) ELSE live[i - 1]
  IN live[Len(stamps)]

Stamps(table, key) == IF key \in DOMAIN table THEN Live(table[key]) ELSE <<>>

\* _live: the key's expired stamps go, and the key with the last of them
Pruned(table, keys) ==
  LET kept == {k \in DOMAIN table : k \in keys => Live(table[k]) # <<>>}
  IN [k \in kept |-> IF k \in keys THEN Live(table[k]) ELSE table[k]]

HasRoom(table, key) == key \in DOMAIN table \/ Cardinality(DOMAIN table) < MaxEntries

Stamped(table, key) ==
  [k \in DOMAIN table \cup {key} |->
     IF k # key THEN table[k] ELSE IF key \in DOMAIN table THEN Append(table[key], now) ELSE <<now>>]

Full(c, n) ==
  \/ Len(Stamps(names, <<c, n>>)) >= mix.perName
  \/ Len(Stamps(clients, c)) >= PerClient
  \/ Len(Stamps(accounts, n)) >= PerAccount

\* The tables after the budgets were looked at: a refusal stops at the budget that is full;
\* with no room for a new key every expired stamp goes.
Looked(c, n) ==
  LET t1 == Pruned(names, {<<c, n>>})
      t2 == IF Len(Stamps(names, <<c, n>>)) >= mix.perName THEN clients ELSE Pruned(clients, {c})
      t3 == IF \/ Len(Stamps(names, <<c, n>>)) >= mix.perName
               \/ Len(Stamps(clients, c)) >= PerClient
            THEN accounts ELSE Pruned(accounts, {n})
      all == /\ HasRoom(t1, <<c, n>>) /\ HasRoom(t2, c) /\ HasRoom(t3, n)
  IN IF Full(c, n) \/ all THEN <<t1, t2, t3>>
     ELSE <<Pruned(t1, DOMAIN t1), Pruned(t2, DOMAIN t2), Pruned(t3, DOMAIN t3)>>

\* bug: a new key is taken with the table full
Reserves_NoRoom(c, n) ==
  LET t == Looked(c, n) IN
  /\ ~Full(c, n)
  /\ names' = Stamped(t[1], <<c, n>>)
  /\ clients' = Stamped(t[2], c)
  /\ accounts' = Stamped(t[3], n)

\* bug: the budget of a name is not looked at
Reserves_PerClient(c, n) ==
  LET t == Looked(c, n) IN
  /\ Len(Stamps(names, <<c, n>>)) < mix.perName /\ Len(Stamps(clients, c)) < PerClient
  /\ HasRoom(t[1], <<c, n>>) /\ HasRoom(t[2], c) /\ HasRoom(t[3], n)
  /\ names' = Stamped(t[1], <<c, n>>)
  /\ clients' = Stamped(t[2], c)
  /\ accounts' = Stamped(t[3], n)

\* reserve: a slot in each of the three, or none in any
Reserves(c, n) ==
  LET t == Looked(c, n) IN
  /\ ~Full(c, n)
  /\ HasRoom(t[1], <<c, n>>) /\ HasRoom(t[2], c) /\ HasRoom(t[3], n)
  /\ names' = Stamped(t[1], <<c, n>>)
  /\ clients' = Stamped(t[2], c)
  /\ accounts' = Stamped(t[3], n)

Throttled(c, n) ==
  LET t == Looked(c, n) IN
  /\ Full(c, n) \/ ~(HasRoom(t[1], <<c, n>>) /\ HasRoom(t[2], c) /\ HasRoom(t[3], n))
  /\ names' = t[1] /\ clients' = t[2] /\ accounts' = t[3]

Without(table, key) == [k \in DOMAIN table \ {key} |-> table[k]]

\* One stamp of the slot given back; a key without stamps goes.
Released(table, key, slot) ==
  IF key \notin DOMAIN table \/ ~Contains(table[key], slot) THEN table
  ELSE LET kept == RemoveFirst(table[key], slot)
       IN IF kept = <<>> THEN Without(table, key) ELSE [table EXCEPT ![key] = kept]

\* bug: a success clears the budgets of its client and of its name
Succeeded_ClearsAll(p) ==
  LET a == attempt[p] IN
  /\ names' = Without(names, <<a.client, a.name>>)
  /\ clients' = Without(clients, a.client)
  /\ accounts' = Without(accounts, a.name)

\* succeeded: the pair starts over, the client and the name get back this slot alone
Succeeded(p) ==
  LET a == attempt[p] IN
  /\ names' = Without(names, <<a.client, a.name>>)
  /\ clients' = Released(clients, a.client, a.slot)
  /\ accounts' = Released(accounts, a.name, a.slot)

-----------------------------------------------------------------------------
(* A sign-in request (ServerIdentity.login).                               *)

To(p, phase) == attempt' = [attempt EXCEPT ![p].at = phase]

\* A well-formed form: too many wait, the throttle refuses, or a slot is taken.
Arrives(p) ==
  /\ attempt[p].at = "idle" /\ p \in mix.requests
  /\ \A q \in Attempts : q < p => attempt[q].at # "idle"
  /\ \E c \in mix.clients, n \in mix.names, w \in mix.words :
       LET a == [NoAttempt EXCEPT !.client = c, !.name = n, !.word = w] IN
       \/ /\ waiting >= MaxWaiting
          /\ attempt' = [attempt EXCEPT ![p] = [a EXCEPT !.at = "throttled"]]
          /\ UNCHANGED <<tables, waiting>>
       \/ /\ waiting < MaxWaiting
          /\ Throttled(c, n)
          /\ attempt' = [attempt EXCEPT ![p] = [a EXCEPT !.at = "throttled"]]
          /\ UNCHANGED waiting
       \/ /\ waiting < MaxWaiting
          /\ Reserves(c, n)
          /\ attempt' = [attempt EXCEPT ![p] = [a EXCEPT !.at = "waiting", !.slot = now]]
          /\ waiting' = waiting + 1
  /\ UNCHANGED <<mix, store, now, verifying, sockets>>

\* async with self._verifying
Enters(p) ==
  /\ attempt[p].at = "waiting" /\ verifying < MaxVerifying
  /\ waiting' = waiting - 1
  /\ verifying' = verifying + 1
  /\ To(p, "reading")
  /\ UNCHANGED <<mix, store, now, tables, sockets>>

\* check_password: the row is read, then verified, outside any transaction
Reads(p) ==
  /\ attempt[p].at = "reading"
  /\ LET a == attempt[p]  u == users[a.name] IN
       IF u = NoUser \/ u.hash.word # a.word
       THEN To(p, "refused") /\ verifying' = verifying - 1
       ELSE /\ attempt' = [attempt EXCEPT ![p] =
                 [a EXCEPT !.id = u.id, !.hash = u.hash,
                           !.at = IF u.hash.cheap THEN "rehashing" ELSE "opening"]]
            /\ verifying' = IF u.hash.cheap THEN verifying ELSE verifying - 1
  /\ UNCHANGED <<mix, store, now, tables, waiting, sockets>>

\* bug: the replacement names the account alone
Rehashes_Unconditional(p) ==
  /\ attempt[p].at = "rehashing"
  /\ LET a == attempt[p]  u == users[a.name] IN
       IF u # NoUser /\ u.id = a.id
       THEN /\ users' = [users EXCEPT ![a.name].hash = Fresh(a.word)]
            /\ attempt' = [attempt EXCEPT ![p].at = "opening", ![p].hash = Fresh(a.word)]
       ELSE To(p, "opening") /\ UNCHANGED users
  /\ salts' = salts + 1
  /\ verifying' = verifying - 1
  /\ UNCHANGED <<mix, password, logins, rows, now, tables, waiting, sockets>>

\* a cheaper hash is replaced, if it is still the one that was verified
Rehashes(p) ==
  /\ attempt[p].at = "rehashing"
  /\ LET a == attempt[p]  u == users[a.name] IN
       IF u = [id |-> a.id, hash |-> a.hash]
       THEN /\ users' = [users EXCEPT ![a.name].hash = Fresh(a.word)]
            /\ attempt' = [attempt EXCEPT ![p].at = "opening", ![p].hash = Fresh(a.word)]
       ELSE To(p, "opening") /\ UNCHANGED users
  /\ salts' = salts + 1
  /\ verifying' = verifying - 1
  /\ UNCHANGED <<mix, password, logins, rows, now, tables, waiting, sockets>>

\* bug: a token for an account that is there, whatever its hash is by now
OpenLogin_AnyHash(p) ==
  /\ attempt[p].at = "opening"
  /\ LET a == attempt[p]  kept == {l \in logins : ~l.expired} IN
       IF Exists(a.id)
       THEN /\ logins' = kept \cup {[token |-> p, account |-> a.id, expired |-> FALSE]}
            /\ To(p, "returning")
       ELSE logins' = kept /\ To(p, "refused")
  /\ UNCHANGED <<mix, users, password, rows, salts, throttle, sockets>>

\* open_login: expired rows go; a token is stored while the verified hash is the account's
OpenLogin(p) ==
  /\ attempt[p].at = "opening"
  /\ LET a == attempt[p]  kept == {l \in logins : ~l.expired} IN
       IF users[a.name] = [id |-> a.id, hash |-> a.hash]
       THEN /\ logins' = kept \cup {[token |-> p, account |-> a.id, expired |-> FALSE]}
            /\ To(p, "returning")
       ELSE logins' = kept /\ To(p, "refused")
  /\ UNCHANGED <<mix, users, password, rows, salts, throttle, sockets>>

\* back on the loop: the slot is given back and the cookie set
SignsIn(p) ==
  /\ attempt[p].at = "returning"
  /\ Succeeded(p)
  /\ To(p, "signedIn")
  /\ UNCHANGED <<mix, store, now, waiting, verifying, sockets>>

\* bug: the semaphore is not left when the database fails
StoreFails_Held(p) ==
  /\ mix.fails /\ attempt[p].at \in {"waiting", "reading", "rehashing", "opening"}
  /\ To(p, "failed")
  /\ waiting' = IF attempt[p].at = "waiting" THEN waiting - 1 ELSE waiting
  /\ verifying' = verifying
  /\ UNCHANGED <<mix, store, now, tables, sockets>>

\* The database fails, or the request is cancelled while it waits: a slot that was taken stays
\* taken, the places in the queue and the semaphore are left.
StoreFails(p) ==
  /\ mix.fails /\ attempt[p].at \in {"waiting", "reading", "rehashing", "opening"}
  /\ To(p, "failed")
  /\ waiting' = IF attempt[p].at = "waiting" THEN waiting - 1 ELSE waiting
  /\ verifying' = IF attempt[p].at \in {"reading", "rehashing"} THEN verifying - 1 ELSE verifying
  /\ UNCHANGED <<mix, store, now, tables, sockets>>

\* The throttle's clock.
Tick ==
  /\ mix.ticks > 0
  /\ mix' = [mix EXCEPT !.ticks = @ - 1]
  /\ now' = now + 1
  /\ UNCHANGED <<store, tables, waiting, verifying, attempt, sockets>>

-----------------------------------------------------------------------------
(* gowui user (store.py), in a process of its own.                         *)

Admin == mix.admin > 0 /\ mix' = [mix EXCEPT !.admin = @ - 1]

AddUser(n) ==
  /\ Admin /\ n \in mix.names /\ users[n] = NoUser
  /\ \E w \in Words :
       /\ users' = [users EXCEPT ![n] = [id |-> NewId, hash |-> Fresh(w)]]
       /\ password' = Append(password, w)
  /\ salts' = salts + 1
  /\ UNCHANGED <<logins, rows, throttle, attempt, sockets>>

\* bug: the account's sessions go on
SetPassword_KeepsLogins(n) ==
  /\ Admin /\ users[n] # NoUser
  /\ \E w \in Words :
       /\ users' = [users EXCEPT ![n].hash = Fresh(w)]
       /\ password' = [password EXCEPT ![users[n].id] = w]
  /\ salts' = salts + 1
  /\ logins' = logins
  /\ UNCHANGED <<rows, throttle, attempt, sockets>>

SetPassword(n) ==
  /\ Admin /\ users[n] # NoUser
  /\ \E w \in Words :
       /\ users' = [users EXCEPT ![n].hash = Fresh(w)]
       /\ password' = [password EXCEPT ![users[n].id] = w]
  /\ salts' = salts + 1
  /\ logins' = {l \in logins : l.account # users[n].id}
  /\ UNCHANGED <<rows, throttle, attempt, sockets>>

RemoveUser(n) ==
  /\ Admin /\ users[n] # NoUser
  /\ users' = [users EXCEPT ![n] = NoUser]
  /\ password' = [password EXCEPT ![users[n].id] = "removed"]
  /\ logins' = {l \in logins : l.account # users[n].id}
  /\ rows' = {r \in rows : r.account # users[n].id}
  /\ UNCHANGED <<salts, throttle, attempt, sockets>>

-----------------------------------------------------------------------------
(* Identities, sockets and the rows of a space.                            *)

\* login_account: the account of an unexpired login, if the account is there
Identified(p) == \E l \in logins : l.token = p /\ ~l.expired /\ Exists(l.account)

LoginExpires ==
  /\ mix.sessions
  /\ \E l \in logins :
       /\ ~l.expired
       /\ logins' = (logins \ {l}) \cup {[l EXCEPT !.expired = TRUE]}
  /\ UNCHANGED <<mix, users, password, rows, salts, throttle, attempt, sockets>>

\* purge_logins, by the registry's save pass or by the database being opened
PurgeLogins ==
  /\ \E l \in logins : l.expired
  /\ logins' = {l \in logins : ~l.expired}
  /\ UNCHANGED <<mix, users, password, rows, salts, throttle, attempt, sockets>>

\* The accounts whose space the server may hold: someone signed in to them.
Opened == {attempt[p].id : p \in {q \in Attempts : mix.sessions /\ attempt[q].at = "signedIn"}}

\* bug: the snapshot is written whether the account is there or not
Save_Always(id) ==
  /\ \E table \in {"states", "preferences"} :
       rows' = rows \cup {[table |-> table, account |-> id]}
  /\ UNCHANGED <<mix, users, password, logins, salts, throttle, attempt, sockets>>

\* save_state and save_preferences of a space that was opened, however long ago: written only
\* while the account exists
Save(id) ==
  /\ \E table \in {"states", "preferences"} :
       rows' = IF Exists(id) THEN rows \cup {[table |-> table, account |-> id]} ELSE rows
  /\ UNCHANGED <<mix, users, password, logins, salts, throttle, attempt, sockets>>

\* _move_aside, in one transaction
MoveAside(id) ==
  /\ [table |-> "states", account |-> id] \in rows
  /\ rows' = (rows \ {[table |-> "states", account |-> id]})
             \cup {[table |-> "set_aside", account |-> id]}
  /\ UNCHANGED <<mix, users, password, logins, salts, throttle, attempt, sockets>>

\* The guard identifies the handshake; the tab attaches before the socket is watched.
Attach(p) ==
  /\ mix.sessions /\ socket[p] = "none" /\ attempt[p].at = "signedIn" /\ Identified(p)
  /\ socket' = [socket EXCEPT ![p] = "attaching"]
  /\ UNCHANGED <<mix, store, throttle, attempt, logout>>

Attached(p) ==
  /\ socket[p] = "attaching"
  /\ socket' = [socket EXCEPT ![p] = "open"]
  /\ UNCHANGED <<mix, store, throttle, attempt, logout>>

\* bug: an expired login keeps its socket, only a deleted one loses it
Revalidate_Expired(p) ==
  /\ socket[p] = "open" /\ ~\E l \in logins : l.token = p
  /\ socket' = [socket EXCEPT ![p] = "closed"]
  /\ UNCHANGED <<mix, store, throttle, attempt, logout>>

\* watch and revalidate: the identity is resolved again and the socket closed when it is gone
Revalidate(p) ==
  /\ socket[p] = "open" /\ ~Identified(p)
  /\ socket' = [socket EXCEPT ![p] = "closed"]
  /\ UNCHANGED <<mix, store, throttle, attempt, logout>>

\* POST /logout: the row is deleted, then every open socket is checked at once
LogOut(p) ==
  /\ mix.sessions /\ ~logout /\ attempt[p].at = "signedIn"
  /\ logins' = {l \in logins : l.token # p}
  /\ logout' = TRUE
  /\ UNCHANGED <<mix, users, password, rows, salts, throttle, attempt, socket>>

CheckAll ==
  /\ logout
  /\ logout' = FALSE
  /\ socket' = [p \in Attempts |->
       IF socket[p] = "open" /\ ~Identified(p) THEN "closed" ELSE socket[p]]
  /\ UNCHANGED <<mix, store, throttle, attempt>>

-----------------------------------------------------------------------------
Answers(p) == Enters(p) \/ Reads(p) \/ Rehashes(p) \/ OpenLogin(p) \/ SignsIn(p)

SignInNext ==
  \/ \E p \in Attempts :
       \/ Arrives(p) \/ Answers(p) \/ StoreFails(p)
       \/ Attach(p) \/ Attached(p) \/ Revalidate(p) \/ LogOut(p)
  \/ \E n \in Names : AddUser(n) \/ SetPassword(n) \/ RemoveUser(n)
  \/ \E id \in Opened : Save(id) \/ MoveAside(id)
  \/ Tick \/ LoginExpires \/ PurgeLogins \/ CheckAll

SignInFair ==
  \A p \in Attempts : WF_signInVars(Answers(p)) /\ WF_signInVars(Attached(p) \/ Revalidate(p))

-----------------------------------------------------------------------------
Hashes   == [word : Words \cup {"none"}, cheap : BOOLEAN, salt : Nat]
Phases   == {"idle", "throttled", "waiting", "reading", "refused", "rehashing", "opening",
             "returning", "signedIn", "failed"}
Requests == [at : Phases, client : Clients \cup {"none"}, name : Names \cup {"none"},
             word : Words \cup {"none"}, slot : Nat, id : Nat, hash : Hashes]

SignInType ==
  /\ users \in [Names -> {NoUser} \cup [id : DOMAIN password, hash : Hashes]]
  /\ password \in Seq(Words \cup {"removed"})
  /\ logins \subseteq [token : Attempts, account : DOMAIN password, expired : BOOLEAN]
  /\ rows \subseteq [table : {"states", "preferences", "set_aside"}, account : DOMAIN password]
  /\ salts \in Nat /\ now \in Nat
  /\ attempt \in [Attempts -> Requests]
  /\ waiting \in 0 .. MaxWaiting /\ verifying \in 0 .. MaxVerifying
  /\ Cardinality(DOMAIN names) <= MaxEntries
  /\ Cardinality(DOMAIN clients) <= MaxEntries
  /\ Cardinality(DOMAIN accounts) <= MaxEntries

\* The store keeps what belongs to the accounts it has.  A sign-in that races `passwd`,
\* `remove` or another sign-in leaves only tokens given for the password the operator set
\* last, of an account that is there, and no hash that replaces a cheaper one brings an older
\* password back; a removed account gets no row later, whatever its space, still held by the
\* server, goes on saving: a name used again starts clean.
AccountsAreCurrent ==
  /\ \A l \in logins : Exists(l.account) /\ attempt[l.token].word = password[l.account]
  /\ \A n \in Names : users[n] # NoUser => users[n].hash.word = password[users[n].id]
  /\ \A r \in rows : Exists(r.account)

\* The slot of an attempt that is not (yet) a success.
Holds(p) == attempt[p].slot # 0 /\ attempt[p].at # "signedIn" /\ now - attempt[p].slot < Window

By(c) == {p \in Attempts : Holds(p) /\ attempt[p].client = c}
At(n) == {p \in Attempts : Holds(p) /\ attempt[p].name = n}

Queued    == {p \in Attempts : attempt[p].at = "waiting"}
Verifying == {p \in Attempts : attempt[p].at \in {"reading", "rehashing"}}

\* The places in the queue and the semaphore are those of the attempts in it.
PlacesAreCounted == waiting = Cardinality(Queued) /\ verifying = Cardinality(Verifying)

\* The throttle's books: a client's and a name's budget are used by their attempts that failed
\* or are not decided, no more and no less, never past the budget; a slot is given back once
\* and only its own; and so for the places in the queue and the semaphore.
SlotsAreCounted ==
  /\ \A c \in Clients : Len(Stamps(clients, c)) = Cardinality(By(c)) /\ Cardinality(By(c)) <= PerClient
  /\ \A n \in Names : Len(Stamps(accounts, n)) = Cardinality(At(n)) /\ Cardinality(At(n)) <= PerAccount
  /\ \A c \in Clients, n \in Names : Len(Stamps(names, <<c, n>>)) <= Cardinality(By(c) \cap At(n))
  /\ PlacesAreCounted

\* Every sign-in is answered: no failure keeps a place others wait for.
SignInsEnd ==
  (\E p \in Attempts : attempt[p].at = "waiting") ~>
    (\A p \in Attempts : attempt[p].at \in {"idle", "throttled", "signedIn", "refused", "failed"})

Stale(p) == socket[p] \in {"attaching", "open"} /\ ~Identified(p)

\* A socket does not outlive its login: log-out, expiry, `passwd` and `remove` close it in the
\* end, also when they come while it attaches.
SocketsClose == (\E p \in Attempts : Stale(p)) ~> (\A p \in Attempts : ~Stale(p))
=============================================================================
