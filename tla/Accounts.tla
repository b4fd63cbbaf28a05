------------------------------ MODULE Accounts ------------------------------
(***************************************************************************)
(* The gateway's accounts: internal/auth (AuthManager and its handlers),    *)
(* the users table of internal/database, the administrator that             *)
(* internal/admin seeds at every start, and the administrator's operations  *)
(* on users.  The maps of AuthManager live in memory, the rows survive a    *)
(* restart; what this module is about is how far apart the two may drift.   *)
(*                                                                          *)
(* A user is one struct (user[u], the heap) which the map users points to   *)
(* while u is in it: AddStorageUsed keeps the pointer after it has released *)
(* the mutex.  A row is written whole by persistUser (all columns but       *)
(* preferences) and by column by SetUserRole and SetUserPreferences.  Every *)
(* database call may fail, at most MaxFailures times.                       *)
(*                                                                          *)
(* Left out: the text of addresses, hashes and tokens, display names,       *)
(* credits, the requests that only read, and a gateway without a database.  *)
(***************************************************************************)
EXTENDS Naturals, FiniteSets

CONSTANTS Uids, Emails, AdminEmail, Passwords, Tokens, Writers,
          NoOne, NoUser, NoPassword,
          MaxUsed,       \* bound of a user's StorageUsed
          MaxChanges,    \* bound of the changes requests make
          MaxFailures,   \* bound of the database's and the file system's failures
          MaxRestarts    \* bound of the restarts

Roles == {"", "user", "moderator", "admin"}

User == [email : Emails, pw : Passwords, role : Roles, used : Nat,
         tailscaleIP : {"", "allocated", "100.0.0.1"}, prefs : {"{}", "set"}]

ASSUME AccountsAssumption ==
  /\ AdminEmail \in Emails
  /\ NoOne \notin Uids
  /\ NoPassword \notin Passwords /\ NoUser \notin User
  /\ {MaxUsed, MaxChanges, MaxFailures, MaxRestarts} \subseteq Nat

VARIABLES
  user,           \* the User structs: Uids -> User or NoUser
  users,          \* the ids in AuthManager.users
  emails,         \* AuthManager.emails: address -> id
  tokens, refreshTokens, tokenExpiry,   \* the token maps; a pair has one name
  past,           \* the pairs whose 24 hours are over
  row,            \* the users table
  write,          \* persistUser calls made outside the mutex
  seed, seedPw, secretFile,   \* SeedAdmin's progress, its password, the file
  seedCut,        \* history: a seeding was interrupted or failed
  doubt,          \* history: <<user, columns>> whose last write failed or was overtaken
  changes, failures, restarts

tokenVars == <<tokens, refreshTokens, tokenExpiry, past>>
seedVars  == <<seed, seedPw, secretFile, seedCut>>
memVars   == <<user, users, emails>>
vars == <<memVars, tokenVars, row, write, seedVars, doubt, changes, failures, restarts>>

roleLevel(role) == IF role = "admin" THEN 2 ELSE IF role = "moderator" THEN 1 ELSE 0

Idle == [uid |-> NoOne, row |-> NoUser]

(***************************************************************************)
(* The database.                                                            *)
(***************************************************************************)
saved == {u \in Uids : row[u] # NoUser}

Outcome(ok) == /\ ok \/ failures < MaxFailures
               /\ failures' = IF ok THEN failures ELSE failures + 1

\* INSERT: fails on an error and on the UNIQUE constraint of the email column.
emailFree(e) == \A v \in saved : row[v].email # e

CreateUser(u, r) == row' = [row EXCEPT ![u] = r]

\* An UPDATE of an id that has no row changes nothing.
UpdateRow(ok, u, r) ==
  /\ Outcome(ok)
  /\ row' = IF ok /\ u \in saved THEN [row EXCEPT ![u] = r] ELSE row

\* Mutant: the UPDATE of the whole row takes the preferences of the copy as well.
CopiedPreferences(ok, u, v) == UpdateRow(ok, u, v)

UpdateUserRow(ok, u, v) == UpdateRow(ok, u, [v EXCEPT !.prefs = row[u].prefs])

SetUserRole(ok, u, r) == UpdateRow(ok, u, [row[u] EXCEPT !.role = r])

SetUserPreferences(ok, u, p) == UpdateRow(ok, u, [row[u] EXCEPT !.prefs = p])

\* A write of all of these columns settles them; one that fails leaves a doubt.
Written(ok, u, columns) == IF ok THEN doubt \ {<<u, columns>>} ELSE doubt \cup {<<u, columns>>}

\* The columns UpdateUserRow writes.  Preferences have a statement of their own.
otherColumns(v) == <<v.email, v.pw, v.role, v.used, v.tailscaleIP>>

(***************************************************************************)
(* Tokens.                                                                  *)
(***************************************************************************)
overdue(kind) == {t \in past : <<kind, t>> \in tokenExpiry}

forget(map, gone) == [t \in Tokens |-> IF t \in gone THEN NoOne ELSE map[t]]

\* tokenExpiry without the pairs whose time is over: what cleanup leaves.
unexpired == {k \in tokenExpiry : k[2] \notin past}

cleanup ==
  /\ tokens' = forget(tokens, overdue("access"))
  /\ refreshTokens' = forget(refreshTokens, overdue("refresh"))
  /\ tokenExpiry' = unexpired
  /\ past' = past

freeToken(t) == tokens[t] = NoOne /\ refreshTokens[t] = NoOne

\* cleanup, and then a new pair for u.
generateTokens(u) ==
  \E t \in Tokens :
    /\ freeToken(t)
    /\ tokens' = [forget(tokens, overdue("access")) EXCEPT ![t] = u]
    /\ refreshTokens' = [forget(refreshTokens, overdue("refresh")) EXCEPT ![t] = u]
    /\ tokenExpiry' = unexpired \cup {<<"access", t>>, <<"refresh", t>>}
    /\ past' = past \ {t}

tokenExpired(t) == t \in overdue("access")

\* The user a token stands for now: what ValidateToken returns without error.
tokenUser(t, u) == tokens[t] = u /\ u \in users /\ ~tokenExpired(t)

ValidateToken(t) ==
  \/ /\ tokens[t] # NoOne /\ tokenExpired(t)
     /\ tokens' = forget(tokens, {t})
     /\ tokenExpiry' = tokenExpiry \ {<<"access", t>>}
     /\ UNCHANGED <<refreshTokens, past>>
  \/ /\ \E u \in Uids : tokenUser(t, u)
     /\ cleanup              \* every thousandth validation

RequireAuth(u) == \E t \in Tokens : tokenUser(t, u)

RequireRole(min) ==
  \E t \in Tokens, u \in Uids : tokenUser(t, u) /\ roleLevel(user[u].role) >= min

(***************************************************************************)
(* AuthManager's operations.                                                *)
(***************************************************************************)
newUser(e, p) == [email |-> e, pw |-> p, role |-> "", used |-> 0,
                  tailscaleIP |-> "", prefs |-> "{}"]

\* Mutant: the maps are filled although the INSERT may collide with a row.
RegisterAnyway(u, e, p) ==
  /\ emails[e] = NoOne
  /\ u \notin users \cup saved
  /\ row' = IF emailFree(e) THEN [row EXCEPT ![u] = newUser(e, p)] ELSE row
  /\ user' = [user EXCEPT ![u] = newUser(e, p)]
  /\ users' = users \cup {u}
  /\ emails' = [emails EXCEPT ![e] = u]
  /\ generateTokens(u)

\* The row first, then the maps, so that a failed INSERT leaves no trace.
Register(u, e, p) ==
  /\ emails[e] = NoOne /\ emailFree(e)
  /\ u \notin users \cup saved
  /\ CreateUser(u, newUser(e, p))
  /\ user' = [user EXCEPT ![u] = newUser(e, p)]
  /\ users' = users \cup {u}
  /\ emails' = [emails EXCEPT ![e] = u]
  /\ generateTokens(u)

Login(e, p) ==
  /\ emails[e] # NoOne
  /\ IF emails[e] \notin users
       THEN emails' = [emails EXCEPT ![e] = NoOne] /\ UNCHANGED tokenVars
       ELSE /\ UNCHANGED emails
            /\ IF user[emails[e]].pw = p THEN generateTokens(emails[e]) ELSE cleanup

persistUser(ok, u, v) == UpdateUserRow(ok, u, v) /\ doubt' = Written(ok, u, "other")

UpdateUser(ok, u, v) ==
  /\ u \in users
  /\ user' = [user EXCEPT ![u] = v]
  /\ persistUser(ok, u, v)

AllocateTailscaleIP(ok, u) ==
  /\ u \in users /\ user[u].tailscaleIP = ""
  /\ user' = [user EXCEPT ![u].tailscaleIP = "allocated"]
  /\ persistUser(ok, u, user'[u])

CheckStorageQuota(u, bytes, quota) == u \in users /\ user[u].used + bytes <= quota

\* The counter under the mutex; the row is left to a write outside it.
AddStorageUsed(u, more, less) ==
  /\ u \in users
  /\ user' = [user EXCEPT ![u].used = IF @ + more >= less THEN (@ + more) - less ELSE 0]
  /\ \E w \in Writers : write[w] = Idle /\ write' = [write EXCEPT ![w] = [uid |-> u, row |-> NoUser]]

SavePreferences(ok, u, p) ==
  /\ u \in users
  /\ user' = [user EXCEPT ![u].prefs = p]
  /\ SetUserPreferences(ok, u, p) /\ doubt' = Written(ok, u, "prefs")

SetRole(ok, u, role) ==
  /\ u \in users
  /\ user' = [user EXCEPT ![u].role = role]
  /\ SetUserRole(ok, u, role)
  /\ doubt' = IF ok THEN doubt ELSE Written(ok, u, "other")

DeleteUser(u) ==
  /\ u \in users
  /\ emails' = [emails EXCEPT ![user[u].email] = NoOne]
  /\ users' = users \ {u}

(***************************************************************************)
(* The requests.  The gateway serves once SeedAdmin has returned.           *)
(***************************************************************************)
Serving == seed = "done"
Change  == changes < MaxChanges /\ changes' = changes + 1

RegisterHandler(e, p) ==
  /\ Serving /\ Change /\ e # AdminEmail      \* an address has an "@"
  /\ \/ /\ \E u \in Uids : Register(u, e, p)
        /\ UNCHANGED failures
     \/ /\ emails[e] = NoOne /\ emailFree(e) /\ Outcome(FALSE)
        /\ UNCHANGED <<memVars, tokenVars, row>>
  /\ UNCHANGED <<write, seedVars, doubt, restarts>>

LoginHandler(e, p) ==
  /\ Serving /\ Login(e, p)
  /\ UNCHANGED <<user, users, row, write, seedVars, doubt, changes, failures, restarts>>

Authenticated(t) ==
  /\ Serving /\ ValidateToken(t)
  /\ UNCHANGED <<memVars, row, write, seedVars, doubt, changes, failures, restarts>>

\* Time passes: the 24 hours of a pair are over.
Expire(t) ==
  /\ Serving /\ ~freeToken(t) /\ t \notin past
  /\ past' = past \cup {t}
  /\ UNCHANGED <<memVars, tokens, refreshTokens, tokenExpiry, row, write, seedVars,
                 doubt, changes, failures, restarts>>

AllocateIP(u) ==
  /\ Serving /\ Change /\ RequireAuth(u)
  /\ \E ok \in BOOLEAN : AllocateTailscaleIP(ok, u)
  /\ UNCHANGED <<users, emails, tokenVars, write, seedVars, restarts>>

Preferences(u) ==
  /\ Serving /\ Change /\ RequireAuth(u)
  /\ \E ok \in BOOLEAN : SavePreferences(ok, u, "set")
  /\ UNCHANGED <<users, emails, tokenVars, write, seedVars, restarts>>

SetRoleHandler(u, role) ==
  /\ Serving /\ Change /\ RequireRole(2)
  /\ \E ok \in BOOLEAN : SetRole(ok, u, role)
  /\ UNCHANGED <<users, emails, tokenVars, write, seedVars, restarts>>

DeleteUserHandler(u) ==
  /\ Serving /\ Change /\ RequireRole(2) /\ DeleteUser(u)
  /\ UNCHANGED <<user, tokenVars, row, write, seedVars, doubt, failures, restarts>>

\* usageFn, called by the storage manager (UserStorage).
UsageFunc(u, more, less) ==
  /\ Serving /\ AddStorageUsed(u, more, less)
  /\ UNCHANGED <<users, emails, tokenVars, row, seedVars, doubt, failures, restarts>>

(***************************************************************************)
(* A write outside the mutex reads the struct, waits for the database's own *)
(* mutex, and stores what it read.                                          *)
(***************************************************************************)
ReadForWrite(w) ==
  /\ write[w] # Idle /\ write[w].row = NoUser
  /\ write' = [write EXCEPT ![w].row = user[write[w].uid]]
  /\ UNCHANGED <<memVars, tokenVars, row, seedVars, doubt, changes, failures, restarts>>

\* The struct has moved on since the write read it.
overtaken(w) == otherColumns(write[w].row) # otherColumns(user[write[w].uid])

FinishWrite(w) ==
  /\ write[w].row # NoUser
  /\ \E ok \in BOOLEAN :
       /\ UpdateUserRow(ok, write[w].uid, write[w].row)
       /\ doubt' = Written(ok /\ ~overtaken(w), write[w].uid, "other")
  /\ write' = [write EXCEPT ![w] = Idle]
  /\ UNCHANGED <<memVars, tokenVars, seedVars, changes, restarts>>

(***************************************************************************)
(* SeedAdmin, with FREECOMPUTE_ADMIN_PASSWORD unset: the password of the    *)
(* file, else a generated one; Login, else Register, the administrator's    *)
(* attributes, and the file.                                                *)
(***************************************************************************)
fresh(p) == p # secretFile /\ \A u \in saved : row[u].pw # p

adminPassword(p) == IF secretFile # NoPassword THEN p = secretFile ELSE fresh(p)

SeedKnown ==
  /\ seed = "start"
  /\ \E p \in Passwords : adminPassword(p) /\ Login(AdminEmail, p)
        /\ seed' = IF user[emails[AdminEmail]].pw = p THEN "done" ELSE "failed"
  /\ UNCHANGED <<user, users, row, write, seedPw, secretFile, seedCut, doubt,
                 changes, failures, restarts>>

SeedRegister ==
  /\ seed = "start" /\ emails[AdminEmail] = NoOne
  /\ \E p \in Passwords :
       /\ adminPassword(p)
       /\ \/ /\ \E u \in Uids : Register(u, AdminEmail, p)
             /\ seed' = "registered" /\ seedPw' = p
             /\ UNCHANGED <<seedCut, failures>>
          \/ /\ IF emailFree(AdminEmail) THEN Outcome(FALSE) ELSE UNCHANGED failures
             /\ seed' = "failed" /\ seedPw' = NoPassword
             /\ seedCut' = (seedCut \/ emailFree(AdminEmail))
             /\ UNCHANGED <<memVars, tokenVars, row>>
  /\ UNCHANGED <<write, secretFile, doubt, changes, restarts>>

\* "admin seed error" is logged and the gateway serves all the same.
SeedFailed ==
  /\ seed = "failed" /\ seed' = "done"
  /\ UNCHANGED <<memVars, tokenVars, row, write, seedPw, secretFile, seedCut, doubt,
                 changes, failures, restarts>>

SeedUpdate ==
  /\ seed = "registered"
  /\ \E ok \in BOOLEAN :
       LET u == emails[AdminEmail]
       IN UpdateUser(ok, u, [user[u] EXCEPT !.role = "admin", !.tailscaleIP = "100.0.0.1"])
  /\ seed' = "updated"
  /\ UNCHANGED <<users, emails, tokenVars, write, seedPw, secretFile, seedCut, changes, restarts>>

\* Mutant: the generated password is not written down.
SeedNoFile ==
  /\ seed = "updated"
  /\ seed' = "done" /\ seedPw' = NoPassword /\ seedCut' = FALSE
  /\ UNCHANGED <<memVars, tokenVars, row, write, doubt, secretFile, failures, changes, restarts>>

SeedFile ==
  /\ seed = "updated"
  /\ \E ok \in BOOLEAN :
       /\ IF secretFile = NoPassword THEN Outcome(ok) ELSE ok /\ UNCHANGED failures
       /\ secretFile' = IF ok THEN seedPw ELSE secretFile
       /\ seedCut' = ~ok
  /\ seed' = "done" /\ seedPw' = NoPassword
  /\ UNCHANGED <<memVars, tokenVars, row, write, doubt, changes, restarts>>

SeedAdmin == SeedKnown \/ SeedRegister \/ SeedFailed \/ SeedUpdate \/ SeedFile

(***************************************************************************)
(* A restart, or a crash: the maps, the tokens and the writes under way are *)
(* gone, and loadFromDB reads the rows (an error is logged and leaves the   *)
(* maps empty).                                                             *)
(***************************************************************************)

loadFromDB(ids) ==
  /\ user' = row
  /\ users' = ids
  /\ emails' = [e \in Emails |->
       IF \E u \in ids : row[u].email = e THEN CHOOSE u \in ids : row[u].email = e ELSE NoOne]

Restart ==
  /\ restarts < MaxRestarts /\ restarts' = restarts + 1
  /\ \E ok \in BOOLEAN : Outcome(ok) /\ loadFromDB(IF ok THEN saved ELSE {})
  /\ tokens' = [t \in Tokens |-> NoOne] /\ refreshTokens' = [t \in Tokens |-> NoOne]
  /\ tokenExpiry' = {} /\ past' = {}
  /\ write' = [w \in Writers |-> Idle]
  /\ seed' = "start" /\ seedPw' = NoPassword
  /\ seedCut' = (seedCut \/ seed \in {"registered", "updated"})
  /\ doubt' = {}
  /\ UNCHANGED <<row, secretFile, changes>>

(***************************************************************************)
(* The specification.                                                       *)
(***************************************************************************)
Init ==
  /\ user = [u \in Uids |-> NoUser] /\ users = {}
  /\ emails = [e \in Emails |-> NoOne]
  /\ tokens = [t \in Tokens |-> NoOne] /\ refreshTokens = [t \in Tokens |-> NoOne]
  /\ tokenExpiry = {} /\ past = {}
  /\ row = [u \in Uids |-> NoUser]
  /\ write = [w \in Writers |-> Idle]
  /\ seed = "start" /\ seedPw = NoPassword /\ secretFile = NoPassword /\ seedCut = FALSE
  /\ doubt = {} /\ changes = 0 /\ failures = 0 /\ restarts = 0

Next ==
  \/ \E e \in Emails, p \in Passwords : RegisterHandler(e, p) \/ LoginHandler(e, p)
  \/ \E t \in Tokens : Authenticated(t) \/ Expire(t)
  \/ \E u \in Uids : AllocateIP(u) \/ Preferences(u) \/ DeleteUserHandler(u)
  \/ \E u \in Uids, role \in Roles \ {""} : SetRoleHandler(u, role)
  \/ \E u \in Uids, more, less \in 0..1 :
       /\ Change /\ more # less
       /\ u \in users /\ user[u].used + more <= MaxUsed /\ UsageFunc(u, more, less)
  \/ \E w \in Writers : ReadForWrite(w) \/ FinishWrite(w)
  \/ SeedAdmin
  \/ Restart

Spec == Init /\ [][Next]_vars

(***************************************************************************)
(* Properties.                                                              *)
(***************************************************************************)
\* The state has the shape of the structs, maps and rows.
TypeOK ==
  /\ user \in [Uids -> User \cup {NoUser}] /\ users \subseteq Uids
  /\ emails \in [Emails -> Uids \cup {NoOne}]
  /\ tokens \in [Tokens -> Uids \cup {NoOne}] /\ refreshTokens \in [Tokens -> Uids \cup {NoOne}]
  /\ tokenExpiry \subseteq {"access", "refresh"} \X Tokens /\ past \subseteq Tokens
  /\ row \in [Uids -> User \cup {NoUser}]
  /\ write \in [Writers -> [uid : Uids \cup {NoOne}, row : User \cup {NoUser}]]
  /\ seed \in {"start", "failed", "registered", "updated", "done"}
  /\ {seedPw, secretFile} \subseteq Passwords \cup {NoPassword} /\ seedCut \in BOOLEAN
  /\ doubt \subseteq Uids \X {"prefs", "other"}
  /\ {changes, failures, restarts} \subseteq Nat

\* The two maps of AuthManager describe the same users: an address leads to
\* the user that has it and every user is found under its address, through
\* registrations, deletions, failed loads and restarts (auth.go:79-80; Login
\* has a branch for the state in which they do not).
EmailsMatchUsers ==
  /\ \A e \in Emails : emails[e] # NoOne => emails[e] \in users /\ user[emails[e]].email = e
  /\ \A u \in users : user[u] # NoUser /\ emails[user[u].email] = u

\* "if DB write fails we must not leave a phantom entry in the in-memory maps"
\* (auth.go:177-181): whoever can log in has a row, with the same address and
\* password, and no two rows share an address.
RegisteredIsDurable ==
  /\ \A u \in users : u \in saved /\ row[u].email = user[u].email /\ row[u].pw = user[u].pw
  /\ \A u, v \in saved : row[u].email = row[v].email => u = v

\* What a row, or a struct loaded from it, has to share with the struct of its
\* user: the preferences unless their last write failed, and the other columns
\* unless the last write of them failed or was overtaken, or one is under way.
Follows(u, r) ==
  /\ r # NoUser /\ r.email = user[u].email /\ r.pw = user[u].pw
  /\ <<u, "prefs">> \in doubt \/ r.prefs = user[u].prefs
  /\ \/ <<u, "other">> \in doubt \/ \E w \in Writers : write[w].uid = u
     \/ otherColumns(r) = otherColumns(user[u])

\* The row of a user holds what the gateway shows: an older row that lands over a
\* newer one (AddStorageUsed writes after it has released the mutex) costs no
\* preferences, no address and no password, and the next whole row that lands
\* makes the role and the counter right again (persistUser, SetUserRole and
\* SetUserPreferences write different columns of one row, in and out of the
\* mutex).
RowMatchesAtRest(u) == Follows(u, row[u])

\* Every token the gateway honours has an expiry, so none is honoured for ever
\* (ValidateToken accepts a token that has no entry in tokenExpiry).
NoImmortalToken ==
  /\ \A t \in Tokens : tokens[t] # NoOne => <<"access", t>> \in tokenExpiry
  /\ \A t \in Tokens : refreshTokens[t] # NoOne => <<"refresh", t>> \in tokenExpiry

\* The maps, the rows and the tokens agree on who can log in and for how long.
AccountsConsistent == TypeOK /\ EmailsMatchUsers /\ RegisteredIsDurable /\ NoImmortalToken

\* "Kept on disk so restarts don't lock the operator out" (admin.go:94-95),
\* as far as it holds: whatever is interrupted, the file never names another
\* password than that of a saved administrator, and once the gateway serves
\* there is a file, unless the last seeding that got anywhere was cut off.
AdminNotLockedOut ==
  /\ secretFile # NoPassword =>
       \E u \in saved : row[u].email = AdminEmail /\ row[u].pw = secretFile
  /\ seed = "done" /\ ~seedCut => secretFile # NoPassword

\* The same without the exception: what the comment says.
AdminNeverLockedOut ==
  seed = "done" /\ failures = 0 =>
    \E u \in saved : row[u].email = AdminEmail /\ row[u].pw = secretFile

\* A restart takes no user away and gives every one back as he was, as far as
\* his row was to be trusted.
RestartKeepsUsers ==
  [][restarts' > restarts /\ failures' = failures =>
       \A u \in users : u \in users' /\ Follows(u, user'[u])]_vars

\* Users survive: their rows follow them, and a restart finds them there.
UsersSurvive == [](\A u \in users : RowMatchesAtRest(u)) /\ RestartKeepsUsers

=============================================================================
