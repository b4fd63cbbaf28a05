---------------------------- MODULE AccountProofs ----------------------------
(***************************************************************************)
(* Proofs about module Accounts, for every set of users, addresses,         *)
(* passwords, tokens and concurrent writes, and every number of failures    *)
(* and restarts; about module UserStorage, for every number of paths and    *)
(* uploads and every size of them; and about module Oversight, for every    *)
(* set of VMs, metrics, reviewers, reports and answers of the triage.       *)
(***************************************************************************)
EXTENDS UserStorage, Oversight, TLAPS, FiniteSetTheorems, SequenceTheorems

-----------------------------------------------------------------------------
(***************************************************************************)
(* Tokens.                                                                  *)
(***************************************************************************)
TokenTypes ==
  /\ tokens \in [Tokens -> Uids \cup {NoOne}] /\ refreshTokens \in [Tokens -> Uids \cup {NoOne}]
  /\ tokenExpiry \subseteq {"access", "refresh"} \X Tokens /\ past \subseteq Tokens

TokenInv == TokenTypes /\ NoImmortalToken

LEMMA CleanupKeeps == ASSUME TokenInv, cleanup PROVE TokenInv'
<1> USE DEF TokenInv
<1>1. TokenTypes'
  BY DEF cleanup, TokenTypes, forget, unexpired
<1>2. ASSUME NEW t \in Tokens
      PROVE  /\ tokens'[t] # NoOne => <<"access", t>> \in tokenExpiry'
             /\ refreshTokens'[t] # NoOne => <<"refresh", t>> \in tokenExpiry'
  BY DEF cleanup, TokenTypes, forget, unexpired, overdue, NoImmortalToken
<1> QED
  BY <1>1, <1>2 DEF NoImmortalToken

LEMMA GenerateKeeps == ASSUME TokenInv, NEW u \in Uids, generateTokens(u) PROVE TokenInv'
<1> USE DEF TokenInv
<1>1. PICK t \in Tokens :
        /\ tokens' = [forget(tokens, overdue("access")) EXCEPT ![t] = u]
        /\ refreshTokens' = [forget(refreshTokens, overdue("refresh")) EXCEPT ![t] = u]
        /\ tokenExpiry' = unexpired \cup {<<"access", t>>, <<"refresh", t>>}
        /\ past' = past \ {t}
  BY DEF generateTokens
<1>2. TokenTypes'
  BY <1>1 DEF TokenTypes, forget, unexpired
<1>3. ASSUME NEW s \in Tokens
      PROVE  /\ tokens'[s] # NoOne => <<"access", s>> \in tokenExpiry'
             /\ refreshTokens'[s] # NoOne => <<"refresh", s>> \in tokenExpiry'
  BY <1>1 DEF TokenTypes, forget, unexpired, overdue, NoImmortalToken
<1> QED
  BY <1>2, <1>3 DEF NoImmortalToken

LEMMA ValidateKeeps == ASSUME TokenInv, NEW t \in Tokens, ValidateToken(t) PROVE TokenInv'
<1> USE DEF TokenInv
<1>1. CASE cleanup
  BY <1>1, CleanupKeeps
<1>2. CASE /\ tokens' = forget(tokens, {t})
           /\ tokenExpiry' = tokenExpiry \ {<<"access", t>>}
           /\ UNCHANGED <<refreshTokens, past>>
  <2>1. TokenTypes'
    BY <1>2 DEF TokenTypes, forget
  <2>2. ASSUME NEW s \in Tokens
        PROVE  /\ tokens'[s] # NoOne => <<"access", s>> \in tokenExpiry'
               /\ refreshTokens'[s] # NoOne => <<"refresh", s>> \in tokenExpiry'
    BY <1>2 DEF TokenTypes, forget, NoImmortalToken
  <2> QED
    BY <2>1, <2>2 DEF NoImmortalToken
<1> QED
  BY <1>1, <1>2 DEF ValidateToken

-----------------------------------------------------------------------------
(***************************************************************************)
(* Structs, maps and rows.                                                  *)
(***************************************************************************)
AccountTypes ==
  /\ user \in [Uids -> User \cup {NoUser}] /\ users \subseteq Uids
  /\ emails \in [Emails -> Uids \cup {NoOne}]
  /\ row \in [Uids -> User \cup {NoUser}]
  /\ write \in [Writers -> [uid : Uids \cup {NoOne}, row : User \cup {NoUser}]]
  /\ doubt \subseteq Uids \X {"prefs", "other"}

\* Two structs of one account: the address and the password never change.
SameAccount(v, w) == v.email = w.email /\ v.pw = w.pw

\* A struct, of a deleted user as well, has a row of the same account.
HasRow(u) == user[u] # NoUser => row[u] # NoUser /\ SameAccount(row[u], user[u])

\* A write under way is for a struct there is, and holds a copy of it.
WriteSound(w) ==
  /\ write[w].uid # NoOne => user[write[w].uid] # NoUser
  /\ write[w].row # NoUser => write[w].uid # NoOne /\ SameAccount(write[w].row, user[write[w].uid])

\* Only SetUserPreferences writes the preferences, within the mutex.
PrefsFollow(u) == <<u, "prefs">> \in doubt \/ row[u].prefs = user[u].prefs

\* The other columns are written whole, or one of them.
OthersFollow(u) ==
  \/ <<u, "other">> \in doubt \/ \E w \in Writers : write[w].uid = u
  \/ otherColumns(row[u]) = otherColumns(user[u])

OneRowPerEmail == \A u, v \in saved : row[u].email = row[v].email => u = v

AccountInv ==
  /\ AccountTypes /\ EmailsMatchUsers /\ OneRowPerEmail
  /\ \A u \in Uids : HasRow(u)
  /\ \A w \in Writers : WriteSound(w)
  /\ \A u \in users : PrefsFollow(u) /\ OthersFollow(u)

\* A write settles its own columns, or leaves them in doubt, and no others.
LEMMA DoubtChanges ==
  ASSUME doubt \subseteq Uids \X {"prefs", "other"}, NEW u \in Uids, NEW ok \in BOOLEAN,
         NEW k \in {"prefs", "other"}
  PROVE  /\ Written(ok, u, k) \subseteq Uids \X {"prefs", "other"}
         /\ <<u, k>> \in Written(ok, u, k) <=> ~ ok
         /\ \A x \in Uids, j \in {"prefs", "other"} :
              x # u \/ j # k => (<<x, j>> \in Written(ok, u, k) <=> <<x, j>> \in doubt)
BY DEF Written

\* A step that changes rows, but no account in them, and adds none.
RowsStay ==
  \A x \in Uids : /\ row'[x] # NoUser <=> row[x] # NoUser
                  /\ row[x] # NoUser => SameAccount(row'[x], row[x])

\* A registration adds an account that nobody has, in the maps and the table.
LEMMA RegisterKeeps ==
  ASSUME AccountInv, NEW u \in Uids, NEW e \in Emails, NEW p \in Passwords,
         Register(u, e, p), UNCHANGED <<write, doubt>>
  PROVE  AccountInv'
<1> DEFINE new == newUser(e, p)
<1>1. new \in User /\ new # NoUser /\ new.email = e /\ new.pw = p
  <2>1. new \in User
    BY DEF newUser, User, Roles
  <2> QED
    BY <2>1, AccountsAssumption DEF newUser
<1>2. /\ emails[e] = NoOne /\ u \notin users /\ row[u] = NoUser /\ user[u] = NoUser
      /\ \A v \in saved : row[v].email # e
      /\ row' = [row EXCEPT ![u] = new] /\ user' = [user EXCEPT ![u] = new]
      /\ users' = users \cup {u} /\ emails' = [emails EXCEPT ![e] = u]
  BY DEF Register, CreateUser, emailFree, saved, AccountInv, HasRow
<1> HIDE DEF new
<1>3. AccountTypes'
  BY <1>1, <1>2 DEF AccountInv, AccountTypes
<1>4. EmailsMatchUsers'
  <2>1. /\ \A x \in Uids : user'[x] = IF x = u THEN new ELSE user[x]
        /\ \A f \in Emails : emails'[f] = IF f = e THEN u ELSE emails[f]
    BY <1>2 DEF AccountInv, AccountTypes
  <2>2. ASSUME NEW f \in Emails, emails'[f] # NoOne
        PROVE  emails'[f] \in users' /\ user'[emails'[f]].email = f
    BY <1>1, <1>2, <2>1, <2>2 DEF AccountInv, AccountTypes, EmailsMatchUsers
  <2>3. ASSUME NEW x \in users' PROVE user'[x] # NoUser /\ emails'[user'[x].email] = x
    <3>1. CASE x = u
      BY <1>1, <2>1, <3>1
    <3>2. CASE x # u
      <4>1. x \in users /\ x \in Uids /\ user[x] # NoUser /\ user[x].email \in Emails
        <5>1. x \in users
          BY <1>2, <3>2
        <5>2. user[x] # NoUser /\ user[x] \in User
          BY <5>1 DEF AccountInv, AccountTypes, EmailsMatchUsers
        <5> QED
          BY <5>1, <5>2 DEF AccountInv, AccountTypes, User
      <4>2. user[x].email # e
        BY <1>2, <4>1, AccountsAssumption DEF AccountInv, AccountTypes, EmailsMatchUsers
      <4> QED
        BY <3>2, <2>1, <4>1, <4>2 DEF AccountInv, EmailsMatchUsers
    <3> QED
      BY <3>1, <3>2
  <2> QED
    BY <2>2, <2>3 DEF EmailsMatchUsers
<1>5. OneRowPerEmail'
  BY <1>1, <1>2 DEF AccountInv, AccountTypes, OneRowPerEmail, saved
<1>6. ASSUME NEW x \in Uids PROVE HasRow(x)'
  BY <1>1, <1>2 DEF AccountInv, AccountTypes, HasRow, SameAccount
<1>7. ASSUME NEW w \in Writers PROVE WriteSound(w)'
  BY <1>1, <1>2 DEF AccountInv, AccountTypes, WriteSound, SameAccount
<1>8. ASSUME NEW x \in users' PROVE PrefsFollow(x)' /\ OthersFollow(x)'
  BY <1>1, <1>2 DEF AccountInv, AccountTypes, PrefsFollow, OthersFollow
<1> QED
  BY <1>3, <1>4, <1>5, <1>6, <1>7, <1>8 DEF AccountInv

\* What the operations on one user have in common: its struct changes, not
\* the account; its row may change likewise; a write may be announced.
LEMMA OneUserChanges ==
  ASSUME AccountInv, NEW u \in users, NEW v \in User, SameAccount(v, user[u]),
         user' = [user EXCEPT ![u] = v], UNCHANGED <<users, emails>>,
         NEW r \in User, SameAccount(r, user[u]), row' = [row EXCEPT ![u] = r],
         doubt' \subseteq Uids \X {"prefs", "other"},
         \A x \in Uids, k \in {"prefs", "other"} : x # u => (<<x, k>> \in doubt' <=> <<x, k>> \in doubt),
         \/ UNCHANGED write
         \/ \E w \in Writers : write[w] = Idle /\ write' = [write EXCEPT ![w] = [uid |-> u, row |-> NoUser]],
         PrefsFollow(u)', OthersFollow(u)'
  PROVE  AccountInv' /\ RowsStay
<1>1. /\ u \in Uids /\ user[u] # NoUser /\ row[u] # NoUser /\ SameAccount(row[u], user[u])
      /\ v # NoUser /\ r # NoUser
  BY AccountsAssumption DEF AccountInv, AccountTypes, EmailsMatchUsers, HasRow
<1>2. /\ \A x \in Uids : user'[x] = IF x = u THEN v ELSE user[x]
      /\ \A x \in Uids : row'[x] = IF x = u THEN r ELSE row[x]
  BY DEF AccountInv, AccountTypes
<1>3. AccountTypes'
  <2>1. write' \in [Writers -> [uid : Uids \cup {NoOne}, row : User \cup {NoUser}]]
    BY <1>1 DEF AccountInv, AccountTypes
  <2> QED
    BY <1>1, <2>1 DEF AccountInv, AccountTypes
<1>4. EmailsMatchUsers'
  BY <1>1, <1>2 DEF AccountInv, AccountTypes, EmailsMatchUsers, SameAccount
<1>5. OneRowPerEmail'
  BY <1>1, <1>2 DEF AccountInv, OneRowPerEmail, saved, SameAccount
<1>6. ASSUME NEW x \in Uids PROVE HasRow(x)'
  BY <1>1, <1>2 DEF AccountInv, HasRow, SameAccount
<1>7. ASSUME NEW w \in Writers PROVE WriteSound(w)'
  <2>1. CASE write'[w] = write[w]
    BY <2>1, <1>1, <1>2 DEF AccountInv, AccountTypes, WriteSound, SameAccount
  <2>2. CASE write'[w] = [uid |-> u, row |-> NoUser]
    BY <2>2, <1>1, <1>2 DEF WriteSound
  <2> QED
    BY <2>1, <2>2 DEF AccountInv, AccountTypes
<1>8. ASSUME NEW x \in users' PROVE PrefsFollow(x)' /\ OthersFollow(x)'
  <2>1. CASE x = u
    BY <2>1
  <2>2. CASE x # u
    <3>1. /\ x \in users /\ x \in Uids
          /\ \A k \in {"prefs", "other"} : <<x, k>> \in doubt => <<x, k>> \in doubt'
      BY <1>8, <2>2 DEF AccountInv, AccountTypes
    <3>2. PrefsFollow(x)'
      BY <2>2, <3>1, <1>2 DEF AccountInv, PrefsFollow
    <3>3. (\E w \in Writers : write[w].uid = x) => (\E w \in Writers : write'[w].uid = x)
      BY <3>1, AccountsAssumption DEF AccountInv, AccountTypes, Idle
    <3> QED
      BY <2>2, <3>1, <3>2, <3>3, <1>2 DEF AccountInv, OthersFollow
  <2> QED
    BY <2>1, <2>2
<1>9. RowsStay
  BY <1>1, <1>2 DEF RowsStay, SameAccount
<1> QED
  BY <1>3, <1>4, <1>5, <1>6, <1>7, <1>8, <1>9 DEF AccountInv

LEMMA FieldSet ==
  ASSUME NEW v \in User
  PROVE  /\ \A p \in {"{}", "set"} :
              LET new == [v EXCEPT !.prefs = p]
              IN  new \in User /\ SameAccount(new, v) /\ new.prefs = p
         /\ \A role \in Roles :
              LET new == [v EXCEPT !.role = role]
              IN  new \in User /\ SameAccount(new, v) /\ new.prefs = v.prefs
         /\ \A n \in Nat :
              LET new == [v EXCEPT !.used = n]
              IN  new \in User /\ SameAccount(new, v) /\ new.prefs = v.prefs /\ new.used = n
         /\ \A ip \in {"allocated", "100.0.0.1"} :
              LET new == [v EXCEPT !.tailscaleIP = ip]
              IN  new \in User /\ SameAccount(new, v) /\ new.prefs = v.prefs
BY DEF User, SameAccount

\* An UPDATE of a user the gateway knows finds its row, unless it fails.
LEMMA RowUpdated ==
  ASSUME AccountInv, NEW u \in users, NEW ok \in BOOLEAN, NEW r \in User, UpdateRow(ok, u, r)
  PROVE  row' = [row EXCEPT ![u] = IF ok THEN r ELSE row[u]]
BY DEF AccountInv, AccountTypes, EmailsMatchUsers, HasRow, UpdateRow, saved

\* The struct and the row of a user are read and written under the mutex:
\* persistUser in it, and the two updates of a column.
LEMMA KnownUser ==
  ASSUME AccountInv, NEW u \in users
  PROVE  u \in Uids /\ user[u] \in User /\ row[u] \in User /\ SameAccount(row[u], user[u])
BY AccountsAssumption DEF AccountInv, AccountTypes, EmailsMatchUsers, HasRow

LEMMA UpdateUserKeeps ==
  ASSUME AccountInv, NEW u \in users, NEW ok \in BOOLEAN, NEW v \in User,
         SameAccount(v, user[u]), v.prefs = user[u].prefs,
         user' = [user EXCEPT ![u] = v], persistUser(ok, u, v),
         UNCHANGED <<users, emails, write>>
  PROVE  AccountInv' /\ RowsStay
<1> DEFINE r == [v EXCEPT !.prefs = row[u].prefs]
<1>1. /\ u \in Uids /\ user[u] \in User /\ row[u] \in User /\ SameAccount(row[u], user[u])
      /\ row[u].prefs \in {"{}", "set"}
  BY KnownUser DEF User
<1>2. r \in User /\ SameAccount(r, v) /\ r.prefs = row[u].prefs
  BY <1>1, FieldSet
<1>3. otherColumns(r) = otherColumns(v)
  BY DEF User, otherColumns
<1>4. UpdateRow(ok, u, r) /\ doubt' = Written(ok, u, "other")
  BY DEF persistUser, UpdateUserRow
<1>9. /\ doubt' \subseteq Uids \X {"prefs", "other"}
      /\ <<u, "other">> \in doubt' <=> ~ ok
      /\ \A x \in Uids, k \in {"prefs", "other"} :
           x # u \/ k = "prefs" => (<<x, k>> \in doubt' <=> <<x, k>> \in doubt)
  BY <1>1, <1>4, DoubtChanges DEF AccountInv, AccountTypes
<1> HIDE DEF r
<1>5. row' = [row EXCEPT ![u] = IF ok THEN r ELSE row[u]]
  BY <1>2, <1>4, RowUpdated
<1>6. /\ row'[u] = IF ok THEN r ELSE row[u]
      /\ user'[u] = v
  BY <1>1, <1>5 DEF AccountInv, AccountTypes
<1>7. PrefsFollow(u)'
  BY <1>1, <1>2, <1>6, <1>9 DEF AccountInv, PrefsFollow
<1>8. OthersFollow(u)'
  BY <1>3, <1>6, <1>9 DEF OthersFollow
<1> QED
  BY <1>1, <1>2, <1>5, <1>7, <1>8, <1>9, OneUserChanges DEF SameAccount

LEMMA SavePreferencesKeeps ==
  ASSUME AccountInv, NEW u \in Uids, NEW ok \in BOOLEAN, SavePreferences(ok, u, "set"),
         UNCHANGED <<users, emails, write>>
  PROVE  AccountInv' /\ RowsStay
<1> DEFINE v == [user[u] EXCEPT !.prefs = "set"]
           r == [row[u] EXCEPT !.prefs = "set"]
<1>1. /\ u \in users /\ user[u] \in User /\ row[u] \in User /\ SameAccount(row[u], user[u])
  BY KnownUser DEF SavePreferences
<1>2. /\ v \in User /\ SameAccount(v, user[u]) /\ v.prefs = "set"
      /\ r \in User /\ SameAccount(r, user[u]) /\ r.prefs = "set"
  BY <1>1, FieldSet DEF SameAccount
<1>3. otherColumns(r) = otherColumns(row[u]) /\ otherColumns(v) = otherColumns(user[u])
  BY <1>1 DEF User, otherColumns
<1>4. UpdateRow(ok, u, r) /\ doubt' = Written(ok, u, "prefs") /\ user' = [user EXCEPT ![u] = v]
  BY <1>1 DEF SavePreferences, SetUserPreferences, AccountInv, AccountTypes
<1>9. /\ doubt' \subseteq Uids \X {"prefs", "other"}
      /\ <<u, "prefs">> \in doubt' <=> ~ ok
      /\ \A x \in Uids, k \in {"prefs", "other"} :
           x # u \/ k = "other" => (<<x, k>> \in doubt' <=> <<x, k>> \in doubt)
  BY <1>4, DoubtChanges DEF AccountInv, AccountTypes
<1> HIDE DEF r, v
<1>5. row' = [row EXCEPT ![u] = IF ok THEN r ELSE row[u]]
  BY <1>1, <1>2, <1>4, RowUpdated
<1>6. /\ row'[u] = IF ok THEN r ELSE row[u]
      /\ user'[u] = v
  BY <1>1, <1>4, <1>5 DEF AccountInv, AccountTypes
<1>7. PrefsFollow(u)'
  BY <1>1, <1>2, <1>6, <1>9 DEF AccountInv, PrefsFollow
<1>8. OthersFollow(u)'
  BY <1>1, <1>3, <1>6, <1>9 DEF AccountInv, OthersFollow
<1> QED
  BY <1>1, <1>2, <1>4, <1>5, <1>7, <1>8, <1>9, OneUserChanges

LEMMA SetRoleKeeps ==
  ASSUME AccountInv, NEW u \in Uids, NEW ok \in BOOLEAN, NEW role \in Roles, SetRole(ok, u, role),
         UNCHANGED <<users, emails, write>>
  PROVE  AccountInv' /\ RowsStay
<1> DEFINE v == [user[u] EXCEPT !.role = role]
           r == [row[u] EXCEPT !.role = role]
<1>1. /\ u \in users /\ user[u] \in User /\ row[u] \in User /\ SameAccount(row[u], user[u])
  BY KnownUser DEF SetRole
<1>2. /\ v \in User /\ SameAccount(v, user[u]) /\ v.prefs = user[u].prefs
      /\ r \in User /\ SameAccount(r, user[u]) /\ r.prefs = row[u].prefs
  <2>1. v \in User /\ SameAccount(v, user[u]) /\ v.prefs = user[u].prefs
    BY <1>1, FieldSet
  <2>2. r \in User /\ SameAccount(r, row[u]) /\ r.prefs = row[u].prefs
    BY <1>1, FieldSet
  <2> HIDE DEF r, v
  <2> QED
    BY <1>1, <2>1, <2>2 DEF SameAccount
<1>3. otherColumns(row[u]) = otherColumns(user[u]) => otherColumns(r) = otherColumns(v)
  BY <1>1 DEF User, otherColumns
<1>4. /\ UpdateRow(ok, u, r) /\ user' = [user EXCEPT ![u] = v]
      /\ doubt' = IF ok THEN doubt ELSE Written(ok, u, "other")
  BY <1>1 DEF SetRole, SetUserRole, AccountInv, AccountTypes
<1>9. /\ doubt' \subseteq Uids \X {"prefs", "other"}
      /\ ok \/ <<u, "other">> \in doubt'
      /\ <<u, "other">> \in doubt => <<u, "other">> \in doubt'
      /\ \A x \in Uids, k \in {"prefs", "other"} :
           x # u \/ k = "prefs" => (<<x, k>> \in doubt' <=> <<x, k>> \in doubt)
  <2>1. doubt \subseteq Uids \X {"prefs", "other"}
    BY DEF AccountInv, AccountTypes
  <2>2. CASE ok
    BY <1>4, <2>1, <2>2
  <2>3. CASE ~ ok
    BY <1>4, <2>1, <2>3, DoubtChanges
  <2> QED
    BY <2>2, <2>3
<1> HIDE DEF r, v
<1>5. row' = [row EXCEPT ![u] = IF ok THEN r ELSE row[u]]
  BY <1>1, <1>2, <1>4, RowUpdated
<1>6. /\ row'[u] = IF ok THEN r ELSE row[u]
      /\ user'[u] = v
  BY <1>1, <1>4, <1>5 DEF AccountInv, AccountTypes
<1>7. PrefsFollow(u)'
  BY <1>1, <1>2, <1>6, <1>9 DEF AccountInv, PrefsFollow
<1>8. OthersFollow(u)'
  BY <1>1, <1>3, <1>6, <1>9 DEF AccountInv, OthersFollow
<1> QED
  BY <1>1, <1>2, <1>4, <1>5, <1>7, <1>8, <1>9, OneUserChanges

\* The counter changes at once, the row when the announced write is down.
LEMMA AddStorageUsedKeeps ==
  ASSUME AccountInv, NEW u \in Uids, NEW more \in Nat, NEW less \in Nat, AddStorageUsed(u, more, less),
         UNCHANGED <<users, emails, row, doubt>>
  PROVE  AccountInv' /\ RowsStay
<1> DEFINE n == IF user[u].used + more >= less THEN (user[u].used + more) - less ELSE 0
           v == [user[u] EXCEPT !.used = n]
<1>1. /\ u \in users /\ user[u] \in User /\ row[u] \in User /\ SameAccount(row[u], user[u])
  BY KnownUser DEF AddStorageUsed
<1>2. n \in Nat
  <2>1. user[u].used \in Nat
    BY <1>1 DEF User
  <2> QED
    BY <2>1
<1>3. user' = [user EXCEPT ![u] = v]
  BY <1>1 DEF AddStorageUsed, AccountInv, AccountTypes
<1> HIDE DEF n
<1>4. v \in User /\ SameAccount(v, user[u]) /\ v.prefs = user[u].prefs
  BY <1>1, <1>2, FieldSet
<1> HIDE DEF v
<1>5. PICK w \in Writers : write[w] = Idle /\ write' = [write EXCEPT ![w] = [uid |-> u, row |-> NoUser]]
  BY DEF AddStorageUsed
<1>6. PrefsFollow(u)'
  BY <1>1, <1>3, <1>4 DEF AccountInv, AccountTypes, PrefsFollow
<1>7. OthersFollow(u)'
  BY <1>5 DEF AccountInv, AccountTypes, OthersFollow
<1>8. row' = [row EXCEPT ![u] = row[u]]
  BY DEF AccountInv, AccountTypes
<1>9. doubt' \subseteq Uids \X {"prefs", "other"}
  BY DEF AccountInv, AccountTypes
<1> QED
  BY <1>1, <1>3, <1>4, <1>5, <1>6, <1>7, <1>8, <1>9, OneUserChanges

LEMMA DeleteUserKeeps ==
  ASSUME AccountInv, NEW u \in Uids, DeleteUser(u), UNCHANGED <<user, row, write, doubt>>
  PROVE  AccountInv'
<1>1. /\ emails' = [emails EXCEPT ![user[u].email] = NoOne]
      /\ users' = users \ {u} /\ u \in users /\ user[u] \in User
  BY KnownUser DEF DeleteUser
<1>2. AccountTypes'
  BY <1>1 DEF AccountInv, AccountTypes
<1>3. EmailsMatchUsers'
  <2>1. user[u].email \in Emails
    BY <1>1 DEF User
  <2> QED
    BY <1>1, <2>1, AccountsAssumption DEF AccountInv, AccountTypes, EmailsMatchUsers
<1>4. ASSUME NEW x \in users' PROVE PrefsFollow(x)' /\ OthersFollow(x)'
  BY <1>1 DEF AccountInv, PrefsFollow, OthersFollow
<1> QED
  BY <1>2, <1>3, <1>4 DEF AccountInv, OneRowPerEmail, saved, HasRow, WriteSound

LEMMA ReadForWriteKeeps ==
  ASSUME AccountInv, NEW w \in Writers, ReadForWrite(w)
  PROVE  AccountInv'
<1>1. /\ UNCHANGED <<user, users, emails, row, doubt>>
      /\ write[w] # Idle /\ write[w].row = NoUser
      /\ write' = [write EXCEPT ![w].row = user[write[w].uid]]
  BY DEF ReadForWrite, memVars
<1>2. write[w].uid \in Uids
  BY <1>1 DEF AccountInv, AccountTypes, Idle
<1>3. /\ write' = [write EXCEPT ![w] = write'[w]]
      /\ write'[w] = [uid |-> write[w].uid, row |-> user[write[w].uid]]
  BY <1>1 DEF AccountInv, AccountTypes
<1>4. AccountTypes'
  BY <1>1, <1>2, <1>3 DEF AccountInv, AccountTypes
<1>5. ASSUME NEW x \in Writers PROVE WriteSound(x)' /\ write'[x].uid = write[x].uid
  BY <1>1, <1>2, <1>3, AccountsAssumption DEF AccountInv, AccountTypes, WriteSound, SameAccount
<1>6. ASSUME NEW x \in users' PROVE PrefsFollow(x)' /\ OthersFollow(x)'
  BY <1>1, <1>5 DEF AccountInv, PrefsFollow, OthersFollow
<1> QED
  BY <1>1, <1>4, <1>5, <1>6 DEF AccountInv, OneRowPerEmail, saved, HasRow, EmailsMatchUsers

\* A write outside the mutex stores what it read of a struct: the account is
\* right whatever happened since, the rest unless it was overtaken.
LEMMA FinishWriteKeeps ==
  ASSUME AccountInv, NEW w \in Writers, FinishWrite(w)
  PROVE  AccountInv' /\ RowsStay
<1> DEFINE u == write[w].uid
           v == write[w].row
           r == [v EXCEPT !.prefs = row[u].prefs]
<1>1. /\ u \in Uids /\ v \in User /\ SameAccount(v, user[u]) /\ user[u] \in User
      /\ row[u] \in User /\ SameAccount(row[u], user[u])
  BY AccountsAssumption DEF FinishWrite, AccountInv, AccountTypes, WriteSound, HasRow
<1>2. r \in User /\ SameAccount(r, v) /\ r.prefs = row[u].prefs
  BY <1>1, FieldSet DEF User
<1>3. PICK ok \in BOOLEAN :
        /\ row' = [row EXCEPT ![u] = IF ok THEN r ELSE row[u]]
        /\ doubt' = Written(ok /\ ~ overtaken(w), u, "other")
  BY <1>1, AccountsAssumption DEF FinishWrite, UpdateUserRow, UpdateRow, saved, AccountInv, AccountTypes
<1>4. /\ UNCHANGED <<user, users, emails>>
      /\ write' = [write EXCEPT ![w] = Idle]
  BY DEF FinishWrite, memVars
<1>5. ~ overtaken(w) => otherColumns(r) = otherColumns(user[u])
  <2>1. otherColumns(r) = otherColumns(v)
    BY <1>1 DEF User, otherColumns
  <2> QED
    BY <2>1 DEF overtaken
<1>12. /\ doubt' \subseteq Uids \X {"prefs", "other"}
       /\ <<u, "other">> \in doubt' <=> ~ (ok /\ ~ overtaken(w))
       /\ \A x \in Uids, k \in {"prefs", "other"} :
            x # u \/ k = "prefs" => (<<x, k>> \in doubt' <=> <<x, k>> \in doubt)
  <2>1. PICK good \in BOOLEAN : good <=> ok /\ ~ overtaken(w)
    OBVIOUS
  <2>2. doubt' = Written(good, u, "other")
    BY <1>3, <2>1
  <2> QED
    BY <1>1, <2>1, <2>2, DoubtChanges DEF AccountInv, AccountTypes
<1> HIDE DEF r
<1>6. AccountTypes'
  <2>1. row' \in [Uids -> User \cup {NoUser}]
    BY <1>1, <1>2, <1>3 DEF AccountInv, AccountTypes
  <2>2. doubt' \subseteq Uids \X {"prefs", "other"}
    BY <1>12
  <2>3. write' \in [Writers -> [uid : Uids \cup {NoOne}, row : User \cup {NoUser}]]
    BY <1>4 DEF AccountInv, AccountTypes, Idle
  <2> QED
    BY <1>4, <2>1, <2>2, <2>3 DEF AccountInv, AccountTypes
<1>7. ASSUME NEW x \in Uids
      PROVE  /\ row'[x] # NoUser <=> row[x] # NoUser
             /\ row[x] # NoUser => SameAccount(row'[x], row[x])
  BY <1>1, <1>2, <1>3, AccountsAssumption DEF AccountInv, AccountTypes, SameAccount
<1>8. EmailsMatchUsers' /\ OneRowPerEmail'
  BY <1>4, <1>7 DEF AccountInv, EmailsMatchUsers, OneRowPerEmail, saved, SameAccount
<1>9. ASSUME NEW x \in Uids PROVE HasRow(x)'
  BY <1>4, <1>7 DEF AccountInv, HasRow, SameAccount
<1>10. ASSUME NEW x \in Writers PROVE WriteSound(x)'
  <2>1. write'[x] = IF x = w THEN Idle ELSE write[x]
    BY <1>4 DEF AccountInv, AccountTypes
  <2> QED
    BY <1>4, <2>1 DEF AccountInv, WriteSound, Idle
<1>11. ASSUME NEW x \in users' PROVE PrefsFollow(x)' /\ OthersFollow(x)'
  <2>1. x \in users /\ x \in Uids /\ PrefsFollow(x) /\ OthersFollow(x)
    BY <1>4 DEF AccountInv, AccountTypes
  <2>2. CASE x # u
    <3>1. /\ row'[x] = row[x]
          /\ \A k \in {"prefs", "other"} : <<x, k>> \in doubt => <<x, k>> \in doubt'
      BY <1>3, <1>12, <2>1, <2>2 DEF AccountInv, AccountTypes
    <3>2. \A y \in Writers : write[y].uid = x => write'[y].uid = x
      BY <1>4, <2>2 DEF AccountInv, AccountTypes
    <3> QED
      BY <1>4, <2>1, <3>1, <3>2 DEF PrefsFollow, OthersFollow
  <2>3. CASE x = u
    <3>1. row'[x] = IF ok THEN r ELSE row[x]
      BY <1>1, <1>3, <2>3 DEF AccountInv, AccountTypes
    <3>2. PrefsFollow(x)'
      BY <1>1, <1>2, <1>4, <1>12, <2>1, <2>3, <3>1 DEF PrefsFollow
    <3>3. OthersFollow(x)'
      BY <1>1, <1>4, <1>5, <1>12, <2>3, <3>1 DEF OthersFollow
    <3> QED
      BY <3>2, <3>3
  <2> QED
    BY <2>2, <2>3
<1> QED
  BY <1>6, <1>7, <1>8, <1>9, <1>10, <1>11 DEF AccountInv, RowsStay

\* The maps after a restart are the rows', or empty.
LEMMA RestartKeeps ==
  ASSUME AccountInv, Restart
  PROVE  AccountInv'
<1>1. PICK ids \in {saved, {}} : loadFromDB(ids)
  BY DEF Restart
<1>2. /\ user' = row /\ row' = row /\ users' = ids /\ doubt' = {}
      /\ write' = [w \in Writers |-> Idle]
  BY <1>1 DEF Restart, loadFromDB
<1>3. ASSUME NEW e \in Emails
      PROVE  \/ emails'[e] \in ids /\ row[emails'[e]].email = e
             \/ emails'[e] = NoOne /\ \A u \in ids : row[u].email # e
  BY <1>1 DEF loadFromDB
<1>4. ids \subseteq Uids /\ \A u \in ids : row[u] \in User /\ row[u] # NoUser
  BY DEF saved, AccountInv, AccountTypes
<1>5. AccountTypes'
  <2>1. emails' \in [Emails -> Uids \cup {NoOne}]
    <3>1. \A e \in Emails : emails'[e] \in Uids \cup {NoOne}
      BY <1>3, <1>4
    <3>2. emails' = [e \in Emails |-> emails'[e]]
      BY <1>1 DEF loadFromDB
    <3> QED
      BY <3>1, <3>2
  <2> QED
    BY <1>2, <1>4, <2>1 DEF AccountInv, AccountTypes, Idle
<1>6. EmailsMatchUsers'
  <2>1. ASSUME NEW e \in Emails, emails'[e] # NoOne
        PROVE  emails'[e] \in users' /\ user'[emails'[e]].email = e
    BY <1>2, <1>3, <2>1
  <2>2. ASSUME NEW u \in users' PROVE user'[u] # NoUser /\ emails'[user'[u].email] = u
    <3>1. u \in ids /\ row[u].email \in Emails
      BY <1>2, <1>4 DEF User
    <3>2. emails'[row[u].email] \in ids /\ row[emails'[row[u].email]].email = row[u].email
      BY <1>3, <3>1
    <3>3. ids \subseteq saved
      OBVIOUS
    <3> QED
      BY <1>2, <1>4, <3>1, <3>2, <3>3 DEF AccountInv, OneRowPerEmail
  <2> QED
    BY <2>1, <2>2 DEF EmailsMatchUsers
<1>7. \A u \in Uids : HasRow(u)' /\ PrefsFollow(u)' /\ OthersFollow(u)'
  BY <1>2 DEF HasRow, PrefsFollow, OthersFollow, SameAccount
<1>8. \A w \in Writers : WriteSound(w)'
  BY <1>2 DEF WriteSound, Idle
<1>9. OneRowPerEmail' /\ users' \subseteq Uids
  BY <1>2, <1>4 DEF AccountInv, OneRowPerEmail, saved
<1> QED
  BY <1>5, <1>6, <1>7, <1>8, <1>9 DEF AccountInv

LEMMA AllocateTailscaleIPKeeps ==
  ASSUME AccountInv, NEW u \in Uids, NEW ok \in BOOLEAN, AllocateTailscaleIP(ok, u),
         UNCHANGED <<users, emails, write>>
  PROVE  AccountInv' /\ RowsStay
<1> DEFINE v == [user[u] EXCEPT !.tailscaleIP = "allocated"]
<1>1. u \in users /\ user[u] \in User
  BY KnownUser DEF AllocateTailscaleIP
<1>2. user' = [user EXCEPT ![u] = v] /\ user'[u] = v
  BY <1>1 DEF AllocateTailscaleIP, AccountInv, AccountTypes
<1>3. v \in User /\ SameAccount(v, user[u]) /\ v.prefs = user[u].prefs
  BY <1>1, FieldSet
<1>4. persistUser(ok, u, v)
  BY <1>2 DEF AllocateTailscaleIP
<1> HIDE DEF v
<1> QED
  BY <1>1, <1>2, <1>3, <1>4, UpdateUserKeeps

\* Who is found under an address is a user, so Login drops no address.
LEMMA LoginReads ==
  ASSUME AccountInv, NEW e \in Emails, NEW p \in Passwords, Login(e, p)
  PROVE  /\ UNCHANGED emails
         /\ emails[e] \in users /\ user[emails[e]].email = e
         /\ IF user[emails[e]].pw = p THEN generateTokens(emails[e]) ELSE cleanup
BY DEF Login, AccountInv, EmailsMatchUsers

LEMMA NothingChanges ==
  ASSUME AccountInv, UNCHANGED <<user, users, emails, row, write, doubt>>
  PROVE  AccountInv' /\ RowsStay
BY DEF AccountInv, AccountTypes, EmailsMatchUsers, OneRowPerEmail, saved, HasRow, WriteSound,
       PrefsFollow, OthersFollow, RowsStay, SameAccount

-----------------------------------------------------------------------------
(***************************************************************************)
(* The administrator's seeding.                                             *)
(***************************************************************************)
AdminRow(p) == \E u \in saved : row[u].email = AdminEmail /\ row[u].pw = p

\* What the table holds of the administrator at each point of a seeding, as
\* long as none was cut off: nobody before the first, then the one whose
\* password is being, or has been, written to the file.
SeedInv ==
  /\ seed \in {"start", "failed", "registered", "updated", "done"}
  /\ {seedPw, secretFile} \subseteq Passwords \cup {NoPassword} /\ seedCut \in BOOLEAN
  /\ seed \in {"registered", "updated"} => seedPw \in Passwords /\ AdminRow(seedPw)
  /\ secretFile # NoPassword => AdminRow(secretFile)
  /\ seed = "start" /\ ~ seedCut =>
       \/ secretFile = NoPassword /\ emailFree(AdminEmail)
       \/ secretFile # NoPassword /\ AdminRow(secretFile)
  /\ seed \in {"failed", "done"} /\ ~ seedCut => secretFile # NoPassword /\ AdminRow(secretFile)

LEMMA AdminRowStays ==
  ASSUME AccountInv, RowsStay
  PROVE  /\ \A p : AdminRow(p)' <=> AdminRow(p)
         /\ emailFree(AdminEmail)' <=> emailFree(AdminEmail)
<1>1. saved' = saved
  BY DEF RowsStay, saved
<1>2. \A u \in saved : row'[u].email = row[u].email /\ row'[u].pw = row[u].pw
  BY DEF RowsStay, saved, SameAccount
<1>3. ASSUME NEW p PROVE AdminRow(p)' <=> AdminRow(p)
  BY <1>1, <1>2 DEF AdminRow
<1>4. emailFree(AdminEmail)' <=> emailFree(AdminEmail)
  BY <1>1, <1>2 DEF emailFree
<1> QED
  BY <1>3, <1>4

LEMMA SeedStays ==
  ASSUME AccountInv, SeedInv, RowsStay, UNCHANGED seedVars
  PROVE  SeedInv'
BY AdminRowStays DEF SeedInv, seedVars

\* Another user's registration.
LEMMA SeedStaysAtRegister ==
  ASSUME AccountInv, SeedInv, NEW u \in Uids, NEW e \in Emails, NEW p \in Passwords,
         e # AdminEmail, Register(u, e, p), UNCHANGED seedVars
  PROVE  SeedInv'
<1>1. /\ row[u] = NoUser /\ row' = [row EXCEPT ![u] = newUser(e, p)]
      /\ newUser(e, p).email = e /\ newUser(e, p).pw = p
  BY DEF Register, CreateUser, saved, newUser
<1>2. \A x \in Uids : x # u => row'[x] = row[x]
  BY <1>1 DEF AccountInv, AccountTypes
<1>3. \A x \in saved : x \in saved' /\ row'[x] = row[x]
  BY <1>1, <1>2 DEF saved
<1>4. \A q : AdminRow(q) => AdminRow(q)'
  BY <1>3 DEF AdminRow
<1>5. emailFree(AdminEmail) => emailFree(AdminEmail)'
  BY <1>1, <1>2 DEF emailFree, saved, AccountInv, AccountTypes
<1> QED
  BY <1>4, <1>5 DEF SeedInv, seedVars

\* While no seeding was cut off, whoever is found under the administrator's
\* address has the password of the file, so that Login succeeds.
LEMMA SeedKnownKeeps ==
  ASSUME AccountInv, SeedInv, SeedKnown
  PROVE  SeedInv'
<1>1. PICK p \in Passwords :
        /\ adminPassword(p) /\ Login(AdminEmail, p)
        /\ seed' = IF user[emails[AdminEmail]].pw = p THEN "done" ELSE "failed"
  BY DEF SeedKnown
<1>2. /\ seed = "start" /\ UNCHANGED <<row, seedPw, secretFile, seedCut>>
      /\ seed' \in {"done", "failed"}
  BY <1>1 DEF SeedKnown
<1>3. SUFFICES ASSUME ~ seedCut PROVE secretFile # NoPassword /\ AdminRow(secretFile)
  BY <1>2 DEF SeedInv, AdminRow, saved
<1>4. LET u == emails[AdminEmail]
      IN  u \in users /\ user[u].email = AdminEmail
  BY <1>1, LoginReads, AccountsAssumption
<1>5. ~ emailFree(AdminEmail)
  BY <1>4, KnownUser DEF emailFree, saved, SameAccount, AccountInv, HasRow, EmailsMatchUsers
<1> QED
  BY <1>2, <1>3, <1>5 DEF SeedInv

LEMMA SeedRegisterKeeps ==
  ASSUME AccountInv, SeedInv, SeedRegister
  PROVE  SeedInv'
<1>1. PICK p \in Passwords :
       /\ adminPassword(p)
       /\ \/ /\ \E u \in Uids : Register(u, AdminEmail, p)
             /\ seed' = "registered" /\ seedPw' = p
             /\ UNCHANGED <<seedCut, failures>>
          \/ /\ seed' = "failed" /\ seedPw' = NoPassword
             /\ seedCut' = (seedCut \/ emailFree(AdminEmail))
             /\ UNCHANGED <<memVars, tokenVars, row>>
  BY DEF SeedRegister
<1>2. seed = "start" /\ UNCHANGED secretFile
  BY DEF SeedRegister
<1>3. CASE /\ \E u \in Uids : Register(u, AdminEmail, p)
           /\ seed' = "registered" /\ seedPw' = p
           /\ UNCHANGED <<seedCut, failures>>
  <2>1. PICK u \in Uids : Register(u, AdminEmail, p)
    BY <1>3
  <2>2. row' = [row EXCEPT ![u] = newUser(AdminEmail, p)] /\ newUser(AdminEmail, p) # NoUser
    <3>1. newUser(AdminEmail, p) \in User
      BY AccountsAssumption DEF newUser, User, Roles
    <3> QED
      BY <2>1, <3>1, AccountsAssumption DEF Register, CreateUser
  <2>3. AdminRow(p)'
    BY <2>2 DEF AdminRow, saved, newUser, AccountInv, AccountTypes
  <2>4. secretFile # NoPassword => AdminRow(secretFile)'
    BY <1>1, <1>2, <2>3 DEF adminPassword
  <2> QED
    BY <1>2, <1>3, <2>3, <2>4 DEF SeedInv
<1>4. CASE /\ seed' = "failed" /\ seedPw' = NoPassword
           /\ seedCut' = (seedCut \/ emailFree(AdminEmail))
           /\ UNCHANGED <<memVars, tokenVars, row>>
  <2>1. ASSUME ~ seedCut' PROVE secretFile # NoPassword /\ AdminRow(secretFile)
    BY <1>2, <1>4, <2>1 DEF SeedInv
  <2>2. AdminRow(secretFile) => AdminRow(secretFile)'
    BY <1>2, <1>4 DEF AdminRow, saved
  <2>3. seedCut' \in BOOLEAN
    BY <1>4 DEF SeedInv, emailFree
  <2> QED
    BY <1>2, <1>4, <2>1, <2>2, <2>3 DEF SeedInv
<1> QED
  BY <1>1, <1>3, <1>4

\* SeedUpdate gives the administrator the role and the first address.
LEMMA SeedUpdateKeeps ==
  ASSUME AccountInv, SeedInv, SeedUpdate
  PROVE  AccountInv' /\ SeedInv'
<1> DEFINE u == emails[AdminEmail]
           v == [user[u] EXCEPT !.role = "admin", !.tailscaleIP = "100.0.0.1"]
<1>1. PICK ok \in BOOLEAN : UpdateUser(ok, u, v)
  BY DEF SeedUpdate
<1>2. u \in users /\ user' = [user EXCEPT ![u] = v] /\ persistUser(ok, u, v)
  BY <1>1 DEF UpdateUser
<1>3. UNCHANGED <<users, emails, write, seedPw, secretFile, seedCut>>
      /\ seed = "registered" /\ seed' = "updated"
  BY DEF SeedUpdate
<1>4. v \in User /\ SameAccount(v, user[u]) /\ v.prefs = user[u].prefs
  <2>1. user[u] \in User
    BY <1>2, KnownUser
  <2> QED
    BY <2>1 DEF User, Roles, SameAccount
<1> HIDE DEF v
<1>5. AccountInv' /\ RowsStay
  BY <1>2, <1>3, <1>4, UpdateUserKeeps
<1> QED
  BY <1>3, <1>5, AdminRowStays DEF SeedInv

LEMMA SeedFileKeeps ==
  ASSUME SeedInv, SeedFile
  PROVE  SeedInv'
<1>1. PICK ok \in BOOLEAN :
        /\ secretFile = NoPassword \/ ok
        /\ secretFile' = (IF ok THEN seedPw ELSE secretFile)
        /\ seedCut' = ~ ok
  BY DEF SeedFile
<1>2. /\ seed = "updated" /\ seed' = "done" /\ seedPw' = NoPassword /\ UNCHANGED row
      /\ seedPw \in Passwords /\ seedPw # NoPassword /\ AdminRow(seedPw)
  BY AccountsAssumption DEF SeedFile, SeedInv
<1>3. ok => AdminRow(secretFile)'
  BY <1>1, <1>2 DEF AdminRow, saved
<1> QED
  BY <1>1, <1>2, <1>3 DEF SeedInv

LEMMA SeedRestarts ==
  ASSUME SeedInv, Restart
  PROVE  SeedInv'
<1>1. /\ seed' = "start" /\ seedPw' = NoPassword /\ UNCHANGED <<row, secretFile>>
      /\ seedCut' = (seedCut \/ seed \in {"registered", "updated"})
  BY DEF Restart
<1>2. /\ AdminRow(secretFile)' <=> AdminRow(secretFile)
      /\ emailFree(AdminEmail)' <=> emailFree(AdminEmail)
  BY <1>1 DEF AdminRow, emailFree, saved
<1> QED
  BY <1>1, <1>2 DEF SeedInv

-----------------------------------------------------------------------------
(***************************************************************************)
(* The specification.                                                       *)
(***************************************************************************)
Counters == {changes, failures, restarts} \subseteq Nat

Inv == TokenInv /\ AccountInv /\ SeedInv /\ Counters

LEMMA InitHolds == Init => Inv
<1> SUFFICES ASSUME Init PROVE Inv
  OBVIOUS
<1>1. TokenInv
  BY DEF Init, TokenInv, TokenTypes, NoImmortalToken
<1>2. AccountInv
  BY DEF Init, AccountInv, AccountTypes, EmailsMatchUsers, OneRowPerEmail, saved, HasRow,
         WriteSound, Idle
<1>3. SeedInv
  BY DEF Init, SeedInv, emailFree, saved
<1> QED
  BY <1>1, <1>2, <1>3 DEF Init, Inv, Counters

LEMMA CountersStay ==
  ASSUME Counters,
         UNCHANGED failures \/ (\E ok \in BOOLEAN : Outcome(ok)),
         UNCHANGED changes \/ Change,
         UNCHANGED restarts \/ restarts' = restarts + 1
  PROVE  Counters'
BY DEF Counters, Outcome, Change

LEMMA RegisterHandlerKeeps ==
  ASSUME Inv, NEW e \in Emails, NEW p \in Passwords, RegisterHandler(e, p)
  PROVE  Inv'
<1>1. Counters' /\ e # AdminEmail /\ UNCHANGED <<write, seedVars, doubt>>
  BY CountersStay DEF RegisterHandler, Inv
<1>2. CASE \E u \in Uids : Register(u, e, p)
  <2>1. PICK u \in Uids : Register(u, e, p)
    BY <1>2
  <2>2. generateTokens(u)
    BY <2>1 DEF Register
  <2> QED
    BY <1>1, <2>1, <2>2, GenerateKeeps, RegisterKeeps, SeedStaysAtRegister DEF Inv
<1>3. CASE UNCHANGED <<memVars, tokenVars, row>>
  <2>1. TokenInv'
    BY <1>3 DEF Inv, TokenInv, TokenTypes, NoImmortalToken, tokenVars
  <2>2. AccountInv' /\ RowsStay
    BY <1>1, <1>3, NothingChanges DEF Inv, memVars
  <2> QED
    BY <1>1, <2>1, <2>2, SeedStays DEF Inv
<1> QED
  BY <1>2, <1>3 DEF RegisterHandler

\* The requests that touch one user and no token.
LEMMA TokensStay ==
  ASSUME Inv, UNCHANGED <<tokenVars, seedVars>>, AccountInv', RowsStay, Counters'
  PROVE  Inv'
<1>1. TokenInv'
  BY DEF Inv, TokenInv, TokenTypes, NoImmortalToken, tokenVars
<1> QED
  BY <1>1, SeedStays DEF Inv

LEMMA LoginHandlerKeeps ==
  ASSUME Inv, NEW e \in Emails, NEW p \in Passwords, LoginHandler(e, p)
  PROVE  Inv'
<1>1. UNCHANGED <<user, users, emails, row, write, seedVars, doubt, changes, failures, restarts>>
  BY LoginReads DEF LoginHandler, Inv
<1>2. TokenInv'
  BY LoginReads, CleanupKeeps, GenerateKeeps DEF LoginHandler, Inv, AccountInv, AccountTypes
<1> QED
  BY <1>1, <1>2, NothingChanges, SeedStays, CountersStay DEF Inv

LEMMA AuthenticatedKeeps ==
  ASSUME Inv, NEW t \in Tokens, Authenticated(t) \/ Expire(t)
  PROVE  Inv'
<1>1. UNCHANGED <<user, users, emails, row, write, seedVars, doubt, changes, failures, restarts>>
  BY DEF Authenticated, Expire, memVars
<1>2. TokenInv'
  <2>1. CASE Authenticated(t)
    BY <2>1, ValidateKeeps DEF Authenticated, Inv
  <2>2. CASE Expire(t)
    BY <2>2 DEF Expire, Inv, TokenInv, TokenTypes, NoImmortalToken
  <2> QED
    BY <2>1, <2>2
<1> QED
  BY <1>1, <1>2, NothingChanges, SeedStays, CountersStay DEF Inv


\* The requests on one user: its address, its preferences, its role, its files.
LEMMA RequestKeeps ==
  ASSUME Inv, NEW u \in Uids,
         \/ AllocateIP(u) \/ Preferences(u)
         \/ \E role \in Roles \ {""} : SetRoleHandler(u, role)
  PROVE  Inv'
<1>1. /\ UNCHANGED <<users, emails, tokenVars, write, seedVars, restarts>> /\ Change
      /\ \E ok \in BOOLEAN : \/ AllocateTailscaleIP(ok, u)
                             \/ SavePreferences(ok, u, "set")
                             \/ \E role \in Roles : SetRole(ok, u, role)
  BY DEF AllocateIP, Preferences, SetRoleHandler
<1>2. \E ok \in BOOLEAN : Outcome(ok)
  BY <1>1 DEF AllocateTailscaleIP, SavePreferences, SetRole, persistUser, UpdateUserRow,
              SetUserPreferences, SetUserRole, UpdateRow
<1>3. AccountInv' /\ RowsStay
  BY <1>1, AllocateTailscaleIPKeeps, SavePreferencesKeeps, SetRoleKeeps DEF Inv
<1>4. Counters'
  BY <1>1, <1>2, CountersStay DEF Inv
<1> QED
  BY <1>1, <1>3, <1>4, TokensStay

LEMMA DeletionKeeps ==
  ASSUME Inv, NEW u \in Uids, DeleteUserHandler(u)
  PROVE  Inv'
<1>1. /\ UNCHANGED <<user, tokenVars, row, write, seedVars, doubt, failures, restarts>>
      /\ Change /\ DeleteUser(u)
  BY DEF DeleteUserHandler
<1>2. AccountInv' /\ RowsStay
  BY <1>1, DeleteUserKeeps DEF Inv, RowsStay, SameAccount
<1>3. Counters'
  BY <1>1, CountersStay DEF Inv
<1> QED
  BY <1>1, <1>2, <1>3, TokensStay

LEMMA UsageKeeps ==
  ASSUME Inv, NEW u \in Uids, NEW more \in Nat, NEW less \in Nat,
         UsageFunc(u, more, less), UNCHANGED changes \/ Change
  PROVE  Inv'
<1>1. /\ UNCHANGED <<users, emails, tokenVars, row, seedVars, doubt, failures, restarts>>
      /\ AddStorageUsed(u, more, less)
  BY DEF UsageFunc
<1>2. AccountInv' /\ RowsStay
  BY <1>1, AddStorageUsedKeeps DEF Inv
<1>3. Counters'
  BY <1>1, CountersStay DEF Inv
<1> QED
  BY <1>1, <1>2, <1>3, TokensStay

LEMMA WriteKeeps ==
  ASSUME Inv, NEW w \in Writers, ReadForWrite(w) \/ FinishWrite(w)
  PROVE  Inv'
<1>1. CASE ReadForWrite(w)
  <2>1. /\ UNCHANGED <<tokenVars, row, seedVars, changes, failures, restarts>>
        /\ AccountInv'
    BY <1>1, ReadForWriteKeeps DEF ReadForWrite, Inv
  <2>2. RowsStay
    BY <2>1 DEF RowsStay, SameAccount
  <2> QED
    BY <2>1, <2>2, TokensStay, CountersStay DEF Inv
<1>2. CASE FinishWrite(w)
  <2>1. /\ UNCHANGED <<tokenVars, seedVars, changes, restarts>>
        /\ \E ok \in BOOLEAN : Outcome(ok)
        /\ AccountInv' /\ RowsStay
    BY <1>2, FinishWriteKeeps DEF FinishWrite, UpdateUserRow, UpdateRow, Inv
  <2> QED
    BY <2>1, TokensStay, CountersStay DEF Inv
<1> QED
  BY <1>1, <1>2

LEMMA SeedAdminKeeps ==
  ASSUME Inv, SeedAdmin
  PROVE  Inv'
<1>1. CASE SeedKnown
  <2>1. /\ UNCHANGED <<user, users, row, write, doubt, changes, failures, restarts>>
        /\ \E p \in Passwords : Login(AdminEmail, p)
    BY <1>1 DEF SeedKnown
  <2>2. UNCHANGED emails /\ emails[AdminEmail] \in users
        /\ (cleanup \/ generateTokens(emails[AdminEmail]))
    BY <2>1, LoginReads, AccountsAssumption DEF Inv
  <2>3. TokenInv'
    BY <2>2, CleanupKeeps, GenerateKeeps DEF Inv, AccountInv, AccountTypes
  <2>4. AccountInv' /\ Counters'
    BY <2>1, <2>2, NothingChanges, CountersStay DEF Inv
  <2> QED
    BY <1>1, <2>3, <2>4, SeedKnownKeeps DEF Inv
<1>2. CASE SeedRegister
  <2>1. /\ UNCHANGED <<write, doubt, changes, restarts>>
        /\ UNCHANGED failures \/ Outcome(FALSE)
        /\ \/ \E p \in Passwords, u \in Uids : Register(u, AdminEmail, p)
           \/ UNCHANGED <<memVars, tokenVars, row>>
    BY <1>2 DEF SeedRegister
  <2>2. Counters'
    BY <2>1, CountersStay DEF Inv
  <2>3. CASE UNCHANGED <<memVars, tokenVars, row>>
    BY <1>2, <2>1, <2>2, <2>3, NothingChanges, SeedRegisterKeeps
       DEF Inv, TokenInv, TokenTypes, NoImmortalToken, tokenVars, memVars
  <2>4. CASE \E p \in Passwords, u \in Uids : Register(u, AdminEmail, p)
    <3>1. PICK p \in Passwords, u \in Uids : Register(u, AdminEmail, p)
      BY <2>4
    <3>2. TokenInv'
      BY <3>1, GenerateKeeps DEF Register, Inv
    <3> QED
      BY <1>2, <2>1, <2>2, <3>1, <3>2, RegisterKeeps, SeedRegisterKeeps, AccountsAssumption DEF Inv
  <2> QED
    BY <2>1, <2>3, <2>4
<1>3. CASE SeedFailed
  <2>1. /\ UNCHANGED <<memVars, tokenVars, row, write, seedPw, secretFile, seedCut, doubt,
                       changes, failures, restarts>>
        /\ seed = "failed" /\ seed' = "done"
    BY <1>3 DEF SeedFailed
  <2>2. AccountInv' /\ RowsStay /\ Counters'
    BY <2>1, NothingChanges, CountersStay DEF Inv, memVars
  <2>3. SeedInv'
    BY <2>1, <2>2, AdminRowStays DEF Inv, SeedInv
  <2> QED
    BY <2>1, <2>2, <2>3 DEF Inv, TokenInv, TokenTypes, NoImmortalToken, tokenVars
<1>4. CASE SeedUpdate
  <2>1. /\ UNCHANGED <<tokenVars, changes, restarts>>
        /\ \E ok \in BOOLEAN : Outcome(ok)
        /\ AccountInv' /\ SeedInv'
    BY <1>4, SeedUpdateKeeps DEF SeedUpdate, UpdateUser, persistUser, UpdateUserRow, UpdateRow, Inv
  <2>2. Counters'
    BY <2>1, CountersStay DEF Inv
  <2> QED
    BY <2>1, <2>2 DEF Inv, TokenInv, TokenTypes, NoImmortalToken, tokenVars
<1>5. CASE SeedFile
  <2>1. /\ UNCHANGED <<memVars, tokenVars, row, write, doubt, changes, restarts>>
        /\ UNCHANGED failures \/ \E ok \in BOOLEAN : Outcome(ok)
    BY <1>5 DEF SeedFile
  <2>2. AccountInv' /\ Counters'
    BY <2>1, NothingChanges, CountersStay DEF Inv, memVars
  <2> QED
    BY <1>5, <2>1, <2>2, SeedFileKeeps DEF Inv, TokenInv, TokenTypes, NoImmortalToken, tokenVars
<1> QED
  BY <1>1, <1>2, <1>3, <1>4, <1>5 DEF SeedAdmin

LEMMA CrashKeeps ==
  ASSUME Inv, Restart
  PROVE  Inv'
<1>1. TokenInv'
  BY DEF Restart, TokenInv, TokenTypes, NoImmortalToken
<1>2. Counters'
  BY CountersStay DEF Restart, Inv
<1> QED
  BY <1>1, <1>2, RestartKeeps, SeedRestarts DEF Inv

LEMMA StepKeeps == Inv /\ [Next]_vars => Inv'
<1> SUFFICES ASSUME Inv, [Next]_vars PROVE Inv'
  OBVIOUS
<1>1. CASE UNCHANGED vars
  <2>1. UNCHANGED <<user, users, emails, row, write, doubt, tokenVars, seedVars,
                    changes, failures, restarts>>
    BY <1>1 DEF vars, memVars
  <2> QED
    BY <2>1, NothingChanges, TokensStay, CountersStay DEF Inv
<1>2. CASE \E e \in Emails, p \in Passwords : RegisterHandler(e, p) \/ LoginHandler(e, p)
  BY <1>2, RegisterHandlerKeeps, LoginHandlerKeeps
<1>3. CASE \E t \in Tokens : Authenticated(t) \/ Expire(t)
  BY <1>3, AuthenticatedKeeps
<1>4. CASE \E u \in Uids : AllocateIP(u) \/ Preferences(u) \/ DeleteUserHandler(u)
  BY <1>4, RequestKeeps, DeletionKeeps
<1>5. CASE \E u \in Uids, role \in Roles \ {""} : SetRoleHandler(u, role)
  BY <1>5, RequestKeeps
<1>6. CASE \E u \in Uids, more, less \in 0..1 :
             /\ Change /\ more # less
             /\ u \in users /\ user[u].used + more <= MaxUsed /\ UsageFunc(u, more, less)
  BY <1>6, UsageKeeps
<1>7. CASE \E w \in Writers : ReadForWrite(w) \/ FinishWrite(w)
  BY <1>7, WriteKeeps
<1>8. CASE SeedAdmin \/ Restart
  BY <1>8, SeedAdminKeeps, CrashKeeps
<1> QED
  BY <1>1, <1>2, <1>3, <1>4, <1>5, <1>6, <1>7, <1>8 DEF Next

THEOREM AccountsInductive == Spec => []Inv
BY InitHolds, StepKeeps, PTL DEF Spec

LEMMA InvTypes == Inv => TypeOK
BY DEF Inv, TokenInv, TokenTypes, AccountInv, AccountTypes, SeedInv, Counters, TypeOK

LEMMA InvDurable == Inv => RegisteredIsDurable
<1> SUFFICES ASSUME Inv PROVE RegisteredIsDurable
  OBVIOUS
<1>1. ASSUME NEW u \in users
      PROVE  u \in saved /\ row[u].email = user[u].email /\ row[u].pw = user[u].pw
  BY <1>1 DEF Inv, AccountInv, AccountTypes, EmailsMatchUsers, HasRow, SameAccount, saved
<1> QED
  BY <1>1 DEF Inv, AccountInv, OneRowPerEmail, RegisteredIsDurable

\* The address map, the users map and the table describe the same accounts and
\* no token lives for ever, through failed INSERTs, writes that arrive late,
\* deletions, interrupted seedings and restarts that fail to load.
THEOREM AccountsConsistentHolds == Spec => []AccountsConsistent
<1>1. Inv => AccountsConsistent
  BY InvTypes, InvDurable DEF Inv, TokenInv, AccountInv, AccountsConsistent
<1> QED
  BY <1>1, AccountsInductive, PTL

\* The file never names another password than a saved administrator's, and once
\* the gateway serves there is one, unless a seeding was cut off (SeedAdmin).
THEOREM AdminNotLockedOutHolds == Spec => []AdminNotLockedOut
<1>1. Inv => AdminNotLockedOut
  BY DEF Inv, SeedInv, AdminRow, AdminNotLockedOut
<1> QED
  BY <1>1, AccountsInductive, PTL

LEMMA InvFollows == Inv => \A u \in users : RowMatchesAtRest(u)
<1> SUFFICES ASSUME Inv, NEW u \in users PROVE Follows(u, row[u])
  BY DEF RowMatchesAtRest
<1>1. PrefsFollow(u) /\ OthersFollow(u)
  BY DEF Inv, AccountInv
<1>2. row[u] \in User /\ SameAccount(row[u], user[u])
  BY KnownUser DEF Inv
<1> QED
  BY <1>1, <1>2, AccountsAssumption DEF Follows, PrefsFollow, OthersFollow, SameAccount

LEMMA RestartStep ==
  Inv /\ [Next]_vars =>
    (restarts' > restarts /\ failures' = failures =>
       \A u \in users : u \in users' /\ Follows(u, user'[u]))
<1> SUFFICES ASSUME Inv, [Next]_vars, restarts' > restarts, failures' = failures, NEW u \in users
             PROVE  u \in users' /\ Follows(u, user'[u])
  OBVIOUS
<1>1. restarts \in Nat /\ failures \in Nat
  BY DEF Inv, Counters
<1>2. Restart
  <2>1. UNCHANGED restarts => FALSE
    BY <1>1
  <2> QED
    BY <2>1 DEF Next, vars, RegisterHandler, LoginHandler, Authenticated, Expire, AllocateIP,
                Preferences, SetRoleHandler, DeleteUserHandler, UsageFunc, ReadForWrite,
                FinishWrite, SeedAdmin, SeedKnown, SeedRegister, SeedFailed, SeedUpdate, SeedFile
<1>3. loadFromDB(saved)
  BY <1>1, <1>2 DEF Restart, Outcome
<1>4. Follows(u, row[u])
  BY InvFollows DEF RowMatchesAtRest
<1>5. u \in saved
  BY InvDurable DEF RegisteredIsDurable
<1> QED
  BY <1>3, <1>4, <1>5 DEF loadFromDB

\* A row holds what the gateway shows, in every column whose last write neither
\* failed nor was overtaken, and a restart that can load gives every user back
\* as his row has him.
THEOREM UsersSurviveHolds == Spec => UsersSurvive
<1> QED
  BY InvFollows, RestartStep, AccountsInductive, PTL DEF Spec, UsersSurvive, RestartKeepsUsers


-----------------------------------------------------------------------------
(***************************************************************************)
(* Sums, counted byte by byte.                                              *)
(***************************************************************************)
Positive(n) == IF n > 0 THEN n ELSE 0

Bytes(S, f) == {b \in S \X (1..MaxSize) : b[2] <= f[b[1]]}

LEMMA Sizes ==
  /\ MaxSize \in Nat /\ IsFiniteSet(1..MaxSize) /\ Cardinality(1..MaxSize) = MaxSize
  /\ \A n \in Int : IsFiniteSet(1..n) /\ Cardinality(1..n) = Positive(n)
<1>1. MaxSize \in Nat /\ 1 \in Int
  BY StorageAssumption
<1>2. ASSUME NEW n \in Int PROVE IsFiniteSet(1..n) /\ Cardinality(1..n) = Positive(n)
  <2>1. IsFiniteSet(1..n) /\ Cardinality(1..n) = IF 1 > n THEN 0 ELSE n - 1 + 1
    BY <1>1, FS_Interval
  <2> QED
    BY <2>1 DEF Positive
<1>3. Positive(MaxSize) = MaxSize
  BY <1>1 DEF Positive
<1> QED
  BY <1>1, <1>2, <1>3

LEMMA BytesFinite ==
  ASSUME NEW S, IsFiniteSet(S), NEW f
  PROVE  /\ IsFiniteSet(Bytes(S, f))
         /\ Total(S, f) = Cardinality(Bytes(S, f)) /\ Total(S, f) \in Nat
<1>1. IsFiniteSet(S \X (1..MaxSize))
  BY FS_Product, Sizes
<1>2. IsFiniteSet(Bytes(S, f))
  BY <1>1, FS_Subset DEF Bytes
<1> QED
  BY <1>2, FS_CardinalityType DEF Bytes, Total

\* A sum is the sum without x and the value at x.
LEMMA TotalSplit ==
  ASSUME NEW S, IsFiniteSet(S), NEW f \in [S -> Int], NEW x \in S, f[x] <= MaxSize
  PROVE  Total(S, f) = Cardinality({b \in Bytes(S, f) : b[1] # x}) + Positive(f[x])
<1> DEFINE rest == {b \in Bytes(S, f) : b[1] # x}
           own == {x} \X (1..f[x])
<1>1. f[x] \in Int /\ MaxSize \in Nat
  BY StorageAssumption
<1>2. Bytes(S, f) = rest \cup own /\ rest \cap own = {}
  BY <1>1 DEF Bytes
<1>3. IsFiniteSet(rest)
  BY BytesFinite, FS_Subset
<1>4. IsFiniteSet(1..f[x]) /\ Cardinality(1..f[x]) = Positive(f[x])
  BY <1>1, Sizes
<1>5. IsFiniteSet(own) /\ Cardinality(own) = Positive(f[x])
  <2>1. IsFiniteSet({x}) /\ Cardinality({x}) = 1
    BY FS_Singleton
  <2>2. IsFiniteSet(own) /\ Cardinality(own) = 1 * Cardinality(1..f[x])
    BY <1>4, <2>1, FS_Product
  <2> QED
    BY <1>1, <1>4, <2>2 DEF Positive
<1>6. Cardinality(rest \cup own) = Cardinality(rest) + Cardinality(own) - Cardinality({})
  BY <1>2, <1>3, <1>5, FS_Union
<1>7. Cardinality({}) = 0 /\ Cardinality(rest) \in Nat /\ Cardinality(own) \in Nat
  BY <1>3, <1>5, FS_EmptySet, FS_CardinalityType
<1> HIDE DEF rest, own
<1>8. Cardinality(Bytes(S, f)) = Cardinality(rest) + Positive(f[x])
  BY <1>2, <1>5, <1>6, <1>7
<1> QED
  BY <1>8, BytesFinite DEF rest

\* Two functions that differ in one argument have sums that differ as much.
LEMMA TotalChange ==
  ASSUME NEW S, IsFiniteSet(S), NEW f \in [S -> Int], NEW g \in [S -> Int], NEW x \in S,
         f[x] <= MaxSize, g[x] <= MaxSize, \A y \in S : y # x => g[y] = f[y]
  PROVE  Total(S, g) + Positive(f[x]) = Total(S, f) + Positive(g[x])
<1> DEFINE restF == {b \in Bytes(S, f) : b[1] # x}
           restG == {b \in Bytes(S, g) : b[1] # x}
<1>1. restG = restF
  BY DEF Bytes
<1>2. Cardinality(restF) \in Nat
  BY BytesFinite, FS_Subset, FS_CardinalityType
<1>3. Positive(f[x]) \in Nat /\ Positive(g[x]) \in Nat
  BY DEF Positive
<1>4. Total(S, f) = Cardinality(restF) + Positive(f[x])
  BY TotalSplit
<1>5. Total(S, g) = Cardinality(restG) + Positive(g[x])
  BY TotalSplit
<1> HIDE DEF restF, restG
<1> QED
  BY <1>1, <1>2, <1>3, <1>4, <1>5

LEMMA TotalOfNone ==
  ASSUME NEW S, NEW f \in [S -> Int], \A y \in S : f[y] <= 0
  PROVE  Total(S, f) = 0
<1>1. Bytes(S, f) = {}
  BY StorageAssumption DEF Bytes
<1> QED
  BY <1>1, FS_EmptySet DEF Bytes, Total

\* Without x, the sum is at most the largest value for each of the others.
LEMMA TotalOfOthers ==
  ASSUME NEW S, IsFiniteSet(S), NEW f \in [S -> Int], NEW x \in S, f[x] <= 0
  PROVE  Total(S, f) <= (Cardinality(S) - 1) * MaxSize
<1>1. Bytes(S, f) \subseteq (S \ {x}) \X (1..MaxSize)
  BY StorageAssumption DEF Bytes
<1>2. IsFiniteSet(S \ {x}) /\ Cardinality(S \ {x}) = Cardinality(S) - 1
  BY FS_RemoveElement
<1>3. IsFiniteSet(1..MaxSize) /\ Cardinality(1..MaxSize) = MaxSize
  BY Sizes
<1>4. /\ IsFiniteSet((S \ {x}) \X (1..MaxSize))
      /\ Cardinality((S \ {x}) \X (1..MaxSize)) = (Cardinality(S) - 1) * MaxSize
  <2>1. /\ IsFiniteSet((S \ {x}) \X (1..MaxSize))
        /\ Cardinality((S \ {x}) \X (1..MaxSize)) = Cardinality(S \ {x}) * Cardinality(1..MaxSize)
    BY <1>2, <1>3, FS_Product
  <2> QED
    BY <1>2, <1>3, <2>1
<1>5. Cardinality(Bytes(S, f)) <= Cardinality((S \ {x}) \X (1..MaxSize))
  BY <1>1, <1>4, FS_Subset
<1> QED
  BY <1>4, <1>5, BytesFinite


-----------------------------------------------------------------------------
(***************************************************************************)
(* One user's files.                                                        *)
(***************************************************************************)
Sized == (0..MaxSize) \cup {NoFile}

UploadRecord == [stage : {"none", "begun", "copying", "indexed"}, path : Paths \cup {NoFile},
                 size : 0..MaxSize, written : 0..MaxSize, linked : BOOLEAN, delta : Int]

StorageTypes ==
  /\ files \in [Paths -> Sized] /\ disk \in [Paths -> Sized]
  /\ upload \in [Uploads -> UploadRecord]
  /\ removal \in [stage : {"none", "unlinked", "dropped"}, path : Paths \cup {NoFile},
                  freed : 0..MaxSize]
  /\ removal.stage # "none" => removal.path \in Paths
  /\ drifted \in BOOLEAN

UploadSound(i) ==
  /\ upload[i].stage # "none" => upload[i].path \in Paths
  /\ upload[i].stage # "indexed" => upload[i].delta = 0
  /\ upload[i].written <= upload[i].size
  /\ upload[i].delta <= upload[i].size /\ -upload[i].delta <= MaxSize
  /\ upload[i].linked => upload[i].path \in Paths /\ disk[upload[i].path] # NoFile

\* A gateway that did not load its users refuses every upload, and has none
\* of the index either.
NothingWithoutOwner ==
  Owner \notin users /\ ~ drifted =>
    /\ \A i \in Uploads : upload[i].stage = "none"
    /\ \A p \in Paths : files[p] = NoFile
    /\ removal.stage = "dropped" => removal.freed = 0

\* What an upload under way may still add to the counter.
pending(i) == IF upload[i].stage \in {"begun", "copying"} THEN upload[i].size ELSE upload[i].delta

Due == Total(Uploads, [i \in Uploads |-> pending(i)])

Ceiling == Quota + (Cardinality(Uploads) - 1) * MaxSize

\* The row, and the copies of the struct on their way to it.
WritesBounded ==
  /\ row[Owner].used <= Ceiling
  /\ \A w \in Writers : write[w].uid = Owner /\ write[w].row # NoUser => write[w].row.used <= Ceiling

StorageInv ==
  /\ AccountInv /\ user[Owner] # NoUser
  /\ StorageTypes /\ \A i \in Uploads : UploadSound(i)
  /\ NothingWithoutOwner
  /\ UsageFollowsIndex
  /\ used + Due <= Ceiling /\ WritesBounded

LEMMA NothingUploaded ==
  /\ NoUpload \in UploadRecord
  /\ NoUpload.stage = "none" /\ NoUpload.size = 0 /\ NoUpload.written = 0
  /\ NoUpload.delta = 0 /\ NoUpload.linked = FALSE
<1>1. 0 \in 0..MaxSize
  BY StorageAssumption
<1> QED
  BY <1>1 DEF NoUpload, UploadRecord

LEMMA StorageValues ==
  ASSUME StorageInv
  PROVE  /\ used = user[Owner].used /\ used \in Nat
         /\ row[Owner] \in User /\ row[Owner] # NoUser /\ row[Owner].used \in Nat
         /\ MaxSize \in Nat /\ Quota \in Nat /\ Ceiling \in Int
         /\ \A i \in Uploads : upload[i].delta \in Int /\ upload[i].size \in 0..MaxSize
                               /\ upload[i].written \in 0..MaxSize /\ pending(i) \in Int
                               /\ pending(i) <= MaxSize
         /\ \A p \in Paths : sizeOf(p) \in 0..MaxSize
<1>1. Owner \in Uids /\ MaxSize \in Nat /\ Quota \in Nat /\ Cardinality(Uploads) \in Nat
  BY StorageAssumption, FS_CardinalityType
<1>2. user[Owner] \in User /\ row[Owner] \in User /\ row[Owner] # NoUser
  BY <1>1 DEF StorageInv, AccountInv, AccountTypes, HasRow
<1>3. \A i \in Uploads : upload[i].delta \in Int /\ upload[i].size \in 0..MaxSize
                         /\ upload[i].written \in 0..MaxSize
                         /\ upload[i].delta <= upload[i].size
  BY DEF StorageInv, StorageTypes, UploadSound, UploadRecord
<1>4. \A i \in Uploads : pending(i) \in Int /\ pending(i) <= MaxSize
  BY <1>1, <1>3 DEF pending
<1>5. \A p \in Paths : sizeOf(p) \in 0..MaxSize
  BY <1>1 DEF StorageInv, StorageTypes, Sized, sizeOf
<1>6. used = user[Owner].used /\ used \in Nat /\ row[Owner].used \in Nat
  BY <1>2 DEF StorageInv, used, User
<1>7. Ceiling \in Int
  BY <1>1 DEF Ceiling
<1> QED
  BY <1>1, <1>2, <1>3, <1>4, <1>5, <1>6, <1>7

LEMMA SumsAreNumbers ==
  {Indexed, Gained, Lost, Due} \subseteq Nat /\ {Indexed', Gained', Lost', Due'} \subseteq Nat
<1>1. Indexed \in Nat /\ Gained \in Nat /\ Lost \in Nat /\ Due \in Nat
  BY BytesFinite, StorageAssumption DEF Indexed, Gained, Lost, Due
<1>2. /\ Indexed' = Total(Paths, [p \in Paths |-> sizeOf(p)'])
      /\ Gained' = Total(Uploads, [i \in Uploads |-> upload'[i].delta])
      /\ Lost' = Total(Uploads, [i \in Uploads |-> -upload'[i].delta])
      /\ Due' = Total(Uploads, [i \in Uploads |-> pending(i)'])
  BY DEF Indexed, Gained, Lost, Due
<1>3. Indexed' \in Nat /\ Gained' \in Nat /\ Lost' \in Nat /\ Due' \in Nat
  BY <1>2, BytesFinite, StorageAssumption
<1> QED
  BY <1>1, <1>3

\* A step that changes the numbers of one upload.
LEMMA UploadCounted ==
  ASSUME StorageInv, NEW i \in Uploads,
         \A j \in Uploads : j # i => /\ upload'[j].stage = upload[j].stage
                                    /\ upload'[j].size = upload[j].size
                                    /\ upload'[j].delta = upload[j].delta,
         upload'[i].delta \in Int, upload'[i].delta <= MaxSize, -upload'[i].delta <= MaxSize,
         pending(i)' \in Int, pending(i)' <= MaxSize
  PROVE  /\ Gained' + Positive(upload[i].delta) = Gained + Positive(upload'[i].delta)
         /\ Lost' + Positive(-upload[i].delta) = Lost + Positive(-upload'[i].delta)
         /\ Due' + Positive(pending(i)) = Due + Positive(pending(i)')
<1>1. /\ Gained' = Total(Uploads, [j \in Uploads |-> upload'[j].delta])
      /\ Lost' = Total(Uploads, [j \in Uploads |-> -upload'[j].delta])
      /\ Due' = Total(Uploads, [j \in Uploads |-> pending(j)'])
  BY DEF Gained, Lost, Due
<1>2. IsFiniteSet(Uploads) /\ MaxSize \in Nat
  BY StorageAssumption
<1>3. \A j \in Uploads : /\ upload[j].delta \in Int /\ upload[j].delta <= MaxSize
                         /\ -upload[j].delta <= MaxSize
                         /\ pending(j) \in Int /\ pending(j) <= MaxSize
  BY StorageValues DEF StorageInv, UploadSound
<1>4. \A j \in Uploads : j # i => pending(j)' = pending(j)
  BY DEF pending
<1>5. Gained' + Positive(upload[i].delta) = Gained + Positive(upload'[i].delta)
  <2> DEFINE f == [j \in Uploads |-> upload[j].delta]
             g == [j \in Uploads |-> upload'[j].delta]
  <2>1. f \in [Uploads -> Int] /\ g \in [Uploads -> Int]
    BY <1>3
  <2>2. f[i] = upload[i].delta /\ g[i] = upload'[i].delta /\ \A j \in Uploads : j # i => g[j] = f[j]
    OBVIOUS
  <2>3. Gained = Total(Uploads, f) /\ Gained' = Total(Uploads, g)
    BY <1>1 DEF Gained
  <2> HIDE DEF f, g
  <2> QED
    BY <1>2, <1>3, <2>1, <2>2, <2>3, TotalChange
<1>6. Lost' + Positive(-upload[i].delta) = Lost + Positive(-upload'[i].delta)
  <2> DEFINE f == [j \in Uploads |-> -upload[j].delta]
             g == [j \in Uploads |-> -upload'[j].delta]
  <2>1. f \in [Uploads -> Int] /\ g \in [Uploads -> Int]
    BY <1>3
  <2>2. f[i] = -upload[i].delta /\ g[i] = -upload'[i].delta /\ \A j \in Uploads : j # i => g[j] = f[j]
    OBVIOUS
  <2>3. Lost = Total(Uploads, f) /\ Lost' = Total(Uploads, g)
    BY <1>1 DEF Lost
  <2> HIDE DEF f, g
  <2> QED
    BY <1>2, <1>3, <2>1, <2>2, <2>3, TotalChange
<1>7. Due' + Positive(pending(i)) = Due + Positive(pending(i)')
  <2> DEFINE f == [j \in Uploads |-> pending(j)]
             g == [j \in Uploads |-> pending(j)']
  <2>1. f \in [Uploads -> Int] /\ g \in [Uploads -> Int]
    BY <1>3, <1>4
  <2>2. f[i] = pending(i) /\ g[i] = pending(i)' /\ \A j \in Uploads : j # i => g[j] = f[j]
    BY <1>4
  <2>3. Due = Total(Uploads, f) /\ Due' = Total(Uploads, g)
    BY <1>1 DEF Due
  <2> HIDE DEF f, g
  <2> QED
    BY <1>2, <1>3, <2>1, <2>2, <2>3, TotalChange
<1> QED
  BY <1>5, <1>6, <1>7

\* A step that changes none of them.
LEMMA UploadsUncounted ==
  ASSUME \A j \in Uploads : /\ upload'[j].stage = upload[j].stage
                            /\ upload'[j].size = upload[j].size
                            /\ upload'[j].delta = upload[j].delta
  PROVE  Gained' = Gained /\ Lost' = Lost /\ Due' = Due
<1>1. \A j \in Uploads : pending(j)' = pending(j)
  BY DEF pending
<1>2. /\ [j \in Uploads |-> upload'[j].delta] = [j \in Uploads |-> upload[j].delta]
      /\ [j \in Uploads |-> -upload'[j].delta] = [j \in Uploads |-> -upload[j].delta]
      /\ [j \in Uploads |-> pending(j)'] = [j \in Uploads |-> pending(j)]
  BY <1>1
<1>3. /\ Gained' = Total(Uploads, [j \in Uploads |-> upload'[j].delta])
      /\ Lost' = Total(Uploads, [j \in Uploads |-> -upload'[j].delta])
      /\ Due' = Total(Uploads, [j \in Uploads |-> pending(j)'])
  BY DEF Gained, Lost, Due
<1> QED
  BY <1>2, <1>3 DEF Gained, Lost, Due

LEMMA EntryCounted ==
  ASSUME StorageInv, NEW p \in Paths, NEW s \in Sized, files' = [files EXCEPT ![p] = s]
  PROVE  Indexed' + sizeOf(p) = Indexed + (IF s = NoFile THEN 0 ELSE s)
<1> DEFINE f == [q \in Paths |-> sizeOf(q)]
           g == [q \in Paths |-> sizeOf(q)']
<1>1. MaxSize \in Nat /\ IsFiniteSet(Paths) /\ NoFile \notin Nat
  BY StorageAssumption
<1>2. ASSUME NEW q \in Paths
      PROVE  /\ sizeOf(q) \in Int /\ sizeOf(q) >= 0 /\ sizeOf(q) <= MaxSize
             /\ q # p => sizeOf(q)' = sizeOf(q)
             /\ sizeOf(p)' = IF s = NoFile THEN 0 ELSE s
  BY <1>1, StorageValues DEF StorageInv, StorageTypes, sizeOf
<1>3. sizeOf(p)' \in 0..MaxSize
  BY <1>1, <1>2 DEF Sized
<1>4. f \in [Paths -> Int] /\ g \in [Paths -> Int] /\ f[p] = sizeOf(p) /\ g[p] = sizeOf(p)'
      /\ \A q \in Paths : q # p => g[q] = f[q]
  BY <1>1, <1>2, <1>3
<1>5. Indexed = Total(Paths, f) /\ Indexed' = Total(Paths, g)
  BY DEF Indexed
<1> HIDE DEF f, g
<1>6. Indexed' + Positive(sizeOf(p)) = Indexed + Positive(sizeOf(p)')
  BY <1>1, <1>2, <1>3, <1>4, <1>5, TotalChange
<1> QED
  BY <1>1, <1>2, <1>3, <1>6 DEF Positive


-----------------------------------------------------------------------------
(***************************************************************************)
(* The storage manager's steps.                                             *)
(***************************************************************************)
\* A step on files alone leaves the accounts as they are.
LEMMA FilesOnly ==
  ASSUME StorageInv, UNCHANGED vars
  PROVE  /\ AccountInv' /\ user'[Owner] # NoUser /\ WritesBounded'
         /\ used' = used /\ users' = users
<1>1. UNCHANGED <<user, users, emails, row, write, doubt>>
  BY DEF vars, memVars
<1> QED
  BY <1>1, NothingChanges DEF StorageInv, WritesBounded, used

\* What is left to show of a step that changes upload i, and its bounds.
LEMMA OneUpload ==
  ASSUME StorageInv, NEW i \in Uploads, NEW a, upload'[i] = a,
         \A j \in Uploads : j # i => /\ upload'[j].stage = upload[j].stage
                                    /\ upload'[j].size = upload[j].size
                                    /\ upload'[j].delta = upload[j].delta,
         a.delta \in Int, a.delta <= MaxSize, -a.delta <= MaxSize, a.size \in 0..MaxSize
  PROVE  LET before == upload[i].delta
             left == IF a.stage \in {"begun", "copying"} THEN a.size ELSE a.delta
         IN  /\ Gained' + Positive(before) = Gained + Positive(a.delta)
             /\ Lost' + Positive(-before) = Lost + Positive(-a.delta)
             /\ Due' + Positive(pending(i)) = Due + Positive(left)
<1>1. pending(i)' = IF a.stage \in {"begun", "copying"} THEN a.size ELSE a.delta
  BY DEF pending
<1>2. pending(i)' \in Int /\ pending(i)' <= MaxSize
  BY <1>1, StorageValues
<1> QED
  BY <1>1, <1>2, UploadCounted

LEMMA UploadKeeps ==
  ASSUME StorageInv, NEW i \in Uploads, NEW p \in Paths, NEW size \in 1..MaxSize, Upload(i, p, size)
  PROVE  StorageInv'
<1>1. UNCHANGED <<vars, files, disk, removal, drifted>> /\ upload[i].stage = "none"
  BY DEF Upload
<1>2. AccountInv' /\ user'[Owner] # NoUser /\ WritesBounded' /\ used' = used /\ users' = users
  BY <1>1, FilesOnly
<1>3. Indexed' = Indexed /\ Freed' = Freed
  BY <1>1 DEF Indexed, Total, sizeOf, Freed
<1>4. CASE UNCHANGED upload
  <2>1. Gained' = Gained /\ Lost' = Lost /\ Due' = Due
    BY <1>4, UploadsUncounted
  <2> QED
    BY <1>1, <1>2, <1>3, <1>4, <2>1
       DEF StorageInv, StorageTypes, UploadSound, NothingWithoutOwner, UsageFollowsIndex, Ceiling
<1>5. CASE /\ quotaFn(size)
           /\ upload' = [upload EXCEPT ![i] = [NoUpload EXCEPT !.stage = "begun", !.path = p, !.size = size]]
  <2> DEFINE a == [NoUpload EXCEPT !.stage = "begun", !.path = p, !.size = size]
  <2>1. /\ a.stage = "begun" /\ a.path = p /\ a.size = size /\ a.delta = 0 /\ a.written = 0
        /\ a.linked = FALSE /\ a \in UploadRecord
    <3>1. 0 \in 0..MaxSize /\ size \in 0..MaxSize
      BY StorageAssumption
    <3> QED
      BY <3>1, NothingUploaded DEF UploadRecord
  <2>2. upload' = [upload EXCEPT ![i] = a]
    BY <1>5
  <2> HIDE DEF a
  <2>3. upload'[i] = a /\ \A j \in Uploads : j # i => upload'[j] = upload[j]
    BY <2>2 DEF StorageInv, StorageTypes
  <2>4. StorageTypes' /\ \A j \in Uploads : UploadSound(j)'
    BY <1>1, <2>1, <2>2, <2>3 DEF StorageInv, StorageTypes, UploadSound
  <2>5. upload[i].delta = 0 /\ pending(i) = 0
    BY <1>1 DEF StorageInv, UploadSound, pending
  <2>6. size \in 0..MaxSize /\ MaxSize \in Nat
    BY StorageValues
  <2>7. /\ Gained' + Positive(0) = Gained + Positive(0)
        /\ Lost' + Positive(-0) = Lost + Positive(-0)
        /\ Due' + Positive(0) = Due + Positive(size)
    BY <2>1, <2>3, <2>5, <2>6, OneUpload
  <2>8. Gained' = Gained /\ Lost' = Lost /\ Due' = Due + size
    BY <2>6, <2>7, SumsAreNumbers DEF Positive
  <2>9. Due <= (Cardinality(Uploads) - 1) * MaxSize
    BY <2>5, StorageAssumption, StorageValues, TotalOfOthers DEF Due
  <2>10. used + size <= Quota /\ Owner \in users
    BY <1>5, StorageValues DEF quotaFn, CheckStorageQuota
  <2>11. used' + Due' <= Ceiling'
    <3> DEFINE others == (Cardinality(Uploads) - 1) * MaxSize
    <3>1. others \in Int
      BY <2>6, StorageAssumption, FS_CardinalityType
    <3>2. Ceiling' = Quota + others /\ Due <= others
      BY <2>9 DEF Ceiling
    <3> HIDE DEF others
    <3> QED
      BY <1>2, <2>6, <2>8, <2>10, <3>1, <3>2, SumsAreNumbers, StorageValues
  <2> QED
    BY <1>1, <1>2, <1>3, <2>4, <2>8, <2>10, <2>11
       DEF StorageInv, NothingWithoutOwner, UsageFollowsIndex
<1> QED
  BY <1>4, <1>5 DEF Upload

LEMMA OpenFileKeeps ==
  ASSUME StorageInv, NEW i \in Uploads, OpenFile(i)
  PROVE  StorageInv'
<1> DEFINE p == upload[i].path
<1>1. /\ UNCHANGED <<vars, files, removal, begun, drifted>> /\ upload[i].stage = "begun"
      /\ p \in Paths /\ upload[i].delta = 0 /\ pending(i) = upload[i].size
  BY DEF OpenFile, StorageInv, UploadSound, pending
<1>2. AccountInv' /\ user'[Owner] # NoUser /\ WritesBounded' /\ used' = used /\ users' = users
  BY <1>1, FilesOnly
<1>3. Indexed' = Indexed /\ Freed' = Freed
  BY <1>1 DEF Indexed, Total, sizeOf, Freed
<1>4. CASE upload' = [upload EXCEPT ![i] = NoUpload] /\ UNCHANGED disk
  <2>1. upload'[i] = NoUpload /\ \A j \in Uploads : j # i => upload'[j] = upload[j]
    BY <1>4 DEF StorageInv, StorageTypes
  <2>2. NoUpload.delta = 0 /\ NoUpload.size = 0 /\ NoUpload.stage = "none" /\ NoUpload.written = 0
        /\ NoUpload.linked = FALSE /\ MaxSize \in Nat /\ upload[i].size \in 0..MaxSize
    BY StorageValues, NothingUploaded
  <2>3. StorageTypes' /\ \A j \in Uploads : UploadSound(j)'
    BY <1>1, <1>4, <2>1, <2>2, NothingUploaded DEF StorageInv, StorageTypes, UploadSound
  <2>4. /\ Gained' + Positive(0) = Gained + Positive(0)
        /\ Lost' + Positive(-0) = Lost + Positive(-0)
        /\ Due' + Positive(upload[i].size) = Due + Positive(0)
    BY <1>1, <2>1, <2>2, OneUpload
  <2>5. Gained' = Gained /\ Lost' = Lost /\ Due' <= Due
    BY <2>2, <2>4, SumsAreNumbers DEF Positive
  <2>6. used' + Due' <= Ceiling'
    BY <1>2, <2>5, SumsAreNumbers, StorageValues DEF StorageInv, Ceiling
  <2> QED
    BY <1>1, <1>2, <1>3, <2>1, <2>2, <2>3, <2>5, <2>6
       DEF StorageInv, NothingWithoutOwner, UsageFollowsIndex
<1>5. CASE /\ disk' = [disk EXCEPT ![p] = 0]
           /\ upload' = [upload EXCEPT ![i].stage = "copying", ![i].linked = TRUE]
  <2> DEFINE a == [upload[i] EXCEPT !.stage = "copying", !.linked = TRUE]
  <2>1. /\ a.stage = "copying" /\ a.path = p /\ a.size = upload[i].size /\ a.delta = 0
        /\ a.written = upload[i].written
        /\ a \in UploadRecord
    <3>1. upload[i] \in UploadRecord
      BY DEF StorageInv, StorageTypes
    <3> QED
      BY <1>1, <3>1 DEF UploadRecord
  <2>2. upload' = [upload EXCEPT ![i] = a]
    BY <1>5 DEF StorageInv, StorageTypes
  <2> HIDE DEF a
  <2>3. upload'[i] = a /\ \A j \in Uploads : j # i => upload'[j] = upload[j]
    BY <2>2 DEF StorageInv, StorageTypes
  <2>4. /\ disk' \in [Paths -> Sized] /\ 0 # NoFile
        /\ \A q \in Paths : disk'[q] = IF q = p THEN 0 ELSE disk[q]
    <3>1. 0 \in Sized /\ 0 # NoFile
      BY StorageAssumption DEF Sized
    <3> QED
      BY <1>5, <3>1 DEF StorageInv, StorageTypes
  <2>5. StorageTypes'
    BY <1>1, <2>1, <2>2, <2>4 DEF StorageInv, StorageTypes, Sized
  <2>6. ASSUME NEW j \in Uploads PROVE UploadSound(j)'
    <3>1. CASE j = i
      BY <1>1, <2>1, <2>3, <2>4, <3>1 DEF StorageInv, UploadSound
    <3>2. CASE j # i
      BY <2>3, <2>4, <3>2 DEF StorageInv, UploadSound
    <3> QED
      BY <3>1, <3>2
  <2>7. MaxSize \in Nat /\ upload[i].size \in 0..MaxSize
    BY StorageValues
  <2>8. /\ Gained' + Positive(0) = Gained + Positive(0)
        /\ Lost' + Positive(-0) = Lost + Positive(-0)
        /\ Due' + Positive(upload[i].size) = Due + Positive(upload[i].size)
    BY <1>1, <2>1, <2>3, <2>7, OneUpload
  <2>9. Gained' = Gained /\ Lost' = Lost /\ Due' = Due
    BY <2>7, <2>8, SumsAreNumbers DEF Positive
  <2> QED
    BY <1>1, <1>2, <1>3, <2>1, <2>3, <2>5, <2>6, <2>9
       DEF StorageInv, NothingWithoutOwner, UsageFollowsIndex, Ceiling
<1> QED
  BY <1>4, <1>5 DEF OpenFile

LEMMA CopyKeeps ==
  ASSUME StorageInv, NEW i \in Uploads, Copy(i)
  PROVE  StorageInv'
<1> DEFINE p == upload[i].path
           a == [upload[i] EXCEPT !.written = upload[i].written + 1]
<1>1. /\ UNCHANGED <<vars, files, removal, drifted>> /\ upload[i] \in UploadRecord
      /\ upload[i].stage = "copying" /\ upload[i].written < upload[i].size
      /\ upload' = [upload EXCEPT ![i] = a]
  BY DEF Copy, StorageInv, StorageTypes
<1>2. AccountInv' /\ user'[Owner] # NoUser /\ WritesBounded' /\ used' = used /\ users' = users
  BY <1>1, FilesOnly
<1>3. Indexed' = Indexed /\ Freed' = Freed
  BY <1>1 DEF Indexed, Total, sizeOf, Freed
<1>4. /\ a \in UploadRecord /\ a.stage = upload[i].stage /\ a.size = upload[i].size
      /\ a.delta = upload[i].delta /\ a.path = p /\ a.linked = upload[i].linked
      /\ a.written = upload[i].written + 1 /\ a.written <= a.size
  <2>1. upload[i].written + 1 \in 0..MaxSize
    BY <1>1, StorageValues
  <2> QED
    BY <1>1, <2>1, StorageValues DEF UploadRecord
<1> HIDE DEF a
<1>5. upload'[i] = a /\ \A j \in Uploads : j # i => upload'[j] = upload[j]
  BY <1>1 DEF StorageInv, StorageTypes
<1>6. Gained' = Gained /\ Lost' = Lost /\ Due' = Due
  BY <1>4, <1>5, UploadsUncounted
<1>7. disk' \in [Paths -> Sized] /\ \A q \in Paths : disk[q] # NoFile => disk'[q] # NoFile
  <2>1. CASE UNCHANGED disk
    BY <2>1 DEF StorageInv, StorageTypes
  <2>2. CASE upload[i].linked /\ disk' = [disk EXCEPT ![p] = Max({disk[p], a.written})]
    <3>1. p \in Paths /\ disk[p] \in 0..MaxSize
      BY <2>2 DEF StorageInv, StorageTypes, UploadSound, Sized
    <3>2. a.written \in 0..MaxSize
      BY <1>4 DEF UploadRecord
    <3>3. Max({disk[p], a.written}) \in {disk[p], a.written}
      BY <3>1, <3>2 DEF Max
    <3>4. Max({disk[p], a.written}) \in 0..MaxSize
      BY <3>1, <3>2, <3>3
    <3>5. NoFile \notin 0..MaxSize
      BY StorageAssumption
    <3> HIDE DEF p
    <3> QED
      BY <2>2, <3>1, <3>4, <3>5 DEF StorageInv, StorageTypes, Sized
  <2> QED
    BY <1>1, <1>4, <2>1, <2>2 DEF Copy
<1>8. StorageTypes'
  BY <1>1, <1>4, <1>7 DEF StorageInv, StorageTypes
<1>9. ASSUME NEW j \in Uploads PROVE UploadSound(j)'
  BY <1>4, <1>5, <1>7 DEF StorageInv, UploadSound
<1> QED
  BY <1>1, <1>2, <1>3, <1>4, <1>5, <1>6, <1>8, <1>9
     DEF StorageInv, NothingWithoutOwner, UsageFollowsIndex, Ceiling

LEMMA Unlinked ==
  ASSUME StorageInv, NEW p \in Paths, NEW j \in Uploads
  PROVE  LET a == unlinked(upload, p)[j]
         IN  /\ a \in UploadRecord /\ a.stage = upload[j].stage /\ a.path = upload[j].path
             /\ a.size = upload[j].size /\ a.written = upload[j].written /\ a.delta = upload[j].delta
             /\ a.linked => upload[j].linked /\ upload[j].path # p
<1>1. upload[j] \in UploadRecord
  BY DEF StorageInv, StorageTypes
<1>2. unlinked(upload, p)[j] = [upload[j] EXCEPT !.linked = upload[j].linked /\ upload[j].path # p]
  BY DEF unlinked
<1> QED
  BY <1>1, <1>2 DEF UploadRecord

LEMMA CopyFailsKeeps ==
  ASSUME StorageInv, NEW i \in Uploads, CopyFails(i)
  PROVE  StorageInv'
<1> DEFINE p == upload[i].path
<1>1. /\ UNCHANGED <<vars, files, removal, drifted>> /\ upload[i].stage = "copying"
      /\ p \in Paths /\ upload[i].delta = 0 /\ pending(i) = upload[i].size
      /\ disk' = [disk EXCEPT ![p] = NoFile]
      /\ upload' = [unlinked(upload, p) EXCEPT ![i] = NoUpload]
  BY DEF CopyFails, StorageInv, UploadSound, pending
<1>2. AccountInv' /\ user'[Owner] # NoUser /\ WritesBounded' /\ used' = used /\ users' = users
  BY <1>1, FilesOnly
<1>3. Indexed' = Indexed /\ Freed' = Freed
  BY <1>1 DEF Indexed, Total, sizeOf, Freed
<1>4. /\ upload'[i] = NoUpload /\ \A j \in Uploads : j # i => upload'[j] = unlinked(upload, p)[j]
      /\ upload' \in [Uploads -> UploadRecord]
  <2>1. unlinked(upload, p) \in [Uploads -> UploadRecord]
    <3>1. \A j \in Uploads : unlinked(upload, p)[j] \in UploadRecord
      BY <1>1, Unlinked
    <3> QED
      BY <3>1 DEF unlinked
  <2> QED
    BY <1>1, <2>1, NothingUploaded
<1>5. \A j \in Uploads : j # i => /\ upload'[j].stage = upload[j].stage
                                 /\ upload'[j].size = upload[j].size
                                 /\ upload'[j].delta = upload[j].delta
  BY <1>1, <1>4, Unlinked
<1>6. \A q \in Paths : disk'[q] = IF q = p THEN NoFile ELSE disk[q]
  BY <1>1 DEF StorageInv, StorageTypes
<1>7. StorageTypes'
  BY <1>1, <1>4 DEF StorageInv, StorageTypes, Sized
<1>8. ASSUME NEW j \in Uploads PROVE UploadSound(j)'
  <2>1. CASE j = i
    BY <1>4, <2>1, NothingUploaded, StorageValues DEF UploadSound
  <2>2. CASE j # i
    BY <1>1, <1>4, <1>6, <2>2, Unlinked DEF StorageInv, UploadSound
  <2> QED
    BY <2>1, <2>2
<1>9. MaxSize \in Nat /\ upload[i].size \in 0..MaxSize
  BY StorageValues
<1>10. /\ Gained' + Positive(0) = Gained + Positive(0)
       /\ Lost' + Positive(-0) = Lost + Positive(-0)
       /\ Due' + Positive(upload[i].size) = Due + Positive(0)
  BY <1>1, <1>4, <1>5, <1>9, OneUpload, NothingUploaded
<1>11. Gained' = Gained /\ Lost' = Lost /\ Due' <= Due
  BY <1>9, <1>10, SumsAreNumbers DEF Positive
<1>12. used' + Due' <= Ceiling'
  BY <1>2, <1>11, SumsAreNumbers, StorageValues DEF StorageInv, Ceiling
<1> QED
  BY <1>1, <1>2, <1>3, <1>4, <1>5, <1>7, <1>8, <1>11, <1>12, NothingUploaded
     DEF StorageInv, NothingWithoutOwner, UsageFollowsIndex

\* The entry changes by what the upload will report.
LEMMA IndexFileKeeps ==
  ASSUME StorageInv, NEW i \in Uploads, IndexFile(i)
  PROVE  StorageInv'
<1> DEFINE p == upload[i].path
           d == upload[i].written - sizeOf(p)
           a == [upload[i] EXCEPT !.stage = "indexed", !.delta = d]
<1>1. /\ UNCHANGED <<vars, disk, removal, drifted>> /\ upload[i] \in UploadRecord
      /\ upload[i].stage = "copying" /\ p \in Paths /\ upload[i].delta = 0
      /\ pending(i) = upload[i].size
      /\ files' = [files EXCEPT ![p] = upload[i].written]
      /\ upload' = [upload EXCEPT ![i] = a]
  BY DEF IndexFile, StorageInv, StorageTypes, UploadSound, pending
<1>2. AccountInv' /\ user'[Owner] # NoUser /\ WritesBounded' /\ used' = used /\ users' = users
  BY <1>1, FilesOnly
<1>3. /\ MaxSize \in Nat /\ upload[i].size \in 0..MaxSize /\ upload[i].written \in 0..MaxSize
      /\ sizeOf(p) \in 0..MaxSize /\ upload[i].written <= upload[i].size
      /\ d \in Int /\ d <= upload[i].size /\ d <= MaxSize /\ -d <= MaxSize
  BY <1>1, StorageValues DEF StorageInv, UploadSound
<1> HIDE DEF d
<1>4. /\ a \in UploadRecord /\ a.stage = "indexed" /\ a.size = upload[i].size
      /\ a.delta = d /\ a.path = p /\ a.linked = upload[i].linked
      /\ a.written = upload[i].written
  BY <1>1, <1>3 DEF UploadRecord
<1> HIDE DEF a
<1>5. upload'[i] = a /\ \A j \in Uploads : j # i => upload'[j] = upload[j]
  BY <1>1 DEF StorageInv, StorageTypes
<1>6. Indexed' = Indexed + d /\ Freed' = Freed
  <2>1. upload[i].written \in Sized /\ upload[i].written # NoFile
    BY <1>3, StorageAssumption DEF Sized
  <2>2. Indexed' + sizeOf(p) = Indexed + upload[i].written
    BY <1>1, <2>1, EntryCounted
  <2> QED
    BY <1>1, <1>3, <2>2, SumsAreNumbers DEF d, Freed
<1>7. /\ Gained' + Positive(0) = Gained + Positive(d)
      /\ Lost' + Positive(-0) = Lost + Positive(-d)
      /\ Due' + Positive(upload[i].size) = Due + Positive(d)
  BY <1>1, <1>3, <1>4, <1>5, OneUpload
<1>8. Gained' = Gained + Positive(d) /\ Lost' = Lost + Positive(-d) /\ Due' <= Due
      /\ Positive(d) - Positive(-d) = d
  BY <1>3, <1>7, SumsAreNumbers DEF Positive
<1>9. StorageTypes'
  <2>1. files' \in [Paths -> Sized]
    BY <1>1, <1>3 DEF StorageInv, StorageTypes, Sized
  <2> QED
    BY <1>1, <1>4, <2>1 DEF StorageInv, StorageTypes
<1>10. ASSUME NEW j \in Uploads PROVE UploadSound(j)'
  BY <1>1, <1>3, <1>4, <1>5 DEF StorageInv, UploadSound
<1>11. UsageFollowsIndex'
  <2>1. drifted \/ used + Gained = Indexed + Lost + Freed
    BY DEF StorageInv, UsageFollowsIndex
  <2>2. Freed \in Int
    BY DEF StorageInv, StorageTypes, Freed
  <2>3. Positive(d) \in Nat /\ Positive(-d) \in Nat
    BY <1>3 DEF Positive
  <2> QED
    BY <1>1, <1>2, <1>3, <1>6, <1>8, <2>1, <2>2, <2>3, SumsAreNumbers, StorageValues
       DEF UsageFollowsIndex
<1>12. used' + Due' <= Ceiling'
  BY <1>2, <1>8, SumsAreNumbers, StorageValues DEF StorageInv, Ceiling
<1>13. Owner \in users \/ drifted
  BY <1>1 DEF StorageInv, NothingWithoutOwner
<1> QED
  BY <1>1, <1>2, <1>9, <1>10, <1>11, <1>12, <1>13 DEF StorageInv, NothingWithoutOwner


\* usageFn counts a difference in the struct and announces a write of the row;
\* without the user it does nothing.
LEMMA UsageCounted ==
  ASSUME StorageInv, NEW d \in Int, usageFn(d)
  PROVE  /\ AccountInv' /\ user'[Owner] # NoUser /\ WritesBounded' /\ users' = users
         /\ \/ /\ Owner \in users
               /\ \/ used + d >= 0 /\ used' = used + d /\ drifted' = drifted
                  \/ used + d < 0 /\ used' = 0 /\ drifted' = TRUE
            \/ Owner \notin users /\ used' = used /\ drifted' = drifted
<1>1. CASE d # 0 /\ Owner \in users
  <2> DEFINE more == IF d > 0 THEN d ELSE 0
             less == IF d < 0 THEN -d ELSE 0
  <2>1. UsageFunc(Owner, more, less) /\ drifted' = (drifted \/ used + d < 0)
    BY <1>1 DEF usageFn
  <2>2. more \in Nat /\ less \in Nat /\ more - less = d
    OBVIOUS
  <2> HIDE DEF more, less
  <2>3. Owner \in Uids /\ user[Owner] \in User /\ used = user[Owner].used /\ used \in Nat
    BY <1>1, StorageAssumption, StorageValues, KnownUser DEF StorageInv
  <2>4. /\ UNCHANGED <<users, emails, row, doubt>> /\ AddStorageUsed(Owner, more, less)
    BY <2>1 DEF UsageFunc
  <2>5. AccountInv'
    BY <2>2, <2>3, <2>4, AddStorageUsedKeeps DEF StorageInv
  <2>6. /\ user'[Owner] # NoUser
        /\ user'[Owner].used = IF used + more >= less THEN (used + more) - less ELSE 0
    <3> DEFINE n == IF used + more >= less THEN (used + more) - less ELSE 0
    <3>1. user'[Owner] = [user[Owner] EXCEPT !.used = n]
      BY <2>3, <2>4 DEF AddStorageUsed, StorageInv, AccountInv, AccountTypes
    <3>2. n \in Nat
      BY <2>2, <2>3
    <3> HIDE DEF n
    <3> DEFINE v == [user[Owner] EXCEPT !.used = n]
    <3>3. v \in User /\ v.used = n
      BY <2>3, <3>2, FieldSet
    <3> HIDE DEF v
    <3> QED
      BY <3>1, <3>3, AccountsAssumption DEF n, v
  <2>7. used' = IF used + d >= 0 THEN used + d ELSE 0
    BY <2>2, <2>3, <2>6 DEF used
  <2>8. WritesBounded'
    <3>1. PICK w \in Writers : write' = [write EXCEPT ![w] = [uid |-> Owner, row |-> NoUser]]
      BY <2>4 DEF AddStorageUsed
    <3>2. \A x \in Writers : write'[x] = write[x] \/ write'[x].row = NoUser
      BY <3>1 DEF StorageInv, AccountInv, AccountTypes
    <3>3. Ceiling' = Ceiling
      BY DEF Ceiling
    <3> QED
      BY <2>4, <3>2, <3>3 DEF StorageInv, WritesBounded
  <2>9. \/ used + d >= 0 /\ used' = used + d /\ drifted' = drifted
        \/ used + d < 0 /\ used' = 0 /\ drifted' = TRUE
    <3>1. drifted \in BOOLEAN /\ used + d \in Int
      BY <2>3 DEF StorageInv, StorageTypes
    <3>2. CASE used + d < 0
      <4>1. used' = 0
        BY <2>7, <3>1, <3>2
      <4>2. drifted' = TRUE
        BY <2>1, <3>2
      <4> QED
        BY <3>2, <4>1, <4>2
    <3>3. CASE ~ (used + d < 0)
      <4>1. used + d >= 0 /\ used' = used + d
        BY <2>7, <3>1, <3>3
      <4>2. drifted' = drifted
        BY <2>1, <3>1, <3>3
      <4> QED
        BY <4>1, <4>2
    <3> QED
      BY <3>2, <3>3
  <2> QED
    BY <1>1, <2>4, <2>5, <2>6, <2>8, <2>9
<1>2. CASE ~ (d # 0 /\ Owner \in users)
  <2>1. UNCHANGED <<vars, drifted>>
    BY <1>2 DEF usageFn
  <2>2. used \in Nat /\ drifted \in BOOLEAN
    BY StorageValues DEF StorageInv, StorageTypes
  <2> QED
    BY <1>2, <2>1, <2>2, FilesOnly
<1> QED
  BY <1>1, <1>2

LEMMA CountFileKeeps ==
  ASSUME StorageInv, NEW i \in Uploads, CountFile(i)
  PROVE  StorageInv'
<1> DEFINE d == upload[i].delta
<1>1. /\ UNCHANGED <<files, disk, removal>> /\ upload[i].stage = "indexed"
      /\ upload' = [upload EXCEPT ![i] = NoUpload] /\ usageFn(d)
      /\ d \in Int /\ pending(i) = d
  BY StorageValues DEF CountFile, pending
<1>2. /\ AccountInv' /\ user'[Owner] # NoUser /\ WritesBounded' /\ users' = users
      /\ \/ /\ Owner \in users
            /\ \/ used + d >= 0 /\ used' = used + d /\ drifted' = drifted
               \/ used + d < 0 /\ used' = 0 /\ drifted' = TRUE
         \/ Owner \notin users /\ used' = used /\ drifted' = drifted
  BY <1>1, UsageCounted
<1>3. Indexed' = Indexed /\ Freed' = Freed
  BY <1>1 DEF Indexed, Total, sizeOf, Freed
<1>4. upload'[i] = NoUpload /\ \A j \in Uploads : j # i => upload'[j] = upload[j]
  BY <1>1 DEF StorageInv, StorageTypes
<1>5. MaxSize \in Nat
  BY StorageValues
<1>6. /\ Gained' + Positive(d) = Gained + Positive(0)
      /\ Lost' + Positive(-d) = Lost + Positive(-0)
      /\ Due' + Positive(d) = Due + Positive(0)
  BY <1>1, <1>4, <1>5, OneUpload, NothingUploaded
<1> HIDE DEF d
<1>7. /\ Gained' + Positive(d) = Gained /\ Lost' + Positive(-d) = Lost /\ Due' + Positive(d) = Due
      /\ Positive(d) - Positive(-d) = d /\ Positive(d) \in Nat /\ Positive(-d) \in Nat
      /\ Positive(d) >= d
  BY <1>1, <1>6, SumsAreNumbers DEF Positive
<1>8. StorageTypes'
  BY <1>1, <1>2, NothingUploaded DEF StorageInv, StorageTypes
<1>9. ASSUME NEW j \in Uploads PROVE UploadSound(j)'
  BY <1>1, <1>4, <1>5, NothingUploaded DEF StorageInv, UploadSound
<1>10. Owner \in users \/ drifted
  BY <1>1 DEF StorageInv, NothingWithoutOwner
<1>11. used \in Nat /\ Freed \in Int
  BY StorageValues DEF StorageInv, StorageTypes, Freed
<1>12. UsageFollowsIndex'
  <2>1. drifted \/ used + Gained = Indexed + Lost + Freed
    BY DEF StorageInv, UsageFollowsIndex
  <2>2. drifted' \/ (~ drifted /\ Owner \in users /\ used' = used + d)
    BY <1>2, <1>10
  <2> QED
    BY <1>1, <1>3, <1>7, <1>11, <2>1, <2>2, SumsAreNumbers DEF UsageFollowsIndex
<1>13. used' + Due' <= Ceiling'
  <2>1. used + Due <= Ceiling /\ Ceiling' = Ceiling /\ Ceiling \in Int
    BY StorageValues DEF StorageInv, Ceiling
  <2>2. used' \in Int /\ used' <= used + Positive(d)
    BY <1>1, <1>2, <1>7, <1>11
  <2> QED
    BY <1>7, <1>11, <2>1, <2>2, SumsAreNumbers
<1>14. NothingWithoutOwner'
  BY <1>1, <1>2, <1>4, NothingUploaded DEF StorageInv, NothingWithoutOwner
<1> QED
  BY <1>2, <1>8, <1>9, <1>12, <1>13, <1>14 DEF StorageInv

LEMMA DeleteKeeps ==
  ASSUME StorageInv, NEW p \in Paths, Delete(p)
  PROVE  StorageInv'
<1>1. /\ UNCHANGED <<vars, files, drifted>>
      /\ removal.stage = "none" /\ disk[p] # NoFile
      /\ removal' = [stage |-> "unlinked", path |-> p, freed |-> disk[p]]
      /\ disk' = [disk EXCEPT ![p] = NoFile]
      /\ upload' = unlinked(upload, p)
  BY DEF Delete, Unlink
<1>2. AccountInv' /\ user'[Owner] # NoUser /\ WritesBounded' /\ used' = used /\ users' = users
  BY <1>1, FilesOnly
<1>3. Indexed' = Indexed /\ Freed' = Freed
  BY <1>1 DEF Indexed, Total, sizeOf, Freed
<1>4. Gained' = Gained /\ Lost' = Lost /\ Due' = Due
  BY <1>1, Unlinked, UploadsUncounted
<1>5. upload' \in [Uploads -> UploadRecord]
  <2>1. \A j \in Uploads : unlinked(upload, p)[j] \in UploadRecord
    BY Unlinked
  <2> QED
    BY <1>1, <2>1 DEF unlinked
<1>6. StorageTypes'
  <2>1. disk[p] \in 0..MaxSize
    BY <1>1 DEF StorageInv, StorageTypes, Sized
  <2> QED
    BY <1>1, <1>5, <2>1 DEF StorageInv, StorageTypes, Sized
<1>7. \A q \in Paths : disk'[q] = IF q = p THEN NoFile ELSE disk[q]
  BY <1>1 DEF StorageInv, StorageTypes
<1>8. ASSUME NEW j \in Uploads PROVE UploadSound(j)'
  BY <1>1, <1>7, Unlinked DEF StorageInv, UploadSound
<1>9. NothingWithoutOwner'
  BY <1>1, <1>2, Unlinked DEF StorageInv, NothingWithoutOwner
<1> QED
  BY <1>1, <1>2, <1>3, <1>4, <1>6, <1>8, <1>9 DEF StorageInv, UsageFollowsIndex, Ceiling

LEMMA DropEntryKeeps ==
  ASSUME StorageInv, DropEntry
  PROVE  StorageInv'
<1> DEFINE p == removal.path
           freed == IF removal.freed = 0 THEN sizeOf(p) ELSE removal.freed
<1>1. /\ UNCHANGED <<vars, disk, upload>>
      /\ removal.stage = "unlinked" /\ p \in Paths
      /\ files' = [files EXCEPT ![p] = NoFile]
      /\ removal' = [removal EXCEPT !.stage = "dropped", !.freed = freed]
      /\ drifted' = (drifted \/ freed # sizeOf(p))
  BY DEF DropEntry, StorageInv, StorageTypes
<1>2. AccountInv' /\ user'[Owner] # NoUser /\ WritesBounded' /\ used' = used /\ users' = users
  BY <1>1, FilesOnly
<1>3. Gained' = Gained /\ Lost' = Lost /\ Due' = Due
  BY <1>1, UploadsUncounted
<1>4. sizeOf(p) \in 0..MaxSize /\ removal.freed \in 0..MaxSize /\ freed \in 0..MaxSize
  BY <1>1, StorageValues DEF StorageInv, StorageTypes
<1> HIDE DEF freed
<1>5. /\ removal'.stage = "dropped" /\ removal'.path = p /\ removal'.freed = freed
      /\ removal' \in [stage : {"none", "unlinked", "dropped"}, path : Paths \cup {NoFile},
                       freed : 0..MaxSize]
  BY <1>1, <1>4 DEF StorageInv, StorageTypes
<1>6. Indexed' + sizeOf(p) = Indexed /\ Freed = 0 /\ Freed' = freed
  <2>1. Indexed' + sizeOf(p) = Indexed + 0
    BY <1>1, EntryCounted DEF Sized
  <2> QED
    BY <1>1, <1>5, <2>1, SumsAreNumbers DEF Freed
<1>7. StorageTypes'
  BY <1>1, <1>5 DEF StorageInv, StorageTypes, Sized
<1>8. ASSUME NEW j \in Uploads PROVE UploadSound(j)'
  BY <1>1 DEF StorageInv, UploadSound
<1>9. UsageFollowsIndex'
  <2>1. drifted \/ used + Gained = Indexed + Lost + Freed
    BY DEF StorageInv, UsageFollowsIndex
  <2>2. drifted' \/ (~ drifted /\ freed = sizeOf(p))
    BY <1>1 DEF StorageInv, StorageTypes
  <2>3. used \in Nat
    BY StorageValues
  <2> QED
    BY <1>2, <1>3, <1>4, <1>6, <2>1, <2>2, <2>3, SumsAreNumbers DEF UsageFollowsIndex
<1>10. NothingWithoutOwner'
  <2> SUFFICES ASSUME Owner \notin users, ~ drifted'
               PROVE  /\ \A i \in Uploads : upload[i].stage = "none"
                      /\ \A q \in Paths : files'[q] = NoFile
                      /\ freed = 0
    BY <1>1, <1>2, <1>5 DEF NothingWithoutOwner
  <2>1. /\ \A i \in Uploads : upload[i].stage = "none"
        /\ \A q \in Paths : files[q] = NoFile
    BY <1>1 DEF StorageInv, NothingWithoutOwner
  <2>2. sizeOf(p) = 0
    BY <1>1, <2>1 DEF sizeOf
  <2> QED
    BY <1>1, <2>1, <2>2 DEF StorageInv, StorageTypes
<1> QED
  BY <1>2, <1>3, <1>7, <1>8, <1>9, <1>10 DEF StorageInv, Ceiling

LEMMA CountRemovalKeeps ==
  ASSUME StorageInv, CountRemoval
  PROVE  StorageInv'
<1> DEFINE d == -removal.freed
<1>1. /\ UNCHANGED <<files, disk, upload>> /\ removal.stage = "dropped"
      /\ removal' = NoRemoval /\ usageFn(d)
      /\ removal.freed \in 0..MaxSize /\ MaxSize \in Nat
  BY StorageAssumption DEF CountRemoval, StorageInv, StorageTypes
<1>2. d \in Int /\ d <= 0
  BY <1>1
<1>3. /\ AccountInv' /\ user'[Owner] # NoUser /\ WritesBounded' /\ users' = users
      /\ \/ /\ Owner \in users
            /\ \/ used + d >= 0 /\ used' = used + d /\ drifted' = drifted
               \/ used + d < 0 /\ used' = 0 /\ drifted' = TRUE
         \/ Owner \notin users /\ used' = used /\ drifted' = drifted
  BY <1>1, <1>2, UsageCounted
<1>4. Gained' = Gained /\ Lost' = Lost /\ Due' = Due
  BY <1>1, UploadsUncounted
<1>5. Indexed' = Indexed
  BY <1>1 DEF Indexed, Total, sizeOf
<1>6. Freed = -d /\ Freed' = 0
  BY <1>1 DEF Freed, NoRemoval
<1> HIDE DEF d
<1>7. StorageTypes'
  <2>1. removal' \in [stage : {"none", "unlinked", "dropped"}, path : Paths \cup {NoFile},
                      freed : 0..MaxSize] /\ removal'.stage = "none"
    BY <1>1 DEF NoRemoval
  <2>2. drifted' \in BOOLEAN
    BY <1>3 DEF StorageInv, StorageTypes
  <2> QED
    BY <1>1, <2>1, <2>2 DEF StorageInv, StorageTypes
<1>8. ASSUME NEW j \in Uploads PROVE UploadSound(j)'
  BY <1>1 DEF StorageInv, UploadSound
<1>9. used \in Nat
  BY StorageValues
<1>10. UsageFollowsIndex'
  <2>1. drifted \/ used + Gained = Indexed + Lost + Freed
    BY DEF StorageInv, UsageFollowsIndex
  <2>2. Owner \notin users /\ ~ drifted => d = 0
    BY <1>1, <1>6, <1>2 DEF StorageInv, NothingWithoutOwner, Freed
  <2>3. drifted' \/ (~ drifted /\ used' = used + d)
    BY <1>3, <1>9, <2>2
  <2> QED
    BY <1>2, <1>4, <1>5, <1>6, <1>9, <2>1, <2>3, SumsAreNumbers DEF UsageFollowsIndex
<1>11. used' + Due' <= Ceiling'
  <2>1. used + Due <= Ceiling /\ Ceiling' = Ceiling /\ Ceiling \in Int
    BY StorageValues DEF StorageInv, Ceiling
  <2>2. used' \in Int /\ used' <= used
    BY <1>2, <1>3, <1>9
  <2> QED
    BY <1>4, <1>9, <2>1, <2>2, SumsAreNumbers
<1>12. NothingWithoutOwner'
  BY <1>1, <1>3 DEF StorageInv, NothingWithoutOwner, NoRemoval
<1> QED
  BY <1>3, <1>7, <1>8, <1>10, <1>11, <1>12 DEF StorageInv


\* Nothing is under way after a restart; the counter is the row's.
LEMMA StorageRestartKeeps ==
  ASSUME StorageInv, StorageRestart
  PROVE  StorageInv'
<1>1. /\ Restart
      /\ files' = [p \in Paths |-> NoFile] /\ disk' = disk
      /\ upload' = [i \in Uploads |-> NoUpload] /\ removal' = NoRemoval
      /\ drifted' = (drifted \/ row[Owner].used # 0)
      /\ user' = row /\ row' = row /\ write' = [w \in Writers |-> Idle]
  BY DEF StorageRestart, Restart, loadFromDB
<1>2. AccountInv' /\ user'[Owner] # NoUser
  BY <1>1, RestartKeeps, StorageValues DEF StorageInv
<1>3. used' = row[Owner].used
  BY <1>1, StorageValues DEF used
<1>4. WritesBounded'
  BY <1>1 DEF StorageInv, WritesBounded, Idle, Ceiling
<1>5. StorageTypes'
  <2>1. removal' \in [stage : {"none", "unlinked", "dropped"}, path : Paths \cup {NoFile},
                      freed : 0..MaxSize] /\ removal'.stage = "none"
    BY <1>1, StorageAssumption DEF NoRemoval
  <2> QED
    BY <1>1, <2>1, NothingUploaded DEF StorageInv, StorageTypes, Sized
<1>6. \A i \in Uploads : upload'[i] = NoUpload /\ UploadSound(i)'
  BY <1>1, NothingUploaded, StorageValues DEF UploadSound
<1>7. NothingWithoutOwner' /\ Freed' = 0
  BY <1>1, <1>6, NothingUploaded DEF NothingWithoutOwner, NoRemoval, Freed
<1>8. Gained' = 0 /\ Lost' = 0 /\ Due' = 0
  <2> DEFINE f == [i \in Uploads |-> upload'[i].delta]
             g == [i \in Uploads |-> -upload'[i].delta]
             h == [i \in Uploads |-> pending(i)']
  <2>1. Gained' = Total(Uploads, f) /\ Lost' = Total(Uploads, g) /\ Due' = Total(Uploads, h)
    BY DEF Gained, Lost, Due
  <2>2. \A i \in Uploads : f[i] = 0 /\ g[i] = 0 /\ h[i] = 0
    BY <1>6, NothingUploaded DEF pending
  <2>3. f \in [Uploads -> Int] /\ g \in [Uploads -> Int] /\ h \in [Uploads -> Int]
    <3>1. f = [i \in Uploads |-> f[i]] /\ g = [i \in Uploads |-> g[i]] /\ h = [i \in Uploads |-> h[i]]
      OBVIOUS
    <3> HIDE DEF f, g, h
    <3> QED
      BY <2>2, <3>1
  <2> HIDE DEF f, g, h
  <2> QED
    BY <2>1, <2>2, <2>3, TotalOfNone
<1>9. Indexed' = 0
  <2> DEFINE f == [p \in Paths |-> sizeOf(p)']
  <2>1. Indexed' = Total(Paths, f)
    BY DEF Indexed
  <2>2. f \in [Paths -> Int] /\ \A p \in Paths : f[p] <= 0
    BY <1>1 DEF sizeOf
  <2> HIDE DEF f
  <2> QED
    BY <2>1, <2>2, TotalOfNone
<1>10. UsageFollowsIndex'
  <2>1. ~ drifted' => row[Owner].used = 0
    BY <1>1
  <2> QED
    BY <1>3, <1>7, <1>8, <1>9, <2>1 DEF UsageFollowsIndex
<1>11. used' + Due' <= Ceiling'
  BY <1>3, <1>8, StorageValues DEF StorageInv, WritesBounded, Ceiling
<1> QED
  BY <1>2, <1>4, <1>5, <1>6, <1>7, <1>10, <1>11 DEF StorageInv

\* The accounts' own steps that go on beside it change neither the struct nor
\* a file: writes of the row, and the login of the next seeding.
LEMMA BesideKeeps ==
  ASSUME StorageInv, UNCHANGED fileVars,
         \/ \E w \in Writers : ReadForWrite(w) \/ FinishWrite(w)
         \/ SeedKnown
         \/ UNCHANGED vars
  PROVE  StorageInv'
<1>1. UNCHANGED <<files, disk, upload, removal, drifted>>
  BY DEF fileVars
<1>2. AccountInv' /\ UNCHANGED <<user, users>> /\ WritesBounded'
  <2>1. CASE UNCHANGED vars
    <3>1. UNCHANGED <<user, users, emails, row, write, doubt>>
      BY <2>1 DEF vars, memVars
    <3> QED
      BY <3>1, NothingChanges DEF StorageInv, WritesBounded, Ceiling
  <2>2. CASE SeedKnown
    <3>1. UNCHANGED <<user, users, row, write, doubt>> /\ \E p \in Passwords : Login(AdminEmail, p)
      BY <2>2 DEF SeedKnown
    <3>2. UNCHANGED emails
      BY <3>1, LoginReads, AccountsAssumption DEF StorageInv
    <3> QED
      BY <3>1, <3>2, NothingChanges DEF StorageInv, WritesBounded, Ceiling
  <2>3. ASSUME NEW w \in Writers, ReadForWrite(w)
        PROVE  AccountInv' /\ UNCHANGED <<user, users>> /\ WritesBounded'
    <3>1. /\ UNCHANGED <<user, users, row>> /\ write' = [write EXCEPT ![w].row = user[write[w].uid]]
      BY <2>3 DEF ReadForWrite, memVars
    <3>2. AccountInv'
      BY <2>3, ReadForWriteKeeps DEF StorageInv
    <3>3. user[Owner].used <= Ceiling /\ Ceiling' = Ceiling
      BY StorageValues, SumsAreNumbers DEF StorageInv, Ceiling
    <3>4. \A x \in Writers : x # w => write'[x] = write[x]
      BY <3>1 DEF StorageInv, AccountInv, AccountTypes
    <3>5. write'[w].uid = write[w].uid /\ write'[w].row = user[write[w].uid]
      BY <3>1 DEF StorageInv, AccountInv, AccountTypes
    <3> QED
      BY <3>1, <3>2, <3>3, <3>4, <3>5 DEF StorageInv, WritesBounded
  <2>4. ASSUME NEW w \in Writers, FinishWrite(w)
        PROVE  AccountInv' /\ UNCHANGED <<user, users>> /\ WritesBounded'
    <3>1. /\ UNCHANGED <<user, users>> /\ write' = [write EXCEPT ![w] = Idle]
          /\ write[w].row # NoUser
          /\ \E ok \in BOOLEAN : UpdateUserRow(ok, write[w].uid, write[w].row)
      BY <2>4 DEF FinishWrite, memVars
    <3>2. AccountInv'
      BY <2>4, FinishWriteKeeps DEF StorageInv
    <3>3. \A x \in Writers : write'[x] = IF x = w THEN Idle ELSE write[x]
      BY <3>1 DEF StorageInv, AccountInv, AccountTypes
    <3>4. row'[Owner].used <= Ceiling
      <4> DEFINE u == write[w].uid
                 r == [write[w].row EXCEPT !.prefs = row[u].prefs]
      <4>1. row' = row \/ row' = [row EXCEPT ![u] = r]
        BY <3>1 DEF UpdateUserRow, UpdateRow
      <4>2. r.used = write[w].row.used
        BY <3>1 DEF StorageInv, AccountInv, AccountTypes, User
      <4>3. u = Owner => r.used <= Ceiling
        BY <3>1, <4>2 DEF StorageInv, WritesBounded
      <4> HIDE DEF r, u
      <4>4. row'[Owner] = row[Owner] \/ (u = Owner /\ row'[Owner] = r)
        BY <4>1, StorageAssumption DEF StorageInv, AccountInv, AccountTypes
      <4> QED
        BY <4>3, <4>4 DEF StorageInv, WritesBounded
    <3> QED
      BY <3>1, <3>2, <3>3, <3>4 DEF StorageInv, WritesBounded, Ceiling, Idle
  <2> QED
    BY <2>1, <2>2, <2>3, <2>4
<1>3. used' = used /\ Indexed' = Indexed /\ Freed' = Freed /\ Ceiling' = Ceiling
  BY <1>1, <1>2 DEF used, Indexed, Total, sizeOf, Freed, Ceiling
<1>4. Gained' = Gained /\ Lost' = Lost /\ Due' = Due
  BY <1>1, UploadsUncounted
<1> QED
  BY <1>1, <1>2, <1>3, <1>4
     DEF StorageInv, StorageTypes, UploadSound, NothingWithoutOwner, UsageFollowsIndex

LEMMA StorageInitHolds == StorageInit => StorageInv
<1> SUFFICES ASSUME StorageInit PROVE StorageInv
  OBVIOUS
<1>1. Seeded \in User /\ Seeded # NoUser /\ Seeded.email = AdminEmail /\ Seeded.used = 0
  <2>1. (CHOOSE p \in Passwords : TRUE) \in Passwords
    BY StorageAssumption
  <2>2. ASSUME NEW q \in Passwords
        PROVE  [email |-> AdminEmail, pw |-> q, role |-> "admin", used |-> 0,
                tailscaleIP |-> "100.0.0.1", prefs |-> "{}"] \in User
    <3>1. AdminEmail \in Emails /\ "admin" \in Roles
      BY AccountsAssumption DEF Roles
    <3> QED
      BY <3>1 DEF User
  <2>3. Seeded \in User
    BY <2>1, <2>2 DEF Seeded
  <2>4. Seeded.email = AdminEmail /\ Seeded.used = 0
    BY DEF Seeded
  <2> QED
    BY <2>3, <2>4, AccountsAssumption
<1>2. /\ user = [u \in Uids |-> IF u = Owner THEN Seeded ELSE NoUser] /\ users = {Owner}
      /\ emails = [e \in Emails |-> IF e = AdminEmail THEN Owner ELSE NoOne]
      /\ row = user /\ write = [w \in Writers |-> Idle] /\ doubt = {}
      /\ Owner \in Uids /\ MaxSize \in Nat /\ Quota \in Nat
  BY StorageAssumption DEF StorageInit
<1> HIDE DEF Seeded
<1>3. AccountInv
  <2>1. AccountTypes
    BY <1>1, <1>2 DEF AccountTypes, Idle
  <2>2. EmailsMatchUsers
    BY <1>1, <1>2, AccountsAssumption DEF EmailsMatchUsers
  <2>3. OneRowPerEmail
    BY <1>1, <1>2 DEF OneRowPerEmail, saved
  <2>4. \A u \in Uids : HasRow(u) /\ PrefsFollow(u) /\ OthersFollow(u)
    BY <1>2 DEF HasRow, SameAccount, PrefsFollow, OthersFollow
  <2>5. \A w \in Writers : WriteSound(w)
    BY <1>2 DEF WriteSound, Idle
  <2> QED
    BY <1>2, <2>1, <2>2, <2>3, <2>4, <2>5 DEF AccountInv
<1>4. used = 0 /\ user[Owner] # NoUser
  BY <1>1, <1>2 DEF used
<1>5. /\ files = [p \in Paths |-> NoFile] /\ disk = [p \in Paths |-> NoFile]
      /\ upload = [i \in Uploads |-> NoUpload] /\ removal = NoRemoval /\ drifted = FALSE
  BY DEF StorageInit
<1>6. StorageTypes
  <2>1. removal \in [stage : {"none", "unlinked", "dropped"}, path : Paths \cup {NoFile},
                     freed : 0..MaxSize] /\ removal.stage = "none"
    BY <1>2, <1>5 DEF NoRemoval
  <2> QED
    BY <1>5, <2>1, NothingUploaded DEF StorageTypes, Sized
<1>7. \A i \in Uploads : upload[i] = NoUpload /\ UploadSound(i)
  BY <1>2, <1>5, NothingUploaded DEF UploadSound
<1>8. Gained = 0 /\ Lost = 0 /\ Due = 0
  <2> DEFINE f == [i \in Uploads |-> upload[i].delta]
             g == [i \in Uploads |-> -upload[i].delta]
             h == [i \in Uploads |-> pending(i)]
  <2>1. \A i \in Uploads : f[i] = 0 /\ g[i] = 0 /\ h[i] = 0
    BY <1>7, NothingUploaded DEF pending
  <2>2. f \in [Uploads -> Int] /\ g \in [Uploads -> Int] /\ h \in [Uploads -> Int]
    <3>1. f = [i \in Uploads |-> f[i]] /\ g = [i \in Uploads |-> g[i]] /\ h = [i \in Uploads |-> h[i]]
      OBVIOUS
    <3> HIDE DEF f, g, h
    <3> QED
      BY <2>1, <3>1
  <2>3. Gained = Total(Uploads, f) /\ Lost = Total(Uploads, g) /\ Due = Total(Uploads, h)
    BY DEF Gained, Lost, Due
  <2> HIDE DEF f, g, h
  <2> QED
    BY <2>1, <2>2, <2>3, TotalOfNone
<1>9. Indexed = 0 /\ Freed = 0
  <2> DEFINE f == [p \in Paths |-> sizeOf(p)]
  <2>1. f \in [Paths -> Int] /\ \A p \in Paths : f[p] <= 0
    BY <1>5 DEF sizeOf
  <2>2. Indexed = Total(Paths, f)
    BY DEF Indexed
  <2> HIDE DEF f
  <2> QED
    BY <1>5, <2>1, <2>2, TotalOfNone DEF Freed, NoRemoval
<1>10. 0 <= Ceiling
  <2>1. Cardinality(Uploads) \in Nat /\ Cardinality(Uploads) # 0
    BY StorageAssumption, FS_CardinalityType, FS_EmptySet
  <2>2. \A n, m \in Nat : n # 0 => (n - 1) * m \in Nat
    OBVIOUS
  <2> QED
    BY <1>2, <2>1, <2>2 DEF Ceiling
<1>11. UsageFollowsIndex /\ used + Due <= Ceiling
  BY <1>4, <1>8, <1>9, <1>10 DEF UsageFollowsIndex
<1>12. WritesBounded
  BY <1>1, <1>2, <1>10 DEF WritesBounded, Idle
<1>13. NothingWithoutOwner
  BY <1>2 DEF NothingWithoutOwner
<1> QED
  BY <1>3, <1>4, <1>6, <1>7, <1>11, <1>12, <1>13 DEF StorageInv

LEMMA StorageStepKeeps == StorageInv /\ [StorageNext]_storageVars => StorageInv'
<1> SUFFICES ASSUME StorageInv, [StorageNext]_storageVars PROVE StorageInv'
  OBVIOUS
<1>1. CASE UNCHANGED storageVars
  BY <1>1, BesideKeeps DEF storageVars
<1>2. CASE \E i \in Uploads, p \in Paths, size \in 1..MaxSize : Upload(i, p, size)
  BY <1>2, UploadKeeps
<1>3. CASE \E i \in Uploads : OpenFile(i) \/ Copy(i) \/ CopyFails(i) \/ IndexFile(i) \/ CountFile(i)
  BY <1>3, OpenFileKeeps, CopyKeeps, CopyFailsKeeps, IndexFileKeeps, CountFileKeeps
<1>4. CASE (\E p \in Paths : Delete(p)) \/ DropEntry \/ CountRemoval
  BY <1>4, DeleteKeeps, DropEntryKeeps, CountRemovalKeeps
<1>5. CASE \/ \E w \in Writers : (ReadForWrite(w) \/ FinishWrite(w)) /\ UNCHANGED fileVars
           \/ SeedKnown /\ UNCHANGED fileVars
  BY <1>5, BesideKeeps
<1>6. CASE StorageRestart
  BY <1>6, StorageRestartKeeps
<1> QED
  BY <1>1, <1>2, <1>3, <1>4, <1>5, <1>6 DEF StorageNext

\* The counter is the sum of the index whatever uploads and removals of one
\* path overlap, and overlapping uploads exceed the quota by at most the
\* largest file for each but one of them, through late writes of the row and
\* restarts, for every number of uploads, paths and sizes.
THEOREM UsageWithinQuotaHolds == StorageSpec => []UsageWithinQuota
<1>1. StorageInv => UsageWithinQuota
  <2> SUFFICES ASSUME StorageInv PROVE used <= Ceiling
    BY DEF StorageInv, UsageWithinQuota, QuotaOvershootBounded, Ceiling
  <2> QED
    BY StorageValues, SumsAreNumbers DEF StorageInv
<1> QED
  BY <1>1, StorageInitHolds, StorageStepKeeps, PTL DEF StorageSpec


(***************************************************************************)
(* The detector, the reports and the settings.                              *)
(***************************************************************************)
Levels == {"critical", "high", "medium"}
Threat == [vm : VMs \cup {NoVM}, level : Levels]
levelsOf(vm) == {threats[n].level : n \in {k \in 1..Len(threats) : threats[k].vm = vm}}

\* A VM nobody has heard of has no threat, and no order paused it.
Explained(vm) ==
  /\ vmStates[vm] \in {"unknown", "clean", "flagged", "paused"}
  /\ vmStates[vm] = "unknown" => levelsOf(vm) = {} /\ ordered[vm] \in {"none", "resume"}
  /\ vmStates[vm] = "paused" => ordered[vm] = "pause" \/ "critical" \in levelsOf(vm)
  /\ vmStates[vm] = "flagged" => "high" \in levelsOf(vm)
  /\ vmStates[vm] = "clean" => ordered[vm] = "resume" \/ (levelsOf(vm) = {} /\ ordered[vm] = "none")

DetectorInv ==
  /\ threats \in Seq(Threat)
  /\ DOMAIN vmStates = VMs /\ DOMAIN ordered = VMs
  /\ reviewing \in [Reviewers -> VMs \cup {NoVM}]
  /\ \A vm \in VMs : Explained(vm)

\* No triage takes part before the first threat.
TriageInv ==
  /\ DOMAIN reports = Reports /\ DOMAIN acting = Reviewers
  /\ \A a \in Reviewers : acting[a].report \in Reports \/ acting[a] = NoAction
  /\ threats = << >> =>
       /\ ~ aiActive
       /\ \A a \in Reviewers : ~ acting[a].triaged

VerdictInv == DetectorInv /\ TriageInv /\ DecisionIsTheModerators

\* A threat more is one of its VM and of no other.
LEMMA ThreatAppended ==
  ASSUME DetectorInv, NEW x \in VMs \cup {NoVM}, NEW level \in Levels, threats' = Append(threats, threat(x, level))
  PROVE  /\ threats' \in Seq(Threat) /\ threats' # << >>
         /\ \A vm \in VMs : levelsOf(vm)' = IF vm = x THEN levelsOf(vm) \cup {level} ELSE levelsOf(vm)
<1>1. threat(x, level) \in Threat
  BY DEF threat, Threat
<1>2. /\ threats' \in Seq(Threat) /\ Len(threats') = Len(threats) + 1 /\ Len(threats) \in Nat
      /\ \A n \in 1..Len(threats) : threats'[n] = threats[n]
      /\ threats'[Len(threats) + 1] = threat(x, level)
  BY <1>1, AppendProperties DEF DetectorInv
<1>3. PICK last \in Nat \ {0} : last = Len(threats) + 1
  BY <1>2
<1>4. 1..Len(threats') = (1..Len(threats)) \cup {last} /\ last \notin 1..Len(threats)
  BY <1>2, <1>3
<1>5. threats'[last].vm = x /\ threats'[last].level = level
  BY <1>2, <1>3 DEF threat
<1>6. ASSUME NEW vm \in VMs PROVE levelsOf(vm)' = IF vm = x THEN levelsOf(vm) \cup {level} ELSE levelsOf(vm)
  <2>1. {k \in 1..Len(threats') : threats'[k].vm = vm} =
          {k \in 1..Len(threats) : threats[k].vm = vm} \cup (IF vm = x THEN {last} ELSE {})
    BY <1>2, <1>4, <1>5
  <2>2. \A n \in {k \in 1..Len(threats) : threats[k].vm = vm} : threats'[n].level = threats[n].level
    BY <1>2
  <2> QED
    BY <1>5, <2>1, <2>2 DEF levelsOf
<1>7. threats' # << >>
  BY <1>2
<1> QED
  BY <1>2, <1>6, <1>7

\* Of a VM whose threats stay, the state and the order are all that counts.
LEMMA ExplainedStays ==
  ASSUME NEW vm, Explained(vm), levelsOf(vm)' = levelsOf(vm), vmStates'[vm] = vmStates[vm], ordered'[vm] = ordered[vm]
  PROVE  Explained(vm)'
BY DEF Explained

LEMMA RecordExplained ==
  ASSUME DetectorInv, NEW x \in VMs, NEW level \in {"critical", "high"}, record(x, level), UNCHANGED <<ordered, reviewing>>
  PROVE  DetectorInv' /\ threats' # << >>
<1>1. /\ threats' = Append(threats, threat(x, level))
      /\ vmStates' = [vmStates EXCEPT ![x] = IF level = "critical" THEN "paused" ELSE "flagged"]
  BY DEF record
<1>2. level \in Levels /\ x \in VMs \cup {NoVM}
  BY DEF Levels
<1>3. /\ threats' \in Seq(Threat) /\ threats' # << >>
      /\ \A vm \in VMs : levelsOf(vm)' = IF vm = x THEN levelsOf(vm) \cup {level} ELSE levelsOf(vm)
  BY <1>1, <1>2, ThreatAppended
<1>4. ASSUME NEW vm \in VMs PROVE Explained(vm)'
  <2>1. CASE vm = x
    <3>1. level \in levelsOf(vm)'
      BY <1>3, <2>1
    <3>2. vmStates'[vm] = IF level = "critical" THEN "paused" ELSE "flagged"
      BY <1>1, <2>1 DEF DetectorInv
    <3> QED
      BY <3>1, <3>2 DEF Explained
  <2>2. CASE vm # x
    BY <1>1, <1>3, <2>2, ExplainedStays DEF DetectorInv
  <2> QED
    BY <2>1, <2>2
<1> QED
  BY <1>1, <1>3, <1>4 DEF DetectorInv

\* Steps that record no threat.
LEMMA QuietExplained ==
  ASSUME DetectorInv, threats' = threats, DOMAIN vmStates' = VMs, DOMAIN ordered' = VMs,
         reviewing' \in [Reviewers -> VMs \cup {NoVM}], NEW x,
         \A vm \in VMs : vm # x => vmStates'[vm] = vmStates[vm] /\ ordered'[vm] = ordered[vm],
         x \in VMs => Explained(x)'
  PROVE  DetectorInv'
<1>1. \A vm \in VMs : levelsOf(vm)' = levelsOf(vm)
  BY DEF levelsOf
<1>2. ASSUME NEW vm \in VMs PROVE Explained(vm)'
  <2>1. CASE vm = x
    BY <2>1
  <2>2. CASE vm # x
    BY <1>1, <2>2, ExplainedStays DEF DetectorInv
  <2> QED
    BY <2>1, <2>2
<1> QED
  BY <1>2 DEF DetectorInv

LEMMA ResumeExplained ==
  ASSUME DetectorInv, NEW x \in VMs \cup {NoVM}, ResumeVM(x), threats' = threats,
         reviewing' \in [Reviewers -> VMs \cup {NoVM}]
  PROVE  DetectorInv'
<1>1. levelsOf(x)' = levelsOf(x)
  BY DEF levelsOf
<1>2. x \in VMs => Explained(x)'
  BY <1>1 DEF ResumeVM, DetectorInv, Explained
<1>3. /\ DOMAIN vmStates' = VMs /\ DOMAIN ordered' = VMs
      /\ \A vm \in VMs : vm # x => vmStates'[vm] = vmStates[vm] /\ ordered'[vm] = ordered[vm]
  BY DEF ResumeVM, DetectorInv
<1> QED
  BY <1>2, <1>3, QuietExplained

LEMMA MetricsExplained ==
  ASSUME DetectorInv, NEW vm \in VMs, NEW m \in Metrics, AnalyzeMetrics(vm, m)
  PROVE  /\ DetectorInv'
         /\ threats' # << >> \/ UNCHANGED <<threats, aiActive>>
<1>1. /\ UNCHANGED <<ordered, reviewing>>
      /\ \/ record(vm, "critical") \/ record(vm, "high")
         \/ /\ vmStates' = [vmStates EXCEPT ![vm] = IF @ = "unknown" THEN "clean" ELSE @]
            /\ UNCHANGED <<threats, aiActive>>
  BY DEF AnalyzeMetrics
<1>2. CASE record(vm, "critical")
  BY <1>1, <1>2, RecordExplained
<1>3. CASE record(vm, "high")
  BY <1>1, <1>3, RecordExplained
<1>4. CASE /\ vmStates' = [vmStates EXCEPT ![vm] = IF @ = "unknown" THEN "clean" ELSE @]
           /\ UNCHANGED <<threats, aiActive>>
  <2>1. levelsOf(vm)' = levelsOf(vm)
    BY <1>4 DEF levelsOf
  <2>2. Explained(vm)'
    BY <1>1, <1>4, <2>1 DEF DetectorInv, Explained
  <2>3. /\ DOMAIN vmStates' = VMs /\ DOMAIN ordered' = VMs
        /\ reviewing' \in [Reviewers -> VMs \cup {NoVM}]
        /\ \A v \in VMs : v # vm => vmStates'[v] = vmStates[v] /\ ordered'[v] = ordered[v]
    BY <1>1, <1>4 DEF DetectorInv
  <2> QED
    BY <1>4, <2>2, <2>3, QuietExplained
<1> QED
  BY <1>1, <1>2, <1>3, <1>4

\* What the detector's steps keep, and what they leave of its threats.
LEMMA DetectorStepInv ==
  ASSUME DetectorInv, DetectorStep
  PROVE  /\ DetectorInv'
         /\ threats' # << >> \/ UNCHANGED <<threats, aiActive>>
<1>1. ASSUME NEW vm \in VMs, NEW m \in Metrics, handleHostMetrics(vm, m) \/ ReportMetrics(vm, m)
      PROVE  DetectorInv' /\ (threats' # << >> \/ UNCHANGED <<threats, aiActive>>)
  BY <1>1, MetricsExplained DEF handleHostMetrics, ReportMetrics
<1>2. ASSUME NEW vm \in VMs, NEW kind \in {"miner", "tool"}, ReportProcess(vm, kind)
      PROVE  DetectorInv' /\ threats' # << >>
  BY <1>2, RecordExplained DEF ReportProcess, AnalyzeProcessList
<1>3. ASSUME NEW vm \in VMs, PauseVM(vm)
      PROVE  DetectorInv' /\ UNCHANGED <<threats, aiActive>>
  <2>1. /\ vmStates' = [vmStates EXCEPT ![vm] = "paused"] /\ ordered' = [ordered EXCEPT ![vm] = "pause"]
        /\ UNCHANGED <<threats, aiActive, reviewing>>
    BY <1>3 DEF PauseVM
  <2>2. Explained(vm)'
    BY <2>1 DEF DetectorInv, Explained
  <2>3. /\ DOMAIN vmStates' = VMs /\ DOMAIN ordered' = VMs
        /\ reviewing' \in [Reviewers -> VMs \cup {NoVM}]
        /\ \A v \in VMs : v # vm => vmStates'[v] = vmStates[v] /\ ordered'[v] = ordered[v]
    BY <2>1 DEF DetectorInv
  <2> QED
    BY <2>1, <2>2, <2>3, QuietExplained
<1>4. ASSUME NEW vm \in VMs, AdminResumeVM(vm)
      PROVE  DetectorInv' /\ UNCHANGED <<threats, aiActive>>
  <2>1. ResumeVM(vm) /\ UNCHANGED <<threats, aiActive, reviewing>>
    BY <1>4 DEF AdminResumeVM
  <2>2. reviewing' \in [Reviewers -> VMs \cup {NoVM}]
    BY <2>1 DEF DetectorInv
  <2> QED
    BY <2>1, <2>2, ResumeExplained
<1>5. ASSUME AnalyzeTraffic PROVE DetectorInv' /\ threats' # << >>
  <2>1. threats' = Append(threats, threat(NoVM, "medium")) /\ UNCHANGED <<vmStates, ordered, reviewing>>
    BY <1>5 DEF AnalyzeTraffic
  <2>2. "medium" \in Levels /\ NoVM \in VMs \cup {NoVM}
    BY DEF Levels
  <2>3. /\ threats' \in Seq(Threat) /\ threats' # << >>
        /\ \A vm \in VMs : levelsOf(vm)' = IF vm = NoVM THEN levelsOf(vm) \cup {"medium"} ELSE levelsOf(vm)
    BY <2>1, <2>2, ThreatAppended
  <2>4. \A vm \in VMs : Explained(vm)'
    BY <2>1, <2>3, OversightAssumption, ExplainedStays DEF DetectorInv
  <2> QED
    BY <2>1, <2>3, <2>4 DEF DetectorInv
<1>6. ASSUME NEW a \in Reviewers, NEW n \in 1..MaxThreats, NEW resume \in BOOLEAN, ReviewThreat(a, n, resume)
      PROVE  DetectorInv' /\ UNCHANGED <<threats, aiActive>>
  <2>1. /\ n \in 1..Len(threats)
        /\ reviewing' = [reviewing EXCEPT ![a] = IF resume THEN threats[n].vm ELSE NoVM]
        /\ UNCHANGED <<vmStates, threats, aiActive, ordered>>
    BY <1>6 DEF ReviewThreat
  <2>2. threats[n] \in Threat
    BY <2>1 DEF DetectorInv
  <2>3. reviewing' \in [Reviewers -> VMs \cup {NoVM}]
    BY <2>1, <2>2 DEF DetectorInv, Threat
  <2>4. /\ DOMAIN vmStates' = VMs /\ DOMAIN ordered' = VMs
        /\ \A v \in VMs : vmStates'[v] = vmStates[v] /\ ordered'[v] = ordered[v]
    BY <2>1 DEF DetectorInv
  <2> QED
    BY <2>1, <2>3, <2>4, OversightAssumption, QuietExplained
<1>7. ASSUME NEW a \in Reviewers, ResumeReviewed(a)
      PROVE  DetectorInv' /\ UNCHANGED <<threats, aiActive>>
  <2>1. ResumeVM(reviewing[a]) /\ reviewing' = [reviewing EXCEPT ![a] = NoVM] /\ UNCHANGED <<threats, aiActive>>
    BY <1>7 DEF ResumeReviewed
  <2>2. reviewing[a] \in VMs \cup {NoVM} /\ reviewing' \in [Reviewers -> VMs \cup {NoVM}]
    BY <2>1 DEF DetectorInv
  <2> QED
    BY <2>1, <2>2, ResumeExplained
<1> QED
  BY <1>1, <1>2, <1>3, <1>4, <1>5, <1>6, <1>7 DEF DetectorStep

\* What a moderator's action does to the reports.
LEMMA ReportStepInv ==
  ASSUME TriageInv, DecisionIsTheModerators, ReportStep, UNCHANGED detectorVars
  PROVE  TriageInv' /\ DecisionIsTheModerators'
<1>1. threats' = threats /\ aiActive' = aiActive
  BY DEF detectorVars
<1>2. ASSUME NEW r \in Reports, CreateReport(r) PROVE TriageInv' /\ DecisionIsTheModerators'
  <2>1. reports' = [reports EXCEPT ![r].status = "pending"] /\ UNCHANGED <<acting, syncs>>
    BY <1>2 DEF CreateReport
  <2>2. TriageInv'
    BY <1>1, <2>1 DEF TriageInv
  <2>3. reports'[r].status = "pending" /\ \A q \in Reports : q # r => reports'[q] = reports[q]
    BY <1>2, <2>1 DEF TriageInv, CreateReport, NoReport
  <2> QED
    BY <1>1, <2>2, <2>3 DEF DecisionIsTheModerators
<1>3. ASSUME NEW a \in Reviewers, NEW r \in Reports, NEW action \in {"warn", "ban", "resolve"}, BeginAction(a, r, action)
      PROVE  TriageInv' /\ DecisionIsTheModerators'
  <2>1. /\ acting' = [acting EXCEPT ![a] = [report |-> r, action |-> action, triaged |-> aiActive]]
        /\ UNCHANGED <<reports, syncs>>
    BY <1>3 DEF BeginAction
  <2>2. TriageInv'
    BY <1>1, <2>1 DEF TriageInv
  <2> QED
    BY <1>1, <2>1, <2>2 DEF DecisionIsTheModerators
<1>4. ASSUME NEW a \in Reviewers, UpdateReport(a) PROVE TriageInv' /\ DecisionIsTheModerators'
  <2> DEFINE call == acting[a]
  <2>1. /\ call # NoAction /\ acting' = [acting EXCEPT ![a] = NoAction]
        /\ UNCHANGED syncs
    BY <1>4 DEF UpdateReport
  <2>2. PICK decision \in decisions(call) :
          reports' = IF reports[call.report] = NoReport THEN reports
                     ELSE [reports EXCEPT ![call.report] =
                             [status |-> reportActionStatus(call.action), reviewer |-> a, action |-> decision]]
    BY <1>4 DEF UpdateReport
  <2>3. ~ NoAction.triaged
    BY DEF NoAction
  <2>4. TriageInv'
    BY <1>1, <2>1, <2>2, <2>3 DEF TriageInv
  <2>5. decision = call.action \/ (threats # << >> /\ decision \in Suggestions \ {"ignore"})
    BY <2>2 DEF TriageInv, decisions, LLMTriage, HeuristicTriage
  <2>6. call.report \in Reports
    BY <2>1 DEF TriageInv
  <2>7. \A q \in Reports :
          \/ reports'[q] = reports[q]
          \/ reports'[q] = [status |-> reportActionStatus(call.action), reviewer |-> a, action |-> decision]
    BY <2>2, <2>6 DEF TriageInv
  <2> QED
    BY <1>1, <2>4, <2>5, <2>7 DEF DecisionIsTheModerators
<1>5. ASSUME CreateSyncRequest \/ ApproveSyncRequest PROVE TriageInv' /\ DecisionIsTheModerators'
  BY <1>1, <1>5 DEF CreateSyncRequest, ApproveSyncRequest, TriageInv, DecisionIsTheModerators
<1> QED
  BY <1>2, <1>3, <1>4, <1>5 DEF ReportStep

LEMMA VerdictStep == VerdictInv /\ [OversightNext]_oversightVars => VerdictInv'
<1> SUFFICES ASSUME VerdictInv, [OversightNext]_oversightVars PROVE VerdictInv'
  OBVIOUS
<1>1. CASE DetectorNext
  <2>1. DetectorInv' /\ (threats' # << >> \/ UNCHANGED <<threats, aiActive>>)
    BY <1>1, DetectorStepInv DEF DetectorNext, VerdictInv
  <2>2. UNCHANGED <<reports, acting>>
    BY <1>1 DEF DetectorNext, reportVars
  <2> QED
    BY <2>1, <2>2 DEF VerdictInv, TriageInv, DecisionIsTheModerators
<1>2. CASE UNCHANGED detectorVars
  <2>1. DetectorInv'
    <3>1. /\ threats' = threats /\ vmStates' = vmStates /\ ordered' = ordered /\ reviewing' = reviewing
      BY <1>2 DEF detectorVars
    <3>2. /\ DOMAIN vmStates' = VMs /\ DOMAIN ordered' = VMs
          /\ reviewing' \in [Reviewers -> VMs \cup {NoVM}]
          /\ \A v \in VMs : vmStates'[v] = vmStates[v] /\ ordered'[v] = ordered[v]
      BY <3>1 DEF VerdictInv, DetectorInv
    <3>3. DetectorInv /\ NoVM \notin VMs
      BY OversightAssumption DEF VerdictInv
    <3> QED
      BY <3>1, <3>2, <3>3, QuietExplained
  <2>2. CASE ReportStep
    BY <1>2, <2>1, <2>2, ReportStepInv DEF VerdictInv
  <2>3. CASE UNCHANGED reportVars
    <3>1. /\ threats' = threats /\ aiActive' = aiActive /\ reports' = reports /\ acting' = acting
      BY <1>2, <2>3 DEF detectorVars, reportVars
    <3> QED
      BY <2>1, <3>1 DEF VerdictInv, TriageInv, DecisionIsTheModerators
  <2>4. ReportStep \/ UNCHANGED reportVars \/ DetectorNext
    BY DEF OversightNext, ReportsNext, AdminNext, oversightVars
  <2> QED
    BY <1>1, <2>2, <2>3, <2>4
<1> QED
  BY <1>1, <1>2 DEF OversightNext, ReportsNext, AdminNext, oversightVars

\* A detected domain is stored only where there is none.
LEMMA DetectionStep == OversightNext => (domain # "" /\ domain' # domain => detecting' = detecting)
<1> SUFFICES ASSUME OversightNext PROVE domain # "" /\ domain' # domain => detecting' = detecting
  OBVIOUS
<1>1. CASE AdminStep
  BY <1>1 DEF AdminStep, StoreDetected, AutoDetectDomain, Settings, UpdateSettings
<1>2. CASE UNCHANGED adminVars
  BY <1>2 DEF adminVars
<1> QED
  BY <1>1, <1>2 DEF OversightNext, DetectorNext, ReportsNext, AdminNext

\* Whatever the gateway says of a VM, a report or its domain, somebody or
\* something it still knows of said so first (detector.go, report.go, admin.go).
THEOREM VerdictsExplainedHolds == OversightSpec => VerdictsExplained
<1>1. OversightInit => VerdictInv
  <2> SUFFICES ASSUME OversightInit PROVE VerdictInv
    OBVIOUS
  <2>0. threats = << >>
    BY DEF OversightInit
  <2>1. threats = << >> /\ Len(threats) = 0 /\ threats \in Seq(Threat)
    BY <2>0, EmptySeq
  <2>2. \A vm \in VMs : levelsOf(vm) = {}
    BY <2>1 DEF levelsOf
  <2> QED
    BY <2>1, <2>2 DEF OversightInit, VerdictInv, DetectorInv, Explained, TriageInv, DecisionIsTheModerators, NoReport, NoAction
<1>2. VerdictInv => StateIsExplained /\ DecisionIsTheModerators
  BY DEF VerdictInv, DetectorInv, Explained, StateIsExplained, levelsOf
<1>3. [OversightNext]_oversightVars => [domain # "" /\ domain' # domain => detecting' = detecting]_adminVars
  BY DetectionStep DEF oversightVars
<1> QED
  BY <1>1, <1>2, <1>3, VerdictStep, PTL DEF OversightSpec, VerdictsExplained, DetectionNeverReplaces

=============================================================================
