---------------------------- MODULE Credentials ----------------------------
(***************************************************************************)
(* Passwords, refresh tokens and reset links of an account.                *)
(*                                                                         *)
(* A session is a row of RefreshToken; refreshing replaces the row.        *)
(* register, login and refresh read the user, work on a hash for hundreds  *)
(* of milliseconds or await other statements, and insert their row at the  *)
(* very end (generateTokens).  A change of password or a deletion writes   *)
(* the user in one statement or transaction and removes the user's rows in *)
(* a later one (removeAllForUser).  Everything that awaits can interleave, *)
(* and a handler can die after any statement.                              *)
(*                                                                         *)
(* A password is the number of the write that set it; 0 is the random one  *)
(* of an absent or deleted account, which nobody knows.  Clearing the push *)
(* token at logout belongs to Profile, open calls to SosTrigger and        *)
(* Dispatch.                                                               *)
(***************************************************************************)
EXTENDS Naturals, FiniteSets

CONSTANTS
    Accounts,     \* User ids
    Tokens,       \* refresh tokens, each signed at most once (jti)
    Links,        \* password reset tokens
    Requests,     \* handlers running at the same time
    NoAccount,    \* belongs to nobody yet
    NoToken,      \* a request that presents no refresh token
    NoLink,       \* a request that presents no reset link
    MaxPasswords  \* bound: writes of a password to one account

ASSUME NullAssumption ==
    NoAccount \notin Accounts /\ NoToken \notin Tokens /\ NoLink \notin Links

ASSUME BoundAssumption == MaxPasswords \in Nat \ {0}

VARIABLES
    role,         \* [Accounts -> {"USER", "OPERATOR"}], User.role
    account,      \* [Accounts -> {"absent", "active", "deleted"}]
    password,     \* [Accounts -> 0..MaxPasswords], User.password
    writes,       \* history: how many passwords were set to the account
    subject,      \* [Tokens -> Accounts or nobody], sub of the signed token
    rows,         \* SUBSET Tokens, table RefreshToken
    expired,      \* SUBSET rows, those whose expiresAt has passed
    openedBy,     \* history: the password by which the session was opened
    link,         \* [Links -> {"absent", "valid", "expired", "gone"}]
    linkOf,       \* [Links -> Accounts or nobody], PasswordResetToken.userId
    linkUses,     \* history: passwords set through the link
    request,      \* [Requests -> RequestState]
    slipped,      \* history: sessions a revocation could not reach
    overtaken     \* history: accounts deleted under a password request

users == <<role, account, password, writes>>
sessions == <<subject, rows, expired, openedBy>>
links == <<link, linkOf, linkUses>>
history == <<slipped, overtaken>>
vars == <<users, sessions, links, request, history>>

-----------------------------------------------------------------------------
Idle == [at |-> "idle", who |-> NoAccount, token |-> NoToken, link |-> NoLink,
         by |-> 0, missed |-> FALSE]

\* by: the password the new session will be opened by.  missed: a revocation of
\* the account ran while the request was under way.
RequestState ==
    [at     : {"idle", "create", "isValid", "readUser", "rotate", "store", "remove",
               "createLink", "commitReset", "commitPassword", "commitDelete", "revoke"},
     who    : Accounts \cup {NoAccount},
     token  : Tokens \cup {NoToken},
     link   : Links \cup {NoLink},
     by     : 0..MaxPasswords,
     missed : BOOLEAN]

WellFormed(q) ==
    /\ q.at # "idle" => q.who \in Accounts
    /\ q.at \in {"isValid", "readUser", "rotate", "remove"} => q.token \in Tokens
    /\ q.at = "commitReset" => q.link \in Links /\ linkOf[q.link] = q.who

TypeOK ==
    /\ role \in [Accounts -> {"USER", "OPERATOR"}]
    /\ account \in [Accounts -> {"absent", "active", "deleted"}]
    /\ password \in [Accounts -> 0..MaxPasswords]
    /\ writes \in [Accounts -> 0..MaxPasswords]
    /\ subject \in [Tokens -> Accounts \cup {NoAccount}]
    /\ rows \subseteq {t \in Tokens : subject[t] \in Accounts}
    /\ expired \subseteq rows
    /\ openedBy \in [Tokens -> 0..MaxPasswords]
    /\ link \in [Links -> {"absent", "valid", "expired", "gone"}]
    /\ linkOf \in [Links -> Accounts \cup {NoAccount}]
    /\ linkUses \in [Links -> Nat]
    /\ request \in [Requests -> RequestState]
    /\ \A r \in Requests : WellFormed(request[r])
    /\ slipped \subseteq Tokens
    /\ overtaken \subseteq Accounts

Init ==
    /\ role \in [Accounts -> {"USER", "OPERATOR"}]
    /\ account = [a \in Accounts |-> "absent"]
    /\ password = [a \in Accounts |-> 0]
    /\ writes = [a \in Accounts |-> 0]
    /\ subject = [t \in Tokens |-> NoAccount]
    /\ rows = {}
    /\ expired = {}
    /\ openedBy = [t \in Tokens |-> 0]
    /\ link = [l \in Links |-> "absent"]
    /\ linkOf = [l \in Links |-> NoAccount]
    /\ linkUses = [l \in Links |-> 0]
    /\ request = [r \in Requests |-> Idle]
    /\ slipped = {}
    /\ overtaken = {}

-----------------------------------------------------------------------------
At(r, at) == request[r].at = at

Who(r) == request[r].who

Receive(r, new) ==
    /\ request[r] = Idle
    /\ request' = [request EXCEPT ![r] = new]
    /\ UNCHANGED <<users, sessions, links, history>>

Answer(r) == request' = [request EXCEPT ![r] = Idle]

MoveTo(r, at) == request' = [request EXCEPT ![r].at = at]

RowsOf(a) == {t \in rows : subject[t] = a}

RemoveRows(ts) ==
    /\ rows' = rows \ ts
    /\ expired' = expired \ ts

\* The number of the password written now.
SetPassword(a) ==
    /\ writes[a] < MaxPasswords
    /\ writes' = [writes EXCEPT ![a] = @ + 1]
    /\ password' = [password EXCEPT ![a] = writes[a] + 1]

-----------------------------------------------------------------------------
(* register and createOperator: the e-mail address is free, then the hash, *)
(* then the row.  The unique index on the address lets one of two through. *)

ReceiveRegister(r, a) ==
    /\ account[a] = "absent"
    /\ Receive(r, [Idle EXCEPT !.at = "create", !.who = a])

CreateAccount(r) ==
    /\ At(r, "create")
    /\ account[Who(r)] = "absent"
    /\ account' = [account EXCEPT ![Who(r)] = "active"]
    /\ SetPassword(Who(r))
    /\ IF role[Who(r)] = "USER"
       THEN request' = [request EXCEPT ![r].at = "store", ![r].by = 1]
       ELSE Answer(r)
    /\ UNCHANGED <<role, sessions, links, history>>

AddressTaken(r) ==
    /\ At(r, "create")
    /\ account[Who(r)] # "absent"
    /\ Answer(r)
    /\ UNCHANGED <<users, sessions, links, history>>

-----------------------------------------------------------------------------
(* login: one read gives the hash and deletedAt, then bcrypt compares.  A  *)
(* wrong password changes nothing, so only the right one is a step.        *)

ReceiveLogin(r, a) ==
    /\ account[a] = "active"
    /\ password[a] # 0
    /\ Receive(r, [Idle EXCEPT !.at = "store", !.who = a, !.by = password[a]])

-----------------------------------------------------------------------------
(* refresh: the signature, the row, the user, then the rotation.           *)

ReceiveRefresh(r, t) ==
    /\ subject[t] # NoAccount
    /\ t \notin expired
    /\ Receive(r, [Idle EXCEPT !.at = "isValid", !.who = subject[t], !.token = t])

\* RefreshTokenService.isValid; reuse is rejected and costs no other session.
IsValid(r) ==
    /\ At(r, "isValid")
    /\ IF request[r].token \in rows \ expired THEN MoveTo(r, "readUser") ELSE Answer(r)
    /\ UNCHANGED <<users, sessions, links, history>>

ReadUser(r) ==
    /\ At(r, "readUser")
    /\ IF account[Who(r)] = "active" THEN MoveTo(r, "rotate") ELSE Answer(r)
    /\ UNCHANGED <<users, sessions, links, history>>

\* remove() is a deleteMany: that the row is gone by now stops nobody.
Rotate(r) ==
    /\ At(r, "rotate")
    /\ RemoveRows({request[r].token})
    /\ request' = [request EXCEPT ![r].at = "store",
                                  ![r].by = openedBy[request[r].token],
                                  ![r].missed = @ \/ request[r].token \in slipped]
    /\ UNCHANGED <<users, subject, openedBy, links, history>>

\* Mutant: no jti, so that a token of the same second equals an earlier one.
AnyToken(t, a) == t \notin rows /\ subject[t] \in {NoAccount, a}

\* jti makes every signed token a new one.
FreshToken(t, a) == subject[t] = NoAccount

\* generateTokens, the end of register, login and refresh.
Store(r, t) ==
    /\ At(r, "store")
    /\ FreshToken(t, Who(r))
    /\ subject' = [subject EXCEPT ![t] = Who(r)]
    /\ rows' = rows \cup {t}
    /\ openedBy' = [openedBy EXCEPT ![t] = request[r].by]
    /\ slipped' = IF request[r].missed THEN slipped \cup {t} ELSE slipped
    /\ Answer(r)
    /\ UNCHANGED <<users, expired, links, overtaken>>

-----------------------------------------------------------------------------
(* logout, by an active account (JwtStrategy.validate).                    *)

ReceiveLogout(r, a, t) ==
    /\ account[a] = "active"
    /\ subject[t] # NoAccount
    /\ Receive(r, [Idle EXCEPT !.at = "remove", !.who = a, !.token = t])

RemoveToken(r) ==
    /\ At(r, "remove")
    /\ RemoveRows({request[r].token})
    /\ Answer(r)
    /\ UNCHANGED <<users, subject, openedBy, links, history>>

-----------------------------------------------------------------------------
(* forgotPassword and resetPassword.                                       *)

ReceiveForgot(r, a) ==
    /\ account[a] = "active"
    /\ Receive(r, [Idle EXCEPT !.at = "createLink", !.who = a])

CreateLink(r, l) ==
    /\ At(r, "createLink")
    /\ link[l] = "absent"
    /\ link' = [link EXCEPT ![l] = "valid"]
    /\ linkOf' = [linkOf EXCEPT ![l] = Who(r)]
    /\ Answer(r)
    /\ UNCHANGED <<users, sessions, linkUses, history>>

ReceiveReset(r, l) ==
    /\ link[l] = "valid"
    /\ Receive(r, [Idle EXCEPT !.at = "commitReset", !.who = linkOf[l], !.link = l])

LinkIsThere(l) == link[l] \in {"valid", "expired"}

\* Mutant: deleteMany instead of delete, which a missing row does not stop.
CommitResetAlways(r) ==
    /\ At(r, "commitReset")
    /\ SetPassword(Who(r))
    /\ link' = [link EXCEPT ![request[r].link] = "gone"]
    /\ linkUses' = [linkUses EXCEPT ![request[r].link] = @ + 1]
    /\ MoveTo(r, "revoke")
    /\ UNCHANGED <<role, account, sessions, linkOf, history>>

\* The password and the link in one transaction: if the link is gone, P2025
\* undoes the password too.
CommitReset(r) ==
    /\ At(r, "commitReset")
    /\ LinkIsThere(request[r].link)
    /\ SetPassword(Who(r))
    /\ link' = [link EXCEPT ![request[r].link] = "gone"]
    /\ linkUses' = [linkUses EXCEPT ![request[r].link] = @ + 1]
    /\ MoveTo(r, "revoke")
    /\ UNCHANGED <<role, account, sessions, linkOf, history>>

RollBackReset(r) ==
    /\ At(r, "commitReset")
    /\ ~LinkIsThere(request[r].link)
    /\ Answer(r)
    /\ UNCHANGED <<users, sessions, links, history>>

-----------------------------------------------------------------------------
(* setOperatorPassword: the operator exists, the hash, then the UPDATE by  *)
(* id alone.                                                               *)

ReceiveSetPassword(r, a) ==
    /\ role[a] = "OPERATOR"
    /\ account[a] = "active"
    /\ Receive(r, [Idle EXCEPT !.at = "commitPassword", !.who = a])

CommitPassword(r) ==
    /\ At(r, "commitPassword")
    /\ SetPassword(Who(r))
    /\ MoveTo(r, "revoke")
    /\ UNCHANGED <<role, account, sessions, links, history>>

-----------------------------------------------------------------------------
(* deleteAccount and deleteOperator.                                       *)

ReceiveDelete(r, a) ==
    /\ account[a] = "active"
    /\ Receive(r, [Idle EXCEPT !.at = "commitDelete", !.who = a])

\* Requests that will still write a password or a way to one.
PasswordRequests(a) ==
    {q \in Requests : Who(q) = a /\ request[q].at \in {"createLink", "commitPassword"}}

\* Mutant: the transaction leaves the reset links alone.
LinksStay(a) == UNCHANGED <<link, linkOf, linkUses>>

DeleteLinks(a) ==
    /\ link' = [l \in Links |-> IF linkOf[l] = a THEN "gone" ELSE link[l]]
    /\ UNCHANGED <<linkOf, linkUses>>

CommitDelete(r) ==
    /\ At(r, "commitDelete")
    /\ account' = [account EXCEPT ![Who(r)] = "deleted"]
    /\ password' = [password EXCEPT ![Who(r)] = 0]
    /\ DeleteLinks(Who(r))
    /\ MoveTo(r, "revoke")
    /\ overtaken' = IF PasswordRequests(Who(r)) # {}
                    THEN overtaken \cup {Who(r)} ELSE overtaken
    /\ UNCHANGED <<role, writes, sessions, slipped>>

-----------------------------------------------------------------------------
\* Mutant: removeAllForUser is left out.
RevokedRows(a) == {}

\* removeAllForUser, after the password or the deletion is committed.  What is
\* about to store a row is not reached.
Revoked(a) == RowsOf(a)

Revoke(r) ==
    /\ At(r, "revoke")
    /\ RemoveRows(Revoked(Who(r)))
    /\ request' = [q \in Requests |->
                     IF q = r THEN Idle
                     ELSE IF Who(q) = Who(r) THEN [request[q] EXCEPT !.missed = TRUE]
                     ELSE request[q]]
    /\ UNCHANGED <<users, subject, openedBy, links, history>>

\* The process dies or a statement fails.  A revocation that does not run leaves
\* every session of the account behind, and nothing tries again.
Fail(r) ==
    /\ request[r] # Idle
    /\ IF At(r, "revoke")
       THEN /\ slipped' = slipped \cup RowsOf(Who(r))
            /\ request' = [q \in Requests |->
                             IF q = r THEN Idle
                             ELSE IF Who(q) = Who(r) THEN [request[q] EXCEPT !.missed = TRUE]
                             ELSE request[q]]
       ELSE /\ UNCHANGED slipped
            /\ Answer(r)
    /\ UNCHANGED <<users, sessions, links, overtaken>>

-----------------------------------------------------------------------------
(* Time, and the hourly cleanup.                                           *)

ExpireToken(t) ==
    /\ t \in rows \ expired
    /\ expired' = expired \cup {t}
    /\ UNCHANGED <<users, subject, rows, openedBy, links, request, history>>

ExpireLink(l) ==
    /\ link[l] = "valid"
    /\ link' = [link EXCEPT ![l] = "expired"]
    /\ UNCHANGED <<users, sessions, linkOf, linkUses, request, history>>

RemoveExpired ==
    /\ expired # {}
    /\ RemoveRows(expired)
    /\ UNCHANGED <<users, subject, openedBy, links, request, history>>

-----------------------------------------------------------------------------
SessionSteps(r) ==
    \/ CreateAccount(r) \/ AddressTaken(r)
    \/ IsValid(r) \/ ReadUser(r) \/ Rotate(r) \/ RemoveToken(r)
    \/ \E t \in Tokens : Store(r, t)

PasswordSteps(r) ==
    \/ \E l \in Links : CreateLink(r, l)
    \/ CommitReset(r) \/ RollBackReset(r) \/ CommitPassword(r)
    \/ CommitDelete(r) \/ Revoke(r)

Receives(r) ==
    \/ \E a \in Accounts :
        \/ ReceiveRegister(r, a) \/ ReceiveLogin(r, a) \/ ReceiveForgot(r, a)
        \/ ReceiveSetPassword(r, a) \/ ReceiveDelete(r, a)
        \/ \E t \in Tokens : ReceiveLogout(r, a, t)
    \/ \E t \in Tokens : ReceiveRefresh(r, t)
    \/ \E l \in Links : ReceiveReset(r, l)

Next ==
    \/ \E r \in Requests : Receives(r) \/ SessionSteps(r) \/ PasswordSteps(r) \/ Fail(r)
    \/ \E t \in Tokens : ExpireToken(t)
    \/ \E l \in Links : ExpireLink(l)
    \/ RemoveExpired

Spec == Init /\ [][Next]_vars

-----------------------------------------------------------------------------
\* resetPassword and setOperatorPassword end the sessions opened by an earlier
\* password, except those a request in flight was about to store, their heirs,
\* and those of a revocation that failed.
OldSessionsEnd ==
    \A t \in rows \ slipped :
        \/ openedBy[t] = password[subject[t]]
        \/ \E r \in Requests : At(r, "revoke") /\ Who(r) = subject[t]

\* generateTokens: a refresh token that was rotated, logged out or revoked stays
\* dead; no later session brings its row back.
NoResurrection ==
    [][\A t \in Tokens : subject[t] # NoAccount /\ t \notin rows => t \notin rows']_vars

\* A deleted account keeps a password nobody knows, although links to set one
\* were sent before: unless one was being made, or the administrator's change
\* was under way, at the moment of the deletion.
DeletedStaysLocked ==
    \A a \in Accounts \ overtaken : account[a] = "deleted" => password[a] = 0

\* One letter changes the password once, however often the link is pressed.
LinkWorksOnce == \A l \in Links : linkUses[l] <= 1

-----------------------------------------------------------------------------
(* What the code says and does not keep: see section 5 of README.md.      *)

\* «Старые сессии должны закончиться вместе со старым паролем.»
OldSessionsEndWithPassword ==
    \A t \in rows :
        \/ openedBy[t] = password[subject[t]]
        \/ \E r \in Requests : At(r, "revoke") /\ Who(r) = subject[t]
=============================================================================
